----------------------- MODULE HandshakeRoutesProofs -----------------------
(***************************************************************************)
(* What holds of HandshakeRoutes for every set of interfaces, peers and    *)
(* prefixes.  The agreement of the daemon's memory with the kernel is      *)
(* proved from three hypotheses about its surroundings, each of which the  *)
(* code takes for granted and nothing in it enforces.                      *)
(***************************************************************************)
EXTENDS HandshakeRoutes, TLAPS

(* Every allowed_ips entry is spelled the way the kernel spells it. *)
CanonicalConfigs ==
  \A f \in Configs : \A p \in Peer : \A c \in f[p] : Canon[c] = c

(* No prefix is configured on two interfaces. *)
DisjointConfigs ==
  \A f \in Configs : \A p, q \in Peer : Home[p] # Home[q] => f[p] \cap f[q] = {}

(* Nobody else takes the daemon's routes away. *)
NoLinkCycles == "flush" \notin Faults

USE NamesAssumption, CidrAssumption, ConfigAssumption, BoundAssumption

-----------------------------------------------------------------------------

LEMMA TypeInit == Init => TypeOK
BY DEF Init, TypeOK, Dest, AgeCap, NothingInstalled

LEMMA TypeStep == TypeOK /\ [Next]_vars => TypeOK'
<1> USE DEF TypeOK, Dest, AgeCap, NothingInstalled
<1> SUFFICES ASSUME TypeOK, [Next]_vars
             PROVE  TypeOK'
  OBVIOUS
<1>1. CASE Tick
  BY <1>1 DEF Tick, passVars
<1>2. ASSUME NEW p \in Peer, Handshake(p)
      PROVE  TypeOK'
  BY <1>2 DEF Handshake, passVars
<1>3. ASSUME NEW i \in Iface, LinkCycle(i)
      PROVE  TypeOK'
  BY <1>3 DEF LinkCycle, passVars
<1>4. CASE Stop
  BY <1>4 DEF Stop
<1>5. CASE Start
  BY <1>5 DEF Start
<1>6. ASSUME NEW i \in Iface,
             SeedOk(i) \/ SeedFailed(i) \/ DumpOk(i) \/ DumpFailed(i)
      PROVE  TypeOK'
  <2>1. CASE SeedOk(i)
    BY <2>1 DEF SeedOk, RoutesByProtocol
  <2>2. CASE SeedFailed(i)
    BY <2>2 DEF SeedFailed
  <2>3. CASE DumpOk(i)
    BY <2>3 DEF DumpOk
  <2>4. CASE DumpFailed(i)
    BY <2>4 DEF DumpFailed
  <2>5. QED
    BY <1>6, <2>1, <2>2, <2>3, <2>4
<1>7. CASE PassBegin
  BY <1>7 DEF PassBegin
<1>8. ASSUME NEW c \in Cidr,
             \/ AddKnown(c) \/ AddOk(c) \/ AddFailed(c)
             \/ DelOk(c) \/ DelFailed(c)
      PROVE  TypeOK'
  <2>1. CASE AddKnown(c)
    BY <2>1 DEF AddKnown
  <2>2. CASE AddOk(c)
    BY <2>2 DEF AddOk
  <2>3. CASE AddFailed(c)
    BY <2>3 DEF AddFailed
  <2>4. CASE DelOk(c)
    BY <2>4 DEF DelOk
  <2>5. CASE DelFailed(c)
    BY <2>5 DEF DelFailed
  <2>6. QED
    BY <1>8, <2>1, <2>2, <2>3, <2>4, <2>5
<1>9. CASE AddsDone
  BY <1>9 DEF AddsDone
<1>10. CASE DelsDone
  BY <1>10 DEF DelsDone
<1>11. CASE Publish
  BY <1>11 DEF Publish, passVars
<1>12. CASE UNCHANGED vars
  BY <1>12 DEF vars, passVars
<1>13. QED
  BY <1>1, <1>2, <1>3, <1>4, <1>5, <1>6, <1>7, <1>8, <1>9, <1>10, <1>11,
     <1>12 DEF Next, Environment, Daemon

(* Every variable keeps its type: no interface is worked off outside a visit,
   no age or lag leaves its range, and memory only holds CIDR strings. *)
THEOREM TypeCorrect == Spec => []TypeOK
BY TypeInit, TypeStep, PTL DEF Spec


-----------------------------------------------------------------------------
(* The agreement of memory and kernel.  CacheSound is not inductive alone: a
   delete must not hit another remembered route (so memory is canonical), an
   addition must be of a route the config asks for and a delete of one that is
   remembered (so the work set is sound), and a new config must find nothing
   remembered. *)

CanonicalMemory == \A i \in Iface : \A c \in installed[i] : Canon[c] = c

WorkSound ==
  /\ pc = "add" => todo \subseteq Wanted(cur)
  /\ pc = "del" => todo \subseteq installed[cur]

DownForgets == pc = "down" => installed = NothingInstalled

VerdictRemembered == pc = "idle" => \A p \in verdict : Connected(p)

AgreementInv ==
  /\ TypeOK
  /\ CacheSound
  /\ CanonicalMemory
  /\ WorkSound
  /\ DownForgets
  /\ VerdictRemembered

(* The kernel lists destinations in its own spelling. *)
LEMMA DestCanonical == \A d \in Dest : d \in Cidr /\ Canon[d] = d
BY DEF Dest

(* A configured prefix is a destination, under canonical configs. *)
LEMMA WantedCanonical ==
  ASSUME CanonicalConfigs, allowed \in Configs,
         NEW i \in Iface, NEW c \in Wanted(i)
  PROVE  c \in Cidr /\ Canon[c] = c
BY DEF Wanted, CanonicalConfigs

(* Under disjoint configs, no prefix is wanted on two interfaces. *)
LEMMA WantedOnce ==
  ASSUME DisjointConfigs, allowed \in Configs,
         NEW i \in Iface, NEW j \in Iface, i # j,
         NEW c \in Wanted(i)
  PROVE  c \notin Wanted(j)
BY DEF Wanted, DisjointConfigs

LEMMA AgreementInit == Init => AgreementInv
<1> SUFFICES ASSUME Init PROVE AgreementInv
  OBVIOUS
<1> QED
  BY TypeInit DEF Init, AgreementInv, CacheSound, CanonicalMemory, WorkSound,
              DownForgets, VerdictRemembered, NothingInstalled

(* One step, action by action: the conjuncts an action can disturb. *)
LEMMA AgreementStep ==
  ASSUME CanonicalConfigs, DisjointConfigs, NoLinkCycles,
         AgreementInv, [Next]_vars
  PROVE  AgreementInv'
<1> USE DEF AgreementInv
<1>0. TypeOK'
  BY TypeStep
<1> USE <1>0
<1>1. CASE Tick \/ \E p \in Peer : Handshake(p)
  BY <1>1 DEF Tick, Handshake, passVars, CacheSound, CanonicalMemory,
              WorkSound, DownForgets, VerdictRemembered, Connected, Wanted
<1>2. CASE \E i \in Iface : LinkCycle(i)
  BY <1>2 DEF LinkCycle, NoLinkCycles
<1>3. CASE Stop
  BY <1>3 DEF Stop, CacheSound, CanonicalMemory, WorkSound, DownForgets,
              VerdictRemembered, NothingInstalled
<1>4. CASE Start
  BY <1>4 DEF Start, CacheSound, CanonicalMemory, WorkSound, DownForgets,
              VerdictRemembered, NothingInstalled
<1>5. ASSUME NEW i \in Iface, SeedOk(i)
      PROVE  AgreementInv'
  <2>1. \A c \in RoutesByProtocol(i) : fib[Canon[c]] = i /\ Canon[c] = c
    BY DestCanonical DEF RoutesByProtocol
  <2>2. CacheSound' /\ CanonicalMemory'
    BY <1>5, <2>1 DEF SeedOk, CacheSound, CanonicalMemory, Wanted, TypeOK
  <2>3. WorkSound' /\ DownForgets' /\ VerdictRemembered'
    BY <1>5 DEF SeedOk, WorkSound, DownForgets, VerdictRemembered
  <2>4. QED
    BY <2>2, <2>3
<1>6. ASSUME NEW i \in Iface, SeedFailed(i) \/ DumpFailed(i)
      PROVE  AgreementInv'
  BY <1>6 DEF SeedFailed, DumpFailed, CacheSound, CanonicalMemory, WorkSound,
              DownForgets, VerdictRemembered, Connected, Wanted
<1>7. ASSUME NEW i \in Iface, DumpOk(i)
      PROVE  AgreementInv'
  BY <1>7 DEF DumpOk, CacheSound, CanonicalMemory, WorkSound, DownForgets,
              VerdictRemembered, Connected, Wanted
<1>8. CASE PassBegin \/ AddsDone \/ DelsDone
  BY <1>8 DEF PassBegin, AddsDone, DelsDone, CacheSound, CanonicalMemory,
              WorkSound, DownForgets, VerdictRemembered, Wanted
<1>9. CASE Publish
  BY <1>9 DEF Publish, passVars, CacheSound, CanonicalMemory, WorkSound,
              DownForgets, VerdictRemembered, Connected, Wanted
<1>10. ASSUME NEW c \in Cidr, AddKnown(c) \/ AddFailed(c) \/ DelFailed(c)
       PROVE  AgreementInv'
  BY <1>10 DEF AddKnown, AddFailed, DelFailed, CacheSound, CanonicalMemory,
               WorkSound, DownForgets, VerdictRemembered, Wanted
<1>11. ASSUME NEW c \in Cidr, AddOk(c)
       PROVE  AgreementInv'
  <2>1. cur \in Iface /\ c \in Wanted(cur) /\ Canon[c] = c /\ c \in Dest
    BY <1>11, WantedCanonical DEF AddOk, WorkSound, TypeOK, Dest
  <2>2. Wanted(cur)' = Wanted(cur) /\ \A i : Wanted(i)' = Wanted(i)
    BY <1>11 DEF AddOk, Wanted
  <2>3. CanonicalMemory'
    BY <1>11, <2>1 DEF AddOk, CanonicalMemory, TypeOK
  <2>4. ASSUME NEW i \in Iface, NEW d \in installed'[i] \cap Wanted(i)
        PROVE  fib'[Canon[d]] = i
    <3>1. CASE i = cur
      BY <1>11, <2>1, <2>4, <3>1 DEF AddOk, CacheSound, CanonicalMemory, TypeOK
    <3>2. CASE i # cur
      <4>1. d \in installed[i] /\ Canon[d] = d /\ fib[Canon[d]] = i
        BY <1>11, <2>1, <2>4, <3>2
           DEF AddOk, CacheSound, CanonicalMemory, TypeOK
      <4>2. d # c
        BY <2>1, <2>4, <3>2, WantedOnce DEF TypeOK
      <4>3. QED
        BY <1>11, <2>1, <4>1, <4>2 DEF AddOk, TypeOK
    <3>3. QED
      BY <3>1, <3>2
  <2>5. CacheSound'
    BY <2>2, <2>4 DEF CacheSound
  <2>6. WorkSound' /\ DownForgets' /\ VerdictRemembered'
    BY <1>11, <2>2 DEF AddOk, WorkSound, DownForgets, VerdictRemembered
  <2>7. QED
    BY <2>3, <2>5, <2>6
<1>12. ASSUME NEW c \in Cidr, DelOk(c)
       PROVE  AgreementInv'
  <2>1. \A i : Wanted(i)' = Wanted(i)
    BY <1>12 DEF DelOk, Wanted
  <2>2. CanonicalMemory'
    BY <1>12 DEF DelOk, CanonicalMemory, TypeOK
  <2>3. ASSUME NEW i \in Iface, NEW d \in installed'[i] \cap Wanted(i)
        PROVE  fib'[Canon[d]] = i
    <3>1. d \in installed[i] /\ Canon[d] = d /\ fib[Canon[d]] = i
      BY <1>12, <2>3 DEF DelOk, CacheSound, CanonicalMemory, TypeOK
    <3>2. Canon[d] \in Dest
      BY <3>1, <1>12, <2>3 DEF Dest, TypeOK
    <3>3. CASE i = cur
      <4>1. cur \in Iface /\ Canon[c] = c /\ d # c
        BY <1>12, <2>3, <3>3 DEF DelOk, CanonicalMemory, WorkSound, TypeOK
      <4>2. QED
        BY <1>12, <3>1, <3>2, <4>1 DEF DelOk, TypeOK
    <3>4. CASE i # cur
      BY <1>12, <3>1, <3>2, <3>4 DEF DelOk, TypeOK
    <3>5. QED
      BY <3>3, <3>4
  <2>4. CacheSound'
    BY <2>1, <2>3 DEF CacheSound
  <2>5. WorkSound' /\ DownForgets' /\ VerdictRemembered'
    BY <1>12 DEF DelOk, WorkSound, DownForgets, VerdictRemembered
  <2>6. QED
    BY <2>2, <2>4, <2>5
<1>13. CASE UNCHANGED vars
  BY <1>13 DEF vars, passVars, CacheSound, CanonicalMemory, WorkSound,
               DownForgets, VerdictRemembered, Connected, Wanted
<1>14. QED
  BY <1>1, <1>2, <1>3, <1>4, <1>5, <1>6, <1>7, <1>8, <1>9, <1>10, <1>11,
     <1>12, <1>13 DEF Next, Environment, Daemon

(* Memory agrees with the kernel on every route the config asks for, through
   failed requests, crashes, restarts and prefixes moving between interfaces. *)
THEOREM MemoryAgrees ==
  ASSUME CanonicalConfigs, DisjointConfigs, NoLinkCycles
  PROVE  Spec => []CacheSound
<1>1. AgreementInv /\ [Next]_vars => AgreementInv'
  BY AgreementStep
<1>2. AgreementInv => CacheSound
  BY DEF AgreementInv
<1>3. QED
  BY AgreementInit, <1>1, <1>2, PTL DEF Spec

(* Between passes the published verdict claims no route the kernel lacks. *)
THEOREM VerdictClaimsNoMissingRoute ==
  ASSUME CanonicalConfigs, DisjointConfigs, NoLinkCycles
  PROVE  Spec => []VerdictHonest
<1>1. AgreementInv /\ [Next]_vars => AgreementInv'
  BY AgreementStep
<1>2. AgreementInv => VerdictHonest
  <2> SUFFICES ASSUME AgreementInv, pc = "idle", NEW p \in verdict,
                      NEW c \in allowed[p]
               PROVE  fib[Canon[c]] = Home[p]
    BY DEF VerdictHonest, Routed
  <2>1. p \in Peer /\ c \in installed[Home[p]] /\ c \in Wanted(Home[p])
    BY DEF AgreementInv, TypeOK, VerdictRemembered, Connected, Wanted
  <2>2. QED
    BY <2>1 DEF AgreementInv, CacheSound
<1>3. QED
  BY AgreementInit, <1>1, <1>2, PTL DEF Spec

-----------------------------------------------------------------------------
(* No route is leaked.  This one survives link cycles, prefixes shared by interfaces
   and any spelling of the config's; it needs the listing at startup to succeed and to
   be complete, without either of which it does not hold. *)

SeedingReliable == "seed" \notin Faults
EverythingListed == Unlisted = {}

(* A tagged route of an interface that has been seeded is remembered. *)
Unseeded(i) == pc = "down" \/ (pc = "seed" /\ i \in pending)
SeededRemembered ==
  \A d \in Dest : fib[d] # NoIface => Remembers(fib[d], d) \/ Unseeded(fib[d])

LeakInv == TypeOK /\ SeededRemembered

LEMMA LeakInit == Init => LeakInv
BY TypeInit DEF Init, LeakInv, SeededRemembered

LEMMA LeakStep ==
  ASSUME SeedingReliable, EverythingListed, LeakInv, [Next]_vars
  PROVE  LeakInv'
<1> USE DEF LeakInv
<1>0. TypeOK'
  BY TypeStep
<1> USE <1>0 DEF SeededRemembered, Remembers, Unseeded
<1>1. CASE Tick \/ \E p \in Peer : Handshake(p)
  BY <1>1 DEF Tick, Handshake, passVars
<1>2. CASE \E i \in Iface : LinkCycle(i)
  BY <1>2 DEF LinkCycle, passVars, TypeOK
<1>3. CASE Stop \/ Start
  BY <1>3 DEF Stop, Start, TypeOK
<1>4. ASSUME NEW i \in Iface, SeedOk(i)
      PROVE  LeakInv'
  <2>1. \A d \in Dest : fib[d] = i => d \in RoutesByProtocol(i) /\ Canon[d] = d
    BY DestCanonical DEF RoutesByProtocol, EverythingListed
  <2>2. QED
    BY <1>4, <2>1 DEF SeedOk, TypeOK
<1>5. ASSUME NEW i \in Iface, SeedFailed(i) \/ DumpFailed(i) \/ DumpOk(i)
      PROVE  LeakInv'
  BY <1>5 DEF SeedFailed, DumpFailed, DumpOk, SeedingReliable
<1>6. CASE PassBegin \/ AddsDone \/ DelsDone \/ Publish
  BY <1>6 DEF PassBegin, AddsDone, DelsDone, Publish, passVars
<1>7. ASSUME NEW c \in Cidr, AddKnown(c) \/ AddFailed(c) \/ DelFailed(c)
      PROVE  LeakInv'
  BY <1>7 DEF AddKnown, AddFailed, DelFailed
<1>8. ASSUME NEW c \in Cidr, AddOk(c)
      PROVE  LeakInv'
  <2>1. cur \in Iface /\ c \in installed'[cur]
    BY <1>8 DEF AddOk, TypeOK
  <2>2. ASSUME NEW d \in Dest, fib'[d] # NoIface
        PROVE  Remembers(fib[d], d)' \/ Unseeded(fib[d])'
    <3>1. CASE d = Canon[c]
      BY <1>8, <2>1, <3>1 DEF AddOk, TypeOK
    <3>2. CASE d # Canon[c]
      BY <1>8, <2>1, <2>2, <3>2 DEF AddOk, TypeOK
    <3>3. QED
      BY <3>1, <3>2
  <2>3. QED
    BY <2>2
<1>9. ASSUME NEW c \in Cidr, DelOk(c)
      PROVE  LeakInv'
  <2>1. cur \in Iface
    BY <1>9 DEF DelOk, TypeOK
  <2>2. ASSUME NEW d \in Dest, fib'[d] # NoIface
        PROVE  Remembers(fib[d], d)' \/ Unseeded(fib[d])'
    <3>1. fib'[d] = fib[d] /\ (fib[d] = cur => d # Canon[c])
      BY <1>9, <2>1, <2>2 DEF DelOk, TypeOK
    <3>2. QED
      BY <1>9, <2>1, <2>2, <3>1 DEF DelOk, TypeOK
  <2>3. QED
    BY <2>2
<1>10. CASE UNCHANGED vars
  BY <1>10 DEF vars, passVars
<1>11. QED
  BY <1>1, <1>2, <1>3, <1>4, <1>5, <1>6, <1>7, <1>8, <1>9, <1>10
     DEF Next, Environment, Daemon

(* Once seeded, the daemon remembers every tagged route the kernel holds, however the
   config spells it, so whatever a former instance left behind is there to be
   withdrawn.  Without either hypothesis there are routes it cannot know of. *)
THEOREM NothingLeaks ==
  ASSUME SeedingReliable, EverythingListed
  PROVE  Spec => []NoUntrackedRoute
<1>1. LeakInv /\ [Next]_vars => LeakInv'
  BY LeakStep
<1>2. LeakInv => NoUntrackedRoute
  BY DEF LeakInv, SeededRemembered, Unseeded, NoUntrackedRoute
<1>3. QED
  BY LeakInit, <1>1, <1>2, PTL DEF Spec

-----------------------------------------------------------------------------
(* The daemon implements RouteLease.  A route is added for a peer that was fresh
   when the pass read the clock, and one is deleted only from peers that were not:
   both have to be carried through the requests between the dump and the step,
   while seconds pass and handshakes arrive, and through the additions that fail. *)

(* Stale when the pass read the clock, or still so until a handshake since. *)
Settled(p) == age[p] >= StaleSecs \/ age[p] <= lag

AddsFresh ==
  pc = "add" =>
    \A c \in todo : \E p \in Peer : Home[p] = cur /\ c \in allowed[p] /\ IsFresh(p)

LiveKept ==
  pc = "add" =>
    \A p \in Peer : \A c \in allowed[p] :
      Home[p] = cur => Settled(p) \/ c \in todo \cup keep \/ c \notin installed[cur]

DelsSettled ==
  pc = "del" =>
    \A p \in Peer : \A c \in allowed[p] : Home[p] = cur /\ c \in todo => Settled(p)

DownUnpublished == pc = "down" => verdict = {}

LeaseInv == TypeOK /\ AddsFresh /\ LiveKept /\ DelsSettled /\ DownUnpublished

LEMMA LeaseInvInit == Init => LeaseInv
BY TypeInit DEF Init, LeaseInv, AddsFresh, LiveKept, DelsSettled, DownUnpublished

(* Freshness and settledness by the pass's clock outlive seconds and handshakes. *)
LEMMA ClockKept ==
  ASSUME TypeOK, pc \in {"visit", "add", "del"}, NEW p \in Peer,
         Tick \/ \E q \in Peer : Handshake(q)
  PROVE  /\ IsFresh(p) => IsFresh(p)'
         /\ Settled(p) => Settled(p)'
<1>0. age[p] \in Nat /\ lag \in Nat /\ age[p] <= AgeCap
  BY DEF TypeOK, AgeCap
<1>1. CASE Tick
  <2>1. /\ age'[p] = IF age[p] < AgeCap THEN age[p] + 1 ELSE AgeCap
        /\ lag' = lag + 1
    BY <1>1 DEF Tick
  <2>2. QED
    BY <1>0, <2>1 DEF IsFresh, Settled, AgeCap
<1>2. CASE \E q \in Peer : Handshake(q)
  <2>1. lag' = lag /\ (age'[p] = age[p] \/ age'[p] = 0)
    BY <1>2 DEF Handshake, TypeOK
  <2>2. QED
    BY <1>0, <2>1 DEF IsFresh, Settled
<1>3. QED
  BY <1>1, <1>2

LEMMA LeaseInvStep ==
  ASSUME LeaseInv, [Next]_vars
  PROVE  LeaseInv'
<1> USE DEF LeaseInv
<1>0. TypeOK'
  BY TypeStep
<1> USE <1>0 DEF AddsFresh, LiveKept, DelsSettled, DownUnpublished
<1>1. CASE Tick \/ \E p \in Peer : Handshake(p)
  <2>1. UNCHANGED <<allowed, pc, todo, keep, cur, installed, verdict>>
    BY <1>1 DEF Tick, Handshake, passVars
  <2>2. pc \in {"add", "del"} =>
          \A p \in Peer : (IsFresh(p) => IsFresh(p)') /\ (Settled(p) => Settled(p)')
    BY <1>1, ClockKept
  <2>3. AddsFresh' /\ DownUnpublished'
    BY <2>1, <2>2
  <2>4. LiveKept' /\ DelsSettled'
    BY <2>1, <2>2
  <2>5. QED
    BY <2>3, <2>4
<1>2. CASE \E i \in Iface : LinkCycle(i)
  BY <1>2 DEF LinkCycle, passVars, IsFresh, Settled
<1>3. CASE Stop \/ Start \/ PassBegin \/ DelsDone \/ Publish
  BY <1>3 DEF Stop, Start, PassBegin, DelsDone, Publish
<1>4. ASSUME NEW i \in Iface, SeedOk(i) \/ SeedFailed(i) \/ DumpFailed(i)
      PROVE  LeaseInv'
  BY <1>4 DEF SeedOk, SeedFailed, DumpFailed
<1>5. ASSUME NEW i \in Iface, DumpOk(i)
      PROVE  LeaseInv'
  <2>1. ASSUME NEW p \in Peer, Home[p] = i, ~IsFresh(p)
        PROVE  Settled(p)
    BY <2>1 DEF IsFresh, Settled, TypeOK, AgeCap
  <2>2. QED
    BY <1>5, <2>1 DEF DumpOk, IsFresh, Settled
<1>6. ASSUME NEW c \in Cidr, AddKnown(c) \/ AddOk(c) \/ AddFailed(c)
      PROVE  LeaseInv'
  <2>1. UNCHANGED <<age, allowed, pc, cur, lag, verdict>> /\ pc = "add"
    BY <1>6 DEF AddKnown, AddOk, AddFailed
  <2>2. AddsFresh' /\ DelsSettled' /\ DownUnpublished'
    BY <1>6, <2>1 DEF AddKnown, AddOk, AddFailed, IsFresh
  <2>3. LiveKept'
    BY <1>6, <2>1 DEF AddKnown, AddOk, AddFailed, Settled, TypeOK
  <2>4. QED
    BY <2>2, <2>3
<1>7. CASE AddsDone
  BY <1>7 DEF AddsDone, Settled
<1>8. ASSUME NEW c \in Cidr, DelOk(c) \/ DelFailed(c)
      PROVE  LeaseInv'
  BY <1>8 DEF DelOk, DelFailed, Settled
<1>9. CASE UNCHANGED vars
  BY <1>9 DEF vars, passVars, IsFresh, Settled
<1>10. QED
  BY <1>1, <1>2, <1>3, <1>4, <1>5, <1>6, <1>7, <1>8, <1>9 DEF Next, Environment, Daemon

LEMMA LeaseInit == Init => Lease!Init
BY DEF Init, Lease!Init, Dest, AgeCap, Lease!AgeCap

(* Each step is a step of the lease, or leaves what the lease speaks of alone. *)
LEMMA LeaseStep ==
  ASSUME CanonicalConfigs, NoLinkCycles, AgreementInv, LeaseInv, [Next]_vars
  PROVE  [Lease!Next]_(Lease!vars)
<1> USE DEF Lease!Next, Lease!vars
<1>t. TypeOK
  BY DEF LeaseInv
<1>d. DOMAIN fib = Dest
  BY <1>t DEF TypeOK
<1>1. CASE Tick
  BY <1>1 DEF Tick, Lease!Tick, AgeCap, Lease!AgeCap
<1>2. ASSUME NEW p \in Peer, Handshake(p)
      PROVE  Lease!Next
  BY <1>2 DEF Handshake, Lease!Handshake
<1>3. CASE \E i \in Iface : LinkCycle(i)
  BY <1>3 DEF LinkCycle, NoLinkCycles
<1>4. CASE Stop
  BY <1>4 DEF Stop, Lease!Stop
<1>5. CASE Start
  BY <1>5 DEF Start, Lease!Start, LeaseInv, DownUnpublished
<1>6. CASE Publish
  <2>1. verdict' = {p \in Peer : Connected(p)} /\ UNCHANGED <<fib, age, allowed>>
    BY <1>6 DEF Publish
  <2>2. ASSUME NEW p \in Peer, Connected(p)
        PROVE  Lease!Routed(p)
    <3> SUFFICES ASSUME NEW c \in allowed[p]
                 PROVE  fib[Canon[c]] = Home[p]
      BY DEF Lease!Routed
    <3>1. c \in installed[Home[p]] /\ c \in Wanted(Home[p]) /\ Home[p] \in Iface
      BY <2>2 DEF Connected, Wanted
    <3>2. QED
      BY <3>1 DEF AgreementInv, CacheSound
  <2>3. QED
    BY <2>1, <2>2 DEF Lease!Publish
<1>7. ASSUME NEW c \in Cidr, AddOk(c)
      PROVE  Lease!Next
  <2>1. PICK p \in Peer : Home[p] = cur /\ c \in allowed[p] /\ IsFresh(p)
    BY <1>7 DEF AddOk, LeaseInv, AddsFresh
  <2>2. age[p] < StaleSecs + MaxLag
    BY <1>t, <2>1 DEF TypeOK, IsFresh, AgeCap
  <2>3. Canon[c] \in DOMAIN fib
    BY <1>d DEF Dest
  <2>4. Lease!Install(p, Canon[c])
    BY <1>7, <2>1, <2>2 DEF AddOk, Lease!Install, Lease!Claims
  <2>5. QED
    BY <2>3, <2>4
<1>8. ASSUME NEW c \in Cidr, DelOk(c), fib[Canon[c]] = cur
      PROVE  Lease!Next
  <2>1. Canon[c] = c /\ Canon[c] \in DOMAIN fib /\ cur \in Iface
    BY <1>8, <1>t, <1>d DEF DelOk, AgreementInv, CanonicalMemory, WorkSound, TypeOK, Dest
  <2>2. ASSUME NEW p \in Peer, Home[p] = cur, NEW b \in allowed[p], Canon[b] = c
        PROVE  age[p] >= StaleSecs \/ age[p] <= MaxLag
    <3>1. b = c
      BY <2>2, <1>t DEF CanonicalConfigs, TypeOK
    <3>2. Settled(p)
      BY <1>8, <2>2, <3>1 DEF DelOk, LeaseInv, DelsSettled
    <3>3. QED
      BY <3>2, <1>t DEF Settled, TypeOK, AgeCap
  <2>3. Lease!Withdraw(Canon[c])
    BY <1>8, <2>1, <2>2 DEF DelOk, Lease!Withdraw, Lease!Claims
  <2>4. QED
    BY <2>1, <2>3
<1>9. ASSUME NEW c \in Cidr, DelOk(c), fib[Canon[c]] # cur
      PROVE  UNCHANGED Lease!vars
  BY <1>9, <1>t DEF DelOk, TypeOK
<1>10. ASSUME NEW c \in Cidr, AddKnown(c) \/ AddFailed(c) \/ DelFailed(c)
       PROVE  UNCHANGED Lease!vars
  BY <1>10 DEF AddKnown, AddFailed, DelFailed
<1>11. ASSUME NEW i \in Iface, SeedOk(i) \/ SeedFailed(i) \/ DumpOk(i) \/ DumpFailed(i)
       PROVE  UNCHANGED Lease!vars
  BY <1>11 DEF SeedOk, SeedFailed, DumpOk, DumpFailed
<1>12. CASE PassBegin \/ AddsDone \/ DelsDone \/ UNCHANGED vars
  BY <1>12 DEF PassBegin, AddsDone, DelsDone, vars
<1>13. QED
  BY <1>1, <1>2, <1>3, <1>4, <1>5, <1>6, <1>7, <1>8, <1>9, <1>10, <1>11, <1>12
     DEF Next, Environment, Daemon

(* The loop implements the lease: through failures, crashes and config changes it
   installs routes for live peers only, withdraws none from a peer with a live
   handshake, and publishes no peer without its routes. *)
THEOREM ImplementsLease ==
  ASSUME CanonicalConfigs, DisjointConfigs, NoLinkCycles
  PROVE  Spec => LeaseKept
<1>1. AgreementInv /\ [Next]_vars => AgreementInv'
  BY AgreementStep
<1>2. LeaseInv /\ [Next]_vars => LeaseInv'
  BY LeaseInvStep
<1>3. AgreementInv /\ LeaseInv /\ [Next]_vars => [Lease!Next]_(Lease!vars)
  BY LeaseStep
<1>4. QED
  BY AgreementInit, LeaseInvInit, LeaseInit, <1>1, <1>2, <1>3, PTL
     DEF Spec, LeaseKept, Lease!Spec
=============================================================================
