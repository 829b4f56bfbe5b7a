-------------------------- MODULE AwgStartupProofs --------------------------
(***************************************************************************)
(* Theorems about AwgStartup, for all configs, bounds and sets of names:   *)
(* the type invariant, that an interface worked off without an error agrees *)
(* with the config, and that the daemon takes down nothing the config has.  *)
(***************************************************************************)
EXTENDS AwgStartup, TLAPS

(* What a config in use gives of one of its interfaces. *)
LEMMA EntryTyped ==
  ASSUME cfg \in Configs, NEW i \in DOMAIN cfg
  PROVE  /\ i \in Iface /\ i # NoIface
         /\ cfg[i].port \in Port /\ cfg[i].addrs \subseteq Addr
         /\ DOMAIN cfg[i].peers \subseteq Key
         /\ \A k \in DOMAIN cfg[i].peers :
              /\ cfg[i].peers[k].ips \subseteq Cidr
              /\ cfg[i].peers[k].answers \subseteq Endpoint
         /\ Disjoint(cfg[i].peers)
         /\ cfg[i].identity \in Identity /\ cfg[i].switches \in BOOLEAN
         /\ cfg[i].protection \in Protection \cup {NoProtection}
BY ConfigAssumption, NamesAssumption

-----------------------------------------------------------------------------
(* Types.  An interface at work is one of the config's, which TypeOK leaves out. *)

CurOfConfig == cur \in Iface => cur \in DOMAIN cfg

TypeInv == TypeOK /\ CurOfConfig

LEMMA TypeInit == Init => TypeInv
BY NamesAssumption, BoundAssumption
   DEF Init, TypeInv, TypeOK, CurOfConfig, All, Nobody, Nowhere, Blank

(* What SetDevice leaves of the peers is of their types, whichever are sent. *)
LEMMA PeersTyped ==
  ASSUME TypeInv, cur \in Iface, NEW S \in SUBSET DOMAIN cfg[cur].peers, NEW K \in SUBSET Key,
         NEW F, NEW found \in Resolutions(F), SetPeers(S, K, found)
  PROVE  /\ members' \in [Iface -> SUBSET Key]
         /\ owner' \in [Iface -> [Cidr -> Key \cup {NoKey}]]
         /\ endpoint' \in [Iface -> [Key -> Endpoint \cup {NoEndpoint, Elsewhere}]]
         /\ secured' \in [Iface -> SUBSET Key]
<1>1. S \subseteq Key /\ owner[cur] \in [Cidr -> Key \cup {NoKey}]
  BY EntryTyped DEF TypeInv, TypeOK, CurOfConfig
<1>2. ASSUME NEW c \in Cidr, \E k \in S : c \in cfg[cur].peers[k].ips
      PROVE  (CHOOSE k \in S : c \in cfg[cur].peers[k].ips) \in Key
  BY <1>1, <1>2
<1>3. Owners(cur, S, K) \in [Cidr -> Key \cup {NoKey}]
  BY <1>1, <1>2 DEF Owners
<1>4. \A k \in DOMAIN found : found[k] \in Endpoint
  BY DEF Resolutions
<1>5. endpoint[cur] \in [Key -> Endpoint \cup {NoEndpoint, Elsewhere}]
  BY DEF TypeInv, TypeOK
<1>6. [k \in Key |-> IF k \in S \cap DOMAIN found THEN found[k]
                     ELSE IF k \in S \cup K THEN endpoint[cur][k] ELSE NoEndpoint]
        \in [Key -> Endpoint \cup {NoEndpoint, Elsewhere}]
  BY <1>4, <1>5
<1>7. endpoint' \in [Iface -> [Key -> Endpoint \cup {NoEndpoint, Elsewhere}]]
  BY <1>6 DEF SetPeers, TypeInv, TypeOK
<1>8. QED
  BY <1>1, <1>3, <1>7 DEF SetPeers, TypeInv, TypeOK

(* A synchronisation, with what it sends (S), leaves as it is (K) and resolved. *)
Sync(F, S, K, found) ==
  /\ found \in Resolutions(F)
  /\ S = {k \in DOMAIN cfg[cur].peers \ F : Differs(k, found)}
  /\ K = ((DOMAIN cfg[cur].peers \ F) \ S) \cup (F \cap members[cur])
  /\ SetPeers(S, K, found)

LEMMA SyncIsSync ==
  ASSUME NEW F, SyncPeers(F)
  PROVE  \E S, K, found : Sync(F, S, K, found)
BY DEF SyncPeers, Sync

LEMMA TypeStep == TypeInv /\ [Next]_vars => TypeInv'
<1> SUFFICES ASSUME TypeInv, [Next]_vars
             PROVE  TypeInv'
  OBVIOUS
<1>t. TypeInv
  OBVIOUS
<1> USE NamesAssumption, BoundAssumption, AddressAssumption DEF TypeInv, TypeOK, CurOfConfig
<1>1. CASE Restart
  BY <1>1 DEF Restart, Gone, kernelVars, peerVars, deviceVars
<1>2. CASE Reboot
  BY <1>2 DEF Reboot, Gone, All, Nobody, Nowhere, Blank
<1>3. CASE Start \/ GcDone \/ AllConverged
  BY <1>3 DEF Start, GcDone, AllConverged, kernelVars, peerVars, deviceVars, loopVars,
              addressVars, historyVars, bounds
<1>4. CASE RunFails \/ AnyFailed
  BY <1>4 DEF RunFails, AnyFailed, Gone, kernelVars, peerVars, deviceVars, bounds
<1>5. ASSUME NEW i \in Iface, GcDelete(i)
      PROVE  TypeInv'
  BY <1>5 DEF GcDelete, Nobody, Nowhere, Blank, loopVars, addressVars, historyVars, bounds
<1>6. ASSUME NEW i \in Iface, EnsureLink(i)
      PROVE  TypeInv'
  BY <1>6 DEF EnsureLink, peerVars, deviceVars, addressVars, historyVars, bounds
<1>7. ASSUME NEW i \in Iface, LinkFails(i)
      PROVE  TypeInv'
  <2>1. link' \in [Iface -> {"none", "down", "up"}]
    BY <1>7 DEF LinkFails
  <2>2. pending' \subseteq DOMAIN cfg /\ failed' \subseteq DOMAIN cfg /\ faults' \in 0..MaxFaults
    BY <1>7 DEF LinkFails
  <2>3. QED
    BY <1>7, <2>1, <2>2 DEF LinkFails, peerVars, deviceVars, addressVars, historyVars
<1>8. CASE ListAddresses \/ DeletesDone \/ AssignsDone
  <2>1. cur \in DOMAIN cfg /\ cfg[cur].addrs \subseteq Addr
    BY <1>8, EntryTyped DEF ListAddresses, DeletesDone, AssignsDone
  <2>2. QED
    BY <1>8, <2>1 DEF ListAddresses, DeletesDone, AssignsDone, Family, kernelVars, peerVars,
                      deviceVars, historyVars, bounds
<1>9. ASSUME NEW a \in Addr, DeleteAddress(a) \/ AssignAddress(a)
      PROVE  TypeInv'
  <2>1. addrs' \in [Iface -> SUBSET Addr]
    <3>1. CASE DeleteAddress(a)
      <4>1. PICK secondary \in {{}, Mates[a]} :
              addrs' = [addrs EXCEPT ![cur] = @ \ ({a} \cup secondary)]
        BY <3>1 DEF DeleteAddress
      <4>2. QED
        BY <4>1
    <3>2. CASE AssignAddress(a)
      BY <3>2 DEF AssignAddress
    <3>3. QED
      BY <1>9, <3>1, <3>2
  <2>2. QED
    BY <1>9, <2>1 DEF DeleteAddress, AssignAddress, peerVars, deviceVars, historyVars, bounds
<1>10. CASE SetUp
  BY <1>10 DEF SetUp, peerVars, deviceVars, loopVars, addressVars, historyVars, bounds
<1>11. CASE SetIdentity \/ SetIdentityRetried
  <2> DEFINE switches == IF SetIdentity THEN cfg[cur].switches ELSE device[cur].switches
  <2>1. SetDevice(switches) /\ cur \in Iface
    BY <1>11 DEF SetIdentity, SetIdentityRetried, SetDevice
  <2>2. /\ cur \in DOMAIN cfg /\ cfg[cur].port \in Port
        /\ cfg[cur].identity \in Identity /\ switches \in BOOLEAN
        /\ cfg[cur].protection \in Protection \cup {NoProtection}
    BY <2>1, EntryTyped
  <2> HIDE DEF switches
  <2>3. device' \in [Iface -> [identity   : Identity \cup {NoIdentity},
                              protection : Protection \cup {NoProtection},
                              switches   : BOOLEAN]]
    BY <2>1, <2>2 DEF SetDevice
  <2>4. degraded' \subseteq DOMAIN cfg /\ faults' \in 0..MaxFaults
    BY <1>11, <2>2 DEF SetIdentity, SetIdentityRetried
  <2>5. QED
    BY <2>1, <2>2, <2>3, <2>4 DEF SetDevice, peerVars, addressVars
<1>12. CASE AddressGone \/ PortTaken \/ RequestFails
  <2>1. GiveUp /\ cur \in DOMAIN cfg /\ faults' \in 0..MaxFaults
    BY <1>12 DEF AddressGone, PortTaken, RequestFails
  <2>2. QED
    BY <2>1 DEF GiveUp, kernelVars, peerVars, deviceVars, historyVars
<1>13. ASSUME NEW F \in SUBSET Key, SyncPeers(F)
       PROVE  TypeInv'
  <2>1. cur \in Iface /\ cur \in DOMAIN cfg /\ F \subseteq DOMAIN cfg[cur].peers
    BY <1>13 DEF SyncPeers, Lookups
  <2>2. DOMAIN cfg[cur].peers \subseteq Key
    BY <2>1, EntryTyped
  <2>3. PICK S, K, found : Sync(F, S, K, found)
    BY <1>13, SyncIsSync
  <2>4. S \in SUBSET DOMAIN cfg[cur].peers /\ K \in SUBSET Key
    BY <2>2, <2>3 DEF Sync
  <2>5. /\ members' \in [Iface -> SUBSET Key]
        /\ owner' \in [Iface -> [Cidr -> Key \cup {NoKey}]]
        /\ endpoint' \in [Iface -> [Key -> Endpoint \cup {NoEndpoint, Elsewhere}]]
        /\ secured' \in [Iface -> SUBSET Key]
    BY <1>t, <2>1, <2>3, <2>4, PeersTyped DEF Sync
  <2>6. unresolved' \subseteq Iface \X Key
    BY <1>13, <2>1, <2>2 DEF SyncPeers
  <2>7. faults' \in 0..MaxFaults
    BY <1>13 DEF SyncPeers
  <2>8. QED
    BY <1>13, <2>5, <2>6, <2>7 DEF SyncPeers, deviceVars, addressVars
<1>14. ASSUME NEW i \in Iface, NEW k \in Key, Roams(i, k)
       PROVE  TypeInv'
  <2>1. endpoint' \in [Iface -> [Key -> Endpoint \cup {NoEndpoint, Elsewhere}]]
    BY <1>14 DEF Roams
  <2>2. QED
    BY <1>14, <2>1 DEF Roams, deviceVars, loopVars, addressVars, historyVars, bounds
<1>15. CASE UNCHANGED vars
  BY <1>15 DEF vars, kernelVars, peerVars, deviceVars, loopVars, addressVars, historyVars, bounds
<1>16. QED
  BY <1>1, <1>2, <1>3, <1>4, <1>5, <1>6, <1>7, <1>8, <1>9, <1>10, <1>11, <1>12,
     <1>13, <1>14, <1>15 DEF Next, Environment, Daemon

(* The kernel's links and the process's own state stay within their types, through
   crashes, new configs, reboots and refused requests. *)
THEOREM TypeCorrect == Spec => []TypeOK
<1>1. TypeInv => TypeOK
  BY DEF TypeInv
<1>2. QED
  BY <1>1, TypeInit, TypeStep, PTL DEF Spec

-----------------------------------------------------------------------------
(* Convergence.  What is done of the interface at work when its next request is *)
(* made, and what the process starts out from.                                  *)

(* The addresses of family f are the config's. *)
SetIn(f) == addrs[cur] \cap f = cfg[cur].addrs \cap f

AddressesAtWork ==
  /\ pc \in {"list", "delete", "assign"} /\ family = "v6" => SetIn(V4)
  /\ pc = "delete" => addrs[cur] \cap Family \subseteq cfg[cur].addrs \cup todo
  /\ pc = "assign" =>
       /\ todo \subseteq cfg[cur].addrs \cap Family
       /\ addrs[cur] \cap Family \subseteq cfg[cur].addrs
       /\ cfg[cur].addrs \cap Family \subseteq addrs[cur] \cup todo
  /\ pc = "delete" => todo \subseteq Family \ cfg[cur].addrs
  /\ pc \in {"up", "identity", "peers"} => addrs[cur] = cfg[cur].addrs
  /\ pc \notin {"list", "delete", "assign"} => family = "v4" /\ todo = {}

AtWork ==
  /\ cur \in Iface => cur \notin pending
  /\ pc \in {"identity", "peers"} => link[cur] = "up"
  /\ pc = "peers" =>
       /\ port[cur] = cfg[cur].port /\ device[cur].identity = cfg[cur].identity
       /\ device[cur].protection = cfg[cur].protection \/ cfg[cur].protection = NoProtection
       /\ device[cur].switches = cfg[cur].switches \/ cur \in degraded

Clean == pc \in {"down", "gc"} => pending = {} /\ failed = {} /\ unresolved = {} /\ degraded = {}

ConvergedInv == TypeInv /\ AddressesAtWork /\ AtWork /\ Clean /\ ConvergedMeansAgrees

LEMMA ConvergedInit == Init => ConvergedInv
<1> SUFFICES ASSUME Init PROVE ConvergedInv
  OBVIOUS
<1>1. TypeInv
  BY TypeInit
<1>2. QED
  BY <1>1, NamesAssumption
     DEF Init, ConvergedInv, AddressesAtWork, AtWork, Clean, ConvergedMeansAgrees

(* The requests about addresses: of the family at work the stale ones go, and the
   config's come back, the secondary ones that went along among them. *)
LEMMA AddressesStep ==
  ASSUME TypeInv, AddressesAtWork,
         \/ ListAddresses \/ DeletesDone \/ AssignsDone
         \/ \E a \in Addr : DeleteAddress(a) \/ AssignAddress(a)
  PROVE  AddressesAtWork'
<1>1. /\ cur \in Iface /\ addrs \in [Iface -> SUBSET Addr] /\ family \in {"v4", "v6"}
      /\ cfg[cur].addrs \subseteq Addr
  BY EntryTyped
     DEF TypeInv, TypeOK, CurOfConfig, ListAddresses, DeletesDone, AssignsDone, DeleteAddress,
         AssignAddress
<1> USE AddressAssumption DEF AddressesAtWork, SetIn, Family
<1>2. CASE ListAddresses \/ DeletesDone
  BY <1>1, <1>2 DEF ListAddresses, DeletesDone, kernelVars
<1>3. CASE AssignsDone
  <2>1. SetIn(IF family = "v4" THEN V4 ELSE Addr \ V4)
    BY <1>3 DEF AssignsDone
  <2>2. CASE family = "v4"
    BY <1>3, <2>1, <2>2 DEF AssignsDone, kernelVars
  <2>3. CASE family = "v6"
    <3>1. addrs[cur] = cfg[cur].addrs
      BY <1>1, <1>3, <2>1, <2>3 DEF AssignsDone
    <3>2. QED
      BY <1>3, <2>3, <3>1 DEF AssignsDone, kernelVars
  <2>4. QED
    BY <1>1, <2>2, <2>3
<1>4. ASSUME NEW a \in Addr, DeleteAddress(a)
      PROVE  AddressesAtWork'
  <2>1. PICK secondary \in {{}, Mates[a]} :
          addrs' = [addrs EXCEPT ![cur] = @ \ ({a} \cup secondary)]
    BY <1>4 DEF DeleteAddress
  <2>2. /\ addrs'[cur] = addrs[cur] \ ({a} \cup secondary) /\ secondary \subseteq V4
        /\ a \notin V4 => secondary = {}
    BY <1>1, <2>1
  <2>3. /\ pc = "delete" /\ a \in todo /\ todo' = todo \ {a}
        /\ UNCHANGED <<pc, cur, family, cfg>>
    BY <1>4 DEF DeleteAddress
  <2>4. QED
    BY <2>2, <2>3
<1>5. ASSUME NEW a \in Addr, AssignAddress(a)
      PROVE  AddressesAtWork'
  <2>1. /\ addrs'[cur] = addrs[cur] \cup {a} /\ pc = "assign" /\ a \in todo
        /\ todo' = todo \ {a} /\ UNCHANGED <<pc, cur, family, cfg>>
    BY <1>1, <1>5 DEF AssignAddress
  <2>2. QED
    BY <2>1
<1>6. QED
  BY <1>2, <1>3, <1>4, <1>5

(* Sync, piece by piece: every peer that is resolved has its CIDRs afterwards, whether
   it was sent or was found to have them, and so have those left as they are. *)
LEMMA SyncOwners ==
  ASSUME TypeInv, cur \in Iface, NEW F,
         NEW S, NEW K, NEW found, Sync(F, S, K, found),
         NEW k \in DOMAIN cfg[cur].peers, NEW c \in cfg[cur].peers[k].ips,
         k \in S \/ (k \in K /\ owner[cur][c] = k)
  PROVE  owner'[cur][c] = k
<1>1. c \in Cidr /\ Disjoint(cfg[cur].peers) /\ S \subseteq DOMAIN cfg[cur].peers
  BY EntryTyped DEF TypeInv, TypeOK, CurOfConfig, Sync
<1>2. \A l \in S : c \in cfg[cur].peers[l].ips => l = k
  BY <1>1 DEF Disjoint
<1>3. owner'[cur] = Owners(cur, S, K)
  BY DEF Sync, SetPeers, TypeInv, TypeOK
<1>4. CASE k \in S
  <2>1. (CHOOSE l \in S : c \in cfg[cur].peers[l].ips) = k
    BY <1>2, <1>4
  <2>2. QED
    BY <1>1, <1>3, <1>4, <2>1 DEF Owners
<1>5. CASE k \notin S
  <2>1. ~ \E l \in S : c \in cfg[cur].peers[l].ips
    BY <1>2, <1>5
  <2>2. QED
    BY <1>1, <1>3, <1>5, <2>1 DEF Owners
<1>6. QED
  BY <1>4, <1>5

LEMMA SyncPeer ==
  ASSUME TypeInv, cur \in Iface, NEW F,
         NEW S, NEW K, NEW found, Sync(F, S, K, found), cfg' = cfg,
         NEW k \in DOMAIN cfg[cur].peers \ F, NEW i, i = cur
  PROVE  PeerAgrees(i, k)'
<1>1. /\ k \in Key /\ cur \in DOMAIN cfg /\ endpoint[cur] \in [Key -> Endpoint \cup {NoEndpoint, Elsewhere}]
      /\ cfg[cur].peers[k].ips \subseteq Cidr
  BY EntryTyped DEF TypeInv, TypeOK, CurOfConfig
<1>2. /\ k \in S \/ (k \in K /\ ~Differs(k, found))
      /\ k \in S => Differs(k, found)
  BY DEF Sync
<1>3. members'[cur] = S \cup K
  BY DEF Sync, SetPeers, TypeInv, TypeOK
<1>4. ASSUME NEW c \in cfg[cur].peers[k].ips
      PROVE  owner'[cur][c] = k
  <2>1. k \in S \/ (k \in K /\ owner[cur][c] = k)
    BY <1>1, <1>2 DEF Differs
  <2>2. QED
    BY <2>1, SyncOwners
<1>5. ASSUME cfg[cur].peers[k].answers # {}
      PROVE  endpoint'[cur][k] \in cfg[cur].peers[k].answers
  <2>1. k \in Lookups /\ k \in DOMAIN found /\ found[k] \in cfg[cur].peers[k].answers
    BY <1>5 DEF Lookups, Sync, Resolutions
  <2>2. endpoint'[cur][k] = IF k \in S \cap DOMAIN found THEN found[k]
                            ELSE IF k \in S \cup K THEN endpoint[cur][k] ELSE NoEndpoint
    BY <1>1 DEF Sync, SetPeers, TypeInv, TypeOK
  <2>3. QED
    BY <1>2, <2>1, <2>2 DEF Differs
<1>6. ASSUME cfg[cur].peers[k].secured
      PROVE  k \in secured'[cur]
  <2>1. k \in S
    BY <1>2, <1>6 DEF Differs
  <2>2. secured'[cur] = (secured[cur] \cap (S \cup K)) \cup {l \in S : cfg[cur].peers[l].secured}
    BY DEF Sync, SetPeers, TypeInv, TypeOK
  <2>3. QED
    BY <1>6, <2>1, <2>2
<1>7. QED
  BY <1>2, <1>3, <1>4, <1>5, <1>6 DEF PeerAgrees

(* Setting the peers is the last request, after which the interface agrees. *)
LEMMA PeersAgree ==
  ASSUME ConvergedInv, NEW F \in SUBSET Key, SyncPeers(F), NEW i \in Iface, i = cur
  PROVE  Agrees(i)'
<1>1. /\ i \in DOMAIN cfg /\ F \subseteq Lookups /\ Lookups \subseteq DOMAIN cfg[i].peers
      /\ UNCHANGED <<link, addrs, port, device, cfg, degraded>>
      /\ unresolved' = unresolved \cup ({i} \X F)
  BY DEF ConvergedInv, TypeInv, TypeOK, CurOfConfig, SyncPeers, Lookups, deviceVars
<1>2. PICK S, K, found : Sync(F, S, K, found)
  BY SyncIsSync
<1>3. /\ link[i] = "up" /\ port[i] = cfg[i].port /\ addrs[i] = cfg[i].addrs
      /\ device[i].identity = cfg[i].identity
      /\ device[i].protection = cfg[i].protection \/ cfg[i].protection = NoProtection
      /\ device[i].switches = cfg[i].switches \/ i \in degraded
  BY DEF ConvergedInv, AtWork, AddressesAtWork, SyncPeers
<1>4. members'[i] = S \cup K /\ owner'[i] = Owners(i, S, K)
  BY <1>2 DEF Sync, SetPeers, ConvergedInv, TypeInv, TypeOK
<1>5. S \cup K \subseteq DOMAIN cfg[i].peers
  BY <1>1, <1>2 DEF Sync
<1>6. ASSUME NEW c \in Cidr
      PROVE  Owners(i, S, K)[c] \in S \cup K \cup {NoKey}
  BY <1>6 DEF Owners
<1>7. ASSUME NEW k \in DOMAIN cfg[i].peers, <<i, k>> \notin unresolved'
      PROVE  PeerAgrees(i, k)'
  <2>1. k \in DOMAIN cfg[cur].peers \ F
    BY <1>1, <1>7
  <2>2. QED
    BY <1>1, <1>2, <2>1, SyncPeer DEF ConvergedInv
<1>8. QED
  BY <1>1, <1>3, <1>4, <1>5, <1>6, <1>7 DEF Agrees

LEMMA AgreesKept ==
  ASSUME NEW i \in Iface, Agrees(i), cfg' = cfg, unresolved \subseteq unresolved', degraded \subseteq degraded',
         link'[i] = link[i], addrs'[i] = addrs[i], port'[i] = port[i],
         members'[i] = members[i], owner'[i] = owner[i], secured'[i] = secured[i],
         \A k \in members[i] : endpoint'[i][k] \in {endpoint[i][k], Elsewhere},
         device'[i] = device[i]
  PROVE  Agrees(i)'
<1>1. ASSUME NEW k \in DOMAIN cfg[i].peers, PeerAgrees(i, k)
      PROVE  PeerAgrees(i, k)'
  BY <1>1 DEF PeerAgrees
<1>2. QED
  BY <1>1 DEF Agrees

(* Only the interface at work is touched, and it counts as converged afterwards *)
(* only if nothing failed.                                                     *)
LEMMA ConvergedStep == ConvergedInv /\ [Next]_vars => ConvergedInv'
<1> SUFFICES ASSUME ConvergedInv, [Next]_vars
             PROVE  ConvergedInv'
  OBVIOUS
<1>0. TypeInv'
  BY TypeStep DEF ConvergedInv
<1> USE <1>0 DEF ConvergedInv, AtWork, Clean
<1>t. TypeInv /\ AddressesAtWork
  OBVIOUS
<1>1. CASE Restart \/ Reboot \/ RunFails \/ AnyFailed
  BY <1>1, NamesAssumption
     DEF Restart, Reboot, RunFails, AnyFailed, Gone, ConvergedMeansAgrees, AddressesAtWork
<1>2. CASE Start
  BY <1>2 DEF Start, kernelVars, peerVars, deviceVars, loopVars, addressVars, historyVars,
              ConvergedMeansAgrees, AddressesAtWork
<1>3. CASE GcDone
  BY <1>3 DEF GcDone, kernelVars, peerVars, deviceVars, addressVars, historyVars,
              ConvergedMeansAgrees, AddressesAtWork, TypeInv, TypeOK
<1>4. CASE AllConverged
  BY <1>4 DEF AllConverged, kernelVars, peerVars, deviceVars, loopVars, addressVars, historyVars,
              ConvergedMeansAgrees, AddressesAtWork, Agrees, PeerAgrees
<1>5. ASSUME NEW i \in Iface, GcDelete(i)
      PROVE  ConvergedInv'
  BY <1>5 DEF GcDelete, loopVars, addressVars, historyVars, ConvergedMeansAgrees,
              AddressesAtWork, TypeInv, TypeOK
<1>6. ASSUME NEW i \in Iface, EnsureLink(i) \/ LinkFails(i)
      PROVE  ConvergedInv'
  <2>1. /\ i \in DOMAIN cfg /\ cur \notin Iface /\ pending' = pending \ {i} /\ pc = "next"
        /\ \/ cur' = i /\ pc' = "list" /\ failed' = failed
           \/ cur' = cur /\ pc' = "next" /\ failed' = failed \cup {i}
        /\ UNCHANGED <<addrs, port, members, owner, endpoint, secured, device, cfg, family,
                       todo, unresolved, degraded>>
        /\ \A j \in Iface \ {i} : link'[j] = link[j]
    BY <1>6, <1>t DEF EnsureLink, LinkFails, peerVars, deviceVars, addressVars, historyVars,
                      TypeInv, TypeOK
  <2>2. AtWork' /\ Clean'
    BY <2>1
  <2>3. family = "v4" /\ todo = {}
    BY <2>1, <1>t DEF AddressesAtWork
  <2>4. AddressesAtWork'
    BY <2>1, <2>3 DEF AddressesAtWork
  <2>5. ASSUME NEW j \in DOMAIN cfg \ (pending' \cup failed' \cup {cur'})
        PROVE  Agrees(j)'
    <3>1. j \in Iface /\ j \notin pending /\ j \notin failed /\ j # cur /\ j # i
      BY <2>1, <1>t, EntryTyped DEF TypeInv, TypeOK
    <3>2. Agrees(j)
      BY <2>1, <3>1 DEF ConvergedMeansAgrees
    <3>3. QED
      BY <2>1, <3>1, <3>2, AgreesKept
  <2>6. \A j \in Iface \ DOMAIN cfg : link'[j] = "none"
    BY <2>1 DEF ConvergedMeansAgrees
  <2>7. ConvergedMeansAgrees'
    BY <2>1, <2>5, <2>6 DEF ConvergedMeansAgrees
  <2>8. QED
    BY <2>2, <2>4, <2>7
<1>7. CASE \/ ListAddresses \/ DeletesDone \/ AssignsDone \/ SetUp
           \/ SetIdentity \/ SetIdentityRetried
           \/ \E a \in Addr : DeleteAddress(a) \/ AssignAddress(a)
  <2>1. /\ cur \in DOMAIN cfg /\ cur \in Iface
        /\ UNCHANGED <<members, owner, endpoint, secured, cfg>>
        /\ UNCHANGED <<cur, pending, failed, unresolved>> /\ degraded \subseteq degraded'
        /\ \A j \in Iface \ {cur} : /\ link'[j] = link[j] /\ addrs'[j] = addrs[j]
                                    /\ port'[j] = port[j] /\ device'[j] = device[j]
        /\ pc' \in {"list", "delete", "assign", "up", "identity", "peers"}
        /\ pc \in {"list", "delete", "assign", "up", "identity"}
    BY <1>7, <1>t
       DEF ListAddresses, DeletesDone, AssignsDone, DeleteAddress, AssignAddress, SetUp,
           SetIdentity, SetIdentityRetried, SetDevice, kernelVars, peerVars, deviceVars, loopVars,
           addressVars, historyVars, TypeInv, TypeOK, CurOfConfig
  <2>2. AtWork'
    BY <1>7, <2>1, <1>t
       DEF ListAddresses, DeletesDone, AssignsDone, DeleteAddress, AssignAddress, SetUp,
           SetIdentity, SetIdentityRetried, SetDevice, kernelVars, deviceVars, TypeInv, TypeOK
  <2>3. AddressesAtWork'
    <3>1. CASE SetUp \/ SetIdentity \/ SetIdentityRetried
      <4>1. /\ pc \in {"up", "identity"} /\ pc' \in {"identity", "peers"}
            /\ UNCHANGED <<addrs, cfg, cur, family, todo>>
        BY <3>1 DEF SetUp, SetIdentity, SetIdentityRetried, SetDevice, loopVars, addressVars
      <4>2. QED
        BY <1>t, <4>1 DEF AddressesAtWork
    <3>2. CASE ~(SetUp \/ SetIdentity \/ SetIdentityRetried)
      BY <1>7, <1>t, <3>2, AddressesStep
    <3>3. QED
      BY <3>1, <3>2
  <2>4. ASSUME NEW j \in DOMAIN cfg \ (pending \cup failed \cup {cur})
        PROVE  Agrees(j)'
    <3>1. Agrees(j) /\ j \in Iface
      BY <2>1, <1>t, EntryTyped DEF ConvergedMeansAgrees, TypeInv, TypeOK
    <3>2. QED
      BY <2>1, <3>1, AgreesKept
  <2>5. \A j \in Iface \ DOMAIN cfg : link'[j] = "none"
    BY <2>1 DEF ConvergedMeansAgrees
  <2>6. ConvergedMeansAgrees' /\ Clean'
    BY <2>1, <2>4, <2>5 DEF ConvergedMeansAgrees
  <2>7. QED
    BY <2>2, <2>3, <2>6
<1>8. CASE AddressGone \/ PortTaken \/ RequestFails
  <2>1. /\ cur \in Iface /\ GiveUp
        /\ pc \in {"list", "delete", "assign", "up", "identity", "peers"}
    BY <1>8, <1>t DEF AddressGone, PortTaken, RequestFails, TypeInv, TypeOK
  <2>2. /\ cur' \notin Iface /\ pc' = "next" /\ failed' = failed \cup {cur}
        /\ family' = "v4" /\ todo' = {}
        /\ UNCHANGED <<link, addrs, port, members, owner, endpoint, secured, device, cfg, pending,
                       unresolved, degraded>>
    BY <2>1, NamesAssumption DEF GiveUp, kernelVars, peerVars, deviceVars, historyVars
  <2>3. ASSUME NEW j \in DOMAIN cfg \ (pending \cup failed \cup {cur})
        PROVE  Agrees(j)'
    <3>1. Agrees(j) /\ j \in Iface
      BY <2>1, <1>t, EntryTyped DEF ConvergedMeansAgrees, TypeInv, TypeOK
    <3>2. QED
      BY <2>2, <3>1, AgreesKept
  <2>4. ConvergedMeansAgrees'
    BY <2>1, <2>2, <2>3 DEF ConvergedMeansAgrees
  <2>5. QED
    BY <2>1, <2>2, <2>4 DEF AddressesAtWork
<1>9. ASSUME NEW F \in SUBSET Key, SyncPeers(F)
      PROVE  ConvergedInv'
  <2>1. /\ cur \in Iface /\ pc = "peers" /\ pc' = "next" /\ cur' = NoIface
        /\ UNCHANGED <<link, addrs, port, device, cfg, family, todo, pending, failed, degraded>>
        /\ unresolved \subseteq unresolved'
    BY <1>9, <1>t DEF SyncPeers, deviceVars, addressVars, TypeInv, TypeOK
  <2>2. \A j \in Iface \ {cur} : /\ members'[j] = members[j] /\ owner'[j] = owner[j]
                                 /\ endpoint'[j] = endpoint[j] /\ secured'[j] = secured[j]
    BY <1>9, <1>t DEF SyncPeers, SetPeers, TypeInv, TypeOK
  <2>3. ASSUME NEW i \in DOMAIN cfg \ (pending \cup failed)
        PROVE  Agrees(i)'
    <3>1. i \in Iface
      BY <1>t, EntryTyped DEF TypeInv, TypeOK
    <3>2. CASE i = cur
      BY <1>9, <3>1, <3>2, PeersAgree
    <3>3. CASE i # cur
      <4>1. Agrees(i)
        BY <2>1, <3>3 DEF ConvergedMeansAgrees
      <4>2. QED
        BY <2>1, <2>2, <3>1, <3>3, <4>1, AgreesKept
    <3>4. QED
      BY <3>2, <3>3
  <2>4. ConvergedMeansAgrees'
    BY <2>1, <2>3 DEF ConvergedMeansAgrees
  <2>5. AddressesAtWork'
    BY <2>1, <1>t DEF AddressesAtWork
  <2>6. QED
    BY <2>1, <2>4, <2>5, NamesAssumption
<1>10. ASSUME NEW i \in Iface, NEW k \in Key, Roams(i, k)
       PROVE  ConvergedInv'
  <2>1. /\ UNCHANGED <<link, addrs, port, members, owner, secured, device, cfg, pc, cur, family,
                       todo, pending, failed, unresolved, degraded>>
        /\ \A j \in Iface : \A l \in Key : endpoint'[j][l] \in {endpoint[j][l], Elsewhere}
        /\ members \in [Iface -> SUBSET Key]
    BY <1>10, <1>t DEF Roams, deviceVars, loopVars, addressVars, historyVars, TypeInv, TypeOK
  <2>2. ASSUME NEW j \in DOMAIN cfg, Agrees(j)
        PROVE  Agrees(j)'
    <3>1. j \in Iface
      BY <1>t, EntryTyped DEF TypeInv, TypeOK
    <3>2. QED
      BY <2>1, <2>2, <3>1, AgreesKept
  <2>3. ConvergedMeansAgrees'
    BY <2>1, <2>2 DEF ConvergedMeansAgrees
  <2>4. AddressesAtWork' /\ AtWork' /\ Clean'
    BY <2>1 DEF AddressesAtWork, SetIn, Family
  <2>5. QED
    BY <2>3, <2>4
<1>11. CASE UNCHANGED vars
  BY <1>11 DEF vars, kernelVars, peerVars, deviceVars, loopVars, addressVars, historyVars,
               ConvergedMeansAgrees, AddressesAtWork, SetIn, Family, Agrees, PeerAgrees
<1>12. QED
  BY <1>1, <1>2, <1>3, <1>4, <1>5, <1>6, <1>7, <1>8, <1>9, <1>10, <1>11
     DEF Next, Environment, Daemon

(* Whatever earlier configs, crashes and refused requests left in the kernel, an
   interface worked off without an error is what the config says, and the process
   enters its loop only when all of them are and no other link is left. *)
THEOREM ConvergedAgrees == Spec => []ConvergedMeansAgrees
<1>1. ConvergedInv => ConvergedMeansAgrees
  BY DEF ConvergedInv
<1>2. QED
  BY <1>1, ConvergedInit, ConvergedStep, PTL DEF Spec

-----------------------------------------------------------------------------
(* What the daemon may never take down. *)

LinkKept(i) == link[i] = "up" => link'[i] = "up"

AddressesKept(i) ==
  \A a \in addrs[i] \cap cfg[i].addrs :
    a \in addrs'[i] \/ \E b \in addrs[i] \ (addrs'[i] \cup cfg[i].addrs) : a \in Mates[b]

PeersKept(i) ==
  \A k \in members[i] \cap DOMAIN cfg[i].peers :
    /\ k \in members'[i]
    /\ \A c \in cfg[i].peers[k].ips : owner[i][c] = k => owner'[i][c] = k

Kept(i) == LinkKept(i) /\ AddressesKept(i) /\ PeersKept(i)

LEMMA StepKeeps ==
  ASSUME ConvergedInv, Daemon, NEW i \in DOMAIN cfg
  PROVE  Kept(i)
<1>t. TypeInv /\ AddressesAtWork
  BY DEF ConvergedInv
<1>0. i \in Iface
  BY <1>t, EntryTyped DEF TypeInv, TypeOK
<1> USE <1>0 DEF Kept, LinkKept, AddressesKept, PeersKept
<1>1. CASE \/ Start \/ GcDone \/ RunFails \/ AnyFailed \/ AllConverged
           \/ ListAddresses \/ DeletesDone \/ AssignsDone
           \/ AddressGone \/ PortTaken \/ RequestFails
  BY <1>1 DEF Start, GcDone, RunFails, AnyFailed, AllConverged, ListAddresses, DeletesDone,
              AssignsDone, AddressGone, PortTaken, RequestFails, GiveUp, kernelVars, peerVars,
              deviceVars
<1>2. ASSUME NEW j \in Iface, GcDelete(j) \/ EnsureLink(j) \/ LinkFails(j)
      PROVE  Kept(i)
  BY <1>2, <1>t DEF GcDelete, EnsureLink, LinkFails, peerVars, TypeInv, TypeOK
<1>3. ASSUME NEW a \in Addr, DeleteAddress(a)
      PROVE  Kept(i)
  <2>1. UNCHANGED <<link, members, owner>> /\ a \in addrs[cur] /\ a \in todo /\ pc = "delete"
    BY <1>3 DEF DeleteAddress, peerVars
  <2>2. PICK secondary \in {{}, Mates[a]} :
          addrs' = [addrs EXCEPT ![cur] = @ \ ({a} \cup secondary)]
    BY <1>3 DEF DeleteAddress
  <2>3. a \notin cfg[cur].addrs
    BY <1>t, <2>1 DEF AddressesAtWork
  <2>4. AddressesKept(i)
    <3>1. CASE i = cur
      <4>1. addrs'[i] = addrs[i] \ ({a} \cup secondary)
        BY <1>t, <2>2, <3>1 DEF TypeInv, TypeOK
      <4>2. QED
        BY <2>1, <2>2, <2>3, <3>1, <4>1
    <3>2. CASE i # cur
      BY <1>t, <2>2, <3>2 DEF TypeInv, TypeOK
    <3>3. QED
      BY <3>1, <3>2
  <2>5. QED
    BY <2>1, <2>4
<1>4. ASSUME NEW a \in Addr, AssignAddress(a)
      PROVE  Kept(i)
  BY <1>4, <1>t DEF AssignAddress, peerVars, TypeInv, TypeOK
<1>5. CASE SetUp \/ SetIdentity \/ SetIdentityRetried
  BY <1>5, <1>t DEF SetUp, SetIdentity, SetIdentityRetried, SetDevice, peerVars, TypeInv, TypeOK
<1>6. ASSUME NEW F \in SUBSET Key, SyncPeers(F)
      PROVE  Kept(i)
  <2>1. UNCHANGED <<link, addrs>> /\ F \subseteq Lookups /\ cur \in Iface
    BY <1>6, <1>t DEF SyncPeers, TypeInv, TypeOK
  <2>2. PICK S, K, found : Sync(F, S, K, found)
    BY <1>6, SyncIsSync
  <2>3. CASE i = cur
    <3>1. members'[i] = S \cup K
      BY <1>t, <2>2, <2>3 DEF Sync, SetPeers, TypeInv, TypeOK
    <3>2. \A k \in members[i] \cap DOMAIN cfg[i].peers : k \in S \/ k \in K
      BY <2>2, <2>3 DEF Sync
    <3>3. PeersKept(i)
      <4>1. ASSUME NEW k \in members[i] \cap DOMAIN cfg[i].peers, NEW c \in cfg[i].peers[k].ips,
                   owner[i][c] = k
            PROVE  owner'[i][c] = k
        BY <1>t, <2>1, <2>2, <2>3, <3>2, <4>1, SyncOwners
      <4>2. QED
        BY <3>1, <3>2, <4>1
    <3>4. QED
      BY <2>1, <3>3
  <2>4. CASE i # cur
    <3>1. members'[i] = members[i] /\ owner'[i] = owner[i]
      BY <1>t, <2>2, <2>4 DEF Sync, SetPeers, TypeInv, TypeOK
    <3>2. QED
      BY <2>1, <3>1
  <2>5. QED
    BY <2>3, <2>4
<1>7. QED
  BY <1>1, <1>2, <1>3, <1>4, <1>5, <1>6 DEF Daemon

(* In no step of the daemon's, failing ones included, does a link, a peer or a CIDR of a
   peer's go that the config has, nor an address, unless along with a stale one of its
   IPv4 subnet. *)
THEOREM NothingLiveGoes == Spec => LiveStateKept
<1>1. ConvergedInv =>
        [Daemon =>
           \A i \in DOMAIN cfg :
             /\ link[i] = "up" => link'[i] = "up"
             /\ \A a \in addrs[i] \cap cfg[i].addrs :
                  a \in addrs'[i] \/ \E b \in addrs[i] \ (addrs'[i] \cup cfg[i].addrs) : a \in Mates[b]
             /\ \A k \in members[i] \cap DOMAIN cfg[i].peers :
                  /\ k \in members'[i]
                  /\ \A c \in cfg[i].peers[k].ips : owner[i][c] = k => owner'[i][c] = k]_vars
  BY StepKeeps DEF Kept, LinkKept, AddressesKept, PeersKept
<1>2. QED
  BY <1>1, ConvergedInit, ConvergedStep, PTL DEF Spec, LiveStateKept
=============================================================================
