-------------------------- MODULE HandshakeRoutes --------------------------
(***************************************************************************)
(* The route-tracking loop of the awg daemon (awg/src/handshake.rs) beside *)
(* the kernel state it owns: the routes tagged with ROUTE_PROTOCOL.  The   *)
(* daemon remembers what it installed (`installed'), seeded from the       *)
(* kernel at every start, and once a second installs the routes of peers   *)
(* whose handshake is fresh, withdraws the rest and publishes a verdict.   *)
(*                                                                         *)
(* Time is relative: age[p] is the number of seconds since peer p's last   *)
(* handshake, saturating at AgeCap (a peer that never had one is there),   *)
(* and lag is the number of seconds since the pass read the clock.         *)
(***************************************************************************)
EXTENDS Naturals

CONSTANTS
  Iface,       \* interfaces in the config, all of them tracked
  NoIface,     \* not an interface
  Peer,        \* the peers of all interfaces
  Home,        \* Home[p]: the interface peer p is configured on
  Cidr,        \* CIDR strings, as a config or the kernel may spell them
  Canon,       \* Canon[c]: the kernel's own spelling of the prefix c names
  Unlisted,    \* prefixes whose route dump carries no destination (a /0)
  Configs,     \* the possible allowed_ips of the peers, one map per config
  StaleSecs,   \* handshake_stale_secs
  MaxLag,      \* bound: seconds one pass may take
  MaxRestarts, \* bound: crashes and config restarts of the process
  Faults       \* what the environment may do, a subset of FaultKinds

FaultKinds == {"seed", "dump", "add", "del", "flush"}

ASSUME NamesAssumption ==
  /\ NoIface \notin Iface
  /\ Home \in [Peer -> Iface]
ASSUME CidrAssumption ==
  /\ Canon \in [Cidr -> Cidr]
  /\ \A c \in Cidr : Canon[Canon[c]] = Canon[c]
  /\ Unlisted \subseteq Cidr
ASSUME ConfigAssumption == Configs \subseteq [Peer -> SUBSET Cidr]
ASSUME BoundAssumption ==
  /\ StaleSecs \in Nat \ {0}
  /\ MaxLag \in Nat
  /\ MaxRestarts \in Nat
  /\ Faults \subseteq FaultKinds

VARIABLES
  fib,        \* kernel: the interface each destination's tagged route uses
  age,        \* kernel: seconds since each peer's last handshake
  allowed,    \* the running config: each tracked peer's allowed_ips
  pc,         \* where the process is
  pending,    \* interfaces still to be seeded, or still to visit in the pass
  cur,        \* the interface whose dump is being worked off
  todo,       \* routes still to add (pc = "add") or to delete (pc = "del")
  keep,       \* still_fresh of the current interface
  installed,  \* the daemon's memory of what it installed, per interface
  lag,        \* seconds since the pass read the clock
  verdict,    \* the published ReconcileSnapshot.connected
  restarts

kernelVars == <<fib, age>>
passVars   == <<pending, cur, todo, keep>>
vars == <<fib, age, allowed, pc, passVars, installed, lag, verdict, restarts>>

Dest   == {Canon[c] : c \in Cidr}
AgeCap == StaleSecs + MaxLag

(* The routes the running config asks for on interface i. *)
Wanted(i) == UNION {allowed[p] : p \in {q \in Peer : Home[q] = i}}

(* Fresh by the clock read at the start of the pass; a handshake newer than
   that reading saturates to age zero and is fresh too. *)
IsFresh(p) == age[p] < StaleSecs + lag

(* Mutant: the verdict goes by the handshake alone. *)
ConnectedByHandshake(p) == allowed[p] # {} /\ IsFresh(p)

Connected(p) == allowed[p] # {} /\ allowed[p] \subseteq installed[Home[p]]

Routed(p) == \A c \in allowed[p] : fib[Canon[c]] = Home[p]

NothingInstalled == [i \in Iface |-> {}]

-----------------------------------------------------------------------------

Init ==
  /\ fib = [d \in Dest |-> NoIface]
  /\ age = [p \in Peer |-> AgeCap]
  /\ allowed \in Configs
  /\ pc = "down"
  /\ pending = {} /\ cur = NoIface /\ todo = {} /\ keep = {}
  /\ installed = NothingInstalled
  /\ lag = 0
  /\ verdict = {}
  /\ restarts = 0

(* A second passes. *)
Tick ==
  /\ pc \in {"visit", "add", "del"} => lag < MaxLag
  /\ age' = [p \in Peer |-> IF age[p] < AgeCap THEN age[p] + 1 ELSE AgeCap]
  /\ lag' = IF pc \in {"visit", "add", "del"} THEN lag + 1 ELSE 0
  /\ UNCHANGED <<fib, allowed, pc, passVars, installed, verdict, restarts>>

Handshake(p) ==
  /\ age' = [age EXCEPT ![p] = 0]
  /\ UNCHANGED <<fib, allowed, pc, passVars, installed, lag, verdict, restarts>>

(* Somebody else cycles the link: the kernel drops its routes. *)
LinkCycle(i) ==
  /\ "flush" \in Faults
  /\ \E d \in Dest : fib[d] = i
  /\ fib' = [d \in Dest |-> IF fib[d] = i THEN NoIface ELSE fib[d]]
  /\ UNCHANGED <<age, allowed, pc, passVars, installed, lag, verdict, restarts>>

(* The process goes away: a crash, or Talos restarting it on a new config. *)
Stop ==
  /\ pc # "down"
  /\ restarts < MaxRestarts
  /\ restarts' = restarts + 1
  /\ pc' = "down"
  /\ pending' = {} /\ cur' = NoIface /\ todo' = {} /\ keep' = {}
  /\ installed' = NothingInstalled
  /\ lag' = 0
  /\ verdict' = {}
  /\ UNCHANGED <<fib, age, allowed>>

Start ==
  /\ pc = "down"
  /\ allowed' \in Configs
  /\ pc' = "seed"
  /\ pending' = Iface
  /\ UNCHANGED <<fib, age, cur, todo, keep, installed, lag, verdict, restarts>>

-----------------------------------------------------------------------------

(* What the kernel lists as tagged routes of interface i. *)
RoutesByProtocol(i) == {d \in Dest : fib[d] = i /\ d \notin Unlisted}

SeedOk(i) ==
  /\ pc = "seed" /\ i \in pending
  /\ installed' = [installed EXCEPT ![i] = RoutesByProtocol(i)]
  /\ pending' = pending \ {i}
  /\ UNCHANGED <<fib, age, allowed, pc, cur, todo, keep, lag, verdict, restarts>>

(* The listing failed: logged, and the interface starts with an empty set. *)
SeedFailed(i) ==
  /\ "seed" \in Faults
  /\ pc = "seed" /\ i \in pending
  /\ pending' = pending \ {i}
  /\ UNCHANGED <<fib, age, allowed, pc, cur, todo, keep, installed, lag,
                 verdict, restarts>>

(* The next tick of the 1 Hz interval: the pass reads the clock. *)
PassBegin ==
  /\ \/ pc = "seed" /\ pending = {}
     \/ pc = "idle"
  /\ pc' = "visit"
  /\ pending' = Iface
  /\ lag' = 0
  /\ UNCHANGED <<fib, age, allowed, cur, todo, keep, installed, verdict, restarts>>

(* GetDevice answered: the routes of the fresh peers are to be installed. *)
DumpOk(i) ==
  /\ pc = "visit" /\ i \in pending
  /\ pending' = pending \ {i}
  /\ cur' = i
  /\ todo' = UNION {allowed[p] : p \in {q \in Peer : Home[q] = i /\ IsFresh(q)}}
  /\ keep' = {}
  /\ pc' = "add"
  /\ UNCHANGED <<fib, age, allowed, installed, lag, verdict, restarts>>

(* The dump failed: the pass goes on with the next interface. *)
DumpFailed(i) ==
  /\ "dump" \in Faults
  /\ pc = "visit" /\ i \in pending
  /\ pending' = pending \ {i}
  /\ UNCHANGED <<fib, age, allowed, pc, cur, todo, keep, installed, lag,
                 verdict, restarts>>

(* Mutant: only a route that was just installed is kept. *)
AddKnownUnkept(c) ==
  /\ pc = "add" /\ c \in todo
  /\ c \in installed[cur]
  /\ todo' = todo \ {c}
  /\ UNCHANGED <<fib, age, allowed, pc, pending, cur, keep, installed, lag, verdict,
                 restarts>>

(* Already remembered as installed: nothing is asked of the kernel. *)
AddKnown(c) ==
  /\ pc = "add" /\ c \in todo
  /\ c \in installed[cur]
  /\ todo' = todo \ {c}
  /\ keep' = keep \cup {c}
  /\ UNCHANGED <<fib, age, allowed, pc, pending, cur, installed, lag, verdict,
                 restarts>>

(* `ip route replace': takes the destination over from any other interface. *)
AddOk(c) ==
  /\ pc = "add" /\ c \in todo
  /\ c \notin installed[cur]
  /\ fib' = [fib EXCEPT ![Canon[c]] = cur]
  /\ installed' = [installed EXCEPT ![cur] = @ \cup {c}]
  /\ todo' = todo \ {c}
  /\ keep' = keep \cup {c}
  /\ UNCHANGED <<age, allowed, pc, pending, cur, lag, verdict, restarts>>

(* Mutant: a failed addition is remembered as made. *)
AddFailureRemembered(c) ==
  /\ "add" \in Faults
  /\ pc = "add" /\ c \in todo
  /\ c \notin installed[cur]
  /\ installed' = [installed EXCEPT ![cur] = @ \cup {c}]
  /\ todo' = todo \ {c}
  /\ UNCHANGED <<fib, age, allowed, pc, pending, cur, keep, lag, verdict, restarts>>

AddFailed(c) ==
  /\ "add" \in Faults
  /\ pc = "add" /\ c \in todo
  /\ c \notin installed[cur]
  /\ todo' = todo \ {c}
  /\ UNCHANGED <<fib, age, allowed, pc, pending, cur, keep, installed, lag,
                 verdict, restarts>>

(* Mutant: an interface with nothing to keep is skipped. *)
AddsDoneUnlessIdle ==
  /\ pc = "add" /\ todo = {}
  /\ todo' = IF keep = {} THEN {} ELSE installed[cur] \ keep
  /\ pc' = "del"
  /\ UNCHANGED <<fib, age, allowed, pending, cur, keep, installed, lag, verdict,
                 restarts>>

(* All additions tried: what is remembered and not kept is stale. *)
AddsDone ==
  /\ pc = "add" /\ todo = {}
  /\ todo' = installed[cur] \ keep
  /\ pc' = "del"
  /\ UNCHANGED <<fib, age, allowed, pending, cur, keep, installed, lag, verdict,
                 restarts>>

(* Mutant: the delete is not scoped to the interface. *)
DelOnAnyInterface(c) ==
  /\ pc = "del" /\ c \in todo
  /\ fib' = [fib EXCEPT ![Canon[c]] = NoIface]
  /\ installed' = [installed EXCEPT ![cur] = @ \ {c}]
  /\ todo' = todo \ {c}
  /\ UNCHANGED <<age, allowed, pc, pending, cur, keep, lag, verdict, restarts>>

(* The delete is scoped to the interface; a missing route (ESRCH) is success. *)
DelOk(c) ==
  /\ pc = "del" /\ c \in todo
  /\ fib' = [fib EXCEPT ![Canon[c]] = IF @ = cur THEN NoIface ELSE @]
  /\ installed' = [installed EXCEPT ![cur] = @ \ {c}]
  /\ todo' = todo \ {c}
  /\ UNCHANGED <<age, allowed, pc, pending, cur, keep, lag, verdict, restarts>>

(* Mutant: a route whose removal failed is forgotten. *)
DelFailureForgotten(c) ==
  /\ "del" \in Faults
  /\ pc = "del" /\ c \in todo
  /\ installed' = [installed EXCEPT ![cur] = @ \ {c}]
  /\ todo' = todo \ {c}
  /\ UNCHANGED <<fib, age, allowed, pc, pending, cur, keep, lag, verdict, restarts>>

DelFailed(c) ==
  /\ "del" \in Faults
  /\ pc = "del" /\ c \in todo
  /\ todo' = todo \ {c}
  /\ UNCHANGED <<fib, age, allowed, pc, pending, cur, keep, installed, lag,
                 verdict, restarts>>

(* Mutant: the current interface is not given up. *)
DelsDoneStaying ==
  /\ pc = "del" /\ todo = {}
  /\ pc' = "visit"
  /\ keep' = {}
  /\ UNCHANGED <<fib, age, allowed, pending, cur, todo, installed, lag, verdict,
                 restarts>>

DelsDone ==
  /\ pc = "del" /\ todo = {}
  /\ pc' = "visit"
  /\ cur' = NoIface
  /\ keep' = {}
  /\ UNCHANGED <<fib, age, allowed, pending, todo, installed, lag, verdict,
                 restarts>>

(* Mutant: the new verdicts are merged into the old ones. *)
PublishMerged ==
  /\ pc = "visit" /\ pending = {}
  /\ verdict' = verdict \cup {p \in Peer : Connected(p)}
  /\ pc' = "idle"
  /\ lag' = 0
  /\ UNCHANGED <<fib, age, allowed, passVars, installed, restarts>>

(* snapshot_from over the finished pass, sent on the watch channel. *)
Publish ==
  /\ pc = "visit" /\ pending = {}
  /\ verdict' = {p \in Peer : Connected(p)}
  /\ pc' = "idle"
  /\ lag' = 0
  /\ UNCHANGED <<fib, age, allowed, passVars, installed, restarts>>

-----------------------------------------------------------------------------

Environment ==
  \/ Tick
  \/ \E p \in Peer : Handshake(p)
  \/ \E i \in Iface : LinkCycle(i)
  \/ Stop

Daemon ==
  \/ Start
  \/ \E i \in Iface : SeedOk(i) \/ SeedFailed(i) \/ DumpOk(i) \/ DumpFailed(i)
  \/ PassBegin
  \/ \E c \in Cidr : \/ AddKnown(c) \/ AddOk(c) \/ AddFailed(c)
                     \/ DelOk(c) \/ DelFailed(c)
  \/ AddsDone
  \/ DelsDone
  \/ Publish

Next == Environment \/ Daemon

Spec == Init /\ [][Next]_vars

(* The loop waits for nothing but the kernel's answers and its own 1 Hz tick,
   so it keeps stepping; nothing is assumed of the environment. *)
FairSpec == Spec /\ WF_vars(Daemon)

-----------------------------------------------------------------------------
(* Properties *)

TypeOK ==
  /\ fib \in [Dest -> Iface \cup {NoIface}]
  /\ age \in [Peer -> 0..AgeCap]
  /\ allowed \in Configs
  /\ pc \in {"down", "seed", "idle", "visit", "add", "del"}
  /\ pending \subseteq Iface
  /\ cur \in Iface \cup {NoIface}
  /\ (cur \in Iface) <=> (pc \in {"add", "del"})
  /\ todo \subseteq Cidr
  /\ keep \subseteq Cidr
  /\ installed \in [Iface -> SUBSET Cidr]
  /\ lag \in 0..MaxLag
  /\ verdict \subseteq Peer
  /\ restarts \in 0..MaxRestarts

(* What the daemon remembers of a route the config asks for is so in the
   kernel: whatever failed, crashed or moved to another interface before. *)
CacheSound ==
  \A i \in Iface : \A c \in installed[i] \cap Wanted(i) : fib[Canon[c]] = i

(* A peer published as connected has every one of its routes in the kernel,
   from the end of the pass until the next one begins (handshake.rs:351,
   "the verdict must not claim a route that isn't in the kernel"). *)
VerdictHonest == pc = "idle" => \A p \in verdict : Routed(p)

(* Once seeded, no tagged route is in the kernel that the daemon does not remember,
   under whichever spelling: the ones a former instance left behind are never leaked
   (handshake.rs:216-226). *)
Remembers(i, d) == \E c \in installed[i] : Canon[c] = d
NoUntrackedRoute ==
  pc \notin {"down", "seed"} =>
    \A d \in Dest : fib[d] # NoIface => Remembers(fib[d], d)

(* The steps in which the kernel refuses a request or a link is cycled. *)
Fault ==
  \/ \E i \in Iface : SeedFailed(i) \/ DumpFailed(i) \/ LinkCycle(i)
  \/ \E c \in Cidr : AddFailed(c) \/ DelFailed(c)
FaultsCease == <>[][~Fault]_vars

(* Whatever failed before, a peer that stays fresh gets its routes, and keeps
   them: "while its handshake stays fresher than `handshake_stale_secs' ... a
   kernel route is installed for each CIDR" (README.md:47). *)
FreshPeerRouted ==
  FaultsCease =>
    \A p \in Peer : <>[](age[p] < StaleSecs) => <>[]Routed(p)

(* Whatever failed before, a destination none of whose peers is fresh any more,
   or that no peer of the config claims, is withdrawn for good ("once it goes
   stale, the route is removed", README.md:48), and the peer's verdict with it. *)
Claims(p, d) == \E c \in allowed[p] : Canon[c] = d
StaleRouteWithdrawn ==
  FaultsCease =>
    \A d \in Dest :
      <>[](\A p \in Peer : Claims(p, d) => age[p] >= StaleSecs)
        => <>[](fib[d] = NoIface)
StalePeerDisconnected ==
  FaultsCease =>
    \A p \in Peer : <>[](age[p] >= StaleSecs) => <>[](p \notin verdict)

(* Seen from outside, the passes, the memory and the restarts come to this: routes
   are installed for peers that were fresh at most a pass ago, none is taken from a
   peer with a live handshake, and no verdict is published without its routes
   (README.md:46-48).  A pass takes up to MaxLag seconds. *)
Lease == INSTANCE RouteLease WITH Grace <- MaxLag
LeaseKept == Lease!Spec
=============================================================================
