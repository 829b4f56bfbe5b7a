----------------------------- MODULE AwgStartup -----------------------------
(***************************************************************************)
(* The startup of the awg daemon (awg/src/main.rs, gc.rs, interface.rs):   *)
(* it brings the node's amneziawg links to what its config says, interface *)
(* by interface, exits if one of them failed, is started again, and enters *)
(* its tracking loop (HandshakeRoutes) once all of them have converged.    *)
(* Beside it: the kernel's links, which outlive the process but not a      *)
(* reboot, and the DNS the peers' endpoints are resolved with.             *)
(***************************************************************************)
EXTENDS Naturals

CONSTANTS
  Iface, NoIface,
  Port, NoPort,  \* NoPort: one the kernel picked, in nobody's way
  Addr,
  V4,            \* those of them that are IPv4 addresses
  Mates,         \* Mates[a]: the other addresses of a's IPv4 subnet
  Key, NoKey,    \* the peers' public keys
  Cidr,
  Endpoint, NoEndpoint, \* where a device sends a peer's packets
  Elsewhere,     \* where a peer has moved to of its own accord
  Identity, NoIdentity, \* what SetDevice is always sent: private key, junk and headers
  Protection, NoProtection, \* the header protection, left out of it when there is none
  Configs,       \* the possible configs, each a function from its interfaces
                 \* to [port, addrs, peers, identity, protection, switches], peers
                 \* mapping keys to [ips, answers, secured]: allowed_ips, what the
                 \* endpoint may resolve to (nothing if there is none), advanced_security
  MaxFaults,     \* bound: requests that are refused, lookups that fail
  MaxRestarts    \* bound: crashes, config changes and reboots

(* The peers of one interface claim distinct CIDRs. *)
Disjoint(peers) ==
  \A k, l \in DOMAIN peers : k # l => peers[k].ips \cap peers[l].ips = {}

ASSUME NamesAssumption ==
  /\ NoIface \notin Iface /\ NoPort \notin Port /\ NoKey \notin Key
  /\ NoIdentity \notin Identity /\ NoProtection \notin Protection
  /\ NoEndpoint \notin Endpoint /\ Elsewhere \notin Endpoint
ASSUME AddressAssumption ==
  /\ V4 \subseteq Addr
  /\ Mates \in [Addr -> SUBSET V4]
  /\ \A a \in Addr \ V4 : Mates[a] = {}
ASSUME ConfigAssumption ==
  \A c \in Configs :
    /\ DOMAIN c \subseteq Iface
    /\ \A i \in DOMAIN c :
         /\ c[i].port \in Port /\ c[i].addrs \subseteq Addr
         /\ c[i].identity \in Identity
         /\ c[i].protection \in Protection \cup {NoProtection} /\ c[i].switches \in BOOLEAN
         /\ DOMAIN c[i].peers \subseteq Key
         /\ \A k \in DOMAIN c[i].peers :
              c[i].peers[k] \in [ips : SUBSET Cidr, answers : SUBSET Endpoint, secured : BOOLEAN]
         /\ Disjoint(c[i].peers)
ASSUME BoundAssumption == MaxFaults \in Nat /\ MaxRestarts \in Nat

VARIABLES
  link,      \* kernel: "none", "down" or "up"
  addrs,     \* kernel: the addresses of each link
  port,      \* kernel: the listen port of each device
  members,   \* kernel: the peers of each device
  owner,     \* kernel: the peer each CIDR is routed to inside a device
  endpoint,  \* kernel: where each peer of a device is reached
  secured,   \* kernel: the peers of each device that have advanced security
  device,    \* kernel: the identity, protection and 3.1 switches of each device
  modern,    \* kernel: whether its amneziawg module is 3.1 or later
  cfg,       \* the config
  pc,        \* where the process is
  cur,       \* the interface being converged
  family,    \* the family of its addresses being set, "v4" and then "v6"
  todo,      \* those still to delete (pc = "delete") or to set (pc = "assign")
  pending,   \* interfaces still to converge
  failed,    \* interfaces that failed in this run of the process
  unresolved,\* history: the peers it could not resolve, with their interface
  degraded,  \* history: the interfaces whose switches it gave up on
  faults, restarts

deviceVars  == <<device, modern>>
peerVars    == <<members, owner, endpoint, secured>>
kernelVars  == <<link, addrs, port, peerVars, deviceVars>>
addressVars == <<family, todo>>
historyVars == <<unresolved, degraded>>
loopVars    == <<cur, addressVars, pending, failed, historyVars>>
bounds      == <<faults, restarts>>
vars == <<kernelVars, cfg, pc, loopVars, bounds>>

Nobody == [c \in Cidr |-> NoKey]
Nowhere == [k \in Key |-> NoEndpoint]
Blank == [identity |-> NoIdentity, protection |-> NoProtection, switches |-> FALSE]

All(x) == [i \in Iface |-> x]

(* A socket binds the port unless another device that is up has it. *)
PortFree(p) == p = NoPort \/ \A j \in Iface \ {cur} : link[j] = "up" => port[j] # p

-----------------------------------------------------------------------------

Init ==
  /\ link = All("none") /\ addrs = All({}) /\ port = All(NoPort)
  /\ members = All({}) /\ owner = All(Nobody)
  /\ endpoint = All(Nowhere) /\ secured = All({})
  /\ device = All(Blank) /\ modern \in BOOLEAN
  /\ cfg \in Configs
  /\ pc = "down"
  /\ cur = NoIface /\ family = "v4" /\ todo = {}
  /\ pending = {} /\ failed = {}
  /\ unresolved = {} /\ degraded = {}
  /\ faults = 0 /\ restarts = 0

Gone ==
  /\ pc' = "down"
  /\ cur' = NoIface /\ family' = "v4" /\ todo' = {}
  /\ pending' = {} /\ failed' = {}
  /\ unresolved' = {} /\ degraded' = {}

(* The process crashes, or Talos restarts it on a new config. *)
Restart ==
  /\ pc # "down"
  /\ restarts < MaxRestarts
  /\ restarts' = restarts + 1
  /\ cfg' \in Configs
  /\ Gone
  /\ UNCHANGED <<kernelVars, faults>>

(* A reboot may bring another version of the module. *)
Reboot ==
  /\ restarts < MaxRestarts
  /\ restarts' = restarts + 1
  /\ Gone
  /\ link' = All("none") /\ addrs' = All({}) /\ port' = All(NoPort)
  /\ members' = All({}) /\ owner' = All(Nobody)
  /\ endpoint' = All(Nowhere) /\ secured' = All({})
  /\ device' = All(Blank) /\ modern' \in BOOLEAN
  /\ UNCHANGED <<cfg, faults>>

(* A packet of the peer's came from another address: the kernel answers there. *)
Roams(i, k) ==
  /\ link[i] = "up" /\ k \in members[i]
  /\ endpoint' = [endpoint EXCEPT ![i][k] = Elsewhere]
  /\ UNCHANGED <<link, addrs, port, members, owner, secured, deviceVars, cfg, pc, loopVars,
                 bounds>>

Start ==
  /\ pc = "down"
  /\ pc' = "gc"
  /\ UNCHANGED <<kernelVars, cfg, loopVars, bounds>>

-----------------------------------------------------------------------------
(* gc *)

GcDelete(i) ==
  /\ pc = "gc" /\ link[i] # "none" /\ i \notin DOMAIN cfg
  /\ link' = [link EXCEPT ![i] = "none"]
  /\ addrs' = [addrs EXCEPT ![i] = {}]
  /\ port' = [port EXCEPT ![i] = NoPort]
  /\ members' = [members EXCEPT ![i] = {}]
  /\ owner' = [owner EXCEPT ![i] = Nobody]
  /\ endpoint' = [endpoint EXCEPT ![i] = Nowhere]
  /\ secured' = [secured EXCEPT ![i] = {}]
  /\ device' = [device EXCEPT ![i] = Blank]
  /\ UNCHANGED <<modern, cfg, pc, loopVars, bounds>>

GcDone ==
  /\ pc = "gc"
  /\ \A i \in Iface \ DOMAIN cfg : link[i] = "none"
  /\ pc' = "next"
  /\ pending' = DOMAIN cfg
  /\ UNCHANGED <<kernelVars, cfg, cur, addressVars, failed, historyVars, bounds>>

(* Listing or deleting a link failed, or looking one up in the end: fatal. *)
RunFails ==
  /\ pc = "gc" \/ (pc = "next" /\ pending = {})
  /\ faults < MaxFaults
  /\ faults' = faults + 1
  /\ Gone
  /\ UNCHANGED <<kernelVars, cfg, restarts>>

-----------------------------------------------------------------------------
(* ensure_interface, one step for each request to the kernel *)

EnsureLink(i) ==
  /\ pc = "next" /\ i \in pending
  /\ cur' = i
  /\ pending' = pending \ {i}
  /\ link' = [link EXCEPT ![i] = IF @ = "none" THEN "down" ELSE @]
  /\ pc' = "list"
  /\ UNCHANGED <<addrs, port, peerVars, deviceVars, cfg, addressVars, failed, historyVars,
                 bounds>>

(* Looking the link up fails, before it was created or after, or creating it does. *)
LinkFails(i) ==
  /\ pc = "next" /\ i \in pending
  /\ faults < MaxFaults
  /\ faults' = faults + 1
  /\ pending' = pending \ {i}
  /\ failed' = failed \cup {i}
  /\ \/ UNCHANGED link
     \/ link[i] = "none" /\ link' = [link EXCEPT ![i] = "down"]
  /\ UNCHANGED <<addrs, port, peerVars, deviceVars, cfg, pc, cur, addressVars, historyVars,
                 restarts>>

(* The error is collected, and the next interface converged. *)
GiveUp ==
  /\ pc' = "next"
  /\ cur' = NoIface /\ family' = "v4" /\ todo' = {}
  /\ failed' = failed \cup {cur}
  /\ UNCHANGED <<kernelVars, cfg, pending, historyVars, restarts>>

-----------------------------------------------------------------------------
(* ensure_addresses, for the IPv4 ones and then for the IPv6 ones *)

Family == IF family = "v4" THEN V4 ELSE Addr \ V4

(* to_remove. *)
ListAddresses ==
  /\ pc = "list"
  /\ todo' = (addrs[cur] \cap Family) \ cfg[cur].addrs
  /\ pc' = "delete"
  /\ UNCHANGED <<kernelVars, cfg, cur, family, pending, failed, historyVars, bounds>>

(* If a is the primary address of an IPv4 subnet, the kernel deletes the secondary ones
   along with it, unless it is set to promote one of them; which of the addresses is
   the primary depends on the order in which they came. *)
DeleteAddress(a) ==
  /\ pc = "delete" /\ a \in todo /\ a \in addrs[cur]
  /\ \E secondary \in {{}, Mates[a]} :
       addrs' = [addrs EXCEPT ![cur] = @ \ ({a} \cup secondary)]
  /\ todo' = todo \ {a}
  /\ UNCHANGED <<link, port, peerVars, deviceVars, cfg, pc, cur, family, pending, failed,
                 historyVars, bounds>>

(* EADDRNOTAVAIL: a stale address went with another one. *)
AddressGone ==
  /\ pc = "delete" /\ \E a \in todo : a \notin addrs[cur]
  /\ GiveUp
  /\ UNCHANGED faults

DeletesDone ==
  /\ pc = "delete" /\ todo = {}
  /\ todo' = cfg[cur].addrs \cap Family
  /\ pc' = "assign"
  /\ UNCHANGED <<kernelVars, cfg, cur, family, pending, failed, historyVars, bounds>>

AssignAddress(a) ==
  /\ pc = "assign" /\ a \in todo
  /\ addrs' = [addrs EXCEPT ![cur] = @ \cup {a}]
  /\ todo' = todo \ {a}
  /\ UNCHANGED <<link, port, peerVars, deviceVars, cfg, pc, cur, family, pending, failed,
                 historyVars, bounds>>

AssignsDone ==
  /\ pc = "assign" /\ todo = {}
  /\ \/ family = "v4" /\ family' = "v6" /\ pc' = "list"
     \/ family = "v6" /\ family' = "v4" /\ pc' = "up"
  /\ UNCHANGED <<kernelVars, cfg, cur, todo, pending, failed, historyVars, bounds>>

-----------------------------------------------------------------------------
(* the link up, its identity and its peers *)

(* Setting a link up binds the port its device has. *)
SetUp ==
  /\ pc = "up"
  /\ link[cur] = "up" \/ PortFree(port[cur])
  /\ link' = [link EXCEPT ![cur] = "up"]
  /\ pc' = "identity"
  /\ UNCHANGED <<addrs, port, peerVars, deviceVars, cfg, loopVars, bounds>>

(* SetDevice: a device that has the port already does not bind it again.  What *)
(* is not sent stays as it is, as the protection does when there is none.      *)
SetDevice(switches) ==
  /\ pc = "identity"
  /\ port[cur] = cfg[cur].port \/ PortFree(cfg[cur].port)
  /\ port' = [port EXCEPT ![cur] = cfg[cur].port]
  /\ device' = [device EXCEPT ![cur] =
                  [identity   |-> cfg[cur].identity,
                   protection |-> IF cfg[cur].protection = NoProtection THEN @.protection
                                  ELSE cfg[cur].protection,
                   switches   |-> switches]]
  /\ pc' = "peers"
  /\ UNCHANGED <<link, addrs, peerVars, modern, cfg, cur, addressVars, pending, failed,
                 unresolved, restarts>>

SetIdentity ==
  /\ modern
  /\ SetDevice(cfg[cur].switches)
  /\ UNCHANGED <<degraded, faults>>

(* The request is refused, by an older module because of the 3.1 switches, and is *)
(* made again without them.                                                       *)
SetIdentityRetried ==
  /\ modern => faults < MaxFaults
  /\ faults' = IF modern THEN faults + 1 ELSE faults
  /\ SetDevice(device[cur].switches)
  /\ degraded' = degraded \cup {cur}

(* Mutant: the first interface to fail ends the process. *)
PortTakenExiting ==
  /\ \/ pc = "up" /\ link[cur] # "up" /\ ~PortFree(port[cur])
     \/ pc = "identity" /\ port[cur] # cfg[cur].port /\ ~PortFree(cfg[cur].port)
  /\ Gone
  /\ UNCHANGED <<kernelVars, cfg, bounds>>

(* EADDRINUSE. *)
PortTaken ==
  /\ \/ pc = "up" /\ link[cur] # "up" /\ ~PortFree(port[cur])
     \/ pc = "identity" /\ port[cur] # cfg[cur].port /\ ~PortFree(cfg[cur].port)
  /\ GiveUp
  /\ UNCHANGED faults

(* Mutant: the interface whose request was refused remains the current one. *)
RequestFailsStaying ==
  /\ pc \in {"list", "delete", "assign", "up", "identity", "peers"}
  /\ faults < MaxFaults
  /\ faults' = faults + 1
  /\ pc' = "next" /\ family' = "v4" /\ todo' = {}
  /\ failed' = failed \cup {cur}
  /\ UNCHANGED <<kernelVars, cfg, cur, pending, historyVars, restarts>>

RequestFails ==
  /\ pc \in {"list", "delete", "assign", "up", "identity", "peers"}
  /\ faults < MaxFaults
  /\ faults' = faults + 1
  /\ GiveUp

(* The configured peers whose endpoint has to be resolved, and what those not in F
   resolve to. *)
Lookups == {k \in DOMAIN cfg[cur].peers : cfg[cur].peers[k].answers # {}}
Resolutions(F) ==
  {found \in [Lookups \ F -> Endpoint] :
     \A k \in Lookups \ F : found[k] \in cfg[cur].peers[k].answers}

(* Mutant: only the allowed_ips of a peer are compared. *)
DiffersInIps(k, found) ==
  \/ k \notin members[cur]
  \/ {c \in Cidr : owner[cur][c] = k} # cfg[cur].peers[k].ips

(* diff_peers: the peer as current_peers reads it back, always without advanced
   security, is not the one desired. *)
Differs(k, found) ==
  \/ k \notin members[cur]
  \/ {c \in Cidr : owner[cur][c] = k} # cfg[cur].peers[k].ips
  \/ endpoint[cur][k] # IF k \in Lookups THEN found[k] ELSE NoEndpoint
  \/ cfg[cur].peers[k].secured

(* The owner of each CIDR after the peers in S have been set: theirs go to them,
   the rest stays with the peers in K, which the request does not mention. *)
Owners(i, S, K) ==
  [c \in Cidr |->
     IF \E k \in S : c \in cfg[i].peers[k].ips
     THEN CHOOSE k \in S : c \in cfg[i].peers[k].ips
     ELSE IF owner[i][c] \in K THEN owner[i][c] ELSE NoKey]

(* SetDevice with the peers in S, all but those in K removed.  What is not sent of a
   peer stays as it is: its endpoint if it has none, and its advanced security. *)
SetPeers(S, K, found) ==
  /\ members' = [members EXCEPT ![cur] = S \cup K]
  /\ owner' = [owner EXCEPT ![cur] = Owners(cur, S, K)]
  /\ endpoint' = [endpoint EXCEPT ![cur] =
       [k \in Key |-> IF k \in S \cap DOMAIN found THEN found[k]
                      ELSE IF k \in S \cup K THEN @[k] ELSE NoEndpoint]]
  /\ secured' = [secured EXCEPT ![cur] =
       (@ \cap (S \cup K)) \cup {k \in S : cfg[cur].peers[k].secured}]

(* Mutant: a peer that does not resolve is left out of the desired ones. *)
SyncResolvedPeers(F) ==
  /\ pc = "peers"
  /\ F \subseteq Lookups
  /\ faults + (IF F = {} THEN 0 ELSE 1) <= MaxFaults
  /\ faults' = faults + (IF F = {} THEN 0 ELSE 1)
  /\ \E found \in Resolutions(F) :
       LET resolved == DOMAIN cfg[cur].peers \ F
           changed  == {k \in resolved : Differs(k, found)}
       IN  SetPeers(changed, resolved \ changed, found)
  /\ unresolved' = unresolved \cup ({cur} \X F)
  /\ pc' = "next" /\ cur' = NoIface
  /\ UNCHANGED <<link, addrs, port, deviceVars, cfg, addressVars, pending, failed, degraded,
                 restarts>>

(* The peers in F do not resolve: those the device has already are left as they are,
   the others skipped.  Of the rest, the ones that differ are sent. *)
SyncPeers(F) ==
  /\ pc = "peers"
  /\ F \subseteq Lookups
  /\ faults + (IF F = {} THEN 0 ELSE 1) <= MaxFaults
  /\ faults' = faults + (IF F = {} THEN 0 ELSE 1)
  /\ \E found \in Resolutions(F) :
       LET resolved == DOMAIN cfg[cur].peers \ F
           changed  == {k \in resolved : Differs(k, found)}
       IN  SetPeers(changed, (resolved \ changed) \cup (F \cap members[cur]), found)
  /\ unresolved' = unresolved \cup ({cur} \X F)
  /\ pc' = "next" /\ cur' = NoIface
  /\ UNCHANGED <<link, addrs, port, deviceVars, cfg, addressVars, pending, failed, degraded,
                 restarts>>

(* A failed interface ends the process; Talos starts it again. *)
AnyFailed ==
  /\ pc = "next" /\ pending = {}
  /\ failed # {}
  /\ Gone
  /\ UNCHANGED <<kernelVars, cfg, bounds>>

AllConverged ==
  /\ pc = "next" /\ pending = {}
  /\ failed = {}
  /\ pc' = "run"
  /\ UNCHANGED <<kernelVars, cfg, loopVars, bounds>>

-----------------------------------------------------------------------------

Environment ==
  \/ Restart \/ Reboot
  \/ \E i \in Iface, k \in Key : Roams(i, k)

Daemon ==
  \/ Start \/ GcDone \/ RunFails
  \/ \E i \in Iface : GcDelete(i) \/ EnsureLink(i) \/ LinkFails(i)
  \/ ListAddresses \/ AddressGone \/ DeletesDone \/ AssignsDone
  \/ \E a \in Addr : DeleteAddress(a) \/ AssignAddress(a)
  \/ SetUp \/ SetIdentity \/ SetIdentityRetried \/ PortTaken \/ RequestFails
  \/ \E F \in SUBSET Key : SyncPeers(F)
  \/ AnyFailed \/ AllConverged

Next == Environment \/ Daemon

Spec == Init /\ [][Next]_vars

(* "restart: always" (extension-services/awg.yaml), and every request and
   lookup returns in a bounded time. *)
FairSpec == Spec /\ WF_vars(Daemon)

-----------------------------------------------------------------------------
(* Properties *)

TypeOK ==
  /\ link \in [Iface -> {"none", "down", "up"}]
  /\ addrs \in [Iface -> SUBSET Addr]
  /\ port \in [Iface -> Port \cup {NoPort}]
  /\ members \in [Iface -> SUBSET Key]
  /\ owner \in [Iface -> [Cidr -> Key \cup {NoKey}]]
  /\ endpoint \in [Iface -> [Key -> Endpoint \cup {NoEndpoint, Elsewhere}]]
  /\ secured \in [Iface -> SUBSET Key]
  /\ device \in [Iface -> [identity   : Identity \cup {NoIdentity},
                           protection : Protection \cup {NoProtection},
                           switches   : BOOLEAN]]
  /\ modern \in BOOLEAN
  /\ cfg \in Configs
  /\ pc \in {"down", "gc", "next", "list", "delete", "assign", "up", "identity", "peers", "run"}
  /\ cur \in Iface \cup {NoIface}
  /\ (cur \in Iface) <=> (pc \in {"list", "delete", "assign", "up", "identity", "peers"})
  /\ family \in {"v4", "v6"}
  /\ todo \subseteq Addr
  /\ pending \subseteq DOMAIN cfg
  /\ failed \subseteq DOMAIN cfg
  /\ unresolved \subseteq Iface \X Key
  /\ degraded \subseteq DOMAIN cfg
  /\ faults \in 0..MaxFaults
  /\ restarts \in 0..MaxRestarts

(* Peer k of interface i is what the config says, wherever it has moved to; advanced
   security that the config does not ask for any more may still be there. *)
PeerAgrees(i, k) ==
  /\ k \in members[i]
  /\ \A c \in cfg[i].peers[k].ips : owner[i][c] = k
  /\ cfg[i].peers[k].answers # {} => endpoint[i][k] \in cfg[i].peers[k].answers \cup {Elsewhere}
  /\ cfg[i].peers[k].secured => k \in secured[i]

(* Interface i is what the config says, up to the peers not resolved, to switches that
   were refused, and to a protection that the config does not have any more. *)
Agrees(i) ==
  /\ link[i] = "up" /\ port[i] = cfg[i].port /\ addrs[i] = cfg[i].addrs
  /\ device[i].identity = cfg[i].identity
  /\ device[i].protection = cfg[i].protection \/ cfg[i].protection = NoProtection
  /\ device[i].switches = cfg[i].switches \/ i \in degraded
  /\ members[i] \subseteq DOMAIN cfg[i].peers
  /\ \A c \in Cidr : owner[i][c] \in members[i] \cup {NoKey}
  /\ \A k \in DOMAIN cfg[i].peers : <<i, k>> \notin unresolved => PeerAgrees(i, k)

(* An interface that was worked off without an error agrees with the config,
   whatever happens to the others before and after it; when the process enters
   its loop all of them do, and there is no other link. *)
ConvergedMeansAgrees ==
  pc \notin {"down", "gc"} =>
    /\ \A i \in DOMAIN cfg \ (pending \cup failed \cup {cur}) : Agrees(i)
    /\ \A i \in Iface \ DOMAIN cfg : link[i] = "none"

(* The daemon never takes down a link, a peer or a peer's CIDR that the config has,
   not even for a moment or while the peer's endpoint does not resolve ("tear down
   its live session over what might be a one-off resolver hiccup",
   interface.rs:348), nor an address, unless that is a secondary one and goes with
   a stale one of its subnet (rt.rs:233). *)
LiveStateKept ==
  [][Daemon =>
       \A i \in DOMAIN cfg :
         /\ link[i] = "up" => link'[i] = "up"
         /\ \A a \in addrs[i] \cap cfg[i].addrs :
              a \in addrs'[i] \/ \E b \in addrs[i] \ (addrs'[i] \cup cfg[i].addrs) : a \in Mates[b]
         /\ \A k \in members[i] \cap DOMAIN cfg[i].peers :
              /\ k \in members'[i]
              /\ \A c \in cfg[i].peers[k].ips : owner[i][c] = k => owner'[i][c] = k]_vars

(* From whatever an earlier config, a crash or refused requests left behind,
   the process gets to its loop for good. *)
EventuallyRuns == <>[](pc = "run")
=============================================================================
