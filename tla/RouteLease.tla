------------------------------ MODULE RouteLease ------------------------------
(***************************************************************************)
(* What the awg daemon promises the node about the routes it tags, whatever  *)
(* its passes, its memory and its failures are: a route is installed for a    *)
(* peer that had a handshake lately, is withdrawn from no peer that has a     *)
(* live one, and a peer that is published as connected has its routes.        *)
(* HandshakeRoutes implements it.                                            *)
(***************************************************************************)
EXTENDS Naturals

CONSTANTS
  NoIface,   \* not an interface
  Peer,      \* the peers
  Home,      \* Home[p]: the interface of peer p
  Cidr,      \* CIDR strings
  Canon,     \* Canon[c]: the prefix c names
  Configs,   \* the possible allowed_ips of the peers
  StaleSecs, \* handshake_stale_secs
  Grace      \* how many seconds the daemon may act late

VARIABLES
  fib,     \* the interface each destination's tagged route uses
  age,     \* seconds since each peer's last handshake
  allowed, \* each tracked peer's allowed_ips
  verdict  \* the peers published as connected

vars == <<fib, age, allowed, verdict>>

AgeCap == StaleSecs + Grace
Claims(p, d) == \E c \in allowed[p] : Canon[c] = d
Routed(p) == \A c \in allowed[p] : fib[Canon[c]] = Home[p]

Init ==
  /\ fib = [d \in {Canon[c] : c \in Cidr} |-> NoIface]
  /\ age = [p \in Peer |-> AgeCap]
  /\ allowed \in Configs
  /\ verdict = {}

Tick ==
  /\ age' = [p \in Peer |-> IF age[p] < AgeCap THEN age[p] + 1 ELSE AgeCap]
  /\ UNCHANGED <<fib, allowed, verdict>>

Handshake(p) ==
  /\ age' = [age EXCEPT ![p] = 0]
  /\ UNCHANGED <<fib, allowed, verdict>>

(* For a peer that was fresh up to Grace seconds ago, on its own interface. *)
Install(p, d) ==
  /\ Claims(p, d) /\ age[p] < StaleSecs + Grace
  /\ fib' = [fib EXCEPT ![d] = Home[p]]
  /\ UNCHANGED <<age, allowed, verdict>>

(* From peers that are stale, or were so before a handshake of the last Grace seconds. *)
Withdraw(d) ==
  /\ \A p \in Peer : Home[p] = fib[d] /\ Claims(p, d) => age[p] >= StaleSecs \/ age[p] <= Grace
  /\ fib' = [fib EXCEPT ![d] = NoIface]
  /\ UNCHANGED <<age, allowed, verdict>>

Publish ==
  /\ verdict' \subseteq {p \in Peer : Routed(p)}
  /\ UNCHANGED <<fib, age, allowed>>

(* The daemon is gone and nobody is published, or it is back, on some config. *)
Stop == verdict' = {} /\ UNCHANGED <<fib, age, allowed>>
Start == verdict = {} /\ allowed' \in Configs /\ UNCHANGED <<fib, age, verdict>>

Next ==
  \/ Tick \/ Publish \/ Stop \/ Start
  \/ \E p \in Peer : Handshake(p) \/ \E d \in DOMAIN fib : Install(p, d)
  \/ \E d \in DOMAIN fib : Withdraw(d)

Spec == Init /\ [][Next]_vars
=============================================================================
