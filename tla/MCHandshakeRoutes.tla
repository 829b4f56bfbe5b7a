------------------------- MODULE MCHandshakeRoutes -------------------------
(***************************************************************************)
(* Instances of HandshakeRoutes for TLC: two interfaces with a peer each,    *)
(* and two prefixes, one of which has a spelling that is not the kernel's. *)
(***************************************************************************)
EXTENDS HandshakeRoutes, TLC

CONSTANTS i1, i2, p1, p2, a, a0, b

HomeOf == p1 :> i1 @@ p2 :> i2

CanonSpelling == [c \in {a, b} |-> c]
FreeSpelling == [c \in {a, a0, b} |-> IF c = a0 THEN a ELSE c]

(* The prefixes of the two peers are disjoint in each config, and a restart
   may move one from a peer of i1 to the peer of i2 or drop it. *)
DisjointConfigs ==
  { p1 :> {a, b} @@ p2 :> {}, p1 :> {a} @@ p2 :> {b}, p1 :> {} @@ p2 :> {b} }

(* The same with a spelled as a0 in one config and as a in another, or claimed by
   both interfaces, once in each spelling. *)
RespelledConfigs ==
  { p1 :> {a0, b} @@ p2 :> {}, p1 :> {a} @@ p2 :> {b}, p1 :> {a0} @@ p2 :> {a} }
=============================================================================
