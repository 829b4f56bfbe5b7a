---------------------------- MODULE MCAwgStartup ----------------------------
(***************************************************************************)
(* Instances of AwgStartup for TLC: a mesh interface m with one peer that  *)
(* has a host name, and the interfaces of road-warrior pools.              *)
(***************************************************************************)
EXTENDS AwgStartup, TLC

CONSTANTS m, w, v, n1, n2, n3, a1, a2, a6, k1, k2, c1, c2, e1, e2, x, y, hp

Entry(p, as, ps, id, protection, switches) ==
  [port |-> p, addrs |-> as, peers |-> ps, identity |-> id, protection |-> protection,
   switches |-> switches]

Dialled(cs, es) == [ips |-> cs, answers |-> es, secured |-> FALSE]
Client(cs) == [ips |-> cs, answers |-> {}, secured |-> FALSE]
SecuredClient(cs) == [ips |-> cs, answers |-> {}, secured |-> TRUE]

(* a1 and a2 are of one IPv4 subnet, a6 is an IPv6 address. *)
SubnetMates == a1 :> {a2} @@ a2 :> {a1} @@ a6 :> {}

(* From one of them to another: w is superseded by v, which takes its port; m
   takes the port w has while w moves to a third; a CIDR changes
   hands between two peers; a peer goes, moves to another host name or gains or loses
   its security; w loses its header protection, m changes its key and its switches;
   of two addresses of one subnet one goes, or both. *)
Mesh(as) == Entry(n1, as, k1 :> Dialled({c1}, {e1, e2}), x, NoProtection, TRUE)
ManyConfigs ==
  { m :> Mesh({a1, a2})
      @@ w :> Entry(n2, {}, k1 :> Dialled({c1}, {e1}) @@ k2 :> Client({c2}), x, hp, FALSE),
    m :> Mesh({a2}) @@ v :> Entry(n2, {}, k2 :> Client({c1}), x, NoProtection, FALSE),
    m :> Entry(n2, {a6}, k1 :> Dialled({c1}, {e2}), y, NoProtection, FALSE)
      @@ w :> Entry(n3, {}, k2 :> SecuredClient({c1, c2}), x, NoProtection, FALSE) }
=============================================================================
