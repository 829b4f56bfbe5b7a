----------------------------- MODULE MCTaloscfg -----------------------------
(* Two hosts with one secret between them, which clients' configs carry too; *)
(* one of them has the clients.                                              *)
EXTENDS Taloscfg

CONSTANTS a, b

Everything == [h \in Hosts |-> Secrets]
=============================================================================
