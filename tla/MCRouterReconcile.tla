------------------------- MODULE MCRouterReconcile -------------------------
(* Instances of RouterReconcile for TLC: a config with a bypass and one
   without, and the results the bypass may resolve to. *)
EXTENDS RouterReconcile

CONSTANTS plain, bypass, r1, r2
=============================================================================
