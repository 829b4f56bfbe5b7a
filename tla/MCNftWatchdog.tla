--------------------------- MODULE MCNftWatchdog ---------------------------
(* Instances of NftWatchdog for TLC: two tables a config may declare, and one
   that belongs to somebody else. *)
EXTENDS NftWatchdog

CONSTANTS filter, nat, kube

TwoRulesets == {{filter, nat}, {filter}}
OneRuleset  == {{filter}}
=============================================================================
