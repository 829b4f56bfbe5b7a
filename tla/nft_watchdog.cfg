CONSTANTS
  filter = filter
  nat = nat
  kube = kube
  Table = {filter, nat, kube}
  Rulesets <- TwoRulesets
  Reads = {"v4", "v6"}
  Retries = 2
  MaxLines = 3
  MaxResets = 3
  MaxRestarts = 2
  Faults = {"lookup", "delete", "load", "check", "spawn", "monitor exits", "read"}

SPECIFICATION FairSpec

INVARIANTS TypeOK QuietMeansPresent NoDuplicateRules
PROPERTIES ForeignTablesSurvive RepairedOnBusyNode
