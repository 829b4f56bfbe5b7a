CONSTANTS
  filter = filter
  nat = nat
  kube = kube
  Table = {filter, nat, kube}
  Rulesets <- OneRuleset
  Reads = {}
  Retries = 2
  MaxLines = 2
  MaxResets = 1
  MaxRestarts = 0
  Faults = {}

SPECIFICATION FairSpec

PROPERTY KeptApplied
