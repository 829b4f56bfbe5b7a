\* Deadlock is not checked: after the last of MaxCalls calls nothing is left to do.
CHECK_DEADLOCK FALSE
CONSTANTS
  Width = 3
  Configs <- MCHostBits
  Answers <- MCAnswers
  BadAsns = {"no asn"}
  Malformed = Malformed
  NoLabel = NoLabel
  Permits = 2
  None = None
  MaxCalls = 2
SPECIFICATION Spec
INVARIANTS RoutesAreDifference
