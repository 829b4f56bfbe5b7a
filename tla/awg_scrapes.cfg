CONSTANTS
  Conns = {c1, c2, c3}
  Interface <- MCInterface
  None = None
  MaxFaults = 3
SPECIFICATION FairSpec
INVARIANTS UnreadByFaultOnly
PROPERTIES ScrapeAnswered ReadsRecover
