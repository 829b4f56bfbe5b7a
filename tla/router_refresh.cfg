CONSTANTS
  plain = plain
  bypass = bypass
  r1 = r1
  r2 = r2
  NoRoutes = NoRoutes
  None = None
  Torn = Torn
  Absent = Absent
  Config = {plain, bypass}
  HasBypass = {bypass}
  Resolution = {r1, r2, NoRoutes}
  Retries = 2
  MaxChanges = 1
  MaxStuck = 1
  MaxRestarts = 1
  Faults = {"resolve", "start", "read", "write", "birdc", "wedge"}

SPECIFICATION FairSpec

INVARIANTS TypeOK BirdRunsTheFile
PROPERTIES NoTornLoad NeverBlanked RefreshReachesBird StuckProtocolNudged
PROPERTY RefreshNotStarved
