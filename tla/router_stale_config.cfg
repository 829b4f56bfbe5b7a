CONSTANTS
  plain = plain
  bypass = bypass
  r1 = r1
  r2 = r2
  NoRoutes = NoRoutes
  None = None
  Torn = Torn
  Absent = Absent
  Config = {bypass}
  HasBypass = {bypass}
  Resolution = {r1, r2}
  Retries = 2
  MaxChanges = 1
  MaxStuck = 0
  MaxRestarts = 0
  Faults = {"birdc"}

SPECIFICATION FairSpec

PROPERTY StaleConfigReloaded
