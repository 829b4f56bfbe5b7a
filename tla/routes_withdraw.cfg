CONSTANTS
  i1 = i1
  i2 = i2
  p1 = p1
  p2 = p2
  a = a
  a0 = a0
  b = b
  NoIface = NoIface
  Iface = {i1, i2}
  Peer = {p1, p2}
  Home <- HomeOf
  Cidr = {a, a0, b}
  Canon <- FreeSpelling
  Unlisted = {}
  Configs <- RespelledConfigs
  StaleSecs = 2
  MaxLag = 1
  MaxRestarts = 1
  Faults = {"dump", "add", "del", "flush"}

SPECIFICATION FairSpec

INVARIANT NoUntrackedRoute
PROPERTIES StaleRouteWithdrawn StalePeerDisconnected
