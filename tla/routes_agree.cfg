CONSTANTS
  i1 = i1
  i2 = i2
  p1 = p1
  p2 = p2
  a = a
  a0 = a0
  b = b
  NoIface = NoIface
  Iface = {i1, i2}
  Peer = {p1, p2}
  Home <- HomeOf
  Cidr = {a, b}
  Canon <- CanonSpelling
  Unlisted = {}
  Configs <- DisjointConfigs
  StaleSecs = 3
  MaxLag = 1
  MaxRestarts = 2
  Faults = {"seed", "dump", "add", "del"}

SPECIFICATION FairSpec

INVARIANTS TypeOK CacheSound VerdictHonest
PROPERTIES FreshPeerRouted LeaseKept
