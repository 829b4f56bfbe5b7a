CONSTANTS
  m = m
  w = w
  v = v
  n1 = n1
  n2 = n2
  n3 = n3
  a1 = a1
  a2 = a2
  a6 = a6
  k1 = k1
  k2 = k2
  c1 = c1
  c2 = c2
  e1 = e1
  e2 = e2
  x = x
  y = y
  hp = hp
  Identity = {x, y}
  NoIdentity = NoIdentity
  Protection = {hp}
  NoProtection = NoProtection
  Iface = {m, w, v}
  NoIface = NoIface
  Port = {n1, n2, n3}
  NoPort = NoPort
  Addr = {a1, a2, a6}
  V4 = {a1, a2}
  Mates <- SubnetMates
  Key = {k1, k2}
  NoKey = NoKey
  Cidr = {c1, c2}
  Endpoint = {e1, e2}
  NoEndpoint = NoEndpoint
  Elsewhere = Elsewhere
  Configs <- ManyConfigs
  MaxFaults = 1
  MaxRestarts = 2

SPECIFICATION FairSpec

\* The startup ends when the process enters its loop.
CHECK_DEADLOCK FALSE

INVARIANTS TypeOK ConvergedMeansAgrees
PROPERTIES LiveStateKept EventuallyRuns
