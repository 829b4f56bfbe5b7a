\* Deadlock is not checked: with every value minted and no client there is nothing
\* left to run, and the tool does stop between its invocations.
CHECK_DEADLOCK FALSE
CONSTANTS
  Procs = {p, q}
  a = a
  b = b
  Hosts = {a, b}
  Secrets = {key}
  Uses <- Everything
  PoolSecrets = {key}
  PoolHosts = {a}
  Clients = {phone}
  Nothing = Nothing
  Torn = Torn
  MaxMints = 2
  MaxMishaps = 1
SPECIFICATION FairSpec
INVARIANTS TypeOK RecordedFirst EndsAgree
PROPERTIES NothingLost PatchesFollow
