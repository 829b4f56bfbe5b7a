\* Deadlock is not checked: a file that is refused, with no edit left to be made, is
\* where the tool stops.
CHECK_DEADLOCK FALSE
CONSTANTS
  Unset = Unset
  LongNames = {}
  BadCidrs = {}
  BadSources = {}
  IdBits = 4
  V6Bits = 5
  NonceSize = 2
  Documents <- MCDocuments
  BaseFiles <- MCBaseFiles
  Hosts <- MCHosts
  Keys <- MCKeys
  Fresh <- MCFresh
  Absent = Absent
  Null = Null
  Everyone = Everyone
  RouterTemplate = "bird.conf"
  NftablesTemplate = "nftables.conf"
  LegacyNftables = "nftables.yaml"
  Broken = {"broken"}
  Reference = "reference"
  MaxEdits = 1
SPECIFICATION Spec
INVARIANTS EndsFit NodesMeet NodeStarts MostSpecificWins
PROPERTIES AimKept
