\* Two requests of every kind; threads and upstream are fair.
SPECIFICATION LiveSpec
CONSTANTS
  plain = plain
  mapped = mapped
  excl = excl
  dis = dis
  r1 = r1
  r2 = r2
  None = None
  Model <- MCModel
  Excluded <- MCExcluded
  Disabled <- MCDisabled
  Request <- MCRequest
  Incoming <- MCEverything
  Listings <- MCListings
  Configs <- MCConfigs
  Mapped <- MCMapped
  MaxVersions = 2
INVARIANTS TypeOK NoEscalation RefusalWasTrue DiscoveryMatchesGate DiscoveryIsFresh
PROPERTIES EveryRequestAnswered CacheNeverOlder GatePromised
