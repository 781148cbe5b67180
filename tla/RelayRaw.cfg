\* An upstream that answers other than 200.
SPECIFICATION Spec
CONSTANTS
  plain = plain
  mapped = mapped
  excl = excl
  dis = dis
  r1 = r1
  r2 = r2
  None = None
  Model <- MCModel
  Excluded <- MCExcluded
  Disabled <- MCDisabled
  Request <- MCRequest
  Incoming <- MCRelaying
  Listings <- MCListings
  Configs <- MCEnabled
  Mapped <- MCMapped
  MaxVersions = 3
INVARIANT NoRawRelay
