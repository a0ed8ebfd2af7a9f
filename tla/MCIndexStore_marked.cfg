SPECIFICATION Spec
CONSTANTS
  ripe = ripe
  radb = radb
  b1 = b1
  b2 = b2
  p = p
  q = q
  asn = asn
  mnt = mnt
  NoName = NoName
  Missing = Missing
  Failed = Failed
  NoLock = NoLock
  Names = {ripe, radb}
  Skipped = {}
  Builds = {b1}
  Prefixes = {p, q}
  Attributes = {asn, mnt}
  Dumps <- MCDumps
  DumpsOf <- OneDumpOf
  MaxBuilds = 2
INVARIANT FailuresAreMarked
CHECK_DEADLOCK FALSE
