SPECIFICATION Spec
CONSTANTS
  ripe = ripe
  radb = radb
  b1 = b1
  b2 = b2
  p = p
  q = q
  asn = asn
  mnt = mnt
  NoName = NoName
  Missing = Missing
  Failed = Failed
  NoLock = NoLock
  Names = {ripe, radb}
  Skipped = {}
  Builds = {b1, b2}
  Prefixes = {p, q}
  Attributes = {asn, mnt}
  Dumps <- MCDumps
  DumpsOf <- MCDumpsOf
  MaxBuilds = 3
SYMMETRY BuildSymmetry
INVARIANTS AttrsOwned OnlyOkSourcesHoldObjects
PROPERTIES LockReleased ImplementsSourceIndex
CHECK_DEADLOCK FALSE
