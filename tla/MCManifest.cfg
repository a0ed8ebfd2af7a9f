SPECIFICATION Spec
CONSTANTS
  service = service
  other = other
  ripe = ripe
  radb = radb
  hripe = hripe
  hradb = hradb
  routes = routes
  maint = maint
  asn = asn
  mnt = mnt
  as1 = as1
  as2 = as2
  set = set
  NoScript = NoScript
  NoHelper = NoHelper
  Empty = Empty
  Scripts <- ScriptsOf
  Hosts = {hripe, hradb}
  MirrorOf <- Names
  HelperNames = {routes, maint}
  Variables = {asn, mnt}
  AsNumbers = {as1, as2}
  OtherValues = {set}
  Snapshots <- SomeSnapshots
  Cadences = {"daily", "weekly"}
  KeepCount <- Counts
  MaxPlans = 3
INVARIANTS QueriesAreAsked NothingIsLeftOut LoadsBack PlanAsIfNoneDeleted PrunedForGood
CHECK_DEADLOCK FALSE
