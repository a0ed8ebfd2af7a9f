SPECIFICATION Spec
CONSTANTS
  i1 = i1
  i2 = i2
  fastly = fastly
  cogent = cogent
  x = x
  y = y
  as = as
  feed = feed
  geo = geo
  None = None
  Invocations = {i1, i2}
  Keys = {as, feed, geo}
  Addresses = {x, y}
  Downloaders = {cogent, fastly}
  References = {"committed", "uncached", "cached-whois"}
  Workloads <- RaceAndAlone
  ScriptOf <- Scripts
  Appending = {}
  Committed <- Repository
  Replies <- NetworkReplies
  IndexReplies <- IndexIsBehind
SYMMETRY InvocationSymmetry
INVARIANTS PairedRunsAgree FailuresAreOwn OutputIsOwn DifferencesComeFromWhois
PROPERTY RunsRealOnce
CHECK_DEADLOCK FALSE
