SPECIFICATION Spec
CONSTANTS
  i1 = i1
  i2 = i2
  fastly = fastly
  cogent = cogent
  x = x
  y = y
  as = as
  feed = feed
  geo = geo
  None = None
  Invocations = {i1, i2}
  Keys = {as, feed, geo}
  Addresses = {x, y}
  Downloaders = {cogent, fastly}
  References = {"uncached", "cached-whois"}
  Workloads <- OnlyAlone
  ScriptOf <- Scripts
  Appending = {fastly}
  Committed <- Repository
  Replies <- NetworkReplies
  IndexReplies <- IndexIsBehind
INVARIANT OutputIsOwn
CHECK_DEADLOCK FALSE
