SPECIFICATION Spec
CONSTANTS
  radb = radb
  ripe = ripe
  absent = absent
  hradb = hradb
  hripe = hripe
  apnic = apnic
  mradb = mradb
  mripe = mripe
  akamai = akamai
  alibaba = alibaba
  x4 = x4
  x6 = x6
  span = span
  a = a
  b = b
  Missing = Missing
  Failed = Failed
  NoHost = NoHost
  NoOne = NoOne
  r1 = r1
  r2 = r2
  Names = {radb, ripe}
  Entries <- SmallEntries
  Readers = {r1, r2}
  Prefixes = {x4, x6, span}
  Ranges = {span}
  FamilyOf <- Families
  Defaults = {}
  Attributes = {a, b}
  Hosts <- TwoHosts
  Mirrors <- TwoMirrors
  NameOf <- NamesOfHosts
  SourcesByMirror <- SourcesOfMirrors
  Downloaders = {akamai, alibaba}
  Commands <- Scripts
  CommandLines <- SomeCommands
  MaxCommits = 1
SYMMETRY ReaderSymmetry
INVARIANTS ComparisonMeasuresShims AnswersAreTheHosts VerifyJudgesRight
CHECK_DEADLOCK FALSE
