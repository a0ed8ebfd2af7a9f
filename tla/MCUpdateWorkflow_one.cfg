SPECIFICATION Spec
CONSTANTS
  a4 = a4
  a6 = a6
  b4 = b4
  A = A
  B = B
  a0 = a0
  a1 = a1
  a1x = a1x
  a3 = a3
  a34 = a34
  m0 = m0
  m1 = m1
  m3 = m3
  m34 = m34
  Absent = Absent
  r1 = r1
  r2 = r2
  Services = {A}
  Lists = {a4, a6}
  Owns <- OneOwns
  FamilyOf <- OneFamilies
  Raws = {a0, a1, a1x, a3, a34}
  Mergeds = {m0, m1, m3, m34}
  MergeOf <- AllMerges
  Lines <- AllLines
  Runs = {r1}
  Fallible <- AnyStep
  Unnoticed = {"merge", "restore"}
  MaxEdits = 1
INVARIANTS MergedMatchesRaw GreenMeansPublished
PROPERTY FloorHoldsOnPush
CHECK_DEADLOCK FALSE
