SPECIFICATION Spec
CONSTANTS
  a4 = a4
  a6 = a6
  b4 = b4
  A = A
  B = B
  a0 = a0
  a1 = a1
  a1x = a1x
  a3 = a3
  a34 = a34
  m0 = m0
  m1 = m1
  m3 = m3
  m34 = m34
  Absent = Absent
  r1 = r1
  r2 = r2
  Services = {A, B}
  Lists = {a4, b4}
  Owns <- TwoOwns
  FamilyOf <- TwoFamilies
  Raws = {a0, a34}
  Mergeds = {m0, m34}
  MergeOf <- RaceMerges
  Lines <- RaceLines
  Runs = {r1, r2}
  Fallible = {}
  Unnoticed = {}
  MaxEdits = 0
SYMMETRY RunSymmetry
INVARIANT GoodDataAlreadyCommitted
CHECK_DEADLOCK FALSE
