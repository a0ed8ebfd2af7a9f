SPECIFICATION Spec
CONSTANTS
  x4 = x4
  x6 = x6
  zero = zero
  m1 = m1
  NoKey = NoKey
  Sources <- SomeSources
  Nets = {x4, x6, zero}
  FamilyOf <- Families
  Defaults = {zero}
  Numbers = {1, 2}
  Maintainers = {m1}
  MaxLines = 5
INVARIANTS AnswersAreTheFiles RefusedForCause
CHECK_DEADLOCK FALSE
