SPECIFICATION Spec
CONSTANTS
  WordBits = 2
  V4 = 1
  Inputs <- SomeInputs
INVARIANTS TypeOK ScannedExact DifferenceExact DifferenceMinimal StatusSound
PROPERTY Terminates
CHECK_DEADLOCK FALSE
