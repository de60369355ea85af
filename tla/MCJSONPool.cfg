CONSTANTS
  ValidateUTF8OnDecode = TRUE
  RecursionLimit = 100000
  Procs = {p1, p2}
  Inputs <- MCInputs
  NoInput = NoInput
  Bufs = {b1, b2, b3, b4, b5, b6}
  NoBuf = NoBuf
  MaxCalls = 1
  MaxLevel = 3

SYMMETRY MCSymmetry
SPECIFICATION Spec
INVARIANTS TypeOK ExclusiveOwnership
PROPERTIES ImplementsJSONCalls
CHECK_DEADLOCK FALSE
