CONSTANTS
  ValidateUTF8OnDecode = TRUE
  RecursionLimit = 100000
  Procs = {p1}
  Inputs <- MCTruncatedInputs
  NoInput = NoInput
  Bufs = {b1, b2, b3}
  NoBuf = NoBuf
  MaxCalls = 1
  MaxLevel = 3

SYMMETRY MCSymmetry
SPECIFICATION Spec
INVARIANTS ToJSONReturnsErrors
CHECK_DEADLOCK FALSE
