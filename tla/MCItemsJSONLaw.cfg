CONSTANTS
  ValidateUTF8OnDecode = TRUE
  RecursionLimit = 100000
  Texts <- MCNone
  Blobs <- MCNone
  UUIDs <- MCNone
  Exps <- MCNone
  Bigs <- MCNone
  RawInputs <- MCNone
  Values <- MCNone
  JSONTexts <- MCLawTexts

SPECIFICATION Spec
CHECK_DEADLOCK FALSE
INVARIANT JSONRoundTripLaw
