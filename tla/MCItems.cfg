CONSTANTS
  ValidateUTF8OnDecode = TRUE
  RecursionLimit = 100000
  Texts <- MCTexts
  Blobs <- MCBlobs
  UUIDs <- MCUUIDs
  Exps <- MCExps
  Bigs <- MCBigs
  RawInputs <- MCRawInputs
  Values <- MCValues
  JSONTexts <- MCJSONTexts

SPECIFICATION Spec
CHECK_DEADLOCK FALSE
INVARIANT TypeOK
INVARIANT TaggedRoundTrip
INVARIANT TagDiscriminates
INVARIANT ReadersConsumeOneItem
INVARIANT EncodesValue
INVARIANT HelpersAgreeWithInterface
INVARIANT DeterministicMapEncoding
INVARIANT IntegersRoundTrip
INVARIANT JSONFixedPoint
INVARIANT FromJSONErrorsLeaveNoItem
