CONSTANTS
  ValidateUTF8OnDecode = TRUE
  RecursionLimit = 100000
  Int64Vals <- MCInt64Vals
  Uint64Vals <- MCUint64Vals
  Texts <- MCTexts
  Blobs <- MCBlobs
  Counts <- MCCounts
  SimpleVals <- MCSimpleVals
  RawItems <- MCRawItems
  MaxLimits <- MCMaxLimits
  MaxTokens = 2

SPECIFICATION Spec
INVARIANTS TypeOK DiagAgreesWithValidate
PROPERTIES RoundTrip SkipAgreement StrictReadsCanonical DecodedIntsReencode
