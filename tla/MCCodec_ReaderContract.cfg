CONSTANTS
  ValidateUTF8OnDecode = TRUE
  RecursionLimit = 100000
  Int64Vals <- MCInt64Vals
  Uint64Vals <- MCUint64Vals
  Texts <- MCTexts
  Blobs <- MCBlobs
  Counts <- MCCounts
  SimpleVals <- MCSimpleValsWide
  RawItems <- MCRawItems
  MaxLimits <- MCMaxLimits
  MaxTokens = 2

SPECIFICATION Spec
PROPERTY ReaderContract
