CONSTANTS
  ValidateUTF8OnDecode = TRUE
  IntVals <- MCIntVals
  UintVals <- MCUintVals
  F32Vals <- MCF32Vals
  F64Vals <- MCF64Vals
  RawInputs <- MCRawInputs

SPECIFICATION Spec
INVARIANT TypeOK
INVARIANT CoerceOnlyIntegers
INVARIANT MarshalRoundTrip
