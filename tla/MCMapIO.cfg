CONSTANTS
  ValidateUTF8OnDecode = TRUE
  RecursionLimit = 100000
  KeyTexts <- MCKeyTexts
  OtherKeys <- MCOtherKeys
  ValueTexts <- MCValueTexts
  MaxPairs = 3
  RadixMinLen = 2
  RadixMinGroup = 3

SPECIFICATION Spec
CHECK_DEADLOCK FALSE
INVARIANT TypeOK
INVARIANT RadixSuffixSorted
INVARIANT OutputCanonical
INVARIANT StrStrAgreesWithRaw
INVARIANT NoDupIffDistinct
INVARIANT OrderedReadsBack
INVARIANT ReadersAgree
INVARIANT SplitReassembles
