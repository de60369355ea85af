CONSTANTS
  ValidateUTF8OnDecode = TRUE
  Args <- MCArgs

SPECIFICATION Spec
CHECK_DEADLOCK FALSE
INVARIANT TypeOK
INVARIANT ValuePreserved
INVARIANT FixedWidthRoundTrip
INVARIANT StrictAcceptsOnlyCanonical
