CONSTANTS
  ValidateUTF8OnDecode = TRUE
  RecursionLimit = 100000
  Trees <- MCTrees
  Exported <- MCExported
  Structs = {}
  KeyCode <- MCKeyCode

SPECIFICATION Spec
CHECK_DEADLOCK FALSE
INVARIANT GenTypeOK
INVARIANT MarshalWellFormed
INVARIANT SafeTrustedAgree
INVARIANT DecodeConsumesOneItem
INVARIANT SafeDecodeIgnoresTarget
