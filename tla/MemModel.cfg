SPECIFICATION Spec
CONSTANTS
  Type <- MCType
  Bits <- MCBits
  Why3Type <- MCWhy3Type
  TypeSets <- MCTypeSets
  PtrBits = 2
  Value <- MCValue
  Index <- MCIndex
  MaxObjects = 2
  MaxRegs = 4
INVARIANTS TypeOK KnownIsTrue BasesIdentifyObjects
CHECK_DEADLOCK FALSE
