SPECIFICATION Spec
CONSTANTS
  Type <- MCType
  BoolType = "bool"
  IntType = "int"
  RealType = "real"
  Kind <- MCKind
  Of <- MCOf
  Width <- MCWidth
  Length <- MCLength
  Fields <- MCFields
  PtrBits = 64
  Ill = "ill"
  MaxNodes = 4
INVARIANTS TypeOK WellSorted NotOverstrict CastsPass
