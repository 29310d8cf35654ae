CONSTANTS
  Type <- MCType
  Kind <- MCKind
  Parts <- MCParts
  PtrInt <- MCPtrInt
  PtrIntVec <- MCPtrIntVec
  BytePtr <- MCBytePtr
  Modules <- MCModules
  MaxDepth = 10
SPECIFICATION Spec
INVARIANTS FindsEveryType ImportsResolve NamesImported CrashesExactly
CHECK_DEADLOCK FALSE
