CONSTANTS
  Loc <- MCLoc
  AllocatedAfter <- MCAllocatedAfter
  Modules <- AllModules
SPECIFICATION Spec
INVARIANTS TypeOK WritesDeclared UserAssertsKept ErrorsExact
CHECK_DEADLOCK FALSE
