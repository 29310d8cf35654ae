CONSTANTS
  Loc <- MCLoc
  AllocatedAfter <- MCAllocatedAfter
  Modules <- AllModules
SPECIFICATION EmissionSpec
INVARIANTS EmissionTypeOK WellScoped ZeroMeansNothingLost
CHECK_DEADLOCK FALSE
