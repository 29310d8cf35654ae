CONSTANTS
  Mem <- MCMem
  Loc <- MCLoc
  N <- MCN
  Programs <- LoopFree
SPECIFICATION Spec
INVARIANTS TypeOK ProvedMeansSafe Precise
CHECK_DEADLOCK FALSE
