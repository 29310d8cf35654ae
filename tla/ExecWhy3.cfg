CONSTANTS
  Cap <- MCCap
  Chunk <- MCChunk
  Abort <- MCAbort
  Inputs <- MCInputs
  Answers <- AnswersThatFit
SPECIFICATION Spec
INVARIANTS TypeOK OutputComplete InputComplete
PROPERTIES ComesToAnEnd
CHECK_DEADLOCK FALSE
