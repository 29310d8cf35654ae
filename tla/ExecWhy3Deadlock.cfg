CONSTANTS
  Cap <- MCCap
  Chunk <- MCChunk
  Abort <- MCAbort
  Inputs <- Small
  Answers <- LongAnswers
SPECIFICATION Spec
PROPERTIES AnswerArrives
CHECK_DEADLOCK FALSE
