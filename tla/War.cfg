CONSTANTS
  Name <- MCName
  Files <- MCFiles
  Sentences <- MCSentences
SPECIFICATION Spec
INVARIANTS ReadsOwnText NamesSurvivePrinting
PROPERTIES AnnotationsEnd
CHECK_DEADLOCK FALSE
