SPECIFICATION Spec
CONSTANTS
  W = 3
  MaxElements = 2
  Narrow = 2
  Wide = 5
INVARIANTS UnsignedChecksExact NoFalseAlarms DivisionByZeroCaught EquationsTrue
CHECK_DEADLOCK FALSE
