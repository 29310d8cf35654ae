CONSTANTS
  Goals <- MCGoals
  Aborts <- MCAborts
  MaxLines = 3
SPECIFICATION OutputSpec
INVARIANTS VerdictsReachTheUser ValidIsWhy3s ErrorsReachTheUser
CHECK_DEADLOCK FALSE
