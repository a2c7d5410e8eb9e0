SPECIFICATION MCKuisSpec
CONSTANTS
  Turns = {"t1", "t2"}
  Tools <- MCKuisTools
  Names = {}
  Soal = {1, 2}
  Limit = 2
  DbFails = TRUE
  MaxCalls = 3
  MaxRestarts = 1
  None = None
INVARIANTS
  ScoreWithinPassed
  GradedOnce
\* Each chat request is sent once.
CHECK_DEADLOCK FALSE
