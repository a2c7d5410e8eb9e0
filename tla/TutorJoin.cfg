SPECIFICATION MCJoinSpec
CONSTANTS
  Turns = {"t1", "t2"}
  Tools <- MCJoinTools
  Names = {"Budi"}
  Soal = {}
  Limit = 1
  DbFails = TRUE
  MaxCalls = 2
  MaxRestarts = 1
  None = None
INVARIANTS
  OneTurnAtATime
  JoinedMeansEnrolled
  EnrolledOnce
  JoinIsTold
PROPERTIES
  TurnsEnd
\* Each chat request is sent once.
CHECK_DEADLOCK FALSE
