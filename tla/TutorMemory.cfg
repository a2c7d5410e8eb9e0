SPECIFICATION Spec
CONSTANTS
  Turns = {"t1", "t2"}
  Tools <- MCJoinTools
  Names = {"Budi"}
  Soal = {}
  Limit = 1
  DbFails = FALSE
  MaxCalls = 2
  MaxRestarts = 0
  None = None
PROPERTY MemoryGoesOn
CHECK_DEADLOCK FALSE
