SPECIFICATION Spec
CONSTANTS
  Addresses = {rumah, sekolah}
  Burst = 2
  Every = 2
  Period = 3
  MaxTime = 4
  MaxCalls = 5
  None = None
INVARIANTS
  WithinTheLimit
  RefusedOnlyIfSpent
\* Requests and ticks are bounded.
CHECK_DEADLOCK FALSE
