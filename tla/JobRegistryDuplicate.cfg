SPECIFICATION Spec
CONSTANTS
  Jobs = {t1, p1}
  TutorJobs = {t1}
  Handlers = {h1, h2}
  Results = {r1}
  Empty = Empty
  Failure = Failure
  Nobody = Nobody
  MaxCalls = 3
INVARIANT DuplicateIgnored
CHECK_DEADLOCK FALSE
