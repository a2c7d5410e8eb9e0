SPECIFICATION FairSpec
CONSTANTS
  Jobs = {t1, p1}
  TutorJobs = {t1}
  Handlers = {h1, h2}
  Results = {r1}
  Empty = Empty
  Failure = Failure
  Nobody = Nobody
  MaxCalls = 3

INVARIANTS
  TypeOK
  WaiterKeepsItsJob
  AnswerIsTheVerdict
PROPERTIES
  ResolvedOnce
  NobodyAliveIsRefused
  ReplyMeansResolved
  KeepsPromise
  RequestsEnd
\* With a bounded number of requests the server ends idle.
CHECK_DEADLOCK FALSE
