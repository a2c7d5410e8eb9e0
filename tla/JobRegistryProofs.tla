------------------------- MODULE JobRegistryProofs -------------------------
(***************************************************************************)
(* Machine-checked proofs about JobRegistry, for any number of jobs,       *)
(* callback goroutines, results and deliveries: the invariants that        *)
(* JobRegistry.cfg checks on two jobs, and that the registry implements    *)
(* JobPromise.                                                             *)
(***************************************************************************)

EXTENDS JobRegistry, TLAPS

-----------------------------------------------------------------------------
(* The inductive invariant.                                                *)

Writing(h) == pc[h] \in {"store", "release"}

(* What the goroutine inside Complete or Fail knows: it alone holds the    *)
(* lock, its job is open, and exactly its stores so far are visible.       *)
WriterOK ==
  \A h \in Handlers :
    /\ Writing(h) <=> mu = h
    /\ pc[h] # "idle" => msg[h] \in Jobs \X Verdicts
    /\ Writing(h) => Job(h) \in known /\ ~processed[Job(h)]
    /\ pc[h] = "store" =>
         /\ status[Job(h)] = IF Verdict(h) = Failure THEN "torn" ELSE "success"
         /\ hasil[Job(h)] = "none"
    /\ pc[h] = "release" =>
         /\ status[Job(h)] = IF Verdict(h) = Failure THEN "failed" ELSE "success"
         /\ hasil[Job(h)] = IF Verdict(h) = Failure THEN "none" ELSE "torn"
    /\ pc[h] = "emit" => processed[Job(h)]

(* The fields of a job nobody is writing: all of a verdict or none of it.  *)
FieldsOK ==
  \A j \in Jobs :
    /\ (req[j] = "new" \/ j \in known) /\ ~processed[j]
         /\ (\A h \in Handlers : Writing(h) => Job(h) # j)
         => status[j] = "pending" /\ hasil[j] = "none"
    /\ processed[j] => \/ status[j] = "success" /\ hasil[j] \in Results \cup {Empty}
                       \/ status[j] = "failed"  /\ hasil[j] = "none"
    /\ hasil[j] \in Results \cup {Empty} => processed[j]

(* How a request's progress and its job go together.                       *)
RequestOK ==
  \A j \in Jobs :
    /\ req[j] = "new" => j \notin known /\ j \notin asked /\ ~processed[j]
    /\ req[j] \in Waiting \cup {"registered"} => j \in known
    /\ j \in known /\ j \in stale /\ processed[j] => req[j] \in Ended
    /\ req[j] = "returned" => status[j] # "pending"
    /\ req[j] = "result" => status[j] = "success" /\ answer[j] \in Results /\ hasil[j] = answer[j]
    /\ req[j] = "failed" /\ j \in known => status[j] = "failed"

IInv == TypeOK /\ WriterOK /\ FieldsOK /\ RequestOK

LEMMA InitIInv == Init => IInv
<1> SUFFICES ASSUME Init PROVE IInv
  OBVIOUS
<1>1. TypeOK
  BY RegistryAssumption DEF Init, TypeOK, Ended, Waiting
<1>2. WriterOK /\ FieldsOK /\ RequestOK
  BY RegistryAssumption DEF Init, WriterOK, FieldsOK, RequestOK, Writing, Waiting, Verdicts
<1> QED
  BY <1>1, <1>2 DEF IInv

-----------------------------------------------------------------------------
(* A step of a request moves its own req, answer and asked, and opens its  *)
(* job; no field of a job changes.                                         *)

LEMMA RequestStepIInv ==
  ASSUME IInv, NEW j \in Jobs, RequestStep(j)
  PROVE  IInv'
<1>1. CASE Register(j)
  <2>1. TypeOK'
    BY <1>1 DEF IInv, TypeOK, Register, Step, jobVars, callVars, reqVars, Ended, Waiting
  <2>2. WriterOK'
    BY <1>1 DEF IInv, TypeOK, WriterOK, Writing, Job, Verdict, Register, Step, jobVars, callVars
  <2>3. FieldsOK'
    BY <1>1 DEF IInv, TypeOK, FieldsOK, Writing, Job, Register, Step, jobVars, callVars
  <2>4. RequestOK'
    BY <1>1, RegistryAssumption DEF IInv, TypeOK, WriterOK, FieldsOK, RequestOK, Register, Step, jobVars, callVars, Ended, Waiting
  <2> QED
    BY <2>1, <2>2, <2>3, <2>4 DEF IInv
<1>2. CASE Submit(j)
  <2>1. TypeOK'
    BY <1>2 DEF IInv, TypeOK, Submit, Step, jobVars, callVars, reqVars, Ended, Waiting
  <2>2. WriterOK'
    BY <1>2 DEF IInv, TypeOK, WriterOK, Writing, Job, Verdict, Submit, Step, jobVars, callVars
  <2>3. FieldsOK'
    BY <1>2 DEF IInv, TypeOK, FieldsOK, Writing, Job, Submit, Step, jobVars, callVars
  <2>4. RequestOK'
    BY <1>2, RegistryAssumption DEF IInv, TypeOK, WriterOK, FieldsOK, RequestOK, Submit, Step, jobVars, callVars, Ended, Waiting
  <2> QED
    BY <2>1, <2>2, <2>3, <2>4 DEF IInv
<1>3. CASE Ack(j)
  <2>1. TypeOK'
    BY <1>3 DEF IInv, TypeOK, Ack, Step, jobVars, callVars, reqVars, Ended, Waiting
  <2>2. WriterOK'
    BY <1>3 DEF IInv, TypeOK, WriterOK, Writing, Job, Verdict, Ack, Step, jobVars, callVars
  <2>3. FieldsOK'
    BY <1>3 DEF IInv, TypeOK, FieldsOK, Writing, Job, Ack, Step, jobVars, callVars
  <2>4. RequestOK'
    BY <1>3, RegistryAssumption DEF IInv, TypeOK, WriterOK, FieldsOK, RequestOK, Ack, Step, jobVars, callVars, Ended, Waiting
  <2> QED
    BY <2>1, <2>2, <2>3, <2>4 DEF IInv
<1>4. CASE SubmitError(j)
  <2>1. TypeOK'
    BY <1>4 DEF IInv, TypeOK, SubmitError, Step, jobVars, callVars, reqVars, Ended, Waiting
  <2>2. WriterOK'
    BY <1>4 DEF IInv, TypeOK, WriterOK, Writing, Job, Verdict, SubmitError, Step, jobVars, callVars
  <2>3. FieldsOK'
    BY <1>4 DEF IInv, TypeOK, FieldsOK, Writing, Job, SubmitError, Step, jobVars, callVars
  <2>4. RequestOK'
    BY <1>4, RegistryAssumption DEF IInv, TypeOK, WriterOK, FieldsOK, RequestOK, SubmitError, Step, jobVars, callVars, Ended, Waiting
  <2> QED
    BY <2>1, <2>2, <2>3, <2>4 DEF IInv
<1>5. CASE Direct(j)
  <2>1. TypeOK'
    BY <1>5 DEF IInv, TypeOK, Direct, Step, jobVars, callVars, reqVars, Ended, Waiting
  <2>2. WriterOK'
    BY <1>5 DEF IInv, TypeOK, WriterOK, Writing, Job, Verdict, Direct, Step, jobVars, callVars
  <2>3. FieldsOK'
    BY <1>5 DEF IInv, TypeOK, FieldsOK, Writing, Job, Direct, Step, jobVars, callVars
  <2>4. RequestOK'
    BY <1>5, RegistryAssumption DEF IInv, TypeOK, WriterOK, FieldsOK, RequestOK, Direct, Step, jobVars, callVars, Ended, Waiting
  <2> QED
    BY <2>1, <2>2, <2>3, <2>4 DEF IInv
<1>6. CASE Poll(j)
  <2>1. TypeOK'
    BY <1>6 DEF IInv, TypeOK, Poll, Step, jobVars, callVars, reqVars, Ended, Waiting
  <2>2. WriterOK'
    BY <1>6 DEF IInv, TypeOK, WriterOK, Writing, Job, Verdict, Poll, Step, jobVars, callVars
  <2>3. FieldsOK'
    BY <1>6 DEF IInv, TypeOK, FieldsOK, Writing, Job, Poll, Step, jobVars, callVars
  <2>4. RequestOK'
    BY <1>6, RegistryAssumption DEF IInv, TypeOK, WriterOK, FieldsOK, RequestOK, Poll, Step, jobVars, callVars, Ended, Waiting
  <2> QED
    BY <2>1, <2>2, <2>3, <2>4 DEF IInv
<1>7. CASE CheckStatus(j)
  <2>1. TypeOK'
    BY <1>7 DEF IInv, TypeOK, CheckStatus, Step, jobVars, callVars, reqVars, Ended, Waiting
  <2>2. WriterOK'
    BY <1>7 DEF IInv, TypeOK, WriterOK, Writing, Job, Verdict, CheckStatus, Step, jobVars, callVars
  <2>3. FieldsOK'
    BY <1>7 DEF IInv, TypeOK, FieldsOK, Writing, Job, CheckStatus, Step, jobVars, callVars
  <2>4. RequestOK'
    BY <1>7, RegistryAssumption DEF IInv, TypeOK, WriterOK, FieldsOK, RequestOK, CheckStatus, Step, jobVars, callVars, Ended, Waiting
  <2> QED
    BY <2>1, <2>2, <2>3, <2>4 DEF IInv
<1>8. CASE Timeout(j)
  <2>1. TypeOK'
    BY <1>8 DEF IInv, TypeOK, Timeout, Step, jobVars, callVars, reqVars, Ended, Waiting
  <2>2. WriterOK'
    BY <1>8 DEF IInv, TypeOK, WriterOK, Writing, Job, Verdict, Timeout, Step, jobVars, callVars
  <2>3. FieldsOK'
    BY <1>8 DEF IInv, TypeOK, FieldsOK, Writing, Job, Timeout, Step, jobVars, callVars
  <2>4. RequestOK'
    BY <1>8, RegistryAssumption DEF IInv, TypeOK, WriterOK, FieldsOK, RequestOK, Timeout, Step, jobVars, callVars, Ended, Waiting
  <2> QED
    BY <2>1, <2>2, <2>3, <2>4 DEF IInv
<1>9. CASE UseJob(j)
  <2>1. TypeOK'
    BY <1>9 DEF IInv, TypeOK, UseJob, Step, jobVars, callVars, reqVars, Ended, Waiting
  <2>2. WriterOK'
    BY <1>9 DEF IInv, TypeOK, WriterOK, Writing, Job, Verdict, UseJob, Step, jobVars, callVars
  <2>3. FieldsOK'
    BY <1>9 DEF IInv, TypeOK, FieldsOK, Writing, Job, UseJob, Step, jobVars, callVars
  <2>4. RequestOK'
    BY <1>9, RegistryAssumption DEF IInv, TypeOK, WriterOK, FieldsOK, RequestOK, UseJob, Step, jobVars, callVars, Ended, Waiting
  <2> QED
    BY <2>1, <2>2, <2>3, <2>4 DEF IInv
<1> QED
  BY <1>1, <1>2, <1>3, <1>4, <1>5, <1>6, <1>7, <1>8, <1>9 DEF RequestStep

-----------------------------------------------------------------------------
(* A step of a callback goroutine.  Writers exclude each other: the one    *)
(* that stores found the lock free, so every open job was untouched.       *)

LEMMA NobodyWrites ==
  ASSUME IInv, mu = Nobody
  PROVE  /\ \A h \in Handlers : ~Writing(h)
         /\ \A j \in known : ~processed[j] => status[j] = "pending" /\ hasil[j] = "none"
<1>1. \A h \in Handlers : ~Writing(h)
  BY RegistryAssumption DEF IInv, WriterOK
<1> QED
  BY <1>1 DEF IInv, TypeOK, FieldsOK

LEMMA CallbackStepIInv ==
  ASSUME IInv, NEW h \in Handlers, CallbackStep(h)
  PROVE  IInv'
<1> USE RegistryAssumption
<1>1. ASSUME NEW j \in Jobs, NEW v \in Verdicts, Refuse(h, j, v) PROVE IInv'
  <2>1. TypeOK'
    BY <1>1 DEF IInv, TypeOK, WriterOK, Refuse, Receive, Job, Verdict, Verdicts, jobVars, callVars, reqVars
  <2>2. WriterOK'
    BY <1>1 DEF IInv, TypeOK, WriterOK, Writing, Job, Verdict, Refuse, Receive, jobVars, callVars
  <2>3. FieldsOK'
    BY <1>1 DEF IInv, TypeOK, WriterOK, FieldsOK, Writing, Job, Verdict, Verdicts, Refuse, Receive, jobVars, callVars, reqVars
  <2>4. RequestOK'
    BY <1>1 DEF IInv, TypeOK, WriterOK, FieldsOK, RequestOK, Writing, Job, Verdict, Verdicts, Refuse, Receive, jobVars, callVars, reqVars, Ended, Waiting
  <2> QED
    BY <2>1, <2>2, <2>3, <2>4 DEF IInv
<1>2. ASSUME NEW j \in Jobs, NEW v \in Verdicts, Duplicate(h, j, v) PROVE IInv'
  <2>1. TypeOK'
    BY <1>2 DEF IInv, TypeOK, WriterOK, Duplicate, Receive, Proceed, Job, Verdict, Verdicts, jobVars, callVars, reqVars
  <2>2. WriterOK'
    BY <1>2 DEF IInv, TypeOK, WriterOK, Writing, Job, Verdict, Duplicate, Receive, Proceed, jobVars, callVars
  <2>3. FieldsOK'
    BY <1>2 DEF IInv, TypeOK, WriterOK, FieldsOK, Writing, Job, Verdict, Verdicts, Duplicate, Receive, Proceed, jobVars, callVars, reqVars
  <2>4. RequestOK'
    BY <1>2 DEF IInv, TypeOK, WriterOK, FieldsOK, RequestOK, Writing, Job, Verdict, Verdicts, Duplicate, Receive, Proceed, jobVars, callVars, reqVars, Ended, Waiting
  <2> QED
    BY <2>1, <2>2, <2>3, <2>4 DEF IInv
<1>3. ASSUME NEW j \in Jobs, NEW v \in Verdicts, Accept(h, j, v) PROVE IInv'
  <2>1. TypeOK'
    BY <1>3, NobodyWrites DEF IInv, TypeOK, WriterOK, Accept, Receive, Job, Verdict, Verdicts, jobVars, callVars, reqVars
  <2>2. WriterOK'
    BY <1>3, NobodyWrites DEF IInv, TypeOK, WriterOK, Writing, Job, Verdict, Accept, Receive, jobVars, callVars
  <2>3. FieldsOK'
    BY <1>3, NobodyWrites DEF IInv, TypeOK, WriterOK, FieldsOK, Writing, Job, Verdict, Verdicts, Accept, Receive, jobVars, callVars, reqVars
  <2>4. RequestOK'
    BY <1>3, NobodyWrites DEF IInv, TypeOK, WriterOK, FieldsOK, RequestOK, Writing, Job, Verdict, Verdicts, Accept, Receive, jobVars, callVars, reqVars, Ended, Waiting
  <2> QED
    BY <2>1, <2>2, <2>3, <2>4 DEF IInv
<1>4. CASE Store(h)
  <2>1. TypeOK'
    <3>1. CASE Verdict(h) = Failure
      BY <1>4, <3>1 DEF IInv, TypeOK, Store, jobVars, reqVars
    <3>2. CASE Verdict(h) # Failure
      BY <1>4, <3>2 DEF IInv, TypeOK, Store, jobVars, reqVars
    <3> QED
      BY <3>1, <3>2
  <2>2. WriterOK'
    BY <1>4 DEF IInv, TypeOK, WriterOK, Writing, Job, Verdict, Store, jobVars, callVars
  <2>3. FieldsOK'
    BY <1>4 DEF IInv, TypeOK, WriterOK, FieldsOK, Writing, Job, Verdict, Verdicts, Store, jobVars, callVars, reqVars
  <2>4. RequestOK'
    BY <1>4 DEF IInv, TypeOK, WriterOK, FieldsOK, RequestOK, Writing, Job, Verdict, Verdicts, Store, jobVars, callVars, reqVars, Ended, Waiting
  <2> QED
    BY <2>1, <2>2, <2>3, <2>4 DEF IInv
<1>5. CASE Release(h)
  <2>1. TypeOK'
    BY <1>5 DEF IInv, TypeOK, WriterOK, Release, Proceed, Job, Verdict, Verdicts, jobVars, callVars, reqVars
  <2>2. WriterOK'
    BY <1>5 DEF IInv, TypeOK, WriterOK, Writing, Job, Verdict, Release, Proceed, jobVars, callVars
  <2>3. FieldsOK'
    BY <1>5 DEF IInv, TypeOK, WriterOK, FieldsOK, Writing, Job, Verdict, Verdicts, Release, Proceed, jobVars, callVars, reqVars
  <2>4. RequestOK'
    BY <1>5 DEF IInv, TypeOK, WriterOK, FieldsOK, RequestOK, Writing, Job, Verdict, Verdicts, Release, Proceed, jobVars, callVars, reqVars, Ended, Waiting
  <2> QED
    BY <2>1, <2>2, <2>3, <2>4 DEF IInv
<1>6. CASE Emit(h)
  <2>1. TypeOK'
    BY <1>6 DEF IInv, TypeOK, WriterOK, Emit, Job, Verdict, Verdicts, jobVars, callVars, reqVars
  <2>2. WriterOK'
    BY <1>6 DEF IInv, TypeOK, WriterOK, Writing, Job, Verdict, Emit, jobVars, callVars
  <2>3. FieldsOK'
    BY <1>6 DEF IInv, TypeOK, WriterOK, FieldsOK, Writing, Job, Verdict, Verdicts, Emit, jobVars, callVars, reqVars
  <2>4. RequestOK'
    BY <1>6 DEF IInv, TypeOK, WriterOK, FieldsOK, RequestOK, Writing, Job, Verdict, Verdicts, Emit, jobVars, callVars, reqVars, Ended, Waiting
  <2> QED
    BY <2>1, <2>2, <2>3, <2>4 DEF IInv
<1> QED
  BY <1>1, <1>2, <1>3, <1>4, <1>5, <1>6 DEF CallbackStep

-----------------------------------------------------------------------------
(* Time, clean-up and restart.                                             *)

LEMMA EnvironmentStepIInv ==
  ASSUME IInv, (\E j \in Jobs : Age(j)) \/ Cleanup \/ Restart
  PROVE  IInv'
<1> USE RegistryAssumption
<1>1. ASSUME NEW j \in Jobs, Age(j) PROVE IInv'
  <2>1. TypeOK'
    BY <1>1 DEF IInv, TypeOK, WriterOK, Age, Job, Verdict, Verdicts, jobVars, callVars, reqVars
  <2>2. WriterOK'
    BY <1>1 DEF IInv, TypeOK, WriterOK, Writing, Job, Verdict, Age, jobVars, callVars
  <2>3. FieldsOK'
    BY <1>1 DEF IInv, TypeOK, WriterOK, FieldsOK, Writing, Job, Verdict, Verdicts, Age, jobVars, callVars, reqVars
  <2>4. RequestOK'
    BY <1>1 DEF IInv, TypeOK, WriterOK, FieldsOK, RequestOK, Writing, Job, Verdict, Verdicts, Age, jobVars, callVars, reqVars, Ended, Waiting
  <2> QED
    BY <2>1, <2>2, <2>3, <2>4 DEF IInv
<1>2. CASE Cleanup
  <2>1. TypeOK'
    BY <1>2 DEF IInv, TypeOK, WriterOK, Cleanup, Removable, Job, Verdict, Verdicts, jobVars, callVars, reqVars
  <2>2. WriterOK'
    BY <1>2 DEF IInv, TypeOK, WriterOK, Writing, Job, Verdict, Cleanup, Removable, jobVars, callVars
  <2>3. FieldsOK'
    BY <1>2 DEF IInv, TypeOK, WriterOK, FieldsOK, Writing, Job, Verdict, Verdicts, Cleanup, Removable, jobVars, callVars, reqVars
  <2>4. RequestOK'
    BY <1>2 DEF IInv, TypeOK, WriterOK, FieldsOK, RequestOK, Writing, Job, Verdict, Verdicts, Cleanup, Removable, jobVars, callVars, reqVars, Ended, Waiting
  <2> QED
    BY <2>1, <2>2, <2>3, <2>4 DEF IInv
<1>3. CASE Restart
  <2>1. TypeOK'
    BY <1>3 DEF IInv, TypeOK, WriterOK, Restart, Job, Verdict, Verdicts, jobVars, callVars, reqVars, Ended
  <2>2. WriterOK'
    BY <1>3 DEF IInv, TypeOK, WriterOK, Writing, Job, Verdict, Restart, jobVars, callVars
  <2>3. FieldsOK'
    BY <1>3 DEF IInv, TypeOK, WriterOK, FieldsOK, RequestOK, Writing, Verdicts, Restart, Ended
  <2>4. RequestOK'
    BY <1>3 DEF IInv, TypeOK, WriterOK, FieldsOK, RequestOK, Writing, Job, Verdict, Verdicts, Restart, jobVars, callVars, reqVars, Ended, Waiting
  <2> QED
    BY <2>1, <2>2, <2>3, <2>4 DEF IInv
<1> QED
  BY <1>1, <1>2, <1>3

THEOREM Invariance == Spec => []IInv
<1>1. IInv /\ [Next]_vars => IInv'
  <2> SUFFICES ASSUME IInv, [Next]_vars PROVE IInv'
    OBVIOUS
  <2>1. CASE Next
    BY <2>1, RequestStepIInv, CallbackStepIInv, EnvironmentStepIInv DEF Next
  <2>2. CASE UNCHANGED vars
    BY <2>2 DEF vars, jobVars, callVars, reqVars, IInv, TypeOK, WriterOK, FieldsOK, RequestOK, Writing, Job, Verdict
  <2> QED
    BY <2>1, <2>2
<1> QED
  BY InitIInv, <1>1, PTL DEF Spec

-----------------------------------------------------------------------------
(* The properties of JobRegistry.cfg.                                      *)

(* Every variable keeps its type.                                          *)
THEOREM TypeCorrect == Spec => []TypeOK
BY Invariance, PTL DEF IInv

(* No clean-up and no callback takes a job from under a waiting request.   *)
THEOREM WaiterSafe == Spec => []WaiterKeepsItsJob
<1>1. IInv => WaiterKeepsItsJob
  BY DEF IInv, RequestOK, WaiterKeepsItsJob
<1> QED
  BY <1>1, Invariance, PTL

(* An answer read without the lock is the verdict of the callback that     *)
(* won, and stays it.                                                      *)
THEOREM AnswerSafe == Spec => []AnswerIsTheVerdict
<1>1. IInv => AnswerIsTheVerdict
  BY DEF IInv, TypeOK, RequestOK, AnswerIsTheVerdict
<1> QED
  BY <1>1, Invariance, PTL

(* Complete and Fail never touch a job that one of them has finished.      *)
THEOREM ResolvesOnce == Spec => ResolvedOnce
<1> DEFINE A == \A j \in known \cap known' : processed[j] =>
                  /\ processed'[j]
                  /\ status'[j] = status[j]
                  /\ hasil'[j] = hasil[j]
<1>1. IInv /\ [Next]_vars => [A]_vars
  <2> SUFFICES ASSUME IInv, Next PROVE A
    BY DEF vars
  <2>1. CASE \E j \in Jobs : RequestStep(j)
    BY <2>1 DEF RequestStep, Register, Submit, Ack, SubmitError, Direct, Poll, CheckStatus, Timeout,
                UseJob, jobVars
  <2>2. ASSUME NEW h \in Handlers, CallbackStep(h) PROVE A
    <3>1. ASSUME NEW j \in Jobs, NEW v \in Verdicts, Refuse(h, j, v) \/ Duplicate(h, j, v) PROVE A
      BY <3>1 DEF Refuse, Duplicate, jobVars
    <3>2. ASSUME NEW j \in Jobs, NEW v \in Verdicts, Accept(h, j, v) PROVE A
      BY <3>2 DEF Accept, IInv, TypeOK
    <3>3. CASE Store(h)
      BY <3>3 DEF Store, IInv, TypeOK, WriterOK, Writing
    <3>4. CASE Release(h)
      BY <3>4 DEF Release, IInv, TypeOK, WriterOK, Writing
    <3>5. CASE Emit(h)
      BY <3>5 DEF Emit, jobVars
    <3> QED
      BY <2>2, <3>1, <3>2, <3>3, <3>4, <3>5 DEF CallbackStep
  <2>3. CASE (\E j \in Jobs : Age(j)) \/ Cleanup \/ Restart
    BY <2>3 DEF Age, Cleanup, Restart, jobVars
  <2> QED
    BY <2>1, <2>2, <2>3 DEF Next
<1> QED
  BY <1>1, Invariance, PTL DEF Spec, ResolvedOnce

(* No live request has its callback answered 404.                          *)
THEOREM AliveNotRefused == Spec => NobodyAliveIsRefused
<1> DEFINE A == \A j \in refused' \ refused : req[j] \in Ended
<1>1. IInv /\ [Next]_vars => [A]_vars
  <2> SUFFICES ASSUME IInv, Next PROVE A
    BY DEF vars
  <2>1. ASSUME NEW h \in Handlers, NEW j \in Jobs, NEW v \in Verdicts, Refuse(h, j, v) PROVE A
    BY <2>1 DEF Refuse, Receive, IInv, TypeOK, RequestOK
  <2>2. CASE UNCHANGED refused
    BY <2>2
  <2> QED
    BY <2>1, <2>2 DEF Next, RequestStep, Register, Submit, Ack, SubmitError, Direct, Poll, CheckStatus,
       Timeout, UseJob, CallbackStep, Duplicate, Accept, Store, Release, Emit, Age, Cleanup, Restart,
       callVars
<1> QED
  BY <1>1, Invariance, PTL DEF Spec, NobodyAliveIsRefused

(* No tutor-reply leaves for a job that no callback has resolved.          *)
THEOREM RepliesResolved == Spec => ReplyMeansResolved
<1> DEFINE A == \A j \in Jobs : replies'[j] # replies[j] => processed[j]
<1>1. IInv /\ [Next]_vars => [A]_vars
  <2> SUFFICES ASSUME IInv, Next PROVE A
    BY DEF vars
  <2>1. ASSUME NEW h \in Handlers, Emit(h) PROVE A
    BY <2>1 DEF Emit, IInv, TypeOK, WriterOK
  <2>2. CASE UNCHANGED replies
    BY <2>2
  <2> QED
    BY <2>1, <2>2 DEF Next, RequestStep, Register, Submit, Ack, SubmitError, Direct, Poll, CheckStatus,
       Timeout, UseJob, CallbackStep, Refuse, Duplicate, Accept, Store, Release, Age, Cleanup, Restart,
       callVars
<1> QED
  BY <1>1, Invariance, PTL DEF Spec, ReplyMeansResolved

-----------------------------------------------------------------------------
(* The registry implements JobPromise.  A request's step is Open, Tell,    *)
(* GiveUp or a stutter; a callback resolves its job when it is accepted,   *)
(* and its stores are stutters; clean-up forgets and a restart crashes.    *)

LEMMA PromiseInit == Init => Promise!Init
BY DEF Init, Promise!Init, Outcome, Told, Ended

LEMMA PromiseRequest ==
  ASSUME IInv, NEW j \in Jobs, RequestStep(j)
  PROVE  [Promise!Next]_(Promise!promiseVars)
<1> USE RegistryAssumption DEF IInv
<1>1. mu # Nobody => mu \in Handlers /\ Writing(mu) /\ Job(mu) \in known /\ Verdict(mu) \in Verdicts
  BY DEF TypeOK, WriterOK, Writing, Job, Verdict
<1>2. CASE Register(j)
  <2>1. Outcome(j) = "none" /\ Outcome(j)' = "pending"
    BY <1>1, <1>2 DEF Register, Step, callVars, TypeOK, RequestOK, Outcome, Job
  <2>2. \A i \in Jobs : i # j => Outcome(i)' = Outcome(i)
    BY <1>2 DEF Register, Step, callVars, TypeOK, Outcome, Job, Verdict
  <2>3. \A i \in Jobs : Told(i)' = Told(i)
    BY <1>2 DEF Register, Step, TypeOK, Told, Ended
  <2>4. Promise!Open(j)
    BY <2>1, <2>2, <2>3 DEF Promise!Open
  <2> QED
    BY <2>4 DEF Promise!Next
<1>3. CASE Submit(j) \/ Ack(j) \/ Poll(j) \/ CheckStatus(j)
  <2>1. UNCHANGED Promise!promiseVars
    BY <1>3 DEF Submit, Ack, Poll, CheckStatus, Step, jobVars, callVars, TypeOK,
       Promise!promiseVars, Outcome, Told, Job, Verdict, Ended
  <2> QED
    BY <2>1
<1>4. CASE SubmitError(j) \/ Direct(j) \/ Timeout(j)
  <2>1. \A i \in Jobs : Outcome(i)' = Outcome(i)
    BY <1>4 DEF SubmitError, Direct, Timeout, Step, jobVars, callVars, TypeOK, Outcome, Job, Verdict
  <2>2. Outcome(j) # "none"
    BY <1>1, <1>4 DEF SubmitError, Direct, Timeout, Step, TypeOK, FieldsOK, Outcome, Verdicts
  <2>3. Told(j) = "nothing" /\ Told(j)' = "gaveup"
    BY <1>4 DEF SubmitError, Direct, Timeout, Step, TypeOK, Told, Ended
  <2>4. \A i \in Jobs : i # j => Told(i)' = Told(i)
    BY <1>4 DEF SubmitError, Direct, Timeout, Step, TypeOK, Told
  <2>5. Promise!GiveUp(j)
    BY <2>1, <2>2, <2>3, <2>4 DEF Promise!GiveUp
  <2> QED
    BY <2>5 DEF Promise!Next
<1>5. CASE UseJob(j)
  <2>1. \A i \in Jobs : Outcome(i)' = Outcome(i)
    BY <1>5 DEF UseJob, Step, jobVars, callVars, TypeOK, Outcome, Job, Verdict
  <2>2. Told(j) = "nothing" /\ \A i \in Jobs : i # j => Told(i)' = Told(i)
    BY <1>5 DEF UseJob, Step, TypeOK, Told, Ended
  <2>3. j \in known
    BY <1>5 DEF UseJob, Step, RequestOK, Waiting
  <2>4. CASE status[j] = "failed"
    <3>1. Outcome(j) = Failure
      BY <1>1, <2>3, <2>4 DEF TypeOK, WriterOK, FieldsOK, Writing, Outcome, Job, Verdict
    <3>2. Told(j)' = Failure
      BY <1>5, <2>4 DEF UseJob, Step, TypeOK, Told
    <3>3. Promise!Tell(j)
      BY <2>1, <2>2, <3>1, <3>2 DEF Promise!Tell, Verdicts
    <3> QED
      BY <3>3 DEF Promise!Next
  <2>5. CASE status[j] # "failed" /\ hasil[j] \in Results
    <3>1. Outcome(j) = hasil[j]
      BY <1>1, <2>3, <2>5 DEF TypeOK, WriterOK, FieldsOK, Writing, Outcome, Job
    <3>2. Told(j)' = hasil[j]
      BY <1>5, <2>5 DEF UseJob, Step, TypeOK, Told
    <3>3. Promise!Tell(j)
      BY <2>1, <2>2, <2>5, <3>1, <3>2 DEF Promise!Tell, Verdicts
    <3> QED
      BY <3>3 DEF Promise!Next
  <2>6. CASE status[j] # "failed" /\ hasil[j] \notin Results
    <3>1. Told(j)' = "gaveup"
      BY <1>5, <2>6 DEF UseJob, Step, TypeOK, Told, Ended
    <3>2. Outcome(j) # "none"
      BY <1>1, <2>3 DEF TypeOK, FieldsOK, Outcome, Verdicts
    <3>3. Promise!GiveUp(j)
      BY <2>1, <2>2, <3>1, <3>2 DEF Promise!GiveUp
    <3> QED
      BY <3>3 DEF Promise!Next
  <2> QED
    BY <2>4, <2>5, <2>6
<1> QED
  BY <1>2, <1>3, <1>4, <1>5 DEF RequestStep

LEMMA PromiseCallback ==
  ASSUME IInv, NEW h \in Handlers, CallbackStep(h)
  PROVE  [Promise!Next]_(Promise!promiseVars)
<1> USE RegistryAssumption DEF IInv
<1>1. ASSUME NEW j \in Jobs, NEW v \in Verdicts, Refuse(h, j, v) \/ Duplicate(h, j, v)
      PROVE  UNCHANGED Promise!promiseVars
  BY <1>1 DEF Refuse, Duplicate, Receive, jobVars, reqVars, Promise!promiseVars, Outcome, Told
<1>2. ASSUME NEW j \in Jobs, NEW v \in Verdicts, Accept(h, j, v)
      PROVE  Promise!Resolve(j)
  <2>1. Outcome(j) = "pending" /\ Outcome(j)' = v
    BY <1>2 DEF Accept, Receive, TypeOK, Outcome, Job, Verdict
  <2>2. \A i \in Jobs : i # j => Outcome(i)' = Outcome(i)
    BY <1>2 DEF Accept, Receive, reqVars, TypeOK, Outcome, Job, Verdict
  <2>3. \A i \in Jobs : Told(i)' = Told(i)
    BY <1>2 DEF Accept, reqVars, Told
  <2> QED
    BY <2>1, <2>2, <2>3 DEF Promise!Resolve
<1>3. CASE Store(h)
  <2>1. UNCHANGED Promise!promiseVars
    BY <1>3 DEF Store, reqVars, TypeOK, WriterOK, Writing, Promise!promiseVars, Outcome, Told, Job, Verdict
  <2> QED
    BY <2>1
<1>4. CASE Release(h)
  <2>1. UNCHANGED Promise!promiseVars
    BY <1>4 DEF Release, reqVars, TypeOK, WriterOK, Writing, Promise!promiseVars, Outcome, Told, Job,
       Verdict, Verdicts
  <2> QED
    BY <2>1
<1>5. CASE Emit(h)
  <2>1. UNCHANGED Promise!promiseVars
    BY <1>5 DEF Emit, jobVars, reqVars, Promise!promiseVars, Outcome, Told, Job, Verdict
  <2> QED
    BY <2>1
<1> QED
  BY <1>1, <1>2, <1>3, <1>4, <1>5 DEF CallbackStep, Promise!Next

LEMMA PromiseEnvironment ==
  ASSUME IInv, (\E j \in Jobs : Age(j)) \/ Cleanup \/ Restart
  PROVE  [Promise!Next]_(Promise!promiseVars)
<1> USE RegistryAssumption DEF IInv
<1>1. ASSUME NEW j \in Jobs, Age(j)
      PROVE  UNCHANGED Promise!promiseVars
  BY <1>1 DEF Age, callVars, reqVars, Promise!promiseVars, Outcome, Told, Job, Verdict
<1>2. CASE Cleanup
  <2>1. Removable \in SUBSET Jobs
    BY DEF Removable, TypeOK
  <2>2. Promise!Forget(Removable)
    BY <1>2, <2>1 DEF Cleanup, Removable, callVars, reqVars, TypeOK, FieldsOK, RequestOK, Promise!Forget,
       Outcome, Told, Ended, Verdicts
  <2> QED
    BY <2>1, <2>2 DEF Promise!Next
<1>3. CASE Restart
  <2>1. Promise!Crash
    BY <1>3 DEF Restart, TypeOK, WriterOK, FieldsOK, RequestOK, Writing, Waiting, Promise!Crash, Outcome, Told,
       Job, Verdict, Verdicts, Ended
  <2> QED
    BY <2>1 DEF Promise!Next
<1> QED
  BY <1>1, <1>2, <1>3

(* The registry, with its locks, its half-written fields, its duplicated   *)
(* callbacks and its restarts, keeps the promise of JobPromise.            *)
THEOREM Refinement == Spec => KeepsPromise
<1>1. IInv /\ [Next]_vars => [Promise!Next]_(Promise!promiseVars)
  <2> SUFFICES ASSUME IInv, [Next]_vars PROVE [Promise!Next]_(Promise!promiseVars)
    OBVIOUS
  <2>1. CASE Next
    BY <2>1, PromiseRequest, PromiseCallback, PromiseEnvironment DEF Next
  <2>2. CASE UNCHANGED vars
    BY <2>2 DEF vars, jobVars, callVars, reqVars, Promise!promiseVars, Outcome, Told, Job, Verdict
  <2> QED
    BY <2>1, <2>2
<1> QED
  BY PromiseInit, <1>1, Invariance, PTL DEF Spec, KeepsPromise, Promise!Spec
=============================================================================
