---------------------------- MODULE JobRegistry ----------------------------
(***************************************************************************)
(* The in-memory registry of AI jobs (internal/job/registry.go), the three *)
(* request handlers that use it in the same way (register, submit, wait)   *)
(* and the callback handler that resolves the jobs.                        *)
(*                                                                         *)
(* WaitSync takes the *Job out of the map under RLock and then reads its   *)
(* fields with no lock, while Complete and Fail write them under Lock.  A  *)
(* resolution is therefore not one step here but the three stores another  *)
(* goroutine can see in between (Accept, Store, Release).  Go stores the   *)
(* length of a string or of a slice before its pointer, so a field of two  *)
(* words can be seen half written: "torn".                                 *)
(***************************************************************************)

EXTENDS Naturals, FiniteSets

CONSTANTS
  Jobs,         (* job ids, one per request, never repeated (GenerateID)     *)
  TutorJobs,    (* those of type tutor: their callbacks also emit an event   *)
  Handlers,     (* goroutines that serve POST /ai-callback                   *)
  Results,      (* hasil payloads that parse                                 *)
  Empty,        (* a hasil that does not: absent or not of the expected form *)
  Failure,      (* a callback with status "failed"                           *)
  Nobody,       (* the writer lock is free                                   *)
  MaxCalls      (* bound: deliveries of callbacks the AI service makes       *)

Verdicts == Results \cup {Empty, Failure}

ASSUME RegistryAssumption ==
  /\ TutorJobs \subseteq Jobs
  /\ Nobody \notin Handlers
  /\ Empty \notin Results
  /\ Failure \notin Results \cup {Empty}
  /\ {"none", "torn", "pending", "gone", "nothing", "gaveup"} \cap Verdicts = {}
  /\ MaxCalls \in Nat

VARIABLES
  known,      (* DOMAIN of Registry.jobs                                     *)
  status,     (* Job.Status                                                  *)
  hasil,      (* Job.Hasil                                                   *)
  processed,  (* Job.Processed                                               *)
  stale,      (* jobs whose CallbackAt is before the cutoff of Cleanup: the  *)
              (* zero time of a job never called back is                     *)
  mu,         (* the goroutine that holds Registry.mu for writing, or Nobody *)
  pc,         (* where each callback goroutine is                            *)
  msg,        (* the callback it serves: <<job, verdict>>                    *)
  req,        (* where the request that owns each job is                     *)
  answer,     (* the result that request returned, or "none"                 *)
  asked,      (* jobs the AI service has received                            *)
  calls,      (* callbacks delivered so far                                  *)
  refused,    (* jobs with a callback answered 404                           *)
  replies     (* tutor-reply events emitted for each job                     *)

jobVars  == <<known, status, hasil, processed, stale>>
callVars == <<mu, pc, msg, calls, refused, replies>>
reqVars  == <<req, answer, asked>>
vars     == <<jobVars, callVars, reqVars>>

Ended == {"result", "failed", "unparsable", "panic", "timeout", "error", "direct", "aborted"}
Waiting == {"waiting", "polled", "returned"}

Init ==
  /\ known     = {}
  /\ status    = [j \in Jobs |-> "pending"]
  /\ hasil     = [j \in Jobs |-> "none"]
  /\ processed = [j \in Jobs |-> FALSE]
  /\ stale     = Jobs
  /\ mu        = Nobody
  /\ pc        = [h \in Handlers |-> "idle"]
  /\ msg       = [h \in Handlers |-> <<>>]
  /\ req       = [j \in Jobs |-> "new"]
  /\ answer    = [j \in Jobs |-> "none"]
  /\ asked     = {}
  /\ calls     = 0
  /\ refused   = {}
  /\ replies   = [j \in Jobs |-> 0]

-----------------------------------------------------------------------------
(* The request: processTutorOnce, prosesSatuChunk, SubmitJawaban.          *)

Step(j, from, to) ==
  /\ req[j] = from
  /\ req' = [req EXCEPT ![j] = to]

Register(j) ==
  /\ mu = Nobody
  /\ Step(j, "new", "registered")
  /\ known' = known \cup {j}
  /\ UNCHANGED <<status, hasil, processed, stale, callVars, answer, asked>>

(* Mutant: the job is submitted before it is registered.                   *)
Submit_BeforeRegister(j) ==
  /\ req[j] \in {"new", "registered"}
  /\ j \notin asked
  /\ asked' = asked \cup {j}
  /\ UNCHANGED <<jobVars, callVars, req, answer>>

(* The HTTP request reaches the AI service; its response is still to come. *)
Submit(j) ==
  /\ req[j] = "registered"
  /\ j \notin asked
  /\ asked' = asked \cup {j}
  /\ UNCHANGED <<jobVars, callVars, req, answer>>

Ack(j) ==
  /\ j \in asked
  /\ Step(j, "registered", "waiting")
  /\ UNCHANGED <<jobVars, callVars, answer, asked>>

(* The submission fails, whether or not the service received it; the job   *)
(* stays in the registry.                                                  *)
SubmitError(j) ==
  /\ Step(j, "registered", "error")
  /\ UNCHANGED <<jobVars, callVars, answer, asked>>

(* The service answers in the HTTP response itself; only tutor jobs are    *)
(* always acknowledged.  The job is never waited for.                      *)
Direct(j) ==
  /\ j \in asked \ TutorJobs
  /\ Step(j, "registered", "direct")
  /\ UNCHANGED <<jobVars, callVars, answer, asked>>

(* A tick of WaitSync: the pointer is read under RLock...                  *)
Poll(j) ==
  /\ mu = Nobody
  /\ j \in known
  /\ Step(j, "waiting", "polled")
  /\ UNCHANGED <<jobVars, callVars, answer, asked>>

(* ...and Status is read after RUnlock.                                    *)
CheckStatus(j) ==
  /\ Step(j, "polled", IF status[j] = "pending" THEN "waiting" ELSE "returned")
  /\ UNCHANGED <<jobVars, callVars, answer, asked>>

Timeout(j) ==
  /\ Step(j, "waiting", "timeout")
  /\ UNCHANGED <<jobVars, callVars, answer, asked>>

(* Mutant: Hasil is handed on without being parsed.                        *)
UseJob_Unparsed(j) ==
  /\ Step(j, "returned", IF status[j] = "failed" THEN "failed" ELSE "result")
  /\ answer' = [answer EXCEPT ![j] = IF status[j] # "failed" THEN hasil[j] ELSE @]
  /\ UNCHANGED <<jobVars, callVars, asked>>

(* The caller looks at the *Job that WaitSync returned, again unlocked.    *)
UseJob(j) ==
  /\ Step(j, "returned", IF status[j] = "failed"   THEN "failed"
                         ELSE IF hasil[j] \in Results THEN "result"
                         ELSE IF hasil[j] = "torn"    THEN "panic"
                         ELSE "unparsable")
  /\ answer' = [answer EXCEPT ![j] = IF status[j] # "failed" /\ hasil[j] \in Results
                                       THEN hasil[j] ELSE @]
  /\ UNCHANGED <<jobVars, callVars, asked>>

-----------------------------------------------------------------------------
(* The callback: AICallbackHandler.Handle with Complete or Fail in it.     *)

Job(h)     == msg[h][1]
Verdict(h) == msg[h][2]

Receive(h, j) ==
  /\ pc[h] = "idle"
  /\ mu = Nobody
  /\ j \in asked
  /\ calls < MaxCalls
  /\ calls' = calls + 1

(* After Complete or Fail only callbacks of tipe tutor have more to do:    *)
(* they emit an event.                                                     *)
Proceed(h, j, v) ==
  /\ pc'  = [pc  EXCEPT ![h] = IF j \in TutorJobs THEN "emit" ELSE "idle"]
  /\ msg' = [msg EXCEPT ![h] = IF j \in TutorJobs THEN <<j, v>> ELSE <<>>]

(* Mutant: Handle logs the error of Complete and does not return.          *)
Refuse_EmitsAnyway(h, j, v) ==
  /\ Receive(h, j)
  /\ j \notin known
  /\ refused' = refused \cup {j}
  /\ Proceed(h, j, v)
  /\ UNCHANGED <<jobVars, mu, replies, reqVars>>

(* job_id not in the map: an error, 404.                                   *)
Refuse(h, j, v) ==
  /\ Receive(h, j)
  /\ j \notin known
  /\ refused' = refused \cup {j}
  /\ UNCHANGED <<jobVars, mu, pc, msg, replies, reqVars>>

(* Mutant: the early return for duplicates leaves the lock taken.          *)
Duplicate_KeepsLock(h, j, v) ==
  /\ Receive(h, j)
  /\ j \in known
  /\ processed[j]
  /\ mu' = h
  /\ Proceed(h, j, v)
  /\ UNCHANGED <<jobVars, refused, replies, reqVars>>

(* Processed already: Complete and Fail return nil, Handle goes on.        *)
Duplicate(h, j, v) ==
  /\ Receive(h, j)
  /\ j \in known
  /\ processed[j]
  /\ Proceed(h, j, v)
  /\ UNCHANGED <<jobVars, mu, refused, replies, reqVars>>

(* Mutant: Processed is not looked at.                                     *)
Accept_Again(h, j, v) ==
  /\ Receive(h, j)
  /\ j \in known
  /\ mu' = h
  /\ pc' = [pc EXCEPT ![h] = "store"]
  /\ msg' = [msg EXCEPT ![h] = <<j, v>>]
  /\ status' = [status EXCEPT ![j] = IF v = Failure THEN "torn" ELSE "success"]
  /\ UNCHANGED <<known, hasil, processed, stale, refused, replies, reqVars>>

(* Mutant: Processed is looked at under RLock and the lock then let go, so *)
(* a second callback can pass the same check.                              *)
Accept_CheckUnlocked(h, j, v) ==
  /\ Receive(h, j)
  /\ j \in known
  /\ ~processed[j]
  /\ pc' = [pc EXCEPT ![h] = "store"]
  /\ msg' = [msg EXCEPT ![h] = <<j, v>>]
  /\ status' = [status EXCEPT ![j] = IF v = Failure THEN "torn" ELSE "success"]
  /\ UNCHANGED <<known, hasil, processed, stale, mu, refused, replies, reqVars>>

(* The job is open: the lock is kept and the first word of Status stored.  *)
Accept(h, j, v) ==
  /\ Receive(h, j)
  /\ j \in known
  /\ ~processed[j]
  /\ mu' = h
  /\ pc' = [pc EXCEPT ![h] = "store"]
  /\ msg' = [msg EXCEPT ![h] = <<j, v>>]
  /\ status' = [status EXCEPT ![j] = IF v = Failure THEN "torn" ELSE "success"]
  /\ UNCHANGED <<known, hasil, processed, stale, refused, replies, reqVars>>

(* Complete: the length of Hasil.  Fail: the rest of Status.               *)
Store(h) ==
  /\ pc[h] = "store"
  /\ pc' = [pc EXCEPT ![h] = "release"]
  /\ IF Verdict(h) = Failure
       THEN status' = [status EXCEPT ![Job(h)] = "failed"] /\ UNCHANGED hasil
       ELSE hasil' = [hasil EXCEPT ![Job(h)] = "torn"] /\ UNCHANGED status
  /\ UNCHANGED <<known, processed, stale, mu, msg, calls, refused, replies, reqVars>>

Release(h) ==
  /\ pc[h] = "release"
  /\ hasil' = [hasil EXCEPT ![Job(h)] = IF Verdict(h) = Failure THEN @ ELSE Verdict(h)]
  /\ processed' = [processed EXCEPT ![Job(h)] = TRUE]
  /\ stale' = stale \ {Job(h)}
  /\ mu' = Nobody
  /\ Proceed(h, Job(h), Verdict(h))
  /\ UNCHANGED <<known, status, calls, refused, replies, reqVars>>

(* handleTutorSuccess, handleTutorFailed: extractSiswaID reads the job     *)
(* under RLock, then the event goes to the hub.                            *)
Emit(h) ==
  /\ pc[h] = "emit"
  /\ mu = Nobody
  /\ replies' = [replies EXCEPT ![Job(h)] = @ + 1]
  /\ pc' = [pc EXCEPT ![h] = "idle"]
  /\ msg' = [msg EXCEPT ![h] = <<>>]
  /\ UNCHANGED <<jobVars, mu, calls, refused, reqVars>>

-----------------------------------------------------------------------------
(* The clean-up goroutine of main.go, time, and the process.               *)

(* An hour passes for a processed job.  The longest wait is 150 seconds    *)
(* and a handler takes milliseconds, so nobody is in the middle of it.     *)
Age(j) ==
  /\ j \in known \ stale
  /\ req[j] \in Ended
  /\ \A h \in Handlers : pc[h] # "idle" => Job(h) # j
  /\ stale' = stale \cup {j}
  /\ UNCHANGED <<known, status, hasil, processed, callVars, reqVars>>

(* Mutant: Cleanup trusts CallbackAt alone, which is zero in an open job.  *)
Removable_Unprocessed == known \cap stale

Removable == {j \in known : processed[j] /\ j \in stale}

Cleanup ==
  /\ mu = Nobody
  /\ Removable # {}
  /\ known' = known \ Removable
  /\ UNCHANGED <<status, hasil, processed, stale, callVars, reqVars>>

(* The process restarts: the registry and all goroutines are lost, the AI  *)
(* service remembers the jobs it was given.                                *)
Restart ==
  /\ known  # {}
  /\ known' = {}
  /\ mu'    = Nobody
  /\ pc'    = [h \in Handlers |-> "idle"]
  /\ msg'   = [h \in Handlers |-> <<>>]
  /\ req'   = [j \in Jobs |-> IF req[j] \in Ended \cup {"new"} THEN req[j] ELSE "aborted"]
  /\ UNCHANGED <<status, hasil, processed, stale, calls, refused, replies, answer, asked>>

-----------------------------------------------------------------------------
RequestStep(j) ==
  \/ Register(j) \/ Submit(j) \/ Ack(j) \/ SubmitError(j) \/ Direct(j)
  \/ Poll(j) \/ CheckStatus(j) \/ Timeout(j) \/ UseJob(j)

CallbackStep(h) ==
  \/ \E j \in Jobs, v \in Verdicts : Refuse(h, j, v) \/ Duplicate(h, j, v) \/ Accept(h, j, v)
  \/ Store(h) \/ Release(h) \/ Emit(h)

Next ==
  \/ \E j \in Jobs : RequestStep(j)
  \/ \E h \in Handlers : CallbackStep(h)
  \/ \E j \in Jobs : Age(j)
  \/ Cleanup
  \/ Restart

(* A goroutine that can run does run, an HTTP submission ends, and a       *)
(* select whose deadline has passed takes that branch in the end: Go picks *)
(* a ready case at random, so polls cannot starve it.  Nothing makes the   *)
(* AI service call back.                                                   *)
Fairness ==
  /\ \A j \in Jobs :
       /\ WF_vars(SubmitError(j) \/ Ack(j) \/ Direct(j))
       /\ WF_vars(CheckStatus(j))
       /\ SF_vars(Timeout(j))
       /\ WF_vars(UseJob(j))
  /\ \A h \in Handlers : WF_vars(Store(h)) /\ WF_vars(Release(h))

Spec     == Init /\ [][Next]_vars
FairSpec == Spec /\ Fairness

-----------------------------------------------------------------------------
(* Properties.                                                             *)

TypeOK ==
  /\ known \subseteq Jobs
  /\ status \in [Jobs -> {"pending", "torn", "success", "failed"}]
  /\ hasil \in [Jobs -> Results \cup {Empty, "none", "torn"}]
  /\ processed \in [Jobs -> BOOLEAN]
  /\ stale \subseteq Jobs
  /\ mu \in Handlers \cup {Nobody}
  /\ pc \in [Handlers -> {"idle", "store", "release", "emit"}]
  /\ msg \in [Handlers -> (Jobs \X Verdicts) \cup {<<>>}]
  /\ req \in [Jobs -> Ended \cup Waiting \cup {"new", "registered"}]
  /\ answer \in [Jobs -> Results \cup {"none"}]
  /\ asked \subseteq Jobs
  /\ calls \in 0 .. MaxCalls
  /\ refused \subseteq Jobs
  /\ replies \in [Jobs -> Nat]

(* A request inside WaitSync finds its job in the map: neither Cleanup nor *)
(* any callback takes it away (registry.go WaitSync, Cleanup).             *)
WaiterKeepsItsJob ==
  \A j \in Jobs : req[j] \in Waiting => j \in known

(* What a request returned is what the callback that won stored, although  *)
(* it was read with no lock: later callbacks, in whatever order, never     *)
(* make the registry disagree with an answer already given.  (The text of  *)
(* a failure, Error, is read with no lock too: it is not modelled.)        *)
AnswerIsTheVerdict ==
  \A j \in known :
    /\ req[j] = "result" => status[j] = "success" /\ hasil[j] = answer[j]
    /\ req[j] = "failed" => status[j] = "failed"

(* A resolved job is never resolved again, whatever mix of duplicated and  *)
(* contradictory callbacks arrives, at whichever goroutines (Complete and  *)
(* Fail, "idempotent").                                                    *)
ResolvedOnce ==
  [][\A j \in known \cap known' : processed[j] =>
       /\ processed'[j]
       /\ status'[j] = status[j]
       /\ hasil'[j] = hasil[j]]_vars

(* A callback is not answered 404 while the request it answers is alive:   *)
(* callers register before they submit, and Cleanup leaves open jobs.      *)
NobodyAliveIsRefused ==
  [][\A j \in refused' \ refused : req[j] \in Ended]_vars

(* A tutor-reply goes out only for a job a callback has resolved: never    *)
(* for one the registry does not know (Handle returns on the error).       *)
ReplyMeansResolved ==
  [][\A j \in Jobs : replies'[j] # replies[j] => processed[j]]_vars

(* The registry keeps the promise of JobPromise.  A job resolves when its  *)
(* callback passes the Processed check, for from then on nobody else can.  *)
Outcome(j) ==
  IF j \notin known THEN IF req[j] = "new" THEN "none" ELSE "gone"
  ELSE IF mu # Nobody /\ Job(mu) = j THEN Verdict(mu)
  ELSE IF ~processed[j]              THEN "pending"
  ELSE IF status[j] = "failed"       THEN Failure ELSE hasil[j]

Told(j) ==
  IF req[j] = "result" THEN answer[j]
  ELSE IF req[j] = "failed" THEN Failure
  ELSE IF req[j] \in Ended THEN "gaveup" ELSE "nothing"

Promise == INSTANCE JobPromise
  WITH outcome <- [j \in Jobs |-> Outcome(j)],
       told    <- [j \in Jobs |-> Told(j)]

KeepsPromise == Promise!Spec

(* No request hangs: whatever the AI service and the other requests do, a  *)
(* request that registered a job comes to an end (WaitSync's deadline),    *)
(* and the registry's lock is given back on every path out of Complete and *)
(* Fail, early returns too, so that nobody waits on everybody.             *)
RequestsEnd ==
  /\ \A j \in Jobs : req[j] = "registered" ~> req[j] \in Ended
  /\ (mu # Nobody) ~> (mu = Nobody)

(* Claims of the repository the code does not keep.                        *)

(* AI_SERVICE_ALIGNMENT_PLAN.md:183: a duplicate callback with the same    *)
(* job_id is ignored.  One job never emits two tutor-reply events.         *)
DuplicateIgnored == \A j \in Jobs : replies[j] <= 1
=============================================================================
