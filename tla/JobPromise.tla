----------------------------- MODULE JobPromise -----------------------------
(***************************************************************************)
(* What the job registry promises its callers, with no lock, no callback   *)
(* message and no polling in it: every job is opened once and resolved at  *)
(* most once, and the request that opened it is told either the verdict of *)
(* that resolution or that there is no answer, and is told it once.        *)
(***************************************************************************)

CONSTANTS
  Jobs,       (* job ids; GenerateID never repeats one                       *)
  Verdicts    (* what a job may resolve to                                   *)

VARIABLES
  outcome,    (* "none", "pending", a verdict, or "gone", for each job       *)
  told        (* "nothing", "gaveup" or a verdict, for each job's requester  *)

promiseVars == <<outcome, told>>

Init ==
  /\ outcome = [j \in Jobs |-> "none"]
  /\ told    = [j \in Jobs |-> "nothing"]

(* A request opens its job before it asks the AI service anything.         *)
Open(j) ==
  /\ outcome[j] = "none"
  /\ outcome' = [outcome EXCEPT ![j] = "pending"]
  /\ UNCHANGED told

(* The first callback decides; there is no second decision.                *)
Resolve(j) ==
  /\ outcome[j] = "pending"
  /\ \E v \in Verdicts : outcome' = [outcome EXCEPT ![j] = v]
  /\ UNCHANGED told

(* The requester learns the verdict of its own job.                        *)
Tell(j) ==
  /\ outcome[j] \in Verdicts
  /\ told[j] = "nothing"
  /\ told' = [told EXCEPT ![j] = outcome[j]]
  /\ UNCHANGED outcome

(* The requester goes without an answer: timeout, error, dead connection.  *)
GiveUp(j) ==
  /\ outcome[j] # "none"
  /\ told[j] = "nothing"
  /\ told' = [told EXCEPT ![j] = "gaveup"]
  /\ UNCHANGED outcome

(* Resolved jobs that nobody waits for are forgotten.                      *)
Forget(S) ==
  /\ \A j \in S : outcome[j] \in Verdicts /\ told[j] # "nothing"
  /\ outcome' = [j \in Jobs |-> IF j \in S THEN "gone" ELSE outcome[j]]
  /\ UNCHANGED told

(* The process dies: every open job is gone and its requester unanswered.  *)
Crash ==
  /\ outcome' = [j \in Jobs |-> IF outcome[j] = "none" THEN "none" ELSE "gone"]
  /\ told'    = [j \in Jobs |-> IF outcome[j] # "none" /\ told[j] = "nothing"
                                  THEN "gaveup" ELSE told[j]]

Next ==
  \/ \E j \in Jobs : Open(j) \/ Resolve(j) \/ Tell(j) \/ GiveUp(j)
  \/ \E S \in SUBSET Jobs : Forget(S)
  \/ Crash

Spec == Init /\ [][Next]_promiseVars
=============================================================================
