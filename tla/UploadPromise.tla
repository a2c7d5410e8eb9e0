---------------------------- MODULE UploadPromise ----------------------------
(***************************************************************************)
(* What an upload promises the guru, with no chunks, goroutines, channel   *)
(* or list in it: what the AI service finds in the text is stored whole,   *)
(* in one step, numbered from 1 on, before the guru is told that it is; or *)
(* nothing of it is ever stored.  An upload is turned down as empty only   *)
(* if nothing was found.  Rows that are stored go only when the guru       *)
(* deletes them, and no row of an upload comes in another way.             *)
(***************************************************************************)
EXTENDS Naturals

CONSTANT
  Uploads     (* the upload requests                                         *)

VARIABLES
  status,     (* "open", "stored", "answered", "empty", "failed" or "lost"   *)
  found,      (* what was found in the text so far                           *)
  rows        (* the table: where a row comes from, its item, its Urutan     *)

promiseVars == <<status, found, rows>>

Init ==
  /\ status = [u \in Uploads |-> "open"]
  /\ found = [u \in Uploads |-> {}]
  /\ rows = {}

Becomes(u, s) == status' = [status EXCEPT ![u] = s]

(* More is found, and nothing is found no longer.                          *)
Find(u) ==
  /\ status[u] = "open"
  /\ found' = [found EXCEPT ![u] = found'[u]]
  /\ found[u] \subseteq found'[u]
  /\ UNCHANGED <<status, rows>>

(* The rows have all that was found, each thing once, numbered from 1 on.  *)
Whole(u, new) ==
  /\ \A r \in new : r.from = u
  /\ {r.item : r \in new} = found[u]
  /\ \A r, s \in new : r.item = s.item \/ r.urutan = s.urutan => r = s
  /\ \A r \in new : \A n \in 1 .. r.urutan : \E s \in new : s.urutan = n
  /\ \A r \in new : r.urutan >= 1

Store(u) ==
  /\ status[u] = "open"
  /\ found[u] # {}
  /\ rows \subseteq rows'
  /\ Whole(u, rows' \ rows)
  /\ Becomes(u, "stored")
  /\ UNCHANGED found

Answer(u) ==
  /\ status[u] = "stored"
  /\ Becomes(u, "answered")
  /\ UNCHANGED <<found, rows>>

TurnDown(u) ==
  /\ status[u] = "open"
  /\ found[u] = {}
  /\ Becomes(u, "empty")
  /\ UNCHANGED <<found, rows>>

Fail(u) ==
  /\ status[u] = "open"
  /\ Becomes(u, "failed")
  /\ UNCHANGED <<found, rows>>

(* The process dies: requests end unanswered, and the table stays.         *)
Crash ==
  /\ \A u \in Uploads : status'[u] \in {status[u], "lost"}
  /\ \A u \in Uploads : status[u] \notin {"open", "stored"} => status'[u] = status[u]
  /\ status' = [u \in Uploads |-> status'[u]]
  /\ UNCHANGED <<found, rows>>

(* The guru adds rows by hand and deletes any.                             *)
Edit ==
  /\ {r \in rows' : r.from \in Uploads} \subseteq rows
  /\ UNCHANGED <<status, found>>

Next ==
  \/ \E u \in Uploads : Find(u) \/ Store(u) \/ Answer(u) \/ TurnDown(u) \/ Fail(u)
  \/ Crash
  \/ Edit

Spec == Init /\ [][Next]_promiseVars
=============================================================================
