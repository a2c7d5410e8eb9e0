------------------------------- MODULE Upload -------------------------------
(***************************************************************************)
(* The upload of a PDF to a modul (ProcessAndSaveMateri and                *)
(* ProcessAndSaveSoal): the text is cut into chunks, each chunk is a job   *)
(* for the AI service in a goroutine of its own, the items that come back  *)
(* are collected as they arrive, numbered and saved in one batch.  Beside  *)
(* it the guru adds materi by hand (CreateManual) and deletes them.        *)
(*                                                                         *)
(* An item is <<chunk, position in the chunk>>.  Uploads cut one at a      *)
(* time: the loop touches nothing but its locals, the three variables of   *)
(* TextChunk, and goroutines are spawned only when it has ended.  What one *)
(* job may answer is the promise of JobRegistry: items, or a failure,      *)
(* within 150 seconds.                                                     *)
(***************************************************************************)
EXTENDS TextChunk, SequencesExt

CONSTANTS
  Uploads,     (* the upload requests                                        *)
  Manuals,     (* the guru's requests for a new materi                       *)
  Counts,      (* how many items the AI service may find in a chunk          *)
  Failed,      (* a chunk that failed                                        *)
  Pending,     (* a chunk whose goroutine is still at work                   *)
  MaxDeletes   (* bound on Delete                                            *)

ASSUME UploadAssumption ==
  /\ Counts \subseteq Nat
  /\ Failed \notin Nat /\ Pending \notin Nat /\ Failed # Pending
  /\ Uploads \cap Manuals = {}
  /\ MaxDeletes \in Nat

VARIABLES
  phase,     (* where each upload is                                         *)
  result,    (* result[u][i]: what chunk i of u came to                      *)
  channel,   (* the results channel: chunks sent and not yet received        *)
  list,      (* materiList, soalList                                         *)
  rows,      (* the table: where a row comes from, its item, its Urutan      *)
  place,     (* the Urutan a CreateManual has counted, 0 if none is under way *)
  deletes    (* how many rows were deleted                                   *)

tableVars == <<rows, place, deletes>>
vars == <<chunkVars, phase, result, channel, list, rows, place, deletes>>

Ended == {"done", "failed", "rejected", "lost"}

Init ==
  /\ text = <<>> /\ cuts = <<>> /\ cutting = FALSE
  /\ phase = [u \in Uploads |-> "new"]
  /\ result = [u \in Uploads |-> <<>>]
  /\ channel = [u \in Uploads |-> <<>>]
  /\ list = [u \in Uploads |-> <<>>]
  /\ rows = {}
  /\ place = [m \in Manuals |-> 0]
  /\ deletes = 0

(* The handler has checked the request, and the text is read from the PDF. *)
Extract(u) ==
  /\ phase[u] = "new"
  /\ \A v \in Uploads : phase[v] # "cutting"
  /\ text' \in Texts
  /\ cuts' = <<>>
  /\ cutting' = TRUE
  /\ phase' = [phase EXCEPT ![u] = "cutting"]
  /\ UNCHANGED <<result, channel, list, tableVars>>

ExtractError(u) ==
  /\ phase[u] = "new"
  /\ phase' = [phase EXCEPT ![u] = "failed"]
  /\ UNCHANGED <<chunkVars, result, channel, list, tableVars>>

CutText ==
  /\ \E u \in Uploads : phase[u] = "cutting"
  /\ ChunkNext
  /\ UNCHANGED <<phase, result, channel, list, tableVars>>

(* One goroutine for each chunk; the loop's locals are dead.               *)
Spawn(u) ==
  /\ phase[u] = "cutting"
  /\ ~cutting
  /\ result' = [result EXCEPT ![u] = [i \in 1 .. Len(cuts) |-> Pending]]
  /\ phase' = [phase EXCEPT ![u] = "working"]
  /\ text' = <<>> /\ cuts' = <<>>
  /\ UNCHANGED <<cutting, channel, list, tableVars>>

(* The goroutine of chunk i ends: it sends its result, and wg.Done().  The *)
(* channel has room for every chunk, so the send does not wait.            *)
Respond(u, i, res) ==
  /\ phase[u] = "working"
  /\ result[u][i] = Pending
  /\ result' = [result EXCEPT ![u][i] = res]
  /\ channel' = [channel EXCEPT ![u] = Append(@, i)]
  /\ UNCHANGED <<chunkVars, phase, list, tableVars>>

ItemsOf(u, i) ==
  IF result[u][i] \in Counts THEN [j \in 1 .. result[u][i] |-> <<i, j>>] ELSE <<>>

(* for res := range results: a failed chunk is skipped.                    *)
Collect(u) ==
  /\ phase[u] = "working"
  /\ channel[u] # <<>>
  /\ list' = [list EXCEPT ![u] = @ \o ItemsOf(u, Head(channel[u]))]
  /\ channel' = [channel EXCEPT ![u] = Tail(@)]
  /\ UNCHANGED <<chunkVars, phase, result, tableVars>>

(* Mutant: wg.Add(1) is called by the goroutine, so Wait may see none.     *)
Closed_Early(u) == TRUE

(* Mutant: wg.Done() is missing on the path of an error.                   *)
Closed_NotOnError(u) == \A i \in DOMAIN result[u] : result[u][i] \in Counts

(* wg.Wait() has returned and the channel is closed.                       *)
Closed(u) == \A i \in DOMAIN result[u] : result[u][i] # Pending

(* The range over the channel ends when it is closed and empty.            *)
Drained(u) ==
  /\ phase[u] = "working"
  /\ Closed(u)
  /\ channel[u] = <<>>

(* No item at all is an error of the upload.                               *)
NoItems(u) ==
  /\ Drained(u)
  /\ list[u] = <<>>
  /\ phase' = [phase EXCEPT ![u] = "rejected"]
  /\ UNCHANGED <<chunkVars, result, channel, list, tableVars>>

Batch(u) == {[from |-> u, item |-> list[u][p], urutan |-> p] : p \in DOMAIN list[u]}

(* Mutant: the rows are inserted one by one, until one fails.              *)
Save_RowByRow(u) ==
  /\ Drained(u)
  /\ list[u] # <<>>
  /\ \E saved \in SUBSET Batch(u) :
       /\ rows' = rows \cup saved
       /\ phase' = [phase EXCEPT ![u] = IF saved = Batch(u) THEN "saved" ELSE "failed"]
  /\ UNCHANGED <<chunkVars, result, channel, list, place, deletes>>

(* CreateBatch: one INSERT of all the items, or an error and none.         *)
Save(u) ==
  /\ Drained(u)
  /\ list[u] # <<>>
  /\ \/ /\ rows' = rows \cup Batch(u)
        /\ phase' = [phase EXCEPT ![u] = "saved"]
     \/ /\ phase' = [phase EXCEPT ![u] = "failed"]
        /\ UNCHANGED rows
  /\ UNCHANGED <<chunkVars, result, channel, list, place, deletes>>

(* materi-ready or soal-ready to the guru, and the response.               *)
Announce(u) ==
  /\ phase[u] = "saved"
  /\ phase' = [phase EXCEPT ![u] = "done"]
  /\ UNCHANGED <<chunkVars, result, channel, list, tableVars>>

(* CreateManual without an Urutan counts the rows of the modul ...         *)
CountRows(m) ==
  /\ place[m] = 0
  /\ \A r \in rows : r.from # m
  /\ place' = [place EXCEPT ![m] = Cardinality(rows) + 1]
  /\ UNCHANGED <<chunkVars, phase, result, channel, list, rows, deletes>>

(* ... and inserts its own with the next number, if the database lets it.  *)
InsertManual(m) ==
  /\ place[m] # 0
  /\ place' = [place EXCEPT ![m] = 0]
  /\ \/ rows' = rows \cup {[from |-> m, item |-> <<0, 0>>, urutan |-> place[m]]}
     \/ UNCHANGED rows
  /\ UNCHANGED <<chunkVars, phase, result, channel, list, deletes>>

Delete(r) ==
  /\ deletes < MaxDeletes
  /\ deletes' = deletes + 1
  /\ rows' = rows \ {r}
  /\ UNCHANGED <<chunkVars, phase, result, channel, list, place>>

(* A crash ends every request.  The table stays.                           *)
Restart ==
  /\ \E u \in Uploads : phase[u] \notin Ended \cup {"new"}
  /\ phase' = [u \in Uploads |-> IF phase[u] \in Ended \cup {"new"} THEN phase[u] ELSE "lost"]
  /\ place' = [m \in Manuals |-> 0]
  /\ text' = <<>> /\ cuts' = <<>> /\ cutting' = FALSE
  /\ UNCHANGED <<result, channel, list, rows, deletes>>

Results == Counts \cup {Failed}

Next ==
  \/ \E u \in Uploads :
       \/ Extract(u) \/ ExtractError(u) \/ Spawn(u) \/ Collect(u)
       \/ NoItems(u) \/ Save(u) \/ Announce(u)
       \/ \E i \in DOMAIN result[u], res \in Results : Respond(u, i, res)
  \/ CutText
  \/ \E m \in Manuals : CountRows(m) \/ InsertManual(m)
  \/ \E r \in rows : Delete(r)
  \/ Restart

Spec == Init /\ [][Next]_vars

(* Goroutines run on, and a job is answered or times out.                  *)
FairSpec ==
  /\ Spec
  /\ WF_vars(CutText)
  /\ \A u \in Uploads :
       /\ WF_vars(Spawn(u)) /\ WF_vars(Collect(u)) /\ WF_vars(NoItems(u))
       /\ WF_vars(Save(u)) /\ WF_vars(Announce(u))
       /\ WF_vars(\E i \in DOMAIN result[u], res \in Results : Respond(u, i, res))

-----------------------------------------------------------------------------
(* Properties.                                                             *)

(* What the chunks that have answered gave.                                *)
Given(u) == UNION {ToSet(ItemsOf(u, i)) : i \in DOMAIN result[u]}

(* What is saved is what the chunks gave, whatever the order they answered *)
(* in: every item of every chunk that succeeded, once, and the items of a  *)
(* chunk next to each other and in their order.  No chunk is still out.    *)
(* An upload is turned down as empty only if no chunk gave an item: those  *)
(* that fail or time out do not cost the guru the others.                  *)
BatchIsTheChunks ==
  \A u \in Uploads : phase[u] \in {"saved", "done", "rejected"} =>
    /\ \A i \in DOMAIN result[u] : result[u][i] # Pending
    /\ ToSet(list[u]) = Given(u)
    /\ \A p, q \in DOMAIN list[u] :
         list[u][p][1] = list[u][q][1] => list[u][q][2] - list[u][p][2] = q - p

(* What the guru is promised.  Nothing is stored until the batch is, and   *)
(* what was found is what the chunks that answered have given.             *)
Status(u) ==
  CASE phase[u] \in {"new", "cutting", "working"} -> "open"
    [] phase[u] = "saved" -> "stored"
    [] phase[u] = "done" -> "answered"
    [] phase[u] = "rejected" -> "empty"
    [] OTHER -> phase[u]

Promise == INSTANCE UploadPromise
  WITH status <- [u \in Uploads |-> Status(u)],
       found  <- [u \in Uploads |-> Given(u)]

(* An upload, with its goroutines, its channel and its errors, keeps the   *)
(* promise: all that the chunks gave is stored once and in one step, or    *)
(* none of it, through late answers, errors, crashes and the deletion of   *)
(* rows, and it is turned down as empty only if no chunk gave an item.     *)
KeepsUploadPromise == Promise!Spec

(* Every upload that was accepted ends, with a response or by a crash.     *)
UploadsEnd == \A u \in Uploads : phase[u] = "cutting" ~> phase[u] \in Ended
=============================================================================
