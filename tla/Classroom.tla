----------------------------- MODULE Classroom -----------------------------
(***************************************************************************)
(* The tables of one kelas and the requests that work on them: answers     *)
(* through the API (SubmitJawaban), answers and finished readings of the   *)
(* voice session (SimpanJawaban, Touch, SelesaikanMateri), joining,        *)
(* linking the modul, the guru's recap, and the deletion of the kelas with *)
(* all that belongs to it.                                                 *)
(*                                                                         *)
(* One statement of SQL is one step, under READ COMMITTED: a transaction's *)
(* own deletions are seen by nobody before it commits, and each of its     *)
(* statements finds what others have committed by then.  siswas and        *)
(* kelas_moduls have a foreign key to kelas; jawaban_siswas and            *)
(* siswa_progresses have none.                                             *)
(***************************************************************************)
EXTENDS Naturals, Sequences, FiniteSets, SequencesExt

CONSTANTS
  Siswa,      (* who may be enrolled                                         *)
  Soal,       (* the questions of the modul                                  *)
  Ujian,      (* those of jenis uts and uas                                  *)
  Submits,    (* requests POST /jawaban                                      *)
  Voices,     (* calls of submit_jawaban in a voice session                  *)
  Readers,    (* calls of baca_bagian_kedua, each ends a materi of its own   *)
  None

ASSUME ClassroomAssumption ==
  /\ Ujian \subseteq Soal
  /\ Submits \cap Voices = {} /\ Readers \cap (Submits \cup Voices) = {}
  /\ None \notin [id : Submits \cup Voices \cup Readers, done : SUBSET Readers]

Requests == Submits \cup Voices \cup Readers

VARIABLES
  kelas,      (* the kelas exists                                            *)
  siswa,      (* its rows in siswas                                          *)
  linked,     (* kelas_moduls holds the modul                                *)
  jawaban,    (* jawaban_siswas by created_at: the request that made the row *)
  progress,   (* siswa_progresses: id (who inserted it), materi finished; or None *)
  at,         (* where each request is                                       *)
  form,       (* what it carries: siswa, soal, and whether the answer is right *)
  copy,       (* the progress row it has read                                *)
  tx,         (* the deletion: its last statement and the rows it has deleted *)
  stored,     (* history: the answers ever stored                            *)
  raced       (* history: siswa whose progress had two writers at a time, or *)
              (* a reading of theirs was not written for an error            *)

tables  == <<kelas, siswa, linked, jawaban, progress>>
history == <<stored, raced>>
vars    == <<tables, at, form, copy, tx, history>>

NoTx == [at |-> "none", jawaban |-> {}, progress |-> {}, siswa |-> {}, links |-> FALSE]

Init ==
  /\ kelas = TRUE
  /\ siswa = {}
  /\ linked = TRUE
  /\ jawaban = <<>>
  /\ progress = [s \in Siswa |-> None]
  /\ at = [r \in Requests |-> "new"]
  /\ form = [r \in Requests |-> None]
  /\ copy = [r \in Requests |-> None]
  /\ tx = NoTx
  /\ stored = {}
  /\ raced = {}

Goto(r, l) == at' = [at EXCEPT ![r] = l]

-----------------------------------------------------------------------------
(* The guru and the siswa come and go.                                     *)

(* JoinSiswa and DaftarkanSiswa, of a siswa not in the table; the foreign  *)
(* key needs the kelas at the time of the INSERT.                          *)
Join(s) ==
  /\ kelas
  /\ s \notin siswa
  /\ siswa' = siswa \cup {s}
  /\ UNCHANGED <<kelas, linked, jawaban, progress, at, form, copy, tx, history>>

(* AssignModul and RemoveModul; a row the deletion has locked is waited for. *)
Link ==
  /\ kelas
  /\ ~tx.links
  /\ linked' = ~linked
  /\ UNCHANGED <<kelas, siswa, jawaban, progress, at, form, copy, tx, history>>

-----------------------------------------------------------------------------
(* SubmitJawaban.                                                          *)

Answered(s, q) == {r \in ToSet(jawaban) : form[r].siswa = s /\ form[r].soal = q}

(* A question of an exam is answered once.                                 *)
MayAnswer(s, q, found) ==
  /\ s \in siswa
  /\ linked
  /\ q \in Ujian => found = {}

(* The look-ups before the AI service is asked, in one step.  An error of  *)
(* the last one counts as no earlier answer found.                         *)
Check(r, s, q) ==
  /\ r \in Submits
  /\ at[r] = "new"
  /\ \E found \in {Answered(s, q), {}} :
       Goto(r, IF MayAnswer(s, q, found) THEN "evaluating" ELSE "done")
  /\ form' = [form EXCEPT ![r] = [siswa |-> s, soal |-> q, benar |-> FALSE]]
  /\ UNCHANGED <<tables, copy, tx, history>>

(* The verdict of the AI service, or no answer after 30 seconds.           *)
Evaluate(r) ==
  /\ at[r] = "evaluating"
  /\ \/ Goto(r, "done") /\ UNCHANGED form
     \/ /\ Goto(r, "storing")
        /\ \E b \in BOOLEAN : form' = [form EXCEPT ![r].benar = b]
  /\ UNCHANGED <<tables, copy, tx, history>>

(* Create, and jawaban-submitted to the guru; or an error of the database. *)
Store(r) ==
  /\ at[r] = "storing"
  /\ Goto(r, "done")
  /\ \/ jawaban' = Append(jawaban, r) /\ stored' = stored \cup {r}
     \/ UNCHANGED <<jawaban, stored>>
  /\ UNCHANGED <<kelas, siswa, linked, progress, form, copy, tx, raced>>

-----------------------------------------------------------------------------
(* The voice session of a siswa: it has the id from when it joined, and    *)
(* does not ask whether the siswa is still there.                          *)

SimpanJawaban(r, s, q, b) ==
  /\ r \in Voices
  /\ at[r] = "new"
  /\ s \in siswa \/ ~kelas
  /\ Goto(r, "touch")
  /\ form' = [form EXCEPT ![r] = [siswa |-> s, soal |-> q, benar |-> b]]
  /\ \/ jawaban' = Append(jawaban, r) /\ stored' = stored \cup {r}
     \/ UNCHANGED <<jawaban, stored>>
  /\ UNCHANGED <<kelas, siswa, linked, progress, copy, tx, raced>>

(* Two writers of the progress of one siswa between its read and its write. *)
Writers(s) == {r \in Requests : at[r] = "save" /\ form[r].siswa = s}

(* The first statement of Touch and of SelesaikanMateri.  An error counts  *)
(* as no row found.                                                        *)
ReadProgress(r, s) ==
  /\ \E found \in {progress[s], None} : copy' = [copy EXCEPT ![r] = found]
  /\ Goto(r, "save")
  /\ raced' = IF Writers(s) = {} THEN raced ELSE raced \cup {s}

Touch(r) ==
  /\ at[r] = "touch"
  /\ ReadProgress(r, form[r].siswa)
  /\ UNCHANGED <<tables, form, tx, stored>>

SelesaikanMateri(r, s) ==
  /\ r \in Readers
  /\ at[r] = "new"
  /\ s \in siswa \/ ~kelas
  /\ form' = [form EXCEPT ![r] = [siswa |-> s]]
  /\ ReadProgress(r, s)
  /\ UNCHANGED <<tables, tx, stored>>

(* Mutant: the row is written with only the materi just finished.          *)
Finished_Overwrites(r) == IF r \in Readers THEN {r} ELSE {}

(* The materi the row is to hold: those read and the one just finished.    *)
Finished(r) ==
  (IF copy[r] = None THEN {} ELSE copy[r].done) \cup (IF r \in Readers THEN {r} ELSE {})

(* The second statement: an INSERT if no row was read, else an UPDATE, of  *)
(* last_activity alone by Touch and of the whole row by Save, which        *)
(* inserts it again under its id if it is gone.  An INSERT beside a row of *)
(* the same siswa fails (unique index), and any statement may; errors are  *)
(* only logged.  A row the deletion has locked is waited for.              *)
SaveProgress(r) ==
  LET s        == form[r].siswa
      id       == IF copy[r] = None THEN r ELSE copy[r].id
      conflict == progress[s] # None /\ progress[s].id # id
  IN  /\ at[r] = "save"
      /\ s \notin tx.progress
      /\ \/ /\ ~conflict
            /\ progress' = IF copy[r] # None /\ r \in Voices THEN progress
                           ELSE [progress EXCEPT ![s] = [id |-> id, done |-> Finished(r)]]
            /\ UNCHANGED raced
         \/ /\ raced' = IF r \in Readers THEN raced \cup {s} ELSE raced
            /\ UNCHANGED progress
      /\ Goto(r, "done")
      /\ copy' = [copy EXCEPT ![r] = None]
      /\ UNCHANGED <<kelas, siswa, linked, jawaban, form, tx, stored>>

-----------------------------------------------------------------------------
(* DeleteWithCascade.                                                      *)

(* Mutant: the statements run on r.db and not on tx.                       *)
DeleteJawaban_NoTx ==
  /\ kelas
  /\ tx.at = "none"
  /\ tx' = [NoTx EXCEPT !.at = "jawaban"]
  /\ jawaban' = SelectSeq(jawaban, LAMBDA r : form[r].siswa \notin siswa)
  /\ UNCHANGED <<kelas, siswa, linked, progress, at, form, copy, history>>

DeleteJawaban ==
  /\ kelas
  /\ tx.at = "none"
  /\ tx' = [NoTx EXCEPT !.at = "jawaban",
                        !.jawaban = {r \in ToSet(jawaban) : form[r].siswa \in siswa}]
  /\ UNCHANGED <<tables, at, form, copy, history>>

DeleteProgress ==
  /\ tx.at = "jawaban"
  /\ tx' = [tx EXCEPT !.at = "progress", !.progress = {s \in siswa : progress[s] # None}]
  /\ UNCHANGED <<tables, at, form, copy, history>>

DeleteSiswa ==
  /\ tx.at = "progress"
  /\ tx' = [tx EXCEPT !.at = "siswa", !.siswa = siswa]
  /\ UNCHANGED <<tables, at, form, copy, history>>

DeleteLinks ==
  /\ tx.at = "siswa"
  /\ tx' = [tx EXCEPT !.at = "links", !.links = linked]
  /\ UNCHANGED <<tables, at, form, copy, history>>

(* The row of the kelas, if no row refers to it but those deleted.         *)
Commit ==
  /\ tx.at = "links"
  /\ siswa \subseteq tx.siswa
  /\ linked => tx.links
  /\ kelas' = FALSE
  /\ siswa' = {}
  /\ linked' = FALSE
  /\ jawaban' = SelectSeq(jawaban, LAMBDA r : r \notin tx.jawaban)
  /\ progress' = [s \in Siswa |-> IF s \in tx.progress THEN None ELSE progress[s]]
  /\ tx' = NoTx
  /\ UNCHANGED <<at, form, copy, history>>

(* Mutant: the way out after an error leaves the transaction open.         *)
Rollback_Never == tx.at # "none" /\ UNCHANGED vars

(* Any statement may fail, the last one must if a siswa or a link is new.  *)
Rollback ==
  /\ tx.at # "none"
  /\ tx' = NoTx
  /\ UNCHANGED <<tables, at, form, copy, history>>

(* A crash ends the requests and, in the database, the transaction.        *)
Restart ==
  /\ \E r \in Requests : at[r] \notin {"new", "done"}
  /\ at' = [r \in Requests |-> IF at[r] = "new" THEN "new" ELSE "done"]
  /\ copy' = [r \in Requests |-> None]
  /\ tx' = NoTx
  /\ raced' = raced \cup {form[r].siswa : r \in {q \in Requests : at[q] = "save"}}
  /\ UNCHANGED <<tables, form, stored>>

Step(r) == Evaluate(r) \/ Store(r) \/ Touch(r) \/ SaveProgress(r)

Deletion == DeleteProgress \/ DeleteSiswa \/ DeleteLinks \/ Commit

Next ==
  \/ \E s \in Siswa :
       \/ Join(s)
       \/ \E r \in Requests, q \in Soal :
            Check(r, s, q) \/ \E b \in BOOLEAN : SimpanJawaban(r, s, q, b)
       \/ \E r \in Requests : SelesaikanMateri(r, s)
  \/ Link
  \/ \E r \in Requests : Step(r)
  \/ DeleteJawaban \/ Deletion \/ Rollback
  \/ Restart

Spec == Init /\ [][Next]_vars

(* A request runs on, and gets the row it waits for when others keep on    *)
(* coming; a transaction commits or is rolled back.                        *)
FairSpec ==
  /\ Spec
  /\ \A r \in Requests : SF_vars(Step(r))
  /\ WF_vars(Deletion \/ Rollback)

-----------------------------------------------------------------------------
(* The guru's recap: GetRekapNilai and GetProgressKelas.                   *)

(* Mutant: DISTINCT ON is forgotten.                                       *)
Latest_All(s) == {r \in ToSet(jawaban) : form[r].siswa = s}

(* latest_answers: DISTINCT ON (siswa, soal), newest first.                *)
Latest(s) ==
  {jawaban[i] : i \in {i \in DOMAIN jawaban :
     /\ form[jawaban[i]].siswa = s
     /\ \A k \in DOMAIN jawaban : k > i => jawaban[k] \notin Answered(s, form[jawaban[i]].soal)}}

(* jumlah_soal_dijawab and jumlah_benar of GetRekapNilai.                  *)
Dijawab(s) == Cardinality(Latest(s))
Benar(s)   == Cardinality({r \in Latest(s) : form[r].benar})

(* soal_dikerjakan of GetProgressKelas counts every row.                   *)
Dikerjakan(s) == Cardinality({r \in ToSet(jawaban) : form[r].siswa = s})

-----------------------------------------------------------------------------
(* Properties.                                                             *)

(* The two recaps of a siswa agree, however voice and API answers mix:     *)
(* GetRekapNilai counts each question once, never more than there are, so  *)
(* that skor_persen stays within 100, and GetProgressKelas never less.     *)
RekapInBounds ==
  \A s \in siswa :
    /\ Dijawab(s) = Cardinality({q \in Soal : Answered(s, q) # {}})
    /\ Benar(s) <= Dijawab(s) /\ Dijawab(s) <= Dikerjakan(s)

(* DeleteWithCascade is all or nothing: while the kelas exists no answer   *)
(* is missing, through errors and crashes in its middle; and when it is    *)
(* gone nobody is enrolled and no modul is linked.  (That it takes no      *)
(* progress with it half-way is part of NothingUnread.)                    *)
CascadeIsAtomic ==
  /\ kelas  => stored = ToSet(jawaban)
  /\ ~kelas => siswa = {} /\ ~linked

(* A materi read to its end stays finished, unless two calls of the siswa  *)
(* wrote at the same time, its write failed or the kelas is being deleted. *)
(* A failed look-up alone does not make a second row or lose the first.    *)
NothingUnread ==
  kelas =>
    \A r \in Readers : at[r] = "done" /\ form[r] # None =>
      LET s == form[r].siswa
      IN  s \in raced \/ (progress[s] # None /\ r \in progress[s].done)

(* Requests come to an end, also those that wait for a row which a         *)
(* deletion has locked: it cannot hold its locks for ever, and who waits   *)
(* gets its turn.                                                          *)
RequestsEnd == []<>(\A r \in Requests : at[r] \in {"new", "done"})

(* model/jawaban_siswa.go:8-10: of uts and uas "hanya boleh 1 baris per    *)
(* SiswaID+SoalID", one row for a siswa and a question.                    *)
ExamAnsweredOnce ==
  \A s \in Siswa, q \in Ujian : Cardinality(Answered(s, q)) <= 1
=============================================================================
