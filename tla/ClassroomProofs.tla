-------------------------- MODULE ClassroomProofs --------------------------
(***************************************************************************)
(* The three safety properties of Classroom for any number of siswa,       *)
(* questions and requests.  The deletion of the kelas shows nothing of     *)
(* itself before Commit; the recap counts each question by its latest row; *)
(* and a materi read stays read because the one writer of a row still has  *)
(* the row it read.                                                        *)
(***************************************************************************)
EXTENDS Classroom, FiniteSetTheorems, TLAPS

Answer == [siswa : Siswa, soal : Soal, benar : BOOLEAN]
Row    == [id : Requests, done : SUBSET Readers]

TypeOK ==
  /\ kelas \in BOOLEAN
  /\ siswa \subseteq Siswa
  /\ progress \in [Siswa -> Row \cup {None}]
  /\ at \in [Requests -> {"new", "evaluating", "storing", "touch", "save", "done"}]
  /\ form = [r \in Requests |-> form[r]]
  /\ copy = [r \in Requests |-> copy[r]]

(* What each request carries at each step.                                 *)
FormOK ==
  \A r \in Requests :
    /\ at[r] \in {"evaluating", "storing"} => r \in Submits /\ form[r] \in Answer
    /\ at[r] = "touch" => r \in Voices /\ form[r] \in Answer
    /\ at[r] = "save" => /\ r \in Voices \cup Readers /\ form[r].siswa \in Siswa
                         /\ copy[r] \in Row \cup {None}
    /\ at[r] = "done" /\ r \in Readers => form[r].siswa \in Siswa

(* While the kelas is there no answer has been deleted, and each is of a   *)
(* request that is past storing it.                                        *)
JawabanOK ==
  IF kelas
    THEN /\ jawaban \in Seq(Requests)
         /\ stored = ToSet(jawaban)
         /\ \A i \in 1 .. Len(jawaban) :
              form[jawaban[i]] \in Answer /\ at[jawaban[i]] \in {"touch", "save", "done"}
         /\ \A i, j \in 1 .. Len(jawaban) : jawaban[i] = jawaban[j] => i = j
    ELSE siswa = {} /\ ~linked

Alike(r, q) == form[r].siswa = form[q].siswa /\ form[r].soal = form[q].soal

(* Of the answers to one question one is the latest.                       *)
LatestOK ==
  kelas =>
    \A i \in 1 .. Len(jawaban) : \E j \in 1 .. Len(jawaban) :
      /\ Alike(jawaban[i], jawaban[j])
      /\ \A k \in j + 1 .. Len(jawaban) : ~Alike(jawaban[i], jawaban[k])

(* The progress of a siswa who had no two writers at a time: the writer    *)
(* there is has read the row there is, or has failed to read it.           *)
WritersOK(s) ==
  /\ progress[s] # None => at[progress[s].id] = "done"
  /\ \A v, w \in Writers(s) : v = w
  /\ \A w \in Writers(s) : copy[w] \in {None, progress[s]}
  /\ \A r \in Readers : at[r] = "done" /\ form[r].siswa = s =>
       progress[s] # None /\ r \in progress[s].done

IInv ==
  /\ TypeOK /\ FormOK /\ JawabanOK /\ LatestOK
  /\ kelas => \A s \in Siswa \ raced : WritersOK(s)

-----------------------------------------------------------------------------
(* Steps.                                                                  *)

(* A row is not the lack of one.                                           *)
LEMMA RowIsSome == None \notin Row
BY ClassroomAssumption DEF Row, Requests

LEMMA InitIInv == Init => IInv
<1> SUFFICES ASSUME Init PROVE IInv
  OBVIOUS
<1>1. TypeOK /\ FormOK
  BY DEF Init, TypeOK, FormOK
<1>2. JawabanOK /\ LatestOK
  BY DEF Init, JawabanOK, LatestOK, ToSet
<1>3. \A s \in Siswa : WritersOK(s)
  BY DEF Init, WritersOK, Writers, Requests
<1> QED
  BY <1>1, <1>2, <1>3 DEF IInv

LEMMA TypeStep == TypeOK /\ FormOK /\ Next => TypeOK' /\ FormOK'
<1> SUFFICES ASSUME TypeOK, FormOK, Next PROVE TypeOK' /\ FormOK'
  OBVIOUS
<1> USE DEF TypeOK, FormOK, tables, history, Goto
<1>1. ASSUME NEW s \in Siswa, Join(s) PROVE TypeOK' /\ FormOK'
  BY <1>1 DEF Join
<1>2. ASSUME NEW r \in Requests, NEW s \in Siswa, NEW q \in Soal, Check(r, s, q)
      PROVE  TypeOK' /\ FormOK'
  BY <1>2 DEF Check, Answer
<1>3. ASSUME NEW r \in Requests, NEW s \in Siswa, NEW q \in Soal, NEW b \in BOOLEAN,
             SimpanJawaban(r, s, q, b)
      PROVE  TypeOK' /\ FormOK'
  BY <1>3 DEF SimpanJawaban, Answer
<1>4. ASSUME NEW r \in Requests, NEW s \in Siswa, SelesaikanMateri(r, s)
      PROVE  TypeOK' /\ FormOK'
  BY <1>4 DEF SelesaikanMateri, ReadProgress
<1>5. ASSUME NEW r \in Requests, Evaluate(r) PROVE TypeOK' /\ FormOK'
  BY <1>5 DEF Evaluate, Answer
<1>6. ASSUME NEW r \in Requests, Store(r) PROVE TypeOK' /\ FormOK'
  BY <1>6, ClassroomAssumption DEF Store
<1>7. ASSUME NEW r \in Requests, Touch(r) PROVE TypeOK' /\ FormOK'
  BY <1>7 DEF Touch, ReadProgress, Answer
<1>8. ASSUME Link \/ DeleteJawaban \/ DeleteProgress \/ DeleteSiswa \/ DeleteLinks \/ Rollback
      PROVE  TypeOK' /\ FormOK'
  BY <1>8 DEF Link, DeleteJawaban, DeleteProgress, DeleteSiswa, DeleteLinks, Rollback
<1>9. ASSUME Commit PROVE TypeOK' /\ FormOK'
  BY <1>9 DEF Commit
<1>10. ASSUME Restart PROVE TypeOK' /\ FormOK'
  BY <1>10, ClassroomAssumption DEF Restart
<1>11. ASSUME NEW r \in Requests, SaveProgress(r) PROVE TypeOK' /\ FormOK'
  <2>1. form[r].siswa \in Siswa /\ copy[r] \in Row \cup {None}
    BY <1>11 DEF SaveProgress
  <2>2. ASSUME NEW id \in Requests PROVE [id |-> id, done |-> Finished(r)] \in Row
    BY <2>1 DEF Finished, Row, Requests
  <2>3. copy[r] # None => copy[r].id \in Requests
    BY <2>1 DEF Row
  <2>4. progress' \in [Siswa -> Row \cup {None}]
    BY <1>11, <2>1, <2>2, <2>3 DEF SaveProgress
  <2> QED
    BY <1>11, <2>4 DEF SaveProgress
<1> QED
  BY <1>1, <1>2, <1>3, <1>4, <1>5, <1>6, <1>7, <1>8, <1>9, <1>10, <1>11
     DEF Next, Step, Deletion

(* One more answer, of a request that had none: it is the latest of its    *)
(* question.                                                               *)
LEMMA OneMore ==
  ASSUME JawabanOK, LatestOK, kelas, kelas', TypeOK, NEW r \in Requests,
         jawaban' = Append(jawaban, r), stored' = stored \cup {r},
         at[r] \in {"new", "storing"}, at'[r] \in {"touch", "done"}, form'[r] \in Answer,
         \A q \in Requests \ {r} : at'[q] = at[q] /\ form'[q] = form[q]
  PROVE  JawabanOK' /\ LatestOK'
<1>1. jawaban \in Seq(Requests) /\ Len(jawaban) \in Nat
  BY DEF JawabanOK
<1>2. /\ jawaban' \in Seq(Requests) /\ Len(jawaban') = Len(jawaban) + 1
      /\ \A i \in 1 .. Len(jawaban) : jawaban'[i] = jawaban[i]
      /\ jawaban'[Len(jawaban) + 1] = r
  BY <1>1
<1>3. ASSUME NEW i \in 1 .. Len(jawaban)
      PROVE  /\ jawaban[i] \in Requests \ {r}
             /\ form'[jawaban[i]] = form[jawaban[i]] /\ at'[jawaban[i]] = at[jawaban[i]]
  BY <1>1 DEF JawabanOK
<1>4. stored' = ToSet(jawaban')
  <2>1. stored = {jawaban[i] : i \in 1 .. Len(jawaban)}
    BY <1>1 DEF JawabanOK, ToSet
  <2>2. ToSet(jawaban') = {jawaban'[i] : i \in 1 .. Len(jawaban) + 1}
    BY <1>2 DEF ToSet
  <2> QED
    BY <1>1, <1>2, <2>1, <2>2
<1>5. ASSUME NEW i \in 1 .. Len(jawaban')
      PROVE  form'[jawaban'[i]] \in Answer /\ at'[jawaban'[i]] \in {"touch", "save", "done"}
  <2>1. CASE i = Len(jawaban) + 1
    BY <1>2, <2>1
  <2>2. CASE i \in 1 .. Len(jawaban)
    BY <1>2, <1>3, <2>2 DEF JawabanOK
  <2> QED
    BY <1>1, <1>2, <2>1, <2>2
<1>6. ASSUME NEW i \in 1 .. Len(jawaban'), NEW j \in 1 .. Len(jawaban'),
             jawaban'[i] = jawaban'[j]
      PROVE  i = j
  <2>1. CASE i \in 1 .. Len(jawaban) /\ j \in 1 .. Len(jawaban)
    BY <1>2, <1>6, <2>1 DEF JawabanOK
  <2> QED
    BY <1>1, <1>2, <1>3, <1>6, <2>1
<1>7. JawabanOK'
  BY <1>2, <1>4, <1>5, <1>6 DEF JawabanOK, Answer
<1>8. ASSUME NEW i \in 1 .. Len(jawaban')
      PROVE  \E j \in 1 .. Len(jawaban') :
               /\ Alike(jawaban[i], jawaban[j])'
               /\ \A k \in j + 1 .. Len(jawaban') : ~Alike(jawaban[i], jawaban[k])'
  <2>0. PICK n \in Nat : n = Len(jawaban) + 1
    BY <1>1
  <2>1. Len(jawaban') = n /\ n \in 1 .. n /\ n + 1 .. n = {}
    BY <1>1, <1>2, <2>0
  <2>2. CASE Alike(jawaban[i], jawaban[n])'
    BY <2>1, <2>2
  <2>3. CASE ~Alike(jawaban[i], jawaban[n])'
    <3>1. i \in 1 .. Len(jawaban)
      BY <1>1, <2>0, <2>1, <2>3 DEF Alike
    <3>2. PICK j \in 1 .. Len(jawaban) :
            /\ Alike(jawaban[i], jawaban[j])
            /\ \A k \in j + 1 .. Len(jawaban) : ~Alike(jawaban[i], jawaban[k])
      BY <3>1 DEF LatestOK
    <3>3. Alike(jawaban[i], jawaban[j])'
      BY <1>2, <1>3, <3>1, <3>2 DEF Alike
    <3>4. ASSUME NEW k \in j + 1 .. n PROVE ~Alike(jawaban[i], jawaban[k])'
      <4>1. CASE k = n
        BY <2>3, <4>1
      <4>2. CASE k \in j + 1 .. Len(jawaban)
        BY <1>1, <1>2, <1>3, <3>1, <3>2, <4>2 DEF Alike
      <4> QED
        BY <1>1, <2>0, <4>1, <4>2
    <3> QED
      BY <1>1, <2>0, <2>1, <3>2, <3>3, <3>4
  <2> QED
    BY <2>2, <2>3
<1> QED
  BY <1>7, <1>8 DEF LatestOK

(* Answers stay as they are in every step that makes none.                 *)
LEMMA SameAnswers ==
  ASSUME JawabanOK, LatestOK, TypeOK, UNCHANGED <<kelas, jawaban, stored>>,
         kelas \/ UNCHANGED <<siswa, linked>>,
         \A q \in Requests : at[q] \in {"touch", "save", "done"} =>
           form'[q] = form[q] /\ at'[q] \in {"touch", "save", "done"}
  PROVE  JawabanOK' /\ LatestOK'
<1>1. kelas => \A i \in 1 .. Len(jawaban) :
        /\ jawaban[i] \in Requests
        /\ form'[jawaban[i]] = form[jawaban[i]] /\ at'[jawaban[i]] \in {"touch", "save", "done"}
  BY DEF JawabanOK
<1>2. JawabanOK'
  BY <1>1 DEF JawabanOK, Answer
<1>3. LatestOK'
  <2> SUFFICES ASSUME kelas, NEW i \in 1 .. Len(jawaban)
               PROVE  \E j \in 1 .. Len(jawaban) :
                        /\ Alike(jawaban[i], jawaban[j])'
                        /\ \A k \in j + 1 .. Len(jawaban) : ~Alike(jawaban[i], jawaban[k])'
    BY DEF LatestOK
  <2>1. PICK j \in 1 .. Len(jawaban) :
          /\ Alike(jawaban[i], jawaban[j])
          /\ \A k \in j + 1 .. Len(jawaban) : ~Alike(jawaban[i], jawaban[k])
    BY DEF LatestOK
  <2>2. \A k \in j + 1 .. Len(jawaban) : k \in 1 .. Len(jawaban)
    BY DEF JawabanOK
  <2>3. ASSUME NEW k \in 1 .. Len(jawaban)
        PROVE  Alike(jawaban[i], jawaban[k])' <=> Alike(jawaban[i], jawaban[k])
    BY <1>1 DEF Alike
  <2> QED
    BY <2>1, <2>2, <2>3
<1> QED
  BY <1>2, <1>3

LEMMA AnswersStep == IInv /\ Next => JawabanOK' /\ LatestOK'
<1> SUFFICES ASSUME IInv, Next PROVE JawabanOK' /\ LatestOK'
  OBVIOUS
<1> USE DEF IInv, tables, history, Goto
<1>1. ASSUME NEW r \in Requests, NEW s \in Siswa, NEW q \in Soal, Check(r, s, q)
      PROVE  JawabanOK' /\ LatestOK'
  <2>1. /\ UNCHANGED <<kelas, jawaban, stored, siswa, linked>>
        /\ \A p \in Requests : at[p] \in {"touch", "save", "done"} =>
             form'[p] = form[p] /\ at'[p] \in {"touch", "save", "done"}
    BY <1>1 DEF Check, TypeOK
  <2> QED
    BY <2>1, SameAnswers
<1>2. ASSUME NEW r \in Requests, NEW s \in Siswa, NEW q \in Soal, NEW b \in BOOLEAN,
             SimpanJawaban(r, s, q, b)
      PROVE  JawabanOK' /\ LatestOK'
  <2>1. /\ UNCHANGED <<kelas, siswa, linked>> /\ at[r] = "new" /\ at'[r] = "touch"
        /\ form'[r] = [siswa |-> s, soal |-> q, benar |-> b]
        /\ \A p \in Requests \ {r} : at'[p] = at[p] /\ form'[p] = form[p]
    BY <1>2 DEF SimpanJawaban, TypeOK
  <2>2. form'[r] \in Answer
    BY <2>1 DEF Answer
  <2>3. CASE UNCHANGED <<jawaban, stored>>
    BY <2>1, <2>3, SameAnswers
  <2>4. CASE jawaban' = Append(jawaban, r) /\ stored' = stored \cup {r}
    <3>1. CASE kelas
      BY <2>1, <2>2, <2>4, <3>1, OneMore
    <3>2. CASE ~kelas
      BY <2>1, <3>2 DEF JawabanOK, LatestOK
    <3> QED
      BY <3>1, <3>2
  <2> QED
    BY <1>2, <2>3, <2>4 DEF SimpanJawaban
<1>3. ASSUME NEW r \in Requests, Store(r) PROVE JawabanOK' /\ LatestOK'
  <2>1. /\ UNCHANGED <<kelas, siswa, linked>> /\ at[r] = "storing" /\ at'[r] = "done"
        /\ form' = form /\ form'[r] \in Answer
        /\ \A p \in Requests \ {r} : at'[p] = at[p] /\ form'[p] = form[p]
    BY <1>3 DEF Store, TypeOK, FormOK
  <2>2. CASE UNCHANGED <<jawaban, stored>>
    BY <2>1, <2>2, SameAnswers
  <2>3. CASE jawaban' = Append(jawaban, r) /\ stored' = stored \cup {r}
    <3>1. CASE kelas
      BY <2>1, <2>3, <3>1, OneMore
    <3>2. CASE ~kelas
      BY <2>1, <3>2 DEF JawabanOK, LatestOK
    <3> QED
      BY <3>1, <3>2
  <2> QED
    BY <1>3, <2>2, <2>3 DEF Store
<1>4. ASSUME NEW r \in Requests,
             \/ Evaluate(r) \/ Touch(r) \/ SaveProgress(r)
             \/ \E s \in Siswa : SelesaikanMateri(r, s)
      PROVE  JawabanOK' /\ LatestOK'
  <2>1. UNCHANGED <<kelas, jawaban, stored, siswa, linked>>
    BY <1>4 DEF Evaluate, Touch, SaveProgress, SelesaikanMateri, ReadProgress
  <2>2. \A p \in Requests : at[p] \in {"touch", "save", "done"} =>
          form'[p] = form[p] /\ at'[p] \in {"touch", "save", "done"}
    BY <1>4 DEF TypeOK, Evaluate, Touch, SaveProgress, SelesaikanMateri, ReadProgress
  <2> QED
    BY <2>1, <2>2, SameAnswers
<1>5. ASSUME \/ Link \/ DeleteJawaban \/ DeleteProgress \/ DeleteSiswa \/ DeleteLinks
             \/ Rollback \/ \E s \in Siswa : Join(s)
      PROVE  JawabanOK' /\ LatestOK'
  <2>1. /\ UNCHANGED <<kelas, jawaban, stored, form, at>>
        /\ kelas \/ UNCHANGED <<siswa, linked>>
    BY <1>5 DEF Link, DeleteJawaban, DeleteProgress, DeleteSiswa, DeleteLinks, Rollback, Join
  <2> QED
    BY <2>1, SameAnswers
<1>6. ASSUME Commit PROVE JawabanOK' /\ LatestOK'
  BY <1>6 DEF Commit, JawabanOK, LatestOK
<1>7. ASSUME Restart PROVE JawabanOK' /\ LatestOK'
  <2>1. /\ UNCHANGED <<kelas, jawaban, stored, siswa, linked, form>>
        /\ \A p \in Requests : at[p] \in {"touch", "save", "done"} => at'[p] = "done"
    BY <1>7 DEF Restart, TypeOK
  <2> QED
    BY <2>1, SameAnswers
<1> QED
  BY <1>1, <1>2, <1>3, <1>4, <1>5, <1>6, <1>7 DEF Next, Step, Deletion

(* A step that neither starts nor ends a writer of s.                      *)
LEMMA SameWriters ==
  ASSUME TypeOK, NEW s \in Siswa, WritersOK(s), progress'[s] = progress[s],
         \A q \in Requests : at[q] = "done" => at'[q] = "done",
         \A q \in Requests : at'[q] = "save" /\ form'[q].siswa = s =>
           at[q] = "save" /\ form[q].siswa = s /\ copy'[q] = copy[q],
         \A q \in Readers : at'[q] = "done" /\ form'[q].siswa = s =>
           at[q] = "done" /\ form[q].siswa = s
  PROVE  WritersOK(s)'
<1>1. progress[s] # None => progress[s].id \in Requests
  BY DEF TypeOK, Row
<1>2. \A w \in Writers(s)' : w \in Writers(s) /\ copy'[w] = copy[w]
  BY DEF Writers
<1> QED
  BY <1>1, <1>2 DEF WritersOK

(* The row is read, by the only writer that is not counted as racing.      *)
LEMMA WriterStarts ==
  ASSUME TypeOK, NEW r \in Requests, NEW t \in Siswa, NEW s \in Siswa, WritersOK(s), s \notin raced',
         ReadProgress(r, t), at[r] \in {"new", "touch"}, form'[r].siswa = t, progress' = progress,
         \A q \in Requests \ {r} : form'[q] = form[q]
  PROVE  WritersOK(s)'
<1>1. at'[r] = "save" /\ \A q \in Requests \ {r} : at'[q] = at[q] /\ copy'[q] = copy[q]
  BY DEF ReadProgress, Goto, TypeOK
<1>2. Readers \subseteq Requests
  BY DEF Requests
<1>3. CASE s # t
  <2>1. \A q \in Requests : at'[q] = "save" /\ form'[q].siswa = s =>
          at[q] = "save" /\ form[q].siswa = s /\ copy'[q] = copy[q]
    BY <1>1, <1>3
  <2>2. \A q \in Readers : at'[q] = "done" /\ form'[q].siswa = s =>
          at[q] = "done" /\ form[q].siswa = s
    BY <1>1, <1>2
  <2>3. \A q \in Requests : at[q] = "done" => at'[q] = "done"
    BY <1>1
  <2> QED
    BY <2>1, <2>2, <2>3, SameWriters
<1>4. CASE s = t
  <2>1. Writers(s) = {}
    BY <1>4 DEF ReadProgress
  <2>2. Writers(s)' \subseteq {r}
    BY <1>1, <2>1 DEF Writers
  <2>3. copy'[r] \in {progress[s], None}
    BY <1>4 DEF ReadProgress, TypeOK
  <2>4. progress[s] # None => progress[s].id \in Requests
    BY DEF TypeOK, Row
  <2> QED
    BY <1>1, <1>2, <2>2, <2>3, <2>4 DEF WritersOK
<1> QED
  BY <1>3, <1>4

(* The only writer of s writes.                                            *)
LEMMA WriterEnds ==
  ASSUME TypeOK, FormOK, NEW r \in Requests, SaveProgress(r), WritersOK(form[r].siswa),
         form[r].siswa \notin raced'
  PROVE  WritersOK(form[r].siswa)'
<1>0. PICK s : s = form[r].siswa
  OBVIOUS
<1>1. /\ s \in Siswa /\ at[r] = "save" /\ r \in Writers(s) /\ at'[r] = "done"
      /\ copy[r] \in {None, progress[s]} /\ copy[r] \in Row \cup {None}
      /\ \A q \in Requests \ {r} : at'[q] = at[q] /\ copy'[q] = copy[q]
      /\ form' = form /\ r \in Voices \cup Readers
  BY <1>0 DEF SaveProgress, Goto, TypeOK, FormOK, WritersOK, Writers
<1>2. Writers(s)' = {}
  BY <1>0, <1>1 DEF WritersOK, Writers
<1>3. progress[s] # None => progress[s] \in Row /\ progress[s].id # r
  BY <1>0, <1>1 DEF TypeOK, WritersOK
<1>4. \A q \in Readers : at'[q] = "done" /\ form'[q].siswa = s /\ q # r =>
        progress[s] # None /\ q \in progress[s].done
  BY <1>0, <1>1 DEF WritersOK, Requests
<1>5. CASE UNCHANGED progress /\ r \in Voices
  <2>1. r \notin Readers
    BY <1>5, ClassroomAssumption
  <2>2. progress[s] # None => at'[progress[s].id] = "done"
    BY <1>0, <1>1, <1>3 DEF WritersOK, Row
  <2> QED
    BY <1>0, <1>1, <1>2, <1>4, <1>5, <2>1, <2>2 DEF WritersOK
<1>6. CASE ~(UNCHANGED progress /\ r \in Voices)
  <2> DEFINE id == IF copy[r] = None THEN r ELSE copy[r].id
  <2>1. /\ ~(progress[s] # None /\ progress[s].id # id)
        /\ progress' = [progress EXCEPT ![s] = [id |-> id, done |-> Finished(r)]]
    BY <1>0, <1>1, <1>6 DEF SaveProgress
  <2>2. progress[s] # None => copy[r] = progress[s]
    BY <1>1, <1>3, <2>1
  <2>3. /\ id \in Requests /\ at'[id] = "done"
        /\ progress[s] # None => progress[s].done \subseteq Finished(r)
        /\ r \in Readers => r \in Finished(r)
    BY <1>0, <1>1, <1>3, <2>2 DEF WritersOK, Row, Finished
  <2>4. [id |-> id, done |-> Finished(r)] \in Row
    BY <1>1, <2>3 DEF Row, Finished
  <2>5. progress'[s] = [id |-> id, done |-> Finished(r)] /\ progress'[s] # None
    BY <1>1, <2>1, <2>4, RowIsSome DEF TypeOK
  <2> HIDE DEF id
  <2>6. \A q \in Readers : at'[q] = "done" /\ form'[q].siswa = s => q \in Finished(r)
    BY <1>4, <2>3
  <2> QED
    BY <1>0, <1>1, <1>2, <2>3, <2>5, <2>6 DEF WritersOK
<1> QED
  BY <1>5, <1>6

LEMMA WritersStep ==
  ASSUME IInv, Next, kelas', NEW s \in Siswa, s \notin raced'
  PROVE  WritersOK(s)'
<1> USE DEF tables, history, Goto
<1>1. kelas /\ raced \subseteq raced'
  BY DEF Next, Join, Check, SimpanJawaban, SelesaikanMateri, ReadProgress, Link, Step, Evaluate,
     Store, Touch, SaveProgress, DeleteJawaban, Deletion, DeleteProgress, DeleteSiswa,
     DeleteLinks, Commit, Rollback, Restart
<1>2. TypeOK /\ FormOK /\ WritersOK(s)
  BY <1>1 DEF IInv
<1>3. Readers \cap (Submits \cup Voices) = {} /\ Readers \subseteq Requests
  BY ClassroomAssumption DEF Requests
<1>4. ASSUME UNCHANGED <<progress, at, form, copy>> PROVE WritersOK(s)'
  <2>1. \A q \in Requests : at[q] = "done" => at'[q] = "done"
    BY <1>4
  <2> QED
    BY <1>2, <1>4, <2>1, SameWriters
<1>5. ASSUME NEW r \in Requests \ Readers, UNCHANGED <<progress, copy>>,
             at[r] # "done", at'[r] # "save",
             \A q \in Requests \ {r} : at'[q] = at[q] /\ form'[q] = form[q]
      PROVE  WritersOK(s)'
  <2>1. \A q \in Requests : at[q] = "done" => at'[q] = "done"
    BY <1>5
  <2>2. \A q \in Requests : at'[q] = "save" /\ form'[q].siswa = s =>
          at[q] = "save" /\ form[q].siswa = s /\ copy'[q] = copy[q]
    BY <1>5
  <2>3. \A q \in Readers : at'[q] = "done" /\ form'[q].siswa = s =>
          at[q] = "done" /\ form[q].siswa = s
    BY <1>3, <1>5
  <2> QED
    BY <1>2, <1>5, <2>1, <2>2, <2>3, SameWriters
<1>6. ASSUME NEW r \in Requests,
             \/ Evaluate(r) \/ Store(r)
             \/ \E t \in Siswa, q \in Soal :
                  Check(r, t, q) \/ \E b \in BOOLEAN : SimpanJawaban(r, t, q, b)
      PROVE  WritersOK(s)'
  <2>1. r \in Submits \cup Voices
    BY <1>2, <1>6 DEF FormOK, Evaluate, Store, Check, SimpanJawaban
  <2>2. /\ UNCHANGED <<progress, copy>> /\ at[r] # "done" /\ at'[r] # "save"
        /\ \A q \in Requests \ {r} : at'[q] = at[q] /\ form'[q] = form[q]
    BY <1>2, <1>6 DEF TypeOK, Evaluate, Store, Check, SimpanJawaban
  <2> QED
    BY <1>3, <1>5, <2>1, <2>2
<1>7. ASSUME NEW r \in Requests, Touch(r) PROVE WritersOK(s)'
  <2>1. /\ form[r].siswa \in Siswa /\ form' = form /\ progress' = progress
        /\ at[r] = "touch" /\ ReadProgress(r, form[r].siswa)
    BY <1>2, <1>7 DEF Touch, FormOK, Answer
  <2> QED
    BY <1>2, <2>1, WriterStarts
<1>8. ASSUME NEW r \in Requests, NEW t \in Siswa, SelesaikanMateri(r, t) PROVE WritersOK(s)'
  <2>1. /\ form'[r].siswa = t /\ progress' = progress /\ at[r] = "new" /\ ReadProgress(r, t)
        /\ \A q \in Requests \ {r} : form'[q] = form[q]
    BY <1>2, <1>8 DEF SelesaikanMateri, TypeOK
  <2> QED
    BY <1>2, <2>1, WriterStarts
<1>9. ASSUME NEW r \in Requests, SaveProgress(r) PROVE WritersOK(s)'
  <2>1. CASE s = form[r].siswa
    <3>1. WritersOK(form[r].siswa) /\ form[r].siswa \notin raced'
      BY <1>2, <2>1
    <3>2. WritersOK(form[r].siswa)'
      BY <1>2, <1>9, <3>1, WriterEnds
    <3> QED
      BY <1>9, <2>1, <3>2 DEF SaveProgress
  <2>2. CASE s # form[r].siswa
    <3>1. /\ progress'[s] = progress[s] /\ form' = form /\ at[r] = "save" /\ at'[r] = "done"
          /\ \A q \in Requests \ {r} : at'[q] = at[q] /\ copy'[q] = copy[q]
      BY <1>2, <1>9, <2>2 DEF SaveProgress, TypeOK
    <3>2. \A q \in Requests : at[q] = "done" => at'[q] = "done"
      BY <3>1
    <3>3. \A q \in Requests : at'[q] = "save" /\ form'[q].siswa = s =>
            at[q] = "save" /\ form[q].siswa = s /\ copy'[q] = copy[q]
      BY <3>1
    <3>4. \A q \in Readers : at'[q] = "done" /\ form'[q].siswa = s =>
            at[q] = "done" /\ form[q].siswa = s
      BY <1>3, <2>2, <3>1
    <3> QED
      BY <1>2, <3>1, <3>2, <3>3, <3>4, SameWriters
  <2> QED
    BY <2>1, <2>2
<1>10. ASSUME Restart PROVE WritersOK(s)'
  <2>1. /\ UNCHANGED <<progress, form>>
        /\ \A q \in Requests : at'[q] = IF at[q] = "new" THEN "new" ELSE "done"
        /\ \A q \in Requests : at[q] = "save" => form[q].siswa # s
    BY <1>10 DEF Restart
  <2>2. \A q \in Readers : at[q] \in {"new", "save", "done"}
    BY <1>2, <1>3 DEF TypeOK, FormOK
  <2>3. \A q \in Readers : at'[q] = "done" /\ form'[q].siswa = s =>
          at[q] = "done" /\ form[q].siswa = s
    BY <1>3, <2>1, <2>2
  <2> QED
    BY <1>2, <2>1, <2>3, SameWriters
<1>11. ASSUME \/ Link \/ DeleteJawaban \/ DeleteProgress \/ DeleteSiswa \/ DeleteLinks
              \/ Rollback \/ \E t \in Siswa : Join(t)
       PROVE  WritersOK(s)'
  BY <1>4, <1>11
     DEF Link, DeleteJawaban, DeleteProgress, DeleteSiswa, DeleteLinks, Rollback, Join
<1>12. ~Commit
  BY DEF Commit
<1> QED
  BY <1>6, <1>7, <1>8, <1>9, <1>10, <1>11, <1>12 DEF Next, Step, Deletion

LEMMA Stutter == IInv /\ UNCHANGED vars => IInv'
<1> SUFFICES ASSUME IInv, UNCHANGED vars PROVE IInv'
  OBVIOUS
<1>1. UNCHANGED <<kelas, siswa, linked, jawaban, progress, at, form, copy, stored, raced>>
  BY DEF vars, tables, history
<1>2. TypeOK /\ FormOK /\ JawabanOK /\ LatestOK
  BY DEF IInv
<1>3. TypeOK' /\ FormOK'
  BY <1>1, <1>2 DEF TypeOK, FormOK, Answer, Row
<1>4. JawabanOK' /\ LatestOK'
  BY <1>1, <1>2, SameAnswers DEF JawabanOK
<1>5. ASSUME kelas', NEW s \in Siswa \ raced' PROVE WritersOK(s)'
  <2>1. WritersOK(s)
    BY <1>1, <1>5 DEF IInv
  <2>2. \A q \in Requests : at[q] = "done" => at'[q] = "done"
    BY <1>1
  <2> QED
    BY <1>1, <1>2, <2>1, <2>2, SameWriters
<1> QED
  BY <1>3, <1>4, <1>5 DEF IInv

-----------------------------------------------------------------------------
(* Theorems.                                                               *)

(* The inductive invariant: what requests carry, that answers are as they  *)
(* were stored, and that a siswa's one writer has read the row there is.   *)
THEOREM Invariance == Spec => []IInv
<1>1. ASSUME IInv, Next PROVE IInv'
  <2>1. TypeOK' /\ FormOK' /\ JawabanOK' /\ LatestOK'
    BY <1>1, TypeStep, AnswersStep DEF IInv
  <2>2. kelas' => \A s \in Siswa \ raced' : WritersOK(s)'
    BY <1>1, WritersStep
  <2> QED
    BY <2>1, <2>2 DEF IInv
<1>2. IInv /\ [Next]_vars => IInv'
  BY <1>1, Stutter
<1> QED
  BY <1>2, InitIInv, PTL DEF Spec

(* While the kelas is there no answer of its siswa is missing, whichever   *)
(* statements of a deletion have run; with it goes all that refers to it.  *)
THEOREM CascadeSafe == Spec => []CascadeIsAtomic
<1>1. IInv => CascadeIsAtomic
  BY DEF IInv, TypeOK, JawabanOK, CascadeIsAtomic
<1> QED
  BY <1>1, Invariance, PTL

(* A materi read to its end stays so, with the exceptions in raced.        *)
THEOREM UnreadSafe == Spec => []NothingUnread
<1>1. IInv => NothingUnread
  <2> SUFFICES ASSUME IInv, kelas, NEW r \in Readers, at[r] = "done", form[r] # None,
                      form[r].siswa \notin raced
               PROVE  progress[form[r].siswa] # None /\ r \in progress[form[r].siswa].done
    BY DEF NothingUnread
  <2>1. form[r].siswa \in Siswa
    BY DEF IInv, FormOK, Requests
  <2> QED
    BY <2>1 DEF IInv, WritersOK
<1> QED
  BY <1>1, Invariance, PTL

(* The answers of a siswa, the latest ones, and the questions they are to. *)
LEMMA Counted ==
  ASSUME IInv, kelas, NEW s \in siswa
  PROVE  /\ IsFiniteSet({r \in ToSet(jawaban) : form[r].siswa = s})
         /\ Latest(s) \subseteq {r \in ToSet(jawaban) : form[r].siswa = s}
         /\ \A r \in Latest(s) :
              form[r].soal \in {q \in Soal : Answered(s, q) # {}}
         /\ \A r, p \in Latest(s) : form[r].soal = form[p].soal => r = p
         /\ \A q \in Soal : Answered(s, q) # {} => \E r \in Latest(s) : form[r].soal = q
<1>1. /\ jawaban \in Seq(Requests) /\ Len(jawaban) \in Nat /\ DOMAIN jawaban = 1 .. Len(jawaban)
      /\ \A i \in 1 .. Len(jawaban) : form[jawaban[i]] \in Answer
  BY DEF IInv, JawabanOK
<1>2. ToSet(jawaban) = {jawaban[i] : i \in 1 .. Len(jawaban)}
  BY <1>1 DEF ToSet
<1>3. IsFiniteSet({r \in ToSet(jawaban) : form[r].siswa = s})
  <2>1. IsFiniteSet(1 .. Len(jawaban))
    BY <1>1, FS_Interval
  <2> DEFINE f == [i \in 1 .. Len(jawaban) |-> jawaban[i]]
  <2>2. f \in Surjection(1 .. Len(jawaban), ToSet(jawaban))
    BY <1>2 DEF Surjection
  <2>3. IsFiniteSet(ToSet(jawaban))
    BY <2>1, <2>2, FS_Surjection
  <2>4. {r \in ToSet(jawaban) : form[r].siswa = s} \in SUBSET ToSet(jawaban)
    OBVIOUS
  <2> QED
    BY <2>3, <2>4, FS_Subset
<1>4. ASSUME NEW r \in Latest(s)
      PROVE  \E i \in 1 .. Len(jawaban) :
               /\ jawaban[i] = r /\ form[r].siswa = s
               /\ \A k \in 1 .. Len(jawaban) : k > i => jawaban[k] \notin Answered(s, form[r].soal)
  BY <1>1 DEF Latest
<1>5. ASSUME NEW r \in Latest(s)
      PROVE  /\ r \in ToSet(jawaban) /\ form[r].siswa = s /\ form[r].soal \in Soal
             /\ Answered(s, form[r].soal) # {}
  <2>1. r \in ToSet(jawaban) /\ form[r].siswa = s /\ form[r] \in Answer
    BY <1>1, <1>2, <1>4
  <2> QED
    BY <2>1 DEF Answer, Answered
<1>6. ASSUME NEW r \in Latest(s), NEW p \in Latest(s), form[r].soal = form[p].soal
      PROVE  r = p
  <2>1. PICK i \in 1 .. Len(jawaban) :
          /\ jawaban[i] = r
          /\ \A k \in 1 .. Len(jawaban) : k > i => jawaban[k] \notin Answered(s, form[r].soal)
    BY <1>4
  <2>2. PICK j \in 1 .. Len(jawaban) :
          /\ jawaban[j] = p
          /\ \A k \in 1 .. Len(jawaban) : k > j => jawaban[k] \notin Answered(s, form[r].soal)
    BY <1>4, <1>6
  <2>3. r \in Answered(s, form[r].soal) /\ p \in Answered(s, form[r].soal)
    BY <1>5, <1>6 DEF Answered
  <2>4. ~(i < j) /\ ~(j < i)
    BY <2>1, <2>2, <2>3
  <2> QED
    BY <1>1, <2>1, <2>2, <2>4
<1>7. ASSUME NEW q \in Soal, Answered(s, q) # {}
      PROVE  \E r \in Latest(s) : form[r].soal = q
  <2>1. PICK i \in 1 .. Len(jawaban) : form[jawaban[i]].siswa = s /\ form[jawaban[i]].soal = q
    BY <1>2, <1>7 DEF Answered
  <2>2. PICK j \in 1 .. Len(jawaban) :
          /\ Alike(jawaban[i], jawaban[j])
          /\ \A k \in j + 1 .. Len(jawaban) : ~Alike(jawaban[i], jawaban[k])
    BY DEF IInv, LatestOK
  <2>3. form[jawaban[j]].siswa = s /\ form[jawaban[j]].soal = q
    BY <2>1, <2>2 DEF Alike
  <2>4. ASSUME NEW k \in 1 .. Len(jawaban), k > j
        PROVE  jawaban[k] \notin Answered(s, q)
    <3>1. k \in j + 1 .. Len(jawaban)
      BY <1>1, <2>4
    <3> QED
      BY <2>1, <2>2, <3>1 DEF Alike, Answered
  <2>5. jawaban[j] \in Latest(s)
    BY <1>1, <2>3, <2>4 DEF Latest
  <2> QED
    BY <2>3, <2>5
<1> QED
  BY <1>3, <1>5, <1>6, <1>7

(* GetRekapNilai counts each answered question once, the right ones among  *)
(* them, and GetProgressKelas at least as many rows.                       *)
THEOREM RekapSafe == Spec => []RekapInBounds
<1>1. ASSUME IInv PROVE RekapInBounds
  <2> SUFFICES ASSUME NEW s \in siswa
               PROVE  /\ Dijawab(s) = Cardinality({q \in Soal : Answered(s, q) # {}})
                      /\ Benar(s) <= Dijawab(s) /\ Dijawab(s) <= Dikerjakan(s)
    BY DEF RekapInBounds
  <2>1. kelas
    BY <1>1 DEF IInv, JawabanOK
  <2> DEFINE all  == {r \in ToSet(jawaban) : form[r].siswa = s}
             asked == {q \in Soal : Answered(s, q) # {}}
             f == [r \in Latest(s) |-> form[r].soal]
  <2>2. /\ IsFiniteSet(all) /\ Latest(s) \in SUBSET all
        /\ f \in Surjection(Latest(s), asked)
        /\ f \in Injection(Latest(s), asked)
    <3>1. f \in [Latest(s) -> asked]
      BY <1>1, <2>1, Counted
    <3>2. \A q \in asked : \E r \in Latest(s) : f[r] = q
      <4> SUFFICES ASSUME NEW q \in asked PROVE \E r \in Latest(s) : form[r].soal = q
        OBVIOUS
      <4> QED
        BY <1>1, <2>1, Counted
    <3>3. \A r, p \in Latest(s) : f[r] = f[p] => r = p
      BY <1>1, <2>1, Counted
    <3> QED
      BY <1>1, <2>1, <3>1, <3>2, <3>3, Counted DEF Surjection, Injection, IsInjective
  <2> HIDE DEF all, asked, f
  <2>3. IsFiniteSet(Latest(s)) /\ Cardinality(Latest(s)) <= Cardinality(all)
    BY <2>2, FS_Subset
  <2>4. Cardinality(asked) = Cardinality(Latest(s))
    BY <2>2, <2>3, FS_Surjection
  <2>5. Benar(s) <= Cardinality(Latest(s))
    <3>1. {r \in Latest(s) : form[r].benar} \in SUBSET Latest(s)
      OBVIOUS
    <3> QED
      BY <2>3, <3>1, FS_Subset DEF Benar
  <2> QED
    BY <2>3, <2>4, <2>5 DEF Dijawab, Dikerjakan, all, asked
<1> QED
  BY <1>1, Invariance, PTL
=============================================================================
