-------------------------- MODULE CurriculumProofs --------------------------
(***************************************************************************)
(* What holds of Curriculum for any number of guru, rows and requests.     *)
(* The links and the foreign keys are not inductive by themselves: a       *)
(* request writes what it read long ago, so the invariant says of each     *)
(* request under way that what it has read is still of its guru (owners    *)
(* and modul of a row never change) and, if it is gone, went meanwhile; the *)
(* same of the links it has read.                                          *)
(***************************************************************************)
EXTENDS Curriculum, TLAPS

(* What a request holds: its kelas is its guru's, and so is its modul once *)
(* that has been checked.                                                  *)
OwnOK(r) ==
  /\ req[r].kelas # None => guru[req[r].kelas] = req[r].guru
  /\ req[r].at = "write" /\ req[r].op # "remove" /\ req[r].modul # None
       => guru[req[r].modul] = req[r].guru
  /\ req[r].op = "assign" => req[r].modul # None
  /\ req[r].kelas = None => req[r].modul # None /\ req[r].op \notin {"assign", "remove"}

(* The rows preloaded: with a kelas modul of the guru, with a modul materi *)
(* and soal of that modul.                                                 *)
SeenOK(r) ==
  /\ req[r].kelas # None =>
       req[r].isi = None /\ \A x \in req[r].seen : x \in Modul /\ guru[x] = req[r].guru
  /\ req[r].kelas = None =>
       \A x \in req[r].seen \cup {req[r].isi} : x # None => x \in Isi /\ modulOf[x] = req[r].modul

(* What it has read and is gone went while the request was under way.      *)
LateOK(r) ==
  \A x \in Kelas \cup Modul \cup Isi :
    (\/ x \in req[r].seen \/ x = req[r].kelas \/ x = req[r].isi
     \/ x = req[r].modul /\ req[r].at = "write" /\ req[r].op # "remove")
      => x \in rows \/ x \in req[r].late

(* A modul seen on its kelas is on it still, or was taken off meanwhile.    *)
LinksOK(r) ==
  req[r].kelas # None => {req[r].kelas} \X req[r].seen \subseteq links \cup req[r].late

RequestsOK == \A r \in Requests : req[r] # None => OwnOK(r) /\ SeenOK(r) /\ LateOK(r) /\ LinksOK(r)

IInv == ReferencesHold /\ LinksWithinOneGuru /\ RequestsOK

-----------------------------------------------------------------------------
Ids == Kelas \cup Modul \cup Isi
Pairs == Kelas \X Modul

(* Ids once given keep their guru and modul.                               *)
OwnersKept ==
  /\ \A x \in Kelas \cup Modul : guru[x] # None => guru'[x] = guru[x]
  /\ \A i \in Isi : modulOf[i] # None => modulOf'[i] = modulOf[i]

(* A request that stays under way is late for the rows gone, and has not   *)
(* changed otherwise.                                                      *)
Waits(q, gone) ==
  req'[q] # None =>
    /\ req[q] # None
    /\ req'[q] = [req[q] EXCEPT !.late = @ \cup (gone \cap Holds(q))]

LEMMA EndingWaits ==
  ASSUME req \in [Requests -> Request \cup {None}],
         NEW r \in Requests, NEW gone \in SUBSET (Ids \cup Pairs), End(r, gone)
  PROVE  /\ req' \in [Requests -> Request \cup {None}]
         /\ \A q \in Requests : Waits(q, gone)
<1>1. ASSUME NEW q \in Requests, req'[q] # None
      PROVE  req[q] # None /\ req'[q] = [req[q] EXCEPT !.late = @ \cup (gone \cap Holds(q))]
  BY <1>1 DEF End
<1>2. ASSUME NEW q \in Requests
      PROVE  (IF q = r \/ req[q] = None THEN None ELSE [req[q] EXCEPT !.late = @ \cup (gone \cap Holds(q))])
               \in Request \cup {None}
  <2>1. CASE q = r \/ req[q] = None
    BY <2>1
  <2>2. CASE ~(q = r \/ req[q] = None)
    <3>1. req[q] \in Request
      BY <2>2
    <3>2. [req[q] EXCEPT !.late = @ \cup (gone \cap Holds(q))] \in Request
        BY <3>1 DEF Request, Ids, Pairs
    <3> QED
      BY <2>2, <3>2
  <2> QED
    BY <2>1, <2>2
<1>3. req' \in [Requests -> Request \cup {None}]
  BY <1>2 DEF End
<1> QED
  BY <1>1, <1>3 DEF Waits

(* Requests that only wait stay in order: what they hold keeps its owner,  *)
(* and they are late for all that goes.                                    *)
LEMMA WaitingKeepsOK ==
  ASSUME ReferencesHold, OwnersKept, NEW gone, rows \subseteq rows' \cup gone,
         links \subseteq links' \cup gone,
         NEW q \in Requests, Waits(q, gone), req'[q] # None,
         OwnOK(q) /\ SeenOK(q) /\ LateOK(q) /\ LinksOK(q)
  PROVE  (OwnOK(q) /\ SeenOK(q) /\ LateOK(q) /\ LinksOK(q))'
<1> USE CurriculumAssumption
<1>1. req[q] # None /\ req'[q] = [req[q] EXCEPT !.late = @ \cup (gone \cap Holds(q))]
  BY DEF Waits
<1>2. req[q] \in Request
  BY <1>1 DEF ReferencesHold
<1>3. /\ req'[q].op = req[q].op /\ req'[q].guru = req[q].guru /\ req'[q].kelas = req[q].kelas
      /\ req'[q].modul = req[q].modul /\ req'[q].isi = req[q].isi /\ req'[q].seen = req[q].seen
      /\ req'[q].at = req[q].at /\ req'[q].late = req[q].late \cup (gone \cap Holds(q))
  BY <1>1, <1>2 DEF Request
<1>4. /\ req[q].guru \in Guru /\ req[q].kelas \in Kelas \cup {None}
      /\ req[q].modul \in Modul \cup {None} /\ req[q].isi \in Isi \cup {None}
      /\ req[q].guru # None
  BY <1>2 DEF Request
<1>5. OwnOK(q)'
  BY <1>3, <1>4 DEF OwnOK, OwnersKept
<1>6. SeenOK(q)'
  <2>1. CASE req[q].kelas # None
    BY <2>1, <1>3, <1>4 DEF SeenOK, OwnersKept
  <2>2. CASE req[q].kelas = None
    BY <2>2, <1>3, <1>4 DEF SeenOK, OwnOK, OwnersKept
  <2> QED
    BY <2>1, <2>2
<1>7. LateOK(q)'
  BY <1>3 DEF LateOK, Holds
<1>8. LinksOK(q)'
  BY <1>3 DEF LinksOK, Holds
<1> QED
  BY <1>5, <1>6, <1>7, <1>8

LEMMA AllWait ==
  ASSUME ReferencesHold, RequestsOK, OwnersKept, NEW gone, rows \subseteq rows' \cup gone,
         links \subseteq links' \cup gone,
         \A q \in Requests : Waits(q, gone)
  PROVE  RequestsOK'
<1> SUFFICES ASSUME NEW q \in Requests, req'[q] # None
             PROVE  (OwnOK(q) /\ SeenOK(q) /\ LateOK(q) /\ LinksOK(q))'
  BY DEF RequestsOK
<1>1. req[q] # None
  BY DEF Waits
<1>2. OwnOK(q) /\ SeenOK(q) /\ LateOK(q) /\ LinksOK(q)
  BY <1>1 DEF RequestsOK
<1> QED
  BY <1>2, WaitingKeepsOK

(* What the invariant says of a request about to write.                    *)
LEMMA AboutToWrite ==
  ASSUME IInv, NEW r \in Requests, NEW op, NEW table, Writes(r, op, table)
  PROVE  /\ req[r] \in Request
         /\ req[r].op = op /\ req[r].guru \in Guru /\ req[r].guru # None
         /\ table = "kelas" => /\ req[r].kelas \in Kelas /\ req[r].isi = None
                               /\ guru[req[r].kelas] = req[r].guru
                               /\ \A x \in req[r].seen : x \in Modul /\ guru[x] = req[r].guru
                               /\ op = "assign" => /\ req[r].modul \in Modul
                                                   /\ guru[req[r].modul] = req[r].guru
         /\ table = "modul" => /\ req[r].kelas = None /\ req[r].isi = None
                               /\ req[r].modul \in Modul
                               /\ guru[req[r].modul] = req[r].guru
                               /\ \A x \in req[r].seen : x # None =>
                                    x \in Isi /\ modulOf[x] = req[r].modul
         /\ table = "isi"   => /\ req[r].isi \in Isi /\ req[r].kelas = None
                               /\ req[r].modul \in Modul /\ modulOf[req[r].isi] = req[r].modul
                               /\ guru[req[r].modul] = req[r].guru
<1> USE CurriculumAssumption
<1>1. /\ req[r] # None /\ req[r].at = "write" /\ req[r].op = op /\ Table(r) = table
  BY DEF Writes
<1>2. req[r] \in Request
  BY <1>1 DEF IInv, ReferencesHold
<1>3. /\ req[r].guru \in Guru /\ req[r].kelas \in Kelas \cup {None}
      /\ req[r].modul \in Modul \cup {None} /\ req[r].isi \in Isi \cup {None}
      /\ req[r].guru # None
  BY <1>2 DEF Request
<1>4. OwnOK(r) /\ SeenOK(r)
  BY <1>1 DEF IInv, RequestsOK
<1>5. CASE table = "kelas"
  BY <1>1, <1>2, <1>3, <1>4, <1>5 DEF OwnOK, SeenOK, Table
<1>6. CASE table = "modul"
  BY <1>1, <1>2, <1>3, <1>4, <1>6 DEF OwnOK, SeenOK, Table
<1>7. CASE table = "isi"
  BY <1>1, <1>2, <1>3, <1>4, <1>7 DEF OwnOK, SeenOK, Table
<1> QED
  BY <1>1, <1>2, <1>3, <1>5, <1>6, <1>7

-----------------------------------------------------------------------------
(* The steps that write to a kelas.                                        *)

LEMMA LinkingKeeps ==
  ASSUME IInv, NEW r \in Requests, NEW k \in Kelas, NEW L \in SUBSET Modul,
         guru[k] # None, \A m \in L : guru[m] = guru[k],
         k \in rows \/ L = {},
         rows' = rows \cup {k} \cup L, links' = links \cup ({k} \X L),
         End(r, {}), UNCHANGED <<guru, modulOf>>
  PROVE  IInv'
<1> USE CurriculumAssumption DEF IInv
<1>1. /\ req' \in [Requests -> Request \cup {None}]
      /\ \A q \in Requests : Waits(q, {})
  BY EndingWaits DEF ReferencesHold
<1>2. RequestsOK'
  BY <1>1, AllWait DEF OwnersKept
<1>3. links' \subseteq (Kelas \cap rows') \X (Modul \cap rows')
  BY DEF ReferencesHold
<1>4. \A x \in rows' : IF x \in Isi THEN modulOf'[x] \in rows' ELSE guru'[x] # None
  BY DEF ReferencesHold
<1>5. ReferencesHold'
  BY <1>1, <1>3, <1>4 DEF ReferencesHold
<1>6. LinksWithinOneGuru'
  BY DEF LinksWithinOneGuru
<1> QED
  BY <1>2, <1>5, <1>6

LEMMA KelasSteps ==
  ASSUME IInv, NEW r \in Requests,
         UpdateKelas(r) \/ DeleteKelas(r) \/ AssignModul(r) \/ RemoveModul(r)
  PROVE  IInv'
<1> USE CurriculumAssumption
<1>1. CASE UpdateKelas(r)
  <2>1. /\ req[r].kelas \in Kelas /\ guru[req[r].kelas] = req[r].guru /\ req[r].guru # None
        /\ \A x \in req[r].seen : x \in Modul /\ guru[x] = req[r].guru
    BY <1>1, AboutToWrite DEF UpdateKelas
  <2>2. req[r].seen \in SUBSET Modul
    BY <2>1
  <2> QED
    BY <1>1, <2>1, <2>2, LinkingKeeps DEF UpdateKelas
<1>2. CASE AssignModul(r)
  <2> DEFINE k == req[r].kelas
             L == req[r].seen \cup {req[r].modul}
  <2>1. /\ k \in Kelas /\ guru[k] = req[r].guru /\ req[r].guru # None
        /\ \A x \in L : x \in Modul /\ guru[x] = req[r].guru
    BY <1>2, AboutToWrite DEF AssignModul
  <2>2. L \in SUBSET Modul
    BY <2>1
  <2>3. /\ k \in rows /\ rows' = rows \cup {k} \cup L /\ links' = links \cup ({k} \X L)
        /\ End(r, {}) /\ UNCHANGED <<guru, modulOf>>
    BY <1>2 DEF AssignModul
  <2> HIDE DEF k, L
  <2> QED
    BY <2>1, <2>2, <2>3, LinkingKeeps
<1>3. CASE DeleteKelas(r)
  <2> DEFINE k == req[r].kelas
  <2>1. k \in Kelas
    BY <1>3, AboutToWrite DEF DeleteKelas
  <2> DEFINE gone == {k} \cup ({k} \X Linked(k))
  <2>2. /\ rows' = rows \ {k} /\ links' = links \ ({k} \X Modul)
        /\ End(r, gone) /\ UNCHANGED <<guru, modulOf>>
    BY <1>3 DEF DeleteKelas
  <2> HIDE DEF k
  <2>3. gone \in SUBSET (Ids \cup Pairs) /\ links \subseteq links' \cup gone
    BY <2>1, <2>2 DEF IInv, ReferencesHold, Ids, Pairs, Linked
  <2>4. rows \subseteq rows' \cup gone
    BY <2>2
  <2> HIDE DEF gone
  <2>5. /\ req' \in [Requests -> Request \cup {None}]
        /\ \A q \in Requests : Waits(q, gone)
    BY <2>2, <2>3, EndingWaits DEF IInv, ReferencesHold
  <2>6. RequestsOK'
    BY <2>2, <2>3, <2>4, <2>5, AllWait DEF IInv, OwnersKept
  <2>7. links' \subseteq (Kelas \cap rows') \X (Modul \cap rows')
    BY <2>1, <2>2 DEF IInv, ReferencesHold
  <2>8. \A x \in rows' : IF x \in Isi THEN modulOf'[x] \in rows' ELSE guru'[x] # None
    <3>1. \A x \in rows : x \in Isi => modulOf[x] \in Modul
      BY DEF IInv, ReferencesHold
    <3> QED
      BY <2>1, <2>2, <3>1 DEF IInv, ReferencesHold
  <2>9. ReferencesHold'
    BY <2>2, <2>5, <2>7, <2>8 DEF IInv, ReferencesHold
  <2>10. LinksWithinOneGuru'
    BY <2>2 DEF IInv, LinksWithinOneGuru
  <2> QED
    BY <2>6, <2>9, <2>10 DEF IInv
<1>4. CASE RemoveModul(r)
  <2> DEFINE gone == links \cap {<<req[r].kelas, req[r].modul>>}
  <2>1. /\ links' = links \ {<<req[r].kelas, req[r].modul>>} /\ End(r, gone)
        /\ UNCHANGED <<rows, guru, modulOf>>
    BY <1>4 DEF RemoveModul
  <2>2. gone \in SUBSET (Ids \cup Pairs)
    BY DEF IInv, ReferencesHold, Pairs
  <2>3. /\ links \subseteq links' \cup gone /\ rows \subseteq rows' \cup gone
    BY <2>1
  <2> HIDE DEF gone
  <2>4. /\ req' \in [Requests -> Request \cup {None}]
        /\ \A q \in Requests : Waits(q, gone)
    BY <2>1, <2>2, EndingWaits DEF IInv, ReferencesHold
  <2>5. RequestsOK'
    BY <2>1, <2>3, <2>4, AllWait DEF IInv, OwnersKept
  <2> QED
    BY <2>1, <2>4, <2>5 DEF IInv, ReferencesHold, LinksWithinOneGuru
<1> QED
  BY <1>1, <1>2, <1>3, <1>4

-----------------------------------------------------------------------------
(* The steps that write to a modul, a materi or a soal.                    *)

(* Rows and requests apart, nothing is written to.                         *)
LEMMA RowsKeep ==
  ASSUME IInv, NEW r \in Requests, NEW gone \in SUBSET Ids,
         End(r, gone), UNCHANGED <<links, guru, modulOf>>,
         rows' \subseteq Ids, rows \subseteq rows' \cup gone,
         links \subseteq rows' \X rows',
         \A x \in rows' : IF x \in Isi THEN modulOf[x] \in rows' ELSE guru[x] # None
  PROVE  IInv'
<1>1. /\ req' \in [Requests -> Request \cup {None}]
      /\ \A q \in Requests : Waits(q, gone)
  BY EndingWaits DEF IInv, ReferencesHold
<1>2. RequestsOK'
  BY <1>1, AllWait DEF IInv, OwnersKept
<1>3. ReferencesHold'
  <2>1. links \subseteq (Kelas \cap rows') \X (Modul \cap rows')
    BY DEF IInv, ReferencesHold
  <2> QED
    BY <1>1, <2>1 DEF IInv, ReferencesHold, Ids
<1>4. LinksWithinOneGuru'
  BY DEF IInv, LinksWithinOneGuru
<1> QED
  BY <1>2, <1>3, <1>4 DEF IInv

LEMMA ModulSteps ==
  ASSUME IInv, NEW r \in Requests, UpdateModul(r) \/ DeleteModul(r)
  PROVE  IInv'
<1> USE CurriculumAssumption
<1> DEFINE m == req[r].modul
<1>1. CASE UpdateModul(r)
  <2>1. /\ m \in Modul /\ guru[m] # None /\ req[r] \in Request
        /\ \A x \in req[r].seen : x # None => x \in Isi /\ modulOf[x] = m
    BY <1>1, AboutToWrite DEF UpdateModul
  <2>2. \A x \in req[r].seen : x \in Isi /\ modulOf[x] = m
    BY <2>1 DEF Request
  <2>3. /\ rows' = rows \cup {m} \cup req[r].seen
        /\ End(r, {}) /\ UNCHANGED <<links, guru, modulOf>>
    BY <1>1 DEF UpdateModul
  <2>4. /\ rows \subseteq Ids /\ links \subseteq rows \X rows
        /\ \A x \in rows : IF x \in Isi THEN modulOf[x] \in rows ELSE guru[x] # None
    BY DEF IInv, ReferencesHold, Ids
  <2>5. rows' \subseteq Ids
    BY <2>1, <2>2, <2>3, <2>4 DEF Ids
  <2>6. \A x \in rows' : IF x \in Isi THEN modulOf[x] \in rows' ELSE guru[x] # None
    BY <2>1, <2>2, <2>3, <2>4
  <2> QED
    BY <2>3, <2>4, <2>5, <2>6, RowsKeep
<1>2. CASE DeleteModul(r)
  <2>1. m \in Modul
    BY <1>2, AboutToWrite DEF DeleteModul
  <2>2. /\ rows' = rows \ ({m} \cup IsiOf(m)) /\ End(r, {m} \cup IsiOf(m))
        /\ \A k \in Kelas : <<k, m>> \notin links
        /\ UNCHANGED <<links, guru, modulOf>>
    BY <1>2 DEF DeleteModul
  <2>3. /\ rows \subseteq Ids /\ links \subseteq (Kelas \cap rows) \X (Modul \cap rows)
        /\ \A x \in rows : IF x \in Isi THEN modulOf[x] \in rows ELSE guru[x] # None
        /\ modulOf \in [Isi -> Modul \cup {None}]
    BY DEF IInv, ReferencesHold, Ids
  <2>4. {m} \cup IsiOf(m) \in SUBSET Ids
    BY <2>1 DEF IsiOf, Ids
  <2>5. links \subseteq rows' \X rows'
    BY <2>1, <2>2, <2>3 DEF IsiOf
  <2>6. \A x \in rows' : IF x \in Isi THEN modulOf[x] \in rows' ELSE guru[x] # None
    BY <2>1, <2>2, <2>3 DEF IsiOf
  <2> QED
    BY <2>2, <2>3, <2>4, <2>5, <2>6, RowsKeep
<1> QED
  BY <1>1, <1>2

LEMMA IsiSteps ==
  ASSUME IInv, NEW r \in Requests,
         UpdateIsi(r) \/ DeleteIsi(r) \/ \E i \in Isi : CreateIsi(r, i)
  PROVE  IInv'
<1> USE CurriculumAssumption
<1>0. /\ rows \subseteq Ids /\ links \subseteq (Kelas \cap rows) \X (Modul \cap rows)
      /\ \A x \in rows : IF x \in Isi THEN modulOf[x] \in rows ELSE guru[x] # None
      /\ modulOf \in [Isi -> Modul \cup {None}]
  BY DEF IInv, ReferencesHold, Ids
<1>1. CASE UpdateIsi(r)
  <2>1. /\ req[r].isi \in Isi /\ modulOf[req[r].isi] = req[r].modul
        /\ req[r].modul \in rows /\ rows' = rows \cup {req[r].isi}
        /\ End(r, {}) /\ UNCHANGED <<links, guru, modulOf>>
    BY <1>1, AboutToWrite DEF UpdateIsi
  <2> QED
    BY <1>0, <2>1, RowsKeep DEF Ids
<1>2. CASE DeleteIsi(r)
  <2>1. /\ req[r].isi \in Isi /\ rows' = rows \ {req[r].isi}
        /\ End(r, {req[r].isi}) /\ UNCHANGED <<links, guru, modulOf>>
    BY <1>2, AboutToWrite DEF DeleteIsi
  <2>2. {req[r].isi} \in SUBSET Ids /\ links \subseteq rows' \X rows'
    BY <1>0, <2>1 DEF Ids
  <2>3. \A x \in rows' : IF x \in Isi THEN modulOf[x] \in rows' ELSE guru[x] # None
    BY <1>0, <2>1
  <2> QED
    BY <1>0, <2>1, <2>2, <2>3, RowsKeep
<1>3. ASSUME NEW i \in Isi, CreateIsi(r, i)
      PROVE  IInv'
  <2> DEFINE m == req[r].modul
  <2>1. m \in Modul
    BY <1>3, AboutToWrite DEF CreateIsi
  <2>2. /\ m \in rows /\ modulOf[i] = None
        /\ modulOf' = [modulOf EXCEPT ![i] = m] /\ rows' = rows \cup {i}
        /\ End(r, {}) /\ UNCHANGED <<links, guru>>
    BY <1>3 DEF CreateIsi
  <2> HIDE DEF m
  <2>3. /\ req' \in [Requests -> Request \cup {None}]
        /\ \A q \in Requests : Waits(q, {})
    BY <2>2, EndingWaits DEF IInv, ReferencesHold
  <2>4. OwnersKept
    BY <1>0, <2>2 DEF OwnersKept
  <2>5. RequestsOK'
    BY <2>2, <2>3, <2>4, AllWait DEF IInv
  <2>6. /\ rows' \subseteq Ids /\ links' \subseteq (Kelas \cap rows') \X (Modul \cap rows')
        /\ modulOf' \in [Isi -> Modul \cup {None}]
    BY <1>0, <2>1, <2>2 DEF Ids
  <2>7. \A x \in rows' : IF x \in Isi THEN modulOf'[x] \in rows' ELSE guru'[x] # None
    BY <1>0, <2>1, <2>2
  <2>8. ReferencesHold'
    BY <2>2, <2>3, <2>6, <2>7 DEF IInv, ReferencesHold, Ids
  <2>9. LinksWithinOneGuru'
    BY <2>2 DEF IInv, LinksWithinOneGuru
  <2> QED
    BY <2>5, <2>8, <2>9 DEF IInv
<1> QED
  BY <1>1, <1>2, <1>3

-----------------------------------------------------------------------------
(* The steps that only read, and creation.                                 *)

(* One request has changed, and it is in order.                            *)
LEMMA OneChanges ==
  ASSUME IInv, NEW r \in Requests, NEW q \in Request, req' = [req EXCEPT ![r] = q],
         UNCHANGED <<rows, links, guru, modulOf>>,
         (OwnOK(r) /\ SeenOK(r) /\ LateOK(r) /\ LinksOK(r))'
  PROVE  IInv'
<1>1. req' \in [Requests -> Request \cup {None}]
  BY DEF IInv, ReferencesHold
<1>2. ASSUME NEW p \in Requests, p # r, req'[p] # None
      PROVE  (OwnOK(p) /\ SeenOK(p) /\ LateOK(p) /\ LinksOK(p))'
  <2>1. req'[p] = req[p]
    BY <1>2 DEF IInv, ReferencesHold
  <2>2. OwnOK(p) /\ SeenOK(p) /\ LateOK(p) /\ LinksOK(p)
    BY <1>2, <2>1 DEF IInv, RequestsOK
  <2> QED
    BY <2>1, <2>2 DEF OwnOK, SeenOK, LateOK, LinksOK
<1>3. RequestsOK'
  BY <1>2 DEF RequestsOK
<1> QED
  BY <1>1, <1>3 DEF IInv, ReferencesHold, LinksWithinOneGuru

(* The record that Begin makes is in order if what it is made of is.       *)
LEMMA BeginKeeps ==
  ASSUME IInv, NEW r \in Requests, NEW g \in Guru,
         NEW op \in {"update", "delete", "assign", "remove", "create"},
         NEW k \in Kelas \cup {None}, NEW m \in Modul \cup {None}, NEW i \in Isi \cup {None},
         NEW seen \in SUBSET (Modul \cup Isi), NEW at \in {"modul", "write"},
         Begin(r, op, g, k, m, i, seen, at), UNCHANGED <<rows, links, guru, modulOf>>,
         k # None => k \in rows /\ guru[k] = g /\ i = None
                     /\ \A x \in seen : x \in Modul /\ guru[x] = g,
         k = None => m # None /\ op \notin {"assign", "remove"}
                     /\ \A x \in seen \cup {i} : x # None => x \in Isi /\ modulOf[x] = m,
         op = "assign" => m # None,
         k # None => {k} \X seen \subseteq links,
         i # None => i \in rows,
         seen \subseteq rows,
         at = "write" /\ op # "remove" /\ m # None => m \in rows /\ guru[m] = g
  PROVE  IInv'
<1> USE CurriculumAssumption
<1> DEFINE q == [op |-> op, guru |-> g, kelas |-> k, modul |-> m, isi |-> i,
                 seen |-> seen, late |-> {}, at |-> at]
<1>1. q \in Request
  BY DEF Request
<1>2. req' = [req EXCEPT ![r] = q]
  BY DEF Begin
<1>3. req'[r] = q
  BY <1>2 DEF IInv, ReferencesHold
<1>4. /\ req'[r].op = op /\ req'[r].guru = g /\ req'[r].kelas = k /\ req'[r].modul = m
      /\ req'[r].isi = i /\ req'[r].seen = seen /\ req'[r].late = {} /\ req'[r].at = at
  BY <1>3
<1> HIDE DEF q
<1>5. OwnOK(r)'
  BY <1>4 DEF OwnOK
<1>6. SeenOK(r)'
  BY <1>4 DEF SeenOK
<1>7. LateOK(r)'
  BY <1>4 DEF LateOK
<1>8. LinksOK(r)'
  BY <1>4 DEF LinksOK
<1> QED
  BY <1>1, <1>2, <1>5, <1>6, <1>7, <1>8, OneChanges

LEMMA FindSteps ==
  ASSUME IInv, NEW r \in Requests, Find(r)
  PROVE  IInv'
<1> USE CurriculumAssumption
<1>0. /\ links \subseteq (Kelas \cap rows) \X (Modul \cap rows)
      /\ modulOf \in [Isi -> Modul \cup {None}]
      /\ \A x \in rows : IF x \in Isi THEN modulOf[x] \in rows ELSE guru[x] # None
      /\ \A l \in links : guru[l[1]] = guru[l[2]]
      /\ rows \subseteq Kelas \cup Modul \cup Isi
  BY DEF IInv, ReferencesHold, LinksWithinOneGuru
<1> PICK g \in Guru : \/ \E k \in Kelas : FindKelas(r, g, k)
                      \/ \E m \in Modul : FindModul(r, g, m)
                      \/ \E i \in Isi : FindIsi(r, g, i)
  BY DEF Find
<1>1. ASSUME NEW k \in Kelas, FindKelas(r, g, k)
      PROVE  IInv'
  <2>1. k \in rows /\ guru[k] = g /\ UNCHANGED <<rows, links, guru, modulOf>> /\ k # None
    BY <1>1 DEF FindKelas
  <2>2. /\ Linked(k) \in SUBSET (Modul \cup Isi) /\ Linked(k) \subseteq rows
        /\ {k} \X Linked(k) \subseteq links
    BY <1>0 DEF Linked
  <2>3. \A x \in Linked(k) : x \in Modul /\ guru[x] = g
    BY <1>0, <2>1 DEF Linked
  <2>4. CASE Begin(r, "update", g, k, None, None, Linked(k), "write")
    BY <2>1, <2>2, <2>3, <2>4, BeginKeeps
  <2>5. CASE Begin(r, "delete", g, k, None, None, {}, "write")
    BY <2>1, <2>5, BeginKeeps
  <2>6. ASSUME NEW m \in Modul, Begin(r, "assign", g, k, m, None, Linked(k), "modul")
        PROVE  IInv'
    BY <2>1, <2>2, <2>3, <2>6, BeginKeeps
  <2>7. ASSUME NEW m \in Modul, Begin(r, "remove", g, k, m, None, {}, "write")
        PROVE  IInv'
    BY <2>1, <2>7, BeginKeeps
  <2> QED
    BY <1>1, <2>4, <2>5, <2>6, <2>7 DEF FindKelas
<1>2. ASSUME NEW m \in Modul, FindModul(r, g, m)
      PROVE  IInv'
  <2>1. m \in rows /\ guru[m] = g /\ UNCHANGED <<rows, links, guru, modulOf>> /\ m # None
    BY <1>2 DEF FindModul
  <2>2. IsiOf(m) \in SUBSET (Modul \cup Isi) /\ IsiOf(m) \subseteq rows
    BY DEF IsiOf
  <2>3. \A x \in IsiOf(m) \cup {None} : x # None => x \in Isi /\ modulOf[x] = m
    BY DEF IsiOf
  <2>4. CASE Begin(r, "update", g, None, m, None, IsiOf(m), "write")
    BY <2>1, <2>2, <2>3, <2>4, BeginKeeps
  <2>5. CASE Begin(r, "delete", g, None, m, None, {}, "write")
    BY <2>1, <2>5, BeginKeeps
  <2>6. CASE Begin(r, "create", g, None, m, None, {}, "write")
    BY <2>1, <2>6, BeginKeeps
  <2> QED
    BY <1>2, <2>4, <2>5, <2>6 DEF FindModul
<1>3. ASSUME NEW i \in Isi, FindIsi(r, g, i)
      PROVE  IInv'
  <2>1. i \in rows /\ UNCHANGED <<rows, links, guru, modulOf>> /\ i # None
    BY <1>3 DEF FindIsi
  <2>2. modulOf[i] \in Modul /\ modulOf[i] # None
    BY <1>0, <2>1
  <2>3. CASE Begin(r, "update", g, None, modulOf[i], i, {}, "modul")
    BY <2>1, <2>2, <2>3, BeginKeeps
  <2>4. CASE Begin(r, "delete", g, None, modulOf[i], i, {}, "modul")
    BY <2>1, <2>2, <2>4, BeginKeeps
  <2> QED
    BY <1>3, <2>3, <2>4 DEF FindIsi
<1> QED
  BY <1>1, <1>2, <1>3

LEMMA CheckModulStep ==
  ASSUME IInv, NEW r \in Requests, CheckModul(r)
  PROVE  IInv'
<1> USE CurriculumAssumption
<1> DEFINE q == [req[r] EXCEPT !.at = "write"]
<1>1. /\ req[r] # None /\ req[r].modul \in rows /\ guru[req[r].modul] = req[r].guru
      /\ req' = [req EXCEPT ![r] = q] /\ UNCHANGED <<rows, links, guru, modulOf>>
  BY DEF CheckModul
<1>2. req[r] \in Request /\ OwnOK(r) /\ SeenOK(r) /\ LateOK(r) /\ LinksOK(r)
  BY <1>1 DEF IInv, ReferencesHold, RequestsOK
<1>3. q \in Request
  BY <1>2 DEF Request
<1>4. /\ q.op = req[r].op /\ q.guru = req[r].guru /\ q.kelas = req[r].kelas
      /\ q.modul = req[r].modul /\ q.isi = req[r].isi /\ q.seen = req[r].seen
      /\ q.late = req[r].late /\ q.at = "write"
  BY <1>2 DEF Request
<1>5. req'[r] = q
  BY <1>1 DEF IInv, ReferencesHold
<1> HIDE DEF q
<1>6. OwnOK(r)'
  BY <1>1, <1>2, <1>4, <1>5 DEF OwnOK
<1>7. SeenOK(r)'
  BY <1>1, <1>2, <1>4, <1>5 DEF SeenOK
<1>8. LateOK(r)'
  BY <1>1, <1>2, <1>4, <1>5 DEF LateOK
<1>9. LinksOK(r)'
  BY <1>1, <1>2, <1>4, <1>5 DEF LinksOK
<1> QED
  BY <1>1, <1>3, <1>6, <1>7, <1>8, <1>9, OneChanges

LEMMA CreateStep ==
  ASSUME IInv, NEW g \in Guru, NEW x \in Kelas \cup Modul, Create(g, x)
  PROVE  IInv'
<1> USE CurriculumAssumption
<1>1. /\ guru[x] = None /\ guru' = [guru EXCEPT ![x] = g] /\ rows' = rows \cup {x}
      /\ UNCHANGED <<links, modulOf, req>> /\ g # None /\ x \notin Isi
  BY DEF Create
<1>2. /\ guru \in [Kelas \cup Modul -> Guru \cup {None}]
      /\ links \subseteq (Kelas \cap rows) \X (Modul \cap rows)
      /\ \A y \in rows : IF y \in Isi THEN modulOf[y] \in rows ELSE guru[y] # None
      /\ rows \subseteq Kelas \cup Modul \cup Isi
      /\ req \in [Requests -> Request \cup {None}]
  BY DEF IInv, ReferencesHold
<1>3. OwnersKept
  BY <1>1, <1>2 DEF OwnersKept
<1>4. ASSUME NEW q \in Requests, req'[q] # None
      PROVE  (OwnOK(q) /\ SeenOK(q) /\ LateOK(q) /\ LinksOK(q))'
  <2>1. OwnOK(q) /\ SeenOK(q) /\ LateOK(q) /\ LinksOK(q) /\ req[q] \in Request
    BY <1>1, <1>2, <1>4 DEF IInv, RequestsOK
  <2>2. req'[q] = [req[q] EXCEPT !.late = @ \cup ({} \cap Holds(q))]
    BY <1>1, <2>1 DEF Request
  <2> QED
    BY <1>1, <1>3, <1>4, <2>1, <2>2, WaitingKeepsOK DEF Waits, IInv
<1>5. RequestsOK'
  BY <1>4 DEF RequestsOK
<1>6. \A y \in rows' : IF y \in Isi THEN modulOf'[y] \in rows' ELSE guru'[y] # None
  BY <1>1, <1>2
<1>7. ReferencesHold'
  <2>1. guru' \in [Kelas \cup Modul -> Guru \cup {None}]
    BY <1>1, <1>2
  <2>2. rows' \subseteq Kelas \cup Modul \cup Isi
    BY <1>1, <1>2
  <2> QED
    BY <1>1, <1>2, <1>6, <2>1, <2>2 DEF IInv, ReferencesHold
<1>8. LinksWithinOneGuru'
  <2>1. ASSUME NEW l \in links
        PROVE  guru'[l[1]] = guru'[l[2]]
    <3>1. /\ l[1] \in Kelas \cap rows /\ l[2] \in Modul \cap rows
          /\ guru[l[1]] = guru[l[2]]
      BY <1>2, <2>1 DEF IInv, LinksWithinOneGuru
    <3>2. guru[l[1]] # None /\ guru[l[2]] # None
      BY <1>2, <3>1
    <3> QED
      BY <1>1, <1>2, <3>1, <3>2
  <2> QED
    BY <1>1, <2>1 DEF LinksWithinOneGuru
<1> QED
  BY <1>5, <1>7, <1>8 DEF IInv

LEMMA FailStep ==
  ASSUME IInv, NEW r \in Requests, Fail(r)
  PROVE  IInv'
<1>1. /\ rows \subseteq Ids /\ links \subseteq rows \X rows
      /\ \A x \in rows : IF x \in Isi THEN modulOf[x] \in rows ELSE guru[x] # None
  BY DEF IInv, ReferencesHold, Ids
<1> QED
  BY <1>1, RowsKeep DEF Fail

-----------------------------------------------------------------------------
(* The invariant of Curriculum.                                            *)
THEOREM Invariance == Spec => []IInv
<1> USE CurriculumAssumption
<1>1. Init => IInv
  BY DEF Init, IInv, ReferencesHold, LinksWithinOneGuru, RequestsOK
<1>2. IInv /\ [Next]_vars => IInv'
  <2> SUFFICES ASSUME IInv, [Next]_vars
               PROVE  IInv'
    OBVIOUS
  <2>1. CASE UNCHANGED vars
    BY <2>1 DEF vars, IInv, ReferencesHold, LinksWithinOneGuru, RequestsOK, OwnOK, SeenOK, LateOK,
            LinksOK
  <2>2. ASSUME NEW g \in Guru, NEW x \in Kelas \cup Modul, Create(g, x)
        PROVE  IInv'
    BY <2>2, CreateStep
  <2>3. ASSUME NEW r \in Requests, Find(r)
        PROVE  IInv'
    BY <2>3, FindSteps
  <2>4. ASSUME NEW r \in Requests, CheckModul(r)
        PROVE  IInv'
    BY <2>4, CheckModulStep
  <2>5. ASSUME NEW r \in Requests, Write(r)
        PROVE  IInv'
    BY <2>5, KelasSteps, ModulSteps, IsiSteps DEF Write
  <2>6. ASSUME NEW r \in Requests, Fail(r)
        PROVE  IInv'
    BY <2>6, FailStep
  <2> QED
    BY <2>1, <2>2, <2>3, <2>4, <2>5, <2>6 DEF Next
<1> QED
  BY <1>1, <1>2, PTL DEF Spec

(* Whatever comes back comes back to rows that are there: types, foreign   *)
(* keys, for any number of guru, rows and requests.                        *)
THEOREM ReferencesSafe == Spec => []ReferencesHold
<1>1. IInv => ReferencesHold
  BY DEF IInv
<1> QED
  BY <1>1, Invariance, PTL

(* AssignModul checks both rows before it writes, and an old copy of a     *)
(* kelas brings back links of its own guru only.                           *)
THEOREM LinksSafe == Spec => []LinksWithinOneGuru
<1>1. IInv => LinksWithinOneGuru
  BY DEF IInv
<1> QED
  BY <1>1, Invariance, PTL

-----------------------------------------------------------------------------
(* What comes back, and what is lost.                                      *)

LEMMA EndEnds ==
  ASSUME IInv, NEW r \in Requests, NEW op, NEW table, Writes(r, op, table),
         NEW gone, End(r, gone)
  PROVE  Ends(r) /\ LateOK(r) /\ LinksOK(r) /\ req[r] \in Request
<1>1. req'[r] = None
  BY DEF End
<1> QED
  BY <1>1 DEF Ends, Writes, IInv, RequestsOK, ReferencesHold

(* A row inserted again is one the request had read, so it is late for it. *)
LEMMA ReturnStep ==
  ASSUME IInv, Next, NEW x \in rows' \ rows,
         (IF x \in Isi THEN modulOf[x] ELSE guru[x]) # None
  PROVE  \E r \in Requests : Ends(r) /\ x \in req[r].late
<1> USE CurriculumAssumption
<1>1. ASSUME NEW g \in Guru, NEW y \in Kelas \cup Modul, Create(g, y)
      PROVE  FALSE
  BY <1>1 DEF Create
<1>2. ASSUME NEW r \in Requests, Find(r) \/ CheckModul(r) \/ Fail(r)
      PROVE  FALSE
  BY <1>2 DEF Find, FindKelas, FindModul, FindIsi, CheckModul, Fail
<1>3. ASSUME NEW r \in Requests, Write(r)
      PROVE  Ends(r) /\ x \in req[r].late
  <2>1. CASE UpdateKelas(r)
    <3>1. /\ Ends(r) /\ LateOK(r) /\ req[r].kelas \in Kelas
          /\ \A y \in req[r].seen : y \in Modul
      BY <2>1, EndEnds, AboutToWrite DEF UpdateKelas
    <3>2. x = req[r].kelas \/ x \in req[r].seen
      BY <2>1 DEF UpdateKelas
    <3> QED
      BY <3>1, <3>2 DEF LateOK
  <2>2. CASE AssignModul(r)
    <3>1. /\ Ends(r) /\ LateOK(r) /\ req[r].modul \in Modul
          /\ \A y \in req[r].seen : y \in Modul
          /\ req[r].at = "write" /\ req[r].op = "assign"
      BY <2>2, EndEnds, AboutToWrite DEF AssignModul, Writes
    <3>2. x \in req[r].seen \/ x = req[r].modul
      BY <2>2 DEF AssignModul
    <3> QED
      BY <3>1, <3>2 DEF LateOK
  <2>3. CASE UpdateModul(r)
    <3>1. /\ Ends(r) /\ LateOK(r) /\ req[r].modul \in Modul
          /\ req[r].seen \subseteq Modul \cup Isi
          /\ req[r].at = "write" /\ req[r].op = "update"
      BY <2>3, EndEnds, AboutToWrite DEF UpdateModul, Writes, Request
    <3>2. x \in req[r].seen \/ x = req[r].modul
      BY <2>3 DEF UpdateModul
    <3> QED
      BY <3>1, <3>2 DEF LateOK
  <2>4. CASE UpdateIsi(r)
    <3>1. /\ Ends(r) /\ LateOK(r) /\ req[r].isi \in Isi
      BY <2>4, EndEnds, AboutToWrite DEF UpdateIsi
    <3>2. x = req[r].isi
      BY <2>4 DEF UpdateIsi
    <3> QED
      BY <3>1, <3>2 DEF LateOK
  <2>5. ASSUME NEW i \in Isi, CreateIsi(r, i)
        PROVE  FALSE
    BY <2>5 DEF CreateIsi
  <2>6. CASE DeleteKelas(r) \/ RemoveModul(r) \/ DeleteModul(r) \/ DeleteIsi(r)
    BY <2>6 DEF DeleteKelas, RemoveModul, DeleteModul, DeleteIsi
  <2> QED
    BY <1>3, <2>1, <2>2, <2>3, <2>4, <2>5, <2>6 DEF Write
<1> QED
  BY <1>1, <1>2, <1>3 DEF Next

(* A link made without being asked for is one the request had read.        *)
LEMMA RelinkStep ==
  ASSUME IInv, Next, NEW l \in links' \ links
  PROVE  \E r \in Requests :
           Ends(r) /\ \/ l \in req[r].late
                      \/ req[r].op = "assign" /\ l = <<req[r].kelas, req[r].modul>>
<1> USE CurriculumAssumption
<1>1. ASSUME NEW g \in Guru, NEW y \in Kelas \cup Modul, Create(g, y)
      PROVE  FALSE
  BY <1>1 DEF Create
<1>2. ASSUME NEW r \in Requests, Find(r) \/ CheckModul(r) \/ Fail(r)
      PROVE  FALSE
  BY <1>2 DEF Find, FindKelas, FindModul, FindIsi, CheckModul, Fail
<1>3. ASSUME NEW r \in Requests, Write(r)
      PROVE  Ends(r) /\ \/ l \in req[r].late
                        \/ req[r].op = "assign" /\ l = <<req[r].kelas, req[r].modul>>
  <2>1. CASE UpdateKelas(r)
    <3>1. /\ Ends(r) /\ LinksOK(r) /\ req[r].kelas \in Kelas
      BY <2>1, EndEnds, AboutToWrite DEF UpdateKelas
    <3>2. l \in {req[r].kelas} \X req[r].seen
      BY <2>1 DEF UpdateKelas
    <3> QED
      BY <3>1, <3>2 DEF LinksOK
  <2>2. CASE AssignModul(r)
    <3>1. /\ Ends(r) /\ LinksOK(r) /\ req[r].kelas \in Kelas /\ req[r].op = "assign"
      BY <2>2, EndEnds, AboutToWrite DEF AssignModul, Writes
    <3>2. l \in {req[r].kelas} \X (req[r].seen \cup {req[r].modul})
      BY <2>2 DEF AssignModul
    <3>3. l \in {req[r].kelas} \X req[r].seen \/ l = <<req[r].kelas, req[r].modul>>
      BY <3>2
    <3> QED
      BY <3>1, <3>3 DEF LinksOK
  <2>3. CASE DeleteKelas(r) \/ RemoveModul(r) \/ UpdateModul(r) \/ DeleteModul(r)
             \/ UpdateIsi(r) \/ DeleteIsi(r)
    BY <2>3 DEF DeleteKelas, RemoveModul, UpdateModul, DeleteModul, UpdateIsi, DeleteIsi
  <2>4. ASSUME NEW i \in Isi, CreateIsi(r, i)
        PROVE  FALSE
    BY <2>4 DEF CreateIsi
  <2> QED
    BY <1>3, <2>1, <2>2, <2>3, <2>4 DEF Write
<1> QED
  BY <1>1, <1>2, <1>3 DEF Next

(* An update or an assignment may bring back what another request has      *)
(* deleted or taken off a kelas, but only one that was under way then.     *)
THEOREM ReturnsRaced == Spec => ReturnsOnlyIfRaced
<1>1. IInv /\ [Next]_vars =>
        [/\ \A x \in rows' \ rows :
              (IF x \in Isi THEN modulOf[x] ELSE guru[x]) # None
                => \E r \in Requests : Ends(r) /\ x \in req[r].late
         /\ \A l \in links' \ links : \E r \in Requests :
              Ends(r) /\ \/ l \in req[r].late
                         \/ req[r].op = "assign" /\ l = <<req[r].kelas, req[r].modul>>]_vars
  BY ReturnStep, RelinkStep
<1> QED
  BY <1>1, Invariance, PTL DEF Spec, ReturnsOnlyIfRaced

(* Rows go by a request of their guru to delete them or what they hang on. *)
LEMMA RowLost ==
  ASSUME IInv, Next, NEW x \in rows \ rows'
  PROVE  \E r \in Requests :
           /\ Ends(r) /\ req[r].op = "delete" /\ req[r].guru = GuruOf(x)
           /\ IF x \in Isi /\ req[r].isi = None THEN req[r].modul = modulOf[x]
                                                ELSE x \in {req[r].isi, req[r].kelas, req[r].modul}
<1> USE CurriculumAssumption
<1>1. ASSUME NEW g \in Guru, NEW y \in Kelas \cup Modul, Create(g, y)
      PROVE  FALSE
  BY <1>1 DEF Create
<1>2. ASSUME NEW r \in Requests, Find(r) \/ CheckModul(r) \/ Fail(r)
      PROVE  FALSE
  BY <1>2 DEF Find, FindKelas, FindModul, FindIsi, CheckModul, Fail
<1>3. ASSUME NEW r \in Requests, Write(r)
      PROVE  /\ Ends(r) /\ req[r].op = "delete" /\ req[r].guru = GuruOf(x)
             /\ IF x \in Isi /\ req[r].isi = None THEN req[r].modul = modulOf[x]
                                                  ELSE x \in {req[r].isi, req[r].kelas, req[r].modul}
  <2>1. CASE DeleteKelas(r)
    <3>1. /\ Ends(r) /\ req[r].op = "delete" /\ req[r].kelas \in Kelas
          /\ guru[req[r].kelas] = req[r].guru
      BY <2>1, EndEnds, AboutToWrite DEF DeleteKelas
    <3>2. x = req[r].kelas
      BY <2>1 DEF DeleteKelas
    <3> QED
      BY <3>1, <3>2 DEF GuruOf
  <2>2. CASE DeleteModul(r)
    <3>1. /\ Ends(r) /\ req[r].op = "delete" /\ req[r].modul \in Modul /\ req[r].isi = None
          /\ guru[req[r].modul] = req[r].guru
      BY <2>2, EndEnds, AboutToWrite DEF DeleteModul
    <3>2. x = req[r].modul \/ (x \in Isi /\ modulOf[x] = req[r].modul)
      BY <2>2 DEF DeleteModul, IsiOf
    <3> QED
      BY <3>1, <3>2 DEF GuruOf
  <2>3. CASE DeleteIsi(r)
    <3>1. /\ Ends(r) /\ req[r].op = "delete" /\ req[r].isi \in Isi
          /\ modulOf[req[r].isi] = req[r].modul /\ guru[req[r].modul] = req[r].guru
      BY <2>3, EndEnds, AboutToWrite DEF DeleteIsi
    <3>2. x = req[r].isi /\ req[r].isi # None
      BY <2>3, <3>1 DEF DeleteIsi
    <3> QED
      BY <3>1, <3>2 DEF GuruOf
  <2>4. CASE UpdateKelas(r) \/ AssignModul(r) \/ RemoveModul(r) \/ UpdateModul(r) \/ UpdateIsi(r)
    BY <2>4 DEF UpdateKelas, AssignModul, RemoveModul, UpdateModul, UpdateIsi
  <2>5. ASSUME NEW i \in Isi, CreateIsi(r, i)
        PROVE  FALSE
    BY <2>5 DEF CreateIsi
  <2> QED
    BY <1>3, <2>1, <2>2, <2>3, <2>4, <2>5 DEF Write
<1> QED
  BY <1>1, <1>2, <1>3 DEF Next

(* Links go by a request to remove them or to delete their kelas.          *)
LEMMA LinkLost ==
  ASSUME IInv, Next, NEW l \in links \ links'
  PROVE  \E r \in Requests :
           /\ Ends(r) /\ req[r].op \in {"delete", "remove"} /\ req[r].kelas = l[1]
           /\ req[r].op = "remove" => req[r].modul = l[2]
<1>1. ASSUME NEW g \in Guru, NEW y \in Kelas \cup Modul, Create(g, y)
      PROVE  FALSE
  BY <1>1 DEF Create
<1>2. ASSUME NEW r \in Requests, Find(r) \/ CheckModul(r) \/ Fail(r)
      PROVE  FALSE
  BY <1>2 DEF Find, FindKelas, FindModul, FindIsi, CheckModul, Fail
<1>3. ASSUME NEW r \in Requests, Write(r)
      PROVE  /\ Ends(r) /\ req[r].op \in {"delete", "remove"} /\ req[r].kelas = l[1]
             /\ req[r].op = "remove" => req[r].modul = l[2]
  <2>1. CASE DeleteKelas(r)
    <3>1. Ends(r) /\ req[r].op = "delete"
      BY <2>1, EndEnds, AboutToWrite DEF DeleteKelas
    <3>2. l \in {req[r].kelas} \X Modul
      BY <2>1 DEF DeleteKelas
    <3> QED
      BY <3>1, <3>2
  <2>2. CASE RemoveModul(r)
    <3>1. Ends(r) /\ req[r].op = "remove"
      BY <2>2, EndEnds, AboutToWrite DEF RemoveModul
    <3>2. l = <<req[r].kelas, req[r].modul>>
      BY <2>2 DEF RemoveModul
    <3> QED
      BY <3>1, <3>2
  <2>3. CASE UpdateKelas(r) \/ AssignModul(r) \/ UpdateModul(r) \/ DeleteModul(r)
             \/ UpdateIsi(r) \/ DeleteIsi(r)
    BY <2>3 DEF UpdateKelas, AssignModul, UpdateModul, DeleteModul, UpdateIsi, DeleteIsi
  <2>4. ASSUME NEW i \in Isi, CreateIsi(r, i)
        PROVE  FALSE
    BY <2>4 DEF CreateIsi
  <2> QED
    BY <1>3, <2>1, <2>2, <2>3, <2>4 DEF Write
<1> QED
  BY <1>1, <1>2, <1>3 DEF Next

(* No update and no assignment loses a row or a link, whatever older state *)
(* it was made from.                                                       *)
THEOREM LossesRequested == Spec => LostOnlyOnRequest
<1>1. IInv /\ [Next]_vars =>
        [/\ \A x \in rows \ rows' : \E r \in Requests :
              /\ Ends(r) /\ req[r].op = "delete" /\ req[r].guru = GuruOf(x)
              /\ IF x \in Isi /\ req[r].isi = None THEN req[r].modul = modulOf[x]
                                                   ELSE x \in {req[r].isi, req[r].kelas, req[r].modul}
         /\ \A l \in links \ links' : \E r \in Requests :
              /\ Ends(r) /\ req[r].op \in {"delete", "remove"} /\ req[r].kelas = l[1]
              /\ req[r].op = "remove" => req[r].modul = l[2]]_vars
  BY RowLost, LinkLost
<1> QED
  BY <1>1, Invariance, PTL DEF Spec, LostOnlyOnRequest
=============================================================================
