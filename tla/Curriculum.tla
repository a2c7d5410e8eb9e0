----------------------------- MODULE Curriculum ----------------------------
(***************************************************************************)
(* What the guru keep: kelas, modul, the materi and soal of a modul, and   *)
(* the links between kelas and modul.  A request reads the row it works on *)
(* (FindByIDAndGuruID, with the rows preloaded that hang on it), checks    *)
(* whose it is, and writes in a later statement; requests run beside each  *)
(* other, and no transaction spans the two.                                *)
(*                                                                         *)
(* Writes go through gorm: Save writes the row and what was preloaded with *)
(* it, and inserts what is gone (INSERT ... ON CONFLICT).  So a request    *)
(* may bring back a row which another has deleted meanwhile.  The database *)
(* keeps the foreign keys of the model tags.  A request that is refused or *)
(* fails changes nothing: of look-ups only the successful ones are steps.  *)
(* Codes, names and texts are left out; the siswa of a kelas and the       *)
(* deletion of a kelas statement by statement are in Classroom.            *)
(***************************************************************************)
EXTENDS Naturals, FiniteSets

CONSTANTS
  Guru, Kelas, Modul,
  Isi,        (* ids of materi and soal                                      *)
  Requests,   (* at most so many requests at a time                          *)
  None

ASSUME CurriculumAssumption ==
  /\ Kelas \cap Modul = {} /\ Isi \cap (Kelas \cup Modul) = {}
  /\ None \notin Guru \cup Kelas \cup Modul \cup Isi

VARIABLES
  rows,       (* the rows of kelas, moduls, materis and soals, by id         *)
  links,      (* kelas_moduls                                                *)
  guru,       (* whose a kelas or modul is; None while the id is not given   *)
  modulOf,    (* the modul of a materi or soal, likewise                     *)
  req         (* what each request under way has read, and is to write       *)

vars == <<rows, links, guru, modulOf, req>>

Init ==
  /\ rows = {}
  /\ links = {}
  /\ guru = [x \in Kelas \cup Modul |-> None]
  /\ modulOf = [i \in Isi |-> None]
  /\ req = [r \in Requests |-> None]

Linked(k) == {m \in Modul : <<k, m>> \in links}
IsiOf(m)  == {i \in Isi \cap rows : modulOf[i] = m}

-----------------------------------------------------------------------------
(* First statements.                                                       *)

(* CreateKelas and CreateModul: ids are never given twice.                 *)
Create(g, x) ==
  /\ x \in Kelas \cup Modul
  /\ guru[x] = None
  /\ guru' = [guru EXCEPT ![x] = g]
  /\ rows' = rows \cup {x}
  /\ UNCHANGED <<links, modulOf, req>>

(* seen: what was preloaded; late (history): which of it is gone since.    *)
Begin(r, op, g, k, m, i, seen, at) ==
  req' = [req EXCEPT ![r] = [op |-> op, guru |-> g, kelas |-> k, modul |-> m, isi |-> i,
                             seen |-> seen, late |-> {}, at |-> at]]

(* UpdateKelas, DeleteKelas, AssignModul and RemoveModul.                  *)
FindKelas(r, g, k) ==
  /\ req[r] = None
  /\ k \in rows
  /\ guru[k] = g
  /\ \/ Begin(r, "update", g, k, None, None, Linked(k), "write")
     \/ Begin(r, "delete", g, k, None, None, {}, "write")
     \/ \E m \in Modul : guru[m] # None /\ \/ Begin(r, "assign", g, k, m, None, Linked(k), "modul")
                                           \/ Begin(r, "remove", g, k, m, None, {}, "write")
  /\ UNCHANGED <<rows, links, guru, modulOf>>

(* UpdateModul, DeleteModul, and the CreateManual of a materi or soal.     *)
FindModul(r, g, m) ==
  /\ req[r] = None
  /\ m \in rows
  /\ guru[m] = g
  /\ \/ Begin(r, "update", g, None, m, None, IsiOf(m), "write")
     \/ Begin(r, "delete", g, None, m, None, {}, "write")
     \/ Begin(r, "create", g, None, m, None, {}, "write")
  /\ UNCHANGED <<rows, links, guru, modulOf>>

(* Mutant: the id in the path is believed.                                 *)
FindIsi_Unread(r, g, i) ==
  /\ req[r] = None
  /\ modulOf[i] # None
  /\ \/ Begin(r, "update", g, None, modulOf[i], i, {}, "modul")
     \/ Begin(r, "delete", g, None, modulOf[i], i, {}, "modul")
  /\ UNCHANGED <<rows, links, guru, modulOf>>

(* Update and Delete of a materi or soal.                                  *)
FindIsi(r, g, i) ==
  /\ req[r] = None
  /\ i \in rows
  /\ \/ Begin(r, "update", g, None, modulOf[i], i, {}, "modul")
     \/ Begin(r, "delete", g, None, modulOf[i], i, {}, "modul")
  /\ UNCHANGED <<rows, links, guru, modulOf>>

(* Mutant: FindByID in place of FindByIDAndGuruID.                         *)
CheckModul_AnyGuru(r) ==
  /\ req[r] # None /\ req[r].at = "modul"
  /\ req[r].modul \in rows
  /\ req' = [req EXCEPT ![r].at = "write"]
  /\ UNCHANGED <<rows, links, guru, modulOf>>

(* The second look-up of AssignModul, validateMateriOwnership and          *)
(* validateSoalOwnership: the modul, and whose it is.                      *)
CheckModul(r) ==
  /\ req[r] # None /\ req[r].at = "modul"
  /\ req[r].modul \in rows
  /\ guru[req[r].modul] = req[r].guru
  /\ req' = [req EXCEPT ![r].at = "write"]
  /\ UNCHANGED <<rows, links, guru, modulOf>>

-----------------------------------------------------------------------------
(* Last statements.                                                        *)

(* The table a request writes to.                                          *)
Table(r) ==
  IF req[r].isi # None THEN "isi" ELSE IF req[r].kelas # None THEN "kelas" ELSE "modul"

Writes(r, op, table) ==
  /\ req[r] # None /\ req[r].at = "write"
  /\ req[r].op = op /\ Table(r) = table

(* What a request under way has read, or is to write.                      *)
Holds(r) ==
  {req[r].kelas, req[r].modul, req[r].isi} \cup req[r].seen \cup ({req[r].kelas} \X req[r].seen)

(* The request is answered; others under way are late for what is gone.    *)
End(r, gone) ==
  req' = [q \in Requests |-> IF q = r \/ req[q] = None THEN None
                             ELSE [req[q] EXCEPT !.late = @ \cup (gone \cap Holds(q))]]

(* Save of a kelas: the moduls preloaded with it are inserted where gone,  *)
(* and linked.  If the kelas itself is gone no link can be made, and it is *)
(* inserted again only if none is to be (nor a siswa: it may fail).        *)
UpdateKelas(r) ==
  LET k == req[r].kelas
      L == req[r].seen
  IN  /\ Writes(r, "update", "kelas")
      /\ k \in rows \/ L = {}
      /\ rows' = rows \cup {k} \cup L
      /\ links' = links \cup ({k} \X L)
      /\ End(r, {})
      /\ UNCHANGED <<guru, modulOf>>

(* DeleteWithCascade; the modul stay.                                      *)
DeleteKelas(r) ==
  LET k == req[r].kelas
  IN  /\ Writes(r, "delete", "kelas")
      /\ rows' = rows \ {k}
      /\ links' = links \ ({k} \X Modul)
      /\ End(r, {k} \cup ({k} \X Linked(k)))
      /\ UNCHANGED <<guru, modulOf>>

(* Mutant: Association.Replace in place of Append.                         *)
AssignModul_Replace(r) ==
  LET k == req[r].kelas
      L == req[r].seen \cup {req[r].modul}
  IN  /\ Writes(r, "assign", "kelas")
      /\ k \in rows
      /\ rows' = rows \cup L
      /\ links' = (links \ ({k} \X Modul)) \cup ({k} \X L)
      /\ End(r, {})
      /\ UNCHANGED <<guru, modulOf>>

(* Association.Append writes the links preloaded with the kelas as well.   *)
AssignModul(r) ==
  LET k == req[r].kelas
      L == req[r].seen \cup {req[r].modul}
  IN  /\ Writes(r, "assign", "kelas")
      /\ k \in rows
      /\ rows' = rows \cup L
      /\ links' = links \cup ({k} \X L)
      /\ End(r, {})
      /\ UNCHANGED <<guru, modulOf>>

RemoveModul(r) ==
  /\ Writes(r, "remove", "kelas")
  /\ links' = links \ {<<req[r].kelas, req[r].modul>>}
  /\ End(r, links \cap {<<req[r].kelas, req[r].modul>>})
  /\ UNCHANGED <<rows, guru, modulOf>>

(* Save of a modul with the materi and soal preloaded, likewise.           *)
UpdateModul(r) ==
  LET m == req[r].modul
  IN  /\ Writes(r, "update", "modul")
      /\ m \in rows \/ req[r].seen = {}
      /\ rows' = rows \cup {m} \cup req[r].seen
      /\ End(r, {})
      /\ UNCHANGED <<links, guru, modulOf>>

(* Its materi and soal go with it (OnDelete:CASCADE); a modul that is      *)
(* linked cannot be deleted.                                               *)
DeleteModul(r) ==
  LET m == req[r].modul
  IN  /\ Writes(r, "delete", "modul")
      /\ \A k \in Kelas : <<k, m>> \notin links
      /\ rows' = rows \ ({m} \cup IsiOf(m))
      /\ End(r, {m} \cup IsiOf(m))
      /\ UNCHANGED <<links, guru, modulOf>>

(* CreateManual of a materi or soal.                                       *)
CreateIsi(r, i) ==
  /\ Writes(r, "create", "modul")
  /\ req[r].modul \in rows
  /\ modulOf[i] = None
  /\ modulOf' = [modulOf EXCEPT ![i] = req[r].modul]
  /\ rows' = rows \cup {i}
  /\ End(r, {})
  /\ UNCHANGED <<links, guru>>

(* Mutant: the tables are made without foreign keys.                       *)
UpdateIsi_NoForeignKey(r) ==
  /\ Writes(r, "update", "isi")
  /\ rows' = rows \cup {req[r].isi}
  /\ End(r, {})
  /\ UNCHANGED <<links, guru, modulOf>>

(* Save of one materi or soal.                                             *)
UpdateIsi(r) ==
  /\ Writes(r, "update", "isi")
  /\ req[r].modul \in rows
  /\ rows' = rows \cup {req[r].isi}
  /\ End(r, {})
  /\ UNCHANGED <<links, guru, modulOf>>

DeleteIsi(r) ==
  /\ Writes(r, "delete", "isi")
  /\ rows' = rows \ {req[r].isi}
  /\ End(r, {req[r].isi})
  /\ UNCHANGED <<links, guru, modulOf>>

(* A request is refused, its statement fails, or the process is restarted. *)
Fail(r) ==
  /\ req[r] # None
  /\ End(r, {})
  /\ UNCHANGED <<rows, links, guru, modulOf>>

Find(r) ==
  \E g \in Guru :
    \/ \E k \in Kelas : FindKelas(r, g, k)
    \/ \E m \in Modul : FindModul(r, g, m)
    \/ \E i \in Isi : FindIsi(r, g, i)

Write(r) ==
  \/ UpdateKelas(r) \/ DeleteKelas(r) \/ AssignModul(r) \/ RemoveModul(r)
  \/ UpdateModul(r) \/ DeleteModul(r)
  \/ \E i \in Isi : CreateIsi(r, i)
  \/ UpdateIsi(r) \/ DeleteIsi(r)

Next ==
  \/ \E g \in Guru, x \in Kelas \cup Modul : Create(g, x)
  \/ \E r \in Requests : Find(r) \/ CheckModul(r) \/ Write(r) \/ Fail(r)

Spec == Init /\ [][Next]_vars

-----------------------------------------------------------------------------
(* Properties.                                                             *)

Request ==
  [op : {"update", "delete", "assign", "remove", "create"}, guru : Guru,
   kelas : Kelas \cup {None}, modul : Modul \cup {None}, isi : Isi \cup {None},
   seen : SUBSET (Modul \cup Isi), late : SUBSET (Kelas \cup Modul \cup Isi \cup Kelas \X Modul),
   at : {"modul", "write"}]

(* Type invariant, and the foreign keys: whatever comes back comes back to *)
(* rows that are there.                                                    *)
ReferencesHold ==
  /\ rows \subseteq Kelas \cup Modul \cup Isi
  /\ links \subseteq (Kelas \cap rows) \X (Modul \cap rows)
  /\ guru \in [Kelas \cup Modul -> Guru \cup {None}]
  /\ modulOf \in [Isi -> Modul \cup {None}]
  /\ req \in [Requests -> Request \cup {None}]
  /\ \A x \in rows : IF x \in Isi THEN modulOf[x] \in rows ELSE guru[x] # None

(* A kelas is linked with modul of its own guru only, also with those that *)
(* come back with an old copy of the kelas.                                *)
LinksWithinOneGuru == \A l \in links : guru[l[1]] = guru[l[2]]

Ends(r) == req[r] # None /\ req'[r] = None
GuruOf(x) == IF x \in Isi THEN guru[modulOf[x]] ELSE guru[x]

(* A row or a link is lost only by a request of its guru to delete it, the *)
(* modul it belongs to, or the kelas; never by an update or an assignment  *)
(* that had read an older state.                                           *)
LostOnlyOnRequest ==
  [][/\ \A x \in rows \ rows' : \E r \in Requests :
          /\ Ends(r) /\ req[r].op = "delete" /\ req[r].guru = GuruOf(x)
          /\ IF x \in Isi /\ req[r].isi = None THEN req[r].modul = modulOf[x]
                                               ELSE x \in {req[r].isi, req[r].kelas, req[r].modul}
     /\ \A l \in links \ links' : \E r \in Requests :
          /\ Ends(r) /\ req[r].op \in {"delete", "remove"} /\ req[r].kelas = l[1]
          /\ req[r].op = "remove" => req[r].modul = l[2]]_vars

(* What is deleted comes back only by a request that was under way when it *)
(* was deleted, and a modul taken off a kelas is on it again only by one   *)
(* that was under way then, or because it was assigned again: with nobody  *)
(* else at work a deletion and a removal are final.                        *)
ReturnsOnlyIfRaced ==
  [][/\ \A x \in rows' \ rows :
          (IF x \in Isi THEN modulOf[x] ELSE guru[x]) # None
            => \E r \in Requests : Ends(r) /\ x \in req[r].late
     /\ \A l \in links' \ links : \E r \in Requests :
          Ends(r) /\ \/ l \in req[r].late
                     \/ req[r].op = "assign" /\ l = <<req[r].kelas, req[r].modul>>]_vars
=============================================================================
