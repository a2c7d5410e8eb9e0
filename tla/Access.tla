------------------------------- MODULE Access -------------------------------
(***************************************************************************)
(* Who may enter and as whom: the accounts of the guru (guru_service.go),  *)
(* the codes of their kelas (kelas_service.go), the siswa who join with    *)
(* such a code or are put on the list (siswa_service.go), and the pages    *)
(* that a siswa opens with the token of that join (siswa_belajar.go,       *)
(* soal_service.go).                                                       *)
(*                                                                         *)
(* A request looks things up and then writes, in statements of their own;  *)
(* no transaction and no lock spans two of them, so requests interleave    *)
(* between the steps below.  What keeps the tables sound is in the schema: *)
(* unique indexes on the email of a guru and on the code of a kelas, and a *)
(* foreign key from siswa to kelas.  No index makes the names of the siswa *)
(* of a kelas unique.                                                      *)
(***************************************************************************)
EXTENDS Naturals, Sequences, FiniteSets, FiniteSetsExt

CONSTANTS
  Requests,
  Emails, Passwords,
  Codes,      (* what GenerateKodeKelas can draw                             *)
  Names,      (* of siswa                                                    *)
  DbFails,    (* whether statements can fail                                 *)
  None

ASSUME AccessAssumption ==
  /\ IsFiniteSet(Requests) /\ DbFails \in BOOLEAN
  /\ Emails # {} /\ Passwords # {} /\ Codes # {}
  /\ None \notin Passwords

VARIABLES
  guru,       (* table gurus: id -> email and password                       *)
  kelas,      (* kelas: id -> code and guru, also of those deleted           *)
  ada,        (* ids of the kelas that exist                                 *)
  links,      (* kelas_moduls: the kelas with the modul of the pages         *)
  siswa,      (* siswas: id -> kelas and nama; they go with their kelas      *)
  masuk,      (* guru who have a token                                       *)
  tokens,     (* siswa who have a token, which also names their kelas        *)
  at,         (* where each request is                                       *)
  form,       (* what it asks                                                *)
  copy,       (* what it has read: a row, a code, a kelas, checks passed     *)
  reply,      (* the id it was answered with, 0 for a refusal                *)
  raced,      (* history: requests that write what another has just written  *)
  blind,      (* history: joins whose look-up failed and found nobody        *)
  open        (* history: pages that were open at some moment of the request *)

tables  == <<guru, kelas, ada, links, siswa>>
holders == <<masuk, tokens>>
request == <<at, form, copy, reply>>
history == <<raced, blind, open>>
vars    == <<tables, holders, request, history>>

(* A guru with a kelas, which has been given a modul; nobody has joined.   *)
Init ==
  /\ \E e \in Emails, p \in Passwords : guru = <<[email |-> e, pw |-> p]>>
  /\ \E c \in Codes : kelas = <<[kode |-> c, guru |-> 1]>>
  /\ ada = {1} /\ links = {1}
  /\ siswa = <<>>
  /\ masuk = {1} /\ tokens = {}
  /\ at = [r \in Requests |-> "new"]
  /\ form = [r \in Requests |-> None]
  /\ copy = [r \in Requests |-> None]
  /\ reply = [r \in Requests |-> 0]
  /\ raced = {} /\ blind = {} /\ open = {}

-----------------------------------------------------------------------------
(* The life of a request.                                                  *)

Goto(r, l, c) ==
  /\ at' = [at EXCEPT ![r] = l]
  /\ copy' = [copy EXCEPT ![r] = c]
  /\ UNCHANGED <<form, reply>>

Answer(r, id) ==
  /\ at' = [at EXCEPT ![r] = "done"]
  /\ copy' = [copy EXCEPT ![r] = None]
  /\ reply' = [reply EXCEPT ![r] = id]
  /\ UNCHANGED form

Refuse(r) == Answer(r, 0)

(* A statement fails and the request with it.                              *)
Fails(r) ==
  /\ DbFails
  /\ at[r] \notin {"new", "done"}
  /\ Refuse(r)
  /\ UNCHANGED <<tables, holders, history>>

(* A request op of guru or siswa by (0 is anybody) arrives, and has passed *)
(* the middleware.                                                         *)
Ask(r, op, by, key, val) ==
  /\ at[r] = "new"
  /\ at' = [at EXCEPT ![r] = op]
  /\ form' = [form EXCEPT ![r] = [op |-> op, by |-> by, key |-> key, val |-> val,
                                  after |-> {q \in Requests : at[q] = "done"}]]
  /\ copy' = [copy EXCEPT ![r] = None]
  /\ UNCHANGED <<tables, holders, reply, raced, blind>>

-----------------------------------------------------------------------------
(* Tokens: signed, and kept by nobody, so that they cannot be taken back.  *)

GenerateToken(ss) == tokens' = tokens \cup ss
VerifyToken(s)    == s \in tokens

GenerateGuruToken(gs) == masuk' = masuk \cup gs
VerifyGuruToken(g)    == g \in masuk

-----------------------------------------------------------------------------
(* Accounts of guru.                                                       *)

AskAccount(r) ==
  /\ \E op \in {"register", "login"}, e \in Emails, p \in Passwords : Ask(r, op, 0, e, p)
  /\ UNCHANGED open

(* A new name, a new password or both.                                     *)
AskProfile(r) ==
  /\ \E g \in DOMAIN guru, p \in Passwords \cup {None} :
       VerifyGuruToken(g) /\ Ask(r, "update", g, None, p)
  /\ UNCHANGED open

OfEmail(e) == {g \in DOMAIN guru : guru[g].email = e}

(* Register drops the error of its look-up: it counts as a free email.     *)
FindEmail(r) ==
  /\ at[r] = "register"
  /\ \E found \in {OfEmail(form[r].key) # {}} \cup (IF DbFails THEN {FALSE} ELSE {}) :
       IF found THEN Refuse(r) ELSE Goto(r, "insert_guru", None)
  /\ UNCHANGED <<tables, holders, history>>

InsertGuru(r) ==
  /\ at[r] = "insert_guru"
  /\ IF OfEmail(form[r].key) = {}
       THEN /\ guru' = Append(guru, [email |-> form[r].key, pw |-> form[r].val])
            /\ Answer(r, Len(guru'))
       ELSE Refuse(r) /\ UNCHANGED guru
  /\ UNCHANGED <<kelas, ada, links, siswa, holders, history>>

Login(r) ==
  LET mine == {g \in OfEmail(form[r].key) : guru[g].pw = form[r].val} IN
  /\ at[r] = "login"
  /\ IF mine = {} THEN Refuse(r) ELSE Answer(r, Min(mine))
  /\ GenerateGuruToken(mine)
  /\ UNCHANGED <<tables, tokens, history>>

(* Mutant: the password is wiped from the struct that is saved next.       *)
ReadProfile_Wiped(r) ==
  /\ at[r] = "update"
  /\ Goto(r, "save", [guru[form[r].by] EXCEPT !.pw = form[r].val])
  /\ UNCHANGED <<tables, holders, history>>

(* UpdateProfile reads the row and changes the name, which is left out,    *)
(* or the password if the request has one.                                 *)
ReadProfile(r) ==
  /\ at[r] = "update"
  /\ Goto(r, "save", [guru[form[r].by] EXCEPT !.pw = IF form[r].val = None THEN @ ELSE form[r].val])
  /\ UNCHANGED <<tables, holders, history>>

(* Save writes all columns, as they were read.                             *)
SaveProfile(r) ==
  /\ at[r] = "save"
  /\ guru' = [guru EXCEPT ![form[r].by] = copy[r]]
  /\ raced' = raced \cup {q \in Requests \ {r} : at[q] = "save" /\ form[q].by = form[r].by}
  /\ Answer(r, form[r].by)
  /\ UNCHANGED <<kelas, ada, links, siswa, holders, blind, open>>

-----------------------------------------------------------------------------
(* Kelas and their codes.                                                  *)

AskKelas(r) ==
  /\ \E g \in DOMAIN guru : VerifyGuruToken(g) /\ Ask(r, "create", g, None, None)
  /\ UNCHANGED open

OfKode(c) == {k \in ada : kelas[k].kode = c}

(* CreateKelas draws until it finds a code that no kelas has.              *)
DrawKode(r) ==
  /\ at[r] = "create"
  /\ \E c \in Codes : OfKode(c) = {} /\ Goto(r, "insert_kelas", c)
  /\ UNCHANGED <<tables, holders, history>>

(* Mutant: the column of the code has no unique index.                     *)
InsertKelas_NoIndex(r) ==
  /\ at[r] = "insert_kelas"
  /\ kelas' = Append(kelas, [kode |-> copy[r], guru |-> form[r].by])
  /\ ada' = ada \cup {Len(kelas')}
  /\ Answer(r, Len(kelas'))
  /\ UNCHANGED <<guru, links, siswa, holders, history>>

InsertKelas(r) ==
  /\ at[r] = "insert_kelas"
  /\ IF OfKode(copy[r]) = {}
       THEN /\ kelas' = Append(kelas, [kode |-> copy[r], guru |-> form[r].by])
            /\ ada' = ada \cup {Len(kelas')}
            /\ Answer(r, Len(kelas'))
       ELSE Refuse(r) /\ UNCHANGED <<kelas, ada>>
  /\ UNCHANGED <<guru, links, siswa, holders, history>>

(* Mutant: the cascade forgets kelas_moduls.                               *)
DeleteKelas_KeepsLinks(k) ==
  /\ k \in ada /\ VerifyGuruToken(kelas[k].guru)
  /\ ada' = ada \ {k}
  /\ UNCHANGED <<guru, kelas, links, siswa, holders, request, history>>

(* The transaction that deletes a kelas with its siswa and its links; its  *)
(* statements are in Classroom.                                            *)
DeleteKelas(k) ==
  /\ k \in ada /\ VerifyGuruToken(kelas[k].guru)
  /\ ada' = ada \ {k}
  /\ links' = links \ {k}
  /\ UNCHANGED <<guru, kelas, siswa, holders, request, history>>

(* The modul is assigned to a kelas and removed from it; the races of      *)
(* these two are in Curriculum.                                            *)
AssignModul(k) ==
  /\ k \in ada \ links /\ VerifyGuruToken(kelas[k].guru)
  /\ links' = links \cup {k}
  /\ open' = open \cup {r \in Requests : at[r] = "page" /\ siswa[form[r].by].kelas = k}
  /\ UNCHANGED <<guru, kelas, ada, siswa, holders, request, raced, blind>>

RemoveModul(k) ==
  /\ k \in links /\ VerifyGuruToken(kelas[k].guru)
  /\ links' = links \ {k}
  /\ UNCHANGED <<guru, kelas, ada, siswa, holders, request, history>>

-----------------------------------------------------------------------------
(* Siswa: JoinSiswa, by themselves or in a voice conversation, which does  *)
(* not use the token; DaftarkanSiswa, by the guru.                         *)

AskJoin(r) ==
  /\ \/ \E c \in Codes, n \in Names : Ask(r, "join", 0, c, n)
     \/ \E g \in DOMAIN guru, k \in DOMAIN kelas, n \in Names :
          VerifyGuruToken(g) /\ Ask(r, "daftar", g, k, n)
  /\ UNCHANGED open

FindKelas(r) ==
  /\ at[r] \in {"join", "daftar"}
  /\ LET found == IF at[r] = "join" THEN OfKode(form[r].key)
                  ELSE {k \in ada : k = form[r].key /\ kelas[k].guru = form[r].by}
     IN IF found = {} THEN Refuse(r) ELSE Goto(r, "find_siswa", Min(found))
  /\ UNCHANGED <<tables, holders, history>>

Exists(s) == siswa[s].kelas \in ada

Namesakes(r) ==
  {s \in DOMAIN siswa : Exists(s) /\ siswa[s] = [kelas |-> copy[r], nama |-> form[r].val]}

(* Mutant: the look-up returns the latest row.                             *)
TheOne_Latest(rows) == Max(rows)

(* First orders by id.                                                     *)
TheOne(rows) == Min(rows)

(* A name that is found is the siswa who joins, and a conflict for the     *)
(* guru; in both, an error counts as nobody found.                         *)
FindSiswa(r) ==
  LET rows == Namesakes(r) IN
  /\ at[r] = "find_siswa"
  /\ \/ /\ rows # {} /\ form[r].op = "join"
        /\ Answer(r, TheOne(rows))
        /\ GenerateToken({TheOne(rows)})
        /\ UNCHANGED blind
     \/ /\ rows # {} /\ form[r].op = "daftar"
        /\ Refuse(r)
        /\ UNCHANGED <<tokens, blind>>
     \/ /\ rows = {} \/ DbFails
        /\ Goto(r, "insert_siswa", copy[r])
        /\ blind' = IF rows = {} THEN blind ELSE blind \cup {r}
        /\ UNCHANGED tokens
  /\ UNCHANGED <<tables, masuk, raced, open>>

(* The foreign key refuses a siswa of a kelas that has been deleted.       *)
InsertSiswa(r) ==
  /\ at[r] = "insert_siswa"
  /\ IF copy[r] \in ada
       THEN /\ siswa' = Append(siswa, [kelas |-> copy[r], nama |-> form[r].val])
            /\ GenerateToken(IF form[r].op = "join" THEN {Len(siswa')} ELSE {})
            /\ raced' = raced \cup {q \in Requests \ {r} :
                          at[q] = "insert_siswa" /\ copy[q] = copy[r] /\ form[q].val = form[r].val}
            /\ Answer(r, Len(siswa'))
       ELSE Refuse(r) /\ UNCHANGED <<siswa, tokens, raced>>
  /\ UNCHANGED <<guru, kelas, ada, links, masuk, blind, open>>

-----------------------------------------------------------------------------
(* Pages of a siswa.                                                       *)

(* What each page looks up before it shows anything, one query each: that  *)
(* the siswa of the token is in the table, that the kelas of the token is, *)
(* and that the modul of the address is linked to that kelas.              *)
Checks == [materi |-> <<"siswa", "link">>,
           detail |-> <<"siswa", "link">>,
           kelas  |-> <<"kelas", "siswa">>,
           soal   |-> <<"link">>]

Holds(check, s) ==
  CASE check = "siswa" -> Exists(s)
    [] check = "kelas" -> siswa[s].kelas \in ada
    [] check = "link"  -> siswa[s].kelas \in links

(* The siswa comes with a token: the middleware first looks for one whose  *)
(* session_id is in the header, a column that nothing ever writes.         *)
AskPage(r) ==
  \E s \in DOMAIN siswa, page \in DOMAIN Checks :
    /\ VerifyToken(s)
    /\ Ask(r, "page", s, page, None)
    /\ open' = IF siswa[s].kelas \in (IF page = "kelas" THEN ada ELSE ada \cap links)
                THEN open \cup {r} ELSE open

Page(r) ==
  LET checks == Checks[form[r].key]
      n      == IF copy[r] = None THEN 1 ELSE copy[r]
  IN
  /\ at[r] = "page"
  /\ IF ~Holds(checks[n], form[r].by) THEN Refuse(r)
     ELSE IF n < Len(checks) THEN Goto(r, "page", n + 1)
     ELSE Answer(r, siswa[form[r].by].kelas)
  /\ UNCHANGED <<tables, holders, history>>

-----------------------------------------------------------------------------
Step(r) ==
  \/ AskAccount(r) \/ FindEmail(r) \/ InsertGuru(r) \/ Login(r)
  \/ AskProfile(r) \/ ReadProfile(r) \/ SaveProfile(r)
  \/ AskKelas(r) \/ DrawKode(r) \/ InsertKelas(r)
  \/ AskJoin(r) \/ FindKelas(r) \/ FindSiswa(r) \/ InsertSiswa(r)
  \/ AskPage(r) \/ Page(r) \/ Fails(r)

Next ==
  \/ \E r \in Requests : Step(r)
  \/ \E k \in DOMAIN kelas : DeleteKelas(k) \/ AssignModul(k) \/ RemoveModul(k)

Spec == Init /\ [][Next]_vars

-----------------------------------------------------------------------------
(* Properties.                                                             *)

(* An email leads to one guru and a code to one kelas, although both are   *)
(* looked up in one statement and inserted in another, and the error of    *)
(* the first look-up is dropped.                                           *)
KeysAreOne ==
  /\ \A e \in Emails : Cardinality(OfEmail(e)) <= 1
  /\ \A c \in Codes : Cardinality(OfKode(c)) <= 1

(* The password of a guru changes only by a request that gives the new one,*)
(* unless that request has read the row before another one has saved it:   *)
(* Save then puts back a password that was changed in between.             *)
PasswordStays ==
  [][\A g \in DOMAIN guru : guru'[g].pw # guru[g].pw =>
       \E r \in Requests :
         /\ at[r] = "save" /\ at'[r] = "done" /\ form[r].by = g
         /\ (form[r].val \in Passwords /\ form[r].val = guru'[g].pw) \/ r \in raced]_vars

(* Who joins a kelas again, under the same name, is the same siswa and has *)
(* the same progress and answers, whatever others do meanwhile: unless the *)
(* first join has lost a race against a namesake, or a look-up has failed. *)
SameSiswaAgain ==
  \A i, j \in Requests :
    /\ at[j] = "done" /\ form[j].op = "join" /\ reply[j] # 0
    /\ i \in form[j].after /\ form[i].op = "join" /\ reply[i] # 0
    /\ siswa[reply[i]] = siswa[reply[j]]
    /\ i \notin raced \cup blind /\ j \notin blind
    => reply[i] = reply[j]

(* A siswa is shown a page only if at some moment of the request the kelas *)
(* existed and had the modul: a token outlives the kelas by up to twelve   *)
(* hours and is good for nothing then, and the page of the soal relies on  *)
(* the links alone.                                                        *)
PagesAreOpen ==
  \A r \in Requests : at[r] = "done" /\ form[r].op = "page" /\ reply[r] # 0 => r \in open
=============================================================================
