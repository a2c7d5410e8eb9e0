---------------------------- MODULE AccessProofs ----------------------------
(***************************************************************************)
(* What holds of Access for any number of requests, accounts, kelas and    *)
(* siswa.  A request writes, and is answered from, what it read some steps *)
(* ago, so the invariant says of each request under way what is still true *)
(* of that: its row, its kelas, its name that nobody else has.             *)
(***************************************************************************)
EXTENDS Access, FiniteSetTheorems, TLAPS

Profile == [email : Emails, pw : Passwords]
Siswa   == [kelas : Nat, nama : Names]

(* Emails and codes are unique, ids are rows, rows refer to kelas.         *)
TablesOK ==
  /\ guru \in Seq(Profile)
  /\ \A g, h \in DOMAIN guru : guru[g].email = guru[h].email => g = h
  /\ kelas \in Seq([kode : Codes, guru : Nat])
  /\ ada \subseteq DOMAIN kelas
  /\ \A k, l \in ada : kelas[k].kode = kelas[l].kode => k = l
  /\ links \subseteq ada
  /\ siswa \in Seq(Siswa)
  /\ \A s \in DOMAIN siswa : siswa[s].kelas \in DOMAIN kelas
  /\ masuk \subseteq DOMAIN guru
  /\ tokens \subseteq DOMAIN siswa

RequestsAre == 
  /\ at    = [r \in Requests |-> at[r]]
  /\ form  = [r \in Requests |-> form[r]]
  /\ copy  = [r \in Requests |-> copy[r]]
  /\ reply = [r \in Requests |-> reply[r]]

(* What is asked in the steps of each request.                             *)
FormOK(r) ==
  /\ at[r] \in {"register", "insert_guru"} =>
       form[r].op = "register" /\ form[r].key \in Emails /\ form[r].val \in Passwords
  /\ at[r] = "login" => form[r].op = "login"
  /\ at[r] \in {"update", "save"} =>
       /\ form[r].op = "update" /\ form[r].by \in DOMAIN guru
       /\ form[r].val \in Passwords \cup {None}
  /\ at[r] \in {"create", "insert_kelas"} => form[r].op = "create" /\ form[r].by \in Nat
  /\ at[r] = "insert_kelas" => copy[r] \in Codes
  /\ at[r] \in {"join", "daftar"} => form[r].op = at[r] /\ form[r].val \in Names
  /\ at[r] \in {"find_siswa", "insert_siswa"} =>
       /\ form[r].op \in {"join", "daftar"} /\ form[r].val \in Names
       /\ copy[r] \in DOMAIN kelas
  /\ at[r] = "page" =>
       /\ form[r].op = "page" /\ form[r].by \in DOMAIN siswa /\ form[r].key \in DOMAIN Checks
       /\ copy[r] = None \/ (copy[r] = 2 /\ form[r].key # "soal")

(* The row that is about to be saved is that of its guru, and has the old  *)
(* password only if nobody has saved in between.                           *)
SaveOK(r) ==
  at[r] = "save" =>
    /\ copy[r] \in Profile
    /\ copy[r].email = guru[form[r].by].email
    /\ form[r].val \in Passwords => copy[r].pw = form[r].val
    /\ form[r].val = None /\ r \notin raced => copy[r].pw = guru[form[r].by].pw

(* A page that could be shown now is counted as open.                      *)
ShowOK(r) ==
  /\ at[r] = "page" =>
       LET k == siswa[form[r].by].kelas
       IN (IF form[r].key = "kelas" THEN k \in ada ELSE k \in links) => r \in open
  /\ at[r] = "done" /\ form[r].op = "page" /\ reply[r] # 0 => r \in open

FirstOf(s) == \A u \in DOMAIN siswa : siswa[u] = siswa[s] => s <= u

Wanted(r) == [kelas |-> copy[r], nama |-> form[r].val]

(* Requests that were over when r was asked still are.                     *)
AfterOK(r) ==
  at[r] # "new" => \A i \in form[r].after : i \in Requests /\ at[i] = "done"

(* Who is about to be enrolled is not in the table, and who has joined is  *)
(* the first of that name in that kelas: unless raced or blind.            *)
JoinOK(r) ==
  /\ at[r] = "insert_siswa" /\ copy[r] \in ada /\ r \notin blind =>
       /\ r \notin raced => \A u \in DOMAIN siswa : siswa[u] # Wanted(r)
       /\ \A i \in form[r].after :
            form[i].op = "join" /\ reply[i] # 0 => siswa[reply[i]] # Wanted(r)
  /\ at[r] = "done" /\ form[r].op = "join" /\ reply[r] # 0 =>
       /\ reply[r] \in DOMAIN siswa
       /\ r \notin raced \cup blind => FirstOf(reply[r])

(* Who joins again, as SameSiswaAgain has it.                              *)
AgainOK(r) ==
  at[r] = "done" /\ form[r].op = "join" /\ reply[r] # 0 /\ r \notin blind =>
    \A i \in form[r].after :
      /\ form[i].op = "join" /\ reply[i] # 0 /\ i \notin raced \cup blind
      /\ siswa[reply[i]] = siswa[reply[r]]
      => reply[i] = reply[r]

RequestOK(r) ==
  FormOK(r) /\ SaveOK(r) /\ ShowOK(r) /\ AfterOK(r) /\ JoinOK(r) /\ AgainOK(r)

IInv == TablesOK /\ RequestsAre /\ \A r \in Requests : RequestOK(r)

-----------------------------------------------------------------------------
(* Numbers and sequences.                                                  *)

LEMMA MinIsIn ==
  ASSUME NEW S \in SUBSET Nat, S # {}
  PROVE  Min(S) \in S /\ \A x \in S : Min(S) <= x
<1> DEFINE T == {0 .. x : x \in S}
<1>1. T \subseteq FiniteSubsetsOf(Nat) /\ T # {}
  <2>1. \A x \in S : 0 .. x \subseteq Nat /\ IsFiniteSet(0 .. x)
    BY FS_Interval
  <2> QED
    BY <2>1 DEF FiniteSubsetsOf
<1>2. PICK t \in T : \A u \in T : <<u, t>> \notin StrictSubsetOrdering(Nat)
  <2> HIDE DEF T
  <2> QED
    BY <1>1, FS_StrictSubsetOrderingWellFounded, WFMin
<1>3. PICK x \in S : t = 0 .. x
  BY <1>2
<1>4. ASSUME NEW y \in S, y < x
      PROVE  FALSE
  <2>1. 0 .. y \in T /\ 0 .. y \subseteq 0 .. x /\ x \notin 0 .. y /\ x \in 0 .. x
    BY <1>4
  <2> QED
    BY <1>1, <1>2, <1>3, <2>1 DEF StrictSubsetOrdering, FiniteSubsetsOf
<1>5. \A y \in S : x <= y
  BY <1>4
<1> QED
  BY <1>5 DEF Min

LEMMA Appended ==
  ASSUME NEW S, NEW s \in Seq(S), NEW x \in S
  PROVE  /\ Append(s, x) \in Seq(S)
         /\ Len(Append(s, x)) = Len(s) + 1
         /\ DOMAIN Append(s, x) = DOMAIN s \cup {Len(s) + 1}
         /\ \A i \in DOMAIN s : i \in Nat /\ i < Len(s) + 1 /\ Append(s, x)[i] = s[i]
         /\ Append(s, x)[Len(s) + 1] = x
         /\ Len(s) + 1 \notin DOMAIN s /\ Len(s) + 1 # 0
  OBVIOUS

-----------------------------------------------------------------------------
(* A step of the requests M: what the others may rely on.                  *)

Others(M) ==
  \A q \in Requests \ M :
    at'[q] = at[q] /\ form'[q] = form[q] /\ copy'[q] = copy[q] /\ reply'[q] = reply[q]

(* Rows stay what they are but for a password, which those about to save   *)
(* it learn of; kelas only go; a new siswa has a new id, and those about   *)
(* to enrol the same learn of it; pages that open are counted.             *)
Evolves(M) ==
  /\ \A g \in DOMAIN guru :
       /\ g \in DOMAIN guru' /\ guru'[g].email = guru[g].email
       /\ guru'[g].pw # guru[g].pw =>
            \A q \in Requests \ M : at[q] = "save" /\ form[q].by = g => q \in raced'
  /\ \A k \in DOMAIN kelas : k \in DOMAIN kelas' /\ (k \in ada' => k \in ada)
  /\ \A s \in DOMAIN siswa :
       /\ s \in DOMAIN siswa' /\ siswa'[s] = siswa[s]
       /\ \A u \in DOMAIN siswa' \ DOMAIN siswa : s <= u
  /\ \A u \in DOMAIN siswa' \ DOMAIN siswa : \A q \in Requests \ M :
       at[q] = "insert_siswa" /\ Wanted(q) = siswa'[u] => q \in raced'
  /\ \A q \in Requests \ M :
       at[q] = "page" /\ siswa[form[q].by].kelas \in links'
         => siswa[form[q].by].kelas \in links \/ q \in open'
  /\ raced \subseteq raced' /\ blind \subseteq blind' /\ open \subseteq open'

LEMMA OthersKeep ==
  ASSUME TablesOK, \A q \in Requests : RequestOK(q),
         NEW M \in SUBSET Requests, \A r \in M : at[r] # "done",
         Others(M), Evolves(M), NEW q \in Requests \ M
  PROVE  RequestOK(q)'
<1>1. /\ at'[q] = at[q] /\ form'[q] = form[q] /\ copy'[q] = copy[q] /\ reply'[q] = reply[q]
  BY DEF Others
<1>2. FormOK(q) /\ SaveOK(q) /\ ShowOK(q) /\ AfterOK(q) /\ JoinOK(q) /\ AgainOK(q)
  BY DEF RequestOK
<1>3. ASSUME at[q] # "new", NEW i \in form[q].after
      PROVE  /\ at'[i] = "done" /\ i \in Requests
             /\ form'[i] = form[i] /\ reply'[i] = reply[i]
             /\ form[i].op = "join" /\ reply[i] # 0 =>
                  /\ reply[i] \in DOMAIN siswa
                  /\ siswa'[reply[i]] = siswa[reply[i]]
  <2>1. i \in Requests /\ at[i] = "done"
    BY <1>2, <1>3 DEF AfterOK
  <2>2. i \in Requests \ M
    BY <2>1
  <2>3. JoinOK(i)
    BY <2>1 DEF RequestOK
  <2> QED
    BY <2>1, <2>2, <2>3 DEF Others, Evolves, JoinOK
<1>4. FormOK(q)'
  BY <1>1, <1>2 DEF FormOK, Evolves
<1>5. SaveOK(q)'
  BY <1>1, <1>2 DEF FormOK, SaveOK, Evolves
<1>6. ShowOK(q)'
  <2>1. CASE at[q] = "page"
    <3>1. form[q].by \in DOMAIN siswa /\ siswa[form[q].by].kelas \in DOMAIN kelas
      BY <1>2, <2>1 DEF FormOK, TablesOK
    <3> QED
      BY <1>1, <1>2, <2>1, <3>1 DEF ShowOK, Evolves
  <2>2. CASE at[q] # "page"
    BY <1>1, <1>2, <2>2 DEF ShowOK, Evolves
  <2> QED
    BY <2>1, <2>2
<1>7. AfterOK(q)'
  BY <1>1, <1>3 DEF AfterOK
<1>8. JoinOK(q)'
  <2>1. CASE at[q] = "insert_siswa"
    <3>1. copy[q] \in ada' => copy[q] \in ada
      BY <1>2, <2>1 DEF FormOK, Evolves
    <3>2. Wanted(q)' = Wanted(q)
      BY <1>1 DEF Wanted
    <3>3. \A u \in DOMAIN siswa' : siswa'[u] = Wanted(q) =>
            q \in raced' \/ (u \in DOMAIN siswa /\ siswa[u] = Wanted(q))
      BY <2>1 DEF Evolves
    <3> QED
      BY <1>1, <1>2, <1>3, <2>1, <3>1, <3>2, <3>3 DEF JoinOK, Evolves
  <2>2. CASE at[q] # "insert_siswa"
    BY <1>1, <1>2, <2>2 DEF JoinOK, Evolves, FirstOf
  <2> QED
    BY <2>1, <2>2
<1>9. AgainOK(q)'
  <2>1. CASE at[q] = "done" /\ form[q].op = "join" /\ reply[q] # 0
    <3>1. reply[q] \in DOMAIN siswa /\ siswa'[reply[q]] = siswa[reply[q]]
      BY <1>2, <2>1 DEF JoinOK, Evolves
    <3> QED
      BY <1>1, <1>2, <1>3, <2>1, <3>1 DEF AgainOK, Evolves
  <2>2. CASE ~(at[q] = "done" /\ form[q].op = "join" /\ reply[q] # 0)
    BY <1>1, <2>2 DEF AgainOK
  <2> QED
    BY <2>1, <2>2
<1> QED
  BY <1>4, <1>5, <1>6, <1>7, <1>8, <1>9 DEF RequestOK

(* A step keeps the invariant if it does so for the tables and for the     *)
(* requests that take it.                                                  *)
LEMMA StepKeeps ==
  ASSUME IInv, NEW M \in SUBSET Requests, \A r \in M : at[r] # "done",
         Others(M), Evolves(M), RequestsAre', TablesOK', \A r \in M : RequestOK(r)'
  PROVE  IInv'
<1>1. \A q \in Requests \ M : RequestOK(q)'
  BY OthersKeep DEF IInv
<1>2. \A q \in Requests : RequestOK(q)'
  BY <1>1
<1> QED
  BY <1>2 DEF IInv

LEMMA Going ==
  ASSUME RequestsAre, NEW r \in Requests, NEW l, NEW c, Goto(r, l, c)
  PROVE  /\ RequestsAre' /\ Others({r})
         /\ at'[r] = l /\ copy'[r] = c /\ form'[r] = form[r] /\ reply'[r] = reply[r]
  BY DEF RequestsAre, Goto, Others

LEMMA Answering ==
  ASSUME RequestsAre, NEW r \in Requests, NEW id, Answer(r, id)
  PROVE  /\ RequestsAre' /\ Others({r})
         /\ at'[r] = "done" /\ form'[r] = form[r] /\ reply'[r] = id
  BY DEF RequestsAre, Answer, Others

(* What was asked before stays done.                                       *)
LEMMA AfterKept ==
  ASSUME NEW r \in Requests, at[r] \notin {"new", "done"}, AfterOK(r),
         Others({r}), form'[r] = form[r]
  PROVE  /\ AfterOK(r)'
         /\ \A i \in form[r].after :
              /\ i \in Requests \ {r} /\ at[i] = "done" /\ at'[i] = "done"
              /\ form'[i] = form[i] /\ reply'[i] = reply[i]
<1>1. \A i \in form[r].after : i \in Requests \ {r} /\ at[i] = "done"
  BY DEF AfterOK
<1> QED
  BY <1>1 DEF AfterOK, Others

(* Between two steps that concern neither a page nor a siswa there is      *)
(* little to say of a request, nor after a refusal.                        *)
LEMMA Elsewhere ==
  ASSUME NEW r \in Requests, at[r] \notin {"new", "done"}, RequestOK(r),
         Others({r}), form'[r] = form[r], FormOK(r)', SaveOK(r)',
         \/ at'[r] \notin {"page", "insert_siswa", "done"}
         \/ at'[r] = "done" /\ (reply'[r] = 0 \/ form[r].op \notin {"page", "join"})
  PROVE  RequestOK(r)'
<1>1. AfterOK(r)'
  BY AfterKept DEF RequestOK
<1>2. ShowOK(r)' /\ JoinOK(r)' /\ AgainOK(r)'
  BY DEF ShowOK, JoinOK, AgainOK
<1> QED
  BY <1>1, <1>2 DEF RequestOK

LEMMA Refusing ==
  ASSUME IInv, NEW r \in Requests, at[r] \notin {"new", "done"}, Refuse(r)
  PROVE  /\ RequestsAre' /\ Others({r}) /\ RequestOK(r)' /\ \A q \in {r} : RequestOK(q)'
<1>1. /\ RequestsAre' /\ Others({r})
      /\ at'[r] = "done" /\ form'[r] = form[r] /\ reply'[r] = 0
  BY Answering DEF IInv, Refuse
<1>2. FormOK(r)' /\ SaveOK(r)'
  BY <1>1 DEF FormOK, SaveOK
<1>3. RequestOK(r)
  BY DEF IInv
<1> QED
  BY <1>1, <1>2, <1>3, Elsewhere

(* A step that leaves the tables alone.                                    *)
LEMMA QuietKeeps ==
  ASSUME IInv, NEW r \in Requests, at[r] # "done",
         RequestsAre', Others({r}), RequestOK(r)',
         UNCHANGED <<tables, raced>>, blind \subseteq blind', open \subseteq open',
         masuk' \subseteq DOMAIN guru, tokens' \subseteq DOMAIN siswa
  PROVE  IInv'
<1>1. TablesOK'
  BY DEF IInv, TablesOK, tables
<1>2. Evolves({r})
  BY DEF Evolves, tables
<1> QED
  BY <1>1, <1>2, StepKeeps

LEMMA InitOK == Init => IInv
<1> SUFFICES ASSUME Init PROVE IInv
  OBVIOUS
<1>1. PICK e \in Emails, p \in Passwords : guru = <<[email |-> e, pw |-> p]>>
  BY DEF Init
<1>2. PICK c \in Codes : kelas = <<[kode |-> c, guru |-> 1]>>
  BY DEF Init
<1>3. TablesOK
  <2>1. guru \in Seq(Profile) /\ DOMAIN guru = {1}
    BY <1>1 DEF Profile
  <2>2. kelas \in Seq([kode : Codes, guru : Nat]) /\ DOMAIN kelas = {1}
    BY <1>2
  <2> QED
    BY <2>1, <2>2 DEF Init, TablesOK
<1>4. RequestsAre /\ \A r \in Requests : at[r] = "new"
  BY DEF Init, RequestsAre
<1>5. \A r \in Requests : RequestOK(r)
  BY <1>4 DEF RequestOK, FormOK, SaveOK, ShowOK, AfterOK, JoinOK, AgainOK
<1> QED
  BY <1>3, <1>4, <1>5 DEF IInv

-----------------------------------------------------------------------------
(* Requests arrive.                                                        *)

LEMMA Asking ==
  ASSUME IInv, NEW r \in Requests, NEW op, NEW by, NEW key, NEW val,
         Ask(r, op, by, key, val), open \subseteq open',
         \/ op = "register" /\ key \in Emails /\ val \in Passwords
         \/ op = "login"
         \/ op = "update" /\ by \in DOMAIN guru /\ val \in Passwords \cup {None}
         \/ op = "create" /\ by \in Nat
         \/ op \in {"join", "daftar"} /\ val \in Names
         \/ /\ op = "page" /\ by \in DOMAIN siswa /\ key \in DOMAIN Checks
            /\ LET k == siswa[by].kelas
               IN (IF key = "kelas" THEN k \in ada ELSE k \in links) => r \in open'
  PROVE  IInv'
<1>1. /\ RequestsAre' /\ Others({r}) /\ at[r] = "new" /\ at'[r] = op
      /\ form'[r] = [op |-> op, by |-> by, key |-> key, val |-> val,
                     after |-> {q \in Requests : at[q] = "done"}]
      /\ copy'[r] = None
      /\ UNCHANGED <<tables, holders, raced, blind>>
  BY DEF IInv, RequestsAre, Ask, Others
<1>2. FormOK(r)'
  BY <1>1 DEF FormOK, tables
<1>3. ShowOK(r)'
  BY <1>1 DEF ShowOK, tables
<1>4. AfterOK(r)'
  <2>1. \A i \in form'[r].after : i \in Requests \ {r} /\ at[i] = "done"
    BY <1>1
  <2> QED
    BY <1>1, <2>1 DEF AfterOK, Others
<1>5. SaveOK(r)' /\ JoinOK(r)' /\ AgainOK(r)'
  BY <1>1 DEF SaveOK, JoinOK, AgainOK
<1>6. RequestOK(r)'
  BY <1>2, <1>3, <1>4, <1>5 DEF RequestOK
<1> QED
  BY <1>1, <1>6, QuietKeeps DEF IInv, TablesOK, tables, holders

LEMMA Arrivals ==
  ASSUME IInv, NEW r \in Requests,
         AskAccount(r) \/ AskProfile(r) \/ AskKelas(r) \/ AskJoin(r) \/ AskPage(r)
  PROVE  IInv'
<1>1. masuk \subseteq DOMAIN guru /\ DOMAIN guru \subseteq Nat /\ tokens \subseteq DOMAIN siswa
  BY DEF IInv, TablesOK
<1>2. CASE AskAccount(r) \/ AskProfile(r)
  BY <1>1, <1>2, Asking DEF AskAccount, AskProfile
<1>3. CASE AskKelas(r)
  BY <1>1, <1>3, Asking DEF AskKelas
<1>4. CASE AskJoin(r)
  BY <1>4, Asking DEF AskJoin
<1>5. CASE AskPage(r)
  <2>1. PICK s \in DOMAIN siswa, page \in DOMAIN Checks :
          /\ Ask(r, "page", s, page, None)
          /\ open' = IF siswa[s].kelas \in (IF page = "kelas" THEN ada ELSE ada \cap links)
                      THEN open \cup {r} ELSE open
    BY <1>5 DEF AskPage
  <2>2. links \subseteq ada /\ s \in DOMAIN siswa
    BY <1>1 DEF IInv, TablesOK
  <2>3. LET k == siswa[s].kelas
        IN (IF page = "kelas" THEN k \in ada ELSE k \in links) => r \in open'
    BY <2>1, <2>2
  <2> QED
    BY <2>1, <2>2, <2>3, Asking
<1> QED
  BY <1>2, <1>3, <1>4, <1>5

LEMMA Failing ==
  ASSUME IInv, NEW r \in Requests, Fails(r)
  PROVE  IInv'
<1>1. /\ at[r] \notin {"new", "done"} /\ Refuse(r)
      /\ UNCHANGED <<tables, holders, history>>
  BY DEF Fails
<1>2. UNCHANGED <<tables, raced, blind, open, masuk, tokens>>
  BY <1>1 DEF holders, history
<1> QED
  BY <1>1, <1>2, Refusing, QuietKeeps DEF IInv, TablesOK, tables

(* A step to a place where the request has nothing new to be sure of.      *)
LEMMA Moving ==
  ASSUME IInv, NEW r \in Requests, at[r] \notin {"new", "done"},
         NEW l, NEW c, Goto(r, l, c), l \notin {"page", "insert_siswa", "done"},
         UNCHANGED <<tables, holders, history>>,
         FormOK(r)', SaveOK(r)'
  PROVE  IInv'
<1>1. /\ RequestsAre' /\ Others({r}) /\ at'[r] = l /\ form'[r] = form[r]
  BY Going DEF IInv
<1>2. RequestOK(r)'
  BY <1>1, Elsewhere DEF IInv
<1> QED
  BY <1>1, <1>2, QuietKeeps DEF IInv, TablesOK, tables, holders, history

-----------------------------------------------------------------------------
(* Accounts.                                                               *)

LEMMA FindEmailKeeps ==
  ASSUME IInv, NEW r \in Requests, FindEmail(r)
  PROVE  IInv'
<1>1. at[r] = "register" /\ FormOK(r) /\ UNCHANGED <<tables, holders, history>>
  BY DEF FindEmail, IInv, RequestOK
<1>2. CASE Refuse(r)
  BY <1>1, <1>2, Refusing, QuietKeeps DEF IInv, TablesOK, tables, holders, history
<1>3. CASE Goto(r, "insert_guru", None)
  <2>1. at'[r] = "insert_guru" /\ form'[r] = form[r]
    BY <1>3, Going DEF IInv
  <2>2. FormOK(r)' /\ SaveOK(r)'
    BY <1>1, <2>1 DEF FormOK, SaveOK
  <2> QED
    BY <1>1, <1>3, <2>2, Moving
<1> QED
  BY <1>2, <1>3 DEF FindEmail

LEMMA InsertGuruKeeps ==
  ASSUME IInv, NEW r \in Requests, InsertGuru(r)
  PROVE  IInv'
<1> DEFINE x == [email |-> form[r].key, pw |-> form[r].val]
<1>1. /\ at[r] = "insert_guru" /\ RequestOK(r) /\ FormOK(r)
      /\ UNCHANGED <<kelas, ada, links, siswa, holders, history>>
  BY DEF InsertGuru, IInv, RequestOK
<1>2. CASE OfEmail(form[r].key) # {}
  <2>1. Refuse(r) /\ UNCHANGED <<tables, holders, history>>
    BY <1>2 DEF InsertGuru, tables
  <2> QED
    BY <1>1, <2>1, Refusing, QuietKeeps DEF IInv, TablesOK, tables, holders, history
<1>3. CASE OfEmail(form[r].key) = {}
  <2>1. guru' = Append(guru, x) /\ Answer(r, Len(guru'))
    BY <1>3 DEF InsertGuru
  <2>2. x \in Profile /\ x.email = form[r].key /\ guru \in Seq(Profile)
    BY <1>1 DEF FormOK, Profile, IInv, TablesOK
  <2> HIDE DEF x
  <2>3. /\ guru' \in Seq(Profile) /\ DOMAIN guru' = DOMAIN guru \cup {Len(guru) + 1}
        /\ \A g \in DOMAIN guru : guru'[g] = guru[g]
        /\ guru'[Len(guru) + 1] = x /\ Len(guru) + 1 \notin DOMAIN guru
    BY <2>1, <2>2, Appended
  <2>4. \A g \in DOMAIN guru : guru[g].email # x.email
    BY <1>3, <2>2 DEF OfEmail
  <2>5. TablesOK'
    <3>1. \A g, h \in DOMAIN guru' : guru'[g].email = guru'[h].email => g = h
      BY <2>3, <2>4 DEF IInv, TablesOK
    <3> QED
      BY <1>1, <2>3, <3>1 DEF IInv, TablesOK, holders
  <2>6. /\ RequestsAre' /\ Others({r}) /\ at'[r] = "done" /\ form'[r] = form[r]
    BY <2>1, Answering DEF IInv
  <2>7. FormOK(r)' /\ SaveOK(r)' /\ form[r].op = "register"
    BY <1>1, <2>6 DEF FormOK, SaveOK
  <2>8. RequestOK(r)'
    BY <1>1, <2>6, <2>7, Elsewhere
  <2>9. Evolves({r})
    BY <1>1, <2>3 DEF Evolves, history
  <2> QED
    BY <1>1, <2>5, <2>6, <2>8, <2>9, StepKeeps
<1> QED
  BY <1>2, <1>3

LEMMA LoginKeeps ==
  ASSUME IInv, NEW r \in Requests, Login(r)
  PROVE  IInv'
<1> DEFINE mine == {g \in OfEmail(form[r].key) : guru[g].pw = form[r].val}
<1>1. /\ at[r] = "login" /\ RequestOK(r) /\ FormOK(r)
      /\ UNCHANGED <<tables, tokens, history>>
      /\ masuk' = masuk \cup mine
  BY DEF Login, GenerateGuruToken, IInv, RequestOK
<1>2. PICK id : Answer(r, id)
  BY DEF Login, Refuse
<1>3. /\ RequestsAre' /\ Others({r}) /\ at'[r] = "done" /\ form'[r] = form[r]
  BY <1>2, Answering DEF IInv
<1>4. FormOK(r)' /\ SaveOK(r)' /\ form[r].op = "login"
  BY <1>1, <1>3 DEF FormOK, SaveOK
<1>5. RequestOK(r)'
  BY <1>1, <1>3, <1>4, Elsewhere
<1>6. masuk' \subseteq DOMAIN guru /\ tokens' \subseteq DOMAIN siswa
  BY <1>1 DEF OfEmail, IInv, TablesOK
<1> QED
  BY <1>1, <1>3, <1>5, <1>6, QuietKeeps DEF tables, history

LEMMA ReadProfileKeeps ==
  ASSUME IInv, NEW r \in Requests, ReadProfile(r)
  PROVE  IInv'
<1> DEFINE row == guru[form[r].by]
           c   == [row EXCEPT !.pw = IF form[r].val = None THEN @ ELSE form[r].val]
<1> USE AccessAssumption
<1>1. /\ at[r] = "update" /\ FormOK(r) /\ Goto(r, "save", c)
      /\ UNCHANGED <<tables, holders, history>>
  BY DEF ReadProfile, IInv, RequestOK
<1>2. /\ form[r].op = "update" /\ form[r].by \in DOMAIN guru
      /\ form[r].val \in Passwords \cup {None}
  BY <1>1 DEF FormOK
<1>3. row \in Profile
  BY <1>2 DEF IInv, TablesOK
<1>4. /\ c \in Profile /\ c.email = row.email
      /\ form[r].val \in Passwords => c.pw = form[r].val
      /\ form[r].val = None => c.pw = row.pw
  BY <1>2, <1>3 DEF Profile
<1> HIDE DEF c
<1>5. /\ at'[r] = "save" /\ copy'[r] = c /\ form'[r] = form[r]
  BY <1>1, Going DEF IInv
<1>6. FormOK(r)' /\ SaveOK(r)'
  BY <1>1, <1>2, <1>4, <1>5 DEF FormOK, SaveOK, tables
<1> QED
  BY <1>1, <1>6, Moving

LEMMA SaveProfileKeeps ==
  ASSUME IInv, NEW r \in Requests, SaveProfile(r)
  PROVE  IInv'
<1> DEFINE b == form[r].by
<1>1. /\ at[r] = "save" /\ RequestOK(r) /\ FormOK(r) /\ SaveOK(r)
      /\ guru' = [guru EXCEPT ![b] = copy[r]]
      /\ raced' = raced \cup {q \in Requests \ {r} : at[q] = "save" /\ form[q].by = b}
      /\ Answer(r, b)
      /\ UNCHANGED <<kelas, ada, links, siswa, holders, blind, open>>
  BY DEF SaveProfile, IInv, RequestOK
<1>2. /\ b \in DOMAIN guru /\ copy[r] \in Profile /\ copy[r].email = guru[b].email
      /\ guru \in Seq(Profile)
  BY <1>1 DEF FormOK, SaveOK, IInv, TablesOK
<1>3. /\ guru' \in Seq(Profile) /\ DOMAIN guru' = DOMAIN guru
      /\ guru'[b] = copy[r] /\ \A g \in DOMAIN guru \ {b} : guru'[g] = guru[g]
  BY <1>1, <1>2
<1>4. \A g \in DOMAIN guru : guru'[g].email = guru[g].email
  BY <1>2, <1>3
<1>5. TablesOK'
  BY <1>1, <1>3, <1>4 DEF IInv, TablesOK, holders
<1>6. /\ RequestsAre' /\ Others({r}) /\ at'[r] = "done" /\ form'[r] = form[r]
  BY <1>1, Answering DEF IInv
<1>7. FormOK(r)' /\ SaveOK(r)' /\ form[r].op = "update"
  BY <1>1, <1>6 DEF FormOK, SaveOK
<1>8. RequestOK(r)'
  BY <1>1, <1>6, <1>7, Elsewhere
<1>9. Evolves({r})
  BY <1>1, <1>3, <1>4 DEF Evolves
<1> QED
  BY <1>1, <1>5, <1>6, <1>8, <1>9, StepKeeps

-----------------------------------------------------------------------------
(* Kelas.                                                                  *)

LEMMA DrawKodeKeeps ==
  ASSUME IInv, NEW r \in Requests, DrawKode(r)
  PROVE  IInv'
<1>1. PICK c \in Codes : Goto(r, "insert_kelas", c)
  BY DEF DrawKode
<1>2. at[r] = "create" /\ FormOK(r) /\ UNCHANGED <<tables, holders, history>>
  BY DEF DrawKode, IInv, RequestOK
<1>3. at'[r] = "insert_kelas" /\ copy'[r] = c /\ form'[r] = form[r]
  BY <1>1, Going DEF IInv
<1>4. FormOK(r)' /\ SaveOK(r)'
  BY <1>2, <1>3 DEF FormOK, SaveOK
<1> QED
  BY <1>1, <1>2, <1>4, Moving

LEMMA InsertKelasKeeps ==
  ASSUME IInv, NEW r \in Requests, InsertKelas(r)
  PROVE  IInv'
<1> DEFINE x == [kode |-> copy[r], guru |-> form[r].by]
           K == [kode : Codes, guru : Nat]
<1>1. /\ at[r] = "insert_kelas" /\ RequestOK(r) /\ FormOK(r)
      /\ UNCHANGED <<guru, links, siswa, holders, history>>
  BY DEF InsertKelas, IInv, RequestOK
<1>2. CASE OfKode(copy[r]) # {}
  <2>1. Refuse(r) /\ UNCHANGED <<tables, holders, history>>
    BY <1>1, <1>2 DEF InsertKelas, tables
  <2> QED
    BY <1>1, <2>1, Refusing, QuietKeeps DEF IInv, TablesOK, tables, holders, history
<1>3. CASE OfKode(copy[r]) = {}
  <2>1. /\ kelas' = Append(kelas, x) /\ ada' = ada \cup {Len(kelas')}
        /\ Answer(r, Len(kelas'))
    BY <1>3 DEF InsertKelas
  <2>2. x \in K /\ x.kode = copy[r] /\ kelas \in Seq(K)
    BY <1>1 DEF FormOK, IInv, TablesOK
  <2> HIDE DEF x, K
  <2>3. /\ kelas' \in Seq(K) /\ Len(kelas') = Len(kelas) + 1
        /\ DOMAIN kelas' = DOMAIN kelas \cup {Len(kelas) + 1}
        /\ \A k \in DOMAIN kelas : kelas'[k] = kelas[k]
        /\ kelas'[Len(kelas) + 1] = x /\ Len(kelas) + 1 \notin DOMAIN kelas
    BY <2>1, <2>2, Appended
  <2>4. \A k \in ada : kelas[k].kode # x.kode
    BY <1>3, <2>2 DEF OfKode
  <2>5. TablesOK'
    <3>1. ada \subseteq DOMAIN kelas
      BY DEF IInv, TablesOK
    <3>2. \A k, l \in ada' : kelas'[k].kode = kelas'[l].kode => k = l
      BY <2>1, <2>3, <2>4, <3>1 DEF IInv, TablesOK
    <3> QED
      BY <1>1, <2>1, <2>3, <3>1, <3>2 DEF IInv, TablesOK, holders, K
  <2>6. /\ RequestsAre' /\ Others({r}) /\ at'[r] = "done" /\ form'[r] = form[r]
    BY <2>1, Answering DEF IInv
  <2>7. FormOK(r)' /\ SaveOK(r)' /\ form[r].op = "create"
    BY <1>1, <2>6 DEF FormOK, SaveOK
  <2>8. RequestOK(r)'
    BY <1>1, <2>6, <2>7, Elsewhere
  <2>9. Evolves({r})
    BY <1>1, <2>1, <2>3 DEF Evolves, history
  <2> QED
    BY <1>1, <2>5, <2>6, <2>8, <2>9, StepKeeps
<1> QED
  BY <1>2, <1>3

(* The guru changes the links and deletes.                                 *)
LEMMA GuruKeeps ==
  ASSUME IInv, NEW k \in DOMAIN kelas, DeleteKelas(k) \/ AssignModul(k) \/ RemoveModul(k)
  PROVE  IInv'
<1>1. /\ UNCHANGED <<guru, kelas, siswa, holders, request, raced, blind>>
      /\ k \in ada /\ ada' \subseteq ada
      /\ links' \subseteq links \cup {k} /\ links' \subseteq ada' /\ open \subseteq open'
      /\ k \in links' => \A q \in Requests :
           at[q] = "page" /\ siswa[form[q].by].kelas = k => k \in links \/ q \in open'
  BY DEF DeleteKelas, AssignModul, RemoveModul, history, IInv, TablesOK
<1>2. TablesOK'
  BY <1>1 DEF IInv, TablesOK, holders
<1>3. RequestsAre' /\ Others({})
  BY <1>1 DEF IInv, RequestsAre, Others, request
<1>4. Evolves({})
  BY <1>1 DEF Evolves
<1> QED
  BY <1>2, <1>3, <1>4, StepKeeps

-----------------------------------------------------------------------------
(* Siswa.                                                                  *)

LEMMA FindKelasKeeps ==
  ASSUME IInv, NEW r \in Requests, FindKelas(r)
  PROVE  IInv'
<1> DEFINE found == IF at[r] = "join" THEN OfKode(form[r].key)
                    ELSE {k \in ada : k = form[r].key /\ kelas[k].guru = form[r].by}
<1>1. /\ at[r] \in {"join", "daftar"} /\ FormOK(r)
      /\ UNCHANGED <<tables, holders, history>>
      /\ IF found = {} THEN Refuse(r) ELSE Goto(r, "find_siswa", Min(found))
  BY DEF FindKelas, IInv, RequestOK
<1>2. found \subseteq DOMAIN kelas /\ DOMAIN kelas \subseteq Nat
  BY DEF OfKode, IInv, TablesOK
<1> HIDE DEF found
<1>3. CASE found = {}
  BY <1>1, <1>3, Refusing, QuietKeeps DEF IInv, TablesOK, tables, holders, history
<1>4. CASE found # {}
  <2>1. Min(found) \in DOMAIN kelas
    BY <1>2, <1>4, MinIsIn
  <2>2. at'[r] = "find_siswa" /\ copy'[r] = Min(found) /\ form'[r] = form[r]
    BY <1>1, <1>4, Going DEF IInv
  <2>3. FormOK(r)' /\ SaveOK(r)'
    BY <1>1, <2>1, <2>2 DEF FormOK, SaveOK, tables
  <2> QED
    BY <1>1, <1>4, <2>3, Moving
<1> QED
  BY <1>3, <1>4

(* The one found is the first of its name.                                 *)
LEMMA TheOneIsFirst ==
  ASSUME IInv, NEW r \in Requests, Namesakes(r) # {}
  PROVE  /\ TheOne(Namesakes(r)) \in DOMAIN siswa
         /\ siswa[TheOne(Namesakes(r))] = Wanted(r)
         /\ FirstOf(TheOne(Namesakes(r)))
<1> DEFINE rows == Namesakes(r)
<1>1. rows \in SUBSET Nat /\ rows \subseteq DOMAIN siswa
  BY DEF Namesakes, IInv, TablesOK
<1>2. TheOne(rows) \in rows /\ \A u \in rows : TheOne(rows) <= u
  BY <1>1, MinIsIn DEF TheOne
<1>3. \A s \in rows : \A u \in DOMAIN siswa : siswa[u] = siswa[s] => u \in rows
  BY DEF Namesakes, Exists
<1>4. \A s \in rows : siswa[s] = Wanted(r)
  BY DEF Namesakes, Wanted
<1> QED
  BY <1>1, <1>2, <1>3, <1>4 DEF FirstOf

LEMMA FindSiswaKeeps ==
  ASSUME IInv, NEW r \in Requests, FindSiswa(r)
  PROVE  IInv'
<1> DEFINE rows == Namesakes(r)
<1>1. /\ at[r] = "find_siswa" /\ RequestOK(r) /\ FormOK(r) /\ AfterOK(r)
      /\ UNCHANGED <<tables, masuk, raced, open>>
      /\ masuk \subseteq DOMAIN guru /\ tokens \subseteq DOMAIN siswa
  BY DEF FindSiswa, IInv, RequestOK, TablesOK
<1>2. CASE /\ rows # {} /\ form[r].op = "join"
           /\ Answer(r, TheOne(rows))
           /\ tokens' = tokens \cup {TheOne(rows)}
           /\ UNCHANGED blind
  <2> DEFINE s == TheOne(rows)
  <2>1. s \in DOMAIN siswa /\ siswa[s] = Wanted(r) /\ FirstOf(s) /\ s \in Nat
    BY <1>2, TheOneIsFirst DEF IInv, TablesOK
  <2>2. /\ RequestsAre' /\ Others({r})
        /\ at'[r] = "done" /\ form'[r] = form[r] /\ reply'[r] = s
    BY <1>2, Answering DEF IInv
  <2> HIDE DEF s
  <2>3. FormOK(r)' /\ SaveOK(r)' /\ ShowOK(r)'
    BY <1>2, <2>2 DEF FormOK, SaveOK, ShowOK
  <2>4. /\ AfterOK(r)'
        /\ \A i \in form[r].after :
             i \in Requests /\ at[i] = "done" /\ form'[i] = form[i] /\ reply'[i] = reply[i]
    BY <1>1, <2>2, AfterKept
  <2>5. JoinOK(r)'
    BY <1>1, <2>1, <2>2 DEF JoinOK, FirstOf, tables
  <2>6. AgainOK(r)'
    <3> SUFFICES ASSUME NEW i \in form[r].after,
                        form[i].op = "join", reply[i] # 0, i \notin raced \cup blind,
                        siswa[reply[i]] = siswa[s]
                 PROVE  reply[i] = s
      BY <1>1, <1>2, <2>2, <2>4 DEF AgainOK, tables
    <3>1. JoinOK(i) /\ at[i] = "done"
      BY <2>4 DEF IInv, RequestOK
    <3>2. reply[i] \in DOMAIN siswa /\ FirstOf(reply[i]) /\ reply[i] \in Nat
      BY <3>1 DEF JoinOK, IInv, TablesOK
    <3> QED
      BY <2>1, <3>2 DEF FirstOf
  <2>7. RequestOK(r)'
    BY <2>3, <2>4, <2>5, <2>6 DEF RequestOK
  <2>8. tokens' \subseteq DOMAIN siswa
    BY <1>1, <1>2, <2>1 DEF s
  <2> QED
    BY <1>1, <1>2, <2>2, <2>7, <2>8, QuietKeeps DEF tables
<1>3. CASE Refuse(r) /\ UNCHANGED <<tokens, blind>>
  BY <1>1, <1>3, Refusing, QuietKeeps DEF tables
<1>4. CASE /\ Goto(r, "insert_siswa", copy[r])
           /\ blind' = IF rows = {} THEN blind ELSE blind \cup {r}
           /\ UNCHANGED tokens
  <2>1. /\ RequestsAre' /\ Others({r}) /\ at'[r] = "insert_siswa"
        /\ copy'[r] = copy[r] /\ form'[r] = form[r]
    BY <1>4, Going DEF IInv
  <2>2. FormOK(r)' /\ SaveOK(r)' /\ ShowOK(r)' /\ AgainOK(r)'
    BY <1>1, <2>1 DEF FormOK, SaveOK, ShowOK, AgainOK, tables
  <2>3. /\ AfterOK(r)'
        /\ \A i \in form[r].after :
             i \in Requests /\ at[i] = "done" /\ form'[i] = form[i] /\ reply'[i] = reply[i]
    BY <1>1, <2>1, AfterKept
  <2>4. JoinOK(r)'
    <3> SUFFICES ASSUME copy[r] \in ada, rows = {}
                 PROVE  /\ \A u \in DOMAIN siswa : siswa[u] # Wanted(r)
                        /\ \A i \in form[r].after :
                             form[i].op = "join" /\ reply[i] # 0 => siswa[reply[i]] # Wanted(r)
      BY <1>1, <1>4, <2>1, <2>3 DEF JoinOK, Wanted, tables
    <3>1. \A u \in DOMAIN siswa : siswa[u] # Wanted(r)
      BY DEF Namesakes, Exists, Wanted
    <3>2. ASSUME NEW i \in form[r].after, form[i].op = "join", reply[i] # 0
          PROVE  reply[i] \in DOMAIN siswa
      BY <2>3, <3>2 DEF IInv, RequestOK, JoinOK
    <3> QED
      BY <3>1, <3>2
  <2>5. RequestOK(r)'
    BY <2>2, <2>3, <2>4 DEF RequestOK
  <2> QED
    BY <1>1, <1>4, <2>1, <2>5, QuietKeeps DEF tables
<1> QED
  BY <1>2, <1>3, <1>4 DEF FindSiswa, GenerateToken

LEMMA InsertSiswaKeeps ==
  ASSUME IInv, NEW r \in Requests, InsertSiswa(r)
  PROVE  IInv'
<1> DEFINE x == Wanted(r)
           n == Len(siswa) + 1
<1>1. /\ at[r] = "insert_siswa" /\ RequestOK(r) /\ FormOK(r) /\ AfterOK(r) /\ JoinOK(r)
      /\ UNCHANGED <<guru, kelas, ada, links, masuk, blind, open>>
      /\ form[r].op \in {"join", "daftar"}
  BY DEF InsertSiswa, IInv, RequestOK, FormOK
<1>2. CASE copy[r] \notin ada
  <2>1. Refuse(r) /\ UNCHANGED <<siswa, tokens, raced>>
    BY <1>2 DEF InsertSiswa
  <2> QED
    BY <1>1, <2>1, Refusing, QuietKeeps DEF IInv, TablesOK, tables
<1>3. CASE copy[r] \in ada
  <2>1. /\ siswa' = Append(siswa, x)
        /\ tokens' \subseteq tokens \cup {Len(siswa')}
        /\ raced' = raced \cup {q \in Requests \ {r} :
                      at[q] = "insert_siswa" /\ copy[q] = copy[r] /\ form[q].val = form[r].val}
        /\ Answer(r, Len(siswa'))
    BY <1>3 DEF InsertSiswa, GenerateToken, Wanted
  <2>2. x \in Siswa /\ x.kelas \in DOMAIN kelas /\ siswa \in Seq(Siswa)
    BY <1>1 DEF FormOK, Wanted, Siswa, IInv, TablesOK
  <2>3. /\ siswa' \in Seq(Siswa) /\ Len(siswa') = n
        /\ DOMAIN siswa' = DOMAIN siswa \cup {n}
        /\ \A s \in DOMAIN siswa : s \in Nat /\ s < n /\ siswa'[s] = siswa[s]
        /\ siswa'[n] = x /\ n \notin DOMAIN siswa /\ n # 0 /\ n \in Nat
    <3> HIDE DEF x
    <3> QED
      BY <2>1, <2>2, Appended
  <2>4. /\ RequestsAre' /\ Others({r})
        /\ at'[r] = "done" /\ form'[r] = form[r] /\ reply'[r] = n
    BY <2>1, <2>3, Answering DEF IInv
  <2>5. TablesOK'
    <3> HIDE DEF x, n
    <3>1. tokens' \subseteq DOMAIN siswa'
      BY <2>1, <2>3 DEF IInv, TablesOK
    <3> QED
      BY <1>1, <2>2, <2>3, <3>1 DEF IInv, TablesOK
  <2>6. \A q \in Requests \ {r} :
          at[q] = "insert_siswa" /\ Wanted(q) = siswa'[n] => q \in raced'
    BY <2>1, <2>3 DEF Wanted
  <2> HIDE DEF x, n
  <2>7. Evolves({r})
    BY <1>1, <2>1, <2>3, <2>6 DEF Evolves
  <2>8. FormOK(r)' /\ SaveOK(r)' /\ ShowOK(r)'
    BY <1>1, <2>4 DEF FormOK, SaveOK, ShowOK
  <2>9. /\ AfterOK(r)'
        /\ \A i \in form[r].after :
             i \in Requests /\ at[i] = "done" /\ form'[i] = form[i] /\ reply'[i] = reply[i]
    BY <1>1, <2>4, AfterKept
  <2>10. JoinOK(r)'
    BY <1>1, <1>3, <2>1, <2>3, <2>4 DEF JoinOK, FirstOf, x
  <2>11. AgainOK(r)'
    <3>1. ASSUME NEW i \in form[r].after, form[i].op = "join", reply[i] # 0
          PROVE  reply[i] \in DOMAIN siswa
      BY <2>9, <3>1 DEF IInv, RequestOK, JoinOK
    <3>2. r \notin blind => \A i \in form[r].after :
            form[i].op = "join" /\ reply[i] # 0 => siswa'[reply[i]] # siswa'[n]
      BY <1>1, <1>3, <2>3, <3>1 DEF JoinOK, x
    <3> QED
      BY <1>1, <2>4, <2>9, <3>2 DEF AgainOK
  <2>12. RequestOK(r)'
    BY <2>8, <2>9, <2>10, <2>11 DEF RequestOK
  <2> QED
    BY <1>1, <2>4, <2>5, <2>7, <2>12, StepKeeps
<1> QED
  BY <1>2, <1>3

-----------------------------------------------------------------------------
(* Pages.                                                                  *)

(* Which check comes last.                                                 *)
LEMMA LastCheck ==
  ASSUME NEW page \in DOMAIN Checks
  PROVE  /\ Len(Checks[page]) = IF page = "soal" THEN 1 ELSE 2
         /\ Checks[page][Len(Checks[page])] = IF page = "kelas" THEN "siswa" ELSE "link"
<1>1. page \in {"materi", "detail", "kelas", "soal"}
  BY DEF Checks
<1>2. CASE page = "soal"
  BY <1>2 DEF Checks
<1>3. CASE page = "kelas"
  BY <1>3 DEF Checks
<1>4. CASE page \in {"materi", "detail"}
  BY <1>4 DEF Checks
<1> QED
  BY <1>1, <1>2, <1>3, <1>4

LEMMA PageKeeps ==
  ASSUME IInv, NEW r \in Requests, Page(r)
  PROVE  IInv'
<1> DEFINE s == form[r].by
           checks == Checks[form[r].key]
           n      == IF copy[r] = None THEN 1 ELSE copy[r]
<1>1. /\ at[r] = "page" /\ RequestOK(r) /\ FormOK(r) /\ ShowOK(r) /\ AfterOK(r)
      /\ UNCHANGED <<tables, holders, history>>
      /\ form[r].op = "page" /\ s \in DOMAIN siswa /\ form[r].key \in DOMAIN Checks
      /\ n = 1 \/ (n = 2 /\ form[r].key # "soal")
  BY DEF Page, IInv, RequestOK, FormOK
<1>2. CASE ~Holds(checks[n], s)
  <2>1. Refuse(r)
    BY <1>2 DEF Page
  <2> QED
    BY <1>1, <2>1, Refusing, QuietKeeps DEF IInv, TablesOK, tables, holders, history
<1>3. CASE Holds(checks[n], s) /\ n < Len(checks)
  <2>1. Goto(r, "page", n + 1)
    BY <1>3 DEF Page
  <2>2. /\ RequestsAre' /\ Others({r}) /\ at'[r] = "page" /\ form'[r] = form[r]
        /\ copy'[r] = 2 /\ form[r].key # "soal"
    <3>1. n = 1 /\ form[r].key # "soal"
      BY <1>1, <1>3, LastCheck
    <3>2. Goto(r, "page", 2)
      BY <2>1, <3>1
    <3> QED
      BY <3>1, <3>2, Going DEF IInv
  <2>3. FormOK(r)' /\ SaveOK(r)' /\ ShowOK(r)' /\ JoinOK(r)' /\ AgainOK(r)'
    BY <1>1, <2>2 DEF FormOK, SaveOK, ShowOK, JoinOK, AgainOK, tables, history
  <2>4. AfterOK(r)'
    BY <1>1, <2>2, AfterKept
  <2>5. RequestOK(r)'
    BY <2>3, <2>4 DEF RequestOK
  <2> QED
    BY <1>1, <2>2, <2>5, QuietKeeps DEF IInv, TablesOK, tables, holders, history
<1>4. CASE Holds(checks[n], s) /\ ~(n < Len(checks))
  <2>1. Answer(r, siswa[s].kelas)
    BY <1>4 DEF Page
  <2>2. /\ RequestsAre' /\ Others({r})
        /\ at'[r] = "done" /\ form'[r] = form[r]
    BY <2>1, Answering DEF IInv
  <2>3. r \in open
    <3>1. checks[n] = IF form[r].key = "kelas" THEN "siswa" ELSE "link"
      BY <1>1, <1>4, LastCheck
    <3> QED
      BY <1>1, <1>4, <3>1 DEF ShowOK, Holds, Exists
  <2>4. FormOK(r)' /\ SaveOK(r)' /\ ShowOK(r)' /\ JoinOK(r)' /\ AgainOK(r)'
    BY <1>1, <2>2, <2>3 DEF FormOK, SaveOK, ShowOK, JoinOK, AgainOK, history
  <2>5. AfterOK(r)'
    BY <1>1, <2>2, AfterKept
  <2>6. RequestOK(r)'
    BY <2>4, <2>5 DEF RequestOK
  <2> QED
    BY <1>1, <2>2, <2>6, QuietKeeps DEF IInv, TablesOK, tables, holders, history
<1> QED
  BY <1>2, <1>3, <1>4

-----------------------------------------------------------------------------
LEMMA NextKeeps == IInv /\ [Next]_vars => IInv'
<1> SUFFICES ASSUME IInv, [Next]_vars PROVE IInv'
  OBVIOUS
<1>1. CASE UNCHANGED vars
  <2>1. UNCHANGED <<tables, holders, request, history>>
    BY <1>1 DEF vars
  <2>2. UNCHANGED <<guru, kelas, ada, links, siswa, masuk, tokens,
                    at, form, copy, reply, raced, blind, open>>
    BY <2>1 DEF tables, holders, request, history
  <2>3. Others({}) /\ Evolves({}) /\ TablesOK' /\ RequestsAre'
    BY <2>2 DEF Others, Evolves, IInv, TablesOK, RequestsAre
  <2> QED
    BY <2>3, StepKeeps
<1>2. CASE \E r \in Requests : Step(r)
  <2>1. PICK r \in Requests : Step(r)
    BY <1>2
  <2>2. CASE AskAccount(r) \/ AskProfile(r) \/ AskKelas(r) \/ AskJoin(r) \/ AskPage(r)
    BY <2>2, Arrivals
  <2>3. CASE FindEmail(r) \/ InsertGuru(r) \/ Login(r) \/ ReadProfile(r) \/ SaveProfile(r)
    BY <2>3, FindEmailKeeps, InsertGuruKeeps, LoginKeeps, ReadProfileKeeps, SaveProfileKeeps
  <2>4. CASE DrawKode(r) \/ InsertKelas(r)
    BY <2>4, DrawKodeKeeps, InsertKelasKeeps
  <2>5. CASE FindKelas(r) \/ FindSiswa(r) \/ InsertSiswa(r)
    BY <2>5, FindKelasKeeps, FindSiswaKeeps, InsertSiswaKeeps
  <2>6. CASE Page(r) \/ Fails(r)
    BY <2>6, PageKeeps, Failing
  <2> QED
    BY <2>1, <2>2, <2>3, <2>4, <2>5, <2>6 DEF Step
<1>3. CASE \E k \in DOMAIN kelas : DeleteKelas(k) \/ AssignModul(k) \/ RemoveModul(k)
  BY <1>3, GuruKeeps
<1> QED
  BY <1>1, <1>2, <1>3 DEF Next

(* What the tables and the requests under way keep, whatever interleaves.  *)
THEOREM Invariance == Spec => []IInv
BY InitOK, NextKeeps, PTL DEF Spec

(* An email leads to one guru and a code to one kelas, by the two unique   *)
(* indexes alone: the look-ups before the inserts are not needed for it.   *)
THEOREM KeysSafe == Spec => []KeysAreOne
<1>1. IInv => KeysAreOne
  <2> SUFFICES ASSUME IInv PROVE KeysAreOne
    OBVIOUS
  <2>1. ASSUME NEW S, \A x, y \in S : x = y
        PROVE  Cardinality(S) <= 1
    <3>1. CASE S = {}
      BY <3>1, FS_EmptySet
    <3>2. CASE S # {}
      <4>1. PICK x \in S : S = {x}
        BY <2>1, <3>2
      <4>2. Cardinality({x}) = 1
        BY FS_Singleton
      <4> QED
        BY <4>1, <4>2
    <3> QED
      BY <3>1, <3>2
  <2>2. \A e : \A g, h \in OfEmail(e) : g = h
    BY DEF OfEmail, IInv, TablesOK
  <2>3. \A c : \A k, l \in OfKode(c) : k = l
    BY DEF OfKode, IInv, TablesOK
  <2> QED
    BY <2>1, <2>2, <2>3 DEF KeysAreOne
<1> QED
  BY <1>1, Invariance, PTL

(* Whatever overlaps, who joins again under a name is the siswa of the     *)
(* first join, unless that one lost a race or a look-up failed.            *)
THEOREM SameSafe == Spec => []SameSiswaAgain
<1>1. IInv => SameSiswaAgain
  BY DEF IInv, RequestOK, AgainOK, SameSiswaAgain
<1> QED
  BY <1>1, Invariance, PTL

(* A page is shown only if it was open at some moment of the request.      *)
THEOREM PagesSafe == Spec => []PagesAreOpen
<1>1. IInv => PagesAreOpen
  BY DEF IInv, RequestOK, ShowOK, PagesAreOpen
<1> QED
  BY <1>1, Invariance, PTL

(* A password changes only to what its guru has asked for, unless two      *)
(* requests have overlapped.                                               *)
THEOREM PasswordSafe == Spec => PasswordStays
<1> DEFINE Kept == \A g \in DOMAIN guru : guru'[g].pw # guru[g].pw =>
                     \E r \in Requests :
                       /\ at[r] = "save" /\ at'[r] = "done" /\ form[r].by = g
                       /\ (form[r].val \in Passwords /\ form[r].val = guru'[g].pw) \/ r \in raced
<1>1. ASSUME IInv, NEW r \in Requests, SaveProfile(r)
      PROVE  Kept
  <2>1. /\ at[r] = "save" /\ FormOK(r) /\ SaveOK(r)
        /\ guru' = [guru EXCEPT ![form[r].by] = copy[r]]
        /\ Answer(r, form[r].by)
    BY <1>1 DEF SaveProfile, IInv, RequestOK
  <2>2. at'[r] = "done"
    BY <1>1, <2>1, Answering DEF IInv
  <2>3. ASSUME NEW g \in DOMAIN guru, guru'[g].pw # guru[g].pw
        PROVE  g = form[r].by /\ guru'[g] = copy[r]
    BY <2>1, <2>3
  <2>4. form[r].val \in Passwords \/ form[r].val = None
    BY <2>1 DEF FormOK
  <2> QED
    BY <2>1, <2>2, <2>3, <2>4 DEF SaveOK
<1>2. ASSUME IInv, NEW r \in Requests, InsertGuru(r)
      PROVE  Kept
  <2>1. CASE UNCHANGED guru
    BY <2>1
  <2>2. CASE guru' # guru
    <3>1. /\ guru' = Append(guru, [email |-> form[r].key, pw |-> form[r].val])
          /\ FormOK(r) /\ at[r] = "insert_guru"
      BY <1>2, <2>2 DEF InsertGuru, IInv, RequestOK
    <3>2. [email |-> form[r].key, pw |-> form[r].val] \in Profile /\ guru \in Seq(Profile)
      BY <1>2, <3>1 DEF FormOK, Profile, IInv, TablesOK
    <3>3. \A g \in DOMAIN guru : guru'[g] = guru[g]
      BY <3>1, <3>2, Appended
    <3> QED
      BY <3>3
  <2> QED
    BY <2>1, <2>2
<1>3. ASSUME UNCHANGED guru PROVE Kept
  BY <1>3
<1>4. ASSUME IInv, [Next]_vars PROVE Kept
  <2>1. ASSUME NEW r \in Requests, Step(r), ~SaveProfile(r), ~InsertGuru(r)
        PROVE  UNCHANGED guru
    BY <2>1 DEF Step, AskAccount, AskProfile, AskKelas, AskJoin, AskPage, Ask, FindEmail, Login,
       ReadProfile, DrawKode, InsertKelas, FindKelas, FindSiswa, InsertSiswa, Page, Fails, tables
  <2>2. ASSUME NEW k, DeleteKelas(k) \/ AssignModul(k) \/ RemoveModul(k)
        PROVE  UNCHANGED guru
    BY <2>2 DEF DeleteKelas, AssignModul, RemoveModul
  <2>3. ASSUME UNCHANGED vars PROVE UNCHANGED guru
    BY <2>3 DEF vars, tables
  <2> HIDE DEF Kept
  <2> QED
    BY <1>1, <1>2, <1>3, <1>4, <2>1, <2>2, <2>3 DEF Next
<1>5. IInv /\ [Next]_vars => [Kept]_vars
  BY <1>4
<1> QED
  BY <1>5, Invariance, PTL DEF Spec, PasswordStays, Kept
=============================================================================
