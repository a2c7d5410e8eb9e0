------------------------- MODULE TutorSessionProofs -------------------------
(***************************************************************************)
(* What holds of a voice session for any number of chat requests, tool     *)
(* calls and restarts, and whatever fails: one turn at a time is with the  *)
(* AI service, who has joined is enrolled, one conversation enrols one     *)
(* siswa, a join is told in the turn that is answered after it, and a quiz *)
(* has no points but for questions passed and asks nothing twice.          *)
(***************************************************************************)
EXTENDS TutorSession, FiniteSetTheorems, TLAPS

-----------------------------------------------------------------------------
(* The inductive invariant.                                                *)

Calls == {"set_nama_siswa", "set_kode_kelas", "join_kelas", "mulai_kuis", "submit_jawaban", "reset_percakapan"}
Work  == Calls \cup {"find", "create", "joined", "advance", "delete"}

Places  == Work \cup {"idle", "new", "guard", "tunggu", "submit", "wait", "attach", "finish",
                      "done", "read", "fill", "write"}
Returns == Calls \cup {"none", "idle", "guard", "tunggu", "submit", "attach", "finish"}
Jobs    == {"none", "running", "answered", "limited", "failed"}

(* Where a chat request can be, and where it then goes on.                 *)
ChatAt(t) ==
  \/ /\ at[Chat(t)] \in {"new", "guard", "tunggu", "submit", "wait", "attach", "finish", "done"}
     /\ back[Chat(t)] = "none"
  \/ /\ at[Chat(t)] \in {"read", "fill"}
     /\ back[Chat(t)] \in {"guard", "tunggu", "submit", "attach"}
  \/ at[Chat(t)] = "write" /\ back[Chat(t)] = "finish"

ToolAt(t) ==
  \/ at[Tool(t)] \in Work \cup {"idle"} /\ back[Tool(t)] = "none"
  \/ at[Tool(t)] \in {"read", "fill"} /\ back[Tool(t)] \in Calls
  \/ at[Tool(t)] = "write" /\ back[Tool(t)] \in {"join_kelas", "idle"}

(* Tools work for a running job, and a running job has a chat request that *)
(* waits for it, or is an orphan.                                          *)
JobOK(t) ==
  /\ at[Tool(t)] # "idle" => job[t] = "running"
  /\ at[Chat(t)] \notin {"wait", "done"} => job[t] = "none"
  /\ job[t] = "running" /\ "orphan" \notin seen => at[Chat(t)] = "wait"

Control ==
  /\ at \in [Threads -> Places] /\ back \in [Threads -> Returns]
  /\ job \in [Turns -> Jobs] /\ busy \in BOOLEAN
  /\ \A t \in Turns : ChatAt(t) /\ ToolAt(t) /\ JobOK(t) /\ (Holds(t) => busy)
  /\ OneTurnAtATime

(* Questions of the class, each once, and the one that is asked.           *)
Kuis == {k \in [ids : Seq(Soal), index : Nat, skor : Nat] :
           /\ k.index < Len(k.ids)
           /\ \A i, j \in 1 .. Len(k.ids) : k.ids[i] = k.ids[j] => i = j}

(* A record of the session, when n[name] siswa of each name are enrolled.  *)
Good(s, n) ==
  /\ {"nama", "joined", "pending", "kuis"} \subseteq DOMAIN s
  /\ s.nama \in AllNames \cup {""} /\ s.joined \in AllNames \cup {""}
  /\ s.pending \in BOOLEAN
  /\ s.joined # "" => n[s.joined] > 0
  /\ s.kuis \in Kuis \cup {None}

(* Wherever the state is, in the heap, in the database or on its way there.*)
Store ==
  /\ DOMAIN heap = Objs /\ DOMAIN snap = Threads
  /\ cache \in Objs \cup {None} /\ ptr \in [Threads -> Objs \cup {None}]
  /\ siswa \in [AllNames -> Nat]
  /\ \A o \in Objs : Good(heap[o], siswa)
  /\ db = None \/ Good(db, siswa)
  /\ \A th \in Threads : snap[th] = None \/ Good(snap[th], siswa)

(* Who has loaded the state has an object.                                 *)
Loaded(th) == at[th] \in Work \cup {"fill", "write", "attach", "finish"} => ptr[th] \in Objs

(* What a join knows between its statements: the name, then that nobody    *)
(* has it, then that there is a row.                                       *)
Enrol ==
  /\ joining \in [Turns -> AllNames \cup {""}]
  /\ \A t \in Turns : at[Tool(t)] \in {"find", "create", "joined"} => joining[t] \in AllNames
  /\ \A t \in Turns : at[Tool(t)] = "joined" => siswa[joining[t]] > 0
  /\ {"orphan", "blind"} \cap seen = {} =>
       /\ \A n \in AllNames : siswa[n] <= 1
       /\ \A t \in Turns : at[Tool(t)] = "create" => siswa[joining[t]] = 0

(* A turn that was answered works on the object in the cache.              *)
Telling(t) == at[Chat(t)] \in {"attach", "write", "finish"}

Tell ==
  Apart => \A t \in Turns : Telling(t) =>
    /\ cache = ptr[Chat(t)]
    /\ at[Chat(t)] # "attach" => ~heap[cache].pending

(* The tables that a quiz works on.                                        *)
Rows == soals \subseteq Soal /\ graded \in [Soal -> Nat]

(* A tool call has graded a question and not moved on yet.                 *)
Grading(t) == at[Tool(t)] = "advance"

Scored(s) == s.kuis # None => s.kuis.skor <= s.kuis.index

(* Points are for questions passed, except in the object of a tool call    *)
(* that has just graded one.                                               *)
Score ==
  "orphan" \notin seen =>
    /\ "panic" \notin seen
    /\ db # None => Scored(db)
    /\ \A th \in Threads : snap[th] # None => Scored(snap[th])
    /\ \A o \in Objs : Scored(heap[o]) \/ \E t \in Turns : Grading(t) /\ ptr[Tool(t)] = o
    /\ \A t \in Turns : Grading(t) =>
         LET k == State(Tool(t)).kuis IN k # None /\ k.skor <= k.index + 1

(* No row yet for the questions from the (n + 1)-th of those to come.      *)
Blank(k, n) == \A i \in 1 .. Len(k.ids) : i > k.index + n => graded[k.ids[i]] = 0

(* Tool calls work on the object in the cache, and the questions that its  *)
(* quiz has still to ask have no rows.                                     *)
Working(t) == at[Tool(t)] \in (Work \ {"delete"}) \cup {"write"}

Grades ==
  Apart /\ "older" \notin seen =>
    /\ \A t \in Turns : Working(t) => ptr[Tool(t)] = cache
    /\ \A q \in Soal : graded[q] <= 1
    /\ cache # None /\ heap[cache].kuis # None =>
         Blank(heap[cache].kuis, IF \E t \in Turns : Grading(t) THEN 1 ELSE 0)

(* The process starts with any record that an earlier one can have left;   *)
(* graded counts the rows from then on.                                    *)
Records == [nama : AllNames \cup {""}, kode : {"none", "ada", "salah"},
            joined : AllNames \cup {""}, pending : BOOLEAN, kuis : Kuis \cup {None}]

AnyInit ==
  \E n \in [AllNames -> {0, 1}], d \in Records \cup {None} :
    (d # None => (d.joined # "" => n[d.joined] = 1) /\ Scored(d)) /\ StartsWith(d, n)

AnySpec == AnyInit /\ [][Next]_vars

IInv == /\ Control /\ Store /\ (\A th \in Threads : Loaded(th)) /\ Enrol /\ Tell
        /\ Rows /\ Score /\ Grades

-----------------------------------------------------------------------------
(* Threads and objects.                                                    *)

LEMMA ThreadFacts ==
  /\ \A t \in Turns : Chat(t) \in Threads /\ Tool(t) \in Threads
  /\ \A t, u \in Turns : /\ Chat(t) # Tool(u)
                         /\ Chat(t) = Chat(u) => t = u
                         /\ Tool(t) = Tool(u) => t = u
  /\ \A th \in Threads : \E t \in Turns : th = Chat(t) \/ th = Tool(t)
  /\ \A t \in Turns : Chat(t)[2] = "chat" /\ Tool(t)[2] = "tool"
BY DEF Threads, Chat, Tool

LEMMA NoneIsNoObject == None \notin Objs
<1>1. None \notin Nat
  BY SessionAssumption, Zenon
<1>2. Objs \subseteq Nat
  BY DEF Objs
<1> QED
  BY <1>1, <1>2

(* There is an object that nobody points to.                               *)
LEMMA FreeObject == \E o \in Objs : o \notin Used
<1>1. IsFiniteSet(Threads) /\ Cardinality(Threads) = 2 * Cardinality(Turns)
  <2>1. IsFiniteSet({"chat", "tool"}) /\ Cardinality({"chat", "tool"}) = 2
    <3>1. {"chat", "tool"} = {"chat"} \cup {"tool"} /\ "tool" \notin {"chat"}
      OBVIOUS
    <3>2. IsFiniteSet({"chat"}) /\ Cardinality({"chat"}) = 1
      BY FS_Singleton, Zenon
    <3>3. /\ IsFiniteSet({"chat"} \cup {"tool"})
          /\ Cardinality({"chat"} \cup {"tool"})
               = IF "tool" \in {"chat"} THEN Cardinality({"chat"}) ELSE Cardinality({"chat"}) + 1
      BY <3>2, FS_AddElement, Zenon
    <3> QED
      BY <3>1, <3>2, <3>3
  <2>2. IsFiniteSet(Turns) /\ Cardinality(Turns) \in Nat
    BY SessionAssumption, FS_CardinalityType
  <2>3. /\ IsFiniteSet(Turns \X {"chat", "tool"})
        /\ Cardinality(Turns \X {"chat", "tool"})
             = Cardinality(Turns) * Cardinality({"chat", "tool"})
    BY <2>1, <2>2, FS_Product, Zenon
  <2> QED
    BY <2>1, <2>2, <2>3 DEF Threads
<1>2. Cardinality(Turns) \in Nat
  BY SessionAssumption, FS_CardinalityType
<1> DEFINE Held == {ptr[th] : th \in Threads}
<1>3. IsFiniteSet(Held) /\ Cardinality(Held) \in Nat /\ Cardinality(Held) <= Cardinality(Threads)
  <2>1. [th \in Threads |-> ptr[th]] \in Surjection(Threads, Held)
    BY DEF Surjection
  <2> QED
    BY <1>1, <2>1, FS_Surjection, FS_CardinalityType
<1>4. /\ IsFiniteSet(Used) /\ Cardinality(Used) \in Nat
      /\ Cardinality(Used) <= 2 * Cardinality(Turns) + 1
  <2>1. Used = Held \cup {cache}
    BY DEF Used
  <2> HIDE DEF Held
  <2>2. /\ IsFiniteSet(Held \cup {cache})
        /\ Cardinality(Held \cup {cache})
             = IF cache \in Held THEN Cardinality(Held) ELSE Cardinality(Held) + 1
    BY <1>3, FS_AddElement, Zenon
  <2> QED
    BY <1>1, <1>2, <1>3, <2>1, <2>2
<1>5. IsFiniteSet(Objs) /\ Cardinality(Objs) = 2 * Cardinality(Turns) + 2
  BY <1>2, FS_Interval DEF Objs
<1> QED
  <2> SUFFICES ASSUME Objs \in SUBSET Used PROVE FALSE
    OBVIOUS
  <2>1. Cardinality(Objs) <= Cardinality(Used)
    BY <1>4, FS_Subset, Zenon
  <2> QED
    BY <1>2, <1>4, <1>5, <2>1

-----------------------------------------------------------------------------
(* Control: where threads are, the busy flag, the jobs.                    *)

Moves(th, l, m) == at' = [at EXCEPT ![th] = l] /\ back' = [back EXCEPT ![th] = m]

LEMMA ToolMoves ==
  ASSUME Control, NEW t \in Turns, NEW l \in Places, NEW m \in Returns,
         Moves(Tool(t), l, m), job[t] = "running",
         UNCHANGED <<busy, job>>, seen \subseteq seen', ToolAt(t)'
  PROVE  Control'
<1>1. at' \in [Threads -> Places] /\ back' \in [Threads -> Returns]
  BY DEF Control, Moves
<1>2. \A u \in Turns : at'[Chat(u)] = at[Chat(u)] /\ back'[Chat(u)] = back[Chat(u)]
  BY ThreadFacts DEF Control, Moves
<1>3. \A u \in Turns \ {t} : at'[Tool(u)] = at[Tool(u)] /\ back'[Tool(u)] = back[Tool(u)]
  BY ThreadFacts DEF Control, Moves
<1>4. \A u \in Turns : ChatAt(u)' /\ (Holds(u)' <=> Holds(u))
  BY <1>2 DEF Control, ChatAt, Holds
<1>5. \A u \in Turns : ToolAt(u)'
  BY <1>3 DEF Control, ToolAt
<1>6. \A u \in Turns : JobOK(u)'
  BY <1>2, <1>3 DEF Control, JobOK
<1> QED
  BY <1>1, <1>4, <1>5, <1>6 DEF Control, OneTurnAtATime

LEMMA ChatMoves ==
  ASSUME Control, NEW t \in Turns, NEW l \in Places, NEW m \in Returns, NEW j \in Jobs,
         Moves(Chat(t), l, m), job' = [job EXCEPT ![t] = j], busy' \in BOOLEAN,
         seen \subseteq seen', ChatAt(t)', JobOK(t)',
         \/ busy' = busy /\ (Holds(t)' <=> Holds(t))
         \/ Holds(t) /\ ~Holds(t)' /\ ~busy'
         \/ ~busy /\ Holds(t)' /\ busy'
  PROVE  Control'
<1>1. at' \in [Threads -> Places] /\ back' \in [Threads -> Returns] /\ job' \in [Turns -> Jobs]
  BY DEF Control, Moves
<1>2. \A u \in Turns \ {t} : /\ at'[Chat(u)] = at[Chat(u)] /\ back'[Chat(u)] = back[Chat(u)]
                             /\ job'[u] = job[u]
  BY ThreadFacts DEF Control, Moves
<1>3. \A u \in Turns : at'[Tool(u)] = at[Tool(u)] /\ back'[Tool(u)] = back[Tool(u)]
  BY ThreadFacts DEF Control, Moves
<1>4. \A u \in Turns \ {t} : ChatAt(u)' /\ (Holds(u)' <=> Holds(u))
  BY <1>2 DEF Control, ChatAt, Holds
<1>5. \A u \in Turns : ToolAt(u)'
  BY <1>3 DEF Control, ToolAt
<1>6. \A u \in Turns : JobOK(u)'
  BY <1>2, <1>3 DEF Control, JobOK
<1>7. /\ \A u \in Turns : Holds(u) => busy
      /\ \A u, v \in Turns : Holds(u) /\ Holds(v) => u = v
      /\ busy => \E u \in Turns : Holds(u)
  BY DEF Control, OneTurnAtATime
<1>8. \A u \in Turns : Holds(u)' => busy'
  BY <1>4, <1>7
<1>9. OneTurnAtATime'
  <2>1. CASE busy' = busy /\ (Holds(t)' <=> Holds(t))
    BY <1>4, <1>7, <2>1 DEF OneTurnAtATime
  <2>2. CASE Holds(t) /\ ~Holds(t)' /\ ~busy'
    BY <1>4, <1>7, <2>2 DEF OneTurnAtATime
  <2>3. CASE ~busy /\ Holds(t)' /\ busy'
    BY <1>4, <1>7, <2>3 DEF OneTurnAtATime
  <2> QED
    BY <2>1, <2>2, <2>3
<1> QED
  BY <1>1, <1>4, <1>5, <1>6, <1>8, <1>9 DEF Control

(* How the routines move a thread.                                         *)
LEMMA Routines ==
  ASSUME NEW th, NEW l, NEW s, NEW h
  PROVE  /\ Continue(th, l) => Moves(th, l, "none")
         /\ Leave(th, l, h) => Moves(th, l, "none")
         /\ Save(th, s, l) => Moves(th, "write", l)
         /\ Load(th, l) => Moves(th, l, "none") \/ Moves(th, "read", l)
         /\ Goto(th, l) => Moves(th, l, "none")
BY DEF Continue, Leave, Save, Load, Goto, Call, Moves

LEMMA MovedTool ==
  ASSUME Control, NEW t \in Turns, NEW l, NEW m, Moves(Tool(t), l, m)
  PROVE  at'[Tool(t)] = l /\ back'[Tool(t)] = m
BY ThreadFacts DEF Control, Moves

LEMMA MovedChat ==
  ASSUME Control, NEW t \in Turns, NEW l, NEW m, Moves(Chat(t), l, m)
  PROVE  at'[Chat(t)] = l /\ back'[Chat(t)] = m
         /\ \A u \in Turns : at'[Tool(u)] = at[Tool(u)]
BY ThreadFacts DEF Control, Moves

(* Only the tools of t move.                                               *)
ToolGoes(t) == Moves(Tool(t), at'[Tool(t)], back'[Tool(t)]) /\ ToolAt(t)'

LEMMA ToolGoesOn ==
  ASSUME Control, NEW t \in Turns, ToolGoes(t), job[t] = "running",
         UNCHANGED <<busy, job>>, seen \subseteq seen'
  PROVE  Control'
<1>1. at'[Tool(t)] \in Places /\ back'[Tool(t)] \in Returns
  BY DEF ToolGoes, ToolAt, Places, Returns, Calls
<1> QED
  BY <1>1, ToolMoves DEF ToolGoes

LEMMA ToolGoesTo ==
  ASSUME Control, NEW t \in Turns, NEW l, NEW m, Moves(Tool(t), l, m),
         \/ l \in Work \cup {"idle"} /\ m = "none"
         \/ l \in {"read", "fill"} /\ m \in Calls
         \/ l = "write" /\ m \in {"join_kelas", "idle"}
  PROVE  ToolGoes(t)
<1>1. at'[Tool(t)] = l /\ back'[Tool(t)] = m
  BY MovedTool
<1>2. Moves(Tool(t), at'[Tool(t)], back'[Tool(t)])
  BY <1>1 DEF Moves
<1> QED
  BY <1>1, <1>2 DEF ToolGoes, ToolAt

LEMMA ToolStepGoes ==
  ASSUME Control, NEW t \in Turns, ToolStep(t)
  PROVE  /\ at[Tool(t)] \in Work /\ ToolGoes(t)
         /\ UNCHANGED <<busy, job, retried>> /\ seen \subseteq seen'
<1>0. /\ Moves(Tool(t), "idle", "none") => ToolGoes(t)
      /\ Moves(Tool(t), "find", "none") => ToolGoes(t)
      /\ Moves(Tool(t), "create", "none") => ToolGoes(t)
      /\ Moves(Tool(t), "joined", "none") => ToolGoes(t)
      /\ Moves(Tool(t), "advance", "none") => ToolGoes(t)
      /\ Moves(Tool(t), "delete", "none") => ToolGoes(t)
      /\ Moves(Tool(t), "write", "join_kelas") => ToolGoes(t)
      /\ Moves(Tool(t), "write", "idle") => ToolGoes(t)
  BY ToolGoesTo DEF Work, Calls
<1>1. CASE SetKodeKelas(t)
  <2>1. Moves(Tool(t), "write", "join_kelas") \/ Moves(Tool(t), "idle", "none")
    BY <1>1 DEF SetKodeKelas, NoEffect, Continue, Leave, Save, Goto, Call, Moves
  <2>2. UNCHANGED <<busy, job, retried>> /\ seen \subseteq seen' /\ at[Tool(t)] \in Work
    BY <1>1 DEF SetKodeKelas, Notes, chat, Work, Calls
  <2> QED
    BY <1>0, <2>1, <2>2
<1>2. CASE JoinKelas(t)
  <2>1. \/ Moves(Tool(t), "idle", "none")
        \/ Moves(Tool(t), "write", "idle")
        \/ Moves(Tool(t), "find", "none")
    BY <1>2 DEF JoinKelas, NoEffect, Continue, Leave, Save, Goto, Call, Moves
  <2>2. UNCHANGED <<busy, job, retried>> /\ seen \subseteq seen' /\ at[Tool(t)] \in Work
    BY <1>2 DEF JoinKelas, Notes, chat, Work, Calls
  <2> QED
    BY <1>0, <2>1, <2>2
<1>3. CASE FindSiswa(t)
  <2>1. Moves(Tool(t), "joined", "none") \/ Moves(Tool(t), "create", "none")
    BY <1>3 DEF FindSiswa, Continue, Leave, Save, Goto, Call, Moves
  <2>2. UNCHANGED <<busy, job, retried>> /\ seen \subseteq seen' /\ at[Tool(t)] \in Work
    BY <1>3 DEF FindSiswa, Notes, chat, Work, Calls
  <2> QED
    BY <1>0, <2>1, <2>2
<1>4. CASE CreateSiswa(t)
  <2>1. Moves(Tool(t), "joined", "none") \/ Moves(Tool(t), "write", "idle")
    BY <1>4 DEF CreateSiswa, Continue, Leave, Save, Goto, Call, Moves
  <2>2. UNCHANGED <<busy, job, retried>> /\ seen \subseteq seen' /\ at[Tool(t)] \in Work
    BY <1>4 DEF CreateSiswa, Notes, chat, Work, Calls
  <2> QED
    BY <1>0, <2>1, <2>2
<1>5. CASE Joined(t)
  <2>1. Moves(Tool(t), "write", "idle")
    BY <1>5 DEF Joined, Continue, Leave, Save, Goto, Call, Moves
  <2>2. UNCHANGED <<busy, job, retried>> /\ seen \subseteq seen' /\ at[Tool(t)] \in Work
    BY <1>5 DEF Joined, Notes, chat, Work, Calls
  <2> QED
    BY <1>0, <2>1, <2>2
<1>6. CASE MulaiKuis(t)
  <2>1. Moves(Tool(t), "write", "idle") \/ Moves(Tool(t), "idle", "none")
    BY <1>6 DEF MulaiKuis, NoEffect, Continue, Leave, Save, Goto, Call, Moves
  <2>2. UNCHANGED <<busy, job, retried>> /\ seen \subseteq seen' /\ at[Tool(t)] \in Work
    BY <1>6 DEF MulaiKuis, Notes, chat, Work, Calls
  <2> QED
    BY <1>0, <2>1, <2>2
<1>7. CASE GradeJawaban(t)
  <2>1. Moves(Tool(t), "advance", "none") \/ Moves(Tool(t), "idle", "none")
    BY <1>7 DEF GradeJawaban, NoEffect, Continue, Leave, Save, Goto, Call, Moves
  <2>2. UNCHANGED <<busy, job, retried>> /\ seen \subseteq seen' /\ at[Tool(t)] \in Work
    BY <1>7 DEF GradeJawaban, Notes, chat, Work, Calls
  <2> QED
    BY <1>0, <2>1, <2>2
<1>8. CASE AdvanceKuis(t)
  <2>1. Moves(Tool(t), "idle", "none") \/ Moves(Tool(t), "write", "idle")
    BY <1>8 DEF AdvanceKuis, NoEffect, Continue, Leave, Save, Goto, Call, Moves
  <2>2. UNCHANGED <<busy, job, retried>> /\ seen \subseteq seen' /\ at[Tool(t)] \in Work
    BY <1>8 DEF AdvanceKuis, Notes, chat, Work, Calls
  <2> QED
    BY <1>0, <2>1, <2>2
<1>9. CASE ResetCache(t)
  <2>1. Moves(Tool(t), "delete", "none")
    BY <1>9 DEF ResetCache, Continue, Leave, Save, Goto, Call, Moves
  <2>2. UNCHANGED <<busy, job, retried>> /\ seen \subseteq seen' /\ at[Tool(t)] \in Work
    BY <1>9 DEF ResetCache, Notes, chat, Work, Calls
  <2> QED
    BY <1>0, <2>1, <2>2
<1>10. CASE ResetDb(t)
  <2>1. Moves(Tool(t), "idle", "none")
    BY <1>10 DEF ResetDb, Continue, Leave, Save, Goto, Call, Moves
  <2>2. UNCHANGED <<busy, job, retried>> /\ seen \subseteq seen' /\ at[Tool(t)] \in Work
    BY <1>10 DEF ResetDb, Notes, chat, Work, Calls
  <2> QED
    BY <1>0, <2>1, <2>2
<1>11. CASE SetNamaSiswa(t)
  <2>1. Moves(Tool(t), "write", "idle") \/ Moves(Tool(t), "idle", "none")
    BY <1>11 DEF SetNamaSiswa, NoEffect, Continue, Leave, Save, Goto, Call, Moves
  <2>2. UNCHANGED <<busy, job, retried>> /\ seen \subseteq seen' /\ at[Tool(t)] \in Work
    BY <1>11 DEF SetNamaSiswa, Notes, chat, Work, Calls
  <2> QED
    BY <1>0, <2>1, <2>2
<1> QED
  BY <1>1, <1>2, <1>3, <1>4, <1>5, <1>6, <1>7, <1>8, <1>9, <1>10, <1>11 DEF ToolStep

LEMMA ToolControl ==
  ASSUME Control, NEW t \in Turns, ToolStep(t)
  PROVE  Control'
<1>1. job[t] = "running"
  BY ToolStepGoes DEF Control, JobOK, Work, Calls
<1> QED
  BY <1>1, ToolStepGoes, ToolGoesOn

LEMMA CallControl ==
  ASSUME Control, NEW t \in Turns, NEW tool \in Tools, CallTool(t, tool)
  PROVE  Control'
<1>1. tool \in Calls
  BY SessionAssumption DEF Calls
<1>2. Moves(Tool(t), tool, "none") \/ Moves(Tool(t), "read", tool)
  BY DEF CallTool, Load, Goto, Call, Moves
<1>3. ToolGoes(t)
  BY <1>1, <1>2, ToolGoesTo DEF Work
<1> QED
  BY <1>3, ToolGoesOn DEF CallTool, chat

LEMMA SharedToolControl ==
  ASSUME Control, NEW t \in Turns, SharedStep(Tool(t))
  PROVE  Control'
<1>1. /\ job[t] = "running" /\ UNCHANGED <<busy, job>> /\ seen \subseteq seen'
      /\ at[Tool(t)] \in {"read", "fill", "write"} /\ back[Tool(t)] \in Calls \cup {"idle"}
  BY DEF SharedStep, ReadDb, Fill, WriteDb, chat, Notes, Control, JobOK, ToolAt, Work, Calls
<1>2. \/ Moves(Tool(t), "fill", back[Tool(t)]) /\ back[Tool(t)] \in Calls
      \/ Moves(Tool(t), back[Tool(t)], "none")
  BY DEF SharedStep, ReadDb, Fill, WriteDb, Goto, Moves, Control, ToolAt, Work, Calls
<1>3. ToolGoes(t)
  BY <1>1, <1>2, ToolGoesTo DEF Work
<1> QED
  BY <1>1, <1>3, ToolGoesOn

(* Only the chat request t moves, and its job may.                         *)
LEMMA ChatGoesOn ==
  ASSUME Control, NEW t \in Turns, NEW l, NEW m, NEW j \in Jobs,
         Moves(Chat(t), l, m), job' = [job EXCEPT ![t] = j], busy' \in BOOLEAN,
         seen \subseteq seen', ChatAt(t)',
         at[Tool(t)] # "idle" => j = "running",
         l \notin {"wait", "done"} => j = "none",
         j = "running" /\ "orphan" \notin seen' => l = "wait",
         \/ busy' = busy /\ (Holds(t)' <=> Holds(t))
         \/ Holds(t) /\ ~Holds(t)' /\ ~busy'
         \/ ~busy /\ Holds(t)' /\ busy'
  PROVE  Control'
<1>1. at'[Chat(t)] = l /\ back'[Chat(t)] = m /\ at'[Tool(t)] = at[Tool(t)]
  BY MovedChat
<1>2. l \in Places /\ m \in Returns
  BY <1>1 DEF ChatAt, Places, Returns
<1>3. JobOK(t)'
  BY <1>1 DEF Control, JobOK
<1> QED
  BY <1>2, <1>3, ChatMoves

LEMMA SharedChatControl ==
  ASSUME Control, NEW t \in Turns, SharedStep(Chat(t))
  PROVE  Control'
<1>1. /\ at[Chat(t)] \in {"read", "fill", "write"} /\ UNCHANGED <<busy, job>>
      /\ seen \subseteq seen' /\ job[t] = "none" /\ at[Tool(t)] = "idle"
  BY DEF SharedStep, ReadDb, Fill, WriteDb, chat, Notes, Control, JobOK
<1>2. \/ Moves(Chat(t), "fill", back[Chat(t)]) /\ at[Chat(t)] = "read"
      \/ Moves(Chat(t), back[Chat(t)], "none")
  BY DEF SharedStep, ReadDb, Fill, WriteDb, Goto, Moves, Control
<1>3. ChatAt(t) /\ job' = [job EXCEPT ![t] = "none"] /\ busy' \in BOOLEAN /\ "none" \in Jobs
  BY <1>1 DEF Control, Jobs
<1>4. CASE Moves(Chat(t), "fill", back[Chat(t)]) /\ at[Chat(t)] = "read"
  <2>1. at'[Chat(t)] = "fill" /\ back'[Chat(t)] = back[Chat(t)]
    BY <1>4, MovedChat
  <2>2. ChatAt(t)' /\ (Holds(t)' <=> Holds(t))
    BY <1>3, <1>4, <2>1 DEF ChatAt, Holds
  <2> QED
    BY <1>1, <1>3, <1>4, <2>2, ChatGoesOn
<1>5. CASE Moves(Chat(t), back[Chat(t)], "none")
  <2>1. at'[Chat(t)] = back[Chat(t)] /\ back'[Chat(t)] = "none"
    BY <1>5, MovedChat
  <2>2. ChatAt(t)' /\ (Holds(t)' <=> Holds(t)) /\ back[Chat(t)] \notin {"wait", "done"}
    BY <1>1, <1>3, <2>1 DEF ChatAt, Holds
  <2> QED
    BY <1>1, <1>3, <1>5, <2>2, ChatGoesOn
<1> QED
  BY <1>2, <1>4, <1>5

LEMMA LoadMoves ==
  ASSUME NEW th, NEW l, Load(th, l)
  PROVE  Moves(th, l, "none") \/ Moves(th, "read", l)
BY DEF Load, Goto, Call, Moves

(* A request that loads the state to go on at l.                           *)
LEMMA ChatLoads ==
  ASSUME Control, NEW t \in Turns, NEW l \in {"guard", "tunggu", "submit", "attach"},
         Load(Chat(t), l), job' = [job EXCEPT ![t] = "none"], busy' \in BOOLEAN,
         seen' = seen, job[t] # "running",
         LET held == l \in {"submit", "attach"} IN
           \/ busy' = busy /\ (held <=> Holds(t))
           \/ ~busy /\ held /\ busy'
  PROVE  Control'
<1>1. Moves(Chat(t), l, "none") \/ Moves(Chat(t), "read", l)
  BY LoadMoves
<1>2. at[Tool(t)] = "idle" /\ "none" \in Jobs
  BY DEF Control, JobOK, Jobs
<1>3. CASE Moves(Chat(t), l, "none")
  <2>1. at'[Chat(t)] = l /\ back'[Chat(t)] = "none"
    BY <1>3, MovedChat
  <2>2. ChatAt(t)' /\ (Holds(t)' <=> l \in {"submit", "attach"})
    BY <2>1 DEF ChatAt, Holds
  <2> QED
    BY <1>2, <1>3, <2>2, ChatGoesOn
<1>4. CASE Moves(Chat(t), "read", l)
  <2>1. at'[Chat(t)] = "read" /\ back'[Chat(t)] = l
    BY <1>4, MovedChat
  <2>2. ChatAt(t)' /\ (Holds(t)' <=> l \in {"submit", "attach"})
    BY <2>1 DEF ChatAt, Holds
  <2> QED
    BY <1>2, <1>4, <2>2, ChatGoesOn
<1> QED
  BY <1>1, <1>3, <1>4

LEMMA FallbackControl ==
  ASSUME Control, NEW t \in Turns, NEW j \in Jobs, Fallback(t, j), Holds(t),
         at[Tool(t)] # "idle" => j = "running"
  PROVE  Control'
<1>1. Moves(Chat(t), "done", "none") /\ busy' = FALSE
  BY DEF Fallback, Leave, Goto, Moves
<1>2. at'[Chat(t)] = "done" /\ back'[Chat(t)] = "none"
  BY <1>1, MovedChat
<1>3. ChatAt(t)' /\ ~Holds(t)' /\ busy' \in BOOLEAN
  BY <1>1, <1>2 DEF ChatAt, Holds
<1>4. /\ job' = [job EXCEPT ![t] = j] /\ seen \subseteq seen'
      /\ j = "running" => "orphan" \in seen'
  BY DEF Fallback, Notes
<1> QED
  BY <1>1, <1>3, <1>4, ChatGoesOn

LEMMA ChatControl ==
  ASSUME Control, NEW t \in Turns, Send(t) \/ ChatStep(t)
  PROVE  Control'
<1> USE DEF chat
<1>0. /\ job \in [Turns -> Jobs] /\ JobOK(t) /\ ChatAt(t) /\ busy \in BOOLEAN
      /\ Holds(t) => busy
      /\ job[t] = "none" /\ job' = job => job' = [job EXCEPT ![t] = "none"]
  BY DEF Control
<1>1. CASE Send(t)
  <2>1. job[t] = "none" /\ job' = [job EXCEPT ![t] = "none"] /\ ~Holds(t)
        /\ busy' = busy /\ seen' = seen
    BY <1>0, <1>1 DEF Send, JobOK, ChatAt, Holds
  <2> QED
    BY <1>0, <1>1, <2>1, ChatLoads DEF Send
<1>2. CASE Guard(t)
  <2>1. job[t] = "none" /\ job' = [job EXCEPT ![t] = "none"] /\ ~Holds(t)
        /\ busy' /\ busy' \in BOOLEAN /\ seen' = seen
    BY <1>0, <1>2 DEF Guard, JobOK, ChatAt, Holds
  <2>2. CASE busy
    BY <1>0, <1>2, <2>1, <2>2, ChatLoads DEF Guard
  <2>3. CASE ~busy
    BY <1>0, <1>2, <2>1, <2>3, ChatLoads DEF Guard
  <2> QED
    BY <2>2, <2>3
<1>3. CASE Tunggu(t)
  <2>1. job[t] = "none" /\ job' = [job EXCEPT ![t] = "none"] /\ ~Holds(t)
        /\ busy' = busy /\ seen' = seen /\ at[Tool(t)] = "idle" /\ "none" \in Jobs
    BY <1>0, <1>3 DEF Tunggu, JobOK, ChatAt, Holds, Jobs
  <2>2. Moves(Chat(t), "done", "none")
    BY <1>3 DEF Tunggu, Leave, Goto, Moves
  <2>3. ChatAt(t)' /\ ~Holds(t)'
    BY <2>2, MovedChat DEF ChatAt, Holds
  <2> QED
    BY <1>0, <2>1, <2>2, <2>3, ChatGoesOn
<1>4. CASE Submit(t)
  <2>1. job' = [job EXCEPT ![t] = "running"] /\ Holds(t)
        /\ busy' = busy /\ seen' = seen /\ "running" \in Jobs
    BY <1>0, <1>4 DEF Submit, ChatAt, Holds, Jobs
  <2>2. Moves(Chat(t), "wait", "none")
    BY <1>4 DEF Submit, Leave, Goto, Moves
  <2>3. ChatAt(t)' /\ Holds(t)'
    BY <2>2, MovedChat DEF ChatAt, Holds
  <2> QED
    BY <1>0, <2>1, <2>2, <2>3, ChatGoesOn
<1>5. CASE SubmitError(t)
  <2>1. PICK j \in {"none", "running"} : Fallback(t, j)
    BY <1>5 DEF SubmitError
  <2>2. Holds(t) /\ at[Tool(t)] = "idle" /\ j \in Jobs
    BY <1>0, <1>5 DEF SubmitError, Holds, JobOK, Jobs
  <2> QED
    BY <2>1, <2>2, FallbackControl
<1>6. CASE Timeout(t)
  <2>1. Holds(t) /\ {"none", "running"} \subseteq Jobs
    BY <1>6 DEF Timeout, Holds, Jobs
  <2>2. CASE job[t] = "running"
    BY <1>0, <1>6, <2>1, <2>2, FallbackControl DEF Timeout
  <2>3. CASE job[t] # "running"
    BY <1>0, <1>6, <2>1, <2>3, FallbackControl DEF Timeout, JobOK
  <2> QED
    BY <2>2, <2>3
<1>7. CASE JobFailed(t)
  BY <1>0, <1>7, FallbackControl DEF JobFailed, JobOK, Holds, Jobs
<1>8. CASE Retry(t)
  <2>1. job' = [job EXCEPT ![t] = "none"] /\ Holds(t) /\ ~busy' /\ busy' \in BOOLEAN
        /\ seen' = seen /\ at[Tool(t)] = "idle" /\ "none" \in Jobs
    BY <1>0, <1>8 DEF Retry, JobOK, Holds, Jobs
  <2>2. Moves(Chat(t), "guard", "none")
    BY <1>8 DEF Retry, Leave, Goto, Moves
  <2>3. ChatAt(t)' /\ ~Holds(t)'
    BY <2>2, MovedChat DEF ChatAt, Holds
  <2> QED
    BY <1>0, <2>1, <2>2, <2>3, ChatGoesOn
<1>9. CASE Answered(t)
  <2>1. job' = [job EXCEPT ![t] = "none"] /\ Holds(t) /\ busy' = busy /\ busy' \in BOOLEAN
        /\ seen' = seen /\ job[t] # "running"
    BY <1>0, <1>9 DEF Answered, Holds
  <2> QED
    BY <1>9, <2>1, ChatLoads DEF Answered
<1>10. CASE Attach(t)
  <2>1. job[t] = "none" /\ job' = [job EXCEPT ![t] = "none"] /\ Holds(t)
        /\ busy' = busy /\ seen' = seen /\ at[Tool(t)] = "idle" /\ "none" \in Jobs
    BY <1>0, <1>10 DEF Attach, JobOK, ChatAt, Holds, Jobs
  <2>2. Moves(Chat(t), "finish", "none") \/ Moves(Chat(t), "write", "finish")
    BY <1>10 DEF Attach, Save, Continue, Goto, Call, Moves
  <2>3. ChatAt(t)' /\ Holds(t)'
    BY <2>2, MovedChat DEF ChatAt, Holds
  <2> QED
    BY <1>0, <2>1, <2>2, <2>3, ChatGoesOn
<1>11. CASE Finish(t)
  <2>1. job[t] = "none" /\ job' = [job EXCEPT ![t] = "none"] /\ Holds(t) /\ ~busy' /\ busy' \in BOOLEAN
        /\ seen' = seen /\ at[Tool(t)] = "idle" /\ "none" \in Jobs
    BY <1>0, <1>11 DEF Finish, JobOK, Holds, Jobs
  <2>2. Moves(Chat(t), "done", "none")
    BY <1>11 DEF Finish, Leave, Goto, Moves
  <2>3. ChatAt(t)' /\ ~Holds(t)'
    BY <2>2, MovedChat DEF ChatAt, Holds
  <2> QED
    BY <1>0, <2>1, <2>2, <2>3, ChatGoesOn
<1> QED
  BY <1>1, <1>2, <1>3, <1>4, <1>5, <1>6, <1>7, <1>8, <1>9, <1>10, <1>11 DEF ChatStep

LEMMA EndsControl ==
  ASSUME Control, NEW t \in Turns, NEW how \in {"answered", "limited", "failed"}, Ends(t, how)
  PROVE  Control'
<1>1. UNCHANGED <<at, back, busy, seen>> /\ job' \in [Turns -> Jobs]
  BY DEF Ends, thread, chat, Control, Jobs
<1>2. \A u \in Turns \ {t} : job'[u] = job[u]
  BY DEF Ends, Control
<1>3. at[Tool(t)] = "idle" /\ job'[t] # "running" /\ (at[Chat(t)] # "wait" => job'[t] = "none")
  BY DEF Ends, Control
<1>4. \A u \in Turns : ChatAt(u)' /\ ToolAt(u)' /\ (Holds(u)' <=> Holds(u))
  BY <1>1 DEF Control, ChatAt, ToolAt, Holds
<1>5. \A u \in Turns : JobOK(u)'
  BY <1>1, <1>2, <1>3 DEF Control, JobOK
<1> QED
  BY <1>1, <1>4, <1>5 DEF Control, OneTurnAtATime

LEMMA RestartControl ==
  ASSUME Control, Restart
  PROVE  Control'
<1>1. /\ at' = [th \in Threads |-> IF th[2] = "tool" THEN "idle"
                                   ELSE IF at[th] = "new" THEN "new" ELSE "done"]
      /\ back' = [th \in Threads |-> "none"]
      /\ busy' = FALSE /\ job' = job
      /\ seen \subseteq seen'
      /\ (\E t \in Turns : job[t] = "running") => "orphan" \in seen'
  BY DEF Restart, Notes
<1>2. at' \in [Threads -> Places] /\ back' \in [Threads -> Returns]
  BY <1>1 DEF Places, Returns
<1>3. ASSUME NEW t \in Turns
      PROVE  /\ at'[Tool(t)] = "idle" /\ back'[Tool(t)] = "none" /\ back'[Chat(t)] = "none"
             /\ at'[Chat(t)] = IF at[Chat(t)] = "new" THEN "new" ELSE "done"
  BY <1>1, ThreadFacts
<1>4. ASSUME NEW t \in Turns PROVE ChatAt(t)' /\ ToolAt(t)' /\ ~Holds(t)'
  BY <1>3 DEF ChatAt, ToolAt, Holds
<1>5. ASSUME NEW t \in Turns PROVE JobOK(t)'
  BY <1>1, <1>3 DEF Control, JobOK
<1> QED
  BY <1>1, <1>2, <1>4, <1>5 DEF Control, OneTurnAtATime

LEMMA InitControl == ASSUME NEW d, NEW n, StartsWith(d, n) PROVE Control
<1>1. /\ at = [th \in Threads |-> IF th[2] = "chat" THEN "new" ELSE "idle"]
      /\ back = [th \in Threads |-> "none"] /\ busy = FALSE
      /\ job = [t \in Turns |-> "none"]
  BY DEF StartsWith
<1>2. /\ at \in [Threads -> Places] /\ back \in [Threads -> Returns]
      /\ job \in [Turns -> Jobs] /\ busy \in BOOLEAN
  BY <1>1 DEF Places, Returns, Jobs
<1>3. ASSUME NEW t \in Turns
      PROVE  /\ at[Tool(t)] = "idle" /\ back[Tool(t)] = "none" /\ back[Chat(t)] = "none"
             /\ at[Chat(t)] = "new" /\ job[t] = "none"
  BY <1>1, ThreadFacts
<1>4. ASSUME NEW t \in Turns PROVE ChatAt(t) /\ ToolAt(t) /\ ~Holds(t) /\ JobOK(t)
  BY <1>3 DEF ChatAt, ToolAt, Holds, JobOK
<1> QED
  BY <1>1, <1>2, <1>4 DEF Control, OneTurnAtATime

LEMMA ControlStep ==
  ASSUME Control, [Next]_vars
  PROVE  Control'
<1>1. CASE \E th \in Threads : SharedStep(th)
  <2>1. PICK t \in Turns : SharedStep(Chat(t)) \/ SharedStep(Tool(t))
    BY <1>1, ThreadFacts
  <2> QED
    BY <2>1, SharedChatControl, SharedToolControl
<1>2. CASE \E t \in Turns : Send(t) \/ ChatStep(t) \/ ToolStep(t)
  BY <1>2, ChatControl, ToolControl
<1>3. CASE \E t \in Turns, how \in {"answered", "limited", "failed"} : Ends(t, how)
  BY <1>3, EndsControl
<1>4. CASE \E t \in Turns, tool \in Tools : CallTool(t, tool)
  BY <1>4, CallControl
<1>5. CASE (\E q \in Soal : DeleteSoal(q)) \/ UNCHANGED vars
  <2>1. UNCHANGED <<at, back, busy, job, seen>>
    BY <1>5 DEF DeleteSoal, thread, chat, vars
  <2> QED
    BY <2>1 DEF Control, ChatAt, ToolAt, JobOK, Holds, OneTurnAtATime
<1>6. CASE Restart
  BY <1>6, RestartControl
<1> QED
  BY <1>1, <1>2, <1>3, <1>4, <1>5, <1>6 DEF Next

-----------------------------------------------------------------------------
(* The state in the heap and in the database.                              *)

LEMMA GoodFresh == ASSUME NEW n PROVE Good(Fresh, n)
BY DEF Good, Fresh

LEMMA NoneIsNoKuis == None \notin Kuis
<1>1. ASSUME NEW s \in Seq(Soal) PROVE s \in Seq(Nat)
  <2>1. Len(s) \in Nat /\ s \in [1 .. Len(s) -> Soal]
    OBVIOUS
  <2>2. s \in [1 .. Len(s) -> Nat]
    BY <2>1, SessionAssumption
  <2> QED
    BY <2>1, <2>2
<1>2. ASSUME NEW r \in [ids : Seq(Soal), index : Nat, skor : Nat]
      PROVE  r \in [ids : Seq(Nat), index : Nat, skor : Nat]
  BY <1>1
<1>3. None \notin [ids : Seq(Nat), index : Nat, skor : Nat]
  BY SessionAssumption, Zenon
<1> QED
  BY <1>2, <1>3 DEF Kuis

(* There are as many siswa of every name in k as in n, or more.            *)
Grows(n, k) ==
  n \in [AllNames -> Nat] /\ k \in [AllNames -> Nat] /\ \A v \in AllNames : n[v] <= k[v]

LEMMA GoodMore ==
  ASSUME NEW s, NEW n, NEW k, Grows(n, k), Good(s, n)
  PROVE  Good(s, k)
<1>1. ASSUME s.joined # "" PROVE k[s.joined] > 0
  <2>1. s.joined \in AllNames /\ n[s.joined] > 0
    BY <1>1 DEF Good
  <2>2. \A v \in AllNames : n[v] \in Nat /\ k[v] \in Nat /\ n[v] <= k[v]
    BY DEF Grows
  <2>3. \A v \in AllNames : n[v] > 0 => k[v] > 0
    BY <2>2
  <2> QED
    BY <2>1, <2>3
<1> QED
  BY <1>1 DEF Good

LEMMA SameSiswa == ASSUME Store, siswa' = siswa PROVE Grows(siswa, siswa')
<1>1. siswa \in [AllNames -> Nat]
  BY DEF Store
<1> QED
  BY <1>1 DEF Grows

LEMMA MoreSiswa ==
  ASSUME Store, NEW v \in AllNames, AddSiswa(v)
  PROVE  /\ Grows(siswa, siswa') /\ siswa'[v] = siswa[v] + 1
         /\ \A n \in AllNames : n # v => siswa'[n] = siswa[n]
<1>1. siswa \in [AllNames -> Nat] /\ siswa' = [siswa EXCEPT ![v] = siswa[v] + 1]
  BY DEF Store, AddSiswa
<1>2. siswa' \in [AllNames -> Nat] /\ siswa'[v] = siswa[v] + 1
  BY <1>1
<1>3. \A n \in AllNames : n # v => siswa'[n] = siswa[n]
  BY <1>1
<1> QED
  BY <1>1, <1>2, <1>3 DEF Grows

(* What a step that keeps or replaces one object must show of its own.     *)
LEMMA StoreMoves ==
  ASSUME Store, Grows(siswa, siswa'),
         NEW h, HeapIs(h), \A o \in Objs : Good(h[o], siswa'),
         cache' \in Objs \cup {None}, ptr' \in [Threads -> Objs \cup {None}],
         db' = None \/ Good(db', siswa') \/ db' = db,
         DOMAIN snap' = Threads,
         \A th \in Threads : snap'[th] = None \/ Good(snap'[th], siswa') \/ snap'[th] = snap[th]
  PROVE  Store'
<1>1. DOMAIN heap' = Objs /\ \A o \in Objs : Good(heap'[o], siswa')
  BY GoodFresh DEF HeapIs
<1>2. db' = None \/ Good(db', siswa')
  BY GoodMore DEF Store
<1>3. \A th \in Threads : snap'[th] = None \/ Good(snap'[th], siswa')
  BY GoodMore DEF Store
<1> QED
  BY <1>1, <1>2, <1>3 DEF Store, Grows

LEMMA LoadStore ==
  ASSUME Store, NEW th \in Threads, NEW l, Load(th, l), siswa' = siswa
  PROVE  Store'
<1>1. ptr' \in [Threads -> Objs \cup {None}]
  BY DEF Load, Store
<1>2. UNCHANGED <<cache, db, snap>> /\ HeapIs(heap)
  BY DEF Load
<1> QED
  BY <1>1, <1>2, SameSiswa, StoreMoves DEF Store

LEMMA LeaveStore ==
  ASSUME Store, NEW th \in Threads, NEW l, NEW h, Leave(th, l, h), siswa' = siswa,
         \A o \in Objs : Good(h[o], siswa),
         db' = None \/ db' = db
  PROVE  Store'
<1>1. ptr' \in [Threads -> Objs \cup {None}]
  BY DEF Leave, Store
<1>2. UNCHANGED <<cache, snap>> /\ HeapIs(h)
  BY DEF Leave
<1> QED
  BY <1>1, <1>2, SameSiswa, StoreMoves DEF Store

LEMMA ChangedGood ==
  ASSUME Store, NEW th, NEW s, Good(s, siswa)
  PROVE  \A o \in Objs : Good(Changed(th, s)[o], siswa)
BY DEF Store, Changed

LEMMA SaveStore ==
  ASSUME Store, NEW th \in Threads, NEW l, NEW s, Save(th, s, l), siswa' = siswa,
         Good(s, siswa)
  PROVE  Store'
<1>1. cache' \in Objs \cup {None} /\ UNCHANGED <<db, ptr>> /\ HeapIs(Changed(th, s))
  BY DEF Save, Store
<1>2. DOMAIN snap' = Threads /\ \A e \in Threads : snap'[e] = snap[e] \/ snap'[e] = s
  BY DEF Save, Store
<1> QED
  BY <1>1, <1>2, ChangedGood, SameSiswa, StoreMoves DEF Store

LEMMA SameStore ==
  ASSUME Store, UNCHANGED <<heap, cache, db, ptr, snap>>, Grows(siswa, siswa')
  PROVE  Store'
BY GoodMore DEF Store, Grows

LEMMA StateGood ==
  ASSUME Store, NEW th \in Threads, ptr[th] \in Objs
  PROVE  Good(State(th), siswa)
BY DEF Store, State

(* Changes of other fields leave a record as good as it was.               *)
LEMMA GoodChanges ==
  ASSUME NEW n, NEW s, Good(s, n), NEW v
  PROVE  /\ Good([s EXCEPT !.kode = v], n)
         /\ v \in Kuis \cup {None} => Good([s EXCEPT !.kuis = v], n)
         /\ Good([s EXCEPT !.pending = FALSE], n)
         /\ v \in AllNames => Good([s EXCEPT !.nama = v], n)
         /\ v \in AllNames /\ n[v] > 0 =>
              Good([s EXCEPT !.joined = v, !.nama = v, !.pending = TRUE], n)
BY DEF Good

(* What the operations on a quiz make of it.                               *)
LEMMA KuisFields ==
  ASSUME NEW k \in Kuis
  PROVE  /\ k.ids \in Seq(Soal) /\ k.index \in Nat /\ k.skor \in Nat
         /\ k.index < Len(k.ids) /\ Len(k.ids) \in Nat
         /\ \A i, j \in 1 .. Len(k.ids) : k.ids[i] = k.ids[j] => i = j
         /\ k.index + 1 \in 1 .. Len(k.ids)
<1>1. k \in [ids : Seq(Soal), index : Nat, skor : Nat]
  BY DEF Kuis
<1>2. k.ids \in Seq(Soal) /\ k.index \in Nat /\ k.skor \in Nat /\ Len(k.ids) \in Nat
  BY <1>1
<1>3. k.index < Len(k.ids) /\ \A i, j \in 1 .. Len(k.ids) : k.ids[i] = k.ids[j] => i = j
  BY DEF Kuis
<1> QED
  BY <1>2, <1>3

LEMMA MovedKuis ==
  ASSUME NEW k \in Kuis
  PROVE  /\ Moved(k) \in Kuis \cup {None}
         /\ Moved(k) # None =>
              Moved(k).ids = k.ids /\ Moved(k).index = k.index + 1 /\ Moved(k).skor = k.skor
<1>1. CASE AtLast(k)
  BY <1>1 DEF Moved
<1>2. CASE ~AtLast(k)
  <2> DEFINE m == [k EXCEPT !.index = k.index + 1]
  <2>1. k \in [ids : Seq(Soal), index : Nat, skor : Nat]
    BY DEF Kuis
  <2>2. m \in [ids : Seq(Soal), index : Nat, skor : Nat]
    BY <2>1
  <2>3. m.ids = k.ids /\ m.index = k.index + 1 /\ m.skor = k.skor
    BY <2>1
  <2>4. k.index + 1 < Len(k.ids)
    BY <1>2, KuisFields DEF AtLast
  <2>5. Moved(k) = m
    BY <1>2 DEF Moved
  <2> HIDE DEF m
  <2>6. m \in Kuis
    BY <2>2, <2>3, <2>4, KuisFields DEF Kuis
  <2> QED
    BY <2>3, <2>5, <2>6
<1> QED
  BY <1>1, <1>2

LEMMA ScoredKuis ==
  ASSUME NEW k \in Kuis, NEW n \in Nat
  PROVE  /\ [k EXCEPT !.skor = n] \in Kuis
         /\ [k EXCEPT !.skor = n].ids = k.ids /\ [k EXCEPT !.skor = n].index = k.index
         /\ [k EXCEPT !.skor = n].skor = n
<1> DEFINE m == [k EXCEPT !.skor = n]
<1>1. k \in [ids : Seq(Soal), index : Nat, skor : Nat]
  BY DEF Kuis
<1>2. m \in [ids : Seq(Soal), index : Nat, skor : Nat]
  BY <1>1
<1>3. m.ids = k.ids /\ m.index = k.index /\ m.skor = n
  BY <1>1
<1> HIDE DEF m
<1>4. m \in Kuis
  BY <1>2, <1>3, KuisFields DEF Kuis
<1> QED
  BY <1>3, <1>4 DEF m

(* The first questions of a class that has some make a quiz.               *)
LEMMA FirstKuis ==
  ASSUME Rows, soals # {}, NEW ids \in FirstSoal
  PROVE  NewKuis(ids) \in Kuis /\ NewKuis(ids).index = 0 /\ NewKuis(ids).skor = 0
<1>1. IsFiniteSet(soals) /\ Cardinality(soals) \in Nat /\ Cardinality(soals) # 0
  <2>1. IsFiniteSet(soals)
    BY SessionAssumption, FS_Subset DEF Rows
  <2> QED
    BY <2>1, FS_CardinalityType, FS_EmptySet
<1>2. Limit \in Nat \ {0}
  BY SessionAssumption
<1>3. PICK n \in Nat \ {0} :
        /\ ids \in [1 .. n -> soals]
        /\ \A i \in 1 .. n, q \in soals : q < ids[i] <=> \E j \in 1 .. i - 1 : ids[j] = q
  <2>1. CASE Cardinality(soals) < Limit
    BY <1>1, <2>1 DEF FirstSoal
  <2>2. CASE ~(Cardinality(soals) < Limit)
    BY <1>2, <2>2 DEF FirstSoal
  <2> QED
    BY <2>1, <2>2
<1>4. ids \in Seq(Soal) /\ Len(ids) = n
  BY <1>3 DEF Rows
<1>5. \A i \in 1 .. n : ids[i] \in soals /\ ids[i] \in Nat
  BY <1>3, SessionAssumption DEF Rows
<1>6. \A i, j \in 1 .. n : i < j => ids[i] < ids[j]
  BY <1>3, <1>5
<1>7. \A i, j \in 1 .. n : ids[i] = ids[j] => i = j
  BY <1>5, <1>6
<1> DEFINE k == NewKuis(ids)
<1>8. k.ids = ids /\ k.index = 0 /\ k.skor = 0
  BY DEF NewKuis
<1>9. k \in [ids : Seq(Soal), index : Nat, skor : Nat]
  BY <1>4 DEF NewKuis
<1> HIDE DEF k
<1>10. k \in Kuis
  BY <1>3, <1>4, <1>7, <1>8, <1>9 DEF Kuis
<1> QED
  BY <1>8, <1>10 DEF k

LEMMA GoodKuis ==
  ASSUME NEW n, NEW s, Good(s, n), s.kuis \in Kuis, NEW m \in Nat
  PROVE  Good([s EXCEPT !.kuis.skor = m], n)
<1>1. [s EXCEPT !.kuis.skor = m] = [s EXCEPT !.kuis = [s.kuis EXCEPT !.skor = m]]
  OBVIOUS
<1>2. [s.kuis EXCEPT !.skor = m] \in Kuis
  BY ScoredKuis
<1> QED
  BY <1>1, <1>2, GoodChanges

(* The points of a graded answer.                                          *)
LEMMA Graded ==
  ASSUME NEW s, NEW th, NEW n \in Nat, s.kuis.skor = n,
         \E benar \in BOOLEAN :
           HeapIs(Changed(th, [s EXCEPT !.kuis.skor = IF benar THEN @ + 1 ELSE @]))
  PROVE  \E m \in {n, n + 1} : HeapIs(Changed(th, [s EXCEPT !.kuis.skor = m]))
<1>1. PICK benar \in BOOLEAN :
        HeapIs(Changed(th, [s EXCEPT !.kuis.skor = IF benar THEN s.kuis.skor + 1 ELSE s.kuis.skor]))
  OBVIOUS
<1>2. CASE benar
  BY <1>1, <1>2
<1>3. CASE ~benar
  BY <1>1, <1>3
<1> QED
  BY <1>2, <1>3

LEMMA SharedStore ==
  ASSUME Store, NEW th \in Threads, Loaded(th), SharedStep(th)
  PROVE  Store'
<1>1. siswa' = siswa
  BY DEF SharedStep, ReadDb, Fill, WriteDb, tables
<1>2. CASE ReadDb(th)
  <2>1. PICK s \in {InDb} \cup (IF DbFails THEN {Fresh} ELSE {}) :
          LET o == CHOOSE o \in Objs \ Used : TRUE
          IN  /\ ptr' = [ptr EXCEPT ![th] = o]
              /\ UNCHANGED <<cache, db, snap>>
              /\ HeapIs([heap EXCEPT ![o] = s])
    BY <1>2 DEF ReadDb
  <2> DEFINE o == CHOOSE o \in Objs \ Used : TRUE
  <2>2. o \in Objs
    BY FreeObject
  <2>3. Good(s, siswa)
    BY <2>1, GoodFresh DEF InDb, Store
  <2>4. /\ ptr' = [ptr EXCEPT ![th] = o] /\ UNCHANGED <<cache, db, snap>>
        /\ HeapIs([heap EXCEPT ![o] = s])
    BY <2>1
  <2> HIDE DEF o
  <2>5. ptr' \in [Threads -> Objs \cup {None}]
    BY <2>2, <2>4 DEF Store
  <2>6. \A e \in Objs : Good([heap EXCEPT ![o] = s][e], siswa')
    BY <1>1, <2>2, <2>3 DEF Store
  <2>7. PICK h : HeapIs(h) /\ \A e \in Objs : Good(h[e], siswa')
    BY <2>4, <2>6
  <2> QED
    BY <1>1, <2>4, <2>5, <2>7, SameSiswa, StoreMoves DEF Store
<1>3. CASE Fill(th)
  <2>1. cache' \in Objs /\ UNCHANGED <<db, ptr, snap>> /\ HeapIs(heap)
    BY <1>3 DEF Fill, Loaded
  <2> QED
    BY <1>1, <2>1, SameSiswa, StoreMoves DEF Store
<1>4. CASE WriteDb(th)
  <2>1. /\ db' = snap[th] \/ db' = db
        /\ DOMAIN snap' = Threads /\ \A e \in Threads : snap'[e] = snap[e] \/ snap'[e] = None
        /\ ptr' \in [Threads -> Objs \cup {None}] /\ cache' = cache /\ HeapIs(heap)
    BY <1>4 DEF WriteDb, Store
  <2>2. db' = None \/ Good(db', siswa') \/ db' = db
    BY <1>1, <2>1 DEF Store
  <2> QED
    BY <1>1, <2>1, <2>2, SameSiswa, StoreMoves DEF Store
<1> QED
  BY <1>2, <1>3, <1>4 DEF SharedStep

LEMMA ChatStore ==
  ASSUME Store, NEW t \in Turns, Loaded(Chat(t)), Send(t) \/ ChatStep(t)
  PROVE  Store'
<1>1. siswa' = siswa /\ Chat(t) \in Threads
  BY ThreadFacts DEF Send, ChatStep, Guard, Tunggu, Submit, SubmitError, Timeout, JobFailed, Retry,
       Answered, Attach, Finish, Fallback, tables
<1>2. CASE \E l : Load(Chat(t), l)
  BY <1>1, <1>2, LoadStore
<1>3. CASE \E l : Leave(Chat(t), l, heap) /\ db' = db
  BY <1>1, <1>3, LeaveStore DEF Store
<1>4. CASE \E l : Continue(Chat(t), l)
  BY <1>1, <1>4, SameSiswa, SameStore DEF Continue, store
<1>5. CASE Attach(t)
  <2>1. CASE State(Chat(t)).pending
    <3>1. Good(State(Chat(t)), siswa)
      BY <1>1, <1>5, StateGood DEF Loaded, Attach
    <3>2. Good([State(Chat(t)) EXCEPT !.pending = FALSE], siswa)
      BY <3>1, GoodChanges
    <3>3. Save(Chat(t), [State(Chat(t)) EXCEPT !.pending = FALSE], "finish")
      BY <1>5, <2>1 DEF Attach
    <3> QED
      BY <1>1, <3>2, <3>3, SaveStore
  <2>2. CASE ~State(Chat(t)).pending
    BY <1>4, <1>5, <2>2 DEF Attach
  <2> QED
    BY <2>1, <2>2
<1>6. CASE Send(t) \/ Guard(t) \/ Answered(t)
  BY <1>2, <1>6 DEF Send, Guard, Answered
<1>7. CASE Tunggu(t) \/ Submit(t) \/ Finish(t)
  BY <1>3, <1>7 DEF Tunggu, Submit, Finish
<1>8. CASE SubmitError(t) \/ Timeout(t) \/ JobFailed(t)
  BY <1>3, <1>8 DEF SubmitError, Timeout, JobFailed, Fallback
<1>9. CASE Retry(t)
  BY <1>3, <1>9 DEF Retry
<1> QED
  BY <1>5, <1>6, <1>7, <1>8, <1>9 DEF ChatStep

LEMMA ToolStore ==
  ASSUME Store, Rows, NEW t \in Turns, Loaded(Tool(t)), Enrol, ToolStep(t)
  PROVE  Store'
<1> DEFINE th == Tool(t)
<1>0. th \in Threads
  BY ThreadFacts
<1>1. at[th] \in Work => Good(State(th), siswa)
  BY <1>0, StateGood DEF Loaded
<1>2. ASSUME \E l : Leave(th, l, heap) /\ (db' = db \/ db' = None), siswa' = siswa PROVE Store'
  BY <1>0, <1>2, LeaveStore DEF Store
<1>3. ASSUME \E l : Continue(th, l), siswa' = siswa \/ (\E v \in AllNames : AddSiswa(v))
      PROVE  Store'
  <2>1. Grows(siswa, siswa')
    BY <1>3, SameSiswa, MoreSiswa
  <2> QED
    BY <1>3, <2>1, SameStore DEF Continue, store
<1>4. ASSUME \E l, s : Save(th, s, l) /\ Good(s, siswa), siswa' = siswa PROVE Store'
  BY <1>0, <1>4, SaveStore
<1> HIDE DEF th
<1>5. CASE SetKodeKelas(t)
  <2>1. Good(State(th), siswa) /\ siswa' = siswa
    BY <1>1, <1>5 DEF SetKodeKelas, th, Work, Calls, tables
  <2>2. CASE Leave(th, "idle", heap) /\ db' = db
    BY <1>2, <2>1, <2>2
  <2>3. CASE \E k : Save(th, [State(th) EXCEPT !.kode = k], "join_kelas")
    BY <1>4, <2>1, <2>3, GoodChanges
  <2> QED
    BY <1>5, <2>2, <2>3 DEF SetKodeKelas, NoEffect, th
<1>15. CASE SetNamaSiswa(t)
  <2>1. Good(State(th), siswa) /\ siswa' = siswa
    BY <1>1, <1>15 DEF SetNamaSiswa, th, Work, Calls, tables
  <2>2. CASE Leave(th, "idle", heap) /\ db' = db
    BY <1>2, <2>1, <2>2
  <2>3. CASE \E n \in Names : Save(th, [State(th) EXCEPT !.nama = n], "idle")
    <3>1. PICK n \in Names : Save(th, [State(th) EXCEPT !.nama = n], "idle")
      BY <2>3
    <3>2. n \in AllNames
      BY DEF AllNames
    <3>3. Good([State(th) EXCEPT !.nama = n], siswa)
      BY <2>1, <3>2, GoodChanges
    <3> QED
      BY <1>4, <2>1, <3>1, <3>3
  <2> QED
    BY <1>15, <2>2, <2>3 DEF SetNamaSiswa, NoEffect, th
<1>6. CASE JoinKelas(t)
  <2>1. /\ Good(State(th), siswa) /\ siswa' = siswa
        /\ \/ Leave(th, "idle", heap) /\ db' = db
           \/ Save(th, State(th), "idle")
           \/ Continue(th, "find")
    BY <1>1, <1>6 DEF JoinKelas, NoEffect, th, Work, Calls, tables
  <2> QED
    BY <1>2, <1>3, <1>4, <2>1
<1>7. CASE FindSiswa(t)
  <2>1. Continue(th, "joined") \/ Continue(th, "create")
    BY <1>7 DEF FindSiswa, th
  <2>2. siswa' = siswa
    BY <1>7 DEF FindSiswa, tables
  <2> QED
    BY <1>3, <2>1, <2>2
<1>8. CASE CreateSiswa(t)
  <2>1. /\ Good(State(th), siswa)
        /\ \/ Continue(th, "joined") /\ AddSiswa(joining[t])
           \/ Save(th, State(th), "idle") /\ siswa' = siswa
    BY <1>1, <1>8 DEF CreateSiswa, th, Work, Calls
  <2>2. joining[t] \in AllNames
    BY <1>8 DEF CreateSiswa, Enrol
  <2> QED
    BY <1>3, <1>4, <2>1, <2>2
<1>9. CASE Joined(t)
  <2>1. /\ Save(th, [State(th) EXCEPT !.joined = joining[t], !.nama = joining[t],
                                       !.pending = TRUE], "idle")
        /\ Good(State(th), siswa) /\ siswa' = siswa /\ at[th] = "joined"
    BY <1>1, <1>9 DEF Joined, th, Work, Calls, tables
  <2>2. joining[t] \in AllNames /\ siswa[joining[t]] > 0
    BY <2>1 DEF Enrol, th
  <2>3. Good([State(th) EXCEPT !.joined = joining[t], !.nama = joining[t], !.pending = TRUE], siswa)
    BY <2>1, <2>2, GoodChanges
  <2> QED
    BY <1>4, <2>1, <2>3
<1>10. CASE MulaiKuis(t)
  <2>1. Good(State(th), siswa) /\ siswa' = siswa
    BY <1>1, <1>10 DEF MulaiKuis, th, Work, Calls
  <2>2. CASE Leave(th, "idle", heap) /\ db' = db
    BY <1>2, <2>1, <2>2
  <2>3. CASE \E ids \in FirstSoal :
               soals # {} /\ Save(th, [State(th) EXCEPT !.kuis = NewKuis(ids)], "idle")
    <3>1. PICK ids \in FirstSoal :
            soals # {} /\ Save(th, [State(th) EXCEPT !.kuis = NewKuis(ids)], "idle")
      BY <2>3
    <3>2. NewKuis(ids) \in Kuis
      BY <3>1, FirstKuis
    <3>3. Good([State(th) EXCEPT !.kuis = NewKuis(ids)], siswa)
      BY <2>1, <3>2, GoodChanges
    <3> QED
      BY <1>4, <2>1, <3>1, <3>3
  <2> QED
    BY <1>10, <2>2, <2>3 DEF MulaiKuis, NoEffect, th
<1>11. CASE GradeJawaban(t)
  <2>1. Good(State(th), siswa) /\ siswa' = siswa
    BY <1>1, <1>11 DEF GradeJawaban, th, Work, Calls
  <2>2. CASE Leave(th, "idle", heap) /\ db' = db
    BY <1>2, <2>1, <2>2
  <2>3. CASE /\ UNCHANGED <<cache, db, ptr, snap>> /\ State(th).kuis # None
             /\ \E benar \in BOOLEAN :
                  HeapIs(Changed(th, [State(th) EXCEPT !.kuis.skor = IF benar THEN @ + 1 ELSE @]))
    <3>1. State(th).kuis \in Kuis /\ State(th).kuis.skor \in Nat
      BY <2>1, <2>3, KuisFields DEF Good
    <3>2. PICK m \in {State(th).kuis.skor, State(th).kuis.skor + 1} :
            HeapIs(Changed(th, [State(th) EXCEPT !.kuis.skor = m]))
      BY <2>3, <3>1, Graded
    <3>3. m \in Nat
      BY <3>1
    <3>4. Good([State(th) EXCEPT !.kuis.skor = m], siswa)
      BY <2>1, <3>1, <3>3, GoodKuis
    <3>5. PICK s : HeapIs(Changed(th, s)) /\ Good(s, siswa)
      BY <3>2, <3>4
    <3> QED
      BY <2>1, <2>3, <3>5, ChangedGood, SameSiswa, StoreMoves DEF Store
  <2> QED
    BY <1>11, <2>2, <2>3 DEF GradeJawaban, NoEffect, th
<1>12. CASE AdvanceKuis(t)
  <2> DEFINE s == [State(th) EXCEPT !.kuis = Moved(State(th).kuis)]
  <2>1. Good(State(th), siswa) /\ siswa' = siswa
    BY <1>1, <1>12 DEF AdvanceKuis, th, Work, Calls, tables
  <2>2. \/ Leave(th, "idle", heap) /\ db' = db
        \/ /\ State(th).kuis # None
           /\ Save(th, s, "idle") \/ (Leave(th, "idle", Changed(th, s)) /\ db' = db)
    BY <1>12 DEF AdvanceKuis, NoEffect, th
  <2>3. ASSUME State(th).kuis # None PROVE Good(s, siswa)
    <3>1. State(th).kuis \in Kuis
      BY <2>1, <2>3 DEF Good
    <3> QED
      BY <2>1, <3>1, MovedKuis, GoodChanges
  <2> HIDE DEF s
  <2>4. ASSUME State(th).kuis # None PROVE \A o \in Objs : Good(Changed(th, s)[o], siswa)
    BY <2>3, <2>4, ChangedGood
  <2> QED
    BY <1>0, <1>2, <1>4, <2>1, <2>2, <2>3, <2>4, LeaveStore
<1>13. CASE ResetCache(t)
  <2>1. cache' = None /\ UNCHANGED <<db, ptr, snap, siswa>> /\ HeapIs(heap)
    BY <1>13 DEF ResetCache, tables
  <2> QED
    BY <2>1, SameSiswa, StoreMoves DEF Store
<1>14. CASE ResetDb(t)
  BY <1>2, <1>14 DEF ResetDb, th, tables
<1> QED
  BY <1>5, <1>6, <1>7, <1>8, <1>9, <1>10, <1>11, <1>12, <1>13, <1>14, <1>15 DEF ToolStep

LEMMA StoreStep ==
  ASSUME Store, Rows, \A th \in Threads : Loaded(th), Enrol, [Next]_vars
  PROVE  Store'
<1>1. CASE \E th \in Threads : SharedStep(th)
  BY <1>1, SharedStore
<1>2. CASE \E t \in Turns : Send(t) \/ ChatStep(t) \/ ToolStep(t)
  BY <1>2, ChatStore, ToolStore, ThreadFacts
<1>3. CASE \E t \in Turns, tool \in Tools : CallTool(t, tool)
  <2>1. PICK t \in Turns, tool \in Tools : CallTool(t, tool)
    BY <1>3
  <2>2. Load(Tool(t), tool) /\ siswa' = siswa
    BY <2>1 DEF CallTool, tables
  <2> QED
    BY <2>2, LoadStore, ThreadFacts
<1>4. CASE \/ \E t \in Turns, how \in {"answered", "limited", "failed"} : Ends(t, how)
           \/ \E q \in Soal : DeleteSoal(q)
           \/ UNCHANGED vars
  <2>1. UNCHANGED <<heap, cache, db, ptr, snap, siswa>>
    BY <1>4 DEF Ends, DeleteSoal, vars, store, thread, tables
  <2> QED
    BY <2>1, SameSiswa, SameStore
<1>5. CASE Restart
  <2>1. /\ heap' = [o \in Objs |-> Fresh] /\ cache' = None /\ db' = db /\ siswa' = siswa
        /\ ptr' = [th \in Threads |-> None] /\ snap' = [th \in Threads |-> None]
    BY <1>5 DEF Restart, tables
  <2> QED
    BY <2>1, GoodFresh DEF Store
<1> QED
  BY <1>1, <1>2, <1>3, <1>4, <1>5 DEF Next

-----------------------------------------------------------------------------
(* Who has loaded the state has an object.                                 *)

(* One thread moves, and has an object where it needs one.                 *)
LEMMA LoadedMoves ==
  ASSUME Control, Store, \A e \in Threads : Loaded(e), NEW th \in Threads,
         \A e \in Threads \ {th} : at'[e] = at[e] /\ ptr'[e] = ptr[e],
         Loaded(th)'
  PROVE  \A e \in Threads : Loaded(e)'
BY DEF Loaded

LEMMA OthersKeep ==
  ASSUME Control, Store, NEW th \in Threads, NEW l, NEW m, Moves(th, l, m),
         \/ ptr' = ptr
         \/ ptr' = [ptr EXCEPT ![th] = None] \/ ptr' = [ptr EXCEPT ![th] = cache]
  PROVE  /\ \A e \in Threads \ {th} : at'[e] = at[e] /\ ptr'[e] = ptr[e]
         /\ at'[th] = l
         /\ ptr'[th] = ptr[th] \/ ptr'[th] = None \/ ptr'[th] = cache
BY DEF Control, Store, Moves

LEMMA LoadLoaded ==
  ASSUME Control, Store, \A e \in Threads : Loaded(e), NEW th \in Threads, NEW l, Load(th, l)
  PROVE  \A e \in Threads : Loaded(e)'
<1>1. CASE cache # None
  <2>1. Moves(th, l, "none") /\ ptr' = [ptr EXCEPT ![th] = cache] /\ cache \in Objs
    BY <1>1 DEF Load, Goto, Moves, Store
  <2>2. ptr'[th] = cache
    BY <2>1 DEF Store
  <2>3. Loaded(th)'
    BY <2>1, <2>2 DEF Loaded
  <2> QED
    BY <2>1, <2>3, OthersKeep, LoadedMoves
<1>2. CASE cache = None
  <2>1. Moves(th, "read", l) /\ ptr' = ptr
    BY <1>2 DEF Load, Call, Moves
  <2>2. Loaded(th)'
    BY <2>1, OthersKeep DEF Loaded, Work, Calls
  <2> QED
    BY <2>1, <2>2, OthersKeep, LoadedMoves
<1> QED
  BY <1>1, <1>2

LEMMA LeaveLoaded ==
  ASSUME Control, Store, \A e \in Threads : Loaded(e), NEW th \in Threads, NEW h,
         NEW l \in {"idle", "done", "wait", "guard"}, Leave(th, l, h)
  PROVE  \A e \in Threads : Loaded(e)'
<1>1. Moves(th, l, "none") /\ ptr' = [ptr EXCEPT ![th] = None]
  BY DEF Leave, Goto, Moves
<1>2. Loaded(th)'
  BY <1>1, OthersKeep DEF Loaded, Work, Calls
<1> QED
  BY <1>1, <1>2, OthersKeep, LoadedMoves

(* The thread goes on with the object it has.                              *)
LEMMA KeepLoaded ==
  ASSUME Control, Store, \A e \in Threads : Loaded(e), NEW th \in Threads, NEW l, NEW m,
         Moves(th, l, m), ptr' = ptr,
         at[th] \in Work \cup {"fill", "write", "attach", "finish"} \/ l \in {"guard", "idle"}
  PROVE  \A e \in Threads : Loaded(e)'
<1>1. Loaded(th)'
  BY OthersKeep DEF Loaded, Work, Calls
<1> QED
  BY <1>1, OthersKeep, LoadedMoves

LEMMA SharedLoaded ==
  ASSUME Control, Store, \A e \in Threads : Loaded(e), NEW th \in Threads, SharedStep(th)
  PROVE  \A e \in Threads : Loaded(e)'
<1>1. CASE ReadDb(th)
  <2> DEFINE o == CHOOSE o \in Objs \ Used : TRUE
  <2>1. o \in Objs
    BY FreeObject
  <2>2. ptr' = [ptr EXCEPT ![th] = o] /\ at' = [at EXCEPT ![th] = "fill"]
    BY <1>1 DEF ReadDb
  <2> HIDE DEF o
  <2>3. \A e \in Threads \ {th} : at'[e] = at[e] /\ ptr'[e] = ptr[e]
    BY <2>2 DEF Control, Store
  <2>4. Loaded(th)'
    BY <2>1, <2>2 DEF Loaded, Store
  <2> QED
    BY <2>3, <2>4, LoadedMoves
<1>2. CASE Fill(th)
  <2>1. Moves(th, back[th], "none") /\ ptr' = ptr /\ at[th] = "fill"
    BY <1>2 DEF Fill, Goto, Moves
  <2> QED
    BY <2>1, KeepLoaded
<1>3. CASE WriteDb(th)
  <2>1. Moves(th, back[th], "none") /\ at[th] = "write"
    BY <1>3 DEF WriteDb, Goto, Moves
  <2>2. CASE back[th] = "idle"
    <3>1. ptr' = [ptr EXCEPT ![th] = None]
      BY <1>3, <2>2 DEF WriteDb
    <3>2. Loaded(th)'
      BY <2>1, <2>2, <3>1, OthersKeep DEF Loaded, Work, Calls
    <3> QED
      BY <2>1, <3>1, <3>2, OthersKeep, LoadedMoves
  <2>3. CASE back[th] # "idle"
    BY <1>3, <2>1, <2>3, KeepLoaded DEF WriteDb
  <2> QED
    BY <2>2, <2>3
<1> QED
  BY <1>1, <1>2, <1>3 DEF SharedStep

LEMMA ChatLoaded ==
  ASSUME Control, Store, \A e \in Threads : Loaded(e), NEW t \in Turns, Send(t) \/ ChatStep(t)
  PROVE  \A e \in Threads : Loaded(e)'
<1>1. Chat(t) \in Threads
  BY ThreadFacts
<1>2. CASE Send(t) \/ Guard(t) \/ Answered(t)
  BY <1>1, <1>2, LoadLoaded DEF Send, Guard, Answered
<1>3. CASE Tunggu(t) \/ Submit(t) \/ Finish(t) \/ Retry(t)
  BY <1>1, <1>3, LeaveLoaded DEF Tunggu, Submit, Finish, Retry
<1>4. CASE SubmitError(t) \/ Timeout(t) \/ JobFailed(t)
  BY <1>1, <1>4, LeaveLoaded DEF SubmitError, Timeout, JobFailed, Fallback
<1>6. CASE Attach(t)
  <2>1. ptr' = ptr /\ at[Chat(t)] = "attach"
    BY <1>6 DEF Attach, Save, Continue
  <2>2. Moves(Chat(t), "finish", "none") \/ Moves(Chat(t), "write", "finish")
    BY <1>6 DEF Attach, Save, Continue, Goto, Call, Moves
  <2> QED
    BY <1>1, <2>1, <2>2, KeepLoaded
<1> QED
  BY <1>2, <1>3, <1>4, <1>6 DEF ChatStep

LEMMA ToolLoaded ==
  ASSUME Control, Store, \A e \in Threads : Loaded(e), NEW t \in Turns, ToolStep(t)
  PROVE  \A e \in Threads : Loaded(e)'
<1> DEFINE th == Tool(t)
<1>1. th \in Threads /\ at[th] \in Work /\ Moves(th, at'[th], back'[th])
  BY ThreadFacts, ToolStepGoes DEF ToolGoes
<1>2. ptr' = ptr \/ \E h : Leave(th, "idle", h)
  BY DEF ToolStep, SetNamaSiswa, SetKodeKelas, JoinKelas, FindSiswa, CreateSiswa, Joined, MulaiKuis,
     GradeJawaban, AdvanceKuis, ResetCache, ResetDb, NoEffect, Save, Continue
<1> HIDE DEF th
<1>3. CASE ptr' = ptr
  BY <1>1, <1>3, KeepLoaded
<1>4. CASE \E h : Leave(th, "idle", h)
  BY <1>1, <1>4, LeaveLoaded
<1> QED
  BY <1>2, <1>3, <1>4

LEMMA LoadedStep ==
  ASSUME Control, Store, \A e \in Threads : Loaded(e), [Next]_vars
  PROVE  \A e \in Threads : Loaded(e)'
<1>1. CASE \E th \in Threads : SharedStep(th)
  BY <1>1, SharedLoaded
<1>2. CASE \E t \in Turns : Send(t) \/ ChatStep(t) \/ ToolStep(t)
  BY <1>2, ChatLoaded, ToolLoaded
<1>3. CASE \E t \in Turns, tool \in Tools : CallTool(t, tool)
  BY <1>3, ThreadFacts, LoadLoaded DEF CallTool
<1>4. CASE \/ \E t \in Turns, how \in {"answered", "limited", "failed"} : Ends(t, how)
           \/ \E q \in Soal : DeleteSoal(q)
           \/ UNCHANGED vars
  <2>1. UNCHANGED <<at, ptr>>
    BY <1>4 DEF Ends, DeleteSoal, vars, thread
  <2> QED
    BY <2>1 DEF Loaded, Store
<1>5. CASE Restart
  <2>1. \A th \in Threads : at'[th] \in {"idle", "new", "done"}
    BY <1>5 DEF Restart
  <2> QED
    BY <2>1 DEF Loaded, Work, Calls
<1> QED
  BY <1>1, <1>2, <1>3, <1>4, <1>5 DEF Next

-----------------------------------------------------------------------------
(* Joins.                                                                  *)

LEMMA EnrolKeeps ==
  ASSUME Enrol, siswa' = siswa, seen \subseteq seen',
         joining' \in [Turns -> AllNames \cup {""}],
         \A u \in Turns : \/ at'[Tool(u)] = at[Tool(u)] /\ joining'[u] = joining[u]
                         \/ at'[Tool(u)] \notin {"find", "joined", "create"}
  PROVE  Enrol'
BY DEF Enrol

(* The tools of t are the only ones at work, unless jobs overlap.          *)
LEMMA OneTool ==
  ASSUME Control, "orphan" \notin seen,
         NEW t \in Turns, at[Tool(t)] # "idle",
         NEW u \in Turns, at[Tool(u)] # "idle" \/ Holds(u)
  PROVE  t = u /\ at[Chat(u)] = "wait"
<1>1. at[Chat(t)] = "wait" /\ Holds(t)
  BY DEF Control, JobOK, Holds
<1>2. at[Tool(u)] # "idle" => at[Chat(u)] = "wait" /\ Holds(u)
  BY DEF Control, JobOK, Holds
<1> QED
  BY <1>1, <1>2 DEF Control, OneTurnAtATime

LEMMA ToolEnrol ==
  ASSUME Control, Store, Enrol, NEW t \in Turns, Loaded(Tool(t)), ToolStep(t)
  PROVE  Enrol'
<1>1. /\ \A u \in Turns \ {t} : at'[Tool(u)] = at[Tool(u)]
      /\ seen \subseteq seen' /\ at[Tool(t)] # "idle"
  BY ToolStepGoes, ThreadFacts DEF ToolGoes, Moves, Control, Work, Calls
<1>2. CASE FindSiswa(t)
  <2>1. PICK found \in {siswa[joining[t]] > 0} \cup (IF DbFails THEN {FALSE} ELSE {}) :
          /\ Moves(Tool(t), IF found THEN "joined" ELSE "create", "none")
          /\ Notes("blind", siswa[joining[t]] > 0 /\ ~found)
    BY <1>2, Routines DEF FindSiswa
  <2>2. siswa' = siswa /\ joining' = joining /\ at[Tool(t)] = "find"
    BY <1>2 DEF FindSiswa, tables
  <2>3. joining[t] \in AllNames /\ siswa[joining[t]] \in Nat
    BY <2>2 DEF Enrol, Store
  <2>4. at'[Tool(t)] = IF found THEN "joined" ELSE "create"
    BY <2>1, MovedTool
  <2>5. CASE found
    BY <1>1, <2>1, <2>2, <2>3, <2>4, <2>5 DEF Enrol
  <2>6. CASE ~found
    <3>1. /\ at'[Tool(t)] = "create"
          /\ "blind" \notin seen' => siswa[joining[t]] = 0
      BY <2>1, <2>3, <2>4, <2>6 DEF Notes
    <3>2. ASSUME {"orphan", "blind"} \cap seen' = {}
          PROVE  /\ \A n \in AllNames : siswa[n] <= 1
                 /\ \A u \in Turns : at'[Tool(u)] = "create" => siswa[joining[u]] = 0
      <4>1. {"orphan", "blind"} \cap seen = {} /\ "blind" \notin seen'
        BY <1>1, <3>2
      <4> QED
        BY <1>1, <3>1, <4>1 DEF Enrol
    <3>3. /\ \A u \in Turns : at'[Tool(u)] \in {"find", "create", "joined"} => joining[u] \in AllNames
          /\ \A u \in Turns : at'[Tool(u)] = "joined" => siswa[joining[u]] > 0
      BY <1>1, <2>3, <3>1 DEF Enrol
    <3> QED
      BY <2>2, <3>2, <3>3 DEF Enrol
  <2> QED
    BY <2>5, <2>6
<1>3. CASE CreateSiswa(t)
  <2>1. CASE AddSiswa(joining[t]) /\ Continue(Tool(t), "joined") /\ joining' = joining
    <3>1. at'[Tool(t)] = "joined"
      BY <2>1, Routines, MovedTool
    <3>2. seen' = seen /\ at[Tool(t)] = "create" /\ joining[t] \in AllNames
      BY <1>3 DEF CreateSiswa, Enrol
    <3>3. /\ Grows(siswa, siswa') /\ siswa'[joining[t]] = siswa[joining[t]] + 1
          /\ \A n \in AllNames : n # joining[t] => siswa'[n] = siswa[n]
      BY <2>1, <3>2, MoreSiswa
    <3>4. "orphan" \notin seen => \A u \in Turns \ {t} : at[Tool(u)] = "idle"
      BY <1>1, OneTool
    <3>5. \A u \in Turns : at'[Tool(u)] \in {"find", "create", "joined"} => joining[u] \in AllNames
      BY <1>1, <3>2 DEF Enrol
    <3>6. \A u \in Turns : at'[Tool(u)] = "joined" => siswa'[joining[u]] > 0
      <4> SUFFICES ASSUME NEW u \in Turns, at'[Tool(u)] = "joined" PROVE siswa'[joining[u]] > 0
        OBVIOUS
      <4>1. CASE u = t
        BY <3>2, <3>3, <4>1 DEF Grows
      <4>2. CASE u # t
        <5>1. joining[u] \in AllNames /\ siswa[joining[u]] > 0
          BY <1>1, <4>2 DEF Enrol
        <5> QED
          BY <3>3, <5>1 DEF Grows
      <4> QED
        BY <4>1, <4>2
    <3>7. ASSUME {"orphan", "blind"} \cap seen = {}
          PROVE  /\ \A n \in AllNames : siswa'[n] <= 1
                 /\ \A u \in Turns : at'[Tool(u)] # "create"
      <4>1. siswa[joining[t]] = 0 /\ \A n \in AllNames : siswa[n] <= 1
        BY <3>2, <3>7 DEF Enrol
      <4> QED
        BY <1>1, <3>1, <3>3, <3>4, <3>7, <4>1
    <3> QED
      BY <2>1, <3>2, <3>5, <3>6, <3>7 DEF Enrol
  <2>2. CASE siswa' = siswa /\ Save(Tool(t), State(Tool(t)), "idle")
             /\ joining' = [joining EXCEPT ![t] = ""]
    <3>1. at'[Tool(t)] = "write"
      BY <2>2, Routines, MovedTool
    <3>2. /\ joining' \in [Turns -> AllNames \cup {""}]
          /\ \A u \in Turns \ {t} : joining'[u] = joining[u]
      BY <2>2 DEF Enrol
    <3> QED
      BY <1>1, <2>2, <3>1, <3>2, EnrolKeeps
  <2> QED
    BY <1>3, <2>1, <2>2 DEF CreateSiswa
<1>4. CASE JoinKelas(t) /\ Continue(Tool(t), "find")
  <2> DEFINE name == IF State(Tool(t)).nama = "" THEN "Siswa" ELSE State(Tool(t)).nama
  <2>1. at'[Tool(t)] = "find" /\ at[Tool(t)] = "join_kelas"
    BY <1>4, Routines, MovedTool DEF JoinKelas
  <2>2. Good(State(Tool(t)), siswa)
    BY <2>1, ThreadFacts, StateGood DEF Loaded, Work, Calls
  <2>3. name \in AllNames
    BY <2>2 DEF Good, AllNames
  <2>4. joining' = [joining EXCEPT ![t] = name] /\ siswa' = siswa
    <3>1. ~NoEffect(t) /\ ~Save(Tool(t), State(Tool(t)), "idle")
      <4>1. "find" # "idle" /\ "find" # "write"
        OBVIOUS
      <4> QED
        BY <2>1, <4>1, Routines, MovedTool DEF NoEffect
    <3> QED
      BY <1>4, <3>1 DEF JoinKelas, tables
  <2> HIDE DEF name
  <2>5. /\ joining' \in [Turns -> AllNames \cup {""}] /\ joining'[t] = name
        /\ \A u \in Turns \ {t} : joining'[u] = joining[u]
    BY <2>3, <2>4 DEF Enrol
  <2> QED
    BY <1>1, <2>1, <2>3, <2>4, <2>5 DEF Enrol
<1>5. CASE ~FindSiswa(t) /\ ~CreateSiswa(t) /\ ~(JoinKelas(t) /\ Continue(Tool(t), "find"))
  <2>1. \/ Moves(Tool(t), "write", "join_kelas") \/ Moves(Tool(t), "write", "idle")
        \/ Moves(Tool(t), "idle", "none")
        \/ Moves(Tool(t), "advance", "none") \/ Moves(Tool(t), "delete", "none")
    BY <1>5 DEF ToolStep, SetNamaSiswa, SetKodeKelas, JoinKelas, Joined, MulaiKuis, GradeJawaban,
       AdvanceKuis, ResetCache, ResetDb, NoEffect, Save, Leave, Goto, Call, Moves
  <2>2. /\ siswa' = siswa
        /\ joining' = joining \/ joining' = [joining EXCEPT ![t] = ""]
    BY <1>5 DEF ToolStep, SetNamaSiswa, SetKodeKelas, JoinKelas, Joined, MulaiKuis, GradeJawaban,
       AdvanceKuis, ResetCache, ResetDb, tables
  <2>3. at'[Tool(t)] \notin {"find", "joined", "create"}
    BY <2>1, MovedTool
  <2>4. /\ joining' \in [Turns -> AllNames \cup {""}]
        /\ \A u \in Turns \ {t} : joining'[u] = joining[u]
    BY <2>2 DEF Enrol
  <2> QED
    BY <1>1, <2>2, <2>3, <2>4, EnrolKeeps
<1> QED
  BY <1>2, <1>3, <1>4, <1>5

LEMMA EnrolStep ==
  ASSUME Control, Store, \A th \in Threads : Loaded(th), Enrol, [Next]_vars
  PROVE  Enrol'
<1>1. CASE \E th \in Threads : SharedStep(th)
  <2>1. PICK th \in Threads : SharedStep(th)
    BY <1>1
  <2>2. UNCHANGED <<siswa, joining>> /\ seen \subseteq seen'
    BY <2>1 DEF SharedStep, ReadDb, Fill, WriteDb, tables, Notes
  <2>3. at' = [at EXCEPT ![th] = "fill"] \/ at' = [at EXCEPT ![th] = back[th]]
    BY <2>1 DEF SharedStep, ReadDb, Fill, WriteDb, Goto
  <2>4. back[th] \notin {"find", "joined", "create"}
    BY DEF Control, Returns, Calls
  <2> QED
    BY <2>2, <2>3, <2>4, ThreadFacts, EnrolKeeps DEF Control, Enrol
<1>2. CASE \E t \in Turns : Send(t) \/ ChatStep(t)
  <2>1. PICK t \in Turns : Send(t) \/ ChatStep(t)
    BY <1>2
  <2>2. UNCHANGED <<siswa, joining>> /\ seen \subseteq seen'
    BY <2>1 DEF Send, ChatStep, Guard, Tunggu, Submit, SubmitError, Timeout, JobFailed, Retry,
       Answered, Attach, Finish, Fallback, tables, Notes
  <2>3. \E l : at' = [at EXCEPT ![Chat(t)] = l]
    BY <2>1 DEF Send, ChatStep, Guard, Tunggu, Submit, SubmitError, Timeout, JobFailed, Retry,
       Answered, Attach, Finish, Fallback, Load, Save, Leave, Continue, Goto, Call
  <2> QED
    BY <2>2, <2>3, ThreadFacts, EnrolKeeps DEF Control, Enrol
<1>3. CASE \E t \in Turns : ToolStep(t)
  BY <1>3, ToolEnrol, ThreadFacts
<1>4. CASE \E t \in Turns, tool \in Tools : CallTool(t, tool)
  <2>1. PICK t \in Turns, tool \in Tools : CallTool(t, tool)
    BY <1>4
  <2>2. at' = [at EXCEPT ![Tool(t)] = "read"] \/ at' = [at EXCEPT ![Tool(t)] = tool]
    BY <2>1 DEF CallTool, Load, Goto, Call
  <2>3. tool \notin {"find", "joined", "create"} /\ UNCHANGED <<siswa, joining, seen>>
    BY <2>1, SessionAssumption DEF CallTool, tables
  <2> QED
    BY <2>2, <2>3, ThreadFacts, EnrolKeeps DEF Control, Enrol
<1>5. CASE \/ \E t \in Turns, how \in {"answered", "limited", "failed"} : Ends(t, how)
           \/ \E q \in Soal : DeleteSoal(q)
           \/ UNCHANGED vars
  <2>1. UNCHANGED <<at, siswa, joining, seen>>
    BY <1>5 DEF Ends, DeleteSoal, vars, thread, tables
  <2> QED
    BY <2>1, EnrolKeeps DEF Enrol
<1>6. CASE Restart
  <2>1. /\ siswa' = siswa /\ seen \subseteq seen' /\ joining' = [u \in Turns |-> ""]
        /\ \A th \in Threads : at'[th] \in {"idle", "new", "done"}
    BY <1>6 DEF Restart, tables, Notes
  <2> QED
    BY <2>1, ThreadFacts, EnrolKeeps
<1> QED
  BY <1>1, <1>2, <1>3, <1>4, <1>5, <1>6 DEF Next

-----------------------------------------------------------------------------
(* Telling of a join.                                                      *)

LEMMA TellingHolds ==
  ASSUME Control, NEW t \in Turns, Telling(t)
  PROVE  Holds(t) /\ at[Tool(t)] = "idle"
BY DEF Control, ChatAt, JobOK, Telling, Holds

(* A step that leaves the cache, its object, and who is telling alone.     *)
LEMMA TellKeeps ==
  ASSUME Control, \A e \in Threads : Loaded(e), Tell, seen \subseteq seen',
         Apart' => /\ cache' = cache
                   /\ cache \in Objs => heap'[cache] = heap[cache],
         \A t \in Turns : Telling(t)' =>
           /\ Telling(t) /\ ptr'[Chat(t)] = ptr[Chat(t)]
           /\ at[Chat(t)] # "attach" \/ at'[Chat(t)] = "attach"
  PROVE  Tell'
<1> SUFFICES ASSUME Apart', NEW t \in Turns, Telling(t)'
             PROVE  /\ cache' = ptr'[Chat(t)]
                    /\ at'[Chat(t)] # "attach" => ~heap'[cache'].pending
  BY DEF Tell
<1>1. Apart /\ Telling(t) /\ cache = ptr[Chat(t)] /\ (at[Chat(t)] # "attach" => ~heap[cache].pending)
  BY DEF Tell, Apart
<1>2. cache \in Objs
  BY <1>1, ThreadFacts DEF Loaded, Telling
<1> QED
  BY <1>1, <1>2

(* Objects that somebody points to are kept.                               *)
LEMMA HeapKept ==
  ASSUME NEW h, HeapIs(h), NEW o \in Objs, o = cache'
  PROVE  heap'[o] = h[o]
BY DEF HeapIs

(* Steps of a thread that is not telling, and that leave objects alone.    *)
LEMMA OtherTells ==
  ASSUME Control, Store, \A e \in Threads : Loaded(e), Tell, seen \subseteq seen', cache' = cache,
         UNCHANGED heap \/ HeapIs(heap),
         NEW th \in Threads, NEW l, at' = [at EXCEPT ![th] = l],
         \A e \in Threads \ {th} : ptr'[e] = ptr[e],
         l \notin {"attach", "write", "finish"} \/ \E t \in Turns : th = Tool(t)
  PROVE  Tell'
<1>1. cache \in Objs => heap'[cache] = heap[cache]
  BY HeapKept
<1>2. ASSUME NEW t \in Turns, Telling(t)' PROVE Telling(t) /\ ptr'[Chat(t)] = ptr[Chat(t)] /\ at'[Chat(t)] = at[Chat(t)]
  BY <1>2, ThreadFacts DEF Telling, Control
<1> QED
  BY <1>1, <1>2, TellKeeps

LEMMA SharedTell ==
  ASSUME Control, Store, \A e \in Threads : Loaded(e), Tell, NEW th \in Threads, SharedStep(th)
  PROVE  Tell'
<1>1. CASE ReadDb(th)
  <2> DEFINE o == CHOOSE o \in Objs \ Used : TRUE
  <2>1. o \in Objs /\ o # cache
    BY FreeObject DEF Used
  <2>2. PICK s : HeapIs([heap EXCEPT ![o] = s])
    BY <1>1 DEF ReadDb
  <2>3. /\ at' = [at EXCEPT ![th] = "fill"] /\ ptr' = [ptr EXCEPT ![th] = o]
        /\ cache' = cache /\ seen' = seen
    BY <1>1 DEF ReadDb
  <2> HIDE DEF o
  <2>4. cache \in Objs => heap'[cache] = heap[cache]
    BY <2>1, <2>2, <2>3, HeapKept DEF Store
  <2>5. ASSUME NEW t \in Turns, Telling(t)'
        PROVE  Telling(t) /\ ptr'[Chat(t)] = ptr[Chat(t)] /\ at'[Chat(t)] = at[Chat(t)]
    BY <2>3, <2>5, ThreadFacts DEF Telling, Control, Store
  <2> QED
    BY <2>3, <2>4, <2>5, TellKeeps
<1>2. CASE Fill(th)
  <2>1. /\ cache' = ptr[th] /\ ptr' = ptr /\ at' = [at EXCEPT ![th] = back[th]] /\ at[th] = "fill"
        /\ Apart' => cache = None /\ Apart
    BY <1>2 DEF Fill, Goto, Notes, Apart
  <2>2. Apart' => \A t \in Turns : ~Telling(t)
    BY <2>1, ThreadFacts, NoneIsNoObject DEF Tell, Loaded, Telling
  <2>3. ASSUME Apart', NEW t \in Turns, Telling(t)'
        PROVE  th = Chat(t) /\ at'[Chat(t)] = "attach"
    <3>1. th = Chat(t)
      BY <2>1, <2>2, <2>3, ThreadFacts DEF Telling, Control
    <3>2. back[th] \in {"guard", "tunggu", "submit", "attach"} /\ at'[th] = back[th]
      BY <2>1, <3>1 DEF Control, ChatAt
    <3> QED
      BY <2>3, <3>1, <3>2 DEF Telling
  <2> QED
    BY <2>1, <2>3 DEF Tell
<1>3. CASE WriteDb(th)
  <2>1. /\ cache' = cache /\ HeapIs(heap) /\ seen' = seen /\ at[th] = "write"
        /\ at' = [at EXCEPT ![th] = back[th]]
        /\ \A e \in Threads \ {th} : ptr'[e] = ptr[e]
        /\ back[th] # "idle" => ptr' = ptr
    BY <1>3 DEF WriteDb, Goto, Store
  <2>2. CASE \E t \in Turns : th = Tool(t)
    BY <2>1, <2>2, OtherTells
  <2>3. CASE \E t \in Turns : th = Chat(t)
    <3>1. back[th] = "finish"
      BY <2>1, <2>3 DEF Control, ChatAt
    <3>2. cache \in Objs => heap'[cache] = heap[cache]
      BY <2>1, HeapKept
    <3>3. ASSUME NEW t \in Turns, Telling(t)'
          PROVE  /\ Telling(t) /\ ptr'[Chat(t)] = ptr[Chat(t)]
                 /\ at[Chat(t)] # "attach" \/ at'[Chat(t)] = "attach"
      BY <2>1, <3>1, <3>3, ThreadFacts DEF Telling, Control
    <3> QED
      BY <2>1, <3>2, <3>3, TellKeeps
  <2> QED
    BY <2>2, <2>3, ThreadFacts
<1> QED
  BY <1>1, <1>2, <1>3 DEF SharedStep

(* When a turn moves that is telling, it is the only one.                  *)
LEMMA OnlyTelling ==
  ASSUME Control', NEW t \in Turns, Telling(t)'
  PROVE  \A u \in Turns : Telling(u)' => u = t
<1>1. ASSUME NEW u \in Turns, Telling(u)' PROVE Holds(u)'
  BY <1>1 DEF Control, ChatAt, Telling, Holds
<1> QED
  BY <1>1 DEF Control, OneTurnAtATime

LEMMA LoadTell ==
  ASSUME Control, Control', Store, \A e \in Threads : Loaded(e), Tell, seen' = seen,
         NEW t \in Turns, NEW l \in {"guard", "tunggu", "submit", "attach"}, Load(Chat(t), l)
  PROVE  Tell'
<1>1. /\ cache' = cache /\ HeapIs(heap) /\ Chat(t) \in Threads
      /\ \A e \in Threads \ {Chat(t)} : ptr'[e] = ptr[e]
  BY ThreadFacts DEF Load, Store
<1>2. CASE cache # None /\ l = "attach"
  <2>1. at'[Chat(t)] = "attach" /\ ptr'[Chat(t)] = cache
    BY <1>1, <1>2 DEF Load, Goto, Control, Store
  <2>2. \A u \in Turns : Telling(u)' => u = t
    BY <2>1, OnlyTelling DEF Telling
  <2> QED
    BY <1>1, <2>1, <2>2 DEF Tell
<1>3. CASE cache = None \/ l # "attach"
  <2>1. at' = [at EXCEPT ![Chat(t)] = "read"] \/ (at' = [at EXCEPT ![Chat(t)] = l] /\ l # "attach")
    BY <1>3 DEF Load, Goto, Call
  <2> QED
    BY <1>1, <2>1, OtherTells
<1> QED
  BY <1>2, <1>3

LEMMA LeaveTell ==
  ASSUME Control, Store, \A e \in Threads : Loaded(e), Tell, seen \subseteq seen',
         NEW t \in Turns, NEW l \in {"done", "wait", "guard"}, Leave(Chat(t), l, heap)
  PROVE  Tell'
<1>1. /\ cache' = cache /\ HeapIs(heap) /\ Chat(t) \in Threads
      /\ \A e \in Threads \ {Chat(t)} : ptr'[e] = ptr[e]
      /\ at' = [at EXCEPT ![Chat(t)] = l]
  BY ThreadFacts DEF Leave, Goto, Store
<1> QED
  BY <1>1, OtherTells

LEMMA ChatTell ==
  ASSUME Control, Control', Store, \A e \in Threads : Loaded(e), Tell,
         NEW t \in Turns, Send(t) \/ ChatStep(t)
  PROVE  Tell'
<1>1. CASE Send(t) \/ Guard(t) \/ Answered(t)
  <2>1. /\ seen' = seen
        /\ \/ Load(Chat(t), "guard") \/ Load(Chat(t), "tunggu")
           \/ Load(Chat(t), "submit") \/ Load(Chat(t), "attach")
    BY <1>1 DEF Send, Guard, Answered
  <2> QED
    BY <2>1, LoadTell
<1>2. CASE Tunggu(t) \/ Submit(t) \/ Finish(t) \/ Retry(t)
  BY <1>2, LeaveTell DEF Tunggu, Submit, Finish, Retry
<1>3. CASE SubmitError(t) \/ Timeout(t) \/ JobFailed(t)
  BY <1>3, LeaveTell DEF SubmitError, Timeout, JobFailed, Fallback, Notes
<1>5. CASE Attach(t)
  <2>1. ptr[Chat(t)] \in Objs /\ Telling(t) /\ Chat(t) \in Threads /\ seen' = seen
    BY <1>5, ThreadFacts DEF Attach, Loaded, Telling
  <2>2. at'[Chat(t)] \in {"write", "finish"} /\ ptr' = ptr
    BY <1>5, <2>1 DEF Attach, Save, Continue, Goto, Call, Control
  <2>3. \A u \in Turns : Telling(u)' => u = t
    BY <2>2, OnlyTelling DEF Telling
  <2>4. CASE State(Chat(t)).pending
    <3>1. /\ cache' = ptr[Chat(t)]
          /\ HeapIs(Changed(Chat(t), [State(Chat(t)) EXCEPT !.pending = FALSE]))
      BY <1>5, <2>4 DEF Attach, Save
    <3>2. heap'[cache'] = [State(Chat(t)) EXCEPT !.pending = FALSE]
      BY <2>1, <3>1 DEF HeapIs, Changed, Store
    <3>3. "pending" \in DOMAIN State(Chat(t))
      BY <2>1, StateGood DEF Good
    <3>4. ~heap'[cache'].pending
      BY <3>2, <3>3
    <3> QED
      BY <2>2, <2>3, <3>1, <3>4 DEF Tell
  <2>5. CASE ~State(Chat(t)).pending
    <3>1. UNCHANGED <<cache, heap>>
      BY <1>5, <2>5 DEF Attach, Continue, store
    <3>2. Apart' => cache = ptr[Chat(t)]
      BY <2>1 DEF Tell, Apart
    <3> QED
      BY <2>2, <2>3, <2>5, <3>1, <3>2 DEF Tell, State
  <2> QED
    BY <2>4, <2>5
<1> QED
  BY <1>1, <1>2, <1>3, <1>5 DEF ChatStep

LEMMA ToolTell ==
  ASSUME Control, Tell, NEW t \in Turns, ToolStep(t)
  PROVE  Tell'
<1>1. at[Tool(t)] # "idle" /\ seen \subseteq seen'
  BY ToolStepGoes DEF Work, Calls
<1>2. \A u \in Turns : at'[Chat(u)] = at[Chat(u)]
  BY ToolStepGoes, ThreadFacts DEF ToolGoes, Moves, Control
<1>3. ASSUME Apart', NEW u \in Turns PROVE ~Telling(u)
  <2>1. "orphan" \notin seen
    BY <1>1, <1>3 DEF Apart
  <2> QED
    BY <1>1, <2>1, OneTool, TellingHolds DEF Telling
<1> QED
  BY <1>2, <1>3 DEF Tell, Telling

LEMMA TellStep ==
  ASSUME Control, Control', Store, \A e \in Threads : Loaded(e), Tell, [Next]_vars
  PROVE  Tell'
<1>1. CASE \E th \in Threads : SharedStep(th)
  BY <1>1, SharedTell
<1>2. CASE \E t \in Turns : Send(t) \/ ChatStep(t)
  BY <1>2, ChatTell
<1>3. CASE \E t \in Turns : ToolStep(t)
  BY <1>3, ToolTell
<1>4. CASE \E t \in Turns, tool \in Tools : CallTool(t, tool)
  <2>1. PICK t \in Turns, tool \in Tools : CallTool(t, tool)
    BY <1>4
  <2>2. /\ at' = [at EXCEPT ![Tool(t)] = "read"] \/ at' = [at EXCEPT ![Tool(t)] = tool]
        /\ seen' = seen /\ cache' = cache /\ HeapIs(heap) /\ Tool(t) \in Threads
        /\ \A e \in Threads \ {Tool(t)} : ptr'[e] = ptr[e]
    BY <2>1, ThreadFacts DEF CallTool, Load, Goto, Call, Store
  <2> QED
    BY <2>2, OtherTells
<1>5. CASE \/ \E t \in Turns, how \in {"answered", "limited", "failed"} : Ends(t, how)
           \/ \E q \in Soal : DeleteSoal(q)
           \/ UNCHANGED vars
  <2>1. UNCHANGED <<at, ptr, heap, cache, seen>>
    BY <1>5 DEF Ends, DeleteSoal, vars, thread, store
  <2> QED
    BY <2>1 DEF Tell, Telling, Apart
<1>6. CASE Restart
  <2>1. \A th \in Threads : at'[th] \in {"idle", "new", "done"}
    BY <1>6 DEF Restart
  <2> QED
    BY <2>1, ThreadFacts DEF Tell, Telling
<1> QED
  BY <1>1, <1>2, <1>3, <1>4, <1>5, <1>6 DEF Next

-----------------------------------------------------------------------------
(* The tables of a quiz.                                                   *)

LEMMA RowsStep ==
  ASSUME Rows, [Next]_vars
  PROVE  Rows'
<1>1. CASE UNCHANGED <<soals, graded>>
  BY <1>1 DEF Rows
<1>2. CASE \E q \in Soal : DeleteSoal(q)
  BY <1>2 DEF Rows, DeleteSoal
<1>3. CASE \E t \in Turns : MulaiKuis(t)
  <2>1. soals' = soals /\ (graded' = graded \/ graded' = [q \in Soal |-> 0])
    BY <1>3 DEF MulaiKuis
  <2> QED
    BY <2>1 DEF Rows
<1>4. CASE \E t \in Turns : GradeJawaban(t)
  <2>1. soals' = soals /\ (graded' = graded \/ \E q \in soals : graded' = [graded EXCEPT ![q] = @ + 1])
    BY <1>4 DEF GradeJawaban
  <2> QED
    BY <2>1 DEF Rows
<1>5. ASSUME NEW th \in Threads, SharedStep(th) PROVE UNCHANGED <<soals, graded>>
  BY <1>5 DEF SharedStep, ReadDb, Fill, WriteDb, tables
<1>6. ASSUME NEW t \in Turns, Send(t) \/ ChatStep(t) PROVE UNCHANGED <<soals, graded>>
  BY <1>6 DEF Send, ChatStep, Guard, Tunggu, Submit, SubmitError, Timeout, JobFailed, Retry,
     Answered, Attach, Finish, Fallback, tables
<1>7. ASSUME NEW t \in Turns, ToolStep(t), ~MulaiKuis(t), ~GradeJawaban(t)
      PROVE  UNCHANGED <<soals, graded>>
  BY <1>7 DEF ToolStep, SetNamaSiswa, SetKodeKelas, JoinKelas, FindSiswa, CreateSiswa, Joined,
     AdvanceKuis, ResetCache, ResetDb, tables
<1>8. CASE \/ \E t \in Turns, how \in {"answered", "limited", "failed"} : Ends(t, how)
           \/ \E t \in Turns, tool \in Tools : CallTool(t, tool)
           \/ Restart \/ UNCHANGED vars
  BY <1>1, <1>8 DEF Ends, CallTool, Restart, vars, tables
<1> QED
  BY <1>1, <1>2, <1>3, <1>4, <1>5, <1>6, <1>7, <1>8 DEF Next

-----------------------------------------------------------------------------
(* The points of a quiz.                                                   *)

LEMMA FreshScored == Scored(Fresh)
BY DEF Scored, Fresh

(* Without an orphan, a tool call that grades is the only one at work.     *)
LEMMA OneGrading ==
  ASSUME Control, "orphan" \notin seen, NEW t \in Turns, at[Tool(t)] # "idle" \/ Holds(t),
         NEW u \in Turns, Grading(u)
  PROVE  u = t /\ at[Chat(t)] = "wait"
BY OneTool DEF Grading

LEMMA ScoredState ==
  ASSUME Control, Store, Score, "orphan" \notin seen, NEW th \in Threads, ptr[th] \in Objs,
         NEW t \in Turns, at[Tool(t)] # "idle" \/ Holds(t), at[Tool(t)] # "advance"
  PROVE  Scored(State(th))
<1>1. ~\E u \in Turns : Grading(u)
  BY OneGrading DEF Grading
<1> QED
  BY <1>1 DEF Score, State

(* A step after which the same tool calls are grading, or fewer, each with *)
(* the object that it had.                                                 *)
LEMMA ScoreMoves ==
  ASSUME Store, \A e \in Threads : Loaded(e), Score, seen \subseteq seen',
         "panic" \in seen' => "panic" \in seen,
         NEW h, HeapIs(h) \/ heap' = h, \A o \in Objs : h[o] = heap[o] \/ Scored(h[o]),
         \A t \in Turns : Grading(t)' =>
           /\ Grading(t) /\ ptr'[Tool(t)] = ptr[Tool(t)]
           /\ h[ptr[Tool(t)]] = heap[ptr[Tool(t)]],
         \A t \in Turns : Grading(t) => Grading(t)' \/ Scored(h[ptr[Tool(t)]]),
         db' = db \/ (db' # None => Scored(db')),
         \A e \in Threads : snap'[e] = snap[e] \/ (snap'[e] # None => Scored(snap'[e]))
  PROVE  Score'
<1> SUFFICES ASSUME "orphan" \notin seen'
             PROVE  /\ "panic" \notin seen'
                    /\ db' # None => Scored(db')
                    /\ \A th \in Threads : snap'[th] # None => Scored(snap'[th])
                    /\ \A o \in Objs : Scored(heap'[o]) \/ \E t \in Turns : Grading(t)' /\ ptr'[Tool(t)] = o
                    /\ \A t \in Turns : Grading(t)' =>
                         LET k == heap'[ptr'[Tool(t)]].kuis IN k # None /\ k.skor <= k.index + 1
  BY DEF Score, State, Scored
<1>1. "orphan" \notin seen
  OBVIOUS
<1>2. "panic" \notin seen' /\ (db' # None => Scored(db'))
      /\ \A th \in Threads : snap'[th] # None => Scored(snap'[th])
  BY <1>1 DEF Score
<1>3. ASSUME NEW o \in Objs
      PROVE  Scored(heap'[o]) \/ \E t \in Turns : Grading(t)' /\ ptr'[Tool(t)] = o
  <2>1. heap'[o] = h[o] \/ heap'[o] = Fresh
    BY DEF HeapIs
  <2>2. Scored(h[o]) \/ \E t \in Turns : Grading(t)' /\ ptr'[Tool(t)] = o
    BY <1>1 DEF Score
  <2> QED
    BY <2>1, <2>2, FreshScored
<1>4. ASSUME NEW t \in Turns, Grading(t)'
      PROVE  heap'[ptr'[Tool(t)]].kuis # None
             /\ heap'[ptr'[Tool(t)]].kuis.skor <= heap'[ptr'[Tool(t)]].kuis.index + 1
  <2>1. Grading(t) /\ ptr'[Tool(t)] = ptr[Tool(t)] /\ h[ptr[Tool(t)]] = heap[ptr[Tool(t)]]
    BY <1>4
  <2>2. ptr[Tool(t)] \in Objs /\ Tool(t) \in Threads
    BY <2>1, ThreadFacts DEF Loaded, Grading, Work
  <2>3. heap'[ptr[Tool(t)]] = heap[ptr[Tool(t)]]
    BY <2>1, <2>2 DEF HeapIs
  <2> QED
    BY <1>1, <2>1, <2>3 DEF Score, State
<1> QED
  BY <1>2, <1>3, <1>4

(* A step that writes nothing, of a thread that is not grading.            *)
LEMMA ScoreKeeps ==
  ASSUME Control, Store, \A e \in Threads : Loaded(e), Score, seen \subseteq seen',
         "panic" \in seen' => "panic" \in seen, HeapIs(heap) \/ heap' = heap,
         NEW th \in Threads, NEW l, at' = [at EXCEPT ![th] = l], l # "advance", at[th] # "advance",
         \A e \in Threads \ {th} : ptr'[e] = ptr[e],
         db' \in {db, None} \/ (db' = snap[th] /\ "orphan" \notin seen'),
         \A e \in Threads : snap'[e] \in {snap[e], None}
  PROVE  Score'
<1>1. \A t \in Turns : Grading(t)' => Grading(t) /\ ptr'[Tool(t)] = ptr[Tool(t)]
  BY ThreadFacts DEF Grading, Control
<1>2. \A t \in Turns : Grading(t) => Grading(t)'
  BY ThreadFacts DEF Grading, Control
<1>3. CASE "orphan" \in seen'
  BY <1>3 DEF Score
<1>4. CASE "orphan" \notin seen'
  <2>1. db' = db \/ (db' # None => Scored(db'))
    BY <1>4 DEF Score
  <2> QED
    BY <1>1, <1>2, <2>1, ScoreMoves
<1> QED
  BY <1>3, <1>4

(* A thread that is at work alone saves what it has made of the state.     *)
LEMMA ScoreSave ==
  ASSUME Control, Store, \A e \in Threads : Loaded(e), Score, seen \subseteq seen',
         "panic" \in seen' => "panic" \in seen,
         NEW th \in Threads, ptr[th] \in Objs, NEW t \in Turns,
         \/ th = Tool(t) /\ at[Tool(t)] # "idle"
         \/ th = Chat(t) /\ at[Chat(t)] = "attach",
         NEW s, NEW l, "orphan" \notin seen => Scored(s),
         Save(th, s, l)
  PROVE  Score'
<1> SUFFICES ASSUME "orphan" \notin seen' PROVE Score'
  BY DEF Score
<1>1. "orphan" \notin seen /\ Scored(s)
  OBVIOUS
<1>2. /\ HeapIs(Changed(th, s)) /\ at' = [at EXCEPT ![th] = "write"] /\ ptr' = ptr /\ db' = db
      /\ \A e \in Threads : snap'[e] = snap[e] \/ snap'[e] = s
  BY DEF Save, Call, Store
<1>3. \A o \in Objs : Changed(th, s)[o] = heap[o] \/ Changed(th, s)[o] = s
  BY DEF Changed, Store
<1>4. Changed(th, s)[ptr[th]] = s
  BY DEF Changed, Store
<1>5. \A u \in Turns : Grading(u) => u = t /\ th = Tool(t)
  <2>1. ASSUME NEW u \in Turns, Grading(u) PROVE u = t /\ th = Tool(t)
    <3>1. at[Tool(t)] # "idle" \/ Holds(t)
      BY DEF Holds
    <3>2. u = t /\ at[Chat(t)] = "wait"
      BY <1>1, <2>1, <3>1, OneGrading
    <3> QED
      BY <3>2
  <2> QED
    BY <2>1, Zenon
<1>6. \A u \in Turns : ~Grading(u)'
  BY <1>2, <1>5, ThreadFacts DEF Grading, Control
<1>7. PICK h : HeapIs(h) /\ h = Changed(th, s)
  BY <1>2
<1> QED
  BY <1>1, <1>2, <1>3, <1>4, <1>5, <1>6, <1>7, ScoreMoves

LEMMA SharedScore ==
  ASSUME Control, Store, \A e \in Threads : Loaded(e), Score, NEW th \in Threads, SharedStep(th)
  PROVE  Score'
<1>0. back[th] # "advance" /\ at[th] # "advance" /\ at[th] # "idle"
  BY DEF Control, Returns, Calls, SharedStep, ReadDb, Fill, WriteDb
<1>1. CASE ReadDb(th)
  <2>1. PICK s \in {InDb} \cup (IF DbFails THEN {Fresh} ELSE {}) :
          LET o == CHOOSE o \in Objs \ Used : TRUE
          IN  /\ ptr' = [ptr EXCEPT ![th] = o]
              /\ UNCHANGED <<cache, db, snap>>
              /\ HeapIs([heap EXCEPT ![o] = s])
    BY <1>1 DEF ReadDb
  <2> DEFINE o == CHOOSE o \in Objs \ Used : TRUE
  <2>2. o \in Objs /\ o \notin Used
    BY FreeObject
  <2>3. /\ ptr' = [ptr EXCEPT ![th] = o] /\ UNCHANGED <<cache, db, snap, seen>>
        /\ HeapIs([heap EXCEPT ![o] = s]) /\ at' = [at EXCEPT ![th] = "fill"]
    BY <1>1, <2>1 DEF ReadDb
  <2> HIDE DEF o
  <2>4. CASE "orphan" \in seen
    BY <2>3, <2>4 DEF Score
  <2>5. CASE "orphan" \notin seen
    <3>1. Scored(s)
      BY <2>1, <2>5, FreshScored DEF InDb, Score
    <3>2. \A e \in Objs : [heap EXCEPT ![o] = s][e] = heap[e] \/ Scored([heap EXCEPT ![o] = s][e])
      BY <3>1 DEF Store
    <3>3. \A t \in Turns : [heap EXCEPT ![o] = s][ptr[Tool(t)]] = heap[ptr[Tool(t)]]
      BY <2>2, ThreadFacts DEF Used, Store
    <3>4. \A t \in Turns : Grading(t)' => Grading(t) /\ ptr'[Tool(t)] = ptr[Tool(t)]
      BY <1>0, <2>3, ThreadFacts DEF Grading, Control, Store
    <3>5. \A t \in Turns : Grading(t) => Grading(t)'
      BY <1>0, <2>3, ThreadFacts DEF Grading, Control
    <3> DEFINE h == [heap EXCEPT ![o] = s]
    <3>6. /\ HeapIs(h) /\ \A e \in Objs : h[e] = heap[e] \/ Scored(h[e])
          /\ \A t \in Turns : h[ptr[Tool(t)]] = heap[ptr[Tool(t)]]
      BY <2>3, <3>2, <3>3
    <3> HIDE DEF h
    <3> QED
      BY <2>3, <3>4, <3>5, <3>6, ScoreMoves
  <2> QED
    BY <2>4, <2>5
<1>2. CASE Fill(th)
  <2>1. /\ at' = [at EXCEPT ![th] = back[th]] /\ HeapIs(heap) /\ UNCHANGED <<ptr, db, snap>>
        /\ seen \subseteq seen' /\ ("panic" \in seen' => "panic" \in seen)
    BY <1>2 DEF Fill, Goto
  <2> QED
    BY <1>0, <2>1, ScoreKeeps
<1>3. CASE WriteDb(th)
  <2>1. /\ at' = [at EXCEPT ![th] = back[th]] /\ HeapIs(heap) /\ seen' = seen
        /\ db' \in {db, snap[th]} /\ \A e \in Threads : snap'[e] \in {snap[e], None}
        /\ \A e \in Threads \ {th} : ptr'[e] = ptr[e]
    BY <1>3 DEF WriteDb, Goto, Store
  <2>2. CASE "orphan" \in seen
    BY <2>1, <2>2 DEF Score
  <2>3. CASE "orphan" \notin seen
    BY <1>0, <2>1, <2>3, ScoreKeeps
  <2> QED
    BY <2>2, <2>3
<1> QED
  BY <1>1, <1>2, <1>3 DEF SharedStep

LEMMA ChatScore ==
  ASSUME Control, Store, \A e \in Threads : Loaded(e), Score, NEW t \in Turns, Send(t) \/ ChatStep(t)
  PROVE  Score'
<1>1. /\ Chat(t) \in Threads /\ at[Chat(t)] # "advance" /\ seen \subseteq seen'
      /\ "panic" \in seen' => "panic" \in seen
  BY ThreadFacts DEF Send, ChatStep, Guard, Tunggu, Submit, SubmitError, Timeout, JobFailed, Retry,
     Answered, Attach, Finish, Fallback, Notes, Control, ChatAt
<1>2. CASE /\ \E l \in {"guard", "tunggu", "submit", "attach", "done", "wait", "finish", "read"} :
                  at' = [at EXCEPT ![Chat(t)] = l]
           /\ HeapIs(heap) \/ heap' = heap
           /\ \A e \in Threads \ {Chat(t)} : ptr'[e] = ptr[e]
           /\ UNCHANGED <<db, snap>>
  BY <1>1, <1>2, ScoreKeeps
<1>3. CASE Send(t) \/ Guard(t) \/ Answered(t)
  <2>1. \E l \in {"guard", "tunggu", "submit", "attach"} : Load(Chat(t), l)
    BY <1>3 DEF Send, Guard, Answered
  <2> QED
    BY <1>2, <2>1 DEF Load, Goto, Call, Store
<1>4. CASE \/ Tunggu(t) \/ Submit(t) \/ Finish(t) \/ Retry(t)
           \/ SubmitError(t) \/ Timeout(t) \/ JobFailed(t)
  <2>1. /\ \E l \in {"done", "wait", "guard"} : Leave(Chat(t), l, heap)
        /\ db' = db
    BY <1>4 DEF Tunggu, Submit, Finish, Retry, SubmitError, Timeout, JobFailed, Fallback
  <2> QED
    BY <1>2, <2>1 DEF Leave, Goto, Store
<1>6. CASE Attach(t) /\ State(Chat(t)).pending
  <2>1. ptr[Chat(t)] \in Objs /\ at[Chat(t)] = "attach" /\ Holds(t) /\ at[Tool(t)] # "advance"
    BY <1>1, <1>6 DEF Attach, Loaded, Holds, Control, JobOK
  <2>2. "orphan" \notin seen => Scored(State(Chat(t)))
    BY <1>1, <2>1, ScoredState
  <2>3. Scored(State(Chat(t))) => Scored([State(Chat(t)) EXCEPT !.pending = FALSE])
    BY DEF Scored
  <2>4. Save(Chat(t), [State(Chat(t)) EXCEPT !.pending = FALSE], "finish")
    BY <1>6 DEF Attach
  <2> QED
    BY <1>1, <2>1, <2>2, <2>3, <2>4, ScoreSave
<1>7. CASE Attach(t) /\ ~State(Chat(t)).pending
  BY <1>2, <1>7 DEF Attach, Continue, Goto, store
<1> QED
  BY <1>3, <1>4, <1>6, <1>7 DEF ChatStep

(* The grading of an answer adds a point at most.                          *)
LEMMA GradeScore ==
  ASSUME Control, Store, \A e \in Threads : Loaded(e), Score, NEW t \in Turns, GradeJawaban(t)
  PROVE  Score'
<1> DEFINE th == Tool(t)
<1>1. /\ th \in Threads /\ at[th] = "submit_jawaban" /\ ptr[th] \in Objs
      /\ Good(State(th), siswa) /\ seen' = seen /\ db' = db
  BY ThreadFacts, StateGood DEF GradeJawaban, NoEffect, Loaded, Work, Calls
<1> HIDE DEF th
<1>2. CASE Leave(th, "idle", heap)
  <2>1. /\ at' = [at EXCEPT ![th] = "idle"] /\ HeapIs(heap) /\ snap' = snap
        /\ \A e \in Threads \ {th} : ptr'[e] = ptr[e]
    BY <1>2 DEF Leave, Goto, Store
  <2> QED
    BY <1>1, <2>1, ScoreKeeps
<1>3. CASE /\ State(th).kuis # None /\ Goto(th, "advance") /\ UNCHANGED <<ptr, snap>>
           /\ \E benar \in BOOLEAN :
                HeapIs(Changed(th, [State(th) EXCEPT !.kuis.skor = IF benar THEN @ + 1 ELSE @]))
  <2> SUFFICES ASSUME "orphan" \notin seen PROVE Score'
    BY <1>1 DEF Score
  <2> DEFINE k == State(th).kuis
  <2>1. k \in Kuis /\ k.skor \in Nat /\ k.index \in Nat
    BY <1>1, <1>3, KuisFields DEF Good
  <2>2. k.skor <= k.index
    BY <1>1, <1>3, ScoredState DEF th, Scored
  <2>3. PICK m \in {k.skor, k.skor + 1} : HeapIs(Changed(th, [State(th) EXCEPT !.kuis.skor = m]))
    BY <1>3, <2>1, Graded
  <2>4. m \in Nat /\ m <= k.index + 1
    BY <2>1, <2>2, <2>3
  <2> DEFINE s == [State(th) EXCEPT !.kuis.skor = m]
  <2>5. s.kuis = [k EXCEPT !.skor = m]
    BY <1>1 DEF Good
  <2>6. s.kuis \in Kuis /\ s.kuis.skor = m /\ s.kuis.index = k.index
    <3> HIDE DEF k, s
    <3>1. /\ [k EXCEPT !.skor = m] \in Kuis /\ [k EXCEPT !.skor = m].skor = m
          /\ [k EXCEPT !.skor = m].index = k.index
      BY <2>1, <2>4, ScoredKuis
    <3> QED
      BY <2>5, <3>1
  <2>7. s.kuis # None /\ s.kuis.skor <= s.kuis.index + 1
    BY <2>4, <2>6, NoneIsNoKuis
  <2>8. HeapIs(Changed(th, s))
    BY <2>3
  <2> HIDE DEF s, k
  <2>9. \A u \in Turns : ~Grading(u)
    BY <1>1, OneGrading DEF th, Grading
  <2>10. \A u \in Turns : Grading(u)' <=> u = t
    BY <1>1, <1>3, <2>9, ThreadFacts DEF Grading, Goto, Control, th
  <2>11. ptr' = ptr /\ heap'[ptr[th]] = s
    BY <1>1, <1>3, <2>8 DEF HeapIs, Changed, Store
  <2>12. \A o \in Objs : heap'[o] = heap[o] \/ heap'[o] = Fresh \/ o = ptr[th]
    BY <2>8 DEF HeapIs, Changed, Store
  <2>13. \A o \in Objs : Scored(heap'[o]) \/ o = ptr[th]
    BY <2>9, <2>12, FreshScored DEF Score
  <2>14. /\ "panic" \notin seen' /\ (db' # None => Scored(db'))
         /\ \A e \in Threads : snap'[e] # None => Scored(snap'[e])
    BY <1>1, <1>3 DEF Score
  <2>15. \A o \in Objs : Scored(heap'[o]) \/ \E u \in Turns : Grading(u)' /\ ptr'[Tool(u)] = o
    BY <2>10, <2>11, <2>13 DEF th
  <2>16. \A u \in Turns : Grading(u)' =>
           heap'[ptr'[Tool(u)]].kuis # None
           /\ heap'[ptr'[Tool(u)]].kuis.skor <= heap'[ptr'[Tool(u)]].kuis.index + 1
    BY <2>7, <2>10, <2>11 DEF th
  <2> QED
    BY <2>14, <2>15, <2>16 DEF Score, Scored, State
<1> QED
  BY <1>2, <1>3 DEF GradeJawaban, NoEffect, th

LEMMA AdvanceScore ==
  ASSUME Control, Store, \A e \in Threads : Loaded(e), Score, NEW t \in Turns, AdvanceKuis(t)
  PROVE  Score'
<1> SUFFICES ASSUME "orphan" \notin seen' PROVE Score'
  BY DEF Score
<1> DEFINE th == Tool(t)
           k  == State(th).kuis
           s  == [State(th) EXCEPT !.kuis = Moved(k)]
<1>1. /\ th \in Threads /\ at[th] = "advance" /\ ptr[th] \in Objs /\ Grading(t)
      /\ Good(State(th), siswa) /\ seen \subseteq seen' /\ "orphan" \notin seen
  BY ThreadFacts, StateGood DEF AdvanceKuis, Notes, Loaded, Work, Calls, Grading
<1>2. k # None /\ k \in Kuis /\ k.skor <= k.index + 1
  BY <1>1 DEF Score, Good
<1>3. seen' = seen
  BY <1>2 DEF AdvanceKuis, Notes
<1>4. Scored(s)
  <2>1. s.kuis = Moved(k)
    BY <1>1 DEF Good
  <2> QED
    BY <1>2, <2>1, MovedKuis DEF Scored
<1>5. \/ Save(th, s, "idle")
      \/ Leave(th, "idle", Changed(th, s)) /\ db' = db
  BY <1>2 DEF AdvanceKuis
<1> HIDE DEF th, s, k
<1>6. CASE Save(th, s, "idle")
  BY <1>1, <1>3, <1>4, <1>6, ScoreSave DEF th
<1>7. CASE Leave(th, "idle", Changed(th, s)) /\ db' = db
  <2>1. /\ at' = [at EXCEPT ![th] = "idle"] /\ HeapIs(Changed(th, s)) /\ snap' = snap
    BY <1>7 DEF Leave, Goto
  <2>2. \A o \in Objs : Changed(th, s)[o] = heap[o] \/ Scored(Changed(th, s)[o])
    BY <1>4 DEF Changed, Store
  <2>3. Scored(Changed(th, s)[ptr[th]])
    BY <1>1, <1>4 DEF Changed, Store
  <2>4. \A u \in Turns : Grading(u) => u = t
    BY <1>1, OneGrading DEF th
  <2>5. \A u \in Turns : ~Grading(u)'
    BY <2>1, <2>4, ThreadFacts DEF Grading, Control, th
  <2> DEFINE h == Changed(th, s)
  <2>6. /\ HeapIs(h) /\ \A o \in Objs : h[o] = heap[o] \/ Scored(h[o])
        /\ \A u \in Turns : Grading(u) => Scored(h[ptr[Tool(u)]])
    BY <2>1, <2>2, <2>3, <2>4 DEF th
  <2> HIDE DEF h
  <2> QED
    BY <1>3, <1>7, <2>1, <2>5, <2>6, ScoreMoves
<1> QED
  BY <1>5, <1>6, <1>7

LEMMA ToolScore ==
  ASSUME Control, Store, Rows, \A e \in Threads : Loaded(e), Score, NEW t \in Turns, ToolStep(t)
  PROVE  Score'
<1> DEFINE th == Tool(t)
<1>1. th \in Threads /\ at[th] # "idle" /\ ptr[th] \in Objs /\ seen \subseteq seen'
      /\ Good(State(th), siswa)
  BY ThreadFacts, ToolStepGoes, StateGood DEF Loaded, Work, Calls
<1>2. CASE GradeJawaban(t) \/ AdvanceKuis(t)
  BY <1>2, GradeScore, AdvanceScore
<1>3. CASE ~GradeJawaban(t) /\ ~AdvanceKuis(t)
  <2>1. at[th] # "advance" /\ ("panic" \in seen' => "panic" \in seen)
    <3>1. at[th] # "advance"
      BY <1>3 DEF ToolStep, SetNamaSiswa, SetKodeKelas, JoinKelas, FindSiswa, CreateSiswa, Joined,
         MulaiKuis, ResetCache, ResetDb
    <3>2. CASE FindSiswa(t)
      BY <3>1, <3>2 DEF FindSiswa, Notes
    <3>3. CASE ~FindSiswa(t)
      BY <1>3, <3>1, <3>3 DEF ToolStep, SetNamaSiswa, SetKodeKelas, JoinKelas, CreateSiswa, Joined,
         MulaiKuis, ResetCache, ResetDb
    <3> QED
      BY <3>2, <3>3
  <2>2. "orphan" \notin seen => Scored(State(th))
    BY <1>1, <2>1, ScoredState
  <2> HIDE DEF th
  <2>3. ASSUME NEW s, NEW l, Save(th, s, l), s.kuis = State(th).kuis PROVE Score'
    BY <1>1, <2>1, <2>2, <2>3, ScoreSave DEF th, Scored
  <2>4. ASSUME NEW l, l # "advance", Leave(th, l, heap), db' \in {db, None} PROVE Score'
    <3>1. /\ at' = [at EXCEPT ![th] = l] /\ HeapIs(heap) /\ snap' = snap
          /\ \A e \in Threads \ {th} : ptr'[e] = ptr[e]
      BY <2>4 DEF Leave, Goto, Store
    <3> QED
      BY <1>1, <2>1, <2>4, <3>1, ScoreKeeps
  <2>5. ASSUME NEW l, l # "advance", Goto(th, l), UNCHANGED <<db, ptr, snap>>,
               HeapIs(heap) \/ heap' = heap
        PROVE  Score'
    <3>1. at' = [at EXCEPT ![th] = l]
      BY <2>5 DEF Goto
    <3> QED
      BY <1>1, <2>1, <2>5, <3>1, ScoreKeeps
  <2>6. CASE SetKodeKelas(t) \/ SetNamaSiswa(t)
    <3>1. \A v : /\ [State(th) EXCEPT !.kode = v].kuis = State(th).kuis
                 /\ [State(th) EXCEPT !.nama = v].kuis = State(th).kuis
      BY <1>1 DEF Good, th
    <3>2. \/ \E v : \/ Save(th, [State(th) EXCEPT !.kode = v], "join_kelas")
                    \/ Save(th, [State(th) EXCEPT !.nama = v], "idle")
          \/ Leave(th, "idle", heap) /\ db' = db
      BY <2>6 DEF SetKodeKelas, SetNamaSiswa, NoEffect, th
    <3> QED
      BY <2>3, <2>4, <3>1, <3>2
  <2>7. CASE JoinKelas(t)
    <3>1. \/ Leave(th, "idle", heap) /\ db' = db
          \/ Save(th, State(th), "idle")
          \/ Continue(th, "find")
      BY <2>7 DEF JoinKelas, NoEffect, th
    <3> QED
      BY <2>3, <2>4, <2>5, <3>1 DEF Continue, store
  <2>8. CASE FindSiswa(t)
    BY <2>5, <2>8 DEF FindSiswa, Continue, store, th
  <2>9. CASE CreateSiswa(t)
    BY <2>3, <2>5, <2>9 DEF CreateSiswa, Continue, store, th
  <2>10. CASE Joined(t)
    <3>1. [State(th) EXCEPT !.joined = joining[t], !.nama = joining[t], !.pending = TRUE].kuis
            = State(th).kuis
      BY <1>1 DEF Good, th
    <3> QED
      BY <2>3, <2>10, <3>1 DEF Joined, th
  <2>11. CASE MulaiKuis(t)
    <3>1. CASE Leave(th, "idle", heap) /\ db' = db
      BY <2>4, <3>1
    <3>2. CASE \E ids \in FirstSoal :
                 soals # {} /\ Save(th, [State(th) EXCEPT !.kuis = NewKuis(ids)], "idle")
      <4>1. PICK ids \in FirstSoal :
              soals # {} /\ Save(th, [State(th) EXCEPT !.kuis = NewKuis(ids)], "idle")
        BY <3>2
      <4>2. Scored([State(th) EXCEPT !.kuis = NewKuis(ids)])
        <5>1. [State(th) EXCEPT !.kuis = NewKuis(ids)].kuis = NewKuis(ids)
          BY <1>1 DEF Good, th
        <5>2. NewKuis(ids).skor <= NewKuis(ids).index
          BY <4>1, FirstKuis
        <5> QED
          BY <5>1, <5>2 DEF Scored
      <4> QED
        BY <1>1, <2>1, <4>1, <4>2, ScoreSave DEF th
    <3> QED
      BY <2>11, <3>1, <3>2 DEF MulaiKuis, NoEffect, th
  <2>12. CASE ResetCache(t)
    BY <2>5, <2>12 DEF ResetCache, th
  <2>13. CASE ResetDb(t)
    BY <2>4, <2>13 DEF ResetDb, th
  <2> QED
    BY <1>3, <2>6, <2>7, <2>8, <2>9, <2>10, <2>11, <2>12, <2>13 DEF ToolStep
<1> QED
  BY <1>2, <1>3

LEMMA ScoreStep ==
  ASSUME Control, Store, Rows, \A e \in Threads : Loaded(e), Score, [Next]_vars
  PROVE  Score'
<1>1. CASE \E th \in Threads : SharedStep(th)
  BY <1>1, SharedScore
<1>2. CASE \E t \in Turns : Send(t) \/ ChatStep(t) \/ ToolStep(t)
  BY <1>2, ChatScore, ToolScore
<1>3. CASE \E t \in Turns, tool \in Tools : CallTool(t, tool)
  <2>1. PICK t \in Turns, tool \in Tools : CallTool(t, tool)
    BY <1>3
  <2>2. /\ at' = [at EXCEPT ![Tool(t)] = "read"] \/ at' = [at EXCEPT ![Tool(t)] = tool]
        /\ UNCHANGED <<seen, db, snap>> /\ HeapIs(heap) /\ Tool(t) \in Threads
        /\ \A e \in Threads \ {Tool(t)} : ptr'[e] = ptr[e]
    BY <2>1, ThreadFacts DEF CallTool, Load, Goto, Call, Store
  <2>3. tool # "advance" /\ at[Tool(t)] # "advance"
    BY <2>1, SessionAssumption DEF CallTool
  <2> QED
    BY <2>2, <2>3, ScoreKeeps
<1>4. CASE \/ \E t \in Turns, how \in {"answered", "limited", "failed"} : Ends(t, how)
           \/ \E q \in Soal : DeleteSoal(q)
           \/ UNCHANGED vars
  <2>1. UNCHANGED <<at, ptr, snap, heap, db, seen>>
    BY <1>4 DEF Ends, DeleteSoal, vars, thread, store
  <2> QED
    BY <2>1 DEF Score, Grading, State
<1>5. CASE Restart
  <2>1. /\ \A th \in Threads : at'[th] \in {"idle", "new", "done"}
        /\ heap' = [o \in Objs |-> Fresh] /\ db' = db /\ snap' = [th \in Threads |-> None]
        /\ seen \subseteq seen' /\ ("panic" \in seen' => "panic" \in seen)
    BY <1>5 DEF Restart, Notes
  <2> QED
    BY <2>1, ThreadFacts, FreshScored DEF Score, Grading
<1> QED
  BY <1>1, <1>2, <1>3, <1>4, <1>5 DEF Next

-----------------------------------------------------------------------------
(* The rows of a quiz.                                                     *)

(* A step that changes no row, nor the quiz in the cache, and after which  *)
(* who is grading goes on.                                                 *)
LEMMA GradesKeep ==
  ASSUME Store, Rows, Grades, seen \subseteq seen', UNCHANGED <<graded, cache>>,
         cache # None => heap'[cache].kuis = heap[cache].kuis,
         \A t \in Turns : Grading(t) => Grading(t)',
         \A t \in Turns : Working(t)' =>
           ptr'[Tool(t)] = cache \/ (Working(t) /\ ptr'[Tool(t)] = ptr[Tool(t)])
  PROVE  Grades'
<1> SUFFICES ASSUME Apart', "older" \notin seen' PROVE Grades'
  BY DEF Grades
<1>1. /\ \A t \in Turns : Working(t) => ptr[Tool(t)] = cache
      /\ \A q \in Soal : graded[q] <= 1
      /\ cache # None /\ heap[cache].kuis # None =>
           Blank(heap[cache].kuis, IF \E t \in Turns : Grading(t) THEN 1 ELSE 0)
  BY DEF Grades, Apart
<1>2. \A t \in Turns : Working(t)' => ptr'[Tool(t)] = cache'
  BY <1>1
<1>3. ASSUME cache # None, heap'[cache].kuis # None
      PROVE  Blank(heap[cache].kuis, IF \E t \in Turns : Grading(t)' THEN 1 ELSE 0)
  <2> DEFINE k == heap[cache].kuis
  <2>1. k \in Kuis
    BY <1>3 DEF Store, Good
  <2>2. Blank(k, IF \E t \in Turns : Grading(t) THEN 1 ELSE 0)
    BY <1>1, <1>3
  <2> HIDE DEF k
  <2>3. k.index \in Nat /\ Len(k.ids) \in Nat
    BY <2>1, KuisFields
  <2>4. Blank(k, 0) => Blank(k, 1)
    BY <2>3 DEF Blank
  <2>5. Blank(k, IF \E t \in Turns : Grading(t)' THEN 1 ELSE 0)
    BY <2>2, <2>4
  <2> QED
    BY <2>5 DEF k
<1>4. (cache # None /\ heap[cache].kuis # None =>
         Blank(heap[cache].kuis, IF \E t \in Turns : Grading(t) THEN 1 ELSE 0))'
  BY <1>3 DEF Blank, Grading
<1> QED
  BY <1>1, <1>2, <1>4 DEF Grades

(* A step of a thread that leaves the objects, the cache and rows alone.   *)
LEMMA GradesOther ==
  ASSUME Control, Store, Rows, Grades, seen \subseteq seen', UNCHANGED <<graded, cache>>,
         HeapIs(heap) \/ heap' = heap,
         NEW th \in Threads, NEW l, at' = [at EXCEPT ![th] = l], at[th] # "advance",
         \A e \in Threads \ {th} : ptr'[e] = ptr[e],
         \/ \E t \in Turns : th = Chat(t)
         \/ l \in {"read", "fill", "delete", "idle"}
         \/ ptr'[th] = cache
         \/ at[th] \in (Work \ {"delete"}) \cup {"write"} /\ ptr'[th] = ptr[th]
  PROVE  Grades'
<1>1. cache # None => heap'[cache].kuis = heap[cache].kuis
  BY HeapKept DEF Store
<1>2. \A t \in Turns : Grading(t) => Grading(t)'
  BY ThreadFacts DEF Grading, Control
<1>3. ASSUME NEW t \in Turns, Working(t)'
      PROVE  ptr'[Tool(t)] = cache \/ (Working(t) /\ ptr'[Tool(t)] = ptr[Tool(t)])
  <2>1. CASE th = Tool(t)
    <3>1. at'[Tool(t)] = l /\ ~\E u \in Turns : th = Chat(u)
      BY <2>1, ThreadFacts DEF Control
    <3>2. l \notin {"read", "fill", "delete", "idle"}
      BY <1>3, <3>1 DEF Working, Work, Calls
    <3> QED
      BY <2>1, <3>1, <3>2 DEF Working
  <2>2. CASE th # Tool(t)
    BY <1>3, <2>2, ThreadFacts DEF Working, Control
  <2> QED
    BY <2>1, <2>2
<1> QED
  BY <1>1, <1>2, <1>3, GradesKeep

(* Without an orphan, a tool call that is at work is the only one.         *)
LEMMA OneWorking ==
  ASSUME Control, "orphan" \notin seen, NEW t \in Turns, at[Tool(t)] # "idle" \/ Holds(t),
         NEW u \in Turns, Working(u)
  PROVE  u = t /\ at[Chat(t)] = "wait"
BY OneTool DEF Working, Work, Calls

(* A thread that is at work alone saves what it has made of the state.     *)
LEMMA GradesSave ==
  ASSUME Control, Store, Rows, Grades, seen \subseteq seen',
         NEW th \in Threads, ptr[th] \in Objs, NEW t \in Turns,
         \/ th = Tool(t) /\ at[Tool(t)] # "idle"
         \/ th = Chat(t) /\ at[Chat(t)] = "attach",
         NEW s, NEW l, Save(th, s, l),
         Apart /\ "older" \notin seen =>
           /\ \A q \in Soal : graded'[q] <= 1
           /\ s.kuis # None => \A i \in 1 .. Len(s.kuis.ids) :
                                i > s.kuis.index => graded'[s.kuis.ids[i]] = 0,
         s.kuis \in Kuis \cup {None}
  PROVE  Grades'
<1> SUFFICES ASSUME Apart', "older" \notin seen' PROVE Grades'
  BY DEF Grades
<1>1. Apart /\ "older" \notin seen /\ "orphan" \notin seen
  BY DEF Apart
<1>2. /\ HeapIs(Changed(th, s)) /\ at' = [at EXCEPT ![th] = "write"] /\ ptr' = ptr
      /\ cache' = ptr[th]
  BY DEF Save, Call
<1>3. heap'[cache'] = s
  BY <1>2 DEF HeapIs, Changed, Store
<1>4. ASSUME NEW u \in Turns, Working(u) PROVE u = t /\ th = Tool(t)
  <2>1. at[Tool(t)] # "idle" \/ Holds(t)
    BY DEF Holds
  <2> QED
    BY <1>1, <1>4, <2>1, OneWorking
<1>5. ASSUME NEW u \in Turns, Working(u)' PROVE ptr'[Tool(u)] = cache'
  BY <1>2, <1>4, <1>5, ThreadFacts DEF Working, Control
<1>6. ASSUME NEW u \in Turns PROVE ~Grading(u)'
  <2>1. CASE th = Tool(u)
    BY <1>2, <2>1 DEF Grading, Control
  <2>2. CASE th # Tool(u)
    <3>1. ~Grading(u)
      BY <1>4, <2>2 DEF Grading, Working, Work
    <3> QED
      BY <1>2, <2>2, <3>1, ThreadFacts DEF Grading, Control
  <2> QED
    BY <2>1, <2>2
<1>7. ASSUME s.kuis # None PROVE \A i \in 1 .. Len(s.kuis.ids) : i > s.kuis.index + 0 => graded'[s.kuis.ids[i]] = 0
  <2>1. s.kuis.index \in Nat /\ Len(s.kuis.ids) \in Nat
    BY <1>7, KuisFields
  <2> QED
    BY <1>1, <1>7, <2>1
<1>8. (heap[cache].kuis # None =>
         Blank(heap[cache].kuis, IF \E u \in Turns : Grading(u) THEN 1 ELSE 0))'
  BY <1>3, <1>6, <1>7 DEF Blank, Grading
<1> QED
  BY <1>1, <1>5, <1>8 DEF Grades

(* It then works on the quiz in the cache.                                 *)
LEMMA QuizAtHand ==
  ASSUME Control, Store, Rows, Grades, Tell, Apart, "older" \notin seen,
         NEW th \in Threads, ptr[th] \in Objs, NEW t \in Turns,
         \/ th = Tool(t) /\ Working(t)
         \/ th = Chat(t) /\ at[Chat(t)] = "attach"
  PROVE  /\ ptr[th] = cache /\ \A q \in Soal : graded[q] <= 1
         /\ State(th).kuis # None /\ ~Grading(t) => Blank(State(th).kuis, 0)
         /\ State(th).kuis # None /\ Grading(t) => Blank(State(th).kuis, 1)
<1>1. /\ \A q \in Soal : graded[q] <= 1
      /\ cache # None /\ heap[cache].kuis # None =>
           Blank(heap[cache].kuis, IF \E u \in Turns : Grading(u) THEN 1 ELSE 0)
  BY DEF Grades
<1>2. ptr[th] = cache /\ cache # None
  <2>1. None \notin Objs
    BY NoneIsNoObject
  <2> QED
    BY <2>1 DEF Grades, Tell, Telling
<1>3. ASSUME NEW u \in Turns, Grading(u) PROVE u = t
  <2>1. at[Tool(t)] # "idle" \/ Holds(t)
    BY DEF Holds, Working, Work, Calls
  <2> QED
    BY <1>3, <2>1, OneGrading DEF Apart
<1> QED
  BY <1>1, <1>2, <1>3 DEF State

LEMMA FillGrades ==
  ASSUME Control, Store, Rows, \A e \in Threads : Loaded(e), Grades,
         NEW th \in Threads, Fill(th)
  PROVE  Grades'
<1> SUFFICES ASSUME Apart', "older" \notin seen' PROVE Grades'
  BY DEF Grades
<1>1. /\ cache' = ptr[th] /\ ptr' = ptr /\ at' = [at EXCEPT ![th] = back[th]] /\ at[th] = "fill"
      /\ graded' = graded /\ HeapIs(heap)
  BY DEF Fill, Goto, tables
<1>2. cache = None /\ Apart /\ "older" \notin seen /\ ~Older(State(th))
  BY DEF Fill, Apart
<1>3. ptr[th] \in Objs
  BY <1>1 DEF Loaded
<1>4. heap'[cache'] = State(th)
  BY <1>1, <1>3 DEF HeapIs, State
<1>5. ASSUME NEW u \in Turns PROVE ~Working(u)
  <2>1. None \notin Objs
    BY NoneIsNoObject
  <2> QED
    BY <1>2, <2>1, ThreadFacts DEF Grades, Working, Loaded
<1>6. ASSUME NEW u \in Turns, Working(u)' PROVE ptr'[Tool(u)] = cache'
  BY <1>1, <1>5, <1>6, ThreadFacts DEF Working, Control
<1>7. ASSUME NEW u \in Turns PROVE ~Grading(u)'
  <2>1. back[th] # "advance" /\ at[Tool(u)] # "advance"
    BY <1>5 DEF Control, Returns, Calls, Working, Work
  <2> QED
    BY <1>1, <2>1, ThreadFacts DEF Grading, Control
<1>8. ASSUME State(th).kuis # None, NEW i \in 1 .. Len(State(th).kuis.ids), i > State(th).kuis.index + 0
      PROVE  graded[State(th).kuis.ids[i]] = 0
  <2> DEFINE k == State(th).kuis
  <2>1. k \in Kuis
    BY <1>3, <1>8, StateGood DEF Good
  <2>2. ~\E j \in k.index + 1 .. Len(k.ids) : graded[k.ids[j]] > 0
    BY <1>2, <1>8 DEF Older
  <2> HIDE DEF k
  <2>3. k.index \in Nat /\ Len(k.ids) \in Nat /\ k.ids \in Seq(Soal)
    BY <2>1, KuisFields
  <2>4. i \in 1 .. Len(k.ids) /\ i > k.index
    BY <1>8, <2>3 DEF k
  <2>5. k.ids[i] \in Soal /\ i \in k.index + 1 .. Len(k.ids)
    BY <2>3, <2>4
  <2>6. graded[k.ids[i]] \in Nat /\ ~(graded[k.ids[i]] > 0)
    BY <2>2, <2>5 DEF Rows
  <2>7. graded[k.ids[i]] = 0
    BY <2>6
  <2> QED
    BY <2>7 DEF k
<1>9. (heap[cache].kuis # None =>
         Blank(heap[cache].kuis, IF \E u \in Turns : Grading(u) THEN 1 ELSE 0))'
  BY <1>1, <1>4, <1>7, <1>8 DEF Blank, Grading
<1>10. \A q \in Soal : graded'[q] <= 1
  BY <1>1, <1>2 DEF Grades
<1> QED
  BY <1>6, <1>9, <1>10 DEF Grades

LEMMA SharedGrades ==
  ASSUME Control, Store, Rows, \A e \in Threads : Loaded(e), Grades,
         NEW th \in Threads, SharedStep(th)
  PROVE  Grades'
<1>1. CASE ReadDb(th)
  <2> DEFINE o == CHOOSE o \in Objs \ Used : TRUE
  <2>1. o \in Objs /\ o \notin Used
    BY FreeObject
  <2>2. PICK s : HeapIs([heap EXCEPT ![o] = s])
    BY <1>1 DEF ReadDb
  <2>3. /\ ptr' = [ptr EXCEPT ![th] = o] /\ UNCHANGED <<cache, seen, graded>>
        /\ at' = [at EXCEPT ![th] = "fill"] /\ at[th] = "read"
    BY <1>1 DEF ReadDb, tables
  <2> HIDE DEF o
  <2>4. cache # None => heap'[cache].kuis = heap[cache].kuis
    <3>1. cache # None => cache \in Objs /\ cache # o
      BY <2>1 DEF Store, Used
    <3>2. cache # None => heap'[cache] = [heap EXCEPT ![o] = s][cache]
      BY <2>2, <2>3, <3>1 DEF HeapIs
    <3> QED
      BY <3>1, <3>2 DEF Store
  <2>5. \A t \in Turns : Grading(t) => Grading(t)'
    BY <2>3, ThreadFacts DEF Grading, Control
  <2>6. ASSUME NEW t \in Turns, Working(t)' PROVE Working(t) /\ ptr'[Tool(t)] = ptr[Tool(t)]
    <3>1. th # Tool(t)
      BY <2>3, <2>6 DEF Working, Work, Calls, Control
    <3> QED
      BY <2>3, <2>6, <3>1, ThreadFacts DEF Working, Control, Store
  <2> QED
    BY <2>3, <2>4, <2>5, <2>6, GradesKeep
<1>2. CASE Fill(th)
  BY <1>2, FillGrades
<1>3. CASE WriteDb(th)
  <2>1. /\ at' = [at EXCEPT ![th] = back[th]] /\ HeapIs(heap) /\ UNCHANGED <<seen, cache, graded>>
        /\ \A e \in Threads \ {th} : ptr'[e] = ptr[e]
        /\ at[th] = "write" /\ (back[th] = "idle" \/ ptr'[th] = ptr[th])
    BY <1>3 DEF WriteDb, Goto, Store, tables
  <2> QED
    BY <2>1, GradesOther
<1> QED
  BY <1>1, <1>2, <1>3 DEF SharedStep

LEMMA ChatGrades ==
  ASSUME Control, Store, Rows, \A e \in Threads : Loaded(e), Tell, Grades,
         NEW t \in Turns, Send(t) \/ ChatStep(t)
  PROVE  Grades'
<1>1. Chat(t) \in Threads /\ at[Chat(t)] # "advance" /\ seen \subseteq seen' /\ graded' = graded
  BY ThreadFacts DEF Send, ChatStep, Guard, Tunggu, Submit, SubmitError, Timeout, JobFailed, Retry,
     Answered, Attach, Finish, Fallback, Notes, Control, ChatAt, tables
<1>2. CASE /\ \E l : at' = [at EXCEPT ![Chat(t)] = l]
           /\ HeapIs(heap) \/ heap' = heap
           /\ \A e \in Threads \ {Chat(t)} : ptr'[e] = ptr[e]
           /\ cache' = cache
  BY <1>1, <1>2, GradesOther
<1>3. CASE Send(t) \/ Guard(t) \/ Answered(t)
  <2>1. \E l \in {"guard", "tunggu", "submit", "attach"} : Load(Chat(t), l)
    BY <1>3 DEF Send, Guard, Answered
  <2> QED
    BY <1>2, <2>1 DEF Load, Goto, Call, Store
<1>4. CASE \/ Tunggu(t) \/ Submit(t) \/ Finish(t) \/ Retry(t)
           \/ SubmitError(t) \/ Timeout(t) \/ JobFailed(t)
  <2>1. \E l \in {"done", "wait", "guard"} : Leave(Chat(t), l, heap)
    BY <1>4 DEF Tunggu, Submit, Finish, Retry, SubmitError, Timeout, JobFailed, Fallback
  <2> QED
    BY <1>2, <2>1 DEF Leave, Goto, Store
<1>6. CASE Attach(t) /\ State(Chat(t)).pending
  <2> DEFINE s == [State(Chat(t)) EXCEPT !.pending = FALSE]
  <2>1. ptr[Chat(t)] \in Objs /\ at[Chat(t)] = "attach" /\ ~Grading(t)
    BY <1>1, <1>6 DEF Attach, Loaded, Control, JobOK, Grading
  <2>2. s.kuis = State(Chat(t)).kuis /\ s.kuis \in Kuis \cup {None}
    BY <1>1, <2>1, StateGood DEF Good
  <2>3. Save(Chat(t), s, "finish")
    BY <1>6 DEF Attach
  <2> HIDE DEF s
  <2>4. ASSUME Apart, "older" \notin seen
        PROVE  /\ \A q \in Soal : graded[q] <= 1
               /\ s.kuis # None => Blank(s.kuis, 0)
    BY <1>1, <2>1, <2>2, <2>4, QuizAtHand
  <2>5. s.kuis # None => s.kuis.index \in Nat
    BY <2>2, KuisFields
  <2>6. Apart /\ "older" \notin seen =>
          /\ \A q \in Soal : graded'[q] <= 1
          /\ s.kuis # None => \A i \in 1 .. Len(s.kuis.ids) :
                                i > s.kuis.index => graded'[s.kuis.ids[i]] = 0
    BY <1>1, <2>4, <2>5 DEF Blank
  <2> QED
    BY <1>1, <2>1, <2>2, <2>3, <2>6, GradesSave
<1>7. CASE Attach(t) /\ ~State(Chat(t)).pending
  BY <1>2, <1>7 DEF Attach, Continue, Goto, store
<1> QED
  BY <1>3, <1>4, <1>6, <1>7 DEF ChatStep

(* The row of a graded answer is the first for its question.               *)
LEMMA GradeGrades ==
  ASSUME Control, Store, Rows, \A e \in Threads : Loaded(e), Tell, Grades,
         NEW t \in Turns, GradeJawaban(t)
  PROVE  Grades'
<1> DEFINE th == Tool(t)
<1>1. /\ th \in Threads /\ at[th] = "submit_jawaban" /\ ptr[th] \in Objs
      /\ Good(State(th), siswa) /\ seen' = seen /\ Working(t) /\ ~Grading(t)
  BY ThreadFacts, StateGood DEF GradeJawaban, Loaded, Working, Grading, Work, Calls
<1>2. CASE Leave(th, "idle", heap) /\ graded' = graded
  <2>1. /\ at' = [at EXCEPT ![th] = "idle"] /\ HeapIs(heap) /\ cache' = cache
        /\ \A e \in Threads \ {th} : ptr'[e] = ptr[e]
    BY <1>2 DEF Leave, Goto, Store
  <2> HIDE DEF th
  <2> QED
    BY <1>1, <1>2, <2>1, GradesOther
<1> DEFINE k == State(th).kuis
           q == k.ids[k.index + 1]
<1>3. CASE /\ k # None /\ q \in soals /\ Goto(th, "advance") /\ UNCHANGED <<cache, ptr>>
           /\ \E benar \in BOOLEAN :
                HeapIs(Changed(th, [State(th) EXCEPT !.kuis.skor = IF benar THEN @ + 1 ELSE @]))
           /\ graded' = [graded EXCEPT ![q] = @ + 1] \/ graded' = graded
  <2> SUFFICES ASSUME Apart, "older" \notin seen PROVE Grades'
    BY <1>1 DEF Grades, Apart
  <2>1. k \in Kuis /\ k.skor \in Nat /\ k.index \in Nat
    BY <1>1, <1>3, KuisFields DEF Good
  <2>2. PICK m \in {k.skor, k.skor + 1} : HeapIs(Changed(th, [State(th) EXCEPT !.kuis.skor = m]))
    BY <1>3, <2>1, Graded
  <2>3. m \in Nat
    BY <2>1
  <2> DEFINE s == [State(th) EXCEPT !.kuis.skor = m]
  <2>4. s.kuis = [k EXCEPT !.skor = m]
    BY <1>1 DEF Good
  <2>5. HeapIs(Changed(th, s))
    BY <2>2
  <2>6. ptr[th] = cache /\ (\A r \in Soal : graded[r] <= 1) /\ Blank(k, 0)
    BY <1>1, <1>3, QuizAtHand
  <2> HIDE DEF s, k, q
  <2>7. s.kuis.ids = k.ids /\ s.kuis.index = k.index
    BY <2>1, <2>3, <2>4, ScoredKuis
  <2>8. /\ k.ids \in Seq(Soal) /\ Len(k.ids) \in Nat /\ k.index + 1 \in 1 .. Len(k.ids)
        /\ \A i, j \in 1 .. Len(k.ids) : k.ids[i] = k.ids[j] => i = j
    BY <2>1, KuisFields
  <2>9. q \in Soal /\ graded[q] = 0
    BY <2>1, <2>6, <2>8 DEF Blank, q
  <2>10. \A r \in Soal : graded'[r] <= 1
    BY <1>3, <2>6, <2>9 DEF Rows
  <2>11. ASSUME NEW i \in 1 .. Len(k.ids), i > k.index + 1 PROVE graded'[k.ids[i]] = 0
    <3>1. k.ids[i] # q /\ k.ids[i] \in Soal
      BY <2>1, <2>8, <2>11 DEF q
    <3>2. graded[k.ids[i]] = 0
      BY <2>1, <2>6, <2>8, <2>11 DEF Blank
    <3> QED
      BY <1>3, <2>9, <3>1, <3>2 DEF Rows
  <2>12. heap'[cache] = s
    BY <1>1, <1>3, <2>5, <2>6 DEF HeapIs, Changed, Store
  <2>13. at' = [at EXCEPT ![th] = "advance"] /\ ptr' = ptr /\ cache' = cache
    BY <1>3 DEF Goto
  <2>14. Grading(t)'
    BY <1>1, <2>13 DEF Grading, Control
  <2>15. ASSUME NEW u \in Turns, Working(u)' PROVE ptr'[Tool(u)] = cache'
    <3>1. u = t \/ Working(u)
      BY <2>13, <2>15, ThreadFacts DEF Working, Control
    <3> QED
      BY <2>6, <2>13, <3>1 DEF Grades
  <2>16. \A i \in 1 .. Len(heap'[cache'].kuis.ids) :
           i > heap'[cache'].kuis.index + 1 => graded'[heap'[cache'].kuis.ids[i]] = 0
    BY <2>7, <2>11, <2>12, <2>13
  <2>17. (Blank(heap[cache].kuis, IF \E u \in Turns : Grading(u) THEN 1 ELSE 0))'
    BY <2>14, <2>16 DEF Blank, Grading
  <2> QED
    BY <2>10, <2>15, <2>17 DEF Grades
<1> QED
  BY <1>2, <1>3 DEF GradeJawaban, NoEffect

LEMMA AdvanceGrades ==
  ASSUME Control, Store, Rows, \A e \in Threads : Loaded(e), Tell, Score, Grades,
         NEW t \in Turns, AdvanceKuis(t)
  PROVE  Grades'
<1> SUFFICES ASSUME Apart', "older" \notin seen' PROVE Grades'
  BY DEF Grades
<1> DEFINE th == Tool(t)
           k  == State(th).kuis
           s  == [State(th) EXCEPT !.kuis = Moved(k)]
<1>1. /\ th \in Threads /\ at[th] = "advance" /\ ptr[th] \in Objs /\ Grading(t) /\ Working(t)
      /\ Good(State(th), siswa) /\ seen \subseteq seen' /\ graded' = graded
  BY ThreadFacts, StateGood DEF AdvanceKuis, Notes, Loaded, Work, Calls, Grading, Working, tables
<1>2. Apart /\ "older" \notin seen /\ "orphan" \notin seen
  BY <1>1 DEF Apart
<1>3. k # None /\ k \in Kuis
  BY <1>1, <1>2 DEF Score, Good
<1>4. ptr[th] = cache /\ (\A r \in Soal : graded[r] <= 1) /\ Blank(k, 1)
  BY <1>1, <1>2, <1>3, QuizAtHand
<1>5. s.kuis = Moved(k)
  BY <1>1 DEF Good
<1>6. \/ Save(th, s, "idle")
      \/ Leave(th, "idle", Changed(th, s)) /\ db' = db
  BY <1>3 DEF AdvanceKuis
<1> HIDE DEF s, k
<1>7. s.kuis # None => s.kuis.ids = k.ids /\ s.kuis.index = k.index + 1
  BY <1>3, <1>5, MovedKuis
<1>8. k.index \in Nat /\ Len(k.ids) \in Nat
  BY <1>3, KuisFields
<1>9. s.kuis # None => \A i \in 1 .. Len(s.kuis.ids) : i > s.kuis.index => graded'[s.kuis.ids[i]] = 0
  BY <1>1, <1>4, <1>7, <1>8 DEF Blank
<1>10. s.kuis \in Kuis \cup {None}
  BY <1>3, <1>5, MovedKuis
<1> HIDE DEF th
<1>11. CASE Save(th, s, "idle")
  BY <1>1, <1>4, <1>9, <1>10, <1>11, GradesSave DEF th
<1>12. CASE Leave(th, "idle", Changed(th, s)) /\ db' = db
  <2>1. /\ at' = [at EXCEPT ![th] = "idle"] /\ HeapIs(Changed(th, s)) /\ cache' = cache
        /\ ptr' = [ptr EXCEPT ![th] = None]
    BY <1>12 DEF Leave, Goto
  <2>2. heap'[cache'] = s
    BY <1>1, <1>4, <2>1 DEF HeapIs, Changed, Store
  <2>3. ASSUME NEW u \in Turns PROVE ~Working(u)'
    <3>1. Working(u) => u = t
      BY <1>1, <1>2, OneWorking DEF th
    <3>2. Working(u)' => u # t
      BY <2>1, ThreadFacts DEF Working, Control, th, Work, Calls
    <3>3. u # t => (Working(u)' <=> Working(u))
      BY <2>1, ThreadFacts DEF Working, Control, th
    <3> QED
      BY <3>1, <3>2, <3>3
  <2>4. \A u \in Turns : ~Grading(u)'
    BY <2>3 DEF Working, Grading, Work
  <2>5. s.kuis # None =>
          \A i \in 1 .. Len(s.kuis.ids) : i > s.kuis.index + 0 => graded'[s.kuis.ids[i]] = 0
    BY <1>7, <1>8, <1>9
  <2>6. (heap[cache].kuis # None =>
           Blank(heap[cache].kuis, IF \E u \in Turns : Grading(u) THEN 1 ELSE 0))'
    BY <2>2, <2>4, <2>5 DEF Blank, Grading
  <2> QED
    BY <1>1, <1>4, <2>3, <2>6 DEF Grades
<1> QED
  BY <1>6, <1>11, <1>12

LEMMA ToolGrades ==
  ASSUME Control, Store, Rows, \A e \in Threads : Loaded(e), Tell, Score, Grades,
         NEW t \in Turns, ToolStep(t)
  PROVE  Grades'
<1> DEFINE th == Tool(t)
<1>1. th \in Threads /\ at[th] \in Work /\ ptr[th] \in Objs /\ seen \subseteq seen'
      /\ Good(State(th), siswa) /\ at[th] # "idle"
  BY ThreadFacts, ToolStepGoes, StateGood DEF Loaded, Work, Calls
<1>2. CASE GradeJawaban(t) \/ AdvanceKuis(t)
  BY <1>2, GradeGrades, AdvanceGrades
<1>3. CASE ~GradeJawaban(t) /\ ~AdvanceKuis(t)
  <2>1. at[th] # "advance"
    BY <1>3 DEF ToolStep, SetNamaSiswa, SetKodeKelas, JoinKelas, FindSiswa, CreateSiswa, Joined,
       MulaiKuis, ResetCache, ResetDb
  <2>2. ~Grading(t)
    BY <2>1 DEF Grading
  <2>3. ASSUME Apart, "older" \notin seen, Working(t)
        PROVE  /\ ptr[th] = cache /\ \A q \in Soal : graded[q] <= 1
               /\ State(th).kuis # None => Blank(State(th).kuis, 0)
    BY <1>1, <2>2, <2>3, QuizAtHand
  <2> HIDE DEF th
  <2>4. ASSUME NEW s, NEW l, Save(th, s, l), s.kuis = State(th).kuis, graded' = graded, Working(t)
        PROVE  Grades'
    <3>1. s.kuis \in Kuis \cup {None}
      BY <1>1, <2>4 DEF Good
    <3>2. s.kuis # None => s.kuis.index \in Nat
      BY <3>1, KuisFields
    <3>3. Apart /\ "older" \notin seen =>
            /\ \A q \in Soal : graded'[q] <= 1
            /\ s.kuis # None => \A i \in 1 .. Len(s.kuis.ids) :
                                  i > s.kuis.index => graded'[s.kuis.ids[i]] = 0
      BY <2>3, <2>4, <3>2 DEF Blank
    <3> QED
      BY <1>1, <2>4, <3>1, <3>3, GradesSave DEF th
  <2>5. ASSUME Leave(th, "idle", heap), graded' = graded PROVE Grades'
    <3>1. /\ at' = [at EXCEPT ![th] = "idle"] /\ HeapIs(heap) /\ cache' = cache
          /\ \A e \in Threads \ {th} : ptr'[e] = ptr[e]
      BY <2>5 DEF Leave, Goto, Store
    <3> QED
      BY <1>1, <2>1, <2>5, <3>1, GradesOther
  <2>6. ASSUME NEW l, Continue(th, l), graded' = graded, at[th] # "delete" PROVE Grades'
    <3>1. /\ at' = [at EXCEPT ![th] = l] /\ heap' = heap /\ cache' = cache /\ ptr' = ptr
      BY <2>6 DEF Continue, Goto, store
    <3> QED
      BY <1>1, <2>1, <2>6, <3>1, GradesOther
  <2>7. at[th] # "delete" => Working(t)
    BY <1>1 DEF Working, th
  <2>8. CASE SetKodeKelas(t) \/ SetNamaSiswa(t)
    <3>1. \A v : /\ [State(th) EXCEPT !.kode = v].kuis = State(th).kuis
                 /\ [State(th) EXCEPT !.nama = v].kuis = State(th).kuis
      BY <1>1 DEF Good, th
    <3>2. \/ \E v : \/ Save(th, [State(th) EXCEPT !.kode = v], "join_kelas")
                    \/ Save(th, [State(th) EXCEPT !.nama = v], "idle")
          \/ Leave(th, "idle", heap)
      BY <2>8 DEF SetKodeKelas, SetNamaSiswa, NoEffect, th
    <3>3. graded' = graded /\ at[th] # "delete"
      BY <2>8 DEF SetKodeKelas, SetNamaSiswa, tables, th
    <3> QED
      BY <2>4, <2>5, <2>7, <3>1, <3>2, <3>3
  <2>9. CASE JoinKelas(t)
    <3>1. \/ Leave(th, "idle", heap)
          \/ Save(th, State(th), "idle")
          \/ Continue(th, "find")
      BY <2>9 DEF JoinKelas, NoEffect, th
    <3>2. graded' = graded /\ at[th] # "delete"
      BY <2>9 DEF JoinKelas, tables, th
    <3> QED
      BY <2>4, <2>5, <2>6, <2>7, <3>1, <3>2
  <2>10. CASE FindSiswa(t)
    <3>1. \E l : Continue(th, l) /\ graded' = graded /\ at[th] # "delete"
      BY <2>10 DEF FindSiswa, tables, th
    <3> QED
      BY <2>6, <3>1
  <2>11. CASE CreateSiswa(t)
    <3>1. graded' = graded /\ at[th] # "delete"
      BY <2>11 DEF CreateSiswa, th
    <3> QED
      BY <2>4, <2>6, <2>7, <2>11, <3>1 DEF CreateSiswa, th
  <2>12. CASE Joined(t)
    <3>1. [State(th) EXCEPT !.joined = joining[t], !.nama = joining[t], !.pending = TRUE].kuis
            = State(th).kuis
      BY <1>1 DEF Good, th
    <3>2. graded' = graded /\ at[th] # "delete"
      BY <2>12 DEF Joined, tables, th
    <3> QED
      BY <2>4, <2>7, <2>12, <3>1, <3>2 DEF Joined, th
  <2>13. CASE MulaiKuis(t)
    <3>1. CASE Leave(th, "idle", heap) /\ graded' = graded
      BY <2>5, <3>1
    <3>2. CASE /\ \E ids \in FirstSoal :
                    soals # {} /\ Save(th, [State(th) EXCEPT !.kuis = NewKuis(ids)], "idle")
               /\ graded' = [q \in Soal |-> 0]
      <4>1. PICK ids \in FirstSoal :
              soals # {} /\ Save(th, [State(th) EXCEPT !.kuis = NewKuis(ids)], "idle")
        BY <3>2
      <4> DEFINE s == [State(th) EXCEPT !.kuis = NewKuis(ids)]
      <4>2. s.kuis \in Kuis
        BY <1>1, <4>1, FirstKuis DEF Good
      <4>3. Save(th, s, "idle")
        BY <4>1
      <4> HIDE DEF s
      <4>4. \A i \in 1 .. Len(s.kuis.ids) : s.kuis.ids[i] \in Soal
        BY <4>2, KuisFields
      <4>5. \A q \in Soal : graded'[q] = 0
        BY <3>2
      <4> QED
        BY <1>1, <4>2, <4>3, <4>4, <4>5, GradesSave DEF th
    <3> QED
      BY <2>13, <3>1, <3>2 DEF MulaiKuis, NoEffect, th
  <2>14. CASE ResetCache(t)
    <3>1. /\ cache' = None /\ ptr' = ptr /\ at' = [at EXCEPT ![th] = "delete"]
          /\ graded' = graded /\ seen' = seen
      BY <2>14 DEF ResetCache, Goto, tables, th
    <3>2. ASSUME Apart, NEW u \in Turns PROVE ~Working(u)'
      <4>1. Working(u) => u = t
        BY <1>1, <3>2, OneWorking DEF th, Apart
      <4>2. Working(u)' => u # t
        BY <3>1, ThreadFacts DEF Working, Control, th, Work, Calls
      <4>3. u # t => (Working(u)' <=> Working(u))
        BY <3>1, ThreadFacts DEF Working, Control, th
      <4> QED
        BY <4>1, <4>2, <4>3
    <3> QED
      BY <3>1, <3>2 DEF Grades, Apart
  <2>15. CASE ResetDb(t)
    BY <2>5, <2>15 DEF ResetDb, tables, th
  <2> QED
    BY <1>3, <2>8, <2>9, <2>10, <2>11, <2>12, <2>13, <2>14, <2>15 DEF ToolStep
<1> QED
  BY <1>2, <1>3

LEMMA GradesStep ==
  ASSUME Control, Store, Rows, \A e \in Threads : Loaded(e), Tell, Score, Grades, [Next]_vars
  PROVE  Grades'
<1>1. CASE \E th \in Threads : SharedStep(th)
  BY <1>1, SharedGrades
<1>2. CASE \E t \in Turns : Send(t) \/ ChatStep(t) \/ ToolStep(t)
  BY <1>2, ChatGrades, ToolGrades
<1>3. CASE \E t \in Turns, tool \in Tools : CallTool(t, tool)
  <2>1. PICK t \in Turns, tool \in Tools : CallTool(t, tool)
    BY <1>3
  <2>2. /\ UNCHANGED <<seen, cache, graded>> /\ HeapIs(heap) /\ Tool(t) \in Threads
        /\ \A e \in Threads \ {Tool(t)} : ptr'[e] = ptr[e]
        /\ at[Tool(t)] # "advance"
        /\ \/ at' = [at EXCEPT ![Tool(t)] = "read"]
           \/ at' = [at EXCEPT ![Tool(t)] = tool] /\ ptr'[Tool(t)] = cache
    BY <2>1, ThreadFacts DEF CallTool, Load, Goto, Call, Store, tables
  <2> QED
    BY <2>2, GradesOther
<1>4. CASE \/ \E t \in Turns, how \in {"answered", "limited", "failed"} : Ends(t, how)
           \/ \E q \in Soal : DeleteSoal(q)
           \/ UNCHANGED vars
  <2>1. UNCHANGED <<at, ptr, cache, heap, graded, seen>>
    BY <1>4 DEF Ends, DeleteSoal, vars, thread, store, tables
  <2> QED
    BY <2>1 DEF Grades, Apart, Working, Grading, Blank
<1>5. CASE Restart
  <2>1. /\ \A th \in Threads : at'[th] \in {"idle", "new", "done"}
        /\ cache' = None /\ graded' = graded /\ seen \subseteq seen'
    BY <1>5 DEF Restart, Notes, tables
  <2>2. \A t \in Turns : ~Working(t)'
    BY <2>1, ThreadFacts DEF Working, Work, Calls
  <2> QED
    BY <2>1, <2>2 DEF Grades, Apart
<1> QED
  BY <1>1, <1>2, <1>3, <1>4, <1>5 DEF Next

-----------------------------------------------------------------------------
(* Theorems.                                                               *)

LEMMA AtMostOne ==
  ASSUME NEW n \in [AllNames -> {0, 1}]
  PROVE  n \in [AllNames -> Nat] /\ \A v \in AllNames : n[v] <= 1
<1>1. \A v \in AllNames : n[v] = 0 \/ n[v] = 1
  OBVIOUS
<1>2. \A v \in AllNames : n[v] \in Nat /\ n[v] <= 1
  BY <1>1
<1>3. n = [v \in AllNames |-> n[v]]
  OBVIOUS
<1> QED
  BY <1>2, <1>3

LEMMA GoodRecord ==
  ASSUME NEW n, NEW d \in Records, d.joined # "" => n[d.joined] = 1
  PROVE  Good(d, n)
<1>1. /\ {"nama", "joined", "pending", "kuis"} \subseteq DOMAIN d
      /\ d.nama \in AllNames \cup {""} /\ d.joined \in AllNames \cup {""}
      /\ d.pending \in BOOLEAN /\ d.kuis \in Kuis \cup {None}
  BY DEF Records
<1>2. ASSUME d.joined # "" PROVE n[d.joined] > 0
  <2>1. n[d.joined] = 1
    BY <1>2
  <2> QED
    BY <2>1
<1> QED
  BY <1>1, <1>2 DEF Good

LEMMA InitIInv == AnyInit => IInv
<1>0. SUFFICES ASSUME NEW n, NEW d, n \in [AllNames -> {0, 1}],
                      d = None \/ (d \in Records /\ (d.joined # "" => n[d.joined] = 1) /\ Scored(d)),
                      StartsWith(d, n)
               PROVE  IInv
  BY Zenon DEF AnyInit
<1>1. Control
  BY <1>0, InitControl
<1>2. /\ heap = [o \in Objs |-> Fresh] /\ cache = None /\ db = d /\ siswa = n /\ seen = {}
      /\ ptr = [th \in Threads |-> None] /\ snap = [th \in Threads |-> None]
      /\ at = [th \in Threads |-> IF th[2] = "chat" THEN "new" ELSE "idle"]
      /\ soals = Soal /\ graded = [q \in Soal |-> 0] /\ joining = [t \in Turns |-> ""]
  BY <1>0 DEF StartsWith
<1>3. n \in [AllNames -> Nat] /\ \A v \in AllNames : n[v] <= 1
  BY <1>0, AtMostOne, Zenon
<1>4. Store
  <2>1. d = None \/ Good(d, n)
    BY <1>0, GoodRecord, Zenon
  <2> QED
    BY <1>2, <1>3, <2>1, GoodFresh DEF Store
<1>5. \A th \in Threads : at[th] \in {"new", "idle"}
  BY <1>2
<1>6. (\A th \in Threads : Loaded(th)) /\ Tell /\ Enrol
  <2>1. joining \in [Turns -> AllNames \cup {""}]
    BY <1>2
  <2> QED
    BY <1>2, <1>3, <1>5, <2>1, ThreadFacts DEF Loaded, Tell, Telling, Enrol, Work, Calls
<1>7. Rows /\ Grades
  <2>1. soals = Soal /\ cache = None /\ \A q \in Soal : graded[q] = 0
    BY <1>2
  <2>2. Rows
    BY <1>2 DEF Rows
  <2>3. \A t \in Turns : ~Working(t)
    BY <1>5, ThreadFacts DEF Working, Work, Calls
  <2> QED
    BY <2>1, <2>2, <2>3 DEF Grades
<1>8. Score
  <2>1. db # None => Scored(db)
    BY <1>0, <1>2, Zenon
  <2> QED
    BY <1>2, <1>5, <2>1, ThreadFacts, FreshScored DEF Score, Grading
<1> QED
  BY <1>1, <1>4, <1>6, <1>7, <1>8 DEF IInv

(* The inductive invariant: where threads are, which objects and records   *)
(* they hold, what a join knows between its statements, and which points   *)
(* and rows a quiz has; from any record that an earlier process has left.  *)
THEOREM Invariance == AnySpec => []IInv
<1>1. IInv /\ [Next]_vars => IInv'
  BY ControlStep, StoreStep, LoadedStep, EnrolStep, TellStep, RowsStep, ScoreStep, GradesStep
     DEF IInv
<1> QED
  BY <1>1, InitIInv, PTL DEF AnySpec

(* A session without a record is such a start.                             *)
LEMMA SpecResumes == Spec => AnySpec
<1>1. Init => AnyInit
  BY DEF Init, AnyInit
<1> QED
  BY <1>1, PTL DEF Spec, AnySpec

(* One turn of a session at a time is with the AI service, through retries *)
(* after a rate limit, errors, time-outs and restarts (sessionBusy).       *)
THEOREM OneTurnSafe == AnySpec => []OneTurnAtATime
BY Invariance, PTL DEF IInv, Control

(* A session that says it has joined, in memory or in the database, is of  *)
(* a siswa who is in the table, as long as the kelas is not deleted        *)
(* (tryJoinKelas, saveState).                                              *)
THEOREM JoinedSafe == AnySpec => []JoinedMeansEnrolled
<1>1. IInv => JoinedMeansEnrolled
  BY DEF IInv, Store, Good, Enrolled, JoinedMeansEnrolled
<1> QED
  BY <1>1, Invariance, PTL

(* One conversation enrols one siswa of a name, whatever it is told to     *)
(* call the siswa, forgets and is told again, unless jobs overlap or a     *)
(* look-up fails (JoinSiswa, called by tryJoinKelas).                      *)
THEOREM EnrolledSafe == AnySpec => []EnrolledOnce
<1>1. IInv => EnrolledOnce
  BY DEF IInv, Enrol, EnrolledOnce
<1> QED
  BY <1>1, Invariance, PTL

(* A turn that is answered has told of every join (PendingJoin).           *)
THEOREM ToldSafe == AnySpec => []JoinIsTold
<1>1. IInv => JoinIsTold
  BY DEF IInv, Tell, Telling, JoinIsTold
<1> QED
  BY <1>1, Invariance, PTL

(* What a restart can bring back has no more points than questions passed, *)
(* whatever fails, unless a job has outlived its request (submit_jawaban). *)
THEOREM ScoreSafe == AnySpec => []ScoreWithinPassed
<1>1. IInv => ScoreWithinPassed
  BY DEF IInv, Score, Scored, ScoreWithinPassed
<1> QED
  BY <1>1, Invariance, PTL

(* No tool call finds the quiz that it has graded ended under it, and a    *)
(* question is graded once (submit_jawaban, loadState).                    *)
THEOREM GradedSafe == AnySpec => []GradedOnce
<1>1. IInv => GradedOnce
  BY DEF IInv, Score, Grades, GradedOnce
<1> QED
  BY <1>1, Invariance, PTL
=============================================================================
