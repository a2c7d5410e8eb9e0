---------------------------- MODULE TutorSession ----------------------------
(***************************************************************************)
(* One voice conversation (internal/service/tutor_service.go and           *)
(* tutor_tools.go): the chat requests of a session, the tool calls the AI  *)
(* service makes for it, and the state both work on.                       *)
(*                                                                         *)
(* The state is an object that the cache, and every goroutine that loaded  *)
(* it, points to; the database has a copy.  loadState and saveState take   *)
(* the mutex for each access to the cache but not over the whole, and tool *)
(* calls look at no busy flag, so goroutines interleave between the steps  *)
(* below and may hold different objects for the same session.              *)
(***************************************************************************)

EXTENDS Naturals, Sequences, FiniteSets

CONSTANTS
  Turns,      (* chat requests of the session                                *)
  Tools,      (* the tools that the AI service uses                          *)
  Names,      (* names that the siswa may give                               *)
  Soal,       (* ids of the questions of the class                           *)
  Limit,      (* questions in a quiz, 5 in the code                          *)
  DbFails,    (* whether database calls can fail                             *)
  MaxCalls,   (* bound: tool calls                                           *)
  MaxRestarts,(* bound: restarts                                             *)
  None

ASSUME SessionAssumption ==
  /\ Tools \subseteq {"set_nama_siswa", "set_kode_kelas", "join_kelas", "mulai_kuis",
                  "submit_jawaban", "reset_percakapan"}
  /\ Names \subseteq STRING \ {""}
  /\ IsFiniteSet(Turns)
  /\ IsFiniteSet(Soal) /\ Soal \subseteq Nat
  /\ Limit \in Nat \ {0}
  /\ DbFails \in BOOLEAN
  /\ None \notin Nat \cup [ids : Seq(Nat), index : Nat, skor : Nat]
  /\ MaxCalls \in Nat
  /\ MaxRestarts \in Nat

(* A chat request and the tool calls its AI job makes, one after another.  *)
Threads == Turns \X {"chat", "tool"}
Chat(t) == <<t, "chat">>
Tool(t) == <<t, "tool">>

(* Who gives no name is enrolled as "Siswa".                               *)
AllNames == Names \cup {"Siswa"}

(* At most one object for each thread, one in the cache, one to allocate.  *)
Objs == 1 .. 2 * Cardinality(Turns) + 2

VARIABLES
  heap,       (* the SessionData objects                                     *)
  cache,      (* TutorService.cache: an object or None                       *)
  db,         (* the session's record in session_states, or None             *)
  busy,       (* sessionBusy                                                 *)
  at,         (* where each thread is                                        *)
  back,       (* where it goes after loadState or saveState                  *)
  ptr,        (* its *SessionData, or None                                   *)
  snap,       (* the JSON it is about to write, or None                      *)
  retried,    (* chat requests in their second attempt                       *)
  joining,    (* the name that a tool call of its job is enrolling, or ""    *)
  job,        (* its AI job: none, running, answered, limited, failed        *)
  siswa,      (* rows in siswas, of the class that the code names, by name   *)
  soals,      (* questions that still exist                                  *)
  graded,     (* rows in jawaban_siswas since the quiz began, by question    *)
  calls, restarts,
  seen        (* history: "orphan" if an AI job has outlived its chat        *)
              (* request; "stale" if loadState has put an object in the      *)
              (* cache over another, or one the database no longer agrees    *)
              (* with; "older" if it has put back a quiz with questions      *)
              (* ahead that have rows already; "blind" if a siswa was        *)
              (* enrolled although the look-up failed; "panic" if a tool     *)
              (* call dereferenced a nil Kuis                                *)

store   == <<heap, cache, db>>
thread  == <<at, back, ptr, snap>>
chat    == <<busy, retried>>
tables  == <<siswa, soals, graded>>
bounds  == <<calls, restarts>>
vars    == <<store, thread, chat, joining, job, tables, seen, bounds>>

(* SessionData: what the properties tell apart.  kode is "ada" for a code  *)
(* that names a class; joined (Joined and SiswaID) is the siswa whose row  *)
(* it has, by the name it was found or made under, and "" before.          *)
Fresh == [nama |-> "", kode |-> "none", joined |-> "", pending |-> FALSE, kuis |-> None]

(* The process starts, with record d of the session in the database and n  *)
(* rows of siswa.                                                          *)
StartsWith(d, n) ==
  /\ heap    = [o \in Objs |-> Fresh]
  /\ cache   = None
  /\ db      = d
  /\ busy    = FALSE
  /\ at      = [th \in Threads |-> IF th[2] = "chat" THEN "new" ELSE "idle"]
  /\ back    = [th \in Threads |-> "none"]
  /\ ptr     = [th \in Threads |-> None]
  /\ snap    = [th \in Threads |-> None]
  /\ retried = {}
  /\ joining = [t \in Turns |-> ""]
  /\ job     = [t \in Turns |-> "none"]
  /\ siswa   = n
  /\ soals   = Soal
  /\ graded  = [q \in Soal |-> 0]
  /\ calls   = 0
  /\ restarts = 0
  /\ seen    = {}

Init == StartsWith(None, [n \in AllNames |-> 0])

-----------------------------------------------------------------------------
(* loadState and saveState, called at the end of a step.                   *)

Used == {cache} \cup {ptr[th] : th \in Threads}

(* Objects nobody points to any more are garbage, all alike.               *)
HeapIs(h) ==
  heap' = [o \in Objs |-> IF o = cache' \/ \E th \in Threads : ptr'[th] = o THEN h[o] ELSE Fresh]

State(th) == heap[ptr[th]]
Changed(th, s) == [heap EXCEPT ![ptr[th]] = s]
InDb == IF db = None THEN Fresh ELSE db

Goto(th, l) == at' = [at EXCEPT ![th] = l] /\ back' = [back EXCEPT ![th] = "none"]
Call(th, routine, l) == at' = [at EXCEPT ![th] = routine] /\ back' = [back EXCEPT ![th] = l]

Notes(what, happened) == seen' = IF happened THEN seen \cup {what} ELSE seen

(* On to the next step with the same object.                               *)
Continue(th, l) == Goto(th, l) /\ UNCHANGED <<store, ptr, snap>>

(* The goroutine ends, or waits, and its object is out of scope.           *)
Leave(th, l, h) ==
  /\ Goto(th, l)
  /\ ptr' = [ptr EXCEPT ![th] = None]
  /\ UNCHANGED <<cache, snap>>
  /\ HeapIs(h)

(* The look-up in the cache; without a hit the database is read, outside   *)
(* the mutex.                                                              *)
Load(th, l) ==
  /\ IF cache # None
       THEN ptr' = [ptr EXCEPT ![th] = cache] /\ Goto(th, l)
       ELSE UNCHANGED ptr /\ Call(th, "read", l)
  /\ UNCHANGED <<cache, db, snap>>
  /\ HeapIs(heap)

(* No record, or an error, is an empty state.                              *)
ReadDb(th) ==
  /\ at[th] = "read"
  /\ \E s \in {InDb} \cup (IF DbFails THEN {Fresh} ELSE {}) :
       LET o == CHOOSE o \in Objs \ Used : TRUE
       IN  /\ ptr' = [ptr EXCEPT ![th] = o]
           /\ UNCHANGED <<cache, db, snap>>
           /\ HeapIs([heap EXCEPT ![o] = s])
  /\ at' = [at EXCEPT ![th] = "fill"]
  /\ UNCHANGED <<back, chat, joining, job, tables, seen, bounds>>

(* What s was before a row that is in jawaban_siswas: its quiz has that    *)
(* question ahead.                                                         *)
Older(s) ==
  /\ s.kuis # None
  /\ \E i \in s.kuis.index + 1 .. Len(s.kuis.ids) : graded[s.kuis.ids[i]] > 0

Fill(th) ==
  /\ at[th] = "fill"
  /\ cache' = ptr[th]
  /\ UNCHANGED <<db, ptr, snap>>
  /\ HeapIs(heap)
  /\ Goto(th, back[th])
  /\ seen' = seen \cup (IF cache # None \/ State(th) # InDb THEN {"stale"} ELSE {})
                  \cup (IF Older(State(th)) THEN {"older"} ELSE {})
  /\ UNCHANGED <<chat, joining, job, tables, bounds>>

(* The object, with its new contents s, is put in the cache and turned     *)
(* into JSON; the row is written next, outside the mutex.                  *)
Save(th, s, l) ==
  /\ cache' = ptr[th]
  /\ UNCHANGED <<db, ptr>>
  /\ HeapIs(Changed(th, s))
  /\ snap' = [snap EXCEPT ![th] = s]
  /\ Call(th, "write", l)

(* An error is logged and nothing else.                                    *)
WriteDb(th) ==
  /\ at[th] = "write"
  /\ db' = snap[th] \/ (DbFails /\ db' = db)
  /\ snap' = [snap EXCEPT ![th] = None]
  /\ Goto(th, back[th])
  /\ ptr' = IF back[th] = "idle" THEN [ptr EXCEPT ![th] = None] ELSE ptr
  /\ UNCHANGED cache
  /\ HeapIs(heap)
  /\ UNCHANGED <<chat, joining, job, tables, seen, bounds>>

-----------------------------------------------------------------------------
(* ProcessTutor and processTutorOnce.                                      *)

(* The state is loaded to record the activity of a siswa who has joined.   *)
Send(t) ==
  /\ at[Chat(t)] = "new"
  /\ Load(Chat(t), "guard")
  /\ UNCHANGED <<chat, joining, job, tables, seen, bounds>>

(* Mutant: sessionBusy is not looked at.                                   *)
Guard_Unchecked(t) ==
  /\ at[Chat(t)] = "guard"
  /\ busy' = TRUE
  /\ Load(Chat(t), "submit")
  /\ UNCHANGED <<retried, joining, job, tables, seen, bounds>>

(* A request that finds the session busy says "Tunggu sebentar ya" and     *)
(* leaves the flag alone; the other registers its job and reads the state. *)
Guard(t) ==
  /\ at[Chat(t)] = "guard"
  /\ busy' = TRUE
  /\ Load(Chat(t), IF busy THEN "tunggu" ELSE "submit")
  /\ UNCHANGED <<retried, joining, job, tables, seen, bounds>>

Tunggu(t) ==
  /\ at[Chat(t)] = "tunggu"
  /\ Leave(Chat(t), "done", heap)
  /\ retried' = retried \ {t}
  /\ UNCHANGED <<db, busy, joining, job, tables, seen, bounds>>

Submit(t) ==
  /\ at[Chat(t)] = "submit"
  /\ Leave(Chat(t), "wait", heap)
  /\ job' = [job EXCEPT ![t] = "running"]
  /\ UNCHANGED <<db, chat, joining, tables, seen, bounds>>

(* The request ends without an answer and the handler says Momo is busy.   *)
(* Its AI job, if one is running, is not told and goes on.                 *)
Fallback(t, j) ==
  /\ Leave(Chat(t), "done", heap)
  /\ busy' = FALSE
  /\ retried' = retried \ {t}
  /\ job' = [job EXCEPT ![t] = j]
  /\ Notes("orphan", j = "running")
  /\ UNCHANGED <<db, joining, tables, bounds>>

(* The submission fails; the AI service may have received it all the same. *)
(* If it was turned down for its rate, Retry is what comes first.          *)
SubmitError(t) ==
  /\ at[Chat(t)] = "submit"
  /\ \E j \in {"none", "running"} : Fallback(t, j)

(* Mutant: a wait with no deadline.                                        *)
Timeout_Never(t) ==
  /\ at[Chat(t)] = "wait"
  /\ job[t] # "running"
  /\ Fallback(t, "none")

(* 90 seconds, even if a callback has just come.                           *)
Timeout(t) ==
  /\ at[Chat(t)] = "wait"
  /\ Fallback(t, IF job[t] = "running" THEN "running" ELSE "none")

JobFailed(t) ==
  /\ at[Chat(t)] = "wait"
  /\ job[t] = "failed" \/ (job[t] = "limited" /\ t \in retried)
  /\ Fallback(t, "none")

(* A rate limit, of the submission or of the AI service's own provider, is *)
(* tried once more; the flag is free for the 3 seconds.                    *)
Retry(t) ==
  /\ at[Chat(t)] = "submit" \/ (at[Chat(t)] = "wait" /\ job[t] = "limited")
  /\ t \notin retried
  /\ retried' = retried \cup {t}
  /\ busy' = FALSE
  /\ job' = [job EXCEPT ![t] = "none"]
  /\ Leave(Chat(t), "guard", heap)
  /\ UNCHANGED <<db, joining, tables, seen, bounds>>

Answered(t) ==
  /\ at[Chat(t)] = "wait"
  /\ job[t] = "answered"
  /\ job' = [job EXCEPT ![t] = "none"]
  /\ Load(Chat(t), "attach")
  /\ UNCHANGED <<chat, joining, tables, seen, bounds>>

(* Mutant: PendingJoin is attached and stays.                              *)
Attach_Keeps(t) ==
  /\ at[Chat(t)] = "attach"
  /\ Continue(Chat(t), "finish")
  /\ UNCHANGED <<chat, joining, job, tables, seen, bounds>>

(* A join made in this turn, or in one that went unanswered, is attached   *)
(* to the reply and cleared.                                               *)
Attach(t) ==
  /\ at[Chat(t)] = "attach"
  /\ IF State(Chat(t)).pending
       THEN Save(Chat(t), [State(Chat(t)) EXCEPT !.pending = FALSE], "finish")
       ELSE Continue(Chat(t), "finish")
  /\ UNCHANGED <<chat, joining, job, tables, seen, bounds>>

Finish(t) ==
  /\ at[Chat(t)] = "finish"
  /\ Leave(Chat(t), "done", heap)
  /\ busy' = FALSE
  /\ retried' = retried \ {t}
  /\ UNCHANGED <<db, joining, job, tables, seen, bounds>>

-----------------------------------------------------------------------------
(* The AI service: its job makes tool calls and then ends with a callback, *)
(* which nobody waits for when the chat request is over.                   *)

Ends(t, how) ==
  /\ job[t] = "running"
  /\ at[Tool(t)] = "idle"
  /\ job' = [job EXCEPT ![t] = IF at[Chat(t)] = "wait" THEN how ELSE "none"]
  /\ UNCHANGED <<store, thread, chat, joining, tables, seen, bounds>>

CallTool(t, tool) ==
  /\ job[t] = "running"
  /\ at[Tool(t)] = "idle"
  /\ calls < MaxCalls
  /\ calls' = calls + 1
  /\ Load(Tool(t), tool)
  /\ UNCHANGED <<chat, joining, job, tables, seen, restarts>>

-----------------------------------------------------------------------------
(* executeTool.  Arguments that cannot be used end a call without effect.  *)

NoEffect(t) == Leave(Tool(t), "idle", heap) /\ UNCHANGED db

SetNamaSiswa(t) ==
  /\ at[Tool(t)] = "set_nama_siswa"
  /\ \/ \E n \in Names : Save(Tool(t), [State(Tool(t)) EXCEPT !.nama = n], "idle")
     \/ NoEffect(t)
  /\ UNCHANGED <<chat, joining, job, tables, seen, bounds>>

(* The code is stored, then the siswa is enrolled unless already joined.   *)
SetKodeKelas(t) ==
  /\ at[Tool(t)] = "set_kode_kelas"
  /\ \/ \E k \in {"ada", "salah"} :
          Save(Tool(t), [State(Tool(t)) EXCEPT !.kode = k], "join_kelas")
     \/ NoEffect(t)
  /\ UNCHANGED <<chat, joining, job, tables, seen, bounds>>

(* tryJoinKelas: a code of no class is saved as the one that failed.  The  *)
(* name is read here, whatever becomes of the state before it is used.     *)
JoinKelas(t) ==
  LET th   == Tool(t)
      name == IF State(th).nama = "" THEN "Siswa" ELSE State(th).nama
  IN
  /\ at[th] = "join_kelas"
  /\ \/ /\ State(th).joined # "" \/ State(th).kode = "none"
        /\ NoEffect(t) /\ UNCHANGED joining
     \/ /\ State(th).joined = "" /\ State(th).kode # "none"
        /\ State(th).kode = "salah" \/ DbFails
        /\ Save(th, State(th), "idle") /\ UNCHANGED joining
     \/ /\ State(th).joined = "" /\ State(th).kode = "ada"
        /\ Continue(th, "find")
        /\ joining' = [joining EXCEPT ![t] = name]
  /\ UNCHANGED <<chat, job, tables, seen, bounds>>

(* Mutant: a siswa is enrolled without a look at who already is.           *)
FindSiswa_Never(t) ==
  /\ at[Tool(t)] = "find"
  /\ Continue(Tool(t), "create")
  /\ UNCHANGED <<chat, joining, job, tables, seen, bounds>>

(* JoinSiswa: a siswa of that name in the class is taken to be this one; a *)
(* look-up that fails is taken to have found nobody.                       *)
FindSiswa(t) ==
  LET there == siswa[joining[t]] > 0 IN
  /\ at[Tool(t)] = "find"
  /\ \E found \in {there} \cup (IF DbFails THEN {FALSE} ELSE {}) :
       /\ Continue(Tool(t), IF found THEN "joined" ELSE "create")
       /\ Notes("blind", there /\ ~found)
  /\ UNCHANGED <<chat, joining, job, tables, bounds>>

AddSiswa(name) == siswa' = [siswa EXCEPT ![name] = @ + 1]

(* Mutant: the error of Create is not looked at.                           *)
CreateSiswa_ErrorIgnored(t) ==
  /\ at[Tool(t)] = "create"
  /\ Continue(Tool(t), "joined")
  /\ AddSiswa(joining[t]) \/ (DbFails /\ UNCHANGED siswa)
  /\ UNCHANGED <<chat, joining, job, soals, graded, seen, bounds>>

CreateSiswa(t) ==
  /\ at[Tool(t)] = "create"
  /\ \/ AddSiswa(joining[t]) /\ Continue(Tool(t), "joined") /\ UNCHANGED joining
     \/ /\ DbFails
        /\ Save(Tool(t), State(Tool(t)), "idle")
        /\ joining' = [joining EXCEPT ![t] = ""]
        /\ UNCHANGED siswa
  /\ UNCHANGED <<chat, job, soals, graded, seen, bounds>>

(* The state takes the siswa's id, and the name of the row.                *)
Joined(t) ==
  /\ at[Tool(t)] = "joined"
  /\ Save(Tool(t),
          [State(Tool(t)) EXCEPT !.joined = joining[t], !.nama = joining[t], !.pending = TRUE],
          "idle")
  /\ joining' = [joining EXCEPT ![t] = ""]
  /\ UNCHANGED <<chat, job, tables, seen, bounds>>

(* The first questions of the class, by id: what is smaller comes before.  *)
FirstSoal ==
  LET n == IF Cardinality(soals) < Limit THEN Cardinality(soals) ELSE Limit
  IN  {ids \in [1 .. n -> soals] :
         \A i \in 1 .. n, q \in soals : q < ids[i] <=> \E j \in 1 .. i - 1 : ids[j] = q}

NewKuis(ids) == [ids |-> ids, index |-> 0, skor |-> 0]

(* Without having joined, or without questions of the kind, nothing begins.*)
MulaiKuis(t) ==
  LET th == Tool(t) IN
  /\ at[th] = "mulai_kuis"
  /\ \/ /\ State(th).joined # "" /\ soals # {}
        /\ \E ids \in FirstSoal : Save(th, [State(th) EXCEPT !.kuis = NewKuis(ids)], "idle")
        /\ graded' = [q \in Soal |-> 0]
     \/ NoEffect(t) /\ UNCHANGED graded
  /\ UNCHANGED <<chat, joining, job, siswa, soals, seen, bounds>>

(* submit_jawaban, first half: the answer to the active question is graded *)
(* and its row inserted; an error of the insert is ignored.  An answer that*)
(* cannot be read as one of a to d is not, nor one to no question.         *)
GradeJawaban(t) ==
  LET th == Tool(t)
      k  == State(th).kuis
      q  == k.ids[k.index + 1]
  IN
  /\ at[th] = "submit_jawaban"
  /\ \/ /\ k # None /\ q \in soals
        /\ Goto(th, "advance")
        /\ UNCHANGED <<cache, ptr, snap>>
        /\ \E benar \in BOOLEAN :
             HeapIs(Changed(th, [State(th) EXCEPT !.kuis.skor = IF benar THEN @ + 1 ELSE @]))
        /\ graded' = [graded EXCEPT ![q] = @ + 1] \/ (DbFails /\ UNCHANGED graded)
        /\ UNCHANGED db
     \/ NoEffect(t) /\ UNCHANGED graded
  /\ UNCHANGED <<chat, joining, job, siswa, soals, seen, bounds>>

AtLast(k)     == k.index + 1 >= Len(k.ids)
NextExists(k) == k.ids[k.index + 2] \in soals
Moved(k)      == IF AtLast(k) THEN None ELSE [k EXCEPT !.index = @ + 1]

(* Mutant: the index is left alone when there is no next question.         *)
AdvanceKuis_StaysOnMissing(t) ==
  LET th == Tool(t)
      k  == State(th).kuis
  IN
  /\ at[th] = "advance"
  /\ k # None
  /\ IF AtLast(k) \/ NextExists(k)
       THEN Save(th, [State(th) EXCEPT !.kuis = Moved(k)], "idle")
       ELSE NoEffect(t)
  /\ UNCHANGED <<chat, joining, job, tables, seen, bounds>>

(* Mutant: the state is saved with the points and the old index.           *)
AdvanceKuis_SavesEarly(t) ==
  LET th == Tool(t)
      k  == State(th).kuis
  IN
  /\ at[th] = "advance"
  /\ k # None
  /\ IF db # State(th)
       THEN Save(th, State(th), "advance")
       ELSE Save(th, [State(th) EXCEPT !.kuis = Moved(k)], "idle")
  /\ UNCHANGED <<chat, joining, job, tables, seen, bounds>>

(* Second half: the next question, or the end of the quiz.  A next question*)
(* that is gone, or cannot be read, is an error, returned after the index  *)
(* has moved and before the state is saved.  The quiz may have been ended  *)
(* by another call: nil.                                                   *)
AdvanceKuis(t) ==
  LET th == Tool(t)
      k  == State(th).kuis
      s  == [State(th) EXCEPT !.kuis = Moved(k)]
  IN
  /\ at[th] = "advance"
  /\ \/ k = None /\ NoEffect(t)
     \/ k # None /\ (~AtLast(k) => NextExists(k)) /\ Save(th, s, "idle")
     \/ /\ k # None /\ ~AtLast(k) /\ (DbFails \/ ~NextExists(k))
        /\ Leave(th, "idle", Changed(th, s)) /\ UNCHANGED db
  /\ Notes("panic", k = None)
  /\ UNCHANGED <<chat, joining, job, tables, bounds>>

(* deleteState: the cache, then the row; an error is ignored.              *)
ResetCache(t) ==
  /\ at[Tool(t)] = "reset_percakapan"
  /\ Goto(Tool(t), "delete")
  /\ cache' = None
  /\ UNCHANGED <<db, ptr, snap>>
  /\ HeapIs(heap)
  /\ UNCHANGED <<chat, joining, job, tables, seen, bounds>>

ResetDb(t) ==
  /\ at[Tool(t)] = "delete"
  /\ db' = None \/ (DbFails /\ db' = db)
  /\ Leave(Tool(t), "idle", heap)
  /\ UNCHANGED <<chat, joining, job, tables, seen, bounds>>

-----------------------------------------------------------------------------
(* A guru deletes a question.                                              *)
DeleteSoal(q) ==
  /\ q \in soals
  /\ soals' = soals \ {q}
  /\ UNCHANGED <<store, thread, chat, joining, job, siswa, graded, seen, bounds>>

(* The process restarts.  AI jobs run on; requests in flight are aborted.  *)
Restart ==
  /\ restarts < MaxRestarts
  /\ restarts' = restarts + 1
  /\ cache'   = None
  /\ heap'    = [o \in Objs |-> Fresh]
  /\ busy'    = FALSE
  /\ at'      = [th \in Threads |-> IF th[2] = "tool" THEN "idle"
                                    ELSE IF at[th] = "new" THEN "new" ELSE "done"]
  /\ back'    = [th \in Threads |-> "none"]
  /\ ptr'     = [th \in Threads |-> None]
  /\ snap'    = [th \in Threads |-> None]
  /\ retried' = {}
  /\ joining' = [t \in Turns |-> ""]
  /\ Notes("orphan", \E t \in Turns : job[t] = "running")
  /\ UNCHANGED <<db, job, tables, calls>>

-----------------------------------------------------------------------------
SharedStep(th) == ReadDb(th) \/ Fill(th) \/ WriteDb(th)

ChatStep(t) ==
  \/ Guard(t) \/ Tunggu(t) \/ Submit(t) \/ SubmitError(t) \/ Timeout(t)
  \/ JobFailed(t) \/ Retry(t) \/ Answered(t) \/ Attach(t) \/ Finish(t)

ToolStep(t) ==
  \/ SetNamaSiswa(t) \/ SetKodeKelas(t) \/ JoinKelas(t) \/ FindSiswa(t) \/ CreateSiswa(t)
  \/ Joined(t)
  \/ MulaiKuis(t) \/ GradeJawaban(t) \/ AdvanceKuis(t) \/ ResetCache(t) \/ ResetDb(t)

Next ==
  \/ \E th \in Threads : SharedStep(th)
  \/ \E t \in Turns : Send(t) \/ ChatStep(t) \/ ToolStep(t)
  \/ \E t \in Turns, how \in {"answered", "limited", "failed"} : Ends(t, how)
  \/ \E t \in Turns, tool \in Tools : CallTool(t, tool)
  \/ \E q \in Soal : DeleteSoal(q)
  \/ Restart

(* Every goroutine of a chat request runs on, and WaitSync times out.  The *)
(* AI service owes nothing.                                                *)
Fairness ==
  \A t \in Turns : WF_vars(SharedStep(Chat(t))) /\ WF_vars(ChatStep(t))

Spec     == Init /\ [][Next]_vars
FairSpec == Spec /\ Fairness

-----------------------------------------------------------------------------
(* Properties.                                                             *)

(* A request of the session between the busy guard and its release.        *)
Holds(t) ==
  \/ at[Chat(t)] \in {"submit", "wait", "attach", "finish"}
  \/ back[Chat(t)] \in {"submit", "attach", "finish"}

(* However chat requests of a session overlap, and retry after a rate      *)
(* limit, one at a time is with the AI service; the others are told to     *)
(* wait (sessionBusy).                                                     *)
OneTurnAtATime ==
  /\ \A t, u \in Turns : Holds(t) /\ Holds(u) => t = u
  /\ busy => \E t \in Turns : Holds(t)

(* A session that says it has joined, in memory or in the database, has    *)
(* the id of a row that was made, through crashes, failed inserts and      *)
(* overlapping tool calls: while the kelas stays, for its deletion takes   *)
(* the rows of siswas and leaves sessions as they are.                     *)
Enrolled(s) == s.joined # "" => siswa[s.joined] > 0

JoinedMeansEnrolled ==
  /\ db # None => Enrolled(db)
  /\ \A o \in Objs : Enrolled(heap[o])

(* A conversation enrols a siswa once, however often it joins again after  *)
(* a reset, a lost state or a restart: unless jobs overlap or look-ups     *)
(* fail, there is one row for a name.  What is lost with the state is the  *)
(* name: then the next join is of another siswa, called "Siswa".           *)
EnrolledOnce == {"orphan", "blind"} \cap seen = {} => \A n \in AllNames : siswa[n] <= 1

(* Nobody else has been at work on the session with an object of its own.  *)
Apart == {"orphan", "stale"} \cap seen = {}

(* A turn that is answered has told the siswa of any join that was made:   *)
(* no join waits in memory for a later turn.                               *)
JoinIsTold ==
  Apart /\ cache # None =>
    \A t \in Turns : at[Chat(t)] = "finish" => ~heap[cache].pending

(* Whatever fails, and whatever state is put back: as long as no job has   *)
(* outlived its request, what a restart can bring back never has more      *)
(* points than questions passed, so a final score is at most the number of *)
(* questions.                                                              *)
ScoreWithinPassed ==
  "orphan" \notin seen /\ db # None /\ db.kuis # None => db.kuis.skor <= db.kuis.index

(* Calls do not meet in a quiz: unless jobs overlap, no call finds the     *)
(* quiz that it has just graded ended under it, and a question is graded   *)
(* once, in the table too, unless a lost state or an older one comes back. *)
GradedOnce ==
  /\ "orphan" \notin seen => "panic" \notin seen
  /\ Apart /\ "older" \notin seen => \A q \in Soal : graded[q] <= 1

(* Every chat request is answered, and the session never stays locked.     *)
(* Each is sent once, so "again and again none is under way" says that     *)
(* none is for ever.                                                       *)
TurnsEnd == []<>(~busy /\ \A t \in Turns : at[Chat(t)] \in {"new", "done"})

(* Claims of the repository the code does not keep.                        *)

(* API_REFERENCE.md:912: with its session_id a conversation goes on from   *)
(* its memory.  Having joined is never undone by another load or save.     *)
MemoryGoesOn ==
  [][cache # None /\ heap[cache].joined # "" /\ cache' # None => heap'[cache'].joined # ""]_vars
=============================================================================
