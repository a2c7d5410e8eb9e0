# Specification of momo-BE

momo-BE is the server of a learning platform for blind students: a Go HTTP
service with a PostgreSQL database, an event stream to browsers, and an AI
service that it talks to through jobs and callbacks.  This directory models
the server in TLA+, checks the models with TLC on small instances, and proves
the most important properties for instances of every size with TLAPS.

Each module names the code it is about in its head comment; `PROJECT.json`
maps each definition to the lines it translates, lists the runs, the theorems
and the hazards, and gives for each property a mutant: a plausible bug under
which the property fails.

## The system

| component | state | operations |
|---|---|---|
| job registry (`internal/job/registry.go`) | map of jobs behind an RWMutex | Register, WaitSync (polls every 100 ms), Complete, Fail, Get, Cleanup |
| callback endpoint (`aicallback_handler.go`) | none | resolves a job, emits `tutor-reply` |
| event hub (`internal/sse/hub.go`, `stream_handler.go`) | clients, a queue of 100, a channel of 50 for each client | Register, Unregister, Broadcast, BroadcastToSiswaByID |
| voice session (`tutor_service.go`, `tutor_tools.go`) | SessionData in a cache and as JSON in `session_states`; a busy flag | ProcessTutor, the tool calls of the AI service |
| upload (`materi_service.go`, `soal_service.go`, `pkg/textutil`) | locals, a channel of results, `materis`, `soals` | a PDF is cut, each chunk is a job in a goroutine, results are saved in one batch |
| answers and grades (`jawaban_siswa_service.go`, `kuis_service.go`, `nilai_repository.go`) | `jawaban_siswas` | SubmitJawaban, SimpanJawaban, the recap |
| progress (`progress_repository.go`, `progress_service.go`) | `siswa_progresses`, with a JSON list | Touch, SelesaikanMateri, the recap |
| kelas, modul, materi, soal (`*_service.go`, `*_repository.go`) | the tables, `kelas_moduls` | create, update, delete, assign, remove |
| siswa (`siswa_service.go`, `siswa_belajar.go`) | `siswas`; the tokens siswa hold | DaftarkanSiswa, JoinSiswa, the pages of a siswa |
| accounts (`guru_service.go`) | `gurus`; the tokens guru hold | register, login, profile |
| rate limiter (`middleware/rate_limiter.go`) | a map from addresses to token buckets behind an RWMutex | GetLimiter, Allow, the clean-up goroutine |

How they interact.  Uploads, answers and chat turns all register a job, submit
it to the AI service over HTTP and wait in WaitSync; the AI service calls back
at any time, or never, or twice.  While the job of a chat turn runs, the AI
service calls tools of the session over HTTP, in handlers of their own.  A
callback of a tutor job emits an event through the hub.  Tools enrol siswa,
store answers and mark progress in the tables which the guru changes and
deletes through the API at the same time.  Every request comes through the
middleware (limiter, then token), and the requests of accounts, kelas and siswa
meet only in the tables.  The registry, the cache, the busy flags, the limiters
and the hub are lost in a restart; the database and the tokens are not.

What is hard about it: goroutines that share a job or a session beyond the lock
that protects the map it is in; requests that look something up, wait for
seconds and then write; requests that save a row as they read it; tokens that
outlive what they name; callbacks that are late or repeated; statements that
fail one by one; restarts with AI jobs still out; slow clients.  The list with
a line for each is under `hazards` in `PROJECT.json`.

## Modules

| module | models | checked by | proved in |
|---|---|---|---|
| `JobRegistry` | registry, callback handler, the requests that wait | `registry`, `callback_duplicate` | `JobRegistryProofs` |
| `JobPromise` | what the registry promises, abstractly | refined in `registry` | `JobRegistryProofs` |
| `SseHub`, `MCSseHub` | hub and streams | `hub` | `SseHubProofs` |
| `TutorSession`, `MCTutorSession` | one voice session | `tutor_join`, `tutor_kuis`, `tutor_memory` | `TutorSessionProofs` |
| `TextChunk` | SmartChunkText | `upload` (as part of `Upload`) | `UploadProofs` |
| `Upload`, `MCUpload` | upload, extends `TextChunk` | `upload` | `UploadProofs` |
| `UploadPromise` | what an upload promises, abstractly | refined in `upload` | `UploadProofs` |
| `Classroom` | tables of one kelas, and its deletion | `classroom`, `exam_once` | `ClassroomProofs` |
| `Curriculum`, `MCCurriculum` | what guru create, link, update and delete | `curriculum` | `CurriculumProofs` |
| `Access`, `MCAccess` | accounts, codes, joining, the pages of a siswa | `access` | `AccessProofs` |
| `RateLimiter` | the limiter in front of an endpoint | `rate_limiter` | `RateLimiterProofs` |

The modules compose where components meet by promise rather than by product:
`JobPromise` is what `Upload`, `TutorSession` and `Classroom` assume of a job
(a verdict once, or none, and an end by the deadline), and `JobRegistry` is
shown to implement it.  `Curriculum` deletes a kelas in one step, which
`Classroom` justifies statement by statement (`CascadeIsAtomic`), and so does
`Access`, which leaves the races of assigning and removing a modul to
`Curriculum`.  JoinSiswa is in three modules for three questions: `Access` has
it beside everybody else's requests, `TutorSession` inside a conversation that
loses its memory, `Classroom` beside the deletion of the kelas.

### JobRegistry

One job belongs to one request (`GenerateID` does not repeat ids).  A request
goes through `Register`, `Submit`, then `Ack`, `SubmitError` or `Direct`; a
waiting one through `Poll` (the map, under RLock), `CheckStatus` (the field,
with no lock), `Timeout` and `UseJob`.  A callback is `Refuse` (404),
`Duplicate` or `Accept`, `Store`, `Release`, and for tutor jobs `Emit`.
Between `Accept` and `Release` the fields of the job change store by store, as
goroutines that read them unlocked can see it.  A string or slice of two words
can be seen half written, which is the value `"torn"`; a reader that parses a
torn Hasil may crash (`"panic"`), and `AnswerIsTheVerdict` shows what can and
cannot come of it.  Time is `Age` (an hour passes for a processed job), used by
`Cleanup`; `Age` needs the request to have ended, for the longest wait is 150
seconds.  `Restart` loses the registry but not what was asked of the AI service.

`JobPromise` has no lock, no messages and no polling: a job is opened, resolved
at most once, its requester told the verdict or nothing, once.  The refinement
mapping (`Outcome`, `Told`) takes a job to be resolved when its callback has
passed the Processed check.

### SseHub

`run` is `Register`, `Unregister`, `Take`, `Deliver` for each client and
`Delivered`; a publisher is `Speak`, then `Broadcast` (waits while the queue is
full) or, for a reply to one siswa, `DirectStart`, `DirectSend` for each client
and `DirectEnd` under RLock.  The order in which a walk visits clients is any,
as Go's maps have it.  `Read` and `Leave` are the handler of a connection, which
may stop reading at any time.  With a queue of one and three events to queue, a
publisher is blocked while run is at work on another's event, which is what
`SpeakersDone` is about.

### TutorSession

SessionData is an object in a heap; the cache and each goroutine hold pointers
to it, and the database a copy, so two goroutines can be at work on two objects
of one session.  `loadState` on a miss is `ReadDb` and `Fill`; `saveState` is
one step with the cache and the JSON, then `WriteDb`.  A look-up that hits is
merged with the step before it: nothing happens between them that others
could see.  A chat request is `Send`, `Guard`, `Submit`, a wait with
`Timeout`, `JobFailed`, `Retry` or `Answered`, `Attach` and `Finish`.  The tools
are steps of a second thread for each request, the AI job, which goes on when
its chat request has timed out.  Database calls fail if `DbFails`,
those of a quiz too: its next question may exist and not be read.  A submission
that the AI service turns down for its rate is tried again, like a job that
reports a rate limit.

The record has the name the siswa gave (`nama`) and, once joined, the name of the
row it has (`joined`); `siswa` counts the rows of the class by name.  `JoinKelas`
reads the name, `joining` keeps it through `FindSiswa` and `CreateSiswa`, and
`Joined` puts it into whatever the state is by then.  A reset or a lost state
takes the name with it, and the next join looks for, and makes, a siswa called
"Siswa": a second row for the same person.  `EnrolledOnce` therefore speaks of
names: a conversation makes one row for each it has joined under.  The run
begins where a name has been said before (`MCJoinSpec`), and meets this case when
the state is lost between two turns.

Some properties hold only while certain things have not happened, and say so by
`seen`: `"orphan"` (an AI job has outlived its request), `"stale"` (loadState has
put an object in the cache over another, or one the database no longer agrees
with), `"older"` (it has put back a quiz that will ask again what has a row
already), `"blind"` (a failed look-up enrolled somebody), `"panic"` (a nil quiz
was dereferenced).  `tutor_memory` shows that the second is within reach of
ordinary use, and a crash between the row of an answer and the save of the
session is enough for the third.  Each property excuses only what it must:
`ScoreWithinPassed` the orphan alone, so it holds of every older state that comes
back; `GradedOnce` the orphan for its first half, that no call meets a quiz which
another has ended, and all three for its second, that a question has one row.

### TextChunk and Upload

A text is a sequence of bytes, a cut the number of bytes before it, one step of
`TextChunk` a turn of the loop.  The cut is beyond the start of the chunk, so
that the fallbacks of the code for a loop that does not advance are unreachable:
that is part of what `ChunksAreTheText` says and what is proved.  In `Upload`
each chunk becomes a job (`Spawn`), which answers with some items or fails
(`Respond`), in any order; `Collect` appends, `Save` numbers and inserts the
batch or fails.  `UploadPromise` has none of this: things are found, stored
whole and numbered in one step, and only then is the guru told; or the upload
ends otherwise and nothing of it is in the table.  `Status` and `Given` are the
mapping: an upload is open until its batch is saved, and has found what the
chunks that answered gave, collected or not.  `CountRows` and `InsertManual` are CreateManual.  Uploads share
only the table, to which each adds by one INSERT, so that the run has one
upload, beside a materi made by hand.  Update of a materi is in `Curriculum`.

### Classroom

One statement of SQL is one step under READ COMMITTED.  `Check`, `Evaluate` and
`Store` are SubmitJawaban; `SimpanJawaban`, `Touch`, `ReadProgress` and
`SelesaikanMateri` are the writes of a voice session.  The deletion is
`DeleteJawaban`, `DeleteProgress`, `DeleteSiswa`, `DeleteLinks` and `Commit`;
others see its effects only after `Commit`, wait for the rows it has locked, and
meet the foreign keys of `siswas` and `kelas_moduls`.  `Rollback` is a failed
statement.  A row's id is the request that inserted it.  Orphans in
`jawaban_siswas` and `siswa_progresses`, which have no foreign key, are
reachable, and `CascadeIsAtomic` does not deny them.  `RekapInBounds` is about
what the recap counts, `NothingUnread` about the JSON list.

### Curriculum

A request is its successful look-up (`FindKelas`, `FindModul`, `FindIsi`), a
second one (`CheckModul`) where the code has it, and its write; a refused one
changes nothing.  What the writes do follows gorm: Save writes the row and the
rows preloaded with it, `INSERT ... ON CONFLICT`, so that an old copy can bring
back what is gone; Association.Append writes the links loaded earlier too.
`late` is what of this was deleted, or taken off its kelas, since the request's
look-up.  So `ReturnsOnlyIfRaced` speaks of rows and links alike: the code does
not keep a removed modul from coming back with an old copy of its kelas, but only
a request that was under way at the removal can do it.  A look-up with what it
preloads is one step here and several queries in the code.  The foreign keys come
from the model tags: materi and soal go with their modul, a modul that is linked
cannot be deleted.

### Access

A request is asked (`AskAccount`, `AskProfile`, `AskKelas`, `AskJoin`,
`AskPage`) by anybody or by the holder of a token, and goes on statement by
statement: `FindEmail`, `InsertGuru`; `Login`; `ReadProfile`, `SaveProfile`;
`DrawKode`, `InsertKelas`; `FindKelas`, `FindSiswa`, `InsertSiswa`; `Page`, once
for each check of the page (`Checks`).  `Fails` is a statement that fails, where
the code looks at the error; where it drops the error (Register's look-up of the
email, the look-up of a namesake) a failure is "nobody found".  The unique
indexes and the foreign key are in the model tags.  `DeleteKelas`, `AssignModul`
and `RemoveModul` happen at any time.  Rows are sequences, so that an id is a
position and is never given twice; a siswa exists while its kelas does.  Names
of guru, bcrypt, the signing and the expiry of tokens are left out: a token that
is wrong or too old is a request that never arrives.  The look-up by
`X-Session-ID` in the middleware finds nobody (see below).

`raced`, `blind` and `open` are histories: requests that wrote what another has
just written, joins whose look-up failed, and pages that could have been shown
at some moment of the request.  `SameSiswaAgain` and `PasswordStays` say what
holds apart from these, `PagesAreOpen` that nothing else is ever shown.

### RateLimiter

`GetLimiter` is what happens under the mutex, `Allow` what happens after; in
between the clean-up (`CleanUp`) may throw the map away, so that two limiters of
one address are in use.  A limiter is named by its address and by how many maps
were made before its own.  `Tick` is time, in parts of a token (`Every`), and
the log of answers is what the two properties are about.

## Runs

| run | instance | shows |
|---|---|---|
| `registry` | a tutor job and another, 2 callback goroutines, 3 deliveries | safety, refinement, no hanging request, lock freed |
| `callback_duplicate` | the same | a violation: a duplicate callback is emitted again |
| `hub` | a guru and a siswa, 3 queued events, a direct one, inboxes of 1, queue of 1 | isolation, order, no loss but by lag, a full queue holds nobody for ever |
| `tutor_join` | 2 chat requests, a name, joins and resets, 2 tool calls, 1 restart, database failures | one turn at a time, enrolment, every request answered |
| `tutor_kuis` | 2 chat requests, a quiz of 2 questions, 3 tool calls, 1 restart | score, one grading per question |
| `tutor_memory` | 2 chat requests, no failures at all | a violation: a joined session becomes a fresh one |
| `upload` | texts of 7, 10 and 15 bytes, chunks of 4 to 6, a window of 2, 1 manual materi | nothing lost, refinement (all stored in one step or nothing), uploads end |
| `classroom` | 1 siswa, an exam question and another, 1 API answer, 1 by voice, 2 readings, deletion | cascade, recap, progress, no request waits for ever |
| `exam_once` | 2 API answers | a violation: both answers to one exam question are stored |
| `curriculum` | 2 guru, 2 kelas, 2 modul, 2 materi or soal, 2 requests at a time | foreign keys, ownership, what is lost or comes back |
| `access` | 3 requests of any kind, 2 emails, passwords and codes, 1 name, failures | unique keys, one siswa per name, pages, passwords |
| `rate_limiter` | 2 addresses, a burst of 2, a token every 2 ticks | how much gets through, and who is refused |

Why the bounds are enough to be interesting.  Two of everything that can race:
two callbacks for one job (and a third, late one), two chat requests of one
session with their two AI jobs, two requests of the guru; in `access` three, as
for a siswa who joins again beside a namesake's join.  Capacities are so small that queues and inboxes fill.  The texts of `upload` have two
places to cut, of every kind and at every position.  By their lengths the target
is the minimum, half of the text, or the maximum; the window reaches two bytes
below it and, except at the maximum, as far above it, so that places of two bytes
are found and every bound on the window comes to matter.  The quiz has a last question and one before
it.  Three tool calls start a quiz and answer it, two join and reset.  Model
values of one set are interchangeable only in `curriculum` and `access`, which
have no liveness property, and only there is symmetry used.  The bounds (`MaxCalls`,
`MaxRestarts`, `MaxDeletes`, requests that are made once) are guards of the
actions; because of them the models end, hence `CHECK_DEADLOCK FALSE`.

Fairness.  Goroutines that can run do run (weak fairness of their steps, for
each goroutine by itself: in `SseHub` for run, for each publisher and for each
connection that wants to leave), a
goroutine waiting for a lock or a row others keep taking gets it in the end
(strong fairness, of `Timeout` in `JobRegistry` and of a request's step in
`Classroom`: Go's select and mutexes and PostgreSQL's lock queues are fair in
this sense), HTTP submissions and jobs end by their timeouts.  The AI service,
clients, the guru and the database's success are owed nothing.  Liveness is
stated as "again and again nobody is under way": as each request is made once,
that says of each that it is not under way for ever.

## What the code does not do

Three runs end in a violation, each of a sentence of the repository:
`callback_duplicate` (AI_SERVICE_ALIGNMENT_PLAN.md:183), `tutor_memory`
(API_REFERENCE.md:912) and `exam_once` (model/jawaban_siswa.go:8-10).
`PROJECT.json` says under `findings` what happens in each.

Other disagreements that came to light, for which there is no run of their own:

- `submit_jawaban` changes the session and returns at tutor_tools.go:358, when
  the next question is gone, without saving it, although tutor_service.go:182
  calls the store a write-through: memory and database then differ at rest.
- WaitSync returns a job after an unlocked look at Status (registry.go:150), so
  that the callback may still be storing the other fields; `AnswerIsTheVerdict`
  shows that its callers never return a wrong result for it.
- The middleware looks for a siswa by `X-Session-ID` (auth_middleware.go:13-16,
  API_REFERENCE.md:1398-1401) in `siswas.session_id`, which nothing writes:
  LinkSession has no caller.  The look-up never finds anybody.
- UpdateProfile saves the whole row it read, so that a change of name that
  overlaps a change of password undoes it: the exception in `PasswordStays`.
- Siswa who join by voice before they say a name are all called "Siswa"
  (tutor_tools.go:93) and are one siswa of that kelas.
- A siswa who joined under a name and joins again after reset_percakapan
  (tutor_tools.go:268-270), or after the state was lost, without repeating the
  name is enrolled a second time, as "Siswa" (tutor_tools.go:92-95).
- A chunk of an upload need not have 1500 characters, as soal_service.go:116 has
  it ("min 1500 chars"): the minimum bounds the target only, a cut may be a
  window of 200 below it, and the last chunk may have any length.
  `ChunksNearTarget` states what does hold.
- `persen_materi` is to be 0 to 100 (API_REFERENCE.md:1206-1208), but
  progress_service.go:95 divides the materi finished once by those there are now,
  and is above 100 after a deletion.

## Proofs

All are checked by tlapm from nothing, with no assumption but those named in the
modules (`RegistryAssumption`, `HubAssumption`, `SessionAssumption`,
`ChunkAssumption`, `UploadAssumption`, `ClassroomAssumption`,
`CurriculumAssumption`, `AccessAssumption`, `LimiterAssumption`), which only say
what kinds of things the constants are: that sets of different things are
disjoint, that bounds are numbers, and of a session that it has finitely many
requests.  The theorems are about `Spec`, without fairness, for any number of
actors and any bounds; those about `TutorSession` are about `AnySpec`, which has
the steps of `Spec` and starts from any record that an earlier process may have
left in `session_states`, the starts of the runs `tutor_join` and `tutor_kuis`
among them (`SpecResumes`).

Every invariant and every action property of a passing run is the statement of a
theorem, and so are the two refinements.

`JobRegistryProofs`.  `AnswerIsTheVerdict` is not inductive: a request reads
Status in one step and Hasil in another.  `IInv` adds to `TypeOK` what the
goroutine inside Complete or Fail knows (`WriterOK`: it alone holds the lock, its
job is open, and exactly its stores so far are visible), that the fields of
every other job hold all of a verdict or none of it (`FieldsOK`), and how a
request's progress goes together with its job (`RequestOK`).  `Invariance`
has a lemma for each of these parts, by actions.  The safety properties and
action properties of the run follow, and `Refinement` maps each step to a step
of `JobPromise` or a stutter.

`CurriculumProofs`.  `IInv` adds to the two invariants what each request under
way knows (`OwnOK`: the rows it names belong to its guru; `SeenOK`: what it
preloaded belongs together; `LateOK` and `LinksOK`: what it preloaded, rows and links, is there or went
since).  The last two are why `ReturnsOnlyIfRaced` holds.

`AccessProofs`.  `IInv` says of the tables that keys are unique (`TablesOK`), of
each request what it asks at each step (`FormOK`), that the row it is about to
save is its guru's and old only if raced (`SaveOK`), that a page that could be
shown is counted as open (`ShowOK`), that the name it is about to enrol is in
the table only if raced or blind (`JoinOK`), and that who has joined got the
first row of that name, which no later row can precede.  Two first rows of one
name are one row, which is `SameSiswaAgain`.  `OthersKeep` shows once that
requests which only wait lose none of this, for any step that changes the tables
in the few ways listed in `Evolves`; each action is then shown to be such a step.

`SseHubProofs`.  None of the four properties is inductive.  `WalkOK` says that a
walk, of run or of a direct publisher, has only registered clients before it,
because Lock is not to be had while it holds RLock: with it `NoSendOnClosed`
follows.  `QueueOK` says that the queue is the end of `order`, so that what run
has taken is its beginning; `SentOK` that a stream has only what was taken, and
the last event only if run has visited it; `ReachedOK` that who never lagged has
all of that.  Order and completeness of a stream follow from the three.

`TutorSessionProofs`.  `Control` says where a chat request and its tools can be,
that tools are at work only for a running job, that a running job has a request
that waits for it or is an orphan, and that busy is set while one request holds
it: Retry and Fallback need this.  `Store` follows the record
of the session through the objects in the heap, the JSON about to be written and
the database: each copy that says joined needs a row in `siswas`.  `Loaded` says
that who works on the state has an object, for which `FreeObject` counts threads
and objects.  `Enrol` is what a join knows between its look-up and its insert,
which only one tool at a time may be in: that there is no row of the name it is
joining under, or that there is one once it is `joined`; `Tell` that the turn that is answered
works on the object in the cache, unless jobs overlap or loadState has replaced it.

The quiz needs two more parts.  `Score`: wherever a record of the session is, in
the heap, in the database or as JSON on its way there, it has no more points
than questions passed; but the object in which a tool call has just graded a
question may have one more until that call moves on, and no other call has it,
for one job at a time is running.  The part holds of records put back from the
database as well, and so needs no excuse but the orphan; that the tool call
finds its quiz still there is the same argument.  `Grades`: every tool call
works on the object in the cache, and the questions which the quiz in it has
still to ask have no rows (`Blank`), but for the one just graded.  A new quiz
asks each question once, and an older record that is put back keeps `Blank`
unless it asks again what has a row: that is `"older"`, which was found when
the invariant with `"stale"` alone turned out not to be inductive.

`UploadProofs`.  First the text: `CInv` adds to the two properties of the chunks
that a running loop has text left (`Running`); the lemmas bound `TargetSize` and
place every `Boundary` beyond the start and within MaxSize, whatever the text.
`ChunkingSafe` is about SmartChunkText alone, `ChunksComplete` and `ChunksLarge`
about the chunks of uploads.  For the batch, the invariant follows a chunk from
its goroutine through the channel into the list: it is in the channel once and
only after it has come to something (`ChannelOK`), its items are in the list just
if it has left the channel (`Collected`, `ListOK`), and those of one chunk are
next to each other.
When the channel is closed and empty these are all the chunks (`CollectedAll`).
`RowsSafe` rests on the batch having as many rows as the list has items.
`Refinement` takes each step to one of `UploadPromise`: a chunk that answers is
`Find`, for it takes nothing away; `Save` is `Store`, for no row of the upload
was there before, the list is all that was found and has each item once; turning
an upload down is `TurnDown`, for an empty list has lost nothing; the rest are
`Answer`, `Fail`, `Crash`, `Edit` or stutters.

`ClassroomProofs`.  `JawabanOK` says that the table has exactly the answers that
were stored, each of a request past storing it; no statement of the deletion
before Commit changes that.  `LatestOK`: among the answers to a question there is
a latest one, which is what the recap counts.  `WritersOK`: the one writer of a
row of progress holds the row as it is, or has failed to read it, and then the
unique index refuses its insert; so nothing finished is lost.

`RateLimiterProofs`.  The invariant is an account of each bucket.  What it holds
and what the requests it let through since any answer have cost is at most a
full bucket and the time since (`UpperOK`, and `PastOK` for spans that are over);
a bucket that is not full has an answer since which it is at least that
(`LowerOK`).  `LimitSafe` then counts the requests of an address by limiter:
each has a pair of the map its limiter was made in and its place among those the
limiter let through, and there are only a burst of places in each of the maps.
`RefusedSafe` is `LowerOK` at the moment of the refusal.  `LimitersEnough` shows
that the bound on the names of limiters in the model cuts nothing off.

What stays with TLC: liveness (`RequestsEnd`, which includes that the lock is
freed, `LeaversLeave`, `SpeakersDone`, `TurnsEnd`, which includes that the
session is freed, `UploadsEnd`), for TLAPS proves neither fairness arguments with
ENABLED nor induction over data; and the three claims that runs show violated.

## Not modelled

In a voice session: the tools that only read, and those that choose and read a materi,
except for the progress they write, which is in `Classroom`; with them the
session would be beyond what TLC can exhaust at these bounds.  The text of a failed job (`Error`), which WaitSync's callers read as
unlocked as its Hasil.  Codes, names and
texts as such; percentages of single siswa; the signing, expiry and format of
tokens; the roles of connections other than as a constant of `SseHub`; the old
event stream of `kelas_handler.go`, a copy of the hub without roles; PDF, mail,
configuration, routes; `ChunkText`, which nobody calls.  That a job without a
callback stays in the registry for ever, and the other hazards with a `note` in
`PROJECT.json`, are known and no property covers them.

## Plan

Done, in this order: `JobRegistry` and its promise, because everything waits
on it; `SseHub`; `TutorSession`; `TextChunk` and `Upload`; `Classroom`;
`Curriculum`; `RateLimiter`; `Access`; proofs for all of them, for every
invariant and action property that a run checks; `UploadPromise`.

Next:

1. what does hold of exams beside `ExamAnsweredOnce`: a second row only by
   voice, after a failed look-up or in a race, with its theorem;
2. the step of `Curriculum` that deletes a kelas as a refinement of the
   statements in `Classroom`;
3. the reading tools on a session's `Belajar`, composed with
   `SelesaikanMateri`, in `TutorSession` with bounds of their own.
