# Verification of the online quiz server

The repository is an online examination system: a C++ server (`server/`) that
keeps users, rooms, question papers, answers and grades in one SQLite file, a
terminal client (`client/`), a web client (`webapp/public/main.js`) that talks
to the server through a JavaScript gateway (`webapp/server.js`), and a framed,
encrypted JSON protocol (`common/`). This directory holds TLA+ models of it,
the TLC runs that check them, and proofs about them that TLAPS checks.

    tlc -workers 2 -config ExamRoom_build.cfg MCExamRoom.tla
    tlapm ExamRoomProofs.tla

## 1. Inventory

| Part | State | Operations | Source |
|---|---|---|---|
| Exam rooms | tables `rooms`, `room_participants`, `exams`, `exam_questions`, `answers` | create, join, start, finish, delete a room; get the paper; save answers; submit; auto-submit; timer | `server/src/room.cpp`, handlers in `main.cpp` |
| Queries | none of their own | list rooms, details, results, history | `room.cpp` |
| Question picker | the bank | a random paper by difficulty, filled up from the rest of the bank | `room.cpp:209-344` |
| Practice | `practice_runs` | start, submit, no room and no answers table | `room.cpp:693-785` |
| Accounts and sessions | `users`, `sessions` | register, login, logout, validate (which deletes an expired session) | `auth.cpp` |
| Server threads | `connections_`, `tasks_`, `running_`, `stopping_`, one thread per connection, four workers | accept, read, enqueue, run, reply, stop | `server.cpp`, `thread_pool.cpp`, `main.cpp:878-927` |
| Wire protocol | bytes in flight, receive buffers | encode, write, read, decode | `codec.cpp`, `aes_crypto.cpp` |
| Gateway | one buffer per WebSocket | chunks to messages, messages to frames | `webapp/server.js` |
| Web client | current page, exam, timers | requests, `handleMessage`, timers, automatic submission | `main.js` |
| Terminal client | socket, reader thread, event queue | connect, disconnect, menus | `client/src` |

**How they interact.** A client's frame is read by the reader thread of its
connection, decoded and pushed on the pool's queue. One of four workers runs
the handler: it validates the session through AuthService (mutex `mtx_`, its
own SQLite connection) and then calls RoomManager (recursive mutex `db_mutex_`,
another SQLite connection on the same file). The worker writes the reply under
`send_mtx_`. Requests of one client may run at the same time and be answered in
any order; the clients tell replies apart by their action only.

**What is hard.**

- Handlers of different requests interleave. RoomManager's methods are atomic
  against one another, not against AuthService: the file is in
  rollback-journal mode, no busy handler is set, and a statement that meets the
  other connection's lock fails at once. Error paths differ: some refuse, and
  the loops `while (step == SQLITE_ROW)` take the failure for the end of rows.
- A paper and a grade are each several statements; only the paper is a
  transaction, and the row of `exams` is inserted before it.
- An exam may be submitted by the student, by the client's timer, and by the
  server's worker (commented out in `main.cpp:890-911`, "may cause race
  conditions").
- Stopping the server crosses accept thread, readers, queue and workers; the
  socket is shut down and closed without the mutex its writers hold.
- A client may leave, half-close or stop reading while a worker writes to it.
- TCP cuts frames anywhere; several workers reply on one connection.
- Replies are lost, late or reordered, and the paper is handed out only once.
- The page keeps one exam, one countdown and one flag, and every reply changes
  them, whichever exam it is about.
- A handler validates the session under one mutex and acts under another.
- In the terminal client the reader and the UI thread share `fd_`, `connected_`
  and `reader_`, and the server may close at any moment.

**What makes each part correct.** Rooms: a student gets one paper, one result,
equal to the stored one and final, within the paper's bounds, and no more time
than the paper says; no exam moves to another room's students. Statements: all or
nothing across crashes and locks; no waiting while holding `db_mutex_`. Threads:
each message read is run exactly once, also during a stop; a stop ends. Protocol:
what is passed on is what was sent, whole, in order, and nothing is held back.
Sessions: an operation acts for the user whose session was validated, and a
session that has ended stays ended. Question picker: a paper has the questions its
room asks for. Web client: a submission answers its own exam's paper, the
automatic one is not early, and it is made. Practice: a result belongs to the
student whose practice it is. Terminal client: every reply is handled once and in
order, and connecting again does not break the client.

The full list of hazards, each at its line and with the properties that guard
it, is in `PROJECT.json`.

## 2. Modules

    ExamLifecycle     what one sitting of an exam is promised (abstract)
        ^ implements (ImplementsLifecycle; proved: Refinement)
    ExamRoom          the tables, one action per RoomManager method
        ^ implements (ImplementsExamRoom; proved: Refinement)
    ExamDatabase      the same handlers, one action per SQL statement
    RequestServer     the threads of the server
    FrameStream       one direction of a connection, byte by byte
    QuestionPicker    the choice of a paper's questions
                      (used by ExamDatabase and Practice)
    WebClient         the exam page, against ExamLifecycle as its server
    AuthSessions      accounts and sessions: login, logout, validation, expiry
    Practice          AuthSessions with the practice handlers and page
    ClientCore        the terminal client's threads and socket
    MC*               the instances TLC checks
    *Proofs           theorems: ExamRoomProofs, ExamDatabaseProofs,
                      QuestionPickerProofs, RequestServerProofs,
                      FrameStreamProofs, ClientCoreProofs, WebClientProofs,
                      PracticeProofs (about AuthSessions too)

**ExamRoom.** Each table is a variable: a function from keys to rows for
`rooms` and `exams`, a set for `room_participants`, a function from exams to
question sets for `exam_questions` and to answer sheets for `answers`. A key of
`exams` is the pair (room, user) that `UNIQUE(room_id, user_id)` makes one; no
statement of the program deletes such a row. `lastRoom` is the AUTOINCREMENT
counter. `handed` and `told` are history: the papers and the results that were
replied. Every method is one action, since it holds `db_mutex_` for its whole
body; a refused request is a stuttering step. `GetExamPaper` is the exam row
and the transaction in one step, or only the exam row when the transaction
fails (`LosePaper`). `SubmitExam` saves the answers of the request, counts the
stored ones and records the grade. `Faults` says which statements may meet a
lock: `"paper"` the transaction of `get_exam_paper`, `"grade"` the statements
of a grading. `AutoSubmitWorker` says whether the worker of `main.cpp:890` is
started: it is not, in the build, so no run asks that it comes to run, and the
one run that has it asks what it does to the rest if it does. A duration may be
negative, since nothing checks what the teacher sends. Clients take an exam id
only from a paper reply, so `SubmitAnswers` and `SubmitExam` need `KnowsExam`,
and their answers are for questions of the paper. A batch of `submit_answers`
cut short by a failing row is a smaller batch.

**ExamDatabase.** One room in progress. `at` is the statement that the worker
holding `db_mutex_` has reached; `auth` is the lock of AuthService's connection,
which may take SHARED, RESERVED and EXCLUSIVE at any time RoomManager's does not
exclude it. `settings` are the room's, chosen at the start; `LoadQuestions` picks
by QuestionPicker. Each statement goes on or refuses according to the lock.
`Crash` ends the process between two statements; an uncommitted paper is lost,
the rest stays. The mapping to ExamRoom substitutes constant rows for the room; each
statement is a whole ExamRoom action or a stuttering step: `EnsureExam` is
`LosePaper`, `Commit` is `IssuePaper`, `SaveAnswer` is a `SubmitAnswers` of one
answer, `RecordGrade` is `SubmitExam`. Time stands still.

**RequestServer.** `main`, `acceptor`, `reader[c]` and `job[w]` are the program
counters of the threads; `conns`, `running`, `alive`, `queue` and `stopping` are
the members of the classes, `sock` is `fd_` with the state of its socket, and
`writing` has the workers that hold `send_mtx_`. A step ends where another thread
can act. `Interrupt` to `JoinWorkers` follow `Server::stop`, and `StopConn`,
`ShutdownSocket`, `CloseSocket` and `JoinReader` are `Connection::stop`, statement
by statement (`close` and `fd_ = -1` are one step: a write fails after either).
`Destroy` is the destructor of a connection that nothing holds.

A task is three steps: the queue (`TakeTask`), the handler up to the mutex
(`RunTask`), and the write, which returns (`WriteReturns`; `WriteBuffered` when
the client does not read but the kernel has room), raises SIGPIPE (`WriteKills`:
the socket was shut down, or the client has left and answered a reply before with
a reset), or does neither and blocks. What a client may do is `Leave`, `EndInput`
(it half-closes, or sends a length that is refused: the reader ends and the client
stays) and `Stall` (it stops reading). `Faulty` are the clients that may. A
descriptor number reused between `close` and a write that read `fd_` before is not
modelled. Handlers themselves are ExamRoom's.

**FrameStream.** Bytes are pairs (message, position). `Encode`, `Lock`, `Write`
are `Connection::send`; `Write` is one `write` of `write_exact`, taking any number
of bytes. `ReadFrame` is one `read` of `read_exact` inside `read_frame`, `Data`
one chunk given to `decodeFrames`, whose loop is `TakeFrame` round by round. The
cipher is modelled by its length: PKCS#7 always adds at least one byte. The
gateway's `encodeFrame` checks no size: `Unchecked` are the messages it encodes,
to `read_frame`. Bytes that are not one whole message do not decode and are
skipped, as `decode_frame` and `decodeFrames` do.

**QuestionPicker.** `PickQuestions` and `PickFiltered` are the sets of results
that `pick_questions` and `pick_questions_filtered` can come to: `Select` is
`ORDER BY RANDOM() LIMIT`, which a negative number does not limit and a small
bank cuts short; `WithDefaults`, `ByLevel`, `FilledUp` and `Trimmed` are the
parts of the code in their order. `AsAsked` says what a room asks for, without
them. The settings come from the client unchecked: negative shares and a total
of 0 are among them.

**WebClient.** One student's page and the exams the server keeps for that
student. The server is an instance of ExamLifecycle with the clock beside it, so
whatever ExamRoom is shown to implement stands behind the page. `requests` and
`replies` are sets, since four workers serve a connection and nothing orders
them. The page's variables are those of `state` in `main.js` and its intervals:
`counting` is `examTimerInterval`, `syncing` the `serverSyncInterval` it refers
to, `leaked` the earlier ones it no longer does. Each `Arrive` action is one
branch of `handleMessage`. A message is dropped while the WebSocket is closed
(`Disconnect`, `Reconnect`); `Reload` starts the page anew; `LosePaper` and
`Fail` are refusals of the database or the session.

**AuthSessions and Practice.** Each AuthService method is a step, since it holds
`mtx_`. `Delete` has the outcome nobody looks at, a locked file. Practice adds the
two handlers: `Validate` lets a request through or refuses it, and the operation
comes later. The SELECT that picks the questions may meet AuthService's lock, and
the practice is then handed out without questions; a SELECT that grades may meet
it, and the answer then counts as wrong (`GradesOf`). One page serves two
students, one after the other. The clock may be set back, as `system_clock` may.

**ClientCore.** The UI thread's frame loop with `connect` and `disconnect`
statement by statement, one reader thread per connection, the queue between them,
and a server that closes whenever it likes. A socket is closed, shut down or
ended by its peer; `handle` is the thread that `reader_` refers to.

## 3. Runs

Runs that must pass:

| Run | What it asks | Bounds |
|---|---|---|
| `rooms_papers_grades` | `OnePaper`, `ToldIsRecorded`, `ResultWithinPaper`, `TimerWithinPaper`, refinement of ExamLifecycle (a graded sitting stays as it is), in the build with both faults | 2 students in 1 room, 2 questions, right, wrong or blank; 2 seconds |
| `auto_submit_worker` | `ExamOfParticipant`, `GradeOnSubmission`, `ResultsFinal`, with the worker, no statement failing | 2 rooms, 1 user who owns and sits both, 1 question, 4 seconds, durations -1 and 1 |
| `statements` | `PaperWhole`, refinement of ExamRoom, `MutexReleased` | 1 student, 3 questions, one of each level, 4 settings: filled up, cut down, summed from shares of which one is negative, defaulted to more than the bank |
| `server_threads` | `EachMessageOnce`, `ExitIsClean`, `NoReaderLeft`, `ReadIsRun`, `StopEnds` | 2 connections, one of 2 messages, whose client may leave, half-close, send a refused length or stop reading, and one of 1 message; 2 workers |
| `frames` | `StreamIsFrames`, `InSendOrder`, `NothingHeldBack`, `EncodedArrives`, both receivers | 3 messages of 2 to 6 ciphertext bytes, one larger than the limit and unchecked, prefix 2, block 2, limit 4 |
| `web_page` | `SubmissionMatchesPaper`, `ChoicesKept`, `AutoOnTime`, `ShownIsSubmitted` | 2 rooms of 1 and 2 seconds with a question each, 2 seconds to start in and end, 2 messages under way before a click, 1 failed submission |
| `practice_sessions` | `EndedForGood`, `ResultOfHolder`, `PracticeMatchesPaper`, `PracticeSubmitted` | 2 users, one of whom has to register, 2 logins, 2 practices of no question or the bank's one, 2 hours of the clock |
| `terminal_client` | `EventsInOrder`, `OneReader`, `DiesOnlyAfterServerClose`, `DisconnectReturns` | 2 connections, 3 frames each |

Every one of them checks its module's type invariant too, but for
`auto_submit_worker`, whose module's is checked by `rooms_papers_grades`.

Why the bounds are enough. Two students show interference between sittings and two
rooms show the reuse of ids; one question shows right, wrong and blank, two show
partial batches and papers. Two seconds put every request before or at the end of
an exam, four put two exams with different ends, and their expiry, in every order.
Two workers are enough for two tasks to overlap, for one to wait for the mutex of
the other and for both to be held, and two messages on one connection for a reset
and the reply after it. One client that misbehaves beside one that does not shows
what the second may suffer. In FrameStream the sizes are scaled, keeping one
block, several blocks, and a payload at the limit whose padding exceeds it. A
question of each level is enough for a share to be too large, too small or refused
by the bank. Two rooms put the replies of one exam on the screen of the other, and
two messages under way let an earlier reply overtake a later one. Two logins and
two practices put a request of one student on a page of the other, and a lifetime
of 0 with two hours lets a session expire and be young again. Two connections show
a reader left over from the first.

The same properties were checked by hand on larger instances, too long for a
regular run: `statements` with two students and one option, the safety of
`web_page` with durations 1 and 3 and four seconds, of `practice_sessions` with
two messages under way, of `terminal_client` with three connections of two frames.

Runs that must fail, each a text of the repository the code does not live up to:

| Run | Text | What TLC shows |
|---|---|---|
| `grade_meets_lock` | `room.cpp:609` "Fetch correct answers for grading" | a LOGIN commits while the answers are read, the loop sees no row, the exam is recorded with 0 right |
| `timer_starts_early` | `room.cpp:1118` "Each student gets their own timer starting from when they get the paper" | the transaction of the first GET_EXAM_PAPER fails, the retry is replied with new times, and the timer counts from the old ones |
| `never_terminates` | `main.cpp:925` | a client left, its reader returned by itself, and the connection's destructor meets a joinable thread |
| `time_up` | `main.js:957` "time is up, submitting automatically" | another room is selected when the countdown ends: the timers stop and nothing is sent |

Met while modelling and not given a run of its own.

Server:

- `room.cpp:1174` says "cascading deletes will handle related records", but no
  connection turns foreign keys on: a deletion leaves participants, exams and
  answers behind.
- A blank is dropped before it is counted, so it lowers the total and costs no
  mark, where `main.js:813` and, for practice, `main.js:829` say it is wrong.
- `finish_room` does not submit the open exams, where `main.js:351` says so; the
  worker that would do it in the end is commented out, so nobody grades the exam
  of a student who does not submit.
- SUBMIT_ANSWER, which neither client sends, changes the stored answers of a
  submitted exam, where `main.js:808` says they cannot be changed; the recorded
  result stays (`ResultsFinal`).
- Answers are accepted after the end time (`Problems.txt:9`).
- `ResultsFinal` and the refinement fail when the worker is switched on and
  papers may be lost: it grades an exam without a paper and the retry overwrites
  the total. That is a condition on bringing the worker back, and the assumption
  `WorkerSafe` of two theorems.
- LOGOUT reports success when its DELETE found the file locked, and
  SUBMIT_PRACTICE when its UPDATE matched no row, or graded a practice again.
- After Ctrl+C (`main.cpp:888`) the join of the accept thread waits for one more
  client: closing the descriptor does not wake `accept`. `StopEnds` excuses it.
- A client that stays connected and does not read blocks the worker that writes
  to it, with `send_mtx_` held; with enough replies it holds all four workers, and
  what other clients send is read and never run (`ReadIsRun` excuses it). If its
  reader had returned before, by a half-close or a refused length,
  `Connection::stop` shuts nothing down and the stop never ends (`StopEnds`
  excuses it); if not, the shutdown wakes the write and SIGPIPE ends the process.
- A SELECT of a correct option that meets AuthService's lock makes
  `submit_practice` count the answer as wrong (`room.cpp:762`); one that meets it
  in `pick_questions_filtered` makes a practice without questions.
- SIGPIPE ends the process when a client leaves before its replies
  (`codec.hpp:18`). `codec.cpp:273` and the encoder disagree on the largest
  payload: one at the limit is encoded and then refused.

Web client:

- A `GET_TIMER_STATUS` reply carries no exam id (`main.js:170`): one of an exam
  already left can end the countdown of another early. `AutoOnTime` is about
  statuses of the exam on screen.
- A second JOIN_ROOM reply (`main.js:110`) and the reply of another exam's
  submission (`main.js:239`) clear the exam on screen. Its paper cannot be
  fetched again, as it cannot when the reply that carried it is lost, so the
  student can never submit it.
- The flag of the automatic submission is set before the reply and also when the
  WebSocket is closed, and is not reset: a submission that failed is not retried.

Terminal client:

- When the server has closed, the reader clears `connected_`, `disconnect` skips
  the join, and the next `connect`, or quitting, meets a joinable `reader_` and
  terminates. A send to a server that closed may raise SIGPIPE. That it dies in
  no other way is `DiesOnlyAfterServerClose`.
- It submits "A" for a question left blank (`render_exam`, `render_practice`).

Deadlock is checked in the runs of ExamDatabase, WebClient and Practice, which
never stop. The others stop: the bounded clock and room numbers of ExamRoom are
used up, the process of RequestServer or ClientCore has ended, every message of
FrameStream has been passed on.

**Fairness.** ExamRoom: none, since no student has to do anything and the worker
is not started. ExamDatabase: the worker that holds `db_mutex_` goes on; the other
connection may keep its lock for ever, and clients need not call. RequestServer:
each thread of the process is scheduled as long as the process is up, so a write
that can go on or fail does, and the mutex goes to some waiting worker; that a
client reads, or that the kernel has room for a reply it does not read, is not
assumed, and clients and Ctrl+C are not fair. FrameStream: a `send` that was begun
goes on and the receiver's loop runs; a mutex that is free is eventually given to
some waiting thread, which reaches all of them since each message is sent once.
WebClient: time passes, the countdown's beats fire, submissions and timer requests
are served and timer replies arrive; clicks, failures and the end of the
connection are free, and `ShownIsSubmitted` excuses the last two. Practice: the
countdown ends and a worker takes up what was submitted. ClientCore: the UI thread
and the readers are scheduled; the user and the server are free.

## 4. Proofs

Every safety property that a passing run checks, but for `GradeOnSubmission`, is
also proved, for every value of the constants that satisfies the named assumptions
of its module: any number of students, rooms, threads, connections, messages, any
sizes and bounds. The assumptions say that bounds and times are natural numbers
(durations integers), that the bank is finite, that what stands for "nothing" is
not a value, and that users, questions and workers exist where the code cannot do
without. Hypotheses beyond them are in the table.

| Module | Theorem | Says | Hypothesis |
|---|---|---|---|
| `ExamRoomProofs` | `TypeCorrect` | `[]TypeOK` | |
| | `ExamsOfParticipants` | `[]ExamOfParticipant` | |
| | `PaperHandedOnce` | `[]OnePaper` | |
| | `ToldResultRecorded` | `[]ToldIsRecorded` | |
| | `GradesWithinPaper` | `[]ResultWithinPaper` | |
| | `TimerStaysWithin` | `[]TimerWithinPaper` | |
| | `ResultsAreFinal` | `ResultsFinal` | `WorkerSafe` |
| | `Refinement` | `ImplementsLifecycle` | `WorkerSafe` |
| `ExamDatabaseProofs` | `TypeCorrect` | `[]TypeOK` | |
| | `PapersAreWhole` | `[]PaperWhole` | |
| | `Refinement` | `ImplementsExamRoom` | |
| `QuestionPickerProofs` | `PicksAsAsked` | `AsAsked` of all that `pick_questions` can choose | `BankOk` |
| `RequestServerProofs` | `TypeCorrect` | `[]TypeOK` | |
| | `NoReaderIsLeft` | `[]NoReaderLeft` | |
| | `MessagesHandledOnce` | `[]EachMessageOnce` | |
| | `ExitsCleanly` | `[]ExitIsClean` | |
| `FrameStreamProofs` | `TypeCorrect` | `[]TypeOK` | |
| | `MessagesInOrder` | `[]InSendOrder` | |
| | `StreamOfFrames` | `[]StreamIsFrames` | |
| | `GatewayDrained` | `[]NothingHeldBack` | |
| `ClientCoreProofs` | `TypeCorrect` | `[]TypeOK` | |
| | `OneReaderRuns` | `[]OneReader` | |
| | `DiesOnlyAfterClose` | `[]DiesOnlyAfterServerClose` | |
| | `EventsAreInOrder` | `[]EventsInOrder` | |
| `PracticeProofs` | `TypeCorrect` | `[]TypeOK` | |
| | `EndedSessionsStayEnded` | `[]EndedForGood` | |
| | `ResultsOfHolders` | `[]ResultOfHolder` | |
| | `PracticeIsOnItsPaper` | `[]PracticeMatchesPaper` | |
| `WebClientProofs` | `TypeCorrect` | `[]TypeOK` | |
| | `SubmissionsMatchPapers` | `[]SubmissionMatchesPaper` | |
| | `ChoicesAreKept` | `ChoicesKept` | |
| | `AutomaticSubmissionOnTime` | `AutoOnTime` | |

`WorkerSafe` is needed: without it TLC finds the counterexample that section 3
tells. It says that the worker of `main.cpp:890` is off, as it is in the build, or
that no paper is lost. `BankOk` says the bank is finite and each question has a
level; the assumptions of ExamDatabase imply it (`PapersAreWhole` uses the
theorem).

In each module `IInv` is the inductive invariant: the lemmas show that the
initial states satisfy it and that each action keeps it, and `Invariance` puts
them together. It was checked by TLC on the module's run before it was proved.
What had to be added to the properties, and why:

- **ExamRoom.** `RoomsCounted`: ids in use do not exceed the AUTOINCREMENT
  counter, or a new room would inherit the exams of a deleted one.
  `PaperHanded`: what was handed out is not empty, since the emptiness of the
  stored paper is what guards `GetExamPaper`. `ExamHasPaper`: a submitted exam
  has a paper, since issuing one writes `total_questions`. Two theorems extend
  it: `AnswersOnPaper`, the sheet holds answers to no question but the paper's,
  for the bounds of a result; `RowTimed` and `PaperTimed`, the row of an exam is
  not younger than its paper and ends its room's duration later, for the timer.
- **ExamDatabase.** What the code knows between two of its statements:
  `RowFirst`, the row precedes its paper; `PaperInProgress`, what was inserted
  and what is left to insert make up what was picked; `SubmissionInProgress` and
  `AnswersInTable`, the answers of the request are saved or still to be saved;
  `StillOpen`, the exam stays open from the check to the UPDATE. The refinement
  maps each statement to an ExamRoom action or to a stuttering step: the last
  two facts are what makes `RecordGrade` a whole `SubmitExam`. With it, whatever
  ExamRoom's steps cannot do, the interleaved and crashing statements cannot do.
- **RequestServer.** `StopOrder`, how far `Server::stop` has come;
  `ReadersKnown`, every running reader belongs to a connection that main has
  still to stop, and is alive unless `Connection::stop` is at it; `MessagesRead`, no message is ahead of its reader;
  `MessagesOnce`, each is in one place; `WorkersGone`, a worker returns only
  from an empty queue, and one that writes has a task. `ExitIsClean` needs them all: that no message is lost
  when the workers leave depends on the readers having been joined before.
- **FrameStream.** `SenderIsLast`: the holder of `send_mtx_` is the last that
  took it and its message is not passed on yet. `OrderOnce`: a message takes it
  once, so that there are no more frames than rounds in `DecodeFrames`. The
  proof is about cutting and joining sequences of bytes (`FrontOf` to
  `SameFront`), about the frames of a sequence of messages (`FramesAppend`,
  `FramesFirst`) and about taking one frame off a stream (`PrefixRead`,
  `FrameTaken`). The loop of `decodeFrames` and the flattening of the frames are
  recursive functions; `Induction`, from the well-foundedness of `<` on the
  naturals, and `Recursion` give what they compute.
- **ClientCore.** `Latest`, the socket and thread of an object are those of its
  latest connection; `ConnectedMeans`, what `connected_` says at each statement of
  `connect` and `disconnect`; `EndedByServer`, a reader that ended by itself was
  left by the server; `EventsRead`, queued frames are behind the reader.
- **Practice.** `RequestsMatch`, `RepliesMatch`, `ScreenMatches`: a submission,
  a reply and the page have the questions of the run they name, wherever they are;
  `EndedHasNoRow`, that nothing brings back a deleted row of `sessions`.
- **WebClient.** `ServerInv`, the server's exams and the clock; `SubmissionsMatch`,
  `PapersMatch`, `ScreenMatches`, the messages under way and the page;
  `StatusNotEarly` and `CountdownNotEarly`, that neither a status nor the countdown
  is ahead of the clock, whatever the delays, except by the second of a beat.

Only model-checked: what must eventually happen (`MutexReleased`, `ReadIsRun`,
`StopEnds`, `EncodedArrives`, `ShownIsSubmitted`, `PracticeSubmitted`,
`DisconnectReturns`), since liveness under fairness is out of the proof system's
reach; `GradeOnSubmission`, which holds only while nobody else locks the file
(`grade_meets_lock` shows the rest); and the four properties that fail.

## 5. Not modelled, and the plan

Abstracted: names, passwords, texts, codes and scores (a score is `10 * correct /
total`); room passwords (a wrong one is a refusal). Roles never change: the pages
decide by them what to show, and the server's handlers do not check them, so any
user may create a room. Read-only requests change nothing. A message either
decodes or does not. OpenSSL is external. The page's teacher views, charts and
history, and the panels and `handle_event` of the terminal client, only show
replies and send requests. Seeding, the echo client and the unit tests run beside
nothing.

In Practice the connection stays open and the SELECT of `validate` finds the file
unlocked; WebClient has the loss of the connection, ExamDatabase the locks.
WebClient's `Reconnect` and `Reload` wait until the server has served the requests
of the old connection, where the code orders nothing: left out is an old request
that is served after the page is back, since the run would not end in time.
WebClient keeps its rooms in progress: what finishing or deleting one does to the
tables is ExamRoom's.

What is left, all of it proofs:

1. ExamDatabase: `ResultsFinal` and `OnePaper` of its own tables, from
   `Refinement` and the lemmas of ExamRoomProofs, so that the two levels are
   joined in one statement.
2. WebClient: its server implements ExamLifecycle, which joins the page to the
   server that ExamRoom is shown to be.
3. RequestServer and ClientCore: the safety part of `StopEnds` and
   `DisconnectReturns`, that a join waits only for a thread that can go on.
