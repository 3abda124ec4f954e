----------------------------- MODULE WebClient -----------------------------
(***************************************************************************)
(* One student's page, webapp/public/main.js, against the exams the server *)
(* keeps for that student: the lobby's choice of a room, the exam on       *)
(* screen, its countdown and the submission it ends in.                    *)
(*                                                                         *)
(* The server is the abstract ExamLifecycle, which ExamRoom implements,    *)
(* with the clock and the participants beside it; the handlers below are   *)
(* its steps seen from the wire.  Four workers serve the requests of a     *)
(* connection and the gateway passes replies on as they come, so requests  *)
(* and replies are sets.  The rooms are IN_PROGRESS throughout and are not *)
(* deleted.  A reply of status ERROR only shows a toast and is left out.   *)
(*                                                                         *)
(* A connection that closes takes its replies with it; the requests that   *)
(* the server had read by then are still served.                           *)
(***************************************************************************)
EXTENDS Integers, FiniteSets

CONSTANTS Rooms,       \* rooms in progress; a room stands for its exam too
          NoRoom,      \* null in main.js, and the exam_id -1
          PapersOf,    \* the question papers a room's settings allow
          Options,     \* the letters of the radio buttons
          Blank,       \* the empty answer
          Duration,    \* rooms.duration_sec of each room
          MaxTime,     \* bound: last second of the clock
          MaxInFlight, \* bound: requests and replies a click or a sync adds to
          MaxFailures  \* bound: submissions that fail

ASSUME RoomsAssumption == NoRoom \notin Rooms
ASSUME PapersAssumption == \A r \in Rooms : {} \notin PapersOf[r]
ASSUME BlankAssumption == Blank \notin Options
ASSUME TimesAssumption ==
  /\ Duration \in [Rooms -> Nat \ {0}]
  /\ MaxTime \in Nat /\ MaxInFlight \in Nat /\ MaxFailures \in Nat

VARIABLES
  \* the server
  phase, paper, result,  \* those of ExamLifecycle
  started,       \* exams.start_at
  now,           \* the clock, one second a tick
  \* the wire
  requests,      \* sent and not yet served
  replies,       \* served and not yet arrived
  online,        \* whether the WebSocket is open
  failures,      \* the submissions that failed
  \* the page
  selected,      \* state.selected_room_id
  joined,        \* state.joined_room_id
  exam,          \* state.exam.exam_id
  sheet,         \* the answers of state.exam.questions
  autoSubmitted, \* state.exam_auto_submitted
  counting,      \* examTimerInterval runs
  syncing,       \* the latest serverSyncInterval runs
  leaked,        \* how many earlier ones run that nothing refers to any more
  left,          \* localRemaining of the latest startExamTimer
  due,           \* a second has passed since the last beat of the countdown
  of             \* history: the exam whose timer status left counts down

server == <<phase, paper, result, started>>
wire == <<requests, replies, online, failures>>
lobby == <<selected, joined>>
screen == <<exam, sheet, autoSubmitted>>
countdown == <<counting, left, due, of>>
timers == <<countdown, syncing, leaked>>
page == <<lobby, screen, timers>>
vars == <<server, now, wire, page>>

-----------------------------------------------------------------------------
Null == -1
NoSheet == [q \in {} |-> Blank]
Papers == UNION {PapersOf[r] : r \in Rooms}
Sheets == UNION {[p -> Options \cup {Blank}] : p \in Papers}

Seconds == UNION {0 .. Duration[r] : r \in Rooms}

Requests ==
  [kind : {"JOIN_ROOM", "GET_EXAM_PAPER", "GET_TIMER_STATUS"},
   room : Rooms]
  \cup [kind : {"SUBMIT_EXAM"}, room : Rooms, questions : Papers]

\* A GET_TIMER_STATUS reply does not say which exam it is about, and the page
\* does not look at the exam_id of a SUBMIT_EXAM reply: there, room is history.
Replies ==
  [kind : {"JOIN_ROOM", "SUBMIT_EXAM"}, room : Rooms]
  \cup [kind : {"GET_EXAM_PAPER"}, room : Rooms, questions : Papers]
  \cup [kind : {"GET_TIMER_STATUS"}, room : Rooms, remaining : Seconds]

Lifecycle == INSTANCE ExamLifecycle WITH
  Sittings <- Rooms, Papers <- Papers \cup {{}}, NoPaper <- {},
  Results <- Papers, NoResult <- {}

TypeOK ==
  /\ phase \in [Rooms -> {"absent", "open", "graded"}]
  /\ paper \in [Rooms -> Papers \cup {{}}]
  /\ result \in [Rooms -> Papers \cup {{}}]
  /\ started \in [Rooms -> 0 .. MaxTime]
  /\ now \in 0 .. MaxTime
  /\ requests \subseteq Requests /\ replies \subseteq Replies
  /\ online \in BOOLEAN /\ failures \in 0 .. MaxFailures
  /\ {selected, joined, exam, of} \subseteq Rooms \cup {NoRoom}
  /\ sheet \in Sheets \cup {NoSheet}
  /\ {autoSubmitted, counting, syncing, due} \subseteq BOOLEAN
  /\ leaked \in Nat
  /\ left \in {Null} \cup Seconds

Init ==
  /\ Lifecycle!Init
  /\ started = [r \in Rooms |-> 0] /\ now = 0
  /\ requests = {} /\ replies = {} /\ online = TRUE /\ failures = 0
  /\ selected = NoRoom /\ joined = NoRoom
  /\ exam = NoRoom /\ sheet = NoSheet /\ autoSubmitted = FALSE
  /\ counting = FALSE /\ syncing = FALSE /\ leaked = 0
  /\ left = Null /\ due = FALSE /\ of = NoRoom

-----------------------------------------------------------------------------
(* The page: what it sends. *)

\* send drops the message when the WebSocket is not open.
Send(m) == requests' = IF online THEN requests \cup {m} ELSE requests

Request(kind, r) == [kind |-> kind, room |-> r]

\* Every question on screen is sent, a blank one too.  What was chosen decides
\* nothing here and is left out of the message.
Submission ==
  [kind |-> "SUBMIT_EXAM", room |-> exam, questions |-> DOMAIN sheet]

RoomInFlight == Cardinality(requests) + Cardinality(replies) < MaxInFlight

Select(r) ==
  /\ selected # r
  /\ selected' = r
  /\ UNCHANGED <<server, now, wire, joined, screen, timers>>

\* The button is disabled once the selected room is the joined one.
ClickJoin ==
  /\ selected # NoRoom
  /\ selected # joined
  /\ RoomInFlight
  /\ Send(Request("JOIN_ROOM", selected))
  /\ UNCHANGED <<server, now, replies, online, failures, page>>

\* Enabled while the joined room is selected and no exam is on screen.
ClickGetPaper ==
  /\ selected # NoRoom
  /\ joined = selected
  /\ exam = NoRoom
  /\ RoomInFlight
  /\ Send(Request("GET_EXAM_PAPER", selected))
  /\ UNCHANGED <<server, now, replies, online, failures, page>>

Choose(q, o) ==
  /\ q \in DOMAIN sheet
  /\ sheet' = [sheet EXCEPT ![q] = o]
  /\ UNCHANGED <<server, now, wire, lobby, exam, autoSubmitted, timers>>

\* The confirmation is given; a submission does not clear the screen, its
\* reply does.
ClickSubmit ==
  /\ exam # NoRoom
  /\ joined = selected
  /\ RoomInFlight
  /\ Send(Submission)
  /\ UNCHANGED <<server, now, replies, online, failures, page>>

-----------------------------------------------------------------------------
(* The countdown. *)

\* clearInterval on both intervals the page still refers to.  Once the beats
\* have stopped localRemaining is not read again.
StopTimers ==
  /\ counting' = FALSE /\ syncing' = FALSE
  /\ left' = Null /\ due' = FALSE /\ of' = NoRoom

\* Only examTimerInterval is cleared first: an earlier sync interval goes on.
StartExamTimer(r) ==
  /\ counting' = TRUE /\ left' = Null /\ due' = FALSE /\ of' = NoRoom
  /\ leaked' = IF syncing THEN leaked + 1 ELSE leaked
  /\ syncing' = TRUE
  /\ Send(Request("GET_TIMER_STATUS", r))

CanAutoSubmit == ~ autoSubmitted /\ joined = selected /\ exam # NoRoom

AutoSubmitExam ==
  \/ /\ CanAutoSubmit
     /\ autoSubmitted' = TRUE
     /\ Send(Submission)
  \/ /\ ~ CanAutoSubmit
     /\ UNCHANGED <<autoSubmitted, requests>>

\* "Time is up - submitting automatically".
TimeUp ==
  /\ StopTimers
  /\ AutoSubmitExam

\* Mutant: two countdowns share localRemaining, the earlier one not cleared.
BeatTwice ==
  /\ counting
  /\ \/ left = 1 /\ TimeUp
     \/ /\ left > 1
        /\ left' = left - 1
        /\ UNCHANGED <<counting, due, syncing, of, autoSubmitted, requests>>
  /\ UNCHANGED <<server, now, replies, online, failures, lobby, exam, sheet, leaked>>

\* One second of the countdown.
Beat ==
  /\ counting /\ due
  /\ \/ left = 1 /\ TimeUp
     \/ /\ left # 1
        /\ left' = IF left > 1 THEN left - 1 ELSE left
        /\ due' = FALSE
        /\ UNCHANGED <<counting, syncing, of, autoSubmitted, requests>>
  /\ UNCHANGED <<server, now, replies, online, failures, lobby, exam, sheet, leaked>>

ExamRuns == exam # NoRoom /\ ~ autoSubmitted

\* A serverSyncInterval fires, its period left open, with an exam to ask for.
Sync ==
  /\ syncing \/ leaked > 0
  /\ ExamRuns
  /\ RoomInFlight
  /\ Send(Request("GET_TIMER_STATUS", exam))
  /\ UNCHANGED <<server, now, replies, online, failures, page>>

\* It fires with none: it clears itself and whatever countdown runs.
SyncStops ==
  /\ ~ ExamRuns
  /\ \/ syncing /\ syncing' = FALSE /\ UNCHANGED leaked
     \/ leaked > 0 /\ leaked' = leaked - 1 /\ UNCHANGED syncing
  /\ counting' = FALSE /\ left' = Null /\ due' = FALSE /\ of' = NoRoom
  /\ UNCHANGED <<server, now, wire, lobby, screen>>

-----------------------------------------------------------------------------
(* The page: the replies that arrive. *)

Take(m, kind) ==
  /\ m.kind = kind
  /\ replies' = replies \ {m}

\* The room is joined, and whatever exam was on screen is cleared.
ArriveJoin(m) ==
  /\ Take(m, "JOIN_ROOM")
  /\ joined' = m.room
  /\ exam' = NoRoom /\ sheet' = NoSheet /\ autoSubmitted' = FALSE
  /\ StopTimers
  /\ UNCHANGED <<server, now, requests, online, failures, selected, leaked>>

\* Mutants: the exam id is taken and the questions on screen are kept; the
\* flag of an earlier submission stays.
ArrivePaperKeepingSheet(m) ==
  /\ Take(m, "GET_EXAM_PAPER")
  /\ exam' = m.room
  /\ sheet' = IF sheet = NoSheet THEN [q \in m.questions |-> Blank] ELSE sheet
  /\ autoSubmitted' = FALSE
  /\ StartExamTimer(m.room)
  /\ UNCHANGED <<server, now, online, failures, lobby>>
ArrivePaperKeepingFlag(m) ==
  /\ Take(m, "GET_EXAM_PAPER")
  /\ exam' = m.room
  /\ sheet' = [q \in m.questions |-> Blank]
  /\ StartExamTimer(m.room)
  /\ UNCHANGED <<server, now, online, failures, lobby, autoSubmitted>>

ArrivePaper(m) ==
  /\ Take(m, "GET_EXAM_PAPER")
  /\ exam' = m.room
  /\ sheet' = [q \in m.questions |-> Blank]
  /\ autoSubmitted' = FALSE
  /\ StartExamTimer(m.room)
  /\ UNCHANGED <<server, now, online, failures, lobby>>

\* window.updateExamTimer, whichever exam the status is about.
ArriveTimer(m) ==
  /\ Take(m, "GET_TIMER_STATUS")
  /\ \/ m.remaining = 0 /\ ~ autoSubmitted /\ TimeUp
     \/ /\ m.remaining > 0 \/ autoSubmitted
        /\ left' = IF counting THEN m.remaining ELSE Null
        /\ of' = IF counting THEN m.room ELSE NoRoom
        /\ UNCHANGED <<counting, due, syncing, autoSubmitted, requests>>
  /\ UNCHANGED <<server, now, online, failures, lobby, exam, sheet, leaked>>

\* The reply of a submission clears the exam on screen, whichever it is.
ArriveSubmit(m) ==
  /\ Take(m, "SUBMIT_EXAM")
  /\ exam' = NoRoom /\ sheet' = NoSheet /\ autoSubmitted' = TRUE
  /\ StopTimers
  /\ UNCHANGED <<server, now, requests, online, failures, lobby, leaked>>

-----------------------------------------------------------------------------
(* The server: what a worker does with a request. *)

Serve(m, kind) ==
  /\ m.kind = kind
  /\ requests' = requests \ {m}

Reply(reply) == replies' = IF online THEN replies \cup {reply} ELSE replies

\* Joining again is harmless, and the page asks for a paper only in a room it
\* joined: room_participants decides nothing here.
JoinRoom(m) ==
  /\ Serve(m, "JOIN_ROOM")
  /\ Reply([kind |-> "JOIN_ROOM", room |-> m.room])
  /\ UNCHANGED <<server, now, online, failures, page>>

EndOf(r) == started[r] + Duration[r]

StartAt(r) ==
  IF phase[r] = "absent" THEN [started EXCEPT ![r] = now] ELSE started

\* Mutant: the paper is issued whenever it is asked for.
GetExamPaperAgain(m) ==
  /\ Serve(m, "GET_EXAM_PAPER")
  /\ now + Duration[m.room] <= MaxTime
  /\ \E p \in PapersOf[m.room] : paper' = [paper EXCEPT ![m.room] = p]
  /\ phase' = [phase EXCEPT ![m.room] = "open"]
  /\ started' = StartAt(m.room)
  /\ Reply([kind |-> "GET_EXAM_PAPER", room |-> m.room, questions |-> paper'[m.room]])
  /\ UNCHANGED <<result, now, online, failures, page>>

GetExamPaper(m) ==
  /\ Serve(m, "GET_EXAM_PAPER")
  /\ now + Duration[m.room] <= MaxTime
  /\ Lifecycle!Issue(m.room)
  /\ paper'[m.room] \in PapersOf[m.room]
  /\ started' = StartAt(m.room)
  /\ Reply([kind |-> "GET_EXAM_PAPER", room |-> m.room, questions |-> paper'[m.room]])
  /\ UNCHANGED <<now, online, failures, page>>

\* The transaction fails after ensure_exam inserted the row.
LosePaper(m) ==
  /\ Serve(m, "GET_EXAM_PAPER")
  /\ now + Duration[m.room] <= MaxTime
  /\ Lifecycle!Open(m.room)
  /\ started' = StartAt(m.room)
  /\ UNCHANGED <<now, replies, online, failures, page>>

\* Mutant: the page takes the remaining time as it comes.
RemainingUnclamped(r) == EndOf(r) - now

\* Counted from exams.start_at; the page reads what is not positive as 0.
Remaining(r) ==
  IF now < EndOf(r) THEN EndOf(r) - now ELSE 0

GetTimerStatus(m) ==
  /\ Serve(m, "GET_TIMER_STATUS")
  /\ phase[m.room] # "absent"
  /\ Reply([kind |-> "GET_TIMER_STATUS", room |-> m.room,
               remaining |-> Remaining(m.room)])
  /\ UNCHANGED <<server, now, online, failures, page>>

SubmitExam(m) ==
  /\ Serve(m, "SUBMIT_EXAM")
  /\ m.room \in Rooms
  /\ result' = [result EXCEPT ![m.room] = m.questions]
  /\ Lifecycle!Grade({m.room})
  /\ Reply([kind |-> "SUBMIT_EXAM", room |-> m.room])
  /\ UNCHANGED <<started, now, online, failures, page>>

\* What the handlers refuse by their own checks: a paper already retrieved, an
\* exam already submitted.
Refused(m) ==
  \/ m.kind = "GET_EXAM_PAPER" /\ paper[m.room] # {}
  \/ m.kind = "SUBMIT_EXAM" /\ phase[m.room] = "graded"

Refuse(m) ==
  /\ Refused(m)
  /\ requests' = requests \ {m}
  /\ UNCHANGED <<server, now, replies, online, failures, page>>

\* Refused for another reason: a wrong password, an expired session, a locked
\* file.  A timer status that is refused is no worse than one that is late.
Fail(m) ==
  /\ m.kind # "GET_TIMER_STATUS"
  /\ \/ m.kind # "SUBMIT_EXAM" /\ UNCHANGED failures
     \/ m.kind = "SUBMIT_EXAM" /\ failures < MaxFailures /\ failures' = failures + 1
  /\ requests' = requests \ {m}
  /\ UNCHANGED <<server, now, replies, online, page>>

-----------------------------------------------------------------------------
(* The connection and the clock. *)

\* Any of the requests may have been read before the connection closed.
Disconnect ==
  /\ online
  /\ online' = FALSE
  /\ replies' = {}
  /\ requests' \in SUBSET requests
  /\ UNCHANGED <<server, now, failures, page>>

\* The connect button; the page keeps its state.  Connecting by hand takes
\* longer than serving the requests that were left.
Reconnect ==
  /\ ~ online /\ requests = {}
  /\ online' = TRUE
  /\ UNCHANGED <<server, now, requests, replies, failures, page>>

\* The page is loaded anew, and the student logs in again.
Reload ==
  /\ ~ online /\ requests = {}
  /\ online' = TRUE
  /\ selected' = NoRoom /\ joined' = NoRoom
  /\ exam' = NoRoom /\ sheet' = NoSheet /\ autoSubmitted' = FALSE
  /\ StopTimers /\ leaked' = 0
  /\ UNCHANGED <<server, now, requests, replies, failures>>

\* The student's clock and the server's run at the same speed.  At MaxTime
\* every exam is over and the hour no longer matters; seconds still pass.
Tick ==
  /\ now < MaxTime \/ (counting /\ ~ due)
  /\ now' = IF now < MaxTime THEN now + 1 ELSE now
  /\ due' = counting
  /\ UNCHANGED <<server, wire, lobby, screen, counting, left, of, syncing, leaked>>

-----------------------------------------------------------------------------
Click ==
  \/ \E r \in Rooms : Select(r)
  \/ \E p \in Papers : \E q \in p, o \in Options : Choose(q, o)
  \/ ClickJoin \/ ClickGetPaper \/ ClickSubmit

Timer == Beat \/ Sync \/ SyncStops

Arrive(m) ==
  ArriveJoin(m) \/ ArrivePaper(m) \/ ArriveTimer(m) \/ ArriveSubmit(m)

Handle(m) ==
  \/ JoinRoom(m) \/ GetExamPaper(m) \/ GetTimerStatus(m) \/ SubmitExam(m)
  \/ Refuse(m)

Trouble ==
  \/ \E m \in requests : Fail(m) \/ LosePaper(m)
  \/ Disconnect \/ Reconnect \/ Reload

Next ==
  \/ Click \/ Timer \/ Trouble \/ Tick
  \/ \E m \in requests : Handle(m)
  \/ \E m \in replies : Arrive(m)

Spec == Init /\ [][Next]_vars

\* The server serves and the replies arrive, the browser's intervals fire and
\* time passes.  Nothing obliges the student, and no failure has to happen.
FairSpec ==
  /\ Spec
  /\ WF_vars(Tick) /\ WF_vars(Beat)
  /\ \A r \in Rooms :
       /\ WF_vars(\E m \in requests :
                    m.room = r /\ m.kind = "SUBMIT_EXAM" /\ (SubmitExam(m) \/ Refuse(m)))
       /\ WF_vars(\E m \in requests :
                    m.room = r /\ m.kind = "GET_TIMER_STATUS" /\ GetTimerStatus(m))
       /\ WF_vars(\E m \in replies : m.room = r /\ ArriveTimer(m))

-----------------------------------------------------------------------------
(* What the student may rely on. *)

\* Whatever room is selected, joined or left while replies are under way, a
\* submission answers the questions of its own exam's paper, and so does the
\* result (handleMessage, autoSubmitExam, get_exam_paper, submit_exam).
SubmissionMatchesPaper ==
  /\ \A m \in requests :
       m.kind = "SUBMIT_EXAM" => paper[m.room] # {} /\ m.questions = paper[m.room]
  /\ \A r \in Rooms : phase[r] = "graded" => result[r] = paper[r]

\* A choice made on screen is not lost while the exam stays there: no second
\* reply of GET_EXAM_PAPER draws the questions again (get_exam_paper, "Cannot
\* get it twice").
ChoicesKept ==
  [][\A q \in DOMAIN sheet :
       exam' = exam /\ sheet[q] # Blank =>
         q \in DOMAIN sheet' /\ sheet'[q] # Blank]_vars

\* The step acts on the time of the exam on screen: the status that arrives, or
\* else the one counted down, is about that exam.
OwnTime ==
  /\ \A m \in replies \ replies' : m.room = exam
  /\ replies' = replies => of = exam

\* An automatic submission that acts on its own exam's timer status comes at
\* most a second before the server says the exam ends, whatever delay the
\* status had (startExamTimer, get_timer_status).
AutoOnTime ==
  [][~ autoSubmitted /\ autoSubmitted' /\ exam' = exam /\ OwnTime =>
       now + 1 >= EndOf(exam)]_vars

\* The countdown runs and has the server's time, or will have it.
CountsDown ==
  /\ counting
  /\ left # Null \/ \E m \in requests \cup replies : m.kind = "GET_TIMER_STATUS"

\* An exam that stays on screen while its countdown runs, with the joined room
\* selected, is submitted when its time is over and graded, unless the
\* connection, the session or the database failed (startExamTimer,
\* autoSubmitExam, submit_exam).
ShownIsSubmitted ==
  \A r \in Rooms :
    (exam = r /\ CountsDown)
      ~> (phase[r] = "graded" \/ exam # r \/ selected # joined \/ failures > 0 \/ ~ online)

-----------------------------------------------------------------------------
(* What the page says and does not do. *)

\* webapp/public/main.js:957 announces the automatic submission; autoSubmitExam
\* then returns without one when another room is selected in the lobby.
TimeUpSubmits ==
  [][exam # NoRoom /\ exam' = exam /\ ~ autoSubmitted /\ counting /\ ~ counting'
     /\ online => Submission \in requests']_vars
=============================================================================
