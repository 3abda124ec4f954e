------------------------------ MODULE ExamRoom ------------------------------
(***************************************************************************)
(* Exam rooms: the tables rooms, room_participants, exams, exam_questions  *)
(* and answers, and the RoomManager methods of server/src/room.cpp that    *)
(* write them, as the request handlers of server/src/main.cpp call them.   *)
(*                                                                         *)
(* Every RoomManager method holds the recursive db_mutex_ for its whole    *)
(* body, so against one another the methods are atomic and each is one     *)
(* action; methods of different requests interleave freely.  A request     *)
(* that is refused changes nothing and is a stuttering step.               *)
(*                                                                         *)
(* A key <<room, user>> stands for the row of exams (and of                *)
(* room_participants) that UNIQUE(room_id, user_id) allows: no statement   *)
(* of the program deletes such a row, and AUTOINCREMENT never gives the id *)
(* of a deleted room to another one.                                       *)
(***************************************************************************)
EXTENDS Integers, FiniteSets

CONSTANTS Users,          \* users.id
          MaxRooms,       \* bound: rooms created in one behaviour
          MaxTime,        \* bound: last second of the clock
          Questions,      \* questions.id of the seeded bank
          Options,        \* the letters a student can select
          Correct,        \* questions.correct_option
          NoOption,       \* no row in answers for a question
          Durations,      \* rooms.duration_sec
          Sizes,          \* rooms.total_questions
          Faults,         \* the statements that may find the file locked
          AutoSubmitWorker \* whether main.cpp starts auto_submit_worker

\* "paper": the transaction of get_exam_paper cannot begin or commit.
\* "grade": a statement of a grading, one of its SELECTs or its UPDATE,
\* returns SQLITE_BUSY.
FaultKinds == {"paper", "grade"}

ASSUME UsersAssumption == Users # {}
ASSUME BoundsAssumption == MaxRooms \in Nat /\ MaxTime \in Nat
ASSUME BankAssumption ==
  /\ IsFiniteSet(Questions) /\ Questions # {}
  /\ NoOption \notin Options
  /\ Correct \in [Questions -> Options]
\* The creator's duration_minutes is not checked, it may be negative.
ASSUME SettingsAssumption ==
  /\ Durations \subseteq Int
  /\ Sizes \subseteq Nat \ {0}
ASSUME FaultAssumption == Faults \subseteq FaultKinds
ASSUME WorkerAssumption == AutoSubmitWorker \in BOOLEAN

VARIABLES
  rooms,         \* table rooms: a row for each id in its domain
  lastRoom,      \* the AUTOINCREMENT counter of rooms
  participants,  \* table room_participants: a set of keys
  exams,         \* table exams: a row for each key in its domain
  paper,         \* table exam_questions: the questions of each exam
  answers,       \* table answers: each exam's sheet
  now,           \* system_clock, in seconds
  handed,        \* the ExamPapers that GET_EXAM_PAPER has replied, by key
  told           \* the results that SUBMIT_EXAM has replied, by key

vars == <<rooms, lastRoom, participants, exams, paper, answers, now,
          handed, told>>

-----------------------------------------------------------------------------
RoomIds == 1 .. MaxRooms
Keys == RoomIds \X Users
Null == -1

Statuses == {"WAITING", "IN_PROGRESS", "FINISHED"}

RoomRows == [status : Statuses, creator : Users, created_at : Nat,
             duration : Durations, size : Sizes]

ExamRows == [start_at : Nat, end_at : Int, submitted_at : Nat \cup {Null},
             correct : Nat, total : Nat]

ExamPapers == [paper : SUBSET Questions, start_time : Nat, end_time : Int]

Results == [correct : Nat, total : Nat]

Sheets == [Questions -> Options \cup {NoOption}]

BlankSheet == [q \in Questions |-> NoOption]

\* INSERT of a row, or UPDATE of the row with that key.
Put(table, key, row) ==
  [k \in DOMAIN table \cup {key} |-> IF k = key THEN row ELSE table[k]]

\* INSERT ... ON CONFLICT DO UPDATE for every answer of the request.
Overlay(sheet, batch) ==
  [q \in Questions |-> IF q \in DOMAIN batch THEN batch[q] ELSE sheet[q]]

Answered(sheet) == {q \in Questions : sheet[q] # NoOption}
Right(sheet) == {q \in Questions : sheet[q] = Correct[q]}

-----------------------------------------------------------------------------
TypeOK ==
  /\ DOMAIN rooms \subseteq RoomIds
  /\ \A r \in DOMAIN rooms : rooms[r] \in RoomRows
  /\ lastRoom \in 0 .. MaxRooms
  /\ participants \subseteq Keys
  /\ DOMAIN exams \subseteq Keys
  /\ \A e \in DOMAIN exams : exams[e] \in ExamRows
  /\ paper \in [Keys -> SUBSET Questions]
  /\ answers \in [Keys -> Sheets]
  /\ now \in Nat
  /\ handed \in [Keys -> SUBSET ExamPapers]
  /\ told \in [Keys -> SUBSET Results]

Init ==
  /\ rooms = [r \in {} |-> {}]
  /\ lastRoom = 0
  /\ participants = {}
  /\ exams = [e \in {} |-> {}]
  /\ paper = [e \in Keys |-> {}]
  /\ answers = [e \in Keys |-> BlankSheet]
  /\ now = 0
  /\ handed = [e \in Keys |-> {}]
  /\ told = [e \in Keys |-> {}]

\* Room r exists with the given status.
RoomIs(r, st) == r \in DOMAIN rooms /\ rooms[r].status = st

IsOpen(e) == e \in DOMAIN exams /\ exams[e].submitted_at = Null
IsSubmitted(e) == e \in DOMAIN exams /\ exams[e].submitted_at # Null

-----------------------------------------------------------------------------
(* Rooms. *)

\* Mutant: ids without AUTOINCREMENT, the largest id in use plus one.
CreateRoomReusingIds(u, d, n) ==
  \E r \in RoomIds :
    /\ r \notin DOMAIN rooms
    /\ r = 1 \/ r - 1 \in DOMAIN rooms
    /\ lastRoom' = r
    /\ rooms' = Put(rooms, r,
                    [status |-> "WAITING", creator |-> u, created_at |-> now,
                     duration |-> d, size |-> n])
    /\ UNCHANGED <<participants, exams, paper, answers, now, handed, told>>

\* The room code is made of the second and the creator, and it is UNIQUE.
CreateRoom(u, d, n) ==
  /\ lastRoom < MaxRooms
  /\ \A r \in DOMAIN rooms : <<rooms[r].created_at, rooms[r].creator>> # <<now, u>>
  /\ lastRoom' = lastRoom + 1
  /\ rooms' = Put(rooms, lastRoom + 1,
                  [status |-> "WAITING", creator |-> u, created_at |-> now,
                   duration |-> d, size |-> n])
  /\ UNCHANGED <<participants, exams, paper, answers, now, handed, told>>

\* INSERT OR IGNORE: joining again is harmless.
JoinRoom(r, u) ==
  /\ RoomIs(r, "WAITING") \/ RoomIs(r, "IN_PROGRESS")
  /\ participants' = participants \cup {<<r, u>>}
  /\ UNCHANGED <<rooms, lastRoom, exams, paper, answers, now, handed, told>>

\* Mutant: a status the CHECK of rooms does not allow.
SetStatusUnchecked(r, st) ==
  rooms' = [rooms EXCEPT ![r].status = IF st = "FINISHED" THEN "SUBMITTED" ELSE st]

SetStatus(r, st) == rooms' = [rooms EXCEPT ![r].status = st]

StartRoom(r, u) ==
  /\ RoomIs(r, "WAITING")
  /\ rooms[r].creator = u
  /\ SetStatus(r, "IN_PROGRESS")
  /\ UNCHANGED <<lastRoom, participants, exams, paper, answers, now, handed, told>>

FinishRoom(r, u) ==
  /\ RoomIs(r, "IN_PROGRESS")
  /\ rooms[r].creator = u
  /\ SetStatus(r, "FINISHED")
  /\ UNCHANGED <<lastRoom, participants, exams, paper, answers, now, handed, told>>

\* Mutant: the deletion takes the exams of the room with it.
DeleteRoomCascading(r, u) ==
  /\ r \in DOMAIN rooms
  /\ rooms[r].creator = u
  /\ rooms[r].status # "IN_PROGRESS"
  /\ rooms' = [x \in DOMAIN rooms \ {r} |-> rooms[x]]
  /\ participants' = {e \in participants : e[1] # r}
  /\ exams' = [e \in {k \in DOMAIN exams : k[1] # r} |-> exams[e]]
  /\ UNCHANGED <<lastRoom, paper, answers, now, handed, told>>

\* foreign_keys is off on this connection, so nothing cascades.
DeleteRoom(r, u) ==
  /\ r \in DOMAIN rooms
  /\ rooms[r].creator = u
  /\ rooms[r].status # "IN_PROGRESS"
  /\ rooms' = [x \in DOMAIN rooms \ {r} |-> rooms[x]]
  /\ UNCHANGED <<lastRoom, participants, exams, paper, answers, now, handed, told>>

-----------------------------------------------------------------------------
(* The exam paper. *)

\* pick_questions: a random choice of the size the room asks for, or the
\* whole bank when it is smaller.
Picks(n) ==
  {Q \in SUBSET Questions :
     \/ Cardinality(Q) = n
     \/ Cardinality(Questions) < n /\ Q = Questions}

\* Mutant: the two times of the INSERT are bound in the wrong order.
EnsuredRowSwapped(e, start, end) ==
  IF e \in DOMAIN exams
  THEN exams[e]
  ELSE [start_at |-> end, end_at |-> start, submitted_at |-> Null,
        correct |-> 0, total |-> 0]

\* ensure_exam: the row found, or the one inserted with the given times.
EnsuredRow(e, start, end) ==
  IF e \in DOMAIN exams
  THEN exams[e]
  ELSE [start_at |-> start, end_at |-> end, submitted_at |-> Null,
        correct |-> 0, total |-> 0]

\* The transaction that picks the questions and saves them, and the reply:
\* it carries the times of this request, not those of the stored row.
IssuePaper(e, start, end) ==
  \E Q \in Picks(rooms[e[1]].size) :
    /\ Q # {}
    /\ exams' = Put(exams, e,
                    [EnsuredRow(e, start, end) EXCEPT !.total = Cardinality(Q)])
    /\ paper' = [paper EXCEPT ![e] = Q]
    /\ handed' = [handed EXCEPT ![e] = @ \cup
                    {[paper |-> Q, start_time |-> start, end_time |-> end]}]

\* BEGIN IMMEDIATE or COMMIT fails.  The row of exams was inserted before
\* the transaction and stays.
LosePaper(e, start, end) ==
  /\ "paper" \in Faults
  /\ exams' = Put(exams, e, EnsuredRow(e, start, end))
  /\ UNCHANGED <<paper, handed>>

\* Mutant: no check that the paper was already retrieved.
GetExamPaperAgain(e) ==
  /\ RoomIs(e[1], "IN_PROGRESS")
  /\ e \in participants
  /\ LET start == now
         end == now + rooms[e[1]].duration
     IN IssuePaper(e, start, end) \/ LosePaper(e, start, end)
  /\ UNCHANGED <<rooms, lastRoom, participants, answers, now, told>>

GetExamPaper(e) ==
  /\ RoomIs(e[1], "IN_PROGRESS")
  /\ e \in participants
  /\ paper[e] = {}
  /\ LET start == now
         end == now + rooms[e[1]].duration
     IN IssuePaper(e, start, end) \/ LosePaper(e, start, end)
  /\ UNCHANGED <<rooms, lastRoom, participants, answers, now, told>>

\* get_timer_status, when its JOIN finds the room of the exam.
TimerRemaining(e) ==
  LET elapsed == IF now > exams[e].start_at THEN now - exams[e].start_at ELSE 0
  IN rooms[e[1]].duration - elapsed

-----------------------------------------------------------------------------
(* Answers and grading. *)

\* Both clients take the exam id and the questions from the paper they got,
\* and the handlers drop the questions left blank.
KnowsExam(e) == handed[e] # {}
Batches(e) == UNION {[S -> Options] : S \in SUBSET paper[e]}

\* submit_answers, each row in a transaction of its own: a batch cut short by
\* a failing row, or by the death of the process, is a smaller batch.  So is
\* a submit_exam that saves answers and dies before it records the grade.
SubmitAnswers(e, batch) ==
  /\ KnowsExam(e)
  /\ e \in DOMAIN exams
  /\ answers' = [answers EXCEPT ![e] = Overlay(@, batch)]
  /\ UNCHANGED <<rooms, lastRoom, participants, exams, paper, now, handed, told>>

\* The grading loops that come back empty because the file is locked.
Unread(S) == IF "grade" \in Faults THEN SUBSET S ELSE {{}}

Seen(e, sheet, unread) == IF e \in unread THEN BlankSheet ELSE sheet

\* Mutant: the answers of the request are added to those counted in the table.
GradeOfTwice(seen, fallback) ==
  [correct |-> Cardinality(Right(seen)),
   total |-> Cardinality(Answered(seen)) + fallback]

\* What the grading loop counts on the sheet it sees, given the total it
\* falls back on when it counts no answer.
GradeOf(seen, fallback) ==
  LET total == Cardinality(Answered(seen))
  IN [correct |-> Cardinality(Right(seen)),
      total |-> IF total = 0 THEN fallback ELSE total]

Graded(row, grade) ==
  [row EXCEPT !.submitted_at = now, !.correct = grade.correct, !.total = grade.total]

\* Mutant: no check that the exam was already submitted.
SubmitExamTwice(e, batch) ==
  /\ KnowsExam(e)
  /\ answers' = [answers EXCEPT ![e] = Overlay(@, batch)]
  /\ LET grade == GradeOf(Overlay(answers[e], batch), Cardinality(DOMAIN batch))
     IN /\ exams' = [exams EXCEPT ![e] = Graded(@, grade)]
        /\ told' = [told EXCEPT ![e] = @ \cup {grade}]
  /\ UNCHANGED <<rooms, lastRoom, participants, paper, now, handed>>

\* Mutant: graded before the answers of the request are saved.
SubmitExamUnsaved(e, batch) ==
  /\ KnowsExam(e)
  /\ IsOpen(e)
  /\ answers' = [answers EXCEPT ![e] = Overlay(@, batch)]
  /\ LET grade == GradeOf(answers[e], Cardinality(DOMAIN batch))
     IN /\ exams' = [exams EXCEPT ![e] = Graded(@, grade)]
        /\ told' = [told EXCEPT ![e] = @ \cup {grade}]
  /\ UNCHANGED <<rooms, lastRoom, participants, paper, now, handed>>

SubmitExam(e, batch) ==
  /\ KnowsExam(e)
  /\ IsOpen(e)
  /\ answers' = [answers EXCEPT ![e] = Overlay(@, batch)]
  /\ \E unread \in Unread({e}) :
       LET grade == GradeOf(Seen(e, Overlay(answers[e], batch), unread),
                            Cardinality(DOMAIN batch))
       IN /\ exams' = [exams EXCEPT ![e] = Graded(@, grade)]
          /\ told' = [told EXCEPT ![e] = @ \cup {grade}]
  /\ UNCHANGED <<rooms, lastRoom, participants, paper, now, handed>>

\* Mutant: exams already submitted are selected too.
ExpiredSubmittedToo == {e \in DOMAIN exams : exams[e].end_at < now}

\* The exams that auto_submit_expired_exams selects.
Expired == {e \in DOMAIN exams : IsOpen(e) /\ exams[e].end_at < now}

\* The exams of a run that are found and whose UPDATE goes through.
Recorded(S) == IF "grade" \in Faults THEN SUBSET S ELSE {S}

\* The worker falls back on the stored total, which it reads by a SELECT of
\* its own.
StoredTotal(e, unread) == IF e \in unread THEN 0 ELSE exams[e].total

AutoGraded(e, unread, uncounted) ==
  Graded(exams[e], GradeOf(Seen(e, answers[e], unread), StoredTotal(e, uncounted)))

\* One run of auto_submit_expired_exams: an exam that fails is skipped.
AutoSubmit ==
  /\ AutoSubmitWorker
  /\ \E S \in Recorded(Expired) : \E unread, uncounted \in Unread(S) :
       /\ S # {}
       /\ exams' = [e \in DOMAIN exams |->
                      IF e \in S THEN AutoGraded(e, unread, uncounted) ELSE exams[e]]
  /\ UNCHANGED <<rooms, lastRoom, participants, paper, answers, now, handed, told>>

Tick ==
  /\ now < MaxTime
  /\ now' = now + 1
  /\ UNCHANGED <<rooms, lastRoom, participants, exams, paper, answers, handed, told>>

-----------------------------------------------------------------------------
Next ==
  \/ \E u \in Users, d \in Durations, n \in Sizes : CreateRoom(u, d, n)
  \/ \E r \in RoomIds, u \in Users :
       JoinRoom(r, u) \/ StartRoom(r, u) \/ FinishRoom(r, u) \/ DeleteRoom(r, u)
  \/ \E e \in Keys : GetExamPaper(e)
  \/ \E e \in Keys : \E batch \in Batches(e) :
       SubmitAnswers(e, batch) \/ SubmitExam(e, batch)
  \/ AutoSubmit
  \/ Tick

Spec == Init /\ [][Next]_vars

-----------------------------------------------------------------------------
(* What the rooms, papers and grades must satisfy. *)

\* Every exam belongs to a student who joined the room, in a room that was
\* started: no id of a deleted room is given to a room still waiting, whose
\* exams would then be those of other students (create_room, delete_room,
\* join_room, start_room, get_exam_paper).
ExamOfParticipant ==
  \A e \in DOMAIN exams : e \in participants /\ ~ RoomIs(e[1], "WAITING")

\* A student is handed one paper in one reply, and it is the one stored for
\* grading, however often and from however many connections it is asked for
\* (get_exam_paper, "Cannot get it twice").
OnePaper ==
  \A e \in Keys : \A h \in handed[e] :
    h.paper = paper[e] /\ \A g \in handed[e] : g = h

\* GET_TIMER_STATUS, and the end the worker looks at, never leave a student
\* more time than the paper handed out says, also when the row of exams is
\* older than the paper because an earlier transaction failed
\* (get_exam_paper, ensure_exam, get_timer_status).
TimerWithinPaper ==
  \A e \in Keys : \A h \in handed[e] :
    /\ exams[e].end_at <= h.end_time
    /\ e[1] \in DOMAIN rooms => TimerRemaining(e) <= h.end_time - now

\* The result a student was told is the one the room results and the history
\* show, and nobody is told two results (submit_exam, get_room_results).
ToldIsRecorded ==
  \A e \in Keys : \A t \in told[e] :
    /\ IsSubmitted(e)
    /\ t = [correct |-> exams[e].correct, total |-> exams[e].total]

\* Nothing is graded that is not on the paper, and the score lies between 0
\* and 10 (submit_answers, submit_exam, auto_submit_expired_exams).
ResultWithinPaper ==
  \A e \in DOMAIN exams :
    /\ Answered(answers[e]) \subseteq paper[e]
    /\ exams[e].correct <= exams[e].total
    /\ exams[e].total <= Cardinality(paper[e])

\* A result that was recorded is final: no submission, worker, late request
\* for a paper, or deletion of its room changes it or removes it.
ResultsFinal ==
  [][\A e \in DOMAIN exams :
       IsSubmitted(e) => e \in DOMAIN exams' /\ exams'[e] = exams[e]]_vars

\* The step that grades an exam counts the right answers of the sheet as that
\* step leaves it, whether the student or the worker submits (submit_exam,
\* auto_submit_expired_exams).
GradeOnSubmission ==
  [][\A e \in DOMAIN exams :
       IsOpen(e) /\ IsSubmitted(e)' =>
         exams'[e].correct = Cardinality(Right(answers'[e]))]_vars

-----------------------------------------------------------------------------
(* The promise about one sitting, implemented by the tables. *)

Phase(e) ==
  IF e \notin DOMAIN exams THEN "absent"
  ELSE IF exams[e].submitted_at = Null THEN "open" ELSE "graded"

NoResult == [correct |-> Null, total |-> Null]

Result(e) ==
  IF IsSubmitted(e)
  THEN [correct |-> exams[e].correct, total |-> exams[e].total]
  ELSE NoResult

Lifecycle == INSTANCE ExamLifecycle WITH
  Sittings <- Keys, Papers <- SUBSET Questions, NoPaper <- {},
  Results <- Results, NoResult <- NoResult,
  phase <- [e \in Keys |-> Phase(e)],
  paper <- paper,
  result <- [e \in Keys |-> Result(e)]

\* ExamRoom implements ExamLifecycle.
ImplementsLifecycle == Lifecycle!Spec

-----------------------------------------------------------------------------
(* What the program's texts say and its code does not do. *)

\* server/src/room.cpp:1118 says each student gets a timer of their own
\* "starting from when they get the paper": it ends when the paper the student
\* holds says.  After a transaction that failed it has started before.
TimerAgreesWithPaper ==
  \A e \in Keys : \A h \in handed[e] :
    e[1] \in DOMAIN rooms => TimerRemaining(e) = h.end_time - now
=============================================================================
