---------------------------- MODULE ExamDatabase ----------------------------
(***************************************************************************)
(* GET_EXAM_PAPER, SUBMIT_ANSWER and SUBMIT_EXAM one SQL statement at a    *)
(* time, in a room that is in progress.                                    *)
(*                                                                         *)
(* The server opens the database twice: RoomManager's connection, which    *)
(* one worker at a time uses under db_mutex_, and AuthService's, which     *)
(* another worker uses at the same moment for LOGIN, LOGOUT, REGISTER and  *)
(* the validation of every request.  The file is in rollback-journal mode  *)
(* and no busy handler is set, so a statement that meets the other         *)
(* connection's lock returns SQLITE_BUSY at once.  The process may die     *)
(* between two statements.                                                 *)
(*                                                                         *)
(* ExamRoom describes the same handlers as single steps; this module is    *)
(* shown to implement them.  Time stands still: a handler takes less than  *)
(* the second in which the clock counts.                                   *)
(***************************************************************************)
EXTENDS Integers, FiniteSets

CONSTANTS Users,      \* students who joined the room
          Questions,  \* the question bank
          Options,    \* the letters a student can select
          Correct,    \* questions.correct_option
          NoOption,   \* no row in answers
          LevelOf,    \* questions.difficulty
          AllSettings, \* what rooms' creators may ask for
          Duration    \* rooms.duration_sec

ASSUME DatabaseAssumption ==
  /\ Users # {}
  /\ IsFiniteSet(Questions) /\ Questions # {}
  /\ NoOption \notin Options /\ Correct \in [Questions -> Options]
  /\ Duration \in Int

VARIABLES
  exams, paper, answers,  \* the tables, as committed
  handed, told,           \* what the handlers have replied
  at,        \* the statement the worker that holds db_mutex_ has reached
  user,      \* whose request it is
  batch,     \* the answers it carries and has not saved yet
  carried,   \* the answers it came with
  final,     \* SUBMIT_EXAM, not SUBMIT_ANSWER
  picked,    \* the questions pick_questions chose and not yet inserted
  pending,   \* rows of exam_questions in the open transaction
  seen,      \* the sheet the grading loop has read
  auth,      \* the lock of AuthService's connection
  settings   \* the room's question settings

tables == <<exams, paper, answers, handed, told>>
locals == <<user, batch, carried, final, picked, pending, seen>>
vars == <<tables, at, locals, auth, settings>>

Picker == INSTANCE QuestionPicker WITH Bank <- Questions

ASSUME SettingsAssumption ==
  /\ LevelOf \in [Questions -> Picker!Levels]
  /\ AllSettings \subseteq Picker!Settings

Asked == Picker!WithDefaults(settings)
Sizes == {Picker!WithDefaults(s).total : s \in AllSettings}

room == [status |-> "IN_PROGRESS", creator |-> CHOOSE u \in Users : TRUE,
         created_at |-> 0, duration |-> Duration, size |-> Asked.total]

Room == INSTANCE ExamRoom WITH
  MaxRooms <- 1, MaxTime <- 0, Durations <- {Duration}, Sizes <- Sizes,
  Faults <- {"paper", "grade"}, AutoSubmitWorker <- FALSE,
  rooms <- [r \in {1} |-> room], lastRoom <- 1, participants <- {1} \X Users, now <- 0

Key(u) == <<1, u>>
NoBatch == [q \in {} |-> NoOption]
Nobody == CHOOSE u \in Users : TRUE

PaperStatements == {"paper_check", "ensure_exam", "begin", "load", "insert_question"}
SubmitStatements == {"submit_check", "save_answer", "grade", "record"}

TypeOK ==
  /\ Room!TypeOK
  /\ at \in {"idle"} \cup PaperStatements \cup SubmitStatements
  /\ user \in Users /\ final \in BOOLEAN
  /\ DOMAIN batch \subseteq DOMAIN carried /\ DOMAIN carried \subseteq Questions
  /\ picked \subseteq Questions /\ pending \subseteq Questions
  /\ pending # {} => at = "insert_question"
  /\ seen \in Room!Sheets
  /\ auth \in {"none", "shared", "reserved", "exclusive"}
  /\ settings \in AllSettings

Init ==
  /\ exams = [e \in {} |-> {}]
  /\ paper = [e \in Room!Keys |-> {}]
  /\ answers = [e \in Room!Keys |-> Room!BlankSheet]
  /\ handed = [e \in Room!Keys |-> {}] /\ told = [e \in Room!Keys |-> {}]
  /\ at = "idle" /\ user = Nobody
  /\ batch = NoBatch /\ carried = NoBatch /\ final = FALSE
  /\ picked = {} /\ pending = {} /\ seen = Room!BlankSheet
  /\ auth = "none"
  /\ settings \in AllSettings

-----------------------------------------------------------------------------
(* Locks.  A write needs RESERVED and, to commit, EXCLUSIVE. *)

CanRead == auth # "exclusive"
CanReserve == auth \notin {"reserved", "exclusive"}
CanCommit == auth = "none"

\* The RoomManager connection holds RESERVED from BEGIN IMMEDIATE to the end
\* of the transaction.
InTransaction == at \in {"load", "insert_question"}

Goto(next) == at' = next

\* The method returns and releases db_mutex_; an open transaction is rolled
\* back.
Return ==
  /\ at' = "idle" /\ user' = Nobody /\ batch' = NoBatch /\ carried' = NoBatch
  /\ final' = FALSE /\ picked' = {} /\ pending' = {} /\ seen' = Room!BlankSheet
  /\ UNCHANGED auth

Refuse == Return /\ UNCHANGED tables

-----------------------------------------------------------------------------
(* get_exam_paper *)

CallGetExamPaper(u) ==
  /\ at = "idle"
  /\ at' = "paper_check" /\ user' = u
  /\ UNCHANGED <<tables, batch, carried, final, picked, pending, seen, auth>>

\* The room is read and the participant looked up.
PaperCheck ==
  /\ at = "paper_check"
  /\ IF CanRead
     THEN Goto("ensure_exam") /\ UNCHANGED <<tables, locals, auth>>
     ELSE Refuse

\* A row that exists is found; a read that fails falls through to the INSERT,
\* which fails too.
EnsureExam ==
  /\ at = "ensure_exam"
  /\ \/ /\ Key(user) \in DOMAIN exams /\ CanRead
        /\ Goto("begin") /\ UNCHANGED <<tables, locals, auth>>
     \/ /\ Key(user) \notin DOMAIN exams /\ CanCommit
        /\ exams' = Room!Put(exams, Key(user), Room!EnsuredRow(Key(user), 0, Duration))
        /\ Goto("begin")
        /\ UNCHANGED <<paper, answers, handed, told, locals, auth>>
     \/ /\ IF Key(user) \in DOMAIN exams THEN ~ CanRead ELSE ~ CanCommit
        /\ Refuse

\* Mutant: the worker waits for the lock, db_mutex_ held.
BeginImmediateWaiting ==
  /\ at = "begin"
  /\ CanReserve
  /\ Goto("load")
  /\ UNCHANGED <<tables, locals, auth>>

BeginImmediate ==
  /\ at = "begin"
  /\ IF CanReserve
     THEN Goto("load") /\ UNCHANGED <<tables, locals, auth>>
     ELSE Refuse

\* The paper is issued once; the first time, questions are picked.
LoadQuestions ==
  /\ at = "load"
  /\ \/ /\ paper[Key(user)] # {}
        /\ Refuse
     \/ /\ paper[Key(user)] = {}
        /\ picked' \in Picker!PickQuestions(Asked)
        /\ Goto("insert_question")
        /\ UNCHANGED <<tables, user, batch, carried, final, pending, seen, auth>>

\* Mutant: no transaction, each row is committed as it is inserted.
InsertQuestionAlone ==
  /\ at = "insert_question"
  /\ \E q \in picked :
       /\ picked' = picked \ {q}
       /\ pending' = pending \cup {q}
       /\ paper' = [paper EXCEPT ![Key(user)] = @ \cup {q}]
  /\ UNCHANGED <<exams, answers, handed, told, at, user, batch, carried, final, seen, auth>>

InsertQuestion ==
  /\ at = "insert_question"
  /\ \E q \in picked :
       /\ picked' = picked \ {q}
       /\ pending' = pending \cup {q}
  /\ UNCHANGED <<tables, at, user, batch, carried, final, seen, auth>>

\* Mutant: a COMMIT that fails returns without the ROLLBACK.
CommitLeftOpen ==
  /\ at = "insert_question" /\ picked = {}
  /\ IF CanCommit
     THEN LET e == Key(user)
          IN /\ paper' = [paper EXCEPT ![e] = pending]
             /\ exams' = [exams EXCEPT ![e].total = Cardinality(pending)]
             /\ handed' = [handed EXCEPT ![e] = @ \cup
                             {[paper |-> pending, start_time |-> 0, end_time |-> Duration]}]
             /\ Return
             /\ UNCHANGED <<answers, told>>
     ELSE Goto("idle") /\ UNCHANGED <<tables, locals, auth>>

\* total_questions is updated and the transaction committed; a COMMIT that
\* meets a reader fails and is rolled back.
Commit ==
  /\ at = "insert_question" /\ picked = {}
  /\ IF CanCommit
     THEN LET e == Key(user)
          IN /\ paper' = [paper EXCEPT ![e] = pending]
             /\ exams' = [exams EXCEPT ![e].total = Cardinality(pending)]
             /\ handed' = [handed EXCEPT ![e] = @ \cup
                             {[paper |-> pending, start_time |-> 0, end_time |-> Duration]}]
             /\ Return
             /\ UNCHANGED <<answers, told>>
     ELSE Refuse

-----------------------------------------------------------------------------
(* submit_answers and submit_exam *)

CallSubmit(u) ==
  /\ at = "idle"
  /\ Room!KnowsExam(Key(u))
  /\ user' = u
  /\ carried' \in Room!Batches(Key(u)) /\ batch' = carried'
  /\ final' \in BOOLEAN
  /\ at' = IF final' THEN "submit_check" ELSE "save_answer"
  /\ UNCHANGED <<tables, picked, pending, seen, auth>>

SubmitCheck ==
  /\ at = "submit_check"
  /\ IF CanRead /\ Room!IsOpen(Key(user))
     THEN Goto("save_answer") /\ UNCHANGED <<tables, locals, auth>>
     ELSE Refuse

\* Each answer is a transaction of its own.
SaveAnswer ==
  /\ at = "save_answer"
  /\ \E q \in DOMAIN batch :
       IF CanCommit
       THEN /\ answers' = [answers EXCEPT ![Key(user)][q] = batch[q]]
            /\ batch' = [x \in DOMAIN batch \ {q} |-> batch[x]]
            /\ UNCHANGED <<exams, paper, handed, told, at, user, carried, final, picked,
                           pending, seen, auth>>
       ELSE Refuse

AnswersSaved ==
  /\ at = "save_answer" /\ batch = NoBatch
  /\ IF final
     THEN Goto("grade") /\ UNCHANGED <<tables, locals, auth>>
     ELSE Refuse

\* while (sqlite3_step(stmt) == SQLITE_ROW): a busy file looks like the end of
\* the rows.
ReadGrade ==
  /\ at = "grade"
  /\ seen' = IF CanRead THEN answers[Key(user)] ELSE Room!BlankSheet
  /\ Goto("record")
  /\ UNCHANGED <<tables, user, batch, carried, final, picked, pending, auth>>

RecordGrade ==
  /\ at = "record"
  /\ IF CanCommit
     THEN LET e == Key(user)
              grade == Room!GradeOf(seen, Cardinality(DOMAIN carried))
          IN /\ exams' = [exams EXCEPT ![e] = Room!Graded(@, grade)]
             /\ told' = [told EXCEPT ![e] = @ \cup {grade}]
             /\ Return
             /\ UNCHANGED <<paper, answers, handed>>
     ELSE Refuse

-----------------------------------------------------------------------------
(* The other connection, and the death of the process. *)

AuthReads ==
  /\ auth = "none"
  /\ auth' = "shared"
  /\ UNCHANGED <<tables, at, locals>>

\* INSERT or DELETE on sessions or users.
AuthReserves ==
  /\ auth = "shared" /\ ~ InTransaction
  /\ auth' = "reserved"
  /\ UNCHANGED <<tables, at, locals>>

AuthCommits ==
  /\ auth = "reserved"
  /\ auth' = "exclusive"
  /\ UNCHANGED <<tables, at, locals>>

AuthReleases ==
  /\ auth # "none"
  /\ auth' = "none"
  /\ UNCHANGED <<tables, at, locals>>

\* The process dies and is started again: the journal undoes the transaction.
Crash ==
  /\ at # "idle"
  /\ at' = "idle" /\ user' = Nobody /\ batch' = NoBatch /\ carried' = NoBatch
  /\ final' = FALSE /\ picked' = {} /\ pending' = {} /\ seen' = Room!BlankSheet
  /\ auth' = "none"
  /\ UNCHANGED tables

-----------------------------------------------------------------------------
HandlerStep ==
  \/ PaperCheck \/ EnsureExam \/ BeginImmediate \/ LoadQuestions \/ InsertQuestion
  \/ Commit \/ SubmitCheck \/ SaveAnswer \/ AnswersSaved \/ ReadGrade \/ RecordGrade

AuthStep == AuthReads \/ AuthReserves \/ AuthCommits \/ AuthReleases

Next ==
  /\ \/ \E u \in Users : CallGetExamPaper(u) \/ CallSubmit(u)
     \/ HandlerStep
     \/ AuthStep
     \/ Crash
  /\ UNCHANGED settings

Spec == Init /\ [][Next]_vars

\* The worker that holds db_mutex_ goes on; SQLITE_BUSY never makes it wait.
FairSpec == Spec /\ WF_vars(HandlerStep /\ UNCHANGED settings)

-----------------------------------------------------------------------------
\* Seen from ExamRoom, each statement is a whole handler or nothing, whatever
\* the other connection does and wherever the process dies.
ImplementsExamRoom == [][Room!Next]_(Room!vars)

\* A paper is stored whole or not at all, also after a crash or a COMMIT that
\* failed, and has the questions the room asks for: each level its share when
\* the shares fit into the total, no level more than it when they fill it,
\* whatever is filled up or cut down (get_exam_paper, pick_questions).
PaperWhole ==
  \A e \in Room!Keys : paper[e] # {} => Picker!AsAsked(settings, paper[e])

\* A student who was told a result of a full answer sheet with every answer
\* right is told full marks: the mark is that of the answers the student sent
\* (room.cpp:609 fetches the answers "for grading").
ToldWhatWasSent ==
  [][\A e \in Room!Keys :
       told'[e] # told[e] =>
         \A t \in told'[e] : t.correct = Cardinality(Room!Right(answers'[e]))]_vars

\* No handler waits for the other connection: every call that takes db_mutex_
\* returns and releases it.
MutexReleased == at # "idle" ~> at = "idle"
=============================================================================
