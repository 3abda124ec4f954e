------------------------------ MODULE Practice ------------------------------
(***************************************************************************)
(* Practice runs: the table practice_runs, the handlers START_PRACTICE and *)
(* SUBMIT_PRACTICE of server/src/main.cpp with the RoomManager methods     *)
(* behind them, REGISTER, LOGIN and LOGOUT, and the practice page of       *)
(* main.js that sends them.                                                *)
(*                                                                         *)
(* A handler validates the session under AuthService's mutex and runs the  *)
(* operation later under RoomManager's: two steps, and the four workers    *)
(* run the requests of a page in any order.  Students may use one page one *)
(* after the other: a login changes the token and nothing else on it.      *)
(* Whoever logs in or out waits for the reply, so each of the two is one   *)
(* step, taken while earlier requests and replies are still under way.     *)
(* The connection stays open (WebClient has its loss), and the SELECT of   *)
(* validate finds the file unlocked.                                       *)
(***************************************************************************)
EXTENDS AuthSessions, FiniteSets

CONSTANTS Questions,   \* the seeded bank
          LevelOf,     \* questions.difficulty
          Options,     \* the letters a student can select
          Correct,     \* questions.correct_option
          Blank,       \* the empty answer
          Counts,      \* the numbers of questions a student may ask for
          MaxRuns,     \* bound: practice runs
          MaxInFlight  \* bound: requests and replies a click adds to

ASSUME PracticeAssumption ==
  /\ IsFiniteSet(Questions)
  /\ Correct \in [Questions -> Options] /\ Blank \notin Options
  /\ Counts \subseteq Int
  /\ MaxRuns \in Nat /\ MaxInFlight \in Nat

VARIABLES
  runs,       \* table practice_runs; what was handed out and by whom it was
              \* graded are history
  received,   \* requests the server has, not yet validated
  validated,  \* requests let through, with the user the session named
  replies,    \* on their way to the page
  token,      \* state.token
  practice,   \* state.practice.practice_id
  sheet,      \* the answers of state.practice.questions
  autoSubmitted, \* state.practice_auto_submitted
  counting    \* practiceTimerInterval runs

wire == <<received, validated, replies>>
page == <<token, practice, sheet, autoSubmitted, counting>>
vars == <<sessionVars, runs, wire, page>>

-----------------------------------------------------------------------------
Picker == INSTANCE QuestionPicker WITH Bank <- Questions

\* pick_questions_filtered; the page sends no filter.  A SELECT that meets
\* AuthService's lock gives no questions.
Picks(n) == Picker!PickFiltered(n, {}) \cup {{}}

NoToken == 0
NoRun == 0
Null == MaxRuns + Cardinality(Questions) + 1   \* a column that is NULL
RunIds == 1 .. MaxRuns

Sheets == UNION {[Q -> Options \cup {Blank}] : Q \in SUBSET Questions}
NoSheet == [q \in {} |-> Blank]

\* correct_count, and the number of answers the score is out of.
Grades == [correct : Nat, outOf : Nat]
Ungraded == [correct |-> Null, outOf |-> Null]

Rows == [user : Users, paper : SUBSET Questions, grade : Grades,
         gradedBy : SUBSET Users]

Requests ==
  [op : {"START_PRACTICE"}, token : Tokens, count : Counts]
  \cup [op : {"SUBMIT_PRACTICE"}, token : Tokens, run : RunIds, sheet : Sheets]

Replies ==
  [op : {"START_PRACTICE"}, run : RunIds, paper : SUBSET Questions]
  \cup [op : {"SUBMIT_PRACTICE"}]

TypeOK ==
  /\ SessionsTypeOK
  /\ runs \in Seq(Rows) /\ Len(runs) <= MaxRuns
  /\ received \subseteq Requests
  /\ \A v \in validated : v.request \in Requests /\ v.user \in Users
  /\ replies \subseteq Replies
  /\ token \in Tokens \cup {NoToken}
  /\ practice \in DOMAIN runs \cup {NoRun} /\ sheet \in Sheets
  /\ autoSubmitted \in BOOLEAN /\ counting \in BOOLEAN

Init ==
  /\ SessionsInit
  /\ runs = << >>
  /\ received = {} /\ validated = {} /\ replies = {}
  /\ token = NoToken
  /\ practice = NoRun /\ sheet = NoSheet
  /\ autoSubmitted = FALSE /\ counting = FALSE

-----------------------------------------------------------------------------
(* The page. *)

RoomInFlight ==
  Cardinality(received) + Cardinality(validated) + Cardinality(replies) < MaxInFlight

Send(request) == received' = received \cup {request}

Submission ==
  [op |-> "SUBMIT_PRACTICE", token |-> token,
   run |-> practice, sheet |-> sheet]

ClickStart(n) ==
  /\ token # NoToken
  /\ RoomInFlight
  /\ Send([op |-> "START_PRACTICE", token |-> token, count |-> n])
  /\ UNCHANGED <<sessionVars, runs, validated, replies, page>>

Choose(q, o) ==
  /\ q \in DOMAIN sheet
  /\ sheet' = [sheet EXCEPT ![q] = o]
  /\ UNCHANGED <<sessionVars, runs, wire, token, practice, autoSubmitted, counting>>

\* practice_id -1 is refused as an INVALID_REQUEST.
ClickSubmit ==
  /\ practice # NoRun
  /\ RoomInFlight
  /\ Send(Submission)
  /\ UNCHANGED <<sessionVars, runs, validated, replies, page>>

\* The student's own clock reaches practice_end_time.
TimeOver ==
  /\ counting
  /\ counting' = FALSE
  /\ \/ /\ ~ autoSubmitted /\ practice # NoRun
        /\ autoSubmitted' = TRUE
        /\ Send(Submission)
     \/ /\ autoSubmitted \/ practice = NoRun
        /\ UNCHANGED <<autoSubmitted, received>>
  /\ UNCHANGED <<sessionVars, runs, validated, replies, token, practice, sheet>>

\* Mutants: the questions of the practice on screen stay; the flag of the
\* submission before stays.
ArriveStartKeepingSheet(m) ==
  /\ m.op = "START_PRACTICE"
  /\ replies' = replies \ {m}
  /\ practice' = m.run
  /\ sheet' = IF sheet = NoSheet THEN [q \in m.paper |-> Blank] ELSE sheet
  /\ autoSubmitted' = FALSE /\ counting' = TRUE
  /\ UNCHANGED <<sessionVars, runs, received, validated, token>>
ArriveStartKeepingFlag(m) ==
  /\ m.op = "START_PRACTICE"
  /\ replies' = replies \ {m}
  /\ practice' = m.run /\ sheet' = [q \in m.paper |-> Blank]
  /\ counting' = TRUE
  /\ UNCHANGED <<sessionVars, runs, received, validated, token, autoSubmitted>>

ArriveStart(m) ==
  /\ m.op = "START_PRACTICE"
  /\ replies' = replies \ {m}
  /\ practice' = m.run /\ sheet' = [q \in m.paper |-> Blank]
  /\ autoSubmitted' = FALSE /\ counting' = TRUE
  /\ UNCHANGED <<sessionVars, runs, received, validated, token>>

\* Whichever practice it is about, the one on screen is cleared.
ArriveSubmit(m) ==
  /\ m.op = "SUBMIT_PRACTICE"
  /\ replies' = replies \ {m}
  /\ practice' = NoRun /\ sheet' = NoSheet
  /\ autoSubmitted' = TRUE /\ counting' = FALSE
  /\ UNCHANGED <<sessionVars, runs, received, validated, token>>

-----------------------------------------------------------------------------
(* The server. *)

SignUp(u) ==
  /\ Register(u)
  /\ UNCHANGED <<runs, wire, page>>

LogIn(u) ==
  /\ Login(u)
  /\ token' = Len(issued')
  /\ UNCHANGED <<runs, wire, practice, sheet, autoSubmitted, counting>>

\* LOGOUT belongs to the protocol and the page has no button for it; whoever
\* sends it, the page keeps the token.
LogOut(t) ==
  /\ t \in Tokens \ ended
  /\ Logout(t)
  /\ UNCHANGED <<runs, wire, page>>

\* auth.validate, the first thing a handler does.
Validate(r) ==
  /\ r.op \in {"START_PRACTICE", "SUBMIT_PRACTICE"}
  /\ received' = received \ {r}
  /\ \/ /\ Admits(r.token)
        /\ validated' = validated \cup {[request |-> r, user |-> issued[r.token].user]}
        /\ UNCHANGED sessionVars
     \/ RefuseExpired(r.token) /\ UNCHANGED validated
     \/ r.token \notin sessions /\ UNCHANGED <<validated, sessionVars>>
  /\ UNCHANGED <<runs, replies, page>>

\* Mutant: the id is asked for before the row is inserted.
StartPracticeIdBefore(v) ==
  /\ v.request.op = "START_PRACTICE"
  /\ Len(runs) < MaxRuns
  /\ validated' = validated \ {v}
  /\ \E Q \in Picks(v.request.count) :
       /\ runs' = Append(runs, [user |-> v.user, paper |-> Q, grade |-> Ungraded,
                                gradedBy |-> {}])
       /\ replies' = replies \cup
            {[op |-> "START_PRACTICE", run |-> Len(runs), paper |-> Q]}
  /\ UNCHANGED <<sessionVars, received, page>>

\* A paper without questions is handed out like any other.
StartPractice(v) ==
  /\ v.request.op = "START_PRACTICE"
  /\ Len(runs) < MaxRuns
  /\ validated' = validated \ {v}
  /\ \E Q \in Picks(v.request.count) :
       /\ runs' = Append(runs, [user |-> v.user, paper |-> Q, grade |-> Ungraded,
                                gradedBy |-> {}])
       /\ replies' = replies \cup
            {[op |-> "START_PRACTICE", run |-> Len(runs) + 1, paper |-> Q]}
  /\ UNCHANGED <<sessionVars, received, page>>

\* The grades a sheet can get.  The handler drops the blanks; a SELECT of a
\* correct option that meets AuthService's lock counts the answer as wrong.
GradesOf(s) ==
  LET answered == {q \in DOMAIN s : s[q] # Blank}
  IN {[correct |-> Cardinality({q \in read : s[q] = Correct[q]}),
       outOf |-> Cardinality(answered)] : read \in SUBSET answered}

\* Mutant: UPDATE practice_runs ... WHERE id = ?
SubmitPracticeOfAnyone(v) ==
  /\ v.request.op = "SUBMIT_PRACTICE"
  /\ validated' = validated \ {v}
  /\ \E grade \in GradesOf(v.request.sheet) :
       runs' = [runs EXCEPT ![v.request.run] =
                  [@ EXCEPT !.grade = grade, !.gradedBy = @ \cup {v.user}]]
  /\ replies' = replies \cup {[op |-> "SUBMIT_PRACTICE"]}
  /\ UNCHANGED <<sessionVars, received, page>>

\* UPDATE practice_runs ... WHERE id = ? AND user_id = ?: a run graded before
\* is graded again, and one of another user is not touched; both succeed.
SubmitPractice(v) ==
  /\ v.request.op = "SUBMIT_PRACTICE"
  /\ validated' = validated \ {v}
  /\ \E grade \in GradesOf(v.request.sheet) :
       runs' = [p \in DOMAIN runs |->
                  IF p = v.request.run /\ runs[p].user = v.user
                  THEN [runs[p] EXCEPT !.grade = grade, !.gradedBy = @ \cup {v.user}]
                  ELSE runs[p]]
  /\ replies' = replies \cup {[op |-> "SUBMIT_PRACTICE"]}
  /\ UNCHANGED <<sessionVars, received, page>>

\* The INSERT or the UPDATE meets AuthService's lock: an error reply, which
\* the page only shows.
FindBusy(v) ==
  /\ validated' = validated \ {v}
  /\ UNCHANGED <<sessionVars, runs, received, replies, page>>

TimePasses ==
  /\ ClockMoves
  /\ UNCHANGED <<runs, wire, page>>

-----------------------------------------------------------------------------
Click ==
  \/ \E n \in Counts : ClickStart(n)
  \/ \E q \in Questions, o \in Options : Choose(q, o)
  \/ ClickSubmit

Arrive == \E m \in replies : ArriveStart(m) \/ ArriveSubmit(m)

Handle ==
  \/ \E r \in received : Validate(r)
  \/ \E v \in validated : StartPractice(v) \/ SubmitPractice(v) \/ FindBusy(v)

Next ==
  \/ \E u \in Users : SignUp(u) \/ LogIn(u)
  \/ \E t \in Tokens : LogOut(t)
  \/ Click \/ TimeOver \/ Arrive \/ Handle \/ TimePasses

Spec == Init /\ [][Next]_vars

\* The countdown ends, and a worker takes up what is submitted.
FairSpec ==
  /\ Spec
  /\ WF_vars(TimeOver)
  /\ WF_vars(\E r \in received : r.op = "SUBMIT_PRACTICE" /\ Validate(r))

-----------------------------------------------------------------------------
\* A result is recorded only by a request of the student whose practice it is,
\* whoever logs in on the page while it is on screen (submit_practice).
ResultOfHolder ==
  \A p \in DOMAIN runs : runs[p].gradedBy \subseteq {runs[p].user}

\* Whatever replies are under way, a submission answers the questions of its
\* own practice, on its way and once validated, and a grade counts no more
\* answers than that practice has questions.  It may count fewer: a blank is
\* dropped (handleMessage, autoSubmitPractice, submit_practice).
PracticeMatchesPaper ==
  /\ \A r \in received \cup {v.request : v \in validated} :
       r.op = "SUBMIT_PRACTICE" => DOMAIN r.sheet = runs[r.run].paper
  /\ \A p \in DOMAIN runs : runs[p].grade # Ungraded =>
       /\ runs[p].grade.correct <= runs[p].grade.outOf
       /\ runs[p].grade.outOf <= Cardinality(runs[p].paper)

\* A practice on screen whose countdown runs reaches submit_practice in the
\* end, in the name of its student, unless it leaves the screen, somebody logs
\* in again or the session is gone (startPracticeTimer, autoSubmitPractice).
PracticeSubmitted ==
  \A p \in RunIds, t \in 1 .. MaxSessions :
    (practice = p /\ counting /\ token = t /\ issued[t].user = runs[p].user)
      ~> \/ practice # p \/ token # t \/ ~ Admits(t)
         \/ \E v \in validated : /\ v.request.op = "SUBMIT_PRACTICE"
                                 /\ v.request.run = p /\ v.user = runs[p].user
=============================================================================
