--------------------------- MODULE PracticeProofs ---------------------------
(***************************************************************************)
(* Proofs about Practice and AuthSessions, for every number of users,      *)
(* questions, options, logins, practice runs and requests in flight.       *)
(***************************************************************************)
EXTENDS Practice, FiniteSetTheorems, TLAPS

-----------------------------------------------------------------------------
(* The inductive invariant. *)

\* A submission names a run that exists and answers the questions of it.
AnswersItsRun(r) ==
  r.op = "SUBMIT_PRACTICE" =>
    r.run \in DOMAIN runs /\ DOMAIN r.sheet = runs[r.run].paper

\* So it does on its way and once a handler has validated it.
RequestsMatch ==
  /\ \A r \in received : AnswersItsRun(r)
  /\ \A v \in validated : AnswersItsRun(v.request)

\* A reply brings the paper that its run was inserted with.
RepliesMatch ==
  \A m \in replies : m.op = "START_PRACTICE" =>
    m.run \in DOMAIN runs /\ m.paper = runs[m.run].paper

\* The questions on screen are those of the practice on screen.
ScreenMatches == practice # NoRun => DOMAIN sheet = runs[practice].paper

\* Nothing was asked or answered before somebody logged in on the page.
LoggedInFirst ==
  token = NoToken => practice = NoRun /\ received = {} /\ validated = {} /\ replies = {}

\* A token that was ended has no row.
EndedHasNoRow == sessions \cap ended = {}

\* A score is out of the answers given, and those were to the run's questions.
ScoreWithinPaper ==
  \A p \in DOMAIN runs : runs[p].grade # Ungraded =>
    /\ runs[p].grade.correct <= runs[p].grade.outOf
    /\ runs[p].grade.outOf <= Cardinality(runs[p].paper)

IInv ==
  /\ TypeOK
  /\ RequestsMatch
  /\ RepliesMatch
  /\ ScreenMatches
  /\ LoggedInFirst
  /\ EndedHasNoRow
  /\ ResultOfHolder
  /\ ScoreWithinPaper

-----------------------------------------------------------------------------
(* The operators of the model. *)

\* What a paper is chosen from is the bank, if anything is.
LEMMA PickedFromBank ==
  ASSUME NEW n \in Int, NEW Q \in Picks(n)
  PROVE  Q \subseteq Questions
BY DEF Picks, Picker!PickFiltered, Picker!Select, Picker!kSubset

\* An empty sheet, a blank one and one with another answer are sheets.
LEMMA SheetsTyped ==
  /\ NoSheet \in Sheets
  /\ \A Q \in SUBSET Questions : [q \in Q |-> Blank] \in Sheets
  /\ \A s \in Sheets : DOMAIN s \subseteq Questions
  /\ \A s \in Sheets, q \in Questions, o \in Options :
       [s EXCEPT ![q] = o] \in Sheets /\ DOMAIN [s EXCEPT ![q] = o] = DOMAIN s
<1>1. NoSheet \in Sheets
  BY DEF Sheets, NoSheet
<1>2. \A Q \in SUBSET Questions : [q \in Q |-> Blank] \in Sheets
  BY DEF Sheets
<1>3. ASSUME NEW s \in Sheets
      PROVE  /\ DOMAIN s \subseteq Questions
             /\ \A q \in Questions, o \in Options :
                  [s EXCEPT ![q] = o] \in Sheets /\ DOMAIN [s EXCEPT ![q] = o] = DOMAIN s
  <2>1. PICK Q \in SUBSET Questions : s \in [Q -> Options \cup {Blank}]
    BY DEF Sheets
  <2>2. DOMAIN s = Q
    BY <2>1
  <2>3. \A q \in Questions, o \in Options :
          [s EXCEPT ![q] = o] \in [Q -> Options \cup {Blank}]
    BY <2>1
  <2> QED
    BY <2>2, <2>3 DEF Sheets
<1> QED
  BY <1>1, <1>2, <1>3

\* A grade counts right answers among answers, and answers among questions,
\* whichever SELECTs met the lock.
LEMMA GradeCounts ==
  ASSUME NEW s \in Sheets, NEW grade \in GradesOf(s)
  PROVE  /\ grade \in Grades
         /\ grade.correct <= grade.outOf
         /\ grade.outOf <= Cardinality(DOMAIN s)
<1> DEFINE answered == {q \in DOMAIN s : s[q] # Blank}
<1>0. PICK read \in SUBSET answered :
        grade = [correct |-> Cardinality({q \in read : s[q] = Correct[q]}),
                 outOf |-> Cardinality(answered)]
  BY DEF GradesOf
<1> DEFINE right == {q \in read : s[q] = Correct[q]}
<1>1. IsFiniteSet(DOMAIN s)
  BY SheetsTyped, PracticeAssumption, FS_Subset
<1>2. IsFiniteSet(answered) /\ Cardinality(answered) <= Cardinality(DOMAIN s)
  BY <1>1, FS_Subset
<1>3. IsFiniteSet(right) /\ Cardinality(right) <= Cardinality(answered)
  <2>1. right \subseteq answered
    OBVIOUS
  <2> QED
    BY <1>2, <2>1, FS_Subset
<1>4. Cardinality(answered) \in Nat /\ Cardinality(right) \in Nat
  BY <1>2, <1>3, FS_CardinalityType
<1>5. grade = [correct |-> Cardinality(right), outOf |-> Cardinality(answered)]
  BY <1>0
<1> HIDE DEF answered, right
<1> QED
  BY <1>2, <1>3, <1>4, <1>5 DEF Grades

\* A NULL grade is a grade.
LEMMA UngradedTyped == Ungraded \in Grades
BY PracticeAssumption, FS_CardinalityType DEF Ungraded, Null, Grades

\* A login adds a token and leaves those issued before as they are.
LEMMA LoginTokens ==
  ASSUME SessionsTypeOK, NEW u \in Users, Login(u)
  PROVE  /\ SessionsTypeOK'
         /\ Tokens' = Tokens \cup {Len(issued) + 1} /\ Len(issued) + 1 \notin Tokens
         /\ Len(issued') \in Tokens' /\ Len(issued') # NoToken
<1> DEFINE session == [user |-> u, expires |-> clock + Ttl]
<1>1. session \in Sessions
  BY SessionsAssumption DEF SessionsTypeOK, Sessions
<1>2. /\ issued' = Append(issued, session) /\ Len(issued) < MaxSessions
      /\ sessions' = sessions \cup {Len(issued) + 1}
      /\ u \in accounts /\ UNCHANGED <<clock, accounts, ended>>
  BY DEF Login
<1>3. issued \in Seq(Sessions)
  BY DEF SessionsTypeOK
<1> HIDE DEF session
<1>4. /\ issued' \in Seq(Sessions) /\ Len(issued') = Len(issued) + 1
      /\ Len(issued') <= MaxSessions
      /\ \A t \in Tokens : issued'[t] = issued[t]
      /\ issued'[Len(issued) + 1] = session
  BY <1>1, <1>2, <1>3, SessionsAssumption DEF Tokens
<1>5. Tokens' = 1 .. (Len(issued) + 1) /\ Tokens = 1 .. Len(issued)
  BY <1>3, <1>4 DEF Tokens
<1>6. \A t \in Tokens' : issued'[t].user \in accounts'
  BY <1>2, <1>4, <1>5, <1>3 DEF SessionsTypeOK, session
<1>7. Len(issued) \in Nat
  BY <1>3
<1>8. Tokens' = Tokens \cup {Len(issued) + 1} /\ Len(issued) + 1 \notin Tokens
  BY <1>5, <1>7
<1>9. sessions' \subseteq Tokens' /\ ended' \subseteq Tokens'
  BY <1>2, <1>8 DEF SessionsTypeOK
<1>10. clock' \in 0 .. MaxTime /\ accounts' \subseteq Users
  BY <1>2 DEF SessionsTypeOK
<1>11. SessionsTypeOK'
  BY <1>4, <1>6, <1>9, <1>10 DEF SessionsTypeOK
<1> QED
  BY <1>4, <1>7, <1>8, <1>11 DEF NoToken

\* The rest of AuthService issues nothing.
LEMMA OtherSessionSteps ==
  ASSUME SessionsTypeOK,
         \/ \E u \in Users : Register(u)
         \/ \E t \in Tokens : Logout(t) \/ RefuseExpired(t)
         \/ ClockMoves
         \/ UNCHANGED sessionVars
  PROVE  SessionsTypeOK' /\ issued' = issued /\ Tokens' = Tokens
BY DEF SessionsTypeOK, Register, Logout, RefuseExpired, Delete, ClockMoves,
       sessionVars, Tokens

\* More tokens, more requests.
LEMMA RequestsGrow ==
  ASSUME Tokens \subseteq Tokens'
  PROVE  Requests \subseteq Requests'
BY DEF Requests

-----------------------------------------------------------------------------
(* Types. *)

\* A run keeps its student and its paper.
RunsKept ==
  \A p \in DOMAIN runs :
    p \in DOMAIN runs' /\ runs'[p].user = runs[p].user /\ runs'[p].paper = runs[p].paper

LEMMA InitInv == Init => IInv
<1> SUFFICES ASSUME Init PROVE IInv
  OBVIOUS
<1>1. SessionsTypeOK
  BY SessionsAssumption DEF Init, SessionsInit, SessionsTypeOK, Tokens
<1>2. runs \in Seq(Rows) /\ Len(runs) <= MaxRuns
  <2>1. << >> \in Seq(Rows) /\ Len(<< >>) = 0
    OBVIOUS
  <2> QED
    BY <2>1, PracticeAssumption DEF Init
<1>3. TypeOK
  BY <1>1, <1>2, SheetsTyped DEF Init, TypeOK
<1> QED
  BY <1>3 DEF Init, SessionsInit, IInv, RequestsMatch, RepliesMatch, ScreenMatches,
              LoggedInFirst, EndedHasNoRow, ResultOfHolder, ScoreWithinPaper

\* What a step does to AuthService's tables.
LEMMA SessionsStep ==
  ASSUME TypeOK, [Next]_vars
  PROVE  SessionsTypeOK' /\ Tokens \subseteq Tokens' /\ Requests \subseteq Requests'
<1>0. SessionsTypeOK
  BY DEF TypeOK
<1>1. CASE \E u \in Users : LogIn(u)
  BY <1>0, <1>1, LoginTokens, RequestsGrow DEF LogIn
<1>2. CASE \E u \in Users : SignUp(u)
  BY <1>0, <1>2, OtherSessionSteps, RequestsGrow DEF SignUp
<1>3. CASE \E t \in Tokens : LogOut(t)
  BY <1>0, <1>3, OtherSessionSteps, RequestsGrow DEF LogOut
<1>4. CASE \E r \in received : Validate(r)
  <2>1. PICK r \in received : Validate(r)
    BY <1>4
  <2>2. r.token \in Tokens
    BY <2>1 DEF TypeOK, Requests
  <2>3. RefuseExpired(r.token) \/ UNCHANGED sessionVars
    BY <2>1 DEF Validate
  <2> QED
    BY <1>0, <2>2, <2>3, OtherSessionSteps, RequestsGrow
<1>5. CASE TimePasses
  BY <1>0, <1>5, OtherSessionSteps, RequestsGrow DEF TimePasses
<1>6. CASE UNCHANGED sessionVars
  BY <1>0, <1>6, OtherSessionSteps, RequestsGrow
<1>7. Click \/ TimeOver \/ Arrive => UNCHANGED sessionVars
  BY DEF Click, ClickStart, Choose, ClickSubmit, TimeOver, Arrive, ArriveStart, ArriveSubmit
<1>8. (\E v \in validated : StartPractice(v) \/ SubmitPractice(v) \/ FindBusy(v))
        => UNCHANGED sessionVars
  BY DEF StartPractice, SubmitPractice, FindBusy
<1> QED
  BY <1>1, <1>2, <1>3, <1>4, <1>5, <1>6, <1>7, <1>8 DEF Next, Handle, vars

\* A handler's v.request that is a submission is one of the students'.
LEMMA SubmissionTyped ==
  ASSUME NEW r \in Requests, r.op = "SUBMIT_PRACTICE"
  PROVE  r.run \in RunIds /\ r.sheet \in Sheets /\ r.token \in Tokens
BY DEF Requests

LEMMA StartTyped ==
  ASSUME NEW r \in Requests, r.op = "START_PRACTICE"
  PROVE  r.count \in Int /\ r.token \in Tokens
BY PracticeAssumption DEF Requests

\* A new row, with its id.
LEMMA StartStep ==
  ASSUME TypeOK, NEW v \in validated, StartPractice(v)
  PROVE  \E Q \in SUBSET Questions :
           /\ runs' \in Seq(Rows) /\ Len(runs') <= MaxRuns
           /\ DOMAIN runs' = DOMAIN runs \cup {Len(runs) + 1}
           /\ Len(runs) + 1 \in RunIds
           /\ \A p \in DOMAIN runs : runs'[p] = runs[p]
           /\ runs'[Len(runs) + 1] = [user |-> v.user, paper |-> Q, grade |-> Ungraded,
                                      gradedBy |-> {}]
           /\ replies' = replies \cup
                {[op |-> "START_PRACTICE", run |-> Len(runs) + 1, paper |-> Q]}
<1>1. v.request.count \in Int /\ v.user \in Users
  BY StartTyped DEF TypeOK, StartPractice
<1>2. PICK Q \in Picks(v.request.count) :
        /\ runs' = Append(runs, [user |-> v.user, paper |-> Q, grade |-> Ungraded,
                                 gradedBy |-> {}])
        /\ replies' = replies \cup
             {[op |-> "START_PRACTICE", run |-> Len(runs) + 1, paper |-> Q]}
  BY DEF StartPractice
<1>3. Q \in SUBSET Questions
  BY <1>1, PickedFromBank
<1> DEFINE row == [user |-> v.user, paper |-> Q, grade |-> Ungraded, gradedBy |-> {}]
<1>4. row \in Rows
  BY <1>1, <1>3, UngradedTyped DEF Rows
<1>5. runs \in Seq(Rows) /\ Len(runs) < MaxRuns
  BY DEF TypeOK, StartPractice
<1>6. runs' = Append(runs, row)
  BY <1>2
<1> HIDE DEF row
<1>7. /\ runs' \in Seq(Rows) /\ Len(runs') <= MaxRuns
      /\ DOMAIN runs' = DOMAIN runs \cup {Len(runs) + 1}
      /\ Len(runs) + 1 \in RunIds
      /\ \A p \in DOMAIN runs : runs'[p] = runs[p]
      /\ runs'[Len(runs) + 1] = row
  BY <1>4, <1>5, <1>6, PracticeAssumption DEF RunIds
<1> QED
  BY <1>2, <1>3, <1>7 DEF row

\* A row, regraded in the name of its student, or none.
LEMMA SubmitStep ==
  ASSUME TypeOK, NEW v \in validated, SubmitPractice(v)
  PROVE  /\ runs' \in Seq(Rows) /\ Len(runs') <= MaxRuns /\ DOMAIN runs' = DOMAIN runs
         /\ \A p \in DOMAIN runs :
              \/ runs'[p] = runs[p]
              \/ /\ p = v.request.run /\ v.user = runs[p].user
                 /\ runs'[p].user = runs[p].user /\ runs'[p].paper = runs[p].paper
                 /\ runs'[p].grade \in GradesOf(v.request.sheet)
                 /\ runs'[p].gradedBy = runs[p].gradedBy \cup {v.user}
         /\ replies' = replies \cup {[op |-> "SUBMIT_PRACTICE"]}
<1>0. PICK grade \in GradesOf(v.request.sheet) :
        runs' = [p \in DOMAIN runs |->
                   IF p = v.request.run /\ runs[p].user = v.user
                   THEN [runs[p] EXCEPT !.grade = grade, !.gradedBy = @ \cup {v.user}]
                   ELSE runs[p]]
  BY DEF SubmitPractice
<1> DEFINE regraded(p) == [runs[p] EXCEPT !.grade = grade, !.gradedBy = @ \cup {v.user}]
<1>1. /\ v.user \in Users /\ v.request.sheet \in Sheets
      /\ runs \in Seq(Rows) /\ Len(runs) <= MaxRuns
  BY SubmissionTyped DEF TypeOK, SubmitPractice
<1>2. grade \in Grades
  BY <1>1, GradeCounts
<1>3. /\ runs' = [p \in DOMAIN runs |->
                    IF p = v.request.run /\ runs[p].user = v.user
                    THEN regraded(p) ELSE runs[p]]
      /\ replies' = replies \cup {[op |-> "SUBMIT_PRACTICE"]}
  BY <1>0 DEF SubmitPractice
<1>4. ASSUME NEW p \in DOMAIN runs
      PROVE  /\ runs[p] \in Rows /\ regraded(p) \in Rows
             /\ regraded(p).user = runs[p].user /\ regraded(p).paper = runs[p].paper
             /\ regraded(p).grade = grade
             /\ regraded(p).gradedBy = runs[p].gradedBy \cup {v.user}
  <2>1. runs[p] \in Rows
    BY <1>1
  <2> QED
    BY <1>1, <1>2, <2>1 DEF Rows
<1>5. DOMAIN runs = 1 .. Len(runs) /\ Len(runs) \in Nat
  BY <1>1
<1>6. runs' \in [1 .. Len(runs) -> Rows]
  BY <1>3, <1>4, <1>5
<1>7. runs' \in Seq(Rows) /\ Len(runs') = Len(runs) /\ DOMAIN runs' = DOMAIN runs
  BY <1>5, <1>6
<1> QED
  BY <1>1, <1>3, <1>4, <1>7

\* What a step does to practice_runs.
LEMMA RunsStep ==
  ASSUME TypeOK, [Next]_vars
  PROVE  runs' \in Seq(Rows) /\ Len(runs') <= MaxRuns /\ RunsKept
<1>1. CASE \E v \in validated : StartPractice(v)
  BY <1>1, StartStep DEF RunsKept
<1>2. CASE \E v \in validated : SubmitPractice(v)
  BY <1>2, SubmitStep DEF RunsKept
<1>3. CASE UNCHANGED runs
  BY <1>3 DEF RunsKept, TypeOK
<1>4. \/ \E v \in validated : StartPractice(v) \/ SubmitPractice(v)
      \/ UNCHANGED runs
  BY DEF Next, SignUp, LogIn, LogOut, Click, ClickStart, Choose, ClickSubmit, TimeOver,
         Arrive, ArriveStart, ArriveSubmit, Handle, Validate, FindBusy, TimePasses, vars
<1> QED
  BY <1>1, <1>2, <1>3, <1>4

\* Requests and validated requests stay typed.
LEMMA RequestsTyped ==
  ASSUME TypeOK, LoggedInFirst, [Next]_vars
  PROVE  /\ received' \subseteq Requests'
         /\ \A v \in validated' : v.request \in Requests' /\ v.user \in Users
<1>1. Requests \subseteq Requests'
  BY SessionsStep
<1>2. received \subseteq Requests /\ \A v \in validated : v.request \in Requests /\ v.user \in Users
  BY DEF TypeOK
<1>3. CASE \E n \in Counts : ClickStart(n)
  <2>1. PICK n \in Counts : ClickStart(n)
    BY <1>3
  <2>2. [op |-> "START_PRACTICE", token |-> token, count |-> n] \in Requests
    BY <2>1 DEF ClickStart, TypeOK, Requests
  <2> QED
    BY <1>1, <1>2, <2>1, <2>2 DEF ClickStart, Send
<1>4. ASSUME practice # NoRun
      PROVE  Submission \in Requests
  <2>1. token \in Tokens /\ sheet \in Sheets
    BY <1>4 DEF TypeOK, LoggedInFirst
  <2>2. practice \in DOMAIN runs /\ runs \in Seq(Rows) /\ Len(runs) <= MaxRuns
    BY <1>4 DEF TypeOK
  <2>3. practice \in RunIds
    BY <2>2, PracticeAssumption DEF RunIds
  <2> QED
    BY <2>1, <2>3 DEF Submission, Requests
<1>5. CASE ClickSubmit \/ TimeOver
  BY <1>1, <1>2, <1>4, <1>5 DEF ClickSubmit, TimeOver, Send
<1>6. CASE \E r \in received : Validate(r)
  <2>1. PICK r \in received : Validate(r)
    BY <1>6
  <2>2. r \in Requests /\ received' = received \ {r}
    BY <1>2, <2>1 DEF Validate
  <2>3. CASE UNCHANGED validated
    BY <1>1, <1>2, <2>2, <2>3
  <2>4. CASE /\ Admits(r.token)
             /\ validated' = validated \cup {[request |-> r, user |-> issued[r.token].user]}
    <3>1. r.token \in Tokens /\ SessionsTypeOK
      BY <2>2 DEF Requests, TypeOK
    <3>2. issued[r.token].user \in Users
      BY <3>1 DEF SessionsTypeOK
    <3> QED
      BY <1>1, <1>2, <2>2, <2>4, <3>2
  <2> QED
    BY <2>1, <2>3, <2>4 DEF Validate
<1>7. CASE \E v \in validated : StartPractice(v) \/ SubmitPractice(v) \/ FindBusy(v)
  BY <1>1, <1>2, <1>7 DEF StartPractice, SubmitPractice, FindBusy
<1>8. CASE UNCHANGED <<received, validated>>
  BY <1>1, <1>2, <1>8
<1> QED
  BY <1>3, <1>5, <1>6, <1>7, <1>8
  DEF Next, SignUp, LogIn, LogOut, Click, Choose, Arrive, ArriveStart, ArriveSubmit, Handle,
      TimePasses, vars, wire

\* The replies, the token and the page stay typed.
LEMMA PageTyped ==
  ASSUME TypeOK, RepliesMatch, [Next]_vars
  PROVE  /\ replies' \subseteq Replies
         /\ token' \in Tokens' \cup {NoToken}
         /\ practice' \in DOMAIN runs' \cup {NoRun} /\ sheet' \in Sheets
         /\ autoSubmitted' \in BOOLEAN /\ counting' \in BOOLEAN
<1>1. Tokens \subseteq Tokens' /\ DOMAIN runs \subseteq DOMAIN runs'
  BY SessionsStep, RunsStep DEF RunsKept
<1>2. /\ replies \subseteq Replies /\ token \in Tokens \cup {NoToken}
      /\ practice \in DOMAIN runs \cup {NoRun} /\ sheet \in Sheets
      /\ autoSubmitted \in BOOLEAN /\ counting \in BOOLEAN
  BY DEF TypeOK
<1>3. CASE \E u \in Users : LogIn(u)
  BY <1>1, <1>2, <1>3, LoginTokens DEF LogIn, wire, TypeOK
<1>4. CASE \E q \in Questions, o \in Options : Choose(q, o)
  <2>1. /\ sheet' \in Sheets
        /\ UNCHANGED <<replies, token, practice, autoSubmitted, counting>>
    <3>1. PICK q \in Questions, o \in Options : Choose(q, o)
      BY <1>4
    <3>2. [sheet EXCEPT ![q] = o] \in Sheets
      BY <1>2, SheetsTyped
    <3> QED
      BY <3>1, <3>2 DEF Choose, wire
  <2> QED
    BY <1>1, <1>2, <2>1
<1>5. CASE TimeOver
  BY <1>1, <1>2, <1>5 DEF TimeOver
<1>6. CASE \E m \in replies : ArriveStart(m)
  <2>1. PICK m \in replies : ArriveStart(m)
    BY <1>6
  <2>2. m.run \in DOMAIN runs
    BY <2>1 DEF RepliesMatch, ArriveStart
  <2>3. m.paper \in SUBSET Questions
    BY <1>2, <2>1 DEF ArriveStart, Replies
  <2> QED
    BY <1>1, <1>2, <2>1, <2>2, <2>3, SheetsTyped DEF ArriveStart
<1>7. CASE \E m \in replies : ArriveSubmit(m)
  BY <1>1, <1>2, <1>7, SheetsTyped DEF ArriveSubmit
<1>8. CASE \E v \in validated : StartPractice(v)
  <2>1. PICK v \in validated : StartPractice(v)
    BY <1>8
  <2>2. PICK Q \in SUBSET Questions :
          /\ Len(runs) + 1 \in RunIds
          /\ replies' = replies \cup
               {[op |-> "START_PRACTICE", run |-> Len(runs) + 1, paper |-> Q]}
    BY <2>1, StartStep
  <2>3. replies' \subseteq Replies
    BY <1>2, <2>2 DEF Replies
  <2> QED
    BY <1>1, <1>2, <2>1, <2>3 DEF StartPractice, page
<1>9. CASE \E v \in validated : SubmitPractice(v)
  <2>1. replies' = replies \cup {[op |-> "SUBMIT_PRACTICE"]} /\ UNCHANGED page
    BY <1>9 DEF SubmitPractice
  <2>2. replies' \subseteq Replies
    BY <1>2, <2>1 DEF Replies
  <2> QED
    BY <1>1, <1>2, <2>1, <2>2 DEF page
<1>10. CASE UNCHANGED <<replies, page>>
  BY <1>1, <1>2, <1>10 DEF page
<1> QED
  BY <1>3, <1>4, <1>5, <1>6, <1>7, <1>8, <1>9, <1>10
  DEF Next, SignUp, LogOut, Click, ClickStart, ClickSubmit, Arrive, Handle, Validate,
      FindBusy, TimePasses, vars, wire, page

LEMMA NextTyped == IInv /\ [Next]_vars => TypeOK'
<1> SUFFICES ASSUME IInv, [Next]_vars PROVE TypeOK'
  OBVIOUS
<1>1. TypeOK /\ LoggedInFirst /\ RepliesMatch
  BY DEF IInv
<1> QED
  BY <1>1, SessionsStep, RunsStep, RequestsTyped, PageTyped DEF TypeOK

-----------------------------------------------------------------------------
(* What goes to and fro is about its run. *)

LEMMA NextRequestsMatch == IInv /\ [Next]_vars => RequestsMatch'
<1> SUFFICES ASSUME IInv, [Next]_vars PROVE RequestsMatch'
  OBVIOUS
<1>1. TypeOK /\ RequestsMatch /\ ScreenMatches
  BY DEF IInv
<1>2. \A r : AnswersItsRun(r) => AnswersItsRun(r)'
  <2>1. RunsKept
    BY <1>1, RunsStep
  <2> QED
    BY <2>1 DEF AnswersItsRun, RunsKept
<1>3. CASE \E n \in Counts : ClickStart(n)
  BY <1>1, <1>2, <1>3 DEF ClickStart, Send, RequestsMatch, AnswersItsRun
<1>4. practice # NoRun => AnswersItsRun(Submission)
  BY <1>1 DEF AnswersItsRun, Submission, ScreenMatches, TypeOK
<1>5. CASE ClickSubmit \/ TimeOver
  <2>1. UNCHANGED validated /\ received' \subseteq received \cup {Submission}
    BY <1>5 DEF ClickSubmit, TimeOver, Send
  <2>2. practice # NoRun \/ UNCHANGED received
    BY <1>5 DEF ClickSubmit, TimeOver
  <2> QED
    BY <1>1, <1>2, <1>4, <2>1, <2>2 DEF RequestsMatch
<1>6. CASE \E r \in received : Validate(r)
  <2>1. PICK r \in received : Validate(r)
    BY <1>6
  <2>2. received' \subseteq received /\ AnswersItsRun(r)
    BY <1>1, <2>1 DEF Validate, RequestsMatch
  <2>3. \A v \in validated' : v \in validated \/ v.request = r
    BY <2>1 DEF Validate
  <2> QED
    BY <1>1, <1>2, <2>2, <2>3 DEF RequestsMatch
<1>7. CASE received' = received /\ validated' \subseteq validated
  BY <1>1, <1>2, <1>7 DEF RequestsMatch
<1> QED
  BY <1>3, <1>5, <1>6, <1>7
  DEF Next, SignUp, LogIn, LogOut, Click, Choose, Arrive, ArriveStart, ArriveSubmit, Handle,
      StartPractice, SubmitPractice, FindBusy, TimePasses, vars, wire

LEMMA NextRepliesMatch == IInv /\ [Next]_vars => RepliesMatch'
<1> SUFFICES ASSUME IInv, [Next]_vars PROVE RepliesMatch'
  OBVIOUS
<1>1. TypeOK /\ RepliesMatch
  BY DEF IInv
<1>2. RunsKept
  BY <1>1, RunsStep
<1>3. CASE \E v \in validated : StartPractice(v)
  <2>1. PICK v \in validated : StartPractice(v)
    BY <1>3
  <2>2. PICK Q \in SUBSET Questions :
          /\ DOMAIN runs' = DOMAIN runs \cup {Len(runs) + 1}
          /\ runs'[Len(runs) + 1] = [user |-> v.user, paper |-> Q, grade |-> Ungraded,
                                     gradedBy |-> {}]
          /\ replies' = replies \cup
               {[op |-> "START_PRACTICE", run |-> Len(runs) + 1, paper |-> Q]}
    BY <1>1, <2>1, StartStep
  <2> QED
    BY <1>1, <1>2, <2>2 DEF RepliesMatch, RunsKept
<1>4. CASE \E v \in validated : SubmitPractice(v)
  <2>1. replies' = replies \cup {[op |-> "SUBMIT_PRACTICE"]}
    BY <1>4 DEF SubmitPractice
  <2> QED
    BY <1>1, <1>2, <2>1 DEF RepliesMatch, RunsKept
<1>5. CASE replies' \subseteq replies
  BY <1>1, <1>2, <1>5 DEF RepliesMatch, RunsKept
<1> QED
  BY <1>3, <1>4, <1>5
  DEF Next, SignUp, LogIn, LogOut, Click, ClickStart, Choose, ClickSubmit, TimeOver, Arrive,
      ArriveStart, ArriveSubmit, Handle, Validate, FindBusy, TimePasses, vars, wire

LEMMA NextScreenMatches == IInv /\ [Next]_vars => ScreenMatches'
<1> SUFFICES ASSUME IInv, [Next]_vars PROVE ScreenMatches'
  OBVIOUS
<1>1. TypeOK /\ RepliesMatch /\ ScreenMatches
  BY DEF IInv
<1>2. RunsKept
  BY <1>1, RunsStep
<1>3. CASE \E q \in Questions, o \in Options : Choose(q, o)
  <2>1. DOMAIN sheet' = DOMAIN sheet /\ UNCHANGED <<practice, runs>>
    BY <1>3 DEF Choose
  <2> QED
    BY <1>1, <2>1 DEF ScreenMatches
<1>4. CASE \E m \in replies : ArriveStart(m)
  BY <1>1, <1>2, <1>4 DEF ArriveStart, RepliesMatch, ScreenMatches, RunsKept
<1>5. CASE \E m \in replies : ArriveSubmit(m)
  BY <1>5 DEF ArriveSubmit, ScreenMatches
<1>6. CASE UNCHANGED <<practice, sheet>>
  BY <1>1, <1>2, <1>6 DEF ScreenMatches, RunsKept, TypeOK
<1> QED
  BY <1>3, <1>4, <1>5, <1>6
  DEF Next, SignUp, LogIn, LogOut, Click, ClickStart, ClickSubmit, TimeOver, Arrive,
      Handle, Validate, StartPractice, SubmitPractice, FindBusy, TimePasses, vars, page

LEMMA NextLoggedInFirst == IInv /\ [Next]_vars => LoggedInFirst'
<1> SUFFICES ASSUME IInv, [Next]_vars, token' = NoToken
             PROVE  practice' = NoRun /\ received' = {} /\ validated' = {} /\ replies' = {}
  BY DEF LoggedInFirst
<1>1. LoggedInFirst /\ SessionsTypeOK
  BY DEF IInv, TypeOK
<1>2. ~ \E u \in Users : LogIn(u)
  BY <1>1, LoginTokens DEF LogIn
<1>3. token = NoToken
  BY <1>2 DEF Next, SignUp, LogOut, Click, ClickStart, Choose, ClickSubmit, TimeOver, Arrive,
              ArriveStart, ArriveSubmit, Handle, Validate, StartPractice, SubmitPractice,
              FindBusy, TimePasses, vars, page
<1>4. practice = NoRun /\ received = {} /\ validated = {} /\ replies = {}
  BY <1>1, <1>3 DEF LoggedInFirst
<1>5. ~ (\E n \in Counts : ClickStart(n)) /\ ~ ClickSubmit /\ ~ Arrive /\ ~ Handle
  BY <1>3, <1>4 DEF ClickStart, ClickSubmit, Arrive, Handle
<1>6. UNCHANGED <<practice, wire>>
  BY <1>2, <1>4, <1>5
  DEF Next, SignUp, LogOut, Click, Choose, TimeOver, TimePasses, vars, page, wire
<1> QED
  BY <1>4, <1>6 DEF wire

-----------------------------------------------------------------------------
(* Results. *)

LEMMA NextResultOfHolder == IInv /\ [Next]_vars => ResultOfHolder'
<1> SUFFICES ASSUME IInv, [Next]_vars PROVE ResultOfHolder'
  OBVIOUS
<1>1. TypeOK /\ ResultOfHolder
  BY DEF IInv
<1>2. CASE \E v \in validated : StartPractice(v)
  <2>1. PICK v \in validated : StartPractice(v)
    BY <1>2
  <2>2. PICK Q \in SUBSET Questions :
          /\ DOMAIN runs' = DOMAIN runs \cup {Len(runs) + 1}
          /\ \A p \in DOMAIN runs : runs'[p] = runs[p]
          /\ runs'[Len(runs) + 1] = [user |-> v.user, paper |-> Q, grade |-> Ungraded,
                                     gradedBy |-> {}]
    BY <1>1, <2>1, StartStep
  <2> QED
    BY <1>1, <2>2 DEF ResultOfHolder
<1>3. CASE \E v \in validated : SubmitPractice(v)
  <2>1. PICK v \in validated : SubmitPractice(v)
    BY <1>3
  <2>2. /\ DOMAIN runs' = DOMAIN runs
        /\ \A p \in DOMAIN runs :
             \/ runs'[p] = runs[p]
             \/ /\ v.user = runs[p].user /\ runs'[p].user = runs[p].user
                /\ runs'[p].gradedBy = runs[p].gradedBy \cup {v.user}
    BY <1>1, <2>1, SubmitStep
  <2> QED
    BY <1>1, <2>2 DEF ResultOfHolder
<1>4. CASE UNCHANGED runs
  BY <1>1, <1>4 DEF ResultOfHolder
<1> QED
  BY <1>2, <1>3, <1>4
  DEF Next, SignUp, LogIn, LogOut, Click, ClickStart, Choose, ClickSubmit, TimeOver, Arrive,
      ArriveStart, ArriveSubmit, Handle, Validate, FindBusy, TimePasses, vars

LEMMA NextScoreWithinPaper == IInv /\ [Next]_vars => ScoreWithinPaper'
<1> SUFFICES ASSUME IInv, [Next]_vars PROVE ScoreWithinPaper'
  OBVIOUS
<1>1. TypeOK /\ ScoreWithinPaper /\ RequestsMatch
  BY DEF IInv
<1>2. CASE \E v \in validated : StartPractice(v)
  <2>1. PICK v \in validated : StartPractice(v)
    BY <1>2
  <2>2. PICK Q \in SUBSET Questions :
          /\ DOMAIN runs' = DOMAIN runs \cup {Len(runs) + 1}
          /\ \A p \in DOMAIN runs : runs'[p] = runs[p]
          /\ runs'[Len(runs) + 1] = [user |-> v.user, paper |-> Q, grade |-> Ungraded,
                                     gradedBy |-> {}]
    BY <1>1, <2>1, StartStep
  <2> QED
    BY <1>1, <2>2 DEF ScoreWithinPaper
<1>3. CASE \E v \in validated : SubmitPractice(v)
  <2>1. PICK v \in validated : SubmitPractice(v)
    BY <1>3
  <2>2. /\ v.request.sheet \in Sheets
        /\ DOMAIN v.request.sheet = runs[v.request.run].paper
    BY <1>1, <2>1, SubmissionTyped DEF TypeOK, RequestsMatch, AnswersItsRun, SubmitPractice
  <2>3. \A grade \in GradesOf(v.request.sheet) :
          /\ grade.correct <= grade.outOf
          /\ grade.outOf <= Cardinality(runs[v.request.run].paper)
    BY <2>2, GradeCounts
  <2>4. /\ DOMAIN runs' = DOMAIN runs
        /\ \A p \in DOMAIN runs :
             \/ runs'[p] = runs[p]
             \/ /\ p = v.request.run /\ runs'[p].paper = runs[p].paper
                /\ runs'[p].grade \in GradesOf(v.request.sheet)
    BY <1>1, <2>1, SubmitStep
  <2> QED
    BY <1>1, <2>3, <2>4, ZenonT(30) DEF ScoreWithinPaper
<1>4. CASE UNCHANGED runs
  BY <1>1, <1>4 DEF ScoreWithinPaper
<1> QED
  BY <1>2, <1>3, <1>4
  DEF Next, SignUp, LogIn, LogOut, Click, ClickStart, Choose, ClickSubmit, TimeOver, Arrive,
      ArriveStart, ArriveSubmit, Handle, Validate, FindBusy, TimePasses, vars

-----------------------------------------------------------------------------
(* Sessions. *)

\* Whatever deletes a row, an ended token has none; a new one is not ended.
LEMMA NextEndedHasNoRow == IInv /\ [Next]_vars => EndedHasNoRow'
<1> SUFFICES ASSUME IInv, [Next]_vars PROVE EndedHasNoRow'
  OBVIOUS
<1>1. SessionsTypeOK /\ EndedHasNoRow
  BY DEF IInv, TypeOK
<1>2. CASE \E u \in Users : LogIn(u)
  <2>1. sessions' = sessions \cup {Len(issued) + 1} /\ ended' = ended
    BY <1>2 DEF LogIn, Login
  <2>2. Len(issued) + 1 \notin ended
    BY <1>1, <1>2, LoginTokens DEF LogIn, SessionsTypeOK
  <2> QED
    BY <1>1, <2>1, <2>2 DEF EndedHasNoRow
<1>3. CASE \E t \in Tokens : LogOut(t)
  BY <1>1, <1>3 DEF LogOut, Logout, Delete, EndedHasNoRow
<1>4. CASE \E r \in received : Validate(r)
  BY <1>1, <1>4 DEF Validate, RefuseExpired, Delete, EndedHasNoRow, sessionVars
<1>5. CASE UNCHANGED <<sessions, ended>>
  BY <1>1, <1>5 DEF EndedHasNoRow
<1> QED
  BY <1>2, <1>3, <1>4, <1>5
  DEF Next, SignUp, Register, Click, ClickStart, Choose, ClickSubmit, TimeOver, Arrive,
      ArriveStart, ArriveSubmit, Handle, StartPractice, SubmitPractice, FindBusy, TimePasses,
      ClockMoves, vars, sessionVars

-----------------------------------------------------------------------------
(* The invariant and what follows from it. *)

\* The inductive invariant holds in every reachable state.
THEOREM Invariance == Spec => []IInv
<1>1. Init => IInv
  BY InitInv
<1>2. IInv /\ [Next]_vars => IInv'
  BY NextTyped, NextRequestsMatch, NextRepliesMatch, NextScreenMatches, NextLoggedInFirst,
     NextEndedHasNoRow, NextResultOfHolder, NextScoreWithinPaper DEF IInv
<1> QED
  BY <1>1, <1>2, PTL DEF Spec

\* The tables of auth.cpp and practice_runs, the requests, the replies and the
\* page always hold values of their types.
THEOREM TypeCorrect == Spec => []TypeOK
<1>1. IInv => TypeOK
  BY DEF IInv
<1> QED
  BY <1>1, Invariance, PTL

\* No session that logout or validate has ended lets a request through again,
\* for any number of logins and however the clock is set (auth.cpp).
THEOREM EndedSessionsStayEnded == Spec => []EndedForGood
<1>1. IInv => EndedForGood
  BY DEF IInv, EndedHasNoRow, EndedForGood, Admits
<1> QED
  BY <1>1, Invariance, PTL

\* Whoever logs in on the page while a practice is on screen, only its own
\* student's requests record a result of it (submit_practice).
THEOREM ResultsOfHolders == Spec => []ResultOfHolder
<1>1. IInv => ResultOfHolder
  BY DEF IInv
<1> QED
  BY <1>1, Invariance, PTL

\* Whatever requests and replies are under way, and in whatever order they are
\* handled, every submission, also one already validated, answers exactly the
\* questions of its own practice; a grade counts at most that many answers, for
\* every bank and whichever SELECTs meet the lock (handleMessage, submit_practice).
THEOREM PracticeIsOnItsPaper == Spec => []PracticeMatchesPaper
<1>1. IInv => PracticeMatchesPaper
  BY DEF IInv, RequestsMatch, AnswersItsRun, ScoreWithinPaper, PracticeMatchesPaper
<1> QED
  BY <1>1, Invariance, PTL
=============================================================================
