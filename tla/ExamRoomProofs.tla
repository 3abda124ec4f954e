--------------------------- MODULE ExamRoomProofs ---------------------------
(***************************************************************************)
(* Proofs about ExamRoom, for every number of users, rooms, questions and  *)
(* seconds, and with or without a busy database and the worker.            *)
(***************************************************************************)
EXTENDS ExamRoom, FiniteSetTheorems, TLAPS

-----------------------------------------------------------------------------
(* The operators the tables are built with. *)

\* Put is an upsert: it sets one row and leaves the others alone.
LEMMA PutRows ==
  ASSUME NEW table, NEW key, NEW row
  PROVE  /\ DOMAIN Put(table, key, row) = DOMAIN table \cup {key}
         /\ Put(table, key, row)[key] = row
         /\ \A k \in DOMAIN table \ {key} : Put(table, key, row)[k] = table[k]
BY DEF Put

LEMMA PutTyped ==
  ASSUME NEW K, NEW R, NEW table, DOMAIN table \subseteq K,
         \A k \in DOMAIN table : table[k] \in R,
         NEW key \in K, NEW row \in R
  PROVE  /\ DOMAIN Put(table, key, row) \subseteq K
         /\ \A k \in DOMAIN Put(table, key, row) : Put(table, key, row)[k] \in R
BY DEF Put

\* Grading a row of exams, and setting the size of its paper, leave a row.
LEMMA RowUpdates ==
  ASSUME NEW row \in ExamRows
  PROVE  /\ \A n \in Nat : [row EXCEPT !.total = n] \in ExamRows
         /\ \A grade \in Results : now \in Nat => Graded(row, grade) \in ExamRows
BY DEF ExamRows, Results, Graded

LEMMA GradedRow ==
  ASSUME NEW row \in ExamRows, NEW grade
  PROVE  /\ Graded(row, grade).submitted_at = now
         /\ Graded(row, grade).correct = grade.correct
         /\ Graded(row, grade).total = grade.total
BY DEF ExamRows, Graded

\* Saving a batch of answers to questions of the bank yields a sheet.
LEMMA OverlaySheet ==
  ASSUME NEW sheet \in Sheets, NEW Q \in SUBSET Questions, NEW batch \in [Q -> Options]
  PROVE  /\ Overlay(sheet, batch) \in Sheets
         /\ Answered(Overlay(sheet, batch)) \subseteq Answered(sheet) \cup Q
BY DEF Overlay, Sheets, Answered

\* What a grading loop counts are numbers, and it counts no more right
\* answers than answers.
LEMMA GradeCounts ==
  ASSUME NEW seen \in Sheets, NEW fallback \in Nat
  PROVE  /\ GradeOf(seen, fallback) \in Results
         /\ GradeOf(seen, fallback).correct <= GradeOf(seen, fallback).total
<1>1. Right(seen) \subseteq Answered(seen) /\ Answered(seen) \subseteq Questions
  BY BankAssumption DEF Right, Answered, Sheets
<1>2. IsFiniteSet(Answered(seen))
  BY <1>1, BankAssumption, FS_Subset
<1>3. /\ IsFiniteSet(Right(seen))
      /\ Cardinality(Right(seen)) <= Cardinality(Answered(seen))
  BY <1>1, <1>2, FS_Subset
<1>4. Cardinality(Answered(seen)) \in Nat /\ Cardinality(Right(seen)) \in Nat
  BY <1>2, <1>3, FS_CardinalityType
<1> QED
  BY <1>3, <1>4 DEF Results, GradeOf

\* A sheet is seen as it is or as blank.
LEMMA SeenSheet ==
  ASSUME NEW e, NEW sheet \in Sheets, NEW unread
  PROVE  /\ Seen(e, sheet, unread) \in Sheets
         /\ Answered(Seen(e, sheet, unread)) \subseteq Answered(sheet)
BY DEF Seen, BlankSheet, Sheets, Answered

\* A choice of questions is a set of questions of the bank, and it is finite.
LEMMA PickedPaper ==
  ASSUME NEW n \in Sizes, NEW Q \in Picks(n)
  PROVE  Q \subseteq Questions /\ Cardinality(Q) \in Nat
BY BankAssumption, FS_Subset, FS_CardinalityType DEF Picks

\* A batch answers questions of the paper of its exam.
LEMMA BatchOnPaper ==
  ASSUME TypeOK, NEW e \in Keys, NEW batch \in Batches(e)
  PROVE  /\ DOMAIN batch \subseteq paper[e]
         /\ DOMAIN batch \subseteq Questions
         /\ batch \in [DOMAIN batch -> Options]
         /\ Cardinality(DOMAIN batch) \in Nat
<1>1. PICK S \in SUBSET paper[e] : batch \in [S -> Options]
  BY DEF Batches
<1>2. paper[e] \subseteq Questions
  BY DEF TypeOK
<1>3. IsFiniteSet(S) /\ Cardinality(S) \in Nat
  BY <1>2, BankAssumption, FS_Subset, FS_CardinalityType
<1> QED
  BY <1>1, <1>2, <1>3

\* The row ensure_exam finds or inserts is a row of exams.
LEMMA EnsuredRowType ==
  ASSUME TypeOK, NEW e \in Keys, NEW start \in Nat, NEW end \in Int
  PROVE  EnsuredRow(e, start, end) \in ExamRows
BY DEF EnsuredRow, ExamRows, TypeOK, Null

-----------------------------------------------------------------------------
(* Type correctness. *)

LEMMA InitType == Init => TypeOK
BY BoundsAssumption, BankAssumption DEF Init, TypeOK, BlankSheet, Sheets

LEMMA GetExamPaperType ==
  ASSUME TypeOK, NEW e \in Keys, GetExamPaper(e)
  PROVE  TypeOK'
<1> DEFINE start == now
           end == now + rooms[e[1]].duration
<1>1. e[1] \in DOMAIN rooms /\ rooms[e[1]] \in RoomRows
  BY DEF GetExamPaper, RoomIs, TypeOK
<1>2. start \in Nat /\ end \in Int
  <2>1. rooms[e[1]].duration \in Int
    BY <1>1, SettingsAssumption DEF RoomRows
  <2> QED
    BY <2>1 DEF TypeOK
<1>3. EnsuredRow(e, start, end) \in ExamRows
  BY <1>2, EnsuredRowType
<1>4. /\ IssuePaper(e, start, end) \/ LosePaper(e, start, end)
      /\ UNCHANGED <<rooms, lastRoom, participants, answers, now, told>>
  BY DEF GetExamPaper
<1> HIDE DEF start, end
<1>5. CASE IssuePaper(e, start, end)
  <2>1. PICK Q \in Picks(rooms[e[1]].size) :
          /\ exams' = Put(exams, e, [EnsuredRow(e, start, end) EXCEPT !.total = Cardinality(Q)])
          /\ paper' = [paper EXCEPT ![e] = Q]
          /\ handed' = [handed EXCEPT ![e] = @ \cup
                          {[paper |-> Q, start_time |-> start, end_time |-> end]}]
    BY <1>5 DEF IssuePaper
  <2>2. Q \subseteq Questions /\ Cardinality(Q) \in Nat
    BY <1>1, PickedPaper DEF RoomRows
  <2>3. [EnsuredRow(e, start, end) EXCEPT !.total = Cardinality(Q)] \in ExamRows
    BY <1>3, <2>2, RowUpdates
  <2>4. DOMAIN exams' \subseteq Keys /\ \A k \in DOMAIN exams' : exams'[k] \in ExamRows
    BY <2>1, <2>3, PutTyped, SMTT(30) DEF TypeOK
  <2>5. paper' \in [Keys -> SUBSET Questions]
    BY <2>1, <2>2 DEF TypeOK
  <2>6. [paper |-> Q, start_time |-> start, end_time |-> end] \in ExamPapers
    BY <1>2, <2>2 DEF ExamPapers
  <2>7. handed' \in [Keys -> SUBSET ExamPapers]
    BY <2>1, <2>6 DEF TypeOK
  <2> QED
    BY <1>4, <2>4, <2>5, <2>7 DEF TypeOK
<1>6. CASE LosePaper(e, start, end)
  <2>1. DOMAIN exams' \subseteq Keys /\ \A k \in DOMAIN exams' : exams'[k] \in ExamRows
    BY <1>3, <1>6, PutTyped DEF LosePaper, TypeOK
  <2> QED
    BY <1>4, <1>6, <2>1 DEF LosePaper, TypeOK
<1> QED
  BY <1>4, <1>5, <1>6

LEMMA SubmitExamType ==
  ASSUME TypeOK, NEW e \in Keys, NEW batch \in Batches(e), SubmitExam(e, batch)
  PROVE  TypeOK'
<1>1. PICK unread \in Unread({e}) :
        LET grade == GradeOf(Seen(e, Overlay(answers[e], batch), unread),
                             Cardinality(DOMAIN batch))
        IN /\ exams' = [exams EXCEPT ![e] = Graded(@, grade)]
           /\ told' = [told EXCEPT ![e] = @ \cup {grade}]
  BY DEF SubmitExam
<1> DEFINE sheet == Overlay(answers[e], batch)
           seen == Seen(e, sheet, unread)
           grade == GradeOf(seen, Cardinality(DOMAIN batch))
<1>2. sheet \in Sheets
  BY BatchOnPaper, OverlaySheet DEF TypeOK
<1>3. grade \in Results
  <2>1. seen \in Sheets
    BY <1>2, SeenSheet
  <2>2. Cardinality(DOMAIN batch) \in Nat
    BY BatchOnPaper
  <2> HIDE DEF seen
  <2> QED
    BY <2>1, <2>2, GradeCounts
<1>4. Graded(exams[e], grade) \in ExamRows
  BY <1>3, RowUpdates DEF SubmitExam, IsOpen, TypeOK
<1>5. DOMAIN exams' \subseteq Keys /\ \A k \in DOMAIN exams' : exams'[k] \in ExamRows
  BY <1>1, <1>4 DEF TypeOK
<1>6. told' \in [Keys -> SUBSET Results]
  BY <1>1, <1>3 DEF TypeOK
<1>7. answers' \in [Keys -> Sheets]
  BY <1>2 DEF SubmitExam, TypeOK
<1> QED
  BY <1>5, <1>6, <1>7 DEF SubmitExam, TypeOK

\* A run of the worker records exams out of those it looked for.
LEMMA RecordedSubset ==
  \A S, T : T \in Recorded(S) => T \subseteq S
BY DEF Recorded

\* The worker falls back on a number.
LEMMA StoredTotalType ==
  ASSUME NEW e, exams[e] \in ExamRows, NEW unread
  PROVE  StoredTotal(e, unread) \in Nat /\ StoredTotal(e, unread) <= exams[e].total
BY DEF StoredTotal, ExamRows

\* A run of the worker, and what it leaves alone.
LEMMA AutoSubmitRun ==
  ASSUME AutoSubmit
  PROVE  \E S, unread, uncounted :
           /\ S # {} /\ S \subseteq Expired
           /\ exams' = [e \in DOMAIN exams |->
                          IF e \in S THEN AutoGraded(e, unread, uncounted) ELSE exams[e]]
<1>1. PICK S \in Recorded(Expired) :
        \E unread, uncounted \in Unread(S) :
          /\ S # {}
          /\ exams' = [e \in DOMAIN exams |->
                         IF e \in S THEN AutoGraded(e, unread, uncounted) ELSE exams[e]]
  BY Zenon DEF AutoSubmit
<1>2. PICK unread \in Unread(S), uncounted \in Unread(S) :
        /\ S # {}
        /\ exams' = [e \in DOMAIN exams |->
                       IF e \in S THEN AutoGraded(e, unread, uncounted) ELSE exams[e]]
  BY <1>1, Zenon
<1>3. S \subseteq Expired
  BY RecordedSubset
<1> QED
  BY <1>2, <1>3, Zenon

LEMMA AutoSubmitType ==
  ASSUME TypeOK, AutoSubmit
  PROVE  TypeOK'
<1>1. PICK S, unread, uncounted :
        exams' = [e \in DOMAIN exams |->
                    IF e \in S THEN AutoGraded(e, unread, uncounted) ELSE exams[e]]
  BY AutoSubmitRun
<1>2. ASSUME NEW e \in DOMAIN exams
      PROVE  AutoGraded(e, unread, uncounted) \in ExamRows
  <2>1. exams[e] \in ExamRows /\ answers[e] \in Sheets
    BY <1>2 DEF TypeOK
  <2>2. StoredTotal(e, uncounted) \in Nat
    BY <2>1, StoredTotalType
  <2>3. GradeOf(Seen(e, answers[e], unread), StoredTotal(e, uncounted)) \in Results
    BY <2>1, <2>2, SeenSheet, GradeCounts
  <2> QED
    BY <2>1, <2>3, RowUpdates DEF TypeOK, AutoGraded
<1>3. DOMAIN exams' \subseteq Keys /\ \A k \in DOMAIN exams' : exams'[k] \in ExamRows
  BY <1>1, <1>2 DEF TypeOK
<1> QED
  BY <1>3 DEF AutoSubmit, TypeOK

LEMMA NextType ==
  ASSUME TypeOK, [Next]_vars
  PROVE  TypeOK'
<1>1. ASSUME NEW u \in Users, NEW d \in Durations, NEW n \in Sizes, CreateRoom(u, d, n)
      PROVE  TypeOK'
  <2>1. lastRoom + 1 \in RoomIds /\ lastRoom' \in 0 .. MaxRooms
    BY <1>1, BoundsAssumption DEF CreateRoom, TypeOK, RoomIds
  <2>2. [status |-> "WAITING", creator |-> u, created_at |-> now,
         duration |-> d, size |-> n] \in RoomRows
    BY DEF RoomRows, Statuses, TypeOK
  <2>3. DOMAIN rooms' \subseteq RoomIds /\ \A r \in DOMAIN rooms' : rooms'[r] \in RoomRows
    <3>1. DOMAIN rooms \subseteq RoomIds /\ \A r \in DOMAIN rooms : rooms[r] \in RoomRows
      BY DEF TypeOK
    <3>2. rooms' = Put(rooms, lastRoom + 1,
                       [status |-> "WAITING", creator |-> u, created_at |-> now,
                        duration |-> d, size |-> n])
      BY <1>1 DEF CreateRoom
    <3> QED
      BY <2>1, <2>2, <3>1, <3>2, PutTyped, SMTT(30)
  <2> QED
    BY <1>1, <2>1, <2>3 DEF CreateRoom, TypeOK
<1>2. ASSUME NEW r \in RoomIds, NEW u \in Users, JoinRoom(r, u)
      PROVE  TypeOK'
  BY <1>2 DEF JoinRoom, TypeOK, Keys
<1>3. ASSUME NEW r \in RoomIds, NEW u \in Users, StartRoom(r, u) \/ FinishRoom(r, u)
      PROVE  TypeOK'
  BY <1>3 DEF StartRoom, FinishRoom, SetStatus, RoomIs, TypeOK, RoomRows, Statuses
<1>4. ASSUME NEW r \in RoomIds, NEW u \in Users, DeleteRoom(r, u)
      PROVE  TypeOK'
  BY <1>4 DEF DeleteRoom, TypeOK
<1>5. ASSUME NEW e \in Keys, GetExamPaper(e)
      PROVE  TypeOK'
  BY <1>5, GetExamPaperType
<1>6. ASSUME NEW e \in Keys, NEW batch \in Batches(e), SubmitAnswers(e, batch)
      PROVE  TypeOK'
  <2>1. Overlay(answers[e], batch) \in Sheets
    BY BatchOnPaper, OverlaySheet DEF TypeOK
  <2> QED
    BY <1>6, <2>1 DEF SubmitAnswers, TypeOK
<1>7. ASSUME NEW e \in Keys, NEW batch \in Batches(e), SubmitExam(e, batch)
      PROVE  TypeOK'
  BY <1>7, SubmitExamType
<1>8. CASE AutoSubmit
  BY <1>8, AutoSubmitType
<1>9. CASE Tick
  BY <1>9 DEF Tick, TypeOK
<1>10. CASE UNCHANGED vars
  BY <1>10 DEF vars, TypeOK
<1> QED
  BY <1>1, <1>2, <1>3, <1>4, <1>5, <1>6, <1>7, <1>8, <1>9, <1>10 DEF Next

\* The tables, the clock and the replies have their types in every reachable
\* state.
THEOREM TypeCorrect == Spec => []TypeOK
<1>1. Init => TypeOK
  BY InitType
<1>2. TypeOK /\ [Next]_vars => TypeOK'
  BY NextType
<1> QED
  BY <1>1, <1>2, PTL DEF Spec
-----------------------------------------------------------------------------
(***************************************************************************)
(* The inductive invariant.  Four facts are added to the properties:       *)
(*   - ids are handed out in order, so the next room has no exam yet;      *)
(*   - an exam's paper is stored exactly when it was handed to the student;*)
(*   - a paper belongs to an exam, and so does a result a student was told;*)
(*   - a graded exam has a paper, unless the worker can grade an exam      *)
(*     whose paper was lost.                                               *)
(***************************************************************************)
RoomsCounted ==
  /\ \A r \in DOMAIN rooms : r <= lastRoom
  /\ \A e \in participants : e[1] <= lastRoom

PaperHanded ==
  \A e \in Keys :
    /\ paper[e] = {} <=> handed[e] = {}
    /\ paper[e] # {} => e \in DOMAIN exams
    /\ told[e] # {} => paper[e] # {}

\* The worker does not run while papers can be lost; as main.cpp is built it
\* does not run at all.
WorkerSafe == AutoSubmitWorker => "paper" \notin Faults

ExamHasPaper ==
  \A e \in DOMAIN exams :
    /\ "paper" \notin Faults => paper[e] # {}
    /\ WorkerSafe /\ IsSubmitted(e) => paper[e] # {}

IInv ==
  /\ TypeOK
  /\ RoomsCounted
  /\ ExamOfParticipant
  /\ PaperHanded
  /\ OnePaper
  /\ ToldIsRecorded
  /\ ExamHasPaper
LEMMA InitIInv == Init => IInv
<1> SUFFICES ASSUME Init PROVE IInv
  OBVIOUS
<1>1. TypeOK
  BY InitType
<1> QED
  BY <1>1 DEF IInv, Init, RoomsCounted, ExamOfParticipant, PaperHanded, OnePaper,
              ToldIsRecorded, ExamHasPaper

\* A new room has an id no exam and no participant refers to.
LEMMA CreateRoomIInv ==
  ASSUME IInv, TypeOK', NEW u \in Users, NEW d \in Durations, NEW n \in Sizes,
         CreateRoom(u, d, n)
  PROVE  IInv'
<1>1. /\ lastRoom' = lastRoom + 1 /\ lastRoom \in Nat
      /\ DOMAIN rooms' = DOMAIN rooms \cup {lastRoom + 1}
      /\ \A r \in DOMAIN rooms : r # lastRoom + 1 => rooms'[r] = rooms[r]
  <2>1. lastRoom' = lastRoom + 1 /\ lastRoom \in Nat
    BY BoundsAssumption DEF CreateRoom, IInv, TypeOK
  <2>2. PICK row : rooms' = Put(rooms, lastRoom + 1, row)
    BY DEF CreateRoom
  <2> QED
    BY <2>1, <2>2 DEF Put
<1>2. UNCHANGED <<participants, exams, paper, handed, told>>
  BY DEF CreateRoom
<1>3. RoomsCounted'
  BY <1>1, <1>2 DEF IInv, TypeOK, RoomsCounted, RoomIds, Keys
<1>4. ExamOfParticipant'
  <2> SUFFICES ASSUME NEW e \in DOMAIN exams
               PROVE  e \in participants /\ ~ RoomIs(e[1], "WAITING")'
    BY <1>2 DEF ExamOfParticipant
  <2>1. e \in participants /\ e[1] <= lastRoom /\ ~ RoomIs(e[1], "WAITING")
    BY DEF IInv, ExamOfParticipant, RoomsCounted
  <2>2. e[1] # lastRoom + 1
    BY <1>1, <2>1 DEF IInv, TypeOK, Keys, RoomIds
  <2> QED
    BY <1>1, <2>1, <2>2 DEF RoomIs
<1> QED
  BY <1>2, <1>3, <1>4 DEF IInv, PaperHanded, OnePaper, ToldIsRecorded, ExamHasPaper,
                          IsSubmitted

LEMMA RoomStepIInv ==
  ASSUME IInv, TypeOK', NEW r \in RoomIds, NEW u \in Users,
         JoinRoom(r, u) \/ StartRoom(r, u) \/ FinishRoom(r, u) \/ DeleteRoom(r, u)
  PROVE  IInv'
<1>1. UNCHANGED <<lastRoom, exams, paper, handed, told>>
  BY DEF JoinRoom, StartRoom, FinishRoom, DeleteRoom
<1>2. DOMAIN rooms' \subseteq DOMAIN rooms
  BY DEF JoinRoom, StartRoom, FinishRoom, DeleteRoom, SetStatus
<1>3. participants \subseteq participants'
  BY DEF JoinRoom, StartRoom, FinishRoom, DeleteRoom
<1>4. ASSUME NEW x, RoomIs(x, "WAITING")'
      PROVE  RoomIs(x, "WAITING")
  <2>1. CASE JoinRoom(r, u)
    BY <1>4, <2>1 DEF JoinRoom, RoomIs
  <2>2. ASSUME NEW st \in {"IN_PROGRESS", "FINISHED"}, SetStatus(r, st), r \in DOMAIN rooms
        PROVE  RoomIs(x, "WAITING")
    <3>1. x # r
      BY <1>4, <2>2 DEF SetStatus, RoomIs, IInv, TypeOK, RoomRows
    <3> QED
      BY <1>4, <2>2, <3>1 DEF SetStatus, RoomIs
  <2>3. CASE DeleteRoom(r, u)
    BY <1>4, <2>3 DEF DeleteRoom, RoomIs
  <2> QED
    BY <2>1, <2>2, <2>3 DEF StartRoom, FinishRoom, RoomIs
<1>5. \A e \in participants' : e \in participants \/ (e = <<r, u>> /\ r \in DOMAIN rooms)
  BY DEF JoinRoom, StartRoom, FinishRoom, DeleteRoom, RoomIs
<1>6. RoomsCounted'
  BY <1>1, <1>2, <1>5 DEF IInv, RoomsCounted
<1>7. ExamOfParticipant'
  BY <1>1, <1>3, <1>4 DEF IInv, ExamOfParticipant
<1> QED
  BY <1>1, <1>6, <1>7 DEF IInv, PaperHanded, OnePaper, ToldIsRecorded, ExamHasPaper,
                          IsSubmitted

LEMMA GetExamPaperIInv ==
  ASSUME IInv, TypeOK', NEW e \in Keys, GetExamPaper(e)
  PROVE  IInv'
<1> DEFINE start == now
           end == now + rooms[e[1]].duration
           row == EnsuredRow(e, start, end)
<1>1. /\ UNCHANGED <<rooms, lastRoom, participants, answers, now, told>>
      /\ RoomIs(e[1], "IN_PROGRESS") /\ e \in participants /\ paper[e] = {}
      /\ IssuePaper(e, start, end) \/ LosePaper(e, start, end)
  BY DEF GetExamPaper
<1>2. \E new : /\ exams' = Put(exams, e, new)
               /\ new.submitted_at = row.submitted_at
  <2>1. row \in ExamRows
    <3>1. rooms[e[1]].duration \in Int
      BY <1>1, SettingsAssumption DEF RoomIs, IInv, TypeOK, RoomRows
    <3>2. start \in Nat /\ end \in Int
      BY <3>1 DEF IInv, TypeOK
    <3> QED
      BY <3>2, EnsuredRowType DEF IInv
  <2> HIDE DEF row
  <2>2. \A n : [row EXCEPT !.total = n].submitted_at = row.submitted_at
    BY <2>1 DEF ExamRows
  <2>3. CASE IssuePaper(e, start, end)
    <3>1. PICK Q : exams' = Put(exams, e, [row EXCEPT !.total = Cardinality(Q)])
      BY <2>3 DEF IssuePaper, row
    <3> DEFINE new == [row EXCEPT !.total = Cardinality(Q)]
    <3>2. exams' = Put(exams, e, new) /\ new.submitted_at = row.submitted_at
      BY <2>2, <3>1
    <3> HIDE DEF new
    <3> QED
      BY <3>2
  <2>4. CASE LosePaper(e, start, end)
    BY <2>4 DEF LosePaper, row
  <2> QED
    BY <1>1, <2>3, <2>4
<1>3. /\ DOMAIN exams' = DOMAIN exams \cup {e}
      /\ \A k \in DOMAIN exams \ {e} : exams'[k] = exams[k]
      /\ exams'[e].submitted_at = row.submitted_at
  BY <1>2 DEF Put
<1>4. ~ IsSubmitted(e) => ~ IsSubmitted(e)'
  BY <1>3 DEF IsSubmitted, EnsuredRow
<1>5. /\ \A k \in Keys \ {e} : paper'[k] = paper[k] /\ handed'[k] = handed[k]
      /\ \/ paper'[e] = paper[e] /\ handed'[e] = handed[e] /\ "paper" \in Faults
         \/ /\ paper'[e] # {}
            /\ \E h : h.paper = paper'[e] /\ handed'[e] = handed[e] \cup {h}
  BY <1>1 DEF IssuePaper, LosePaper, IInv, TypeOK
<1> HIDE DEF start, end, row
<1>6. handed[e] = {} /\ told[e] = {}
  BY <1>1 DEF IInv, PaperHanded
<1>7. RoomsCounted'
  BY <1>1 DEF IInv, RoomsCounted
<1>8. ExamOfParticipant'
  BY <1>1, <1>3 DEF IInv, ExamOfParticipant, RoomIs
<1>9. PaperHanded'
  BY <1>1, <1>3, <1>5, <1>6 DEF IInv, PaperHanded
<1>10. OnePaper'
  BY <1>5, <1>6 DEF IInv, OnePaper
<1>11. ToldIsRecorded'
  BY <1>1, <1>3, <1>6 DEF IInv, ToldIsRecorded, IsSubmitted
<1>12. ExamHasPaper'
  <2> SUFFICES ASSUME NEW k \in DOMAIN exams'
               PROVE  /\ "paper" \notin Faults => paper'[k] # {}
                      /\ WorkerSafe /\ IsSubmitted(k)' => paper'[k] # {}
    BY DEF ExamHasPaper, WorkerSafe
  <2>1. CASE k # e
    BY <1>3, <1>5, <2>1 DEF IInv, TypeOK, ExamHasPaper, IsSubmitted, Keys
  <2>2. CASE k = e
    BY <1>1, <1>4, <1>5, <2>2 DEF IInv, ExamHasPaper, IsSubmitted
  <2> QED
    BY <2>1, <2>2
<1> QED
  BY <1>7, <1>8, <1>9, <1>10, <1>11, <1>12 DEF IInv

LEMMA SubmitExamIInv ==
  ASSUME IInv, TypeOK', NEW e \in Keys, NEW batch \in Batches(e), SubmitExam(e, batch)
  PROVE  IInv'
<1>1. /\ UNCHANGED <<rooms, lastRoom, participants, paper, handed>>
      /\ handed[e] # {} /\ e \in DOMAIN exams /\ exams[e].submitted_at = Null
  BY DEF SubmitExam, KnowsExam, IsOpen
<1>2. PICK grade \in Results :
        /\ exams' = [exams EXCEPT ![e] = Graded(@, grade)]
        /\ told' = [told EXCEPT ![e] = @ \cup {grade}]
  <2>1. PICK unread \in Unread({e}) :
          LET grade == GradeOf(Seen(e, Overlay(answers[e], batch), unread),
                               Cardinality(DOMAIN batch))
          IN /\ exams' = [exams EXCEPT ![e] = Graded(@, grade)]
             /\ told' = [told EXCEPT ![e] = @ \cup {grade}]
    BY DEF SubmitExam
  <2>2. Seen(e, Overlay(answers[e], batch), unread) \in Sheets
    BY BatchOnPaper, OverlaySheet, SeenSheet DEF IInv, TypeOK
  <2>3. Cardinality(DOMAIN batch) \in Nat
    BY BatchOnPaper DEF IInv
  <2> QED
    BY <2>1, <2>2, <2>3, GradeCounts
<1>3. /\ DOMAIN exams' = DOMAIN exams
      /\ \A k \in DOMAIN exams \ {e} : exams'[k] = exams[k]
      /\ exams'[e].submitted_at = now /\ now # Null
      /\ exams'[e].correct = grade.correct /\ exams'[e].total = grade.total
  <2>1. exams[e] \in ExamRows /\ now \in Nat
    BY <1>1 DEF IInv, TypeOK
  <2>2. /\ Graded(exams[e], grade).submitted_at = now
        /\ Graded(exams[e], grade).correct = grade.correct
        /\ Graded(exams[e], grade).total = grade.total
    BY <2>1, GradedRow
  <2> QED
    BY <1>1, <1>2, <2>1, <2>2 DEF Null
<1>4. told[e] = {}
  BY <1>1 DEF IInv, ToldIsRecorded, IsSubmitted
<1>5. told'[e] = {grade} /\ \A k \in Keys \ {e} : told'[k] = told[k]
  BY <1>2, <1>4 DEF IInv, TypeOK
<1>6. ToldIsRecorded'
  <2>1. grade = [correct |-> grade.correct, total |-> grade.total]
    BY DEF Results
  <2>2. IsSubmitted(e)' /\ grade = [correct |-> exams'[e].correct, total |-> exams'[e].total]
    BY <1>1, <1>3, <2>1 DEF IsSubmitted
  <2>3. \A k \in Keys \ {e} : IsSubmitted(k) => IsSubmitted(k)' /\ exams'[k] = exams[k]
    BY <1>3 DEF IsSubmitted
  <2> QED
    BY <1>5, <2>2, <2>3 DEF IInv, ToldIsRecorded
<1>7. PaperHanded'
  BY <1>1, <1>3, <1>5 DEF IInv, PaperHanded
<1>8. ExamHasPaper'
  BY <1>1, <1>3 DEF IInv, ExamHasPaper, PaperHanded, WorkerSafe, IsSubmitted
<1> QED
  BY <1>1, <1>3, <1>6, <1>7, <1>8
  DEF IInv, RoomsCounted, ExamOfParticipant, OnePaper, RoomIs

LEMMA AutoSubmitIInv ==
  ASSUME IInv, TypeOK', AutoSubmit
  PROVE  IInv'
<1>1. /\ UNCHANGED <<rooms, lastRoom, participants, paper, answers, now, handed, told>>
      /\ AutoSubmitWorker
      /\ DOMAIN exams' = DOMAIN exams
      /\ \A e \in DOMAIN exams \ Expired : exams'[e] = exams[e]
  BY RecordedSubset DEF AutoSubmit
<1>2. \A e \in Expired : e \in DOMAIN exams /\ IsOpen(e)
  BY DEF Expired
<1>3. ToldIsRecorded'
  BY <1>1, <1>2 DEF IInv, ToldIsRecorded, IsOpen, IsSubmitted
<1>4. ExamHasPaper'
  BY <1>1, <1>2 DEF IInv, ExamHasPaper, WorkerSafe, IsSubmitted
<1> QED
  BY <1>1, <1>3, <1>4
  DEF IInv, RoomsCounted, ExamOfParticipant, PaperHanded, OnePaper, RoomIs

LEMMA NextIInv ==
  ASSUME IInv, [Next]_vars
  PROVE  IInv'
<1>0. TypeOK'
  BY NextType DEF IInv
<1>1. ASSUME NEW u \in Users, NEW d \in Durations, NEW n \in Sizes, CreateRoom(u, d, n)
      PROVE  IInv'
  BY <1>0, <1>1, CreateRoomIInv
<1>2. ASSUME NEW r \in RoomIds, NEW u \in Users,
             JoinRoom(r, u) \/ StartRoom(r, u) \/ FinishRoom(r, u) \/ DeleteRoom(r, u)
      PROVE  IInv'
  BY <1>0, <1>2, RoomStepIInv
<1>3. ASSUME NEW e \in Keys, GetExamPaper(e)
      PROVE  IInv'
  BY <1>0, <1>3, GetExamPaperIInv
<1>4. ASSUME NEW e \in Keys, NEW batch \in Batches(e), SubmitExam(e, batch)
      PROVE  IInv'
  BY <1>0, <1>4, SubmitExamIInv
<1>5. CASE AutoSubmit
  BY <1>0, <1>5, AutoSubmitIInv
<1>6. ASSUME UNCHANGED <<rooms, lastRoom, participants, exams, paper, handed, told>>
      PROVE  IInv'
  BY <1>0, <1>6 DEF IInv, RoomsCounted, ExamOfParticipant, PaperHanded, OnePaper,
                    ToldIsRecorded, ExamHasPaper, RoomIs, IsSubmitted
<1>7. ASSUME NEW e \in Keys, NEW batch \in Batches(e), SubmitAnswers(e, batch)
      PROVE  IInv'
  BY <1>6, <1>7 DEF SubmitAnswers
<1>8. CASE Tick \/ UNCHANGED vars
  BY <1>6, <1>8 DEF Tick, vars
<1> QED
  BY <1>1, <1>2, <1>3, <1>4, <1>5, <1>7, <1>8 DEF Next

THEOREM Invariance == Spec => []IInv
<1>1. Init => IInv
  BY InitIInv
<1>2. IInv /\ [Next]_vars => IInv'
  BY NextIInv
<1> QED
  BY <1>1, <1>2, PTL DEF Spec

\* Exams belong to students who joined, in rooms that were started.
THEOREM ExamsOfParticipants == Spec => []ExamOfParticipant
<1>1. IInv => ExamOfParticipant
  BY DEF IInv
<1> QED
  BY <1>1, Invariance, PTL

\* A student is handed one paper, the one stored for grading.
THEOREM PaperHandedOnce == Spec => []OnePaper
<1>1. IInv => OnePaper
  BY DEF IInv
<1> QED
  BY <1>1, Invariance, PTL

\* The result a student was told is the one recorded.
THEOREM ToldResultRecorded == Spec => []ToldIsRecorded
<1>1. IInv => ToldIsRecorded
  BY DEF IInv
<1> QED
  BY <1>1, Invariance, PTL
-----------------------------------------------------------------------------
(* What a step may never do. *)

\* In which steps a row of exams changes, and how.
LEMMA ExamSteps ==
  ASSUME IInv, [Next]_vars
  PROVE  \/ exams' = exams /\ paper' = paper
         \/ \E e \in Keys : GetExamPaper(e)
         \/ \E e \in Keys : \E batch \in Batches(e) : SubmitExam(e, batch)
         \/ AutoSubmit
BY DEF Next, CreateRoom, JoinRoom, StartRoom, FinishRoom, DeleteRoom, SubmitAnswers,
       Tick, vars

\* A graded exam is not touched again.
LEMMA FinalStep ==
  ASSUME WorkerSafe, IInv, [Next]_vars, NEW e \in DOMAIN exams, IsSubmitted(e)
  PROVE  e \in DOMAIN exams' /\ exams'[e] = exams[e]
<1>1. ASSUME NEW k \in Keys, GetExamPaper(k)
      PROVE  e \in DOMAIN exams' /\ exams'[e] = exams[e]
  <2>1. e # k
    BY <1>1 DEF GetExamPaper, IInv, ExamHasPaper
  <2> QED
    BY <1>1, <2>1 DEF GetExamPaper, IssuePaper, LosePaper, Put
<1>2. ASSUME NEW k \in Keys, NEW batch \in Batches(k), SubmitExam(k, batch)
      PROVE  e \in DOMAIN exams' /\ exams'[e] = exams[e]
  <2>1. e # k
    BY <1>2 DEF SubmitExam, IsOpen, IsSubmitted
  <2> QED
    BY <1>2, <2>1 DEF SubmitExam
<1>3. CASE AutoSubmit
  BY <1>3, RecordedSubset DEF AutoSubmit, Expired, IsOpen, IsSubmitted
<1> QED
  BY <1>1, <1>2, <1>3, ExamSteps

\* A recorded result never changes and is never removed, as long as the
\* worker does not grade exams whose paper was lost.
THEOREM ResultsAreFinal ==
  ASSUME WorkerSafe
  PROVE  Spec => ResultsFinal
<1>1. IInv /\ [Next]_vars =>
        [\A e \in DOMAIN exams :
           IsSubmitted(e) => e \in DOMAIN exams' /\ exams'[e] = exams[e]]_vars
  BY FinalStep
<1> QED
  BY <1>1, Invariance, PTL DEF Spec, ResultsFinal
-----------------------------------------------------------------------------
(* The tables implement the promise about one sitting. *)

LEMMA InitRefines == Init => Lifecycle!Init
BY DEF Init, Lifecycle!Init, Phase, Result, IsSubmitted, NoResult

\* The paper is issued, or the sitting exists without one.
LEMMA GetExamPaperRefines ==
  ASSUME WorkerSafe, IInv, TypeOK', NEW e \in Keys, GetExamPaper(e)
  PROVE  [Lifecycle!Next]_(Lifecycle!lifecycleVars)
<1> DEFINE start == now
           end == now + rooms[e[1]].duration
<1>1. /\ paper[e] = {}
      /\ IssuePaper(e, start, end) \/ LosePaper(e, start, end)
  BY DEF GetExamPaper
<1> HIDE DEF start, end
<1>2. ~ IsSubmitted(e)
  BY <1>1 DEF IInv, ExamHasPaper, IsSubmitted
<1>3. DOMAIN exams' = DOMAIN exams \cup {e}
  BY <1>1 DEF IssuePaper, LosePaper, Put
<1>4. \A k \in DOMAIN exams \ {e} : exams'[k] = exams[k]
  BY <1>1 DEF IssuePaper, LosePaper, Put
<1>5. exams'[e].submitted_at = Null
  <2>1. EnsuredRow(e, start, end).submitted_at = Null
    BY <1>2 DEF EnsuredRow, IsSubmitted
  <2>2. CASE LosePaper(e, start, end)
    BY <2>1, <2>2 DEF LosePaper, Put
  <2>3. CASE IssuePaper(e, start, end)
    <3>1. PICK n : exams' = Put(exams, e, [EnsuredRow(e, start, end) EXCEPT !.total = n])
      BY <2>3 DEF IssuePaper
    <3>2. EnsuredRow(e, start, end) = exams[e] \/ e \notin DOMAIN exams
      BY DEF EnsuredRow
    <3>3. exams'[e] = [EnsuredRow(e, start, end) EXCEPT !.total = n]
      BY <3>1 DEF Put
    <3>4. CASE e \in DOMAIN exams
      BY <2>1, <3>2, <3>3, <3>4 DEF IInv, TypeOK, ExamRows
    <3>5. CASE e \notin DOMAIN exams
      BY <3>3, <3>5 DEF EnsuredRow
    <3> QED
      BY <3>4, <3>5
  <2> QED
    BY <1>1, <2>2, <2>3
<1>6. \A k \in Keys : Phase(k)' = IF k = e THEN "open" ELSE Phase(k)
  BY <1>3, <1>4, <1>5 DEF Phase
<1>7. \A k \in Keys : Result(k)' = Result(k)
  BY <1>2, <1>3, <1>4, <1>5 DEF Result, IsSubmitted
<1>8. Phase(e) \in {"absent", "open"}
  BY <1>2 DEF Phase, IsSubmitted
<1>9. CASE IssuePaper(e, start, end)
  <2>1. PICK Q \in SUBSET Questions : Q # {} /\ paper' = [paper EXCEPT ![e] = Q]
    BY <1>9, <1>1, PickedPaper DEF GetExamPaper, RoomIs, IInv, TypeOK, RoomRows,
       IssuePaper, Picks
  <2>2. Lifecycle!Issue(e)
    BY <1>1, <1>6, <1>7, <1>8, <2>1 DEF Lifecycle!Issue
  <2> QED
    BY <2>2 DEF Lifecycle!Next
<1>10. CASE LosePaper(e, start, end)
  <2>1. paper' = paper
    BY <1>10 DEF LosePaper
  <2>2. CASE Phase(e) = "absent"
    <3>1. Lifecycle!Open(e)
      BY <1>6, <1>7, <2>1, <2>2 DEF Lifecycle!Open
    <3> QED
      BY <3>1 DEF Lifecycle!Next
  <2>3. CASE Phase(e) = "open"
    <3>1. \A k \in Keys : Phase(k)' = Phase(k)
      BY <1>6, <2>3
    <3> QED
      BY <1>7, <2>1, <3>1 DEF Lifecycle!lifecycleVars
  <2> QED
    BY <1>8, <2>2, <2>3
<1> QED
  BY <1>1, <1>9, <1>10

\* Grading the exams of a set, each of them open and with a paper.
LEMMA GradingRefines ==
  ASSUME IInv, TypeOK', NEW S \in SUBSET Keys, S # {},
         S \subseteq DOMAIN exams, \A e \in S : IsOpen(e) /\ paper[e] # {},
         paper' = paper, DOMAIN exams' = DOMAIN exams,
         \A e \in DOMAIN exams \ S : exams'[e] = exams[e],
         \A e \in S : exams'[e].submitted_at # Null
  PROVE  Lifecycle!Next
<1>1. \A e \in S : Phase(e) = "open"
  BY DEF Phase, IsOpen
<1>2. \A e \in Keys : Phase(e)' = IF e \in S THEN "graded" ELSE Phase(e)
  BY DEF Phase
<1>3. \A e \in S : Result(e)' \in Results /\ Result(e)' # NoResult
  BY DEF Result, IsSubmitted, NoResult, Null, Results, TypeOK, ExamRows
<1>4. \A e \in Keys \ S : Result(e)' = Result(e)
  BY DEF Result, IsSubmitted
<1>5. \A e \in Keys : Result(e) \in Results \cup {NoResult}
  BY DEF Result, IsSubmitted, Results, IInv, TypeOK, ExamRows
<1>6. Lifecycle!Grade(S)
  BY <1>1, <1>2, <1>3, <1>4, <1>5 DEF Lifecycle!Grade
<1> QED
  BY <1>6 DEF Lifecycle!Next

LEMMA StepRefines ==
  ASSUME WorkerSafe, IInv, TypeOK', [Next]_vars
  PROVE  [Lifecycle!Next]_(Lifecycle!lifecycleVars)
<1>1. ASSUME NEW e \in Keys, GetExamPaper(e)
      PROVE  [Lifecycle!Next]_(Lifecycle!lifecycleVars)
  BY <1>1, GetExamPaperRefines
<1>2. ASSUME NEW e \in Keys, NEW batch \in Batches(e), SubmitExam(e, batch)
      PROVE  Lifecycle!Next
  <2>1. IsOpen(e) /\ e \in DOMAIN exams /\ paper[e] # {} /\ paper' = paper
    BY <1>2 DEF SubmitExam, KnowsExam, IsOpen, IInv, PaperHanded
  <2>2. PICK grade : exams' = [exams EXCEPT ![e] = Graded(@, grade)]
    BY <1>2 DEF SubmitExam
  <2>3. exams[e] \in ExamRows /\ now # Null
    BY <2>1 DEF IInv, TypeOK, Null
  <2>4. exams'[e].submitted_at # Null
    BY <2>1, <2>2, <2>3, GradedRow
  <2>5. DOMAIN exams' = DOMAIN exams /\ \A k \in DOMAIN exams \ {e} : exams'[k] = exams[k]
    BY <2>2
  <2> DEFINE S == {e}
  <2>6. /\ S # {} /\ S \in SUBSET Keys /\ S \subseteq DOMAIN exams
        /\ \A k \in S : IsOpen(k) /\ paper[k] # {}
        /\ \A k \in DOMAIN exams \ S : exams'[k] = exams[k]
        /\ \A k \in S : exams'[k].submitted_at # Null
    BY <2>1, <2>4, <2>5
  <2> HIDE DEF S
  <2> QED
    BY <2>1, <2>5, <2>6, GradingRefines
<1>3. CASE AutoSubmit
  <2>0. PICK S, unread, uncounted :
          /\ S # {} /\ S \subseteq Expired
          /\ exams' = [e \in DOMAIN exams |->
                         IF e \in S THEN AutoGraded(e, unread, uncounted) ELSE exams[e]]
    BY <1>3, AutoSubmitRun
  <2>1. /\ S # {} /\ S \subseteq DOMAIN exams /\ S \subseteq Keys
        /\ \A e \in S : IsOpen(e) /\ paper[e] # {}
        /\ paper' = paper
    BY <1>3, <2>0 DEF AutoSubmit, Expired, IInv, ExamHasPaper, WorkerSafe, TypeOK
  <2>2. /\ DOMAIN exams' = DOMAIN exams
        /\ \A e \in DOMAIN exams \ S : exams'[e] = exams[e]
        /\ \A e \in S : \E grade : exams'[e] = Graded(exams[e], grade)
    BY <2>0, <2>1 DEF AutoGraded
  <2>3. now # Null /\ \A e \in S : exams[e] \in ExamRows
    BY <2>1 DEF IInv, TypeOK, Null
  <2>4. \A e \in S : exams'[e].submitted_at # Null
    BY <2>2, <2>3, GradedRow
  <2> QED
    BY <2>1, <2>2, <2>4, GradingRefines
<1>4. CASE exams' = exams /\ paper' = paper
  BY <1>4 DEF Lifecycle!lifecycleVars, Phase, Result, IsSubmitted
<1> QED
  BY <1>1, <1>2, <1>3, <1>4, ExamSteps

\* Every behaviour of the tables is, seen through Phase and Result, one the
\* promise about a sitting allows.
THEOREM Refinement ==
  ASSUME WorkerSafe
  PROVE  Spec => ImplementsLifecycle
<1>1. Init => Lifecycle!Init
  BY InitRefines
<1>2. IInv /\ [Next]_vars => [Lifecycle!Next]_(Lifecycle!lifecycleVars)
  BY StepRefines, NextType DEF IInv
<1> QED
  BY <1>1, <1>2, Invariance, PTL DEF Spec, ImplementsLifecycle, Lifecycle!Spec
-----------------------------------------------------------------------------
(***************************************************************************)
(* The bounds of a grade.  That an exam is graded within its paper needs   *)
(* the sheets of all keys, also those without an exam: a sheet never holds *)
(* an answer before its paper is stored.                                   *)
(***************************************************************************)
AnswersOnPaper == \A e \in Keys : Answered(answers[e]) \subseteq paper[e]

GradeInv == IInv /\ AnswersOnPaper /\ ResultWithinPaper

\* Counting answers of the paper gives at most the paper.
LEMMA GradeBounds ==
  ASSUME NEW P \in SUBSET Questions, NEW seen \in Sheets, Answered(seen) \subseteq P,
         NEW fallback \in Nat, fallback <= Cardinality(P)
  PROVE  /\ GradeOf(seen, fallback).correct <= GradeOf(seen, fallback).total
         /\ GradeOf(seen, fallback).total <= Cardinality(P)
<1>1. IsFiniteSet(P)
  BY BankAssumption, FS_Subset
<1>2. Cardinality(Answered(seen)) <= Cardinality(P)
  BY <1>1, FS_Subset
<1> QED
  BY <1>2, GradeCounts DEF GradeOf

LEMMA GetExamPaperGrade ==
  ASSUME GradeInv, TypeOK', NEW e \in Keys, GetExamPaper(e)
  PROVE  AnswersOnPaper' /\ ResultWithinPaper'
<1> DEFINE start == now
           end == now + rooms[e[1]].duration
           row == EnsuredRow(e, start, end)
<1>1. /\ paper[e] = {} /\ answers' = answers
      /\ IssuePaper(e, start, end) \/ LosePaper(e, start, end)
      /\ e[1] \in DOMAIN rooms /\ rooms[e[1]] \in RoomRows
  BY DEF GetExamPaper, RoomIs, GradeInv, IInv, TypeOK
<1>2. row \in ExamRows
  <2>1. rooms[e[1]].duration \in Int /\ now \in Nat
    BY <1>1, SettingsAssumption DEF RoomRows, GradeInv, IInv, TypeOK
  <2> QED
    BY <2>1, EnsuredRowType DEF GradeInv, IInv
<1>3. row.correct = 0 /\ row.total = 0
  <2>1. CASE e \in DOMAIN exams
    <3>1. exams[e] \in ExamRows /\ exams[e].correct <= exams[e].total
      BY <2>1 DEF GradeInv, IInv, TypeOK, ResultWithinPaper
    <3>2. exams[e].total <= 0
      BY <1>1, <2>1, FS_EmptySet DEF GradeInv, ResultWithinPaper
    <3> QED
      BY <2>1, <3>1, <3>2 DEF EnsuredRow, ExamRows
  <2>2. CASE e \notin DOMAIN exams
    BY <2>2 DEF EnsuredRow
  <2> QED
    BY <2>1, <2>2
<1> HIDE DEF start, end
<1> HIDE DEF row
<1>4. CASE IssuePaper(e, start, end)
  <2>1. PICK Q \in Picks(rooms[e[1]].size) :
          /\ exams' = Put(exams, e, [row EXCEPT !.total = Cardinality(Q)])
          /\ paper' = [paper EXCEPT ![e] = Q]
    BY <1>4 DEF IssuePaper, row
  <2>2. Cardinality(Q) \in Nat
    BY <1>1, PickedPaper DEF RoomRows
  <2>3. paper'[e] = Q /\ \A k \in Keys \ {e} : paper'[k] = paper[k]
    BY <2>1 DEF GradeInv, IInv, TypeOK
  <2>4. exams'[e].correct = 0 /\ exams'[e].total = Cardinality(Q)
    BY <1>2, <1>3, <2>1 DEF Put, ExamRows
  <2>5. \A k \in DOMAIN exams' \ {e} : k \in DOMAIN exams /\ exams'[k] = exams[k]
    BY <2>1 DEF Put
  <2>6. AnswersOnPaper'
    BY <1>1, <2>3 DEF GradeInv, AnswersOnPaper
  <2>7. DOMAIN exams' \subseteq Keys
    BY DEF TypeOK
  <2> QED
    BY <2>2, <2>3, <2>4, <2>5, <2>6, <2>7 DEF GradeInv, AnswersOnPaper, ResultWithinPaper
<1>5. CASE LosePaper(e, start, end)
  <2>1. exams' = Put(exams, e, row) /\ paper' = paper
    BY <1>5 DEF LosePaper, row
  <2>2. exams'[e] = row /\ \A k \in DOMAIN exams' \ {e} : k \in DOMAIN exams /\ exams'[k] = exams[k]
    BY <2>1 DEF Put
  <2>3. Answered(answers[e]) \subseteq paper[e] /\ Cardinality(paper[e]) = 0
    BY <1>1, FS_EmptySet DEF GradeInv, AnswersOnPaper
  <2>4. AnswersOnPaper'
    BY <1>1, <2>1 DEF GradeInv, AnswersOnPaper
  <2>5. exams'[e].correct <= exams'[e].total /\ exams'[e].total <= Cardinality(paper[e])
    BY <1>3, <2>2, <2>3
  <2> QED
    BY <1>1, <2>1, <2>2, <2>3, <2>4, <2>5 DEF GradeInv, ResultWithinPaper
<1> QED
  BY <1>1, <1>4, <1>5

LEMMA SubmitGrade ==
  ASSUME GradeInv, NEW e \in Keys, NEW batch \in Batches(e),
         SubmitAnswers(e, batch) \/ SubmitExam(e, batch)
  PROVE  AnswersOnPaper' /\ ResultWithinPaper'
<1> DEFINE sheet == Overlay(answers[e], batch)
<1>1. /\ answers' = [answers EXCEPT ![e] = sheet]
      /\ paper' = paper
  BY DEF SubmitAnswers, SubmitExam
<1>2. paper[e] \in SUBSET Questions /\ answers[e] \in Sheets
  BY DEF GradeInv, IInv, TypeOK
<1>3. /\ DOMAIN batch \subseteq paper[e]
      /\ Cardinality(DOMAIN batch) \in Nat
      /\ sheet \in Sheets
      /\ Answered(sheet) \subseteq Answered(answers[e]) \cup DOMAIN batch
  BY <1>2, BatchOnPaper, OverlaySheet DEF GradeInv, IInv
<1>4. Answered(sheet) \subseteq paper[e]
  BY <1>3 DEF GradeInv, AnswersOnPaper
<1> HIDE DEF sheet
<1>5. AnswersOnPaper'
  BY <1>1, <1>4 DEF GradeInv, AnswersOnPaper, IInv, TypeOK
<1>6. CASE SubmitAnswers(e, batch)
  BY <1>1, <1>5, <1>6 DEF SubmitAnswers, AnswersOnPaper, ResultWithinPaper, GradeInv,
     IInv, TypeOK
<1>7. CASE SubmitExam(e, batch)
  <2>1. PICK unread \in Unread({e}) :
          exams' = [exams EXCEPT
                      ![e] = Graded(@, GradeOf(Seen(e, sheet, unread),
                                               Cardinality(DOMAIN batch)))]
    BY <1>7 DEF SubmitExam, sheet
  <2> DEFINE grade == GradeOf(Seen(e, sheet, unread), Cardinality(DOMAIN batch))
  <2>2. grade.correct <= grade.total /\ grade.total <= Cardinality(paper[e])
    <3>1. IsFiniteSet(paper[e])
      BY <1>2, BankAssumption, FS_Subset
    <3>2. Cardinality(DOMAIN batch) <= Cardinality(paper[e])
      BY <1>3, <3>1, FS_Subset
    <3>3. Seen(e, sheet, unread) \in Sheets /\ Answered(Seen(e, sheet, unread)) \subseteq paper[e]
      BY <1>3, <1>4, SeenSheet
    <3> QED
      BY <1>2, <1>3, <3>2, <3>3, GradeBounds
  <2> HIDE DEF grade
  <2>3. e \in DOMAIN exams /\ exams[e] \in ExamRows
    BY <1>7 DEF SubmitExam, IsOpen, GradeInv, IInv, TypeOK
  <2>4. exams'[e] = Graded(exams[e], grade) /\ DOMAIN exams' = DOMAIN exams
    BY <2>1, <2>3 DEF grade
  <2>5. exams'[e].correct = grade.correct /\ exams'[e].total = grade.total
    BY <2>3, <2>4, GradedRow
  <2>6. \A k \in DOMAIN exams \ {e} : exams'[k] = exams[k]
    BY <2>1
  <2>7. DOMAIN exams \subseteq Keys
    BY DEF GradeInv, IInv, TypeOK
  <2> QED
    BY <1>1, <1>5, <2>2, <2>4, <2>5, <2>6, <2>7 DEF AnswersOnPaper, ResultWithinPaper, GradeInv
<1> QED
  BY <1>5, <1>6, <1>7

LEMMA AutoSubmitGrade ==
  ASSUME GradeInv, AutoSubmit
  PROVE  AnswersOnPaper' /\ ResultWithinPaper'
<1>2. PICK S, unread, uncounted :
        exams' = [e \in DOMAIN exams |->
                    IF e \in S THEN AutoGraded(e, unread, uncounted) ELSE exams[e]]
  BY AutoSubmitRun
<1>3. answers' = answers /\ paper' = paper
  BY DEF AutoSubmit
<1>4. ASSUME NEW e \in DOMAIN exams
      PROVE  exams'[e].correct <= exams'[e].total /\ exams'[e].total <= Cardinality(paper[e])
  <2>1. /\ exams[e] \in ExamRows /\ answers[e] \in Sheets /\ paper[e] \in SUBSET Questions
        /\ exams[e].total \in Nat
        /\ exams[e].correct <= exams[e].total /\ exams[e].total <= Cardinality(paper[e])
        /\ Answered(answers[e]) \subseteq paper[e]
    BY DEF GradeInv, IInv, TypeOK, ExamRows, ResultWithinPaper
  <2> DEFINE seen == Seen(e, answers[e], unread)
  <2>2. seen \in Sheets /\ Answered(seen) \subseteq paper[e]
    BY <2>1, SeenSheet
  <2> HIDE DEF seen
  <2> DEFINE fallback == StoredTotal(e, uncounted)
  <2>6. fallback \in Nat /\ fallback <= Cardinality(paper[e])
    <3>1. Cardinality(paper[e]) \in Nat
      BY <2>1, BankAssumption, FS_Subset, FS_CardinalityType
    <3>2. fallback \in Nat /\ fallback <= exams[e].total
      BY <2>1, StoredTotalType
    <3> HIDE DEF fallback
    <3> QED
      BY <2>1, <3>1, <3>2
  <2> HIDE DEF fallback
  <2> DEFINE grade == GradeOf(seen, fallback)
  <2>3. grade.correct <= grade.total /\ grade.total <= Cardinality(paper[e])
    BY <2>1, <2>2, <2>6, GradeBounds
  <2> HIDE DEF grade
  <2>4. CASE e \in S
    <3>1. exams'[e] = Graded(exams[e], grade)
      BY <1>2, <2>4 DEF grade, fallback, seen, AutoGraded
    <3> QED
      BY <2>1, <2>3, <3>1, GradedRow
  <2>5. CASE e \notin S
    BY <1>2, <2>1, <2>5
  <2> QED
    BY <2>4, <2>5
<1>5. DOMAIN exams' = DOMAIN exams
  BY <1>2
<1> QED
  BY <1>3, <1>4, <1>5 DEF GradeInv, AnswersOnPaper, ResultWithinPaper

\* In every reachable state, with or without a busy database and the worker,
\* an exam is graded within its paper: answers to questions of another paper
\* are never counted, and the score lies between 0 and 10.
THEOREM GradesWithinPaper == Spec => []ResultWithinPaper
<1>1. Init => GradeInv
  <2> SUFFICES ASSUME Init PROVE AnswersOnPaper /\ ResultWithinPaper
    BY InitIInv DEF GradeInv
  <2> QED
    BY DEF Init, AnswersOnPaper, ResultWithinPaper, BlankSheet, Answered
<1>2. GradeInv /\ [Next]_vars => GradeInv'
  <2> SUFFICES ASSUME GradeInv, [Next]_vars
               PROVE  AnswersOnPaper' /\ ResultWithinPaper'
    BY NextIInv DEF GradeInv
  <2>1. TypeOK'
    BY NextType DEF GradeInv, IInv
  <2>2. CASE UNCHANGED <<exams, paper, answers>>
    BY <2>2 DEF GradeInv, AnswersOnPaper, ResultWithinPaper
  <2>3. ASSUME NEW u \in Users, NEW d \in Durations, NEW n \in Sizes, CreateRoom(u, d, n)
        PROVE  UNCHANGED <<exams, paper, answers>>
    BY <2>3 DEF CreateRoom
  <2>4. ASSUME NEW r \in RoomIds, NEW u \in Users,
               JoinRoom(r, u) \/ StartRoom(r, u) \/ FinishRoom(r, u) \/ DeleteRoom(r, u)
        PROVE  UNCHANGED <<exams, paper, answers>>
    BY <2>4 DEF JoinRoom, StartRoom, FinishRoom, DeleteRoom
  <2>5. CASE Tick \/ UNCHANGED vars
    BY <2>2, <2>5 DEF Tick, vars
  <2> QED
    BY <2>1, <2>2, <2>3, <2>4, <2>5, GetExamPaperGrade, SubmitGrade, AutoSubmitGrade DEF Next
<1>3. GradeInv => ResultWithinPaper
  BY DEF GradeInv
<1> QED
  BY <1>1, <1>2, <1>3, PTL DEF Spec
-----------------------------------------------------------------------------
(***************************************************************************)
(* The timer.  get_timer_status computes the end of an exam from the rows  *)
(* of exams and rooms, the paper was given it by the request that issued   *)
(* it.  The row may be older than the paper, since ensure_exam leaves it   *)
(* behind when the transaction fails, and never younger; and no room takes *)
(* the id of the one the exam was held in.                                 *)
(***************************************************************************)
RowTimed ==
  \A e \in DOMAIN exams :
    /\ exams[e].start_at <= now
    /\ e[1] \in DOMAIN rooms => exams[e].end_at = exams[e].start_at + rooms[e[1]].duration

PaperTimed ==
  \A e \in Keys : \A h \in handed[e] :
    /\ exams[e].start_at <= h.start_time
    /\ exams[e].end_at <= h.end_time
    /\ e[1] \in DOMAIN rooms => h.end_time = h.start_time + rooms[e[1]].duration

TimerInv == IInv /\ RowTimed /\ PaperTimed

\* An exam is held in a room whose id no later room takes, and a paper that was
\* handed out belongs to one.
LEMMA ExamRoomId ==
  ASSUME IInv, NEW e \in DOMAIN exams
  PROVE  exams[e] \in ExamRows /\ e \in Keys /\ e[1] \in RoomIds /\ e[1] <= lastRoom
BY DEF IInv, TypeOK, ExamOfParticipant, RoomsCounted, Keys

LEMMA HandedExam ==
  ASSUME IInv, NEW e \in Keys, handed[e] # {}
  PROVE  e \in DOMAIN exams
BY DEF IInv, PaperHanded

\* The row found is as old as the request or older.
LEMMA EnsuredTimes ==
  ASSUME TimerInv, NEW e \in Keys, e[1] \in DOMAIN rooms, NEW start, NEW end,
         start = now, end = now + rooms[e[1]].duration
  PROVE  LET row == EnsuredRow(e, start, end)
         IN /\ row \in ExamRows
            /\ row.start_at <= start /\ row.end_at <= end
            /\ row.end_at = row.start_at + rooms[e[1]].duration
<1>1. now \in Nat /\ rooms[e[1]].duration \in Int
  BY SettingsAssumption DEF TimerInv, IInv, TypeOK, RoomRows
<1>2. start \in Nat /\ end \in Int
  BY <1>1
<1>3. EnsuredRow(e, start, end) \in ExamRows
  BY <1>2, EnsuredRowType DEF TimerInv, IInv
<1>4. CASE e \in DOMAIN exams
  <2>1. /\ exams[e].start_at <= now
        /\ exams[e].end_at = exams[e].start_at + rooms[e[1]].duration
        /\ exams[e].start_at \in Nat
    BY <1>4, ExamRoomId DEF TimerInv, RowTimed, ExamRows
  <2>2. exams[e].end_at <= now + rooms[e[1]].duration
    BY <1>1, <2>1
  <2> QED
    BY <1>3, <1>4, <2>1, <2>2 DEF EnsuredRow
<1>5. CASE e \notin DOMAIN exams
  BY <1>1, <1>3, <1>5 DEF EnsuredRow
<1> QED
  BY <1>4, <1>5

LEMMA GetExamPaperTimed ==
  ASSUME TimerInv, NEW e \in Keys, GetExamPaper(e)
  PROVE  RowTimed' /\ PaperTimed'
<1> DEFINE start == now
           end == now + rooms[e[1]].duration
           row == EnsuredRow(e, start, end)
<1>1. /\ paper[e] = {} /\ UNCHANGED <<rooms, now>> /\ e[1] \in DOMAIN rooms
      /\ IssuePaper(e, start, end) \/ LosePaper(e, start, end)
      /\ start = now /\ end = now + rooms[e[1]].duration
  BY DEF GetExamPaper, RoomIs
<1>2. handed[e] = {}
  BY <1>1 DEF TimerInv, IInv, PaperHanded
<1> HIDE DEF start, end
<1>3. /\ row \in ExamRows
      /\ row.start_at <= start /\ row.end_at <= end
      /\ row.end_at = row.start_at + rooms[e[1]].duration
  BY <1>1, EnsuredTimes
<1> HIDE DEF row
<1>4. \E new : /\ exams' = Put(exams, e, new)
               /\ new.start_at = row.start_at /\ new.end_at = row.end_at
  <2>1. \A n : /\ [row EXCEPT !.total = n].start_at = row.start_at
               /\ [row EXCEPT !.total = n].end_at = row.end_at
    BY <1>3 DEF ExamRows
  <2>2. CASE IssuePaper(e, start, end)
    <3>1. PICK Q : exams' = Put(exams, e, [row EXCEPT !.total = Cardinality(Q)])
      BY <2>2 DEF IssuePaper, row
    <3> QED
      BY <2>1, <3>1
  <2>3. CASE LosePaper(e, start, end)
    BY <2>3 DEF LosePaper, row
  <2> QED
    BY <1>1, <2>2, <2>3
<1>5. /\ DOMAIN exams' = DOMAIN exams \cup {e}
      /\ \A k \in DOMAIN exams \ {e} : exams'[k] = exams[k]
      /\ exams'[e].start_at = row.start_at /\ exams'[e].end_at = row.end_at
  BY <1>4 DEF Put
<1>6. /\ \A k \in Keys \ {e} : handed'[k] = handed[k]
      /\ \A h \in handed'[e] : h.start_time = start /\ h.end_time = end
  <2>1. handed \in [Keys -> SUBSET ExamPapers]
    BY DEF TimerInv, IInv, TypeOK
  <2>2. CASE IssuePaper(e, start, end)
    <3>1. PICK Q : handed' = [handed EXCEPT ![e] = @ \cup
                                {[paper |-> Q, start_time |-> start, end_time |-> end]}]
      BY <2>2 DEF IssuePaper
    <3>2. handed'[e] = {[paper |-> Q, start_time |-> start, end_time |-> end]}
      BY <1>2, <2>1, <3>1
    <3> QED
      BY <2>1, <3>1, <3>2
  <2>3. CASE LosePaper(e, start, end)
    BY <1>2, <2>3 DEF LosePaper
  <2> QED
    BY <1>1, <2>2, <2>3
<1>7. RowTimed'
  BY <1>1, <1>3, <1>5 DEF TimerInv, RowTimed
<1>8. PaperTimed'
  <2> SUFFICES ASSUME NEW k \in Keys, NEW h \in handed'[k]
               PROVE  /\ exams'[k].start_at <= h.start_time
                      /\ exams'[k].end_at <= h.end_time
                      /\ k[1] \in DOMAIN rooms => h.end_time = h.start_time + rooms[k[1]].duration
    BY <1>1 DEF PaperTimed
  <2>1. CASE k = e
    BY <1>1, <1>3, <1>5, <1>6, <2>1
  <2>2. CASE k # e
    <3>1. handed'[k] = handed[k]
      BY <1>6, <2>2
    <3>2. k \in DOMAIN exams
      BY <3>1, HandedExam DEF TimerInv
    <3> QED
      BY <1>5, <2>2, <3>1, <3>2 DEF TimerInv, PaperTimed
  <2> QED
    BY <2>1, <2>2
<1> QED
  BY <1>7, <1>8

\* Grading does not touch the times of an exam.
LEMMA GradedTimes ==
  ASSUME IInv, [Next]_vars, NEW e \in DOMAIN exams,
         \A k \in Keys : ~ GetExamPaper(k)
  PROVE  exams'[e].start_at = exams[e].start_at /\ exams'[e].end_at = exams[e].end_at
<1>1. exams[e] \in ExamRows
  BY DEF IInv, TypeOK
<1>2. \A grade : /\ Graded(exams[e], grade).start_at = exams[e].start_at
                 /\ Graded(exams[e], grade).end_at = exams[e].end_at
  BY <1>1 DEF Graded, ExamRows
<1>3. ASSUME NEW k \in Keys, NEW batch \in Batches(k), SubmitExam(k, batch)
      PROVE  exams'[e].start_at = exams[e].start_at /\ exams'[e].end_at = exams[e].end_at
  <2>1. PICK grade : exams' = [exams EXCEPT ![k] = Graded(@, grade)]
    BY <1>3 DEF SubmitExam
  <2> QED
    BY <1>2, <2>1
<1>4. CASE AutoSubmit
  <2>1. exams'[e] = exams[e] \/ \E grade : exams'[e] = Graded(exams[e], grade)
    BY <1>4, AutoSubmitRun DEF AutoGraded
  <2> QED
    BY <1>2, <2>1
<1> QED
  BY <1>3, <1>4, ExamSteps

\* A room, as long as it is there, keeps its duration.
LEMMA RoomKeepsDuration ==
  ASSUME IInv, [Next]_vars, NEW r \in RoomIds, r <= lastRoom, r \in DOMAIN rooms'
  PROVE  r \in DOMAIN rooms /\ rooms'[r].duration = rooms[r].duration
<1>1. lastRoom \in Nat /\ \A x \in DOMAIN rooms : rooms[x] \in RoomRows
  BY BoundsAssumption DEF IInv, TypeOK
<1>2. ASSUME NEW u \in Users, NEW d \in Durations, NEW n \in Sizes, CreateRoom(u, d, n)
      PROVE  r \in DOMAIN rooms /\ rooms'[r].duration = rooms[r].duration
  <2>1. r # lastRoom + 1
    BY <1>1 DEF RoomIds
  <2> QED
    BY <1>2, <2>1 DEF CreateRoom, Put
<1>3. ASSUME NEW x \in RoomIds, NEW u \in Users,
             JoinRoom(x, u) \/ StartRoom(x, u) \/ FinishRoom(x, u) \/ DeleteRoom(x, u)
      PROVE  r \in DOMAIN rooms /\ rooms'[r].duration = rooms[r].duration
  BY <1>1, <1>3 DEF JoinRoom, StartRoom, FinishRoom, DeleteRoom, SetStatus, RoomRows
<1>4. CASE UNCHANGED rooms
  BY <1>4
<1> QED
  BY <1>2, <1>3, <1>4 DEF Next, GetExamPaper, SubmitAnswers, SubmitExam, AutoSubmit, Tick, vars

LEMMA NextTimed ==
  ASSUME TimerInv, [Next]_vars
  PROVE  RowTimed' /\ PaperTimed'
<1>1. ASSUME NEW e \in Keys, GetExamPaper(e)
      PROVE  RowTimed' /\ PaperTimed'
  BY <1>1, GetExamPaperTimed
<1>2. CASE \A e \in Keys : ~ GetExamPaper(e)
  <2>1. handed' = handed /\ DOMAIN exams' = DOMAIN exams
    BY <1>2 DEF Next, CreateRoom, JoinRoom, StartRoom, FinishRoom, DeleteRoom, SubmitAnswers,
       SubmitExam, AutoSubmit, Tick, vars
  <2>2. now \in Nat /\ now' \in Nat /\ now <= now'
    <3>1. now' = now \/ now' = now + 1
      BY <1>2 DEF Next, CreateRoom, JoinRoom, StartRoom, FinishRoom, DeleteRoom, SubmitAnswers,
         SubmitExam, AutoSubmit, Tick, vars
    <3> QED
      BY <3>1 DEF TimerInv, IInv, TypeOK
  <2>3. ASSUME NEW e \in DOMAIN exams
        PROVE  /\ exams'[e].start_at = exams[e].start_at /\ exams'[e].end_at = exams[e].end_at
               /\ e[1] \in DOMAIN rooms' =>
                    e[1] \in DOMAIN rooms /\ rooms'[e[1]].duration = rooms[e[1]].duration
    BY <1>2, GradedTimes, ExamRoomId, RoomKeepsDuration DEF TimerInv
  <2>4. RowTimed'
    <3> SUFFICES ASSUME NEW e \in DOMAIN exams
                 PROVE  /\ exams'[e].start_at <= now'
                        /\ e[1] \in DOMAIN rooms' =>
                             exams'[e].end_at = exams'[e].start_at + rooms'[e[1]].duration
      BY <2>1 DEF RowTimed
    <3>1. exams[e].start_at \in Nat
      BY ExamRoomId DEF TimerInv, ExamRows
    <3>2. /\ exams[e].start_at <= now
          /\ e[1] \in DOMAIN rooms => exams[e].end_at = exams[e].start_at + rooms[e[1]].duration
      BY DEF TimerInv, RowTimed
    <3> QED
      BY <2>2, <2>3, <3>1, <3>2
  <2>5. PaperTimed'
    <3> SUFFICES ASSUME NEW e \in Keys, NEW h \in handed[e]
                 PROVE  /\ exams'[e].start_at <= h.start_time
                        /\ exams'[e].end_at <= h.end_time
                        /\ e[1] \in DOMAIN rooms' =>
                             h.end_time = h.start_time + rooms'[e[1]].duration
      BY <2>1 DEF PaperTimed
    <3>1. e \in DOMAIN exams
      BY HandedExam DEF TimerInv
    <3> QED
      BY <2>3, <3>1 DEF TimerInv, PaperTimed
  <2> QED
    BY <2>4, <2>5
<1> QED
  BY <1>1, <1>2

\* Neither the timer status nor the end the worker looks at leaves a student
\* more time than the paper, whatever transactions fail and whatever happens
\* to the rooms (get_exam_paper, get_timer_status).
THEOREM TimerStaysWithin == Spec => []TimerWithinPaper
<1>1. Init => TimerInv
  <2> SUFFICES ASSUME Init PROVE RowTimed /\ PaperTimed
    BY InitIInv DEF TimerInv
  <2> QED
    BY DEF Init, RowTimed, PaperTimed
<1>2. TimerInv /\ [Next]_vars => TimerInv'
  BY NextIInv, NextTimed DEF TimerInv
<1>3. TimerInv => TimerWithinPaper
  <2> SUFFICES ASSUME TimerInv, NEW e \in Keys, NEW h \in handed[e]
               PROVE  /\ exams[e].end_at <= h.end_time
                      /\ e[1] \in DOMAIN rooms => TimerRemaining(e) <= h.end_time - now
    BY DEF TimerWithinPaper
  <2>1. exams[e].end_at <= h.end_time
    BY DEF TimerInv, PaperTimed
  <2>2. ASSUME e[1] \in DOMAIN rooms
        PROVE  TimerRemaining(e) <= h.end_time - now
    <3>1. e \in DOMAIN exams
      BY HandedExam DEF TimerInv
    <3>2. /\ exams[e].start_at <= now /\ exams[e].start_at <= h.start_time
          /\ h.end_time = h.start_time + rooms[e[1]].duration
      BY <2>2, <3>1 DEF TimerInv, RowTimed, PaperTimed
    <3>3. exams[e].start_at \in Nat /\ h.start_time \in Nat /\ now \in Nat
      BY <3>1, ExamRoomId DEF TimerInv, IInv, TypeOK, ExamRows, ExamPapers
    <3>4. rooms[e[1]].duration \in Int
      BY <2>2, SettingsAssumption DEF TimerInv, IInv, TypeOK, RoomRows
    <3> QED
      BY <3>2, <3>3, <3>4 DEF TimerRemaining
  <2> QED
    BY <2>1, <2>2
<1> QED
  BY <1>1, <1>2, <1>3, PTL DEF Spec
=============================================================================
