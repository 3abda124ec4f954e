------------------------- MODULE ExamDatabaseProofs -------------------------
(***************************************************************************)
(* Proofs about ExamDatabase, for every number of students, questions and  *)
(* options, whatever a room's creator asks for, wherever the other         *)
(* connection's lock is met and wherever the process dies.                 *)
(***************************************************************************)
EXTENDS ExamDatabase, FiniteSetTheorems, TLAPS

-----------------------------------------------------------------------------
(* The inductive invariant. *)

\* The row of exams is inserted before its paper, and stays.
RowFirst ==
  \A e \in Room!Keys : paper[e] # {} \/ handed[e] # {} => e \in DOMAIN exams

\* Inside get_exam_paper: from ensure_exam on there is a row; once questions
\* are picked, nothing is stored yet and nothing of the choice is lost.
PaperInProgress ==
  /\ at \in {"begin", "load", "insert_question"} => Key(user) \in DOMAIN exams
  /\ at = "insert_question" =>
       paper[Key(user)] = {} /\ picked \cup pending \in Picker!PickQuestions(Asked)

\* Inside submit_answers and submit_exam: the request answers questions of the
\* student's paper, and what is left of it is a part of it.
SubmissionInProgress ==
  at \in SubmitStatements =>
    /\ Room!KnowsExam(Key(user))
    /\ carried \in Room!Batches(Key(user))
    /\ DOMAIN batch \subseteq DOMAIN carried
    /\ \A q \in DOMAIN batch : batch[q] = carried[q]

\* What is no longer left of it is saved; the grading starts when all is.
AnswersInTable ==
  /\ at = "submit_check" => batch = carried
  /\ at = "save_answer" =>
       \A q \in DOMAIN carried \ DOMAIN batch : answers[Key(user)][q] = carried[q]
  /\ at \in {"grade", "record"} =>
       \A q \in DOMAIN carried : answers[Key(user)][q] = carried[q]

\* Between the check and the UPDATE of submit_exam the exam stays open, and
\* what the loop has read is the sheet or nothing.
StillOpen ==
  /\ at \in {"grade", "record"} \/ (at = "save_answer" /\ final) =>
       Room!IsOpen(Key(user))
  /\ at = "record" => seen \in {answers[Key(user)], Room!BlankSheet}

IInv ==
  /\ TypeOK
  /\ RowFirst
  /\ PaperInProgress
  /\ SubmissionInProgress
  /\ AnswersInTable
  /\ StillOpen
  /\ PaperWhole

-----------------------------------------------------------------------------
(* The questions picked. *)

Picking == INSTANCE QuestionPickerProofs WITH Bank <- Questions

\* The two instances of QuestionPicker, and the three of FiniteSets, are one.
LEMMA SameSizes ==
  \A S : /\ Picker!Cardinality(S) = Cardinality(S)
         /\ Picking!Cardinality(S) = Cardinality(S)
         /\ Room!Cardinality(S) = Cardinality(S)
         /\ Picking!IsFiniteSet(S) = IsFiniteSet(S)
<1>1. \A S : Picker!Cardinality(S) = Cardinality(S)
  BY DEF Picker!Cardinality, Cardinality
<1>2. \A S : Picking!Cardinality(S) = Cardinality(S)
  BY DEF Picking!Cardinality, Cardinality
<1>3. \A S : Room!Cardinality(S) = Cardinality(S)
  BY DEF Room!Cardinality, Cardinality
<1>4. \A S : Picking!IsFiniteSet(S) = IsFiniteSet(S)
  BY DEF Picking!IsFiniteSet, IsFiniteSet
<1> QED
  BY <1>1, <1>2, <1>3, <1>4

LEMMA SamePicks ==
  /\ \A s : Picker!WithDefaults(s) = Picking!WithDefaults(s)
  /\ \A s : Picker!PickQuestions(s) = Picking!PickQuestions(s)
  /\ \A s, Q : Picker!AsAsked(s, Q) = Picking!AsAsked(s, Q)
<1>1. \A s : Picker!WithDefaults(s) = Picking!WithDefaults(s)
  BY DEF Picker!WithDefaults, Picking!WithDefaults
<1>2. \A s : Picker!PickQuestions(s) = Picking!PickQuestions(s)
  BY DEF Picker!PickQuestions, Picker!ByLevel, Picker!Fetch, Picker!Select, Picker!OfLevel,
         Picker!FilledUp, Picker!Trimmed, Picker!AtMost, Picker!kSubset, Picker!Cardinality,
         Picking!PickQuestions, Picking!ByLevel, Picking!Fetch, Picking!Select,
         Picking!OfLevel, Picking!FilledUp, Picking!Trimmed, Picking!AtMost,
         Picking!kSubset, Picking!Cardinality
<1>3. \A s, Q : Picker!AsAsked(s, Q) = Picking!AsAsked(s, Q)
  BY DEF Picker!AsAsked, Picker!WithDefaults, Picker!OfLevel, Picker!AtMost, Picker!Levels,
         Picker!Cardinality, Picking!AsAsked, Picking!WithDefaults, Picking!OfLevel,
         Picking!AtMost, Picking!Levels, Picking!Cardinality
<1> QED
  BY <1>1, <1>2, <1>3

\* What pick_questions chooses for the room is a paper of the size that
\* ExamRoom allows.
LEMMA PickedPaper ==
  ASSUME settings \in AllSettings, NEW Q \in Picker!PickQuestions(Asked)
  PROVE  /\ Q \subseteq Questions /\ Q # {} /\ Cardinality(Q) \in Nat
         /\ Q \in Room!Picks(Asked.total) /\ Picker!AsAsked(settings, Q)
<1>1. settings \in Picker!Settings /\ Picking!BankOk
  BY SettingsAssumption, DatabaseAssumption, SameSizes
  DEF Picking!BankOk, Picker!Levels, Picking!Levels
<1>2. settings \in Picking!Settings
  BY <1>1 DEF Picker!Settings, Picking!Settings
<1>3. Q \in Picking!PickQuestions(Picking!WithDefaults(settings))
  BY SamePicks DEF Asked
<1>4. Q \subseteq Questions /\ Picking!AsAsked(settings, Q)
  BY <1>1, <1>2, <1>3, Picking!PicksAsAsked
<1>5. Asked.total \in Int /\ Asked.total > 0
  BY <1>2, SamePicks, Picking!DefaultsPositive DEF Asked, Picking!Settings
<1>6. /\ IsFiniteSet(Questions) /\ Cardinality(Questions) \in Nat /\ Cardinality(Questions) # 0
      /\ IsFiniteSet(Q) /\ Cardinality(Q) \in Nat
  BY <1>4, DatabaseAssumption, FS_CardinalityType, FS_Subset, FS_EmptySet
<1>7. Cardinality(Q) = Picking!AtMost(Asked.total, Cardinality(Questions))
  BY <1>4, SamePicks, SameSizes DEF Picking!AsAsked, Asked
<1>8. Cardinality(Q) # 0 /\ (Cardinality(Q) = Asked.total \/ Cardinality(Q) = Cardinality(Questions))
  BY <1>5, <1>6, <1>7 DEF Picking!AtMost
<1>9. Q # {}
  BY <1>8, FS_EmptySet
<1>10. Cardinality(Q) = Asked.total \/ (Cardinality(Questions) < Asked.total /\ Q = Questions)
  <2>1. CASE Cardinality(Questions) < Asked.total
    <3>1. Cardinality(Q) = Cardinality(Questions)
      BY <1>5, <1>6, <1>7, <2>1 DEF Picking!AtMost
    <3> QED
      BY <1>4, <1>6, <2>1, <3>1, FS_Subset
  <2>2. CASE ~ (Cardinality(Questions) < Asked.total)
    BY <1>5, <1>6, <1>7, <2>2 DEF Picking!AtMost
  <2> QED
    BY <2>1, <2>2
<1> QED
  BY <1>4, <1>6, <1>9, <1>10, SamePicks, SameSizes DEF Room!Picks

-----------------------------------------------------------------------------
(* Types. *)

TablesTyped ==
  /\ DOMAIN exams \subseteq Room!Keys
  /\ \A e \in DOMAIN exams : exams[e] \in Room!ExamRows
  /\ paper \in [Room!Keys -> SUBSET Questions]
  /\ answers \in [Room!Keys -> Room!Sheets]
  /\ handed \in [Room!Keys -> SUBSET Room!ExamPapers]
  /\ told \in [Room!Keys -> SUBSET Room!Results]

LocalsTyped ==
  /\ at \in {"idle"} \cup PaperStatements \cup SubmitStatements
  /\ user \in Users /\ final \in BOOLEAN
  /\ DOMAIN batch \subseteq DOMAIN carried /\ DOMAIN carried \subseteq Questions
  /\ picked \subseteq Questions /\ pending \subseteq Questions
  /\ pending # {} => at = "insert_question"
  /\ seen \in Room!Sheets
  /\ auth \in {"none", "shared", "reserved", "exclusive"}

LEMMA KeyTyped ==
  \A u \in Users : Key(u) \in Room!Keys /\ Key(u) \in {1} \X Users /\ Key(u)[1] = 1
BY DEF Key, Room!Keys, Room!RoomIds

LEMMA RoomTyped ==
  ASSUME settings \in AllSettings
  PROVE  room \in Room!RoomRows
<1>1. (CHOOSE u \in Users : TRUE) \in Users
  BY DatabaseAssumption
<1>2. Asked.total \in Sizes
  BY DEF Asked, Sizes
<1> QED
  BY <1>1, <1>2 DEF room, Room!RoomRows, Room!Statuses

LEMMA TypeParts == TypeOK <=> TablesTyped /\ LocalsTyped /\ settings \in AllSettings
<1>1. settings \in AllSettings => (Room!TypeOK <=> TablesTyped)
  <2> SUFFICES ASSUME settings \in AllSettings
               PROVE  Room!TypeOK <=> TablesTyped
    OBVIOUS
  <2>1. /\ DOMAIN [r \in {1} |-> room] \subseteq Room!RoomIds
        /\ \A r \in DOMAIN [r \in {1} |-> room] : [x \in {1} |-> room][r] \in Room!RoomRows
    BY RoomTyped DEF Room!RoomIds
  <2>2. {1} \X Users \subseteq Room!Keys
    BY DEF Room!Keys, Room!RoomIds
  <2> QED
    BY <2>1, <2>2 DEF Room!TypeOK, TablesTyped
<1> QED
  BY <1>1 DEF TypeOK, LocalsTyped

LEMMA InitInv == Init => IInv
<1> SUFFICES ASSUME Init PROVE IInv
  OBVIOUS
<1>1. Nobody \in Users
  BY DatabaseAssumption DEF Nobody
<1>2. Room!BlankSheet \in Room!Sheets /\ DOMAIN NoBatch = {}
  BY DEF Room!BlankSheet, Room!Sheets, NoBatch
<1>3. TablesTyped
  BY <1>2 DEF Init, TablesTyped
<1>4. LocalsTyped
  BY <1>1, <1>2 DEF Init, LocalsTyped
<1>5. TypeOK
  BY <1>3, <1>4, TypeParts DEF Init
<1> QED
  BY <1>5 DEF Init, IInv, RowFirst, PaperInProgress, SubmissionInProgress, AnswersInTable,
              StillOpen, PaperWhole, SubmitStatements

\* What the handlers have under way, when there is nothing.
WorkInv == PaperInProgress /\ SubmissionInProgress /\ AnswersInTable /\ StillOpen

LEMMA InvParts ==
  IInv <=> /\ TablesTyped /\ LocalsTyped /\ settings \in AllSettings
           /\ RowFirst /\ PaperWhole /\ WorkInv
BY TypeParts DEF IInv, WorkInv

LEMMA InvPartsNext ==
  IInv' <=> /\ TablesTyped' /\ LocalsTyped' /\ settings' \in AllSettings
            /\ RowFirst' /\ PaperWhole' /\ WorkInv'
<1> DEFINE parts == /\ TablesTyped /\ LocalsTyped /\ settings \in AllSettings
                    /\ RowFirst /\ PaperWhole /\ WorkInv
<1>1. IInv <=> parts
  BY InvParts
<1> HIDE DEF parts
<1>2. IInv' <=> parts'
  BY <1>1, PTL
<1> QED
  BY <1>2 DEF parts

LEMMA TablesSame ==
  ASSUME IInv, UNCHANGED <<tables, settings>>
  PROVE  TablesTyped' /\ RowFirst' /\ PaperWhole' /\ settings' \in AllSettings
BY InvParts DEF TablesTyped, RowFirst, PaperWhole, tables

\* A method that returns, or dies, leaves nothing under way.
LEMMA NothingUnderWay ==
  ASSUME IInv, Return \/ Crash
  PROVE  LocalsTyped' /\ WorkInv'
<1>1. /\ at' = "idle" /\ user' = Nobody /\ batch' = NoBatch /\ carried' = NoBatch
      /\ final' = FALSE /\ picked' = {} /\ pending' = {} /\ seen' = Room!BlankSheet
      /\ auth' \in {auth, "none"}
  BY DEF Return, Crash
<1>2. Nobody \in Users /\ Room!BlankSheet \in Room!Sheets /\ DOMAIN NoBatch = {}
  BY DatabaseAssumption DEF Nobody, Room!BlankSheet, Room!Sheets, NoBatch
<1>3. auth \in {"none", "shared", "reserved", "exclusive"}
  BY InvParts DEF LocalsTyped
<1>4. LocalsTyped'
  BY <1>1, <1>2, <1>3 DEF LocalsTyped
<1>5. WorkInv'
  BY <1>1 DEF WorkInv, PaperInProgress, SubmissionInProgress, AnswersInTable, StillOpen,
              SubmitStatements
<1> QED
  BY <1>4, <1>5

LEMMA RefusedInv ==
  ASSUME IInv, Refuse \/ Crash, UNCHANGED settings
  PROVE  IInv'
<1>1. UNCHANGED <<tables, settings>> /\ (Return \/ Crash)
  BY DEF Refuse, Crash
<1> QED
  BY <1>1, TablesSame, NothingUnderWay, InvPartsNext

\* The same for a statement after which the handler goes on.
LEMMA GoesOn ==
  ASSUME IInv, UNCHANGED <<tables, settings>>, LocalsTyped', WorkInv'
  PROVE  IInv'
BY TablesSame, InvPartsNext

LEMMA StutterInv ==
  ASSUME IInv, UNCHANGED vars
  PROVE  IInv'
<1>1. UNCHANGED <<tables, settings>>
  BY DEF vars
<1>2. LocalsTyped' /\ WorkInv'
  BY InvParts DEF vars, tables, locals, LocalsTyped, WorkInv, PaperInProgress,
     SubmissionInProgress, AnswersInTable, StillOpen, SubmitStatements, PaperStatements,
     Asked, Room!KnowsExam, Room!Batches, Room!IsOpen
<1> QED
  BY <1>1, <1>2, GoesOn

-----------------------------------------------------------------------------
(* The statements of get_exam_paper. *)

LEMMA CallGetExamPaperInv ==
  ASSUME IInv, UNCHANGED settings, NEW u \in Users, CallGetExamPaper(u)
  PROVE  IInv'
<1>1. LocalsTyped /\ PaperInProgress
  BY InvParts DEF WorkInv
<1>2. /\ at = "idle" /\ at' = "paper_check" /\ user' = u /\ UNCHANGED <<tables, settings>>
      /\ UNCHANGED <<batch, carried, final, picked, pending, seen, auth>>
  BY DEF CallGetExamPaper
<1>3. LocalsTyped'
  BY <1>1, <1>2 DEF LocalsTyped, PaperStatements
<1>4. WorkInv'
  BY <1>1, <1>2 DEF WorkInv, PaperInProgress, SubmissionInProgress, AnswersInTable, StillOpen,
                    SubmitStatements
<1> QED
  BY <1>2, <1>3, <1>4, GoesOn

\* A statement that passes and touches nothing but the program counter.
LEMMA PassesInv ==
  ASSUME IInv, UNCHANGED <<tables, locals, auth, settings>>,
         at \in PaperStatements, at # "insert_question",
         at' \in {"ensure_exam", "begin", "load"},
         at' \in {"begin", "load"} => Key(user) \in DOMAIN exams
  PROVE  IInv'
<1>1. LocalsTyped /\ PaperInProgress
  BY InvParts DEF WorkInv
<1>2. LocalsTyped'
  BY <1>1 DEF LocalsTyped, locals, PaperStatements
<1>3. WorkInv'
  BY <1>1 DEF WorkInv, PaperInProgress, SubmissionInProgress, AnswersInTable, StillOpen,
              SubmitStatements, locals, tables, Key
<1> QED
  BY <1>2, <1>3, GoesOn

LEMMA PaperCheckInv ==
  ASSUME IInv, UNCHANGED settings, PaperCheck
  PROVE  IInv'
<1>1. CASE Refuse
  BY <1>1, RefusedInv
<1>2. CASE Goto("ensure_exam") /\ UNCHANGED <<tables, locals, auth>>
  BY <1>2, PassesInv DEF PaperCheck, Goto, PaperStatements
<1> QED
  BY <1>1, <1>2 DEF PaperCheck

\* The row inserted is a row, and no paper, answer or result goes with it.
LEMMA EnsureExamInv ==
  ASSUME IInv, UNCHANGED settings, EnsureExam
  PROVE  IInv'
<1> DEFINE e == Key(user)
<1>0. TablesTyped /\ LocalsTyped /\ RowFirst /\ PaperWhole /\ PaperInProgress
  BY InvParts DEF WorkInv
<1>1. e \in Room!Keys
  BY <1>0, KeyTyped DEF LocalsTyped
<1>2. CASE Refuse
  BY <1>2, RefusedInv
<1>3. CASE e \in DOMAIN exams /\ Goto("begin") /\ UNCHANGED <<tables, locals, auth>>
  BY <1>3, PassesInv DEF EnsureExam, Goto, PaperStatements
<1>4. CASE /\ e \notin DOMAIN exams
           /\ exams' = Room!Put(exams, e, Room!EnsuredRow(e, 0, Duration))
           /\ Goto("begin")
           /\ UNCHANGED <<paper, answers, handed, told, locals, auth>>
  <2>1. Room!EnsuredRow(e, 0, Duration) \in Room!ExamRows
    BY <1>4, DatabaseAssumption DEF Room!EnsuredRow, Room!ExamRows, Room!Null
  <2>2. DOMAIN exams' = DOMAIN exams \cup {e} /\ \A k \in DOMAIN exams' : exams'[k] \in Room!ExamRows
    BY <1>0, <1>4, <2>1 DEF Room!Put, TablesTyped
  <2>3. TablesTyped'
    BY <1>0, <1>1, <1>4, <2>2 DEF TablesTyped
  <2>4. RowFirst' /\ PaperWhole'
    BY <1>0, <1>4, <2>2 DEF RowFirst, PaperWhole
  <2>5. at = "ensure_exam" /\ at' = "begin" /\ UNCHANGED <<locals, auth>>
    BY <1>4 DEF EnsureExam, Goto
  <2>6. LocalsTyped'
    BY <1>0, <2>5 DEF LocalsTyped, locals, PaperStatements
  <2>7. WorkInv'
    BY <1>0, <2>2, <2>5 DEF WorkInv, PaperInProgress, SubmissionInProgress, AnswersInTable,
                            StillOpen, SubmitStatements, locals, Key
  <2>8. settings' \in AllSettings
    BY InvParts
  <2> QED
    BY <2>3, <2>4, <2>6, <2>7, <2>8, InvPartsNext
<1> QED
  BY <1>2, <1>3, <1>4 DEF EnsureExam

LEMMA BeginImmediateInv ==
  ASSUME IInv, UNCHANGED settings, BeginImmediate
  PROVE  IInv'
<1>1. CASE Refuse
  BY <1>1, RefusedInv
<1>2. CASE Goto("load") /\ UNCHANGED <<tables, locals, auth>>
  <2>1. Key(user) \in DOMAIN exams
    BY InvParts DEF WorkInv, PaperInProgress, BeginImmediate
  <2> QED
    BY <1>2, <2>1, PassesInv DEF BeginImmediate, Goto, PaperStatements
<1> QED
  BY <1>1, <1>2 DEF BeginImmediate

LEMMA LoadQuestionsInv ==
  ASSUME IInv, UNCHANGED settings, LoadQuestions
  PROVE  IInv'
<1>0. LocalsTyped /\ PaperInProgress /\ settings \in AllSettings
  BY InvParts DEF WorkInv
<1>1. CASE Refuse
  BY <1>1, RefusedInv
<1>2. CASE /\ paper[Key(user)] = {}
           /\ picked' \in Picker!PickQuestions(Asked)
           /\ Goto("insert_question")
           /\ UNCHANGED <<tables, user, batch, carried, final, pending, seen, auth>>
  <2>1. at = "load" /\ at' = "insert_question" /\ pending = {} /\ pending' = {}
    BY <1>0, <1>2 DEF LoadQuestions, Goto, LocalsTyped
  <2>2. picked' \subseteq Questions
    BY <1>0, <1>2, PickedPaper
  <2>3. LocalsTyped'
    BY <1>0, <1>2, <2>1, <2>2 DEF LocalsTyped, PaperStatements
  <2>4. Asked' = Asked /\ Key(user)' = Key(user) /\ UNCHANGED <<exams, paper>>
    BY <1>2 DEF Asked, Key, tables
  <2>5. picked' \cup pending' = picked'
    BY <2>1
  <2>6. Key(user) \in DOMAIN exams
    BY <1>0, <2>1 DEF PaperInProgress
  <2>7. PaperInProgress'
    BY <1>2, <2>1, <2>4, <2>5, <2>6 DEF PaperInProgress
  <2>8. WorkInv'
    BY <2>1, <2>7 DEF WorkInv, SubmissionInProgress, AnswersInTable, StillOpen,
                      SubmitStatements
  <2> QED
    BY <1>2, <2>3, <2>8, GoesOn
<1> QED
  BY <1>1, <1>2 DEF LoadQuestions

LEMMA InsertQuestionInv ==
  ASSUME IInv, UNCHANGED settings, InsertQuestion
  PROVE  IInv'
<1>0. LocalsTyped /\ PaperInProgress
  BY InvParts DEF WorkInv
<1>1. PICK q \in picked : picked' = picked \ {q} /\ pending' = pending \cup {q}
  BY DEF InsertQuestion
<1>2. /\ at = "insert_question" /\ UNCHANGED at
      /\ UNCHANGED <<tables, user, batch, carried, final, seen, auth>>
  BY DEF InsertQuestion
<1>3. picked' \cup pending' = picked \cup pending
  BY <1>1
<1>4. LocalsTyped'
  BY <1>0, <1>1, <1>2 DEF LocalsTyped
<1>5. Asked' = Asked /\ Key(user)' = Key(user) /\ UNCHANGED <<exams, paper>>
  BY <1>2 DEF Asked, Key, tables
<1>6. PaperInProgress'
  BY <1>0, <1>2, <1>3, <1>5 DEF PaperInProgress
<1>7. WorkInv'
  BY <1>2, <1>6 DEF WorkInv, SubmissionInProgress, AnswersInTable, StillOpen, SubmitStatements
<1> QED
  BY <1>2, <1>4, <1>7, GoesOn

\* What COMMIT makes permanent: a whole choice of questions, where there was
\* none, with its row and its reply.
LEMMA CommitStores ==
  ASSUME IInv, UNCHANGED settings, Commit, ~ Refuse
  PROVE  /\ Key(user) \in Room!Keys /\ Key(user) \in DOMAIN exams
         /\ paper[Key(user)] = {}
         /\ pending \subseteq Questions /\ pending # {} /\ Cardinality(pending) \in Nat
         /\ pending \in Room!Picks(Asked.total) /\ Picker!AsAsked(settings, pending)
         /\ paper' = [paper EXCEPT ![Key(user)] = pending]
         /\ exams' = [exams EXCEPT ![Key(user)].total = Cardinality(pending)]
         /\ handed' = [handed EXCEPT ![Key(user)] = @ \cup
                         {[paper |-> pending, start_time |-> 0, end_time |-> Duration]}]
         /\ Return /\ UNCHANGED <<answers, told>>
<1>1. LocalsTyped /\ PaperInProgress /\ settings \in AllSettings
  BY InvParts DEF WorkInv
<1>2. at = "insert_question" /\ picked = {}
  BY DEF Commit
<1>3. /\ Key(user) \in DOMAIN exams /\ paper[Key(user)] = {}
      /\ pending \in Picker!PickQuestions(Asked)
  <2>1. picked \cup pending = pending
    BY <1>2
  <2> QED
    BY <1>1, <1>2, <2>1 DEF PaperInProgress
<1>4. Key(user) \in Room!Keys
  BY <1>1, KeyTyped DEF LocalsTyped
<1>5. /\ paper' = [paper EXCEPT ![Key(user)] = pending]
      /\ exams' = [exams EXCEPT ![Key(user)].total = Cardinality(pending)]
      /\ handed' = [handed EXCEPT ![Key(user)] = @ \cup
                      {[paper |-> pending, start_time |-> 0, end_time |-> Duration]}]
      /\ Return /\ UNCHANGED <<answers, told>>
  BY DEF Commit
<1> QED
  BY <1>1, <1>3, <1>4, <1>5, PickedPaper

LEMMA CommitInv ==
  ASSUME IInv, UNCHANGED settings, Commit
  PROVE  IInv'
<1>1. CASE Refuse
  BY <1>1, RefusedInv
<1>2. CASE ~ Refuse
  <2> DEFINE e == Key(user)
             reply == [paper |-> pending, start_time |-> 0, end_time |-> Duration]
  <2>0. TablesTyped /\ RowFirst /\ PaperWhole /\ settings \in AllSettings
    BY InvParts
  <2>1. /\ e \in Room!Keys /\ e \in DOMAIN exams
        /\ pending \subseteq Questions /\ Cardinality(pending) \in Nat
        /\ Picker!AsAsked(settings, pending)
        /\ paper' = [paper EXCEPT ![e] = pending]
        /\ exams' = [exams EXCEPT ![e].total = Cardinality(pending)]
        /\ handed' = [handed EXCEPT ![e] = @ \cup {reply}]
        /\ Return /\ UNCHANGED <<answers, told>>
    BY <1>2, CommitStores
  <2>2. reply \in Room!ExamPapers
    BY <2>1, DatabaseAssumption DEF Room!ExamPapers
  <2>3. [exams[e] EXCEPT !.total = Cardinality(pending)] \in Room!ExamRows
    BY <2>0, <2>1 DEF TablesTyped, Room!ExamRows
  <2>4. DOMAIN exams' = DOMAIN exams /\ \A k \in DOMAIN exams' : exams'[k] \in Room!ExamRows
    BY <2>0, <2>1, <2>3 DEF TablesTyped
  <2> HIDE DEF e, reply
  <2>5. TablesTyped'
    BY <2>0, <2>1, <2>2, <2>4 DEF TablesTyped
  <2>6. RowFirst'
    BY <2>0, <2>1, <2>4 DEF RowFirst, TablesTyped
  <2>7. PaperWhole'
    BY <2>0, <2>1 DEF PaperWhole, TablesTyped
  <2>8. LocalsTyped' /\ WorkInv'
    BY <2>1, NothingUnderWay
  <2> QED
    BY <2>0, <2>5, <2>6, <2>7, <2>8, InvPartsNext
<1> QED
  BY <1>1, <1>2

-----------------------------------------------------------------------------
(* The statements of submit_answers and submit_exam. *)

LEMMA CallSubmitInv ==
  ASSUME IInv, UNCHANGED settings, NEW u \in Users, CallSubmit(u)
  PROVE  IInv'
<1>1. TablesTyped /\ LocalsTyped /\ PaperInProgress
  BY InvParts DEF WorkInv
<1>2. /\ at = "idle" /\ Room!KnowsExam(Key(u)) /\ user' = u
      /\ carried' \in Room!Batches(Key(u)) /\ batch' = carried' /\ final' \in BOOLEAN
      /\ at' = IF final' THEN "submit_check" ELSE "save_answer"
      /\ UNCHANGED <<tables, picked, pending, seen, auth>>
  BY DEF CallSubmit
<1>3. DOMAIN carried' \subseteq Questions
  <2>1. paper[Key(u)] \subseteq Questions
    BY <1>1, KeyTyped DEF TablesTyped
  <2> QED
    BY <1>2, <2>1 DEF Room!Batches
<1>4. at' \in {"submit_check", "save_answer"} /\ (at' = "save_answer" => ~ final')
  BY <1>2
<1>5. LocalsTyped'
  BY <1>1, <1>2, <1>3, <1>4 DEF LocalsTyped, SubmitStatements
<1>6. Key(user)' = Key(u) /\ UNCHANGED <<handed, paper>>
  BY <1>2 DEF Key, tables
<1>7. SubmissionInProgress'
  BY <1>2, <1>6 DEF SubmissionInProgress, Room!KnowsExam, Room!Batches
<1>8. AnswersInTable' /\ StillOpen' /\ PaperInProgress'
  BY <1>1, <1>2, <1>4 DEF AnswersInTable, StillOpen, PaperInProgress
<1> QED
  BY <1>2, <1>5, <1>7, <1>8, GoesOn DEF WorkInv

\* The request under way stays what it is while a statement of it runs.
LEMMA SubmissionSame ==
  ASSUME IInv, at \in SubmitStatements, UNCHANGED <<user, carried, handed, paper>>,
         DOMAIN batch' \subseteq DOMAIN batch, \A q \in DOMAIN batch' : batch'[q] = batch[q]
  PROVE  SubmissionInProgress'
<1>1. SubmissionInProgress
  BY InvParts DEF WorkInv
<1> QED
  BY <1>1 DEF SubmissionInProgress, Room!KnowsExam, Room!Batches, Key

LEMMA NotInPaper ==
  ASSUME IInv, at \in SubmitStatements, at' \in SubmitStatements, UNCHANGED pending
  PROVE  PaperInProgress'
<1>1. PaperInProgress
  BY InvParts DEF WorkInv
<1> QED
  BY <1>1 DEF PaperInProgress, SubmitStatements

LEMMA SubmitCheckInv ==
  ASSUME IInv, UNCHANGED settings, SubmitCheck
  PROVE  IInv'
<1>1. CASE Refuse
  BY <1>1, RefusedInv
<1>2. CASE Room!IsOpen(Key(user)) /\ Goto("save_answer") /\ UNCHANGED <<tables, locals, auth>>
  <2>1. at = "submit_check" /\ at' = "save_answer" /\ UNCHANGED <<tables, locals, auth>>
    BY <1>2 DEF SubmitCheck, Goto
  <2>2. LocalsTyped /\ AnswersInTable
    BY InvParts DEF WorkInv
  <2>3. LocalsTyped'
    BY <2>1, <2>2 DEF LocalsTyped, locals, SubmitStatements
  <2>4. SubmissionInProgress' /\ PaperInProgress'
    BY <2>1, SubmissionSame, NotInPaper DEF SubmitStatements, locals, tables
  <2>5. AnswersInTable'
    BY <2>1, <2>2 DEF AnswersInTable, locals
  <2>6. StillOpen'
    BY <1>2, <2>1 DEF StillOpen, Room!IsOpen, Key, locals, tables
  <2> QED
    BY <2>1, <2>3, <2>4, <2>5, <2>6, GoesOn DEF WorkInv
<1> QED
  BY <1>1, <1>2 DEF SubmitCheck

\* One answer is a row of the sheet, and a row less to save.
LEMMA SaveAnswerStores ==
  ASSUME IInv, NEW q \in DOMAIN batch, at = "save_answer"
  PROVE  /\ Key(user) \in Room!Keys /\ q \in Questions /\ q \in paper[Key(user)]
         /\ batch[q] \in Options /\ batch[q] = carried[q]
         /\ [answers EXCEPT ![Key(user)][q] = batch[q]] \in [Room!Keys -> Room!Sheets]
<1>1. TablesTyped /\ LocalsTyped /\ SubmissionInProgress
  BY InvParts DEF WorkInv
<1>2. Key(user) \in Room!Keys
  BY <1>1, KeyTyped DEF LocalsTyped
<1>3. /\ carried \in Room!Batches(Key(user)) /\ q \in DOMAIN carried /\ batch[q] = carried[q]
  BY <1>1 DEF SubmissionInProgress, SubmitStatements
<1>4. PICK S \in SUBSET paper[Key(user)] : carried \in [S -> Options]
  BY <1>3 DEF Room!Batches
<1>5. q \in paper[Key(user)] /\ q \in Questions /\ batch[q] \in Options
  BY <1>1, <1>2, <1>3, <1>4 DEF TablesTyped
<1>6. answers[Key(user)] \in [Questions -> Options \cup {NoOption}]
  BY <1>1, <1>2 DEF TablesTyped, Room!Sheets
<1>7. [answers[Key(user)] EXCEPT ![q] = batch[q]] \in Room!Sheets
  BY <1>5, <1>6 DEF Room!Sheets
<1> QED
  BY <1>1, <1>2, <1>3, <1>5, <1>7 DEF TablesTyped

LEMMA SaveAnswerInv ==
  ASSUME IInv, UNCHANGED settings, SaveAnswer
  PROVE  IInv'
<1>1. CASE Refuse
  BY <1>1, RefusedInv
<1>2. CASE ~ Refuse
  <2> DEFINE e == Key(user)
  <2>0. /\ TablesTyped /\ LocalsTyped /\ RowFirst /\ PaperWhole /\ settings \in AllSettings
        /\ AnswersInTable /\ StillOpen
    BY InvParts DEF WorkInv
  <2>1. PICK q \in DOMAIN batch :
          /\ answers' = [answers EXCEPT ![e][q] = batch[q]]
          /\ batch' = [x \in DOMAIN batch \ {q} |-> batch[x]]
          /\ UNCHANGED <<exams, paper, handed, told, at, user, carried, final, picked,
                         pending, seen, auth>>
    BY <1>2 DEF SaveAnswer
  <2>2. at = "save_answer"
    BY DEF SaveAnswer
  <2>3. /\ e \in Room!Keys /\ q \in Questions /\ batch[q] = carried[q]
        /\ answers' \in [Room!Keys -> Room!Sheets]
    BY <2>1, <2>2, SaveAnswerStores
  <2>4. TablesTyped'
    BY <2>0, <2>1, <2>3 DEF TablesTyped
  <2>5. RowFirst' /\ PaperWhole'
    BY <2>0, <2>1 DEF RowFirst, PaperWhole
  <2>6. DOMAIN batch' = DOMAIN batch \ {q} /\ \A x \in DOMAIN batch' : batch'[x] = batch[x]
    BY <2>1
  <2>7. LocalsTyped'
    BY <2>0, <2>1, <2>6 DEF LocalsTyped
  <2>8. SubmissionInProgress' /\ PaperInProgress'
    BY <2>1, <2>2, <2>6, SubmissionSame, NotInPaper DEF SubmitStatements
  <2>9. AnswersInTable'
    <3>1. answers[e] \in [Questions -> Options \cup {NoOption}]
      BY <2>0, <2>3 DEF TablesTyped, Room!Sheets
    <3>2. \A x \in Questions : answers'[e][x] = IF x = q THEN batch[q] ELSE answers[e][x]
      BY <2>0, <2>1, <2>3, <3>1 DEF TablesTyped
    <3>3. DOMAIN carried \subseteq Questions
      BY <2>0 DEF LocalsTyped
    <3>4. \A x \in DOMAIN carried \ DOMAIN batch' : answers'[e][x] = carried[x]
      BY <2>0, <2>2, <2>3, <2>6, <3>2, <3>3 DEF AnswersInTable
    <3> QED
      BY <2>1, <2>2, <3>4 DEF AnswersInTable, Key
  <2>10. StillOpen'
    BY <2>0, <2>1, <2>2 DEF StillOpen, Room!IsOpen, Key
  <2> QED
    BY <2>0, <2>4, <2>5, <2>7, <2>8, <2>9, <2>10, InvPartsNext DEF WorkInv
<1> QED
  BY <1>1, <1>2

LEMMA AnswersSavedInv ==
  ASSUME IInv, UNCHANGED settings, AnswersSaved
  PROVE  IInv'
<1>1. CASE Refuse
  BY <1>1, RefusedInv
<1>2. CASE final /\ Goto("grade") /\ UNCHANGED <<tables, locals, auth>>
  <2>1. /\ at = "save_answer" /\ at' = "grade" /\ UNCHANGED <<tables, locals, auth>>
        /\ DOMAIN batch = {}
    BY <1>2 DEF AnswersSaved, Goto, NoBatch
  <2>2. LocalsTyped /\ AnswersInTable /\ StillOpen
    BY InvParts DEF WorkInv
  <2>3. LocalsTyped'
    BY <2>1, <2>2 DEF LocalsTyped, locals, SubmitStatements
  <2>4. SubmissionInProgress' /\ PaperInProgress'
    BY <2>1, SubmissionSame, NotInPaper DEF SubmitStatements, locals, tables
  <2>5. AnswersInTable'
    BY <2>1, <2>2 DEF AnswersInTable, locals, tables, Key
  <2>6. StillOpen'
    BY <1>2, <2>1, <2>2 DEF StillOpen, Room!IsOpen, Key, locals, tables
  <2> QED
    BY <2>1, <2>3, <2>4, <2>5, <2>6, GoesOn DEF WorkInv
<1> QED
  BY <1>1, <1>2 DEF AnswersSaved

LEMMA ReadGradeInv ==
  ASSUME IInv, UNCHANGED settings, ReadGrade
  PROVE  IInv'
<1>1. /\ at = "grade" /\ at' = "record"
      /\ seen' \in {answers[Key(user)], Room!BlankSheet}
      /\ UNCHANGED <<tables, user, batch, carried, final, picked, pending, auth>>
  BY DEF ReadGrade, Goto
<1>2. TablesTyped /\ LocalsTyped /\ AnswersInTable /\ StillOpen
  BY InvParts DEF WorkInv
<1>3. seen' \in Room!Sheets
  <2>1. Room!BlankSheet \in Room!Sheets
    BY DEF Room!BlankSheet, Room!Sheets
  <2>2. answers[Key(user)] \in Room!Sheets
    BY <1>2, KeyTyped DEF TablesTyped, LocalsTyped
  <2> QED
    BY <1>1, <2>1, <2>2
<1>4. LocalsTyped'
  BY <1>1, <1>2, <1>3 DEF LocalsTyped, SubmitStatements
<1>5. SubmissionInProgress' /\ PaperInProgress'
  BY <1>1, SubmissionSame, NotInPaper DEF SubmitStatements, tables
<1>6. AnswersInTable'
  BY <1>1, <1>2 DEF AnswersInTable, tables, Key
<1>7. StillOpen'
  BY <1>1, <1>2 DEF StillOpen, Room!IsOpen, Key, tables
<1> QED
  BY <1>1, <1>4, <1>5, <1>6, <1>7, GoesOn DEF WorkInv

\* What a grading loop counts are numbers.
LEMMA GradeTyped ==
  ASSUME NEW sheet \in Room!Sheets, NEW fallback \in Nat
  PROVE  Room!GradeOf(sheet, fallback) \in Room!Results
<1>1. Room!Right(sheet) \subseteq Questions /\ Room!Answered(sheet) \subseteq Questions
  BY DEF Room!Right, Room!Answered
<1>2. Cardinality(Room!Right(sheet)) \in Nat /\ Cardinality(Room!Answered(sheet)) \in Nat
  BY <1>1, DatabaseAssumption, FS_Subset, FS_CardinalityType
<1> QED
  BY <1>2, SameSizes DEF Room!GradeOf, Room!Results

LEMMA RecordGradeInv ==
  ASSUME IInv, UNCHANGED settings, RecordGrade
  PROVE  IInv'
<1>1. CASE Refuse
  BY <1>1, RefusedInv
<1>2. CASE ~ Refuse
  <2> DEFINE e == Key(user)
             grade == Room!GradeOf(seen, Cardinality(DOMAIN carried))
  <2>0. /\ TablesTyped /\ LocalsTyped /\ RowFirst /\ PaperWhole /\ settings \in AllSettings
        /\ StillOpen
    BY InvParts DEF WorkInv
  <2>1. /\ at = "record"
        /\ exams' = [exams EXCEPT ![e] = Room!Graded(@, grade)]
        /\ told' = [told EXCEPT ![e] = @ \cup {grade}]
        /\ Return /\ UNCHANGED <<paper, answers, handed>>
    BY <1>2 DEF RecordGrade
  <2>2. e \in Room!Keys /\ e \in DOMAIN exams
    BY <2>0, <2>1, KeyTyped DEF LocalsTyped, StillOpen, Room!IsOpen
  <2>3. grade \in Room!Results
    <3>1. DOMAIN carried \subseteq Questions /\ seen \in Room!Sheets
      BY <2>0 DEF LocalsTyped
    <3>2. Cardinality(DOMAIN carried) \in Nat
      BY <3>1, DatabaseAssumption, FS_Subset, FS_CardinalityType
    <3> QED
      BY <3>1, <3>2, GradeTyped
  <2> HIDE DEF e, grade
  <2>4. Room!Graded(exams[e], grade) \in Room!ExamRows
    BY <2>0, <2>2, <2>3 DEF TablesTyped, Room!Graded, Room!ExamRows, Room!Results
  <2>5. DOMAIN exams' = DOMAIN exams /\ \A k \in DOMAIN exams' : exams'[k] \in Room!ExamRows
    BY <2>0, <2>1, <2>4 DEF TablesTyped
  <2>6. TablesTyped'
    BY <2>0, <2>1, <2>2, <2>3, <2>5 DEF TablesTyped
  <2>7. RowFirst' /\ PaperWhole'
    BY <2>0, <2>1, <2>5 DEF RowFirst, PaperWhole
  <2>8. LocalsTyped' /\ WorkInv'
    BY <2>1, NothingUnderWay
  <2> QED
    BY <2>0, <2>6, <2>7, <2>8, InvPartsNext
<1> QED
  BY <1>1, <1>2

-----------------------------------------------------------------------------
(* The other connection, and all steps together. *)

LEMMA AuthStepInv ==
  ASSUME IInv, UNCHANGED settings, AuthStep
  PROVE  IInv'
<1>1. /\ UNCHANGED <<tables, at, locals>>
      /\ auth' \in {"none", "shared", "reserved", "exclusive"}
  BY DEF AuthStep, AuthReads, AuthReserves, AuthCommits, AuthReleases
<1>2. LocalsTyped /\ WorkInv
  BY InvParts
<1>3. LocalsTyped'
  BY <1>1, <1>2 DEF LocalsTyped, locals
<1>4. WorkInv'
  BY <1>1, <1>2 DEF tables, locals, WorkInv, PaperInProgress, SubmissionInProgress,
     AnswersInTable, StillOpen, Asked, Key, Room!KnowsExam, Room!Batches, Room!IsOpen
<1> QED
  BY <1>1, <1>3, <1>4, GoesOn

LEMMA NextInv == IInv /\ [Next]_vars => IInv'
<1> SUFFICES ASSUME IInv, [Next]_vars PROVE IInv'
  OBVIOUS
<1>1. CASE UNCHANGED vars
  BY <1>1, StutterInv
<1>2. CASE Next
  <2>1. UNCHANGED settings
    BY <1>2 DEF Next
  <2>2. CASE HandlerStep
    BY <2>1, <2>2, PaperCheckInv, EnsureExamInv, BeginImmediateInv, LoadQuestionsInv,
       InsertQuestionInv, CommitInv, SubmitCheckInv, SaveAnswerInv, AnswersSavedInv,
       ReadGradeInv, RecordGradeInv DEF HandlerStep
  <2>3. CASE AuthStep
    BY <2>1, <2>3, AuthStepInv
  <2>4. CASE Crash
    BY <2>1, <2>4, RefusedInv
  <2>5. CASE \E u \in Users : CallGetExamPaper(u) \/ CallSubmit(u)
    BY <2>1, <2>5, CallGetExamPaperInv, CallSubmitInv
  <2> QED
    BY <1>2, <2>2, <2>3, <2>4, <2>5 DEF Next
<1> QED
  BY <1>1, <1>2

\* The inductive invariant holds in every state, of a run of any length.
THEOREM Invariance == Spec => []IInv
<1>1. Init => IInv
  BY InitInv
<1>2. IInv /\ [Next]_vars => IInv'
  BY NextInv
<1> QED
  BY <1>1, <1>2, PTL DEF Spec

\* The tables and what the handlers have under way keep their types.
THEOREM TypeCorrect == Spec => []TypeOK
<1>1. IInv => TypeOK
  BY DEF IInv
<1> QED
  BY <1>1, Invariance, PTL

\* A paper is stored whole or not at all, and has the questions the room asks
\* for, whatever statement is refused and wherever the process dies
\* (get_exam_paper, pick_questions).
THEOREM PapersAreWhole == Spec => []PaperWhole
<1>1. IInv => PaperWhole
  BY DEF IInv
<1> QED
  BY <1>1, Invariance, PTL

-----------------------------------------------------------------------------
(* Each statement is a step of ExamRoom, or none. *)

LEMMA TheRoom ==
  ASSUME UNCHANGED settings
  PROVE  /\ UNCHANGED [r \in {1} |-> room] /\ UNCHANGED <<1, {1} \X Users, 0>>
         /\ room.status = "IN_PROGRESS" /\ room.duration = Duration
         /\ room.size = Asked.total
BY DEF room, Asked

LEMMA NoTableWritten ==
  ASSUME UNCHANGED <<tables, settings>>
  PROVE  UNCHANGED Room!vars
BY TheRoom DEF Room!vars, tables

\* The row that ensure_exam inserts is a request whose transaction failed,
\* until it succeeds.
LEMMA EnsureExamRefines ==
  ASSUME IInv, UNCHANGED settings, EnsureExam
  PROVE  Room!Next \/ UNCHANGED Room!vars
<1> DEFINE e == Key(user)
<1>1. CASE UNCHANGED tables
  BY <1>1, NoTableWritten
<1>2. CASE /\ e \notin DOMAIN exams
           /\ exams' = Room!Put(exams, e, Room!EnsuredRow(e, 0, Duration))
           /\ UNCHANGED <<paper, answers, handed, told>>
  <2>1. e \in Room!Keys /\ e \in {1} \X Users /\ e[1] = 1
    BY InvParts, KeyTyped DEF LocalsTyped
  <2>2. paper[e] = {}
    BY <1>2, <2>1, InvParts DEF RowFirst
  <2>3. 0 + Duration = Duration
    BY DatabaseAssumption
  <2>4. Room!LosePaper(e, 0, Duration)
    BY <1>2 DEF Room!LosePaper
  <2>5. Room!RoomIs(e[1], "IN_PROGRESS")
    BY <2>1, TheRoom DEF Room!RoomIs
  <2>6. Room!GetExamPaper(e)
    BY <1>2, <2>1, <2>2, <2>3, <2>4, <2>5, TheRoom DEF Room!GetExamPaper
  <2> QED
    BY <2>1, <2>6 DEF Room!Next
<1> QED
  BY <1>1, <1>2 DEF EnsureExam, Refuse

\* COMMIT is the whole of get_exam_paper.
LEMMA CommitRefines ==
  ASSUME IInv, UNCHANGED settings, Commit
  PROVE  Room!Next \/ UNCHANGED Room!vars
<1>1. CASE Refuse
  BY <1>1, NoTableWritten DEF Refuse
<1>2. CASE ~ Refuse
  <2> DEFINE e == Key(user)
             row == [exams[e] EXCEPT !.total = Cardinality(pending)]
             reply == [paper |-> pending, start_time |-> 0, end_time |-> Duration]
  <2>1. /\ e \in Room!Keys /\ e \in DOMAIN exams /\ paper[e] = {} /\ pending # {}
        /\ pending \in Room!Picks(Asked.total)
        /\ paper' = [paper EXCEPT ![e] = pending]
        /\ exams' = [exams EXCEPT ![e] = row]
        /\ handed' = [handed EXCEPT ![e] = @ \cup {reply}]
        /\ UNCHANGED <<answers, told>>
    BY <1>2, CommitStores
  <2>2. e \in {1} \X Users /\ e[1] = 1
    BY InvParts, KeyTyped DEF LocalsTyped
  <2>3. exams' = Room!Put(exams, e, row)
    <3>1. DOMAIN exams \cup {e} = DOMAIN exams
      BY <2>1
    <3> HIDE DEF e, row
    <3>2. [exams EXCEPT ![e] = row] = [k \in DOMAIN exams |-> IF k = e THEN row ELSE exams[k]]
      OBVIOUS
    <3> QED
      BY <2>1, <3>1, <3>2 DEF Room!Put
  <2>4. row = [Room!EnsuredRow(e, 0, Duration) EXCEPT !.total = Room!Cardinality(pending)]
    BY <2>1, SameSizes DEF Room!EnsuredRow
  <2>5. [r \in {1} |-> room][e[1]] = room
    BY <2>2
  <2>6. Room!IssuePaper(e, 0, Duration)
    BY <2>1, <2>3, <2>4, <2>5, TheRoom DEF Room!IssuePaper
  <2>7. Room!RoomIs(e[1], "IN_PROGRESS")
    BY <2>2, TheRoom DEF Room!RoomIs
  <2>8. 0 + Duration = Duration
    BY DatabaseAssumption
  <2>9. Room!GetExamPaper(e)
    BY <2>1, <2>2, <2>5, <2>6, <2>7, <2>8, TheRoom DEF Room!GetExamPaper
  <2> QED
    BY <2>1, <2>9 DEF Room!Next
<1> QED
  BY <1>1, <1>2

\* An answer saved is a request that carries only that answer.
LEMMA SaveAnswerRefines ==
  ASSUME IInv, UNCHANGED settings, SaveAnswer
  PROVE  Room!Next \/ UNCHANGED Room!vars
<1>1. CASE Refuse
  BY <1>1, NoTableWritten DEF Refuse
<1>2. CASE ~ Refuse
  <2> DEFINE e == Key(user)
  <2>1. PICK q \in DOMAIN batch :
          /\ answers' = [answers EXCEPT ![e][q] = batch[q]]
          /\ UNCHANGED <<exams, paper, handed, told>>
    BY <1>2 DEF SaveAnswer
  <2> DEFINE one == [x \in {q} |-> batch[q]]
  <2>2. at = "save_answer"
    BY DEF SaveAnswer
  <2>3. e \in Room!Keys /\ q \in Questions /\ q \in paper[e] /\ batch[q] \in Options
    BY <2>1, <2>2, SaveAnswerStores
  <2>4. Room!KnowsExam(e)
    BY <2>2, InvParts DEF WorkInv, SubmissionInProgress, SubmitStatements
  <2>5. e \in DOMAIN exams
    BY <2>3, <2>4, InvParts DEF RowFirst, Room!KnowsExam
  <2>6. one \in Room!Batches(e)
    <3>1. one \in [{q} -> Options] /\ {q} \in SUBSET paper[e]
      BY <2>3
    <3> QED
      BY <3>1 DEF Room!Batches
  <2>7. [answers[e] EXCEPT ![q] = batch[q]] = Room!Overlay(answers[e], one)
    <3>1. answers[e] \in [Questions -> Options \cup {NoOption}]
      BY <2>3, InvParts DEF TablesTyped, Room!Sheets
    <3> QED
      BY <2>3, <3>1 DEF Room!Overlay
  <2>8. answers' = [answers EXCEPT ![e] = Room!Overlay(answers[e], one)]
    BY <2>1, <2>7
  <2> HIDE DEF e, one
  <2>9. Room!SubmitAnswers(e, one)
    BY <2>1, <2>4, <2>5, <2>8, TheRoom DEF Room!SubmitAnswers
  <2> QED
    BY <2>3, <2>6, <2>9 DEF Room!Next
<1> QED
  BY <1>1, <1>2

\* The UPDATE that records the grade is the whole of submit_exam: by then
\* every answer of the request is on the sheet.
LEMMA RecordGradeRefines ==
  ASSUME IInv, UNCHANGED settings, RecordGrade
  PROVE  Room!Next \/ UNCHANGED Room!vars
<1>1. CASE Refuse
  BY <1>1, NoTableWritten DEF Refuse
<1>2. CASE ~ Refuse
  <2> DEFINE e == Key(user)
             grade == Room!GradeOf(seen, Cardinality(DOMAIN carried))
  <2>0. TablesTyped /\ LocalsTyped /\ WorkInv
    BY InvParts
  <2>1. /\ at = "record"
        /\ exams' = [exams EXCEPT ![e] = Room!Graded(@, grade)]
        /\ told' = [told EXCEPT ![e] = @ \cup {grade}]
        /\ UNCHANGED <<paper, answers, handed>>
    BY <1>2 DEF RecordGrade
  <2>2. e \in Room!Keys
    BY <2>0, KeyTyped DEF LocalsTyped
  <2>3. /\ Room!KnowsExam(e) /\ carried \in Room!Batches(e) /\ Room!IsOpen(e)
        /\ seen \in {answers[e], Room!BlankSheet}
        /\ \A q \in DOMAIN carried : answers[e][q] = carried[q]
    BY <2>0, <2>1 DEF WorkInv, SubmissionInProgress, AnswersInTable, StillOpen,
                      SubmitStatements
  <2>4. answers \in [Room!Keys -> Room!Sheets]
        /\ answers[e] \in [Questions -> Options \cup {NoOption}]
    BY <2>0, <2>2 DEF TablesTyped, Room!Sheets
  <2> HIDE DEF e
  <2>5. Room!Overlay(answers[e], carried) = answers[e]
    <3>1. answers[e] = [q \in Questions |-> answers[e][q]]
      BY <2>4
    <3> QED
      BY <2>3, <3>1 DEF Room!Overlay
  <2>6. answers' = [answers EXCEPT ![e] = Room!Overlay(answers[e], carried)]
    BY <2>1, <2>2, <2>4, <2>5
  <2>7. PICK unread \in Room!Unread({e}) :
          seen = Room!Seen(e, Room!Overlay(answers[e], carried), unread)
    <3>1. {} \in Room!Unread({e}) /\ {e} \in Room!Unread({e})
      BY DEF Room!Unread
    <3>2. CASE seen = answers[e]
      BY <2>5, <3>1, <3>2 DEF Room!Seen
    <3>3. CASE seen = Room!BlankSheet
      BY <3>1, <3>3 DEF Room!Seen
    <3> QED
      BY <2>3, <3>2, <3>3
  <2>8. grade = Room!GradeOf(Room!Seen(e, Room!Overlay(answers[e], carried), unread),
                             Room!Cardinality(DOMAIN carried))
    BY <2>7, SameSizes
  <2> HIDE DEF grade
  <2>9. Room!SubmitExam(e, carried)
    BY <2>1, <2>3, <2>6, <2>8, TheRoom DEF Room!SubmitExam
  <2> QED
    BY <2>2, <2>3, <2>9 DEF Room!Next
<1> QED
  BY <1>1, <1>2

LEMMA NextRefines == IInv /\ [Next]_vars => [Room!Next]_(Room!vars)
<1> SUFFICES ASSUME IInv, [Next]_vars
             PROVE  Room!Next \/ UNCHANGED Room!vars
  OBVIOUS
<1>1. CASE UNCHANGED vars
  BY <1>1, NoTableWritten DEF vars
<1>2. CASE Next
  <2>1. UNCHANGED settings
    BY <1>2 DEF Next
  <2>2. CASE EnsureExam \/ Commit \/ SaveAnswer \/ RecordGrade
    BY <2>1, <2>2, EnsureExamRefines, CommitRefines, SaveAnswerRefines, RecordGradeRefines
  <2>3. CASE UNCHANGED tables
    BY <2>1, <2>3, NoTableWritten
  <2>4. \/ EnsureExam \/ Commit \/ SaveAnswer \/ RecordGrade
        \/ UNCHANGED tables
    BY <1>2 DEF Next, HandlerStep, AuthStep, PaperCheck, BeginImmediate, LoadQuestions,
       InsertQuestion, SubmitCheck, AnswersSaved, ReadGrade, Refuse, CallGetExamPaper,
       CallSubmit, AuthReads, AuthReserves, AuthCommits, AuthReleases, Crash, tables
  <2> QED
    BY <2>2, <2>3, <2>4
<1> QED
  BY <1>1, <1>2

\* ExamDatabase implements ExamRoom: seen from it, every statement is a whole
\* handler or nothing, whatever the other connection does and wherever the
\* process dies.
THEOREM Refinement == Spec => ImplementsExamRoom
<1>1. IInv /\ [Next]_vars => [Room!Next]_(Room!vars)
  BY NextRefines
<1> QED
  BY <1>1, Invariance, PTL DEF Spec, ImplementsExamRoom
=============================================================================
