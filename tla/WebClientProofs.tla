-------------------------- MODULE WebClientProofs --------------------------
(***************************************************************************)
(* Proofs about WebClient, for every number of rooms, papers, options and  *)
(* seconds, every duration, and any number of requests and replies under   *)
(* way and of submissions that fail.                                       *)
(***************************************************************************)
EXTENDS WebClient, TLAPS

-----------------------------------------------------------------------------
(* The inductive invariant. *)

\* A paper belongs to an exam that was started, in the past, and ends within
\* the clock's range; a graded exam recorded the answers to its paper.
ServerInv ==
  \A r \in Rooms :
    /\ started[r] <= now
    /\ phase[r] # "absent" => EndOf(r) <= MaxTime
    /\ paper[r] # {} => phase[r] # "absent"
    /\ phase[r] = "graded" => result[r] = paper[r]

\* A submission answers the questions of its own exam's paper.
SubmissionsMatch ==
  \A m \in requests :
    m.kind = "SUBMIT_EXAM" => paper[m.room] # {} /\ m.questions = paper[m.room]

\* The reply with a paper is the only one, and its exam is not on screen yet.
PapersMatch ==
  \A m \in replies : m.kind = "GET_EXAM_PAPER" =>
    /\ paper[m.room] # {} /\ m.questions = paper[m.room]
    /\ exam # m.room

\* A timer status is never early: what remains of the exam is no more.
StatusNotEarly ==
  \A m \in replies : m.kind = "GET_TIMER_STATUS" =>
    phase[m.room] # "absent" /\ now + m.remaining >= EndOf(m.room)

\* The questions on screen are those of the exam on screen.
ScreenMatches ==
  /\ exam # NoRoom => paper[exam] # {} /\ DOMAIN sheet = paper[exam]
  /\ exam = NoRoom => sheet = NoSheet

\* The countdown is early by at most the second that the next beat takes off.
CountdownNotEarly ==
  of # NoRoom =>
    /\ phase[of] # "absent" /\ left \in Nat
    /\ now + left + 1 >= EndOf(of) + (IF due THEN 1 ELSE 0)

IInv ==
  /\ TypeOK
  /\ ServerInv
  /\ SubmissionsMatch
  /\ PapersMatch
  /\ StatusNotEarly
  /\ ScreenMatches
  /\ CountdownNotEarly

-----------------------------------------------------------------------------
(* The operators of the model. *)

LEMMA SecondsTyped ==
  /\ \A r \in Rooms : Duration[r] \in Nat /\ 0 .. Duration[r] \subseteq Seconds
  /\ Seconds \subseteq Nat
  /\ \A n \in Seconds : n > 1 => n - 1 \in Seconds
<1>1. ASSUME NEW r \in Rooms
      PROVE  Duration[r] \in Nat /\ 0 .. Duration[r] \subseteq Seconds
  BY TimesAssumption DEF Seconds
<1>2. ASSUME NEW n \in Seconds
      PROVE  n \in Nat /\ (n > 1 => n - 1 \in Seconds)
  <2>1. PICK r \in Rooms : n \in 0 .. Duration[r]
    BY DEF Seconds
  <2>2. Duration[r] \in Nat
    BY <1>1
  <2>3. n \in Nat /\ (n > 1 => n - 1 \in 0 .. Duration[r])
    BY <2>1, <2>2
  <2> QED
    BY <1>1, <2>3
<1> QED
  BY <1>1, <1>2

\* A paper that can be issued has questions, and is of the papers.
LEMMA PapersTyped ==
  \A r \in Rooms : \A p \in PapersOf[r] : p \in Papers /\ p # {}
BY PapersAssumption DEF Papers

\* Blank sheets, and sheets with another answer, are sheets.
LEMMA SheetsTyped ==
  /\ DOMAIN NoSheet = {}
  /\ \A p \in Papers : [q \in p |-> Blank] \in Sheets
  /\ \A s \in Sheets \cup {NoSheet}, o \in Options : \A q \in DOMAIN s :
       [s EXCEPT ![q] = o] \in Sheets /\ DOMAIN [s EXCEPT ![q] = o] = DOMAIN s
<1>1. DOMAIN NoSheet = {}
  BY DEF NoSheet
<1>2. \A p \in Papers : [q \in p |-> Blank] \in Sheets
  BY DEF Sheets
<1>3. ASSUME NEW s \in Sheets \cup {NoSheet}, NEW o \in Options, NEW q \in DOMAIN s
      PROVE  [s EXCEPT ![q] = o] \in Sheets /\ DOMAIN [s EXCEPT ![q] = o] = DOMAIN s
  <2>1. PICK p \in Papers : s \in [p -> Options \cup {Blank}]
    BY <1>1, <1>3 DEF Sheets
  <2>2. [s EXCEPT ![q] = o] \in [p -> Options \cup {Blank}]
    BY <2>1
  <2> QED
    BY <2>1, <2>2 DEF Sheets
<1> QED
  BY <1>1, <1>2, <1>3

-----------------------------------------------------------------------------
(* The server. *)

ServerTyped ==
  /\ phase \in [Rooms -> {"absent", "open", "graded"}]
  /\ paper \in [Rooms -> Papers \cup {{}}]
  /\ result \in [Rooms -> Papers \cup {{}}]
  /\ started \in [Rooms -> 0 .. MaxTime]
  /\ now \in 0 .. MaxTime

\* The clock does not go back; an exam that was started keeps its start, and a
\* paper that was issued is not changed.
Kept ==
  /\ now <= now'
  /\ \A r \in Rooms :
       /\ phase[r] # "absent" => phase'[r] # "absent" /\ EndOf(r)' = EndOf(r)
       /\ paper[r] # {} => paper'[r] = paper[r]

LEMMA InitInv == Init => IInv
<1> SUFFICES ASSUME Init PROVE IInv
  OBVIOUS
<1>1. /\ phase \in [Rooms -> {"absent", "open", "graded"}]
      /\ paper \in [Rooms -> Papers \cup {{}}] /\ result \in [Rooms -> Papers \cup {{}}]
  BY DEF Init, Lifecycle!Init
<1>2. started \in [Rooms -> 0 .. MaxTime] /\ now \in 0 .. MaxTime
  BY TimesAssumption DEF Init
<1>3. failures \in 0 .. MaxFailures /\ leaked \in Nat /\ left \in {Null} \cup Seconds
  BY TimesAssumption DEF Init
<1>4. TypeOK
  BY <1>1, <1>2, <1>3 DEF Init, TypeOK
<1>5. \A r \in Rooms : phase[r] = "absent" /\ paper[r] = {} /\ started[r] = 0 /\ now = 0
  BY DEF Init, Lifecycle!Init
<1> QED
  BY <1>4, <1>5 DEF Init, IInv, ServerInv, SubmissionsMatch, PapersMatch, StatusNotEarly,
                    ScreenMatches, CountdownNotEarly

\* An exam is started now, or was started before.
LEMMA StartStep ==
  ASSUME ServerTyped, ServerInv, NEW r \in Rooms,
         now + Duration[r] <= MaxTime, started' = StartAt(r), now' = now
  PROVE  /\ started' \in [Rooms -> 0 .. MaxTime]
         /\ \A s \in Rooms : started'[s] <= now /\ (s # r => started'[s] = started[s])
         /\ phase[r] # "absent" => started'[r] = started[r]
         /\ EndOf(r)' <= MaxTime
<1>1. started' = IF phase[r] = "absent" THEN [started EXCEPT ![r] = now] ELSE started
  BY DEF StartAt
<1>2. CASE phase[r] = "absent"
  <2>1. started' = [started EXCEPT ![r] = now]
    BY <1>1, <1>2
  <2> QED
    BY <1>2, <2>1 DEF ServerTyped, ServerInv, EndOf
<1>3. CASE phase[r] # "absent"
  BY <1>1, <1>3 DEF ServerTyped, ServerInv, EndOf
<1> QED
  BY <1>2, <1>3

LEMMA GetPaperStep ==
  ASSUME ServerTyped, ServerInv, NEW m, m.room \in Rooms, GetExamPaper(m)
  PROVE  /\ ServerTyped' /\ ServerInv' /\ Kept
         /\ paper[m.room] = {} /\ paper'[m.room] \in PapersOf[m.room]
<1> DEFINE r == m.room
<1>1. /\ now + Duration[r] <= MaxTime /\ now' = now /\ started' = StartAt(r)
      /\ phase[r] \in {"absent", "open"} /\ paper[r] = {}
      /\ phase' = [phase EXCEPT ![r] = "open"] /\ result' = result
      /\ \E p \in (Papers \cup {{}}) \ {{}} : paper' = [paper EXCEPT ![r] = p]
      /\ paper'[r] \in PapersOf[r]
  BY DEF GetExamPaper, Lifecycle!Issue
<1>2. PICK p \in Papers : paper' = [paper EXCEPT ![r] = p]
  BY <1>1
<1>3. /\ started' \in [Rooms -> 0 .. MaxTime]
      /\ \A s \in Rooms : started'[s] <= now /\ (s # r => started'[s] = started[s])
      /\ phase[r] # "absent" => started'[r] = started[r]
      /\ EndOf(r)' <= MaxTime
  BY <1>1, StartStep
<1>4. ServerTyped'
  BY <1>1, <1>2, <1>3 DEF ServerTyped
<1>5. \A s \in Rooms :
        /\ phase'[s] = IF s = r THEN "open" ELSE phase[s]
        /\ paper'[s] = IF s = r THEN p ELSE paper[s]
        /\ s # r \/ phase[s] # "absent" => EndOf(s)' = EndOf(s)
  BY <1>1, <1>2, <1>3 DEF ServerTyped, EndOf
<1>6. ServerInv'
  <2> SUFFICES ASSUME NEW s \in Rooms
               PROVE  /\ started'[s] <= now'
                      /\ phase'[s] # "absent" => EndOf(s)' <= MaxTime
                      /\ paper'[s] # {} => phase'[s] # "absent"
                      /\ phase'[s] = "graded" => result'[s] = paper'[s]
    BY DEF ServerInv
  <2>1. CASE s = r
    BY <1>1, <1>3, <1>5, <2>1
  <2>2. CASE s # r
    BY <1>1, <1>3, <1>5, <2>2 DEF ServerInv
  <2> QED
    BY <2>1, <2>2
<1>7. Kept
  BY <1>1, <1>5 DEF Kept, ServerTyped
<1> QED
  BY <1>1, <1>4, <1>6, <1>7

LEMMA LosePaperStep ==
  ASSUME ServerTyped, ServerInv, NEW m, m.room \in Rooms, LosePaper(m)
  PROVE  ServerTyped' /\ ServerInv' /\ Kept
<1> DEFINE r == m.room
<1>1. /\ now + Duration[r] <= MaxTime /\ now' = now /\ started' = StartAt(r)
      /\ phase[r] = "absent" /\ phase' = [phase EXCEPT ![r] = "open"]
      /\ UNCHANGED <<paper, result>>
  BY DEF LosePaper, Lifecycle!Open
<1>2. /\ started' \in [Rooms -> 0 .. MaxTime]
      /\ \A s \in Rooms : started'[s] <= now /\ (s # r => started'[s] = started[s])
      /\ EndOf(r)' <= MaxTime
  BY <1>1, StartStep
<1>3. ServerTyped'
  BY <1>1, <1>2 DEF ServerTyped
<1>4. \A s \in Rooms :
        /\ phase'[s] = IF s = r THEN "open" ELSE phase[s]
        /\ s # r => EndOf(s)' = EndOf(s)
  BY <1>1, <1>2 DEF ServerTyped, EndOf
<1>5. ServerInv'
  BY <1>1, <1>2, <1>4 DEF ServerInv
<1>6. Kept
  BY <1>1, <1>4 DEF Kept, ServerTyped
<1> QED
  BY <1>3, <1>5, <1>6

LEMMA SubmitStep ==
  ASSUME ServerTyped, ServerInv, NEW m, m.questions \in Papers,
         m.questions = paper[m.room], SubmitExam(m)
  PROVE  ServerTyped' /\ ServerInv' /\ Kept
<1> DEFINE r == m.room
<1>1. /\ r \in Rooms /\ result' = [result EXCEPT ![r] = m.questions]
      /\ phase[r] = "open" /\ UNCHANGED <<paper, started, now>>
      /\ phase' = [s \in Rooms |-> IF s \in {r} THEN "graded" ELSE phase[s]]
  BY DEF SubmitExam, Lifecycle!Grade
<1>2. ServerTyped'
  BY <1>1 DEF ServerTyped
<1>3. \A s \in Rooms : EndOf(s)' = EndOf(s)
  BY <1>1 DEF EndOf
<1>4. ServerInv'
  BY <1>1, <1>3 DEF ServerInv, ServerTyped
<1>5. Kept
  BY <1>1, <1>3 DEF Kept, ServerTyped
<1> QED
  BY <1>2, <1>4, <1>5

LEMMA ServerSame ==
  ASSUME ServerTyped, ServerInv, UNCHANGED server, now' \in {now, now + 1},
         now' \in 0 .. MaxTime
  PROVE  ServerTyped' /\ ServerInv' /\ Kept
<1>1. ServerTyped' /\ now <= now'
  BY DEF ServerTyped, server
<1>2. \A s \in Rooms : EndOf(s)' = EndOf(s)
  BY DEF EndOf, server
<1> QED
  BY <1>1, <1>2 DEF ServerTyped, ServerInv, Kept, server

\* What a step does to the server's tables and clock.
LEMMA ServerStep ==
  ASSUME IInv, [Next]_vars
  PROVE  ServerTyped' /\ ServerInv' /\ Kept
<1>1. ServerTyped /\ ServerInv
  BY DEF IInv, TypeOK, ServerTyped
<1>2. \A m \in requests :
        /\ m.kind = "GET_EXAM_PAPER" => m.room \in Rooms
        /\ m.kind = "SUBMIT_EXAM" => m.questions \in Papers /\ m.questions = paper[m.room]
  BY DEF IInv, TypeOK, Requests, SubmissionsMatch
<1>3. CASE \E m \in requests : GetExamPaper(m)
  BY <1>1, <1>2, <1>3, GetPaperStep DEF GetExamPaper, Serve
<1>4. CASE \E m \in requests : LosePaper(m)
  BY <1>1, <1>2, <1>4, LosePaperStep DEF LosePaper, Serve
<1>5. CASE \E m \in requests : SubmitExam(m)
  <2>1. PICK m \in requests : SubmitExam(m)
    BY <1>5
  <2>2. m.questions \in Papers /\ m.questions = paper[m.room]
    BY <1>2, <2>1 DEF SubmitExam, Serve
  <2> QED
    BY <1>1, <2>1, <2>2, SubmitStep
<1>6. CASE Tick
  <2>1. UNCHANGED server
    BY <1>6 DEF Tick
  <2>2. now \in 0 .. MaxTime /\ MaxTime \in Nat
    BY <1>1, TimesAssumption DEF ServerTyped
  <2>3. now' \in 0 .. MaxTime /\ now' \in {now, now + 1}
    BY <1>6, <2>2 DEF Tick
  <2> QED
    BY <1>1, <2>1, <2>3, ServerSame
<1>7. CASE UNCHANGED <<server, now>>
  BY <1>1, <1>7, ServerSame DEF ServerTyped
<1> QED
  BY <1>3, <1>4, <1>5, <1>6, <1>7
  DEF Next, Click, Select, Choose, ClickJoin, ClickGetPaper, ClickSubmit, Timer, Beat, Sync,
      SyncStops, Trouble, Fail, Disconnect, Reconnect, Reload, Handle, JoinRoom,
      GetTimerStatus, Refuse, Arrive, ArriveJoin, ArrivePaper, ArriveTimer, ArriveSubmit, vars

-----------------------------------------------------------------------------
(* What is under way. *)

\* A submission that is sent is the one of the exam on screen.
LEMMA RequestStep ==
  ASSUME IInv, [Next]_vars
  PROVE  \A m \in requests' :
           \/ m \in requests
           \/ m \in Requests /\ (m.kind = "SUBMIT_EXAM" => exam # NoRoom /\ m = Submission)
<1>1. TypeOK /\ ScreenMatches
  BY DEF IInv
<1>2. exam # NoRoom => Submission \in Requests
  <2>1. exam # NoRoom => exam \in Rooms /\ DOMAIN sheet \in Papers
    BY <1>1 DEF TypeOK, ScreenMatches
  <2> QED
    BY <2>1 DEF Submission, Requests
<1>3. \A r \in Rooms : \A k \in {"JOIN_ROOM", "GET_EXAM_PAPER", "GET_TIMER_STATUS"} :
        Request(k, r) \in Requests /\ Request(k, r).kind = k
  BY DEF Request, Requests
<1>4. CASE ClickJoin \/ ClickGetPaper
  <2>1. selected \in Rooms
    BY <1>1, <1>4 DEF TypeOK, ClickJoin, ClickGetPaper
  <2> QED
    BY <1>3, <1>4, <2>1 DEF ClickJoin, ClickGetPaper, Send
<1>5. CASE ClickSubmit
  BY <1>2, <1>5 DEF ClickSubmit, Send
<1>6. AutoSubmitExam => \A m \in requests' : m \in requests \/ (m = Submission /\ exam # NoRoom)
  BY DEF AutoSubmitExam, CanAutoSubmit, Send
<1>7. CASE Beat
  BY <1>2, <1>6, <1>7 DEF Beat, TimeUp
<1>8. CASE Sync
  <2>1. exam \in Rooms
    BY <1>1, <1>8 DEF TypeOK, Sync, ExamRuns
  <2> QED
    BY <1>3, <1>8, <2>1 DEF Sync, Send
<1>9. CASE \E m \in replies : ArrivePaper(m)
  <2>1. PICK m \in replies : ArrivePaper(m)
    BY <1>9
  <2>2. m.room \in Rooms
    BY <1>1, <2>1 DEF TypeOK, Replies, ArrivePaper, Take
  <2> QED
    BY <1>3, <2>1, <2>2 DEF ArrivePaper, StartExamTimer, Send
<1>10. CASE \E m \in replies : ArriveTimer(m)
  BY <1>2, <1>6, <1>10 DEF ArriveTimer, TimeUp
<1>11. CASE requests' \subseteq requests
  BY <1>11
<1>12. Timer \/ (\E m \in replies : Arrive(m)) =>
         \/ Beat \/ Sync \/ (\E m \in replies : ArrivePaper(m) \/ ArriveTimer(m))
         \/ requests' \subseteq requests
  BY DEF Timer, SyncStops, Arrive, ArriveJoin, ArriveSubmit, wire
<1>13. Trouble \/ Tick \/ (\E m \in requests : Handle(m)) => requests' \subseteq requests
  BY DEF Trouble, Fail, LosePaper, Disconnect, Reconnect, Reload, Tick, Handle, JoinRoom,
         GetExamPaper, GetTimerStatus, SubmitExam, Refuse, Serve, wire
<1>14. Click => \/ ClickJoin \/ ClickGetPaper \/ ClickSubmit \/ requests' \subseteq requests
  BY DEF Click, Select, Choose, wire
<1> QED
  BY <1>4, <1>5, <1>7, <1>8, <1>9, <1>10, <1>11, <1>12, <1>13, <1>14 DEF Next, vars, wire

\* A paper that is handed out is the one just issued, and a timer status tells
\* what remains now.
LEMMA ReplyStep ==
  ASSUME IInv, [Next]_vars
  PROVE  \A m \in replies' :
           \/ m \in replies
           \/ /\ m \in Replies /\ UNCHANGED page
              /\ m.kind = "GET_EXAM_PAPER" =>
                   /\ paper[m.room] = {} /\ paper'[m.room] # {}
                   /\ m.questions = paper'[m.room]
              /\ m.kind = "GET_TIMER_STATUS" =>
                   phase[m.room] # "absent" /\ now + m.remaining >= EndOf(m.room)
<1>1. TypeOK /\ ServerTyped /\ ServerInv
  BY DEF IInv, TypeOK, ServerTyped
<1>2. CASE \E m \in requests : JoinRoom(m)
  <2>1. PICK m \in requests : JoinRoom(m)
    BY <1>2
  <2>2. m.room \in Rooms /\ UNCHANGED page
    BY <1>1, <2>1 DEF TypeOK, Requests, JoinRoom, Serve
  <2>3. [kind |-> "JOIN_ROOM", room |-> m.room] \in Replies
    BY <2>2 DEF Replies
  <2> QED
    BY <2>1, <2>2, <2>3 DEF JoinRoom, Reply
<1>3. CASE \E m \in requests : GetExamPaper(m)
  <2>1. PICK m \in requests : GetExamPaper(m)
    BY <1>3
  <2>2. m.room \in Rooms /\ UNCHANGED page
    BY <1>1, <2>1 DEF TypeOK, Requests, GetExamPaper, Serve
  <2>3. paper[m.room] = {} /\ paper'[m.room] \in Papers /\ paper'[m.room] # {}
    BY <1>1, <2>1, <2>2, GetPaperStep, PapersTyped
  <2> DEFINE reply == [kind |-> "GET_EXAM_PAPER", room |-> m.room,
                       questions |-> paper'[m.room]]
  <2>4. reply \in Replies
    BY <2>2, <2>3 DEF Replies
  <2>5. replies' \subseteq replies \cup {reply}
    BY <2>1 DEF GetExamPaper, Reply
  <2> QED
    BY <2>2, <2>3, <2>4, <2>5
<1>4. CASE \E m \in requests : GetTimerStatus(m)
  <2>1. PICK m \in requests : GetTimerStatus(m)
    BY <1>4
  <2>2. m.room \in Rooms /\ UNCHANGED page /\ phase[m.room] # "absent"
    BY <1>1, <2>1 DEF TypeOK, Requests, GetTimerStatus, Serve
  <2>3. /\ started[m.room] \in Nat /\ Duration[m.room] \in Nat /\ now \in Nat
        /\ started[m.room] <= now
    BY <1>1, <2>2, SecondsTyped, TimesAssumption DEF ServerTyped, ServerInv
  <2>4. Remaining(m.room) \in 0 .. Duration[m.room] /\ now + Remaining(m.room) >= EndOf(m.room)
    BY <2>3 DEF Remaining, EndOf
  <2> DEFINE reply == [kind |-> "GET_TIMER_STATUS", room |-> m.room,
                       remaining |-> Remaining(m.room)]
  <2>5. reply \in Replies
    BY <2>2, <2>4, SecondsTyped DEF Replies
  <2>6. replies' \subseteq replies \cup {reply}
    BY <2>1 DEF GetTimerStatus, Reply
  <2> QED
    BY <2>2, <2>4, <2>5, <2>6
<1>5. CASE \E m \in requests : SubmitExam(m)
  <2>1. PICK m \in requests : SubmitExam(m)
    BY <1>5
  <2>2. m.room \in Rooms /\ UNCHANGED page
    BY <2>1 DEF SubmitExam
  <2>3. [kind |-> "SUBMIT_EXAM", room |-> m.room] \in Replies
    BY <2>2 DEF Replies
  <2> QED
    BY <2>1, <2>2, <2>3 DEF SubmitExam, Reply
<1>6. CASE replies' \subseteq replies
  BY <1>6
<1>7. Click \/ Timer \/ Trouble \/ Tick \/ (\E m \in replies : Arrive(m)) =>
        replies' \subseteq replies
  BY DEF Click, Select, Choose, ClickJoin, ClickGetPaper, ClickSubmit, Timer, Beat, Sync,
         SyncStops, Trouble, Fail, LosePaper, Disconnect, Reconnect, Reload, Tick, Arrive,
         ArriveJoin, ArrivePaper, ArriveTimer, ArriveSubmit, Take, wire
<1> QED
  BY <1>2, <1>3, <1>4, <1>5, <1>6, <1>7 DEF Next, Handle, Refuse, vars, wire

-----------------------------------------------------------------------------
(* The page. *)

\* What a step does to the exam on screen.
LEMMA ScreenStep ==
  ASSUME [Next]_vars
  PROVE  \/ UNCHANGED <<exam, sheet>>
         \/ /\ exam' = exam
            /\ \E q \in DOMAIN sheet, o \in Options : sheet' = [sheet EXCEPT ![q] = o]
         \/ exam' = NoRoom /\ sheet' = NoSheet
         \/ \E m \in replies :
              /\ m.kind = "GET_EXAM_PAPER" /\ replies' = replies \ {m}
              /\ exam' = m.room /\ sheet' = [q \in m.questions |-> Blank]
<1>1. CASE \E p \in Papers : \E q \in p, o \in Options : Choose(q, o)
  BY <1>1 DEF Choose
<1>2. CASE \E m \in replies : Arrive(m)
  BY <1>2 DEF Arrive, ArriveJoin, ArrivePaper, ArriveTimer, ArriveSubmit, Take
<1>3. Trouble => UNCHANGED <<exam, sheet>> \/ (exam' = NoRoom /\ sheet' = NoSheet)
  BY DEF Trouble, Fail, LosePaper, Disconnect, Reconnect, Reload, page, screen
<1>4. Timer \/ Tick \/ (\E m \in requests : Handle(m)) => UNCHANGED <<exam, sheet>>
  BY DEF Timer, Beat, Sync, SyncStops, Tick, Handle, JoinRoom, GetExamPaper, GetTimerStatus,
         SubmitExam, Refuse, page, screen
<1>5. Click => \/ \E p \in Papers : \E q \in p, o \in Options : Choose(q, o)
               \/ UNCHANGED <<exam, sheet>>
  BY DEF Click, Select, ClickJoin, ClickGetPaper, ClickSubmit, page, screen
<1> QED
  BY <1>1, <1>2, <1>3, <1>4, <1>5 DEF Next, vars, page, screen

\* What a step does to the countdown: it is stopped or starts anew, takes the
\* time of a status, a second passes, the second is taken off, or nothing.
LEMMA CountdownStep ==
  ASSUME [Next]_vars
  PROVE  \/ of' = NoRoom /\ left' = Null /\ due' = FALSE
         \/ \E m \in replies :
              /\ m.kind = "GET_TIMER_STATUS" /\ due' = due /\ now' = now
              /\ \/ of' = m.room /\ left' = m.remaining
                 \/ of' = NoRoom /\ left' = Null
         \/ /\ due /\ due' = FALSE /\ of' = of /\ now' = now
            /\ left' = IF left > 1 THEN left - 1 ELSE left
         \/ Tick
         \/ UNCHANGED <<of, left, due>>
<1>1. CASE Timer
  BY <1>1 DEF Timer, Beat, TimeUp, StopTimers, Sync, SyncStops, page, timers, countdown
<1>2. CASE \E m \in replies : Arrive(m)
  BY <1>2 DEF Arrive, ArriveJoin, ArrivePaper, ArriveTimer, ArriveSubmit, TimeUp, StopTimers,
              StartExamTimer, Take
<1>3. Trouble => \/ of' = NoRoom /\ left' = Null /\ due' = FALSE
                 \/ UNCHANGED <<of, left, due>>
  BY DEF Trouble, Fail, LosePaper, Disconnect, Reconnect, Reload, StopTimers, page, timers,
         countdown
<1>4. Click \/ (\E m \in requests : Handle(m)) => UNCHANGED <<of, left, due>>
  BY DEF Click, Select, Choose, ClickJoin, ClickGetPaper, ClickSubmit, Handle, JoinRoom,
         GetExamPaper, GetTimerStatus, SubmitExam, Refuse, page, timers, countdown
<1> QED
  BY <1>1, <1>2, <1>3, <1>4 DEF Next, vars, page, timers, countdown

\* The requests and the replies stay typed.
LEMMA WireTyped ==
  ASSUME IInv, [Next]_vars
  PROVE  /\ requests' \subseteq Requests /\ replies' \subseteq Replies
         /\ online' \in BOOLEAN /\ failures' \in 0 .. MaxFailures
<1>1. /\ requests \subseteq Requests /\ replies \subseteq Replies
      /\ online \in BOOLEAN /\ failures \in 0 .. MaxFailures
  BY DEF IInv, TypeOK
<1>2. requests' \subseteq Requests /\ replies' \subseteq Replies
  BY <1>1, RequestStep, ReplyStep
<1>3. online' \in {online, TRUE, FALSE}
  BY DEF Next, Click, Select, Choose, ClickJoin, ClickGetPaper, ClickSubmit, Timer, Beat, Sync,
         SyncStops, Trouble, Fail, LosePaper, Disconnect, Reconnect, Reload, Tick, Handle,
         JoinRoom, GetExamPaper, GetTimerStatus, SubmitExam, Refuse, Arrive, ArriveJoin,
         ArrivePaper, ArriveTimer, ArriveSubmit, vars, wire
<1>4. failures' = failures \/ (failures < MaxFailures /\ failures' = failures + 1)
  BY DEF Next, Click, Select, Choose, ClickJoin, ClickGetPaper, ClickSubmit, Timer, Beat, Sync,
         SyncStops, Trouble, Fail, LosePaper, Disconnect, Reconnect, Reload, Tick, Handle,
         JoinRoom, GetExamPaper, GetTimerStatus, SubmitExam, Refuse, Arrive, ArriveJoin,
         ArrivePaper, ArriveTimer, ArriveSubmit, vars, wire
<1>5. online' \in BOOLEAN
  BY <1>1, <1>3
<1>6. failures' \in 0 .. MaxFailures
  BY <1>1, <1>4, TimesAssumption
<1> QED
  BY <1>2, <1>5, <1>6

\* So do the rooms the page refers to.
LEMMA LobbyTyped ==
  ASSUME TypeOK, [Next]_vars
  PROVE  {selected, joined}' \subseteq Rooms \cup {NoRoom}
<1>1. /\ selected \in Rooms \cup {NoRoom} /\ joined \in Rooms \cup {NoRoom}
      /\ \A m \in replies : m.kind = "JOIN_ROOM" => m.room \in Rooms
  BY DEF TypeOK, Replies
<1>2. /\ selected' \in Rooms \cup {selected, NoRoom}
      /\ joined' \in {m.room : m \in {n \in replies : n.kind = "JOIN_ROOM"}} \cup {joined, NoRoom}
  BY DEF Next, Click, Select, Choose, ClickJoin, ClickGetPaper, ClickSubmit, Timer, Beat, Sync,
         SyncStops, Trouble, Fail, LosePaper, Disconnect, Reconnect, Reload, Tick, Handle,
         JoinRoom, GetExamPaper, GetTimerStatus, SubmitExam, Refuse, Arrive, ArriveJoin,
         ArrivePaper, ArriveTimer, ArriveSubmit, Take, vars, page, lobby
<1> QED
  BY <1>1, <1>2

\* And what is on screen.
LEMMA ScreenTyped ==
  ASSUME IInv, [Next]_vars
  PROVE  exam' \in Rooms \cup {NoRoom} /\ sheet' \in Sheets \cup {NoSheet}
<1>1. /\ exam \in Rooms \cup {NoRoom} /\ sheet \in Sheets \cup {NoSheet}
      /\ \A m \in replies : m.kind = "GET_EXAM_PAPER" =>
           m.room \in Rooms /\ m.questions \in Papers
  BY DEF IInv, TypeOK, Replies
<1>2. ASSUME \E q \in DOMAIN sheet, o \in Options : sheet' = [sheet EXCEPT ![q] = o]
      PROVE  sheet' \in Sheets
  <2>1. PICK q \in DOMAIN sheet, o \in Options : sheet' = [sheet EXCEPT ![q] = o]
    BY <1>2
  <2>2. [sheet EXCEPT ![q] = o] \in Sheets
    BY <1>1, <2>1, SheetsTyped
  <2> QED
    BY <2>1, <2>2
<1>3. CASE \E m \in replies :
             /\ m.kind = "GET_EXAM_PAPER"
             /\ exam' = m.room /\ sheet' = [q \in m.questions |-> Blank]
  BY <1>1, <1>3, SheetsTyped
<1>4. exam' \in Rooms \cup {NoRoom}
  BY <1>1, ScreenStep
<1>5. sheet' \in Sheets \cup {NoSheet}
  BY <1>1, <1>2, <1>3, ScreenStep
<1> QED
  BY <1>4, <1>5

\* And the countdown.
LEMMA CountdownTyped ==
  ASSUME TypeOK, [Next]_vars
  PROVE  of' \in Rooms \cup {NoRoom} /\ left' \in {Null} \cup Seconds
<1>1. /\ of \in Rooms \cup {NoRoom} /\ left \in {Null} \cup Seconds
      /\ \A m \in replies : m.kind = "GET_TIMER_STATUS" =>
           m.room \in Rooms /\ m.remaining \in Seconds
  BY DEF TypeOK, Replies
<1>2. (IF left > 1 THEN left - 1 ELSE left) \in {Null} \cup Seconds
  <2>1. CASE left = Null
    BY <2>1 DEF Null
  <2>2. CASE left \in Seconds
    BY <2>2, SecondsTyped
  <2> QED
    BY <1>1, <2>1, <2>2
<1>3. Tick => UNCHANGED <<of, left>>
  BY DEF Tick
<1> QED
  BY <1>1, <1>2, <1>3, CountdownStep

\* And the flags of the timers.
LEMMA FlagsTyped ==
  ASSUME TypeOK, [Next]_vars
  PROVE  /\ autoSubmitted' \in BOOLEAN /\ counting' \in BOOLEAN
         /\ syncing' \in BOOLEAN /\ due' \in BOOLEAN /\ leaked' \in Nat
<1>1. /\ autoSubmitted \in BOOLEAN /\ counting \in BOOLEAN
      /\ syncing \in BOOLEAN /\ due \in BOOLEAN /\ leaked \in Nat
  BY DEF TypeOK
<1>2. /\ autoSubmitted' \in {autoSubmitted, TRUE, FALSE}
      /\ counting' \in {counting, TRUE, FALSE}
      /\ syncing' \in {syncing, TRUE, FALSE}
      /\ due' \in {due, counting, TRUE, FALSE}
  BY DEF Next, Click, Select, Choose, ClickJoin, ClickGetPaper, ClickSubmit, Timer, Beat, Sync,
         SyncStops, Trouble, Fail, LosePaper, Disconnect, Reconnect, Reload, Tick, Handle,
         JoinRoom, GetExamPaper, GetTimerStatus, SubmitExam, Refuse, Arrive, ArriveJoin,
         ArrivePaper, ArriveTimer, ArriveSubmit, TimeUp, StopTimers, StartExamTimer,
         AutoSubmitExam, vars, page, screen, timers, countdown
<1>3. \/ leaked' = leaked \/ leaked' = leaked + 1 \/ leaked' = 0
      \/ leaked > 0 /\ leaked' = leaked - 1
  BY DEF Next, Click, Select, Choose, ClickJoin, ClickGetPaper, ClickSubmit, Timer, Beat, Sync,
         SyncStops, Trouble, Fail, LosePaper, Disconnect, Reconnect, Reload, Tick, Handle,
         JoinRoom, GetExamPaper, GetTimerStatus, SubmitExam, Refuse, Arrive, ArriveJoin,
         ArrivePaper, ArriveTimer, ArriveSubmit, StartExamTimer, vars, page, timers
<1>4. leaked' \in Nat
  BY <1>1, <1>3
<1> QED
  BY <1>1, <1>2, <1>4

LEMMA NextTyped == IInv /\ [Next]_vars => TypeOK'
<1> SUFFICES ASSUME IInv, [Next]_vars PROVE TypeOK'
  OBVIOUS
<1>1. TypeOK
  BY DEF IInv
<1>2. ServerTyped'
  BY ServerStep
<1> QED
  BY <1>1, <1>2, WireTyped, LobbyTyped, ScreenTyped, CountdownTyped, FlagsTyped
  DEF TypeOK, ServerTyped

-----------------------------------------------------------------------------
(* Submissions, papers and times stay with their exams. *)

LEMMA NextSubmissionsMatch == IInv /\ [Next]_vars => SubmissionsMatch'
<1> SUFFICES ASSUME IInv, [Next]_vars, NEW m \in requests', m.kind = "SUBMIT_EXAM"
             PROVE  paper'[m.room] # {} /\ m.questions = paper'[m.room]
  BY DEF SubmissionsMatch
<1>1. \A r \in Rooms : paper[r] # {} => paper'[r] = paper[r]
  BY ServerStep DEF Kept
<1>2. m \in requests \/ (exam # NoRoom /\ m = Submission)
  BY RequestStep
<1>3. CASE m \in requests
  <2>1. m.room \in Rooms /\ paper[m.room] # {} /\ m.questions = paper[m.room]
    BY <1>3 DEF IInv, TypeOK, Requests, SubmissionsMatch
  <2> QED
    BY <1>1, <2>1
<1>4. CASE exam # NoRoom /\ m = Submission
  <2>1. m.room = exam /\ m.questions = DOMAIN sheet /\ exam \in Rooms
    BY <1>4 DEF Submission, IInv, TypeOK
  <2>2. paper[exam] # {} /\ DOMAIN sheet = paper[exam]
    BY <1>4 DEF IInv, ScreenMatches
  <2> QED
    BY <1>1, <2>1, <2>2
<1> QED
  BY <1>2, <1>3, <1>4

\* Two replies with papers of the same exam are one.
LEMMA OneReply ==
  ASSUME IInv, NEW m \in replies, NEW n \in replies,
         m.kind = "GET_EXAM_PAPER", n.kind = "GET_EXAM_PAPER", m.room = n.room
  PROVE  m = n
<1>1. /\ m \in [kind : {"GET_EXAM_PAPER"}, room : Rooms, questions : Papers]
      /\ n \in [kind : {"GET_EXAM_PAPER"}, room : Rooms, questions : Papers]
  BY DEF IInv, TypeOK, Replies
<1>2. m.questions = n.questions
  BY DEF IInv, PapersMatch
<1> QED
  BY <1>1, <1>2

LEMMA NextPapersMatch == IInv /\ [Next]_vars => PapersMatch'
<1> SUFFICES ASSUME IInv, [Next]_vars, NEW m \in replies', m.kind = "GET_EXAM_PAPER"
             PROVE  paper'[m.room] # {} /\ m.questions = paper'[m.room] /\ exam' # m.room
  BY DEF PapersMatch
<1>1. \A r \in Rooms : paper[r] # {} => paper'[r] = paper[r]
  BY ServerStep DEF Kept
<1>2. CASE m \in replies
  <2>1. m.room \in Rooms
    BY <1>2 DEF IInv, TypeOK, Replies
  <2>2. paper[m.room] # {} /\ m.questions = paper[m.room] /\ exam # m.room
    BY <1>2 DEF IInv, PapersMatch
  <2>3. exam' # m.room
    <3>1. CASE exam' \in {exam, NoRoom}
      BY <2>1, <2>2, <3>1, RoomsAssumption
    <3>2. CASE \E n \in replies :
                 /\ n.kind = "GET_EXAM_PAPER" /\ replies' = replies \ {n}
                 /\ exam' = n.room
      BY <1>2, <3>2, OneReply
    <3> QED
      BY <3>1, <3>2, ScreenStep
  <2> QED
    BY <1>1, <2>1, <2>2, <2>3
<1>3. CASE m \notin replies
  <2>1. /\ m \in Replies /\ UNCHANGED page
        /\ paper[m.room] = {} /\ paper'[m.room] # {} /\ m.questions = paper'[m.room]
    BY <1>3, ReplyStep
  <2>2. m.room \in Rooms
    BY <2>1 DEF Replies
  <2>3. exam # m.room
    BY <2>1, <2>2, RoomsAssumption DEF IInv, ScreenMatches
  <2> QED
    BY <2>1, <2>3 DEF page, screen
<1> QED
  BY <1>2, <1>3

LEMMA TimesTyped ==
  ASSUME TypeOK, NEW r \in Rooms
  PROVE  EndOf(r) \in Nat /\ now \in Nat
BY TimesAssumption, SecondsTyped DEF TypeOK, EndOf

LEMMA NextStatusNotEarly == IInv /\ [Next]_vars => StatusNotEarly'
<1> SUFFICES ASSUME IInv, [Next]_vars, NEW m \in replies', m.kind = "GET_TIMER_STATUS"
             PROVE  phase'[m.room] # "absent" /\ now' + m.remaining >= EndOf(m.room)'
  BY DEF StatusNotEarly
<1>1. /\ now <= now' /\ now \in Nat /\ now' \in Nat
      /\ \A r \in Rooms : phase[r] # "absent" => phase'[r] # "absent" /\ EndOf(r)' = EndOf(r)
      /\ \A r \in Rooms : EndOf(r) \in Nat
  BY ServerStep, TimesTyped, TimesAssumption DEF Kept, IInv, TypeOK, ServerTyped
<1>2. m \in Replies
  BY ReplyStep DEF IInv, TypeOK
<1>3. m.room \in Rooms /\ m.remaining \in Nat
  BY <1>2, SecondsTyped DEF Replies
<1>4. phase[m.room] # "absent" /\ now + m.remaining >= EndOf(m.room)
  BY ReplyStep DEF IInv, StatusNotEarly
<1> QED
  BY <1>1, <1>3, <1>4

LEMMA NextScreenMatches == IInv /\ [Next]_vars => ScreenMatches'
<1> SUFFICES ASSUME IInv, [Next]_vars PROVE ScreenMatches'
  OBVIOUS
<1>1. TypeOK /\ ScreenMatches /\ PapersMatch
  BY DEF IInv
<1>2. \A r \in Rooms : paper[r] # {} => paper'[r] = paper[r]
  BY ServerStep DEF Kept
<1>3. CASE UNCHANGED <<exam, sheet>>
  BY <1>1, <1>2, <1>3 DEF ScreenMatches, TypeOK
<1>4. CASE /\ exam' = exam
           /\ \E q \in DOMAIN sheet, o \in Options : sheet' = [sheet EXCEPT ![q] = o]
  <2>1. DOMAIN sheet' = DOMAIN sheet /\ DOMAIN sheet # {}
    BY <1>4
  <2>2. exam # NoRoom
    BY <1>1, <2>1, SheetsTyped DEF ScreenMatches
  <2> QED
    BY <1>1, <1>2, <1>4, <2>1, <2>2 DEF ScreenMatches, TypeOK
<1>5. CASE exam' = NoRoom /\ sheet' = NoSheet
  BY <1>5 DEF ScreenMatches
<1>6. CASE \E m \in replies : /\ m.kind = "GET_EXAM_PAPER"
                              /\ exam' = m.room /\ sheet' = [q \in m.questions |-> Blank]
  <2>1. PICK m \in replies : /\ m.kind = "GET_EXAM_PAPER"
                             /\ exam' = m.room /\ sheet' = [q \in m.questions |-> Blank]
    BY <1>6
  <2>2. m.room \in Rooms /\ paper[m.room] # {} /\ m.questions = paper[m.room]
    BY <1>1, <2>1 DEF TypeOK, Replies, PapersMatch
  <2> QED
    BY <1>2, <2>1, <2>2, RoomsAssumption DEF ScreenMatches
<1> QED
  BY <1>3, <1>4, <1>5, <1>6, ScreenStep

LEMMA NextCountdownNotEarly == IInv /\ [Next]_vars => CountdownNotEarly'
<1> SUFFICES ASSUME IInv, [Next]_vars, NEW r \in Rooms, of' = r
             PROVE  /\ phase'[r] # "absent" /\ left' \in Nat
                    /\ now' + left' + 1 >= EndOf(r)' + (IF due' THEN 1 ELSE 0)
  BY CountdownTyped DEF CountdownNotEarly, EndOf, IInv
<1>1. TypeOK /\ ServerInv /\ StatusNotEarly /\ CountdownNotEarly
  BY DEF IInv
<1>2. /\ now <= now' /\ now \in Nat /\ now' \in Nat
      /\ \A s \in Rooms : phase[s] # "absent" => phase'[s] # "absent" /\ EndOf(s)' = EndOf(s)
      /\ EndOf(r) \in Nat
  BY ServerStep, TimesTyped, TimesAssumption DEF Kept, IInv, TypeOK, ServerTyped
<1>3. CASE \E m \in replies :
             /\ m.kind = "GET_TIMER_STATUS" /\ due' = due /\ now' = now
             /\ of' = m.room /\ left' = m.remaining
  <2>1. PICK m \in replies :
               m.kind = "GET_TIMER_STATUS" /\ r = m.room /\ left' = m.remaining
    BY <1>3
  <2>2. m.remaining \in Nat /\ phase[r] # "absent" /\ now + m.remaining >= EndOf(r)
    BY <1>1, <2>1, SecondsTyped DEF TypeOK, Replies, StatusNotEarly
  <2>3. phase'[r] # "absent" /\ EndOf(r)' = EndOf(r)
    BY <1>2, <2>2
  <2> QED
    BY <1>2, <2>1, <2>2, <2>3
<1>4. ASSUME of = r
      PROVE  /\ phase[r] # "absent" /\ phase'[r] # "absent" /\ EndOf(r)' = EndOf(r)
             /\ left \in Nat
             /\ now + left + 1 >= EndOf(r) + (IF due THEN 1 ELSE 0)
  <2>1. /\ phase[r] # "absent" /\ left \in Nat
        /\ now + left + 1 >= EndOf(r) + (IF due THEN 1 ELSE 0)
    BY <1>1, <1>4, RoomsAssumption DEF CountdownNotEarly
  <2> QED
    BY <1>2, <2>1
<1>5. CASE /\ due /\ due' = FALSE /\ of' = of /\ now' = now
           /\ left' = IF left > 1 THEN left - 1 ELSE left
  BY <1>2, <1>4, <1>5
<1>6. CASE Tick
  <2>1. /\ of' = of /\ left' = left
        /\ now' = IF now < MaxTime THEN now + 1 ELSE now
    BY <1>6 DEF Tick
  <2>2. EndOf(r) <= MaxTime
    BY <1>1, <1>4, <2>1 DEF ServerInv
  <2>3. CASE now < MaxTime
    BY <1>2, <1>4, <2>1, <2>3
  <2>4. CASE ~ (now < MaxTime)
    BY <1>2, <1>4, <2>1, <2>2, <2>4, TimesAssumption
  <2> QED
    BY <2>3, <2>4
<1>7. CASE UNCHANGED <<of, left, due>>
  BY <1>2, <1>4, <1>7
<1>8. of' # NoRoom
  BY RoomsAssumption
<1> QED
  BY <1>3, <1>5, <1>6, <1>7, <1>8, CountdownStep

-----------------------------------------------------------------------------
(* The invariant and what follows from it. *)

\* The inductive invariant holds in every reachable state.
THEOREM Invariance == Spec => []IInv
<1>1. Init => IInv
  BY InitInv
<1>2. IInv /\ [Next]_vars => IInv'
  BY NextTyped, ServerStep, NextSubmissionsMatch, NextPapersMatch, NextStatusNotEarly,
     NextScreenMatches, NextCountdownNotEarly DEF IInv
<1> QED
  BY <1>1, <1>2, PTL DEF Spec

\* The page, the wire and the server's tables always hold values of their
\* types, for any rooms, papers, durations and failures.
THEOREM TypeCorrect == Spec => []TypeOK
<1>1. IInv => TypeOK
  BY DEF IInv
<1> QED
  BY <1>1, Invariance, PTL

\* Whatever rooms are selected, joined or left while replies are under way, and
\* however often the connection closes, a submission answers the questions of
\* its own exam's paper, and so does the result (handleMessage, submit_exam).
THEOREM SubmissionsMatchPapers == Spec => []SubmissionMatchesPaper
<1>1. IInv => SubmissionMatchesPaper
  BY DEF IInv, SubmissionsMatch, ServerInv, SubmissionMatchesPaper
<1> QED
  BY <1>1, Invariance, PTL

\* No reply takes a choice off the screen while its exam stays there: a paper
\* is handed out once and the page takes it once (handleMessage).
THEOREM ChoicesAreKept == Spec => ChoicesKept
<1>1. ASSUME IInv, [Next]_vars
      PROVE  [\A q \in DOMAIN sheet :
                exam' = exam /\ sheet[q] # Blank =>
                  q \in DOMAIN sheet' /\ sheet'[q] # Blank]_vars
  <2> SUFFICES ASSUME NEW q \in DOMAIN sheet, exam' = exam, sheet[q] # Blank
               PROVE  q \in DOMAIN sheet' /\ sheet'[q] # Blank
    OBVIOUS
  <2>1. CASE \E p \in DOMAIN sheet, o \in Options : sheet' = [sheet EXCEPT ![p] = o]
    BY <2>1, BlankAssumption
  <2>2. exam # NoRoom
    BY <1>1, SheetsTyped DEF IInv, ScreenMatches
  <2>3. \A m \in replies : m.kind = "GET_EXAM_PAPER" => exam # m.room
    BY <1>1 DEF IInv, PapersMatch
  <2> QED
    BY <1>1, <2>1, <2>2, <2>3, ScreenStep
<1> QED
  BY <1>1, Invariance, PTL DEF Spec, ChoicesKept

\* Whatever delay a status had and whatever seconds the page lost, an exam that
\* is submitted by its own timer is not submitted more than a second early
\* (startExamTimer, updateExamTimer, get_timer_status).
THEOREM AutomaticSubmissionOnTime == Spec => AutoOnTime
<1>1. ASSUME IInv, [Next]_vars, ~ autoSubmitted, autoSubmitted', exam' = exam, OwnTime
      PROVE  now + 1 >= EndOf(exam)
  <2>1. CASE Beat
    <3>1. counting /\ due /\ left = 1 /\ replies' = replies
      BY <1>1, <2>1 DEF Beat
    <3>2. of = exam /\ exam \in Rooms
      <4>1. CanAutoSubmit
        BY <1>1, <2>1 DEF Beat, TimeUp, AutoSubmitExam
      <4> QED
        BY <1>1, <3>1, <4>1 DEF OwnTime, CanAutoSubmit, IInv, TypeOK
    <3>3. now + left + 1 >= EndOf(of) + 1 /\ EndOf(of) \in Nat /\ now \in Nat
      BY <1>1, <3>1, <3>2, TimesTyped, RoomsAssumption DEF IInv, CountdownNotEarly
    <3> QED
      BY <3>1, <3>2, <3>3
  <2>2. CASE \E m \in replies : ArriveTimer(m)
    <3>1. PICK m \in replies : ArriveTimer(m)
      BY <2>2
    <3>2. m.kind = "GET_TIMER_STATUS" /\ m.remaining = 0 /\ m.room = exam
      BY <1>1, <3>1 DEF ArriveTimer, Take, OwnTime
    <3>3. m.room \in Rooms /\ now + m.remaining >= EndOf(m.room)
      BY <1>1, <3>1, <3>2 DEF IInv, TypeOK, Replies, StatusNotEarly
    <3>4. now \in Nat /\ EndOf(exam) \in Nat
      BY <1>1, <3>2, <3>3, TimesTyped DEF IInv
    <3> QED
      BY <3>2, <3>3, <3>4
  <2>3. ~ \E m \in replies : ArriveSubmit(m)
    <3> SUFFICES ASSUME NEW m \in replies, ArriveSubmit(m)
                 PROVE  FALSE
      OBVIOUS
    <3>1. m.room = exam /\ exam = NoRoom /\ m.kind = "SUBMIT_EXAM"
      BY <1>1 DEF ArriveSubmit, Take, OwnTime
    <3>2. m.room \in Rooms
      BY <1>1, <3>1 DEF IInv, TypeOK, Replies
    <3> QED
      BY <3>1, <3>2, RoomsAssumption
  <2>4. Beat \/ \E m \in replies : ArriveTimer(m) \/ ArriveSubmit(m)
    BY <1>1 DEF Next, Click, Select, Choose, ClickJoin, ClickGetPaper, ClickSubmit, Timer, Sync,
         SyncStops, Trouble, Fail, LosePaper, Disconnect, Reconnect, Reload, Tick, Handle,
         JoinRoom, GetExamPaper, GetTimerStatus, SubmitExam, Refuse, Arrive, ArriveJoin,
         ArrivePaper, vars, page, screen
  <2> QED
    BY <2>1, <2>2, <2>3, <2>4
<1>2. IInv /\ [Next]_vars =>
        [~ autoSubmitted /\ autoSubmitted' /\ exam' = exam /\ OwnTime =>
           now + 1 >= EndOf(exam)]_vars
  BY <1>1
<1> QED
  BY <1>2, Invariance, PTL DEF Spec, AutoOnTime
=============================================================================
