------------------------- MODULE RequestServerProofs -------------------------
(***************************************************************************)
(* Proofs about RequestServer, for every number of clients, workers and    *)
(* messages, and every moment at which a client leaves, stops reading or   *)
(* stops sending and the server is interrupted.                            *)
(***************************************************************************)
EXTENDS RequestServer, FiniteSetTheorems, SequenceTheorems, TLAPS

(***************************************************************************)
(* The inductive invariant.                                                *)
(***************************************************************************)

\* How far Server::stop has come: the accept thread has returned before the
\* list of connections is taken, and the list is empty before the pool stops.
StopOrder ==
  /\ running <=> main = "serving"
  /\ listening <=> main = "serving"
  /\ acceptor = "returned" => ~ running
  /\ stopping <=> main \in {"join_workers", "done"}
  /\ main \in {"serving", "join_accept"} => joining = {}
  /\ main \notin {"serving", "join_accept"} => acceptor = "returned" /\ conns = {}
  /\ main \in {"destroy", "join_workers", "done"} => joining = {}
  /\ main \notin {"shutdown", "close", "join_reader"} => closing = {}

\* A connection the server does not know of.
Unknown(c) == net[c] \in {"none", "backlog"}

Active(c) == reader[c] \in {"reading", "holding"}

\* Every running reader belongs to a connection main has still to stop, and is
\* alive unless it is the one, if any, that Connection::stop is at.
ReadersKnown ==
  /\ \A c \in Conns :
       /\ Unknown(c) => /\ reader[c] = "none" /\ got[c] = 0
                        /\ c \notin conns \cup joining \cup closing
       /\ Active(c) => c \in conns \cup joining \cup closing
       /\ Active(c) => alive[c] \/ c \in closing
       /\ got[c] <= sent[c]
       /\ reader[c] = "holding" => got[c] > 0
  /\ \A c, d \in closing : c = d

\* No message that is queued, running or done is ahead of its reader.
Taken == Queued \cup Running \cup done

MessagesRead ==
  \A m \in Taken :
    /\ m[2] <= got[m[1]]
    /\ reader[m[1]] = "holding" => m[2] < got[m[1]]

\* Each message is in one place: EachMessageOnce, with the queue's length put
\* without Cardinality.
QueueInjective == \A i, j \in DOMAIN queue : queue[i] = queue[j] => i = j

MessagesOnce ==
  /\ dropped = {}
  /\ \A c \in Conns : \A n \in 1 .. got[c] :
       \/ reader[c] = "holding" /\ n = got[c]
       \/ <<c, n>> \in Taken
  /\ Queued \cap Running = {} /\ Queued \cap done = {} /\ Running \cap done = {}
  /\ QueueInjective
  /\ \A v, w \in Workers : job[v] = job[w] /\ job[v] # Idle => v = w

\* A worker that has returned left nothing behind, and one that writes has a
\* task.
WorkersGone ==
  /\ \A w \in gone : stopping /\ queue = << >> /\ job[w] = Idle
  /\ \A w \in writing : job[w] # Idle

IInv ==
  /\ TypeOK
  /\ StopOrder
  /\ ReadersKnown
  /\ MessagesRead
  /\ MessagesOnce
  /\ WorkersGone
  /\ ExitIsClean
-----------------------------------------------------------------------------
(* Type correctness. *)

LEMMA InitType == Init => TypeOK
<1>1. 0 \in 0 .. MaxSent
  BY SentAssumption
<1>2. << >> \in Seq(Messages)
  BY EmptySeq
<1> SUFFICES ASSUME Init PROVE TypeOK
  OBVIOUS
<1>3. /\ net \in [Conns -> {"none", "backlog", "up", "stalled", "left", "reset"}]
      /\ sock \in [Conns -> {"none", "open", "shut", "closed"}]
      /\ reader \in [Conns -> {"none", "reading", "holding", "returned", "joined"}]
  BY DEF Init
<1>4. /\ sent \in [Conns -> 0 .. MaxSent] /\ got \in [Conns -> 0 .. MaxSent]
      /\ alive \in [Conns -> BOOLEAN] /\ job \in [Workers -> Messages \cup {Idle}]
  BY <1>1, Zenon DEF Init
<1> QED
  BY <1>2, <1>3, <1>4 DEF Init, TypeOK, MainPoints

\* The task a worker runs is a message of a client.
LEMMA JobOfWorker ==
  ASSUME TypeOK, NEW w \in Workers, job[w] # Idle
  PROVE  job[w] \in Messages /\ job[w][1] \in Conns
BY DEF TypeOK, Messages

\* What the end of a task does, whichever way its write went.
TaskEnds(w) ==
  /\ job[w] # Idle
  /\ done' = done \cup {job[w]}
  /\ job' = [job EXCEPT ![w] = Idle]
  /\ writing' = writing \ {w}
  /\ net' \in {net, [net EXCEPT ![job[w][1]] = "reset"]}
  /\ net' = net \/ net[job[w][1]] = "left"
  /\ UNCHANGED <<mainVars, acceptor, sent, finished, conns, connVars, queue, stopping, gone,
                 dropped>>

LEMMA WriteEndsTask ==
  ASSUME IInv, NEW w \in Workers, WriteReturns(w) \/ WriteBuffered(w)
  PROVE  TaskEnds(w)
<1>1. CASE WriteReturns(w)
  BY <1>1 DEF WriteReturns, EndTask, TaskEnds, IInv, WorkersGone
<1>2. CASE WriteBuffered(w)
  BY <1>2 DEF WriteBuffered, EndTask, TaskEnds, IInv, WorkersGone
<1> QED
  BY <1>1, <1>2

\* A worker's step, with or without room in the buffers.
WorkStep(w) ==
  TakeTask(w) \/ RunTask(w) \/ TaskEnds(w) \/ WriteKills(w) \/ WorkerReturns(w)

LEMMA WorkerDoes ==
  ASSUME IInv, NEW w \in Workers, WorkerStep(w) \/ WriteBuffered(w)
  PROVE  WorkStep(w)
BY WriteEndsTask DEF WorkerStep, WorkStep

LEMMA ClientType ==
  ASSUME TypeOK, ClientStep
  PROVE  TypeOK'
<1>1. ASSUME NEW c \in Conns, Connect(c) \/ EndInput(c) \/ Stall(c) \/ Leave(c)
      PROVE  TypeOK'
  BY <1>1, ZenonT(30) DEF Connect, EndInput, Stall, Leave, TypeOK, mainVars, connVars, poolVars
<1>2. ASSUME NEW c \in Conns, Send(c)
      PROVE  TypeOK'
  <2>1. sent[c] + 1 \in 0 .. MaxSent
    BY <1>2, SentAssumption DEF Send, TypeOK
  <2> QED
    BY <1>2, <2>1 DEF Send, TypeOK, mainVars, connVars, poolVars
<1> QED
  BY <1>1, <1>2 DEF ClientStep

LEMMA AcceptType ==
  ASSUME TypeOK, AcceptStep
  PROVE  TypeOK'
<1>1. CASE AcceptLoop \/ CallAccept
  BY <1>1 DEF AcceptLoop, CallAccept, TypeOK, mainVars, clientVars, connVars, poolVars
<1>2. ASSUME NEW c \in Conns, Accept(c)
      PROVE  TypeOK'
  BY <1>2 DEF Accept, TypeOK, mainVars, poolVars
<1> QED
  BY <1>1, <1>2 DEF AcceptStep

LEMMA ReaderType ==
  ASSUME TypeOK, NEW c \in Conns, ReaderStep(c), got[c] <= sent[c],
         reader[c] = "holding" => got[c] # 0
  PROVE  TypeOK'
<1>1. CASE ReadFrame(c)
  <2>1. got[c] + 1 \in 0 .. MaxSent
    BY <1>1, SentAssumption DEF ReadFrame, TypeOK
  <2> QED
    BY <1>1, <2>1 DEF ReadFrame, TypeOK, mainVars, clientVars, poolVars
<1>2. CASE Enqueue(c)
  <2>1. <<c, got[c]>> \in Messages
    BY <1>2, SentAssumption DEF Enqueue, TypeOK, Messages
  <2>2. Append(queue, <<c, got[c]>>) \in Seq(Messages)
    BY <2>1, AppendProperties DEF TypeOK
  <2> QED
    BY <1>2, <2>1, <2>2 DEF Enqueue, TypeOK, mainVars, clientVars, poolVars
<1>3. CASE ReaderReturns(c)
  BY <1>3 DEF ReaderReturns, TypeOK, mainVars, clientVars, poolVars
<1> QED
  BY <1>1, <1>2, <1>3 DEF ReaderStep

LEMMA WorkerType ==
  ASSUME TypeOK, NEW w \in Workers, WorkStep(w)
  PROVE  TypeOK'
<1>1. CASE TakeTask(w)
  <2>1. Head(queue) \in Messages /\ Tail(queue) \in Seq(Messages)
    BY <1>1, HeadTailProperties DEF TakeTask, TypeOK
  <2> QED
    BY <1>1, <2>1 DEF TakeTask, TypeOK, mainVars, clientVars, connVars
<1>2. CASE RunTask(w)
  BY <1>2 DEF RunTask, TypeOK, mainVars, clientVars, connVars
<1>3. CASE TaskEnds(w)
  <2>1. job[w] \in Messages /\ job[w][1] \in Conns
    BY <1>3, JobOfWorker DEF TaskEnds
  <2>2. net' \in [Conns -> {"none", "backlog", "up", "stalled", "left", "reset"}]
    BY <1>3, <2>1 DEF TaskEnds, TypeOK
  <2> QED
    BY <1>3, <2>1, <2>2 DEF TaskEnds, TypeOK, mainVars, connVars
<1>4. CASE WriteKills(w)
  BY <1>4 DEF WriteKills, TypeOK, clientVars, connVars, poolVars
<1>5. CASE WorkerReturns(w)
  BY <1>5 DEF WorkerReturns, TypeOK, mainVars, clientVars, connVars
<1> QED
  BY <1>1, <1>2, <1>3, <1>4, <1>5 DEF WorkStep

LEMMA StopType ==
  ASSUME TypeOK, Interrupt \/ StopStep
  PROVE  TypeOK'
<1>1. CASE Interrupt \/ JoinAccept \/ AllStopped \/ ShutdownPool \/ JoinWorkers
  BY <1>1, ZenonT(30) DEF Interrupt, JoinAccept, AllStopped, ShutdownPool, JoinWorkers, TypeOK,
     MainPoints, clientVars, connVars, poolVars
<1>2. ASSUME NEW c \in Conns, StopConn(c)
      PROVE  TypeOK'
  <2>1. closing' \subseteq Conns /\ joining' \subseteq Conns /\ main' \in MainPoints
        /\ alive' \in [Conns -> BOOLEAN]
    BY <1>2 DEF StopConn, TypeOK, MainPoints
  <2> QED
    BY <1>2, <2>1 DEF StopConn, TypeOK, clientVars, poolVars
<1>3. ASSUME NEW c \in Conns, JoinReader(c)
      PROVE  TypeOK'
  BY <1>3, SMTT(30) DEF JoinReader, TypeOK, MainPoints, clientVars, poolVars
<1>4. ASSUME NEW c \in Conns, Destroy(c)
      PROVE  TypeOK'
  BY <1>4, SMTT(30) DEF Destroy, TypeOK, clientVars, connVars, poolVars
<1>5. ASSUME NEW c \in Conns, ShutdownSocket(c) \/ CloseSocket(c)
      PROVE  TypeOK'
  BY <1>5, ZenonT(30) DEF ShutdownSocket, CloseSocket, TypeOK, MainPoints, clientVars, poolVars
<1> QED
  BY <1>1, <1>2, <1>3, <1>4, <1>5 DEF StopStep
-----------------------------------------------------------------------------
(* The order of Server::stop, and the readers. *)

LEMMA NextOrder ==
  ASSUME IInv, Next
  PROVE  StopOrder'
<1> USE DEF IInv, TypeOK, StopOrder, MainPoints
<1>1. CASE ClientStep
  BY <1>1 DEF ClientStep, Connect, Send, EndInput, Stall, Leave, mainVars, poolVars
<1>2. CASE AcceptStep
  BY <1>2 DEF AcceptStep, AcceptLoop, CallAccept, Accept, mainVars, poolVars
<1>3. ASSUME NEW c \in Conns, ReaderStep(c)
      PROVE  StopOrder'
  BY <1>3 DEF ReaderStep, ReadFrame, Enqueue, ReaderReturns, mainVars, poolVars
<1>4. ASSUME NEW w \in Workers, WorkStep(w)
      PROVE  StopOrder'
  BY <1>4 DEF WorkStep, TakeTask, RunTask, TaskEnds, WriteKills, WorkerReturns, mainVars, poolVars
<1>5. CASE Interrupt \/ JoinAccept \/ AllStopped \/ ShutdownPool \/ JoinWorkers
  BY <1>5 DEF Interrupt, JoinAccept, AllStopped, ShutdownPool, JoinWorkers, poolVars
<1>6. ASSUME NEW c \in Conns,
             StopConn(c) \/ ShutdownSocket(c) \/ CloseSocket(c) \/ JoinReader(c) \/ Destroy(c)
      PROVE  StopOrder'
  BY <1>6 DEF StopConn, ShutdownSocket, CloseSocket, JoinReader, Destroy, poolVars
<1> QED
  BY <1>1, <1>2, <1>3, <1>4, <1>5, <1>6, WorkerDoes DEF Next, StopStep

LEMMA NextReaders ==
  ASSUME IInv, Next
  PROVE  ReadersKnown'
<1> USE DEF IInv, TypeOK, ReadersKnown, Unknown, Active
<1>1. CASE ClientStep
  <2>1. ASSUME NEW c \in Conns, Connect(c)
        PROVE  ReadersKnown'
    BY <2>1 DEF Connect, mainVars, connVars
  <2>2. ASSUME NEW c \in Conns, Stall(c) \/ Leave(c)
        PROVE  ReadersKnown'
    BY <2>2 DEF Stall, Leave, mainVars, connVars
  <2>3. ASSUME NEW c \in Conns, Send(c)
        PROVE  ReadersKnown'
    <3>1. /\ sent' = [sent EXCEPT ![c] = @ + 1] /\ sent \in [Conns -> 0 .. MaxSent]
          /\ UNCHANGED <<net, conns, joining, closing, reader, got, alive>>
      BY <2>3 DEF Send, mainVars, connVars
    <3>2. \A d \in Conns : got'[d] <= sent'[d]
      BY <3>1, SentAssumption
    <3> QED
      BY <3>1, <3>2
  <2>4. ASSUME NEW c \in Conns, EndInput(c)
        PROVE  ReadersKnown'
    BY <2>4 DEF EndInput, mainVars, connVars
  <2> QED
    BY <1>1, <2>1, <2>2, <2>3, <2>4 DEF ClientStep
<1>2. CASE AcceptLoop \/ CallAccept
  BY <1>2 DEF AcceptLoop, CallAccept, mainVars, clientVars, connVars
<1>3. ASSUME NEW c \in Conns, Accept(c)
      PROVE  ReadersKnown'
  BY <1>3 DEF Accept, mainVars
<1>4. ASSUME NEW c \in Conns, ReaderStep(c)
      PROVE  ReadersKnown'
  <2>1. CASE ReadFrame(c)
    BY <2>1 DEF ReadFrame, mainVars, clientVars
  <2>2. CASE Enqueue(c)
    BY <2>2 DEF Enqueue, mainVars, clientVars
  <2>3. CASE ReaderReturns(c)
    BY <2>3 DEF ReaderReturns, mainVars
  <2> QED
    BY <1>4, <2>1, <2>2, <2>3 DEF ReaderStep
<1>5. ASSUME NEW w \in Workers, WorkStep(w)
      PROVE  ReadersKnown'
  <2>1. CASE TaskEnds(w)
    <3>1. job[w][1] \in Conns
      BY <2>1, JobOfWorker DEF TaskEnds
    <3> QED
      BY <2>1, <3>1 DEF TaskEnds, mainVars, connVars
  <2>2. CASE TakeTask(w) \/ RunTask(w) \/ WorkerReturns(w)
    BY <2>2 DEF TakeTask, RunTask, WorkerReturns, mainVars, clientVars, connVars
  <2>3. CASE WriteKills(w)
    BY <2>3 DEF WriteKills, clientVars, connVars
  <2> QED
    BY <1>5, <2>1, <2>2, <2>3 DEF WorkStep
<1>6. CASE Interrupt \/ JoinAccept \/ AllStopped \/ ShutdownPool \/ JoinWorkers
  BY <1>6 DEF Interrupt, JoinAccept, AllStopped, ShutdownPool, JoinWorkers, StopOrder, clientVars,
     connVars
<1>7. ASSUME NEW c \in Conns, StopConn(c)
      PROVE  ReadersKnown'
  <2>1. closing = {} /\ conns = {}
    BY <1>7 DEF StopConn, StopOrder
  <2>2. CASE alive[c]
    <3>1. /\ c \in joining /\ joining' = joining \ {c} /\ closing' = {c}
          /\ UNCHANGED <<net, sent, conns, got, reader>>
          /\ alive' = [alive EXCEPT ![c] = FALSE]
      BY <1>7, <2>2 DEF StopConn, clientVars
    <3> QED
      BY <2>1, <3>1
  <2>3. CASE ~ alive[c]
    <3>1. /\ c \in joining /\ joining' = joining \ {c}
          /\ UNCHANGED <<closing, net, sent, conns, got, reader, alive>>
      BY <1>7, <2>3 DEF StopConn, clientVars
    <3>2. ~ Active(c)
      BY <2>1, <2>3
    <3> QED
      BY <2>1, <3>1, <3>2
  <2> QED
    BY <2>2, <2>3
<1>8. ASSUME NEW c \in Conns, ShutdownSocket(c) \/ CloseSocket(c)
      PROVE  ReadersKnown'
  BY <1>8 DEF ShutdownSocket, CloseSocket, clientVars
<1>9. ASSUME NEW c \in Conns, JoinReader(c)
      PROVE  ReadersKnown'
  BY <1>9 DEF JoinReader, clientVars
<1>10. ASSUME NEW c \in Conns, Destroy(c)
       PROVE  ReadersKnown'
  BY <1>10 DEF Destroy, clientVars, connVars
<1> QED
  BY <1>1, <1>2, <1>3, <1>4, <1>5, <1>6, <1>7, <1>8, <1>9, <1>10, WorkerDoes
  DEF Next, AcceptStep, StopStep

\* A reader that runs belongs to a server that still takes its messages.
LEMMA ReaderNotStopping ==
  ASSUME IInv, NEW c \in Conns, Active(c)
  PROVE  ~ stopping
BY DEF IInv, StopOrder, ReadersKnown, MainPoints
-----------------------------------------------------------------------------
(* The messages. *)

\* What pushing a task and taking the first one do to the set of the queued.
LEMMA PushQueued ==
  ASSUME NEW M, NEW q \in Seq(M), NEW m \in M, m \notin {q[i] : i \in DOMAIN q},
         \A i, j \in DOMAIN q : q[i] = q[j] => i = j
  PROVE  LET p == Append(q, m)
         IN /\ {p[i] : i \in DOMAIN p} = {q[i] : i \in DOMAIN q} \cup {m}
            /\ \A i, j \in DOMAIN p : p[i] = p[j] => i = j
<1> DEFINE p == Append(q, m)
<1>1. /\ p \in Seq(M) /\ Len(p) = Len(q) + 1 /\ p[Len(q) + 1] = m
      /\ \A i \in 1 .. Len(q) : p[i] = q[i]
  BY AppendProperties
<1>2. DOMAIN p = 1 .. (Len(q) + 1) /\ DOMAIN q = 1 .. Len(q) /\ Len(q) \in Nat
  BY <1>1, LenProperties
<1> HIDE DEF p
<1>3. {p[i] : i \in DOMAIN p} = {q[i] : i \in DOMAIN q} \cup {m}
  BY <1>1, <1>2
<1>4. ASSUME NEW i \in DOMAIN p, NEW j \in DOMAIN p, p[i] = p[j]
      PROVE  i = j
  <2>1. CASE i \in DOMAIN q /\ j \in DOMAIN q
    BY <1>1, <1>2, <1>4, <2>1
  <2>2. CASE i = Len(q) + 1 \/ j = Len(q) + 1
    BY <1>1, <1>2, <1>4, <2>2
  <2> QED
    BY <1>2, <2>1, <2>2
<1> QED
  BY <1>3, <1>4 DEF p

LEMMA PopQueued ==
  ASSUME NEW M, NEW q \in Seq(M), q # << >>,
         \A i, j \in DOMAIN q : q[i] = q[j] => i = j
  PROVE  LET p == Tail(q)
         IN /\ {p[i] : i \in DOMAIN p} = {q[i] : i \in DOMAIN q} \ {Head(q)}
            /\ Head(q) \in {q[i] : i \in DOMAIN q}
            /\ \A i, j \in DOMAIN p : p[i] = p[j] => i = j
<1> DEFINE p == Tail(q)
<1>1. /\ p \in Seq(M) /\ Len(p) = Len(q) - 1
      /\ \A i \in 1 .. Len(p) : p[i] = q[i + 1]
  BY HeadTailProperties
<1>2. DOMAIN p = 1 .. (Len(q) - 1) /\ DOMAIN q = 1 .. Len(q) /\ Len(q) \in Nat \ {0}
  BY <1>1, LenProperties, EmptySeq
<1>3. Head(q) = q[1]
  OBVIOUS
<1> HIDE DEF p
<1>4. \A i \in DOMAIN p : p[i] \in {q[j] : j \in DOMAIN q} /\ p[i] # q[1]
  BY <1>1, <1>2, SMTT(30)
<1>5. \A j \in DOMAIN q : j # 1 => j - 1 \in DOMAIN p /\ p[j - 1] = q[j]
  BY <1>1, <1>2
<1>6. {p[i] : i \in DOMAIN p} = {q[i] : i \in DOMAIN q} \ {q[1]}
  BY <1>4, <1>5
<1>7. ASSUME NEW i \in DOMAIN p, NEW j \in DOMAIN p, p[i] = p[j]
      PROVE  i = j
  <2>1. i + 1 \in DOMAIN q /\ j + 1 \in DOMAIN q /\ q[i + 1] = q[j + 1]
    BY <1>1, <1>2, <1>7
  <2>2. i + 1 = j + 1
    BY <2>1
  <2> QED
    BY <1>2, <2>2
<1>8. Head(q) \in {q[i] : i \in DOMAIN q}
  BY <1>2, <1>3
<1> QED
  BY <1>3, <1>6, <1>7, <1>8 DEF p

\* Taking a task moves its message, and running it ends there.
LEMMA TaskMoves ==
  ASSUME IInv, NEW w \in Workers
  PROVE  /\ TakeTask(w) =>
              /\ Queued' = Queued \ {Head(queue)} /\ Running' = Running \cup {Head(queue)}
              /\ Head(queue) \in Queued
              /\ QueueInjective'
         /\ TaskEnds(w) =>
              /\ Queued' = Queued /\ Running' = Running \ {job[w]}
              /\ job[w] \in Running
<1>1. queue \in Seq(Messages) /\ job \in [Workers -> Messages \cup {Idle}]
  BY DEF IInv, TypeOK
<1>2. QueueInjective /\ \A u, v \in Workers : job[u] = job[v] /\ job[u] # Idle => u = v
  BY DEF IInv, MessagesOnce
<1>3. ASSUME TakeTask(w)
      PROVE  /\ Queued' = Queued \ {Head(queue)} /\ Running' = Running \cup {Head(queue)}
             /\ Head(queue) \in Queued
             /\ QueueInjective'
  <2>1. /\ queue # << >> /\ queue' = Tail(queue)
        /\ job[w] = Idle /\ job' = [job EXCEPT ![w] = Head(queue)]
    BY <1>3 DEF TakeTask
  <2>2. /\ Queued' = Queued \ {Head(queue)} /\ Head(queue) \in Queued /\ QueueInjective'
    <3>1. \A i, j \in DOMAIN queue : queue[i] = queue[j] => i = j
      BY <1>2 DEF QueueInjective
    <3>2. /\ {Tail(queue)[i] : i \in DOMAIN Tail(queue)}
               = {queue[i] : i \in DOMAIN queue} \ {Head(queue)}
          /\ Head(queue) \in {queue[i] : i \in DOMAIN queue}
          /\ \A i, j \in DOMAIN Tail(queue) : Tail(queue)[i] = Tail(queue)[j] => i = j
      BY <1>1, <2>1, <3>1, PopQueued
    <3> QED
      BY <2>1, <3>2 DEF Queued, QueueInjective
  <2>3. Head(queue) # Idle
    BY <1>1, <2>1, HeadTailProperties, ThreadsAssumption, IdleAssumption DEF Messages
  <2>4. Running' = Running \cup {Head(queue)}
    BY <1>1, <2>1, <2>3 DEF Running
  <2> QED
    BY <2>2, <2>4
<1>4. ASSUME TaskEnds(w)
      PROVE  /\ Queued' = Queued /\ Running' = Running \ {job[w]}
             /\ job[w] \in Running
  BY <1>1, <1>2, <1>4 DEF TaskEnds, Queued, Running
<1> QED
  BY <1>3, <1>4

LEMMA TakenTyped ==
  ASSUME IInv
  PROVE  Taken \subseteq Messages
<1>1. Queued \subseteq Messages
  BY ElementOfSeq DEF IInv, TypeOK, Queued
<1> QED
  BY <1>1 DEF IInv, TypeOK, Taken, Running

\* The steps that read, queue, take and run nothing.
LEMMA MessagesFrame ==
  ASSUME IInv, UNCHANGED <<queue, job, done, dropped, got>>,
         \A c \in Conns : reader'[c] = "holding" => reader[c] = "holding",
         \A c \in Conns : reader[c] = "holding" => reader'[c] = "holding"
  PROVE  MessagesRead' /\ MessagesOnce'
<1>1. Queued' = Queued /\ Running' = Running /\ Taken' = Taken /\ (QueueInjective' <=> QueueInjective)
  BY DEF Queued, Running, Taken, QueueInjective
<1>3. MessagesRead'
  BY <1>1, TakenTyped DEF IInv, MessagesRead, Messages
<1>4. MessagesOnce'
  BY <1>1 DEF IInv, MessagesOnce
<1> QED
  BY <1>3, <1>4

LEMMA ReaderMessages ==
  ASSUME IInv, NEW c \in Conns, ReaderStep(c)
  PROVE  MessagesRead' /\ MessagesOnce'
<1>1. /\ queue \in Seq(Messages) /\ got \in [Conns -> 0 .. MaxSent]
      /\ \A m \in Taken : m[1] \in Conns /\ m[2] \in Nat
      /\ reader \in [Conns -> {"none", "reading", "holding", "returned", "joined"}]
  <2>1. \A m \in Messages : m[1] \in Conns /\ m[2] \in Nat
    BY SentAssumption DEF Messages
  <2> QED
    BY <2>1, TakenTyped DEF IInv, TypeOK
<1>2. CASE ReadFrame(c)
  <2>1. /\ got' = [got EXCEPT ![c] = @ + 1] /\ reader' = [reader EXCEPT ![c] = "holding"]
        /\ reader[c] = "reading"
        /\ UNCHANGED <<queue, job, done, dropped>>
    BY <1>2 DEF ReadFrame, poolVars
  <2>2. Queued' = Queued /\ Running' = Running /\ Taken' = Taken /\ (QueueInjective' <=> QueueInjective)
    BY <2>1 DEF Queued, Running, Taken, QueueInjective
  <2>3. got'[c] = got[c] + 1 /\ \A d \in Conns \ {c} : got'[d] = got[d] /\ reader'[d] = reader[d]
    BY <1>1, <2>1
  <2>4. reader'[c] = "holding" /\ got[c] \in Nat
    BY <1>1, <2>1, SentAssumption
  <2>5. MessagesRead'
    <3>1. \A m \in Taken : m[2] <= got[m[1]] /\ (reader[m[1]] = "holding" => m[2] < got[m[1]])
      BY DEF IInv, MessagesRead
    <3> QED
      BY <1>1, <2>2, <2>3, <2>4, <3>1 DEF MessagesRead
  <2>6. \A d \in Conns : \A n \in 1 .. got'[d] :
          (reader'[d] = "holding" /\ n = got'[d]) \/ <<d, n>> \in Taken
    <3>1. \A d \in Conns : \A n \in 1 .. got[d] :
            (reader[d] = "holding" /\ n = got[d]) \/ <<d, n>> \in Taken
      BY DEF IInv, MessagesOnce
    <3>2. \A n \in 1 .. got'[c] : n \in 1 .. got[c] \/ n = got'[c]
      BY <2>3, <2>4
    <3> QED
      BY <2>1, <2>3, <2>4, <3>1, <3>2
  <2> QED
    BY <2>1, <2>2, <2>5, <2>6 DEF IInv, MessagesOnce
<1>3. CASE Enqueue(c)
  <2> DEFINE m == <<c, got[c]>>
  <2>1. /\ queue' = Append(queue, m)
        /\ reader' = [reader EXCEPT ![c] = IF alive[c] THEN "reading" ELSE "returned"]
        /\ reader[c] = "holding"
        /\ UNCHANGED <<got, job, done, dropped>>
    BY <1>3, ReaderNotStopping DEF Enqueue, Active, poolVars
  <2>2. got[c] \in 1 .. MaxSent /\ m \in Messages
    BY <1>1, <2>1, SentAssumption DEF IInv, ReadersKnown, Messages
  <2>3. m \notin Taken
    BY <1>1, <2>1, <2>2 DEF IInv, MessagesRead
  <2>4. /\ Queued' = Queued \cup {m} /\ QueueInjective'
    <3>1. QueueInjective /\ m \notin Queued
      BY <2>3 DEF IInv, MessagesOnce, Taken
    <3> HIDE DEF m
    <3>2. m \notin {queue[i] : i \in DOMAIN queue}
      BY <3>1 DEF Queued
    <3>3. \A i, j \in DOMAIN queue : queue[i] = queue[j] => i = j
      BY <3>1 DEF QueueInjective
    <3> DEFINE p == Append(queue, m)
    <3>4. /\ {p[i] : i \in DOMAIN p} = {queue[i] : i \in DOMAIN queue} \cup {m}
          /\ \A i, j \in DOMAIN p : p[i] = p[j] => i = j
      BY <1>1, <2>2, <3>2, <3>3, PushQueued
    <3> QED
      BY <2>1, <3>4 DEF Queued, QueueInjective
  <2>5. Running' = Running /\ Taken' = Taken \cup {m}
    BY <2>1, <2>4 DEF Running, Taken
  <2>6. \A d \in Conns \ {c} : reader'[d] = reader[d]
    BY <1>1, <2>1
  <2>7. MessagesRead'
    <3>1. \A k \in Taken : k[2] <= got[k[1]] /\ (reader[k[1]] = "holding" => k[2] < got[k[1]])
      BY DEF IInv, MessagesRead
    <3>2. m[1] = c /\ m[2] = got[c] /\ reader'[c] # "holding" /\ got[c] \in Nat
      BY <1>1, <2>1, <2>2
    <3> HIDE DEF m
    <3>3. \A k \in Taken : k[2] <= got'[k[1]] /\ (reader'[k[1]] = "holding" => k[2] < got'[k[1]])
      BY <1>1, <2>1, <2>6, <3>1, <3>2
    <3>4. m[2] <= got'[m[1]] /\ reader'[m[1]] # "holding"
      BY <2>1, <3>2
    <3> QED
      BY <2>5, <3>3, <3>4 DEF MessagesRead
  <2>8. \A d \in Conns : \A n \in 1 .. got[d] :
          (reader'[d] = "holding" /\ n = got[d]) \/ <<d, n>> \in Taken'
    <3>1. \A d \in Conns : \A n \in 1 .. got[d] :
            (reader[d] = "holding" /\ n = got[d]) \/ <<d, n>> \in Taken
      BY DEF IInv, MessagesOnce
    <3> QED
      BY <2>5, <2>6, <3>1
  <2>9. /\ m \notin Running /\ m \notin done
        /\ Queued \cap Running = {} /\ Queued \cap done = {} /\ Running \cap done = {}
        /\ \A v, w \in Workers : job[v] = job[w] /\ job[v] # Idle => v = w
        /\ dropped = {}
    BY <2>3 DEF Taken, IInv, MessagesOnce
  <2> HIDE DEF m
  <2> QED
    BY <2>1, <2>4, <2>5, <2>7, <2>8, <2>9 DEF MessagesOnce
<1>4. CASE ReaderReturns(c)
  BY <1>1, <1>4, MessagesFrame DEF ReaderReturns, poolVars
<1> QED
  BY <1>2, <1>3, <1>4 DEF ReaderStep

LEMMA WorkerMessages ==
  ASSUME IInv, NEW w \in Workers, WorkStep(w)
  PROVE  MessagesRead' /\ MessagesOnce'
<1>1. queue \in Seq(Messages) /\ job \in [Workers -> Messages \cup {Idle}]
  BY DEF IInv, TypeOK
<1>2. /\ Queued \cap Running = {} /\ Queued \cap done = {} /\ Running \cap done = {}
      /\ \A u, v \in Workers : job[u] = job[v] /\ job[u] # Idle => u = v
      /\ QueueInjective
      /\ dropped = {}
  BY DEF IInv, MessagesOnce
<1>3. CASE TakeTask(w)
  <2>1. /\ Queued' = Queued \ {Head(queue)} /\ Running' = Running \cup {Head(queue)}
        /\ Head(queue) \in Queued /\ QueueInjective'
    BY <1>3, TaskMoves
  <2>2. UNCHANGED <<done, dropped, got, reader>> /\ job' = [job EXCEPT ![w] = Head(queue)]
    BY <1>3 DEF TakeTask, connVars
  <2>3. Taken' = Taken
    BY <2>1, <2>2 DEF Taken
  <2>4. \A v \in Workers : job[v] # Head(queue) \/ job[v] = Idle
    BY <1>2, <2>1 DEF Running
  <2>5. \A u, v \in Workers : job'[u] = job'[v] /\ job'[u] # Idle => u = v
    BY <1>1, <1>2, <2>2, <2>4
  <2>6. MessagesRead'
    BY <2>2, <2>3 DEF IInv, MessagesRead
  <2> QED
    BY <1>2, <2>1, <2>2, <2>3, <2>5, <2>6 DEF IInv, MessagesOnce
<1>4. CASE TaskEnds(w)
  <2>1. /\ Queued' = Queued /\ Running' = Running \ {job[w]} /\ job[w] \in Running
    BY <1>4, TaskMoves
  <2>2. /\ UNCHANGED <<queue, dropped, got, reader>>
        /\ job' = [job EXCEPT ![w] = Idle] /\ done' = done \cup {job[w]}
    BY <1>4 DEF TaskEnds, connVars
  <2>3. Taken' = Taken
    BY <2>1, <2>2 DEF Taken
  <2>4. \A u, v \in Workers : job'[u] = job'[v] /\ job'[u] # Idle => u = v
    BY <1>1, <1>2, <2>2
  <2>5. MessagesRead' /\ QueueInjective'
    BY <1>2, <2>2, <2>3 DEF IInv, MessagesRead, QueueInjective
  <2> QED
    BY <1>2, <2>1, <2>2, <2>3, <2>4, <2>5 DEF IInv, MessagesOnce
<1>5. CASE RunTask(w) \/ WriteKills(w) \/ WorkerReturns(w)
  BY <1>5, MessagesFrame DEF RunTask, WriteKills, WorkerReturns, connVars, poolVars
<1> QED
  BY <1>3, <1>4, <1>5 DEF WorkStep

LEMMA NextMessages ==
  ASSUME IInv, Next
  PROVE  MessagesRead' /\ MessagesOnce'
<1>1. CASE ClientStep
  BY <1>1, MessagesFrame DEF ClientStep, Connect, Send, EndInput, Stall, Leave, connVars, poolVars
<1>2. CASE AcceptLoop \/ CallAccept
  BY <1>2, MessagesFrame DEF AcceptLoop, CallAccept, connVars, poolVars
<1>3. ASSUME NEW c \in Conns, Accept(c)
      PROVE  MessagesRead' /\ MessagesOnce'
  BY <1>3, MessagesFrame DEF Accept, poolVars, IInv, TypeOK, ReadersKnown, Unknown
<1>4. CASE Interrupt \/ JoinAccept \/ AllStopped \/ ShutdownPool \/ JoinWorkers
  BY <1>4, MessagesFrame DEF Interrupt, JoinAccept, AllStopped, ShutdownPool, JoinWorkers, connVars,
     poolVars
<1>5. ASSUME NEW c \in Conns,
             StopConn(c) \/ ShutdownSocket(c) \/ CloseSocket(c) \/ JoinReader(c) \/ Destroy(c)
      PROVE  MessagesRead' /\ MessagesOnce'
  BY <1>5, MessagesFrame DEF StopConn, ShutdownSocket, CloseSocket, JoinReader, Destroy, connVars,
     poolVars, IInv, TypeOK
<1> QED
  BY <1>1, <1>2, <1>3, <1>4, <1>5, ReaderMessages, WorkerMessages, WorkerDoes
  DEF Next, AcceptStep, StopStep
-----------------------------------------------------------------------------
(* The end of the workers and of the process. *)

LEMMA NextWorkersGone ==
  ASSUME IInv, Next
  PROVE  WorkersGone'
<1> USE DEF IInv, TypeOK, WorkersGone
<1>1. CASE ClientStep
  BY <1>1 DEF ClientStep, Connect, Send, EndInput, Stall, Leave, poolVars
<1>2. CASE AcceptStep
  BY <1>2 DEF AcceptStep, AcceptLoop, CallAccept, Accept, poolVars
<1>3. ASSUME NEW c \in Conns, ReaderStep(c)
      PROVE  WorkersGone'
  <2>1. CASE ReadFrame(c) \/ ReaderReturns(c)
    BY <2>1 DEF ReadFrame, ReaderReturns, poolVars
  <2>2. CASE Enqueue(c)
    <3>1. gone = {} /\ UNCHANGED <<gone, writing, job>>
      BY <2>2, ReaderNotStopping DEF Enqueue, Active, poolVars
    <3> QED
      BY <3>1
  <2> QED
    BY <1>3, <2>1, <2>2 DEF ReaderStep
<1>4. ASSUME NEW w \in Workers, WorkStep(w)
      PROVE  WorkersGone'
  <2>1. CASE TakeTask(w)
    <3>1. Head(queue) # Idle
      BY <2>1, HeadTailProperties, ThreadsAssumption, IdleAssumption DEF TakeTask, Messages
    <3> QED
      BY <2>1, <3>1 DEF TakeTask
  <2>2. CASE RunTask(w)
    BY <2>2 DEF RunTask
  <2>3. CASE TaskEnds(w)
    BY <2>3 DEF TaskEnds
  <2>4. CASE WriteKills(w)
    BY <2>4 DEF WriteKills, poolVars
  <2>5. CASE WorkerReturns(w)
    BY <2>5 DEF WorkerReturns
  <2> QED
    BY <1>4, <2>1, <2>2, <2>3, <2>4, <2>5 DEF WorkStep
<1>5. CASE Interrupt \/ JoinAccept \/ AllStopped \/ ShutdownPool \/ JoinWorkers
  BY <1>5 DEF Interrupt, JoinAccept, AllStopped, ShutdownPool, JoinWorkers, poolVars
<1>6. ASSUME NEW c \in Conns,
             StopConn(c) \/ ShutdownSocket(c) \/ CloseSocket(c) \/ JoinReader(c) \/ Destroy(c)
      PROVE  WorkersGone'
  BY <1>6 DEF StopConn, ShutdownSocket, CloseSocket, JoinReader, Destroy, poolVars
<1> QED
  BY <1>1, <1>2, <1>3, <1>4, <1>5, <1>6, WorkerDoes DEF Next, StopStep

\* Only the last join makes the process exit.
LEMMA ExitStep ==
  ASSUME IInv, Next, process' = "exited"
  PROVE  JoinWorkers
<1>1. process = "up"
  BY DEF Next
<1>2. ClientStep \/ AcceptStep \/ Interrupt => process' = process
  BY DEF ClientStep, Connect, Send, EndInput, Stall, Leave, AcceptStep, AcceptLoop, CallAccept, Accept, Interrupt,
     mainVars
<1>3. ASSUME NEW c \in Conns, ReaderStep(c)
      PROVE  process' = process
  BY <1>3 DEF ReaderStep, ReadFrame, Enqueue, ReaderReturns, mainVars
<1>4. ASSUME NEW w \in Workers, WorkStep(w)
      PROVE  process' \in {process, "killed"}
  BY <1>4 DEF WorkStep, TakeTask, RunTask, TaskEnds, WriteKills, WorkerReturns, mainVars
<1>5. ASSUME StopStep
      PROVE  process' \in {process, "terminated"} \/ JoinWorkers
  BY <1>5 DEF StopStep, JoinAccept, StopConn, ShutdownSocket, CloseSocket, JoinReader, AllStopped,
     Destroy, ShutdownPool
<1> QED
  BY <1>1, <1>2, <1>3, <1>4, <1>5, WorkerDoes DEF Next

LEMMA NextExit ==
  ASSUME IInv, Next
  PROVE  ExitIsClean'
<1> SUFFICES ASSUME process' = "exited"
             PROVE  /\ acceptor' = "returned"
                    /\ \A c \in Conns : reader'[c] \in {"none", "joined"}
                    /\ done' = {m \in Messages : m[2] <= got'[m[1]]}
  BY DEF ExitIsClean
<1>1. /\ main = "join_workers" /\ gone = Workers
      /\ \A c \in Conns : Unheld(c) => reader[c] = "joined"
      /\ UNCHANGED <<acceptor, reader, done, got>>
  BY ExitStep DEF JoinWorkers, connVars, poolVars
<1>2. acceptor = "returned" /\ conns = {} /\ joining = {} /\ closing = {}
  BY <1>1 DEF IInv, StopOrder
<1>3. queue = << >> /\ \A w \in Workers : job[w] = Idle
  BY <1>1, ThreadsAssumption DEF IInv, WorkersGone
<1>4. Queued = {} /\ Running = {}
  BY <1>3 DEF Queued, Running
<1>5. \A c \in Conns : reader[c] \in {"none", "returned", "joined"}
  BY <1>2 DEF IInv, ReadersKnown, Active, TypeOK
<1>6. \A c \in Conns : reader[c] \in {"none", "joined"}
  BY <1>1, <1>2, <1>4, <1>5 DEF Unheld
<1>7. done = {m \in Messages : m[2] <= got[m[1]]}
  <2>1. done \subseteq Messages /\ \A m \in done : m[2] <= got[m[1]]
    BY DEF IInv, TypeOK, MessagesRead, Taken
  <2>2. ASSUME NEW m \in Messages, m[2] <= got[m[1]]
        PROVE  m \in done
    <3>1. PICK c \in Conns, n \in 1 .. MaxSent : m = <<c, n>>
      BY DEF Messages
    <3>2. n \in 1 .. got[c]
      BY <2>2, <3>1, SentAssumption DEF IInv, TypeOK
    <3> QED
      BY <1>4, <1>6, <3>1, <3>2 DEF IInv, MessagesOnce, Taken
  <2> QED
    BY <2>1, <2>2
<1> QED
  BY <1>1, <1>2, <1>6, <1>7

-----------------------------------------------------------------------------
(* The theorems. *)

LEMMA InitIInv == Init => IInv
<1> SUFFICES ASSUME Init PROVE IInv
  OBVIOUS
<1>1. TypeOK
  BY InitType
<1>2. Queued = {} /\ Running = {} /\ done = {}
  BY DEF Init, Queued, Running
<1>3. StopOrder /\ ReadersKnown /\ WorkersGone /\ ExitIsClean
  BY SentAssumption DEF Init, StopOrder, ReadersKnown, Unknown, Active, WorkersGone, ExitIsClean
<1>4. MessagesRead /\ MessagesOnce
  BY <1>2 DEF Init, MessagesRead, MessagesOnce, Taken, QueueInjective
<1> QED
  BY <1>1, <1>3, <1>4 DEF IInv

LEMMA NextType ==
  ASSUME IInv, Next
  PROVE  TypeOK'
<1>1. TypeOK
  BY DEF IInv
<1>2. \A c \in Conns : got[c] <= sent[c] /\ (reader[c] = "holding" => got[c] # 0)
  BY DEF IInv, TypeOK, ReadersKnown
<1> QED
  BY <1>1, <1>2, ClientType, AcceptType, ReaderType, WorkerType, StopType, WorkerDoes DEF Next

THEOREM Invariance == Spec => []IInv
<1>1. Init => IInv
  BY InitIInv
<1>2. IInv /\ [Next]_vars => IInv'
  <2> SUFFICES ASSUME IInv, [Next]_vars PROVE IInv'
    OBVIOUS
  <2>1. CASE Next
    BY <2>1, NextType, NextOrder, NextReaders, NextMessages, NextWorkersGone, NextExit DEF IInv
  <2>2. CASE UNCHANGED vars
    <3> USE <2>2 DEF vars, mainVars, clientVars, connVars, poolVars, IInv
    <3>1. TypeOK' /\ StopOrder'
      BY DEF TypeOK, StopOrder
    <3>2. ReadersKnown'
      BY DEF ReadersKnown, Unknown, Active
    <3>3. MessagesRead' /\ MessagesOnce'
      BY MessagesFrame
    <3>4. WorkersGone' /\ ExitIsClean'
      BY DEF WorkersGone, ExitIsClean
    <3> QED
      BY <3>1, <3>2, <3>3, <3>4
  <2> QED
    BY <2>1, <2>2
<1> QED
  BY <1>1, <1>2, PTL DEF Spec

\* The threads' states and the queues have their types in every reachable
\* state.
THEOREM TypeCorrect == Spec => []TypeOK
<1>1. IInv => TypeOK
  BY DEF IInv
<1> QED
  BY <1>1, Invariance, PTL

\* Once the pool is stopping, the accept thread has returned and no reader
\* runs (Server::stop joins the accept thread before it takes the list).
THEOREM NoReaderIsLeft == Spec => []NoReaderLeft
<1>1. IInv => NoReaderLeft
  BY ReaderNotStopping DEF IInv, StopOrder, NoReaderLeft, Active, MainPoints
<1> QED
  BY <1>1, Invariance, PTL

\* A sequence without repetition has as many elements as its length.
LEMMA CardinalityOfQueue ==
  ASSUME NEW M, NEW q \in Seq(M), \A i, j \in DOMAIN q : q[i] = q[j] => i = j
  PROVE  Cardinality({q[i] : i \in DOMAIN q}) = Len(q)
<1> DEFINE S == 1 .. Len(q)
           T == {q[i] : i \in DOMAIN q}
<1>1. DOMAIN q = S /\ Len(q) \in Nat
  BY LenProperties
<1>2. IsFiniteSet(S) /\ Cardinality(S) = Len(q)
  BY <1>1, FS_Interval, SMTT(30)
<1>3. [i \in S |-> q[i]] \in Bijection(S, T)
  BY <1>1 DEF Bijection, Injection, Surjection, IsInjective
<1>4. ExistsBijection(S, T)
  BY <1>3 DEF ExistsBijection
<1> HIDE DEF S, T
<1> QED
  BY <1>2, <1>4, FS_Bijection DEF T

\* No handler runs twice for a message, none is lost between the reader and
\* the workers, and the pool turns none away (ThreadPool, handle_message).
THEOREM MessagesHandledOnce == Spec => []EachMessageOnce
<1>1. IInv => EachMessageOnce
  <2> SUFFICES ASSUME IInv PROVE EachMessageOnce
    OBVIOUS
  <2>1. Cardinality(Queued) = Len(queue)
    BY CardinalityOfQueue DEF IInv, TypeOK, MessagesOnce, QueueInjective, Queued
  <2> QED
    BY <2>1 DEF IInv, MessagesOnce, EachMessageOnce, Taken
<1> QED
  BY <1>1, Invariance, PTL

\* When the process exits, what was read has been run and no thread is left.
THEOREM ExitsCleanly == Spec => []ExitIsClean
<1>1. IInv => ExitIsClean
  BY DEF IInv
<1> QED
  BY <1>1, Invariance, PTL
=============================================================================
