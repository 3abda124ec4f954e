--------------------------- MODULE RequestServer ----------------------------
(***************************************************************************)
(* The threads of the server: main, which waits for SIGINT and stops the   *)
(* server; the accept thread; one reader thread per Connection; and the    *)
(* workers of the ThreadPool, which run one task per message read and      *)
(* write its reply (server/src/server.cpp, server/src/thread_pool.cpp, end *)
(* of server/src/main.cpp).                                                *)
(*                                                                         *)
(* A step is what a thread does between two points where another can act:  *)
(* a section under a mutex, a system call, or a join.  A message is the    *)
(* pair of its connection and its position there; what the handler does    *)
(* with it is ExamRoom's business.  A descriptor number is not given to    *)
(* another file between the close of fd_ and a write that read it before.  *)
(***************************************************************************)
EXTENDS Naturals, Sequences, FiniteSets

CONSTANTS Conns,    \* the clients that may connect, once each
          Faulty,   \* those that may leave, or stop sending or reading
          Workers,  \* the threads of the pool
          MaxSent,  \* bound: messages a client sends
          Talkers,  \* bound: the clients that send more than one
          Idle      \* a worker without a task

ASSUME ThreadsAssumption == Workers # {} /\ Faulty \subseteq Conns
ASSUME SentAssumption == MaxSent \in Nat
ASSUME IdleAssumption == Idle \notin Conns \X Nat

VARIABLES
  process,    \* "up", or how it ended: "exited", "terminated", "killed"
  main,       \* where main is in Server::stop
  joining,    \* the connections close_all_connections has still to stop
  closing,    \* the one whose Connection::stop has found it alive
  acceptor,   \* where the accept thread is
  listening,  \* listen_fd_ is open
  running,    \* running_
  net,        \* the client's end of each connection
  sent,       \* how many messages each client has sent
  finished,   \* the clients whose stream no message can follow in
  got,        \* how many of them its reader has read
  conns,      \* connections_
  alive,      \* alive_
  sock,       \* fd_ and its socket
  reader,     \* the reader thread of each connection
  queue,      \* tasks_
  stopping,   \* stopping_
  job,        \* the task of each worker
  writing,    \* the workers that hold send_mtx_ of their connection
  gone,       \* the workers that returned from worker_loop
  done,       \* the messages whose task has run
  dropped     \* the messages enqueue has turned away

mainVars == <<process, main, joining, closing, running, listening>>
clientVars == <<net, sent, finished>>
connVars == <<got, alive, sock, reader>>
poolVars == <<stopping, job, writing, gone, done>>
vars == <<mainVars, acceptor, clientVars, conns, connVars, queue, poolVars, dropped>>

Messages == Conns \X (1 .. MaxSent)

MainPoints == {"serving", "join_accept", "close_conns", "shutdown", "close", "join_reader",
               "destroy", "join_workers", "done"}

Queued == {queue[i] : i \in DOMAIN queue}
Running == {job[w] : w \in Workers} \ {Idle}

TypeOK ==
  /\ process \in {"up", "exited", "terminated", "killed"}
  /\ main \in MainPoints
  /\ joining \subseteq Conns /\ closing \subseteq Conns
  /\ acceptor \in {"check", "calling", "blocked", "returned"}
  /\ listening \in BOOLEAN /\ running \in BOOLEAN
  /\ net \in [Conns -> {"none", "backlog", "up", "stalled", "left", "reset"}]
  /\ sent \in [Conns -> 0 .. MaxSent] /\ got \in [Conns -> 0 .. MaxSent]
  /\ finished \subseteq Conns /\ conns \subseteq Conns
  /\ alive \in [Conns -> BOOLEAN] /\ sock \in [Conns -> {"none", "open", "shut", "closed"}]
  /\ reader \in [Conns -> {"none", "reading", "holding", "returned", "joined"}]
  /\ queue \in Seq(Messages)
  /\ stopping \in BOOLEAN
  /\ job \in [Workers -> Messages \cup {Idle}]
  /\ writing \subseteq Workers /\ gone \subseteq Workers
  /\ done \subseteq Messages /\ dropped \subseteq Messages

\* Server::start has returned: the accept thread runs and nobody has called.
Init ==
  /\ process = "up" /\ main = "serving" /\ joining = {} /\ closing = {}
  /\ acceptor = "check" /\ listening = TRUE /\ running = TRUE
  /\ net = [c \in Conns |-> "none"]
  /\ sent = [c \in Conns |-> 0] /\ got = [c \in Conns |-> 0]
  /\ finished = {} /\ conns = {}
  /\ alive = [c \in Conns |-> FALSE] /\ sock = [c \in Conns |-> "none"]
  /\ reader = [c \in Conns |-> "none"]
  /\ queue = <<>> /\ stopping = FALSE
  /\ job = [w \in Workers |-> Idle] /\ writing = {} /\ gone = {}
  /\ done = {} /\ dropped = {}

-----------------------------------------------------------------------------
(* Clients. *)

\* The kernel completes the handshake while the accept thread is blocked,
\* even after another thread closed listen_fd_: accept keeps the socket.
Connect(c) ==
  /\ net[c] = "none"
  /\ listening \/ acceptor = "blocked"
  /\ net' = [net EXCEPT ![c] = "backlog"]
  /\ UNCHANGED <<mainVars, acceptor, sent, finished, conns, connVars, queue, poolVars,
                 dropped>>

Send(c) ==
  /\ net[c] \in {"backlog", "up", "stalled"}
  /\ c \notin finished
  /\ sent[c] < MaxSent /\ (c \in Talkers \/ sent[c] = 0)
  /\ sent' = [sent EXCEPT ![c] = @ + 1]
  /\ UNCHANGED <<mainVars, acceptor, net, finished, conns, connVars, queue, poolVars,
                 dropped>>

\* The client closes its end for writing and goes on reading, or sends a
\* length that read_frame refuses.
EndInput(c) ==
  /\ c \in Faulty
  /\ net[c] \in {"up", "stalled"}
  /\ finished' = finished \cup {c}
  /\ UNCHANGED <<mainVars, acceptor, net, sent, conns, connVars, queue, poolVars, dropped>>

\* The client reads no more and stays connected.
Stall(c) ==
  /\ c \in Faulty
  /\ net[c] = "up"
  /\ net' = [net EXCEPT ![c] = "stalled"]
  /\ UNCHANGED <<mainVars, acceptor, sent, finished, conns, connVars, queue, poolVars,
                 dropped>>

\* The client closes its end.
Leave(c) ==
  /\ c \in Faulty
  /\ net[c] \in {"up", "stalled"}
  /\ net' = [net EXCEPT ![c] = "left"]
  /\ UNCHANGED <<mainVars, acceptor, sent, finished, conns, connVars, queue, poolVars,
                 dropped>>

-----------------------------------------------------------------------------
(* The accept thread. *)

AcceptLoop ==
  /\ acceptor = "check"
  /\ acceptor' = IF running THEN "calling" ELSE "returned"
  /\ UNCHANGED <<mainVars, clientVars, conns, connVars, queue, poolVars, dropped>>

\* accept on a closed descriptor fails at once, and running_ is false then.
CallAccept ==
  /\ acceptor = "calling"
  /\ acceptor' = IF listening THEN "blocked" ELSE "returned"
  /\ UNCHANGED <<mainVars, clientVars, conns, connVars, queue, poolVars, dropped>>

\* Only a client makes accept return.
Accept(c) ==
  /\ acceptor = "blocked"
  /\ net[c] = "backlog"
  /\ acceptor' = "check"
  /\ net' = [net EXCEPT ![c] = "up"]
  /\ conns' = conns \cup {c}
  /\ alive' = [alive EXCEPT ![c] = TRUE]
  /\ sock' = [sock EXCEPT ![c] = "open"]
  /\ reader' = [reader EXCEPT ![c] = "reading"]
  /\ UNCHANGED <<mainVars, sent, finished, got, queue, poolVars, dropped>>

-----------------------------------------------------------------------------
(* The reader of a connection. *)

\* Mutant: a frame is returned although none has come.
ReadFrameOfNothing(c) ==
  /\ reader[c] = "reading"
  /\ sock[c] \in {"open", "shut"}
  /\ got' = [got EXCEPT ![c] = @ + 1]
  /\ reader' = [reader EXCEPT ![c] = "holding"]
  /\ UNCHANGED <<mainVars, acceptor, clientVars, conns, alive, sock, queue, poolVars,
                 dropped>>

\* What came before a shutdown can still be read after it.
ReadFrame(c) ==
  /\ reader[c] = "reading"
  /\ sock[c] \in {"open", "shut"}
  /\ got[c] < sent[c]
  /\ got' = [got EXCEPT ![c] = @ + 1]
  /\ reader' = [reader EXCEPT ![c] = "holding"]
  /\ UNCHANGED <<mainVars, acceptor, clientVars, conns, alive, sock, queue, poolVars,
                 dropped>>

\* handle_message: the task is pushed, or turned away by a stopping pool.
\* The reader goes on to the next frame while alive_ is set.
Enqueue(c) ==
  /\ reader[c] = "holding"
  /\ IF stopping
     THEN dropped' = dropped \cup {<<c, got[c]>>} /\ queue' = queue
     ELSE queue' = Append(queue, <<c, got[c]>>) /\ dropped' = dropped
  /\ reader' = [reader EXCEPT ![c] = IF alive[c] THEN "reading" ELSE "returned"]
  /\ UNCHANGED <<mainVars, acceptor, clientVars, conns, got, alive, sock, poolVars>>

\* read_frame fails: Connection::stop shut the socket down; the client has
\* closed, or sent a refused length, after its last message; or the
\* connection was reset, as a client does that closes with replies unread.
\* The reader leaves fd_ open.
ReaderReturns(c) ==
  /\ reader[c] = "reading"
  /\ \/ /\ \/ sock[c] \in {"shut", "closed"}
           \/ got[c] = sent[c] /\ (net[c] = "left" \/ c \in finished)
           \/ net[c] = "reset"
        /\ net' = net
     \/ net[c] = "left" /\ net' = [net EXCEPT ![c] = "reset"]
  /\ reader' = [reader EXCEPT ![c] = "returned"]
  /\ alive' = [alive EXCEPT ![c] = FALSE]
  /\ UNCHANGED <<mainVars, acceptor, sent, finished, conns, got, sock, queue, poolVars,
                 dropped>>

-----------------------------------------------------------------------------
(* The workers. *)

\* Mutant: the task is copied, not moved, out of the queue.
TakeTaskCopy(w) ==
  /\ job[w] = Idle /\ w \notin gone
  /\ queue # <<>>
  /\ job' = [job EXCEPT ![w] = Head(queue)]
  /\ UNCHANGED <<mainVars, acceptor, clientVars, conns, connVars, queue, stopping, writing,
                 gone, done, dropped>>

TakeTask(w) ==
  /\ job[w] = Idle /\ w \notin gone
  /\ queue # <<>>
  /\ job' = [job EXCEPT ![w] = Head(queue)]
  /\ queue' = Tail(queue)
  /\ UNCHANGED <<mainVars, acceptor, clientVars, conns, connVars, stopping, writing, gone,
                 done, dropped>>

\* The handler runs, its reply is encoded and send_mtx_ locked.
RunTask(w) ==
  /\ job[w] # Idle /\ w \notin writing
  /\ \A v \in writing : job[v][1] # job[w][1]
  /\ writing' = writing \cup {w}
  /\ UNCHANGED <<mainVars, acceptor, clientVars, conns, connVars, queue, stopping, job,
                 gone, done, dropped>>

\* The write has returned.  With the task a connection may lose the last that
\* held it (see Destroy).
EndTask(w) ==
  /\ done' = done \cup {job[w]}
  /\ job' = [job EXCEPT ![w] = Idle]
  /\ writing' = writing \ {w}
  /\ UNCHANGED <<mainVars, acceptor, sent, finished, conns, connVars, queue, stopping, gone,
                 dropped>>

\* write_exact, to a socket as it is when write is called or that changes
\* while write blocks: a client that left answers the first reply with a
\* reset.
WriteReturns(w) ==
  LET c == job[w][1]
  IN /\ w \in writing
     /\ \/ sock[c] = "closed" /\ net' = net
        \/ sock[c] = "open" /\ net[c] = "up" /\ net' = net
        \/ sock[c] = "open" /\ net[c] = "left" /\ net' = [net EXCEPT ![c] = "reset"]
     /\ EndTask(w)

\* The buffers of the kernel still have room for a reply nobody reads.
WriteBuffered(w) ==
  /\ w \in writing
  /\ sock[job[w][1]] = "open" /\ net[job[w][1]] = "stalled"
  /\ net' = net
  /\ EndTask(w)

\* No handler of SIGPIPE is installed and write is called without
\* MSG_NOSIGNAL.
WriteKills(w) ==
  /\ w \in writing
  /\ \/ sock[job[w][1]] = "shut"
     \/ sock[job[w][1]] = "open" /\ net[job[w][1]] = "reset"
  /\ process' = "killed"
  /\ UNCHANGED <<main, joining, closing, running, listening, acceptor, clientVars, conns,
                 connVars, queue, poolVars, dropped>>

\* Mutant: the queue is not drained.
WorkerReturnsAtOnce(w) ==
  /\ job[w] = Idle /\ w \notin gone
  /\ stopping
  /\ gone' = gone \cup {w}
  /\ UNCHANGED <<mainVars, acceptor, clientVars, conns, connVars, queue, stopping, job,
                 writing, done, dropped>>

WorkerReturns(w) ==
  /\ job[w] = Idle /\ w \notin gone
  /\ stopping /\ queue = <<>>
  /\ gone' = gone \cup {w}
  /\ UNCHANGED <<mainVars, acceptor, clientVars, conns, connVars, queue, stopping, job,
                 writing, done, dropped>>

-----------------------------------------------------------------------------
(* Server::stop, called by main after SIGINT. *)

Interrupt ==
  /\ main = "serving"
  /\ running' = FALSE
  /\ listening' = FALSE
  /\ main' = "join_accept"
  /\ UNCHANGED <<process, joining, closing, acceptor, clientVars, conns, connVars, queue,
                 poolVars, dropped>>

\* Mutants: the accept thread is not joined; the pool is stopped before the
\* connections.
JoinAcceptSkipped ==
  /\ main = "join_accept"
  /\ joining' = conns
  /\ conns' = {}
  /\ main' = "close_conns"
  /\ UNCHANGED <<process, closing, running, listening, acceptor, clientVars, connVars, queue,
                 poolVars, dropped>>
JoinAcceptStopPool ==
  /\ main = "join_accept"
  /\ acceptor = "returned"
  /\ stopping' = TRUE
  /\ joining' = conns
  /\ conns' = {}
  /\ main' = "close_conns"
  /\ UNCHANGED <<process, closing, running, listening, acceptor, clientVars, connVars, queue,
                 job, writing, gone, done, dropped>>

\* The join returns, and close_all_connections takes the list.
JoinAccept ==
  /\ main = "join_accept"
  /\ acceptor = "returned"
  /\ joining' = conns
  /\ conns' = {}
  /\ main' = "close_conns"
  /\ UNCHANGED <<process, closing, running, listening, acceptor, clientVars, connVars, queue,
                 poolVars, dropped>>

\* Connection::stop: nothing for a connection that is not alive any more,
\* else its socket is shut down and closed, and its reader joined.
StopConn(c) ==
  /\ main = "close_conns"
  /\ c \in joining
  /\ joining' = joining \ {c}
  /\ IF alive[c]
     THEN /\ alive' = [alive EXCEPT ![c] = FALSE]
          /\ closing' = {c}
          /\ main' = "shutdown"
     ELSE UNCHANGED <<alive, closing, main>>
  /\ UNCHANGED <<process, running, listening, acceptor, clientVars, conns, got, sock, reader,
                 queue, poolVars, dropped>>

\* A read or a write that blocks returns.
ShutdownSocket(c) ==
  /\ main = "shutdown"
  /\ c \in closing
  /\ sock' = [sock EXCEPT ![c] = "shut"]
  /\ main' = "close"
  /\ UNCHANGED <<process, joining, closing, running, listening, acceptor, clientVars, conns,
                 got, alive, reader, queue, poolVars, dropped>>

\* close and fd_ = -1: a write finds no file in either.
CloseSocket(c) ==
  /\ main = "close"
  /\ c \in closing
  /\ sock' = [sock EXCEPT ![c] = "closed"]
  /\ main' = "join_reader"
  /\ UNCHANGED <<process, joining, closing, running, listening, acceptor, clientVars, conns,
                 got, alive, reader, queue, poolVars, dropped>>

JoinReader(c) ==
  /\ main = "join_reader"
  /\ c \in closing
  /\ reader[c] = "returned"
  /\ reader' = [reader EXCEPT ![c] = "joined"]
  /\ closing' = {}
  /\ main' = "close_conns"
  /\ UNCHANGED <<process, joining, running, listening, acceptor, clientVars, conns, got,
                 alive, sock, queue, poolVars, dropped>>

\* The list goes out of scope.
AllStopped ==
  /\ main = "close_conns"
  /\ joining = {}
  /\ main' = "destroy"
  /\ UNCHANGED <<process, joining, closing, running, listening, acceptor, clientVars,
                 conns, connVars, queue, poolVars, dropped>>

\* A connection is destroyed when neither connections_ nor a task holds it.
\* Its reader thread, if it returned by itself, was never joined, and the
\* destructor of a joinable std::thread calls std::terminate.
Unheld(c) ==
  /\ reader[c] \in {"returned", "joined"}
  /\ c \notin conns
  /\ \A m \in Queued \cup Running : m[1] # c

Destroy(c) ==
  /\ main \in {"destroy", "join_workers"}
  /\ Unheld(c)
  /\ reader[c] = "returned"
  /\ process' = "terminated"
  /\ UNCHANGED <<main, joining, closing, running, listening, acceptor, clientVars, conns,
                 connVars, queue, poolVars, dropped>>

\* Mutant: the workers are not told.
ShutdownPoolSilently ==
  /\ main = "destroy"
  /\ \A c \in Conns : Unheld(c) => reader[c] = "joined"
  /\ main' = "join_workers"
  /\ UNCHANGED <<process, joining, closing, running, listening, acceptor, clientVars,
                 conns, connVars, queue, poolVars, dropped>>

\* ThreadPool::shutdown, once the connections nobody holds are destroyed.
ShutdownPool ==
  /\ main = "destroy"
  /\ \A c \in Conns : Unheld(c) => reader[c] = "joined"
  /\ stopping' = TRUE
  /\ main' = "join_workers"
  /\ UNCHANGED <<process, joining, closing, running, listening, acceptor, clientVars,
                 conns, connVars, queue, job, writing, gone, done, dropped>>

JoinWorkers ==
  /\ main = "join_workers"
  /\ gone = Workers
  /\ \A c \in Conns : Unheld(c) => reader[c] = "joined"
  /\ main' = "done"
  /\ process' = "exited"
  /\ UNCHANGED <<joining, closing, running, listening, acceptor, clientVars, conns,
                 connVars, queue, poolVars, dropped>>

-----------------------------------------------------------------------------
ClientStep == \E c \in Conns : Connect(c) \/ Send(c) \/ EndInput(c) \/ Stall(c) \/ Leave(c)

AcceptStep == AcceptLoop \/ CallAccept \/ \E c \in Conns : Accept(c)

ReaderStep(c) == ReadFrame(c) \/ Enqueue(c) \/ ReaderReturns(c)

WorkerStep(w) ==
  TakeTask(w) \/ RunTask(w) \/ WriteReturns(w) \/ WriteKills(w) \/ WorkerReturns(w)

StopStep ==
  \/ JoinAccept \/ AllStopped \/ ShutdownPool \/ JoinWorkers
  \/ \E c \in Conns : StopConn(c) \/ ShutdownSocket(c) \/ CloseSocket(c) \/ JoinReader(c)
                     \/ Destroy(c)

Next ==
  /\ process = "up"
  /\ \/ ClientStep
     \/ AcceptStep
     \/ \E c \in Conns : ReaderStep(c)
     \/ \E w \in Workers : WorkerStep(w) \/ WriteBuffered(w)
     \/ Interrupt
     \/ StopStep

Spec == Init /\ [][Next]_vars

\* The threads of the process are scheduled; clients and the user who presses
\* Ctrl+C do what they like, and no buffer is promised to have room.
FairSpec ==
  /\ Spec
  /\ WF_vars(process = "up" /\ AcceptStep)
  /\ WF_vars(process = "up" /\ StopStep)
  /\ \A c \in Conns : WF_vars(process = "up" /\ ReaderStep(c))
  /\ \A w \in Workers : WF_vars(process = "up" /\ WorkerStep(w))

-----------------------------------------------------------------------------
\* Each message read is in one place: with its reader, queued, with one
\* worker, or done; so no handler runs twice for one message, and none is
\* turned away by the pool, which Server::stop stops after the connections
\* (ThreadPool::worker_loop, ThreadPool::enqueue, Connection::read_loop).
EachMessageOnce ==
  /\ dropped = {}
  /\ \A c \in Conns : \A n \in 1 .. got[c] :
       \/ reader[c] = "holding" /\ n = got[c]
       \/ <<c, n>> \in Queued \cup Running \cup done
  /\ Queued \cap Running = {} /\ Queued \cap done = {} /\ Running \cap done = {}
  /\ Cardinality(Queued) = Len(queue)
  /\ \A v, w \in Workers : job[v] = job[w] /\ job[v] # Idle => v = w

\* When the process exits, everything that was read has been run and no thread
\* is left (Server::stop, ThreadPool::shutdown).
ExitIsClean ==
  process = "exited" =>
    /\ acceptor = "returned"
    /\ \A c \in Conns : reader[c] \in {"none", "joined"}
    /\ done = {m \in Messages : m[2] <= got[m[1]]}

\* Once the pool is stopping, no connection can be registered or read from:
\* the accept thread is joined before the list is taken
\* (Server::accept_loop, Server::close_all_connections).
NoReaderLeft ==
  stopping => /\ acceptor = "returned" /\ conns = {}
              /\ \A c \in Conns : reader[c] \notin {"reading", "holding"}

\* The worker's client stays connected and does not read: the worker is
\* blocked in write, or waits for send_mtx_ behind one that is.
Held(w) == job[w] # Idle /\ net[job[w][1]] = "stalled" /\ sock[job[w][1]] = "open"

\* What a reader has read is run, also while the server is stopped and when
\* its client has left, unless the process dies, its own client stops reading
\* for good, or clients that did so hold every worker of the pool
\* (ThreadPool, Server::handle_message, Connection::send).
ReadIsRun ==
  \/ <>[](\A w \in Workers : Held(w))
  \/ \A m \in Messages :
       \/ <>[](net[m[1]] = "stalled")
       \/ (got[m[1]] >= m[2]) ~> (m \in done \/ process \in {"terminated", "killed"})

\* After Ctrl+C the process ends, unless the accept thread stays blocked in
\* accept, which nothing but one more client ends, or a worker stays blocked
\* in write to a client whose reader had returned before, so that
\* Connection::stop shuts nothing down (Server::stop, ThreadPool::shutdown).
StopEnds ==
  \/ <>[](acceptor = "blocked")
  \/ <>[](\E w \in Workers : Held(w) /\ reader[job[w][1]] = "returned")
  \/ (main = "join_accept") ~> (process # "up")

\* Connection::~Connection stops its connection; the process ends by
\* returning from main (main.cpp:924 prints "stopped"), never by terminate.
NeverTerminates == process # "terminated"
=============================================================================
