----------------------------- MODULE ClientCore -----------------------------
(***************************************************************************)
(* The SDL client: its only thread of its own, which draws the frames and  *)
(* runs ClientCore::connect, disconnect and send_message                   *)
(* (client/src/core.cpp, the loops of client/src/ui.cpp and                *)
(* client/src/main.cpp), and the reader thread of each connection.         *)
(*                                                                         *)
(* A step is what a thread does between two points where another can act:  *)
(* an access of connected_ or fd_, a system call, a section under          *)
(* queue_mtx_, a join.  A frame is the pair of its connection and its      *)
(* position there; this server sends none that decode_frame refuses        *)
(* (FrameStream).  What handle_event makes of it is left out.              *)
(***************************************************************************)
EXTENDS Naturals, SequencesExt

CONSTANTS MaxConns,  \* bound: connections that succeed
          MaxFrames  \* bound: frames the server sends on one of them

ASSUME BoundsAssumption == MaxConns \in Nat /\ MaxFrames \in Nat

VARIABLES
  \* the process and the UI thread
  process,    \* "up", or how it ended: "exited", "terminated", "killed"
  ui,         \* where the UI thread is
  quitting,   \* render_ui returned false
  \* the members of ClientCore
  fd,         \* fd_: the connection it belongs to, or None for -1
  connected,  \* connected_
  handle,     \* reader_: the thread it refers to, or None
  queue,      \* queue_
  \* the kernel and the server
  opened,     \* connections made so far
  open,       \* the sockets that are not closed
  shut,       \* those that are shut down
  peer,       \* the server's end: "up", "closed", or "reset" by a write after that
  sent,       \* how many frames the server has sent on each
  got,        \* how many of them have been read
  \* the reader threads
  reader,     \* where each of them is
  on,         \* the socket its read_frame works on
  held,       \* the frame it has read and not yet queued
  \* history
  handled     \* the events given to handle_event

uiVars == <<process, ui, quitting>>
kernelVars == <<opened, open, shut, peer, sent>>
readerVars == <<reader, on, held>>
vars == <<uiVars, fd, connected, handle, queue, kernelVars, got, readerVars, handled>>

None == 0
Conns == 1 .. MaxConns
Frames == Conns \X (1 .. MaxFrames)
NoFrame == <<None, None>>

TypeOK ==
  /\ process \in {"up", "exited", "terminated", "killed"}
  /\ ui \in {"drain", "render", "shutting", "closing", "joining", "opening", "spawning",
             "destroying"}
  /\ quitting \in BOOLEAN /\ connected \in BOOLEAN
  /\ fd \in Conns \cup {None} /\ handle \in Conns \cup {None}
  /\ queue \in Seq(Frames) /\ handled \in Seq(Frames)
  /\ opened \in Conns \cup {None}
  /\ open \subseteq 1 .. opened /\ shut \subseteq 1 .. opened
  /\ peer \in [Conns -> {"up", "closed", "reset"}]
  /\ sent \in [Conns -> 0 .. MaxFrames]
  /\ \A c \in Conns : got[c] \in 0 .. sent[c]
  /\ reader \in [Conns -> {"none", "checking", "calling", "reading", "holding", "ending",
                           "returned"}]
  /\ on \in [Conns -> Conns \cup {None}]
  /\ held \in [Conns -> Frames \cup {NoFrame}]

Init ==
  /\ process = "up" /\ ui = "drain" /\ quitting = FALSE
  /\ fd = None /\ connected = FALSE /\ handle = None /\ queue = << >>
  /\ opened = 0 /\ open = {} /\ shut = {}
  /\ peer = [c \in Conns |-> "up"]
  /\ sent = [c \in Conns |-> 0] /\ got = [c \in Conns |-> 0]
  /\ reader = [c \in Conns |-> "none"]
  /\ on = [c \in Conns |-> None] /\ held = [c \in Conns |-> NoFrame]
  /\ handled = << >>

-----------------------------------------------------------------------------
(* The UI thread: a frame draws what has come and sees one click at most. *)

\* pop_event, until the queue is empty.
PopEvent ==
  /\ ui = "drain"
  /\ queue # << >>
  /\ handled' = Append(handled, Head(queue)) /\ queue' = Tail(queue)
  /\ UNCHANGED <<uiVars, fd, connected, handle, kernelVars, got, readerVars>>

DrainEnds ==
  /\ ui = "drain"
  /\ queue = << >>
  /\ ui' = "render"
  /\ UNCHANGED <<process, quitting, fd, connected, handle, queue, kernelVars, got,
                 readerVars, handled>>

\* The exchange that opens disconnect: nothing more to do unless connected_.
Disconnect(next) ==
  /\ connected' = FALSE
  /\ ui' = IF connected THEN "shutting" ELSE next

\* One more frame, or the last one: ~ClientCore disconnects.
FrameEnds ==
  /\ ui = "render"
  /\ \/ ui' = "drain" /\ UNCHANGED <<quitting, connected>>
     \/ quitting' = TRUE /\ Disconnect("destroying")
  /\ UNCHANGED <<process, fd, handle, queue, kernelVars, got, readerVars, handled>>

\* connect begins with a disconnect.
ClickConnect ==
  /\ ui = "render"
  /\ opened < MaxConns
  /\ Disconnect("opening")
  /\ UNCHANGED <<process, quitting, fd, handle, queue, kernelVars, got, readerVars,
                 handled>>

\* send_message to a server that closed its end: the first is answered by a
\* reset, and the next raises SIGPIPE, for which nothing is installed.
ClickSend ==
  /\ ui = "render"
  /\ connected
  /\ peer[fd] # "up"
  /\ peer' = [peer EXCEPT ![fd] = "reset"]
  /\ process' = IF peer[fd] = "reset" THEN "killed" ELSE process
  /\ ui' = "drain"
  /\ UNCHANGED <<quitting, fd, connected, handle, queue, opened, open, shut, sent, got,
                 readerVars, handled>>

\* Mutant: the socket is closed only, which wakes no thread blocked in read.
ShutdownSkipped ==
  /\ ui = "shutting"
  /\ ui' = "closing"
  /\ UNCHANGED <<process, quitting, fd, connected, handle, queue, kernelVars, got,
                 readerVars, handled>>

Shutdown ==
  /\ ui = "shutting"
  /\ shut' = shut \cup {fd}
  /\ ui' = "closing"
  /\ UNCHANGED <<process, quitting, fd, connected, handle, queue, opened, open, peer, sent,
                 got, readerVars, handled>>

Close ==
  /\ ui = "closing"
  /\ open' = open \ {fd}
  /\ fd' = None
  /\ ui' = "joining"
  /\ UNCHANGED <<process, quitting, connected, handle, queue, opened, shut, peer, sent, got,
                 readerVars, handled>>

\* Mutants: the thread is detached; it is left as it is.
JoinDetached ==
  /\ ui = "joining"
  /\ handle' = None
  /\ ui' = IF quitting THEN "destroying" ELSE "opening"
  /\ UNCHANGED <<process, quitting, fd, connected, queue, kernelVars, got, readerVars,
                 handled>>
JoinLeft ==
  /\ ui = "joining"
  /\ ui' = IF quitting THEN "destroying" ELSE "opening"
  /\ UNCHANGED <<process, quitting, fd, connected, handle, queue, kernelVars, got,
                 readerVars, handled>>

Join ==
  /\ ui = "joining"
  /\ handle # None => reader[handle] = "returned"
  /\ handle' = None
  /\ ui' = IF quitting THEN "destroying" ELSE "opening"
  /\ UNCHANGED <<process, quitting, fd, connected, queue, kernelVars, got, readerVars,
                 handled>>

\* The host does not parse or refuses the connection.
OpenFails ==
  /\ ui = "opening"
  /\ fd' = None
  /\ ui' = "drain"
  /\ UNCHANGED <<process, quitting, connected, handle, queue, kernelVars, got, readerVars,
                 handled>>

Open ==
  /\ ui = "opening"
  /\ opened' = opened + 1
  /\ fd' = opened + 1 /\ open' = open \cup {opened + 1}
  /\ connected' = TRUE
  /\ ui' = "spawning"
  /\ UNCHANGED <<process, quitting, handle, queue, shut, peer, sent, got, readerVars,
                 handled>>

\* reader_ = std::thread(...): assigning to a joinable thread terminates.
Spawn ==
  /\ ui = "spawning"
  /\ IF handle = None
     THEN /\ handle' = fd
          /\ reader' = [reader EXCEPT ![fd] = "checking"]
          /\ ui' = "drain"
          /\ UNCHANGED process
     ELSE process' = "terminated" /\ UNCHANGED <<handle, reader, ui>>
  /\ UNCHANGED <<quitting, fd, connected, queue, kernelVars, got, on, held, handled>>

\* The members are destroyed and main returns, unless reader_ is joinable.
Destroy ==
  /\ ui = "destroying"
  /\ process' = IF handle = None THEN "exited" ELSE "terminated"
  /\ UNCHANGED <<ui, quitting, fd, connected, handle, queue, kernelVars, got, readerVars,
                 handled>>

-----------------------------------------------------------------------------
(* A reader thread: reader_loop. *)

Check(r) ==
  /\ reader[r] = "checking"
  /\ reader' = [reader EXCEPT ![r] = IF connected THEN "calling" ELSE "ending"]
  /\ UNCHANGED <<uiVars, fd, connected, handle, queue, kernelVars, got, on, held, handled>>

\* fd_ is looked at after connected_: it may be -1, or closed, by now.
CallReadFrame(r) ==
  /\ reader[r] = "calling"
  /\ on' = [on EXCEPT ![r] = IF fd \in open THEN fd ELSE None]
  /\ reader' = [reader EXCEPT ![r] = "reading"]
  /\ UNCHANGED <<uiVars, fd, connected, handle, queue, kernelVars, got, held, handled>>

\* Mutant: the end of the stream is taken for a frame.
ReadFrameAtEnd(r) ==
  LET c == on[r]
  IN /\ reader[r] = "reading" /\ c # None
     /\ got[c] < sent[c] \/ peer[c] # "up"
     /\ got' = [got EXCEPT ![c] = @ + 1]
     /\ held' = [held EXCEPT ![r] = <<c, got[c] + 1>>]
     /\ reader' = [reader EXCEPT ![r] = "holding"]
     /\ UNCHANGED <<uiVars, fd, connected, handle, queue, kernelVars, on, handled>>

\* What had come before a shutdown can still be read.
ReadFrame(r) ==
  LET c == on[r]
  IN /\ reader[r] = "reading" /\ c # None
     /\ got[c] < sent[c]
     /\ got' = [got EXCEPT ![c] = @ + 1]
     /\ held' = [held EXCEPT ![r] = <<c, got[c] + 1>>]
     /\ reader' = [reader EXCEPT ![r] = "holding"]
     /\ UNCHANGED <<uiVars, fd, connected, handle, queue, kernelVars, on, handled>>

ReadFails(r) ==
  /\ reader[r] = "reading"
  /\ \/ on[r] = None
     \/ on[r] \in shut
     \/ on[r] # None /\ peer[on[r]] # "up" /\ got[on[r]] = sent[on[r]]
  /\ reader' = [reader EXCEPT ![r] = "ending"]
  /\ UNCHANGED <<uiVars, fd, connected, handle, queue, kernelVars, got, on, held, handled>>

\* Mutant: connected_ is looked at again before the frame is queued.
PushIfConnected(r) ==
  /\ reader[r] = "holding"
  /\ queue' = IF connected THEN Append(queue, held[r]) ELSE queue
  /\ held' = [held EXCEPT ![r] = NoFrame]
  /\ reader' = [reader EXCEPT ![r] = "checking"]
  /\ UNCHANGED <<uiVars, fd, connected, handle, kernelVars, got, on, handled>>

Push(r) ==
  /\ reader[r] = "holding"
  /\ queue' = Append(queue, held[r])
  /\ held' = [held EXCEPT ![r] = NoFrame]
  /\ reader' = [reader EXCEPT ![r] = "checking"]
  /\ UNCHANGED <<uiVars, fd, connected, handle, kernelVars, got, on, handled>>

ReaderEnds(r) ==
  /\ reader[r] = "ending"
  /\ connected' = FALSE
  /\ reader' = [reader EXCEPT ![r] = "returned"]
  /\ UNCHANGED <<uiVars, fd, handle, queue, kernelVars, got, on, held, handled>>

-----------------------------------------------------------------------------
(* The server's end of a connection. *)

ServerSends(c) ==
  /\ c \in open /\ peer[c] = "up"
  /\ sent[c] < MaxFrames
  /\ sent' = [sent EXCEPT ![c] = @ + 1]
  /\ UNCHANGED <<uiVars, fd, connected, handle, queue, opened, open, shut, peer, got,
                 readerVars, handled>>

ServerCloses(c) ==
  /\ c \in open /\ peer[c] = "up"
  /\ peer' = [peer EXCEPT ![c] = "closed"]
  /\ UNCHANGED <<uiVars, fd, connected, handle, queue, opened, open, shut, sent, got,
                 readerVars, handled>>

-----------------------------------------------------------------------------
UserStep == ClickConnect \/ ClickSend

UiStep ==
  \/ PopEvent \/ DrainEnds \/ FrameEnds
  \/ Shutdown \/ Close \/ Join
  \/ OpenFails \/ Open \/ Spawn
  \/ Destroy

ReaderStep(r) ==
  \/ Check(r) \/ CallReadFrame(r) \/ ReadFrame(r) \/ ReadFails(r)
  \/ Push(r) \/ ReaderEnds(r)

Next ==
  /\ process = "up"
  /\ \/ UserStep \/ UiStep
     \/ \E r \in Conns : ReaderStep(r)
     \/ \E c \in Conns : ServerSends(c) \/ ServerCloses(c)

Spec == Init /\ [][Next]_vars

\* The threads are scheduled; the user and the server do what they like.
FairSpec ==
  /\ Spec
  /\ WF_vars(process = "up" /\ UiStep)
  /\ \A r \in Conns : WF_vars(process = "up" /\ ReaderStep(r))

-----------------------------------------------------------------------------
Before(f, g) == f[1] < g[1] \/ (f[1] = g[1] /\ f[2] < g[2])

\* The frames read are queued and handled once, in the order the server sent
\* them, those of an earlier connection first: none is lost or overtaken when
\* the user connects again (reader_loop, disconnect, pop_event).
EventsInOrder ==
  LET events == handled \o queue
  IN /\ \A i, j \in DOMAIN events : i < j => Before(events[i], events[j])
     /\ \A f \in Frames :
          f[2] <= got[f[1]] => f \in Range(events) \/ \E r \in Conns : held[r] = f

\* One reader runs at most, that of the latest connection, which the next
\* disconnect can still join; it never reads from another socket (connect,
\* disconnect, reader_loop).
OneReader ==
  \A r \in Conns : reader[r] \notin {"none", "returned"} =>
    /\ r = opened /\ handle = r
    /\ on[r] \in {r, None}

\* std::terminate and SIGPIPE end the client only after the server has closed
\* a connection: connecting again and quitting are safe as long as it has not
\* (connect, disconnect, ~ClientCore).
DiesOnlyAfterServerClose ==
  process \in {"terminated", "killed"} => \E c \in 1 .. opened : peer[c] # "up"

\* The UI does not hang in disconnect: the shutdown ends the reader's read
\* (disconnect).
DisconnectReturns == (ui = "joining") ~> (ui # "joining")
=============================================================================
