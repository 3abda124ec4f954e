--------------------------- MODULE ClientCoreProofs ---------------------------
(***************************************************************************)
(* Proofs about ClientCore, for every number of connections and frames.    *)
(***************************************************************************)
EXTENDS ClientCore, SequenceTheorems, TLAPS

(***************************************************************************)
(* The inductive invariant.                                                *)
(***************************************************************************)

Active(r) == reader[r] \notin {"none", "returned"}

\* The window is being drawn, and no disconnect is under way.
Drawing == ui \in {"drain", "render"}

GotTyped == got \in [Conns -> 0 .. MaxFrames]

\* The bound on connections is kept from the click to the connection.
Bounded ==
  /\ ui = "opening" => opened < MaxConns
  /\ ui \in {"shutting", "closing", "joining"} /\ ~ quitting => opened < MaxConns

\* fd_ and reader_ never refer to anything but the latest connection, except
\* that a joinable thread may still be there when the next one is spawned.
Latest ==
  /\ fd \in {None, opened}
  /\ handle \in {None, opened} \/ (ui = "spawning" /\ handle < opened)
  /\ handle # None => reader[handle] # "none"
  /\ \A r \in Conns :
       /\ r > opened => reader[r] = "none"
       /\ Active(r) => /\ r = opened /\ handle = r
                       /\ ui \notin {"opening", "spawning", "destroying"}
       /\ on[r] \in {r, None}

\* connected_, wherever the UI thread is: while the window is drawn it says
\* whether a reader runs.
ConnectedMeans ==
  /\ connected => /\ ui \in {"drain", "render", "spawning"}
                  /\ opened # None /\ fd = opened /\ opened \in open \ shut
  /\ Drawing => (connected <=> handle # None /\ Active(handle))
  /\ ui = "spawning" => connected /\ reader[opened] = "none"
  /\ ui \in {"shutting", "closing"} => opened # None /\ fd = opened

\* A reader that ends by itself does so because the server closed its end.
EndedByServer ==
  /\ Drawing =>
       /\ opened # None /\ reader[opened] = "reading" => on[opened] = opened
       /\ handle # None /\ reader[handle] \in {"ending", "returned"} => peer[handle] # "up"
  /\ ui \in {"opening", "spawning", "destroying"} /\ handle # None => peer[handle] # "up"

\* The frames that were queued are behind the reader.
Events == handled \o queue

EventsRead ==
  /\ \A i \in DOMAIN Events :
       LET f == Events[i]
       IN /\ f[1] <= opened /\ f[2] <= got[f[1]]
          /\ reader[f[1]] = "holding" => f[2] < got[f[1]]
  /\ \A r \in Conns :
       held[r] = IF reader[r] = "holding" THEN <<r, got[r]>> ELSE NoFrame

IInv ==
  /\ TypeOK
  /\ GotTyped
  /\ Bounded
  /\ Latest
  /\ ConnectedMeans
  /\ EndedByServer
  /\ DiesOnlyAfterServerClose
  /\ EventsRead
  /\ EventsInOrder
-----------------------------------------------------------------------------
(* Type correctness. *)

LEMMA UiType ==
  ASSUME IInv, UserStep \/ UiStep
  PROVE  TypeOK' /\ GotTyped'
<1> USE BoundsAssumption DEF IInv, TypeOK, GotTyped, Conns, None, uiVars, kernelVars, readerVars
<1>1. CASE PopEvent
  <2>1. /\ Head(queue) \in Frames /\ Tail(queue) \in Seq(Frames)
    BY <1>1, HeadTailProperties DEF PopEvent
  <2>2. Append(handled, Head(queue)) \in Seq(Frames)
    BY <2>1, AppendProperties
  <2> QED
    BY <1>1, <2>1, <2>2 DEF PopEvent
<1>2. CASE DrainEnds \/ FrameEnds \/ ClickConnect \/ OpenFails \/ Destroy \/ Join
  BY <1>2 DEF DrainEnds, FrameEnds, ClickConnect, OpenFails, Destroy, Join, Disconnect
<1>3. CASE ClickSend
  BY <1>3 DEF ClickSend
<1>4. CASE Shutdown \/ Close
  <2>1. fd \in 1 .. opened
    BY <1>4 DEF Shutdown, Close, ConnectedMeans
  <2> QED
    BY <1>4, <2>1 DEF Shutdown, Close
<1>5. CASE Open
  <2>1. opened < MaxConns
    BY <1>5 DEF Open, Bounded
  <2> QED
    BY <1>5, <2>1 DEF Open
<1>6. CASE Spawn
  BY <1>6 DEF Spawn
<1> QED
  BY <1>1, <1>2, <1>3, <1>4, <1>5, <1>6 DEF UserStep, UiStep

LEMMA ReaderType ==
  ASSUME IInv, NEW r \in Conns, ReaderStep(r)
  PROVE  TypeOK' /\ GotTyped'
<1> USE BoundsAssumption DEF IInv, TypeOK, GotTyped, Conns, None, uiVars, kernelVars, readerVars
<1>1. CASE Check(r) \/ ReadFails(r) \/ ReaderEnds(r)
  BY <1>1, ZenonT(30) DEF Check, ReadFails, ReaderEnds
<1>2. CASE CallReadFrame(r)
  BY <1>2, SMTT(30) DEF CallReadFrame
<1>3. CASE ReadFrame(r)
  <2>1. on[r] \in Conns /\ got[on[r]] + 1 \in 1 .. sent[on[r]] /\ sent[on[r]] \in 0 .. MaxFrames
    BY <1>3, SMTT(30) DEF ReadFrame
  <2>2. <<on[r], got[on[r]] + 1>> \in Frames /\ got[on[r]] + 1 \in 0 .. MaxFrames
    BY <2>1 DEF Frames
  <2>3. got' = [got EXCEPT ![on[r]] = @ + 1] /\ sent' = sent
    BY <1>3 DEF ReadFrame
  <2>4. GotTyped' /\ \A c \in Conns : got'[c] \in 0 .. sent[c]
    BY <2>1, <2>2, <2>3, SMTT(30)
  <2> QED
    BY <1>3, <2>2, <2>4, SMTT(30) DEF ReadFrame
<1>4. CASE Push(r)
  <2>1. held[r] \in Frames
    <3>1. held[r] = <<r, got[r]>> /\ held[r] \in Frames \cup {NoFrame}
      BY <1>4 DEF Push, EventsRead
    <3> QED
      BY <3>1 DEF NoFrame
  <2>2. Append(queue, held[r]) \in Seq(Frames)
    BY <2>1, AppendProperties
  <2> QED
    BY <1>4, <2>1, <2>2, SMTT(30) DEF Push
<1> QED
  BY <1>1, <1>2, <1>3, <1>4 DEF ReaderStep

LEMMA ServerType ==
  ASSUME IInv, NEW c \in Conns, ServerSends(c) \/ ServerCloses(c)
  PROVE  TypeOK' /\ GotTyped'
<1> USE BoundsAssumption DEF IInv, TypeOK, GotTyped, Conns, None, uiVars, kernelVars, readerVars
<1>1. CASE ServerSends(c)
  BY <1>1, SMTT(30) DEF ServerSends
<1>2. CASE ServerCloses(c)
  BY <1>2 DEF ServerCloses
<1> QED
  BY <1>1, <1>2

-----------------------------------------------------------------------------
(* The UI thread and the latest connection. *)

LEMMA NextBounded ==
  ASSUME IInv, Next
  PROVE  Bounded'
<1> USE DEF IInv, Bounded, uiVars, kernelVars, readerVars
<1>1. CASE UserStep
  BY <1>1 DEF UserStep, ClickConnect, ClickSend, Disconnect
<1>2. CASE UiStep
  BY <1>2 DEF UiStep, PopEvent, DrainEnds, FrameEnds, Disconnect, Shutdown, Close, Join,
     OpenFails, Open, Spawn, Destroy
<1>3. ASSUME NEW r \in Conns, ReaderStep(r) \/ ServerSends(r) \/ ServerCloses(r)
      PROVE  Bounded'
  BY <1>3 DEF ReaderStep, Check, CallReadFrame, ReadFrame, ReadFails, Push, ReaderEnds,
     ServerSends, ServerCloses
<1> QED
  BY <1>1, <1>2, <1>3 DEF Next

LEMMA NextLatest ==
  ASSUME IInv, Next
  PROVE  Latest'
<1> USE BoundsAssumption
    DEF IInv, TypeOK, Latest, Active, Conns, None, uiVars, kernelVars, readerVars
<1>1. CASE UserStep
  BY <1>1 DEF UserStep, ClickConnect, ClickSend, Disconnect, ConnectedMeans, Drawing
<1>2. CASE PopEvent \/ DrainEnds
  BY <1>2 DEF PopEvent, DrainEnds
<1>3. CASE FrameEnds
  BY <1>3 DEF FrameEnds, Disconnect, ConnectedMeans, Drawing
<1>4. CASE Shutdown \/ Close \/ Join
  BY <1>4, SMTT(30) DEF Shutdown, Close, Join
<1>5. CASE Open \/ OpenFails
  BY <1>5 DEF Open, OpenFails, Bounded
<1>6. CASE Spawn
  BY <1>6 DEF Spawn, ConnectedMeans
<1>7. CASE Destroy
  BY <1>7 DEF Destroy
<1>8. ASSUME NEW r \in Conns, ReaderStep(r)
      PROVE  Latest'
  <2>1. CASE Check(r)
    BY <2>1 DEF Check
  <2>2. CASE CallReadFrame(r)
    BY <2>2 DEF CallReadFrame
  <2>3. CASE ReadFrame(r) \/ Push(r)
    BY <2>3, SMTT(30) DEF ReadFrame, Push
  <2>4. CASE ReadFails(r)
    BY <2>4, SMTT(30) DEF ReadFails
  <2>5. CASE ReaderEnds(r)
    BY <2>5, SMTT(30) DEF ReaderEnds
  <2> QED
    BY <1>8, <2>1, <2>2, <2>3, <2>4, <2>5 DEF ReaderStep
<1>9. ASSUME NEW c \in Conns, ServerSends(c) \/ ServerCloses(c)
      PROVE  Latest'
  BY <1>9 DEF ServerSends, ServerCloses
<1> QED
  BY <1>1, <1>2, <1>3, <1>4, <1>5, <1>6, <1>7, <1>8, <1>9 DEF Next, UiStep

LEMMA NextConnected ==
  ASSUME IInv, Next
  PROVE  ConnectedMeans'
<1> USE BoundsAssumption
    DEF IInv, TypeOK, Latest, Active, ConnectedMeans, Drawing, Conns, None, uiVars, kernelVars,
        readerVars
<1>1. CASE UserStep
  BY <1>1 DEF UserStep, ClickConnect, ClickSend, Disconnect
<1>2. CASE PopEvent \/ DrainEnds
  <2>1. /\ ui = "drain" /\ ui' \in {"drain", "render"}
        /\ UNCHANGED <<fd, connected, handle, opened, open, shut, reader>>
    BY <1>2 DEF PopEvent, DrainEnds
  <2> QED
    BY <2>1
<1>3. CASE FrameEnds
  BY <1>3 DEF FrameEnds, Disconnect
<1>4. CASE Shutdown \/ Close \/ Join
  BY <1>4 DEF Shutdown, Close, Join
<1>5. CASE Open \/ OpenFails
  BY <1>5 DEF Open, OpenFails, Bounded
<1>6. CASE Spawn \/ Destroy
  BY <1>6 DEF Spawn, Destroy
<1>7. ASSUME NEW r \in Conns, ReaderStep(r)
      PROVE  ConnectedMeans'
  <2>1. CASE Check(r) \/ CallReadFrame(r)
    BY <2>1, SMTT(30) DEF Check, CallReadFrame
  <2>2. CASE ReadFrame(r) \/ Push(r)
    BY <2>2, SMTT(30) DEF ReadFrame, Push
  <2>3. CASE ReadFails(r) \/ ReaderEnds(r)
    BY <2>3, SMTT(30) DEF ReadFails, ReaderEnds
  <2> QED
    BY <1>7, <2>1, <2>2, <2>3 DEF ReaderStep
<1>8. ASSUME NEW c \in Conns, ServerSends(c) \/ ServerCloses(c)
      PROVE  ConnectedMeans'
  BY <1>8, SMTT(30) DEF ServerSends, ServerCloses
<1> QED
  BY <1>1, <1>2, <1>3, <1>4, <1>5, <1>6, <1>7, <1>8 DEF Next, UiStep

LEMMA NextEnded ==
  ASSUME IInv, Next
  PROVE  EndedByServer'
<1> USE BoundsAssumption
    DEF IInv, TypeOK, Latest, Active, ConnectedMeans, EndedByServer, Drawing, Conns, None, uiVars,
        kernelVars, readerVars
<1>1. CASE ClickConnect
  BY <1>1 DEF ClickConnect, Disconnect
<1>2. CASE ClickSend
  BY <1>2 DEF ClickSend
<1>3. CASE PopEvent \/ DrainEnds
  BY <1>3 DEF PopEvent, DrainEnds
<1>4. CASE FrameEnds
  BY <1>4 DEF FrameEnds, Disconnect
<1>5. CASE Shutdown \/ Close \/ Join
  BY <1>5 DEF Shutdown, Close, Join
<1>6. CASE Open \/ OpenFails
  BY <1>6 DEF Open, OpenFails, Bounded
<1>7. CASE Spawn \/ Destroy
  BY <1>7 DEF Spawn, Destroy
<1>8. ASSUME NEW r \in Conns, ReaderStep(r)
      PROVE  EndedByServer'
  <2>1. CASE Check(r)
    BY <1>8, <2>1 DEF Check
  <2>2. CASE CallReadFrame(r)
    BY <1>8, <2>2 DEF CallReadFrame
  <2>3. CASE ReadFrame(r) \/ Push(r) \/ ReaderEnds(r)
    BY <1>8, <2>3, SMTT(30) DEF ReadFrame, Push, ReaderEnds
  <2>4. CASE ReadFails(r)
    BY <1>8, <2>4 DEF ReadFails
  <2> QED
    BY <1>8, <2>1, <2>2, <2>3, <2>4 DEF ReaderStep
<1>9. ASSUME NEW c \in Conns, ServerSends(c) \/ ServerCloses(c)
      PROVE  EndedByServer'
  BY <1>9, SMTT(30) DEF ServerSends, ServerCloses
<1> QED
  BY <1>1, <1>2, <1>3, <1>4, <1>5, <1>6, <1>7, <1>8, <1>9 DEF Next, UserStep, UiStep

LEMMA NextDies ==
  ASSUME IInv, Next
  PROVE  DiesOnlyAfterServerClose'
<1> USE DEF DiesOnlyAfterServerClose, uiVars, kernelVars, readerVars
<1>0. process = "up"
  BY DEF Next
<1>1. CASE ClickConnect \/ PopEvent \/ DrainEnds \/ FrameEnds \/ Shutdown \/ Close \/ Join
           \/ OpenFails \/ Open
  BY <1>0, <1>1 DEF ClickConnect, PopEvent, DrainEnds, FrameEnds, Shutdown, Close, Join, OpenFails,
     Open
<1>2. CASE ClickSend
  <2>1. fd \in 1 .. opened /\ opened' = opened /\ peer'[fd] = "reset"
    BY <1>2 DEF ClickSend, IInv, TypeOK, ConnectedMeans, Conns, None
  <2> QED
    BY <2>1
<1>3. CASE Spawn \/ Destroy
  <2>1. handle # None => handle \in 1 .. opened /\ peer[handle] # "up"
    BY <1>3, BoundsAssumption DEF Spawn, Destroy, IInv, TypeOK, Latest, EndedByServer, Conns, None
  <2> QED
    BY <1>0, <1>3, <2>1 DEF Spawn, Destroy
<1>4. ASSUME NEW r \in Conns, ReaderStep(r) \/ ServerSends(r) \/ ServerCloses(r)
      PROVE  DiesOnlyAfterServerClose'
  BY <1>0, <1>4 DEF ReaderStep, Check, CallReadFrame, ReadFrame, ReadFails, Push, ReaderEnds,
     ServerSends, ServerCloses
<1> QED
  BY <1>1, <1>2, <1>3, <1>4 DEF Next, UserStep, UiStep
-----------------------------------------------------------------------------
(* The order of the events. *)

\* Handling the first queued event leaves the sequence of all of them as it
\* is, and queueing one more appends it.
LEMMA PopEvents ==
  ASSUME NEW M, NEW s \in Seq(M), NEW t \in Seq(M), t # << >>
  PROVE  Append(s, Head(t)) \o Tail(t) = s \o t
<1> DEFINE a == Append(s, Head(t))
           b == Tail(t)
<1>1. /\ Head(t) \in M /\ b \in Seq(M) /\ Len(b) = Len(t) - 1
      /\ \A i \in 1 .. Len(b) : b[i] = t[i + 1]
  BY HeadTailProperties
<1>2. /\ a \in Seq(M) /\ Len(a) = Len(s) + 1 /\ a[Len(s) + 1] = t[1]
      /\ \A i \in 1 .. Len(s) : a[i] = s[i]
  BY <1>1, AppendProperties
<1>3. Len(s) \in Nat /\ Len(t) \in Nat \ {0}
  BY EmptySeq, LenProperties
<1> HIDE DEF a, b
<1>4. /\ a \o b \in Seq(M) /\ Len(a \o b) = Len(a) + Len(b)
      /\ \A i \in 1 .. Len(a) + Len(b) :
           (a \o b)[i] = IF i <= Len(a) THEN a[i] ELSE b[i - Len(a)]
  BY <1>1, <1>2, ConcatProperties
<1>5. /\ s \o t \in Seq(M) /\ Len(s \o t) = Len(s) + Len(t)
      /\ \A i \in 1 .. Len(s) + Len(t) :
           (s \o t)[i] = IF i <= Len(s) THEN s[i] ELSE t[i - Len(s)]
  BY ConcatProperties
<1>6. Len(a \o b) = Len(s \o t)
  BY <1>1, <1>2, <1>3, <1>4, <1>5
<1>7. ASSUME NEW i \in 1 .. Len(a \o b)
      PROVE  (a \o b)[i] = (s \o t)[i]
  <2>1. CASE i <= Len(s)
    BY <1>1, <1>2, <1>3, <1>4, <1>5, <2>1
  <2>2. CASE i = Len(s) + 1
    BY <1>1, <1>2, <1>3, <1>4, <1>5, <2>2
  <2>3. CASE i > Len(s) + 1
    <3>1. i - Len(a) \in 1 .. Len(b) /\ i > Len(a) /\ i \in 1 .. Len(s) + Len(t) /\ i > Len(s)
      BY <1>1, <1>2, <1>3, <1>4, <2>3
    <3>2. PICK k \in 1 .. Len(b) : k = i - Len(a)
      BY <3>1
    <3>3. k + 1 = i - Len(s)
      BY <1>2, <1>3, <3>1, <3>2
    <3>4. b[k] = t[k + 1]
      BY <1>1
    <3>5. (a \o b)[i] = b[i - Len(a)] /\ (s \o t)[i] = t[i - Len(s)]
      BY <1>2, <1>3, <1>4, <1>5, <3>1
    <3> QED
      BY <3>2, <3>3, <3>4, <3>5
  <2> QED
    BY <1>1, <1>2, <1>3, <1>4, <2>1, <2>2, <2>3
<1>8. a \o b = s \o t
  BY <1>4, <1>5, <1>6, <1>7, SeqEqual
<1> QED
  BY <1>8 DEF a, b

LEMMA PushEvent ==
  ASSUME NEW M, NEW s \in Seq(M), NEW t \in Seq(M), NEW x \in M
  PROVE  LET e == s \o t
             d == s \o Append(t, x)
         IN /\ Len(d) = Len(e) + 1 /\ d[Len(e) + 1] = x
            /\ \A i \in 1 .. Len(e) : d[i] = e[i]
<1> DEFINE b == Append(t, x)
<1>1. /\ b \in Seq(M) /\ Len(b) = Len(t) + 1 /\ b[Len(t) + 1] = x
      /\ \A i \in 1 .. Len(t) : b[i] = t[i]
  BY AppendProperties
<1>2. Len(s) \in Nat /\ Len(t) \in Nat
  BY LenProperties
<1> HIDE DEF b
<1>3. /\ Len(s \o b) = Len(s) + Len(b)
      /\ \A i \in 1 .. Len(s) + Len(b) :
           (s \o b)[i] = IF i <= Len(s) THEN s[i] ELSE b[i - Len(s)]
  BY <1>1, ConcatProperties
<1>4. /\ Len(s \o t) = Len(s) + Len(t)
      /\ \A i \in 1 .. Len(s) + Len(t) :
           (s \o t)[i] = IF i <= Len(s) THEN s[i] ELSE t[i - Len(s)]
  BY ConcatProperties
<1>5. Len(s \o b) = Len(s \o t) + 1 /\ (s \o b)[Len(s \o t) + 1] = x
  BY <1>1, <1>2, <1>3, <1>4
<1>6. ASSUME NEW i \in 1 .. Len(s \o t)
      PROVE  (s \o b)[i] = (s \o t)[i]
  <2>1. i \in 1 .. Len(s) + Len(t) /\ i \in 1 .. Len(s) + Len(b)
    BY <1>1, <1>2, <1>4
  <2>2. CASE i <= Len(s)
    BY <1>3, <1>4, <2>1, <2>2
  <2>3. CASE i > Len(s)
    <3>1. i - Len(s) \in 1 .. Len(t)
      BY <1>2, <2>1, <2>3
    <3>2. (s \o b)[i] = b[i - Len(s)] /\ (s \o t)[i] = t[i - Len(s)]
      BY <1>2, <1>3, <1>4, <2>1, <2>3
    <3> QED
      BY <1>1, <3>1, <3>2
  <2> QED
    BY <1>2, <2>1, <2>2, <2>3
<1> QED
  BY <1>5, <1>6 DEF b

\* The events are a sequence of frames.
LEMMA EventsTyped ==
  ASSUME TypeOK
  PROVE  /\ Events \in Seq(Frames) /\ DOMAIN Events = 1 .. Len(Events) /\ Len(Events) \in Nat
         /\ \A i \in DOMAIN Events : Events[i] \in Frames
<1>1. Events \in Seq(Frames)
  BY ConcatProperties DEF TypeOK, Events
<1> QED
  BY <1>1, LenProperties, ElementOfSeq

\* The steps that neither read nor queue a frame.
LEMMA EventsFrame ==
  ASSUME IInv, UNCHANGED <<got, held>>, Events' = Events, opened <= opened',
         opened' \in Nat,
         \A r \in Conns : reader'[r] = "holding" <=> reader[r] = "holding"
  PROVE  EventsRead' /\ EventsInOrder'
<1>1. \A i \in DOMAIN Events : Events[i][1] \in Conns
  BY EventsTyped DEF IInv, Frames
<1>2. \A i \in DOMAIN Events :
        LET f == Events[i]
        IN /\ f[1] <= opened /\ f[2] <= got[f[1]]
           /\ reader[f[1]] = "holding" => f[2] < got[f[1]]
  BY DEF IInv, EventsRead
<1>3. opened \in Nat
  BY BoundsAssumption DEF IInv, TypeOK, Conns, None
<1>4. EventsRead'
  <2>1. \A i \in DOMAIN Events : Events[i][1] <= opened'
    BY <1>1, <1>2, <1>3, BoundsAssumption DEF Conns
  <2>2. \A r \in Conns : held[r] = IF reader[r] = "holding" THEN <<r, got[r]>> ELSE NoFrame
    BY DEF IInv, EventsRead
  <2> QED
    BY <1>1, <1>2, <2>1, <2>2 DEF EventsRead
<1>5. EventsInOrder'
  BY DEF IInv, EventsInOrder, Events
<1> QED
  BY <1>4, <1>5

LEMMA ReadFrameEvents ==
  ASSUME IInv, NEW r \in Conns, ReadFrame(r)
  PROVE  EventsRead' /\ EventsInOrder'
<1>1. /\ got \in [Conns -> 0 .. MaxFrames] /\ held \in [Conns -> Frames \cup {NoFrame}]
      /\ reader \in [Conns -> {"none", "checking", "calling", "reading", "holding", "ending",
                               "returned"}]
      /\ got[r] \in Nat
  BY BoundsAssumption DEF IInv, TypeOK, GotTyped
<1>2. /\ reader[r] = "reading" /\ reader' = [reader EXCEPT ![r] = "holding"]
      /\ got' = [got EXCEPT ![r] = @ + 1]
      /\ held' = [held EXCEPT ![r] = <<r, got[r] + 1>>]
      /\ UNCHANGED <<opened, handled, queue>>
  BY DEF ReadFrame, IInv, Latest, kernelVars
<1>3. Events' = Events
  BY <1>2 DEF Events
<1>4. /\ \A i \in DOMAIN Events : Events[i] \in Frames
      /\ \A f \in Frames : f[1] \in Conns /\ f[2] \in Nat /\ f # NoFrame /\ f = <<f[1], f[2]>>
  BY EventsTyped, BoundsAssumption DEF IInv, Frames, NoFrame, Conns, None
<1>5. /\ got'[r] = got[r] + 1 /\ reader'[r] = "holding" /\ held'[r] = <<r, got'[r]>>
      /\ \A c \in Conns \ {r} : got'[c] = got[c] /\ reader'[c] = reader[c] /\ held'[c] = held[c]
  BY <1>1, <1>2
<1>6. held[r] = NoFrame
  BY <1>2 DEF IInv, EventsRead
<1>7. EventsRead'
  <2>1. ASSUME NEW i \in DOMAIN Events
        PROVE  /\ Events[i][1] <= opened /\ Events[i][2] <= got'[Events[i][1]]
               /\ reader'[Events[i][1]] = "holding" => Events[i][2] < got'[Events[i][1]]
    <3> DEFINE f == Events[i]
    <3>1. /\ f[1] <= opened /\ f[2] <= got[f[1]]
          /\ reader[f[1]] = "holding" => f[2] < got[f[1]]
          /\ f[1] \in Conns /\ f[2] \in Nat
      BY <1>4 DEF IInv, EventsRead
    <3> QED
      BY <1>1, <1>5, <3>1
  <2>2. \A c \in Conns : held'[c] = IF reader'[c] = "holding" THEN <<c, got'[c]>> ELSE NoFrame
    BY <1>5 DEF IInv, EventsRead
  <2> QED
    BY <1>2, <1>3, <2>1, <2>2 DEF EventsRead
<1>8. ASSUME NEW f \in Frames, f[2] <= got'[f[1]]
      PROVE  f \in Range(Events) \/ \E c \in Conns : held'[c] = f
  <2>1. CASE f[2] <= got[f[1]]
    <3>1. f \in Range(Events) \/ \E c \in Conns : held[c] = f
      BY <2>1 DEF IInv, EventsInOrder, Events
    <3> QED
      BY <1>4, <1>5, <1>6, <3>1
  <2>2. CASE ~ (f[2] <= got[f[1]])
    <3>1. f[1] = r /\ f[2] = got'[r]
      BY <1>1, <1>4, <1>5, <1>8, <2>2
    <3> QED
      BY <1>4, <1>5, <3>1
  <2> QED
    BY <2>1, <2>2
<1> QED
  BY <1>3, <1>7, <1>8 DEF IInv, EventsInOrder, Events

LEMMA PushEvents ==
  ASSUME IInv, NEW r \in Conns, Push(r)
  PROVE  EventsRead' /\ EventsInOrder'
<1>1. /\ got \in [Conns -> 0 .. MaxFrames] /\ held \in [Conns -> Frames \cup {NoFrame}]
      /\ reader \in [Conns -> {"none", "checking", "calling", "reading", "holding", "ending",
                               "returned"}]
      /\ got[r] \in Nat /\ opened = r /\ handled \in Seq(Frames) /\ queue \in Seq(Frames)
  <2>1. opened = r
    BY DEF Push, IInv, Latest, Active
  <2> QED
    BY <2>1, BoundsAssumption DEF IInv, TypeOK, GotTyped
<1> DEFINE x == held[r]
           n == Len(Events)
<1>2. /\ reader[r] = "holding" /\ reader' = [reader EXCEPT ![r] = "checking"]
      /\ held' = [held EXCEPT ![r] = NoFrame] /\ queue' = Append(queue, x)
      /\ UNCHANGED <<got, opened, handled>>
  BY DEF Push, kernelVars
<1>3. x = <<r, got[r]>> /\ x # NoFrame /\ x \in Frames
  <2>1. x = <<r, got[r]>>
    BY <1>2 DEF IInv, EventsRead
  <2>2. x # NoFrame
    BY <2>1 DEF NoFrame, None, Conns
  <2> QED
    BY <1>1, <2>1, <2>2
<1> HIDE DEF x
<1>4. n \in Nat /\ DOMAIN Events = 1 .. n /\ \A i \in 1 .. n : Events[i] \in Frames
  BY EventsTyped DEF IInv
<1>5. Events' \in Seq(Frames) /\ Len(Events') = n + 1 /\ Events'[n + 1] = x
      /\ \A i \in 1 .. n : Events'[i] = Events[i]
  <2>1. Append(queue, x) \in Seq(Frames)
    BY <1>1, <1>3, AppendProperties
  <2>2. handled \o Append(queue, x) \in Seq(Frames)
    BY <1>1, <2>1, ConcatProperties
  <2> QED
    BY <1>1, <1>2, <1>3, <2>2, PushEvent DEF Events
<1>6. DOMAIN Events' = 1 .. n + 1 /\ \A i \in DOMAIN Events' : i \in 1 .. n \/ i = n + 1
  BY <1>4, <1>5, LenProperties
<1> HIDE DEF n
<1>7. \A f \in Frames : f[1] \in Conns /\ f[1] \in Nat /\ f[2] \in Nat
  BY BoundsAssumption DEF Frames, Conns
<1>8. \A i \in 1 .. n :
        LET f == Events[i]
        IN /\ f[1] <= r /\ f[2] <= got[f[1]] /\ (f[1] = r => f[2] < got[r])
           /\ f[1] \in Conns /\ f[1] \in Nat /\ f[2] \in Nat
  BY <1>1, <1>2, <1>4, <1>7 DEF IInv, EventsRead
<1>9. /\ reader'[r] = "checking" /\ held'[r] = NoFrame
      /\ \A c \in Conns \ {r} : reader'[c] = reader[c] /\ held'[c] = held[c]
  BY <1>1, <1>2
<1>10. EventsRead'
  <2>1. ASSUME NEW i \in DOMAIN Events'
        PROVE  /\ Events'[i][1] <= opened' /\ Events'[i][2] <= got'[Events'[i][1]]
               /\ reader'[Events'[i][1]] = "holding" => Events'[i][2] < got'[Events'[i][1]]
    <3>1. CASE i \in 1 .. n
      <4>1. Events[i][1] # r => reader'[Events[i][1]] = reader[Events[i][1]]
        BY <1>8, <1>9, <3>1
      <4>2. reader[Events[i][1]] = "holding" => Events[i][2] < got[Events[i][1]]
        BY <1>4, <3>1 DEF IInv, EventsRead
      <4> QED
        BY <1>1, <1>2, <1>5, <1>8, <1>9, <3>1, <4>1, <4>2
    <3>2. CASE i = n + 1
      <4>1. Events'[i] = <<r, got[r]>>
        BY <1>3, <1>5, <3>2
      <4>2. r <= opened' /\ got[r] <= got'[r]
        BY <1>1, <1>2, BoundsAssumption DEF Conns
      <4> QED
        BY <1>9, <4>1, <4>2
    <3> QED
      BY <1>6, <3>1, <3>2
  <2>2. \A c \in Conns : held'[c] = IF reader'[c] = "holding" THEN <<c, got'[c]>> ELSE NoFrame
    BY <1>2, <1>9 DEF IInv, EventsRead
  <2> QED
    BY <2>1, <2>2 DEF EventsRead
<1>11. ASSUME NEW i \in DOMAIN Events', NEW j \in DOMAIN Events', i < j
       PROVE  Before(Events'[i], Events'[j])
  <2>1. i \in 1 .. n
    BY <1>4, <1>6, <1>11
  <2>2. CASE j \in 1 .. n
    BY <1>4, <1>5, <1>11, <2>1, <2>2 DEF IInv, EventsInOrder, Events
  <2>3. CASE j = n + 1
    <3>1. Events'[j] = <<r, got[r]>> /\ Events'[i] = Events[i]
      BY <1>3, <1>5, <2>1, <2>3
    <3>2. Events[i][1] < r \/ (Events[i][1] = r /\ Events[i][2] < got[r])
      BY <1>1, <1>8, <2>1, BoundsAssumption DEF Conns
    <3> QED
      BY <3>1, <3>2 DEF Before
  <2> QED
    BY <1>6, <2>2, <2>3
<1>12. ASSUME NEW f \in Frames, f[2] <= got'[f[1]]
       PROVE  f \in Range(Events') \/ \E c \in Conns : held'[c] = f
  <2>1. f \in Range(Events) \/ \E c \in Conns : held[c] = f
    BY <1>2, <1>12 DEF IInv, EventsInOrder, Events
  <2>2. CASE f \in Range(Events)
    <3>1. PICK i \in 1 .. n : f = Events[i]
      BY <1>4, <2>2 DEF Range
    <3>2. i \in DOMAIN Events' /\ Events'[i] = f
      BY <1>4, <1>5, <1>6, <3>1
    <3> QED
      BY <3>2 DEF Range
  <2>3. CASE f = x
    <3>1. n + 1 \in DOMAIN Events'
      BY <1>4, <1>6
    <3> QED
      BY <1>5, <2>3, <3>1 DEF Range
  <2>4. ASSUME NEW c \in Conns, held[c] = f, f # x
        PROVE  held'[c] = f
    BY <1>9, <2>4 DEF x
  <2> QED
    BY <2>1, <2>2, <2>3, <2>4
<1> QED
  BY <1>10, <1>11, <1>12 DEF EventsInOrder, Events

LEMMA NextEvents ==
  ASSUME IInv, Next
  PROVE  EventsRead' /\ EventsInOrder'
<1>0. opened \in Nat
  BY BoundsAssumption DEF IInv, TypeOK, Conns, None
<1>1. CASE UserStep
  BY <1>0, <1>1, EventsFrame DEF UserStep, ClickConnect, ClickSend, Events, uiVars, kernelVars,
     readerVars
<1>2. CASE PopEvent
  <2>1. Events' = Events
    BY <1>2, PopEvents DEF PopEvent, IInv, TypeOK, Events
  <2> QED
    BY <1>0, <1>2, <2>1, EventsFrame DEF PopEvent, kernelVars, readerVars
<1>3. CASE DrainEnds \/ FrameEnds \/ Shutdown \/ Close \/ Join \/ OpenFails \/ Destroy
  <2>1. UNCHANGED <<opened, handled, queue, got, held, reader>>
    BY <1>3 DEF DrainEnds, FrameEnds, Shutdown, Close, Join, OpenFails, Destroy, kernelVars,
       readerVars
  <2> QED
    BY <1>0, <2>1, EventsFrame DEF Events
<1>4. CASE Open
  BY <1>0, <1>4, EventsFrame DEF Open, Events, readerVars
<1>5. CASE Spawn
  <2>1. fd \in Conns /\ reader[fd] = "none"
    BY <1>5 DEF Spawn, IInv, TypeOK, ConnectedMeans, None
  <2>2. \A r \in Conns : reader'[r] = "holding" <=> reader[r] = "holding"
    BY <1>5, <2>1 DEF Spawn, IInv, TypeOK
  <2> QED
    BY <1>0, <1>5, <2>2, EventsFrame DEF Spawn, Events, kernelVars
<1>6. ASSUME NEW r \in Conns, Check(r) \/ CallReadFrame(r) \/ ReadFails(r) \/ ReaderEnds(r)
      PROVE  EventsRead' /\ EventsInOrder'
  <2>1. UNCHANGED <<opened, handled, queue, got, held>>
    BY <1>6 DEF Check, CallReadFrame, ReadFails, ReaderEnds, kernelVars
  <2>2. \A c \in Conns : reader'[c] = "holding" <=> reader[c] = "holding"
    BY <1>6 DEF Check, CallReadFrame, ReadFails, ReaderEnds, IInv, TypeOK
  <2> QED
    BY <1>0, <2>1, <2>2, EventsFrame DEF Events
<1>7. ASSUME NEW c \in Conns, ServerSends(c) \/ ServerCloses(c)
      PROVE  EventsRead' /\ EventsInOrder'
  BY <1>0, <1>7, EventsFrame DEF ServerSends, ServerCloses, Events, readerVars
<1> QED
  BY <1>1, <1>2, <1>3, <1>4, <1>5, <1>6, <1>7, ReadFrameEvents, PushEvents
  DEF Next, UiStep, ReaderStep
-----------------------------------------------------------------------------
(* The theorems. *)

LEMMA InitIInv == Init => IInv
<1> SUFFICES ASSUME Init PROVE IInv
  OBVIOUS
<1> USE BoundsAssumption DEF Init, Conns, None
<1>1. TypeOK /\ GotTyped
  <2>1. << >> \in Seq(Frames)
    BY EmptySeq
  <2>2. 0 \in 0 .. MaxFrames
    OBVIOUS
  <2>3. GotTyped /\ sent \in [Conns -> 0 .. MaxFrames] /\ \A c \in Conns : got[c] \in 0 .. sent[c]
    BY <2>2 DEF GotTyped
  <2>4. /\ peer \in [Conns -> {"up", "closed", "reset"}]
        /\ reader \in [Conns -> {"none", "checking", "calling", "reading", "holding", "ending",
                                 "returned"}]
        /\ on \in [Conns -> Conns \cup {None}] /\ held \in [Conns -> Frames \cup {NoFrame}]
    OBVIOUS
  <2> QED
    BY <2>1, <2>3, <2>4 DEF TypeOK
<1>2. Bounded /\ Latest /\ ConnectedMeans /\ EndedByServer /\ DiesOnlyAfterServerClose
  BY DEF Bounded, Latest, ConnectedMeans, EndedByServer, DiesOnlyAfterServerClose, Drawing, Active
<1>3. Events = << >>
  BY ConcatEmptySeq DEF Events
<1>4. EventsRead /\ EventsInOrder
  BY <1>3 DEF EventsRead, EventsInOrder, Events, Frames, NoFrame
<1> QED
  BY <1>1, <1>2, <1>4 DEF IInv

THEOREM Invariance == Spec => []IInv
<1>1. Init => IInv
  BY InitIInv
<1>2. IInv /\ [Next]_vars => IInv'
  <2> SUFFICES ASSUME IInv, [Next]_vars PROVE IInv'
    OBVIOUS
  <2>1. CASE Next
    <3>1. TypeOK' /\ GotTyped'
      BY <2>1, UiType, ReaderType, ServerType DEF Next
    <3> QED
      BY <2>1, <3>1, NextBounded, NextLatest, NextConnected, NextEnded, NextDies, NextEvents
      DEF IInv
  <2>2. CASE UNCHANGED vars
    <3> USE <2>2 DEF vars, uiVars, kernelVars, readerVars, IInv
    <3>1. TypeOK' /\ GotTyped'
      BY DEF TypeOK, GotTyped
    <3>2. Bounded' /\ Latest' /\ ConnectedMeans' /\ EndedByServer' /\ DiesOnlyAfterServerClose'
      BY DEF Bounded, Latest, ConnectedMeans, EndedByServer, DiesOnlyAfterServerClose, Drawing,
         Active
    <3>3. EventsRead' /\ EventsInOrder'
      BY DEF EventsRead, EventsInOrder, Events
    <3> QED
      BY <3>1, <3>2, <3>3
  <2> QED
    BY <2>1, <2>2
<1> QED
  BY <1>1, <1>2, PTL DEF Spec

\* The members of ClientCore, the sockets and the threads have their types in
\* every reachable state.
THEOREM TypeCorrect == Spec => []TypeOK
<1>1. IInv => TypeOK
  BY DEF IInv
<1> QED
  BY <1>1, Invariance, PTL

\* One reader runs at most, that of the latest connection, and it reads from
\* no other socket (connect, disconnect, reader_loop).
THEOREM OneReaderRuns == Spec => []OneReader
<1>1. IInv => OneReader
  BY DEF IInv, Latest, Active, OneReader
<1> QED
  BY <1>1, Invariance, PTL

\* The client is terminated or killed only after the server has closed a
\* connection (connect, disconnect, ~ClientCore).
THEOREM DiesOnlyAfterClose == Spec => []DiesOnlyAfterServerClose
<1>1. IInv => DiesOnlyAfterServerClose
  BY DEF IInv
<1> QED
  BY <1>1, Invariance, PTL

\* Every frame read is queued and handled once, in the order it was sent,
\* those of an earlier connection first (reader_loop, pop_event).
THEOREM EventsAreInOrder == Spec => []EventsInOrder
<1>1. IInv => EventsInOrder
  BY DEF IInv
<1> QED
  BY <1>1, Invariance, PTL
=============================================================================
