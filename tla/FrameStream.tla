----------------------------- MODULE FrameStream -----------------------------
(***************************************************************************)
(* One direction of a connection: threads that send messages as frames     *)
(* (Connection::send, encode_frame, write_frame), the byte stream of TCP,  *)
(* which cuts frames anywhere, and the receiver that puts them together    *)
(* again: read_frame in the C++ server and client, decodeFrames in the     *)
(* JavaScript gateway.                                                     *)
(*                                                                         *)
(* A byte is a pair <<message, position in its frame>>.  A frame is a      *)
(* length prefix and a ciphertext, which is the payload padded to whole    *)
(* cipher blocks with at least one byte.                                   *)
(***************************************************************************)
EXTENDS Naturals, Sequences, FiniteSets, SequencesExt

CONSTANTS Messages,    \* each is sent by a call of its own
          Size,        \* bytes of JSON
          Prefix,      \* kFramePrefixBytes
          Block,       \* the cipher's block
          MaxPayload,  \* kMaxPayloadSize
          Unchecked,   \* those the gateway's encodeFrame encodes
          Receivers,   \* what may be at the other end
          NoOne        \* nobody holds send_mtx_

ASSUME FrameAssumption ==
  /\ IsFiniteSet(Messages) /\ NoOne \notin Messages
  /\ Size \in [Messages -> Nat \ {0}]
  /\ Unchecked \subseteq Messages
  /\ {Prefix, Block, MaxPayload} \subseteq Nat \ {0}
  /\ Receivers \subseteq {"read_frame", "decodeFrames"}

VARIABLES
  receiver,   \* what is at the other end
  call,       \* where the send of each message is
  sender,     \* who holds send_mtx_
  written,    \* bytes of its frame it has written
  wire,       \* bytes on their way
  buf,        \* frame and prefix in read_frame, recvBuf in the gateway
  open,       \* the receiver still reads
  order,      \* the messages in the order in which send_mtx_ was taken
  delivered   \* the messages the receiver has passed on

vars == <<receiver, call, sender, written, wire, buf, open, order, delivered>>

\* PKCS#7 pads a whole number of blocks with one more.
CipherLen(m) == (Size[m] \div Block + 1) * Block
FrameLen(m) == Prefix + CipherLen(m)
Frame(m) == [i \in 1 .. FrameLen(m) |-> <<m, i>>]

Bytes == UNION {{<<m, i>> : i \in 1 .. FrameLen(m)} : m \in Messages}

TypeOK ==
  /\ receiver \in Receivers
  /\ call \in [Messages -> {"idle", "encoded", "writing", "returned", "refused"}]
  /\ sender \in Messages \cup {NoOne}
  /\ written \in Nat
  /\ sender # NoOne => written < FrameLen(sender)
  /\ wire \in Seq(Bytes) /\ buf \in Seq(Bytes)
  /\ open \in BOOLEAN
  /\ order \in Seq(Messages) /\ delivered \in Seq(Messages)

Init ==
  /\ receiver \in Receivers
  /\ call = [m \in Messages |-> "idle"]
  /\ sender = NoOne /\ written = 0
  /\ wire = <<>> /\ buf = <<>> /\ open = TRUE
  /\ order = <<>> /\ delivered = <<>>

-----------------------------------------------------------------------------
(* Connection::send *)

\* encode_frame refuses what is too large; the gateway, which sends to
\* read_frame only, does not look at the size.
Encode(m) ==
  /\ call[m] = "idle"
  /\ call' = [call EXCEPT ![m] =
                IF Size[m] > MaxPayload /\ ~ (m \in Unchecked /\ receiver = "read_frame")
                THEN "refused" ELSE "encoded"]
  /\ UNCHANGED <<receiver, sender, written, wire, buf, open, order, delivered>>

\* Mutant: send_mtx_ is not taken; a second sender cuts in on the first.
LockShared(m) ==
  /\ call[m] = "encoded"
  /\ call' = [call EXCEPT ![m] = "writing"]
  /\ sender' = m /\ written' = 0
  /\ order' = Append(order, m)
  /\ UNCHANGED <<receiver, wire, buf, open, delivered>>

Lock(m) ==
  /\ call[m] = "encoded"
  /\ sender = NoOne
  /\ call' = [call EXCEPT ![m] = "writing"]
  /\ sender' = m /\ written' = 0
  /\ order' = Append(order, m)
  /\ UNCHANGED <<receiver, wire, buf, open, delivered>>

Unlock(m) ==
  /\ call' = [call EXCEPT ![m] = "returned"]
  /\ sender' = NoOne /\ written' = 0

\* Mutants: a short write is taken for a full one; the rest of the frame is
\* looked for at its start.
WriteOnce(m) ==
  /\ sender = m
  /\ \E n \in 1 .. FrameLen(m) - written :
       /\ wire' = wire \o SubSeq(Frame(m), written + 1, written + n)
       /\ Unlock(m)
  /\ UNCHANGED <<receiver, buf, open, order, delivered>>
WriteFromStart(m) ==
  /\ sender = m
  /\ \E n \in 1 .. FrameLen(m) :
       /\ wire' = wire \o SubSeq(Frame(m), 1, n)
       /\ IF written + n = FrameLen(m)
          THEN Unlock(m)
          ELSE written' = written + n /\ UNCHANGED <<call, sender>>
  /\ UNCHANGED <<receiver, buf, open, order, delivered>>

\* One write of the loop of write_exact: the kernel takes what it has room for.
Write(m) ==
  /\ sender = m
  /\ \E n \in 1 .. FrameLen(m) - written :
       /\ wire' = wire \o SubSeq(Frame(m), written + 1, written + n)
       /\ IF written + n = FrameLen(m)
          THEN Unlock(m)
          ELSE written' = written + n /\ UNCHANGED <<call, sender>>
  /\ UNCHANGED <<receiver, buf, open, order, delivered>>

-----------------------------------------------------------------------------
(* The receivers. *)

\* The length that the first bytes of b announce.  Bytes that are not the
\* prefix of one frame announce some large number.
Announced(b) ==
  IF \E m \in Messages : SubSeq(b, 1, Prefix) = SubSeq(Frame(m), 1, Prefix)
  THEN CipherLen(b[1][1])
  ELSE MaxPayload + Block + 1

HasPrefix(b) == Len(b) >= Prefix
HasFrame(b) == HasPrefix(b) /\ Len(b) >= Prefix + Announced(b)

\* decode_frame: bytes that are not one encrypted message are skipped.
Decoded(f) ==
  IF f # <<>> /\ f = Frame(f[1][1]) THEN <<f[1][1]>> ELSE <<>>

\* Mutant: what was read so far is not taken off the length.
WantedAgain == IF HasPrefix(buf) THEN Announced(buf) ELSE Prefix

\* What the current read of read_exact still wants.
Wanted ==
  IF HasPrefix(buf) THEN Prefix + Announced(buf) - Len(buf) ELSE Prefix - Len(buf)

\* read_frame, one read at a time: first the prefix, then the payload.
ReadFrame ==
  /\ receiver = "read_frame" /\ open
  /\ \E n \in 1 .. Len(wire) :
       /\ n <= Wanted
       /\ wire' = SubSeq(wire, n + 1, Len(wire))
       /\ LET b == buf \o SubSeq(wire, 1, n)
          IN \/ /\ HasPrefix(b) /\ Announced(b) > MaxPayload
                /\ open' = FALSE
                /\ buf' = <<>>
                /\ UNCHANGED delivered
             \/ /\ HasPrefix(b) => Announced(b) <= MaxPayload
                /\ IF HasFrame(b)
                   THEN delivered' = delivered \o Decoded(b) /\ buf' = <<>>
                   ELSE buf' = b /\ UNCHANGED delivered
                /\ UNCHANGED open
  /\ UNCHANGED <<receiver, call, sender, written, order>>

\* The whole frame at the front of t.rest, when there is one, is taken off it.
TakeFrame(t) ==
  LET len == Prefix + Announced(t.rest)
  IN IF HasFrame(t.rest)
     THEN [rest |-> SubSeq(t.rest, len + 1, Len(t.rest)),
           out |-> t.out \o Decoded(SubSeq(t.rest, 1, len))]
     ELSE t

\* Of the whole frames at the front of b, k or as many as there are.
TakeFrames(b, k) ==
  LET taken[i \in Nat] ==
        IF i = 0 THEN [rest |-> b, out |-> <<>>] ELSE TakeFrame(taken[i - 1])
  IN taken[k]

\* Mutant: one frame is taken for each chunk.
DecodeFramesOne(b) == TakeFrames(b, 1)

\* The loop of decodeFrames ends when no whole frame is left, and there are no
\* more frames than messages.
DecodeFrames(b) == TakeFrames(b, Cardinality(Messages))

\* tcp.on("data"): a chunk of any size is appended and the buffer drained.
Data ==
  /\ receiver = "decodeFrames" /\ open
  /\ \E n \in 1 .. Len(wire) :
       LET t == DecodeFrames(buf \o SubSeq(wire, 1, n))
       IN /\ wire' = SubSeq(wire, n + 1, Len(wire))
          /\ buf' = t.rest
          /\ delivered' = delivered \o t.out
  /\ UNCHANGED <<receiver, call, sender, written, open, order>>

-----------------------------------------------------------------------------
Receive == ReadFrame \/ Data

Next == (\E m \in Messages : Encode(m) \/ Lock(m) \/ Write(m)) \/ Receive

Spec == Init /\ [][Next]_vars

\* A send that was begun goes on, the mutex is handed on, the network brings
\* bytes and the receiver's loop runs.  Nobody has to begin a send.
FairSpec ==
  /\ Spec
  /\ WF_vars(\E m \in Messages : Lock(m)) /\ WF_vars(\E m \in Messages : Write(m))
  /\ WF_vars(Receive)

-----------------------------------------------------------------------------
\* However threads interleave and TCP cuts the stream, the receiver passes on
\* the messages that were sent, whole, once, and in the order in which the
\* senders took send_mtx_ (Connection::send, read_frame, decodeFrames).
InSendOrder == IsPrefix(delivered, order)

\* The bytes under way are the frames of the messages not passed on yet, one
\* after another, the last one cut where its sender is: no byte is lost,
\* repeated or out of place (write_exact, read_exact, decodeFrames).
StreamIsFrames ==
  open =>
    LET pending == SubSeq(order, Len(delivered) + 1, Len(order))
        frames == FlattenSeq([i \in DOMAIN pending |-> Frame(pending[i])])
        unwritten == IF sender = NoOne THEN 0 ELSE FrameLen(sender) - written
    IN buf \o wire = SubSeq(frames, 1, Len(frames) - unwritten)

\* The gateway passes on all that has come: however many messages a chunk brings
\* or completes, none of them waits in the buffer for the next one, which may
\* never come (tcp.on("data"), decodeFrames).
NothingHeldBack == receiver = "decodeFrames" => ~ HasFrame(buf)

\* A message that was encoded is passed on, unless it or another one on the
\* connection is longer, once padded, than read_frame accepts (write_exact,
\* read_exact, read_frame, decodeFrames).
Refusable == {m \in Messages : receiver = "read_frame" /\ CipherLen(m) > MaxPayload}

PassedOn(m) == \E i \in DOMAIN delivered : delivered[i] = m

EncodedArrives ==
  \A m \in Messages :
    (call[m] = "encoded") ~> (PassedOn(m) \/ \E k \in Refusable : call[k] # "idle")
=============================================================================
