------------------------- MODULE FrameStreamProofs --------------------------
(***************************************************************************)
(* Proofs about FrameStream, for any messages, sizes, prefix, block and    *)
(* limit, either receiver, any number of threads that send, and any cuts   *)
(* that write, TCP and read make.                                          *)
(***************************************************************************)
EXTENDS FrameStream, FiniteSetTheorems, SequenceTheorems, WellFoundedInduction, TLAPS

-----------------------------------------------------------------------------
(* Induction and recursion over the naturals, for sets and functions: a    *)
(* loop of the code is a function on the number of its rounds.             *)

\* The least number that is not in X has a predecessor that is.
LEMMA Induction ==
  ASSUME NEW X, 0 \in X, \A n \in Nat : n \in X => n + 1 \in X
  PROVE  Nat \subseteq X
<1> SUFFICES ASSUME Nat \ X # {} PROVE FALSE
  OBVIOUS
<1> DEFINE T == Nat \ X
<1>1. PICK n \in T : \A k \in T : <<k, n>> \notin OpToRel(<, Nat)
  BY NatLessThanWellFounded, WFMin
<1>2. \A k \in T : ~ (k < n)
  BY <1>1 DEF OpToRel
<1>3. n # 0 /\ n \in Nat /\ n \notin X
  BY <1>1
<1>4. n - 1 \in Nat /\ n - 1 < n
  BY <1>3
<1>5. n - 1 \in X
  BY <1>2, <1>4
<1>6. n - 1 + 1 \in X
  BY <1>4, <1>5
<1>7. n - 1 + 1 = n
  BY <1>3
<1> QED
  BY <1>3, <1>6, <1>7

\* f begins with c and goes on by step, which is told the number of the round.
Recurs(f, c, step) ==
  f[0] = c /\ \A i \in Nat : f[i + 1] = step[<<i + 1, f[i]>>]

\* A first value and a step determine a function.
LEMMA Recursion ==
  ASSUME NEW S, NEW c \in S, NEW step \in [Nat \X S -> S]
  PROVE  \E f \in [Nat -> S] : Recurs(f, c, step)
<1> DEFINE Upto(g, n) ==
             g[0] = c /\ \A i \in Nat : i < n => g[i + 1] = step[<<i + 1, g[i]>>]
           X == {n \in Nat : \E g \in [Nat -> S] : Upto(g, n)}
<1>1. Nat \subseteq X
  <2>1. 0 \in X
    <3>1. Upto([i \in Nat |-> c], 0) /\ [i \in Nat |-> c] \in [Nat -> S]
      OBVIOUS
    <3> QED
      BY <3>1
  <2>2. ASSUME NEW n \in Nat, n \in X PROVE n + 1 \in X
    <3>1. PICK g \in [Nat -> S] : Upto(g, n)
      BY <2>2
    <3> DEFINE h == [i \in Nat |-> IF i = n + 1 THEN step[<<n + 1, g[n]>>] ELSE g[i]]
    <3>2. h \in [Nat -> S]
      OBVIOUS
    <3>3. h[0] = c
      BY <3>1
    <3>4. ASSUME NEW i \in Nat, i < n + 1
          PROVE  h[i + 1] = step[<<i + 1, h[i]>>]
      <4>1. h[i] = g[i]
        BY <3>4
      <4>2. CASE i = n
        BY <4>1, <4>2
      <4>3. CASE i < n
        BY <3>1, <4>1, <4>3
      <4> QED
        BY <3>4, <4>2, <4>3
    <3> HIDE DEF h
    <3>5. Upto(h, n + 1)
      BY <3>3, <3>4
    <3> QED
      BY <3>2, <3>5
  <2> HIDE DEF X
  <2> QED
    BY <2>1, <2>2, Induction
<1>2. ASSUME NEW m \in Nat, NEW g \in [Nat -> S], NEW h \in [Nat -> S], Upto(g, m), Upto(h, m)
      PROVE  \A i \in Nat : i <= m => g[i] = h[i]
  <2> DEFINE Y == {i \in Nat : i <= m => g[i] = h[i]}
  <2>1. 0 \in Y
    BY <1>2
  <2>2. ASSUME NEW i \in Nat, i \in Y PROVE i + 1 \in Y
    <3> SUFFICES ASSUME i + 1 <= m PROVE g[i + 1] = h[i + 1]
      OBVIOUS
    <3>1. i < m /\ g[i] = h[i]
      BY <2>2
    <3> QED
      BY <1>2, <3>1
  <2> HIDE DEF Y
  <2>3. Nat \subseteq Y
    BY <2>1, <2>2, Induction
  <2> QED
    BY <2>3 DEF Y
<1> DEFINE G == [n \in Nat |-> CHOOSE g \in [Nat -> S] : Upto(g, n)]
           f == [n \in Nat |-> G[n][n]]
<1>3. \A n \in Nat : G[n] \in [Nat -> S] /\ Upto(G[n], n)
  <2> TAKE n \in Nat
  <2>1. \E g \in [Nat -> S] : Upto(g, n)
    BY <1>1
  <2> HIDE DEF Upto
  <2> QED
    BY <2>1
<1> HIDE DEF G
<1>4. f \in [Nat -> S] /\ f[0] = c
  BY <1>3
<1>5. ASSUME NEW i \in Nat
      PROVE  f[i + 1] = step[<<i + 1, f[i]>>]
  <2>1. /\ G[i] \in [Nat -> S] /\ Upto(G[i], i)
        /\ G[i + 1] \in [Nat -> S] /\ Upto(G[i + 1], i + 1)
    BY <1>3
  <2>2. Upto(G[i + 1], i)
    BY <2>1
  <2>3. G[i + 1][i] = G[i][i]
    <3> HIDE DEF Upto
    <3>1. \A k \in Nat : k <= i => G[i][k] = G[i + 1][k]
      BY <1>2, <2>1, <2>2
    <3> QED
      BY <3>1
  <2>4. G[i + 1][i + 1] = step[<<i + 1, G[i + 1][i]>>]
    BY <2>1
  <2> QED
    BY <2>3, <2>4
<1> HIDE DEF f
<1>6. Recurs(f, c, step)
  BY <1>4, <1>5 DEF Recurs
<1> QED
  BY <1>4, <1>6

-----------------------------------------------------------------------------
(* Bytes and frames. *)

LEMMA FrameTyped ==
  ASSUME NEW m \in Messages
  PROVE  /\ CipherLen(m) \in Nat \ {0} /\ Prefix \in Nat \ {0}
         /\ FrameLen(m) \in Nat /\ FrameLen(m) = Prefix + CipherLen(m)
         /\ Frame(m) \in Seq(Bytes) /\ Len(Frame(m)) = FrameLen(m)
         /\ \A i \in 1 .. FrameLen(m) : Frame(m)[i] = <<m, i>>
<1>1. Size[m] \in Nat /\ Block \in Nat \ {0} /\ Prefix \in Nat \ {0}
  BY FrameAssumption
<1>2. Size[m] \div Block \in Nat
  BY <1>1
<1>3. CipherLen(m) \in Nat \ {0}
  <2> DEFINE d == Size[m] \div Block
  <2>1. d \in Nat
    BY <1>2
  <2> HIDE DEF d
  <2>2. (d + 1) * Block \in Nat \ {0}
    <3>1. d + 1 \in Nat \ {0}
      BY <2>1
    <3> QED
      BY <1>1, <3>1
  <2> QED
    BY <2>2 DEF CipherLen, d
<1>4. FrameLen(m) \in Nat /\ FrameLen(m) = Prefix + CipherLen(m)
  BY <1>1, <1>3 DEF FrameLen
<1>5. \A i \in 1 .. FrameLen(m) : <<m, i>> \in Bytes
  BY DEF Bytes
<1>6. Frame(m) \in [1 .. FrameLen(m) -> Bytes]
  BY <1>5 DEF Frame
<1>7. Frame(m) \in Seq(Bytes) /\ Len(Frame(m)) = FrameLen(m)
  BY <1>4, <1>6
<1> QED
  BY <1>1, <1>3, <1>4, <1>7 DEF Frame

LEMMA BytesTyped ==
  \A x \in Bytes : x[1] \in Messages /\ x[2] \in Nat
<1> TAKE x \in Bytes
<1>1. \E k \in Messages : x \in {<<k, i>> : i \in 1 .. FrameLen(k)}
  BY DEF Bytes
<1> QED
  BY <1>1, FrameTyped

\* What is announced is a number, and at least one byte.
LEMMA AnnouncedTyped ==
  ASSUME NEW b \in Seq(Bytes), HasPrefix(b)
  PROVE  Announced(b) \in Nat \ {0}
<1>1. Len(b) \in Nat /\ Len(b) >= 1 /\ b[1] \in Bytes
  <2>1. Len(b) >= 1
    BY FrameAssumption, LenProperties DEF HasPrefix
  <2> QED
    BY <2>1, LenProperties, ElementOfSeq
<1>2. b[1][1] \in Messages
  BY <1>1, BytesTyped
<1>3. CipherLen(b[1][1]) \in Nat \ {0}
  BY <1>2, FrameTyped
<1>4. MaxPayload + Block + 1 \in Nat \ {0}
  BY FrameAssumption
<1> QED
  BY <1>3, <1>4 DEF Announced

LEMMA DecodedTyped ==
  ASSUME NEW f \in Seq(Bytes)
  PROVE  Decoded(f) \in Seq(Messages)
<1>1. CASE f # <<>> /\ f = Frame(f[1][1])
  <2>1. Len(f) \in Nat \ {0}
    BY <1>1, EmptySeq
  <2>2. f[1][1] \in Messages
    BY <2>1, ElementOfSeq, BytesTyped
  <2> QED
    BY <1>1, <2>2 DEF Decoded
<1>2. CASE ~ (f # <<>> /\ f = Frame(f[1][1]))
  BY <1>2, EmptySeq DEF Decoded
<1> QED
  BY <1>1, <1>2

\* SubSeq of a typed sequence, where it does not reach beyond its end.
LEMMA PartTyped ==
  ASSUME NEW S, NEW s \in Seq(S), NEW m \in Nat \ {0}, NEW n \in Int, n <= Len(s)
  PROVE  /\ SubSeq(s, m, n) \in Seq(S)
         /\ Len(SubSeq(s, m, n)) = IF m <= n THEN n - m + 1 ELSE 0
         /\ \A i \in 1 .. n - m + 1 : SubSeq(s, m, n)[i] = s[m + i - 1]
<1>1. \A i \in m .. n : i \in 1 .. Len(s)
  BY LenProperties
<1>2. \A i \in m .. n : s[i] \in S
  BY <1>1, ElementOfSeq
<1>3. m \in Int /\ n \in Int
  OBVIOUS
<1> QED
  BY <1>2, <1>3, SubSeqProperties

Taken == [rest : Seq(Bytes), out : Seq(Messages)]

LEMMA TakeFrameTyped ==
  ASSUME NEW t \in Taken
  PROVE  TakeFrame(t) \in Taken
<1>1. CASE HasFrame(t.rest)
  <2> DEFINE len == Prefix + Announced(t.rest)
  <2>1. HasPrefix(t.rest) /\ Len(t.rest) >= len /\ t.rest \in Seq(Bytes) /\ t.out \in Seq(Messages)
    BY <1>1 DEF HasFrame, Taken
  <2>2. len \in Nat /\ Len(t.rest) \in Nat
    BY <2>1, AnnouncedTyped, FrameAssumption, LenProperties
  <2> HIDE DEF len
  <2>3. SubSeq(t.rest, len + 1, Len(t.rest)) \in Seq(Bytes)
    BY <2>1, <2>2, PartTyped
  <2>4. SubSeq(t.rest, 1, len) \in Seq(Bytes)
    BY <2>1, <2>2, PartTyped
  <2>5. t.out \o Decoded(SubSeq(t.rest, 1, len)) \in Seq(Messages)
    BY <2>1, <2>4, DecodedTyped, ConcatProperties
  <2> QED
    BY <1>1, <2>3, <2>5 DEF TakeFrame, Taken, len
<1>2. CASE ~ HasFrame(t.rest)
  BY <1>2 DEF TakeFrame
<1> QED
  BY <1>1, <1>2

\* TakeFrames(b, k) takes k frames one after another.
LEMMA TakeFramesRounds ==
  ASSUME NEW b \in Seq(Bytes)
  PROVE  \E f \in [Nat -> Taken] :
           /\ f[0] = [rest |-> b, out |-> <<>>]
           /\ \A i \in Nat : f[i + 1] = TakeFrame(f[i])
           /\ \A k \in Nat : TakeFrames(b, k) = f[k]
<1> DEFINE start == [rest |-> b, out |-> <<>>]
           round == [x \in Nat \X Taken |-> TakeFrame(x[2])]
           Loop(f) == f = [i \in Nat |-> IF i = 0 THEN start ELSE TakeFrame(f[i - 1])]
           taken == CHOOSE f : Loop(f)
<1>1. start \in Taken
  BY EmptySeq DEF Taken
<1>2. round \in [Nat \X Taken -> Taken]
  BY TakeFrameTyped
<1>3. \E f \in [Nat -> Taken] : Recurs(f, start, round)
  <2> HIDE DEF start, round
  <2> QED
    BY <1>1, <1>2, Recursion
<1>4. PICK f \in [Nat -> Taken] : f[0] = start /\ \A i \in Nat : f[i + 1] = TakeFrame(f[i])
  <2>1. \A f \in [Nat -> Taken], i \in Nat : round[<<i + 1, f[i]>>] = TakeFrame(f[i])
    <3> TAKE f \in [Nat -> Taken], i \in Nat
    <3>1. f[i] \in Taken /\ i + 1 \in Nat
      OBVIOUS
    <3>2. <<i + 1, f[i]>> \in Nat \X Taken
      BY <3>1
    <3> QED
      BY <3>2
  <2> HIDE DEF start, round
  <2> QED
    BY <1>3, <2>1 DEF Recurs
<1> HIDE DEF start, round
<1>5. Loop(f)
  <2>1. \A i \in Nat : f[i] = IF i = 0 THEN start ELSE TakeFrame(f[i - 1])
    <3> TAKE i \in Nat
    <3>1. CASE i = 0
      BY <1>4, <3>1
    <3>2. CASE i # 0
      <4>1. i - 1 \in Nat /\ i - 1 + 1 = i
        BY <3>2
      <4> QED
        BY <1>4, <3>2, <4>1
    <3> QED
      BY <3>1, <3>2
  <2> QED
    BY <1>4, <2>1
<1>6. Loop(taken)
  <2> HIDE DEF Loop
  <2> QED
    BY <1>5
<1>7. taken[0] = start /\ \A i \in Nat : taken[i + 1] = TakeFrame(taken[i])
  <2> HIDE DEF taken
  <2>1. \A i \in Nat : taken[i] = IF i = 0 THEN start ELSE TakeFrame(taken[i - 1])
    BY <1>6
  <2>2. \A i \in Nat : i + 1 \in Nat /\ i + 1 # 0 /\ i + 1 - 1 = i
    OBVIOUS
  <2> QED
    BY <2>1, <2>2
<1>8. \A k \in Nat : TakeFrames(b, k) = taken[k]
  BY DEF TakeFrames, start
<1> HIDE DEF taken
<1>9. \A k \in Nat : taken[k] = f[k]
  <2> DEFINE X == {k \in Nat : taken[k] = f[k]}
  <2>1. 0 \in X
    BY <1>4, <1>7
  <2>2. ASSUME NEW k \in Nat, k \in X PROVE k + 1 \in X
    <3>1. taken[k] = f[k]
      BY <2>2
    <3>2. taken[k + 1] = TakeFrame(taken[k]) /\ f[k + 1] = TakeFrame(f[k])
      BY <1>4, <1>7
    <3> QED
      BY <3>1, <3>2
  <2> HIDE DEF X
  <2>3. Nat \subseteq X
    BY <2>1, <2>2, Induction
  <2> QED
    BY <2>3 DEF X
<1> QED
  BY <1>4, <1>8, <1>9 DEF start

-----------------------------------------------------------------------------
(* The frames of a sequence of messages, one after another. *)

FramesOf(p) == [i \in DOMAIN p |-> Frame(p[i])]
Frames(p) == FlattenSeq(FramesOf(p))

\* g adds the frames of p up one by one.
AddsUp(g, p) ==
  g[0] = <<>> /\ \A i \in Nat : i < Len(p) => g[i + 1] = g[i] \o Frame(p[i + 1])

LEMMA SumsExist ==
  ASSUME NEW p \in Seq(Messages)
  PROVE  \E g \in [Nat -> Seq(Bytes)] : AddsUp(g, p)
<1> DEFINE round == [x \in Nat \X Seq(Bytes) |->
                       IF x[1] \in 1 .. Len(p) THEN x[2] \o Frame(p[x[1]]) ELSE x[2]]
<1>1. round \in [Nat \X Seq(Bytes) -> Seq(Bytes)]
  <2> SUFFICES ASSUME NEW x \in Nat \X Seq(Bytes), x[1] \in 1 .. Len(p)
               PROVE  x[2] \o Frame(p[x[1]]) \in Seq(Bytes)
    OBVIOUS
  <2>1. p[x[1]] \in Messages /\ x[2] \in Seq(Bytes)
    BY ElementOfSeq
  <2> QED
    BY <2>1, FrameTyped, ConcatProperties
<1>2. <<>> \in Seq(Bytes)
  BY EmptySeq
<1>3. ASSUME NEW g \in [Nat -> Seq(Bytes)], NEW i \in Nat, i < Len(p)
      PROVE  round[<<i + 1, g[i]>>] = g[i] \o Frame(p[i + 1])
  <2>1. g[i] \in Seq(Bytes) /\ i + 1 \in Nat /\ i + 1 \in 1 .. Len(p)
    BY <1>3, LenProperties
  <2>2. <<i + 1, g[i]>> \in Nat \X Seq(Bytes)
    BY <2>1
  <2> QED
    BY <2>1, <2>2
<1> HIDE DEF round
<1>4. PICK g \in [Nat -> Seq(Bytes)] : Recurs(g, <<>>, round)
  BY <1>1, <1>2, Recursion
<1>5. AddsUp(g, p)
  BY <1>3, <1>4 DEF Recurs, AddsUp
<1> QED
  BY <1>5

\* The sum of all of them is what FlattenSeq makes of them.
LEMMA FramesAddUp ==
  ASSUME NEW p \in Seq(Messages), NEW g \in [Nat -> Seq(Bytes)], AddsUp(g, p)
  PROVE  Frames(p) = g[Len(p)] /\ Frames(p) \in Seq(Bytes)
<1> DEFINE n == Len(p)
           seqs == FramesOf(p)
           Flattens(f) == f = [i \in 1 .. n |-> IF i = 1 THEN seqs[i] ELSE f[i - 1] \o seqs[i]]
           flat == CHOOSE f : Flattens(f)
<1>1. n \in Nat /\ DOMAIN p = 1 .. n
  BY LenProperties
<1>2. seqs = [i \in 1 .. n |-> Frame(p[i])]
  BY <1>1 DEF FramesOf
<1>3. Len(seqs) = n
  BY <1>1, <1>2
<1>4. \A i \in 1 .. n : p[i] \in Messages /\ seqs[i] = Frame(p[i]) /\ Frame(p[i]) \in Seq(Bytes)
  BY <1>2, ElementOfSeq, FrameTyped
<1>5. CASE n = 0
  <2>1. seqs = <<>>
    BY <1>2, <1>5
  <2>2. Frames(p) = <<>>
    BY <1>3, <1>5, <2>1 DEF Frames, FlattenSeq
  <2> QED
    BY <1>5, <2>2, EmptySeq DEF AddsUp
<1>6. CASE n # 0
  <2> HIDE DEF n, seqs
  <2> DEFINE h == [i \in 1 .. n |-> g[i]]
  <2>1. Flattens(h)
    <3>1. ASSUME NEW i \in 1 .. n
          PROVE  g[i] = IF i = 1 THEN seqs[i] ELSE h[i - 1] \o seqs[i]
      <4>1. g[i] = g[i - 1] \o seqs[i]
        <5>1. i - 1 \in Nat /\ i - 1 < n /\ i - 1 + 1 = i
          BY <1>1
        <5>2. g[i - 1 + 1] = g[i - 1] \o Frame(p[i - 1 + 1])
          BY <5>1 DEF AddsUp, n
        <5> QED
          BY <1>4, <5>1, <5>2
      <4>2. CASE i = 1
        <5>1. g[i - 1] = <<>>
          BY <4>2 DEF AddsUp
        <5> QED
          BY <1>4, <4>1, <4>2, <5>1, ConcatEmptySeq
      <4>3. CASE i # 1
        <5>1. i - 1 \in 1 .. n
          BY <1>1, <4>3
        <5> QED
          BY <4>1, <4>3, <5>1
      <4> QED
        BY <4>2, <4>3
    <3> QED
      BY <3>1
  <2>2. Flattens(flat)
    <3> HIDE DEF Flattens, h
    <3> QED
      BY <2>1
  <2>3. FlattenSeq(seqs) = flat[n]
    BY <1>3, <1>6 DEF FlattenSeq
  <2> HIDE DEF flat
  <2>4. \A i \in 1 .. n : flat[i] = g[i]
    <3> DEFINE X == {k \in Nat : k + 1 \in 1 .. n => flat[k + 1] = g[k + 1]}
    <3>0. \A i \in 1 .. n : flat[i] = IF i = 1 THEN seqs[i] ELSE flat[i - 1] \o seqs[i]
      BY <2>2
    <3>1. \A i \in 1 .. n : g[i] = IF i = 1 THEN seqs[i] ELSE g[i - 1] \o seqs[i]
      <4> TAKE i \in 1 .. n
      <4>1. h[i] = g[i] /\ (i # 1 => i - 1 \in 1 .. n /\ h[i - 1] = g[i - 1])
        BY <1>1
      <4>2. h[i] = IF i = 1 THEN seqs[i] ELSE h[i - 1] \o seqs[i]
        BY <2>1
      <4> QED
        BY <4>1, <4>2
    <3> HIDE DEF h, Flattens
    <3>2. 0 \in X
      <4>1. 0 + 1 = 1
        OBVIOUS
      <4> QED
        BY <3>0, <3>1, <4>1
    <3>3. ASSUME NEW k \in Nat, k \in X PROVE k + 1 \in X
      <4> SUFFICES ASSUME k + 1 + 1 \in 1 .. n
                   PROVE  flat[k + 1 + 1] = g[k + 1 + 1]
        OBVIOUS
      <4>1. k + 1 \in 1 .. n /\ k + 1 + 1 # 1 /\ k + 1 + 1 - 1 = k + 1
        BY <1>1
      <4>2. flat[k + 1] = g[k + 1]
        BY <3>3, <4>1
      <4> QED
        BY <3>0, <3>1, <4>1, <4>2
    <3> HIDE DEF X
    <3>4. Nat \subseteq X
      BY <3>2, <3>3, Induction
    <3> QED
      <4> TAKE i \in 1 .. n
      <4>1. i - 1 \in Nat /\ i - 1 + 1 = i
        BY <1>1
      <4>2. i - 1 \in X
        BY <3>4, <4>1
      <4> QED
        BY <4>1, <4>2 DEF X
  <2>5. Frames(p) = g[n] /\ g[n] \in Seq(Bytes)
    BY <1>1, <1>6, <2>3, <2>4 DEF Frames, seqs
  <2> QED
    BY <2>5 DEF n
<1> QED
  BY <1>5, <1>6

LEMMA FramesEmpty == Frames(<<>>) = <<>>
<1>1. <<>> \in Seq(Messages) /\ Len(<<>>) = 0
  BY EmptySeq
<1>2. PICK g \in [Nat -> Seq(Bytes)] : AddsUp(g, <<>>)
  BY <1>1, SumsExist
<1> QED
  BY <1>1, <1>2, FramesAddUp DEF AddsUp

LEMMA FramesAppend ==
  ASSUME NEW p \in Seq(Messages), NEW m \in Messages
  PROVE  Frames(Append(p, m)) = Frames(p) \o Frame(m)
<1> DEFINE q == Append(p, m)
           n == Len(p)
<1>1. /\ q \in Seq(Messages) /\ Len(q) = n + 1 /\ n \in Nat
      /\ q[n + 1] = m /\ \A i \in 1 .. n : q[i] = p[i]
  BY AppendProperties, LenProperties
<1> HIDE DEF q
<1>2. PICK g \in [Nat -> Seq(Bytes)] : AddsUp(g, q)
  BY <1>1, SumsExist
<1>3. /\ g[0] = <<>> /\ \A i \in Nat : i < n + 1 => g[i + 1] = g[i] \o Frame(q[i + 1])
      /\ n \in Nat
  BY <1>1, <1>2 DEF AddsUp
<1>4. ASSUME NEW i \in Nat, i < n
      PROVE  g[i + 1] = g[i] \o Frame(p[i + 1])
  <2> HIDE DEF n
  <2>1. i < n + 1 /\ i + 1 \in 1 .. n
    BY <1>3, <1>4
  <2>2. g[i + 1] = g[i] \o Frame(q[i + 1])
    BY <1>3, <2>1
  <2>3. q[i + 1] = p[i + 1]
    BY <1>1, <2>1
  <2> QED
    BY <2>2, <2>3
<1>5. AddsUp(g, p)
  BY <1>3, <1>4 DEF AddsUp
<1>6. g[n + 1] = g[n] \o Frame(m)
  <2> HIDE DEF n
  <2>1. n < n + 1
    BY <1>3
  <2> QED
    BY <1>1, <1>3, <2>1
<1>7. Frames(q) = g[Len(q)] /\ Frames(p) = g[Len(p)]
  BY <1>1, <1>2, <1>5, FramesAddUp
<1> QED
  BY <1>1, <1>6, <1>7 DEF q

LEMMA BytesAssociate ==
  ASSUME NEW s \in Seq(Bytes), NEW t \in Seq(Bytes), NEW u \in Seq(Bytes)
  PROVE  (s \o t) \o u = s \o (t \o u)
BY ConcatAssociative

LEMMA MessagesAssociate ==
  ASSUME NEW s \in Seq(Messages), NEW t \in Seq(Messages), NEW u \in Seq(Messages)
  PROVE  (s \o t) \o u = s \o (t \o u)
BY ConcatAssociative

\* Taking the first message off takes the first frame off.
LEMMA FramesFirst ==
  ASSUME NEW p \in Seq(Messages), p # <<>>
  PROVE  /\ p[1] \in Messages /\ Tail(p) \in Seq(Messages) /\ Len(Tail(p)) = Len(p) - 1
         /\ Frames(Tail(p)) \in Seq(Bytes)
         /\ Frames(p) = Frame(p[1]) \o Frames(Tail(p))
<1> DEFINE q == Tail(p)
           n == Len(q)
<1>1. /\ Len(p) \in Nat \ {0} /\ q \in Seq(Messages) /\ Len(q) = Len(p) - 1
      /\ \A i \in 1 .. Len(q) : q[i] = p[i + 1]
  BY HeadTailProperties, EmptySeq
<1>2. n \in Nat /\ Len(p) = n + 1
  BY <1>1
<1> HIDE DEF q
<1>3. PICK g \in [Nat -> Seq(Bytes)] : AddsUp(g, p)
  BY SumsExist
<1>4. PICK h \in [Nat -> Seq(Bytes)] : AddsUp(h, q)
  BY <1>1, SumsExist
<1>5. /\ g[0] = <<>> /\ \A i \in Nat : i < n + 1 => g[i + 1] = g[i] \o Frame(p[i + 1])
      /\ h[0] = <<>> /\ \A i \in Nat : i < n => h[i + 1] = h[i] \o Frame(q[i + 1])
      /\ g \in [Nat -> Seq(Bytes)] /\ h \in [Nat -> Seq(Bytes)]
  BY <1>2, <1>3, <1>4 DEF AddsUp
<1>6. /\ \A i \in 1 .. n + 1 : p[i] \in Messages /\ Frame(p[i]) \in Seq(Bytes)
      /\ \A i \in 1 .. n : q[i] = p[i + 1]
  BY <1>1, <1>2, ElementOfSeq, FrameTyped
<1>7. Frames(p) = g[n + 1] /\ Frames(q) = h[n] /\ Frames(q) \in Seq(Bytes)
  BY <1>1, <1>2, <1>3, <1>4, FramesAddUp
<1> HIDE DEF n
<1>8. 1 \in 1 .. n + 1 /\ 0 + 1 = 1 /\ 0 < n + 1
  BY <1>2
<1> DEFINE Agree(k) == g[k + 1] = Frame(p[1]) \o h[k]
           X == {k \in Nat : k <= n => Agree(k)}
<1>9. 0 \in X
  <2>1. g[0 + 1] = <<>> \o Frame(p[1])
    BY <1>5, <1>8
  <2>2. g[0 + 1] = Frame(p[1]) \o h[0]
    BY <1>5, <1>6, <1>8, <2>1, ConcatEmptySeq
  <2> QED
    BY <2>2
<1>10. ASSUME NEW j \in Nat, j \in X PROVE j + 1 \in X
  <2> SUFFICES ASSUME j + 1 <= n PROVE Agree(j + 1)
    <3> HIDE DEF Agree
    <3> QED
      OBVIOUS
  <2>1. /\ j <= n /\ j < n /\ j + 1 < n + 1 /\ j + 1 \in 1 .. n
        /\ j + 1 + 1 \in 1 .. n + 1 /\ j + 1 \in Nat
    BY <1>2
  <2>2. g[j + 1] = Frame(p[1]) \o h[j]
    BY <1>10, <2>1
  <2>3. g[j + 1 + 1] = g[j + 1] \o Frame(p[j + 1 + 1])
    BY <1>5, <2>1
  <2>4. h[j + 1] = h[j] \o Frame(p[j + 1 + 1])
    BY <1>5, <1>6, <2>1
  <2>5. /\ Frame(p[1]) \in Seq(Bytes) /\ h[j] \in Seq(Bytes)
        /\ Frame(p[j + 1 + 1]) \in Seq(Bytes)
    BY <1>5, <1>6, <1>8, <2>1
  <2>6. (Frame(p[1]) \o h[j]) \o Frame(p[j + 1 + 1]) = Frame(p[1]) \o (h[j] \o Frame(p[j + 1 + 1]))
    BY <2>5, BytesAssociate
  <2> QED
    BY <2>2, <2>3, <2>4, <2>6
<1> HIDE DEF X
<1>11. Nat \subseteq X
  BY <1>9, <1>10, Induction
<1>12. g[n + 1] = Frame(p[1]) \o h[n]
  <2>1. n \in X
    BY <1>2, <1>11
  <2>2. Agree(n)
    <3> HIDE DEF Agree
    <3> QED
      BY <1>2, <2>1 DEF X
  <2> QED
    BY <2>2
<1> QED
  BY <1>1, <1>6, <1>7, <1>8, <1>12 DEF q

-----------------------------------------------------------------------------
(* Cutting a sequence in two.                                              *)

LEMMA FrontOf ==
  ASSUME NEW S, NEW s \in Seq(S), NEW n \in Nat, n <= Len(s)
  PROVE  /\ SubSeq(s, 1, n) \in Seq(S) /\ Len(SubSeq(s, 1, n)) = n
         /\ \A i \in 1 .. n : SubSeq(s, 1, n)[i] = s[i]
<1> DEFINE t == SubSeq(s, 1, n)
<1>1. /\ t \in Seq(S) /\ Len(t) = IF 1 <= n THEN n - 1 + 1 ELSE 0
      /\ \A i \in 1 .. n - 1 + 1 : t[i] = s[1 + i - 1]
  <2>1. 1 \in Nat \ {0} /\ n \in Int
    OBVIOUS
  <2> QED
    BY <2>1, PartTyped
<1> HIDE DEF t
<1>2. Len(t) = n
  BY <1>1
<1>3. \A i \in 1 .. n : t[i] = s[i]
  <2> TAKE i \in 1 .. n
  <2>1. i \in 1 .. n - 1 + 1 /\ 1 + i - 1 = i
    OBVIOUS
  <2> QED
    BY <1>1, <2>1
<1> QED
  BY <1>1, <1>2, <1>3 DEF t

LEMMA RestOf ==
  ASSUME NEW S, NEW s \in Seq(S), NEW n \in Nat, n <= Len(s)
  PROVE  /\ SubSeq(s, n + 1, Len(s)) \in Seq(S)
         /\ Len(SubSeq(s, n + 1, Len(s))) = Len(s) - n
         /\ \A i \in 1 .. Len(s) - n : SubSeq(s, n + 1, Len(s))[i] = s[n + i]
<1> DEFINE l == Len(s)
           t == SubSeq(s, n + 1, l)
<1>0. l \in Nat /\ n <= l /\ n + 1 \in Nat \ {0} /\ l \in Int /\ l <= Len(s)
  BY LenProperties
<1>1. /\ t \in Seq(S) /\ Len(t) = IF n + 1 <= l THEN l - (n + 1) + 1 ELSE 0
      /\ \A i \in 1 .. l - (n + 1) + 1 : t[i] = s[n + 1 + i - 1]
  <2> HIDE DEF l
  <2> QED
    BY <1>0, PartTyped
<1> HIDE DEF t, l
<1>2. Len(t) = l - n
  BY <1>0, <1>1
<1>3. \A i \in 1 .. l - n : t[i] = s[n + i]
  <2> TAKE i \in 1 .. l - n
  <2>1. i \in 1 .. l - (n + 1) + 1 /\ n + 1 + i - 1 = n + i
    BY <1>0
  <2> QED
    BY <1>1, <2>1
<1> QED
  BY <1>1, <1>2, <1>3 DEF t, l

\* What s \o t holds.
Joined(s, t) ==
  /\ Len(s) \in Nat /\ Len(t) \in Nat /\ Len(s \o t) = Len(s) + Len(t)
  /\ \A i \in 1 .. Len(s) : (s \o t)[i] = s[i]
  /\ \A i \in 1 .. Len(t) : (s \o t)[Len(s) + i] = t[i]

LEMMA JoinOf ==
  ASSUME NEW S, NEW s \in Seq(S), NEW t \in Seq(S)
  PROVE  s \o t \in Seq(S) /\ Joined(s, t)
<1> DEFINE j == s \o t
           m == Len(s)
           n == Len(t)
<1>1. m \in Nat /\ n \in Nat
  BY LenProperties
<1>2. /\ j \in Seq(S) /\ Len(j) = m + n
      /\ \A i \in 1 .. m + n : j[i] = IF i <= m THEN s[i] ELSE t[i - m]
  BY ConcatProperties
<1> HIDE DEF j, m, n
<1>3. \A i \in 1 .. m : j[i] = s[i]
  <2> TAKE i \in 1 .. m
  <2>1. i \in 1 .. m + n /\ i <= m
    BY <1>1
  <2> QED
    BY <1>2, <2>1
<1>4. \A i \in 1 .. n : j[m + i] = t[i]
  <2> TAKE i \in 1 .. n
  <2> DEFINE k == m + i
  <2>1. k \in 1 .. m + n /\ ~ (k <= m) /\ k - m = i
    BY <1>1
  <2> HIDE DEF k
  <2>2. j[k] = t[i]
    BY <1>2, <2>1
  <2> QED
    BY <2>2 DEF k
<1> QED
  BY <1>1, <1>2, <1>3, <1>4 DEF Joined, j, m, n

\* The two parts make up the whole.
LEMMA Halves ==
  ASSUME NEW S, NEW s \in Seq(S), NEW n \in Nat, n <= Len(s)
  PROVE  s = SubSeq(s, 1, n) \o SubSeq(s, n + 1, Len(s))
<1>1. /\ 1 \in 1 .. Len(s) + 1 /\ n \in 1 - 1 .. Len(s) /\ Len(s) \in n .. Len(s)
  BY LenProperties
<1>2. SubSeq(s, 1, n) \o SubSeq(s, n + 1, Len(s)) = SubSeq(s, 1, Len(s))
  BY <1>1, ConcatAdjacentSubSeq
<1> QED
  BY <1>2, SubSeqFull

\* A cut inside t leaves s whole.
LEMMA CutAfter ==
  ASSUME NEW S, NEW s \in Seq(S), NEW t \in Seq(S), NEW n \in Nat, n <= Len(t)
  PROVE  SubSeq(s \o t, 1, Len(s) + n) = s \o SubSeq(t, 1, n)
<1> DEFINE m == Len(s)
           j == s \o t
           c == SubSeq(t, 1, n)
           k == SubSeq(j, 1, m + n)
<1>1. /\ m \in Nat /\ Len(t) \in Nat /\ j \in Seq(S) /\ Len(j) = m + Len(t)
      /\ \A i \in 1 .. m : j[i] = s[i]
      /\ \A i \in 1 .. Len(t) : j[m + i] = t[i]
  BY JoinOf DEF Joined
<1>2. c \in Seq(S) /\ Len(c) = n /\ \A i \in 1 .. n : c[i] = t[i]
  BY FrontOf
<1> HIDE DEF j, c, m
<1>3. m + n \in Nat /\ m + n <= Len(j)
  BY <1>1
<1>4. k \in Seq(S) /\ Len(k) = m + n /\ \A i \in 1 .. m + n : k[i] = j[i]
  BY <1>1, <1>3, FrontOf
<1> HIDE DEF k
<1>5. /\ s \o c \in Seq(S) /\ Len(s \o c) = m + n
      /\ \A i \in 1 .. m : (s \o c)[i] = s[i]
      /\ \A i \in 1 .. n : (s \o c)[m + i] = c[i]
  <2>1. /\ s \o c \in Seq(S) /\ Len(s \o c) = Len(s) + Len(c)
        /\ \A i \in 1 .. Len(s) : (s \o c)[i] = s[i]
        /\ \A i \in 1 .. Len(c) : (s \o c)[Len(s) + i] = c[i]
    <3>1. s \o c \in Seq(S) /\ Joined(s, c)
      BY <1>2, JoinOf
    <3> QED
      BY <3>1 DEF Joined
  <2> QED
    BY <1>2, <2>1 DEF m
<1>6. \A i \in 1 .. m + n : k[i] = (s \o c)[i]
  <2> TAKE i \in 1 .. m + n
  <2>1. CASE i <= m
    <3>1. i \in 1 .. m
      BY <1>1, <2>1
    <3> QED
      BY <1>1, <1>4, <1>5, <3>1
  <2>2. CASE ~ (i <= m)
    <3>1. i - m \in 1 .. n /\ i - m \in 1 .. Len(t) /\ m + (i - m) = i
      BY <1>1, <2>2
    <3>2. /\ (s \o c)[m + (i - m)] = c[i - m] /\ c[i - m] = t[i - m]
          /\ j[m + (i - m)] = t[i - m]
      BY <1>1, <1>2, <1>5, <3>1
    <3> QED
      BY <1>4, <3>1, <3>2
  <2> QED
    BY <2>1, <2>2
<1>7. k = s \o c
  BY <1>4, <1>5, <1>6, SeqEqual
<1> QED
  BY <1>7 DEF k, c, j, m

\* Equal fronts of equal sequences, and what follows them.
LEMMA SameFront ==
  ASSUME NEW S, NEW s \in Seq(S), NEW t \in Seq(S), NEW x \in Seq(S), NEW y \in Seq(S),
         Len(s) = Len(t), s \o x = t \o y
  PROVE  s = t /\ x = y
<1>1. /\ Len(s) \in Nat /\ Len(x) \in Nat /\ Len(s \o x) = Len(s) + Len(x)
      /\ \A i \in 1 .. Len(s) : (s \o x)[i] = s[i]
      /\ \A i \in 1 .. Len(x) : (s \o x)[Len(s) + i] = x[i]
  <2>1. Joined(s, x)
    BY JoinOf
  <2> QED
    BY <2>1 DEF Joined
<1>2. /\ Len(t) \in Nat /\ Len(y) \in Nat /\ Len(t \o y) = Len(t) + Len(y)
      /\ \A i \in 1 .. Len(t) : (t \o y)[i] = t[i]
      /\ \A i \in 1 .. Len(y) : (t \o y)[Len(t) + i] = y[i]
  <2>1. Joined(t, y)
    BY JoinOf
  <2> QED
    BY <2>1 DEF Joined
<1>3. \A i \in 1 .. Len(s) : s[i] = t[i]
  BY <1>1, <1>2
<1>4. Len(x) = Len(y)
  BY <1>1, <1>2
<1>5. \A i \in 1 .. Len(x) : x[i] = y[i]
  BY <1>1, <1>2, <1>4
<1>6. s = t
  BY <1>3, SeqEqual
<1>7. x = y
  BY <1>4, <1>5, SeqEqual
<1> QED
  BY <1>6, <1>7

\* What has been passed on and what has not make up the order.
LEMMA RemainderOf ==
  ASSUME NEW S, NEW o \in Seq(S), NEW d \in Seq(S), IsPrefix(d, o)
  PROVE  /\ SubSeq(o, Len(d) + 1, Len(o)) \in Seq(S)
         /\ o = d \o SubSeq(o, Len(d) + 1, Len(o))
<1>1. Len(d) \in Nat /\ Len(d) <= Len(o) /\ SubSeq(d, 1, Len(d)) = SubSeq(o, 1, Len(d))
  BY LenProperties DEF IsPrefix
<1>2. d = SubSeq(o, 1, Len(d))
  BY <1>1, SubSeqFull
<1>3. SubSeq(o, Len(d) + 1, Len(o)) \in Seq(S)
  <2> DEFINE k == Len(d)
  <2>1. k \in Nat /\ k <= Len(o)
    BY <1>1
  <2> HIDE DEF k
  <2>2. SubSeq(o, k + 1, Len(o)) \in Seq(S)
    BY <2>1, RestOf
  <2> QED
    BY <2>2 DEF k
<1>4. o = SubSeq(o, 1, Len(d)) \o SubSeq(o, Len(d) + 1, Len(o))
  <2> DEFINE k == Len(d)
  <2>1. k \in Nat /\ k <= Len(o)
    BY <1>1
  <2> HIDE DEF k
  <2>2. o = SubSeq(o, 1, k) \o SubSeq(o, k + 1, Len(o))
    BY <2>1, Halves
  <2> QED
    BY <2>2 DEF k
<1> QED
  BY <1>2, <1>3, <1>4

LEMMA FrontIsPrefix ==
  ASSUME NEW S, NEW d \in Seq(S), NEW p \in Seq(S)
  PROVE  /\ IsPrefix(d, d \o p)
         /\ SubSeq(d \o p, Len(d) + 1, Len(d \o p)) = p
         /\ Len(d \o p) = Len(d) + Len(p)
<1> DEFINE o == d \o p
           k == Len(d)
<1>1. o \in Seq(S) /\ Joined(d, p)
  BY JoinOf
<1>2. k \in Nat /\ k = Len(d) /\ k <= Len(o) /\ Len(o) = k + Len(p) /\ \A i \in 1 .. k : o[i] = d[i]
  BY <1>1 DEF Joined
<1> HIDE DEF o, k
<1>3. /\ SubSeq(o, 1, k) \in Seq(S) /\ Len(SubSeq(o, 1, k)) = k
      /\ \A i \in 1 .. k : SubSeq(o, 1, k)[i] = o[i]
  BY <1>1, <1>2, FrontOf
<1>4. SubSeq(o, 1, k) = d
  BY <1>2, <1>3, SeqEqual
<1>5. SubSeq(d, 1, k) = d
  BY <1>2, SubSeqFull
<1>6. IsPrefix(d, o)
  BY <1>2, <1>4, <1>5 DEF IsPrefix
<1>7. /\ SubSeq(o, k + 1, Len(o)) \in Seq(S)
      /\ o = SubSeq(o, 1, k) \o SubSeq(o, k + 1, Len(o))
  BY <1>1, <1>2, RestOf, Halves
<1>8. SubSeq(o, k + 1, Len(o)) = p
  <2> DEFINE x == SubSeq(o, k + 1, Len(o))
  <2>1. d \o x = d \o p /\ x \in Seq(S)
    BY <1>4, <1>7 DEF o
  <2> HIDE DEF x
  <2>2. x = p
    BY <2>1, SameFront
  <2> QED
    BY <2>2 DEF x
<1> QED
  BY <1>2, <1>6, <1>8 DEF o, k

LEMMA HeadOnTail ==
  ASSUME NEW S, NEW p \in Seq(S), p # <<>>
  PROVE  <<p[1]>> \o Tail(p) = p
<1>1. Len(p) \in Nat \ {0}
  BY EmptySeq
<1>2. 1 \in 1 .. Len(p) /\ Len(p) \in 1 .. Len(p)
  BY <1>1
<1>3. SubSeq(p, 1, Len(p)) = <<p[1]>> \o SubSeq(p, 1 + 1, Len(p))
  BY <1>2, SubSeqRecursiveFirst
<1>4. Tail(p) = SubSeq(p, 2, Len(p)) /\ 1 + 1 = 2
  BY TailIsSubSeq
<1> QED
  BY <1>3, <1>4, SubSeqFull

-----------------------------------------------------------------------------
(* The stream of the messages p without its last u bytes. *)

Cut(p, u) == SubSeq(Frames(p), 1, Len(Frames(p)) - u)

LEMMA FramesTyped ==
  ASSUME NEW p \in Seq(Messages)
  PROVE  Frames(p) \in Seq(Bytes) /\ Len(Frames(p)) \in Nat
<1>1. PICK g \in [Nat -> Seq(Bytes)] : AddsUp(g, p)
  BY SumsExist
<1>2. Frames(p) \in Seq(Bytes)
  BY <1>1, FramesAddUp
<1> QED
  BY <1>2, LenProperties

\* A stream that is not empty is that of a frame and what follows it.
LEMMA CutTyped ==
  ASSUME NEW p \in Seq(Messages), NEW u \in Nat, NEW s \in Seq(Bytes),
         s = Cut(p, u), s # <<>>
  PROVE  /\ p # <<>> /\ u < Len(Frames(p)) /\ Len(s) = Len(Frames(p)) - u
         /\ \A i \in 1 .. Len(s) : s[i] = Frames(p)[i]
<1> DEFINE F == Frames(p)
           n == Len(F) - u
<1>1. F \in Seq(Bytes) /\ Len(F) \in Nat /\ n \in Int /\ n <= Len(F)
  BY FramesTyped
<1>2. s = SubSeq(F, 1, n)
  BY DEF Cut
<1>3. n >= 1
  <2>1. CASE n < 1
    <3> HIDE DEF n
    <3>1. SubSeq(F, 1, n) = <<>>
      BY <1>1, <2>1, SubSeqEmpty
    <3> QED
      BY <1>2, <3>1
  <2> QED
    BY <1>1, <2>1
<1>4. p # <<>>
  <2> SUFFICES ASSUME p = <<>> PROVE FALSE
    OBVIOUS
  <2>1. F = <<>>
    BY FramesEmpty
  <2> QED
    BY <1>1, <1>3, <2>1, EmptySeq
<1>5. n \in Nat
  BY <1>1, <1>3
<1> HIDE DEF n, F
<1>6. Len(s) = n /\ \A i \in 1 .. n : s[i] = F[i]
  BY <1>1, <1>2, <1>5, FrontOf
<1> QED
  BY <1>1, <1>3, <1>4, <1>6 DEF n, F

\* The first bytes of the stream are the prefix of its first frame.
LEMMA PrefixRead ==
  ASSUME NEW p \in Seq(Messages), NEW u \in Nat, NEW b \in Seq(Bytes), NEW w \in Seq(Bytes),
         b \o w = Cut(p, u), HasPrefix(b)
  PROVE  /\ p # <<>> /\ p[1] \in Messages /\ Announced(b) = CipherLen(p[1])
<1> DEFINE s == b \o w
<1>1. s \in Seq(Bytes) /\ Joined(b, w)
  BY JoinOf
<1>2. Prefix \in Nat \ {0} /\ Len(b) >= Prefix /\ Len(b) \in Nat
  BY FrameAssumption, LenProperties DEF HasPrefix
<1>3. /\ Len(s) = Len(b) + Len(w) /\ Len(w) \in Nat
      /\ \A i \in 1 .. Len(b) : s[i] = b[i]
  BY <1>1 DEF Joined
<1> HIDE DEF s
<1>4. s # <<>> /\ s = Cut(p, u)
  BY <1>1, <1>2, <1>3, EmptySeq DEF s
<1>5. p # <<>> /\ \A i \in 1 .. Len(s) : s[i] = Frames(p)[i]
  BY <1>1, <1>4, CutTyped
<1> DEFINE m == p[1]
           F == Frame(m)
           R == Frames(Tail(p))
<1>6. m \in Messages /\ R \in Seq(Bytes) /\ Frames(p) = F \o R
  BY <1>5, FramesFirst
<1>7. /\ F \in Seq(Bytes) /\ Len(F) = Prefix + CipherLen(m) /\ CipherLen(m) \in Nat \ {0}
      /\ \A i \in 1 .. Len(F) : F[i] = <<m, i>>
  <2> HIDE DEF m
  <2> QED
    BY <1>6, FrameTyped
<1> HIDE DEF m, F, R
<1>8. \A i \in 1 .. Len(F) : (F \o R)[i] = F[i]
  <2>1. Joined(F, R)
    BY <1>6, <1>7, JoinOf
  <2> QED
    BY <2>1 DEF Joined
<1>9. \A i \in 1 .. Prefix : b[i] = F[i]
  <2> TAKE i \in 1 .. Prefix
  <2>1. i \in 1 .. Len(b) /\ i \in 1 .. Len(s) /\ i \in 1 .. Len(F)
    BY <1>2, <1>3, <1>7
  <2> QED
    BY <1>3, <1>5, <1>6, <1>8, <2>1
<1>10. SubSeq(b, 1, Prefix) = SubSeq(F, 1, Prefix)
  <2> DEFINE x == SubSeq(b, 1, Prefix)
             y == SubSeq(F, 1, Prefix)
  <2>1. x \in Seq(Bytes) /\ Len(x) = Prefix /\ \A i \in 1 .. Prefix : x[i] = b[i]
    BY <1>2, FrontOf
  <2>2. Prefix <= Len(F) /\ Prefix \in Nat
    BY <1>2, <1>7
  <2>3. y \in Seq(Bytes) /\ Len(y) = Prefix /\ \A i \in 1 .. Prefix : y[i] = F[i]
    BY <1>7, <2>2, FrontOf
  <2> HIDE DEF x, y
  <2>4. x = y
    BY <1>9, <2>1, <2>3, SeqEqual
  <2> QED
    BY <2>4 DEF x, y
<1>11. b[1][1] = m
  <2>1. 1 \in 1 .. Prefix /\ 1 \in 1 .. Len(F)
    BY <1>2, <1>7
  <2>2. b[1] = <<m, 1>>
    BY <1>7, <1>9, <2>1
  <2> QED
    BY <2>2
<1> QED
  BY <1>5, <1>6, <1>10, <1>11 DEF Announced, m, F

\* Once it is there as a whole, the first frame comes off the stream, and the
\* stream of the other messages remains.
LEMMA FrameTaken ==
  ASSUME NEW p \in Seq(Messages), NEW u \in Nat, NEW b \in Seq(Bytes), NEW w \in Seq(Bytes),
         b \o w = Cut(p, u), HasPrefix(b), Len(b) >= FrameLen(p[1])
  PROVE  /\ SubSeq(b, 1, FrameLen(p[1])) = Frame(p[1])
         /\ u <= Len(Frames(Tail(p)))
         /\ SubSeq(b, FrameLen(p[1]) + 1, Len(b)) \o w = Cut(Tail(p), u)
<1>1. p # <<>> /\ p[1] \in Messages
  BY PrefixRead
<1> DEFINE m == p[1]
           F == Frame(m)
           R == Frames(Tail(p))
           f == FrameLen(m)
           s == b \o w
<1>2. m \in Messages /\ R \in Seq(Bytes) /\ Frames(p) = F \o R
  BY <1>1, FramesFirst
<1>3. F \in Seq(Bytes) /\ Len(F) = f /\ f \in Nat \ {0}
  <2> HIDE DEF m
  <2> QED
    BY <1>2, FrameTyped
<1>4. s \in Seq(Bytes) /\ Len(s) = Len(b) + Len(w) /\ Len(b) \in Nat /\ Len(w) \in Nat
  <2>1. s \in Seq(Bytes) /\ Joined(b, w)
    BY JoinOf
  <2> QED
    BY <2>1 DEF Joined
<1>5. Len(b) >= f /\ s = Cut(p, u)
  OBVIOUS
<1> HIDE DEF m, F, R, f, s
<1>6. Len(F \o R) = f + Len(R) /\ Len(R) \in Nat
  <2>1. Joined(F, R)
    BY <1>2, <1>3, JoinOf
  <2> QED
    BY <1>3, <2>1 DEF Joined
<1>7. s # <<>>
  BY <1>3, <1>4, <1>5, EmptySeq
<1>8. Len(s) = f + Len(R) - u
  <2>1. Len(s) = Len(Frames(p)) - u
    BY <1>4, <1>5, <1>7, CutTyped
  <2>2. Len(Frames(p)) = f + Len(R)
    BY <1>2, <1>6
  <2> QED
    BY <1>3, <1>6, <2>1, <2>2
<1>9. u <= Len(R)
  BY <1>3, <1>4, <1>5, <1>6, <1>8
<1> DEFINE n == Len(R) - u
           x == SubSeq(b, 1, f)
           y == SubSeq(b, f + 1, Len(b))
           z == SubSeq(R, 1, n)
<1>10. n \in Nat /\ n <= Len(R) /\ f + Len(R) - u = f + n
  BY <1>3, <1>6, <1>9
<1>11. s = SubSeq(F \o R, 1, f + n)
  <2>1. s = SubSeq(Frames(p), 1, Len(Frames(p)) - u)
    BY <1>5 DEF Cut
  <2>2. Len(Frames(p)) - u = f + n
    <3>1. Len(Frames(p)) = f + Len(R)
      BY <1>2, <1>6
    <3> QED
      BY <1>3, <1>6, <3>1
  <2> HIDE DEF n
  <2> QED
    BY <1>2, <2>1, <2>2
<1> HIDE DEF n
<1>12. SubSeq(F \o R, 1, Len(F) + n) = F \o z
  BY <1>2, <1>3, <1>10, CutAfter
<1>13. x \in Seq(Bytes) /\ Len(x) = f /\ y \in Seq(Bytes) /\ b = x \o y
  <2>1. x \in Seq(Bytes) /\ Len(x) = f
    BY <1>3, <1>5, FrontOf
  <2>2. y \in Seq(Bytes)
    BY <1>3, <1>5, RestOf
  <2>3. b = x \o y
    BY <1>3, <1>5, Halves
  <2> QED
    BY <2>1, <2>2, <2>3
<1>14. z \in Seq(Bytes)
  BY <1>2, <1>10, FrontOf
<1> HIDE DEF x, y, z
<1>15. y \o w \in Seq(Bytes) /\ s = x \o (y \o w)
  <2>1. y \o w \in Seq(Bytes)
    BY <1>13, ConcatProperties
  <2>2. (x \o y) \o w = x \o (y \o w)
    BY <1>13, BytesAssociate, ZenonT(30)
  <2> QED
    BY <1>13, <2>1, <2>2 DEF s
<1>16. x = F /\ y \o w = z
  <2>1. x \o (y \o w) = F \o z /\ Len(x) = Len(F)
    BY <1>3, <1>11, <1>12, <1>13, <1>15
  <2> QED
    BY <1>3, <1>13, <1>14, <1>15, <2>1, SameFront, ZenonT(30)
<1> QED
  BY <1>9, <1>16 DEF Cut, x, y, z, n, m, F, R, f

LEMMA FrameDecoded ==
  ASSUME NEW m \in Messages
  PROVE  Decoded(Frame(m)) = <<m>>
<1>1. /\ Frame(m) \in Seq(Bytes) /\ Len(Frame(m)) = FrameLen(m) /\ FrameLen(m) \in Nat \ {0}
      /\ \A i \in 1 .. FrameLen(m) : Frame(m)[i] = <<m, i>>
  BY FrameTyped
<1>2. Frame(m)[1] = <<m, 1>>
  BY <1>1
<1>3. Frame(m)[1][1] = m
  BY <1>2
<1>4. Frame(m) # <<>>
  BY <1>1, EmptySeq
<1> QED
  BY <1>3, <1>4 DEF Decoded

\* After i rounds, t.out and then p are the messages of p0, and t.rest and w
\* the stream of p; each round has taken a frame, or none is left.
Follows(t, i, p0, w, u) ==
  \E p \in Seq(Messages) :
    /\ t.out \o p = p0 /\ t.rest \o w = Cut(p, u)
    /\ u >= 1 => p # <<>>
    /\ HasFrame(t.rest) => Len(p) + i <= Len(p0)

LEMMA TakeFrameFollows ==
  ASSUME NEW t \in Taken, NEW p0 \in Seq(Messages), NEW w \in Seq(Bytes), NEW u \in Nat,
         NEW i \in Nat, Follows(t, i, p0, w, u)
  PROVE  Follows(TakeFrame(t), i + 1, p0, w, u)
<1>1. PICK p \in Seq(Messages) :
        /\ t.out \o p = p0 /\ t.rest \o w = Cut(p, u)
        /\ u >= 1 => p # <<>>
        /\ HasFrame(t.rest) => Len(p) + i <= Len(p0)
  BY DEF Follows
<1>2. t.rest \in Seq(Bytes) /\ t.out \in Seq(Messages)
  BY DEF Taken
<1>3. CASE HasFrame(t.rest)
  <2> DEFINE b == t.rest
             m == p[1]
  <2>1. b \in Seq(Bytes) /\ b \o w = Cut(p, u) /\ HasPrefix(b) /\ Len(b) >= Prefix + Announced(b)
    BY <1>1, <1>2, <1>3 DEF HasFrame
  <2> HIDE DEF b
  <2>2. p # <<>> /\ p[1] \in Messages /\ Announced(b) = CipherLen(p[1])
    BY <2>1, PrefixRead
  <2>3. Prefix + Announced(b) = FrameLen(p[1])
    BY <2>2, FrameTyped
  <2>4. /\ SubSeq(b, 1, FrameLen(p[1])) = Frame(p[1])
        /\ u <= Len(Frames(Tail(p)))
        /\ SubSeq(b, FrameLen(p[1]) + 1, Len(b)) \o w = Cut(Tail(p), u)
    BY <2>1, <2>3, FrameTaken
  <2>5. TakeFrame(t) = [rest |-> SubSeq(b, FrameLen(m) + 1, Len(b)), out |-> t.out \o <<m>>]
    BY <1>3, <2>2, <2>3, <2>4, FrameDecoded DEF TakeFrame, b
  <2>6. Tail(p) \in Seq(Messages) /\ (u >= 1 => Tail(p) # <<>>)
    <3>1. Tail(p) \in Seq(Messages)
      BY <2>2, FramesFirst
    <3>2. ASSUME u >= 1, Tail(p) = <<>> PROVE FALSE
      <4>1. Frames(Tail(p)) = <<>>
        BY <3>2, FramesEmpty
      <4>2. Len(Frames(Tail(p))) = 0
        BY <4>1, EmptySeq
      <4> QED
        BY <2>4, <3>2, <4>2
    <3> QED
      BY <3>1, <3>2
  <2>7. (t.out \o <<m>>) \o Tail(p) = p0
    <3>1. <<m>> \in Seq(Messages) /\ Tail(p) \in Seq(Messages)
      BY <2>2, <2>6
    <3>2. (t.out \o <<m>>) \o Tail(p) = t.out \o (<<m>> \o Tail(p))
      BY <1>2, <3>1, MessagesAssociate, ZenonT(30)
    <3>3. <<m>> \o Tail(p) = p
      BY <2>2, HeadOnTail
    <3> QED
      BY <1>1, <3>2, <3>3
  <2> DEFINE t1 == TakeFrame(t)
             q == Tail(p)
  <2>8. Len(Tail(p)) + (i + 1) <= Len(p0)
    <3> DEFINE l == Len(p)
               r == Len(Tail(p))
               n == Len(p0)
    <3>1. r = l - 1 /\ l \in Nat /\ n \in Nat
      BY <2>2, FramesFirst, LenProperties
    <3>2. l + i <= n
      BY <1>1, <1>3
    <3> HIDE DEF l, r, n
    <3>3. r + (i + 1) <= n
      BY <3>1, <3>2
    <3> QED
      BY <3>3 DEF r, n
  <2>9. /\ q \in Seq(Messages) /\ t1.out \o q = p0 /\ t1.rest \o w = Cut(q, u)
        /\ (u >= 1 => q # <<>>) /\ Len(q) + (i + 1) <= Len(p0)
    <3> DEFINE rest == SubSeq(b, FrameLen(m) + 1, Len(b))
               out == t.out \o <<m>>
    <3>1. t1 = [rest |-> rest, out |-> out]
      BY <2>5
    <3> HIDE DEF t1, rest, out
    <3>2. t1.out = out /\ t1.rest = rest
      BY <3>1
    <3>3. t1.out \o q = p0
      BY <2>7, <3>2 DEF out
    <3>4. t1.rest \o w = Cut(q, u)
      BY <2>4, <3>2 DEF rest
    <3> QED
      BY <2>6, <2>8, <3>3, <3>4
  <2> HIDE DEF t1, q
  <2>10. Follows(t1, i + 1, p0, w, u)
    BY <2>9 DEF Follows
  <2> QED
    BY <2>10 DEF t1
<1>4. CASE ~ HasFrame(t.rest)
  <2>1. TakeFrame(t) = t
    BY <1>4 DEF TakeFrame
  <2>2. Follows(t, i + 1, p0, w, u)
    BY <1>1, <1>4 DEF Follows
  <2> QED
    BY <2>1, <2>2
<1> QED
  BY <1>3, <1>4

\* However many rounds the loop of decodeFrames makes.
LEMMA TakeFramesFollow ==
  ASSUME NEW b \in Seq(Bytes), NEW k \in Nat,
         NEW p \in Seq(Messages), NEW w \in Seq(Bytes), NEW u \in Nat,
         b \o w = Cut(p, u), u >= 1 => p # <<>>
  PROVE  TakeFrames(b, k) \in Taken /\ Follows(TakeFrames(b, k), k, p, w, u)
<1>1. PICK f \in [Nat -> Taken] :
        /\ f[0] = [rest |-> b, out |-> <<>>]
        /\ \A i \in Nat : f[i + 1] = TakeFrame(f[i])
        /\ \A i \in Nat : TakeFrames(b, i) = f[i]
  BY TakeFramesRounds
<1> DEFINE X == {i \in Nat : Follows(f[i], i, p, w, u)}
<1>2. 0 \in X
  <2>1. f[0].rest = b /\ f[0].out \o p = p
    BY <1>1, ConcatEmptySeq
  <2>2. Len(p) + 0 <= Len(p)
    BY LenProperties
  <2>3. Follows(f[0], 0, p, w, u)
    BY <2>1, <2>2 DEF Follows
  <2> QED
    BY <2>3
<1>3. ASSUME NEW i \in Nat, i \in X PROVE i + 1 \in X
  <2>1. f[i] \in Taken /\ Follows(f[i], i, p, w, u)
    BY <1>3
  <2>2. Follows(TakeFrame(f[i]), i + 1, p, w, u)
    BY <2>1, TakeFrameFollows
  <2>3. f[i + 1] = TakeFrame(f[i]) /\ i + 1 \in Nat
    BY <1>1
  <2> QED
    BY <2>2, <2>3
<1> HIDE DEF X
<1>4. Nat \subseteq X
  BY <1>2, <1>3, Induction
<1>5. Follows(f[k], k, p, w, u)
  BY <1>4 DEF X
<1> QED
  BY <1>1, <1>5

\* Of the last frame, n bytes have been written.
LEMMA CutLast ==
  ASSUME NEW p \in Seq(Messages), NEW m \in Messages, NEW n \in Nat, n <= FrameLen(m)
  PROVE  Cut(Append(p, m), FrameLen(m) - n) = Frames(p) \o SubSeq(Frame(m), 1, n)
<1> DEFINE F == Frame(m)
           P == Frames(p)
           f == FrameLen(m)
<1>1. F \in Seq(Bytes) /\ Len(F) = f /\ f \in Nat
  BY FrameTyped
<1>2. P \in Seq(Bytes) /\ Len(P) \in Nat
  BY FramesTyped
<1>3. Frames(Append(p, m)) = P \o F
  BY FramesAppend
<1>4. n <= f
  OBVIOUS
<1> HIDE DEF F, P, f
<1>5. Len(P \o F) = Len(P) + f
  <2>1. Joined(P, F)
    BY <1>1, <1>2, JoinOf
  <2> QED
    BY <1>1, <2>1 DEF Joined
<1>6. Len(P \o F) - (f - n) = Len(P) + n
  BY <1>1, <1>2, <1>4, <1>5
<1>7. SubSeq(P \o F, 1, Len(P) + n) = P \o SubSeq(F, 1, n)
  BY <1>1, <1>2, <1>4, CutAfter
<1>8. Cut(Append(p, m), f - n) = SubSeq(P \o F, 1, Len(P \o F) - (f - n))
  BY <1>3 DEF Cut
<1> QED
  BY <1>6, <1>7, <1>8 DEF F, P, f

LEMMA CutNothing ==
  ASSUME NEW p \in Seq(Messages)
  PROVE  Cut(p, 0) = Frames(p)
<1> DEFINE F == Frames(p)
<1>1. F \in Seq(Bytes) /\ Len(F) \in Nat
  BY FramesTyped
<1> HIDE DEF F
<1>2. SubSeq(F, 1, Len(F) - 0) = F
  BY <1>1, SubSeqFull
<1> QED
  BY <1>2 DEF Cut, F

\* Passing on the first messages of what has not been passed on.
LEMMA PassOn ==
  ASSUME NEW o \in Seq(Messages), NEW d \in Seq(Messages), IsPrefix(d, o),
         NEW out \in Seq(Messages), NEW p \in Seq(Messages),
         out \o p = SubSeq(o, Len(d) + 1, Len(o))
  PROVE  /\ d \o out \in Seq(Messages) /\ IsPrefix(d \o out, o)
         /\ SubSeq(o, Len(d \o out) + 1, Len(o)) = p
         /\ p # <<>> => Len(d \o out) < Len(o)
<1>1. o = d \o (out \o p)
  BY RemainderOf
<1>2. d \o out \in Seq(Messages)
  BY ConcatProperties
<1>3. (d \o out) \o p = d \o (out \o p)
  BY MessagesAssociate
<1> DEFINE e == d \o out
<1>4. e \in Seq(Messages) /\ o = e \o p
  BY <1>1, <1>2, <1>3
<1> HIDE DEF e
<1>5. /\ IsPrefix(e, e \o p) /\ SubSeq(e \o p, Len(e) + 1, Len(e \o p)) = p
      /\ Len(e \o p) = Len(e) + Len(p)
  BY <1>4, FrontIsPrefix
<1>6. IsPrefix(e, o) /\ SubSeq(o, Len(e) + 1, Len(o)) = p /\ Len(o) = Len(e) + Len(p)
  BY <1>4, <1>5
<1>7. p # <<>> => Len(e) < Len(o)
  <2> SUFFICES ASSUME p # <<>> PROVE Len(e) < Len(o)
    OBVIOUS
  <2>1. Len(p) \in Nat \ {0} /\ Len(e) \in Nat
    BY <1>4, EmptySeq, LenProperties
  <2> QED
    BY <1>6, <2>1
<1> QED
  BY <1>4, <1>6, <1>7 DEF e

-----------------------------------------------------------------------------
(* The inductive invariant.                                                *)

\* Who holds send_mtx_ is the last who took it, and its message cannot have
\* been passed on yet.
SenderIsLast ==
  sender # NoOne => Len(delivered) < Len(order) /\ order[Len(order)] = sender

\* A message takes send_mtx_ once.
OrderOnce ==
  /\ \A i \in DOMAIN order : call[order[i]] \in {"writing", "returned"}
  /\ \A i, j \in DOMAIN order : order[i] = order[j] => i = j

IInv ==
  /\ TypeOK
  /\ InSendOrder
  /\ SenderIsLast
  /\ StreamIsFrames
  /\ OrderOnce
  /\ NothingHeldBack

\* So there are no more messages in the order than there are messages.
LEMMA OrderBounded ==
  ASSUME TypeOK, OrderOnce
  PROVE  Len(order) <= Cardinality(Messages)
<1> DEFINE n == Len(order)
           k == Cardinality(Messages)
<1>1. n \in Nat /\ order \in [1 .. n -> Messages] /\ DOMAIN order = 1 .. n
  BY LenProperties DEF TypeOK
<1>2. k \in Nat /\ IsFiniteSet(Messages)
  BY FrameAssumption, FS_CardinalityType
<1>3. IsFiniteSet(1 .. n) /\ Cardinality(1 .. n) = n
  <2> HIDE DEF n
  <2>1. 1 \in Int /\ n \in Int
    BY <1>1
  <2>2. IsFiniteSet(1 .. n) /\ Cardinality(1 .. n) = IF 1 > n THEN 0 ELSE n - 1 + 1
    BY <2>1, FS_Interval
  <2> QED
    BY <1>1, <2>2
<1> HIDE DEF n
<1>4. order \in Injection(1 .. n, Messages)
  BY <1>1 DEF OrderOnce, Injection, IsInjective
<1>5. Cardinality(1 .. n) <= k
  <2> HIDE DEF k
  <2>1. Cardinality(1 .. n) <= Cardinality(Messages)
    BY <1>2, <1>4, FS_Injection
  <2> QED
    BY <2>1 DEF k
<1> QED
  BY <1>3, <1>5 DEF n, k

Pending == SubSeq(order, Len(delivered) + 1, Len(order))
Unwritten == IF sender = NoOne THEN 0 ELSE FrameLen(sender) - written

LEMMA StreamIsCut ==
  StreamIsFrames <=> (open => buf \o wire = Cut(Pending, Unwritten))
BY DEF StreamIsFrames, Cut, Frames, FramesOf, Pending, Unwritten

LEMMA StreamIsCutNext ==
  StreamIsFrames' <=> (open' => buf' \o wire' = Cut(Pending', Unwritten'))
BY DEF StreamIsFrames, Cut, Frames, FramesOf, Pending, Unwritten

LEMMA PendingTyped ==
  ASSUME TypeOK, InSendOrder
  PROVE  /\ Pending \in Seq(Messages) /\ order = delivered \o Pending
         /\ Len(order) = Len(delivered) + Len(Pending)
<1>1. order \in Seq(Messages) /\ delivered \in Seq(Messages) /\ IsPrefix(delivered, order)
  BY DEF TypeOK, InSendOrder
<1> DEFINE p == SubSeq(order, Len(delivered) + 1, Len(order))
<1>2. p \in Seq(Messages) /\ order = delivered \o p
  BY <1>1, RemainderOf
<1> HIDE DEF p
<1>3. Len(delivered \o p) = Len(delivered) + Len(p)
  BY <1>1, <1>2, FrontIsPrefix
<1> QED
  BY <1>2, <1>3 DEF p, Pending

\* While a sender writes, its message is the last of the pending ones.
LEMMA SenderPending ==
  ASSUME TypeOK, InSendOrder, SenderIsLast, sender # NoOne
  PROVE  /\ sender \in Messages /\ Unwritten \in Nat \ {0} /\ Pending # <<>>
         /\ \E q \in Seq(Messages) : Pending = Append(q, sender)
<1> DEFINE p == Pending
<1>1. /\ p \in Seq(Messages) /\ order = delivered \o p /\ Len(order) = Len(delivered) + Len(p)
      /\ order \in Seq(Messages) /\ delivered \in Seq(Messages)
  BY PendingTyped DEF TypeOK
<1> HIDE DEF p
<1>2. Len(delivered) < Len(order) /\ order[Len(order)] = sender
  BY DEF SenderIsLast
<1>3. Len(delivered) \in Nat /\ Len(p) \in Nat
  BY <1>1, LenProperties
<1>4. p # <<>>
  <2> SUFFICES ASSUME p = <<>> PROVE FALSE
    OBVIOUS
  <2>1. Len(p) = 0
    BY EmptySeq
  <2> QED
    BY <1>1, <1>2, <1>3, <2>1
<1>5. PICK q \in Seq(Messages), e \in Messages : p = Append(q, e)
  BY <1>1, <1>4, SequenceEmptyOrAppend
<1>6. Len(p) = Len(q) + 1 /\ p[Len(p)] = e
  <2>1. Len(Append(q, e)) = Len(q) + 1 /\ Append(q, e)[Len(q) + 1] = e
    BY AppendProperties
  <2> QED
    BY <1>5, <2>1
<1>7. (delivered \o p)[Len(delivered) + Len(p)] = p[Len(p)]
  <2>1. Joined(delivered, p)
    BY <1>1, JoinOf
  <2>2. Len(p) \in 1 .. Len(p)
    BY <1>1, <1>4, EmptySeq
  <2> QED
    BY <2>1, <2>2 DEF Joined
<1>8. e = sender
  BY <1>1, <1>2, <1>6, <1>7
<1>9. sender \in Messages /\ written \in Nat /\ written < FrameLen(sender)
  BY DEF TypeOK
<1>10. Unwritten \in Nat \ {0}
  <2>1. FrameLen(sender) \in Nat
    BY <1>9, FrameTyped
  <2> QED
    BY <1>9, <2>1 DEF Unwritten
<1> QED
  BY <1>4, <1>5, <1>8, <1>9, <1>10 DEF p

LEMMA UnwrittenTyped ==
  ASSUME TypeOK, InSendOrder, SenderIsLast
  PROVE  Unwritten \in Nat /\ (Unwritten >= 1 => sender # NoOne /\ Pending # <<>>)
<1>1. CASE sender = NoOne
  BY <1>1 DEF Unwritten
<1>2. CASE sender # NoOne
  BY <1>2, SenderPending
<1> QED
  BY <1>1, <1>2

-----------------------------------------------------------------------------
(* The senders. *)

LEMMA InitKeeps ==
  Init => IInv
<1> SUFFICES ASSUME Init PROVE IInv
  OBVIOUS
<1>1. <<>> \in Seq(Bytes) /\ <<>> \in Seq(Messages) /\ Len(<<>>) = 0
  BY EmptySeq
<1>2. TypeOK
  BY <1>1 DEF Init, TypeOK
<1>3. InSendOrder
  <2>1. SubSeq(<<>>, 1, 0) = SubSeq(<<>>, 1, 0)
    OBVIOUS
  <2> QED
    BY <1>1 DEF Init, InSendOrder, IsPrefix
<1>4. SenderIsLast
  BY DEF Init, SenderIsLast
<1>5. StreamIsFrames
  <2>1. Pending = <<>> /\ Unwritten = 0
    <3>1. Pending \in Seq(Messages) /\ Len(order) = Len(delivered) + Len(Pending)
      BY <1>2, <1>3, PendingTyped
    <3>2. Len(Pending) \in Nat
      BY <3>1, LenProperties
    <3>3. Len(Pending) = 0
      BY <1>1, <3>1, <3>2 DEF Init
    <3>4. Pending = <<>>
      BY <3>1, <3>3, EmptySeq
    <3> QED
      BY <3>4 DEF Init, Unwritten
  <2>2. Cut(<<>>, 0) = <<>>
    BY <1>1, CutNothing, FramesEmpty
  <2>3. <<>> \o <<>> = <<>>
    BY <1>1, ConcatEmptySeq
  <2> QED
    BY <2>1, <2>2, <2>3, StreamIsCut DEF Init
<1>6. OrderOnce
  BY <1>1 DEF Init, OrderOnce
<1>7. NothingHeldBack
  <2>1. ~ HasPrefix(buf)
    BY <1>1, FrameAssumption DEF Init, HasPrefix
  <2> QED
    BY <2>1 DEF NothingHeldBack, HasFrame
<1> QED
  BY <1>2, <1>3, <1>4, <1>5, <1>6, <1>7 DEF IInv

\* What only the receiver changes.
LEMMA HeldBackStep ==
  NothingHeldBack /\ UNCHANGED <<receiver, buf>> => NothingHeldBack'
BY DEF NothingHeldBack, HasFrame, HasPrefix, Announced, CipherLen

LEMMA EncodeKeeps ==
  ASSUME IInv, NEW m \in Messages, Encode(m)
  PROVE  IInv'
<1>1. (TypeOK /\ InSendOrder /\ SenderIsLast /\ StreamIsFrames)'
  BY DEF IInv, TypeOK, InSendOrder, SenderIsLast, StreamIsFrames, Encode
<1>2. OrderOnce'
  <2>1. \A i \in DOMAIN order : order[i] # m
    BY DEF IInv, OrderOnce, Encode
  <2>2. \A i \in DOMAIN order : order[i] \in Messages
    BY LenProperties, ElementOfSeq DEF IInv, TypeOK
  <2> QED
    BY <2>1, <2>2 DEF IInv, TypeOK, OrderOnce, Encode
<1>3. NothingHeldBack'
  BY HeldBackStep DEF IInv, Encode
<1> QED
  BY <1>1, <1>2, <1>3 DEF IInv

LEMMA LockKeeps ==
  ASSUME IInv, NEW m \in Messages, Lock(m)
  PROVE  IInv'
<1>1. TypeOK /\ InSendOrder /\ SenderIsLast /\ StreamIsFrames
  BY DEF IInv
<1>2. /\ sender = NoOne /\ sender' = m /\ written' = 0 /\ order' = Append(order, m)
      /\ call' = [call EXCEPT ![m] = "writing"]
      /\ UNCHANGED <<receiver, wire, buf, open, delivered>>
  BY DEF Lock
<1>3. /\ Pending \in Seq(Messages) /\ order = delivered \o Pending
      /\ order \in Seq(Messages) /\ delivered \in Seq(Messages)
  BY <1>1, PendingTyped DEF TypeOK
<1>4. FrameLen(m) \in Nat /\ 0 < FrameLen(m)
  BY FrameTyped
<1>5. /\ order' \in Seq(Messages) /\ Len(order') = Len(order) + 1
      /\ order'[Len(order) + 1] = m /\ Len(order) \in Nat /\ Len(delivered) \in Nat
  BY <1>2, <1>3, AppendProperties, LenProperties
<1>6. TypeOK'
  BY <1>1, <1>2, <1>4, <1>5 DEF TypeOK
<1> DEFINE q == Append(Pending, m)
<1>7. q \in Seq(Messages) /\ order' = delivered \o q
  <2> DEFINE p == Pending
  <2>1. p \in Seq(Messages) /\ order = delivered \o p /\ <<m>> \in Seq(Messages)
    BY <1>3
  <2> HIDE DEF p
  <2>2. Append(p, m) \in Seq(Messages) /\ Append(p, m) = p \o <<m>>
    BY <2>1, AppendProperties, AppendIsConcat
  <2>3. Append(order, m) = order \o <<m>>
    BY <1>3, AppendIsConcat
  <2>4. (delivered \o p) \o <<m>> = delivered \o (p \o <<m>>)
    BY <1>3, <2>1, MessagesAssociate
  <2> QED
    BY <1>2, <2>1, <2>2, <2>3, <2>4 DEF p
<1> HIDE DEF q
<1>8. /\ IsPrefix(delivered, order')
      /\ SubSeq(order', Len(delivered) + 1, Len(order')) = q
  BY <1>3, <1>7, FrontIsPrefix
<1>9. InSendOrder'
  BY <1>2, <1>8 DEF InSendOrder
<1>10. SenderIsLast'
  <2>1. Len(delivered) <= Len(order)
    BY <1>1 DEF InSendOrder, IsPrefix
  <2> QED
    BY <1>2, <1>5, <2>1 DEF SenderIsLast
<1>11. Pending' = q
  BY <1>2, <1>8 DEF Pending
<1>12. Unwritten' = FrameLen(m) - 0
  <2>1. m # NoOne
    BY FrameAssumption
  <2> QED
    BY <1>2, <1>4, <2>1 DEF Unwritten, FrameLen, CipherLen
<1>13. Cut(q, FrameLen(m) - 0) = Frames(Pending)
  <2> DEFINE p == Pending
             F == Frame(m)
  <2>1. p \in Seq(Messages)
    BY <1>3
  <2>2. F \in Seq(Bytes)
    BY FrameTyped
  <2> HIDE DEF p
  <2>3. 0 \in Nat /\ 0 <= FrameLen(m)
    BY <1>4
  <2>4. Cut(Append(p, m), FrameLen(m) - 0) = Frames(p) \o SubSeq(F, 1, 0)
    BY <2>1, <2>3, CutLast
  <2>5. SubSeq(F, 1, 0) = <<>>
    BY SubSeqEmpty
  <2>6. Frames(p) \o <<>> = Frames(p)
    BY <2>1, FramesTyped, ConcatEmptySeq
  <2> QED
    BY <2>4, <2>5, <2>6 DEF p, q
<1>14. StreamIsFrames'
  <2>1. Unwritten = 0
    BY <1>2 DEF Unwritten
  <2>2. open => buf \o wire = Frames(Pending)
    BY <1>1, <1>3, <2>1, StreamIsCut, CutNothing
  <2> QED
    BY <1>2, <1>11, <1>12, <1>13, <2>2, StreamIsCutNext
<1>15. OrderOnce'
  <2> DEFINE n == Len(order)
  <2>1. /\ n \in Nat /\ DOMAIN order = 1 .. n /\ DOMAIN order' = 1 .. n + 1
        /\ order'[n + 1] = m /\ \A i \in 1 .. n : order'[i] = order[i] /\ order[i] \in Messages
    BY <1>2, <1>3, <1>5, AppendProperties, LenProperties, ElementOfSeq
  <2>2. /\ call[m] = "encoded"
        /\ call \in [Messages -> {"idle", "encoded", "writing", "returned", "refused"}]
    BY <1>1 DEF Lock, TypeOK
  <2>3. \A i \in 1 .. n : call[order[i]] \in {"writing", "returned"}
    BY <2>1 DEF IInv, OrderOnce
  <2>4. \A i, j \in 1 .. n : order[i] = order[j] => i = j
    BY <2>1 DEF IInv, OrderOnce
  <2> HIDE DEF n
  <2>5. \A i \in 1 .. n : order[i] # m
    BY <2>2, <2>3
  <2>6. \A i \in 1 .. n + 1 : call'[order'[i]] \in {"writing", "returned"}
    <3> TAKE i \in 1 .. n + 1
    <3>1. CASE i = n + 1
      BY <1>2, <2>1, <2>2, <3>1
    <3>2. CASE i # n + 1
      <4>1. i \in 1 .. n
        BY <2>1, <3>2
      <4> QED
        BY <1>2, <2>1, <2>2, <2>3, <4>1
    <3> QED
      BY <3>1, <3>2
  <2>7. \A i \in 1 .. n + 1 : i # n + 1 => i \in 1 .. n
    BY <2>1
  <2>8. \A i, j \in 1 .. n + 1 : order'[i] = order'[j] => i = j
    BY <2>1, <2>4, <2>5, <2>7
  <2> QED
    BY <2>1, <2>6, <2>8 DEF OrderOnce
<1>16. NothingHeldBack'
  BY <1>2, HeldBackStep DEF IInv
<1> QED
  BY <1>6, <1>9, <1>10, <1>14, <1>15, <1>16 DEF IInv

LEMMA WriteKeeps ==
  ASSUME IInv, NEW m \in Messages, Write(m)
  PROVE  IInv'
<1>1. TypeOK /\ InSendOrder /\ SenderIsLast /\ StreamIsFrames
  BY DEF IInv
<1> DEFINE F == Frame(m)
           f == FrameLen(m)
           Part(n) == SubSeq(F, written + 1, written + n)
<1>2. PICK n \in 1 .. f - written :
        /\ wire' = wire \o Part(n)
        /\ IF written + n = f
           THEN Unlock(m)
           ELSE written' = written + n /\ UNCHANGED <<call, sender>>
  BY DEF Write
<1>3. sender = m /\ UNCHANGED <<receiver, buf, open, order, delivered>> /\ m # NoOne
  BY FrameAssumption DEF Write
<1>4. /\ f \in Nat /\ F \in Seq(Bytes) /\ Len(F) = f
      /\ written \in Nat /\ written < f /\ wire \in Seq(Bytes) /\ buf \in Seq(Bytes)
  BY <1>1, <1>3, FrameTyped DEF TypeOK
<1> HIDE DEF f, F
<1>5. /\ written + n \in Nat /\ written + n <= f /\ written + n <= Len(F)
      /\ written + 1 \in Nat \ {0} /\ written + n \in Int /\ written <= f
  BY <1>4
<1>6. Part(n) \in Seq(Bytes)
  BY <1>4, <1>5, PartTyped
<1>7. wire' \in Seq(Bytes)
  BY <1>2, <1>4, <1>6, ConcatProperties
<1>8. \/ written + n = f /\ Unlock(m)
      \/ written + n < f /\ written' = written + n /\ UNCHANGED <<call, sender>>
  BY <1>2, <1>4, <1>5
<1>9. TypeOK'
  <2>1. wire' \in Seq(Bytes) /\ UNCHANGED <<receiver, buf, open, order, delivered>>
    BY <1>3, <1>7
  <2>2. CASE written + n = f /\ Unlock(m)
    BY <1>1, <1>3, <2>1, <2>2, SMTT(30) DEF TypeOK, Unlock, FrameLen, CipherLen
  <2>3. CASE written + n < f /\ written' = written + n /\ UNCHANGED <<call, sender>>
    BY <1>1, <1>3, <1>5, <2>1, <2>3, SMTT(30) DEF TypeOK, f, FrameLen, CipherLen
  <2> QED
    BY <1>8, <2>2, <2>3
<1>10. InSendOrder'
  BY <1>1, <1>3 DEF InSendOrder
<1>11. SenderIsLast'
  BY <1>1, <1>3, <1>8 DEF SenderIsLast, Unlock
<1>12. Pending' = Pending /\ Unwritten' = f - (written + n) /\ Unwritten = f - written
  <2>1. Pending' = Pending
    BY <1>3 DEF Pending
  <2>2. Unwritten = f - written
    BY <1>3 DEF Unwritten, f
  <2>3. CASE written + n = f /\ Unlock(m)
    BY <1>4, <2>1, <2>2, <2>3 DEF Unwritten, Unlock
  <2>4. CASE written + n < f /\ written' = written + n /\ UNCHANGED <<call, sender>>
    BY <1>3, <2>1, <2>2, <2>4 DEF Unwritten, f, FrameLen, CipherLen
  <2> QED
    BY <1>8, <2>3, <2>4
<1>13. ASSUME open PROVE buf \o (wire \o Part(n)) = Cut(Pending, f - (written + n))
  <2>1. PICK q \in Seq(Messages) : Pending = Append(q, m)
    BY <1>1, <1>3, SenderPending
  <2> DEFINE S == SubSeq(F, 1, written)
             T == Part(n)
             Q == Frames(q)
  <2>2. Cut(Append(q, m), f - written) = Q \o S
    BY <1>4, <1>5, CutLast DEF f, F
  <2>3. Cut(Append(q, m), f - (written + n)) = Q \o SubSeq(F, 1, written + n)
    BY <1>5, CutLast DEF f, F
  <2>4. S \in Seq(Bytes) /\ T \in Seq(Bytes) /\ Q \in Seq(Bytes)
    BY <1>4, <1>6, FrontOf, FramesTyped
  <2>5. S \o T = SubSeq(F, 1, written + n)
    <3>1. /\ 1 \in 1 .. Len(F) + 1 /\ written \in 1 - 1 .. Len(F)
          /\ written + n \in written .. Len(F)
      BY <1>4, <1>5
    <3> QED
      BY <1>4, <3>1, ConcatAdjacentSubSeq
  <2>6. buf \o wire = Q \o S
    BY <1>1, <1>12, <1>13, <2>1, <2>2, StreamIsCut
  <2> HIDE DEF S, T, Q
  <2>7. (buf \o wire) \o T = buf \o (wire \o T)
    BY <1>4, <2>4, BytesAssociate, ZenonT(30)
  <2>8. (Q \o S) \o T = Q \o (S \o T)
    BY <2>4, BytesAssociate, ZenonT(30)
  <2>9. buf \o (wire \o T) = Cut(Append(q, m), f - (written + n))
    BY <2>3, <2>5, <2>6, <2>7, <2>8
  <2> QED
    BY <2>1, <2>9 DEF T
<1>14. StreamIsFrames'
  BY <1>2, <1>3, <1>12, <1>13, StreamIsCutNext
<1>15. OrderOnce'
  <2>1. \A i \in DOMAIN order : order[i] \in Messages
    BY <1>1, LenProperties, ElementOfSeq DEF TypeOK
  <2> QED
    BY <1>1, <1>3, <1>8, <2>1 DEF IInv, TypeOK, OrderOnce, Unlock
<1>16. NothingHeldBack'
  BY <1>3, HeldBackStep DEF IInv
<1> QED
  BY <1>9, <1>10, <1>11, <1>14, <1>15, <1>16 DEF IInv

-----------------------------------------------------------------------------
(* The receivers. *)

\* What is passed on leaves the invariant's order, and the sender's message
\* pending.
LEMMA DeliveryKeeps ==
  ASSUME TypeOK, InSendOrder, SenderIsLast,
         NEW out \in Seq(Messages), NEW p \in Seq(Messages), out \o p = Pending,
         Unwritten >= 1 => p # <<>>,
         delivered' = delivered \o out, UNCHANGED <<order, sender, written>>
  PROVE  delivered' \in Seq(Messages) /\ InSendOrder' /\ SenderIsLast' /\ Pending' = p
<1>1. order \in Seq(Messages) /\ delivered \in Seq(Messages) /\ IsPrefix(delivered, order)
  BY DEF TypeOK, InSendOrder
<1> DEFINE d == delivered \o out
<1>2. out \o p = SubSeq(order, Len(delivered) + 1, Len(order))
  BY DEF Pending
<1>3. /\ d \in Seq(Messages) /\ IsPrefix(d, order)
      /\ SubSeq(order, Len(d) + 1, Len(order)) = p
      /\ p # <<>> => Len(d) < Len(order)
  BY <1>1, <1>2, PassOn
<1>4. d = delivered'
  OBVIOUS
<1> HIDE DEF d
<1>5. sender # NoOne => Unwritten >= 1 /\ order[Len(order)] = sender
  <2> SUFFICES ASSUME sender # NoOne PROVE Unwritten >= 1 /\ order[Len(order)] = sender
    OBVIOUS
  <2>1. Unwritten \in Nat \ {0}
    BY SenderPending
  <2> QED
    BY <2>1 DEF SenderIsLast
<1>6. Pending' = p /\ InSendOrder' /\ delivered' \in Seq(Messages)
  BY <1>3, <1>4 DEF Pending, InSendOrder
<1>7. SenderIsLast'
  BY <1>3, <1>4, <1>5 DEF SenderIsLast
<1> QED
  BY <1>6, <1>7

\* A read moves the first bytes of the wire behind what was read before.
LEMMA ReadMoves ==
  ASSUME NEW b \in Seq(Bytes), NEW w \in Seq(Bytes), NEW n \in 1 .. Len(w)
  PROVE  /\ b \o SubSeq(w, 1, n) \in Seq(Bytes) /\ SubSeq(w, n + 1, Len(w)) \in Seq(Bytes)
         /\ Len(b \o SubSeq(w, 1, n)) = Len(b) + n /\ Len(b) \in Nat
         /\ (b \o SubSeq(w, 1, n)) \o SubSeq(w, n + 1, Len(w)) = b \o w
<1> DEFINE x == SubSeq(w, 1, n)
           y == SubSeq(w, n + 1, Len(w))
<1>1. n \in Nat /\ n <= Len(w)
  BY LenProperties
<1>2. x \in Seq(Bytes) /\ Len(x) = n /\ y \in Seq(Bytes) /\ w = x \o y
  BY <1>1, FrontOf, RestOf, Halves
<1> HIDE DEF x, y
<1>3. b \o x \in Seq(Bytes) /\ Joined(b, x)
  BY <1>2, JoinOf
<1>4. (b \o x) \o y = b \o (x \o y)
  BY <1>2, BytesAssociate
<1> QED
  BY <1>2, <1>3, <1>4 DEF Joined, x, y

LEMMA DataKeeps ==
  ASSUME IInv, Data
  PROVE  IInv'
<1>1. TypeOK /\ InSendOrder /\ SenderIsLast /\ StreamIsFrames
  BY DEF IInv
<1> DEFINE B(n) == buf \o SubSeq(wire, 1, n)
           W(n) == SubSeq(wire, n + 1, Len(wire))
           t(n) == DecodeFrames(B(n))
<1>2. PICK n \in 1 .. Len(wire) :
        wire' = W(n) /\ buf' = t(n).rest /\ delivered' = delivered \o t(n).out
  BY DEF Data
<1>3. open /\ UNCHANGED <<receiver, call, sender, written, open, order>>
  BY DEF Data
<1> DEFINE b == B(n)
           w == W(n)
<1>4. b \in Seq(Bytes) /\ w \in Seq(Bytes) /\ b \o w = buf \o wire
  BY <1>1, ReadMoves DEF TypeOK
<1>5. Pending \in Seq(Messages) /\ Unwritten \in Nat /\ (Unwritten >= 1 => Pending # <<>>)
  BY <1>1, PendingTyped, UnwrittenTyped
<1>6. b \o w = Cut(Pending, Unwritten)
  BY <1>1, <1>3, <1>4, StreamIsCut
<1> DEFINE s == DecodeFrames(b)
           k == Cardinality(Messages)
<1>7. k \in Nat /\ s = TakeFrames(b, k)
  BY FrameAssumption, FS_CardinalityType DEF DecodeFrames
<1>8. wire' = w /\ buf' = s.rest /\ delivered' = delivered \o s.out
  BY <1>2
<1> HIDE DEF b, w, B, W, t, k, s
<1>9. s \in Taken /\ Follows(s, k, Pending, w, Unwritten)
  <2> DEFINE p0 == Pending
             u == Unwritten
  <2>1. p0 \in Seq(Messages) /\ u \in Nat /\ (u >= 1 => p0 # <<>>) /\ b \o w = Cut(p0, u)
    BY <1>5, <1>6
  <2> HIDE DEF p0, u
  <2>2. s \in Taken /\ Follows(s, k, p0, w, u)
    BY <1>4, <1>7, <2>1, TakeFramesFollow
  <2> QED
    BY <2>2 DEF p0, u
<1>10. PICK p \in Seq(Messages) :
         /\ s.out \o p = Pending /\ s.rest \o w = Cut(p, Unwritten)
         /\ Unwritten >= 1 => p # <<>>
         /\ HasFrame(s.rest) => Len(p) + k <= Len(Pending)
  BY <1>9 DEF Follows
<1>11. s.out \in Seq(Messages) /\ s.rest \in Seq(Bytes)
  BY <1>9 DEF Taken
<1> DEFINE out == s.out
<1>12. /\ out \in Seq(Messages) /\ out \o p = Pending /\ delivered' = delivered \o out
       /\ UNCHANGED <<order, sender, written>>
  BY <1>3, <1>8, <1>10, <1>11
<1> HIDE DEF out
<1>13. delivered' \in Seq(Messages) /\ InSendOrder' /\ SenderIsLast' /\ Pending' = p
  BY <1>1, <1>10, <1>12, DeliveryKeeps
<1>14. TypeOK'
  BY <1>1, <1>3, <1>4, <1>8, <1>11, <1>13 DEF TypeOK, FrameLen, CipherLen
<1>15. Unwritten' = Unwritten
  BY <1>3 DEF Unwritten, FrameLen, CipherLen
<1>16. StreamIsFrames'
  BY <1>8, <1>10, <1>13, <1>15, StreamIsCutNext
<1>17. OrderOnce'
  BY <1>3 DEF IInv, OrderOnce
\* A frame that was left would be one more than there are messages.
<1>18. ~ HasFrame(s.rest)
  <2> SUFFICES ASSUME HasFrame(s.rest) PROVE FALSE
    OBVIOUS
  <2> DEFINE b1 == s.rest
             u == Unwritten
  <2>1. b1 \in Seq(Bytes) /\ u \in Nat /\ HasPrefix(b1) /\ b1 \o w = Cut(p, u)
    BY <1>5, <1>10, <1>11 DEF HasFrame
  <2> HIDE DEF b1, u
  <2>2. p # <<>>
    BY <1>4, <2>1, PrefixRead
  <2>3. Len(p) \in Nat \ {0}
    BY <2>2, EmptySeq
  <2>4. Len(order) <= k
    BY <1>1, OrderBounded DEF IInv, k
  <2>5. Len(order) = Len(delivered) + Len(Pending)
    BY <1>1, PendingTyped
  <2>6. Len(delivered) \in Nat /\ Len(Pending) \in Nat
    BY <1>1, <1>5, LenProperties DEF TypeOK
  <2>7. Len(p) + k <= Len(Pending)
    BY <1>10
  <2> QED
    BY <1>7, <2>3, <2>4, <2>5, <2>6, <2>7
<1>19. NothingHeldBack'
  <2>1. ~ HasFrame(buf')
    BY <1>8, <1>18
  <2> QED
    BY <2>1 DEF NothingHeldBack, HasFrame, HasPrefix, Announced, CipherLen
<1> QED
  BY <1>13, <1>14, <1>16, <1>17, <1>19 DEF IInv

LEMMA ReadFrameKeeps ==
  ASSUME IInv, ReadFrame
  PROVE  IInv'
<1>1. TypeOK /\ InSendOrder /\ SenderIsLast /\ StreamIsFrames
  BY DEF IInv
<1> DEFINE B(n) == buf \o SubSeq(wire, 1, n)
           W(n) == SubSeq(wire, n + 1, Len(wire))
           Refused(n) == open' = FALSE /\ buf' = <<>> /\ UNCHANGED delivered
           Accepted(n) ==
             /\ IF HasFrame(B(n))
                THEN delivered' = delivered \o Decoded(B(n)) /\ buf' = <<>>
                ELSE buf' = B(n) /\ UNCHANGED delivered
             /\ UNCHANGED open
<1>2. PICK n \in 1 .. Len(wire) :
        n <= Wanted /\ wire' = W(n) /\ (Refused(n) \/ Accepted(n))
  BY DEF ReadFrame
<1>3. open /\ UNCHANGED <<receiver, call, sender, written, order>>
  BY DEF ReadFrame
<1> DEFINE b == B(n)
           w == W(n)
<1>4. /\ b \in Seq(Bytes) /\ w \in Seq(Bytes) /\ b \o w = buf \o wire
      /\ Len(b) = Len(buf) + n /\ Len(buf) \in Nat /\ buf \in Seq(Bytes) /\ wire \in Seq(Bytes)
  BY <1>1, ReadMoves DEF TypeOK
<1>5. /\ wire' = w
      /\ \/ open' = FALSE /\ buf' = <<>> /\ UNCHANGED delivered
         \/ ~ HasFrame(b) /\ buf' = b /\ UNCHANGED <<delivered, open>>
         \/ /\ HasFrame(b) /\ delivered' = delivered \o Decoded(b)
            /\ buf' = <<>> /\ UNCHANGED open
  BY <1>2
<1> HIDE DEF b, w, B, W
<1>6. Pending \in Seq(Messages) /\ Unwritten \in Nat /\ (Unwritten >= 1 => Pending # <<>>)
  BY <1>1, PendingTyped, UnwrittenTyped
<1>7. buf \o wire = Cut(Pending, Unwritten)
  BY <1>1, <1>3, StreamIsCut
<1>8. Unwritten' = Unwritten
  BY <1>3 DEF Unwritten, FrameLen, CipherLen
<1>9. <<>> \in Seq(Bytes) /\ <<>> \in Seq(Messages)
  BY EmptySeq
<1>10. ASSUME UNCHANGED delivered PROVE InSendOrder' /\ SenderIsLast' /\ Pending' = Pending
  BY <1>1, <1>3, <1>10 DEF InSendOrder, SenderIsLast, Pending
<1>11. OrderOnce' /\ NothingHeldBack'
  <2>1. OrderOnce'
    BY <1>3 DEF IInv, OrderOnce
  <2>2. receiver' = "read_frame"
    BY <1>3 DEF ReadFrame
  <2> QED
    BY <2>1, <2>2 DEF NothingHeldBack
<1>12. CASE open' = FALSE /\ buf' = <<>> /\ UNCHANGED delivered
  <2>1. TypeOK'
    BY <1>1, <1>3, <1>4, <1>5, <1>9, <1>12 DEF TypeOK, FrameLen, CipherLen
  <2>2. StreamIsFrames'
    BY <1>12, StreamIsCutNext
  <2> QED
    BY <1>10, <1>12, <1>11, <2>1, <2>2 DEF IInv
<1>13. CASE ~ HasFrame(b) /\ buf' = b /\ UNCHANGED <<delivered, open>>
  <2>1. TypeOK'
    BY <1>1, <1>3, <1>4, <1>5, <1>13 DEF TypeOK, FrameLen, CipherLen
  <2>2. StreamIsFrames'
    BY <1>4, <1>5, <1>7, <1>8, <1>10, <1>13, StreamIsCutNext
  <2> QED
    BY <1>10, <1>13, <1>11, <2>1, <2>2 DEF IInv
<1>14. CASE /\ HasFrame(b) /\ delivered' = delivered \o Decoded(b)
            /\ buf' = <<>> /\ UNCHANGED open
  <2> DEFINE p == Pending
             u == Unwritten
             m == p[1]
  <2>1. p \in Seq(Messages) /\ u \in Nat /\ b \o w = Cut(p, u) /\ buf \o wire = Cut(p, u)
    BY <1>4, <1>6, <1>7
  <2>2. HasPrefix(b) /\ Len(b) >= Prefix + Announced(b)
    BY <1>14 DEF HasFrame
  <2> HIDE DEF p, u
  <2>3. p # <<>> /\ p[1] \in Messages /\ Announced(b) = CipherLen(p[1])
    BY <1>4, <2>1, <2>2, PrefixRead
  <2>4. /\ FrameLen(m) = Prefix + CipherLen(m) /\ CipherLen(m) \in Nat \ {0}
        /\ Prefix \in Nat \ {0} /\ FrameLen(m) \in Nat
    BY <2>3, FrameTyped
  \* A read stops at the end of the prefix and at the end of the frame.
  <2>5. Len(b) = FrameLen(m)
    <3>0. n \in Nat /\ Len(b) >= FrameLen(m)
      BY <1>4, <2>2, <2>3, <2>4, LenProperties
    <3>1. CASE HasPrefix(buf)
      <4>1. Announced(buf) = CipherLen(p[1])
        BY <1>4, <2>1, <3>1, PrefixRead
      <4>2. n <= FrameLen(m) - Len(buf)
        BY <1>2, <2>4, <3>1, <4>1 DEF Wanted
      <4>3. Len(b) = Len(buf) + n /\ Len(buf) \in Nat
        BY <1>4
      <4> HIDE DEF m
      <4>4. Len(b) <= FrameLen(m)
        BY <2>4, <3>0, <4>2, <4>3
      <4> QED
        BY <2>4, <3>0, <4>3, <4>4
    <3>2. CASE ~ HasPrefix(buf)
      <4>1. n <= Prefix - Len(buf)
        BY <1>2, <3>2 DEF Wanted
      <4> QED
        BY <1>4, <2>4, <3>0, <4>1
    <3> QED
      BY <3>1, <3>2
  <2>6. /\ SubSeq(b, 1, FrameLen(m)) = Frame(m)
        /\ u <= Len(Frames(Tail(p)))
        /\ SubSeq(b, FrameLen(m) + 1, Len(b)) \o w = Cut(Tail(p), u)
    <3>1. Len(b) >= FrameLen(p[1])
      BY <2>4, <2>5
    <3> QED
      BY <1>4, <2>1, <2>2, <3>1, FrameTaken
  <2>7. Decoded(b) = <<m>>
    <3>1. b = Frame(m)
      BY <1>4, <2>5, <2>6, SubSeqFull
    <3> QED
      BY <2>3, <3>1, FrameDecoded
  <2>8. <<>> \o w = Cut(Tail(p), u)
    <3> DEFINE l == Len(b)
    <3>1. l \in Nat /\ l = FrameLen(m)
      BY <2>4, <2>5
    <3>2. SubSeq(b, l + 1, l) = <<>>
      <4> HIDE DEF l
      <4> QED
        BY <3>1, SubSeqEmpty
    <3> QED
      BY <2>5, <2>6, <3>2
  <2>9. /\ <<m>> \in Seq(Messages) /\ Tail(p) \in Seq(Messages) /\ <<m>> \o Tail(p) = p
    BY <2>1, <2>3, FramesFirst, HeadOnTail
  <2>10. u >= 1 => Tail(p) # <<>>
    <3> SUFFICES ASSUME u >= 1, Tail(p) = <<>> PROVE FALSE
      OBVIOUS
    <3>1. Frames(Tail(p)) = <<>>
      BY FramesEmpty
    <3>2. Len(Frames(Tail(p))) = 0
      BY <3>1, EmptySeq
    <3> QED
      BY <2>1, <2>6, <3>2
  <2> DEFINE out == <<m>>
             q == Tail(p)
  <2>11. /\ out \in Seq(Messages) /\ q \in Seq(Messages) /\ out \o q = Pending
         /\ (Unwritten >= 1 => q # <<>>)
         /\ delivered' = delivered \o out /\ UNCHANGED <<order, sender, written>>
    BY <1>3, <1>14, <2>7, <2>9, <2>10 DEF p, u
  <2>12. <<>> \o w = Cut(q, Unwritten)
    BY <2>8 DEF u
  <2> HIDE DEF out, q
  <2>13. delivered' \in Seq(Messages) /\ InSendOrder' /\ SenderIsLast' /\ Pending' = q
    BY <1>1, <2>11, DeliveryKeeps
  <2>14. TypeOK'
    BY <1>1, <1>3, <1>4, <1>5, <1>9, <1>14, <2>13 DEF TypeOK, FrameLen, CipherLen
  <2>15. StreamIsFrames'
    BY <1>5, <1>8, <1>14, <2>12, <2>13, StreamIsCutNext
  <2> QED
    BY <1>11, <2>13, <2>14, <2>15 DEF IInv
<1> QED
  BY <1>5, <1>12, <1>13, <1>14

-----------------------------------------------------------------------------
(* The theorems. *)

LEMMA StepKeeps ==
  IInv /\ [Next]_vars => IInv'
<1> SUFFICES ASSUME IInv, [Next]_vars PROVE IInv'
  OBVIOUS
<1>1. ASSUME NEW m \in Messages, Encode(m) PROVE IInv'
  BY <1>1, EncodeKeeps
<1>2. ASSUME NEW m \in Messages, Lock(m) PROVE IInv'
  BY <1>2, LockKeeps
<1>3. ASSUME NEW m \in Messages, Write(m) PROVE IInv'
  BY <1>3, WriteKeeps
<1>4. CASE ReadFrame
  BY <1>4, ReadFrameKeeps
<1>5. CASE Data
  BY <1>5, DataKeeps
<1>6. CASE UNCHANGED vars
  BY <1>6 DEF IInv, TypeOK, InSendOrder, SenderIsLast, StreamIsFrames, OrderOnce,
                   NothingHeldBack, HasFrame, HasPrefix, Announced, CipherLen, vars
<1> QED
  BY <1>1, <1>2, <1>3, <1>4, <1>5, <1>6 DEF Next, Receive

\* The senders' mutex, the loop of write_exact and either receiver keep the
\* stream, the order and who writes in step.
THEOREM Invariance == Spec => []IInv
<1>1. Init => IInv
  BY InitKeeps
<1>2. IInv /\ [Next]_vars => IInv'
  BY StepKeeps
<1> QED
  BY <1>1, <1>2, PTL DEF Spec

\* Every variable keeps its type (Connection::send, read_frame, decodeFrames).
THEOREM TypeCorrect == Spec => []TypeOK
BY Invariance, PTL DEF IInv

\* However many threads send, however large the messages are and wherever
\* write, TCP and read cut their frames, the receiver passes on the messages
\* that were sent, whole, once and in the order in which send_mtx_ was taken
\* (Connection::send, read_frame, decodeFrames).
THEOREM MessagesInOrder == Spec => []InSendOrder
BY Invariance, PTL DEF IInv

\* The bytes under way are at all times the frames of the messages that were
\* not passed on yet, the last one cut where its sender is (write_exact,
\* read_exact, decodeFrames).
THEOREM StreamOfFrames == Spec => []StreamIsFrames
BY Invariance, PTL DEF IInv

\* No whole message waits in the gateway's buffer for the next chunk
\* (tcp.on("data"), decodeFrames).
THEOREM GatewayDrained == Spec => []NothingHeldBack
BY Invariance, PTL DEF IInv
=============================================================================
