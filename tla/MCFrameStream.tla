--------------------------- MODULE MCFrameStream ----------------------------
(***************************************************************************)
(* Instances of FrameStream for TLC.                                       *)
(***************************************************************************)
EXTENDS FrameStream

CONSTANTS m1, m2, m3

Three == {m1, m2, m3}

\* With blocks of two bytes and payloads of up to four: a payload of one
\* block, the largest payload, and one that is too large, which the gateway
\* sends all the same.
ThreeSent == [m \in Messages |-> IF m = m1 THEN 1 ELSE IF m = m2 THEN 4 ELSE 5]
Large == {m3}
=============================================================================
