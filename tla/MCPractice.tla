----------------------------- MODULE MCPractice -----------------------------
(***************************************************************************)
(* An instance of Practice for TLC.                                        *)
(***************************************************************************)
EXTENDS Practice

CONSTANTS u1, u2, q1

TwoUsers == {u1, u2}
OneUser == {u1}
OneQuestion == {q1}
AllEasy == [q \in Questions |-> "easy"]
\* LIMIT -1 is no limit.
NoneOrAll == {0, -1}
MCOptions == {"A"}
MCCorrect == [q \in Questions |-> "A"]
=============================================================================
