----------------------------- MODULE MCExamRoom -----------------------------
(***************************************************************************)
(* Instances of ExamRoom for TLC.                                          *)
(***************************************************************************)
EXTENDS ExamRoom, TLC

CONSTANTS u1, u2, q1, q2

OneUser == {u1}
MCUsers == {u1, u2}
OneQuestion == {q1}
TwoQuestions == {q1, q2}
\* One of them not a duration at all, as nobody checks it.
MCDurations == {-1, 1}
MCOptions == {"A", "B"}
MCCorrect == [q \in Questions |-> "A"]

\* No action and no property names a user, and Correct is the same for every
\* question.
Symmetry == Permutations(MCUsers) \cup Permutations(Questions)
=============================================================================
