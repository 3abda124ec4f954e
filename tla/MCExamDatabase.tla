--------------------------- MODULE MCExamDatabase ---------------------------
(***************************************************************************)
(* Instances of ExamDatabase for TLC.                                      *)
(***************************************************************************)
EXTENDS ExamDatabase

CONSTANTS u1, q1, q2, q3

OneUser == {u1}
ThreeQuestions == {q1, q2, q3}
MCLevelOf == [q \in Questions |-> CASE q = q1 -> "easy" [] q = q2 -> "medium" [] q = q3 -> "hard"]

\* Two by level, filled up, cut down, and summed up; the whole bank.
SomeSettings ==
  {[total |-> 2, easy |-> 1, medium |-> 0, hard |-> 0],
   [total |-> 2, easy |-> 2, medium |-> 1, hard |-> 2],
   [total |-> 0, easy |-> 1, medium |-> -1, hard |-> 1],
   [total |-> 0, easy |-> 0, medium |-> 0, hard |-> 0]}
OneEach == {[total |-> 2, easy |-> 1, medium |-> 0, hard |-> 1]}
MCOptions == {"A", "B"}
MCCorrect == [q \in Questions |-> "A"]
=============================================================================
