--------------------------- MODULE QuestionPicker ---------------------------
(***************************************************************************)
(* How a paper's questions are chosen from the bank: pick_questions and    *)
(* pick_questions_filtered of server/src/room.cpp, and the defaults that   *)
(* get_exam_paper gives to a room's settings.  ORDER BY RANDOM() LIMIT and *)
(* std::shuffle may choose anything, so each operator is the set of the    *)
(* results the code can come to.  AsAsked is what a room asks for.         *)
(***************************************************************************)
EXTENDS Integers, FiniteSetsExt

CONSTANTS Bank,    \* questions.id
          LevelOf  \* questions.difficulty

Levels == {"easy", "medium", "hard"}

\* RoomSettings; the client's numbers, whatever they are.
Settings == [total : Int, easy : Int, medium : Int, hard : Int]

OfLevel(Q, level) == {q \in Q : LevelOf[q] = level}
AtMost(n, limit) == IF n < limit THEN n ELSE limit

\* get_exam_paper: the total of a room that names none.
WithDefaults(s) ==
  LET sum == s.easy + s.medium + s.hard
  IN IF s.total > 0 THEN s
     ELSE IF sum > 0 THEN [s EXCEPT !.total = sum]
     ELSE [total |-> 10, easy |-> 4, medium |-> 4, hard |-> 2]

\* SELECT ... ORDER BY RANDOM() LIMIT n, which a negative n does not limit.
Select(Q, n) ==
  IF n < 0 THEN {Q} ELSE kSubset(AtMost(n, Cardinality(Q)), Q)

\* Mutant: the number goes to the database as it is.
FetchAnyway(level, n) == Select(OfLevel(Bank, level), n)

\* fetch, which returns at once unless n is positive.
Fetch(level, n) == IF n <= 0 THEN {{}} ELSE Select(OfLevel(Bank, level), n)

ByLevel(s) ==
  {E \cup M \cup H : E \in Fetch("easy", s.easy), M \in Fetch("medium", s.medium),
                     H \in Fetch("hard", s.hard)}

FilledUp(s, Q) ==
  IF Cardinality(Q) < s.total
  THEN {Q \cup R : R \in Select(Bank \ Q, s.total - Cardinality(Q))}
  ELSE {Q}

Trimmed(s, Q) ==
  IF Cardinality(Q) > s.total THEN kSubset(s.total, Q) ELSE {Q}

\* The settings have a positive total by then.
PickQuestions(s) ==
  UNION {UNION {Trimmed(s, F) : F \in FilledUp(s, Q)} : Q \in ByLevel(s)}

\* A filter without levels admits every level.
PickFiltered(n, levels) ==
  Select(IF levels = {} THEN Bank ELSE {q \in Bank : LevelOf[q] \in levels}, n)

-----------------------------------------------------------------------------
\* As many questions as the room asks for, or the whole bank; no level has
\* more than it should when the levels are all the room asks for, or fewer
\* when there is room for all of them.
AsAsked(s, Q) ==
  LET asked == WithDefaults(s)
      count == [level \in Levels |-> Cardinality(OfLevel(Q, level))]
      want == [level \in Levels |->
                 IF asked[level] < 0 THEN 0
                 ELSE AtMost(asked[level], Cardinality(OfLevel(Bank, level)))]
      sum == want["easy"] + want["medium"] + want["hard"]
  IN /\ Cardinality(Q) = AtMost(asked.total, Cardinality(Bank))
     /\ sum >= asked.total => \A level \in Levels : count[level] <= want[level]
     /\ sum <= asked.total => \A level \in Levels : count[level] >= want[level]
=============================================================================
