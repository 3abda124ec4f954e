--------------------------- MODULE ExamLifecycle ---------------------------
(***************************************************************************)
(* What the server promises a student about one sitting of an exam,        *)
(* whatever rooms, clocks and requests do: the sitting goes from absent to *)
(* open to graded and never back, its question paper is chosen once, and   *)
(* its result is recorded once, for a paper that was issued.  This is the  *)
(* abstract specification; ExamRoom, the tables of                         *)
(* server/src/room.cpp and the handlers that write them, implements it.    *)
(***************************************************************************)
CONSTANTS Sittings,   \* one per row the UNIQUE(room_id, user_id) of exams allows
          Papers,     \* the question papers that can be issued
          NoPaper,    \* no paper issued yet
          Results,    \* what a graded sitting records
          NoResult    \* no result recorded yet

VARIABLES phase, paper, result

lifecycleVars == <<phase, paper, result>>

Init ==
  /\ phase = [s \in Sittings |-> "absent"]
  /\ paper = [s \in Sittings |-> NoPaper]
  /\ result = [s \in Sittings |-> NoResult]

\* The sitting exists, but its paper could not be issued.
Open(s) ==
  /\ phase[s] = "absent"
  /\ phase' = [phase EXCEPT ![s] = "open"]
  /\ UNCHANGED <<paper, result>>

\* The only paper this sitting will ever have.
Issue(s) ==
  /\ phase[s] \in {"absent", "open"}
  /\ paper[s] = NoPaper
  /\ \E p \in Papers \ {NoPaper} : paper' = [paper EXCEPT ![s] = p]
  /\ phase' = [phase EXCEPT ![s] = "open"]
  /\ UNCHANGED result

\* The sittings of a nonempty set are graded together, each exactly once.
Grade(S) ==
  /\ S # {}
  /\ \A s \in S : phase[s] = "open" /\ paper[s] # NoPaper
  /\ phase' = [s \in Sittings |-> IF s \in S THEN "graded" ELSE phase[s]]
  /\ result' \in [Sittings -> Results \cup {NoResult}]
  /\ \A s \in S : result'[s] # NoResult
  /\ \A s \in Sittings \ S : result'[s] = result[s]
  /\ UNCHANGED paper

Next ==
  \/ \E s \in Sittings : Open(s) \/ Issue(s)
  \/ \E S \in SUBSET Sittings : Grade(S)

Spec == Init /\ [][Next]_lifecycleVars
=============================================================================
