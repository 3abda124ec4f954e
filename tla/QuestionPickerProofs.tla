------------------------ MODULE QuestionPickerProofs ------------------------
(***************************************************************************)
(* What pick_questions chooses, for every finite bank and for whatever     *)
(* numbers a room's creator asks for, negative and contradictory ones      *)
(* included.                                                               *)
(***************************************************************************)
EXTENDS QuestionPicker, FiniteSetTheorems, TLAPS

\* The bank is finite and every question has a level.
BankOk == IsFiniteSet(Bank) /\ LevelOf \in [Bank -> Levels]

\* The share of a level: what the room asks for, none of a negative number,
\* and no more than there are.
Share(s, level) ==
  IF s[level] < 0 THEN 0 ELSE AtMost(s[level], Cardinality(OfLevel(Bank, level)))

Shares(s) == Share(s, "easy") + Share(s, "medium") + Share(s, "hard")

-----------------------------------------------------------------------------
(* Sets and their sizes. *)

LEMMA SubsetSize ==
  ASSUME NEW S, IsFiniteSet(S), NEW T, T \subseteq S
  PROVE  /\ IsFiniteSet(T) /\ Cardinality(T) \in Nat /\ Cardinality(S) \in Nat
         /\ Cardinality(T) <= Cardinality(S)
BY FS_Subset, FS_CardinalityType

LEMMA DisjointSize ==
  ASSUME NEW S, NEW T, IsFiniteSet(S), IsFiniteSet(T), S \cap T = {}
  PROVE  /\ IsFiniteSet(S \cup T)
         /\ Cardinality(S \cup T) = Cardinality(S) + Cardinality(T)
BY FS_Union, FS_EmptySet, FS_CardinalityType

\* ORDER BY RANDOM() LIMIT n brings n rows, or all there are.
LEMMA SelectSize ==
  ASSUME NEW S, IsFiniteSet(S), NEW n \in Nat, NEW R \in Select(S, n)
  PROVE  /\ R \subseteq S /\ IsFiniteSet(R)
         /\ Cardinality(R) = AtMost(n, Cardinality(S))
BY FS_Subset DEF Select, kSubset

\* A level's questions are of the bank and of no other level.
LEMMA LevelParts ==
  ASSUME BankOk, NEW level \in Levels
  PROVE  /\ OfLevel(Bank, level) \subseteq Bank /\ IsFiniteSet(OfLevel(Bank, level))
         /\ Cardinality(OfLevel(Bank, level)) \in Nat
BY FS_Subset, FS_CardinalityType DEF BankOk, OfLevel

\* What is fetched of a level is its share.
LEMMA FetchSize ==
  ASSUME BankOk, NEW level \in Levels, NEW s \in Settings, NEW E \in Fetch(level, s[level])
  PROVE  /\ E \subseteq OfLevel(Bank, level) /\ IsFiniteSet(E)
         /\ Cardinality(E) = Share(s, level) /\ Share(s, level) \in Nat
<1>1. s[level] \in Int
  BY DEF Settings, Levels
<1>2. IsFiniteSet(OfLevel(Bank, level)) /\ Cardinality(OfLevel(Bank, level)) \in Nat
  BY LevelParts
<1>3. CASE s[level] <= 0
  <2>1. E = {}
    BY <1>3 DEF Fetch
  <2>2. Share(s, level) = 0
    BY <1>1, <1>2, <1>3 DEF Share, AtMost
  <2> QED
    BY <2>1, <2>2, FS_EmptySet
<1>4. CASE ~ (s[level] <= 0)
  <2>1. E \in Select(OfLevel(Bank, level), s[level]) /\ s[level] \in Nat
    BY <1>1, <1>4 DEF Fetch
  <2>2. /\ E \subseteq OfLevel(Bank, level) /\ IsFiniteSet(E)
        /\ Cardinality(E) = AtMost(s[level], Cardinality(OfLevel(Bank, level)))
    BY <1>2, <2>1, SelectSize
  <2> QED
    BY <1>1, <1>2, <1>4, <2>2 DEF Share, AtMost
<1> QED
  BY <1>3, <1>4

\* The three fetches together bring each level's share.
LEMMA ByLevelShares ==
  ASSUME BankOk, NEW s \in Settings, NEW B \in ByLevel(s)
  PROVE  /\ B \subseteq Bank /\ IsFiniteSet(B) /\ Cardinality(B) = Shares(s)
         /\ \A level \in Levels : /\ IsFiniteSet(OfLevel(B, level))
                                  /\ Cardinality(OfLevel(B, level)) = Share(s, level)
<1>1. PICK E \in Fetch("easy", s["easy"]), M \in Fetch("medium", s["medium"]),
           H \in Fetch("hard", s["hard"]) : B = E \cup M \cup H
  BY DEF ByLevel
<1>2. /\ E \subseteq OfLevel(Bank, "easy") /\ IsFiniteSet(E)
      /\ Cardinality(E) = Share(s, "easy") /\ Share(s, "easy") \in Nat
  BY FetchSize DEF Levels
<1>3. /\ M \subseteq OfLevel(Bank, "medium") /\ IsFiniteSet(M)
      /\ Cardinality(M) = Share(s, "medium") /\ Share(s, "medium") \in Nat
  BY FetchSize DEF Levels
<1>4. /\ H \subseteq OfLevel(Bank, "hard") /\ IsFiniteSet(H)
      /\ Cardinality(H) = Share(s, "hard") /\ Share(s, "hard") \in Nat
  BY FetchSize DEF Levels
<1>5. E \cap M = {} /\ (E \cup M) \cap H = {}
  BY <1>2, <1>3, <1>4 DEF OfLevel
<1>6. IsFiniteSet(E \cup M) /\ Cardinality(E \cup M) = Cardinality(E) + Cardinality(M)
  BY <1>2, <1>3, <1>5, DisjointSize
<1>7. /\ IsFiniteSet((E \cup M) \cup H)
      /\ Cardinality((E \cup M) \cup H) = Cardinality(E \cup M) + Cardinality(H)
  BY <1>4, <1>5, <1>6, DisjointSize
<1>8. OfLevel(B, "easy") = E /\ OfLevel(B, "medium") = M /\ OfLevel(B, "hard") = H
  BY <1>1, <1>2, <1>3, <1>4 DEF OfLevel
<1>9. B \subseteq Bank
  BY <1>1, <1>2, <1>3, <1>4 DEF OfLevel
<1> QED
  BY <1>1, <1>2, <1>3, <1>4, <1>6, <1>7, <1>8, <1>9 DEF Shares, Levels

\* The defaults leave a room with a positive total.
LEMMA DefaultsPositive ==
  ASSUME NEW s \in Settings
  PROVE  WithDefaults(s) \in Settings /\ WithDefaults(s).total > 0
BY DEF WithDefaults, Settings

-----------------------------------------------------------------------------
(* The whole choice. *)

\* More questions of a set, no fewer of a level.
LEMMA LevelSizes ==
  ASSUME NEW Q, NEW S, IsFiniteSet(S), Q \subseteq S, NEW level
  PROVE  /\ Cardinality(OfLevel(Q, level)) <= Cardinality(OfLevel(S, level))
         /\ IsFiniteSet(OfLevel(Q, level)) /\ Cardinality(OfLevel(Q, level)) \in Nat
         /\ IsFiniteSet(OfLevel(S, level)) /\ Cardinality(OfLevel(S, level)) \in Nat
<1>1. OfLevel(Q, level) \subseteq OfLevel(S, level) /\ OfLevel(S, level) \subseteq S
  BY DEF OfLevel
<1>2. IsFiniteSet(OfLevel(S, level))
  BY <1>1, SubsetSize
<1> QED
  BY <1>1, <1>2, SubsetSize

\* Too few by level: the rest of the bank fills the paper up, and every level
\* keeps its share.
LEMMA FilledPaper ==
  ASSUME BankOk, NEW s \in Settings, s.total > 0, NEW B \in ByLevel(s),
         Cardinality(B) < s.total, NEW F \in FilledUp(s, B)
  PROVE  /\ B \subseteq F /\ F \subseteq Bank /\ IsFiniteSet(F)
         /\ Cardinality(F) = AtMost(s.total, Cardinality(Bank))
<1>1. IsFiniteSet(Bank) /\ Cardinality(Bank) \in Nat /\ s.total \in Int
  BY FS_CardinalityType DEF BankOk, Settings
<1>2. B \subseteq Bank /\ IsFiniteSet(B) /\ Cardinality(B) \in Nat
  BY ByLevelShares, FS_CardinalityType
<1>3. PICK R \in Select(Bank \ B, s.total - Cardinality(B)) : F = B \cup R
  BY DEF FilledUp
<1>4. IsFiniteSet(Bank \ B) /\ Cardinality(Bank \ B) = Cardinality(Bank) - Cardinality(B)
  <2>1. Bank \cap B = B
    BY <1>2
  <2> QED
    BY <1>1, <2>1, FS_Difference
<1>5. s.total - Cardinality(B) \in Nat
  BY <1>1, <1>2
<1>6. /\ R \subseteq Bank \ B /\ IsFiniteSet(R)
      /\ Cardinality(R) = AtMost(s.total - Cardinality(B), Cardinality(Bank) - Cardinality(B))
  BY <1>3, <1>4, <1>5, SelectSize
<1>7. B \cap R = {}
  BY <1>6
<1>8. IsFiniteSet(F) /\ Cardinality(F) = Cardinality(B) + Cardinality(R)
  BY <1>2, <1>3, <1>6, <1>7, DisjointSize
<1>9. Cardinality(F) = AtMost(s.total, Cardinality(Bank))
  BY <1>1, <1>2, <1>6, <1>8 DEF AtMost
<1> QED
  BY <1>2, <1>3, <1>6, <1>8, <1>9

\* For a positive total: as many questions as asked for or the whole bank, and
\* the levels' shares bound from above, from below, or both.
LEMMA PaperChosen ==
  ASSUME BankOk, NEW s \in Settings, s.total > 0, NEW Q \in PickQuestions(s)
  PROVE  /\ Q \subseteq Bank /\ IsFiniteSet(Q)
         /\ Cardinality(Q) = AtMost(s.total, Cardinality(Bank))
         /\ Shares(s) >= s.total =>
              \A level \in Levels : Cardinality(OfLevel(Q, level)) <= Share(s, level)
         /\ Shares(s) <= s.total =>
              \A level \in Levels : Cardinality(OfLevel(Q, level)) >= Share(s, level)
<1>1. PICK B \in ByLevel(s) : \E F \in FilledUp(s, B) : Q \in Trimmed(s, F)
  BY DEF PickQuestions
<1>2. PICK F \in FilledUp(s, B) : Q \in Trimmed(s, F)
  BY <1>1
<1>3. /\ B \subseteq Bank /\ IsFiniteSet(B) /\ Cardinality(B) = Shares(s)
      /\ \A level \in Levels : Cardinality(OfLevel(B, level)) = Share(s, level)
  BY ByLevelShares
<1>4. /\ IsFiniteSet(Bank) /\ Cardinality(Bank) \in Nat /\ s.total \in Int
      /\ Cardinality(B) \in Nat /\ Cardinality(B) <= Cardinality(Bank)
  BY <1>3, FS_CardinalityType, FS_Subset DEF BankOk, Settings
<1>5. CASE Cardinality(B) < s.total
  <2>1. /\ B \subseteq F /\ F \subseteq Bank /\ IsFiniteSet(F)
        /\ Cardinality(F) = AtMost(s.total, Cardinality(Bank))
    BY <1>5, FilledPaper
  <2>2. Q = F
    BY <1>2, <1>4, <2>1 DEF Trimmed, AtMost
  <2>3. \A level \in Levels : Cardinality(OfLevel(Q, level)) >= Share(s, level)
    <3> SUFFICES ASSUME NEW level \in Levels
                 PROVE  Cardinality(OfLevel(Q, level)) >= Share(s, level)
      OBVIOUS
    <3>1. /\ Cardinality(OfLevel(B, level)) <= Cardinality(OfLevel(Q, level))
          /\ Cardinality(OfLevel(B, level)) \in Nat /\ Cardinality(OfLevel(Q, level)) \in Nat
      BY <2>1, <2>2, LevelSizes
    <3> QED
      BY <1>3, <3>1
  <2> QED
    BY <1>3, <1>4, <1>5, <2>1, <2>2, <2>3
<1>6. CASE ~ (Cardinality(B) < s.total)
  <2>1. F = B
    BY <1>6 DEF FilledUp
  <2>2. Q \subseteq B /\ Cardinality(Q) = s.total
    <3>1. CASE Cardinality(B) > s.total
      BY <1>2, <2>1, <3>1 DEF Trimmed, kSubset
    <3>2. CASE Cardinality(B) = s.total
      BY <1>2, <1>4, <2>1, <3>2 DEF Trimmed
    <3> QED
      BY <1>4, <1>6, <3>1, <3>2
  <2>3. \A level \in Levels : Cardinality(OfLevel(Q, level)) <= Share(s, level)
    BY <1>3, <2>2, LevelSizes
  <2>4. Q = B \/ Shares(s) # s.total
    BY <1>3, <2>2, FS_Subset
  <2>5. IsFiniteSet(Q) /\ Q \subseteq Bank
    BY <1>3, <2>2, FS_Subset
  <2>6. \A level \in Levels : Cardinality(OfLevel(B, level)) \in Nat
    BY <1>3, LevelSizes
  <2>7. Shares(s) <= s.total =>
          \A level \in Levels : Cardinality(OfLevel(Q, level)) >= Share(s, level)
    BY <1>3, <1>4, <1>6, <2>4, <2>6
  <2> QED
    BY <1>3, <1>4, <1>6, <2>2, <2>3, <2>5, <2>7 DEF AtMost
<1> QED
  BY <1>5, <1>6

\* Whatever numbers a room's creator gives, pick_questions chooses as many
\* questions as the room asks for, or the whole bank; no level has more than
\* its share when the shares make up the total, or fewer when there is room for
\* all of them (pick_questions, get_exam_paper).
THEOREM PicksAsAsked ==
  ASSUME BankOk, NEW s \in Settings, NEW Q \in PickQuestions(WithDefaults(s))
  PROVE  Q \subseteq Bank /\ AsAsked(s, Q)
<1> DEFINE asked == WithDefaults(s)
           count == [level \in Levels |-> Cardinality(OfLevel(Q, level))]
           want == [level \in Levels |-> Share(asked, level)]
<1>1. asked \in Settings /\ asked.total > 0
  BY DefaultsPositive
<1>2. /\ Q \subseteq Bank
      /\ Cardinality(Q) = AtMost(asked.total, Cardinality(Bank))
      /\ Shares(asked) >= asked.total =>
           \A level \in Levels : Cardinality(OfLevel(Q, level)) <= Share(asked, level)
      /\ Shares(asked) <= asked.total =>
           \A level \in Levels : Cardinality(OfLevel(Q, level)) >= Share(asked, level)
  BY <1>1, PaperChosen
<1>3. /\ want["easy"] + want["medium"] + want["hard"] = Shares(asked)
      /\ \A level \in Levels : want[level] = Share(asked, level)
                               /\ count[level] = Cardinality(OfLevel(Q, level))
  BY DEF Shares, Levels
<1>4. AsAsked(s, Q) =
        /\ Cardinality(Q) = AtMost(asked.total, Cardinality(Bank))
        /\ want["easy"] + want["medium"] + want["hard"] >= asked.total =>
             \A level \in Levels : count[level] <= want[level]
        /\ want["easy"] + want["medium"] + want["hard"] <= asked.total =>
             \A level \in Levels : count[level] >= want[level]
  BY DEF AsAsked, Share
<1> HIDE DEF asked, count, want
<1> QED
  BY <1>2, <1>3, <1>4
=============================================================================
