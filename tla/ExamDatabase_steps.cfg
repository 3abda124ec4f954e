SPECIFICATION FairSpec
CONSTANTS
  u1 = u1
  q1 = q1
  q2 = q2
  q3 = q3
  Users <- OneUser
  Questions <- ThreeQuestions
  Options <- MCOptions
  Correct <- MCCorrect
  NoOption = NoOption
  LevelOf <- MCLevelOf
  AllSettings <- SomeSettings
  Duration = 1
INVARIANTS
  TypeOK
  PaperWhole
PROPERTIES
  ImplementsExamRoom
  MutexReleased
