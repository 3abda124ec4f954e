SPECIFICATION FairSpec
CONSTANTS
  u1 = u1
  u2 = u2
  q1 = q1
  Users <- TwoUsers
  Seeded <- OneUser
  Ttl = 0
  MaxSessions = 2
  MaxTime = 1
  Questions <- OneQuestion
  LevelOf <- AllEasy
  Options <- MCOptions
  Correct <- MCCorrect
  Blank = Blank
  Counts <- NoneOrAll
  MaxRuns = 2
  MaxInFlight = 1
INVARIANTS
  TypeOK
  EndedForGood
  ResultOfHolder
  PracticeMatchesPaper
PROPERTIES
  PracticeSubmitted
