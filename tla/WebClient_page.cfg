SPECIFICATION FairSpec
CONSTANTS
  r1 = r1
  r2 = r2
  q1 = q1
  q2 = q2
  NoRoom = NoRoom
  Blank = Blank
  Rooms <- TwoRooms
  PapersOf <- PaperOfEach
  Options <- OneOption
  Duration <- MCDuration
  MaxTime = 2
  MaxInFlight = 2
  MaxFailures = 1
INVARIANTS
  TypeOK
  SubmissionMatchesPaper
PROPERTIES
  ChoicesKept
  AutoOnTime
  ShownIsSubmitted
