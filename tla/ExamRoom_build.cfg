SPECIFICATION Spec
CONSTANTS
  u1 = u1
  u2 = u2
  q1 = q1
  q2 = q2
  Users <- MCUsers
  Questions <- TwoQuestions
  Options <- MCOptions
  Correct <- MCCorrect
  NoOption = NoOption
  MaxRooms = 1
  MaxTime = 1
  Durations = {1}
  Sizes = {2}
  Faults = {"paper", "grade"}
  AutoSubmitWorker = FALSE
SYMMETRY Symmetry
INVARIANTS
  TypeOK
  OnePaper
  ToldIsRecorded
  ResultWithinPaper
  TimerWithinPaper
PROPERTIES
  ImplementsLifecycle
CHECK_DEADLOCK FALSE
