SPECIFICATION Spec
CONSTANTS
  u1 = u1
  u2 = u2
  q1 = q1
  q2 = q2
  Users <- OneUser
  Questions <- OneQuestion
  Options <- MCOptions
  Correct <- MCCorrect
  NoOption = NoOption
  MaxRooms = 1
  MaxTime = 2
  Durations = {1}
  Sizes = {1}
  Faults = {"paper"}
  AutoSubmitWorker = FALSE
INVARIANTS
  TimerAgreesWithPaper
CHECK_DEADLOCK FALSE
