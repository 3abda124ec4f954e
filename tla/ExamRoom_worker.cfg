SPECIFICATION Spec
CONSTANTS
  u1 = u1
  u2 = u2
  q1 = q1
  q2 = q2
  Users <- OneUser
  Questions <- OneQuestion
  Options <- MCOptions
  Correct <- MCCorrect
  NoOption = NoOption
  MaxRooms = 2
  MaxTime = 3
  Durations <- MCDurations
  Sizes = {1}
  Faults = {}
  AutoSubmitWorker = TRUE
INVARIANTS
  ExamOfParticipant
PROPERTIES
  GradeOnSubmission
  ResultsFinal
CHECK_DEADLOCK FALSE
