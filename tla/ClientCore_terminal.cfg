SPECIFICATION FairSpec
CONSTANTS
  MaxConns = 2
  MaxFrames = 3
INVARIANTS
  TypeOK
  EventsInOrder
  OneReader
  DiesOnlyAfterServerClose
PROPERTIES
  DisconnectReturns
CHECK_DEADLOCK FALSE
