SPECIFICATION FairSpec
CONSTANTS
  c1 = c1
  c2 = c2
  w1 = w1
  w2 = w2
  Conns <- MCConns
  Faulty <- OneConn
  Workers <- MCWorkers
  MaxSent = 2
  Talkers <- OneConn
  Idle = Idle
INVARIANTS
  TypeOK
  EachMessageOnce
  ExitIsClean
  NoReaderLeft
PROPERTIES
  ReadIsRun
  StopEnds
CHECK_DEADLOCK FALSE
