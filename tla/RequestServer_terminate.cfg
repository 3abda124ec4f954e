SPECIFICATION Spec
CONSTANTS
  c1 = c1
  c2 = c2
  w1 = w1
  w2 = w2
  Conns <- MCConns
  Faulty <- MCConns
  Workers <- MCWorkers
  MaxSent = 1
  Talkers <- MCConns
  Idle = Idle
SYMMETRY Symmetry
INVARIANTS
  NeverTerminates
CHECK_DEADLOCK FALSE
