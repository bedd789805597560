\* Two processes, two turns, leases that expire before the clock stops.
SPECIFICATION Spec
CONSTANTS
  p1 = p1
  p2 = p2
  t1 = t1
  t2 = t2
  None = None
  Procs <- TwoProcs
  Turns <- TwoTurns
  MaxTime = 1
  LeaseMs = 1
  MaxLeases = 3
SYMMETRY Symmetry
INVARIANTS
  DeletionFindsItsTurn
CHECK_DEADLOCK FALSE
