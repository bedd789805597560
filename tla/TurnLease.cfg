\* Two processes, two turns; leases end within the clock and outlast a start.
SPECIFICATION Spec
CONSTANTS
  p1 = p1
  p2 = p2
  t1 = t1
  t2 = t2
  None = None
  Procs <- TwoProcs
  Turns <- TwoTurns
  MaxTime = 2
  LeaseMs = 2
  MaxLeases = 3
SYMMETRY Symmetry
INVARIANTS
  TypeOK
  LockMatchesReceipt
PROPERTIES
  ImplementsLedger
  LiveLeaseIsRespected
CHECK_DEADLOCK FALSE
