\* Every mix of three operations, a stop and two attempts to delete.
SPECIFICATION Spec
CONSTANTS
  N = 3
  Mixes <- EveryMix
  MaxStops = 1
  MaxDeletes = 2
INVARIANTS
  TypeOK
  PermitsBalance
  HandoffIsAlone
  StoppedNeverRuns
  DeletionIsAlone
  DrainsAreOwed
CHECK_DEADLOCK FALSE
