\* Three messages of the user and one of a machine, sent between the user's.
CONSTANTS
  Sent = 4
  Machine <- MachineMessages
  Faults = 3
SPECIFICATION Spec
CHECK_DEADLOCK FALSE
PROPERTY ImplementsHomes
INVARIANTS
  TypeOK
  ReadOnce
  FallenInOrder
  RowsAreParkedOrWoken
  DrainLands
