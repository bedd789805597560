\* Everything may go wrong, three times, around the deliveries of two messages.
SPECIFICATION Spec
CONSTANTS
  r1 = r1
  r2 = r2
  N = 2
  Requests <- TwoRequests
  Req <- OwnRequests
  Trouble <- Anything
  MaxTrouble = 3
  MaxClaims = 3
  MaxDirect = 1
PROPERTY ImplementsFates
INVARIANTS
  TypeOK
  NoLostWake
  SubmitterIsAnswered
CHECK_DEADLOCK FALSE
