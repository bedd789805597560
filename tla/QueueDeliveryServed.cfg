\* Three messages, the last a retry of the first; two turns in their way, cancellations.
SPECIFICATION FairSpec
CONSTANTS
  r1 = r1
  r2 = r2
  N = 3
  Requests <- TwoRequests
  Req <- FirstRetried
  Trouble <- Cancels
  MaxTrouble = 2
  MaxClaims = 10
  MaxDirect = 2
INVARIANT CancelledNeverRuns
PROPERTIES
  EveryRowIsServed
  ImplementsLedger
CHECK_DEADLOCK FALSE
