\* A cancellation and a message that cannot be committed.
SPECIFICATION Spec
CONSTANTS
  r1 = r1
  r2 = r2
  N = 2
  Requests <- TwoRequests
  Req <- OwnRequests
  Trouble <- CancelsAndCommits
  MaxTrouble = 2
  MaxClaims = 4
  MaxDirect = 1
INVARIANT CancelledNeverRuns
CHECK_DEADLOCK FALSE
