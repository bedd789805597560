--------------------------- MODULE MCQueueDelivery ---------------------------
(* Who asks for what, and what may go wrong, in the instances of QueueDelivery. *)
EXTENDS QueueDelivery

CONSTANTS r1, r2

TwoRequests  == {r1, r2}
OwnRequests  == [i \in Items |-> IF i = 1 THEN r1 ELSE r2]   \* N = 2: distinct requests
FirstRetried == [i \in Items |-> IF i = 2 THEN r2 ELSE r1]    \* item 3 retries item 1

Anything  == {"abort", "cancel", "commit", "continue", "crash", "defer", "failed", "fault",
              "lease", "policy", "stale", "stillborn", "stop", "throw", "waiting", "yield"}
Cancels   == {"cancel"}
CancelsAndCommits == {"cancel", "commit"}
=============================================================================
