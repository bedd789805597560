\* Order, claims, requests, dedupe keys, expiry, leases and the pause.
SPECIFICATION Spec
CONSTANTS
  i1 = i1
  i2 = i2
  i3 = i3
  q1 = q1
  k1 = k1
  o1 = o1
  None = None
  Items <- SomeItems
  Offers <- AllOffers
  Requests = {q1}
  Keys = {k1}
  Owners = {o1}
  Promotions = {FALSE}
  Causes = {"user-stop"}
  MaxTime = 1
  MaxClaims = 2
  Lease = 1
SYMMETRY ItemSymmetry
INVARIANTS
  TypeOK
  AtMostOneClaim
  FifoClaimIsHead
  OneRowPerRequest
  PauseNeedsPending
PROPERTIES
  StoppedQueueStaysStopped
  ReleaseKeepsPlace
  PauseEndsForAReason
