------------------------ MODULE QueueDeliveryProofs ------------------------
(***************************************************************************)
(* A message enters the host at most once, and none that was acknowledged  *)
(* is lost without a trace: for every number of messages, every assignment *)
(* of request ids, every kind and amount of trouble.                       *)
(*                                                                         *)
(* The argument.  The host starts only under an open turn, a turn is       *)
(* opened only by the delivery whose acknowledgement deleted the row, and  *)
(* a deleted row never comes back.  So DeliveryInv says what an open turn  *)
(* and a delivery about to open one know of their row, and that a claim    *)
(* identifies its delivery and its turn.  Most steps only take rows away,  *)
(* move a delivery or end a turn: KeepingKeeps does them all at once.  The *)
(* steps left are those that make a claim, accept a turn, acknowledge the  *)
(* row, open the start fence and start the host.  AckInv then adds what    *)
(* the claims and attempts on the rows have to do with the turns.          *)
(*                                                                         *)
(* Nobody waits for ever because something was forgotten: the submitter of *)
(* a message is answered, and a wake that comes while the dispatcher is    *)
(* busy is not lost.  Three layers.  OrderInv: messages enter the queue in *)
(* order, and the row the drain delivers has only rows in front of it that *)
(* yielded.  WaitInv: a completion is pending only while its row is queued *)
(* and executing only while its turn holds the session.  WakeInv: when the *)
(* drain stops with nothing to say, no row waits, or a turn or another     *)
(* delivery will wake the queue.                                           *)
(*                                                                         *)
(* Last, the promises of MessageFates and TurnLedger are kept step by      *)
(* step.  OwnInv says whose receipt and whose attempt a turn and a         *)
(* delivery have; then no message is lost (FateIsPlain), its row and the   *)
(* history tell its fate, and each step changes one fate or none.  And a   *)
(* cancellation that was taken holds (CancelInv) while nothing puts an     *)
(* accepted row back (KeptInv).                                            *)
(***************************************************************************)
EXTENDS QueueDelivery, TLAPS

\* A deliverer between two deliveries; a row that may still be delivered.
Between == {"idle", "recover", "claim"}
Fresh   == {"new", "waiting", "claimed"}

\* The inductive invariant, beside the types.
DeliveryInv ==
  /\ \A d \in Deliverers : job[d].claim <= claims
  /\ turn.claim <= claims
  /\ \A d, e \in Deliverers : job[d].claim = job[e].claim /\ job[d].claim # 0 => d = e
  /\ \A d \in Deliverers : at[d] \notin Between => job[d].claim # 0 /\ job[d].item # 0
  /\ \A d \in Deliverers : turn.claim = job[d].claim /\ job[d].claim # 0 => turn.item = job[d].item
  /\ \A d \in Deliverers : at[d] = "open" =>
       /\ row[job[d].item] = "acked"
       /\ turn.phase = "fenced" /\ turn.claim = job[d].claim => ran[job[d].item] = 0
  /\ turn.phase \in {"fenced", "open", "doomed"} => turn.claim # 0
  /\ turn.phase = "open" => turn.item # 0 /\ row[turn.item] = "acked" /\ ran[turn.item] = 0
  /\ \A i \in Items : row[i] \in Fresh => ran[i] = 0
  /\ \A i \in Items : ran[i] <= 1

\* The bounds are numbers.
LEMMA Bounds == N \in Nat /\ MaxTrouble \in Nat /\ MaxClaims \in Nat /\ MaxDirect \in Nat
BY BoundAssumption

\* An idle deliverer's job, and the session without a turn, are well typed.
LEMMA NoJobType == NoJob \in Jobs /\ NoJob.claim = 0
BY Bounds DEF NoJob, Jobs, Why

LEMMA NoTurnType == NoTurn \in Turns /\ NoTurn.claim = 0 /\ NoTurn.phase = "none"
BY Bounds DEF NoTurn, Turns

\* The program starts in the invariant.
LEMMA InitInv == Init => TypeOK /\ DeliveryInv
<1>. SUFFICES ASSUME Init PROVE TypeOK /\ DeliveryInv
  OBVIOUS
<1>1. TypeOK
  <2>1. row \in [Items -> Rows] /\ waiter \in [Items -> Waits]
    BY DEF Init, Rows, Waits
  <2>2. /\ claim \in [Items -> 0 .. MaxClaims] /\ attempt \in [Items -> 0 .. MaxClaims]
        /\ \A i \in Items : (claim[i] # 0) <=> (row[i] = "claimed")
        /\ ran \in [Items -> Nat]
    BY Bounds DEF Init
  <2>3. at \in [Deliverers -> Places] /\ job \in [Deliverers -> Jobs] /\ turn \in Turns
    BY NoJobType, NoTurnType DEF Init, Places
  <2>4. /\ claims \in 0 .. MaxClaims /\ trouble \in 0 .. MaxTrouble
        /\ direct \in 0 .. MaxDirect /\ parked \in Why
    BY Bounds DEF Init, Why
  <2>5. /\ lapsed \subseteq Items /\ accepted \subseteq Claims /\ requests \subseteq Requests
        /\ yielded \subseteq Items /\ unwanted \subseteq Items /\ cut \subseteq Claims
        /\ paused \in BOOLEAN /\ stopping \in BOOLEAN
        /\ owed \in BOOLEAN /\ recoverFirst \in BOOLEAN
    BY DEF Init
  <2>. QED BY <2>1, <2>2, <2>3, <2>4, <2>5 DEF TypeOK
<1>2. DeliveryInv
  BY Bounds, NoJobType, NoTurnType DEF Init, DeliveryInv, Between, Fresh
<1>. QED BY <1>1, <1>2

-----------------------------------------------------------------------------
(* Steps that make no claim, accept no turn, acknowledge nothing and start *)
(* no host: rows leave or return, deliveries move on, a turn ends.         *)

KeepsRows ==
  /\ ran' = ran
  /\ \A i \in Items : /\ row[i] = "acked" => row'[i] = "acked"
                      /\ row'[i] \in Fresh => row[i] \in Fresh

KeepsJobs ==
  /\ claims' = claims
  /\ \A d \in Deliverers :
       \/ /\ job'[d].claim = job[d].claim /\ job'[d].item = job[d].item
          /\ at'[d] = "open" => at[d] = "open"
          /\ at'[d] \notin Between => at[d] \notin Between
       \/ job'[d].claim = 0 /\ at'[d] \in Between

KeepsTurn ==
  \/ turn'.claim = 0 /\ turn'.phase \notin {"fenced", "open", "doomed"}
  \/ /\ turn'.claim = turn.claim /\ turn'.item = turn.item
     /\ turn'.phase \in {"fenced", "open"} => turn'.phase = turn.phase
     /\ turn'.phase = "doomed" => turn.phase \in {"fenced", "doomed"}

\* Such a step keeps the invariant.
LEMMA KeepingKeeps ==
  ASSUME TypeOK, DeliveryInv, KeepsRows, KeepsJobs, KeepsTurn
  PROVE  DeliveryInv'
<1>0. /\ claims \in Nat /\ turn.claim \in Nat /\ turn.item \in 0 .. N
      /\ \A d \in Deliverers : job[d].claim \in Nat /\ job[d].item \in 0 .. N
  BY Bounds DEF TypeOK, Turns, Jobs
<1>1. \A d \in Deliverers : job'[d].claim <= claims'
  BY <1>0 DEF DeliveryInv, KeepsJobs
<1>2. turn'.claim <= claims'
  BY <1>0 DEF DeliveryInv, KeepsTurn, KeepsJobs
<1>3. \A d, e \in Deliverers : job'[d].claim = job'[e].claim /\ job'[d].claim # 0 => d = e
  BY DEF DeliveryInv, KeepsJobs
<1>4. \A d \in Deliverers : at'[d] \notin Between => job'[d].claim # 0 /\ job'[d].item # 0
  BY DEF DeliveryInv, KeepsJobs
<1>5. \A d \in Deliverers :
        turn'.claim = job'[d].claim /\ job'[d].claim # 0 => turn'.item = job'[d].item
  BY DEF DeliveryInv, KeepsJobs, KeepsTurn
<1>6. ASSUME NEW d \in Deliverers, at'[d] = "open"
      PROVE  /\ row'[job'[d].item] = "acked"
             /\ turn'.phase = "fenced" /\ turn'.claim = job'[d].claim => ran'[job'[d].item] = 0
  <2>1. /\ at[d] = "open" /\ job'[d].claim = job[d].claim /\ job'[d].item = job[d].item
        /\ job[d].claim # 0 /\ job[d].item # 0
    BY <1>6 DEF DeliveryInv, KeepsJobs, Between
  <2>2. job[d].item \in Items
    BY <2>1, <1>0, Bounds DEF Items
  <2>. QED BY <2>1, <2>2 DEF DeliveryInv, KeepsRows, KeepsTurn
<1>7. turn'.phase = "open" => turn'.item # 0 /\ row'[turn'.item] = "acked" /\ ran'[turn'.item] = 0
  <2>. SUFFICES ASSUME turn'.phase = "open"
                PROVE  turn'.item # 0 /\ row'[turn'.item] = "acked" /\ ran'[turn'.item] = 0
    OBVIOUS
  <2>1. turn.phase = "open" /\ turn'.item = turn.item /\ turn.item # 0
    BY DEF KeepsTurn, DeliveryInv
  <2>2. turn.item \in Items
    BY <2>1, <1>0, Bounds DEF Items
  <2>. QED BY <2>1, <2>2 DEF DeliveryInv, KeepsRows
<1>8. \A i \in Items : row'[i] \in Fresh => ran'[i] = 0
  BY DEF DeliveryInv, KeepsRows
<1>9. \A i \in Items : ran'[i] <= 1
  BY DEF DeliveryInv, KeepsRows
<1>10. turn'.phase \in {"fenced", "open", "doomed"} => turn'.claim # 0
  BY DEF DeliveryInv, KeepsTurn
<1>. QED BY <1>1, <1>2, <1>3, <1>4, <1>5, <1>6, <1>7, <1>8, <1>9, <1>10 DEF DeliveryInv

-----------------------------------------------------------------------------
(* How a delivery moves on.                                                *)

\* A delivery that decides what becomes of its row keeps its claim.
LEMMA SettlesMoves ==
  ASSUME TypeOK, NEW d \in Deliverers, at[d] \notin Between, claims' = claims,
         NEW how \in {"release", "reject", "cancel"}, NEW again \in BOOLEAN, NEW why \in Why,
         Settles(d, how, again, why)
  PROVE  at' \in [Deliverers -> Places] /\ job' \in [Deliverers -> Jobs] /\ KeepsJobs
<1>1. job[d] \in Jobs /\ job \in [Deliverers -> Jobs] /\ at \in [Deliverers -> Places]
  BY DEF TypeOK
<1>2. /\ [job[d] EXCEPT !.how = how, !.again = again, !.why = why] \in Jobs
      /\ [job[d] EXCEPT !.how = how, !.again = again, !.why = why].item = job[d].item
      /\ [job[d] EXCEPT !.how = how, !.again = again, !.why = why].claim = job[d].claim
  BY <1>1 DEF Jobs
<1>3. at' \in [Deliverers -> Places]
  BY <1>1 DEF Settles, Places
<1>4. job' \in [Deliverers -> Jobs]
  BY <1>1, <1>2 DEF Settles
<1>5. KeepsJobs
  <2>1. \A e \in Deliverers : job'[e].item = job[e].item /\ job'[e].claim = job[e].claim
    BY <1>1, <1>2 DEF Settles
  <2>2. \A e \in Deliverers : /\ at'[e] = "open" => at[e] = "open"
                              /\ at'[e] \notin Between => at[e] \notin Between
    BY <1>1 DEF Settles
  <2>. QED BY <2>1, <2>2 DEF KeepsJobs
<1>. QED BY <1>3, <1>4, <1>5

\* So does one that first looks for a cancellation.
LEMMA LeavesMoves ==
  ASSUME TypeOK, NEW d \in Deliverers, at[d] \notin Between, claims' = claims,
         NEW how \in {"release", "reject", "cancel"}, NEW again \in BOOLEAN, NEW why \in Why,
         Leaves(d, how, again, why)
  PROVE  at' \in [Deliverers -> Places] /\ job' \in [Deliverers -> Jobs] /\ KeepsJobs
<1>1. CASE CancelRequested(d)
  <2>1. Settles(d, "cancel", TRUE, "no") /\ "no" \in Why
    BY <1>1 DEF Leaves, Why
  <2>. QED BY <2>1, SettlesMoves
<1>2. CASE ~CancelRequested(d)
  <2>1. Settles(d, how, again, why)
    BY <1>2 DEF Leaves
  <2>. QED BY <2>1, SettlesMoves
<1>. QED BY <1>1, <1>2

\* A delivery that goes to its next step.
LEMMA PlaceMoves ==
  ASSUME TypeOK, NEW d \in Deliverers, at[d] \notin Between, claims' = claims, job' = job,
         NEW place \in Places \ {"open"}, at' = [at EXCEPT ![d] = place]
  PROVE  at' \in [Deliverers -> Places] /\ job' \in [Deliverers -> Jobs] /\ KeepsJobs
BY DEF TypeOK, KeepsJobs

\* A delivery that is over leaves its deliverer without a job.
LEMMA EndedMoves ==
  ASSUME TypeOK, NEW d \in Deliverers, claims' = claims,
         NEW again \in BOOLEAN, NEW why \in Why, Ended(d, again, why)
  PROVE  /\ at' \in [Deliverers -> Places] /\ job' \in [Deliverers -> Jobs] /\ KeepsJobs
         /\ owed' \in BOOLEAN /\ yielded' \subseteq Items /\ parked' \in Why
<1>1. /\ job \in [Deliverers -> Jobs] /\ at \in [Deliverers -> Places]
      /\ owed \in BOOLEAN /\ yielded \subseteq Items /\ parked \in Why
  BY DEF TypeOK
<1>2. NextStep \in Between /\ NextStep \in Places /\ "idle" \in Places \cap Between
  BY DEF NextStep, Between, Places
<1>3. at' \in [Deliverers -> Places]
  BY <1>1, <1>2 DEF Ended
<1>4. job' \in [Deliverers -> Jobs]
  BY <1>1, NoJobType DEF Ended
<1>5. KeepsJobs
  BY <1>1, <1>2, NoJobType DEF Ended, KeepsJobs
<1>6. owed' \in BOOLEAN /\ yielded' \subseteq Items
  BY <1>1 DEF Ended
<1>7. parked' \in Why
  BY <1>1 DEF Ended, Why
<1>. QED BY <1>3, <1>4, <1>5, <1>6, <1>7

\* What a step may do to the count of troubles.
Counts == Well \/ (trouble < MaxTrouble /\ trouble' = trouble + 1)

\* Troubles are counted within their bound.
LEMMA CountsType == TypeOK /\ Counts => trouble' \in 0 .. MaxTrouble
BY Bounds DEF TypeOK, Counts, Well

\* dispatchClaim up to the delivery.
LEMMA CheckKeeps ==
  ASSUME TypeOK, DeliveryInv, NEW d \in Deliverers, Check(d)
  PROVE  TypeOK' /\ DeliveryInv'
<1>1. at[d] \notin Between /\ claims' = claims
  BY DEF Check, Between, books
<1>2. trouble' \in 0 .. MaxTrouble
  <2>1. Counts
    BY DEF Check, Defers, Yields, Goes, Counts
  <2>. QED BY <2>1, CountsType
<1>3. yielded' \subseteq Items
  <2>1. job[d].item \in 0 .. N /\ job[d].item # 0
    BY <1>1 DEF TypeOK, Jobs, DeliveryInv
  <2>2. job[d].item \in Items
    BY <2>1, Bounds DEF Items
  <2>. QED BY <2>2 DEF Check, Defers, TypeOK
<1>4. at' \in [Deliverers -> Places] /\ job' \in [Deliverers -> Jobs] /\ KeepsJobs
  <2>1. CASE stopping /\ Settles(d, "release", FALSE, "stopped")
    BY <1>1, <2>1, SettlesMoves DEF Why
  <2>2. CASE Settles(d, "cancel", TRUE, "no")
    BY <1>1, <2>2, SettlesMoves DEF Why
  <2>3. CASE at' = [at EXCEPT ![d] = "prepare"] /\ UNCHANGED job
    BY <1>1, <2>3, PlaceMoves DEF Places
  <2>4. CASE Leaves(d, "release", FALSE, "threw")
    BY <1>1, <2>4, LeavesMoves DEF Why
  <2>5. CASE Defers(d)
    BY <1>1, <2>5, SettlesMoves DEF Defers, Why
  <2>6. CASE Leaves(d, "cancel", TRUE, "no") \/ Leaves(d, "release", FALSE, "refused")
    BY <1>1, <2>6, LeavesMoves DEF Why
  <2>. QED BY <2>1, <2>2, <2>3, <2>4, <2>5, <2>6 DEF Check
<1>5. KeepsRows /\ KeepsTurn
  BY DEF Check, KeepsRows, KeepsTurn, rows, hist, TypeOK, Turns
<1>6. TypeOK'
  BY <1>2, <1>3, <1>4 DEF Check, TypeOK, rows, books, hist
<1>. QED BY <1>4, <1>5, <1>6, KeepingKeeps

\* recoverClaims takes rows back or away, and revives none.
LEMMA TakeBackKeeps ==
  ASSUME TypeOK, NEW S, S \subseteq Claimed, TakeBack(S), ran' = ran
  PROVE  /\ row' \in [Items -> Rows] /\ claim' \in [Items -> 0 .. MaxClaims]
         /\ \A i \in Items : (claim'[i] # 0) <=> (row'[i] = "claimed")
         /\ attempt' = attempt /\ lapsed' \subseteq Items /\ KeepsRows
<1>1. /\ row \in [Items -> Rows] /\ claim \in [Items -> 0 .. MaxClaims] /\ lapsed \subseteq Items
      /\ \A i \in Items : (claim[i] # 0) <=> (row[i] = "claimed")
  BY DEF TypeOK
<1>2. S \subseteq Items /\ \A i \in S : row[i] = "claimed"
  BY DEF Claimed
<1>3. row' \in [Items -> Rows]
  BY <1>1, <1>2 DEF TakeBack, Rows, Gone
<1>4. claim' \in [Items -> 0 .. MaxClaims]
  BY <1>1, Bounds DEF TakeBack
<1>5. \A i \in Items : (claim'[i] # 0) <=> (row'[i] = "claimed")
  BY <1>1, <1>2 DEF TakeBack
<1>6. KeepsRows
  BY <1>1, <1>2 DEF TakeBack, KeepsRows, Fresh
<1>. QED BY <1>1, <1>3, <1>4, <1>5, <1>6 DEF TakeBack

-----------------------------------------------------------------------------
(* The actions, one by one.                                                *)

\* enqueue.
LEMMA EnqueueKeeps ==
  ASSUME TypeOK, DeliveryInv, NEW i \in Items, Enqueue(i)
  PROVE  TypeOK' /\ DeliveryInv'
<1>1. row' \in [Items -> Rows] /\ waiter' \in [Items -> Waits]
  BY DEF Enqueue, TypeOK, Rows, Gone, Waits
<1>2. \A j \in Items : (claim'[j] # 0) <=> (row'[j] = "claimed")
  BY DEF Enqueue, TypeOK
<1>3. parked' \in Why /\ owed' \in BOOLEAN
  BY DEF Enqueue, Wake, TypeOK, Why
<1>4. KeepsRows /\ KeepsJobs /\ KeepsTurn
  BY DEF Enqueue, KeepsRows, KeepsJobs, KeepsTurn, TypeOK, Fresh, hist, books
<1>5. TypeOK'
  BY <1>1, <1>2, <1>3 DEF Enqueue, TypeOK, books, hist
<1>. QED BY <1>4, <1>5, KeepingKeeps

\* abort of a queued message.
LEMMA RequestCancellationKeeps ==
  ASSUME TypeOK, DeliveryInv, NEW i \in Items, RequestCancellation(i)
  PROVE  TypeOK' /\ DeliveryInv'
<1>1. waiter' \in [Items -> Waits]
  BY DEF RequestCancellation, TypeOK, Waits
<1>2. parked' \in Why /\ owed' \in BOOLEAN
  BY DEF RequestCancellation, Wake, TypeOK, Why
<1>3. trouble' \in 0 .. MaxTrouble
  <2>1. Counts
    BY DEF RequestCancellation, Goes, Counts
  <2>. QED BY <2>1, CountsType
<1>4. KeepsRows /\ KeepsJobs /\ KeepsTurn
  BY DEF RequestCancellation, KeepsRows, KeepsJobs, KeepsTurn, TypeOK, books
<1>5. TypeOK'
  BY <1>1, <1>2, <1>3 DEF RequestCancellation, TypeOK, books
<1>. QED BY <1>4, <1>5, KeepingKeeps

\* A claim's lease runs out.
LEMMA LeaseOutKeeps ==
  ASSUME TypeOK, DeliveryInv, NEW i \in Items, LeaseOut(i)
  PROVE  TypeOK' /\ DeliveryInv'
<1>1. trouble' \in 0 .. MaxTrouble
  <2>1. Counts
    BY DEF LeaseOut, Goes, Counts
  <2>. QED BY <2>1, CountsType
<1>2. KeepsRows /\ KeepsJobs /\ KeepsTurn
  BY DEF LeaseOut, KeepsRows, KeepsJobs, KeepsTurn, TypeOK, books, hist
<1>3. TypeOK'
  BY <1>1 DEF LeaseOut, TypeOK, books, hist, drainV
<1>. QED BY <1>2, <1>3, KeepingKeeps

\* Resume, Stop, DirectTurn and Abort.
LEMMA OutsideKeeps ==
  ASSUME TypeOK, DeliveryInv, Resume \/ Stop \/ DirectTurn \/ Abort
  PROVE  TypeOK' /\ DeliveryInv'
<1>1. CASE Resume
  <2>1. KeepsRows /\ KeepsJobs /\ KeepsTurn
    BY <1>1 DEF Resume, KeepsRows, KeepsJobs, KeepsTurn, TypeOK, rows, books, hist
  <2>2. TypeOK'
    BY <1>1 DEF Resume, TypeOK, rows, books, hist, drainV, Why
  <2>. QED BY <2>1, <2>2, KeepingKeeps
<1>2. CASE Stop
  <2>1. KeepsRows /\ KeepsJobs /\ KeepsTurn
    BY <1>2 DEF Stop, KeepsRows, KeepsJobs, KeepsTurn, TypeOK, rows, books, hist
  <2>2. trouble' \in 0 .. MaxTrouble
    <3>1. Counts
      BY <1>2 DEF Stop, Goes, Counts
    <3>. QED BY <3>1, CountsType
  <2>3. TypeOK'
    BY <1>2, <2>2 DEF Stop, TypeOK, rows, books, hist, drainV, Why
  <2>. QED BY <2>1, <2>3, KeepingKeeps
<1>3. CASE DirectTurn
  <2>1. turn' \in Turns /\ turn'.claim = 0 /\ turn'.phase = "host"
    BY <1>3, NoTurnType DEF DirectTurn, NoTurn, Turns
  <2>2. KeepsRows /\ KeepsJobs /\ KeepsTurn
    BY <1>3, <2>1 DEF DirectTurn, KeepsRows, KeepsJobs, KeepsTurn, TypeOK, rows, books, hist
  <2>3. direct' \in 0 .. MaxDirect
    BY <1>3, Bounds DEF DirectTurn, TypeOK
  <2>4. paused' \in BOOLEAN
    BY <1>3 DEF DirectTurn, TypeOK
  <2>5. TypeOK'
    BY <1>3, <2>1, <2>3, <2>4 DEF DirectTurn, TypeOK, rows, books, hist, drainV
  <2>. QED BY <2>2, <2>5, KeepingKeeps
<1>4. CASE Abort
  <2>1. turn' \in Turns /\ turn'.claim = turn.claim /\ turn'.item = turn.item
        /\ turn'.phase = turn.phase
    BY <1>4 DEF Abort, TypeOK, Turns
  <2>2. KeepsRows /\ KeepsJobs /\ KeepsTurn
    BY <1>4, <2>1 DEF Abort, KeepsRows, KeepsJobs, KeepsTurn, TypeOK, rows, books, hist
  <2>3. trouble' \in 0 .. MaxTrouble
    <3>1. Counts
      BY <1>4 DEF Abort, Goes, Counts
    <3>. QED BY <3>1, CountsType
  <2>4. TypeOK'
    BY <1>4, <2>1, <2>3 DEF Abort, TypeOK, rows, books, hist, drainV
  <2>. QED BY <2>2, <2>4, KeepingKeeps
<1>. QED BY <1>1, <1>2, <1>3, <1>4

\* startDrain.
LEMMA StartDrainKeeps ==
  ASSUME TypeOK, DeliveryInv, StartDrain
  PROVE  TypeOK' /\ DeliveryInv'
<1>1. NextStep \in Between /\ NextStep \in Places
  BY DEF NextStep, Between, Places
<1>2. at' \in [Deliverers -> Places]
  BY <1>1 DEF StartDrain, TypeOK
<1>3. KeepsJobs
  BY <1>1 DEF StartDrain, KeepsJobs, TypeOK, books, Between
<1>4. KeepsRows /\ KeepsTurn
  BY DEF StartDrain, KeepsRows, KeepsTurn, TypeOK, rows, hist
<1>5. TypeOK'
  BY <1>2 DEF StartDrain, TypeOK, rows, books, hist, Why
<1>. QED BY <1>3, <1>4, <1>5, KeepingKeeps

\* recoverBeforeNextClaim.
LEMMA RecoverBeforeClaimKeeps ==
  ASSUME TypeOK, DeliveryInv, RecoverBeforeClaim
  PROVE  TypeOK' /\ DeliveryInv'
<1>1. /\ row' \in [Items -> Rows] /\ claim' \in [Items -> 0 .. MaxClaims]
      /\ \A i \in Items : (claim'[i] # 0) <=> (row'[i] = "claimed")
      /\ attempt' = attempt /\ lapsed' \subseteq Items /\ KeepsRows
  <2>1. Claimed \cap lapsed \subseteq Claimed /\ TakeBack(Claimed \cap lapsed) /\ ran' = ran
    BY DEF RecoverBeforeClaim, hist
  <2>. QED BY <2>1, TakeBackKeeps
<1>2. at' \in [Deliverers -> Places]
  BY DEF RecoverBeforeClaim, TypeOK, Places
<1>3. KeepsJobs /\ KeepsTurn
  BY DEF RecoverBeforeClaim, KeepsJobs, KeepsTurn, TypeOK, books, Between
<1>4. TypeOK'
  BY <1>1, <1>2 DEF RecoverBeforeClaim, TypeOK, books, hist
<1>. QED BY <1>1, <1>3, <1>4, KeepingKeeps

\* recoverPending on the recovery timer.
LEMMA RecoverPendingKeeps ==
  ASSUME TypeOK, DeliveryInv, RecoverPending
  PROVE  TypeOK' /\ DeliveryInv'
<1>1. /\ row' \in [Items -> Rows] /\ claim' \in [Items -> 0 .. MaxClaims]
      /\ \A i \in Items : (claim'[i] # 0) <=> (row'[i] = "claimed")
      /\ attempt' = attempt /\ lapsed' \subseteq Items /\ KeepsRows
  <2>1. Claimed \cap lapsed \subseteq Claimed /\ TakeBack(Claimed \cap lapsed) /\ ran' = ran
    BY DEF RecoverPending, hist
  <2>. QED BY <2>1, TakeBackKeeps
<1>2. KeepsJobs /\ KeepsTurn
  BY DEF RecoverPending, KeepsJobs, KeepsTurn, TypeOK, books
<1>3. TypeOK'
  BY <1>1 DEF RecoverPending, TypeOK, books, hist, drainV, Why
<1>. QED BY <1>1, <1>2, <1>3, KeepingKeeps

\* A crash, and recovery in the next process.
LEMMA RestartKeeps ==
  ASSUME TypeOK, DeliveryInv, Restart
  PROVE  TypeOK' /\ DeliveryInv'
<1>1. /\ row' \in [Items -> Rows] /\ claim' \in [Items -> 0 .. MaxClaims]
      /\ \A i \in Items : (claim'[i] # 0) <=> (row'[i] = "claimed")
      /\ attempt' = attempt /\ lapsed' \subseteq Items /\ KeepsRows
  <2>1. TakeBack(Claimed) /\ ran' = ran
    BY DEF Restart
  <2>. QED BY <2>1, TakeBackKeeps
<1>2. /\ at' \in [Deliverers -> Places] /\ job' \in [Deliverers -> Jobs]
      /\ waiter' \in [Items -> Waits]
  BY NoJobType DEF Restart, Places, Waits
<1>3. KeepsJobs /\ KeepsTurn
  BY NoJobType, NoTurnType DEF Restart, KeepsJobs, KeepsTurn, books, Between
<1>4. trouble' \in 0 .. MaxTrouble
  <2>1. Counts
    BY DEF Restart, Goes, Counts
  <2>. QED BY <2>1, CountsType
<1>5. cut' \subseteq Claims
  <2>1. turn.phase \in {"fenced", "open", "doomed"} => turn.claim \in Claims
    BY Bounds DEF DeliveryInv, TypeOK, Turns, Claims
  <2>. QED BY <2>1 DEF Restart, TypeOK
<1>6. TypeOK'
  BY <1>1, <1>2, <1>4, <1>5, NoTurnType DEF Restart, TypeOK, books, Why
<1>. QED BY <1>1, <1>3, <1>6, KeepingKeeps

\* A pass that finds nothing to claim, or throws before it has claimed.
LEMMA DrainFindsNothingKeeps ==
  ASSUME TypeOK, DeliveryInv, DrainFindsNothing
  PROVE  TypeOK' /\ DeliveryInv'
<1>1. claims' = claims
  BY DEF DrainFindsNothing, books
<1>2. /\ at' \in [Deliverers -> Places] /\ job' \in [Deliverers -> Jobs] /\ KeepsJobs
      /\ owed' \in BOOLEAN /\ yielded' \subseteq Items /\ parked' \in Why
  <2>1. \E why \in Why : Ended("drain", FALSE, why)
    BY DEF DrainFindsNothing, Why
  <2>2. "drain" \in Deliverers /\ FALSE \in BOOLEAN
    BY DEF Deliverers
  <2>. QED BY <1>1, <2>1, <2>2, EndedMoves
<1>3. trouble' \in 0 .. MaxTrouble
  <2>1. Counts
    BY DEF DrainFindsNothing, Goes, Counts
  <2>. QED BY <2>1, CountsType
<1>4. KeepsRows /\ KeepsTurn
  BY DEF DrainFindsNothing, KeepsRows, KeepsTurn, TypeOK, rows, hist
<1>5. TypeOK'
  BY <1>2, <1>3 DEF DrainFindsNothing, TypeOK, rows, books, hist
<1>. QED BY <1>2, <1>4, <1>5, KeepingKeeps

\* claimNext makes a claim that no job and no turn has.
LEMMA ClaimKeeps ==
  ASSUME TypeOK, DeliveryInv, NEW d \in Deliverers, NEW i \in Waiting, Claim(d, i),
         at[d] \in Between
  PROVE  TypeOK' /\ DeliveryInv'
<1>1. /\ i \in Items /\ i # 0 /\ i \in 0 .. N /\ row[i] = "waiting"
      /\ claims + 1 \in 0 .. MaxClaims /\ claims \in Nat
  BY Bounds DEF Waiting, Items, Claim, TypeOK
<1>. DEFINE j == [NoJob EXCEPT !.item = i, !.claim = claims + 1, !.first = attempt[i] = 0]
<1>2. j \in Jobs /\ j.item = i /\ j.claim = claims + 1
  BY <1>1, NoJobType DEF Jobs, NoJob
<1>3. job' = [job EXCEPT ![d] = j] /\ at' = [at EXCEPT ![d] = "check"] /\ claims' = claims + 1
  BY DEF Claim
<1>. HIDE DEF j
<1>4. row' \in [Items -> Rows] /\ claim' \in [Items -> 0 .. MaxClaims]
  BY <1>1 DEF Claim, TypeOK, Rows
<1>5. \A k \in Items : (claim'[k] # 0) <=> (row'[k] = "claimed")
  BY <1>1 DEF Claim, TypeOK
<1>6. at' \in [Deliverers -> Places] /\ job' \in [Deliverers -> Jobs]
  BY <1>2, <1>3 DEF TypeOK, Places
<1>7. TypeOK'
  BY <1>1, <1>3, <1>4, <1>5, <1>6 DEF Claim, TypeOK, hist, drainV
<1>8. /\ turn' = turn /\ ran' = ran /\ turn.claim \in Nat /\ turn.item \in 0 .. N
      /\ \A e \in Deliverers : job[e].claim \in Nat /\ job[e].item \in 0 .. N
      /\ \A k \in Items : row[k] = "acked" => row'[k] = "acked"
      /\ \A k \in Items : row'[k] \in Fresh => row[k] \in Fresh
  BY <1>1, Bounds DEF Claim, TypeOK, hist, Turns, Jobs, Fresh
<1>9. job'[d] = j /\ at'[d] = "check"
      /\ \A e \in Deliverers \ {d} : job'[e] = job[e] /\ at'[e] = at[e]
  BY <1>3 DEF TypeOK
<1>10. /\ \A e \in Deliverers : job'[e].claim <= claims'
       /\ turn'.claim <= claims'
       /\ \A e, f \in Deliverers : job'[e].claim = job'[f].claim /\ job'[e].claim # 0 => e = f
  BY <1>1, <1>2, <1>3, <1>8, <1>9 DEF DeliveryInv
<1>11. /\ \A e \in Deliverers : at'[e] \notin Between => job'[e].claim # 0 /\ job'[e].item # 0
       /\ \A e \in Deliverers :
            turn'.claim = job'[e].claim /\ job'[e].claim # 0 => turn'.item = job'[e].item
  BY <1>1, <1>2, <1>8, <1>9 DEF DeliveryInv
<1>12. ASSUME NEW e \in Deliverers, at'[e] = "open"
       PROVE  /\ row'[job'[e].item] = "acked"
              /\ turn'.phase = "fenced" /\ turn'.claim = job'[e].claim => ran'[job'[e].item] = 0
  <2>1. at[e] = "open" /\ job'[e] = job[e] /\ job[e].item # 0
    BY <1>9, <1>12 DEF DeliveryInv, Between
  <2>2. job[e].item \in Items
    BY <2>1, <1>8, Bounds DEF Items
  <2>. QED BY <2>1, <2>2, <1>8 DEF DeliveryInv
<1>13. /\ turn'.phase \in {"fenced", "open", "doomed"} => turn'.claim # 0
       /\ turn'.phase = "open" =>
            turn'.item # 0 /\ row'[turn'.item] = "acked" /\ ran'[turn'.item] = 0
  <2>1. turn.item # 0 => turn.item \in Items
    BY <1>8, Bounds DEF Items
  <2>. QED BY <2>1, <1>8 DEF DeliveryInv
<1>14. /\ \A k \in Items : row'[k] \in Fresh => ran'[k] = 0
       /\ \A k \in Items : ran'[k] <= 1
  BY <1>8 DEF DeliveryInv
<1>15. DeliveryInv'
  BY <1>10, <1>11, <1>12, <1>13, <1>14 DEF DeliveryInv
<1>. QED BY <1>7, <1>15

\* ... for the drain and for an explicit Continue.
LEMMA ClaimsKeep ==
  ASSUME TypeOK, DeliveryInv, DrainClaims \/ ContinueClaims
  PROVE  TypeOK' /\ DeliveryInv'
<1>1. CASE DrainClaims
  <2>1. PICK i \in Waiting : Claim("drain", i)
    BY <1>1 DEF DrainClaims, Claimable
  <2>2. "drain" \in Deliverers /\ at["drain"] \in Between
    BY <1>1 DEF DrainClaims, Deliverers, Between
  <2>. QED BY <2>1, <2>2, ClaimKeeps
<1>2. CASE ContinueClaims
  <2>1. PICK i \in Waiting : Claim("continued", i)
    BY <1>2 DEF ContinueClaims
  <2>2. "continued" \in Deliverers /\ at["continued"] \in Between
    BY <1>2 DEF ContinueClaims, Deliverers, Between
  <2>. QED BY <2>1, <2>2, ClaimKeeps
<1>. QED BY <1>1, <1>2

\* prepareDelivery.
LEMMA PrepareKeeps ==
  ASSUME TypeOK, DeliveryInv, NEW d \in Deliverers, Prepare(d)
  PROVE  TypeOK' /\ DeliveryInv'
<1>1. at[d] \notin Between /\ claims' = claims
  BY DEF Prepare, Between, books
<1>2. trouble' \in 0 .. MaxTrouble
  <2>1. Counts
    BY DEF Prepare, Goes, Counts
  <2>. QED BY <2>1, CountsType
<1>3. at' \in [Deliverers -> Places] /\ job' \in [Deliverers -> Jobs] /\ KeepsJobs
  <2>1. CASE at' = [at EXCEPT ![d] = "admit"] /\ UNCHANGED job
    BY <1>1, <2>1, PlaceMoves DEF Places
  <2>2. CASE Leaves(d, "release", FALSE, "threw")
    BY <1>1, <2>2, LeavesMoves DEF Why
  <2>. QED BY <2>1, <2>2 DEF Prepare
<1>4. attempt' \in [Items -> 0 .. MaxClaims]
  BY DEF Prepare, TypeOK, Jobs
<1>5. KeepsRows /\ KeepsTurn
  BY DEF Prepare, KeepsRows, KeepsTurn, hist, TypeOK
<1>6. TypeOK'
  BY <1>2, <1>3, <1>4 DEF Prepare, TypeOK, books, hist, drainV
<1>. QED BY <1>3, <1>5, <1>6, KeepingKeeps

\* A delivery the admission rejects.
LEMMA RejectKeeps ==
  ASSUME TypeOK, DeliveryInv, NEW d \in Deliverers, Reject(d)
  PROVE  TypeOK' /\ DeliveryInv'
<1>1. at[d] \notin Between /\ claims' = claims
  BY DEF Reject, Between, books
<1>2. trouble' \in 0 .. MaxTrouble
  <2>1. Counts
    BY DEF Reject, Defers, Yields, Goes, Counts
  <2>. QED BY <2>1, CountsType
<1>3. yielded' \subseteq Items
  <2>1. job[d].item \in 0 .. N /\ job[d].item # 0
    BY <1>1 DEF TypeOK, Jobs, DeliveryInv
  <2>2. job[d].item \in Items
    BY <2>1, Bounds DEF Items
  <2>. QED BY <2>2 DEF Reject, Defers, TypeOK
<1>4. at' \in [Deliverers -> Places] /\ job' \in [Deliverers -> Jobs] /\ KeepsJobs
  <2>1. CASE Leaves(d, "reject", TRUE, "no")
    BY <1>1, <2>1, LeavesMoves DEF Why
  <2>2. CASE \E why \in Why : Leaves(d, "release", FALSE, why)
    BY <1>1, <2>2, LeavesMoves
  <2>3. CASE Settles(d, "cancel", TRUE, "no")
    BY <1>1, <2>3, SettlesMoves DEF Why
  <2>4. CASE \E again \in BOOLEAN, why \in Why : Leaves(d, "cancel", again, why)
    BY <1>1, <2>4, LeavesMoves
  <2>5. CASE Defers(d)
    BY <1>1, <2>5, SettlesMoves DEF Defers, Why
  <2>. QED BY <2>1, <2>2, <2>3, <2>4, <2>5 DEF Reject, Why
<1>5. KeepsRows /\ KeepsTurn
  BY DEF Reject, KeepsRows, KeepsTurn, rows, hist, TypeOK
<1>6. TypeOK'
  BY <1>2, <1>3, <1>4 DEF Reject, TypeOK, rows, books, hist
<1>. QED BY <1>4, <1>5, <1>6, KeepingKeeps

\* A start fence that fails dooms the turn.
LEMMA FailStartMoves ==
  ASSUME TypeOK, NEW d \in Deliverers, FailStart(d)
  PROVE  turn' \in Turns /\ KeepsTurn
<1>1. turn \in Turns
  BY DEF TypeOK
<1>2. CASE Mine(d) /\ turn.phase = "fenced"
  <2>1. turn' = [turn EXCEPT !.phase = "doomed"]
    BY <1>2 DEF FailStart
  <2>. QED BY <1>1, <1>2, <2>1 DEF KeepsTurn, Turns
<1>3. CASE ~(Mine(d) /\ turn.phase = "fenced")
  BY <1>1, <1>3 DEF FailStart, KeepsTurn
<1>. QED BY <1>2, <1>3

\* An acknowledgement that fails, once or twice.
LEMMA AcknowledgeFailsKeeps ==
  ASSUME TypeOK, DeliveryInv, NEW d \in Deliverers, AcknowledgeFails(d)
  PROVE  TypeOK' /\ DeliveryInv'
<1>1. at[d] \notin Between /\ claims' = claims
  BY DEF AcknowledgeFails, Between, books
<1>2. trouble' \in 0 .. MaxTrouble
  <2>1. Counts
    BY DEF AcknowledgeFails, Goes, Counts
  <2>. QED BY <2>1, CountsType
<1>3. at' \in [Deliverers -> Places] /\ job' \in [Deliverers -> Jobs] /\ KeepsJobs
  <2>1. CASE at' = [at EXCEPT ![d] = "retry"] /\ UNCHANGED job
    BY <1>1, <2>1, PlaceMoves DEF Places
  <2>2. CASE Leaves(d, "release", FALSE, "threw")
    BY <1>1, <2>2, LeavesMoves DEF Why
  <2>. QED BY <2>1, <2>2 DEF AcknowledgeFails
<1>4. turn' \in Turns /\ KeepsTurn
  <2>1. CASE UNCHANGED turn
    BY <2>1 DEF KeepsTurn, TypeOK
  <2>2. CASE FailStart(d)
    BY <2>2, FailStartMoves
  <2>. QED BY <2>1, <2>2 DEF AcknowledgeFails
<1>5. KeepsRows
  BY DEF AcknowledgeFails, KeepsRows, rows, hist, TypeOK
<1>6. recoverFirst' \in BOOLEAN
  BY DEF AcknowledgeFails, TypeOK
<1>7. TypeOK'
  BY <1>2, <1>3, <1>4, <1>6 DEF AcknowledgeFails, TypeOK, rows, books, hist
<1>. QED BY <1>3, <1>4, <1>5, <1>7, KeepingKeeps

\* A message that cannot be committed.
LEMMA CommitFailsKeeps ==
  ASSUME TypeOK, DeliveryInv, NEW d \in Deliverers, CommitFails(d)
  PROVE  TypeOK' /\ DeliveryInv'
<1>1. at[d] \notin Between /\ claims' = claims /\ Leaves(d, "release", FALSE, "threw")
  BY DEF CommitFails, Between, books
<1>2. trouble' \in 0 .. MaxTrouble
  <2>1. Counts
    BY DEF CommitFails, Goes, Counts
  <2>. QED BY <2>1, CountsType
<1>3. at' \in [Deliverers -> Places] /\ job' \in [Deliverers -> Jobs] /\ KeepsJobs
  BY <1>1, LeavesMoves DEF Why
<1>4. turn' \in Turns /\ KeepsTurn
  BY FailStartMoves DEF CommitFails
<1>5. KeepsRows
  BY DEF CommitFails, KeepsRows, rows, hist, TypeOK
<1>6. TypeOK'
  BY <1>2, <1>3, <1>4 DEF CommitFails, TypeOK, rows, books, hist, drainV
<1>. QED BY <1>3, <1>4, <1>5, <1>6, KeepingKeeps

\* release, reject and cancelClaim.
LEMMA SettleKeeps ==
  ASSUME TypeOK, DeliveryInv, NEW d \in Deliverers, Settle(d)
  PROVE  TypeOK' /\ DeliveryInv'
<1>1. /\ at[d] \notin Between /\ claims' = claims /\ job[d] \in Jobs
      /\ job[d].claim # 0 /\ job[d].item \in Items
  <2>1. at[d] \notin Between /\ claims' = claims
    BY DEF Settle, Between, books
  <2>2. job[d] \in Jobs /\ job[d].claim # 0 /\ job[d].item # 0
    BY <2>1 DEF TypeOK, DeliveryInv
  <2>. QED BY <2>1, <2>2, Bounds DEF Jobs, Items
<1>2. trouble' \in 0 .. MaxTrouble
  <2>1. Counts
    BY DEF Settle, Goes, Counts
  <2>. QED BY <2>1, CountsType
<1>3. /\ at' \in [Deliverers -> Places] /\ job' \in [Deliverers -> Jobs] /\ KeepsJobs
      /\ owed' \in BOOLEAN /\ yielded' \subseteq Items /\ parked' \in Why
  <2>1. \E again \in BOOLEAN, why \in Why : Ended(d, again, why)
    BY <1>1 DEF Settle, Jobs, Why
  <2>. QED BY <1>1, <2>1, EndedMoves
<1>4. /\ row' \in [Items -> Rows] /\ claim' \in [Items -> 0 .. MaxClaims]
      /\ waiter' \in [Items -> Waits] /\ lapsed' \subseteq Items /\ KeepsRows
      /\ \A i \in Items : (claim'[i] # 0) <=> (row'[i] = "claimed")
  <2>1. CASE UNCHANGED <<row, claim, lapsed, waiter>>
    BY <2>1 DEF Settle, TypeOK, KeepsRows, hist
  <2>2. CASE /\ Holds(d)
             /\ \E goes \in {"waiting", "rejected", "cancelled"} :
                  /\ row' = [row EXCEPT ![job[d].item] = goes]
                  /\ waiter' = [waiter EXCEPT ![job[d].item] =
                       IF goes # "waiting" /\ @ # "none" THEN "settled" ELSE @]
             /\ claim' = [claim EXCEPT ![job[d].item] = 0] /\ lapsed' = lapsed \ {job[d].item}
    <3>1. row[job[d].item] = "claimed"
      BY <1>1, <2>2 DEF Holds, TypeOK
    <3>2. row' \in [Items -> Rows] /\ claim' \in [Items -> 0 .. MaxClaims]
      BY <1>1, <2>2, Bounds DEF TypeOK, Rows, Gone
    <3>3. waiter' \in [Items -> Waits] /\ lapsed' \subseteq Items
      BY <1>1, <2>2 DEF TypeOK, Waits
    <3>4. \A i \in Items : (claim'[i] # 0) <=> (row'[i] = "claimed")
      BY <1>1, <2>2 DEF TypeOK
    <3>5. KeepsRows
      BY <1>1, <2>2, <3>1 DEF Settle, KeepsRows, TypeOK, hist, Fresh
    <3>. QED BY <3>2, <3>3, <3>4, <3>5
  <2>. QED BY <2>1, <2>2 DEF Settle
<1>5. KeepsTurn
  BY DEF Settle, KeepsTurn, TypeOK
<1>6. TypeOK'
  BY <1>2, <1>3, <1>4 DEF Settle, TypeOK, books, hist
<1>. QED BY <1>3, <1>4, <1>5, <1>6, KeepingKeeps

\* EndsBeforeHost and HostEnds.
\* settleAndRelease leaves the session without a turn.
LEMMA ReleasedMoves ==
  ASSUME TypeOK, NEW wakes \in BOOLEAN, NEW pauses \in BOOLEAN, Released(wakes, pauses), ran' = ran
  PROVE  /\ turn' = NoTurn /\ paused' \in BOOLEAN /\ owed' \in BOOLEAN /\ parked' \in Why
         /\ waiter' \in [Items -> Waits] /\ KeepsRows /\ KeepsJobs /\ KeepsTurn
<1>1. turn' = NoTurn /\ paused' \in BOOLEAN
  BY DEF Released, TypeOK
<1>2. owed' \in BOOLEAN /\ parked' \in Why
  BY DEF Released, Wake, TypeOK, Why
<1>3. waiter' \in [Items -> Waits]
  BY DEF Released, Answers, TypeOK, Waits
<1>4. KeepsRows /\ KeepsJobs /\ KeepsTurn
  BY <1>1, NoTurnType DEF Released, KeepsRows, KeepsJobs, KeepsTurn, TypeOK, books
<1>. QED BY <1>1, <1>2, <1>3, <1>4

\* A turn that never reaches the host.
LEMMA EndsBeforeHostKeeps ==
  ASSUME TypeOK, DeliveryInv, EndsBeforeHost
  PROVE  TypeOK' /\ DeliveryInv'
<1>1. PICK wakes \in BOOLEAN : Released(wakes, TRUE)
  BY DEF EndsBeforeHost
<1>2. ran' = ran
  BY <1>1 DEF Released
<1>3. /\ turn' = NoTurn /\ paused' \in BOOLEAN /\ owed' \in BOOLEAN /\ parked' \in Why
      /\ waiter' \in [Items -> Waits] /\ KeepsRows /\ KeepsJobs /\ KeepsTurn
  BY <1>1, <1>2, ReleasedMoves
<1>4. cut' \subseteq Claims
  <2>1. turn.phase \in {"doomed", "open"}
    BY DEF EndsBeforeHost
  <2>2. turn.claim \in Claims
    BY <2>1, Bounds DEF DeliveryInv, TypeOK, Turns, Claims
  <2>. QED BY <2>2 DEF EndsBeforeHost, TypeOK
<1>5. TypeOK'
  BY <1>1, <1>3, <1>4, NoTurnType DEF EndsBeforeHost, Released, Well, TypeOK, books
<1>. QED BY <1>3, <1>5, KeepingKeeps

\* The end of a turn in the host.
LEMMA HostEndsKeeps ==
  ASSUME TypeOK, DeliveryInv, HostEnds
  PROVE  TypeOK' /\ DeliveryInv'
<1>1. PICK wakes \in BOOLEAN, pauses \in BOOLEAN : Released(wakes, pauses)
  BY DEF HostEnds
<1>2. ran' = ran
  BY <1>1 DEF Released
<1>3. /\ turn' = NoTurn /\ paused' \in BOOLEAN /\ owed' \in BOOLEAN /\ parked' \in Why
      /\ waiter' \in [Items -> Waits] /\ KeepsRows /\ KeepsJobs /\ KeepsTurn
  BY <1>1, <1>2, ReleasedMoves
<1>4. trouble' \in 0 .. MaxTrouble
  <2>1. Counts
    BY DEF HostEnds, Goes, Counts
  <2>. QED BY <2>1, CountsType
<1>5. TypeOK'
  BY <1>1, <1>3, <1>4, NoTurnType DEF HostEnds, Released, TypeOK, books
<1>. QED BY <1>3, <1>5, KeepingKeeps

-----------------------------------------------------------------------------
(* Acceptance, acknowledgement, the start fence and the host.              *)

\* The accepted turn is the delivery's own, by claim and by item.
LEMMA AcceptKeeps ==
  ASSUME TypeOK, DeliveryInv, NEW d \in Deliverers, Accept(d)
  PROVE  TypeOK' /\ DeliveryInv'
<1>1. /\ at[d] = "admit" /\ at[d] \notin Between /\ claims' = claims /\ job' = job
      /\ row' = row /\ ran' = ran /\ at' = [at EXCEPT ![d] = "ack"] /\ turn = NoTurn
  BY DEF Accept, Between, hist
<1>2. /\ job[d] \in Jobs /\ job[d].claim # 0 /\ job[d].item # 0
      /\ job[d].claim \in Claims /\ job[d].item \in Items /\ claims \in Nat
  <2>1. job[d] \in Jobs /\ job[d].claim # 0 /\ job[d].item # 0
    BY <1>1 DEF TypeOK, DeliveryInv
  <2>. QED BY <2>1, Bounds DEF Jobs, Items, Claims, TypeOK
<1>3. PICK phase \in {"fenced", "doomed"}, aborted \in BOOLEAN :
        turn' = [item |-> job[d].item, claim |-> job[d].claim, phase |-> phase, aborted |-> aborted]
  <2>1. Inherits(d) \in BOOLEAN
    BY DEF Inherits, CancelRequested
  <2>. QED BY <2>1 DEF Accept, StartPhase
<1>4. turn' \in Turns /\ turn'.claim = job[d].claim /\ turn'.item = job[d].item
      /\ turn'.phase \in {"fenced", "doomed"}
  BY <1>2, <1>3 DEF Turns, Jobs
<1>5. trouble' \in 0 .. MaxTrouble
  <2>1. Counts
    BY DEF Accept, Goes, Counts
  <2>. QED BY <2>1, CountsType
<1>6. accepted' \subseteq Claims /\ requests' \subseteq Requests
  BY <1>2, ReqAssumption DEF Accept, TypeOK
<1>7. waiter' \in [Items -> Waits] /\ paused' \in BOOLEAN /\ at' \in [Deliverers -> Places]
  BY <1>1 DEF Accept, TypeOK, Waits, Places
<1>8. TypeOK'
  BY <1>1, <1>4, <1>5, <1>6, <1>7 DEF Accept, TypeOK, hist, drainV
<1>9. /\ \A e \in Deliverers : at'[e] \in {"open"} => at[e] = "open" /\ e # d
      /\ \A e \in Deliverers : at'[e] \notin Between => at[e] \notin Between
  BY <1>1 DEF TypeOK
<1>10. \A e \in Deliverers : turn'.claim = job'[e].claim => e = d
  BY <1>1, <1>2, <1>4 DEF DeliveryInv
<1>11. DeliveryInv'
  BY <1>1, <1>2, <1>4, <1>9, <1>10 DEF DeliveryInv
<1>. QED BY <1>8, <1>11

\* The row is deleted under the delivery's claim, so its item has not run.
LEMMA AcknowledgeKeeps ==
  ASSUME TypeOK, DeliveryInv, NEW d \in Deliverers, Acknowledge(d)
  PROVE  TypeOK' /\ DeliveryInv'
<1>1. /\ at[d] \notin Between /\ claims' = claims /\ job' = job /\ turn' = turn /\ ran' = ran
      /\ row' = [row EXCEPT ![job[d].item] = "acked"] /\ at' = [at EXCEPT ![d] = "open"]
      /\ Holds(d)
  BY DEF Acknowledge, Acknowledgeable, Between, hist, books
<1>2. job[d].claim # 0 /\ job[d].item \in Items
  <2>1. job[d] \in Jobs /\ job[d].claim # 0 /\ job[d].item # 0
    BY <1>1 DEF TypeOK, DeliveryInv
  <2>. QED BY <2>1, Bounds DEF Jobs, Items
<1>3. row[job[d].item] = "claimed" /\ ran[job[d].item] = 0
  BY <1>1, <1>2 DEF Holds, TypeOK, DeliveryInv, Fresh
<1>4. row' \in [Items -> Rows] /\ at' \in [Deliverers -> Places]
  BY <1>1 DEF TypeOK, Rows, Gone, Places
<1>5. claim' \in [Items -> 0 .. MaxClaims] /\ lapsed' \subseteq Items
      /\ \A i \in Items : (claim'[i] # 0) <=> (row'[i] = "claimed")
  BY <1>1, <1>2, Bounds DEF Acknowledge, TypeOK
<1>6. TypeOK'
  BY <1>1, <1>4, <1>5 DEF Acknowledge, TypeOK, books, hist, drainV
<1>7. /\ \A i \in Items : row[i] = "acked" => row'[i] = "acked"
      /\ \A i \in Items : row'[i] \in Fresh => row[i] \in Fresh
      /\ row'[job[d].item] = "acked"
  BY <1>1, <1>2, <1>3 DEF TypeOK, Fresh
<1>8. \A e \in Deliverers \ {d} : at'[e] = at[e]
  BY <1>1 DEF TypeOK
<1>9. ASSUME NEW e \in Deliverers, at'[e] = "open"
      PROVE  /\ row'[job'[e].item] = "acked"
             /\ turn'.phase = "fenced" /\ turn'.claim = job'[e].claim => ran'[job'[e].item] = 0
  <2>1. CASE e = d
    BY <1>1, <1>3, <1>7, <2>1
  <2>2. CASE e # d
    <3>1. at[e] = "open"
      BY <1>8, <1>9, <2>2
    <3>2. job[e] \in Jobs /\ job[e].item # 0
      BY <3>1 DEF TypeOK, DeliveryInv, Between
    <3>3. job[e].item \in Items
      BY <3>2, Bounds DEF Jobs, Items
    <3>. QED BY <1>1, <1>7, <3>1, <3>3 DEF DeliveryInv
  <2>. QED BY <2>1, <2>2
<1>10. turn.item # 0 => turn.item \in Items
  BY Bounds DEF TypeOK, Turns, Items
<1>11. \A e \in Deliverers : at'[e] \notin Between => job'[e].claim # 0 /\ job'[e].item # 0
  BY <1>1, <1>8 DEF DeliveryInv
<1>12. DeliveryInv'
  BY <1>1, <1>7, <1>9, <1>10, <1>11 DEF DeliveryInv
<1>. QED BY <1>6, <1>12

\* The turn that is opened is the acknowledged one.
LEMMA OpenStartKeeps ==
  ASSUME TypeOK, DeliveryInv, NEW d \in Deliverers, OpenStart(d)
  PROVE  TypeOK' /\ DeliveryInv'
<1>1. /\ at[d] = "open" /\ claims' = claims /\ row' = row /\ ran' = ran
      /\ turn \in Turns /\ job[d] \in Jobs /\ job[d].claim # 0
  BY DEF OpenStart, books, rows, hist, TypeOK, DeliveryInv, Between
<1>2. /\ at' \in [Deliverers -> Places] /\ job' \in [Deliverers -> Jobs] /\ KeepsJobs
      /\ owed' \in BOOLEAN /\ yielded' \subseteq Items /\ parked' \in Why
  <2>1. Ended(d, FALSE, "no") /\ "no" \in Why
    BY DEF OpenStart, Why
  <2>. QED BY <1>1, <2>1, EndedMoves
<1>3. KeepsRows
  BY <1>1 DEF KeepsRows
<1>4. CASE Mine(d) /\ turn.phase = "fenced"
  <2>1. turn' = [turn EXCEPT !.phase = "open"]
    BY <1>4 DEF OpenStart
  <2>2. /\ turn' \in Turns /\ turn'.claim = turn.claim /\ turn'.item = turn.item
        /\ turn'.phase = "open"
    BY <1>1, <2>1 DEF Turns
  <2>3. TypeOK'
    BY <1>2, <2>2 DEF OpenStart, TypeOK, rows, books, hist
  <2>4. turn.claim = job[d].claim /\ turn.item = job[d].item
    BY <1>1, <1>4 DEF Mine, DeliveryInv
  <2>5. turn.item # 0 /\ row[turn.item] = "acked" /\ ran[turn.item] = 0
    BY <1>1, <1>4, <2>4 DEF DeliveryInv, Between
  <2>. DEFINE Rest ==
         /\ \A e \in Deliverers : job'[e].claim <= claims'
         /\ turn'.claim <= claims'
         /\ \A e, f \in Deliverers : job'[e].claim = job'[f].claim /\ job'[e].claim # 0 => e = f
         /\ \A e \in Deliverers : at'[e] \notin Between => job'[e].claim # 0 /\ job'[e].item # 0
         /\ \A e \in Deliverers :
              turn'.claim = job'[e].claim /\ job'[e].claim # 0 => turn'.item = job'[e].item
         /\ \A e \in Deliverers : at'[e] = "open" => row'[job'[e].item] = "acked"
  <2>6. Rest
    <3>1. claims \in Nat /\ turn'.claim = turn.claim /\ turn'.item = turn.item
      BY <2>2 DEF TypeOK
    <3>2. /\ \A e \in Deliverers : job'[e].claim <= claims'
          /\ turn'.claim <= claims'
      BY <1>1, <1>2, <3>1 DEF KeepsJobs, DeliveryInv
    <3>3. \A e, f \in Deliverers : job'[e].claim = job'[f].claim /\ job'[e].claim # 0 => e = f
      BY <1>2 DEF KeepsJobs, DeliveryInv
    <3>4. /\ \A e \in Deliverers : at'[e] \notin Between => job'[e].claim # 0 /\ job'[e].item # 0
          /\ \A e \in Deliverers :
               turn'.claim = job'[e].claim /\ job'[e].claim # 0 => turn'.item = job'[e].item
      BY <1>2, <3>1 DEF KeepsJobs, DeliveryInv
    <3>5. \A e \in Deliverers : at'[e] = "open" => row'[job'[e].item] = "acked"
      BY <1>1, <1>2 DEF KeepsJobs, DeliveryInv, Between
    <3>. QED BY <3>2, <3>3, <3>4, <3>5
  <2>7. DeliveryInv'
    BY <1>1, <2>2, <2>4, <2>5, <2>6 DEF DeliveryInv
  <2>. QED BY <2>3, <2>7
<1>5. CASE ~(Mine(d) /\ turn.phase = "fenced")
  <2>1. turn' = turn
    BY <1>5 DEF OpenStart
  <2>2. KeepsTurn
    BY <2>1 DEF KeepsTurn
  <2>3. TypeOK'
    BY <1>2, <2>1 DEF OpenStart, TypeOK, rows, books, hist
  <2>. QED BY <1>2, <1>3, <2>2, <2>3, KeepingKeeps
<1>. QED BY <1>4, <1>5

\* The host starts once for a row that is gone.
LEMMA HostStartsKeeps ==
  ASSUME TypeOK, DeliveryInv, HostStarts
  PROVE  TypeOK' /\ DeliveryInv'
<1>1. /\ turn.phase = "open" /\ turn' = [turn EXCEPT !.phase = "host"]
      /\ ran' = [ran EXCEPT ![turn.item] = @ + 1]
      /\ row' = row /\ at' = at /\ job' = job /\ claims' = claims
  BY DEF HostStarts, rows, books
<1>2. /\ turn.item \in Items /\ row[turn.item] = "acked" /\ ran[turn.item] = 0
      /\ turn' \in Turns /\ turn'.claim = turn.claim /\ turn'.item = turn.item
      /\ turn'.phase = "host"
  <2>1. turn \in Turns /\ turn.item # 0
    BY <1>1 DEF TypeOK, DeliveryInv
  <2>. QED BY <1>1, <2>1, Bounds DEF Turns, Items, DeliveryInv
<1>3. ran' \in [Items -> Nat] /\ ran'[turn.item] = 1
      /\ \A i \in Items \ {turn.item} : ran'[i] = ran[i]
  BY <1>1, <1>2 DEF TypeOK
<1>4. TypeOK'
  BY <1>2, <1>3 DEF HostStarts, TypeOK, rows, books, drainV
<1>5. /\ \A i \in Items : row'[i] \in Fresh => ran'[i] = 0
      /\ \A i \in Items : ran'[i] <= 1
  <2>1. "acked" \notin Fresh
    BY DEF Fresh
  <2>. QED BY <1>1, <1>2, <1>3, <2>1 DEF DeliveryInv
<1>6. DeliveryInv'
  BY <1>1, <1>2, <1>5 DEF DeliveryInv
<1>. QED BY <1>4, <1>6

\* The invariant is inductive.
LEMMA NextKeeps == TypeOK /\ DeliveryInv /\ [Next]_vars => TypeOK' /\ DeliveryInv'
<1>. SUFFICES ASSUME TypeOK, DeliveryInv, [Next]_vars
              PROVE  TypeOK' /\ DeliveryInv'
  OBVIOUS
<1>1. ASSUME NEW i \in Items, Enqueue(i) \/ RequestCancellation(i) \/ LeaseOut(i)
      PROVE  TypeOK' /\ DeliveryInv'
  BY <1>1, EnqueueKeeps, RequestCancellationKeeps, LeaseOutKeeps
<1>2. CASE Resume \/ Stop \/ DirectTurn \/ Abort
  BY <1>2, OutsideKeeps
<1>3. CASE Drain \/ ContinueClaims
  BY <1>3, StartDrainKeeps, RecoverBeforeClaimKeeps, ClaimsKeep, DrainFindsNothingKeeps DEF Drain
<1>4. ASSUME NEW d \in Deliverers, Deliver(d)
      PROVE  TypeOK' /\ DeliveryInv'
  BY <1>4, CheckKeeps, PrepareKeeps, AcceptKeeps, RejectKeeps, AcknowledgeKeeps,
     AcknowledgeFailsKeeps, CommitFailsKeeps, OpenStartKeeps, SettleKeeps DEF Deliver
<1>5. CASE TurnEnds
  BY <1>5, HostStartsKeeps, EndsBeforeHostKeeps, HostEndsKeeps DEF TurnEnds
<1>6. CASE RecoverPending \/ Restart
  BY <1>6, RecoverPendingKeeps, RestartKeeps
<1>7. CASE UNCHANGED vars
  BY <1>7 DEF vars, TypeOK, DeliveryInv
<1>. QED BY <1>1, <1>2, <1>3, <1>4, <1>5, <1>6, <1>7 DEF Next

-----------------------------------------------------------------------------
(* What becomes of an accepted message.  A row is acknowledged while its   *)
(* claim's turn has not reached the host, so the message is still on its   *)
(* way, has run, or was cut off.  Recovery never takes a row for a         *)
(* delivered one: as long as its claim stands, the claim is its attempt.   *)

Deciding   == {"admit", "ack", "retry"}      \* the attempt is noted, the row not acknowledged

\* The attempt on a row and the claim that holds it.
AttemptInv ==
  /\ \A c \in accepted : c <= claims
  /\ \A i \in Items : claim[i] <= claims
  /\ \A i \in Items, d \in Deliverers :
       claim[i] = job[d].claim /\ job[d].claim # 0 => i = job[d].item
  /\ \A i \in Items : claim[i] \in accepted => attempt[i] = claim[i]
  /\ \A d \in Deliverers : at[d] \in Deciding /\ Holds(d) => attempt[job[d].item] = job[d].claim

\* The turn of a claim, and the rows that are gone.
TraceInv ==
  /\ \A d \in Deliverers : at[d] \in {"ack", "retry"} =>
       \/ turn.claim = job[d].claim /\ turn.phase \in {"fenced", "doomed"}
       \/ job[d].claim \in cut
  /\ \A i \in Items : row[i] # "recovered"
  /\ \A i \in Items : row[i] = "acked" => ran[i] = 1 \/ OnItsWay(i) \/ attempt[i] \in cut

AckInv == AttemptInv /\ TraceInv

\* Steps that make no claim, note no attempt, accept and acknowledge nothing.
KeepsNotes ==
  /\ accepted' = accepted /\ claims' = claims /\ attempt' = attempt /\ ran' = ran
  /\ cut \subseteq cut'
  /\ \A i \in Items : /\ claim'[i] \in {0, claim[i]}
                      /\ row'[i] = "acked" => row[i] = "acked"
                      /\ row'[i] # "recovered"

KeepsPlaces ==
  \A d \in Deliverers :
    \/ /\ job'[d].claim = job[d].claim /\ job'[d].item = job[d].item
       /\ at'[d] \in Deciding => at[d] \in Deciding
       /\ at'[d] \in {"ack", "retry"} => at[d] \in {"ack", "retry"}
    \/ job'[d].claim = 0 /\ at'[d] \in Between

KeepsWay ==
  \/ /\ turn'.claim = turn.claim /\ turn'.item = turn.item
     /\ turn.phase \in {"fenced", "doomed"} => turn'.phase \in {"fenced", "doomed"}
     /\ turn.phase \in BeforeHost => turn'.phase \in BeforeHost
  \/ turn.phase \notin BeforeHost
  \/ turn.claim \in cut'

\* Such a step keeps the invariant.
LEMMA NotesKeep ==
  ASSUME TypeOK, DeliveryInv, AckInv, KeepsNotes, KeepsPlaces, KeepsWay
  PROVE  AckInv'
<1>1. /\ claims \in Nat /\ 0 \notin accepted
      /\ \A d \in Deliverers : at[d] \in Deciding => job[d].item \in Items /\ job[d].claim # 0
  <2>1. 0 \notin Claims /\ claims \in Nat /\ accepted \subseteq Claims
    BY Bounds DEF TypeOK, Claims
  <2>2. ASSUME NEW d \in Deliverers, at[d] \in Deciding
        PROVE  job[d].item \in Items /\ job[d].claim # 0
    <3>1. job[d] \in Jobs /\ job[d].claim # 0 /\ job[d].item # 0
      BY <2>2 DEF TypeOK, DeliveryInv, Between, Deciding
    <3>. QED BY <3>1, Bounds DEF Jobs, Items
  <2>. QED BY <2>1, <2>2
<1>2. /\ \A c \in accepted' : c <= claims'
      /\ \A i \in Items : claim'[i] <= claims'
      /\ \A i \in Items : claim'[i] \in accepted' => attempt'[i] = claim'[i]
  BY <1>1 DEF AckInv, AttemptInv, KeepsNotes
<1>3. \A i \in Items, d \in Deliverers :
        claim'[i] = job'[d].claim /\ job'[d].claim # 0 => i = job'[d].item
  BY DEF AckInv, AttemptInv, KeepsNotes, KeepsPlaces
<1>4. ASSUME NEW d \in Deliverers, at'[d] \in Deciding, claim'[job'[d].item] = job'[d].claim
      PROVE  attempt'[job'[d].item] = job'[d].claim
  <2>1. /\ at[d] \in Deciding /\ job'[d].claim = job[d].claim /\ job'[d].item = job[d].item
    BY <1>4 DEF KeepsPlaces, Between, Deciding
  <2>2. claim[job[d].item] = job[d].claim
    BY <1>1, <1>4, <2>1 DEF KeepsNotes
  <2>. QED BY <2>1, <2>2 DEF AckInv, AttemptInv, Holds, KeepsNotes
<1>5. AttemptInv'
  BY <1>2, <1>3, <1>4 DEF AttemptInv, Holds
<1>6. ASSUME NEW d \in Deliverers, at'[d] \in {"ack", "retry"}
      PROVE  \/ turn'.claim = job'[d].claim /\ turn'.phase \in {"fenced", "doomed"}
             \/ job'[d].claim \in cut'
  <2>1. at[d] \in {"ack", "retry"} /\ job'[d].claim = job[d].claim
    BY <1>6 DEF KeepsPlaces, Between
  <2>. QED BY <2>1 DEF AckInv, TraceInv, KeepsWay, KeepsNotes, BeforeHost
<1>7. ASSUME NEW i \in Items, row'[i] = "acked"
      PROVE  ran'[i] = 1 \/ OnItsWay(i)' \/ attempt'[i] \in cut'
  <2>1. ran[i] = 1 \/ OnItsWay(i) \/ attempt[i] \in cut
    BY <1>7 DEF KeepsNotes, AckInv, TraceInv
  <2>. QED BY <2>1 DEF KeepsNotes, KeepsWay, OnItsWay
<1>8. TraceInv'
  BY <1>6, <1>7 DEF TraceInv, KeepsNotes
<1>. QED BY <1>5, <1>8 DEF AckInv

\* A delivery that decides what becomes of its row notes nothing any more.
LEMMA LeavesNotes ==
  ASSUME TypeOK, NEW d \in Deliverers, NEW how, NEW again, NEW why,
         Leaves(d, how, again, why) \/ Settles(d, how, again, why)
  PROVE  KeepsPlaces
<1>1. PICK how2, again2, why2 : Settles(d, how2, again2, why2)
  BY DEF Leaves
<1>2. job[d] \in Jobs /\ job \in [Deliverers -> Jobs] /\ at \in [Deliverers -> Places]
  BY DEF TypeOK
<1>3. \A e \in Deliverers : job'[e].claim = job[e].claim /\ job'[e].item = job[e].item
  BY <1>1, <1>2 DEF Settles, Jobs
<1>4. \A e \in Deliverers : at'[e] = at[e] \/ at'[e] = "settle"
  BY <1>1, <1>2 DEF Settles
<1>. QED BY <1>3, <1>4 DEF KeepsPlaces, Deciding

\* Nor does one that is over.
LEMMA EndedNotes ==
  ASSUME TypeOK, NEW d \in Deliverers, NEW again, NEW why, Ended(d, again, why)
  PROVE  KeepsPlaces
<1>1. job \in [Deliverers -> Jobs] /\ at \in [Deliverers -> Places]
  BY DEF TypeOK
<1>2. NextStep \in Between /\ "idle" \in Between
  BY DEF NextStep, Between
<1>3. job'[d].claim = 0 /\ at'[d] \in Between
  BY <1>1, <1>2, NoJobType DEF Ended
<1>4. \A e \in Deliverers \ {d} : job'[e] = job[e] /\ at'[e] = at[e]
  BY <1>1 DEF Ended
<1>. QED BY <1>3, <1>4 DEF KeepsPlaces

\* recoverClaims finds no claim that was delivered and still stands.
LEMMA TakeBackNotes ==
  ASSUME TypeOK, AckInv, NEW S, S \subseteq Claimed, TakeBack(S),
         accepted' = accepted, claims' = claims, ran' = ran, cut \subseteq cut'
  PROVE  KeepsNotes
<1>1. \A i \in Items : ~Delivered(i)
  BY DEF AckInv, AttemptInv, Delivered
<1>2. ASSUME NEW i \in Items
      PROVE  /\ claim'[i] \in {0, claim[i]}
             /\ row'[i] = "acked" => row[i] = "acked"
             /\ row'[i] # "recovered"
  BY <1>1, <1>2 DEF TakeBack, AckInv, TraceInv
<1>. QED BY <1>2 DEF KeepsNotes, TakeBack

\* A start fence that fails leaves its turn before the host.
LEMMA FailStartNotes ==
  ASSUME TypeOK, NEW d \in Deliverers, FailStart(d) \/ turn' = turn
  PROVE  KeepsWay
<1>1. turn \in Turns
  BY DEF TypeOK
<1>2. CASE Mine(d) /\ turn.phase = "fenced" /\ FailStart(d)
  <2>1. turn' = [turn EXCEPT !.phase = "doomed"]
    BY <1>2 DEF FailStart
  <2>. QED BY <1>1, <1>2, <2>1 DEF KeepsWay, Turns, BeforeHost
<1>3. CASE turn' = turn
  BY <1>3 DEF KeepsWay
<1>. QED BY <1>2, <1>3 DEF FailStart

\* The steps outside the deliveries.
LEMMA OutsideNotes ==
  ASSUME TypeOK, DeliveryInv, AckInv,
         \/ \E i \in Items : Enqueue(i) \/ RequestCancellation(i) \/ LeaseOut(i)
         \/ Resume \/ Stop \/ DirectTurn \/ Abort \/ StartDrain \/ DrainFindsNothing
  PROVE  AckInv'
<1>1. KeepsNotes
  <2>1. ASSUME NEW i \in Items, Enqueue(i)
        PROVE  KeepsNotes
    BY <2>1 DEF Enqueue, KeepsNotes, TypeOK, AckInv, TraceInv, books, hist
  <2>2. CASE UNCHANGED <<row, claim, attempt, claims, accepted, ran, cut>>
    BY <2>2 DEF KeepsNotes, AckInv, TraceInv
  <2>3. ASSUME ~(\E i \in Items : Enqueue(i))
        PROVE  UNCHANGED <<row, claim, attempt, claims, accepted, ran, cut>>
    BY <2>3 DEF RequestCancellation, LeaseOut, Resume, Stop, DirectTurn, Abort, StartDrain,
       DrainFindsNothing, rows, books, hist
  <2>. QED BY <2>1, <2>2, <2>3
<1>2. KeepsPlaces
  <2>1. CASE StartDrain
    <3>1. NextStep \in Between
      BY DEF NextStep, Between
    <3>. QED BY <2>1, <3>1 DEF StartDrain, KeepsPlaces, TypeOK, Between, Deciding
  <2>2. CASE DrainFindsNothing
    <3>1. PICK why : Ended("drain", FALSE, why)
      BY <2>2 DEF DrainFindsNothing
    <3>. QED BY <3>1, EndedNotes DEF Deliverers
  <2>3. CASE UNCHANGED <<at, job>>
    BY <2>3 DEF KeepsPlaces
  <2>. QED BY <2>1, <2>2, <2>3 DEF Enqueue, RequestCancellation, LeaseOut, Resume, Stop,
              DirectTurn, Abort
<1>3. KeepsWay
  <2>1. CASE DirectTurn
    BY <2>1, NoTurnType DEF DirectTurn, KeepsWay, BeforeHost
  <2>2. CASE Abort
    BY <2>2 DEF Abort, KeepsWay, TypeOK, Turns
  <2>3. CASE turn' = turn
    BY <2>3 DEF KeepsWay
  <2>. QED BY <2>1, <2>2, <2>3 DEF Enqueue, RequestCancellation, LeaseOut, Resume, Stop,
              StartDrain, DrainFindsNothing
<1>. QED BY <1>1, <1>2, <1>3, NotesKeep

\* The steps that take claims back.
LEMMA RecoveryNotes ==
  ASSUME TypeOK, DeliveryInv, AckInv, RecoverBeforeClaim \/ RecoverPending \/ Restart
  PROVE  AckInv'
<1>1. KeepsNotes
  <2>1. PICK S : S \subseteq Claimed /\ TakeBack(S)
    BY DEF RecoverBeforeClaim, RecoverPending, Restart
  <2>2. accepted' = accepted /\ claims' = claims /\ ran' = ran /\ cut \subseteq cut'
    BY DEF RecoverBeforeClaim, RecoverPending, Restart, books, hist
  <2>. QED BY <2>1, <2>2, TakeBackNotes
<1>2. KeepsPlaces
  <2>1. CASE RecoverBeforeClaim
    BY <2>1 DEF RecoverBeforeClaim, KeepsPlaces, TypeOK, Deciding
  <2>2. CASE RecoverPending
    BY <2>2 DEF RecoverPending, KeepsPlaces
  <2>3. CASE Restart
    BY <2>3, NoJobType DEF Restart, KeepsPlaces, Between
  <2>. QED BY <2>1, <2>2, <2>3
<1>3. KeepsWay
  BY DEF RecoverBeforeClaim, RecoverPending, Restart, KeepsWay, BeforeHost
<1>. QED BY <1>1, <1>2, <1>3, NotesKeep

\* The steps of a delivery that neither note, nor accept, nor acknowledge, nor
\* open the start fence.
LEMMA DeliveryNotes ==
  ASSUME TypeOK, DeliveryInv, AckInv, NEW d \in Deliverers,
         Check(d) \/ Reject(d) \/ AcknowledgeFails(d) \/ CommitFails(d) \/ Settle(d)
  PROVE  AckInv'
<1>1. KeepsNotes
  <2>1. CASE Settle(d)
    <3>1. /\ accepted' = accepted /\ claims' = claims /\ attempt' = attempt /\ ran' = ran
          /\ cut' = cut
      BY <2>1 DEF Settle, books, hist
    <3>2. \A i \in Items : /\ claim'[i] \in {0, claim[i]}
                           /\ row'[i] = "acked" => row[i] = "acked"
                           /\ row'[i] # "recovered"
      BY <2>1 DEF Settle, TypeOK, AckInv, TraceInv
    <3>. QED BY <3>1, <3>2 DEF KeepsNotes
  <2>2. CASE ~Settle(d)
    BY <2>2 DEF Check, Reject, AcknowledgeFails, CommitFails, KeepsNotes, rows, books, hist,
       AckInv, TraceInv
  <2>. QED BY <2>1, <2>2
<1>2. KeepsPlaces
  <2>1. CASE \E how, again, why : Leaves(d, how, again, why) \/ Settles(d, how, again, why)
    BY <2>1, LeavesNotes
  <2>2. CASE \E again, why : Ended(d, again, why)
    BY <2>2, EndedNotes
  <2>3. CASE /\ job' = job
             /\ \/ at' = [at EXCEPT ![d] = "prepare"]
                \/ at[d] = "ack" /\ at' = [at EXCEPT ![d] = "retry"]
    BY <2>3 DEF KeepsPlaces, TypeOK, Deciding
  <2>. QED BY <2>1, <2>2, <2>3 DEF Check, Reject, AcknowledgeFails, CommitFails, Settle, Defers
<1>3. KeepsWay
  <2>1. FailStart(d) \/ turn' = turn
    BY DEF Check, Reject, AcknowledgeFails, CommitFails, Settle
  <2>. QED BY <2>1, FailStartNotes
<1>. QED BY <1>1, <1>2, <1>3, NotesKeep

\* The steps of a turn that end it: what was cut off is recorded.
LEMMA TurnEndsNotes ==
  ASSUME TypeOK, DeliveryInv, AckInv, EndsBeforeHost \/ HostEnds
  PROVE  AckInv'
<1>1. PICK wakes, pauses : Released(wakes, pauses)
  BY DEF EndsBeforeHost, HostEnds
<1>2. cut \subseteq cut'
  BY DEF EndsBeforeHost, HostEnds
<1>3. KeepsNotes
  BY <1>1, <1>2 DEF Released, KeepsNotes, books, AckInv, TraceInv
<1>4. KeepsPlaces
  BY <1>1 DEF Released, KeepsPlaces
<1>5. KeepsWay
  BY DEF EndsBeforeHost, HostEnds, KeepsWay, BeforeHost
<1>. QED BY <1>3, <1>4, <1>5, NotesKeep

\* What a delivery at work has.
LEMMA AtWork ==
  ASSUME TypeOK, DeliveryInv, NEW d \in Deliverers, at[d] \notin Between
  PROVE  /\ job[d] \in Jobs /\ job[d].item \in Items
         /\ job[d].claim \in Claims /\ job[d].claim # 0
<1>1. job[d] \in Jobs /\ job[d].claim # 0 /\ job[d].item # 0
  BY DEF TypeOK, DeliveryInv
<1>. QED BY <1>1, Bounds DEF Jobs, Items, Claims

\* A new claim was named by no receipt and is on no other row.
LEMMA ClaimNotes ==
  ASSUME TypeOK, DeliveryInv, AckInv, NEW d \in Deliverers, NEW i \in Waiting, Claim(d, i)
  PROVE  AckInv'
<1>1. /\ i \in Items /\ row[i] = "waiting" /\ claims \in Nat /\ claims' = claims + 1
      /\ claim' = [claim EXCEPT ![i] = claims + 1] /\ row' = [row EXCEPT ![i] = "claimed"]
      /\ UNCHANGED <<attempt, accepted, turn, ran, cut>>
  BY DEF Waiting, Claim, TypeOK, hist
<1>2. /\ job'[d].item = i /\ job'[d].claim = claims + 1 /\ at'[d] = "check"
      /\ \A e \in Deliverers \ {d} : job'[e] = job[e] /\ at'[e] = at[e]
  BY DEF Claim, TypeOK, NoJob
<1>3. /\ claim'[i] = claims + 1 /\ \A k \in Items \ {i} : claim'[k] = claim[k]
      /\ row'[i] = "claimed" /\ \A k \in Items \ {i} : row'[k] = row[k]
      /\ \A k \in Items : claim[k] \in Nat
      /\ \A c \in accepted : c \in Nat
      /\ \A e \in Deliverers : job[e].claim \in Nat
  BY <1>1, Bounds DEF TypeOK, Claims, Jobs
<1>4. \A c \in accepted' : c <= claims'
  BY <1>1, <1>3 DEF AckInv, AttemptInv
<1>5. \A k \in Items : claim'[k] <= claims'
  BY <1>1, <1>3 DEF AckInv, AttemptInv
<1>6. ASSUME NEW k \in Items, NEW e \in Deliverers, claim'[k] = job'[e].claim, job'[e].claim # 0
      PROVE  k = job'[e].item
  <2>1. CASE e = d
    <3>1. claim'[k] = claims + 1
      BY <1>2, <1>6, <2>1
    <3>2. k = i
      BY <1>1, <1>3, <3>1 DEF AckInv, AttemptInv
    <3>. QED BY <1>2, <2>1, <3>2
  <2>2. CASE e # d
    <3>1. job'[e] = job[e] /\ job[e].claim <= claims
      BY <1>2, <2>2 DEF DeliveryInv
    <3>2. k # i /\ claim[k] = job[e].claim
      BY <1>1, <1>3, <1>6, <3>1
    <3>. QED BY <1>6, <3>1, <3>2 DEF AckInv, AttemptInv
  <2>. QED BY <2>1, <2>2
<1>7. \A k \in Items : claim'[k] \in accepted' => attempt'[k] = claim'[k]
  BY <1>1, <1>3 DEF AckInv, AttemptInv
<1>8. ASSUME NEW e \in Deliverers, at'[e] \in Deciding, claim'[job'[e].item] = job'[e].claim
      PROVE  attempt'[job'[e].item] = job'[e].claim
  <2>1. e # d /\ job'[e] = job[e] /\ at[e] \in Deciding
    BY <1>2, <1>8 DEF Deciding
  <2>2. job[e].item \in Items /\ job[e].claim <= claims
    BY <2>1, AtWork DEF Deciding, Between, DeliveryInv
  <2>3. claim[job[e].item] = job[e].claim
    BY <1>1, <1>3, <1>8, <2>1, <2>2
  <2>. QED BY <1>1, <2>1, <2>3 DEF AckInv, AttemptInv, Holds
<1>9. AttemptInv'
  BY <1>4, <1>5, <1>6, <1>7, <1>8 DEF AttemptInv, Holds
<1>10. TraceInv'
  BY <1>1, <1>2, <1>3 DEF AckInv, TraceInv, OnItsWay
<1>. QED BY <1>9, <1>10 DEF AckInv

\* The attempt is noted under the claim that holds the row.
LEMMA PrepareNotes ==
  ASSUME TypeOK, DeliveryInv, AckInv, NEW d \in Deliverers, Prepare(d)
  PROVE  AckInv'
<1>1. /\ at[d] \notin Between
      /\ UNCHANGED <<row, claim, claims, accepted, turn, ran, cut>>
  BY DEF Prepare, Between, books, hist
<1>2. CASE UNCHANGED attempt /\ Leaves(d, "release", FALSE, "threw")
  <2>1. KeepsPlaces
    BY <1>2, LeavesNotes
  <2>2. KeepsNotes /\ KeepsWay
    BY <1>1, <1>2 DEF KeepsNotes, KeepsWay, AckInv, TraceInv
  <2>. QED BY <2>1, <2>2, NotesKeep
<1>3. CASE /\ Holds(d) /\ attempt' = [attempt EXCEPT ![job[d].item] = job[d].claim]
           /\ at' = [at EXCEPT ![d] = "admit"] /\ job' = job
  <2>1. /\ job[d].item \in Items /\ job[d].claim # 0 /\ claim[job[d].item] = job[d].claim
        /\ row[job[d].item] = "claimed"
    BY <1>1, <1>3, AtWork DEF Holds, TypeOK
  <2>2. /\ attempt'[job[d].item] = job[d].claim
        /\ \A k \in Items \ {job[d].item} : attempt'[k] = attempt[k]
        /\ at'[d] = "admit" /\ \A e \in Deliverers \ {d} : at'[e] = at[e]
    BY <1>3, <2>1 DEF TypeOK
  <2>3. \A k \in Items : claim'[k] \in accepted' => attempt'[k] = claim'[k]
    BY <1>1, <2>1, <2>2 DEF AckInv, AttemptInv
  <2>4. ASSUME NEW e \in Deliverers, at'[e] \in Deciding, claim'[job'[e].item] = job'[e].claim
        PROVE  attempt'[job'[e].item] = job'[e].claim
    <3>1. CASE job[e].item = job[d].item
      BY <1>1, <1>3, <2>1, <2>2, <2>4, <3>1
    <3>2. CASE job[e].item # job[d].item
      <4>1. e # d /\ at[e] \in Deciding
        BY <2>2, <2>4, <3>2
      <4>2. job[e].item \in Items
        BY <4>1, AtWork DEF Deciding, Between
      <4>. QED BY <1>1, <1>3, <2>2, <2>4, <3>2, <4>1, <4>2 DEF AckInv, AttemptInv, Holds
    <3>. QED BY <3>1, <3>2
  <2>5. AttemptInv'
    BY <1>1, <1>3, <2>3, <2>4 DEF AckInv, AttemptInv, Holds
  <2>6. TraceInv'
    BY <1>1, <1>3, <2>1, <2>2 DEF AckInv, TraceInv, OnItsWay
  <2>. QED BY <2>5, <2>6 DEF AckInv
<1>. QED BY <1>2, <1>3 DEF Prepare

\* The receipt names the claim whose attempt is on the row.
LEMMA AcceptNotes ==
  ASSUME TypeOK, DeliveryInv, AckInv, NEW d \in Deliverers, Accept(d)
  PROVE  AckInv'
<1>1. /\ at[d] = "admit" /\ at[d] \notin Between /\ turn = NoTurn
      /\ accepted' = accepted \cup {job[d].claim} /\ at' = [at EXCEPT ![d] = "ack"]
      /\ UNCHANGED <<row, claim, attempt, claims, job, ran, cut>>
  BY DEF Accept, Between, hist
<1>2. turn'.claim = job[d].claim /\ turn'.phase \in {"fenced", "doomed"}
  BY DEF Accept, StartPhase
<1>3. job[d].claim <= claims /\ job[d].claim # 0 /\ job[d].item \in Items
  BY <1>1, AtWork DEF DeliveryInv
<1>4. at'[d] = "ack" /\ \A e \in Deliverers \ {d} : at'[e] = at[e]
  BY <1>1 DEF TypeOK
<1>5. ASSUME NEW k \in Items, claim[k] = job[d].claim
      PROVE  attempt[k] = claim[k]
  <2>1. k = job[d].item
    BY <1>3, <1>5 DEF AckInv, AttemptInv
  <2>. QED BY <1>1, <1>5, <2>1 DEF AckInv, AttemptInv, Holds, Deciding
<1>6. AttemptInv'
  BY <1>1, <1>3, <1>4, <1>5 DEF AckInv, AttemptInv, Holds, Deciding
<1>7. ASSUME NEW k \in Items, row[k] = "acked"
      PROVE  ran[k] = 1 \/ attempt[k] \in cut
  BY <1>1, <1>7, NoTurnType DEF AckInv, TraceInv, OnItsWay, BeforeHost
<1>8. ASSUME NEW e \in Deliverers \ {d}, at[e] \in {"ack", "retry"}
      PROVE  job[e].claim \in cut
  BY <1>1, <1>8, NoTurnType DEF AckInv, TraceInv
<1>9. TraceInv'
  BY <1>1, <1>2, <1>4, <1>7, <1>8 DEF AckInv, TraceInv
<1>. QED BY <1>6, <1>9 DEF AckInv

\* The row goes while its attempt is on its way, or was cut off.
LEMMA AcknowledgeNotes ==
  ASSUME TypeOK, DeliveryInv, AckInv, NEW d \in Deliverers, Acknowledge(d)
  PROVE  AckInv'
<1>1. /\ at[d] \in {"ack", "retry"} /\ at[d] \notin Between /\ at[d] \in Deciding /\ Holds(d)
      /\ row' = [row EXCEPT ![job[d].item] = "acked"]
      /\ claim' = [claim EXCEPT ![job[d].item] = 0] /\ at' = [at EXCEPT ![d] = "open"]
      /\ UNCHANGED <<attempt, claims, accepted, turn, job, ran, cut>>
  BY DEF Acknowledge, Acknowledgeable, Between, Deciding, books, hist
<1>2. job[d].item \in Items /\ job[d].claim # 0 /\ attempt[job[d].item] = job[d].claim
  BY <1>1, AtWork DEF AckInv, AttemptInv
<1>3. /\ claim'[job[d].item] = 0 /\ \A k \in Items \ {job[d].item} : claim'[k] = claim[k]
      /\ row'[job[d].item] = "acked" /\ \A k \in Items \ {job[d].item} : row'[k] = row[k]
      /\ at'[d] = "open" /\ \A e \in Deliverers \ {d} : at'[e] = at[e]
  BY <1>1, <1>2 DEF TypeOK
<1>4. 0 \notin accepted /\ claims \in Nat
  BY Bounds DEF TypeOK, Claims
<1>5. /\ \A k \in Items : claim'[k] <= claims'
      /\ \A k \in Items, e \in Deliverers :
           claim'[k] = job'[e].claim /\ job'[e].claim # 0 => k = job'[e].item
      /\ \A k \in Items : claim'[k] \in accepted' => attempt'[k] = claim'[k]
  BY <1>1, <1>3, <1>4 DEF AckInv, AttemptInv
<1>6. ASSUME NEW e \in Deliverers, at'[e] \in Deciding, claim'[job'[e].item] = job'[e].claim
      PROVE  attempt'[job'[e].item] = job'[e].claim
  <2>1. e # d /\ at[e] \in Deciding
    BY <1>3, <1>6 DEF Deciding
  <2>2. job[e].item \in Items /\ job[e].claim # 0
    BY <2>1, AtWork DEF Deciding, Between
  <2>3. job[e].item # job[d].item /\ claim[job[e].item] = job[e].claim
    BY <1>1, <1>3, <1>6, <2>2
  <2>. QED BY <1>1, <2>1, <2>3 DEF AckInv, AttemptInv, Holds
<1>7. AttemptInv'
  BY <1>1, <1>5, <1>6 DEF AckInv, AttemptInv, Holds
<1>8. OnItsWay(job[d].item) \/ attempt[job[d].item] \in cut
  BY <1>1, <1>2 DEF AckInv, TraceInv, OnItsWay, BeforeHost, DeliveryInv
<1>9. TraceInv'
  BY <1>1, <1>2, <1>3, <1>8 DEF AckInv, TraceInv, OnItsWay
<1>. QED BY <1>7, <1>9 DEF AckInv

\* Only the turn whose row was acknowledged is opened.
LEMMA OpenStartNotes ==
  ASSUME TypeOK, DeliveryInv, AckInv, NEW d \in Deliverers, OpenStart(d)
  PROVE  AckInv'
<1>1. /\ at[d] = "open" /\ at[d] \notin Between
      /\ UNCHANGED <<row, claim, attempt, claims, accepted, ran, cut>>
  BY DEF OpenStart, Between, rows, books, hist
<1>2. KeepsNotes
  BY <1>1 DEF KeepsNotes, AckInv, TraceInv
<1>3. KeepsPlaces
  BY EndedNotes DEF OpenStart
<1>4. CASE turn' = turn
  BY <1>2, <1>3, <1>4, NotesKeep DEF KeepsWay
<1>5. CASE Mine(d) /\ turn.phase = "fenced" /\ turn' = [turn EXCEPT !.phase = "open"]
  <2>1. /\ turn'.claim = turn.claim /\ turn'.item = turn.item /\ turn'.phase = "open"
        /\ turn.claim = job[d].claim /\ job[d].claim # 0
    BY <1>1, <1>5, AtWork DEF TypeOK, Turns, Mine
  <2>2. ASSUME NEW e \in Deliverers, at[e] \in {"ack", "retry"}
        PROVE  job[e].claim \in cut
    <3>1. e # d
      BY <1>1, <2>2
    <3>2. job[e].claim # turn.claim
      BY <2>1, <3>1 DEF DeliveryInv
    <3>. QED BY <2>2, <3>2 DEF AckInv, TraceInv
  <2>. DEFINE Attempts ==
         /\ \A c \in accepted' : c <= claims'
         /\ \A i \in Items : claim'[i] <= claims'
         /\ \A i \in Items : claim'[i] \in accepted' => attempt'[i] = claim'[i]
  <2>3. Attempts
    BY <1>1 DEF AckInv, AttemptInv
  <2>4. \A i \in Items, e \in Deliverers :
          claim'[i] = job'[e].claim /\ job'[e].claim # 0 => i = job'[e].item
    BY <1>1, <1>3 DEF AckInv, AttemptInv, KeepsPlaces
  <2>5. \A e \in Deliverers :
          at'[e] \in Deciding /\ claim'[job'[e].item] = job'[e].claim
            => attempt'[job'[e].item] = job'[e].claim
    BY <1>1, <1>3 DEF AckInv, AttemptInv, KeepsPlaces, Holds, Deciding, Between
  <2>6. AttemptInv'
    BY <2>3, <2>4, <2>5 DEF AttemptInv, Holds
  <2>7. \A e \in Deliverers : at'[e] \in {"ack", "retry"} => job'[e].claim \in cut'
    BY <1>1, <1>3, <2>2 DEF KeepsPlaces, Between
  <2>8. \A i \in Items : OnItsWay(i) => OnItsWay(i)'
    BY <1>1, <2>1 DEF OnItsWay, BeforeHost
  <2>9. TraceInv'
    BY <1>1, <2>7, <2>8 DEF AckInv, TraceInv
  <2>. QED BY <2>6, <2>9 DEF AckInv
<1>. QED BY <1>4, <1>5 DEF OpenStart

\* What was on its way has run.
LEMMA HostStartsNotes ==
  ASSUME TypeOK, DeliveryInv, AckInv, HostStarts
  PROVE  AckInv'
<1>1. /\ turn.phase = "open" /\ turn' = [turn EXCEPT !.phase = "host"]
      /\ ran' = [ran EXCEPT ![turn.item] = @ + 1]
      /\ UNCHANGED <<row, claim, attempt, claims, accepted, at, job, cut>>
  BY DEF HostStarts, rows, books
<1>2. turn.item \in Items /\ ran[turn.item] = 0 /\ turn'.claim = turn.claim
  <2>1. turn \in Turns /\ turn.item # 0
    BY <1>1 DEF TypeOK, DeliveryInv
  <2>. QED BY <1>1, <2>1, Bounds DEF Turns, Items, DeliveryInv
<1>3. ran'[turn.item] = 1 /\ \A i \in Items \ {turn.item} : ran'[i] = ran[i]
  BY <1>1, <1>2 DEF TypeOK
<1>4. AttemptInv'
  BY <1>1 DEF AckInv, AttemptInv, Holds
<1>5. \A i \in Items : row'[i] = "acked" => ran'[i] = 1 \/ attempt'[i] \in cut'
  BY <1>1, <1>3 DEF AckInv, TraceInv, OnItsWay
<1>6. TraceInv'
  BY <1>1, <1>5 DEF AckInv, TraceInv
<1>. QED BY <1>4, <1>6 DEF AckInv

\* The invariant is inductive.
LEMMA NextNotes == TypeOK /\ DeliveryInv /\ AckInv /\ [Next]_vars => AckInv'
<1>. SUFFICES ASSUME TypeOK, DeliveryInv, AckInv, [Next]_vars
              PROVE  AckInv'
  OBVIOUS
<1>1. CASE \/ \E i \in Items : Enqueue(i) \/ RequestCancellation(i) \/ LeaseOut(i)
           \/ Resume \/ Stop \/ DirectTurn \/ Abort \/ StartDrain \/ DrainFindsNothing
  BY <1>1, OutsideNotes
<1>2. CASE RecoverBeforeClaim \/ RecoverPending \/ Restart
  BY <1>2, RecoveryNotes
<1>3. CASE DrainClaims \/ ContinueClaims
  <2>1. PICK d \in Deliverers, i \in Waiting : Claim(d, i)
    BY <1>3 DEF DrainClaims, ContinueClaims, Claimable, Deliverers
  <2>. QED BY <2>1, ClaimNotes
<1>4. ASSUME NEW d \in Deliverers, Deliver(d)
      PROVE  AckInv'
  BY <1>4, DeliveryNotes, PrepareNotes, AcceptNotes, AcknowledgeNotes, OpenStartNotes DEF Deliver
<1>5. CASE TurnEnds
  BY <1>5, HostStartsNotes, TurnEndsNotes DEF TurnEnds
<1>6. CASE UNCHANGED vars
  BY <1>6 DEF vars, AckInv, AttemptInv, TraceInv, OnItsWay, Holds
<1>. QED BY <1>1, <1>2, <1>3, <1>4, <1>5, <1>6 DEF Next, Drain

\* Nothing is noted at the start.
LEMMA InitNotes == Init => AckInv
BY Bounds, NoJobType DEF Init, AckInv, AttemptInv, TraceInv, Deciding, NoJob

-----------------------------------------------------------------------------
\* The variables keep their types, and a claim is on a row exactly while the row
\* is claimed.
THEOREM DeliveryTypes == Spec => []TypeOK
<1>. QED BY InitInv, NextKeeps, PTL DEF Spec

\* A queued message enters the host at most once, across failed commits and
\* acknowledgements, claims taken back from slow deliveries, and restarts.
THEOREM RowRunsOnce == Spec => []HostSeesRowOnce
<1>1. DeliveryInv => HostSeesRowOnce
  BY DEF DeliveryInv, HostSeesRowOnce
<1>. QED BY <1>1, InitInv, NextKeeps, PTL DEF Spec
\* A row leaves the queue under a claim whose turn has run, is on its way to the
\* host, or was cut off with a terminal fact; recovery deletes no undelivered row.
THEOREM AcknowledgedIsTraced == Spec => []AcknowledgedRowsRan
<1>1. AckInv => AcknowledgedRowsRan
  BY DEF AckInv, TraceInv, OnItsWay, AcknowledgedRowsRan
<1>. QED BY <1>1, InitInv, InitNotes, NextKeeps, NextNotes, PTL DEF Spec

-----------------------------------------------------------------------------
(* Answers and wakes.                                                       *)

Queued == {"waiting", "claimed"}

\* What was proved of the deliveries, as one invariant.
Base == TypeOK /\ DeliveryInv /\ AckInv

-----------------------------------------------------------------------------
(* How a step moves the deliveries and the rows.                           *)

\* A step of one delivery leaves the other alone and goes on with its row.
LEMMA DeliverMoves ==
  ASSUME TypeOK, NEW d \in Deliverers, Deliver(d)
  PROVE  /\ at[d] \notin Between
         /\ \A e \in Deliverers \ {d} : at'[e] = at[e] /\ job'[e] = job[e]
         /\ at'[d] \in Between \/ job'[d].item = job[d].item
         /\ at'[d] \in {"ack", "retry"} => at[d] \in {"ack", "retry"} \/ Accept(d)
         /\ at'[d] = "open" => at[d] \in {"ack", "retry"}
<1>1. at[d] \notin Between
  BY DEF Deliver, Check, Prepare, Accept, Reject, Acknowledge, AcknowledgeFails, CommitFails,
     OpenStart, Settle, Between
<1>2. at \in [Deliverers -> Places] /\ job \in [Deliverers -> Jobs] /\ job[d] \in Jobs
  BY DEF TypeOK
<1>3. CASE \E how, again, why : Leaves(d, how, again, why) \/ Settles(d, how, again, why)
  <2>1. PICK how, again, why : Settles(d, how, again, why)
    BY <1>3 DEF Leaves
  <2>. QED BY <1>1, <1>2, <2>1 DEF Settles, Jobs
<1>4. CASE \E again, why : Ended(d, again, why)
  <2>1. PICK again, why : Ended(d, again, why)
    BY <1>4
  <2>2. NextStep \in Between /\ "idle" \in Between
    BY DEF NextStep, Between
  <2>3. at'[d] \in Between /\ at'[d] \notin {"ack", "retry", "open"}
    BY <1>2, <2>1, <2>2 DEF Ended, Between
  <2>. QED BY <1>1, <1>2, <2>1, <2>3 DEF Ended
<1>5. CASE /\ job' = job
           /\ \/ \E place \in {"prepare", "admit"} : at' = [at EXCEPT ![d] = place]
              \/ Accept(d) /\ at' = [at EXCEPT ![d] = "ack"]
              \/ at[d] \in {"ack", "retry"} /\ \E place \in {"retry", "open"} : at' = [at EXCEPT ![d] = place]
  BY <1>1, <1>2, <1>5
<1>. QED BY <1>3, <1>4, <1>5 DEF Deliver, Check, Prepare, Accept, Reject, Acknowledge,
            AcknowledgeFails, CommitFails, OpenStart, Settle, Defers

Outside ==
  \/ \E i \in Items : Enqueue(i) \/ RequestCancellation(i) \/ LeaseOut(i)
  \/ Resume \/ Stop \/ StartDrain \/ RecoverBeforeClaim \/ DrainFindsNothing
  \/ DirectTurn \/ Abort \/ TurnEnds \/ RecoverPending \/ Restart \/ UNCHANGED vars

\* Every other step leaves a delivery alone or lets it end.
LEMMA OutsideMoves ==
  ASSUME TypeOK, Outside
  PROVE  \A e \in Deliverers : at'[e] \in Between \/ (at'[e] = at[e] /\ job'[e] = job[e])
<1>1. CASE StartDrain \/ RecoverBeforeClaim
  <2>1. NextStep \in Between /\ "claim" \in Between
    BY DEF NextStep, Between
  <2>. QED BY <1>1, <2>1 DEF StartDrain, RecoverBeforeClaim, TypeOK
<1>2. CASE DrainFindsNothing
  <2>1. PICK why : Ended("drain", FALSE, why)
    BY <1>2 DEF DrainFindsNothing
  <2>2. NextStep \in Between /\ "idle" \in Between
    BY DEF NextStep, Between
  <2>. QED BY <2>1, <2>2 DEF Ended, TypeOK
<1>3. CASE Restart
  BY <1>3 DEF Restart, Between
<1>4. CASE UNCHANGED <<at, job>>
  BY <1>4
<1>. QED BY <1>1, <1>2, <1>3, <1>4 DEF Outside, Enqueue, RequestCancellation, LeaseOut, Resume, Stop,
            DirectTurn, Abort, TurnEnds, HostStarts, EndsBeforeHost, HostEnds, Released,
            RecoverPending, vars

\* The steps of the specification, sorted.
LEMMA Steps ==
  ASSUME [Next]_vars
  PROVE  \/ Outside
         \/ \E d \in Deliverers : Deliver(d)
         \/ \E d \in Deliverers, i \in Waiting : Claim(d, i) /\ (DrainClaims \/ ContinueClaims)
BY DEF Next, Drain, Outside, DrainClaims, ContinueClaims, Claimable, Deliverers

\* A message is new until it is enqueued, and in the queue until it leaves.
LEMMA RowsMove ==
  ASSUME Base, [Next]_vars, NEW i \in Items, ~Enqueue(i)
  PROVE  /\ row'[i] = "new" <=> row[i] = "new"
         /\ row'[i] \in Queued => row[i] \in Queued
<1>1. row \in [Items -> Rows]
  BY DEF Base, TypeOK
<1>2. CASE \E j \in Items : Enqueue(j)
  <2>1. PICK j \in Items : Enqueue(j)
    BY <1>2
  <2>2. i # j /\ row'[i] = row[i]
    BY <1>1, <2>1 DEF Enqueue
  <2>. QED BY <2>2
<1>3. CASE \E S : S \subseteq Claimed /\ TakeBack(S)
  BY <1>1, <1>3 DEF TakeBack, Claimed, Queued
<1>4. CASE \E d \in Deliverers, k \in Waiting : Claim(d, k)
  BY <1>1, <1>4 DEF Claim, Waiting, Queued
<1>5. ASSUME NEW d \in Deliverers, Acknowledge(d) \/ Settle(d)
      PROVE  /\ row'[i] = "new" <=> row[i] = "new"
             /\ row'[i] \in Queued => row[i] \in Queued
  <2>1. at[d] \notin Between
    BY <1>5 DEF Acknowledge, Settle, Between
  <2>2. job[d].item \in Items /\ job[d].claim # 0
    BY <2>1, AtWork DEF Base
  <2>3. Holds(d) => row[job[d].item] = "claimed"
    BY <2>2 DEF Holds, Base, TypeOK
  <2>. QED BY <1>1, <1>5, <2>2, <2>3 DEF Acknowledge, Acknowledgeable, Settle, Queued
<1>6. CASE UNCHANGED row
  BY <1>6
<1>7. CASE \E d \in Deliverers : Deliver(d)
  BY <1>5, <1>6, <1>7 DEF Deliver, Check, Prepare, Accept, Reject, AcknowledgeFails, CommitFails,
     OpenStart, rows
<1>8. CASE Outside
  BY <1>2, <1>3, <1>6, <1>8 DEF Outside, RequestCancellation, LeaseOut, Resume, Stop, StartDrain,
     RecoverBeforeClaim, DrainFindsNothing, DirectTurn, Abort, TurnEnds, HostStarts,
     EndsBeforeHost, HostEnds, Released, RecoverPending, Restart, vars, rows
<1>. QED BY <1>4, <1>7, <1>8, Steps

-----------------------------------------------------------------------------
(* The order of the queue.                                                 *)

OrderInv ==
  /\ \A i, j \in Items : j < i /\ row[j] = "new" => row[i] = "new"
  /\ \A d \in Deliverers : at[d] \notin Between => row[job[d].item] # "new"
  /\ at["drain"] \notin Between =>
       \A j \in Items : row[j] \in Queued /\ j < job["drain"].item => j \in yielded
\* While the drain delivers a row, no row takes its yielding back.
LEMMA YieldsStay ==
  ASSUME Base, [Next]_vars, at'["drain"] \notin Between
  PROVE  yielded \subseteq yielded'
<1>1. CASE StartDrain
  <2>1. NextStep \in Between
    BY DEF NextStep, Between
  <2>. QED BY <1>1, <2>1 DEF StartDrain, Base, TypeOK, Deliverers
<1>2. ASSUME NEW d \in Deliverers, NEW again, NEW why, Ended(d, again, why)
      PROVE  yielded \subseteq yielded'
  <2>1. NextStep \in Between /\ "idle" \in Between
    BY DEF NextStep, Between
  <2>2. d # "drain"
    BY <1>2, <2>1 DEF Ended, Base, TypeOK
  <2>. QED BY <1>2, <2>2 DEF Ended
<1>3. CASE Restart
  BY <1>3 DEF Restart, Between, Deliverers
<1>4. CASE yielded' = yielded
  BY <1>4
<1>5. ASSUME NEW d \in Deliverers, Deliver(d)
      PROVE  yielded \subseteq yielded'
  <2>1. CASE Check(d) \/ Reject(d)
    BY <2>1 DEF Check, Reject, Defers
  <2>2. CASE Prepare(d) \/ Accept(d)
    BY <2>2 DEF Prepare, Accept, drainV
  <2>3. CASE Acknowledge(d) \/ AcknowledgeFails(d) \/ CommitFails(d)
    BY <2>3 DEF Acknowledge, AcknowledgeFails, CommitFails, drainV
  <2>4. CASE OpenStart(d)
    BY <1>2, <2>4 DEF OpenStart
  <2>5. CASE Settle(d)
    BY <1>2, <2>5 DEF Settle
  <2>. QED BY <1>5, <2>1, <2>2, <2>3, <2>4, <2>5 DEF Deliver
<1>6. CASE Outside
  BY <1>1, <1>2, <1>3, <1>4, <1>6 DEF Outside, Enqueue, RequestCancellation, LeaseOut, Resume,
     Stop, RecoverBeforeClaim, DrainFindsNothing, DirectTurn, Abort, TurnEnds, HostStarts,
     EndsBeforeHost, HostEnds, Released, RecoverPending, vars, drainV, Deliverers
<1>7. CASE \E d \in Deliverers, i \in Waiting : Claim(d, i)
  BY <1>4, <1>7 DEF Claim, drainV
<1>. QED BY <1>5, <1>6, <1>7, Steps

\* A delivery keeps its row, unless it has just claimed one.
LEMMA RowsKept ==
  ASSUME Base, [Next]_vars, NEW d \in Deliverers, at'[d] \notin Between
  PROVE  \/ at[d] \notin Between /\ job'[d].item = job[d].item
         \/ \E i \in Waiting : Claim(d, i) /\ (DrainClaims \/ ContinueClaims)
<1>1. CASE Outside
  BY <1>1, OutsideMoves DEF Base
<1>2. CASE \E e \in Deliverers : Deliver(e)
  BY <1>2, DeliverMoves DEF Base
<1>3. ASSUME NEW e \in Deliverers, NEW i \in Waiting, Claim(e, i), d # e
      PROVE  at'[d] = at[d] /\ job'[d] = job[d]
  BY <1>3 DEF Claim, Base, TypeOK
<1>. QED BY <1>1, <1>2, <1>3, Steps

\* The order of the queue is kept.
LEMMA OrderKept ==
  ASSUME Base, OrderInv, [Next]_vars
  PROVE  OrderInv'
<1>1. ASSUME NEW i \in Items, Enqueue(i)
      PROVE  /\ row[i] = "new" /\ row'[i] # "new" /\ \A j \in Items : j < i => row[j] # "new"
             /\ \A j \in Items \ {i} : row'[j] = row[j]
             /\ UNCHANGED <<at, job, yielded>>
  BY <1>1, Bounds DEF Enqueue, Base, TypeOK, Items
<1>2. ASSUME NEW i \in Items, NEW j \in Items, j < i, row'[j] = "new"
      PROVE  row'[i] = "new"
  <2>1. row[j] = "new" /\ row[i] = "new"
    <3>1. row[j] = "new"
      BY <1>1, <1>2, RowsMove
    <3>. QED BY <1>2, <3>1 DEF OrderInv
  <2>2. ~Enqueue(i)
    BY <1>1, <1>2, <2>1
  <2>. QED BY <2>1, <2>2, RowsMove
<1>3. ASSUME NEW i \in Items, row[i] # "new"
      PROVE  row'[i] # "new"
  BY <1>1, <1>3, RowsMove
<1>4. ASSUME NEW d \in Deliverers, at'[d] \notin Between
      PROVE  row'[job'[d].item] # "new"
  <2>1. CASE at[d] \notin Between /\ job'[d].item = job[d].item
    <3>1. job[d].item \in Items /\ row[job[d].item] # "new"
      BY <2>1, AtWork DEF Base, OrderInv
    <3>. QED BY <1>3, <2>1, <3>1
  <2>2. ASSUME NEW i \in Waiting, Claim(d, i)
        PROVE  row'[job'[d].item] # "new"
    BY <2>2 DEF Claim, Base, TypeOK, NoJob, Waiting
  <2>. QED BY <1>4, <2>1, <2>2, RowsKept
<1>5. ASSUME at'["drain"] \notin Between, NEW j \in Items, row'[j] \in Queued, j < job'["drain"].item
      PROVE  j \in yielded'
  <2>. "drain" \in Deliverers /\ "continued" \in Deliverers
    BY DEF Deliverers
  <2>1. CASE at["drain"] \notin Between /\ job'["drain"].item = job["drain"].item
    <3>1. job["drain"].item \in Items /\ row[job["drain"].item] # "new"
      BY <2>1, AtWork DEF Base, OrderInv
    <3>2. row[j] # "new"
      BY <1>5, <2>1, <3>1 DEF OrderInv
    <3>3. row[j] \in Queued
      BY <1>1, <1>5, <3>2, RowsMove
    <3>4. j \in yielded
      BY <1>5, <2>1, <3>3 DEF OrderInv
    <3>. QED BY <1>5, <3>4, YieldsStay
  <2>2. ASSUME NEW i \in Waiting, Claim("drain", i), DrainClaims \/ ContinueClaims
        PROVE  j \in yielded'
    <3>1. job'["drain"].item = i /\ at'["drain"] = "check" /\ yielded' = yielded
      BY <2>2 DEF Claim, Base, TypeOK, NoJob, drainV
    <3>2. PICK k \in Claimable : (\A l \in Claimable : k <= l) /\ Claim("drain", k)
      <4>1. CASE DrainClaims
        BY <4>1 DEF DrainClaims
      <4>2. CASE ContinueClaims
        <5>1. PICK k : Claim("continued", k)
          BY <4>2 DEF ContinueClaims
        <5>2. at'["drain"] = at["drain"] /\ at'["continued"] = "check" /\ at["continued"] = "idle"
          BY <4>2, <5>1 DEF Claim, Base, TypeOK, ContinueClaims
        <5>3. at' = [at EXCEPT !["drain"] = "check"]
          BY <2>2 DEF Claim
        <5>. QED BY <5>2, <5>3 DEF Base, TypeOK
      <4>. QED BY <2>2, <4>1, <4>2
    <3>3. job'["drain"].item = k
      BY <3>2 DEF Claim, Base, TypeOK, NoJob
    <3>4. j \in Items /\ k \in Items /\ j < k /\ j \notin Claimable
      BY <1>5, <3>2, <3>3, Bounds DEF Items, Claimable, Waiting
    <3>5. row[j] \in Queued
      <4>1. ~Enqueue(j)
        BY <2>2 DEF Enqueue, Claim, books, Base, TypeOK
      <4>. QED BY <1>5, <4>1, RowsMove
    <3>6. j \in Waiting /\ ~stopping /\ ~paused /\ Claimed = {}
      BY <3>2, <3>5 DEF Claimable, Waiting, Claimed, Queued
    <3>. QED BY <3>1, <3>4, <3>6 DEF Claimable
  <2>. QED BY <1>5, <2>1, <2>2, RowsKept
<1>. QED BY <1>2, <1>4, <1>5 DEF OrderInv
-----------------------------------------------------------------------------
(* Who waits for an answer.                                                *)

Unanswered == {"pending", "cancelled"}

WaitInv ==
  /\ \A i \in Items : waiter[i] \in Unanswered => row[i] \in Queued
  /\ \A i \in Items : waiter[i] = "executing" => turn.item = i
  /\ \A d \in Deliverers : at[d] \in {"ack", "retry"} => waiter[job[d].item] \notin Unanswered

\* A completion that waits waited before, and its row is still in the queue; one
\* that executes did so before, under the same turn.
KeepsWaiters ==
  \A i \in Items :
    /\ waiter'[i] \in Unanswered => waiter[i] \in Unanswered /\ (row[i] \in Queued => row'[i] \in Queued)
    /\ waiter'[i] = "executing" => waiter[i] = "executing" /\ (turn.item = i => turn'.item = i)

\* Such a step keeps the invariant, unless it accepts.
LEMMA WaitersKeep ==
  ASSUME Base, WaitInv, [Next]_vars, KeepsWaiters, ~ \E d \in Deliverers : Accept(d)
  PROVE  WaitInv'
<1>1. ASSUME NEW d \in Deliverers, at'[d] \in {"ack", "retry"}
      PROVE  waiter'[job'[d].item] \notin Unanswered
  <2>1. at[d] \in {"ack", "retry"} /\ job'[d].item = job[d].item
    <3>1. CASE Outside
      BY <1>1, <3>1, OutsideMoves DEF Base, Between
    <3>2. CASE \E e \in Deliverers : Deliver(e)
      BY <1>1, <3>2, DeliverMoves DEF Base, Between
    <3>3. CASE \E e \in Deliverers, i \in Waiting : Claim(e, i)
      BY <1>1, <3>3 DEF Claim, Base, TypeOK
    <3>. QED BY <3>1, <3>2, <3>3, Steps
  <2>2. job[d].item \in Items
    BY <2>1, AtWork DEF Base, Between
  <2>. QED BY <2>1, <2>2 DEF WaitInv, KeepsWaiters
<1>. QED BY <1>1 DEF WaitInv, KeepsWaiters

\* The rows of unanswered submitters stay, as far as recovery is concerned.
LEMMA TakeBackQueues ==
  ASSUME Base, NEW S, S \subseteq Claimed, TakeBack(S), NEW i \in Items, row[i] \in Queued
  PROVE  row'[i] \in Queued
<1>1. ~Delivered(i)
  BY DEF Base, AckInv, AttemptInv, Delivered
<1>. QED BY <1>1 DEF TakeBack, Queued

\* The steps outside the deliveries, but for a new message.
LEMMA OutsideWaits ==
  ASSUME Base, WaitInv, Outside, ~ \E i \in Items : Enqueue(i)
  PROVE  KeepsWaiters
<1>1. ASSUME NEW i \in Items, RequestCancellation(i)
      PROVE  KeepsWaiters
  <2>1. /\ row' = row /\ turn' = turn /\ waiter[i] = "pending"
        /\ waiter' = [waiter EXCEPT ![i] = "cancelled"]
    BY <1>1 DEF RequestCancellation
  <2>. QED BY <2>1 DEF KeepsWaiters, Base, TypeOK, Unanswered
<1>2. CASE RecoverBeforeClaim \/ RecoverPending
  <2>1. PICK S : S \subseteq Claimed /\ TakeBack(S)
    BY <1>2 DEF RecoverBeforeClaim, RecoverPending
  <2>2. waiter' = waiter /\ turn' = turn
    BY <1>2 DEF RecoverBeforeClaim, RecoverPending
  <2>. QED BY <2>1, <2>2, TakeBackQueues DEF KeepsWaiters
<1>3. CASE Restart
  BY <1>3 DEF Restart, KeepsWaiters, Unanswered
<1>4. CASE EndsBeforeHost \/ HostEnds
  <2>1. Answers /\ row' = row
    BY <1>4 DEF EndsBeforeHost, HostEnds, Released
  <2>. QED BY <2>1 DEF Answers, KeepsWaiters, WaitInv, Unanswered
<1>5. CASE DirectTurn
  BY <1>5 DEF DirectTurn, KeepsWaiters, WaitInv, NoTurn, Items, rows
<1>6. CASE Abort \/ HostStarts
  BY <1>6 DEF Abort, HostStarts, KeepsWaiters, Base, TypeOK, Turns, rows
<1>7. CASE row' = row /\ waiter' = waiter /\ turn' = turn
  BY <1>7 DEF KeepsWaiters
<1>. QED BY <1>1, <1>2, <1>3, <1>4, <1>5, <1>6, <1>7 DEF Outside, LeaseOut, Resume, Stop, StartDrain,
            DrainFindsNothing, TurnEnds, rows, vars

\* The steps of a delivery, but for acceptance.
LEMMA DeliveryWaits ==
  ASSUME Base, WaitInv, NEW d \in Deliverers, Deliver(d), ~Accept(d)
  PROVE  KeepsWaiters
<1>1. CASE Acknowledge(d)
  <2>1. /\ at[d] \in {"ack", "retry"} /\ waiter' = waiter /\ turn' = turn
        /\ row' = [row EXCEPT ![job[d].item] = "acked"]
    BY <1>1 DEF Acknowledge
  <2>. QED BY <2>1 DEF KeepsWaiters, WaitInv, Base, TypeOK
<1>2. CASE Settle(d)
  <2>1. turn' = turn
    BY <1>2 DEF Settle
  <2>2. CASE row' = row /\ waiter' = waiter
    BY <2>1, <2>2 DEF KeepsWaiters
  <2>3. CASE \E goes \in {"waiting", "rejected", "cancelled"} :
               /\ row' = [row EXCEPT ![job[d].item] = goes]
               /\ waiter' = [waiter EXCEPT ![job[d].item] =
                    IF goes # "waiting" /\ @ # "none" THEN "settled" ELSE @]
    <3>1. PICK goes \in {"waiting", "rejected", "cancelled"} :
               /\ row' = [row EXCEPT ![job[d].item] = goes]
               /\ waiter' = [waiter EXCEPT ![job[d].item] =
                    IF goes # "waiting" /\ @ # "none" THEN "settled" ELSE @]
      BY <2>3
    <3>. QED BY <2>1, <3>1 DEF KeepsWaiters, Base, TypeOK, Unanswered, Queued
  <2>. QED BY <1>2, <2>2, <2>3 DEF Settle
<1>3. CASE OpenStart(d) \/ AcknowledgeFails(d) \/ CommitFails(d)
  <2>1. turn'.item = turn.item
    BY <1>3 DEF OpenStart, AcknowledgeFails, CommitFails, FailStart, Base, TypeOK, Turns
  <2>. QED BY <1>3, <2>1 DEF OpenStart, AcknowledgeFails, CommitFails, KeepsWaiters, rows
<1>4. CASE row' = row /\ waiter' = waiter /\ turn' = turn
  BY <1>4 DEF KeepsWaiters
<1>. QED BY <1>1, <1>2, <1>3, <1>4 DEF Deliver, Check, Prepare, Reject, rows

\* A new message is queued, and nobody delivers it yet.
LEMMA EnqueueWaits ==
  ASSUME Base, OrderInv, WaitInv, NEW i \in Items, Enqueue(i)
  PROVE  WaitInv'
<1>1. /\ row[i] = "new" /\ row' = [row EXCEPT ![i] = row'[i]]
      /\ waiter' = [waiter EXCEPT ![i] = IF row'[i] = "waiting" THEN "pending" ELSE "none"]
      /\ UNCHANGED <<at, job, turn>>
  BY DEF Enqueue, Base, TypeOK
<1>2. /\ \A j \in Items \ {i} : row'[j] = row[j] /\ waiter'[j] = waiter[j]
      /\ waiter'[i] \in {"pending", "none"}
      /\ waiter'[i] \in Unanswered => row'[i] \in Queued
  BY <1>1 DEF Base, TypeOK, Unanswered, Queued
<1>3. ASSUME NEW d \in Deliverers, at'[d] \in {"ack", "retry"}
      PROVE  waiter'[job'[d].item] \notin Unanswered
  <2>1. at[d] \notin Between /\ at[d] \in {"ack", "retry"} /\ job'[d] = job[d]
    BY <1>1, <1>3 DEF Between
  <2>2. job[d].item \in Items /\ job[d].item # i
    BY <1>1, <2>1, AtWork DEF Base, OrderInv
  <2>. QED BY <1>2, <2>1, <2>2 DEF WaitInv
<1>. QED BY <1>1, <1>2, <1>3 DEF WaitInv

\* The accepted turn takes over the completion of its message.
LEMMA AcceptWaits ==
  ASSUME Base, WaitInv, NEW d \in Deliverers, Accept(d)
  PROVE  WaitInv'
<1>1. /\ at[d] \notin Between /\ turn = NoTurn /\ turn'.item = job[d].item
      /\ waiter' = [waiter EXCEPT ![job[d].item] =
           IF @ \in {"pending", "cancelled"} THEN "executing" ELSE @]
      /\ at' = [at EXCEPT ![d] = "ack"] /\ UNCHANGED <<row, job>>
  BY DEF Accept, Between
<1>2. job[d].item \in Items
  BY <1>1, AtWork DEF Base
<1>3. /\ waiter'[job[d].item] \notin Unanswered
      /\ \A j \in Items : waiter'[j] \in Unanswered => waiter[j] \in Unanswered
      /\ \A j \in Items : waiter'[j] = "executing" => j = job[d].item
  <2>1. \A j \in Items : waiter[j] # "executing"
    BY <1>1 DEF WaitInv, NoTurn, Items
  <2>. QED BY <1>1, <1>2, <2>1 DEF Base, TypeOK, Unanswered
<1>4. ASSUME NEW e \in Deliverers, at'[e] \in {"ack", "retry"}
      PROVE  waiter'[job'[e].item] \notin Unanswered
  <2>1. CASE e = d
    BY <1>1, <1>3, <2>1
  <2>2. CASE e # d
    <3>1. at[e] \in {"ack", "retry"} /\ job'[e] = job[e]
      BY <1>1, <1>4, <2>2 DEF Base, TypeOK
    <3>2. job[e].item \in Items
      BY <3>1, AtWork DEF Base, Between
    <3>. QED BY <1>3, <3>1, <3>2 DEF WaitInv
  <2>. QED BY <2>1, <2>2
<1>. QED BY <1>1, <1>3, <1>4 DEF WaitInv

\* Nobody is left to wait.
LEMMA WaitKept ==
  ASSUME Base, OrderInv, WaitInv, [Next]_vars
  PROVE  WaitInv'
<1>1. CASE \E i \in Items : Enqueue(i)
  BY <1>1, EnqueueWaits
<1>2. CASE \E d \in Deliverers : Accept(d)
  BY <1>2, AcceptWaits
<1>3. CASE ~(\E i \in Items : Enqueue(i)) /\ ~(\E d \in Deliverers : Accept(d))
  <2>1. CASE Outside
    BY <1>3, <2>1, OutsideWaits, WaitersKeep
  <2>2. CASE \E d \in Deliverers : Deliver(d)
    BY <1>3, <2>2, DeliveryWaits, WaitersKeep
  <2>3. CASE \E d \in Deliverers, i \in Waiting : Claim(d, i)
    <3>1. KeepsWaiters
      BY <2>3 DEF Claim, KeepsWaiters, Base, TypeOK, Queued
    <3>. QED BY <1>3, <3>1, WaitersKeep
  <2>. QED BY <2>1, <2>2, <2>3, Steps
<1>. QED BY <1>1, <1>2, <1>3
-----------------------------------------------------------------------------
(* Who wakes the queue.                                                    *)

\* Nobody else is going to: no turn, no pause, no wake owed, nothing to blame.
Rest == turn = NoTurn /\ ~paused /\ ~owed /\ parked = "no"

\* A drain that will stop without a word leaves the queue to a turn, a pause or a
\* wake; one that has stopped leaves no row, unless another delivery has one.
WakeInv ==
  /\ at["drain"] \in {"ack", "retry", "open"} => ~Rest
  /\ at["drain"] = "settle" /\ job["drain"].why = "no" /\ ~job["drain"].again => ~Rest
  /\ at["drain"] = "idle" /\ Rest =>
       Waiting = {} \/ (Claimed # {} /\ at["continued"] \notin {"ack", "retry", "open"})

\* The drain starts or ends.
DrainTurns == StartDrain \/ (at["drain"] # "idle" /\ \E again, why : Ended("drain", again, why))

\* Rest is only brought about by the drain.
LEMMA RestComesFromDrain ==
  ASSUME Base, [Next]_vars, Rest'
  PROVE  Rest \/ DrainTurns
<1>1. CASE UNCHANGED <<turn, paused, owed, parked>>
  BY <1>1 DEF Rest
<1>2. ASSUME Wake
      PROVE  FALSE
  BY <1>2 DEF Wake, Rest
<1>3. ASSUME parked' # "no" \/ turn' # NoTurn
      PROVE  FALSE
  BY <1>3 DEF Rest
<1>4. ASSUME NEW d \in Deliverers, NEW again, NEW why, Ended(d, again, why),
             at[d] # "idle", turn' = NoTurn => turn = NoTurn, paused' = paused
      PROVE  Rest \/ DrainTurns
  <2>1. CASE d = "drain"
    BY <1>4, <2>1 DEF DrainTurns
  <2>2. CASE d # "drain"
    BY <1>4, <2>2 DEF Ended, Rest, Base, TypeOK
  <2>. QED BY <2>1, <2>2
<1>5. CASE Outside
  <2>1. ASSUME NEW wakes, NEW pauses, Released(wakes, pauses)
        PROVE  FALSE
    BY <1>2, <1>3, <2>1 DEF Released
  <2>2. CASE EndsBeforeHost \/ HostEnds
    BY <2>1, <2>2 DEF EndsBeforeHost, HostEnds
  <2>3. CASE DirectTurn \/ Abort \/ HostStarts
    <3>1. turn \in Turns /\ NoTurn \in Turns /\ NoTurn.phase = "none" /\ NoTurn.aborted = FALSE
      BY NoTurnType DEF Base, TypeOK, NoTurn
    <3>2. turn'.phase = "host" \/ turn'.aborted = TRUE
      BY <2>3, <3>1 DEF DirectTurn, Abort, HostStarts, Turns
    <3>. QED BY <1>3, <3>1, <3>2
  <2>4. CASE DrainFindsNothing
    <3>1. at["drain"] # "idle" /\ \E why : Ended("drain", FALSE, why)
      BY <2>4 DEF DrainFindsNothing
    <3>. QED BY <3>1 DEF DrainTurns
  <2>5. CASE StartDrain
    BY <2>5 DEF DrainTurns
  <2>6. CASE \E i \in Items : Enqueue(i) \/ RequestCancellation(i)
    BY <1>2, <2>6 DEF Enqueue, RequestCancellation
  <2>7. CASE Resume \/ Stop \/ RecoverPending \/ Restart
    BY <1>3, <2>7 DEF Resume, Stop, RecoverPending, Restart
  <2>8. CASE RecoverBeforeClaim \/ (\E i \in Items : LeaseOut(i)) \/ UNCHANGED vars
    BY <1>1, <2>8 DEF RecoverBeforeClaim, LeaseOut, vars, drainV
  <2>. QED BY <1>5, <2>2, <2>3, <2>4, <2>5, <2>6, <2>7, <2>8 DEF Outside, TurnEnds
<1>6. ASSUME NEW d \in Deliverers, Deliver(d)
      PROVE  Rest \/ DrainTurns
  <2>1. CASE Check(d) \/ Prepare(d) \/ Reject(d) \/ Acknowledge(d)
    BY <1>1, <2>1 DEF Check, Prepare, Reject, Acknowledge, drainV
  <2>2. CASE Accept(d)
    <3>1. job[d].claim # 0 /\ turn'.claim = job[d].claim
      BY <2>2, AtWork DEF Accept, Base, Between
    <3>. QED BY <1>3, <3>1, NoTurnType
  <2>3. CASE AcknowledgeFails(d) \/ CommitFails(d)
    <3>1. turn' = NoTurn => turn = NoTurn
      <4>1. turn' = turn \/ turn' = [turn EXCEPT !.phase = "doomed"]
        BY <2>3 DEF AcknowledgeFails, CommitFails, FailStart
      <4>. QED BY <4>1, NoTurnType DEF Base, TypeOK, Turns
    <3>2. UNCHANGED <<paused, owed, parked>>
      BY <2>3 DEF AcknowledgeFails, CommitFails, drainV
    <3>. QED BY <3>1, <3>2 DEF Rest
  <2>4. CASE OpenStart(d)
    <3>1. turn' = NoTurn => turn = NoTurn
      <4>1. turn' = turn \/ turn' = [turn EXCEPT !.phase = "open"]
        BY <2>4 DEF OpenStart
      <4>. QED BY <4>1, NoTurnType DEF Base, TypeOK, Turns
    <3>. QED BY <1>4, <2>4, <3>1 DEF OpenStart
  <2>5. CASE Settle(d)
    BY <1>4, <2>5 DEF Settle
  <2>. QED BY <1>6, <2>1, <2>2, <2>3, <2>4, <2>5 DEF Deliver
<1>7. CASE \E d \in Deliverers, i \in Waiting : Claim(d, i)
  BY <1>1, <1>7 DEF Claim, drainV
<1>. QED BY <1>5, <1>6, <1>7, Steps

\* A decision that gives a reason to stop, or goes on.
DrainSpeaks ==
  \/ \E how : \E why \in {"deferred", "threw", "refused", "stopped"} :
       Leaves("drain", how, FALSE, why) \/ Settles("drain", how, FALSE, why)
  \/ \E how : Leaves("drain", how, TRUE, "no") \/ Settles("drain", how, TRUE, "no")
  \/ Defers("drain")

\* It leaves its mark on the job.
LEMMA SpeaksOut ==
  ASSUME Base, DrainSpeaks
  PROVE  ~(job'["drain"].why = "no" /\ ~job'["drain"].again)
<1>1. "drain" \in Deliverers /\ job["drain"] \in Jobs /\ job \in [Deliverers -> Jobs]
  BY DEF Base, TypeOK, Deliverers
<1>2. ASSUME NEW how, Settles("drain", how, TRUE, "no")
      PROVE  job'["drain"].again
  BY <1>1, <1>2 DEF Settles, Jobs
<1>3. ASSUME NEW how, NEW why \in {"deferred", "threw", "refused", "stopped"},
             Settles("drain", how, FALSE, why)
      PROVE  job'["drain"].why # "no"
  BY <1>1, <1>3 DEF Settles, Jobs
<1>. QED BY <1>2, <1>3 DEF DrainSpeaks, Leaves, Defers

\* The drain's way to a silent stop: admission kept the row for somebody else.
LEMMA SilentStop ==
  ASSUME Base, OrderInv, Reject("drain"),
         at'["drain"] = "settle", job'["drain"].why = "no", ~job'["drain"].again
  PROVE  ~Rest'
<1>. DEFINE d == "drain"
<1>1. /\ at[d] = "admit" /\ at[d] \notin Between /\ d \in Deliverers
      /\ UNCHANGED <<turn, paused, owed, parked>>
  BY DEF Reject, Between, Deliverers
<1>2. ~DrainSpeaks
  BY SpeaksOut
<1>3. turn # NoTurn \/ ~FencePasses(d)
  BY <1>2 DEF Reject, DrainSpeaks
<1>4. \A j \in Live : j < job[d].item => j \in yielded
  BY <1>1 DEF OrderInv, Live, Waiting, Claimed, Queued
<1>5. turn # NoTurn \/ paused
  BY <1>3, <1>4 DEF FencePasses
<1>. QED BY <1>1, <1>5 DEF Rest

\* A drain that decides says why it stops, or goes on.
LEMMA DrainDecides ==
  ASSUME Base, OrderInv, [Next]_vars, Rest',
         at'["drain"] = "settle", job'["drain"].why = "no", ~job'["drain"].again
  PROVE  at["drain"] = "settle" /\ job'["drain"] = job["drain"]
<1>. DEFINE d == "drain"
<1>0. d \in Deliverers /\ "settle" \notin Between /\ "check" # "settle"
  BY DEF Deliverers, Between
<1>1. CASE Outside
  BY <1>0, <1>1, OutsideMoves DEF Base
<1>2. CASE \E e \in Deliverers \ {d} : Deliver(e)
  BY <1>0, <1>2, DeliverMoves DEF Base
<1>3. CASE \E e \in Deliverers, i \in Waiting : Claim(e, i)
  BY <1>0, <1>3 DEF Claim, Base, TypeOK
<1>4. CASE Deliver(d)
  <2>1. ~DrainSpeaks
    BY SpeaksOut
  <2>3. ~Reject(d)
    BY SilentStop
  <2>4. ASSUME NEW again, NEW why, Ended(d, again, why)
        PROVE  FALSE
    <3>1. NextStep \in Between /\ "idle" \in Between
      BY DEF NextStep, Between
    <3>. QED BY <1>0, <2>4, <3>1 DEF Ended, Base, TypeOK
  <2>5. ASSUME NEW place \in {"prepare", "admit", "ack", "retry", "open"}, at' = [at EXCEPT ![d] = place]
        PROVE  FALSE
    BY <1>0, <2>5 DEF Base, TypeOK
  <2>6. ~Check(d)
    BY <2>1, <2>5 DEF Check, DrainSpeaks
  <2>7. ~Prepare(d) /\ ~Accept(d) /\ ~Acknowledge(d)
    BY <2>1, <2>5 DEF Prepare, Accept, Acknowledge, DrainSpeaks
  <2>8. ~AcknowledgeFails(d) /\ ~CommitFails(d)
    BY <2>1, <2>5 DEF AcknowledgeFails, CommitFails, DrainSpeaks
  <2>9. ~OpenStart(d) /\ ~Settle(d)
    BY <2>4 DEF OpenStart, Settle
  <2>. QED BY <1>4, <2>3, <2>6, <2>7, <2>8, <2>9 DEF Deliver
<1>. QED BY <1>1, <1>2, <1>3, <1>4, Steps
\* A pass of the drain that ends without a word was asked for nothing more.
LEMMA EndsQuietly ==
  ASSUME Base, NEW again \in BOOLEAN, NEW why, Ended("drain", again, why), at'["drain"] = "idle",
         Rest'
  PROVE  ~stopping /\ why = "no" /\ parked = "no" /\ ~again /\ ~owed
<1>1. "drain" \in Deliverers /\ at \in [Deliverers -> Places] /\ owed \in BOOLEAN
  BY DEF Base, TypeOK, Deliverers
<1>. DEFINE loops == why # "threw" /\ ~stopping /\ (again \/ owed)
<1>2. ~loops
  BY <1>1 DEF Ended, NextStep
<1>3. ~stopping /\ why = "no" /\ parked = "no" /\ ~owed
  BY <1>2 DEF Ended, Rest
<1>. QED BY <1>2, <1>3

\* ... and of one that was not asked to go on.
LEMMA EndsForGood ==
  ASSUME Base, NEW why, Ended("drain", FALSE, why), at'["drain"] = "idle", Rest'
  PROVE  ~stopping /\ why = "no" /\ parked = "no" /\ ~owed
<1>1. "drain" \in Deliverers /\ at \in [Deliverers -> Places] /\ owed \in BOOLEAN
  BY DEF Base, TypeOK, Deliverers
<1>2. ~(why # "threw" /\ ~stopping /\ owed)
  BY <1>1 DEF Ended, NextStep
<1>. QED BY <1>2 DEF Ended, Rest

\* The drain comes to rest only when no row is left.
LEMMA DrainStops ==
  ASSUME Base, WakeInv, [Next]_vars, Rest', at["drain"] # "idle", at'["drain"] = "idle"
  PROVE  Waiting' = {}
<1>1. "drain" \in Deliverers /\ at \in [Deliverers -> Places] /\ job["drain"] \in Jobs
  BY DEF Base, TypeOK, Deliverers
<1>2. CASE DrainFindsNothing
  <2>1. UNCHANGED <<row, paused>> /\ ~paused
    BY <1>2 DEF DrainFindsNothing, Rest, rows
  <2>2. ASSUME NEW why, Ended("drain", FALSE, why)
        PROVE  ~stopping /\ why = "no"
    BY <2>2, EndsForGood
  <2>3. Waiting = {}
    <3>1. PICK why :
            /\ Ended("drain", FALSE, why)
            /\ \/ why = "threw"
               \/ why = IF paused \/ stopping THEN "no" ELSE IF Claimed # {} THEN "blocked"
                        ELSE IF Waiting # {} THEN "deferred" ELSE "no"
      BY <1>2 DEF DrainFindsNothing
    <3>2. ~stopping /\ why = "no"
      BY <2>2, <3>1
    <3>. QED BY <2>1, <3>1, <3>2
  <2>. QED BY <2>1, <2>3 DEF Waiting
<1>3. CASE OpenStart("drain")
  <2>1. parked = "no" /\ ~owed
    BY <1>3, EndsForGood DEF OpenStart
  <2>2. turn = NoTurn
    <3>1. turn' = turn \/ turn' = [turn EXCEPT !.phase = "open"]
      BY <1>3 DEF OpenStart
    <3>. QED BY <3>1, NoTurnType DEF Rest, Base, TypeOK, Turns
  <2>3. Rest
    BY <1>3, <2>1, <2>2 DEF OpenStart, Rest
  <2>. QED BY <1>3, <2>3 DEF OpenStart, WakeInv
<1>4. CASE Settle("drain")
  <2>1. turn' = turn /\ paused' = paused /\ at["drain"] = "settle"
    BY <1>4 DEF Settle
  <2>2. job["drain"].again \in BOOLEAN
    BY <1>1 DEF Jobs
  <2>. DEFINE threw == "threw"
  <2>. HIDE DEF threw
  <2>3. ~Ended("drain", FALSE, threw)
    <3>1. threw # "no"
      BY DEF threw
    <3>. QED BY <3>1, EndsForGood
  <2>4. Ended("drain", job["drain"].again, job["drain"].why)
    BY <1>4, <2>3 DEF Settle, threw
  <2>5. job["drain"].why = "no" /\ parked = "no" /\ ~job["drain"].again /\ ~owed
    BY <2>2, <2>4, EndsQuietly
  <2>6. Rest
    BY <2>1, <2>5 DEF Rest
  <2>. QED BY <2>1, <2>5, <2>6 DEF WakeInv
<1>5. CASE Outside /\ ~DrainFindsNothing
  <2>1. NextStep # "idle" /\ parked' # "restarted"
    BY DEF NextStep, Rest
  <2>. QED BY <1>1, <1>5, <2>1 DEF Outside, Enqueue, RequestCancellation, LeaseOut, Resume, Stop,
              StartDrain, RecoverBeforeClaim, DirectTurn, Abort, TurnEnds, HostStarts,
              EndsBeforeHost, HostEnds, Released, RecoverPending, Restart, vars
<1>6. CASE \E d \in Deliverers \ {"drain"} : Deliver(d)
  BY <1>1, <1>6, DeliverMoves DEF Base
<1>7. CASE Deliver("drain") /\ ~OpenStart("drain") /\ ~Settle("drain")
  <2>1. ASSUME NEW how, NEW again, NEW why, Settles("drain", how, again, why)
        PROVE  FALSE
    BY <1>1, <2>1 DEF Settles
  <2>2. ASSUME NEW how, NEW again, NEW why, Leaves("drain", how, again, why)
        PROVE  FALSE
    BY <2>1, <2>2 DEF Leaves
  <2>3. ~Check("drain")
    BY <1>1, <2>1, <2>2 DEF Check, Defers
  <2>4. ~Prepare("drain") /\ ~Accept("drain") /\ ~Acknowledge("drain")
    BY <1>1, <2>2 DEF Prepare, Accept, Acknowledge
  <2>5. ~Reject("drain")
    BY <2>1, <2>2 DEF Reject, Defers
  <2>6. ~AcknowledgeFails("drain") /\ ~CommitFails("drain")
    BY <1>1, <2>2 DEF AcknowledgeFails, CommitFails
  <2>. QED BY <1>7, <2>3, <2>4, <2>5, <2>6 DEF Deliver
<1>8. CASE \E d \in Deliverers, i \in Waiting : Claim(d, i)
  BY <1>1, <1>8 DEF Claim
<1>. QED BY <1>2, <1>3, <1>4, <1>5, <1>6, <1>7, <1>8, Steps

\* While everybody rests, the other delivery neither accepts nor settles, and no
\* row changes unless it is claimed or acknowledged.
LEMMA RestingRows ==
  ASSUME Base, [Next]_vars, Rest, Rest', at["drain"] = "idle", at'["drain"] = "idle"
  PROVE  /\ \/ row' = row
            \/ Acknowledge("continued")
            \/ \E d \in Deliverers, i \in Waiting : Claim(d, i)
         /\ at'["continued"] \in {"ack", "retry", "open"} =>
              at["continued"] \in {"ack", "retry", "open"}
<1>1. /\ Deliverers = {"drain", "continued"} /\ at \in [Deliverers -> Places]
      /\ parked = "no" /\ parked' = "no" /\ turn' = NoTurn /\ ~owed'
  BY DEF Base, TypeOK, Deliverers, Rest
<1>2. ~Deliver("drain")
  BY <1>1, DeliverMoves DEF Base, Between
<1>3. ~Accept("continued")
  <2>1. ASSUME Accept("continued")
        PROVE  FALSE
    <3>1. job["continued"].claim # 0 /\ turn'.claim = job["continued"].claim
      BY <1>1, <2>1, AtWork DEF Accept, Base, Between
    <3>. QED BY <1>1, <3>1, NoTurnType
  <2>. QED BY <2>1
<1>4. ~Settle("continued")
  <2>1. ASSUME NEW again, NEW why \in {"continued", "threw"}, Ended("continued", again, why)
        PROVE  FALSE
    BY <1>1, <2>1 DEF Ended
  <2>. QED BY <1>1, <2>1 DEF Settle
<1>5. CASE Outside
  <2>1. ~Wake /\ parked' \notin {"recovered", "restarted"}
    BY <1>1 DEF Wake
  <2>2. row' = row
    BY <1>1, <1>5, <2>1 DEF Outside, Enqueue, RequestCancellation, LeaseOut, Resume, Stop,
       StartDrain, RecoverBeforeClaim, DrainFindsNothing, DirectTurn, Abort, TurnEnds, HostStarts,
       EndsBeforeHost, HostEnds, Released, RecoverPending, Restart, vars, rows
  <2>. QED BY <1>1, <1>5, <2>2, OutsideMoves DEF Base, Between
<1>6. CASE Deliver("continued")
  <2>1. row' = row \/ Acknowledge("continued")
    BY <1>3, <1>4, <1>6 DEF Deliver, Check, Prepare, Reject, AcknowledgeFails, CommitFails,
       OpenStart, rows
  <2>. QED BY <1>1, <1>3, <1>6, <2>1, DeliverMoves DEF Base, Between
<1>7. CASE \E d \in Deliverers, i \in Waiting : Claim(d, i)
  BY <1>1, <1>7 DEF Claim
<1>. QED BY <1>1, <1>2, <1>5, <1>6, <1>7, Steps

\* No wake is lost.
LEMMA WakeKept ==
  ASSUME Base, OrderInv, WakeInv, [Next]_vars
  PROVE  WakeInv'
<1>. SUFFICES ASSUME Rest' PROVE WakeInv'
  BY DEF WakeInv
<1>1. /\ Deliverers = {"drain", "continued"} /\ at \in [Deliverers -> Places]
      /\ NextStep \in {"recover", "claim"}
  BY DEF Base, TypeOK, Deliverers, NextStep
<1>2. ASSUME DrainTurns
      PROVE  at'["drain"] \in Between /\ (at["drain"] = "idle" => at'["drain"] # "idle")
  BY <1>1, <1>2 DEF DrainTurns, StartDrain, Ended, Between
<1>3. at'["drain"] \notin {"ack", "retry", "open"}
  <2>1. ASSUME at'["drain"] \in {"ack", "retry", "open"}
        PROVE  at["drain"] \in {"ack", "retry", "open"}
    <3>1. ~Accept("drain")
      <4>1. ASSUME Accept("drain")
            PROVE  FALSE
        <5>1. job["drain"].claim # 0 /\ turn'.claim = job["drain"].claim
          BY <1>1, <4>1, AtWork DEF Accept, Base, Between
        <5>. QED BY <5>1, NoTurnType DEF Rest
      <4>. QED BY <4>1
    <3>2. CASE Outside
      BY <1>1, <2>1, <3>2, OutsideMoves DEF Base, Between
    <3>3. CASE \E d \in Deliverers : Deliver(d)
      BY <1>1, <2>1, <3>1, <3>3, DeliverMoves DEF Base, Between
    <3>4. CASE \E d \in Deliverers, i \in Waiting : Claim(d, i)
      BY <1>1, <2>1, <3>4 DEF Claim
    <3>. QED BY <3>2, <3>3, <3>4, Steps
  <2>2. ASSUME at'["drain"] \in {"ack", "retry", "open"}
        PROVE  FALSE
    <3>1. ~Rest
      BY <2>1, <2>2 DEF WakeInv
    <3>2. DrainTurns
      BY <3>1, RestComesFromDrain
    <3>. QED BY <1>2, <2>2, <3>2 DEF Between
  <2>. QED BY <2>2
<1>4. ~(at'["drain"] = "settle" /\ job'["drain"].why = "no" /\ ~job'["drain"].again)
  <2>1. ASSUME at'["drain"] = "settle", job'["drain"].why = "no", ~job'["drain"].again
        PROVE  FALSE
    <3>1. at["drain"] = "settle" /\ job'["drain"] = job["drain"]
      BY <2>1, DrainDecides
    <3>2. ~Rest
      BY <2>1, <3>1 DEF WakeInv
    <3>3. DrainTurns
      BY <3>2, RestComesFromDrain
    <3>. QED BY <1>2, <2>1, <3>3 DEF Between
  <2>. QED BY <2>1
<1>5. ASSUME at'["drain"] = "idle"
      PROVE  Waiting' = {} \/ (Claimed' # {} /\ at'["continued"] \notin {"ack", "retry", "open"})
  <2>1. CASE at["drain"] # "idle"
    BY <1>5, <2>1, DrainStops
  <2>2. CASE at["drain"] = "idle"
    <3>1. Rest
      BY <1>2, <1>5, <2>2, RestComesFromDrain
    <3>2. Waiting = {} \/ (Claimed # {} /\ at["continued"] \notin {"ack", "retry", "open"})
      BY <2>2, <3>1 DEF WakeInv
    <3>3. ~ \E d \in Deliverers, i \in Waiting : Claim(d, i)
      BY <3>2 DEF Claim
    <3>4. CASE row' = row
      BY <1>5, <2>2, <3>1, <3>2, <3>4, RestingRows DEF Waiting, Claimed
    <3>5. CASE Acknowledge("continued")
      <4>1. at["continued"] \in {"ack", "retry"} /\ Waiting = {}
        BY <3>2, <3>5 DEF Acknowledge
      <4>2. Waiting' = {}
        BY <3>5, <4>1 DEF Acknowledge, Waiting, Base, TypeOK
      <4>. QED BY <4>2
    <3>. QED BY <1>5, <2>2, <3>1, <3>3, <3>4, <3>5, RestingRows
  <2>. QED BY <2>1, <2>2
<1>. QED BY <1>3, <1>4, <1>5 DEF WakeInv

-----------------------------------------------------------------------------
\* The program starts in the invariants.
LEMMA InitWakes == Init => OrderInv /\ WaitInv /\ WakeInv
<1>. SUFFICES ASSUME Init PROVE OrderInv /\ WaitInv /\ WakeInv
  OBVIOUS
<1>1. \A d \in Deliverers : at[d] = "idle"
  BY DEF Init
<1>2. at["drain"] = "idle" /\ Waiting = {}
  BY <1>1 DEF Init, Deliverers, Waiting
<1>3. OrderInv
  BY <1>1, <1>2 DEF Init, OrderInv, Between
<1>4. WaitInv
  BY <1>1 DEF Init, WaitInv, Unanswered
<1>5. WakeInv
  BY <1>2 DEF WakeInv
<1>. QED BY <1>3, <1>4, <1>5

\* What was proved of the deliveries holds at the start and stays.
LEMMA InitBase == Init => Base
BY InitInv, InitNotes DEF Base

LEMMA BaseKept == Base /\ [Next]_vars => Base'
BY NextKeeps, NextNotes DEF Base

\* By the time its message has left the queue and its turn has ended, the
\* submitter has its answer.
THEOREM SubmitterHears == Spec => []SubmitterIsAnswered
<1>1. Base /\ WaitInv => SubmitterIsAnswered
  BY DEF Base, TypeOK, WaitInv, SubmitterIsAnswered, Unanswered, Queued, Waits, Gone
<1>. QED BY <1>1, InitBase, InitWakes, BaseKept, OrderKept, WaitKept, PTL DEF Spec

\* A wake that comes while the dispatcher is busy is not forgotten: an idle queue
\* with a row in it has a reason on record.
THEOREM WakesAreKept == Spec => []NoLostWake
<1>1. WakeInv => NoLostWake
  BY DEF WakeInv, NoLostWake, Stranded, Rest, Deliverers
<1>. QED BY <1>1, InitBase, InitWakes, BaseKept, OrderKept, WakeKept, PTL DEF Spec

-----------------------------------------------------------------------------
(* What the queue promises of its messages and of its turns.               *)

\* Before its acceptance.
Early == {"check", "prepare", "admit"}

\* A turn before its end, and what was cut off, have their receipts.
OwnTurn ==
  /\ cut \subseteq accepted
  /\ turn.claim # 0 => turn.claim \in accepted \ cut
  /\ turn.phase = "none" => turn = NoTurn
  /\ turn # NoTurn /\ turn.claim = 0 => direct # 0

\* A delivery has no receipt before its acceptance.
OwnJobs == \A d \in Deliverers : at[d] \in Early => job[d].claim \notin accepted

\* The attempt noted on a row that is gone is that of its turn.
OwnAttempts ==
  /\ \A d \in Deliverers : at[d] = "open" => attempt[job[d].item] = job[d].claim
  /\ turn.phase = "open" => attempt[turn.item] = turn.claim

OwnInv == OwnTurn /\ OwnJobs /\ OwnAttempts

\* How a delivery goes on.
LEMMA DeliverStages ==
  ASSUME TypeOK, NEW d \in Deliverers, Deliver(d)
  PROVE  \/ at'[d] \in Between
         \/ /\ job'[d].item = job[d].item /\ job'[d].claim = job[d].claim
            /\ at'[d] \in Early => at[d] \in Early
            /\ at'[d] = "open" => Acknowledge(d)
<1>1. at \in [Deliverers -> Places] /\ job \in [Deliverers -> Jobs] /\ job[d] \in Jobs
  BY DEF TypeOK
<1>2. CASE \E how, again, why : Leaves(d, how, again, why) \/ Settles(d, how, again, why)
  <2>1. PICK how, again, why : Settles(d, how, again, why)
    BY <1>2 DEF Leaves
  <2>. QED BY <1>1, <2>1 DEF Settles, Jobs, Early
<1>3. CASE \E again, why : Ended(d, again, why)
  <2>1. PICK again, why : Ended(d, again, why)
    BY <1>3
  <2>2. NextStep \in Between /\ "idle" \in Between
    BY DEF NextStep, Between
  <2>. QED BY <1>1, <2>1, <2>2 DEF Ended
<1>4. CASE /\ job' = job
           /\ \/ at[d] = "check" /\ at' = [at EXCEPT ![d] = "prepare"]
              \/ at[d] = "prepare" /\ at' = [at EXCEPT ![d] = "admit"]
              \/ \E place \in {"ack", "retry"} : at' = [at EXCEPT ![d] = place]
              \/ Acknowledge(d) /\ at' = [at EXCEPT ![d] = "open"]
  BY <1>1, <1>4 DEF Early
<1>. QED BY <1>2, <1>3, <1>4 DEF Deliver, Check, Prepare, Accept, Reject, Acknowledge,
            AcknowledgeFails, CommitFails, OpenStart, Settle, Defers

\* The other deliverer is left alone.
LEMMA OthersStay ==
  ASSUME TypeOK, NEW d \in Deliverers, Deliver(d)
  PROVE  \A e \in Deliverers \ {d} : at'[e] = at[e] /\ job'[e] = job[e]
BY DeliverMoves

\* What a step does to the turn: it ends, or goes on, or the session takes a new one.
TurnStays ==
  /\ accepted' = accepted /\ cut' = cut /\ direct' = direct
  /\ turn'.claim = turn.claim /\ turn'.item = turn.item /\ (turn' = NoTurn <=> turn = NoTurn)
  /\ turn'.phase = "host" <=> turn.phase = "host"
  /\ turn'.phase \in BeforeHost <=> turn.phase \in BeforeHost
TurnOver ==
  /\ accepted' = accepted /\ direct' = direct
  /\ turn # NoTurn /\ turn' = NoTurn
  /\ cut' = IF turn.phase = "host" THEN cut ELSE cut \cup {turn.claim}

LEMMA TurnMoves ==
  ASSUME Base, OwnInv, [Next]_vars
  PROVE  \/ TurnStays \/ TurnOver \/ HostStarts \/ DirectTurn
         \/ \E d \in Deliverers : Accept(d)
<1>0. turn \in Turns
  BY DEF Base, TypeOK
<1>1. ASSUME turn' = turn, accepted' = accepted, cut' = cut, direct' = direct
      PROVE  TurnStays
  BY <1>1 DEF TurnStays
<1>2. ASSUME NEW d \in Deliverers, FailStart(d) \/ OpenStart(d),
             accepted' = accepted, cut' = cut, direct' = direct
      PROVE  TurnStays
  <2>1. CASE turn' = turn
    BY <1>1, <1>2, <2>1 DEF TurnStays
  <2>2. CASE \E phase \in {"doomed", "open"} :
               turn.phase = "fenced" /\ turn' = [turn EXCEPT !.phase = phase]
    BY <1>0, <1>2, <2>2 DEF TurnStays, Turns, NoTurn, BeforeHost
  <2>. QED BY <1>2, <2>1, <2>2 DEF FailStart, OpenStart
<1>3. CASE Abort
  <2>1. turn # NoTurn /\ turn' = [turn EXCEPT !.aborted = TRUE]
        /\ accepted' = accepted /\ cut' = cut /\ direct' = direct
    BY <1>3 DEF Abort, books, hist
  <2>. QED BY <1>0, <2>1 DEF TurnStays, Turns, NoTurn, BeforeHost
<1>4. CASE EndsBeforeHost \/ HostEnds
  <2>1. turn' = NoTurn /\ accepted' = accepted /\ direct' = direct
    BY <1>4 DEF EndsBeforeHost, HostEnds, Released, books
  <2>2. turn.phase # "none" => turn # NoTurn
    BY DEF NoTurn
  <2>3. \/ turn.phase \in {"doomed", "open"} /\ cut' = cut \cup {turn.claim}
        \/ turn.phase = "host" /\ cut' = cut
    BY <1>4 DEF EndsBeforeHost, HostEnds
  <2>. QED BY <2>1, <2>2, <2>3 DEF TurnOver
<1>5. CASE Restart
  <2>1. turn' = NoTurn /\ accepted' = accepted /\ direct' = direct
        /\ cut' = cut \cup (IF turn.phase \in BeforeHost THEN {turn.claim} ELSE {})
    BY <1>5 DEF Restart, books, BeforeHost
  <2>2. CASE turn = NoTurn
    BY <2>1, <2>2 DEF TurnStays, NoTurn, BeforeHost
  <2>3. CASE turn # NoTurn /\ turn.phase # "none"
    BY <1>0, <2>1, <2>3 DEF TurnOver, Turns, BeforeHost
  <2>. QED BY <2>2, <2>3 DEF OwnInv, OwnTurn
<1>6. CASE Outside
  BY <1>1, <1>3, <1>4, <1>5, <1>6 DEF Outside, Enqueue, RequestCancellation, LeaseOut, Resume, Stop,
     StartDrain, RecoverBeforeClaim, DrainFindsNothing, TurnEnds, RecoverPending, vars, books, hist
<1>7. ASSUME NEW d \in Deliverers, Deliver(d), ~Accept(d)
      PROVE  TurnStays
  <2>1. CASE AcknowledgeFails(d) \/ CommitFails(d)
    <3>1. turn' = turn \/ FailStart(d)
      BY <2>1 DEF AcknowledgeFails, CommitFails
    <3>2. accepted' = accepted /\ cut' = cut /\ direct' = direct
      BY <2>1 DEF AcknowledgeFails, CommitFails, books, hist
    <3>. QED BY <1>1, <1>2, <3>1, <3>2
  <2>2. CASE OpenStart(d)
    <3>1. accepted' = accepted /\ cut' = cut /\ direct' = direct
      BY <2>2 DEF OpenStart, books, hist
    <3>. QED BY <1>2, <2>2, <3>1
  <2>3. CASE Settle(d)
    BY <1>1, <2>3 DEF Settle, books, hist
  <2>4. CASE Check(d) \/ Prepare(d) \/ Reject(d) \/ Acknowledge(d)
    BY <1>1, <2>4 DEF Check, Prepare, Reject, Acknowledge, books, hist
  <2>. QED BY <1>7, <2>1, <2>2, <2>3, <2>4 DEF Deliver
<1>8. ASSUME NEW d \in Deliverers, NEW i \in Waiting, Claim(d, i)
      PROVE  TurnStays
  BY <1>1, <1>8 DEF Claim, hist
<1>. QED BY <1>4, <1>6, <1>7, <1>8, Steps

\* An attempt is noted on a claimed row only.
LEMMA AttemptsStay ==
  ASSUME Base, [Next]_vars, NEW i \in Items, row[i] # "claimed"
  PROVE  attempt'[i] = attempt[i]
<1>1. CASE attempt' = attempt
  BY <1>1
<1>2. ASSUME NEW d \in Deliverers, Prepare(d), attempt' # attempt
      PROVE  attempt'[i] = attempt[i]
  <2>1. Holds(d) /\ at[d] \notin Between /\ attempt' = [attempt EXCEPT ![job[d].item] = job[d].claim]
    BY <1>2 DEF Prepare, Between
  <2>2. job[d].item \in Items /\ job[d].claim # 0
    BY <2>1, AtWork DEF Base
  <2>3. job[d].item # i
    BY <2>1, <2>2 DEF Holds, Base, TypeOK
  <2>. QED BY <2>1, <2>2, <2>3 DEF Base, TypeOK
<1>3. CASE \E d \in Deliverers : Deliver(d)
  BY <1>1, <1>2, <1>3 DEF Deliver, Check, Accept, Reject, Acknowledge, AcknowledgeFails,
     CommitFails, OpenStart, Settle, rows
<1>4. CASE Outside
  BY <1>1, <1>4 DEF Outside, Enqueue, RequestCancellation, LeaseOut, Resume, Stop, StartDrain,
     RecoverBeforeClaim, DrainFindsNothing, DirectTurn, Abort, TurnEnds, HostStarts,
     EndsBeforeHost, HostEnds, Released, RecoverPending, Restart, TakeBack, vars, rows
<1>. QED BY <1>1, <1>3, <1>4, Steps DEF Claim

\* The host may start what it might before, or what a start fence let through.
LEMMA OpensMove ==
  ASSUME Base, [Next]_vars, turn'.phase = "open", turn.phase # "open"
  PROVE  \E d \in Deliverers : /\ at[d] = "open" /\ turn.claim = job[d].claim
                              /\ turn'.claim = turn.claim /\ turn'.item = turn.item
<1>0. turn \in Turns
  BY DEF Base, TypeOK
<1>1. turn' # turn /\ turn' # NoTurn
  BY DEF NoTurn
<1>2. ASSUME NEW d \in Deliverers, OpenStart(d)
      PROVE  /\ at[d] = "open" /\ turn.claim = job[d].claim
             /\ turn'.claim = turn.claim /\ turn'.item = turn.item
  BY <1>0, <1>1, <1>2 DEF OpenStart, Mine, Turns
<1>3. ASSUME NEW d \in Deliverers, FailStart(d)
      PROVE  FALSE
  BY <1>0, <1>1, <1>3 DEF FailStart, Turns
<1>4. ASSUME NEW d \in Deliverers, Accept(d)
      PROVE  FALSE
  BY <1>4 DEF Accept, StartPhase
<1>5. ASSUME NEW d \in Deliverers, Deliver(d), ~OpenStart(d)
      PROVE  FALSE
  BY <1>1, <1>3, <1>4, <1>5 DEF Deliver, Check, Prepare, Reject, Acknowledge,
     AcknowledgeFails, CommitFails, Settle
<1>6. CASE Abort \/ HostStarts \/ DirectTurn
  BY <1>0, <1>6 DEF Abort, HostStarts, DirectTurn, Turns, NoTurn
<1>7. CASE Outside
  BY <1>1, <1>6, <1>7 DEF Outside, Enqueue, RequestCancellation, LeaseOut, Resume, Stop,
     StartDrain, RecoverBeforeClaim, DrainFindsNothing, TurnEnds, EndsBeforeHost, HostEnds,
     Released, RecoverPending, Restart, vars
<1>. QED BY <1>1, <1>2, <1>5, <1>7, Steps DEF Claim

\* What a step does to the jobs, seen by one deliverer.
LEMMA JobMoves ==
  ASSUME Base, [Next]_vars, NEW d \in Deliverers
  PROVE  \/ at'[d] \in Between
         \/ /\ job'[d].item = job[d].item /\ job'[d].claim = job[d].claim
            /\ at'[d] \in Early => at[d] \in Early
            /\ at'[d] = "open" => at[d] = "open" \/ Acknowledge(d)
         \/ \E i \in Waiting : /\ Claim(d, i) /\ job'[d].claim = claims + 1 /\ job'[d].item = i
                              /\ at'[d] = "check" /\ accepted' = accepted
<1>0. TypeOK
  BY DEF Base
<1>1. CASE Outside
  BY <1>0, <1>1, OutsideMoves
<1>2. CASE Deliver(d)
  BY <1>0, <1>2, DeliverStages
<1>3. ASSUME NEW e \in Deliverers \ {d}, Deliver(e)
      PROVE  at'[d] = at[d] /\ job'[d] = job[d]
  BY <1>0, <1>3, OthersStay
<1>4. ASSUME NEW e \in Deliverers \ {d}, NEW i \in Waiting, Claim(e, i)
      PROVE  at'[d] = at[d] /\ job'[d] = job[d]
  BY <1>0, <1>4 DEF Claim, TypeOK
<1>5. ASSUME NEW i \in Waiting, Claim(d, i)
      PROVE  /\ job'[d].claim = claims + 1 /\ job'[d].item = i
             /\ at'[d] = "check" /\ accepted' = accepted
  BY <1>0, <1>5 DEF Claim, TypeOK, NoJob
<1>. QED BY <1>1, <1>2, <1>3, <1>4, <1>5, Steps

\* The acceptance of a turn: it names its claim, for the first time.
LEMMA Accepts ==
  ASSUME Base, OwnInv, NEW d \in Deliverers, Accept(d)
  PROVE  /\ turn = NoTurn /\ turn'.claim = job[d].claim /\ turn'.item = job[d].item
         /\ job[d].claim \in Claims \ accepted
         /\ turn'.phase \in {"fenced", "doomed"} /\ turn' # NoTurn
         /\ accepted' = accepted \cup {job[d].claim} /\ cut' = cut /\ direct' = direct
<1>1. at[d] \in Early /\ at[d] \notin Between
  BY DEF Accept, Early, Between
<1>2. job[d].claim \in Claims \ accepted
  BY <1>1, AtWork DEF Base, OwnInv, OwnJobs
<1>3. turn'.claim = job[d].claim /\ turn'.item = job[d].item /\ turn'.phase \in {"fenced", "doomed"}
  BY DEF Accept, StartPhase
<1>4. turn' # NoTurn
  BY <1>3 DEF NoTurn
<1>. QED BY <1>2, <1>3, <1>4 DEF Accept, hist

\* A turn that is recorded, or was cut off, keeps its receipt.
LEMMA OwnTurnKept ==
  ASSUME Base, OwnInv, [Next]_vars
  PROVE  OwnTurn'
<1>0. /\ TypeOK /\ DeliveryInv /\ AckInv /\ turn \in Turns /\ direct \in Nat
      /\ accepted \subseteq Claims /\ 0 \notin accepted
  BY Bounds DEF Base, TypeOK, Claims
<1>1. CASE TurnStays
  <2>1. turn'.phase = "none" => turn' = NoTurn
    BY <1>0, <1>1 DEF TurnStays, OwnInv, OwnTurn, Turns, BeforeHost
  <2>. QED BY <1>1, <2>1 DEF TurnStays, OwnInv, OwnTurn
<1>2. CASE TurnOver
  <2>1. turn.phase # "host" => turn.claim # 0
    BY <1>0, <1>2 DEF TurnOver, OwnInv, OwnTurn, Turns, DeliveryInv
  <2>. QED BY <1>2, <2>1, NoTurnType DEF TurnOver, OwnInv, OwnTurn
<1>3. CASE HostStarts
  <2>1. turn.phase = "open" /\ turn'.claim = turn.claim /\ turn'.phase = "host"
    BY <1>0, <1>3 DEF HostStarts, Turns
  <2>2. turn.claim # 0 /\ accepted' = accepted /\ cut' = cut
    BY <1>0, <1>3, <2>1 DEF HostStarts, DeliveryInv, books
  <2>. QED BY <2>1, <2>2 DEF OwnInv, OwnTurn
<1>4. CASE DirectTurn
  <2>1. turn'.claim = 0 /\ turn'.phase = "host" /\ direct' = direct + 1
        /\ accepted' = accepted /\ cut' = cut
    BY <1>4 DEF DirectTurn, NoTurn, books, hist
  <2>. QED BY <1>0, <2>1 DEF OwnInv, OwnTurn
<1>5. CASE \E d \in Deliverers : Accept(d)
  <2>1. PICK d \in Deliverers : Accept(d)
    BY <1>5
  <2>2. /\ turn'.claim = job[d].claim /\ job[d].claim \in Claims \ accepted
        /\ turn'.phase \in {"fenced", "doomed"}
        /\ accepted' = accepted \cup {job[d].claim} /\ cut' = cut
    BY <2>1, Accepts
  <2>3. job[d].claim # 0
    BY <2>2, Bounds DEF Claims
  <2>. QED BY <2>2, <2>3 DEF OwnInv, OwnTurn
<1>. QED BY <1>1, <1>2, <1>3, <1>4, <1>5, TurnMoves

\* Receipts are taken by acceptances alone.
LEMMA ReceiptsMove ==
  ASSUME Base, OwnInv, [Next]_vars
  PROVE  accepted' = accepted \/ \E d \in Deliverers : Accept(d)
<1>1. HostStarts \/ DirectTurn => accepted' = accepted
  BY DEF HostStarts, DirectTurn, books
<1>. QED BY <1>1, TurnMoves DEF TurnStays, TurnOver

\* A delivery that has not been accepted has no receipt.
LEMMA OwnJobsKept ==
  ASSUME Base, OwnInv, [Next]_vars
  PROVE  OwnJobs'
<1>. SUFFICES ASSUME NEW d \in Deliverers, at'[d] \in Early
              PROVE  job'[d].claim \notin accepted'
  BY DEF OwnJobs
<1>0. TypeOK /\ DeliveryInv /\ AckInv /\ claims \in Nat /\ at'[d] \notin Between
  BY Bounds DEF Base, TypeOK, Early, Between
<1>1. CASE job'[d].claim = job[d].claim /\ at[d] \in Early
  <2>1. job[d].claim \notin accepted
    BY <1>1 DEF OwnInv, OwnJobs
  <2>2. ASSUME NEW e \in Deliverers, Accept(e)
        PROVE  job[d].claim # job[e].claim
    <3>1. at'[e] = "ack"
      BY <1>0, <2>2 DEF Accept, TypeOK
    <3>2. d # e /\ at[d] \notin Between
      BY <1>1, <3>1 DEF Early, Between
    <3>. QED BY <1>0, <3>2 DEF DeliveryInv
  <2>3. CASE \E e \in Deliverers : Accept(e)
    BY <1>1, <2>1, <2>2, <2>3, Accepts
  <2>. QED BY <1>1, <2>1, <2>3, ReceiptsMove
<1>2. CASE job'[d].claim = claims + 1 /\ accepted' = accepted
  BY <1>0, <1>2 DEF AckInv, AttemptInv
<1>. QED BY <1>0, <1>1, <1>2, JobMoves

\* The attempt that opens the host is the turn's.
LEMMA OwnAttemptsKept ==
  ASSUME Base, OwnInv, [Next]_vars
  PROVE  OwnAttempts'
<1>0. TypeOK /\ DeliveryInv /\ AckInv /\ turn \in Turns
  BY DEF Base, TypeOK
<1>1. ASSUME NEW d \in Deliverers, at[d] = "open"
      PROVE  attempt'[job[d].item] = job[d].claim
  <2>1. job[d].item \in Items /\ row[job[d].item] = "acked"
    BY <1>0, <1>1, AtWork DEF DeliveryInv, Between
  <2>. QED BY <1>1, <2>1, AttemptsStay DEF OwnInv, OwnAttempts
<1>2. ASSUME NEW d \in Deliverers, at'[d] = "open"
      PROVE  attempt'[job'[d].item] = job'[d].claim
  <2>1. CASE at[d] = "open" /\ job'[d].item = job[d].item /\ job'[d].claim = job[d].claim
    BY <1>1, <2>1
  <2>2. CASE Acknowledge(d) /\ job'[d].item = job[d].item /\ job'[d].claim = job[d].claim
    <3>1. at[d] \in Deciding /\ Holds(d) /\ attempt' = attempt
      BY <2>2 DEF Acknowledge, Acknowledgeable, Deciding
    <3>. QED BY <1>0, <2>2, <3>1 DEF AckInv, AttemptInv
  <2>. QED BY <1>2, <2>1, <2>2, JobMoves DEF Between
<1>3. ASSUME turn'.phase = "open"
      PROVE  attempt'[turn'.item] = turn'.claim
  <2>1. CASE turn.phase = "open"
    <3>1. turn'.claim = turn.claim /\ turn'.item = turn.item
      <4>1. turn' # NoTurn /\ turn # NoTurn
        BY <1>3, <2>1 DEF NoTurn
      <4>2. ~HostStarts /\ ~DirectTurn
        BY <1>0, <1>3, <4>1 DEF HostStarts, DirectTurn, NoTurn, Turns
      <4>. QED BY <4>1, <4>2, TurnMoves, Accepts DEF TurnStays, TurnOver
    <3>2. turn.item \in Items /\ row[turn.item] = "acked"
      BY <1>0, <2>1 DEF DeliveryInv, Turns, Items
    <3>. QED BY <2>1, <3>1, <3>2, AttemptsStay DEF OwnInv, OwnAttempts
  <2>2. CASE turn.phase # "open"
    <3>1. PICK d \in Deliverers : /\ at[d] = "open" /\ turn.claim = job[d].claim
                                 /\ turn'.claim = turn.claim /\ turn'.item = turn.item
      BY <1>3, <2>2, OpensMove
    <3>2. turn.item = job[d].item
      BY <1>0, <3>1, AtWork DEF DeliveryInv, Between
    <3>. QED BY <1>1, <3>1, <3>2
  <2>. QED BY <2>1, <2>2
<1>. QED BY <1>2, <1>3 DEF OwnAttempts

\* The invariant of the refinement is inductive.
FateInv == Base /\ OwnInv

LEMMA InitFates == Init => FateInv
<1>1. Init => OwnInv
  BY DEF Init, OwnInv, OwnTurn, OwnJobs, OwnAttempts, NoTurn, Early
<1>. QED BY <1>1, InitBase DEF FateInv

LEMMA FateInvKept == FateInv /\ [Next]_vars => FateInv'
BY BaseKept, OwnTurnKept, OwnJobsKept, OwnAttemptsKept DEF FateInv, OwnInv

-----------------------------------------------------------------------------
(* The fates.                                                              *)

Deleted == {"rejected", "cancelled", "replayed"}

\* No message is lost, so its row and the history tell its fate.
Plain == [i \in Items |->
  IF row[i] = "new" THEN "new" ELSE IF row[i] \in Queued THEN "queued"
  ELSE IF row[i] \in Deleted THEN "refused" ELSE IF ran[i] # 0 THEN "ran"
  ELSE IF attempt[i] \in cut THEN "cut" ELSE "leaving"]

LEMMA FateIsPlain == Base => Fate = Plain
<1>. SUFFICES ASSUME Base, NEW i \in Items
              PROVE  Fate[i] = Plain[i]
  BY DEF Fate, Plain
<1>1. row[i] \in Rows /\ row[i] # "recovered"
  BY DEF Base, TypeOK, AckInv, TraceInv
<1>2. row[i] = "acked" => ran[i] # 0 \/ OnItsWay(i) \/ attempt[i] \in cut
  BY DEF Base, AckInv, TraceInv
<1>3. Fate[i] = CASE row[i] = "new"                                          -> "new"
    [] row[i] \in {"waiting", "claimed"}                                  -> "queued"
    [] row[i] \in {"rejected", "cancelled", "replayed"}                   -> "refused"
    [] row[i] \in {"acked", "recovered"} /\ ran[i] # 0                    -> "ran"
    [] row[i] = "acked" /\ ran[i] = 0 /\ attempt[i] \in cut               -> "cut"
    [] row[i] = "acked" /\ ran[i] = 0 /\ attempt[i] \notin cut /\ OnItsWay(i) -> "leaving"
    [] OTHER                                                              -> "lost"
  BY DEF Fate
<1>. QED BY <1>1, <1>2, <1>3 DEF Plain, Rows, Gone, Queued, Deleted

\* A message on its way is its turn's, and its turn alone has the session.
LEMMA LeavingIsOnItsWay ==
  ASSUME FateInv, NEW i \in Items, Plain[i] = "leaving"
  PROVE  /\ row[i] = "acked" /\ ran[i] = 0 /\ attempt[i] \notin cut
         /\ turn.item = i /\ turn.claim = attempt[i] /\ turn.phase \in BeforeHost
<1>1. row[i] \in Rows /\ row[i] # "recovered"
  BY DEF FateInv, Base, TypeOK, AckInv, TraceInv
<1>2. row[i] = "acked" /\ ran[i] = 0 /\ attempt[i] \notin cut
  BY <1>1 DEF Plain, Rows, Gone, Queued, Deleted
<1>. QED BY <1>2 DEF FateInv, Base, AckInv, TraceInv, OnItsWay

\* Before and after a step.
LEMMA FatesArePlain == FateInv /\ [Next]_vars => Fate = Plain /\ Fate' = Plain'
<1>1. (Base => Fate = Plain)'
  BY FateIsPlain, PTL
<1>. QED BY <1>1, FateIsPlain, BaseKept DEF FateInv

\* Nobody has the session while no turn does.
LEMMA NoTurnIsFree ==
  ASSUME FateInv, turn = NoTurn
  PROVE  Hosted = "none" /\ \A i \in Items : Plain[i] # "leaving"
<1>1. turn.phase \notin BeforeHost /\ turn.phase # "host"
  BY NoTurnType DEF BeforeHost
<1>. QED BY <1>1, LeavingIsOnItsWay DEF Hosted

\* The fate of a message is told by its row, its runs and what was cut off.
LEMMA PlainStays ==
  ASSUME FateInv, [Next]_vars, NEW i \in Items,
         row'[i] = row[i] \/ (row[i] \in Queued /\ row'[i] \in Queued),
         row[i] = "acked" => ran'[i] = ran[i] /\ (attempt[i] \in cut' <=> attempt[i] \in cut)
  PROVE  Plain'[i] = Plain[i]
<1>1. row[i] \in Rows /\ row[i] # "recovered"
  BY DEF FateInv, Base, TypeOK, AckInv, TraceInv
<1>2. row[i] = "acked" => attempt'[i] = attempt[i]
  BY AttemptsStay DEF FateInv
<1>3. CASE row[i] = "acked"
  BY <1>2, <1>3 DEF Plain, Queued
<1>4. CASE row[i] # "acked"
  BY <1>1, <1>4 DEF Plain, Rows, Gone, Queued, Deleted
<1>. QED BY <1>3, <1>4

\* Rows change their class when they are queued, answered or acknowledged.
LEMMA ClassesStay ==
  ASSUME FateInv, [Next]_vars, NEW i \in Items, ~Enqueue(i),
         ~ \E d \in Deliverers : Acknowledge(d) \/ Settle(d)
  PROVE  row'[i] = row[i] \/ (row[i] \in Queued /\ row'[i] \in Queued)
<1>1. row \in [Items -> Rows] /\ TypeOK /\ AckInv
  BY DEF FateInv, Base, TypeOK
<1>2. CASE \E j \in Items : Enqueue(j)
  BY <1>1, <1>2 DEF Enqueue
<1>3. CASE \E S : S \subseteq Claimed /\ TakeBack(S)
  <2>1. PICK S : S \subseteq Claimed /\ TakeBack(S)
    BY <1>3
  <2>2. i \in S => row[i] = "claimed" /\ claim[i] # 0
    BY <1>1, <2>1 DEF Claimed, TypeOK
  <2>3. ~(i \in S /\ Delivered(i))
    BY <1>1, <2>2 DEF Delivered, AckInv, AttemptInv
  <2>. QED BY <2>1, <2>2, <2>3 DEF TakeBack, Queued
<1>4. CASE \E d \in Deliverers, k \in Waiting : Claim(d, k)
  BY <1>1, <1>4 DEF Claim, Waiting, Queued
<1>5. CASE UNCHANGED row
  BY <1>5
<1>6. CASE \E d \in Deliverers : Deliver(d)
  BY <1>5, <1>6 DEF Deliver, Check, Prepare, Accept, Reject, AcknowledgeFails, CommitFails,
     OpenStart, rows
<1>7. CASE Outside
  BY <1>2, <1>3, <1>5, <1>7 DEF Outside, RequestCancellation, LeaseOut, Resume, Stop, StartDrain,
     RecoverBeforeClaim, DrainFindsNothing, DirectTurn, Abort, TurnEnds, HostStarts,
     EndsBeforeHost, HostEnds, Released, RecoverPending, Restart, vars, rows
<1>. QED BY <1>4, <1>6, <1>7, Steps

\* Only the start of the host counts.
LEMMA RunsMove ==
  ASSUME [Next]_vars, ~HostStarts
  PROVE  ran' = ran
<1>1. CASE \E d \in Deliverers : Deliver(d)
  BY <1>1 DEF Deliver, Check, Prepare, Accept, Reject, Acknowledge, AcknowledgeFails, CommitFails,
     OpenStart, Settle, hist
<1>2. CASE Outside
  BY <1>2 DEF Outside, Enqueue, RequestCancellation, LeaseOut, Resume, Stop, StartDrain,
     RecoverBeforeClaim, DrainFindsNothing, DirectTurn, Abort, TurnEnds,
     EndsBeforeHost, HostEnds, Released, RecoverPending, Restart, vars, hist
<1>. QED BY <1>1, <1>2, Steps DEF Claim, hist

\* What is with the host, and each fate, as the promise sees them.
FateStep == [Fates!Next]_<<Fate, Hosted>>

\* A change of one fate.
LEMMA OneFate ==
  ASSUME NEW j \in Items, NEW to, Plain'[j] = to,
         \A i \in Items \ {j} : Plain'[i] = Plain[i]
  PROVE  Plain' = [Plain EXCEPT ![j] = to]
BY DEF Plain

\* enqueue submits.
LEMMA EnqueueSubmits ==
  ASSUME FateInv, [Next]_vars, NEW j \in Items, Enqueue(j)
  PROVE  FateStep
<1>1. /\ row[j] = "new" /\ row'[j] \in {"waiting", "replayed"}
      /\ \A i \in Items \ {j} : row'[i] = row[i]
      /\ turn' = turn /\ UNCHANGED <<ran, cut>>
  BY DEF Enqueue, hist, FateInv, Base, TypeOK
<1>2. \A i \in Items \ {j} : Plain'[i] = Plain[i]
  BY <1>1, PlainStays
<1>3. Plain[j] = "new" /\ Plain'[j] \in {"queued", "refused"} /\ Hosted' = Hosted
  BY <1>1 DEF Plain, Queued, Deleted, Hosted
<1>4. Fates!Submit(j)
  BY <1>2, <1>3, OneFate, FatesArePlain DEF Fates!Submit, Fates!Becomes
<1>. QED BY <1>4 DEF FateStep, Fates!Next

\* release puts the row back; reject and cancelClaim refuse it.
LEMMA SettleRefuses ==
  ASSUME FateInv, [Next]_vars, NEW d \in Deliverers, Settle(d)
  PROVE  FateStep
<1>1. turn' = turn /\ UNCHANGED <<ran, cut>> /\ at[d] \notin Between
  BY DEF Settle, hist, Between
<1>2. job[d].item \in Items /\ job[d].claim # 0
  BY <1>1, AtWork DEF FateInv, Base
<1>3. \/ row' = row
      \/ /\ row[job[d].item] = "claimed"
         /\ row'[job[d].item] \in {"waiting", "rejected", "cancelled"}
         /\ \A i \in Items \ {job[d].item} : row'[i] = row[i]
  <2>1. Holds(d) => row[job[d].item] = "claimed"
    BY <1>2 DEF Holds, FateInv, Base, TypeOK
  <2>. QED BY <1>2, <2>1 DEF Settle, FateInv, Base, TypeOK
<1>4. \A i \in Items : row'[i] = row[i] => Plain'[i] = Plain[i]
  BY <1>1, PlainStays
<1>5. Hosted' = Hosted
  BY <1>1 DEF Hosted
<1>6. CASE Plain' = Plain
  BY <1>5, <1>6, FatesArePlain DEF FateStep
<1>7. CASE Plain' # Plain
  <2>1. \E i \in Items : Plain'[i] # Plain[i]
    BY <1>7 DEF Plain
  <2>2. Plain[job[d].item] = "queued" /\ Plain'[job[d].item] \in {"queued", "refused"}
    BY <1>2, <1>3, <1>4, <2>1 DEF Plain, Queued, Deleted
  <2>3. Plain'[job[d].item] = "refused" /\ \A i \in Items \ {job[d].item} : Plain'[i] = Plain[i]
    BY <1>3, <1>4, <2>1, <2>2
  <2>4. Fates!Refuse(job[d].item)
    BY <1>2, <1>5, <2>2, <2>3, OneFate, FatesArePlain DEF Fates!Refuse, Fates!Becomes
  <2>. QED BY <1>2, <2>4 DEF FateStep, Fates!Next
<1>. QED BY <1>6, <1>7

\* acknowledge lets go of the message: its turn takes it, or has ended.
LEMMA AcknowledgeLeaves ==
  ASSUME FateInv, [Next]_vars, NEW d \in Deliverers, Acknowledge(d)
  PROVE  FateStep
<1>0. TypeOK /\ DeliveryInv /\ AckInv
  BY DEF FateInv, Base
<1>1. /\ at[d] \in {"ack", "retry"} /\ at[d] \in Deciding /\ at[d] \notin Between /\ Holds(d)
      /\ turn' = turn /\ UNCHANGED <<ran, cut, attempt>>
      /\ row' = [row EXCEPT ![job[d].item] = "acked"]
  BY DEF Acknowledge, Acknowledgeable, hist, Between, Deciding
<1>2. job[d].item \in Items /\ job[d].claim # 0
  BY <1>0, <1>1, AtWork
<1>3. row[job[d].item] = "claimed" /\ attempt[job[d].item] = job[d].claim
  BY <1>0, <1>1, <1>2 DEF Holds, TypeOK, AckInv, AttemptInv
<1>4. row'[job[d].item] = "acked" /\ \A i \in Items \ {job[d].item} : row'[i] = row[i]
  BY <1>0, <1>1, <1>2 DEF TypeOK
<1>5. ran[job[d].item] = 0
  BY <1>0, <1>2, <1>3 DEF DeliveryInv, Fresh
<1>6. \A i \in Items \ {job[d].item} : Plain'[i] = Plain[i]
  BY <1>1, <1>4, PlainStays
<1>7. /\ Plain[job[d].item] = "queued" /\ Hosted' = Hosted
      /\ Plain'[job[d].item] = IF job[d].claim \in cut THEN "cut" ELSE "leaving"
  BY <1>1, <1>2, <1>3, <1>4, <1>5 DEF Plain, Queued, Deleted, Hosted
<1>8. CASE job[d].claim \in cut
  <2>1. Fates!Cut(job[d].item)
    BY <1>2, <1>6, <1>7, <1>8, OneFate, FatesArePlain DEF Fates!Cut, Fates!Becomes
  <2>. QED BY <1>2, <2>1 DEF FateStep, Fates!Next
<1>9. CASE job[d].claim \notin cut
  <2>1. turn.claim = job[d].claim /\ turn.phase \in {"fenced", "doomed"}
    BY <1>0, <1>1, <1>9 DEF AckInv, TraceInv
  <2>2. turn.item = job[d].item
    BY <1>0, <1>2, <2>1 DEF DeliveryInv
  <2>3. Hosted = "none" /\ \A i \in Items : Plain[i] # "leaving"
    BY <1>7, <2>1, <2>2, LeavingIsOnItsWay DEF Hosted
  <2>4. Fates!Free
    BY <2>3, FatesArePlain DEF Fates!Free, Fates!Leaving
  <2>5. Fates!Leave(job[d].item)
    BY <1>2, <1>6, <1>7, <1>9, <2>4, OneFate, FatesArePlain DEF Fates!Leave, Fates!Becomes
  <2>. QED BY <1>2, <2>5 DEF FateStep, Fates!Next
<1>. QED BY <1>8, <1>9

\* The host takes the message on its way, and no other.
LEMMA HostStartsRuns ==
  ASSUME FateInv, [Next]_vars, HostStarts
  PROVE  FateStep
<1>0. TypeOK /\ DeliveryInv /\ OwnInv /\ turn \in Turns
  BY DEF FateInv, Base, TypeOK
<1>1. /\ turn.phase = "open" /\ turn'.phase = "host" /\ turn'.item = turn.item
      /\ UNCHANGED <<row, cut, attempt>> /\ ran' = [ran EXCEPT ![turn.item] = @ + 1]
  BY <1>0 DEF HostStarts, rows, Turns
<1>2. /\ turn.item # 0 /\ turn.item \in Items /\ row[turn.item] = "acked" /\ ran[turn.item] = 0
      /\ turn.claim # 0
  BY <1>0, <1>1 DEF DeliveryInv, Turns, Items
<1>3. attempt[turn.item] \notin cut
  BY <1>0, <1>1, <1>2 DEF OwnInv, OwnAttempts, OwnTurn
<1>4. ran'[turn.item] = 1 /\ \A i \in Items \ {turn.item} : ran'[i] = ran[i]
  BY <1>0, <1>1, <1>2 DEF TypeOK
<1>5. Plain[turn.item] = "leaving" /\ Plain'[turn.item] = "ran"
  BY <1>1, <1>2, <1>3, <1>4 DEF Plain, Queued, Deleted
<1>6. \A i \in Items \ {turn.item} : Plain'[i] = Plain[i]
  BY <1>1, <1>4, PlainStays
<1>7. Hosted = "none" /\ Hosted' = "message"
  BY <1>1, <1>2 DEF Hosted
<1>8. Fates!Run(turn.item)
  BY <1>2, <1>5, <1>6, <1>7, OneFate, FatesArePlain DEF Fates!Run, Fates!Becomes
<1>. QED BY <1>2, <1>8 DEF FateStep, Fates!Next

\* The end of a turn: the host is free, or what was on its way is cut off.
LEMMA TurnOverCuts ==
  ASSUME FateInv, [Next]_vars, TurnOver, ran' = ran,
         \A i \in Items : row'[i] = row[i] \/ (row[i] \in Queued /\ row'[i] \in Queued)
  PROVE  FateStep
<1>0. TypeOK /\ DeliveryInv /\ AckInv /\ turn \in Turns
  BY DEF FateInv, Base, TypeOK
<1>1. Hosted' = "none"
  BY NoTurnType DEF TurnOver, Hosted
<1>2. CASE turn.phase = "host"
  <2>1. Plain' = Plain
    <3>1. \A i \in Items : Plain'[i] = Plain[i]
      BY <1>2, PlainStays DEF TurnOver
    <3>. QED BY <3>1 DEF Plain
  <2>2. Fates!End
    BY <1>1, <1>2, <2>1, FatesArePlain DEF Fates!End, Hosted
  <2>. QED BY <2>2 DEF FateStep, Fates!Next
<1>3. CASE turn.phase # "host"
  <2>1. Hosted = "none" /\ cut' = cut \cup {turn.claim}
    BY <1>3 DEF Hosted, TurnOver
  <2>2. ASSUME NEW i \in Items, Plain[i] # "leaving"
        PROVE  Plain'[i] = Plain[i]
    <3>1. row[i] = "acked" => ran[i] # 0 \/ attempt[i] \in cut
      BY <2>2 DEF Plain, Queued, Deleted
    <3>2. CASE row[i] = "acked" /\ ran[i] # 0
      <4>1. row'[i] = "acked"
        BY <3>2 DEF Queued
      <4>. QED BY <3>2, <4>1 DEF Plain, Queued, Deleted
    <3>3. CASE ~(row[i] = "acked" /\ ran[i] # 0)
      BY <2>1, <3>1, <3>3, PlainStays
    <3>. QED BY <3>2, <3>3
  <2>3. CASE \A i \in Items : Plain[i] # "leaving"
    <3>1. Plain' = Plain
      BY <2>2, <2>3 DEF Plain
    <3>. QED BY <1>1, <2>1, <3>1, FatesArePlain DEF FateStep
  <2>4. ASSUME NEW i \in Items, Plain[i] = "leaving"
        PROVE  FateStep
    <3>1. /\ row[i] = "acked" /\ ran[i] = 0 /\ turn.item = i /\ turn.claim = attempt[i]
      BY <2>4, LeavingIsOnItsWay
    <3>2. \A j \in Items \ {i} : Plain[j] # "leaving"
      BY <3>1, LeavingIsOnItsWay
    <3>3. row'[i] = "acked" /\ attempt'[i] = attempt[i]
      BY <3>1, AttemptsStay DEF Queued, FateInv
    <3>4. Plain'[i] = "cut"
      BY <2>1, <3>1, <3>3 DEF Plain, Queued, Deleted
    <3>5. Fates!Cut(i)
      BY <1>1, <2>1, <2>2, <2>4, <3>2, <3>4, OneFate, FatesArePlain DEF Fates!Cut, Fates!Becomes
    <3>. QED BY <3>5 DEF FateStep, Fates!Next
  <2>. QED BY <2>3, <2>4
<1>. QED BY <1>2, <1>3

\* Every step is one of the promise, or none.
LEMMA FateStepMaps == FateInv /\ [Next]_vars => FateStep
<1>. SUFFICES ASSUME FateInv, [Next]_vars
              PROVE  FateStep
  OBVIOUS
<1>1. CASE (\E i \in Items : Enqueue(i)) \/ (\E d \in Deliverers : Acknowledge(d) \/ Settle(d))
  BY <1>1, EnqueueSubmits, AcknowledgeLeaves, SettleRefuses
<1>2. CASE HostStarts
  BY <1>2, HostStartsRuns
<1>3. CASE /\ ~HostStarts
           /\ ~((\E i \in Items : Enqueue(i)) \/ (\E d \in Deliverers : Acknowledge(d) \/ Settle(d)))
  <2>1. ran' = ran
        /\ \A i \in Items : row'[i] = row[i] \/ (row[i] \in Queued /\ row'[i] \in Queued)
    BY <1>3, RunsMove, ClassesStay
  <2>2. ASSUME cut' = cut
        PROVE  Plain' = Plain
    <3>1. \A i \in Items : Plain'[i] = Plain[i]
      BY <2>1, <2>2, PlainStays
    <3>. QED BY <3>1 DEF Plain
  <2>3. CASE TurnOver
    BY <2>1, <2>3, TurnOverCuts
  <2>4. CASE TurnStays
    <3>1. Hosted' = Hosted /\ cut' = cut
      BY <2>4 DEF Hosted, TurnStays
    <3>. QED BY <2>2, <3>1, FatesArePlain DEF FateStep
  <2>5. CASE DirectTurn
    <3>1. turn = NoTurn /\ Hosted' = "other" /\ cut' = cut
      BY <2>5 DEF DirectTurn, hist, Hosted, NoTurn
    <3>2. Fates!Other
      BY <2>2, <3>1, NoTurnIsFree, FatesArePlain
      DEF Fates!Other, Fates!Free, Fates!Leaving
    <3>. QED BY <3>2 DEF FateStep, Fates!Next
  <2>6. ASSUME NEW d \in Deliverers, Accept(d)
        PROVE  FateStep
    <3>1. turn = NoTurn /\ turn'.phase \in {"fenced", "doomed"} /\ cut' = cut
      BY <2>6, Accepts DEF FateInv
    <3>2. Hosted = "none" /\ Hosted' = "none"
      BY <3>1, NoTurnIsFree DEF Hosted
    <3>. QED BY <2>2, <3>1, <3>2, FatesArePlain DEF FateStep
  <2>. QED BY <1>3, <2>3, <2>4, <2>5, <2>6, TurnMoves DEF FateInv
<1>. QED BY <1>1, <1>2, <1>3

\* ImplementsFates: however often a row is claimed, taken back, put back or survives a
\* crash, its message is queued, leaves for good, and runs once and alone or is cut off.
THEOREM DeliveryImplementsFates == Spec => ImplementsFates
<1>1. Init => Fates!Init
  <2>1. Init => Hosted = "none" /\ Plain = [i \in Items |-> "new"]
    BY DEF Init, Hosted, NoTurn, Plain
  <2>. QED BY <2>1, InitFates, FateIsPlain DEF Fates!Init, FateInv
<1>2. FateInv /\ [Next]_vars => [Fates!Next]_<<Fate, Hosted>>
  BY FateStepMaps DEF FateStep
<1>. QED BY <1>1, <1>2, InitFates, FateInvKept, PTL DEF Spec, ImplementsFates, Fates!Spec

-----------------------------------------------------------------------------
(* The receipts.                                                           *)

LedgerStep == [Ledger!Next]_<<Receipts, FALSE>>

\* The open turn has a receipt of its own; without a turn none is open.
LEMMA OpenTurnIsBegun ==
  ASSUME FateInv
  PROVE  /\ turn = NoTurn => OpenTurn = 0 /\ \A t \in TurnIds : Receipts[t] # "accepted"
         /\ turn # NoTurn => OpenTurn \in TurnIds \cap Begun
         /\ turn.claim # 0 => OpenTurn = turn.claim /\ OpenTurn \in Claims
         /\ turn # NoTurn /\ turn.claim = 0 => OpenTurn = MaxClaims + direct
<1>1. /\ turn \in Turns /\ direct \in 0 .. MaxDirect /\ MaxDirect \in Nat /\ MaxClaims \in Nat
      /\ accepted \subseteq 1 .. MaxClaims
  BY Bounds DEF FateInv, Base, TypeOK, Claims
<1>2. turn.claim # 0 => turn # NoTurn /\ turn.claim \in accepted
  BY NoTurnType DEF FateInv, OwnInv, OwnTurn
<1>3. turn # NoTurn /\ turn.claim = 0 => direct # 0
  BY DEF FateInv, OwnInv, OwnTurn
<1>4. turn = NoTurn => \A t \in TurnIds : Receipts[t] # "accepted"
  <2>1. \A t \in TurnIds : t # 0
    BY <1>1 DEF TurnIds
  <2>. QED BY <2>1 DEF Receipts, OpenTurn
<1>5. turn = NoTurn => OpenTurn = 0
  BY DEF OpenTurn
<1>6. turn.claim # 0 => OpenTurn = turn.claim /\ OpenTurn \in Claims \cap TurnIds \cap Begun
  <2>1. turn.claim # 0 => OpenTurn = turn.claim
    BY <1>2 DEF OpenTurn
  <2>2. turn.claim # 0 => turn.claim \in 1 .. MaxClaims /\ turn.claim \in Begun
    BY <1>1, <1>2 DEF Begun
  <2>. QED BY <1>1, <2>1, <2>2 DEF Claims, TurnIds
<1>7. turn # NoTurn /\ turn.claim = 0 => /\ OpenTurn = MaxClaims + direct
                                         /\ OpenTurn \in TurnIds \cap Begun
  BY <1>1, <1>3 DEF OpenTurn, TurnIds, Begun
<1>. QED BY <1>4, <1>5, <1>6, <1>7

\* A turn is accepted when none is open, and has no receipt before.
LEMMA TurnOpens ==
  ASSUME FateInv, NEW t \in TurnIds, turn = NoTurn, t \notin Begun,
         Begun' = Begun \cup {t}, OpenTurn' = t, cut' = cut
  PROVE  LedgerStep
<1>1. OpenTurn = 0 /\ \A u \in TurnIds : Receipts[u] # "accepted"
  BY OpenTurnIsBegun
<1>2. \A u \in TurnIds : u # 0
  BY Bounds DEF TurnIds
<1>3. Receipts[t] = "none" /\ Receipts'[t] = "accepted"
  BY DEF Receipts, TurnIds
<1>4. \A u \in TurnIds \ {t} : Receipts'[u] = Receipts[u]
  BY <1>1, <1>2 DEF Receipts, TurnIds
<1>5. Receipts' = [u \in TurnIds |-> IF u = t THEN "accepted"
                                     ELSE IF u \in Ledger!Open THEN "failed" ELSE Receipts[u]]
  <2>1. Receipts' = [u \in TurnIds |-> Receipts'[u]]
    BY DEF Receipts, TurnIds
  <2>. QED BY <1>1, <1>3, <1>4, <2>1 DEF Ledger!Open
<1>6. Ledger!Accept(t)
  BY <1>3, <1>5 DEF Ledger!Accept
<1>. QED BY <1>6 DEF LedgerStep, Ledger!Next

\* A turn that ends gets its one outcome.
LEMMA TurnOverFinishes ==
  ASSUME FateInv, TurnOver
  PROVE  LedgerStep
<1>0. turn \in Turns /\ MaxClaims \in Nat /\ direct \in Nat /\ cut \subseteq Claims
  BY Bounds DEF FateInv, Base, TypeOK
<1>1. OpenTurn \in TurnIds /\ OpenTurn \in Begun /\ OpenTurn' = 0 /\ Begun' = Begun
  <2>1. OpenTurn' = 0
    BY DEF TurnOver, OpenTurn
  <2>2. Begun' = Begun
    BY DEF TurnOver, Begun
  <2>. QED BY <2>1, <2>2, OpenTurnIsBegun DEF TurnOver
<1>2. \A u \in TurnIds : u # 0
  BY Bounds DEF TurnIds
<1>3. ASSUME NEW u \in TurnIds \ {OpenTurn}
      PROVE  u \in cut' <=> u \in cut
  <2>1. turn.phase # "host" => turn.claim # 0
    BY <1>0 DEF TurnOver, FateInv, Base, OwnInv, OwnTurn, Turns, DeliveryInv
  <2>. QED BY <1>3, <2>1, OpenTurnIsBegun DEF TurnOver
<1>4. Receipts[OpenTurn] = "accepted" /\ Receipts'[OpenTurn] \in {"failed", "completed"}
  BY <1>1, <1>2 DEF Receipts, TurnIds
<1>5. \A u \in TurnIds \ {OpenTurn} : Receipts'[u] = Receipts[u]
  BY <1>1, <1>2, <1>3 DEF Receipts, TurnIds
<1>6. Receipts' = [Receipts EXCEPT ![OpenTurn] = Receipts'[OpenTurn]]
  <2>1. Receipts' = [u \in TurnIds |-> Receipts'[u]] /\ Receipts = [u \in TurnIds |-> Receipts[u]]
    BY DEF Receipts, TurnIds
  <2>. QED BY <1>5, <2>1
<1>7. Ledger!Finish(OpenTurn, Receipts'[OpenTurn]) /\ Receipts'[OpenTurn] \in Ledger!Outcomes
  BY <1>4, <1>6 DEF Ledger!Finish, Ledger!Outcomes
<1>. QED BY <1>1, <1>7 DEF LedgerStep, Ledger!Next

\* Every step is one of the ledger, or none.
LEMMA LedgerStepMaps == FateInv /\ [Next]_vars => LedgerStep
<1>. SUFFICES ASSUME FateInv, [Next]_vars
              PROVE  LedgerStep
  OBVIOUS
<1>0. /\ turn \in Turns /\ direct \in 0 .. MaxDirect /\ MaxDirect \in Nat /\ MaxClaims \in Nat
      /\ accepted \subseteq 1 .. MaxClaims
  BY Bounds DEF FateInv, Base, TypeOK, Claims
<1>1. ASSUME turn' = NoTurn <=> turn = NoTurn, turn'.claim = turn.claim,
             accepted' = accepted, cut' = cut, direct' = direct
      PROVE  LedgerStep
  <2>1. OpenTurn' = OpenTurn /\ Begun' = Begun
    BY <1>1 DEF OpenTurn, Begun
  <2>2. Receipts' = Receipts
    BY <1>1, <2>1 DEF Receipts, TurnIds
  <2>. QED BY <2>2 DEF LedgerStep
<1>2. CASE TurnStays
  BY <1>1, <1>2 DEF TurnStays
<1>3. CASE HostStarts
  <2>1. /\ turn'.claim = turn.claim /\ turn' # NoTurn /\ turn # NoTurn
        /\ accepted' = accepted /\ cut' = cut /\ direct' = direct
    BY <1>0, <1>3 DEF HostStarts, Turns, NoTurn, books
  <2>. QED BY <1>1, <2>1
<1>4. CASE DirectTurn
  <2>1. /\ turn = NoTurn /\ turn' # NoTurn /\ turn'.claim = 0 /\ direct < MaxDirect
        /\ direct' = direct + 1 /\ accepted' = accepted /\ cut' = cut
    BY <1>4 DEF DirectTurn, NoTurn, books, hist
  <2>2. /\ MaxClaims + direct + 1 \in TurnIds \ Begun /\ OpenTurn' = MaxClaims + direct + 1
        /\ Begun' = Begun \cup {MaxClaims + direct + 1}
    BY <1>0, <2>1 DEF TurnIds, Begun, OpenTurn
  <2>. QED BY <2>1, <2>2, TurnOpens
<1>5. ASSUME NEW d \in Deliverers, Accept(d)
      PROVE  LedgerStep
  <2>1. /\ turn = NoTurn /\ turn'.claim = job[d].claim /\ turn' # NoTurn
        /\ job[d].claim \in Claims \ accepted
        /\ accepted' = accepted \cup {job[d].claim} /\ cut' = cut /\ direct' = direct
    BY <1>5, Accepts DEF FateInv
  <2>2. /\ job[d].claim \in TurnIds \ Begun /\ OpenTurn' = job[d].claim
        /\ Begun' = Begun \cup {job[d].claim}
    BY <1>0, <2>1 DEF TurnIds, Begun, OpenTurn, Claims
  <2>. QED BY <2>1, <2>2, TurnOpens
<1>. QED BY <1>2, <1>3, <1>4, <1>5, TurnOverFinishes, TurnMoves DEF FateInv

\* ImplementsLedger: the queue's deliveries accept one turn at a time, each under a
\* receipt of its own, and end each once, whatever claims are made again.
THEOREM DeliveryImplementsLedger == Spec => ImplementsLedger
<1>1. Init => Ledger!Init
  BY Bounds DEF Init, Ledger!Init, Receipts, Begun, TurnIds
<1>2. FateInv /\ [Next]_vars => [Ledger!Next]_<<Receipts, FALSE>>
  BY LedgerStepMaps DEF LedgerStep
<1>. QED BY <1>1, <1>2, InitFates, FateInvKept, PTL DEF Spec, ImplementsLedger, Ledger!Spec

-----------------------------------------------------------------------------
(* Cancellations.                                                          *)

\* While nothing puts an accepted row back, a delivery keeps its row until the row
\* is gone, and is not acknowledged twice.
KeptInv ==
  /\ lapsed = {}
  /\ \A d \in Deliverers : /\ at[d] \notin Between \cup {"open"} => Holds(d)
                           /\ at[d] \in {"ack", "retry"} => job[d].claim \in accepted
                           /\ at[d] # "retry"

\* A message whose cancellation was taken has not run.  Its submitter's mark stands
\* until the row is gone, or its turn has the mark.
CancelInv ==
  /\ \A i \in Items : turn.item = i => row[i] # "new"
  /\ \A i \in Items : waiter[i] \in Unanswered => turn.item # i
  /\ \A i \in unwanted :
       /\ ran[i] = 0
       /\ turn.item = i => turn.aborted
       /\ \/ waiter[i] = "cancelled" \/ row[i] \in Gone
          \/ \E d \in Deliverers : at[d] = "ack" /\ job[d].item = i

Still == FateInv /\ OrderInv /\ WaitInv /\ KeptInv

\* Only a lease that runs out takes a claim from its delivery.
LEMMA LapsedStays ==
  ASSUME Still, [Next]_vars, "lease" \notin Trouble
  PROVE  lapsed' = {}
<1>1. ASSUME NEW i \in Items, LeaseOut(i)
      PROVE  FALSE
  BY <1>1 DEF LeaseOut, Goes
<1>2. lapsed = {}
  BY DEF Still, KeptInv
<1>3. ASSUME NEW d \in Deliverers, Deliver(d)
      PROVE  lapsed' = {}
  <2>1. CASE Settle(d)
    BY <1>2, <2>1 DEF Settle
  <2>2. CASE Acknowledge(d)
    BY <1>2, <2>2 DEF Acknowledge
  <2>. QED BY <1>2, <1>3, <2>1, <2>2 DEF Deliver, Check, Prepare, Accept, Reject,
              AcknowledgeFails, CommitFails, OpenStart, rows
<1>4. CASE Outside
  BY <1>1, <1>2, <1>4 DEF Outside, Enqueue, RequestCancellation, Resume, Stop, StartDrain,
     RecoverBeforeClaim, DrainFindsNothing, DirectTurn, Abort, TurnEnds, HostStarts,
     EndsBeforeHost, HostEnds, Released, RecoverPending, Restart, TakeBack, vars, rows
<1>. QED BY <1>2, <1>3, <1>4, Steps DEF Claim

\* A claim stands until its delivery settles or acknowledges its row.
LEMMA ClaimsStand ==
  ASSUME Still, [Next]_vars, NEW i \in Items, claim[i] # 0, ~Restart,
         \A d \in Deliverers : job[d].item = i => ~Acknowledge(d) /\ ~Settle(d)
  PROVE  claim'[i] = claim[i]
<1>0. TypeOK /\ lapsed = {}
  BY DEF Still, KeptInv, FateInv, Base
<1>1. CASE claim' = claim
  BY <1>1
<1>2. CASE TakeBack(Claimed \cap lapsed)
  BY <1>0, <1>2 DEF TakeBack
<1>3. CASE \E d \in Deliverers, k \in Waiting : Claim(d, k)
  <2>1. PICK d \in Deliverers, k \in Waiting : Claim(d, k)
    BY <1>3
  <2>2. k # i
    BY <1>0, <2>1 DEF Waiting, TypeOK
  <2>. QED BY <1>0, <2>1, <2>2 DEF Claim, TypeOK
<1>4. ASSUME NEW d \in Deliverers, Acknowledge(d) \/ Settle(d)
      PROVE  claim'[i] = claim[i]
  <2>1. job[d].item # i
    BY <1>4
  <2>. QED BY <1>0, <1>4, <2>1 DEF Acknowledge, Settle, TypeOK
<1>5. CASE \E d \in Deliverers : Deliver(d)
  BY <1>1, <1>4, <1>5 DEF Deliver, Check, Prepare, Accept, Reject, AcknowledgeFails,
     CommitFails, OpenStart, rows
<1>6. CASE Outside
  BY <1>1, <1>2, <1>6 DEF Outside, Enqueue, RequestCancellation, LeaseOut, Resume, Stop,
     StartDrain, RecoverBeforeClaim, DrainFindsNothing, DirectTurn, Abort, TurnEnds, HostStarts,
     EndsBeforeHost, HostEnds, Released, RecoverPending, vars, rows
<1>. QED BY <1>3, <1>5, <1>6, Steps

\* Neither a commit nor an acknowledgement fails.
LEMMA NothingFails ==
  ASSUME Still, NEW d \in Deliverers, Trouble \cap PutsBack = {}
  PROVE  ~AcknowledgeFails(d) /\ ~CommitFails(d)
<1>1. "fault" \notin Trouble /\ "commit" \notin Trouble
  BY DEF PutsBack
<1>2. ~CommitFails(d)
  BY <1>1 DEF CommitFails, Goes
<1>3. at[d] \in {"ack", "retry"} => Acknowledgeable(d)
  BY DEF Still, KeptInv, Acknowledgeable, Between
<1>. QED BY <1>1, <1>2, <1>3 DEF AcknowledgeFails, Goes

\* Two deliveries do not hold the same row.
LEMMA HoldersDiffer ==
  ASSUME Still, NEW d \in Deliverers, NEW e \in Deliverers,
         at[d] \notin Between \cup {"open"}, at[e] \notin Between \cup {"open"},
         job[d].item = job[e].item
  PROVE  d = e
<1>1. claim[job[d].item] = job[d].claim /\ claim[job[e].item] = job[e].claim
  BY DEF Still, KeptInv, Holds
<1>2. job[d].claim # 0 /\ TypeOK /\ DeliveryInv
  BY AtWork DEF Still, FateInv, Base
<1>. QED BY <1>1, <1>2 DEF DeliveryInv

\* A delivery before its end goes on with its row, or has just claimed it.
LEMMA WorkMoves ==
  ASSUME Still, [Next]_vars, Trouble \cap PutsBack = {}, NEW d \in Deliverers,
         at'[d] \notin Between \cup {"open"}
  PROVE  \/ /\ at[d] \notin Between \cup {"open"} /\ ~Acknowledge(d) /\ ~Settle(d) /\ ~Restart
            /\ job'[d].item = job[d].item /\ job'[d].claim = job[d].claim
            /\ at'[d] \in {"ack", "retry"} => Accept(d) \/ (at'[d] = at[d])
         \/ /\ at'[d] = "check"
            /\ \E i \in Waiting : Claim(d, i)
<1>0. TypeOK
  BY DEF Still, FateInv, Base
<1>1. CASE Restart
  BY <1>1 DEF Restart, Between
<1>2. CASE Outside /\ ~Restart
  <2>1. at'[d] = at[d] /\ job'[d] = job[d]
    BY <1>0, <1>2, OutsideMoves
  <2>2. ~Acknowledge(d) /\ ~Settle(d)
    <3>1. Acknowledge(d) => at'[d] = "open"
      BY <1>0 DEF Acknowledge, TypeOK
    <3>2. Settle(d) => at'[d] # at[d]
      <4>1. \A again, why : Ended(d, again, why) => at'[d] \in {"recover", "claim", "idle"}
        BY <1>0 DEF Ended, NextStep, TypeOK
      <4>. QED BY <4>1 DEF Settle
    <3>. QED BY <2>1, <3>1, <3>2
  <2>. QED BY <1>2, <2>1, <2>2
<1>3. CASE Deliver(d) /\ ~Restart
  <2>1. /\ at[d] \notin Between /\ ~AcknowledgeFails(d) /\ ~CommitFails(d)
        /\ job'[d].item = job[d].item
        /\ job'[d].claim = job[d].claim
    BY <1>0, <1>3, DeliverMoves, DeliverStages, NothingFails
  <2>2. /\ Acknowledge(d) => at'[d] = "open"
        /\ OpenStart(d) \/ Settle(d) => at'[d] \in {"recover", "claim", "idle"}
    <3>1. \A again, why : Ended(d, again, why) => at'[d] \in {"recover", "claim", "idle"}
      BY <1>0 DEF Ended, NextStep, TypeOK
    <3>. QED BY <1>0, <3>1 DEF OpenStart, Settle, Acknowledge, TypeOK
  <2>3. Check(d) \/ Prepare(d) \/ Reject(d) \/ Accept(d)
    BY <1>3, <2>1, <2>2 DEF Deliver, Between
  <2>4. at[d] # "open" /\ (at'[d] \in {"ack", "retry"} => Accept(d) \/ at'[d] = at[d])
    <3>1. at[d] \in {"check", "prepare", "admit"}
      BY <2>3 DEF Check, Prepare, Reject, Accept
    <3>. QED BY <1>0, <1>3, <3>1, DeliverMoves
  <2>. QED BY <1>3, <2>1, <2>2, <2>4 DEF Between
<1>4. ASSUME NEW e \in Deliverers \ {d}, Deliver(e)
      PROVE  at'[d] = at[d] /\ job'[d] = job[d]
  BY <1>0, <1>4, OthersStay
<1>5. ASSUME NEW e \in Deliverers \ {d}, NEW i \in Waiting, Claim(e, i)
      PROVE  at'[d] = at[d] /\ job'[d] = job[d]
  BY <1>0, <1>5 DEF Claim, TypeOK
<1>6. ASSUME NEW i \in Waiting, Claim(d, i)
      PROVE  at'[d] = "check"
  BY <1>0, <1>6 DEF Claim, TypeOK
<1>7. CASE at'[d] = at[d] /\ job'[d] = job[d] /\ ~Restart
  <2>1. Acknowledge(d) => at'[d] = "open"
    BY <1>0 DEF Acknowledge, TypeOK
  <2>2. Settle(d) => at'[d] # at[d]
    <3>1. \A again, why : Ended(d, again, why) => at'[d] \in {"recover", "claim", "idle"}
      BY <1>0 DEF Ended, NextStep, TypeOK
    <3>. QED BY <3>1 DEF Settle
  <2>. QED BY <1>7, <2>1, <2>2 DEF Between
<1>8. CASE \E e \in Deliverers, i \in Waiting : Claim(e, i)
  BY <1>1, <1>5, <1>6, <1>7, <1>8
<1>9. CASE \E e \in Deliverers : Deliver(e)
  BY <1>1, <1>3, <1>4, <1>7, <1>9
<1>. QED BY <1>1, <1>2, <1>8, <1>9, Steps

\* Nothing takes a row from its delivery.
LEMMA KeptKept ==
  ASSUME Still, [Next]_vars, Trouble \cap PutsBack = {}
  PROVE  KeptInv'
<1>1. lapsed' = {}
  BY LapsedStays DEF PutsBack
<1>. SUFFICES ASSUME NEW d \in Deliverers
              PROVE  /\ at'[d] \notin Between \cup {"open"} => claim'[job'[d].item] = job'[d].claim
                     /\ at'[d] \in {"ack", "retry"} => job'[d].claim \in accepted'
                     /\ at'[d] # "retry"
  BY <1>1 DEF KeptInv, Holds
<1>0. TypeOK /\ DeliveryInv /\ FateInv
  BY DEF Still, FateInv, Base
<1>2. CASE at'[d] \in Between \cup {"open"}
  BY <1>2 DEF Between
<1>3. CASE at'[d] = "check" /\ \E i \in Waiting : Claim(d, i)
  <2>1. PICK i \in Waiting : Claim(d, i)
    BY <1>3
  <2>2. claim'[i] = claims + 1 /\ job'[d].item = i /\ job'[d].claim = claims + 1
    BY <1>0, <2>1 DEF Claim, TypeOK, Waiting, NoJob
  <2>. QED BY <1>3, <2>2
<1>4. CASE /\ at[d] \notin Between \cup {"open"} /\ ~Acknowledge(d) /\ ~Settle(d) /\ ~Restart
           /\ job'[d].item = job[d].item /\ job'[d].claim = job[d].claim
           /\ at'[d] \in {"ack", "retry"} => Accept(d) \/ (at'[d] = at[d])
  <2>1. job[d].item \in Items /\ job[d].claim # 0 /\ claim[job[d].item] = job[d].claim
    BY <1>0, <1>4, AtWork DEF Still, KeptInv, Holds
  <2>2. ASSUME NEW e \in Deliverers, job[e].item = job[d].item
        PROVE  ~Acknowledge(e) /\ ~Settle(e)
    <3>1. Acknowledge(e) \/ Settle(e) => at[e] \notin Between \cup {"open"}
      BY DEF Acknowledge, Settle, Between
    <3>. QED BY <1>4, <2>2, <3>1, HoldersDiffer
  <2>3. claim'[job[d].item] = job[d].claim
    BY <1>4, <2>1, <2>2, ClaimsStand
  <2>4. Accept(d) => at'[d] = "ack" /\ accepted' = accepted \cup {job[d].claim}
    BY <1>0 DEF Accept, TypeOK
  <2>5. accepted \subseteq accepted'
    BY <1>0, ReceiptsMove, Accepts DEF FateInv
  <2>. QED BY <1>4, <2>3, <2>4, <2>5 DEF Still, KeptInv
<1>. QED BY <1>2, <1>3, <1>4, WorkMoves

\* A turn keeps its mark.
LEMMA MarkStays ==
  ASSUME Still, [Next]_vars, NEW i \in Items, turn'.item = i,
         ~ \E d \in Deliverers : Accept(d)
  PROVE  turn.item = i /\ (turn.aborted => turn'.aborted)
<1>0. turn \in Turns /\ i # 0
  BY DEF Still, FateInv, Base, TypeOK, Items
<1>1. turn' # NoTurn
  BY <1>0 DEF NoTurn
<1>2. CASE turn' = turn
  BY <1>2
<1>3. CASE \E d \in Deliverers : FailStart(d) \/ OpenStart(d)
  BY <1>0, <1>3 DEF FailStart, OpenStart, Turns
<1>4. CASE Abort \/ HostStarts
  BY <1>0, <1>4 DEF Abort, HostStarts, Turns
<1>5. CASE DirectTurn
  BY <1>0, <1>5 DEF DirectTurn, NoTurn
<1>6. CASE \E d \in Deliverers : Deliver(d)
  BY <1>2, <1>3, <1>6 DEF Deliver, Check, Prepare, Reject, Acknowledge, AcknowledgeFails,
     CommitFails, Settle
<1>7. CASE Outside
  BY <1>1, <1>2, <1>4, <1>5, <1>7 DEF Outside, Enqueue, RequestCancellation, LeaseOut, Resume,
     Stop, StartDrain, RecoverBeforeClaim, DrainFindsNothing, TurnEnds, EndsBeforeHost, HostEnds,
     Released, RecoverPending, Restart, vars
<1>. QED BY <1>2, <1>6, <1>7, Steps DEF Claim

\* Only abort takes a cancellation.
LEMMA UnwantedMoves ==
  ASSUME [Next]_vars, NEW i \in Items, i \in unwanted', i \notin unwanted
  PROVE  RequestCancellation(i)
<1>1. CASE \E d \in Deliverers : Deliver(d)
  BY <1>1 DEF Deliver, Check, Prepare, Accept, Reject, Acknowledge, AcknowledgeFails,
     CommitFails, OpenStart, Settle, hist
<1>2. CASE Outside
  BY <1>2 DEF Outside, Enqueue, RequestCancellation, LeaseOut, Resume,
     Stop, StartDrain, RecoverBeforeClaim, DrainFindsNothing, DirectTurn, Abort, TurnEnds,
     HostStarts, EndsBeforeHost, HostEnds, Released, RecoverPending, Restart, vars, hist
<1>. QED BY <1>1, <1>2, Steps DEF Claim, hist

\* An answered message stays away.
LEMMA GoneStays ==
  ASSUME Still, [Next]_vars, NEW i \in Items, row[i] \in Gone
  PROVE  row'[i] \in Gone
<1>1. ~Enqueue(i)
  BY DEF Enqueue, Gone
<1>2. row'[i] \in Rows /\ row'[i] # "new" /\ row'[i] \notin Queued
  BY <1>1, RowsMove, BaseKept DEF Still, FateInv, Base, TypeOK, Gone, Queued
<1>. QED BY <1>2 DEF Rows, Queued

\* The mark on a waiting completion stands, until its row is settled or its turn has it.
LEMMA CancelledStays ==
  ASSUME Still, [Next]_vars, NEW i \in Items, waiter[i] = "cancelled", ~Restart
  PROVE  \/ waiter'[i] = "cancelled" \/ row'[i] \in Gone
         \/ \E d \in Deliverers : Accept(d) /\ job[d].item = i
<1>0. TypeOK /\ waiter \in [Items -> Waits] /\ row[i] \in Queued
  BY DEF Still, FateInv, Base, TypeOK, WaitInv, Unanswered
<1>1. CASE waiter' = waiter
  BY <1>1
<1>2. ASSUME NEW j \in Items, Enqueue(j) \/ RequestCancellation(j)
      PROVE  waiter'[i] = "cancelled"
  BY <1>0, <1>2 DEF Enqueue, RequestCancellation, Queued
<1>3. CASE EndsBeforeHost \/ HostEnds
  BY <1>0, <1>3 DEF EndsBeforeHost, HostEnds, Released, Answers
<1>4. ASSUME NEW d \in Deliverers, Settle(d)
      PROVE  waiter'[i] = "cancelled" \/ row'[i] \in Gone
  <2>1. CASE job[d].item # i
    BY <1>0, <1>4, <2>1 DEF Settle
  <2>2. CASE job[d].item = i /\ waiter' # waiter
    <3>1. /\ row' = [row EXCEPT ![i] = IF job[d].how = "release" THEN "waiting"
                         ELSE IF job[d].how = "reject" THEN "rejected" ELSE "cancelled"]
          /\ waiter' = [waiter EXCEPT ![i] =
               IF job[d].how # "release" /\ @ # "none" THEN "settled" ELSE @]
      BY <1>0, <1>4, <2>2 DEF Settle
    <3>2. job[d].how # "release"
      BY <1>0, <2>2, <3>1
    <3>. QED BY <1>0, <3>1, <3>2 DEF TypeOK, Gone
  <2>. QED BY <1>1, <2>1, <2>2
<1>5. ASSUME NEW d \in Deliverers, Accept(d), job[d].item # i
      PROVE  waiter'[i] = "cancelled"
  BY <1>0, <1>5 DEF Accept
<1>6. CASE \E d \in Deliverers : Deliver(d)
  BY <1>1, <1>4, <1>5, <1>6 DEF Deliver, Check, Prepare, Reject, Acknowledge, AcknowledgeFails,
     CommitFails, OpenStart, rows
<1>7. CASE Outside
  BY <1>1, <1>2, <1>3, <1>7 DEF Outside, LeaseOut, Resume,
     Stop, StartDrain, RecoverBeforeClaim, DrainFindsNothing, DirectTurn, Abort, TurnEnds,
     HostStarts, RecoverPending, vars, rows
<1>. QED BY <1>1, <1>6, <1>7, Steps DEF Claim

\* An accepted row is acknowledged.
LEMMA AckStays ==
  ASSUME Still, [Next]_vars, Trouble \cap PutsBack = {}, NEW d \in Deliverers, at[d] = "ack", ~Restart
  PROVE  (at'[d] = "ack" /\ job'[d].item = job[d].item) \/ row'[job[d].item] = "acked"
<1>0. TypeOK /\ at[d] \notin Between /\ job[d].item \in Items
  BY AtWork DEF Still, FateInv, Base, Between
<1>1. CASE Deliver(d)
  <2>1. Acknowledge(d)
    BY <1>1, NothingFails DEF Deliver, Check, Prepare, Accept, Reject, OpenStart, Settle
  <2>. QED BY <1>0, <2>1 DEF Acknowledge, TypeOK
<1>2. CASE \E e \in Deliverers \ {d} : Deliver(e)
  BY <1>0, <1>2, OthersStay
<1>3. ASSUME NEW e \in Deliverers, NEW i \in Waiting, Claim(e, i)
      PROVE  FALSE
  <2>1. claim[job[d].item] # 0
    BY <1>0, AtWork DEF Still, KeptInv, Holds, Between, FateInv, Base
  <2>. QED BY <1>0, <1>3, <2>1 DEF Claim, Claimed, TypeOK
<1>4. CASE Outside
  <2>1. CASE at' = at /\ job' = job
    BY <2>1
  <2>2. ASSUME NEW why, Ended("drain", FALSE, why), at["drain"] \in {"recover", "claim"}
        PROVE  at'[d] = at[d] /\ job'[d] = job[d]
    BY <1>0, <2>2 DEF Ended, TypeOK
  <2>3. CASE StartDrain \/ RecoverBeforeClaim \/ DrainFindsNothing
    BY <1>0, <2>2, <2>3 DEF StartDrain, RecoverBeforeClaim, DrainFindsNothing, TypeOK
  <2>. QED BY <1>4, <2>1, <2>3 DEF Outside, Enqueue, RequestCancellation, LeaseOut, Resume,
     Stop, DirectTurn, Abort, TurnEnds, HostStarts, EndsBeforeHost, HostEnds, Released,
     RecoverPending, vars
<1>. QED BY <1>1, <1>2, <1>3, <1>4, Steps

\* The submitters that have not been answered wait for no turn.
LEMMA WaitersHaveNoTurn ==
  ASSUME Still, CancelInv, [Next]_vars, NEW i \in Items, waiter'[i] \in Unanswered
  PROVE  turn'.item # i
<1>0. TypeOK /\ waiter \in [Items -> Waits] /\ i # 0
  BY DEF Still, FateInv, Base, TypeOK, Items
<1>1. CASE Enqueue(i)
  <2>1. row[i] = "new" /\ turn' = turn
    BY <1>1 DEF Enqueue
  <2>. QED BY <2>1 DEF CancelInv
<1>2. CASE \E d \in Deliverers : Accept(d)
  <2>1. PICK d \in Deliverers : Accept(d)
    BY <1>2
  <2>2. turn'.item = job[d].item
    BY <2>1, Accepts DEF Still, FateInv
  <2>3. job[d].item = i => waiter'[i] \notin Unanswered
    BY <1>0, <2>1 DEF Accept, Unanswered
  <2>. QED BY <2>2, <2>3
<1>3. CASE ~Enqueue(i) /\ ~ \E d \in Deliverers : Accept(d)
  <2>1. waiter[i] \in Unanswered
    <3>1. CASE \E j \in Items \ {i} : Enqueue(j)
      BY <1>0, <3>1 DEF Enqueue
    <3>2. CASE Outside /\ ~ \E j \in Items : Enqueue(j)
      BY <3>2, OutsideWaits DEF Still, FateInv, KeepsWaiters
    <3>3. CASE \E d \in Deliverers : Deliver(d)
      BY <1>3, <3>3, DeliveryWaits DEF Still, FateInv, KeepsWaiters
    <3>4. CASE \E d \in Deliverers, k \in Waiting : Claim(d, k)
      BY <3>4 DEF Claim
    <3>. QED BY <1>3, <3>1, <3>2, <3>3, <3>4, Steps
  <2>2. turn.item # i
    BY <2>1 DEF CancelInv
  <2>. QED BY <1>3, <2>2, MarkStays
<1>. QED BY <1>1, <1>2, <1>3

\* The row of an acceptance, and its mark.
LEMMA AcceptedRow ==
  ASSUME Still, CancelInv, NEW d \in Deliverers, Accept(d)
  PROVE  /\ job[d].item \in Items /\ row[job[d].item] = "claimed" /\ row' = row
         /\ at'[d] = "ack" /\ job' = job
         /\ job[d].item \in unwanted => turn'.aborted
<1>0. TypeOK /\ at[d] = "admit" /\ at[d] \notin Between \cup {"open"}
  BY DEF Still, FateInv, Base, Accept, Between
<1>1. job[d].item \in Items /\ row[job[d].item] = "claimed"
  BY <1>0, AtWork DEF Still, KeptInv, Holds, FateInv, Base, TypeOK
<1>2. ASSUME job[d].item \in unwanted
      PROVE  turn'.aborted
  <2>1. ASSUME NEW e \in Deliverers, at[e] = "ack", job[e].item = job[d].item
        PROVE  FALSE
    <3>1. at[e] \notin Between \cup {"open"}
      BY <2>1 DEF Between
    <3>2. e = d
      BY <1>0, <2>1, <3>1, HoldersDiffer
    <3>. QED BY <1>0, <2>1, <3>2
  <2>2. waiter[job[d].item] = "cancelled"
    BY <1>1, <1>2, <2>1 DEF CancelInv, Gone
  <2>3. turn'.aborted = Inherits(d)
    BY DEF Accept
  <2>. QED BY <2>2, <2>3 DEF Inherits, CancelRequested
<1>. QED BY <1>0, <1>1, <1>2 DEF Accept, TypeOK

\* No message runs whose cancellation was taken.
LEMMA CancelKept ==
  ASSUME Still, CancelInv, [Next]_vars, Trouble \cap PutsBack = {}
  PROVE  CancelInv'
<1>0. TypeOK /\ DeliveryInv /\ turn \in Turns
  BY DEF Still, FateInv, Base, TypeOK
<1>1. ASSUME NEW i \in Items, turn'.item = i
      PROVE  row'[i] # "new"
  <2>1. row[i] # "new"
    BY <1>1, MarkStays, Accepts, AcceptedRow DEF CancelInv, Still, FateInv
  <2>2. ~Enqueue(i)
    BY <2>1 DEF Enqueue
  <2>. QED BY <2>1, <2>2, RowsMove DEF Still, FateInv
<1>2. ASSUME NEW i \in unwanted'
      PROVE  i \in Items /\ ~Restart
  BY <1>2, BaseKept DEF Still, FateInv, Base, TypeOK, Restart
<1>3. ASSUME NEW i \in unwanted', i \notin unwanted
      PROVE  /\ ran'[i] = 0 /\ turn'.item # i /\ waiter'[i] = "cancelled"
  <2>1. RequestCancellation(i) /\ i \in Items
    BY <1>2, <1>3, UnwantedMoves
  <2>2. /\ waiter[i] = "pending" /\ turn' = turn /\ ran' = ran
        /\ waiter' = [waiter EXCEPT ![i] = "cancelled"]
    BY <2>1 DEF RequestCancellation
  <2>3. row[i] \in Queued /\ turn.item # i
    BY <2>1, <2>2 DEF Still, WaitInv, CancelInv, Unanswered
  <2>4. ran[i] = 0
    BY <1>0, <2>1, <2>3 DEF DeliveryInv, Fresh, Queued
  <2>. QED BY <1>0, <2>1, <2>2, <2>3, <2>4 DEF TypeOK
<1>4. ASSUME NEW i \in unwanted', i \in unwanted
      PROVE  /\ ran'[i] = 0
             /\ turn'.item = i => turn'.aborted
             /\ \/ waiter'[i] = "cancelled" \/ row'[i] \in Gone
                \/ \E d \in Deliverers : at'[d] = "ack" /\ job'[d].item = i
  <2>0. i \in Items /\ ~Restart
    BY <1>2, <1>4
  <2>1. ran'[i] = 0
    <3>1. HostStarts => turn.item # i
      BY <1>4 DEF HostStarts, CancelInv
    <3>2. CASE HostStarts
      BY <1>0, <1>4, <2>0, <3>1, <3>2 DEF HostStarts, CancelInv, TypeOK
    <3>. QED BY <1>4, <3>2, RunsMove DEF CancelInv
  <2>2. turn'.item = i => turn'.aborted
    <3>1. CASE \E d \in Deliverers : Accept(d)
      BY <1>4, <3>1, Accepts, AcceptedRow DEF Still, FateInv
    <3>2. CASE ~ \E d \in Deliverers : Accept(d)
      BY <1>4, <2>0, <3>2, MarkStays DEF CancelInv
    <3>. QED BY <3>1, <3>2
  <2>3. CASE waiter[i] = "cancelled"
    <3>1. CASE \E d \in Deliverers : Accept(d) /\ job[d].item = i
      BY <2>1, <2>2, <3>1, AcceptedRow
    <3>. QED BY <2>0, <2>1, <2>2, <2>3, <3>1, CancelledStays
  <2>4. CASE row[i] \in Gone
    BY <2>0, <2>1, <2>2, <2>4, GoneStays
  <2>5. CASE \E d \in Deliverers : at[d] = "ack" /\ job[d].item = i
    BY <2>0, <2>1, <2>2, <2>5, AckStays DEF Gone
  <2>. QED BY <1>4, <2>3, <2>4, <2>5 DEF CancelInv
<1>. QED BY <1>1, <1>3, <1>4, WaitersHaveNoTurn DEF CancelInv

LEMMA CancelInductive ==
  ASSUME Trouble \cap PutsBack = {}
  PROVE  Still /\ CancelInv /\ [Next]_vars => Still' /\ CancelInv'
<1>. SUFFICES ASSUME Still, CancelInv, [Next]_vars
              PROVE  Still' /\ CancelInv'
  OBVIOUS
<1>1. FateInv' /\ OrderInv' /\ WaitInv'
  BY FateInvKept, OrderKept, WaitKept DEF Still, FateInv
<1>. QED BY <1>1, KeptKept, CancelKept DEF Still

\* CancelledNeverRuns, as long as nothing puts an accepted row back: a cancellation that
\* was taken is lost on no other way -- not by a pass that ends, an admission that fails,
\* an explicit Continue, a turn that is stopped, a stop or a restart.
THEOREM CancelledStaysOut ==
  ASSUME Trouble \cap PutsBack = {}
  PROVE  Spec => []CancelledNeverRuns
<1>1. Init => Still /\ CancelInv
  <2>1. Init => KeptInv /\ CancelInv
    BY DEF Init, KeptInv, CancelInv, Between, Unanswered, NoTurn, Items
  <2>. QED BY <2>1, InitFates, InitWakes DEF Still
<1>2. CancelInv => CancelledNeverRuns
  BY DEF CancelInv, CancelledNeverRuns
<1>3. Still /\ CancelInv /\ [Next]_vars => Still' /\ CancelInv'
  BY CancelInductive
<1>. QED BY <1>1, <1>2, <1>3, PTL DEF Spec
=============================================================================
