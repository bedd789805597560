---------------------------- MODULE QueueDelivery ----------------------------
(***************************************************************************)
(* How a queued message becomes a turn, and becomes one once: the queue    *)
(* dispatcher (turn-system/queue.dispatcher.ts), the delivery that holds   *)
(* the host back until the row is acknowledged                             *)
(* (application/conversation/user-message-turn-delivery.ts) and the        *)
(* settlement that wakes the dispatcher again                              *)
(* (turn-system/execution/execution.coordinator.ts).                       *)
(*                                                                         *)
(* One session, one process that may crash and restart, and two callers    *)
(* that deliver: the drain and the explicit Continue of a paused queue.    *)
(* Items are 1 .. N in their queue order.  What orders the rows is the     *)
(* subject of SessionQueue, what locks the session that of TurnLease; here *)
(* the two meet.  Each await of the dispatcher ends a step.                *)
(***************************************************************************)
EXTENDS Naturals, FiniteSets

CONSTANTS
  N,           \* items submitted to the queue
  Requests,    \* client request ids
  Req,         \* the client request id of each item
  Trouble,     \* what may go wrong besides a busy session
  MaxTrouble,  \* bound on how often something goes wrong
  MaxClaims,   \* bound on the claims ever made
  MaxDirect    \* bound on the turns that bypass the queue

Items     == 1 .. N
Claims    == 1 .. MaxClaims
Deliverers == {"drain", "continued"}

ASSUME ReqAssumption   == Req \in [Items -> Requests]
ASSUME BoundAssumption == {N, MaxTrouble, MaxClaims, MaxDirect} \subseteq Nat

VARIABLES
  row,        \* the row of each item
  claim,      \* the claim on the row, or 0
  attempt,    \* the claim of the row's last delivery attempt, or 0
  lapsed,     \* rows whose claim's lease has run out
  claims,     \* claims made so far
  accepted,   \* claims named by a turn receipt
  requests,   \* client request ids named by a turn receipt
  waiter,     \* the completion its submitter waits for (queued-turn-completion.ts)
  paused,     \* the queue is paused
  turn,       \* the accepted turn that holds the session, or NoTurn
  at,         \* where each deliverer is
  job,        \* what it delivers
  yielded,    \* rows that gave up their position in this pass
  owed,       \* startedWake < requestedWake
  recoverFirst, \* recoverBeforeNextClaim
  stopping,   \* blockedSessions has the session, or the dispatcher is closed
  trouble, direct,
  parked,     \* history: why nothing will look at the queue again, or "no"
  unwanted,   \* history: items whose cancellation this process took
  ran,        \* history: how often each item entered the host
  cut         \* history: claims whose turn ended without entering the host

rows   == <<row, claim, attempt, lapsed, waiter>>
books  == <<claims, accepted, requests>>
drainV == <<yielded, owed, recoverFirst>>
hist   == <<unwanted, ran, cut>>
vars   == <<row, claim, attempt, lapsed, waiter, claims, accepted, requests, paused, turn, at, job,
            yielded, owed, recoverFirst, stopping, trouble, direct, parked, unwanted, ran, cut>>

NoTurn == [item |-> 0, claim |-> 0, phase |-> "none", aborted |-> FALSE]
NoJob  == [item |-> 0, claim |-> 0, first |-> FALSE, how |-> "release", again |-> FALSE,
           why |-> "no"]
Gone   == {"acked", "recovered", "rejected", "cancelled", "replayed"}
Why    == {"no", "deferred", "threw", "refused", "ended", "continued", "blocked",
           "restarted", "resumed", "stopped", "recovered"}

Rows   == {"new", "waiting", "claimed"} \cup Gone
Waits  == {"none", "pending", "cancelled", "executing", "settled"}
Turns  == [item: 0 .. N, claim: 0 .. MaxClaims, aborted: BOOLEAN,
           phase: {"none", "fenced", "open", "doomed", "host"}]
Places == {"idle", "recover", "claim", "check", "prepare", "admit", "ack", "retry", "open",
           "settle"}
Jobs   == [item: 0 .. N, claim: 0 .. MaxClaims, first: BOOLEAN, again: BOOLEAN, why: Why,
           how: {"release", "reject", "cancel"}]

\* Types; a claim is on a row exactly while the row is claimed.
TypeOK ==
  /\ row \in [Items -> Rows] /\ claim \in [Items -> 0 .. MaxClaims]
  /\ \A i \in Items : (claim[i] # 0) <=> (row[i] = "claimed")
  /\ attempt \in [Items -> 0 .. MaxClaims] /\ waiter \in [Items -> Waits]
  /\ lapsed \subseteq Items /\ claims \in 0 .. MaxClaims
  /\ accepted \subseteq Claims /\ requests \subseteq Requests
  /\ turn \in Turns /\ at \in [Deliverers -> Places] /\ job \in [Deliverers -> Jobs]
  /\ paused \in BOOLEAN /\ stopping \in BOOLEAN
  /\ owed \in BOOLEAN /\ recoverFirst \in BOOLEAN
  /\ yielded \subseteq Items /\ unwanted \subseteq Items /\ cut \subseteq Claims
  /\ trouble \in 0 .. MaxTrouble /\ direct \in 0 .. MaxDirect
  /\ parked \in Why /\ ran \in [Items -> Nat]

Waiting == {i \in Items : row[i] = "waiting"}
Claimed == {i \in Items : row[i] = "claimed"}
Live    == Waiting \cup Claimed

\* Something of this kind goes wrong now.
Goes(kind) == kind \in Trouble /\ trouble < MaxTrouble /\ trouble' = trouble + 1
Well       == UNCHANGED trouble

-----------------------------------------------------------------------------
(* Wakes.                                                                  *)

\* A slip: the wake is dropped while a drain is at work.
WakeIfIdle == /\ owed' = (owed \/ (~stopping /\ at["drain"] = "idle"))
              /\ parked' = IF stopping THEN "stopped" ELSE "no"

\* dispatch: a stopped dispatcher ignores the wake; else it is owed a pass.
Wake == /\ owed' = (owed \/ ~stopping)
        /\ parked' = IF stopping THEN "stopped" ELSE "no"

\* A message is queued and its submitter wakes the dispatcher.  A request the
\* queue still holds is answered from its row.  A pause does not outlive the
\* last row it guards.
Enqueue(i) ==
  /\ row[i] = "new" /\ \A j \in 1 .. i - 1 : row[j] # "new"
  /\ row' = [row EXCEPT ![i] =
       IF \E j \in Live : Req[j] = Req[i] THEN "replayed" ELSE "waiting"]
  /\ waiter' = [waiter EXCEPT ![i] = IF row'[i] = "waiting" THEN "pending" ELSE "none"]
  /\ paused' = (paused /\ Live # {})
  /\ Wake
  /\ UNCHANGED <<claim, attempt, lapsed, books, turn, at, job, yielded, recoverFirst,
                 stopping, trouble, direct, hist>>

\* abort of a message whose turn has not begun: a mark in memory, and a wake for
\* the dispatcher to act on it.
RequestCancellation(i) ==
  /\ waiter[i] = "pending" /\ Goes("cancel")
  /\ waiter' = [waiter EXCEPT ![i] = "cancelled"]
  /\ unwanted' = unwanted \cup {i}
  /\ Wake
  /\ UNCHANGED <<row, claim, attempt, lapsed, books, paused, turn, at, job, yielded,
                 recoverFirst, stopping, direct, ran, cut>>

\* continueQueue lifts the pause; nothing wakes the dispatcher for it.
Resume ==
  /\ paused /\ paused' = FALSE /\ parked' = "resumed"
  /\ UNCHANGED <<rows, books, turn, at, job, drainV, stopping, trouble, direct, hist>>

\* quiesceSession or close.
Stop ==
  /\ ~stopping /\ Goes("stop") /\ stopping' = TRUE /\ parked' = "stopped"
  /\ UNCHANGED <<rows, books, paused, turn, at, job, drainV, direct, hist>>

-----------------------------------------------------------------------------
(* A pass of the drain, and the two ways to claim a row.                   *)

NextStep == IF recoverFirst /\ ~stopping THEN "recover" ELSE "claim"

\* A caller of dispatch finds no drain running and starts one.
StartDrain ==
  /\ at["drain"] = "idle" /\ owed
  /\ owed' = FALSE /\ yielded' = {} /\ parked' = "no"
  /\ at' = [at EXCEPT !["drain"] = NextStep]
  /\ UNCHANGED <<rows, books, paused, turn, job, recoverFirst, stopping, trouble, direct, hist>>

\* The delivery of d is over: the drain makes another pass if the row said so
\* or a wake came in, unless it threw or is stopped.
Ended(d, again, why) ==
  /\ job' = [job EXCEPT ![d] = NoJob]
  /\ LET loops == d = "drain" /\ why # "threw" /\ ~stopping /\ (again \/ owed)
     IN /\ at' = [at EXCEPT ![d] = IF loops THEN NextStep ELSE "idle"]
        /\ owed' = (owed /\ ~loops)
        /\ yielded' = IF loops /\ owed THEN {} ELSE yielded
        /\ parked' = IF loops THEN "no" ELSE IF stopping THEN "stopped"
                     ELSE IF why = "no" THEN parked ELSE why

\* Slips: a receipt is taken for a delivery; a row keeps the claim taken back.
DeliveredByReceipt(i) == claim[i] \in accepted

TakeBackKeepsClaim(S) ==
  /\ row' = [i \in Items |-> IF i \in S THEN "waiting" ELSE row[i]]
  /\ lapsed' = lapsed \ S
  /\ UNCHANGED <<claim, attempt>>

\* The claim's turn was accepted and started.  While the row's last attempt is
\* the claim's own, the row has not been acknowledged and the host not started.
Delivered(i) == attempt[i] # claim[i] /\ claim[i] \in accepted

\* recoverClaims: rows whose claim is over leave the queue or are queued again.
TakeBack(S) ==
  /\ row' = [i \in Items |-> IF i \notin S THEN row[i]
                             ELSE IF Delivered(i) THEN "recovered" ELSE "waiting"]
  /\ claim' = [i \in Items |-> IF i \in S THEN 0 ELSE claim[i]]
  /\ lapsed' = lapsed \ S
  /\ UNCHANGED attempt

\* recoverBeforeNextClaim: only claims whose lease is over are recovered, and
\* the flag is cleared.
RecoverBeforeClaim ==
  /\ at["drain"] = "recover"
  /\ TakeBack(Claimed \cap lapsed)
  /\ recoverFirst' = FALSE
  /\ at' = [at EXCEPT !["drain"] = "claim"]
  /\ UNCHANGED <<waiter, books, paused, turn, job, yielded, owed, stopping, trouble, direct,
                 parked, hist>>

\* claimNext, by the drain or past the pause by an explicit Continue.
Claim(d, i) ==
  /\ claims < MaxClaims /\ claims' = claims + 1
  /\ Claimed = {}
  /\ row' = [row EXCEPT ![i] = "claimed"]
  /\ claim' = [claim EXCEPT ![i] = claims + 1]
  /\ job' = [job EXCEPT ![d] = [NoJob EXCEPT !.item = i, !.claim = claims + 1,
                                             !.first = attempt[i] = 0]]
  /\ at' = [at EXCEPT ![d] = "check"]
  /\ UNCHANGED <<attempt, lapsed, waiter, accepted, requests, paused, turn, drainV, stopping,
                 trouble, direct, parked, hist>>

Claimable == IF stopping \/ paused \/ Claimed # {} THEN {} ELSE Waiting \ yielded

DrainClaims ==
  /\ at["drain"] = "claim"
  /\ \E i \in Claimable : (\A j \in Claimable : i <= j) /\ Claim("drain", i)

ContinueClaims ==
  /\ "continue" \in Trouble
  /\ at["continued"] = "idle" /\ ~stopping
  /\ \E i \in Waiting : (\A j \in Waiting : i <= j) /\ Claim("continued", i)

\* There is nothing to claim, be it that the queue is paused, that every row
\* yielded or that another delivery holds a row; or the claim throws, or the
\* recovery before it, which is then still to be done.
DrainFindsNothing ==
  /\ at["drain"] \in {"recover", "claim"}
  /\ \/ at["drain"] = "claim" /\ Claimable = {} /\ Well
        /\ Ended("drain", FALSE, IF paused \/ stopping THEN "no"
                                 ELSE IF Claimed # {} THEN "blocked"
                                 ELSE IF Waiting # {} THEN "deferred" ELSE "no")
     \/ (at["drain"] = "claim" => Claimable # {})
        /\ Goes("throw") /\ Ended("drain", FALSE, "threw")
  /\ UNCHANGED <<rows, books, paused, turn, recoverFirst, stopping, direct, hist>>

-----------------------------------------------------------------------------
(* The delivery of a claimed row.                                          *)

\* What d will make of the row: how it leaves, whether the drain goes on.
Settles(d, how, again, why) ==
  /\ at' = [at EXCEPT ![d] = "settle"]
  /\ job' = [job EXCEPT ![d] = [@ EXCEPT !.how = how, !.again = again, !.why = why]]

CancelRequested(d) == waiter[job[d].item] = "cancelled"

\* ... unless its cancellation was requested meanwhile: then it is cancelled.
Leaves(d, how, again, why) ==
  IF CancelRequested(d) THEN Settles(d, "cancel", TRUE, "no") ELSE Settles(d, how, again, why)

Yields(d) == d = "drain" /\ Goes("yield")

\* The row is put back and, if it yields its position, the pass goes on.
Defers(d) ==
  /\ ~CancelRequested(d)
  /\ \/ Yields(d) /\ Settles(d, "release", TRUE, "no") /\ yielded' = yielded \cup {job[d].item}
     \/ Goes("defer") /\ Settles(d, "release", FALSE, "deferred") /\ UNCHANGED yielded

\* After the claim: is the dispatcher still open, is the row ready?  The row of
\* an explicit Continue is never dropped for being stale.
Check(d) ==
  /\ at[d] = "check"
  /\ \/ stopping /\ Well /\ Settles(d, "release", FALSE, "stopped") /\ UNCHANGED yielded
     \/ /\ ~stopping
        /\ \/ /\ Well /\ UNCHANGED yielded
              /\ IF CancelRequested(d) THEN Settles(d, "cancel", TRUE, "no")
                 ELSE at' = [at EXCEPT ![d] = "prepare"] /\ UNCHANGED job
           \/ Goes("throw") /\ Leaves(d, "release", FALSE, "threw") /\ UNCHANGED yielded
           \/ Defers(d)
           \/ /\ Goes("stale") /\ UNCHANGED yielded
              /\ IF d = "drain" THEN Leaves(d, "cancel", TRUE, "no")
                                ELSE Leaves(d, "release", FALSE, "refused")
  /\ UNCHANGED <<rows, books, paused, turn, owed, recoverFirst, stopping, direct, parked, hist>>

Holds(d) == claim[job[d].item] = job[d].claim

\* prepareDelivery notes the attempt on the row before the turn is submitted.
Prepare(d) ==
  /\ at[d] = "prepare"
  /\ \/ /\ Holds(d) /\ Well
        /\ attempt' = [attempt EXCEPT ![job[d].item] = job[d].claim]
        /\ at' = [at EXCEPT ![d] = "admit"]
        /\ UNCHANGED job
     \/ /\ IF Holds(d) THEN Goes("throw") ELSE Well
        /\ Leaves(d, "release", FALSE, "threw")
        /\ UNCHANGED attempt
  /\ UNCHANGED <<row, claim, lapsed, waiter, books, paused, turn, drainV, stopping, direct,
                 parked, hist>>

\* The first delivery of a row carries the client's request id; a later one a
\* fresh turn id and an id of its own.
Conflicts(d) == job[d].first /\ Req[job[d].item] \in requests

\* The priority fence: no row ahead that has not yielded, and no pause unless
\* the user continues past it.
FencePasses(d) ==
  /\ paused => d = "continued"
  /\ \A j \in Live : j < job[d].item => d = "drain" /\ j \in yielded

\* A slip: the registered turn does not learn of the cancellation.
InheritsNothing(d) == FALSE

\* Registration hands a pending cancellation over to the turn.
Inherits(d) == CancelRequested(d)

\* The accepted turn waits for its start fence.
StartPhase == "fenced"

\* Admission accepts: the receipt names the claim and the request id it
\* carried, and the host waits at the start fence -- or, when registration
\* fails, is never reached.
Accept(d) ==
  /\ at[d] = "admit" /\ ~Conflicts(d) /\ turn = NoTurn /\ FencePasses(d)
  /\ accepted' = accepted \cup {job[d].claim}
  /\ requests' = requests \cup (IF job[d].first THEN {Req[job[d].item]} ELSE {})
  /\ \E phase \in {StartPhase, "doomed"} :
       /\ IF phase = "doomed" THEN Goes("stillborn") ELSE Well
       /\ turn' = [item |-> job[d].item, claim |-> job[d].claim, phase |-> phase,
                   aborted |-> Inherits(d)]
  /\ waiter' = [waiter EXCEPT ![job[d].item] =
       IF @ \in {"pending", "cancelled"} THEN "executing" ELSE @]
  /\ paused' = (paused /\ d = "drain")
  /\ at' = [at EXCEPT ![d] = "ack"]
  /\ UNCHANGED <<row, claim, attempt, lapsed, claims, job, drainV, stopping, direct, parked,
                 hist>>

\* Admission rejects: a request already accepted is a conflict, a busy session
\* or a fence keeps the row for the wake of the turn that holds the session or
\* for the end of the pause, a policy defers, refuses or cancels the row, or the
\* submission throws.
Reject(d) ==
  /\ at[d] = "admit"
  /\ \/ /\ UNCHANGED yielded
        /\ \/ /\ Conflicts(d) /\ Well
              /\ IF d = "drain" THEN Leaves(d, "reject", TRUE, "no")
                                ELSE Leaves(d, "release", FALSE, "refused")
           \/ /\ ~Conflicts(d) /\ (turn # NoTurn \/ ~FencePasses(d)) /\ Well
              /\ Leaves(d, "release", FALSE, "no")
           \/ Goes("throw") /\ Leaves(d, "release", FALSE, "threw")
           \/ CancelRequested(d) /\ Well /\ Settles(d, "cancel", TRUE, "no")
           \/ Goes("policy") /\ Leaves(d, "release", FALSE, "refused")
           \/ /\ Goes("policy") /\ d = "drain"
              /\ \E again \in BOOLEAN :
                   Leaves(d, "cancel", again, IF again THEN "no" ELSE "refused")
     \/ d = "drain" /\ Defers(d)
  /\ UNCHANGED <<rows, books, paused, turn, owed, recoverFirst, stopping, direct, parked, hist>>

-----------------------------------------------------------------------------
(* From acceptance to the host.                                            *)

Mine(d) == turn.claim = job[d].claim /\ turn # NoTurn

\* The start fence fails: the accepted turn never reaches the host.
FailStart(d) ==
  turn' = IF Mine(d) /\ turn.phase = "fenced" THEN [turn EXCEPT !.phase = "doomed"] ELSE turn

\* acknowledge: the claim still holds its row and a receipt names it.
Acknowledgeable(d) == Holds(d) /\ job[d].claim \in accepted

\* The row is deleted.
Acknowledge(d) ==
  /\ at[d] \in {"ack", "retry"} /\ Acknowledgeable(d)
  /\ row' = [row EXCEPT ![job[d].item] = "acked"]
  /\ claim' = [claim EXCEPT ![job[d].item] = 0]
  /\ lapsed' = lapsed \ {job[d].item}
  /\ at' = [at EXCEPT ![d] = "open"]
  /\ UNCHANGED <<attempt, waiter, books, paused, turn, job, drainV, stopping, trouble, direct,
                 parked, hist>>

\* It failed once: it is tried again.  It failed twice: the turn is failed,
\* the next pass recovers claims first, and the row is put back.
AcknowledgeFails(d) ==
  /\ at[d] \in {"ack", "retry"}
  /\ IF Acknowledgeable(d) THEN Goes("fault") ELSE Well
  /\ \/ /\ at[d] = "ack" /\ at' = [at EXCEPT ![d] = "retry"]
        /\ UNCHANGED <<job, turn, recoverFirst>>
     \/ /\ at[d] = "retry" /\ Leaves(d, "release", FALSE, "threw")
        /\ FailStart(d)
        /\ recoverFirst' = (recoverFirst \/ d = "drain")
  /\ UNCHANGED <<rows, books, paused, yielded, owed, stopping, direct, parked, hist>>

\* The message cannot be committed after acceptance: no acknowledgement is tried.
CommitFails(d) ==
  /\ at[d] = "ack" /\ Goes("commit")
  /\ FailStart(d)
  /\ Leaves(d, "release", FALSE, "threw")
  /\ UNCHANGED <<rows, books, paused, drainV, stopping, direct, parked, hist>>

\* The start fence opens; the delivery is over.
OpenStart(d) ==
  /\ at[d] = "open"
  /\ turn' = IF Mine(d) /\ turn.phase = "fenced" THEN [turn EXCEPT !.phase = "open"] ELSE turn
  /\ Ended(d, FALSE, "no")
  /\ UNCHANGED <<rows, books, paused, recoverFirst, stopping, trouble, direct, hist>>

\* The row is put back, rejected or cancelled; the facts of the last two answer
\* the submitter.  A release of a claim that is gone does nothing; the other two
\* throw, and so does a fault.
Settle(d) ==
  /\ at[d] = "settle"
  /\ LET i    == job[d].item
         goes == IF job[d].how = "release" THEN "waiting"
                 ELSE IF job[d].how = "reject" THEN "rejected" ELSE "cancelled"
         why  == IF d = "drain" THEN job[d].why
                 ELSE IF parked = "blocked" THEN "no" ELSE "continued"
     IN \/ /\ Holds(d) /\ Well
           /\ row' = [row EXCEPT ![i] = goes]
           /\ claim' = [claim EXCEPT ![i] = 0] /\ lapsed' = lapsed \ {i}
           /\ waiter' = [waiter EXCEPT ![i] =
                IF goes # "waiting" /\ @ # "none" THEN "settled" ELSE @]
           /\ Ended(d, job[d].again, why)
        \/ /\ IF Holds(d) THEN Goes("fault") ELSE Well
           /\ UNCHANGED <<row, claim, lapsed, waiter>>
           /\ IF ~Holds(d) /\ job[d].how = "release" THEN Ended(d, job[d].again, why)
                                                     ELSE Ended(d, FALSE, "threw")
  /\ UNCHANGED <<attempt, books, paused, turn, recoverFirst, stopping, direct, hist>>

-----------------------------------------------------------------------------
(* The turn that holds the session.                                        *)

\* A slip: a direct turn does not look whether the session is taken.
DirectTurnUnlocked ==
  /\ ~stopping /\ direct < MaxDirect /\ direct' = direct + 1
  /\ turn' = [NoTurn EXCEPT !.phase = "host"]
  /\ paused' \in {paused, FALSE}
  /\ UNCHANGED <<rows, books, at, job, drainV, stopping, trouble, parked, hist>>

\* A turn that was not queued and that the fence let pass; it may end the pause.
DirectTurn ==
  /\ turn = NoTurn /\ ~stopping /\ direct < MaxDirect /\ direct' = direct + 1
  /\ turn' = [NoTurn EXCEPT !.phase = "host"]
  /\ paused' \in {paused, FALSE}
  /\ UNCHANGED <<rows, books, at, job, drainV, stopping, trouble, parked, hist>>

Abort ==
  /\ turn # NoTurn /\ ~turn.aborted /\ Goes("abort")
  /\ turn' = [turn EXCEPT !.aborted = TRUE]
  /\ UNCHANGED <<rows, books, paused, at, job, drainV, stopping, direct, parked, hist>>

HostStarts ==
  /\ turn.phase = "open" /\ ~turn.aborted
  /\ turn' = [turn EXCEPT !.phase = "host"]
  /\ ran' = [ran EXCEPT ![turn.item] = @ + 1]
  /\ UNCHANGED <<rows, books, paused, at, job, drainV, stopping, trouble, direct, parked,
                 unwanted, cut>>

\* A slip: only a turn that entered the host answers its submitter.
AnswersHostedOnly ==
  waiter' = [i \in Items |-> IF i = turn.item /\ turn.phase = "host"
                              THEN "settled" ELSE waiter[i]]

\* The completion of the turn answers the submitter of its message.
Answers ==
  waiter' = [i \in Items |-> IF i = turn.item /\ waiter[i] = "executing"
                              THEN "settled" ELSE waiter[i]]

\* settleAndRelease: the lock goes, a foreground failure or a user's stop
\* pauses the queue, the dispatcher is woken or not, the submitter is answered.
Released(wakes, pauses) ==
  /\ turn' = NoTurn
  /\ paused' \in {paused} \cup (IF pauses /\ Live # {} THEN {TRUE} ELSE {})
  /\ IF wakes THEN Wake ELSE parked' = "ended" /\ UNCHANGED owed
  /\ Answers
  /\ UNCHANGED <<row, claim, attempt, lapsed, books, at, job, yielded, recoverFirst, stopping,
                 direct, unwanted, ran>>

\* A turn that never reaches the host: failed with a wake, or aborted without.
EndsBeforeHost ==
  /\ \/ turn.phase = "doomed" /\ Released(TRUE, TRUE)
     \/ turn.phase = "open" /\ turn.aborted /\ Released(FALSE, TRUE)
  /\ cut' = cut \cup {turn.claim}
  /\ Well

\* Only a completed turn that waits for nobody wakes the queue.
HostEnds ==
  /\ turn.phase = "host"
  /\ \/ Well /\ ~turn.aborted /\ Released(TRUE, FALSE)
     \/ Well /\ turn.aborted /\ Released(FALSE, TRUE)
     \/ Goes("waiting") /\ Released(FALSE, FALSE)
     \/ Goes("failed") /\ Released(FALSE, TRUE)
  /\ UNCHANGED cut

-----------------------------------------------------------------------------
(* Time and restarts.                                                      *)

\* The lease of a claim is never renewed: a slow delivery outlives it.
LeaseOut(i) ==
  /\ i \in Claimed \ lapsed /\ Goes("lease") /\ lapsed' = lapsed \cup {i}
  /\ UNCHANGED <<row, claim, attempt, waiter, books, paused, turn, at, job, drainV, stopping,
                 direct, parked, hist>>

\* recoverPending, run again by the recovery timer of a process that shares the
\* tables: claims whose lease is over are taken back, and nobody is woken.
RecoverPending ==
  /\ Claimed \cap lapsed # {} /\ ~stopping
  /\ TakeBack(Claimed \cap lapsed) /\ parked' = "recovered"
  /\ UNCHANGED <<waiter, books, paused, turn, at, job, drainV, stopping, trouble, direct, hist>>

\* The process stops and another starts: its turn is failed, every claim made
\* before the start is taken back, and nothing is dispatched.
Restart ==
  /\ Goes("crash")
  /\ TakeBack(Claimed)
  /\ turn' = NoTurn /\ waiter' = [i \in Items |-> "none"]
  /\ cut' = cut \cup (IF turn.phase \in {"fenced", "open", "doomed"} THEN {turn.claim} ELSE {})
  /\ at' = [d \in Deliverers |-> "idle"] /\ job' = [d \in Deliverers |-> NoJob]
  /\ owed' = FALSE /\ recoverFirst' = FALSE /\ yielded' = {} /\ stopping' = FALSE
  /\ parked' = "restarted" /\ unwanted' = {}
  /\ UNCHANGED <<books, paused, direct, ran>>

Init ==
  /\ row = [i \in Items |-> "new"] /\ claim = [i \in Items |-> 0]
  /\ attempt = [i \in Items |-> 0] /\ lapsed = {}
  /\ waiter = [i \in Items |-> "none"]
  /\ claims = 0 /\ accepted = {} /\ requests = {}
  /\ paused = FALSE /\ turn = NoTurn
  /\ at = [d \in Deliverers |-> "idle"] /\ job = [d \in Deliverers |-> NoJob]
  /\ yielded = {} /\ owed = FALSE /\ recoverFirst = FALSE /\ stopping = FALSE
  /\ trouble = 0 /\ direct = 0
  /\ parked = "no" /\ unwanted = {} /\ ran = [i \in Items |-> 0] /\ cut = {}

Deliver(d) ==
  Check(d) \/ Prepare(d) \/ Accept(d) \/ Reject(d) \/ Acknowledge(d)
  \/ AcknowledgeFails(d) \/ CommitFails(d) \/ OpenStart(d) \/ Settle(d)

Drain == StartDrain \/ RecoverBeforeClaim \/ DrainClaims \/ DrainFindsNothing

TurnEnds == HostStarts \/ EndsBeforeHost \/ HostEnds

Next ==
  \/ \E i \in Items : Enqueue(i) \/ RequestCancellation(i) \/ LeaseOut(i)
  \/ Resume \/ Stop \/ Drain \/ ContinueClaims
  \/ \E d \in Deliverers : Deliver(d)
  \/ DirectTurn \/ Abort \/ TurnEnds
  \/ RecoverPending \/ Restart

Spec == Init /\ [][Next]_vars

-----------------------------------------------------------------------------
(* What must hold.                                                         *)

\* A message enters the host at most once, whatever fails, crashes or is taken
\* back around its delivery: the host starts only after the row is deleted
\* under the claim that the turn was accepted with.
HostSeesRowOnce == \A i \in Items : ran[i] <= 1

\* An accepted message is not lost without a trace: its row is deleted under the
\* claim of a turn that entered the host, is still on its way there, or ended
\* before with a terminal fact; and recovery deletes no row the host has not seen.
AcknowledgedRowsRan ==
  \A i \in Items :
    /\ row[i] = "acked" => ran[i] = 1 \/ turn.claim = attempt[i] \/ attempt[i] \in cut
    /\ row[i] = "recovered" => ran[i] = 1

\* A message whose cancellation was taken never enters the host, however far its
\* delivery had come when the request arrived.
CancelledNeverRuns == \A i \in unwanted : ran[i] = 0

\* What puts an accepted row back: its message is not committed, its acknowledgement
\* fails, or its claim's lease runs out.
PutsBack == {"commit", "fault", "lease"}

\* The submitter of a message is answered by the time the message has left the
\* queue and the turn it became has ended.
SubmitterIsAnswered ==
  \A i \in Items : row[i] \in Gone /\ turn.item # i => waiter[i] \in {"none", "settled"}

\* The turn of an acknowledged message is still to reach the host.
BeforeHost  == {"fenced", "open", "doomed"}
OnItsWay(i) == turn.claim = attempt[i] /\ turn.item = i /\ turn.phase \in BeforeHost

\* What has become of each message, and what is with the host.  A message without a
\* trace has a fate that the queue does not promise.
Fate == [i \in Items |->
  CASE row[i] = "new"                                                     -> "new"
    [] row[i] \in {"waiting", "claimed"}                                  -> "queued"
    [] row[i] \in {"rejected", "cancelled", "replayed"}                   -> "refused"
    [] row[i] \in {"acked", "recovered"} /\ ran[i] # 0                    -> "ran"
    [] row[i] = "acked" /\ ran[i] = 0 /\ attempt[i] \in cut               -> "cut"
    [] row[i] = "acked" /\ ran[i] = 0 /\ attempt[i] \notin cut /\ OnItsWay(i) -> "leaving"
    [] OTHER                                                              -> "lost"]

Hosted == IF turn.phase # "host" THEN "none" ELSE IF turn.item = 0 THEN "other" ELSE "message"

\* Whatever is claimed twice, taken back, put back or lost in a crash, each message
\* has one fate: it leaves the queue for good, and then it runs, alone and once, or
\* is cut off.
Fates == INSTANCE MessageFates WITH fate <- Fate, hosted <- Hosted
ImplementsFates == Fates!Spec

\* The turns of the session, as the turn repository keeps them: those of the claims
\* and, behind them, the direct ones.  How a turn ended that reached the host is not
\* kept here.
TurnIds == 1 .. MaxClaims + MaxDirect
OpenTurn == IF turn = NoTurn THEN 0 ELSE IF turn.claim # 0 THEN turn.claim ELSE MaxClaims + direct
Begun == accepted \cup MaxClaims + 1 .. MaxClaims + direct

Receipts ==
  LET open == OpenTurn
      begun == Begun
  IN  [t \in TurnIds |-> IF t \notin begun THEN "none"
                         ELSE IF t = open THEN "accepted"
                         ELSE IF t \in cut THEN "failed" ELSE "completed"]

\* Whoever delivers uses the turn repository as TurnLedger says: one turn at a time,
\* each accepted once and ended once, whatever claims are made again.
Ledger == INSTANCE TurnLedger WITH Turns <- TurnIds, ledger <- Receipts, gone <- FALSE
ImplementsLedger == Ledger!Spec

\* A row the dispatcher could deliver, and no wake on its way.
Stranded ==
  Waiting # {} /\ Claimed = {} /\ turn = NoTurn /\ ~paused /\ ~owed
  /\ \A d \in Deliverers : at[d] = "idle"

\* A row is left in an idle queue only by a decision that says so: a deferral,
\* an error, an unfinished turn, a restart -- never by a wake that came while
\* the drain was busy and was forgotten.
NoLostWake == Stranded => parked # "no"

\* The dispatcher's promises and the host's turns are kept going; submissions,
\* aborts, restarts and the user are not.
FairSpec ==
  /\ Spec
  /\ WF_vars(Drain) /\ \A d \in Deliverers : WF_vars(Deliver(d))
  /\ WF_vars(TurnEnds)

\* Every queued row leaves the queue in the end, through turns that hold the
\* session, wakes that come during a pass and cancellations -- unless a turn
\* was aborted, which leaves the queue to its user.
EveryRowIsServed ==
  \A i \in Items :
    row[i] = "waiting" ~> (row[i] \in Gone \/ paused \/ parked \in {"ended", "resumed"})
=============================================================================
