------------------------------ MODULE Steering ------------------------------
(***************************************************************************)
(* Messages that join a running turn, and what becomes of those that the   *)
(* turn ends without reading: the entry of the turn controller, the poll   *)
(* of the runner, the requeue that tracks what was handed over, and the    *)
(* drain of a shutdown.  One turn of one session, in one process.          *)
(*                                                                         *)
(* The process runs one continuation at a time.  A promise that settles    *)
(* makes those who await it ready, in the order in which they began to     *)
(* wait; nothing else happens until they have run.                         *)
(***************************************************************************)
EXTENDS Integers, Sequences, FiniteSets, SequencesExt

CONSTANTS
  Sent,     \* how many messages there are, numbered in the order of createdAt
  Machine,  \* those of producers other than the user
  Faults    \* how many writes may fail

ASSUME SteeringAssumption == Sent \in Nat /\ Faults \in Nat /\ Machine \subseteq 1..Sent

Messages == 1..Sent
Users == Messages \ Machine
Batches == 1..Cardinality(Users)
Drain == 0        \* the drain among those who await a job; the others are lanes
NoJob == [kind |-> "none"]

VARIABLES
  phase,    \* of the turn: "running", "closing", "aborted", "gone"
  reason,   \* of its abort: "none", "user" (one that pauses the queue), "other"
  host,     \* where runner and coordinator are: "idle", "poll", "ended", "settling", "gone"
  accepted, \* steeringIdentities: what the turn took
  waiting,  \* steering
  claimed,  \* steeringClaims, in the order of the poll that holds them
  exit,     \* the poll under way is at the exit boundary
  consumed, \* what the turn has read
  batches,  \* every batch handed over, in order; `pending` while it is tracked
  jobs,     \* inflight: the write under way, at its first batch
  ready,    \* continuations whose promise has settled
  drain,    \* the drain of a shutdown
  fallen,   \* user rows of the conversation, in their order
  rows,     \* the queued batches, first to go first
  ran,      \* messages that were dispatched from the queue
  paused,   \* the queue is paused
  resumed,  \* history: the rows that were queued when the user continued
  awake,    \* a wake of the queue is on its way
  faults    \* writes that failed

turnV == <<phase, reason, host, accepted, waiting, claimed, exit, consumed>>
queueV == <<rows, ran, paused, resumed, awake>>
vars == <<turnV, batches, jobs, ready, drain, fallen, queueV, faults>>

-----------------------------------------------------------------------------
Jobs == {i \in Batches : jobs[i] # NoJob}
Lanes == DOMAIN batches
Earliest(s) == CHOOSE m \in ToSet(s) : \A n \in ToSet(s) : m <= n
\* What of the sequence s is in S, in the order of s.
Kept(s, S) ==
  LET f[n \in 0..Len(s)] ==
        IF n = 0 THEN <<>> ELSE IF s[n] \in S THEN Append(f[n - 1], s[n]) ELSE f[n - 1]
  IN  f[Len(s)]
InOrder(S) == Kept([m \in Messages |-> m], S)

TypeOK ==
  /\ phase \in {"running", "closing", "aborted", "gone"} /\ reason \in {"none", "user", "other"}
  /\ host \in {"idle", "poll", "ended", "settling", "gone"} /\ exit \in BOOLEAN
  /\ accepted \subseteq Messages /\ consumed \subseteq accepted /\ ran \subseteq accepted
  /\ \A s \in {waiting, claimed, fallen} : s \in Seq(accepted) /\ IsInjective(s)
  /\ \A b \in ToSet(batches) :
       /\ b.todo \in Seq(Users) /\ b.route \in {"teardown", "requeue"} /\ b.pending \in BOOLEAN
       /\ b.cause \in {"abort", "abnormal-seal", "exit-close"}
       /\ b.job # 0 => b.job \in Jobs
  /\ \A i \in Jobs : jobs[i].todo \in Seq(Users) /\ batches[i].job = i
  /\ ready \in Seq(Lanes \cup {Drain}) /\ IsInjective(ready)
  /\ rows \in Seq(Lanes) /\ IsInjective(rows) /\ resumed \subseteq Lanes
  /\ paused \in BOOLEAN /\ awake \in BOOLEAN /\ faults \in 0..Faults

-----------------------------------------------------------------------------
(* Writes.  A job writes the messages of one batch, or of several merged;   *)
(* whoever wants a batch written joins the job that is under way.           *)

Job(b, i, who) ==
  [kind |-> b.route, todo |-> b.todo, enqueued |-> FALSE, waiters |-> who]

\* `start`: batch i, now b, is awaited by `who`.
Await(i, b, who) ==
  IF b.job # 0
  THEN /\ jobs' = [jobs EXCEPT ![b.job].waiters = Append(@, who)]
       /\ batches' = [batches EXCEPT ![i] = b]
  ELSE /\ jobs' = [jobs EXCEPT ![i] = Job(b, i, <<who>>)]
       /\ batches' = [batches EXCEPT ![i] = [b EXCEPT !.job = i]]

\* The user's messages among those the turn lets go of become a tracked batch.
Handed(msgs, cause) ==
  [todo |-> Kept(msgs, Users), cause |-> cause, pending |-> TRUE,
   route |-> IF cause = "exit-close" THEN "requeue" ELSE "teardown",
   lane |-> IF cause = "exit-close" THEN "first" ELSE "release", job |-> 0]

Discard(msgs, cause) ==
  LET b == Handed(msgs, cause)
      i == Len(batches) + 1
  IN  IF b.todo = <<>> THEN UNCHANGED <<batches, jobs>>
      ELSE IF b.route = "teardown"
      THEN batches' = Append(batches, b) /\ UNCHANGED jobs
      ELSE /\ batches' = Append(batches, [b EXCEPT !.job = i])
           /\ jobs' = [jobs EXCEPT ![i] = Job(b, i, <<>>)]

\* Slip: a batch whose write failed half way is kept whole.
Settle_Whole(i, ok, written) ==
  LET left(b) == [b EXCEPT !.job = 0, !.pending = @ /\ ~ok, !.lane = IF @ = "first" THEN "release" ELSE @]
  IN  /\ batches' = [k \in Lanes |-> IF batches[k].job = i THEN left(batches[k]) ELSE batches[k]]
      /\ jobs' = [jobs EXCEPT ![i] = NoJob]
      /\ ready' = ready \o jobs[i].waiters
      /\ drain' = [drain EXCEPT !.on = @ \ {i}]
\* A job is over: its batches keep what is not durable, and leave the books when
\* nothing is left or the write as a whole went well.
Settle(i, ok, written) ==
  LET over(b) == [b EXCEPT
        !.todo = IF jobs[i].kind = "teardown" THEN Kept(@, Messages \ written) ELSE @,
        !.job = 0, !.lane = IF @ = "first" THEN "release" ELSE @]
      left(b) == [b EXCEPT !.pending = @ /\ ~(ok \/ b.todo = <<>>)]
  IN  /\ batches' = [k \in Lanes |-> IF batches[k].job = i THEN left(over(batches[k])) ELSE batches[k]]
      /\ jobs' = [jobs EXCEPT ![i] = NoJob]
      /\ ready' = ready \o jobs[i].waiters
      /\ drain' = [drain EXCEPT !.on = @ \ {i}]

\* Each message is shown and appended to the history, in the job's order.
Land(i) ==
  /\ ready = <<>> /\ jobs[i].kind = "teardown"
  /\ fallen' = IF jobs[i].todo = <<>> THEN fallen ELSE Append(fallen, Head(jobs[i].todo))
  /\ IF Len(jobs[i].todo) > 1
     THEN jobs' = [jobs EXCEPT ![i].todo = Tail(@)] /\ UNCHANGED <<batches, ready, drain>>
     ELSE Settle(i, TRUE, ToSet(fallen) \cup ToSet(jobs[i].todo))
  /\ UNCHANGED <<turnV, queueV, faults>>

\* Slip: a pause that fails after the row was queued is let pass.
WriteFails_PauseIgnored(i) ==
  /\ ready = <<>> /\ jobs[i] # NoJob /\ faults < Faults
  /\ faults' = faults + 1 /\ Settle(i, jobs[i].enqueued, ToSet(fallen))
  /\ UNCHANGED <<turnV, fallen, queueV>>
\* A write of the history, the queue or the pause fails; what was written stays.
WriteFails(i) ==
  /\ ready = <<>> /\ jobs[i] # NoJob /\ faults < Faults
  /\ faults' = faults + 1 /\ Settle(i, FALSE, ToSet(fallen))
  /\ UNCHANGED <<turnV, fallen, queueV>>

StopPauses(i) == batches[i].cause = "abort" /\ reason = "user"

\* The batch becomes one row in front; a row of the same identity is replayed.
Enqueue(i) ==
  /\ ready = <<>> /\ jobs[i].kind = "requeue" /\ ~jobs[i].enqueued
  /\ rows' = <<i>> \o Kept(rows, Lanes \ {i})
  /\ IF StopPauses(i)
     THEN /\ jobs' = [jobs EXCEPT ![i].enqueued = TRUE]
          /\ UNCHANGED <<batches, ready, drain, awake>>
     ELSE /\ Settle(i, TRUE, {})
          /\ awake' = (awake \/ (batches[i].cause = "exit-close" /\ phase = "gone"))
  /\ UNCHANGED <<turnV, fallen, ran, paused, resumed, faults>>

\* pauseIfPending, after the row of a turn that its user stopped.
Pause(i) ==
  /\ ready = <<>> /\ jobs[i].kind = "requeue" /\ jobs[i].enqueued
  /\ paused' = (paused \/ rows # <<>>) /\ Settle(i, TRUE, {})
  /\ UNCHANGED <<turnV, fallen, rows, ran, resumed, awake, faults>>

-----------------------------------------------------------------------------
(* The turn: its controller entry and the runner's poll.                    *)

\* Slip: the identity of a message is not looked up.
Steer_Unchecked(m) ==
  /\ ready = <<>> /\ phase = "running"
  /\ accepted' = accepted \cup {m} /\ waiting' = Append(waiting, m)
  /\ UNCHANGED <<phase, reason, host, claimed, exit, consumed, batches, jobs, ready, drain,
                 fallen, queueV, faults>>
\* An accepted message is buffered; one that was accepted before stays once.
Steer(m) ==
  /\ ready = <<>> /\ phase = "running" /\ m \notin accepted
  /\ accepted' = accepted \cup {m} /\ waiting' = Append(waiting, m)
  /\ UNCHANGED <<phase, reason, host, claimed, exit, consumed, batches, jobs, ready, drain,
                 fallen, queueV, faults>>

\* The runner claims what waits.  A finished answer takes machine input only.
Poll ==
  /\ ready = <<>> /\ host = "idle" /\ phase = "running" /\ waiting # <<>>
  /\ exit' \in {x \in BOOLEAN : x => ToSet(waiting) \cap Machine # {}}
  /\ host' = "poll" /\ claimed' = waiting /\ waiting' = <<>>
  /\ UNCHANGED <<phase, reason, accepted, consumed, batches, jobs, ready, drain, fallen, queueV,
                 faults>>

Takes(m) == exit => m \in Machine

\* Slip: the messages go back to the buffer of a turn that was aborted meanwhile.
Restore_Buffered(msgs) ==
  /\ host' = "idle" /\ claimed' = <<>> /\ exit' = FALSE
  /\ waiting' = msgs \o waiting
  /\ UNCHANGED <<phase, reason, accepted, batches, jobs, ready, drain, fallen, queueV, faults>>
\* restoreSteering: back in front of what came meanwhile, or handed over if the
\* turn was aborted meanwhile.
Restore(msgs) ==
  /\ host' = "idle" /\ claimed' = <<>> /\ exit' = FALSE
  /\ IF phase = "aborted"
     THEN Discard(msgs, "abort") /\ UNCHANGED waiting
     ELSE waiting' = msgs \o waiting /\ UNCHANGED <<batches, jobs>>
  /\ UNCHANGED <<phase, reason, accepted, ready, drain, fallen, queueV, faults>>

PollConsumes ==
  /\ ready = <<>> /\ host = "poll"
  /\ consumed' = consumed \cup {m \in ToSet(claimed) : Takes(m)}
  /\ Restore(Kept(claimed, {m \in Messages : ~Takes(m)}))

\* A hook stops the prompt, or a write of the poll throws.
PollGivesUp ==
  /\ ready = <<>> /\ host = "poll" /\ UNCHANGED consumed /\ Restore(claimed)

\* The answer is finished: the poll leaves the user's messages waiting, and the
\* close that follows hands them over.  Machine input holds the close.
TryBeginClose ==
  /\ ready = <<>> /\ host = "idle" /\ phase = "running" /\ ToSet(waiting) \cap Machine = {}
  /\ phase' = "closing" /\ waiting' = <<>> /\ Discard(waiting, "exit-close")
  /\ UNCHANGED <<reason, host, accepted, claimed, exit, consumed, ready, drain, fallen, queueV,
                 faults>>

\* abortEntry.  What a poll holds stays with the poll.
AbortEntry(r) ==
  /\ phase' = "aborted" /\ reason' = r
  /\ waiting' = <<>> /\ Discard(waiting, "abort")
  /\ UNCHANGED <<host, accepted, claimed, exit, consumed>>

Abort(r) ==
  /\ ready = <<>> /\ phase = "running" /\ AbortEntry(r)
  /\ UNCHANGED <<ready, drain, fallen, queueV, faults>>

\* The host's outcome; one that is not a completion seals the controls.
HostEnds ==
  /\ ready = <<>> /\ host = "idle" /\ host' = "ended"
  /\ IF phase = "running"
     THEN phase' = "closing" /\ waiting' = <<>> /\ Discard(waiting, "abnormal-seal")
     ELSE UNCHANGED <<phase, waiting, batches, jobs>>
  /\ UNCHANGED <<reason, accepted, claimed, exit, consumed, ready, drain, fallen, queueV, faults>>

\* Slip: the batches follow each other as they were handed over.
Merged_ByBatch(free) ==
  FlattenSeq([n \in 1..Cardinality(free) |-> batches[InOrder(free)[n]].todo])
\* What several batches hold, in the order the messages were sent.
Merged(free) == InOrder(UNION {ToSet(batches[i].todo) : i \in free})

\* Before the turn is settled: every batch of it that is not being written goes
\* into one write.
CommitBeforeRelease ==
  LET free == {i \in Lanes : batches[i].pending /\ batches[i].route = "teardown"
                             /\ batches[i].job = 0}
      first == CHOOSE i \in free : \A k \in free : i <= k
  IN  /\ ready = <<>> /\ host = "ended" /\ host' = "settling"
      /\ IF free = {} THEN UNCHANGED <<batches, jobs>>
         ELSE /\ jobs' = [jobs EXCEPT ![first] =
                   [kind |-> "teardown", waiters |-> <<>>, enqueued |-> FALSE,
                    todo |-> Merged(free)]]
              /\ batches' = [i \in Lanes |->
                   IF i \in free THEN [batches[i] EXCEPT !.job = first] ELSE batches[i]]
      /\ UNCHANGED <<phase, reason, accepted, waiting, claimed, exit, consumed, ready, drain,
                     fallen, queueV, faults>>

\* The turn is settled and released, after that write or after its two seconds.
\* A foreground turn that failed or was stopped by its user pauses the queue.
Release ==
  /\ ready = <<>> /\ host = "settling" /\ host' = "gone" /\ phase' = "gone"
  /\ \E pauses \in BOOLEAN : paused' = (paused \/ (pauses /\ rows # <<>>))
  /\ awake' = (awake \/ reason = "none")
  /\ ready' = [i \in Lanes |-> i]
  /\ UNCHANGED <<reason, accepted, waiting, claimed, exit, consumed, batches, jobs, drain, fallen,
                 rows, ran, resumed, faults>>

-----------------------------------------------------------------------------
(* Those who await: the lane of each batch, and the drain.                  *)

\* What a lane awaits after the promise it awaited has settled.
After(b) ==
  CASE b.lane = "first" -> "joined"
    [] b.lane \in {"joined", "release"} /\ b.cause = "exit-close" -> "again"
    [] b.lane = "release" /\ b.cause # "exit-close" -> "try1"
    [] b.lane = "try1" -> "try2"
    [] b.lane = "try2" -> "last"
    [] OTHER -> "end"

Lane(i) ==
  LET b == batches[i]
      next == [b EXCEPT !.lane = After(b), !.route = IF After(b) = "last" THEN "requeue" ELSE @]
  IN  /\ ready # <<>> /\ Head(ready) = i /\ ready' = Tail(ready)
      /\ IF next.lane # "end" /\ (b.pending \/ next.lane = "joined")
         THEN Await(i, next, i)
         ELSE batches' = [batches EXCEPT ![i].lane = "end"] /\ UNCHANGED jobs
      /\ UNCHANGED <<turnV, drain, fallen, queueV, faults>>

\* close(): the controller aborts the turn, and the drain waits for the writes
\* under way.
Shutdown ==
  /\ ready = <<>> /\ drain.at = "no"
  /\ IF phase = "running" THEN AbortEntry("other") ELSE UNCHANGED <<turnV, batches, jobs>>
  /\ drain' = [at |-> "inflight", on |-> Jobs, todo |-> <<>>, upto |-> 0]
  /\ UNCHANGED <<ready, fallen, queueV, faults>>

\* The drain goes on to the next batch of its list, or to what is still written.
Visit(list, upto) ==
  IF list = <<>>
  THEN /\ drain' = [at |-> "rest", on |-> Jobs, todo |-> <<>>, upto |-> upto]
       /\ UNCHANGED <<batches, jobs>>
  ELSE /\ drain' = [at |-> "first", on |-> {}, todo |-> list, upto |-> upto]
       /\ Await(list[1], batches[list[1]], Drain)

\* drainOrder: by the earliest message of each tracked batch.
DrainStarts ==
  LET tracked == {i \in Lanes : batches[i].pending}
      firsts == InOrder({Earliest(batches[i].todo) : i \in tracked})
  IN  /\ ready = <<>> /\ drain.at = "inflight" /\ drain.on = {}
      /\ Visit([n \in DOMAIN firsts |->
                  CHOOSE i \in tracked : Earliest(batches[i].todo) = firsts[n]], Len(batches))
      /\ UNCHANGED <<turnV, ready, fallen, queueV, faults>>

\* Slip: every batch is tried once.
DrainContinues_Once ==
  /\ ready # <<>> /\ Head(ready) = Drain /\ ready' = Tail(ready)
  /\ drain.at \in {"first", "second"} /\ Visit(Tail(drain.todo), drain.upto)
  /\ UNCHANGED <<turnV, fallen, queueV, faults>>
\* A batch that could not fall into the conversation goes to the queue.
DrainContinues ==
  LET i == drain.todo[1]
      b == batches[i]
  IN  /\ ready # <<>> /\ Head(ready) = Drain /\ ready' = Tail(ready)
      /\ drain.at \in {"first", "second"}
      /\ IF drain.at = "first" /\ b.route = "teardown" /\ b.pending
         THEN /\ Await(i, [b EXCEPT !.route = "requeue"], Drain)
              /\ drain' = [drain EXCEPT !.at = "second"]
         ELSE Visit(Tail(drain.todo), drain.upto)
      /\ UNCHANGED <<turnV, fallen, queueV, faults>>

DrainEnds ==
  /\ ready = <<>> /\ drain.at = "rest" /\ drain.on = {} /\ drain' = [drain EXCEPT !.at = "done"]
  /\ UNCHANGED <<turnV, batches, jobs, ready, fallen, queueV, faults>>

-----------------------------------------------------------------------------
(* The queue and its user.                                                  *)

\* The dispatcher's turn-released wake takes the first row, unless it is paused.
Dispatch ==
  /\ ready = <<>> /\ phase = "gone" /\ awake /\ drain.at = "no"
  /\ IF paused \/ rows = <<>>
     THEN awake' = FALSE /\ UNCHANGED <<rows, ran>>
     ELSE rows' = Tail(rows) /\ ran' = ran \cup ToSet(batches[rows[1]].todo) /\ UNCHANGED awake
  /\ UNCHANGED <<turnV, batches, jobs, ready, drain, fallen, paused, resumed, faults>>

\* Another turn of the session is released.
OtherWake ==
  /\ ready = <<>> /\ phase = "gone" /\ ~awake /\ awake' = TRUE
  /\ UNCHANGED <<turnV, batches, jobs, ready, drain, fallen, rows, ran, paused, resumed, faults>>

ContinueQueue ==
  /\ ready = <<>> /\ paused /\ paused' = FALSE /\ awake' = TRUE
  /\ resumed' = resumed \cup ToSet(rows)
  /\ UNCHANGED <<turnV, batches, jobs, ready, drain, fallen, rows, ran, faults>>

Init ==
  /\ phase = "running" /\ reason = "none" /\ host = "idle"
  /\ accepted = {} /\ waiting = <<>> /\ claimed = <<>> /\ exit = FALSE /\ consumed = {}
  /\ batches = <<>> /\ jobs = [i \in Batches |-> NoJob] /\ ready = <<>>
  /\ drain = [at |-> "no", on |-> {}, todo |-> <<>>, upto |-> 0]
  /\ fallen = <<>> /\ rows = <<>> /\ ran = {} /\ resumed = {} /\ paused = FALSE /\ awake = FALSE /\ faults = 0

Turn ==
  \/ \E m \in Messages : Steer(m)
  \/ Poll \/ PollConsumes \/ PollGivesUp \/ TryBeginClose
  \/ \E r \in {"user", "other"} : Abort(r)
  \/ HostEnds \/ CommitBeforeRelease \/ Release

Requeue ==
  \/ \E i \in Batches : Land(i) \/ WriteFails(i) \/ Enqueue(i) \/ Pause(i) \/ Lane(i)
  \/ Shutdown \/ DrainStarts \/ DrainContinues \/ DrainEnds

Next == Turn \/ Requeue \/ Dispatch \/ OtherWake \/ ContinueQueue

Spec == Init /\ [][Next]_vars

-----------------------------------------------------------------------------
Queued(i) == ToSet(batches[i].todo)
InQueue == (UNION {Queued(i) : i \in ToSet(rows)}) \cup ran
Tracked == UNION {Queued(i) : i \in {k \in Lanes : batches[k].pending}}

\* "no admitted message is ever dropped" (steering-requeue.ts:27-28): what the
\* turn took from its user waits in a turn that runs, is with a poll, was read, is
\* tracked, or is in the conversation or the queue, through aborts, seals and
\* failing writes.
NothingDropped ==
  accepted \cap Users \subseteq
    (IF phase = "running" THEN ToSet(waiting) ELSE {}) \cup ToSet(claimed) \cup consumed \cup Tracked \cup ToSet(fallen) \cup InQueue

\* Nothing the user sent is read twice: not by the turn and again by a later one,
\* not in the conversation and again from the queue, not from the queue twice --
\* except that a drain enqueues anew what a stop could not park and a wake ran.
ReadOnce ==
  /\ consumed \cap (ToSet(fallen) \cup InQueue) = {} /\ ToSet(fallen) \cap InQueue = {}
  /\ \A i \in ToSet(rows) :
       /\ \A k \in ToSet(rows) \ {i} : Queued(i) \cap Queued(k) = {}
       /\ Queued(i) \cap ran # {} => StopPauses(i) /\ drain.at # "no"

\* The next turn reads what fell into the conversation in the order it was sent,
\* although a poll hands its messages over after the abort did (TS-76); a failed
\* write or a shutdown may change that.
FallenInOrder ==
  faults = 0 /\ drain.at = "no" => \A i, k \in DOMAIN fallen : i < k => fallen[i] < fallen[k]

\* A row that was handed back waits for the right one: that of a stopped turn for
\* its user, behind a pause; that of a finished turn for a wake that is coming.
RowsAreParkedOrWoken ==
  \A i \in ToSet(rows) \ resumed :
    batches[i].job = 0 /\ ~batches[i].pending =>
      /\ StopPauses(i) => paused
      /\ batches[i].cause = "exit-close" /\ phase = "gone" => awake \/ paused

\* What was handed over before a shutdown began to drain is durable when the
\* drain is done, unless more than one write failed.
DrainLands ==
  drain.at = "done" /\ faults < 2 => \A i \in 1..drain.upto : ~batches[i].pending

\* The turn has a message in its buffer, or a poll has claimed it.
InTurn(m) == m \in ToSet(claimed) \/ (phase = "running" /\ m \in ToSet(waiting))

\* A message that may be read in two places.
Twice(m) ==
  \/ InTurn(m) /\ m \in consumed
  \/ (InTurn(m) \/ m \in consumed) /\ m \in Tracked \cup ToSet(fallen) \cup InQueue
  \/ m \in ToSet(fallen) \cap InQueue

\* Where each of the user's messages is.  One without a trace, or with two, has a
\* home that is not promised.
Home == [m \in Users |->
  IF m \notin accepted THEN "new"
  ELSE IF Twice(m) THEN "twice"
  ELSE IF InTurn(m) THEN "turn"
  ELSE IF m \in consumed THEN "read"
  ELSE IF m \in ToSet(fallen) THEN "conversation"
  ELSE IF m \in ran THEN "ran"
  ELSE IF m \in InQueue THEN "queue"
  ELSE IF m \in Tracked THEN "held"
  ELSE "lost"]

TurnIs == IF phase \in {"running", "gone"} THEN phase ELSE "stopped"

\* Through polls, aborts, seals, retries and a shutdown, each message has one home
\* and moves on only: what was read does not come back, what fell is not queued,
\* what ran does not fall.
Homes == INSTANCE MessageHomes WITH home <- Home, turn <- TurnIs
ImplementsHomes == Homes!Spec
=============================================================================
