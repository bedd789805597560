# A TLA+ model of the local runtime

This directory models the part of the local agent runtime that decides *which
message runs next, who may run it, and what becomes of both when a process, a
lease or a write fails*; how its frames reach those who watch; and the account
that all its processes share. The first two live in
`src/packages/local-runtime-v2/src/service/{turn-system,session-system}`, the
account in `src/packages/oauth-core`; paths below are relative to
`src/packages/local-runtime-v2/src` unless they start with `src/`.

## 1. The system

A client (TUI, `exec`, ACP, the desktop app) talks to a service facade, which
calls the applications (`application/*`), which compose the session system, the
turn system and the agent services. A *session* is a conversation; a *turn* is
one run of the agent on one user message. Several processes (desktop, CLI,
background runtime) open the same SQLite database, so everything below the
facade may happen in two processes at once. Inside a process the code is
single-threaded and interleaves at every `await`.

| component | state | operations | talks to |
|---|---|---|---|
| session queue (`service/session-system/queue`) | table `local_runtime_queue_items`, the pause row | enqueue, edit, reorder, claim, prepare, acknowledge, release, remove, recover, pause, continue | the dispatcher (calls), the turn repository (the priority fence runs inside its transactions) |
| turn repository (`service/turn-system/persistence`) | `local_runtime_session_locks`, `local_runtime_turn_ingress`; in memory `pendingSettlements` | admit, renew, settle, revoke, maintenance, begin/complete deletion, restart recovery | the queue fence, the execution coordinator, the deletion saga |
| execution (`service/turn-system/execution`) | the turn controller's entry per session, renewal timers, pending submissions | submit, register, start, abort, settle, roll back | repository, agent host, dispatcher (released signal) |
| dispatcher (`queue.dispatcher.ts`) | per session: requested and started wakes, a running drain, `recoverBeforeNextClaim`; `blockedSessions` | dispatch, drain, continue, recover, quiesce | queue, executor |
| operation gate (`lifecycle/session-operation-gate.ts`) | permits, exclusive holder, block and its drain | enter, exclusive, block, release | submissions, compaction, deletion |
| deletion saga (`lifecycle/session-turn-deletion.ts`) | `SessionDeletionGate`, the progress of the saga | begin, abort the turn, wait, erase, clean up, complete | all of the above |
| steering (`execution/turn-controller`, `execution/steering`) | the buffer and the claims of the active turn; `pending`, `inflight` batches of what turns let go | steer, poll, restore, close, seal, discard, commit before release, drain | the runner (polls), the coordinator (release), the queue, the conversation |
| session stream (`service/session-system/stream`, `infra/sse`) | per session a ring of frames, message groups, subscriptions with bounded queues, reservations | write, evict, subscribe, resume by cursor or by message, reserve, bind, discard | the projection (writes), the message table (read by a resume), SSE clients |
| account (`src/packages/oauth-core`) | `auth-state.json`, `auth.json`, a lock file | get a token, refresh, report a rejected token, log in, cancel, log out, status | every process of the data directory; the authorization server |
| owner registry (`infra/runtime-owner`) | one lease file per process | start, heartbeat, close, liveness | restart recovery |
| cron, goals, background tasks, questionnaires, MCP pool, token broker | see section 7 | | |

What is hard here, and hard to test: a claim and its admission are two
transactions with everything else between them; a pause is written while a claim
is under way; a lease expires while its owner is slow; a write that settles a
turn fails; a process dies between any two steps; a deletion runs against a turn
of another process; messages that a turn did not read are written, retried,
queued and drained by four parties; a client resumes while frames are written and
evicted; two processes refresh one token. `PROJECT.json` lists these hazards at their lines.

What makes each part correct:

* queue: a message is delivered in its place in the order, by one claim at a
  time, and a retried request is one message; a pause guards pending work, holds,
  and ends for a reason;
* repository: one turn at a time holds the session, lock and receipt say the
  same, every accepted turn gets exactly one outcome, nothing is taken from a
  live owner whose lease runs;
* gate: permits balance on every path, an exclusive holder past its drain is
  alone, a stop reaches what is still being submitted, a drain ends;
* deletion: data is erased only while no turn is open, and no turn starts
  beneath the fence;
* steering: a message the turn took is read by it or comes back, once, in its
  order, and does not run against the will of a user who stopped;
* stream: between replay and subscription nothing is lost and nothing comes
  twice, and a reader ends up with what the table says;
* account: the two files fit together at every instant, a refresh token is used
  once, and what was signed out stays out.

## 2. Modules

| module | what it is |
|---|---|
| `SessionQueue` | the queue of one session: rows, order, claims, pause, fence |
| `SessionQueueProofs` | its theorems, for all constants |
| `MCSessionQueue` | instances for TLC |
| `TurnLedger` | abstract: what the turn repository promises about the turns of a session |
| `TurnLease` | detailed: lock row, receipts, processes, recovery, maintenance, deletion |
| `MCTurnLease` | instances for TLC |
| `TurnLeaseProofs` | its theorems, for all values of the constants |
| `MessageFates` | abstract: what the queue promises of the messages of a session |
| `QueueDelivery` | dispatcher, delivery, start fence, settlement: how a row becomes a turn, once |
| `QueueDeliveryProofs` | its theorems, for all constants |
| `MCQueueDelivery` | instances for TLC |
| `SessionGate` | the operation gate of a process and its clients: who may work on a session at the same time |
| `SessionGateProofs` | its theorems, for all constants |
| `MCSessionGate` | instances for TLC |
| `MessageHomes` | abstract: what is promised of the messages a user sends into a running turn |
| `Steering` | messages that join a running turn, and what becomes of those it does not read |
| `SteeringProofs` | its theorems on what is kept and what is read, for all constants |
| `SteeringRequeueProofs` | its theorems on rows, order, types, the drain and the homes, which rest on the former |
| `MCSteering` | instances for TLC |
| `SessionStream` | the frames of a session: ring, eviction, subscriptions, resume, reservation |
| `SessionStreamProofs` | its theorems, for all constants |
| `MCSessionStream` | instances for TLC |
| `OAuthCore` | the account shared by the processes of a data directory |
| `OAuthCoreProofs` | its theorems, for all constants |
| `MCOAuthCore` | instances for TLC |

`SessionQueue` and `TurnLease` each model one set of tables in full;
`QueueDelivery` composes them, and keeps of each only what a delivery can see:
of the queue the claim, the last attempt and the position of a row, of the turn
repository who holds the session and which claims and requests a receipt names.
`SessionGate` looks at the same turns from inside one process, where the lock
row is only who holds it, and `Steering` at one turn between its registration and
its release, and at what it leaves behind. `SessionStream` and `OAuthCore` stand
by themselves.

### SessionQueue

One session (sessions share no row). A repository operation is one immediate
SQLite transaction (`repo/drizzle.ts`, `transaction`), so it is one action.
Every transaction first deletes the queued rows that have expired and last drops
a pause with nothing behind it; `Without`, `Returned` and `Commit` make both part
of every action. The table is `rows`, a function of item ids with an `absent`
row; the rowid order is the relation `ahead`, because only the relative order of
rows matters: `AtTail` is an insertion, `AtFront` the delete-and-reinsert of
`moveQueuedToFront`, `InPlaceOf` the takeover of a rowid by `replaceItem`.
`closing` is the session's deletion gate, which rejects mutations.

The fence (`turn-priority-fence.ts`) is three hooks inside the turn repository's
transactions: `AdmitClaim` and `AdmitDirect` (`acceptedInTransaction`),
`SettleTurn` (`settledInTransaction`), `RevokeTurn` (`revokedInTransaction`).
The turn system appears only as `turn` (held or not, the claim, the pause it
consumed) and `receipts`.

### TurnLedger and TurnLease

`TurnLedger` says what callers of the repository rely on: a turn is accepted,
then finished once or withdrawn; accepting a turn fails one that was left open;
receipts are erased only when none is open. `TurnLease` has the mechanism: one
lock row for a turn, a compaction, a maintenance or a deletion; the leases; the
processes that start, stop and recover; the turn's life in a process
(`exec`: admitted, registered, running, aborted, settled, or stuck after two
failed settlements); and the deletion saga, one action per `await`
(`CloseGate`, `RaiseFence`, `CheckQuiescent`, `EraseData`, `Cleanup`,
`LowerFence`).

### QueueDelivery

The path of a message through `queue.dispatcher.ts`,
`application/conversation/user-message-turn-delivery.ts`,
`queued-turn-completion.ts` and the settlement in
`execution/execution.coordinator.ts`. Two callers deliver, and they are not
serialised with each other: the drain (`at["drain"]`) and an explicit Continue of
a paused queue (`at["continued"]`). A delivery is a walk through its awaits,
and every await ends a step:

| place | action | code |
|---|---|---|
| `recover` | `RecoverBeforeClaim`, `DrainFindsNothing` | `recoverClaims`, which may throw and is then still to be done |
| `claim` | `DrainClaims`, `ContinueClaims`, `DrainFindsNothing` | `claimNext` |
| `check` | `Check` | readiness, staleness, a cancellation that came meanwhile |
| `prepare` | `Prepare` | `prepareDelivery` notes the attempt on the row |
| `admit` | `Accept`, `Reject` | submission, the priority fence, registration |
| `ack`, `retry` | `Acknowledge`, `AcknowledgeFails`, `CommitFails` | commit of the message, then `acknowledge`, twice at most |
| `open` | `OpenStart` | the start fence opens and the host may run |
| `settle` | `Settle` | release, reject or cancel the row |

`owed` stands for `startedWake < requestedWake`, `recoverFirst` for
`recoverBeforeNextClaim`, `stopping` for `blockedSessions` and `close`. `turn` is
the accepted turn with the phase of its start: `fenced` (it waits for its row to be
acknowledged), `open`, `doomed` (it will fail without reaching the host), `host`.
`waiter` is the completion that the submitter of a message waits for. `parked`,
`unwanted`, `ran` and `cut` are history: why nothing will look at the queue
again, which cancellations were taken, how often a message entered the host,
which claims ended before it.

Two abstract modules say what all this comes to. To `MessageFates` a message
has one fate: it waits until it is refused, or leaves the queue for good with its turn,
and then it runs, alone and once, or its turn ends before. Claims, fences,
request ids, wakes and restarts do not appear there; `Fate` reads the fate off the
row, the claim of its last attempt and the turn, and a message without a trace
would have a fate that `MessageFates` does not know. To `TurnLedger`, which
`TurnLease` implements from below, the delivery is a user of the repository, from above:
`Receipts` are the claims that were admitted and the direct turns.

Restarts dispatch nothing (the code leaves recovered rows to the next wake, and a
test of the repository says so), so `Restart` parks the queue as `restarted`.

### SessionGate

One session in one process, where everything interleaves at its awaits. `active`,
`mutation`, `deleting`, `sharedDrain` and `fullDrain` are the fields of
`SessionOperationState`; an entry of the gate's map that is missing is the state
with nothing in it. `sharedDrain` is kept as the set of operations whose
`drained` promise is pending. Each operation has a kind and walks through its
places:

| kind | code | way |
|---|---|---|
| `send` | `submit` under a permit | `check`, `prepare`, `admit`, `commit`, `accept`, `register` |
| `trusted` | `submitTrusted`, past the gate | the same |
| `handoff` | `submitInterruptingHandoff` under the lease | `check`, `drain`, `replay`, `yield`, `recheck`, then as `send` |
| `compact` | `requestCompaction` under a permit | `check`, `admit`, `register` |
| `maintain` | `createOperationGatedMaintenance` under a permit | `lease`, `maintain` |
| `fence` | `runExclusive` under the lease, with its maintenance inside | `lease`, `maintain` |

Any place may be left by an error or a refusal (`Quits`, `Fails`, `Revoke`);
`revoke` and `failing` are what becomes of an accepted turn that is stopped or
whose delivery throws. A registered turn goes on as `starting`, `host`, `settle`,
`complete`; `entry` is the controller's. `StopMarks` is a user stop up to its
first await (it marks pending submissions, and a hand-off gives its lease back),
`StopAborts` the call of the controller that follows. `saga` is
`SessionTurnDeletion.run`: it blocks the gate (`BeginDeletion`), raises the fence,
waits for the drain and aborts the turn (`AbortTurn`), verifies, erases and ends,
and may fail at every step, to be started again. Waits with a timeout (the
hand-off's drain, an abort) may give up in any state. Why a turn is aborted other
than by a stop, a hand-off or a deletion (a lost lease, a cancellation of its
queue row) is not distinguished from a start that fails.

### Steering

One turn of one session in one process. `accepted`, `waiting` and `claimed` are
`steeringIdentities`, `steering` and `steeringClaims` of the controller's entry;
`phase` is the entry's. The runner polls (`Poll`), prepares what it claimed
across awaits, and reads it (`PollConsumes`) or gives it back (`PollGivesUp`);
`Restore` is `restoreSteering`. A poll at the exit boundary (`exit`) leaves the
user's messages alone, and `TryBeginClose` then hands them over. The runner awaits
its poll, so a seal (`HostEnds`) meets no open one.

Every batch handed over is an entry of `batches`, with its `route` (into the
conversation or into the queue), `pending` while `steering-requeue.ts` tracks it,
and `lane`: how far its detached chain of awaits has come. `jobs` is `inflight`: a
write under way, of one batch or of several merged before the release. `Land`
writes one message of it, `Enqueue` and `Pause` are the two writes of
`persistRequeue`, `WriteFails` ends it with what was written until then, and
`Settle` does the books. A write that fails is one that was not made.

What a promise does when it settles matters here: a lane and the drain that await
the same write both look at `pending` afterwards, in the order in which they began
to wait, and before anything else happens. `ready` is that order, the microtask
queue; every other action waits until it is empty. `Lane` and `DrainContinues` are
the two kinds of continuation.

The order in which messages were sent is their number, which stands for
`createdAt`. Whether a foreground turn pauses the queue when it ends is left open
(`Release`); `Dispatch`, `OtherWake` and `ContinueQueue` are what the rest of the
system does to the queue meanwhile. A write may outlive the two seconds the
release waits for it. Left out: the lane that follows a tool result, the receipts
of steer requests, batches with several members, the rows shown to the user.

To the abstract `MessageHomes` each message of the user has one home and moves on
only: the turn takes it and reads it, or lets go of it as it stops; what was let go
of falls into the conversation, or goes to the queue and is run after the turn. Polls,
batches, jobs, retries, merges and the drain do not appear there. `Home` reads the home
off the variables of `Steering`; a message without a trace, or one that may be read
in two places (`Twice`), would have a home that `MessageHomes` does not know.

### SessionStream

One session. `log` is every frame written to the present state of the stream, the
ring is the interval `dropped+1 .. Len(log)` of it, and a set of cursors stands
for a queue, because frames enter a queue in the order of their cursors. `epoch`
names the state: deleting the session, discarding an empty stream and a restart
make a new one, and cursors carry the epoch they were made in. `Enters` is
`BoundedRing.append` with the rounds of `SessionFrameRetention`: whole message
groups, complete ones first; the bounds in bytes are counted as frames.

`store` is the table of messages and `owed` the frames whose change is stored and
not yet written: the projection stores first and announces afterwards, so a resume
can fall in between. `Answer`, `Commit` and `Rewind` are the changes that have a
frame. Three writers keep no such pairing. An answer that ends in an error is framed
and not stored (`Fail`): for who reads, it is a status of the session and no message
(`agent-core/src/event-bridge/bridge.ts:104`), so its frame tells nothing of the
table (`Tells`). The commit of the history stores the latest answers of a turn again,
with the names they have there (`Anchor`), and the look at a session's messages marks a
compaction that began and did not end as failed (`Repair`); neither writes a frame,
and the row has the version `Quiet`. The events of a turn are delivered one after the
other (`required-agent-event-delivery.ts`), which is why no answer is between table
and frame when the history is committed. `Repair` leaves open which page of messages is
looked at, so it also meets a compaction that is still running; that one announces
its end all the same (`Latest`).

`Announce` holds a frame back until a reader that is between its look at the table and
the next microtask has the change in its batch (`Known`): the writer has awaited the
table at least once in between.

A reader goes through its places: `idle`; `read` (subscribed, awaiting the table);
`reserved` (a submitter whose turn has no name yet); `open`. `frames` is the
replay it was given, `queue` its subscription, `last` the cursor it has seen,
`mark` the cursor at which it subscribed (terminals up to there do not end it),
`view` what it shows. `FinishReplay` puts the answer of the table, the ring and
the subscription together as `stitchDurableReplay` does, folding catch-up messages
and dropping frames that the table already covers. `messages-replaced` has no
writer in the source and is left out.

### OAuthCore

Any number of processes on one data directory. Each write of a file is a step,
made under the lock file; the first reads of a token request (`GetRead`,
`GetCred`) and of a status request (`StatusReads`) are made without it. `at[p]`
is where the one operation of a process stands (`get.*` reading, `want.*` waiting
for the lock, `ref.*` refreshing, `out.*` signing out, `log.*` signing in),
`my[p]` what it has read, which may be stale. A token number stands for a pair of
access and refresh token, and the first token of a login names its epoch. The
server is external: it grants, refuses, fails, loses answers, and rotates refresh
tokens. `Crash` stops a process anywhere and drops its lock; `Unauthorized` is a
caller whose token was rejected; `StatusRecovers` repairs what an interrupted
commit left. `spent`, `handed`, `replayed`, `orphans`, `ended`, `cancelled` and
`torn` are history.

### Slips

The *slips* in the modules are variants of a definition with one plausible
mistake each. No specification uses them; `PROJECT.json` names, for every checked
property, the slip that breaks it.

## 3. Runs

| run | shows | bounds |
|---|---|---|
| `SessionQueue` | `TypeOK`, `AtMostOneClaim`, `FifoClaimIsHead`, `OneRowPerRequest`, `PauseNeedsPending`, `StoppedQueueStaysStopped`, `ReleaseKeepsPlace`, `PauseEndsForAReason` | three rows that carry a plain, a retried or a replacing message, two claims, one tick: order needs three rows, a second claim is enough to follow a released one, and with one tick a row or the lease of a claim is either live or expired |
| `TurnLease` | `TypeOK`, `LockMatchesReceipt`, `ImplementsLedger`, `LiveLeaseIsRespected` | two processes, two turns, three leases (one per turn and one for maintenance), a lease of two ticks in a time of two: a lease may run out, and a process may start while one still runs |
| `QueueDelivery` | `TypeOK`, `ImplementsFates`, `NoLostWake`, `SubmitterIsAnswered` | two messages, three claims, one direct turn, and any three troubles out of all kinds: a redelivery needs a claim that is lost and one trouble after it, a third attempt adds a conflict between the two |
| `QueueDeliveryServed` | `EveryRowIsServed` (liveness), `ImplementsLedger`, `CancelledNeverRuns` | three messages, one a retry of the first, two direct turns in their way, two cancellations; ten claims are more than this instance can use, so the bound on claims blocks nothing |
| `SessionGate` | `TypeOK`, `PermitsBalance`, `HandoffIsAlone`, `StoppedNeverRuns`, `DeletionIsAlone`, `DrainsAreOwed` | every mix of kinds of three operations, one stop that names any operation or none, two attempts to delete: three operations are a hand-off, the turn it replaces and one that gets in between; the second attempt starts behind gates that the first left closed |
| `Steering` | `TypeOK`, `ImplementsHomes`, `ReadOnce`, `FallenInOrder`, `RowsAreParkedOrWoken`, `DrainLands` | three messages of the user and one of a machine between them, three failing writes: three messages are what waits at an abort, what a poll holds then, and one more to tell a merge from a concatenation; three faults take a batch through both retries and through the pause of its fallback |
| `SessionStream` | `TypesAndLimits`, `NothingMissed`, `ViewConverges` | one reader that resumes or submits, over and over, three messages of two turns, one of them stored twice, three frames to a state of the stream, a ring of two with one complete message, a queue of two, two states: a third frame evicts and overflows. Readers do not see each other, except in `discardIfEmpty`, which has its own run |
| `OAuthCore` | `TypeOK`, `SignedInHasCredential`, `GenerationNamesOneToken`, `RefreshTokenUsedOnce`, `EndedStaysOut`, `SignedOutStaysOut` | two processes, two logins, two grants, one crash, sign-outs from the first three generations: two logins are needed for one to replace the other, and a login takes one grant and a refresh another |

`TurnLease` and `QueueDelivery` may stop (the clock, the leases, the claims and
the processes are bounded, the session may be gone), so their runs do not check
deadlock; nor do those of `SessionGate` and `Steering`, whose operations run once, and of
`SessionStream` and `OAuthCore`, whose frames, tokens and logins run out.
`SessionQueue` never stops: a read is always possible.

Three invariants are proved and are in no run, because a run checks a stronger
formula: `HostSeesRowOnce` and `AcknowledgedRowsRan` follow from `ImplementsFates`
(a message that ran cannot run again, and a message leaves the queue with its turn
or never), `NothingDropped` from `ImplementsHomes` (a message that is nowhere has no
home).

Four runs expect a violation; section 6.

**Fairness.** Only `FairSpec` of `QueueDelivery` assumes any: weak fairness of the
drain, of each delivery and of the turn that holds the session. The code
justifies it: each is a chain of awaited promises whose next step is always
scheduled once the previous one settles, and a host turn ends by completing,
failing or being aborted. Nothing is assumed of submissions, cancellations,
restarts, the user or the timers. `EveryRowIsServed` accepts three ends besides
a served row, because the code stops there on purpose: a paused queue, a turn
that ended without waking the queue (a user's stop), and a pause lifted by the
user without a drain. `SessionGate` needs no fairness: the only waits without a
timeout are for the gate's two promises, and `DrainsAreOwed` is the safety half of
their liveness. A pending promise always has somebody inside whose release
resolves it.

## 4. Proofs

`SessionQueueProofs` proves, for every set of items, offers, requests, owners
and every bound, `TypeOK`, `AtMostOneClaim`, `FifoClaimIsHead`,
`OneRowPerRequest` and `PauseNeedsPending` as invariants of `Spec`. They are
inductive together, with `ahead` relating present rows only: `FifoClaimIsHead` needs
`AtMostOneClaim` (a front insertion moves rows behind the claimed ones, so a second
claim would be a row in front of the first), and an absent row that was still in
the order would be in front of a claim once its identity is used again. Its three
action properties (`ReleaseKeepsPlace`, `StoppedQueueStaysStopped`,
`PauseEndsForAReason`) are proved of every step: a commit that is handed the pause it
found ends it only with the last row (`CommitEndsPause`), which disposes of all the
operations of the repository.

`QueueDeliveryProofs` proves, for every number of messages, claims, troubles and
direct turns, every assignment of request ids and every set of troubles,
`TypeOK` and `HostSeesRowOnce`: a message enters the host at most once. By itself
that is not inductive: a step of the host needs to know that the message of an
open turn has not run. `DeliveryInv` follows it back to the claim. A row that is
still in the queue has not run; an open turn is of an acknowledged row that has
not run; a deliverer about to open the start fence has had its row acknowledged,
and if the turn is its own and still fenced, that row has not run. What makes
this hold with two deliverers is that claims are fresh: no two jobs carry the same
claim, none carries one that was never made, and a turn with the claim of a job
is of the item of that job, so nobody opens the fence of another's turn. That a
row never comes back from `acked` closes the argument. Most actions touch none
of this: `KeepingKeeps` is the frame lemma that disposes of them, and the claims,
`Accept`, `Acknowledge`, `OpenStart` and `HostStarts` have a proof of their own.

`AckInv` goes on from there to `AcknowledgedRowsRan`: a receipt names the claim of a
row only when that claim is noted as the row's last attempt, a deliverer about to
acknowledge has its turn before it or in `cut`, and so has every acknowledged
row that has not run. It also shows that the guard of recovery (`Delivered`) is
never met by a claim that stands: recovery always puts a row back and never has
one to delete.

The same module proves `SubmitterIsAnswered` and `NoLostWake`. For the
first, a completion is pending only while its row is queued, and executing only
while its turn holds the session. For the second, `Rest` says that there is no
turn, no pause, no wake owed and nothing on record; only the drain itself can bring
that about, since every turn that ends either wakes the queue or leaves a record. So it
is enough to look at how the drain stops without a word: after a start fence or a
busy session, where somebody is there to wake it (`WakeInv`), or with no row left.
That admission keeps a row silently only for a turn or a pause, and not for a row
in front, needs the order of the queue (`OrderInv`): what is in front of the row of the
drain has yielded.

That the delivery implements `MessageFates` and `TurnLedger` is proved step by
step. Both need to know whose a turn is (`OwnInv`): the turn that holds the session
carries the claim of its message's last attempt (`OwnTurn`), a job at work holds
its row with its claim (`OwnJobs`), and no attempt is one that was never made
(`OwnAttempts`). With that a step is read off what it does to one message: an
acknowledgement lets a message go with its turn, or cuts it if the turn has ended
meanwhile; what enters the host is the one message that is leaving; everything
about claims, wakes and pauses is a stutter (`FateIsPlain`, `FateStepMaps`). For the
ledger, `TurnMoves`, `TurnStays` and `TurnOver` say what a step may do to the turn
that is open, and `OpenTurnIsBegun` that it was begun.

`CancelledNeverRuns` is false in general (section 6). It is proved of every
instance in which none of the troubles of `PutsBack` occurs: a failed commit, a failed
acknowledgement or release, a lease of a claim that runs out. Each of the three
by itself loses a cancellation, so nothing less would do; crashes, deferrals,
conflicts, rejections, aborts and stops may happen in any number. `KeptInv` says that
a row then leaves the hands of a deliverer only by its own settlement, and
`CancelInv` follows a cancellation that was taken from the memory of the completions to
the job and to the turn, which is `doomed` before it reaches the host.

`SessionGateProofs` proves all six invariants of `SessionGate` for every number
and mix of operations, every number of stops and of attempts to delete. `GateInv`
adds to the properties who can hold the lease (an unstopped exclusive operation at
work), that an unstopped hand-off past its drain has found `active = 0` (nobody
can enter while it holds the lease, so that stays), and that a deletion past its
drain finds the gate quiet. `TurnInv` adds who has the lock row, that a fence is
up while a deletion erases, and what an overtaking hand-off knows of the
controller. A registration is the one step where the two meet: the turn that
registers is inside the gate, or it has the lease, or it is trusted. The seventeen
steps of an operation are all either a `MoveStep` or an `ExitStep` of the gate
and a `TurnStep` or `Registers` of the turns, so that preservation is proved for
these four and each action is only shown to be one of them.

`OAuthCoreProofs` proves the six properties of `OAuthCore` for any number
of processes, tokens, logins and crashes. `CoreInv` says for each place in the
code what a process there knows: it holds the lock, and the files are as it read
or wrote them last. That a signed-in state has its credential beside it is
inductive only with that, because the two files are written one after the other
and a process may die between. `TokenInv` follows the tokens: what is stored has
not been exchanged unless the process that exchanged it is still at work, what
was signed out or cancelled is stored nowhere and no process at work is about to
store it, and no two processes are about to store the same. From it follow
`RefreshTokenUsedOnce` and `EndedStaysOut`; `SignedOutStaysOut` is an action property
and follows from `CoreInv` step by step. For `GenerationNamesOneToken`, `GenInv` counts
(`Counted`): a token that was handed out is not of a later generation than the two
files, and of that of the credential only if it is the one stored there, unless its
login was taken back or torn by a crash; so the next write is of a generation nobody
has seen. `Reserves` says the same of the files that a login would put back.

`SessionStreamProofs` proves `TypesAndLimits`, `NothingMissed` and `ViewConverges` for every
number of readers, messages and turns and all bounds of ring and queues. `StreamInv` is about
each reader by itself, since no step of one touches another: `Ledger` (what it
holds are frames of its own state of the stream), `Reading` and `Reserving`
(while it awaits the table or the name of its turn, its subscription holds exactly
what was written since), `Hears` (what `NothingMissed` says). The eviction needs
its own lemmas: the rounds of `Enters` only move `dropped` forward, never past the
frame just written, and end within the limit. For `ViewConverges`, `ShowInv` says
of the table that the last word on each message in the log agrees with the table,
unless its frame is still owed (`LogInv`, `OwedInv`), and of each reader that what it
shows of a message agrees with the table once it has seen every word on it (`Shows`).
To agree is to be the same version, or, of a row that was changed without a frame, to
be there (`Agrees`); a change without a frame keeps whatever agreed (`Keeps`,
`ChangeQuiet`). That a frame which is owed was not written before, and so is no duplicate,
needs a bound on the versions in the log that a repair does not lift (`Latest`).

`SteeringProofs` and `SteeringRequeueProofs` prove the six invariants of `Steering`
and that it implements `MessageHomes`,
for every number of messages, of machine messages among them and of failing writes:
the former `NothingDropped` and `ReadOnce`, the latter, which builds on it, the
rest. For the first, the invariant separates
what the turn holds (`Held`) from what the requeue answers for (`Safe`: tracked
batches, the conversation, the queue), and the proof shows that `Safe` never
shrinks while every step that makes the turn let go hands over what it held. A batch
leaves the books when the job that writes it ends, often together with others and
with a job that another promise started. So the books must say whose job is whose
(`Owned`: a job is that of the batch it began with), what a teardown job has still to
write of every batch that points to it, that a requeue job has one batch only
(`Covered`), and that a row which is in the queue before its pause is made has saved
its batch (`Enqueued`). `Stages` adds that a poll is under way only before the controls
close: what it gives back is then either buffered in a turn that runs, or handed over.
That `Kept` and `InOrder` lose nothing is proved from their recursion, by the least
length at which it would fail. For `ReadOnce`, `ReadInv` gives each message one place
(`Apart`), except while its batch is being written into the conversation (`Falls`);
a row stands for a batch that will not fall any more (`Passes`); and `Once` says why
a batch that is written to the queue is not written again: no write is left for it,
unless a stop has yet to park the row, and then only a drain may write it anew.
`Lasts` (what a lane awaits in which stage, while there is no drain) is what that
needs of the lanes.

`RowsAreParkedOrWoken` is lost only if somebody writes a row anew
that is parked no more, or was never parked. So `AwaitInv` says who awaits what: nobody
two writes, or one that is over (`Waits`), no lane before the release (`Begins`), and
a batch of a stopped turn is written as a requeue only by the visit of the drain, while
a teardown of it is under way (`Visits`). `Parks` then holds of every batch that has a
row or may get one again (`Parkable`: by a write under way, or later on the list of the
drain) that it is parked or that its user continued; `Follows` states of every step that
what is parkable after it was so before, or is parked now. `Wakes` says of the batch of
a finished turn that the release, or the row itself, brings a wake.

`FallenInOrder` supposes that no write failed and that no shutdown began. Then nothing
falls before the turn is to be settled, and what the turn handed over till then falls in
one write, the only one of its kind (`Merging`): a poll that gives its messages back after
the abort handed over those that came later adds a batch to that write, which sorts. What
the write has left ascends and comes after what has fallen (`Falling`). `TypeOK` needs
one fact that is not about types: there are no more batches than messages of the user
(`Roomy`), since each batch was handed over with a message the turn does not get back,
and no other batch has it. `DrainLands` counts failures: `DrainInv` says of each
batch that is tracked still how many failures are behind it, by the stage of its lane
(`Tried`), by the row of what was handed back (`Returned`) and by the visit of the drain
(`Visited`); the drain leaves a batch behind that is still tracked only with two. A lane
and the drain may await the same write and see the same failure; so these are not added
up, each is a bound on the failures there were. `AwaitInv` says which writes they await.

The refinement rests on the two invariants of `SteeringProofs`. `HomesAre` concludes
from them that no message is at two homes or at none, so that a step is read off the
set that gained a message. `QueuedStay` says that a batch gives up messages only while
it is being written into the conversation: a batch in the queue keeps what it has,
whatever the books do with it. Then most steps move nothing (`StaysPut`), or stop the
turn and let go of what it held (`LetsGo`); those that move a message (`SteerHome`,
`LandHome`, `EnqueueHome`, `DispatchHome`, `RestoreHome`) have a proof of their own.

The proofs assume of the constants only what the `ASSUME`s of the modules say:
bounds are natural numbers, offers, requests and mixes of kinds are of their
type, and `None` is none of the values it stands beside.

`TurnLeaseProofs` proves, for any sets of processes and turns and all bounds,
`TypeOK`, `LockMatchesReceipt` and that `TurnLease` implements `TurnLedger`. A
statement changes a receipt where its lease matches, so everything rests on
leases being fresh: no two executions carry the same one, none carries one that
was not made, every accepted turn has one (`LeasesAreFresh`). With the lock row
agreeing with the receipts (`LockMatchesReceipt`) there is at most one accepted turn,
which is what the ledger promises. Its refinement is proved step by step: what a
step closes, admits or erases is a step of the ledger, everything else a stutter
(the lemmas on what stays open and what is closed serve all the actions that
only move the lock or the clock). `LiveLeaseIsRespected` needs to know whose a lease
is (`HolderInv`): the lock of a turn names the process that runs the turn with that
very lease, and a process waits to settle only what it ran itself. The second is why
a pending settlement is kept with its lease: a turn id that was taken back may be
admitted again elsewhere, and the note of the first admission must not settle the second.

Model-checked only: liveness (`EveryRowIsServed`), which is out of the prover's
reach. Every other property of a passing run is a theorem, `CancelledNeverRuns`
under a hypothesis on `Trouble` that its run satisfies.

## 5. What is left out

Message content, attachments, display fields and wire snapshots; the policy
inputs of admission; leases of older releases without an owner id (a 30 s stall
heuristic); and the components listed as `not_modelled` in `PROJECT.json`.

In `QueueDelivery`: faults of the settlement itself (they are `TurnLease`'s); the
fence of direct turns, which is `SessionQueue`'s (here a direct turn is simply one
that the fence let pass); the `duplicate` answer of admission, which needs a claim
id that was used before, while every claim makes a fresh one. The pause is
dropped with its last row in the transaction that takes the row; here it is
dropped by the next `Enqueue`, since nothing reads it between.

Two consequences of the code show in the model and are no finding: a row that is
delivered again goes under a fresh request id, and a submitter whose message
could not be committed is told that it failed while its row is queued again; and
a restart forgets the cancellations that were taken but not acted on.

In `SessionGate`: steering, whose permit spans one synchronous call; the cascade
of a stop onto goals and background tasks; the wait of a deletion for the
dispatcher, which is `Stop` of `QueueDelivery`; a settlement that fails for good
(the turn then simply never leaves `settle`); crashes, since the gate is memory.

In `Steering`, besides what section 2 names: an abort of a turn that is closing,
which changes nothing of this. In `SessionStream`: bounds in bytes, heartbeats,
the encoding of frames; the rewind or edit of the history by the user, whose frame is
an event of its own and no boundary
(`application/session/conversation-mutation-workflow.ts`). In `SessionQueue`:
`replaceSession`, which only tests call. In `OAuthCore`: scopes and audiences, the permissions of
the files, callers of older releases without a login epoch, the prompt shown while
a login waits (it changes no file), and a lock that another process took over
while its holder was suspended (`onCompromised` only notes it).

What the models show besides, stated by no property: a stop that names a pending
hand-off while the turn it replaces is still registered marks nothing and is then
taken for a stale one (`StopMarks`, `StopAborts`); a wake that meets the claim of an
explicit Continue is used up, and the row that Continue puts back waits for the
next one; the recovery after two failed acknowledgements keeps the claim of a
live owner, so the row waits until the claim's lease has run out; admission fails a turn
whose lease has run out without asking whether its owner is alive (restart
recovery does ask); and `runExclusive` does not wait for the `drained` promise of
its lease, so a turn admitted before it can register while a lifecycle operation
is under way. In both the lock row decides who may write.

Of steering: when a write is under way at the release, the merged write, both
tries after it and at last the pause of the fallback can each fail; a wake may then
run the row that could not be parked, and a shutdown's drain enqueues it anew
(`ReadOnce` excepts exactly that). Between the row and its pause another wake may
start it. A message restored after the drain took its list lands only if the
release still comes; a drain may write in another order than the messages were
sent; a user's stop while a turn is closing does not hold the batch that the close
handed over.

Of the stream: an unfinished message longer than the ring loses its beginning for
readers that resume after a message, and nothing tells them; a resume whose read
of the table fails keeps its subscription until that overflows; were the table
to answer asynchronously, `stitchDurableReplay` could drop a frame that nobody
read.

## 6. Where code and text, or code and intent, part

Each has a run whose counterexample is the evidence; `findings` in
`PROJECT.json` quotes the text.

| run | what the code does |
|---|---|
| `TurnLease_FenceNeverExpires` | the renewal timer of a turn gives the deletion fence that was promoted from its lock a finite expiry |
| `TurnLease_DeletionFindsItsTurn` | a deletion that meets an expired maintenance lock looks for a turn and throws |
| `QueueDelivery_CancelledNeverRuns` | a cancellation that was handed to the registered turn is forgotten when the message cannot be committed; the row is put back and runs |
| `SessionStream_WaitersAreHeard` | a refused submission drops the empty state of a stream to which a resumed reader is subscribed; the frames written next reach a new state |

`CancelledNeverRuns` does hold where nothing puts an accepted row back: it is
checked in `QueueDeliveryServed`, whose troubles are cancellations only, and proved for
all other troubles as `CancelledStaysOut`.

## 7. Plan

1. The lane of tool results and the receipts of steer requests, in `Steering`;
   the projection of an agent's answer (attempts, reconciliation) behind `Stream`,
   `Answer` and `Anchor` of `SessionStream`.
2. History mutation (rewind, fork) under the exclusive lease of `SessionGate`;
   the owner registry's lease file; background tasks, the cron busy queue, goal
   epochs, questionnaires, the MCP pool, the token broker of the tools host: the
   smaller state machines.

Not planned: the clients, the tools, the browser, configuration and migration of
older data are input and output around these machines, or sequential; most of
the repository's lines are theirs.
