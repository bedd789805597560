----------------------------- MODULE SessionGate -----------------------------
(***************************************************************************)
(* Who may work on a session at the same time, within one process: the     *)
(* operation gate (turn-system/lifecycle/session-operation-gate.ts) and    *)
(* its clients -- submissions, interrupting hand-offs, compactions         *)
(* (execution/turn-execution.service.ts), maintenance and lifecycle fences *)
(* (initialize.ts), user stops and the deletion of the session             *)
(* (lifecycle/session-turn-deletion.ts).                                   *)
(*                                                                         *)
(* One session.  Each operation runs once, and every await of its code     *)
(* ends a step.  The rules of the lock row are the subject of TurnLease;   *)
(* here the row is only who holds it.                                      *)
(***************************************************************************)
EXTENDS Naturals, FiniteSets

CONSTANTS
  N,          \* operations
  Mixes,      \* the kinds of operation they may be
  MaxStops,   \* bound on user stops
  MaxDeletes  \* bound on attempts to delete the session

Ops   == 1 .. N
None  == 0
Kinds == {"send", "trusted", "compact", "maintain", "fence", "handoff"}

ASSUME GateAssumption == {N, MaxStops, MaxDeletes} \subseteq Nat /\ Mixes \subseteq [Ops -> Kinds]

VARIABLES
  kind,         \* what each operation is
  active,       \* permits given out
  mutation,     \* the operation that holds the exclusive lease, or None
  deleting,     \* the gate is blocked for a deletion
  sharedDrain,  \* operations whose drained promise is pending
  fullDrain,    \* the promise of block is pending
  at,           \* where each operation is
  stopped,      \* submissions marked by a stop
  lock,         \* the operation that holds the session's lock row, or None
  fenced,       \* the lock row is a deletion fence
  entry,        \* the turn registered in the controller, or None
  aborted,      \* it has been aborted
  stop,         \* the stop under way, and the turn it names
  stops,
  closing,      \* SessionDeletionGate has the session
  exists,       \* the session exists
  saga,         \* where the deletion is
  deletes

gate  == <<active, mutation, deleting, sharedDrain, fullDrain>>
turns == <<lock, entry, aborted>>
stopV == <<stopped, stop, stops>>
delV  == <<fenced, closing, exists, saga, deletes>>
vars  == <<kind, active, mutation, deleting, sharedDrain, fullDrain, at, stopped, lock,
           fenced, entry, aborted, stop, stops, closing, exists, saga, deletes>>

Shared    == {"send", "compact", "maintain"}
Exclusive == {"fence", "handoff"}
Submitted == {"send", "trusted", "handoff"}

\* From the gate to registration; before its turn, and as a turn.
Takeover == {"replay", "yield", "recheck", "prepare", "admit", "commit", "accept", "register",
             "revoke"}
Working  == {"check", "drain", "lease", "maintain"} \cup Takeover
Running  == {"starting", "host", "settle", "complete"}
Places   == {"new", "failing", "done"} \cup Working \cup Running

Inside == {o \in Ops : kind[o] \in Shared /\ at[o] \in Working}

Ends(o) == at' = [at EXCEPT ![o] = "done"]
Goes(o, place) == at' = [at EXCEPT ![o] = place]

-----------------------------------------------------------------------------
(* The gate.                                                               *)

\* What a block waits for.
Quiet(n, m) == n = 0 /\ m = None

\* A slip: only the last permit resolves the promise of a block.
SettleSharedOnly(n, m) ==
  /\ active' = n /\ mutation' = m
  /\ sharedDrain' = IF n = 0 THEN {} ELSE sharedDrain
  /\ fullDrain' = (fullDrain /\ (active = n \/ ~Quiet(n, m)))

\* settleState: n permits are out and m holds the lease; promises whose time has
\* come are resolved.
SettleGate(n, m) ==
  /\ active' = n /\ mutation' = m
  /\ sharedDrain' = IF n = 0 THEN {} ELSE sharedDrain
  /\ fullDrain' = (fullDrain /\ ~Quiet(n, m))

Open == ~deleting /\ mutation = None

\* A slip: the permit is counted although it is refused.
CountFirst(o) ==
  /\ at[o] = "new" /\ kind[o] \in Shared /\ SettleGate(active + 1, mutation)
  /\ Goes(o, IF ~Open THEN "done" ELSE IF kind[o] = "maintain" THEN "lease" ELSE "check")
  /\ UNCHANGED <<kind, deleting, turns, stopV, delV>>

\* tryEnter.
Enter(o) ==
  /\ at[o] = "new" /\ kind[o] \in Shared
  /\ IF Open THEN /\ SettleGate(active + 1, mutation)
                  /\ Goes(o, IF kind[o] = "maintain" THEN "lease" ELSE "check")
             ELSE Ends(o) /\ UNCHANGED <<active, mutation, sharedDrain, fullDrain>>
  /\ UNCHANGED <<kind, deleting, turns, stopV, delV>>

\* A slip: the lease counts as drained when it is taken.
DrainsAtOnce == FALSE

\* Permits are out: the drained promise of the lease is pending.
MustDrain == active # 0

\* tryAcquireExclusive.  Only a hand-off waits for the drain.
Acquire(o) ==
  /\ at[o] = "new" /\ kind[o] \in Exclusive
  /\ IF Open THEN /\ mutation' = o
                  /\ sharedDrain' = IF MustDrain THEN sharedDrain \cup {o} ELSE sharedDrain
                  /\ Goes(o, IF kind[o] = "fence" THEN "lease" ELSE "check")
             ELSE Ends(o) /\ UNCHANGED <<mutation, sharedDrain>>
  /\ UNCHANGED <<kind, active, deleting, fullDrain, turns, stopV, delV>>

\* submitTrusted passes by the gate.
EnterTrusted(o) ==
  /\ at[o] = "new" /\ kind[o] = "trusted" /\ Goes(o, "check")
  /\ UNCHANGED <<kind, gate, turns, stopV, delV>>

\* A slip: the release of a lease also gives a permit back.
LeavesTwice(o) ==
  IF kind[o] \in Shared \/ mutation = o
  THEN SettleGate(active - 1, IF mutation = o THEN None ELSE mutation)
  ELSE UNCHANGED <<active, mutation, sharedDrain, fullDrain>>

\* The permit or the lease of o is released -- once: a stop may have released it.
Leaves(o) ==
  IF kind[o] \in Shared THEN SettleGate(active - 1, mutation)
  ELSE IF mutation = o THEN SettleGate(active, None)
  ELSE UNCHANGED <<active, mutation, sharedDrain, fullDrain>>

\* The operation is over before it became a turn.
Quits(o) == Leaves(o) /\ Ends(o) /\ UNCHANGED turns

Stopped(o) == o \in stopped

-----------------------------------------------------------------------------
(* Submissions.                                                            *)

Refused == ~exists \/ closing \/ fenced

\* sessionUnavailable, before a hand-off waits and before every submission.
Check(o) ==
  /\ at[o] \in {"check", "recheck"}
  /\ IF Refused THEN Quits(o)
     ELSE /\ Goes(o, IF kind[o] = "compact" THEN "admit"
                     ELSE IF kind[o] = "handoff" /\ at[o] = "check" THEN "drain" ELSE "prepare")
          /\ UNCHANGED <<gate, turns>>
  /\ UNCHANGED <<kind, deleting, stopV, delV>>

\* waitForHandoffDrain: drained, or thirty seconds have passed.
Drain(o) ==
  /\ at[o] = "drain"
  /\ \/ o \notin sharedDrain /\ ~Stopped(o) /\ Goes(o, "replay") /\ UNCHANGED <<gate, turns>>
     \/ (o \in sharedDrain \/ Stopped(o)) /\ Quits(o)
  /\ UNCHANGED <<kind, deleting, stopV, delV>>

\* A request that was answered before is a replay.  Otherwise the turn that runs
\* is aborted (interruptForHandoff).
Interrupt(o) ==
  /\ at[o] = "replay"
  /\ \/ Quits(o)
     \/ ~Stopped(o) /\ entry = None /\ Goes(o, "recheck") /\ UNCHANGED <<gate, turns>>
     \/ /\ ~Stopped(o) /\ entry # None /\ Goes(o, "yield")
        /\ aborted' = TRUE /\ UNCHANGED <<gate, lock, entry>>
  /\ UNCHANGED <<kind, deleting, stopV, delV>>

\* The turn has been released, or five seconds have passed.
Yielded(o) ==
  /\ at[o] = "yield"
  /\ \/ entry = None /\ ~Stopped(o) /\ Goes(o, "recheck") /\ UNCHANGED <<gate, turns>>
     \/ (entry # None \/ Stopped(o)) /\ Quits(o)
  /\ UNCHANGED <<kind, deleting, stopV, delV>>

\* The product prepares the submission, or rejects it.
Prepare(o) ==
  /\ at[o] = "prepare"
  /\ \/ ~Stopped(o) /\ Goes(o, "admit") /\ UNCHANGED <<gate, turns>>
     \/ Quits(o)
  /\ UNCHANGED <<kind, deleting, stopV, delV>>

\* admit: the transaction takes the lock row or says why not.
Admit(o) ==
  /\ at[o] = "admit"
  /\ \/ /\ ~Refused /\ lock = None /\ lock' = o
        /\ Goes(o, IF kind[o] = "compact" THEN "register" ELSE "commit")
        /\ UNCHANGED <<gate, entry, aborted>>
     \/ Quits(o)
  /\ UNCHANGED <<kind, deleting, stopV, delV>>

\* An accepted turn that is not registered is failed behind the submission.
Fails(o) == Leaves(o) /\ Goes(o, "failing") /\ UNCHANGED turns

\* The preparation is committed.
Commit(o) ==
  /\ at[o] = "commit"
  /\ \/ Goes(o, "accept") /\ UNCHANGED <<gate, turns>>
     \/ Fails(o)
  /\ UNCHANGED <<kind, deleting, stopV, delV>>

\* preDelivery.accept, unless a stop has come.
Accept(o) ==
  /\ at[o] = "accept"
  /\ \/ ~Stopped(o) /\ Goes(o, "register")
     \/ Goes(o, "revoke")
  /\ UNCHANGED <<kind, gate, turns, stopV, delV>>

\* A slip: nobody looks for a stop that came during the acceptance.
StopUnseen(o) == FALSE

\* A stop came while the acceptance was delivered; compactions are not enrolled.
StopSeen(o) == Stopped(o)

\* register: the turn becomes the controller's, and the submission returns.  A
\* turn that is settled and not yet removed makes it throw.
Register(o) ==
  /\ at[o] = "register"
  /\ IF StopSeen(o) THEN Goes(o, "revoke") /\ UNCHANGED <<gate, turns>>
     ELSE IF entry # None THEN Fails(o)
     ELSE /\ Leaves(o) /\ entry' = o /\ aborted' = FALSE
          /\ Goes(o, IF kind[o] = "compact" THEN "host" ELSE "starting")
          /\ UNCHANGED lock
  /\ UNCHANGED <<kind, deleting, stopV, delV>>

\* rollbackAcceptedSubmission: the admission is revoked; if that fails, or the row
\* became a fence meanwhile, the turn is failed.
Revoke(o) ==
  /\ at[o] = "revoke"
  /\ \/ /\ lock = o /\ ~fenced /\ lock' = None
        /\ Leaves(o) /\ Ends(o) /\ UNCHANGED <<entry, aborted>>
     \/ Fails(o)
  /\ UNCHANGED <<kind, deleting, stopV, delV>>

\* settleFailedAdmission.
SettleFailed(o) ==
  /\ at[o] = "failing" /\ lock' = IF lock = o THEN None ELSE lock
  /\ Ends(o)
  /\ UNCHANGED <<kind, gate, entry, aborted, stopV, delV>>

-----------------------------------------------------------------------------
(* The turn, once it is registered.                                        *)

\* The start fence opens; an aborted turn, or one whose start failed, stays out.
Start(o) ==
  /\ at[o] = "starting"
  /\ \/ ~aborted /\ Goes(o, "host")
     \/ Goes(o, "settle")
  /\ UNCHANGED <<kind, gate, turns, stopV, delV>>

HostEnds(o) ==
  /\ at[o] = "host" /\ Goes(o, "settle")
  /\ UNCHANGED <<kind, gate, turns, stopV, delV>>

\* The repository settles the turn ...
Settle(o) ==
  /\ at[o] = "settle" /\ Goes(o, "complete")
  /\ lock' = IF lock = o THEN None ELSE lock
  /\ UNCHANGED <<kind, gate, entry, aborted, stopV, delV>>

\* ... and then the controller lets it go.
Complete(o) ==
  /\ at[o] = "complete" /\ Ends(o)
  /\ entry' = None /\ aborted' = FALSE
  /\ UNCHANGED <<kind, gate, lock, stopV, delV>>

-----------------------------------------------------------------------------
(* Maintenance, under a permit or inside a lifecycle fence.                *)

TakeMaintenance(o) ==
  /\ at[o] = "lease"
  /\ \/ /\ ~Refused /\ lock = None /\ lock' = o
        /\ Goes(o, "maintain") /\ UNCHANGED <<gate, entry, aborted>>
     \/ Quits(o)
  /\ UNCHANGED <<kind, deleting, stopV, delV>>

EndMaintenance(o) ==
  /\ at[o] = "maintain" /\ lock' = IF lock = o THEN None ELSE lock
  /\ Leaves(o) /\ Ends(o)
  /\ UNCHANGED <<kind, deleting, entry, aborted, stopV, delV>>

-----------------------------------------------------------------------------
(* User stops.                                                             *)

NoStop == [on |-> FALSE, turn |-> None]

\* Enrolled in PendingSubmissions.
Pending(o) == kind[o] \in Submitted /\ at[o] \in Working

\* abort, up to its first await: a stop that is not for another turn marks the
\* pending submissions it is for, and a hand-off gives its lease back.
StopMarks(turn) ==
  /\ ~stop.on /\ stops < MaxStops /\ stops' = stops + 1
  /\ stop' = [on |-> TRUE, turn |-> turn]
  /\ LET marks == {o \in Ops : Pending(o) /\ turn \in {None, o}
                                /\ (turn = None \/ entry \in {None, turn})}
     IN /\ stopped' = stopped \cup marks
        /\ IF mutation \in marks THEN SettleGate(active, None)
           ELSE UNCHANGED <<active, mutation, sharedDrain, fullDrain>>
  /\ UNCHANGED <<kind, deleting, at, turns, delV>>

\* The controller aborts the turn that runs by now, if it is the one named.
StopAborts ==
  /\ stop.on /\ stop' = NoStop
  /\ aborted' = (aborted \/ (entry # None /\ stop.turn \in {None, entry}))
  /\ UNCHANGED <<kind, gate, at, stopped, lock, entry, stops, delV>>

-----------------------------------------------------------------------------
(* The deletion of the session; runs are serialised by a lane.             *)

\* It fails: the gate stays blocked, and the next attempt goes on.
Gives == saga' = "idle"

\* The process gate closes, and the operation gate is blocked.
BeginDeletion ==
  /\ saga = "idle" /\ deletes < MaxDeletes /\ deletes' = deletes + 1
  /\ IF exists
     THEN /\ saga' = "raise" /\ closing' = TRUE /\ deleting' = TRUE
          /\ fullDrain' = ~Quiet(active, mutation)
     ELSE saga' = "absent" /\ closing' = FALSE /\ UNCHANGED <<deleting, fullDrain>>
  /\ UNCHANGED <<kind, active, mutation, sharedDrain, at, turns, stopV, fenced, exists>>

\* The lock row becomes a fence.
RaiseFence ==
  /\ saga = "raise"
  /\ \/ fenced' = TRUE /\ saga' = "drain"
     \/ Gives /\ UNCHANGED fenced
  /\ UNCHANGED <<kind, gate, at, turns, stopV, closing, exists, deletes>>

\* The gate is drained; the turn that runs is aborted.
AbortTurn ==
  /\ saga = "drain" /\ ~fullDrain /\ saga' = "abort"
  /\ aborted' = (entry # None)
  /\ UNCHANGED <<kind, gate, at, lock, entry, stopV, fenced, closing, exists, deletes>>

\* A slip: only the controller is asked.
NoEntry == entry = None

\* Neither the lock row nor the controller has a turn.
Quiescent == lock = None /\ entry = None

\* The turn is released, or the wait has timed out.
Verify ==
  /\ saga = "abort"
  /\ \/ Quiescent /\ saga' = "erase"
     \/ Gives
  /\ UNCHANGED <<kind, gate, at, turns, stopV, fenced, closing, exists, deletes>>

Erase ==
  /\ saga = "erase"
  /\ \/ saga' = "lower" /\ exists' = FALSE
     \/ Gives /\ UNCHANGED exists
  /\ UNCHANGED <<kind, gate, at, turns, stopV, fenced, closing, deletes>>

\* The fence is lowered and the gates opened; the operation gate's release throws
\* while somebody is inside.
EndDeletion ==
  /\ saga \in {"lower", "absent"} /\ Gives
  /\ \/ /\ fenced' = FALSE /\ closing' = FALSE
        /\ deleting' = (deleting /\ ~Quiet(active, mutation))
     \/ UNCHANGED <<fenced, closing, deleting>>
  /\ UNCHANGED <<kind, active, mutation, sharedDrain, fullDrain, at, turns, stopV,
                 exists, deletes>>

-----------------------------------------------------------------------------
Init ==
  /\ kind \in Mixes
  /\ active = 0 /\ mutation = None /\ deleting = FALSE /\ sharedDrain = {} /\ fullDrain = FALSE
  /\ at = [o \in Ops |-> "new"]
  /\ stopped = {} /\ lock = None /\ fenced = FALSE /\ entry = None /\ aborted = FALSE
  /\ stop = NoStop /\ stops = 0
  /\ closing = FALSE /\ exists = TRUE /\ saga = "idle" /\ deletes = 0

Starts(o) == Enter(o) \/ Acquire(o) \/ EnterTrusted(o)

Continues(o) ==
  \/ Check(o) \/ Drain(o) \/ Interrupt(o) \/ Yielded(o) \/ Prepare(o) \/ Admit(o) \/ Commit(o)
  \/ Accept(o) \/ Register(o) \/ Revoke(o) \/ SettleFailed(o)
  \/ Start(o) \/ HostEnds(o) \/ Settle(o) \/ Complete(o)
  \/ TakeMaintenance(o) \/ EndMaintenance(o)

Deletes == RaiseFence \/ AbortTurn \/ Verify \/ Erase \/ EndDeletion

Next ==
  \/ \E o \in Ops : Starts(o) \/ Continues(o)
  \/ \E turn \in Ops \cup {None} : StopMarks(turn)
  \/ StopAborts \/ BeginDeletion \/ Deletes

Spec == Init /\ [][Next]_vars

-----------------------------------------------------------------------------
(* What must hold.                                                         *)

\* Types.
TypeOK ==
  /\ kind \in [Ops -> Kinds] /\ at \in [Ops -> Places]
  /\ active \in Nat /\ mutation \in Ops \cup {None} /\ sharedDrain \subseteq Ops
  /\ deleting \in BOOLEAN /\ fullDrain \in BOOLEAN
  /\ stopped \subseteq Ops
  /\ lock \in Ops \cup {None} /\ entry \in Ops \cup {None} /\ aborted \in BOOLEAN
  /\ stop \in [on: BOOLEAN, turn: Ops \cup {None}]
  /\ stops \in 0 .. MaxStops /\ deletes \in 0 .. MaxDeletes
  /\ fenced \in BOOLEAN /\ closing \in BOOLEAN /\ exists \in BOOLEAN
  /\ saga \in {"idle", "raise", "drain", "abort", "erase", "lower", "absent"}

\* The count of the gate is the number of operations that are inside, whatever
\* path they leave by: no error, rollback or early return keeps a permit, which
\* would shut the session for the life of the process, or gives one back twice.
PermitsBalance == active = Cardinality(Inside)

\* A hand-off that has waited for the drain and was not stopped has the session
\* to itself: nobody is inside the gate, and no turn but a trusted one becomes the
\* controller's after the hand-off has seen the old one go.
HandoffIsAlone ==
  \A o \in Ops : kind[o] = "handoff" /\ at[o] \in Takeover /\ ~Stopped(o) =>
    /\ mutation = o /\ Inside = {}
    /\ at[o] \notin {"replay", "yield"} => entry = None \/ kind[entry] = "trusted"

\* A submission that was stopped before its turn was registered never becomes a
\* turn, however far it had come.
StoppedNeverRuns == \A o \in stopped : at[o] \notin Running

\* A deletion past its drain works alone: nobody is inside the gate and nobody
\* holds the lease until the gate is released; and it erases the session only
\* when no turn, admitted or running, is left.
DeletionIsAlone ==
  /\ saga \in {"abort", "erase", "lower"} => Inside = {} /\ mutation = None
  /\ saga \in {"erase", "lower"} => lock = None /\ entry = None

\* A pending promise of the gate has somebody who will resolve it: a hand-off waits
\* for its drain only while permits are out, a deletion only while permits or the
\* lease are.  Everything else that an operation waits for has a timeout.
DrainsAreOwed ==
  /\ sharedDrain # {} => active # 0
  /\ fullDrain => ~Quiet(active, mutation)
=============================================================================
