------------------------------ MODULE TurnLease ------------------------------
(***************************************************************************)
(* Who runs the session: the lock row of local_runtime_session_locks, the  *)
(* receipts of local_runtime_turn_ingress, the processes that share both,  *)
(* and the deletion of the session (turn-system/persistence, execution and *)
(* lifecycle).                                                             *)
(*                                                                         *)
(* Every repository operation is one immediate transaction, hence one      *)
(* action.  Between two operations a process may stop, its lease may       *)
(* expire, and other processes run.  The queue's priority fence is the     *)
(* subject of SessionQueue; what it rejects is AdmitRejected here.         *)
(* Processes whose liveness can be told from the owner id are modelled,    *)
(* not the unidentified leases of older releases.                          *)
(***************************************************************************)
EXTENDS Naturals, FiniteSets

CONSTANTS
  Procs,      \* runtime processes, each started once
  Turns,      \* turn ids
  None,
  MaxTime,    \* bound on the clock
  LeaseMs,    \* leaseMs
  MaxLeases   \* bound on the leases ever granted

ASSUME BoundAssumption == MaxTime \in Nat /\ LeaseMs \in Nat \ {0} /\ MaxLeases \in Nat
ASSUME NoneAssumption  == None \notin Procs \cup Turns

Outcomes  == {"completed", "failed", "aborted"}
Statuses  == {"none", "accepted"} \cup Outcomes
Running   == {"turn", "compaction"}                       \* busy reasons
Deleting  == {"turn-deleting", "compaction-deleting"}
Maintained == {"maintenance", "maintenance-deleting"}
Kinds     == Running \cup Deleting \cup Maintained \cup {"session-deletion"}
Never     == MaxTime + LeaseMs + 1      \* DELETION_FENCE_EXPIRES_AT_MS
Leases    == 1 .. MaxLeases

VARIABLES
  now,
  life,      \* a process is new, up or dead
  started,   \* when it started
  lock,      \* the lock row, or NoLock
  status,    \* the receipt of each turn; "none": there is no receipt
  granted,   \* leases granted so far
  exec,      \* the last execution of each turn: process, lease, kind, phase
  pending,   \* pendingSettlements: the turn and lease whose settlement threw
  maint,     \* the maintenance lease a process holds, or 0
  gate,      \* SessionDeletionGate: this process refuses the session
  del,       \* how far a process has come with the deletion
  exists     \* the session's row is in the table

vars == <<now, life, started, lock, status, granted, exec, pending, maint, gate, del, exists>>

NoLock == [kind |-> "none", owner |-> 0, proc |-> None, acquired |-> 0, expires |-> 0]
Lock   == [kind: Kinds, owner: 0 .. MaxLeases, proc: Procs, acquired: 0 .. MaxTime,
           expires: 0 .. Never]
Idle   == [proc |-> None, lease |-> 0, kind |-> "none", phase |-> "none"]
Phases == {"admitted", "failing", "running", "aborted", "stuck", "done"}
Exec   == [proc: Procs, lease: Leases, kind: Running, phase: Phases]
Unsettling == [turn: Turns, lease: Leases]
NotPending == [turn |-> None, lease |-> 0]
Stages == {"idle", "gated", "fenced", "quiet", "erased", "removed"}

\* The type of the lock row, the receipts and the processes' memory; above all,
\* no lease runs past the moment its last renewal allows.
TypeOK ==
  /\ now \in 0 .. MaxTime /\ started \in [Procs -> 0 .. MaxTime]
  /\ life \in [Procs -> {"new", "up", "dead"}]
  /\ lock \in Lock \cup {NoLock}
  /\ status \in [Turns -> Statuses]
  /\ granted \in 0 .. MaxLeases
  /\ exec \in [Turns -> Exec \cup {Idle}]
  /\ pending \in [Procs -> Unsettling \cup {NotPending}]
  /\ maint \in [Procs -> 0 .. MaxLeases]
  /\ gate \in [Procs -> BOOLEAN] /\ del \in [Procs -> Stages] /\ exists \in BOOLEAN

Up        == {p \in Procs : life[p] = "up"}
Accepted  == {t \in Turns : status[t] = "accepted"}
Expired   == lock.kind # "none" /\ lock.expires <= now
In(t, phases) == exec[t].proc \in Up /\ exec[t].phase \in phases
Entry(p)  == {t \in Turns : exec[t].proc = p /\ exec[t].phase \in {"running", "aborted", "stuck"}}

-----------------------------------------------------------------------------
(* What the transactions do to the lock and the receipts.                  *)

Granted(kind, p) == [kind |-> kind, owner |-> granted + 1, proc |-> p,
                     acquired |-> now, expires |-> now + LeaseMs]

\* The fence of a deletion that found the session quiet.
Fence(p) == [kind |-> "session-deletion", owner |-> 0, proc |-> p,
             acquired |-> now, expires |-> Never]

\* releaseOrPromoteDeletionFence: the lock goes, unless a deletion waits for it.
Released == IF lock.kind \in Deleting \cup {"maintenance-deleting"}
            THEN [lock EXCEPT !.kind = "session-deletion", !.acquired = now, !.expires = Never]
            ELSE NoLock

Failed == [t \in Turns |-> IF t \in Accepted THEN "failed" ELSE status[t]]

\* recoverPendingSettlement: this process's failed settlement still owns the lock.
Unsettled(p) ==
  pending[p].turn \in Accepted /\ lock.owner = pending[p].lease

\* What admission makes of the lock it finds: a pending settlement of its own
\* is settled, then an expired lock is dropped, of whatever kind it is.
Recovers(p)      == Unsettled(p) \/ Expired
RecoveredLock(p) == IF Unsettled(p) THEN Released ELSE IF Expired THEN NoLock ELSE lock
RecoveredStatus(p) == IF Recovers(p) THEN Failed ELSE status

-----------------------------------------------------------------------------
(* Admission and execution.                                                *)

\* The session is invalid, deleting or being mutated: rejected before any
\* recovery, but the note of a pending settlement is dropped all the same.
AdmitGated(p) ==
  /\ p \in Up /\ pending[p] # NotPending
  /\ pending' = [pending EXCEPT ![p] = NotPending]
  /\ UNCHANGED <<now, life, started, lock, status, granted, exec, maint, gate, del, exists>>

\* A duplicate, a session that another lock holds, or a turn that the queue's
\* fence or a policy rejects: only the recovery happens.
AdmitRejected(p) ==
  /\ p \in Up /\ exists /\ ~gate[p]
  /\ Recovers(p)
  /\ lock' = RecoveredLock(p) /\ status' = RecoveredStatus(p)
  /\ pending' = [pending EXCEPT ![p] = NotPending]
  /\ UNCHANGED <<now, life, started, granted, exec, maint, gate, del, exists>>

Admit(p, t, kind) ==
  /\ p \in Up /\ exists /\ ~gate[p]
  /\ status[t] = "none" /\ exec[t].phase \in {"none", "done"}
  /\ RecoveredLock(p) = NoLock
  /\ granted < MaxLeases /\ granted' = granted + 1
  /\ lock' = Granted(kind, p)
  /\ status' = [RecoveredStatus(p) EXCEPT ![t] = "accepted"]
  /\ exec' = [exec EXCEPT ![t] = [proc |-> p, lease |-> granted + 1, kind |-> kind,
                                  phase |-> "admitted"]]
  /\ pending' = [pending EXCEPT ![p] = NotPending]
  /\ UNCHANGED <<now, life, started, maint, gate, del, exists>>

\* controller.register refuses while the process has an entry for the session.
Register(t) ==
  /\ In(t, {"admitted"})
  /\ exec' = [exec EXCEPT ![t].phase = IF Entry(exec[t].proc) = {} THEN "running" ELSE "failing"]
  /\ UNCHANGED <<now, life, started, lock, status, granted, pending, maint, gate, del, exists>>

\* rollbackAcceptedSubmission: the admission is revoked, or has to be settled.
Rollback(t) ==
  /\ In(t, {"admitted"}) /\ exec[t].kind = "turn"
  /\ IF t \in Accepted /\ lock.owner = exec[t].lease /\ lock.kind = "turn"
     THEN /\ lock' = NoLock
          /\ status' = [status EXCEPT ![t] = "none"]
          /\ exec' = [exec EXCEPT ![t].phase = "done"]
     ELSE /\ exec' = [exec EXCEPT ![t].phase = "failing"]
          /\ UNCHANGED <<lock, status>>
  /\ UNCHANGED <<now, life, started, granted, pending, maint, gate, del, exists>>

\* A slip: the lease is extended from its end, not from now.
RenewFromExpiry(t) ==
  /\ In(t, {"running"})
  /\ IF lock.owner = exec[t].lease /\ ~Expired
     THEN lock' = [lock EXCEPT !.expires = @ + LeaseMs] /\ UNCHANGED exec
     ELSE exec' = [exec EXCEPT ![t].phase = "aborted"] /\ UNCHANGED lock
  /\ UNCHANGED <<now, life, started, status, granted, pending, maint, gate, del, exists>>

\* The renewal timer of a running turn; a lease that is gone aborts the turn.
Renew(t) ==
  /\ In(t, {"running"})
  /\ IF lock.owner = exec[t].lease /\ ~Expired
     THEN lock' = [lock EXCEPT !.expires = now + LeaseMs] /\ UNCHANGED exec
     ELSE exec' = [exec EXCEPT ![t].phase = "aborted"] /\ UNCHANGED lock
  /\ UNCHANGED <<now, life, started, status, granted, pending, maint, gate, del, exists>>

\* A user stop, a shutdown or a deletion aborts the running turn.
AbortTurn(t) ==
  /\ In(t, {"running"})
  /\ exec' = [exec EXCEPT ![t].phase = "aborted"]
  /\ UNCHANGED <<now, life, started, lock, status, granted, pending, maint, gate, del, exists>>

Settling(t) == [turn |-> t, lease |-> exec[t].lease]

Holds(t) == lock.owner = exec[t].lease /\ t \in Accepted

\* A slip: the outcome is written although the lease was lost.
SettleStale(t, outcome) ==
  /\ In(t, {"failing", "running", "aborted"})
  /\ lock' = IF Holds(t) THEN Released ELSE lock
  /\ status' = [status EXCEPT ![t] = outcome]
  /\ exec' = [exec EXCEPT ![t].phase = "done"]
  /\ pending' = [pending EXCEPT ![exec[t].proc] = IF @ = Settling(t) THEN NotPending ELSE @]
  /\ UNCHANGED <<now, life, started, granted, maint, gate, del, exists>>

\* settle: the outcome is written and the lock released, or the owner is stale.
Settle(t, outcome) ==
  /\ In(t, {"failing", "running", "aborted"})
  /\ IF Holds(t)
     THEN lock' = Released /\ status' = [status EXCEPT ![t] = outcome]
     ELSE UNCHANGED <<lock, status>>
  /\ exec' = [exec EXCEPT ![t].phase = "done"]
  /\ pending' = [pending EXCEPT ![exec[t].proc] = IF @ = Settling(t) THEN NotPending ELSE @]
  /\ UNCHANGED <<now, life, started, granted, maint, gate, del, exists>>

\* Both attempts to settle throw: the controller keeps its entry.
SettleThrows(t) ==
  /\ In(t, {"failing", "running", "aborted"})
  /\ exec' = [exec EXCEPT ![t].phase = IF @ = "failing" THEN "done" ELSE "stuck"]
  /\ pending' = [pending EXCEPT ![exec[t].proc] = Settling(t)]
  /\ UNCHANGED <<now, life, started, lock, status, granted, maint, gate, del, exists>>

-----------------------------------------------------------------------------
(* Maintenance of the session by the session system.                       *)

\* A slip: the receipt behind an expired lock stays accepted.
AcquireMaintenanceOnly(p) ==
  /\ p \in Up /\ exists /\ ~gate[p] /\ maint[p] = 0
  /\ IF lock.kind = "none" \/ Expired
     THEN /\ granted < MaxLeases /\ granted' = granted + 1
          /\ lock' = Granted("maintenance", p)
          /\ maint' = [maint EXCEPT ![p] = granted + 1]
     ELSE UNCHANGED <<lock, granted, maint>>
  /\ UNCHANGED <<now, life, started, status, exec, pending, gate, del, exists>>

AcquireMaintenance(p) ==
  /\ p \in Up /\ exists /\ ~gate[p] /\ maint[p] = 0
  /\ status' = IF Expired THEN Failed ELSE status
  /\ IF lock.kind = "none" \/ Expired
     THEN /\ granted < MaxLeases /\ granted' = granted + 1
          /\ lock' = Granted("maintenance", p)
          /\ maint' = [maint EXCEPT ![p] = granted + 1]
     ELSE UNCHANGED <<lock, granted, maint>>
  /\ UNCHANGED <<now, life, started, exec, pending, gate, del, exists>>

RenewMaintenance(p) ==
  /\ p \in Up /\ maint[p] # 0 /\ lock.owner = maint[p] /\ ~Expired
  /\ lock.kind \in Maintained
  /\ lock' = [lock EXCEPT !.expires = now + LeaseMs]
  /\ UNCHANGED <<now, life, started, status, granted, exec, pending, maint, gate, del, exists>>

ReleaseMaintenance(p) ==
  /\ p \in Up /\ maint[p] # 0
  /\ lock' = IF lock.owner = maint[p] /\ lock.kind \in Maintained THEN Released ELSE lock
  /\ maint' = [maint EXCEPT ![p] = 0]
  /\ UNCHANGED <<now, life, started, status, granted, exec, pending, gate, del, exists>>

-----------------------------------------------------------------------------
(* Deletion: session-turn-deletion.ts, one action per await.               *)

CloseGate(p) ==
  /\ p \in Up /\ del[p] = "idle"
  /\ gate' = [gate EXCEPT ![p] = exists]
  /\ del'  = [del EXCEPT ![p] = IF exists THEN "gated" ELSE "removed"]
  /\ UNCHANGED <<now, life, started, lock, status, granted, exec, pending, maint, exists>>

\* The lock beginSessionDeletion finds after its two recoveries.
LapsedTurn    == Expired /\ lock.kind \in Running \cup Deleting
LapsedMaint   == Expired /\ lock.kind = "maintenance-deleting"
FoundLock(p)  == IF Unsettled(p) \/ LapsedTurn \/ LapsedMaint THEN Released ELSE lock
FoundStatus(p) == IF Unsettled(p) \/ LapsedTurn THEN Failed ELSE status

\* requireAcceptedTurnId is reached: for a lapsed lock, and for a lock that the
\* deletion waits for.
NeedsTurn(p) ==
  ~Unsettled(p) /\ (IF Expired THEN lock.kind \in Kinds \ {"maintenance-deleting", "session-deletion"}
                               ELSE lock.kind \in Running \cup Deleting)

Waits(kind) == CASE kind \in {"turn", "turn-deleting"}             -> "turn-deleting"
                 [] kind \in {"compaction", "compaction-deleting"} -> "compaction-deleting"
                 [] OTHER                                          -> "maintenance-deleting"

RaiseFence(p) ==
  /\ p \in Up /\ del[p] = "gated"
  /\ LET lk == FoundLock(p)
         refused == \/ NeedsTurn(p) /\ Accepted = {}
                    \/ lk.kind = "session-deletion" /\ lk.proc # p /\ lk.proc \in Up
     IN  IF refused
         THEN del' = [del EXCEPT ![p] = "idle"] /\ UNCHANGED <<lock, status, pending>>
         ELSE /\ lock' = IF lk = NoLock THEN Fence(p)
                         ELSE IF lk.kind = "session-deletion"
                         THEN IF lk.proc = p THEN lk ELSE Fence(p)
                         ELSE [lk EXCEPT !.kind = Waits(lk.kind)]
              /\ status' = FoundStatus(p)
              /\ pending' = [pending EXCEPT ![p] = NotPending]
              /\ del' = [del EXCEPT ![p] = "fenced"]
  /\ UNCHANGED <<now, life, started, granted, exec, maint, gate, exists>>

\* requireQuiescentTurn, once this process's operations have drained and its
\* turn was aborted.  A turn that is still there, here or elsewhere, or a fence
\* that was lost makes the deletion throw; the gate stays closed.
CheckQuiescent(p) ==
  /\ p \in Up /\ del[p] = "fenced" /\ maint[p] = 0
  /\ \A t \in Turns : exec[t].proc = p => exec[t].phase \notin {"admitted", "running"}
  /\ del' = [del EXCEPT ![p] = IF Entry(p) = {} /\ lock.kind = "session-deletion"
                               THEN "quiet" ELSE "idle"]
  /\ UNCHANGED <<now, life, started, lock, status, granted, exec, pending, maint, gate, exists>>

HasData == \E t \in Turns : status[t] # "none"

\* deleteSessionData
EraseData(p) ==
  /\ p \in Up /\ del[p] = "quiet"
  /\ IF lock.kind = "session-deletion" \/ (lock = NoLock /\ ~HasData)
     THEN /\ status' = [t \in Turns |-> "none"]
          /\ pending' = [pending EXCEPT ![p] = NotPending]
          /\ del' = [del EXCEPT ![p] = "erased"]
     ELSE del' = [del EXCEPT ![p] = "idle"] /\ UNCHANGED <<status, pending>>
  /\ UNCHANGED <<now, life, started, lock, granted, exec, maint, gate, exists>>

\* The cleanup deletes the session, or throws.
Cleanup(p, ok) ==
  /\ p \in Up /\ del[p] = "erased"
  /\ exists' = (exists /\ ~ok)
  /\ del' = [del EXCEPT ![p] = IF ok THEN "removed" ELSE "idle"]
  /\ UNCHANGED <<now, life, started, lock, status, granted, exec, pending, maint, gate>>

\* completeSessionDeletion; it refuses a fence that is not this process's.
LowerFence(p) ==
  /\ p \in Up /\ del[p] = "removed"
  /\ LET mine == lock.kind = "session-deletion" /\ lock.proc = p /\ ~HasData
     IN  /\ lock' = IF mine THEN NoLock ELSE lock
         /\ gate' = [gate EXCEPT ![p] = @ /\ ~mine /\ lock # NoLock]
  /\ del' = [del EXCEPT ![p] = "idle"]
  /\ UNCHANGED <<now, life, started, status, granted, exec, pending, maint, exists>>

-----------------------------------------------------------------------------
(* Processes and time.                                                     *)

Start(p) ==
  /\ life[p] = "new"
  /\ life' = [life EXCEPT ![p] = "up"] /\ started' = [started EXCEPT ![p] = now]
  /\ UNCHANGED <<now, lock, status, granted, exec, pending, maint, gate, del, exists>>

\* A crash or an exit: the tables keep what they had, the memory is gone.
Exit(p) ==
  /\ p \in Up
  /\ life' = [life EXCEPT ![p] = "dead"]
  /\ pending' = [pending EXCEPT ![p] = NotPending] /\ maint' = [maint EXCEPT ![p] = 0]
  /\ gate' = [gate EXCEPT ![p] = FALSE] /\ del' = [del EXCEPT ![p] = "idle"]
  /\ UNCHANGED <<now, started, lock, status, granted, exec, exists>>

\* A slip: the owner is not looked up.
RecoverRestartOfLive(p) ==
  /\ p \in Up
  /\ lock.kind # "none" /\ lock.acquired < started[p]
  /\ lock' = IF lock.kind = "session-deletion" THEN Fence(p) ELSE NoLock
  /\ status' = IF lock.kind \in Running \cup Deleting THEN Failed ELSE status
  /\ UNCHANGED <<now, life, started, granted, exec, pending, maint, gate, del, exists>>

\* recoverProcessRestart: a lock older than this process whose owner is dead.
\* A deletion fence is taken over and the deletion resumed.
RecoverRestart(p) ==
  /\ p \in Up
  /\ lock.kind # "none" /\ lock.acquired < started[p] /\ lock.proc \notin Up
  /\ lock' = IF lock.kind = "session-deletion" THEN Fence(p) ELSE NoLock
  /\ status' = IF lock.kind \in Running \cup Deleting THEN Failed ELSE status
  /\ UNCHANGED <<now, life, started, granted, exec, pending, maint, gate, del, exists>>

Tick ==
  /\ now < MaxTime /\ now' = now + 1
  /\ UNCHANGED <<life, started, lock, status, granted, exec, pending, maint, gate, del, exists>>

-----------------------------------------------------------------------------
Init ==
  /\ now = 0 /\ life = [p \in Procs |-> "new"] /\ started = [p \in Procs |-> 0]
  /\ lock = NoLock /\ status = [t \in Turns |-> "none"] /\ granted = 0
  /\ exec = [t \in Turns |-> Idle] /\ pending = [p \in Procs |-> NotPending]
  /\ maint = [p \in Procs |-> 0] /\ gate = [p \in Procs |-> FALSE]
  /\ del = [p \in Procs |-> "idle"] /\ exists = TRUE

TurnStep ==
  \/ \E p \in Procs :
       \/ AdmitGated(p) \/ AdmitRejected(p)
       \/ \E t \in Turns, kind \in Running : Admit(p, t, kind)
  \/ \E t \in Turns :
       \/ Register(t) \/ Rollback(t) \/ Renew(t) \/ AbortTurn(t) \/ SettleThrows(t)
       \/ \E outcome \in Outcomes : Settle(t, outcome)

MaintenanceStep ==
  \E p \in Procs : AcquireMaintenance(p) \/ RenewMaintenance(p) \/ ReleaseMaintenance(p)

DeletionStep ==
  \E p \in Procs : \/ CloseGate(p) \/ RaiseFence(p) \/ CheckQuiescent(p)
                   \/ EraseData(p) \/ LowerFence(p)
                   \/ \E ok \in BOOLEAN : Cleanup(p, ok)

ProcessStep == Tick \/ \E p \in Procs : Start(p) \/ Exit(p) \/ RecoverRestart(p)

Next == TurnStep \/ MaintenanceStep \/ DeletionStep \/ ProcessStep

Spec == Init /\ [][Next]_vars

-----------------------------------------------------------------------------
(* Properties.                                                             *)

\* The lock row and the receipts are two tables that a dozen transactions of
\* several processes write: a turn is accepted exactly while its lease is the
\* lock, and one at most is.
LockMatchesReceipt ==
  /\ \A t \in Accepted : lock.kind \in Running \cup Deleting /\ lock.owner = exec[t].lease
  /\ lock.kind \in Running \cup Deleting => \E t \in Accepted : lock.owner = exec[t].lease

\* While a turn's lease has not expired and its process lives, only that process
\* ends the turn's hold on the session: it settles the turn or takes it back, or
\* it makes up for the settlement of this very lease, which threw.
LiveLeaseIsRespected ==
  [][lock.kind \in Running \cup Deleting /\ ~Expired /\ lock.proc \in Up
       /\ lock'.owner # lock.owner
     => \/ \E t \in Turns : /\ exec[t].lease = lock.owner /\ exec[t].proc = lock.proc
                            /\ exec[t].phase # "done" /\ exec'[t].phase = "done"
        \/ /\ pending[lock.proc].lease = lock.owner
           /\ pending'[lock.proc] = NotPending]_vars

\* Whatever recovers and settles late, the turns of the session form a ledger.
Ledger == INSTANCE TurnLedger WITH ledger <- status, gone <- ~exists
ImplementsLedger == Ledger!Spec

-----------------------------------------------------------------------------
(* What the code says of itself and does not keep.                         *)

\* DELETION_FENCE_EXPIRES_AT_MS is the largest safe integer: the fence of a
\* deletion does not lapse, or another process could admit a turn beneath it.
FenceNeverExpires == lock.kind = "session-deletion" => lock.expires = Never

\* The error "Session deletion active Turn is missing" is an assertion: where
\* beginSessionDeletion asks for the accepted turn behind a lock, there is one.
DeletionFindsItsTurn ==
  \A p \in Procs : del[p] = "gated" /\ NeedsTurn(p) => Accepted # {}
=============================================================================
