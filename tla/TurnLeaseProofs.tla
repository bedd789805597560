--------------------------- MODULE TurnLeaseProofs ---------------------------
(***************************************************************************)
(* TurnLease for every number of processes and turns and all bounds: the   *)
(* tables keep their types, the lock and the receipts say the same, the    *)
(* turns of the session form the ledger of TurnLedger, and no one takes    *)
(* the session from a turn whose process lives and whose lease has not     *)
(* lapsed.                                                                 *)
(***************************************************************************)
EXTENDS TurnLease, TLAPS

OfTurn == Running \cup Deleting     \* the kinds of a lock that belongs to a turn

\* Leases are fresh: no two executions share one, and whoever is accepted has one.
LeasesAreFresh ==
  /\ \A t \in Turns : exec[t].lease <= granted
  /\ \A t, u \in Turns : exec[t].lease = exec[u].lease /\ exec[t].lease # 0 => t = u
  /\ \A t \in Accepted : exec[t].lease # 0

TableInv == LeasesAreFresh /\ LockMatchesReceipt
IInv == TypeOK /\ TableInv

-----------------------------------------------------------------------------
(* The lock and the receipts.                                              *)

\* A lock row is told from no lock by its kind.
LEMMA LockRow ==
  ASSUME lock \in Lock \cup {NoLock}
  PROVE  /\ lock.kind \in Kinds \cup {"none"} /\ lock.owner \in 0 .. MaxLeases
         /\ lock.kind = "none" <=> lock = NoLock
         /\ lock # NoLock => lock \in Lock
<1>1. MaxLeases \in Nat
  BY BoundAssumption
<1>. QED BY <1>1 DEF Lock, NoLock, Kinds, Running, Deleting, Maintained

\* Two accepted turns would both have the lock's lease.
LEMMA OneAccepted ==
  ASSUME TableInv, NEW t \in Accepted, NEW u \in Accepted
  PROVE  t = u
BY DEF TableInv, LeasesAreFresh, LockMatchesReceipt, Accepted

\* A lock that belongs to no turn leaves no turn open.
LEMMA NoneAccepted ==
  ASSUME TableInv, lock.kind \notin OfTurn
  PROVE  Accepted = {}
BY DEF TableInv, LockMatchesReceipt, OfTurn

\* What is released is free, or the fence of a deletion.
LEMMA ReleasedIsFree ==
  ASSUME TypeOK
  PROVE  /\ Released \in Lock \cup {NoLock}
         /\ Released.kind \in {"none", "session-deletion"}
         /\ Released.kind = "none" => Released = NoLock
<1>1. Never \in 0 .. Never /\ now \in 0 .. MaxTime
  BY BoundAssumption DEF TypeOK, Never
<1>2. CASE lock.kind \in Deleting \cup {"maintenance-deleting"}
  <2>1. lock \in Lock
    BY <1>2, LockRow DEF TypeOK, NoLock, Deleting
  <2>2. Released = [lock EXCEPT !.kind = "session-deletion", !.acquired = now, !.expires = Never]
    BY <1>2 DEF Released
  <2>. QED BY <1>1, <2>1, <2>2 DEF Lock, Kinds
<1>3. CASE lock.kind \notin Deleting \cup {"maintenance-deleting"}
  BY <1>3 DEF Released, NoLock
<1>. QED BY <1>2, <1>3

\* No turn is open after the open ones have failed.
LEMMA FailedIsClosed ==
  ASSUME TypeOK
  PROVE  Failed \in [Turns -> Statuses] /\ \A t \in Turns : Failed[t] # "accepted"
BY DEF TypeOK, Failed, Accepted, Statuses, Outcomes

\* A new lock has its type.
LEMMA GrantedIsLock ==
  ASSUME TypeOK, NEW p \in Procs, granted < MaxLeases,
         NEW kind \in Running \cup {"maintenance"}
  PROVE  Granted(kind, p) \in Lock
<1>1. now + LeaseMs \in 0 .. Never
  BY BoundAssumption DEF TypeOK, Never
<1>2. granted + 1 \in 0 .. MaxLeases
  BY BoundAssumption DEF TypeOK
<1>. QED BY <1>1, <1>2 DEF Granted, Lock, TypeOK, Kinds, Running, Maintained

LEMMA FenceIsLock ==
  ASSUME TypeOK, NEW p \in Procs
  PROVE  Fence(p) \in Lock
<1>1. Never \in 0 .. Never /\ 0 \in 0 .. MaxLeases
  BY BoundAssumption DEF Never
<1>. QED BY <1>1 DEF Fence, Lock, TypeOK, Kinds

\* An execution that is somewhere has a process and a lease.
LEMMA Executing ==
  ASSUME TypeOK, NEW t \in Turns, NEW phases, In(t, phases)
  PROVE  exec[t] \in Exec /\ exec[t].proc \in Procs
BY NoneAssumption DEF TypeOK, In, Up, Idle, Exec

\* A change of phase keeps the executions' type and their leases.
LEMMA PhaseMoves ==
  ASSUME TypeOK, NEW t \in Turns, exec[t] \in Exec, NEW phase \in Phases,
         exec' = [exec EXCEPT ![t].phase = phase]
  PROVE  exec' \in [Turns -> Exec \cup {Idle}] /\ \A u \in Turns : exec'[u].lease = exec[u].lease
<1>1. [exec[t] EXCEPT !.phase = phase] \in Exec
  BY DEF Exec
<1>2. exec' = [exec EXCEPT ![t] = [exec[t] EXCEPT !.phase = phase]]
  OBVIOUS
<1>3. exec \in [Turns -> Exec \cup {Idle}]
  BY DEF TypeOK
<1>. QED BY <1>1, <1>2, <1>3 DEF Exec

-----------------------------------------------------------------------------
(* Two ways to keep the tables in step.                                    *)

SameLeases == granted' = granted /\ \A u \in Turns : exec'[u].lease = exec[u].lease

\* The same turn is open, and its lock stays its own.
LEMMA StaysOpen ==
  ASSUME TableInv, granted \in Nat, granted' \in Nat, granted <= granted',
         \A u \in Turns : exec'[u].lease = exec[u].lease /\ exec[u].lease \in Nat,
         Accepted' = Accepted,
         lock'.kind \in OfTurn <=> lock.kind \in OfTurn,
         lock.kind \in OfTurn => lock'.owner = lock.owner
  PROVE  TableInv'
<1>1. Accepted \subseteq Turns
  BY DEF Accepted
<1>2. LeasesAreFresh'
  BY <1>1 DEF TableInv, LeasesAreFresh
<1>3. LockMatchesReceipt'
  BY <1>1 DEF TableInv, LockMatchesReceipt, OfTurn
<1>. QED BY <1>2, <1>3 DEF TableInv

\* No turn is open any more, and the lock belongs to none.
LEMMA IsClosed ==
  ASSUME TableInv, granted \in Nat, granted' \in Nat, granted <= granted',
         \A u \in Turns : exec'[u].lease = exec[u].lease /\ exec[u].lease \in Nat,
         Accepted' = {}, lock'.kind \notin OfTurn
  PROVE  TableInv'
<1>1. LeasesAreFresh'
  BY DEF TableInv, LeasesAreFresh
<1>2. LockMatchesReceipt'
  BY DEF LockMatchesReceipt, OfTurn
<1>. QED BY <1>1, <1>2 DEF TableInv

LEMMA Numbers ==
  ASSUME TypeOK
  PROVE  granted \in Nat /\ \A u \in Turns : exec[u].lease \in Nat
BY BoundAssumption DEF TypeOK, Exec, Idle, Leases

-----------------------------------------------------------------------------
(* Admission and execution.                                                *)

\* What admission recovers leaves no turn open.
LEMMA RecoveryCloses ==
  ASSUME IInv, NEW p \in Procs
  PROVE  /\ RecoveredLock(p) \in Lock \cup {NoLock} /\ RecoveredStatus(p) \in [Turns -> Statuses]
         /\ Recovers(p) => /\ RecoveredLock(p).kind \notin OfTurn
                          /\ \A t \in Turns : RecoveredStatus(p)[t] # "accepted"
         /\ ~Recovers(p) => RecoveredLock(p) = lock /\ RecoveredStatus(p) = status
<1>1. TypeOK
  BY DEF IInv
<1>2. CASE Recovers(p)
  <2>1. RecoveredLock(p) = Released \/ RecoveredLock(p) = NoLock
    BY <1>2 DEF Recovers, RecoveredLock
  <2>2. NoLock.kind \notin OfTurn /\ Released.kind \notin OfTurn
    BY <1>1, ReleasedIsFree DEF OfTurn, Running, Deleting, NoLock
  <2>. QED BY <1>1, <1>2, <2>1, <2>2, ReleasedIsFree, FailedIsClosed DEF RecoveredStatus
<1>3. CASE ~Recovers(p)
  BY <1>1, <1>3 DEF Recovers, RecoveredLock, RecoveredStatus, TypeOK
<1>. QED BY <1>2, <1>3

LEMMA AdmitGatedKeeps ==
  ASSUME IInv, NEW p \in Procs, AdmitGated(p)
  PROVE  IInv'
<1>1. TypeOK'
  BY DEF IInv, TypeOK, AdmitGated
<1>2. TableInv'
  <2>1. Accepted' = Accepted /\ UNCHANGED <<lock, exec, granted>>
    BY DEF AdmitGated, Accepted
  <2>. QED BY <2>1, StaysOpen, Numbers DEF IInv
<1>. QED BY <1>1, <1>2 DEF IInv

LEMMA AdmitRejectedKeeps ==
  ASSUME IInv, NEW p \in Procs, AdmitRejected(p)
  PROVE  IInv'
<1>1. TypeOK'
  BY RecoveryCloses DEF IInv, TypeOK, AdmitRejected
<1>2. TableInv'
  <2>1. Accepted' = {} /\ lock'.kind \notin OfTurn /\ UNCHANGED <<exec, granted>>
    BY RecoveryCloses DEF AdmitRejected, Accepted
  <2>. QED BY <2>1, IsClosed, Numbers DEF IInv
<1>. QED BY <1>1, <1>2 DEF IInv

\* The one step that opens a turn finds none open, and its lease is new.
LEMMA AdmitKeeps ==
  ASSUME IInv, NEW p \in Procs, NEW t \in Turns, NEW kind \in Running, Admit(p, t, kind)
  PROVE  IInv'
<1>. DEFINE fresh == [proc |-> p, lease |-> granted + 1, kind |-> kind, phase |-> "admitted"]
<1>1. /\ lock' = Granted(kind, p) /\ granted < MaxLeases /\ granted' = granted + 1
      /\ status' = [RecoveredStatus(p) EXCEPT ![t] = "accepted"]
      /\ exec' = [exec EXCEPT ![t] = fresh]
      /\ pending' = [pending EXCEPT ![p] = NotPending]
      /\ UNCHANGED <<now, life, started, maint, gate, del, exists>>
  BY DEF Admit
<1>2. fresh \in Exec /\ granted' \in 0 .. MaxLeases
  BY <1>1, BoundAssumption DEF IInv, TypeOK, Exec, Leases, Phases
<1>3. TypeOK'
  <2>1. lock' \in Lock
    BY <1>1, GrantedIsLock DEF IInv
  <2>2. status' \in [Turns -> Statuses]
    BY <1>1, RecoveryCloses DEF Statuses
  <2>. QED BY <1>1, <1>2, <2>1, <2>2 DEF IInv, TypeOK
<1>4. \A u \in Turns : RecoveredStatus(p)[u] # "accepted"
  <2>1. CASE Recovers(p)
    BY <2>1, RecoveryCloses
  <2>2. CASE ~Recovers(p)
    <3>1. lock = NoLock /\ RecoveredStatus(p) = status
      BY <2>2, RecoveryCloses DEF Admit
    <3>. QED BY <3>1, NoneAccepted DEF IInv, NoLock, OfTurn, Running, Deleting, Accepted
  <2>. QED BY <2>1, <2>2
<1>5. Accepted' = {t}
  BY <1>1, <1>4, RecoveryCloses DEF Accepted
<1>6. exec'[t].lease = granted + 1 /\ \A u \in Turns \ {t} : exec'[u] = exec[u]
  BY <1>1 DEF IInv, TypeOK
<1>7. LeasesAreFresh'
  BY <1>1, <1>5, <1>6, Numbers DEF IInv, TableInv, LeasesAreFresh
<1>8. LockMatchesReceipt'
  BY <1>1, <1>5, <1>6 DEF LockMatchesReceipt, Granted
<1>. QED BY <1>3, <1>7, <1>8 DEF IInv, TableInv

LEMMA RegisterKeeps ==
  ASSUME IInv, NEW t \in Turns, Register(t)
  PROVE  IInv'
<1>1. PICK phase \in Phases : exec' = [exec EXCEPT ![t].phase = phase]
  BY DEF Register, Phases
<1>2. /\ exec' \in [Turns -> Exec \cup {Idle}] /\ \A u \in Turns : exec'[u].lease = exec[u].lease
  BY <1>1, Executing, PhaseMoves DEF IInv, Register
<1>3. TypeOK'
  BY <1>2 DEF IInv, TypeOK, Register
<1>4. Accepted' = Accepted /\ UNCHANGED <<lock, granted>>
  BY DEF Register, Accepted
<1>5. TableInv'
  BY <1>2, <1>4, StaysOpen, Numbers DEF IInv
<1>. QED BY <1>3, <1>5 DEF IInv

\* Only the turn's own lock and receipt are taken back, and no other is open.
LEMMA RollbackKeeps ==
  ASSUME IInv, NEW t \in Turns, Rollback(t)
  PROVE  IInv'
<1>1. PICK phase \in Phases : exec' = [exec EXCEPT ![t].phase = phase]
  BY DEF Rollback, Phases
<1>2. /\ exec' \in [Turns -> Exec \cup {Idle}] /\ \A u \in Turns : exec'[u].lease = exec[u].lease
  BY <1>1, Executing, PhaseMoves DEF IInv, Rollback
<1>3. TypeOK'
  BY <1>2 DEF IInv, TypeOK, Rollback, Statuses
<1>4. TableInv'
  <2>1. CASE t \in Accepted /\ lock.owner = exec[t].lease /\ lock.kind = "turn"
    <3>1. Accepted = {t}
      BY <2>1, OneAccepted DEF IInv
    <3>2. lock' = NoLock /\ status' = [status EXCEPT ![t] = "none"] /\ granted' = granted
      BY <2>1 DEF Rollback
    <3>3. Accepted' = {} /\ lock'.kind \notin OfTurn
      BY <3>1, <3>2 DEF Accepted, IInv, TypeOK, NoLock, OfTurn, Running, Deleting
    <3>. QED BY <1>2, <3>2, <3>3, IsClosed, Numbers DEF IInv
  <2>2. CASE ~(t \in Accepted /\ lock.owner = exec[t].lease /\ lock.kind = "turn")
    <3>1. Accepted' = Accepted /\ UNCHANGED <<lock, granted>>
      BY <2>2 DEF Rollback, Accepted
    <3>. QED BY <1>2, <3>1, StaysOpen, Numbers DEF IInv
  <2>. QED BY <2>1, <2>2
<1>. QED BY <1>3, <1>4 DEF IInv

\* The end of a lease is all that a renewal changes.
LEMMA Renewed ==
  ASSUME IInv, lock.kind # "none", lock' = [lock EXCEPT !.expires = now + LeaseMs]
  PROVE  lock' \in Lock /\ lock'.kind = lock.kind /\ lock'.owner = lock.owner
<1>1. lock \in Lock
  BY LockRow DEF IInv, TypeOK
<1>2. now + LeaseMs \in 0 .. Never
  BY BoundAssumption DEF IInv, TypeOK, Never
<1>. QED BY <1>1, <1>2 DEF Lock

LEMMA RenewKeeps ==
  ASSUME IInv, NEW t \in Turns, Renew(t)
  PROVE  IInv'
<1>1. exec[t] \in Exec
  BY Executing DEF IInv, Renew
<1>2. CASE lock.owner = exec[t].lease /\ ~Expired
  <2>0. exec[t].lease # 0
    BY <1>1, BoundAssumption DEF Exec, Leases
  <2>1. lock.kind # "none"
    BY <1>2, <2>0, LockRow DEF IInv, TypeOK, NoLock
  <2>2. /\ lock' \in Lock /\ lock'.kind = lock.kind /\ lock'.owner = lock.owner
        /\ UNCHANGED <<exec, granted, status>>
    BY <1>2, <2>1, Renewed DEF Renew
  <2>3. TypeOK'
    BY <2>2 DEF IInv, TypeOK, Renew
  <2>4. Accepted' = Accepted
    BY <2>2 DEF Accepted
  <2>. QED BY <2>2, <2>3, <2>4, StaysOpen, Numbers DEF IInv
<1>3. CASE ~(lock.owner = exec[t].lease /\ ~Expired)
  <2>1. exec' = [exec EXCEPT ![t].phase = "aborted"] /\ UNCHANGED <<lock, granted, status>>
    BY <1>3 DEF Renew
  <2>2. /\ exec' \in [Turns -> Exec \cup {Idle}] /\ \A u \in Turns : exec'[u].lease = exec[u].lease
    BY <1>1, <2>1, PhaseMoves DEF IInv, Phases
  <2>3. TypeOK'
    BY <2>1, <2>2 DEF IInv, TypeOK, Renew
  <2>4. Accepted' = Accepted
    BY <2>1 DEF Accepted
  <2>. QED BY <2>1, <2>2, <2>3, <2>4, StaysOpen, Numbers DEF IInv
<1>. QED BY <1>2, <1>3

LEMMA AbortTurnKeeps ==
  ASSUME IInv, NEW t \in Turns, AbortTurn(t)
  PROVE  IInv'
<1>1. /\ exec' \in [Turns -> Exec \cup {Idle}] /\ \A u \in Turns : exec'[u].lease = exec[u].lease
  BY Executing, PhaseMoves DEF IInv, AbortTurn, Phases
<1>2. TypeOK'
  BY <1>1 DEF IInv, TypeOK, AbortTurn
<1>3. Accepted' = Accepted /\ UNCHANGED <<lock, granted>>
  BY DEF AbortTurn, Accepted
<1>. QED BY <1>1, <1>2, <1>3, StaysOpen, Numbers DEF IInv

LEMMA SettleThrowsKeeps ==
  ASSUME IInv, NEW t \in Turns, SettleThrows(t)
  PROVE  IInv'
<1>1. PICK phase \in Phases : exec' = [exec EXCEPT ![t].phase = phase]
  BY DEF SettleThrows, Phases
<1>2. /\ exec' \in [Turns -> Exec \cup {Idle}] /\ \A u \in Turns : exec'[u].lease = exec[u].lease
  BY <1>1, Executing, PhaseMoves DEF IInv, SettleThrows
<1>3. TypeOK'
  <2>1. Settling(t) \in Unsettling
    BY Executing DEF IInv, SettleThrows, Settling, Unsettling, Exec
  <2>2. pending' \in [Procs -> Unsettling \cup {NotPending}]
    BY <2>1 DEF IInv, TypeOK, SettleThrows
  <2>. QED BY <1>2, <2>2 DEF IInv, TypeOK, SettleThrows
<1>4. Accepted' = Accepted /\ UNCHANGED <<lock, granted>>
  BY DEF SettleThrows, Accepted
<1>. QED BY <1>2, <1>3, <1>4, StaysOpen, Numbers DEF IInv

\* A settlement that holds the lock closes the one turn that is open.
LEMMA SettleKeeps ==
  ASSUME IInv, NEW t \in Turns, NEW outcome \in Outcomes, Settle(t, outcome)
  PROVE  IInv'
<1>1. /\ exec' \in [Turns -> Exec \cup {Idle}] /\ \A u \in Turns : exec'[u].lease = exec[u].lease
  BY Executing, PhaseMoves DEF IInv, Settle, Phases
<1>2. CASE Holds(t)
  <2>1. lock' = Released /\ status' = [status EXCEPT ![t] = outcome] /\ granted' = granted
    BY <1>2 DEF Settle
  <2>2. TypeOK'
    BY <1>1, <2>1, ReleasedIsFree DEF IInv, TypeOK, Settle, Statuses
  <2>3. Accepted = {t}
    BY <1>2, OneAccepted DEF IInv, Holds
  <2>4. Accepted' = {}
    BY <2>1, <2>3 DEF Accepted, IInv, TypeOK, Outcomes
  <2>5. lock'.kind \notin OfTurn
    BY <2>1, ReleasedIsFree DEF IInv, OfTurn, Running, Deleting
  <2>. QED BY <1>1, <2>1, <2>2, <2>4, <2>5, IsClosed, Numbers DEF IInv
<1>3. CASE ~Holds(t)
  <2>1. UNCHANGED <<lock, status, granted>>
    BY <1>3 DEF Settle
  <2>2. TypeOK'
    BY <1>1, <2>1 DEF IInv, TypeOK, Settle
  <2>3. Accepted' = Accepted
    BY <2>1 DEF Accepted
  <2>. QED BY <1>1, <2>1, <2>2, <2>3, StaysOpen, Numbers DEF IInv
<1>. QED BY <1>2, <1>3

-----------------------------------------------------------------------------
(* Maintenance.                                                            *)

\* A maintenance that takes the session fails what an expired lock left open.
LEMMA AcquireMaintenanceKeeps ==
  ASSUME IInv, NEW p \in Procs, AcquireMaintenance(p)
  PROVE  IInv'
<1>1. CASE lock.kind = "none" \/ Expired
  <2>1. /\ lock' = Granted("maintenance", p) /\ granted < MaxLeases /\ granted' = granted + 1
        /\ maint' = [maint EXCEPT ![p] = granted + 1]
        /\ status' = IF Expired THEN Failed ELSE status
        /\ UNCHANGED <<now, life, started, exec, pending, gate, del, exists>>
    BY <1>1 DEF AcquireMaintenance
  <2>2. lock' \in Lock /\ granted' \in 0 .. MaxLeases
    BY <2>1, GrantedIsLock, BoundAssumption DEF IInv, TypeOK
  <2>3. TypeOK'
    BY <2>1, <2>2, FailedIsClosed DEF IInv, TypeOK
  <2>4. Accepted' = {}
    <3>1. CASE Expired
      BY <2>1, <3>1, FailedIsClosed DEF IInv, Accepted
    <3>2. CASE ~Expired
      <4>1. Accepted = {}
        BY <1>1, <3>2, NoneAccepted DEF IInv, OfTurn, Running, Deleting
      <4>. QED BY <2>1, <3>2, <4>1 DEF Accepted
    <3>. QED BY <3>1, <3>2
  <2>5. lock'.kind \notin OfTurn
    BY <2>1 DEF Granted, OfTurn, Running, Deleting
  <2>. QED BY <2>1, <2>3, <2>4, <2>5, IsClosed, Numbers DEF IInv
<1>2. CASE ~(lock.kind = "none" \/ Expired)
  <2>1. UNCHANGED <<lock, granted, maint, status, exec>>
    BY <1>2 DEF AcquireMaintenance
  <2>2. TypeOK'
    BY <2>1 DEF IInv, TypeOK, AcquireMaintenance
  <2>3. Accepted' = Accepted
    BY <2>1 DEF Accepted
  <2>. QED BY <2>1, <2>2, <2>3, StaysOpen, Numbers DEF IInv
<1>. QED BY <1>1, <1>2

LEMMA RenewMaintenanceKeeps ==
  ASSUME IInv, NEW p \in Procs, RenewMaintenance(p)
  PROVE  IInv'
<1>1. lock' \in Lock /\ lock'.kind = lock.kind /\ lock'.owner = lock.owner
  BY Renewed DEF RenewMaintenance, Maintained
<1>2. TypeOK'
  BY <1>1 DEF IInv, TypeOK, RenewMaintenance
<1>3. Accepted' = Accepted /\ UNCHANGED <<exec, granted>>
  BY DEF RenewMaintenance, Accepted
<1>. QED BY <1>1, <1>2, <1>3, StaysOpen, Numbers DEF IInv

LEMMA ReleaseMaintenanceKeeps ==
  ASSUME IInv, NEW p \in Procs, ReleaseMaintenance(p)
  PROVE  IInv'
<1>0. 0 \in 0 .. MaxLeases
  BY BoundAssumption
<1>1. TypeOK'
  BY <1>0, ReleasedIsFree DEF IInv, TypeOK, ReleaseMaintenance
<1>2. Accepted' = Accepted /\ UNCHANGED <<exec, granted>>
  BY DEF ReleaseMaintenance, Accepted
<1>3. CASE lock.owner = maint[p] /\ lock.kind \in Maintained
  <2>1. lock.kind \notin OfTurn /\ lock'.kind \notin OfTurn
    BY <1>3, ReleasedIsFree DEF IInv, ReleaseMaintenance, OfTurn, Running, Deleting, Maintained
  <2>. QED BY <1>1, <1>2, <2>1, StaysOpen, Numbers DEF IInv
<1>4. CASE ~(lock.owner = maint[p] /\ lock.kind \in Maintained)
  <2>1. lock' = lock
    BY <1>4 DEF ReleaseMaintenance
  <2>. QED BY <1>1, <1>2, <2>1, StaysOpen, Numbers DEF IInv
<1>. QED BY <1>3, <1>4

-----------------------------------------------------------------------------
(* Deletion.                                                               *)

LEMMA CloseGateKeeps ==
  ASSUME IInv, NEW p \in Procs, CloseGate(p)
  PROVE  IInv'
<1>1. TypeOK'
  BY DEF IInv, TypeOK, CloseGate, Stages
<1>2. Accepted' = Accepted /\ UNCHANGED <<lock, exec, granted>>
  BY DEF CloseGate, Accepted
<1>. QED BY <1>1, <1>2, StaysOpen, Numbers DEF IInv

\* What a deletion finds after its recoveries: the lock as it was, or no open turn.
LEMMA FoundIsInStep ==
  ASSUME IInv, NEW p \in Procs
  PROVE  /\ FoundLock(p) \in Lock \cup {NoLock} /\ FoundStatus(p) \in [Turns -> Statuses]
         /\ \/ FoundLock(p) = lock /\ FoundStatus(p) = status
            \/ /\ FoundLock(p).kind \in {"none", "session-deletion"}
               /\ \A t \in Turns : FoundStatus(p)[t] # "accepted"
<1>1. TypeOK
  BY DEF IInv
<1>2. CASE Unsettled(p) \/ LapsedTurn
  BY <1>1, <1>2, ReleasedIsFree, FailedIsClosed DEF FoundLock, FoundStatus
<1>3. CASE ~(Unsettled(p) \/ LapsedTurn) /\ LapsedMaint
  <2>1. FoundLock(p) = Released /\ FoundStatus(p) = status
    BY <1>3 DEF FoundLock, FoundStatus
  <2>2. Accepted = {}
    BY <1>3, NoneAccepted DEF IInv, LapsedMaint, OfTurn, Running, Deleting
  <2>. QED BY <1>1, <2>1, <2>2, ReleasedIsFree DEF Accepted, TypeOK
<1>4. CASE ~(Unsettled(p) \/ LapsedTurn) /\ ~LapsedMaint
  BY <1>1, <1>4 DEF FoundLock, FoundStatus, TypeOK
<1>. QED BY <1>2, <1>3, <1>4

\* The fence is raised over a quiet session, or waits behind the lock of a turn or
\* a maintenance, which stays theirs.
LEMMA RaiseFenceKeeps ==
  ASSUME IInv, NEW p \in Procs, RaiseFence(p)
  PROVE  IInv'
<1>. DEFINE lk == FoundLock(p)
<1>1. CASE UNCHANGED <<lock, status>>
  <2>1. TypeOK'
    BY <1>1 DEF IInv, TypeOK, RaiseFence, Stages
  <2>2. Accepted' = Accepted /\ UNCHANGED <<exec, granted>>
    BY <1>1 DEF RaiseFence, Accepted
  <2>. QED BY <1>1, <2>1, <2>2, StaysOpen, Numbers DEF IInv
<1>2. CASE /\ lock' = IF lk = NoLock THEN Fence(p)
                       ELSE IF lk.kind = "session-deletion"
                       THEN IF lk.proc = p THEN lk ELSE Fence(p)
                       ELSE [lk EXCEPT !.kind = Waits(lk.kind)]
           /\ status' = FoundStatus(p)
           /\ pending' = [pending EXCEPT ![p] = NotPending]
           /\ del' = [del EXCEPT ![p] = "fenced"]
  <2>0. lk \in Lock \cup {NoLock} /\ Fence(p) \in Lock /\ Fence(p).kind = "session-deletion"
    BY FoundIsInStep, FenceIsLock DEF IInv, Fence
  <2>1. Waits(lk.kind) \in Deleting \cup {"maintenance-deleting"}
    BY DEF Waits, Deleting
  <2>2. lk # NoLock => [lk EXCEPT !.kind = Waits(lk.kind)] \in Lock
    BY <2>0, <2>1 DEF Lock, Kinds, Maintained
  <2>3. TypeOK'
    BY <1>2, <2>0, <2>2, FoundIsInStep DEF IInv, TypeOK, RaiseFence, Stages
  <2>4. UNCHANGED <<exec, granted>>
    BY DEF RaiseFence
  <2>5. CASE lk.kind \in {"none", "session-deletion"} /\ \A t \in Turns : FoundStatus(p)[t] # "accepted"
    <3>1. lk = NoLock \/ lk.kind = "session-deletion"
      BY <2>0, <2>5 DEF Lock, Kinds, Running, Deleting, Maintained
    <3>2. lock'.kind \notin OfTurn
      BY <1>2, <2>0, <3>1 DEF OfTurn, Running, Deleting
    <3>3. Accepted' = {}
      BY <1>2, <2>5 DEF Accepted
    <3>. QED BY <2>3, <2>4, <3>2, <3>3, IsClosed, Numbers DEF IInv
  <2>6. CASE lk = lock /\ FoundStatus(p) = status
    <3>1. Accepted' = Accepted
      BY <1>2, <2>6 DEF Accepted
    <3>2. CASE lk = NoLock \/ lk.kind = "session-deletion"
      <4>1. lock.kind \notin OfTurn /\ lock'.kind \notin OfTurn
        BY <1>2, <2>0, <2>6, <3>2 DEF OfTurn, Running, Deleting, NoLock
      <4>. QED BY <2>3, <2>4, <3>1, <4>1, StaysOpen, Numbers DEF IInv
    <3>3. CASE ~(lk = NoLock \/ lk.kind = "session-deletion")
      <4>1. lock' = [lock EXCEPT !.kind = Waits(lock.kind)] /\ lock \in Lock
        BY <1>2, <2>0, <2>6, <3>3
      <4>2. lock'.kind = Waits(lock.kind) /\ lock'.owner = lock.owner
        BY <4>1 DEF Lock
      <4>3. lock'.kind \in OfTurn <=> lock.kind \in OfTurn
        BY <4>2 DEF Waits, OfTurn, Running, Deleting
      <4>. QED BY <2>3, <2>4, <3>1, <4>2, <4>3, StaysOpen, Numbers DEF IInv
    <3>. QED BY <3>2, <3>3
  <2>. QED BY <2>5, <2>6, FoundIsInStep
<1>. QED BY <1>1, <1>2 DEF RaiseFence

LEMMA CheckQuiescentKeeps ==
  ASSUME IInv, NEW p \in Procs, CheckQuiescent(p)
  PROVE  IInv'
<1>1. TypeOK'
  BY DEF IInv, TypeOK, CheckQuiescent, Stages
<1>2. Accepted' = Accepted /\ UNCHANGED <<lock, exec, granted>>
  BY DEF CheckQuiescent, Accepted
<1>. QED BY <1>1, <1>2, StaysOpen, Numbers DEF IInv

\* Receipts are erased beneath the fence, or when there are none.
LEMMA EraseDataKeeps ==
  ASSUME IInv, NEW p \in Procs, EraseData(p)
  PROVE  IInv'
<1>1. TypeOK'
  BY DEF IInv, TypeOK, EraseData, Stages, Statuses
<1>2. UNCHANGED <<lock, exec, granted>>
  BY DEF EraseData
<1>3. CASE lock.kind = "session-deletion" \/ (lock = NoLock /\ ~HasData)
  <2>1. Accepted' = {}
    BY <1>3 DEF EraseData, Accepted
  <2>2. lock'.kind \notin OfTurn
    BY <1>2, <1>3 DEF OfTurn, Running, Deleting, NoLock
  <2>. QED BY <1>1, <1>2, <2>1, <2>2, IsClosed, Numbers DEF IInv
<1>4. CASE ~(lock.kind = "session-deletion" \/ (lock = NoLock /\ ~HasData))
  <2>1. Accepted' = Accepted
    BY <1>4 DEF EraseData, Accepted
  <2>. QED BY <1>1, <1>2, <2>1, StaysOpen, Numbers DEF IInv
<1>. QED BY <1>3, <1>4

LEMMA CleanupKeeps ==
  ASSUME IInv, NEW p \in Procs, NEW ok \in BOOLEAN, Cleanup(p, ok)
  PROVE  IInv'
<1>1. exists' \in BOOLEAN
  BY DEF IInv, TypeOK, Cleanup
<1>2. TypeOK'
  BY <1>1 DEF IInv, TypeOK, Cleanup, Stages
<1>3. Accepted' = Accepted /\ UNCHANGED <<lock, exec, granted>>
  BY DEF Cleanup, Accepted
<1>. QED BY <1>2, <1>3, StaysOpen, Numbers DEF IInv

LEMMA LowerFenceKeeps ==
  ASSUME IInv, NEW p \in Procs, LowerFence(p)
  PROVE  IInv'
<1>1. lock' = lock \/ (lock.kind = "session-deletion" /\ lock' = NoLock)
  BY DEF LowerFence
<1>2. gate' \in [Procs -> BOOLEAN]
  BY DEF IInv, TypeOK, LowerFence
<1>3. TypeOK'
  BY <1>1, <1>2 DEF IInv, TypeOK, LowerFence, Stages
<1>4. Accepted' = Accepted /\ UNCHANGED <<exec, granted>>
  BY DEF LowerFence, Accepted
<1>5. /\ lock'.kind \in OfTurn <=> lock.kind \in OfTurn
      /\ lock.kind \in OfTurn => lock'.owner = lock.owner
  BY <1>1 DEF OfTurn, Running, Deleting, NoLock
<1>. QED BY <1>3, <1>4, <1>5, StaysOpen, Numbers DEF IInv

-----------------------------------------------------------------------------
(* Processes and time.                                                     *)

LEMMA StartKeeps ==
  ASSUME IInv, NEW p \in Procs, Start(p)
  PROVE  IInv'
<1>1. TypeOK'
  BY DEF IInv, TypeOK, Start
<1>2. Accepted' = Accepted /\ UNCHANGED <<lock, exec, granted>>
  BY DEF Start, Accepted
<1>. QED BY <1>1, <1>2, StaysOpen, Numbers DEF IInv

LEMMA ExitKeeps ==
  ASSUME IInv, NEW p \in Procs, Exit(p)
  PROVE  IInv'
<1>0. 0 \in 0 .. MaxLeases
  BY BoundAssumption
<1>1. TypeOK'
  BY <1>0 DEF IInv, TypeOK, Exit, Stages
<1>2. Accepted' = Accepted /\ UNCHANGED <<lock, exec, granted>>
  BY DEF Exit, Accepted
<1>. QED BY <1>1, <1>2, StaysOpen, Numbers DEF IInv

LEMMA TickKeeps ==
  ASSUME IInv, Tick
  PROVE  IInv'
<1>0. now' \in 0 .. MaxTime
  BY BoundAssumption DEF IInv, TypeOK, Tick
<1>1. TypeOK'
  BY <1>0 DEF IInv, TypeOK, Tick
<1>2. Accepted' = Accepted /\ UNCHANGED <<lock, exec, granted>>
  BY DEF Tick, Accepted
<1>. QED BY <1>1, <1>2, StaysOpen, Numbers DEF IInv

\* A starting process fails the turn of a dead owner together with its lock.
LEMMA RecoverRestartKeeps ==
  ASSUME IInv, NEW p \in Procs, RecoverRestart(p)
  PROVE  IInv'
<1>1. lock' \in Lock \cup {NoLock} /\ lock'.kind \notin OfTurn
  BY FenceIsLock DEF IInv, RecoverRestart, Fence, NoLock, OfTurn, Running, Deleting
<1>2. TypeOK'
  BY <1>1, FailedIsClosed DEF IInv, TypeOK, RecoverRestart
<1>3. Accepted' = {}
  <2>1. CASE lock.kind \in Running \cup Deleting
    BY <2>1, FailedIsClosed DEF IInv, RecoverRestart, Accepted
  <2>2. CASE lock.kind \notin Running \cup Deleting
    <3>1. Accepted = {} /\ status' = status
      BY <2>2, NoneAccepted DEF IInv, RecoverRestart, OfTurn
    <3>. QED BY <3>1 DEF Accepted
  <2>. QED BY <2>1, <2>2
<1>4. UNCHANGED <<exec, granted>>
  BY DEF RecoverRestart
<1>. QED BY <1>1, <1>2, <1>3, <1>4, IsClosed, Numbers DEF IInv

-----------------------------------------------------------------------------
(* The tables.                                                             *)

LEMMA InitInv == Init => IInv
<1>. SUFFICES ASSUME Init PROVE IInv
  OBVIOUS
<1>1. TypeOK
  BY BoundAssumption DEF Init, TypeOK, Stages, Statuses
<1>2. TableInv
  BY DEF Init, TableInv, LeasesAreFresh, LockMatchesReceipt, Accepted, Idle, NoLock, Running, Deleting
<1>. QED BY <1>1, <1>2 DEF IInv

LEMMA StepInv == IInv /\ [Next]_vars => IInv'
<1>. SUFFICES ASSUME IInv, [Next]_vars PROVE IInv'
  OBVIOUS
<1>1. CASE TurnStep
  BY <1>1, AdmitGatedKeeps, AdmitRejectedKeeps, AdmitKeeps, RegisterKeeps, RollbackKeeps, RenewKeeps,
     AbortTurnKeeps, SettleThrowsKeeps, SettleKeeps DEF TurnStep
<1>2. CASE MaintenanceStep
  BY <1>2, AcquireMaintenanceKeeps, RenewMaintenanceKeeps, ReleaseMaintenanceKeeps DEF MaintenanceStep
<1>3. CASE DeletionStep
  BY <1>3, CloseGateKeeps, RaiseFenceKeeps, CheckQuiescentKeeps, EraseDataKeeps, LowerFenceKeeps,
     CleanupKeeps DEF DeletionStep
<1>4. CASE ProcessStep
  BY <1>4, TickKeeps, StartKeeps, ExitKeeps, RecoverRestartKeeps DEF ProcessStep
<1>5. CASE UNCHANGED vars
  <2>1. TypeOK'
    BY <1>5 DEF IInv, TypeOK, vars
  <2>2. Accepted' = Accepted /\ UNCHANGED <<lock, exec, granted>>
    BY <1>5 DEF vars, Accepted
  <2>. QED BY <2>1, <2>2, StaysOpen, Numbers DEF IInv
<1>. QED BY <1>1, <1>2, <1>3, <1>4, <1>5 DEF Next

\* The inductive invariant: the types, fresh leases, and the lock in step with the
\* receipts.
THEOREM TablesInStep == Spec => []IInv
BY InitInv, StepInv, PTL DEF Spec

\* TypeOK: whatever is renewed, released or promoted, the lock row, the receipts and
\* the memories of the processes keep their types, and no lease outruns its renewal.
THEOREM TypeCorrect == Spec => []TypeOK
<1>1. IInv => TypeOK
  BY DEF IInv
<1>. QED BY <1>1, TablesInStep, PTL

\* LockMatchesReceipt: a turn is accepted exactly while its lease is the lock.
THEOREM LockAndReceiptAgree == Spec => []LockMatchesReceipt
<1>1. IInv => LockMatchesReceipt
  BY DEF IInv, TableInv
<1>. QED BY <1>1, TablesInStep, PTL

-----------------------------------------------------------------------------
(* The ledger.                                                             *)

LedgerStep == Ledger!Next \/ UNCHANGED <<status, ~exists>>

\* Whoever recovers finishes the one open turn, or none.
LEMMA RecoveryFinishes ==
  ASSUME IInv, status' = status \/ status' = Failed, exists' = exists
  PROVE  LedgerStep
<1>1. CASE status' = status
  BY <1>1 DEF LedgerStep
<1>2. CASE status' = Failed /\ Accepted = {}
  BY <1>2 DEF LedgerStep, Failed, IInv, TypeOK
<1>3. CASE status' = Failed /\ Accepted # {}
  <2>1. PICK t \in Accepted : TRUE
    BY <1>3
  <2>2. t \in Turns /\ Accepted = {t}
    BY <2>1, OneAccepted DEF IInv, Accepted
  <2>3. status' = [status EXCEPT ![t] = "failed"]
    BY <1>3, <2>2 DEF Failed, IInv, TypeOK
  <2>4. Ledger!Finish(t, "failed")
    BY <2>1, <2>3 DEF Ledger!Finish, Accepted
  <2>. QED BY <2>2, <2>4 DEF LedgerStep, Ledger!Next, Ledger!Outcomes
<1>. QED BY <1>1, <1>2, <1>3

\* An admission fails a turn that was lost, and accepts its own.
LEMMA AdmitAccepts ==
  ASSUME IInv, NEW p \in Procs, NEW t \in Turns, NEW kind \in Running, Admit(p, t, kind)
  PROVE  LedgerStep
<1>1. ~Recovers(p) => Accepted = {}
  <2>1. ASSUME ~Recovers(p) PROVE lock = NoLock
    BY <2>1, RecoveryCloses DEF Admit
  <2>. QED BY <2>1, NoneAccepted DEF IInv, NoLock, OfTurn, Running, Deleting
<1>2. RecoveredStatus(p) = Failed
  BY <1>1 DEF RecoveredStatus, Failed, IInv, TypeOK
<1>3. status' = [Failed EXCEPT ![t] = "accepted"] /\ status[t] = "none" /\ exists /\ exists' = exists
  BY <1>2 DEF Admit
<1>4. status' = [u \in Turns |-> IF u = t THEN "accepted" ELSE IF u \in Accepted THEN "failed" ELSE status[u]]
  BY <1>3 DEF Failed
<1>5. Ledger!Accept(t)
  BY <1>3, <1>4 DEF Ledger!Accept, Ledger!Open, Accepted
<1>. QED BY <1>5 DEF LedgerStep, Ledger!Next

LEMMA SettleFinishes ==
  ASSUME IInv, NEW t \in Turns, NEW outcome \in Outcomes, Settle(t, outcome)
  PROVE  LedgerStep
<1>1. CASE Holds(t)
  <2>1. Ledger!Finish(t, outcome)
    BY <1>1 DEF Settle, Holds, Accepted, Ledger!Finish
  <2>. QED BY <2>1 DEF LedgerStep, Ledger!Next, Ledger!Outcomes, Outcomes
<1>2. CASE ~Holds(t)
  BY <1>2 DEF Settle, LedgerStep
<1>. QED BY <1>1, <1>2

LEMMA RollbackWithdraws ==
  ASSUME IInv, NEW t \in Turns, Rollback(t)
  PROVE  LedgerStep
<1>1. CASE t \in Accepted /\ lock.owner = exec[t].lease /\ lock.kind = "turn"
  <2>1. Ledger!Withdraw(t)
    BY <1>1 DEF Rollback, Accepted, Ledger!Withdraw
  <2>. QED BY <2>1 DEF LedgerStep, Ledger!Next
<1>2. CASE ~(t \in Accepted /\ lock.owner = exec[t].lease /\ lock.kind = "turn")
  BY <1>2 DEF Rollback, LedgerStep
<1>. QED BY <1>1, <1>2

LEMMA EraseDataErases ==
  ASSUME IInv, NEW p \in Procs, EraseData(p)
  PROVE  LedgerStep
<1>1. CASE lock.kind = "session-deletion" \/ (lock = NoLock /\ ~HasData)
  <2>1. Accepted = {}
    BY <1>1, NoneAccepted DEF IInv, NoLock, OfTurn, Running, Deleting
  <2>2. Ledger!Erase
    BY <1>1, <2>1 DEF EraseData, Ledger!Erase, Ledger!Open, Accepted
  <2>. QED BY <2>2 DEF LedgerStep, Ledger!Next
<1>2. CASE ~(lock.kind = "session-deletion" \/ (lock = NoLock /\ ~HasData))
  BY <1>2 DEF EraseData, LedgerStep
<1>. QED BY <1>1, <1>2

LEMMA CleanupVanishes ==
  ASSUME IInv, NEW p \in Procs, NEW ok \in BOOLEAN, Cleanup(p, ok)
  PROVE  LedgerStep
<1>1. exists' = (exists /\ ~ok) /\ status' = status
  BY DEF Cleanup
<1>2. CASE exists /\ ok
  <2>1. Ledger!Vanish
    BY <1>1, <1>2 DEF Ledger!Vanish
  <2>. QED BY <2>1 DEF LedgerStep, Ledger!Next
<1>3. CASE ~(exists /\ ok)
  BY <1>1, <1>3 DEF LedgerStep, IInv, TypeOK
<1>. QED BY <1>2, <1>3

LEMMA StepMaps == IInv /\ [Next]_vars => LedgerStep
<1>. SUFFICES ASSUME IInv, [Next]_vars PROVE LedgerStep
  OBVIOUS
<1>1. CASE TurnStep
  <2>1. ASSUME NEW p \in Procs, AdmitGated(p) \/ AdmitRejected(p) PROVE LedgerStep
    BY <2>1, RecoveryFinishes DEF AdmitGated, AdmitRejected, RecoveredStatus
  <2>2. ASSUME NEW t \in Turns, Register(t) \/ Renew(t) \/ AbortTurn(t) \/ SettleThrows(t)
        PROVE  LedgerStep
    BY <2>2, RecoveryFinishes DEF Register, Renew, AbortTurn, SettleThrows
  <2>. QED BY <1>1, <2>1, <2>2, AdmitAccepts, RollbackWithdraws, SettleFinishes DEF TurnStep
<1>2. CASE MaintenanceStep
  BY <1>2, RecoveryFinishes
  DEF MaintenanceStep, AcquireMaintenance, RenewMaintenance, ReleaseMaintenance
<1>3. CASE DeletionStep
  <2>1. ASSUME NEW p \in Procs, CloseGate(p) \/ CheckQuiescent(p) \/ LowerFence(p)
        PROVE  LedgerStep
    BY <2>1, RecoveryFinishes DEF CloseGate, CheckQuiescent, LowerFence
  <2>2. ASSUME NEW p \in Procs, RaiseFence(p) PROVE LedgerStep
    BY <2>2, RecoveryFinishes DEF RaiseFence, FoundStatus
  <2>. QED BY <1>3, <2>1, <2>2, EraseDataErases, CleanupVanishes DEF DeletionStep
<1>4. CASE ProcessStep
  BY <1>4, RecoveryFinishes DEF ProcessStep, Tick, Start, Exit, RecoverRestart
<1>5. CASE UNCHANGED vars
  BY <1>5 DEF vars, LedgerStep
<1>. QED BY <1>1, <1>2, <1>3, <1>4, <1>5 DEF Next

\* ImplementsLedger: leases that lapse, processes that die, settlements that throw and
\* deletions of whatever is found are all steps of the ledger, or none: each turn is
\* accepted alone and finished once.
THEOREM LeasesImplementLedger == Spec => ImplementsLedger
<1>1. Init => Ledger!Init
  BY DEF Init, Ledger!Init
<1>2. IInv /\ [Next]_vars => [Ledger!Next]_<<status, ~exists>>
  BY StepMaps DEF LedgerStep
<1>. QED BY <1>1, <1>2, TablesInStep, PTL DEF Spec, ImplementsLedger, Ledger!Spec

-----------------------------------------------------------------------------
(* Whose lease it is.                                                       *)

\* The lock of a turn names the process that runs the turn with the lock's lease.
HolderRuns ==
  lock.kind \in OfTurn => \A t \in Turns : exec[t].lease = lock.owner => exec[t].proc = lock.proc

\* A process waits to settle only what it ran itself; a lease that it notes was granted.
NotesAreOwn ==
  \A p \in Procs : /\ pending[p].lease <= granted
                   /\ \A t \in Turns : exec[t].lease = pending[p].lease /\ exec[t].lease # 0
                                         => exec[t].proc = p

HolderInv == HolderRuns /\ NotesAreOwn

\* Every step but an admission leaves the executions their processes and leases, a
\* turn's lock its holder, and each process its note, unless it drops it.
LEMMA HolderStays ==
  ASSUME IInv, HolderInv, granted <= granted', granted' \in Nat,
         \A u \in Turns : exec'[u].lease = exec[u].lease /\ exec'[u].proc = exec[u].proc,
         lock'.kind \in OfTurn =>
           lock.kind \in OfTurn /\ lock'.owner = lock.owner /\ lock'.proc = lock.proc,
         \A q \in Procs :
           \/ pending'[q] = pending[q] \/ pending'[q] = NotPending
           \/ \E u \in Turns : pending'[q] = Settling(u) /\ exec[u].proc = q
  PROVE  HolderInv'
<1>1. HolderRuns'
  BY DEF HolderInv, HolderRuns
<1>2. ASSUME NEW q \in Procs
      PROVE  /\ pending'[q].lease <= granted'
             /\ \A t \in Turns : exec'[t].lease = pending'[q].lease /\ exec'[t].lease # 0
                                   => exec'[t].proc = q
  <2>0. granted \in Nat /\ \A u \in Turns : exec[u].lease \in Nat /\ exec[u].lease <= granted
    BY Numbers DEF IInv, TableInv, LeasesAreFresh
  <2>1. CASE pending'[q] = pending[q]
    <3>1. pending[q].lease \in Nat
      BY BoundAssumption DEF IInv, TypeOK, Unsettling, NotPending, Leases
    <3>2. /\ pending[q].lease <= granted
          /\ \A t \in Turns : exec[t].lease = pending[q].lease /\ exec[t].lease # 0 => exec[t].proc = q
      BY DEF HolderInv, NotesAreOwn
    <3>. QED BY <2>0, <2>1, <3>1, <3>2
  <2>2. CASE pending'[q] = NotPending
    BY <2>0, <2>2 DEF NotPending
  <2>3. ASSUME NEW u \in Turns, pending'[q] = Settling(u), exec[u].proc = q
        PROVE  /\ pending'[q].lease <= granted'
               /\ \A t \in Turns : exec'[t].lease = pending'[q].lease /\ exec'[t].lease # 0
                                     => exec'[t].proc = q
    <3>1. pending'[q].lease = exec[u].lease
      BY <2>3 DEF Settling
    <3>2. \A t \in Turns : exec[t].lease = exec[u].lease /\ exec[t].lease # 0 => t = u
      BY DEF IInv, TableInv, LeasesAreFresh
    <3>. QED BY <2>0, <2>3, <3>1, <3>2
  <2>. QED BY <2>1, <2>2, <2>3
<1>3. NotesAreOwn'
  BY <1>2 DEF NotesAreOwn
<1>. QED BY <1>1, <1>3 DEF HolderInv

\* An admission writes the lock with a lease that nobody had, and its own process.
LEMMA AdmitHolds ==
  ASSUME IInv, HolderInv, NEW p \in Procs, NEW t \in Turns, NEW kind \in Running, Admit(p, t, kind)
  PROVE  HolderInv'
<1>0. granted \in Nat /\ \A u \in Turns : exec[u].lease \in Nat /\ exec[u].lease <= granted
  BY Numbers DEF IInv, TableInv, LeasesAreFresh
<1>1. /\ granted' = granted + 1 /\ lock'.owner = granted + 1 /\ lock'.proc = p
      /\ exec'[t].lease = granted + 1 /\ exec'[t].proc = p
      /\ \A u \in Turns : u # t => exec'[u] = exec[u]
  BY DEF Admit, Granted, IInv, TypeOK
<1>2. HolderRuns'
  BY <1>0, <1>1 DEF HolderRuns
<1>3. ASSUME NEW q \in Procs
      PROVE  /\ pending'[q].lease <= granted'
             /\ \A u \in Turns : exec'[u].lease = pending'[q].lease /\ exec'[u].lease # 0
                                   => exec'[u].proc = q
  <2>1. /\ pending[q].lease \in Nat /\ pending[q].lease <= granted
        /\ \A u \in Turns : exec[u].lease = pending[q].lease /\ exec[u].lease # 0 => exec[u].proc = q
    BY BoundAssumption DEF IInv, TypeOK, Unsettling, NotPending, Leases, HolderInv, NotesAreOwn
  <2>2. pending'[q] = pending[q] \/ pending'[q] = NotPending
    BY DEF Admit, IInv, TypeOK
  <2>3. CASE pending'[q] = pending[q]
    BY <1>0, <1>1, <2>1, <2>3
  <2>4. CASE pending'[q] = NotPending
    BY <1>0, <1>1, <2>4 DEF NotPending
  <2>. QED BY <2>2, <2>3, <2>4
<1>4. NotesAreOwn'
  BY <1>3 DEF NotesAreOwn
<1>. QED BY <1>2, <1>4 DEF HolderInv

\* The steps of a turn that is admitted.
LEMMA TurnHolds ==
  ASSUME IInv, HolderInv, NEW t \in Turns,
         \/ Register(t) \/ Rollback(t) \/ Renew(t) \/ AbortTurn(t) \/ SettleThrows(t)
         \/ \E outcome \in Outcomes : Settle(t, outcome)
  PROVE  HolderInv'
<1>1. /\ granted' = granted /\ granted \in Nat
      /\ \A u \in Turns : exec'[u].lease = exec[u].lease /\ exec'[u].proc = exec[u].proc
  <2>1. exec[t] \in Exec /\ exec \in [Turns -> Exec \cup {Idle}]
    BY Executing DEF Register, Rollback, Renew, AbortTurn, SettleThrows, Settle, IInv, TypeOK
  <2>2. exec' = exec \/ \E phase : exec' = [exec EXCEPT ![t].phase = phase]
    BY DEF Register, Rollback, Renew, AbortTurn, SettleThrows, Settle
  <2>3. granted' = granted /\ granted \in Nat
    BY Numbers DEF Register, Rollback, Renew, AbortTurn, SettleThrows, Settle, IInv
  <2>4. ASSUME NEW phase, exec' = [exec EXCEPT ![t].phase = phase], NEW u \in Turns
        PROVE  exec'[u].lease = exec[u].lease /\ exec'[u].proc = exec[u].proc
    BY <2>1, <2>4 DEF Exec
  <2>. QED BY <2>2, <2>3, <2>4
<1>2. lock'.kind \in OfTurn =>
        lock.kind \in OfTurn /\ lock'.owner = lock.owner /\ lock'.proc = lock.proc
  <2>1. CASE lock' = lock
    BY <2>1
  <2>2. CASE Rollback(t) \/ \E outcome \in Outcomes : Settle(t, outcome)
    <3>1. NoLock.kind \notin OfTurn /\ Released.kind \notin OfTurn
      BY ReleasedIsFree DEF IInv, OfTurn, Running, Deleting, NoLock
    <3>2. lock' = lock \/ lock' = NoLock \/ lock' = Released
      BY <2>2 DEF Rollback, Settle
    <3>. QED BY <3>1, <3>2
  <2>3. CASE Renew(t)
    <3>1. CASE lock' = [lock EXCEPT !.expires = now + LeaseMs]
      BY <3>1, LockRow DEF IInv, TypeOK, Lock, NoLock
    <3>. QED BY <2>3, <3>1 DEF Renew
  <2>. QED BY <2>1, <2>2, <2>3 DEF Register, AbortTurn, SettleThrows
<1>3. \A q \in Procs :
        \/ pending'[q] = pending[q] \/ pending'[q] = NotPending
        \/ \E u \in Turns : pending'[q] = Settling(u) /\ exec[u].proc = q
  BY DEF Register, Rollback, Renew, AbortTurn, SettleThrows, Settle, IInv, TypeOK
<1>. QED BY <1>1, <1>2, <1>3, HolderStays

\* The other steps leave the executions alone; they take a turn's lock or keep
\* it, and grant none to a turn.
LEMMA OthersHold ==
  ASSUME IInv, HolderInv, UNCHANGED exec,
         granted' = granted \/ granted' = granted + 1,
         lock'.kind \in OfTurn =>
           lock.kind \in OfTurn /\ lock'.owner = lock.owner /\ lock'.proc = lock.proc,
         \A q \in Procs : pending'[q] = pending[q] \/ pending'[q] = NotPending
  PROVE  HolderInv'
<1>1. granted \in Nat /\ granted' \in Nat /\ granted <= granted'
  BY Numbers DEF IInv
<1>. QED BY <1>1, HolderStays

LEMMA RejectionHolds ==
  ASSUME IInv, HolderInv, NEW p \in Procs, AdmitGated(p) \/ AdmitRejected(p)
  PROVE  HolderInv'
<1>1. UNCHANGED <<exec, granted>> /\ \A q \in Procs : pending'[q] = pending[q] \/ pending'[q] = NotPending
  BY DEF AdmitGated, AdmitRejected, IInv, TypeOK
<1>2. lock' = lock \/ lock'.kind \notin OfTurn
  BY RecoveryCloses DEF AdmitGated, AdmitRejected
<1>. QED BY <1>1, <1>2, OthersHold

LEMMA MaintenanceHolds ==
  ASSUME IInv, HolderInv, MaintenanceStep
  PROVE  HolderInv'
<1>1. PICK p \in Procs : AcquireMaintenance(p) \/ RenewMaintenance(p) \/ ReleaseMaintenance(p)
  BY DEF MaintenanceStep
<1>2. UNCHANGED <<exec, pending>> /\ (granted' = granted \/ granted' = granted + 1)
  BY <1>1 DEF AcquireMaintenance, RenewMaintenance, ReleaseMaintenance
<1>3. lock' = lock \/ lock'.kind \notin OfTurn
  <2>1. CASE AcquireMaintenance(p)
    BY <2>1 DEF AcquireMaintenance, Granted, OfTurn, Running, Deleting
  <2>2. CASE RenewMaintenance(p)
    <3>1. lock'.kind = lock.kind
      BY <2>2, LockRow DEF RenewMaintenance, IInv, TypeOK, Lock, NoLock
    <3>. QED BY <2>2, <3>1 DEF RenewMaintenance, OfTurn, Running, Deleting, Maintained
  <2>3. CASE ReleaseMaintenance(p)
    BY <2>3, ReleasedIsFree DEF ReleaseMaintenance, IInv, OfTurn, Running, Deleting
  <2>. QED BY <1>1, <2>1, <2>2, <2>3
<1>. QED BY <1>2, <1>3, OthersHold

\* A deletion that finds a turn waits behind its lock, which stays the turn's.
LEMMA FenceHolds ==
  ASSUME IInv, HolderInv, NEW p \in Procs, RaiseFence(p)
  PROVE  HolderInv'
<1>1. UNCHANGED <<exec, granted>> /\ \A q \in Procs : pending'[q] = pending[q] \/ pending'[q] = NotPending
  BY DEF RaiseFence, IInv, TypeOK
<1>2. PICK lk \in Lock \cup {NoLock} : lk = FoundLock(p)
  BY FoundIsInStep
<1>3. lk = lock \/ lk.kind \in {"none", "session-deletion"}
  BY <1>2, FoundIsInStep
<1>4. lock' = lock \/ lock' = Fence(p) \/ lock' = lk \/ lock' = [lk EXCEPT !.kind = Waits(lk.kind)]
  BY <1>2 DEF RaiseFence
<1>5. lock' = [lk EXCEPT !.kind = Waits(lk.kind)] =>
        lock'.kind \notin OfTurn \/ lk.kind \in OfTurn
  BY DEF Waits, OfTurn, Running, Deleting, Lock, NoLock
<1>6. lock' = [lk EXCEPT !.kind = Waits(lk.kind)] => lock'.owner = lk.owner /\ lock'.proc = lk.proc
  BY DEF Lock, NoLock
<1>7. Fence(p).kind \notin OfTurn /\ (lk.kind \in {"none", "session-deletion"} => lk.kind \notin OfTurn)
  BY DEF Fence, OfTurn, Running, Deleting
<1>8. lock'.kind \in OfTurn =>
        lock.kind \in OfTurn /\ lock'.owner = lock.owner /\ lock'.proc = lock.proc
  BY <1>3, <1>4, <1>5, <1>6, <1>7
<1>. QED BY <1>1, <1>8, OthersHold

LEMMA HolderNext == IInv /\ HolderInv /\ [Next]_vars => HolderInv'
<1>. SUFFICES ASSUME IInv, HolderInv, [Next]_vars PROVE HolderInv'
  OBVIOUS
<1>1. CASE TurnStep
  BY <1>1, RejectionHolds, AdmitHolds, TurnHolds DEF TurnStep
<1>2. CASE MaintenanceStep
  BY <1>2, MaintenanceHolds
<1>3. CASE DeletionStep
  <2>1. ASSUME NEW p \in Procs, NEW ok \in BOOLEAN,
               CloseGate(p) \/ CheckQuiescent(p) \/ EraseData(p) \/ LowerFence(p) \/ Cleanup(p, ok)
        PROVE  HolderInv'
    <3>1. UNCHANGED <<exec, granted>> /\ \A q \in Procs : pending'[q] = pending[q] \/ pending'[q] = NotPending
      BY <2>1 DEF CloseGate, CheckQuiescent, EraseData, LowerFence, Cleanup, IInv, TypeOK
    <3>2. lock' = lock \/ lock' = NoLock
      BY <2>1 DEF CloseGate, CheckQuiescent, EraseData, LowerFence, Cleanup
    <3>3. NoLock.kind \notin OfTurn
      BY DEF NoLock, OfTurn, Running, Deleting
    <3>. QED BY <3>1, <3>2, <3>3, OthersHold
  <2>. QED BY <1>3, <2>1, FenceHolds DEF DeletionStep
<1>4. CASE ProcessStep
  <2>1. UNCHANGED <<exec, granted>> /\ \A q \in Procs : pending'[q] = pending[q] \/ pending'[q] = NotPending
    BY <1>4 DEF ProcessStep, Tick, Start, Exit, RecoverRestart, IInv, TypeOK
  <2>2. lock' = lock \/ lock'.kind \notin OfTurn
    BY <1>4 DEF ProcessStep, Tick, Start, Exit, RecoverRestart, Fence, NoLock, OfTurn, Running, Deleting
  <2>. QED BY <2>1, <2>2, OthersHold
<1>5. CASE UNCHANGED vars
  BY <1>5, OthersHold DEF vars
<1>. QED BY <1>1, <1>2, <1>3, <1>4, <1>5 DEF Next

\* Where a process settles what it still owes, the lock is its own.
LEMMA OwesItsOwn ==
  ASSUME IInv, HolderInv, NEW p \in Procs, Unsettled(p), lock.kind \in OfTurn
  PROVE  lock.proc = p /\ pending[lock.proc].lease = lock.owner
<1>1. PICK t \in Accepted : lock.owner = exec[t].lease
  BY DEF IInv, TableInv, LockMatchesReceipt, OfTurn
<1>2. t \in Turns /\ exec[t].lease # 0
  BY DEF Accepted, IInv, TableInv, LeasesAreFresh
<1>. QED BY <1>1, <1>2 DEF Unsettled, HolderInv, HolderRuns, NotesAreOwn

\* Of the locks that change hands while their owner lives and its lease runs.
LEMMA OnlyTheHolder ==
  ASSUME IInv, HolderInv, Next, lock.kind \in OfTurn, ~Expired, lock.proc \in Up,
         lock'.owner # lock.owner
  PROVE  \/ \E t \in Turns : /\ exec[t].lease = lock.owner /\ exec[t].proc = lock.proc
                             /\ exec[t].phase # "done" /\ exec'[t].phase = "done"
         \/ /\ pending[lock.proc].lease = lock.owner
            /\ pending'[lock.proc] = NotPending
<1>0. /\ lock # NoLock /\ lock.kind \notin {"none", "session-deletion"} \cup Maintained
      /\ lock \in Lock /\ lock' # lock /\ lock.proc \in Procs
  BY LockRow DEF OfTurn, Running, Deleting, Maintained, IInv, TypeOK, NoLock, Up
<1>1. ASSUME NEW p \in Procs, Unsettled(p), pending' = [pending EXCEPT ![p] = NotPending]
      PROVE  pending[lock.proc].lease = lock.owner /\ pending'[lock.proc] = NotPending
  BY <1>0, <1>1, OwesItsOwn DEF IInv, TypeOK
<1>2. ASSUME NEW t \in Turns, lock.owner = exec[t].lease,
             In(t, {"admitted"}) \/ In(t, {"failing", "running", "aborted"}),
             exec' = [exec EXCEPT ![t].phase = "done"]
      PROVE  /\ exec[t].lease = lock.owner /\ exec[t].proc = lock.proc
             /\ exec[t].phase # "done" /\ exec'[t].phase = "done"
  BY <1>2, Executing DEF HolderInv, HolderRuns, In, IInv, TypeOK, Exec
<1>3. CASE TurnStep
  <2>1. ASSUME NEW p \in Procs, AdmitRejected(p) \/ \E t \in Turns, kind \in Running : Admit(p, t, kind)
        PROVE  pending[lock.proc].lease = lock.owner /\ pending'[lock.proc] = NotPending
    <3>1. pending' = [pending EXCEPT ![p] = NotPending]
      BY <2>1 DEF AdmitRejected, Admit
    <3>2. Unsettled(p)
      BY <1>0, <2>1 DEF AdmitRejected, Admit, Recovers, RecoveredLock
    <3>. QED BY <1>1, <3>1, <3>2
  <2>2. ASSUME NEW t \in Turns, Rollback(t) \/ \E outcome \in Outcomes : Settle(t, outcome)
        PROVE  /\ exec[t].lease = lock.owner /\ exec[t].proc = lock.proc
               /\ exec[t].phase # "done" /\ exec'[t].phase = "done"
    BY <1>0, <1>2, <2>2 DEF Rollback, Settle, Holds
  <2>3. ASSUME NEW t \in Turns, Renew(t)
        PROVE  FALSE
    BY <1>0, <2>3 DEF Renew, Lock
  <2>. QED BY <1>0, <1>3, <2>1, <2>2, <2>3 DEF TurnStep, AdmitGated, Register, AbortTurn, SettleThrows
<1>4. ~MaintenanceStep
  BY <1>0 DEF MaintenanceStep, AcquireMaintenance, RenewMaintenance, ReleaseMaintenance
<1>5. CASE DeletionStep
  <2>1. ASSUME NEW p \in Procs, RaiseFence(p)
        PROVE  pending[lock.proc].lease = lock.owner /\ pending'[lock.proc] = NotPending
    <3>1. pending' = [pending EXCEPT ![p] = NotPending]
      BY <1>0, <2>1 DEF RaiseFence
    <3>2. ASSUME ~Unsettled(p) PROVE FALSE
      <4>1. FoundLock(p) = lock
        BY <3>2 DEF FoundLock, LapsedTurn, LapsedMaint
      <4>2. lock' = lock \/ lock' = [lock EXCEPT !.kind = Waits(lock.kind)]
        BY <1>0, <2>1, <4>1 DEF RaiseFence
      <4>. QED BY <1>0, <4>2 DEF Lock
    <3>. QED BY <1>1, <3>1, <3>2
  <2>. QED BY <1>0, <1>5, <2>1 DEF DeletionStep, CloseGate, CheckQuiescent, EraseData, LowerFence, Cleanup
<1>6. ~ProcessStep
  BY <1>0 DEF ProcessStep, Tick, Start, Exit, RecoverRestart
<1>. QED BY <1>3, <1>4, <1>5, <1>6 DEF Next

\* A turn whose process lives and whose lease has not lapsed loses the session by
\* nobody's doing but its process's own: no recovery, no other admission, no
\* maintenance and no deletion takes the lock from it.
THEOREM OnlyItsProcessEndsIt == Spec => LiveLeaseIsRespected
<1>1. Init => HolderInv
  BY DEF Init, HolderInv, HolderRuns, NotesAreOwn, Idle, NotPending, NoLock, OfTurn, Running, Deleting
<1>2. Spec => []HolderInv
  BY <1>1, HolderNext, TablesInStep, PTL DEF Spec
<1>3. IInv /\ HolderInv /\ [Next]_vars =>
        [lock.kind \in Running \cup Deleting /\ ~Expired /\ lock.proc \in Up
           /\ lock'.owner # lock.owner
         => \/ \E t \in Turns : /\ exec[t].lease = lock.owner /\ exec[t].proc = lock.proc
                                /\ exec[t].phase # "done" /\ exec'[t].phase = "done"
            \/ /\ pending[lock.proc].lease = lock.owner
               /\ pending'[lock.proc] = NotPending]_vars
  BY OnlyTheHolder DEF OfTurn
<1>. QED BY <1>2, <1>3, TablesInStep, PTL DEF Spec, LiveLeaseIsRespected
=============================================================================
