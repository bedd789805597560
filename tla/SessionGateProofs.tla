-------------------------- MODULE SessionGateProofs --------------------------
(***************************************************************************)
(* Proofs about SessionGate, for any number and mix of operations and any  *)
(* bounds: the gate counts its permits, a hand-off and a deletion work     *)
(* alone once they are past their drain, a stopped submission never        *)
(* becomes a turn, and a pending drain has somebody who ends it.           *)
(***************************************************************************)
EXTENDS SessionGate, FiniteSetTheorems, TLAPS

\* Where a deletion is at work, has raised its fence, is past its drain.
Deleting == {"raise", "drain", "abort", "erase", "lower"}
Fencing  == Deleting \ {"raise"}
Drained  == {"abort", "erase", "lower"}

\* Where an operation has the lock row, and where a hand-off has seen the old
\* turn go.
Holding    == {"commit", "accept", "register", "revoke", "failing", "maintain", "starting",
               "host", "settle"}
Overtaking == Takeover \ {"replay", "yield"}

\* The gate: what its count, its holder and its promises say of the operations.
GateInv ==
  /\ PermitsBalance /\ DrainsAreOwed /\ StoppedNeverRuns
  /\ mutation # None => /\ kind[mutation] \in Exclusive /\ at[mutation] \in Working
                        /\ mutation \notin stopped
  /\ \A o \in Ops : kind[o] \in Exclusive /\ at[o] \in Working => mutation = o \/ o \in stopped
  /\ \A o \in Ops : /\ kind[o] = "handoff" /\ o \notin stopped
                    /\ at[o] \in Takeover \/ (at[o] \in {"check", "drain"} /\ o \notin sharedDrain)
                    => active = 0
  /\ \A o \in stopped : at[o] # "new"
  /\ saga \in Deleting => deleting
  /\ saga \in Drained \/ (saga \in Deleting /\ ~fullDrain) => Quiet(active, mutation)

\* The turns: who has the lock row, and what hand-offs and deletions know of it.
TurnInv ==
  /\ \A o \in Ops : at[o] \in Holding => lock = o
  /\ saga \in Deleting => closing
  /\ saga \in Fencing => fenced
  /\ saga \in {"erase", "lower"} => lock = None /\ entry = None
  /\ \A o \in Ops : kind[o] = "handoff" /\ at[o] \in Overtaking /\ o \notin stopped =>
       entry = None \/ kind[entry] = "trusted"

\* The bounds are numbers, and a mix gives every operation a kind.
LEMMA Bounds == N \in Nat /\ MaxStops \in Nat /\ MaxDeletes \in Nat /\ Mixes \subseteq [Ops -> Kinds]
BY GateAssumption

\* No operation is None, and any set of operations is finite.
LEMMA OpsAreFinite ==
  /\ None \notin Ops
  /\ \A S \in SUBSET Ops : IsFiniteSet(S) /\ Cardinality(S) \in Nat
<1>1. None \notin Ops
  BY Bounds DEF None, Ops
<1>2. IsFiniteSet(Ops)
  BY Bounds, FS_Interval DEF Ops
<1>3. ASSUME NEW S \in SUBSET Ops PROVE IsFiniteSet(S) /\ Cardinality(S) \in Nat
  BY <1>2, <1>3, FS_Subset, FS_CardinalityType
<1>. QED BY <1>1, <1>3

\* Settling the gate may resolve the promise of a block, and never makes one.
LEMMA PromiseEnds ==
  ASSUME TypeOK,
         fullDrain' = fullDrain \/ fullDrain' = (fullDrain /\ ~Quiet(active', mutation'))
  PROVE  fullDrain' \in BOOLEAN /\ (fullDrain' => fullDrain)
<1>1. fullDrain \in BOOLEAN
  BY DEF TypeOK
<1>2. CASE fullDrain' = fullDrain
  BY <1>1, <1>2
<1>3. CASE fullDrain' = (fullDrain /\ ~Quiet(active', mutation'))
  <2>1. fullDrain' => fullDrain
    BY <1>3
  <2>2. (fullDrain /\ ~Quiet(active', mutation')) \in BOOLEAN
    BY <1>1
  <2>. QED BY <1>3, <2>1, <2>2, Zenon
<1>. QED BY <1>2, <1>3

\* The program starts in the invariant.
LEMMA InitInv == Init => TypeOK /\ GateInv /\ TurnInv
<1>. SUFFICES ASSUME Init PROVE TypeOK /\ GateInv /\ TurnInv
  OBVIOUS
<1>1. TypeOK
  <2>1. kind \in [Ops -> Kinds] /\ at \in [Ops -> Places]
    BY Bounds DEF Init, Places
  <2>2. stops \in 0 .. MaxStops /\ deletes \in 0 .. MaxDeletes
    BY Bounds DEF Init
  <2>. QED BY <2>1, <2>2 DEF Init, TypeOK, NoStop
<1>2. Inside = {}
  BY DEF Init, Inside, Working, Takeover
<1>3. GateInv
  BY <1>2, FS_EmptySet
  DEF Init, GateInv, PermitsBalance, DrainsAreOwed, StoppedNeverRuns, Working, Takeover,
      Deleting, Drained
<1>4. TurnInv
  BY DEF Init, TurnInv, Holding, Overtaking, Takeover, Deleting, Fencing
<1>. QED BY <1>1, <1>3, <1>4

-----------------------------------------------------------------------------
(* Steps of an operation, as the gate sees them: it moves on, or it leaves.*)

MoveStep(o, p) ==
  /\ at' = [at EXCEPT ![o] = p] /\ p \in Places \ {"new"}
  /\ kind[o] # "trusted" => (p \in Working <=> at[o] \in Working)
  /\ p \in Running => at[o] \in Running
  /\ p \in {"check", "drain"} /\ kind[o] = "handoff" => at[o] = "check"
  /\ p \in Takeover /\ kind[o] = "handoff" /\ o \notin stopped =>
       at[o] \in Takeover \/ (at[o] = "drain" /\ o \notin sharedDrain)
  /\ UNCHANGED <<kind, gate, stopped, saga>>

ExitStep(o, p) ==
  /\ at' = [at EXCEPT ![o] = p] /\ p \in {"done", "failing", "starting", "host"}
  /\ o \in stopped => p \notin Running
  /\ at[o] \in Working /\ Leaves(o)
  /\ UNCHANGED <<kind, deleting, stopped, saga>>

\* Who is inside after an operation has gone from one place to another.
LEMMA InsideMoves ==
  ASSUME TypeOK, NEW o \in Ops, NEW p, at' = [at EXCEPT ![o] = p], kind' = kind
  PROVE  Inside' = IF kind[o] \in Shared /\ p \in Working THEN Inside \cup {o} ELSE Inside \ {o}
BY DEF TypeOK, Inside

\* Such a move keeps the gate's invariant.
LEMMA MoveKeeps ==
  ASSUME TypeOK, GateInv, NEW o \in Ops, NEW p, MoveStep(o, p)
  PROVE  GateInv'
<1>1. Inside' = Inside
  <2>1. kind[o] \in Shared => (p \in Working <=> o \in Inside)
    BY DEF MoveStep, Inside, Shared
  <2>2. kind[o] \notin Shared => o \notin Inside
    BY DEF Inside
  <2>3. Inside' = IF kind[o] \in Shared /\ p \in Working THEN Inside \cup {o} ELSE Inside \ {o}
    BY InsideMoves DEF MoveStep
  <2>4. CASE o \in Inside
    BY <2>1, <2>2, <2>3, <2>4
  <2>5. CASE o \notin Inside
    BY <2>1, <2>3, <2>5
  <2>. QED BY <2>4, <2>5
<1>2. PermitsBalance' /\ DrainsAreOwed' /\ StoppedNeverRuns'
  BY <1>1 DEF GateInv, MoveStep, PermitsBalance, DrainsAreOwed, StoppedNeverRuns, TypeOK, gate, Quiet
<1>3. mutation' # None => /\ kind'[mutation'] \in Exclusive /\ at'[mutation'] \in Working
                          /\ mutation' \notin stopped'
  BY DEF GateInv, MoveStep, TypeOK, gate, Exclusive
<1>4. \A q \in Ops : kind'[q] \in Exclusive /\ at'[q] \in Working => mutation' = q \/ q \in stopped'
  BY DEF GateInv, MoveStep, TypeOK, gate, Exclusive
<1>5. \A q \in Ops : /\ kind'[q] = "handoff" /\ q \notin stopped'
                     /\ \/ at'[q] \in Takeover
                        \/ at'[q] \in {"check", "drain"} /\ q \notin sharedDrain'
                     => active' = 0
  BY DEF GateInv, MoveStep, TypeOK, gate
<1>6. /\ \A q \in stopped' : at'[q] # "new"
      /\ saga' \in Deleting => deleting'
      /\ saga' \in Drained \/ (saga' \in Deleting /\ ~fullDrain') => Quiet(active', mutation')
  BY DEF GateInv, MoveStep, gate, TypeOK
<1>. QED BY <1>2, <1>3, <1>4, <1>5, <1>6 DEF GateInv

\* So does a release, and the gate keeps its types.
LEMMA ExitKeeps ==
  ASSUME TypeOK, GateInv, NEW o \in Ops, NEW p, ExitStep(o, p)
  PROVE  /\ GateInv' /\ active' \in Nat /\ mutation' \in Ops \cup {None}
         /\ sharedDrain' \subseteq Ops /\ fullDrain' \in BOOLEAN
<1>0. p \notin Working /\ None \notin Ops /\ Inside \in SUBSET Ops
  BY OpsAreFinite DEF ExitStep, Working, Takeover, Inside
<1>1. Inside' = Inside \ {o}
  BY <1>0, InsideMoves DEF ExitStep
<1>2. IsFiniteSet(Inside) /\ Cardinality(Inside) \in Nat
  BY <1>0, OpsAreFinite
<1>3. Cardinality(Inside') = IF o \in Inside THEN Cardinality(Inside) - 1 ELSE Cardinality(Inside)
  BY <1>1, <1>2, FS_RemoveElement
<1>4. o \in Inside <=> kind[o] \in Shared
  BY DEF Inside, ExitStep
<1>5. active' = Cardinality(Inside') /\ active' \in Nat
  <2>1. CASE kind[o] \in Shared
    <3>1. Cardinality(Inside) # 0
      BY <1>2, <1>4, <2>1, FS_EmptySet
    <3>. QED BY <1>2, <1>3, <1>4, <2>1, <3>1 DEF ExitStep, Leaves, SettleGate, GateInv, PermitsBalance
  <2>2. CASE kind[o] \notin Shared
    BY <1>2, <1>3, <1>4, <2>2 DEF ExitStep, Leaves, SettleGate, GateInv, PermitsBalance
  <2>. QED BY <2>1, <2>2
<1>6. /\ mutation' = IF mutation = o THEN None ELSE mutation
      /\ active' = 0 \/ sharedDrain' = sharedDrain
      /\ sharedDrain' = {} \/ sharedDrain' = sharedDrain
      /\ fullDrain' => fullDrain
      /\ fullDrain' \in BOOLEAN
  <2>1. kind[o] \in Shared => mutation # o
    BY <1>0 DEF GateInv, Shared, Exclusive
  <2>2. fullDrain' \in BOOLEAN /\ (fullDrain' => fullDrain)
    BY PromiseEnds DEF ExitStep, Leaves, SettleGate
  <2>. QED BY <1>0, <2>1, <2>2 DEF ExitStep, Leaves, SettleGate
<1>7. active' <= active /\ (active' # active => o \in Inside)
  BY <1>2, <1>3, <1>5 DEF GateInv, PermitsBalance
<1>8. DrainsAreOwed'
  BY <1>2, <1>3, <1>5 DEF ExitStep, Leaves, SettleGate, GateInv, DrainsAreOwed
<1>9. PermitsBalance' /\ StoppedNeverRuns'
  BY <1>5 DEF ExitStep, GateInv, PermitsBalance, StoppedNeverRuns, TypeOK
<1>10. mutation' # None => /\ kind'[mutation'] \in Exclusive /\ at'[mutation'] \in Working
                           /\ mutation' \notin stopped'
  BY <1>6 DEF GateInv, ExitStep, TypeOK
<1>11. \A q \in Ops : kind'[q] \in Exclusive /\ at'[q] \in Working => mutation' = q \/ q \in stopped'
  BY <1>0, <1>6 DEF GateInv, ExitStep, TypeOK
<1>12. \A q \in Ops : /\ kind'[q] = "handoff" /\ q \notin stopped'
                      /\ \/ at'[q] \in Takeover
                         \/ at'[q] \in {"check", "drain"} /\ q \notin sharedDrain'
                      => active' = 0
  <2>. SUFFICES ASSUME NEW q \in Ops, kind'[q] = "handoff", q \notin stopped', active' # 0,
                       \/ at'[q] \in Takeover
                       \/ at'[q] \in {"check", "drain"} /\ q \notin sharedDrain'
                PROVE  FALSE
    OBVIOUS
  <2>1. q # o
    BY <1>0 DEF ExitStep, Working, TypeOK
  <2>2. at[q] = at'[q] /\ kind[q] = "handoff" /\ q \notin stopped /\ sharedDrain' = sharedDrain
    BY <1>6, <2>1 DEF ExitStep, TypeOK
  <2>3. active = 0
    BY <2>2 DEF GateInv
  <2>. QED BY <1>5, <1>7, <2>3
<1>13. (\A q \in stopped' : at'[q] # "new") /\ (saga' \in Deleting => deleting')
  BY DEF GateInv, ExitStep, TypeOK
<1>14. saga' \in Drained \/ (saga' \in Deleting /\ ~fullDrain') => Quiet(active', mutation')
  <2>1. CASE saga \in Drained \/ (saga \in Deleting /\ ~fullDrain)
    <3>1. active = 0 /\ mutation = None
      BY <2>1 DEF GateInv, Quiet
    <3>. QED BY <1>5, <1>6, <1>7, <3>1 DEF Quiet
  <2>2. CASE saga \in Deleting \ Drained /\ fullDrain
    BY <1>0, <2>2 DEF ExitStep, Leaves, SettleGate, Deleting, Drained, TypeOK
  <2>. QED BY <2>1, <2>2 DEF ExitStep, Drained, Deleting
<1>. QED BY <1>5, <1>6, <1>8, <1>9, <1>10, <1>11, <1>12, <1>13, <1>14 DEF GateInv, TypeOK

-----------------------------------------------------------------------------
(* The same steps, as the turns see them.                                  *)

TurnStep(o, p) ==
  /\ at' = [at EXCEPT ![o] = p]
  /\ p \in Holding => lock' = o
  /\ \/ lock' = lock
     \/ lock = None /\ lock' = o /\ ~Refused
     \/ lock = o /\ lock' = None
  /\ kind[o] = "handoff" /\ p \in Overtaking => at[o] \in Overtaking \/ entry = None
  /\ entry' \in {entry, None}
  /\ UNCHANGED <<kind, stopV, delV>>

Registers(o, p) ==
  /\ at[o] = "register" /\ o \notin stopped /\ entry = None
  /\ at' = [at EXCEPT ![o] = p] /\ p \in {"starting", "host"}
  /\ entry' = o
  /\ UNCHANGED <<kind, lock, stopV, delV>>

\* What an operation does, but for its beginning.
OpStep(o) ==
  \E p \in Places : /\ MoveStep(o, p) \/ ExitStep(o, p)
                    /\ TurnStep(o, p) \/ Registers(o, p)
                    /\ aborted' \in BOOLEAN

\* A step that registers nothing keeps the turns' invariant: whoever takes the lock
\* row found it free and no fence up.
LEMMA TurnKeeps ==
  ASSUME TypeOK, TurnInv, NEW o \in Ops, NEW p, TurnStep(o, p)
  PROVE  TurnInv'
<1>0. None \notin Ops
  BY OpsAreFinite
<1>1. \A q \in Ops : at'[q] \in Holding => lock' = q
  BY <1>0 DEF TypeOK, TurnInv, TurnStep
<1>2. (saga' \in Deleting => closing') /\ (saga' \in Fencing => fenced')
  BY DEF TurnInv, TurnStep, delV
<1>3. saga' \in {"erase", "lower"} => lock' = None /\ entry' = None
  BY <1>0 DEF TurnInv, TurnStep, delV, Refused, Fencing, Deleting
<1>4. \A q \in Ops : kind'[q] = "handoff" /\ at'[q] \in Overtaking /\ q \notin stopped' =>
        entry' = None \/ kind'[entry'] = "trusted"
  BY DEF TypeOK, TurnInv, TurnStep, stopV
<1>. QED BY <1>1, <1>2, <1>3, <1>4 DEF TurnInv

\* So does a registration: while a hand-off overtakes, nobody is inside the gate,
\* and the hand-off holds the lease, so that only a trusted turn can come.
LEMMA RegistrationKeeps ==
  ASSUME TypeOK, GateInv, TurnInv, NEW o \in Ops, NEW p, Registers(o, p)
  PROVE  TurnInv'
<1>0. None \notin Ops /\ Inside \in SUBSET Ops
  BY OpsAreFinite DEF Inside
<1>1. lock = o /\ lock' = o
  BY DEF TurnInv, Registers, Holding
<1>2. \A q \in Ops : at'[q] \in Holding => lock' = q
  BY <1>1 DEF TypeOK, TurnInv, Registers
<1>3. (saga' \in Deleting => closing') /\ (saga' \in Fencing => fenced')
  BY DEF TurnInv, Registers, delV
<1>4. saga' \notin {"erase", "lower"}
  BY <1>0, <1>1 DEF TurnInv, Registers, delV
<1>5. ASSUME NEW q \in Ops, kind'[q] = "handoff", at'[q] \in Overtaking, q \notin stopped'
      PROVE  kind'[entry'] = "trusted"
  <2>1. q # o
    BY <1>5 DEF Registers, Overtaking, Takeover, TypeOK
  <2>2. kind[q] = "handoff" /\ at[q] \in Takeover /\ at[q] \in Working /\ q \notin stopped
    BY <1>5, <2>1 DEF Registers, Overtaking, Working, TypeOK, stopV
  <2>3. mutation = q /\ active = 0
    BY <2>2 DEF GateInv, Exclusive
  <2>4. o \notin Inside
    BY <1>0, <2>3, OpsAreFinite, FS_EmptySet DEF GateInv, PermitsBalance
  <2>5. at[o] \in Working /\ o \notin stopped
    BY DEF Registers, Working, Takeover
  <2>6. kind[o] \notin Shared /\ kind[o] \notin Exclusive
    BY <2>1, <2>3, <2>4, <2>5 DEF GateInv, Inside
  <2>7. kind[o] \in Kinds
    BY DEF TypeOK
  <2>. QED BY <2>6, <2>7 DEF Registers, Kinds, Shared, Exclusive
<1>. QED BY <1>2, <1>3, <1>4, <1>5 DEF TurnInv

\* Every step of an operation after its beginning keeps the whole invariant.
LEMMA OpStepKeeps ==
  ASSUME TypeOK, GateInv, TurnInv, NEW o \in Ops, OpStep(o)
  PROVE  TypeOK' /\ GateInv' /\ TurnInv'
<1>. PICK p \in Places : /\ MoveStep(o, p) \/ ExitStep(o, p)
                         /\ TurnStep(o, p) \/ Registers(o, p)
                         /\ aborted' \in BOOLEAN
  BY DEF OpStep
<1>1. /\ GateInv' /\ active' \in Nat /\ mutation' \in Ops \cup {None}
      /\ sharedDrain' \subseteq Ops /\ fullDrain' \in BOOLEAN /\ deleting' \in BOOLEAN
  <2>1. CASE MoveStep(o, p)
    BY <2>1, MoveKeeps DEF MoveStep, gate, TypeOK
  <2>2. CASE ExitStep(o, p)
    BY <2>2, ExitKeeps DEF ExitStep, TypeOK
  <2>. QED BY <2>1, <2>2
<1>2. TurnInv'
  BY TurnKeeps, RegistrationKeeps
<1>3. kind' \in [Ops -> Kinds] /\ at' \in [Ops -> Places]
  BY DEF TypeOK, TurnStep, Registers
<1>4. lock' \in Ops \cup {None} /\ entry' \in Ops \cup {None}
  BY DEF TypeOK, TurnStep, Registers
<1>5. UNCHANGED <<stopV, delV>>
  BY DEF TurnStep, Registers
<1>. QED BY <1>1, <1>2, <1>3, <1>4, <1>5 DEF TypeOK, stopV, delV

-----------------------------------------------------------------------------
(* What every action does is such a step.                                  *)

\* An operation that gives up leaves the gate and takes no lock row.
LEMMA QuitsIsAStep ==
  ASSUME TypeOK, NEW o \in Ops, at[o] \in Working, Quits(o),
         UNCHANGED <<kind, deleting, stopV, delV>>
  PROVE  OpStep(o)
<1>1. ExitStep(o, "done")
  BY DEF Quits, Ends, ExitStep, Running, stopV, delV
<1>2. TurnStep(o, "done")
  BY DEF Quits, Ends, TurnStep, Holding, Overtaking, Takeover, turns
<1>3. "done" \in Places /\ aborted' \in BOOLEAN
  BY DEF Places, Quits, turns, TypeOK
<1>. QED BY <1>1, <1>2, <1>3 DEF OpStep

\* One that fails after its admission keeps the row until the turn is settled.
LEMMA FailsIsAStep ==
  ASSUME TypeOK, TurnInv, NEW o \in Ops, at[o] \in Working, at[o] \in Holding, Fails(o),
         UNCHANGED <<kind, deleting, stopV, delV>>
  PROVE  OpStep(o)
<1>1. ExitStep(o, "failing")
  BY DEF Fails, Goes, ExitStep, Running, stopV, delV
<1>2. TurnStep(o, "failing")
  BY DEF Fails, Goes, TurnStep, TurnInv, Overtaking, Takeover, turns
<1>3. "failing" \in Places /\ aborted' \in BOOLEAN
  BY DEF Places, Fails, turns, TypeOK
<1>. QED BY <1>1, <1>2, <1>3 DEF OpStep

\* A move that touches neither the gate nor the turns.
LEMMA GoesIsAStep ==
  ASSUME TypeOK, TurnInv, NEW o \in Ops, NEW p \in Places \ {"new"}, Goes(o, p),
         UNCHANGED <<kind, gate, lock, entry, stopV, delV>>, aborted' \in BOOLEAN,
         kind[o] # "trusted" => (p \in Working <=> at[o] \in Working),
         p \in Running => at[o] \in Running,
         p \in {"check", "drain"} /\ kind[o] = "handoff" => at[o] = "check",
         p \in Takeover /\ kind[o] = "handoff" /\ o \notin stopped =>
           at[o] \in Takeover \/ (at[o] = "drain" /\ o \notin sharedDrain),
         p \in Holding => at[o] \in Holding,
         kind[o] = "handoff" /\ p \in Overtaking => at[o] \in Overtaking \/ entry = None
  PROVE  OpStep(o)
<1>1. MoveStep(o, p)
  BY DEF Goes, MoveStep, stopV, delV
<1>2. TurnStep(o, p)
  BY DEF Goes, TurnStep, TurnInv
<1>. QED BY <1>1, <1>2 DEF OpStep

\* Before the admission.
LEMMA WaysIn ==
  ASSUME TypeOK, GateInv, TurnInv, NEW o \in Ops,
         Check(o) \/ Drain(o) \/ Interrupt(o) \/ Yielded(o) \/ Prepare(o)
  PROVE  OpStep(o)
<1>. USE DEF Working, Takeover, Running, Holding, Overtaking
<1>1. CASE Check(o)
  <2>1. CASE Quits(o)
    BY <1>1, <2>1, QuitsIsAStep DEF Check
  <2>2. CASE ~Refused
    BY <1>1, <2>2, GoesIsAStep DEF Check, Places, turns, gate, TypeOK
  <2>. QED BY <1>1, <2>1, <2>2 DEF Check
<1>2. CASE Drain(o)
  <2>1. CASE Quits(o)
    BY <1>2, <2>1, QuitsIsAStep DEF Drain
  <2>2. CASE o \notin sharedDrain /\ ~Stopped(o) /\ Goes(o, "replay") /\ UNCHANGED <<gate, turns>>
    BY <1>2, <2>2, GoesIsAStep DEF Drain, Places, turns, gate, TypeOK
  <2>. QED BY <1>2, <2>1, <2>2 DEF Drain
<1>3. CASE Interrupt(o)
  <2>1. CASE Quits(o)
    BY <1>3, <2>1, QuitsIsAStep DEF Interrupt
  <2>2. CASE entry = None /\ Goes(o, "recheck") /\ UNCHANGED <<gate, turns>>
    BY <1>3, <2>2, GoesIsAStep DEF Interrupt, Places, turns, gate, TypeOK
  <2>3. CASE Goes(o, "yield") /\ aborted' = TRUE /\ UNCHANGED <<gate, lock, entry>>
    BY <1>3, <2>3, GoesIsAStep DEF Interrupt, Places, gate
  <2>. QED BY <1>3, <2>1, <2>2, <2>3 DEF Interrupt
<1>4. CASE Yielded(o)
  <2>1. CASE Quits(o)
    BY <1>4, <2>1, QuitsIsAStep DEF Yielded
  <2>2. CASE entry = None /\ Goes(o, "recheck") /\ UNCHANGED <<gate, turns>>
    BY <1>4, <2>2, GoesIsAStep DEF Yielded, Places, turns, gate, TypeOK
  <2>. QED BY <1>4, <2>1, <2>2 DEF Yielded
<1>5. CASE Prepare(o)
  <2>1. CASE Quits(o)
    BY <1>5, <2>1, QuitsIsAStep DEF Prepare
  <2>2. CASE Goes(o, "admit") /\ UNCHANGED <<gate, turns>>
    BY <1>5, <2>2, GoesIsAStep DEF Prepare, Places, turns, gate, TypeOK
  <2>. QED BY <1>5, <2>1, <2>2 DEF Prepare
<1>. QED BY <1>1, <1>2, <1>3, <1>4, <1>5

\* From the admission to the registration.
LEMMA WaysThrough ==
  ASSUME TypeOK, GateInv, TurnInv, NEW o \in Ops,
         Admit(o) \/ Commit(o) \/ Accept(o) \/ Register(o) \/ Revoke(o) \/ SettleFailed(o)
  PROVE  OpStep(o)
<1>. USE DEF Working, Takeover, Running, Holding, Overtaking
<1>1. CASE Admit(o)
  <2>1. CASE Quits(o)
    BY <1>1, <2>1, QuitsIsAStep DEF Admit
  <2>2. CASE ~Quits(o)
    <3>. PICK p \in {"register", "commit"} : Goes(o, p)
      BY <1>1, <2>2 DEF Admit
    <3>1. /\ at[o] = "admit" /\ lock = None /\ lock' = o /\ ~Refused
          /\ UNCHANGED <<kind, gate, entry, aborted, stopV, delV>>
      BY <1>1, <2>2 DEF Admit, gate
    <3>2. MoveStep(o, p)
      BY <3>1 DEF MoveStep, Goes, Places, stopV, delV
    <3>3. TurnStep(o, p)
      BY <3>1 DEF TurnStep, Goes
    <3>. QED BY <3>1, <3>2, <3>3 DEF OpStep, Places, TypeOK
  <2>. QED BY <2>1, <2>2
<1>2. CASE Commit(o)
  <2>1. CASE Fails(o)
    BY <1>2, <2>1, FailsIsAStep DEF Commit
  <2>2. CASE Goes(o, "accept") /\ UNCHANGED <<gate, turns>>
    BY <1>2, <2>2, GoesIsAStep DEF Commit, Places, turns, gate, TypeOK
  <2>. QED BY <1>2, <2>1, <2>2 DEF Commit
<1>3. CASE Accept(o)
  BY <1>3, GoesIsAStep DEF Accept, Places, turns, gate, TypeOK
<1>4. CASE Register(o)
  <2>1. CASE Goes(o, "revoke") /\ UNCHANGED <<gate, turns>>
    BY <1>4, <2>1, GoesIsAStep DEF Register, Places, turns, gate, TypeOK
  <2>2. CASE Fails(o)
    BY <1>4, <2>2, FailsIsAStep DEF Register
  <2>3. CASE ~StopSeen(o) /\ entry = None /\ Leaves(o) /\ entry' = o
    <3>. PICK p \in {"host", "starting"} : Goes(o, p)
      BY <1>4, <2>3, OpsAreFinite DEF Register, Fails, turns
    <3>1. Registers(o, p) /\ ExitStep(o, p)
      BY <1>4, <2>3 DEF Register, Registers, ExitStep, Goes, StopSeen, Stopped, stopV, delV
    <3>2. aborted' \in BOOLEAN
      BY <1>4, <2>3 DEF Register, Fails, turns, TypeOK
    <3>. QED BY <3>1, <3>2 DEF OpStep, Places
  <2>. QED BY <1>4, <2>1, <2>2, <2>3 DEF Register
<1>5. CASE Revoke(o)
  <2>1. CASE Fails(o)
    BY <1>5, <2>1, FailsIsAStep DEF Revoke
  <2>2. CASE ~Fails(o)
    <3>1. /\ at[o] = "revoke" /\ lock = o /\ lock' = None /\ Leaves(o) /\ Ends(o)
          /\ UNCHANGED <<kind, deleting, entry, aborted, stopV, delV>>
      BY <1>5, <2>2 DEF Revoke
    <3>2. ExitStep(o, "done")
      BY <3>1 DEF ExitStep, Ends, stopV, delV
    <3>3. TurnStep(o, "done")
      BY <3>1 DEF TurnStep, Ends
    <3>. QED BY <3>1, <3>2, <3>3 DEF OpStep, Places, TypeOK
  <2>. QED BY <2>1, <2>2
<1>6. CASE SettleFailed(o)
  <2>1. MoveStep(o, "done")
    BY <1>6 DEF SettleFailed, MoveStep, Ends, Places, stopV, delV
  <2>2. TurnStep(o, "done")
    BY <1>6 DEF SettleFailed, TurnStep, Ends
  <2>. QED BY <1>6, <2>1, <2>2 DEF OpStep, Places, SettleFailed, TypeOK
<1>. QED BY <1>1, <1>2, <1>3, <1>4, <1>5, <1>6

\* The turn in the controller, and maintenance.
LEMMA WaysOut ==
  ASSUME TypeOK, GateInv, TurnInv, NEW o \in Ops,
         \/ Start(o) \/ HostEnds(o) \/ Settle(o) \/ Complete(o)
         \/ TakeMaintenance(o) \/ EndMaintenance(o)
  PROVE  OpStep(o)
<1>. USE DEF Working, Takeover, Running, Holding, Overtaking
<1>1. CASE Start(o)
  BY <1>1, GoesIsAStep DEF Start, Places, turns, gate, TypeOK
<1>2. CASE HostEnds(o)
  BY <1>2, GoesIsAStep DEF HostEnds, Places, turns, gate, TypeOK
<1>3. CASE Settle(o)
  <2>1. MoveStep(o, "complete")
    BY <1>3 DEF Settle, MoveStep, Goes, Places, stopV, delV
  <2>2. TurnStep(o, "complete")
    BY <1>3 DEF Settle, TurnStep, Goes
  <2>. QED BY <1>3, <2>1, <2>2 DEF OpStep, Places, Settle, TypeOK
<1>4. CASE Complete(o)
  <2>1. MoveStep(o, "done")
    BY <1>4 DEF Complete, MoveStep, Ends, Places, stopV, delV
  <2>2. TurnStep(o, "done")
    BY <1>4 DEF Complete, TurnStep, Ends
  <2>. QED BY <1>4, <2>1, <2>2 DEF OpStep, Places, Complete
<1>5. CASE TakeMaintenance(o)
  <2>1. CASE Quits(o)
    BY <1>5, <2>1, QuitsIsAStep DEF TakeMaintenance
  <2>2. CASE ~Quits(o)
    <3>1. /\ at[o] = "lease" /\ lock = None /\ lock' = o /\ ~Refused /\ Goes(o, "maintain")
          /\ UNCHANGED <<kind, gate, entry, aborted, stopV, delV>>
      BY <1>5, <2>2 DEF TakeMaintenance, gate
    <3>2. MoveStep(o, "maintain")
      BY <3>1 DEF MoveStep, Goes, Places, stopV, delV
    <3>3. TurnStep(o, "maintain")
      BY <3>1 DEF TurnStep, Goes
    <3>. QED BY <3>1, <3>2, <3>3 DEF OpStep, Places, TypeOK
  <2>. QED BY <2>1, <2>2
<1>6. CASE EndMaintenance(o)
  <2>1. ExitStep(o, "done")
    BY <1>6 DEF EndMaintenance, ExitStep, Ends, stopV, delV
  <2>2. TurnStep(o, "done")
    BY <1>6 DEF EndMaintenance, TurnStep, Ends
  <2>. QED BY <1>6, <2>1, <2>2 DEF OpStep, Places, EndMaintenance, TypeOK
<1>. QED BY <1>1, <1>2, <1>3, <1>4, <1>5, <1>6

-----------------------------------------------------------------------------
(* The beginning of an operation.                                          *)

\* A permit that is given counts, and it is given only while nobody has the lease
\* and no deletion blocks the gate.
LEMMA EnterKeeps ==
  ASSUME TypeOK, GateInv, TurnInv, NEW o \in Ops, Enter(o)
  PROVE  TypeOK' /\ GateInv' /\ TurnInv'
<1>0. None \notin Ops /\ Inside \in SUBSET Ops /\ IsFiniteSet(Inside) /\ Cardinality(Inside) \in Nat
  BY OpsAreFinite DEF Inside
<1>1. CASE ~Open
  <2>1. OpStep(o)
    BY <1>1, GoesIsAStep
    DEF Enter, Ends, Goes, gate, turns, Places, Working, Takeover, Running, Holding, Overtaking, TypeOK
  <2>. QED BY <2>1, OpStepKeeps
<1>2. CASE Open
  <2>. PICK p \in {"lease", "check"} : Goes(o, p)
    BY <1>2 DEF Enter
  <2>1. /\ at[o] = "new" /\ kind[o] \in Shared /\ SettleGate(active + 1, mutation)
        /\ mutation = None /\ ~deleting
        /\ UNCHANGED <<kind, deleting, lock, entry, aborted, stopV, delV>>
    BY <1>2 DEF Enter, Open, turns
  <2>2. p \in Places \ {"new"} /\ p \in Working /\ p \notin Running
    BY DEF Places, Working, Running
  <2>3. /\ active' = active + 1 /\ mutation' = None /\ sharedDrain' = sharedDrain
        /\ fullDrain' \in BOOLEAN
    BY <2>1, PromiseEnds DEF SettleGate, TypeOK
  <2>4. Inside' = Inside \cup {o}
    BY <2>1, <2>2, InsideMoves DEF Goes
  <2>5. o \notin Inside
    BY <2>1 DEF Inside, Working, Takeover
  <2>6. active' = Cardinality(Inside')
    BY <1>0, <2>3, <2>4, <2>5, FS_AddElement DEF GateInv, PermitsBalance
  <2>7. \A q \in Ops : kind[q] \in Exclusive /\ at[q] \in Working => q \in stopped
    BY <1>0, <2>1 DEF GateInv
  <2>8. kind[o] \notin Exclusive /\ kind[o] # "handoff"
    BY <2>1 DEF Shared, Exclusive
  <2>9. \A q \in Ops : kind'[q] \in Exclusive /\ at'[q] \in Working => q \in stopped'
    BY <2>1, <2>7, <2>8 DEF Goes, stopV, TypeOK
  <2>10. \A q \in Ops : ~ /\ kind'[q] = "handoff" /\ q \notin stopped'
                          /\ at'[q] \in Takeover \cup {"check", "drain"}
    BY <2>9 DEF Exclusive, Working
  <2>11. saga' \notin Deleting
    BY <2>1 DEF GateInv, delV
  <2>12. DrainsAreOwed'
    BY <1>0, <2>3 DEF DrainsAreOwed, Quiet, GateInv, PermitsBalance
  <2>13. StoppedNeverRuns' /\ \A q \in stopped' : at'[q] # "new"
    BY <2>1, <2>2 DEF StoppedNeverRuns, GateInv, Goes, stopV, TypeOK
  <2>14. GateInv'
    BY <2>3, <2>6, <2>9, <2>10, <2>11, <2>12, <2>13
    DEF GateInv, PermitsBalance, Deleting, Drained
  <2>15. TurnStep(o, p)
    BY <2>1 DEF TurnStep, Goes, Holding, Overtaking, Takeover
  <2>16. TypeOK'
    BY <2>1, <2>2, <2>3 DEF TypeOK, Goes, stopV, delV
  <2>. QED BY <2>14, <2>15, <2>16, TurnKeeps
<1>. QED BY <1>1, <1>2

\* A lease is given only while nobody else has it; a hand-off that does not have to
\* wait has found nobody inside.
LEMMA AcquireKeeps ==
  ASSUME TypeOK, GateInv, TurnInv, NEW o \in Ops, Acquire(o)
  PROVE  TypeOK' /\ GateInv' /\ TurnInv'
<1>0. None \notin Ops
  BY OpsAreFinite
<1>1. CASE ~Open
  <2>1. OpStep(o)
    BY <1>1, GoesIsAStep
    DEF Acquire, Ends, Goes, gate, turns, Places, Working, Takeover, Running, Holding, Overtaking, TypeOK
  <2>. QED BY <2>1, OpStepKeeps
<1>2. CASE Open
  <2>. PICK p \in {"lease", "check"} : Goes(o, p)
    BY <1>2 DEF Acquire
  <2>1. /\ at[o] = "new" /\ kind[o] \in Exclusive /\ mutation' = o
        /\ mutation = None /\ ~deleting
        /\ sharedDrain' = IF active # 0 THEN sharedDrain \cup {o} ELSE sharedDrain
        /\ UNCHANGED <<kind, active, deleting, fullDrain, lock, entry, aborted, stopV, delV>>
    BY <1>2 DEF Acquire, Open, turns, MustDrain
  <2>2. p \in Places \ {"new"} /\ p \in Working /\ p \notin Running /\ p \notin Takeover
    BY DEF Places, Working, Running, Takeover
  <2>3. Inside' = Inside
    <3>1. o \notin Inside /\ kind[o] \notin Shared
      BY <2>1 DEF Inside, Shared, Exclusive
    <3>2. Inside' = Inside \ {o}
      BY <2>1, <3>1, InsideMoves DEF Goes
    <3>. QED BY <3>1, <3>2
  <2>4. o \notin stopped
    BY <2>1 DEF GateInv
  <2>5. \A q \in Ops : kind[q] \in Exclusive /\ at[q] \in Working => q \in stopped
    BY <1>0, <2>1 DEF GateInv
  <2>6. \A q \in Ops : kind'[q] \in Exclusive /\ at'[q] \in Working => mutation' = q \/ q \in stopped'
    BY <2>1, <2>5 DEF Goes, stopV, TypeOK
  <2>7. \A q \in Ops : /\ kind'[q] = "handoff" /\ q \notin stopped'
                       /\ \/ at'[q] \in Takeover
                          \/ at'[q] \in {"check", "drain"} /\ q \notin sharedDrain'
                       => active' = 0
    <3>1. \A q \in Ops \ {o} : ~ /\ kind'[q] = "handoff" /\ q \notin stopped'
                                 /\ at'[q] \in Takeover \cup {"check", "drain"}
      BY <2>1, <2>5 DEF Goes, stopV, TypeOK, Exclusive, Working
    <3>2. at'[o] \notin Takeover /\ (o \notin sharedDrain' => active' = 0)
      BY <2>1, <2>2 DEF Goes, TypeOK
    <3>. QED BY <3>1, <3>2
  <2>8. saga' \notin Deleting
    BY <2>1 DEF GateInv, delV
  <2>9. DrainsAreOwed' /\ PermitsBalance'
    BY <1>0, <2>1, <2>3 DEF DrainsAreOwed, Quiet, GateInv, PermitsBalance
  <2>10. StoppedNeverRuns' /\ \A q \in stopped' : at'[q] # "new"
    BY <2>1, <2>2 DEF StoppedNeverRuns, GateInv, Goes, stopV, TypeOK
  <2>11. kind'[mutation'] \in Exclusive /\ at'[mutation'] \in Working /\ mutation' \notin stopped'
    BY <2>1, <2>2, <2>4 DEF Goes, stopV, TypeOK
  <2>12. GateInv'
    BY <2>6, <2>7, <2>8, <2>9, <2>10, <2>11 DEF GateInv, Deleting, Drained
  <2>13. TurnStep(o, p)
    BY <2>1 DEF TurnStep, Goes, Holding, Overtaking, Takeover
  <2>14. TypeOK'
    BY <2>1, <2>2 DEF TypeOK, Goes, stopV, delV
  <2>. QED BY <2>12, <2>13, <2>14, TurnKeeps
<1>. QED BY <1>1, <1>2

-----------------------------------------------------------------------------
(* Stops and the deletion move no operation.                               *)

\* A step that leaves the operations, their turns and the gate's count alone.
LEMMA NobodyMoves ==
  ASSUME TypeOK, GateInv, TurnInv,
         UNCHANGED <<kind, active, mutation, sharedDrain, at, lock, entry, stopped>>,
         saga' \in Deleting => deleting' /\ closing',
         saga' \in Fencing => fenced',
         fullDrain' => ~Quiet(active, mutation),
         saga' \in Drained \/ (saga' \in Deleting /\ ~fullDrain') => Quiet(active, mutation),
         saga' \in {"erase", "lower"} => lock = None /\ entry = None
  PROVE  GateInv' /\ TurnInv'
<1>1. Inside' = Inside
  BY DEF Inside
<1>2. PermitsBalance' /\ DrainsAreOwed' /\ StoppedNeverRuns'
  BY <1>1 DEF GateInv, PermitsBalance, DrainsAreOwed, StoppedNeverRuns, Quiet
<1>3. GateInv'
  BY <1>2 DEF GateInv, Quiet
<1>4. TurnInv'
  BY DEF TurnInv
<1>. QED BY <1>3, <1>4

\* A stop marks submissions that are not turns yet; a hand-off that is marked does
\* not keep its lease.
LEMMA StopMarksKeeps ==
  ASSUME TypeOK, GateInv, TurnInv, NEW turn \in Ops \cup {None}, StopMarks(turn)
  PROVE  TypeOK' /\ GateInv' /\ TurnInv'
<1>. DEFINE marks == {o \in Ops : Pending(o) /\ turn \in {None, o}
                                  /\ (turn = None \/ entry \in {None, turn})}
<1>0. None \notin Ops
  BY OpsAreFinite
<1>1. /\ stopped' = stopped \cup marks
      /\ IF mutation \in marks THEN SettleGate(active, None)
         ELSE UNCHANGED <<active, mutation, sharedDrain, fullDrain>>
      /\ UNCHANGED <<kind, deleting, at, turns, delV>>
      /\ stops < MaxStops /\ stops' = stops + 1 /\ stop' = [on |-> TRUE, turn |-> turn]
  BY DEF StopMarks
<1>2. marks \subseteq Ops /\ \A o \in marks : at[o] \in Working
  BY DEF Pending
<1>. HIDE DEF marks
<1>3. Inside' = Inside
  BY <1>1 DEF Inside
<1>4. /\ active' = active
      /\ mutation' = mutation \/ mutation' = None
      /\ mutation' # None => mutation' = mutation /\ mutation \notin marks
      /\ mutation' # mutation => mutation \in marks
      /\ active = 0 \/ sharedDrain' = sharedDrain
      /\ sharedDrain' = {} \/ sharedDrain' = sharedDrain
  BY <1>0, <1>1, <1>2 DEF SettleGate
<1>5. fullDrain' \in BOOLEAN /\ (fullDrain' => fullDrain)
  BY <1>1, PromiseEnds DEF SettleGate
<1>6. fullDrain' => ~Quiet(active', mutation')
  BY <1>1 DEF SettleGate, GateInv, DrainsAreOwed
<1>7. sharedDrain' # {} => active' # 0
  BY <1>1 DEF SettleGate, GateInv, DrainsAreOwed
<1>8. TypeOK'
  <2>1. stops' \in 0 .. MaxStops
    BY <1>1, Bounds DEF TypeOK
  <2>2. stop' \in [on: BOOLEAN, turn: Ops \cup {None}]
    BY <1>1
  <2>3. /\ stopped' \subseteq Ops /\ sharedDrain' \subseteq Ops
        /\ active' \in Nat /\ mutation' \in Ops \cup {None}
    BY <1>1, <1>2, <1>4 DEF TypeOK
  <2>. QED BY <1>1, <1>5, <2>1, <2>2, <2>3 DEF TypeOK, turns, delV
<1>9. PermitsBalance' /\ DrainsAreOwed'
  BY <1>3, <1>4, <1>6, <1>7 DEF GateInv, PermitsBalance, DrainsAreOwed
<1>10. StoppedNeverRuns' /\ \A o \in stopped' : at'[o] # "new"
  BY <1>1, <1>2 DEF GateInv, StoppedNeverRuns, Running, Working, Takeover
<1>11. mutation' # None => /\ kind'[mutation'] \in Exclusive /\ at'[mutation'] \in Working
                           /\ mutation' \notin stopped'
  BY <1>1, <1>4 DEF GateInv
<1>12. \A o \in Ops : kind'[o] \in Exclusive /\ at'[o] \in Working => mutation' = o \/ o \in stopped'
  BY <1>1, <1>4 DEF GateInv
<1>13. \A o \in Ops : /\ kind'[o] = "handoff" /\ o \notin stopped'
                      /\ \/ at'[o] \in Takeover
                         \/ at'[o] \in {"check", "drain"} /\ o \notin sharedDrain'
                      => active' = 0
  BY <1>1, <1>4 DEF GateInv
<1>14. /\ saga' \in Deleting => deleting'
       /\ saga' \in Drained \/ (saga' \in Deleting /\ ~fullDrain') => Quiet(active', mutation')
  <2>1. saga' = saga /\ deleting' = deleting
    BY <1>1 DEF delV
  <2>2. CASE mutation \in marks
    <3>1. mutation # None
      BY <1>0, <1>2, <2>2
    <3>2. saga \notin Drained /\ (saga \in Deleting => fullDrain)
      BY <3>1 DEF GateInv, Quiet
    <3>3. fullDrain' = (fullDrain /\ ~Quiet(active', mutation'))
      BY <1>1, <2>2 DEF SettleGate
    <3>. QED BY <2>1, <3>2, <3>3 DEF GateInv
  <2>3. CASE mutation \notin marks
    BY <1>1, <2>1, <2>3 DEF GateInv
  <2>. QED BY <2>2, <2>3
<1>15. GateInv'
  BY <1>9, <1>10, <1>11, <1>12, <1>13, <1>14 DEF GateInv
<1>16. TurnInv'
  BY <1>1 DEF TurnInv, turns, delV
<1>. QED BY <1>8, <1>15, <1>16

\* The stop that reaches the controller changes only what is aborted.
LEMMA StopAbortsKeeps ==
  ASSUME TypeOK, GateInv, TurnInv, StopAborts
  PROVE  TypeOK' /\ GateInv' /\ TurnInv'
<1>1. GateInv' /\ TurnInv'
  <2>1. fullDrain => ~Quiet(active, mutation)
    BY DEF GateInv, DrainsAreOwed
  <2>. QED BY <2>1, NobodyMoves DEF StopAborts, GateInv, TurnInv, gate, delV
<1>2. stop' \in [on: BOOLEAN, turn: Ops \cup {None}] /\ aborted' \in BOOLEAN
  BY DEF StopAborts, NoStop, TypeOK
<1>. QED BY <1>1, <1>2 DEF StopAborts, TypeOK, gate, delV

\* A deletion blocks both gates before it raises the fence, goes past its drain when
\* the promise is resolved, and erases when nobody is left.
LEMMA DeletionKeeps ==
  ASSUME TypeOK, GateInv, TurnInv, BeginDeletion \/ Deletes
  PROVE  TypeOK' /\ GateInv' /\ TurnInv'
<1>. USE DEF Deleting, Fencing, Drained
<1>0. fullDrain => ~Quiet(active, mutation)
  BY DEF GateInv, DrainsAreOwed
<1>1. CASE BeginDeletion
  <2>1. GateInv' /\ TurnInv'
    <3>1. CASE exists
      BY <1>1, <3>1, NobodyMoves DEF BeginDeletion, turns, stopV
    <3>2. CASE ~exists
      BY <1>0, <1>1, <3>2, NobodyMoves DEF BeginDeletion, turns, stopV
    <3>. QED BY <3>1, <3>2
  <2>2. deletes' \in 0 .. MaxDeletes
    BY <1>1, Bounds DEF BeginDeletion, TypeOK
  <2>3. deleting' \in BOOLEAN /\ fullDrain' \in BOOLEAN /\ closing' \in BOOLEAN
    <3>1. (~Quiet(active, mutation)) \in BOOLEAN
      OBVIOUS
    <3>. QED BY <1>1, <3>1 DEF BeginDeletion, TypeOK
  <2>. QED BY <1>1, <2>1, <2>2, <2>3 DEF BeginDeletion, TypeOK, turns, stopV
<1>2. CASE RaiseFence
  <2>1. GateInv' /\ TurnInv'
    <3>1. UNCHANGED <<kind, active, mutation, sharedDrain, at, lock, entry, stopped, deleting,
                      closing, fullDrain>>
      BY <1>2 DEF RaiseFence, gate, turns, stopV
    <3>2. saga' \in {"drain", "idle"} /\ (saga' = "drain" => fenced' /\ saga \in Deleting)
      BY <1>2 DEF RaiseFence, Gives, Deleting
    <3>3. saga' \in Fencing => fenced'
      BY <3>2 DEF Fencing
    <3>4. saga' \in Deleting => deleting' /\ closing'
      BY <3>1, <3>2 DEF GateInv, TurnInv, Deleting
    <3>5. saga' \in Drained \/ (saga' \in Deleting /\ ~fullDrain') => Quiet(active, mutation)
      BY <3>1, <3>2 DEF GateInv, Deleting, Drained
    <3>6. saga' \notin {"erase", "lower"}
      BY <3>2
    <3>. HIDE DEF Deleting, Fencing, Drained
    <3>. QED BY <1>0, <3>1, <3>3, <3>4, <3>5, <3>6, NobodyMoves
  <2>2. saga' \in {"drain", "idle"} /\ fenced' \in BOOLEAN
    BY <1>2 DEF RaiseFence, Gives, TypeOK
  <2>3. UNCHANGED <<kind, gate, at, turns, stopV, closing, exists, deletes>>
    BY <1>2 DEF RaiseFence
  <2>. QED BY <2>1, <2>2, <2>3 DEF TypeOK, gate, turns, stopV
<1>3. CASE AbortTurn
  <2>1. GateInv' /\ TurnInv'
    BY <1>0, <1>3, NobodyMoves DEF AbortTurn, GateInv, TurnInv, gate, stopV
  <2>2. aborted' \in BOOLEAN
    BY <1>3 DEF AbortTurn
  <2>. QED BY <1>3, <2>1, <2>2 DEF AbortTurn, TypeOK, gate, stopV
<1>4. CASE Verify
  <2>1. GateInv' /\ TurnInv'
    BY <1>0, <1>4, NobodyMoves
    DEF Verify, Quiescent, Gives, GateInv, TurnInv, gate, turns, stopV
  <2>. QED BY <1>4, <2>1 DEF Verify, Gives, TypeOK, gate, turns, stopV
<1>5. CASE Erase
  <2>1. GateInv' /\ TurnInv'
    <3>1. UNCHANGED <<kind, active, mutation, sharedDrain, at, lock, entry, stopped, deleting,
                      closing, fullDrain, fenced>>
      BY <1>5 DEF Erase, gate, turns, stopV
    <3>2. saga = "erase" /\ saga' \in {"lower", "idle"}
      BY <1>5 DEF Erase, Gives
    <3>3. \/ deleting /\ closing /\ fenced /\ Quiet(active, mutation) /\ lock = None /\ entry = None
          \/ saga' = "idle"
      BY <3>2 DEF GateInv, TurnInv, Deleting, Fencing, Drained
    <3>4. saga' = "idle" => saga' \notin Deleting \cup Fencing \cup Drained
      BY DEF Deleting, Fencing, Drained
    <3>. HIDE DEF Deleting, Fencing, Drained
    <3>5. /\ saga' \in Deleting => deleting' /\ closing'
          /\ saga' \in Fencing => fenced'
          /\ saga' \in Drained \/ (saga' \in Deleting /\ ~fullDrain') => Quiet(active, mutation)
          /\ saga' \in {"erase", "lower"} => lock = None /\ entry = None
      BY <3>1, <3>2, <3>3, <3>4
    <3>. QED BY <1>0, <3>1, <3>5, NobodyMoves
  <2>2. saga' \in {"lower", "idle"} /\ exists' \in BOOLEAN
    BY <1>5 DEF Erase, Gives, TypeOK
  <2>3. UNCHANGED <<kind, gate, at, turns, stopV, fenced, closing, deletes>>
    BY <1>5 DEF Erase
  <2>. QED BY <2>1, <2>2, <2>3 DEF TypeOK, gate, turns, stopV
<1>6. CASE EndDeletion
  <2>1. GateInv' /\ TurnInv'
    BY <1>0, <1>6, NobodyMoves DEF EndDeletion, Gives, turns, stopV
  <2>2. fenced' \in BOOLEAN /\ closing' \in BOOLEAN /\ deleting' \in BOOLEAN
    <3>1. (deleting /\ ~Quiet(active, mutation)) \in BOOLEAN
      OBVIOUS
    <3>. QED BY <1>6, <3>1, Zenon DEF EndDeletion, TypeOK
  <2>. QED BY <1>6, <2>1, <2>2 DEF EndDeletion, Gives, TypeOK, turns, stopV
<1>. QED BY <1>1, <1>2, <1>3, <1>4, <1>5, <1>6 DEF Deletes

-----------------------------------------------------------------------------
(* The invariant, and what it says of every behaviour.                     *)

IInv == TypeOK /\ GateInv /\ TurnInv

\* Every step keeps the invariant.
LEMMA NextKeeps == IInv /\ [Next]_vars => IInv'
<1>. SUFFICES ASSUME TypeOK, GateInv, TurnInv, [Next]_vars PROVE TypeOK' /\ GateInv' /\ TurnInv'
  BY DEF IInv
<1>1. ASSUME NEW o \in Ops, Starts(o) PROVE TypeOK' /\ GateInv' /\ TurnInv'
  <2>1. CASE EnterTrusted(o)
    <3>1. OpStep(o)
      BY <2>1, GoesIsAStep
      DEF EnterTrusted, gate, turns, Places, Working, Takeover, Running, Holding, Overtaking, TypeOK
    <3>. QED BY <3>1, OpStepKeeps
  <2>. QED BY <1>1, <2>1, EnterKeeps, AcquireKeeps DEF Starts
<1>2. ASSUME NEW o \in Ops, Continues(o) PROVE TypeOK' /\ GateInv' /\ TurnInv'
  <2>1. OpStep(o)
    BY <1>2, WaysIn, WaysThrough, WaysOut DEF Continues
  <2>. QED BY <2>1, OpStepKeeps
<1>3. ASSUME UNCHANGED vars PROVE TypeOK' /\ GateInv' /\ TurnInv'
  <2>1. GateInv' /\ TurnInv'
    <3>1. fullDrain => ~Quiet(active, mutation)
      BY DEF GateInv, DrainsAreOwed
    <3>. QED BY <1>3, <3>1, NobodyMoves DEF vars, GateInv, TurnInv
  <2>. QED BY <1>3, <2>1 DEF vars, TypeOK
<1>. QED BY <1>1, <1>2, <1>3, StopMarksKeeps, StopAbortsKeeps, DeletionKeeps DEF Next

\* The inductive invariant holds in every behaviour.
LEMMA Invariance == Spec => []IInv
<1>1. Init => IInv
  BY InitInv DEF IInv
<1>. QED BY <1>1, NextKeeps, PTL DEF Spec

\* Types, and the bounds on stops and deletions.
THEOREM TypesHold == Spec => []TypeOK
<1>1. IInv => TypeOK
  BY DEF IInv
<1>. QED BY <1>1, Invariance, PTL

\* tryEnter and release balance on every path: the count of the gate is the number
\* of operations inside it.
THEOREM PermitsAreBalanced == Spec => []PermitsBalance
<1>1. IInv => PermitsBalance
  BY DEF IInv, GateInv
<1>. QED BY <1>1, Invariance, PTL

\* waitForHandoffDrain and block wait only for a promise that somebody inside the
\* gate will resolve.
THEOREM DrainsAreAlwaysOwed == Spec => []DrainsAreOwed
<1>1. IInv => DrainsAreOwed
  BY DEF IInv, GateInv
<1>. QED BY <1>1, Invariance, PTL

\* A hand-off that is past its drain and was not stopped has the lease, nobody is
\* inside the gate, and only a trusted turn can become the controller's after the
\* hand-off has seen the old turn go.
THEOREM HandoffsAreAlone == Spec => []HandoffIsAlone
<1>1. ASSUME IInv PROVE HandoffIsAlone
  <2>. SUFFICES ASSUME NEW o \in Ops, kind[o] = "handoff", at[o] \in Takeover, o \notin stopped
                PROVE  /\ mutation = o /\ Inside = {}
                       /\ at[o] \notin {"replay", "yield"} => entry = None \/ kind[entry] = "trusted"
    BY DEF HandoffIsAlone, Stopped
  <2>1. mutation = o /\ active = 0
    BY <1>1 DEF IInv, GateInv, Exclusive, Working
  <2>2. Inside = {}
    <3>1. Inside \in SUBSET Ops
      BY DEF Inside
    <3>. QED BY <1>1, <2>1, <3>1, OpsAreFinite, FS_EmptySet DEF IInv, GateInv, PermitsBalance
  <2>3. at[o] \notin {"replay", "yield"} => entry = None \/ kind[entry] = "trusted"
    BY <1>1 DEF IInv, TurnInv, Overtaking
  <2>. QED BY <2>1, <2>2, <2>3
<1>. QED BY <1>1, Invariance, PTL

\* A submission that PendingSubmissions marked is rolled back or fails, and its turn
\* is never registered.
THEOREM StoppedSubmissionsNeverRun == Spec => []StoppedNeverRuns
<1>1. IInv => StoppedNeverRuns
  BY DEF IInv, GateInv
<1>. QED BY <1>1, Invariance, PTL

\* A deletion past its drain is alone in the gate, and it erases the session only
\* when no turn, admitted or running, is left.
THEOREM DeletionsAreAlone == Spec => []DeletionIsAlone
<1>1. ASSUME IInv PROVE DeletionIsAlone
  <2>1. saga \in {"abort", "erase", "lower"} => Inside = {} /\ mutation = None
    <3>1. Inside \in SUBSET Ops
      BY DEF Inside
    <3>. QED BY <1>1, <3>1, OpsAreFinite, FS_EmptySet
             DEF IInv, GateInv, PermitsBalance, Drained, Quiet
  <2>2. saga \in {"erase", "lower"} => lock = None /\ entry = None
    BY <1>1 DEF IInv, TurnInv
  <2>. QED BY <2>1, <2>2 DEF DeletionIsAlone
<1>. QED BY <1>1, Invariance, PTL
=============================================================================
