----------------------------- MODULE MCTurnLease -----------------------------
(* Two processes that share the session's tables, two turns, a short lease. *)
EXTENDS TurnLease, TLC

CONSTANTS p1, p2, t1, t2

TwoProcs == {p1, p2}
TwoTurns == {t1, t2}
Symmetry == Permutations(TwoProcs) \cup Permutations(TwoTurns)
=============================================================================
