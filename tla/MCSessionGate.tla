---------------------------- MODULE MCSessionGate ----------------------------
(***************************************************************************)
(* Instances of SessionGate: every mix of kinds of three operations, up to *)
(* the order of the operations.                                            *)
(***************************************************************************)
EXTENDS SessionGate, Sequences

KindList == <<"send", "trusted", "compact", "maintain", "fence", "handoff">>
Rank(k)  == CHOOSE n \in DOMAIN KindList : KindList[n] = k

EveryMix == {f \in [Ops -> Kinds] : \A i, j \in Ops : i <= j => Rank(f[i]) <= Rank(f[j])}

=============================================================================
