---------------------------- MODULE MCOAuthCore ----------------------------
(* Two processes on one data directory.                                      *)
EXTENDS OAuthCore, TLC

CONSTANTS p1, p2

TwoProcs == {p1, p2}
Symmetry == Permutations(TwoProcs)
=============================================================================
