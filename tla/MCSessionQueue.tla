--------------------------- MODULE MCSessionQueue ---------------------------
(* A small instance of SessionQueue: three rows, a message that carries a    *)
(* request and stays, one that replaces its predecessor and expires, and a   *)
(* clock of one tick, so that a row or a lease is either live or expired.    *)
EXTENDS SessionQueue, TLC

CONSTANTS i1, i2, i3, q1, k1, o1

SomeItems == {i1, i2, i3}

AllOffers ==
  {[api |-> TRUE,  req |-> q1,   key |-> None, exp |-> Never],
   [api |-> FALSE, req |-> None, key |-> k1,   exp |-> 1]}

ItemSymmetry == Permutations(SomeItems)
=============================================================================
