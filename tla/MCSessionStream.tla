--------------------------- MODULE MCSessionStream ---------------------------
(* A small instance of SessionStream: a message that is there from the start, *)
(* an answer, and a message committed at once in a turn of its own.           *)
EXTENDS SessionStream

ThreeTurns == [m \in 1..3 |-> IF m = 3 THEN "t2" ELSE "t1"]
OneTwice == [m \in 1..3 |-> IF m = 3 THEN 2 ELSE 1]
=============================================================================
