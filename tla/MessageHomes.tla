---------------------------- MODULE MessageHomes ----------------------------
(***************************************************************************)
(* What is promised of the messages a user sends into a running turn: each *)
(* has one home, and only moves on.  The turn reads it, or lets go of it;  *)
(* then it falls into the conversation, or goes to the queue and runs as a *)
(* turn of its own.  A turn that has stopped takes nothing, and none is    *)
(* gone while it has a message.  Polls, batches, jobs, retries and the     *)
(* drain of a shutdown do not appear: they are how Steering keeps this.    *)
(***************************************************************************)
CONSTANT Users

VARIABLES
  home,    \* of each message: "new", "turn", "read", "held", "conversation", "queue" or "ran"
  turn     \* "running", "stopped" or "gone"

In(place) == {m \in Users : home[m] = place}

Init == home = [m \in Users |-> "new"] /\ turn = "running"

\* The messages of S go to their next home together.
Move(S, to) == home' = [m \in Users |-> IF m \in S THEN to ELSE home[m]]

Take == turn = "running" /\ (\E m \in In("new") : Move({m}, "turn")) /\ UNCHANGED turn

Read == turn # "gone" /\ (\E S \in SUBSET In("turn") : Move(S, "read")) /\ UNCHANGED turn

\* The turn lets go only when it stops, of all or of what its poll does not hold.
LetGo == turn # "gone" /\ (\E S \in SUBSET In("turn") : Move(S, "held")) /\ turn' = "stopped"

Fall == (\E m \in In("held") : Move({m}, "conversation")) /\ UNCHANGED turn

Park == (\E S \in SUBSET In("held") : Move(S, "queue")) /\ UNCHANGED turn

Leave == turn = "stopped" /\ In("turn") = {} /\ turn' = "gone" /\ UNCHANGED home

Run == turn = "gone" /\ (\E S \in SUBSET In("queue") : Move(S, "ran")) /\ UNCHANGED turn

Next == Take \/ Read \/ LetGo \/ Fall \/ Park \/ Leave \/ Run

Spec == Init /\ [][Next]_<<home, turn>>
=============================================================================
