---------------------------- MODULE MessageFates ----------------------------
(***************************************************************************)
(* What the queue promises of the messages of one session: each has one    *)
(* fate.  It waits in the queue until it is refused, or its turn takes it; *)
(* then it enters the host, alone and once, or its turn ends before.  What *)
(* has left the queue never comes back.  Claims, fences, request ids, wakes *)
(* and restarts do not appear: they are how QueueDelivery keeps this.      *)
(***************************************************************************)
CONSTANT Items

VARIABLES
  fate,     \* of each message: "new", "queued", "leaving", "ran", "cut" or "refused"
  hosted    \* what is with the host: "message", "other" -- or "none"

Leaving == {i \in Items : fate[i] = "leaving"}

\* Nobody has the session.
Free == hosted = "none" /\ Leaving = {}

Init == fate = [i \in Items |-> "new"] /\ hosted = "none"

\* The fate of one message changes, and of no other.
Becomes(i, from, to) ==
  /\ fate[i] \in from /\ fate'[i] \in to
  /\ fate' = [fate EXCEPT ![i] = fate'[i]]

Submit(i) == Becomes(i, {"new"}, {"queued", "refused"}) /\ UNCHANGED hosted

Refuse(i) == Becomes(i, {"queued"}, {"refused"}) /\ UNCHANGED hosted

\* Its turn has the session, and the queue lets go of it.
Leave(i) == Free /\ Becomes(i, {"queued"}, {"leaving"}) /\ UNCHANGED hosted

Run(i) == hosted = "none" /\ hosted' = "message" /\ Becomes(i, {"leaving"}, {"ran"})

\* The turn that was to run it ends, or had ended when the queue let go of it.
Cut(i) == Becomes(i, {"queued", "leaving"}, {"cut"}) /\ UNCHANGED hosted

Other == Free /\ hosted' = "other" /\ UNCHANGED fate

End == hosted # "none" /\ hosted' = "none" /\ UNCHANGED fate

Next ==
  \/ \E i \in Items : Submit(i) \/ Refuse(i) \/ Leave(i) \/ Run(i) \/ Cut(i)
  \/ Other \/ End

Spec == Init /\ [][Next]_<<fate, hosted>>
=============================================================================
