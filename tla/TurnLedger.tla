----------------------------- MODULE TurnLedger -----------------------------
(***************************************************************************)
(* What the turn repository promises the rest of the runtime about one     *)
(* session: its turns are accepted one at a time, each accepted turn gets  *)
(* exactly one outcome, a turn that did not run may be withdrawn, receipts *)
(* are erased only while no turn is open, and a session that is gone takes *)
(* no turn.  Leases, processes, clocks and recovery do not appear: they    *)
(* are how TurnLease keeps the promise.                                    *)
(***************************************************************************)
CONSTANT Turns

Outcomes == {"completed", "failed", "aborted"}

VARIABLES
  ledger,   \* the status of every turn
  gone      \* the session takes no more turns

Open == {t \in Turns : ledger[t] = "accepted"}

Init == ledger = [t \in Turns |-> "none"] /\ gone = FALSE

\* A turn that is still open when the next one is accepted has failed: its
\* process lost it.
Accept(t) ==
  /\ ~gone /\ ledger[t] = "none"
  /\ ledger' = [u \in Turns |-> IF u = t THEN "accepted"
                                ELSE IF u \in Open THEN "failed" ELSE ledger[u]]
  /\ UNCHANGED gone

Finish(t, outcome) ==
  /\ ledger[t] = "accepted"
  /\ ledger' = [ledger EXCEPT ![t] = outcome]
  /\ UNCHANGED gone

Withdraw(t) ==
  /\ ledger[t] = "accepted"
  /\ ledger' = [ledger EXCEPT ![t] = "none"]
  /\ UNCHANGED gone

Erase == Open = {} /\ ledger' = [t \in Turns |-> "none"] /\ UNCHANGED gone

Vanish == ~gone /\ gone' = TRUE /\ UNCHANGED ledger

Next ==
  \/ \E t \in Turns :
       \/ Accept(t) \/ Withdraw(t)
       \/ \E outcome \in Outcomes : Finish(t, outcome)
  \/ Erase \/ Vanish

Spec == Init /\ [][Next]_<<ledger, gone>>
=============================================================================
