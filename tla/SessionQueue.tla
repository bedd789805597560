---------------------------- MODULE SessionQueue ----------------------------
(***************************************************************************)
(* The durable message queue of one session: the table                     *)
(* local_runtime_queue_items, the pause row beside it, the repository      *)
(* operations on both, and the priority fence through which the turn       *)
(* system reads and writes them (service/session-system/queue).            *)
(*                                                                         *)
(* Every repository operation is one immediate SQLite transaction, so each *)
(* is one action here.  All of them start by deleting the queued rows that *)
(* have expired and end by deleting a pause that guards nothing; both are  *)
(* part of the action.  An operation the code refuses still commits its    *)
(* sweep: that is the action Sweep.                                        *)
(*                                                                         *)
(* Sessions share no row, so one session is modelled.  The turn system     *)
(* appears only as far as the fence needs it: the turn that holds the      *)
(* session, the pause it consumed, and the claims that have a receipt.     *)
(***************************************************************************)
EXTENDS Naturals

CONSTANTS
  Items,      \* row identities; an absent one stands for a fresh uuid
  Offers,     \* what callers enqueue: [api, req, key, exp]
  Promotions, \* sources a promotion sets (TRUE: the api source)
  Requests,   \* client request ids
  Keys,       \* dedupe keys
  Owners,     \* runtime processes that claim rows
  Causes,     \* why a queue is paused: user stop, final failure of a turn
  None,
  MaxTime,    \* bound on the clock
  MaxClaims,  \* bound on the claims ever made
  Lease       \* claimLeaseMs

Time   == 0 .. MaxTime
Never  == MaxTime + 1            \* an expiry the clock does not reach
Claims == 1 .. MaxClaims
NoClaim == 0
Modes  == {"fifo", "continued-fifo", "exact"}

Offer == [api: BOOLEAN, req: Requests \cup {None}, key: Keys \cup {None},
          exp: 0 .. Never]

ASSUME TimeAssumption  == MaxTime \in Nat /\ Lease \in Nat /\ MaxClaims \in Nat
ASSUME OfferAssumption == Offers \subseteq Offer /\ Promotions \subseteq BOOLEAN
ASSUME NoneAssumption  == None \notin Requests \cup Keys \cup Owners \cup Causes \cup Modes

VARIABLES
  now,        \* the clock
  rows,       \* the queue table, by item id
  ahead,      \* <<i, j>>: row i has a smaller rowid than row j
  pause,      \* the pause row, or NoPause
  issued,     \* number of claims made so far; claim ids are 1 .. issued
  alive,      \* owners whose process is alive
  closing,    \* the session is being deleted: mutations are rejected
  turn,       \* the turn holding the session, or NoTurn
  receipts    \* claims with an accepted turn receipt

vars == <<now, rows, ahead, pause, issued, alive, closing, turn, receipts>>

NoPause == [cause |-> None, at |-> 0]
Pause   == [cause: Causes, at: Time]
NoTurn  == [held |-> FALSE, claim |-> NoClaim, token |-> NoPause]
Turn    == [held: BOOLEAN, claim: Claims \cup {NoClaim}, token: Pause \cup {NoPause}]

Row == [status: {"absent", "queued", "claimed"}, api: BOOLEAN,
        req: Requests \cup {None}, key: Keys \cup {None},
        exp: 0 .. Never, born: Time,
        claim: Claims \cup {NoClaim}, owner: Owners \cup {None}, at: Time,
        mode: Modes \cup {None}, over: SUBSET Items,
        prepared: BOOLEAN]   \* the last delivery attempt is the present claim's

NewRow(offer, born) ==
  [status |-> "queued", api |-> offer.api, req |-> offer.req, key |-> offer.key,
   exp |-> offer.exp, born |-> born, claim |-> NoClaim, owner |-> None, at |-> 0,
   mode |-> None, over |-> {}, prepared |-> FALSE]

Absent == [NewRow([api |-> FALSE, req |-> None, key |-> None, exp |-> Never], 0)
             EXCEPT !.status = "absent"]

\* The type of the tables and of the bookkeeping beside them; in particular the
\* pause that settlement and revocation write is always a well-formed row.
TypeOK ==
  /\ now \in Time
  /\ rows \in [Items -> Row]
  /\ ahead \in SUBSET (Items \X Items)
  /\ pause \in Pause \cup {NoPause}
  /\ issued \in 0 .. MaxClaims
  /\ alive \in SUBSET Owners
  /\ closing \in BOOLEAN
  /\ turn \in Turn
  /\ receipts \in SUBSET Claims

-----------------------------------------------------------------------------
Queued  == {i \in Items : rows[i].status = "queued"}
Claimed == {i \in Items : rows[i].status = "claimed"}
Present == Queued \cup Claimed
Heldby(c) == {i \in Claimed : rows[i].claim = c}

Expired(i) == rows[i].exp <= now
Stale      == {i \in Queued : Expired(i)}   \* what deleteExpired deletes
Live       == Present \ Stale
Waiting    == Queued \ Stale

\* The table after deleteExpired and the deletion of the rows in S.
Without(S) == [i \in Items |-> IF i \in Stale \cup S THEN Absent ELSE rows[i]]

\* withoutClaim: the row keeps its rowid and everything the message consists of.
Unclaimed(r) == [r EXCEPT !.status = "queued", !.claim = NoClaim, !.owner = None,
                          !.at = 0, !.mode = None, !.over = {}, !.prepared = FALSE]

\* Rows in S go back to the queue, or disappear when they expired meanwhile.
Returned(S, gone) ==
  [i \in Items |->
     IF i \in Stale \cup gone \/ (i \in S /\ Expired(i)) THEN Absent
     ELSE IF i \in S THEN Unclaimed(rows[i]) ELSE rows[i]]

\* The commit of a transaction: table rs, rowid order ah, pause p, reconciled.
Commit(rs, ah, p) ==
  LET left == {i \in Items : rs[i].status # "absent"}
  IN  /\ rows'  = rs
      /\ ahead' = ah \cap (left \X left)
      /\ pause' = IF left = {} THEN NoPause ELSE p

\* A new row i gets the largest rowid.
AtTail(ah, i) == {p \in ah : p[1] # i /\ p[2] # i} \cup ((Items \ {i}) \X {i})

\* A slip: f goes in front of everything.
AtFrontBeforeClaims(ah, C, f) ==
  {p \in ah : f \notin {p[1], p[2]}} \cup ({f} \X (Items \ {f}))

\* moveQueuedToFront: all queued rows are reinserted, f first, behind the
\* claimed rows C, which keep their smaller rowids.
AtFront(ah, C, f) ==
  {p \in ah : (p[1] \in C \/ p[2] \notin C) /\ p[2] # f}
    \cup (C \X (Items \ C)) \cup ({f} \X (Items \ (C \cup {f})))

\* replaceItem: i takes over the rowid of j.
InPlaceOf(ah, i, j) ==
  {p \in ah : i \notin {p[1], p[2]}}
    \cup {p \in Items \X {i} : p[1] # i /\ <<p[1], j>> \in ah}
    \cup {p \in {i} \X Items : p[2] # i /\ <<j, p[2]>> \in ah}

FirstOf(S) == {i \in S : \A j \in S : <<j, i>> \notin ahead}

StoreOnly == UNCHANGED <<now, issued, alive, closing, turn, receipts>>

-----------------------------------------------------------------------------
(* Enqueue, edit and order: mutationTransaction, rejected while closing.   *)

\* Any read (snapshot, list, get) and any operation the code refuses.
Sweep == Commit(Without({}), ahead, pause) /\ StoreOnly

\* A slip: only waiting rows are looked up.
SameRequestWaiting(offer) == {i \in Waiting : offer.req # None /\ rows[i].req = offer.req}

SameRequest(offer) == {i \in Live : offer.req # None /\ rows[i].req = offer.req}
SameKey(offer)     == {i \in Waiting : offer.key # None /\ rows[i].key = offer.key}

\* A front insertion is refused while a row is claimed, a replayed request
\* finds its row whatever its status.
EnqueueReplay(offer, front) ==
  /\ ~closing /\ offer.exp > now /\ (front => Claimed = {})
  /\ \E f \in SameRequest(offer) :
       Commit(Without({}), IF front THEN AtFront(ahead, Claimed, f) ELSE ahead, pause)
  /\ StoreOnly

EnqueueNew(i, offer, front) ==
  /\ ~closing /\ offer.exp > now /\ (front => Claimed = {})
  /\ i \notin Present
  /\ SameRequest(offer) = {}
  /\ LET row == NewRow(offer, now)
         place(ah) == IF front THEN AtFront(ah, Claimed, i) ELSE ah
     IN  \/ /\ SameKey(offer) = {}
            /\ Commit([Without({}) EXCEPT ![i] = row], place(AtTail(ahead, i)), pause)
         \/ \E j \in FirstOf(SameKey(offer)) :
              Commit([Without({j}) EXCEPT ![i] = row], place(InPlaceOf(ahead, i, j)), pause)
  /\ StoreOnly

\* The requeue of steering a turn did not consume: it names the item it
\* restores, goes to the front even past a claim, settles the claims of its
\* members, takes over a claimed row with its id, and never seizes a queued
\* one.  A replay that finds its row claimed violates the unique index: the
\* transaction throws and nothing changes.
RequeueReplay(offer) ==
  /\ ~closing /\ offer.exp > now
  /\ \E f \in SameRequest(offer) \cap Queued :
       Commit(Without({}), AtFront(ahead, Claimed, f), pause)
  /\ StoreOnly

RequeueNew(i, offer, members, born) ==
  /\ ~closing /\ offer.exp > now /\ offer.key = None /\ offer.req # None
  /\ SameRequest(offer) = {}
  /\ members \subseteq Claimed
  /\ LET gone == members \cup ({i} \cap Claimed)
     IN  \E t \in IF i \in Waiting THEN Items \ Present ELSE {i} :
           Commit([Without(gone) EXCEPT ![t] = NewRow(offer, born)],
                  AtFront(AtTail(ahead, t), Claimed \ gone, t), pause)
  /\ StoreOnly

UpdateQueued(i, exp) ==
  /\ ~closing /\ exp > now
  /\ i \in Waiting /\ rows[i].api
  /\ Commit([Without({}) EXCEPT ![i].exp = exp], ahead, pause)
  /\ StoreOnly

\* cancel removes one queued row, clearUserManageable every api row.
CancelQueued(S) ==
  /\ ~closing
  /\ S # {}
  /\ \/ \E i \in Waiting : S = {i}
     \/ S = {i \in Waiting : rows[i].api}
  /\ Commit(Without(S), ahead, pause)
  /\ StoreOnly

\* The composer takes back the api rows that are plain text.
DrainComposerInjectable(S) ==
  /\ S # {} /\ S \subseteq {i \in Waiting : rows[i].api}
  /\ Commit(Without(S), ahead, pause)
  /\ StoreOnly

PromoteQueuedSource(i, api) ==
  /\ ~closing /\ i \in Waiting
  /\ Commit([Without({}) EXCEPT ![i].api = api], ahead, pause)
  /\ StoreOnly

\* order: a strict total order of the waiting rows.
Reorder(order) ==
  /\ ~closing /\ Claimed = {} /\ Waiting # {}
  /\ Commit(Without({}), order, pause)
  /\ StoreOnly

-----------------------------------------------------------------------------
(* Claims.                                                                 *)

\* A slip: no look for another claim.
ClaimRowBesideOthers(i, owner, mode, over) ==
  /\ i \in Waiting /\ issued < MaxClaims
  /\ Commit([Without({}) EXCEPT ![i] =
               [@ EXCEPT !.status = "claimed", !.claim = issued + 1, !.owner = owner,
                         !.at = now, !.mode = mode, !.over = over]], ahead, pause)
  /\ issued' = issued + 1
  /\ UNCHANGED <<now, alive, closing, turn, receipts>>

ClaimRow(i, owner, mode, over) ==
  /\ Claimed = {}
  /\ i \in Waiting
  /\ issued < MaxClaims
  /\ Commit([Without({}) EXCEPT ![i] =
               [@ EXCEPT !.status = "claimed", !.claim = issued + 1, !.owner = owner,
                         !.at = now, !.mode = mode, !.over = over]], ahead, pause)
  /\ issued' = issued + 1
  /\ UNCHANGED <<now, alive, closing, turn, receipts>>

\* over: the items the drain has already deferred (excludeItemIds).
ClaimNext(owner, over) ==
  /\ pause = NoPause
  /\ \E i \in FirstOf(Waiting \ over) : ClaimRow(i, owner, "fifo", over)

ClaimContinued(owner) ==
  \E i \in FirstOf(Waiting) : ClaimRow(i, owner, "continued-fifo", {})

ClaimExact(i, owner) == ClaimRow(i, owner, "exact", {})

\* The attempt is written before the turn is submitted; no sweep here.
PrepareDelivery(c) ==
  /\ Heldby(c) # {}
  /\ Commit([i \in Items |-> IF i \in Heldby(c) THEN [rows[i] EXCEPT !.prepared = TRUE]
                                                ELSE rows[i]], ahead, pause)
  /\ StoreOnly

\* acknowledgeClaim: only a claim with a durable receipt is removed as accepted.
AcknowledgeClaim(c) ==
  /\ Heldby(c) # {} /\ c \in receipts
  /\ Commit(Without(Heldby(c)), ahead, pause)
  /\ StoreOnly

\* A slip: the row is put back as a new one.
ReleaseClaimToTail(c) ==
  /\ \E i \in Heldby(c) : Commit(Returned({i}, {}), AtTail(ahead, i), pause)
  /\ StoreOnly

ReleaseClaim(c) ==
  /\ Commit(Returned(Heldby(c), {}), ahead, pause)
  /\ StoreOnly

\* rejectClaim, cancelClaim, consumeClaim.
RemoveClaim(c) ==
  /\ Heldby(c) # {}
  /\ Commit(Without(Heldby(c)), ahead, pause)
  /\ StoreOnly

\* activeClaim: a claim made after the cut, within its lease, by a live owner.
\* cut is NoCut or the start time of the recovering process.
Active(i, cut) ==
  /\ cut \in Time => rows[i].at > cut
  /\ rows[i].at + Lease > now
  /\ rows[i].owner \in alive

\* A claim that is no longer active is settled by its receipt, unless its own
\* delivery was still being prepared: then the row is delivered again.
RecoverClaims(cut) ==
  /\ LET dead == {i \in Claimed : ~Active(i, cut)}
         done == {i \in dead : ~rows[i].prepared /\ rows[i].claim \in receipts}
     IN  Commit(Returned(dead \ done, done), ahead, pause)
  /\ StoreOnly

-----------------------------------------------------------------------------
(* The pause row and the fence.                                            *)

PauseIfPending(cause) ==
  /\ Commit(Without({}), ahead,
            IF pause = NoPause THEN [cause |-> cause, at |-> now] ELSE pause)
  /\ StoreOnly

\* expected is NoPause when the caller resumes whatever pause there is.
ContinueQueue(expected) ==
  /\ pause # NoPause /\ expected \in {NoPause, pause}
  /\ Commit(Without({}), ahead, NoPause)
  /\ StoreOnly

\* A slip: the pause is not read again.
ClaimPassesPaused(i) ==
  rows[i].mode = "exact" \/ \A j \in Present : <<j, i>> \in ahead => j \in rows[i].over

\* blocksQueueCandidate for a claimed row: exact claims pass, the others only
\* when every row ahead of them yielded; fifo claims also wait for the pause.
ClaimPasses(i) ==
  /\ rows[i].mode = "fifo" => pause = NoPause
  /\ \/ rows[i].mode = "exact"
     \/ \A j \in Present : <<j, i>> \in ahead => j \in rows[i].over

\* ... and for a message sent directly, which came into being at time born.
DirectPasses(born) ==
  pause = NoPause /\ \A j \in Present : rows[j].born > born

\* admit: a second admission of the same claim is a duplicate, not a turn.
AdmitClaim(c) ==
  /\ ~turn.held /\ ~closing /\ c \notin receipts
  /\ \E i \in Heldby(c) :
       /\ ClaimPasses(i)
       /\ LET consume == rows[i].mode = "continued-fifo"
          IN  /\ turn' = [held |-> TRUE, claim |-> c,
                          token |-> IF consume THEN pause ELSE NoPause]
              /\ pause' = IF consume THEN NoPause ELSE pause
  /\ receipts' = receipts \cup {c}
  /\ UNCHANGED <<now, rows, ahead, issued, alive, closing>>

\* A direct turn.  bypass: retry, continuation, paused-queue send, user-input
\* resume.  consume: a foreground send resumes the queue.
AdmitDirect(bypass, born, consume) ==
  /\ ~turn.held /\ ~closing
  /\ bypass \/ DirectPasses(born)
  /\ turn' = [held |-> TRUE, claim |-> NoClaim,
              token |-> IF consume THEN pause ELSE NoPause]
  /\ pause' = IF consume THEN NoPause ELSE pause
  /\ UNCHANGED <<now, rows, ahead, issued, alive, closing, receipts>>

\* Slips: a completed turn pauses a running queue as well; an empty queue is
\* paused; a completed turn lifts the pause.
SettleTurnParks(cause) ==
  /\ turn.held /\ turn' = NoTurn
  /\ pause' = IF Live # {} /\ (cause # None \/ pause = NoPause)
              THEN [cause |-> cause, at |-> now] ELSE pause
  /\ UNCHANGED <<now, rows, ahead, issued, alive, closing, receipts>>

SettleTurnPausesNothing(cause) ==
  /\ turn.held /\ turn' = NoTurn
  /\ pause' = IF cause # None THEN [cause |-> cause, at |-> now] ELSE pause
  /\ UNCHANGED <<now, rows, ahead, issued, alive, closing, receipts>>

SettleTurnResumes(cause) ==
  /\ turn.held /\ turn' = NoTurn
  /\ pause' = IF cause = None THEN NoPause
              ELSE IF Live # {} THEN [cause |-> cause, at |-> now] ELSE pause
  /\ UNCHANGED <<now, rows, ahead, issued, alive, closing, receipts>>

\* settledInTransaction: a stop or a final failure pauses what is pending.
SettleTurn(cause) ==
  /\ turn.held
  /\ turn' = NoTurn
  /\ pause' = IF cause # None /\ Live # {} THEN [cause |-> cause, at |-> now] ELSE pause
  /\ UNCHANGED <<now, rows, ahead, issued, alive, closing, receipts>>

\* revokeAdmission: the receipt goes, a pause the admission consumed comes back.
RevokeTurn ==
  /\ turn.held
  /\ turn' = NoTurn
  /\ receipts' = receipts \ {turn.claim}
  /\ pause' = IF pause = NoPause /\ Live # {} THEN turn.token ELSE pause
  /\ UNCHANGED <<now, rows, ahead, issued, alive, closing>>

-----------------------------------------------------------------------------
(* The session's deletion and the environment.                             *)

CloseSession ==
  /\ ~closing /\ closing' = TRUE
  /\ UNCHANGED <<now, rows, ahead, pause, issued, alive, turn, receipts>>

DeleteSession ==
  /\ closing
  /\ Commit([i \in Items |-> Absent], ahead, pause)
  /\ StoreOnly

Tick ==
  /\ now < MaxTime /\ now' = now + 1
  /\ UNCHANGED <<rows, ahead, pause, issued, alive, closing, turn, receipts>>

OwnerExits(owner) ==
  /\ owner \in alive /\ alive' = alive \ {owner}
  /\ UNCHANGED <<now, rows, ahead, pause, issued, closing, turn, receipts>>

-----------------------------------------------------------------------------
StrictOrders(S) ==
  {r \in SUBSET (S \X S) :
     /\ \A i \in S : <<i, i>> \notin r
     /\ \A i, j \in S : i # j => (<<i, j>> \in r) # (<<j, i>> \in r)
     /\ \A i, j, k \in S : <<i, j>> \in r /\ <<j, k>> \in r => <<i, k>> \in r}

Init ==
  /\ now = 0 /\ issued = 0
  /\ rows = [i \in Items |-> Absent] /\ ahead = {}
  /\ pause = NoPause /\ turn = NoTurn /\ receipts = {}
  /\ alive = Owners /\ closing = FALSE

EditStep ==
  \/ Sweep
  \/ \E offer \in Offers, front \in BOOLEAN :
       \/ EnqueueReplay(offer, front)
       \/ \E i \in Items : EnqueueNew(i, offer, front)
  \/ \E offer \in Offers :
       \/ RequeueReplay(offer)
       \/ \E i \in Items, members \in SUBSET Items, born \in Time :
            born <= now /\ RequeueNew(i, offer, members, born)
  \/ \E i \in Items, exp \in 0 .. Never : UpdateQueued(i, exp)
  \/ \E S \in SUBSET Items : CancelQueued(S) \/ DrainComposerInjectable(S)
  \/ \E i \in Items, api \in Promotions : PromoteQueuedSource(i, api)
  \/ \E order \in StrictOrders(Waiting) : Reorder(order)

ClaimStep ==
  \/ \E owner \in alive :
       \/ \E over \in SUBSET Items : ClaimNext(owner, over)
       \/ ClaimContinued(owner)
       \/ \E i \in Items : ClaimExact(i, owner)
  \/ \E c \in 1 .. issued :
       \/ PrepareDelivery(c) \/ AcknowledgeClaim(c)
       \/ ReleaseClaim(c)    \/ RemoveClaim(c)
  \/ \E cut \in Time \cup {Never} : RecoverClaims(cut)

PauseStep ==
  \/ \E cause \in Causes : PauseIfPending(cause)
  \/ \E expected \in {NoPause, pause} : ContinueQueue(expected)

TurnStep ==
  \/ \E c \in 1 .. issued : AdmitClaim(c)
  \/ \E bypass, consume \in BOOLEAN, born \in Time :
       born <= now /\ AdmitDirect(bypass, born, consume)
  \/ \E cause \in Causes \cup {None} : SettleTurn(cause)
  \/ RevokeTurn

Environment == Tick \/ CloseSession \/ DeleteSession \/ \E o \in Owners : OwnerExits(o)

Next == EditStep \/ ClaimStep \/ PauseStep \/ TurnStep \/ Environment

Spec == Init /\ [][Next]_vars

-----------------------------------------------------------------------------
(* Properties.                                                             *)

\* One row at most is claimed: claimNext looks for a claim before it makes
\* one, and no other operation turns a row into a claimed one.
AtMostOneClaim == \A i, j \in Claimed : i = j

\* A pause row never outlives the work it guards, although the fence writes it
\* outside the repository and rows leave the table in a dozen ways: otherwise
\* an empty queue stays paused and the next message is parked for no reason.
PauseNeedsPending == pause # NoPause => Present # {}

\* The row a FIFO claim took is the head of the table until the claim ends,
\* whatever is enqueued, reordered or put in front meanwhile.  Otherwise the
\* fence (claimedQueueItemBlocks) would reject the claim's own admission.
FifoClaimIsHead ==
  \A i \in Claimed : rows[i].mode # "exact" /\ rows[i].over = {}
                       => \A j \in Items : <<j, i>> \notin ahead

\* A retried request never becomes a second row while the first is in the
\* table, claimed or not (enqueue looks it up in every status).
OneRowPerRequest ==
  \A i, j \in Present : rows[i].req # None /\ rows[i].req = rows[j].req => i = j

\* A claim that is given back, by its holder or by recovery, gives the row its
\* old place: no surviving row overtakes it or falls behind it.
ReleaseKeepsPlace ==
  [][(\E c \in 1 .. issued : ReleaseClaim(c)) \/ (\E cut \in Time \cup {Never} : RecoverClaims(cut))
     => \A i, j \in Present' : (<<i, j>> \in ahead') <=> (<<i, j>> \in ahead)]_vars

\* While the queue is paused no FIFO claim starts a turn, not even one that was
\* claimed before the pause was written (blocksQueueCandidate reads it again).
StoppedQueueStaysStopped ==
  [][~turn.held /\ turn'.held /\ pause # NoPause
     => turn'.claim = NoClaim \/ \E i \in Claimed : rows[i].claim = turn'.claim
                                                    /\ rows[i].mode # "fifo"]_vars

\* A pause disappears only because the queue became empty, the user continued
\* it, or an admission consumed it and remembers it for its revocation.
PauseEndsForAReason ==
  [][pause # NoPause /\ pause' = NoPause
     => \/ Present' = {}
        \/ ContinueQueue(pause) \/ ContinueQueue(NoPause)
        \/ turn'.held /\ turn'.token = pause]_vars
=============================================================================
