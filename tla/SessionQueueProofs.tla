------------------------- MODULE SessionQueueProofs -------------------------
(***************************************************************************)
(* What holds of the session queue for every set of items, offers, owners  *)
(* and every bound: the table is well typed, one row at most is claimed, a *)
(* FIFO claim is the head of the table, a request has one row, and a pause *)
(* never outlives the rows it guards.                                      *)
(*                                                                         *)
(* The argument.  Every repository action ends in Commit, so each invariant*)
(* is proved once for a commit whose table satisfies three conditions      *)
(* (CommitKeeps).  Most actions only take rows away or give a claim back:  *)
(* for them the conditions follow from the invariant (ShrinkKeeps).  Only  *)
(* insertions and claims are proved one by one.                            *)
(*                                                                         *)
(* What a step may never do is proved of the steps themselves: where a     *)
(* pause ends, which claims start a turn, what a commit does to the order. *)
(***************************************************************************)
EXTENDS SessionQueue, TLAPS

\* The inductive invariant.
QueueInv ==
  /\ TypeOK
  /\ ahead \subseteq Present \X Present
  /\ AtMostOneClaim
  /\ FifoClaimIsHead
  /\ OneRowPerRequest
  /\ PauseNeedsPending

PresentIn(rs) == {i \in Items : rs[i].status # "absent"}

\* The three conditions on a committed table rs with rowid order ah.
OneClaimIn(rs) ==
  \A i, j \in Items : rs[i].status = "claimed" /\ rs[j].status = "claimed" => i = j
HeadIn(rs, ah) ==
  \A i \in Items : rs[i].status = "claimed" /\ rs[i].mode # "exact" /\ rs[i].over = {}
                     => \A j \in PresentIn(rs) : <<j, i>> \notin ah
OneRequestIn(rs) ==
  \A i, j \in PresentIn(rs) : rs[i].req # None /\ rs[i].req = rs[j].req => i = j

\* The claims FifoClaimIsHead is about, and rowid orders that put no row before
\* one of them.
HeadClaims == {i \in Claimed : rows[i].mode # "exact" /\ rows[i].over = {}}
NoneBeforeClaim(ah) ==
  \A i \in HeadClaims, j \in Items : <<j, i>> \in ah => <<j, i>> \in ahead

\* rs takes rows away, gives claims back or edits what the invariant ignores.
Shrinks(rs) ==
  \A i \in Items :
    \/ rs[i].status = "absent"
    \/ /\ i \in Present
       /\ rs[i].req = rows[i].req
       /\ rs[i].status = "claimed" => /\ i \in Claimed
                                      /\ rs[i].mode = rows[i].mode
                                      /\ rs[i].over = rows[i].over

LEMMA NewRowType ==
  ASSUME NEW offer \in Offer, NEW born \in Time
  PROVE  NewRow(offer, born) \in Row
<1>1. 0 \in Time
  BY TimeAssumption DEF Time
<1>2. /\ offer.api \in BOOLEAN /\ offer.req \in Requests \cup {None}
      /\ offer.key \in Keys \cup {None} /\ offer.exp \in 0 .. Never
  BY DEF Offer
<1>. QED BY <1>1, <1>2 DEF Row, NewRow

LEMMA AbsentType == Absent \in Row
<1>1. [api |-> FALSE, req |-> None, key |-> None, exp |-> Never] \in Offer /\ 0 \in Time
  BY TimeAssumption DEF Offer, Never, Time
<1>2. NewRow([api |-> FALSE, req |-> None, key |-> None, exp |-> Never], 0) \in Row
  BY <1>1, NewRowType
<1>. QED BY <1>2 DEF Absent, Row

LEMMA UnclaimedType ==
  ASSUME NEW r \in Row
  PROVE  Unclaimed(r) \in Row
<1>1. 0 \in Time
  BY TimeAssumption DEF Time
<1>. QED BY <1>1 DEF Row, Unclaimed, NoClaim

LEMMA CommitKeeps ==
  ASSUME TypeOK,
         NEW rs \in [Items -> Row], NEW ah \in SUBSET (Items \X Items),
         NEW p \in Pause \cup {NoPause},
         Commit(rs, ah, p),
         OneClaimIn(rs), HeadIn(rs, ah), OneRequestIn(rs)
  PROVE  /\ rows' \in [Items -> Row]
         /\ ahead' \in SUBSET (Items \X Items)
         /\ pause' \in Pause \cup {NoPause}
         /\ ahead' \subseteq Present' \X Present'
         /\ AtMostOneClaim'
         /\ FifoClaimIsHead'
         /\ OneRowPerRequest'
         /\ PauseNeedsPending'
<1>1. /\ rows' = rs
      /\ ahead' = ah \cap (PresentIn(rs) \X PresentIn(rs))
      /\ pause' = IF PresentIn(rs) = {} THEN NoPause ELSE p
  BY DEF Commit, PresentIn
<1>2. Present' = PresentIn(rs)
  BY <1>1 DEF Present, Queued, Claimed, PresentIn, Row
<1>3. Claimed' = {i \in Items : rs[i].status = "claimed"}
  BY <1>1 DEF Claimed
<1>4. /\ rows' \in [Items -> Row]
      /\ ahead' \in SUBSET (Items \X Items)
      /\ pause' \in Pause \cup {NoPause}
      /\ ahead' \subseteq Present' \X Present'
  BY <1>1, <1>2
<1>5. AtMostOneClaim'
  BY <1>3 DEF AtMostOneClaim, OneClaimIn
<1>6. FifoClaimIsHead'
  BY <1>1, <1>3 DEF FifoClaimIsHead, HeadIn
<1>7. OneRowPerRequest'
  BY <1>1, <1>2 DEF OneRowPerRequest, OneRequestIn
<1>8. PauseNeedsPending'
  BY <1>1, <1>2 DEF PauseNeedsPending
<1>. QED BY <1>4, <1>5, <1>6, <1>7, <1>8

LEMMA ShrinkKeeps ==
  ASSUME QueueInv, NEW rs, NEW ah, Shrinks(rs), NoneBeforeClaim(ah)
  PROVE  OneClaimIn(rs) /\ HeadIn(rs, ah) /\ OneRequestIn(rs)
<1>1. OneClaimIn(rs)
  BY DEF QueueInv, AtMostOneClaim, OneClaimIn, Shrinks
<1>2. HeadIn(rs, ah)
  BY DEF QueueInv, FifoClaimIsHead, HeadIn, Shrinks, NoneBeforeClaim, HeadClaims, PresentIn
<1>3. OneRequestIn(rs)
  BY DEF QueueInv, OneRowPerRequest, OneRequestIn, Shrinks, PresentIn
<1>. QED BY <1>1, <1>2, <1>3

\* What the clean-ups of the table yield.
LEMMA WithoutType ==
  ASSUME TypeOK, NEW S
  PROVE  Without(S) \in [Items -> Row] /\ Shrinks(Without(S))
<1>1. Absent.status = "absent"
  BY DEF Absent, NewRow
<1>2. Without(S) \in [Items -> Row]
  BY AbsentType DEF Without, TypeOK
<1>3. ASSUME NEW i \in Items, rows[i].status # "absent"
      PROVE  i \in Present
  BY <1>3 DEF TypeOK, Row, Present, Queued, Claimed
<1>4. Shrinks(Without(S))
  BY <1>1, <1>3 DEF Without, Shrinks, Claimed
<1>. QED BY <1>2, <1>4

LEMMA ReturnedType ==
  ASSUME TypeOK, NEW S, S \subseteq Claimed, NEW gone
  PROVE  Returned(S, gone) \in [Items -> Row] /\ Shrinks(Returned(S, gone))
<1>1. Absent.status = "absent"
  BY DEF Absent, NewRow
<1>2. Returned(S, gone) \in [Items -> Row]
  BY AbsentType, UnclaimedType DEF Returned, TypeOK
<1>3. ASSUME NEW i \in Items, rows[i].status # "absent"
      PROVE  i \in Present
  BY <1>3 DEF TypeOK, Row, Present, Queued, Claimed
<1>4. ASSUME NEW i \in Items
      PROVE  Unclaimed(rows[i]).status = "queued" /\ Unclaimed(rows[i]).req = rows[i].req
  BY <1>4 DEF Unclaimed, TypeOK, Row
<1>5. Shrinks(Returned(S, gone))
  BY <1>1, <1>3, <1>4 DEF Returned, Shrinks, Claimed, Present
<1>. QED BY <1>2, <1>5

LEMMA SameOrder == NoneBeforeClaim(ahead)
  BY DEF NoneBeforeClaim

\* A repository action that shrinks the table and writes a legal pause.
LEMMA ShrinkStep ==
  ASSUME QueueInv, NEW rs \in [Items -> Row], Shrinks(rs),
         NEW ah \in SUBSET (Items \X Items), NoneBeforeClaim(ah),
         NEW p \in Pause \cup {NoPause},
         Commit(rs, ah, p), StoreOnly
  PROVE  QueueInv'
<1>1. OneClaimIn(rs) /\ HeadIn(rs, ah) /\ OneRequestIn(rs)
  BY ShrinkKeeps
<1>2. TypeOK
  BY DEF QueueInv
<1>. QED BY <1>1, <1>2, CommitKeeps DEF QueueInv, TypeOK, StoreOnly

LEMMA SweepStep == ASSUME QueueInv, Sweep PROVE QueueInv'
  BY WithoutType, SameOrder, ShrinkStep DEF QueueInv, TypeOK, Sweep

\* A row that moves to the front stays behind the claimed ones.
LEMMA FrontKeeps ==
  ASSUME NEW ah \in SUBSET (Items \X Items), NoneBeforeClaim(ah),
         NEW C \in SUBSET Items, NEW f \in Items, f \notin C
  PROVE  /\ AtFront(ah, C, f) \in SUBSET (Items \X Items)
         /\ \A i \in C, j \in Items : <<j, i>> \in AtFront(ah, C, f) => <<j, i>> \in ah
  BY DEF AtFront

LEMMA ReplayStep ==
  ASSUME QueueInv,
         \/ \E offer \in Offers, front \in BOOLEAN : EnqueueReplay(offer, front)
         \/ \E offer \in Offers : RequeueReplay(offer)
  PROVE  QueueInv'
<1>1. TypeOK
  BY DEF QueueInv
<1>2. ASSUME NEW offer \in Offers, NEW front \in BOOLEAN, EnqueueReplay(offer, front)
      PROVE  QueueInv'
  <2>1. PICK f \in SameRequest(offer) :
          Commit(Without({}), IF front THEN AtFront(ahead, Claimed, f) ELSE ahead, pause)
    BY <1>2 DEF EnqueueReplay
  <2> DEFINE ah == IF front THEN AtFront(ahead, Claimed, f) ELSE ahead
  <2>2. f \in Items
    BY DEF SameRequest, Live, Present, Queued, Claimed
  <2>3. ah \in SUBSET (Items \X Items) /\ NoneBeforeClaim(ah)
    <3>1. CASE front
      <4>1. Claimed = {}
        BY <3>1, <1>2 DEF EnqueueReplay
      <4>2. AtFront(ahead, Claimed, f) \in SUBSET (Items \X Items)
        BY <4>1, <2>2, <1>1, SameOrder, FrontKeeps DEF TypeOK
      <4>. QED BY <3>1, <4>1, <4>2 DEF NoneBeforeClaim, HeadClaims
    <3>2. CASE ~front
      BY <3>2, <1>1, SameOrder DEF TypeOK
    <3>. QED BY <3>1, <3>2
  <2>. QED BY <1>1, <1>2, <2>1, <2>3, WithoutType, ShrinkStep DEF TypeOK, EnqueueReplay
<1>3. ASSUME NEW offer \in Offers, RequeueReplay(offer)
      PROVE  QueueInv'
  <2>1. PICK f \in SameRequest(offer) \cap Queued :
          Commit(Without({}), AtFront(ahead, Claimed, f), pause)
    BY <1>3 DEF RequeueReplay
  <2>2. f \in Items /\ f \notin Claimed /\ Claimed \in SUBSET Items
    BY DEF Queued, Claimed
  <2>3. AtFront(ahead, Claimed, f) \in SUBSET (Items \X Items)
        /\ NoneBeforeClaim(AtFront(ahead, Claimed, f))
    BY <2>2, <1>1, SameOrder, FrontKeeps DEF TypeOK, NoneBeforeClaim, HeadClaims
  <2>. QED BY <1>1, <1>3, <2>1, <2>3, WithoutType, ShrinkStep DEF TypeOK, RequeueReplay
<1>. QED BY <1>2, <1>3

\* An insertion of a queued row i with the offer's request into a table that
\* otherwise shrank, at a place that is not before a claimed row.
LEMMA InsertStep ==
  ASSUME QueueInv, NEW S, NEW i \in Items, NEW offer \in Offers, NEW born \in Time,
         SameRequest(offer) = {},
         NEW ah \in SUBSET (Items \X Items),
         \A k \in HeadClaims \ (S \cup {i}), j \in Items : <<j, k>> \in ah => <<j, k>> \in ahead,
         Commit([Without(S) EXCEPT ![i] = NewRow(offer, born)], ah, pause), StoreOnly
  PROVE  QueueInv'
<1> DEFINE row == NewRow(offer, born)
           rs == [Without(S) EXCEPT ![i] = row]
<1>1. TypeOK
  BY DEF QueueInv
<1>2. offer \in Offer
  BY OfferAssumption
<1>3. row \in Row
  BY <1>2, NewRowType
<1>4. row.status = "queued" /\ row.req = offer.req
  BY DEF NewRow
<1>5. Without(S) \in [Items -> Row] /\ Shrinks(Without(S))
  BY <1>1, WithoutType
<1>6. rs \in [Items -> Row] /\ rs[i] = row /\ \A k \in Items \ {i} : rs[k] = Without(S)[k]
  BY <1>3, <1>5
<1>7. \A k \in Items \ {i} : rs[k].status # "absent" =>
          k \notin S /\ k \notin Stale /\ k \in Live /\ rs[k] = rows[k]
  <2> SUFFICES ASSUME NEW k \in Items \ {i}, rs[k].status # "absent"
               PROVE  k \notin S /\ k \notin Stale /\ k \in Live /\ rs[k] = rows[k]
    OBVIOUS
  <2>1. Absent.status = "absent"
    BY DEF Absent, NewRow
  <2>2. k \notin S /\ k \notin Stale /\ rs[k] = rows[k]
    BY <2>1, <1>6 DEF Without
  <2>3. rows[k].status \in {"absent", "queued", "claimed"}
    BY <1>1 DEF TypeOK, Row
  <2>. QED BY <2>2, <2>3 DEF Live, Present, Queued, Claimed
<1>8. OneClaimIn(rs)
  <2> SUFFICES ASSUME NEW k \in Items, NEW m \in Items,
                      rs[k].status = "claimed", rs[m].status = "claimed"
               PROVE  k = m
    BY DEF OneClaimIn
  <2>1. k # i /\ m # i
    BY <1>4, <1>6
  <2>2. k \in Claimed /\ m \in Claimed
    BY <2>1, <1>7 DEF Claimed
  <2>. QED BY <2>2 DEF QueueInv, AtMostOneClaim
<1>9. HeadIn(rs, ah)
  <2> SUFFICES ASSUME NEW k \in Items, rs[k].status = "claimed",
                      rs[k].mode # "exact", rs[k].over = {},
                      NEW j \in Items, <<j, k>> \in ah
               PROVE  FALSE
    BY DEF HeadIn, PresentIn
  <2>1. k # i
    BY <1>4, <1>6
  <2>2. k \in HeadClaims /\ k \notin S /\ rs[k] = rows[k]
    BY <2>1, <1>7 DEF HeadClaims, Claimed
  <2>3. <<j, k>> \in ahead
    BY <2>1, <2>2
  <2>. QED BY <2>2, <2>3 DEF QueueInv, FifoClaimIsHead, HeadClaims
<1>10. OneRequestIn(rs)
  <2> SUFFICES ASSUME NEW k \in PresentIn(rs), NEW m \in PresentIn(rs),
                      rs[k].req # None, rs[k].req = rs[m].req
               PROVE  k = m
    BY DEF OneRequestIn
  <2>1. \A x \in PresentIn(rs) \ {i} : x \in Live /\ x \in Present /\ rs[x] = rows[x]
    BY <1>7 DEF PresentIn, Live
  <2>2. \A x \in PresentIn(rs) \ {i} : rs[x].req # None => rs[x].req # offer.req
    BY <2>1 DEF SameRequest
  <2>3. CASE k = i \/ m = i
    BY <2>2, <2>3, <1>4, <1>6
  <2>4. CASE k # i /\ m # i
    BY <2>1, <2>4 DEF QueueInv, OneRowPerRequest
  <2>. QED BY <2>3, <2>4
<1>11. pause \in Pause \cup {NoPause}
  BY <1>1 DEF TypeOK
<1>. QED BY <1>1, <1>6, <1>8, <1>9, <1>10, <1>11, CommitKeeps DEF QueueInv, TypeOK, StoreOnly

LEMMA EnqueueNewStep ==
  ASSUME QueueInv, NEW i \in Items, NEW offer \in Offers, NEW front \in BOOLEAN,
         EnqueueNew(i, offer, front)
  PROVE  QueueInv'
<1> DEFINE place(ah) == IF front THEN AtFront(ah, Claimed, i) ELSE ah
<1>1. TypeOK /\ now \in Time /\ StoreOnly /\ SameRequest(offer) = {}
  BY DEF QueueInv, TypeOK, EnqueueNew
<1>2. i \notin Claimed /\ Claimed \in SUBSET Items
  BY DEF EnqueueNew, Present, Claimed
\* The rowid order of the new row, before it is moved to the front.
<1>3. ASSUME NEW ah \in SUBSET (Items \X Items), NoneBeforeClaim(ah)
      PROVE  /\ place(ah) \in SUBSET (Items \X Items)
             /\ NoneBeforeClaim(place(ah))
  BY <1>2, <1>3, FrontKeeps DEF NoneBeforeClaim, HeadClaims
<1>4. CASE SameKey(offer) = {}
           /\ Commit([Without({}) EXCEPT ![i] = NewRow(offer, now)], place(AtTail(ahead, i)), pause)
  <2>1. AtTail(ahead, i) \in SUBSET (Items \X Items) /\ NoneBeforeClaim(AtTail(ahead, i))
    BY <1>1, <1>2 DEF TypeOK, AtTail, NoneBeforeClaim, HeadClaims
  <2>2. \A k \in HeadClaims \ ({} \cup {i}), j \in Items :
          <<j, k>> \in place(AtTail(ahead, i)) => <<j, k>> \in ahead
    BY <2>1, <1>3 DEF NoneBeforeClaim
  <2>. QED BY <1>1, <1>3, <1>4, <2>1, <2>2, InsertStep
<1>5. ASSUME NEW j \in FirstOf(SameKey(offer)),
             Commit([Without({j}) EXCEPT ![i] = NewRow(offer, now)],
                    place(InPlaceOf(ahead, i, j)), pause)
      PROVE  QueueInv'
  <2>1. j \in Items /\ j \notin Claimed
    BY DEF FirstOf, SameKey, Waiting, Queued, Claimed
  <2>2. InPlaceOf(ahead, i, j) \in SUBSET (Items \X Items)
    BY <1>1 DEF TypeOK, InPlaceOf
  \* i comes before a claimed row only where j did.
  <2>3. NoneBeforeClaim(InPlaceOf(ahead, i, j))
    <3> SUFFICES ASSUME NEW k \in HeadClaims, NEW x \in Items,
                        <<x, k>> \in InPlaceOf(ahead, i, j)
                 PROVE  <<x, k>> \in ahead
      BY DEF NoneBeforeClaim
    <3>1. k \in Claimed /\ k # i /\ \A y \in Items : <<y, k>> \notin ahead
      BY <1>2 DEF HeadClaims, QueueInv, FifoClaimIsHead
    <3>. QED BY <2>1, <3>1 DEF InPlaceOf
  <2>4. \A k \in HeadClaims \ ({j} \cup {i}), x \in Items :
          <<x, k>> \in place(InPlaceOf(ahead, i, j)) => <<x, k>> \in ahead
    BY <2>2, <2>3, <1>3 DEF NoneBeforeClaim
  <2> DEFINE ah == place(InPlaceOf(ahead, i, j))
  <2>5. /\ ah \in SUBSET (Items \X Items)
        /\ Commit([Without({j}) EXCEPT ![i] = NewRow(offer, now)], ah, pause)
        /\ \A k \in HeadClaims \ ({j} \cup {i}), x \in Items : <<x, k>> \in ah => <<x, k>> \in ahead
    BY <1>3, <1>5, <2>2, <2>3, <2>4
  <2> HIDE DEF ah
  <2>. QED BY <1>1, <2>5, InsertStep
<1>. QED BY <1>4, <1>5 DEF EnqueueNew

LEMMA RequeueNewStep ==
  ASSUME QueueInv, NEW i \in Items, NEW offer \in Offers, NEW members, NEW born \in Time,
         RequeueNew(i, offer, members, born)
  PROVE  QueueInv'
<1> DEFINE gone == members \cup ({i} \cap Claimed)
<1>1. TypeOK /\ StoreOnly /\ SameRequest(offer) = {} /\ members \subseteq Claimed
  BY DEF QueueInv, RequeueNew
<1>2. PICK t \in IF i \in Waiting THEN Items \ Present ELSE {i} :
        Commit([Without(gone) EXCEPT ![t] = NewRow(offer, born)],
               AtFront(AtTail(ahead, t), Claimed \ gone, t), pause)
  BY DEF RequeueNew
<1>3. t \in Items /\ t \notin Claimed \ gone
  BY DEF Present
<1>4. AtTail(ahead, t) \in SUBSET (Items \X Items)
      /\ \A k \in Claimed \ gone, j \in Items : <<j, k>> \in AtTail(ahead, t) => <<j, k>> \in ahead
  BY <1>1, <1>3 DEF TypeOK, AtTail
<1>5. Claimed \ gone \in SUBSET Items
  BY DEF Claimed
<1> DEFINE ah == AtFront(AtTail(ahead, t), Claimed \ gone, t)
<1>6. /\ ah \in SUBSET (Items \X Items)
      /\ \A k \in Claimed \ gone, j \in Items : <<j, k>> \in ah => <<j, k>> \in AtTail(ahead, t)
  BY <1>3, <1>4, <1>5 DEF AtFront
<1>7. \A k \in HeadClaims \ (gone \cup {t}), j \in Items : <<j, k>> \in ah => <<j, k>> \in ahead
  BY <1>4, <1>6 DEF HeadClaims
<1>8. Commit([Without(gone) EXCEPT ![t] = NewRow(offer, born)], ah, pause)
  BY <1>2
<1>9. ah \in SUBSET (Items \X Items)
  BY <1>6
<1> HIDE DEF gone, ah
<1>. QED BY <1>1, <1>3, <1>7, <1>8, <1>9, InsertStep

\* A table edited at one row keeps what ShrinkStep asks of it.
LEMMA EditedType ==
  ASSUME TypeOK, NEW i \in Waiting, NEW r \in Row,
         r.status = "queued", r.req = rows[i].req
  PROVE  /\ [Without({}) EXCEPT ![i] = r] \in [Items -> Row]
         /\ Shrinks([Without({}) EXCEPT ![i] = r])
<1>1. Without({}) \in [Items -> Row] /\ Shrinks(Without({}))
  BY WithoutType
<1>2. i \in Items /\ i \in Present
  BY DEF Waiting, Queued, Present
<1>. QED BY <1>1, <1>2 DEF Shrinks

\* The operations on queued rows that insert nothing.
LEMMA EditQueuedStep ==
  ASSUME QueueInv,
         \/ \E i \in Items, exp \in 0 .. Never : UpdateQueued(i, exp)
         \/ \E S \in SUBSET Items : CancelQueued(S) \/ DrainComposerInjectable(S)
         \/ \E i \in Items, api \in Promotions : PromoteQueuedSource(i, api)
         \/ \E order \in StrictOrders(Waiting) : Reorder(order)
  PROVE  QueueInv'
<1>1. TypeOK /\ pause \in Pause \cup {NoPause} /\ ahead \in SUBSET (Items \X Items)
  BY DEF QueueInv, TypeOK
<1>2. ASSUME NEW i \in Items, NEW exp \in 0 .. Never, UpdateQueued(i, exp)
      PROVE  QueueInv'
  <2> DEFINE r == [rows[i] EXCEPT !.exp = exp]
             rs == [Without({}) EXCEPT ![i] = r]
  <2>1. i \in Waiting /\ rows[i] \in Row
    BY <1>1, <1>2 DEF UpdateQueued, TypeOK
  <2>2. Without({})[i] = rows[i] /\ rows[i].status = "queued"
    BY <2>1 DEF Without, Waiting, Queued
  <2>3. r \in Row /\ r.status = "queued" /\ r.req = rows[i].req
    BY <2>1, <2>2 DEF Row
  <2>4. Commit(rs, ahead, pause) /\ StoreOnly
    BY <1>2, <2>2 DEF UpdateQueued
  <2>5. rs \in [Items -> Row] /\ Shrinks(rs)
    BY <1>1, <2>1, <2>3, EditedType
  <2> HIDE DEF rs
  <2>. QED BY <1>1, <2>4, <2>5, SameOrder, ShrinkStep
<1>3. ASSUME NEW S \in SUBSET Items, CancelQueued(S) \/ DrainComposerInjectable(S)
      PROVE  QueueInv'
  BY <1>1, <1>3, WithoutType, SameOrder, ShrinkStep DEF CancelQueued, DrainComposerInjectable
<1>4. ASSUME NEW i \in Items, NEW api \in Promotions, PromoteQueuedSource(i, api)
      PROVE  QueueInv'
  <2> DEFINE r == [rows[i] EXCEPT !.api = api]
             rs == [Without({}) EXCEPT ![i] = r]
  <2>1. i \in Waiting /\ rows[i] \in Row /\ api \in BOOLEAN
    BY <1>1, <1>4, OfferAssumption DEF PromoteQueuedSource, TypeOK
  <2>2. Without({})[i] = rows[i] /\ rows[i].status = "queued"
    BY <2>1 DEF Without, Waiting, Queued
  <2>3. r \in Row /\ r.status = "queued" /\ r.req = rows[i].req
    BY <2>1, <2>2 DEF Row
  <2>4. Commit(rs, ahead, pause) /\ StoreOnly
    BY <1>4, <2>2 DEF PromoteQueuedSource
  <2>5. rs \in [Items -> Row] /\ Shrinks(rs)
    BY <1>1, <2>1, <2>3, EditedType
  <2> HIDE DEF rs
  <2>. QED BY <1>1, <2>4, <2>5, SameOrder, ShrinkStep
<1>5. ASSUME NEW order \in StrictOrders(Waiting), Reorder(order)
      PROVE  QueueInv'
  <2>1. order \in SUBSET (Items \X Items)
    BY DEF StrictOrders, Waiting, Queued
  <2>2. NoneBeforeClaim(order)
    BY <1>5 DEF Reorder, NoneBeforeClaim, HeadClaims
  <2>. QED BY <1>1, <1>5, <2>1, <2>2, WithoutType, ShrinkStep DEF Reorder
<1>. QED BY <1>2, <1>3, <1>4, <1>5

\* The end of a claim, whoever ends it, and the attempt recorded under it.
LEMMA EndClaimStep ==
  ASSUME QueueInv,
         \/ \E c \in 1 .. issued : \/ PrepareDelivery(c) \/ AcknowledgeClaim(c)
                                   \/ ReleaseClaim(c)    \/ RemoveClaim(c)
         \/ \E cut \in Time \cup {Never} : RecoverClaims(cut)
  PROVE  QueueInv'
<1>1. TypeOK /\ pause \in Pause \cup {NoPause} /\ ahead \in SUBSET (Items \X Items)
  BY DEF QueueInv, TypeOK
<1>2. ASSUME NEW c \in 1 .. issued, PrepareDelivery(c)
      PROVE  QueueInv'
  <2> DEFINE rs == [i \in Items |-> IF i \in Heldby(c) THEN [rows[i] EXCEPT !.prepared = TRUE]
                                                       ELSE rows[i]]
  <2>1. rs \in [Items -> Row]
    <3>1. ASSUME NEW r \in Row PROVE [r EXCEPT !.prepared = TRUE] \in Row
      BY DEF Row
    <3>. QED BY <1>1, <3>1 DEF TypeOK
  <2>2. \A i \in Items : rs[i].status = rows[i].status /\ rs[i].req = rows[i].req
                         /\ rs[i].mode = rows[i].mode /\ rs[i].over = rows[i].over
    BY <1>1 DEF TypeOK, Row
  <2>3. \A i \in Items : rows[i].status \in {"absent", "queued", "claimed"}
    BY <1>1 DEF TypeOK, Row
  <2>4. Shrinks(rs)
    <3> HIDE DEF rs
    <3>. QED BY <2>2, <2>3 DEF Shrinks, Present, Queued, Claimed
  <2>5. Commit(rs, ahead, pause) /\ StoreOnly
    BY <1>2 DEF PrepareDelivery
  <2> HIDE DEF rs
  <2>. QED BY <1>1, <2>1, <2>4, <2>5, SameOrder, ShrinkStep
<1>3. ASSUME NEW c \in 1 .. issued, AcknowledgeClaim(c) \/ RemoveClaim(c)
      PROVE  QueueInv'
  BY <1>1, <1>3, WithoutType, SameOrder, ShrinkStep DEF AcknowledgeClaim, RemoveClaim
<1>4. ASSUME NEW c \in 1 .. issued, ReleaseClaim(c)
      PROVE  QueueInv'
  <2>1. Heldby(c) \subseteq Claimed
    BY DEF Heldby
  <2>. QED BY <1>1, <1>4, <2>1, ReturnedType, SameOrder, ShrinkStep DEF ReleaseClaim
<1>5. ASSUME NEW cut \in Time \cup {Never}, RecoverClaims(cut)
      PROVE  QueueInv'
  <2> DEFINE dead == {i \in Claimed : ~Active(i, cut)}
             done == {i \in dead : ~rows[i].prepared /\ rows[i].claim \in receipts}
  <2>1. Commit(Returned(dead \ done, done), ahead, pause) /\ StoreOnly
    BY <1>5 DEF RecoverClaims
  <2>2. Returned(dead \ done, done) \in [Items -> Row] /\ Shrinks(Returned(dead \ done, done))
    <3>1. dead \ done \subseteq Claimed
      OBVIOUS
    <3> HIDE DEF dead, done
    <3>. QED BY <1>1, <3>1, ReturnedType
  <2> HIDE DEF dead, done
  <2>. QED BY <1>1, <2>1, <2>2, SameOrder, ShrinkStep
<1>. QED BY <1>2, <1>3, <1>4, <1>5

LEMMA PauseStepKeeps ==
  ASSUME QueueInv, PauseStep
  PROVE  QueueInv'
<1>1. TypeOK /\ pause \in Pause \cup {NoPause} /\ ahead \in SUBSET (Items \X Items)
      /\ now \in Time
  BY DEF QueueInv, TypeOK
<1>2. ASSUME NEW cause \in Causes, PauseIfPending(cause)
      PROVE  QueueInv'
  <2>1. (IF pause = NoPause THEN [cause |-> cause, at |-> now] ELSE pause) \in Pause \cup {NoPause}
    BY <1>1 DEF Pause
  <2>. QED BY <1>1, <1>2, <2>1, WithoutType, SameOrder, ShrinkStep DEF PauseIfPending
<1>3. ASSUME NEW expected, ContinueQueue(expected)
      PROVE  QueueInv'
  BY <1>1, <1>3, WithoutType, SameOrder, ShrinkStep DEF ContinueQueue
<1>. QED BY <1>2, <1>3 DEF PauseStep

\* A claim: the only step that creates one, and it finds none.
LEMMA ClaimRowStep ==
  ASSUME QueueInv, NEW i \in Items, NEW owner \in Owners, NEW mode \in Modes,
         NEW over \in SUBSET Items, ClaimRow(i, owner, mode, over),
         mode # "exact" /\ over = {} => \A j \in Waiting : <<j, i>> \notin ahead
  PROVE  QueueInv'
<1> DEFINE row == [rows[i] EXCEPT !.status = "claimed", !.claim = issued + 1, !.owner = owner,
                                  !.at = now, !.mode = mode, !.over = over]
           rs  == [Without({}) EXCEPT ![i] = row]
<1>1. /\ TypeOK /\ pause \in Pause \cup {NoPause} /\ ahead \in SUBSET (Items \X Items)
      /\ now \in Time /\ issued \in Nat /\ issued < MaxClaims /\ rows[i] \in Row
  BY TimeAssumption DEF QueueInv, TypeOK, ClaimRow
<1>2. Claimed = {} /\ i \in Waiting
  BY DEF ClaimRow
<1>3. issued + 1 \in Claims /\ issued + 1 \in 0 .. MaxClaims
  BY <1>1, TimeAssumption DEF Claims
<1>4. row \in Row
  BY <1>1, <1>3 DEF Row
<1>5. row.status = "claimed" /\ row.mode = mode /\ row.over = over /\ row.req = rows[i].req
  BY <1>1 DEF Row
<1>6. Without({}) \in [Items -> Row] /\ Shrinks(Without({}))
  BY <1>1, WithoutType
<1>7. rs \in [Items -> Row] /\ rs[i] = row /\ \A k \in Items \ {i} : rs[k] = Without({})[k]
  BY <1>4, <1>6
<1>8. Without({})[i] = rows[i]
  BY <1>2 DEF Without, Waiting, Queued
<1>9. Commit(rs, ahead, pause)
  BY <1>8 DEF ClaimRow
<1>10. \A k \in Items \ {i} : rs[k].status # "absent" =>
           k \in Waiting /\ k \in Present /\ rs[k].status = "queued" /\ rs[k].req = rows[k].req
  <2> SUFFICES ASSUME NEW k \in Items \ {i}, rs[k].status # "absent"
               PROVE  k \in Waiting /\ k \in Present /\ rs[k].status = "queued"
                      /\ rs[k].req = rows[k].req
    OBVIOUS
  <2>1. Absent.status = "absent"
    BY DEF Absent, NewRow
  <2>2. k \notin Stale /\ rs[k] = rows[k]
    BY <2>1, <1>7 DEF Without
  <2>3. rows[k].status \in {"absent", "queued", "claimed"}
    BY <1>1 DEF TypeOK, Row
  <2>. QED BY <2>2, <2>3, <1>2 DEF Waiting, Present, Queued, Claimed
<1>11. OneClaimIn(rs)
  BY <1>10 DEF OneClaimIn
<1>12. HeadIn(rs, ahead)
  <2> SUFFICES ASSUME NEW k \in Items, rs[k].status = "claimed",
                      rs[k].mode # "exact", rs[k].over = {},
                      NEW j \in PresentIn(rs), <<j, k>> \in ahead
               PROVE  FALSE
    BY DEF HeadIn
  <2>1. k = i
    BY <1>10
  <2>2. mode # "exact" /\ over = {}
    BY <2>1, <1>5, <1>7
  <2>3. j \in Waiting
    BY <1>2, <1>10 DEF PresentIn
  <2>. QED BY <2>1, <2>2, <2>3
<1>13. OneRequestIn(rs)
  <2>1. \A k \in PresentIn(rs) : k \in Present /\ rs[k].req = rows[k].req
    BY <1>2, <1>5, <1>7, <1>10 DEF PresentIn, Waiting, Present
  <2>. QED BY <2>1 DEF OneRequestIn, QueueInv, OneRowPerRequest
<1>14. /\ rows' \in [Items -> Row] /\ ahead' \in SUBSET (Items \X Items)
       /\ pause' \in Pause \cup {NoPause} /\ ahead' \subseteq Present' \X Present'
       /\ AtMostOneClaim' /\ FifoClaimIsHead' /\ OneRowPerRequest' /\ PauseNeedsPending'
  <2>1. rs \in [Items -> Row]
    BY <1>7
  <2> HIDE DEF rs
  <2>. QED BY <1>1, <1>9, <1>11, <1>12, <1>13, <2>1, CommitKeeps
<1>. QED BY <1>1, <1>3, <1>14 DEF QueueInv, TypeOK, ClaimRow

LEMMA ClaimStepKeeps ==
  ASSUME QueueInv, ClaimStep
  PROVE  QueueInv'
<1>1. alive \subseteq Owners /\ {} \in SUBSET Items
  BY DEF QueueInv, TypeOK
<1>2. ASSUME NEW owner \in alive, NEW over \in SUBSET Items, ClaimNext(owner, over)
      PROVE  QueueInv'
  <2>1. PICK i \in FirstOf(Waiting \ over) : ClaimRow(i, owner, "fifo", over)
    BY <1>2 DEF ClaimNext
  <2>2. i \in Items /\ "fifo" \in Modes
    BY DEF FirstOf, Waiting, Queued, Modes
  <2>3. over = {} => \A j \in Waiting : <<j, i>> \notin ahead
    BY DEF FirstOf
  <2>. QED BY <1>1, <2>1, <2>2, <2>3, ClaimRowStep
<1>3. ASSUME NEW owner \in alive, ClaimContinued(owner)
      PROVE  QueueInv'
  <2>1. PICK i \in FirstOf(Waiting) : ClaimRow(i, owner, "continued-fifo", {})
    BY <1>3 DEF ClaimContinued
  <2>2. i \in Items /\ "continued-fifo" \in Modes
    BY DEF FirstOf, Waiting, Queued, Modes
  <2>3. \A j \in Waiting : <<j, i>> \notin ahead
    BY DEF FirstOf
  <2>. QED BY <1>1, <2>1, <2>2, <2>3, ClaimRowStep
<1>4. ASSUME NEW owner \in alive, NEW i \in Items, ClaimExact(i, owner)
      PROVE  QueueInv'
  <2>1. "exact" \in Modes
    BY DEF Modes
  <2>. QED BY <1>1, <1>4, <2>1, ClaimRowStep DEF ClaimExact
<1>. QED BY <1>2, <1>3, <1>4, EndClaimStep DEF ClaimStep

\* The fence leaves the table alone; it writes a pause only over live rows.
LEMMA TurnStepKeeps ==
  ASSUME QueueInv, TurnStep
  PROVE  QueueInv'
<1>1. TypeOK
  BY DEF QueueInv
<1>2. UNCHANGED <<now, rows, ahead, issued, alive, closing>>
  BY DEF TurnStep, AdmitClaim, AdmitDirect, SettleTurn, RevokeTurn
<1>3. issued \in 0 .. MaxClaims /\ 1 .. issued \subseteq Claims /\ NoClaim \notin Claims
  BY <1>1, TimeAssumption DEF TypeOK, Claims, NoClaim
<1>4. NoTurn \in Turn
  BY DEF NoTurn, Turn
<1>5. turn' \in Turn /\ receipts' \in SUBSET Claims
  <2>1. ASSUME NEW c \in 1 .. issued, AdmitClaim(c)
        PROVE  turn' \in Turn /\ receipts' \in SUBSET Claims
    BY <1>1, <1>3, <2>1 DEF AdmitClaim, TypeOK, Turn
  <2>2. ASSUME NEW bypass \in BOOLEAN, NEW consume \in BOOLEAN, NEW born \in Time,
               AdmitDirect(bypass, born, consume)
        PROVE  turn' \in Turn /\ receipts' \in SUBSET Claims
    BY <1>1, <2>2 DEF AdmitDirect, TypeOK, Turn
  <2>3. ASSUME NEW cause \in Causes \cup {None}, SettleTurn(cause)
        PROVE  turn' \in Turn /\ receipts' \in SUBSET Claims
    BY <1>1, <1>4, <2>3 DEF SettleTurn, TypeOK
  <2>4. CASE RevokeTurn
    BY <1>1, <1>4, <2>4 DEF RevokeTurn, TypeOK
  <2>. QED BY <2>1, <2>2, <2>3, <2>4 DEF TurnStep
<1>6. pause' \in Pause \cup {NoPause} /\ (pause' # NoPause => pause # NoPause \/ Live # {})
  <2>1. ASSUME NEW cause \in Causes \cup {None}, SettleTurn(cause)
        PROVE  pause' \in Pause \cup {NoPause} /\ (pause' # NoPause => pause # NoPause \/ Live # {})
    BY <1>1, <2>1 DEF SettleTurn, TypeOK, Pause
  <2>2. CASE RevokeTurn
    BY <1>1, <2>2 DEF RevokeTurn, TypeOK, Turn
  <2>3. CASE \/ \E c \in 1 .. issued : AdmitClaim(c)
             \/ \E bypass, consume \in BOOLEAN, born \in Time : AdmitDirect(bypass, born, consume)
    BY <1>1, <2>3 DEF AdmitClaim, AdmitDirect, TypeOK
  <2>. QED BY <2>1, <2>2, <2>3 DEF TurnStep
<1>7. Present' = Present /\ Claimed' = Claimed
  BY <1>2 DEF Present, Queued, Claimed
<1>8. PauseNeedsPending'
  BY <1>6, <1>7 DEF QueueInv, PauseNeedsPending, Live
<1>9. AtMostOneClaim' /\ FifoClaimIsHead' /\ OneRowPerRequest'
  BY <1>2, <1>7 DEF QueueInv, AtMostOneClaim, FifoClaimIsHead, OneRowPerRequest
<1>. QED BY <1>1, <1>2, <1>5, <1>6, <1>7, <1>8, <1>9 DEF QueueInv, TypeOK

LEMMA EnvironmentKeeps ==
  ASSUME QueueInv, Environment
  PROVE  QueueInv'
<1>1. TypeOK /\ pause \in Pause \cup {NoPause} /\ ahead \in SUBSET (Items \X Items)
  BY DEF QueueInv, TypeOK
<1>2. CASE DeleteSession
  <2>1. [i \in Items |-> Absent] \in [Items -> Row] /\ Shrinks([i \in Items |-> Absent])
    BY AbsentType DEF Shrinks, Absent, NewRow
  <2>. QED BY <1>1, <1>2, <2>1, SameOrder, ShrinkStep DEF DeleteSession
<1>3. CASE Tick \/ CloseSession \/ \E o \in Owners : OwnerExits(o)
  <2>1. UNCHANGED <<rows, ahead, pause, issued, turn, receipts>>
    BY <1>3 DEF Tick, CloseSession, OwnerExits
  <2>2. now' \in Time /\ alive' \in SUBSET Owners /\ closing' \in BOOLEAN
    <3>1. CASE Tick
      BY <1>1, <3>1, TimeAssumption DEF Tick, TypeOK, Time
    <3>2. CASE CloseSession
      BY <1>1, <3>2 DEF CloseSession, TypeOK
    <3>3. CASE \E o \in Owners : OwnerExits(o)
      BY <1>1, <3>3 DEF OwnerExits, TypeOK
    <3>. QED BY <1>3, <3>1, <3>2, <3>3
  <2>3. Present' = Present /\ Claimed' = Claimed
    BY <2>1 DEF Present, Queued, Claimed
  <2>4. TypeOK'
    BY <1>1, <2>1, <2>2 DEF TypeOK
  <2>. QED BY <2>1, <2>3, <2>4 DEF QueueInv, PauseNeedsPending, AtMostOneClaim,
                                   FifoClaimIsHead, OneRowPerRequest
<1>. QED BY <1>2, <1>3 DEF Environment

-----------------------------------------------------------------------------
(* The theorems.                                                           *)

LEMMA InitInv == Init => QueueInv
<1> SUFFICES ASSUME Init PROVE QueueInv
  OBVIOUS
<1>1. \A i \in Items : rows[i].status = "absent"
  BY DEF Init, Absent, NewRow
<1>2. Present = {} /\ Claimed = {}
  BY <1>1 DEF Present, Queued, Claimed
<1>3. TypeOK
  <2>1. 0 \in Time /\ 0 \in 0 .. MaxClaims /\ NoTurn \in Turn
    BY TimeAssumption DEF Time, NoTurn, Turn
  <2>2. [i \in Items |-> Absent] \in [Items -> Row]
    BY AbsentType
  <2>. QED BY <2>1, <2>2 DEF Init, TypeOK
<1>. QED BY <1>2, <1>3 DEF Init, QueueInv, AtMostOneClaim, FifoClaimIsHead,
                          OneRowPerRequest, PauseNeedsPending

LEMMA NextKeeps == QueueInv /\ [Next]_vars => QueueInv'
<1> SUFFICES ASSUME QueueInv, [Next]_vars PROVE QueueInv'
  OBVIOUS
<1>1. CASE EditStep
  <2>1. Offers \subseteq Offer
    BY OfferAssumption
  <2>. QED BY <1>1, SweepStep, ReplayStep, EnqueueNewStep, RequeueNewStep, EditQueuedStep
           DEF EditStep
<1>2. CASE ClaimStep
  BY <1>2, ClaimStepKeeps
<1>3. CASE PauseStep
  BY <1>3, PauseStepKeeps
<1>4. CASE TurnStep
  BY <1>4, TurnStepKeeps
<1>5. CASE Environment
  BY <1>5, EnvironmentKeeps
<1>6. CASE UNCHANGED vars
  BY <1>6 DEF vars, QueueInv, TypeOK, Present, Queued, Claimed, AtMostOneClaim,
              FifoClaimIsHead, OneRowPerRequest, PauseNeedsPending
<1>. QED BY <1>1, <1>2, <1>3, <1>4, <1>5, <1>6 DEF Next

\* The invariant holds in every reachable state of the queue.
THEOREM QueueInvariant == Spec => []QueueInv
  BY InitInv, NextKeeps, PTL DEF Spec

\* Every row, the order, the pause, the turn and the receipts keep their types
\* through every operation of the repository and of the fence.
THEOREM TypeCorrect == Spec => []TypeOK
<1>1. QueueInv => TypeOK
  BY DEF QueueInv
<1>. QED BY <1>1, QueueInvariant, PTL

\* claimNext and its siblings never produce a second claimed row.
THEOREM OneClaim == Spec => []AtMostOneClaim
<1>1. QueueInv => AtMostOneClaim
  BY DEF QueueInv
<1>. QED BY <1>1, QueueInvariant, PTL

\* Nothing that is enqueued, reordered, replaced or requeued to the front gets
\* ahead of a FIFO claim that saw the whole queue.
THEOREM ClaimStaysHead == Spec => []FifoClaimIsHead
<1>1. QueueInv => FifoClaimIsHead
  BY DEF QueueInv
<1>. QED BY <1>1, QueueInvariant, PTL

\* A client request id names at most one row, whatever path enqueued it.
THEOREM RequestsAreIdempotent == Spec => []OneRowPerRequest
<1>1. QueueInv => OneRowPerRequest
  BY DEF QueueInv
<1>. QED BY <1>1, QueueInvariant, PTL

\* The pause row is gone as soon as the queue is empty, although the fence and
\* the repository both write it.
THEOREM PauseIsBacked == Spec => []PauseNeedsPending
<1>1. QueueInv => PauseNeedsPending
  BY DEF QueueInv
<1>. QED BY <1>1, QueueInvariant, PTL

-----------------------------------------------------------------------------
(* What a step may never do.                                                *)

\* A commit that is given the pause there is ends it only with the last row.
LEMMA CommitEndsPause ==
  ASSUME NEW rs, NEW ah, Commit(rs, ah, pause), pause # NoPause, pause' = NoPause
  PROVE  Present' = {}
<1>1. \A i \in Items : rs[i].status = "absent"
  BY DEF Commit
<1>2. \A i \in Items : rows'[i].status = "absent"
  BY <1>1 DEF Commit
<1>. QED BY <1>2 DEF Present, Queued, Claimed

\* The same of every operation of the repository but the two on the pause row.
LEMMA RepositoryEndsPause ==
  ASSUME EditStep \/ ClaimStep \/ DeleteSession, pause # NoPause, pause' = NoPause
  PROVE  Present' = {}
<1>1. CASE EditStep
  <2>1. CASE Sweep
    BY <2>1, CommitEndsPause DEF Sweep
  <2>2. ASSUME NEW offer \in Offers, NEW front \in BOOLEAN, EnqueueReplay(offer, front)
        PROVE  Present' = {}
    BY <2>2, CommitEndsPause DEF EnqueueReplay
  <2>3. ASSUME NEW offer \in Offers, NEW front \in BOOLEAN, NEW i \in Items, EnqueueNew(i, offer, front)
        PROVE  Present' = {}
    BY <2>3, CommitEndsPause DEF EnqueueNew
  <2>4. ASSUME NEW offer \in Offers, RequeueReplay(offer)
        PROVE  Present' = {}
    BY <2>4, CommitEndsPause DEF RequeueReplay
  <2>5. ASSUME NEW offer \in Offers, NEW i \in Items, NEW members \in SUBSET Items, NEW born \in Time,
               RequeueNew(i, offer, members, born)
        PROVE  Present' = {}
    BY <2>5, CommitEndsPause DEF RequeueNew
  <2>6. ASSUME NEW i \in Items, NEW exp \in 0 .. Never, UpdateQueued(i, exp)
        PROVE  Present' = {}
    BY <2>6, CommitEndsPause DEF UpdateQueued
  <2>7. ASSUME NEW S \in SUBSET Items, CancelQueued(S) \/ DrainComposerInjectable(S)
        PROVE  Present' = {}
    BY <2>7, CommitEndsPause DEF CancelQueued, DrainComposerInjectable
  <2>8. ASSUME NEW i \in Items, NEW api \in Promotions, PromoteQueuedSource(i, api)
        PROVE  Present' = {}
    BY <2>8, CommitEndsPause DEF PromoteQueuedSource
  <2>9. ASSUME NEW order \in StrictOrders(Waiting), Reorder(order)
        PROVE  Present' = {}
    BY <2>9, CommitEndsPause DEF Reorder
  <2>. QED BY <1>1, <2>1, <2>2, <2>3, <2>4, <2>5, <2>6, <2>7, <2>8, <2>9 DEF EditStep
<1>2. CASE ClaimStep
  <2>1. ASSUME NEW i, NEW owner, NEW mode, NEW over, ClaimRow(i, owner, mode, over)
        PROVE  Present' = {}
    BY <2>1, CommitEndsPause DEF ClaimRow
  <2>2. ASSUME NEW c \in 1 .. issued, PrepareDelivery(c) \/ AcknowledgeClaim(c) \/ ReleaseClaim(c) \/ RemoveClaim(c)
        PROVE  Present' = {}
    BY <2>2, CommitEndsPause DEF PrepareDelivery, AcknowledgeClaim, ReleaseClaim, RemoveClaim
  <2>3. ASSUME NEW cut \in Time \cup {Never}, RecoverClaims(cut)
        PROVE  Present' = {}
    BY <2>3, CommitEndsPause DEF RecoverClaims
  <2>. QED BY <1>2, <2>1, <2>2, <2>3 DEF ClaimStep, ClaimNext, ClaimContinued, ClaimExact
<1>3. CASE DeleteSession
  BY <1>3, CommitEndsPause DEF DeleteSession
<1>. QED BY <1>1, <1>2, <1>3

\* Given back or recovered, a row is where it was: the commit only takes from the
\* order what concerns the rows that go.
THEOREM ClaimsKeepTheirPlace == Spec => ReleaseKeepsPlace
<1>1. ASSUME NEW rs, Commit(rs, ahead, pause), NEW i \in Present', NEW j \in Present'
      PROVE  (<<i, j>> \in ahead') <=> (<<i, j>> \in ahead)
  <2>1. i \in Items /\ j \in Items /\ rs[i].status # "absent" /\ rs[j].status # "absent"
    BY <1>1 DEF Commit, Present, Queued, Claimed
  <2>. QED BY <1>1, <2>1 DEF Commit
<1>2. ASSUME (\E c \in 1 .. issued : ReleaseClaim(c)) \/ (\E cut \in Time \cup {Never} : RecoverClaims(cut))
      PROVE  \A i, j \in Present' : (<<i, j>> \in ahead') <=> (<<i, j>> \in ahead)
  <2>1. \E rs : Commit(rs, ahead, pause)
    BY <1>2 DEF ReleaseClaim, RecoverClaims
  <2>. QED BY <1>1, <2>1
<1>3. [(\E c \in 1 .. issued : ReleaseClaim(c)) \/ (\E cut \in Time \cup {Never} : RecoverClaims(cut))
         => \A i, j \in Present' : (<<i, j>> \in ahead') <=> (<<i, j>> \in ahead)]_vars
  BY <1>2
<1>. QED BY <1>3, PTL DEF ReleaseKeepsPlace

\* The fence reads the pause again when a turn asks for the session, so the claim
\* a drain made before the stop is not enough to start one.
THEOREM StopHolds == Spec => StoppedQueueStaysStopped
<1>1. ASSUME Next, ~turn.held, turn'.held, pause # NoPause
      PROVE  turn'.claim = NoClaim \/ \E i \in Claimed : rows[i].claim = turn'.claim
                                                         /\ rows[i].mode # "fifo"
  <2>1. CASE TurnStep
    <3>1. ASSUME NEW c \in 1 .. issued, AdmitClaim(c)
          PROVE  \E i \in Claimed : rows[i].claim = turn'.claim /\ rows[i].mode # "fifo"
      BY <1>1, <3>1 DEF AdmitClaim, ClaimPasses, Heldby
    <3>2. ASSUME NEW bypass \in BOOLEAN, NEW consume \in BOOLEAN, NEW born \in Time,
                 AdmitDirect(bypass, born, consume)
          PROVE  turn'.claim = NoClaim
      BY <3>2 DEF AdmitDirect
    <3>3. ASSUME RevokeTurn \/ \E cause \in Causes \cup {None} : SettleTurn(cause)
          PROVE  FALSE
      BY <1>1, <3>3 DEF RevokeTurn, SettleTurn
    <3>. QED BY <2>1, <3>1, <3>2, <3>3 DEF TurnStep
  <2>2. CASE ~TurnStep
    <3>1. turn' = turn
      <4>1. ASSUME NEW i, NEW owner, NEW mode, NEW over, ClaimRow(i, owner, mode, over)
            PROVE  turn' = turn
        BY <4>1 DEF ClaimRow
      <4>2. CASE ClaimStep
        BY <4>1, <4>2 DEF ClaimStep, ClaimNext, ClaimContinued, ClaimExact, PrepareDelivery,
           AcknowledgeClaim, ReleaseClaim, RemoveClaim, RecoverClaims, StoreOnly
      <4>3. CASE EditStep
        BY <4>3 DEF EditStep, Sweep, EnqueueReplay, EnqueueNew, RequeueReplay, RequeueNew,
           UpdateQueued, CancelQueued, DrainComposerInjectable, PromoteQueuedSource, Reorder, StoreOnly
      <4>4. CASE PauseStep \/ Environment
        BY <4>4 DEF PauseStep, PauseIfPending, ContinueQueue, Environment, Tick, CloseSession,
           DeleteSession, OwnerExits, StoreOnly
      <4>. QED BY <1>1, <2>2, <4>2, <4>3, <4>4 DEF Next
    <3>. QED BY <1>1, <3>1
  <2>. QED BY <2>1, <2>2
<1>2. [Next]_vars =>
        [~turn.held /\ turn'.held /\ pause # NoPause
         => turn'.claim = NoClaim \/ \E i \in Claimed : rows[i].claim = turn'.claim
                                                        /\ rows[i].mode # "fifo"]_vars
  BY <1>1
<1>. QED BY <1>2, PTL DEF Spec, StoppedQueueStaysStopped

\* What ends a pause is the last row, the user or an admission that can give it
\* back; no sweep, no settlement and no second pause does.
THEOREM PauseEndsOnlyForAReason == Spec => PauseEndsForAReason
<1>1. ASSUME Next, pause # NoPause, pause' = NoPause
      PROVE  \/ Present' = {}
             \/ ContinueQueue(pause) \/ ContinueQueue(NoPause)
             \/ turn'.held /\ turn'.token = pause
  <2>1. CASE EditStep \/ ClaimStep \/ DeleteSession
    BY <1>1, <2>1, RepositoryEndsPause
  <2>2. CASE PauseStep
    <3>1. ASSUME NEW cause \in Causes, PauseIfPending(cause)
          PROVE  Present' = {}
      <4>1. \E rs : Commit(rs, ahead, pause)
        BY <1>1, <3>1 DEF PauseIfPending
      <4>. QED BY <1>1, <4>1, CommitEndsPause
    <3>. QED BY <2>2, <3>1 DEF PauseStep
  <2>3. CASE TurnStep
    <3>1. CASE \E c \in 1 .. issued : AdmitClaim(c)
      BY <1>1, <3>1 DEF AdmitClaim
    <3>2. CASE \E bypass, consume \in BOOLEAN, born \in Time : AdmitDirect(bypass, born, consume)
      BY <1>1, <3>2 DEF AdmitDirect
    <3>3. ASSUME NEW cause \in Causes \cup {None}, SettleTurn(cause)
          PROVE  FALSE
      BY <1>1, <3>3 DEF SettleTurn, NoPause
    <3>4. CASE RevokeTurn
      BY <1>1, <3>4 DEF RevokeTurn
    <3>. QED BY <2>3, <3>1, <3>2, <3>3, <3>4 DEF TurnStep
  <2>4. CASE Tick \/ CloseSession \/ \E o \in Owners : OwnerExits(o)
    BY <1>1, <2>4 DEF Tick, CloseSession, OwnerExits
  <2>. QED BY <1>1, <2>1, <2>2, <2>3, <2>4 DEF Next, Environment
<1>2. [Next]_vars =>
        [pause # NoPause /\ pause' = NoPause
         => \/ Present' = {}
            \/ ContinueQueue(pause) \/ ContinueQueue(NoPause)
            \/ turn'.held /\ turn'.token = pause]_vars
  BY <1>1
<1>. QED BY <1>2, PTL DEF Spec, PauseEndsForAReason
=============================================================================
