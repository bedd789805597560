--------------------------- MODULE SteeringProofs ---------------------------
(***************************************************************************)
(* No message that a running turn took from its user is dropped, and none  *)
(* is read twice, for every number of messages and of failing writes.      *)
(*                                                                         *)
(* The argument separates what the turn holds (Held) from what the requeue *)
(* answers for (Safe: tracked batches, the conversation, the queue).  Safe *)
(* never shrinks.  A batch leaves the books only when the job that writes  *)
(* it has made its messages durable, so the invariant says what each job   *)
(* has still to write of the batches that point to it (Covered), and what  *)
(* a job whose row is in the queue has already saved (Enqueued).           *)
(*                                                                         *)
(* Nor is a message read twice.  It is in one place: with the turn, in the *)
(* conversation or in one batch (Apart), but for the time its batch is     *)
(* being written into the conversation (Falls).  A row stands for a batch  *)
(* that falls no more (Passes), and a row that was written is not written  *)
(* again but by the drain of a shutdown, where a stop could not pause the  *)
(* queue in time (Once, with what the lanes await in each stage, Lasts).   *)
(***************************************************************************)
EXTENDS Steering, WellFoundedInduction, TLAPS

-----------------------------------------------------------------------------
(* Sequences and their members.                                             *)

\* A set of natural numbers that is not empty has a least element.
LEMMA LeastNat ==
  ASSUME NEW P \in SUBSET Nat, P # {}
  PROVE  \E m \in P : \A n \in P : m <= n
<1>. DEFINE R == OpToRel(<, Nat)
<1>1. PICK x \in P : \A y \in P : ~(<<y, x>> \in R)
  <2>1. IsWellFoundedOn(R, Nat)
    BY NatLessThanWellFounded
  <2>. HIDE DEF R
  <2>. QED BY <2>1, WFMin
<1>2. \A y \in P : x <= y
  <2>. TAKE y \in P
  <2>1. <<y, x>> \in Nat \X Nat /\ <<y, x>>[1] = y /\ <<y, x>>[2] = x
    OBVIOUS
  <2>2. ~(y < x)
    BY <1>1, <2>1 DEF OpToRel
  <2>. QED BY <2>2
<1>. QED BY <1>2

\* g holds what Kept keeps of each beginning of s, up to the length n.
Computes(g, n, s, S) ==
  g = [k \in 0..n |->
        IF k = 0 THEN <<>> ELSE IF s[k] \in S THEN Append(g[k - 1], s[k]) ELSE g[k - 1]]

\* The recursion that defines Kept has a solution: otherwise take the least length
\* at which it has none.
LEMMA KeptExists ==
  ASSUME NEW D, NEW s \in Seq(D), NEW S
  PROVE  \E g : Computes(g, Len(s), s, S)
<1>. DEFINE P == {n \in Nat : ~ \E g : Computes(g, n, s, S)}
<1>1. P = {}
  <2>. SUFFICES ASSUME P # {} PROVE FALSE
    OBVIOUS
  <2>1. PICK m \in P : \A n \in P : m <= n
    BY LeastNat
  <2>2. m # 0
    <3>1. Computes([k \in 0..0 |-> <<>>], 0, s, S)
      BY DEF Computes
    <3>. QED BY <3>1
  <2>3. PICK g : Computes(g, m - 1, s, S)
    BY <2>1, <2>2
  <2>. DEFINE h == [k \in 0..m |-> IF k < m THEN g[k] ELSE
                     IF s[m] \in S THEN Append(g[m - 1], s[m]) ELSE g[m - 1]]
  <2>4. \A k \in 0..m :
          h[k] = IF k = 0 THEN <<>> ELSE IF s[k] \in S THEN Append(h[k - 1], s[k]) ELSE h[k - 1]
    <3>. TAKE k \in 0..m
    <3>1. \A j \in 0..(m - 1) : g[j] = IF j = 0 THEN <<>> ELSE IF s[j] \in S THEN Append(g[j - 1], s[j]) ELSE g[j - 1]
       BY <2>3 DEF Computes
    <3>2. CASE k < m
      <4>1. h[k] = g[k] /\ (k # 0 => h[k - 1] = g[k - 1])
        BY <3>2
      <4>. QED BY <3>1, <3>2, <4>1
    <3>3. CASE k = m
      <4>1. h[m - 1] = g[m - 1]
        BY <2>2
      <4>. QED BY <2>2, <3>3, <4>1
    <3>. QED BY <3>2, <3>3
  <2>5. Computes(h, m, s, S)
    <3>1. h = [k \in 0..m |-> h[k]]
      OBVIOUS
    <3>. HIDE DEF h
    <3>. QED BY <2>4, <3>1 DEF Computes
  <2>. QED BY <2>5
<1>2. Len(s) \in Nat
  OBVIOUS
<1>. HIDE DEF P
<1>3. Len(s) \notin P
  BY <1>1
<1>. QED BY <1>2, <1>3 DEF P

\* Kept is what that recursion yields.
LEMMA KeptIs ==
  ASSUME NEW D, NEW s \in Seq(D), NEW S
  PROVE  \E g : Computes(g, Len(s), s, S) /\ Kept(s, S) = g[Len(s)]
<1>. DEFINE G == CHOOSE g : Computes(g, Len(s), s, S)
<1>1. Computes(G, Len(s), s, S)
  BY KeptExists, Zenon
<1>2. Kept(s, S) = G[Len(s)]
  BY Zenon DEF Kept, Computes
<1>. QED BY <1>1, <1>2, Zenon

\* The members of an extended sequence.
LEMMA AppendMembers ==
  ASSUME NEW D, NEW s \in Seq(D), NEW x \in D
  PROVE  Append(s, x) \in Seq(D) /\ ToSet(Append(s, x)) = ToSet(s) \cup {x}
<1>1. /\ Append(s, x) \in Seq(D) /\ DOMAIN Append(s, x) = 1..(Len(s) + 1)
      /\ Append(s, x)[Len(s) + 1] = x /\ \A i \in DOMAIN s : Append(s, x)[i] = s[i]
  OBVIOUS
<1>2. DOMAIN s = 1..Len(s) /\ Len(s) \in Nat
  OBVIOUS
<1>. QED BY <1>1, <1>2 DEF ToSet

\* Kept loses nothing of S and adds nothing.
LEMMA KeptMembers ==
  ASSUME NEW D, NEW s \in Seq(D), NEW S
  PROVE  Kept(s, S) \in Seq(D \cap S) /\ ToSet(Kept(s, S)) = ToSet(s) \cap S
<1>1. PICK g : Computes(g, Len(s), s, S) /\ Kept(s, S) = g[Len(s)]
  BY KeptIs
<1>. DEFINE Right(n) == g[n] \in Seq(D \cap S) /\ ToSet(g[n]) = {s[k] : k \in 1..n} \cap S
            P == {n \in 0..Len(s) : ~Right(n)}
<1>0. /\ g[0] = <<>>
      /\ \A n \in 1..Len(s) :
            g[n] = IF s[n] \in S THEN Append(g[n - 1], s[n]) ELSE g[n - 1]
  <2>1. g[0] = <<>>
    BY <1>1 DEF Computes
  <2>2. ASSUME NEW n \in 1..Len(s)
        PROVE  g[n] = IF s[n] \in S THEN Append(g[n - 1], s[n]) ELSE g[n - 1]
    <3>1. n \in 0..Len(s) /\ n # 0
      OBVIOUS
    <3>. QED BY <1>1, <3>1 DEF Computes
  <2>. QED BY <2>1, <2>2
<1>2. ASSUME P # {} PROVE FALSE
  <2>1. PICK m \in P : \A n \in P : m <= n
    <3>1. P \in SUBSET Nat
      OBVIOUS
    <3>. HIDE DEF P
    <3>. QED BY <1>2, <3>1, LeastNat
  <2>2. m # 0
    <3>1. Right(0)
      <4>1. ToSet(<<>>) = {} /\ {s[k] : k \in 1..0} = {}
        BY DEF ToSet
      <4>. QED BY <1>0, <4>1
    <3>. QED BY <2>1, <3>1
  <2>3. g[m - 1] \in Seq(D \cap S) /\ ToSet(g[m - 1]) = {s[k] : k \in 1..(m - 1)} \cap S
    <3>1. m - 1 \in 0..Len(s) /\ ~(m <= m - 1)
      BY <2>2
    <3>2. m - 1 \notin P
      BY <2>1, <3>1
    <3>. QED BY <3>1, <3>2
  <2>4. {s[k] : k \in 1..m} = {s[k] : k \in 1..(m - 1)} \cup {s[m]}
    BY <2>2
  <2>5. s[m] \in D
    BY <2>2
  <2>6. CASE s[m] \in S
    <3>1. g[m] = Append(g[m - 1], s[m])
      <4>1. m \in 1..Len(s)
        BY <2>2
      <4>. HIDE DEF P
      <4>. QED BY <1>0, <2>6, <4>1
    <3>2. g[m] \in Seq(D \cap S) /\ ToSet(g[m]) = ToSet(g[m - 1]) \cup {s[m]}
      <4>1. PICK E : E = D \cap S
        OBVIOUS
      <4>2. s[m] \in E /\ g[m - 1] \in Seq(E)
        BY <2>3, <2>5, <2>6, <4>1
      <4>3. /\ Append(g[m - 1], s[m]) \in Seq(E)
            /\ ToSet(Append(g[m - 1], s[m])) = ToSet(g[m - 1]) \cup {s[m]}
        BY <4>2, AppendMembers
      <4>. QED BY <3>1, <4>1, <4>3
    <3>. QED BY <2>1, <2>3, <2>4, <2>6, <3>2
  <2>7. CASE s[m] \notin S
    <3>1. g[m] = g[m - 1]
      BY <1>0, <2>2, <2>7
    <3>. QED BY <2>1, <2>3, <2>4, <2>7, <3>1
  <2>. QED BY <2>6, <2>7
<1>3. Len(s) \in 0..Len(s)
  OBVIOUS
<1>4. Right(Len(s))
  BY <1>2, <1>3
<1>5. ToSet(s) = {s[k] : k \in 1..Len(s)}
  BY DEF ToSet
<1>. QED BY <1>1, <1>4, <1>5

\* A set of messages in order has the members of the set.
LEMMA InOrderMembers ==
  ASSUME NEW S \in SUBSET Messages
  PROVE  InOrder(S) \in Seq(S) /\ ToSet(InOrder(S)) = S
<1>1. [m \in Messages |-> m] \in Seq(Messages) /\ ToSet([m \in Messages |-> m]) = Messages
  BY SteeringAssumption DEF Messages, ToSet
<1>2. Messages \cap S = S
  OBVIOUS
<1>. DEFINE all == [m \in Messages |-> m]
<1>3. InOrder(S) = Kept(all, S)
  BY DEF InOrder
<1>. HIDE DEF all
<1>4. all \in Seq(Messages) /\ ToSet(all) = Messages
  BY <1>1 DEF all
<1>5. Kept(all, S) \in Seq(Messages \cap S) /\ ToSet(Kept(all, S)) = ToSet(all) \cap S
  BY <1>4, KeptMembers
<1>. QED BY <1>2, <1>3, <1>4, <1>5

\* The members of two sequences put together.
LEMMA ConcatMembers ==
  ASSUME NEW D, NEW s \in Seq(D), NEW t \in Seq(D)
  PROVE  s \o t \in Seq(D) /\ ToSet(s \o t) = ToSet(s) \cup ToSet(t)
<1>1. /\ s \o t \in Seq(D) /\ DOMAIN (s \o t) = 1..(Len(s) + Len(t))
      /\ \A i \in 1..(Len(s) + Len(t)) : (s \o t)[i] = IF i <= Len(s) THEN s[i] ELSE t[i - Len(s)]
  OBVIOUS
<1>2. DOMAIN s = 1..Len(s) /\ Len(s) \in Nat /\ DOMAIN t = 1..Len(t) /\ Len(t) \in Nat
  OBVIOUS
<1>3. ASSUME NEW x \in ToSet(s \o t) PROVE x \in ToSet(s) \cup ToSet(t)
  <2>1. PICK i \in 1..(Len(s) + Len(t)) : x = (s \o t)[i]
    BY <1>1 DEF ToSet
  <2>2. CASE i <= Len(s)
    <3>1. i \in DOMAIN s /\ x = s[i]
      BY <1>1, <1>2, <2>1, <2>2
    <3>. QED BY <3>1 DEF ToSet
  <2>3. CASE ~(i <= Len(s))
    <3>1. i - Len(s) \in DOMAIN t /\ x = t[i - Len(s)]
      BY <1>1, <1>2, <2>1, <2>3
    <3>. QED BY <3>1 DEF ToSet
  <2>. QED BY <2>2, <2>3
<1>4. ASSUME NEW x \in ToSet(s) PROVE x \in ToSet(s \o t)
  <2>1. PICK i \in DOMAIN s : x = s[i]
    BY DEF ToSet
  <2>2. i \in DOMAIN (s \o t) /\ (s \o t)[i] = x
    BY <1>1, <1>2, <2>1
  <2>. QED BY <2>2 DEF ToSet
<1>5. ASSUME NEW x \in ToSet(t) PROVE x \in ToSet(s \o t)
  <2>1. PICK i \in DOMAIN t : x = t[i]
    BY DEF ToSet
  <2>2. i + Len(s) \in 1..(Len(s) + Len(t)) /\ ~(i + Len(s) <= Len(s)) /\ (i + Len(s)) - Len(s) = i
    BY <1>2, <2>1
  <2>3. i + Len(s) \in DOMAIN (s \o t) /\ (s \o t)[i + Len(s)] = x
    BY <1>1, <2>1, <2>2
  <2>. QED BY <2>3 DEF ToSet
<1>. QED BY <1>1, <1>3, <1>4, <1>5

\* The members of a sequence are its first and those of its tail.
LEMMA SplitMembers ==
  ASSUME NEW D, NEW s \in Seq(D), s # <<>>
  PROVE  /\ Head(s) = s[1] /\ s[1] \in D /\ Tail(s) \in Seq(D)
         /\ ToSet(s) = {s[1]} \cup ToSet(Tail(s))
<1>1. /\ Head(s) = s[1] /\ s[1] \in D /\ Tail(s) \in Seq(D)
      /\ DOMAIN Tail(s) = 1..(Len(s) - 1) /\ \A i \in 1..(Len(s) - 1) : Tail(s)[i] = s[i + 1]
  OBVIOUS
<1>2. DOMAIN s = 1..Len(s) /\ Len(s) \in Nat /\ Len(s) # 0
  OBVIOUS
<1>3. ASSUME NEW x \in ToSet(s) PROVE x \in {s[1]} \cup ToSet(Tail(s))
  <2>1. PICK i \in 1..Len(s) : x = s[i]
    BY <1>2 DEF ToSet
  <2>2. CASE i # 1
    <3>1. i - 1 \in 1..(Len(s) - 1) /\ (i - 1) + 1 = i
      BY <1>2, <2>2
    <3>2. Tail(s)[i - 1] = s[i]
      BY <1>1, <3>1
    <3>. QED BY <1>1, <2>1, <3>1, <3>2 DEF ToSet
  <2>. QED BY <2>1, <2>2
<1>4. ASSUME NEW x \in ToSet(Tail(s)) PROVE x \in ToSet(s)
  <2>1. PICK i \in 1..(Len(s) - 1) : x = Tail(s)[i]
    BY <1>1 DEF ToSet
  <2>2. i + 1 \in 1..Len(s)
    BY <1>2
  <2>. QED BY <1>1, <1>2, <2>1, <2>2 DEF ToSet
<1>5. 1 \in 1..Len(s)
  BY <1>2
<1>6. s[1] \in ToSet(s)
  BY <1>2, <1>5 DEF ToSet
<1>. QED BY <1>1, <1>3, <1>4, <1>6

\* The empty sequence has none.
LEMMA EmptyMembers == ToSet(<<>>) = {}
BY DEF ToSet

-----------------------------------------------------------------------------
(* The invariant.                                                           *)

\* A batch in the books, and a job.
Batch ==
  [todo : Seq(Users), cause : {"abort", "abnormal-seal", "exit-close"}, pending : BOOLEAN,
   route : {"teardown", "requeue"}, job : Nat,
   lane : {"first", "joined", "again", "release", "try1", "try2", "last", "end"}]
Write ==
  [kind : {"teardown", "requeue"}, todo : Seq(Users), enqueued : BOOLEAN,
   waiters : Seq(0..Len(batches))]

\* Of what kind the state is, as far as the argument needs it.
BatchesTyped == batches \in Seq(Batch)
JobsTyped == jobs = [i \in Batches |-> jobs[i]] /\ \A i \in Jobs : jobs[i] \in Write
DrainTyped ==
  /\ ready \in Seq(0..Len(batches)) /\ drain.todo \in Seq(Lanes)
  /\ drain \in [at : {"no", "inflight", "first", "second", "rest", "done"},
                 on : SUBSET Batches, todo : Seq(Nat), upto : Nat]
  /\ drain.at \in {"first", "second"} => drain.todo # <<>>
TurnTyped == 
  /\ accepted \subseteq Messages
  /\ waiting \in Seq(Messages) /\ claimed \in Seq(Messages)
QueueTyped == fallen \in Seq(Users) /\ rows \in Seq(Lanes)

\* What is written, what the requeue answers for, and what the turn holds.
Durable == ToSet(fallen) \cup InQueue
Safe == Tracked \cup Durable
Held == (IF phase = "running" THEN ToSet(waiting) ELSE {}) \cup ToSet(claimed) \cup consumed

\* Only a poll holds claims, only before the controls close; a turn whose host
\* has ended no longer runs.
Stages ==
  /\ host # "poll" => claimed = <<>>
  /\ host = "poll" => phase \in {"running", "aborted"}
  /\ host \in {"ended", "settling", "gone"} => phase # "running"

\* A job is that of the batch it began with; every batch that points to a job is
\* its only one, or is written by it; an enqueued row is durable.
Owned == \A i \in Jobs : i \in Lanes /\ batches[i].job = i
Covered ==
  \A k \in Lanes : batches[k].job \in Batches =>
    /\ batches[k].job \in Jobs
    /\ jobs[batches[k].job].kind = "requeue" => k = batches[k].job
    /\ jobs[batches[k].job].kind = "teardown" =>
         Queued(k) \subseteq Durable \cup ToSet(jobs[batches[k].job].todo)
Enqueued ==
  \A i \in Jobs : jobs[i].kind = "requeue" /\ jobs[i].enqueued => Queued(i) \subseteq Durable
Books == BatchesTyped /\ JobsTyped /\ Owned /\ Covered /\ Enqueued

\* What the requeue and the queue keep.
Stored == Books /\ QueueTyped

\* Users send messages.
LEMMA UsersAreMessages == Users \subseteq Messages
BY DEF Users

\* Batches stay where they are and give up only what has fallen; rows that go are run.
Keeps ==
  /\ Lanes \subseteq Lanes'
  /\ ToSet(fallen) \subseteq ToSet(fallen)'
  /\ \A k \in Lanes : Queued(k) \subseteq Queued(k)' \cup ToSet(fallen)'
  /\ \A k \in ToSet(rows) : k \in ToSet(rows)' \/ Queued(k) \subseteq ran'
  /\ ran \subseteq ran'

\* What is in the conversation or the queue stays there.
LEMMA DurableGrows ==
  ASSUME rows \in Seq(Lanes), Keeps
  PROVE  Durable \subseteq Durable'
<1>. SUFFICES ASSUME NEW m \in Durable PROVE m \in Durable'
  OBVIOUS
<1>1. CASE m \in ToSet(fallen) \cup ran
  BY <1>1 DEF Keeps, Durable, InQueue
<1>2. CASE m \in UNION {Queued(k) : k \in ToSet(rows)}
  <2>1. PICK k \in ToSet(rows) : m \in Queued(k)
    BY <1>2
  <2>2. k \in Lanes
    BY DEF ToSet
  <2>3. m \in Queued(k)' \cup ToSet(fallen)'
    BY <2>1, <2>2 DEF Keeps
  <2>. QED BY <2>1, <2>3 DEF Keeps, Durable, InQueue
<1>. QED BY <1>1, <1>2, Zenon DEF Durable, InQueue

\* So does what is tracked, if a batch that leaves the books is durable.
LEMMA SafeGrows ==
  ASSUME rows \in Seq(Lanes), Keeps,
         \A k \in Lanes : batches[k].pending => batches'[k].pending \/ Queued(k) \subseteq Durable'
  PROVE  Safe \subseteq Safe' /\ Durable \subseteq Durable'
<1>1. Durable \subseteq Durable'
  BY DurableGrows
<1>2. ASSUME NEW m \in Tracked PROVE m \in Safe'
  <2>1. PICK k \in Lanes : batches[k].pending /\ m \in Queued(k)
    BY <1>2 DEF Tracked
  <2>2. m \in Queued(k)' \cup ToSet(fallen)'
    BY <2>1 DEF Keeps
  <2>3. k \in Lanes'
    BY DEF Keeps
  <2>4. CASE batches'[k].pending
    BY <2>2, <2>3, <2>4 DEF Safe, Tracked, Durable
  <2>. QED BY <2>1, <2>4 DEF Safe
<1>. QED BY <1>1, <1>2 DEF Safe

\* The books hold on when jobs and batches say the same and more is durable.
LEMMA SameJobs ==
  ASSUME Owned, Covered, Enqueued, Lanes' = Lanes, Jobs' = Jobs, Durable \subseteq Durable',
         \A k \in Lanes : Queued(k)' = Queued(k) /\ batches'[k].job = batches[k].job,
         \A j \in Jobs : /\ jobs'[j].kind = jobs[j].kind
                         /\ jobs'[j].todo = jobs[j].todo /\ jobs'[j].enqueued = jobs[j].enqueued
  PROVE  Owned' /\ Covered' /\ Enqueued'
<1>1. Owned'
  BY DEF Owned
<1>2. Covered'
  <2>. SUFFICES ASSUME NEW k \in Lanes, batches[k].job \in Batches
               PROVE  /\ batches[k].job \in Jobs
                      /\ jobs'[batches[k].job].kind = "requeue" => k = batches[k].job
                      /\ jobs'[batches[k].job].kind = "teardown" =>
                           Queued(k) \subseteq Durable' \cup ToSet(jobs'[batches[k].job].todo)
    BY DEF Covered
  <2>. QED BY DEF Covered
<1>3. Enqueued'
  BY DEF Enqueued, Owned
<1>. QED BY <1>1, <1>2, <1>3

\* `start`: a batch joins the job that writes it or gets one; nothing is lost.
LEMMA AwaitStep ==
  ASSUME Stored, NEW i \in Lanes, NEW b \in Batch, NEW who \in 0..Len(batches),
         b.todo = batches[i].todo, b.job = batches[i].job, b.pending = batches[i].pending,
         Await(i, b, who), UNCHANGED <<fallen, rows, ran>>
  PROVE  Stored' /\ Len(batches') = Len(batches) /\ Safe \subseteq Safe'
<1>. USE DEF Stored, Books
<1>1. i \in Nat /\ i # 0 /\ Lanes = 1..Len(batches) /\ Len(batches) \in Nat
  BY DEF BatchesTyped, Lanes
<1>2. PICK c \in Batch : /\ batches' = [batches EXCEPT ![i] = c]
                         /\ c.todo = b.todo /\ c.pending = b.pending
                         /\ c.job = IF b.job # 0 THEN b.job ELSE i
  <2>1. CASE b.job # 0
    BY <2>1 DEF Await
  <2>2. CASE b.job = 0
    BY <1>1, <2>2 DEF Await, Batch
  <2>. QED BY <2>1, <2>2
<1>3. batches' \in Seq(Batch) /\ Len(batches') = Len(batches) /\ Lanes' = Lanes
  BY <1>1, <1>2 DEF BatchesTyped, Lanes
<1>4. \A k \in Lanes : /\ Queued(k)' = Queued(k) /\ batches'[k].pending = batches[k].pending
                       /\ batches'[k].job = IF k = i /\ b.job = 0 THEN i ELSE batches[k].job
  BY <1>2, <1>3 DEF BatchesTyped, Queued
<1>5. Keeps
  BY <1>3, <1>4 DEF Keeps
<1>6. Safe \subseteq Safe' /\ Durable \subseteq Durable'
  BY <1>4, <1>5, SafeGrows DEF QueueTyped
<1>7. Stored'
  <2>1. \A j \in Jobs : j \in Batches /\ j \in Nat /\ jobs[j] \in Write
    BY DEF JobsTyped, Jobs, Batches
  <2>2. Write' = Write
    BY <1>3 DEF Write
  <2>3. CASE b.job \in Jobs
    <3>1. b.job # 0 /\ jobs' = [jobs EXCEPT ![b.job].waiters = Append(@, who)]
      BY <2>1, <2>3 DEF Await, Batches
    <3>2. jobs' = [j \in Batches |-> jobs'[j]] /\ \A j \in Batches :
             jobs'[j] = IF j = b.job THEN [jobs[j] EXCEPT !.waiters = Append(@, who)] ELSE jobs[j]
      BY <3>1 DEF JobsTyped
    <3>3. \A j \in Jobs : /\ jobs'[j] \in Write /\ jobs'[j].kind = jobs[j].kind
                           /\ jobs'[j].todo = jobs[j].todo /\ jobs'[j].enqueued = jobs[j].enqueued
      <4>. SUFFICES ASSUME NEW j \in Jobs
                   PROVE  /\ jobs'[j] \in Write /\ jobs'[j].kind = jobs[j].kind
                          /\ jobs'[j].todo = jobs[j].todo /\ jobs'[j].enqueued = jobs[j].enqueued
        OBVIOUS
      <4>1. jobs[j] \in Write /\ j \in Batches
        BY <2>1
      <4>2. Append(jobs[j].waiters, who) \in Seq(0..Len(batches))
        BY <4>1, AppendMembers DEF Write
      <4>. QED BY <3>2, <4>1, <4>2 DEF Write
    <3>4. Jobs' = Jobs
      BY <2>1, <2>3, <3>2, <3>3 DEF Jobs, NoJob, Write
    <3>5. JobsTyped'
      BY <2>2, <3>2, <3>3, <3>4 DEF JobsTyped
    <3>. QED BY <1>3, <1>4, <1>6, <3>1, <3>3, <3>4, <3>5, SameJobs DEF BatchesTyped, QueueTyped
  <2>4. CASE b.job \notin Jobs /\ b.job # 0
    <3>1. b.job \notin Batches
      BY <2>4 DEF Covered
    <3>2. jobs' = jobs
      <4>1. \E x : jobs' = [jobs EXCEPT ![b.job] = x]
        BY <2>4 DEF Await
      <4>. QED BY <3>1, <4>1 DEF JobsTyped
    <3>3. Jobs' = Jobs
      BY <3>2 DEF Jobs
    <3>4. JobsTyped'
      BY <2>2, <3>2, <3>3 DEF JobsTyped
    <3>. QED BY <1>3, <1>4, <1>6, <2>4, <3>2, <3>3, <3>4, SameJobs DEF BatchesTyped, QueueTyped
  <2>5. CASE b.job = 0
    <3>1. jobs' = [jobs EXCEPT ![i] = Job(b, i, <<who>>)] /\ i \notin Jobs
      BY <1>1, <2>5 DEF Await, Owned
    <3>2. /\ Job(b, i, <<who>>) \in Write /\ Job(b, i, <<who>>).todo = batches[i].todo
          /\ ~Job(b, i, <<who>>).enqueued
      BY DEF Job, Write, Batch
    <3>3. jobs' = [j \in Batches |-> jobs'[j]] /\ \A j \in Batches :
             jobs'[j] = IF j = i THEN Job(b, i, <<who>>) ELSE jobs[j]
      BY <3>1 DEF JobsTyped
    <3>4. Jobs' = Jobs \cup ({i} \cap Batches)
      BY <3>2, <3>3 DEF Jobs, NoJob, Write
    <3>5. JobsTyped'
      BY <2>2, <2>1, <3>2, <3>3, <3>4 DEF JobsTyped
    <3>6. Owned'
      BY <1>3, <1>4, <2>5, <3>4 DEF Owned
    <3>7. Covered'
      <4>. SUFFICES ASSUME NEW k \in Lanes, batches'[k].job \in Batches
                   PROVE  /\ batches'[k].job \in Jobs'
                          /\ jobs'[batches'[k].job].kind = "requeue" => k = batches'[k].job
                          /\ jobs'[batches'[k].job].kind = "teardown" =>
                               Queued(k)' \subseteq Durable' \cup ToSet(jobs'[batches'[k].job].todo)
        BY <1>3 DEF Covered
      <4>1. CASE k = i
        BY <1>4, <2>5, <3>2, <3>3, <3>4, <4>1 DEF Queued
      <4>2. CASE k # i
        <5>1. batches'[k].job = batches[k].job /\ batches[k].job \in Jobs /\ batches[k].job # i
          BY <1>4, <3>1, <4>2 DEF Covered
        <5>. QED BY <1>4, <1>6, <3>3, <3>4, <5>1 DEF Covered
      <4>. QED BY <4>1, <4>2
    <3>8. Enqueued'
      BY <1>4, <1>6, <2>1, <3>1, <3>2, <3>3, <3>4 DEF Enqueued, Owned
    <3>. QED BY <1>3, <3>5, <3>6, <3>7, <3>8 DEF BatchesTyped, QueueTyped
  <2>. QED BY <2>3, <2>4, <2>5
<1>. QED BY <1>3, <1>6, <1>7

\* `discard`: the user's messages among those let go are tracked.
LEMMA DiscardStep ==
  ASSUME Stored, NEW msgs \in Seq(Messages), NEW cause \in {"abort", "abnormal-seal", "exit-close"},
         Discard(msgs, cause), UNCHANGED <<fallen, rows, ran>>
  PROVE  /\ Stored' /\ Len(batches') \in Nat /\ Len(batches) <= Len(batches')
         /\ Safe \subseteq Safe' /\ ToSet(msgs) \cap Users \subseteq Safe'
<1>. DEFINE h == Handed(msgs, cause)
<1>. PICK n : n = Len(batches) + 1
  OBVIOUS
<1>. USE DEF Stored, Books
<1>0. /\ Lanes = 1..Len(batches) /\ Len(batches) \in Nat
      /\ \A j \in Jobs : j \in Batches /\ j \in Nat /\ j # 0 /\ jobs[j] \in Write /\ j # n
  BY DEF BatchesTyped, Lanes, JobsTyped, Jobs, Batches, Owned
<1>1. h \in Batch /\ ToSet(h.todo) = ToSet(msgs) \cap Users /\ h.pending /\ h.job = 0 /\ h.todo = Kept(msgs, Users)
  <2>1. Kept(msgs, Users) \in Seq(Messages \cap Users) /\ ToSet(Kept(msgs, Users)) = ToSet(msgs) \cap Users
    BY KeptMembers
  <2>2. Messages \cap Users = Users
    BY UsersAreMessages
  <2>. QED BY <2>1, <2>2 DEF Handed, Batch
<1>. HIDE DEF h
<1>2. CASE h.todo = <<>>
  <2>1. UNCHANGED <<batches, jobs, fallen, rows, ran>>
    BY <1>2 DEF Discard, h
  <2>2. ToSet(msgs) \cap Users = {}
    BY <1>1, <1>2, EmptyMembers
  <2>3. Stored'
    <3>1. Lanes' = Lanes /\ Jobs' = Jobs /\ Write' = Write
      BY <2>1 DEF Lanes, Jobs, Write
    <3>2. \A k \in Lanes : Queued(k)' = Queued(k)
      BY <2>1 DEF Queued
    <3>3. Durable' = Durable
      BY <2>1 DEF Durable, InQueue, Queued
    <3>4. Owned' /\ Covered' /\ Enqueued'
      BY <2>1, <3>1, <3>2, <3>3, SameJobs
    <3>5. BatchesTyped' /\ JobsTyped' /\ QueueTyped'
      BY <2>1, <3>1 DEF BatchesTyped, JobsTyped, QueueTyped
    <3>. QED BY <3>4, <3>5
  <2>4. Safe' = Safe
    BY <2>1 DEF Safe, Durable, Tracked, InQueue, Queued, Lanes
  <2>. QED BY <1>0, <2>1, <2>2, <2>3, <2>4
<1>3. ASSUME h.todo # <<>>, NEW c \in Batch, batches' = Append(batches, c),
             c.todo = h.todo, c.pending, c.job \in {0, n}
      PROVE  /\ batches' \in Seq(Batch) /\ Len(batches') = n /\ Lanes' = Lanes \cup {n}
             /\ \A k \in Lanes : batches'[k] = batches[k] /\ Queued(k)' = Queued(k) /\ k # n
             /\ batches'[n] = c
             /\ Safe \subseteq Safe' /\ ToSet(msgs) \cap Users \subseteq Safe' /\ Durable \subseteq Durable'
  <2>1. batches' \in Seq(Batch) /\ Len(batches') = n /\ Lanes' = Lanes \cup {n}
    BY <1>0, <1>3 DEF BatchesTyped, Lanes
  <2>2. /\ \A k \in Lanes : batches'[k] = batches[k] /\ Queued(k)' = Queued(k) /\ k # n
        /\ batches'[n] = c
    BY <1>0, <1>3 DEF BatchesTyped, Queued
  <2>3. Keeps
    BY <2>1, <2>2 DEF Keeps
  <2>4. Safe \subseteq Safe' /\ Durable \subseteq Durable'
    BY <2>2, <2>3, SafeGrows DEF QueueTyped
  <2>5. ToSet(msgs) \cap Users = Queued(n)'
    <3>1. Queued(n)' = ToSet(c.todo)
      BY <2>2 DEF Queued, ToSet
    <3>2. c.todo = h.todo
      BY <1>3
    <3>. QED BY <1>1, <3>1, <3>2
  <2>6. ToSet(msgs) \cap Users \subseteq Safe'
    <3>1. n \in {k \in Lanes : batches[k].pending}'
      BY <1>3, <2>1, <2>2
    <3>2. Queued(n)' \subseteq Tracked'
      BY <3>1 DEF Tracked
    <3>. QED BY <2>5, <3>2 DEF Safe
  <2>. QED BY <2>1, <2>2, <2>4, <2>6
<1>4. ASSUME NEW w \in Seq(0..Len(batches)) PROVE w \in Seq(0..n)
  BY <1>0
<1>5. CASE h.todo # <<>> /\ h.route = "teardown"
  <2>1. batches' = Append(batches, h) /\ jobs' = jobs
    BY <1>5 DEF Discard, h
  <2>2. /\ batches' \in Seq(Batch) /\ Len(batches') = n /\ Lanes' = Lanes \cup {n}
        /\ \A k \in Lanes : batches'[k] = batches[k] /\ Queued(k)' = Queued(k) /\ k # n
        /\ batches'[n] = h
        /\ Safe \subseteq Safe' /\ ToSet(msgs) \cap Users \subseteq Safe' /\ Durable \subseteq Durable'
    BY <1>1, <1>3, <1>5, <2>1
  <2>3. Jobs' = Jobs
    BY <2>1 DEF Jobs
  <2>4. \A j \in Jobs : jobs[j] \in Write'
    BY <1>0, <1>4, <2>2 DEF Write
  <2>5. JobsTyped'
    BY <2>1, <2>3, <2>4 DEF JobsTyped
  <2>6. Owned'
    BY <2>2, <2>3 DEF Owned
  <2>7. Covered'
    <3>. SUFFICES ASSUME NEW k \in Lanes', batches'[k].job \in Batches
                 PROVE  /\ batches'[k].job \in Jobs'
                        /\ jobs'[batches'[k].job].kind = "requeue" => k = batches'[k].job
                        /\ jobs'[batches'[k].job].kind = "teardown" =>
                             Queued(k)' \subseteq Durable' \cup ToSet(jobs'[batches'[k].job].todo)
      BY DEF Covered
    <3>1. k # n
      BY <1>1, <2>2 DEF Batches
    <3>. QED BY <2>1, <2>2, <2>3, <3>1 DEF Covered
  <2>8. Enqueued'
    BY <2>1, <2>2, <2>3 DEF Enqueued, Owned
  <2>9. QueueTyped'
    BY <2>2 DEF QueueTyped
  <2>. QED BY <1>0, <2>2, <2>5, <2>6, <2>7, <2>8, <2>9 DEF BatchesTyped
<1>6. CASE h.todo # <<>> /\ h.route # "teardown"
  <2>. DEFINE c == [h EXCEPT !.job = n]
  <2>1. batches' = Append(batches, c) /\ jobs' = [jobs EXCEPT ![n] = Job(h, n, <<>>)]
    BY <1>6 DEF Discard, h
  <2>2. c \in Batch /\ c.todo = h.todo /\ c.pending /\ c.job = n
    BY <1>0, <1>1 DEF Batch
  <2>. HIDE DEF c
  <2>3. /\ batches' \in Seq(Batch) /\ Len(batches') = n /\ Lanes' = Lanes \cup {n}
        /\ \A k \in Lanes : batches'[k] = batches[k] /\ Queued(k)' = Queued(k) /\ k # n
        /\ batches'[n] = c
        /\ Safe \subseteq Safe' /\ ToSet(msgs) \cap Users \subseteq Safe' /\ Durable \subseteq Durable'
    BY <1>3, <1>6, <2>1, <2>2
  <2>4. Job(h, n, <<>>) \in Write' /\ ~Job(h, n, <<>>).enqueued /\ Job(h, n, <<>>).kind = "requeue"
    BY <1>1, <1>6 DEF Job, Write, Batch
  <2>5. jobs' = [j \in Batches |-> jobs'[j]] /\ \A j \in Batches :
             jobs'[j] = IF j = n THEN Job(h, n, <<>>) ELSE jobs[j]
    BY <2>1 DEF JobsTyped
  <2>6. Jobs' = Jobs \cup ({n} \cap Batches)
    BY <2>4, <2>5 DEF Jobs, NoJob, Write
  <2>7. \A j \in Jobs : jobs[j] \in Write'
    BY <1>0, <1>4, <2>3 DEF Write
  <2>8. JobsTyped'
    BY <1>0, <2>4, <2>5, <2>6, <2>7 DEF JobsTyped
  <2>9. Owned'
    BY <2>2, <2>3, <2>6 DEF Owned
  <2>10. Covered'
    <3>. SUFFICES ASSUME NEW k \in Lanes', batches'[k].job \in Batches
                 PROVE  /\ batches'[k].job \in Jobs'
                        /\ jobs'[batches'[k].job].kind = "requeue" => k = batches'[k].job
                        /\ jobs'[batches'[k].job].kind = "teardown" =>
                             Queued(k)' \subseteq Durable' \cup ToSet(jobs'[batches'[k].job].todo)
      BY DEF Covered
    <3>1. CASE k = n
      BY <2>2, <2>3, <2>4, <2>5, <2>6, <3>1
    <3>2. CASE k \in Lanes
      <4>1. batches'[k].job = batches[k].job /\ batches[k].job \in Jobs /\ batches[k].job # n
        BY <1>0, <2>3, <3>2 DEF Covered
      <4>. QED BY <2>3, <2>5, <2>6, <3>2, <4>1 DEF Covered
    <3>. QED BY <2>3, <3>1, <3>2
  <2>11. Enqueued'
    BY <1>0, <2>3, <2>4, <2>5, <2>6 DEF Enqueued, Owned
  <2>12. QueueTyped'
    BY <2>3 DEF QueueTyped
  <2>. QED BY <1>0, <2>3, <2>8, <2>9, <2>10, <2>11, <2>12 DEF BatchesTyped
<1>. QED BY <1>2, <1>5, <1>6

\* `persistTracked` is over: what left the books is durable.
LEMMA SettleStep ==
  ASSUME Stored, DrainTyped, NEW i \in Jobs, NEW ok \in BOOLEAN, NEW written,
         Settle(i, ok, written), written \subseteq ToSet(fallen)',
         fallen' \in Seq(Users), ToSet(fallen) \subseteq ToSet(fallen)',
         rows' \in Seq(Lanes), ToSet(rows) \subseteq ToSet(rows)', ran' = ran,
         ok /\ jobs[i].kind = "teardown" => ToSet(jobs[i].todo) \subseteq ToSet(fallen)',
         ok /\ jobs[i].kind = "requeue" => i \in ToSet(rows)' \/ Queued(i) \subseteq Durable
  PROVE  Stored' /\ DrainTyped' /\ Len(batches') = Len(batches) /\ Safe \subseteq Safe'
<1>. USE DEF Stored, Books
<1>0. /\ Lanes = 1..Len(batches) /\ Len(batches) \in Nat /\ i \in Lanes
      /\ \A j \in Jobs : j \in Batches /\ j \in Nat /\ j # 0 /\ jobs[j] \in Write
      /\ batches = [k \in Lanes |-> batches[k]]
  BY DEF BatchesTyped, Lanes, JobsTyped, Jobs, Batches, Owned
<1>1. \A k \in Lanes : batches[k] \in Batch
  BY <1>0 DEF BatchesTyped
<1>. DEFINE over(b) == [b EXCEPT
        !.todo = IF jobs[i].kind = "teardown" THEN Kept(@, Messages \ written) ELSE @,
        !.job = 0, !.lane = IF @ = "first" THEN "release" ELSE @]
      left(b) == [b EXCEPT !.pending = @ /\ ~(ok \/ b.todo = <<>>)]
<1>2. batches' = [k \in Lanes |-> IF batches[k].job = i THEN left(over(batches[k])) ELSE batches[k]]
  BY DEF Settle
<1>3. ASSUME NEW b \in Batch
      PROVE  /\ left(over(b)) \in Batch /\ left(over(b)).job = 0
             /\ ToSet(b.todo) \subseteq ToSet(left(over(b)).todo) \cup ToSet(fallen)'
             /\ b.pending => left(over(b)).pending \/ ok \/ ToSet(b.todo) \subseteq ToSet(fallen)'
             /\ jobs[i].kind = "requeue" => left(over(b)).todo = b.todo
             /\ ToSet(left(over(b)).todo) \subseteq ToSet(b.todo)
  <2>. DEFINE rest == IF jobs[i].kind = "teardown" THEN Kept(b.todo, Messages \ written) ELSE b.todo
  <2>1. /\ rest \in Seq(Users) /\ ToSet(b.todo) \subseteq ToSet(rest) \cup ToSet(fallen)'
        /\ ToSet(rest) \subseteq ToSet(b.todo)
    <3>1. b.todo \in Seq(Users)
      BY DEF Batch
    <3>2. /\ Kept(b.todo, Messages \ written) \in Seq(Users \cap (Messages \ written))
          /\ ToSet(Kept(b.todo, Messages \ written)) = ToSet(b.todo) \cap (Messages \ written)
      BY <3>1, KeptMembers
    <3>3. Kept(b.todo, Messages \ written) \in Seq(Users)
      BY <3>2
    <3>4. ToSet(b.todo) \subseteq Messages
      BY <3>1, UsersAreMessages DEF ToSet
    <3>. QED BY <3>1, <3>2, <3>3, <3>4
  <2>2. /\ left(over(b)).todo = rest /\ left(over(b)).job = 0
        /\ left(over(b)).pending = (b.pending /\ ~(ok \/ rest = <<>>))
    BY DEF Batch
  <2>3. left(over(b)) \in Batch
    <3>. HIDE DEF rest
    <3>1. /\ over(b) = [b EXCEPT !.todo = rest, !.job = 0, !.lane = IF @ = "first" THEN "release" ELSE @]
      BY DEF rest
    <3>2. over(b) \in Batch
      BY <2>1, <3>1 DEF Batch
    <3>. HIDE DEF over
    <3>. QED BY <3>2 DEF Batch
  <2>. HIDE DEF left, over
  <2>4. jobs[i].kind = "requeue" => rest = b.todo
    OBVIOUS
  <2>. HIDE DEF rest
  <2>. QED BY <2>1, <2>2, <2>3, <2>4, EmptyMembers
<1>. HIDE DEF left, over
<1>4. batches' \in Seq(Batch) /\ Len(batches') = Len(batches) /\ Lanes' = Lanes
  BY <1>0, <1>1, <1>2, <1>3 DEF Lanes
<1>5. \A k \in Lanes :
        /\ batches[k].job # i => batches'[k] = batches[k] /\ Queued(k)' = Queued(k)
        /\ batches[k].job = i => batches'[k] = left(over(batches[k])) /\ batches'[k].job = 0
        /\ Queued(k) \subseteq Queued(k)' \cup ToSet(fallen)'
        /\ Queued(k)' \subseteq Queued(k)
  <2>. TAKE k \in Lanes
  <2>1. batches'[k] = IF batches[k].job = i THEN left(over(batches[k])) ELSE batches[k]
    BY <1>2
  <2>2. Queued(k) = ToSet(batches[k].todo) /\ Queued(k)' = ToSet(batches'[k].todo)
    BY DEF Queued, ToSet
  <2>3. CASE batches[k].job = i
    BY <1>1, <1>3, <2>1, <2>2, <2>3
  <2>4. CASE batches[k].job # i
    BY <2>1, <2>2, <2>4
  <2>. QED BY <2>3, <2>4
<1>6. Keeps
  BY <1>4, <1>5 DEF Keeps
<1>7. Durable \subseteq Durable'
  BY <1>6, DurableGrows DEF QueueTyped
<1>8. ASSUME NEW k \in Lanes, batches[k].pending
      PROVE  batches'[k].pending \/ Queued(k) \subseteq Durable'
  <2>1. CASE batches[k].job # i
    BY <1>5, <1>8, <2>1
  <2>2. CASE batches[k].job = i /\ ~ok
    <3>1. batches'[k].pending \/ ToSet(batches[k].todo) \subseteq ToSet(fallen)'
      BY <1>1, <1>3, <1>5, <1>8, <2>2
    <3>. QED BY <3>1 DEF Queued, Durable
  <2>3. CASE batches[k].job = i /\ ok /\ jobs[i].kind = "teardown"
    <3>1. Queued(k) \subseteq Durable \cup ToSet(jobs[i].todo)
      BY <1>0, <2>3 DEF Covered
    <3>. QED BY <1>7, <2>3, <3>1 DEF Durable
  <2>4. CASE batches[k].job = i /\ ok /\ jobs[i].kind = "requeue"
    <3>1. k = i
      BY <1>0, <2>4 DEF Covered
    <3>2. Queued(i)' \subseteq Durable' \/ Queued(i) \subseteq Durable
      BY <2>4 DEF Durable, InQueue
    <3>. QED BY <1>5, <1>7, <3>1, <3>2 DEF Durable
  <2>. QED BY <1>0, <2>1, <2>2, <2>3, <2>4 DEF Write
<1>9. Safe \subseteq Safe'
  BY <1>6, <1>8, SafeGrows DEF QueueTyped
<1>10. jobs' = [j \in Batches |-> IF j = i THEN NoJob ELSE jobs[j]]
  BY DEF Settle, JobsTyped
<1>11. Jobs' = Jobs \ {i} /\ Write' = Write
  BY <1>4, <1>10 DEF Jobs, Write
<1>12. JobsTyped'
  BY <1>0, <1>10, <1>11 DEF JobsTyped
<1>13. Owned'
  BY <1>4, <1>5, <1>11 DEF Owned
<1>14. Covered'
  <2>. SUFFICES ASSUME NEW k \in Lanes', batches'[k].job \in Batches
               PROVE  /\ batches'[k].job \in Jobs'
                      /\ jobs'[batches'[k].job].kind = "requeue" => k = batches'[k].job
                      /\ jobs'[batches'[k].job].kind = "teardown" =>
                           Queued(k)' \subseteq Durable' \cup ToSet(jobs'[batches'[k].job].todo)
    BY DEF Covered
  <2>1. batches[k].job # i /\ k \in Lanes
    BY <1>4, <1>5 DEF Batches
  <2>2. batches'[k].job = batches[k].job /\ batches[k].job \in Jobs
    BY <1>5, <2>1 DEF Covered
  <2>. QED BY <1>5, <1>7, <1>10, <1>11, <2>1, <2>2 DEF Covered
<1>15. Enqueued'
  BY <1>0, <1>5, <1>7, <1>10, <1>11 DEF Enqueued, Owned
<1>16. QueueTyped'
  BY <1>4 DEF QueueTyped
<1>17. DrainTyped'
  <2>1. ready' = ready \o jobs[i].waiters /\ drain' = [drain EXCEPT !.on = @ \ {i}]
    BY DEF Settle
  <2>2. jobs[i].waiters \in Seq(0..Len(batches))
    BY <1>0 DEF Write
  <2>3. ready' \in Seq(0..Len(batches))
    BY <2>1, <2>2, ConcatMembers DEF DrainTyped
  <2>. QED BY <1>4, <2>1, <2>3 DEF DrainTyped
<1>. QED BY <1>4, <1>9, <1>12, <1>13, <1>14, <1>15, <1>16, <1>17 DEF BatchesTyped

\* The inductive invariant.
IInv ==
  TurnTyped /\ Stages /\ Stored /\ DrainTyped /\ accepted \cap Users \subseteq Held \cup Safe

\* Nothing changes for the requeue when neither books nor rows do.
LEMMA Stutter ==
  ASSUME Stored, UNCHANGED <<batches, jobs, fallen, rows, ran>>
  PROVE  Stored' /\ Len(batches') = Len(batches) /\ Safe' = Safe
<1>. USE DEF Stored, Books
<1>1. Lanes' = Lanes /\ Jobs' = Jobs /\ Write' = Write
  BY DEF Lanes, Jobs, Write
<1>2. \A k \in Lanes : Queued(k)' = Queued(k)
  BY DEF Queued
<1>3. Durable' = Durable
  BY DEF Durable, InQueue, Queued
<1>4. Owned' /\ Covered' /\ Enqueued'
  BY <1>1, <1>2, <1>3, SameJobs
<1>5. BatchesTyped' /\ JobsTyped' /\ QueueTyped'
  BY <1>1 DEF BatchesTyped, JobsTyped, QueueTyped
<1>6. Safe' = Safe
  BY <1>3 DEF Safe, Tracked, Queued, Lanes
<1>. QED BY <1>4, <1>5, <1>6

\* The drain's list stays valid while batches are added.
LEMMA DrainSame ==
  ASSUME Stored, DrainTyped, UNCHANGED <<ready, drain>>,
         batches' \in Seq(Batch), Len(batches) <= Len(batches')
  PROVE  DrainTyped'
<1>1. 0..Len(batches) \subseteq 0..Len(batches') /\ Lanes \subseteq Lanes'
  BY DEF Lanes, Stored, Books, BatchesTyped
<1>2. ready \in Seq(0..Len(batches')) /\ drain.todo \in Seq(Lanes')
  <2>1. ASSUME NEW S, NEW T, S \subseteq T, NEW s \in Seq(S) PROVE s \in Seq(T)
    BY <2>1
  <2>. QED BY <1>1, <2>1 DEF DrainTyped
<1>. QED BY <1>2 DEF DrainTyped

\* The actions that leave the turn alone.
LEMMA TurnUntouched ==
  ASSUME IInv, UNCHANGED turnV, Stored', DrainTyped', Safe \subseteq Safe'
  PROVE  IInv'
<1>1. TurnTyped' /\ Stages' /\ Held' = Held /\ accepted' = accepted
  BY DEF IInv, TurnTyped, Stages, Held, turnV
<1>. QED BY <1>1 DEF IInv

\* The drain awaits its next batch.
LEMMA VisitStep ==
  ASSUME Stored, NEW list \in Seq(Lanes), NEW upto \in Nat, Visit(list, upto),
         UNCHANGED <<fallen, rows, ran>>, ready' \in Seq(0..Len(batches))
  PROVE  Stored' /\ DrainTyped' /\ Safe \subseteq Safe'
<1>1. Jobs \in SUBSET Batches /\ Len(batches) \in Nat
  BY DEF Jobs, Stored, Books, BatchesTyped
<1>2. CASE list = <<>>
  <2>1. UNCHANGED <<batches, jobs>> /\ drain' = [at |-> "rest", on |-> Jobs, todo |-> <<>>, upto |-> upto]
    BY <1>2 DEF Visit
  <2>2. Stored' /\ Safe' = Safe
    BY <2>1, Stutter
  <2>3. DrainTyped'
    BY <1>1, <2>1 DEF DrainTyped, Lanes
  <2>. QED BY <2>2, <2>3
<1>3. CASE list # <<>>
  <2>1. /\ drain' = [at |-> "first", on |-> {}, todo |-> list, upto |-> upto]
        /\ Await(list[1], batches[list[1]], Drain)
    BY <1>3 DEF Visit
  <2>2. list[1] \in Lanes
    BY <1>3
  <2>3. batches[list[1]] \in Batch /\ Drain \in 0..Len(batches)
    BY <1>1, <2>2 DEF Stored, Books, BatchesTyped, Lanes, Drain
  <2>4. Stored' /\ Len(batches') = Len(batches) /\ Safe \subseteq Safe'
    BY <2>1, <2>2, <2>3, AwaitStep
  <2>5. Lanes' = Lanes
    BY <2>4 DEF Stored, Books, BatchesTyped, Lanes
  <2>6. list \in Seq(Nat)
    BY DEF Lanes, Stored, Books, BatchesTyped
  <2>7. DrainTyped'
    BY <1>3, <2>1, <2>4, <2>5, <2>6 DEF DrainTyped
  <2>. QED BY <2>4, <2>7
<1>. QED BY <1>2, <1>3

-----------------------------------------------------------------------------
\* A message falls into the conversation.
LEMMA LandStep ==
  ASSUME IInv, NEW i \in Batches, Land(i)
  PROVE  IInv'
<1>. USE DEF IInv
<1>1. /\ jobs[i].kind = "teardown" /\ UNCHANGED <<turnV, queueV>>
      /\ fallen' = IF jobs[i].todo = <<>> THEN fallen ELSE Append(fallen, Head(jobs[i].todo))
      /\ IF Len(jobs[i].todo) > 1
         THEN jobs' = [jobs EXCEPT ![i].todo = Tail(@)] /\ UNCHANGED <<batches, ready, drain>>
         ELSE Settle(i, TRUE, ToSet(fallen) \cup ToSet(jobs[i].todo))
  BY DEF Land
<1>2. i \in Jobs /\ jobs[i] \in Write /\ jobs[i].todo \in Seq(Users)
  BY <1>1 DEF Jobs, NoJob, Stored, Books, JobsTyped, Write
<1>3. fallen \in Seq(Users) /\ rows \in Seq(Lanes)
  BY DEF Stored, QueueTyped
<1>4. UNCHANGED <<rows, ran>>
  BY <1>1 DEF queueV
<1>5. CASE jobs[i].todo = <<>>
  <2>1. fallen' = fallen /\ Settle(i, TRUE, ToSet(fallen) \cup ToSet(jobs[i].todo)) /\ ToSet(jobs[i].todo) = {}
    <3>1. ~(Len(jobs[i].todo) > 1)
      BY <1>5
    <3>. QED BY <1>1, <1>5, <3>1, EmptyMembers, Zenon
  <2>2. ToSet(fallen)' = ToSet(fallen) /\ ToSet(rows)' = ToSet(rows) /\ rows' \in Seq(Lanes)
    BY <1>3, <1>4, <2>1
  <2>3. Stored' /\ DrainTyped' /\ Safe \subseteq Safe'
    BY <1>1, <1>2, <1>3, <1>4, <2>1, <2>2, SettleStep
  <2>. QED BY <1>1, <2>3, TurnUntouched
<1>6. CASE jobs[i].todo # <<>>
  <2>1. /\ Head(jobs[i].todo) = jobs[i].todo[1] /\ jobs[i].todo[1] \in Users
        /\ Tail(jobs[i].todo) \in Seq(Users)
        /\ ToSet(jobs[i].todo) = {jobs[i].todo[1]} \cup ToSet(Tail(jobs[i].todo))
    BY <1>2, <1>6, SplitMembers
  <2>2. /\ fallen' \in Seq(Users) /\ ToSet(fallen') = ToSet(fallen) \cup {jobs[i].todo[1]}
    BY <1>1, <1>3, <1>6, <2>1, AppendMembers
  <2>3. ToSet(fallen)' = ToSet(fallen) \cup {jobs[i].todo[1]}
    BY <2>2 DEF ToSet
  <2>4. CASE Len(jobs[i].todo) <= 1
    <3>1. Tail(jobs[i].todo) = <<>>
      BY <1>2, <1>6, <2>4
    <3>2. ToSet(jobs[i].todo) = {jobs[i].todo[1]}
      BY <2>1, <3>1, EmptyMembers
    <3>3. Settle(i, TRUE, ToSet(fallen) \cup ToSet(jobs[i].todo))
      <4>1. ~(Len(jobs[i].todo) > 1)
        BY <1>2, <2>4
      <4>. QED BY <1>1, <4>1, Zenon
    <3>4. ToSet(rows)' = ToSet(rows) /\ rows' \in Seq(Lanes)
      BY <1>3, <1>4
    <3>5. Stored' /\ DrainTyped' /\ Safe \subseteq Safe'
      BY <1>1, <1>2, <1>4, <2>2, <2>3, <3>2, <3>3, <3>4, SettleStep
    <3>. QED BY <1>1, <3>5, TurnUntouched
  <2>5. CASE Len(jobs[i].todo) > 1
    <3>1. jobs' = [jobs EXCEPT ![i].todo = Tail(@)] /\ UNCHANGED <<batches, ready, drain>>
      BY <1>1, <2>5
    <3>2. /\ jobs' = [j \in Batches |-> jobs'[j]] /\ jobs'[i] \in Write
          /\ jobs'[i] = [jobs[i] EXCEPT !.todo = Tail(jobs[i].todo)]
          /\ \A j \in Batches : j # i => jobs'[j] = jobs[j]
      BY <1>2, <2>1, <3>1 DEF Stored, Books, JobsTyped, Write
    <3>3. Jobs' = Jobs /\ Write' = Write /\ Lanes' = Lanes
      BY <1>2, <3>1, <3>2 DEF Jobs, NoJob, Write, Lanes
    <3>4. \A k \in Lanes : Queued(k)' = Queued(k)
      BY <3>1 DEF Queued
    <3>5. Keeps
      BY <1>4, <2>3, <3>3, <3>4 DEF Keeps
    <3>6. Safe \subseteq Safe' /\ Durable \subseteq Durable'
      BY <1>3, <3>1, <3>5, SafeGrows
    <3>7. Owned' /\ BatchesTyped' /\ JobsTyped' /\ QueueTyped'
      BY <1>3, <1>4, <2>2, <3>1, <3>2, <3>3 DEF Owned, BatchesTyped, JobsTyped, QueueTyped, Stored, Books
    <3>8. Covered'
      <4>. SUFFICES ASSUME NEW k \in Lanes', batches'[k].job \in Batches
                   PROVE  /\ batches'[k].job \in Jobs'
                          /\ jobs'[batches'[k].job].kind = "requeue" => k = batches'[k].job
                          /\ jobs'[batches'[k].job].kind = "teardown" =>
                               Queued(k)' \subseteq Durable' \cup ToSet(jobs'[batches'[k].job].todo)
        BY DEF Covered
      <4>1. k \in Lanes /\ batches'[k] = batches[k] /\ Queued(k)' = Queued(k)
        BY <3>1, <3>3, <3>4
      <4>2. CASE batches[k].job = i
        <5>1. jobs'[i].kind = "teardown" /\ jobs'[i].todo = Tail(jobs[i].todo)
          BY <1>1, <1>2, <3>2 DEF Write
        <5>2. Queued(k) \subseteq Durable \cup ToSet(jobs[i].todo)
          BY <1>1, <4>1, <4>2 DEF Covered, Stored, Books
        <5>3. jobs[i].todo[1] \in Durable'
          BY <2>3 DEF Durable
        <5>. QED BY <1>2, <2>1, <3>3, <3>6, <4>1, <4>2, <5>1, <5>2, <5>3
      <4>3. CASE batches[k].job # i
        BY <3>2, <3>3, <3>6, <4>1, <4>3 DEF Covered, Stored, Books
      <4>. QED BY <4>2, <4>3
    <3>9. Enqueued'
      <4>1. jobs'[i].kind = "teardown"
        BY <1>1, <1>2, <3>2 DEF Write
      <4>. QED BY <3>2, <3>3, <3>4, <3>6, <4>1 DEF Enqueued, Owned, Stored, Books, Jobs
    <3>10. Stored'
      BY <3>7, <3>8, <3>9 DEF Stored, Books
    <3>11. DrainTyped'
      BY <3>1, <3>3 DEF DrainTyped
    <3>. QED BY <1>1, <3>6, <3>10, <3>11, TurnUntouched
  <2>. QED BY <1>2, <2>4, <2>5
<1>. QED BY <1>5, <1>6

\* A failed write leaves in the books what it did not write.
LEMMA WriteFailsStep ==
  ASSUME IInv, NEW i \in Batches, WriteFails(i)
  PROVE  IInv'
<1>1. /\ i \in Jobs /\ Settle(i, FALSE, ToSet(fallen)) /\ UNCHANGED <<turnV, fallen, queueV>>
  BY DEF WriteFails, Jobs
<1>2. UNCHANGED <<fallen, rows, ran>> /\ fallen \in Seq(Users) /\ rows \in Seq(Lanes)
  BY <1>1 DEF IInv, Stored, QueueTyped, queueV
<1>3. ToSet(fallen)' = ToSet(fallen) /\ ToSet(rows)' = ToSet(rows)
  BY <1>2
<1>4. fallen' \in Seq(Users) /\ rows' \in Seq(Lanes)
  BY <1>2
<1>5. Stored' /\ DrainTyped' /\ Safe \subseteq Safe'
  BY <1>1, <1>2, <1>3, <1>4, SettleStep DEF IInv
<1>. QED BY <1>1, <1>5, TurnUntouched

\* A batch becomes a row: what the job has to write is in the queue.
LEMMA EnqueueStep ==
  ASSUME IInv, NEW i \in Batches, Enqueue(i)
  PROVE  IInv'
<1>. USE DEF IInv
<1>1. /\ jobs[i].kind = "requeue" /\ rows' = <<i>> \o Kept(rows, Lanes \ {i})
      /\ IF StopPauses(i)
         THEN /\ jobs' = [jobs EXCEPT ![i].enqueued = TRUE]
              /\ UNCHANGED <<batches, ready, drain, awake>>
         ELSE Settle(i, TRUE, {})
      /\ UNCHANGED <<turnV, fallen, ran>>
  BY DEF Enqueue
<1>2. i \in Jobs /\ jobs[i] \in Write /\ i \in Lanes
  BY <1>1 DEF Jobs, NoJob, Stored, Books, JobsTyped, Owned
<1>3. fallen \in Seq(Users) /\ rows \in Seq(Lanes)
  BY DEF Stored, QueueTyped
<1>4. rows' \in Seq(Lanes) /\ ToSet(rows)' = {i} \cup ToSet(rows)
  <2>1. /\ Kept(rows, Lanes \ {i}) \in Seq(Lanes \cap (Lanes \ {i}))
        /\ ToSet(Kept(rows, Lanes \ {i})) = ToSet(rows) \cap (Lanes \ {i})
    BY <1>3, KeptMembers
  <2>2. Kept(rows, Lanes \ {i}) \in Seq(Lanes)
    BY <2>1
  <2>3. <<i>> \in Seq(Lanes) /\ ToSet(<<i>>) = {i}
    BY <1>2 DEF ToSet
  <2>4. ToSet(rows) \subseteq Lanes
    BY <1>3 DEF ToSet
  <2>5. rows' \in Seq(Lanes) /\ ToSet(rows') = {i} \cup (ToSet(rows) \cap (Lanes \ {i}))
    <3>. DEFINE t == Kept(rows, Lanes \ {i})
                u == <<i>>
    <3>1. rows' = u \o t /\ u \in Seq(Lanes) /\ t \in Seq(Lanes)
      BY <1>1, <2>2, <2>3
    <3>2. ToSet(u) = {i} /\ ToSet(t) = ToSet(rows) \cap (Lanes \ {i})
      BY <2>1, <2>3
    <3>. HIDE DEF t, u
    <3>3. u \o t \in Seq(Lanes) /\ ToSet(u \o t) = ToSet(u) \cup ToSet(t)
      BY <3>1, ConcatMembers
    <3>. QED BY <3>1, <3>2, <3>3
  <2>6. ToSet(rows)' = ToSet(rows')
    BY DEF ToSet
  <2>. QED BY <2>4, <2>5, <2>6
<1>5. ToSet(fallen)' = ToSet(fallen) /\ fallen' \in Seq(Users) /\ ran' = ran
  BY <1>1, <1>3
<1>6. CASE ~StopPauses(i)
  <2>1. Settle(i, TRUE, {})
    BY <1>1, <1>6
  <2>2. Stored' /\ DrainTyped' /\ Safe \subseteq Safe'
    <3>1. /\ {} \subseteq ToSet(fallen)' /\ ToSet(fallen) \subseteq ToSet(fallen)'
          /\ ToSet(rows) \subseteq ToSet(rows)'
          /\ TRUE /\ jobs[i].kind = "teardown" => ToSet(jobs[i].todo) \subseteq ToSet(fallen)'
          /\ TRUE /\ jobs[i].kind = "requeue" => i \in ToSet(rows)' \/ Queued(i) \subseteq Durable
      BY <1>1, <1>4, <1>5
    <3>2. PICK none : none = {}
      OBVIOUS
    <3>3. Settle(i, TRUE, none) /\ none \subseteq ToSet(fallen)'
      BY <2>1, <3>2
    <3>. QED BY <1>2, <1>4, <1>5, <3>1, <3>3, SettleStep
  <2>. QED BY <1>1, <2>2, TurnUntouched
<1>7. CASE StopPauses(i)
  <2>1. jobs' = [jobs EXCEPT ![i].enqueued = TRUE] /\ UNCHANGED <<batches, ready, drain>>
    BY <1>1, <1>7
  <2>2. /\ jobs' = [j \in Batches |-> jobs'[j]] /\ jobs'[i] \in Write
        /\ jobs'[i] = [jobs[i] EXCEPT !.enqueued = TRUE]
        /\ \A j \in Batches : j # i => jobs'[j] = jobs[j]
    BY <1>2, <2>1 DEF Stored, Books, JobsTyped, Write
  <2>3. jobs'[i].kind = "requeue" /\ jobs'[i].todo = jobs[i].todo
    BY <1>1, <1>2, <2>2 DEF Write
  <2>4. Jobs' = Jobs /\ Write' = Write /\ Lanes' = Lanes
    BY <1>2, <2>1, <2>2, <2>3 DEF Jobs, NoJob, Write, Lanes
  <2>5. \A k \in Lanes : Queued(k)' = Queued(k)
    BY <2>1 DEF Queued
  <2>6. Keeps
    BY <1>4, <1>5, <2>4, <2>5 DEF Keeps
  <2>7. Safe \subseteq Safe' /\ Durable \subseteq Durable'
    BY <1>3, <2>1, <2>6, SafeGrows
  <2>8. Owned' /\ BatchesTyped' /\ JobsTyped' /\ QueueTyped'
    BY <1>3, <1>4, <1>5, <2>1, <2>2, <2>4 DEF Owned, BatchesTyped, JobsTyped, QueueTyped, Stored, Books
  <2>9. Covered'
    <3>. SUFFICES ASSUME NEW k \in Lanes', batches'[k].job \in Batches
                 PROVE  /\ batches'[k].job \in Jobs'
                        /\ jobs'[batches'[k].job].kind = "requeue" => k = batches'[k].job
                        /\ jobs'[batches'[k].job].kind = "teardown" =>
                             Queued(k)' \subseteq Durable' \cup ToSet(jobs'[batches'[k].job].todo)
      BY DEF Covered
    <3>1. k \in Lanes /\ batches'[k] = batches[k] /\ Queued(k)' = Queued(k)
      BY <2>1, <2>4, <2>5
    <3>2. CASE batches[k].job = i
      BY <1>1, <1>2, <2>3, <2>4, <3>1, <3>2 DEF Covered, Stored, Books
    <3>3. CASE batches[k].job # i
      BY <2>2, <2>4, <2>7, <3>1, <3>3 DEF Covered, Stored, Books
    <3>. QED BY <3>2, <3>3
  <2>10. Enqueued'
    <3>1. i \in ToSet(rows)'
      BY <1>4
    <3>2. Queued(i)' \subseteq Durable'
      BY <3>1 DEF Durable, InQueue
    <3>. QED BY <2>2, <2>4, <2>5, <2>7, <3>2 DEF Enqueued, Owned, Stored, Books, Jobs
  <2>11. Stored'
    BY <2>8, <2>9, <2>10 DEF Stored, Books
  <2>12. DrainTyped'
    BY <2>1, <2>4 DEF DrainTyped
  <2>. QED BY <1>1, <2>7, <2>11, <2>12, TurnUntouched
<1>. QED BY <1>6, <1>7

\* The pause that follows the row of a stopped turn ends the job.
LEMMA PauseStep ==
  ASSUME IInv, NEW i \in Batches, Pause(i)
  PROVE  IInv'
<1>. USE DEF IInv
<1>1. /\ jobs[i].kind = "requeue" /\ jobs[i].enqueued /\ Settle(i, TRUE, {})
      /\ UNCHANGED <<turnV, fallen, rows, ran>>
  BY DEF Pause
<1>2. i \in Jobs
  BY <1>1 DEF Jobs, NoJob
<1>3. fallen \in Seq(Users) /\ rows \in Seq(Lanes) /\ Queued(i) \subseteq Durable
  BY <1>1, <1>2 DEF Stored, QueueTyped, Books, Enqueued
<1>4. ToSet(fallen)' = ToSet(fallen) /\ ToSet(rows)' = ToSet(rows)
  BY <1>1
<1>5. fallen' \in Seq(Users) /\ rows' \in Seq(Lanes) /\ ran' = ran
  BY <1>1, <1>3
<1>6. Stored' /\ DrainTyped' /\ Safe \subseteq Safe'
  <2>1. /\ {} \subseteq ToSet(fallen)' /\ ToSet(fallen) \subseteq ToSet(fallen)'
        /\ ToSet(rows) \subseteq ToSet(rows)'
        /\ TRUE /\ jobs[i].kind = "teardown" => ToSet(jobs[i].todo) \subseteq ToSet(fallen)'
        /\ TRUE /\ jobs[i].kind = "requeue" => i \in ToSet(rows)' \/ Queued(i) \subseteq Durable
    BY <1>1, <1>3, <1>4
  <2>2. PICK none : none = {}
    OBVIOUS
  <2>3. Settle(i, TRUE, none) /\ none \subseteq ToSet(fallen)'
    BY <1>1, <2>2
  <2>. QED BY <1>2, <1>5, <2>1, <2>3, SettleStep
<1>. QED BY <1>1, <1>6, TurnUntouched

\* A lane goes on: it awaits the batch again or gives up waiting, not the batch.
LEMMA LaneStep ==
  ASSUME IInv, NEW i \in Batches, Lane(i)
  PROVE  IInv'
<1>. USE DEF IInv
<1>. DEFINE b == batches[i]
            next == [b EXCEPT !.lane = After(b), !.route = IF After(b) = "last" THEN "requeue" ELSE @]
<1>1. /\ ready # <<>> /\ Head(ready) = i /\ ready' = Tail(ready)
      /\ IF next.lane # "end" /\ (b.pending \/ next.lane = "joined")
         THEN Await(i, next, i)
         ELSE batches' = [batches EXCEPT ![i].lane = "end"] /\ UNCHANGED jobs
      /\ UNCHANGED <<turnV, drain, fallen, queueV>>
  BY DEF Lane
<1>2. /\ Lanes = 1..Len(batches) /\ Len(batches) \in Nat
      /\ ready \in Seq(0..Len(batches)) /\ i \in Nat /\ i # 0
  BY DEF Stored, Books, BatchesTyped, Lanes, DrainTyped, Batches
<1>3. i \in 0..Len(batches) /\ ready' \in Seq(0..Len(batches))
  BY <1>1, <1>2, SplitMembers
<1>4. i \in Lanes /\ batches[i] \in Batch
  BY <1>2, <1>3 DEF Stored, Books, BatchesTyped
<1>5. UNCHANGED <<fallen, rows, ran>>
  BY <1>1 DEF queueV
<1>6. Stored' /\ Len(batches') = Len(batches) /\ Safe \subseteq Safe'
  <2>1. CASE next.lane # "end" /\ (b.pending \/ next.lane = "joined")
    <3>1. After(b) \in {"joined", "again", "try1", "try2", "last", "end"}
      BY DEF After
    <3>2. next \in Batch /\ next.todo = b.todo /\ next.job = b.job /\ next.pending = b.pending
      BY <1>4, <3>1 DEF Batch
    <3>3. Await(i, next, i)
      BY <1>1, <2>1
    <3>. HIDE DEF next
    <3>. QED BY <1>3, <1>4, <1>5, <3>2, <3>3, AwaitStep
  <2>2. CASE ~(next.lane # "end" /\ (b.pending \/ next.lane = "joined"))
    <3>1. batches' = [batches EXCEPT ![i].lane = "end"] /\ UNCHANGED jobs
      BY <1>1, <2>2
    <3>2. /\ batches' \in Seq(Batch) /\ Len(batches') = Len(batches) /\ Lanes' = Lanes
          /\ \A k \in Lanes : batches'[k].todo = batches[k].todo /\ batches'[k].job = batches[k].job
                               /\ batches'[k].pending = batches[k].pending
      <4>. DEFINE c == [batches[i] EXCEPT !.lane = "end"]
      <4>1. batches' = [batches EXCEPT ![i] = c]
        BY <3>1
      <4>2. /\ c \in Batch /\ c.todo = batches[i].todo /\ c.job = batches[i].job
            /\ c.pending = batches[i].pending
        BY <1>4 DEF Batch
      <4>. HIDE DEF c
      <4>. QED BY <1>2, <1>4, <4>1, <4>2 DEF Stored, Books, BatchesTyped, Lanes
    <3>3. \A k \in Lanes : Queued(k)' = Queued(k)
      BY <3>2 DEF Queued, ToSet
    <3>4. Keeps
      BY <1>5, <3>2, <3>3 DEF Keeps
    <3>5. Safe \subseteq Safe' /\ Durable \subseteq Durable'
      BY <3>2, <3>4, SafeGrows DEF Stored, QueueTyped
    <3>6. Jobs' = Jobs /\ Write' = Write
      BY <3>1, <3>2 DEF Jobs, Write
    <3>7. Owned' /\ Covered' /\ Enqueued'
      BY <3>1, <3>2, <3>3, <3>5, <3>6, SameJobs DEF Stored, Books
    <3>8. BatchesTyped' /\ JobsTyped' /\ QueueTyped'
      BY <1>5, <3>1, <3>2, <3>6 DEF BatchesTyped, JobsTyped, QueueTyped, Stored, Books
    <3>. QED BY <3>2, <3>5, <3>7, <3>8 DEF Stored, Books
  <2>. QED BY <2>1, <2>2
<1>7. DrainTyped'
  BY <1>1, <1>3, <1>6 DEF DrainTyped, Lanes, Stored, Books, BatchesTyped
<1>. QED BY <1>1, <1>6, <1>7, TurnUntouched

\* The drain orders what is tracked.
LEMMA DrainStartsStep ==
  ASSUME IInv, DrainStarts
  PROVE  IInv'
<1>. USE DEF IInv
<1>. DEFINE tracked == {i \in Lanes : batches[i].pending}
            firsts == InOrder({Earliest(batches[i].todo) : i \in tracked})
            list == [n \in DOMAIN firsts |-> CHOOSE i \in tracked : Earliest(batches[i].todo) = firsts[n]]
<1>1. Visit(list, Len(batches)) /\ UNCHANGED <<turnV, ready, fallen, queueV>>
  BY DEF DrainStarts
<1>2. list \in Seq(Lanes)
  <2>1. PICK S : S = {Earliest(batches[i].todo) : i \in tracked}
    OBVIOUS
  <2>2. firsts \in Seq(S)
    <3>. DEFINE all == [m \in Messages |-> m]
    <3>1. all \in Seq(Messages)
      BY SteeringAssumption DEF Messages
    <3>2. firsts = Kept(all, S)
      BY <2>1 DEF InOrder
    <3>. HIDE DEF all, firsts
    <3>3. Kept(all, S) \in Seq(Messages \cap S)
      BY <3>1, KeptMembers
    <3>. QED BY <3>2, <3>3
  <2>3. ASSUME NEW n \in DOMAIN firsts PROVE list[n] \in Lanes
    <3>1. firsts[n] \in S
      BY <2>2, <2>3
    <3>2. \E i \in tracked : Earliest(batches[i].todo) = firsts[n]
      BY <2>1, <3>1
    <3>. QED BY <3>2
  <2>4. DOMAIN firsts = 1..Len(firsts) /\ Len(firsts) \in Nat
    BY <2>2
  <2>. HIDE DEF firsts
  <2>5. list = [n \in 1..Len(firsts) |-> list[n]]
    BY <2>4
  <2>. HIDE DEF list
  <2>. QED BY <2>3, <2>4, <2>5
<1>. HIDE DEF list
<1>3. UNCHANGED <<fallen, rows, ran>> /\ ready' \in Seq(0..Len(batches)) /\ Len(batches) \in Nat
  BY <1>1 DEF queueV, DrainTyped, Stored, Books, BatchesTyped
<1>4. Stored' /\ DrainTyped' /\ Safe \subseteq Safe'
  BY <1>1, <1>2, <1>3, VisitStep
<1>. QED BY <1>1, <1>4, TurnUntouched

\* The drain sends what could not fall to the queue, or goes on.
LEMMA DrainContinuesStep ==
  ASSUME IInv, DrainContinues
  PROVE  IInv'
<1>. USE DEF IInv
<1>. DEFINE i == drain.todo[1]
            c == [batches[i] EXCEPT !.route = "requeue"]
<1>1. /\ ready # <<>> /\ ready' = Tail(ready) /\ drain.at \in {"first", "second"}
      /\ IF drain.at = "first" /\ batches[i].route = "teardown" /\ batches[i].pending
         THEN Await(i, c, Drain) /\ drain' = [drain EXCEPT !.at = "second"]
         ELSE Visit(Tail(drain.todo), drain.upto)
      /\ UNCHANGED <<turnV, fallen, queueV>>
  BY DEF DrainContinues
<1>2. /\ drain.todo \in Seq(Lanes) /\ drain.todo # <<>> /\ ready \in Seq(0..Len(batches))
      /\ Lanes = 1..Len(batches) /\ Len(batches) \in Nat /\ drain.upto \in Nat
  BY <1>1 DEF DrainTyped, Stored, Books, BatchesTyped, Lanes
<1>3. i \in Lanes /\ Tail(drain.todo) \in Seq(Lanes) /\ ready' \in Seq(0..Len(batches))
  BY <1>1, <1>2, SplitMembers
<1>4. UNCHANGED <<fallen, rows, ran>>
  BY <1>1 DEF queueV
<1>5. CASE drain.at = "first" /\ batches[i].route = "teardown" /\ batches[i].pending
  <2>1. Await(i, c, Drain) /\ drain' = [drain EXCEPT !.at = "second"]
    BY <1>1, <1>5
  <2>2. batches[i] \in Batch
    BY <1>3 DEF Stored, Books, BatchesTyped, Lanes
  <2>3. c \in Batch /\ c.todo = batches[i].todo /\ c.job = batches[i].job /\ c.pending = batches[i].pending
    BY <2>2 DEF Batch
  <2>4. Drain \in 0..Len(batches)
    BY <1>2 DEF Drain
  <2>5. PICK k \in Lanes : k = i
    BY <1>3
  <2>6. Await(k, c, Drain) /\ c.todo = batches[k].todo /\ c.job = batches[k].job /\ c.pending = batches[k].pending
    BY <2>1, <2>3, <2>5
  <2>. HIDE DEF c, i
  <2>7. Stored' /\ Len(batches') = Len(batches) /\ Safe \subseteq Safe'
    BY <1>4, <2>3, <2>4, <2>6, AwaitStep
  <2>8. Lanes' = Lanes
    BY <1>2, <2>7 DEF Stored, Books, BatchesTyped, Lanes
  <2>9. DrainTyped'
    BY <1>2, <1>3, <2>1, <2>7, <2>8 DEF DrainTyped
  <2>. QED BY <1>1, <2>7, <2>9, TurnUntouched
<1>6. CASE ~(drain.at = "first" /\ batches[i].route = "teardown" /\ batches[i].pending)
  <2>1. Visit(Tail(drain.todo), drain.upto)
    BY <1>1, <1>6
  <2>2. Stored' /\ DrainTyped' /\ Safe \subseteq Safe'
    BY <1>2, <1>3, <1>4, <2>1, VisitStep
  <2>. QED BY <1>1, <2>2, TurnUntouched
<1>. QED BY <1>5, <1>6

\* The drain is done.
LEMMA DrainEndsStep ==
  ASSUME IInv, DrainEnds
  PROVE  IInv'
<1>1. UNCHANGED <<turnV, batches, jobs, ready, fallen, rows, ran>> /\ drain' = [drain EXCEPT !.at = "done"]
  BY DEF DrainEnds, queueV
<1>2. Stored' /\ Len(batches') = Len(batches) /\ Safe' = Safe
  BY <1>1, Stutter DEF IInv
<1>3. DrainTyped'
  BY <1>1 DEF DrainTyped, Lanes, IInv
<1>. QED BY <1>1, <1>2, <1>3, TurnUntouched

\* A dispatched row leaves the queue to be run.
LEMMA DispatchStep ==
  ASSUME IInv, Dispatch
  PROVE  IInv'
<1>. USE DEF IInv
<1>1. /\ UNCHANGED <<turnV, batches, jobs, ready, drain, fallen>>
      /\ \/ UNCHANGED <<rows, ran>>
         \/ /\ rows # <<>> /\ rows' = Tail(rows)
            /\ ran' = ran \cup ToSet(batches[rows[1]].todo)
  BY DEF Dispatch
<1>2. CASE UNCHANGED <<rows, ran>>
  <2>1. Stored' /\ Safe' = Safe
    BY <1>1, <1>2, Stutter
  <2>2. DrainTyped'
    BY <1>1 DEF DrainTyped, Lanes
  <2>. QED BY <1>1, <2>1, <2>2, TurnUntouched
<1>3. CASE rows # <<>> /\ rows' = Tail(rows) /\ ran' = ran \cup ToSet(batches[rows[1]].todo)
  <2>1. rows \in Seq(Lanes)
    BY DEF Stored, QueueTyped
  <2>2. rows' \in Seq(Lanes) /\ ToSet(rows) = {rows[1]} \cup ToSet(Tail(rows))
    BY <1>3, <2>1, SplitMembers
  <2>3. ToSet(rows)' = ToSet(Tail(rows)) /\ ToSet(fallen)' = ToSet(fallen)
    BY <1>1, <1>3 DEF ToSet
  <2>4. Lanes' = Lanes /\ Jobs' = Jobs /\ \A k \in Lanes : Queued(k)' = Queued(k)
    BY <1>1 DEF Lanes, Jobs, Queued
  <2>5. Queued(rows[1]) \subseteq ran'
    BY <1>3 DEF Queued
  <2>6. Keeps
    BY <1>3, <2>2, <2>3, <2>4, <2>5 DEF Keeps
  <2>7. Safe \subseteq Safe' /\ Durable \subseteq Durable'
    BY <1>1, <2>1, <2>6, SafeGrows
  <2>8. Owned' /\ Covered' /\ Enqueued'
    BY <1>1, <2>4, <2>7, SameJobs DEF Stored, Books
  <2>9. BatchesTyped' /\ JobsTyped' /\ QueueTyped'
    BY <1>1, <2>2, <2>4 DEF BatchesTyped, JobsTyped, QueueTyped, Write, Stored, Books
  <2>10. DrainTyped'
    BY <1>1, <2>4 DEF DrainTyped
  <2>. QED BY <1>1, <2>7, <2>8, <2>9, <2>10, TurnUntouched DEF Stored, Books
<1>. QED BY <1>1, <1>2, <1>3

\* Wakes and the user's continue move no message.
LEMMA QueueWakesStep ==
  ASSUME IInv, OtherWake \/ ContinueQueue
  PROVE  IInv'
<1>1. UNCHANGED <<turnV, batches, jobs, ready, drain, fallen, rows, ran>>
  BY DEF OtherWake, ContinueQueue
<1>2. Stored' /\ Safe' = Safe
  BY <1>1, Stutter DEF IInv
<1>3. DrainTyped'
  BY <1>1 DEF DrainTyped, Lanes, IInv
<1>. QED BY <1>1, <1>2, <1>3, TurnUntouched

-----------------------------------------------------------------------------
\* An accepted message waits.
LEMMA SteerStep ==
  ASSUME IInv, NEW m \in Messages, Steer(m)
  PROVE  IInv'
<1>. USE DEF IInv
<1>1. /\ phase = "running" /\ accepted' = accepted \cup {m} /\ waiting' = Append(waiting, m)
      /\ UNCHANGED <<phase, host, claimed, consumed, batches, jobs, ready, drain, fallen, rows, ran>>
  BY DEF Steer, queueV
<1>2. Stored' /\ Safe' = Safe
  BY <1>1, Stutter
<1>3. waiting' \in Seq(Messages) /\ ToSet(waiting)' = ToSet(waiting) \cup {m}
  <2>1. Append(waiting, m) \in Seq(Messages) /\ ToSet(Append(waiting, m)) = ToSet(waiting) \cup {m}
    BY AppendMembers DEF TurnTyped
  <2>. QED BY <1>1, <2>1 DEF ToSet
<1>4. DrainTyped' /\ Stages' /\ TurnTyped'
  BY <1>1, <1>3 DEF DrainTyped, Lanes, Stages, TurnTyped
<1>5. Held' = Held \cup {m}
  BY <1>1, <1>3 DEF Held
<1>. QED BY <1>1, <1>2, <1>4, <1>5

\* What waits goes to the poll.
LEMMA PollStep ==
  ASSUME IInv, Poll
  PROVE  IInv'
<1>. USE DEF IInv
<1>1. /\ phase = "running" /\ host = "idle" /\ host' = "poll" /\ claimed' = waiting /\ waiting' = <<>>
      /\ UNCHANGED <<phase, accepted, consumed, batches, jobs, ready, drain, fallen, rows, ran>>
  BY DEF Poll, queueV
<1>2. Stored' /\ Safe' = Safe
  BY <1>1, Stutter
<1>3. ToSet(claimed)' = ToSet(waiting) /\ ToSet(claimed) = {}
  <2>1. claimed = <<>>
    BY <1>1 DEF Stages
  <2>. QED BY <1>1, <2>1, EmptyMembers DEF ToSet
<1>4. DrainTyped' /\ Stages' /\ TurnTyped'
  BY <1>1 DEF DrainTyped, Lanes, Stages, TurnTyped
<1>5. Held \subseteq Held'
  BY <1>1, <1>3 DEF Held
<1>. QED BY <1>1, <1>2, <1>4, <1>5

\* What a poll does not take goes back or is handed over.
LEMMA RestoreStep ==
  ASSUME IInv, host = "poll", NEW msgs \in Seq(Messages), Restore(msgs),
         consumed \subseteq consumed', ToSet(claimed) \subseteq ToSet(msgs) \cup consumed'
  PROVE  IInv'
<1>. USE DEF IInv
<1>1. /\ host' = "idle" /\ claimed' = <<>>
      /\ IF phase = "aborted"
         THEN Discard(msgs, "abort") /\ UNCHANGED waiting
         ELSE waiting' = msgs \o waiting /\ UNCHANGED <<batches, jobs>>
      /\ UNCHANGED <<phase, accepted, ready, drain, fallen, rows, ran>>
  BY DEF Restore, queueV
<1>2. Stages'
  BY <1>1 DEF Stages
<1>3. CASE phase = "aborted"
  <2>1. Discard(msgs, "abort") /\ waiting' = waiting
    BY <1>1, <1>3
  <2>2. /\ Stored' /\ Len(batches) <= Len(batches')
        /\ Safe \subseteq Safe' /\ ToSet(msgs) \cap Users \subseteq Safe'
    BY <1>1, <2>1, DiscardStep
  <2>3. DrainTyped'
    BY <1>1, <2>2, DrainSame DEF Stored, Books, BatchesTyped
  <2>4. TurnTyped'
    BY <1>1, <2>1 DEF TurnTyped
  <2>5. Held = ToSet(claimed) \cup consumed /\ consumed' \subseteq Held'
    BY <1>3 DEF Held
  <2>. QED BY <1>1, <1>2, <2>2, <2>3, <2>4, <2>5
<1>4. CASE phase # "aborted"
  <2>1. waiting' = msgs \o waiting /\ UNCHANGED <<batches, jobs>>
    BY <1>1, <1>4
  <2>2. waiting' \in Seq(Messages) /\ ToSet(waiting)' = ToSet(msgs) \cup ToSet(waiting)
    <3>1. msgs \o waiting \in Seq(Messages) /\ ToSet(msgs \o waiting) = ToSet(msgs) \cup ToSet(waiting)
      BY ConcatMembers DEF TurnTyped
    <3>. QED BY <2>1, <3>1 DEF ToSet
  <2>3. Stored' /\ Safe' = Safe
    BY <1>1, <2>1, Stutter
  <2>4. DrainTyped'
    BY <1>1, <2>1 DEF DrainTyped, Lanes
  <2>5. phase = "running"
    BY <1>4 DEF Stages
  <2>6. TurnTyped' /\ Held \subseteq Held'
    BY <1>1, <2>2, <2>5 DEF TurnTyped, Held
  <2>. QED BY <1>1, <1>2, <2>3, <2>4, <2>6
<1>. QED BY <1>3, <1>4

\* The poll reads what it takes and restores the rest, or restores everything.
LEMMA PollEndsStep ==
  ASSUME IInv, PollConsumes \/ PollGivesUp
  PROVE  IInv'
<1>1. host = "poll" /\ claimed \in Seq(Messages)
  BY DEF PollConsumes, PollGivesUp, IInv, TurnTyped
<1>2. CASE PollConsumes
  <2>. DEFINE S == {m \in Messages : ~Takes(m)}
              msgs == Kept(claimed, S)
  <2>1. Restore(msgs) /\ consumed' = consumed \cup {m \in ToSet(claimed) : Takes(m)}
    BY <1>2 DEF PollConsumes
  <2>2. msgs \in Seq(Messages) /\ ToSet(msgs) = ToSet(claimed) \cap S
    <3>1. msgs \in Seq(Messages \cap S) /\ ToSet(msgs) = ToSet(claimed) \cap S
      BY <1>1, KeptMembers
    <3>. HIDE DEF msgs, S
    <3>. QED BY <3>1
  <2>3. ToSet(claimed) \subseteq Messages
    BY <1>1 DEF ToSet
  <2>4. ToSet(claimed) \subseteq ToSet(msgs) \cup consumed'
    BY <2>1, <2>2, <2>3
  <2>. HIDE DEF msgs
  <2>. QED BY <1>1, <2>1, <2>2, <2>4, RestoreStep
<1>3. CASE PollGivesUp
  <2>1. Restore(claimed) /\ consumed' = consumed
    BY <1>3 DEF PollGivesUp
  <2>. QED BY <1>1, <2>1, RestoreStep
<1>. QED BY <1>2, <1>3

\* The controls close: what waits is handed over.
LEMMA HandOver ==
  ASSUME IInv, phase = "running", phase' # "running", waiting' = <<>>,
         NEW cause \in {"abort", "abnormal-seal", "exit-close"}, Discard(waiting, cause),
         UNCHANGED <<accepted, claimed, consumed, fallen, rows, ran>>
  PROVE  /\ Stored' /\ TurnTyped' /\ Len(batches') \in Nat /\ Len(batches) <= Len(batches')
         /\ accepted' \cap Users \subseteq Held' \cup Safe'
<1>. USE DEF IInv
<1>1. waiting \in Seq(Messages)
  BY DEF TurnTyped
<1>2. /\ Stored' /\ Len(batches') \in Nat /\ Len(batches) <= Len(batches')
      /\ Safe \subseteq Safe' /\ ToSet(waiting) \cap Users \subseteq Safe'
  BY <1>1, DiscardStep
<1>3. TurnTyped'
  BY DEF TurnTyped
<1>4. Held = ToSet(waiting) \cup ToSet(claimed) \cup consumed
  BY DEF Held
<1>5. Held' = ToSet(claimed) \cup consumed
  BY DEF Held, ToSet
<1>. QED BY <1>2, <1>3, <1>4, <1>5

\* The exit boundary closes the controls.
LEMMA TryBeginCloseStep ==
  ASSUME IInv, TryBeginClose
  PROVE  IInv'
<1>1. /\ host = "idle" /\ phase = "running" /\ phase' = "closing" /\ waiting' = <<>>
      /\ Discard(waiting, "exit-close")
      /\ UNCHANGED <<host, accepted, claimed, consumed, ready, drain, fallen, rows, ran>>
  BY DEF TryBeginClose, queueV
<1>2. /\ Stored' /\ TurnTyped' /\ Len(batches) <= Len(batches')
      /\ accepted' \cap Users \subseteq Held' \cup Safe'
  BY <1>1, HandOver
<1>3. DrainTyped'
  BY <1>1, <1>2, DrainSame DEF IInv, Stored, Books, BatchesTyped
<1>4. Stages'
  BY <1>1 DEF Stages, IInv
<1>. QED BY <1>2, <1>3, <1>4 DEF IInv

\* `abortEntry` hands over what waits; a poll keeps what it holds.
LEMMA AbortEntryStep ==
  ASSUME IInv, NEW r, phase = "running", AbortEntry(r), UNCHANGED <<fallen, rows, ran>>
  PROVE  /\ Stored' /\ TurnTyped' /\ Stages' /\ Len(batches') \in Nat /\ Len(batches) <= Len(batches')
         /\ accepted' \cap Users \subseteq Held' \cup Safe'
<1>1. /\ phase' = "aborted" /\ waiting' = <<>> /\ Discard(waiting, "abort")
      /\ UNCHANGED <<host, accepted, claimed, consumed>>
  BY DEF AbortEntry
<1>2. /\ Stored' /\ TurnTyped' /\ Len(batches') \in Nat /\ Len(batches) <= Len(batches')
      /\ accepted' \cap Users \subseteq Held' \cup Safe'
  BY <1>1, HandOver
<1>3. Stages'
  BY <1>1 DEF Stages, IInv
<1>. QED BY <1>2, <1>3

\* An abort of the turn.
LEMMA AbortStep ==
  ASSUME IInv, NEW r, Abort(r)
  PROVE  IInv'
<1>1. phase = "running" /\ AbortEntry(r) /\ UNCHANGED <<ready, drain, fallen, rows, ran>>
  BY DEF Abort, queueV
<1>2. /\ Stored' /\ TurnTyped' /\ Stages' /\ Len(batches) <= Len(batches')
      /\ accepted' \cap Users \subseteq Held' \cup Safe'
  BY <1>1, AbortEntryStep
<1>3. DrainTyped'
  BY <1>1, <1>2, DrainSame DEF IInv, Stored, Books, BatchesTyped
<1>. QED BY <1>2, <1>3 DEF IInv

\* A shutdown aborts the turn and starts the drain.
LEMMA ShutdownStep ==
  ASSUME IInv, Shutdown
  PROVE  IInv'
<1>1. /\ IF phase = "running" THEN AbortEntry("other") ELSE UNCHANGED <<turnV, batches, jobs>>
      /\ drain' = [at |-> "inflight", on |-> Jobs, todo |-> <<>>, upto |-> 0]
      /\ UNCHANGED <<ready, fallen, rows, ran>>
  BY DEF Shutdown, queueV
<1>2. ASSUME batches' \in Seq(Batch), Len(batches) <= Len(batches')
      PROVE  DrainTyped'
  <2>1. 0..Len(batches) \subseteq 0..Len(batches') /\ ready \in Seq(0..Len(batches))
    BY <1>2 DEF IInv, Stored, Books, BatchesTyped, DrainTyped
  <2>2. ASSUME NEW S, NEW T, S \subseteq T, NEW s \in Seq(S) PROVE s \in Seq(T)
    BY <2>2
  <2>3. ready \in Seq(0..Len(batches'))
    BY <2>1, <2>2
  <2>4. Jobs \in SUBSET Batches
    BY DEF Jobs
  <2>. QED BY <1>1, <2>3, <2>4 DEF DrainTyped
<1>3. CASE phase = "running"
  <2>1. /\ Stored' /\ TurnTyped' /\ Stages' /\ Len(batches) <= Len(batches')
        /\ accepted' \cap Users \subseteq Held' \cup Safe'
    BY <1>1, <1>3, AbortEntryStep
  <2>2. DrainTyped'
    BY <1>2, <2>1 DEF Stored, Books, BatchesTyped
  <2>. QED BY <2>1, <2>2 DEF IInv
<1>4. CASE phase # "running"
  <2>1. UNCHANGED <<turnV, batches, jobs>>
    BY <1>1, <1>4
  <2>2. Stored' /\ Safe' = Safe
    BY <1>1, <2>1, Stutter DEF IInv
  <2>3. DrainTyped'
    BY <1>2, <2>1 DEF IInv, Stored, Books, BatchesTyped
  <2>. QED BY <2>1, <2>2, <2>3, TurnUntouched
<1>. QED BY <1>3, <1>4

\* The host's outcome seals the controls of a turn that is still open.
LEMMA HostEndsStep ==
  ASSUME IInv, HostEnds
  PROVE  IInv'
<1>1. /\ host = "idle" /\ host' = "ended"
      /\ IF phase = "running"
         THEN phase' = "closing" /\ waiting' = <<>> /\ Discard(waiting, "abnormal-seal")
         ELSE UNCHANGED <<phase, waiting, batches, jobs>>
      /\ UNCHANGED <<accepted, claimed, consumed, ready, drain, fallen, rows, ran>>
  BY DEF HostEnds, queueV
<1>2. Stages'
  BY <1>1 DEF Stages, IInv
<1>3. CASE phase = "running"
  <2>1. phase' = "closing" /\ waiting' = <<>> /\ Discard(waiting, "abnormal-seal")
    BY <1>1, <1>3
  <2>2. /\ Stored' /\ TurnTyped' /\ Len(batches) <= Len(batches')
        /\ accepted' \cap Users \subseteq Held' \cup Safe'
    BY <1>1, <1>3, <2>1, HandOver
  <2>3. DrainTyped'
    BY <1>1, <2>2, DrainSame DEF IInv, Stored, Books, BatchesTyped
  <2>. QED BY <1>2, <2>2, <2>3 DEF IInv
<1>4. CASE phase # "running"
  <2>1. UNCHANGED <<phase, waiting, batches, jobs>>
    BY <1>1, <1>4
  <2>2. Stored' /\ Safe' = Safe
    BY <1>1, <2>1, Stutter DEF IInv
  <2>3. DrainTyped' /\ TurnTyped' /\ Held' = Held
    BY <1>1, <2>1 DEF DrainTyped, Lanes, TurnTyped, Held, IInv, ToSet
  <2>. QED BY <1>1, <1>2, <2>2, <2>3 DEF IInv
<1>. QED BY <1>3, <1>4

\* The turn is released: it held nothing any more.
LEMMA ReleaseStep ==
  ASSUME IInv, Release
  PROVE  IInv'
<1>1. /\ host = "settling" /\ host' = "gone" /\ phase' = "gone" /\ ready' = [i \in Lanes |-> i]
      /\ UNCHANGED <<accepted, waiting, claimed, consumed, batches, jobs, drain, fallen, rows, ran>>
  BY DEF Release
<1>2. Stored' /\ Safe' = Safe
  BY <1>1, Stutter DEF IInv
<1>3. phase # "running" /\ Stages' /\ TurnTyped'
  BY <1>1 DEF Stages, TurnTyped, IInv
<1>4. Held' = Held
  BY <1>1, <1>3 DEF Held, ToSet
<1>5. DrainTyped'
  <2>1. Lanes = 1..Len(batches) /\ Len(batches) \in Nat
    BY DEF IInv, Stored, Books, BatchesTyped, Lanes
  <2>2. ready' \in Seq(0..Len(batches))
    BY <1>1, <2>1
  <2>3. Lanes' = Lanes
    BY <1>1 DEF Lanes
  <2>. QED BY <1>1, <2>2, <2>3 DEF DrainTyped, IInv
<1>. QED BY <1>1, <1>2, <1>3, <1>4, <1>5 DEF IInv

\* The merged write of what the turn handed over.
LEMMA MergeStep ==
  ASSUME Stored, UNCHANGED <<fallen, rows, ran>>, NEW free \in SUBSET Lanes, NEW first \in free,
         \A i \in free : batches[i].job = 0,
         jobs' = [jobs EXCEPT ![first] = [kind |-> "teardown", waiters |-> <<>>, enqueued |-> FALSE,
                                          todo |-> Merged(free)]],
         batches' = [i \in Lanes |->
           IF i \in free THEN [batches[i] EXCEPT !.job = first] ELSE batches[i]]
  PROVE  Stored' /\ Len(batches') = Len(batches) /\ Safe \subseteq Safe'
<1>. USE DEF Stored, Books
<1>0. /\ Lanes = 1..Len(batches) /\ Len(batches) \in Nat /\ first \in Nat /\ first # 0
      /\ \A j \in Jobs : j \in Batches /\ j \in Nat /\ j # 0 /\ jobs[j] \in Write
      /\ \A k \in Lanes : batches[k] \in Batch
  BY DEF BatchesTyped, Lanes, JobsTyped, Jobs, Batches
<1>1. Merged(free) \in Seq(Users) /\ \A k \in free : Queued(k) \subseteq ToSet(Merged(free))
  <2>1. PICK S : S = UNION {ToSet(batches[i].todo) : i \in free}
    OBVIOUS
  <2>2. ASSUME NEW k \in free PROVE ToSet(batches[k].todo) \subseteq Users
    <3>1. batches[k].todo \in Seq(Users)
      BY <1>0 DEF Batch
    <3>. QED BY <3>1 DEF ToSet
  <2>3. S \in SUBSET Users /\ S \in SUBSET Messages
    BY <2>1, <2>2, UsersAreMessages
  <2>4. InOrder(S) \in Seq(S) /\ ToSet(InOrder(S)) = S /\ Merged(free) = InOrder(S)
    BY <2>1, <2>3, InOrderMembers DEF Merged
  <2>5. ASSUME NEW s \in Seq(S) PROVE s \in Seq(Users)
    BY <2>3
  <2>. QED BY <2>1, <2>4, <2>5 DEF Queued
<1>. DEFINE w == [kind |-> "teardown", waiters |-> <<>>, enqueued |-> FALSE, todo |-> Merged(free)]
<1>2. batches' \in Seq(Batch) /\ Len(batches') = Len(batches) /\ Lanes' = Lanes
  <2>1. ASSUME NEW k \in Lanes PROVE [batches[k] EXCEPT !.job = first] \in Batch
    BY <1>0 DEF Batch
  <2>. QED BY <1>0, <2>1 DEF Lanes
<1>3. \A k \in Lanes :
        /\ Queued(k)' = Queued(k) /\ batches'[k].pending = batches[k].pending
        /\ batches'[k].job = IF k \in free THEN first ELSE batches[k].job
  <2>. TAKE k \in Lanes
  <2>1. batches[k] \in Batch /\ batches'[k] = IF k \in free THEN [batches[k] EXCEPT !.job = first] ELSE batches[k]
    BY <1>0
  <2>2. batches'[k].todo = batches[k].todo
    BY <2>1 DEF Batch
  <2>3. Queued(k)' = Queued(k)
    BY <2>2 DEF Queued, ToSet
  <2>. QED BY <2>1, <2>3 DEF Batch
<1>4. Keeps
  BY <1>2, <1>3 DEF Keeps
<1>5. Safe \subseteq Safe' /\ Durable \subseteq Durable'
  BY <1>3, <1>4, SafeGrows DEF QueueTyped
<1>6. first \notin Jobs
  BY <1>0 DEF Owned
<1>7. jobs' = [j \in Batches |-> jobs'[j]] /\ \A j \in Batches : jobs'[j] = IF j = first THEN w ELSE jobs[j]
  BY DEF JobsTyped
<1>8. w \in Write /\ w.kind = "teardown" /\ w.todo = Merged(free) /\ Write' = Write
  <2>1. Write' = Write
    BY <1>2 DEF Write
  <2>2. <<>> \in Seq(0..Len(batches))
    OBVIOUS
  <2>. QED BY <1>1, <2>1, <2>2 DEF Write
<1>. HIDE DEF w
<1>9. Jobs' = Jobs \cup ({first} \cap Batches)
  BY <1>7, <1>8 DEF Jobs, NoJob
<1>10. JobsTyped'
  BY <1>0, <1>7, <1>8, <1>9 DEF JobsTyped
<1>11. Owned'
  BY <1>2, <1>3, <1>9, <1>0 DEF Owned
<1>12. Covered'
  <2>. SUFFICES ASSUME NEW k \in Lanes', batches'[k].job \in Batches
               PROVE  /\ batches'[k].job \in Jobs'
                      /\ jobs'[batches'[k].job].kind = "requeue" => k = batches'[k].job
                      /\ jobs'[batches'[k].job].kind = "teardown" =>
                           Queued(k)' \subseteq Durable' \cup ToSet(jobs'[batches'[k].job].todo)
    BY DEF Covered
  <2>1. CASE k \in free
    <3>1. batches'[k].job = first /\ first \in Batches /\ first \in Jobs'
      BY <1>2, <1>3, <1>9, <2>1
    <3>2. jobs'[first] = w
      BY <1>7, <3>1
    <3>3. jobs'[first].kind = "teardown" /\ jobs'[first].todo = Merged(free)
      BY <1>8, <3>2
    <3>4. Queued(k)' \subseteq ToSet(Merged(free))
      BY <1>1, <1>3, <2>1
    <3>. QED BY <3>1, <3>3, <3>4
  <2>2. CASE k \notin free
    <3>1. batches'[k].job = batches[k].job /\ batches[k].job \in Jobs /\ batches[k].job # first
      BY <1>2, <1>3, <1>6, <2>2 DEF Covered
    <3>2. PICK j \in Jobs : j = batches[k].job /\ j # first /\ batches'[k].job = j
      BY <3>1
    <3>3. k \in Lanes /\ (jobs[j].kind = "requeue" => k = j)
          /\ (jobs[j].kind = "teardown" => Queued(k) \subseteq Durable \cup ToSet(jobs[j].todo))
      BY <1>2, <3>1, <3>2 DEF Covered
    <3>4. jobs'[j] = jobs[j] /\ j \in Jobs' /\ Queued(k)' = Queued(k)
      BY <1>0, <1>3, <1>7, <1>9, <3>2, <3>3
    <3>. QED BY <1>5, <3>2, <3>3, <3>4
  <2>. QED BY <2>1, <2>2
<1>13. Enqueued'
  BY <1>0, <1>3, <1>5, <1>6, <1>7, <1>8, <1>9 DEF Enqueued, Owned
<1>14. QueueTyped'
  BY <1>2 DEF QueueTyped
<1>. QED BY <1>2, <1>5, <1>10, <1>11, <1>12, <1>13, <1>14 DEF BatchesTyped

\* `commitDiscardedBeforeRelease` merges what is tracked and not being written.
LEMMA CommitBeforeReleaseStep ==
  ASSUME IInv, CommitBeforeRelease
  PROVE  IInv'
<1>. DEFINE free == {i \in Lanes : batches[i].pending /\ batches[i].route = "teardown" /\ batches[i].job = 0}
            first == CHOOSE i \in free : \A k \in free : i <= k
<1>1. /\ host = "ended" /\ host' = "settling"
      /\ IF free = {} THEN UNCHANGED <<batches, jobs>>
         ELSE /\ jobs' = [jobs EXCEPT ![first] =
                   [kind |-> "teardown", waiters |-> <<>>, enqueued |-> FALSE, todo |-> Merged(free)]]
              /\ batches' = [i \in Lanes |->
                   IF i \in free THEN [batches[i] EXCEPT !.job = first] ELSE batches[i]]
      /\ UNCHANGED <<phase, accepted, waiting, claimed, consumed, ready, drain, fallen, rows, ran>>
  BY DEF CommitBeforeRelease, queueV
<1>2. Stored' /\ Len(batches') = Len(batches) /\ Safe \subseteq Safe'
  <2>1. CASE free = {}
    BY <1>1, <2>1, Stutter DEF IInv
  <2>2. CASE free # {}
    <3>1. free \in SUBSET Nat
      BY DEF IInv, Stored, Books, BatchesTyped, Lanes
    <3>2. PICK F \in SUBSET Lanes : F = free
      OBVIOUS
    <3>3. first \in F
      <4>. HIDE DEF free
      <4>1. \E i \in free : \A k \in free : i <= k
        BY <2>2, <3>1, LeastNat
      <4>. QED BY <3>2, <4>1
    <3>4. \A i \in F : batches[i].job = 0
      BY <3>2
    <3>5. PICK f \in F : f = first
      BY <3>3
    <3>6. /\ jobs' = [jobs EXCEPT ![f] = [kind |-> "teardown", waiters |-> <<>>, enqueued |-> FALSE,
                                           todo |-> Merged(F)]]
          /\ batches' = [i \in Lanes |->
               IF i \in F THEN [batches[i] EXCEPT !.job = f] ELSE batches[i]]
          /\ UNCHANGED <<fallen, rows, ran>>
      <4>. HIDE DEF free, first
      <4>. QED BY <1>1, <2>2, <3>2, <3>5
    <3>. HIDE DEF free, first
    <3>. QED BY <3>4, <3>6, MergeStep DEF IInv
  <2>. QED BY <2>1, <2>2
<1>3. Stages' /\ TurnTyped' /\ Held' = Held
  <2>. HIDE DEF free, first
  <2>. QED BY <1>1 DEF Stages, TurnTyped, Held, IInv, ToSet
<1>4. DrainTyped'
  <2>. HIDE DEF free, first
  <2>. QED BY <1>1, <1>2, DrainSame DEF IInv, Stored, Books, BatchesTyped
<1>. HIDE DEF free, first
<1>. QED BY <1>1, <1>2, <1>3, <1>4 DEF IInv

-----------------------------------------------------------------------------
\* The turn begins with nothing taken.
LEMMA IInvInit == Init => IInv
<1>. SUFFICES ASSUME Init PROVE IInv
  OBVIOUS
<1>1. Lanes = {} /\ Jobs = {} /\ jobs = [i \in Batches |-> jobs[i]]
  BY DEF Init, Lanes, Jobs
<1>2. Stored
  BY <1>1 DEF Init, Stored, Books, BatchesTyped, JobsTyped, Owned, Covered, Enqueued, QueueTyped
<1>3. TurnTyped /\ Stages /\ DrainTyped /\ accepted = {}
  BY DEF Init, TurnTyped, Stages, DrainTyped, Lanes
<1>. QED BY <1>2, <1>3 DEF IInv

\* Every step keeps the invariant.
LEMMA IInvNext == IInv /\ [Next]_vars => IInv'
<1>. SUFFICES ASSUME IInv, [Next]_vars PROVE IInv'
  OBVIOUS
<1>1. CASE Turn
  BY <1>1, SteerStep, PollStep, PollEndsStep, TryBeginCloseStep, AbortStep, HostEndsStep,
     CommitBeforeReleaseStep, ReleaseStep DEF Turn
<1>2. CASE Requeue
  BY <1>2, LandStep, WriteFailsStep, EnqueueStep, PauseStep, LaneStep, ShutdownStep,
     DrainStartsStep, DrainContinuesStep, DrainEndsStep DEF Requeue
<1>3. CASE Dispatch \/ OtherWake \/ ContinueQueue
  BY <1>3, DispatchStep, QueueWakesStep
<1>4. CASE UNCHANGED vars
  <2>1. UNCHANGED <<turnV, batches, jobs, ready, drain, fallen, rows, ran>>
    BY <1>4 DEF vars, queueV
  <2>2. Stored' /\ Safe' = Safe
    BY <2>1, Stutter DEF IInv
  <2>3. DrainTyped'
    BY <2>1 DEF DrainTyped, Lanes, IInv
  <2>. QED BY <2>1, <2>2, <2>3, TurnUntouched
<1>. QED BY <1>1, <1>2, <1>3, <1>4 DEF Next

\* The invariant says that nothing is dropped.
LEMMA IInvImplies == IInv => NothingDropped
BY DEF IInv, NothingDropped, Held, Safe, Durable

\* "no admitted message is ever dropped": what the turn controller accepted from
\* its user is, at every moment of aborts, seals, failing writes and the drain of
\* a shutdown, waiting, with a poll, read, tracked by the requeue, in the
\* conversation or in the queue.
THEOREM NeverDropped == Spec => []NothingDropped
<1>1. Spec => []IInv
  BY IInvInit, IInvNext, PTL DEF Spec
<1>. QED BY <1>1, IInvImplies, PTL

-----------------------------------------------------------------------------
(* Nothing is read twice.                                                   *)

\* What the turn has, or has read.
TurnHas == ToSet(waiting) \cup ToSet(claimed) \cup consumed

\* A message is in one place of the turn, in the conversation, or in one batch
\* (while the write of its batch runs, in both).
Apart ==
  /\ ToSet(waiting) \cap ToSet(claimed) = {}
  /\ consumed \cap (ToSet(waiting) \cup ToSet(claimed)) = {}
  /\ TurnHas \cup ToSet(fallen) \subseteq accepted
  /\ ToSet(fallen) \cap TurnHas = {}
  /\ \A k \in Lanes : Queued(k) \subseteq accepted /\ Queued(k) \cap TurnHas = {}
  /\ \A k, l \in Lanes : k # l => Queued(k) \cap Queued(l) = {}

\* Batch k is being written into the conversation; it may go to the queue and
\* falls no more.
Writing(k) == batches[k].job \in Batches /\ jobs[batches[k].job].kind = "teardown"
Through == {k \in Lanes : batches[k].route = "requeue" /\ ~Writing(k)}

\* What has fallen is in a batch only while that batch is being written; a write
\* has only what its batches hold.
Falls ==
  /\ \A k \in Lanes : ~Writing(k) => Queued(k) \cap ToSet(fallen) = {}
  /\ \A j \in Jobs :
       IF jobs[j].kind = "teardown"
       THEN \A m \in ToSet(jobs[j].todo) : \E k \in Lanes : batches[k].job = j /\ m \in Queued(k)
       ELSE batches[j].route = "requeue"

\* The queue has and had only batches that fall no more, each as one row.
Passes ==
  /\ ToSet(rows) \subseteq Through /\ IsInjective(rows)
  /\ \A m \in ran : \E k \in Through : m \in Queued(k)

\* What the lanes await in which stage, before a drain.
Lasts ==
  /\ drain.at = "no" => drain.todo = <<>>
  /\ \A k \in Lanes :
       /\ batches[k].cause = "abort" => phase \in {"aborted", "gone"}
       /\ batches[k].lane = "first" => batches[k].job # 0
       /\ drain.at = "no" /\ batches[k].route = "requeue" /\ batches[k].cause # "exit-close" =>
            batches[k].lane \in {"last", "end"}

\* A batch that no write is left for, and one that a wake ran.
Done(k) == ~batches[k].pending /\ batches[k].job = 0
Ran(k) == Queued(k) \cap ran # {}

\* A row is written once.  Where a stop has to park it, its write goes on, and
\* says so; after that only a drain may write it again.
Once ==
  \A k \in Lanes :
    /\ ~StopPauses(k) =>
         /\ k \in ToSet(rows) /\ drain.at = "no" => Done(k)
         /\ Ran(k) => Done(k) /\ k \notin ToSet(rows) /\ k \notin ToSet(drain.todo)
    /\ StopPauses(k) /\ drain.at = "no" =>
         /\ (k \in ToSet(rows) \/ Ran(k)) /\ k \in Jobs => jobs[k].enqueued
         /\ Ran(k) => k \notin ToSet(rows)

ReadInv == Apart /\ Falls /\ Passes /\ Lasts /\ Once

\* A sequence without repetitions stays one when what it lacks is appended,
LEMMA AppendOnce ==
  ASSUME NEW D, NEW s \in Seq(D), NEW x \in D, IsInjective(s), x \notin ToSet(s)
  PROVE  IsInjective(Append(s, x))
<1>. PICK t : t = Append(s, x)
  OBVIOUS
<1>1. DOMAIN s = 1..Len(s) /\ Len(s) \in Nat
  OBVIOUS
<1>2. /\ DOMAIN t = 1..(Len(s) + 1) /\ t[Len(s) + 1] = x
      /\ \A i \in DOMAIN s : t[i] = s[i]
  OBVIOUS
<1>3. /\ \A i \in 1..Len(s) : s[i] # x
      /\ \A i, j \in 1..Len(s) : s[i] = s[j] => i = j
  BY <1>1 DEF ToSet, IsInjective
<1>4. ASSUME NEW i \in 1..(Len(s) + 1), NEW j \in 1..(Len(s) + 1), t[i] = t[j]
      PROVE  i = j
  <2>1. (i \in 1..Len(s) \/ i = Len(s) + 1) /\ (j \in 1..Len(s) \/ j = Len(s) + 1)
    BY <1>1
  <2>. QED BY <1>1, <1>2, <1>3, <1>4, <2>1
<1>5. IsInjective(t)
  BY <1>2, <1>4 DEF IsInjective
<1>. QED BY <1>5

\* or put in front,
LEMMA FrontOnce ==
  ASSUME NEW D, NEW s \in Seq(D), NEW x \in D, IsInjective(s), x \notin ToSet(s)
  PROVE  IsInjective(<<x>> \o s)
<1>1. /\ DOMAIN (<<x>> \o s) = 1..(1 + Len(s)) /\ (<<x>> \o s)[1] = x
      /\ DOMAIN s = 1..Len(s) /\ Len(s) \in Nat
      /\ \A i \in 2..(1 + Len(s)) : (<<x>> \o s)[i] = s[i - 1]
  OBVIOUS
<1>2. \A i \in 1..Len(s) : s[i] # x
  BY <1>1 DEF ToSet
<1>3. \A i, j \in 1..Len(s) : s[i] = s[j] => i = j
  BY <1>1 DEF IsInjective
<1>. PICK t : t = <<x>> \o s
  OBVIOUS
<1>. SUFFICES ASSUME NEW i \in 1..(1 + Len(s)), NEW j \in 1..(1 + Len(s)), t[i] = t[j]
              PROVE  i = j
  BY <1>1 DEF IsInjective
<1>4. \A k \in 1..(1 + Len(s)) : k = 1 \/ (k \in 2..(1 + Len(s)) /\ k - 1 \in 1..Len(s))
  BY <1>1
<1>5. CASE i = 1 \/ j = 1
  BY <1>1, <1>2, <1>4, <1>5
<1>6. CASE i # 1 /\ j # 1
  <2>1. s[i - 1] = s[j - 1] /\ i - 1 \in 1..Len(s) /\ j - 1 \in 1..Len(s)
    BY <1>1, <1>4, <1>6
  <2>2. i - 1 = j - 1
    BY <1>3, <2>1
  <2>. QED BY <2>2
<1>. QED BY <1>5, <1>6

\* and when its first is taken away.
LEMMA TailOnce ==
  ASSUME NEW D, NEW s \in Seq(D), s # <<>>, IsInjective(s)
  PROVE  IsInjective(Tail(s)) /\ s[1] \notin ToSet(Tail(s))
<1>1. /\ DOMAIN Tail(s) = 1..(Len(s) - 1) /\ Len(s) \in Nat /\ DOMAIN s = 1..Len(s)
      /\ \A i \in 1..(Len(s) - 1) : Tail(s)[i] = s[i + 1]
  OBVIOUS
<1>2. \A i, j \in 1..Len(s) : s[i] = s[j] => i = j
  BY <1>1 DEF IsInjective
<1>3. \A i \in 1..(Len(s) - 1) : i + 1 \in 1..Len(s) /\ 1 \in 1..Len(s) /\ i + 1 # 1
  BY <1>1
<1>4. s[1] \notin ToSet(Tail(s))
  BY <1>1, <1>2, <1>3 DEF ToSet
<1>5. ASSUME NEW i \in 1..(Len(s) - 1), NEW j \in 1..(Len(s) - 1), Tail(s)[i] = Tail(s)[j]
      PROVE  i = j
  <2>1. i + 1 = j + 1
    BY <1>1, <1>2, <1>3, <1>5
  <2>. QED BY <2>1
<1>. QED BY <1>1, <1>4, <1>5 DEF IsInjective

\* What is kept of it has none either.
LEMMA KeptOnce ==
  ASSUME NEW D, NEW s \in Seq(D), NEW S, IsInjective(s)
  PROVE  IsInjective(Kept(s, S))
<1>1. PICK g : Computes(g, Len(s), s, S) /\ Kept(s, S) = g[Len(s)]
  BY KeptIs
<1>. DEFINE Right(n) == g[n] \in Seq(D) /\ IsInjective(g[n]) /\ ToSet(g[n]) \subseteq {s[k] : k \in 1..n}
            P == {n \in 0..Len(s) : ~Right(n)}
<1>0. /\ g[0] = <<>>
      /\ \A n \in 1..Len(s) :
            g[n] = IF s[n] \in S THEN Append(g[n - 1], s[n]) ELSE g[n - 1]
  <2>1. g[0] = <<>>
    BY <1>1 DEF Computes
  <2>2. ASSUME NEW n \in 1..Len(s)
        PROVE  g[n] = IF s[n] \in S THEN Append(g[n - 1], s[n]) ELSE g[n - 1]
    <3>1. n \in 0..Len(s) /\ n # 0
      OBVIOUS
    <3>. QED BY <1>1, <3>1 DEF Computes
  <2>. QED BY <2>1, <2>2
<1>2. ASSUME P # {} PROVE FALSE
  <2>1. PICK m \in P : \A n \in P : m <= n
    <3>1. P \in SUBSET Nat
      OBVIOUS
    <3>. HIDE DEF P
    <3>. QED BY <1>2, <3>1, LeastNat
  <2>2. m # 0
    <3>1. Right(0)
      <4>1. ToSet(<<>>) = {} /\ IsInjective(<<>>)
        BY DEF ToSet, IsInjective
      <4>. QED BY <1>0, <4>1
    <3>. QED BY <2>1, <3>1
  <2>3. Right(m - 1)
    <3>1. m - 1 \in 0..Len(s) /\ ~(m <= m - 1)
      BY <2>2
    <3>2. m - 1 \notin P
      BY <2>1, <3>1
    <3>. QED BY <3>1, <3>2
  <2>4. m \in 1..Len(s) /\ s[m] \in D
    BY <2>2
  <2>. PICK t : t = g[m - 1]
    OBVIOUS
  <2>5. t \in Seq(D) /\ IsInjective(t) /\ ToSet(t) \subseteq {s[k] : k \in 1..(m - 1)}
    BY <2>3
  <2>6. g[m] = IF s[m] \in S THEN Append(t, s[m]) ELSE t
    <3>. HIDE DEF P
    <3>. QED BY <1>0, <2>4
  <2>7. s[m] \notin ToSet(t)
    <3>1. \A i, j \in 1..Len(s) : s[i] = s[j] => i = j
      BY DEF IsInjective
    <3>2. \A k \in 1..(m - 1) : k \in 1..Len(s) /\ k # m
      BY <2>4
    <3>. QED BY <2>4, <2>5, <3>1, <3>2
  <2>8. {s[k] : k \in 1..(m - 1)} \subseteq {s[k] : k \in 1..m} /\ s[m] \in {s[k] : k \in 1..m}
    <3>1. 1..(m - 1) \subseteq 1..m /\ m \in 1..m
      BY <2>4
    <3>. QED BY <3>1
  <2>9. /\ Append(t, s[m]) \in Seq(D) /\ IsInjective(Append(t, s[m]))
        /\ ToSet(Append(t, s[m])) = ToSet(t) \cup {s[m]}
    <3>1. PICK x \in D : x = s[m]
      BY <2>4
    <3>2. x \notin ToSet(t)
      BY <2>7, <3>1
    <3>3. Append(t, x) \in Seq(D) /\ ToSet(Append(t, x)) = ToSet(t) \cup {x}
      BY <2>5, AppendMembers
    <3>4. IsInjective(Append(t, x))
      BY <2>5, <3>2, AppendOnce
    <3>. QED BY <3>1, <3>3, <3>4
  <2>10. Right(m)
    <3>1. CASE s[m] \in S
      BY <2>5, <2>6, <2>8, <2>9, <3>1
    <3>2. CASE s[m] \notin S
      BY <2>5, <2>6, <2>8, <3>2
    <3>. QED BY <3>1, <3>2
  <2>. QED BY <2>1, <2>10
<1>3. Right(Len(s))
  <2>1. Len(s) \in Nat
    OBVIOUS
  <2>. HIDE DEF Right
  <2>. QED BY <1>2, <2>1
<1>. QED BY <1>1, <1>3

-----------------------------------------------------------------------------
(* The steps, for what is read twice.                                       *)

\* Messages that only leave batches, or fall from them, stay apart.
LEMMA ApartShrinks ==
  ASSUME Apart, UNCHANGED <<accepted, waiting, claimed, consumed>>, Lanes' = Lanes,
         \A k \in Lanes : Queued(k)' \subseteq Queued(k),
         \A m \in ToSet(fallen)' : m \in ToSet(fallen) \/ \E k \in Lanes : m \in Queued(k)
  PROVE  Apart'
<1>1. TurnHas' = TurnHas /\ ToSet(waiting)' = ToSet(waiting) /\ ToSet(claimed)' = ToSet(claimed)
  BY DEF TurnHas
<1>2. ToSet(fallen)' \subseteq accepted /\ ToSet(fallen)' \cap TurnHas = {}
  BY DEF Apart
<1>3. \A k \in Lanes : Queued(k)' \subseteq accepted /\ Queued(k)' \cap TurnHas = {}
  BY DEF Apart
<1>4. \A k, l \in Lanes : k # l => Queued(k)' \cap Queued(l)' = {}
  <2>1. \A k, l \in Lanes : k # l => Queued(k) \cap Queued(l) = {}
    BY DEF Apart
  <2>. QED BY <2>1
<1>5. /\ ToSet(waiting) \cap ToSet(claimed) = {} /\ TurnHas \subseteq accepted
      /\ consumed \cap (ToSet(waiting) \cup ToSet(claimed)) = {}
  BY DEF Apart
<1>. QED BY <1>1, <1>2, <1>3, <1>4, <1>5 DEF Apart

\* A message is in one batch.
LEMMA OneBatch ==
  ASSUME Apart, NEW k \in Lanes, NEW l \in Lanes, NEW m, m \in Queued(k), m \in Queued(l)
  PROVE  k = l
BY DEF Apart

\* The queue gets batches that fall no more, and runs what it had.
LEMMA PassesGrow ==
  ASSUME Passes,
         \A k \in Through : k \in Through' /\ Queued(k)' = Queued(k),
         ToSet(rows)' \subseteq ToSet(rows) \cup Through', IsInjective(rows)',
         \A m \in ran' : m \in ran \/ \E k \in Through : m \in Queued(k)
  PROVE  Passes'
<1>1. ToSet(rows)' \subseteq Through'
  BY DEF Passes
<1>2. \A m \in ran' : \E k \in Through' : m \in Queued(k)'
  <2>. TAKE m \in ran'
  <2>1. PICK k \in Through : m \in Queued(k)
    BY DEF Passes
  <2>. QED BY <2>1
<1>. QED BY <1>1, <1>2 DEF Passes

\* What a wake ran was a row.
LEMMA RanThrough ==
  ASSUME Apart, Passes, NEW k \in Lanes, Ran(k)
  PROVE  k \in Through
<1>1. PICK m \in ran : m \in Queued(k)
  BY DEF Ran
<1>2. PICK l \in Through : m \in Queued(l)
  BY DEF Passes
<1>3. l \in Lanes
  BY DEF Through
<1>. QED BY <1>1, <1>2, <1>3, OneBatch

\* A row is written again by a drain only, if the rows of `new` are right.
LEMMA OnceGrows ==
  ASSUME Apart, Passes, Once, Lanes' = Lanes, ran' = ran,
         NEW new, ToSet(rows)' \subseteq ToSet(rows) \cup new,
         drain'.at = "no" => drain.at = "no",
         \A k \in Lanes : StopPauses(k)' <=> StopPauses(k),
         \A k \in Lanes : Queued(k)' \subseteq Queued(k),
         \A k \in Lanes : k \in ToSet(drain.todo)' => k \in ToSet(drain.todo) \/ ~Done(k),
         \A k \in Lanes : Done(k) /\ (drain.at = "no" \/ k \notin ToSet(drain.todo)) => Done(k)',
         \A k \in Through : drain.at = "no" /\ StopPauses(k) /\ k \in Jobs' =>
                              k \in Jobs /\ (jobs[k].enqueued => jobs'[k].enqueued),
         \A k \in new : /\ Ran(k) => StopPauses(k) /\ drain.at # "no"
                        /\ ~StopPauses(k) => Done(k)'
                        /\ StopPauses(k) => jobs'[k].enqueued
  PROVE  Once'
<1>. SUFFICES ASSUME NEW k \in Lanes
              PROVE  /\ ~StopPauses(k)' =>
                          /\ k \in ToSet(rows)' /\ drain'.at = "no" => Done(k)'
                          /\ Ran(k)' => Done(k)' /\ k \notin ToSet(rows)' /\ k \notin ToSet(drain.todo)'
                     /\ StopPauses(k)' /\ drain'.at = "no" =>
                          /\ (k \in ToSet(rows)' \/ Ran(k)') /\ k \in Jobs' => jobs'[k].enqueued
                          /\ Ran(k)' => k \notin ToSet(rows)'
  BY DEF Once
<1>1. Ran(k)' => Ran(k)
  BY DEF Ran
<1>2. CASE ~StopPauses(k)
  BY <1>1, <1>2 DEF Once
<1>3. CASE StopPauses(k)
  <2>1. k \in ToSet(rows) \/ Ran(k) => k \in Through
    BY RanThrough DEF Passes
  <2>2. CASE k \in new
    BY <1>1, <1>3, <2>1, <2>2 DEF Once
  <2>3. CASE k \notin new
    BY <1>1, <1>3, <2>1, <2>3 DEF Once
  <2>. QED BY <2>2, <2>3
<1>. QED BY <1>2, <1>3

\* No row is written again by a step that adds none.
LEMMA OnceStays ==
  ASSUME Apart, Passes, Once, Lanes' = Lanes, ran' = ran, ToSet(rows)' \subseteq ToSet(rows),
         drain'.at = "no" => drain.at = "no",
         \A k \in Lanes : StopPauses(k)' <=> StopPauses(k),
         \A k \in Lanes : Queued(k)' \subseteq Queued(k),
         \A k \in Lanes : k \in ToSet(drain.todo)' => k \in ToSet(drain.todo) \/ ~Done(k),
         \A k \in Lanes : Done(k) /\ (drain.at = "no" \/ k \notin ToSet(drain.todo)) => Done(k)',
         \A k \in Through : drain.at = "no" /\ StopPauses(k) /\ k \in Jobs' =>
                              k \in Jobs /\ (jobs[k].enqueued => jobs'[k].enqueued)
  PROVE  Once'
<1>. PICK new : new = {}
  OBVIOUS
<1>1. ToSet(rows)' \subseteq ToSet(rows) \cup new
  OBVIOUS
<1>2. \A k \in new : FALSE
  OBVIOUS
<1>. QED BY <1>1, <1>2, OnceGrows

\* What `start` does to the books.
LEMMA AwaitBooks ==
  ASSUME Stored, NEW i \in Lanes, NEW b \in Batch, NEW who, b.todo = batches[i].todo,
         b.job = batches[i].job, b.pending = batches[i].pending, b.cause = batches[i].cause,
         Await(i, b, who)
  PROVE  /\ Lanes' = Lanes /\ Jobs \subseteq Jobs'
         /\ \A k \in Lanes : Queued(k)' = Queued(k) /\ (k # i => batches'[k] = batches[k])
         /\ batches'[i] = IF batches[i].job # 0 THEN b ELSE [b EXCEPT !.job = i]
         /\ \A j \in Jobs : /\ jobs'[j].kind = jobs[j].kind
                            /\ jobs'[j].todo = jobs[j].todo /\ jobs'[j].enqueued = jobs[j].enqueued
         /\ \A j \in Jobs' \ Jobs : /\ j = i /\ batches[i].job = 0 /\ ~jobs'[j].enqueued
                                    /\ jobs'[j].kind = b.route /\ jobs'[j].todo = b.todo
<1>. USE DEF Stored, Books
<1>1. i \in Nat /\ i # 0 /\ Lanes = 1..Len(batches) /\ Len(batches) \in Nat
  BY DEF BatchesTyped, Lanes
<1>2. \A j \in Jobs : j \in Batches /\ j \in Nat /\ j # 0 /\ jobs[j] \in Write
  BY DEF JobsTyped, Jobs, Batches
<1>3. PICK c \in Batch : /\ batches' = [batches EXCEPT ![i] = c] /\ c.todo = b.todo
                         /\ c = IF b.job # 0 THEN b ELSE [b EXCEPT !.job = i]
  <2>1. CASE b.job # 0
    BY <2>1 DEF Await
  <2>2. CASE b.job = 0
    BY <1>1, <2>2 DEF Await, Batch
  <2>. QED BY <2>1, <2>2
<1>4. /\ Lanes' = Lanes /\ batches'[i] = c
      /\ \A k \in Lanes : k # i => batches'[k] = batches[k]
  BY <1>1, <1>3 DEF BatchesTyped, Lanes
<1>5. \A k \in Lanes : Queued(k)' = Queued(k)
  <2>1. \A k \in Lanes : batches'[k].todo = batches[k].todo
    BY <1>3, <1>4
  <2>. QED BY <2>1 DEF Queued, ToSet
<1>6. CASE b.job # 0
  <2>1. jobs' = [jobs EXCEPT ![b.job].waiters = Append(@, who)]
    BY <1>6 DEF Await
  <2>2. \A j \in Batches : jobs'[j] = IF j = b.job THEN [jobs[j] EXCEPT !.waiters = Append(@, who)] ELSE jobs[j]
    BY <2>1 DEF JobsTyped
  <2>3. \A j \in Jobs : /\ jobs'[j] # NoJob /\ jobs'[j].kind = jobs[j].kind
                        /\ jobs'[j].todo = jobs[j].todo /\ jobs'[j].enqueued = jobs[j].enqueued
    <3>. TAKE j \in Jobs
    <3>1. jobs[j] \in Write /\ j \in Batches
      BY <1>2
    <3>2. jobs[j].kind \in {"teardown", "requeue"}
      BY <3>1 DEF Write
    <3>3. jobs'[j] = jobs[j] \/ jobs'[j] = [jobs[j] EXCEPT !.waiters = Append(@, who)]
      BY <2>2, <3>1
    <3>4. PICK w : w = Append(jobs[j].waiters, who)
      OBVIOUS
    <3>5. /\ jobs'[j].kind = jobs[j].kind
          /\ jobs'[j].todo = jobs[j].todo /\ jobs'[j].enqueued = jobs[j].enqueued
      BY <3>1, <3>3, <3>4 DEF Write
    <3>. QED BY <3>2, <3>5 DEF NoJob
  <2>4. b.job \in Batches => b.job \in Jobs
    BY DEF Covered
  <2>5. Jobs' = Jobs
    <3>1. \A j \in Batches : j # b.job => jobs'[j] = jobs[j]
      BY <2>2
    <3>2. \A j \in Batches : jobs'[j] # NoJob <=> jobs[j] # NoJob
      BY <2>3, <2>4, <3>1 DEF Jobs
    <3>. QED BY <3>2 DEF Jobs
  <2>. QED BY <1>3, <1>4, <1>5, <1>6, <2>3, <2>5
<1>7. CASE b.job = 0
  <2>1. jobs' = [jobs EXCEPT ![i] = Job(b, i, <<who>>)] /\ i \notin Jobs
    BY <1>1, <1>7 DEF Await, Owned
  <2>2. \A j \in Batches : jobs'[j] = IF j = i THEN Job(b, i, <<who>>) ELSE jobs[j]
    BY <2>1 DEF JobsTyped
  <2>3. /\ Job(b, i, <<who>>).kind = b.route /\ Job(b, i, <<who>>).todo = b.todo
        /\ b.route \in {"teardown", "requeue"} /\ ~Job(b, i, <<who>>).enqueued
    BY DEF Job, Batch
  <2>4. Jobs' \subseteq Jobs \cup {i} /\ Jobs \subseteq Jobs'
    BY <2>1, <2>2 DEF Jobs
  <2>5. \A j \in Jobs' : j \in Batches
    BY DEF Jobs
  <2>. QED BY <1>2, <1>3, <1>4, <1>5, <1>7, <2>1, <2>2, <2>3, <2>4, <2>5
<1>. QED BY <1>6, <1>7

\* Joining or starting a write keeps messages apart and rows through.
LEMMA AwaitReads ==
  ASSUME Stored, Apart, Falls, Passes, NEW i \in Lanes, NEW b \in Batch, NEW who, b.todo = batches[i].todo,
         b.job = batches[i].job, b.pending = batches[i].pending, b.cause = batches[i].cause,
         b.route \in {batches[i].route, "requeue"},
         Await(i, b, who), UNCHANGED <<accepted, waiting, claimed, consumed, fallen, rows, ran>>
  PROVE  Apart' /\ Falls' /\ Passes'
<1>1. /\ Lanes' = Lanes /\ Jobs \subseteq Jobs'
      /\ \A k \in Lanes : Queued(k)' = Queued(k) /\ (k # i => batches'[k] = batches[k])
      /\ batches'[i] = IF batches[i].job # 0 THEN b ELSE [b EXCEPT !.job = i]
      /\ \A j \in Jobs : /\ jobs'[j].kind = jobs[j].kind
                         /\ jobs'[j].todo = jobs[j].todo /\ jobs'[j].enqueued = jobs[j].enqueued
      /\ \A j \in Jobs' \ Jobs : /\ j = i /\ batches[i].job = 0
                                 /\ jobs'[j].kind = b.route /\ jobs'[j].todo = b.todo
  BY AwaitBooks
<1>2. /\ batches'[i].route = b.route /\ batches'[i].todo = b.todo
      /\ batches'[i].job = IF batches[i].job # 0 THEN batches[i].job ELSE i
  BY <1>1 DEF Batch
<1>3. \A k \in Lanes : batches[k].job \in Batches => batches[k].job \in Jobs
  BY DEF Stored, Books, Covered
<1>4. \A j \in Jobs : j \in Batches /\ j # 0 /\ j \in Lanes
  BY DEF Stored, Books, Owned, Jobs, Batches
<1>5. ToSet(fallen)' = ToSet(fallen) /\ ToSet(rows)' = ToSet(rows) /\ IsInjective(rows)'
  BY DEF Passes, IsInjective
<1>6. Apart'
  BY <1>1, <1>5, ApartShrinks
<1>7. ASSUME NEW k \in Lanes
      PROVE  /\ Writing(k) => Writing(k)'
             /\ Writing(k)' /\ ~Writing(k) => k = i /\ batches[i].route = "teardown"
             /\ batches[k].route = "requeue" => batches'[k].route = "requeue"
             /\ batches[k].job # 0 => batches'[k].job = batches[k].job
  <2>1. batches[k].job # 0 => batches'[k].job = batches[k].job
    BY <1>1, <1>2
  <2>2. batches[k].route = "requeue" => batches'[k].route = "requeue"
    BY <1>1, <1>2
  <2>3. Writing(k) => Writing(k)'
    <3>1. 0 \notin Batches
      BY DEF Batches
    <3>. QED BY <1>1, <1>3, <2>1, <3>1 DEF Writing
  <2>4. ASSUME Writing(k)', ~Writing(k) PROVE k = i /\ batches[i].route = "teardown"
    <3>1. batches'[k].job \in Batches /\ jobs'[batches'[k].job].kind = "teardown"
      BY <2>4 DEF Writing
    <3>2. CASE batches[k].job # 0
      BY <1>1, <1>3, <2>1, <2>4, <3>1, <3>2 DEF Writing
    <3>3. CASE batches[k].job = 0
      <4>1. k = i
        BY <1>1, <3>1, <3>3 DEF Batches
      <4>2. batches'[k].job = i /\ i \notin Jobs
        BY <1>2, <1>4, <3>3, <4>1 DEF Stored, Books, Owned
      <4>3. i \in Jobs'
        BY <3>1, <4>2 DEF Jobs, NoJob
      <4>. QED BY <1>1, <3>1, <4>1, <4>2, <4>3
    <3>. QED BY <3>2, <3>3
  <2>. QED BY <2>1, <2>2, <2>3, <2>4
<1>8. Falls'
  <2>1. ASSUME NEW k \in Lanes', ~Writing(k)' PROVE Queued(k)' \cap ToSet(fallen)' = {}
    BY <1>1, <1>5, <1>7, <2>1 DEF Falls
  <2>2. ASSUME NEW j \in Jobs'
        PROVE  IF jobs'[j].kind = "teardown"
               THEN \A m \in ToSet(jobs'[j].todo) : \E k \in Lanes' : batches'[k].job = j /\ m \in Queued(k)'
               ELSE batches'[j].route = "requeue"
    <3>1. CASE j \in Jobs
      <4>1. jobs'[j].kind = jobs[j].kind /\ jobs'[j].todo = jobs[j].todo
        BY <1>1, <3>1
      <4>2. CASE jobs[j].kind = "teardown"
        <5>1. ASSUME NEW m \in ToSet(jobs[j].todo)
              PROVE  \E k \in Lanes' : batches'[k].job = j /\ m \in Queued(k)'
          <6>1. PICK k \in Lanes : batches[k].job = j /\ m \in Queued(k)
            BY <3>1, <4>2 DEF Falls
          <6>. QED BY <1>1, <1>4, <1>7, <3>1, <6>1
        <5>. QED BY <4>1, <4>2, <5>1
      <4>3. CASE jobs[j].kind # "teardown"
        BY <1>4, <1>7, <3>1, <4>1, <4>3 DEF Falls
      <4>. QED BY <4>2, <4>3
    <3>2. CASE j \notin Jobs
      <4>1. j = i /\ batches[i].job = 0 /\ jobs'[j].kind = b.route /\ jobs'[j].todo = b.todo
        BY <1>1, <3>2
      <4>2. b.route \in {"teardown", "requeue"}
        BY DEF Batch
      <4>3. batches'[i].job = i /\ ToSet(jobs'[j].todo) = Queued(i)'
        <5>1. ToSet(b.todo) = Queued(i)
          BY DEF Queued
        <5>. QED BY <1>1, <1>2, <4>1, <5>1
      <4>. QED BY <1>1, <1>2, <4>1, <4>2, <4>3
    <3>. QED BY <3>1, <3>2
  <2>. QED BY <2>1, <2>2 DEF Falls
<1>9. Passes'
  <2>1. ASSUME NEW k \in Through PROVE k \in Through' /\ Queued(k)' = Queued(k)
    BY <1>1, <1>7 DEF Through
  <2>2. ToSet(rows)' \subseteq ToSet(rows) \cup Through'
    BY <1>5
  <2>. QED BY <1>5, <2>1, <2>2, PassesGrow
<1>. QED BY <1>6, <1>8, <1>9

\* Nothing changes for the queue when the books stay as they are.
LEMMA SameReads ==
  ASSUME Owned, Apart, Falls, Passes, Once, Lanes' = Lanes, UNCHANGED <<jobs, reason, fallen, rows, ran>>,
         \A k \in Lanes : /\ batches'[k].todo = batches[k].todo /\ batches'[k].route = batches[k].route
                          /\ batches'[k].job = batches[k].job /\ batches'[k].cause = batches[k].cause
                          /\ batches'[k].pending = batches[k].pending,
         drain'.at = "no" => drain.at = "no", ToSet(drain.todo)' \subseteq ToSet(drain.todo)
  PROVE  Falls' /\ Passes' /\ Once'
<1>1. /\ \A k \in Lanes : Queued(k)' = Queued(k) /\ (Writing(k)' <=> Writing(k))
      /\ \A k \in Lanes : (Done(k)' <=> Done(k)) /\ (StopPauses(k)' <=> StopPauses(k))
  <2>1. ASSUME NEW k \in Lanes PROVE Queued(k)' = Queued(k)
    BY DEF Queued, ToSet
  <2>. QED BY <2>1 DEF Writing, Done, StopPauses
<1>2. Jobs' = Jobs /\ Through' = Through /\ ToSet(rows)' = ToSet(rows) /\ ToSet(fallen)' = ToSet(fallen)
  BY <1>1 DEF Jobs, Through
<1>3. Falls'
  <2>1. \A k \in Lanes : ~Writing(k) => Queued(k) \cap ToSet(fallen) = {}
    BY DEF Falls
  <2>2. \A k \in Lanes' : ~Writing(k)' => Queued(k)' \cap ToSet(fallen)' = {}
    BY <1>1, <1>2, <2>1
  <2>3. ASSUME NEW j \in Jobs
        PROVE  IF jobs[j].kind = "teardown"
               THEN \A m \in ToSet(jobs[j].todo) : \E k \in Lanes' : batches'[k].job = j /\ m \in Queued(k)'
               ELSE batches'[j].route = "requeue"
    <3>1. IF jobs[j].kind = "teardown"
          THEN \A m \in ToSet(jobs[j].todo) : \E k \in Lanes : batches[k].job = j /\ m \in Queued(k)
          ELSE batches[j].route = "requeue"
      BY DEF Falls
    <3>2. j \in Lanes
      BY DEF Owned
    <3>. QED BY <1>1, <3>1, <3>2
  <2>4. jobs' = jobs
    OBVIOUS
  <2>. QED BY <1>2, <2>2, <2>3, <2>4 DEF Falls
<1>4. Passes'
  <2>1. IsInjective(rows)'
    BY DEF Passes, IsInjective
  <2>2. \A k \in Through : k \in Through' /\ Queued(k)' = Queued(k)
    BY <1>1, <1>2 DEF Through
  <2>. QED BY <1>2, <2>1, <2>2, PassesGrow
<1>5. Once'
  BY <1>1, <1>2, OnceStays
<1>. QED BY <1>3, <1>4, <1>5

\* A lane that goes on writes no row again: before a drain, one that is left to
\* run has nothing more to await.
LEMMA LaneReads ==
  ASSUME IInv, ReadInv, NEW i \in Batches, Lane(i)
  PROVE  ReadInv'
<1>. USE DEF IInv, ReadInv
<1>. DEFINE b == batches[i]
            next == [b EXCEPT !.lane = After(b), !.route = IF After(b) = "last" THEN "requeue" ELSE @]
<1>1. /\ ready # <<>> /\ Head(ready) = i
      /\ IF next.lane # "end" /\ (b.pending \/ next.lane = "joined")
         THEN Await(i, next, i)
         ELSE batches' = [batches EXCEPT ![i].lane = "end"] /\ UNCHANGED jobs
      /\ UNCHANGED <<phase, reason, accepted, waiting, claimed, consumed, drain, fallen, rows, ran>>
  BY DEF Lane, turnV, queueV
<1>2. /\ Lanes = 1..Len(batches) /\ Len(batches) \in Nat
      /\ ready \in Seq(0..Len(batches)) /\ i \in Nat /\ i # 0
  BY DEF Stored, Books, BatchesTyped, Lanes, DrainTyped, Batches
<1>3. i \in 0..Len(batches)
  BY <1>1, <1>2, SplitMembers
<1>4. i \in Lanes /\ b \in Batch
  BY <1>2, <1>3 DEF Stored, Books, BatchesTyped
<1>5. /\ After(b) \in {"joined", "again", "try1", "try2", "last", "end"}
      /\ After(b) = "joined" => b.lane = "first"
      /\ b.lane \in {"last", "end"} => After(b) = "end"
  BY DEF After
<1>6. /\ next \in Batch /\ next.todo = b.todo /\ next.job = b.job /\ next.pending = b.pending
      /\ next.cause = b.cause /\ next.lane = After(b)
      /\ next.route = IF After(b) = "last" THEN "requeue" ELSE b.route
  BY <1>4, <1>5 DEF Batch
<1>. HIDE DEF next
<1>7. /\ drain'.at = drain.at /\ drain'.todo = drain.todo /\ ToSet(drain.todo)' = ToSet(drain.todo)
      /\ ToSet(rows)' = ToSet(rows) /\ ToSet(fallen)' = ToSet(fallen)
  BY <1>1
<1>8. CASE next.lane # "end" /\ (b.pending \/ next.lane = "joined")
  <2>1. Await(i, next, i)
    BY <1>1, <1>8
  <2>2. Apart' /\ Falls' /\ Passes'
    BY <1>1, <1>4, <1>6, <2>1, AwaitReads
  <2>3. /\ Lanes' = Lanes /\ Jobs \subseteq Jobs'
        /\ \A k \in Lanes : Queued(k)' = Queued(k) /\ (k # i => batches'[k] = batches[k])
        /\ batches'[i] = IF b.job # 0 THEN next ELSE [next EXCEPT !.job = i]
        /\ \A j \in Jobs : jobs'[j].enqueued = jobs[j].enqueued
        /\ \A j \in Jobs' \ Jobs : j = i /\ b.job = 0
    BY <1>4, <1>6, <2>1, AwaitBooks
  <2>4. /\ batches'[i].lane = After(b) /\ batches'[i].cause = b.cause
        /\ batches'[i].route = next.route /\ batches'[i].job # 0
    BY <1>2, <1>6, <2>3 DEF Batch
  <2>5. b.job = 0 => b.pending /\ ~(drain.at = "no" /\ b.route = "requeue" /\ b.cause # "exit-close")
    BY <1>4, <1>5, <1>6, <1>8 DEF Lasts
  <2>6. Lasts'
    <3>1. ASSUME NEW k \in Lanes
          PROVE  /\ batches'[k].cause = "abort" => phase' \in {"aborted", "gone"}
                 /\ batches'[k].lane = "first" => batches'[k].job # 0
                 /\ drain'.at = "no" /\ batches'[k].route = "requeue" /\ batches'[k].cause # "exit-close" =>
                      batches'[k].lane \in {"last", "end"}
      <4>1. CASE k # i
        BY <1>1, <1>7, <2>3, <4>1 DEF Lasts
      <4>2. CASE k = i
        <5>1. b.cause = "abort" => phase' \in {"aborted", "gone"}
          BY <1>1, <1>4 DEF Lasts
        <5>2. drain.at = "no" /\ next.route = "requeue" /\ b.cause # "exit-close" => After(b) = "last"
          BY <1>4, <1>5, <1>6, <1>8 DEF Lasts
        <5>. QED BY <1>5, <1>7, <2>4, <4>2, <5>1, <5>2
      <4>. QED BY <4>1, <4>2
    <3>2. drain.at = "no" => drain.todo = <<>>
      BY DEF Lasts
    <3>. QED BY <1>7, <2>3, <3>1, <3>2 DEF Lasts
  <2>7. Once'
    <3>1. \A k \in Lanes : StopPauses(k)' <=> StopPauses(k)
      BY <1>1, <2>3, <2>4 DEF StopPauses
    <3>2. ASSUME NEW k \in Lanes, Done(k) PROVE Done(k)'
      <4>1. k # i
        BY <2>5, <3>2 DEF Done
      <4>. QED BY <2>3, <3>2, <4>1 DEF Done
    <3>3. ASSUME NEW k \in Through, drain.at = "no", StopPauses(k), k \in Jobs'
          PROVE  k \in Jobs /\ (jobs[k].enqueued => jobs'[k].enqueued)
      <4>1. k \in Lanes /\ batches[k].route = "requeue" /\ batches[k].cause # "exit-close"
        BY <3>3 DEF Through, StopPauses
      <4>2. k \in Jobs
        BY <2>3, <2>5, <3>3, <4>1
      <4>. QED BY <2>3, <4>2
    <3>. QED BY <1>1, <1>7, <2>3, <3>1, <3>2, <3>3, OnceStays
  <2>. QED BY <2>2, <2>6, <2>7
<1>9. CASE ~(next.lane # "end" /\ (b.pending \/ next.lane = "joined"))
  <2>1. batches' = [batches EXCEPT ![i].lane = "end"] /\ UNCHANGED jobs
    BY <1>1, <1>9
  <2>2. /\ Lanes' = Lanes /\ \A k \in Lanes : k # i => batches'[k] = batches[k]
        /\ batches'[i] = [b EXCEPT !.lane = "end"]
    BY <1>2, <1>4, <2>1 DEF Stored, Books, BatchesTyped, Lanes
  <2>3. /\ batches'[i].todo = b.todo /\ batches'[i].route = b.route /\ batches'[i].job = b.job
        /\ batches'[i].cause = b.cause /\ batches'[i].pending = b.pending /\ batches'[i].lane = "end"
    BY <1>4, <2>2 DEF Batch
  <2>4. \A k \in Lanes : /\ batches'[k].todo = batches[k].todo /\ batches'[k].route = batches[k].route
                         /\ batches'[k].job = batches[k].job /\ batches'[k].cause = batches[k].cause
                         /\ batches'[k].pending = batches[k].pending
    BY <2>2, <2>3
  <2>5. Falls' /\ Passes' /\ Once'
    BY <1>1, <1>7, <2>1, <2>2, <2>4, SameReads DEF Stored, Books
  <2>6. \A k \in Lanes : Queued(k)' = Queued(k)
    BY <2>4 DEF Queued, ToSet
  <2>7. Apart'
    BY <1>1, <1>7, <2>2, <2>6, ApartShrinks
  <2>8. Lasts'
    <3>1. \A k \in Lanes : batches'[k].lane = batches[k].lane \/ batches'[k].lane = "end"
      BY <2>2, <2>3
    <3>. QED BY <1>1, <1>7, <2>2, <2>4, <3>1 DEF Lasts
  <2>. QED BY <2>5, <2>7, <2>8
<1>. QED BY <1>8, <1>9

\* A drain awaits batches that are tracked, or were when it began.
LEMMA DrainAwaits ==
  ASSUME IInv, ReadInv, NEW i \in Lanes, NEW b \in Batch, Await(i, b, Drain),
         b.todo = batches[i].todo, b.job = batches[i].job, b.pending = batches[i].pending,
         b.cause = batches[i].cause, b.lane = batches[i].lane, b.route \in {batches[i].route, "requeue"},
         drain.at # "no", drain'.at # "no", i \in ToSet(drain.todo) \/ ~Done(i),
         \A k \in Lanes : k \in ToSet(drain.todo)' => k \in ToSet(drain.todo) \/ ~Done(k),
         UNCHANGED <<phase, reason, accepted, waiting, claimed, consumed, fallen, rows, ran>>
  PROVE  ReadInv'
<1>. USE DEF IInv, ReadInv
<1>1. Apart' /\ Falls' /\ Passes'
  BY AwaitReads
<1>2. /\ Lanes' = Lanes
      /\ \A k \in Lanes : Queued(k)' = Queued(k) /\ (k # i => batches'[k] = batches[k])
      /\ batches'[i] = IF batches[i].job # 0 THEN b ELSE [b EXCEPT !.job = i]
  BY AwaitBooks
<1>3. i # 0
  BY DEF Stored, Books, BatchesTyped, Lanes
<1>4. /\ batches'[i].lane = batches[i].lane /\ batches'[i].cause = batches[i].cause
      /\ batches'[i].job # 0
  BY <1>2, <1>3 DEF Batch
<1>5. Lasts'
  BY <1>2, <1>4 DEF Lasts
<1>6. \A k \in Lanes : StopPauses(k)' <=> StopPauses(k)
  BY <1>2, <1>4 DEF StopPauses
<1>7. \A k \in Lanes : Done(k) /\ k \notin ToSet(drain.todo) => Done(k)'
  BY <1>2 DEF Done
<1>8. ToSet(rows)' = ToSet(rows)
  OBVIOUS
<1>9. Once'
  BY <1>2, <1>6, <1>7, <1>8, OnceStays
<1>. QED BY <1>1, <1>5, <1>9

\* The drain goes on to the next of such batches.
LEMMA VisitReads ==
  ASSUME IInv, ReadInv, NEW list \in Seq(Lanes), NEW upto, Visit(list, upto), drain.at # "no",
         \A k \in ToSet(list) : k \in ToSet(drain.todo) \/ ~Done(k),
         UNCHANGED <<phase, reason, accepted, waiting, claimed, consumed, fallen, rows, ran>>
  PROVE  ReadInv'
<1>. USE DEF IInv, ReadInv
<1>1. CASE list = <<>>
  <2>1. UNCHANGED <<batches, jobs>> /\ drain' = [at |-> "rest", on |-> Jobs, todo |-> <<>>, upto |-> upto]
    BY <1>1 DEF Visit
  <2>2. drain'.at # "no" /\ ToSet(drain.todo)' \subseteq ToSet(drain.todo) /\ Lanes' = Lanes
    <3>1. ToSet(drain.todo)' = {}
      BY <2>1 DEF ToSet
    <3>. QED BY <2>1, <3>1 DEF Lanes
  <2>3. Falls' /\ Passes' /\ Once'
    BY <2>1, <2>2, SameReads DEF Stored, Books
  <2>4. \A k \in Lanes : Queued(k)' = Queued(k)
    BY <2>1 DEF Queued
  <2>5. Apart'
    BY <2>2, <2>4, ApartShrinks
  <2>6. Lasts'
    BY <2>1, <2>2 DEF Lasts
  <2>. QED BY <2>3, <2>5, <2>6
<1>2. CASE list # <<>>
  <2>1. /\ drain' = [at |-> "first", on |-> {}, todo |-> list, upto |-> upto]
        /\ Await(list[1], batches[list[1]], Drain)
    BY <1>2 DEF Visit
  <2>2. list[1] \in Lanes /\ list[1] \in ToSet(list)
    BY <1>2, SplitMembers
  <2>3. PICK i \in Lanes : i = list[1]
    BY <2>2
  <2>4. batches[i] \in Batch
    BY DEF Stored, Books, BatchesTyped, Lanes
  <2>5. drain'.at # "no" /\ ToSet(drain.todo)' = ToSet(list)
    BY <2>1 DEF ToSet
  <2>6. \A k \in Lanes : k \in ToSet(drain.todo)' => k \in ToSet(drain.todo) \/ ~Done(k)
    BY <2>5
  <2>7. Await(i, batches[i], Drain) /\ (i \in ToSet(drain.todo) \/ ~Done(i))
    BY <2>1, <2>2, <2>3
  <2>. QED BY <2>4, <2>5, <2>6, <2>7, DrainAwaits
<1>. QED BY <1>1, <1>2

\* It starts with what is tracked.
LEMMA DrainStartsReads ==
  ASSUME IInv, ReadInv, DrainStarts
  PROVE  ReadInv'
<1>. DEFINE tracked == {i \in Lanes : batches[i].pending}
            firsts == InOrder({Earliest(batches[i].todo) : i \in tracked})
            list == [n \in DOMAIN firsts |-> CHOOSE i \in tracked : Earliest(batches[i].todo) = firsts[n]]
<1>1. /\ Visit(list, Len(batches)) /\ drain.at # "no"
      /\ UNCHANGED <<phase, reason, accepted, waiting, claimed, consumed, fallen, rows, ran>>
  BY DEF DrainStarts, turnV, queueV
<1>2. list \in Seq(Lanes) /\ \A k \in ToSet(list) : batches[k].pending
  <2>1. PICK S : S = {Earliest(batches[i].todo) : i \in tracked}
    OBVIOUS
  <2>2. firsts \in Seq(S)
    <3>. DEFINE all == [m \in Messages |-> m]
    <3>1. all \in Seq(Messages)
      BY SteeringAssumption DEF Messages
    <3>2. firsts = Kept(all, S)
      BY <2>1 DEF InOrder
    <3>. HIDE DEF all, firsts
    <3>3. Kept(all, S) \in Seq(Messages \cap S)
      BY <3>1, KeptMembers
    <3>. QED BY <3>2, <3>3
  <2>3. ASSUME NEW n \in DOMAIN firsts PROVE list[n] \in tracked
    <3>1. firsts[n] \in S
      BY <2>2, <2>3
    <3>2. \E i \in tracked : Earliest(batches[i].todo) = firsts[n]
      BY <2>1, <3>1
    <3>. QED BY <3>2
  <2>4. DOMAIN firsts = 1..Len(firsts) /\ Len(firsts) \in Nat
    BY <2>2
  <2>. HIDE DEF firsts
  <2>5. list = [n \in 1..Len(firsts) |-> list[n]]
    BY <2>4
  <2>. HIDE DEF list
  <2>6. list \in Seq(tracked)
    BY <2>3, <2>4, <2>5
  <2>. PICK T : T = tracked
    OBVIOUS
  <2>7. list \in Seq(T)
    BY <2>6
  <2>8. list \in Seq(Lanes)
    <3>1. T \subseteq Lanes
      OBVIOUS
    <3>. QED BY <2>7, <3>1
  <2>9. \A k \in ToSet(list) : k \in T
    BY <2>7 DEF ToSet
  <2>. QED BY <2>8, <2>9
<1>. HIDE DEF list
<1>3. \A k \in ToSet(list) : ~Done(k)
  BY <1>2 DEF Done
<1>. QED BY <1>1, <1>2, <1>3, VisitReads

\* It tries each again as a row, and goes on.
LEMMA DrainContinuesReads ==
  ASSUME IInv, ReadInv, DrainContinues
  PROVE  ReadInv'
<1>. DEFINE i == drain.todo[1]
            c == [batches[i] EXCEPT !.route = "requeue"]
<1>1. /\ drain.at \in {"first", "second"}
      /\ IF drain.at = "first" /\ batches[i].route = "teardown" /\ batches[i].pending
         THEN Await(i, c, Drain) /\ drain' = [drain EXCEPT !.at = "second"]
         ELSE Visit(Tail(drain.todo), drain.upto)
      /\ UNCHANGED <<phase, reason, accepted, waiting, claimed, consumed, fallen, rows, ran>>
  BY DEF DrainContinues, turnV, queueV
<1>2. drain.todo \in Seq(Lanes) /\ drain.todo # <<>>
  BY <1>1 DEF DrainTyped, IInv
<1>3. /\ i \in Lanes /\ Tail(drain.todo) \in Seq(Lanes)
      /\ i \in ToSet(drain.todo) /\ ToSet(Tail(drain.todo)) \subseteq ToSet(drain.todo)
  BY <1>2, SplitMembers
<1>4. CASE drain.at = "first" /\ batches[i].route = "teardown" /\ batches[i].pending
  <2>1. Await(i, c, Drain) /\ drain' = [drain EXCEPT !.at = "second"]
    BY <1>1, <1>4
  <2>2. batches[i] \in Batch
    BY <1>3 DEF Stored, Books, BatchesTyped, Lanes, IInv
  <2>3. /\ c \in Batch /\ c.todo = batches[i].todo /\ c.job = batches[i].job
        /\ c.pending = batches[i].pending /\ c.cause = batches[i].cause
        /\ c.lane = batches[i].lane /\ c.route = "requeue"
    BY <2>2 DEF Batch
  <2>4. drain'.at # "no" /\ drain'.todo = drain.todo
    BY <2>1 DEF DrainTyped, IInv
  <2>5. ToSet(drain.todo)' = ToSet(drain.todo)
    BY <2>4 DEF ToSet
  <2>6. PICK k \in Lanes : k = i
    BY <1>3
  <2>7. /\ Await(k, c, Drain) /\ c.todo = batches[k].todo /\ c.job = batches[k].job
        /\ c.pending = batches[k].pending /\ c.cause = batches[k].cause /\ c.lane = batches[k].lane
        /\ c.route \in {batches[k].route, "requeue"} /\ k \in ToSet(drain.todo) /\ c \in Batch
    BY <1>3, <2>1, <2>3, <2>6
  <2>8. drain.at # "no"
    BY <1>1
  <2>. HIDE DEF c, i
  <2>. QED BY <1>1, <2>4, <2>5, <2>7, <2>8, DrainAwaits
<1>5. CASE ~(drain.at = "first" /\ batches[i].route = "teardown" /\ batches[i].pending)
  <2>1. Visit(Tail(drain.todo), drain.upto)
    BY <1>1, <1>5
  <2>2. drain.at # "no"
    BY <1>1
  <2>. QED BY <1>1, <1>3, <2>1, <2>2, VisitReads
<1>. QED BY <1>4, <1>5

\* What the end of a job does to the books.
LEMMA SettleAll ==
  ASSUME Stored, NEW i \in Jobs, NEW ok \in BOOLEAN, NEW written, Settle(i, ok, written)
  PROVE  /\ Lanes' = Lanes /\ Jobs' = Jobs \ {i} /\ \A j \in Jobs' : jobs'[j] = jobs[j]
         /\ \A k \in Lanes : batches[k].job # i => batches'[k] = batches[k] /\ Queued(k)' = Queued(k)
         /\ \A k \in Lanes : batches[k].job = i =>
              /\ batches'[k].job = 0 /\ batches'[k].cause = batches[k].cause
              /\ batches'[k].route = batches[k].route
              /\ batches'[k].lane = IF batches[k].lane = "first" THEN "release" ELSE batches[k].lane
              /\ batches'[k].pending => batches[k].pending /\ ~ok /\ batches'[k].todo # <<>>
              /\ batches[k].pending /\ ~ok /\ batches'[k].todo # <<>> => batches'[k].pending
              /\ jobs[i].kind = "requeue" => batches'[k].todo = batches[k].todo
              /\ Queued(k)' = IF jobs[i].kind = "teardown" THEN Queued(k) \ written ELSE Queued(k)
<1>. USE DEF Stored, Books
<1>0. /\ Lanes = 1..Len(batches) /\ Len(batches) \in Nat /\ i \in Batches
      /\ batches = [k \in Lanes |-> batches[k]]
  BY DEF BatchesTyped, Lanes, Jobs
<1>1. \A k \in Lanes : batches[k] \in Batch
  BY <1>0 DEF BatchesTyped
<1>. DEFINE over(b) == [b EXCEPT
        !.todo = IF jobs[i].kind = "teardown" THEN Kept(@, Messages \ written) ELSE @,
        !.job = 0, !.lane = IF @ = "first" THEN "release" ELSE @]
      left(b) == [b EXCEPT !.pending = @ /\ ~(ok \/ b.todo = <<>>)]
<1>2. batches' = [k \in Lanes |-> IF batches[k].job = i THEN left(over(batches[k])) ELSE batches[k]]
  BY DEF Settle
<1>3. ASSUME NEW b \in Batch
      PROVE  /\ left(over(b)).job = 0 /\ left(over(b)).cause = b.cause /\ left(over(b)).route = b.route
             /\ left(over(b)).lane = IF b.lane = "first" THEN "release" ELSE b.lane
             /\ left(over(b)).pending => b.pending /\ ~ok /\ left(over(b)).todo # <<>>
             /\ b.pending /\ ~ok /\ left(over(b)).todo # <<>> => left(over(b)).pending
             /\ jobs[i].kind = "requeue" => left(over(b)).todo = b.todo
             /\ ToSet(left(over(b)).todo) = IF jobs[i].kind = "teardown" THEN ToSet(b.todo) \ written ELSE ToSet(b.todo)
  <2>. DEFINE rest == IF jobs[i].kind = "teardown" THEN Kept(b.todo, Messages \ written) ELSE b.todo
  <2>1. ToSet(rest) = IF jobs[i].kind = "teardown" THEN ToSet(b.todo) \ written ELSE ToSet(b.todo)
    <3>1. b.todo \in Seq(Users)
      BY DEF Batch
    <3>2. ToSet(Kept(b.todo, Messages \ written)) = ToSet(b.todo) \cap (Messages \ written)
      BY <3>1, KeptMembers
    <3>3. ToSet(b.todo) \subseteq Messages
      BY <3>1, UsersAreMessages DEF ToSet
    <3>. QED BY <3>2, <3>3
  <2>2. /\ left(over(b)).todo = rest /\ left(over(b)).job = 0 /\ left(over(b)).cause = b.cause
        /\ left(over(b)).route = b.route
        /\ left(over(b)).lane = IF b.lane = "first" THEN "release" ELSE b.lane
        /\ left(over(b)).pending = (b.pending /\ ~(ok \/ rest = <<>>))
        /\ jobs[i].kind = "requeue" => rest = b.todo
    BY DEF Batch
  <2>. HIDE DEF left, over, rest
  <2>3. (left(over(b)).pending => ~ok /\ b.pending) /\ (left(over(b)).pending => rest # <<>>)
    BY <2>2
  <2>. QED BY <2>1, <2>2, <2>3
<1>. HIDE DEF left, over
<1>9. \A b \in Batch : ToSet(left(over(b)).todo) =
        IF jobs[i].kind = "teardown" THEN ToSet(b.todo) \ written ELSE ToSet(b.todo)
  BY <1>3
<1>4. Lanes' = Lanes
  BY <1>0, <1>2 DEF Lanes
<1>5. \A k \in Lanes : batches'[k] = IF batches[k].job = i THEN left(over(batches[k])) ELSE batches[k]
  BY <1>2
<1>6. \A k \in Lanes : batches[k].job # i => batches'[k] = batches[k] /\ Queued(k)' = Queued(k)
  BY <1>5 DEF Queued
<1>7. ASSUME NEW k \in Lanes, batches[k].job = i
      PROVE  /\ batches'[k].job = 0 /\ batches'[k].cause = batches[k].cause
             /\ batches'[k].route = batches[k].route
             /\ batches'[k].lane = IF batches[k].lane = "first" THEN "release" ELSE batches[k].lane
             /\ batches'[k].pending => batches[k].pending /\ ~ok /\ batches'[k].todo # <<>>
             /\ batches[k].pending /\ ~ok /\ batches'[k].todo # <<>> => batches'[k].pending
             /\ jobs[i].kind = "requeue" => batches'[k].todo = batches[k].todo
             /\ Queued(k)' = IF jobs[i].kind = "teardown" THEN Queued(k) \ written ELSE Queued(k)
  <2>1. PICK b \in Batch : b = batches[k] /\ batches'[k] = left(over(b))
    BY <1>1, <1>5, <1>7
  <2>2. Queued(k)' = ToSet(left(over(b)).todo) /\ Queued(k) = ToSet(b.todo)
    BY <2>1 DEF Queued, ToSet
  <2>3. PICK c : c = left(over(b))
    OBVIOUS
  <2>4. /\ c.job = 0 /\ c.cause = b.cause /\ c.route = b.route
        /\ c.lane = IF b.lane = "first" THEN "release" ELSE b.lane
        /\ c.pending => b.pending /\ ~ok /\ c.todo # <<>>
        /\ b.pending /\ ~ok /\ c.todo # <<>> => c.pending
        /\ jobs[i].kind = "requeue" => c.todo = b.todo
    BY <1>3, <2>3
  <2>5. batches'[k] = c /\ batches[k] = b
    BY <2>1, <2>3
  <2>6. Queued(k)' = IF jobs[i].kind = "teardown" THEN Queued(k) \ written ELSE Queued(k)
    BY <1>9, <2>2
  <2>7. /\ batches'[k].job = 0 /\ batches'[k].cause = batches[k].cause
        /\ batches'[k].route = batches[k].route
        /\ batches'[k].lane = IF batches[k].lane = "first" THEN "release" ELSE batches[k].lane
        /\ jobs[i].kind = "requeue" => batches'[k].todo = batches[k].todo
    BY <2>4, <2>5
  <2>8. /\ batches'[k].pending => batches[k].pending /\ ~ok /\ batches'[k].todo # <<>>
        /\ batches[k].pending /\ ~ok /\ batches'[k].todo # <<>> => batches'[k].pending
    BY <2>4, <2>5, Zenon
  <2>. QED BY <2>6, <2>7, <2>8
<1>8. Jobs' = Jobs \ {i} /\ \A j \in Jobs' : jobs'[j] = jobs[j]
  <2>1. jobs' = [j \in Batches |-> IF j = i THEN NoJob ELSE jobs[j]]
    BY DEF Settle, JobsTyped
  <2>. QED BY <1>0, <2>1 DEF Jobs
<1>. QED BY <1>4, <1>6, <1>7, <1>8

\* The part of it that says what is read.
LEMMA SettleBooks ==
  ASSUME Stored, NEW i \in Jobs, NEW ok \in BOOLEAN, NEW written, Settle(i, ok, written)
  PROVE  /\ Lanes' = Lanes /\ Jobs' = Jobs \ {i} /\ \A j \in Jobs' : jobs'[j] = jobs[j]
         /\ \A k \in Lanes : batches[k].job # i => batches'[k] = batches[k] /\ Queued(k)' = Queued(k)
         /\ \A k \in Lanes : batches[k].job = i =>
              /\ batches'[k].job = 0 /\ batches'[k].cause = batches[k].cause
              /\ batches'[k].route = batches[k].route
              /\ batches'[k].lane = IF batches[k].lane = "first" THEN "release" ELSE batches[k].lane
              /\ batches'[k].pending => batches[k].pending /\ ~ok
              /\ Queued(k)' = IF jobs[i].kind = "teardown" THEN Queued(k) \ written ELSE Queued(k)
BY SettleAll

\* A write that is over left its messages in its batches or in the conversation.
LEMMA SettleReads ==
  ASSUME Stored, DrainTyped, Apart, Falls, Lasts, NEW i \in Jobs, NEW ok \in BOOLEAN, NEW written,
         Settle(i, ok, written), UNCHANGED <<phase, accepted, waiting, claimed, consumed>>,
         \A m \in ToSet(fallen)' : m \in ToSet(fallen) \/ (jobs[i].kind = "teardown" /\ m \in ToSet(jobs[i].todo)),
         jobs[i].kind = "teardown" => ToSet(fallen)' \subseteq written
  PROVE  /\ Apart' /\ Falls' /\ Lasts'
         /\ \A k \in Through : k \in Through' /\ Queued(k)' = Queued(k)
<1>1. /\ Lanes' = Lanes /\ Jobs' = Jobs \ {i} /\ \A j \in Jobs' : jobs'[j] = jobs[j]
      /\ \A k \in Lanes : batches[k].job # i => batches'[k] = batches[k] /\ Queued(k)' = Queued(k)
      /\ \A k \in Lanes : batches[k].job = i =>
           /\ batches'[k].job = 0 /\ batches'[k].cause = batches[k].cause
           /\ batches'[k].route = batches[k].route
           /\ batches'[k].lane = IF batches[k].lane = "first" THEN "release" ELSE batches[k].lane
           /\ Queued(k)' = IF jobs[i].kind = "teardown" THEN Queued(k) \ written ELSE Queued(k)
  BY SettleBooks
<1>2. \A k \in Lanes : batches[k].job \in Batches => batches[k].job \in Jobs
  BY DEF Stored, Books, Covered
<1>3. i \in Batches /\ 0 \notin Batches /\ \A j \in Jobs : j \in Lanes
  BY DEF Stored, Books, Owned, Jobs, Batches
<1>4. \A k \in Lanes : Queued(k)' \subseteq Queued(k) /\ batches'[k].route = batches[k].route
  BY <1>1
<1>5. ASSUME NEW k \in Lanes
      PROVE  /\ batches[k].job # i => (Writing(k)' <=> Writing(k))
             /\ batches[k].job = i => ~Writing(k)' /\ (Writing(k) <=> jobs[i].kind = "teardown")
  BY <1>1, <1>2, <1>3 DEF Writing
<1>6. \A m \in ToSet(fallen)' : m \in ToSet(fallen) \/ \E k \in Lanes : batches[k].job = i /\ m \in Queued(k)
  BY DEF Falls
<1>7. Apart'
  BY <1>1, <1>4, <1>6, ApartShrinks
<1>8. Falls'
  <2>1. ASSUME NEW k \in Lanes, ~Writing(k)', NEW m \in Queued(k)', m \in ToSet(fallen)' PROVE FALSE
    <3>1. m \in Queued(k)
      BY <1>4, <2>1
    <3>2. CASE batches[k].job # i
      <4>1. m \notin ToSet(fallen)
        BY <1>5, <2>1, <3>1, <3>2 DEF Falls
      <4>2. PICK l \in Lanes : batches[l].job = i /\ m \in Queued(l)
        BY <1>6, <2>1, <4>1
      <4>. QED BY <3>1, <3>2, <4>2, OneBatch
    <3>3. CASE batches[k].job = i /\ jobs[i].kind = "teardown"
      BY <1>1, <2>1, <3>3
    <3>4. CASE batches[k].job = i /\ jobs[i].kind # "teardown"
      <4>1. m \in ToSet(fallen) /\ ~Writing(k)
        BY <1>5, <2>1, <3>4
      <4>. QED BY <3>1, <4>1 DEF Falls
    <3>. QED BY <3>2, <3>3, <3>4
  <2>2. ASSUME NEW j \in Jobs'
        PROVE  IF jobs'[j].kind = "teardown"
               THEN \A m \in ToSet(jobs'[j].todo) : \E k \in Lanes' : batches'[k].job = j /\ m \in Queued(k)'
               ELSE batches'[j].route = "requeue"
    <3>1. j \in Jobs /\ j # i /\ jobs'[j] = jobs[j] /\ j \in Lanes
      BY <1>1, <1>3
    <3>2. CASE jobs[j].kind = "teardown"
      <4>1. ASSUME NEW m \in ToSet(jobs[j].todo)
            PROVE  \E k \in Lanes' : batches'[k].job = j /\ m \in Queued(k)'
        <5>1. PICK k \in Lanes : batches[k].job = j /\ m \in Queued(k)
          BY <3>1, <3>2 DEF Falls
        <5>. QED BY <1>1, <3>1, <5>1
      <4>. QED BY <3>1, <3>2, <4>1
    <3>3. CASE jobs[j].kind # "teardown"
      BY <1>4, <3>1, <3>3 DEF Falls
    <3>. QED BY <3>2, <3>3
  <2>. QED BY <1>1, <2>1, <2>2 DEF Falls
<1>9. Lasts'
  <2>1. drain'.at = drain.at /\ drain'.todo = drain.todo
    BY DEF Settle, DrainTyped
  <2>2. ASSUME NEW k \in Lanes
        PROVE  /\ batches'[k].cause = "abort" => phase' \in {"aborted", "gone"}
               /\ batches'[k].lane = "first" => batches'[k].job # 0
               /\ drain'.at = "no" /\ batches'[k].route = "requeue" /\ batches'[k].cause # "exit-close" =>
                    batches'[k].lane \in {"last", "end"}
    <3>1. /\ batches[k].cause = "abort" => phase \in {"aborted", "gone"}
          /\ batches[k].lane = "first" => batches[k].job # 0
          /\ drain.at = "no" /\ batches[k].route = "requeue" /\ batches[k].cause # "exit-close" =>
               batches[k].lane \in {"last", "end"}
      BY DEF Lasts
    <3>2. CASE batches[k].job # i
      <4>1. batches'[k] = batches[k]
        BY <1>1, <3>2
      <4>. QED BY <2>1, <3>1, <4>1
    <3>3. CASE batches[k].job = i
      <4>1. /\ batches'[k].cause = batches[k].cause /\ batches'[k].route = batches[k].route
            /\ batches'[k].lane = IF batches[k].lane = "first" THEN "release" ELSE batches[k].lane
        BY <1>1, <3>3
      <4>. QED BY <2>1, <3>1, <4>1
    <3>. QED BY <3>2, <3>3
  <2>. QED BY <1>1, <2>1, <2>2 DEF Lasts
<1>10. \A k \in Through : k \in Through' /\ Queued(k)' = Queued(k)
  BY <1>1, <1>4, <1>5 DEF Through
<1>. QED BY <1>7, <1>8, <1>9, <1>10

\* Where no row comes, none is written again.
LEMMA SettleOnce ==
  ASSUME Stored, DrainTyped, Apart, Passes, Once, NEW i \in Jobs, NEW ok \in BOOLEAN, NEW written,
         Settle(i, ok, written), UNCHANGED <<reason, rows, ran>>,
         \A k \in Through : k \in Through' /\ Queued(k)' = Queued(k)
  PROVE  Passes' /\ Once'
<1>1. /\ Lanes' = Lanes /\ Jobs' = Jobs \ {i} /\ \A j \in Jobs' : jobs'[j] = jobs[j]
      /\ \A k \in Lanes : batches[k].job # i => batches'[k] = batches[k] /\ Queued(k)' = Queued(k)
      /\ \A k \in Lanes : batches[k].job = i =>
           /\ batches'[k].job = 0 /\ batches'[k].cause = batches[k].cause
           /\ Queued(k)' = IF jobs[i].kind = "teardown" THEN Queued(k) \ written ELSE Queued(k)
  BY SettleBooks
<1>2. i # 0 /\ drain'.at = drain.at /\ drain'.todo = drain.todo
  <2>1. i # 0
    BY DEF Jobs, Batches
  <2>2. drain'.at = drain.at /\ drain'.todo = drain.todo
    BY DEF Settle, DrainTyped
  <2>. QED BY <2>1, <2>2
<1>3. /\ ToSet(rows)' = ToSet(rows) /\ ToSet(drain.todo)' = ToSet(drain.todo)
      /\ (IsInjective(rows)' <=> IsInjective(rows))
  BY <1>2 DEF ToSet, IsInjective
<1>4. Passes'
  BY <1>3, PassesGrow DEF Passes
<1>5. \A k \in Lanes : (StopPauses(k)' <=> StopPauses(k)) /\ Queued(k)' \subseteq Queued(k)
  BY <1>1 DEF StopPauses
<1>6. \A k \in Lanes : Done(k) => Done(k)'
  BY <1>1, <1>2 DEF Done
<1>7. Once'
  BY <1>1, <1>2, <1>3, <1>5, <1>6, OnceStays
<1>. QED BY <1>4, <1>7

\* What falls is taken from the one batch that is written.
LEMMA LandReads ==
  ASSUME IInv, ReadInv, NEW i \in Batches, Land(i)
  PROVE  ReadInv'
<1>. USE DEF IInv, ReadInv
<1>1. /\ jobs[i].kind = "teardown"
      /\ UNCHANGED <<phase, reason, accepted, waiting, claimed, consumed, rows, ran>>
      /\ fallen' = IF jobs[i].todo = <<>> THEN fallen ELSE Append(fallen, Head(jobs[i].todo))
      /\ IF Len(jobs[i].todo) > 1
         THEN jobs' = [jobs EXCEPT ![i].todo = Tail(@)] /\ UNCHANGED <<batches, ready, drain>>
         ELSE Settle(i, TRUE, ToSet(fallen) \cup ToSet(jobs[i].todo))
  BY DEF Land, turnV, queueV
<1>2. i \in Jobs /\ jobs[i] \in Write /\ jobs[i].todo \in Seq(Users)
  BY <1>1 DEF Jobs, NoJob, Stored, Books, JobsTyped, Write
<1>3. fallen \in Seq(Users)
  BY DEF Stored, QueueTyped
<1>4. jobs[i].todo # <<>> => jobs[i].todo[1] \in Users /\ jobs[i].todo[1] \in ToSet(jobs[i].todo)
  BY <1>2, SplitMembers
<1>5. \A m \in ToSet(fallen)' : m \in ToSet(fallen) \/ m \in ToSet(jobs[i].todo)
  <2>1. CASE jobs[i].todo = <<>>
    BY <1>1, <2>1
  <2>2. CASE jobs[i].todo # <<>>
    <3>1. fallen' = Append(fallen, jobs[i].todo[1])
      BY <1>1, <1>2, <2>2, SplitMembers
    <3>2. ToSet(Append(fallen, jobs[i].todo[1])) = ToSet(fallen) \cup {jobs[i].todo[1]}
      BY <1>3, <1>4, <2>2, AppendMembers
    <3>3. ToSet(fallen)' = ToSet(fallen) \cup {jobs[i].todo[1]}
      BY <3>1, <3>2 DEF ToSet
    <3>. QED BY <1>4, <2>2, <3>3
  <2>. QED BY <2>1, <2>2
<1>6. CASE ~(Len(jobs[i].todo) > 1)
  <2>1. PICK written : written = ToSet(fallen) \cup ToSet(jobs[i].todo)
    OBVIOUS
  <2>2. Settle(i, TRUE, written) /\ ToSet(fallen)' \subseteq written
    BY <1>1, <1>5, <1>6, <2>1
  <2>3. Apart' /\ Falls' /\ Lasts' /\ \A k \in Through : k \in Through' /\ Queued(k)' = Queued(k)
    BY <1>1, <1>2, <1>5, <2>2, SettleReads
  <2>4. Passes' /\ Once'
    BY <1>1, <1>2, <2>2, <2>3, SettleOnce
  <2>. QED BY <2>3, <2>4
<1>7. CASE Len(jobs[i].todo) > 1
  <2>1. jobs' = [jobs EXCEPT ![i].todo = Tail(@)] /\ UNCHANGED <<batches, drain>>
    BY <1>1, <1>7
  <2>2. jobs[i].todo # <<>> /\ ToSet(Tail(jobs[i].todo)) \subseteq ToSet(jobs[i].todo)
    <3>1. jobs[i].todo # <<>>
      BY <1>2, <1>7
    <3>. QED BY <1>2, <3>1, SplitMembers
  <2>3. /\ jobs'[i].kind = "teardown" /\ jobs'[i].todo = Tail(jobs[i].todo)
        /\ jobs'[i].enqueued = jobs[i].enqueued
        /\ \A j \in Batches : j # i => jobs'[j] = jobs[j]
    BY <1>1, <1>2, <2>1 DEF Stored, Books, JobsTyped, Write
  <2>4. Jobs' = Jobs /\ Lanes' = Lanes
    BY <1>2, <2>1, <2>3 DEF Jobs, NoJob, Lanes
  <2>5. \A k \in Lanes : /\ Queued(k)' = Queued(k) /\ (Writing(k)' <=> Writing(k))
                         /\ (StopPauses(k)' <=> StopPauses(k)) /\ (Done(k)' <=> Done(k))
    <3>1. \A j \in Batches : jobs'[j].kind = jobs[j].kind
      BY <1>1, <2>3
    <3>. QED BY <1>1, <2>1, <3>1 DEF Queued, Writing, StopPauses, Done
  <2>6. \A m \in ToSet(jobs[i].todo) : \E k \in Lanes : batches[k].job = i /\ m \in Queued(k)
    BY <1>1, <1>2 DEF Falls
  <2>7. Apart'
    BY <1>1, <1>5, <2>4, <2>5, <2>6, ApartShrinks
  <2>8. Falls'
    <3>1. ASSUME NEW k \in Lanes, ~Writing(k), NEW m \in Queued(k), m \in ToSet(fallen)' PROVE FALSE
      <4>1. m \notin ToSet(fallen)
        BY <3>1 DEF Falls
      <4>2. PICK l \in Lanes : batches[l].job = i /\ m \in Queued(l)
        BY <1>5, <2>6, <3>1, <4>1
      <4>3. Writing(l)
        BY <1>1, <4>2 DEF Writing
      <4>. QED BY <3>1, <4>2, <4>3, OneBatch
    <3>2. ASSUME NEW j \in Jobs
          PROVE  IF jobs'[j].kind = "teardown"
                 THEN \A m \in ToSet(jobs'[j].todo) : \E k \in Lanes' : batches'[k].job = j /\ m \in Queued(k)'
                 ELSE batches'[j].route = "requeue"
      <4>1. CASE j = i
        BY <2>1, <2>2, <2>3, <2>4, <2>5, <2>6, <4>1
      <4>2. CASE j # i
        <5>1. jobs'[j] = jobs[j]
          BY <2>3, <4>2 DEF Jobs
        <5>2. IF jobs[j].kind = "teardown"
              THEN \A m \in ToSet(jobs[j].todo) : \E k \in Lanes : batches[k].job = j /\ m \in Queued(k)
              ELSE batches[j].route = "requeue"
          BY DEF Falls
        <5>3. \A k \in Lanes : batches'[k] = batches[k] /\ Queued(k)' = Queued(k)
          BY <2>1, <2>5
        <5>4. batches'[j] = batches[j] /\ Lanes' = Lanes
          BY <2>1, <2>4
        <5>. QED BY <5>1, <5>2, <5>3, <5>4
      <4>. QED BY <4>1, <4>2
    <3>3. \A k \in Lanes' : ~Writing(k)' => Queued(k)' \cap ToSet(fallen)' = {}
      BY <2>4, <2>5, <3>1
    <3>. QED BY <2>4, <3>2, <3>3 DEF Falls
  <2>9. \A k \in Through : k \in Through' /\ Queued(k)' = Queued(k)
    BY <2>1, <2>4, <2>5 DEF Through
  <2>10. /\ ToSet(rows)' = ToSet(rows) /\ ToSet(drain.todo)' = ToSet(drain.todo)
         /\ (IsInjective(rows)' <=> IsInjective(rows)) /\ drain'.at = drain.at
    <3>1. drain' = drain /\ rows' = rows
      BY <1>1, <2>1
    <3>. QED BY <3>1 DEF IsInjective
  <2>11. Passes'
    BY <1>1, <2>9, <2>10, PassesGrow DEF Passes
  <2>12. Lasts'
    BY <1>1, <2>1, <2>4 DEF Lasts
  <2>13. \A k \in Jobs : jobs'[k].enqueued = jobs[k].enqueued
    BY <2>3 DEF Jobs
  <2>14. Once'
    BY <1>1, <2>4, <2>5, <2>10, <2>13, OnceStays
  <2>. QED BY <2>7, <2>8, <2>11, <2>12, <2>14
<1>. QED BY <1>6, <1>7

\* A failed write leaves its batches as they are, but for what has fallen.
LEMMA WriteFailsReads ==
  ASSUME IInv, ReadInv, NEW i \in Batches, WriteFails(i)
  PROVE  ReadInv'
<1>. USE DEF IInv, ReadInv
<1>1. /\ i \in Jobs /\ Settle(i, FALSE, ToSet(fallen))
      /\ UNCHANGED <<phase, reason, accepted, waiting, claimed, consumed, fallen, rows, ran>>
  BY DEF WriteFails, Jobs, turnV, queueV
<1>2. ToSet(fallen)' = ToSet(fallen)
  BY <1>1
<1>3. PICK written : written = ToSet(fallen)
  OBVIOUS
<1>4. Settle(i, FALSE, written) /\ ToSet(fallen)' \subseteq written
  BY <1>1, <1>2, <1>3
<1>5. Apart' /\ Falls' /\ Lasts' /\ \A k \in Through : k \in Through' /\ Queued(k)' = Queued(k)
  BY <1>1, <1>2, <1>4, SettleReads
<1>6. Passes' /\ Once'
  BY <1>1, <1>4, <1>5, SettleOnce
<1>. QED BY <1>5, <1>6

\* The pause ends the write of a row that is there.
LEMMA PauseReads ==
  ASSUME IInv, ReadInv, NEW i \in Batches, Pause(i)
  PROVE  ReadInv'
<1>. USE DEF IInv, ReadInv
<1>1. /\ jobs[i].kind = "requeue" /\ Settle(i, TRUE, {})
      /\ UNCHANGED <<phase, reason, accepted, waiting, claimed, consumed, fallen, rows, ran>>
  BY DEF Pause, turnV
<1>2. i \in Jobs /\ ToSet(fallen)' = ToSet(fallen)
  BY <1>1 DEF Jobs, NoJob
<1>3. PICK written : written = {}
  OBVIOUS
<1>4. Settle(i, TRUE, written)
  BY <1>1, <1>3
<1>5. Apart' /\ Falls' /\ Lasts' /\ \A k \in Through : k \in Through' /\ Queued(k)' = Queued(k)
  BY <1>1, <1>2, <1>4, SettleReads
<1>6. Passes' /\ Once'
  BY <1>1, <1>2, <1>4, <1>5, SettleOnce
<1>. QED BY <1>5, <1>6

\* A batch has one row: an older one makes way for the new one in front.
LEMMA RowInFront ==
  ASSUME rows \in Seq(Lanes), IsInjective(rows), NEW i \in Lanes,
         rows' = <<i>> \o Kept(rows, Lanes \ {i})
  PROVE  /\ ToSet(rows)' \subseteq ToSet(rows) \cup {i} /\ IsInjective(rows)'
         /\ i \in ToSet(rows)' /\ ToSet(rows) \subseteq ToSet(rows)'
<1>1. PICK rest : rest = Kept(rows, Lanes \ {i})
  OBVIOUS
<1>2. /\ rest \in Seq(Lanes \cap (Lanes \ {i})) /\ ToSet(rest) = ToSet(rows) \cap (Lanes \ {i})
      /\ IsInjective(rest)
  BY <1>1, KeptMembers, KeptOnce
<1>3. rest \in Seq(Lanes) /\ <<i>> \in Seq(Lanes) /\ i \notin ToSet(rest)
  BY <1>2
<1>4. IsInjective(<<i>> \o rest) /\ ToSet(<<i>> \o rest) = ToSet(<<i>>) \cup ToSet(rest)
  <2>1. IsInjective(<<i>> \o rest)
    BY <1>2, <1>3, FrontOnce
  <2>2. ToSet(<<i>> \o rest) = ToSet(<<i>>) \cup ToSet(rest)
    <3>1. PICK first \in Seq(Lanes) : first = <<i>>
      BY <1>3
    <3>2. ToSet(first \o rest) = ToSet(first) \cup ToSet(rest)
      BY <1>3, <3>1, ConcatMembers
    <3>. QED BY <3>1, <3>2
  <2>. QED BY <2>1, <2>2
<1>5. ToSet(<<i>>) = {i}
  BY DEF ToSet
<1>6. rows' = <<i>> \o rest
  BY <1>1
<1>7. ToSet(rows') = {i} \cup ToSet(rest) /\ IsInjective(rows')
  BY <1>4, <1>5, <1>6
<1>8. ToSet(rows)' = ToSet(rows') /\ (IsInjective(rows)' <=> IsInjective(rows'))
  BY DEF ToSet, IsInjective
<1>9. ToSet(rows) \subseteq Lanes
  BY DEF ToSet
<1>. QED BY <1>2, <1>7, <1>8, <1>9

\* A batch becomes a row before it is run, and not again before a drain.
LEMMA EnqueueReads ==
  ASSUME IInv, ReadInv, NEW i \in Batches, Enqueue(i)
  PROVE  ReadInv'
<1>. USE DEF IInv, ReadInv
<1>1. /\ jobs[i].kind = "requeue" /\ ~jobs[i].enqueued /\ rows' = <<i>> \o Kept(rows, Lanes \ {i})
      /\ IF StopPauses(i)
         THEN jobs' = [jobs EXCEPT ![i].enqueued = TRUE] /\ UNCHANGED <<batches, drain>>
         ELSE Settle(i, TRUE, {})
      /\ UNCHANGED <<phase, reason, accepted, waiting, claimed, consumed, fallen, ran>>
  BY DEF Enqueue, turnV
<1>2. i \in Jobs /\ jobs[i] \in Write /\ i \in Lanes /\ batches[i].job = i /\ i # 0
  BY <1>1 DEF Jobs, NoJob, Stored, Books, JobsTyped, Owned, Batches
<1>3. ToSet(rows)' \subseteq ToSet(rows) \cup {i} /\ IsInjective(rows)'
  BY <1>1, <1>2, RowInFront DEF Passes, Stored, QueueTyped
<1>4. i \in Through
  BY <1>1, <1>2 DEF Falls, Through, Writing
<1>5. ToSet(fallen)' = ToSet(fallen)
  BY <1>1
<1>6. PICK new : new = {i}
  OBVIOUS
<1>7. Ran(i) => StopPauses(i) /\ drain.at # "no"
  BY <1>1, <1>2 DEF Once, Done
<1>8. CASE ~StopPauses(i)
  <2>1. PICK written : written = {}
    OBVIOUS
  <2>2. Settle(i, TRUE, written)
    BY <1>1, <1>8, <2>1
  <2>3. Apart' /\ Falls' /\ Lasts' /\ \A k \in Through : k \in Through' /\ Queued(k)' = Queued(k)
    BY <1>1, <1>2, <1>5, <2>2, SettleReads
  <2>4. Passes'
    <3>1. ToSet(rows)' \subseteq ToSet(rows) \cup Through' /\ \A m \in ran' : m \in ran
      BY <1>1, <1>3, <1>4, <2>3
    <3>. QED BY <1>3, <2>3, <3>1, PassesGrow
  <2>. PICK ok \in BOOLEAN : ok
    OBVIOUS
  <2>5. /\ Lanes' = Lanes /\ Jobs' = Jobs \ {i} /\ \A j \in Jobs' : jobs'[j] = jobs[j]
        /\ \A k \in Lanes : batches[k].job # i => batches'[k] = batches[k] /\ Queued(k)' = Queued(k)
        /\ \A k \in Lanes : batches[k].job = i =>
             /\ batches'[k].job = 0 /\ batches'[k].cause = batches[k].cause
             /\ batches'[k].route = batches[k].route
             /\ batches'[k].lane = IF batches[k].lane = "first" THEN "release" ELSE batches[k].lane
             /\ batches'[k].pending => batches[k].pending /\ ~ok
             /\ Queued(k)' = IF jobs[i].kind = "teardown" THEN Queued(k) \ written ELSE Queued(k)
    <3>1. Settle(i, ok, written)
      <4>1. ok = TRUE
        OBVIOUS
      <4>. QED BY <2>2, <4>1
    <3>. QED BY <1>2, <3>1, SettleBooks, ZenonT(60)
  <2>6. drain'.at = drain.at /\ drain'.todo = drain.todo
    BY <2>2 DEF Settle, DrainTyped
  <2>7. ToSet(drain.todo)' = ToSet(drain.todo)
    BY <2>6 DEF ToSet
  <2>8. \A k \in Lanes : (StopPauses(k)' <=> StopPauses(k)) /\ Queued(k)' \subseteq Queued(k)
    BY <1>1, <2>5 DEF StopPauses
  <2>9. (\A k \in Lanes : Done(k) => Done(k)') /\ Done(i)'
    BY <1>2, <2>5 DEF Done
  <2>10. ToSet(rows)' \subseteq ToSet(rows) \cup new
    BY <1>3, <1>6
  <2>11. \A k \in new : /\ Ran(k) => StopPauses(k) /\ drain.at # "no"
                        /\ ~StopPauses(k) => Done(k)'
                        /\ StopPauses(k) => jobs'[k].enqueued
    BY <1>6, <1>7, <1>8, <2>9
  <2>12. Once'
    BY <1>1, <2>5, <2>6, <2>7, <2>8, <2>9, <2>10, <2>11, OnceGrows
  <2>. QED BY <2>3, <2>4, <2>12
<1>9. CASE StopPauses(i)
  <2>1. jobs' = [jobs EXCEPT ![i].enqueued = TRUE] /\ UNCHANGED <<batches, drain>>
    BY <1>1, <1>9
  <2>2. /\ jobs'[i].kind = "requeue" /\ jobs'[i].enqueued
        /\ \A j \in Batches : j # i => jobs'[j] = jobs[j]
    BY <1>1, <1>2, <2>1 DEF Stored, Books, JobsTyped, Write
  <2>3. Jobs' = Jobs /\ Lanes' = Lanes
    BY <1>2, <2>1, <2>2 DEF Jobs, NoJob, Lanes
  <2>4. \A k \in Lanes : /\ Queued(k)' = Queued(k) /\ (Writing(k)' <=> Writing(k))
                         /\ (StopPauses(k)' <=> StopPauses(k)) /\ (Done(k)' <=> Done(k))
    <3>1. \A j \in Batches : jobs'[j].kind = jobs[j].kind
      BY <1>1, <2>2
    <3>. QED BY <1>1, <2>1, <3>1 DEF Queued, Writing, StopPauses, Done
  <2>5. Apart'
    BY <1>1, <1>5, <2>3, <2>4, ApartShrinks
  <2>6. Falls'
    <3>1. \A k \in Lanes : ~Writing(k) => Queued(k) \cap ToSet(fallen) = {}
      BY DEF Falls
    <3>2. \A k \in Lanes' : ~Writing(k)' => Queued(k)' \cap ToSet(fallen)' = {}
      BY <1>5, <2>3, <2>4, <3>1
    <3>3. ASSUME NEW j \in Jobs
          PROVE  IF jobs'[j].kind = "teardown"
                 THEN \A m \in ToSet(jobs'[j].todo) : \E k \in Lanes' : batches'[k].job = j /\ m \in Queued(k)'
                 ELSE batches'[j].route = "requeue"
      <4>1. IF jobs[j].kind = "teardown"
            THEN \A m \in ToSet(jobs[j].todo) : \E k \in Lanes : batches[k].job = j /\ m \in Queued(k)
            ELSE batches[j].route = "requeue"
        BY DEF Falls
      <4>2. (\A k \in Lanes : batches'[k] = batches[k] /\ Queued(k)' = Queued(k)) /\ Lanes' = Lanes
        BY <2>1, <2>3, <2>4
      <4>3. batches'[j] = batches[j]
        BY <2>1
      <4>4. CASE j = i
        BY <1>1, <2>2, <4>1, <4>3, <4>4
      <4>5. CASE j # i
        <5>1. jobs'[j] = jobs[j]
          BY <2>2, <4>5 DEF Jobs
        <5>. QED BY <4>1, <4>2, <4>3, <5>1
      <4>. QED BY <4>4, <4>5
    <3>. QED BY <2>3, <3>2, <3>3 DEF Falls
  <2>7. \A k \in Through : k \in Through' /\ Queued(k)' = Queued(k)
    BY <2>1, <2>3, <2>4 DEF Through
  <2>8. Passes'
    BY <1>1, <1>3, <1>4, <2>7, PassesGrow
  <2>9. Lasts'
    BY <1>1, <2>1, <2>3 DEF Lasts
  <2>10. \A k \in Jobs : jobs[k].enqueued => jobs'[k].enqueued
    BY <2>2 DEF Jobs
  <2>11. \A k \in new : /\ Ran(k) => StopPauses(k) /\ drain.at # "no"
                        /\ ~StopPauses(k) => Done(k)'
                        /\ StopPauses(k) => jobs'[k].enqueued
    BY <1>6, <1>7, <1>9, <2>2
  <2>12. /\ drain'.at = drain.at /\ ToSet(drain.todo)' = ToSet(drain.todo)
         /\ ToSet(rows)' \subseteq ToSet(rows) \cup new
    BY <1>3, <1>6, <2>1
  <2>13. Once'
    BY <1>1, <2>3, <2>4, <2>10, <2>11, <2>12, OnceGrows
  <2>. QED BY <2>5, <2>6, <2>8, <2>9, <2>13
<1>. QED BY <1>8, <1>9

\* Steps that leave the turn's messages, the books and the queue alone.
LEMMA ReadsKept ==
  ASSUME Owned, ReadInv,
         UNCHANGED <<reason, accepted, waiting, claimed, consumed, batches, jobs, fallen, rows, ran>>,
         phase \in {"aborted", "gone"} => phase' \in {"aborted", "gone"},
         drain'.at = "no" => drain'.at = drain.at, drain'.todo = drain.todo
  PROVE  ReadInv'
<1>. USE DEF ReadInv
<1>1. Lanes' = Lanes /\ ToSet(drain.todo)' \subseteq ToSet(drain.todo)
  BY DEF Lanes, ToSet
<1>2. Falls' /\ Passes' /\ Once'
  BY <1>1, SameReads
<1>3. ToSet(fallen)' = ToSet(fallen) /\ \A k \in Lanes : Queued(k)' = Queued(k)
  BY DEF Queued
<1>4. Apart'
  BY <1>1, <1>3, ApartShrinks
<1>5. Lasts'
  BY <1>1 DEF Lasts
<1>. QED BY <1>2, <1>4, <1>5

\* Wakes, the end of the drain and the release of the turn.
LEMMA WakesRead ==
  ASSUME IInv, ReadInv, OtherWake \/ ContinueQueue \/ DrainEnds \/ Release
  PROVE  ReadInv'
<1>1. UNCHANGED <<reason, accepted, waiting, claimed, consumed, batches, jobs, fallen, rows, ran>>
  BY DEF OtherWake, ContinueQueue, DrainEnds, Release, turnV, queueV
<1>2. phase' = phase \/ phase' = "gone"
  BY DEF OtherWake, ContinueQueue, DrainEnds, Release, turnV
<1>3. drain' = drain \/ drain' = [drain EXCEPT !.at = "done"]
  BY DEF OtherWake, ContinueQueue, DrainEnds, Release
<1>4. (drain'.at = "no" => drain'.at = drain.at) /\ drain'.todo = drain.todo
  BY <1>3 DEF IInv, DrainTyped
<1>. QED BY <1>1, <1>2, <1>4, ReadsKept DEF IInv, Stored, Books

\* A wake runs the first row, which leaves the queue.
LEMMA DispatchReads ==
  ASSUME IInv, ReadInv, Dispatch
  PROVE  ReadInv'
<1>. USE DEF IInv, ReadInv
<1>1. /\ UNCHANGED <<phase, reason, accepted, waiting, claimed, consumed, batches, jobs, drain, fallen>>
      /\ drain.at = "no"
      /\ \/ UNCHANGED <<rows, ran>>
         \/ rows # <<>> /\ rows' = Tail(rows) /\ ran' = ran \cup ToSet(batches[rows[1]].todo)
  BY DEF Dispatch, turnV
<1>2. CASE UNCHANGED <<rows, ran>>
  BY <1>1, <1>2, ReadsKept DEF Stored, Books
<1>3. CASE rows # <<>> /\ rows' = Tail(rows) /\ ran' = ran \cup ToSet(batches[rows[1]].todo)
  <2>1. PICK r : r = rows[1]
    OBVIOUS
  <2>2. /\ r \in Lanes /\ ToSet(rows) = {r} \cup ToSet(Tail(rows)) /\ r \notin ToSet(Tail(rows))
        /\ IsInjective(Tail(rows))
    BY <1>3, <2>1, SplitMembers, TailOnce DEF Passes, Stored, QueueTyped
  <2>3. ToSet(rows)' = ToSet(Tail(rows)) /\ (IsInjective(rows)' <=> IsInjective(Tail(rows)))
    BY <1>3 DEF ToSet, IsInjective
  <2>4. ran' = ran \cup Queued(r)
    BY <1>3, <2>1 DEF Queued
  <2>5. /\ Lanes' = Lanes /\ Jobs' = Jobs /\ Through' = Through /\ ToSet(fallen)' = ToSet(fallen)
        /\ drain'.at = drain.at /\ ToSet(drain.todo)' = {}
    BY <1>1, EmptyMembers DEF Lanes, Jobs, Through, Writing, Lasts, ToSet
  <2>6. \A k \in Lanes : /\ Queued(k)' = Queued(k) /\ (StopPauses(k)' <=> StopPauses(k))
                         /\ (Done(k)' <=> Done(k)) /\ (Writing(k)' <=> Writing(k))
    BY <1>1 DEF Queued, StopPauses, Done, Writing
  <2>7. Apart'
    BY <1>1, <2>5, <2>6, ApartShrinks
  <2>8. Falls'
    BY <1>1 DEF Falls, Lanes, Jobs, Writing, Queued, ToSet
  <2>9. Passes'
    <3>1. r \in Through
      BY <2>2 DEF Passes
    <3>2. \A k \in Through : k \in Through' /\ Queued(k)' = Queued(k)
      BY <2>5, <2>6 DEF Through
    <3>3. \A m \in ran' : m \in ran \/ \E k \in Through : m \in Queued(k)
      BY <2>4, <3>1
    <3>. QED BY <2>2, <2>3, <3>2, <3>3, PassesGrow
  <2>10. Lasts'
    BY <1>1, <2>5 DEF Lasts
  <2>11. Once'
    <3>1. ASSUME NEW k \in Lanes
          PROVE  /\ ~StopPauses(k)' =>
                      /\ k \in ToSet(rows)' /\ drain'.at = "no" => Done(k)'
                      /\ Ran(k)' => Done(k)' /\ k \notin ToSet(rows)' /\ k \notin ToSet(drain.todo)'
                 /\ StopPauses(k)' /\ drain'.at = "no" =>
                      /\ (k \in ToSet(rows)' \/ Ran(k)') /\ k \in Jobs' => jobs'[k].enqueued
                      /\ Ran(k)' => k \notin ToSet(rows)'
      <4>1. CASE k = r
        BY <1>1, <2>2, <2>3, <2>5, <2>6, <4>1 DEF Once
      <4>2. CASE k # r
        <5>1. Ran(k)' => Ran(k)
          <6>1. Queued(k) \cap Queued(r) = {}
            BY <2>2, <4>2 DEF Apart
          <6>. QED BY <2>4, <2>6, <6>1 DEF Ran
        <5>2. k \in ToSet(rows)' => k \in ToSet(rows)
          BY <2>2, <2>3
        <5>. QED BY <1>1, <2>5, <2>6, <5>1, <5>2 DEF Once
      <4>. QED BY <4>1, <4>2
    <3>. QED BY <2>5, <3>1 DEF Once
  <2>. QED BY <2>7, <2>8, <2>9, <2>10, <2>11
<1>. QED BY <1>1, <1>2, <1>3

\* What `discard` does to the books.
LEMMA DiscardBooks ==
  ASSUME Stored, NEW msgs \in Seq(Messages), NEW cause \in {"abort", "abnormal-seal", "exit-close"},
         Discard(msgs, cause)
  PROVE  \/ UNCHANGED <<batches, jobs>>
         \/ \E n \in Nat \ Lanes :
              /\ n # 0 /\ Lanes' = Lanes \cup {n} /\ Jobs' \subseteq Jobs \cup {n}
              /\ \A k \in Lanes : batches'[k] = batches[k] /\ Queued(k)' = Queued(k)
              /\ \A j \in Jobs : j \in Jobs' /\ jobs'[j] = jobs[j]
              /\ Queued(n)' = ToSet(msgs) \cap Users
              /\ batches'[n].cause = cause
              /\ batches'[n].lane = "first" \/ batches'[n].route = "requeue" => cause = "exit-close"
              /\ batches'[n].lane = "first" => batches'[n].job # 0
              /\ n \in Jobs' => batches'[n].route = "requeue" /\ jobs'[n].kind = "requeue"
              /\ n = Len(batches) + 1 /\ batches'[n].pending /\ batches'[n].todo # <<>>
              /\ batches'[n].lane \in {"first", "release"}
              /\ cause = "exit-close" =>
                   /\ batches'[n].route = "requeue" /\ batches'[n].job = n
                   /\ n \in Batches => n \in Jobs'
              /\ cause # "exit-close" => batches'[n].job = 0
              /\ n \in Jobs' => jobs'[n].waiters = <<>> /\ ~jobs'[n].enqueued
<1>. USE DEF Stored, Books
<1>. DEFINE h == Handed(msgs, cause)
<1>. PICK n : n = Len(batches) + 1
  OBVIOUS
<1>0. /\ Lanes = 1..Len(batches) /\ Len(batches) \in Nat /\ n \in Nat \ Lanes /\ n # 0
      /\ \A j \in Jobs : j \in Batches /\ j # n
  BY DEF BatchesTyped, Lanes, JobsTyped, Jobs, Owned
<1>1. h \in Batch /\ ToSet(h.todo) = ToSet(msgs) \cap Users
  <2>1. Kept(msgs, Users) \in Seq(Messages \cap Users) /\ ToSet(Kept(msgs, Users)) = ToSet(msgs) \cap Users
    BY KeptMembers
  <2>2. Messages \cap Users = Users
    BY UsersAreMessages
  <2>. QED BY <2>1, <2>2 DEF Handed, Batch
<1>2. /\ h.cause = cause /\ h.job = 0 /\ h.pending
      /\ h.route = IF cause = "exit-close" THEN "requeue" ELSE "teardown"
      /\ h.lane = IF cause = "exit-close" THEN "first" ELSE "release"
  BY DEF Handed
<1>3. \/ h.todo = <<>> /\ UNCHANGED <<batches, jobs>>
      \/ h.todo # <<>> /\ h.route = "teardown" /\ batches' = Append(batches, h) /\ jobs' = jobs
      \/ /\ h.todo # <<>> /\ h.route # "teardown" /\ batches' = Append(batches, [h EXCEPT !.job = n])
         /\ jobs' = [jobs EXCEPT ![n] = Job(h, n, <<>>)]
  BY DEF Discard
<1>. HIDE DEF h
<1>4. ASSUME NEW c \in Batch, batches' = Append(batches, c), c.todo = h.todo
      PROVE  /\ Lanes' = Lanes \cup {n} /\ batches'[n] = c
             /\ \A k \in Lanes : batches'[k] = batches[k] /\ Queued(k)' = Queued(k)
             /\ Queued(n)' = ToSet(msgs) \cap Users
  <2>1. Lanes' = Lanes \cup {n}
    BY <1>0, <1>4 DEF BatchesTyped, Lanes
  <2>2. /\ \A k \in Lanes : batches'[k] = batches[k] /\ Queued(k)' = Queued(k)
        /\ batches'[n] = c
    BY <1>0, <1>4 DEF BatchesTyped, Queued
  <2>3. Queued(n)' = ToSet(msgs) \cap Users
    <3>1. batches'[n].todo = h.todo
      BY <1>4, <2>2
    <3>2. Queued(n)' = ToSet(h.todo)
      BY <3>1 DEF Queued, ToSet
    <3>. QED BY <1>1, <3>2
  <2>. QED BY <2>1, <2>2, <2>3
<1>5. CASE h.todo # <<>> /\ h.route = "teardown" /\ batches' = Append(batches, h) /\ jobs' = jobs
  <2>1. /\ Lanes' = Lanes \cup {n} /\ batches'[n] = h
        /\ \A k \in Lanes : batches'[k] = batches[k] /\ Queued(k)' = Queued(k)
        /\ Queued(n)' = ToSet(msgs) \cap Users
    BY <1>1, <1>4, <1>5
  <2>2. Jobs' = Jobs /\ n \notin Jobs'
    BY <1>0, <1>5 DEF Jobs
  <2>3. cause # "exit-close" /\ h.lane = "release"
    BY <1>2, <1>5
  <2>. QED BY <1>0, <1>2, <1>5, <2>1, <2>2, <2>3
<1>6. CASE /\ h.todo # <<>> /\ h.route # "teardown" /\ batches' = Append(batches, [h EXCEPT !.job = n])
           /\ jobs' = [jobs EXCEPT ![n] = Job(h, n, <<>>)]
  <2>1. PICK c : c = [h EXCEPT !.job = n]
    OBVIOUS
  <2>2. /\ c \in Batch /\ c.todo = h.todo /\ c.job = n /\ c.cause = cause /\ c.route = "requeue"
        /\ cause = "exit-close" /\ c.pending /\ c.lane = "first"
    BY <1>0, <1>1, <1>2, <1>6, <2>1 DEF Batch
  <2>3. /\ Lanes' = Lanes \cup {n} /\ batches'[n] = c
        /\ \A k \in Lanes : batches'[k] = batches[k] /\ Queued(k)' = Queued(k)
        /\ Queued(n)' = ToSet(msgs) \cap Users
    BY <1>4, <1>6, <2>1, <2>2
  <2>4. \A j \in Batches : jobs'[j] = IF j = n THEN Job(h, n, <<>>) ELSE jobs[j]
    BY <1>6 DEF JobsTyped
  <2>5. /\ Job(h, n, <<>>).kind = "requeue" /\ Job(h, n, <<>>) # NoJob
        /\ Job(h, n, <<>>).waiters = <<>> /\ ~Job(h, n, <<>>).enqueued
    BY <1>2, <2>2 DEF Job, NoJob
  <2>6. /\ Jobs' \subseteq Jobs \cup {n} /\ \A j \in Jobs : j \in Jobs' /\ jobs'[j] = jobs[j]
        /\ n \in Jobs' => jobs'[n].kind = "requeue" /\ jobs'[n].waiters = <<>> /\ ~jobs'[n].enqueued
        /\ n \in Batches => n \in Jobs'
    BY <1>0, <2>4, <2>5 DEF Jobs
  <2>. QED BY <1>0, <1>6, <2>2, <2>3, <2>6
<1>. QED BY <1>3, <1>5, <1>6

\* What the turn lets go of goes from it to the new batch.
LEMMA DiscardReads ==
  ASSUME Stored, ReadInv, NEW msgs \in Seq(Messages),
         NEW cause \in {"abort", "abnormal-seal", "exit-close"}, Discard(msgs, cause),
         UNCHANGED <<accepted, fallen, rows, ran>>, drain'.todo = drain.todo,
         drain'.at = "no" => drain.at = "no",
         phase \in {"aborted", "gone"} => phase' \in {"aborted", "gone"} /\ reason' = reason,
         cause = "abort" => phase' \in {"aborted", "gone"},
         ToSet(msgs) \subseteq TurnHas, TurnHas' \subseteq TurnHas, ToSet(msgs) \cap TurnHas' = {},
         ToSet(waiting)' \cap ToSet(claimed)' = {},
         consumed' \cap (ToSet(waiting)' \cup ToSet(claimed)') = {}
  PROVE  ReadInv'
<1>. USE DEF ReadInv
<1>1. /\ ToSet(fallen)' = ToSet(fallen) /\ ToSet(rows)' = ToSet(rows) /\ ToSet(drain.todo)' = ToSet(drain.todo)
      /\ (IsInjective(rows)' <=> IsInjective(rows))
  BY DEF IsInjective, ToSet
<1>2. \A k \in Lanes : batches[k].cause = "abort" => phase \in {"aborted", "gone"}
  BY DEF Lasts
<1>3. CASE UNCHANGED <<batches, jobs>>
  <2>1. /\ Lanes' = Lanes /\ Jobs' = Jobs /\ Through' = Through
        /\ \A k \in Lanes : /\ Queued(k)' = Queued(k) /\ (Writing(k)' <=> Writing(k))
                            /\ (Done(k)' <=> Done(k)) /\ (Ran(k)' <=> Ran(k))
                            /\ (StopPauses(k)' <=> StopPauses(k))
    BY <1>2, <1>3 DEF Lanes, Jobs, Through, Queued, Writing, Done, StopPauses, Ran
  <2>2. Falls' /\ Passes'
    <3>1. \A k \in Lanes : ~Writing(k) => Queued(k) \cap ToSet(fallen) = {}
      BY DEF Falls
    <3>2. \A j \in Jobs : IF jobs[j].kind = "teardown"
                          THEN \A m \in ToSet(jobs[j].todo) :
                                 \E k \in Lanes : batches[k].job = j /\ m \in Queued(k)
                          ELSE batches[j].route = "requeue"
      BY DEF Falls
    <3>3. \A j \in Jobs : ToSet(jobs[j].todo)' = ToSet(jobs[j].todo)
      BY <1>3 DEF ToSet
    <3>4. Falls'
      BY <1>1, <1>3, <2>1, <3>1, <3>2, <3>3 DEF Falls
    <3>5. /\ ToSet(rows) \subseteq Through /\ IsInjective(rows)
          /\ \A m \in ran : \E k \in Through : m \in Queued(k)
      BY DEF Passes
    <3>6. \A k \in Through : k \in Lanes
      BY DEF Through
    <3>7. Passes'
      BY <1>1, <2>1, <3>5, <3>6 DEF Passes
    <3>. QED BY <3>4, <3>7
  <2>3. Once'
    BY <1>1, <1>3, <2>1, OnceStays
  <2>4. Lasts'
    BY <1>2, <1>3, <2>1 DEF Lasts
  <2>5. Apart'
    <3>1. TurnHas \cup ToSet(fallen) \subseteq accepted /\ ToSet(fallen) \cap TurnHas = {}
      BY DEF Apart
    <3>2. /\ \A k \in Lanes : Queued(k) \subseteq accepted /\ Queued(k) \cap TurnHas = {}
          /\ \A k, l \in Lanes : k # l => Queued(k) \cap Queued(l) = {}
      BY DEF Apart
    <3>. QED BY <1>1, <2>1, <3>1, <3>2 DEF Apart
  <2>. QED BY <2>2, <2>3, <2>4, <2>5
<1>4. ASSUME NEW n \in Nat \ Lanes,
              /\ n # 0 /\ Lanes' = Lanes \cup {n} /\ Jobs' \subseteq Jobs \cup {n}
              /\ \A k \in Lanes : batches'[k] = batches[k] /\ Queued(k)' = Queued(k)
              /\ \A j \in Jobs : j \in Jobs' /\ jobs'[j] = jobs[j]
              /\ Queued(n)' = ToSet(msgs) \cap Users
              /\ batches'[n].cause = cause
              /\ batches'[n].lane = "first" \/ batches'[n].route = "requeue" => cause = "exit-close"
              /\ batches'[n].lane = "first" => batches'[n].job # 0
              /\ n \in Jobs' => batches'[n].route = "requeue" /\ jobs'[n].kind = "requeue"
      PROVE  ReadInv'
  <2>1. /\ \A k \in Lanes : batches[k].job \in Batches => batches[k].job \in Jobs
        /\ \A j \in Jobs : j \in Lanes
    BY DEF Stored, Books, Covered, Owned
  <2>2. \A k \in Lanes : /\ (Writing(k)' <=> Writing(k)) /\ (Done(k)' <=> Done(k))
                         /\ (Ran(k)' <=> Ran(k)) /\ (StopPauses(k)' <=> StopPauses(k))
    BY <1>2, <1>4, <2>1 DEF Writing, Done, Ran, StopPauses
  <2>3. \A k \in Through : k \in Through' /\ k \in Lanes /\ Queued(k)' = Queued(k)
    BY <1>4, <2>2 DEF Through
  <2>4. Queued(n)' \subseteq TurnHas /\ Queued(n)' \cap TurnHas' = {}
    BY <1>4
  <2>5. Apart'
    <3>1. TurnHas \cup ToSet(fallen) \subseteq accepted /\ ToSet(fallen) \cap TurnHas = {}
      BY DEF Apart
    <3>2. /\ \A k \in Lanes : Queued(k) \subseteq accepted /\ Queued(k) \cap TurnHas = {}
          /\ \A k, l \in Lanes : k # l => Queued(k) \cap Queued(l) = {}
      BY DEF Apart
    <3>3. \A k \in Lanes' : Queued(k)' \subseteq accepted /\ Queued(k)' \cap TurnHas' = {}
      BY <1>4, <2>4, <3>1, <3>2
    <3>4. \A k, l \in Lanes' : k # l => Queued(k)' \cap Queued(l)' = {}
      BY <1>4, <2>4, <3>2
    <3>. QED BY <1>1, <3>1, <3>3, <3>4 DEF Apart
  <2>6. Falls'
    <3>1. ASSUME NEW k \in Lanes', ~Writing(k)' PROVE Queued(k)' \cap ToSet(fallen)' = {}
      <4>1. CASE k \in Lanes
        BY <1>1, <1>4, <2>2, <3>1, <4>1 DEF Falls
      <4>2. CASE k = n
        BY <1>1, <2>4, <4>2 DEF Apart
      <4>. QED BY <1>4, <4>1, <4>2
    <3>2. ASSUME NEW j \in Jobs'
          PROVE  IF jobs'[j].kind = "teardown"
                 THEN \A m \in ToSet(jobs'[j].todo) : \E k \in Lanes' : batches'[k].job = j /\ m \in Queued(k)'
                 ELSE batches'[j].route = "requeue"
      <4>1. CASE j = n
        BY <1>4, <4>1
      <4>2. CASE j \in Jobs
        <5>1. jobs'[j] = jobs[j] /\ j \in Lanes
          BY <1>4, <2>1, <4>2
        <5>2. IF jobs[j].kind = "teardown"
              THEN \A m \in ToSet(jobs[j].todo) : \E k \in Lanes : batches[k].job = j /\ m \in Queued(k)
              ELSE batches[j].route = "requeue"
          BY <4>2 DEF Falls
        <5>. QED BY <1>4, <5>1, <5>2
      <4>. QED BY <1>4, <4>1, <4>2
    <3>. QED BY <3>1, <3>2 DEF Falls
  <2>7. Passes'
    BY <1>1, <2>3, PassesGrow DEF Passes
  <2>8. Lasts'
    BY <1>2, <1>4 DEF Lasts
  <2>9. Once'
    <3>1. n \notin ToSet(rows)'
      BY <1>1, <1>4, <2>3 DEF Passes
    <3>2. ~Ran(n)'
      <4>1. SUFFICES ASSUME NEW m \in ran, m \in Queued(n)' PROVE FALSE
        BY DEF Ran
      <4>2. PICK k \in Through : m \in Queued(k)
        BY DEF Passes
      <4>3. m \in TurnHas /\ k \in Lanes
        BY <2>3, <2>4, <4>1
      <4>. QED BY <4>2, <4>3 DEF Apart
    <3>3. ASSUME NEW k \in Lanes'
          PROVE  /\ ~StopPauses(k)' =>
                      /\ k \in ToSet(rows)' /\ drain'.at = "no" => Done(k)'
                      /\ Ran(k)' => Done(k)' /\ k \notin ToSet(rows)' /\ k \notin ToSet(drain.todo)'
                 /\ StopPauses(k)' /\ drain'.at = "no" =>
                      /\ (k \in ToSet(rows)' \/ Ran(k)') /\ k \in Jobs' => jobs'[k].enqueued
                      /\ Ran(k)' => k \notin ToSet(rows)'
      <4>1. CASE k = n
        BY <3>1, <3>2, <4>1
      <4>2. CASE k \in Lanes
        BY <1>1, <1>4, <2>2, <4>2 DEF Once
      <4>. QED BY <1>4, <4>1, <4>2
    <3>. QED BY <3>3 DEF Once
  <2>. QED BY <2>5, <2>6, <2>7, <2>8, <2>9
<1>. QED BY <1>3, <1>4, DiscardBooks

\* The merged write before the release has what its batches hold.
LEMMA MergeReads ==
  ASSUME Stored, ReadInv, NEW free \in SUBSET Lanes, NEW first \in free,
         \A i \in free : batches[i].job = 0 /\ batches[i].pending /\ batches[i].route = "teardown",
         jobs' = [jobs EXCEPT ![first] = [kind |-> "teardown", waiters |-> <<>>, enqueued |-> FALSE,
                                          todo |-> Merged(free)]],
         batches' = [i \in Lanes |->
           IF i \in free THEN [batches[i] EXCEPT !.job = first] ELSE batches[i]],
         UNCHANGED <<phase, reason, accepted, waiting, claimed, consumed, drain, fallen, rows, ran>>
  PROVE  ReadInv'
<1>. USE DEF Stored, Books, ReadInv
<1>0. /\ Lanes = 1..Len(batches) /\ Len(batches) \in Nat /\ first \in Nat /\ first # 0 /\ first \notin Jobs
      /\ \A j \in Jobs : j \in Batches /\ j # 0 /\ j \in Lanes
      /\ \A k \in Lanes : batches[k] \in Batch
  BY DEF BatchesTyped, Lanes, Jobs, Batches, Owned
<1>1. \A m \in ToSet(Merged(free)) : \E k \in free : m \in Queued(k)
  <2>1. PICK S : S = UNION {ToSet(batches[i].todo) : i \in free}
    OBVIOUS
  <2>2. ASSUME NEW k \in free PROVE ToSet(batches[k].todo) \subseteq Messages
    <3>1. batches[k].todo \in Seq(Users)
      BY <1>0 DEF Batch
    <3>. QED BY <3>1, UsersAreMessages DEF ToSet
  <2>3. S \in SUBSET Messages
    BY <2>1, <2>2
  <2>4. ToSet(InOrder(S)) = S /\ Merged(free) = InOrder(S)
    BY <2>1, <2>3, InOrderMembers DEF Merged
  <2>. QED BY <2>1, <2>4 DEF Queued
<1>2. Lanes' = Lanes
  BY <1>0 DEF Lanes
<1>3. \A k \in Lanes :
        /\ k \notin free => batches'[k] = batches[k]
        /\ k \in free => batches'[k].job = first
        /\ batches'[k].todo = batches[k].todo /\ batches'[k].route = batches[k].route
        /\ batches'[k].cause = batches[k].cause /\ batches'[k].lane = batches[k].lane
        /\ batches'[k].pending = batches[k].pending
  BY <1>0 DEF Batch
<1>4. \A k \in Lanes : Queued(k)' = Queued(k)
  BY <1>3 DEF Queued, ToSet
<1>5. /\ Jobs' \subseteq Jobs \cup {first}
      /\ \A j \in Jobs : j \in Jobs' /\ jobs'[j] = jobs[j]
      /\ first \in Jobs' => jobs'[first].kind = "teardown" /\ jobs'[first].todo = Merged(free)
  <2>1. \A j \in Batches : jobs'[j] = IF j = first THEN [kind |-> "teardown", waiters |-> <<>>, enqueued |-> FALSE,
                                                         todo |-> Merged(free)] ELSE jobs[j]
    BY DEF JobsTyped
  <2>. QED BY <1>0, <2>1 DEF Jobs
<1>6. \A k \in Lanes : batches[k].job \in Batches => batches[k].job \in Jobs
  BY DEF Covered
<1>7. \A k \in Lanes : /\ Writing(k) => Writing(k)'
                       /\ k \notin free => (Writing(k)' <=> Writing(k))
                       /\ StopPauses(k)' <=> StopPauses(k)
                       /\ Done(k) => Done(k)'
  <2>1. 0 \notin Batches
    BY DEF Batches
  <2>. QED BY <1>3, <1>5, <1>6, <2>1 DEF Writing, StopPauses, Done
<1>8. /\ ToSet(fallen)' = ToSet(fallen) /\ ToSet(rows)' = ToSet(rows) /\ ToSet(drain.todo)' = ToSet(drain.todo)
      /\ (IsInjective(rows)' <=> IsInjective(rows))
  BY DEF IsInjective
<1>9. Apart'
  BY <1>2, <1>4, <1>8, ApartShrinks
<1>10. Falls'
  <2>1. \A k \in Lanes' : ~Writing(k)' => Queued(k)' \cap ToSet(fallen)' = {}
    BY <1>2, <1>4, <1>7, <1>8 DEF Falls
  <2>2. ASSUME NEW j \in Jobs'
        PROVE  IF jobs'[j].kind = "teardown"
               THEN \A m \in ToSet(jobs'[j].todo) : \E k \in Lanes' : batches'[k].job = j /\ m \in Queued(k)'
               ELSE batches'[j].route = "requeue"
    <3>1. CASE j = first
      BY <1>1, <1>2, <1>3, <1>4, <1>5, <3>1
    <3>2. CASE j \in Jobs
      <4>1. jobs'[j] = jobs[j] /\ j \in Lanes /\ j # 0
        BY <1>0, <1>5, <3>2
      <4>2. IF jobs[j].kind = "teardown"
            THEN \A m \in ToSet(jobs[j].todo) : \E k \in Lanes : batches[k].job = j /\ m \in Queued(k)
            ELSE batches[j].route = "requeue"
        BY <3>2 DEF Falls
      <4>3. \A k \in Lanes : batches[k].job = j => batches'[k].job = j
        BY <1>3, <4>1
      <4>. QED BY <1>2, <1>3, <1>4, <4>1, <4>2, <4>3
    <3>. QED BY <1>5, <3>1, <3>2
  <2>. QED BY <2>1, <2>2 DEF Falls
<1>11. \A k \in Through : k \in Lanes /\ k \notin free /\ k \in Through' /\ Queued(k)' = Queued(k)
  BY <1>2, <1>3, <1>4, <1>7 DEF Through
<1>12. Passes'
  BY <1>8, <1>11, PassesGrow DEF Passes
<1>13. Lasts'
  <2>1. \A k \in Lanes : batches[k].job # 0 => batches'[k].job # 0
    BY <1>0, <1>3
  <2>. QED BY <1>2, <1>3, <2>1 DEF Lasts
<1>14. \A k \in Through : k \in Jobs' => k \in Jobs /\ jobs'[k] = jobs[k]
  BY <1>5, <1>11
<1>15. Once'
  BY <1>2, <1>4, <1>7, <1>8, <1>14, OnceStays
<1>. QED BY <1>9, <1>10, <1>12, <1>13, <1>15

\* `commitDiscardedBeforeRelease`.
LEMMA CommitReads ==
  ASSUME IInv, ReadInv, CommitBeforeRelease
  PROVE  ReadInv'
<1>. DEFINE free == {i \in Lanes : batches[i].pending /\ batches[i].route = "teardown" /\ batches[i].job = 0}
            first == CHOOSE i \in free : \A k \in free : i <= k
<1>1. /\ IF free = {} THEN UNCHANGED <<batches, jobs>>
         ELSE /\ jobs' = [jobs EXCEPT ![first] =
                   [kind |-> "teardown", waiters |-> <<>>, enqueued |-> FALSE, todo |-> Merged(free)]]
              /\ batches' = [i \in Lanes |->
                   IF i \in free THEN [batches[i] EXCEPT !.job = first] ELSE batches[i]]
      /\ UNCHANGED <<phase, reason, accepted, waiting, claimed, consumed, drain, fallen, rows, ran>>
  BY DEF CommitBeforeRelease, queueV
<1>2. CASE free = {}
  BY <1>1, <1>2, ReadsKept DEF IInv, Stored, Books
<1>3. CASE free # {}
  <2>1. free \in SUBSET Nat
    BY DEF IInv, Stored, Books, BatchesTyped, Lanes
  <2>2. PICK F \in SUBSET Lanes : F = free
    OBVIOUS
  <2>3. first \in F
    <3>. HIDE DEF free
    <3>1. \E i \in free : \A k \in free : i <= k
      BY <1>3, <2>1, LeastNat
    <3>. QED BY <2>2, <3>1
  <2>4. \A i \in F : batches[i].job = 0 /\ batches[i].pending /\ batches[i].route = "teardown"
    BY <2>2
  <2>5. PICK f \in F : f = first
    BY <2>3
  <2>6. /\ jobs' = [jobs EXCEPT ![f] = [kind |-> "teardown", waiters |-> <<>>, enqueued |-> FALSE,
                                         todo |-> Merged(F)]]
        /\ batches' = [i \in Lanes |->
             IF i \in F THEN [batches[i] EXCEPT !.job = f] ELSE batches[i]]
    <3>. HIDE DEF free, first
    <3>. QED BY <1>1, <1>3, <2>2, <2>5
  <2>. HIDE DEF free, first
  <2>. QED BY <1>1, <2>4, <2>6, MergeReads DEF IInv
<1>. QED BY <1>2, <1>3

\* A message that is accepted was nowhere before.
LEMMA SteerReads ==
  ASSUME IInv, ReadInv, NEW m \in Messages, Steer(m)
  PROVE  ReadInv'
<1>. USE DEF IInv, ReadInv
<1>1. /\ phase = "running" /\ m \notin accepted
      /\ accepted' = accepted \cup {m} /\ waiting' = Append(waiting, m)
      /\ UNCHANGED <<phase, reason, claimed, consumed, batches, jobs, drain, fallen, rows, ran>>
  BY DEF Steer, queueV
<1>2. ToSet(waiting)' = ToSet(waiting) \cup {m} /\ ToSet(claimed)' = ToSet(claimed)
  <2>1. ToSet(Append(waiting, m)) = ToSet(waiting) \cup {m}
    BY AppendMembers DEF TurnTyped
  <2>. QED BY <1>1, <2>1 DEF ToSet
<1>3. TurnHas' = TurnHas \cup {m}
  BY <1>1, <1>2 DEF TurnHas
<1>4. /\ Lanes' = Lanes /\ ToSet(fallen)' = ToSet(fallen) /\ ToSet(drain.todo)' = ToSet(drain.todo)
      /\ \A k \in Lanes : Queued(k)' = Queued(k)
  BY <1>1 DEF Lanes, Queued
<1>5. Falls' /\ Passes' /\ Once'
  BY <1>1, <1>4, SameReads DEF Stored, Books
<1>6. Apart'
  <2>1. /\ ToSet(waiting) \cap ToSet(claimed) = {} /\ TurnHas \cup ToSet(fallen) \subseteq accepted
        /\ consumed \cap (ToSet(waiting) \cup ToSet(claimed)) = {} /\ ToSet(fallen) \cap TurnHas = {}
    BY DEF Apart
  <2>2. m \notin ToSet(claimed) /\ m \notin consumed
    BY <1>1, <2>1 DEF TurnHas
  <2>3. /\ \A k \in Lanes : Queued(k) \subseteq accepted /\ Queued(k) \cap TurnHas = {}
        /\ \A k, l \in Lanes : k # l => Queued(k) \cap Queued(l) = {}
    BY DEF Apart
  <2>. QED BY <1>1, <1>2, <1>3, <1>4, <2>1, <2>2, <2>3 DEF Apart
<1>7. Lasts'
  BY <1>1, <1>4 DEF Lasts
<1>. QED BY <1>5, <1>6, <1>7

\* The turn's messages move within the turn.
LEMMA TurnReads ==
  ASSUME Owned, ReadInv, UNCHANGED <<phase, reason, accepted, batches, jobs, drain, fallen, rows, ran>>,
         TurnHas' \subseteq TurnHas, ToSet(waiting)' \cap ToSet(claimed)' = {},
         consumed' \cap (ToSet(waiting)' \cup ToSet(claimed)') = {}
  PROVE  ReadInv'
<1>. USE DEF ReadInv
<1>1. /\ Lanes' = Lanes /\ ToSet(fallen)' = ToSet(fallen) /\ ToSet(drain.todo)' = ToSet(drain.todo)
      /\ \A k \in Lanes : Queued(k)' = Queued(k)
  BY DEF Lanes, Queued
<1>2. Falls' /\ Passes' /\ Once'
  BY <1>1, SameReads
<1>3. Apart'
  <2>1. TurnHas \cup ToSet(fallen) \subseteq accepted /\ ToSet(fallen) \cap TurnHas = {}
    BY DEF Apart
  <2>2. /\ \A k \in Lanes : Queued(k) \subseteq accepted /\ Queued(k) \cap TurnHas = {}
        /\ \A k, l \in Lanes : k # l => Queued(k) \cap Queued(l) = {}
    BY DEF Apart
  <2>. QED BY <1>1, <2>1, <2>2 DEF Apart
<1>4. Lasts'
  BY <1>1 DEF Lasts
<1>. QED BY <1>2, <1>3, <1>4

\* What waits goes to the poll.
LEMMA PollReads ==
  ASSUME IInv, ReadInv, Poll
  PROVE  ReadInv'
<1>1. /\ host = "idle" /\ claimed' = waiting /\ waiting' = <<>>
      /\ UNCHANGED <<phase, reason, accepted, consumed, batches, jobs, drain, fallen, rows, ran>>
  BY DEF Poll, queueV
<1>2. ToSet(claimed)' = ToSet(waiting) /\ ToSet(waiting)' = {}
  BY <1>1, EmptyMembers DEF ToSet
<1>3. TurnHas' \subseteq TurnHas
  BY <1>1, <1>2 DEF TurnHas
<1>4. consumed \cap ToSet(waiting) = {}
  BY DEF ReadInv, Apart
<1>. QED BY <1>1, <1>2, <1>3, <1>4, TurnReads DEF IInv, Stored, Books

\* What a poll restores goes back to the turn, or from it to a batch.
LEMMA RestoreReads ==
  ASSUME IInv, ReadInv, NEW msgs \in Seq(Messages), Restore(msgs),
         ToSet(msgs) \subseteq ToSet(claimed),
         consumed' \subseteq consumed \cup (ToSet(claimed) \ ToSet(msgs))
  PROVE  ReadInv'
<1>1. /\ claimed' = <<>>
      /\ IF phase = "aborted"
         THEN Discard(msgs, "abort") /\ UNCHANGED waiting
         ELSE waiting' = msgs \o waiting /\ UNCHANGED <<batches, jobs>>
      /\ UNCHANGED <<phase, reason, accepted, drain, fallen, rows, ran>>
  BY DEF Restore, queueV
<1>2. ToSet(claimed)' = {}
  BY <1>1, EmptyMembers DEF ToSet
<1>3. /\ ToSet(waiting) \cap ToSet(claimed) = {}
      /\ consumed \cap (ToSet(waiting) \cup ToSet(claimed)) = {}
  BY DEF ReadInv, Apart
<1>4. CASE phase = "aborted"
  <2>1. Discard(msgs, "abort") /\ ToSet(waiting)' = ToSet(waiting)
    BY <1>1, <1>4 DEF ToSet
  <2>2. TurnHas' = ToSet(waiting) \cup consumed'
    BY <1>2, <2>1 DEF TurnHas
  <2>3. /\ ToSet(msgs) \subseteq TurnHas /\ TurnHas' \subseteq TurnHas /\ ToSet(msgs) \cap TurnHas' = {}
        /\ ToSet(waiting)' \cap ToSet(claimed)' = {}
        /\ consumed' \cap (ToSet(waiting)' \cup ToSet(claimed)') = {}
    BY <1>2, <1>3, <2>1, <2>2 DEF TurnHas
  <2>4. phase' = "aborted" /\ drain'.todo = drain.todo /\ (drain'.at = "no" => drain.at = "no")
    BY <1>1, <1>4
  <2>. QED BY <1>1, <2>1, <2>3, <2>4, DiscardReads DEF IInv
<1>5. CASE phase # "aborted"
  <2>1. waiting' = msgs \o waiting /\ UNCHANGED <<batches, jobs>>
    BY <1>1, <1>5
  <2>2. ToSet(waiting)' = ToSet(msgs) \cup ToSet(waiting)
    <3>1. ToSet(msgs \o waiting) = ToSet(msgs) \cup ToSet(waiting)
      BY ConcatMembers DEF IInv, TurnTyped
    <3>. QED BY <2>1, <3>1 DEF ToSet
  <2>3. /\ TurnHas' \subseteq TurnHas /\ ToSet(waiting)' \cap ToSet(claimed)' = {}
        /\ consumed' \cap (ToSet(waiting)' \cup ToSet(claimed)') = {}
    BY <1>2, <1>3, <2>2 DEF TurnHas
  <2>. QED BY <1>1, <2>1, <2>3, TurnReads DEF IInv, Stored, Books
<1>. QED BY <1>4, <1>5

\* What the poll reads, it does not restore.
LEMMA PollEndsReads ==
  ASSUME IInv, ReadInv, PollConsumes \/ PollGivesUp
  PROVE  ReadInv'
<1>1. claimed \in Seq(Messages)
  BY DEF IInv, TurnTyped
<1>2. CASE PollConsumes
  <2>. DEFINE S == {m \in Messages : ~Takes(m)}
              msgs == Kept(claimed, S)
  <2>1. Restore(msgs) /\ consumed' = consumed \cup {m \in ToSet(claimed) : Takes(m)}
    BY <1>2 DEF PollConsumes
  <2>2. msgs \in Seq(Messages) /\ ToSet(msgs) = ToSet(claimed) \cap S
    <3>1. msgs \in Seq(Messages \cap S) /\ ToSet(msgs) = ToSet(claimed) \cap S
      BY <1>1, KeptMembers
    <3>. HIDE DEF msgs, S
    <3>. QED BY <3>1
  <2>3. /\ ToSet(msgs) \subseteq ToSet(claimed)
        /\ consumed' \subseteq consumed \cup (ToSet(claimed) \ ToSet(msgs))
    BY <2>1, <2>2
  <2>. HIDE DEF msgs
  <2>. QED BY <2>1, <2>2, <2>3, RestoreReads
<1>3. CASE PollGivesUp
  <2>1. Restore(claimed) /\ consumed' = consumed
    BY <1>3 DEF PollGivesUp
  <2>2. consumed' \subseteq consumed \cup (ToSet(claimed) \ ToSet(claimed))
    BY <2>1
  <2>. QED BY <1>1, <2>1, <2>2, RestoreReads
<1>. QED BY <1>2, <1>3

\* The controls close: what waits goes to a batch.
LEMMA CloseReads ==
  ASSUME IInv, ReadInv, phase = "running", waiting' = <<>>,
         NEW cause \in {"abort", "abnormal-seal", "exit-close"}, Discard(waiting, cause),
         cause = "abort" => phase' \in {"aborted", "gone"},
         UNCHANGED <<accepted, claimed, consumed, fallen, rows, ran>>,
         drain'.todo = drain.todo, drain'.at = "no" => drain.at = "no"
  PROVE  ReadInv'
<1>1. waiting \in Seq(Messages)
  BY DEF IInv, TurnTyped
<1>2. ToSet(waiting)' = {} /\ ToSet(claimed)' = ToSet(claimed)
  BY EmptyMembers DEF ToSet
<1>3. /\ ToSet(waiting) \cap ToSet(claimed) = {}
      /\ consumed \cap (ToSet(waiting) \cup ToSet(claimed)) = {}
  BY DEF ReadInv, Apart
<1>4. TurnHas' = ToSet(claimed) \cup consumed
  BY <1>2 DEF TurnHas
<1>5. /\ ToSet(waiting) \subseteq TurnHas /\ TurnHas' \subseteq TurnHas /\ ToSet(waiting) \cap TurnHas' = {}
      /\ ToSet(waiting)' \cap ToSet(claimed)' = {}
      /\ consumed' \cap (ToSet(waiting)' \cup ToSet(claimed)') = {}
  BY <1>2, <1>3, <1>4 DEF TurnHas
<1>6. ~(phase \in {"aborted", "gone"})
  OBVIOUS
<1>. QED BY <1>1, <1>5, <1>6, DiscardReads DEF IInv

\* The exit boundary and the host's outcome close them,
LEMMA SealReads ==
  ASSUME IInv, ReadInv, TryBeginClose \/ HostEnds
  PROVE  ReadInv'
<1>1. CASE TryBeginClose
  <2>1. /\ phase = "running" /\ waiting' = <<>> /\ Discard(waiting, "exit-close")
        /\ UNCHANGED <<accepted, claimed, consumed, drain, fallen, rows, ran>>
    BY <1>1 DEF TryBeginClose, queueV
  <2>2. drain'.todo = drain.todo /\ (drain'.at = "no" => drain.at = "no")
    BY <2>1
  <2>. QED BY <2>1, <2>2, CloseReads
<1>2. CASE HostEnds
  <2>1. /\ IF phase = "running"
           THEN phase' = "closing" /\ waiting' = <<>> /\ Discard(waiting, "abnormal-seal")
           ELSE UNCHANGED <<phase, waiting, batches, jobs>>
        /\ UNCHANGED <<reason, accepted, claimed, consumed, drain, fallen, rows, ran>>
    BY <1>2 DEF HostEnds, queueV
  <2>2. drain'.todo = drain.todo /\ (drain'.at = "no" => drain.at = "no")
    BY <2>1
  <2>3. CASE phase = "running"
    BY <2>1, <2>2, <2>3, CloseReads
  <2>4. CASE phase # "running"
    <3>1. UNCHANGED <<phase, reason, accepted, waiting, claimed, consumed, batches, jobs, drain, fallen, rows, ran>>
      BY <2>1, <2>4
    <3>. QED BY <3>1, ReadsKept DEF IInv, Stored, Books
  <2>. QED BY <2>3, <2>4
<1>. QED BY <1>1, <1>2

\* and so do an abort and a shutdown.
LEMMA AbortReads ==
  ASSUME IInv, ReadInv, (\E r \in {"user", "other"} : Abort(r)) \/ Shutdown
  PROVE  ReadInv'
<1>1. ASSUME NEW r, AbortEntry(r), phase = "running", UNCHANGED <<fallen, rows, ran>>,
             drain'.todo = drain.todo, drain'.at = "no" => drain.at = "no"
      PROVE  ReadInv'
  <2>1. /\ phase' = "aborted" /\ waiting' = <<>> /\ Discard(waiting, "abort")
        /\ UNCHANGED <<accepted, claimed, consumed>>
    BY <1>1 DEF AbortEntry
  <2>. QED BY <1>1, <2>1, CloseReads
<1>2. ASSUME NEW r, Abort(r) PROVE ReadInv'
  <2>1. /\ AbortEntry(r) /\ phase = "running" /\ UNCHANGED <<drain, fallen, rows, ran>>
    BY <1>2 DEF Abort, queueV
  <2>2. drain'.todo = drain.todo /\ (drain'.at = "no" => drain.at = "no")
    BY <2>1
  <2>. QED BY <1>1, <2>1, <2>2
<1>3. CASE Shutdown
  <2>1. /\ drain.at = "no"
        /\ IF phase = "running" THEN AbortEntry("other") ELSE UNCHANGED <<turnV, batches, jobs>>
        /\ drain' = [at |-> "inflight", on |-> Jobs, todo |-> <<>>, upto |-> 0]
        /\ UNCHANGED <<fallen, rows, ran>>
    BY <1>3 DEF Shutdown, queueV
  <2>2. drain.todo = <<>>
    BY <2>1 DEF ReadInv, Lasts
  <2>3. drain'.todo = drain.todo /\ drain'.at # "no"
    BY <2>1, <2>2
  <2>4. CASE phase = "running"
    BY <1>1, <2>1, <2>3, <2>4
  <2>5. CASE phase # "running"
    <3>1. UNCHANGED <<phase, reason, accepted, waiting, claimed, consumed, batches, jobs, fallen, rows, ran>>
      BY <2>1, <2>5 DEF turnV
    <3>. QED BY <2>3, <3>1, ReadsKept DEF IInv, Stored, Books
  <2>. QED BY <2>4, <2>5
<1>. QED BY <1>2, <1>3

-----------------------------------------------------------------------------
\* Nothing was read when the turn begins.
LEMMA ReadInit == Init => ReadInv
<1>. SUFFICES ASSUME Init PROVE ReadInv
  OBVIOUS
<1>1. Lanes = {} /\ Jobs = {} /\ ToSet(<<>>) = {} /\ IsInjective(<<>>)
  BY EmptyMembers DEF Init, Lanes, Jobs, IsInjective
<1>2. Apart /\ Passes
  BY <1>1 DEF Init, Apart, TurnHas, Passes
<1>3. Falls /\ Lasts /\ Once
  BY <1>1 DEF Init, Falls, Lasts, Once
<1>. QED BY <1>2, <1>3 DEF ReadInv

\* Every step keeps what is read once.
LEMMA ReadNext == IInv /\ ReadInv /\ [Next]_vars => ReadInv'
<1>. SUFFICES ASSUME IInv, ReadInv, [Next]_vars PROVE ReadInv'
  OBVIOUS
<1>1. CASE Turn
  BY <1>1, SteerReads, PollReads, PollEndsReads, SealReads, AbortReads, CommitReads, WakesRead DEF Turn
<1>2. CASE Requeue
  BY <1>2, LandReads, WriteFailsReads, EnqueueReads, PauseReads, LaneReads, AbortReads,
     DrainStartsReads, DrainContinuesReads, WakesRead DEF Requeue
<1>3. CASE Dispatch \/ OtherWake \/ ContinueQueue
  BY <1>3, DispatchReads, WakesRead
<1>4. CASE UNCHANGED vars
  <2>1. UNCHANGED <<phase, reason, accepted, waiting, claimed, consumed, batches, jobs, drain, fallen, rows, ran>>
    BY <1>4 DEF vars, turnV, queueV
  <2>. QED BY <2>1, ReadsKept DEF IInv, Stored, Books
<1>. QED BY <1>1, <1>2, <1>3, <1>4 DEF Next

\* What the parts of the invariant say of the messages that are read.
LEMMA ReadInvImplies == IInv /\ ReadInv => ReadOnce
<1>. SUFFICES ASSUME IInv, ReadInv PROVE ReadOnce
  OBVIOUS
<1>. USE DEF ReadInv
<1>1. \A k \in Through : k \in Lanes /\ Queued(k) \cap TurnHas = {} /\ Queued(k) \cap ToSet(fallen) = {}
  BY DEF Through, Apart, Falls
<1>2. \A m \in InQueue : \E k \in Through : m \in Queued(k)
  BY DEF InQueue, Passes
<1>3. consumed \subseteq TurnHas /\ ToSet(fallen) \cap TurnHas = {}
  BY DEF TurnHas, Apart
<1>4. consumed \cap (ToSet(fallen) \cup InQueue) = {} /\ ToSet(fallen) \cap InQueue = {}
  BY <1>1, <1>2, <1>3
<1>5. \A i \in ToSet(rows) : \A k \in ToSet(rows) \ {i} : Queued(i) \cap Queued(k) = {}
  BY <1>1 DEF Passes, Apart
<1>6. \A i \in ToSet(rows) : Queued(i) \cap ran # {} => StopPauses(i) /\ drain.at # "no"
  BY <1>1 DEF Passes, Once, Ran
<1>. QED BY <1>4, <1>5, <1>6 DEF ReadOnce

\* What the user sent is read once: by the turn, in the conversation, or from the
\* queue, where only the drain of a shutdown may write a row again that a wake
\* took while the stop that should have parked it could not pause the queue.
THEOREM ReadAtMostOnce == Spec => []ReadOnce
<1>1. Init => IInv /\ ReadInv
  BY IInvInit, ReadInit
<1>2. IInv /\ ReadInv /\ [Next]_vars => (IInv /\ ReadInv)'
  BY IInvNext, ReadNext
<1>3. Spec => [](IInv /\ ReadInv)
  BY <1>1, <1>2, PTL DEF Spec
<1>. QED BY <1>3, ReadInvImplies, PTL
=============================================================================
