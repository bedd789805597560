----------------------- MODULE SteeringRequeueProofs -----------------------
(***************************************************************************)
(* Where the messages end up that a turn left unread: their rows wait for  *)
(* the right one, those that fall fall in order, what a shutdown drains is *)
(* durable -- for every number of messages and of failing writes.          *)
(*                                                                         *)
(* AwaitInv says who awaits which write: a lane that of its batch, the     *)
(* drain that of the batch it visits (Waits), nobody before the turn is    *)
(* released but the drain (Begins), and whom the drain visits (Visits).    *)
(*                                                                         *)
(* A row that was handed back waits behind a pause, or for a wake.  Its    *)
(* batch is parked by the write that put the row there; the hard part is   *)
(* that nobody writes the row again and leaves it there unparked.  So the  *)
(* invariant says, of every batch that has a row or may get it anew, that  *)
(* it is parked already (Parks), or that its wake is on its way (Wakes).   *)
(*                                                                         *)
(* As long as no write failed and no shutdown began, nothing falls before  *)
(* the turn is to be settled, and then what was handed over falls in one   *)
(* write (Merging); what that write has left ascends, and is later than    *)
(* what has fallen (Falling).                                              *)
(*                                                                         *)
(* The types take one fact that is not about types: there are no more      *)
(* batches than messages of the user, for each was handed over with a      *)
(* message that the turn does not get back (Roomy).                        *)
(*                                                                         *)
(* A batch that a drain leaves behind has cost two failures.  Failed       *)
(* counts, for a batch that is tracked still, the failures behind it: by   *)
(* the stage of its lane (Tried), by the row of what was handed back       *)
(* (Returned), and by the visit of the drain (Visited).                    *)
(*                                                                         *)
(* At the end, Steering is shown to implement MessageHomes.  HomesAre says *)
(* that the homes exclude each other, QueuedStay that a batch gives up     *)
(* messages only while it is written into the conversation; StaysPut and   *)
(* LetsGo are the two ways in which most steps map.                        *)
(***************************************************************************)
EXTENDS SteeringProofs, FiniteSetTheorems

-----------------------------------------------------------------------------
(* Who awaits what.                                                         *)

\* Whose promise has settled, and who awaits job j.
Ready == ToSet(ready)
Waiters(j) == ToSet(jobs[j].waiters)
Visiting == drain.at \in {"first", "second"}

\* A lane awaits the job of its batch, the drain that of the batch it visits.
Awaits(w, j) ==
  IF w = Drain THEN Visiting /\ batches[drain.todo[1]].job = j ELSE batches[w].job = j

\* No one awaits two jobs, or a job after its promise has settled.
Waits ==
  /\ IsInjective(ready) /\ \A j \in Jobs : IsInjective(jobs[j].waiters)
  /\ \A j \in Jobs : \A w \in Waiters(j) : w \notin Ready /\ Awaits(w, j)
  /\ Drain \in Ready => Visiting

\* Two sequences without repetitions or common members make one.
LEMMA ConcatOnce ==
  ASSUME NEW D, NEW s \in Seq(D), NEW t \in Seq(D), IsInjective(s), IsInjective(t),
         ToSet(s) \cap ToSet(t) = {}
  PROVE  IsInjective(s \o t)
<1>1. /\ DOMAIN (s \o t) = 1..(Len(s) + Len(t)) /\ Len(s) \in Nat /\ Len(t) \in Nat
      /\ DOMAIN s = 1..Len(s) /\ DOMAIN t = 1..Len(t)
      /\ \A i \in 1..(Len(s) + Len(t)) : (s \o t)[i] = IF i <= Len(s) THEN s[i] ELSE t[i - Len(s)]
  OBVIOUS
<1>2. /\ \A i, j \in 1..Len(s) : s[i] = s[j] => i = j
      /\ \A i, j \in 1..Len(t) : t[i] = t[j] => i = j
  BY <1>1 DEF IsInjective
<1>3. \A i \in 1..Len(s) : \A j \in 1..Len(t) : s[i] # t[j]
  BY <1>1 DEF ToSet
<1>. PICK u : u = s \o t
  OBVIOUS
<1>4. \A i \in 1..(Len(s) + Len(t)) : \/ i \in 1..Len(s) /\ u[i] = s[i]
                                      \/ i - Len(s) \in 1..Len(t) /\ u[i] = t[i - Len(s)]
  <2>. TAKE i \in 1..(Len(s) + Len(t))
  <2>1. CASE i <= Len(s)
    BY <1>1, <2>1
  <2>2. CASE ~(i <= Len(s))
    <3>1. i - Len(s) \in 1..Len(t)
      BY <1>1, <2>2
    <3>. QED BY <1>1, <2>2, <3>1
  <2>. QED BY <2>1, <2>2
<1>5. ASSUME NEW i \in 1..(Len(s) + Len(t)), NEW j \in 1..(Len(s) + Len(t)), u[i] = u[j]
      PROVE  i = j
  <2>1. CASE i \in 1..Len(s) /\ u[i] = s[i]
    <3>1. j \in 1..Len(s) /\ u[j] = s[j]
      BY <1>3, <1>4, <1>5, <2>1
    <3>. QED BY <1>2, <1>5, <2>1, <3>1
  <2>2. CASE i - Len(s) \in 1..Len(t) /\ u[i] = t[i - Len(s)]
    <3>1. j - Len(s) \in 1..Len(t) /\ u[j] = t[j - Len(s)]
      BY <1>3, <1>4, <1>5, <2>2
    <3>2. i - Len(s) = j - Len(s)
      BY <1>2, <1>5, <2>2, <3>1
    <3>. QED BY <1>1, <3>2
  <2>. QED BY <1>4, <2>1, <2>2
<1>. QED BY <1>1, <1>5 DEF IsInjective

\* Who begins to await batch i joins those of its job.
LEMMA AwaitWaiters ==
  ASSUME Stored, NEW i \in Lanes, NEW b \in Batch, NEW who \in 0..Len(batches),
         b.job = batches[i].job, Await(i, b, who),
         \A j \in Jobs : IsInjective(jobs[j].waiters) /\ who \notin Waiters(j)
  PROVE  /\ batches'[i].job # 0 /\ (batches[i].job # 0 => batches'[i].job = batches[i].job)
         /\ \A j \in Jobs' : IsInjective(jobs'[j].waiters)
         /\ \A j \in Jobs' : \A w \in Waiters(j)' :
              (w = who /\ j = batches'[i].job) \/ (j \in Jobs /\ w \in Waiters(j))
<1>. USE DEF Stored, Books
<1>1. i \in Nat /\ i # 0 /\ i \in Lanes /\ batches \in Seq(Batch)
  BY DEF BatchesTyped, Lanes
<1>2. \A j \in Jobs : j \in Batches /\ j # 0 /\ jobs[j] \in Write
  BY DEF JobsTyped, Jobs, Batches
<1>3. CASE b.job # 0
  <2>1. jobs' = [jobs EXCEPT ![b.job].waiters = Append(@, who)] /\ batches' = [batches EXCEPT ![i] = b]
    BY <1>3 DEF Await
  <2>2. batches'[i] = b
    BY <1>1, <2>1 DEF Lanes
  <2>3. \A j \in Batches : jobs'[j] = IF j = b.job THEN [jobs[j] EXCEPT !.waiters = Append(@, who)] ELSE jobs[j]
    BY <2>1 DEF JobsTyped
  <2>4. b.job \in Batches => b.job \in Jobs
    BY DEF Covered
  <2>5. ASSUME NEW j \in Jobs'
        PROVE  /\ IsInjective(jobs'[j].waiters)
               /\ \A w \in Waiters(j)' : (w = who /\ j = batches'[i].job) \/ (j \in Jobs /\ w \in Waiters(j))
    <3>1. j \in Batches /\ jobs'[j] # NoJob
      BY DEF Jobs
    <3>2. CASE j = b.job
      <4>1. j \in Jobs /\ jobs[j] \in Write
        BY <1>2, <2>4, <3>1, <3>2
      <4>2. PICK s \in Seq(0..Len(batches)) : s = jobs[j].waiters
        BY <4>1 DEF Write
      <4>3. jobs'[j].waiters = Append(s, who)
        BY <2>3, <3>1, <3>2, <4>1, <4>2 DEF Write
      <4>4. IsInjective(s) /\ who \notin ToSet(s) /\ ToSet(s) = Waiters(j)
        BY <4>1, <4>2 DEF Waiters
      <4>5. IsInjective(Append(s, who)) /\ ToSet(Append(s, who)) = ToSet(s) \cup {who}
        BY <4>4, AppendOnce, AppendMembers
      <4>6. Waiters(j)' = ToSet(s) \cup {who}
        BY <4>3, <4>5 DEF Waiters, ToSet
      <4>7. \A w \in Waiters(j)' : w = who \/ w \in Waiters(j)
        BY <4>4, <4>6
      <4>8. IsInjective(jobs'[j].waiters)
        BY <4>3, <4>5
      <4>. QED BY <2>2, <3>2, <4>1, <4>7, <4>8
    <3>3. CASE j # b.job
      <4>1. jobs'[j] = jobs[j] /\ j \in Jobs
        BY <2>3, <3>1, <3>3 DEF Jobs
      <4>2. Waiters(j)' = Waiters(j)
        BY <4>1 DEF Waiters, ToSet
      <4>. QED BY <4>1, <4>2
    <3>. QED BY <3>2, <3>3
  <2>. QED BY <1>3, <2>2, <2>5
<1>4. CASE b.job = 0
  <2>1. jobs' = [jobs EXCEPT ![i] = Job(b, i, <<who>>)] /\ batches' = [batches EXCEPT ![i] = [b EXCEPT !.job = i]]
    BY <1>4 DEF Await
  <2>2. batches'[i].job = i
    BY <1>1, <2>1 DEF Lanes, Batch
  <2>3. \A j \in Batches : jobs'[j] = IF j = i THEN Job(b, i, <<who>>) ELSE jobs[j]
    BY <2>1 DEF JobsTyped
  <2>4. ASSUME NEW j \in Jobs'
        PROVE  /\ IsInjective(jobs'[j].waiters)
               /\ \A w \in Waiters(j)' : (w = who /\ j = batches'[i].job) \/ (j \in Jobs /\ w \in Waiters(j))
    <3>1. j \in Batches /\ jobs'[j] # NoJob
      BY DEF Jobs
    <3>2. CASE j = i
      <4>1. jobs'[j].waiters = <<who>>
        BY <2>3, <3>1, <3>2 DEF Job
      <4>2. IsInjective(<<who>>) /\ ToSet(<<who>>) = {who}
        BY DEF IsInjective, ToSet
      <4>3. Waiters(j)' = {who}
        BY <4>1, <4>2 DEF Waiters, ToSet
      <4>4. IsInjective(jobs'[j].waiters)
        BY <4>1, <4>2
      <4>. QED BY <2>2, <3>2, <4>3, <4>4
    <3>3. CASE j # i
      <4>1. jobs'[j] = jobs[j] /\ j \in Jobs
        BY <2>3, <3>1, <3>3 DEF Jobs
      <4>2. Waiters(j)' = Waiters(j)
        BY <4>1 DEF Waiters, ToSet
      <4>. QED BY <4>1, <4>2
    <3>. QED BY <3>2, <3>3
  <2>. QED BY <1>1, <1>4, <2>2, <2>4
<1>. QED BY <1>3, <1>4

\* Whoever was ready, or had nothing to do, may begin to await.
LEMMA AwaitWaits ==
  ASSUME Stored, DrainTyped, Waits, NEW i \in Lanes, NEW b \in Batch, NEW who \in 0..Len(batches),
         b.todo = batches[i].todo, b.job = batches[i].job, b.pending = batches[i].pending,
         b.cause = batches[i].cause, Await(i, b, who),
         IsInjective(ready)', Ready' \subseteq Ready, who \notin Ready', who \in Ready \/ ~Visiting,
         IF who = Drain THEN Visiting' /\ drain'.todo[1] = i
                        ELSE who = i /\ who \in Ready /\ drain' = drain
  PROVE  Waits'
<1>1. \A j \in Jobs : IsInjective(jobs[j].waiters) /\ who \notin Waiters(j)
  BY DEF Waits, Awaits
<1>2. /\ batches'[i].job # 0 /\ (batches[i].job # 0 => batches'[i].job = batches[i].job)
      /\ \A j \in Jobs' : IsInjective(jobs'[j].waiters)
      /\ \A j \in Jobs' : \A w \in Waiters(j)' :
           (w = who /\ j = batches'[i].job) \/ (j \in Jobs /\ w \in Waiters(j))
  BY <1>1, AwaitWaiters
<1>3. \A k \in Lanes : k # i => batches'[k] = batches[k]
  BY AwaitBooks
<1>4. ASSUME NEW j \in Jobs', NEW w \in Waiters(j)'
      PROVE  w \notin Ready' /\ Awaits(w, j)'
  <2>1. CASE w = who /\ j = batches'[i].job
    BY <2>1 DEF Awaits
  <2>2. CASE j \in Jobs /\ w \in Waiters(j)
    <3>1. w \notin Ready /\ Awaits(w, j) /\ w # who /\ j # 0
      BY <1>1, <2>2 DEF Waits, Jobs, Batches
    <3>2. \A k : batches[k].job = j /\ (k \in Lanes \/ k = i) => batches'[k].job = j
      BY <1>2, <1>3, <3>1
    <3>3. jobs[j].waiters \in Seq(0..Len(batches))
      BY <2>2 DEF Stored, Books, JobsTyped, Write
    <3>4. w \in 0..Len(batches)
      BY <2>2, <3>3 DEF Waiters, ToSet
    <3>5. CASE w = Drain
      <4>1. Visiting /\ batches[drain.todo[1]].job = j /\ drain' = drain
        BY <3>1, <3>5 DEF Awaits
      <4>2. drain.todo[1] \in Lanes
        BY <4>1 DEF DrainTyped, Visiting
      <4>3. batches'[drain.todo[1]].job = j
        BY <3>2, <4>1, <4>2
      <4>. QED BY <3>1, <3>5, <4>1, <4>3 DEF Awaits, Visiting
    <3>6. CASE w # Drain
      <4>1. w \in Lanes
        BY <3>4, <3>6 DEF Drain, Lanes, Stored, Books, BatchesTyped
      <4>. QED BY <3>1, <3>2, <3>6, <4>1 DEF Awaits
    <3>. QED BY <3>5, <3>6
  <2>. QED BY <1>2, <2>1, <2>2
<1>5. Drain \in Ready' => Visiting'
  BY DEF Waits, Visiting
<1>. QED BY <1>2, <1>4, <1>5 DEF Waits

\* Those who await a write that is over are ready.
LEMMA SettleWaits ==
  ASSUME Stored, DrainTyped, Waits, NEW i \in Jobs, NEW ok \in BOOLEAN, NEW written,
         Settle(i, ok, written)
  PROVE  /\ Waits' /\ Ready' = Ready \cup Waiters(i)
         /\ \A j \in Jobs' : Waiters(j)' = Waiters(j)
         /\ drain'.at = drain.at /\ drain'.todo = drain.todo /\ drain'.on = drain.on \ {i}
         /\ drain'.upto = drain.upto
<1>. PICK ws \in Seq(0..Len(batches)) : ws = jobs[i].waiters
  BY DEF Stored, Books, JobsTyped, Write
<1>1. /\ Lanes' = Lanes /\ Jobs' = Jobs \ {i} /\ \A j \in Jobs' : jobs'[j] = jobs[j]
      /\ \A k \in Lanes : batches[k].job # i => batches'[k] = batches[k]
  BY SettleBooks
<1>2. \A j \in Jobs' : Waiters(j)' = Waiters(j)
  BY <1>1 DEF Waiters, ToSet
<1>3. /\ drain'.at = drain.at /\ drain'.todo = drain.todo /\ drain'.on = drain.on \ {i}
      /\ drain'.upto = drain.upto
  BY DEF Settle, DrainTyped
<1>4. ready' = ready \o ws /\ ready \in Seq(0..Len(batches)) /\ ToSet(ws) = Waiters(i)
  <2>1. ready' = ready \o ws
    BY DEF Settle
  <2>2. ready \in Seq(0..Len(batches))
    BY DEF DrainTyped
  <2>. QED BY <2>1, <2>2 DEF Waiters
<1>5. IsInjective(ready) /\ IsInjective(ws) /\ ToSet(ready) \cap ToSet(ws) = {}
  BY <1>4 DEF Waits, Ready
<1>6. IsInjective(ready \o ws) /\ ToSet(ready \o ws) = ToSet(ready) \cup ToSet(ws)
  BY <1>4, <1>5, ConcatOnce, ConcatMembers
<1>7. IsInjective(ready)' /\ Ready' = Ready \cup Waiters(i)
  <2>1. IsInjective(ready') /\ ToSet(ready') = ToSet(ready) \cup ToSet(ws)
    BY <1>4, <1>6
  <2>2. (IsInjective(ready)' <=> IsInjective(ready')) /\ Ready' = ToSet(ready')
    BY DEF IsInjective, Ready, ToSet
  <2>. QED BY <1>4, <2>1, <2>2 DEF Ready
<1>8. ASSUME NEW j \in Jobs', NEW w \in Waiters(j)
      PROVE  w \notin Ready' /\ Awaits(w, j)'
  <2>1. w \notin Ready /\ Awaits(w, j) /\ j # i /\ (w \in Waiters(i) => Awaits(w, i))
    BY <1>1 DEF Waits
  <2>2. w \notin Waiters(i)
    BY <2>1 DEF Awaits
  <2>3. \A k \in Lanes : batches[k].job = j => batches'[k].job = j
    BY <1>1, <2>1
  <2>4. jobs[j].waiters \in Seq(0..Len(batches))
    BY <1>1 DEF Stored, Books, JobsTyped, Write
  <2>5. w \in 0..Len(batches)
    BY <2>4 DEF Waiters, ToSet
  <2>6. CASE w = Drain
    <3>1. Visiting /\ batches[drain.todo[1]].job = j
      BY <2>1, <2>6 DEF Awaits
    <3>2. drain.todo[1] \in Lanes
      BY <3>1 DEF DrainTyped, Visiting
    <3>3. Visiting' /\ batches'[drain'.todo[1]].job = j
      BY <1>3, <2>3, <3>1, <3>2 DEF Visiting
    <3>. QED BY <1>7, <2>1, <2>2, <2>6, <3>3 DEF Awaits
  <2>7. CASE w # Drain
    <3>1. w \in Lanes
      BY <2>5, <2>7 DEF Drain, Lanes, Stored, Books, BatchesTyped
    <3>. QED BY <1>7, <2>1, <2>2, <2>3, <2>7, <3>1 DEF Awaits
  <2>. QED BY <2>6, <2>7
<1>9. Drain \in Ready' => Visiting'
  BY <1>3, <1>7 DEF Waits, Awaits, Visiting
<1>10. \A j \in Jobs' : IsInjective(jobs'[j].waiters)
  BY <1>1 DEF Waits
<1>. QED BY <1>2, <1>3, <1>7, <1>8, <1>9, <1>10 DEF Waits

\* Steps that neither begin nor end a wait.
LEMMA SameWaits ==
  ASSUME Stored, DrainTyped, Waits, ready' = ready, Visiting' <=> Visiting,
         Visiting => drain'.todo = drain.todo, Lanes \subseteq Lanes',
         \A k \in Lanes : batches[k].job # 0 => batches'[k].job = batches[k].job,
         \A j \in Jobs' : jobs'[j].waiters = <<>> \/ (j \in Jobs /\ jobs'[j].waiters = jobs[j].waiters)
  PROVE  /\ Waits' /\ Ready' = Ready
         /\ \A j \in Jobs' : Waiters(j)' = {} \/ (j \in Jobs /\ Waiters(j)' = Waiters(j))
<1>1. IsInjective(<<>>) /\ ToSet(<<>>) = {}
  BY DEF IsInjective, ToSet
<1>2. \A j \in Jobs' : Waiters(j)' = {} \/ (j \in Jobs /\ Waiters(j)' = Waiters(j))
  BY <1>1 DEF Waiters, ToSet
<1>3. Ready' = Ready /\ IsInjective(ready)'
  BY DEF Ready, Waits, ToSet, IsInjective
<1>4. \A j \in Jobs' : IsInjective(jobs'[j].waiters)
  BY <1>1 DEF Waits
<1>5. ASSUME NEW j \in Jobs, NEW w \in Waiters(j)
      PROVE  w \notin Ready' /\ Awaits(w, j)'
  <2>1. w \notin Ready /\ Awaits(w, j) /\ j # 0
    BY DEF Waits, Jobs, Batches
  <2>2. jobs[j].waiters \in Seq(0..Len(batches))
    BY DEF Stored, Books, JobsTyped, Write
  <2>3. w \in 0..Len(batches)
    BY <2>2 DEF Waiters, ToSet
  <2>4. CASE w = Drain
    <3>1. Visiting /\ batches[drain.todo[1]].job = j
      BY <2>1, <2>4 DEF Awaits
    <3>2. drain.todo[1] \in Lanes
      BY <3>1 DEF DrainTyped, Visiting
    <3>3. Visiting' /\ batches'[drain'.todo[1]].job = j
      BY <2>1, <3>1, <3>2
    <3>. QED BY <1>3, <2>1, <2>4, <3>3 DEF Awaits
  <2>5. CASE w # Drain
    <3>1. w \in Lanes
      BY <2>3, <2>5 DEF Drain, Lanes, Stored, Books, BatchesTyped
    <3>2. batches'[w].job = j
      BY <2>1, <2>5, <3>1 DEF Awaits
    <3>. QED BY <1>3, <2>1, <2>5, <3>2 DEF Awaits
  <2>. QED BY <2>4, <2>5
<1>6. Drain \in Ready' => Visiting'
  BY <1>3 DEF Waits
<1>. QED BY <1>2, <1>3, <1>4, <1>5, <1>6 DEF Waits

\* What the write before the release does to the books.
LEMMA CommitBooks ==
  ASSUME IInv, CommitBeforeRelease
  PROVE  \E F \in SUBSET Lanes, f \in Nat \ Jobs :
           /\ Lanes' = Lanes /\ Jobs' \subseteq Jobs \cup {f}
           /\ \A k \in F : /\ batches[k].job = 0 /\ batches[k].pending /\ batches[k].route = "teardown"
                           /\ batches'[k] = [batches[k] EXCEPT !.job = f]
           /\ \A k \in Lanes : k \notin F => batches'[k] = batches[k]
           /\ \A j \in Jobs : j \in Jobs' /\ jobs'[j] = jobs[j]
           /\ f \in Jobs' => /\ jobs'[f].kind = "teardown" /\ jobs'[f].waiters = <<>>
                             /\ ~jobs'[f].enqueued /\ jobs'[f].todo = Merged(F)
           /\ F = {} \/ f \in F
           /\ \A k \in Lanes : batches[k].pending /\ batches[k].route = "teardown" /\ batches[k].job = 0 => k \in F
<1>. USE DEF IInv, Stored, Books
<1>. DEFINE free == {i \in Lanes : batches[i].pending /\ batches[i].route = "teardown" /\ batches[i].job = 0}
            first == CHOOSE i \in free : \A k \in free : i <= k
<1>1. IF free = {} THEN UNCHANGED <<batches, jobs>>
      ELSE /\ jobs' = [jobs EXCEPT ![first] =
                [kind |-> "teardown", waiters |-> <<>>, enqueued |-> FALSE, todo |-> Merged(free)]]
           /\ batches' = [i \in Lanes |->
                IF i \in free THEN [batches[i] EXCEPT !.job = first] ELSE batches[i]]
  BY DEF CommitBeforeRelease
<1>2. Lanes = 1..Len(batches) /\ Len(batches) \in Nat /\ 0 \notin Jobs
  BY DEF BatchesTyped, Lanes, Jobs, Batches
<1>3. CASE free = {}
  <2>1. Lanes' = Lanes /\ Jobs' = Jobs /\ UNCHANGED <<batches, jobs>>
    BY <1>1, <1>3 DEF Lanes, Jobs
  <2>2. PICK F \in SUBSET Lanes : F = {}
    OBVIOUS
  <2>3. PICK f \in Nat \ Jobs : f = 0
    BY <1>2
  <2>4. \A k \in Lanes : ~(batches[k].pending /\ batches[k].route = "teardown" /\ batches[k].job = 0)
    BY <1>3
  <2>. HIDE DEF free, first
  <2>. QED BY <1>2, <2>1, <2>2, <2>3, <2>4
<1>4. CASE free # {}
  <2>1. free \in SUBSET Nat
    BY <1>2
  <2>2. PICK F \in SUBSET Lanes : F = free
    OBVIOUS
  <2>3. first \in F
    <3>. HIDE DEF free
    <3>1. \E i \in free : \A k \in free : i <= k
      BY <1>4, <2>1, LeastNat
    <3>. QED BY <2>2, <3>1
  <2>4. /\ \A i \in F : batches[i].job = 0 /\ batches[i].pending /\ batches[i].route = "teardown"
        /\ \A k \in Lanes : batches[k].pending /\ batches[k].route = "teardown" /\ batches[k].job = 0 => k \in F
    BY <2>2
  <2>5. PICK f \in F : f = first
    BY <2>3
  <2>6. PICK w : w = [kind |-> "teardown", waiters |-> <<>>, enqueued |-> FALSE, todo |-> Merged(F)]
    OBVIOUS
  <2>7. /\ jobs' = [jobs EXCEPT ![f] = w]
        /\ batches' = [i \in Lanes |->
             IF i \in F THEN [batches[i] EXCEPT !.job = f] ELSE batches[i]]
    <3>. HIDE DEF free, first
    <3>. QED BY <1>1, <1>4, <2>2, <2>5, <2>6
  <2>. HIDE DEF free, first
  <2>8. f \in Nat \ Jobs
    BY <1>2, <2>4 DEF Owned
  <2>9. Lanes' = Lanes
    BY <1>2, <2>7 DEF Lanes
  <2>10. \A j \in Batches : jobs'[j] = IF j = f THEN w ELSE jobs[j]
    BY <2>7 DEF JobsTyped
  <2>11. w # NoJob /\ w.kind = "teardown" /\ w.waiters = <<>> /\ ~w.enqueued /\ w.todo = Merged(F)
    BY <2>6 DEF NoJob
  <2>12. /\ Jobs' \subseteq Jobs \cup {f} /\ \A j \in Jobs : j \in Jobs' /\ jobs'[j] = jobs[j]
         /\ f \in Jobs' => jobs'[f] = w
    BY <2>8, <2>10 DEF Jobs
  <2>. QED BY <2>4, <2>7, <2>8, <2>9, <2>11, <2>12
<1>. QED BY <1>3, <1>4

-----------------------------------------------------------------------------
\* Before the turn is released no lane has begun to await.
Begins ==
  /\ host = "gone" <=> phase = "gone"
  /\ host # "gone" =>
       /\ Ready \subseteq {Drain} /\ \A j \in Jobs : Waiters(j) \subseteq {Drain}
       /\ \A k \in Lanes : batches[k].lane \in {"first", "release"}

\* The drain awaits batch k.
HeadOf(k) == Visiting /\ drain.todo[1] = k /\ Drain \notin Ready

\* The drain visits each batch once.  Only while it awaits a batch does that batch
\* have a job although its lane is about to try the queue, or another route than
\* its job.  What is pending has something to write.
Visits ==
  /\ IsInjective(drain.todo) /\ (~Visiting => drain.todo = <<>>)
  /\ \A k \in Lanes :
       /\ batches[k].pending => batches[k].todo # <<>>
       /\ k \in Ready /\ batches[k].lane = "try2" /\ batches[k].job # 0 => HeadOf(k)
       /\ batches[k].cause = "abort" /\ batches[k].route = "requeue" /\ Writing(k) => HeadOf(k)

AwaitInv == Waits /\ Begins /\ Visits

\* The end of a write.
LEMMA SettleAwaits ==
  ASSUME Stored, DrainTyped, AwaitInv, NEW i \in Jobs, NEW ok \in BOOLEAN, NEW written,
         Settle(i, ok, written), UNCHANGED <<host, phase>>
  PROVE  AwaitInv'
<1>. USE DEF AwaitInv
<1>1. /\ Waits' /\ Ready' = Ready \cup Waiters(i)
      /\ \A j \in Jobs' : Waiters(j)' = Waiters(j)
      /\ drain'.at = drain.at /\ drain'.todo = drain.todo
  BY SettleWaits
<1>2. /\ Lanes' = Lanes /\ Jobs' = Jobs \ {i} /\ \A j \in Jobs' : jobs'[j] = jobs[j]
      /\ \A k \in Lanes : batches[k].job # i => batches'[k] = batches[k]
      /\ \A k \in Lanes : batches[k].job = i =>
           /\ batches'[k].job = 0
           /\ batches'[k].lane = IF batches[k].lane = "first" THEN "release" ELSE batches[k].lane
           /\ batches'[k].pending => batches'[k].todo # <<>>
  BY SettleAll
<1>3. i # 0 /\ 0 \notin Batches
  BY DEF Jobs, Batches
<1>4. Begins'
  BY <1>1, <1>2 DEF Begins
<1>5. ASSUME NEW k \in Lanes, batches[k].job # i, HeadOf(k) PROVE HeadOf(k)'
  <2>1. Drain \in Waiters(i) => batches[drain.todo[1]].job = i
    BY DEF Waits, Awaits
  <2>. QED BY <1>1, <1>5, <2>1 DEF HeadOf, Visiting
<1>6. ASSUME NEW k \in Lanes
      PROVE  /\ batches'[k].pending => batches'[k].todo # <<>>
             /\ k \in Ready' /\ batches'[k].lane = "try2" /\ batches'[k].job # 0 => HeadOf(k)'
             /\ batches'[k].cause = "abort" /\ batches'[k].route = "requeue" /\ Writing(k)' => HeadOf(k)'
  <2>1. CASE batches[k].job = i
    BY <1>2, <1>3, <2>1 DEF Writing
  <2>2. CASE batches[k].job # i
    <3>1. batches'[k] = batches[k]
      BY <1>2, <2>2
    <3>2. k \in Waiters(i) => batches[k].job = i
      BY DEF Waits, Awaits, Drain, Lanes, Stored, Books, BatchesTyped
    <3>3. k \in Ready' => k \in Ready
      BY <1>1, <2>2, <3>2
    <3>4. Writing(k)' => Writing(k)
      <4>1. batches[k].job \in Batches => batches[k].job \in Jobs'
        BY <1>2, <2>2 DEF Stored, Books, Covered
      <4>. QED BY <1>2, <3>1, <4>1 DEF Writing
    <3>. QED BY <1>5, <2>2, <3>1, <3>3, <3>4 DEF Visits
  <2>. QED BY <2>1, <2>2
<1>7. IsInjective(drain.todo)' /\ (~Visiting' => drain'.todo = <<>>)
  BY <1>1 DEF Visits, Visiting, IsInjective
<1>. QED BY <1>1, <1>2, <1>4, <1>6, <1>7 DEF Visits

\* What a job is stays so while others begin and end.
LEMMA SameKind ==
  ASSUME Covered, NEW k \in Lanes, batches'[k].job = batches[k].job,
         \A j \in Jobs : jobs'[j].kind = jobs[j].kind
  PROVE  Writing(k)' <=> Writing(k)
BY DEF Writing, Covered

\* The drain begins to await a batch.
LEMMA DrainAwaitsIt ==
  ASSUME Stored, DrainTyped, AwaitInv, NEW i \in Lanes, NEW b \in Batch, b.todo = batches[i].todo,
         b.job = batches[i].job, b.pending = batches[i].pending, b.cause = batches[i].cause,
         b.lane = batches[i].lane, Await(i, b, Drain), Drain \in Ready \/ ~Visiting,
         Ready' \subseteq Ready, IsInjective(ready)', Drain \notin Ready',
         Visiting', drain'.todo[1] = i, IsInjective(drain.todo)', UNCHANGED <<host, phase>>
  PROVE  AwaitInv'
<1>. USE DEF AwaitInv
<1>1. Drain \in 0..Len(batches)
  BY DEF Drain, Stored, Books, BatchesTyped
<1>2. Waits'
  BY <1>1, AwaitWaits
<1>3. /\ batches'[i].job # 0
      /\ \A j \in Jobs' : \A w \in Waiters(j)' :
           (w = Drain /\ j = batches'[i].job) \/ (j \in Jobs /\ w \in Waiters(j))
  <2>1. \A j \in Jobs : IsInjective(jobs[j].waiters) /\ Drain \notin Waiters(j)
    BY DEF Waits, Awaits
  <2>. QED BY <1>1, <2>1, AwaitWaiters
<1>4. /\ Lanes' = Lanes /\ \A k \in Lanes : k # i => batches'[k] = batches[k]
      /\ batches'[i] = IF batches[i].job # 0 THEN b ELSE [b EXCEPT !.job = i]
      /\ \A j \in Jobs : jobs'[j].kind = jobs[j].kind
  BY AwaitBooks
<1>5. /\ batches'[i].lane = batches[i].lane /\ batches'[i].pending = batches[i].pending
      /\ batches'[i].todo = batches[i].todo
  BY <1>4 DEF Batch
<1>6. Begins'
  BY <1>3, <1>4, <1>5 DEF Begins
<1>7. HeadOf(i)' /\ \A k \in Lanes : ~HeadOf(k)
  BY DEF HeadOf
<1>8. ASSUME NEW k \in Lanes
      PROVE  /\ batches'[k].pending => batches'[k].todo # <<>>
             /\ k \in Ready' /\ batches'[k].lane = "try2" /\ batches'[k].job # 0 => HeadOf(k)'
             /\ batches'[k].cause = "abort" /\ batches'[k].route = "requeue" /\ Writing(k)' => HeadOf(k)'
  <2>1. CASE k = i
    BY <1>5, <1>7, <2>1 DEF Visits
  <2>2. CASE k # i
    <3>1. batches'[k] = batches[k]
      BY <1>4, <2>2
    <3>2. Writing(k)' => Writing(k)
      BY <1>4, <3>1, SameKind DEF Stored, Books
    <3>. QED BY <1>7, <3>1, <3>2 DEF Visits
  <2>. QED BY <2>1, <2>2
<1>. QED BY <1>2, <1>4, <1>6, <1>8 DEF Visits

\* A lane goes on.
LEMMA LaneAwaits ==
  ASSUME IInv, AwaitInv, NEW i \in Batches, Lane(i)
  PROVE  AwaitInv'
<1>. USE DEF IInv, AwaitInv, Stored, Books
<1>. DEFINE b == batches[i]
            next == [b EXCEPT !.lane = After(b), !.route = IF After(b) = "last" THEN "requeue" ELSE @]
<1>1. /\ ready # <<>> /\ Head(ready) = i /\ ready' = Tail(ready)
      /\ IF next.lane # "end" /\ (b.pending \/ next.lane = "joined")
         THEN Await(i, next, i)
         ELSE batches' = [batches EXCEPT ![i].lane = "end"] /\ UNCHANGED jobs
      /\ UNCHANGED <<host, phase, drain>>
  BY DEF Lane, turnV
<1>2. i # 0 /\ Len(batches) \in Nat /\ Lanes = 1..Len(batches) /\ ready \in Seq(0..Len(batches))
  BY DEF Batches, BatchesTyped, Lanes, DrainTyped
<1>3. /\ i \in 0..Len(batches) /\ ToSet(ready) = {i} \cup ToSet(Tail(ready))
      /\ IsInjective(Tail(ready)) /\ i \notin ToSet(Tail(ready))
  <2>1. /\ Head(ready) = ready[1] /\ ready[1] \in 0..Len(batches)
        /\ ToSet(ready) = {ready[1]} \cup ToSet(Tail(ready))
    BY <1>1, <1>2, SplitMembers
  <2>2. IsInjective(Tail(ready)) /\ ready[1] \notin ToSet(Tail(ready))
    BY <1>1, <1>2, TailOnce DEF Waits
  <2>. QED BY <1>1, <2>1, <2>2
<1>4. i \in Lanes /\ batches[i] \in Batch
  BY <1>2, <1>3 DEF BatchesTyped
<1>5. Ready' \subseteq Ready /\ i \in Ready /\ i \notin Ready' /\ IsInjective(ready)'
  <2>1. Ready' = ToSet(Tail(ready)) /\ (IsInjective(ready)' <=> IsInjective(Tail(ready)))
    BY <1>1 DEF Ready, ToSet, IsInjective
  <2>. QED BY <1>3, <2>1 DEF Ready
<1>6. host = "gone" /\ phase = "gone"
  BY <1>2, <1>5 DEF Begins, Drain
<1>7. /\ next \in Batch /\ next.todo = b.todo /\ next.job = b.job /\ next.pending = b.pending
      /\ next.cause = b.cause /\ next.lane = After(b)
      /\ next.route = IF After(b) = "last" THEN "requeue" ELSE b.route
  <2>1. After(b) \in {"joined", "again", "try1", "try2", "last", "end"}
    BY DEF After
  <2>. QED BY <1>4, <2>1 DEF Batch
<1>8. After(b) = "last" => b.lane = "try2"
  BY DEF After
<1>. HIDE DEF next
<1>9. CASE Await(i, next, i)
  <2>1. Waits'
    BY <1>1, <1>3, <1>4, <1>5, <1>7, <1>2, <1>9, AwaitWaits DEF Drain
  <2>2. /\ Lanes' = Lanes /\ \A k \in Lanes : k # i => batches'[k] = batches[k]
        /\ batches'[i] = IF batches[i].job # 0 THEN next ELSE [next EXCEPT !.job = i]
        /\ \A j \in Jobs : jobs'[j].kind = jobs[j].kind
        /\ \A j \in Jobs' \ Jobs : /\ j = i /\ batches[i].job = 0
                                   /\ jobs'[j].kind = next.route
    BY <1>4, <1>7, <1>9, AwaitBooks
  <2>3. /\ batches'[i].todo = b.todo /\ batches'[i].pending = b.pending /\ batches'[i].cause = b.cause
        /\ batches'[i].route = next.route
        /\ batches'[i].job = IF b.job # 0 THEN b.job ELSE i
    BY <1>7, <2>2 DEF Batch
  <2>4. \A k \in Lanes : HeadOf(k) => HeadOf(k)'
    BY <1>1, <1>5 DEF HeadOf, Visiting
  <2>5. ASSUME NEW k \in Lanes
        PROVE  /\ batches'[k].pending => batches'[k].todo # <<>>
               /\ k \in Ready' /\ batches'[k].lane = "try2" /\ batches'[k].job # 0 => HeadOf(k)'
               /\ batches'[k].cause = "abort" /\ batches'[k].route = "requeue" /\ Writing(k)' => HeadOf(k)'
    <3>1. CASE k = i
      <4>1. (batches'[k].pending => batches'[k].todo # <<>>) /\ k \notin Ready'
        BY <1>5, <2>3, <3>1 DEF Visits
      <4>2. ASSUME b.cause = "abort", next.route = "requeue", Writing(i)' PROVE HeadOf(i)'
        <5>1. CASE b.job = 0
          <6>1. i \in Jobs' \ Jobs
            <7>1. i \in Jobs'
              <8>1. jobs' = [jobs EXCEPT ![i] = Job(next, i, <<i>>)]
                BY <1>7, <1>9, <5>1 DEF Await
              <8>2. jobs'[i].kind = next.route /\ Job(next, i, <<i>>).kind = next.route
                BY <8>1 DEF Job, JobsTyped
              <8>3. jobs'[i] # NoJob
                BY <4>2, <8>2 DEF NoJob
              <8>. QED BY <8>3 DEF Jobs
            <7>2. i \notin Jobs
              BY <1>2, <5>1 DEF Owned
            <7>. QED BY <7>1, <7>2
          <6>2. jobs'[i].kind = "requeue"
            BY <2>2, <4>2, <6>1
          <6>. QED BY <2>3, <4>2, <5>1, <6>2 DEF Writing
        <5>2. CASE b.job # 0
          <6>1. Writing(i)
            BY <1>4, <2>2, <2>3, <4>2, <5>2, SameKind
          <6>2. CASE b.route = "requeue"
            BY <1>4, <2>4, <4>2, <6>1, <6>2 DEF Visits
          <6>3. CASE b.route # "requeue"
            <7>1. b.lane = "try2"
              BY <1>7, <1>8, <4>2, <6>3
            <7>. QED BY <1>4, <1>5, <2>4, <5>2, <7>1 DEF Visits
          <6>. QED BY <6>2, <6>3
        <5>. QED BY <5>1, <5>2
      <4>. QED BY <2>3, <3>1, <4>1, <4>2
    <3>2. CASE k # i
      <4>1. batches'[k] = batches[k]
        BY <2>2, <3>2
      <4>2. Writing(k)' => Writing(k)
        BY <2>2, <4>1, SameKind
      <4>. QED BY <1>5, <2>4, <4>1, <4>2 DEF Visits
    <3>. QED BY <3>1, <3>2
  <2>6. IsInjective(drain.todo)' /\ (~Visiting' => drain'.todo = <<>>)
    BY <1>1 DEF Visits, Visiting, IsInjective
  <2>7. Begins'
    BY <1>1, <1>6 DEF Begins
  <2>. QED BY <2>1, <2>2, <2>5, <2>6, <2>7 DEF Visits
<1>10. CASE batches' = [batches EXCEPT ![i].lane = "end"] /\ UNCHANGED jobs
  <2>1. /\ Lanes' = Lanes /\ Jobs' = Jobs
        /\ \A k \in Lanes : /\ batches'[k].todo = batches[k].todo /\ batches'[k].job = batches[k].job
                            /\ batches'[k].pending = batches[k].pending
                            /\ batches'[k].cause = batches[k].cause
                            /\ batches'[k].route = batches[k].route
                            /\ batches'[k].lane = batches[k].lane \/ batches'[k].lane = "end"
    BY <1>2, <1>10 DEF BatchesTyped, Batch, Lanes, Jobs
  <2>2. \A j \in Jobs : Waiters(j)' = Waiters(j)
    BY <1>10 DEF Waiters
  <2>3. \A k \in Lanes : (HeadOf(k) => HeadOf(k)') /\ (Writing(k)' <=> Writing(k))
    BY <1>1, <1>5, <1>10, <2>1 DEF HeadOf, Visiting, Writing
  <2>4. ASSUME NEW j \in Jobs, NEW w \in Waiters(j) PROVE w \notin Ready' /\ Awaits(w, j)'
    <3>1. w \notin Ready /\ Awaits(w, j)
      BY DEF Waits
    <3>2. jobs[j].waiters \in Seq(0..Len(batches))
      BY DEF JobsTyped, Write
    <3>3. w \in 0..Len(batches)
      BY <3>2 DEF Waiters, ToSet
    <3>4. CASE w = Drain
      <4>1. Visiting /\ batches[drain.todo[1]].job = j
        BY <3>1, <3>4 DEF Awaits
      <4>2. drain.todo[1] \in Lanes
        BY <4>1 DEF DrainTyped, Visiting
      <4>3. batches'[drain.todo[1]].job = j
        BY <2>1, <4>1, <4>2
      <4>. QED BY <1>1, <1>5, <3>1, <3>4, <4>1, <4>3 DEF Awaits, Visiting
    <3>5. CASE w # Drain
      <4>1. w \in Lanes
        BY <1>2, <3>3, <3>5 DEF Drain
      <4>. QED BY <1>5, <2>1, <3>1, <3>5, <4>1 DEF Awaits
    <3>. QED BY <3>4, <3>5
  <2>5. Waits'
    <3>1. \A j \in Jobs' : IsInjective(jobs'[j].waiters)
      BY <1>10, <2>1 DEF Waits
    <3>2. Drain \in Ready' => Visiting'
      BY <1>1, <1>5 DEF Waits, Visiting
    <3>. QED BY <1>5, <2>1, <2>2, <2>4, <3>1, <3>2 DEF Waits
  <2>6. IsInjective(drain.todo)' /\ (~Visiting' => drain'.todo = <<>>)
    BY <1>1 DEF Visits, Visiting, IsInjective
  <2>7. Begins'
    BY <1>1, <1>6 DEF Begins
  <2>8. Visits'
    BY <1>5, <2>1, <2>3, <2>6 DEF Visits
  <2>. QED BY <2>5, <2>7, <2>8
<1>. QED BY <1>1, <1>9, <1>10

\* The earliest message of a batch that has one.
LEMMA EarliestIs ==
  ASSUME NEW s \in Seq(Users), s # <<>>
  PROVE  /\ Earliest(s) \in ToSet(s) /\ ToSet(s) \subseteq Messages
         /\ \A m \in ToSet(s) : Earliest(s) <= m
<1>1. ToSet(s) \subseteq Messages
  BY UsersAreMessages DEF ToSet
<1>2. ToSet(s) \in SUBSET Nat /\ ToSet(s) # {}
  <2>1. 1 \in DOMAIN s
    OBVIOUS
  <2>2. Messages \subseteq Nat
    BY SteeringAssumption DEF Messages
  <2>. QED BY <1>1, <2>1, <2>2 DEF ToSet
<1>3. \E m \in ToSet(s) : \A n \in ToSet(s) : m <= n
  BY <1>2, LeastNat
<1>. QED BY <1>1, <1>3 DEF Earliest

\* The drain's list has every tracked batch once.
LEMMA DrainList ==
  ASSUME IInv, Apart, \A k \in Lanes : batches[k].pending => batches[k].todo # <<>>, DrainStarts
  PROVE  \E list \in Seq(Lanes) :
           /\ Visit(list, Len(batches)) /\ IsInjective(list)
           /\ \A k \in Lanes : batches[k].pending <=> k \in ToSet(list)
<1>. DEFINE tracked == {i \in Lanes : batches[i].pending}
            firsts == InOrder({Earliest(batches[i].todo) : i \in tracked})
            list == [n \in DOMAIN firsts |-> CHOOSE i \in tracked : Earliest(batches[i].todo) = firsts[n]]
<1>1. Visit(list, Len(batches))
  BY DEF DrainStarts
<1>. PICK S : S = {Earliest(batches[i].todo) : i \in tracked}
  OBVIOUS
<1>2. \A i \in tracked : Earliest(batches[i].todo) \in Queued(i) /\ Queued(i) \subseteq Messages
  <2>. TAKE i \in tracked
  <2>1. batches[i] \in Batch
    BY DEF IInv, Stored, Books, BatchesTyped, Lanes
  <2>2. PICK s \in Seq(Users) : s = batches[i].todo
    BY <2>1 DEF Batch
  <2>3. s # <<>>
    BY <2>2
  <2>. QED BY <2>2, <2>3, EarliestIs DEF Queued
<1>3. S \in SUBSET Messages
  BY <1>2
<1>4. firsts \in Seq(S) /\ ToSet(firsts) = S
  BY <1>3, InOrderMembers
<1>5. IsInjective(firsts)
  <2>. DEFINE all == [m \in Messages |-> m]
  <2>1. all \in Seq(Messages) /\ IsInjective(all)
    BY SteeringAssumption DEF Messages, IsInjective
  <2>2. firsts = Kept(all, S)
    BY DEF InOrder
  <2>. HIDE DEF all, firsts
  <2>. QED BY <2>1, <2>2, KeptOnce
<1>6. ASSUME NEW n \in DOMAIN firsts
      PROVE  list[n] \in tracked /\ Earliest(batches[list[n]].todo) = firsts[n]
  <2>1. firsts[n] \in S
    <3>. HIDE DEF firsts
    <3>. QED BY <1>4, <1>6
  <2>2. \E i \in tracked : Earliest(batches[i].todo) = firsts[n]
    BY <2>1
  <2>. QED BY <2>2
<1>7. DOMAIN firsts = 1..Len(firsts) /\ Len(firsts) \in Nat
  BY <1>4
<1>. PICK T : T = tracked
  OBVIOUS
<1>8. list \in Seq(T) /\ DOMAIN list = DOMAIN firsts
  <2>. HIDE DEF firsts
  <2>1. list = [n \in 1..Len(firsts) |-> list[n]] /\ DOMAIN list = DOMAIN firsts
    BY <1>7
  <2>2. \A n \in 1..Len(firsts) : list[n] \in T
    BY <1>6, <1>7
  <2>. HIDE DEF list
  <2>. QED BY <1>7, <2>1, <2>2
<1>9. \A n \in DOMAIN list : list[n] \in T /\ Earliest(batches[list[n]].todo) = firsts[n]
  <2>. HIDE DEF list, firsts
  <2>. QED BY <1>6, <1>8
<1>. HIDE DEF list, firsts
<1>10. IsInjective(list)
  <2>1. \A a, c \in DOMAIN list : list[a] = list[c] => firsts[a] = firsts[c]
    BY <1>9
  <2>2. \A a, c \in DOMAIN list : list[a] = list[c] => a = c
    BY <1>5, <1>8, <2>1 DEF IsInjective
  <2>. QED BY <2>2 DEF IsInjective
<1>11. ASSUME NEW k \in T PROVE k \in ToSet(list)
  <2>1. Earliest(batches[k].todo) \in ToSet(firsts)
    BY <1>4, <1>11
  <2>2. PICK n \in DOMAIN list : firsts[n] = Earliest(batches[k].todo)
    BY <1>8, <2>1 DEF ToSet
  <2>3. list[n] \in T /\ Earliest(batches[list[n]].todo) = Earliest(batches[k].todo)
    BY <1>9, <2>2
  <2>4. Earliest(batches[k].todo) \in Queued(k) /\ Earliest(batches[k].todo) \in Queued(list[n])
    BY <1>2, <1>11, <2>3
  <2>5. list[n] = k
    BY <1>11, <2>3, <2>4, OneBatch
  <2>. QED BY <2>5 DEF ToSet
<1>12. \A k \in ToSet(list) : k \in T
  BY <1>8 DEF ToSet
<1>13. list \in Seq(Lanes)
  <2>1. T \subseteq Lanes
    OBVIOUS
  <2>. QED BY <1>8, <2>1
<1>. QED BY <1>1, <1>10, <1>11, <1>12, <1>13

\* The drain goes on to a list of batches.
LEMMA VisitAwaits ==
  ASSUME Stored, DrainTyped, AwaitInv, NEW list \in Seq(Lanes), NEW upto, Visit(list, upto),
         IsInjective(list), Drain \in Ready \/ ~Visiting,
         Ready' \subseteq Ready, IsInjective(ready)', Drain \notin Ready', UNCHANGED <<host, phase>>
  PROVE  AwaitInv'
<1>1. CASE list = <<>>
  <2>1. UNCHANGED <<batches, jobs>> /\ drain' = [at |-> "rest", on |-> Jobs, todo |-> <<>>, upto |-> upto]
    BY <1>1 DEF Visit
  <2>2. ~Visiting' /\ drain'.todo = <<>> /\ Lanes' = Lanes /\ Jobs' = Jobs
    BY <2>1 DEF Visiting, Lanes, Jobs
  <2>3. \A j \in Jobs : Waiters(j)' = Waiters(j) /\ Drain \notin Waiters(j)
    BY <2>1 DEF Waiters, AwaitInv, Waits, Awaits
  <2>4. \A j \in Jobs : \A w \in Waiters(j) : w \notin Ready' /\ Awaits(w, j)'
    BY <2>1, <2>3 DEF AwaitInv, Waits, Awaits
  <2>5. Waits'
    <3>1. \A j \in Jobs' : IsInjective(jobs'[j].waiters)
      BY <2>1, <2>2 DEF AwaitInv, Waits
    <3>. QED BY <2>2, <2>3, <2>4, <3>1 DEF Waits
  <2>6. Begins'
    BY <2>1, <2>2, <2>3 DEF AwaitInv, Begins
  <2>7. Visits'
    <3>1. IsInjective(drain.todo)'
      BY <1>1, <2>2 DEF IsInjective
    <3>2. \A k \in Lanes : ~HeadOf(k) /\ (Writing(k)' <=> Writing(k))
      BY <2>1 DEF HeadOf, Writing
    <3>. QED BY <2>1, <2>2, <3>1, <3>2 DEF AwaitInv, Visits
  <2>. QED BY <2>5, <2>6, <2>7 DEF AwaitInv
<1>2. CASE list # <<>>
  <2>1. /\ drain' = [at |-> "first", on |-> {}, todo |-> list, upto |-> upto]
        /\ Await(list[1], batches[list[1]], Drain)
    BY <1>2 DEF Visit
  <2>2. PICK i \in Lanes : i = list[1]
    BY <1>2
  <2>3. PICK b \in Batch : b = batches[i]
    BY DEF Stored, Books, BatchesTyped, Lanes
  <2>4. Visiting' /\ drain'.todo = list
    BY <2>1 DEF Visiting
  <2>5. IsInjective(drain.todo)' /\ drain'.todo[1] = i /\ Await(i, b, Drain)
    BY <2>1, <2>2, <2>3, <2>4 DEF IsInjective
  <2>. QED BY <2>3, <2>4, <2>5, DrainAwaitsIt
<1>. QED BY <1>1, <1>2

\* The drain begins with the first batch of its list.
LEMMA DrainStartsAwaits ==
  ASSUME IInv, ReadInv, AwaitInv, DrainStarts
  PROVE  AwaitInv'
<1>1. /\ ready = <<>> /\ drain.at = "inflight" /\ UNCHANGED <<host, phase, ready>>
  BY DEF DrainStarts, turnV
<1>2. Ready = {} /\ Ready' = {} /\ ~Visiting /\ IsInjective(ready)'
  BY <1>1, EmptyMembers DEF Ready, Visiting, IsInjective, ToSet
<1>3. \A k \in Lanes : batches[k].pending => batches[k].todo # <<>>
  BY DEF AwaitInv, Visits
<1>4. PICK list \in Seq(Lanes) : Visit(list, Len(batches)) /\ IsInjective(list)
  BY <1>3, DrainList DEF ReadInv
<1>. QED BY <1>1, <1>2, <1>4, VisitAwaits DEF IInv

\* The drain goes on, to the queue with the batch it visits or to the next one.
LEMMA DrainContinuesAwaits ==
  ASSUME IInv, AwaitInv, DrainContinues
  PROVE  AwaitInv'
<1>. DEFINE c == [batches[drain.todo[1]] EXCEPT !.route = "requeue"]
<1>1. /\ ready # <<>> /\ Head(ready) = Drain /\ ready' = Tail(ready)
      /\ drain.at \in {"first", "second"}
      /\ IF drain.at = "first" /\ batches[drain.todo[1]].route = "teardown" /\ batches[drain.todo[1]].pending
         THEN Await(drain.todo[1], c, Drain) /\ drain' = [drain EXCEPT !.at = "second"]
         ELSE Visit(Tail(drain.todo), drain.upto)
      /\ UNCHANGED <<host, phase>>
  BY DEF DrainContinues, turnV
<1>2. drain.todo \in Seq(Lanes) /\ drain.todo # <<>> /\ Visiting
  BY <1>1 DEF DrainTyped, IInv, Visiting
<1>3. PICK i \in Lanes : i = drain.todo[1]
  BY <1>2
<1>4. Tail(drain.todo) \in Seq(Lanes) /\ IsInjective(Tail(drain.todo))
  BY <1>2, SplitMembers, TailOnce DEF AwaitInv, Visits
<1>5. Ready' \subseteq Ready /\ Drain \in Ready /\ Drain \notin Ready' /\ IsInjective(ready)'
  <2>1. ready \in Seq(0..Len(batches)) /\ IsInjective(ready)
    BY DEF IInv, DrainTyped, AwaitInv, Waits
  <2>2. Head(ready) = ready[1] /\ ToSet(ready) = {ready[1]} \cup ToSet(Tail(ready))
    BY <1>1, <2>1, SplitMembers
  <2>3. IsInjective(Tail(ready)) /\ ready[1] \notin ToSet(Tail(ready))
    BY <1>1, <2>1, TailOnce
  <2>4. Ready' = ToSet(Tail(ready)) /\ (IsInjective(ready)' <=> IsInjective(Tail(ready)))
    BY <1>1 DEF Ready, ToSet, IsInjective
  <2>. QED BY <1>1, <2>2, <2>3, <2>4 DEF Ready
<1>6. CASE drain.at = "first" /\ batches[i].route = "teardown" /\ batches[i].pending
  <2>1. Await(i, c, Drain) /\ drain' = [drain EXCEPT !.at = "second"]
    BY <1>1, <1>3, <1>6
  <2>2. batches[i] \in Batch
    BY DEF Stored, Books, BatchesTyped, Lanes, IInv
  <2>3. /\ c \in Batch /\ c.todo = batches[i].todo /\ c.job = batches[i].job
        /\ c.pending = batches[i].pending /\ c.cause = batches[i].cause /\ c.lane = batches[i].lane
    BY <1>3, <2>2 DEF Batch
  <2>4. Visiting' /\ drain'.todo = drain.todo
    BY <2>1 DEF DrainTyped, IInv, Visiting
  <2>5. IsInjective(drain.todo)' /\ drain'.todo[1] = i
    BY <1>3, <2>4 DEF AwaitInv, Visits, IsInjective
  <2>. HIDE DEF c
  <2>. QED BY <1>1, <1>5, <2>1, <2>3, <2>4, <2>5, DrainAwaitsIt DEF IInv
<1>7. CASE ~(drain.at = "first" /\ batches[i].route = "teardown" /\ batches[i].pending)
  <2>1. Visit(Tail(drain.todo), drain.upto)
    BY <1>1, <1>3, <1>7
  <2>. QED BY <1>1, <1>4, <1>5, <2>1, VisitAwaits DEF IInv
<1>. QED BY <1>6, <1>7

\* Steps that move no one along: batches may be added, or get a job, that no one awaits.
LEMMA AwaitsKept ==
  ASSUME Stored, DrainTyped, AwaitInv, ready' = ready, Visiting' <=> Visiting,
         drain'.todo = drain.todo, Lanes \subseteq Lanes',
         host' = "gone" <=> phase' = "gone", host' # "gone" => host # "gone",
         \A k \in Lanes :
           /\ batches'[k].lane = batches[k].lane /\ batches'[k].todo = batches[k].todo
           /\ batches'[k].cause = batches[k].cause /\ batches'[k].route = batches[k].route
           /\ batches'[k].pending => batches[k].pending
           /\ batches[k].job # 0 \/ k \in Ready => batches'[k].job = batches[k].job
           /\ Writing(k)' => Writing(k) \/ batches[k].route = "teardown",
         \A k \in Lanes' : k \notin Lanes =>
           /\ batches'[k].pending => batches'[k].todo # <<>>
           /\ batches'[k].lane \in {"first", "release"}
           /\ batches'[k].route = "requeue" => batches'[k].cause # "abort",
         \A j \in Jobs' : jobs'[j].waiters = <<>> \/ (j \in Jobs /\ jobs'[j].waiters = jobs[j].waiters)
  PROVE  AwaitInv'
<1>. USE DEF AwaitInv
<1>1. \A k \in Lanes : batches[k].job # 0 => batches'[k].job = batches[k].job
  OBVIOUS
<1>2. /\ Waits' /\ Ready' = Ready
      /\ \A j \in Jobs' : Waiters(j)' = {} \/ (j \in Jobs /\ Waiters(j)' = Waiters(j))
  BY <1>1, SameWaits
<1>3. Begins'
  <2>1. host' = "gone" <=> phase' = "gone"
    OBVIOUS
  <2>2. ASSUME host' # "gone"
        PROVE  /\ Ready' \subseteq {Drain} /\ \A j \in Jobs' : Waiters(j)' \subseteq {Drain}
               /\ \A k \in Lanes' : batches'[k].lane \in {"first", "release"}
    <3>1. /\ Ready \subseteq {Drain} /\ \A j \in Jobs : Waiters(j) \subseteq {Drain}
          /\ \A k \in Lanes : batches[k].lane \in {"first", "release"}
      BY <2>2 DEF Begins
    <3>2. \A j \in Jobs' : Waiters(j)' \subseteq {Drain}
      BY <1>2, <3>1
    <3>3. \A k \in Lanes' : batches'[k].lane \in {"first", "release"}
      BY <3>1
    <3>. QED BY <1>2, <3>1, <3>2, <3>3
  <2>. QED BY <2>1, <2>2 DEF Begins
<1>4. \A k : HeadOf(k)' <=> HeadOf(k)
  BY <1>2 DEF HeadOf
<1>5. ASSUME NEW k \in Lanes'
      PROVE  /\ batches'[k].pending => batches'[k].todo # <<>>
             /\ k \in Ready' /\ batches'[k].lane = "try2" /\ batches'[k].job # 0 => HeadOf(k)'
             /\ batches'[k].cause = "abort" /\ batches'[k].route = "requeue" /\ Writing(k)' => HeadOf(k)'
  <2>1. CASE k \in Lanes
    <3>1. batches'[k].pending => batches'[k].todo # <<>>
      BY <2>1, Zenon DEF Visits
    <3>2. k \in Ready' /\ batches'[k].lane = "try2" /\ batches'[k].job # 0 => HeadOf(k)'
      BY <1>2, <1>4, <2>1 DEF Visits
    <3>3. batches'[k].cause = "abort" /\ batches'[k].route = "requeue" /\ Writing(k)' => HeadOf(k)'
      BY <1>4, <2>1 DEF Visits
    <3>. QED BY <3>1, <3>2, <3>3
  <2>2. CASE k \notin Lanes
    BY <2>2
  <2>. QED BY <2>1, <2>2
<1>6. IsInjective(drain.todo)' /\ (~Visiting' => drain'.todo = <<>>)
  BY DEF Visits, IsInjective
<1>. QED BY <1>2, <1>3, <1>5, <1>6 DEF Visits

\* Steps that leave the books alone.
LEMMA SameAwaits ==
  ASSUME Stored, DrainTyped, AwaitInv, UNCHANGED <<batches, jobs, ready>>,
         Visiting' <=> Visiting, drain'.todo = drain.todo,
         host' = "gone" <=> phase' = "gone", host' # "gone" => host # "gone"
  PROVE  AwaitInv'
<1>1. Lanes' = Lanes /\ Jobs' = Jobs /\ \A k \in Lanes : Writing(k)' <=> Writing(k)
  BY DEF Lanes, Jobs, Writing
<1>2. \A k \in Lanes :
        /\ batches'[k].lane = batches[k].lane /\ batches'[k].todo = batches[k].todo
        /\ batches'[k].cause = batches[k].cause /\ batches'[k].route = batches[k].route
        /\ batches'[k].pending => batches[k].pending
        /\ batches[k].job # 0 \/ k \in Ready => batches'[k].job = batches[k].job
        /\ Writing(k)' => Writing(k) \/ batches[k].route = "teardown"
  BY <1>1
<1>. QED BY <1>1, <1>2, AwaitsKept

\* A batch that is handed over is awaited by no one yet.
LEMMA DiscardAwaits ==
  ASSUME Stored, DrainTyped, AwaitInv, NEW msgs \in Seq(Messages),
         NEW cause \in {"abort", "abnormal-seal", "exit-close"}, Discard(msgs, cause),
         ready' = ready, Visiting' <=> Visiting, drain'.todo = drain.todo,
         host' = "gone" <=> phase' = "gone", host' # "gone" => host # "gone"
  PROVE  AwaitInv'
<1>1. CASE UNCHANGED <<batches, jobs>>
  BY <1>1, SameAwaits
<1>2. ASSUME NEW n \in Nat \ Lanes, Lanes' = Lanes \cup {n}, Jobs' \subseteq Jobs \cup {n},
             \A k \in Lanes : batches'[k] = batches[k], \A j \in Jobs : j \in Jobs' /\ jobs'[j] = jobs[j],
             batches'[n].cause = cause, batches'[n].route = "requeue" => cause = "exit-close",
             batches'[n].todo # <<>>, batches'[n].lane \in {"first", "release"},
             n \in Jobs' => jobs'[n].waiters = <<>>
      PROVE  AwaitInv'
  <2>1. \A k \in Lanes : Writing(k)' => Writing(k)
    BY <1>2, SameKind DEF Stored, Books
  <2>2. \A k \in Lanes :
          /\ batches'[k].lane = batches[k].lane /\ batches'[k].todo = batches[k].todo
          /\ batches'[k].cause = batches[k].cause /\ batches'[k].route = batches[k].route
          /\ batches'[k].pending => batches[k].pending
          /\ batches[k].job # 0 \/ k \in Ready => batches'[k].job = batches[k].job
          /\ Writing(k)' => Writing(k) \/ batches[k].route = "teardown"
    BY <1>2, <2>1
  <2>3. \A k \in Lanes' : k \notin Lanes =>
          /\ batches'[k].pending => batches'[k].todo # <<>>
          /\ batches'[k].lane \in {"first", "release"}
          /\ batches'[k].route = "requeue" => batches'[k].cause # "abort"
    BY <1>2
  <2>4. \A j \in Jobs' : jobs'[j].waiters = <<>> \/ (j \in Jobs /\ jobs'[j].waiters = jobs[j].waiters)
    BY <1>2
  <2>5. Lanes \subseteq Lanes'
    BY <1>2
  <2>. QED BY <2>2, <2>3, <2>4, <2>5, AwaitsKept
<1>3. \/ UNCHANGED <<batches, jobs>>
      \/ \E n \in Nat \ Lanes :
           /\ n # 0 /\ Lanes' = Lanes \cup {n} /\ Jobs' \subseteq Jobs \cup {n}
           /\ \A k \in Lanes : batches'[k] = batches[k] /\ Queued(k)' = Queued(k)
           /\ \A j \in Jobs : j \in Jobs' /\ jobs'[j] = jobs[j]
           /\ Queued(n)' = ToSet(msgs) \cap Users
           /\ batches'[n].cause = cause
           /\ batches'[n].lane = "first" \/ batches'[n].route = "requeue" => cause = "exit-close"
           /\ batches'[n].lane = "first" => batches'[n].job # 0
           /\ n \in Jobs' => batches'[n].route = "requeue" /\ jobs'[n].kind = "requeue"
           /\ n = Len(batches) + 1 /\ batches'[n].pending /\ batches'[n].todo # <<>>
           /\ batches'[n].lane \in {"first", "release"}
           /\ cause = "exit-close" =>
                /\ batches'[n].route = "requeue" /\ batches'[n].job = n
                /\ n \in Batches => n \in Jobs'
           /\ cause # "exit-close" => batches'[n].job = 0
           /\ n \in Jobs' => jobs'[n].waiters = <<>> /\ ~jobs'[n].enqueued
  BY DiscardBooks
<1>. QED BY <1>1, <1>2, <1>3

\* The write before the release is awaited by no one either.
LEMMA CommitAwaits ==
  ASSUME IInv, AwaitInv, CommitBeforeRelease
  PROVE  AwaitInv'
<1>1. /\ ready = <<>> /\ host = "ended" /\ host' = "settling" /\ UNCHANGED <<phase, ready, drain>>
  <2>. DEFINE free == {i \in Lanes : batches[i].pending /\ batches[i].route = "teardown" /\ batches[i].job = 0}
              first == CHOOSE i \in free : \A k \in free : i <= k
  <2>1. /\ ready = <<>> /\ host = "ended" /\ host' = "settling"
        /\ IF free = {} THEN UNCHANGED <<batches, jobs>>
           ELSE /\ jobs' = [jobs EXCEPT ![first] =
                     [kind |-> "teardown", waiters |-> <<>>, enqueued |-> FALSE, todo |-> Merged(free)]]
                /\ batches' = [i \in Lanes |->
                     IF i \in free THEN [batches[i] EXCEPT !.job = first] ELSE batches[i]]
        /\ UNCHANGED <<phase, ready, drain>>
    BY DEF CommitBeforeRelease
  <2>. HIDE DEF free, first
  <2>. QED BY <2>1
<1>2. PICK F \in SUBSET Lanes, f \in Nat \ Jobs :
           /\ Lanes' = Lanes /\ Jobs' \subseteq Jobs \cup {f}
           /\ \A k \in F : /\ batches[k].job = 0 /\ batches[k].pending /\ batches[k].route = "teardown"
                           /\ batches'[k] = [batches[k] EXCEPT !.job = f]
           /\ \A k \in Lanes : k \notin F => batches'[k] = batches[k]
           /\ \A j \in Jobs : j \in Jobs' /\ jobs'[j] = jobs[j]
           /\ f \in Jobs' => /\ jobs'[f].kind = "teardown" /\ jobs'[f].waiters = <<>>
                             /\ ~jobs'[f].enqueued
  BY CommitBooks
<1>3. Ready = {} /\ (Visiting' <=> Visiting) /\ drain'.todo = drain.todo
  BY <1>1, EmptyMembers DEF Ready, Visiting
<1>4. host' = "gone" <=> phase' = "gone"
  BY <1>1 DEF AwaitInv, Begins
<1>5. ASSUME NEW k \in Lanes
      PROVE  /\ batches'[k].lane = batches[k].lane /\ batches'[k].todo = batches[k].todo
             /\ batches'[k].cause = batches[k].cause /\ batches'[k].route = batches[k].route
             /\ batches'[k].pending => batches[k].pending
             /\ batches[k].job # 0 \/ k \in Ready => batches'[k].job = batches[k].job
             /\ Writing(k)' => Writing(k) \/ batches[k].route = "teardown"
  <2>1. CASE k \in F
    <3>0. batches[k] \in Batch
      BY DEF IInv, Stored, Books, BatchesTyped, Lanes
    <3>1. batches'[k] = [batches[k] EXCEPT !.job = f]
      BY <1>2, <2>1
    <3>2. /\ batches'[k].lane = batches[k].lane /\ batches'[k].todo = batches[k].todo
          /\ batches'[k].cause = batches[k].cause /\ batches'[k].route = batches[k].route
          /\ batches'[k].pending = batches[k].pending
      BY <3>0, <3>1 DEF Batch
    <3>. QED BY <1>2, <1>3, <2>1, <3>2
  <2>2. CASE k \notin F
    <3>1. batches'[k] = batches[k]
      BY <1>2, <2>2
    <3>2. Writing(k)' => Writing(k)
      BY <1>2, <3>1, SameKind DEF IInv, Stored, Books
    <3>. QED BY <3>1, <3>2
  <2>. QED BY <2>1, <2>2
<1>6. \A j \in Jobs' : jobs'[j].waiters = <<>> \/ (j \in Jobs /\ jobs'[j].waiters = jobs[j].waiters)
  BY <1>2
<1>7. \A k \in Lanes' : k \in Lanes
  BY <1>2
<1>8. Lanes \subseteq Lanes'
  BY <1>2
<1>. QED BY <1>1, <1>3, <1>4, <1>5, <1>6, <1>7, <1>8, AwaitsKept DEF IInv

\* The release lets every lane go.
LEMMA ReleaseAwaits ==
  ASSUME IInv, AwaitInv, Release
  PROVE  AwaitInv'
<1>. USE DEF IInv, AwaitInv
<1>1. /\ ready = <<>> /\ host = "settling" /\ host' = "gone" /\ phase' = "gone"
      /\ ready' = [i \in Lanes |-> i] /\ UNCHANGED <<batches, jobs, drain>>
  BY DEF Release
<1>2. Lanes = 1..Len(batches) /\ Len(batches) \in Nat /\ 0 \notin Lanes
  BY DEF Stored, Books, BatchesTyped, Lanes
<1>3. Ready' = Lanes /\ IsInjective(ready)'
  BY <1>1 DEF Ready, ToSet, IsInjective
<1>4. /\ Lanes' = Lanes /\ Jobs' = Jobs /\ (Visiting' <=> Visiting)
      /\ \A j \in Jobs : Waiters(j)' = Waiters(j)
      /\ \A k \in Lanes : Writing(k)' <=> Writing(k)
  BY <1>1 DEF Lanes, Jobs, Visiting, Waiters, Writing
<1>5. \A j \in Jobs : Waiters(j) \subseteq {Drain}
  BY <1>1 DEF Begins
<1>6. Waits'
  <2>1. \A j \in Jobs : \A w \in Waiters(j) : w \notin Ready' /\ Awaits(w, j)'
    BY <1>1, <1>2, <1>3, <1>4, <1>5 DEF Waits, Awaits, Drain
  <2>2. Drain \notin Ready'
    BY <1>2, <1>3 DEF Drain
  <2>3. \A j \in Jobs : IsInjective(jobs'[j].waiters)
    BY <1>1 DEF Waits
  <2>. QED BY <1>3, <1>4, <2>1, <2>2, <2>3 DEF Waits
<1>7. Begins'
  BY <1>1 DEF Begins
<1>8. \A k \in Lanes : HeadOf(k) => HeadOf(k)'
  BY <1>1, <1>2, <1>3, <1>4 DEF HeadOf, Drain
<1>9. \A k \in Lanes : batches[k].lane \in {"first", "release"}
  BY <1>1 DEF Begins
<1>10. Visits'
  <2>1. IsInjective(drain.todo)' /\ (~Visiting' => drain'.todo = <<>>)
    BY <1>1, <1>4 DEF Visits, IsInjective
  <2>2. ASSUME NEW k \in Lanes
        PROVE  /\ batches'[k].pending => batches'[k].todo # <<>>
               /\ batches'[k].lane # "try2"
               /\ batches'[k].cause = "abort" /\ batches'[k].route = "requeue" /\ Writing(k)' => HeadOf(k)'
    BY <1>1, <1>4, <1>8, <1>9 DEF Visits
  <2>. QED BY <1>4, <2>1, <2>2 DEF Visits
<1>. QED BY <1>6, <1>7, <1>10

\* Writes that go on or end.
LEMMA WritesAwait ==
  ASSUME IInv, AwaitInv, NEW i \in Batches, Land(i) \/ WriteFails(i) \/ Enqueue(i) \/ Pause(i)
  PROVE  AwaitInv'
<1>. USE DEF IInv
<1>1. UNCHANGED <<host, phase>>
  BY DEF Land, WriteFails, Enqueue, Pause, turnV
<1>2. i \in Jobs
  <2>1. jobs[i] # NoJob \/ jobs[i].kind \in {"teardown", "requeue"}
    BY DEF Land, WriteFails, Enqueue, Pause
  <2>. QED BY <2>1 DEF Jobs, NoJob
<1>3. ASSUME NEW ok \in BOOLEAN, NEW written, Settle(i, ok, written) PROVE AwaitInv'
  BY <1>1, <1>2, <1>3, SettleAwaits
<1>4. ASSUME NEW w, jobs' = [jobs EXCEPT ![i] = w], w.kind = jobs[i].kind, w.waiters = jobs[i].waiters,
             w # NoJob, UNCHANGED <<batches, ready, drain>>
      PROVE  AwaitInv'
  <2>1. /\ Lanes' = Lanes /\ Jobs' = Jobs
        /\ \A j \in Batches : jobs'[j].kind = jobs[j].kind /\ jobs'[j].waiters = jobs[j].waiters
    BY <1>2, <1>4 DEF Lanes, Jobs, Stored, Books, JobsTyped
  <2>2. \A k \in Lanes : Writing(k)' <=> Writing(k)
    BY <1>4, <2>1 DEF Writing
  <2>3. /\ (Visiting' <=> Visiting) /\ drain'.todo = drain.todo
        /\ host' = "gone" <=> phase' = "gone"
        /\ host' # "gone" => host # "gone"
    BY <1>1, <1>4 DEF Visiting, AwaitInv, Begins
  <2>4. \A k \in Lanes :
          /\ batches'[k].lane = batches[k].lane /\ batches'[k].todo = batches[k].todo
          /\ batches'[k].cause = batches[k].cause /\ batches'[k].route = batches[k].route
          /\ batches'[k].pending => batches[k].pending
          /\ batches[k].job # 0 \/ k \in Ready => batches'[k].job = batches[k].job
          /\ Writing(k)' => Writing(k) \/ batches[k].route = "teardown"
    BY <1>4, <2>2
  <2>5. \A j \in Jobs' : jobs'[j].waiters = <<>> \/ (j \in Jobs /\ jobs'[j].waiters = jobs[j].waiters)
    BY <2>1 DEF Jobs
  <2>6. ready' = ready
    BY <1>4
  <2>. QED BY <2>1, <2>3, <2>4, <2>5, <2>6, AwaitsKept
<1>5. jobs[i] \in Write
  BY <1>2 DEF Stored, Books, JobsTyped
<1>6. CASE Land(i)
  <2>1. CASE Len(jobs[i].todo) > 1
    <3>1. jobs' = [jobs EXCEPT ![i] = [jobs[i] EXCEPT !.todo = Tail(@)]] /\ UNCHANGED <<batches, ready, drain>>
      BY <1>2, <1>6, <2>1 DEF Land, Stored, Books, JobsTyped
    <3>. PICK w : w = [jobs[i] EXCEPT !.todo = Tail(@)]
      OBVIOUS
    <3>2. w.kind = jobs[i].kind /\ w.waiters = jobs[i].waiters /\ w # NoJob
      BY <1>5 DEF Write, NoJob
    <3>. QED BY <1>4, <3>1, <3>2
  <2>2. CASE ~(Len(jobs[i].todo) > 1)
    <3>1. PICK written : written = ToSet(fallen) \cup ToSet(jobs[i].todo)
      OBVIOUS
    <3>2. Settle(i, TRUE, written)
      BY <1>6, <2>2, <3>1 DEF Land
    <3>. QED BY <1>3, <3>2
  <2>. QED BY <2>1, <2>2
<1>7. CASE WriteFails(i)
  <2>1. PICK written : written = ToSet(fallen)
    OBVIOUS
  <2>2. Settle(i, FALSE, written)
    BY <1>7, <2>1 DEF WriteFails
  <2>. QED BY <1>3, <2>2
<1>8. CASE Enqueue(i)
  <2>1. CASE StopPauses(i)
    <3>1. jobs' = [jobs EXCEPT ![i] = [jobs[i] EXCEPT !.enqueued = TRUE]] /\ UNCHANGED <<batches, ready, drain>>
      BY <1>2, <1>8, <2>1 DEF Enqueue, Stored, Books, JobsTyped
    <3>. PICK w : w = [jobs[i] EXCEPT !.enqueued = TRUE]
      OBVIOUS
    <3>2. w.kind = jobs[i].kind /\ w.waiters = jobs[i].waiters /\ w # NoJob
      BY <1>5 DEF Write, NoJob
    <3>. QED BY <1>4, <3>1, <3>2
  <2>2. CASE ~StopPauses(i)
    <3>1. PICK written : written = {}
      OBVIOUS
    <3>2. Settle(i, TRUE, written)
      BY <1>8, <2>2, <3>1 DEF Enqueue
    <3>. QED BY <1>3, <3>2
  <2>. QED BY <2>1, <2>2
<1>9. CASE Pause(i)
  <2>1. PICK written : written = {}
    OBVIOUS
  <2>2. Settle(i, TRUE, written)
    BY <1>9, <2>1 DEF Pause
  <2>. QED BY <1>3, <2>2
<1>. QED BY <1>6, <1>7, <1>8, <1>9

\* The controls close: what waits is handed over, and no one awaits it yet.
LEMMA CloseAwaits ==
  ASSUME IInv, AwaitInv, NEW cause \in {"abort", "abnormal-seal", "exit-close"},
         Discard(waiting, cause), ready' = ready, Visiting' <=> Visiting, drain'.todo = drain.todo,
         phase = "running", phase' # "gone", host' \in {host, "ended"}
  PROVE  AwaitInv'
<1>1. waiting \in Seq(Messages)
  BY DEF IInv, TurnTyped
<1>2. host # "gone" /\ host' # "gone"
  BY DEF AwaitInv, Begins
<1>3. host' = "gone" <=> phase' = "gone"
  BY <1>2
<1>. QED BY <1>1, <1>2, <1>3, DiscardAwaits DEF IInv

\* The turn's steps.
LEMMA TurnAwaits ==
  ASSUME IInv, AwaitInv, Turn
  PROVE  AwaitInv'
<1>. USE DEF IInv
<1>1. CASE \E m \in Messages : Steer(m)
  <2>1. UNCHANGED <<phase, host, batches, jobs, ready, drain>>
    BY <1>1 DEF Steer
  <2>2. (Visiting' <=> Visiting) /\ drain'.todo = drain.todo /\ (host' = "gone" <=> phase' = "gone")
    BY <2>1 DEF Visiting, AwaitInv, Begins
  <2>. QED BY <2>1, <2>2, SameAwaits
<1>2. CASE Poll
  <2>1. host = "idle" /\ host' = "poll" /\ UNCHANGED <<phase, batches, jobs, ready, drain>>
    BY <1>2 DEF Poll
  <2>2. (Visiting' <=> Visiting) /\ drain'.todo = drain.todo /\ (host' = "gone" <=> phase' = "gone")
    BY <2>1 DEF Visiting, AwaitInv, Begins
  <2>. QED BY <2>1, <2>2, SameAwaits
<1>3. ASSUME NEW msgs \in Seq(Messages), Restore(msgs), host = "poll" PROVE AwaitInv'
  <2>1. /\ host' = "idle" /\ UNCHANGED <<phase, ready, drain>>
        /\ IF phase = "aborted" THEN Discard(msgs, "abort") ELSE UNCHANGED <<batches, jobs>>
    BY <1>3 DEF Restore
  <2>2. (Visiting' <=> Visiting) /\ drain'.todo = drain.todo /\ (host' = "gone" <=> phase' = "gone")
    BY <1>3, <2>1 DEF Visiting, AwaitInv, Begins
  <2>3. CASE phase = "aborted"
    BY <1>3, <2>1, <2>2, <2>3, DiscardAwaits
  <2>4. CASE phase # "aborted"
    BY <1>3, <2>1, <2>2, <2>4, SameAwaits
  <2>. QED BY <2>3, <2>4
<1>4. CASE PollConsumes
  <2>. DEFINE S == {m \in Messages : ~Takes(m)}
              msgs == Kept(claimed, S)
  <2>1. Restore(msgs) /\ host = "poll"
    BY <1>4 DEF PollConsumes
  <2>2. msgs \in Seq(Messages)
    <3>1. msgs \in Seq(Messages \cap S) /\ ToSet(msgs) = ToSet(claimed) \cap S
      BY KeptMembers DEF TurnTyped
    <3>. HIDE DEF msgs, S
    <3>. QED BY <3>1
  <2>. HIDE DEF msgs
  <2>. QED BY <1>3, <2>1, <2>2
<1>5. CASE PollGivesUp
  BY <1>3, <1>5 DEF PollGivesUp, TurnTyped
<1>6. CASE TryBeginClose
  <2>1. /\ phase = "running" /\ phase' = "closing" /\ Discard(waiting, "exit-close")
        /\ UNCHANGED <<host, ready, drain>>
    BY <1>6 DEF TryBeginClose
  <2>2. (Visiting' <=> Visiting) /\ drain'.todo = drain.todo
    BY <2>1 DEF Visiting
  <2>. QED BY <2>1, <2>2, CloseAwaits
<1>7. CASE \E r \in {"user", "other"} : Abort(r)
  <2>1. /\ phase = "running" /\ phase' = "aborted" /\ Discard(waiting, "abort")
        /\ UNCHANGED <<host, ready, drain>>
    BY <1>7 DEF Abort, AbortEntry
  <2>2. (Visiting' <=> Visiting) /\ drain'.todo = drain.todo
    BY <2>1 DEF Visiting
  <2>. QED BY <2>1, <2>2, CloseAwaits
<1>8. CASE HostEnds
  <2>1. /\ host = "idle" /\ host' = "ended" /\ UNCHANGED <<ready, drain>>
        /\ IF phase = "running" THEN phase' = "closing" /\ Discard(waiting, "abnormal-seal")
           ELSE UNCHANGED <<phase, batches, jobs>>
    BY <1>8 DEF HostEnds
  <2>2. (Visiting' <=> Visiting) /\ drain'.todo = drain.todo
    BY <2>1 DEF Visiting
  <2>3. CASE phase = "running"
    BY <2>1, <2>2, <2>3, CloseAwaits
  <2>4. CASE phase # "running"
    <3>1. (host' = "gone" <=> phase' = "gone") /\ host # "gone"
      BY <2>1, <2>4 DEF AwaitInv, Begins
    <3>. QED BY <2>1, <2>2, <2>4, <3>1, SameAwaits
  <2>. QED BY <2>3, <2>4
<1>. QED BY <1>1, <1>2, <1>4, <1>5, <1>6, <1>7, <1>8, CommitAwaits, ReleaseAwaits DEF Turn

\* A shutdown finds no drain, and starts one that visits no batch yet.
LEMMA ShutdownAwaits ==
  ASSUME IInv, AwaitInv, Shutdown
  PROVE  AwaitInv'
<1>1. /\ drain.at = "no" /\ ready' = ready
      /\ IF phase = "running" THEN AbortEntry("other") ELSE UNCHANGED <<turnV, batches, jobs>>
      /\ drain' = [at |-> "inflight", on |-> Jobs, todo |-> <<>>, upto |-> 0]
  BY DEF Shutdown
<1>2. (Visiting' <=> Visiting) /\ drain'.todo = drain.todo
  BY <1>1 DEF Visiting, AwaitInv, Visits
<1>3. CASE phase = "running"
  <2>1. phase' = "aborted" /\ host' = host /\ Discard(waiting, "abort")
    BY <1>1, <1>3 DEF AbortEntry
  <2>. QED BY <1>1, <1>2, <1>3, <2>1, CloseAwaits
<1>4. CASE phase # "running"
  <2>1. UNCHANGED <<host, phase, batches, jobs>>
    BY <1>1, <1>4 DEF turnV
  <2>2. host' = "gone" <=> phase' = "gone"
    BY <2>1 DEF AwaitInv, Begins
  <2>. QED BY <1>1, <1>2, <2>1, <2>2, SameAwaits DEF IInv
<1>. QED BY <1>3, <1>4

\* Nothing is awaited when the turn begins.
LEMMA AwaitInit == Init => AwaitInv
<1>. SUFFICES ASSUME Init PROVE AwaitInv
  OBVIOUS
<1>1. Lanes = {} /\ Jobs = {} /\ Ready = {} /\ ~Visiting /\ IsInjective(<<>>)
  BY EmptyMembers DEF Init, Lanes, Jobs, Ready, Visiting, IsInjective
<1>. QED BY <1>1 DEF Init, AwaitInv, Waits, Begins, Visits

\* Every step keeps who awaits what.
LEMMA AwaitNext == IInv /\ ReadInv /\ AwaitInv /\ [Next]_vars => AwaitInv'
<1>. SUFFICES ASSUME IInv, ReadInv, AwaitInv, [Next]_vars PROVE AwaitInv'
  OBVIOUS
<1>1. ASSUME UNCHANGED <<host, phase, batches, jobs, ready>>,
             drain' = drain \/ (drain.at = "rest" /\ drain' = [drain EXCEPT !.at = "done"])
      PROVE  AwaitInv'
  <2>1. (Visiting' <=> Visiting) /\ drain'.todo = drain.todo /\ (host' = "gone" <=> phase' = "gone")
    BY <1>1 DEF Visiting, AwaitInv, Begins, IInv, DrainTyped
  <2>. QED BY <1>1, <2>1, SameAwaits DEF IInv
<1>2. CASE Requeue
  <2>1. CASE DrainEnds
    BY <1>1, <2>1 DEF DrainEnds, turnV
  <2>. QED BY <1>2, <2>1, WritesAwait, LaneAwaits, ShutdownAwaits, DrainStartsAwaits,
              DrainContinuesAwaits DEF Requeue
<1>3. CASE Dispatch \/ OtherWake \/ ContinueQueue \/ UNCHANGED vars
  BY <1>1, <1>3 DEF Dispatch, OtherWake, ContinueQueue, vars, turnV
<1>. QED BY <1>2, <1>3, TurnAwaits DEF Next

-----------------------------------------------------------------------------
(* Whom a row waits for.                                                    *)

\* The row of a stopped turn is there behind the pause, or its user has continued.
Parked(k) == k \in resumed \/ (k \in ToSet(rows) /\ paused)

\* What the drain visits after the batch it awaits.
Later == IF drain.todo = <<>> THEN {} ELSE ToSet(Tail(drain.todo))

\* Batch k of a stopped turn has been written to the queue, and is there or may be
\* written there again.
Parkable(k) ==
  /\ StopPauses(k) /\ ~batches[k].pending /\ batches[k].route = "requeue"
  /\ k \in ToSet(rows) \/ (k \in Jobs /\ jobs[k].kind = "requeue") \/ k \in Later

\* A row whose write has still to pause the queue leaves it before a drain only.
Rowed ==
  \A j \in Jobs : jobs[j].enqueued =>
    \/ j \in ToSet(rows) \/ drain.at = "no"
    \/ drain.at = "inflight" /\ j \in drain.on

Parks == (\A k \in Lanes : Parkable(k) => Parked(k)) /\ Rowed

\* Before a turn ends no row waits for its wake.
Wakes ==
  /\ reason # "none" => phase \in {"aborted", "gone"}
  /\ \A k \in Lanes : batches[k].cause = "exit-close" => phase \in {"closing", "gone"} /\ reason = "none"
  /\ phase = "gone" /\ (\E k \in ToSet(rows) : batches[k].cause = "exit-close") => awake \/ paused

\* The controls close at the exit boundary, or where the turn ends otherwise.
Closes == phase = "running" /\ phase' = "closing" /\ reason' = reason

\* What has to be parked after a step, or says that its row is there, had to before
\* it; what a finished turn hands back, it hands back as it closes.
Follows ==
  /\ \A k \in Lanes' : Parkable(k)' => (k \in Lanes /\ Parkable(k)) \/ Parked(k)'
  /\ \A j \in Jobs' : jobs'[j].enqueued => (j \in Jobs /\ jobs[j].enqueued) \/ j \in ToSet(rows)'
  /\ \A k \in Lanes' : batches'[k].cause = "exit-close" =>
       (k \in Lanes /\ batches[k].cause = "exit-close") \/ Closes

\* Nothing is written, and no batch goes to the queue.
LEMMA SameFollows ==
  ASSUME ToSet(rows)' \subseteq ToSet(rows), Later' \subseteq Later,
         \A k \in Lanes :
           /\ batches'[k].route = batches[k].route /\ (StopPauses(k)' => StopPauses(k))
           /\ batches'[k].cause = batches[k].cause
           /\ batches[k].pending => batches'[k].pending,
         \A k \in Lanes' : k \notin Lanes =>
           batches'[k].pending /\ (batches'[k].cause = "exit-close" => Closes),
         \A j \in Jobs' :
           \/ j \in Jobs /\ jobs'[j].kind = jobs[j].kind /\ jobs'[j].enqueued = jobs[j].enqueued
           \/ ~jobs'[j].enqueued /\ (jobs'[j].kind = "teardown" \/ j \notin Lanes)
  PROVE  Follows
<1>1. ASSUME NEW k \in Lanes', Parkable(k)' PROVE k \in Lanes /\ Parkable(k)
  <2>1. k \in Lanes
    BY <1>1 DEF Parkable
  <2>2. StopPauses(k) /\ ~batches[k].pending /\ batches[k].route = "requeue"
    <3>1. StopPauses(k)' /\ ~batches'[k].pending /\ batches'[k].route = "requeue"
      BY <1>1 DEF Parkable
    <3>2. ~batches[k].pending
      BY <2>1, <3>1, Zenon
    <3>. QED BY <2>1, <3>1, <3>2
  <2>3. k \in Jobs' /\ jobs'[k].kind = "requeue" => k \in Jobs /\ jobs[k].kind = "requeue"
    BY <2>1
  <2>. QED BY <1>1, <2>1, <2>2, <2>3 DEF Parkable
<1>2. \A j \in Jobs' : jobs'[j].enqueued => j \in Jobs /\ jobs[j].enqueued
  OBVIOUS
<1>3. \A k \in Lanes' : batches'[k].cause = "exit-close" =>
        (k \in Lanes /\ batches[k].cause = "exit-close") \/ Closes
  OBVIOUS
<1>. QED BY <1>1, <1>2, <1>3 DEF Follows

\* Whoever awaits a batch goes on with its write, or begins it anew: because it is
\* still to be written, or because the drain has it on its list.
LEMMA AwaitFollows ==
  ASSUME Stored, NEW i \in Lanes, NEW b \in Batch, NEW who, b.todo = batches[i].todo,
         b.job = batches[i].job, b.pending = batches[i].pending, b.cause = batches[i].cause,
         b.route = batches[i].route \/ batches[i].pending,
         b.job # 0 \/ batches[i].pending \/ i \in Later,
         Await(i, b, who), UNCHANGED <<reason, rows>>,
         \A k \in Lanes : k \in Later' => k \in Later \/ batches[k].pending
  PROVE  Follows
<1>1. /\ Lanes' = Lanes /\ Jobs \subseteq Jobs'
      /\ \A k \in Lanes : k # i => batches'[k] = batches[k]
      /\ batches'[i] = IF batches[i].job # 0 THEN b ELSE [b EXCEPT !.job = i]
      /\ \A j \in Jobs : jobs'[j].kind = jobs[j].kind /\ jobs'[j].enqueued = jobs[j].enqueued
      /\ \A j \in Jobs' \ Jobs : j = i /\ batches[i].job = 0 /\ ~jobs'[j].enqueued
  BY AwaitBooks
<1>2. ToSet(rows)' = ToSet(rows)
  OBVIOUS
<1>3. \A j \in Jobs' : jobs'[j].enqueued => j \in Jobs /\ jobs[j].enqueued
  BY <1>1
<1>4. ASSUME NEW k \in Lanes, Parkable(k)' PROVE Parkable(k)
  <2>1. CASE k # i
    BY <1>1, <1>2, <1>4, <2>1 DEF Parkable, StopPauses
  <2>2. CASE k = i
    <3>1. /\ batches'[i].pending = b.pending /\ batches'[i].route = b.route
          /\ batches'[i].cause = b.cause
      BY <1>1 DEF Batch
    <3>2. ~batches[i].pending
      BY <1>4, <2>2, <3>1 DEF Parkable
    <3>3. StopPauses(i) /\ batches[i].route = "requeue"
      BY <1>4, <2>2, <3>1, <3>2 DEF Parkable, StopPauses
    <3>4. i \in Jobs' /\ jobs'[i].kind = "requeue" => (i \in Jobs /\ jobs[i].kind = "requeue") \/ i \in Later
      BY <1>1, <3>2
    <3>. QED BY <1>2, <1>4, <2>2, <3>2, <3>3, <3>4 DEF Parkable
  <2>. QED BY <2>1, <2>2
<1>5. \A k \in Lanes : batches'[k].cause = batches[k].cause
  BY <1>1 DEF Batch
<1>. QED BY <1>1, <1>3, <1>4, <1>5 DEF Follows

\* A write that is over: it has parked its batch, or left it to the drain alone.
LEMMA SettleFollows ==
  ASSUME IInv, ReadInv, AwaitInv, NEW i \in Jobs, NEW ok \in BOOLEAN, NEW written,
         Settle(i, ok, written), reason' = reason,
         \A k \in ToSet(rows)' : k \in ToSet(rows) \/ (k = i /\ ~StopPauses(i)),
         jobs[i].kind = "requeue" /\ StopPauses(i) /\ ok =>
           Parked(i)' \/ (i \notin ToSet(rows) /\ Later = {})
  PROVE  Follows
<1>. USE DEF IInv, ReadInv, AwaitInv
<1>1. /\ Lanes' = Lanes /\ Jobs' = Jobs \ {i} /\ \A j \in Jobs' : jobs'[j] = jobs[j]
      /\ \A k \in Lanes : batches[k].job # i => batches'[k] = batches[k]
      /\ \A k \in Lanes : batches[k].job = i =>
           /\ batches'[k].cause = batches[k].cause /\ batches'[k].route = batches[k].route
           /\ batches[k].pending /\ ~ok /\ batches'[k].todo # <<>> => batches'[k].pending
           /\ jobs[i].kind = "requeue" => batches'[k].todo = batches[k].todo
  BY SettleAll
<1>2. drain'.todo = drain.todo /\ Later' = Later
  <2>1. drain'.todo = drain.todo
    BY SettleWaits
  <2>. QED BY <2>1 DEF Later, ToSet
<1>3. i \in Lanes /\ batches[i].job = i /\ i \in Batches
  BY DEF Stored, Books, Owned, Jobs
<1>4. \A j \in Jobs' : jobs'[j].enqueued => j \in Jobs /\ jobs[j].enqueued
  BY <1>1
<1>5. ASSUME NEW k \in Lanes, Parkable(k)' PROVE Parkable(k) \/ Parked(k)'
  <2>1. CASE batches[k].job # i
    <3>1. k # i /\ batches'[k] = batches[k]
      BY <1>1, <1>3, <2>1
    <3>. QED BY <1>1, <1>2, <1>5, <3>1 DEF Parkable, StopPauses
  <2>2. CASE batches[k].job = i
    <3>1. StopPauses(k) /\ batches[k].route = "requeue" /\ batches[k].cause = "abort"
      BY <1>1, <1>5, <2>2 DEF Parkable, StopPauses
    <3>2. k \in ToSet(rows)' => k \in ToSet(rows)
      BY <3>1
    <3>3. k \notin Jobs'
      BY <1>1, <2>2 DEF Stored, Books, Owned
    <3>4. CASE jobs[i].kind = "teardown"
      <4>1. Writing(k)
        BY <1>3, <2>2, <3>4 DEF Writing
      <4>2. HeadOf(k)
        BY <3>1, <4>1 DEF Visits
      <4>3. k \notin ToSet(rows)
        BY <4>1 DEF Passes, Through
      <4>4. k \notin Later
        <5>1. drain.todo \in Seq(Lanes) /\ drain.todo # <<>> /\ IsInjective(drain.todo) /\ drain.todo[1] = k
          BY <4>2 DEF HeadOf, Visiting, DrainTyped, Visits
        <5>2. drain.todo[1] \notin ToSet(Tail(drain.todo))
          BY <5>1, TailOnce
        <5>. QED BY <5>1, <5>2 DEF Later
      <4>. QED BY <1>2, <1>5, <3>2, <3>3, <4>3, <4>4 DEF Parkable
    <3>5. CASE jobs[i].kind = "requeue"
      <4>1. k = i
        BY <1>3, <2>2, <3>5 DEF Stored, Books, Covered
      <4>2. CASE batches[k].pending
        <5>1. batches'[k].todo # <<>>
          BY <1>1, <2>2, <3>5, <4>2 DEF Visits
        <5>2. ok
          BY <1>1, <1>5, <2>2, <4>2, <5>1 DEF Parkable
        <5>3. Parked(k)' \/ (k \notin ToSet(rows) /\ Later = {})
          BY <3>1, <3>5, <4>1, <5>2
        <5>. QED BY <1>2, <1>5, <3>2, <3>3, <5>3 DEF Parkable
      <4>3. CASE ~batches[k].pending
        BY <3>1, <3>5, <4>1, <4>3 DEF Parkable
      <4>. QED BY <4>2, <4>3
    <3>6. jobs[i].kind \in {"teardown", "requeue"}
      BY DEF Stored, Books, JobsTyped, Write
    <3>. QED BY <3>4, <3>5, <3>6
  <2>. QED BY <2>1, <2>2
<1>6. \A k \in Lanes : batches'[k].cause = batches[k].cause
  BY <1>1
<1>. QED BY <1>1, <1>4, <1>5, <1>6 DEF Follows

\* Steps that leave the books alone.
LEMMA IdleFollows ==
  ASSUME ToSet(rows)' \subseteq ToSet(rows), drain'.todo = drain.todo,
         UNCHANGED <<reason, batches, jobs>>
  PROVE  Follows
<1>1. Lanes' = Lanes /\ Jobs' = Jobs /\ Later' \subseteq Later
  BY DEF Lanes, Jobs, Later, ToSet
<1>2. \A k \in Lanes : StopPauses(k)' => StopPauses(k)
  BY DEF StopPauses
<1>. QED BY <1>1, <1>2, SameFollows

\* What is handed over is tracked, and a turn that runs was not stopped before.
LEMMA DiscardFollows ==
  ASSUME Stored, ReadInv, NEW msgs \in Seq(Messages),
         NEW cause \in {"abort", "abnormal-seal", "exit-close"}, Discard(msgs, cause),
         rows' = rows, drain'.todo = drain.todo, reason' = reason \/ phase = "running",
         cause = "exit-close" => Closes
  PROVE  Follows
<1>1. ToSet(rows)' \subseteq ToSet(rows) /\ Later' \subseteq Later
  BY DEF Later, ToSet
<1>2. ASSUME NEW k \in Lanes, batches'[k] = batches[k], StopPauses(k)' PROVE StopPauses(k)
  BY <1>2 DEF StopPauses, ReadInv, Lasts
<1>3. CASE UNCHANGED <<batches, jobs>>
  <2>1. Lanes' = Lanes /\ Jobs' = Jobs
    BY <1>3 DEF Lanes, Jobs
  <2>2. \A k \in Lanes : StopPauses(k)' => StopPauses(k)
    BY <1>2, <1>3
  <2>. QED BY <1>1, <1>3, <2>1, <2>2, SameFollows
<1>4. ASSUME NEW n \in Nat \ Lanes, Lanes' = Lanes \cup {n}, Jobs' \subseteq Jobs \cup {n},
             \A k \in Lanes : batches'[k] = batches[k], \A j \in Jobs : jobs'[j] = jobs[j],
             batches'[n].pending, batches'[n].cause = cause, n \in Jobs' => ~jobs'[n].enqueued
      PROVE  Follows
  <2>1. \A k \in Lanes :
          /\ batches'[k].route = batches[k].route /\ (StopPauses(k)' => StopPauses(k))
          /\ batches'[k].cause = batches[k].cause
          /\ batches[k].pending => batches'[k].pending
    BY <1>2, <1>4
  <2>2. \A k \in Lanes' : k \notin Lanes =>
          batches'[k].pending /\ (batches'[k].cause = "exit-close" => Closes)
    BY <1>4
  <2>3. \A j \in Jobs' :
          \/ j \in Jobs /\ jobs'[j].kind = jobs[j].kind /\ jobs'[j].enqueued = jobs[j].enqueued
          \/ ~jobs'[j].enqueued /\ (jobs'[j].kind = "teardown" \/ j \notin Lanes)
    BY <1>4
  <2>. QED BY <1>1, <2>1, <2>2, <2>3, SameFollows
<1>5. \/ UNCHANGED <<batches, jobs>>
      \/ \E n \in Nat \ Lanes :
           /\ n # 0 /\ Lanes' = Lanes \cup {n} /\ Jobs' \subseteq Jobs \cup {n}
           /\ \A k \in Lanes : batches'[k] = batches[k] /\ Queued(k)' = Queued(k)
           /\ \A j \in Jobs : j \in Jobs' /\ jobs'[j] = jobs[j]
           /\ Queued(n)' = ToSet(msgs) \cap Users
           /\ batches'[n].cause = cause
           /\ batches'[n].lane = "first" \/ batches'[n].route = "requeue" => cause = "exit-close"
           /\ batches'[n].lane = "first" => batches'[n].job # 0
           /\ n \in Jobs' => batches'[n].route = "requeue" /\ jobs'[n].kind = "requeue"
           /\ n = Len(batches) + 1 /\ batches'[n].pending /\ batches'[n].todo # <<>>
           /\ batches'[n].lane \in {"first", "release"}
           /\ cause = "exit-close" =>
                /\ batches'[n].route = "requeue" /\ batches'[n].job = n
                /\ n \in Batches => n \in Jobs'
           /\ cause # "exit-close" => batches'[n].job = 0
           /\ n \in Jobs' => jobs'[n].waiters = <<>> /\ ~jobs'[n].enqueued
  BY DiscardBooks
<1>. QED BY <1>3, <1>4, <1>5

\* The steps of the turn.
LEMMA TurnFollows ==
  ASSUME IInv, ReadInv, Turn
  PROVE  Follows
<1>. USE DEF IInv
<1>0. rows' = rows => ToSet(rows)' \subseteq ToSet(rows)
  BY DEF ToSet
<1>1. ASSUME UNCHANGED <<reason, batches, jobs, drain, rows>> PROVE Follows
  <2>1. drain'.todo = drain.todo
    BY <1>1
  <2>. QED BY <1>0, <1>1, <2>1, IdleFollows
<1>2. CASE (\E m \in Messages : Steer(m)) \/ Poll \/ Release
  BY <1>1, <1>2 DEF Steer, Poll, Release, queueV
<1>3. ASSUME NEW msgs \in Seq(Messages), NEW cause \in {"abort", "abnormal-seal", "exit-close"},
             Discard(msgs, cause), UNCHANGED <<drain, rows>>, reason' = reason \/ phase = "running",
             cause = "exit-close" => Closes
      PROVE  Follows
  <2>1. drain'.todo = drain.todo
    BY <1>3
  <2>. QED BY <1>3, <2>1, DiscardFollows
<1>4. ASSUME NEW msgs \in Seq(Messages), Restore(msgs) PROVE Follows
  <2>1. /\ UNCHANGED <<reason, drain, rows>>
        /\ IF phase = "aborted" THEN Discard(msgs, "abort") ELSE UNCHANGED <<batches, jobs>>
    BY <1>4 DEF Restore, queueV
  <2>2. CASE phase = "aborted"
    BY <1>3, <2>1, <2>2
  <2>3. CASE phase # "aborted"
    BY <1>1, <2>1, <2>3
  <2>. QED BY <2>2, <2>3
<1>5. CASE PollConsumes
  <2>. DEFINE S == {m \in Messages : ~Takes(m)}
              msgs == Kept(claimed, S)
  <2>1. Restore(msgs)
    BY <1>5 DEF PollConsumes
  <2>2. msgs \in Seq(Messages)
    <3>1. msgs \in Seq(Messages \cap S) /\ ToSet(msgs) = ToSet(claimed) \cap S
      BY KeptMembers DEF TurnTyped
    <3>. HIDE DEF msgs, S
    <3>. QED BY <3>1
  <2>. HIDE DEF msgs
  <2>. QED BY <1>4, <2>1, <2>2
<1>6. CASE PollGivesUp
  BY <1>4, <1>6 DEF PollGivesUp, TurnTyped
<1>7. waiting \in Seq(Messages)
  BY DEF TurnTyped
<1>8. CASE TryBeginClose
  <2>1. Discard(waiting, "exit-close") /\ UNCHANGED <<reason, drain, rows>> /\ Closes
    BY <1>8 DEF TryBeginClose, queueV, Closes
  <2>. QED BY <1>3, <1>7, <2>1
<1>9. CASE \E r \in {"user", "other"} : Abort(r)
  <2>1. phase = "running" /\ Discard(waiting, "abort") /\ UNCHANGED <<drain, rows>>
    BY <1>9 DEF Abort, AbortEntry, queueV
  <2>. QED BY <1>3, <1>7, <2>1
<1>10. CASE HostEnds
  <2>1. /\ UNCHANGED <<reason, drain, rows>>
        /\ IF phase = "running" THEN Discard(waiting, "abnormal-seal") ELSE UNCHANGED <<batches, jobs>>
    BY <1>10 DEF HostEnds, queueV
  <2>2. CASE phase = "running"
    BY <1>3, <1>7, <2>1, <2>2
  <2>3. CASE phase # "running"
    BY <1>1, <2>1, <2>3
  <2>. QED BY <2>2, <2>3
<1>11. CASE CommitBeforeRelease
  <2>1. UNCHANGED <<reason, drain, rows>>
    <3>. DEFINE free == {i \in Lanes : batches[i].pending /\ batches[i].route = "teardown" /\ batches[i].job = 0}
                first == CHOOSE i \in free : \A k \in free : i <= k
    <3>1. /\ IF free = {} THEN UNCHANGED <<batches, jobs>>
             ELSE /\ jobs' = [jobs EXCEPT ![first] =
                       [kind |-> "teardown", waiters |-> <<>>, enqueued |-> FALSE, todo |-> Merged(free)]]
                  /\ batches' = [i \in Lanes |->
                       IF i \in free THEN [batches[i] EXCEPT !.job = first] ELSE batches[i]]
          /\ UNCHANGED <<reason, drain, rows>>
      BY <1>11 DEF CommitBeforeRelease, queueV
    <3>. HIDE DEF free, first
    <3>. QED BY <3>1
  <2>2. PICK F \in SUBSET Lanes, f \in Nat \ Jobs :
           /\ Lanes' = Lanes /\ Jobs' \subseteq Jobs \cup {f}
           /\ \A k \in F : /\ batches[k].job = 0 /\ batches[k].pending /\ batches[k].route = "teardown"
                           /\ batches'[k] = [batches[k] EXCEPT !.job = f]
           /\ \A k \in Lanes : k \notin F => batches'[k] = batches[k]
           /\ \A j \in Jobs : j \in Jobs' /\ jobs'[j] = jobs[j]
           /\ f \in Jobs' => /\ jobs'[f].kind = "teardown" /\ jobs'[f].waiters = <<>>
                             /\ ~jobs'[f].enqueued
    BY <1>11, CommitBooks
  <2>3. ASSUME NEW k \in Lanes
        PROVE  /\ batches'[k].route = batches[k].route /\ (StopPauses(k)' => StopPauses(k))
               /\ batches'[k].cause = batches[k].cause
               /\ batches[k].pending => batches'[k].pending
    <3>1. batches[k] \in Batch
      BY DEF Stored, Books, BatchesTyped, Lanes
    <3>2. CASE k \in F
      <4>1. batches'[k] = [batches[k] EXCEPT !.job = f]
        BY <2>2, <3>2
      <4>2. /\ batches'[k].route = batches[k].route /\ batches'[k].pending = batches[k].pending
            /\ batches'[k].cause = batches[k].cause
        BY <3>1, <4>1 DEF Batch
      <4>. QED BY <2>1, <4>2 DEF StopPauses
    <3>3. CASE k \notin F
      <4>1. batches'[k] = batches[k]
        BY <2>2, <3>3
      <4>. QED BY <2>1, <4>1 DEF StopPauses
    <3>. QED BY <3>2, <3>3
  <2>4. \A j \in Jobs' :
          \/ j \in Jobs /\ jobs'[j].kind = jobs[j].kind /\ jobs'[j].enqueued = jobs[j].enqueued
          \/ ~jobs'[j].enqueued /\ (jobs'[j].kind = "teardown" \/ j \notin Lanes)
    BY <2>2
  <2>5. Later' \subseteq Later
    BY <2>1 DEF Later
  <2>6. \A k \in Lanes' : k \in Lanes
    BY <2>2
  <2>. QED BY <1>0, <2>1, <2>3, <2>4, <2>5, <2>6, SameFollows
<1>. QED BY <1>2, <1>5, <1>6, <1>8, <1>9, <1>10, <1>11 DEF Turn

\* Writes that go on or end.
LEMMA WritesFollow ==
  ASSUME IInv, ReadInv, AwaitInv, Parks, NEW i \in Batches,
         Land(i) \/ WriteFails(i) \/ Enqueue(i) \/ Pause(i)
  PROVE  Follows
<1>. USE DEF IInv
<1>1. reason' = reason
  BY DEF Land, WriteFails, Enqueue, Pause, turnV
<1>2. i \in Jobs
  <2>1. jobs[i] # NoJob \/ jobs[i].kind \in {"teardown", "requeue"}
    BY DEF Land, WriteFails, Enqueue, Pause
  <2>. QED BY <2>1 DEF Jobs, NoJob
<1>3. jobs[i] \in Write /\ i \in Lanes
  BY <1>2 DEF Stored, Books, JobsTyped, Owned
<1>4. CASE Land(i)
  <2>1. rows' = rows /\ jobs[i].kind = "teardown" /\ ToSet(rows)' \subseteq ToSet(rows)
    BY <1>4 DEF Land, queueV, ToSet
  <2>2. CASE Len(jobs[i].todo) > 1
    <3>1. jobs' = [jobs EXCEPT ![i].todo = Tail(@)] /\ UNCHANGED <<batches, drain>>
      BY <1>4, <2>2 DEF Land
    <3>2. /\ Lanes' = Lanes /\ Jobs' = Jobs /\ Later' = Later
          /\ \A j \in Jobs : jobs'[j].kind = jobs[j].kind /\ jobs'[j].enqueued = jobs[j].enqueued
      <4>1. \A j \in Batches : j # i => jobs'[j] = jobs[j]
        BY <3>1 DEF Stored, Books, JobsTyped
      <4>2. jobs'[i].kind = jobs[i].kind /\ jobs'[i].enqueued = jobs[i].enqueued
        BY <1>3, <3>1 DEF Stored, Books, JobsTyped, Write
      <4>3. Jobs' = Jobs
        BY <1>2, <2>1, <4>1, <4>2 DEF Jobs, NoJob
      <4>. QED BY <3>1, <4>1, <4>2, <4>3 DEF Lanes, Later, Jobs
    <3>3. \A k \in Lanes : StopPauses(k)' => StopPauses(k)
      BY <1>1, <3>1 DEF StopPauses
    <3>. QED BY <2>1, <3>1, <3>2, <3>3, SameFollows
  <2>3. CASE ~(Len(jobs[i].todo) > 1)
    <3>1. PICK written : written = ToSet(fallen) \cup ToSet(jobs[i].todo)
      OBVIOUS
    <3>2. Settle(i, TRUE, written)
      BY <1>4, <2>3, <3>1 DEF Land
    <3>3. \A k \in ToSet(rows)' : k \in ToSet(rows)
      BY <2>1
    <3>. QED BY <1>1, <1>2, <2>1, <3>2, <3>3, SettleFollows
  <2>. QED BY <2>2, <2>3
<1>5. CASE WriteFails(i)
  <2>1. PICK written : written = ToSet(fallen)
    OBVIOUS
  <2>2. Settle(i, FALSE, written) /\ \A k \in ToSet(rows)' : k \in ToSet(rows)
    BY <1>5, <2>1 DEF WriteFails, queueV, ToSet
  <2>. QED BY <1>1, <1>2, <2>2, SettleFollows
<1>6. CASE Enqueue(i)
  <2>1. /\ ToSet(rows)' \subseteq ToSet(rows) \cup {i} /\ i \in ToSet(rows)'
    BY <1>3, <1>6, RowInFront DEF Enqueue, ReadInv, Passes, Stored, QueueTyped
  <2>2. CASE ~StopPauses(i)
    <3>1. PICK written : written = {}
      OBVIOUS
    <3>2. Settle(i, TRUE, written)
      BY <1>6, <2>2, <3>1 DEF Enqueue
    <3>. QED BY <1>1, <1>2, <2>1, <2>2, <3>2, SettleFollows
  <2>3. CASE StopPauses(i)
    <3>1. jobs' = [jobs EXCEPT ![i].enqueued = TRUE] /\ UNCHANGED <<batches, drain>> /\ jobs[i].kind = "requeue"
      BY <1>6, <2>3 DEF Enqueue
    <3>2. Lanes' = Lanes /\ Later' = Later
      BY <3>1 DEF Lanes, Later
    <3>3. \A j \in Batches : j # i => jobs'[j] = jobs[j]
      BY <3>1 DEF Stored, Books, JobsTyped
    <3>4. \A j \in Jobs' : jobs'[j].enqueued => (j \in Jobs /\ jobs[j].enqueued) \/ j \in ToSet(rows)'
      BY <2>1, <3>3 DEF Jobs
    <3>5. ASSUME NEW k \in Lanes, Parkable(k)' PROVE Parkable(k)
      <4>1. StopPauses(k) /\ ~batches[k].pending /\ batches[k].route = "requeue"
        BY <1>1, <3>1, <3>5 DEF Parkable, StopPauses
      <4>2. CASE k = i
        BY <1>2, <3>1, <4>1, <4>2 DEF Parkable
      <4>3. CASE k # i
        <5>1. k \in Jobs' /\ jobs'[k].kind = "requeue" => k \in Jobs /\ jobs[k].kind = "requeue"
          BY <3>3, <4>3 DEF Jobs
        <5>2. k \in ToSet(rows)' => k \in ToSet(rows)
          BY <2>1, <4>3
        <5>. QED BY <3>2, <3>5, <4>1, <5>1, <5>2 DEF Parkable
      <4>. QED BY <4>2, <4>3
    <3>. QED BY <3>1, <3>2, <3>4, <3>5 DEF Follows
  <2>. QED BY <2>2, <2>3
<1>7. CASE Pause(i)
  <2>1. PICK written : written = {}
    OBVIOUS
  <2>2. /\ Settle(i, TRUE, written) /\ rows' = rows /\ paused' = (paused \/ rows # <<>>)
        /\ jobs[i].enqueued
    BY <1>7, <2>1 DEF Pause
  <2>3. ToSet(rows)' = ToSet(rows)
    BY <2>2
  <2>4. Parked(i)' \/ (i \notin ToSet(rows) /\ Later = {})
    <3>1. CASE i \in ToSet(rows)
      <4>1. rows # <<>>
        BY <3>1, EmptyMembers
      <4>2. paused'
        BY <2>2, <4>1
      <4>. QED BY <2>3, <3>1, <4>2 DEF Parked
    <3>2. CASE i \notin ToSet(rows)
      <4>1. drain.at = "no" \/ drain.at = "inflight"
        BY <1>2, <2>2, <3>2 DEF Parks, Rowed
      <4>2. drain.todo = <<>>
        BY <4>1 DEF AwaitInv, Visits, Visiting
      <4>. QED BY <3>2, <4>2 DEF Later
    <3>. QED BY <3>1, <3>2
  <2>5. \A k \in ToSet(rows)' : k \in ToSet(rows)
    BY <2>3
  <2>. QED BY <1>1, <1>2, <2>2, <2>4, <2>5, SettleFollows
<1>. QED BY <1>4, <1>5, <1>6, <1>7

\* A lane awaits anew only what is still to be written.
LEMMA LaneFollows ==
  ASSUME IInv, ReadInv, NEW i \in Batches, Lane(i)
  PROVE  Follows
<1>. USE DEF IInv, Stored, Books
<1>. DEFINE b == batches[i]
            next == [b EXCEPT !.lane = After(b), !.route = IF After(b) = "last" THEN "requeue" ELSE @]
<1>1. /\ ready # <<>> /\ Head(ready) = i
      /\ IF next.lane # "end" /\ (b.pending \/ next.lane = "joined")
         THEN Await(i, next, i)
         ELSE batches' = [batches EXCEPT ![i].lane = "end"] /\ UNCHANGED jobs
      /\ UNCHANGED <<reason, rows, drain>>
  BY DEF Lane, turnV, queueV
<1>2. i \in Lanes /\ batches[i] \in Batch
  <2>1. ready[1] \in 0..Len(batches) /\ Head(ready) = ready[1]
    BY <1>1, SplitMembers DEF DrainTyped
  <2>2. i # 0 /\ Lanes = 1..Len(batches) /\ Len(batches) \in Nat
    BY DEF Batches, BatchesTyped, Lanes
  <2>. QED BY <1>1, <2>1, <2>2 DEF BatchesTyped
<1>3. /\ next \in Batch /\ next.todo = b.todo /\ next.job = b.job /\ next.pending = b.pending
      /\ next.cause = b.cause /\ next.lane = After(b)
      /\ next.route = IF After(b) = "last" THEN "requeue" ELSE b.route
  <2>1. After(b) \in {"joined", "again", "try1", "try2", "last", "end"}
    BY DEF After
  <2>. QED BY <1>2, <2>1 DEF Batch
<1>4. After(b) = "joined" => b.job # 0
  BY <1>2 DEF After, ReadInv, Lasts
<1>5. Later' = Later
  BY <1>1 DEF Later
<1>. HIDE DEF next
<1>6. CASE Await(i, next, i) /\ (b.pending \/ next.lane = "joined")
  <2>1. next.route = batches[i].route \/ batches[i].pending
    BY <1>3, <1>6
  <2>2. next.job # 0 \/ batches[i].pending
    BY <1>3, <1>4, <1>6
  <2>. QED BY <1>1, <1>2, <1>3, <1>5, <1>6, <2>1, <2>2, AwaitFollows
<1>7. CASE batches' = [batches EXCEPT ![i].lane = "end"] /\ UNCHANGED jobs
  <2>1. Lanes' = Lanes /\ Jobs' = Jobs /\ ToSet(rows)' \subseteq ToSet(rows)
    BY <1>1, <1>7 DEF Lanes, Jobs, ToSet
  <2>2. \A k \in Lanes : /\ batches'[k].route = batches[k].route /\ batches'[k].cause = batches[k].cause
                         /\ batches'[k].pending = batches[k].pending
    BY <1>2, <1>7 DEF BatchesTyped, Batch, Lanes
  <2>3. \A k \in Lanes : StopPauses(k)' => StopPauses(k)
    BY <1>1, <2>2 DEF StopPauses
  <2>4. \A k \in Lanes : /\ batches'[k].route = batches[k].route /\ (StopPauses(k)' => StopPauses(k))
                         /\ batches'[k].cause = batches[k].cause
                         /\ batches[k].pending => batches'[k].pending
    BY <2>2, <2>3
  <2>. QED BY <1>5, <1>7, <2>1, <2>4, SameFollows
<1>. QED BY <1>1, <1>6, <1>7

\* The drain writes what is tracked, and what it had on its list.
LEMMA VisitFollows ==
  ASSUME Stored, NEW list \in Seq(Lanes), NEW upto, Visit(list, upto), UNCHANGED <<reason, rows>>,
         \A k \in ToSet(list) : k \in Later \/ batches[k].pending
  PROVE  Follows
<1>1. CASE list = <<>>
  <2>1. /\ UNCHANGED <<batches, jobs>>
        /\ drain' = [at |-> "rest", on |-> Jobs, todo |-> <<>>, upto |-> upto]
    BY <1>1 DEF Visit
  <2>2. Lanes' = Lanes /\ Jobs' = Jobs /\ Later' = {} /\ ToSet(rows)' \subseteq ToSet(rows)
    BY <2>1 DEF Lanes, Jobs, Later, ToSet
  <2>3. \A k \in Lanes : StopPauses(k)' => StopPauses(k)
    BY <2>1 DEF StopPauses
  <2>. QED BY <2>1, <2>2, <2>3, SameFollows
<1>2. CASE list # <<>>
  <2>1. /\ drain' = [at |-> "first", on |-> {}, todo |-> list, upto |-> upto]
        /\ Await(list[1], batches[list[1]], Drain)
    BY <1>2 DEF Visit
  <2>2. PICK i \in Lanes : i = list[1]
    BY <1>2
  <2>3. PICK b \in Batch : b = batches[i]
    BY DEF Stored, Books, BatchesTyped, Lanes
  <2>4. Later' = ToSet(Tail(list)) /\ ToSet(list) = {i} \cup ToSet(Tail(list))
    <3>1. drain'.todo = list
      BY <2>1
    <3>2. Later' = ToSet(Tail(list))
      BY <1>2, <3>1 DEF Later, ToSet
    <3>. QED BY <1>2, <2>2, <3>2, SplitMembers
  <2>5. Await(i, b, Drain)
    BY <2>1, <2>2, <2>3
  <2>6. i \in Later \/ batches[i].pending
    BY <2>4
  <2>7. \A k \in Lanes : k \in Later' => k \in Later \/ batches[k].pending
    BY <2>4
  <2>. QED BY <2>3, <2>5, <2>6, <2>7, AwaitFollows
<1>. QED BY <1>1, <1>2

\* The drain's steps.
LEMMA DrainFollows ==
  ASSUME IInv, ReadInv, AwaitInv, DrainStarts \/ DrainContinues \/ DrainEnds
  PROVE  Follows
<1>. USE DEF IInv
<1>0. UNCHANGED <<reason, rows>>
  BY DEF DrainStarts, DrainContinues, DrainEnds, turnV, queueV
<1>1. CASE DrainStarts
  <2>1. \A k \in Lanes : batches[k].pending => batches[k].todo # <<>>
    BY DEF AwaitInv, Visits
  <2>2. PICK list \in Seq(Lanes) :
          /\ Visit(list, Len(batches)) /\ IsInjective(list)
          /\ \A k \in Lanes : batches[k].pending <=> k \in ToSet(list)
    BY <1>1, <2>1, DrainList DEF ReadInv
  <2>3. \A k \in ToSet(list) : batches[k].pending
    <3>1. \A k \in ToSet(list) : k \in Lanes
      BY DEF ToSet
    <3>. QED BY <2>2, <3>1, Zenon
  <2>. QED BY <1>0, <2>2, <2>3, VisitFollows
<1>2. CASE DrainContinues
  <2>. DEFINE c == [batches[drain.todo[1]] EXCEPT !.route = "requeue"]
  <2>1. /\ drain.at \in {"first", "second"}
        /\ IF drain.at = "first" /\ batches[drain.todo[1]].route = "teardown" /\ batches[drain.todo[1]].pending
           THEN Await(drain.todo[1], c, Drain) /\ drain' = [drain EXCEPT !.at = "second"]
           ELSE Visit(Tail(drain.todo), drain.upto)
    BY <1>2 DEF DrainContinues
  <2>2. drain.todo \in Seq(Lanes) /\ drain.todo # <<>>
    BY <2>1 DEF DrainTyped
  <2>3. PICK i \in Lanes : i = drain.todo[1]
    BY <2>2
  <2>4. CASE drain.at = "first" /\ batches[i].route = "teardown" /\ batches[i].pending
    <3>1. Await(i, c, Drain) /\ drain' = [drain EXCEPT !.at = "second"]
      BY <2>1, <2>3, <2>4
    <3>2. batches[i] \in Batch
      BY DEF Stored, Books, BatchesTyped, Lanes
    <3>3. /\ c \in Batch /\ c.todo = batches[i].todo /\ c.job = batches[i].job
          /\ c.pending = batches[i].pending /\ c.cause = batches[i].cause
      BY <2>3, <3>2 DEF Batch
    <3>4. Later' = Later
      <4>1. drain'.todo = drain.todo
        BY <3>1 DEF DrainTyped
      <4>. QED BY <4>1 DEF Later, ToSet
    <3>. HIDE DEF c
    <3>. QED BY <1>0, <2>4, <3>1, <3>3, <3>4, AwaitFollows
  <2>5. CASE ~(drain.at = "first" /\ batches[i].route = "teardown" /\ batches[i].pending)
    <3>1. Visit(Tail(drain.todo), drain.upto)
      BY <2>1, <2>3, <2>5
    <3>2. Tail(drain.todo) \in Seq(Lanes) /\ ToSet(Tail(drain.todo)) = Later
      BY <2>2 DEF Later
    <3>. QED BY <1>0, <3>1, <3>2, VisitFollows
  <2>. QED BY <2>4, <2>5
<1>3. CASE DrainEnds
  <2>1. UNCHANGED <<batches, jobs>> /\ drain'.todo = drain.todo /\ ToSet(rows)' \subseteq ToSet(rows)
    BY <1>0, <1>3 DEF DrainEnds, DrainTyped, ToSet
  <2>. QED BY <1>0, <2>1, IdleFollows
<1>. QED BY <1>1, <1>2, <1>3

\* Every step keeps in view what has to be parked.
LEMMA FollowsNext == IInv /\ ReadInv /\ AwaitInv /\ Parks /\ [Next]_vars => Follows
<1>. SUFFICES ASSUME IInv, ReadInv, AwaitInv, Parks, [Next]_vars PROVE Follows
  OBVIOUS
<1>. USE DEF IInv
<1>1. CASE Shutdown
  <2>1. /\ drain.at = "no" /\ rows' = rows
        /\ IF phase = "running" THEN AbortEntry("other") ELSE UNCHANGED <<turnV, batches, jobs>>
        /\ drain' = [at |-> "inflight", on |-> Jobs, todo |-> <<>>, upto |-> 0]
    BY <1>1 DEF Shutdown, queueV
  <2>2. drain'.todo = drain.todo /\ ToSet(rows)' \subseteq ToSet(rows)
    BY <2>1 DEF ReadInv, Lasts, ToSet
  <2>3. CASE phase = "running"
    <3>1. Discard(waiting, "abort") /\ waiting \in Seq(Messages)
      BY <2>1, <2>3 DEF AbortEntry, TurnTyped
    <3>. QED BY <2>1, <2>2, <2>3, <3>1, DiscardFollows
  <2>4. CASE phase # "running"
    <3>1. UNCHANGED <<reason, batches, jobs>>
      BY <2>1, <2>4 DEF turnV
    <3>. QED BY <2>2, <3>1, IdleFollows
  <2>. QED BY <2>3, <2>4
<1>2. CASE Dispatch \/ OtherWake \/ ContinueQueue \/ UNCHANGED vars
  <2>1. UNCHANGED <<reason, batches, jobs, drain>>
    BY <1>2 DEF Dispatch, OtherWake, ContinueQueue, vars, turnV
  <2>2. rows' = rows \/ (rows # <<>> /\ rows' = Tail(rows))
    BY <1>2 DEF Dispatch, OtherWake, ContinueQueue, vars, queueV
  <2>3. ToSet(rows)' \subseteq ToSet(rows)
    <3>1. CASE rows' = rows
      BY <3>1 DEF ToSet
    <3>2. CASE rows # <<>> /\ rows' = Tail(rows)
      <4>1. ToSet(rows) = {rows[1]} \cup ToSet(Tail(rows))
        BY <3>2, SplitMembers DEF Stored, QueueTyped
      <4>2. ToSet(rows)' = ToSet(Tail(rows))
        BY <3>2 DEF ToSet
      <4>. QED BY <4>1, <4>2
    <3>. QED BY <2>2, <3>1, <3>2
  <2>4. drain'.todo = drain.todo
    BY <2>1
  <2>. QED BY <2>1, <2>3, <2>4, IdleFollows
<1>. QED BY <1>1, <1>2, TurnFollows, WritesFollow, LaneFollows, DrainFollows DEF Next, Requeue

-----------------------------------------------------------------------------
\* Rows stay, but for those that a wake takes before a drain; what is parked stays so.
LEMMA RowsStay == IInv /\ ReadInv /\ [Next]_vars =>
    /\ ToSet(rows) \subseteq ToSet(rows)' \/ (drain.at = "no" /\ drain' = drain /\ ~paused /\ awake')
    /\ \A k \in Lanes : Parked(k) => Parked(k)'
<1>. SUFFICES ASSUME IInv, ReadInv, [Next]_vars
              PROVE  /\ ToSet(rows) \subseteq ToSet(rows)' \/ (drain.at = "no" /\ drain' = drain /\ ~paused /\ awake')
                     /\ \A k \in Lanes : Parked(k) => Parked(k)'
  OBVIOUS
<1>1. ASSUME resumed' = resumed, paused => paused', ToSet(rows) \subseteq ToSet(rows)'
      PROVE  \A k \in Lanes : Parked(k) => Parked(k)'
  <2>1. ASSUME NEW k \in Lanes, Parked(k) PROVE Parked(k)'
    <3>1. CASE k \in resumed
      BY <1>1, <3>1 DEF Parked
    <3>2. CASE k \in ToSet(rows) /\ paused
      <4>1. k \in ToSet(rows)' /\ paused'
        BY <1>1, <3>2
      <4>. QED BY <4>1 DEF Parked
    <3>. QED BY <2>1, <3>1, <3>2 DEF Parked
  <2>. QED BY <2>1
<1>2. rows' = rows => ToSet(rows) \subseteq ToSet(rows)'
  BY DEF ToSet
<1>3. CASE Turn
  <2>1. rows' = rows /\ resumed' = resumed /\ (paused => paused')
    <3>1. CASE CommitBeforeRelease
      <4>. DEFINE free == {i \in Lanes : batches[i].pending /\ batches[i].route = "teardown" /\ batches[i].job = 0}
                  first == CHOOSE i \in free : \A k \in free : i <= k
      <4>1. /\ IF free = {} THEN UNCHANGED <<batches, jobs>>
               ELSE /\ jobs' = [jobs EXCEPT ![first] =
                         [kind |-> "teardown", waiters |-> <<>>, enqueued |-> FALSE, todo |-> Merged(free)]]
                    /\ batches' = [i \in Lanes |->
                         IF i \in free THEN [batches[i] EXCEPT !.job = first] ELSE batches[i]]
            /\ UNCHANGED <<rows, resumed, paused>>
        BY <3>1 DEF CommitBeforeRelease, queueV
      <4>. HIDE DEF free, first
      <4>. QED BY <4>1
    <3>2. CASE Release
      BY <3>2 DEF Release
    <3>3. CASE Turn /\ ~CommitBeforeRelease /\ ~Release
      <4>1. queueV' = queueV
        BY <3>3 DEF Turn, Steer, Poll, PollConsumes, PollGivesUp, Restore, TryBeginClose, Abort, HostEnds
      <4>. QED BY <4>1 DEF queueV
    <3>. QED BY <1>3, <3>1, <3>2, <3>3
  <2>. QED BY <1>1, <1>2, <2>1
<1>4. ASSUME NEW i \in Batches, Land(i) \/ WriteFails(i) \/ Lane(i)
      PROVE  rows' = rows /\ resumed' = resumed /\ (paused => paused')
  <2>1. Land(i) => queueV' = queueV
    BY DEF Land
  <2>2. WriteFails(i) => queueV' = queueV
    BY DEF WriteFails
  <2>3. Lane(i) => queueV' = queueV
    BY DEF Lane
  <2>. QED BY <1>4, <2>1, <2>2, <2>3 DEF queueV
<1>5. ASSUME NEW i \in Batches, Pause(i)
      PROVE  rows' = rows /\ resumed' = resumed /\ (paused => paused')
  BY <1>5 DEF Pause
<1>6. ASSUME NEW i \in Batches, Enqueue(i)
      PROVE  ToSet(rows) \subseteq ToSet(rows)' /\ resumed' = resumed /\ (paused => paused')
  <2>1. i \in Jobs
    BY <1>6 DEF Enqueue, Jobs, NoJob
  <2>2. i \in Lanes
    BY <2>1 DEF IInv, Stored, Books, Owned
  <2>3. /\ ToSet(rows)' \subseteq ToSet(rows) \cup {i} /\ IsInjective(rows)'
        /\ i \in ToSet(rows)' /\ ToSet(rows) \subseteq ToSet(rows)'
    BY <1>6, <2>2, RowInFront DEF Enqueue, ReadInv, Passes, IInv, Stored, QueueTyped
  <2>. QED BY <1>6, <2>3 DEF Enqueue
<1>7. CASE Shutdown \/ DrainStarts \/ DrainContinues \/ DrainEnds \/ OtherWake \/ UNCHANGED vars
  <2>1. rows' = rows /\ resumed' = resumed /\ (paused => paused')
    BY <1>7 DEF Shutdown, DrainStarts, DrainContinues, DrainEnds, OtherWake, vars, queueV
  <2>. QED BY <1>1, <1>2, <2>1
<1>8. CASE Dispatch
  <2>1. /\ resumed' = resumed /\ paused' = paused /\ drain' = drain /\ drain.at = "no"
        /\ rows' = rows \/ (~paused /\ awake')
    BY <1>8 DEF Dispatch
  <2>2. CASE rows' = rows
    BY <1>1, <1>2, <2>1, <2>2
  <2>3. CASE ~paused /\ awake'
    BY <2>1, <2>3 DEF Parked
  <2>. QED BY <2>1, <2>2, <2>3
<1>9. CASE ContinueQueue
  <2>1. rows' = rows /\ resumed' = resumed \cup ToSet(rows)
    BY <1>9 DEF ContinueQueue
  <2>. QED BY <1>2, <2>1 DEF Parked
<1>. QED BY <1>1, <1>2, <1>3, <1>4, <1>5, <1>6, <1>7, <1>8, <1>9 DEF Next, Requeue

\* A shutdown waits for the writes it finds, until each is over.
LEMMA DrainMoves == IInv /\ AwaitInv /\ [Next]_vars =>
    /\ drain.at = "no" => drain'.at = "no" \/ (drain'.at = "inflight" /\ Jobs \subseteq drain'.on)
    /\ drain.at = "inflight" /\ drain.on # {} =>
         drain'.at = "inflight" /\ \A j \in drain.on : j \in Jobs' => j \in drain'.on
<1>. SUFFICES ASSUME IInv, AwaitInv, [Next]_vars
              PROVE  /\ drain.at = "no" => drain'.at = "no" \/ (drain'.at = "inflight" /\ Jobs \subseteq drain'.on)
                     /\ drain.at = "inflight" /\ drain.on # {} =>
                          drain'.at = "inflight" /\ \A j \in drain.on : j \in Jobs' => j \in drain'.on
  OBVIOUS
<1>. USE DEF IInv
<1>1. CASE drain' = drain
  BY <1>1
<1>2. ASSUME NEW i \in Jobs, NEW ok \in BOOLEAN, NEW written, Settle(i, ok, written)
      PROVE  drain'.at = drain.at /\ \A j \in drain.on : j \in Jobs' => j \in drain'.on
  <2>1. /\ drain'.at = drain.at /\ drain'.todo = drain.todo /\ drain'.on = drain.on \ {i}
        /\ drain'.upto = drain.upto
    BY <1>2, SettleWaits DEF AwaitInv
  <2>2. Jobs' = Jobs \ {i}
    BY <1>2, SettleBooks
  <2>. QED BY <2>1, <2>2
<1>3. CASE Turn
  <2>1. drain' = drain
    BY <1>3 DEF Turn, Steer, Poll, PollConsumes, PollGivesUp, Restore, TryBeginClose, Abort, HostEnds,
                CommitBeforeRelease, Release
  <2>. QED BY <1>1, <2>1
<1>4. ASSUME NEW i \in Batches, Land(i) \/ WriteFails(i) \/ Enqueue(i) \/ Pause(i)
      PROVE  drain'.at = drain.at /\ \A j \in drain.on : j \in Jobs' => j \in drain'.on
  <2>1. i \in Jobs
    <3>1. jobs[i] # NoJob \/ jobs[i].kind \in {"teardown", "requeue"}
      BY <1>4 DEF Land, WriteFails, Enqueue, Pause
    <3>. QED BY <3>1 DEF Jobs, NoJob
  <2>2. drain' = drain \/ \E ok \in BOOLEAN, written \in {ToSet(fallen) \cup ToSet(jobs[i].todo), ToSet(fallen), {}} :
                            Settle(i, ok, written)
    BY <1>4 DEF Land, WriteFails, Enqueue, Pause
  <2>. QED BY <1>2, <2>1, <2>2
<1>5. CASE (\E i \in Batches : Lane(i)) \/ Dispatch \/ OtherWake \/ ContinueQueue \/ UNCHANGED vars
  <2>1. drain' = drain
    BY <1>5 DEF Lane, Dispatch, OtherWake, ContinueQueue, vars
  <2>. QED BY <1>1, <2>1
<1>6. CASE Shutdown
  BY <1>6 DEF Shutdown
<1>7. CASE DrainStarts \/ DrainContinues \/ DrainEnds
  BY <1>7 DEF DrainStarts, DrainContinues, DrainEnds
<1>. QED BY <1>1, <1>3, <1>4, <1>5, <1>6, <1>7 DEF Next, Requeue

\* What is parked stays parked until its user continues.
LEMMA ParksNext == IInv /\ ReadInv /\ AwaitInv /\ Parks /\ [Next]_vars => Parks'
<1>. SUFFICES ASSUME IInv, ReadInv, AwaitInv, Parks, [Next]_vars PROVE Parks'
  OBVIOUS
<1>1. Follows
  BY FollowsNext
<1>2. /\ ToSet(rows) \subseteq ToSet(rows)' \/ (drain.at = "no" /\ drain' = drain /\ ~paused /\ awake')
      /\ \A k \in Lanes : Parked(k) => Parked(k)'
  BY RowsStay
<1>3. /\ drain.at = "no" => drain'.at = "no" \/ (drain'.at = "inflight" /\ Jobs \subseteq drain'.on)
      /\ drain.at = "inflight" /\ drain.on # {} =>
           drain'.at = "inflight" /\ \A j \in drain.on : j \in Jobs' => j \in drain'.on
  BY DrainMoves
<1>4. ASSUME NEW k \in Lanes', Parkable(k)' PROVE Parked(k)'
  BY <1>1, <1>2, <1>4 DEF Follows, Parks
<1>5. ASSUME NEW j \in Jobs', jobs'[j].enqueued
      PROVE  \/ j \in ToSet(rows)' \/ drain'.at = "no"
             \/ drain'.at = "inflight" /\ j \in drain'.on
  <2>1. j \in ToSet(rows)' \/ (j \in Jobs /\ jobs[j].enqueued)
    BY <1>1, <1>5 DEF Follows
  <2>2. ASSUME j \in Jobs, jobs[j].enqueued
        PROVE  j \in ToSet(rows) \/ drain.at = "no" \/ (drain.at = "inflight" /\ j \in drain.on)
    BY <2>2 DEF Parks, Rowed
  <2>. QED BY <1>2, <1>3, <2>1, <2>2
<1>6. Rowed'
  BY <1>5 DEF Rowed
<1>. QED BY <1>4, <1>6 DEF Parks

\* How a turn goes from one phase to the next.
LEMMA TurnMoves == IInv /\ [Next]_vars =>
    \/ phase' = phase /\ reason' = reason
    \/ phase = "running" /\ phase' = "closing" /\ reason' = reason
    \/ phase = "running" /\ phase' = "aborted"
    \/ phase # "running" /\ phase' = "gone" /\ reason' = reason /\ awake' = (awake \/ reason = "none")
<1>. SUFFICES ASSUME IInv, [Next]_vars
              PROVE  \/ phase' = phase /\ reason' = reason
                     \/ phase = "running" /\ phase' = "closing" /\ reason' = reason
                     \/ phase = "running" /\ phase' = "aborted"
                     \/ phase # "running" /\ phase' = "gone" /\ reason' = reason
                        /\ awake' = (awake \/ reason = "none")
  OBVIOUS
<1>1. CASE Release
  <2>1. phase # "running"
    BY <1>1 DEF Release, IInv, Stages
  <2>. QED BY <1>1, <2>1 DEF Release
<1>2. CASE Turn /\ ~Release
  BY <1>2 DEF Turn, Steer, Poll, PollConsumes, PollGivesUp, Restore, TryBeginClose, Abort, AbortEntry,
              HostEnds, CommitBeforeRelease
<1>3. CASE Requeue
  BY <1>3 DEF Requeue, Land, WriteFails, Enqueue, Pause, Lane, Shutdown, AbortEntry, DrainStarts,
              DrainContinues, DrainEnds, turnV
<1>4. CASE Dispatch \/ OtherWake \/ ContinueQueue \/ UNCHANGED vars
  BY <1>4 DEF Dispatch, OtherWake, ContinueQueue, vars, turnV
<1>. QED BY <1>1, <1>2, <1>3, <1>4 DEF Next

\* Once the turn is gone, no step loses a wake that rows wait for, and the row of a
\* finished turn brings its own.
LEMMA WakesStay == IInv /\ ReadInv /\ [Next]_vars /\ phase = "gone" =>
    /\ awake \/ paused => awake' \/ paused' \/ rows' = <<>>
    /\ \A k \in ToSet(rows)' : k \in ToSet(rows) \/ batches[k].cause # "exit-close" \/ awake'
<1>. SUFFICES ASSUME IInv, ReadInv, [Next]_vars, phase = "gone"
              PROVE  /\ awake \/ paused => awake' \/ paused' \/ rows' = <<>>
                     /\ \A k \in ToSet(rows)' : k \in ToSet(rows) \/ batches[k].cause # "exit-close" \/ awake'
  OBVIOUS
<1>0. rows' = rows => ToSet(rows)' = ToSet(rows)
  BY DEF ToSet
<1>1. CASE Turn
  <2>1. rows' = rows /\ (awake => awake') /\ (paused => paused')
    <3>1. CASE CommitBeforeRelease
      <4>1. queueV' = queueV
        BY <3>1, Zenon DEF CommitBeforeRelease
      <4>. QED BY <4>1 DEF queueV
    <3>2. CASE Release
      BY <3>2 DEF Release
    <3>3. CASE ~CommitBeforeRelease /\ ~Release
      <4>1. queueV' = queueV
        BY <1>1, <3>3 DEF Turn, Steer, Poll, PollConsumes, PollGivesUp, Restore, TryBeginClose, Abort, HostEnds
      <4>. QED BY <4>1 DEF queueV
    <3>. QED BY <3>1, <3>2, <3>3
  <2>. QED BY <1>0, <2>1
<1>2. ASSUME NEW i \in Batches, Land(i) \/ WriteFails(i) \/ Lane(i) \/ Pause(i)
      PROVE  rows' = rows /\ (awake => awake') /\ (paused => paused')
  <2>1. CASE Pause(i)
    BY <2>1 DEF Pause
  <2>2. CASE Land(i) \/ WriteFails(i)
    <3>1. Land(i) => queueV' = queueV
      BY Zenon DEF Land
    <3>2. WriteFails(i) => queueV' = queueV
      BY Zenon DEF WriteFails
    <3>. QED BY <2>2, <3>1, <3>2 DEF queueV
  <2>3. CASE Lane(i)
    <3>1. queueV' = queueV
      BY <2>3, Zenon DEF Lane
    <3>. QED BY <3>1 DEF queueV
  <2>. QED BY <1>2, <2>1, <2>2, <2>3
<1>3. ASSUME NEW i \in Batches, Enqueue(i)
      PROVE  /\ ToSet(rows)' \subseteq ToSet(rows) \cup {i} /\ (awake => awake') /\ paused' = paused
             /\ batches[i].cause # "exit-close" \/ awake'
  <2>1. i \in Jobs
    BY <1>3 DEF Enqueue, Jobs, NoJob
  <2>2. i \in Lanes
    BY <2>1 DEF IInv, Stored, Books, Owned
  <2>3. /\ ToSet(rows)' \subseteq ToSet(rows) \cup {i} /\ IsInjective(rows)'
        /\ i \in ToSet(rows)' /\ ToSet(rows) \subseteq ToSet(rows)'
    BY <1>3, <2>2, RowInFront DEF Enqueue, ReadInv, Passes, IInv, Stored, QueueTyped
  <2>4. (awake => awake') /\ paused' = paused
    BY <1>3 DEF Enqueue
  <2>5. batches[i].cause # "exit-close" \/ awake'
    BY <1>3 DEF Enqueue, StopPauses
  <2>. QED BY <2>3, <2>4, <2>5
<1>4. CASE Shutdown \/ DrainStarts \/ DrainContinues \/ DrainEnds \/ OtherWake \/ ContinueQueue \/ UNCHANGED vars
  <2>1. rows' = rows /\ (paused => paused' \/ awake') /\ (awake => awake')
    <3>1. queueV' = queueV \/ OtherWake \/ ContinueQueue
      BY <1>4, Zenon DEF Shutdown, DrainStarts, DrainContinues, DrainEnds, vars
    <3>. QED BY <3>1 DEF queueV, OtherWake, ContinueQueue
  <2>. QED BY <1>0, <2>1
<1>5. CASE Dispatch
  <2>1. CASE paused \/ rows = <<>>
    BY <1>0, <1>5, <2>1 DEF Dispatch
  <2>2. CASE ~(paused \/ rows = <<>>)
    BY <1>5, <2>2 DEF Dispatch
  <2>. QED BY <2>1, <2>2
<1>. QED BY <1>0, <1>1, <1>2, <1>3, <1>4, <1>5 DEF Next, Requeue

\* Every step keeps the wake that the rows of a finished turn wait for.
LEMMA WakesNext == IInv /\ ReadInv /\ AwaitInv /\ Parks /\ Wakes /\ [Next]_vars => Wakes'
<1>. SUFFICES ASSUME IInv, ReadInv, AwaitInv, Parks, Wakes, [Next]_vars PROVE Wakes'
  OBVIOUS
<1>1. Follows
  BY FollowsNext
<1>2. \/ phase' = phase /\ reason' = reason
      \/ phase = "running" /\ phase' = "closing" /\ reason' = reason
      \/ phase = "running" /\ phase' = "aborted"
      \/ phase # "running" /\ phase' = "gone" /\ reason' = reason /\ awake' = (awake \/ reason = "none")
  BY TurnMoves
<1>3. reason' # "none" => phase' \in {"aborted", "gone"}
  BY <1>2 DEF Wakes
<1>4. ASSUME NEW k \in Lanes', batches'[k].cause = "exit-close"
      PROVE  phase' \in {"closing", "gone"} /\ reason' = "none"
  <2>1. CASE Closes
    BY <2>1 DEF Closes, Wakes
  <2>2. CASE k \in Lanes /\ batches[k].cause = "exit-close"
    BY <1>2, <2>2 DEF Wakes
  <2>. QED BY <1>1, <1>4, <2>1, <2>2 DEF Follows
<1>5. ASSUME phase' = "gone", NEW k \in ToSet(rows)', batches'[k].cause = "exit-close"
      PROVE  awake' \/ paused'
  <2>0. k \in Lanes'
    <3>1. IInv'
      BY IInvNext
    <3>2. rows' \in Seq(Lanes')
      BY <3>1 DEF IInv, Stored, QueueTyped
    <3>. QED BY <3>2 DEF ToSet
  <2>1. CASE phase # "gone"
    BY <1>2, <1>4, <1>5, <2>0, <2>1
  <2>2. CASE phase = "gone"
    <3>1. k \in Lanes /\ batches[k].cause = "exit-close"
      BY <1>1, <1>5, <2>0, <2>2 DEF Follows, Closes
    <3>2. /\ awake \/ paused => awake' \/ paused' \/ rows' = <<>>
          /\ \A n \in ToSet(rows)' : n \in ToSet(rows) \/ batches[n].cause # "exit-close" \/ awake'
      BY <2>2, WakesStay
    <3>3. rows' # <<>>
      BY <1>5 DEF ToSet
    <3>4. k \in ToSet(rows) => awake \/ paused
      BY <2>2, <3>1 DEF Wakes
    <3>. QED BY <1>5, <3>1, <3>2, <3>3, <3>4
  <2>. QED BY <2>1, <2>2
<1>. QED BY <1>3, <1>4, <1>5 DEF Wakes

\* Nothing waits in the queue when the turn begins.
LEMMA ParksInit == Init => Parks /\ Wakes
<1>. SUFFICES ASSUME Init PROVE Parks /\ Wakes
  OBVIOUS
<1>1. Lanes = {} /\ Jobs = {} /\ ToSet(rows) = {}
  BY EmptyMembers DEF Init, Lanes, Jobs
<1>. QED BY <1>1 DEF Init, Parks, Rowed, Wakes

\* What the invariant says of a row that was handed back.
LEMMA ParksImplies == IInv /\ ReadInv /\ Parks /\ Wakes => RowsAreParkedOrWoken
<1>. SUFFICES ASSUME ReadInv, Parks, Wakes, NEW i \in ToSet(rows) \ resumed,
                     batches[i].job = 0 /\ ~batches[i].pending
              PROVE  /\ StopPauses(i) => paused
                     /\ batches[i].cause = "exit-close" /\ phase = "gone" => awake \/ paused
  BY DEF RowsAreParkedOrWoken
<1>1. i \in Lanes /\ batches[i].route = "requeue"
  BY DEF ReadInv, Passes, Through
<1>2. StopPauses(i) => Parked(i)
  BY <1>1 DEF Parks, Parkable
<1>3. batches[i].cause = "exit-close" /\ phase = "gone" => awake \/ paused
  BY DEF Wakes
<1>. QED BY <1>2, <1>3 DEF Parked

\* A row that the requeue handed back waits for the right one: that of a turn its
\* user stopped is behind a pause until the user continues, whatever writes fail and
\* whenever the drain of a shutdown writes it again; that of a finished turn has a
\* wake on its way.
THEOREM RowsWaitForTheRightOne == Spec => []RowsAreParkedOrWoken
<1>1. Init => IInv /\ ReadInv /\ AwaitInv /\ Parks /\ Wakes
  BY IInvInit, ReadInit, AwaitInit, ParksInit
<1>2. IInv /\ ReadInv /\ AwaitInv /\ Parks /\ Wakes /\ [Next]_vars
        => (IInv /\ ReadInv /\ AwaitInv /\ Parks /\ Wakes)'
  BY IInvNext, ReadNext, AwaitNext, ParksNext, WakesNext
<1>3. Spec => [](IInv /\ ReadInv /\ AwaitInv /\ Parks /\ Wakes)
  BY <1>1, <1>2, PTL DEF Spec
<1>4. IInv /\ ReadInv /\ AwaitInv /\ Parks /\ Wakes => RowsAreParkedOrWoken
  BY ParksImplies
<1>. QED BY <1>3, <1>4, PTL

-----------------------------------------------------------------------------
(* The order in which messages fall.                                        *)

\* Each later member of s is greater.
Ascends(s) == \A i, k \in DOMAIN s : i < k => s[i] < s[k]

\* A sequence ascends still when a greater number follows,
LEMMA AppendAscends ==
  ASSUME NEW s \in Seq(Nat), NEW x \in Nat, Ascends(s), \A y \in ToSet(s) : y < x
  PROVE  Ascends(Append(s, x))
<1>. PICK t : t = Append(s, x)
  OBVIOUS
<1>1. /\ DOMAIN s = 1..Len(s) /\ Len(s) \in Nat /\ DOMAIN t = 1..(Len(s) + 1)
      /\ t[Len(s) + 1] = x /\ \A i \in 1..Len(s) : t[i] = s[i]
  OBVIOUS
<1>2. \A i \in 1..Len(s) : s[i] < x
  BY <1>1 DEF ToSet
<1>3. ASSUME NEW i \in 1..(Len(s) + 1), NEW k \in 1..(Len(s) + 1), i < k PROVE t[i] < t[k]
  <2>1. i \in 1..Len(s) /\ (k \in 1..Len(s) \/ k = Len(s) + 1)
    BY <1>1, <1>3
  <2>2. CASE k = Len(s) + 1
    BY <1>1, <1>2, <2>1, <2>2
  <2>3. CASE k \in 1..Len(s)
    BY <1>1, <1>3, <2>1, <2>3 DEF Ascends
  <2>. QED BY <2>1, <2>2, <2>3
<1>. QED BY <1>1, <1>3 DEF Ascends

\* and when its first is taken away, which is the least.
LEMMA TailAscends ==
  ASSUME NEW s \in Seq(Nat), s # <<>>, Ascends(s)
  PROVE  Ascends(Tail(s)) /\ \A y \in ToSet(Tail(s)) : s[1] < y
<1>. PICK t : t = Tail(s)
  OBVIOUS
<1>1. /\ DOMAIN t = 1..(Len(s) - 1) /\ Len(s) \in Nat /\ DOMAIN s = 1..Len(s)
      /\ \A i \in 1..(Len(s) - 1) : t[i] = s[i + 1]
  OBVIOUS
<1>2. \A i \in 1..(Len(s) - 1) : i + 1 \in 1..Len(s) /\ 1 \in 1..Len(s) /\ 1 < i + 1
  BY <1>1
<1>3. \A i \in 1..(Len(s) - 1) : s[1] < t[i]
  BY <1>1, <1>2 DEF Ascends
<1>4. ASSUME NEW i \in 1..(Len(s) - 1), NEW k \in 1..(Len(s) - 1), i < k PROVE t[i] < t[k]
  <2>1. i + 1 < k + 1
    BY <1>4
  <2>. QED BY <1>1, <1>2, <2>1 DEF Ascends
<1>. QED BY <1>1, <1>3, <1>4 DEF Ascends, ToSet

\* What is kept of it ascends.
LEMMA KeptAscends ==
  ASSUME NEW s \in Seq(Nat), NEW S, Ascends(s)
  PROVE  Ascends(Kept(s, S))
<1>1. PICK g : Computes(g, Len(s), s, S) /\ Kept(s, S) = g[Len(s)]
  BY KeptIs
<1>. DEFINE Right(n) == g[n] \in Seq(Nat) /\ Ascends(g[n]) /\ ToSet(g[n]) \subseteq {s[k] : k \in 1..n}
            P == {n \in 0..Len(s) : ~Right(n)}
<1>0. /\ g[0] = <<>>
      /\ \A n \in 1..Len(s) :
            g[n] = IF s[n] \in S THEN Append(g[n - 1], s[n]) ELSE g[n - 1]
  <2>1. g[0] = <<>>
    BY <1>1 DEF Computes
  <2>2. ASSUME NEW n \in 1..Len(s)
        PROVE  g[n] = IF s[n] \in S THEN Append(g[n - 1], s[n]) ELSE g[n - 1]
    <3>1. n \in 0..Len(s) /\ n # 0
      OBVIOUS
    <3>. QED BY <1>1, <3>1 DEF Computes
  <2>. QED BY <2>1, <2>2
<1>2. ASSUME P # {} PROVE FALSE
  <2>1. PICK m \in P : \A n \in P : m <= n
    <3>1. P \in SUBSET Nat
      OBVIOUS
    <3>. HIDE DEF P
    <3>. QED BY <1>2, <3>1, LeastNat
  <2>2. m # 0
    <3>1. Right(0)
      <4>1. ToSet(<<>>) = {} /\ Ascends(<<>>)
        BY DEF ToSet, Ascends
      <4>. QED BY <1>0, <4>1
    <3>. QED BY <2>1, <3>1
  <2>3. Right(m - 1)
    <3>1. m - 1 \in 0..Len(s) /\ ~(m <= m - 1)
      BY <2>2
    <3>2. m - 1 \notin P
      BY <2>1, <3>1
    <3>. QED BY <3>1, <3>2
  <2>4. m \in 1..Len(s) /\ s[m] \in Nat
    BY <2>2
  <2>. PICK t : t = g[m - 1]
    OBVIOUS
  <2>5. t \in Seq(Nat) /\ Ascends(t) /\ ToSet(t) \subseteq {s[k] : k \in 1..(m - 1)}
    BY <2>3
  <2>6. g[m] = IF s[m] \in S THEN Append(t, s[m]) ELSE t
    <3>. HIDE DEF P
    <3>. QED BY <1>0, <2>4
  <2>7. \A y \in ToSet(t) : y < s[m]
    <3>1. \A k \in 1..(m - 1) : k \in 1..Len(s) /\ k < m
      BY <2>4
    <3>2. \A k \in 1..(m - 1) : s[k] < s[m]
      BY <2>4, <3>1 DEF Ascends
    <3>. QED BY <2>5, <3>2
  <2>8. {s[k] : k \in 1..(m - 1)} \subseteq {s[k] : k \in 1..m} /\ s[m] \in {s[k] : k \in 1..m}
    <3>1. 1..(m - 1) \subseteq 1..m /\ m \in 1..m
      BY <2>4
    <3>. QED BY <3>1
  <2>9. /\ Append(t, s[m]) \in Seq(Nat) /\ Ascends(Append(t, s[m]))
        /\ ToSet(Append(t, s[m])) = ToSet(t) \cup {s[m]}
    <3>1. PICK x \in Nat : x = s[m]
      BY <2>4
    <3>2. Append(t, x) \in Seq(Nat) /\ ToSet(Append(t, x)) = ToSet(t) \cup {x}
      BY <2>5, AppendMembers
    <3>3. Ascends(Append(t, x))
      BY <2>5, <2>7, <3>1, AppendAscends
    <3>. QED BY <3>1, <3>2, <3>3
  <2>10. Right(m)
    <3>1. CASE s[m] \in S
      BY <2>5, <2>6, <2>8, <2>9, <3>1
    <3>2. CASE s[m] \notin S
      BY <2>5, <2>6, <2>8, <3>2
    <3>. QED BY <3>1, <3>2
  <2>. QED BY <2>1, <2>10
<1>3. Len(s) \in 0..Len(s)
  OBVIOUS
<1>. QED BY <1>1, <1>2, <1>3

\* A merged write has its messages in the order in which they were sent.
LEMMA MergedAscends ==
  ASSUME NEW F
  PROVE  Ascends(Merged(F))
<1>. DEFINE all == [m \in Messages |-> m]
<1>. PICK S : S = UNION {ToSet(batches[i].todo) : i \in F}
  OBVIOUS
<1>1. Merged(F) = Kept(all, S)
  BY DEF Merged, InOrder
<1>2. all \in Seq(Nat) /\ Ascends(all)
  BY SteeringAssumption DEF Messages, Ascends
<1>. HIDE DEF all
<1>. QED BY <1>1, <1>2, KeptAscends

\* No write has failed and no drain has begun; the turn is being settled, or was.
Plain == faults = 0 /\ drain.at = "no"
Settled == host \in {"settling", "gone"}
Handback(k) == batches[k].cause = "exit-close"

\* A finished turn hands its messages back to the queue only.
Routed == \A k \in Lanes : Handback(k) => batches[k].route = "requeue"

\* Nothing falls before the turn is being settled, and whatever it let go of till
\* then falls in one write.
Merging ==
  Plain =>
    /\ ~Settled => /\ fallen = <<>> /\ \A j \in Jobs : jobs[j].kind # "teardown"
                   /\ \A k \in Lanes : Handback(k) \/ batches[k].job = 0
    /\ Settled => \A k \in Lanes : batches[k].pending => Handback(k) \/ batches[k].job # 0

\* What that write has still to show comes after what it has shown.
Falling ==
  Plain =>
    /\ Ascends(fallen)
    /\ \A j \in Jobs : jobs[j].kind = "teardown" =>
         /\ Ascends(jobs[j].todo) /\ \A x \in ToSet(fallen), y \in ToSet(jobs[j].todo) : x < y
         /\ \A k \in Jobs : jobs[k].kind = "teardown" => k = j

OrderInv == faults \in Nat /\ Routed /\ Merging /\ Falling

\* Steps that show nothing, and begin no write into the conversation.
LEMMA OrderStays ==
  ASSUME OrderInv, faults' \in Nat, Plain' => Plain, Lanes' = Lanes,
         Plain' => fallen' = fallen /\ (Settled' <=> Settled),
         \A k \in Lanes : /\ batches'[k].cause = batches[k].cause
                          /\ batches'[k].route = batches[k].route \/ batches'[k].route = "requeue",
         Plain' => \A k \in Lanes :
           /\ batches'[k].pending => batches[k].pending
           /\ \/ batches'[k].job = batches[k].job
              \/ batches'[k].job = 0 /\ ~batches'[k].pending
              \/ Settled /\ batches'[k].job # 0,
         Plain' => \A j \in Jobs' : jobs'[j].kind = "teardown" =>
           j \in Jobs /\ jobs[j].kind = "teardown" /\ jobs'[j].todo = jobs[j].todo
  PROVE  OrderInv'
<1>1. \A k \in Lanes : Handback(k)' <=> Handback(k)
  BY DEF Handback
<1>2. Routed'
  BY <1>1 DEF OrderInv, Routed
<1>3. Merging'
  <2>. SUFFICES ASSUME Plain' PROVE (~Settled' => /\ fallen' = <<>> /\ \A j \in Jobs' : jobs'[j].kind # "teardown"
                                                /\ \A k \in Lanes' : Handback(k)' \/ batches'[k].job = 0)
                                    /\ (Settled' => \A k \in Lanes' : batches'[k].pending => Handback(k)' \/ batches'[k].job # 0)
    BY DEF Merging
  <2>1. CASE Settled
    BY <1>1, <2>1 DEF OrderInv, Merging
  <2>2. CASE ~Settled
    BY <1>1, <2>2 DEF OrderInv, Merging
  <2>. QED BY <2>1, <2>2
<1>4. Falling'
  <2>. SUFFICES ASSUME Plain' PROVE Falling'
    BY DEF Falling
  <2>1. Ascends(fallen)' /\ ToSet(fallen)' = ToSet(fallen)
    BY DEF OrderInv, Falling, Ascends, ToSet
  <2>2. ASSUME NEW j \in Jobs', jobs'[j].kind = "teardown"
        PROVE  /\ Ascends(jobs[j].todo)' /\ \A x \in ToSet(fallen)', y \in ToSet(jobs[j].todo)' : x < y
               /\ \A k \in Jobs' : jobs'[k].kind = "teardown" => k = j
    <3>1. j \in Jobs /\ jobs[j].kind = "teardown" /\ jobs'[j].todo = jobs[j].todo
      BY <2>2
    <3>2. Ascends(jobs[j].todo)' /\ ToSet(jobs[j].todo)' = ToSet(jobs[j].todo)
      BY <3>1 DEF OrderInv, Falling, Ascends, ToSet
    <3>. QED BY <2>1, <3>1, <3>2 DEF OrderInv, Falling
  <2>. QED BY <2>1, <2>2 DEF Falling
<1>. QED BY <1>2, <1>3, <1>4 DEF OrderInv

\* What the turn lets go of before it is settled.
LEMMA DiscardOrder ==
  ASSUME IInv, OrderInv, NEW msgs \in Seq(Messages), NEW cause \in {"abort", "abnormal-seal", "exit-close"},
         Discard(msgs, cause), UNCHANGED <<fallen, faults>>, Plain' => Plain, ~Settled, ~Settled'
  PROVE  OrderInv'
<1>1. CASE UNCHANGED <<batches, jobs>>
  <2>1. Lanes' = Lanes /\ Jobs' = Jobs
    BY <1>1 DEF Lanes, Jobs
  <2>. QED BY <1>1, <2>1, OrderStays DEF OrderInv
<1>2. CASE ~UNCHANGED <<batches, jobs>>
  <2>1. PICK n \in Nat \ Lanes :
              /\ n # 0 /\ Lanes' = Lanes \cup {n} /\ Jobs' \subseteq Jobs \cup {n}
              /\ \A k \in Lanes : batches'[k] = batches[k] /\ Queued(k)' = Queued(k)
              /\ \A j \in Jobs : j \in Jobs' /\ jobs'[j] = jobs[j]
              /\ Queued(n)' = ToSet(msgs) \cap Users
              /\ batches'[n].cause = cause
              /\ batches'[n].lane = "first" \/ batches'[n].route = "requeue" => cause = "exit-close"
              /\ batches'[n].lane = "first" => batches'[n].job # 0
              /\ n \in Jobs' => batches'[n].route = "requeue" /\ jobs'[n].kind = "requeue"
              /\ n = Len(batches) + 1 /\ batches'[n].pending /\ batches'[n].todo # <<>>
              /\ batches'[n].lane \in {"first", "release"}
              /\ cause = "exit-close" =>
                   /\ batches'[n].route = "requeue" /\ batches'[n].job = n
                   /\ n \in Batches => n \in Jobs'
              /\ cause # "exit-close" => batches'[n].job = 0
              /\ n \in Jobs' => jobs'[n].waiters = <<>> /\ ~jobs'[n].enqueued
    BY <1>2, DiscardBooks DEF IInv
  <2>2. Routed'
    BY <2>1 DEF OrderInv, Routed, Handback
  <2>3. \A j \in Jobs' : (j \in Jobs /\ jobs'[j] = jobs[j]) \/ jobs'[j].kind = "requeue"
    BY <2>1
  <2>4. Merging'
    BY <2>1, <2>3 DEF OrderInv, Merging, Handback
  <2>5. Falling'
    <3>1. Ascends(fallen)' <=> Ascends(fallen)
      BY DEF Ascends
    <3>. QED BY <2>3, <3>1 DEF OrderInv, Falling, Merging
  <2>. QED BY <2>2, <2>4, <2>5 DEF OrderInv
<1>. QED BY <1>1, <1>2

\* The write before the release.
LEMMA CommitOrder ==
  ASSUME IInv, ReadInv, AwaitInv, OrderInv, CommitBeforeRelease
  PROVE  OrderInv'
<1>1. PICK F \in SUBSET Lanes, f \in Nat \ Jobs :
           /\ Lanes' = Lanes /\ Jobs' \subseteq Jobs \cup {f}
           /\ \A k \in F : /\ batches[k].job = 0 /\ batches[k].pending /\ batches[k].route = "teardown"
                           /\ batches'[k] = [batches[k] EXCEPT !.job = f]
           /\ \A k \in Lanes : k \notin F => batches'[k] = batches[k]
           /\ \A j \in Jobs : j \in Jobs' /\ jobs'[j] = jobs[j]
           /\ f \in Jobs' => /\ jobs'[f].kind = "teardown" /\ jobs'[f].waiters = <<>>
                             /\ ~jobs'[f].enqueued /\ jobs'[f].todo = Merged(F)
           /\ F = {} \/ f \in F
           /\ \A k \in Lanes : batches[k].pending /\ batches[k].route = "teardown" /\ batches[k].job = 0 => k \in F
  BY CommitBooks
<1>2. host = "ended" /\ host' = "settling" /\ UNCHANGED <<fallen, faults, drain>>
  <2>. DEFINE free == {i \in Lanes : batches[i].pending /\ batches[i].route = "teardown" /\ batches[i].job = 0}
              first == CHOOSE i \in free : \A k \in free : i <= k
  <2>1. /\ ready = <<>> /\ host = "ended" /\ host' = "settling"
        /\ IF free = {} THEN UNCHANGED <<batches, jobs>>
           ELSE /\ jobs' = [jobs EXCEPT ![first] =
                     [kind |-> "teardown", waiters |-> <<>>, enqueued |-> FALSE, todo |-> Merged(free)]]
                /\ batches' = [i \in Lanes |->
                     IF i \in free THEN [batches[i] EXCEPT !.job = first] ELSE batches[i]]
        /\ UNCHANGED <<fallen, faults, drain>>
    BY DEF CommitBeforeRelease
  <2>. HIDE DEF free, first
  <2>. QED BY <2>1
<1>3. ~Settled /\ Settled' /\ (Plain' <=> Plain)
  BY <1>2 DEF Settled, Plain
<1>4. \A k \in Lanes : batches[k] \in Batch /\ k # 0
  BY DEF IInv, Stored, Books, BatchesTyped, Lanes
<1>5. \A k \in Lanes : /\ batches'[k].cause = batches[k].cause /\ batches'[k].route = batches[k].route
                       /\ batches'[k].pending = batches[k].pending
                       /\ batches'[k].job = IF k \in F THEN f ELSE batches[k].job
  <2>. TAKE k \in Lanes
  <2>1. CASE k \in F
    <3>1. batches'[k] = [batches[k] EXCEPT !.job = f] /\ batches[k] \in Batch
      BY <1>1, <1>4, <2>1
    <3>. QED BY <2>1, <3>1 DEF Batch
  <2>2. CASE k \notin F
    BY <1>1, <2>2
  <2>. QED BY <2>1, <2>2
<1>6. Routed'
  BY <1>1, <1>5 DEF OrderInv, Routed, Handback
<1>7. Merging'
  <2>. SUFFICES ASSUME Plain, NEW k \in Lanes, batches[k].pending, ~Handback(k)
                PROVE  batches'[k].job # 0
    BY <1>1, <1>3, <1>5 DEF Merging, Handback
  <2>1. batches[k].job = 0
    BY <1>3 DEF OrderInv, Merging
  <2>2. batches[k].lane \in {"first", "release"}
    BY <1>2 DEF AwaitInv, Begins
  <2>3. batches[k].route = "teardown"
    <3>1. batches[k].route # "requeue"
      BY <2>2 DEF ReadInv, Lasts, Plain, Handback
    <3>. QED BY <1>4, <3>1 DEF Batch
  <2>4. k \in F
    BY <1>1, <2>1, <2>3
  <2>. QED BY <1>1, <1>4, <1>5, <2>4
<1>8. Falling'
  <2>. SUFFICES ASSUME Plain PROVE Falling'
    BY <1>3 DEF Falling
  <2>1. fallen = <<>> /\ \A j \in Jobs : jobs[j].kind # "teardown"
    BY <1>3 DEF OrderInv, Merging
  <2>2. Ascends(fallen)' /\ ToSet(fallen)' = {}
    <3>1. fallen' = <<>>
      BY <1>2, <2>1
    <3>. QED BY <3>1, EmptyMembers DEF Ascends, ToSet
  <2>3. \A j \in Jobs' : jobs'[j].kind = "teardown" => j = f /\ jobs'[j].todo = Merged(F)
    BY <1>1, <2>1
  <2>4. ASSUME NEW j \in Jobs', jobs'[j].kind = "teardown" PROVE Ascends(jobs[j].todo)'
    <3>1. jobs'[j].todo = Merged(F)
      BY <2>3, <2>4
    <3>2. Ascends(Merged(F))
      BY MergedAscends
    <3>. QED BY <3>1, <3>2 DEF Ascends
  <2>. QED BY <2>2, <2>3, <2>4 DEF Falling
<1>. QED BY <1>2, <1>6, <1>7, <1>8 DEF OrderInv

\* The end of a write: what it wrote is tracked no more, if it went well.
LEMMA SettleOrder ==
  ASSUME IInv, AwaitInv, OrderInv, NEW i \in Jobs, NEW ok \in BOOLEAN, NEW written, Settle(i, ok, written),
         host' = host, faults' \in Nat, Plain' => ok /\ faults' = faults,
         Plain' => Ascends(fallen)' /\ (fallen' = fallen \/ jobs[i].kind = "teardown")
  PROVE  OrderInv'
<1>1. /\ Lanes' = Lanes /\ Jobs' = Jobs \ {i} /\ \A j \in Jobs' : jobs'[j] = jobs[j]
      /\ \A k \in Lanes : batches[k].job # i => batches'[k] = batches[k] /\ Queued(k)' = Queued(k)
      /\ \A k \in Lanes : batches[k].job = i =>
              /\ batches'[k].job = 0 /\ batches'[k].cause = batches[k].cause
              /\ batches'[k].route = batches[k].route
              /\ batches'[k].lane = IF batches[k].lane = "first" THEN "release" ELSE batches[k].lane
              /\ batches'[k].pending => batches[k].pending /\ ~ok
              /\ Queued(k)' = IF jobs[i].kind = "teardown" THEN Queued(k) \ written ELSE Queued(k)
  BY SettleBooks DEF IInv
<1>2. drain'.at = drain.at
  BY DEF Settle, IInv, DrainTyped
<1>3. (Plain' => Plain) /\ (Settled' <=> Settled)
  BY <1>2 DEF Plain, Settled
<1>4. \A k \in Lanes : /\ batches'[k].cause = batches[k].cause
                       /\ batches'[k].route = batches[k].route
  BY <1>1
<1>5. Plain' => \A k \in Lanes :
           /\ batches'[k].pending => batches[k].pending
           /\ batches'[k].job = batches[k].job \/ (batches'[k].job = 0 /\ ~batches'[k].pending)
  BY <1>1
<1>6. CASE fallen' = fallen
  BY <1>1, <1>3, <1>4, <1>5, <1>6, OrderStays
<1>7. CASE Plain' /\ jobs[i].kind = "teardown"
  <2>1. Settled /\ \A j \in Jobs' : jobs'[j].kind # "teardown"
    BY <1>1, <1>3, <1>7 DEF OrderInv, Merging, Falling
  <2>2. Routed'
    BY <1>1, <1>4 DEF OrderInv, Routed, Handback
  <2>3. Merging'
    BY <1>1, <1>3, <1>4, <1>5, <1>7, <2>1 DEF OrderInv, Merging, Handback
  <2>4. Falling'
    BY <1>7, <2>1 DEF Falling
  <2>. QED BY <2>2, <2>3, <2>4 DEF OrderInv
<1>8. CASE ~Plain'
  BY <1>1, <1>3, <1>4, <1>8, OrderStays
<1>. QED BY <1>6, <1>7, <1>8

\* Messages are numbers.
LEMMA UsersAreNumbers ==
  ASSUME NEW s \in Seq(Users)
  PROVE  s \in Seq(Nat)
<1>1. Users \subseteq Nat
  BY SteeringAssumption DEF Users, Messages
<1>2. ASSUME NEW D, D \subseteq Nat, NEW t \in Seq(D) PROVE t \in Seq(Nat)
  <2>1. t = [i \in 1..Len(t) |-> t[i]] /\ Len(t) \in Nat /\ \A i \in 1..Len(t) : t[i] \in Nat
    BY <1>2
  <2>. QED BY <2>1
<1>. QED BY <1>1, <1>2

\* Each message that is shown comes after those that were.
LEMMA LandOrder ==
  ASSUME IInv, AwaitInv, OrderInv, NEW i \in Batches, Land(i)
  PROVE  OrderInv'
<1>. USE DEF IInv, Stored, Books
<1>1. i \in Jobs /\ jobs[i].kind = "teardown" /\ UNCHANGED <<host, faults>>
  BY DEF Land, Jobs, NoJob, turnV
<1>2. jobs[i] \in Write /\ jobs[i].todo \in Seq(Users) /\ fallen \in Seq(Users) /\ Users \subseteq Nat
  <2>1. jobs[i] \in Write
    BY <1>1 DEF JobsTyped
  <2>2. jobs[i].todo \in Seq(Users)
    BY <2>1 DEF Write
  <2>3. Users \subseteq Nat
    BY SteeringAssumption DEF Users, Messages
  <2>. QED BY <2>1, <2>2, <2>3 DEF QueueTyped
<1>. PICK todo \in Seq(Users) : todo = jobs[i].todo
  BY <1>2
<1>3. /\ fallen' = IF todo = <<>> THEN fallen ELSE Append(fallen, Head(todo))
      /\ IF Len(todo) > 1
         THEN jobs' = [jobs EXCEPT ![i].todo = Tail(@)] /\ UNCHANGED <<batches, ready, drain>>
         ELSE Settle(i, TRUE, ToSet(fallen) \cup ToSet(todo))
  BY DEF Land
<1>4. fallen \in Seq(Nat) /\ todo \in Seq(Nat)
  BY <1>2, UsersAreNumbers
<1>5. Plain => /\ Ascends(fallen) /\ Ascends(todo) /\ \A x \in ToSet(fallen), y \in ToSet(todo) : x < y
               /\ \A k \in Jobs : jobs[k].kind = "teardown" => k = i
  BY <1>1 DEF OrderInv, Falling
<1>6. ASSUME todo # <<>>
      PROVE  /\ Head(todo) = todo[1] /\ todo[1] \in Nat /\ Tail(todo) \in Seq(Nat)
             /\ ToSet(todo) = {todo[1]} \cup ToSet(Tail(todo))
             /\ Append(fallen, todo[1]) \in Seq(Nat)
             /\ ToSet(Append(fallen, todo[1])) = ToSet(fallen) \cup {todo[1]}
             /\ Plain => /\ Ascends(Append(fallen, todo[1])) /\ Ascends(Tail(todo))
                         /\ \A y \in ToSet(Tail(todo)) : todo[1] < y
  <2>1. /\ Head(todo) = todo[1] /\ todo[1] \in Nat /\ Tail(todo) \in Seq(Nat)
        /\ ToSet(todo) = {todo[1]} \cup ToSet(Tail(todo))
    BY <1>4, <1>6, SplitMembers
  <2>. PICK x \in Nat : x = todo[1]
    BY <2>1
  <2>2. Append(fallen, x) \in Seq(Nat) /\ ToSet(Append(fallen, x)) = ToSet(fallen) \cup {x}
    BY <1>4, AppendMembers
  <2>3. Plain => Ascends(Append(fallen, x))
    BY <1>4, <1>5, <2>1, AppendAscends
  <2>4. Plain => Ascends(Tail(todo)) /\ \A y \in ToSet(Tail(todo)) : todo[1] < y
    BY <1>4, <1>5, <1>6, TailAscends
  <2>. QED BY <2>1, <2>2, <2>3, <2>4
<1>7. Plain => Ascends(fallen)'
  <2>1. CASE todo = <<>>
    BY <1>3, <1>5, <2>1 DEF Ascends
  <2>2. CASE todo # <<>>
    <3>1. fallen' = Append(fallen, todo[1])
      BY <1>3, <1>6, <2>2
    <3>. QED BY <1>6, <2>2, <3>1 DEF Ascends
  <2>. QED BY <2>1, <2>2
<1>8. CASE Len(todo) > 1
  <2>0. todo # <<>>
    <3>1. Len(<<>>) = 0
      OBVIOUS
    <3>. QED BY <1>8, <3>1
  <2>. PICK rest : rest = Tail(todo)
    OBVIOUS
  <2>1. todo # <<>> /\ jobs' = [jobs EXCEPT ![i].todo = rest] /\ UNCHANGED <<batches, drain>>
    BY <1>3, <1>8, <2>0
  <2>2. /\ Lanes' = Lanes /\ Jobs' = Jobs /\ (Plain' <=> Plain) /\ (Settled' <=> Settled)
        /\ \A j \in Jobs : jobs'[j].kind = jobs[j].kind /\ jobs'[j].todo = IF j = i THEN rest ELSE jobs[j].todo
    <3>1. \A j \in Batches : jobs'[j] = IF j = i THEN [jobs[i] EXCEPT !.todo = rest] ELSE jobs[j]
      BY <1>1, <2>1 DEF JobsTyped
    <3>2. [jobs[i] EXCEPT !.todo = rest].kind = jobs[i].kind
          /\ [jobs[i] EXCEPT !.todo = rest].todo = rest
      BY <1>2 DEF Write
    <3>3. Jobs' = Jobs
      BY <1>1, <3>1, <3>2 DEF Jobs, NoJob
    <3>4. Lanes' = Lanes /\ (Plain' <=> Plain) /\ (Settled' <=> Settled)
      BY <1>1, <2>1 DEF Lanes, Plain, Settled
    <3>5. \A j \in Jobs : jobs'[j].kind = jobs[j].kind /\ jobs'[j].todo = IF j = i THEN rest ELSE jobs[j].todo
      <4>. TAKE j \in Jobs
      <4>1. CASE j = i
        BY <3>1, <3>2, <4>1 DEF Jobs
      <4>2. CASE j # i
        BY <3>1, <4>2 DEF Jobs
      <4>. QED BY <4>1, <4>2
    <3>. QED BY <3>3, <3>4, <3>5
  <2>3. Routed'
    BY <2>1, <2>2 DEF OrderInv, Routed, Handback
  <2>4. Merging'
    <3>1. Plain => Settled
      BY <1>1 DEF OrderInv, Merging
    <3>. QED BY <2>1, <2>2, <3>1 DEF OrderInv, Merging, Handback
  <2>5. Falling'
    <3>. SUFFICES ASSUME Plain PROVE Falling'
      BY <2>2 DEF Falling
    <3>1. fallen' = Append(fallen, todo[1]) /\ ToSet(fallen)' = ToSet(fallen) \cup {todo[1]}
      <4>. PICK longer : longer = Append(fallen, todo[1])
        OBVIOUS
      <4>1. fallen' = longer
        BY <1>3, <1>6, <2>1
      <4>2. ToSet(fallen)' = ToSet(longer)
        BY <4>1 DEF ToSet
      <4>. QED BY <1>6, <2>1, <4>1, <4>2
    <3>2. ASSUME NEW j \in Jobs', jobs'[j].kind = "teardown"
          PROVE  /\ Ascends(jobs[j].todo)' /\ \A x \in ToSet(fallen)', y \in ToSet(jobs[j].todo)' : x < y
                 /\ \A k \in Jobs' : jobs'[k].kind = "teardown" => k = j
      <4>1. j = i /\ jobs'[j].todo = rest
        BY <1>5, <2>2, <3>2
      <4>2. Ascends(jobs[j].todo)' /\ ToSet(jobs[j].todo)' = ToSet(rest)
        <5>1. Ascends(rest)
          BY <1>6, <2>1
        <5>. QED BY <4>1, <5>1 DEF Ascends, ToSet
      <4>3. \A x \in ToSet(fallen)', y \in ToSet(jobs[j].todo)' : x < y
        BY <1>5, <1>6, <2>1, <3>1, <4>2
      <4>. QED BY <1>5, <2>2, <4>1, <4>2, <4>3
    <3>3. Ascends(fallen)'
      BY <1>7
    <3>. QED BY <3>2, <3>3 DEF Falling
  <2>. QED BY <1>1, <2>3, <2>4, <2>5 DEF OrderInv
<1>9. CASE ~(Len(todo) > 1)
  <2>1. PICK ok \in BOOLEAN : ok = TRUE
    OBVIOUS
  <2>2. PICK written : written = ToSet(fallen) \cup ToSet(todo)
    OBVIOUS
  <2>3. Settle(i, ok, written)
    BY <1>3, <1>9, <2>1, <2>2
  <2>4. Plain' => Plain
    BY <1>1, <2>3 DEF Plain, Settle, DrainTyped
  <2>5. Plain' => Ascends(fallen)'
    BY <1>7, <2>4
  <2>6. faults' \in Nat
    BY <1>1 DEF OrderInv
  <2>. QED BY <1>1, <2>1, <2>3, <2>5, <2>6, SettleOrder
<1>. QED BY <1>8, <1>9

\* Writes that go on or end.
LEMMA WritesOrder ==
  ASSUME IInv, AwaitInv, OrderInv, NEW i \in Batches, Land(i) \/ WriteFails(i) \/ Enqueue(i) \/ Pause(i)
  PROVE  OrderInv'
<1>. USE DEF IInv, Stored, Books
<1>1. host' = host
  BY DEF Land, WriteFails, Enqueue, Pause, turnV
<1>2. i \in Jobs
  <2>1. jobs[i] # NoJob \/ jobs[i].kind \in {"teardown", "requeue"}
    BY DEF Land, WriteFails, Enqueue, Pause
  <2>. QED BY <2>1 DEF Jobs, NoJob
<1>3. faults \in Nat
  BY DEF OrderInv
<1>4. ASSUME NEW written, Settle(i, TRUE, written), fallen' = fallen, faults' = faults PROVE OrderInv'
  <2>1. PICK ok \in BOOLEAN : ok = TRUE
    OBVIOUS
  <2>2. Settle(i, ok, written)
    BY <1>4, <2>1
  <2>3. Plain' => Ascends(fallen)'
    <3>1. Plain' => Plain
      BY <1>4 DEF Plain, Settle, DrainTyped
    <3>. QED BY <1>4, <3>1 DEF OrderInv, Falling, Ascends
  <2>. QED BY <1>1, <1>2, <1>3, <1>4, <2>1, <2>2, <2>3, SettleOrder
<1>5. CASE WriteFails(i)
  <2>0. PICK ok \in BOOLEAN : ok = FALSE
    OBVIOUS
  <2>1. PICK written : written = ToSet(fallen)
    OBVIOUS
  <2>2. Settle(i, ok, written) /\ faults' = faults + 1
    BY <1>5, <2>0, <2>1 DEF WriteFails
  <2>3. ~Plain' /\ faults' \in Nat
    BY <1>3, <2>2 DEF Plain
  <2>. QED BY <1>1, <1>2, <2>2, <2>3, SettleOrder
<1>6. CASE Enqueue(i)
  <2>1. CASE StopPauses(i)
    <3>1. /\ jobs' = [jobs EXCEPT ![i].enqueued = TRUE] /\ UNCHANGED <<batches, drain, fallen, faults>>
      BY <1>6, <2>1 DEF Enqueue
    <3>2. \A j \in Batches : jobs'[j] = IF j = i THEN [jobs[i] EXCEPT !.enqueued = TRUE] ELSE jobs[j]
      BY <1>2, <3>1 DEF JobsTyped
    <3>3. jobs[i] \in Write
      BY <1>2 DEF JobsTyped
    <3>4. /\ [jobs[i] EXCEPT !.enqueued = TRUE].kind = jobs[i].kind
          /\ [jobs[i] EXCEPT !.enqueued = TRUE].todo = jobs[i].todo
      BY <3>3 DEF Write
    <3>5. \A j \in Batches : jobs'[j] = jobs[j] \/ (j = i /\ jobs'[j].kind = jobs[j].kind /\ jobs'[j].todo = jobs[j].todo)
      BY <3>2, <3>4
    <3>6. \A j \in Jobs' : j \in Jobs /\ jobs'[j].kind = jobs[j].kind /\ jobs'[j].todo = jobs[j].todo
      BY <1>2, <3>5 DEF Jobs
    <3>7. Lanes' = Lanes /\ (Plain' <=> Plain) /\ (Settled' <=> Settled)
      BY <1>1, <3>1 DEF Lanes, Plain, Settled
    <3>. QED BY <1>3, <3>1, <3>6, <3>7, OrderStays
  <2>2. CASE ~StopPauses(i)
    <3>1. PICK written : written = {}
      OBVIOUS
    <3>2. Settle(i, TRUE, written) /\ fallen' = fallen /\ faults' = faults
      BY <1>6, <2>2, <3>1 DEF Enqueue
    <3>. QED BY <1>4, <3>2
  <2>. QED BY <2>1, <2>2
<1>7. CASE Pause(i)
  <2>1. PICK written : written = {}
    OBVIOUS
  <2>2. Settle(i, TRUE, written) /\ fallen' = fallen /\ faults' = faults
    BY <1>7, <2>1 DEF Pause
  <2>. QED BY <1>4, <2>2
<1>. QED BY <1>5, <1>6, <1>7, LandOrder

\* A batch that is awaited: its write goes on, or is begun where it has to be.
LEMMA AwaitOrder ==
  ASSUME IInv, OrderInv, NEW i \in Lanes, NEW b \in Batch, NEW who, b.todo = batches[i].todo,
         b.job = batches[i].job, b.pending = batches[i].pending, b.cause = batches[i].cause,
         b.route = batches[i].route \/ b.route = "requeue", Await(i, b, who),
         host' = host, UNCHANGED <<fallen, faults>>,
         Plain' => Plain /\ Settled /\ (b.job # 0 \/ b.route = "requeue")
  PROVE  OrderInv'
<1>1. /\ Lanes' = Lanes /\ Jobs \subseteq Jobs'
      /\ \A k \in Lanes : Queued(k)' = Queued(k) /\ (k # i => batches'[k] = batches[k])
      /\ batches'[i] = IF batches[i].job # 0 THEN b ELSE [b EXCEPT !.job = i]
      /\ \A j \in Jobs : /\ jobs'[j].kind = jobs[j].kind
                         /\ jobs'[j].todo = jobs[j].todo /\ jobs'[j].enqueued = jobs[j].enqueued
      /\ \A j \in Jobs' \ Jobs : /\ j = i /\ batches[i].job = 0 /\ ~jobs'[j].enqueued
                                 /\ jobs'[j].kind = b.route /\ jobs'[j].todo = b.todo
  BY AwaitBooks DEF IInv
<1>2. i # 0
  BY DEF IInv, Stored, Books, BatchesTyped, Lanes
<1>3. /\ batches'[i].cause = b.cause /\ batches'[i].route = b.route /\ batches'[i].pending = b.pending
      /\ batches'[i].job = IF b.job # 0 THEN b.job ELSE i
  BY <1>1 DEF Batch
<1>4. \A k \in Lanes : /\ batches'[k].cause = batches[k].cause
                       /\ batches'[k].route = batches[k].route \/ batches'[k].route = "requeue"
  BY <1>1, <1>3
<1>5. Plain' => \A k \in Lanes :
           /\ batches'[k].pending => batches[k].pending
           /\ batches'[k].job = batches[k].job \/ (Settled /\ batches'[k].job # 0)
  BY <1>1, <1>2, <1>3
<1>6. Plain' => \A j \in Jobs' : jobs'[j].kind = "teardown" =>
           j \in Jobs /\ jobs[j].kind = "teardown" /\ jobs'[j].todo = jobs[j].todo
  BY <1>1
<1>7. faults' \in Nat /\ (Plain' => Plain /\ fallen' = fallen) /\ (Settled' <=> Settled)
  BY DEF OrderInv, Settled
<1>. QED BY <1>1, <1>4, <1>5, <1>6, <1>7, OrderStays

\* A lane awaits.
LEMMA LaneOrder ==
  ASSUME IInv, ReadInv, AwaitInv, OrderInv, NEW i \in Batches, Lane(i)
  PROVE  OrderInv'
<1>. USE DEF IInv, Stored, Books
<1>. DEFINE b == batches[i]
            next == [b EXCEPT !.lane = After(b), !.route = IF After(b) = "last" THEN "requeue" ELSE @]
<1>1. /\ ready # <<>> /\ Head(ready) = i
      /\ IF next.lane # "end" /\ (b.pending \/ next.lane = "joined")
         THEN Await(i, next, i)
         ELSE batches' = [batches EXCEPT ![i].lane = "end"] /\ UNCHANGED jobs
      /\ UNCHANGED <<host, drain, fallen, faults>>
  BY DEF Lane, turnV
<1>2. i \in Lanes /\ batches[i] \in Batch /\ i \in Ready /\ i # 0
  <2>1. ready[1] \in 0..Len(batches) /\ Head(ready) = ready[1] /\ ToSet(ready) = {ready[1]} \cup ToSet(Tail(ready))
    BY <1>1, SplitMembers DEF DrainTyped
  <2>2. i # 0 /\ Lanes = 1..Len(batches) /\ Len(batches) \in Nat
    BY DEF Batches, BatchesTyped, Lanes
  <2>. QED BY <1>1, <2>1, <2>2 DEF BatchesTyped, Ready
<1>3. Settled
  BY <1>2 DEF AwaitInv, Begins, Drain, Settled
<1>4. Plain' => Plain
  BY <1>1 DEF Plain
<1>5. /\ next \in Batch /\ next.todo = b.todo /\ next.job = b.job /\ next.pending = b.pending
      /\ next.cause = b.cause /\ next.lane = After(b)
      /\ next.route = b.route \/ next.route = "requeue"
  <2>1. After(b) \in {"joined", "again", "try1", "try2", "last", "end"}
    BY DEF After
  <2>. QED BY <1>2, <2>1 DEF Batch
<1>6. After(b) = "joined" => b.job # 0
  BY <1>2 DEF After, ReadInv, Lasts
<1>. HIDE DEF next
<1>7. CASE Await(i, next, i) /\ (b.pending \/ next.lane = "joined")
  <2>1. Plain => next.job # 0 \/ next.route = "requeue"
    <3>. SUFFICES ASSUME Plain, b.job = 0 PROVE next.route = "requeue"
      BY <1>5
    <3>1. b.pending
      BY <1>5, <1>6, <1>7
    <3>2. Handback(i)
      BY <1>2, <1>3, <3>1 DEF OrderInv, Merging
    <3>. QED BY <1>2, <1>5, <3>2 DEF OrderInv, Routed
  <2>. QED BY <1>1, <1>2, <1>3, <1>4, <1>5, <1>7, <2>1, AwaitOrder
<1>8. CASE batches' = [batches EXCEPT ![i].lane = "end"] /\ UNCHANGED jobs
  <2>1. Lanes' = Lanes /\ Jobs' = Jobs /\ (Settled' <=> Settled)
    BY <1>1, <1>8 DEF Lanes, Jobs, Settled
  <2>2. \A k \in Lanes : /\ batches'[k].route = batches[k].route /\ batches'[k].cause = batches[k].cause
                         /\ batches'[k].pending = batches[k].pending /\ batches'[k].job = batches[k].job
    BY <1>2, <1>8 DEF BatchesTyped, Batch, Lanes
  <2>3. faults' \in Nat
    BY <1>1 DEF OrderInv
  <2>. QED BY <1>1, <1>4, <1>8, <2>1, <2>2, <2>3, OrderStays
<1>. QED BY <1>1, <1>7, <1>8

\* A drain has begun: nothing is said of the order any more.
LEMMA DrainOrder ==
  ASSUME IInv, AwaitInv, ReadInv, OrderInv, DrainStarts \/ DrainContinues \/ DrainEnds
  PROVE  OrderInv'
<1>. USE DEF IInv, Stored, Books
<1>0. host' = host /\ UNCHANGED <<fallen, faults>> /\ faults \in Nat
  BY DEF DrainStarts, DrainContinues, DrainEnds, turnV, OrderInv
<1>1. ASSUME NEW list \in Seq(Lanes), NEW upto, Visit(list, upto) PROVE OrderInv'
  <2>1. CASE list = <<>>
    <3>1. UNCHANGED <<batches, jobs>> /\ drain'.at = "rest"
      BY <1>1, <2>1 DEF Visit
    <3>2. Lanes' = Lanes /\ ~Plain'
      BY <3>1 DEF Lanes, Plain
    <3>. QED BY <1>0, <3>1, <3>2, OrderStays
  <2>2. CASE list # <<>>
    <3>1. /\ drain' = [at |-> "first", on |-> {}, todo |-> list, upto |-> upto]
          /\ Await(list[1], batches[list[1]], Drain)
      BY <1>1, <2>2 DEF Visit
    <3>2. PICK i \in Lanes : i = list[1]
      BY <2>2
    <3>3. PICK b \in Batch : b = batches[i]
      BY DEF BatchesTyped, Lanes
    <3>4. Await(i, b, Drain) /\ ~Plain'
      BY <3>1, <3>2, <3>3 DEF Plain
    <3>. QED BY <1>0, <3>3, <3>4, AwaitOrder
  <2>. QED BY <2>1, <2>2
<1>2. CASE DrainStarts
  <2>1. \A k \in Lanes : batches[k].pending => batches[k].todo # <<>>
    BY DEF AwaitInv, Visits
  <2>2. PICK list \in Seq(Lanes) :
          /\ Visit(list, Len(batches)) /\ IsInjective(list)
          /\ \A k \in Lanes : batches[k].pending <=> k \in ToSet(list)
    BY <1>2, <2>1, DrainList DEF ReadInv
  <2>. QED BY <1>1, <2>2
<1>3. CASE DrainContinues
  <2>. DEFINE c == [batches[drain.todo[1]] EXCEPT !.route = "requeue"]
  <2>1. /\ drain.at \in {"first", "second"}
        /\ IF drain.at = "first" /\ batches[drain.todo[1]].route = "teardown" /\ batches[drain.todo[1]].pending
           THEN Await(drain.todo[1], c, Drain) /\ drain' = [drain EXCEPT !.at = "second"]
           ELSE Visit(Tail(drain.todo), drain.upto)
    BY <1>3 DEF DrainContinues
  <2>2. drain.todo \in Seq(Lanes) /\ drain.todo # <<>>
    BY <2>1 DEF DrainTyped
  <2>3. PICK i \in Lanes : i = drain.todo[1]
    BY <2>2
  <2>4. CASE Await(drain.todo[1], c, Drain) /\ drain' = [drain EXCEPT !.at = "second"]
    <3>1. Await(i, c, Drain) /\ drain'.at = "second"
      BY <2>3, <2>4 DEF DrainTyped
    <3>2. batches[i] \in Batch
      BY DEF BatchesTyped, Lanes
    <3>3. /\ c \in Batch /\ c.todo = batches[i].todo /\ c.job = batches[i].job
          /\ c.pending = batches[i].pending /\ c.cause = batches[i].cause /\ c.route = "requeue"
      BY <2>3, <3>2 DEF Batch
    <3>4. ~Plain'
      BY <3>1 DEF Plain
    <3>. HIDE DEF c
    <3>. QED BY <1>0, <3>1, <3>3, <3>4, AwaitOrder
  <2>5. CASE Visit(Tail(drain.todo), drain.upto)
    <3>1. Tail(drain.todo) \in Seq(Lanes)
      BY <2>2
    <3>. QED BY <1>1, <2>5, <3>1
  <2>. QED BY <2>1, <2>4, <2>5
<1>4. CASE DrainEnds
  <2>1. UNCHANGED <<batches, jobs>> /\ drain'.at = "done"
    BY <1>4 DEF DrainEnds, DrainTyped
  <2>2. Lanes' = Lanes /\ ~Plain'
    BY <2>1 DEF Lanes, Plain
  <2>. QED BY <1>0, <2>1, <2>2, OrderStays
<1>. QED BY <1>2, <1>3, <1>4

\* The turn's steps.
LEMMA TurnOrder ==
  ASSUME IInv, ReadInv, AwaitInv, OrderInv, Turn
  PROVE  OrderInv'
<1>. USE DEF IInv
<1>1. ASSUME UNCHANGED <<batches, jobs, fallen, faults, drain>>, Settled' <=> Settled PROVE OrderInv'
  <2>1. Lanes' = Lanes /\ Jobs' = Jobs /\ (Plain' <=> Plain) /\ faults' \in Nat
    BY <1>1 DEF Lanes, Jobs, Plain, OrderInv
  <2>. QED BY <1>1, <2>1, OrderStays
<1>2. CASE \E m \in Messages : Steer(m)
  <2>1. UNCHANGED <<host, batches, jobs, fallen, faults, drain>>
    BY <1>2 DEF Steer
  <2>. QED BY <1>1, <2>1 DEF Settled
<1>3. CASE Poll \/ Release
  <2>1. UNCHANGED <<batches, jobs, fallen, faults, drain>> /\ (Settled' <=> Settled)
    BY <1>3 DEF Poll, Release, queueV, Settled
  <2>. QED BY <1>1, <2>1
<1>4. ASSUME NEW msgs \in Seq(Messages), NEW cause \in {"abort", "abnormal-seal", "exit-close"},
             Discard(msgs, cause), UNCHANGED <<fallen, faults, drain>>, ~Settled, ~Settled'
      PROVE  OrderInv'
  <2>1. Plain' <=> Plain
    BY <1>4 DEF Plain
  <2>. QED BY <1>4, <2>1, DiscardOrder
<1>5. ASSUME NEW msgs \in Seq(Messages), Restore(msgs), host = "poll" PROVE OrderInv'
  <2>1. /\ host' = "idle" /\ UNCHANGED <<fallen, faults, drain>>
        /\ IF phase = "aborted" THEN Discard(msgs, "abort") ELSE UNCHANGED <<batches, jobs>>
    BY <1>5 DEF Restore
  <2>2. ~Settled /\ ~Settled'
    BY <1>5, <2>1 DEF Settled
  <2>3. CASE phase = "aborted"
    BY <1>4, <2>1, <2>2, <2>3
  <2>4. CASE phase # "aborted"
    BY <1>1, <2>1, <2>2, <2>4
  <2>. QED BY <2>3, <2>4
<1>6. CASE PollConsumes
  <2>. DEFINE S == {m \in Messages : ~Takes(m)}
              msgs == Kept(claimed, S)
  <2>1. Restore(msgs) /\ host = "poll"
    BY <1>6 DEF PollConsumes
  <2>2. msgs \in Seq(Messages)
    <3>1. msgs \in Seq(Messages \cap S) /\ ToSet(msgs) = ToSet(claimed) \cap S
      BY KeptMembers DEF TurnTyped
    <3>. HIDE DEF msgs, S
    <3>. QED BY <3>1
  <2>. HIDE DEF msgs
  <2>. QED BY <1>5, <2>1, <2>2
<1>7. CASE PollGivesUp
  BY <1>5, <1>7 DEF PollGivesUp, TurnTyped
<1>8. waiting \in Seq(Messages)
  BY DEF TurnTyped
<1>9. phase = "running" => ~Settled
  BY DEF Stages, Settled
<1>10. CASE TryBeginClose
  <2>1. /\ phase = "running" /\ Discard(waiting, "exit-close")
        /\ UNCHANGED <<host, fallen, faults, drain>>
    BY <1>10 DEF TryBeginClose
  <2>. QED BY <1>4, <1>8, <1>9, <2>1 DEF Settled
<1>11. CASE \E r \in {"user", "other"} : Abort(r)
  <2>1. /\ phase = "running" /\ Discard(waiting, "abort")
        /\ UNCHANGED <<host, fallen, faults, drain>>
    BY <1>11 DEF Abort, AbortEntry
  <2>. QED BY <1>4, <1>8, <1>9, <2>1 DEF Settled
<1>12. CASE HostEnds
  <2>1. /\ host = "idle" /\ host' = "ended" /\ UNCHANGED <<fallen, faults, drain>>
        /\ IF phase = "running" THEN Discard(waiting, "abnormal-seal") ELSE UNCHANGED <<batches, jobs>>
    BY <1>12 DEF HostEnds
  <2>2. ~Settled /\ ~Settled'
    BY <2>1 DEF Settled
  <2>. QED BY <1>1, <1>4, <1>8, <2>1, <2>2
<1>. QED BY <1>2, <1>3, <1>6, <1>7, <1>10, <1>11, <1>12, CommitOrder DEF Turn

\* A shutdown: what it hands over is tracked, and a drain begins.
LEMMA ShutdownOrder ==
  ASSUME IInv, OrderInv, Shutdown
  PROVE  OrderInv'
<1>1. /\ IF phase = "running" THEN AbortEntry("other") ELSE UNCHANGED <<turnV, batches, jobs>>
      /\ drain' = [at |-> "inflight", on |-> Jobs, todo |-> <<>>, upto |-> 0]
      /\ UNCHANGED <<fallen, faults>>
  BY DEF Shutdown
<1>2. ~Plain'
  BY <1>1 DEF Plain
<1>3. CASE phase = "running"
  <2>1. host' = host /\ Discard(waiting, "abort")
    BY <1>1, <1>3 DEF AbortEntry
  <2>2. ~Settled /\ ~Settled' /\ waiting \in Seq(Messages)
    BY <1>3, <2>1 DEF IInv, Stages, TurnTyped, Settled
  <2>. QED BY <1>1, <1>2, <2>1, <2>2, DiscardOrder
<1>4. CASE phase # "running"
  <2>1. UNCHANGED <<batches, jobs>>
    BY <1>1, <1>4
  <2>2. Lanes' = Lanes /\ faults' \in Nat
    BY <1>1, <2>1 DEF Lanes, OrderInv
  <2>. QED BY <1>2, <2>1, <2>2, OrderStays
<1>. QED BY <1>3, <1>4

\* Nothing has fallen when the turn begins.
LEMMA OrderInit == Init => OrderInv
<1>. SUFFICES ASSUME Init PROVE OrderInv
  OBVIOUS
<1>1. Lanes = {} /\ Jobs = {} /\ fallen = <<>> /\ Ascends(<<>>)
  BY DEF Init, Lanes, Jobs, Ascends
<1>. QED BY <1>1 DEF Init, OrderInv, Routed, Merging, Falling, Settled

\* Every step keeps the order in which messages fall.
LEMMA OrderNext == IInv /\ ReadInv /\ AwaitInv /\ OrderInv /\ [Next]_vars => OrderInv'
<1>. SUFFICES ASSUME IInv, ReadInv, AwaitInv, OrderInv, [Next]_vars PROVE OrderInv'
  OBVIOUS
<1>1. CASE Dispatch \/ OtherWake \/ ContinueQueue \/ UNCHANGED vars
  <2>1. UNCHANGED <<host, batches, jobs, drain, fallen, faults>>
    BY <1>1 DEF Dispatch, OtherWake, ContinueQueue, vars, turnV
  <2>2. Lanes' = Lanes /\ Jobs' = Jobs /\ (Plain' <=> Plain) /\ (Settled' <=> Settled) /\ faults' \in Nat
    BY <2>1 DEF Lanes, Jobs, Plain, Settled, OrderInv
  <2>. QED BY <2>1, <2>2, OrderStays
<1>. QED BY <1>1, TurnOrder, WritesOrder, LaneOrder, ShutdownOrder, DrainOrder DEF Next, Requeue

\* The next turn reads what fell into the conversation in the order it was sent: a
\* poll hands its messages over after the abort handed over those that came later,
\* and still they fall in one write, in order, unless a write fails or a shutdown
\* writes batch by batch.
THEOREM FallsInTheOrderSent == Spec => []FallenInOrder
<1>1. Init => IInv /\ ReadInv /\ AwaitInv /\ OrderInv
  BY IInvInit, ReadInit, AwaitInit, OrderInit
<1>2. IInv /\ ReadInv /\ AwaitInv /\ OrderInv /\ [Next]_vars => (IInv /\ ReadInv /\ AwaitInv /\ OrderInv)'
  BY IInvNext, ReadNext, AwaitNext, OrderNext
<1>3. Spec => [](IInv /\ ReadInv /\ AwaitInv /\ OrderInv)
  BY <1>1, <1>2, PTL DEF Spec
<1>4. OrderInv => FallenInOrder
  BY DEF OrderInv, Falling, Plain, Ascends, FallenInOrder
<1>. QED BY <1>3, <1>4, PTL

-----------------------------------------------------------------------------
(* Of what type the state is.                                               *)

\* The turn's own variables, and the marks of the queue.
Marks ==
  /\ phase \in {"running", "closing", "aborted", "gone"} /\ reason \in {"none", "user", "other"}
  /\ host \in {"idle", "poll", "ended", "settling", "gone"} /\ exit \in BOOLEAN
  /\ resumed \subseteq Lanes /\ paused \in BOOLEAN /\ awake \in BOOLEAN /\ faults \in 0..Faults

\* No message is twice in a list.
Buffers == IsInjective(waiting) /\ IsInjective(claimed)
Lists ==
  /\ IsInjective(fallen)
  /\ \A k \in Lanes : IsInjective(batches[k].todo)
  /\ \A j \in Jobs : /\ IsInjective(jobs[j].todo)
                     /\ jobs[j].kind = "teardown" => ToSet(jobs[j].todo) \cap ToSet(fallen) = {}

\* A batch points to the job of a batch.
Linked == \A k \in Lanes : batches[k].job = 0 \/ batches[k].job \in Lanes

\* Every batch was handed over with a message of its own, so there is room for it
\* among the batches and jobs.
Buffered == ToSet(waiting) \cup ToSet(claimed)
OwnMessage(f) ==
  /\ f \in [Lanes -> Users \cap accepted] /\ \A k \in Lanes : f[k] \notin Buffered
  /\ \A k, l \in Lanes : f[k] = f[l] => k = l
Roomy == \E f : OwnMessage(f)

\* The parts that speak of messages.
Contents == Buffers /\ Roomy /\ Lists /\ Linked

\* So there are no more batches than messages of the user.
LEMMA RoomForAll ==
  ASSUME NEW n \in Nat, NEW f \in [1..n -> Users], \A k, l \in 1..n : f[k] = f[l] => k = l
  PROVE  n <= Cardinality(Users) /\ 1..n \subseteq Batches
<1>1. IsFiniteSet(Users)
  <2>1. IsFiniteSet(Messages)
    BY SteeringAssumption, FS_Interval DEF Messages
  <2>. QED BY <2>1, UsersAreMessages, FS_Subset
<1>2. IsFiniteSet(1..n) /\ Cardinality(1..n) = n
  <2>1. 1 \in Int /\ n \in Int
    OBVIOUS
  <2>2. IsFiniteSet(1..n) /\ Cardinality(1..n) = IF 1 > n THEN 0 ELSE n - 1 + 1
    BY <2>1, FS_Interval
  <2>. QED BY <2>2
<1>3. f \in Injection(1..n, Users)
  BY DEF Injection, IsInjective
<1>4. Cardinality(1..n) <= Cardinality(Users)
  BY <1>1, <1>2, <1>3, FS_Injection
<1>5. Cardinality(Users) \in Nat
  BY <1>1, FS_CardinalityType
<1>. QED BY <1>2, <1>4, <1>5 DEF Batches

LEMMA RoomForBatches ==
  ASSUME BatchesTyped, Roomy
  PROVE  Lanes \subseteq Batches
<1>1. Lanes = 1..Len(batches) /\ Len(batches) \in Nat
  BY DEF BatchesTyped, Lanes
<1>2. PICK f : OwnMessage(f)
  BY DEF Roomy
<1>3. f \in [1..Len(batches) -> Users] /\ \A k, l \in 1..Len(batches) : f[k] = f[l] => k = l
  BY <1>1, <1>2 DEF OwnMessage
<1>. PICK n \in Nat : n = Len(batches)
  BY <1>1
<1>4. 1..n \subseteq Batches
  BY <1>3, RoomForAll
<1>. QED BY <1>1, <1>4

\* What is handed over has the order in which the turn had it.
LEMMA DiscardTodo ==
  ASSUME Stored, NEW msgs \in Seq(Messages), NEW cause \in {"abort", "abnormal-seal", "exit-close"},
         Discard(msgs, cause)
  PROVE  /\ \A k \in Lanes' : (k \in Lanes /\ batches'[k] = batches[k]) \/ batches'[k].todo = Kept(msgs, Users)
         /\ \A j \in Jobs' : (j \in Jobs /\ jobs'[j] = jobs[j]) \/ jobs'[j].todo = Kept(msgs, Users)
<1>. USE DEF Stored, Books
<1>. DEFINE h == Handed(msgs, cause)
<1>. PICK n : n = Len(batches) + 1
  OBVIOUS
<1>0. Lanes = 1..Len(batches) /\ Len(batches) \in Nat
  BY DEF BatchesTyped, Lanes
<1>1. h.todo = Kept(msgs, Users) /\ h = [h EXCEPT !.todo = h.todo]
  BY DEF Handed
<1>2. \/ UNCHANGED <<batches, jobs>>
      \/ batches' = Append(batches, h) /\ jobs' = jobs
      \/ /\ batches' = Append(batches, [h EXCEPT !.job = n])
         /\ jobs' = [jobs EXCEPT ![n] = Job(h, n, <<>>)]
  BY DEF Discard
<1>3. [h EXCEPT !.job = n].todo = h.todo /\ Job(h, n, <<>>).todo = h.todo
  BY DEF Handed, Job
<1>. HIDE DEF h
<1>4. CASE UNCHANGED <<batches, jobs>>
  BY <1>4 DEF Lanes, Jobs
<1>5. ASSUME NEW c, c.todo = h.todo, batches' = Append(batches, c)
      PROVE  \A k \in Lanes' : (k \in Lanes /\ batches'[k] = batches[k]) \/ batches'[k].todo = Kept(msgs, Users)
  <2>1. Lanes' = Lanes \cup {n} /\ batches'[n] = c /\ \A k \in Lanes : batches'[k] = batches[k]
    BY <1>0, <1>5 DEF Lanes, BatchesTyped
  <2>. QED BY <1>1, <1>5, <2>1
<1>6. CASE batches' = Append(batches, h) /\ jobs' = jobs
  BY <1>5, <1>6 DEF Jobs
<1>7. CASE /\ batches' = Append(batches, [h EXCEPT !.job = n])
           /\ jobs' = [jobs EXCEPT ![n] = Job(h, n, <<>>)]
  <2>. PICK c : c = [h EXCEPT !.job = n]
    OBVIOUS
  <2>1. \A k \in Lanes' : (k \in Lanes /\ batches'[k] = batches[k]) \/ batches'[k].todo = Kept(msgs, Users)
    BY <1>3, <1>5, <1>7
  <2>2. \A j \in Batches : jobs'[j] = jobs[j] \/ jobs'[j].todo = h.todo
    BY <1>3, <1>7 DEF JobsTyped
  <2>3. \A j \in Jobs' : (j \in Jobs /\ jobs'[j] = jobs[j]) \/ jobs'[j].todo = Kept(msgs, Users)
    BY <1>1, <2>2 DEF Jobs
  <2>. QED BY <2>1, <2>3
<1>. QED BY <1>2, <1>4, <1>6, <1>7

\* A write that is over leaves of a batch what it kept of it, in its order.
LEMMA SettleTodo ==
  ASSUME Stored, NEW i \in Jobs, NEW ok \in BOOLEAN, NEW written, Settle(i, ok, written)
  PROVE  \A k \in Lanes : batches'[k].todo \in {batches[k].todo, Kept(batches[k].todo, Messages \ written)}
<1>. DEFINE over(b) == [b EXCEPT
        !.todo = IF jobs[i].kind = "teardown" THEN Kept(@, Messages \ written) ELSE @,
        !.job = 0, !.lane = IF @ = "first" THEN "release" ELSE @]
      left(b) == [b EXCEPT !.pending = @ /\ ~(ok \/ b.todo = <<>>)]
<1>1. batches' = [k \in Lanes |-> IF batches[k].job = i THEN left(over(batches[k])) ELSE batches[k]]
  BY DEF Settle
<1>2. ASSUME NEW b \in Batch
      PROVE  left(over(b)).todo \in {b.todo, Kept(b.todo, Messages \ written)}
  BY DEF Batch
<1>. HIDE DEF over, left
<1>3. \A k \in Lanes : batches[k] \in Batch
  BY DEF Stored, Books, BatchesTyped, Lanes
<1>. QED BY <1>1, <1>2, <1>3

\* The turn's messages are its batches' own, as long as none comes back.
LEMMA RoomStays ==
  ASSUME Roomy, Lanes' = Lanes, accepted \subseteq accepted', Buffered' \cap accepted \subseteq Buffered
  PROVE  Roomy'
<1>1. PICK f : OwnMessage(f)
  BY DEF Roomy
<1>2. /\ f \in [Lanes' -> Users \cap accepted'] /\ \A k \in Lanes' : f[k] \notin Buffered'
      /\ \A k, l \in Lanes' : f[k] = f[l] => k = l
  BY <1>1 DEF OwnMessage
<1>. QED BY <1>2 DEF Roomy, OwnMessage

\* A batch that is handed over has one that was the turn's till then.
LEMMA RoomGrows ==
  ASSUME Roomy, NEW n, n \notin Lanes, Lanes' = Lanes \cup {n}, accepted' = accepted,
         NEW m \in Users \cap accepted, m \in Buffered, m \notin Buffered', Buffered' \subseteq Buffered
  PROVE  Roomy'
<1>1. PICK f : OwnMessage(f)
  BY DEF Roomy
<1>2. PICK g : g = [k \in Lanes \cup {n} |-> IF k = n THEN m ELSE f[k]]
  OBVIOUS
<1>3. g \in [Lanes' -> Users \cap accepted']
  BY <1>1, <1>2 DEF OwnMessage
<1>4. \A k \in Lanes' : g[k] \notin Buffered'
  BY <1>1, <1>2 DEF OwnMessage
<1>5. \A k, l \in Lanes' : g[k] = g[l] => k = l
  BY <1>1, <1>2 DEF OwnMessage
<1>. QED BY <1>3, <1>4, <1>5 DEF Roomy, OwnMessage

\* What the turn lets go of.
LEMMA DiscardRoom ==
  ASSUME IInv, ReadInv, Roomy, NEW msgs \in Seq(Messages),
         NEW cause \in {"abort", "abnormal-seal", "exit-close"}, Discard(msgs, cause),
         accepted' = accepted, ToSet(msgs) \subseteq Buffered, Buffered' \subseteq Buffered,
         Buffered' \cap ToSet(msgs) = {}
  PROVE  Roomy'
<1>1. CASE UNCHANGED <<batches, jobs>>
  <2>1. Lanes' = Lanes
    BY <1>1 DEF Lanes
  <2>. QED BY <2>1, RoomStays
<1>2. CASE ~UNCHANGED <<batches, jobs>>
  <2>1. PICK n \in Nat \ Lanes :
              /\ n # 0 /\ Lanes' = Lanes \cup {n} /\ Jobs' \subseteq Jobs \cup {n}
              /\ \A k \in Lanes : batches'[k] = batches[k] /\ Queued(k)' = Queued(k)
              /\ \A j \in Jobs : j \in Jobs' /\ jobs'[j] = jobs[j]
              /\ Queued(n)' = ToSet(msgs) \cap Users
              /\ batches'[n].cause = cause
              /\ batches'[n].lane = "first" \/ batches'[n].route = "requeue" => cause = "exit-close"
              /\ batches'[n].lane = "first" => batches'[n].job # 0
              /\ n \in Jobs' => batches'[n].route = "requeue" /\ jobs'[n].kind = "requeue"
              /\ n = Len(batches) + 1 /\ batches'[n].pending /\ batches'[n].todo # <<>>
              /\ batches'[n].lane \in {"first", "release"}
              /\ cause = "exit-close" =>
                   /\ batches'[n].route = "requeue" /\ batches'[n].job = n
                   /\ n \in Batches => n \in Jobs'
              /\ cause # "exit-close" => batches'[n].job = 0
              /\ n \in Jobs' => jobs'[n].waiters = <<>> /\ ~jobs'[n].enqueued
    BY <1>2, DiscardBooks DEF IInv
  <2>2. batches'[n].todo = Kept(msgs, Users)
    BY <2>1, DiscardTodo DEF IInv
  <2>. PICK kept : kept = Kept(msgs, Users)
    OBVIOUS
  <2>3. kept \in Seq(Messages \cap Users) /\ ToSet(kept) = ToSet(msgs) \cap Users
    BY KeptMembers
  <2>4. kept # <<>>
    BY <2>1, <2>2
  <2>5. PICK m : m \in ToSet(msgs) \cap Users
    <3>1. PICK D : D = Messages \cap Users
      OBVIOUS
    <3>2. ToSet(kept) = {kept[1]} \cup ToSet(Tail(kept))
      BY <2>3, <2>4, <3>1, SplitMembers
    <3>. QED BY <2>3, <3>2
  <2>6. m \in accepted
    BY <2>5 DEF ReadInv, Apart, TurnHas, Buffered
  <2>. QED BY <2>1, <2>5, <2>6, RoomGrows
<1>. QED BY <1>1, <1>2

\* Steps that write no message, and give a batch no other messages than it had.
LEMMA ListsStay ==
  ASSUME Lists, Linked, Lanes' = Lanes, fallen' = fallen,
         \A k \in Lanes : /\ batches'[k].todo = batches[k].todo
                          /\ batches'[k].job \in {batches[k].job, 0} \cup Lanes,
         \A j \in Jobs' :
           \/ j \in Jobs /\ jobs'[j].todo = jobs[j].todo /\ jobs'[j].kind = jobs[j].kind
           \/ \E k \in Lanes : /\ jobs'[j].todo = batches[k].todo
                               /\ jobs'[j].kind = "teardown" => Queued(k) \cap ToSet(fallen) = {}
  PROVE  Lists' /\ Linked'
<1>1. IsInjective(fallen')
  BY DEF Lists
<1>2. \A k \in Lanes' : IsInjective(batches'[k].todo)
  BY DEF Lists
<1>3. ASSUME NEW j \in Jobs'
      PROVE  /\ IsInjective(jobs'[j].todo)
             /\ jobs'[j].kind = "teardown" => ToSet(jobs'[j].todo) \cap ToSet(fallen') = {}
  <2>1. CASE j \in Jobs /\ jobs'[j].todo = jobs[j].todo /\ jobs'[j].kind = jobs[j].kind
    BY <2>1 DEF Lists
  <2>2. ASSUME NEW k \in Lanes, jobs'[j].todo = batches[k].todo,
               jobs'[j].kind = "teardown" => Queued(k) \cap ToSet(fallen) = {}
        PROVE  /\ IsInjective(jobs'[j].todo)
               /\ jobs'[j].kind = "teardown" => ToSet(jobs'[j].todo) \cap ToSet(fallen') = {}
    BY <2>2 DEF Lists, Queued
  <2>. QED BY <2>1, <2>2
<1>4. ToSet(fallen)' = ToSet(fallen') /\ \A j \in Jobs' : ToSet(jobs[j].todo)' = ToSet(jobs'[j].todo)
  BY DEF ToSet
<1>5. /\ IsInjective(fallen)' <=> IsInjective(fallen')
      /\ \A k \in Lanes' : IsInjective(batches[k].todo)' <=> IsInjective(batches'[k].todo)
      /\ \A j \in Jobs' : IsInjective(jobs[j].todo)' <=> IsInjective(jobs'[j].todo)
  BY DEF IsInjective
<1>6. Lists'
  BY <1>1, <1>2, <1>3, <1>4, <1>5 DEF Lists
<1>7. Linked'
  BY DEF Linked
<1>. QED BY <1>6, <1>7

\* What the turn lets go of.
LEMMA DiscardLists ==
  ASSUME IInv, Lists, Linked, NEW msgs \in Seq(Messages), IsInjective(msgs), fallen' = fallen,
         NEW cause \in {"abort", "abnormal-seal", "exit-close"}, Discard(msgs, cause)
  PROVE  Lists' /\ Linked'
<1>1. CASE UNCHANGED <<batches, jobs>>
  BY <1>1 DEF Lists, Linked, IsInjective, ToSet, Lanes, Jobs
<1>2. CASE ~UNCHANGED <<batches, jobs>>
  <2>1. PICK n \in Nat \ Lanes :
              /\ n # 0 /\ Lanes' = Lanes \cup {n} /\ Jobs' \subseteq Jobs \cup {n}
              /\ \A k \in Lanes : batches'[k] = batches[k] /\ Queued(k)' = Queued(k)
              /\ \A j \in Jobs : j \in Jobs' /\ jobs'[j] = jobs[j]
              /\ Queued(n)' = ToSet(msgs) \cap Users
              /\ batches'[n].cause = cause
              /\ batches'[n].lane = "first" \/ batches'[n].route = "requeue" => cause = "exit-close"
              /\ batches'[n].lane = "first" => batches'[n].job # 0
              /\ n \in Jobs' => batches'[n].route = "requeue" /\ jobs'[n].kind = "requeue"
              /\ n = Len(batches) + 1 /\ batches'[n].pending /\ batches'[n].todo # <<>>
              /\ batches'[n].lane \in {"first", "release"}
              /\ cause = "exit-close" =>
                   /\ batches'[n].route = "requeue" /\ batches'[n].job = n
                   /\ n \in Batches => n \in Jobs'
              /\ cause # "exit-close" => batches'[n].job = 0
              /\ n \in Jobs' => jobs'[n].waiters = <<>> /\ ~jobs'[n].enqueued
    BY <1>2, DiscardBooks DEF IInv
  <2>2. /\ \A k \in Lanes' : (k \in Lanes /\ batches'[k] = batches[k]) \/ batches'[k].todo = Kept(msgs, Users)
        /\ \A j \in Jobs' : (j \in Jobs /\ jobs'[j] = jobs[j]) \/ jobs'[j].todo = Kept(msgs, Users)
    BY DiscardTodo DEF IInv
  <2>. PICK kept : kept = Kept(msgs, Users)
    OBVIOUS
  <2>3. IsInjective(kept)
    BY KeptOnce
  <2>4. \A k \in Lanes' : IsInjective(batches'[k].todo)
    BY <2>2, <2>3 DEF Lists
  <2>5. ASSUME NEW j \in Jobs'
        PROVE  /\ IsInjective(jobs'[j].todo)
               /\ jobs'[j].kind = "teardown" => ToSet(jobs'[j].todo) \cap ToSet(fallen) = {}
    <3>1. CASE j \in Jobs /\ jobs'[j] = jobs[j]
      BY <3>1 DEF Lists
    <3>2. CASE jobs'[j].todo = Kept(msgs, Users) /\ j \notin Jobs
      BY <2>1, <2>3, <3>2
    <3>. QED BY <2>1, <2>2, <3>1, <3>2
  <2>6. /\ IsInjective(fallen)' <=> IsInjective(fallen')
        /\ \A k \in Lanes' : IsInjective(batches[k].todo)' <=> IsInjective(batches'[k].todo)
        /\ \A j \in Jobs' : /\ IsInjective(jobs[j].todo)' <=> IsInjective(jobs'[j].todo)
                            /\ ToSet(jobs[j].todo)' = ToSet(jobs'[j].todo)
        /\ ToSet(fallen)' = ToSet(fallen)
    BY DEF IsInjective, ToSet
  <2>7. Lists'
    BY <2>4, <2>5, <2>6 DEF Lists
  <2>8. Linked'
    BY <2>1 DEF Linked
  <2>. QED BY <2>7, <2>8
<1>. QED BY <1>1, <1>2

\* A batch that is awaited: a write that begins has the messages of its batch, which
\* have not fallen.
LEMMA AwaitLists ==
  ASSUME IInv, ReadInv, Lists, Linked, NEW i \in Lanes, NEW b \in Batch, NEW who, b.todo = batches[i].todo,
         b.job = batches[i].job, b.pending = batches[i].pending, b.cause = batches[i].cause,
         Await(i, b, who), fallen' = fallen
  PROVE  Lists' /\ Linked'
<1>1. /\ Lanes' = Lanes /\ Jobs \subseteq Jobs'
      /\ \A k \in Lanes : Queued(k)' = Queued(k) /\ (k # i => batches'[k] = batches[k])
      /\ batches'[i] = IF batches[i].job # 0 THEN b ELSE [b EXCEPT !.job = i]
      /\ \A j \in Jobs : /\ jobs'[j].kind = jobs[j].kind
                         /\ jobs'[j].todo = jobs[j].todo /\ jobs'[j].enqueued = jobs[j].enqueued
      /\ \A j \in Jobs' \ Jobs : /\ j = i /\ batches[i].job = 0 /\ ~jobs'[j].enqueued
                                 /\ jobs'[j].kind = b.route /\ jobs'[j].todo = b.todo
  BY AwaitBooks DEF IInv
<1>2. \A k \in Lanes : /\ batches'[k].todo = batches[k].todo
                       /\ batches'[k].job \in {batches[k].job, 0} \cup Lanes
  BY <1>1 DEF Batch
<1>3. batches[i].job = 0 => Queued(i) \cap ToSet(fallen) = {}
  BY DEF ReadInv, Falls, Writing, Batches
<1>4. \A j \in Jobs' :
        \/ j \in Jobs /\ jobs'[j].todo = jobs[j].todo /\ jobs'[j].kind = jobs[j].kind
        \/ \E k \in Lanes : /\ jobs'[j].todo = batches[k].todo
                            /\ jobs'[j].kind = "teardown" => Queued(k) \cap ToSet(fallen) = {}
  BY <1>1, <1>3
<1>. QED BY <1>1, <1>2, <1>4, ListsStay

\* A write that is over.
LEMMA SettleLists ==
  ASSUME Stored, Lists, Linked, NEW i \in Jobs, NEW ok \in BOOLEAN, NEW written, Settle(i, ok, written),
         IsInjective(fallen'),
         \A j \in Jobs : j # i /\ jobs[j].kind = "teardown" => ToSet(jobs[j].todo) \cap ToSet(fallen') = {}
  PROVE  Lists' /\ Linked'
<1>1. /\ Lanes' = Lanes /\ Jobs' = Jobs \ {i} /\ \A j \in Jobs' : jobs'[j] = jobs[j]
      /\ \A k \in Lanes : batches[k].job # i => batches'[k] = batches[k] /\ Queued(k)' = Queued(k)
      /\ \A k \in Lanes : batches[k].job = i =>
           /\ batches'[k].job = 0 /\ batches'[k].cause = batches[k].cause
           /\ batches'[k].route = batches[k].route
           /\ batches'[k].lane = IF batches[k].lane = "first" THEN "release" ELSE batches[k].lane
           /\ batches'[k].pending => batches[k].pending /\ ~ok
           /\ Queued(k)' = IF jobs[i].kind = "teardown" THEN Queued(k) \ written ELSE Queued(k)
  BY SettleBooks
<1>. PICK S : S = Messages \ written
  OBVIOUS
<1>2. \A k \in Lanes : batches'[k].todo \in {batches[k].todo, Kept(batches[k].todo, S)}
  BY SettleTodo
<1>3. \A k \in Lanes : batches[k].todo \in Seq(Users)
  <2>1. \A k \in Lanes : batches[k] \in Batch
    BY DEF Stored, Books, BatchesTyped, Lanes
  <2>. QED BY <2>1 DEF Batch
<1>4. \A k \in Lanes : IsInjective(Kept(batches[k].todo, S))
  BY <1>3, KeptOnce DEF Lists
<1>5. \A k \in Lanes' : IsInjective(batches'[k].todo)
  BY <1>1, <1>2, <1>4 DEF Lists
<1>6. /\ IsInjective(fallen)' <=> IsInjective(fallen')
      /\ \A k \in Lanes' : IsInjective(batches[k].todo)' <=> IsInjective(batches'[k].todo)
      /\ \A j \in Jobs' : /\ IsInjective(jobs[j].todo)' <=> IsInjective(jobs'[j].todo)
                          /\ ToSet(jobs[j].todo)' = ToSet(jobs'[j].todo)
      /\ ToSet(fallen)' = ToSet(fallen')
  BY DEF IsInjective, ToSet
<1>7. Lists'
  BY <1>1, <1>5, <1>6 DEF Lists
<1>8. Linked'
  BY <1>1 DEF Linked
<1>. QED BY <1>7, <1>8

\* A message falls: it had not fallen, and no other write has it.
LEMMA LandLists ==
  ASSUME IInv, ReadInv, Lists, Linked, NEW i \in Batches, Land(i)
  PROVE  Lists' /\ Linked'
<1>. USE DEF IInv, Stored, Books
<1>1. i \in Jobs /\ jobs[i].kind = "teardown"
  BY DEF Land, Jobs, NoJob
<1>2. jobs[i] \in Write /\ jobs[i].todo \in Seq(Users)
  BY <1>1 DEF JobsTyped, Write
<1>. PICK todo \in Seq(Users) : todo = jobs[i].todo
  BY <1>2
<1>3. /\ fallen' = IF todo = <<>> THEN fallen ELSE Append(fallen, Head(todo))
      /\ IF Len(todo) > 1
         THEN jobs' = [jobs EXCEPT ![i].todo = Tail(@)] /\ UNCHANGED <<batches, ready, drain>>
         ELSE Settle(i, TRUE, ToSet(fallen) \cup ToSet(todo))
  BY DEF Land
<1>4. IsInjective(todo) /\ ToSet(todo) \cap ToSet(fallen) = {}
  BY <1>1 DEF Lists
<1>5. ASSUME todo # <<>>
      PROVE  /\ todo[1] \in Users /\ Tail(todo) \in Seq(Users) /\ fallen' = Append(fallen, todo[1])
             /\ ToSet(todo) = {todo[1]} \cup ToSet(Tail(todo)) /\ ToSet(fallen') = ToSet(fallen) \cup {todo[1]}
             /\ IsInjective(fallen') /\ IsInjective(Tail(todo)) /\ todo[1] \notin ToSet(Tail(todo))
  <2>1. /\ Head(todo) = todo[1] /\ todo[1] \in Users /\ Tail(todo) \in Seq(Users)
        /\ ToSet(todo) = {todo[1]} \cup ToSet(Tail(todo))
    BY <1>5, SplitMembers
  <2>. PICK x \in Users : x = todo[1]
    BY <2>1
  <2>2. ToSet(Append(fallen, x)) = ToSet(fallen) \cup {x}
    BY AppendMembers DEF QueueTyped
  <2>3. x \notin ToSet(fallen)
    BY <1>4, <2>1
  <2>4. IsInjective(Append(fallen, x))
    BY <2>3, AppendOnce DEF QueueTyped, Lists
  <2>5. IsInjective(Tail(todo)) /\ todo[1] \notin ToSet(Tail(todo))
    BY <1>4, <1>5, TailOnce
  <2>. QED BY <1>3, <1>5, <2>1, <2>2, <2>4, <2>5
<1>6. ToSet(fallen') \subseteq ToSet(fallen) \cup ToSet(todo) /\ IsInjective(fallen')
  <2>1. CASE todo = <<>>
    BY <1>3, <2>1 DEF Lists
  <2>. QED BY <1>5, <2>1
<1>7. ASSUME NEW j \in Jobs, j # i, jobs[j].kind = "teardown"
      PROVE  ToSet(jobs[j].todo) \cap ToSet(fallen') = {}
  <2>. SUFFICES ASSUME NEW m, m \in ToSet(jobs[j].todo), m \in ToSet(todo) PROVE FALSE
    BY <1>6, <1>7 DEF Lists
  <2>1. PICK k \in Lanes : batches[k].job = j /\ m \in Queued(k)
    BY <1>7 DEF ReadInv, Falls
  <2>2. PICK l \in Lanes : batches[l].job = i /\ m \in Queued(l)
    BY <1>1 DEF ReadInv, Falls
  <2>. QED BY <1>7, <2>1, <2>2, OneBatch DEF ReadInv
<1>8. CASE Len(todo) > 1
  <2>0. todo # <<>>
    <3>1. Len(<<>>) = 0
      OBVIOUS
    <3>. QED BY <1>8, <3>1
  <2>. PICK rest : rest = Tail(todo)
    OBVIOUS
  <2>1. todo # <<>> /\ jobs' = [jobs EXCEPT ![i].todo = rest] /\ UNCHANGED <<batches, drain>>
    BY <1>3, <1>8, <2>0
  <2>2. /\ Lanes' = Lanes /\ Jobs' = Jobs
        /\ \A j \in Jobs : jobs'[j].kind = jobs[j].kind /\ jobs'[j].todo = IF j = i THEN rest ELSE jobs[j].todo
    <3>1. \A j \in Batches : jobs'[j] = IF j = i THEN [jobs[i] EXCEPT !.todo = rest] ELSE jobs[j]
      BY <1>1, <2>1 DEF JobsTyped
    <3>2. [jobs[i] EXCEPT !.todo = rest].kind = jobs[i].kind
          /\ [jobs[i] EXCEPT !.todo = rest].todo = rest
      BY <1>2 DEF Write
    <3>3. Jobs' = Jobs
      BY <1>1, <3>1, <3>2 DEF Jobs, NoJob
    <3>4. Lanes' = Lanes
      BY <2>1 DEF Lanes
    <3>5. \A j \in Jobs : jobs'[j].kind = jobs[j].kind /\ jobs'[j].todo = IF j = i THEN rest ELSE jobs[j].todo
      <4>. TAKE j \in Jobs
      <4>1. CASE j = i
        BY <3>1, <3>2, <4>1 DEF Jobs
      <4>2. CASE j # i
        BY <3>1, <4>2 DEF Jobs
      <4>. QED BY <4>1, <4>2
    <3>. QED BY <3>3, <3>4, <3>5
  <2>3. ASSUME NEW j \in Jobs'
        PROVE  /\ IsInjective(jobs'[j].todo)
               /\ jobs'[j].kind = "teardown" => ToSet(jobs'[j].todo) \cap ToSet(fallen') = {}
    <3>1. CASE j = i
      <4>1. jobs'[j].todo = rest
        BY <2>2, <3>1
      <4>2. IsInjective(rest) /\ ToSet(rest) \cap ToSet(fallen') = {}
        BY <1>4, <1>5, <2>0
      <4>. QED BY <4>1, <4>2
    <3>2. CASE j # i
      BY <1>7, <2>2, <3>2 DEF Lists
    <3>. QED BY <3>1, <3>2
  <2>4. /\ IsInjective(fallen)' <=> IsInjective(fallen')
        /\ \A k \in Lanes' : IsInjective(batches[k].todo)' <=> IsInjective(batches[k].todo)
        /\ \A j \in Jobs' : /\ IsInjective(jobs[j].todo)' <=> IsInjective(jobs'[j].todo)
                            /\ ToSet(jobs[j].todo)' = ToSet(jobs'[j].todo)
        /\ ToSet(fallen)' = ToSet(fallen')
    BY <2>1 DEF IsInjective, ToSet
  <2>5. Lists'
    BY <1>6, <2>2, <2>3, <2>4 DEF Lists
  <2>6. Linked'
    BY <2>1, <2>2 DEF Linked
  <2>. QED BY <2>5, <2>6
<1>9. CASE ~(Len(todo) > 1)
  <2>1. PICK ok \in BOOLEAN : ok = TRUE
    OBVIOUS
  <2>2. PICK written : written = ToSet(fallen) \cup ToSet(todo)
    OBVIOUS
  <2>3. Settle(i, ok, written)
    BY <1>3, <1>9, <2>1, <2>2
  <2>. QED BY <1>1, <1>6, <1>7, <2>3, SettleLists
<1>. QED BY <1>8, <1>9

\* Writes that go on or end.
LEMMA WritesLists ==
  ASSUME IInv, ReadInv, Lists, Linked, NEW i \in Batches, Land(i) \/ WriteFails(i) \/ Enqueue(i) \/ Pause(i)
  PROVE  Lists' /\ Linked'
<1>. USE DEF IInv, Stored, Books
<1>1. i \in Jobs
  <2>1. jobs[i] # NoJob \/ jobs[i].kind \in {"teardown", "requeue"}
    BY DEF Land, WriteFails, Enqueue, Pause
  <2>. QED BY <2>1 DEF Jobs, NoJob
<1>2. ASSUME NEW ok \in BOOLEAN, NEW written, Settle(i, ok, written), fallen' = fallen
      PROVE  Lists' /\ Linked'
  BY <1>1, <1>2, SettleLists DEF Lists
<1>3. CASE WriteFails(i)
  <2>1. PICK ok, written : ok = FALSE /\ written = ToSet(fallen)
    OBVIOUS
  <2>. QED BY <1>2, <1>3, <2>1 DEF WriteFails
<1>4. CASE Pause(i)
  <2>1. PICK ok, written : ok = TRUE /\ written = {}
    OBVIOUS
  <2>. QED BY <1>2, <1>4, <2>1 DEF Pause
<1>5. CASE Enqueue(i) /\ ~StopPauses(i)
  <2>1. PICK ok, written : ok = TRUE /\ written = {}
    OBVIOUS
  <2>. QED BY <1>2, <1>5, <2>1 DEF Enqueue
<1>6. CASE Enqueue(i) /\ StopPauses(i)
  <2>1. /\ jobs' = [jobs EXCEPT ![i].enqueued = TRUE] /\ UNCHANGED <<batches, fallen>>
    BY <1>6 DEF Enqueue
  <2>2. \A j \in Batches : jobs'[j] = IF j = i THEN [jobs[i] EXCEPT !.enqueued = TRUE] ELSE jobs[j]
    BY <1>1, <2>1 DEF JobsTyped
  <2>3. jobs[i] \in Write
    BY <1>1 DEF JobsTyped
  <2>4. /\ [jobs[i] EXCEPT !.enqueued = TRUE].kind = jobs[i].kind
        /\ [jobs[i] EXCEPT !.enqueued = TRUE].todo = jobs[i].todo
    BY <2>3 DEF Write
  <2>5. \A j \in Batches : jobs'[j] = jobs[j] \/ (j = i /\ jobs'[j].kind = jobs[j].kind /\ jobs'[j].todo = jobs[j].todo)
    BY <2>2, <2>4
  <2>6. \A j \in Jobs' : j \in Jobs /\ jobs'[j].kind = jobs[j].kind /\ jobs'[j].todo = jobs[j].todo
    BY <1>1, <2>5 DEF Jobs
  <2>7. Lanes' = Lanes
    BY <2>1 DEF Lanes
  <2>. QED BY <2>1, <2>6, <2>7, ListsStay
<1>. QED BY <1>3, <1>4, <1>5, <1>6, LandLists

\* A lane awaits, or has nothing more to await.
LEMMA LaneLists ==
  ASSUME IInv, ReadInv, Lists, Linked, NEW i \in Batches, Lane(i)
  PROVE  Lists' /\ Linked'
<1>. USE DEF IInv, Stored, Books
<1>. DEFINE b == batches[i]
            next == [b EXCEPT !.lane = After(b), !.route = IF After(b) = "last" THEN "requeue" ELSE @]
<1>1. /\ ready # <<>> /\ Head(ready) = i
      /\ IF next.lane # "end" /\ (b.pending \/ next.lane = "joined")
         THEN Await(i, next, i)
         ELSE batches' = [batches EXCEPT ![i].lane = "end"] /\ UNCHANGED jobs
      /\ UNCHANGED fallen
  BY DEF Lane
<1>2. i \in Lanes /\ batches[i] \in Batch
  <2>1. ready[1] \in 0..Len(batches) /\ Head(ready) = ready[1]
    BY <1>1, SplitMembers DEF DrainTyped
  <2>2. i # 0 /\ Lanes = 1..Len(batches) /\ Len(batches) \in Nat
    BY DEF Batches, BatchesTyped, Lanes
  <2>. QED BY <1>1, <2>1, <2>2 DEF BatchesTyped
<1>3. next \in Batch /\ next.todo = b.todo /\ next.job = b.job /\ next.pending = b.pending /\ next.cause = b.cause
  <2>1. After(b) \in {"joined", "again", "try1", "try2", "last", "end"}
    BY DEF After
  <2>. QED BY <1>2, <2>1 DEF Batch
<1>. HIDE DEF next
<1>4. CASE Await(i, next, i)
  BY <1>1, <1>2, <1>3, <1>4, AwaitLists
<1>5. CASE batches' = [batches EXCEPT ![i].lane = "end"] /\ UNCHANGED jobs
  <2>1. Lanes' = Lanes /\ Jobs' = Jobs
    BY <1>5 DEF Lanes, Jobs
  <2>2. \A k \in Lanes : batches'[k].todo = batches[k].todo /\ batches'[k].job = batches[k].job
    BY <1>2, <1>5 DEF BatchesTyped, Batch, Lanes
  <2>. QED BY <1>1, <1>5, <2>1, <2>2, ListsStay
<1>. QED BY <1>1, <1>4, <1>5

\* So does the drain.
LEMMA DrainLists ==
  ASSUME IInv, ReadInv, AwaitInv, Lists, Linked, DrainStarts \/ DrainContinues \/ DrainEnds
  PROVE  Lists' /\ Linked'
<1>. USE DEF IInv, Stored, Books
<1>0. fallen' = fallen
  BY DEF DrainStarts, DrainContinues, DrainEnds
<1>1. ASSUME UNCHANGED <<batches, jobs>> PROVE Lists' /\ Linked'
  <2>1. Lanes' = Lanes /\ Jobs' = Jobs
    BY <1>1 DEF Lanes, Jobs
  <2>. QED BY <1>0, <1>1, <2>1, ListsStay
<1>2. ASSUME NEW list \in Seq(Lanes), NEW upto, Visit(list, upto) PROVE Lists' /\ Linked'
  <2>1. CASE list = <<>>
    BY <1>1, <1>2, <2>1 DEF Visit
  <2>2. CASE list # <<>>
    <3>1. Await(list[1], batches[list[1]], Drain)
      BY <1>2, <2>2 DEF Visit
    <3>2. PICK i \in Lanes : i = list[1]
      BY <2>2
    <3>3. PICK b \in Batch : b = batches[i]
      BY DEF BatchesTyped, Lanes
    <3>. QED BY <1>0, <3>1, <3>2, <3>3, AwaitLists
  <2>. QED BY <2>1, <2>2
<1>3. CASE DrainStarts
  <2>1. \A k \in Lanes : batches[k].pending => batches[k].todo # <<>>
    BY DEF AwaitInv, Visits
  <2>2. PICK list \in Seq(Lanes) :
          /\ Visit(list, Len(batches)) /\ IsInjective(list)
          /\ \A k \in Lanes : batches[k].pending <=> k \in ToSet(list)
    BY <1>3, <2>1, DrainList DEF ReadInv
  <2>. QED BY <1>2, <2>2
<1>4. CASE DrainContinues
  <2>. DEFINE c == [batches[drain.todo[1]] EXCEPT !.route = "requeue"]
  <2>1. /\ drain.at \in {"first", "second"}
        /\ Await(drain.todo[1], c, Drain) \/ Visit(Tail(drain.todo), drain.upto)
    BY <1>4 DEF DrainContinues
  <2>2. drain.todo \in Seq(Lanes) /\ drain.todo # <<>>
    BY <2>1 DEF DrainTyped
  <2>3. PICK i \in Lanes : i = drain.todo[1]
    BY <2>2
  <2>4. CASE Await(drain.todo[1], c, Drain)
    <3>1. Await(i, c, Drain)
      BY <2>3, <2>4
    <3>2. batches[i] \in Batch
      BY DEF BatchesTyped, Lanes
    <3>3. /\ c \in Batch /\ c.todo = batches[i].todo /\ c.job = batches[i].job
          /\ c.pending = batches[i].pending /\ c.cause = batches[i].cause
      BY <2>3, <3>2 DEF Batch
    <3>. HIDE DEF c
    <3>. QED BY <1>0, <3>1, <3>3, AwaitLists
  <2>5. CASE Visit(Tail(drain.todo), drain.upto)
    <3>1. Tail(drain.todo) \in Seq(Lanes)
      BY <2>2
    <3>. QED BY <1>2, <2>5, <3>1
  <2>. QED BY <2>1, <2>4, <2>5
<1>5. CASE DrainEnds
  BY <1>1, <1>5 DEF DrainEnds
<1>. QED BY <1>3, <1>4, <1>5

\* The write before the release has each message of its batches once; none has fallen.
LEMMA CommitLists ==
  ASSUME IInv, ReadInv, Lists, Linked, CommitBeforeRelease
  PROVE  Lists' /\ Linked'
<1>0. fallen' = fallen
  BY DEF CommitBeforeRelease
<1>1. PICK F \in SUBSET Lanes, f \in Nat \ Jobs :
           /\ Lanes' = Lanes /\ Jobs' \subseteq Jobs \cup {f}
           /\ \A k \in F : /\ batches[k].job = 0 /\ batches[k].pending /\ batches[k].route = "teardown"
                           /\ batches'[k] = [batches[k] EXCEPT !.job = f]
           /\ \A k \in Lanes : k \notin F => batches'[k] = batches[k]
           /\ \A j \in Jobs : j \in Jobs' /\ jobs'[j] = jobs[j]
           /\ f \in Jobs' => /\ jobs'[f].kind = "teardown" /\ jobs'[f].waiters = <<>>
                             /\ ~jobs'[f].enqueued /\ jobs'[f].todo = Merged(F)
           /\ F = {} \/ f \in F
           /\ \A k \in Lanes : batches[k].pending /\ batches[k].route = "teardown" /\ batches[k].job = 0 => k \in F
  BY CommitBooks
<1>2. \A k \in Lanes : batches[k] \in Batch
  BY DEF IInv, Stored, Books, BatchesTyped, Lanes
<1>3. \A k \in Lanes : batches'[k].todo = batches[k].todo /\ batches'[k].job \in {batches[k].job} \cup Lanes
  <2>1. \A k \in Lanes : /\ [batches[k] EXCEPT !.job = f].todo = batches[k].todo
                         /\ [batches[k] EXCEPT !.job = f].job = f
    BY <1>2 DEF Batch
  <2>2. \A k \in F : batches'[k].todo = batches[k].todo /\ batches'[k].job = f
    <3>1. \A k \in F : k \in Lanes /\ batches'[k] = [batches[k] EXCEPT !.job = f]
      BY <1>1
    <3>. QED BY <2>1, <3>1
  <2>3. F # {} => f \in Lanes
    BY <1>1
  <2>4. \A k \in Lanes : k \notin F => batches'[k] = batches[k]
    BY <1>1
  <2>. QED BY <2>2, <2>3, <2>4
<1>4. IsInjective(Merged(F)) /\ ToSet(Merged(F)) \cap ToSet(fallen) = {}
  <2>. PICK S : S = UNION {ToSet(batches[i].todo) : i \in F}
    OBVIOUS
  <2>1. S \in SUBSET Messages
    <3>1. \A k \in Lanes : Queued(k) \subseteq Messages
      BY DEF IInv, TurnTyped, ReadInv, Apart
    <3>. QED BY <3>1 DEF Queued
  <2>2. InOrder(S) \in Seq(S) /\ ToSet(InOrder(S)) = S
    BY <2>1, InOrderMembers
  <2>3. Merged(F) = InOrder(S)
    BY DEF Merged
  <2>4. IsInjective(Merged(F))
    <3>. PICK s : s = Merged(F)
      OBVIOUS
    <3>1. Ascends(s)
      BY MergedAscends
    <3>2. s \in Seq(S) /\ S \subseteq Nat
      <4>1. S \subseteq Nat
        BY <2>1, SteeringAssumption DEF Messages
      <4>. QED BY <2>2, <2>3, <4>1
    <3>3. \A i, k \in DOMAIN s : i \in Nat /\ k \in Nat /\ s[i] \in Nat /\ s[k] \in Nat
      BY <3>2
    <3>4. \A i, k \in DOMAIN s : s[i] = s[k] => i = k
      <4>. TAKE i, k \in DOMAIN s
      <4>. HAVE s[i] = s[k]
      <4>1. ~(i < k) /\ ~(k < i)
        BY <3>1, <3>3 DEF Ascends
      <4>. QED BY <3>3, <4>1
    <3>. QED BY <3>4 DEF IsInjective
  <2>5. \A k \in F : Queued(k) \cap ToSet(fallen) = {}
    <3>1. 0 \notin Batches
      BY DEF Batches
    <3>2. \A k \in F : k \in Lanes /\ ~Writing(k)
      BY <1>1, <3>1 DEF Writing
    <3>. QED BY <3>2 DEF ReadInv, Falls
  <2>. QED BY <2>2, <2>3, <2>4, <2>5 DEF Queued
<1>5. ASSUME NEW j \in Jobs'
      PROVE  /\ IsInjective(jobs'[j].todo)
             /\ jobs'[j].kind = "teardown" => ToSet(jobs'[j].todo) \cap ToSet(fallen) = {}
  <2>1. CASE j \in Jobs
    BY <1>1, <2>1 DEF Lists
  <2>2. CASE j = f /\ j \notin Jobs
    BY <1>1, <1>4, <2>2
  <2>. QED BY <1>1, <2>1, <2>2
<1>6. /\ IsInjective(fallen)' <=> IsInjective(fallen')
      /\ \A k \in Lanes' : IsInjective(batches[k].todo)' <=> IsInjective(batches'[k].todo)
      /\ \A j \in Jobs' : /\ IsInjective(jobs[j].todo)' <=> IsInjective(jobs'[j].todo)
                          /\ ToSet(jobs[j].todo)' = ToSet(jobs'[j].todo)
      /\ ToSet(fallen)' = ToSet(fallen')
  BY DEF IsInjective, ToSet
<1>7. Lists'
  BY <1>0, <1>1, <1>3, <1>5, <1>6 DEF Lists
<1>8. Linked'
  BY <1>1, <1>3 DEF Linked
<1>. QED BY <1>7, <1>8

\* Where nothing is handed over, and nothing that was comes back.
LEMMA ContentsStay ==
  ASSUME IInv, ReadInv, Contents, UNCHANGED <<waiting, claimed, accepted>>, Lanes' = Lanes,
         Lists', Linked'
  PROVE  Contents'
<1>1. Buffers'
  BY DEF Contents, Buffers, IsInjective
<1>2. Buffered' = Buffered
  BY DEF Buffered, ToSet
<1>3. Roomy'
  BY <1>2, RoomStays DEF Contents
<1>. QED BY <1>1, <1>3 DEF Contents

\* The controls close.
LEMMA CloseContents ==
  ASSUME IInv, ReadInv, Contents, waiting' = <<>>, UNCHANGED <<claimed, accepted, fallen>>,
         NEW cause \in {"abort", "abnormal-seal", "exit-close"}, Discard(waiting, cause)
  PROVE  Contents'
<1>. PICK msgs \in Seq(Messages) : msgs = waiting
  BY DEF IInv, TurnTyped
<1>1. Lists' /\ Linked'
  BY DiscardLists DEF Contents, Buffers
<1>2. ToSet(waiting)' = {} /\ ToSet(claimed)' = ToSet(claimed)
  BY EmptyMembers DEF ToSet
<1>3. /\ ToSet(msgs) \subseteq Buffered /\ Buffered' \subseteq Buffered
      /\ Buffered' \cap ToSet(msgs) = {}
  BY <1>2 DEF Buffered, ReadInv, Apart
<1>4. Roomy'
  BY <1>3, DiscardRoom DEF Contents
<1>5. Buffers'
  BY DEF Contents, Buffers, IsInjective
<1>. QED BY <1>1, <1>4, <1>5 DEF Contents

\* What a poll does not take goes back, or is handed over.
LEMMA RestoreContents ==
  ASSUME IInv, ReadInv, Contents, NEW msgs \in Seq(Messages), Restore(msgs), IsInjective(msgs),
         ToSet(msgs) \subseteq ToSet(claimed)
  PROVE  Contents'
<1>1. /\ claimed' = <<>> /\ UNCHANGED <<accepted, fallen>>
      /\ IF phase = "aborted"
         THEN Discard(msgs, "abort") /\ UNCHANGED waiting
         ELSE waiting' = msgs \o waiting /\ UNCHANGED <<batches, jobs>>
  BY DEF Restore
<1>2. /\ waiting \in Seq(Messages) /\ IsInjective(waiting)
      /\ ToSet(waiting) \cap ToSet(claimed) = {} /\ ToSet(waiting) \subseteq accepted
  BY DEF IInv, TurnTyped, Contents, Buffers, ReadInv, Apart, TurnHas
<1>3. IsInjective(claimed)' /\ ToSet(claimed)' = {}
  BY <1>1, EmptyMembers DEF IsInjective, ToSet
<1>4. CASE phase = "aborted"
  <2>1. PICK cause \in {"abort", "abnormal-seal", "exit-close"} : cause = "abort"
    OBVIOUS
  <2>2. Discard(msgs, cause) /\ waiting' = waiting
    BY <1>1, <1>4, <2>1
  <2>3. ToSet(waiting)' = ToSet(waiting) /\ IsInjective(waiting)'
    BY <1>2, <2>2 DEF ToSet, IsInjective
  <2>4. Lists' /\ Linked'
    BY <1>1, <2>2, DiscardLists DEF Contents
  <2>5. /\ ToSet(msgs) \subseteq Buffered /\ Buffered' \subseteq Buffered
        /\ Buffered' \cap ToSet(msgs) = {}
    BY <1>2, <1>3, <2>3 DEF Buffered
  <2>6. Roomy'
    BY <1>1, <2>2, <2>5, DiscardRoom DEF Contents
  <2>. QED BY <1>3, <2>3, <2>4, <2>6 DEF Contents, Buffers
<1>5. CASE phase # "aborted"
  <2>. PICK buffer : buffer = msgs \o waiting
    OBVIOUS
  <2>1. waiting' = buffer /\ UNCHANGED <<batches, jobs>>
    BY <1>1, <1>5
  <2>2. ToSet(buffer) = ToSet(msgs) \cup ToSet(waiting)
    BY <1>2, ConcatMembers
  <2>3. IsInjective(buffer)
    BY <1>2, ConcatOnce
  <2>4. ToSet(waiting)' = ToSet(buffer) /\ IsInjective(waiting)'
    BY <2>1, <2>3 DEF ToSet, IsInjective
  <2>5. Lanes' = Lanes /\ Jobs' = Jobs
    BY <2>1 DEF Lanes, Jobs
  <2>6. Lists' /\ Linked'
    BY <1>1, <2>1, <2>5, ListsStay DEF Contents
  <2>7. Roomy'
    <3>1. Buffered' \subseteq Buffered
      BY <1>3, <2>2, <2>4 DEF Buffered
    <3>. QED BY <1>1, <2>5, <3>1, RoomStays DEF Contents
  <2>. QED BY <1>3, <2>4, <2>6, <2>7 DEF Contents, Buffers
<1>. QED BY <1>4, <1>5

\* The turn's steps.
LEMMA TurnContents ==
  ASSUME IInv, ReadInv, Contents, Turn
  PROVE  Contents'
<1>1. /\ waiting \in Seq(Messages) /\ IsInjective(waiting) /\ ToSet(waiting) \subseteq accepted
      /\ claimed \in Seq(Messages) /\ IsInjective(claimed) /\ accepted \subseteq Messages
  BY DEF IInv, TurnTyped, Contents, Buffers, ReadInv, Apart, TurnHas
<1>2. ASSUME UNCHANGED <<batches, jobs, fallen>> PROVE Lanes' = Lanes /\ Lists' /\ Linked'
  <2>1. Lanes' = Lanes /\ Jobs' = Jobs
    BY <1>2 DEF Lanes, Jobs
  <2>. QED BY <1>2, <2>1, ListsStay DEF Contents
<1>3. ASSUME NEW m \in Messages, Steer(m) PROVE Contents'
  <2>. PICK longer : longer = Append(waiting, m)
    OBVIOUS
  <2>1. /\ m \notin accepted /\ accepted' = accepted \cup {m} /\ waiting' = longer
        /\ claimed' = claimed /\ UNCHANGED <<batches, jobs, fallen>>
    BY <1>3 DEF Steer
  <2>2. ToSet(longer) = ToSet(waiting) \cup {m}
    BY <1>1, AppendMembers
  <2>3. IsInjective(longer)
    BY <1>1, <2>1, AppendOnce
  <2>4. /\ ToSet(waiting)' = ToSet(longer) /\ ToSet(claimed)' = ToSet(claimed) /\ Buffers'
    BY <1>1, <2>1, <2>3 DEF ToSet, Buffers, IsInjective
  <2>5. Buffered' \cap accepted \subseteq Buffered
    BY <2>1, <2>2, <2>4 DEF Buffered
  <2>6. Roomy'
    BY <1>2, <2>1, <2>5, RoomStays DEF Contents
  <2>. QED BY <1>2, <2>1, <2>4, <2>6 DEF Contents
<1>4. CASE Poll
  <2>1. /\ claimed' = waiting /\ waiting' = <<>> /\ accepted' = accepted
        /\ UNCHANGED <<batches, jobs, fallen>>
    BY <1>4 DEF Poll, queueV
  <2>2. ToSet(waiting)' = {} /\ ToSet(claimed)' = ToSet(waiting) /\ Buffers'
    BY <1>1, <2>1, EmptyMembers DEF ToSet, Buffers, IsInjective
  <2>3. Roomy'
    <3>1. Buffered' \subseteq Buffered
      BY <2>2 DEF Buffered
    <3>. QED BY <1>2, <2>1, <3>1, RoomStays DEF Contents
  <2>. QED BY <1>2, <2>1, <2>2, <2>3 DEF Contents
<1>5. CASE PollConsumes
  <2>. PICK S : S = {m \in Messages : ~Takes(m)}
    OBVIOUS
  <2>. PICK msgs : msgs = Kept(claimed, S)
    OBVIOUS
  <2>1. Restore(msgs)
    BY <1>5 DEF PollConsumes
  <2>2. msgs \in Seq(Messages \cap S) /\ ToSet(msgs) = ToSet(claimed) \cap S
    BY <1>1, KeptMembers
  <2>3. IsInjective(msgs)
    BY <1>1, KeptOnce
  <2>4. msgs \in Seq(Messages)
    BY <2>2
  <2>. QED BY <2>1, <2>2, <2>3, <2>4, RestoreContents
<1>6. CASE PollGivesUp
  BY <1>1, <1>6, RestoreContents DEF PollGivesUp
<1>7. CASE TryBeginClose
  BY <1>7, CloseContents DEF TryBeginClose
<1>8. CASE \E r \in {"user", "other"} : Abort(r)
  BY <1>8, CloseContents DEF Abort, AbortEntry
<1>9. CASE HostEnds
  <2>1. CASE phase = "running"
    BY <1>9, <2>1, CloseContents DEF HostEnds
  <2>2. CASE phase # "running"
    <3>1. UNCHANGED <<waiting, claimed, accepted, batches, jobs, fallen>>
      BY <1>9, <2>2 DEF HostEnds
    <3>. QED BY <1>2, <3>1, ContentsStay
  <2>. QED BY <2>1, <2>2
<1>10. CASE CommitBeforeRelease
  <2>1. Lists' /\ Linked'
    BY <1>10, CommitLists DEF Contents
  <2>2. Lanes' = Lanes
    BY <1>10, CommitBooks
  <2>3. UNCHANGED <<waiting, claimed, accepted>>
    BY <1>10 DEF CommitBeforeRelease
  <2>. QED BY <2>1, <2>2, <2>3, ContentsStay
<1>11. CASE Release
  <2>1. UNCHANGED <<waiting, claimed, accepted, batches, jobs, fallen>>
    BY <1>11 DEF Release
  <2>. QED BY <1>2, <2>1, ContentsStay
<1>. QED BY <1>3, <1>4, <1>5, <1>6, <1>7, <1>8, <1>9, <1>10, <1>11 DEF Turn

\* Steps of the requeue and of the queue.
LEMMA ContentsNext == IInv /\ ReadInv /\ AwaitInv /\ Contents /\ [Next]_vars => Contents'
<1>. SUFFICES ASSUME IInv, ReadInv, AwaitInv, Contents, [Next]_vars PROVE Contents'
  OBVIOUS
<1>. USE DEF IInv, Stored, Books
<1>1. ASSUME UNCHANGED <<turnV, batches, jobs, fallen>> PROVE Contents'
  <2>1. Lanes' = Lanes /\ Jobs' = Jobs
    BY <1>1 DEF Lanes, Jobs
  <2>2. Lists' /\ Linked'
    BY <1>1, <2>1, ListsStay DEF Contents
  <2>. QED BY <1>1, <2>1, <2>2, ContentsStay DEF turnV
<1>2. CASE Dispatch \/ OtherWake \/ ContinueQueue \/ DrainEnds \/ UNCHANGED vars
  BY <1>1, <1>2 DEF Dispatch, OtherWake, ContinueQueue, DrainEnds, vars
<1>3. ASSUME NEW i, NEW b, NEW who, Await(i, b, who) PROVE Lanes' = Lanes
  BY <1>3 DEF Await, Lanes
<1>4. ASSUME NEW list, NEW upto, Visit(list, upto) PROVE Lanes' = Lanes
  BY <1>3, <1>4 DEF Visit, Lanes
<1>5. ASSUME NEW i, NEW ok, NEW written, Settle(i, ok, written) PROVE Lanes' = Lanes
  BY <1>5 DEF Settle, Lanes
<1>6. ASSUME NEW i \in Batches, Land(i) \/ WriteFails(i) \/ Enqueue(i) \/ Pause(i) PROVE Contents'
  <2>1. Lists' /\ Linked'
    BY <1>6, WritesLists DEF Contents
  <2>2. batches' = batches => Lanes' = Lanes
    BY DEF Lanes
  <2>3. Lanes' = Lanes
    BY <1>5, <1>6, <2>2 DEF Land, WriteFails, Enqueue, Pause
  <2>4. UNCHANGED <<waiting, claimed, accepted>>
    BY <1>6 DEF Land, WriteFails, Enqueue, Pause, turnV
  <2>. QED BY <2>1, <2>3, <2>4, ContentsStay
<1>7. ASSUME NEW i \in Batches, Lane(i) PROVE Contents'
  <2>1. Lists' /\ Linked'
    BY <1>7, LaneLists DEF Contents
  <2>2. batches' = [batches EXCEPT ![i].lane = "end"] => Lanes' = Lanes
    BY DEF Lanes
  <2>3. Lanes' = Lanes
    BY <1>3, <1>7, <2>2 DEF Lane
  <2>4. UNCHANGED <<waiting, claimed, accepted>>
    BY <1>7 DEF Lane, turnV
  <2>. QED BY <2>1, <2>3, <2>4, ContentsStay
<1>8. CASE DrainStarts \/ DrainContinues
  <2>1. Lists' /\ Linked'
    BY <1>8, DrainLists DEF Contents
  <2>2. Lanes' = Lanes
    BY <1>3, <1>4, <1>8 DEF DrainStarts, DrainContinues
  <2>3. UNCHANGED <<waiting, claimed, accepted>>
    BY <1>8 DEF DrainStarts, DrainContinues, turnV
  <2>. QED BY <2>1, <2>2, <2>3, ContentsStay
<1>9. CASE Shutdown
  <2>1. /\ IF phase = "running" THEN AbortEntry("other") ELSE UNCHANGED <<turnV, batches, jobs>>
        /\ fallen' = fallen
    BY <1>9 DEF Shutdown
  <2>2. CASE phase = "running"
    BY <2>1, <2>2, CloseContents DEF AbortEntry
  <2>3. CASE phase # "running"
    BY <1>1, <2>1, <2>3
  <2>. QED BY <2>2, <2>3
<1>. QED BY <1>2, <1>6, <1>7, <1>8, <1>9, TurnContents DEF Next, Requeue

\* A batch that was handed over keeps its place.
LEMMA LanesGrow == IInv /\ [Next]_vars => Lanes \subseteq Lanes'
<1>. SUFFICES ASSUME IInv, [Next]_vars PROVE Lanes \subseteq Lanes'
  OBVIOUS
<1>1. ASSUME NEW msgs, NEW cause, Discard(msgs, cause) PROVE Lanes \subseteq Lanes'
  <2>1. batches \in Seq(Batch)
    BY DEF IInv, Stored, Books, BatchesTyped
  <2>2. batches' = batches \/ \E b : batches' = Append(batches, b)
    BY <1>1 DEF Discard
  <2>. QED BY <2>1, <2>2 DEF Lanes
<1>2. ASSUME NEW i, NEW b, NEW who, Await(i, b, who) PROVE Lanes' = Lanes
  BY <1>2 DEF Await, Lanes
<1>3. ASSUME NEW list, NEW upto, Visit(list, upto) PROVE Lanes' = Lanes
  BY <1>2, <1>3 DEF Visit, Lanes
<1>4. ASSUME NEW i, NEW ok, NEW written, Settle(i, ok, written) PROVE Lanes' = Lanes
  BY <1>4 DEF Settle, Lanes
<1>5. batches' = batches => Lanes' = Lanes
  BY DEF Lanes
<1>6. CASE Turn
  <2>1. CASE CommitBeforeRelease
    BY <2>1, CommitBooks
  <2>2. CASE \E m \in Messages : Steer(m)
    BY <1>5, <2>2 DEF Steer
  <2>3. CASE Poll \/ Release
    BY <1>5, <2>3 DEF Poll, Release
  <2>4. CASE PollConsumes \/ PollGivesUp
    BY <1>1, <1>5, <2>4 DEF PollConsumes, PollGivesUp, Restore
  <2>5. CASE TryBeginClose \/ HostEnds
    BY <1>1, <1>5, <2>5 DEF TryBeginClose, HostEnds
  <2>6. CASE \E r \in {"user", "other"} : Abort(r)
    BY <1>1, <2>6 DEF Abort, AbortEntry
  <2>. QED BY <1>6, <2>1, <2>2, <2>3, <2>4, <2>5, <2>6 DEF Turn
<1>7. ASSUME NEW i \in Batches, Land(i) \/ WriteFails(i) \/ Enqueue(i) \/ Pause(i) PROVE Lanes' = Lanes
  BY <1>4, <1>5, <1>7 DEF Land, WriteFails, Enqueue, Pause
<1>8. ASSUME NEW i \in Batches, Lane(i) PROVE Lanes' = Lanes
  <2>1. batches' = [batches EXCEPT ![i].lane = "end"] => Lanes' = Lanes
    BY DEF Lanes
  <2>. QED BY <1>2, <1>8, <2>1 DEF Lane
<1>9. CASE DrainStarts \/ DrainContinues
  BY <1>2, <1>3, <1>9 DEF DrainStarts, DrainContinues
<1>10. CASE Shutdown
  BY <1>1, <1>5, <1>10 DEF Shutdown, AbortEntry
<1>11. CASE DrainEnds \/ Dispatch \/ OtherWake \/ ContinueQueue \/ UNCHANGED vars
  BY <1>5, <1>11 DEF DrainEnds, Dispatch, OtherWake, ContinueQueue, vars
<1>. QED BY <1>6, <1>7, <1>8, <1>9, <1>10, <1>11 DEF Next, Requeue

\* The turn's own variables and the marks of the queue keep to their values.
LEMMA MarksNext == IInv /\ Marks /\ [Next]_vars => Marks'
<1>. SUFFICES ASSUME IInv, Marks, [Next]_vars PROVE Marks'
  OBVIOUS
<1>. USE DEF Marks
<1>0. Lanes \subseteq Lanes'
  BY LanesGrow
<1>1. CASE Turn
  <2>2. CASE \E m \in Messages : Steer(m)
    BY <1>0, <2>2 DEF Steer, queueV
  <2>3. CASE Poll
    BY <1>0, <2>3 DEF Poll, queueV
  <2>4. CASE PollConsumes \/ PollGivesUp
    BY <1>0, <2>4 DEF PollConsumes, PollGivesUp, Restore, queueV
  <2>5. CASE TryBeginClose \/ HostEnds
    BY <1>0, <2>5 DEF TryBeginClose, HostEnds, queueV
  <2>6. CASE \E r \in {"user", "other"} : Abort(r)
    BY <1>0, <2>6 DEF Abort, AbortEntry, queueV
  <2>7. CASE CommitBeforeRelease
    BY <1>0, <2>7 DEF CommitBeforeRelease, queueV
  <2>8. CASE Release
    BY <1>0, <2>8 DEF Release
  <2>. QED BY <1>1, <2>2, <2>3, <2>4, <2>5, <2>6, <2>7, <2>8 DEF Turn
<1>2. ASSUME NEW i \in Batches, Land(i) \/ WriteFails(i) \/ Enqueue(i) \/ Pause(i) \/ Lane(i) PROVE Marks'
  <2>1. UNCHANGED <<phase, reason, host, exit, resumed>>
    BY <1>2 DEF Land, WriteFails, Enqueue, Pause, Lane, turnV, queueV
  <2>2. paused' \in BOOLEAN /\ awake' \in BOOLEAN
    BY <1>2 DEF Land, WriteFails, Enqueue, Pause, Lane, queueV
  <2>3. faults' = faults \/ (faults < Faults /\ faults' = faults + 1)
    BY <1>2 DEF Land, WriteFails, Enqueue, Pause, Lane
  <2>4. faults' \in 0..Faults
    BY <2>3, SteeringAssumption
  <2>. QED BY <1>0, <2>1, <2>2, <2>4
<1>3. CASE DrainStarts \/ DrainContinues \/ DrainEnds \/ UNCHANGED vars
  BY <1>0, <1>3 DEF DrainStarts, DrainContinues, DrainEnds, vars, turnV, queueV
<1>4. CASE Shutdown
  <2>1. /\ UNCHANGED <<host, exit, resumed, paused, awake, faults>>
        /\ UNCHANGED <<phase, reason>> \/ (phase' = "aborted" /\ reason' = "other")
    BY <1>4 DEF Shutdown, AbortEntry, turnV, queueV
  <2>. QED BY <1>0, <2>1
<1>5. CASE Dispatch \/ OtherWake
  BY <1>0, <1>5 DEF Dispatch, OtherWake, turnV
<1>6. CASE ContinueQueue
  <2>1. ToSet(rows) \subseteq Lanes
    BY DEF IInv, Stored, QueueTyped, ToSet
  <2>2. /\ UNCHANGED <<phase, reason, host, exit, faults>>
        /\ paused' = FALSE /\ awake' = TRUE /\ resumed' = resumed \cup ToSet(rows)
    BY <1>6 DEF ContinueQueue, turnV
  <2>. QED BY <1>0, <2>1, <2>2
<1>. QED BY <1>1, <1>2, <1>3, <1>4, <1>5, <1>6 DEF Next, Requeue

\* Nothing is there yet when the turn begins.
LEMMA TypeInit == Init => Marks /\ Contents
<1>. SUFFICES ASSUME Init PROVE Marks /\ Contents
  OBVIOUS
<1>1. Lanes = {} /\ Jobs = {}
  BY DEF Init, Lanes, Jobs
<1>2. IsInjective(<<>>)
  BY DEF IsInjective
<1>3. Marks
  <2>1. 0 \in 0..Faults
    BY SteeringAssumption
  <2>2. /\ phase = "running" /\ reason = "none" /\ host = "idle" /\ exit = FALSE
        /\ resumed = {} /\ paused = FALSE /\ awake = FALSE /\ faults = 0
    BY DEF Init
  <2>. QED BY <2>1, <2>2 DEF Marks
<1>4. Buffers /\ Lists /\ Linked
  BY <1>1, <1>2 DEF Init, Buffers, Lists, Linked
<1>5. Roomy
  <2>1. PICK f : f = [k \in {} |-> k]
    OBVIOUS
  <2>2. OwnMessage(f)
    BY <1>1, <2>1 DEF OwnMessage
  <2>. QED BY <2>2 DEF Roomy
<1>. QED BY <1>3, <1>4, <1>5 DEF Contents

\* It says of what type each variable is.
LEMMA TypeImplies == IInv /\ ReadInv /\ AwaitInv /\ Marks /\ Contents => TypeOK
<1>. SUFFICES ASSUME IInv, ReadInv, AwaitInv, Marks, Contents PROVE TypeOK
  OBVIOUS
<1>. USE DEF IInv, Stored, Books
<1>1. /\ accepted \subseteq Messages /\ consumed \subseteq accepted
      /\ ToSet(waiting) \subseteq accepted /\ ToSet(claimed) \subseteq accepted /\ ToSet(fallen) \subseteq accepted
  BY DEF TurnTyped, ReadInv, Apart, TurnHas
<1>2. ran \subseteq accepted
  BY DEF ReadInv, Passes, Apart, Through
<1>3. ASSUME NEW D, NEW E, NEW s \in Seq(D), ToSet(s) \subseteq E PROVE s \in Seq(E)
  <2>1. s = [n \in 1..Len(s) |-> s[n]] /\ Len(s) \in Nat
    OBVIOUS
  <2>2. \A n \in 1..Len(s) : s[n] \in E
    BY <1>3 DEF ToSet
  <2>. QED BY <2>1, <2>2
<1>4. waiting \in Seq(accepted) /\ claimed \in Seq(accepted) /\ fallen \in Seq(accepted)
  BY <1>1, <1>3 DEF TurnTyped, QueueTyped
<1>5. IsInjective(waiting) /\ IsInjective(claimed) /\ IsInjective(fallen)
  BY DEF Contents, Buffers, Lists
<1>6. Lanes \subseteq Batches
  BY RoomForBatches DEF Contents
<1>7. ASSUME NEW b \in ToSet(batches)
      PROVE  /\ b.todo \in Seq(Users) /\ b.route \in {"teardown", "requeue"} /\ b.pending \in BOOLEAN
             /\ b.cause \in {"abort", "abnormal-seal", "exit-close"}
             /\ b.job # 0 => b.job \in Jobs
  <2>1. PICK k \in Lanes : b = batches[k]
    BY DEF ToSet, Lanes
  <2>2. b \in Batch
    BY <2>1 DEF BatchesTyped, Lanes
  <2>3. b.job # 0 => b.job \in Jobs
    BY <1>6, <2>1 DEF Contents, Linked, Covered
  <2>. QED BY <2>2, <2>3 DEF Batch
<1>8. \A i \in Jobs : jobs[i].todo \in Seq(Users) /\ batches[i].job = i
  <2>1. \A i \in Jobs : jobs[i] \in Write /\ batches[i].job = i
    BY DEF JobsTyped, Owned
  <2>. QED BY <2>1 DEF Write
<1>9. ready \in Seq(Lanes \cup {Drain}) /\ IsInjective(ready)
  <2>1. 0..Len(batches) \subseteq Lanes \cup {Drain}
    BY DEF BatchesTyped, Lanes, Drain
  <2>2. ready \in Seq(0..Len(batches)) /\ ToSet(ready) \subseteq 0..Len(batches)
    BY DEF DrainTyped, ToSet
  <2>. PICK C : C = Lanes \cup {Drain}
    OBVIOUS
  <2>3. ready \in Seq(C)
    BY <1>3, <2>1, <2>2
  <2>. QED BY <2>3 DEF AwaitInv, Waits
<1>10. rows \in Seq(Lanes) /\ IsInjective(rows) /\ resumed \subseteq Lanes
  BY DEF QueueTyped, ReadInv, Passes, Marks
<1>. QED BY <1>1, <1>2, <1>4, <1>5, <1>7, <1>8, <1>9, <1>10 DEF TypeOK, Marks

\* Every variable is of its type: no message is twice in a list, nothing is done to
\* a message that the turn did not take, a batch points to a job under way and a
\* job to its first batch, nobody is ready twice, and no batch is two rows.
THEOREM TypeCorrect == Spec => []TypeOK
<1>1. Init => IInv /\ ReadInv /\ AwaitInv /\ Marks /\ Contents
  BY IInvInit, ReadInit, AwaitInit, TypeInit
<1>2. IInv /\ ReadInv /\ AwaitInv /\ Marks /\ Contents /\ [Next]_vars
        => (IInv /\ ReadInv /\ AwaitInv /\ Marks /\ Contents)'
  BY IInvNext, ReadNext, AwaitNext, MarksNext, ContentsNext
<1>3. Spec => [](IInv /\ ReadInv /\ AwaitInv /\ Marks /\ Contents)
  BY <1>1, <1>2, PTL DEF Spec
<1>4. IInv /\ ReadInv /\ AwaitInv /\ Marks /\ Contents => TypeOK
  BY TypeImplies
<1>. QED BY <1>3, <1>4, PTL

-----------------------------------------------------------------------------
(* What a drain has behind it.                                              *)

\* A drain counts the batches that were there when it had waited for the writes
\* under way; the turn has closed by then, so no message is handed back any more.
Staged ==
  /\ drain.upto \in Lanes \cup {0} /\ (drain.at \in {"no", "inflight"} => drain.upto = 0)
  /\ drain.at # "no" => phase # "running"
  /\ \A k \in Lanes : ~Handback(k) => batches[k].lane \in {"release", "try1", "try2", "last", "end"}

\* A batch that is tracked still has failed for each time its write was over: for
\* the tries of its lane,
Tried(k) ==
  ~Handback(k) =>
    /\ batches[k].lane = "try1" /\ k \in Ready => faults >= 1
    /\ batches[k].lane = "try2" => faults >= 1
    /\ batches[k].lane = "try2" /\ k \in Ready => faults >= 2
    /\ batches[k].lane \in {"last", "end"} => faults >= 2
    /\ batches[k].route = "requeue" => faults >= 2 \/ (drain.at = "second" /\ HeadOf(k))
\* for the row of what was handed back,
Returned(k) ==
  Handback(k) => \/ faults >= 1
                 \/ k \in Jobs /\ (drain.at = "no" \/ (drain.at = "inflight" /\ k \in drain.on))
\* and for the visit of the drain.
Visited(k) ==
  /\ k <= drain.upto => k \in ToSet(drain.todo) \/ faults >= 2
  /\ Visiting /\ drain.todo[1] = k =>
       /\ Drain \in Ready \/ drain.at = "second" => faults >= 1
       /\ Drain \in Ready /\ (drain.at = "second" \/ Handback(k)) => faults >= 2
Failed == \A k \in Lanes : batches[k].pending => Tried(k) /\ Returned(k) /\ Visited(k)

DrainInv == faults \in Nat /\ Staged /\ Failed

\* Where a batch and the drain stay as they are, so does what is said of it.
LEMMA FailedStays ==
  ASSUME DrainInv, faults' \in Nat, faults <= faults', NEW k \in Lanes,
         drain'.at = drain.at, drain'.upto = drain.upto, drain'.todo = drain.todo,
         batches[k].pending /\ (k \in Jobs /\ k \in drain.on => k \in drain'.on) /\ (k \in Jobs => k \in Jobs'),
         batches'[k].cause = batches[k].cause, batches'[k].route = batches[k].route,
         batches'[k].lane = batches[k].lane, k \in Ready' => k \in Ready,
         Visiting /\ drain.todo[1] = k /\ Drain \in Ready' => Drain \in Ready
  PROVE  Tried(k)' /\ Returned(k)' /\ Visited(k)'
<1>0. Tried(k) /\ Returned(k) /\ Visited(k) /\ faults \in Nat
  BY DEF DrainInv, Failed
<1>1. (Handback(k)' <=> Handback(k)) /\ (Visiting' <=> Visiting)
  BY DEF Handback, Visiting
<1>2. HeadOf(k) => HeadOf(k)'
  BY <1>1 DEF HeadOf
<1>3. (faults >= 1 => faults' >= 1) /\ (faults >= 2 => faults' >= 2)
  BY <1>0
<1>4. Tried(k)'
  BY <1>0, <1>1, <1>2, <1>3 DEF Tried
<1>5. Returned(k)'
  BY <1>0, <1>1, <1>3 DEF Returned
<1>6. Visited(k)'
  <2>1. ToSet(drain.todo)' = ToSet(drain.todo)
    BY DEF ToSet
  <2>. QED BY <1>0, <1>1, <1>3, <2>1 DEF Visited
<1>. QED BY <1>4, <1>5, <1>6

\* Steps that make nobody ready, and move neither a lane nor the drain.
LEMMA DrainStays ==
  ASSUME DrainInv, faults' \in Nat, faults <= faults', Lanes' = Lanes, UNCHANGED drain,
         phase' = "running" => phase = "running", Ready' \subseteq Ready, Jobs \subseteq Jobs',
         \A k \in Lanes : /\ batches'[k].pending => batches[k].pending
                          /\ batches'[k].cause = batches[k].cause
                          /\ batches'[k].route = batches[k].route /\ batches'[k].lane = batches[k].lane
  PROVE  DrainInv'
<1>1. Staged'
  BY DEF DrainInv, Staged, Handback
<1>2. ASSUME NEW k \in Lanes, batches'[k].pending PROVE Tried(k)' /\ Returned(k)' /\ Visited(k)'
  BY <1>2, FailedStays
<1>. QED BY <1>1, <1>2 DEF DrainInv, Failed

\* What the turn lets go of: a row that is handed back is being written, before any drain.
LEMMA DiscardDrains ==
  ASSUME IInv, DrainInv, NEW msgs \in Seq(Messages), NEW cause \in {"abort", "abnormal-seal", "exit-close"},
         Discard(msgs, cause), UNCHANGED <<faults, ready>>, Lanes' \subseteq Batches,
         phase' = "running" => phase = "running", cause = "exit-close" => drain.at = "no",
         \/ UNCHANGED drain
         \/ /\ drain.at = "no" /\ phase' # "running" /\ cause # "exit-close"
            /\ drain' = [at |-> "inflight", on |-> Jobs, todo |-> <<>>, upto |-> 0]
  PROVE  DrainInv'
<1>. USE DEF IInv, Stored, Books
<1>0. faults' \in Nat /\ faults <= faults' /\ Ready' = Ready
  BY DEF DrainInv, Ready, ToSet
<1>1. /\ Lanes \subseteq Lanes' /\ Jobs \subseteq Jobs' /\ \A k \in Lanes : batches'[k] = batches[k]
      /\ \A n \in Lanes' \ Lanes :
           /\ n = Len(batches) + 1 /\ batches'[n].cause = cause /\ batches'[n].lane \in {"first", "release"}
           /\ batches'[n].lane = "first" \/ batches'[n].route = "requeue" => cause = "exit-close"
           /\ cause = "exit-close" => n \in Jobs'
  <2>1. CASE UNCHANGED <<batches, jobs>>
    <3>1. Lanes' = Lanes /\ Jobs' = Jobs
      BY <2>1 DEF Lanes, Jobs
    <3>. QED BY <2>1, <3>1
  <2>2. CASE ~UNCHANGED <<batches, jobs>>
    <3>1. PICK n \in Nat \ Lanes :
              /\ n # 0 /\ Lanes' = Lanes \cup {n} /\ Jobs' \subseteq Jobs \cup {n}
              /\ \A k \in Lanes : batches'[k] = batches[k] /\ Queued(k)' = Queued(k)
              /\ \A j \in Jobs : j \in Jobs' /\ jobs'[j] = jobs[j]
              /\ Queued(n)' = ToSet(msgs) \cap Users
              /\ batches'[n].cause = cause
              /\ batches'[n].lane = "first" \/ batches'[n].route = "requeue" => cause = "exit-close"
              /\ batches'[n].lane = "first" => batches'[n].job # 0
              /\ n \in Jobs' => batches'[n].route = "requeue" /\ jobs'[n].kind = "requeue"
              /\ n = Len(batches) + 1 /\ batches'[n].pending /\ batches'[n].todo # <<>>
              /\ batches'[n].lane \in {"first", "release"}
              /\ cause = "exit-close" =>
                   /\ batches'[n].route = "requeue" /\ batches'[n].job = n
                   /\ n \in Batches => n \in Jobs'
              /\ cause # "exit-close" => batches'[n].job = 0
              /\ n \in Jobs' => jobs'[n].waiters = <<>> /\ ~jobs'[n].enqueued
      BY <2>2, DiscardBooks
    <3>. QED BY <3>1
  <2>. QED BY <2>1, <2>2
<1>2. Lanes = 1..Len(batches) /\ Len(batches) \in Nat
  BY DEF BatchesTyped, Lanes
<1>3. /\ drain'.upto = drain.upto /\ (drain'.at = drain.at \/ (drain.at = "no" /\ drain'.at = "inflight"))
      /\ drain.upto \in Lanes \cup {0} /\ ToSet(drain.todo) \subseteq Lanes
  <2>1. ToSet(drain.todo) \subseteq Lanes
    BY DEF DrainTyped, ToSet
  <2>. QED BY <2>1 DEF DrainInv, Staged
<1>4. Staged'
  <2>1. drain'.upto \in Lanes' \cup {0} /\ (drain'.at \in {"no", "inflight"} => drain'.upto = 0)
    BY <1>1, <1>3 DEF DrainInv, Staged
  <2>2. drain'.at # "no" => phase' # "running"
    BY DEF DrainInv, Staged
  <2>3. \A k \in Lanes' : ~Handback(k)' => batches'[k].lane \in {"release", "try1", "try2", "last", "end"}
    BY <1>1 DEF DrainInv, Staged, Handback
  <2>. QED BY <2>1, <2>2, <2>3 DEF Staged
<1>5. ASSUME NEW k \in Lanes, batches'[k].pending PROVE Tried(k)' /\ Returned(k)' /\ Visited(k)'
  <2>1. CASE UNCHANGED drain
    BY <1>0, <1>1, <1>5, <2>1, FailedStays
  <2>2. CASE /\ drain.at = "no" /\ phase' # "running" /\ cause # "exit-close"
             /\ drain' = [at |-> "inflight", on |-> Jobs, todo |-> <<>>, upto |-> 0]
    <3>1. batches[k].pending /\ Tried(k) /\ Returned(k) /\ batches'[k] = batches[k]
      BY <1>1, <1>5 DEF DrainInv, Failed
    <3>2. Handback(k)' <=> Handback(k)
      BY <3>1 DEF Handback
    <3>3. Tried(k)'
      BY <1>0, <2>2, <3>1, <3>2 DEF Tried
    <3>4. Returned(k)'
      BY <1>1, <2>2, <3>1, <3>2 DEF Returned
    <3>5. Visited(k)'
      <4>1. k > 0
        BY <1>2
      <4>. QED BY <1>2, <2>2, <4>1 DEF Visited, Visiting
    <3>. QED BY <3>3, <3>4, <3>5
  <2>. QED BY <2>1, <2>2
<1>6. ASSUME NEW n \in Lanes' \ Lanes PROVE Tried(n)' /\ Returned(n)' /\ Visited(n)'
  <2>1. /\ n = Len(batches) + 1 /\ batches'[n].cause = cause /\ batches'[n].lane \in {"first", "release"}
        /\ batches'[n].lane = "first" \/ batches'[n].route = "requeue" => cause = "exit-close"
        /\ cause = "exit-close" => n \in Jobs'
    BY <1>1, <1>6
  <2>2. Tried(n)'
    BY <2>1 DEF Tried, Handback
  <2>3. Returned(n)'
    BY <2>1 DEF Returned, Handback
  <2>4. Visited(n)'
    <3>1. ~(n <= drain'.upto)
      BY <1>2, <1>3, <2>1
    <3>2. ~(Visiting' /\ drain'.todo[1] = n)
      <4>. SUFFICES ASSUME Visiting', drain'.todo[1] = n PROVE FALSE
        OBVIOUS
      <4>1. drain'.todo = drain.todo /\ Visiting
        BY DEF Visiting
      <4>2. drain.todo \in Seq(Lanes) /\ drain.todo # <<>>
        BY <4>1 DEF DrainTyped, Visiting
      <4>3. drain.todo[1] \in Lanes
        BY <4>2
      <4>. QED BY <1>6, <4>1, <4>3
    <3>. QED BY <3>1, <3>2 DEF Visited
  <2>. QED BY <2>2, <2>3, <2>4
<1>. QED BY <1>0, <1>4, <1>5, <1>6 DEF DrainInv, Failed

\* A write that is over: what is tracked still has failed once more.
LEMMA SettleDrains ==
  ASSUME IInv, AwaitInv, DrainInv, NEW i \in Jobs, NEW ok \in BOOLEAN, NEW written, Settle(i, ok, written),
         phase' = phase, (ok /\ faults' = faults) \/ faults' = faults + 1
  PROVE  DrainInv'
<1>. USE DEF IInv, Stored, Books
<1>0. faults \in Nat /\ faults' \in Nat /\ faults <= faults'
  BY DEF DrainInv
<1>1. /\ Lanes' = Lanes /\ Jobs' = Jobs \ {i} /\ \A j \in Jobs' : jobs'[j] = jobs[j]
      /\ \A k \in Lanes : batches[k].job # i => batches'[k] = batches[k] /\ Queued(k)' = Queued(k)
      /\ \A k \in Lanes : batches[k].job = i =>
           /\ batches'[k].job = 0 /\ batches'[k].cause = batches[k].cause
           /\ batches'[k].route = batches[k].route
           /\ batches'[k].lane = IF batches[k].lane = "first" THEN "release" ELSE batches[k].lane
           /\ batches'[k].pending => batches[k].pending /\ ~ok
           /\ Queued(k)' = IF jobs[i].kind = "teardown" THEN Queued(k) \ written ELSE Queued(k)
  BY SettleBooks
<1>2. /\ drain'.at = drain.at /\ drain'.upto = drain.upto /\ drain'.todo = drain.todo
      /\ drain'.on = drain.on \ {i}
  BY DEF Settle, DrainTyped
<1>3. Ready' = Ready \cup Waiters(i)
  <2>1. jobs[i] \in Write /\ ready \in Seq(0..Len(batches))
    BY DEF JobsTyped, DrainTyped
  <2>. PICK w \in Seq(0..Len(batches)) : w = jobs[i].waiters
    BY <2>1 DEF Write
  <2>2. ready' = ready \o w
    BY DEF Settle
  <2>3. ToSet(ready \o w) = ToSet(ready) \cup ToSet(w)
    BY <2>1, ConcatMembers
  <2>4. ToSet(ready)' = ToSet(ready \o w)
    BY <2>2 DEF ToSet
  <2>. QED BY <2>3, <2>4 DEF Ready, Waiters
<1>4. \A w \in Waiters(i) : Awaits(w, i)
  BY DEF AwaitInv, Waits
<1>5. \A k \in Lanes : batches[k].job # i => k \notin Waiters(i)
  <2>. TAKE k \in Lanes
  <2>1. k # Drain
    BY DEF BatchesTyped, Lanes, Drain
  <2>. QED BY <1>4, <2>1 DEF Awaits
<1>6. Drain \in Waiters(i) => Visiting /\ batches[drain.todo[1]].job = i
  BY <1>4 DEF Awaits
<1>7. Staged'
  <2>1. \A k \in Lanes : ~Handback(k)' => batches'[k].lane \in {"release", "try1", "try2", "last", "end"}
    BY <1>1 DEF DrainInv, Staged, Handback
  <2>. QED BY <1>1, <1>2, <2>1 DEF DrainInv, Staged
<1>8. ASSUME NEW k \in Lanes, batches[k].job # i, batches'[k].pending
      PROVE  Tried(k)' /\ Returned(k)' /\ Visited(k)'
  <2>1. batches'[k] = batches[k] /\ (k \in Ready' => k \in Ready)
    BY <1>1, <1>3, <1>5, <1>8
  <2>2. (k \in Jobs /\ k \in drain.on => k \in drain'.on) /\ (k \in Jobs => k \in Jobs')
    BY <1>1, <1>2, <1>8 DEF Owned
  <2>3. Visiting /\ drain.todo[1] = k /\ Drain \in Ready' => Drain \in Ready
    BY <1>3, <1>6, <1>8
  <2>. QED BY <1>0, <1>2, <1>8, <2>1, <2>2, <2>3, FailedStays
<1>9. ASSUME NEW k \in Lanes, batches[k].job = i, batches'[k].pending
      PROVE  Tried(k)' /\ Returned(k)' /\ Visited(k)'
  <2>1. /\ batches[k].pending /\ faults' = faults + 1 /\ Tried(k) /\ Returned(k) /\ Visited(k)
        /\ batches'[k].route = batches[k].route
        /\ batches'[k].lane = IF batches[k].lane = "first" THEN "release" ELSE batches[k].lane
    BY <1>1, <1>9 DEF DrainInv, Failed
  <2>2. Handback(k)' <=> Handback(k)
    BY <1>1, <1>9 DEF Handback
  <2>3. faults' >= 1 /\ (faults >= 1 => faults' >= 2) /\ (faults >= 2 => faults' >= 2)
    BY <1>0, <2>1
  <2>4. drain.at = "second" /\ HeadOf(k) => faults >= 1
    BY <2>1 DEF Visited, HeadOf
  <2>5. Tried(k)'
    BY <2>1, <2>2, <2>3, <2>4 DEF Tried
  <2>6. Returned(k)'
    BY <2>3 DEF Returned
  <2>7. Visited(k)'
    <3>1. k <= drain'.upto => k \in ToSet(drain.todo)' \/ faults' >= 2
      BY <1>2, <2>1, <2>3 DEF Visited, ToSet
    <3>2. Visiting /\ drain.todo[1] = k /\ (drain.at = "second" \/ Handback(k)) => faults >= 1
      BY <2>1 DEF Visited, Returned, Visiting
    <3>3. Visiting' <=> Visiting
      BY <1>2 DEF Visiting
    <3>. QED BY <1>2, <2>2, <2>3, <3>1, <3>2, <3>3 DEF Visited
  <2>. QED BY <2>5, <2>6, <2>7
<1>. QED BY <1>0, <1>1, <1>7, <1>8, <1>9 DEF DrainInv, Failed

\* Writes that go on or end.
LEMMA WritesDrain ==
  ASSUME IInv, AwaitInv, DrainInv, NEW i \in Batches, Land(i) \/ WriteFails(i) \/ Enqueue(i) \/ Pause(i)
  PROVE  DrainInv'
<1>. USE DEF IInv, Stored, Books
<1>1. i \in Jobs
  <2>1. jobs[i] # NoJob \/ jobs[i].kind \in {"teardown", "requeue"}
    BY DEF Land, WriteFails, Enqueue, Pause
  <2>. QED BY <2>1 DEF Jobs, NoJob
<1>2. phase' = phase
  BY DEF Land, WriteFails, Enqueue, Pause, turnV
<1>3. ASSUME NEW written, Settle(i, TRUE, written), faults' = faults PROVE DrainInv'
  <2>1. PICK ok \in BOOLEAN : ok = TRUE
    OBVIOUS
  <2>2. Settle(i, ok, written)
    BY <1>3, <2>1
  <2>. QED BY <1>1, <1>2, <1>3, <2>1, <2>2, SettleDrains
<1>4. ASSUME NEW w, jobs' = [jobs EXCEPT ![i] = w], w # NoJob, UNCHANGED <<batches, ready, drain, faults>> PROVE DrainInv'
  <2>1. Lanes' = Lanes /\ Ready' = Ready /\ faults' \in Nat /\ faults <= faults'
    BY <1>4 DEF Lanes, Ready, ToSet, DrainInv
  <2>2. \A j \in Batches : jobs'[j] = IF j = i THEN w ELSE jobs[j]
    BY <1>4 DEF JobsTyped
  <2>3. Jobs \subseteq Jobs'
    BY <1>4, <2>2 DEF Jobs
  <2>. QED BY <1>2, <1>4, <2>1, <2>3, DrainStays
<1>5. jobs[i] \in Write
  BY <1>1 DEF JobsTyped
<1>6. CASE WriteFails(i)
  <2>0. PICK ok \in BOOLEAN : ok = FALSE
    OBVIOUS
  <2>1. PICK written : written = ToSet(fallen)
    OBVIOUS
  <2>2. Settle(i, ok, written) /\ faults' = faults + 1
    BY <1>6, <2>0, <2>1 DEF WriteFails
  <2>. QED BY <1>1, <1>2, <2>2, SettleDrains
<1>7. CASE Pause(i)
  <2>1. PICK written : written = {}
    OBVIOUS
  <2>2. Settle(i, TRUE, written) /\ faults' = faults
    BY <1>7, <2>1 DEF Pause
  <2>. QED BY <1>3, <2>2
<1>8. CASE Enqueue(i) /\ ~StopPauses(i)
  <2>1. PICK written : written = {}
    OBVIOUS
  <2>2. Settle(i, TRUE, written) /\ faults' = faults
    BY <1>8, <2>1 DEF Enqueue
  <2>. QED BY <1>3, <2>2
<1>9. CASE Enqueue(i) /\ StopPauses(i)
  <2>1. PICK w : w = [jobs[i] EXCEPT !.enqueued = TRUE]
    OBVIOUS
  <2>2. jobs' = [jobs EXCEPT ![i] = w] /\ UNCHANGED <<batches, ready, drain, faults>>
    BY <1>9, <2>1 DEF Enqueue
  <2>3. w.kind = jobs[i].kind /\ jobs[i].kind # "none"
    BY <1>5, <2>1 DEF Write
  <2>4. w # NoJob
    BY <2>3 DEF NoJob
  <2>. QED BY <1>4, <2>2, <2>4
<1>10. CASE Land(i)
  <2>1. PICK written : written = ToSet(fallen) \cup ToSet(jobs[i].todo)
    OBVIOUS
  <2>2. PICK w : w = [jobs[i] EXCEPT !.todo = Tail(@)]
    OBVIOUS
  <2>3. /\ \/ jobs' = [jobs EXCEPT ![i] = w] /\ UNCHANGED <<batches, ready, drain>>
           \/ Settle(i, TRUE, written)
        /\ faults' = faults
    BY <1>10, <2>1, <2>2 DEF Land
  <2>4. w.kind = jobs[i].kind /\ jobs[i].kind # "none"
    BY <1>5, <2>2 DEF Write
  <2>5. w # NoJob
    BY <2>4 DEF NoJob
  <2>. QED BY <1>3, <1>4, <2>3, <2>5
<1>. QED BY <1>6, <1>7, <1>8, <1>9, <1>10

\* A lane goes on to its next try when the last one failed.
LEMMA LaneDrains ==
  ASSUME IInv, AwaitInv, DrainInv, NEW i \in Batches, Lane(i)
  PROVE  DrainInv'
<1>. USE DEF IInv, Stored, Books
<1>. DEFINE b == batches[i]
            next == [b EXCEPT !.lane = After(b), !.route = IF After(b) = "last" THEN "requeue" ELSE @]
<1>1. /\ ready # <<>> /\ Head(ready) = i /\ ready' = Tail(ready)
      /\ IF next.lane # "end" /\ (b.pending \/ next.lane = "joined")
         THEN Await(i, next, i)
         ELSE batches' = [batches EXCEPT ![i].lane = "end"] /\ UNCHANGED jobs
      /\ UNCHANGED <<phase, drain, faults>>
  BY DEF Lane, turnV
<1>2. /\ i \in Lanes /\ batches[i] \in Batch /\ i \in Ready /\ i # Drain
      /\ Ready = {i} \cup Ready' /\ i \notin Ready'
  <2>. PICK rest : rest = Tail(ready)
    OBVIOUS
  <2>1. ready[1] \in 0..Len(batches) /\ Head(ready) = ready[1] /\ ToSet(ready) = {ready[1]} \cup ToSet(rest)
    BY <1>1, SplitMembers DEF DrainTyped
  <2>2. ready[1] \notin ToSet(rest)
    BY <1>1, TailOnce DEF DrainTyped, AwaitInv, Waits
  <2>3. ToSet(ready)' = ToSet(rest)
    BY <1>1 DEF ToSet
  <2>4. i # 0 /\ Lanes = 1..Len(batches) /\ Len(batches) \in Nat
    BY DEF Batches, BatchesTyped, Lanes
  <2>. QED BY <1>1, <2>1, <2>2, <2>3, <2>4 DEF BatchesTyped, Ready, Drain
<1>3. /\ next \in Batch /\ next.todo = b.todo /\ next.job = b.job /\ next.pending = b.pending
      /\ next.cause = b.cause /\ next.lane = After(b)
      /\ next.route = IF After(b) = "last" THEN "requeue" ELSE b.route
  <2>1. After(b) \in {"joined", "again", "try1", "try2", "last", "end"}
    BY DEF After
  <2>. QED BY <1>2, <2>1 DEF Batch
<1>4. After(b) # "end" => b.lane # "end" /\ b.lane # "last"
  BY DEF After
<1>5. ~Handback(i) => /\ b.lane \in {"release", "try1", "try2", "last", "end"}
                      /\ b.lane = "release" => After(b) = "try1"
                      /\ b.lane = "try1" => After(b) = "try2"
                      /\ b.lane = "try2" => After(b) = "last"
                      /\ b.lane \in {"last", "end"} => After(b) = "end"
  <2>1. ~Handback(i) => b.lane \in {"release", "try1", "try2", "last", "end"} /\ b.cause # "exit-close"
    BY <1>2 DEF DrainInv, Staged, Handback
  <2>. QED BY <2>1 DEF After
<1>. HIDE DEF next
<1>6. /\ Lanes' = Lanes /\ Jobs \subseteq Jobs' /\ \A k \in Lanes : k # i => batches'[k] = batches[k]
      /\ batches'[i].cause = b.cause /\ batches'[i].pending = b.pending
      /\ \/ batches'[i].lane = After(b) /\ batches'[i].route = next.route
         \/ /\ batches'[i].lane = "end" /\ batches'[i].route = b.route
            /\ b.pending => After(b) = "end"
  <2>1. CASE Await(i, next, i)
    <3>1. /\ Lanes' = Lanes /\ Jobs \subseteq Jobs'
          /\ \A k \in Lanes : Queued(k)' = Queued(k) /\ (k # i => batches'[k] = batches[k])
          /\ batches'[i] = IF batches[i].job # 0 THEN next ELSE [next EXCEPT !.job = i]
          /\ \A j \in Jobs : /\ jobs'[j].kind = jobs[j].kind
                             /\ jobs'[j].todo = jobs[j].todo /\ jobs'[j].enqueued = jobs[j].enqueued
          /\ \A j \in Jobs' \ Jobs : /\ j = i /\ batches[i].job = 0 /\ ~jobs'[j].enqueued
                                     /\ jobs'[j].kind = next.route /\ jobs'[j].todo = next.todo
      BY <1>2, <1>3, <2>1, AwaitBooks
    <3>2. /\ [next EXCEPT !.job = i].cause = next.cause /\ [next EXCEPT !.job = i].pending = next.pending
          /\ [next EXCEPT !.job = i].lane = next.lane /\ [next EXCEPT !.job = i].route = next.route
      BY <1>3 DEF Batch
    <3>. QED BY <1>3, <3>1, <3>2
  <2>2. CASE batches' = [batches EXCEPT ![i].lane = "end"] /\ UNCHANGED jobs /\ (b.pending => After(b) = "end")
    <3>1. Lanes' = Lanes /\ Jobs' = Jobs
      BY <2>2 DEF Lanes, Jobs
    <3>2. \A k \in Lanes : batches'[k] = IF k = i THEN [b EXCEPT !.lane = "end"] ELSE batches[k]
      BY <2>2 DEF BatchesTyped, Lanes
    <3>3. /\ [b EXCEPT !.lane = "end"].cause = b.cause /\ [b EXCEPT !.lane = "end"].pending = b.pending
          /\ [b EXCEPT !.lane = "end"].lane = "end" /\ [b EXCEPT !.lane = "end"].route = b.route
      BY <1>2 DEF Batch
    <3>. QED BY <1>2, <2>2, <3>1, <3>2, <3>3
  <2>. QED BY <1>1, <1>3, <2>1, <2>2
<1>7. faults' = faults /\ faults \in Nat
  BY <1>1 DEF DrainInv
<1>8. Handback(i)' <=> Handback(i)
  BY <1>6 DEF Handback
<1>9. Staged'
  <2>1. ~Handback(i)' => batches'[i].lane \in {"release", "try1", "try2", "last", "end"}
    BY <1>5, <1>6, <1>8
  <2>2. \A k \in Lanes : k # i => (Handback(k)' <=> Handback(k))
    BY <1>6 DEF Handback
  <2>. QED BY <1>1, <1>6, <2>1, <2>2 DEF DrainInv, Staged
<1>10. ASSUME NEW k \in Lanes, k # i, batches'[k].pending PROVE Tried(k)' /\ Returned(k)' /\ Visited(k)'
  <2>1. batches'[k] = batches[k]
    BY <1>6, <1>10
  <2>. QED BY <1>1, <1>2, <1>6, <1>7, <1>10, <2>1, FailedStays
<1>11. ASSUME batches'[i].pending PROVE Tried(i)' /\ Returned(i)' /\ Visited(i)'
  <2>1. b.pending /\ Tried(i) /\ Returned(i) /\ Visited(i)
    BY <1>2, <1>6, <1>11 DEF DrainInv, Failed
  <2>2. Drain \in Ready' <=> Drain \in Ready
    BY <1>2
  <2>3. HeadOf(i)' <=> HeadOf(i)
    BY <1>1, <2>2 DEF HeadOf, Visiting
  <2>4. batches'[i].lane = After(b)
    BY <1>6, <2>1
  <2>5. Tried(i)'
    <3>. SUFFICES ASSUME ~Handback(i)
                  PROVE  /\ batches'[i].lane = "try1" /\ i \in Ready' => faults' >= 1
                         /\ batches'[i].lane = "try2" => faults' >= 1
                         /\ batches'[i].lane = "try2" /\ i \in Ready' => faults' >= 2
                         /\ batches'[i].lane \in {"last", "end"} => faults' >= 2
                         /\ batches'[i].route = "requeue" => faults' >= 2 \/ (drain'.at = "second" /\ HeadOf(i)')
      BY <1>8 DEF Tried
    <3>1. /\ b.lane = "try1" => faults >= 1
          /\ b.lane \in {"try2", "last", "end"} => faults >= 2
          /\ b.route = "requeue" => faults >= 2 \/ (drain.at = "second" /\ HeadOf(i))
      BY <1>2, <2>1 DEF Tried
    <3>2. After(b) = "last" => b.lane = "try2"
      BY <1>5
    <3>3. batches'[i].route = "requeue" => faults >= 2 \/ b.route = "requeue"
      BY <1>3, <1>6, <3>1, <3>2
    <3>. QED BY <1>1, <1>2, <1>5, <1>7, <2>3, <2>4, <3>1, <3>3
  <2>6. Returned(i)'
    BY <1>1, <1>6, <1>7, <1>8, <2>1 DEF Returned
  <2>7. Visited(i)'
    BY <1>1, <1>7, <1>8, <2>1, <2>2 DEF Visited, Visiting, ToSet
  <2>. QED BY <2>5, <2>6, <2>7
<1>. QED BY <1>6, <1>7, <1>9, <1>10, <1>11 DEF DrainInv, Failed

\* The drain goes on: it leaves a batch that is tracked behind only after two failures.
LEMMA VisitDrains ==
  ASSUME IInv, DrainInv, NEW list \in Seq(Lanes), NEW upto \in Lanes \cup {0}, Visit(list, upto),
         UNCHANGED <<phase, faults>>, phase # "running", Ready' \subseteq Ready, Drain \notin Ready',
         \A k \in Lanes : batches[k].pending =>
           /\ ~Handback(k) /\ batches[k].route = "requeue" => faults >= 2
           /\ Handback(k) => faults >= 1
           /\ k <= upto => k \in ToSet(list) \/ faults >= 2
  PROVE  DrainInv'
<1>. USE DEF IInv, Stored, Books
<1>1. /\ Lanes' = Lanes
      /\ \A k \in Lanes : /\ batches'[k].cause = batches[k].cause /\ batches'[k].pending = batches[k].pending
                          /\ batches'[k].route = batches[k].route /\ batches'[k].lane = batches[k].lane
  <2>1. CASE list = <<>>
    BY <2>1 DEF Visit, Lanes
  <2>2. CASE list # <<>>
    <3>1. Await(list[1], batches[list[1]], Drain)
      BY <2>2 DEF Visit
    <3>2. PICK i \in Lanes : i = list[1]
      BY <2>2
    <3>3. PICK b \in Batch : b = batches[i]
      BY DEF BatchesTyped, Lanes
    <3>4. Await(i, b, Drain)
      BY <3>1, <3>2, <3>3
    <3>5. /\ Lanes' = Lanes /\ Jobs \subseteq Jobs'
          /\ \A k \in Lanes : Queued(k)' = Queued(k) /\ (k # i => batches'[k] = batches[k])
          /\ batches'[i] = IF batches[i].job # 0 THEN b ELSE [b EXCEPT !.job = i]
          /\ \A j \in Jobs : /\ jobs'[j].kind = jobs[j].kind
                             /\ jobs'[j].todo = jobs[j].todo /\ jobs'[j].enqueued = jobs[j].enqueued
          /\ \A j \in Jobs' \ Jobs : /\ j = i /\ batches[i].job = 0 /\ ~jobs'[j].enqueued
                                     /\ jobs'[j].kind = b.route /\ jobs'[j].todo = b.todo
      BY <3>3, <3>4, AwaitBooks
    <3>6. /\ [b EXCEPT !.job = i].cause = b.cause /\ [b EXCEPT !.job = i].pending = b.pending
          /\ [b EXCEPT !.job = i].lane = b.lane /\ [b EXCEPT !.job = i].route = b.route
      BY DEF Batch
    <3>. QED BY <3>3, <3>5, <3>6
  <2>. QED BY <2>1, <2>2
<1>2. drain'.at \in {"first", "rest"} /\ drain'.todo = list /\ drain'.upto = upto
  BY DEF Visit
<1>3. \A k \in Lanes : Handback(k)' <=> Handback(k)
  BY <1>1 DEF Handback
<1>4. Staged'
  BY <1>1, <1>2, <1>3 DEF DrainInv, Staged
<1>5. ASSUME NEW k \in Lanes, batches'[k].pending PROVE Tried(k)' /\ Returned(k)' /\ Visited(k)'
  <2>1. batches[k].pending /\ Tried(k)
    BY <1>1, <1>5 DEF DrainInv, Failed
  <2>2. Tried(k)'
    BY <1>1, <1>3, <2>1 DEF Tried
  <2>3. Returned(k)'
    BY <1>3, <2>1 DEF Returned
  <2>4. Visited(k)'
    BY <1>2, <2>1 DEF Visited, ToSet
  <2>. QED BY <2>2, <2>3, <2>4
<1>. QED BY <1>1, <1>4, <1>5 DEF DrainInv, Failed

\* The drain begins when the writes under way are over.
LEMMA DrainStartsDrains ==
  ASSUME IInv, ReadInv, AwaitInv, DrainInv, DrainStarts
  PROVE  DrainInv'
<1>. USE DEF IInv, Stored, Books
<1>1. /\ ready = <<>> /\ drain.at = "inflight" /\ drain.on = {}
      /\ UNCHANGED <<phase, faults, ready>>
  BY DEF DrainStarts, turnV
<1>2. \A k \in Lanes : batches[k].pending => batches[k].todo # <<>>
  BY DEF AwaitInv, Visits
<1>3. PICK list \in Seq(Lanes) :
        /\ Visit(list, Len(batches)) /\ IsInjective(list)
        /\ \A k \in Lanes : batches[k].pending <=> k \in ToSet(list)
  BY <1>2, DrainList DEF ReadInv
<1>4. Ready = {} /\ Ready' = Ready /\ phase # "running"
  BY <1>1, EmptyMembers DEF Ready, ToSet, DrainInv, Staged
<1>. PICK upto : upto = Len(batches)
  OBVIOUS
<1>5. upto \in Lanes \cup {0}
  BY DEF BatchesTyped, Lanes
<1>6. \A k \in Lanes : batches[k].pending =>
         /\ ~Handback(k) /\ batches[k].route = "requeue" => faults >= 2
         /\ Handback(k) => faults >= 1
         /\ k <= upto => k \in ToSet(list) \/ faults >= 2
  BY <1>1, <1>3 DEF DrainInv, Failed, Tried, Returned
<1>. QED BY <1>1, <1>3, <1>4, <1>5, <1>6, VisitDrains

\* It tries a batch once more as a row, or leaves it behind.
LEMMA DrainContinuesDrains ==
  ASSUME IInv, ReadInv, AwaitInv, DrainInv, DrainContinues
  PROVE  DrainInv'
<1>. USE DEF IInv, Stored, Books
<1>. DEFINE c == [batches[drain.todo[1]] EXCEPT !.route = "requeue"]
<1>1. /\ ready # <<>> /\ Head(ready) = Drain /\ ready' = Tail(ready)
      /\ drain.at \in {"first", "second"} /\ UNCHANGED <<phase, faults>>
      /\ IF drain.at = "first" /\ batches[drain.todo[1]].route = "teardown" /\ batches[drain.todo[1]].pending
         THEN Await(drain.todo[1], c, Drain) /\ drain' = [drain EXCEPT !.at = "second"]
         ELSE Visit(Tail(drain.todo), drain.upto)
  BY DEF DrainContinues, turnV
<1>2. Drain \in Ready /\ Drain \notin Ready' /\ Ready' \subseteq Ready
  <2>. PICK rest : rest = Tail(ready)
    OBVIOUS
  <2>1. Head(ready) = ready[1] /\ ToSet(ready) = {ready[1]} \cup ToSet(rest)
    BY <1>1, SplitMembers DEF DrainTyped
  <2>2. ready[1] \notin ToSet(rest)
    BY <1>1, TailOnce DEF DrainTyped, AwaitInv, Waits
  <2>3. ToSet(ready)' = ToSet(rest)
    BY <1>1 DEF ToSet
  <2>. QED BY <1>1, <2>1, <2>2, <2>3 DEF Ready
<1>3. drain.todo \in Seq(Lanes) /\ drain.todo # <<>>
  BY <1>1 DEF DrainTyped
<1>4. PICK i \in Lanes : i = drain.todo[1]
  BY <1>3
<1>5. batches[i] \in Batch
  BY DEF BatchesTyped, Lanes
<1>6. faults \in Nat /\ phase # "running"
  BY <1>1 DEF DrainInv, Staged
<1>7. CASE drain.at = "first" /\ batches[i].route = "teardown" /\ batches[i].pending
  <2>1. Await(i, c, Drain) /\ drain' = [drain EXCEPT !.at = "second"]
    BY <1>1, <1>4, <1>7
  <2>2. drain'.at = "second" /\ drain'.todo = drain.todo /\ drain'.upto = drain.upto /\ drain'.on = drain.on
    BY <2>1 DEF DrainTyped
  <2>3. /\ c \in Batch /\ c.todo = batches[i].todo /\ c.job = batches[i].job /\ c.lane = batches[i].lane
        /\ c.pending = batches[i].pending /\ c.cause = batches[i].cause /\ c.route = "requeue"
    BY <1>4, <1>5 DEF Batch
  <2>. HIDE DEF c
  <2>4. /\ Lanes' = Lanes /\ Jobs \subseteq Jobs'
        /\ \A k \in Lanes : Queued(k)' = Queued(k) /\ (k # i => batches'[k] = batches[k])
        /\ batches'[i] = IF batches[i].job # 0 THEN c ELSE [c EXCEPT !.job = i]
        /\ \A j \in Jobs : /\ jobs'[j].kind = jobs[j].kind
                           /\ jobs'[j].todo = jobs[j].todo /\ jobs'[j].enqueued = jobs[j].enqueued
        /\ \A j \in Jobs' \ Jobs : /\ j = i /\ batches[i].job = 0 /\ ~jobs'[j].enqueued
                                   /\ jobs'[j].kind = c.route /\ jobs'[j].todo = c.todo
    BY <2>1, <2>3, AwaitBooks
  <2>5. /\ [c EXCEPT !.job = i].cause = c.cause /\ [c EXCEPT !.job = i].pending = c.pending
        /\ [c EXCEPT !.job = i].lane = c.lane /\ [c EXCEPT !.job = i].route = c.route
    BY <2>3 DEF Batch
  <2>6. /\ batches'[i].cause = batches[i].cause /\ batches'[i].pending = batches[i].pending
        /\ batches'[i].lane = batches[i].lane
    BY <2>3, <2>4, <2>5
  <2>7. \A k \in Lanes : Handback(k)' <=> Handback(k)
    BY <2>4, <2>6 DEF Handback
  <2>8. Staged'
    BY <1>1, <1>6, <2>2, <2>4, <2>6, <2>7 DEF DrainInv, Staged
  <2>9. ASSUME NEW k \in Lanes, batches'[k].pending PROVE Tried(k)' /\ Returned(k)' /\ Visited(k)'
    <3>1. batches[k].pending /\ Tried(k) /\ Returned(k) /\ Visited(k)
      BY <2>4, <2>6, <2>9 DEF DrainInv, Failed
    <3>2. faults >= 1 \/ k # i
      BY <1>1, <1>2, <1>4, <3>1 DEF Visited, Visiting
    <3>3. Tried(k)'
      <4>1. CASE k = i
        <5>1. HeadOf(i)'
          BY <1>2, <1>4, <2>2 DEF HeadOf, Visiting
        <5>. QED BY <1>1, <1>2, <2>2, <2>6, <2>7, <3>1, <4>1, <5>1 DEF Tried
      <4>2. CASE k # i
        BY <1>1, <1>2, <1>7, <2>4, <2>7, <3>1, <4>2 DEF Tried
      <4>. QED BY <4>1, <4>2
    <3>4. Returned(k)'
      BY <1>1, <2>7, <3>1 DEF Returned
    <3>5. Visited(k)'
      BY <1>1, <1>2, <1>4, <2>2, <3>1, <3>2 DEF Visited, ToSet
    <3>. QED BY <3>3, <3>4, <3>5
  <2>. QED BY <1>1, <1>6, <2>4, <2>8, <2>9 DEF DrainInv, Failed
<1>8. CASE ~(drain.at = "first" /\ batches[i].route = "teardown" /\ batches[i].pending)
  <2>. PICK list : list = Tail(drain.todo)
    OBVIOUS
  <2>1. Visit(list, drain.upto) /\ list \in Seq(Lanes) /\ ToSet(drain.todo) = {i} \cup ToSet(list)
    BY <1>1, <1>3, <1>4, <1>8, SplitMembers
  <2>2. drain.upto \in Lanes \cup {0}
    BY DEF DrainInv, Staged
  <2>3. batches[i].pending => faults >= 2
    <3>. SUFFICES ASSUME batches[i].pending PROVE faults >= 2
      OBVIOUS
    <3>1. Tried(i) /\ Visited(i)
      BY DEF DrainInv, Failed
    <3>2. CASE drain.at = "second" \/ Handback(i)
      BY <1>1, <1>2, <1>4, <3>1, <3>2 DEF Visited, Visiting
    <3>3. CASE drain.at # "second" /\ ~Handback(i)
      <4>1. batches[i].route = "requeue"
        BY <1>1, <1>5, <1>8, <3>3 DEF Batch
      <4>. QED BY <3>1, <3>3, <4>1 DEF Tried
    <3>. QED BY <3>2, <3>3
  <2>4. \A k \in Lanes : batches[k].pending =>
         /\ ~Handback(k) /\ batches[k].route = "requeue" => faults >= 2
         /\ Handback(k) => faults >= 1
         /\ k <= drain.upto => k \in ToSet(list) \/ faults >= 2
    <3>. TAKE k \in Lanes
    <3>. HAVE batches[k].pending
    <3>1. Tried(k) /\ Returned(k) /\ Visited(k)
      BY DEF DrainInv, Failed
    <3>2. ~HeadOf(k)
      BY <1>2 DEF HeadOf
    <3>3. ~Handback(k) /\ batches[k].route = "requeue" => faults >= 2
      BY <3>1, <3>2 DEF Tried
    <3>4. Handback(k) => faults >= 1
      BY <1>1, <3>1 DEF Returned
    <3>5. k <= drain.upto => k \in ToSet(list) \/ faults >= 2
      BY <2>1, <2>3, <3>1 DEF Visited
    <3>. QED BY <3>3, <3>4, <3>5
  <2>. QED BY <1>1, <1>2, <1>6, <2>1, <2>2, <2>4, VisitDrains
<1>. QED BY <1>7, <1>8

\* The turn's steps.
LEMMA TurnDrains ==
  ASSUME IInv, AwaitInv, DrainInv, Turn, Lanes' \subseteq Batches
  PROVE  DrainInv'
<1>0. faults \in Nat /\ (drain.at # "no" => phase # "running")
  BY DEF DrainInv, Staged
<1>1. ASSUME UNCHANGED <<batches, jobs, ready, drain, faults>>, phase' = "running" => phase = "running"
      PROVE  DrainInv'
  <2>1. Lanes' = Lanes /\ Jobs' = Jobs /\ Ready' = Ready
    BY <1>1 DEF Lanes, Jobs, Ready, ToSet
  <2>. QED BY <1>0, <1>1, <2>1, DrainStays
<1>2. ASSUME NEW msgs \in Seq(Messages), NEW cause \in {"abort", "abnormal-seal", "exit-close"},
             Discard(msgs, cause), UNCHANGED <<ready, drain, faults>>,
             phase' = "running" => phase = "running", cause = "exit-close" => phase = "running"
      PROVE  DrainInv'
  BY <1>0, <1>2, DiscardDrains
<1>3. CASE \E m \in Messages : Steer(m)
  BY <1>1, <1>3 DEF Steer
<1>4. CASE Poll
  BY <1>1, <1>4 DEF Poll
<1>5. ASSUME NEW msgs \in Seq(Messages), Restore(msgs) PROVE DrainInv'
  <2>1. /\ phase' = phase /\ UNCHANGED <<ready, drain, faults>>
        /\ Discard(msgs, "abort") \/ UNCHANGED <<batches, jobs>>
    BY <1>5 DEF Restore
  <2>. QED BY <1>1, <1>2, <2>1
<1>6. CASE PollConsumes
  <2>. PICK S : S = {m \in Messages : ~Takes(m)}
    OBVIOUS
  <2>. PICK msgs : msgs = Kept(claimed, S)
    OBVIOUS
  <2>1. msgs \in Seq(Messages \cap S) /\ ToSet(msgs) = ToSet(claimed) \cap S
    BY KeptMembers DEF IInv, TurnTyped
  <2>2. msgs \in Seq(Messages)
    BY <2>1
  <2>. QED BY <1>5, <1>6, <2>2 DEF PollConsumes
<1>7. CASE PollGivesUp
  BY <1>5, <1>7 DEF PollGivesUp, IInv, TurnTyped
<1>8. waiting \in Seq(Messages)
  BY DEF IInv, TurnTyped
<1>9. CASE TryBeginClose
  BY <1>2, <1>8, <1>9 DEF TryBeginClose
<1>10. CASE \E r \in {"user", "other"} : Abort(r)
  BY <1>2, <1>8, <1>10 DEF Abort, AbortEntry
<1>11. CASE HostEnds
  <2>1. CASE phase = "running"
    BY <1>2, <1>8, <1>11, <2>1 DEF HostEnds
  <2>2. CASE phase # "running"
    BY <1>1, <1>11, <2>2 DEF HostEnds
  <2>. QED BY <2>1, <2>2
<1>12. CASE CommitBeforeRelease
  <2>1. PICK F \in SUBSET Lanes, f \in Nat \ Jobs :
           /\ Lanes' = Lanes /\ Jobs' \subseteq Jobs \cup {f}
           /\ \A k \in F : /\ batches[k].job = 0 /\ batches[k].pending /\ batches[k].route = "teardown"
                           /\ batches'[k] = [batches[k] EXCEPT !.job = f]
           /\ \A k \in Lanes : k \notin F => batches'[k] = batches[k]
           /\ \A j \in Jobs : j \in Jobs' /\ jobs'[j] = jobs[j]
           /\ f \in Jobs' => /\ jobs'[f].kind = "teardown" /\ jobs'[f].waiters = <<>>
                             /\ ~jobs'[f].enqueued /\ jobs'[f].todo = Merged(F)
           /\ F = {} \/ f \in F
           /\ \A k \in Lanes : batches[k].pending /\ batches[k].route = "teardown" /\ batches[k].job = 0 => k \in F
    BY <1>12, CommitBooks
  <2>2. \A k \in Lanes : batches[k] \in Batch
    BY DEF IInv, Stored, Books, BatchesTyped, Lanes
  <2>3. \A k \in Lanes :
          LET b == [batches[k] EXCEPT !.job = f]
          IN  /\ b.cause = batches[k].cause /\ b.pending = batches[k].pending
              /\ b.route = batches[k].route /\ b.lane = batches[k].lane
    BY <2>2 DEF Batch
  <2>4. \A k \in Lanes : /\ batches'[k].cause = batches[k].cause /\ batches'[k].pending = batches[k].pending
                         /\ batches'[k].route = batches[k].route /\ batches'[k].lane = batches[k].lane
    BY <2>1, <2>3
  <2>5. UNCHANGED <<phase, ready, drain, faults>>
    BY <1>12 DEF CommitBeforeRelease
  <2>6. Ready' = Ready
    BY <2>5 DEF Ready, ToSet
  <2>. QED BY <1>0, <2>1, <2>4, <2>5, <2>6, DrainStays
<1>13. CASE Release
  <2>1. /\ ready = <<>> /\ host = "settling" /\ phase' = "gone" /\ ready' = [i \in Lanes |-> i]
        /\ UNCHANGED <<batches, jobs, drain, faults>>
    BY <1>13 DEF Release
  <2>2. \A k \in Lanes : batches[k].lane \in {"first", "release"}
    BY <2>1 DEF AwaitInv, Begins
  <2>3. Lanes' = Lanes /\ Jobs' = Jobs
    BY <2>1 DEF Lanes, Jobs
  <2>4. Drain \notin Ready'
    <3>. PICK first : first = [i \in Lanes |-> i]
      OBVIOUS
    <3>1. ToSet(ready)' = ToSet(first) /\ ToSet(first) = Lanes
      BY <2>1 DEF ToSet
    <3>2. 0 \notin Lanes
      BY DEF IInv, Stored, Books, BatchesTyped, Lanes
    <3>. QED BY <3>1, <3>2 DEF Ready, Drain
  <2>5. Staged'
    BY <2>1, <2>3 DEF DrainInv, Staged, Handback
  <2>6. ASSUME NEW k \in Lanes, batches'[k].pending PROVE Tried(k)' /\ Returned(k)' /\ Visited(k)'
    <3>1. batches[k].pending /\ Tried(k) /\ Returned(k) /\ Visited(k)
      BY <2>1, <2>6 DEF DrainInv, Failed
    <3>2. (Handback(k)' <=> Handback(k)) /\ (Visiting' <=> Visiting)
      BY <2>1 DEF Handback, Visiting
    <3>3. HeadOf(k) => HeadOf(k)'
      BY <2>1, <2>4, <3>2 DEF HeadOf
    <3>4. Tried(k)'
      BY <2>1, <2>2, <3>1, <3>2, <3>3 DEF Tried
    <3>5. Returned(k)'
      BY <2>1, <2>3, <3>1, <3>2 DEF Returned
    <3>6. Visited(k)'
      BY <2>1, <2>4, <3>1, <3>2 DEF Visited, ToSet
    <3>. QED BY <3>4, <3>5, <3>6
  <2>. QED BY <1>0, <2>1, <2>3, <2>5, <2>6 DEF DrainInv, Failed
<1>. QED BY <1>3, <1>4, <1>6, <1>7, <1>9, <1>10, <1>11, <1>12, <1>13 DEF Turn

\* A shutdown: the drain waits for every write that is under way.
LEMMA ShutdownDrains ==
  ASSUME IInv, AwaitInv, DrainInv, Shutdown, Lanes' \subseteq Batches
  PROVE  DrainInv'
<1>1. /\ ready = <<>> /\ drain.at = "no"
      /\ IF phase = "running" THEN AbortEntry("other") ELSE UNCHANGED <<turnV, batches, jobs>>
      /\ drain' = [at |-> "inflight", on |-> Jobs, todo |-> <<>>, upto |-> 0]
      /\ UNCHANGED <<ready, faults>>
  BY DEF Shutdown
<1>2. phase' # "running"
  BY <1>1 DEF AbortEntry, turnV
<1>3. CASE phase = "running"
  <2>1. Discard(waiting, "abort") /\ waiting \in Seq(Messages)
    BY <1>1, <1>3 DEF AbortEntry, IInv, TurnTyped
  <2>2. PICK cause \in {"abort", "abnormal-seal", "exit-close"} : cause = "abort"
    OBVIOUS
  <2>. QED BY <1>1, <1>2, <2>1, <2>2, DiscardDrains
<1>4. CASE phase # "running"
  <2>1. PICK msgs \in Seq(Messages) : msgs = <<>>
    <3>1. <<>> \in Seq(Messages)
      OBVIOUS
    <3>. QED BY <3>1
  <2>2. PICK cause \in {"abort", "abnormal-seal", "exit-close"} : cause = "abort"
    OBVIOUS
  <2>3. Discard(msgs, cause)
    <3>. PICK kept : kept = Kept(msgs, Users)
      OBVIOUS
    <3>1. kept \in Seq(Messages \cap Users) /\ ToSet(kept) = ToSet(msgs) \cap Users
      BY KeptMembers
    <3>2. kept = <<>>
      <4>1. ToSet(kept) = {}
        BY <2>1, <3>1, EmptyMembers
      <4>2. kept # <<>> => kept[1] \in ToSet(kept)
        BY <3>1 DEF ToSet
      <4>. QED BY <4>1, <4>2
    <3>3. Handed(msgs, cause).todo = <<>>
      BY <3>2 DEF Handed
    <3>. QED BY <1>1, <1>4, <3>3 DEF Discard
  <2>. QED BY <1>1, <1>2, <2>2, <2>3, DiscardDrains
<1>. QED BY <1>3, <1>4

\* Nothing has failed, and no drain has begun, when the turn begins.
LEMMA DrainInit == Init => DrainInv
<1>. SUFFICES ASSUME Init PROVE DrainInv
  OBVIOUS
<1>1. Lanes = {}
  BY DEF Init, Lanes
<1>2. /\ drain = [at |-> "no", on |-> {}, todo |-> <<>>, upto |-> 0] /\ faults = 0
  BY DEF Init
<1>. QED BY <1>1, <1>2 DEF DrainInv, Staged, Failed

\* Every step keeps what is said of a drain.
LEMMA DrainNext ==
  ASSUME IInv, ReadInv, AwaitInv, DrainInv, [Next]_vars, Lanes' \subseteq Batches
  PROVE  DrainInv'
<1>1. CASE Dispatch \/ OtherWake \/ ContinueQueue \/ UNCHANGED vars
  <2>1. UNCHANGED <<phase, batches, jobs, ready, drain, faults>>
    BY <1>1 DEF Dispatch, OtherWake, ContinueQueue, vars, turnV
  <2>2. Lanes' = Lanes /\ Jobs' = Jobs /\ Ready' = Ready /\ faults \in Nat
    BY <2>1 DEF Lanes, Jobs, Ready, ToSet, DrainInv
  <2>. QED BY <2>1, <2>2, DrainStays
<1>2. CASE DrainEnds
  <2>1. /\ drain.at = "rest" /\ drain'.at = "done" /\ drain'.todo = drain.todo /\ drain'.upto = drain.upto
        /\ UNCHANGED <<phase, batches, jobs, ready, faults>>
    BY <1>2 DEF DrainEnds, IInv, DrainTyped, turnV
  <2>2. Lanes' = Lanes /\ Jobs' = Jobs /\ Ready' = Ready /\ \A k \in Lanes : Handback(k)' <=> Handback(k)
    BY <2>1 DEF Lanes, Jobs, Ready, ToSet, Handback
  <2>3. Staged'
    BY <2>1, <2>2 DEF DrainInv, Staged
  <2>4. ASSUME NEW k \in Lanes, batches'[k].pending PROVE Tried(k)' /\ Returned(k)' /\ Visited(k)'
    <3>1. batches[k].pending /\ Tried(k) /\ Returned(k) /\ Visited(k)
      BY <2>1, <2>4 DEF DrainInv, Failed
    <3>2. Tried(k)'
      BY <2>1, <2>2, <3>1 DEF Tried
    <3>3. Returned(k)'
      BY <2>1, <2>2, <3>1 DEF Returned
    <3>4. Visited(k)'
      BY <2>1, <3>1 DEF Visited, Visiting, ToSet
    <3>. QED BY <3>2, <3>3, <3>4
  <2>. QED BY <2>1, <2>2, <2>3, <2>4 DEF DrainInv, Failed
<1>. QED BY <1>1, <1>2, TurnDrains, WritesDrain, LaneDrains, ShutdownDrains, DrainStartsDrains,
            DrainContinuesDrains DEF Next, Requeue

\* What was handed over before a shutdown began to drain is durable when the drain is
\* done, unless more than one write failed: a batch that is tracked still when the
\* drain leaves it behind failed in the conversation and as a row, or had failed
\* before and failed as the row it is.
THEOREM DrainLandsAll == Spec => []DrainLands
<1>1. Init => IInv /\ ReadInv /\ AwaitInv /\ Marks /\ Contents /\ DrainInv
  BY IInvInit, ReadInit, AwaitInit, TypeInit, DrainInit
<1>2. IInv /\ ReadInv /\ AwaitInv /\ Marks /\ Contents /\ DrainInv /\ [Next]_vars
        => (IInv /\ ReadInv /\ AwaitInv /\ Marks /\ Contents /\ DrainInv)'
  <2>. SUFFICES ASSUME IInv, ReadInv, AwaitInv, Marks, Contents, DrainInv, [Next]_vars
                PROVE  (IInv /\ ReadInv /\ AwaitInv /\ Marks /\ Contents /\ DrainInv)'
    OBVIOUS
  <2>1. IInv' /\ ReadInv' /\ AwaitInv' /\ Marks' /\ Contents'
    BY IInvNext, ReadNext, AwaitNext, MarksNext, ContentsNext
  <2>2. Lanes' \subseteq Batches
    <3>1. PICK n \in Nat : Lanes' = 1..n
      BY <2>1 DEF IInv, Stored, Books, BatchesTyped, Lanes
    <3>2. PICK f : OwnMessage(f)'
      BY <2>1 DEF Contents, Roomy
    <3>3. f \in [1..n -> Users] /\ \A k, l \in 1..n : f[k] = f[l] => k = l
      BY <3>1, <3>2 DEF OwnMessage
    <3>. QED BY <3>1, <3>3, RoomForAll
  <2>3. DrainInv'
    BY <2>2, DrainNext
  <2>. QED BY <2>1, <2>3
<1>3. Spec => [](IInv /\ ReadInv /\ AwaitInv /\ Marks /\ Contents /\ DrainInv)
  BY <1>1, <1>2, PTL DEF Spec
<1>4. IInv /\ AwaitInv /\ DrainInv => DrainLands
  <2>. SUFFICES ASSUME IInv, AwaitInv, DrainInv, drain.at = "done", faults < 2,
                       NEW i \in 1..drain.upto, batches[i].pending
                PROVE  FALSE
    BY DEF DrainLands
  <2>1. i \in Lanes /\ i <= drain.upto
    BY DEF IInv, Stored, Books, BatchesTyped, Lanes, DrainInv, Staged
  <2>2. drain.todo = <<>>
    BY DEF AwaitInv, Visits, Visiting
  <2>3. i \in ToSet(drain.todo) \/ faults >= 2
    BY <2>1 DEF DrainInv, Failed, Visited
  <2>. QED BY <2>2, <2>3, EmptyMembers DEF DrainInv
<1>. QED BY <1>3, <1>4, PTL
-----------------------------------------------------------------------------
(* Each message has one home, and moves on only.                            *)

\* Where a message is found, if it is not in the turn.
Elsewhere(m) == m \in consumed \cup ToSet(fallen) \cup InQueue

\* The homes exclude each other, and no message is lost.
HomesAre == \A m \in Users :
  /\ Home[m] = "new" <=> m \notin accepted
  /\ Home[m] = "read" <=> m \in consumed
  /\ Home[m] = "conversation" <=> m \in ToSet(fallen)
  /\ Home[m] = "ran" <=> m \in ran
  /\ Home[m] = "queue" <=> m \in InQueue \ ran
  /\ Home[m] = "turn" <=> InTurn(m)
  /\ Home[m] = "held" <=> m \in accepted /\ ~Elsewhere(m) /\ ~InTurn(m)
  /\ Elsewhere(m) \/ InTurn(m) => m \in accepted
  /\ ~(Elsewhere(m) /\ InTurn(m))

LEMMA HomesAreApart == IInv /\ ReadInv => HomesAre
<1>. SUFFICES ASSUME IInv, ReadInv, NEW m \in Users PROVE HomesAre!(m)
  BY DEF HomesAre
<1>1. /\ \A k \in Lanes : Queued(k) \subseteq accepted /\ Queued(k) \cap TurnHas = {}
      /\ TurnHas \cup ToSet(fallen) \subseteq accepted /\ ToSet(fallen) \cap TurnHas = {}
      /\ consumed \cap (ToSet(waiting) \cup ToSet(claimed)) = {}
  BY DEF ReadInv, Apart
<1>2. \A n \in InQueue : \E k \in Lanes : n \in Queued(k)
  BY DEF ReadInv, Passes, InQueue, Through
<1>3. \A n \in Tracked : \E k \in Lanes : n \in Queued(k)
  BY DEF Tracked
<1>4. consumed \cap (ToSet(fallen) \cup InQueue) = {} /\ ToSet(fallen) \cap InQueue = {}
  BY ReadInvImplies DEF ReadOnce
<1>5. ran \subseteq InQueue
  BY DEF InQueue
<1>6. m \in accepted => m \in consumed \cup ToSet(fallen) \cup InQueue \cup Tracked \/ InTurn(m)
  BY IInvImplies DEF NothingDropped, InTurn
<1>7. InTurn(m) => m \in TurnHas /\ m \notin consumed
  BY <1>1 DEF InTurn, TurnHas
<1>8. consumed \subseteq TurnHas
  BY DEF TurnHas
<1>9. /\ m \in InQueue \cup Tracked => m \in accepted /\ ~InTurn(m)
      /\ m \in consumed \cup ToSet(fallen) => m \in accepted
      /\ m \in ToSet(fallen) => ~InTurn(m)
      /\ InTurn(m) => m \in accepted
      /\ m \in Tracked => m \notin consumed
  BY <1>1, <1>2, <1>3, <1>7, <1>8
<1>10. ~Twice(m)
  BY <1>4, <1>7, <1>9 DEF Twice
<1>11. Home[m] = IF m \notin accepted THEN "new"
                 ELSE IF InTurn(m) THEN "turn"
                 ELSE IF m \in consumed THEN "read"
                 ELSE IF m \in ToSet(fallen) THEN "conversation"
                 ELSE IF m \in ran THEN "ran"
                 ELSE IF m \in InQueue THEN "queue"
                 ELSE IF m \in Tracked THEN "held" ELSE "lost"
  BY <1>10 DEF Home
<1>. QED BY <1>4, <1>5, <1>6, <1>7, <1>9, <1>11 DEF Elsewhere

\* The homes of a message in both states of a step.
HomeInv == IInv /\ ReadInv /\ HomesAre

LEMMA HomeInvKept == Spec => []HomeInv
<1>1. Init => IInv /\ ReadInv
  BY IInvInit, ReadInit
<1>2. IInv /\ ReadInv /\ [Next]_vars => (IInv /\ ReadInv)'
  BY IInvNext, ReadNext
<1>3. Spec => [](IInv /\ ReadInv)
  BY <1>1, <1>2, PTL DEF Spec
<1>. QED BY <1>3, HomesAreApart, PTL DEF HomeInv

\* A batch gives up messages only while it is being written into the conversation.
LEMMA QueuedStay == IInv /\ ReadInv /\ [Next]_vars =>
    \A k \in Lanes : Queued(k)' \subseteq Queued(k) /\ (k \in Through => Queued(k)' = Queued(k))
<1>. SUFFICES ASSUME IInv, ReadInv, [Next]_vars
              PROVE  \A k \in Lanes : Queued(k)' \subseteq Queued(k) /\ (k \in Through => Queued(k)' = Queued(k))
  OBVIOUS
<1>0. batches \in Seq(Batch) /\ Lanes = 1..Len(batches) /\ \A k \in Lanes : batches[k] \in Batch
  BY DEF IInv, Stored, Books, BatchesTyped, Lanes
<1>. DEFINE Same == \A k \in Lanes : Queued(k)' = Queued(k)
<1>1. ASSUME NEW msgs, NEW cause, Discard(msgs, cause) PROVE Same
  <2>1. batches' = batches \/ \E b : batches' = Append(batches, b)
    BY <1>1 DEF Discard
  <2>2. \A k \in Lanes : batches'[k] = batches[k]
    BY <1>0, <2>1
  <2>. QED BY <2>2 DEF Queued, ToSet
<1>2. ASSUME NEW i, NEW b, NEW who, Await(i, b, who),
             i \in Lanes => b \in Batch /\ b.todo = batches[i].todo
      PROVE  Same
  <2>1. batches' = [batches EXCEPT ![i] = b] \/ batches' = [batches EXCEPT ![i] = [b EXCEPT !.job = i]]
    BY <1>2 DEF Await
  <2>2. i \in Lanes => [b EXCEPT !.job = i].todo = b.todo
    BY <1>2 DEF Batch
  <2>3. PICK c : batches' = [batches EXCEPT ![i] = c] /\ (i \in Lanes => c.todo = batches[i].todo)
    BY <1>2, <2>1, <2>2
  <2>4. \A k \in Lanes : batches'[k].todo = batches[k].todo
    BY <1>0, <2>3
  <2>. QED BY <2>4 DEF Queued, ToSet
<1>3. ASSUME NEW list, NEW upto, Visit(list, upto) PROVE Same
  <2>1. CASE list = <<>>
    BY <1>3, <2>1 DEF Visit, Queued
  <2>2. CASE list # <<>>
    BY <1>0, <1>2, <1>3, <2>2 DEF Visit
  <2>. QED BY <2>1, <2>2
<1>4. batches' = batches => Same
  BY DEF Queued
<1>5. CASE Turn
  <2>1. CASE CommitBeforeRelease
    <3>1. \A k \in Lanes : batches'[k].todo = batches[k].todo
      <4>1. \A k \in Lanes : batches'[k] = batches[k] \/ \E f : batches'[k] = [batches[k] EXCEPT !.job = f]
        BY <2>1, CommitBooks
      <4>2. \A k \in Lanes : \A f : [batches[k] EXCEPT !.job = f].todo = batches[k].todo
        BY <1>0 DEF Batch
      <4>. SUFFICES ASSUME NEW k \in Lanes PROVE batches'[k].todo = batches[k].todo
        OBVIOUS
      <4>3. CASE batches'[k] = batches[k]
        BY <4>3
      <4>4. ASSUME NEW f, batches'[k] = [batches[k] EXCEPT !.job = f]
            PROVE  batches'[k].todo = batches[k].todo
        BY <4>2, <4>4
      <4>. QED BY <4>1, <4>3, <4>4
    <3>. QED BY <3>1 DEF Queued, ToSet
  <2>2. CASE \E m \in Messages : Steer(m)
    BY <1>4, <2>2 DEF Steer
  <2>3. CASE Poll \/ Release
    BY <1>4, <2>3 DEF Poll, Release
  <2>4. CASE PollConsumes \/ PollGivesUp
    BY <1>1, <1>4, <2>4 DEF PollConsumes, PollGivesUp, Restore
  <2>5. CASE TryBeginClose \/ HostEnds
    BY <1>1, <1>4, <2>5 DEF TryBeginClose, HostEnds
  <2>6. CASE \E r \in {"user", "other"} : Abort(r)
    BY <1>1, <2>6 DEF Abort, AbortEntry
  <2>. QED BY <1>5, <2>1, <2>2, <2>3, <2>4, <2>5, <2>6 DEF Turn
<1>6. ASSUME NEW i \in Jobs, NEW ok \in BOOLEAN, NEW written, Settle(i, ok, written)
      PROVE  \A k \in Lanes : Queued(k)' \subseteq Queued(k) /\ (k \in Through => Queued(k)' = Queued(k))
  <2>. TAKE k \in Lanes
  <2>1. CASE batches[k].job # i
    BY <1>6, <2>1, SettleBooks DEF IInv
  <2>2. CASE batches[k].job = i
    <3>1. Queued(k)' = IF jobs[i].kind = "teardown" THEN Queued(k) \ written ELSE Queued(k)
      BY <1>6, <2>2, SettleBooks DEF IInv
    <3>2. jobs[i].kind = "teardown" => k \notin Through
      BY <2>2 DEF Through, Writing, Jobs
    <3>. QED BY <3>1, <3>2
  <2>. QED BY <2>1, <2>2
<1>7. ASSUME NEW i \in Batches, Land(i) \/ WriteFails(i) \/ Enqueue(i) \/ Pause(i)
      PROVE  \A k \in Lanes : Queued(k)' \subseteq Queued(k) /\ (k \in Through => Queued(k)' = Queued(k))
  <2>1. i \in Jobs
    <3>1. jobs[i] # NoJob \/ jobs[i].kind \in {"teardown", "requeue"}
      BY <1>7 DEF Land, WriteFails, Enqueue, Pause
    <3>. QED BY <3>1 DEF Jobs, NoJob
  <2>2. batches' = batches \/ \E ok \in BOOLEAN : \E written : Settle(i, ok, written)
    BY <1>7 DEF Land, WriteFails, Enqueue, Pause
  <2>. QED BY <1>4, <1>6, <2>1, <2>2
<1>8. ASSUME NEW i \in Batches, Lane(i) PROVE Same
  <2>. DEFINE next == [batches[i] EXCEPT !.lane = After(batches[i]),
                                         !.route = IF After(batches[i]) = "last" THEN "requeue" ELSE @]
  <2>1. Await(i, next, i) \/ batches' = [batches EXCEPT ![i].lane = "end"]
    BY <1>8 DEF Lane
  <2>2. CASE batches' = [batches EXCEPT ![i].lane = "end"]
    <3>1. \A k \in Lanes : batches'[k].todo = batches[k].todo
      BY <1>0, <2>2 DEF Batch
    <3>. QED BY <3>1 DEF Queued, ToSet
  <2>3. CASE Await(i, next, i)
    <3>1. i \in Lanes => next \in Batch /\ next.todo = batches[i].todo
      BY <1>0 DEF Batch, After
    <3>. QED BY <1>2, <2>3, <3>1
  <2>. QED BY <2>1, <2>2, <2>3
<1>9. CASE DrainStarts
  BY <1>3, <1>9 DEF DrainStarts
<1>10. CASE DrainContinues
  <2>. DEFINE i == drain.todo[1]
  <2>1. i \in Lanes => [batches[i] EXCEPT !.route = "requeue"] \in Batch
                        /\ [batches[i] EXCEPT !.route = "requeue"].todo = batches[i].todo
    BY <1>0 DEF Batch
  <2>. QED BY <1>2, <1>3, <1>10, <2>1 DEF DrainContinues
<1>11. CASE Shutdown
  BY <1>1, <1>4, <1>11 DEF Shutdown, AbortEntry
<1>12. CASE DrainEnds \/ Dispatch \/ OtherWake \/ ContinueQueue \/ UNCHANGED vars
  BY <1>4, <1>12 DEF DrainEnds, Dispatch, OtherWake, ContinueQueue, vars
<1>. QED BY <1>5, <1>7, <1>8, <1>9, <1>10, <1>11, <1>12 DEF Next, Requeue

\* The queue has the same messages while it has the same rows.
LEMMA SameQueue ==
  ASSUME IInv, ReadInv, [Next]_vars, UNCHANGED ran, ToSet(rows)' = ToSet(rows)
  PROVE  InQueue' = InQueue
<1>1. \A k \in ToSet(rows) : Queued(k)' = Queued(k)
  BY QueuedStay DEF ReadInv, Passes, Through
<1>. QED BY <1>1 DEF InQueue

\* A message stays where it is if nothing takes it or lets it go.
LEMMA StaysHome ==
  ASSUME HomeInv, HomeInv', NEW m \in Users,
         m \in accepted' <=> m \in accepted, m \in consumed' <=> m \in consumed,
         m \in ToSet(fallen)' <=> m \in ToSet(fallen), m \in ran' <=> m \in ran,
         m \in InQueue' <=> m \in InQueue, InTurn(m)' <=> InTurn(m)
  PROVE  Home'[m] = Home[m]
<1>1. Elsewhere(m)' <=> Elsewhere(m)
  BY DEF Elsewhere
<1>. QED BY <1>1 DEF HomeInv, HomesAre, Elsewhere

\* A step of the homes, or none.
HomeStep == [Homes!Next]_<<Home, TurnIs>>

LEMMA HomeMoves ==
  ASSUME NEW S, NEW to, \A m \in Users : Home'[m] = IF m \in S THEN to ELSE Home[m]
  PROVE  Homes!Move(S, to)
BY DEF Home, Homes!Move

LEMMA StaysPut ==
  ASSUME HomeInv, HomeInv', [Next]_vars, UNCHANGED <<accepted, ran>>, ToSet(rows)' = ToSet(rows),
         \A m \in Users : m \in consumed' <=> m \in consumed,
         ToSet(fallen)' = ToSet(fallen), \A m \in Users : InTurn(m)' <=> InTurn(m), TurnIs' = TurnIs
  PROVE  HomeStep
<1>1. InQueue' = InQueue
  BY SameQueue DEF HomeInv
<1>2. \A m \in Users : Home'[m] = Home[m]
  BY <1>1, StaysHome
<1>3. Home' = Home
  BY <1>2 DEF Home
<1>. QED BY <1>3 DEF HomeStep

\* The turn takes a message.
LEMMA SteerHome ==
  ASSUME HomeInv, HomeInv', NEW n \in Messages, Steer(n)
  PROVE  HomeStep
<1>1. /\ phase = "running" /\ phase' = phase /\ n \notin accepted /\ accepted' = accepted \cup {n}
      /\ waiting' = Append(waiting, n)
      /\ UNCHANGED <<consumed, claimed, fallen, rows, ran>>
  BY DEF Steer, queueV
<1>2. ToSet(waiting)' = ToSet(waiting) \cup {n}
  <2>1. waiting \in Seq(Messages)
    BY DEF HomeInv, IInv, TurnTyped
  <2>2. ToSet(Append(waiting, n)) = ToSet(waiting) \cup {n}
    BY <2>1, AppendMembers
  <2>. QED BY <1>1, <2>2 DEF ToSet
<1>3. InQueue' = InQueue /\ ToSet(fallen)' = ToSet(fallen)
  <2>1. [Next]_vars /\ ToSet(rows)' = ToSet(rows)
    BY <1>1 DEF Next, Turn
  <2>. QED BY <1>1, <2>1, SameQueue DEF HomeInv
<1>4. \A m \in Users : m # n => (InTurn(m)' <=> InTurn(m))
  BY <1>1, <1>2 DEF InTurn
<1>5. \A m \in Users : m # n => Home'[m] = Home[m]
  BY <1>1, <1>3, <1>4, StaysHome
<1>6. TurnIs = "running" /\ TurnIs' = TurnIs
  BY <1>1 DEF TurnIs
<1>7. CASE n \in Users
  <2>1. InTurn(n)'
    BY <1>1, <1>2 DEF InTurn
  <2>2. Home'[n] = "turn" /\ Home[n] = "new"
    BY <1>1, <1>7, <2>1 DEF HomeInv, HomesAre
  <2>3. Homes!Move({n}, "turn")
    BY <1>5, <2>2, HomeMoves
  <2>4. Homes!Take
    BY <1>6, <1>7, <2>2, <2>3 DEF Homes!Take, Homes!In
  <2>. QED BY <2>4 DEF HomeStep, Homes!Next
<1>8. CASE n \notin Users
  BY <1>5, <1>6, <1>8 DEF HomeStep, Home
<1>. QED BY <1>7, <1>8

\* A message falls into the conversation.
LEMMA LandHome ==
  ASSUME HomeInv, HomeInv', NEW i \in Batches, Land(i)
  PROVE  HomeStep
<1>1. /\ jobs[i].kind = "teardown"
      /\ UNCHANGED <<phase, accepted, waiting, claimed, consumed, rows, ran>>
      /\ fallen' = IF jobs[i].todo = <<>> THEN fallen ELSE Append(fallen, Head(jobs[i].todo))
  BY DEF Land, turnV, queueV
<1>2. i \in Jobs /\ jobs[i].todo \in Seq(Users) /\ fallen \in Seq(Users)
  BY <1>1 DEF Jobs, NoJob, HomeInv, IInv, Stored, Books, JobsTyped, Write, QueueTyped
<1>3. TurnIs' = TurnIs /\ \A m \in Users : InTurn(m)' <=> InTurn(m)
  BY <1>1 DEF TurnIs, InTurn
<1>4. InQueue' = InQueue
  <2>1. [Next]_vars /\ ToSet(rows)' = ToSet(rows)
    BY <1>1 DEF Next, Requeue
  <2>. QED BY <1>1, <2>1, SameQueue DEF HomeInv
<1>5. CASE jobs[i].todo = <<>>
  <2>1. \A m \in Users : Home'[m] = Home[m]
    BY <1>1, <1>3, <1>4, <1>5, StaysHome
  <2>. QED BY <1>3, <2>1 DEF HomeStep, Home
<1>6. CASE jobs[i].todo # <<>>
  <2>1. PICK x : x = jobs[i].todo[1]
    OBVIOUS
  <2>2. x \in Users /\ x \in ToSet(jobs[i].todo)
    BY <1>2, <1>6, <2>1, SplitMembers
  <2>3. ToSet(fallen)' = ToSet(fallen) \cup {x}
    <3>1. fallen' = Append(fallen, x)
      BY <1>1, <1>2, <1>6, <2>1, SplitMembers
    <3>2. ToSet(Append(fallen, x)) = ToSet(fallen) \cup {x}
      BY <1>2, <2>2, AppendMembers
    <3>. QED BY <3>1, <3>2 DEF ToSet
  <2>4. \A m \in Users : m # x => Home'[m] = Home[m]
    BY <1>1, <1>3, <1>4, <2>3, StaysHome
  <2>5. Home'[x] = "conversation"
    BY <2>2, <2>3 DEF HomeInv, HomesAre
  <2>6. CASE x \in ToSet(fallen)
    <3>1. \A m \in Users : Home'[m] = Home[m]
      BY <2>2, <2>4, <2>5, <2>6 DEF HomeInv, HomesAre
    <3>. QED BY <1>3, <3>1 DEF HomeStep, Home
  <2>7. CASE x \notin ToSet(fallen)
    <3>1. PICK k \in Lanes : batches[k].job = i /\ x \in Queued(k)
      BY <1>1, <1>2, <2>2 DEF HomeInv, ReadInv, Falls
    <3>2. x \in accepted /\ x \notin TurnHas
      BY <3>1 DEF HomeInv, ReadInv, Apart
    <3>3. ~InTurn(x) /\ x \notin consumed
      BY <3>2 DEF InTurn, TurnHas
    <3>4. x \notin InQueue
      BY <1>4, <2>2, <2>3, <2>5 DEF HomeInv, HomesAre
    <3>5. Home[x] = "held"
      BY <2>2, <2>7, <3>2, <3>3, <3>4 DEF HomeInv, HomesAre, Elsewhere
    <3>6. Homes!Move({x}, "conversation")
      BY <2>4, <2>5, HomeMoves
    <3>7. Homes!Fall
      BY <1>3, <2>2, <3>5, <3>6 DEF Homes!Fall, Homes!In
    <3>. QED BY <3>7 DEF HomeStep, Homes!Next
  <2>. QED BY <2>6, <2>7
<1>. QED BY <1>5, <1>6

\* A batch becomes a row.
LEMMA EnqueueHome ==
  ASSUME HomeInv, HomeInv', NEW i \in Batches, Enqueue(i)
  PROVE  HomeStep
<1>1. /\ jobs[i].kind = "requeue" /\ rows' = <<i>> \o Kept(rows, Lanes \ {i})
      /\ UNCHANGED <<phase, accepted, waiting, claimed, consumed, fallen, ran>>
  BY DEF Enqueue, turnV
<1>2. i \in Jobs /\ i \in Lanes /\ batches[i].job = i
  BY <1>1 DEF Jobs, NoJob, HomeInv, IInv, Stored, Books, Owned
<1>3. i \in Through
  BY <1>1, <1>2 DEF HomeInv, ReadInv, Falls, Through, Writing
<1>4. ToSet(rows)' = ToSet(rows) \cup {i}
  <2>1. rows \in Seq(Lanes) /\ IsInjective(rows)
    BY DEF HomeInv, IInv, ReadInv, Passes, Stored, QueueTyped
  <2>2. /\ ToSet(rows)' \subseteq ToSet(rows) \cup {i}
        /\ i \in ToSet(rows)' /\ ToSet(rows) \subseteq ToSet(rows)'
    BY <1>1, <1>2, <2>1, RowInFront
  <2>. QED BY <2>2
<1>5. InQueue' = InQueue \cup Queued(i)
  <2>1. [Next]_vars
    BY DEF Next, Requeue
  <2>2. \A k \in ToSet(rows) \cup {i} : Queued(k)' = Queued(k)
    BY <1>3, <2>1, QueuedStay DEF HomeInv, ReadInv, Passes, Through
  <2>. QED BY <1>1, <1>4, <2>2 DEF InQueue
<1>6. TurnIs' = TurnIs /\ ToSet(fallen)' = ToSet(fallen) /\ \A m \in Users : InTurn(m)' <=> InTurn(m)
  BY <1>1 DEF TurnIs, InTurn
<1>. DEFINE S == {m \in Users : m \in Queued(i) /\ m \notin InQueue}
<1>7. \A m \in Users : m \notin S => Home'[m] = Home[m]
  BY <1>1, <1>5, <1>6, StaysHome
<1>8. ASSUME NEW m \in S PROVE Home'[m] = "queue" /\ Home[m] = "held"
  <2>1. m \in Users /\ m \in InQueue' /\ m \notin ran'
    BY <1>1, <1>5, <1>8 DEF InQueue
  <2>2. Home'[m] = "queue"
    BY <2>1 DEF HomeInv, HomesAre
  <2>3. m \in accepted /\ m \notin TurnHas
    BY <1>2, <1>8 DEF HomeInv, ReadInv, Apart
  <2>4. m \notin ToSet(fallen)
    BY <1>6, <2>1, <2>2 DEF HomeInv, HomesAre
  <2>5. ~InTurn(m) /\ m \notin consumed
    BY <2>3 DEF InTurn, TurnHas
  <2>6. Home[m] = "held"
    BY <1>8, <2>1, <2>3, <2>4, <2>5 DEF HomeInv, HomesAre, Elsewhere
  <2>. QED BY <2>2, <2>6
<1>9. Homes!Move(S, "queue")
  BY <1>7, <1>8, HomeMoves
<1>10. S \in SUBSET Homes!In("held")
  BY <1>8 DEF Homes!In
<1>. HIDE DEF S
<1>11. Homes!Park
  BY <1>6, <1>9, <1>10 DEF Homes!Park
<1>. QED BY <1>11 DEF HomeStep, Homes!Next

\* A wake runs the first row.
LEMMA DispatchHome ==
  ASSUME HomeInv, HomeInv', Dispatch
  PROVE  HomeStep
<1>1. /\ phase = "gone" /\ UNCHANGED <<phase, accepted, waiting, claimed, consumed, batches, fallen>>
      /\ \/ UNCHANGED <<rows, ran>>
         \/ rows # <<>> /\ rows' = Tail(rows) /\ ran' = ran \cup ToSet(batches[rows[1]].todo)
  BY DEF Dispatch, turnV
<1>2. TurnIs = "gone" /\ TurnIs' = TurnIs /\ ToSet(fallen)' = ToSet(fallen) /\ \A m \in Users : InTurn(m)' <=> InTurn(m)
  BY <1>1 DEF TurnIs, InTurn
<1>3. CASE UNCHANGED <<rows, ran>>
  <2>1. [Next]_vars
    BY DEF Next
  <2>. QED BY <1>1, <1>2, <1>3, <2>1, StaysPut
<1>4. CASE rows # <<>> /\ rows' = Tail(rows) /\ ran' = ran \cup ToSet(batches[rows[1]].todo)
  <2>1. PICK r : r = rows[1]
    OBVIOUS
  <2>2. ToSet(rows) = {r} \cup ToSet(Tail(rows))
    BY <1>4, <2>1, SplitMembers DEF HomeInv, IInv, Stored, QueueTyped
  <2>3. ToSet(rows)' = ToSet(Tail(rows))
    BY <1>4 DEF ToSet
  <2>4. ran' = ran \cup Queued(r) /\ \A k : Queued(k)' = Queued(k)
    BY <1>1, <1>4, <2>1 DEF Queued
  <2>5. InQueue' = InQueue
    BY <2>2, <2>3, <2>4 DEF InQueue
  <2>. DEFINE S == {m \in Users : m \in Queued(r) /\ m \notin ran}
  <2>6. \A m \in Users : m \notin S => Home'[m] = Home[m]
    BY <1>1, <1>2, <2>4, <2>5, StaysHome
  <2>7. \A m \in S : m \in InQueue /\ m \notin ran /\ m \in ran'
    BY <2>2, <2>4 DEF InQueue
  <2>8. \A m \in S : Home'[m] = "ran" /\ Home[m] = "queue"
    BY <2>7 DEF HomeInv, HomesAre
  <2>9. Homes!Move(S, "ran")
    BY <2>6, <2>8, HomeMoves
  <2>10. S \in SUBSET Homes!In("queue")
    BY <2>8 DEF Homes!In
  <2>. HIDE DEF S
  <2>11. Homes!Run
    BY <1>2, <2>9, <2>10 DEF Homes!Run
  <2>. QED BY <2>11 DEF HomeStep, Homes!Next
<1>. QED BY <1>1, <1>3, <1>4

\* What the turn lets go of is held.
LEMMA LetsGo ==
  ASSUME HomeInv, HomeInv', [Next]_vars, UNCHANGED <<accepted, fallen, rows, ran>>,
         \A m \in Users : m \in consumed' <=> m \in consumed,
         TurnIs # "gone", TurnIs' = "stopped", \A m \in Users : InTurn(m)' => InTurn(m)
  PROVE  HomeStep
<1>1. ToSet(rows)' = ToSet(rows) /\ ToSet(fallen)' = ToSet(fallen)
  OBVIOUS
<1>2. InQueue' = InQueue
  BY <1>1, SameQueue DEF HomeInv
<1>3. \A m \in Users : Elsewhere(m)' <=> Elsewhere(m)
  BY <1>1, <1>2 DEF Elsewhere
<1>. DEFINE S == {m \in Users : InTurn(m) /\ ~InTurn(m)'}
<1>4. \A m \in Users : m \notin S => Home'[m] = Home[m]
  BY <1>1, <1>2, StaysHome
<1>5. \A m \in S : Home'[m] = "held" /\ Home[m] = "turn"
  BY <1>3 DEF HomeInv, HomesAre
<1>6. Homes!Move(S, "held")
  BY <1>4, <1>5, HomeMoves
<1>7. S \in SUBSET Homes!In("turn")
  BY <1>5 DEF Homes!In
<1>. HIDE DEF S
<1>8. Homes!LetGo
  BY <1>6, <1>7 DEF Homes!LetGo
<1>. QED BY <1>8 DEF HomeStep, Homes!Next

\* A poll reads what it has claimed, or gives it back.
LEMMA RestoreHome ==
  ASSUME HomeInv, HomeInv', PollConsumes \/ PollGivesUp, NEW msgs \in Seq(Messages), Restore(msgs),
         \/ ToSet(msgs) = {} /\ consumed' = consumed \cup ToSet(claimed)
         \/ \A m \in Users : /\ m \in ToSet(msgs) <=> m \in ToSet(claimed)
                             /\ m \in consumed' <=> m \in consumed
  PROVE  HomeStep
<1>1. /\ claimed' = <<>> /\ UNCHANGED <<phase, accepted, fallen, rows, ran>>
      /\ phase # "aborted" => waiting' = msgs \o waiting
  BY DEF Restore, queueV
<1>2. phase \in {"running", "aborted"}
  <2>1. host = "poll"
    BY DEF PollConsumes, PollGivesUp
  <2>. QED BY <2>1 DEF HomeInv, IInv, Stages
<1>3. ToSet(claimed)' = {}
  BY <1>1, EmptyMembers DEF ToSet
<1>4. phase = "running" => ToSet(waiting)' = ToSet(msgs) \cup ToSet(waiting)
  <2>1. waiting \in Seq(Messages)
    BY DEF HomeInv, IInv, TurnTyped
  <2>2. ToSet(msgs \o waiting) = ToSet(msgs) \cup ToSet(waiting)
    BY <2>1, ConcatMembers
  <2>. QED BY <1>1, <2>2 DEF ToSet
<1>5. \A m : InTurn(m)' <=> phase = "running" /\ (m \in ToSet(msgs) \/ m \in ToSet(waiting))
  BY <1>1, <1>3, <1>4 DEF InTurn
<1>6. [Next]_vars /\ ToSet(rows)' = ToSet(rows) /\ ToSet(fallen)' = ToSet(fallen) /\ TurnIs' = TurnIs
  BY <1>1 DEF Next, Turn, TurnIs
<1>7. CASE ToSet(msgs) = {} /\ consumed' = consumed \cup ToSet(claimed)
  <2>. DEFINE S == {m \in Users : m \in ToSet(claimed)}
  <2>1. InQueue' = InQueue
    BY <1>1, <1>6, SameQueue DEF HomeInv
  <2>2. \A m \in Users : m \notin S => (InTurn(m)' <=> InTurn(m))
    BY <1>2, <1>5, <1>7 DEF InTurn
  <2>3. \A m \in Users : m \notin S => Home'[m] = Home[m]
    BY <1>1, <1>6, <1>7, <2>1, <2>2, StaysHome
  <2>4. \A m \in S : Home'[m] = "read" /\ Home[m] = "turn"
    BY <1>7 DEF HomeInv, HomesAre, InTurn
  <2>5. Homes!Move(S, "read")
    BY <2>3, <2>4, HomeMoves
  <2>6. S \in SUBSET Homes!In("turn")
    BY <2>4 DEF Homes!In
  <2>7. TurnIs # "gone"
    BY <1>2 DEF TurnIs
  <2>. HIDE DEF S
  <2>8. Homes!Read
    BY <1>6, <2>5, <2>6, <2>7 DEF Homes!Read
  <2>. QED BY <2>8 DEF HomeStep, Homes!Next
<1>8. CASE \A m \in Users : /\ m \in ToSet(msgs) <=> m \in ToSet(claimed)
                            /\ m \in consumed' <=> m \in consumed
  <2>1. CASE phase = "running"
    <3>1. \A m \in Users : InTurn(m)' <=> InTurn(m)
      BY <1>5, <1>8, <2>1 DEF InTurn
    <3>. QED BY <1>1, <1>6, <1>8, <3>1, StaysPut
  <2>2. CASE phase = "aborted"
    <3>1. \A m \in Users : ~InTurn(m)'
      BY <1>5, <2>2
    <3>2. TurnIs # "gone" /\ TurnIs' = "stopped"
      BY <1>1, <2>2 DEF TurnIs
    <3>. QED BY <1>1, <1>6, <1>8, <3>1, <3>2, LetsGo
  <2>. QED BY <1>2, <2>1, <2>2
<1>. QED BY <1>7, <1>8

LEMMA PollEndsHome ==
  ASSUME HomeInv, HomeInv', PollConsumes \/ PollGivesUp
  PROVE  HomeStep
<1>1. claimed \in Seq(Messages)
  BY DEF HomeInv, IInv, TurnTyped
<1>2. CASE PollConsumes
  <2>. DEFINE S == {m \in Messages : ~Takes(m)}
              msgs == Kept(claimed, S)
  <2>1. Restore(msgs) /\ consumed' = consumed \cup {m \in ToSet(claimed) : Takes(m)}
    BY <1>2 DEF PollConsumes
  <2>2. msgs \in Seq(Messages) /\ ToSet(msgs) = ToSet(claimed) \cap S
    <3>1. msgs \in Seq(Messages \cap S) /\ ToSet(msgs) = ToSet(claimed) \cap S
      BY <1>1, KeptMembers
    <3>. HIDE DEF msgs, S
    <3>. QED BY <3>1
  <2>3. CASE ~exit
    <3>1. ToSet(msgs) = {} /\ consumed' = consumed \cup ToSet(claimed)
      BY <2>1, <2>2, <2>3 DEF Takes
    <3>. HIDE DEF msgs
    <3>. QED BY <1>2, <2>1, <2>2, <3>1, RestoreHome
  <2>4. CASE exit
    <3>1. \A m \in Users : m \in Messages /\ ~Takes(m)
      BY <2>4 DEF Takes, Users
    <3>2. \A m \in Users : /\ m \in ToSet(msgs) <=> m \in ToSet(claimed)
                           /\ m \in consumed' <=> m \in consumed
      BY <2>1, <2>2, <3>1
    <3>. HIDE DEF msgs
    <3>. QED BY <1>2, <2>1, <2>2, <3>2, RestoreHome
  <2>. QED BY <2>3, <2>4
<1>3. CASE PollGivesUp
  BY <1>1, <1>3, RestoreHome DEF PollGivesUp
<1>. QED BY <1>2, <1>3

\* The controls close: all that waits is let go of, what a poll holds is not.
LEMMA CloseHome ==
  ASSUME HomeInv, HomeInv', [Next]_vars, phase = "running", phase' \in {"closing", "aborted"},
         UNCHANGED <<accepted, claimed, consumed, fallen, rows, ran>>
  PROVE  HomeStep
<1>1. TurnIs # "gone" /\ TurnIs' = "stopped"
  BY DEF TurnIs
<1>2. \A m \in Users : InTurn(m)' => InTurn(m)
  BY DEF InTurn
<1>. QED BY <1>1, <1>2, LetsGo

\* The turn goes when it has nothing left.
LEMMA ReleaseHome ==
  ASSUME HomeInv, HomeInv', Release
  PROVE  HomeStep
<1>1. /\ host = "settling" /\ phase' = "gone"
      /\ UNCHANGED <<accepted, waiting, claimed, consumed, fallen, rows, ran>>
  BY DEF Release
<1>2. phase # "running" /\ claimed = <<>>
  BY <1>1 DEF HomeInv, IInv, Stages
<1>3. \A m \in Users : ~InTurn(m) /\ ~InTurn(m)'
  BY <1>1, <1>2, EmptyMembers DEF InTurn
<1>4. InQueue' = InQueue /\ ToSet(fallen)' = ToSet(fallen)
  <2>1. [Next]_vars /\ ToSet(rows)' = ToSet(rows)
    BY <1>1 DEF Next, Turn
  <2>. QED BY <1>1, <2>1, SameQueue DEF HomeInv
<1>5. \A m \in Users : Home'[m] = Home[m]
  BY <1>1, <1>3, <1>4, StaysHome
<1>6. Home' = Home
  BY <1>5 DEF Home
<1>7. TurnIs' = "gone" /\ TurnIs \in {"stopped", "gone"}
  BY <1>1, <1>2 DEF TurnIs
<1>8. Homes!In("turn") = {}
  BY <1>3 DEF HomeInv, HomesAre, Homes!In
<1>9. CASE TurnIs = "stopped"
  <2>1. Homes!Leave
    BY <1>6, <1>7, <1>8, <1>9 DEF Homes!Leave
  <2>. QED BY <2>1 DEF HomeStep, Homes!Next
<1>10. CASE TurnIs = "gone"
  BY <1>6, <1>7, <1>10 DEF HomeStep
<1>. QED BY <1>7, <1>9, <1>10

LEMMA HomeStepMaps == HomeInv /\ HomeInv' /\ [Next]_vars => HomeStep
<1>. SUFFICES ASSUME HomeInv, HomeInv', [Next]_vars PROVE HomeStep
  OBVIOUS
<1>1. ASSUME UNCHANGED <<phase, accepted, waiting, claimed, consumed, fallen, rows, ran>>
      PROVE  HomeStep
  <2>1. /\ ToSet(rows)' = ToSet(rows) /\ ToSet(fallen)' = ToSet(fallen) /\ TurnIs' = TurnIs
        /\ \A m \in Users : InTurn(m)' <=> InTurn(m)
    BY <1>1 DEF TurnIs, InTurn
  <2>. QED BY <1>1, <2>1, StaysPut
<1>2. CASE Turn
  <2>1. CASE Poll
    <3>1. /\ host = "idle" /\ phase = "running" /\ claimed' = waiting /\ waiting' = <<>>
          /\ UNCHANGED <<phase, accepted, consumed, fallen, rows, ran>>
      BY <2>1 DEF Poll, queueV
    <3>2. claimed = <<>>
      BY <3>1 DEF HomeInv, IInv, Stages
    <3>3. ToSet(claimed)' = ToSet(waiting) /\ ToSet(waiting)' = {} /\ ToSet(claimed) = {}
      BY <3>1, <3>2, EmptyMembers DEF ToSet
    <3>4. /\ ToSet(rows)' = ToSet(rows) /\ ToSet(fallen)' = ToSet(fallen) /\ TurnIs' = TurnIs
          /\ \A m \in Users : InTurn(m)' <=> InTurn(m)
      BY <3>1, <3>3 DEF TurnIs, InTurn
    <3>. QED BY <3>1, <3>4, StaysPut
  <2>2. CASE TryBeginClose
    BY <2>2, CloseHome DEF TryBeginClose, queueV
  <2>3. CASE \E r \in {"user", "other"} : Abort(r)
    BY <2>3, CloseHome DEF Abort, AbortEntry, queueV
  <2>4. CASE HostEnds
    <3>1. CASE phase = "running"
      BY <2>4, <3>1, CloseHome DEF HostEnds, queueV
    <3>2. CASE phase # "running"
      BY <1>1, <2>4, <3>2 DEF HostEnds, queueV
    <3>. QED BY <3>1, <3>2
  <2>5. CASE CommitBeforeRelease
    BY <1>1, <2>5 DEF CommitBeforeRelease, queueV
  <2>. QED BY <1>2, <2>1, <2>2, <2>3, <2>4, <2>5, SteerHome, PollEndsHome, ReleaseHome DEF Turn
<1>3. CASE Requeue
  <2>1. ASSUME NEW i \in Batches, WriteFails(i) \/ Pause(i) \/ Lane(i) PROVE HomeStep
    BY <1>1, <2>1 DEF WriteFails, Pause, Lane, turnV, queueV
  <2>2. CASE DrainStarts \/ DrainContinues \/ DrainEnds
    BY <1>1, <2>2 DEF DrainStarts, DrainContinues, DrainEnds, turnV, queueV
  <2>3. CASE Shutdown
    <3>1. CASE phase = "running"
      BY <2>3, <3>1, CloseHome DEF Shutdown, AbortEntry, queueV
    <3>2. CASE phase # "running"
      BY <1>1, <2>3, <3>2 DEF Shutdown, turnV, queueV
    <3>. QED BY <3>1, <3>2
  <2>. QED BY <1>3, <2>1, <2>2, <2>3, LandHome, EnqueueHome DEF Requeue
<1>4. CASE OtherWake \/ ContinueQueue \/ UNCHANGED vars
  BY <1>1, <1>4 DEF OtherWake, ContinueQueue, vars, turnV, queueV
<1>. QED BY <1>2, <1>3, <1>4, DispatchHome DEF Next

\* Steering implements MessageHomes: whatever is polled, restored, merged, retried or
\* drained, each message of the user has one home and moves on only.
THEOREM SteeringImplementsHomes == Spec => ImplementsHomes
<1>1. Init => Homes!Init
  <2>. SUFFICES ASSUME Init PROVE Homes!Init
    OBVIOUS
  <2>. QED BY DEF Init, Home, TurnIs, Homes!Init
<1>2. HomeInv /\ HomeInv' /\ [Next]_vars => [Homes!Next]_<<Home, TurnIs>>
  BY HomeStepMaps DEF HomeStep
<1>. QED BY <1>1, <1>2, HomeInvKept, PTL DEF Spec, ImplementsHomes, Homes!Spec
=============================================================================
