------------------------ MODULE SessionStreamProofs ------------------------
(***************************************************************************)
(* Proofs about SessionStream, for any messages, readers and bounds: the   *)
(* ring and the queues keep their limits, what a reader has not seen is    *)
(* exactly what waits for it, and what a reader shows that has seen all is *)
(* what the table has.                                                     *)
(***************************************************************************)
EXTENDS SessionStream, FiniteSetTheorems, WellFoundedInduction, TLAPS

\* What a reader holds are frames of the state it subscribed to.
Ledger(r) ==
  /\ r.ep <= epoch /\ r.lo <= r.mark
  /\ r.frames \cup r.queue \subseteq 1..Len(Ring(r))
  /\ r.mark <= Len(Ring(r)) /\ r.last <= Len(Ring(r))

\* While it reads the table, its subscription collects all that is written.
Reading(r) ==
  r.at = "read" =>
    /\ ~r.submits /\ ~r.parked /\ r.turn = Any /\ r.batch # Unread
    /\ r.live = "on" => r.queue = r.mark+1..Len(Ring(r))

\* So does a reservation whose turn has no name yet.
Reserving(r) ==
  r.at = "reserved" =>
    /\ r.submits /\ ~r.parked /\ r.turn = Any /\ r.mark = 0
    /\ r.live = "on" => r.queue = r.last+1..Len(Ring(r))

\* What NothingMissed says of one reader.
Hears(r) ==
  Served(r) =>
    /\ \A n \in 1..Horizon(r) : n \in r.frames \cup r.queue <=> r.last < n /\ Due(r, n)
    /\ \A n \in r.frames, k \in r.queue : n < k
    /\ r.parked => r.queue = {} /\ ~Replaying(r)

Good(r) ==
  /\ r \in Reader /\ Cardinality(r.queue) <= MaxQueue
  /\ Ledger(r) /\ Reading(r) /\ Reserving(r) /\ Hears(r)
  /\ r.submits => r.frames = {}

\* The table, the ring and the groups.
Typed ==
  /\ store \in [Msgs -> 0..Quiet] /\ gone \subseteq Msgs /\ owed \subseteq Frame
  /\ log \in Seq(Entry) /\ Len(log) <= MaxFrames /\ dropped \in 0..Len(log)
  /\ Len(log) - dropped <= MaxItems
  /\ done \subseteq Msgs /\ epoch \in 0..MaxEpochs
  /\ active \in [group : Msgs \cup {None}, turn : Turns \cup {Any}]

StreamInv ==
  /\ Typed
  /\ readers \in [Readers -> Reader] /\ \A s \in Readers : Good(readers[s])

\* The bounds are numbers.
LEMMA Bounds ==
  /\ MaxMsgs \in Nat /\ MaxFrames \in Nat /\ MaxItems \in Nat /\ MaxComplete \in Nat
  /\ MaxQueue \in Nat /\ MaxVersion \in Nat /\ MaxEpochs \in Nat
  /\ MaxQueue > 0 /\ MaxMsgs > 0 /\ MaxItems > 0
  /\ Msgs \subseteq Nat /\ None \notin Msgs
  /\ Quiet \in Nat /\ MaxVersion < Quiet /\ 0..MaxVersion \subseteq 0..Quiet
BY BoundsAssumption DEF Msgs, None, Quiet

-----------------------------------------------------------------------------
(* Sets of numbers.                                                          *)

\* A set of natural numbers that is not empty has a least element.
LEMMA LeastIn ==
  ASSUME NEW S \in SUBSET Nat, S # {}
  PROVE  Least(S) \in S /\ \A k \in S : Least(S) <= k
<1>. DEFINE R == OpToRel(<, Nat)
<1>1. PICK x \in S : \A y \in S : ~(<<y, x>> \in R)
  <2>1. IsWellFoundedOn(R, Nat)
    BY NatLessThanWellFounded
  <2>. HIDE DEF R
  <2>. QED BY <2>1, WFMin
<1>2. \A y \in S : x <= y
  <2>. TAKE y \in S
  <2>1. <<y, x>> \in Nat \X Nat /\ <<y, x>>[1] = y /\ <<y, x>>[2] = x
    OBVIOUS
  <2>2. ~(y < x)
    BY <1>1, <2>1 DEF OpToRel
  <2>. QED BY <2>2
<1>. QED BY <1>2 DEF Least

\* A set with an upper bound has a last one.
LEMMA LastIn ==
  ASSUME NEW b \in Nat, NEW S \in SUBSET (0..b), S # {}
  PROVE  Last(S) \in S /\ \A k \in S : k <= Last(S)
<1>. DEFINE T == {n \in 0..b : b - n \in S}
<1>1. T \in SUBSET Nat /\ T # {}
  <2>1. PICK n \in S : TRUE
    OBVIOUS
  <2>2. b - n \in 0..b /\ b - (b - n) = n
    OBVIOUS
  <2>. QED BY <2>1, <2>2
<1>2. PICK x \in T : \A y \in T : x <= y
  <2>. HIDE DEF T
  <2>. QED BY <1>1, LeastIn
<1>3. b - x \in S /\ \A k \in S : k <= b - x
  <2>1. ASSUME NEW k \in S PROVE k <= b - x
    <3>1. b - k \in T
      <4>1. b - k \in 0..b /\ b - (b - k) = k
        OBVIOUS
      <4>. QED BY <4>1
    <3>. QED BY <1>2, <3>1
  <2>. QED BY <2>1
<1>. QED BY <1>3 DEF Last

\* Queues are finite; one more frame counts one more, fewer frames count no more.
LEMMA Counting ==
  ASSUME NEW b \in Nat, NEW Q \in SUBSET (1..b)
  PROVE  /\ IsFiniteSet(Q) /\ Cardinality(Q) \in Nat
         /\ \A n : Cardinality(Q \cup {n}) <= Cardinality(Q) + 1
         /\ \A P \in SUBSET Q : Cardinality(P) <= Cardinality(Q)
<1>1. IsFiniteSet(Q)
  <2>1. IsFiniteSet(1..b)
    BY FS_Interval
  <2>. QED BY <2>1, FS_Subset
<1>2. Cardinality(Q) \in Nat
  BY <1>1, FS_CardinalityType
<1>3. ASSUME NEW n PROVE Cardinality(Q \cup {n}) <= Cardinality(Q) + 1
  BY <1>1, <1>2, FS_AddElement
<1>. QED BY <1>1, <1>2, <1>3, FS_Subset

\* An interval and the number after it.
LEMMA OneMore ==
  ASSUME NEW a \in Nat, NEW b \in Nat, a <= b
  PROVE  (a+1..b) \cup {b+1} = a+1..(b+1)
OBVIOUS

LEMMA NoFrames == Cardinality({}) = 0
BY FS_EmptySet

-----------------------------------------------------------------------------
(* Frames and readers.                                                       *)

LEMMA Constants ==
  /\ Answers \subseteq Msgs /\ Any \notin Turns /\ Unread \notin [Msgs -> 0..Quiet]
  /\ \A m \in Msgs : TurnOf[m] \in Turns /\ Versions[m] \in 1..MaxVersion
BY MessagesAssumption, NoValueAssumption

\* The versions of the frames of a message.
LEMMA Versioned ==
  ASSUME store \in [Msgs -> 0..Quiet], NEW m \in Msgs
  PROVE  /\ Latest(m) \in Nat /\ store[m] \in 0..Quiet
         /\ Latest(m) < Versions[m] => Latest(m) + 1 \in 1..MaxVersion
         /\ Latest(m) # store[m] => store[m] = Quiet
<1>1. store[m] \in 0..Quiet /\ Versions[m] \in 1..MaxVersion
  BY Constants
<1>. QED BY <1>1, Bounds DEF Latest

\* What the fields of a reader are.
LEMMA Fields ==
  ASSUME NEW r \in Reader
  PROVE  /\ r.at \in Places /\ r.submits \in BOOLEAN /\ r.ep \in 0..MaxEpochs
         /\ r.turn \in Turns \cup {Any} /\ r.live \in {"on", "shut", "done", "lost"}
         /\ r.queue \in SUBSET (1..MaxFrames) /\ r.parked \in BOOLEAN /\ r.closing \in BOOLEAN
         /\ r.frames \in SUBSET (1..MaxFrames)
         /\ r.batch \in [Msgs -> 0..Quiet] \cup {Unread} /\ r.anchor \in Msgs \cup {None}
         /\ r.lo \in 0..MaxFrames /\ r.mark \in 0..MaxFrames /\ r.last \in 0..MaxFrames
         /\ r.view \in [Msgs -> 0..Quiet] /\ r.sound \in BOOLEAN
BY DEF Reader, Cursors

\* What the frames of the log are.
LEMMA Entries ==
  ASSUME log \in Seq(Entry)
  PROVE  /\ Len(log) \in Nat
         /\ \A n \in 1..Len(log) :
              /\ log[n].kind \in Kinds /\ log[n].msgs \in SUBSET Msgs
              /\ log[n].ver \in 0..MaxVersion /\ log[n].turn \in Turns
              /\ log[n].group \in Msgs \cup {None} /\ FrameIn(log[n]) \in Frame
<1>1. Len(log) \in Nat /\ \A n \in 1..Len(log) : log[n] \in Entry
  OBVIOUS
<1>. QED BY <1>1 DEF Entry, FrameIn, FrameOf, Frame

LEMMA FreshTyped == Fresh \in Reader
<1>1. Nothing \in [Msgs -> 0..Quiet]
  BY Bounds DEF Nothing
<1>. QED BY <1>1, Bounds DEF Fresh, Reader, Places, Cursors

\* A reader at rest.
LEMMA FreshGood ==
  ASSUME Typed
  PROVE  Good(Fresh)
<1>1. Fresh.ep <= epoch /\ Fresh.lo <= Fresh.mark /\ Fresh.mark <= Len(Ring(Fresh))
      /\ Fresh.last <= Len(Ring(Fresh)) /\ Fresh.queue = {} /\ Fresh.frames = {}
  BY Entries DEF Typed, Fresh, Ring
<1>2. ~Served(Fresh) /\ Fresh.at = "idle" /\ ~Fresh.submits
  BY DEF Served, Fresh
<1>3. Cardinality(Fresh.queue) <= MaxQueue
  BY <1>1, NoFrames, Bounds
<1>. QED BY <1>1, <1>2, <1>3, FreshTyped DEF Good, Ledger, Reading, Reserving, Hears

\* Nothing is written.
LEMMA StreamKept ==
  ASSUME NEW r, Good(r), UNCHANGED <<log, epoch>>
  PROVE  Good(r)'
BY DEF Good, Ledger, Reading, Reserving, Hears, Served, Here, Ring, Horizon, Due, Terminal

\* The state is dropped: it had no frames, or nobody is left who reads it.
LEMMA StateDropped ==
  ASSUME NEW r, Typed, Good(r), log = <<>>, log' = log, epoch' = epoch + 1
  PROVE  Good(r)'
<1>1. r.ep \in Nat /\ epoch \in Nat /\ r.ep <= epoch /\ r.ep # epoch'
  BY Fields DEF Good, Ledger, Typed
<1>2. Ring(r) = <<>> /\ Ring(r)' = <<>>
  BY <1>1 DEF Ring, Here
<1>3. Ledger(r)'
  BY <1>1, <1>2 DEF Good, Ledger
<1>4. Reading(r)' /\ Reserving(r)'
  BY <1>2 DEF Good, Reading, Reserving
<1>5. ~Served(r)'
  BY <1>1 DEF Served, Here
<1>. QED BY <1>3, <1>4, <1>5 DEF Good, Hears

\* A frame that reaches a reader changes what it saw last and what it shows; a
\* terminal ends what a resumed reader waits for.
Follows(d, r, n, f) ==
  /\ d \in Reader /\ d.last = n
  /\ d.at = r.at /\ d.submits = r.submits /\ d.ep = r.ep /\ d.turn = r.turn
  /\ d.parked = r.parked /\ d.batch = r.batch /\ d.lo = r.lo /\ d.mark = r.mark
  /\ ~r.submits /\ Terminal(f) =>
       d.closing /\ d.live = "shut" /\ d.queue = {} /\ d.frames = {}
  /\ r.submits \/ ~Terminal(f) =>
       /\ d.closing = r.closing /\ d.live = r.live /\ d.queue = r.queue
       /\ d.frames = r.frames

LEMMA DeliveredRow ==
  ASSUME NEW r \in Reader, NEW n \in 0..MaxFrames, NEW f \in Frame \cup Entry
  PROVE  Follows(Delivered(r, n, f), r, n, f)
<1>. DEFINE v == [m \in Msgs |-> IF r.sound /\ m \in f.msgs /\ Tells(f) THEN f.ver ELSE r.view[m]]
            k == [r EXCEPT !.last = n, !.view = v]
<1>1. v \in [Msgs -> 0..Quiet]
  <2>1. f.ver \in 0..Quiet /\ r.view \in [Msgs -> 0..Quiet]
    BY Fields, Bounds DEF Frame, Entry
  <2>. QED BY <2>1
<1>2. Seen(r, n, f) = k
  BY DEF Seen, Reader
<1>. HIDE DEF v
<1>3. /\ k \in Reader /\ k.last = n
      /\ k.at = r.at /\ k.submits = r.submits /\ k.ep = r.ep /\ k.turn = r.turn
      /\ k.parked = r.parked /\ k.batch = r.batch /\ k.lo = r.lo /\ k.mark = r.mark
      /\ k.closing = r.closing /\ k.live = r.live /\ k.queue = r.queue /\ k.frames = r.frames
  BY <1>1 DEF Reader, Cursors
<1>. HIDE DEF k
<1>4. CASE ~r.submits /\ Terminal(f)
  BY <1>2, <1>3, <1>4 DEF Delivered, Ends, Reader, Follows
<1>5. CASE r.submits \/ ~Terminal(f)
  BY <1>2, <1>3, <1>5 DEF Delivered, Follows
<1>. QED BY <1>4, <1>5

\* What a write does to the log.
Appended(f) ==
  /\ Len(log) < MaxFrames /\ epoch' = epoch
  /\ \E e \in Entry : log' = Append(log, e) /\ FrameIn(e) = f

LEMMA AppendedLog ==
  ASSUME Typed, NEW f \in Frame, Appended(f)
  PROVE  /\ log' \in Seq(Entry) /\ Len(log') = Len(log) + 1 /\ Len(log') \in 1..MaxFrames
         /\ \A n \in 1..Len(log) : log'[n] = log[n]
         /\ log'[Len(log')].turn = f.turn /\ log'[Len(log')].kind = f.kind
<1>1. PICK e \in Entry : log' = Append(log, e) /\ FrameIn(e) = f
  BY DEF Appended
<1>2. e.kind = f.kind /\ e.turn = f.turn
  BY <1>1 DEF FrameIn, FrameOf, Frame
<1>. QED BY <1>1, <1>2, Bounds DEF Typed, Appended

\* A reader looks no further than before, except at the frame that was written.
LEMMA HorizonGrows ==
  ASSUME Typed, NEW f \in Frame, Appended(f),
         NEW r, r.frames \in SUBSET (1..Len(log)), NEW q, q.frames = r.frames
  PROVE  \A n \in 1..Horizon(q)' : n # Len(log)' => n \in 1..Horizon(r) /\ n \in 1..Len(log)
<1>. DEFINE ends == {n \in r.frames : Terminal(log[n])}
<1>1. ends' = ends
  <2>1. \A n \in r.frames : Terminal(log'[n]) <=> Terminal(log[n])
    BY AppendedLog
  <2>. QED BY <2>1
<1>2. /\ Horizon(r) = IF ends = {} THEN Len(log) ELSE Least(ends)
      /\ Horizon(q)' = IF ends' = {} THEN Len(log') ELSE Least(ends')
  BY DEF Horizon
<1>3. ends \in SUBSET Nat /\ ends \subseteq 1..Len(log)
  OBVIOUS
<1>. HIDE DEF ends
<1>4. ends # {} => Least(ends) \in 1..Len(log)
  BY <1>3, LeastIn
<1>5. Len(log) \in Nat /\ Len(log') = Len(log) + 1
  BY AppendedLog, Entries DEF Typed
<1>. QED BY <1>1, <1>2, <1>4, <1>5

\* A reader of another state, or one whose subscription does not take the frame.
LEMMA UnheardGood ==
  ASSUME Typed, NEW r, Good(r), NEW f \in Frame, Appended(f),
         r.ep # epoch \/ r.live # "on" \/ r.turn \notin {Any, f.turn}
  PROVE  Good(r)'
<1>1. r \in Reader /\ epoch' = epoch
  BY DEF Good, Appended
<1>. PICK N \in Nat : N = Len(log')
  BY AppendedLog
<1>2. Len(log) \in Nat /\ N = Len(log) + 1
  BY AppendedLog, Entries DEF Typed
<1>3. CASE ~Here(r)
  BY <1>1, <1>3 DEF Good, Ledger, Reading, Reserving, Hears, Served, Here, Ring
<1>4. CASE Here(r)
  <2>1. Ring(r) = log /\ Ring(r)' = log' /\ Here(r)'
    BY <1>1, <1>4 DEF Ring, Here
  <2>2. Ledger(r)'
    <3>1. r.mark \in Nat /\ r.last \in Nat /\ Len(log') = Len(log) + 1
      BY <1>1, <1>2, Fields
    <3>. QED BY <1>1, <1>2, <2>1, <3>1 DEF Good, Ledger
  <2>3. r.at \in {"read", "reserved"} => r.live # "on"
    BY <1>4 DEF Good, Reading, Reserving, Here
  <2>4. Reading(r)' /\ Reserving(r)'
    BY <2>3 DEF Good, Reading, Reserving
  <2>5. Hears(r)'
    <3>. SUFFICES ASSUME Served(r)' PROVE Hears(r)!2'
      BY DEF Hears
    <3>1. Served(r) /\ r.turn \notin {Any, f.turn}
      BY <1>4 DEF Served, Here
    <3>2. r.frames \in SUBSET (1..Len(log)) /\ r.queue \in SUBSET (1..Len(log))
      BY <2>1 DEF Good, Ledger
    <3>4. \A n \in 1..Len(log) : Due(r, n)' <=> Due(r, n)
      BY AppendedLog DEF Due, Terminal
    <3>5. ~Due(r, N)'
      BY <3>1, AppendedLog DEF Due
    <3>6. \A n \in 1..Horizon(r)' : n # N => n \in 1..Horizon(r) /\ n \in 1..Len(log)
      BY <3>2, HorizonGrows
    <3>7. N \notin r.frames \cup r.queue
      BY <3>2, <1>2
    <3>8. \A n \in 1..Horizon(r)' : n \in r.frames \cup r.queue <=> r.last < n /\ Due(r, n)'
      <4>. TAKE n \in 1..Horizon(r)'
      <4>1. CASE n = N
        BY <4>1, <3>5, <3>7
      <4>2. CASE n # N
        BY <4>2, <3>6, <3>4, <3>1 DEF Good, Hears
      <4>. QED BY <4>1, <4>2
    <3>. QED BY <3>8, <3>1 DEF Good, Hears, Replaying
  <2>. QED BY <1>1, <2>2, <2>4, <2>5 DEF Good
<1>. QED BY <1>3, <1>4

\* A reader whose read waits is handed the frame.
LEMMA HandedGood ==
  ASSUME Typed, NEW r, Good(r), NEW f \in Frame, Appended(f), NEW N, N = Len(log'),
         r.ep = epoch, r.live = "on", r.turn \in {Any, f.turn}, r.parked,
         NEW q, q = Delivered([r EXCEPT !.parked = FALSE], N, f)
  PROVE  Good(q)'
<1>. DEFINE k == [r EXCEPT !.parked = FALSE]
<1>1. /\ k \in Reader /\ ~k.parked
      /\ k.at = r.at /\ k.submits = r.submits /\ k.ep = r.ep /\ k.turn = r.turn
      /\ k.batch = r.batch /\ k.lo = r.lo /\ k.mark = r.mark /\ k.last = r.last
      /\ k.closing = r.closing /\ k.live = r.live /\ k.queue = r.queue /\ k.frames = r.frames
  BY DEF Good, Reader
<1>2. q = Delivered(k, N, f)
  OBVIOUS
<1>. HIDE DEF k
<1>3. N \in 0..MaxFrames /\ Len(log) \in Nat /\ N = Len(log) + 1 /\ epoch' = epoch
  BY AppendedLog, Entries DEF Typed, Appended
<1>4. /\ q \in Reader /\ q.last = N /\ ~q.parked
      /\ q.at = r.at /\ q.submits = r.submits /\ q.ep = r.ep /\ q.lo = r.lo /\ q.mark = r.mark
      /\ q.queue \in {r.queue, {}} /\ q.frames \in {r.frames, {}}
      /\ q.live = "on" => /\ q.closing = r.closing /\ q.batch = r.batch
                          /\ q.queue = r.queue /\ q.frames = r.frames
  <2>0. k \in Reader /\ N \in 0..MaxFrames
    BY <1>1, <1>3
  <2>1. Follows(q, k, N, f)
    BY <2>0, <1>2, DeliveredRow
  <2>2. /\ q \in Reader /\ q.last = N /\ q.parked = k.parked
        /\ q.at = k.at /\ q.submits = k.submits /\ q.ep = k.ep /\ q.lo = k.lo
        /\ q.mark = k.mark /\ q.batch = k.batch
    BY <2>1 DEF Follows
  <2>3. CASE ~k.submits /\ Terminal(f)
    <3>1. q.live = "shut" /\ q.queue = {} /\ q.frames = {}
      BY <2>1, <2>3 DEF Follows
    <3>. QED BY <1>1, <2>2, <3>1
  <2>4. CASE k.submits \/ ~Terminal(f)
    <3>1. q.closing = k.closing /\ q.queue = k.queue /\ q.frames = k.frames
      BY <2>1, <2>4 DEF Follows
    <3>. QED BY <1>1, <2>2, <3>1
  <2>. QED BY <2>3, <2>4
<1>5. Ring(r) = log /\ Ring(q)' = log'
  BY <1>3, <1>4 DEF Ring, Here
<1>6. Ledger(q)'
  <2>1. r.mark \in Nat /\ r.lo \in Nat
    BY Fields DEF Good
  <2>2. /\ r.ep <= epoch /\ r.lo <= r.mark /\ r.mark <= Len(log)
        /\ r.frames \subseteq 1..Len(log) /\ r.queue \subseteq 1..Len(log)
    BY <1>5 DEF Good, Ledger
  <2>3. q.frames \subseteq 1..N /\ q.queue \subseteq 1..N
    <3>1. 1..Len(log) \subseteq 1..N
      BY <1>3
    <3>. QED BY <1>4, <2>2, <3>1
  <2>4. q.mark <= N /\ q.last <= N /\ q.ep <= epoch /\ q.lo <= q.mark
    <3>1. r.mark <= N /\ N <= N
      BY <1>3, <2>1, <2>2
    <3>. QED BY <1>4, <2>2, <3>1
  <2>. QED BY <1>3, <1>5, <2>3, <2>4 DEF Ledger
<1>7. r.at \notin {"read", "reserved"}
  BY DEF Good, Reading, Reserving
<1>8. Reading(q)' /\ Reserving(q)'
  BY <1>4, <1>7 DEF Reading, Reserving
<1>9. Hears(q)'
  <2>. SUFFICES ASSUME Served(q)' PROVE Hears(q)!2'
    BY DEF Hears
  <2>1. Served(r) /\ q.queue = r.queue /\ q.frames = r.frames
    BY <1>4 DEF Served, Here
  <2>2. r.queue = {} /\ r.frames = {}
    BY <2>1 DEF Good, Hears, Replaying
  <2>3. Horizon(q)' = N
    BY <2>1, <2>2 DEF Horizon
  <2>4. \A n \in 1..Horizon(q)' : ~(q.last < n)
    BY <1>3, <1>4, <2>3
  <2>. QED BY <1>4, <2>1, <2>2, <2>4
<1>10. Cardinality(q.queue) <= MaxQueue /\ (q.submits => q.frames = {})
  <2>1. Cardinality(r.queue) <= MaxQueue /\ (r.submits => r.frames = {})
    BY DEF Good
  <2>2. 0 <= MaxQueue
    BY Bounds
  <2>. QED BY <1>4, <2>1, <2>2, NoFrames
<1>. QED BY <1>4, <1>6, <1>8, <1>9, <1>10 DEF Good

\* A subscription with room keeps the frame.
LEMMA QueuedGood ==
  ASSUME Typed, NEW r, Good(r), NEW f \in Frame, Appended(f), NEW N, N = Len(log'),
         r.ep = epoch, r.live = "on", r.turn \in {Any, f.turn}, ~r.parked,
         Cardinality(r.queue) < MaxQueue,
         NEW q, q = [r EXCEPT !.queue = @ \cup {N}]
  PROVE  Good(q)'
<1>1. N \in 1..MaxFrames /\ Len(log) \in Nat /\ N = Len(log) + 1 /\ epoch' = epoch
  BY AppendedLog, Entries DEF Typed, Appended
<1>2. /\ q \in Reader /\ q.queue = r.queue \cup {N}
      /\ q.at = r.at /\ q.submits = r.submits /\ q.ep = r.ep /\ q.turn = r.turn
      /\ q.parked = r.parked /\ q.batch = r.batch /\ q.lo = r.lo /\ q.mark = r.mark
      /\ q.last = r.last /\ q.closing = r.closing /\ q.live = r.live /\ q.frames = r.frames
  BY <1>1 DEF Good, Reader
<1>3. Ring(r) = log /\ Ring(q)' = log'
  BY <1>1, <1>2 DEF Ring, Here
<1>4. r.mark \in Nat /\ r.last \in Nat /\ r.lo \in Nat
  BY Fields DEF Good
<1>5. Ledger(q)'
  <2>1. /\ r.ep <= epoch /\ r.lo <= r.mark /\ r.mark <= Len(log) /\ r.last <= Len(log)
        /\ r.frames \subseteq 1..Len(log) /\ r.queue \subseteq 1..Len(log)
    BY <1>3 DEF Good, Ledger
  <2>2. q.frames \subseteq 1..N /\ q.queue \subseteq 1..N
    BY <1>1, <1>2, <2>1
  <2>4. q.mark <= N /\ q.last <= N /\ q.ep <= epoch /\ q.lo <= q.mark
    BY <1>1, <1>2, <1>4, <2>1
  <2>. QED BY <1>1, <1>3, <2>2, <2>4 DEF Ledger
<1>6. Reading(q)'
  <2>1. r.mark <= Len(log)
    BY <1>3 DEF Good, Ledger
  <2>2. (r.mark+1..Len(log)) \cup {N} = r.mark+1..N
    BY <1>1, <1>4, <2>1, OneMore
  <2>. QED BY <1>2, <1>3, <2>2 DEF Good, Reading
<1>7. Reserving(q)'
  <2>1. r.last <= Len(log)
    BY <1>3 DEF Good, Ledger
  <2>2. (r.last+1..Len(log)) \cup {N} = r.last+1..N
    BY <1>1, <1>4, <2>1, OneMore
  <2>. QED BY <1>2, <1>3, <2>2 DEF Good, Reserving
<1>8. Cardinality(q.queue) <= MaxQueue
  <2>1. r.queue \in SUBSET (1..MaxFrames) /\ MaxFrames \in Nat /\ MaxQueue \in Nat
    BY Fields, Bounds DEF Good
  <2>2. Cardinality(r.queue) \in Nat /\ Cardinality(r.queue \cup {N}) <= Cardinality(r.queue) + 1
    BY <2>1, Counting
  <2>3. Cardinality(r.queue \cup {N}) \in Nat
    <3>1. r.queue \cup {N} \in SUBSET (1..MaxFrames)
      BY <1>1, <2>1
    <3>. QED BY <3>1, <2>1, Counting
  <2>. QED BY <1>2, <2>1, <2>2, <2>3
<1>9. Hears(q)'
  <2>. SUFFICES ASSUME Served(q)' PROVE Hears(q)!2'
    BY DEF Hears
  <2>1. Served(r)
    BY <1>1, <1>2 DEF Served, Here
  <2>2. r.frames \in SUBSET (1..Len(log)) /\ r.queue \in SUBSET (1..Len(log))
    BY <1>3 DEF Good, Ledger
  <2>3. \A n \in 1..Len(log) : Due(q, n)' <=> Due(r, n)
    BY <1>2, AppendedLog DEF Due, Terminal
  <2>4. r.last < N /\ Due(q, N)'
    BY <1>1, <1>2, <1>3, <1>4, AppendedLog DEF Due, Good, Ledger
  <2>5. \A n \in 1..Horizon(q)' : n # N => n \in 1..Horizon(r) /\ n \in 1..Len(log)
    BY <1>2, <2>2, HorizonGrows
  <2>6. \A n \in 1..Horizon(q)' : n \in q.frames \cup q.queue <=> q.last < n /\ Due(q, n)'
    <3>. TAKE n \in 1..Horizon(q)'
    <3>1. CASE n = N
      BY <1>2, <3>1, <2>4
    <3>2. CASE n # N
      BY <1>2, <3>2, <2>5, <2>3, <2>1 DEF Good, Hears
    <3>. QED BY <3>1, <3>2
  <2>7. \A n \in q.frames, k \in q.queue : n < k
    BY <1>1, <1>2, <2>1, <2>2 DEF Good, Hears
  <2>. QED BY <1>2, <2>6, <2>7
<1>. QED BY <1>2, <1>5, <1>6, <1>7, <1>8, <1>9 DEF Good

\* A subscription without room is lost.
LEMMA LostGood ==
  ASSUME Typed, NEW r, Good(r), NEW f \in Frame, Appended(f),
         NEW q, q = [r EXCEPT !.live = "lost", !.queue = {}]
  PROVE  Good(q)'
<1>1. Len(log') = Len(log) + 1 /\ Len(log) \in Nat /\ epoch' = epoch
  BY AppendedLog, Entries DEF Typed, Appended
<1>2. /\ q \in Reader /\ q.queue = {} /\ q.live = "lost"
      /\ q.at = r.at /\ q.submits = r.submits /\ q.ep = r.ep /\ q.turn = r.turn
      /\ q.parked = r.parked /\ q.batch = r.batch /\ q.lo = r.lo /\ q.mark = r.mark
      /\ q.last = r.last /\ q.frames = r.frames
  BY DEF Good, Reader
<1>3. r.mark \in Nat /\ r.last \in Nat
  BY Fields DEF Good
<1>4. Ledger(q)'
  <2>1. CASE Here(r)
    <3>1. Ring(r) = log /\ Ring(q)' = log'
      BY <1>1, <1>2, <2>1 DEF Ring, Here
    <3>. QED BY <1>1, <1>2, <1>3, <3>1 DEF Good, Ledger
  <2>2. CASE ~Here(r)
    <3>1. Ring(r) = <<>> /\ Ring(q)' = <<>>
      BY <1>1, <1>2, <2>2 DEF Ring, Here
    <3>. QED BY <1>1, <1>2, <1>3, <3>1 DEF Good, Ledger
  <2>. QED BY <2>1, <2>2
<1>. QED BY <1>2, <1>4, NoFrames, Bounds DEF Good, Reading, Reserving, Hears, Served

\* However a reader takes it, a frame that is written leaves it in order.
LEMMA PushedGood ==
  ASSUME Typed, NEW r, Good(r), NEW f \in Frame, Appended(f), NEW N, N = Len(log'),
         NEW q, q = Pushed(r, N, f)
  PROVE  Good(q)'
<1>1. CASE r.ep # epoch \/ r.live # "on" \/ r.turn \notin {Any, f.turn}
  BY <1>1, UnheardGood DEF Pushed
<1>2. CASE /\ r.ep = epoch /\ r.live = "on" /\ r.turn \in {Any, f.turn} /\ r.parked
  <2>1. q = Delivered([r EXCEPT !.parked = FALSE], N, f)
    BY <1>2 DEF Pushed
  <2>. QED BY <1>2, <2>1, HandedGood
<1>3. CASE /\ r.ep = epoch /\ r.live = "on" /\ r.turn \in {Any, f.turn} /\ ~r.parked
           /\ Cardinality(r.queue) < MaxQueue
  <2>1. q = [r EXCEPT !.queue = @ \cup {N}]
    BY <1>3 DEF Pushed
  <2>. QED BY <1>3, <2>1, QueuedGood
<1>4. CASE /\ r.ep = epoch /\ r.live = "on" /\ r.turn \in {Any, f.turn} /\ ~r.parked
           /\ ~(Cardinality(r.queue) < MaxQueue)
  <2>1. q = [r EXCEPT !.live = "lost", !.queue = {}]
    BY <1>4 DEF Pushed
  <2>. QED BY <2>1, LostGood
<1>5. r.parked \in BOOLEAN
  BY Fields DEF Good
<1>. QED BY <1>1, <1>2, <1>3, <1>4, <1>5

-----------------------------------------------------------------------------
(* Readers that subscribe.                                                   *)

\* A new subscription.
LEMMA SubscribedRow ==
  ASSUME Typed, NEW w \in BOOLEAN, NEW k, k = Subscribed(Fresh, w)
  PROVE  /\ k \in Reader /\ k.at = "idle" /\ ~k.submits /\ k.ep = epoch /\ k.turn = Any
         /\ k.live = "on" /\ k.queue = {} /\ ~k.parked /\ ~k.closing /\ k.frames = {}
         /\ k.batch = Unread /\ k.lo = 0 /\ k.mark = 0 /\ k.last = 0
<1>1. epoch \in 0..MaxEpochs
  BY DEF Typed
<1>2. PICK r \in Reader : r = Fresh
  BY FreshTyped
<1>3. /\ r.at = "idle" /\ ~r.submits /\ r.turn = Any /\ r.queue = {} /\ ~r.parked /\ ~r.closing
      /\ r.frames = {} /\ r.batch = Unread /\ r.lo = 0 /\ r.mark = 0 /\ r.last = 0
  BY <1>2 DEF Fresh
<1>4. k = [r EXCEPT !.ep = epoch, !.wait = w, !.live = "on"]
  BY <1>2 DEF Subscribed
<1>5. k \in Reader
  BY <1>1, <1>4 DEF Reader
<1>6. /\ k.at = r.at /\ k.submits = r.submits /\ k.ep = epoch /\ k.turn = r.turn
      /\ k.live = "on" /\ k.queue = r.queue /\ k.parked = r.parked /\ k.closing = r.closing
      /\ k.frames = r.frames /\ k.batch = r.batch /\ k.lo = r.lo /\ k.mark = r.mark
      /\ k.last = r.last
  BY <1>4 DEF Reader
<1>. QED BY <1>3, <1>5, <1>6

\* A reader that does not wait closes its subscription when it has its replay.
LEMMA IdleGood ==
  ASSUME NEW r, Good(r), r.at = "open"
  PROVE  Good(Idle(r))
<1>. DEFINE q == [r EXCEPT !.closing = TRUE, !.live = "shut", !.queue = {}]
<1>1. /\ q \in Reader /\ q.queue = {} /\ q.closing
      /\ q.at = r.at /\ q.submits = r.submits /\ q.ep = r.ep /\ q.lo = r.lo /\ q.mark = r.mark
      /\ q.last = r.last /\ q.frames = r.frames
  BY DEF Good, Reader
<1>. HIDE DEF q
<1>2. Ring(q) = Ring(r)
  BY <1>1 DEF Ring, Here
<1>3. Ledger(q)
  BY <1>1, <1>2 DEF Good, Ledger
<1>4. Cardinality(q.queue) <= MaxQueue
  BY <1>1, NoFrames, Bounds
<1>5. Good(q)
  BY <1>1, <1>3, <1>4 DEF Good, Reading, Reserving, Hears, Served
<1>. QED BY <1>5 DEF Idle, q

LEMMA LiveGood ==
  ASSUME Typed, NEW w \in BOOLEAN
  PROVE  Good(Idle([Subscribed(Fresh, w) EXCEPT !.at = "open", !.last = Len(log)]))
<1>. DEFINE k == Subscribed(Fresh, w)
            q == [k EXCEPT !.at = "open", !.last = Len(log)]
<1>1. k \in Reader /\ ~k.submits /\ k.ep = epoch /\ k.turn = Any /\ k.queue = {} /\ k.frames = {}
      /\ k.lo = 0 /\ k.mark = 0 /\ ~k.parked
  BY SubscribedRow
<1>2. Len(log) \in 0..MaxFrames /\ Len(log) \in Nat
  BY Entries DEF Typed
<1>. HIDE DEF k
<1>3. /\ q \in Reader /\ q.at = "open" /\ q.last = Len(log) /\ ~q.submits /\ q.ep = epoch
      /\ q.turn = Any /\ q.queue = {} /\ q.frames = {} /\ q.lo = 0 /\ q.mark = 0 /\ ~q.parked
  BY <1>1, <1>2 DEF Reader, Places, Cursors
<1>. HIDE DEF q
<1>4. Ring(q) = log /\ epoch \in Nat
  BY <1>3 DEF Ring, Here, Typed
<1>5. Ledger(q)
  BY <1>2, <1>3, <1>4 DEF Ledger
<1>6. Hears(q)
  <2>1. Horizon(q) = Len(log)
    BY <1>3 DEF Horizon
  <2>2. \A n \in 1..Len(log) : ~(q.last < n)
    BY <1>2, <1>3
  <2>. QED BY <1>3, <2>1, <2>2 DEF Hears
<1>7. Good(q)
  BY <1>3, <1>5, <1>6, NoFrames, Bounds DEF Good, Reading, Reserving
<1>. QED BY <1>3, <1>7, IdleGood DEF q, k

LEMMA CursorGood ==
  ASSUME Typed, NEW w \in BOOLEAN, NEW n \in dropped..Len(log)
  PROVE  Good(Idle([Subscribed(Fresh, w) EXCEPT
                      !.at = "open", !.last = n, !.frames = n+1..Len(log)]))
<1>. DEFINE k == Subscribed(Fresh, w)
            q == [k EXCEPT !.at = "open", !.last = n, !.frames = n+1..Len(log)]
<1>1. k \in Reader /\ ~k.submits /\ k.ep = epoch /\ k.turn = Any /\ k.queue = {}
      /\ k.lo = 0 /\ k.mark = 0 /\ ~k.parked
  BY SubscribedRow
<1>2. Len(log) \in Nat /\ Len(log) <= MaxFrames /\ MaxFrames \in Nat /\ n \in 0..Len(log)
  BY Entries, Bounds DEF Typed
<1>. HIDE DEF k
<1>3. n \in 0..MaxFrames /\ n+1..Len(log) \in SUBSET (1..MaxFrames) /\ n+1..Len(log) \subseteq 1..Len(log)
  BY <1>2
<1>4. /\ q \in Reader /\ q.at = "open" /\ q.last = n /\ ~q.submits /\ q.ep = epoch
      /\ q.turn = Any /\ q.queue = {} /\ q.frames = n+1..Len(log) /\ q.lo = 0 /\ q.mark = 0
      /\ ~q.parked
  BY <1>1, <1>3 DEF Reader, Places, Cursors
<1>. HIDE DEF q
<1>5. Ring(q) = log /\ epoch \in Nat
  BY <1>4 DEF Ring, Here, Typed
<1>6. Ledger(q)
  BY <1>2, <1>3, <1>4, <1>5 DEF Ledger
<1>7. Hears(q)
  <2>. DEFINE ends == {i \in q.frames : Terminal(log[i])}
  <2>1. Horizon(q) = IF ends = {} THEN Len(log) ELSE Least(ends)
    BY DEF Horizon
  <2>2. ends \in SUBSET Nat /\ ends \subseteq 1..Len(log)
    BY <1>3, <1>4
  <2>. HIDE DEF ends
  <2>3. Horizon(q) \in 0..Len(log)
    <3>1. ends # {} => Least(ends) \in 1..Len(log)
      BY <2>2, LeastIn
    <3>. QED BY <1>2, <2>1, <3>1
  <2>4. \A i \in 1..Len(log) : Due(q, i)
    BY <1>4 DEF Due
  <2>5. \A i \in 1..Horizon(q) : i \in 1..Len(log) /\ (i \in q.frames <=> q.last < i)
    BY <1>2, <1>4, <2>3
  <2>. QED BY <1>4, <2>4, <2>5 DEF Hears
<1>8. Good(q)
  BY <1>4, <1>6, <1>7, NoFrames, Bounds DEF Good, Reading, Reserving
<1>. QED BY <1>4, <1>8, IdleGood DEF q, k

LEMMA ReservedGood ==
  ASSUME Typed
  PROVE  Good([Subscribed(Fresh, TRUE) EXCEPT !.at = "reserved", !.submits = TRUE, !.last = Len(log)])
<1>. DEFINE k == Subscribed(Fresh, TRUE)
            q == [k EXCEPT !.at = "reserved", !.submits = TRUE, !.last = Len(log)]
<1>1. k \in Reader /\ k.ep = epoch /\ k.turn = Any /\ k.queue = {} /\ k.frames = {}
      /\ k.lo = 0 /\ k.mark = 0 /\ ~k.parked
  BY SubscribedRow
<1>2. Len(log) \in 0..MaxFrames /\ Len(log) \in Nat
  BY Entries DEF Typed
<1>. HIDE DEF k
<1>3. /\ q \in Reader /\ q.at = "reserved" /\ q.last = Len(log) /\ q.submits /\ q.ep = epoch
      /\ q.turn = Any /\ q.queue = {} /\ q.frames = {} /\ q.lo = 0 /\ q.mark = 0 /\ ~q.parked
  BY <1>1, <1>2 DEF Reader, Places, Cursors
<1>. HIDE DEF q
<1>4. Ring(q) = log /\ epoch \in Nat
  BY <1>3 DEF Ring, Here, Typed
<1>5. Ledger(q) /\ q.queue = q.last+1..Len(Ring(q))
  BY <1>2, <1>3, <1>4 DEF Ledger
<1>6. Cardinality(q.queue) <= MaxQueue
  BY <1>3, NoFrames, Bounds
<1>7. Good(q)
  BY <1>3, <1>5, <1>6 DEF Good, Reading, Reserving, Hears, Served
<1>. QED BY <1>7 DEF q, k

LEMMA MessageGood ==
  ASSUME Typed, NEW w \in BOOLEAN, NEW m \in Msgs
  PROVE  Good([Subscribed(Fresh, w) EXCEPT
                 !.at = "read", !.anchor = m, !.lo = dropped, !.mark = Len(log),
                 !.batch = [k \in Msgs |-> IF k > m THEN store[k] ELSE 0]])
<1>. DEFINE f == Subscribed(Fresh, w)
            b == [k \in Msgs |-> IF k > m THEN store[k] ELSE 0]
            q == [f EXCEPT !.at = "read", !.anchor = m, !.lo = dropped, !.mark = Len(log), !.batch = b]
<1>1. f \in Reader /\ ~f.submits /\ f.ep = epoch /\ f.turn = Any /\ f.queue = {} /\ f.frames = {}
      /\ f.last = 0 /\ ~f.parked
  BY SubscribedRow
<1>2. Len(log) \in 0..MaxFrames /\ Len(log) \in Nat /\ dropped \in 0..MaxFrames /\ dropped <= Len(log)
  BY Entries, Bounds DEF Typed
<1>3. b \in [Msgs -> 0..Quiet]
  BY Bounds DEF Typed
<1>. HIDE DEF f, b
<1>4. /\ q \in Reader /\ q.at = "read" /\ q.last = 0 /\ ~q.submits /\ q.ep = epoch
      /\ q.turn = Any /\ q.queue = {} /\ q.frames = {} /\ q.lo = dropped /\ q.mark = Len(log)
      /\ ~q.parked /\ q.batch = b
  <2>1. /\ "read" \in Places /\ m \in Msgs \cup {None} /\ dropped \in Cursors /\ Len(log) \in Cursors
        /\ b \in [Msgs -> 0..Quiet] \cup {Unread}
    BY <1>2, <1>3 DEF Places, Cursors
  <2>2. q \in Reader
    <3>1. f \in Reader
      BY <1>1
    <3>. QED BY <2>1, <3>1 DEF Reader
  <2>3. /\ q.at = "read" /\ q.last = f.last /\ q.submits = f.submits /\ q.ep = f.ep
        /\ q.turn = f.turn /\ q.queue = f.queue /\ q.frames = f.frames /\ q.lo = dropped
        /\ q.mark = Len(log) /\ q.parked = f.parked /\ q.batch = b
    BY <1>1 DEF Reader
  <2>. QED BY <1>1, <2>2, <2>3
<1>5. b # Unread
  BY <1>3, Constants
<1>. HIDE DEF q
<1>6. Ring(q) = log /\ epoch \in Nat
  BY <1>4 DEF Ring, Here, Typed
<1>7. Ledger(q) /\ q.queue = q.mark+1..Len(Ring(q))
  BY <1>2, <1>4, <1>6 DEF Ledger
<1>8. Reading(q)
  BY <1>4, <1>5, <1>7 DEF Reading
<1>9. Reserving(q) /\ Hears(q)
  BY <1>4 DEF Reserving, Hears, Served
<1>10. Cardinality(q.queue) <= MaxQueue
  BY <1>4, NoFrames, Bounds
<1>11. Good(q)
  BY <1>4, <1>7, <1>8, <1>9, <1>10 DEF Good
<1>. QED BY <1>11 DEF q, f, b

-----------------------------------------------------------------------------
(* A replay that is put together.                                            *)

\* The ring a reader sees.
LEMMA RingTyped ==
  ASSUME Typed, NEW r \in Reader
  PROVE  /\ Ring(r) \in Seq(Entry) /\ Len(Ring(r)) \in Nat /\ Len(Ring(r)) <= MaxFrames
         /\ \A n \in 1..Len(Ring(r)) : /\ FrameIn(Ring(r)[n]) \in Frame
                                       /\ Ring(r)[n].ver \in 0..MaxVersion
<1>1. CASE Here(r)
  BY <1>1, Entries DEF Typed, Ring
<1>2. CASE ~Here(r)
  BY <1>2, Bounds DEF Ring
<1>. QED BY <1>1, <1>2

\* Where the replay ends: at the first terminal after the resume, or where the ring does.
LEMMA ReplayEnds ==
  ASSUME Typed, NEW r \in Reader, r.mark <= Len(Ring(r))
  PROVE  /\ ReplayEnd(r) \in r.mark..Len(Ring(r))
         /\ \/ /\ ReplayEnd(r) = Len(Ring(r))
               /\ \A n \in r.mark+1..Len(Ring(r)) : ~Terminal(Ring(r)[n])
            \/ /\ ReplayEnd(r) > r.mark /\ Terminal(Ring(r)[ReplayEnd(r)])
               /\ \A n \in r.mark+1..Len(Ring(r)) : Terminal(Ring(r)[n]) => ReplayEnd(r) <= n
<1>. DEFINE ends == {n \in r.mark+1..Len(Ring(r)) : Terminal(Ring(r)[n])}
<1>1. ReplayEnd(r) = IF ends = {} THEN Len(Ring(r)) ELSE Least(ends)
  BY DEF ReplayEnd
<1>2. r.mark \in Nat /\ Len(Ring(r)) \in Nat
  BY Fields, RingTyped
<1>3. ends \in SUBSET Nat
  BY <1>2
<1>4. CASE ends = {}
  BY <1>1, <1>2, <1>4
<1>5. CASE ends # {}
  <2>1. Least(ends) \in ends /\ \A n \in ends : Least(ends) <= n
    <3>. HIDE DEF ends
    <3>. QED BY <1>3, <1>5, LeastIn
  <2>2. ReplayEnd(r) = Least(ends)
    BY <1>1, <1>5
  <2>3. ReplayEnd(r) \in ends /\ \A n \in ends : ReplayEnd(r) <= n
    BY <2>1, <2>2
  <2>. QED BY <1>2, <2>3
<1>. QED BY <1>4, <1>5

\* Where the frames of the replay begin.
LEMMA LastBoundaries ==
  ASSUME Typed, NEW r \in Reader, r.mark <= Len(Ring(r)), r.lo <= r.mark
  PROVE  /\ LastBoundary(r) \in r.lo..ReplayEnd(r)
         /\ LastBoundary(r) = r.lo \/ Boundary(Ring(r)[LastBoundary(r)])
<1>. DEFINE bounds == {n \in r.lo+1..ReplayEnd(r) : Boundary(Ring(r)[n])}
<1>1. LastBoundary(r) = IF bounds = {} THEN r.lo ELSE Last(bounds)
  BY DEF LastBoundary
<1>2. r.lo \in Nat /\ r.mark \in Nat /\ ReplayEnd(r) \in Nat /\ r.mark <= ReplayEnd(r)
  BY Fields, RingTyped, ReplayEnds
<1>3. bounds \in SUBSET (0..ReplayEnd(r))
  BY <1>2
<1>4. CASE bounds = {}
  BY <1>1, <1>2, <1>4
<1>5. CASE bounds # {}
  <2>1. Last(bounds) \in bounds
    <3>. HIDE DEF bounds
    <3>. QED BY <1>2, <1>3, <1>5, LastIn
  <2>2. LastBoundary(r) \in bounds
    BY <1>1, <1>5, <2>1
  <2>. QED BY <1>2, <2>2
<1>. QED BY <1>4, <1>5

\* The messages of the replay are messages.
LEMMA FoldedTyped ==
  ASSUME Typed, NEW r \in Reader, r.mark <= Len(Ring(r)), r.batch # Unread
  PROVE  Folded(r) \in [Msgs -> 0..Quiet]
<1>. DEFINE words(m) == {n \in r.mark+1..ReplayEnd(r) : Boundary(Ring(r)[n]) /\ m \in Ring(r)[n].msgs}
            word(m) == IF words(m) # {} THEN Ring(r)[Last(words(m))].ver
                       ELSE IF m \in CommittedLate(r) THEN 0 ELSE r.batch[m]
<1>1. r.batch \in [Msgs -> 0..Quiet] /\ r.mark \in Nat /\ Len(Ring(r)) \in Nat
      /\ ReplayEnd(r) \in Nat /\ ReplayEnd(r) <= Len(Ring(r))
  BY Fields, RingTyped, ReplayEnds
<1>2. ASSUME NEW m \in Msgs PROVE word(m) \in 0..Quiet
  <2>1. CASE words(m) # {}
    <3>1. words(m) \in SUBSET (0..ReplayEnd(r)) /\ words(m) \subseteq 1..Len(Ring(r))
      BY <1>1
    <3>2. Last(words(m)) \in words(m)
      <4>. HIDE DEF words
      <4>. QED BY <1>1, <2>1, <3>1, LastIn
    <3>3. Ring(r)[Last(words(m))].ver \in 0..Quiet
      <4>. HIDE DEF words
      <4>. QED BY <3>1, <3>2, RingTyped, Bounds
    <3>4. word(m) = Ring(r)[Last(words(m))].ver
      BY <2>1
    <3>. QED BY <3>3, <3>4
  <2>2. CASE words(m) = {}
    BY <1>1, <2>2, Bounds
  <2>. QED BY <2>1, <2>2
<1>3. Folded(r) = [m \in Msgs |-> word(m)]
  BY DEF Folded
<1>. HIDE DEF word
<1>. QED BY <1>2, <1>3

\* A reader that begins its replay is a reader.
LEMMA OpenedTyped ==
  ASSUME NEW k \in Reader, NEW b \in [Msgs -> 0..Quiet] \cup {Unread},
         NEW F \in SUBSET (1..MaxFrames), NEW n \in 0..MaxFrames
  PROVE  [k EXCEPT !.at = "open", !.batch = b, !.frames = F, !.last = n, !.lo = 0] \in Reader
<1>1. 0 \in 0..MaxFrames
  BY Bounds
<1>. QED BY <1>1 DEF Reader, Places, Cursors

\* A reader that begins its replay.
Opened(r) ==
  [[r EXCEPT !.queue = {n \in @ : n \notin r.lo+1..Len(Ring(r))}]
     EXCEPT !.at = "open", !.batch = Folded(r), !.frames = Stitched(r),
            !.last = LastBoundary(r), !.lo = 0]

LEMMA FinishedRow ==
  ASSUME Typed, NEW r, Good(r), r.at = "read", NEW q, q = Opened(r)
  PROVE  /\ q \in Reader /\ q.at = "open" /\ q.batch = Folded(r) /\ q.frames = Stitched(r)
         /\ q.last = LastBoundary(r) /\ q.lo = 0 /\ q.queue \subseteq r.queue
         /\ r.live = "on" => q.queue = {}
         /\ q.live = r.live /\ q.ep = r.ep /\ q.turn = Any /\ q.mark = r.mark
         /\ ~q.submits /\ ~q.parked /\ q.anchor = r.anchor
         /\ Folded(r) \in [Msgs -> 0..Quiet]
         /\ ReplayEnd(r) \in r.mark..Len(Ring(r)) /\ LastBoundary(r) \in r.lo..ReplayEnd(r)
         /\ Stitched(r) \in SUBSET (1..Len(Ring(r)))
<1>. DEFINE L == Len(Ring(r))
            x == {n \in r.queue : n \notin r.lo+1..Len(Ring(r))}
            k == [r EXCEPT !.queue = x]
<1>1. /\ r \in Reader /\ ~r.submits /\ ~r.parked /\ r.turn = Any /\ r.batch # Unread
      /\ r.live = "on" => r.queue = r.mark+1..L
      /\ r.lo <= r.mark /\ r.mark <= L
  BY DEF Good, Reading, Ledger
<1>2. /\ L \in Nat /\ L <= MaxFrames /\ MaxFrames \in Nat /\ r.lo \in Nat /\ r.mark \in Nat
      /\ r.queue \in SUBSET (1..MaxFrames)
  BY <1>1, Fields, RingTyped, Bounds
<1>3. x \in SUBSET (1..MaxFrames) /\ x \subseteq r.queue /\ (r.live = "on" => x = {})
  BY <1>1, <1>2
<1>4. q = [k EXCEPT !.at = "open", !.batch = Folded(r), !.frames = Stitched(r),
                    !.last = LastBoundary(r), !.lo = 0]
  BY DEF Opened
<1>. HIDE DEF x
<1>5. /\ k \in Reader /\ k.queue = x /\ k.live = r.live /\ k.ep = r.ep /\ k.turn = r.turn
      /\ k.mark = r.mark /\ k.submits = r.submits /\ k.parked = r.parked /\ k.anchor = r.anchor
  BY <1>1, <1>3 DEF Reader
<1>6. Folded(r) \in [Msgs -> 0..Quiet]
  BY <1>1, FoldedTyped
<1>7. ReplayEnd(r) \in r.mark..L /\ LastBoundary(r) \in r.lo..ReplayEnd(r)
  BY <1>1, ReplayEnds, LastBoundaries
<1>8. Stitched(r) \in SUBSET (1..MaxFrames) /\ Stitched(r) \in SUBSET (1..L)
  BY <1>2, <1>7 DEF Stitched
<1>. HIDE DEF k
<1>9. q \in Reader
  <2>1. LastBoundary(r) \in 0..MaxFrames /\ Folded(r) \in [Msgs -> 0..Quiet] \cup {Unread}
    BY <1>2, <1>6, <1>7
  <2>2. k \in Reader
    BY <1>5
  <2>3. [k EXCEPT !.at = "open", !.batch = Folded(r), !.frames = Stitched(r),
                  !.last = LastBoundary(r), !.lo = 0] \in Reader
    BY <1>8, <2>1, <2>2, OpenedTyped
  <2>. QED BY <1>4, <2>3
<1>10. /\ q.at = "open" /\ q.batch = Folded(r) /\ q.frames = Stitched(r)
       /\ q.last = LastBoundary(r) /\ q.lo = 0 /\ q.queue = k.queue
       /\ q.live = k.live /\ q.ep = k.ep /\ q.turn = k.turn /\ q.mark = k.mark
       /\ q.submits = k.submits /\ q.parked = k.parked /\ q.anchor = k.anchor
  <2>1. k \in Reader
    BY <1>5
  <2>. QED BY <1>4, <2>1 DEF Reader
<1>. QED BY <1>1, <1>3, <1>5, <1>6, <1>7, <1>8, <1>9, <1>10

\* The replay that a terminal ends has it.
LEMMA TerminalReplayed ==
  ASSUME Typed, NEW r \in Reader, r.mark <= Len(Ring(r)), r.lo <= r.mark,
         ReplayEnd(r) # Len(Ring(r))
  PROVE  ReplayEnd(r) \in Stitched(r) /\ Terminal(Ring(r)[ReplayEnd(r)])
<1>1. ReplayEnd(r) > r.mark /\ Terminal(Ring(r)[ReplayEnd(r)])
  BY ReplayEnds
<1>2. /\ Len(Ring(r)) \in Nat /\ r.mark \in Nat /\ r.lo \in Nat
      /\ ReplayEnd(r) \in r.mark..Len(Ring(r)) /\ LastBoundary(r) \in r.lo..ReplayEnd(r)
  BY Fields, RingTyped, ReplayEnds, LastBoundaries
<1>3. LastBoundary(r) # ReplayEnd(r)
  <2>1. ~Boundary(Ring(r)[ReplayEnd(r)])
    BY <1>1 DEF Terminal, Boundary
  <2>. QED BY <1>1, <1>2, <2>1, LastBoundaries
<1>4. ReplayEnd(r) \in LastBoundary(r)+1..ReplayEnd(r)
  BY <1>2, <1>3
<1>. QED BY <1>1, <1>4 DEF Stitched

\* The queue and the replay of a reader that has read the table meet at the end of the replay.
LEMMA FinishGood ==
  ASSUME Typed, NEW r, Good(r), r.at = "read"
  PROVE  Good(Idle(Opened(r)))
<1>. DEFINE L == Len(Ring(r))
<1>0. PICK q : q = Opened(r)
  OBVIOUS
<1>1. /\ r \in Reader /\ r.ep <= epoch /\ r.lo <= r.mark /\ r.mark <= L /\ r.queue \subseteq 1..L
      /\ Cardinality(r.queue) <= MaxQueue
  BY DEF Good, Ledger
<1>2. /\ L \in Nat /\ MaxFrames \in Nat /\ r.lo \in Nat /\ r.mark \in Nat
      /\ r.queue \in SUBSET (1..MaxFrames)
  BY <1>1, Fields, RingTyped, Bounds
<1>3. /\ q \in Reader /\ q.at = "open" /\ q.frames = Stitched(r)
      /\ q.last = LastBoundary(r) /\ q.lo = 0 /\ q.queue \subseteq r.queue
      /\ r.live = "on" => q.queue = {}
      /\ q.live = r.live /\ q.ep = r.ep /\ q.turn = Any /\ q.mark = r.mark /\ ~q.submits /\ ~q.parked
      /\ ReplayEnd(r) \in r.mark..L /\ LastBoundary(r) \in r.lo..ReplayEnd(r)
      /\ Stitched(r) \in SUBSET (1..L)
  BY <1>0, FinishedRow
<1>4. Ring(q) = Ring(r)
  BY <1>3 DEF Ring, Here
<1>5. Ledger(q)
  <2>1. q.frames \subseteq 1..L /\ q.queue \subseteq 1..L
    BY <1>1, <1>3
  <2>. QED BY <1>1, <1>2, <1>3, <1>4, <2>1 DEF Ledger
<1>6. Cardinality(q.queue) <= MaxQueue
  <2>1. q.queue \in SUBSET r.queue /\ q.queue \in SUBSET (1..MaxFrames)
    BY <1>2, <1>3
  <2>2. Cardinality(q.queue) <= Cardinality(r.queue) /\ Cardinality(q.queue) \in Nat
        /\ Cardinality(r.queue) \in Nat
    BY <1>2, <2>1, Counting
  <2>. QED BY <1>1, <2>2, Bounds
<1>7. Hears(q)
  <2>. SUFFICES ASSUME Served(q) PROVE Hears(q)!2
    BY DEF Hears
  <2>1. q.queue = {} /\ Ring(r) = log /\ L = Len(log)
    BY <1>3, <1>4 DEF Served, Ring
  <2>. DEFINE ends == {n \in q.frames : Terminal(log[n])}
  <2>2. Horizon(q) = IF ends = {} THEN Len(log) ELSE Least(ends)
    BY DEF Horizon
  <2>3. ends \in SUBSET Nat /\ ends \subseteq 1..L
    BY <1>3
  <2>4. ReplayEnd(r) = L \/ ReplayEnd(r) \in ends
    <3>. SUFFICES ASSUME ReplayEnd(r) # L PROVE ReplayEnd(r) \in ends
      OBVIOUS
    <3>. QED BY <1>1, <1>3, <2>1, TerminalReplayed
  <2>5. Horizon(q) \in 0..ReplayEnd(r)
    <3>. HIDE DEF ends
    <3>1. ends # {} => Least(ends) \in 1..L /\ \A n \in ends : Least(ends) <= n
      BY <2>3, LeastIn
    <3>2. CASE ends = {}
      BY <1>2, <2>1, <2>2, <2>4, <3>2
    <3>3. CASE ends # {}
      <4>1. Horizon(q) \in 1..L /\ \A n \in ends : Horizon(q) <= n
        BY <2>2, <3>1, <3>3
      <4>. QED BY <1>2, <1>3, <2>4, <4>1
    <3>. QED BY <3>2, <3>3
  <2>6. \A n \in 1..Horizon(q) : n \in q.frames <=> q.last < n /\ Due(q, n)
    <3>. TAKE n \in 1..Horizon(q)
    <3>1. n \in 1..ReplayEnd(r)
      BY <1>2, <1>3, <2>5
    <3>2. Due(q, n) <=> (Terminal(log[n]) => n > r.mark)
      BY <1>3 DEF Due
    <3>3. n \in Stitched(r) <=> /\ LastBoundary(r) < n
                                /\ Terminal(log[n]) => n > r.mark
      BY <1>2, <1>3, <2>1, <3>1 DEF Stitched
    <3>. QED BY <1>3, <3>2, <3>3
  <2>. QED BY <1>3, <2>1, <2>6
<1>8. Good(q)
  BY <1>3, <1>5, <1>6, <1>7 DEF Good, Reading, Reserving
<1>. QED BY <1>0, <1>3, <1>8, IdleGood

-----------------------------------------------------------------------------
(* Readers that go on.                                                       *)

\* A submitter whose turn has a name keeps the frames of that turn.
LEMMA BoundGood ==
  ASSUME Typed, NEW r, Good(r), r.at = "reserved", NEW t \in Turns
  PROVE  Good([r EXCEPT !.at = "open", !.turn = t, !.queue = {n \in @ : Ring(r)[n].turn = t}])
<1>. DEFINE x == {n \in r.queue : Ring(r)[n].turn = t}
            q == [r EXCEPT !.at = "open", !.turn = t, !.queue = x]
<1>1. /\ r \in Reader /\ r.submits /\ ~r.parked /\ r.turn = Any /\ r.mark = 0 /\ r.frames = {}
      /\ r.live = "on" => r.queue = r.last+1..Len(Ring(r))
      /\ Cardinality(r.queue) <= MaxQueue
  BY DEF Good, Reserving
<1>2. x \subseteq r.queue /\ r.queue \in SUBSET (1..MaxFrames) /\ MaxFrames \in Nat
  BY <1>1, Fields, Bounds
<1>3. Cardinality(x) <= MaxQueue
  <2>1. Cardinality(x) <= Cardinality(r.queue) /\ Cardinality(r.queue) \in Nat /\ Cardinality(x) \in Nat
    <3>1. x \in SUBSET (1..MaxFrames)
      BY <1>2
    <3>. HIDE DEF x
    <3>. QED BY <1>2, <3>1, Counting
  <2>. QED BY <1>1, <2>1, Bounds
<1>4. \A n \in r.queue : n \in x <=> Ring(r)[n].turn = t
  OBVIOUS
<1>. HIDE DEF x
<1>5. /\ q \in Reader /\ q.at = "open" /\ q.turn = t /\ q.queue = x /\ q.submits /\ ~q.parked
      /\ q.mark = 0 /\ q.frames = {} /\ q.live = r.live /\ q.ep = r.ep /\ q.lo = r.lo
      /\ q.last = r.last
  <2>1. "open" \in Places /\ t \in Turns \cup {Any} /\ x \in SUBSET (1..MaxFrames)
    BY <1>2 DEF Places
  <2>2. q = [r EXCEPT !.at = "open", !.turn = t, !.queue = x]
    OBVIOUS
  <2>3. q \in Reader
    <3>1. r \in Reader
      BY <1>1
    <3>. HIDE DEF q
    <3>. QED BY <2>1, <2>2, <3>1 DEF Reader
  <2>4. /\ q.at = "open" /\ q.turn = t /\ q.queue = x /\ q.submits = r.submits
        /\ q.parked = r.parked /\ q.mark = r.mark /\ q.frames = r.frames /\ q.live = r.live
        /\ q.ep = r.ep /\ q.lo = r.lo /\ q.last = r.last
    <3>1. r \in Reader
      BY <1>1
    <3>. QED BY <2>2, <3>1 DEF Reader
  <2>. QED BY <1>1, <2>3, <2>4
<1>. HIDE DEF q
<1>6. Ring(q) = Ring(r)
  BY <1>5 DEF Ring, Here
<1>7. Ledger(q)
  BY <1>1, <1>2, <1>5, <1>6 DEF Good, Ledger
<1>8. Hears(q)
  <2>. SUFFICES ASSUME Served(q) PROVE Hears(q)!2
    BY DEF Hears
  <2>1. Ring(r) = log /\ r.queue = r.last+1..Len(log)
    BY <1>1, <1>5, <1>6 DEF Served, Ring
  <2>2. Horizon(q) = Len(log)
    BY <1>5 DEF Horizon
  <2>3. \A n \in 1..Len(log) : Due(q, n) <=> log[n].turn = t
    <3>1. t # Any
      BY Constants
    <3>2. Len(log) \in Nat /\ \A n \in 1..Len(log) : log[n].turn \in Turns
      BY Entries DEF Typed
    <3>. QED BY <1>5, <3>1, <3>2, Constants DEF Due
  <2>4. r.last \in Nat /\ Len(log) \in Nat
    BY <1>1, Fields, Entries DEF Typed
  <2>5. \A n \in 1..Len(log) : n \in x <=> r.last < n /\ log[n].turn = t
    BY <1>2, <1>4, <2>1, <2>4
  <2>. QED BY <1>5, <2>2, <2>3, <2>5
<1>9. Good(q)
  BY <1>3, <1>5, <1>7, <1>8 DEF Good, Reading, Reserving
<1>. QED BY <1>9 DEF q, x

\* A reservation that is complete is not served any more.
LEMMA CompletedGood ==
  ASSUME NEW r, Good(r), r.at = "open"
  PROVE  Good([r EXCEPT !.live = "done"])
<1>. DEFINE q == [r EXCEPT !.live = "done"]
<1>1. /\ q \in Reader /\ q.live = "done"
      /\ q.at = r.at /\ q.submits = r.submits /\ q.ep = r.ep /\ q.lo = r.lo /\ q.mark = r.mark
      /\ q.last = r.last /\ q.frames = r.frames /\ q.queue = r.queue
  BY DEF Good, Reader
<1>. HIDE DEF q
<1>2. Ring(q) = Ring(r)
  BY <1>1 DEF Ring, Here
<1>3. Ledger(q)
  BY <1>1, <1>2 DEF Good, Ledger
<1>4. Good(q)
  BY <1>1, <1>3 DEF Good, Reading, Reserving, Hears, Served
<1>. QED BY <1>4 DEF q

\* A reader shows what it read from the table.
LEMMA ShownGood ==
  ASSUME NEW r, Good(r), r.at = "open", ~r.parked, r.batch # Unread
  PROVE  Good([r EXCEPT !.view = r.batch, !.batch = Unread, !.sound = TRUE])
<1>. DEFINE q == [r EXCEPT !.view = r.batch, !.batch = Unread, !.sound = TRUE]
<1>1. r \in Reader /\ r.batch \in [Msgs -> 0..Quiet]
  BY Fields DEF Good
<1>2. /\ q \in Reader /\ ~q.parked
      /\ q.at = r.at /\ q.submits = r.submits /\ q.ep = r.ep /\ q.lo = r.lo /\ q.mark = r.mark
      /\ q.last = r.last /\ q.frames = r.frames /\ q.queue = r.queue /\ q.live = r.live
      /\ q.turn = r.turn /\ q.closing = r.closing
  BY <1>1 DEF Reader
<1>. HIDE DEF q
<1>3. Ring(q) = Ring(r)
  BY <1>2 DEF Ring, Here
<1>4. Ledger(q)
  BY <1>2, <1>3 DEF Good, Ledger
<1>5. Hears(q)
  <2>. SUFFICES ASSUME Served(q) PROVE Hears(q)!2
    BY DEF Hears
  <2>1. Served(r)
    BY <1>2 DEF Served, Here
  <2>2. Horizon(q) = Horizon(r) /\ \A n : Due(q, n) <=> Due(r, n)
    BY <1>2 DEF Horizon, Due
  <2>. QED BY <1>2, <2>1, <2>2 DEF Good, Hears
<1>6. Good(q)
  BY <1>2, <1>4, <1>5 DEF Good, Reading, Reserving
<1>. QED BY <1>6 DEF q

\* A reader that has nothing to read waits.
LEMMA ParkedGood ==
  ASSUME NEW r, Good(r), r.at = "open", r.batch = Unread, r.frames = {}, r.queue = {}
  PROVE  Good([r EXCEPT !.parked = TRUE])
<1>. DEFINE q == [r EXCEPT !.parked = TRUE]
<1>1. /\ q \in Reader /\ q.batch = Unread
      /\ q.at = r.at /\ q.submits = r.submits /\ q.ep = r.ep /\ q.lo = r.lo /\ q.mark = r.mark
      /\ q.last = r.last /\ q.frames = r.frames /\ q.queue = r.queue /\ q.live = r.live
      /\ q.turn = r.turn /\ q.closing = r.closing
  BY DEF Good, Reader
<1>. HIDE DEF q
<1>2. Ring(q) = Ring(r)
  BY <1>1 DEF Ring, Here
<1>3. Ledger(q)
  BY <1>1, <1>2 DEF Good, Ledger
<1>4. Hears(q)
  <2>. SUFFICES ASSUME Served(q) PROVE Hears(q)!2
    BY DEF Hears
  <2>1. Served(r)
    BY <1>1 DEF Served, Here
  <2>2. Horizon(q) = Horizon(r) /\ \A n : Due(q, n) <=> Due(r, n)
    BY <1>1 DEF Horizon, Due
  <2>. QED BY <1>1, <2>1, <2>2 DEF Good, Hears, Replaying
<1>5. Good(q)
  BY <1>1, <1>3, <1>4 DEF Good, Reading, Reserving
<1>. QED BY <1>5 DEF q

\* The next frame of the replay.
LEMMA ReplayedGood ==
  ASSUME Typed, NEW r, Good(r), r.at = "open", ~r.parked, r.frames # {},
         NEW n, n = Least(r.frames)
  PROVE  Good(Delivered([r EXCEPT !.frames = @ \ {n}], n, Ring(r)[n]))
<1>. DEFINE k == [r EXCEPT !.frames = @ \ {n}]
<1>. PICK q : q = Delivered(k, n, Ring(r)[n])
  OBVIOUS
<1>. PICK f : f = Ring(r)[n]
  OBVIOUS
<1>1. /\ r \in Reader /\ ~r.submits /\ r.frames \in SUBSET (1..MaxFrames)
      /\ r.frames \subseteq 1..Len(Ring(r)) /\ r.queue \subseteq 1..Len(Ring(r))
      /\ r.lo \in Nat /\ r.mark \in Nat /\ r.ep <= epoch /\ r.lo <= r.mark
      /\ r.mark <= Len(Ring(r)) /\ r.last <= Len(Ring(r))
  BY Fields DEF Good, Ledger
<1>2. n \in r.frames /\ \A i \in r.frames : n <= i
  <2>1. r.frames \in SUBSET Nat
    BY <1>1
  <2>. QED BY <2>1, LeastIn
<1>3. n \in 1..Len(Ring(r)) /\ n \in 0..MaxFrames /\ Len(Ring(r)) \in Nat
  BY <1>1, <1>2, RingTyped
<1>4. f \in Entry
  BY <1>1, <1>3, RingTyped
<1>5. /\ k \in Reader /\ k.frames = r.frames \ {n}
      /\ k.at = r.at /\ k.submits = r.submits /\ k.ep = r.ep /\ k.turn = r.turn
      /\ k.parked = r.parked /\ k.batch = r.batch /\ k.lo = r.lo /\ k.mark = r.mark
      /\ k.closing = r.closing /\ k.live = r.live /\ k.queue = r.queue
  BY <1>1 DEF Reader
<1>. HIDE DEF k
<1>6. Follows(q, k, n, f)
  BY <1>3, <1>4, <1>5, DeliveredRow
<1>7. /\ q \in Reader /\ q.last = n /\ ~q.parked /\ ~q.submits /\ q.at = "open"
      /\ q.ep = r.ep /\ q.turn = r.turn /\ q.lo = r.lo /\ q.mark = r.mark
      /\ q.queue \in {r.queue, {}} /\ q.frames \in {r.frames \ {n}, {}}
      /\ q.live = "on" => /\ r.live = "on" /\ ~Terminal(f) /\ q.closing = r.closing
                          /\ q.queue = r.queue /\ q.frames = r.frames \ {n}
  <2>1. CASE Terminal(f)
    BY <1>1, <1>5, <1>6, <2>1 DEF Follows
  <2>2. CASE ~Terminal(f)
    BY <1>1, <1>5, <1>6, <2>2 DEF Follows
  <2>. QED BY <2>1, <2>2
<1>8. Ring(q) = Ring(r)
  BY <1>7 DEF Ring, Here
<1>9. Ledger(q)
  <2>1. q.frames \subseteq 1..Len(Ring(r)) /\ q.queue \subseteq 1..Len(Ring(r))
    BY <1>1, <1>7
  <2>2. q.last <= Len(Ring(r)) /\ q.mark <= Len(Ring(r)) /\ q.lo <= q.mark /\ q.ep <= epoch
    BY <1>1, <1>3, <1>7
  <2>. QED BY <1>8, <2>1, <2>2 DEF Ledger
<1>10. Cardinality(q.queue) <= MaxQueue
  <2>1. Cardinality(r.queue) <= MaxQueue
    BY DEF Good
  <2>. QED BY <1>7, <2>1, NoFrames, Bounds
<1>11. Hears(q)
  <2>. SUFFICES ASSUME Served(q) PROVE Hears(q)!2
    BY DEF Hears
  <2>1. /\ Served(r) /\ ~Terminal(f) /\ Ring(r) = log
        /\ q.queue = r.queue /\ q.frames = r.frames \ {n}
    BY <1>7, <1>8 DEF Served, Here, Ring
  <2>2. f = log[n]
    BY <2>1
  <2>. DEFINE ends == {i \in r.frames : Terminal(log[i])}
  <2>3. {i \in q.frames : Terminal(log[i])} = ends
    BY <2>1, <2>2
  <2>4. /\ Horizon(r) = IF ends = {} THEN Len(log) ELSE Least(ends)
        /\ Horizon(q) = IF {i \in q.frames : Terminal(log[i])} = {} THEN Len(log)
                        ELSE Least({i \in q.frames : Terminal(log[i])})
    BY DEF Horizon
  <2>5. ends \in SUBSET Nat /\ \A i \in ends : n <= i /\ i <= Len(log)
    BY <1>1, <1>2, <2>1
  <2>6. Horizon(q) = Horizon(r)
    BY <2>3, <2>4
  <2>7. Horizon(r) \in Nat /\ n <= Horizon(r)
    <3>. HIDE DEF ends
    <3>1. ends # {} => Least(ends) \in Nat /\ n <= Least(ends)
      <4>1. ends # {} => Least(ends) \in ends
        BY <2>5, LeastIn
      <4>. QED BY <2>5, <4>1
    <3>. QED BY <1>3, <2>1, <2>4, <3>1
  <2>8. \A i : Due(q, i) <=> Due(r, i)
    BY <1>7 DEF Due
  <2>9. /\ \A i \in 1..Horizon(r) : i \in r.frames \cup r.queue <=> r.last < i /\ Due(r, i)
        /\ \A i \in r.frames, j \in r.queue : i < j
    BY <2>1 DEF Good, Hears
  <2>10. r.last < n
    BY <1>2, <1>3, <2>7, <2>9
  <2>11. \A i \in 1..Horizon(q) : i \in q.frames \cup q.queue <=> q.last < i /\ Due(q, i)
    <3>. TAKE i \in 1..Horizon(q)
    <3>0. i \in 1..Horizon(r) /\ i \in Nat /\ n \in Nat /\ r.last \in Nat
      BY <1>1, <1>3, <2>6, <2>7, Fields
    <3>1. CASE i <= n
      <4>1. i \notin q.queue
        BY <1>2, <2>1, <2>9, <3>0, <3>1
      <4>2. i \notin q.frames
        BY <1>2, <2>1, <3>0, <3>1
      <4>. QED BY <1>7, <3>0, <3>1, <4>1, <4>2
    <3>2. CASE ~(i <= n)
      <4>1. i \in q.frames \cup q.queue <=> i \in r.frames \cup r.queue
        BY <2>1, <3>0, <3>2
      <4>. QED BY <1>7, <2>8, <2>9, <2>10, <3>0, <3>2, <4>1
    <3>. QED BY <3>1, <3>2
  <2>. QED BY <1>7, <2>1, <2>9, <2>11
<1>12. Good(q)
  BY <1>7, <1>9, <1>10, <1>11 DEF Good, Reading, Reserving
<1>. QED BY <1>12 DEF k

\* The next frame of the subscription.
LEMMA PulledGood ==
  ASSUME Typed, NEW r, Good(r), r.at = "open", ~r.parked, r.frames = {}, r.queue # {},
         NEW n, n = Least(r.queue)
  PROVE  Good(Delivered([r EXCEPT !.queue = @ \ {n}], n, Ring(r)[n]))
<1>. DEFINE k == [r EXCEPT !.queue = @ \ {n}]
<1>. PICK q : q = Delivered(k, n, Ring(r)[n])
  OBVIOUS
<1>. PICK f : f = Ring(r)[n]
  OBVIOUS
<1>1. /\ r \in Reader /\ r.queue \in SUBSET (1..MaxFrames) /\ r.queue \subseteq 1..Len(Ring(r))
      /\ r.lo \in Nat /\ r.mark \in Nat /\ r.ep <= epoch /\ r.lo <= r.mark
      /\ r.mark <= Len(Ring(r)) /\ r.last <= Len(Ring(r)) /\ Cardinality(r.queue) <= MaxQueue
  BY Fields DEF Good, Ledger
<1>2. n \in r.queue /\ \A i \in r.queue : n <= i
  <2>1. r.queue \in SUBSET Nat
    BY <1>1
  <2>. QED BY <2>1, LeastIn
<1>3. n \in 1..Len(Ring(r)) /\ n \in 0..MaxFrames /\ Len(Ring(r)) \in Nat
  BY <1>1, <1>2, RingTyped
<1>4. f \in Entry
  BY <1>1, <1>3, RingTyped
<1>5. /\ k \in Reader /\ k.queue = r.queue \ {n} /\ k.frames = {}
      /\ k.at = r.at /\ k.submits = r.submits /\ k.ep = r.ep /\ k.turn = r.turn
      /\ k.parked = r.parked /\ k.batch = r.batch /\ k.lo = r.lo /\ k.mark = r.mark
      /\ k.closing = r.closing /\ k.live = r.live
  BY <1>1 DEF Reader
<1>. HIDE DEF k
<1>6. Follows(q, k, n, f)
  BY <1>3, <1>4, <1>5, DeliveredRow
<1>7. /\ q \in Reader /\ q.last = n /\ ~q.parked /\ q.submits = r.submits /\ q.at = "open"
      /\ q.ep = r.ep /\ q.turn = r.turn /\ q.lo = r.lo /\ q.mark = r.mark
      /\ q.queue \in {r.queue \ {n}, {}} /\ q.frames = {}
      /\ q.live = "on" => r.live = "on" /\ q.closing = r.closing /\ q.queue = r.queue \ {n}
  <2>1. CASE ~r.submits /\ Terminal(f)
    BY <1>5, <1>6, <2>1 DEF Follows
  <2>2. CASE r.submits \/ ~Terminal(f)
    BY <1>5, <1>6, <2>2 DEF Follows
  <2>. QED BY <2>1, <2>2
<1>8. Ring(q) = Ring(r)
  BY <1>7 DEF Ring, Here
<1>9. Ledger(q)
  <2>1. q.queue \subseteq 1..Len(Ring(r))
    BY <1>1, <1>7
  <2>2. q.last <= Len(Ring(r)) /\ q.mark <= Len(Ring(r)) /\ q.lo <= q.mark /\ q.ep <= epoch
    BY <1>1, <1>3, <1>7
  <2>. QED BY <1>7, <1>8, <2>1, <2>2 DEF Ledger
<1>10. Cardinality(q.queue) <= MaxQueue
  <2>1. q.queue \in SUBSET r.queue /\ q.queue \in SUBSET (1..MaxFrames)
    BY <1>1, <1>7
  <2>2. Cardinality(q.queue) <= Cardinality(r.queue) /\ Cardinality(q.queue) \in Nat
        /\ Cardinality(r.queue) \in Nat
    BY <1>1, <2>1, Counting, Bounds
  <2>. QED BY <1>1, <2>2, Bounds
<1>11. Hears(q)
  <2>. SUFFICES ASSUME Served(q) PROVE Hears(q)!2
    BY DEF Hears
  <2>1. Served(r) /\ Ring(r) = log /\ q.queue = r.queue \ {n}
    BY <1>7, <1>8 DEF Served, Here, Ring
  <2>2. Horizon(q) = Len(log) /\ Horizon(r) = Len(log)
    BY <1>7 DEF Horizon
  <2>3. \A i : Due(q, i) <=> Due(r, i)
    BY <1>7 DEF Due
  <2>4. \A i \in 1..Len(log) : i \in r.queue <=> r.last < i /\ Due(r, i)
    BY <2>1, <2>2 DEF Good, Hears
  <2>5. r.last < n
    BY <1>2, <1>3, <2>1, <2>4
  <2>6. \A i \in 1..Len(log) : i \in q.queue <=> q.last < i /\ Due(q, i)
    <3>. TAKE i \in 1..Len(log)
    <3>0. i \in Nat /\ n \in Nat /\ r.last \in Nat
      BY <1>1, <1>3, <2>1, Fields
    <3>1. CASE i <= n
      BY <1>2, <1>7, <2>1, <3>0, <3>1
    <3>2. CASE ~(i <= n)
      BY <1>7, <2>1, <2>3, <2>4, <2>5, <3>0, <3>2
    <3>. QED BY <3>1, <3>2
  <2>. QED BY <1>7, <2>2, <2>6
<1>12. Good(q)
  BY <1>7, <1>9, <1>10, <1>11 DEF Good, Reading, Reserving
<1>. QED BY <1>12 DEF k

-----------------------------------------------------------------------------
(* The ring.                                                                 *)

\* The group a frame names.
LEMMA NamedTyped ==
  ASSUME Typed, NEW f \in Frame
  PROVE  Named(f) \in Msgs \cup {None} /\ GroupOf(f) \in Msgs \cup {None}
<1>1. f.msgs \in SUBSET (0..MaxMsgs) /\ f.msgs \in SUBSET Msgs /\ MaxMsgs \in Nat
  BY Bounds DEF Frame, Msgs
<1>2. f.msgs # {} => Last(f.msgs) \in Msgs
  BY <1>1, LastIn
<1>3. active.group \in Msgs \cup {None}
  BY DEF Typed
<1>. QED BY <1>2, <1>3 DEF Named, GroupOf

\* A group that begins first among some groups of the ring.
LEMMA OldestIn ==
  ASSUME NEW l \in Seq(Entry), NEW p \in 0..Len(l), NEW c, Groups(l, p) \cap c # {}
  PROVE  Oldest(l, p, c) \in Groups(l, p) \cap c
<1>. DEFINE G == Groups(l, p) \cap c
            begin(g) == Least(Span(l, p, g))
            begins == {begin(g) : g \in G}
<1>1. ASSUME NEW g \in G PROVE begin(g) \in Nat
  <2>1. Span(l, p, g) \in SUBSET Nat /\ Span(l, p, g) # {}
    BY DEF Groups, Span
  <2>. QED BY <2>1, LeastIn
<1>2. begins \in SUBSET Nat /\ begins # {}
  BY <1>1
<1>3. PICK x \in begins : \A y \in begins : x <= y
  <2>. HIDE DEF begins
  <2>. QED BY <1>2, LeastIn
<1>4. PICK g \in G : begin(g) = x
  BY <1>3
<1>5. \A h \in G : begin(g) <= begin(h)
  BY <1>3, <1>4
<1>. HIDE DEF begin
<1>6. Oldest(l, p, c) = CHOOSE k \in G : \A h \in G : begin(k) <= begin(h)
  BY DEF Oldest, begin
<1>. HIDE DEF G
<1>. QED BY <1>5, <1>6 DEF G

\* A round of eviction in a ring that is too long evicts something.
LEMMA DropMoves ==
  ASSUME NEW l \in Seq(Entry), NEW p \in 0..Len(l), NEW c, Len(l) - p > MaxItems
  PROVE  NextDrop(l, p, c) # p
<1>. DEFINE complete == Groups(l, p) \cap c
<1>1. CASE complete = {}
  BY <1>1 DEF NextDrop
<1>2. CASE complete # {}
  <2>. DEFINE S == Span(l, p, Oldest(l, p, c))
  <2>1. Len(l) \in Nat /\ S \in SUBSET (0..Len(l)) /\ \A n \in S : n # p
    BY DEF Span
  <2>2. S # {}
    BY <1>2, OldestIn DEF Groups, Span
  <2>3. Last(S) \in S
    <3>. HIDE DEF S
    <3>. QED BY <2>1, <2>2, LastIn
  <2>4. NextDrop(l, p, c) = Last(S)
    BY <1>2 DEF NextDrop
  <2>. QED BY <2>1, <2>3, <2>4
<1>. QED BY <1>1, <1>2

\* What a frame is classified as.
LEMMA ClassTyped ==
  ASSUME Typed, NEW f \in Frame, Write(f)
  PROVE  /\ done \cup Completes(f) \subseteq Msgs /\ epoch' = epoch
         /\ active' \in [group : Msgs \cup {None}, turn : Turns \cup {Any}]
<1>1. active' = IF Named(f) = None THEN active ELSE [group |-> Named(f), turn |-> f.turn]
  BY DEF Write
<1>2. active' \in [group : Msgs \cup {None}, turn : Turns \cup {Any}]
  BY <1>1, NamedTyped DEF Typed, Frame
<1>. QED BY <1>2 DEF Typed, Completes, Write

\* A frame that enters the ring.
LEMMA EntersTyped ==
  ASSUME Typed, NEW f \in Frame, NEW c \in SUBSET Msgs, Enters(f, c), epoch' = epoch
  PROVE  /\ Appended(f)
         /\ log' \in Seq(Entry) /\ Len(log') <= MaxFrames /\ dropped' \in 0..Len(log')
         /\ Len(log') - dropped' <= MaxItems /\ done' \subseteq Msgs
         /\ readers' = [s \in Readers |-> Pushed(readers[s], Len(log'), f)]
<1>. DEFINE e == [kind |-> f.kind, msgs |-> f.msgs, ver |-> f.ver, turn |-> f.turn, group |-> GroupOf(f)]
            l == Append(log, e)
            next == [n \in 0..Len(l) |-> NextDrop(l, n, c)]
<1>1. e \in Entry /\ FrameIn(e) = f
  BY NamedTyped DEF Frame, Entry, FrameIn, FrameOf
<1>2. /\ Len(log) < MaxFrames /\ log' = l
      /\ readers' = [s \in Readers |-> Pushed(readers[s], Len(l), f)]
  BY DEF Enters
<1>3. PICK p \in dropped..Len(l) :
        /\ next[p] \in {p, Len(l)} /\ dropped' = next[p]
        /\ done' = {g \in c : g = active'.group \/ g \in Groups(l, p)}
  BY DEF Enters
<1>4. Appended(f)
  <2>. HIDE DEF e
  <2>. QED BY <1>1, <1>2 DEF Appended
<1>5. /\ log' \in Seq(Entry) /\ Len(log') = Len(log) + 1 /\ Len(log') <= MaxFrames
      /\ Len(log') \in Nat /\ l \in Seq(Entry) /\ Len(l) \in Nat
  BY <1>2, <1>4, AppendedLog, Bounds
<1>6. done' \subseteq Msgs
  BY <1>3
<1>7. dropped' \in 0..Len(log') /\ Len(log') - dropped' <= MaxItems
  <2>0. PICK d : d = next[p]
    OBVIOUS
  <2>. HIDE DEF l
  <2>1. p \in 0..Len(l) /\ d \in 0..Len(l) /\ d \in {p, Len(l)} /\ dropped' = d
    BY <1>3, <1>5, <2>0 DEF Typed
  <2>2. d = NextDrop(l, p, c)
    BY <2>0, <2>1
  <2>3. CASE d = Len(l)
    BY <1>2, <1>5, <2>1, <2>3, Bounds
  <2>4. CASE d = p
    <3>1. ~(Len(l) - p > MaxItems)
      BY <1>5, <2>1, <2>2, <2>4, DropMoves
    <3>. QED BY <1>2, <1>5, <2>1, <2>4, <3>1, Bounds
  <2>. QED BY <2>1, <2>3, <2>4
<1>. QED BY <1>2, <1>4, <1>5, <1>6, <1>7

-----------------------------------------------------------------------------
(* The steps.                                                                *)

LEMMA StreamInit == ASSUME Init PROVE StreamInv
<1>1. store \in [Msgs -> 0..Quiet] /\ gone \subseteq Msgs /\ owed \subseteq Frame
  <2>1. Quiet > 0
    BY Bounds
  <2>. QED BY <2>1, Bounds DEF Init
<1>2. log \in Seq(Entry) /\ Len(log) = 0 /\ dropped = 0 /\ done \subseteq Msgs /\ epoch = 0
  BY DEF Init
<1>3. active \in [group : Msgs \cup {None}, turn : Turns \cup {Any}]
  BY DEF Init
<1>4. Typed
  BY <1>1, <1>2, <1>3, Bounds DEF Typed
<1>5. \A s \in Readers : readers[s] = Fresh
  BY DEF Init
<1>6. readers \in [Readers -> Reader]
  BY FreshTyped DEF Init
<1>. QED BY <1>4, <1>5, <1>6, FreshGood DEF StreamInv

\* A step of one reader.
LEMMA OneReader ==
  ASSUME StreamInv, NEW s \in Readers, NEW q, Good(q), Set(s, q),
         UNCHANGED <<store, gone, owed, stream>>
  PROVE  StreamInv'
<1>1. q \in Reader
  BY DEF Good
<1>2. readers' \in [Readers -> Reader]
  BY <1>1 DEF StreamInv, Set
<1>3. Typed'
  BY DEF StreamInv, Typed, stream
<1>4. ASSUME NEW o \in Readers PROVE Good(readers[o])'
  <2>1. UNCHANGED <<log, epoch>>
    BY DEF stream
  <2>2. Good(readers[o]) /\ readers \in [Readers -> Reader]
    BY DEF StreamInv
  <2>3. PICK x : x = readers'[o]
    OBVIOUS
  <2>4. Good(x)
    BY <2>2, <2>3 DEF Set
  <2>5. Good(x)'
    BY <2>1, <2>4, StreamKept
  <2>. QED BY <2>3, <2>5 DEF Good, Ledger, Reading, Reserving, Hears, Served, Here, Ring, Horizon, Due, Replaying
<1>. QED BY <1>2, <1>3, <1>4 DEF StreamInv

\* Nobody reads: the groups and the table may change.
LEMMA NobodyReads ==
  ASSUME StreamInv, UNCHANGED <<log, epoch, readers>>, Typed'
  PROVE  StreamInv'
<1>1. ASSUME NEW o \in Readers PROVE Good(readers[o])'
  <2>1. PICK x : x = readers[o]
    OBVIOUS
  <2>2. Good(x)'
    BY <2>1, StreamKept DEF StreamInv
  <2>3. readers'[o] = x
    BY <2>1
  <2>. QED BY <2>2, <2>3 DEF Good, Ledger, Reading, Reserving, Hears, Served, Here, Ring, Horizon, Due, Replaying
<1>. QED BY <1>1 DEF StreamInv

\* A frame that is written.
LEMMA WriteKeeps ==
  ASSUME StreamInv, NEW f \in Frame, Write(f),
         store' \in [Msgs -> 0..Quiet], gone' \subseteq Msgs, owed' \subseteq Frame
  PROVE  StreamInv'
<1>1. Typed /\ readers \in [Readers -> Reader] /\ \A s \in Readers : Good(readers[s])
  BY DEF StreamInv
<1>2. /\ done \cup Completes(f) \in SUBSET Msgs /\ epoch' = epoch
      /\ active' \in [group : Msgs \cup {None}, turn : Turns \cup {Any}]
  BY <1>1, ClassTyped
<1>3. CASE Duplicate(f)
  <2>1. done' = done \cup Completes(f) /\ UNCHANGED <<log, dropped, epoch, readers>>
    BY <1>2, <1>3 DEF Write
  <2>2. Typed'
    BY <1>1, <1>2, <2>1 DEF Typed
  <2>. QED BY <2>1, <2>2, NobodyReads
<1>4. CASE ~Duplicate(f)
  <2>1. Enters(f, done \cup Completes(f))
    BY <1>4 DEF Write
  <2>2. /\ Appended(f) /\ readers' = [s \in Readers |-> Pushed(readers[s], Len(log'), f)]
        /\ log' \in Seq(Entry) /\ Len(log') <= MaxFrames /\ dropped' \in 0..Len(log')
        /\ Len(log') - dropped' <= MaxItems /\ done' \subseteq Msgs
    BY <1>1, <1>2, <2>1, EntersTyped
  <2>3. Typed'
    BY <1>1, <1>2, <2>2 DEF Typed
  <2>4. ASSUME NEW s \in Readers PROVE Good(readers[s])' /\ readers'[s] \in Reader
    <3>1. PICK q : q = Pushed(readers[s], Len(log'), f)
      OBVIOUS
    <3>2. PICK r : r = readers[s]
      OBVIOUS
    <3>3. PICK N : N = Len(log')
      OBVIOUS
    <3>4. Good(q)'
      BY <1>1, <2>2, <3>1, <3>2, <3>3, PushedGood
    <3>5. readers'[s] = q
      BY <2>2, <3>1
    <3>. QED BY <3>4, <3>5 DEF Good, Ledger, Reading, Reserving, Hears, Served, Here, Ring, Horizon, Due, Replaying
  <2>5. readers' \in [Readers -> Reader]
    BY <2>2, <2>4
  <2>. QED BY <2>3, <2>4, <2>5 DEF StreamInv
<1>. QED BY <1>3, <1>4

\* The end of a state that everybody leaves.
LEMMA NewStateKeeps ==
  ASSUME StreamInv, NewState,
         store' \in [Msgs -> 0..Quiet], gone' \subseteq Msgs, owed' \subseteq Frame
  PROVE  StreamInv'
<1>1. Typed'
  <2>1. log' \in Seq(Entry) /\ Len(log') = 0 /\ dropped' = 0 /\ done' \subseteq Msgs
        /\ active' \in [group : Msgs \cup {None}, turn : Turns \cup {Any}]
    BY DEF NewState
  <2>2. epoch' \in 0..MaxEpochs
    BY Bounds DEF StreamInv, Typed, NewState
  <2>. QED BY <2>1, <2>2, Bounds DEF Typed
<1>2. readers' = [s \in Readers |-> Fresh]
  BY DEF NewState
<1>3. Good(Fresh)'
  BY <1>1, FreshGood, PTL
<1>4. \A s \in Readers : readers'[s] = Fresh
  BY <1>2
<1>5. readers' \in [Readers -> Reader]
  BY <1>2, FreshTyped
<1>6. ASSUME NEW s \in Readers PROVE Good(readers[s])'
  BY <1>3, <1>4 DEF Good, Ledger, Reading, Reserving, Hears, Served, Here, Ring, Horizon, Due, Replaying
<1>. QED BY <1>1, <1>5, <1>6 DEF StreamInv

\* The frames that the writers write.
LEMMA WrittenKeeps == ASSUME StreamInv, Written PROVE StreamInv'
<1>1. Typed /\ store \in [Msgs -> 0..Quiet] /\ gone \subseteq Msgs /\ owed \subseteq Frame
      /\ log \in Seq(Entry)
  BY DEF StreamInv, Typed
<1>2. ASSUME NEW m \in Msgs, NEW kind \in {"message", "commit"}, Changed(kind, m) PROVE StreamInv'
  <2>1. Latest(m) + 1 \in 0..MaxVersion
    BY <1>1, <1>2, Versioned, Bounds DEF Changed
  <2>2. store' \in [Msgs -> 0..Quiet]
    BY <1>1, <1>2, <2>1, Bounds DEF Changed
  <2>3. FrameOf(kind, {m}, Latest(m) + 1, TurnOf[m]) \in Frame
    BY <2>1, Constants DEF FrameOf, Frame, Kinds
  <2>4. owed' \subseteq Frame /\ gone' \subseteq Msgs
    BY <1>1, <1>2, <2>3 DEF Changed
  <2>5. UNCHANGED <<log, dropped, done, active, epoch, readers>>
    BY <1>2 DEF Changed, stream
  <2>6. Typed'
    BY <1>1, <2>2, <2>4, <2>5 DEF Typed
  <2>. QED BY <2>5, <2>6, NobodyReads
<1>8. ASSUME NEW m \in Msgs, Answer(m) \/ Commit(m) PROVE StreamInv'
  BY <1>2, <1>8 DEF Answer, Commit
<1>9. ASSUME store' \in [Msgs -> 0..Quiet], UNCHANGED <<gone, owed, stream, readers>>
      PROVE  StreamInv'
  <2>1. UNCHANGED <<log, dropped, done, active, epoch, readers>>
    BY <1>9 DEF stream
  <2>2. Typed'
    BY <1>1, <1>9, <2>1 DEF Typed
  <2>. QED BY <2>1, <2>2, NobodyReads
<1>10. ASSUME NEW m \in Msgs, Repair(m) PROVE StreamInv'
  BY <1>1, <1>9, <1>10, Bounds DEF Repair
<1>11. ASSUME NEW t \in Turns, NEW S \in SUBSET Msgs, Anchor(t, S) PROVE StreamInv'
  BY <1>1, <1>9, <1>11, Bounds DEF Anchor
<1>12. ASSUME NEW m \in Msgs, Fail(m) PROVE StreamInv'
  <2>1. FrameOf("error", {m}, 0, TurnOf[m]) \in Frame
    BY Constants, Bounds DEF FrameOf, Frame, Kinds
  <2>2. gone' \subseteq Msgs /\ store' = store /\ owed' = owed
    BY <1>1, <1>12 DEF Fail
  <2>. QED BY <1>1, <1>12, <2>1, <2>2, WriteKeeps DEF Fail
<1>3. ASSUME NEW t \in Turns, NEW S \in SUBSET Msgs, Rewind(t, S) PROVE StreamInv'
  <2>1. store' \in [Msgs -> 0..Quiet] /\ gone' \subseteq Msgs
    BY <1>1, <1>3, Bounds DEF Rewind
  <2>2. FrameOf("rewound", S, 0, t) \in Frame
    BY Bounds DEF FrameOf, Frame, Kinds
  <2>3. owed' \subseteq Frame
    BY <1>1, <1>3, <2>2 DEF Rewind
  <2>4. UNCHANGED <<log, dropped, done, active, epoch, readers>>
    BY <1>3 DEF Rewind, stream
  <2>5. Typed'
    BY <1>1, <2>1, <2>3, <2>4 DEF Typed
  <2>. QED BY <2>4, <2>5, NobodyReads
<1>4. ASSUME NEW f \in owed, Announce(f) PROVE StreamInv'
  <2>1. f \in Frame /\ owed' \subseteq Frame /\ store' = store /\ gone' = gone
    BY <1>1, <1>4 DEF Announce
  <2>. QED BY <1>1, <1>4, <2>1, WriteKeeps DEF Announce
<1>5. ASSUME NEW m \in Msgs, Stream(m) PROVE StreamInv'
  <2>1. \A piece \in {"chunk", "finish"} : FrameOf(piece, {m}, 0, TurnOf[m]) \in Frame
    BY Constants, Bounds DEF FrameOf, Frame, Kinds
  <2>. QED BY <1>1, <1>5, <2>1, WriteKeeps DEF Stream
<1>6. ASSUME NEW t \in Turns, EndTurn(t) PROVE StreamInv'
  <2>1. FrameOf("terminal", {}, 0, t) \in Frame
    BY Bounds DEF FrameOf, Frame, Kinds
  <2>. QED BY <1>1, <1>6, <2>1, WriteKeeps DEF EndTurn
<1>7. ASSUME WriteAgain PROVE StreamInv'
  <2>1. FrameIn(log[Len(log)]) \in Frame
    BY <1>1, <1>7, Entries DEF WriteAgain
  <2>. QED BY <1>1, <1>7, <2>1, WriteKeeps DEF WriteAgain
<1>. QED BY <1>3, <1>4, <1>5, <1>6, <1>7, <1>8, <1>10, <1>11, <1>12 DEF Written

\* A reader that resumes.
LEMMA ResumedKeeps == ASSUME StreamInv, NEW s \in Readers, Resumed(s) PROVE StreamInv'
<1>1. Typed /\ Good(Fresh) /\ Good(readers[s])
  BY FreshGood DEF StreamInv
<1>2. ASSUME NEW w \in BOOLEAN, ResumeLive(s, w) PROVE StreamInv'
  BY <1>1, <1>2, LiveGood, OneReader DEF ResumeLive
<1>3. ASSUME NEW w \in BOOLEAN, NEW m \in Msgs, ResumeAfterMessage(s, m, w) PROVE StreamInv'
  <2>1. CASE store[m] = 0
    BY <1>1, <1>3, <2>1, OneReader DEF ResumeAfterMessage
  <2>2. CASE store[m] # 0
    BY <1>1, <1>3, <2>2, MessageGood, OneReader DEF ResumeAfterMessage
  <2>. QED BY <2>1, <2>2
<1>4. ASSUME NEW w \in BOOLEAN, NEW e \in 0..epoch, NEW n \in Cursors, ResumeAfterCursor(s, e, n, w)
      PROVE  StreamInv'
  <2>1. CASE e # epoch \/ n \notin dropped..Len(log)
    BY <1>1, <1>4, <2>1, OneReader DEF ResumeAfterCursor
  <2>2. CASE ~(e # epoch \/ n \notin dropped..Len(log))
    BY <1>1, <1>4, <2>2, CursorGood, OneReader DEF ResumeAfterCursor
  <2>. QED BY <2>1, <2>2
<1>5. ASSUME FinishReplay(s) PROVE StreamInv'
  <2>. DEFINE r == readers[s]
              q == Idle(Opened(r))
  <2>1. r.at = "read" /\ Set(s, IF Here(r) /\ r.mark < dropped THEN Fresh ELSE q)
        /\ UNCHANGED <<store, gone, owed, stream>>
    BY <1>5 DEF FinishReplay, Opened
  <2>2. Good(q)
    <3>. HIDE DEF r
    <3>. QED BY <1>1, <2>1, FinishGood DEF r
  <2>. HIDE DEF q
  <2>3. CASE Here(r) /\ r.mark < dropped
    BY <1>1, <2>1, <2>3, OneReader
  <2>4. CASE ~(Here(r) /\ r.mark < dropped)
    BY <2>1, <2>2, <2>4, OneReader
  <2>. QED BY <2>3, <2>4
<1>. QED BY <1>2, <1>3, <1>4, <1>5 DEF Resumed

\* A reader that submits.
LEMMA ReservedKeeps == ASSUME StreamInv, NEW s \in Readers, Reserved(s) PROVE StreamInv'
<1>1. Typed /\ Good(Fresh) /\ Good(readers[s])
  BY FreshGood DEF StreamInv
<1>2. ASSUME Reserve(s) PROVE StreamInv'
  BY <1>1, <1>2, ReservedGood, OneReader DEF Reserve
<1>3. ASSUME NEW t \in Turns, BindTurn(s, t) PROVE StreamInv'
  BY <1>1, <1>3, BoundGood, OneReader DEF BindTurn
<1>4. ASSUME Complete(s) PROVE StreamInv'
  BY <1>1, <1>4, CompletedGood, OneReader DEF Complete
<1>5. ASSUME Discard(s) PROVE StreamInv'
  <2>1. CASE UNCHANGED stream
    BY <1>1, <1>5, <2>1, OneReader DEF Discard
  <2>2. CASE log = <<>> /\ epoch < MaxEpochs /\ epoch' = epoch + 1 /\ UNCHANGED <<log, dropped, done, active>>
    <3>1. /\ readers \in [Readers -> Reader] /\ readers' = [readers EXCEPT ![s] = Fresh]
          /\ UNCHANGED <<store, gone, owed>>
      BY <1>5 DEF Discard, Set, StreamInv
    <3>2. Typed'
      BY <1>1, <2>2, <3>1, Bounds DEF Typed
    <3>3. readers' \in [Readers -> Reader]
      BY <3>1, FreshTyped
    <3>4. ASSUME NEW o \in Readers PROVE Good(readers[o])'
      <4>1. PICK x : x = readers'[o]
        OBVIOUS
      <4>2. Good(x)
        BY <1>1, <3>1, <4>1 DEF StreamInv
      <4>3. Good(x)'
        BY <1>1, <2>2, <4>2, StateDropped
      <4>. QED BY <4>1, <4>3 DEF Good, Ledger, Reading, Reserving, Hears, Served, Here, Ring, Horizon, Due, Replaying
    <3>. QED BY <3>2, <3>3, <3>4 DEF StreamInv
  <2>. QED BY <1>5, <2>1, <2>2 DEF Discard
<1>. QED BY <1>2, <1>3, <1>4, <1>5 DEF Reserved

\* A reader that reads.
LEMMA TakeKeeps == ASSUME StreamInv, NEW s \in Readers, Take(s) PROVE StreamInv'
<1>. DEFINE r == readers[s]
<1>0. Typed /\ Good(Fresh) /\ Good(r)
  BY FreshGood DEF StreamInv
<1>1. r.at = "open" /\ ~r.parked /\ UNCHANGED <<store, gone, owed, stream>>
  BY DEF Take
<1>2. CASE r.batch # Unread
  <2>1. Set(s, [r EXCEPT !.view = r.batch, !.batch = Unread, !.sound = TRUE])
    BY <1>2 DEF Take
  <2>. QED BY <1>0, <1>1, <1>2, <2>1, ShownGood, OneReader
<1>3. CASE r.batch = Unread /\ r.frames # {}
  <2>1. PICK n : n = Least(r.frames)
    OBVIOUS
  <2>2. Set(s, Delivered([r EXCEPT !.frames = @ \ {n}], n, Ring(r)[n]))
    BY <1>3, <2>1 DEF Take
  <2>. QED BY <1>0, <1>1, <1>3, <2>1, <2>2, ReplayedGood, OneReader
<1>4. CASE r.batch = Unread /\ r.frames = {} /\ ~(r.closing \/ r.live = "lost") /\ r.queue # {}
  <2>1. PICK n : n = Least(r.queue)
    OBVIOUS
  <2>2. Set(s, Delivered([r EXCEPT !.queue = @ \ {n}], n, Ring(r)[n]))
    BY <1>4, <2>1 DEF Take
  <2>. QED BY <1>0, <1>1, <1>4, <2>1, <2>2, PulledGood, OneReader
<1>5. CASE r.batch = Unread /\ r.frames = {} /\ ~(r.closing \/ r.live = "lost") /\ r.queue = {}
           /\ r.live = "on"
  <2>1. Set(s, [r EXCEPT !.parked = TRUE])
    BY <1>5 DEF Take
  <2>. QED BY <1>0, <1>1, <1>5, <2>1, ParkedGood, OneReader
<1>6. CASE r.batch = Unread /\ r.frames = {}
           /\ (r.closing \/ r.live = "lost" \/ (r.queue = {} /\ r.live # "on"))
  <2>1. Set(s, Fresh)
    BY <1>6 DEF Take
  <2>. QED BY <1>0, <1>1, <2>1, OneReader
<1>. QED BY <1>2, <1>3, <1>4, <1>5, <1>6

LEMMA StreamStep == ASSUME StreamInv, [Next]_vars PROVE StreamInv'
<1>1. Typed /\ Good(Fresh) /\ store \in [Msgs -> 0..Quiet] /\ gone \subseteq Msgs
  BY FreshGood DEF StreamInv, Typed
<1>2. ASSUME NEW s \in Readers, Leave(s) PROVE StreamInv'
  BY <1>1, <1>2, OneReader DEF Leave
<1>3. CASE DeleteSession
  <2>1. Nothing \in [Msgs -> 0..Quiet]
    BY Bounds DEF Nothing
  <2>. QED BY <1>3, <2>1, NewStateKeeps DEF DeleteSession
<1>4. CASE Restart
  BY <1>1, <1>4, NewStateKeeps DEF Restart
<1>5. CASE UNCHANGED vars
  <2>1. UNCHANGED <<log, epoch, readers>>
    BY <1>5 DEF vars
  <2>2. Typed'
    BY <1>1, <1>5 DEF Typed, vars
  <2>. QED BY <2>1, <2>2, NobodyReads
<1>. QED BY <1>2, <1>3, <1>4, <1>5, WrittenKeeps, ResumedKeeps, ReservedKeeps, TakeKeeps DEF Next

\* The inductive invariant: the ring and the readers keep their types, and each
\* reader holds what it is due.
THEOREM StreamCorrect == Spec => []StreamInv
<1>1. Init => StreamInv
  BY StreamInit
<1>2. StreamInv /\ [Next]_vars => StreamInv'
  BY StreamStep
<1>. QED BY <1>1, <1>2, PTL DEF Spec

\* TypesAndLimits: the ring keeps at most MaxItems frames and a subscription at most
\* MaxQueue, however the eviction goes and whoever reads.
THEOREM RingAndQueuesBounded == Spec => []TypesAndLimits
<1>1. StreamInv => TypesAndLimits
  BY DEF StreamInv, Typed, Good, TypesAndLimits
<1>. QED BY <1>1, StreamCorrect, PTL

\* NothingMissed: between replay and subscription no frame is lost and none comes
\* twice, for any ring, any queue and any number of readers.
THEOREM NoFrameMissed == Spec => []NothingMissed
<1>1. StreamInv => NothingMissed
  BY DEF StreamInv, Good, Hears, NothingMissed
<1>. QED BY <1>1, StreamCorrect, PTL

-----------------------------------------------------------------------------
(* What a reader shows.                                                      *)

\* A frame that says what became of a message, and a message whose last change is
\* not written yet.
Word(n, m) == m \in log[n].msgs /\ Tells(log[n])
Owing(m) == \E f \in owed : m \in f.msgs

\* Which messages the frames of each kind are about.
Says(f) ==
  /\ f.kind = "rewound" => f.msgs \subseteq gone /\ f.ver = 0
  /\ f.kind = "commit" => f.msgs \cap Answers = {}
  /\ f.kind = "message" => f.msgs \subseteq Answers
  /\ f.kind = "terminal" => f.msgs = {}

\* A frame that is owed says what the table has, of messages no other frame that is
\* owed is about, and it has not been written before.
OwedInv ==
  /\ \A f \in owed : /\ f.msgs # {} /\ f.kind \in {"message", "commit", "rewound"}
                     /\ Says(f) /\ \A m \in f.msgs : f.ver = store[m]
  /\ \A f, g \in owed : f # g => f.msgs \cap g.msgs = {}
  /\ \A f \in owed, n \in 1..Len(log) : FrameIn(log[n]) # f

\* The last word on a message is what the table has, unless another one is owed.
LogInv ==
  /\ \A m \in gone : store[m] = 0
  /\ \A n \in 1..Len(log) : Says(log[n])
  /\ \A m \in Msgs, n \in 1..Len(log) : Word(n, m) /\ m \notin gone => log[n].ver <= Latest(m)
  /\ \A m \in Msgs, n \in 1..Len(log) :
       ~Owing(m) /\ Word(n, m) /\ (\A k \in n+1..Len(log) : ~Word(k, m))
         => Agrees(log[n].ver, store[m])

\* A change that leaves what agreed with a row.
Keeps(m) == \A v : Agrees(v, store[m]) => Agrees(v, store'[m])

LEMMA Agreeing == \A v : Agrees(v, v)
BY DEF Agrees

\* What a reader knows of the table, once it has read it, is what the table has, but
\* for the words it has not seen and those that are owed.
Trusts(r) == r.sound \/ r.batch # Unread
Shown(r) == IF r.batch # Unread THEN r.batch ELSE r.view
UpTo(n, m) == \A k \in 1..Len(log) : Word(k, m) => k <= n
Shows(r) ==
  \A m \in Msgs : m > r.anchor /\ ~Owing(m) /\ UpTo(r.last, m) => Agrees(Shown(r)[m], store[m])
Current(r) ==
  /\ Trusts(r) => ~r.submits /\ r.turn = Any
  /\ r.at = "read" =>
       r.batch # Unread /\ \A m \in Msgs : m > r.anchor /\ ~Owing(m) => Agrees(r.batch[m], store[m])
  /\ Served(r) /\ Trusts(r) /\ (\A n \in r.frames : ~Terminal(log[n])) => Shows(r)

TableInv == OwedInv /\ LogInv
ViewInv == \A s \in Readers : Current(readers[s])

\* A word on a message and what it says stay when a frame follows.
LEMMA WordsStay ==
  ASSUME Typed, NEW f \in Frame, Appended(f), NEW N, N = Len(log')
  PROVE  /\ Len(log) \in Nat /\ N = Len(log) + 1 /\ N \in 1..MaxFrames
         /\ FrameIn(log'[N]) = f /\ log'[N].ver = f.ver /\ log'[N].msgs = f.msgs
         /\ log'[N].kind = f.kind /\ log'[N].turn = f.turn
         /\ \A n \in 1..Len(log) : log'[n] = log[n] /\ n \in 1..N
         /\ \A n \in 1..N : n \in 1..Len(log) \/ n = N
         /\ \A m : \A n \in 1..Len(log) : Word(n, m)' <=> Word(n, m)
         /\ \A m : Word(N, m)' <=> m \in f.msgs /\ Tells(f)
<1>1. PICK e \in Entry : log' = Append(log, e) /\ FrameIn(e) = f
  BY DEF Appended
<1>2. e.kind = f.kind /\ e.turn = f.turn /\ e.msgs = f.msgs /\ e.ver = f.ver
  BY <1>1 DEF FrameIn, FrameOf, Frame
<1>3. /\ Len(log) \in Nat /\ N = Len(log) + 1 /\ log'[N] = e /\ N \in 1..MaxFrames
      /\ \A n \in 1..Len(log) : log'[n] = log[n]
  BY <1>1, Bounds DEF Typed, Appended
<1>4. /\ \A n \in 1..Len(log) : n \in 1..N
      /\ \A n \in 1..N : n \in 1..Len(log) \/ n = N
  BY <1>3
<1>5. \A m : \A n \in 1..Len(log) : Word(n, m)' <=> Word(n, m)
  BY <1>3 DEF Word
<1>6. \A m : Word(N, m)' <=> m \in f.msgs /\ Tells(f)
  BY <1>2, <1>3 DEF Word, Tells
<1>. QED BY <1>1, <1>2, <1>3, <1>4, <1>5, <1>6

\* A change of the table that is stored: its frame is owed.
LEMMA ChangeStored ==
  ASSUME Typed, TableInv, NEW f \in Frame, owed' = owed \cup {f}, log' = log,
         f.msgs # {}, f.kind \in {"message", "commit", "rewound"}, Says(f)', Settled(f.msgs),
         \A n \in 1..Len(log) : FrameIn(log[n]) # f,
         gone \subseteq gone', \A m \in gone' : store'[m] = 0,
         \A m \in Msgs : m \notin gone' => Latest(m) <= Latest(m)',
         \A m \in Msgs : store'[m] = IF m \in f.msgs THEN f.ver ELSE store[m]
  PROVE  /\ TableInv'
         /\ \A m \in Msgs : ~Owing(m)' => ~Owing(m) /\ Keeps(m)
<1>1. /\ owed \subseteq Frame /\ f.msgs \subseteq Msgs
      /\ \A g \in owed : g.msgs \subseteq Msgs /\ g.msgs \cap f.msgs = {}
  BY DEF Typed, Frame, Settled
<1>2. \A m \in Msgs : ~Owing(m)' => ~Owing(m) /\ store'[m] = store[m]
  BY DEF Owing
<1>3. ASSUME NEW g, Says(g) PROVE Says(g)'
  BY <1>3 DEF Says
<1>4. ASSUME NEW g \in owed'
      PROVE  /\ g.msgs # {} /\ g.kind \in {"message", "commit", "rewound"}
             /\ Says(g)' /\ \A m \in g.msgs : g.ver = store'[m]
  <2>1. CASE g = f
    BY <1>1, <2>1
  <2>2. CASE g # f
    <3>1. g \in owed
      BY <2>2
    <3>2. g.msgs # {} /\ g.kind \in {"message", "commit", "rewound"} /\ Says(g)
          /\ \A m \in g.msgs : g.ver = store[m]
      BY <3>1 DEF TableInv, OwedInv
    <3>3. \A m \in g.msgs : store'[m] = store[m]
      BY <1>1, <3>1
    <3>. QED BY <1>3, <3>2, <3>3
  <2>. QED BY <2>1, <2>2
<1>5. \A g, h \in owed' : g # h => g.msgs \cap h.msgs = {}
  BY <1>1 DEF TableInv, OwedInv
<1>6. \A g \in owed', n \in 1..Len(log') : FrameIn(log'[n]) # g
  BY DEF TableInv, OwedInv
<1>7. OwedInv'
  <2>1. /\ \A g \in owed' : /\ g.msgs # {} /\ g.kind \in {"message", "commit", "rewound"}
                            /\ Says(g)' /\ \A m \in g.msgs : g.ver = store'[m]
        /\ \A g, h \in owed' : g # h => g.msgs \cap h.msgs = {}
        /\ \A g \in owed', n \in 1..Len(log') : FrameIn(log'[n]) # g
    BY <1>4, <1>5, <1>6
  <2>. QED BY <2>1 DEF OwedInv, Says, FrameIn, FrameOf
<1>8. LogInv'
  <2>1. \A n \in 1..Len(log') : Says(log[n])'
    <3>. TAKE n \in 1..Len(log')
    <3>1. PICK g : g = log[n]
      OBVIOUS
    <3>2. Says(g)'
      BY <1>3, <3>1 DEF TableInv, LogInv
    <3>. QED BY <3>1, <3>2 DEF Says
  <2>2. \A m, n : Word(n, m)' <=> Word(n, m)
    BY DEF Word
  <2>3. \A m \in Msgs, n \in 1..Len(log') : Word(n, m)' /\ m \notin gone' => log'[n].ver <= Latest(m)'
    <3>. SUFFICES ASSUME NEW m \in Msgs, NEW n \in 1..Len(log), Word(n, m), m \notin gone'
                  PROVE  log[n].ver <= Latest(m)'
      BY <2>2
    <3>1. log[n].ver <= Latest(m) /\ Latest(m) <= Latest(m)' /\ m \notin gone
      BY DEF TableInv, LogInv
    <3>2. log[n].ver \in Nat /\ Latest(m) \in Nat /\ Latest(m)' \in Nat
      <4>1. f.ver \in Nat /\ store[m] \in Nat /\ Versions[m] \in Nat \ {0}
        BY Constants, Bounds DEF Frame, Typed
      <4>2. store'[m] \in Nat
        BY <4>1
      <4>3. Latest(m) \in Nat /\ Latest(m)' \in Nat
        BY <4>1, <4>2 DEF Latest
      <4>. QED BY <4>3, Entries, Bounds DEF Typed
    <3>. QED BY <3>1, <3>2
  <2>4. \A m \in Msgs, n \in 1..Len(log') :
          ~Owing(m)' /\ Word(n, m)' /\ (\A k \in n+1..Len(log') : ~Word(k, m)')
            => Agrees(log'[n].ver, store'[m])
    BY <1>2, <2>2 DEF TableInv, LogInv
  <2>. QED BY <2>1, <2>3, <2>4 DEF LogInv
<1>. QED BY <1>2, <1>7, <1>8 DEF TableInv, Keeps

\* A frame that enters the log.  Unless another word is owed, it says what the table has.
LEMMA FrameLogged ==
  ASSUME Typed, TableInv, NEW f \in Frame, Appended(f), Says(f)', store' = store,
         gone \subseteq gone', \A m \in gone' : store[m] = 0,
         owed' \subseteq owed, f \notin owed',
         \A m \in f.msgs : Tells(f) /\ m \notin gone => f.ver <= Latest(m),
         \A m \in f.msgs : Tells(f) /\ ~Owing(m)' => Agrees(f.ver, store[m]),
         \A m \in Msgs : ~Owing(m)' /\ Owing(m) => m \in f.msgs /\ Tells(f)
  PROVE  TableInv'
<1>1. PICK N : N = Len(log')
  OBVIOUS
<1>2. /\ Len(log) \in Nat /\ N = Len(log) + 1 /\ N \in 1..MaxFrames
      /\ FrameIn(log'[N]) = f /\ log'[N].ver = f.ver /\ log'[N].msgs = f.msgs
      /\ log'[N].kind = f.kind
      /\ \A n \in 1..Len(log) : log'[n] = log[n] /\ n \in 1..N
      /\ \A n \in 1..N : n \in 1..Len(log) \/ n = N
      /\ \A m : \A n \in 1..Len(log) : Word(n, m)' <=> Word(n, m)
      /\ \A m : Word(N, m)' <=> m \in f.msgs /\ Tells(f)
  BY <1>1, WordsStay
<1>3. OwedInv'
  <2>1. \A g \in owed' : /\ g.msgs # {} /\ g.kind \in {"message", "commit", "rewound"}
                         /\ Says(g)' /\ \A m \in g.msgs : g.ver = store'[m]
    BY DEF TableInv, OwedInv, Says
  <2>2. \A g, h \in owed' : g # h => g.msgs \cap h.msgs = {}
    BY DEF TableInv, OwedInv
  <2>3. \A g \in owed', n \in 1..N : FrameIn(log'[n]) # g
    <3>. TAKE g \in owed', n \in 1..N
    <3>1. CASE n = N
      BY <1>2, <3>1
    <3>2. CASE n # N
      <4>1. n \in 1..Len(log) /\ log'[n] = log[n]
        BY <1>2, <3>2
      <4>2. FrameIn(log[n]) # g
        BY <4>1 DEF TableInv, OwedInv
      <4>. QED BY <4>1, <4>2
    <3>. QED BY <3>1, <3>2
  <2>. QED BY <1>1, <2>1, <2>2, <2>3 DEF OwedInv, Says, FrameIn, FrameOf
<1>4. \A n \in 1..N : Says(log[n])'
  <2>. TAKE n \in 1..N
  <2>1. CASE n = N
    BY <1>2, <2>1 DEF Says
  <2>2. CASE n # N
    <3>1. n \in 1..Len(log) /\ log'[n] = log[n]
      BY <1>2, <2>2
    <3>2. Says(log[n])
      BY <3>1 DEF TableInv, LogInv
    <3>. QED BY <3>1, <3>2 DEF Says
  <2>. QED BY <2>1, <2>2
<1>5. ASSUME NEW m \in Msgs, NEW n \in 1..N, Word(n, m)', m \notin gone'
      PROVE  log'[n].ver <= Latest(m)'
  <2>0. Latest(m)' = Latest(m)
    BY DEF Latest
  <2>1. CASE n = N
    BY <1>2, <1>5, <2>0, <2>1
  <2>2. CASE n # N
    <3>1. n \in 1..Len(log) /\ log'[n] = log[n] /\ Word(n, m)
      BY <1>2, <1>5, <2>2
    <3>2. log[n].ver <= Latest(m)
      BY <1>5, <3>1 DEF TableInv, LogInv
    <3>. QED BY <2>0, <3>1, <3>2
  <2>. QED BY <2>1, <2>2
<1>6. ASSUME NEW m \in Msgs, NEW n \in 1..N, ~Owing(m)', Word(n, m)',
             \A k \in n+1..N : ~Word(k, m)'
      PROVE  Agrees(log'[n].ver, store'[m])
  <2>1. CASE n = N
    BY <1>2, <1>6, <2>1
  <2>2. CASE n # N
    <3>1. n \in 1..Len(log) /\ log'[n] = log[n] /\ Word(n, m)
      BY <1>2, <1>6, <2>2
    <3>2. ~Word(N, m)'
      <4>1. N \in n+1..N
        BY <1>2, <3>1
      <4>. QED BY <1>6, <4>1
    <3>3. ~Owing(m)
      BY <1>2, <1>6, <3>2
    <3>4. \A k \in n+1..Len(log) : ~Word(k, m)
      <4>. TAKE k \in n+1..Len(log)
      <4>1. k \in 1..Len(log) /\ k \in n+1..N
        BY <1>2, <3>1
      <4>. QED BY <1>2, <1>6, <4>1
    <3>5. Agrees(log[n].ver, store[m])
      BY <3>1, <3>3, <3>4 DEF TableInv, LogInv
    <3>. QED BY <3>1, <3>5
  <2>. QED BY <2>1, <2>2
<1>7. \A m \in gone' : store'[m] = 0
  OBVIOUS
<1>8. LogInv'
  <2>1. /\ \A n \in 1..Len(log') : Says(log[n])'
        /\ \A m \in Msgs, n \in 1..Len(log') : Word(n, m)' /\ m \notin gone' => log'[n].ver <= Latest(m)'
        /\ \A m \in Msgs, n \in 1..Len(log') :
             ~Owing(m)' /\ Word(n, m)' /\ (\A k \in n+1..Len(log') : ~Word(k, m)')
               => Agrees(log'[n].ver, store'[m])
    BY <1>1, <1>4, <1>5, <1>6
  <2>. QED BY <1>7, <2>1 DEF LogInv
<1>. QED BY <1>3, <1>8 DEF TableInv

\* A change that is owed, or that nobody announces, says nothing to those who read.
LEMMA OwedUnseen ==
  ASSUME NEW r, Current(r), UNCHANGED <<log, epoch>>,
         \A m \in Msgs : ~Owing(m)' => ~Owing(m) /\ Keeps(m)
  PROVE  Current(r)'
<1>1. \A m, n : Word(n, m)' <=> Word(n, m)
  BY DEF Word
<1>2. \A m, n : UpTo(n, m)' <=> UpTo(n, m)
  BY <1>1 DEF UpTo
<1>3. Served(r)' <=> Served(r)
  BY DEF Served, Here
<1>4. Shows(r) => Shows(r)'
  BY <1>2 DEF Shows, Shown, Keeps
<1>. QED BY <1>3, <1>4 DEF Current, Trusts, Terminal, Keeps

\* What a frame changes in what a reader shows.
Views(q, r, f) ==
  /\ q.sound = r.sound /\ q.anchor = r.anchor /\ q.batch = r.batch
  /\ \A m \in Msgs : q.view[m] = IF r.sound /\ m \in f.msgs /\ Tells(f)
                                  THEN f.ver ELSE r.view[m]

LEMMA DeliveredView ==
  ASSUME NEW r \in Reader, NEW n \in 0..MaxFrames, NEW f \in Frame \cup Entry,
         NEW q, q = Delivered(r, n, f)
  PROVE  Views(q, r, f)
<1>. DEFINE v == [m \in Msgs |-> IF r.sound /\ m \in f.msgs /\ Tells(f) THEN f.ver ELSE r.view[m]]
            k == [r EXCEPT !.last = n, !.view = v]
<1>1. \A m \in Msgs : v[m] = IF r.sound /\ m \in f.msgs /\ Tells(f) THEN f.ver ELSE r.view[m]
  OBVIOUS
<1>2. Seen(r, n, f) = k
  BY DEF Seen, Reader
<1>. HIDE DEF v
<1>3. k.sound = r.sound /\ k.anchor = r.anchor /\ k.batch = r.batch /\ k.view = v
  BY DEF Reader
<1>4. Ends(k).sound = k.sound /\ Ends(k).anchor = k.anchor /\ Ends(k).view = k.view
      /\ Ends(k).batch = k.batch
  BY DEF Ends, Reader
<1>. HIDE DEF k
<1>5. q \in {k, Ends(k)}
  BY <1>2 DEF Delivered
<1>. QED BY <1>1, <1>3, <1>4, <1>5 DEF Views

\* What is asked of a frame that is written, for the readers.
Announced(f) ==
  /\ Appended(f) /\ store' = store
  /\ \A m \in f.msgs : Tells(f) /\ ~Owing(m)' => Agrees(f.ver, store[m])
  /\ \A m \in Msgs : ~Owing(m)' /\ Owing(m) => m \in f.msgs /\ Tells(f)

\* A reader that is at its look at the table has seen the change.
Informed(r) == r.at = "read" => \A m \in Msgs : m > r.anchor /\ ~Owing(m)' /\ Owing(m)
                                                  => Agrees(r.batch[m], store[m])

\* What a reader has read of the table, when a frame is written.
LEMMA BatchStays ==
  ASSUME NEW r, Current(r), Informed(r), store' = store, r.at = "read"
  PROVE  r.batch # Unread /\ \A m \in Msgs : m > r.anchor /\ ~Owing(m)' => Agrees(r.batch[m], store'[m])
BY DEF Current, Informed

\* A reader that the frame does not reach, or whose subscription keeps it.
LEMMA KeptCurrent ==
  ASSUME Typed, NEW r, Good(r), Current(r), Informed(r), NEW f \in Frame, Announced(f),
         NEW q, q.at = r.at, q.submits = r.submits, q.turn = r.turn, q.sound = r.sound,
         q.batch = r.batch, q.view = r.view, q.anchor = r.anchor, q.last = r.last, q.ep = r.ep,
         Served(q)' => Served(r) /\ q.frames = r.frames
  PROVE  Current(q)'
<1>1. PICK N : N = Len(log')
  OBVIOUS
<1>2. /\ Len(log) \in Nat /\ N = Len(log) + 1
      /\ \A n \in 1..Len(log) : log'[n] = log[n] /\ n \in 1..N
      /\ \A m : \A n \in 1..Len(log) : Word(n, m)' <=> Word(n, m)
      /\ \A m : Word(N, m)' <=> m \in f.msgs /\ Tells(f)
  BY <1>1, WordsStay DEF Announced
<1>3. q.at = "read" => q.batch # Unread /\ \A m \in Msgs : m > q.anchor /\ ~Owing(m)' => Agrees(q.batch[m], store'[m])
  BY BatchStays DEF Announced
<1>4. ASSUME Served(q)', Trusts(q), \A n \in q.frames : ~Terminal(log'[n])
      PROVE  Shows(q)'
  <2>1. Served(r) /\ Trusts(r) /\ q.frames = r.frames
    BY <1>4 DEF Trusts
  <2>2. r.last \in Nat /\ r.last <= Len(log) /\ r.frames \subseteq 1..Len(log)
    <3>1. Ring(r) = log
      BY <2>1 DEF Served, Ring
    <3>. QED BY <3>1, Fields DEF Good, Ledger
  <2>3. \A n \in r.frames : ~Terminal(log[n])
    <3>. TAKE n \in r.frames
    <3>1. n \in 1..Len(log) /\ n \in q.frames
      BY <2>1, <2>2
    <3>. QED BY <1>2, <1>4, <3>1
  <2>4. Shows(r)
    BY <2>1, <2>3 DEF Current
  <2>5. ASSUME NEW m \in Msgs, m > q.anchor, ~Owing(m)', UpTo(q.last, m)'
        PROVE  Agrees(Shown(q)[m], store'[m])
    <3>1. \A k \in 1..N : Word(k, m)' => k <= r.last
      BY <1>1, <2>5 DEF UpTo
    <3>2. ~Word(N, m)'
      <4>1. N \in 1..N /\ ~(N <= r.last)
        BY <1>2, <2>2
      <4>. QED BY <3>1, <4>1
    <3>3. ~Owing(m)
      BY <1>2, <2>5, <3>2 DEF Announced
    <3>4. UpTo(r.last, m)
      BY <1>2, <3>1 DEF UpTo
    <3>5. Agrees(Shown(r)[m], store[m])
      BY <2>4, <2>5, <3>3, <3>4 DEF Shows
    <3>. QED BY <3>5 DEF Shown, Announced
  <2>. QED BY <2>5 DEF Shows, Shown
<1>5. Trusts(q) => ~q.submits /\ q.turn = Any
  BY DEF Current, Trusts
<1>. QED BY <1>3, <1>4, <1>5 DEF Current, Trusts, Shows, Terminal

\* All that a reader still has to be told waits for it.
LEMMA WordWaits ==
  ASSUME Typed, TableInv, NEW r, Good(r), Served(r), r.turn = Any,
         \A n \in r.frames : ~Terminal(log[n]),
         NEW m, NEW i \in 1..Len(log), Word(i, m), r.last < i
  PROVE  i \in r.frames \cup r.queue
<1>1. Horizon(r) = Len(log)
  <2>1. {n \in r.frames : Terminal(log[n])} = {}
    OBVIOUS
  <2>. QED BY <2>1 DEF Horizon
<1>2. ~Terminal(log[i])
  BY DEF TableInv, LogInv, Says, Word, Terminal
<1>3. Due(r, i)
  BY <1>2 DEF Due
<1>. QED BY <1>1, <1>3 DEF Good, Hears

\* A reader that is handed the frame.
LEMMA HandedCurrent ==
  ASSUME Typed, TableInv, NEW r, Good(r), Current(r), NEW f \in Frame, Announced(f),
         NEW N, N = Len(log'), r.ep = epoch, r.live = "on", r.parked,
         NEW q, q = Delivered([r EXCEPT !.parked = FALSE], N, f)
  PROVE  Current(q)'
<1>. DEFINE k == [r EXCEPT !.parked = FALSE]
<1>0. r \in Reader
  BY DEF Good
<1>1. k \in Reader /\ k.at = r.at /\ k.submits = r.submits /\ k.ep = r.ep /\ k.turn = r.turn
      /\ k.batch = r.batch /\ k.closing = r.closing /\ k.live = r.live /\ k.frames = r.frames
      /\ k.sound = r.sound /\ k.view = r.view /\ k.anchor = r.anchor
  BY <1>0 DEF Reader
<1>2. q = Delivered(k, N, f)
  OBVIOUS
<1>. HIDE DEF k
<1>3. /\ Len(log) \in Nat /\ N = Len(log) + 1 /\ N \in 0..MaxFrames
      /\ \A n \in 1..Len(log) : n \in 1..N
      /\ \A m : \A n \in 1..Len(log) : Word(n, m)' <=> Word(n, m)
      /\ \A m : Word(N, m)' <=> m \in f.msgs /\ Tells(f)
  <2>1. N \in 1..MaxFrames
    BY WordsStay DEF Announced
  <2>. QED BY <2>1, WordsStay, Bounds DEF Announced
<1>40. k \in Reader /\ N \in 0..MaxFrames /\ f \in Frame \cup Entry
  BY <1>1, <1>3
<1>4. Follows(q, k, N, f)
  BY <1>2, <1>40, DeliveredRow
<1>5. /\ q.sound = k.sound /\ q.anchor = k.anchor /\ q.batch = k.batch
      /\ \A m \in Msgs : q.view[m] = IF k.sound /\ m \in f.msgs /\ Tells(f)
                                      THEN f.ver ELSE k.view[m]
  <2>1. Views(q, k, f)
    BY <1>2, <1>40, DeliveredView
  <2>. QED BY <2>1 DEF Views
<1>6. q.at = r.at /\ q.submits = r.submits /\ q.ep = r.ep /\ q.turn = r.turn /\ q.last = N
      /\ q.batch = r.batch /\ q.sound = r.sound /\ q.anchor = r.anchor
  BY <1>1, <1>4, <1>5 DEF Follows
<1>7. Trusts(q) => ~q.submits /\ q.turn = Any
  BY <1>6 DEF Current, Trusts
<1>8. q.at # "read"
  BY <1>6 DEF Good, Reading
<1>9. ASSUME Served(q)', Trusts(q)
      PROVE  Shows(q)'
  <2>1. ~r.submits /\ r.turn = Any /\ Trusts(r)
    BY <1>6, <1>9 DEF Current, Trusts
  <2>2. ~Terminal(f) /\ q.closing = r.closing /\ q.live = r.live
    <3>1. q.live = "on"
      BY <1>9 DEF Served
    <3>2. CASE Terminal(f)
      BY <1>1, <1>4, <2>1, <3>1, <3>2 DEF Follows
    <3>3. CASE ~Terminal(f)
      BY <1>1, <1>4, <3>3 DEF Follows
    <3>. QED BY <3>2, <3>3
  <2>3. Served(r)
    BY <1>6, <1>9, <2>2 DEF Served, Here
  <2>4. r.queue = {} /\ r.frames = {} /\ r.batch = Unread
    BY <2>3 DEF Good, Hears, Replaying
  <2>5. r.sound /\ Shows(r)
    BY <2>1, <2>3, <2>4 DEF Trusts, Current
  <2>6. ASSUME NEW m \in Msgs, m > q.anchor, ~Owing(m)'
        PROVE  Agrees(Shown(q)[m], store'[m])
    <3>1. Shown(q)[m] = q.view[m] /\ store' = store
      BY <1>6, <2>4 DEF Shown, Announced
    <3>2. CASE m \in f.msgs /\ Tells(f)
      BY <1>1, <1>5, <2>5, <2>6, <3>1, <3>2 DEF Announced
    <3>3. CASE ~(m \in f.msgs /\ Tells(f))
      <4>1. q.view[m] = r.view[m] /\ ~Owing(m)
        BY <1>1, <1>5, <2>6, <3>3 DEF Announced
      <4>2. UpTo(r.last, m)
        <5>. SUFFICES ASSUME NEW i \in 1..Len(log), Word(i, m) PROVE ~(r.last < i)
          BY <1>0, <1>3, Fields DEF UpTo
        <5>. QED BY <2>1, <2>3, <2>4, WordWaits
      <4>3. Agrees(Shown(r)[m], store[m])
        BY <1>6, <2>5, <2>6, <4>1, <4>2 DEF Shows
      <4>. QED BY <2>4, <3>1, <4>1, <4>3 DEF Shown
    <3>. QED BY <3>2, <3>3
  <2>. QED BY <2>6 DEF Shows, Shown
<1>. QED BY <1>7, <1>8, <1>9 DEF Current, Trusts, Shows

\* However a reader takes the frame, what it shows is current.
LEMMA PushedCurrent ==
  ASSUME Typed, TableInv, NEW r, Good(r), Current(r), Informed(r), NEW f \in Frame, Announced(f),
         NEW N, N = Len(log'), NEW q, q = Pushed(r, N, f)
  PROVE  Current(q)'
<1>0. r \in Reader /\ r.parked \in BOOLEAN /\ Appended(f) /\ epoch' = epoch
  BY Fields DEF Good, Announced, Appended
<1>1. CASE r.ep # epoch \/ r.live # "on" \/ r.turn \notin {Any, f.turn}
  <2>1. q = r
    BY <1>1 DEF Pushed
  <2>2. Served(q)' => Served(r) /\ q.frames = r.frames
    BY <1>0, <2>1 DEF Served, Here
  <2>. QED BY <2>1, <2>2, KeptCurrent
<1>2. CASE /\ r.ep = epoch /\ r.live = "on" /\ r.turn \in {Any, f.turn} /\ r.parked
  <2>1. q = Delivered([r EXCEPT !.parked = FALSE], N, f)
    BY <1>2 DEF Pushed
  <2>. QED BY <1>2, <2>1, HandedCurrent
<1>3. CASE /\ r.ep = epoch /\ r.live = "on" /\ r.turn \in {Any, f.turn} /\ ~r.parked
           /\ Cardinality(r.queue) < MaxQueue
  <2>1. q = [r EXCEPT !.queue = @ \cup {N}]
    BY <1>3 DEF Pushed
  <2>2. /\ q.at = r.at /\ q.submits = r.submits /\ q.turn = r.turn /\ q.sound = r.sound
        /\ q.batch = r.batch /\ q.view = r.view /\ q.anchor = r.anchor /\ q.last = r.last
        /\ q.ep = r.ep /\ q.live = r.live /\ q.closing = r.closing /\ q.frames = r.frames
    BY <1>0, <2>1 DEF Reader
  <2>3. Served(q)' => Served(r) /\ q.frames = r.frames
    BY <1>0, <2>2 DEF Served, Here
  <2>. QED BY <2>2, <2>3, KeptCurrent
<1>4. CASE /\ r.ep = epoch /\ r.live = "on" /\ r.turn \in {Any, f.turn} /\ ~r.parked
           /\ ~(Cardinality(r.queue) < MaxQueue)
  <2>1. q = [r EXCEPT !.live = "lost", !.queue = {}]
    BY <1>4 DEF Pushed
  <2>2. /\ q.at = r.at /\ q.submits = r.submits /\ q.turn = r.turn /\ q.sound = r.sound
        /\ q.batch = r.batch /\ q.view = r.view /\ q.anchor = r.anchor /\ q.last = r.last
        /\ q.ep = r.ep /\ q.live = "lost"
    BY <1>0, <2>1 DEF Reader
  <2>3. ~Served(q)'
    BY <2>2 DEF Served
  <2>. QED BY <2>2, <2>3, KeptCurrent
<1>. QED BY <1>0, <1>1, <1>2, <1>3, <1>4

-----------------------------------------------------------------------------
(* What the readers do themselves.                                           *)

\* A reader that has read nothing of the table.
LEMMA UnreadCurrent ==
  ASSUME NEW q, ~q.sound, q.batch = Unread, q.at # "read"
  PROVE  Current(q)
BY DEF Current, Trusts

LEMMA FreshCurrent == Current(Fresh)
<1>1. ~Fresh.sound /\ Fresh.batch = Unread /\ Fresh.at # "read"
  BY DEF Fresh
<1>. QED BY <1>1, UnreadCurrent

\* A new subscription has read nothing.
LEMMA SubscribedView ==
  ASSUME Typed, NEW w \in BOOLEAN, NEW k, k = Subscribed(Fresh, w)
  PROVE  k \in Reader /\ ~k.sound /\ k.batch = Unread
<1>1. PICK r \in Reader : r = Fresh
  BY FreshTyped
<1>2. ~r.sound
  BY <1>1 DEF Fresh
<1>3. k.sound = r.sound
  <2>1. k = [r EXCEPT !.ep = epoch, !.wait = w, !.live = "on"]
    BY <1>1 DEF Subscribed
  <2>. QED BY <2>1 DEF Reader
<1>. QED BY <1>2, <1>3, SubscribedRow

\* A reader that does not wait is not served when its replay is made.
LEMMA IdleCurrent ==
  ASSUME NEW r \in Reader, r.at = "open", Current(r)
  PROVE  Current(Idle(r))
<1>1. PICK q : q = [r EXCEPT !.closing = TRUE, !.live = "shut", !.queue = {}]
  OBVIOUS
<1>2. /\ q.at = r.at /\ q.submits = r.submits /\ q.turn = r.turn /\ q.sound = r.sound
      /\ q.batch = r.batch /\ q.closing
  BY <1>1 DEF Reader
<1>3. Current(q)
  BY <1>2 DEF Current, Trusts, Served
<1>. QED BY <1>1, <1>3 DEF Idle

\* Resumes without a message, and reservations.
LEMMA StartedCurrent ==
  ASSUME Typed, NEW w \in BOOLEAN, NEW n \in 0..MaxFrames, NEW F \in SUBSET (1..MaxFrames)
  PROVE  /\ Current(Idle([Subscribed(Fresh, w) EXCEPT !.at = "open", !.last = n]))
         /\ Current(Idle([Subscribed(Fresh, w) EXCEPT !.at = "open", !.last = n, !.frames = F]))
         /\ Current([Subscribed(Fresh, TRUE) EXCEPT !.at = "reserved", !.submits = TRUE, !.last = n])
<1>1. PICK k \in Reader : k = Subscribed(Fresh, w) /\ ~k.sound /\ k.batch = Unread
  BY SubscribedView
<1>2. PICK j \in Reader : j = Subscribed(Fresh, TRUE) /\ ~j.sound /\ j.batch = Unread
  BY SubscribedView
<1>. DEFINE a == [k EXCEPT !.at = "open", !.last = n]
            b == [k EXCEPT !.at = "open", !.last = n, !.frames = F]
            c == [j EXCEPT !.at = "reserved", !.submits = TRUE, !.last = n]
<1>3. a \in Reader /\ b \in Reader
  BY DEF Reader, Places, Cursors
<1>4. a.at = "open" /\ ~a.sound /\ a.batch = Unread
  BY <1>1 DEF Reader
<1>5. b.at = "open" /\ ~b.sound /\ b.batch = Unread
  BY <1>1 DEF Reader
<1>6. c.at = "reserved" /\ ~c.sound /\ c.batch = Unread
  BY <1>2 DEF Reader
<1>. HIDE DEF a, b, c
<1>7. Current(Idle(a)) /\ Current(Idle(b)) /\ Current(c)
  BY <1>3, <1>4, <1>5, <1>6, UnreadCurrent, IdleCurrent
<1>. QED BY <1>1, <1>2, <1>7 DEF a, b, c

\* A reader that resumes after a message reads the table.
LEMMA MessageCurrent ==
  ASSUME Typed, NEW w \in BOOLEAN, NEW m \in Msgs
  PROVE  Current([Subscribed(Fresh, w) EXCEPT
                    !.at = "read", !.anchor = m, !.lo = dropped, !.mark = Len(log),
                    !.batch = [k \in Msgs |-> IF k > m THEN store[k] ELSE 0]])
<1>. DEFINE b == [k \in Msgs |-> IF k > m THEN store[k] ELSE 0]
<1>1. PICK f \in Reader : f = Subscribed(Fresh, w)
  BY SubscribedView
<1>2. ~f.submits /\ f.turn = Any
  BY <1>1, SubscribedRow
<1>3. b \in [Msgs -> 0..Quiet] /\ b # Unread /\ \A k \in Msgs : k > m => Agrees(b[k], store[k])
  <2>1. b \in [Msgs -> 0..Quiet]
    BY Bounds DEF Typed
  <2>2. \A k \in Msgs : k > m => b[k] = store[k]
    OBVIOUS
  <2>. HIDE DEF b
  <2>. QED BY <2>1, <2>2, Constants, Agreeing
<1>. HIDE DEF b
<1>4. PICK q : q = [f EXCEPT !.at = "read", !.anchor = m, !.lo = dropped, !.mark = Len(log), !.batch = b]
  OBVIOUS
<1>5. q.at = "read" /\ q.anchor = m /\ q.batch = b /\ q.submits = f.submits /\ q.turn = f.turn
  BY <1>4 DEF Reader
<1>6. Current(q)
  BY <1>2, <1>3, <1>5 DEF Current, Served
<1>. QED BY <1>1, <1>4, <1>6 DEF b

\* What the replay puts together, when no turn ends in it: the last boundary that is
\* about a message is the last word on it, or takes it back, and without one the table
\* has been read.
LEMMA FoldedCurrent ==
  ASSUME Typed, TableInv, NEW r, Good(r), Current(r), r.at = "read", Here(r),
         ReplayEnd(r) = Len(log), NEW m \in Msgs, m > r.anchor, ~Owing(m)
  PROVE  Agrees(Folded(r)[m], store[m])
<1>. DEFINE words == {n \in r.mark+1..ReplayEnd(r) : Boundary(Ring(r)[n]) /\ m \in Ring(r)[n].msgs}
<1>1. Ring(r) = log /\ Len(log) \in Nat /\ r.mark \in Nat
  BY Fields, Entries DEF Ring, Good, Typed
<1>2. m \notin CommittedLate(r)
  <2>1. \A n \in ReplayEnd(r)+1..Len(Ring(r)) : FALSE
    BY <1>1
  <2>. QED BY <2>1 DEF CommittedLate
<1>3. Folded(r)[m] = IF words # {} THEN log[Last(words)].ver
                     ELSE IF m \in CommittedLate(r) THEN 0 ELSE r.batch[m]
  BY <1>1 DEF Folded
<1>4. words \in SUBSET (0..Len(log)) /\ words \subseteq 1..Len(log)
  BY <1>1
<1>5. \A n \in r.mark+1..Len(log) : n \in words <=> Boundary(log[n]) /\ m \in log[n].msgs
  BY <1>1
<1>6. \A n \in words : n > r.mark /\ Boundary(log[n]) /\ m \in log[n].msgs
  BY <1>1
<1>. HIDE DEF words
<1>7. CASE words = {}
  BY <1>2, <1>3, <1>7 DEF Current
<1>8. CASE words # {}
  <2>1. PICK x : x = Last(words)
    OBVIOUS
  <2>2. x \in words /\ \A n \in words : n <= x
    BY <1>1, <1>4, <1>8, <2>1, LastIn
  <2>3. x \in 1..Len(log) /\ x > r.mark /\ Boundary(log[x]) /\ m \in log[x].msgs /\ Says(log[x])
    BY <1>4, <1>6, <2>2 DEF TableInv, LogInv
  <2>4. Folded(r)[m] = log[x].ver
    BY <1>3, <1>8, <2>1
  <2>5. CASE log[x].kind = "rewound"
    BY <2>3, <2>4, <2>5, Agreeing DEF TableInv, LogInv, Says
  <2>6. CASE log[x].kind # "rewound"
    <3>1. log[x].kind = "commit" /\ m \notin Answers /\ Word(x, m)
      BY <2>3, <2>6 DEF Boundary, Says, Word, Tells
    <3>2. \A k \in x+1..Len(log) : ~Word(k, m)
      <4>. SUFFICES ASSUME NEW k \in x+1..Len(log), Word(k, m) PROVE FALSE
        OBVIOUS
      <4>1. k \in 1..Len(log) /\ k \in r.mark+1..Len(log) /\ ~(k <= x)
        BY <1>1, <2>3
      <4>2. m \in log[k].msgs /\ Tells(log[k]) /\ log[k].kind \in Kinds /\ Says(log[k])
        BY <4>1, Entries DEF Word, TableInv, LogInv, Typed
      <4>3. Boundary(log[k])
        BY <3>1, <4>2 DEF Says, Tells, Boundary
      <4>4. k \in words
        BY <1>5, <4>1, <4>2, <4>3
      <4>. QED BY <2>2, <4>1, <4>4
    <3>3. Agrees(log[x].ver, store[m])
      BY <2>3, <3>1, <3>2 DEF TableInv, LogInv
    <3>. QED BY <2>4, <3>3
  <2>. QED BY <2>5, <2>6
<1>. QED BY <1>7, <1>8

\* A replay that is made: unless a turn ends in it, it is current.
LEMMA FinishCurrent ==
  ASSUME Typed, TableInv, NEW r, Good(r), Current(r), r.at = "read"
  PROVE  Current(Idle(Opened(r)))
<1>0. PICK q : q = Opened(r)
  OBVIOUS
<1>1. /\ q \in Reader /\ q.at = "open" /\ q.batch = Folded(r) /\ q.frames = Stitched(r)
      /\ q.ep = r.ep /\ q.turn = Any /\ ~q.submits /\ q.anchor = r.anchor
      /\ Folded(r) \in [Msgs -> 0..Quiet]
  BY <1>0, FinishedRow
<1>2. q.batch # Unread
  BY <1>1, Constants
<1>3. ASSUME Served(q), \A n \in q.frames : ~Terminal(log[n]) PROVE Shows(q)
  <2>1. Here(r) /\ Ring(r) = log
    BY <1>1, <1>3 DEF Served, Here, Ring
  <2>2. ReplayEnd(r) = Len(log)
    BY <1>1, <1>3, <2>1, TerminalReplayed DEF Good, Ledger
  <2>3. ASSUME NEW m \in Msgs, m > q.anchor, ~Owing(m) PROVE Agrees(Shown(q)[m], store[m])
    <3>1. Agrees(Folded(r)[m], store[m])
      BY <1>1, <2>1, <2>2, <2>3, FoldedCurrent
    <3>. QED BY <1>1, <1>2, <3>1 DEF Shown
  <2>. QED BY <2>3 DEF Shows
<1>4. Current(q)
  BY <1>1, <1>3 DEF Current
<1>. QED BY <1>0, <1>1, <1>4, IdleCurrent

\* A submitter shows nothing of the table, a subscription that is complete is not served.
LEMMA BoundCurrent ==
  ASSUME NEW r, Good(r), Current(r), r.at = "reserved", NEW t
  PROVE  Current([r EXCEPT !.at = "open", !.turn = t, !.queue = {n \in @ : Ring(r)[n].turn = t}])
<1>0. PICK q : q = [r EXCEPT !.at = "open", !.turn = t, !.queue = {n \in @ : Ring(r)[n].turn = t}]
  OBVIOUS
<1>1. q.at = "open" /\ q.sound = r.sound /\ q.batch = r.batch
  BY <1>0 DEF Good, Reader
<1>2. ~Trusts(r)
  BY DEF Good, Reserving, Current
<1>. QED BY <1>0, <1>1, <1>2 DEF Current, Trusts

LEMMA CompletedCurrent ==
  ASSUME NEW r \in Reader, Current(r), r.at = "open"
  PROVE  Current([r EXCEPT !.live = "done"])
<1>0. PICK q : q = [r EXCEPT !.live = "done"]
  OBVIOUS
<1>1. /\ q.at = "open" /\ q.sound = r.sound /\ q.batch = r.batch /\ q.live = "done"
      /\ q.submits = r.submits /\ q.turn = r.turn
  BY <1>0 DEF Reader
<1>. QED BY <1>0, <1>1 DEF Current, Trusts, Served

\* A reader that shows what it has read, or waits, knows what it knew.
LEMMA SameCurrent ==
  ASSUME NEW r, Current(r), r.at = "open",
         NEW q, q.at = r.at, q.submits = r.submits, q.turn = r.turn, q.live = r.live, q.ep = r.ep,
         q.closing = r.closing, q.frames = r.frames, q.anchor = r.anchor, q.last = r.last,
         Trusts(q) => Trusts(r) /\ Shown(q) = Shown(r)
  PROVE  Current(q)
<1>1. Served(q) => Served(r)
  BY DEF Served, Here
<1>2. Trusts(q) /\ Shows(r) => Shows(q)
  BY DEF Shows
<1>. QED BY <1>1, <1>2 DEF Current

LEMMA ShownCurrent ==
  ASSUME NEW r \in Reader, Current(r), r.at = "open", r.batch # Unread
  PROVE  Current([r EXCEPT !.view = r.batch, !.batch = Unread, !.sound = TRUE])
<1>0. PICK q : q = [r EXCEPT !.view = r.batch, !.batch = Unread, !.sound = TRUE]
  OBVIOUS
<1>1. /\ q.at = r.at /\ q.submits = r.submits /\ q.turn = r.turn /\ q.live = r.live /\ q.ep = r.ep
      /\ q.closing = r.closing /\ q.frames = r.frames /\ q.anchor = r.anchor /\ q.last = r.last
      /\ q.view = r.batch /\ q.batch = Unread
  BY <1>0 DEF Reader
<1>2. Trusts(r) /\ Shown(q) = Shown(r)
  BY <1>1 DEF Trusts, Shown
<1>. QED BY <1>0, <1>1, <1>2, SameCurrent

LEMMA ParkedCurrent ==
  ASSUME NEW r \in Reader, Current(r), r.at = "open"
  PROVE  Current([r EXCEPT !.parked = TRUE])
<1>0. PICK q : q = [r EXCEPT !.parked = TRUE]
  OBVIOUS
<1>1. /\ q.at = r.at /\ q.submits = r.submits /\ q.turn = r.turn /\ q.live = r.live /\ q.ep = r.ep
      /\ q.closing = r.closing /\ q.frames = r.frames /\ q.anchor = r.anchor /\ q.last = r.last
      /\ q.view = r.view /\ q.batch = r.batch /\ q.sound = r.sound
  BY <1>0 DEF Reader
<1>2. (Trusts(q) <=> Trusts(r)) /\ Shown(q) = Shown(r)
  BY <1>1 DEF Trusts, Shown
<1>. QED BY <1>0, <1>1, <1>2, SameCurrent

\* A reader that takes the next frame: it is the last word on its message, or the words
\* after it were not seen before either.
LEMMA TakenCurrent ==
  ASSUME Typed, TableInv, NEW r, Good(r), Current(r), r.at = "open", r.batch = Unread,
         NEW n \in r.frames \cup r.queue,
         Served(r) => \A i \in r.frames \cup r.queue : n <= i,
         NEW k \in Reader, k.at = r.at, k.submits = r.submits, k.ep = r.ep, k.turn = r.turn,
         k.batch = r.batch, k.closing = r.closing, k.live = r.live, k.sound = r.sound,
         k.view = r.view, k.anchor = r.anchor, r.frames \subseteq k.frames \cup {n},
         NEW q, q = Delivered(k, n, Ring(r)[n])
  PROVE  Current(q)
<1>1. PICK f : f = Ring(r)[n]
  OBVIOUS
<1>2. /\ r \in Reader /\ r.frames \subseteq 1..Len(Ring(r)) /\ r.queue \subseteq 1..Len(Ring(r))
      /\ Len(Ring(r)) \in Nat /\ Len(Ring(r)) <= MaxFrames /\ r.last \in Nat
  BY RingTyped, Fields DEF Good, Ledger
<1>3. n \in 0..MaxFrames /\ f \in Frame \cup Entry /\ n \in 1..Len(Ring(r))
  <2>1. n \in 1..Len(Ring(r)) /\ Ring(r) \in Seq(Entry)
    BY <1>2, RingTyped
  <2>. QED BY <1>1, <1>2, <2>1, Bounds
<1>4. Follows(q, k, n, f)
  BY <1>1, <1>3, DeliveredRow
<1>5. /\ q.sound = k.sound /\ q.anchor = k.anchor /\ q.batch = k.batch
      /\ \A m \in Msgs : q.view[m] = IF k.sound /\ m \in f.msgs /\ Tells(f)
                                      THEN f.ver ELSE k.view[m]
  <2>1. Views(q, k, f)
    BY <1>1, <1>3, DeliveredView
  <2>. QED BY <2>1 DEF Views
<1>6. q.at = "open" /\ q.submits = r.submits /\ q.ep = r.ep /\ q.turn = r.turn /\ q.last = n
      /\ q.batch = Unread /\ q.sound = r.sound /\ q.anchor = r.anchor
  BY <1>4, <1>5 DEF Follows
<1>7. ASSUME Served(q), Trusts(q), \A i \in q.frames : ~Terminal(log[i])
      PROVE  Shows(q)
  <2>1. r.sound /\ ~r.submits /\ r.turn = Any
    BY <1>6, <1>7 DEF Current, Trusts
  <2>2. ~Terminal(f) /\ q.closing = r.closing /\ q.live = r.live /\ q.frames = k.frames
    <3>1. q.live = "on"
      BY <1>7 DEF Served
    <3>2. CASE Terminal(f)
      BY <1>4, <2>1, <3>1, <3>2 DEF Follows
    <3>3. CASE ~Terminal(f)
      BY <1>4, <3>3 DEF Follows
    <3>. QED BY <3>2, <3>3
  <2>3. Served(r) /\ Ring(r) = log /\ f = log[n]
    BY <1>1, <1>6, <1>7, <2>2 DEF Served, Here, Ring
  <2>4. \A i \in r.frames : ~Terminal(log[i])
    BY <1>7, <2>2, <2>3
  <2>5. Shows(r)
    BY <2>1, <2>3, <2>4 DEF Current, Trusts
  <2>6. ASSUME NEW m \in Msgs, m > q.anchor, ~Owing(m), UpTo(q.last, m)
        PROVE  Agrees(Shown(q)[m], store[m])
    <3>1. Shown(q)[m] = q.view[m]
      BY <1>6 DEF Shown
    <3>2. CASE Word(n, m)
      <4>1. q.view[m] = f.ver
        BY <1>5, <2>1, <2>3, <3>2 DEF Word
      <4>2. \A i \in n+1..Len(log) : ~Word(i, m)
        <5>. TAKE i \in n+1..Len(log)
        <5>1. i \in 1..Len(log) /\ ~(i <= n)
          BY <1>2, <1>3, <2>3
        <5>. QED BY <1>6, <2>6, <5>1 DEF UpTo
      <4>3. Agrees(log[n].ver, store[m])
        BY <1>3, <2>3, <2>6, <3>2, <4>2 DEF TableInv, LogInv
      <4>. QED BY <2>3, <3>1, <4>1, <4>3
    <3>3. CASE ~Word(n, m)
      <4>1. q.view[m] = r.view[m]
        BY <1>5, <2>3, <3>3 DEF Word
      <4>2. UpTo(r.last, m)
        <5>. SUFFICES ASSUME NEW i \in 1..Len(log), Word(i, m) PROVE ~(r.last < i)
          BY <1>2, <2>3 DEF UpTo
        <5>1. i <= n /\ i # n
          BY <1>6, <2>6, <3>3 DEF UpTo
        <5>2. i \notin r.frames \cup r.queue
          <6>1. ~(n <= i)
            BY <1>2, <1>3, <2>3, <5>1
          <6>. QED BY <2>3, <6>1
        <5>. QED BY <2>1, <2>3, <2>4, <5>2, WordWaits
      <4>3. Agrees(Shown(r)[m], store[m])
        BY <1>6, <2>5, <2>6, <4>2 DEF Shows
      <4>. QED BY <3>1, <4>1, <4>3 DEF Shown
    <3>. QED BY <3>2, <3>3
  <2>. QED BY <2>6 DEF Shows
<1>8. Trusts(q) => ~q.submits /\ q.turn = Any
  BY <1>6 DEF Current, Trusts
<1>. QED BY <1>6, <1>7, <1>8 DEF Current

-----------------------------------------------------------------------------
(* The steps, for what the readers show.                                     *)

ShowInv == StreamInv /\ TableInv /\ ViewInv

\* What is current of the row that a reader gets.
LEMMA RowCurrent ==
  ASSUME NEW s, NEW q, readers'[s] = q, Current(q)'
  PROVE  Current(readers[s])'
BY DEF Current, Trusts, Shows, Shown, UpTo, Served, Here, Terminal

\* A step of one reader.
LEMMA OneReaderShows ==
  ASSUME StreamInv, TableInv, ViewInv, NEW s \in Readers, NEW q, Current(q), Set(s, q),
         UNCHANGED <<store, gone, owed, stream>>
  PROVE  TableInv' /\ ViewInv'
<1>1. TableInv'
  <2>1. UNCHANGED <<store, gone, owed, log>>
    BY DEF stream
  <2>. QED BY <2>1 DEF TableInv, OwedInv, LogInv, Says, Word, Owing, Latest
<1>2. ASSUME NEW o \in Readers PROVE Current(readers[o])'
  <2>1. PICK x : x = readers'[o]
    OBVIOUS
  <2>2. Current(x)
    BY <2>1 DEF Set, ViewInv, StreamInv
  <2>3. /\ UNCHANGED <<log, epoch>>
        /\ \A m \in Msgs : ~Owing(m)' => ~Owing(m) /\ Keeps(m)
    BY DEF stream, Owing, Keeps
  <2>4. Current(x)'
    BY <2>2, <2>3, OwedUnseen
  <2>. QED BY <2>1, <2>4, RowCurrent
<1>. QED BY <1>1, <1>2 DEF ViewInv

\* A change of the table whose frame is owed, or that has none.
LEMMA ChangeShows ==
  ASSUME ViewInv, UNCHANGED <<log, epoch, readers>>,
         \A m \in Msgs : ~Owing(m)' => ~Owing(m) /\ Keeps(m)
  PROVE  ViewInv'
<1>1. ASSUME NEW o \in Readers PROVE Current(readers[o])'
  <2>1. PICK x : x = readers[o]
    OBVIOUS
  <2>2. Current(x)'
    BY <2>1, OwedUnseen DEF ViewInv
  <2>3. readers'[o] = x
    BY <2>1
  <2>. QED BY <2>2, <2>3, RowCurrent
<1>. QED BY <1>1 DEF ViewInv

\* A change of the table that has no frame: rows no frame is owed for.
LEMMA ChangeQuiet ==
  ASSUME Typed, TableInv, ViewInv, NEW S \in SUBSET Msgs, Settled(S),
         \A m \in S : store[m] > 0 /\ (m \notin Answers => store[m] <= Versions[m] - 1),
         store' = [m \in Msgs |-> IF m \in S THEN Quiet ELSE store[m]],
         UNCHANGED <<gone, owed, log, epoch, readers>>
  PROVE  TableInv' /\ ViewInv'
<1>1. /\ \A m \in Msgs : store[m] \in 0..Quiet /\ store'[m] = IF m \in S THEN Quiet ELSE store[m]
      /\ \A f \in owed : f.msgs \subseteq Msgs
      /\ gone \subseteq Msgs
  BY DEF Typed, Frame
<1>2. ASSUME NEW m \in Msgs
      PROVE  Keeps(m) /\ Latest(m) \in Nat /\ Latest(m)' \in Nat /\ Latest(m) <= Latest(m)'
  <2>1. Keeps(m)
    BY <1>1, Bounds DEF Keeps, Agrees
  <2>2. Versions[m] \in Nat \ {0} /\ Versions[m] < Quiet
    BY Constants, Bounds
  <2>3. CASE m \in S
    <3>1. store[m] \in Nat /\ store[m] <= Quiet /\ store'[m] = Quiet /\ Quiet \in Nat
      BY <1>1, <2>3, Bounds
    <3>2. Latest(m)' = IF m \in Answers THEN Quiet ELSE Versions[m] - 1
      BY <3>1 DEF Latest
    <3>3. CASE m \in Answers
      BY <2>1, <3>1, <3>2, <3>3 DEF Latest
    <3>4. CASE m \notin Answers
      <4>1. store[m] <= Versions[m] - 1
        BY <2>3, <3>4
      <4>. QED BY <2>1, <2>2, <3>1, <3>2, <3>4, <4>1 DEF Latest
    <3>. QED BY <3>3, <3>4
  <2>4. CASE m \notin S
    BY <1>1, <2>1, <2>2, <2>4, Bounds DEF Latest
  <2>. QED BY <2>1, <2>3, <2>4
<1>3. \A f \in owed : \A m \in f.msgs : store'[m] = store[m]
  BY <1>1 DEF Settled
<1>4. \A m : (Owing(m)' <=> Owing(m)) /\ \A n : Word(n, m)' <=> Word(n, m)
  BY DEF Owing, Word
<1>5. OwedInv'
  BY <1>3 DEF TableInv, OwedInv, Says, FrameIn, FrameOf
<1>6. LogInv'
  <2>1. \A m \in gone' : store'[m] = 0
    BY <1>1 DEF TableInv, LogInv
  <2>2. \A n \in 1..Len(log') : Says(log[n])'
    BY DEF TableInv, LogInv, Says
  <2>3. \A m \in Msgs, n \in 1..Len(log') : Word(n, m)' /\ m \notin gone' => log'[n].ver <= Latest(m)'
    <3>. SUFFICES ASSUME NEW m \in Msgs, NEW n \in 1..Len(log), Word(n, m), m \notin gone
                  PROVE  log[n].ver <= Latest(m)'
      BY <1>4
    <3>1. log[n].ver <= Latest(m)
      BY DEF TableInv, LogInv
    <3>2. log[n].ver \in Nat
      BY Entries, Bounds DEF Typed
    <3>. QED BY <1>2, <3>1, <3>2
  <2>4. \A m \in Msgs, n \in 1..Len(log') :
          ~Owing(m)' /\ Word(n, m)' /\ (\A k \in n+1..Len(log') : ~Word(k, m)')
            => Agrees(log'[n].ver, store'[m])
    BY <1>2, <1>4 DEF TableInv, LogInv, Keeps
  <2>. QED BY <2>1, <2>2, <2>3, <2>4 DEF LogInv
<1>7. ViewInv'
  BY <1>2, <1>4, ChangeShows
<1>. QED BY <1>5, <1>6, <1>7 DEF TableInv

\* A frame that is written.
LEMMA WriteShows ==
  ASSUME StreamInv, TableInv, ViewInv, NEW f \in Frame, Write(f), Says(f)', store' = store,
         gone \subseteq gone', \A m \in gone' : store[m] = 0,
         owed' \subseteq owed, f \notin owed',
         Duplicate(f) => owed' = owed,
         \A m \in f.msgs : Tells(f) /\ m \notin gone => f.ver <= Latest(m),
         \A m \in f.msgs : Tells(f) /\ ~Owing(m)' => Agrees(f.ver, store[m]),
         \A m \in Msgs : ~Owing(m)' /\ Owing(m) => m \in f.msgs /\ Tells(f),
         \A s \in Readers : Informed(readers[s])
  PROVE  TableInv' /\ ViewInv'
<1>1. Typed /\ readers \in [Readers -> Reader] /\ \A s \in Readers : Good(readers[s])
  BY DEF StreamInv
<1>2. done \cup Completes(f) \in SUBSET Msgs /\ epoch' = epoch
  BY <1>1, ClassTyped
<1>3. CASE Duplicate(f)
  <2>1. UNCHANGED <<store, owed, log, epoch, readers>>
    BY <1>2, <1>3 DEF Write
  <2>2. TableInv'
    BY <2>1 DEF TableInv, OwedInv, LogInv, Says, Word, Owing, Latest
  <2>3. \A m \in Msgs : ~Owing(m)' => ~Owing(m) /\ Keeps(m)
    BY <2>1 DEF Owing, Keeps
  <2>. QED BY <2>1, <2>2, <2>3, ChangeShows
<1>4. CASE ~Duplicate(f)
  <2>1. Enters(f, done \cup Completes(f))
    BY <1>4 DEF Write
  <2>2. Appended(f) /\ readers' = [s \in Readers |-> Pushed(readers[s], Len(log'), f)]
    BY <1>1, <1>2, <2>1, EntersTyped
  <2>3. TableInv'
    BY <1>1, <2>2, FrameLogged
  <2>4. Announced(f)
    BY <2>2 DEF Announced
  <2>5. ASSUME NEW s \in Readers PROVE Current(readers[s])'
    <3>1. PICK q : q = Pushed(readers[s], Len(log'), f)
      OBVIOUS
    <3>2. PICK r : r = readers[s]
      OBVIOUS
    <3>3. PICK N : N = Len(log')
      OBVIOUS
    <3>4. Informed(r)
      BY <3>2 DEF Informed, Owing
    <3>5. Current(q)'
      BY <1>1, <2>4, <3>1, <3>2, <3>3, <3>4, PushedCurrent DEF ViewInv
    <3>6. readers'[s] = q
      BY <2>2, <3>1
    <3>. QED BY <3>5, <3>6, RowCurrent
  <2>. QED BY <2>3, <2>5 DEF ViewInv
<1>. QED BY <1>3, <1>4

\* The end of a state of the stream.
LEMMA NewStateShows ==
  ASSUME NewState, owed' = {}, \A m \in gone' : store'[m] = 0
  PROVE  TableInv' /\ ViewInv'
<1>1. log' = <<>> /\ \A s \in Readers : readers'[s] = Fresh
  BY DEF NewState
<1>2. \A n \in 1..Len(log') : FALSE
  BY <1>1
<1>3. TableInv'
  BY <1>2 DEF TableInv, OwedInv, LogInv
<1>4. ASSUME NEW s \in Readers PROVE Current(readers[s])'
  <2>1. PICK q : q = Fresh
    OBVIOUS
  <2>2. ~q.sound /\ q.batch = Unread /\ q.at # "read"
    BY <2>1 DEF Fresh
  <2>3. Current(q)'
    BY <2>2 DEF Current, Trusts
  <2>. QED BY <1>1, <2>1, <2>3, RowCurrent
<1>. QED BY <1>3, <1>4 DEF ViewInv

\* The frames that the writers write.
LEMMA WrittenShows ==
  ASSUME StreamInv, TableInv, ViewInv, Written
  PROVE  TableInv' /\ ViewInv'
<1>1. Typed /\ store \in [Msgs -> 0..Quiet] /\ gone \subseteq Msgs /\ owed \subseteq Frame
      /\ log \in Seq(Entry) /\ Len(log) \in Nat
  BY Entries DEF StreamInv, Typed
<1>2. ASSUME NEW m \in Msgs, NEW kind \in {"message", "commit"}, Changed(kind, m),
             kind = "message" <=> m \in Answers
      PROVE  TableInv' /\ ViewInv'
  <2>0. PICK f : f = FrameOf(kind, {m}, Latest(m) + 1, TurnOf[m])
    OBVIOUS
  <2>1. Latest(m) \in Nat /\ Latest(m) + 1 \in 0..MaxVersion
    BY <1>1, <1>2, Versioned, Bounds DEF Changed
  <2>2. f \in Frame /\ f.msgs = {m} /\ f.ver = Latest(m) + 1 /\ f.kind = kind
    BY <2>0, <2>1, Constants DEF FrameOf, Frame, Kinds
  <2>3. /\ owed' = owed \cup {f} /\ gone' = gone /\ Settled({m}) /\ m \notin gone
        /\ store' = [store EXCEPT ![m] = Latest(m) + 1] /\ UNCHANGED <<log, epoch, readers>>
    BY <1>2, <2>0 DEF Changed, stream
  <2>4. Says(f)'
    BY <1>2, <2>2 DEF Says
  <2>5. \A n \in 1..Len(log) : FrameIn(log[n]) # f
    <3>. SUFFICES ASSUME NEW n \in 1..Len(log), FrameIn(log[n]) = f PROVE FALSE
      OBVIOUS
    <3>1. log[n].msgs = {m} /\ log[n].ver = Latest(m) + 1 /\ Tells(log[n])
      BY <2>2 DEF FrameIn, FrameOf, Tells
    <3>2. log[n].ver <= Latest(m)
      BY <2>3, <3>1 DEF TableInv, LogInv, Word
    <3>. QED BY <2>1, <3>1, <3>2
  <2>6. /\ \A k \in gone' : store'[k] = 0
        /\ \A k \in Msgs : k \notin gone' => Latest(k) <= Latest(k)'
        /\ \A k \in Msgs : store'[k] = IF k \in f.msgs THEN f.ver ELSE store[k]
    <3>1. \A k \in gone : store[k] = 0 /\ k # m
      BY <2>3 DEF TableInv, LogInv
    <3>2. \A k \in Msgs : store'[k] = IF k = m THEN Latest(m) + 1 ELSE store[k]
      BY <1>1, <2>3
    <3>3. ASSUME NEW k \in Msgs PROVE Latest(k) <= Latest(k)'
      <4>1. CASE k = m
        BY <2>1, <3>2, <4>1, Bounds DEF Latest
      <4>2. CASE k # m
        BY <1>1, <3>2, <4>2, Versioned DEF Latest
      <4>. QED BY <4>1, <4>2
    <3>. QED BY <2>1, <2>2, <2>3, <3>1, <3>2, <3>3
  <2>7. /\ TableInv'
        /\ \A k \in Msgs : ~Owing(k)' => ~Owing(k) /\ Keeps(k)
    BY <1>1, <2>2, <2>3, <2>4, <2>5, <2>6, ChangeStored
  <2>. QED BY <2>3, <2>7, ChangeShows
<1>3. ASSUME NEW t \in Turns, NEW S \in SUBSET Msgs, Rewind(t, S) PROVE TableInv' /\ ViewInv'
  <2>. DEFINE f == FrameOf("rewound", S, 0, t)
  <2>1. f \in Frame /\ f.msgs = S /\ f.ver = 0 /\ f.kind = "rewound"
    BY Bounds DEF FrameOf, Frame, Kinds
  <2>2. /\ owed' = owed \cup {f} /\ gone' = gone \cup S /\ Settled(S) /\ S # {}
        /\ store' = [m \in Msgs |-> IF m \in S THEN 0 ELSE store[m]]
        /\ UNCHANGED <<log, epoch, readers>>
        /\ \A m \in S : store[m] > 0
    BY <1>3 DEF Rewind, stream
  <2>. HIDE DEF f
  <2>3. Says(f)'
    BY <2>1, <2>2 DEF Says
  <2>4. \A n \in 1..Len(log) : FrameIn(log[n]) # f
    <3>. SUFFICES ASSUME NEW n \in 1..Len(log), FrameIn(log[n]) = f PROVE FALSE
      OBVIOUS
    <3>1. log[n].msgs = S /\ log[n].kind = "rewound"
      BY <2>1 DEF FrameIn, FrameOf
    <3>2. PICK m \in S : m \in gone /\ store[m] = 0
      BY <2>2, <3>1 DEF TableInv, LogInv, Says
    <3>. QED BY <2>2, <3>2
  <2>5. /\ \A k \in gone' : store'[k] = 0
        /\ \A k \in Msgs : k \notin gone' => Latest(k) <= Latest(k)'
        /\ \A k \in Msgs : store'[k] = IF k \in f.msgs THEN f.ver ELSE store[k]
    <3>1. \A k \in gone : store[k] = 0
      BY DEF TableInv, LogInv
    <3>2. \A k \in Msgs : store'[k] = IF k \in S THEN 0 ELSE store[k]
      BY <1>1, <2>2
    <3>3. ASSUME NEW k \in Msgs, k \notin gone' PROVE Latest(k) <= Latest(k)'
      BY <1>1, <2>2, <3>2, <3>3, Versioned DEF Latest
    <3>. QED BY <1>1, <2>1, <2>2, <3>1, <3>2, <3>3
  <2>6. /\ TableInv'
        /\ \A k \in Msgs : ~Owing(k)' => ~Owing(k) /\ Keeps(k)
    BY <1>1, <2>1, <2>2, <2>3, <2>4, <2>5, ChangeStored
  <2>. QED BY <2>2, <2>6, ChangeShows
<1>4. ASSUME NEW f \in owed, Announce(f) PROVE TableInv' /\ ViewInv'
  <2>1. /\ f \in Frame /\ f.msgs \subseteq Msgs /\ owed' = owed \ {f}
        /\ Write(f) /\ UNCHANGED <<store, gone>>
    BY <1>1, <1>4 DEF Announce, Frame
  <2>2. /\ Says(f) /\ f.kind \in {"message", "commit", "rewound"} /\ Tells(f)
        /\ \A m \in f.msgs : f.ver = store[m] /\ Agrees(f.ver, store[m])
        /\ \A n \in 1..Len(log) : FrameIn(log[n]) # f
    BY Agreeing DEF TableInv, OwedInv, Tells
  <2>3. ~Duplicate(f)
    <3>1. \A n \in dropped+1..Len(log) : n \in 1..Len(log)
      BY <1>1 DEF Typed
    <3>. QED BY <2>2, <3>1 DEF Duplicate
  <2>4. \A m \in f.msgs : f.ver <= Latest(m)
    <3>1. \A m \in f.msgs : store[m] = Latest(m) /\ store[m] \in Nat
      BY <1>1, <2>1, <2>2, Versioned, Bounds DEF Frame
    <3>. QED BY <2>2, <3>1
  <2>5. \A m \in Msgs : ~Owing(m)' /\ Owing(m) => m \in f.msgs
    BY <2>1 DEF Owing
  <2>6. ASSUME NEW s \in Readers PROVE Informed(readers[s])
    <3>1. readers[s].at = "read" => \A m \in f.msgs : m > readers[s].anchor => readers[s].batch[m] = f.ver
      BY <1>4 DEF Announce, Known
    <3>. QED BY <2>2, <2>5, <3>1 DEF Informed
  <2>7. Says(f)' /\ \A m \in gone' : store[m] = 0
    BY <2>1, <2>2 DEF Says, TableInv, LogInv
  <2>. QED BY <2>1, <2>2, <2>3, <2>4, <2>5, <2>6, <2>7, WriteShows
<1>5. \A s \in Readers : owed' = owed => Informed(readers[s])
  BY DEF Informed, Owing
<1>6. ASSUME NEW f \in Frame, Write(f), ~Tells(f), UNCHANGED <<store, owed>>, Says(f)',
             gone \subseteq gone', \A m \in gone' : store[m] = 0
      PROVE  TableInv' /\ ViewInv'
  <2>1. f \notin owed'
    BY <1>6 DEF TableInv, OwedInv, Tells
  <2>2. \A k \in Msgs : ~(~Owing(k)' /\ Owing(k))
    BY <1>6 DEF Owing
  <2>. QED BY <1>5, <1>6, <2>1, <2>2, WriteShows
<1>9. \A m \in gone : store[m] = 0
  BY DEF TableInv, LogInv
<1>10. ASSUME NEW m \in Msgs, Stream(m) PROVE TableInv' /\ ViewInv'
  <2>1. PICK piece \in {"chunk", "finish"} : Write(FrameOf(piece, {m}, 0, TurnOf[m]))
    BY <1>10 DEF Stream
  <2>2. PICK f : f = FrameOf(piece, {m}, 0, TurnOf[m])
    OBVIOUS
  <2>3. f \in Frame /\ f.kind = piece
    BY <2>2, Constants, Bounds DEF FrameOf, Frame, Kinds
  <2>4. Says(f)' /\ ~Tells(f)
    BY <2>3 DEF Says, Tells
  <2>. QED BY <1>6, <1>9, <1>10, <2>1, <2>2, <2>3, <2>4 DEF Stream
<1>11. ASSUME NEW m \in Msgs, Fail(m) PROVE TableInv' /\ ViewInv'
  <2>1. PICK f : f = FrameOf("error", {m}, 0, TurnOf[m])
    OBVIOUS
  <2>2. f \in Frame /\ f.kind = "error"
    BY <2>1, Constants, Bounds DEF FrameOf, Frame, Kinds
  <2>3. Says(f)' /\ ~Tells(f)
    BY <2>2 DEF Says, Tells
  <2>. QED BY <1>6, <1>9, <1>11, <2>1, <2>2, <2>3 DEF Fail
<1>12. ASSUME NEW m \in Msgs, Answer(m) \/ Commit(m) PROVE TableInv' /\ ViewInv'
  BY <1>2, <1>12 DEF Answer, Commit
<1>13. ASSUME NEW m \in Msgs, Repair(m) PROVE TableInv' /\ ViewInv'
  <2>1. /\ m \notin Answers /\ store[m] \in 1..Versions[m]-1 /\ Settled({m})
        /\ UNCHANGED <<gone, owed, log, epoch, readers>>
    BY <1>13 DEF Repair, stream
  <2>2. store' = [k \in Msgs |-> IF k \in {m} THEN Quiet ELSE store[k]]
    BY <1>1, <1>13 DEF Repair
  <2>3. store[m] > 0 /\ (m \notin Answers => store[m] <= Versions[m] - 1)
    BY <2>1, Constants, Bounds
  <2>. QED BY <1>1, <2>1, <2>2, <2>3, ChangeQuiet
<1>14. ASSUME NEW t \in Turns, NEW S \in SUBSET Msgs, Anchor(t, S) PROVE TableInv' /\ ViewInv'
  <2>1. /\ S \subseteq Answers /\ UNCHANGED <<gone, owed, log, epoch, readers>>
        /\ \A m \in S : store[m] > 0
        /\ \A f \in owed : f.kind # "message"
        /\ store' = [m \in Msgs |-> IF m \in S THEN Quiet ELSE store[m]]
    BY <1>14 DEF Anchor, stream
  <2>2. Settled(S)
    <3>. SUFFICES ASSUME NEW f \in owed PROVE f.msgs \cap S = {}
      BY DEF Settled
    <3>1. CASE f.kind = "commit"
      BY <2>1, <3>1 DEF TableInv, OwedInv, Says
    <3>2. CASE f.kind = "rewound"
      <4>1. \A m \in f.msgs : store[m] = 0
        BY <1>9, <3>2 DEF TableInv, OwedInv, Says
      <4>. QED BY <2>1, <4>1
    <3>. QED BY <2>1, <3>1, <3>2 DEF TableInv, OwedInv
  <2>. QED BY <1>1, <2>1, <2>2, ChangeQuiet
<1>7. ASSUME NEW t \in Turns, EndTurn(t) PROVE TableInv' /\ ViewInv'
  <2>. DEFINE f == FrameOf("terminal", {}, 0, t)
  <2>1. f \in Frame /\ f.kind = "terminal" /\ f.msgs = {}
    BY Bounds DEF FrameOf, Frame, Kinds
  <2>2. Write(f) /\ UNCHANGED <<store, gone, owed>>
    BY <1>7 DEF EndTurn
  <2>. HIDE DEF f
  <2>3. Says(f)' /\ ~Tells(f)
    BY <2>1 DEF Says, Tells
  <2>. QED BY <1>6, <1>9, <2>1, <2>2, <2>3
<1>8. ASSUME WriteAgain PROVE TableInv' /\ ViewInv'
  <2>1. PICK L \in 1..Len(log) : L = Len(log)
    BY <1>1, <1>8 DEF WriteAgain
  <2>2. PICK f : f = FrameIn(log[L])
    OBVIOUS
  <2>3. Write(f) /\ UNCHANGED <<store, gone, owed>>
    BY <1>8, <2>1, <2>2 DEF WriteAgain
  <2>4. f \in Frame /\ f.msgs = log[L].msgs /\ f.kind = log[L].kind /\ f.ver = log[L].ver
        /\ f.msgs \subseteq Msgs
    BY <1>1, <2>1, <2>2, Entries DEF FrameIn, FrameOf
  <2>5. Says(f)' /\ f \notin owed
    BY <2>1, <2>2, <2>3, <2>4 DEF Says, Tells, TableInv, OwedInv, LogInv
  <2>6. ASSUME NEW m \in f.msgs, Tells(f)
        PROVE  /\ m \notin gone => f.ver <= Latest(m)
               /\ ~Owing(m)' => Agrees(f.ver, store[m])
    <3>1. m \in Msgs /\ Word(L, m)
      BY <2>4, <2>6 DEF Word, Tells
    <3>2. \A k \in L+1..Len(log) : ~Word(k, m)
      BY <1>1, <2>1
    <3>3. Owing(m)' <=> Owing(m)
      BY <2>3 DEF Owing
    <3>. QED BY <2>1, <2>4, <3>1, <3>2, <3>3 DEF TableInv, LogInv
  <2>7. \A k \in Msgs : ~(~Owing(k)' /\ Owing(k))
    BY <2>3 DEF Owing
  <2>. QED BY <1>5, <1>9, <2>3, <2>4, <2>5, <2>6, <2>7, WriteShows
<1>. QED BY <1>3, <1>4, <1>7, <1>8, <1>10, <1>11, <1>12, <1>13, <1>14 DEF Written

\* The readers' own steps.
LEMMA ResumedShows ==
  ASSUME StreamInv, TableInv, ViewInv, NEW s \in Readers, Resumed(s)
  PROVE  TableInv' /\ ViewInv'
<1>1. Typed /\ Good(readers[s]) /\ Current(readers[s]) /\ Current(Fresh)
  BY FreshCurrent DEF StreamInv, ViewInv
<1>2. Len(log) \in 0..MaxFrames
  BY <1>1, Entries, Bounds DEF Typed
<1>3. ASSUME NEW w \in BOOLEAN, ResumeLive(s, w) PROVE TableInv' /\ ViewInv'
  <2>1. Current(Idle([Subscribed(Fresh, w) EXCEPT !.at = "open", !.last = Len(log)]))
    BY <1>1, <1>2, StartedCurrent
  <2>. QED BY <1>3, <2>1, OneReaderShows DEF ResumeLive
<1>4. ASSUME NEW w \in BOOLEAN, NEW m \in Msgs, ResumeAfterMessage(s, m, w) PROVE TableInv' /\ ViewInv'
  <2>1. CASE store[m] = 0
    BY <1>1, <1>4, <2>1, OneReaderShows DEF ResumeAfterMessage
  <2>2. CASE store[m] # 0
    BY <1>1, <1>4, <2>2, MessageCurrent, OneReaderShows DEF ResumeAfterMessage
  <2>. QED BY <2>1, <2>2
<1>5. ASSUME NEW w \in BOOLEAN, NEW e \in 0..epoch, NEW n \in Cursors, ResumeAfterCursor(s, e, n, w)
      PROVE  TableInv' /\ ViewInv'
  <2>1. CASE e # epoch \/ n \notin dropped..Len(log)
    BY <1>1, <1>5, <2>1, OneReaderShows DEF ResumeAfterCursor
  <2>2. CASE ~(e # epoch \/ n \notin dropped..Len(log))
    <3>1. n \in 0..MaxFrames /\ n+1..Len(log) \in SUBSET (1..MaxFrames)
      BY <1>2, Bounds DEF Cursors
    <3>2. Current(Idle([Subscribed(Fresh, w) EXCEPT !.at = "open", !.last = n, !.frames = n+1..Len(log)]))
      BY <1>1, <3>1, StartedCurrent
    <3>. QED BY <1>5, <2>2, <3>2, OneReaderShows DEF ResumeAfterCursor
  <2>. QED BY <2>1, <2>2
<1>6. ASSUME FinishReplay(s) PROVE TableInv' /\ ViewInv'
  <2>1. PICK r : r = readers[s]
    OBVIOUS
  <2>2. PICK q : q = Idle(Opened(r))
    OBVIOUS
  <2>3. r.at = "read" /\ Set(s, IF Here(r) /\ r.mark < dropped THEN Fresh ELSE q)
        /\ UNCHANGED <<store, gone, owed, stream>>
    BY <1>6, <2>1, <2>2 DEF FinishReplay, Opened
  <2>4. Current(q)
    BY <1>1, <2>1, <2>2, <2>3, FinishCurrent
  <2>. QED BY <1>1, <2>3, <2>4, OneReaderShows
<1>. QED BY <1>3, <1>4, <1>5, <1>6 DEF Resumed

LEMMA ReservedShows ==
  ASSUME StreamInv, TableInv, ViewInv, NEW s \in Readers, Reserved(s)
  PROVE  TableInv' /\ ViewInv'
<1>1. Typed /\ Good(readers[s]) /\ Current(readers[s]) /\ Current(Fresh) /\ readers[s] \in Reader
  BY FreshCurrent DEF StreamInv, ViewInv
<1>2. ASSUME Reserve(s) PROVE TableInv' /\ ViewInv'
  <2>1. Len(log) \in 0..MaxFrames
    BY <1>1, Entries, Bounds DEF Typed
  <2>2. Current([Subscribed(Fresh, TRUE) EXCEPT !.at = "reserved", !.submits = TRUE, !.last = Len(log)])
    BY <1>1, <2>1, StartedCurrent
  <2>. QED BY <1>2, <2>2, OneReaderShows DEF Reserve
<1>3. ASSUME NEW t \in Turns, BindTurn(s, t) PROVE TableInv' /\ ViewInv'
  BY <1>1, <1>3, BoundCurrent, OneReaderShows DEF BindTurn
<1>4. ASSUME Complete(s) PROVE TableInv' /\ ViewInv'
  BY <1>1, <1>4, CompletedCurrent, OneReaderShows DEF Complete
<1>5. ASSUME Discard(s) PROVE TableInv' /\ ViewInv'
  <2>1. CASE UNCHANGED stream
    BY <1>1, <1>5, <2>1, OneReaderShows DEF Discard
  <2>2. CASE epoch' = epoch + 1 /\ UNCHANGED <<log, dropped, done, active>>
    <3>1. /\ readers \in [Readers -> Reader] /\ readers' = [readers EXCEPT ![s] = Fresh]
          /\ UNCHANGED <<store, gone, owed, log>>
      BY <1>5, <2>2 DEF Discard, Set, StreamInv
    <3>2. TableInv'
      BY <3>1 DEF TableInv, OwedInv, LogInv, Says, Word, Owing, Latest
    <3>3. ASSUME NEW o \in Readers PROVE Current(readers[o])'
      <4>1. PICK x : x = readers'[o]
        OBVIOUS
      <4>2. Current(x) /\ x.ep \in Nat /\ x.ep <= epoch /\ epoch \in Nat
        <5>1. x = readers[o] \/ x = Fresh
          BY <3>1, <4>1
        <5>2. Good(Fresh) /\ Good(readers[o]) /\ Current(readers[o])
          BY <1>1, FreshGood DEF StreamInv, ViewInv
        <5>3. Good(x) /\ Current(x)
          BY <1>1, <5>1, <5>2
        <5>. QED BY <1>1, <5>3, Fields DEF Good, Ledger, Typed
      <4>3. ~Served(x)'
        BY <2>2, <4>2 DEF Served, Here
      <4>4. \A m : Owing(m)' <=> Owing(m)
        BY <3>1 DEF Owing
      <4>5. Current(x)'
        BY <3>1, <4>2, <4>3, <4>4 DEF Current, Trusts
      <4>. QED BY <4>1, <4>5, RowCurrent
    <3>. QED BY <3>2, <3>3 DEF ViewInv
  <2>. QED BY <1>5, <2>1, <2>2 DEF Discard
<1>. QED BY <1>2, <1>3, <1>4, <1>5 DEF Reserved

LEMMA TakeShows ==
  ASSUME StreamInv, TableInv, ViewInv, NEW s \in Readers, Take(s)
  PROVE  TableInv' /\ ViewInv'
<1>0. PICK r : r = readers[s]
  OBVIOUS
<1>1. /\ Typed /\ Good(r) /\ Current(r) /\ Current(Fresh) /\ r \in Reader
      /\ r.at = "open" /\ UNCHANGED <<store, gone, owed, stream>>
  BY <1>0, FreshCurrent DEF Take, StreamInv, ViewInv
<1>2. /\ r.queue \in SUBSET Nat /\ r.frames \in SUBSET Nat
      /\ Served(r) => \A n \in r.frames, k \in r.queue : n < k
  BY <1>1, Fields DEF Good, Hears
<1>3. CASE r.batch # Unread
  <2>1. Set(s, [r EXCEPT !.view = r.batch, !.batch = Unread, !.sound = TRUE])
    BY <1>0, <1>3 DEF Take
  <2>. QED BY <1>1, <1>3, <2>1, ShownCurrent, OneReaderShows
<1>4. CASE r.batch = Unread /\ r.frames # {}
  <2>1. PICK n : n = Least(r.frames)
    OBVIOUS
  <2>2. PICK k : k = [r EXCEPT !.frames = @ \ {n}]
    OBVIOUS
  <2>3. PICK q : q = Delivered(k, n, Ring(r)[n])
    OBVIOUS
  <2>4. Set(s, q)
    BY <1>0, <1>4, <2>1, <2>2, <2>3 DEF Take
  <2>5. n \in r.frames /\ \A i \in r.frames : n <= i
    BY <1>2, <1>4, <2>1, LeastIn
  <2>6. Served(r) => \A i \in r.frames \cup r.queue : n <= i
    BY <1>2, <2>5
  <2>7. /\ k \in Reader /\ k.at = r.at /\ k.submits = r.submits /\ k.ep = r.ep /\ k.turn = r.turn
        /\ k.batch = r.batch /\ k.closing = r.closing /\ k.live = r.live /\ k.sound = r.sound
        /\ k.view = r.view /\ k.anchor = r.anchor /\ k.frames = r.frames \ {n}
    BY <1>1, <2>2 DEF Reader
  <2>8. Current(q)
    BY <1>1, <1>4, <2>3, <2>5, <2>6, <2>7, TakenCurrent
  <2>. QED BY <1>1, <2>4, <2>8, OneReaderShows
<1>5. CASE r.batch = Unread /\ r.frames = {} /\ ~(r.closing \/ r.live = "lost") /\ r.queue # {}
  <2>1. PICK n : n = Least(r.queue)
    OBVIOUS
  <2>2. PICK k : k = [r EXCEPT !.queue = @ \ {n}]
    OBVIOUS
  <2>3. PICK q : q = Delivered(k, n, Ring(r)[n])
    OBVIOUS
  <2>4. Set(s, q)
    BY <1>0, <1>5, <2>1, <2>2, <2>3 DEF Take
  <2>5. n \in r.frames \cup r.queue /\ \A i \in r.frames \cup r.queue : n <= i
    BY <1>2, <1>5, <2>1, LeastIn
  <2>6. /\ k \in Reader /\ k.at = r.at /\ k.submits = r.submits /\ k.ep = r.ep /\ k.turn = r.turn
        /\ k.batch = r.batch /\ k.closing = r.closing /\ k.live = r.live /\ k.sound = r.sound
        /\ k.view = r.view /\ k.anchor = r.anchor /\ k.frames = r.frames
    BY <1>1, <2>2 DEF Reader
  <2>7. Current(q)
    BY <1>1, <1>5, <2>3, <2>5, <2>6, TakenCurrent
  <2>. QED BY <1>1, <2>4, <2>7, OneReaderShows
<1>6. CASE r.batch = Unread /\ r.frames = {} /\ ~(r.closing \/ r.live = "lost") /\ r.queue = {}
           /\ r.live = "on"
  <2>1. Set(s, [r EXCEPT !.parked = TRUE])
    BY <1>0, <1>6 DEF Take
  <2>. QED BY <1>1, <2>1, ParkedCurrent, OneReaderShows
<1>7. CASE r.batch = Unread /\ r.frames = {}
           /\ (r.closing \/ r.live = "lost" \/ (r.queue = {} /\ r.live # "on"))
  <2>1. Set(s, Fresh)
    BY <1>0, <1>7 DEF Take
  <2>. QED BY <1>1, <2>1, OneReaderShows
<1>. QED BY <1>3, <1>4, <1>5, <1>6, <1>7

LEMMA ShowInit == ASSUME Init PROVE ShowInv
<1>1. StreamInv
  BY StreamInit
<1>2. \A n \in 1..Len(log) : FALSE
  BY DEF Init
<1>3. owed = {} /\ gone = {} /\ \A s \in Readers : readers[s] = Fresh
  BY DEF Init
<1>4. TableInv
  BY <1>2, <1>3 DEF TableInv, OwedInv, LogInv
<1>. QED BY <1>1, <1>3, <1>4, FreshCurrent DEF ShowInv, ViewInv

LEMMA ShowStep == ASSUME ShowInv, [Next]_vars PROVE ShowInv'
<1>1. StreamInv /\ TableInv /\ ViewInv
  BY DEF ShowInv
<1>2. StreamInv'
  BY <1>1, StreamStep
<1>. SUFFICES TableInv' /\ ViewInv'
  BY <1>2 DEF ShowInv
<1>3. ASSUME NEW s \in Readers, Leave(s) PROVE TableInv' /\ ViewInv'
  BY <1>1, <1>3, FreshCurrent, OneReaderShows DEF Leave
<1>4. CASE DeleteSession
  <2>1. \A m \in gone' : store'[m] = 0
    BY <1>4 DEF DeleteSession, Nothing
  <2>. QED BY <1>4, <2>1, NewStateShows DEF DeleteSession
<1>5. CASE Restart
  <2>1. \A m \in gone' : store'[m] = 0
    BY <1>1, <1>5 DEF Restart, TableInv, LogInv
  <2>. QED BY <1>5, <2>1, NewStateShows DEF Restart
<1>6. CASE UNCHANGED vars
  <2>1. UNCHANGED <<store, gone, owed, log, epoch, readers>>
    BY <1>6 DEF vars
  <2>2. TableInv'
    BY <1>1, <2>1 DEF TableInv, OwedInv, LogInv, Says, Word, Owing, Latest
  <2>3. \A m \in Msgs : ~Owing(m)' => ~Owing(m) /\ Keeps(m)
    BY <2>1 DEF Owing, Keeps
  <2>. QED BY <1>1, <2>1, <2>2, <2>3, ChangeShows
<1>. QED
  BY <1>1, <1>3, <1>4, <1>5, <1>6, WrittenShows, ResumedShows, ReservedShows, TakeShows DEF Next

\* ViewConverges: a reader that resumed after a message, has read what there was and is
\* owed nothing shows the messages of the table, whatever was stored, taken back, ended
\* in an error, written twice or evicted while it read, and shows a row that was changed
\* without a frame at least as it was.
THEOREM ViewsConverge == Spec => []ViewConverges
<1>1. Init => ShowInv
  BY ShowInit
<1>2. ShowInv /\ [Next]_vars => ShowInv'
  BY ShowStep
<1>3. ShowInv => ViewConverges
  <2>. SUFFICES ASSUME ShowInv, NEW s \in Readers, NEW r, r = readers[s], Served(r), r.sound,
                       ~Replaying(r), r.queue = {}, owed = {}, NEW m \in Msgs, m > r.anchor
                PROVE  Agrees(r.view[m], store[m])
    BY DEF ViewConverges
  <2>1. Typed /\ TableInv /\ Good(r) /\ Current(r) /\ r \in Reader
    BY DEF ShowInv, StreamInv, ViewInv, Good
  <2>2. r.batch = Unread /\ r.frames = {} /\ Trusts(r) /\ r.turn = Any
    BY <2>1 DEF Replaying, Trusts, Current
  <2>3. UpTo(r.last, m)
    <3>. SUFFICES ASSUME NEW i \in 1..Len(log), Word(i, m) PROVE ~(r.last < i)
      BY <2>1, Fields, Entries DEF UpTo, Typed
    <3>. QED BY <2>1, <2>2, WordWaits
  <2>4. ~Owing(m)
    BY DEF Owing
  <2>5. Agrees(Shown(r)[m], store[m])
    BY <2>1, <2>2, <2>3, <2>4 DEF Current, Shows
  <2>. QED BY <2>2, <2>5 DEF Shown
<1>. QED BY <1>1, <1>2, <1>3, PTL DEF Spec

=============================================================================
