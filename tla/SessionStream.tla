--------------------------- MODULE SessionStream ---------------------------
(* The frames of one session and those who read them: the ring that keeps    *)
(* the latest frames, the eviction policy that keeps messages together, the  *)
(* live subscriptions with their bounded queues, the resume of a reader by   *)
(* cursor or by message, and the reservation a submitter makes before its    *)
(* turn has a name.                                                          *)
(*                                                                           *)
(* The displayed messages are a table of their own.  Whoever adds, ends or   *)
(* takes back a message changes it and writes the frame that says so         *)
(* afterwards, so a frame can be owed.  Two changes have no frame: the link  *)
(* of an answer to the history, and the repair of a compaction that was      *)
(* never ended.  One frame has no change: an answer that ends in an error is *)
(* a status for its readers and no message.  A reader that resumes after a   *)
(* message puts together what it reads from the table, what the ring held    *)
(* when it subscribed, what came while it read and what its subscription     *)
(* brings.                                                                   *)
(*                                                                           *)
(* Frames are numbered by their cursor.  The ring is the interval            *)
(* dropped+1 .. Len(log), and a set of cursors stands for a queue, because   *)
(* whatever enters a queue enters it in the order of the cursors.            *)
EXTENDS Naturals, Sequences, FiniteSets

CONSTANTS MaxMsgs,    \* messages, in the order of their rows
          Answers,    \* messages an agent writes; the others are committed at once
          Turns,
          TurnOf,     \* the turn of each message
          Readers,    \* each resumes the stream or reserves it for a submission
          MaxFrames,  \* frames written to one state of the stream
          MaxItems,   \* frames the ring keeps
          MaxComplete,\* complete messages it keeps
          MaxQueue,   \* frames a subscription keeps
          Versions,   \* how often each message is stored with a frame
          MaxVersion, \* the largest of them
          MaxEpochs,  \* states of the stream, one after the other
          Any,        \* no turn in particular
          Unread      \* no answer of the table

Msgs == 1..MaxMsgs
Quiet == MaxVersion + 1      \* the version of a row whose last change has no frame

ASSUME BoundsAssumption ==
  /\ {MaxMsgs, MaxFrames, MaxItems, MaxComplete, MaxQueue, MaxVersion, MaxEpochs} \subseteq Nat
  /\ MaxMsgs > 0 /\ MaxItems > 0 /\ MaxQueue > 0
ASSUME MessagesAssumption ==
  /\ Answers \subseteq Msgs
  /\ TurnOf \in [Msgs -> Turns] /\ Versions \in [Msgs -> 1..MaxVersion]
ASSUME NoValueAssumption ==
  Any \notin Turns /\ Unread \notin [Msgs -> 0..Quiet]

VARIABLES store,   \* the table: the version of each message, 0 when it is not there
          gone,    \* messages taken back or ended in an error; a new attempt has new ones
          owed,    \* frames whose change is stored and which are not written yet
          log,     \* every frame written to this state of the stream
          dropped, \* the last cursor the ring has evicted
          done,    \* message groups that are complete
          active,  \* the group written last, with its turn
          epoch,   \* names the state of the stream; cursors carry it
          readers

stream == <<log, dropped, done, active, epoch>>
vars == <<store, gone, owed, log, dropped, done, active, epoch, readers>>

None == 0                    \* no message, no group

Kinds == {"chunk", "finish", "message", "error", "commit", "rewound", "terminal"}
Frame == [kind : Kinds, msgs : SUBSET Msgs, ver : 0..MaxVersion, turn : Turns]
Entry == [kind : Kinds, msgs : SUBSET Msgs, ver : 0..MaxVersion, turn : Turns,
          group : Msgs \cup {None}]

Cursors == 0..MaxFrames
Places == {"idle", "read", "reserved", "open"}
Reader == [at : Places, submits : BOOLEAN, ep : 0..MaxEpochs, wait : BOOLEAN, turn : Turns \cup {Any},
           live : {"on", "shut", "done", "lost"}, queue : SUBSET (1..MaxFrames),
           parked : BOOLEAN, closing : BOOLEAN, frames : SUBSET (1..MaxFrames),
           batch : [Msgs -> 0..Quiet] \cup {Unread}, anchor : Msgs \cup {None},
           lo : Cursors, mark : Cursors, last : Cursors,
           view : [Msgs -> 0..Quiet], sound : BOOLEAN]

Nothing == [m \in Msgs |-> 0]
Fresh == [at |-> "idle", submits |-> FALSE, ep |-> 0, wait |-> TRUE, turn |-> Any, live |-> "shut",
          queue |-> {}, parked |-> FALSE, closing |-> FALSE, frames |-> {},
          batch |-> Unread, anchor |-> None, lo |-> 0, mark |-> 0, last |-> 0,
          view |-> Nothing, sound |-> FALSE]

Least(S) == CHOOSE n \in S : \A k \in S : n <= k
Last(S) == CHOOSE n \in S : \A k \in S : k <= n

-----------------------------------------------------------------------------
(* The ring.                                                                 *)

FrameOf(kind, S, v, t) == [kind |-> kind, msgs |-> S, ver |-> v, turn |-> t]
FrameIn(e) == FrameOf(e.kind, e.msgs, e.ver, e.turn)
Boundary(f) == f.kind \in {"commit", "rewound"}
Terminal(f) == f.kind = "terminal"
Piece(f) == f.kind \in {"chunk", "finish"}
\* What readers take for a word on a message of the table.
Tells(f) == f.kind \in {"message", "commit", "rewound"}

\* The group a frame names itself, and the one it belongs to.
Named(f) == IF f.msgs = {} THEN None ELSE Last(f.msgs)
GroupOf(f) ==
  IF Named(f) # None THEN Named(f)
  ELSE IF active.group # None /\ active.turn = f.turn THEN active.group ELSE None

\* What a frame completes: the messages it ends, the group that was being
\* written when another one begins, and the group of a boundary.
Completes(f) ==
  {m \in Msgs :
     \/ m \in f.msgs /\ f.kind # "chunk"
     \/ Named(f) \notin {None, m} /\ active.group = m
     \/ m = GroupOf(f) /\ (Terminal(f) \/ Boundary(f))}

\* Groups retained in ring d+1..Len(l), and where they begin and end.
Span(l, d, g) == {n \in d+1..Len(l) : l[n].group = g}
Groups(l, d) == {l[n].group : n \in d+1..Len(l)} \ {None}
Oldest(l, d, c) ==
  CHOOSE g \in Groups(l, d) \cap c : \A h \in Groups(l, d) \cap c :
    Least(Span(l, d, g)) <= Least(Span(l, d, h))

\* Where the ring begins after one round of eviction: past the oldest complete
\* group when too many are complete or the ring is too long, else past one frame
\* when it is too long.
NextDrop(l, d, c) ==
  LET complete == Groups(l, d) \cap c
      long == Len(l) - d > MaxItems
  IN IF complete # {} /\ (Cardinality(complete) > MaxComplete \/ long)
       THEN Last(Span(l, d, Oldest(l, d, c)))
     ELSE IF long THEN d + 1 ELSE d

\* A reader that resumed after a message knows all messages that follow it.
Seen(r, n, f) ==
  [r EXCEPT !.last = n,
            !.view = [m \in Msgs |->
              IF r.sound /\ m \in f.msgs /\ Tells(f) THEN f.ver ELSE @[m]]]
\* A terminal ends the replay and the subscription of a reader that resumed.
Ends(r) == [r EXCEPT !.closing = TRUE, !.live = "shut", !.queue = {}, !.frames = {}]
Delivered(r, n, f) ==
  IF ~r.submits /\ Terminal(f) THEN Ends(Seen(r, n, f)) ELSE Seen(r, n, f)
\* A live subscription takes a frame, hands it to the read that waits, or
\* overflows.
\* Slip: the queue of a subscription has no limit.
Pushed_Unbounded(r, n, f) ==
  IF r.ep # epoch \/ r.live # "on" \/ r.turn \notin {Any, f.turn} THEN r
  ELSE IF r.parked THEN Delivered([r EXCEPT !.parked = FALSE], n, f)
  ELSE [r EXCEPT !.queue = @ \cup {n}]
Pushed(r, n, f) ==
  IF r.ep # epoch \/ r.live # "on" \/ r.turn \notin {Any, f.turn} THEN r
  ELSE IF r.parked THEN Delivered([r EXCEPT !.parked = FALSE], n, f)
  ELSE IF Cardinality(r.queue) < MaxQueue THEN [r EXCEPT !.queue = @ \cup {n}]
  ELSE [r EXCEPT !.live = "lost", !.queue = {}]

\* An identity the ring still holds is not written again.  Each piece of an answer
\* is an event of its own.
\* Slip: every frame of a message has the same identity.
Duplicate_ByMessage(f) ==
  /\ ~Piece(f)
  /\ \E n \in dropped+1..Len(log) :
       log[n].kind = f.kind /\ log[n].msgs = f.msgs /\ log[n].turn = f.turn
Duplicate(f) ==
  ~Piece(f) /\ \E n \in dropped+1..Len(log) : f = FrameIn(log[n])

\* append: the frame enters the ring, the eviction goes round until nothing is
\* selected or the ring is empty, and the frame is published.  The last round forgets
\* the groups that are no longer there.
Enters(f, c) ==
  LET l == Append(log, [kind |-> f.kind, msgs |-> f.msgs, ver |-> f.ver,
                        turn |-> f.turn, group |-> GroupOf(f)])
      next == [n \in 0..Len(l) |-> NextDrop(l, n, c)]
      LastRound[n \in 0..Len(l)] ==
        IF next[n] \in {n, Len(l)} THEN n ELSE LastRound[next[n]]
  IN /\ Len(log) < MaxFrames
     /\ log' = l
     /\ \E p \in {LastRound[dropped]} \cap (dropped..Len(l)) :
          /\ next[p] \in {p, Len(l)} /\ dropped' = next[p]
          /\ done' = {g \in c : g = active'.group \/ g \in Groups(l, p)}
     /\ readers' = [s \in Readers |-> Pushed(readers[s], Len(l), f)]

\* write: the frame is classified, and enters unless it is a duplicate.
Write(f) ==
  LET c == done \cup Completes(f)
  IN /\ active' = IF Named(f) = None THEN active ELSE [group |-> Named(f), turn |-> f.turn]
     /\ IF Duplicate(f) THEN done' = c /\ UNCHANGED <<log, dropped, readers>>
                        ELSE Enters(f, c)
     /\ UNCHANGED epoch

-----------------------------------------------------------------------------
(* Those who write: the agent, the sender of messages, the compaction.       *)

Settled(S) == \A f \in owed : f.msgs \cap S = {}

\* The version of a row that its frames may have.  A compaction that was taken for
\* one that never ends has yet to be said to have ended.
Latest(m) == IF m \notin Answers /\ store[m] = Quiet THEN Versions[m] - 1 ELSE store[m]

\* The next version of a message is stored and its frame is owed.
Changed(kind, m) ==
  /\ m \notin gone /\ Settled({m}) /\ Latest(m) < Versions[m]
  /\ store[m] = 0 => \A k \in Msgs : k > m => store[k] = 0 /\ k \notin gone
  /\ store' = [store EXCEPT ![m] = Latest(m) + 1]
  /\ owed' = owed \cup {FrameOf(kind, {m}, Latest(m) + 1, TurnOf[m])}
  /\ UNCHANGED <<gone, stream, readers>>

\* An answer, and a message that is committed at once: a compaction commits its
\* message again when it ends.
Answer(m) == m \in Answers /\ Changed("message", m)
Commit(m) == m \notin Answers /\ Changed("commit", m)

\* An answer that ends in an error is not stored, and its frame is written.
\* Slip: it is stored like the others.
Fail_Stored(m) ==
  /\ m \in Answers \ gone /\ store[m] = 0
  /\ Write(FrameOf("error", {m}, 0, TurnOf[m]))
  /\ gone' = gone \cup {m} /\ store' = [store EXCEPT ![m] = 1]
  /\ UNCHANGED owed
Fail(m) ==
  /\ m \in Answers \ gone /\ store[m] = 0
  /\ Write(FrameOf("error", {m}, 0, TurnOf[m]))
  /\ gone' = gone \cup {m}
  /\ UNCHANGED <<store, owed>>

\* The history took the latest answers of a turn in: their rows are stored again,
\* with their names in the history.  The session's lane has no answer under way.
Anchor(t, S) ==
  LET stored == {m \in Answers : store[m] > 0 /\ TurnOf[m] = t}
  IN /\ S # {} /\ S \subseteq stored
     /\ \A m \in S, k \in stored : k > m => k \in S
     /\ \A f \in owed : f.kind # "message"
     /\ store' = [m \in Msgs |-> IF m \in S THEN Quiet ELSE store[m]]
     /\ UNCHANGED <<gone, owed, stream, readers>>

\* A look at the messages of a session marks a compaction that began and has not
\* ended as failed.  (One this process began is spared while it is the last row of
\* the page; which page is asked for is left open, and the compaction may still end.
\* Its writer is not between the table and the frame: no await of it is open.)
Repair(m) ==
  /\ m \notin Answers /\ store[m] \in 1..Versions[m]-1 /\ Settled({m})
  /\ store' = [store EXCEPT ![m] = Quiet]
  /\ UNCHANGED <<gone, owed, stream, readers>>

\* A recall takes the answers of a turn back, or the whole turn.
Rewind(t, S) ==
  /\ S # {} /\ Settled(S)
  /\ LET stored == {m \in Msgs : store[m] > 0 /\ TurnOf[m] = t}
     IN S \in {stored, stored \cap Answers}
  /\ store' = [m \in Msgs |-> IF m \in S THEN 0 ELSE store[m]]
  /\ gone' = gone \cup S
  /\ owed' = owed \cup {FrameOf("rewound", S, 0, t)}
  /\ UNCHANGED <<stream, readers>>

\* The frame of a stored change is written.  Its writer has awaited the table at
\* least once since it stored the change; a reader between its look at the table
\* and the next microtask has therefore seen the change.
Known(r, f) == \A m \in f.msgs : m > r.anchor => r.batch[m] = f.ver
Announce(f) ==
  /\ f \in owed
  /\ \A s \in Readers : readers[s].at = "read" => Known(readers[s], f)
  /\ owed' = owed \ {f}
  /\ Write(f)
  /\ UNCHANGED <<store, gone>>

\* A piece of an answer that is not stored yet; the piece that finishes it may be
\* followed by more.
Stream(m) ==
  /\ m \in Answers \ gone /\ store[m] = 0
  /\ \E piece \in {"chunk", "finish"} : Write(FrameOf(piece, {m}, 0, TurnOf[m]))
  /\ UNCHANGED <<store, gone, owed>>

\* The end of a turn.
EndTurn(t) ==
  /\ \A n \in 1..Len(log) : ~(Terminal(log[n]) /\ log[n].turn = t)
  /\ Write(FrameOf("terminal", {}, 0, t))
  /\ UNCHANGED <<store, gone, owed>>

\* An event is projected a second time.
WriteAgain ==
  /\ Len(log) > 0 /\ ~Piece(log[Len(log)])
  /\ Write(FrameIn(log[Len(log)]))
  /\ UNCHANGED <<store, gone, owed>>

-----------------------------------------------------------------------------
(* Those who read.                                                           *)

Set(s, r) == readers' = [readers EXCEPT ![s] = r]
Resting(s) == readers[s].at = "idle"
Here(r) == r.ep = epoch
\* The ring of the state a reader subscribed to.  A state that was dropped
\* while somebody read it had no frames.
Ring(r) == IF Here(r) THEN log ELSE <<>>

\* A subscription is made first, whatever is read afterwards.
Subscribed(r, wait) ==
  [r EXCEPT !.ep = epoch, !.wait = wait, !.live = "on"]
Idle(r) == IF r.wait THEN r ELSE [r EXCEPT !.closing = TRUE, !.live = "shut", !.queue = {}]

\* Without an anchor a reader sees what comes.
ResumeLive(s, wait) ==
  /\ Resting(s)
  /\ Set(s, Idle([Subscribed(Fresh, wait) EXCEPT !.at = "open", !.last = Len(log)]))
  /\ UNCHANGED <<store, gone, owed, stream>>

\* With a cursor it gets what the ring has after it.  The cursor may be of
\* another state of the stream, or of none.
ResumeAfterCursor(s, e, n, wait) ==
  /\ Resting(s)
  /\ Set(s, IF e # epoch \/ n \notin dropped..Len(log) THEN Fresh
            ELSE Idle([Subscribed(Fresh, wait) EXCEPT
                         !.at = "open", !.last = n, !.frames = n+1..Len(log)]))
     /\ UNCHANGED <<store, gone, owed, stream>>

\* With a message it notes what the ring has and reads the table (listAfter reads
\* before it returns; what follows the await is FinishReplay).
ResumeAfterMessage(s, m, wait) ==
  /\ Resting(s)
  /\ Set(s, IF store[m] = 0 THEN Fresh
            ELSE [Subscribed(Fresh, wait) EXCEPT
                    !.at = "read", !.anchor = m, !.lo = dropped, !.mark = Len(log),
                    !.batch = [k \in Msgs |-> IF k > m THEN store[k] ELSE 0]])
  /\ UNCHANGED <<store, gone, owed, stream>>

\* throughFirstTerminal: where the replay ends.
ReplayEnd(r) ==
  LET ends == {n \in r.mark+1..Len(Ring(r)) : Terminal(Ring(r)[n])}
  IN IF ends = {} THEN Len(Ring(r)) ELSE Least(ends)
\* withoutMessagesCommittedAfterFirstTerminal.
CommittedLate(r) ==
  UNION {Ring(r)[n].msgs : n \in {k \in ReplayEnd(r)+1..Len(Ring(r)) :
                                    Ring(r)[k].kind = "commit"}}
\* foldCatchupMessages: the last word on each message.
Folded(r) ==
  [m \in Msgs |->
     LET words == {n \in r.mark+1..ReplayEnd(r) : Boundary(Ring(r)[n]) /\ m \in Ring(r)[n].msgs}
     IN IF words # {} THEN Ring(r)[Last(words)].ver
        ELSE IF m \in CommittedLate(r) THEN 0 ELSE r.batch[m]]
\* stitchDurableReplay: the frames that follow the last boundary, none of which
\* is a terminal from before the resume.
LastBoundary(r) ==
  LET bounds == {n \in r.lo+1..ReplayEnd(r) : Boundary(Ring(r)[n])}
  IN IF bounds = {} THEN r.lo ELSE Last(bounds)
Stitched(r) ==
  {n \in LastBoundary(r)+1..ReplayEnd(r) : Terminal(Ring(r)[n]) => n > r.mark}

\* Slip: what the replay has is left in the queue of the subscription.
FinishReplay_Twice(s) ==
  LET r == readers[s] IN
  /\ r.at = "read"
  /\ Set(s, IF Here(r) /\ r.mark < dropped THEN Fresh
            ELSE Idle([r EXCEPT !.at = "open", !.batch = Folded(r), !.frames = Stitched(r),
                                !.last = LastBoundary(r), !.lo = 0]))
  /\ UNCHANGED <<store, gone, owed, stream>>
FinishReplay(s) ==
  LET r == readers[s]
      cut == [r EXCEPT !.queue = {n \in @ : n \notin r.lo+1..Len(Ring(r))}]
  IN /\ r.at = "read"
     /\ Set(s, IF Here(r) /\ r.mark < dropped THEN Fresh
               ELSE Idle([cut EXCEPT !.at = "open", !.batch = Folded(r),
                                     !.frames = Stitched(r), !.last = LastBoundary(r),
                                     !.lo = 0]))
     /\ UNCHANGED <<store, gone, owed, stream>>

\* reserve, and bindTurn once the submission is accepted.
Reserve(s) ==
  /\ Resting(s)
  /\ Set(s, [Subscribed(Fresh, TRUE) EXCEPT !.at = "reserved", !.submits = TRUE, !.last = Len(log)])
  /\ UNCHANGED <<store, gone, owed, stream>>
BindTurn(s, t) ==
  LET r == readers[s] IN
  /\ r.at = "reserved"
  /\ Set(s, [r EXCEPT !.at = "open", !.turn = t,
                      !.queue = {n \in @ : Ring(r)[n].turn = t}])
  /\ UNCHANGED <<store, gone, owed, stream>>

\* complete: what is queued can still be read.
Complete(s) ==
  LET r == readers[s] IN
  /\ r.at = "open" /\ r.submits /\ r.live = "on"
  /\ Set(s, IF r.parked THEN Fresh ELSE [r EXCEPT !.live = "done"])
  /\ UNCHANGED <<store, gone, owed, stream>>

\* discardIfEmpty: a refused submission takes an unused state with it.
Discard(s) ==
  LET r == readers[s] IN
  /\ r.at = "reserved"
  /\ Set(s, Fresh)
  /\ IF /\ Here(r) /\ log = <<>>
        /\ \A o \in Readers \ {s} :
             ~readers[o].submits \/ readers[o].live = "done" \/ ~Here(readers[o])
     THEN /\ epoch < MaxEpochs
          /\ epoch' = epoch + 1
          /\ UNCHANGED <<log, dropped, done, active>>
     ELSE UNCHANGED stream
  /\ UNCHANGED <<store, gone, owed>>

\* next: the replay, then the subscription.
Replaying(r) == r.batch # Unread \/ r.frames # {}
Take(s) ==
  LET r == readers[s] IN
  /\ r.at = "open" /\ ~r.parked
  /\ Set(s,
       IF r.batch # Unread THEN [r EXCEPT !.view = r.batch, !.batch = Unread, !.sound = TRUE]
       ELSE IF r.frames # {}
         THEN LET n == Least(r.frames)
              IN Delivered([r EXCEPT !.frames = @ \ {n}], n, Ring(r)[n])
       ELSE IF r.closing \/ r.live = "lost" THEN Fresh
       ELSE IF r.queue # {}
         THEN LET n == Least(r.queue)
              IN Delivered([r EXCEPT !.queue = @ \ {n}], n, Ring(r)[n])
       ELSE IF r.live = "on" THEN [r EXCEPT !.parked = TRUE]
       ELSE Fresh)
  /\ UNCHANGED <<store, gone, owed, stream>>

\* return: the consumer goes away.
Leave(s) ==
  /\ ~Resting(s)
  /\ Set(s, Fresh)
  /\ UNCHANGED <<store, gone, owed, stream>>

-----------------------------------------------------------------------------
NewState ==
  /\ epoch < MaxEpochs
  /\ epoch' = epoch + 1 /\ log' = <<>> /\ dropped' = 0 /\ done' = {}
  /\ active' = [group |-> None, turn |-> Any]
  /\ readers' = [s \in Readers |-> Fresh]

\* deleteSession: the messages go as well.
DeleteSession ==
  /\ NewState
  /\ store' = Nothing /\ gone' = Msgs /\ owed' = {}

\* The process dies: the table stays, and nobody writes what was owed.
Restart ==
  /\ NewState
  /\ owed' = {}
  /\ UNCHANGED <<store, gone>>

Init ==
  /\ store = [m \in Msgs |-> IF m = 1 THEN 1 ELSE 0]
  /\ gone = {} /\ owed = {}
  /\ log = <<>> /\ dropped = 0 /\ done = {} /\ epoch = 0
  /\ active = [group |-> None, turn |-> Any]
  /\ readers = [s \in Readers |-> Fresh]

Written ==
  \/ \E m \in Msgs : Answer(m) \/ Commit(m) \/ Fail(m) \/ Repair(m) \/ Stream(m)
  \/ \E t \in Turns : EndTurn(t) \/ \E S \in SUBSET Msgs : Rewind(t, S) \/ Anchor(t, S)
  \/ \E f \in owed : Announce(f)
  \/ WriteAgain
Resumed(s) ==
  \/ \E w \in BOOLEAN :
       \/ ResumeLive(s, w)
       \/ \E m \in Msgs : ResumeAfterMessage(s, m, w)
       \/ \E e \in 0..epoch, n \in Cursors : ResumeAfterCursor(s, e, n, w)
  \/ FinishReplay(s)
Reserved(s) ==
  \/ Reserve(s) \/ Complete(s) \/ Discard(s)
  \/ \E t \in Turns : BindTurn(s, t)
Next ==
  \/ Written
  \/ \E s \in Readers : Resumed(s) \/ Reserved(s) \/ Take(s) \/ Leave(s)
  \/ DeleteSession \/ Restart

Spec == Init /\ [][Next]_vars

-----------------------------------------------------------------------------
(* Properties.                                                               *)

TypesAndLimits ==
  /\ store \in [Msgs -> 0..Quiet] /\ gone \subseteq Msgs /\ owed \subseteq Frame
  /\ log \in Seq(Entry) /\ Len(log) <= MaxFrames /\ dropped \in 0..Len(log)
  /\ Len(log) - dropped <= MaxItems
  /\ done \subseteq Msgs /\ epoch \in 0..MaxEpochs
  /\ active \in [group : Msgs \cup {None}, turn : Turns \cup {Any}]
  /\ readers \in [Readers -> Reader]
  /\ \A s \in Readers : Cardinality(readers[s].queue) <= MaxQueue

\* A reader that is still served.
Served(r) == r.at = "open" /\ r.live = "on" /\ Here(r) /\ ~r.closing

\* What a reader has not seen yet is exactly what waits for it: every frame after
\* the last one it saw, once, the replay before the subscription, up to the
\* terminal at which it will stop.  Nothing falls between replay and subscription,
\* nothing comes twice.
Due(r, n) == r.turn \in {Any, log[n].turn} /\ (Terminal(log[n]) => n > r.mark)
Horizon(r) ==
  LET ends == {n \in r.frames : Terminal(log[n])}
  IN IF ends = {} THEN Len(log) ELSE Least(ends)
NothingMissed ==
  \A s \in Readers : LET r == readers[s] IN
    Served(r) =>
      /\ \A n \in 1..Horizon(r) :
           n \in r.frames \cup r.queue <=> r.last < n /\ Due(r, n)
      /\ \A n \in r.frames, k \in r.queue : n < k
      /\ r.parked => r.queue = {} /\ ~Replaying(r)

\* A reader that resumed after a message, has read what there was and is owed
\* nothing shows the messages of the table: all of them, each as its last frame had
\* it, and none that was taken back or ended in an error.  Of a row that was changed
\* without a frame it knows that it is there, and may show it as it was.
Agrees(v, w) == v = w \/ (w = Quiet /\ v > 0)
ViewConverges ==
  \A s \in Readers : LET r == readers[s] IN
    (Served(r) /\ r.sound /\ ~Replaying(r) /\ r.queue = {} /\ owed = {}) =>
      \A m \in Msgs : m > r.anchor => Agrees(r.view[m], store[m])

\* A reader that waits is subscribed to the state that is written to.
WaitersAreHeard ==
  \A s \in Readers : (~Resting(s) /\ ~readers[s].submits /\ readers[s].wait) => Here(readers[s])
=============================================================================
