-------------------------- MODULE OAuthCoreProofs --------------------------
(***************************************************************************)
(* Proofs about OAuthCore, for any number of processes, grants, logins and *)
(* crashes: a signed-in state has its credential, a refresh token is used  *)
(* once, a login that was signed out or cancelled does not return, only a  *)
(* login signs in, and a generation names one token.  CoreInv is about the *)
(* files and the lock, TokenInv about the tokens that are stored, owed and *)
(* gone, GenInv about the generations of the tokens that were handed out.  *)
(***************************************************************************)
EXTENDS OAuthCore, TLAPS

\* Where a process works under the lock.
Locked == {"ref.call", "ref.put", "ref.state", "ref.delete", "out.revoke", "out.state",
           "log.state", "log.final", "log.undo", "log.undo2"}

\* Where it has a token that is not stored yet, and where it has stored the
\* one of its login and may still have to take it back.
Unstored  == {"want.commit", "ref.put"}
Committed == {"log.state", "log.final", "log.undo", "log.undo2"}

LockInv == \A p \in Procs : at[p] \in Locked <=> lock = {p}

SignedIn == {"authenticated", "expired", "refreshing"}

\* What the files say while p is in the middle of a write.
Phase(p) ==
  /\ at[p] \in {"ref.call", "ref.put"} =>
       /\ my[p].cr = cr /\ cr # {} /\ st.status = "refreshing" /\ st.gen = CredGen(cr)
       /\ my[p].st.gen = st.gen /\ my[p].st.status \in SignedIn
  /\ at[p] = "ref.state" => st.status = "refreshing" /\ cr # {}
  /\ at[p] = "ref.delete" => st.status = "anonymous"
  /\ at[p] \in {"out.revoke", "out.state"} => st.status = "logging_out"
  /\ at[p] \in {"log.state", "log.undo2"} => st.status = "authorizing"
  /\ at[p] \in {"log.state", "log.final"} => cr # {}
  /\ at[p] \in {"log.final", "log.undo"} => st.status \in {"authorizing", "authenticated"}
  /\ at[p] \in Committed => my[p].st.status = "authorizing"
  /\ at[p] \in Unstored \cup Committed => my[p].tok \in Tokens

PhaseInv == \A p \in Procs : Phase(p)

\* The files and the lock.
CoreInv == TypeOK /\ LockInv /\ PhaseInv /\ SignedInHasCredential

Names(c) == {x.tok : x \in c} \cup {x.epoch : x \in c}
Old == spent \cup ended \cup cancelled

\* What has become of the tokens that are stored, exchanged or signed out.
FilesInv ==
  /\ \A n \in Old \cup Names(cr) : n \in 1..grants
  /\ \A x \in cr : x.epoch \notin ended \cup cancelled
  /\ \A x \in cr : x.tok \in spent \ orphans => \E p \in Procs : at[p] = "ref.put"
  /\ replayed \subseteq orphans

\* A token that p has not stored yet is new, and what p would put back is fit
\* to be stored again.
Known(p) ==
  /\ at[p] \in Unstored => my[p].tok \in 1..grants /\ my[p].tok \notin Old \cup Names(cr)
  /\ at[p] \in Committed =>
       /\ \A n \in Names(my[p].cr) : n \in 1..grants
       /\ \A x \in my[p].cr : x.epoch \notin ended \cup cancelled /\ x.tok \notin spent \ orphans
       /\ \A x \in cr : x.epoch = my[p].tok
       /\ my[p].tok \in 1..grants /\ my[p].tok \notin Names(my[p].cr) \cup Old

\* The token of a login is nobody else's.
Apart(p, q) ==
  p # q /\ at[p] = "want.commit" /\ at[q] \in Unstored \cup Committed =>
    /\ my[p].tok # my[q].tok
    /\ at[q] \in Committed => my[p].tok \notin Names(my[q].cr)

\* The tokens.
TokenInv ==
  FilesInv /\ (\A p \in Procs : Known(p)) /\ (\A p, q \in Procs : Apart(p, q))

IInv == CoreInv /\ TokenInv

\* The bounds are numbers.
LEMMA Bounds == MaxTokens \in Nat /\ MaxLogins \in Nat /\ MaxCrashes \in Nat /\ MaxGen \in Nat
BY BoundsAssumption

\* No record and one record are what a file may hold.
LEMMA Singles ==
  ASSUME NEW S, NEW x \in S
  PROVE  {} \in OneOf(S) /\ {x} \in OneOf(S)
BY DEF OneOf

\* A process alone with the lock, and a lock that is left.
LEMMA Locks ==
  ASSUME lock \in OneOf(Procs), NEW p \in Procs
  PROVE  lock \ {p} \in OneOf(Procs) /\ (p \in lock => lock = {p})
BY DEF OneOf

\* The one credential of a file is the one that is chosen.
LEMMA TheCredential ==
  ASSUME NEW c \in OneOf(Credential)
  PROVE  /\ CredGen(c) \in Nat
         /\ \A x \in c : c = {x} /\ CredGen(c) = x.gen /\ (CHOOSE y \in c : TRUE) = x
                         /\ x.tok \in Tokens /\ x.epoch \in Tokens /\ x \in Credential
<1>1. CASE c = {}
  BY <1>1 DEF CredGen
<1>2. ASSUME NEW x \in c PROVE c = {x} /\ (CHOOSE y \in c : TRUE) = x /\ x \in Credential
  BY <1>2 DEF OneOf
<1>3. ASSUME NEW x \in c PROVE CredGen(c) = x.gen /\ x.gen \in Nat /\ x.tok \in Tokens /\ x.epoch \in Tokens
  BY <1>2, <1>3 DEF CredGen, Credential
<1>. QED BY <1>1, <1>2, <1>3

\* The states and memories that the actions write.
LEMMA States ==
  /\ Blank \in Memory
  /\ \A s \in State : [Blank EXCEPT !.op = "get", !.st = s] \in Memory
  /\ \A x \in Credential : [Blank EXCEPT !.cr = {x}] \in Memory
  /\ \A n \in {0} \cup Leases : [Blank EXCEPT !.lease = n] \in Memory
  /\ \A s \in Status, g \in Nat : Base(s, g) \in State
  /\ \A s \in State : s.status \in Status /\ s.gen \in Nat /\ s.lease \in {0} \cup Leases
  /\ \A s \in State, t \in Status : /\ [s EXCEPT !.status = t] \in State
                                   /\ [s EXCEPT !.status = t].gen = s.gen
                                   /\ [s EXCEPT !.status = t].status = t
BY Singles DEF Blank, Memory, Base, State, Status, Stable, Lives, OneOf

\* What a process remembers, and how it is amended.
LEMMA Memories ==
  ASSUME NEW m \in Memory
  PROVE  /\ m.cr \in OneOf(Credential) /\ m.st \in State /\ m.tok \in {0} \cup Tokens
         /\ m.lease \in {0} \cup Leases /\ m.left \in Lives
         /\ \A s \in State, c \in OneOf(Credential), o \in {"get", "unauth", "login"} :
              [m EXCEPT !.op = o, !.st = s, !.cr = c] \in Memory
         /\ \A t \in Tokens : [m EXCEPT !.tok = t] \in Memory
         /\ [m EXCEPT !.sig = TRUE] \in Memory
         /\ \A s \in State, c \in OneOf(Credential), l \in Lives :
              [m EXCEPT !.st = s, !.cr = c, !.left = l] \in Memory
BY DEF Memory

\* What every step of a process keeps: it moves, and only the process with
\* the lock, or one that takes it, touches the files.
Moves(p) == \E x \in Places, m \in Memory : at' = [at EXCEPT ![p] = x] /\ my' = [my EXCEPT ![p] = m]
Alone(p) == lock \in {{}, {p}} /\ lock' \in {{}, {p}}
Files == st \in State /\ cr \in OneOf(Credential) /\ left \in Lives
Rest ==
  /\ lapsed \subseteq Leases
  /\ leases \in 0..MaxLogins /\ grants \in 0..MaxTokens /\ crashes \in 0..MaxCrashes
  /\ handed \subseteq Credential
  /\ spent \subseteq Tokens /\ replayed \subseteq Tokens /\ orphans \subseteq Tokens
  /\ ended \subseteq Tokens /\ cancelled \subseteq Tokens /\ torn \subseteq Tokens

\* A step of p that is typed, works alone or leaves the files, and is right
\* about its own phase keeps the first part of the invariant.
LEMMA Frame ==
  ASSUME CoreInv, NEW p \in Procs, Moves(p), Files', Rest',
         Alone(p) \/ UNCHANGED <<st, cr, lock>>,
         at'[p] \in Locked <=> lock' = {p},
         Phase(p)', SignedInHasCredential'
  PROVE  CoreInv' /\ Moves(p)
<1>1. TypeOK'
  <2>1. at' \in [Procs -> Places] /\ my' \in [Procs -> Memory]
    BY DEF CoreInv, TypeOK, Moves
  <2>2. lock \in OneOf(Procs)
    BY DEF CoreInv, TypeOK
  <2>3. {} \in OneOf(Procs) /\ {p} \in OneOf(Procs)
    BY Singles
  <2>4. lock' \in OneOf(Procs)
    BY <2>2, <2>3 DEF Alone
  <2>. QED BY <2>1, <2>4 DEF TypeOK, Files, Rest
<1>2. ASSUME NEW q \in Procs, q # p PROVE at'[q] = at[q] /\ my'[q] = my[q]
  BY <1>2 DEF CoreInv, TypeOK, Moves
<1>3. LockInv'
  BY <1>2 DEF CoreInv, LockInv, Alone
<1>4. ASSUME NEW q \in Procs, q # p PROVE Phase(q)'
  <2>1. CASE UNCHANGED <<st, cr>>
    BY <1>2, <1>4, <2>1 DEF CoreInv, PhaseInv, Phase, Unstored, Committed
  <2>2. CASE Alone(p)
    <3>1. at[q] \notin Locked
      BY <1>4, <2>2 DEF CoreInv, LockInv, Alone
    <3>2. Phase(q)
      BY DEF CoreInv, PhaseInv
    <3>. QED BY <1>2, <1>4, <3>1, <3>2 DEF Phase, Locked, Unstored, Committed
  <2>. QED BY <2>1, <2>2
<1>. QED BY <1>1, <1>3, <1>4 DEF CoreInv, PhaseInv

\* What is known of a process that takes a step.
LEMMA Here ==
  ASSUME CoreInv, NEW p \in Procs
  PROVE  /\ at[p] \in Places /\ my[p] \in Memory /\ at \in [Procs -> Places]
         /\ my \in [Procs -> Memory] /\ Files /\ Rest /\ lock \in OneOf(Procs)
         /\ Phase(p) /\ (at[p] \in Locked <=> lock = {p}) /\ SignedInHasCredential
BY DEF CoreInv, TypeOK, Files, Rest, PhaseInv, LockInv

\* The generation that the next write counts from.
LEMMA Numbers ==
  ASSUME NEW s \in State, NEW c \in OneOf(Credential)
  PROVE  CredGen(c) \in Nat /\ TopGen(s, c) \in Nat /\ TopGen(s, c) >= s.gen /\ TopGen(s, c) >= CredGen(c)
<1>1. CredGen(c) \in Nat /\ s.gen \in Nat
  BY TheCredential, States
<1>. QED BY <1>1 DEF TopGen, Larger

\* The ways in which a process moves.
LEMMA Ways ==
  ASSUME NEW p \in Procs, my \in [Procs -> Memory]
  PROVE  /\ \A x \in Places : Goto(p, x) /\ UNCHANGED my => Moves(p)
         /\ \A x \in Places, m \in Memory : Goto(p, x) /\ Note(p, m) => Moves(p)
         /\ Done(p) => Moves(p)
<1>1. ASSUME UNCHANGED my PROVE my' = [my EXCEPT ![p] = my[p]] /\ my[p] \in Memory
  BY <1>1
<1>2. Blank \in Memory /\ "idle" \in Places
  BY States DEF Places
<1>. QED BY <1>1, <1>2 DEF Goto, Note, Done, Moves

\* What is asked of a process that refreshes.
LEMMA OldOne ==
  ASSUME NEW p \in Procs, Phase(p), Files, at[p] \in {"ref.call", "ref.put"}
  PROVE  /\ OldToken(p) \in Tokens /\ my[p].cr = cr /\ my[p].cr # {}
         /\ \A x \in cr : cr = {x} /\ x.tok = OldToken(p) /\ x.gen = CredGen(cr)
BY TheCredential DEF Phase, Files, OldToken

\* refreshCredential starts with a usable credential and the lock.
LEMMA Refreshes ==
  ASSUME CoreInv, NEW p \in Procs, NEW o \in {"get", "unauth", "login"},
         Usable(st, cr) # {}, Free, BeginRefresh(p, o), SameServer, SameFates
  PROVE  CoreInv' /\ Moves(p)
<1>0. /\ at[p] \in Places /\ my[p] \in Memory /\ at \in [Procs -> Places]
      /\ my \in [Procs -> Memory] /\ Files /\ Rest
  BY Here
<1>. DEFINE m == [my[p] EXCEPT !.op = o, !.st = st, !.cr = cr]
<1>1. m \in Memory
  BY <1>0, Memories DEF Files
<1>2. /\ m.cr = cr /\ m.st = st
  BY <1>0 DEF Memory
<1>3. Goto(p, "ref.call") /\ Note(p, m) /\ "ref.call" \in Places
  BY DEF BeginRefresh, Places
<1>4. Moves(p)
  BY <1>0, <1>1, <1>3, Ways
<1>5. at'[p] = "ref.call" /\ my'[p] = m
  BY <1>0, <1>3 DEF Goto, Note
<1>6. /\ st' = [st EXCEPT !.status = "refreshing"] /\ lock' = {p} /\ lock = {}
      /\ UNCHANGED <<cr, handed>>
  BY DEF BeginRefresh, Take, Free
<1>7. st' \in State /\ st'.status = "refreshing" /\ st'.gen = st.gen
  BY <1>0, <1>6, States DEF Files, Status
<1>8. Files'
  BY <1>0, <1>6, <1>7 DEF Files, SameServer
<1>9. Rest'
  BY <1>0, <1>6 DEF Rest, SameServer, SameCounts, SameFates
<1>10. cr # {} /\ st.gen = CredGen(cr) /\ st.status \in SignedIn
  <2>1. PICK x \in cr : st.status \in SignedIn /\ st.gen = x.gen
    BY DEF Usable, SignedIn
  <2>. QED BY <1>0, <2>1, TheCredential DEF Files
<1>11. Phase(p)'
  BY <1>2, <1>5, <1>6, <1>7, <1>10 DEF Phase, Unstored, Committed
<1>12. SignedInHasCredential'
  BY <1>7 DEF SignedInHasCredential
<1>13. at'[p] \in Locked /\ Alone(p)
  BY <1>5, <1>6 DEF Locked, Alone
<1>. QED BY <1>4, <1>6, <1>8, <1>9, <1>11, <1>12, <1>13, Frame

\* The reads, and what they adopt, keep the first part.
LEMMA ReadingCore ==
  ASSUME CoreInv, NEW p \in Procs, Reading(p)
  PROVE  CoreInv' /\ Moves(p)
<1>0. /\ at[p] \in Places /\ my[p] \in Memory /\ at \in [Procs -> Places]
      /\ my \in [Procs -> Memory] /\ Files /\ Rest /\ lock \in OneOf(Procs)
      /\ Phase(p) /\ (at[p] \in Locked <=> lock = {p}) /\ SignedInHasCredential
  BY Here
<1>1. ASSUME GetRead(p) PROVE CoreInv' /\ Moves(p)
  <2>1. Moves(p)
    BY <1>0, <1>1, Ways, States DEF Files, Places, GetRead
  <2>2. Files'
    BY <1>0, <1>1 DEF Files, Lives, GetRead, Goto, Note, SameServer, SameCounts, SameFates, files
  <2>3. Rest'
    BY <1>0, <1>1, Bounds DEF Rest, GetRead, Goto, Note, SameServer, SameCounts, SameFates, files
  <2>4. (Alone(p) \/ UNCHANGED <<st, cr, lock>>) /\ (at'[p] \in Locked <=> lock' = {p})
    BY <1>0, <1>1 DEF Alone, Locked, GetRead, Goto, Note, SameServer, SameCounts, SameFates, files
  <2>5. Phase(p)' /\ SignedInHasCredential'
    BY <1>0, <1>1 DEF Phase, Unstored, Committed, SignedIn, SignedInHasCredential, Files, Base, GetRead, Goto, Note, SameServer, SameCounts, SameFates, files
  <2>. QED BY <2>1, <2>2, <2>3, <2>4, <2>5, Frame
<1>2. ASSUME GetCred(p) PROVE CoreInv' /\ Moves(p)
  <2>1. Moves(p)
    BY <1>0, <1>2, Ways DEF Places, GetCred
  <2>2. Files'
    BY <1>0, <1>2 DEF Files, Lives, GetCred, Goto, Done, SameServer, SameCounts, SameFates, files, Usable, LongEnough
  <2>3. Rest'
    BY <1>0, <1>2 DEF Rest, Files, OneOf, GetCred, Goto, Done, SameServer, SameCounts, SameFates, files, Usable, LongEnough
  <2>4. (Alone(p) \/ UNCHANGED <<st, cr, lock>>) /\ (at'[p] \in Locked <=> lock' = {p})
    BY <1>0, <1>2 DEF Alone, Locked, GetCred, Goto, Done, SameServer, SameCounts, SameFates, files, Usable, LongEnough
  <2>5. Phase(p)' /\ SignedInHasCredential'
    BY <1>0, <1>2 DEF Phase, Unstored, Committed, SignedIn, SignedInHasCredential, Files, Base, GetCred, Goto, Done, SameServer, SameCounts, SameFates, files, Usable, LongEnough
  <2>. QED BY <2>1, <2>2, <2>3, <2>4, <2>5, Frame
<1>3. ASSUME GetLocked(p) PROVE CoreInv' /\ Moves(p)
  <2>1. CASE Usable(st, cr) # {} /\ {x \in Usable(st, cr) : LongEnough(st)} = {}
    BY <1>3, <2>1, Refreshes DEF GetLocked
  <2>2. CASE ~(Usable(st, cr) # {} /\ {x \in Usable(st, cr) : LongEnough(st)} = {})
    <3>1. /\ handed' = handed \cup {x \in Usable(st, cr) : LongEnough(st)}
          /\ Done(p) /\ UNCHANGED files /\ SameServer /\ SameFates /\ at[p] = "want.get"
      BY <1>3, <2>2 DEF GetLocked
    <3>2. Moves(p)
      BY <1>0, <3>1, Ways
    <3>3. Files'
      BY <1>0, <3>1 DEF Files, files, SameServer
    <3>4. Rest'
      BY <1>0, <3>1 DEF Rest, Files, OneOf, Usable, SameServer, SameCounts, SameFates
    <3>5. UNCHANGED <<st, cr, lock>> /\ (at'[p] \in Locked <=> lock' = {p})
      BY <1>0, <3>1 DEF Locked, files, Done, Goto
    <3>6. Phase(p)' /\ SignedInHasCredential'
      BY <1>0, <3>1 DEF Phase, Unstored, Committed, SignedInHasCredential, files, Done, Goto
    <3>. QED BY <3>2, <3>3, <3>4, <3>5, <3>6, Frame
  <2>. QED BY <2>1, <2>2
<1>4. ASSUME StatusReads(p) PROVE CoreInv' /\ Moves(p)
  <2>1. Moves(p)
    BY <1>0, <1>4 DEF Moves, Places, StatusReads, Goto, SameServer, SameCounts, SameFates, files
  <2>2. Files'
    BY <1>0, <1>4 DEF Files, Lives, StatusReads, Goto, SameServer, SameCounts, SameFates, files
  <2>3. Rest'
    BY <1>0, <1>4, Bounds DEF Rest, StatusReads, Goto, SameServer, SameCounts, SameFates, files
  <2>4. (Alone(p) \/ UNCHANGED <<st, cr, lock>>) /\ (at'[p] \in Locked <=> lock' = {p})
    BY <1>0, <1>4 DEF Alone, Locked, StatusReads, Goto, SameServer, SameCounts, SameFates, files
  <2>5. Phase(p)' /\ SignedInHasCredential'
    BY <1>0, <1>4 DEF Phase, Unstored, Committed, SignedIn, SignedInHasCredential, Files, Base, StatusReads, Goto, SameServer, SameCounts, SameFates, files
  <2>. QED BY <2>1, <2>2, <2>3, <2>4, <2>5, Frame
<1>5. ASSUME StatusRecovers(p) PROVE CoreInv' /\ Moves(p)
  <2>1. Moves(p)
    BY <1>0, <1>5, States DEF Moves, Places, StatusRecovers, Done, Goto, Free, SameServer, SameCounts, SameFates
  <2>2. Files'
    BY <1>0, <1>5, States, Numbers DEF Files, StatusRecovers, SameServer, Status, Stable
  <2>3. Rest'
    BY <1>0, <1>5, Bounds DEF Rest, StatusRecovers, Done, Goto, Free, SameServer, SameCounts, SameFates
  <2>4. (Alone(p) \/ UNCHANGED <<st, cr, lock>>) /\ (at'[p] \in Locked <=> lock' = {p})
    BY <1>0, <1>5 DEF Alone, Locked, StatusRecovers, Done, Goto, Free, SameServer, SameCounts, SameFates
  <2>5. Phase(p)' /\ SignedInHasCredential'
    <3>1. CASE st' = st
      BY <1>0, <1>5, <3>1 DEF Phase, Unstored, Committed, SignedInHasCredential, StatusRecovers, Done, Goto
    <3>2. CASE st' = Base("authenticated", CredGen(cr)) /\ CredGen(cr) > st.gen
      <4>1. cr # {}
        <5>1. CredGen({}) = 0 /\ st.gen \in Nat
          BY <1>0, States DEF CredGen, Files
        <5>. QED BY <3>2, <5>1
      <4>2. st'.gen = CredGen(cr) /\ cr' = cr
        BY <1>5, <3>2 DEF Base, StatusRecovers
      <4>3. SignedInHasCredential'
        BY <1>0, <4>1, <4>2, TheCredential DEF SignedInHasCredential, Files
      <4>4. at'[p] = "idle"
        BY <1>0, <1>5 DEF StatusRecovers, Done, Goto
      <4>. QED BY <4>3, <4>4 DEF Phase, Unstored, Committed
    <3>. QED BY <1>5, <3>1, <3>2 DEF StatusRecovers
  <2>. QED BY <2>1, <2>2, <2>3, <2>4, <2>5, Frame
<1>. QED BY <1>1, <1>2, <1>3, <1>4, <1>5 DEF Reading

\* A refresh keeps the first part.
LEMMA RefreshingCore ==
  ASSUME CoreInv, NEW p \in Procs, Refreshing(p)
  PROVE  CoreInv' /\ Moves(p)
<1>0. /\ at[p] \in Places /\ my[p] \in Memory /\ at \in [Procs -> Places]
      /\ my \in [Procs -> Memory] /\ Files /\ Rest /\ lock \in OneOf(Procs)
      /\ Phase(p) /\ (at[p] \in Locked <=> lock = {p}) /\ SignedInHasCredential
  BY Here
<1>1. ASSUME RefreshGranted(p) PROVE CoreInv' /\ Moves(p)
  <2>0. grants + 1 \in Tokens /\ OldToken(p) \in Tokens
    BY <1>0, <1>1, Bounds, OldOne DEF Rest, Tokens, RefreshGranted
  <2>1. Moves(p)
    BY <1>0, <1>1, <2>0, Ways, Memories DEF Places, RefreshGranted
  <2>2. Files'
    BY <1>0, <1>1 DEF Files, Lives, RefreshGranted, Goto, Note, OldToken, Presented
  <2>3. Rest'
    BY <1>0, <1>1, <2>0, Bounds DEF Rest, RefreshGranted, Goto, Note, OldToken, Presented
  <2>4. (Alone(p) \/ UNCHANGED <<st, cr, lock>>) /\ (at'[p] \in Locked <=> lock' = {p})
    BY <1>0, <1>1 DEF Alone, Locked, RefreshGranted, Goto, Note, OldToken, Presented
  <2>5. Phase(p)' /\ SignedInHasCredential'
    <3>1. my'[p] = [my[p] EXCEPT !.tok = grants + 1] /\ my'[p].tok \in Tokens
      BY <1>0, <1>1, <2>0 DEF RefreshGranted, Note, Memory
    <3>2. my'[p].cr = my[p].cr /\ my'[p].st = my[p].st
      BY <1>0, <3>1 DEF Memory
    <3>. QED BY <1>0, <1>1, <3>1, <3>2 DEF Phase, Unstored, Committed, SignedInHasCredential, RefreshGranted, Goto
  <2>. QED BY <2>1, <2>2, <2>3, <2>4, <2>5, Frame
<1>2. ASSUME RefreshRefused(p) PROVE CoreInv' /\ Moves(p)
  <2>a. my[p].cr \in OneOf(Credential)
    BY <1>0, Memories
  <2>0. CredGen(my[p].cr) + 1 \in Nat
    BY <2>a, TheCredential
  <2>1. Moves(p)
    BY <1>0, <1>2 DEF Moves, Places, RefreshRefused, Goto, SameServer, SameCounts, Presented, OldToken
  <2>2. Files'
    BY <1>0, <1>2, <2>0, States DEF Files, SameServer, RefreshRefused, Status, Stable
  <2>3. Rest'
    BY <1>0, <1>2, Bounds DEF Rest, RefreshRefused, Goto, SameServer, SameCounts, Presented, OldToken
  <2>4. (Alone(p) \/ UNCHANGED <<st, cr, lock>>) /\ (at'[p] \in Locked <=> lock' = {p})
    BY <1>0, <1>2 DEF Alone, Locked, RefreshRefused, Goto, SameServer, SameCounts, Presented, OldToken
  <2>5. Phase(p)' /\ SignedInHasCredential'
    BY <1>0, <1>2, TheCredential DEF Phase, Unstored, Committed, SignedIn, SignedInHasCredential, Files, Base, RefreshRefused, Goto, SameServer, SameCounts, Presented, OldToken
  <2>. QED BY <2>1, <2>2, <2>3, <2>4, <2>5, Frame
<1>3. ASSUME RefreshFailed(p) PROVE CoreInv' /\ Moves(p)
  <2>0. OldToken(p) \in Tokens /\ my[p].st \in State
    BY <1>0, <1>3, OldOne, Memories DEF RefreshFailed
  <2>1. Moves(p)
    BY <1>0, <1>3, Ways DEF RefreshFailed
  <2>2. Files'
    BY <1>0, <1>3, <2>0, States DEF Files, RefreshFailed, Status, Stable
  <2>3. Rest'
    BY <1>0, <1>3, <2>0 DEF Rest, RefreshFailed, Done, Goto, Drop, OldToken, Presented
  <2>4. (Alone(p) \/ UNCHANGED <<st, cr, lock>>) /\ (at'[p] \in Locked <=> lock' = {p})
    BY <1>0, <1>3 DEF Alone, Locked, RefreshFailed, Done, Goto, Drop, OldToken, Presented
  <2>5. Phase(p)' /\ SignedInHasCredential'
    BY <1>0, <1>3, TheCredential DEF Phase, Unstored, Committed, SignedIn, SignedInHasCredential, Files, Base, RefreshFailed, Done, Goto, Drop, OldToken, Presented
  <2>. QED BY <2>1, <2>2, <2>3, <2>4, <2>5, Frame
<1>4. ASSUME RefreshDelete(p) PROVE CoreInv' /\ Moves(p)
  <2>0. {} \in OneOf(Credential) /\ {x.epoch : x \in cr} \subseteq Tokens
    BY <1>0, Singles, TheCredential DEF Files, OneOf
  <2>1. Moves(p)
    BY <1>0, <1>4, States DEF Moves, Places, RefreshDelete, Goto, Done, Note, Drop, SameCounts
  <2>2. Files'
    BY <1>0, <1>4, <2>0 DEF Files, Lives, RefreshDelete
  <2>3. Rest'
    BY <1>0, <1>4, <2>0 DEF Rest, RefreshDelete, SameCounts
  <2>4. (Alone(p) \/ UNCHANGED <<st, cr, lock>>) /\ (at'[p] \in Locked <=> lock' = {p})
    BY <1>0, <1>4 DEF Alone, Locked, RefreshDelete, Goto, Done, Note, Drop, SameCounts
  <2>5. Phase(p)' /\ SignedInHasCredential'
    BY <1>0, <1>4, TheCredential DEF Phase, Unstored, Committed, SignedIn, SignedInHasCredential, Files, Base, RefreshDelete, Goto, Done, Note, Drop, SameCounts
  <2>. QED BY <2>1, <2>2, <2>3, <2>4, <2>5, Frame
<1>5. ASSUME RefreshPut(p) PROVE CoreInv' /\ Moves(p)
  <2>0. PICK x \in cr : cr = {x} /\ my[p].cr = {x} /\ x \in Credential
    BY <1>0, <1>5, OldOne, TheCredential DEF Files, RefreshPut
  <2>a. cr' = {[gen |-> TopGen(my[p].st, my[p].cr) + 1, epoch |-> x.epoch, tok |-> my[p].tok]}
    BY <1>5, <2>0 DEF RefreshPut
  <2>b. TopGen(my[p].st, my[p].cr) + 1 \in Nat
    <3>1. my[p].st \in State /\ my[p].cr \in OneOf(Credential)
      BY <1>0, Memories
    <3>. QED BY <3>1, Numbers
  <2>c. my[p].tok \in Tokens
    BY <1>0, <1>5 DEF Phase, Unstored, RefreshPut
  <2>1. Moves(p)
    BY <1>0, <1>5 DEF Moves, Places, RefreshPut, Goto, SameCounts, SameFates, TopGen, Larger
  <2>2. Files'
    <3>. DEFINE y == [gen |-> TopGen(my[p].st, my[p].cr) + 1, epoch |-> x.epoch, tok |-> my[p].tok]
    <3>1. y \in Credential
      BY <2>0, <2>b, <2>c DEF Credential
    <3>2. {y} \in OneOf(Credential)
      BY <3>1, Singles
    <3>. QED BY <1>0, <1>5, <2>a, <3>2 DEF Files, Lives, RefreshPut
  <2>3. Rest'
    BY <1>0, <1>5, Bounds DEF Rest, RefreshPut, Goto, SameCounts, SameFates, TopGen, Larger
  <2>4. (Alone(p) \/ UNCHANGED <<st, cr, lock>>) /\ (at'[p] \in Locked <=> lock' = {p})
    BY <1>0, <1>5 DEF Alone, Locked, RefreshPut, Goto, SameCounts, SameFates, TopGen, Larger
  <2>5. Phase(p)' /\ SignedInHasCredential'
    BY <1>0, <1>5, <2>a DEF Phase, Unstored, Committed, SignedInHasCredential, RefreshPut, Goto
  <2>. QED BY <2>1, <2>2, <2>3, <2>4, <2>5, Frame
<1>6. ASSUME RefreshState(p) PROVE CoreInv' /\ Moves(p)
  <2>1. Moves(p)
    BY <1>0, <1>6, States DEF Moves, Places, RefreshState, Done, Goto, Drop, SameServer, SameCounts, SameFates
  <2>2. Files'
    BY <1>0, <1>6, States, Numbers DEF Files, RefreshState, SameServer, Status, Stable
  <2>3. Rest'
    BY <1>0, <1>6 DEF Rest, Files, OneOf, RefreshState, Done, Goto, Drop, SameServer, SameCounts, SameFates
  <2>4. (Alone(p) \/ UNCHANGED <<st, cr, lock>>) /\ (at'[p] \in Locked <=> lock' = {p})
    BY <1>0, <1>6 DEF Alone, Locked, RefreshState, Done, Goto, Drop, SameServer, SameCounts, SameFates
  <2>5. Phase(p)' /\ SignedInHasCredential'
    BY <1>0, <1>6, TheCredential DEF Phase, Unstored, Committed, SignedIn, SignedInHasCredential, Files, Base, RefreshState, Done, Goto, Drop, SameServer, SameCounts, SameFates
  <2>. QED BY <2>1, <2>2, <2>3, <2>4, <2>5, Frame
<1>. QED BY <1>1, <1>2, <1>3, <1>4, <1>5, <1>6 DEF Refreshing

\* A logout keeps the first part.
LEMMA SigningOutCore ==
  ASSUME CoreInv, NEW p \in Procs, SigningOut(p)
  PROVE  CoreInv' /\ Moves(p)
<1>0. /\ at[p] \in Places /\ my[p] \in Memory /\ at \in [Procs -> Places]
      /\ my \in [Procs -> Memory] /\ Files /\ Rest /\ lock \in OneOf(Procs)
      /\ Phase(p) /\ (at[p] \in Locked <=> lock = {p}) /\ SignedInHasCredential
  BY Here
<1>1. ASSUME RevokeFails(p) PROVE CoreInv' /\ Moves(p)
  <2>1. Moves(p)
    BY <1>0, <1>1, States DEF Moves, Places, RevokeFails, Done, Goto, Drop, SameServer, SameCounts, SameFates
  <2>2. Files'
    BY <1>0, <1>1, States DEF Files, Lives, RevokeFails, Done, Goto, Drop, SameServer, SameCounts, SameFates, Status, Stable
  <2>3. Rest'
    BY <1>0, <1>1, Bounds DEF Rest, RevokeFails, Done, Goto, Drop, SameServer, SameCounts, SameFates
  <2>4. (Alone(p) \/ UNCHANGED <<st, cr, lock>>) /\ (at'[p] \in Locked <=> lock' = {p})
    BY <1>0, <1>1 DEF Alone, Locked, RevokeFails, Done, Goto, Drop, SameServer, SameCounts, SameFates
  <2>5. Phase(p)' /\ SignedInHasCredential'
    BY <1>0, <1>1, TheCredential DEF Phase, Unstored, Committed, SignedIn, SignedInHasCredential, Files, Base, RevokeFails, Done, Goto, Drop, SameServer, SameCounts, SameFates
  <2>. QED BY <2>1, <2>2, <2>3, <2>4, <2>5, Frame
<1>2. ASSUME LogoutDelete(p) PROVE CoreInv' /\ Moves(p)
  <2>0. {} \in OneOf(Credential) /\ {x.epoch : x \in cr} \subseteq Tokens
    BY <1>0, Singles, TheCredential DEF Files, OneOf
  <2>1. Moves(p)
    BY <1>0, <1>2 DEF Moves, Places, LogoutDelete, Goto, SameCounts
  <2>2. Files'
    BY <1>0, <1>2, <2>0 DEF Files, Lives, LogoutDelete
  <2>3. Rest'
    BY <1>0, <1>2, <2>0 DEF Rest, LogoutDelete, SameCounts
  <2>4. (Alone(p) \/ UNCHANGED <<st, cr, lock>>) /\ (at'[p] \in Locked <=> lock' = {p})
    BY <1>0, <1>2 DEF Alone, Locked, LogoutDelete, Goto, SameCounts
  <2>5. Phase(p)' /\ SignedInHasCredential'
    BY <1>0, <1>2, TheCredential DEF Phase, Unstored, Committed, SignedIn, SignedInHasCredential, Files, Base, LogoutDelete, Goto, SameCounts
  <2>. QED BY <2>1, <2>2, <2>3, <2>4, <2>5, Frame
<1>3. ASSUME LogoutState(p) PROVE CoreInv' /\ Moves(p)
  <2>1. Moves(p)
    BY <1>0, <1>3, Ways DEF LogoutState
  <2>2. Files'
    BY <1>0, <1>3, States DEF Files, Lives, LogoutState, Done, Goto, Drop, SameServer, SameCounts, SameFates, Status, Stable
  <2>3. Rest'
    BY <1>0, <1>3, Bounds DEF Rest, LogoutState, Done, Goto, Drop, SameServer, SameCounts, SameFates
  <2>4. (Alone(p) \/ UNCHANGED <<st, cr, lock>>) /\ (at'[p] \in Locked <=> lock' = {p})
    BY <1>0, <1>3 DEF Alone, Locked, LogoutState, Done, Goto, Drop, SameServer, SameCounts, SameFates
  <2>5. Phase(p)' /\ SignedInHasCredential'
    BY <1>0, <1>3, TheCredential DEF Phase, Unstored, Committed, SignedIn, SignedInHasCredential, Files, Base, LogoutState, Done, Goto, Drop, SameServer, SameCounts, SameFates
  <2>. QED BY <2>1, <2>2, <2>3, <2>4, <2>5, Frame
<1>. QED BY <1>1, <1>2, <1>3 DEF SigningOut

\* A login keeps the first part.
LEMMA SigningInCore ==
  ASSUME CoreInv, NEW p \in Procs, SigningIn(p)
  PROVE  CoreInv' /\ Moves(p)
<1>0. /\ at[p] \in Places /\ my[p] \in Memory /\ at \in [Procs -> Places]
      /\ my \in [Procs -> Memory] /\ Files /\ Rest /\ lock \in OneOf(Procs)
      /\ Phase(p) /\ (at[p] \in Locked <=> lock = {p}) /\ SignedInHasCredential
  BY Here
<1>1. ASSUME LoginFindsAccount(p) PROVE CoreInv' /\ Moves(p)
  <2>0. PICK x \in Usable(st, cr) :
           Done(p) \/ (Goto(p, "want.ref") /\ Note(p, [Blank EXCEPT !.cr = {x}]))
    BY <1>1 DEF LoginFindsAccount
  <2>a. x \in Credential
    BY <1>0 DEF Usable, Files, OneOf
  <2>1. Moves(p)
    BY <1>0, <2>0, <2>a, Ways, States DEF Places
  <2>2. Files'
    BY <1>0, <1>1 DEF Files, Lives, LoginFindsAccount, Goto, Done, Note, SameServer, SameCounts, SameFates, Looks, Free, Usable, Alive
  <2>3. Rest'
    BY <1>0, <1>1, Bounds DEF Rest, LoginFindsAccount, Goto, Done, Note, SameServer, SameCounts, SameFates, Looks, Free, Usable, Alive
  <2>4. (Alone(p) \/ UNCHANGED <<st, cr, lock>>) /\ (at'[p] \in Locked <=> lock' = {p})
    BY <1>0, <1>1 DEF Alone, Locked, LoginFindsAccount, Goto, Done, Note, SameServer, SameCounts, SameFates, Looks, Free, Usable, Alive
  <2>5. Phase(p)' /\ SignedInHasCredential'
    BY <1>0, <1>1 DEF Phase, Unstored, Committed, SignedIn, SignedInHasCredential, Files, Base, LoginFindsAccount, Goto, Done, Note, SameServer, SameCounts, SameFates, Looks, Free, Usable, Alive
  <2>. QED BY <2>1, <2>2, <2>3, <2>4, <2>5, Frame
<1>2. ASSUME LoginDefers(p) PROVE CoreInv' /\ Moves(p)
  <2>1. Moves(p)
    <3>1. st.lease \in {0} \cup Leases
      BY <1>0, States DEF Files
    <3>. QED BY <1>0, <1>2, <3>1, Ways, States DEF Places, LoginDefers
  <2>2. Files'
    BY <1>0, <1>2 DEF Files, Lives, LoginDefers, Goto, Note, SameServer, SameCounts, SameFates, Looks, Free, Usable
  <2>3. Rest'
    BY <1>0, <1>2, Bounds DEF Rest, LoginDefers, Goto, Note, SameServer, SameCounts, SameFates, Looks, Free, Usable
  <2>4. (Alone(p) \/ UNCHANGED <<st, cr, lock>>) /\ (at'[p] \in Locked <=> lock' = {p})
    BY <1>0, <1>2 DEF Alone, Locked, LoginDefers, Goto, Note, SameServer, SameCounts, SameFates, Looks, Free, Usable
  <2>5. Phase(p)' /\ SignedInHasCredential'
    BY <1>0, <1>2 DEF Phase, Unstored, Committed, SignedIn, SignedInHasCredential, Files, Base, LoginDefers, Goto, Note, SameServer, SameCounts, SameFates, Looks, Free, Usable
  <2>. QED BY <2>1, <2>2, <2>3, <2>4, <2>5, Frame
<1>3. ASSUME LoginLeases(p) PROVE CoreInv' /\ Moves(p)
  <2>0. leases + 1 \in Leases
    BY <1>0, <1>3, Bounds DEF Rest, Leases, LoginLeases
  <2>1. Moves(p)
    BY <1>0, <1>3, <2>0, Ways, States DEF Places, LoginLeases
  <2>2. Files'
    BY <1>0, <1>3, <2>0, Numbers DEF Files, State, Status, LoginLeases
  <2>3. Rest'
    BY <1>0, <1>3, Bounds DEF Rest, LoginLeases, Goto, Note, SameFates, Looks, Free, Usable, TopGen, Larger
  <2>4. (Alone(p) \/ UNCHANGED <<st, cr, lock>>) /\ (at'[p] \in Locked <=> lock' = {p})
    BY <1>0, <1>3 DEF Alone, Locked, LoginLeases, Goto, Note, SameFates, Looks, Free, Usable, TopGen, Larger
  <2>5. Phase(p)' /\ SignedInHasCredential'
    BY <1>0, <1>3, TheCredential DEF Phase, Unstored, Committed, SignedIn, SignedInHasCredential, Files, Base, LoginLeases, Goto, Note, SameFates, Looks, Free, Usable, TopGen, Larger
  <2>. QED BY <2>1, <2>2, <2>3, <2>4, <2>5, Frame
<1>4. ASSUME LoginRefreshes(p) PROVE CoreInv' /\ Moves(p)
  <2>. DEFINE newer == {x \in Usable(st, cr) : x.gen > CredGen(my[p].cr) /\ Alive(st)}
  <2>1. CASE Usable(st, cr) # {} /\ newer = {}
    BY <1>4, <2>1, Refreshes DEF LoginRefreshes
  <2>2. CASE ~(Usable(st, cr) # {} /\ newer = {})
    <3>1. /\ Goto(p, "want.login") /\ Note(p, Blank) /\ at[p] = "want.ref"
          /\ UNCHANGED <<st, cr, lock, handed>> /\ SameServer /\ SameFates
      BY <1>4, <2>2 DEF LoginRefreshes
    <3>2. Moves(p)
      BY <1>0, <3>1, Ways, States DEF Places
    <3>3. Files' /\ Rest'
      BY <1>0, <3>1 DEF Files, Rest, SameServer, SameCounts, SameFates
    <3>4. UNCHANGED <<st, cr, lock>> /\ (at'[p] \in Locked <=> lock' = {p})
      BY <1>0, <3>1 DEF Locked, Goto
    <3>5. Phase(p)' /\ SignedInHasCredential'
      BY <1>0, <3>1 DEF Phase, Unstored, Committed, SignedInHasCredential, Goto
    <3>. QED BY <3>2, <3>3, <3>4, <3>5, Frame
  <2>. QED BY <2>1, <2>2
<1>5. ASSUME LoginWaited(p) PROVE CoreInv' /\ Moves(p)
  <2>1. Moves(p)
    BY <1>0, <1>5, States DEF Moves, Places, LoginWaited, Goto, Note, SameServer, SameCounts, SameFates
  <2>2. Files'
    BY <1>0, <1>5 DEF Files, Lives, LoginWaited, Goto, Note, SameServer, SameCounts, SameFates
  <2>3. Rest'
    BY <1>0, <1>5, Bounds DEF Rest, LoginWaited, Goto, Note, SameServer, SameCounts, SameFates
  <2>4. (Alone(p) \/ UNCHANGED <<st, cr, lock>>) /\ (at'[p] \in Locked <=> lock' = {p})
    BY <1>0, <1>5 DEF Alone, Locked, LoginWaited, Goto, Note, SameServer, SameCounts, SameFates
  <2>5. Phase(p)' /\ SignedInHasCredential'
    BY <1>0, <1>5 DEF Phase, Unstored, Committed, SignedIn, SignedInHasCredential, Files, Base, LoginWaited, Goto, Note, SameServer, SameCounts, SameFates
  <2>. QED BY <2>1, <2>2, <2>3, <2>4, <2>5, Frame
<1>6. ASSUME LoginApproved(p) PROVE CoreInv' /\ Moves(p)
  <2>0. grants + 1 \in Tokens
    BY <1>0, <1>6, Bounds DEF Rest, Tokens, LoginApproved
  <2>1. Moves(p)
    BY <1>0, <1>6, <2>0, Ways, Memories DEF Places, LoginApproved
  <2>2. Files'
    BY <1>0, <1>6 DEF Files, Lives, LoginApproved, Goto, Note, SameFates
  <2>3. Rest'
    BY <1>0, <1>6, Bounds DEF Rest, LoginApproved, Goto, Note, SameFates
  <2>4. (Alone(p) \/ UNCHANGED <<st, cr, lock>>) /\ (at'[p] \in Locked <=> lock' = {p})
    BY <1>0, <1>6 DEF Alone, Locked, LoginApproved, Goto, Note, SameFates
  <2>5. Phase(p)' /\ SignedInHasCredential'
    <3>1. my'[p] = [my[p] EXCEPT !.tok = grants + 1] /\ my'[p].tok \in Tokens
      BY <1>0, <1>6, <2>0 DEF LoginApproved, Note, Memory
    <3>2. my'[p].cr = my[p].cr /\ my'[p].st = my[p].st
      BY <1>0, <3>1 DEF Memory
    <3>. QED BY <1>0, <1>6, <3>1, <3>2 DEF Phase, Unstored, Committed, SignedInHasCredential, LoginApproved, Goto
  <2>. QED BY <2>1, <2>2, <2>3, <2>4, <2>5, Frame
<1>7. ASSUME LoginFails(p) PROVE CoreInv' /\ Moves(p)
  <2>1. Moves(p)
    BY <1>0, <1>7 DEF Moves, Places, LoginFails, Goto, Free, SameServer, SameCounts, SameFates, Mine
  <2>2. Files'
    BY <1>0, <1>7 DEF Files, Lives, LoginFails, Goto, Free, SameServer, SameCounts, SameFates, Mine
  <2>3. Rest'
    BY <1>0, <1>7, Bounds DEF Rest, LoginFails, Goto, Free, SameServer, SameCounts, SameFates, Mine
  <2>4. (Alone(p) \/ UNCHANGED <<st, cr, lock>>) /\ (at'[p] \in Locked <=> lock' = {p})
    BY <1>0, <1>7 DEF Alone, Locked, LoginFails, Goto, Free, SameServer, SameCounts, SameFates, Mine
  <2>5. Phase(p)' /\ SignedInHasCredential'
    BY <1>0, <1>7 DEF Phase, Unstored, Committed, SignedIn, SignedInHasCredential, Files, Base, LoginFails, Goto, Free, SameServer, SameCounts, SameFates, Mine
  <2>. QED BY <2>1, <2>2, <2>3, <2>4, <2>5, Frame
<1>8. ASSUME CommitCredential(p) PROVE CoreInv' /\ Moves(p)
  <2>0. TopGen(st, cr) + 1 \in Nat /\ my[p].tok \in Tokens
    BY <1>0, <1>8, Numbers DEF Files, Phase, Unstored, CommitCredential
  <2>1. Moves(p)
    BY <1>0, <1>8, Ways, Memories DEF Files, Places, CommitCredential
  <2>2. Files'
    <3>. DEFINE x == [gen |-> TopGen(st, cr) + 1, epoch |-> my[p].tok, tok |-> my[p].tok]
    <3>1. x \in Credential
      BY <2>0 DEF Credential
    <3>2. {x} \in OneOf(Credential)
      BY <3>1, Singles
    <3>. QED BY <1>0, <1>8, <3>2 DEF Files, Lives, CommitCredential
  <2>3. Rest'
    BY <1>0, <1>8, Bounds DEF Rest, CommitCredential, Goto, Note, Free, Take, SameCounts, SameFates, Mine, TopGen, Larger
  <2>4. (Alone(p) \/ UNCHANGED <<st, cr, lock>>) /\ (at'[p] \in Locked <=> lock' = {p})
    BY <1>0, <1>8 DEF Alone, Locked, CommitCredential, Goto, Note, Free, Take, SameCounts, SameFates, Mine, TopGen, Larger
  <2>5. Phase(p)' /\ SignedInHasCredential'
    BY <1>0, <1>8, TheCredential DEF Phase, Unstored, Committed, SignedIn, SignedInHasCredential, Files, Base, CommitCredential, Goto, Note, Free, Take, SameCounts, SameFates, Mine, TopGen, Larger
  <2>. QED BY <2>1, <2>2, <2>3, <2>4, <2>5, Frame
<1>9. ASSUME CommitState(p) PROVE CoreInv' /\ Moves(p)
  <2>1. Moves(p)
    BY <1>0, <1>9 DEF Moves, Places, CommitState, Goto, SameServer, SameCounts, SameFates
  <2>2. Files'
    <3>1. CredGen(cr) \in Nat
      BY <1>0, TheCredential DEF Files
    <3>2. Base("authenticated", CredGen(cr)) \in State
      BY <3>1, States DEF Status, Stable
    <3>. QED BY <1>0, <1>9, <3>2 DEF Files, CommitState, SameServer
  <2>3. Rest'
    BY <1>0, <1>9, Bounds DEF Rest, CommitState, Goto, SameServer, SameCounts, SameFates
  <2>4. (Alone(p) \/ UNCHANGED <<st, cr, lock>>) /\ (at'[p] \in Locked <=> lock' = {p})
    BY <1>0, <1>9 DEF Alone, Locked, CommitState, Goto, SameServer, SameCounts, SameFates
  <2>5. Phase(p)' /\ SignedInHasCredential'
    BY <1>0, <1>9, TheCredential DEF Phase, Unstored, Committed, SignedIn, SignedInHasCredential, Files, Base, CommitState, Goto, SameServer, SameCounts, SameFates
  <2>. QED BY <2>1, <2>2, <2>3, <2>4, <2>5, Frame
<1>10. ASSUME CommitStateFails(p) PROVE CoreInv' /\ Moves(p)
  <2>1. Moves(p)
    BY <1>0, <1>10 DEF Moves, Places, CommitStateFails, Goto, Drop, SameServer, SameCounts, SameFates
  <2>2. Files'
    BY <1>0, <1>10 DEF Files, Lives, CommitStateFails, Goto, Drop, SameServer, SameCounts, SameFates
  <2>3. Rest'
    BY <1>0, <1>10, Bounds DEF Rest, CommitStateFails, Goto, Drop, SameServer, SameCounts, SameFates
  <2>4. (Alone(p) \/ UNCHANGED <<st, cr, lock>>) /\ (at'[p] \in Locked <=> lock' = {p})
    BY <1>0, <1>10 DEF Alone, Locked, CommitStateFails, Goto, Drop, SameServer, SameCounts, SameFates
  <2>5. Phase(p)' /\ SignedInHasCredential'
    BY <1>0, <1>10 DEF Phase, Unstored, Committed, SignedIn, SignedInHasCredential, Files, Base, CommitStateFails, Goto, Drop, SameServer, SameCounts, SameFates
  <2>. QED BY <2>1, <2>2, <2>3, <2>4, <2>5, Frame
<1>11. ASSUME CommitEnds(p) PROVE CoreInv' /\ Moves(p)
  <2>1. Moves(p)
    BY <1>0, <1>11, Ways DEF Places, CommitEnds
  <2>2. Files'
    BY <1>0, <1>11 DEF Files, Lives, CommitEnds, Goto, Done, Drop, SameServer, SameCounts, SameFates
  <2>3. Rest'
    BY <1>0, <1>11, Bounds DEF Rest, CommitEnds, Goto, Done, Drop, SameServer, SameCounts, SameFates
  <2>4. (Alone(p) \/ UNCHANGED <<st, cr, lock>>) /\ (at'[p] \in Locked <=> lock' = {p})
    BY <1>0, <1>11 DEF Alone, Locked, CommitEnds, Goto, Done, Drop, SameServer, SameCounts, SameFates
  <2>5. Phase(p)' /\ SignedInHasCredential'
    BY <1>0, <1>11 DEF Phase, Unstored, Committed, SignedIn, SignedInHasCredential, Files, Base, CommitEnds, Goto, Done, Drop, SameServer, SameCounts, SameFates
  <2>. QED BY <2>1, <2>2, <2>3, <2>4, <2>5, Frame
<1>12. ASSUME UndoState(p) PROVE CoreInv' /\ Moves(p)
  <2>1. Moves(p)
    BY <1>0, <1>12 DEF Moves, Places, UndoState, Goto, SameServer, SameCounts, SameFates
  <2>2. Files'
    BY <1>0, <1>12, Memories DEF Files, UndoState, SameServer
  <2>3. Rest'
    BY <1>0, <1>12, Bounds DEF Rest, UndoState, Goto, SameServer, SameCounts, SameFates
  <2>4. (Alone(p) \/ UNCHANGED <<st, cr, lock>>) /\ (at'[p] \in Locked <=> lock' = {p})
    BY <1>0, <1>12 DEF Alone, Locked, UndoState, Goto, SameServer, SameCounts, SameFates
  <2>5. Phase(p)' /\ SignedInHasCredential'
    BY <1>0, <1>12, TheCredential DEF Phase, Unstored, Committed, SignedIn, SignedInHasCredential, Files, Base, UndoState, Goto, SameServer, SameCounts, SameFates
  <2>. QED BY <2>1, <2>2, <2>3, <2>4, <2>5, Frame
<1>13. ASSUME UndoCredential(p) PROVE CoreInv' /\ Moves(p)
  <2>0. my[p].tok \in Tokens /\ my[p].cr \in OneOf(Credential) /\ my[p].left \in Lives
    BY <1>0, <1>13, Memories DEF Phase, Committed, UndoCredential
  <2>1. Moves(p)
    BY <1>0, <1>13 DEF Moves, Places, UndoCredential, Goto, Drop, SameCounts
  <2>2. Files'
    BY <1>0, <1>13, <2>0 DEF Files, UndoCredential
  <2>3. Rest'
    BY <1>0, <1>13, <2>0 DEF Rest, UndoCredential, SameCounts
  <2>4. (Alone(p) \/ UNCHANGED <<st, cr, lock>>) /\ (at'[p] \in Locked <=> lock' = {p})
    BY <1>0, <1>13 DEF Alone, Locked, UndoCredential, Goto, Drop, SameCounts
  <2>5. Phase(p)' /\ SignedInHasCredential'
    BY <1>0, <1>13, TheCredential DEF Phase, Unstored, Committed, SignedIn, SignedInHasCredential, Files, Base, UndoCredential, Goto, Drop, SameCounts
  <2>. QED BY <2>1, <2>2, <2>3, <2>4, <2>5, Frame
<1>14. ASSUME LoginReleases(p) PROVE CoreInv' /\ Moves(p)
  <2>1. Moves(p)
    BY <1>0, <1>14, States DEF Moves, Places, LoginReleases, Done, Goto, Free, SameServer, SameCounts, SameFates, Mine
  <2>2. Files'
    BY <1>0, <1>14, States DEF Files, Lives, LoginReleases, Done, Goto, Free, SameServer, SameCounts, SameFates, Mine, Status, Stable
  <2>3. Rest'
    BY <1>0, <1>14, Bounds DEF Rest, LoginReleases, Done, Goto, Free, SameServer, SameCounts, SameFates, Mine
  <2>4. (Alone(p) \/ UNCHANGED <<st, cr, lock>>) /\ (at'[p] \in Locked <=> lock' = {p})
    BY <1>0, <1>14 DEF Alone, Locked, LoginReleases, Done, Goto, Free, SameServer, SameCounts, SameFates, Mine
  <2>5. Phase(p)' /\ SignedInHasCredential'
    BY <1>0, <1>14, TheCredential DEF Phase, Unstored, Committed, SignedIn, SignedInHasCredential, Files, Base, LoginReleases, Done, Goto, Free, SameServer, SameCounts, SameFates, Mine
  <2>. QED BY <2>1, <2>2, <2>3, <2>4, <2>5, Frame
<1>. QED BY <1>1, <1>2, <1>3, <1>4, <1>5, <1>6, <1>7, <1>8, <1>9, <1>10, <1>11, <1>12, <1>13, <1>14 DEF SigningIn

\* What others do to a process keeps the first part.
LEMMA HinderedCore ==
  ASSUME CoreInv, NEW p \in Procs, Hindered(p)
  PROVE  CoreInv' /\ Moves(p)
<1>0. /\ at[p] \in Places /\ my[p] \in Memory /\ at \in [Procs -> Places]
      /\ my \in [Procs -> Memory] /\ Files /\ Rest /\ lock \in OneOf(Procs)
      /\ Phase(p) /\ (at[p] \in Locked <=> lock = {p}) /\ SignedInHasCredential
  BY Here
<1>1. ASSUME Unauthorized(p) PROVE CoreInv' /\ Moves(p)
  <2>1. Usable(st, cr) # {} /\ Free /\ BeginRefresh(p, "unauth") /\ SameServer /\ SameFates
    BY <1>1 DEF Unauthorized
  <2>. QED BY <2>1, Refreshes
<1>2. ASSUME Logout(p) PROVE CoreInv' /\ Moves(p)
  <2>1. Moves(p)
    BY <1>0, <1>2 DEF Moves, Places, Logout, Goto, Free, Take, SameServer, SameCounts, SameFates, TopGen, Larger
  <2>2. Files'
    <3>1. TopGen(st, cr) + 1 \in Nat
      BY <1>0, Numbers DEF Files
    <3>2. Base("logging_out", TopGen(st, cr) + 1) \in State
      BY <3>1, States DEF Status
    <3>. QED BY <1>0, <1>2, <3>2 DEF Files, Logout, SameServer
  <2>3. Rest'
    BY <1>0, <1>2, Bounds DEF Rest, Logout, Goto, Free, Take, SameServer, SameCounts, SameFates, TopGen, Larger
  <2>4. (Alone(p) \/ UNCHANGED <<st, cr, lock>>) /\ (at'[p] \in Locked <=> lock' = {p})
    BY <1>0, <1>2 DEF Alone, Locked, Logout, Goto, Free, Take, SameServer, SameCounts, SameFates, TopGen, Larger
  <2>5. Phase(p)' /\ SignedInHasCredential'
    BY <1>0, <1>2, TheCredential DEF Phase, Unstored, Committed, SignedIn, SignedInHasCredential, Files, Base, Logout, Goto, Free, Take, SameServer, SameCounts, SameFates, TopGen, Larger
  <2>. QED BY <2>1, <2>2, <2>3, <2>4, <2>5, Frame
<1>3. ASSUME CancelLogin(p) PROVE CoreInv' /\ Moves(p)
  <2>1. Moves(p)
    <3>1. my' = [my EXCEPT ![p] = [my[p] EXCEPT !.sig = TRUE]] /\ at' = at
      BY <1>3 DEF CancelLogin, Note
    <3>2. [my[p] EXCEPT !.sig = TRUE] \in Memory
      BY <1>0, Memories
    <3>3. at[p] \in Places /\ at' = [at EXCEPT ![p] = at[p]]
      BY <1>0, <3>1
    <3>. QED BY <3>1, <3>2, <3>3 DEF Moves
  <2>2. Files'
    BY <1>0, <1>3 DEF Files, Lives, CancelLogin, Note, SameServer, SameCounts, SameFates
  <2>3. Rest'
    BY <1>0, <1>3, Bounds DEF Rest, CancelLogin, Note, SameServer, SameCounts, SameFates
  <2>4. (Alone(p) \/ UNCHANGED <<st, cr, lock>>) /\ (at'[p] \in Locked <=> lock' = {p})
    BY <1>0, <1>3 DEF Alone, Locked, CancelLogin, Note, SameServer, SameCounts, SameFates
  <2>5. Phase(p)' /\ SignedInHasCredential'
    BY <1>0, <1>3 DEF Phase, Unstored, Committed, SignedIn, SignedInHasCredential, Files, Base, CancelLogin, Note, SameServer, SameCounts, SameFates
  <2>. QED BY <2>1, <2>2, <2>3, <2>4, <2>5, Frame
<1>4. ASSUME LoginStops(p) PROVE CoreInv' /\ Moves(p)
  <2>1. Moves(p)
    BY <1>0, <1>4, States DEF Moves, Places, LoginStops, Done, Goto, SameServer, SameCounts, SameFates
  <2>2. Files'
    BY <1>0, <1>4 DEF Files, Lives, LoginStops, Done, Goto, SameServer, SameCounts, SameFates
  <2>3. Rest'
    BY <1>0, <1>4, Bounds DEF Rest, LoginStops, Done, Goto, SameServer, SameCounts, SameFates
  <2>4. (Alone(p) \/ UNCHANGED <<st, cr, lock>>) /\ (at'[p] \in Locked <=> lock' = {p})
    BY <1>0, <1>4 DEF Alone, Locked, LoginStops, Done, Goto, SameServer, SameCounts, SameFates
  <2>5. Phase(p)' /\ SignedInHasCredential'
    BY <1>0, <1>4 DEF Phase, Unstored, Committed, SignedIn, SignedInHasCredential, Files, Base, LoginStops, Done, Goto, SameServer, SameCounts, SameFates
  <2>. QED BY <2>1, <2>2, <2>3, <2>4, <2>5, Frame
<1>5. ASSUME LockTimesOut(p) PROVE CoreInv' /\ Moves(p)
  <2>1. Moves(p)
    BY <1>0, <1>5, Ways DEF Places, LockTimesOut
  <2>2. Files'
    BY <1>0, <1>5 DEF Files, Lives, LockTimesOut, Goto, Done, Free, SameServer, SameCounts, SameFates
  <2>3. Rest'
    BY <1>0, <1>5, Bounds DEF Rest, LockTimesOut, Goto, Done, Free, SameServer, SameCounts, SameFates
  <2>4. (Alone(p) \/ UNCHANGED <<st, cr, lock>>) /\ (at'[p] \in Locked <=> lock' = {p})
    BY <1>0, <1>5 DEF Alone, Locked, LockTimesOut, Goto, Done, Free, SameServer, SameCounts, SameFates
  <2>5. Phase(p)' /\ SignedInHasCredential'
    BY <1>0, <1>5 DEF Phase, Unstored, Committed, SignedIn, SignedInHasCredential, Files, Base, LockTimesOut, Goto, Done, Free, SameServer, SameCounts, SameFates
  <2>. QED BY <2>1, <2>2, <2>3, <2>4, <2>5, Frame
<1>6. ASSUME Crash(p) PROVE CoreInv' /\ Moves(p)
  <2>0. /\ at[p] = "ref.call" => OldToken(p) \in Tokens
        /\ at[p] = "ref.put" => OldToken(p) \in Tokens
        /\ at[p] \in {"log.state", "log.final", "log.undo", "log.undo2"} => my[p].tok \in Tokens
    BY <1>0, OldOne DEF Phase, Unstored, Committed
  <2>1. Moves(p)
    BY <1>0, <1>6, States DEF Moves, Places, Crash, Done, Goto, OldToken
  <2>2. Files'
    BY <1>0, <1>6 DEF Files, Lives, Crash, Done, Goto, OldToken
  <2>3. Rest'
    <3>1. spent' \subseteq Tokens /\ orphans' \subseteq Tokens /\ torn' \subseteq Tokens
      BY <1>0, <1>6, <2>0 DEF Rest, Crash
    <3>. QED BY <1>0, <1>6, <3>1, Bounds DEF Rest, Crash
  <2>4. (Alone(p) \/ UNCHANGED <<st, cr, lock>>) /\ (at'[p] \in Locked <=> lock' = {p})
    <3>1. at'[p] = "idle" /\ lock' = lock \ {p} /\ UNCHANGED <<st, cr>>
      BY <1>0, <1>6 DEF Crash, Done, Goto
    <3>2. lock \in {{}, {p}} => Alone(p)
      BY <3>1 DEF Alone
    <3>3. lock \notin {{}, {p}} => UNCHANGED lock
      BY <1>0, <3>1, Locks
    <3>. QED BY <3>1, <3>2, <3>3 DEF Locked
  <2>5. Phase(p)' /\ SignedInHasCredential'
    BY <1>0, <1>6 DEF Phase, Unstored, Committed, SignedIn, SignedInHasCredential, Files, Base, Crash, Done, Goto, OldToken
  <2>. QED BY <2>1, <2>2, <2>3, <2>4, <2>5, Frame
<1>. QED BY <1>1, <1>2, <1>3, <1>4, <1>5, <1>6 DEF Hindered

\* The program starts in the invariant.
LEMMA InitCore == Init => CoreInv /\ TokenInv
<1>. SUFFICES ASSUME Init PROVE CoreInv /\ TokenInv
  OBVIOUS
<1>1. \A p \in Procs : at[p] = "idle" /\ my[p] = Blank
  BY DEF Init
<1>2. TypeOK
  <2>1. Base("anonymous", 0) \in State /\ Blank \in Memory
    BY States DEF Status, Stable
  <2>2. {} \in OneOf(Credential) /\ {} \in OneOf(Procs)
    BY DEF OneOf
  <2>. QED BY <2>1, <2>2, Bounds DEF Init, TypeOK, Places, Lives
<1>3. LockInv /\ PhaseInv /\ SignedInHasCredential
  BY <1>1 DEF Init, LockInv, Locked, PhaseInv, Phase, Unstored, Committed, SignedInHasCredential, Base
<1>4. TokenInv
  BY <1>1 DEF Init, TokenInv, FilesInv, Known, Apart, Unstored, Committed, Names, Old
<1>. QED BY <1>2, <1>3, <1>4 DEF CoreInv

\* Every step keeps the first part of the invariant.
LEMMA CoreStep == CoreInv /\ [Next]_vars => CoreInv'
<1>. SUFFICES ASSUME CoreInv, [Next]_vars PROVE CoreInv'
  OBVIOUS
<1>1. ASSUME NEW p \in Procs, Reading(p) \/ Refreshing(p) \/ SigningOut(p) \/ SigningIn(p) \/ Hindered(p)
      PROVE  CoreInv'
  BY <1>1, ReadingCore, RefreshingCore, SigningOutCore, SigningInCore, HinderedCore
<1>2. CASE TokenAges
  <2>1. TypeOK'
    BY <1>2 DEF CoreInv, TypeOK, TokenAges, Lives, SameFates
  <2>2. LockInv' /\ PhaseInv' /\ SignedInHasCredential'
    BY <1>2 DEF CoreInv, LockInv, PhaseInv, Phase, SignedInHasCredential, TokenAges
  <2>. QED BY <2>1, <2>2 DEF CoreInv
<1>3. CASE LeaseLapses
  <2>1. TypeOK'
    BY <1>3 DEF CoreInv, TypeOK, LeaseLapses, SameFates
  <2>2. LockInv' /\ PhaseInv' /\ SignedInHasCredential'
    BY <1>3 DEF CoreInv, LockInv, PhaseInv, Phase, SignedInHasCredential, LeaseLapses
  <2>. QED BY <2>1, <2>2 DEF CoreInv
<1>4. CASE UNCHANGED vars
  <2>1. TypeOK'
    BY <1>4 DEF CoreInv, TypeOK, vars
  <2>2. LockInv' /\ PhaseInv' /\ SignedInHasCredential'
    BY <1>4 DEF CoreInv, LockInv, PhaseInv, Phase, SignedInHasCredential, vars
  <2>. QED BY <2>1, <2>2 DEF CoreInv
<1>. QED BY <1>1, <1>2, <1>3, <1>4 DEF Next

\* A step that gives, takes and stores no token keeps the second part.
LEMMA Quiet ==
  ASSUME CoreInv, TokenInv, NEW p \in Procs, Moves(p),
         UNCHANGED <<cr, grants, spent, orphans, replayed, ended, cancelled>>,
         at[p] # "ref.put",
         at'[p] \in Unstored \cup Committed =>
           /\ at'[p] = at[p] \/ (at[p] \in Committed /\ at'[p] \in Committed)
           /\ my'[p].tok = my[p].tok /\ my'[p].cr = my[p].cr
  PROVE  TokenInv'
<1>1. ASSUME NEW q \in Procs, q # p PROVE at'[q] = at[q] /\ my'[q] = my[q]
  BY <1>1 DEF CoreInv, TypeOK, Moves
<1>2. FilesInv'
  <2>1. ASSUME NEW q \in Procs, at[q] = "ref.put" PROVE at'[q] = "ref.put"
    BY <1>1, <2>1
  <2>. QED BY <2>1 DEF TokenInv, FilesInv, Old, Names
<1>3. ASSUME NEW q \in Procs PROVE Known(q)'
  <2>1. Known(q)
    BY DEF TokenInv
  <2>2. CASE q # p
    BY <1>1, <2>1, <2>2 DEF Known, Old, Names
  <2>3. CASE q = p
    BY <2>1, <2>3 DEF Known, Old, Names, Unstored, Committed
  <2>. QED BY <2>2, <2>3
<1>4. ASSUME NEW q \in Procs, NEW r \in Procs PROVE Apart(q, r)'
  <2>1. Apart(q, r)
    BY DEF TokenInv
  <2>2. at'[q] = "want.commit" => at[q] = "want.commit" /\ my'[q].tok = my[q].tok
    BY <1>1 DEF Unstored, Committed
  <2>3. at'[r] \in Unstored \cup Committed =>
          /\ at[r] \in Unstored \cup Committed /\ my'[r].tok = my[r].tok /\ my'[r].cr = my[r].cr
          /\ at'[r] \in Committed => at[r] \in Committed
    BY <1>1 DEF Unstored, Committed
  <2>. QED BY <2>1, <2>2, <2>3 DEF Apart, Names
<1>. QED BY <1>2, <1>3, <1>4 DEF TokenInv

\* No read changes a token.
LEMMA ReadingQuiet ==
  ASSUME CoreInv, TokenInv, NEW p \in Procs,
         GetRead(p) \/ GetCred(p) \/ GetLocked(p) \/ StatusReads(p) \/ StatusRecovers(p)
  PROVE  TokenInv'
<1>0. /\ at[p] \in Places /\ my[p] \in Memory /\ at \in [Procs -> Places]
      /\ my \in [Procs -> Memory] /\ Files
  BY Here
<1>1. ASSUME GetRead(p) PROVE TokenInv'
  <2>1. UNCHANGED <<cr, grants, spent, orphans, replayed, ended, cancelled>>
    BY <1>1 DEF GetRead, SameServer, SameCounts, SameFates, files
  <2>2. Moves(p)
    BY <1>1, ReadingCore DEF Reading
  <2>3. /\ at[p] # "ref.put"
        /\ at'[p] \in Unstored \cup Committed =>
             /\ at'[p] = at[p] \/ (at[p] \in Committed /\ at'[p] \in Committed)
             /\ my'[p].tok = my[p].tok /\ my'[p].cr = my[p].cr
    BY <1>0, <1>1 DEF Memory, Unstored, Committed, GetRead, Goto, Note, SameServer, SameCounts, SameFates, files
  <2>. QED BY <2>1, <2>2, <2>3, Quiet
<1>2. ASSUME GetCred(p) PROVE TokenInv'
  <2>1. UNCHANGED <<cr, grants, spent, orphans, replayed, ended, cancelled>>
    BY <1>2 DEF GetCred, SameServer, SameCounts, SameFates, files
  <2>2. Moves(p)
    BY <1>2, ReadingCore DEF Reading
  <2>3. /\ at[p] # "ref.put"
        /\ at'[p] \in Unstored \cup Committed =>
             /\ at'[p] = at[p] \/ (at[p] \in Committed /\ at'[p] \in Committed)
             /\ my'[p].tok = my[p].tok /\ my'[p].cr = my[p].cr
    BY <1>0, <1>2 DEF Memory, Unstored, Committed, GetCred, Goto, Done, SameServer, SameCounts, SameFates, files
  <2>. QED BY <2>1, <2>2, <2>3, Quiet
<1>3. ASSUME GetLocked(p) PROVE TokenInv'
  <2>1. UNCHANGED <<cr, grants, spent, orphans, replayed, ended, cancelled>>
    BY <1>3 DEF GetLocked, SameServer, SameCounts, SameFates, files, BeginRefresh
  <2>2. Moves(p)
    BY <1>3, ReadingCore DEF Reading
  <2>3. /\ at[p] # "ref.put"
        /\ at'[p] \in Unstored \cup Committed =>
             /\ at'[p] = at[p] \/ (at[p] \in Committed /\ at'[p] \in Committed)
             /\ my'[p].tok = my[p].tok /\ my'[p].cr = my[p].cr
    BY <1>0, <1>3 DEF Memory, Unstored, Committed, GetLocked, Done, Goto, SameServer, SameCounts, SameFates, files, BeginRefresh, Note
  <2>. QED BY <2>1, <2>2, <2>3, Quiet
<1>4. ASSUME StatusReads(p) PROVE TokenInv'
  <2>1. UNCHANGED <<cr, grants, spent, orphans, replayed, ended, cancelled>>
    BY <1>4 DEF StatusReads, SameServer, SameCounts, SameFates, files
  <2>2. Moves(p)
    BY <1>4, ReadingCore DEF Reading
  <2>3. /\ at[p] # "ref.put"
        /\ at'[p] \in Unstored \cup Committed =>
             /\ at'[p] = at[p] \/ (at[p] \in Committed /\ at'[p] \in Committed)
             /\ my'[p].tok = my[p].tok /\ my'[p].cr = my[p].cr
    BY <1>0, <1>4 DEF Memory, Unstored, Committed, StatusReads, Goto, SameServer, SameCounts, SameFates, files
  <2>. QED BY <2>1, <2>2, <2>3, Quiet
<1>5. ASSUME StatusRecovers(p) PROVE TokenInv'
  <2>1. UNCHANGED <<cr, grants, spent, orphans, replayed, ended, cancelled>>
    BY <1>5 DEF StatusRecovers, SameServer, SameCounts, SameFates
  <2>2. Moves(p)
    BY <1>5, ReadingCore DEF Reading
  <2>3. /\ at[p] # "ref.put"
        /\ at'[p] \in Unstored \cup Committed =>
             /\ at'[p] = at[p] \/ (at[p] \in Committed /\ at'[p] \in Committed)
             /\ my'[p].tok = my[p].tok /\ my'[p].cr = my[p].cr
    BY <1>0, <1>5 DEF Memory, Unstored, Committed, StatusRecovers, Done, Goto, SameServer, SameCounts, SameFates
  <2>. QED BY <2>1, <2>2, <2>3, Quiet
<1>. QED BY <1>1, <1>2, <1>3, <1>4, <1>5

\* Neither does the last write of a refresh,
LEMMA RefreshingQuiet ==
  ASSUME CoreInv, TokenInv, NEW p \in Procs,
         RefreshState(p)
  PROVE  TokenInv'
<1>0. /\ at[p] \in Places /\ my[p] \in Memory /\ at \in [Procs -> Places]
      /\ my \in [Procs -> Memory] /\ Files
  BY Here
<1>1. ASSUME RefreshState(p) PROVE TokenInv'
  <2>1. UNCHANGED <<cr, grants, spent, orphans, replayed, ended, cancelled>>
    BY <1>1 DEF RefreshState, SameServer, SameCounts, SameFates
  <2>2. Moves(p)
    BY <1>1, RefreshingCore DEF Refreshing
  <2>3. /\ at[p] # "ref.put"
        /\ at'[p] \in Unstored \cup Committed =>
             /\ at'[p] = at[p] \/ (at[p] \in Committed /\ at'[p] \in Committed)
             /\ my'[p].tok = my[p].tok /\ my'[p].cr = my[p].cr
    BY <1>0, <1>1 DEF Memory, Unstored, Committed, RefreshState, Done, Goto, SameServer, SameCounts, SameFates
  <2>. QED BY <2>1, <2>2, <2>3, Quiet
<1>. QED BY <1>1

\* nor what a logout does but for the deletion,
LEMMA SigningOutQuiet ==
  ASSUME CoreInv, TokenInv, NEW p \in Procs,
         RevokeFails(p) \/ LogoutState(p)
  PROVE  TokenInv'
<1>0. /\ at[p] \in Places /\ my[p] \in Memory /\ at \in [Procs -> Places]
      /\ my \in [Procs -> Memory] /\ Files
  BY Here
<1>1. ASSUME RevokeFails(p) PROVE TokenInv'
  <2>1. UNCHANGED <<cr, grants, spent, orphans, replayed, ended, cancelled>>
    BY <1>1 DEF RevokeFails, SameServer, SameCounts, SameFates
  <2>2. Moves(p)
    BY <1>1, SigningOutCore DEF SigningOut
  <2>3. /\ at[p] # "ref.put"
        /\ at'[p] \in Unstored \cup Committed =>
             /\ at'[p] = at[p] \/ (at[p] \in Committed /\ at'[p] \in Committed)
             /\ my'[p].tok = my[p].tok /\ my'[p].cr = my[p].cr
    BY <1>0, <1>1 DEF Memory, Unstored, Committed, RevokeFails, Done, Goto, SameServer, SameCounts, SameFates
  <2>. QED BY <2>1, <2>2, <2>3, Quiet
<1>2. ASSUME LogoutState(p) PROVE TokenInv'
  <2>1. UNCHANGED <<cr, grants, spent, orphans, replayed, ended, cancelled>>
    BY <1>2 DEF LogoutState, SameServer, SameCounts, SameFates
  <2>2. Moves(p)
    BY <1>2, SigningOutCore DEF SigningOut
  <2>3. /\ at[p] # "ref.put"
        /\ at'[p] \in Unstored \cup Committed =>
             /\ at'[p] = at[p] \/ (at[p] \in Committed /\ at'[p] \in Committed)
             /\ my'[p].tok = my[p].tok /\ my'[p].cr = my[p].cr
    BY <1>0, <1>2 DEF Memory, Unstored, Committed, LogoutState, Done, Goto, SameServer, SameCounts, SameFates
  <2>. QED BY <2>1, <2>2, <2>3, Quiet
<1>. QED BY <1>1, <1>2

\* nor what a login does but for its grant, its commit and its undoing,
LEMMA SigningInQuiet ==
  ASSUME CoreInv, TokenInv, NEW p \in Procs,
         LoginFindsAccount(p) \/ LoginDefers(p) \/ LoginLeases(p) \/ LoginRefreshes(p) \/ LoginWaited(p) \/ LoginFails(p) \/ CommitState(p) \/ CommitStateFails(p) \/ CommitEnds(p) \/ UndoState(p) \/ LoginReleases(p)
  PROVE  TokenInv'
<1>0. /\ at[p] \in Places /\ my[p] \in Memory /\ at \in [Procs -> Places]
      /\ my \in [Procs -> Memory] /\ Files
  BY Here
<1>1. ASSUME LoginFindsAccount(p) PROVE TokenInv'
  <2>1. UNCHANGED <<cr, grants, spent, orphans, replayed, ended, cancelled>>
    BY <1>1 DEF LoginFindsAccount, SameServer, SameCounts, SameFates
  <2>2. Moves(p)
    BY <1>1, SigningInCore DEF SigningIn
  <2>3. /\ at[p] # "ref.put"
        /\ at'[p] \in Unstored \cup Committed =>
             /\ at'[p] = at[p] \/ (at[p] \in Committed /\ at'[p] \in Committed)
             /\ my'[p].tok = my[p].tok /\ my'[p].cr = my[p].cr
    BY <1>0, <1>1 DEF Memory, Unstored, Committed, LoginFindsAccount, Goto, Done, Note, SameServer, SameCounts, SameFates, Looks
  <2>. QED BY <2>1, <2>2, <2>3, Quiet
<1>2. ASSUME LoginDefers(p) PROVE TokenInv'
  <2>1. UNCHANGED <<cr, grants, spent, orphans, replayed, ended, cancelled>>
    BY <1>2 DEF LoginDefers, SameServer, SameCounts, SameFates
  <2>2. Moves(p)
    BY <1>2, SigningInCore DEF SigningIn
  <2>3. /\ at[p] # "ref.put"
        /\ at'[p] \in Unstored \cup Committed =>
             /\ at'[p] = at[p] \/ (at[p] \in Committed /\ at'[p] \in Committed)
             /\ my'[p].tok = my[p].tok /\ my'[p].cr = my[p].cr
    BY <1>0, <1>2 DEF Memory, Unstored, Committed, LoginDefers, Goto, Note, SameServer, SameCounts, SameFates, Looks
  <2>. QED BY <2>1, <2>2, <2>3, Quiet
<1>3. ASSUME LoginLeases(p) PROVE TokenInv'
  <2>1. UNCHANGED <<cr, grants, spent, orphans, replayed, ended, cancelled>>
    BY <1>3 DEF LoginLeases, SameFates
  <2>2. Moves(p)
    BY <1>3, SigningInCore DEF SigningIn
  <2>3. /\ at[p] # "ref.put"
        /\ at'[p] \in Unstored \cup Committed =>
             /\ at'[p] = at[p] \/ (at[p] \in Committed /\ at'[p] \in Committed)
             /\ my'[p].tok = my[p].tok /\ my'[p].cr = my[p].cr
    BY <1>0, <1>3 DEF Memory, Unstored, Committed, LoginLeases, Goto, Note, SameFates, Looks
  <2>. QED BY <2>1, <2>2, <2>3, Quiet
<1>4. ASSUME LoginRefreshes(p) PROVE TokenInv'
  <2>1. UNCHANGED <<cr, grants, spent, orphans, replayed, ended, cancelled>>
    BY <1>4 DEF LoginRefreshes, SameServer, SameCounts, SameFates, BeginRefresh
  <2>2. Moves(p)
    BY <1>4, SigningInCore DEF SigningIn
  <2>3. /\ at[p] # "ref.put"
        /\ at'[p] \in Unstored \cup Committed =>
             /\ at'[p] = at[p] \/ (at[p] \in Committed /\ at'[p] \in Committed)
             /\ my'[p].tok = my[p].tok /\ my'[p].cr = my[p].cr
    BY <1>0, <1>4 DEF Memory, Unstored, Committed, LoginRefreshes, Goto, Note, SameServer, SameCounts, SameFates, BeginRefresh
  <2>. QED BY <2>1, <2>2, <2>3, Quiet
<1>5. ASSUME LoginWaited(p) PROVE TokenInv'
  <2>1. UNCHANGED <<cr, grants, spent, orphans, replayed, ended, cancelled>>
    BY <1>5 DEF LoginWaited, SameServer, SameCounts, SameFates
  <2>2. Moves(p)
    BY <1>5, SigningInCore DEF SigningIn
  <2>3. /\ at[p] # "ref.put"
        /\ at'[p] \in Unstored \cup Committed =>
             /\ at'[p] = at[p] \/ (at[p] \in Committed /\ at'[p] \in Committed)
             /\ my'[p].tok = my[p].tok /\ my'[p].cr = my[p].cr
    BY <1>0, <1>5 DEF Memory, Unstored, Committed, LoginWaited, Goto, Note, SameServer, SameCounts, SameFates
  <2>. QED BY <2>1, <2>2, <2>3, Quiet
<1>6. ASSUME LoginFails(p) PROVE TokenInv'
  <2>1. UNCHANGED <<cr, grants, spent, orphans, replayed, ended, cancelled>>
    BY <1>6 DEF LoginFails, SameServer, SameCounts, SameFates
  <2>2. Moves(p)
    BY <1>6, SigningInCore DEF SigningIn
  <2>3. /\ at[p] # "ref.put"
        /\ at'[p] \in Unstored \cup Committed =>
             /\ at'[p] = at[p] \/ (at[p] \in Committed /\ at'[p] \in Committed)
             /\ my'[p].tok = my[p].tok /\ my'[p].cr = my[p].cr
    BY <1>0, <1>6 DEF Memory, Unstored, Committed, LoginFails, Goto, SameServer, SameCounts, SameFates
  <2>. QED BY <2>1, <2>2, <2>3, Quiet
<1>7. ASSUME CommitState(p) PROVE TokenInv'
  <2>1. UNCHANGED <<cr, grants, spent, orphans, replayed, ended, cancelled>>
    BY <1>7 DEF CommitState, SameServer, SameCounts, SameFates
  <2>2. Moves(p)
    BY <1>7, SigningInCore DEF SigningIn
  <2>3. /\ at[p] # "ref.put"
        /\ at'[p] \in Unstored \cup Committed =>
             /\ at'[p] = at[p] \/ (at[p] \in Committed /\ at'[p] \in Committed)
             /\ my'[p].tok = my[p].tok /\ my'[p].cr = my[p].cr
    BY <1>0, <1>7 DEF Memory, Unstored, Committed, CommitState, Goto, SameServer, SameCounts, SameFates
  <2>. QED BY <2>1, <2>2, <2>3, Quiet
<1>8. ASSUME CommitStateFails(p) PROVE TokenInv'
  <2>1. UNCHANGED <<cr, grants, spent, orphans, replayed, ended, cancelled>>
    BY <1>8 DEF CommitStateFails, SameServer, SameCounts, SameFates
  <2>2. Moves(p)
    BY <1>8, SigningInCore DEF SigningIn
  <2>3. /\ at[p] # "ref.put"
        /\ at'[p] \in Unstored \cup Committed =>
             /\ at'[p] = at[p] \/ (at[p] \in Committed /\ at'[p] \in Committed)
             /\ my'[p].tok = my[p].tok /\ my'[p].cr = my[p].cr
    BY <1>0, <1>8 DEF Memory, Unstored, Committed, CommitStateFails, Goto, SameServer, SameCounts, SameFates
  <2>. QED BY <2>1, <2>2, <2>3, Quiet
<1>9. ASSUME CommitEnds(p) PROVE TokenInv'
  <2>1. UNCHANGED <<cr, grants, spent, orphans, replayed, ended, cancelled>>
    BY <1>9 DEF CommitEnds, SameServer, SameCounts, SameFates
  <2>2. Moves(p)
    BY <1>9, SigningInCore DEF SigningIn
  <2>3. /\ at[p] # "ref.put"
        /\ at'[p] \in Unstored \cup Committed =>
             /\ at'[p] = at[p] \/ (at[p] \in Committed /\ at'[p] \in Committed)
             /\ my'[p].tok = my[p].tok /\ my'[p].cr = my[p].cr
    BY <1>0, <1>9 DEF Memory, Unstored, Committed, CommitEnds, Goto, Done, SameServer, SameCounts, SameFates
  <2>. QED BY <2>1, <2>2, <2>3, Quiet
<1>10. ASSUME UndoState(p) PROVE TokenInv'
  <2>1. UNCHANGED <<cr, grants, spent, orphans, replayed, ended, cancelled>>
    BY <1>10 DEF UndoState, SameServer, SameCounts, SameFates
  <2>2. Moves(p)
    BY <1>10, SigningInCore DEF SigningIn
  <2>3. /\ at[p] # "ref.put"
        /\ at'[p] \in Unstored \cup Committed =>
             /\ at'[p] = at[p] \/ (at[p] \in Committed /\ at'[p] \in Committed)
             /\ my'[p].tok = my[p].tok /\ my'[p].cr = my[p].cr
    BY <1>0, <1>10 DEF Memory, Unstored, Committed, UndoState, Goto, SameServer, SameCounts, SameFates
  <2>. QED BY <2>1, <2>2, <2>3, Quiet
<1>11. ASSUME LoginReleases(p) PROVE TokenInv'
  <2>1. UNCHANGED <<cr, grants, spent, orphans, replayed, ended, cancelled>>
    BY <1>11 DEF LoginReleases, SameServer, SameCounts, SameFates
  <2>2. Moves(p)
    BY <1>11, SigningInCore DEF SigningIn
  <2>3. /\ at[p] # "ref.put"
        /\ at'[p] \in Unstored \cup Committed =>
             /\ at'[p] = at[p] \/ (at[p] \in Committed /\ at'[p] \in Committed)
             /\ my'[p].tok = my[p].tok /\ my'[p].cr = my[p].cr
    BY <1>0, <1>11 DEF Memory, Unstored, Committed, LoginReleases, Done, Goto, SameServer, SameCounts, SameFates
  <2>. QED BY <2>1, <2>2, <2>3, Quiet
<1>. QED BY <1>1, <1>2, <1>3, <1>4, <1>5, <1>6, <1>7, <1>8, <1>9, <1>10, <1>11

\* nor a call that comes, is cancelled or gives up.
LEMMA HinderedQuiet ==
  ASSUME CoreInv, TokenInv, NEW p \in Procs,
         Unauthorized(p) \/ Logout(p) \/ CancelLogin(p) \/ LoginStops(p) \/ LockTimesOut(p)
  PROVE  TokenInv'
<1>0. /\ at[p] \in Places /\ my[p] \in Memory /\ at \in [Procs -> Places]
      /\ my \in [Procs -> Memory] /\ Files
  BY Here
<1>1. ASSUME Unauthorized(p) PROVE TokenInv'
  <2>1. UNCHANGED <<cr, grants, spent, orphans, replayed, ended, cancelled>>
    BY <1>1 DEF Unauthorized, SameServer, SameCounts, SameFates, BeginRefresh
  <2>2. Moves(p)
    BY <1>1, HinderedCore DEF Hindered
  <2>3. /\ at[p] # "ref.put"
        /\ at'[p] \in Unstored \cup Committed =>
             /\ at'[p] = at[p] \/ (at[p] \in Committed /\ at'[p] \in Committed)
             /\ my'[p].tok = my[p].tok /\ my'[p].cr = my[p].cr
    BY <1>0, <1>1 DEF Memory, Unstored, Committed, Unauthorized, SameServer, SameCounts, SameFates, BeginRefresh, Goto, Note
  <2>. QED BY <2>1, <2>2, <2>3, Quiet
<1>2. ASSUME Logout(p) PROVE TokenInv'
  <2>1. UNCHANGED <<cr, grants, spent, orphans, replayed, ended, cancelled>>
    BY <1>2 DEF Logout, SameServer, SameCounts, SameFates
  <2>2. Moves(p)
    BY <1>2, HinderedCore DEF Hindered
  <2>3. /\ at[p] # "ref.put"
        /\ at'[p] \in Unstored \cup Committed =>
             /\ at'[p] = at[p] \/ (at[p] \in Committed /\ at'[p] \in Committed)
             /\ my'[p].tok = my[p].tok /\ my'[p].cr = my[p].cr
    BY <1>0, <1>2 DEF Memory, Unstored, Committed, Logout, Goto, SameServer, SameCounts, SameFates
  <2>. QED BY <2>1, <2>2, <2>3, Quiet
<1>3. ASSUME CancelLogin(p) PROVE TokenInv'
  <2>1. UNCHANGED <<cr, grants, spent, orphans, replayed, ended, cancelled>>
    BY <1>3 DEF CancelLogin, SameServer, SameCounts, SameFates
  <2>2. Moves(p)
    BY <1>3, HinderedCore DEF Hindered
  <2>3. /\ at[p] # "ref.put"
        /\ at'[p] \in Unstored \cup Committed =>
             /\ at'[p] = at[p] \/ (at[p] \in Committed /\ at'[p] \in Committed)
             /\ my'[p].tok = my[p].tok /\ my'[p].cr = my[p].cr
    BY <1>0, <1>3 DEF Memory, Unstored, Committed, CancelLogin, Note, SameServer, SameCounts, SameFates
  <2>. QED BY <2>1, <2>2, <2>3, Quiet
<1>4. ASSUME LoginStops(p) PROVE TokenInv'
  <2>1. UNCHANGED <<cr, grants, spent, orphans, replayed, ended, cancelled>>
    BY <1>4 DEF LoginStops, SameServer, SameCounts, SameFates
  <2>2. Moves(p)
    BY <1>4, HinderedCore DEF Hindered
  <2>3. /\ at[p] # "ref.put"
        /\ at'[p] \in Unstored \cup Committed =>
             /\ at'[p] = at[p] \/ (at[p] \in Committed /\ at'[p] \in Committed)
             /\ my'[p].tok = my[p].tok /\ my'[p].cr = my[p].cr
    BY <1>0, <1>4 DEF Memory, Unstored, Committed, LoginStops, Done, Goto, SameServer, SameCounts, SameFates
  <2>. QED BY <2>1, <2>2, <2>3, Quiet
<1>5. ASSUME LockTimesOut(p) PROVE TokenInv'
  <2>1. UNCHANGED <<cr, grants, spent, orphans, replayed, ended, cancelled>>
    BY <1>5 DEF LockTimesOut, SameServer, SameCounts, SameFates
  <2>2. Moves(p)
    BY <1>5, HinderedCore DEF Hindered
  <2>3. /\ at[p] # "ref.put"
        /\ at'[p] \in Unstored \cup Committed =>
             /\ at'[p] = at[p] \/ (at[p] \in Committed /\ at'[p] \in Committed)
             /\ my'[p].tok = my[p].tok /\ my'[p].cr = my[p].cr
    BY <1>0, <1>5 DEF Memory, Unstored, Committed, LockTimesOut, Goto, Done, SameServer, SameCounts, SameFates
  <2>. QED BY <2>1, <2>2, <2>3, Quiet
<1>. QED BY <1>1, <1>2, <1>3, <1>4, <1>5

\* The names of a credential, and of a credential that follows another.
LEMMA NamesOf ==
  /\ Names({}) = {}
  /\ \A c : \A x \in c : x.tok \in Names(c) /\ x.epoch \in Names(c)
  /\ \A x : Names({x}) = {x.tok, x.epoch}
BY DEF Names

\* A process that works under the lock is the only one that does.
LEMMA Only ==
  ASSUME CoreInv, NEW p \in Procs, NEW q \in Procs, at[p] \in Locked, at[q] \in Locked
  PROVE  p = q
BY DEF CoreInv, LockInv

\* A step after which p holds no unstored token, and which leaves what the
\* others have alone: only what is stored, exchanged or ended has changed.
LEMMA Settles ==
  ASSUME CoreInv, TokenInv, NEW p \in Procs, Moves(p),
         at'[p] \notin Unstored \cup Committed,
         FilesInv', grants' = grants,
         \A q \in Procs : q # p => Known(q)'
  PROVE  TokenInv'
<1>1. ASSUME NEW q \in Procs, q # p PROVE at'[q] = at[q] /\ my'[q] = my[q]
  BY <1>1 DEF CoreInv, TypeOK, Moves
<1>2. Known(p)'
  BY DEF Known
<1>3. ASSUME NEW q \in Procs, NEW r \in Procs PROVE Apart(q, r)'
  <2>1. Apart(q, r)
    BY DEF TokenInv
  <2>2. CASE q = p \/ r = p
    BY <2>2 DEF Apart, Unstored
  <2>3. CASE q # p /\ r # p
    BY <1>1, <2>1, <2>3 DEF Apart, Names
  <2>. QED BY <2>2, <2>3
<1>. QED BY <1>2, <1>3 DEF TokenInv

\* While p works under the lock, no other process has a commit to take back,
\* and a token that another one has not stored is new.
LEMMA Others ==
  ASSUME CoreInv, TokenInv, NEW p \in Procs, Moves(p), at[p] \in Locked,
         NEW q \in Procs, q # p
  PROVE  /\ at'[q] = at[q] /\ my'[q] = my[q] /\ at[q] \notin Committed /\ at[q] # "ref.put"
         /\ at[q] = "want.commit" => /\ my[q].tok \in 1..grants
                                     /\ my[q].tok \notin Old \cup Names(cr)
                                     /\ Apart(q, p)
<1>1. at'[q] = at[q] /\ my'[q] = my[q]
  BY DEF CoreInv, TypeOK, Moves
<1>2. at[q] \notin Locked
  BY Only
<1>3. Known(q) /\ Apart(q, p)
  BY DEF TokenInv
<1>. QED BY <1>1, <1>2, <1>3 DEF Known, Unstored, Committed, Locked

\* The server exchanges the refresh token, fails to answer or refuses.
LEMMA ServerAnswers ==
  ASSUME CoreInv, TokenInv, NEW p \in Procs,
         RefreshGranted(p) \/ RefreshRefused(p) \/ RefreshFailed(p)
  PROVE  TokenInv'
<1>0. /\ at[p] = "ref.call" /\ at[p] \in Locked /\ at \in [Procs -> Places]
      /\ my \in [Procs -> Memory] /\ my[p] \in Memory /\ Files /\ Rest /\ Phase(p)
  BY Here DEF RefreshGranted, RefreshRefused, RefreshFailed, Locked
<1>1. Moves(p)
  BY RefreshingCore DEF Refreshing
<1>2. /\ \A x \in cr : x.tok = OldToken(p)
      /\ OldToken(p) \in Names(cr) /\ OldToken(p) \in 1..grants
  <2>1. PICK x \in cr : x.tok = OldToken(p)
    BY <1>0, OldOne
  <2>2. OldToken(p) \in Names(cr)
    BY <2>1, NamesOf
  <2>. QED BY <1>0, <2>2, OldOne DEF TokenInv, FilesInv
<1>3. OldToken(p) \in spent => OldToken(p) \in orphans
  <2>1. ASSUME NEW q \in Procs PROVE at[q] # "ref.put"
    BY <1>0, Only DEF Locked
  <2>2. PICK x \in cr : x.tok = OldToken(p)
    BY <1>0, OldOne
  <2>. QED BY <2>1, <2>2 DEF TokenInv, FilesInv
<1>4. replayed' = replayed \cup ({OldToken(p)} \cap spent)
  BY DEF RefreshGranted, RefreshRefused, RefreshFailed, Presented
<1>5. CASE RefreshRefused(p)
  <2>1. /\ UNCHANGED <<cr, grants, spent, orphans, ended, cancelled>> /\ at'[p] = "ref.delete"
    BY <1>0, <1>5 DEF RefreshRefused, SameServer, SameCounts, Goto
  <2>2. FilesInv'
    <3>1. \A q \in Procs : at[q] # "ref.put"
      BY <1>0, Only DEF Locked
    <3>. QED BY <1>3, <1>4, <2>1, <3>1 DEF TokenInv, FilesInv, Old, Names
  <2>3. ASSUME NEW q \in Procs, q # p PROVE Known(q)'
    BY <1>0, <1>1, <2>1, <2>3, Others DEF Known, Old, Names, Unstored
  <2>4. at'[p] \notin Unstored \cup Committed
    BY <2>1 DEF Unstored, Committed
  <2>. QED BY <1>1, <2>1, <2>2, <2>3, <2>4, Settles
<1>6. CASE RefreshFailed(p)
  <2>1. PICK gone \in SUBSET {OldToken(p)} : spent' = spent \cup gone /\ orphans' = orphans \cup gone
    BY <1>6 DEF RefreshFailed
  <2>2. UNCHANGED <<cr, grants, ended, cancelled>> /\ at'[p] = "idle"
    BY <1>0, <1>6 DEF RefreshFailed, Done, Goto
  <2>3. FilesInv'
    <3>1. \A q \in Procs : at[q] # "ref.put"
      BY <1>0, Only DEF Locked
    <3>. QED BY <1>2, <1>3, <1>4, <2>1, <2>2, <3>1 DEF TokenInv, FilesInv, Old, Names
  <2>4. ASSUME NEW q \in Procs, q # p PROVE Known(q)'
    BY <1>0, <1>1, <1>2, <2>1, <2>2, <2>4, Others DEF Known, Old, Names, Unstored
  <2>5. at'[p] \notin Unstored \cup Committed
    BY <2>2 DEF Unstored, Committed
  <2>. QED BY <1>1, <2>2, <2>3, <2>4, <2>5, Settles
<1>7. CASE RefreshGranted(p)
  <2>1. /\ UNCHANGED <<cr, orphans, ended, cancelled>> /\ at'[p] = "ref.put"
        /\ grants' = grants + 1 /\ grants \in Nat /\ spent' = spent \cup {OldToken(p)}
        /\ OldToken(p) \notin spent
    BY <1>0, <1>7 DEF RefreshGranted, Goto, Rest
  <2>2. my'[p].tok = grants + 1
    BY <1>0, <1>7 DEF RefreshGranted, Note, Memory
  <2>3. FilesInv'
    BY <1>0, <1>2, <1>4, <2>1 DEF TokenInv, FilesInv, Old, Names
  <2>4. ASSUME NEW q \in Procs, q # p PROVE Known(q)'
    BY <1>0, <1>1, <1>2, <2>1, <2>4, Others DEF Known, Old, Names, Unstored
  <2>5. Known(p)'
    BY <1>2, <2>1, <2>2 DEF TokenInv, FilesInv, Known, Old, Names, Unstored, Committed
  <2>6. ASSUME NEW q \in Procs, NEW r \in Procs PROVE Apart(q, r)'
    <3>1. CASE q # p /\ r = p
      BY <1>0, <1>1, <2>1, <2>2, <3>1, Others DEF Apart, Committed
    <3>2. CASE q # p /\ r # p
      BY <1>0, <1>1, <3>2, Others DEF TokenInv, Apart, Names
    <3>3. CASE q = p
      BY <2>1, <3>3 DEF Apart
    <3>. QED BY <3>1, <3>2, <3>3
  <2>. QED BY <2>3, <2>4, <2>5, <2>6 DEF TokenInv
<1>. QED BY <1>5, <1>6, <1>7

\* A login is approved: its token is new.
LEMMA Approved ==
  ASSUME CoreInv, TokenInv, NEW p \in Procs, LoginApproved(p)
  PROVE  TokenInv'
<1>0. /\ at[p] = "log.device" /\ at \in [Procs -> Places]
      /\ my \in [Procs -> Memory] /\ my[p] \in Memory /\ Files /\ Rest
  BY Here DEF LoginApproved
<1>1. Moves(p)
  BY SigningInCore DEF SigningIn
<1>2. /\ UNCHANGED <<cr, spent, orphans, replayed, ended, cancelled>>
      /\ at'[p] = "want.commit" /\ my'[p].tok = grants + 1
      /\ grants' = grants + 1 /\ grants \in Nat
  BY <1>0 DEF LoginApproved, SameFates, Goto, Note, Memory, Rest
<1>3. ASSUME NEW q \in Procs, q # p PROVE at'[q] = at[q] /\ my'[q] = my[q]
  BY <1>1, <1>3 DEF CoreInv, TypeOK, Moves
<1>4. FilesInv'
  <2>1. ASSUME NEW q \in Procs, at[q] = "ref.put" PROVE at'[q] = "ref.put"
    BY <1>0, <1>3, <2>1
  <2>. QED BY <1>2, <2>1 DEF TokenInv, FilesInv, Old, Names
<1>5. ASSUME NEW q \in Procs, q # p PROVE Known(q)'
  BY <1>2, <1>3, <1>5 DEF TokenInv, Known, Old, Names
<1>6. Known(p)'
  BY <1>2 DEF TokenInv, FilesInv, Known, Old, Names, Unstored, Committed
<1>7. ASSUME NEW q \in Procs, NEW r \in Procs PROVE Apart(q, r)'
  <2>1. CASE q = p /\ r # p
    <3>1. Known(r)
      BY DEF TokenInv
    <3>. QED BY <1>2, <1>3, <2>1, <3>1 DEF Apart, Known, Names
  <2>2. CASE q # p /\ r = p
    <3>1. Known(q)
      BY DEF TokenInv
    <3>. QED BY <1>2, <1>3, <2>2, <3>1 DEF Apart, Known, Unstored, Committed
  <2>3. CASE q # p /\ r # p
    BY <1>3, <2>3 DEF TokenInv, Apart, Names
  <2>4. CASE q = p /\ r = p
    BY <2>4 DEF Apart
  <2>. QED BY <2>1, <2>2, <2>3, <2>4
<1>. QED BY <1>4, <1>5, <1>6, <1>7 DEF TokenInv

\* The credential is deleted.
LEMMA Deleted ==
  ASSUME CoreInv, TokenInv, NEW p \in Procs, RefreshDelete(p) \/ LogoutDelete(p)
  PROVE  TokenInv'
<1>0. /\ at[p] \in {"ref.delete", "out.revoke"} /\ at[p] \in Locked /\ at \in [Procs -> Places]
      /\ my \in [Procs -> Memory]
  BY Here DEF RefreshDelete, LogoutDelete, Locked
<1>1. Moves(p)
  BY RefreshingCore, SigningOutCore DEF Refreshing, SigningOut
<1>2. /\ cr' = {} /\ ended' = ended \cup {x.epoch : x \in cr}
      /\ UNCHANGED <<grants, spent, orphans, replayed, cancelled>>
      /\ at'[p] \in {"idle", "want.login", "out.state"}
  BY <1>0 DEF RefreshDelete, LogoutDelete, SameCounts, Goto, Done
<1>3. Names(cr') = {} /\ \A n \in ended' : n \in ended \cup Names(cr)
  BY <1>2, NamesOf
<1>4. FilesInv'
  BY <1>2, <1>3 DEF TokenInv, FilesInv, Old, Names
<1>5. ASSUME NEW q \in Procs, q # p PROVE Known(q)'
  BY <1>0, <1>1, <1>2, <1>3, <1>5, Others DEF Known, Old, Names, Unstored
<1>6. at'[p] \notin Unstored \cup Committed
  BY <1>2 DEF Unstored, Committed
<1>. QED BY <1>1, <1>2, <1>4, <1>5, <1>6, Settles

\* The new credential of a refresh is stored.
LEMMA Stored ==
  ASSUME CoreInv, TokenInv, NEW p \in Procs, RefreshPut(p)
  PROVE  TokenInv'
<1>0. /\ at[p] = "ref.put" /\ at[p] \in Locked /\ at[p] \in Unstored /\ at \in [Procs -> Places]
      /\ my \in [Procs -> Memory] /\ Files /\ Phase(p)
  BY Here DEF RefreshPut, Locked, Unstored
<1>1. Moves(p)
  BY RefreshingCore DEF Refreshing
<1>2. UNCHANGED <<grants, spent, orphans, replayed, ended, cancelled>> /\ at'[p] = "ref.state"
  BY <1>0 DEF RefreshPut, SameCounts, SameFates, Goto
<1>3. PICK x \in cr : my[p].cr = {x}
  BY <1>0, OldOne
<1>. DEFINE y == [gen |-> TopGen(my[p].st, my[p].cr) + 1, epoch |-> x.epoch, tok |-> my[p].tok]
<1>4. cr' = {y} /\ y.epoch = x.epoch /\ y.tok = my[p].tok
  BY <1>3 DEF RefreshPut
<1>. HIDE DEF y
<1>5. x.epoch \in Names(cr) /\ Names(cr') = {my[p].tok, x.epoch}
  BY <1>4, NamesOf
<1>6. my[p].tok \in 1..grants /\ my[p].tok \notin Old \cup Names(cr)
  BY <1>0 DEF TokenInv, Known
<1>7. FilesInv'
  <2>1. \A n \in Old' \cup Names(cr') : n \in 1..grants'
    BY <1>2, <1>5, <1>6 DEF TokenInv, FilesInv, Old
  <2>2. y.epoch \notin ended' \cup cancelled' /\ y.tok \notin spent'
    BY <1>2, <1>4, <1>6 DEF TokenInv, FilesInv, Old
  <2>. QED BY <1>2, <1>4, <2>1, <2>2 DEF TokenInv, FilesInv
<1>8. ASSUME NEW q \in Procs, q # p PROVE Known(q)'
  <2>1. at[q] = "want.commit" => my[q].tok # my[p].tok
    BY <1>0, <1>1, <1>8, Others DEF Apart
  <2>. QED BY <1>0, <1>1, <1>2, <1>5, <1>8, <2>1, Others DEF Known, Old, Unstored
<1>9. at'[p] \notin Unstored \cup Committed
  BY <1>2 DEF Unstored, Committed
<1>. QED BY <1>1, <1>2, <1>7, <1>8, <1>9, Settles

\* The credential of a login is stored.
LEMMA LoggedIn ==
  ASSUME CoreInv, TokenInv, NEW p \in Procs, CommitCredential(p)
  PROVE  TokenInv'
<1>0. /\ at[p] = "want.commit" /\ lock = {} /\ at[p] \in Unstored /\ at \in [Procs -> Places]
      /\ my \in [Procs -> Memory] /\ my[p] \in Memory /\ Files
  BY Here DEF CommitCredential, Free, Unstored
<1>1. Moves(p)
  BY SigningInCore DEF SigningIn
<1>2. /\ UNCHANGED <<grants, spent, orphans, replayed, ended, cancelled>> /\ at'[p] = "log.state"
      /\ my'[p].tok = my[p].tok /\ my'[p].cr = cr
  BY <1>0 DEF CommitCredential, SameCounts, SameFates, Goto, Note, Memory
<1>. DEFINE y == [gen |-> TopGen(st, cr) + 1, epoch |-> my[p].tok, tok |-> my[p].tok]
<1>3. cr' = {y} /\ y.epoch = my[p].tok /\ y.tok = my[p].tok
  BY DEF CommitCredential
<1>. HIDE DEF y
<1>4. Names(cr') = {my[p].tok}
  BY <1>3, NamesOf
<1>5. my[p].tok \in 1..grants /\ my[p].tok \notin Old \cup Names(cr)
  BY <1>0 DEF TokenInv, Known
<1>6. ASSUME NEW q \in Procs PROVE at[q] \notin Locked
  BY <1>0 DEF CoreInv, LockInv
<1>7. ASSUME NEW q \in Procs, q # p PROVE /\ at'[q] = at[q] /\ my'[q] = my[q]
                                          /\ at[q] \notin Committed /\ at[q] # "ref.put"
  BY <1>1, <1>6, <1>7 DEF CoreInv, TypeOK, Moves, Locked, Committed
<1>8. FilesInv'
  <2>1. \A n \in Old' \cup Names(cr') : n \in 1..grants'
    BY <1>2, <1>4, <1>5 DEF TokenInv, FilesInv, Old
  <2>2. y.epoch \notin ended' \cup cancelled' /\ y.tok \notin spent'
    BY <1>2, <1>3, <1>5 DEF Old
  <2>. QED BY <1>2, <1>3, <2>1, <2>2 DEF TokenInv, FilesInv
<1>9. ASSUME NEW q \in Procs, q # p PROVE Known(q)'
  <2>1. at[q] = "want.commit" => my[q].tok # my[p].tok /\ Known(q)
    BY <1>0, <1>9 DEF TokenInv, Apart
  <2>. QED BY <1>2, <1>4, <1>7, <1>9, <2>1 DEF Known, Old, Unstored
<1>10. Known(p)'
  <2>1. \A x \in cr : x.epoch \notin ended \cup cancelled /\ x.tok \notin spent \ orphans
    BY <1>6 DEF TokenInv, FilesInv, Locked
  <2>2. \A n \in Names(cr) : n \in 1..grants
    BY DEF TokenInv, FilesInv
  <2>. QED BY <1>2, <1>3, <1>5, <2>1, <2>2 DEF Known, Old, Unstored, Committed
<1>11. ASSUME NEW q \in Procs, NEW r \in Procs PROVE Apart(q, r)'
  <2>1. CASE q # p /\ r = p
    <3>1. at[q] = "want.commit" => my[q].tok # my[p].tok /\ Known(q)
      BY <1>0, <2>1 DEF TokenInv, Apart
    <3>. QED BY <1>2, <1>7, <2>1, <3>1 DEF Apart, Known, Unstored
  <2>2. CASE q # p /\ r # p
    BY <1>7, <2>2 DEF TokenInv, Apart, Names
  <2>3. CASE q = p
    BY <1>2, <2>3 DEF Apart
  <2>. QED BY <2>1, <2>2, <2>3
<1>. QED BY <1>8, <1>9, <1>10, <1>11 DEF TokenInv

\* A cancelled login is taken back.
LEMMA TakenBack ==
  ASSUME CoreInv, TokenInv, NEW p \in Procs, UndoCredential(p)
  PROVE  TokenInv'
<1>0. /\ at[p] = "log.undo2" /\ at[p] \in Locked /\ at[p] \in Committed /\ at \in [Procs -> Places]
      /\ my \in [Procs -> Memory]
  BY Here DEF UndoCredential, Locked, Committed
<1>1. Moves(p)
  BY SigningInCore DEF SigningIn
<1>2. /\ UNCHANGED <<grants, spent, orphans, replayed, ended>> /\ at'[p] = "want.release"
      /\ cr' = my[p].cr /\ cancelled' = cancelled \cup {my[p].tok}
  BY <1>0 DEF UndoCredential, SameCounts, Goto
<1>3. Known(p)
  BY DEF TokenInv
<1>4. FilesInv'
  <2>1. \A n \in Old' \cup Names(cr') : n \in 1..grants'
    BY <1>0, <1>2, <1>3 DEF TokenInv, FilesInv, Known, Old, Names
  <2>2. ASSUME NEW x \in cr' PROVE x.epoch \notin ended' \cup cancelled' /\ x.tok \notin spent' \ orphans'
    <3>1. x.epoch \in Names(my[p].cr)
      BY <1>2, NamesOf
    <3>. QED BY <1>0, <1>2, <1>3, <3>1 DEF Known
  <2>. QED BY <1>2, <2>1, <2>2 DEF TokenInv, FilesInv
<1>5. ASSUME NEW q \in Procs, q # p PROVE Known(q)'
  <2>1. at[q] = "want.commit" => my[q].tok # my[p].tok /\ my[q].tok \notin Names(my[p].cr)
    BY <1>0, <1>1, <1>5, Others DEF Apart
  <2>2. Names(cr') = Names(my[p].cr)
    BY <1>2
  <2>. QED BY <1>0, <1>1, <1>2, <1>5, <2>1, <2>2, Others DEF Known, Old, Unstored
<1>6. at'[p] \notin Unstored \cup Committed
  BY <1>2 DEF Unstored, Committed
<1>. QED BY <1>1, <1>2, <1>4, <1>5, <1>6, Settles

\* A process dies.
LEMMA Dies ==
  ASSUME CoreInv, TokenInv, NEW p \in Procs, Crash(p)
  PROVE  TokenInv'
<1>0. at \in [Procs -> Places] /\ my \in [Procs -> Memory] /\ Files /\ Phase(p)
  BY Here
<1>1. Moves(p)
  BY HinderedCore DEF Hindered
<1>2. UNCHANGED <<cr, grants, replayed, ended, cancelled>> /\ at'[p] = "idle"
  BY <1>0 DEF Crash, Done, Goto
<1>3. PICK sent \in IF at[p] = "ref.call" THEN SUBSET {OldToken(p)} ELSE {{}} :
        /\ spent' = spent \cup sent
        /\ orphans' = orphans \cup sent \cup (IF at[p] = "ref.put" THEN {OldToken(p)} ELSE {})
  BY DEF Crash
<1>4. at[p] \in {"ref.call", "ref.put"} =>
        \A x \in cr : x.tok = OldToken(p)
  BY <1>0, OldOne
<1>5. \A n \in sent : n \in Names(cr)
  <2>1. at[p] = "ref.call" => OldToken(p) \in Names(cr)
    <3>1. at[p] = "ref.call" => \E x \in cr : x.tok = OldToken(p)
      BY <1>0, OldOne
    <3>. QED BY <3>1, NamesOf
  <2>. QED BY <2>1
<1>6. ASSUME NEW q \in Procs, q # p PROVE at'[q] = at[q] /\ my'[q] = my[q]
  BY <1>1, <1>6 DEF CoreInv, TypeOK, Moves
<1>7. FilesInv'
  <2>1. \A n \in Old' \cup Names(cr') : n \in 1..grants'
    BY <1>2, <1>3, <1>5 DEF TokenInv, FilesInv, Old, Names
  <2>2. ASSUME NEW x \in cr, x.tok \in spent' \ orphans' PROVE \E q \in Procs : at'[q] = "ref.put"
    <3>1. x.tok \in spent \ orphans
      BY <1>3, <2>2
    <3>2. PICK q \in Procs : at[q] = "ref.put"
      BY <3>1 DEF TokenInv, FilesInv
    <3>3. q # p
      BY <1>3, <1>4, <2>2, <3>2
    <3>. QED BY <1>6, <3>2, <3>3
  <2>. QED BY <1>2, <1>3, <2>1, <2>2 DEF TokenInv, FilesInv
<1>8. ASSUME NEW q \in Procs, q # p PROVE Known(q)'
  <2>1. Known(q)
    BY DEF TokenInv
  <2>2. CASE at[q] \in Committed
    <3>1. at[p] # "ref.call"
      BY <1>8, <2>2, Only DEF Locked, Committed
    <3>2. sent = {}
      BY <3>1
    <3>. QED BY <1>2, <1>3, <1>6, <1>8, <2>1, <2>2, <3>2 DEF Known, Old, Names, Unstored, Committed
  <2>3. CASE at[q] \notin Committed
    BY <1>2, <1>3, <1>5, <1>6, <1>8, <2>1, <2>3 DEF Known, Old, Names, Unstored
  <2>. QED BY <2>2, <2>3
<1>9. at'[p] \notin Unstored \cup Committed
  BY <1>2 DEF Unstored, Committed
<1>. QED BY <1>1, <1>2, <1>7, <1>8, <1>9, Settles

\* Every step keeps the second part of the invariant.
LEMMA TokenStep == CoreInv /\ TokenInv /\ [Next]_vars => TokenInv'
<1>. SUFFICES ASSUME CoreInv, TokenInv, [Next]_vars PROVE TokenInv'
  OBVIOUS
<1>1. ASSUME NEW p \in Procs, Reading(p) PROVE TokenInv'
  BY <1>1, ReadingQuiet DEF Reading
<1>2. ASSUME NEW p \in Procs, Refreshing(p) PROVE TokenInv'
  BY <1>2, RefreshingQuiet, ServerAnswers, Deleted, Stored DEF Refreshing
<1>3. ASSUME NEW p \in Procs, SigningOut(p) PROVE TokenInv'
  BY <1>3, SigningOutQuiet, Deleted DEF SigningOut
<1>4. ASSUME NEW p \in Procs, SigningIn(p) PROVE TokenInv'
  BY <1>4, SigningInQuiet, Approved, LoggedIn, TakenBack DEF SigningIn
<1>5. ASSUME NEW p \in Procs, Hindered(p) PROVE TokenInv'
  BY <1>5, HinderedQuiet, Dies DEF Hindered
<1>6. CASE TokenAges \/ LeaseLapses \/ UNCHANGED vars
  <2>1. UNCHANGED <<cr, at, my, grants, spent, replayed, orphans, ended, cancelled>>
    BY <1>6 DEF TokenAges, LeaseLapses, vars, SameFates
  <2>. QED BY <2>1 DEF TokenInv, FilesInv, Known, Apart, Old, Names
<1>. QED BY <1>1, <1>2, <1>3, <1>4, <1>5, <1>6 DEF Next

\* The files, the lock and the tokens keep their invariant through every run of
\* KCodeOAuthCore in any number of processes.
THEOREM Invariant == Spec => [](CoreInv /\ TokenInv)
<1>1. Init => CoreInv /\ TokenInv
  BY InitCore
<1>2. (CoreInv /\ TokenInv) /\ [Next]_vars => (CoreInv /\ TokenInv)'
  BY CoreStep, TokenStep
<1>. QED BY <1>1, <1>2, PTL DEF Spec

-----------------------------------------------------------------------------
(* Generations.  A token that was handed out is older than the next          *)
(* generation, or is the stored one, unless its login was taken back or torn *)
(* by a crash: the next write is of a generation nobody has seen.  While a   *)
(* login is committed, that holds for what it would put back as well.        *)

Tarnished(y) == y.epoch \in cancelled \cup torn
Behind(y, s, c) == y.gen <= TopGen(s, c) /\ \A x \in c : x.gen = y.gen => x.tok = y.tok

Counted == \A y \in handed : Tarnished(y) \/ Behind(y, st, cr)

\* What p is about to delete is counted in the state, what it is about to adopt
\* in the credential, and what it would put back is not of a generation in use.
Reserves(p) ==
  /\ at[p] \in {"ref.delete", "out.revoke"} => CredGen(cr) <= st.gen
  /\ at[p] = "ref.state" => st.gen <= CredGen(cr)
  /\ at[p] \in Committed =>
       /\ st.gen <= CredGen(cr) /\ my[p].st.gen <= CredGen(cr)
       /\ \A y \in handed : Tarnished(y) \/ y.epoch = my[p].tok \/ Behind(y, my[p].st, my[p].cr)
  /\ at[p] = "log.undo2" => st = my[p].st

GenInv == GenerationNamesOneToken /\ Counted /\ \A p \in Procs : Reserves(p)

\* The generation of two files is that of the later one.
LEMMA TopOf ==
  ASSUME NEW s \in State, NEW c \in OneOf(Credential)
  PROVE  /\ TopGen(s, c) \in Nat /\ s.gen \in Nat /\ CredGen(c) \in Nat
         /\ s.gen <= TopGen(s, c) /\ CredGen(c) <= TopGen(s, c)
         /\ TopGen(s, c) = s.gen \/ TopGen(s, c) = CredGen(c)
<1>1. CredGen(c) \in Nat /\ s.gen \in Nat
  BY TheCredential, States
<1>. QED BY <1>1 DEF TopGen, Larger

\* Generations are counted on, and what is stored is stored already or new.
Succeeds ==
  /\ TopGen(st, cr) <= TopGen(st', cr')
  /\ \A x \in cr' : x \in cr \/ TopGen(st, cr) < x.gen

\* What is behind the files stays behind them, and so does what is stored.
LEMMA StaysBehind ==
  ASSUME Files, Files', Succeeds, NEW y \in Credential, Behind(y, st, cr) \/ y \in cr
  PROVE  Behind(y, st', cr')
<1>1. y.gen \in Nat /\ TopGen(st, cr) \in Nat /\ TopGen(st', cr') \in Nat
  BY TopOf DEF Files, Credential
<1>2. Behind(y, st, cr)
  <2>1. CASE y \in cr
    <3>1. cr = {y} /\ CredGen(cr) = y.gen
      BY <2>1, TheCredential DEF Files
    <3>2. CredGen(cr) <= TopGen(st, cr)
      BY TopOf DEF Files
    <3>. QED BY <3>1, <3>2 DEF Behind
  <2>. QED BY <2>1
<1>3. ASSUME NEW x \in cr', x.gen = y.gen PROVE x.tok = y.tok
  <2>1. CASE x \in cr
    BY <1>2, <1>3, <2>1 DEF Behind
  <2>2. CASE TopGen(st, cr) < x.gen
    BY <1>1, <1>2, <1>3, <2>2 DEF Behind
  <2>. QED BY <2>1, <2>2 DEF Succeeds
<1>4. y.gen <= TopGen(st', cr')
  BY <1>1, <1>2 DEF Behind, Succeeds
<1>. QED BY <1>3, <1>4 DEF Behind

\* Of two tokens of one generation one is tarnished, when at most one of them
\* has just been handed out.
LEMMA OneOfTwo ==
  ASSUME CoreInv, GenInv, CoreInv', handed' \subseteq handed \cup cr,
         cancelled \subseteq cancelled', torn \subseteq torn'
  PROVE  GenerationNamesOneToken'
<1>1. ASSUME NEW x \in handed \cup cr, NEW y \in handed \cup cr, x.gen = y.gen, x.tok # y.tok
      PROVE  Tarnished(x) \/ Tarnished(y)
  <2>0. cr \in OneOf(Credential)
    BY DEF CoreInv, TypeOK
  <2>1. CASE x \in handed /\ y \in handed
    BY <1>1, <2>1 DEF GenInv, GenerationNamesOneToken, Tarnished
  <2>2. CASE x \in cr /\ y \in cr
    BY <1>1, <2>0, <2>2 DEF OneOf
  <2>3. CASE x \in handed /\ y \in cr
    BY <1>1, <2>3 DEF GenInv, Counted, Behind
  <2>4. CASE x \in cr /\ y \in handed
    BY <1>1, <2>4 DEF GenInv, Counted, Behind
  <2>. QED BY <2>1, <2>2, <2>3, <2>4
<1>2. ASSUME NEW x, Tarnished(x) PROVE x.epoch \in (cancelled \cup torn)'
  BY <1>2 DEF Tarnished
<1>3. ASSUME NEW x \in handed', NEW y \in handed', x.gen = y.gen, x.tok # y.tok
      PROVE  x.epoch \in (cancelled \cup torn)' \/ y.epoch \in (cancelled \cup torn)'
  <2>1. x \in handed \cup cr /\ y \in handed \cup cr
    OBVIOUS
  <2>. QED BY <1>1, <1>2, <1>3, <2>1
<1>. QED BY <1>3 DEF GenerationNamesOneToken

\* A step that counts on, hands out nothing but what is stored and is right
\* about its own process keeps the generations.
LEMMA CountsOn ==
  ASSUME CoreInv, TokenInv, GenInv, CoreInv', NEW p \in Procs, Moves(p),
         Alone(p) \/ UNCHANGED <<st, cr>>,
         handed' \subseteq handed \cup cr,
         cancelled \subseteq cancelled', torn \subseteq torn',
         Succeeds, Reserves(p)'
  PROVE  GenInv'
<1>0. Files /\ Files' /\ handed' \subseteq Credential
  BY DEF CoreInv, TypeOK, Files
<1>1. ASSUME NEW y, Tarnished(y) PROVE Tarnished(y)'
  BY <1>1 DEF Tarnished
<1>2. GenerationNamesOneToken'
  BY OneOfTwo
<1>3. Counted'
  <2>. SUFFICES ASSUME NEW y \in handed' PROVE Tarnished(y)' \/ Behind(y, st', cr')
    BY DEF Counted, Behind, TopGen, CredGen
  <2>1. y \in Credential
    BY <1>0
  <2>2. CASE y \in cr
    BY <1>0, <2>1, <2>2, StaysBehind
  <2>3. CASE y \in handed
    <3>1. Tarnished(y) \/ Behind(y, st, cr)
      BY <2>3 DEF GenInv, Counted
    <3>. QED BY <1>0, <1>1, <2>1, <3>1, StaysBehind
  <2>. QED BY <2>2, <2>3
<1>4. ASSUME NEW q \in Procs, q # p PROVE Reserves(q)'
  <2>1. at'[q] = at[q] /\ my'[q] = my[q]
    BY <1>4 DEF CoreInv, TypeOK, Moves
  <2>2. Reserves(q)
    BY DEF GenInv
  <2>3. CASE Alone(p)
    <3>1. at[q] \notin Locked
      BY <1>4, <2>3 DEF CoreInv, LockInv, Alone
    <3>. QED BY <2>1, <3>1 DEF Reserves, Locked, Committed
  <2>4. CASE UNCHANGED <<st, cr>>
    <3>1. ASSUME at[q] \in Committed, NEW y \in handed'
          PROVE  Tarnished(y)' \/ y.epoch = my[q].tok \/ Behind(y, my[q].st, my[q].cr)
      <4>1. CASE y \in handed
        BY <1>1, <2>2, <3>1, <4>1 DEF Reserves
      <4>2. CASE y \in cr
        BY <3>1, <4>2 DEF TokenInv, Known
      <4>. QED BY <4>1, <4>2
    <3>. QED BY <2>1, <2>2, <2>4, <3>1 DEF Reserves, Behind, TopGen, CredGen
  <2>. QED BY <2>3, <2>4
<1>. QED BY <1>2, <1>3, <1>4 DEF GenInv

\* The places that answer for a generation.
Answering == {"ref.delete", "out.revoke", "ref.state"} \cup Committed

\* A step that leaves the credential and counts on in the state, and whose
\* process answers for nothing afterwards, keeps the generations.
LEMMA CountsOnInState ==
  ASSUME CoreInv, TokenInv, GenInv, CoreInv', NEW p \in Procs, Moves(p),
         Alone(p) \/ UNCHANGED st, cr' = cr, st.gen <= st'.gen,
         handed' \subseteq handed \cup cr,
         cancelled \subseteq cancelled', torn \subseteq torn',
         at'[p] \notin Answering \/ Reserves(p)'
  PROVE  GenInv'
<1>0. Files /\ Files'
  BY DEF CoreInv, TypeOK, Files
<1>1. Succeeds
  <2>1. /\ st.gen \in Nat /\ st'.gen \in Nat /\ CredGen(cr) \in Nat
        /\ st'.gen <= TopGen(st', cr) /\ CredGen(cr) <= TopGen(st', cr) /\ TopGen(st', cr) \in Nat
        /\ TopGen(st, cr) = st.gen \/ TopGen(st, cr) = CredGen(cr)
    BY <1>0, TopOf DEF Files
  <2>. QED BY <2>1 DEF Succeeds
<1>2. Reserves(p)'
  <2>1. CASE at'[p] \notin Answering
    BY <2>1 DEF Reserves, Answering, Committed
  <2>. QED BY <2>1
<1>. QED BY <1>1, <1>2, CountsOn

\* refreshCredential starts without a new generation.
LEMMA RefreshesGen ==
  ASSUME CoreInv, TokenInv, GenInv, CoreInv', NEW p \in Procs, Moves(p),
         NEW o, Free, BeginRefresh(p, o), SameFates
  PROVE  GenInv'
<1>0. at \in [Procs -> Places] /\ Files
  BY Here
<1>1. st' = [st EXCEPT !.status = "refreshing"] /\ st \in State
  BY <1>0 DEF BeginRefresh, Files
<1>2. st'.gen = st.gen /\ st.gen \in Nat
  BY <1>1, States DEF Status
<1>3. at'[p] = "ref.call" /\ UNCHANGED <<cr, handed, cancelled, torn>> /\ Alone(p)
  BY <1>0 DEF BeginRefresh, Goto, Free, Take, Alone, SameFates
<1>. QED BY <1>2, <1>3, CountsOnInState DEF Answering, Committed

\* What is read and adopted: only the credential that is stored is handed out,
\* and an unfinished write is adopted when it is ahead.
LEMMA ReadingGen ==
  ASSUME CoreInv, TokenInv, GenInv, NEW p \in Procs, Reading(p)
  PROVE  GenInv'
<1>0. /\ at \in [Procs -> Places] /\ Files /\ CoreInv' /\ Moves(p)
      /\ my \in [Procs -> Memory] /\ my[p] \in Memory
  BY Here, ReadingCore
<1>1. st.gen \in Nat /\ CredGen(cr) \in Nat /\ \A s \in Status, g \in Nat : Base(s, g).gen = g
  BY <1>0, TopOf, States DEF Files, Base
<1>2. CASE GetRead(p)
  <2>1. UNCHANGED <<st, cr, handed, cancelled, torn>> /\ at'[p] = "get.cred"
    BY <1>0, <1>2 DEF GetRead, Goto, files, SameFates
  <2>. QED BY <1>0, <1>1, <2>1, CountsOnInState DEF Answering, Committed
<1>3. CASE GetCred(p)
  <2>1. UNCHANGED <<st, cr, cancelled, torn>> /\ at'[p] \in {"idle", "want.get"}
    BY <1>0, <1>3 DEF GetCred, Goto, Done, files, SameFates
  <2>2. handed' \subseteq handed \cup cr
    BY <1>3 DEF GetCred, Usable
  <2>. QED BY <1>0, <1>1, <2>1, <2>2, CountsOnInState DEF Answering, Committed
<1>4. CASE GetLocked(p)
  <2>1. CASE BeginRefresh(p, "get")
    BY <1>0, <1>4, <2>1, RefreshesGen DEF GetLocked
  <2>2. CASE ~BeginRefresh(p, "get")
    <3>1. UNCHANGED <<st, cr, cancelled, torn>> /\ at'[p] = "idle"
      BY <1>0, <1>4, <2>2 DEF GetLocked, Goto, Done, files, SameFates
    <3>2. handed' \subseteq handed \cup cr
      BY <1>4, <2>2 DEF GetLocked, Usable
    <3>. QED BY <1>0, <1>1, <3>1, <3>2, CountsOnInState DEF Answering, Committed
  <2>. QED BY <2>1, <2>2
<1>5. CASE StatusReads(p)
  <2>1. UNCHANGED <<st, cr, handed, cancelled, torn>> /\ at'[p] = "want.recover"
    BY <1>0, <1>5 DEF StatusReads, Goto, files, SameFates
  <2>. QED BY <1>0, <1>1, <2>1, CountsOnInState DEF Answering, Committed
<1>6. CASE StatusRecovers(p)
  <2>1. UNCHANGED <<cr, lock, handed, cancelled, torn>> /\ at'[p] = "idle" /\ lock = {}
    BY <1>0, <1>6 DEF StatusRecovers, Goto, Done, Free, SameFates
  <2>2. st' = st \/ (CredGen(cr) > st.gen /\ st' = Base("authenticated", CredGen(cr)))
    BY <1>6 DEF StatusRecovers
  <2>3. st.gen <= st'.gen
    BY <1>1, <2>2 DEF Status, Stable
  <2>4. Alone(p)
    BY <2>1 DEF Alone
  <2>. QED BY <1>0, <2>1, <2>3, <2>4, CountsOnInState DEF Answering, Committed
<1>. QED BY <1>2, <1>3, <1>4, <1>5, <1>6 DEF Reading

\* A step under the lock is made alone.
LEMMA UnderLock ==
  ASSUME CoreInv, NEW p \in Procs, at[p] \in Locked, lock' \in {{}, {p}, lock}
  PROVE  Alone(p)
BY DEF CoreInv, LockInv, Alone

\* A credential that is deleted was counted in the state.
LEMMA DeletedGen ==
  ASSUME CoreInv, TokenInv, GenInv, CoreInv', NEW p \in Procs, Moves(p), Alone(p),
         st' = st, cr' = {}, CredGen(cr) <= st.gen, UNCHANGED <<handed, cancelled, torn>>,
         at'[p] \notin Answering
  PROVE  GenInv'
<1>0. Files /\ Files'
  BY DEF CoreInv, TypeOK, Files
<1>1. /\ TopGen(st, cr) = st.gen \/ TopGen(st, cr) = CredGen(cr)
      /\ st.gen <= TopGen(st, cr') /\ TopGen(st, cr') \in Nat /\ st.gen \in Nat /\ CredGen(cr) \in Nat
  BY <1>0, TopOf DEF Files
<1>2. Succeeds
  BY <1>1 DEF Succeeds
<1>3. Reserves(p)'
  BY DEF Reserves, Answering, Committed
<1>. QED BY <1>2, <1>3, CountsOn

\* A credential that is stored is of a new generation.
LEMMA StoredGen ==
  ASSUME CoreInv, TokenInv, GenInv, CoreInv', NEW p \in Procs, Moves(p), Alone(p),
         st' = st, NEW x, cr' = {x}, x.gen = TopGen(st, cr) + 1,
         UNCHANGED <<handed, cancelled, torn>>,
         at'[p] = "ref.state" \/
           (at'[p] = "log.state" /\ my'[p].st = st /\ my'[p].cr = cr)
  PROVE  GenInv' /\ CredGen(cr') = TopGen(st, cr) + 1
<1>0. Files /\ Files'
  BY DEF CoreInv, TypeOK, Files
<1>1. /\ TopGen(st, cr) \in Nat /\ st.gen \in Nat /\ st.gen <= TopGen(st, cr)
      /\ CredGen(cr') \in Nat /\ CredGen(cr') <= TopGen(st', cr') /\ TopGen(st', cr') \in Nat
  BY <1>0, TopOf DEF Files
<1>2. CredGen(cr') = TopGen(st, cr) + 1
  BY <1>0, TheCredential DEF Files
<1>3. Succeeds
  BY <1>1, <1>2 DEF Succeeds
<1>4. st'.gen <= CredGen(cr')
  BY <1>1, <1>2
<1>5. Reserves(p)'
  <2>1. CASE at'[p] = "ref.state"
    BY <1>4, <2>1 DEF Reserves, Committed
  <2>2. CASE at'[p] = "log.state" /\ my'[p].st = st /\ my'[p].cr = cr
    <3>1. ASSUME NEW y \in handed' PROVE Tarnished(y)' \/ Behind(y, my'[p].st, my'[p].cr)
      BY <2>2 DEF GenInv, Counted, Tarnished
    <3>. QED BY <1>4, <2>2, <3>1 DEF Reserves, Committed, Behind, TopGen, CredGen
  <2>. QED BY <2>1, <2>2
<1>. QED BY <1>2, <1>3, <1>5, CountsOn

\* A refresh stores its token under a new generation, and what it signs out is
\* counted first.
LEMMA RefreshingGen ==
  ASSUME CoreInv, TokenInv, GenInv, NEW p \in Procs, Refreshing(p)
  PROVE  GenInv'
<1>0. /\ at \in [Procs -> Places] /\ Files /\ CoreInv' /\ Moves(p) /\ Phase(p)
      /\ my \in [Procs -> Memory] /\ my[p] \in Memory /\ Reserves(p)
  BY Here, RefreshingCore DEF GenInv
<1>1. st.gen \in Nat /\ CredGen(cr) \in Nat /\ \A s \in Status, g \in Nat : Base(s, g).gen = g
  BY <1>0, TopOf, States DEF Files, Base
<1>2. CASE RefreshGranted(p)
  <2>1. UNCHANGED <<st, cr, handed, cancelled, torn>> /\ at'[p] = "ref.put"
    BY <1>0, <1>2 DEF RefreshGranted, Goto
  <2>. QED BY <1>0, <1>1, <2>1, CountsOnInState DEF Answering, Committed
<1>3. CASE RefreshRefused(p)
  <2>1. /\ UNCHANGED <<cr, lock, handed, cancelled, torn>> /\ at'[p] = "ref.delete"
        /\ at[p] = "ref.call" /\ st' = Base("anonymous", CredGen(my[p].cr) + 1)
    BY <1>0, <1>3 DEF RefreshRefused, Goto
  <2>2. my[p].cr = cr /\ st.gen = CredGen(cr)
    BY <1>0, <2>1 DEF Phase
  <2>3. st'.gen = CredGen(cr) + 1
    BY <1>1, <2>1, <2>2 DEF Status, Stable
  <2>4. Reserves(p)'
    BY <1>1, <2>1, <2>3 DEF Reserves, Committed
  <2>5. Alone(p)
    BY <2>1, UnderLock DEF Locked
  <2>. QED BY <1>0, <1>1, <2>1, <2>2, <2>3, <2>4, <2>5, CountsOnInState
<1>4. CASE RefreshFailed(p)
  <2>1. /\ UNCHANGED <<cr, handed, cancelled, torn>> /\ at'[p] = "idle" /\ lock' = {}
        /\ at[p] = "ref.call"
    BY <1>0, <1>4 DEF RefreshFailed, Goto, Done, Drop
  <2>2. PICK t \in Status : st' = [my[p].st EXCEPT !.status = t]
    BY <1>4 DEF RefreshFailed, Status, Stable
  <2>3. my[p].st.gen = st.gen /\ my[p].st \in State
    BY <1>0, <2>1, Memories DEF Phase
  <2>4. st'.gen = st.gen
    BY <2>2, <2>3, States
  <2>5. Alone(p)
    BY <2>1, UnderLock DEF Locked
  <2>. QED BY <1>0, <1>1, <2>1, <2>4, <2>5, CountsOnInState DEF Answering, Committed
<1>5. CASE RefreshDelete(p)
  <2>1. /\ UNCHANGED <<st, handed, cancelled, torn>> /\ at'[p] \in {"idle", "want.login"}
        /\ lock' = {} /\ at[p] = "ref.delete" /\ cr' = {}
    BY <1>0, <1>5 DEF RefreshDelete, Goto, Done, Drop
  <2>2. Alone(p) /\ CredGen(cr) <= st.gen
    BY <1>0, <2>1, UnderLock DEF Locked, Reserves
  <2>. QED BY <1>0, <2>1, <2>2, DeletedGen DEF Answering, Committed
<1>6. CASE RefreshPut(p)
  <2>1. /\ UNCHANGED <<st, lock, handed, cancelled, torn>> /\ at'[p] = "ref.state" /\ at[p] = "ref.put"
        /\ cr' = {[gen |-> TopGen(my[p].st, my[p].cr) + 1, epoch |-> x.epoch, tok |-> my[p].tok] : x \in my[p].cr}
    BY <1>0, <1>6 DEF RefreshPut, Goto, SameFates
  <2>2. my[p].cr = cr /\ cr # {} /\ my[p].st.gen = st.gen
    BY <1>0, <2>1 DEF Phase
  <2>3. TopGen(my[p].st, my[p].cr) = TopGen(st, cr)
    BY <2>2 DEF TopGen
  <2>4. PICK y \in cr : cr = {y}
    BY <1>0, <2>2, TheCredential DEF Files
  <2>5. PICK x : x = [gen |-> TopGen(st, cr) + 1, epoch |-> y.epoch, tok |-> my[p].tok]
    OBVIOUS
  <2>6. cr' = {x} /\ x.gen = TopGen(st, cr) + 1
    BY <2>1, <2>2, <2>3, <2>4, <2>5
  <2>7. Alone(p)
    BY <2>1, UnderLock DEF Locked
  <2>. QED BY <1>0, <2>1, <2>6, <2>7, StoredGen
<1>7. CASE RefreshState(p)
  <2>1. /\ UNCHANGED <<cr, cancelled, torn>> /\ at'[p] = "idle" /\ lock' = {} /\ at[p] = "ref.state"
        /\ st' = Base("authenticated", CredGen(cr)) /\ handed' \subseteq handed \cup cr
    BY <1>0, <1>7 DEF RefreshState, Goto, Done, Drop, SameFates
  <2>2. st'.gen = CredGen(cr) /\ st.gen <= CredGen(cr)
    BY <1>0, <1>1, <2>1 DEF Status, Stable, Reserves
  <2>3. Alone(p)
    BY <2>1, UnderLock DEF Locked
  <2>. QED BY <1>0, <2>1, <2>2, <2>3, CountsOnInState DEF Answering, Committed
<1>. QED BY <1>2, <1>3, <1>4, <1>5, <1>6, <1>7 DEF Refreshing

\* A logout counts in the state before it deletes.
LEMMA SigningOutGen ==
  ASSUME CoreInv, TokenInv, GenInv, NEW p \in Procs, SigningOut(p)
  PROVE  GenInv'
<1>0. /\ at \in [Procs -> Places] /\ Files /\ CoreInv' /\ Moves(p) /\ Reserves(p)
      /\ my \in [Procs -> Memory] /\ my[p] \in Memory
  BY Here, SigningOutCore DEF GenInv
<1>1. st.gen \in Nat /\ \A t \in Status : [st EXCEPT !.status = t].gen = st.gen
  BY <1>0, TopOf, States DEF Files
<1>2. CASE RevokeFails(p) \/ LogoutState(p)
  <2>1. /\ UNCHANGED <<cr, handed, cancelled, torn>> /\ at'[p] = "idle" /\ lock' = {}
        /\ at[p] \in Locked
    BY <1>0, <1>2 DEF RevokeFails, LogoutState, Goto, Done, Drop, SameFates, Locked
  <2>2. st'.gen = st.gen
    BY <1>1, <1>2 DEF RevokeFails, LogoutState, Status, Stable
  <2>3. Alone(p)
    BY <2>1, UnderLock
  <2>. QED BY <1>0, <1>1, <2>1, <2>2, <2>3, CountsOnInState DEF Answering, Committed
<1>3. CASE LogoutDelete(p)
  <2>1. /\ UNCHANGED <<st, lock, handed, cancelled, torn>> /\ at'[p] = "out.state"
        /\ at[p] = "out.revoke" /\ cr' = {}
    BY <1>0, <1>3 DEF LogoutDelete, Goto
  <2>2. Alone(p) /\ CredGen(cr) <= st.gen
    BY <1>0, <2>1, UnderLock DEF Locked, Reserves
  <2>. QED BY <1>0, <2>1, <2>2, DeletedGen DEF Answering, Committed
<1>. QED BY <1>2, <1>3 DEF SigningOut

\* A login that is undone puts the credential back that it found, whose
\* generation nobody but itself has gone past.
LEMMA UndoneGen ==
  ASSUME CoreInv, TokenInv, GenInv, CoreInv', NEW p \in Procs, Moves(p), UndoCredential(p)
  PROVE  GenInv'
<1>0. /\ at \in [Procs -> Places] /\ my[p] \in Memory /\ Reserves(p)
  BY Here DEF GenInv
<1>1. /\ at[p] = "log.undo2" /\ at'[p] = "want.release" /\ cr' = my[p].cr /\ lock' = {}
      /\ cancelled' = cancelled \cup {my[p].tok} /\ UNCHANGED <<st, my, handed, torn>>
  BY <1>0 DEF UndoCredential, Drop, Goto
<1>2. Alone(p)
  BY <1>1, UnderLock DEF Locked
<1>3. GenerationNamesOneToken'
  BY <1>1, OneOfTwo
<1>4. ASSUME NEW y \in handed PROVE y.epoch \in (cancelled \cup torn)' \/ Behind(y, st', cr')
  <2>1. st = my[p].st /\ (Tarnished(y) \/ y.epoch = my[p].tok \/ Behind(y, my[p].st, my[p].cr))
    BY <1>0, <1>1 DEF Reserves, Committed
  <2>. QED BY <1>1, <2>1 DEF Tarnished
<1>5. Counted'
  BY <1>1, <1>4 DEF Counted, Tarnished, Behind, TopGen, CredGen
<1>6. ASSUME NEW q \in Procs PROVE Reserves(q)'
  <2>1. CASE q = p
    BY <1>1, <2>1 DEF Reserves, Committed
  <2>2. CASE q # p
    <3>1. at[q] \notin Locked
      BY <1>2, <2>2 DEF CoreInv, LockInv, Alone
    <3>2. at'[q] = at[q]
      BY <2>2 DEF CoreInv, TypeOK, Moves
    <3>. QED BY <3>1, <3>2 DEF Reserves, Locked, Committed
  <2>. QED BY <2>1, <2>2
<1>. QED BY <1>3, <1>5, <1>6 DEF GenInv

\* A login counts on when it commits, and remembers what it would put back.
LEMMA SigningInGen ==
  ASSUME CoreInv, TokenInv, GenInv, NEW p \in Procs, SigningIn(p)
  PROVE  GenInv'
<1>0. /\ at \in [Procs -> Places] /\ Files /\ CoreInv' /\ Moves(p) /\ Reserves(p)
      /\ my \in [Procs -> Memory] /\ my[p] \in Memory
  BY Here, SigningInCore DEF GenInv
<1>1. /\ st.gen \in Nat /\ CredGen(cr) \in Nat /\ TopGen(st, cr) \in Nat /\ st.gen <= TopGen(st, cr)
      /\ \A s \in Status, g \in Nat : Base(s, g).gen = g
  BY <1>0, TopOf, States DEF Files, Base
<1>2. CASE LoginFindsAccount(p) \/ LoginDefers(p) \/ LoginWaited(p)
  <2>1. UNCHANGED <<st, cr, handed, cancelled, torn>> /\ at'[p] \in {"idle", "want.ref", "log.wait", "want.login"}
    BY <1>0, <1>2 DEF LoginFindsAccount, LoginDefers, LoginWaited, Goto, Done, SameFates
  <2>. QED BY <1>0, <1>1, <2>1, CountsOnInState DEF Answering, Committed
<1>3. CASE LoginApproved(p) \/ LoginFails(p)
  <2>1. UNCHANGED <<st, cr, handed, cancelled, torn>> /\ at'[p] \in {"want.commit", "want.release"}
    BY <1>0, <1>3 DEF LoginApproved, LoginFails, Goto, SameFates
  <2>. QED BY <1>0, <1>1, <2>1, CountsOnInState DEF Answering, Committed
<1>4. CASE LoginLeases(p)
  <2>1. /\ UNCHANGED <<cr, lock, handed, cancelled, torn>> /\ at'[p] = "log.device" /\ lock = {}
        /\ st'.gen = TopGen(st, cr)
    BY <1>0, <1>4 DEF LoginLeases, Looks, Free, Goto, SameFates
  <2>2. Alone(p)
    BY <2>1 DEF Alone
  <2>. QED BY <1>0, <1>1, <2>1, <2>2, CountsOnInState DEF Answering, Committed
<1>5. CASE LoginRefreshes(p)
  <2>1. CASE BeginRefresh(p, "login")
    BY <1>0, <1>5, <2>1, RefreshesGen DEF LoginRefreshes
  <2>2. CASE ~BeginRefresh(p, "login")
    <3>1. UNCHANGED <<st, cr, handed, cancelled, torn>> /\ at'[p] = "want.login"
      BY <1>0, <1>5, <2>2 DEF LoginRefreshes, Goto, SameFates
    <3>. QED BY <1>0, <1>1, <3>1, CountsOnInState DEF Answering, Committed
  <2>. QED BY <2>1, <2>2
<1>6. CASE CommitCredential(p)
  <2>1. /\ UNCHANGED <<st, handed, cancelled, torn>> /\ at'[p] = "log.state" /\ lock = {} /\ lock' = {p}
        /\ my'[p] = [my[p] EXCEPT !.st = st, !.cr = cr, !.left = left]
        /\ cr' = {[gen |-> TopGen(st, cr) + 1, epoch |-> my[p].tok, tok |-> my[p].tok]}
    BY <1>0, <1>6 DEF CommitCredential, Goto, Note, Free, Take, SameFates
  <2>2. my'[p].st = st /\ my'[p].cr = cr
    BY <1>0, <2>1 DEF Memory
  <2>3. PICK x : x = [gen |-> TopGen(st, cr) + 1, epoch |-> my[p].tok, tok |-> my[p].tok]
    OBVIOUS
  <2>4. cr' = {x} /\ x.gen = TopGen(st, cr) + 1 /\ Alone(p)
    BY <2>1, <2>3 DEF Alone
  <2>. QED BY <1>0, <2>1, <2>2, <2>4, StoredGen
<1>7. CASE CommitState(p)
  <2>1. UNCHANGED <<cr, lock, my, handed, cancelled, torn>> /\ at[p] = "log.state"
    BY <1>7 DEF CommitState, SameFates
  <2>2. /\ st.gen <= CredGen(cr) /\ my[p].st.gen <= CredGen(cr)
        /\ \A y \in handed : Tarnished(y) \/ y.epoch = my[p].tok \/ Behind(y, my[p].st, my[p].cr)
    BY <1>0, <2>1 DEF Reserves, Committed
  <2>3. \/ at'[p] = "log.undo" /\ st' = st
        \/ at'[p] = "log.final" /\ st' = Base("authenticated", CredGen(cr))
    BY <1>0, <1>7 DEF CommitState, Goto
  <2>4. st.gen <= st'.gen /\ st'.gen <= CredGen(cr)
    BY <1>1, <2>2, <2>3 DEF Status, Stable
  <2>5. Reserves(p)'
    BY <2>1, <2>2, <2>3, <2>4 DEF Reserves, Tarnished, Behind, TopGen, CredGen
  <2>6. Alone(p)
    BY <2>1, UnderLock DEF Locked
  <2>. QED BY <1>0, <2>1, <2>4, <2>5, <2>6, CountsOnInState
<1>8. CASE CommitStateFails(p)
  <2>1. UNCHANGED <<st, cr, handed, cancelled, torn>> /\ at'[p] = "want.release"
    BY <1>0, <1>8 DEF CommitStateFails, Goto, SameFates
  <2>. QED BY <1>0, <1>1, <2>1, CountsOnInState DEF Answering, Committed
<1>9. CASE CommitEnds(p)
  <2>1. UNCHANGED <<st, cr, handed, cancelled, torn>> /\ at[p] = "log.final"
    BY <1>9 DEF CommitEnds, SameFates
  <2>2. at'[p] = "idle" \/ (at'[p] = "log.undo" /\ UNCHANGED my)
    BY <1>0, <1>9 DEF CommitEnds, Done, Goto
  <2>3. CASE at'[p] = "log.undo" /\ UNCHANGED my
    <3>1. Reserves(p)'
      BY <1>0, <2>1, <2>3 DEF Reserves, Committed, Tarnished, Behind, TopGen, CredGen
    <3>. QED BY <1>0, <1>1, <2>1, <3>1, CountsOnInState
  <2>4. CASE at'[p] = "idle"
    BY <1>0, <1>1, <2>1, <2>4, CountsOnInState DEF Answering, Committed
  <2>. QED BY <2>2, <2>3, <2>4
<1>10. CASE UndoState(p)
  <2>1. /\ UNCHANGED <<cr, lock, my, handed, cancelled, torn>> /\ at[p] = "log.undo"
        /\ at'[p] = "log.undo2" /\ st' = my[p].st
    BY <1>0, <1>10 DEF UndoState, Goto, SameFates
  <2>2. /\ st.gen <= CredGen(cr) /\ my[p].st.gen <= CredGen(cr)
        /\ \A y \in handed : Tarnished(y) \/ y.epoch = my[p].tok \/ Behind(y, my[p].st, my[p].cr)
    BY <1>0, <2>1 DEF Reserves, Committed
  <2>3. Reserves(p)'
    BY <2>1, <2>2 DEF Reserves, Tarnished, Behind, TopGen, CredGen
  <2>4. Alone(p)
    BY <2>1, UnderLock DEF Locked
  <2>5. /\ TopGen(st, cr) = st.gen \/ TopGen(st, cr) = CredGen(cr)
        /\ CredGen(cr) <= TopGen(st', cr) /\ TopGen(st', cr) \in Nat
    <3>1. my[p].st \in State
      BY <1>0, Memories
    <3>. QED BY <1>0, <2>1, <3>1, TopOf DEF Files
  <2>6. Succeeds
    BY <1>1, <2>1, <2>2, <2>5 DEF Succeeds
  <2>. QED BY <1>0, <2>1, <2>3, <2>4, <2>6, CountsOn
<1>11. CASE UndoCredential(p)
  BY <1>0, <1>11, UndoneGen
<1>12. CASE LoginReleases(p)
  <2>1. UNCHANGED <<cr, lock, handed, cancelled, torn>> /\ at'[p] = "idle" /\ lock = {}
    BY <1>0, <1>12 DEF LoginReleases, Free, Done, Goto, SameFates
  <2>2. st' = st \/ \E t \in Status : st' = Base(t, st.gen)
    BY <1>12 DEF LoginReleases, Status, Stable
  <2>3. st'.gen = st.gen
    BY <1>1, <2>2
  <2>4. Alone(p)
    BY <2>1 DEF Alone
  <2>. QED BY <1>0, <1>1, <2>1, <2>3, <2>4, CountsOnInState DEF Answering, Committed
<1>. QED BY <1>2, <1>3, <1>4, <1>5, <1>6, <1>7, <1>8, <1>9, <1>10, <1>11, <1>12 DEF SigningIn

\* What others do to a process takes no generation back; a crash in the middle of
\* a commit tears its login.
LEMMA HinderedGen ==
  ASSUME CoreInv, TokenInv, GenInv, NEW p \in Procs, Hindered(p)
  PROVE  GenInv'
<1>0. /\ at \in [Procs -> Places] /\ Files /\ CoreInv' /\ Moves(p) /\ Reserves(p)
      /\ my \in [Procs -> Memory] /\ my[p] \in Memory
  BY Here, HinderedCore DEF GenInv
<1>1. /\ st.gen \in Nat /\ CredGen(cr) \in Nat /\ TopGen(st, cr) \in Nat
      /\ st.gen <= TopGen(st, cr) /\ CredGen(cr) <= TopGen(st, cr)
      /\ \A s \in Status, g \in Nat : Base(s, g).gen = g
  BY <1>0, TopOf, States DEF Files, Base
<1>2. CASE Unauthorized(p)
  BY <1>0, <1>2, RefreshesGen DEF Unauthorized
<1>3. CASE Logout(p)
  <2>1. /\ UNCHANGED <<cr, handed, cancelled, torn>> /\ at'[p] = "out.revoke" /\ lock = {} /\ lock' = {p}
        /\ st' = Base("logging_out", TopGen(st, cr) + 1)
    BY <1>0, <1>3 DEF Logout, Free, Take, Goto, SameFates
  <2>2. st'.gen = TopGen(st, cr) + 1
    BY <1>1, <2>1 DEF Status, Stable
  <2>3. Reserves(p)'
    BY <1>1, <2>1, <2>2 DEF Reserves, Committed
  <2>4. Alone(p)
    BY <2>1 DEF Alone
  <2>. QED BY <1>0, <1>1, <2>1, <2>2, <2>3, <2>4, CountsOnInState
<1>4. CASE CancelLogin(p)
  <2>1. /\ UNCHANGED <<st, cr, at, handed, cancelled, torn>> /\ my'[p] = [my[p] EXCEPT !.sig = TRUE]
        /\ at[p] \in {"log.device", "want.commit", "log.state", "log.final"}
    BY <1>0, <1>4 DEF CancelLogin, Note, SameFates
  <2>2. my'[p].st = my[p].st /\ my'[p].cr = my[p].cr /\ my'[p].tok = my[p].tok
    BY <1>0, <2>1 DEF Memory
  <2>3. Reserves(p)'
    BY <1>0, <2>1, <2>2 DEF Reserves, Committed, Tarnished, Behind, TopGen, CredGen
  <2>. QED BY <1>0, <1>1, <2>1, <2>3, CountsOnInState
<1>5. CASE LoginStops(p) \/ LockTimesOut(p)
  <2>1. UNCHANGED <<st, cr, handed, cancelled, torn>> /\ at'[p] \in {"idle", "want.release"}
    BY <1>0, <1>5 DEF LoginStops, LockTimesOut, Done, Goto, SameFates
  <2>. QED BY <1>0, <1>1, <2>1, CountsOnInState DEF Answering, Committed
<1>6. CASE Crash(p)
  <2>1. UNCHANGED <<st, cr, handed, cancelled>> /\ at'[p] = "idle"
    BY <1>0, <1>6 DEF Crash, Done, Goto
  <2>2. torn \subseteq torn'
    BY <1>6 DEF Crash
  <2>. QED BY <1>0, <1>1, <2>1, <2>2, CountsOnInState DEF Answering, Committed
<1>. QED BY <1>2, <1>3, <1>4, <1>5, <1>6 DEF Hindered

\* Every step keeps the generations.
LEMMA GenStep == CoreInv /\ TokenInv /\ GenInv /\ [Next]_vars => GenInv'
<1>. SUFFICES ASSUME CoreInv, TokenInv, GenInv, [Next]_vars PROVE GenInv'
  OBVIOUS
<1>1. CASE TokenAges \/ LeaseLapses \/ UNCHANGED vars
  <2>1. UNCHANGED <<st, cr, at, my, handed, cancelled, torn>>
    BY <1>1 DEF TokenAges, LeaseLapses, vars, SameFates
  <2>. QED BY <2>1 DEF GenInv, GenerationNamesOneToken, Counted, Reserves, Tarnished, Behind, TopGen, CredGen
<1>. QED BY <1>1, ReadingGen, RefreshingGen, SigningOutGen, SigningInGen, HinderedGen DEF Next

\* Two callers never hold different tokens of one generation, unless the login of
\* one was cancelled or cut short: getAccessToken hands out what is stored, and
\* every write of a credential counts on from both files.
THEOREM OneTokenPerGeneration == Spec => []GenerationNamesOneToken
<1>1. Init => GenInv
  BY DEF Init, GenInv, GenerationNamesOneToken, Counted, Reserves, Committed
<1>2. GenInv => GenerationNamesOneToken
  BY DEF GenInv
<1>. QED BY <1>1, <1>2, GenStep, Invariant, PTL DEF Spec

\* TypeOK holds for any number of processes, grants, logins and crashes.
THEOREM TypeCorrect == Spec => []TypeOK
<1>1. CoreInv /\ TokenInv => TypeOK
  BY DEF CoreInv
<1>. QED BY <1>1, Invariant, PTL

\* A signed-in state always has its credential beside it: the order of the two
\* writes in refreshCredential, commitLogin and logout.
THEOREM CredentialStaysBeside == Spec => []SignedInHasCredential
<1>1. CoreInv /\ TokenInv => SignedInHasCredential
  BY DEF CoreInv
<1>. QED BY <1>1, Invariant, PTL

\* A refresh token is presented once, unless its answer was lost.
THEOREM OneExchange == Spec => []RefreshTokenUsedOnce
<1>1. CoreInv /\ TokenInv => RefreshTokenUsedOnce
  BY DEF TokenInv, FilesInv, RefreshTokenUsedOnce
<1>. QED BY <1>1, Invariant, PTL

\* A login that was signed out or taken back is never stored again.
THEOREM NoReturn == Spec => []EndedStaysOut
<1>1. CoreInv /\ TokenInv => EndedStaysOut
  BY DEF TokenInv, FilesInv, EndedStaysOut
<1>. QED BY <1>1, Invariant, PTL

\* Only a login signs in: no refresh and no recovery undoes a sign-out.
THEOREM OnlyLoginSignsIn == Spec => SignedOutStaysOut
<1>. DEFINE Out(s) == s.status \in {"anonymous", "error", "logging_out", "logout_pending"}
            In(s)  == s.status \in {"authenticated", "expired", "refreshing"}
<1>1. ASSUME CoreInv, NEW p \in Procs, Out(st),
             Reading(p) \/ Refreshing(p) \/ SigningOut(p) \/ SigningIn(p) \/ Hindered(p)
      PROVE  ~In(st')
  <2>0. Phase(p) /\ st \in State
    BY <1>1, Here DEF Files
  <2>1. ASSUME NEW o, BeginRefresh(p, o), Usable(st, cr) # {} PROVE FALSE
    BY <1>1, <2>1 DEF Usable
  <2>2. CASE Reading(p)
    BY <1>1, <2>1, <2>2 DEF Reading, GetRead, GetCred, GetLocked, StatusReads, StatusRecovers, files
  <2>3. CASE Refreshing(p)
    BY <1>1, <2>0, <2>3, States DEF Refreshing, RefreshGranted, RefreshRefused, RefreshFailed,
       RefreshDelete, RefreshPut, RefreshState, Phase, Base
  <2>4. CASE SigningOut(p)
    BY <1>1, <2>0, <2>4, States DEF SigningOut, RevokeFails, LogoutDelete, LogoutState, Status, Stable
  <2>5. CASE SigningIn(p)
    BY <1>1, <2>0, <2>1, <2>5 DEF SigningIn, LoginFindsAccount, LoginDefers, LoginLeases,
       LoginRefreshes, LoginWaited, LoginApproved, LoginFails, CommitCredential, CommitState,
       CommitStateFails, CommitEnds, UndoState, UndoCredential, LoginReleases, Phase, Committed, Base
  <2>6. CASE Hindered(p)
    BY <1>1, <2>0, <2>1, <2>6 DEF Hindered, Unauthorized, Logout, CancelLogin, LoginStops,
       LockTimesOut, Crash, Base
  <2>. QED BY <1>1, <2>2, <2>3, <2>4, <2>5, <2>6
<1>2. CoreInv /\ [Next]_vars =>
        [ st.status \in {"anonymous", "error", "logging_out", "logout_pending"}
            => st'.status \notin {"authenticated", "expired", "refreshing"} ]_vars
  <2>1. ASSUME CoreInv, Next, Out(st) PROVE ~In(st')
    <3>1. CASE TokenAges \/ LeaseLapses
      BY <2>1, <3>1 DEF TokenAges, LeaseLapses
    <3>. QED BY <1>1, <2>1, <3>1 DEF Next
  <2>. QED BY <2>1
<1>. QED BY <1>2, Invariant, PTL DEF Spec, SignedOutStaysOut
=============================================================================
