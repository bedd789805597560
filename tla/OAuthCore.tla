----------------------------- MODULE OAuthCore -----------------------------
(* The signed-in account that every process of one data directory shares:    *)
(* two files, the state (auth-state.json) and the credential (auth.json),    *)
(* one lock file, and the operations of KCodeOAuthCore that read and write   *)
(* them.  Every write is a step of its own, made under the lock; the first   *)
(* reads of a token request and of a status request are made without it, so  *)
(* they can fall between two writes of another process.                      *)
(*                                                                           *)
(* A process does one operation at a time.  at[p] says where it stands:      *)
(*   get.*   a token request after its unlocked read                         *)
(*   want.*  waiting for the lock (the suffix names the locked section);     *)
(*           a locked section that depends on nothing read before it starts  *)
(*           from idle                                                       *)
(*   ref.*   refreshing, under the lock                                      *)
(*   out.*   signing out, under the lock                                     *)
(*   log.*   signing in                                                      *)
(* A token number stands for a pair of access and refresh token; a login     *)
(* epoch is named by the first token of the login.                           *)
EXTENDS Naturals, FiniteSets

CONSTANTS Procs,      \* processes that share the data directory
          MaxTokens,  \* grants the server makes
          MaxLogins,  \* leases of an interactive login
          MaxCrashes, \* processes that die in the middle of an operation
          MaxGen      \* generation past which nobody signs out any more

ASSUME BoundsAssumption == {MaxTokens, MaxLogins, MaxCrashes, MaxGen} \subseteq Nat

VARIABLES st,        \* the state file: status, generation, lease of a login
          cr,        \* the credential file: a set of at most one record
          lock,      \* the holder of the lock file: a set of at most one process
          at,        \* where each process stands
          my,        \* what each process remembers
          left,      \* what is left of the life of the stored access token
          lapsed,    \* leases whose leaseExpiresAtMs has passed
          leases,    \* leases created so far
          grants,    \* tokens the server has issued so far
          crashes,   \* crashes so far
          spent,     \* refresh tokens the server has exchanged
          handed,    \* credentials returned to callers, ever
          replayed,  \* refresh tokens presented again after they were exchanged
          orphans,   \* refresh tokens whose exchange had no one left to store it
          ended,     \* epochs that were signed out
          cancelled, \* epochs whose login was cancelled
          torn       \* epochs whose commit was cut short by a crash

files == <<st, cr, lock>>
ghosts == <<spent, handed, replayed, orphans, ended, cancelled, torn>>
vars == <<st, cr, lock, at, my, left, lapsed, leases, grants, crashes,
          spent, handed, replayed, orphans, ended, cancelled, torn>>

Tokens == 1..MaxTokens
Leases == 1..MaxLogins

Lives == {"fresh", "near", "dead"}
Stable == {"anonymous", "authenticated", "expired", "error", "logout_pending"}
Status == Stable \cup {"authorizing", "refreshing", "logging_out"}
State == [status : Status, gen : Nat, lease : {0} \cup Leases]
Credential == [gen : Nat, epoch : Tokens, tok : Tokens]

Larger(a, b) == IF a > b THEN a ELSE b
CredGen(c) == IF c = {} THEN 0 ELSE (CHOOSE x \in c : TRUE).gen
TopGen(s, c) == Larger(s.gen, CredGen(c))
Base(status, gen) == [status |-> status, gen |-> gen, lease |-> 0]

Blank == [op |-> "none", st |-> Base("anonymous", 0), cr |-> {}, tok |-> 0,
          lease |-> 0, sig |-> FALSE, left |-> "fresh"]

\* readUsableCredential: the credential that belongs to a signed-in state.
Usable(s, c) ==
  {x \in c : s.status \in {"authenticated", "expired", "refreshing"} /\ s.gen = x.gen}

\* satisfiesMinValidity for a caller's minimum and for a minimum of 1 ms.
LongEnough(s) == s.status = "authenticated" /\ left = "fresh"
Alive(s) == s.status = "authenticated" /\ left # "dead"
-----------------------------------------------------------------------------
Init ==
  /\ st = Base("anonymous", 0)
  /\ cr = {}
  /\ lock = {}
  /\ at = [p \in Procs |-> "idle"]
  /\ my = [p \in Procs |-> Blank]
  /\ left = "fresh"
  /\ lapsed = {} /\ leases = 0 /\ grants = 0 /\ crashes = 0
  /\ spent = {} /\ handed = {} /\ replayed = {} /\ orphans = {}
  /\ ended = {} /\ cancelled = {} /\ torn = {}

Goto(p, place) == at' = [at EXCEPT ![p] = place]
Done(p) == Goto(p, "idle") /\ my' = [my EXCEPT ![p] = Blank]
Note(p, m) == my' = [my EXCEPT ![p] = m]

\* The lock is free, and p leaves it free or takes it.
Free == lock = {}
Take(p) == lock' = {p}
Drop == lock' = {}

SameCounts == UNCHANGED <<lapsed, leases, grants, crashes, spent>>
SameServer == SameCounts /\ UNCHANGED left
SameFates == UNCHANGED <<replayed, orphans, ended, cancelled, torn>>
-----------------------------------------------------------------------------
(* getAccessToken.                                                           *)

\* The state is read without the lock ...
GetRead(p) ==
  /\ at[p] = "idle"
  /\ Goto(p, "get.cred") /\ Note(p, [Blank EXCEPT !.op = "get", !.st = st])
  /\ UNCHANGED files /\ SameServer /\ UNCHANGED handed /\ SameFates

\* ... and then the credential; what suffices is returned at once.
GetCred(p) ==
  /\ at[p] = "get.cred"
  /\ LET good == {x \in Usable(my[p].st, cr) : LongEnough(my[p].st)} IN
     /\ handed' = handed \cup good
     /\ IF good # {} THEN Done(p) ELSE Goto(p, "want.get") /\ UNCHANGED my
  /\ UNCHANGED files /\ SameServer /\ SameFates

\* The lock is not held while the server is asked for a new token.
BeginRefresh_WithoutLock(p, op) ==
  /\ st' = [st EXCEPT !.status = "refreshing"]
  /\ Note(p, [my[p] EXCEPT !.op = op, !.st = st, !.cr = cr])
  /\ Goto(p, "ref.call")
  /\ UNCHANGED <<cr, lock, handed>>

\* refreshCredential: the caller holds the lock; what it read is remembered.
BeginRefresh(p, op) ==
  /\ st' = [st EXCEPT !.status = "refreshing"]
  /\ Take(p)
  /\ Note(p, [my[p] EXCEPT !.op = op, !.st = st, !.cr = cr])
  /\ Goto(p, "ref.call")
  /\ UNCHANGED <<cr, handed>>

\* The request trusts what it read before it had the lock.
GetLocked_TrustsFirstRead(p) ==
  /\ at[p] = "want.get" /\ Free
  /\ LET usable == Usable(my[p].st, cr)
     IN IF usable # {}
        THEN /\ st' = [my[p].st EXCEPT !.status = "refreshing"]
             /\ Take(p)
             /\ Note(p, [my[p] EXCEPT !.op = "get", !.cr = cr])
             /\ Goto(p, "ref.call")
             /\ UNCHANGED <<cr, handed>>
        ELSE UNCHANGED handed /\ Done(p) /\ UNCHANGED files
  /\ SameServer /\ SameFates

\* Both files are read again under the lock.
GetLocked(p) ==
  /\ at[p] = "want.get" /\ Free
  /\ LET usable == Usable(st, cr)
         good == {x \in usable : LongEnough(st)}
     IN IF usable # {} /\ good = {}
        THEN BeginRefresh(p, "get")
        ELSE handed' = handed \cup good /\ Done(p) /\ UNCHANGED files
  /\ SameServer /\ SameFates

\* handleUnauthorized: a request was refused with a token handed out before.
\* Only the credential that was refused is refreshed.
Unauthorized(p) ==
  /\ at[p] = "idle" /\ Free
  /\ \E x \in handed : \E y \in Usable(st, cr) : x.epoch = y.epoch /\ x.gen = y.gen
  /\ BeginRefresh(p, "unauth")
  /\ SameServer /\ SameFates

-----------------------------------------------------------------------------
(* refreshCredential, from the request to the server on.  The server may     *)
(* rotate the refresh token, and may do so although its answer is lost.      *)

OldToken(p) == (CHOOSE x \in my[p].cr : TRUE).tok
Presented(p) == replayed' = replayed \cup ({OldToken(p)} \cap spent)

RefreshGranted(p) ==
  /\ at[p] = "ref.call" /\ OldToken(p) \notin spent /\ grants < MaxTokens
  /\ grants' = grants + 1
  /\ spent' = spent \cup {OldToken(p)}
  /\ Presented(p)
  /\ Note(p, [my[p] EXCEPT !.tok = grants + 1]) /\ Goto(p, "ref.put")
  /\ UNCHANGED <<st, cr, lock, left, lapsed, leases, crashes, handed, orphans,
                 ended, cancelled, torn>>

\* invalid_grant: the state is signed out before the credential is deleted.
RefreshRefused(p) ==
  /\ at[p] = "ref.call"
  /\ Presented(p)
  /\ st' = Base("anonymous", CredGen(my[p].cr) + 1)
  /\ Goto(p, "ref.delete")
  /\ UNCHANGED <<cr, lock, my, handed, orphans, ended, cancelled, torn>>
  /\ SameServer

\* Any other failure restores the state, or expires it when the token was
\* refused or is over; with lost, the server had exchanged the token.
RefreshFailed(p) ==
  /\ at[p] = "ref.call"
  /\ Presented(p)
  /\ \E lost \in BOOLEAN :
       LET gone == IF lost THEN {OldToken(p)} ELSE {} IN
       /\ spent' = spent \cup gone
       /\ orphans' = orphans \cup gone
  /\ LET keep == /\ my[p].op # "unauth"
                 /\ my[p].st.status = "authenticated"
                 /\ left # "dead"
     IN st' = [my[p].st EXCEPT !.status = IF keep THEN "authenticated" ELSE "expired"]
  /\ Drop /\ Done(p)
  /\ UNCHANGED <<cr, left, lapsed, leases, grants, crashes, handed, ended, cancelled, torn>>

RefreshDelete(p) ==
  /\ at[p] = "ref.delete"
  /\ cr' = {} /\ left' = "fresh"
  /\ ended' = ended \cup {x.epoch : x \in cr}
  /\ Drop
  /\ IF my[p].op = "login"
     THEN Goto(p, "want.login") /\ Note(p, Blank)
     ELSE Done(p)
  /\ UNCHANGED <<st, handed, replayed, orphans, cancelled, torn>>
  /\ SameCounts

RefreshPut(p) ==
  /\ at[p] = "ref.put"
  /\ cr' = {[gen   |-> TopGen(my[p].st, my[p].cr) + 1,
             epoch |-> x.epoch,
             tok   |-> my[p].tok] : x \in my[p].cr}
  /\ left' = "fresh"
  /\ Goto(p, "ref.state")
  /\ UNCHANGED <<st, lock, my, handed>> /\ SameCounts /\ SameFates

RefreshState(p) ==
  /\ at[p] = "ref.state"
  /\ st' = Base("authenticated", CredGen(cr))
  /\ Drop
  /\ handed' = IF my[p].op = "get" THEN handed \cup cr ELSE handed
  /\ Done(p)
  /\ UNCHANGED cr /\ SameServer /\ SameFates
-----------------------------------------------------------------------------
(* logout.                                                                   *)

Logout(p) ==
  /\ at[p] = "idle" /\ Free /\ TopGen(st, cr) < MaxGen
  /\ cr # {} \/ st.status # "anonymous"
  /\ st' = Base("logging_out", TopGen(st, cr) + 1)
  /\ Take(p) /\ Goto(p, "out.revoke")
  /\ UNCHANGED <<cr, my, handed>> /\ SameServer /\ SameFates

\* The server does not confirm the revocation: the credential stays.
RevokeFails(p) ==
  /\ at[p] = "out.revoke" /\ cr # {}
  /\ st' = [st EXCEPT !.status = "logout_pending"]
  /\ Drop /\ Done(p)
  /\ UNCHANGED <<cr, handed>> /\ SameServer /\ SameFates

\* It does, or no revocation was asked for.
LogoutDelete(p) ==
  /\ at[p] = "out.revoke"
  /\ cr' = {} /\ left' = "fresh"
  /\ ended' = ended \cup {x.epoch : x \in cr}
  /\ Goto(p, "out.state")
  /\ UNCHANGED <<st, lock, my, handed, replayed, orphans, cancelled, torn>>
  /\ SameCounts

\* The next login counts its generations anew.
LogoutState_ForgetsGeneration(p) ==
  /\ at[p] = "out.state"
  /\ st' = Base("anonymous", 0)
  /\ Drop /\ Done(p)
  /\ UNCHANGED <<cr, handed>> /\ SameServer /\ SameFates

LogoutState(p) ==
  /\ at[p] = "out.state"
  /\ st' = [st EXCEPT !.status = "anonymous"]
  /\ Drop /\ Done(p)
  /\ UNCHANGED <<cr, handed>> /\ SameServer /\ SameFates
-----------------------------------------------------------------------------
(* runLogin.                                                                 *)

\* The top of the loop: a login that starts, or one that looks again.
Looks(p) == at[p] \in {"idle", "want.login"} /\ Free

\* Somebody is signed in: nothing to do, or only a refresh.
LoginFindsAccount(p) ==
  /\ Looks(p)
  /\ \E x \in Usable(st, cr) :
       IF Alive(st) THEN Done(p)
       ELSE Goto(p, "want.ref") /\ Note(p, [Blank EXCEPT !.cr = {x}])
  /\ UNCHANGED <<st, cr, lock, handed>> /\ SameServer /\ SameFates

\* Another login runs and its lease has not lapsed.
LoginDefers(p) ==
  /\ Looks(p)
  /\ Usable(st, cr) = {} /\ st.status = "authorizing" /\ st.lease \notin lapsed
  /\ Goto(p, "log.wait") /\ Note(p, [Blank EXCEPT !.lease = st.lease])
  /\ UNCHANGED <<st, cr, lock, handed>> /\ SameServer /\ SameFates

LoginLeases(p) ==
  /\ Looks(p) /\ leases < MaxLogins
  /\ Usable(st, cr) = {}
  /\ st.status = "authorizing" => st.lease \in lapsed
  /\ leases' = leases + 1
  /\ st' = [status |-> "authorizing", gen |-> TopGen(st, cr), lease |-> leases + 1]
  /\ Goto(p, "log.device") /\ Note(p, [Blank EXCEPT !.lease = leases + 1])
  /\ UNCHANGED <<cr, lock, left, lapsed, grants, crashes, spent, handed>> /\ SameFates

\* The account that was found is refreshed, unless it was refreshed meanwhile.
LoginRefreshes(p) ==
  /\ at[p] = "want.ref" /\ Free
  /\ LET usable == Usable(st, cr)
         newer == {x \in usable : x.gen > CredGen(my[p].cr) /\ Alive(st)}
     IN IF usable # {} /\ newer = {}
        THEN BeginRefresh(p, "login")
        ELSE Goto(p, "want.login") /\ Note(p, Blank) /\ UNCHANGED <<st, cr, lock, handed>>
  /\ SameServer /\ SameFates

\* waitForAuthorization: the other login ended one way or another.
LoginWaited(p) ==
  /\ at[p] = "log.wait"
  /\ my[p].lease \in lapsed \/ st.status # "authorizing"
  /\ Goto(p, "want.login") /\ Note(p, Blank)
  /\ UNCHANGED <<st, cr, lock, handed>> /\ SameServer /\ SameFates

\* A login that only looks or waits stops when it is cancelled ...
LoginStops(p) ==
  /\ at[p] \in {"want.login", "log.wait"}
  /\ Done(p)
  /\ UNCHANGED <<st, cr, lock, handed>> /\ SameServer /\ SameFates

\* ... one that holds a lease finds its signal aborted at its next look.
CancelLogin(p) ==
  /\ at[p] \in {"log.device", "want.commit", "log.state", "log.final"} /\ ~my[p].sig
  /\ Note(p, [my[p] EXCEPT !.sig = TRUE])
  /\ UNCHANGED <<st, cr, lock, at, handed>> /\ SameServer /\ SameFates

Mine(p) == st.status = "authorizing" /\ st.lease = my[p].lease

\* pollDeviceToken: the user has approved the prompt that was published.
LoginApproved(p) ==
  /\ at[p] = "log.device" /\ grants < MaxTokens
  /\ grants' = grants + 1
  /\ Note(p, [my[p] EXCEPT !.tok = grants + 1]) /\ Goto(p, "want.commit")
  /\ UNCHANGED <<st, cr, lock, left, lapsed, leases, crashes, spent, handed>> /\ SameFates

\* Denied, expired, cancelled or superseded, or the server did not answer.
LoginFails(p) ==
  /\ \/ at[p] = "log.device"
     \/ at[p] = "want.commit" /\ Free /\ (my[p].sig \/ ~Mine(p))
  /\ Goto(p, "want.release")
  /\ UNCHANGED <<st, cr, lock, my, handed>> /\ SameServer /\ SameFates

\* The credential is added beside the one of an earlier login.
CommitCredential_Adds(p) ==
  /\ at[p] = "want.commit" /\ Free /\ ~my[p].sig /\ Mine(p)
  /\ Take(p)
  /\ cr' = cr \cup {[gen |-> TopGen(st, cr) + 1, epoch |-> my[p].tok, tok |-> my[p].tok]}
  /\ left' = "fresh"
  /\ Note(p, [my[p] EXCEPT !.st = st, !.cr = cr, !.left = left]) /\ Goto(p, "log.state")
  /\ UNCHANGED <<st, handed>> /\ SameCounts /\ SameFates

\* commitLogin: the credential first ...
CommitCredential(p) ==
  /\ at[p] = "want.commit" /\ Free /\ ~my[p].sig /\ Mine(p)
  /\ Take(p)
  /\ cr' = {[gen |-> TopGen(st, cr) + 1, epoch |-> my[p].tok, tok |-> my[p].tok]}
  /\ left' = "fresh"
  /\ Note(p, [my[p] EXCEPT !.st = st, !.cr = cr, !.left = left]) /\ Goto(p, "log.state")
  /\ UNCHANGED <<st, handed>> /\ SameCounts /\ SameFates

\* ... then the state, if nobody has cancelled meanwhile.
CommitState(p) ==
  /\ at[p] = "log.state"
  /\ IF my[p].sig THEN Goto(p, "log.undo") /\ UNCHANGED st
     ELSE st' = Base("authenticated", CredGen(cr)) /\ Goto(p, "log.final")
  /\ UNCHANGED <<cr, lock, my, handed>> /\ SameServer /\ SameFates

\* The state cannot be written: that is not a cancellation, nothing is undone.
CommitStateFails(p) ==
  /\ at[p] = "log.state" /\ ~my[p].sig
  /\ Drop /\ Goto(p, "want.release")
  /\ UNCHANGED <<st, cr, my, handed>> /\ SameServer /\ SameFates

\* One more look at the signal after the state was written.
CommitEnds(p) ==
  /\ at[p] = "log.final"
  /\ IF my[p].sig THEN Goto(p, "log.undo") /\ UNCHANGED <<lock, my>> ELSE Drop /\ Done(p)
  /\ UNCHANGED <<st, cr, handed>> /\ SameServer /\ SameFates

UndoState(p) ==
  /\ at[p] = "log.undo"
  /\ st' = my[p].st
  /\ Goto(p, "log.undo2")
  /\ UNCHANGED <<cr, lock, my, handed>> /\ SameServer /\ SameFates

\* A cancelled login takes back the state and leaves its credential.
UndoCredential_Keeps(p) ==
  /\ at[p] = "log.undo2"
  /\ cancelled' = cancelled \cup {my[p].tok}
  /\ Drop /\ Goto(p, "want.release")
  /\ UNCHANGED <<st, cr, my, handed, replayed, orphans, ended, torn>> /\ SameServer

UndoCredential(p) ==
  /\ at[p] = "log.undo2"
  /\ cr' = my[p].cr /\ left' = my[p].left
  /\ cancelled' = cancelled \cup {my[p].tok}
  /\ Drop /\ Goto(p, "want.release")
  /\ UNCHANGED <<st, my, handed, replayed, orphans, ended, torn>> /\ SameCounts

\* releaseAuthorizationLease.
LoginReleases(p) ==
  /\ at[p] = "want.release" /\ Free
  /\ st' = IF Mine(p) THEN Base(IF my[p].sig THEN "anonymous" ELSE "error", st.gen) ELSE st
  /\ Done(p)
  /\ UNCHANGED <<cr, lock, handed>> /\ SameServer /\ SameFates
-----------------------------------------------------------------------------
(* getStatus: a credential that is ahead of an unfinished state is adopted.  *)

StatusReads(p) ==
  /\ at[p] = "idle"
  /\ st.status \in {"authorizing", "refreshing"} /\ CredGen(cr) > st.gen
  /\ Goto(p, "want.recover")
  /\ UNCHANGED my /\ UNCHANGED files /\ SameServer /\ UNCHANGED handed /\ SameFates

\* An unfinished commit is adopted without looking again under the lock.
StatusRecovers_Blindly(p) ==
  /\ at[p] = "want.recover" /\ Free
  /\ st' = Base("authenticated", CredGen(cr))
  /\ Done(p)
  /\ UNCHANGED <<cr, lock, handed>> /\ SameServer /\ SameFates

StatusRecovers(p) ==
  /\ at[p] = "want.recover" /\ Free
  /\ st' = IF st.status \in {"authorizing", "refreshing"} /\ CredGen(cr) > st.gen
           THEN Base("authenticated", CredGen(cr)) ELSE st
  /\ Done(p)
  /\ UNCHANGED <<cr, lock, handed>> /\ SameServer /\ SameFates
-----------------------------------------------------------------------------
(* Everything else.                                                          *)

\* The retries of lockfile.lock are used up while another process holds the lock.
LockTimesOut(p) ==
  /\ ~Free
  /\ \/ at[p] \in {"want.get", "want.login", "want.ref", "want.recover",
                   "want.release"} /\ Done(p)
     \/ at[p] = "want.commit" /\ Goto(p, "want.release") /\ UNCHANGED my
  /\ UNCHANGED <<st, cr, lock, handed>> /\ SameServer /\ SameFates

\* A process dies with the lock or with the lease of a login (elsewhere it only
\* gives up); its lock file goes stale and counts as free.  A request it had
\* sent to the server may have been carried out.
Crash(p) ==
  /\ lock = {p} \/ at[p] \in {"log.device", "want.commit", "want.release"}
  /\ crashes < MaxCrashes
  /\ crashes' = crashes + 1
  /\ lock' = lock \ {p}
  /\ Done(p)
  /\ LET reached == IF at[p] = "ref.call" THEN SUBSET {OldToken(p)} ELSE {{}}
         stored  == IF at[p] = "ref.put" THEN {OldToken(p)} ELSE {}
     IN \E sent \in reached :
          /\ spent' = spent \cup sent
          /\ orphans' = orphans \cup sent \cup stored
  /\ torn' = IF at[p] \in {"log.state", "log.final", "log.undo", "log.undo2"}
             THEN torn \cup {my[p].tok} ELSE torn
  /\ UNCHANGED <<st, cr, left, lapsed, leases, grants, handed, replayed, ended, cancelled>>

\* Time passes for the access token in use and for the lease of a login.
TokenAges ==
  /\ cr # {} /\ left # "dead"
  /\ left' = IF left = "fresh" THEN "near" ELSE "dead"
  /\ UNCHANGED <<st, cr, lock, at, my, lapsed, leases, grants, crashes, spent, handed>>
  /\ SameFates

LeaseLapses ==
  /\ st.lease \in Leases \ lapsed /\ lapsed' = lapsed \cup {st.lease}
  /\ UNCHANGED <<st, cr, lock, at, my, left, leases, grants, crashes, spent, handed>>
  /\ SameFates
-----------------------------------------------------------------------------
Refreshing(p) ==
  \/ RefreshGranted(p) \/ RefreshRefused(p) \/ RefreshFailed(p)
  \/ RefreshDelete(p) \/ RefreshPut(p) \/ RefreshState(p)

SigningOut(p) == RevokeFails(p) \/ LogoutDelete(p) \/ LogoutState(p)

SigningIn(p) ==
  \/ LoginFindsAccount(p) \/ LoginDefers(p) \/ LoginLeases(p) \/ LoginRefreshes(p)
  \/ LoginWaited(p) \/ LoginApproved(p) \/ LoginFails(p) \/ CommitCredential(p)
  \/ CommitState(p) \/ CommitStateFails(p) \/ CommitEnds(p) \/ UndoState(p)
  \/ UndoCredential(p) \/ LoginReleases(p)

Reading(p) ==
  GetRead(p) \/ GetCred(p) \/ GetLocked(p) \/ StatusReads(p) \/ StatusRecovers(p)

\* What others do to the work of a process.
Hindered(p) ==
  \/ Unauthorized(p) \/ Logout(p) \/ CancelLogin(p) \/ LoginStops(p)
  \/ LockTimesOut(p) \/ Crash(p)

Next ==
  \/ \E p \in Procs : Reading(p) \/ Refreshing(p) \/ SigningOut(p) \/ SigningIn(p)
                        \/ Hindered(p)
  \/ TokenAges \/ LeaseLapses

Spec == Init /\ [][Next]_vars
-----------------------------------------------------------------------------
(* Properties.                                                               *)

\* Type correctness of the two files, the lock and what processes remember.
Places ==
  {"idle", "get.cred", "want.get", "want.ref", "want.login", "want.commit",
   "want.recover", "want.release", "ref.call", "ref.put", "ref.state", "ref.delete",
   "out.revoke", "out.state", "log.wait", "log.device", "log.state", "log.final",
   "log.undo", "log.undo2"}

OneOf(S) == {c \in SUBSET S : \A x, y \in c : x = y}

Memory == [op : {"none", "get", "unauth", "login"}, st : State, cr : OneOf(Credential),
           tok : {0} \cup Tokens, lease : {0} \cup Leases, sig : BOOLEAN, left : Lives]

TypeOK ==
  /\ st \in State
  /\ cr \in OneOf(Credential)
  /\ lock \in OneOf(Procs)
  /\ at \in [Procs -> Places]
  /\ my \in [Procs -> Memory]
  /\ left \in Lives
  /\ lapsed \subseteq Leases
  /\ leases \in 0..MaxLogins /\ grants \in 0..MaxTokens /\ crashes \in 0..MaxCrashes
  /\ handed \subseteq Credential
  /\ spent \subseteq Tokens /\ replayed \subseteq Tokens /\ orphans \subseteq Tokens
  /\ ended \subseteq Tokens /\ cancelled \subseteq Tokens /\ torn \subseteq Tokens

\* A state that says "signed in" or "expired" has its credential beside it, of
\* the same generation, at every instant: whatever a process that reads the
\* two files without the lock sees, and wherever a process dies.
SignedInHasCredential ==
  st.status \in {"authenticated", "expired"} => \E x \in cr : x.gen = st.gen

\* Two callers never hold different tokens under one generation, although a
\* generation is counted from two files and some writes are taken back: only
\* the token of a login that was cancelled while another process read it can
\* share its generation.
GenerationNamesOneToken ==
  \A x, y \in handed :
    x.gen = y.gen /\ x.tok # y.tok => {x.epoch, y.epoch} \cap (cancelled \cup torn) # {}

\* A refresh token is presented to the server at most once, however many
\* processes find it too old at the same time; a second time only if the
\* answer to the first was lost, with its process or on the way.
RefreshTokenUsedOnce == replayed \subseteq orphans

\* What was signed out or taken back does not return: whatever another process
\* read or was about to write meanwhile, no credential of such a login is ever
\* stored again.
EndedStaysOut == \A x \in cr : x.epoch \notin ended \cup cancelled

\* Only a login signs in: whatever was read before a sign-out, no refresh and
\* no recovery brings the account back.
SignedOutStaysOut ==
  [][ st.status \in {"anonymous", "error", "logging_out", "logout_pending"}
        => st'.status \notin {"authenticated", "expired", "refreshing"} ]_vars
=============================================================================
