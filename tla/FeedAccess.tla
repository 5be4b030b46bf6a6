----------------------------- MODULE FeedAccess ------------------------------
(***************************************************************************)
(* Who may read a feed, and how long it lives: the ICS and manage handlers *)
(* of internal/http, the reaper, and the statements of internal/store they *)
(* share.                                                                  *)
(*                                                                         *)
(* The row of table feeds is read and written by handlers that run side by *)
(* side: an ICS request looks the feed up and verifies its secret, waits   *)
(* for the refresh, and only then records that the feed was used; a manage *)
(* request loads the feed and acts on it later; the reaper reads the clock *)
(* and then deletes what was last used too long ago.  Nothing but the row  *)
(* ties these steps together, and the process may die between any two.     *)
(*                                                                         *)
(* Feeds do not share any of this state, so the module follows one feed.   *)
(* A salt, hash and secret is the number of its generation, which Verify   *)
(* compares.  The refresh is the module FeedRefresh; here it is whatever   *)
(* it may answer.  A limiter that refuses, Turnstile, a bad form and a bad *)
(* origin are all an answer that leaves the row alone.                     *)
(***************************************************************************)
EXTENDS Integers

CONSTANTS
    Requests,   \* concurrent ICS requests
    Managers,   \* concurrent manage requests
    Retention,  \* reaper.DefaultRetention
    Every,      \* reaper.defaultEvery
    MaxDelay,   \* longest time from reading a clock to the statement using it
    MaxTime,    \* bound on the clock, for TLC
    MaxSecrets, \* bound on the number of secrets, for TLC
    MaxMissed   \* bound on the reaper runs lost in a row, for TLC

ASSUME AccessAssumption ==
    /\ Retention \in Nat \ {0}
    /\ Every \in Nat \ {0}
    /\ MaxDelay \in Nat
    /\ MaxTime \in Nat
    /\ MaxSecrets \in Nat
    /\ MaxMissed \in Nat

VARIABLES
    now,        \* the wall clock
    feed,       \* the row of table feeds: {} when there is none
    create,     \* the create request: where it is, and its clock
    issued,     \* how many feed secrets were generated
    shown,      \* the feed secrets some page has shown
    ics,        \* each ICS request: where it is, its secret and its clock
    manage,     \* each manage request: where it is, and its new secret
    reaper,     \* the reaper's loop: where it is, its clock, its next tick
    valid,      \* history: the secrets of the row since a request came in
    lastUsed,   \* history: the latest clock of a 200, or of the creation
    missed      \* history: the reaper runs that were lost in a row

handlers == <<create, issued, shown, ics, manage>>
history == <<valid, lastUsed, missed>>
vars == <<now, feed, handlers, reaper, history>>

FeedRow == [secret : Nat, touched : Nat]

Init ==
    /\ now = 0
    /\ feed = {}
    /\ create = [pc |-> "idle", at |-> 0]
    /\ issued = 0
    /\ shown = {}
    /\ ics = [r \in Requests |-> [pc |-> "idle", secret |-> 0, at |-> 0]]
    /\ manage = [m \in Managers |-> [pc |-> "idle", secret |-> 0]]
    /\ reaper = [pc |-> "starting", clock |-> 0, due |-> 0]
    /\ valid = [r \in Requests |-> {}]
    /\ lastUsed = 0
    /\ missed = 0

-----------------------------------------------------------------------------
(* Creating the feed. *)

\* serveCreate has generated its secrets and reads the clock.
CreateStamp ==
    /\ create.pc = "idle"
    /\ issued < MaxSecrets
    /\ create' = [pc |-> "stamped", at |-> now]
    /\ issued' = issued + 1
    /\ UNCHANGED <<now, feed, shown, ics, manage, reaper, history>>

\* The transaction commits; the page is shown, unless the reply is lost.
CreateFeed ==
    /\ create.pc = "stamped"
    /\ create' = [create EXCEPT !.pc = "done"]
    /\ feed' = {[secret |-> 1, touched |-> create.at]}
    /\ shown' \in {shown, shown \union {1}}
    /\ lastUsed' = create.at
    /\ UNCHANGED <<now, issued, ics, manage, reaper, valid, missed>>

\* It fails: there is no feed, and no page.
CreateFails ==
    /\ create.pc = "stamped"
    /\ create' = [create EXCEPT !.pc = "done"]
    /\ UNCHANGED <<now, feed, issued, shown, ics, manage, reaper, history>>

-----------------------------------------------------------------------------
(* An ICS request. *)

Secrets == {f.secret : f \in feed}

Answer(r, code) == ics' = [ics EXCEPT ![r].pc = code]

\* A client asks for the feed with a secret it was shown.
Begin(r) ==
    /\ ics[r].pc = "idle"
    /\ \E s \in shown :
         ics' = [ics EXCEPT ![r] = [pc |-> "lookup", secret |-> s, at |-> 0]]
    /\ valid' = [valid EXCEPT ![r] = Secrets]
    /\ UNCHANGED <<now, feed, create, issued, shown, manage, reaper,
                   lastUsed, missed>>

\* Mutant: any secret will do.
VerifyNothing(f, s) == TRUE

\* tokens.Verify
Verify(f, s) == f.secret = s

\* GetFeed finds the feed and Verify accepts the secret.
Lookup(r) ==
    /\ ics[r].pc = "lookup"
    /\ \E f \in feed : Verify(f, ics[r].secret)
    /\ Answer(r, "refresh")
    /\ UNCHANGED <<now, feed, create, issued, shown, manage, reaper, history>>

\* No feed, or not its secret: 404.
NotFound(r) ==
    /\ ics[r].pc = "lookup"
    /\ ~\E f \in feed : Verify(f, ics[r].secret)
    /\ Answer(r, "404")
    /\ UNCHANGED <<now, feed, create, issued, shown, manage, reaper, history>>

\* A limiter refuses, before the lookup or after it, or the database is away.
Refused(r) ==
    /\ ics[r].pc \in {"lookup", "refresh"}
    /\ Answer(r, "refused")
    /\ UNCHANGED <<now, feed, create, issued, shown, manage, reaper, history>>

\* Refresh returns an error: the feed does not count as used.
RefreshFails(r) ==
    /\ ics[r].pc = "refresh"
    /\ Answer(r, "refused")
    /\ UNCHANGED <<now, feed, create, issued, shown, manage, reaper, history>>

\* Refresh returns a body, and the handler reads the clock.
RefreshReturns(r) ==
    /\ ics[r].pc = "refresh"
    /\ ics' = [ics EXCEPT ![r].pc = "touch", ![r].at = now]
    /\ UNCHANGED <<now, feed, create, issued, shown, manage, reaper, history>>

\* Mutant: a row is inserted, the old one stays.
TouchInserts(at) == feed' = feed \union {[f EXCEPT !.touched = at] : f \in feed}

\* UPDATE feeds SET last_request_at: the row as it is by now, if any.
TouchLastRequest(at) == feed' = {[f EXCEPT !.touched = at] : f \in feed}

\* The use is recorded and the body sent.
Serve(r) ==
    /\ ics[r].pc = "touch"
    /\ feed # {}
    /\ TouchLastRequest(ics[r].at)
    /\ Answer(r, "200")
    /\ lastUsed' = IF ics[r].at > lastUsed THEN ics[r].at ELSE lastUsed
    /\ UNCHANGED <<now, create, issued, shown, manage, reaper,
                   valid, missed>>

\* No row any more, or no reply from the database, which may have written.
TouchFails(r) ==
    /\ ics[r].pc = "touch"
    /\ UNCHANGED feed \/ TouchLastRequest(ics[r].at)
    /\ Answer(r, "refused")
    /\ UNCHANGED <<now, create, issued, shown, manage, reaper, history>>

\* The client reads its answer and may ask again.
Leave(r) ==
    /\ ics[r].pc \in {"200", "404", "refused"}
    /\ ics' = [ics EXCEPT ![r] = [pc |-> "idle", secret |-> 0, at |-> 0]]
    /\ valid' = [valid EXCEPT ![r] = {}]
    /\ UNCHANGED <<now, feed, create, issued, shown, manage, reaper,
                   lastUsed, missed>>

-----------------------------------------------------------------------------
(* A manage request.  The manage secret never changes. *)

\* loadManaged finds the feed; otherwise the answer is 404.
LoadManaged(m) ==
    /\ manage[m].pc = "idle"
    /\ feed # {}
    /\ manage' = [manage EXCEPT ![m].pc = "loaded"]
    /\ UNCHANGED <<now, feed, create, issued, shown, ics, reaper, history>>

\* A rejected form, a save, or an error: neither column is written.
ManageEnds(m) ==
    /\ manage[m].pc # "idle"
    /\ manage' = [manage EXCEPT ![m] = [pc |-> "idle", secret |-> 0]]
    /\ UNCHANGED <<now, feed, create, issued, shown, ics, reaper, history>>

\* rotate_feed: a secret is generated first ...
Generate(m) ==
    /\ manage[m].pc = "loaded"
    /\ issued < MaxSecrets
    /\ issued' = issued + 1
    /\ manage' = [manage EXCEPT ![m] = [pc |-> "rotate", secret |-> issued + 1]]
    /\ UNCHANGED <<now, feed, create, shown, ics, reaper, history>>

\* ... and replaces the one in the row, if the row is still there.
RotateFeedToken(m) ==
    /\ manage[m].pc = "rotate"
    /\ feed # {}
    /\ feed' = {[f EXCEPT !.secret = manage[m].secret] : f \in feed}
    /\ shown' \in {shown, shown \union {manage[m].secret}}
    /\ manage' = [manage EXCEPT ![m] = [pc |-> "idle", secret |-> 0]]
    /\ valid' = [r \in Requests |-> IF ics[r].pc = "idle" THEN {}
                                    ELSE valid[r] \union {manage[m].secret}]
    /\ UNCHANGED <<now, create, issued, ics, reaper, lastUsed, missed>>

DeleteFeed(m) ==
    /\ manage[m].pc = "loaded"
    /\ feed # {}
    /\ feed' = {}
    /\ manage' = [manage EXCEPT ![m] = [pc |-> "idle", secret |-> 0]]
    /\ UNCHANGED <<now, create, issued, shown, ics, reaper, history>>

-----------------------------------------------------------------------------
(* The reaper. *)

\* Mutant: the clock is read once, when the loop is started.
RunOnceOldClock ==
    /\ \/ reaper.pc = "starting"
       \/ reaper.pc = "waiting" /\ now >= reaper.due
    /\ reaper' = [pc |-> IF reaper.pc = "starting" THEN "first" ELSE "later",
                  clock |-> IF reaper.pc = "starting" THEN now ELSE reaper.clock,
                  due |-> reaper.due]
    /\ UNCHANGED <<now, feed, handlers, history>>

\* Loop runs once as soon as it is started, then on each tick.
RunOnce ==
    /\ \/ reaper.pc = "starting"
       \/ reaper.pc = "waiting" /\ now >= reaper.due
    /\ reaper' = [pc |-> IF reaper.pc = "starting" THEN "first" ELSE "later",
                  clock |-> now, due |-> reaper.due]
    /\ UNCHANGED <<now, feed, handlers, history>>

\* The ticker starts after the first run and keeps its own time.
Wait ==
    reaper' = [reaper EXCEPT
                 !.pc = "waiting",
                 !.due = (IF reaper.pc = "first" THEN now ELSE reaper.due) + Every]

\* Mutant: what was used exactly on the cutoff is deleted.
StaleOnCutoff(f, clock) == f.touched <= clock - Retention

Stale(f, clock) == f.touched < clock - Retention

DeleteStaleFeeds ==
    /\ reaper.pc \in {"first", "later"}
    /\ feed' = {f \in feed : ~Stale(f, reaper.clock)}
    /\ Wait
    /\ missed' = 0
    /\ UNCHANGED <<now, handlers, valid, lastUsed>>

\* The statement fails: nobody retries before the next tick.
RunFails ==
    /\ reaper.pc \in {"first", "later"}
    /\ missed < MaxMissed
    /\ Wait
    /\ missed' = missed + 1
    /\ UNCHANGED <<now, feed, handlers, valid, lastUsed>>

-----------------------------------------------------------------------------
\* The process dies and comes back; a run of the reaper may be lost.
Restart ==
    /\ reaper.pc # "waiting" => missed < MaxMissed
    /\ create' = [create EXCEPT !.pc = IF @ = "stamped" THEN "done" ELSE @]
    /\ ics' = [r \in Requests |-> [pc |-> "idle", secret |-> 0, at |-> 0]]
    /\ manage' = [m \in Managers |-> [pc |-> "idle", secret |-> 0]]
    /\ reaper' = [pc |-> "starting", clock |-> 0, due |-> now]
    /\ valid' = [r \in Requests |-> {}]
    /\ missed' = IF reaper.pc # "waiting" THEN missed + 1 ELSE missed
    /\ UNCHANGED <<now, feed, issued, shown, lastUsed>>

\* Time passes, but nobody is left for more than MaxDelay between its clock
\* and its statement, and a tick of the reaper is noticed within MaxDelay.
InTime(n) ==
    /\ create.pc = "stamped" => n <= create.at + MaxDelay
    /\ \A r \in Requests : ics[r].pc = "touch" => n <= ics[r].at + MaxDelay
    /\ reaper.pc \in {"first", "later"} => n <= reaper.clock + MaxDelay
    /\ reaper.pc \in {"starting", "waiting"} => n <= reaper.due + MaxDelay

Tick ==
    /\ now < MaxTime
    /\ InTime(now + 1)
    /\ now' = now + 1
    /\ UNCHANGED <<feed, handlers, reaper, history>>

ICSStep(r) ==
    \/ Begin(r) \/ Lookup(r) \/ NotFound(r) \/ Refused(r)
    \/ RefreshFails(r) \/ RefreshReturns(r)
    \/ Serve(r) \/ TouchFails(r) \/ Leave(r)

ManageStep(m) ==
    \/ LoadManaged(m) \/ ManageEnds(m) \/ Generate(m)
    \/ RotateFeedToken(m) \/ DeleteFeed(m)

Next ==
    \/ CreateStamp \/ CreateFeed \/ CreateFails
    \/ \E r \in Requests : ICSStep(r)
    \/ \E m \in Managers : ManageStep(m)
    \/ RunOnce \/ DeleteStaleFeeds \/ RunFails
    \/ Restart \/ Tick

Spec == Init /\ [][Next]_vars

-----------------------------------------------------------------------------
(* Properties. *)

(* Every variable has its type; there is at most one row, no page shows a  *)
(* secret that was not issued, and the clocks that are read lie behind.    *)
TypeOK ==
    /\ now \in Nat
    /\ feed \in SUBSET FeedRow
    /\ \A f, g \in feed : f = g
    /\ create \in [pc : {"idle", "stamped", "done"}, at : Nat]
    /\ issued \in Nat
    /\ shown \subseteq 1..issued
    /\ ics \in [Requests -> [pc : {"idle", "lookup", "refresh", "touch",
                                   "200", "404", "refused"},
                             secret : Nat, at : Nat]]
    /\ manage \in [Managers -> [pc : {"idle", "loaded", "rotate"}, secret : Nat]]
    /\ reaper \in [pc : {"starting", "first", "later", "waiting"},
                   clock : Nat, due : Nat]
    /\ valid \in [Requests -> SUBSET Nat]
    /\ lastUsed \in Nat /\ missed \in Nat

(* A request is served only with a secret that was the feed's at some time *)
(* since the request came in: once a rotation or a deletion is done, no    *)
(* request that begins afterwards gets a body with what was valid before,  *)
(* whatever rotations race.                                                *)
ServedWithItsSecret ==
    \A r \in Requests : ics[r].pc = "200" => ics[r].secret \in valid[r]

(* The reaper deletes a feed only when its last use, creation included,    *)
(* lies a retention back: touches may be written in another order than     *)
(* their clocks, so up to MaxDelay of it may be forgotten.                 *)
ReapedOnlyIdle ==
    [][DeleteStaleFeeds /\ feed' # feed =>
         lastUsed < reaper.clock - Retention + MaxDelay]_vars

(* A feed nobody uses is deleted within one period of the reaper after its *)
(* retention, and each run that is lost costs one more.  A period may be   *)
(* stretched by a late tick, a restart that has to start the loop, and the *)
(* time the statement takes.                                               *)
IdleFeedsReaped ==
    \A f \in feed :
        now - f.touched <=
            Retention + MaxDelay + (missed + 1) * (Every + 3 * MaxDelay)

=============================================================================
