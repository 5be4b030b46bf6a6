----------------------------- MODULE FeedRefresh -----------------------------
(***************************************************************************)
(* Refreshing one feed: internal/refresh over the tables of internal/store.*)
(*                                                                         *)
(* A caller of Refresh (an HTTP request for the feed's ICS) either leads a *)
(* run of refreshOnce or waits for the run in flight, whose result         *)
(* singleflight hands to every waiter.  A run reads the feed row, then the *)
(* source rows (two statements, no transaction), decides from the age of   *)
(* the merged body whether to fetch, fetches all origins, writes each      *)
(* source row back, merges the usable bodies and writes the merged body.   *)
(* Between any two of these steps the clock may advance, the manage page   *)
(* may save (UpdateFeed) or delete the feed, the reaper may delete it, a   *)
(* statement may fail, and the process may be restarted.                   *)
(*                                                                         *)
(* Feed ids are independent of each other in every statement and in the    *)
(* singleflight group, so the module follows a single feed id.  Optional   *)
(* columns are sets with at most one element, as in CachePolicy.           *)
(*                                                                         *)
(* Abstracted: names, labels and URLs are the number of the save that      *)
(* wrote them (settings, gen); an ICS body is its fetch time and whether   *)
(* icalmerge can parse it; a merged body is the sources it was made of.    *)
(* last_attempt_at and last_error are not modelled: the refresh never      *)
(* reads them.                                                             *)
(***************************************************************************)
EXTENDS CachePolicy

CONSTANTS
    Callers,        \* concurrent callers of Refresh
    MaxSources,     \* most sources a feed has (fetch.MaxSources)
    OriginAnswers,  \* what an origin may answer
    MaxTime,        \* bound on the clock, for TLC
    MaxSaves        \* bound on the number of saves, for TLC

ASSUME RefreshAssumption ==
    /\ MaxSources \in Nat \ {0}
    /\ OriginAnswers \subseteq {"calendar", "garbage", "failure"}
    /\ MaxTime \in Nat
    /\ MaxSaves \in Nat

VARIABLES
    now,        \* the wall clock
    feed,       \* the row of table feeds: {} when there is none
    sources,    \* the rows of table sources
    pc,         \* where each caller is
    run,        \* the local variables of a caller's refreshOnce
    answer,     \* what Refresh returned to a caller that is done
    overtaken   \* history: the saves committed while a run held its row

vars == <<now, feed, sources, pc, run, answer, overtaken>>

-----------------------------------------------------------------------------
(* The values of the variables. *)

Body == [at : Nat, parses : BOOLEAN]
SourceRow == [gen : Nat, pos : Nat, ics : SUBSET Body]
Part == [gen : Nat, pos : Nat, at : Nat]
Merge == [at : Nat, settings : Nat, parts : SUBSET Part]
FeedRow == [settings : Nat, merged : SUBSET Merge]
Answer == [kind : {"body", "limited", "noSources", "error"},
           at : Nat, body : SUBSET Merge]
Run == [row : SUBSET FeedRow, snap : SUBSET SourceRow, clock : Nat,
        todo : SUBSET SourceRow]

\* The steps of refreshOnce, in their order.
RunStates == {"feedRow", "sourceRows", "decide", "fetch", "store", "publish"}

NoRun == [row |-> {}, snap |-> {}, clock |-> 0, todo |-> {}]

SourcesOf(n, k) == {[gen |-> n, pos |-> i, ics |-> {}] : i \in 1..k}

\* A feed as CreateFeed leaves it, and a process that has just started.
Init ==
    /\ now = 0
    /\ feed = {[settings |-> 0, merged |-> {}]}
    /\ \E k \in 1..MaxSources : sources = SourcesOf(0, k)
    /\ pc = [c \in Callers |-> "idle"]
    /\ run = [c \in Callers |-> NoRun]
    /\ answer = [c \in Callers |-> {}]
    /\ overtaken = {}

-----------------------------------------------------------------------------
(* The steps of a caller. *)

InFlight(c) == pc[c] \in RunStates

\* A run that has read its feed row.
HasRow(c) == pc[c] \in RunStates \ {"feedRow"}

\* The merged body the run read, when it has one.
OldMerge(c) == UNION {row.merged : row \in run[c].row}

\* The policy's decision of a run, a function of what it read.
Decision(c) == Decide(OldMerge(c), run[c].clock)

\* Mutant: every caller leads a run of its own.
RefreshAlone(c) ==
    /\ pc[c] = "idle"
    /\ pc' = [pc EXCEPT ![c] = "feedRow"]
    /\ UNCHANGED <<now, feed, sources, run, answer, overtaken>>

\* Refresh: lead a run, or wait for the one in flight.
Refresh(c) ==
    /\ pc[c] = "idle"
    /\ pc' = [pc EXCEPT ![c] = IF \E d \in Callers : InFlight(d)
                               THEN "waiting" ELSE "feedRow"]
    /\ UNCHANGED <<now, feed, sources, run, answer, overtaken>>

\* Mutants: the waiters are not woken; they are woken with nothing.
FinishLeaderOnly(c, kind, body) ==
    /\ pc' = [pc EXCEPT ![c] = "done"]
    /\ answer' = [answer EXCEPT ![c] =
                    {[kind |-> kind, at |-> run[c].clock, body |-> body]}]
    /\ run' = [run EXCEPT ![c] = NoRun]

FinishWithoutResult(c, kind, body) ==
    /\ pc' = [d \in Callers |-> IF d = c \/ pc[d] = "waiting"
                                THEN "done" ELSE pc[d]]
    /\ answer' = [answer EXCEPT ![c] =
                    {[kind |-> kind, at |-> run[c].clock, body |-> body]}]
    /\ run' = [run EXCEPT ![c] = NoRun]

\* refreshOnce returns: singleflight hands its result to every waiter.
Finish(c, kind, body) ==
    LET shares(d) == d = c \/ pc[d] = "waiting"
    IN  /\ pc' = [d \in Callers |-> IF shares(d) THEN "done" ELSE pc[d]]
        /\ answer' = [d \in Callers |->
                        IF shares(d)
                        THEN {[kind |-> kind, at |-> run[c].clock,
                               body |-> body]}
                        ELSE answer[d]]
        /\ run' = [run EXCEPT ![c] = NoRun]

\* GetFeed, first statement: the feed row.
LoadFeedRow(c) ==
    /\ pc[c] = "feedRow"
    /\ IF feed = {}
       THEN Finish(c, "error", {})
       ELSE /\ pc' = [pc EXCEPT ![c] = "sourceRows"]
            /\ run' = [run EXCEPT ![c].row = feed]
            /\ UNCHANGED answer
    /\ UNCHANGED <<now, feed, sources, overtaken>>

\* GetFeed, second statement: the source rows as they are by now.
LoadSourceRows(c) ==
    /\ pc[c] = "sourceRows"
    /\ pc' = [pc EXCEPT ![c] = "decide"]
    /\ run' = [run EXCEPT ![c].snap = sources]
    /\ UNCHANGED <<now, feed, sources, answer, overtaken>>

\* The run reads the clock, once.
ReadClock(c) ==
    /\ pc[c] = "decide"
    /\ pc' = [pc EXCEPT ![c] = "fetch"]
    /\ run' = [run EXCEPT ![c].clock = now]
    /\ UNCHANGED <<now, feed, sources, answer, overtaken>>

\* A fresh merged body is returned as it is.
ServeFresh(c) ==
    /\ pc[c] = "fetch"
    /\ ~ShouldFetch(Decision(c))
    /\ Finish(c, "body", OldMerge(c))
    /\ UNCHANGED <<now, feed, sources, overtaken>>

\* The quota of origin fetches refuses the whole burst.
FetchLimited(c) ==
    /\ pc[c] = "fetch"
    /\ ShouldFetch(Decision(c))
    /\ run[c].snap # {}
    /\ Finish(c, "limited", {})
    /\ UNCHANGED <<now, feed, sources, overtaken>>

\* Mutant: a failure clears the body.
applyFetchErases(row, origin, n) ==
    [row EXCEPT !.ics = IF origin = "failure" THEN {}
                        ELSE {[at |-> n, parses |-> origin = "calendar"]}]

\* A row after its origin's answer: a body replaces the last good one, a
\* failure leaves it.
applyFetch(row, origin, n) ==
    IF origin = "failure"
    THEN row
    ELSE [row EXCEPT !.ics = {[at |-> n, parses |-> origin = "calendar"]}]

\* The rows to write, given what each origin answered.
Fetched(c, origin) ==
    {applyFetch(row, origin[row], run[c].clock) : row \in run[c].snap}

\* GetAll: every origin answers.
Fetch(c) ==
    /\ pc[c] = "fetch"
    /\ ShouldFetch(Decision(c))
    /\ \E origin \in [run[c].snap -> OriginAnswers] :
         run' = [run EXCEPT ![c].snap = Fetched(c, origin),
                            ![c].todo = Fetched(c, origin)]
    /\ pc' = [pc EXCEPT ![c] = "store"]
    /\ UNCHANGED <<now, feed, sources, answer, overtaken>>

SameSource(r, s) == r.gen = s.gen /\ r.pos = s.pos

\* UPDATE sources ... WHERE id = row's id.
UpdateSourceFetch(row) ==
    sources' = {IF SameSource(s, row) THEN [s EXCEPT !.ics = row.ics] ELSE s :
                   s \in sources}

\* One iteration of the loop over the sources, in the order of positions.
\* The reply of a statement that took effect may still be lost.
StoreSource(c) ==
    /\ pc[c] = "store"
    /\ \E row \in run[c].todo :
        /\ \A other \in run[c].todo : row.pos <= other.pos
        /\ UpdateSourceFetch(row)
        /\ \/ /\ \E s \in sources : SameSource(s, row)
              /\ run' = [run EXCEPT ![c].todo = @ \ {row}]
              /\ UNCHANGED <<pc, answer>>
           \/ Finish(c, "error", {})
    /\ UNCHANGED <<now, feed, overtaken>>

\* The loop is over.
StoreDone(c) ==
    /\ pc[c] = "store"
    /\ run[c].todo = {}
    /\ pc' = [pc EXCEPT ![c] = "publish"]
    /\ UNCHANGED <<now, feed, sources, run, answer, overtaken>>

\* Mutant: the age of a source body is not looked at.
usableSourceBodyAnyAge(row, n) == row.ics

\* The last good body, as long as the policy allows it after an error.
usableSourceBody(row, n) ==
    IF Decide(row.ics, n) = "FetchFailOnError" THEN {} ELSE row.ics

\* The rows whose body goes into the merge.
Named(c) == {row \in run[c].snap : usableSourceBody(row, run[c].clock) # {}}

\* MergeWithWindow fails as soon as one calendar does not parse.
MergeFails(c) == \E row \in Named(c) : \E body \in row.ics : ~body.parses

Merged(c, feedRow) ==
    [at |-> run[c].clock,
     settings |-> feedRow.settings,
     parts |-> UNION {{[gen |-> row.gen, pos |-> row.pos, at |-> body.at] :
                          body \in row.ics} : row \in Named(c)}]

\* Nothing to merge, or a merge that fails: the old body if the policy
\* still allows it, an error otherwise.
PublishNothing(c) ==
    /\ pc[c] = "publish"
    /\ Named(c) = {} \/ MergeFails(c)
    /\ IF ServeCacheOnError(Decision(c))
       THEN Finish(c, "body", OldMerge(c))
       ELSE Finish(c, IF Named(c) = {} THEN "noSources" ELSE "error", {})
    /\ UNCHANGED <<now, feed, sources, overtaken>>

\* UPDATE feeds SET merged_ics, merged_at.
UpdateMerged(merge) ==
    feed' = {[row EXCEPT !.merged = {merge}] : row \in feed}

\* The merge is written and returned; no row, or a lost reply, is an error.
Publish(c) ==
    /\ pc[c] = "publish"
    /\ Named(c) # {} /\ ~MergeFails(c)
    /\ \E row \in run[c].row :
        /\ UpdateMerged(Merged(c, row))
        /\ \/ feed # {} /\ Finish(c, "body", {Merged(c, row)})
           \/ Finish(c, "error", {})
    /\ UNCHANGED <<now, sources, overtaken>>

\* A statement fails without effect: the database is away, or the request
\* that leads the run was cancelled.
StatementFails(c) ==
    /\ \/ pc[c] \in {"feedRow", "sourceRows"}
       \/ pc[c] = "store" /\ run[c].todo # {}
       \/ pc[c] = "publish" /\ Named(c) # {} /\ ~MergeFails(c)
    /\ Finish(c, "error", {})
    /\ UNCHANGED <<now, feed, sources, overtaken>>

\* The caller takes its answer away.
Leave(c) ==
    /\ pc[c] = "done"
    /\ pc' = [pc EXCEPT ![c] = "idle"]
    /\ answer' = [answer EXCEPT ![c] = {}]
    /\ UNCHANGED <<now, feed, sources, run, overtaken>>

-----------------------------------------------------------------------------
(* The steps of the others. *)

Tick ==
    /\ now < MaxTime
    /\ now' = now + 1
    /\ UNCHANGED <<feed, sources, pc, run, answer, overtaken>>

\* Mutant: the merged body survives the save.
UpdateFeedKeepsMerged(k) ==
    \E row \in feed :
        LET n == row.settings + 1
        IN  /\ n <= MaxSaves
            /\ feed' = {[row EXCEPT !.settings = n]}
            /\ sources' = SourcesOf(n, k)
            /\ overtaken' = IF \E c \in Callers : HasRow(c)
                            THEN overtaken \union {n} ELSE overtaken
            /\ UNCHANGED <<now, pc, run, answer>>

\* UpdateFeed, one transaction: new settings, no merged body, new sources.
UpdateFeed(k) ==
    \E row \in feed :
        LET n == row.settings + 1
        IN  /\ n <= MaxSaves
            /\ feed' = {[settings |-> n, merged |-> {}]}
            /\ sources' = SourcesOf(n, k)
            /\ overtaken' = IF \E c \in Callers : HasRow(c)
                            THEN overtaken \union {n} ELSE overtaken
            /\ UNCHANGED <<now, pc, run, answer>>

\* DeleteFeed or DeleteStaleFeeds; the sources cascade.
DeleteFeed ==
    /\ feed # {}
    /\ feed' = {}
    /\ sources' = {}
    /\ UNCHANGED <<now, pc, run, answer, overtaken>>

\* The process dies and comes back: every run and every caller is gone.
Restart ==
    /\ \E c \in Callers : pc[c] # "idle"
    /\ pc' = [c \in Callers |-> "idle"]
    /\ run' = [c \in Callers |-> NoRun]
    /\ answer' = [c \in Callers |-> {}]
    /\ UNCHANGED <<now, feed, sources, overtaken>>

-----------------------------------------------------------------------------
RunStep(c) ==
    \/ LoadFeedRow(c) \/ LoadSourceRows(c) \/ ReadClock(c)
    \/ ServeFresh(c) \/ FetchLimited(c) \/ Fetch(c)
    \/ StoreSource(c) \/ StoreDone(c)
    \/ PublishNothing(c) \/ Publish(c) \/ StatementFails(c)

Next ==
    \/ \E c \in Callers : Refresh(c) \/ RunStep(c) \/ Leave(c)
    \/ \E k \in 1..MaxSources : UpdateFeed(k)
    \/ Tick \/ DeleteFeed \/ Restart

Spec == Init /\ [][Next]_vars

(* A run does not stop halfway: statements return, and the fetcher has its *)
(* own timeouts.  Nothing is assumed of callers, users, clock or crashes.  *)
FairSpec == Spec /\ \A c \in Callers : WF_vars(RunStep(c))

-----------------------------------------------------------------------------
(* Properties. *)

AtMostOne(S) == \A x, y \in S : x = y

(* Every variable has its type; there is one feed row, no two source rows  *)
(* share an id, a caller has an answer exactly when it is done, and only a *)
(* run in flight has local variables.                                      *)
TablesTyped ==
    /\ now \in Nat
    /\ feed \in SUBSET FeedRow /\ AtMostOne(feed)
    /\ \A row \in feed : AtMostOne(row.merged)
    /\ sources \in SUBSET SourceRow
    /\ \A r, s \in sources : SameSource(r, s) => r = s
    /\ overtaken \in SUBSET Nat

CallersTyped ==
    /\ pc \in [Callers -> RunStates \union {"idle", "waiting", "done"}]
    /\ run \in [Callers -> Run]
    /\ answer \in [Callers -> SUBSET Answer]
    /\ \A c \in Callers : (pc[c] = "done") <=> (answer[c] # {})
    /\ \A c \in Callers : ~InFlight(c) => run[c] = NoRun

TypeOK == TablesTyped /\ CallersTyped

(* No caller is handed events older than twice MaxStale, counted at the    *)
(* time its run read the clock.  Two expiry checks stand in a row: one on  *)
(* each source body when it is merged, one on the merged body when it is   *)
(* served after an error.  They add up, and this is all they guarantee.    *)
ServedWithinTwiceMaxStale ==
    \A c \in Callers : \A a \in answer[c] : \A merge \in a.body :
        \A part \in merge.parts : a.at - part.at <= 2 * MaxStale

(* The merged body in the table belongs to the saved settings and sources, *)
(* unless the save that wrote them overtook a run in flight (UpdateFeed    *)
(* clears the body, the run then writes the one it has made before).       *)
MergeOf(row, merge) ==
    /\ merge.settings = row.settings
    /\ \A part \in merge.parts : part.gen = row.settings

StaleOnlyAfterOverlap ==
    \A row \in feed : \A merge \in row.merged :
        MergeOf(row, merge) \/ row.settings \in overtaken

(* A merged body is replaced only after its fresh window, whatever number  *)
(* of callers ask at once: the decision to fetch is taken on a row that no *)
(* other run can have replaced meanwhile.                                  *)
MergeReplaced ==
    \A row \in feed, next \in feed' :
        \A old \in row.merged, new \in next.merged :
            new # old => new.at - old.at >= Fresh

MergeSpacing == [][MergeReplaced]_vars

(* The body stored for a source that stays in the table is what its origin *)
(* last answered with 200: no failure, crash or other run takes it away or *)
(* puts an older one back, and it gives way only to what the run in flight *)
(* fetched at its clock.  Whether that parses is not looked at: a calendar *)
(* may give way to a body that is none.                                    *)
Advances(s, t, n) ==
    \/ t.ics = s.ics
    \/ /\ \E new \in t.ics : new.at = n
       /\ \A new \in t.ics, old \in s.ics : old.at <= new.at

BodiesAdvance ==
    \A s \in sources, t \in sources' :
        SameSource(s, t) =>
            \/ t.ics = s.ics
            \/ \E c \in Callers : pc[c] = "store" /\ Advances(s, t, run[c].clock)

BodiesOnlyAdvance == [][BodiesAdvance]_vars

(* When a run gives up with ErrNoUsableSources, the tables hold nothing    *)
(* the 24 hours would still allow: no merged body, no source body.         *)
NothingUsable(n) ==
    /\ \A row \in feed : \A merge \in row.merged : Age(merge, n) > MaxStale
    /\ \A row \in sources : \A body \in row.ics : Age(body, n) > MaxStale

GivesUpExpired ==
    \A c \in Callers : \A a \in answer'[c] \ answer[c] :
        a.kind = "noSources" => NothingUsable(a.at)

GivesUpOnlyWhenExpired == [][GivesUpExpired]_vars

(* Every caller of Refresh gets an answer (or its process dies): whoever   *)
(* waits for somebody else's run is released when that run ends.           *)
CallersAnswered ==
    \A c \in Callers :
        pc[c] \notin {"idle", "done"} ~> pc[c] \in {"idle", "done"}

-----------------------------------------------------------------------------
(* What the repository says, and the code does not do. *)

(* README.md:17 and faq.html:18: the last good version of a source is used *)
(* for up to 24 hours, then the source is removed.                         *)
ServedWithinMaxStale ==
    \A c \in Callers : \A a \in answer[c] : \A merge \in a.body :
        \A part \in merge.parts : a.at - part.at <= MaxStale

(* store.go:181: UpdateFeed clears the merged ICS cache so the next        *)
(* refresh rebuilds it.                                                    *)
MergeMatchesSettings ==
    \A row \in feed : \A merge \in row.merged : MergeOf(row, merge)

(* faq.html:18: a source that stops working is left out, the remaining     *)
(* calendars are combined, and an error means that none is left.           *)
RemainingAreCombined ==
    [][\A c \in Callers :
         PublishNothing(c) =>
             \A row \in Named(c) : \A body \in row.ics : ~body.parses]_vars
=============================================================================
