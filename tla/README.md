# CatiCal in TLA+

Specifications, model-checking runs and proofs for CatiCal, the server that combines
several iCalendar subscriptions into one feed. Line references are to the repository's
files (`store.go` is `internal/store/store.go`, and so on).

## The system

One Go process serves HTTP and keeps everything in two PostgreSQL tables, `feeds` and
`sources`. Nothing else survives a restart. Inside the process, handlers run side by
side and share three things only: the singleflight group of the refresh service, the
rate limiters, and the semaphore of the fetcher. Everything else they tell each other,
they tell through rows that are read in one statement and written in another.

| Component | State | Operations | Talks to |
|---|---|---|---|
| cache policy (`cachepolicy.go`) | none | `Decide`, `ShouldFetch`, `ServeCacheOnError` | called by the refresh, for source bodies and for the merged body |
| feed refresh (`refresh.go`) | singleflight group | `Refresh`, `refreshOnce` | reads and writes both tables; calls fetcher and merge |
| origin fetcher (`fetch.go`) | semaphore | `GetAll`, `acquire`, `release`, `getOne`, URL checks | quota callback into the limiter; called by refresh and by create/save |
| calendar merge (`merge.go`) | none | `MergeWithWindow` | called by the refresh; `Parse` by create/save |
| event window (`window.go`) | none | `bounds`, `eventsInWindow`, `seriesHits`, `overlaps` | called by the merge |
| ICS handler (`server.go`) | none | `serveICS` | limiter, `GetFeed`, `Verify`, `Refresh`, `TouchLastRequest` |
| create and manage handlers (`html.go`) | none | create, save, rotate, delete | limiter, Turnstile, fetcher, store |
| secrets (`tokens.go`) | none | `Generate`, `Verify` | handlers |
| request limiter (`limit.go`) | buckets of hits, last sweep | `allowN` | five instances, per address or per feed |
| reaper (`reaper.go`) | ticker | `RunOnce`, `Loop` | `DeleteStaleFeeds` |
| store (`store.go`) | the two tables, `schema_migrations` | one statement or transaction per method; `Migrate` | everybody |
| start and shutdown (`main.go`) | signal context, HTTP server | open, migrate, reap, serve, `Shutdown`, `Close` | everybody |
| Turnstile (`turnstile.go`) | none | `checkTurnstile`, `Verify`, `expectedHostnames` | siteverify; called by create and manage |
| pages, health, robots, version | none | | |

What is hard in it:

- **Rows read before a wait and written after it.** A refresh reads the feed and its
  sources, waits seconds for origins, and writes without looking again; a save, a
  deletion, a rotation or the reaper may have come in between.
- **Shared answers.** Callers of one feed share one run, its result, its errors, its
  cancelled context and its quota.
- **Partial progress.** One `UPDATE` per source, then one for the merged body; an error
  or a crash leaves any prefix.
- **Clocks read in one place and used in another**: the limiter's stamp before its lock,
  the handler's touch, the reaper's cutoff, two cache ages in a row.
- **Failures that count as something else**: a feed whose origins fail does not count as
  used; a garbage answer counts as a success until it is merged.
- **Transactions side by side**: two saves, a cascading deletion and single-row updates on
  READ COMMITTED, each of them waiting for rows the others have written.
- **One quota, three ways to spend it**: a creation, a save, and whoever leads a refresh.
- **Answers that change between two questions**: a host is looked up when its URL is
  validated and again when it is dialed, and a redirect changes the URL in between.
- **Crashes between two transactions** of a migration, and two processes booting at once.
- **An end in the midst of everything**: a signal while the process migrates, before it
  listens, or with requests that never return.
- **Numbers at a boundary**: exactly five minutes, exactly the cutoff, an event that ends
  when the window opens, a walk that reaches its cap, months of different length.

`PROJECT.json` lists every one of these hazards at its line with the properties for it.

## Modules

| Module | Models | Composition |
|---|---|---|
| `CachePolicy` | the policy as operators | extended by `FeedRefresh` |
| `FeedRefresh` | one feed under `Refresh`, saves, deletion, crashes | uses `CachePolicy`; takes the fetch, a save and a deletion as one step each |
| `StoreTransactions` | saves and deletions as transactions beside the refresh | extends `FeedRefresh` and implements it |
| `FetchResults` | the results a call of `GetAll` may return | extended by `FetchPromise`; `Fetch` of `FeedRefresh` takes exactly these |
| `FetchPromise` | what `GetAll` promises: one answer, of these results | refined by `OriginFetch` and `OriginDial` |
| `OriginFetch` | `GetAll`, its goroutines, the semaphore | implements `FetchPromise` |
| `OriginDial` | what a goroutine does with its URL: checks, lookups, dialing, redirects | extends `OriginFetch`; both together implement `FetchPromise` |
| `FeedAccess` | who may read a feed and how long it lives | takes the refresh as any answer it may give, a form as accepted or not |
| `Handlers` | the handlers with Turnstile, the quota, the shared refresh and the form checks | extends `FeedAccess` and implements it |
| `IPLimiter` | `allowN` | one instance; `Handlers` has one window of the origin quota |
| `EventWindow` | which events a window keeps, as operators | extended by `IcalMerge` |
| `IcalMerge` | the loops of `MergeWithWindow` | uses `EventWindow` |
| `Migrations` | `Store.Migrate` in several booting processes | |
| `ProcessLife` | `main`: start, serving, signals, shutdown | extends `Migrations`; takes a request as something that computes or holds a connection |
| `MC*` | definitions for TLC where a configuration needs them: symmetry sets, inputs | |
| `*Proofs` | theorems | extend the module they are about |

A feed shares no state with another feed in any statement, so `FeedRefresh` and
`FeedAccess` follow a single one. Optional values (a column that may be NULL, a row that
may be gone) are sets with at most one member everywhere. Operators after a
comment "Mutant" are the code with one plausible mistake; they are used by no
specification and show that each property would notice it.

### FeedRefresh

`now` is the clock, `feed` and `sources` the rows, `pc`, `run` and `answer` the goroutine
of each caller: `run` is what `refreshOnce` has in its locals (the feed row, the snapshot
of the sources, the clock it read, what it still has to write). A caller leads a run or
waits for one (`Refresh`). A run is `LoadFeedRow`, `LoadSourceRows` (two statements, no
transaction), `ReadClock`, then `ServeFresh` or `Fetch` (or `FetchLimited`), one
`StoreSource` for each source, `StoreDone`, and `Publish` or `PublishNothing`;
`StatementFails` may end it anywhere, as the database or a cancelled leader does.
`UpdateFeed`, `DeleteFeed`, `Restart` and `Tick` happen between any two of them. A body is
its fetch time and whether it parses; a merged body is the sources it was made of and the
settings it was made under. `last_error` and `last_attempt_at` are left out, since nothing
reads them to decide anything.

`StatementFails` includes a statement that took effect and whose reply was lost. It does
not include one that takes effect after its caller has given up.

### StoreTransactions

The tables of `FeedRefresh` are the committed ones. `tx` is the transaction a saver or a
deleter has open: how many of its two row-writing statements are through, which source rows
its statement has found (`SeeSources`: PostgreSQL takes the snapshot when the statement
starts), and which it has deleted. A statement waits while another open transaction has
written its row (`FeedLocked`, `RowLocked`); the writes of the refresh are transactions of
one statement and wait likewise (`StoreSourceTx`, `PublishTx`). The `INSERT`s touch rows
nobody else can see and are part of `CommitSave`. `Rollback` ends a transaction anywhere:
a failed statement, a cancelled context (PostgreSQL rolls back when the connection goes),
`ErrNotFound`. That reads see what is committed, that a waiting `DELETE` goes on with the
rows of its old snapshot that are still there, and that locks end with the transaction is
PostgreSQL's and assumed.

### FeedAccess

`feed` is the row with the generation of its secret and its `last_request_at`. Create,
ICS request, manage request and reaper each have their program counter. A request verifies
its secret when it looks the feed up (`Lookup`), and touches the row after the refresh
(`Serve`), with a clock it read before the statement. The reaper computes its cutoff
(`RunOnce`) before the row is deleted (`DeleteStaleFeeds`). `MaxDelay` bounds the time
between a clock and the statement that uses it, and how late a tick is noticed; without
some such bound a request could touch a row days after it came in and no statement about
retention would hold.

### Handlers

A POST is `posted`, `verified` (Turnstile), `paid` (fields, URLs, quota), `fetched` (every
source downloaded and parsed), and only then changes the row, by the actions of
`FeedAccess`; a rotation or a deletion needs no more than `verified`. `form[p].proof` keeps
what siteverify said. `flight` is the run of the refresh with the address of the client
that leads it: `RunLoads`, then `RunFresh`, `RunFetches` or `RunLimited`, then `RunMerges`;
`RunBreaks` ends it anywhere. `ask` is what each ICS request has of it. `hits` is the origin
quota within one window, `gets` the URLs handed to `GetAll` for each address: the form pays
in `PayForm` and fetches with a context that carries no quota (`FormQuota`), the run pays in
`GetAll` from its leader's (`RunQuota`). Which address a client has is chosen when it
matters, when it pays or leads.

### IPLimiter

`Stamp` reads the clock; `Admit` and `Refuse` are the critical section, with its sweep and
its pruning. `MaxDelay` bounds the wait for the lock. Calls with `n <= 0` return at once
and are left out. Hits have names, so that a bucket is a set.

### OriginFetch and FetchPromise

A call pays its quota and starts its goroutines (`StartAll`), or is refused
(`StartLimited`). A goroutine is checking, acquiring, fetching or done; `used` is the
length of the semaphore channel. `Respond` is every way a fetch can end, and the deferred
`release`. `Cancel` is the client that goes away. The refinement mapping shows a call's
result slice once the call has returned.

`OriginDial` adds `trip`: the host a goroutine is on its way to, the addresses left to try,
and the redirects so far. A URL is a scheme, a port and a host; a host is an address, a name
or one of `blockedHost`; an address is one that `publicIP` accepts or not. `validateURL` and
`resolvePublic` are operators over any answer of the resolver, so the second lookup owes
nothing to the first. `Redirect` validates the new URL and starts again at its lookup,
inside the same slot.

### IcalMerge and EventWindow

One step per component (`CopyNext`); `SourceDone` goes on to the next source, and a source
that does not parse ends the merge. `next` and `at` are where the two loops are, `out` the
components of the mix with where they came from, `seenTZ` the map of the same name. A
component is its kind, UID, TZID and, for an event, what the window reads. `seriesHits` is
the walk over the dates of the RRULE and the RDATEs less EXDATEs: those it gets to
see are `Walked`, and the first `MaxChecks` of them (those with fewer dates before them)
are `Checked`. Two things are taken from rrule-go v1.8.2, the version of `go.mod`: a `Set`
iterates in ascending order without repetition, and it has one rule, which every call of
`Set.RRule` replaces, so that of several RRULEs the loop of window.go:141 leaves only the
last (`LastRule`). A rule is a step from DTSTART and a count, possibly endless; a DTSTART
that its rule does not hit is left out. `Dates` are the dates an event has by its properties, `SeenDates` those that
come into the set; the properties about the window speak of the second. Every `return true` for
a property that does not parse is the single value "no span". The assumptions say that the
ids of the sources differ (they are keys), that a zone has no UID, that months follow one
another, and that `Far`, up to which the properties look at an endless rule, lies beyond the
walk.

### Migrations

A file is its position. `Check`, `Apply` and `Record` are the three statements of a turn of
the loop; a process may die before or after each. The schema refuses to take a file twice
unless it is written for that (`001` is, `002` is not).

### ProcessLife

`stage` is where `main` is after `Migrate` (`serving`, `shutdown`, `closing`), `server` what
the goroutine that listens has got to, `told` who has got a signal. The context of the signal
reaches `Migrate` and the reaper and nothing else, as in `main.go`; `MigrateFails` is a
statement of `Migrate` that is not sent any more. `BeginShutdown` closes the listener,
`ShutdownReturns` comes when nothing is open or on the timeout (the process is `late` then),
and `Exit` waits for the connections that are out, as `pgxpool.Close` does. `Listen` may
come after `Shutdown` and finds the server closed. `Crash` is every `os.Exit` and every kill.

## Runs

| Run | Shows | Instance |
|---|---|---|
| `refresh_races` | an old body after a save only when the save overtook a run; one merge per `Fresh`; a stored body gives way only to what a run has fetched since; every caller is answered | 2 callers, 1 source, 1 save, deletion, crash, 3 ticks |
| `refresh_ages` | nothing older than twice `MaxStale` is served; giving up only when both tables are out of date; saves and deletions, statement by statement, implement `FeedRefresh`; the tables agree; no circular wait | 1 caller, 2 sources, calendar/failure, 2 savers, 1 deleter, 3 ticks with `Fresh` and `MaxStale` 1 |
| `access_secrets` | served only with a secret valid since the request came in; the handlers implement `FeedAccess`; the quota pays once for each download; a 429 only when the leader's quota is spent; a deleted feed stays deleted; no change without an accepted token | 2 requests, 2 managers, 2 addresses, 2 secrets, forms of up to 3 URLs with 2 allowed, quota 2, no time |
| `access_retention` | only idle feeds are deleted, touches out of order included; idle feeds are deleted in time, lost runs and restarts included | 2 requests, retention 1, 11 ticks, 1 lost run in a row |
| `limiter_window` | the limit holds per window less the wait for the lock; refusals are justified; the map is bounded | 4 calls, 2 keys, bursts of 1 and 2, 5 ticks |
| `fetch` | `OriginFetch` with `OriginDial` implements `FetchPromise`, liveness included; slots are counted right and bounded; only public addresses get a GET; redirects end | 2 calls of up to 3 URLs, source cap 2, 1 slot, 1 name, 1 blocked name, 2 public addresses and a private one, at most 1 redirect |
| `merge` | UIDs apart, zones once and defined, series together; the window keeps what has a date inside it that the code gets to see, drops the rest, and a wider one keeps more | all single events over 13 days and all pairs of calendars of 2 components out of 5, windows of up to 2 months, walk of 3 |
| `migrations_boot` | files take effect in order; who serves has the whole schema; a stop cuts off only late requests, never in a statement; who is told to stop stops | 2 processes, 3 files, 4 boots, 2 requests |

### Bounds

The clock bounds (`MaxTime`) leave room for every period of the run twice over: both
expiry checks of a refresh in a row, two windows of the limiter, a feed that is used,
forgotten and deleted with a lost run in between. Two callers, requests or processes are
what a race needs; two calls of `GetAll` with two URLs each compete for one slot, so that a
leak or a slot too many shows at once. A source cap of 2 with 3 URLs has a URL beyond the
cap. One redirect is the first that is allowed and the one after it is refused. Two secrets
are the original and a rotation that races requests, deletions and another rotation that
finds none left; two rotations that both succeed in a race have too many states for TLC and are
left to `ServedProperly` and `SharedRunsServeTheirSecret`, and so is a loopback BASE_URL without
hostnames, under which nothing is accepted, to `NothingChangesUnverified`. A quota of 2 is spent by one form or one run of two sources or two of one,
and with two addresses a run may be led by a client that is not the one who pays elsewhere.
Two savers and a deleter are every pair of transactions that can meet, and 4 boots let each
of two processes start again after it has died. Months in `MCIcalMerge` last two or
three days, so that one month back from the last day overflows as it does in March. A walk
of 3 checks meets its cap with series of the instance, under one rule and under the last of two;
`Far` is far enough for an endless rule to have passed every bound. What these instances show for
the properties of the next section's table is proved for all values of the constants.

The instances have no bound on how often a caller leaves and asks again except the clock
and the counters named in `CONSTANTS`. Symmetry is declared only in runs without liveness
properties, over callers that are exchangeable. Deadlock is checked in the refresh runs; the
other systems may stop (no call left to make, no secret left to issue, the clock at its
bound).

### Fairness

- `FeedRefresh`: weak fairness of each caller's own steps in a run, since a goroutine that
  can run is scheduled, fetches have timeouts and statements return. Nothing is assumed of
  saves, time, crashes or new callers. `CallersAnswered` needs it.
- `OriginFetch`: weak fairness of `Return` and of each goroutine's `Check`, `acquire` and
  `Respond`: the resolver and the HTTP client have timeouts, and a goroutine that waits on a
  channel with room proceeds. Weak fairness of `acquire` is enough on these instances,
  because every call and its goroutines are finitely many; the semaphore need not be fair.
  None is assumed of `Cancel` or `GiveUp`.
- `OriginDial`: the same for its smaller steps. A goroutine in a slot takes its next step or
  ends (`Moves`), since lookup, dial, TLS and response have timeouts; no trip goes on for ever,
  because redirects are counted.
- `ProcessLife`: weak fairness of what `main` does next, of the reaper's statement and of
  giving back a connection, since the database answers or its connection breaks. None is
  assumed of a request's end: a client may never read. `StopsWhenTold` needs it.
- The other modules have safety properties only. `IdleFeedsReaped` is an invariant over the
  clock, under the bound `MaxDelay` stated as a guard of `Tick`.

## What the runs found

Each of these runs checks a sentence of the repository and finds it violated.

| Run | Sentence | What happens |
|---|---|---|
| `refresh_old_events` | README.md:17, last-good for up to 24 hours | a source body 24 hours old is merged again and that merge is served 24 hours more |
| `refresh_stale_save` | store.go:181, a save clears the cache | a run in flight writes the old settings' body over the cleared column |
| `refresh_bad_source` | faq.html:18, the remaining calendars are combined | one source that answers 200 with no calendar fails the merge, and its last good body is gone (`BodiesOnlyAdvance` allows it: any 200 answer replaces the stored body) |
| `migrations_twice` | README.md:39, safe to run twice | a crash between executing and recording `002`, or a SIGTERM, which cancels the context of `Migrate`, makes every later start fail |

Modelling the code showed more that no run is for:

- `limit.go:52` reads the clock before the lock, so a call that waits may be one too many
  for a window that ends while it waits. `BoundedPerWindow` states the limit that does hold.
- `server.go:180`: a request whose refresh fails does not count as a use, so a feed that is
  fetched all the time while its origins fail for 14 days is deleted. `ReapedOnlyIdle` means
  a use that was served.
- `merge.go:16`: a save replaces the source rows and with them the ids that prefix the UIDs,
  so after any save every event is a new one for its subscribers.
- `refresh.go:58`: a leader whose client goes away, or whose quota is spent, fails every
  request that waits for its run. `LimitedOnlyWhenSpent` says what such a 429 does mean.
- `html.go:466`: `isCatiCalURL` looks at the URL of a form, not where it redirects. A run that
  ends up fetching its own feed waits for itself until the fetch times out; the fairness of
  `Fetch` stands for that timeout.
- `window.go:151`: `set.RRule` keeps one rule, so of several RRULEs only the last is walked,
  and a series whose occurrences in the window are those of an earlier RRULE is dropped. At
  `window.go:155`, a series of RDATEs alone is dropped when only its DTSTART is in the
  window. faq.html:16 promises to keep a series for any occurrence. Both happen in the
  instance of `merge`; `KeepsWhatIsInside` promises only the dates that are seen, and
  `OrdinaryEventsAreKept` proves the whole promise for events with one RRULE or none.
- faq.html:10 says that bodies are stored for up to 24 hours; no statement clears them.
- faq.html:12 says 15 days where the code and the README say 14.
- `AddDate` makes the past bound move backwards at the end of a month (one month before
  31 March is 3 March, one month before 1 April is 1 March).

## Proofs

Theorems hold for every number of callers, sources, requests, processes and so on, under
the `ASSUME` of the module, and for an unbounded clock. In each case an inductive invariant
is proved action by action and the theorem follows from it. Three theorems need one thing
more, stated in them: `IdleKeysForgotten` that no call waits a whole window for the lock
(`MaxDelay < Window`), and `IdleOnesGo` and `IdleFeedsGo` that no statement takes longer than
a period of the reaper (`MaxDelay <= Every`). Both hold by far in a process that works at all.
`RunsFetchWithGetAll` takes it that an origin may answer and may fail.

| Module | Theorem | States | Along which invariant |
|---|---|---|---|
| `FeedRefreshProofs` | `Typed` | `TypeOK` | `TypeOK` is inductive by itself |
| | `AgeBound` | `ServedWithinTwiceMaxStale` | `AgesInv`: every merged body in a row, a run or an answer has parts at most `MaxStale` older than itself |
| | `SavesTakeEffect` | `StaleOnlyAfterOverlap` | `SettingsInv`: what a run holds belongs to saved settings, or a save overtook it |
| | `OneMergePerWindow` | `MergeSpacing` | `SpacingInv`: one run at a time, the table's merge is the one it read or none, and its decision rests on that age |
| | `StoredBodyKept` | `BodiesOnlyAdvance` | `SourcesInv`: the rows a run has still to write are the table's or were fetched at the run's clock |
| | `GivesUpSoundly` | `GivesUpOnlyWhenExpired` | `SourcesInv`: the rows a run has written are what the table holds, and at publication none is left |
| | `NoSourceTooMany` | a run has no more sources than the fetcher's cap | `SizeInv`: nor has the table, nor what a run has still to write |
| | `RunsFetchWithGetAll` | `Fetch` and `FetchLimited` take exactly what `FetchResults` allows | `SizeInv`: with no row beyond the cap, each row has a body, an error or the refusal of all |
| | `NobodyWaitsAlone` | who waits has a run to wait for | by itself, with `TypeOK`: a run that ends answers all who wait |
| | `RunsComeToAnEnd` | every step of a run is one of finitely many, or ends it | `SizeInv`; the measure is the place in `refreshOnce`, then the rows to write |
| `StoreTransactionsProofs` | `SavesAreAtomic` | `AtomicSaves` | who has the feed row is alone between its first statement and its commit, so what it deletes is all there is |
| | `NeverDeadlocked` | `NoCircularWait` | only who has the feed row ever holds source rows |
| | `WaitsEndAtOnce` | who is waited for does not wait, so no circle of any length | the same |
| | `StatementsKeepIt` | what is proved of `FeedRefresh`, from `TxSpec` | by `SavesAreAtomic` |
| | `TablesStayTogether` | `TablesAgree` | source rows are of the feed row's generation, and only the holder of that row changes either |
| `IPLimiterProofs` | `LimiterTyped` | `TypeOK` | `LimiterInv` |
| | `LimitHolds` | `BoundedPerWindow` | what was pruned lies a window back from some later stamp, and stamps lag by at most `MaxDelay` |
| | `RefusalsJustified` | `RefusedOnlyWhenFull` | the same |
| | `IdleKeysForgotten` | `ForgetsIdleKeys` | the last sweep is less than a window back, and what it left was in its window |
| `FeedAccessProofs` | `AccessTyped` | `TypeOK` | `AccessInv` |
| | `ServedProperly` | `ServedWithItsSecret` | the row's secret is in `valid` of every request under way |
| | `ReapsOnlyIdle` | `ReapedOnlyIdle` | the row's touch lags the last use by at most `MaxDelay` |
| | `IdleOnesGo` | `IdleFeedsReaped` | `ReapInv`: at each place of the loop, how old the row can be after the runs that were lost |
| `HandlersProofs` | `HandlersAreFeedAccess` | `AsFeedAccess` | every action is one of `FeedAccess` or leaves its variables alone |
| | `SharedRunsServeTheirSecret` | `ServedWithItsSecret` | by that refinement from `ServedProperly` |
| | `DeletedIsGone` | `GoneForGood` | no source row without a feed, and nothing creates once `create` is done |
| | `NothingChangesUnverified` | `ChangesVerified` | a form past `posted` has its proof |
| | `HandlersTyped` | `HTypeOK` | with the number of rows a run has read and a form will write |
| | `QuotaPaid` | `QuotaPaysForGets` | `QuotaInv`: only a form about to fetch has paid and from one address, so a fetch takes from what is owed what it adds to what is got |
| | `LimitedWhenSpent` | `LimitedOnlyWhenSpent` | the same |
| | `OnlyIdleFeedsGo`, `IdleFeedsGo` | `ReapedOnlyIdle`, `IdleFeedsReaped` from `HSpec` | by the refinement |
| `OriginFetchProofs` | `FetchTyped` | `TypeOK` | `FetchInv` |
| | `PoolBounded` | `FetchesBounded` | the counter is the cardinality of the fetching goroutines |
| | `PromiseKept` | initial states and steps of `FetchPromise` | results are written exactly for what is done, and the quota refuses all or nothing |
| | `GetsStayPublic` | `StaysPublic` | `DialInv`: only public addresses are ever left to try |
| | `TripsEnd` | `RedirectsEnd` | `DialInv` |
| | `TripsKeepPromise` | initial states and steps of `FetchPromise` from `DSpec` | `FetchInv`, which every step of `OriginDial` keeps as a step of `OriginFetch` |
| | `TripsComeToAnEnd` | every step of a goroutine is one of finitely many | `DialInv`; the measure is the redirects left, the place in `getOne`, the addresses left to try |
| `MigrationsProofs` | `MigrationsTyped` | `TypeOK` | `IInv` |
| | `SchemaGrowsInOrder` | `RecordedInOrder` | whoever is at a file has seen all before it recorded |
| | `ServesItsSchema` | `ServesCurrentSchema` | the same |
| | `LifeMigrates` | `Migrations` from `LSpec` | every step of `ProcessLife` is a step of `Migrations` or leaves it alone |
| | `LifeGrowsInOrder`, `LifeServesItsSchema` | the same two from `LSpec` | by `LifeMigrates` |
| | `StopsInOrder` | `CutOnlyWhenLate` | `LifeInv`: who listens is serving, and who closes in time has nothing open |
| | `ClosingGoesOn` | while the store closes, the connections that are out only get fewer | `UpInv` and `OneAnswers`: `main` is past `Migrate` only in a process that is up, and a request has one process |
| `IcalMergeProofs` | `UidsStayApart` | `UidsApart` | `MergeInv`: everything in the mix is the copy of a component of its source |
| | `ZonesAreDefinedOnce`, `ZonesAreDefined` | `ZonesOnce`, `ZonesDefined` | `MergeInv`: `seenTZ` has exactly the zones the mix defines |
| | `SeriesStayTogether` | `SeriesTogether` | `MergeInv`: where the loops have been, everything that is kept is in the mix |
| | `WhatIsInsideIsKept` | `KeepsWhatIsInside` | the same, and that `seriesHits` finds any date inside or uses up its checks before it |
| | `OrdinaryEventsAreKept` | an event with one RRULE that gives a date, or none and no RDATE, is in the mix for any of its dates in the window | `SeenDates` are all its `Dates` |
| | `WhatIsOutsideIsDropped` | `DropsWhatIsOutside` | the same, and that the checked dates come first |
| | `WiderWindowKeepsMore` | `WiderKeepsMore` | every bound of the wider window is looser or absent |
| | `ComesInOrder` | the mix is in the order of the sources and calendars, nothing twice | `PassedInv`: the loops are past everything in the mix |

The proofs about the window count dates: `AllChecksUsed` (a walk over enough dates checks
`MaxChecks` of them) and `BeyondTheWalk` (an endless rule has no date that matters beyond
`Walked`) both take the least element of a set of numbers, and get it from the library's
well-founded order on finite sets in place of an induction.

Only model-checked are the three liveness properties: `CallersAnswered`, `StopsWhenTold` and
`KeepsPromise` as far as it says that a call is answered. Their safety half is proved: nobody
waits without a run and runs come to an end (`NobodyWaitsAlone`, `RunsComeToAnEnd`), every
trip does (`TripsComeToAnEnd`, besides the refinement itself), and closing has ever less to
wait for (`ClosingGoesOn`). What is missing is that the next step is enabled and that
fairness takes it, which the prover cannot do. The deadlock checks of the refresh runs are
TLC's too. `TypeOK` of `Migrations` is proved and not run; `ProcessLife` has no type
invariant of its own among the runs.

## Not modelled

- The ranges of addresses `publicIP` lists, the text of a URL, `PermitHost` (tests only).
- Parsing and printing of iCalendar, dates, zones and durations; summaries and their prefix.
- Cryptography of the secrets: a secret matches what it was generated with, nothing else.
- HTML, headers, logging, version, health, robots: constant answers or wording, no state.
- The windows of the origin quota in `Handlers`: one window; `IPLimiter` has the windows. The
  other four limiters refuse a request and share nothing.
- In `ProcessLife`, what a request does with its connections (the other modules have that),
  and a second signal, which nothing receives.
- `CreateFeed` statement by statement: nobody knows its row before it commits.
- A statement that takes effect after its caller has given up, in `FeedRefresh`.
- Several serving processes at once. Singleflight, limiters and semaphore are per process;
  the repository deploys one. `Migrations` and `ProcessLife` have two, for the overlap of a
  deployment.
- `Truncate` and `CountSources`, which only tests call.

## Plan

1. Done: `CachePolicy`, `FeedRefresh`; `IPLimiter`, `FeedAccess`, `OriginFetch` with
   `FetchPromise`, `Migrations`; `EventWindow`, `IcalMerge`; and on top of them
   `StoreTransactions`, `Handlers`, `OriginDial`, `ProcessLife`, with the proofs of every
   safety property the runs check.
2. Left in the model: which dates, durations and zones of a property are readable
   (`window.go`), summaries and their prefix.
3. Left in the proofs: nothing that the runs check and the prover can do.
