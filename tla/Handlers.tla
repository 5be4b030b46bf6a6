------------------------------ MODULE Handlers -------------------------------
(***************************************************************************)
(* The handlers of internal/http with what they ask of others: Turnstile,  *)
(* the quota of origin fetches, the fetcher and the shared refresh.        *)
(*                                                                         *)
(* FeedAccess takes a form as one answer that leaves the row alone and a   *)
(* refresh as whatever it may answer.  Here a POST goes through its checks *)
(* one after another (Turnstile, the fields, each URL, the quota, the      *)
(* download of every source) before it changes anything, and ICS requests  *)
(* for the feed share one run of the refresh, which reads the sources and  *)
(* pays for them from the quota of the client that leads it.  The same     *)
(* quota, one counter for each peer address, pays for forms: parseForm-    *)
(* Sources charges it itself and fetches with a context that carries none. *)
(*                                                                         *)
(* The other four limiters share nothing between handlers: a refusal of    *)
(* theirs is Refused, or a POST that never comes.  One window of the quota *)
(* is looked at (IPLimiter has the windows), and a process that restarts   *)
(* begins with an empty one.  A source is one of a number of rows; that    *)
(* number is all the quota sees of them.                                   *)
(***************************************************************************)
EXTENDS FeedAccess, FiniteSets

CONSTANTS
    Addresses,          \* peer addresses
    MaxSources,         \* fetch.MaxSources
    MaxFields,          \* most URLs a form comes with
    OriginLimit,        \* Config.OriginLimit
    TurnstileRequired,  \* whether TURNSTILE_SECRET is set
    Hostnames,          \* the hosts in TURNSTILE_HOSTNAMES
    BaseHost            \* the host of BASE_URL; "loopback" for localhost

Posts == Managers \union {"create"}

ASSUME HandlersAssumption ==
    /\ MaxSources \in Nat \ {0}
    /\ MaxFields \in Nat
    /\ OriginLimit \in Nat
    /\ TurnstileRequired \in BOOLEAN
    /\ IsFiniteSet(Managers)
    /\ "create" \notin Managers \union Requests
    /\ Requests \intersect Managers = {}

VARIABLES
    form,   \* how far each POST is, what siteverify said, how many URLs, and
            \* whose quota has paid for the download that is to come
    ask,    \* what each ICS request has of the refresh
    flight, \* the run of the refresh and its leader's address, {} when none
    rows,   \* how many rows the feed has in table sources
    hits,   \* the hits of originLim, for each address
    gets    \* history: the GETs made on behalf of each address

added == <<form, ask, flight, rows, hits, gets>>
hvars == <<vars, added>>

NoForm == [pc |-> "idle", proof |-> {}, n |-> 0, paid |-> {}]

HInit ==
    /\ Init
    /\ form = [p \in Posts |-> NoForm]
    /\ ask = [r \in Requests |-> "none"]
    /\ flight = {}
    /\ rows = 0
    /\ hits = [a \in Addresses |-> 0]
    /\ gets = [a \in Addresses |-> 0]

-----------------------------------------------------------------------------
(* Turnstile. *)

Surface(p) == IF p = "create" THEN "create" ELSE "manage"

\* expectedHostnames: the list, or the host of BASE_URL unless loopback.
Hosts == IF Hostnames # {} THEN Hostnames ELSE {BaseHost} \ {"loopback"}

\* What siteverify may answer.
Verdicts == [success : BOOLEAN, action : {"create", "manage", "other"},
             host : Hostnames \union {BaseHost, "elsewhere"}]

\* Mutant: a token of the other surface will do.
AcceptsAnyAction(verdict, surface) == verdict.success /\ verdict.host \in Hosts

\* siteverifyClient.Verify; without any host to expect it accepts nothing.
Accepts(verdict, surface) ==
    verdict.success /\ verdict.action = surface /\ verdict.host \in Hosts

-----------------------------------------------------------------------------
(* The quota. *)

Room(a, n) == hits[a] + n <= OriginLimit

Count(counter, a, n) == [counter EXCEPT ![a] = @ + n]

\* Mutant: the context of a form carries the quota as well.
FormQuotaTwice(a) == {a}

\* The quota GetAll finds in the context of a form: none, it is paid already.
FormQuota(a) == {}

\* Mutant: the run fetches with a context of its own.
RunQuotaNone(a) == {}

\* The quota serveICS puts into the context of the request that leads.
RunQuota(a) == {a}

\* GetAll of n URLs for a client at address a, when its quota has room.
GetAll(a, n, quota) ==
    /\ gets' = Count(gets, a, n)
    /\ hits' = IF quota = {} THEN hits ELSE Count(hits, a, n)

-----------------------------------------------------------------------------
(* A POST.  Whatever it is, its row actions are those of FeedAccess. *)

At(p, pc) == form[p].pc = pc
Goes(p, pc) == form' = [form EXCEPT ![p].pc = pc]
Ends(p) == form' = [form EXCEPT ![p] = NoForm]

\* serveCreate begins.
PostCreate ==
    /\ create.pc = "idle" /\ At("create", "idle")
    /\ Goes("create", "posted")
    /\ UNCHANGED <<vars, ask, flight, rows, hits, gets>>

\* serveManagePOST begins.
PostManage(m) ==
    /\ LoadManaged(m)
    /\ Goes(m, "posted")
    /\ UNCHANGED <<ask, flight, rows, hits, gets>>

\* checkTurnstile
Turnstile(p) ==
    /\ At(p, "posted")
    /\ IF TurnstileRequired
       THEN \E verdict \in Verdicts :
              /\ Accepts(verdict, Surface(p))
              /\ form' = [form EXCEPT ![p].pc = "verified", ![p].proof = {verdict}]
       ELSE Goes(p, "verified")
    /\ UNCHANGED <<vars, ask, flight, rows, hits, gets>>

\* Mutant: a form without any URL passes.
FitsEmpty(n) == n <= MaxSources

\* How many URLs a form may have.
Fits(n) == n \in 1..MaxSources

\* The fields of a creation or a save, validateHTTPSSource for each URL, and
\* originLim.allowN for all of them.
PayForm(p) ==
    /\ At(p, "verified")
    /\ p \in Managers => manage[p].pc = "loaded"
    /\ \E a \in Addresses, n \in 0..MaxFields :
        /\ Fits(n)
        /\ Room(a, n)
        /\ hits' = Count(hits, a, n)
        /\ form' = [form EXCEPT ![p].pc = "paid", ![p].n = n, ![p].paid = {a}]
    /\ UNCHANGED <<vars, ask, flight, rows, gets>>

\* GetAll and icalmerge.Parse: every source is there and parses ...
FetchForm(p) ==
    /\ At(p, "paid")
    /\ \E a \in form[p].paid : GetAll(a, form[p].n, FormQuota(a))
    /\ form' = [form EXCEPT ![p].pc = "fetched", ![p].paid = {}]
    /\ UNCHANGED <<vars, ask, flight, rows>>

\* ... or the form is rejected.
FetchFails(p) ==
    /\ At(p, "paid")
    /\ \E a \in form[p].paid : GetAll(a, form[p].n, FormQuota(a))
    /\ Ends(p)
    /\ IF p \in Managers THEN ManageEnds(p) ELSE UNCHANGED vars
    /\ UNCHANGED <<ask, flight, rows>>

\* Turnstile, a field, a URL or the quota refuses, the action is unknown, or
\* a statement fails.  Nothing can between allowN and GetAll.
RejectCreate ==
    /\ ~At("create", "idle") /\ ~At("create", "paid") /\ create.pc = "idle"
    /\ Ends("create")
    /\ UNCHANGED <<vars, ask, flight, rows, hits, gets>>

RejectManage(m) ==
    /\ ~At(m, "idle") /\ ~At(m, "paid")
    /\ ManageEnds(m)
    /\ Ends(m)
    /\ UNCHANGED <<ask, flight, rows, hits, gets>>

StampForm ==
    /\ At("create", "fetched")
    /\ CreateStamp
    /\ UNCHANGED added

CreateForm ==
    /\ CreateFeed
    /\ rows' = form["create"].n
    /\ Ends("create")
    /\ UNCHANGED <<ask, flight, hits, gets>>

CreateFormFails ==
    /\ CreateFails
    /\ Ends("create")
    /\ UNCHANGED <<ask, flight, rows, hits, gets>>

\* Mutant: UpdateFeed does not look whether there is a row.
SaveAnyway(m) ==
    /\ At(m, "fetched")
    /\ ManageEnds(m)
    /\ rows' = form[m].n
    /\ Ends(m)
    /\ UNCHANGED <<ask, flight, hits, gets>>

\* UpdateFeed commits.
Save(m) ==
    /\ At(m, "fetched")
    /\ feed # {}
    /\ ManageEnds(m)
    /\ rows' = form[m].n
    /\ Ends(m)
    /\ UNCHANGED <<ask, flight, hits, gets>>

GenerateForm(m) ==
    /\ At(m, "verified")
    /\ Generate(m)
    /\ UNCHANGED added

\* Mutant: a row that is gone is inserted again.
RotateUpserts(m) ==
    /\ manage[m].pc = "rotate"
    /\ feed' = {[secret |-> manage[m].secret, touched |-> 0]}
    /\ manage' = [manage EXCEPT ![m] = [pc |-> "idle", secret |-> 0]]
    /\ Ends(m)
    /\ UNCHANGED <<now, create, issued, shown, ics, reaper, history,
                   ask, flight, rows, hits, gets>>

Rotate(m) ==
    /\ RotateFeedToken(m)
    /\ Ends(m)
    /\ UNCHANGED <<ask, flight, rows, hits, gets>>

Delete(m) ==
    /\ At(m, "verified")
    /\ DeleteFeed(m)
    /\ rows' = 0
    /\ Ends(m)
    /\ UNCHANGED <<ask, flight, hits, gets>>

-----------------------------------------------------------------------------
(* An ICS request.  The steps before and after the refresh are those of    *)
(* FeedAccess.                                                             *)

Shares(r) == ask[r] = "shares"

\* Service.Refresh: lead a run, or wait for the one in flight.
AskRefresh(r) ==
    /\ ics[r].pc = "refresh" /\ ask[r] = "none"
    /\ ask' = [ask EXCEPT ![r] = "shares"]
    /\ IF flight = {}
       THEN \E a \in Addresses : flight' = {[pc |-> "load", n |-> 0, ip |-> a]}
       ELSE UNCHANGED flight
    /\ UNCHANGED <<vars, form, rows, hits, gets>>

\* The run ends, and everybody who shares it has its result.
RunEnds(result) ==
    /\ flight' = {}
    /\ ask' = [r \in Requests |-> IF Shares(r) THEN result ELSE ask[r]]

\* GetFeed of the run.
RunLoads(f) ==
    /\ f.pc = "load"
    /\ flight' = {[f EXCEPT !.pc = "decide", !.n = rows]}
    /\ UNCHANGED <<vars, form, ask, rows, hits, gets>>

\* The merged body is fresh.
RunFresh(f) ==
    /\ f.pc = "decide"
    /\ RunEnds("body")
    /\ UNCHANGED <<vars, form, rows, hits, gets>>

\* GetAll takes the burst from the quota of the client that leads ...
RunFetches(f) ==
    /\ f.pc = "decide"
    /\ \A a \in RunQuota(f.ip) : Room(a, f.n)
    /\ GetAll(f.ip, f.n, RunQuota(f.ip))
    /\ flight' = {[f EXCEPT !.pc = "fetched"]}
    /\ UNCHANGED <<vars, form, ask, rows>>

\* ... or refuses it: ErrRateLimited for all who share the run.
RunLimited(f) ==
    /\ f.pc = "decide"
    /\ f.n > 0
    /\ \E a \in RunQuota(f.ip) : ~Room(a, f.n)
    /\ RunEnds("limited")
    /\ UNCHANGED <<vars, form, rows, hits, gets>>

\* What was fetched is merged, the old merge is served, or there is none.
RunMerges(f) ==
    /\ f.pc = "fetched"
    /\ RunEnds("body") \/ RunEnds("error")
    /\ UNCHANGED <<vars, form, rows, hits, gets>>

\* No feed any more, a statement fails, or the client that leads is gone.
RunBreaks(f) ==
    /\ RunEnds("error")
    /\ UNCHANGED <<vars, form, rows, hits, gets>>

\* The handler takes its result away.
TakeResult(r) ==
    /\ \/ ask[r] = "body" /\ RefreshReturns(r)
       \/ ask[r] = "error" /\ RefreshFails(r)
       \/ ask[r] = "limited" /\ ics[r].pc = "refresh" /\ Refused(r)
    /\ ask' = [ask EXCEPT ![r] = "none"]
    /\ UNCHANGED <<form, flight, rows, hits, gets>>

\* A limiter of the handler or the database refuses, before the refresh.
RefuseICS(r) == ask[r] = "none" /\ Refused(r) /\ UNCHANGED added

OutsideRefresh(r) ==
    /\ \/ Begin(r) \/ Lookup(r) \/ NotFound(r)
       \/ Serve(r) \/ TouchFails(r) \/ Leave(r)
    /\ UNCHANGED added

-----------------------------------------------------------------------------
(* The others. *)

Reap ==
    /\ DeleteStaleFeeds
    /\ rows' = IF feed' = {} THEN 0 ELSE rows
    /\ UNCHANGED <<form, ask, flight, hits, gets>>

ProcessRestarts ==
    /\ Restart
    /\ form' = [p \in Posts |-> NoForm]
    /\ ask' = [r \in Requests |-> "none"]
    /\ flight' = {}
    /\ hits' = [a \in Addresses |-> 0]
    /\ gets' = [a \in Addresses |-> 0]
    /\ UNCHANGED <<rows>>

FormStep(p) == Turnstile(p) \/ PayForm(p) \/ FetchForm(p) \/ FetchFails(p)

CreateStep ==
    PostCreate \/ RejectCreate \/ StampForm \/ CreateForm \/ CreateFormFails

ManagePostStep(m) ==
    \/ PostManage(m) \/ RejectManage(m) \/ Save(m)
    \/ GenerateForm(m) \/ Rotate(m) \/ Delete(m)

RunStep(f) ==
    \/ RunLoads(f) \/ RunFresh(f) \/ RunFetches(f)
    \/ RunLimited(f) \/ RunMerges(f) \/ RunBreaks(f)

HNext ==
    \/ \E p \in Posts : FormStep(p)
    \/ CreateStep
    \/ \E m \in Managers : ManagePostStep(m)
    \/ \E r \in Requests :
        AskRefresh(r) \/ TakeResult(r) \/ RefuseICS(r) \/ OutsideRefresh(r)
    \/ \E f \in flight : RunStep(f)
    \/ Reap \/ ProcessRestarts
    \/ (RunOnce \/ RunFails \/ Tick) /\ UNCHANGED added

HSpec == HInit /\ [][HNext]_hvars

-----------------------------------------------------------------------------
(* Properties. *)

(* Every variable has its type; a feed has as many sources as a form may   *)
(* have, and none are left of a feed that is gone.                         *)
HTypeOK ==
    /\ form \in [Posts -> [pc : {"idle", "posted", "verified", "paid", "fetched"},
                           proof : SUBSET Verdicts, n : 0..MaxSources,
                           paid : SUBSET Addresses]]
    /\ ask \in [Requests -> {"none", "shares", "body", "limited", "error"}]
    /\ flight \in SUBSET [pc : {"load", "decide", "fetched"}, n : 0..MaxSources,
                          ip : Addresses]
    /\ hits \in [Addresses -> Nat]
    /\ gets \in [Addresses -> Nat]
    /\ IF feed = {} THEN rows = 0 ELSE rows \in 1..MaxSources

(* With all their checks, the handlers change the feed as FeedAccess says: *)
(* what is proved of it holds of them.                                     *)
AsFeedAccess == Spec

(* The quota of an address is charged once for every GET made on its       *)
(* behalf, whichever of the three ways leads to one, and never for a GET   *)
(* that is not made: what it has paid more are the GETs to come, one for   *)
(* each URL of a form about to fetch.                                      *)
Owed(a) == {x \in Posts \X (1..MaxSources) :
               a \in form[x[1]].paid /\ x[2] <= form[x[1]].n}
Spent(a) == gets[a] + Cardinality(Owed(a))

QuotaPaysForGets ==
    \A a \in Addresses : hits[a] = Spent(a) /\ hits[a] <= OriginLimit

(* A request is told that there are too many only when the client that     *)
(* leads its run has spent its quota on downloads, down to less than the   *)
(* feed needs: waiting for a run, refused bursts and refused forms cost    *)
(* nobody anything.                                                        *)
LimitedOnlyWhenSpent ==
    [][\A r \in Requests :
         ask'[r] = "limited" /\ ask[r] # "limited" =>
             \E f \in flight : Spent(f.ip) + f.n > OriginLimit]_hvars

(* Once the feed is deleted nothing brings it or its sources back: not the *)
(* touch, the save or the rotation of a request that saw it before.        *)
GoneForGood ==
    [][create.pc = "done" /\ feed = {} => feed' = {} /\ rows' = 0]_hvars

(* The feed changes by a POST only when siteverify has accepted that very  *)
(* request for that surface, unless Turnstile is off; with no host to      *)
(* expect, nothing is accepted.                                            *)
Verified(p) ==
    TurnstileRequired =>
        \E v \in form[p].proof :
            v.success /\ v.action = Surface(p) /\ v.host \in Hosts

ChangesVerified ==
    [][/\ CreateForm => Verified("create")
       /\ \A m \in Managers : Save(m) \/ Rotate(m) \/ Delete(m) => Verified(m)]_hvars
=============================================================================
