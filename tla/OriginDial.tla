----------------------------- MODULE OriginDial ------------------------------
(***************************************************************************)
(* What a goroutine of OriginFetch does with its URL: validateURL, the     *)
(* dialer and the redirects of internal/fetch.                             *)
(*                                                                         *)
(* A host name is looked up once when its URL is validated and again when  *)
(* the connection is made, and the resolver need not answer the same; a    *)
(* redirect names another URL, which is validated and dialed like the      *)
(* first.  The dialer tries the public addresses of its own answer in turn *)
(* until one connects.  All of this happens in the slot the goroutine      *)
(* holds, but for the first validation.                                    *)
(*                                                                         *)
(* An address is public or not, by publicIP; a host is an address, a name  *)
(* or a blocked name.  PermitHost is for tests alone ("Production callers  *)
(* must not use this") and is left out.  A resolver that fails answers     *)
(* nothing.                                                                *)
(***************************************************************************)
EXTENDS OriginFetch

CONSTANTS
    Names,          \* host names that need a lookup
    Blocked,        \* the names of blockedHost
    Public,         \* addresses publicIP accepts
    Private,        \* the other addresses
    Literals,       \* the addresses that URLs name themselves
    MaxRedirects    \* maxRedirects

ASSUME DialAssumption ==
    /\ MaxRedirects \in Nat \ {0}
    /\ Public \intersect Private = {}
    /\ Literals \subseteq Public \union Private
    /\ (Names \union Blocked) \intersect (Public \union Private) = {}
    /\ "none" \notin Blocked
    /\ IsFiniteSet(Public)

VARIABLE trip   \* where each goroutine's URL has led it

dvars == <<vars, trip>>

Addresses == Public \union Private

\* Where a URL may point.
Targets == [scheme : {"https", "http"}, port : {"", "443", "other"},
            host : Names \union Blocked \union Literals]

\* A host is yet to be resolved, its addresses are tried, or one of them is
\* connected; hop counts the redirects.
NoTrip == [at |-> "none", host |-> "none", tries |-> {}, hop |-> 0]

Resolving(host, hop) == [at |-> "resolve", host |-> host, tries |-> {}, hop |-> hop]

DInit ==
    /\ Init
    /\ trip = [c \in Calls |-> [i \in Urls |-> NoTrip]]

-----------------------------------------------------------------------------
\* validateURL of u, when the resolver answers so.
validateURL(u, answer) ==
    /\ u.host \notin Blocked
    /\ u.scheme = "https"
    /\ u.port \in {"", "443"}
    /\ IF u.host \in Addresses
       THEN u.host \in Public
       ELSE answer # {} /\ answer \subseteq Public

\* The hosts of the URLs that pass, with the right answer.
Validated ==
    {u.host : u \in {t \in Targets :
                        \E answer \in SUBSET Addresses : validateURL(t, answer)}}

\* Mutant: what validateURL has seen is not looked at again.
resolveAnything(host, answer) == IF host \in Addresses THEN {host} ELSE answer

\* resolvePublic: what is left of the second answer.
resolvePublic(host, answer) ==
    (IF host \in Addresses THEN {host} ELSE answer) \intersect Public

\* What that may be, when there is anything left.
Resolutions(host) ==
    {resolvePublic(host, answer) : answer \in SUBSET Addresses} \ {{}}

Travels(c, i, at) == worker[c][i] = "fetching" /\ trip[c][i].at = at

\* The URL is validated, or its goroutine returns the error.
CheckUrl(c, i) ==
    /\ Check(c, i)
    /\ IF worker'[c][i] = "acquiring"
       THEN \E host \in Validated : trip' = [trip EXCEPT ![c][i] = Resolving(host, 0)]
       ELSE UNCHANGED trip

Acquire(c, i) == acquire(c, i) /\ UNCHANGED trip

LeaveQueue(c, i) ==
    /\ GiveUp(c, i)
    /\ trip' = [trip EXCEPT ![c][i] = NoTrip]

\* dialContext asks the resolver again.
Resolve(c, i) ==
    /\ Travels(c, i, "resolve")
    /\ \E ips \in Resolutions(trip[c][i].host) :
         trip' = [trip EXCEPT ![c][i].at = "connect", ![c][i].tries = ips]
    /\ UNCHANGED vars

\* One of the addresses is tried: it connects, or the next one is tried.
Connect(c, i) ==
    /\ Travels(c, i, "connect")
    /\ \E ip \in trip[c][i].tries :
        \/ trip' = [trip EXCEPT ![c][i].at = "connected", ![c][i].tries = {ip}]
        \/ /\ trip[c][i].tries # {ip}
           /\ trip' = [trip EXCEPT ![c][i].tries = @ \ {ip}]
    /\ UNCHANGED vars

\* Mutant: the request that was redirected is not counted.
MoreAllowedOneOn(hop) == hop < MaxRedirects

\* CheckRedirect: via holds the first request and one for each redirect.
MoreAllowed(hop) == hop + 1 < MaxRedirects

\* The origin redirects, and the new URL is validated.
Redirect(c, i) ==
    /\ Travels(c, i, "connected")
    /\ MoreAllowed(trip[c][i].hop)
    /\ \E host \in Validated :
         trip' = [trip EXCEPT ![c][i] = Resolving(host, @.hop + 1)]
    /\ UNCHANGED vars

\* The body arrives, whole and within MaxBody, with a status of 200 to 299;
\* or one of these fails, nothing is resolved or connects, the redirect is
\* refused, the client's timeout or the context ends the trip.
Arrive(c, i) ==
    /\ Respond(c, i)
    /\ out'[c][i] = "body" => Travels(c, i, "connected")
    /\ trip' = [trip EXCEPT ![c][i] = NoTrip]

TripStep(c, i) ==
    \/ CheckUrl(c, i) \/ Acquire(c, i) \/ LeaveQueue(c, i)
    \/ Resolve(c, i) \/ Connect(c, i) \/ Redirect(c, i) \/ Arrive(c, i)

DNext ==
    \E c \in Calls :
        \/ /\ \/ \E n \in 0..MaxUrls : StartAll(c, n) \/ StartLimited(c, n)
              \/ Return(c) \/ Cancel(c)
           /\ UNCHANGED trip
        \/ \E i \in Urls : TripStep(c, i)

\* A step of a fetch that is not held up: by its timeout at the latest.
Moves(c, i) == Resolve(c, i) \/ Connect(c, i) \/ Redirect(c, i) \/ Arrive(c, i)

(* The fairness of OriginFetch, for the smaller steps: the resolver, the   *)
(* dialer and the client have timeouts, so a fetch makes its next step or  *)
(* fails.                                                                  *)
DSpec ==
    /\ DInit
    /\ [][DNext]_dvars
    /\ \A c \in Calls :
        /\ WF_dvars(Return(c) /\ UNCHANGED trip)
        /\ \A i \in Urls :
            /\ WF_dvars(CheckUrl(c, i))
            /\ WF_dvars(Acquire(c, i))
            /\ WF_dvars(Moves(c, i))

-----------------------------------------------------------------------------
(* Properties. *)

(* Whatever the resolver answers at the second lookup and wherever the     *)
(* origins redirect to, a GET is sent only to a public address, and never  *)
(* for a blocked name.                                                     *)
StaysPublic ==
    \A c \in Calls, i \in Urls :
        /\ trip[c][i].host \notin Blocked
        /\ trip[c][i].at = "connected" => trip[c][i].tries \subseteq Public

(* A URL the quota has paid for once costs its origins no more than        *)
(* MaxRedirects GETs, and all of them in one slot: whoever waits for it    *)
(* has just begun, and whoever is done has nothing open.                   *)
RedirectsEnd ==
    \A c \in Calls, i \in Urls :
        LET travel == trip[c][i] IN
        CASE worker[c][i] = "fetching" ->
                travel.at # "none" /\ travel.hop < MaxRedirects
          [] worker[c][i] = "acquiring" ->
                travel.at = "resolve" /\ travel.hop = 0
          [] OTHER -> travel = NoTrip
=============================================================================
