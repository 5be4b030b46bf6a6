----------------------------- MODULE CachePolicy -----------------------------
(***************************************************************************)
(* The freshness policy of internal/cachepolicy.                           *)
(*                                                                         *)
(* A cached body is either absent or a record with a field "at", the time  *)
(* it was fetched or merged.  It is written as a set with at most one      *)
(* element, so that the Go pair (hasBody, mergedAt) is a single value and  *)
(* an absent body has no time at all.  Time is counted in abstract units;  *)
(* the code's values are Fresh = 5 minutes and MaxStale = 24 hours.        *)
(***************************************************************************)
EXTENDS Integers

CONSTANTS
    Fresh,      \* a body younger than this is served without fetching
    MaxStale    \* the oldest a body may be and still be used after an error

ASSUME PolicyAssumption ==
    /\ Fresh \in Nat \ {0}
    /\ MaxStale \in Nat
    /\ Fresh <= MaxStale

Age(body, n) == n - body.at

\* What to do with a cached body at time n.  Exactly Fresh is stale, exactly
\* MaxStale may still be served.
Decide(cached, n) ==
    IF \E body \in cached : Age(body, n) < Fresh
    THEN "ServeCache"
    ELSE IF \E body \in cached : Age(body, n) <= MaxStale
    THEN "FetchServeStaleOnError"
    ELSE "FetchFailOnError"

ShouldFetch(decision) == decision # "ServeCache"

\* Mutant: a stale body is not served after an error.
ServeFreshOnly(decision) == decision = "ServeCache"

ServeCacheOnError(decision) ==
    decision \in {"ServeCache", "FetchServeStaleOnError"}
=============================================================================
