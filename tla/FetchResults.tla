---------------------------- MODULE FetchResults ----------------------------
(***************************************************************************)
(* What a call of fetch.GetAll returns: one result for each of its URLs,   *)
(* in their order.  Either the quota refuses the whole burst, or each of   *)
(* the first MaxSources URLs has a body or an error of its own; the URLs   *)
(* beyond are refused in both cases.  OriginFetch returns nothing else,    *)
(* and FeedRefresh takes all of it in its step Fetch or FetchLimited.      *)
(***************************************************************************)
EXTENDS Integers

CONSTANT MaxSources     \* Fetcher.MaxSources

\* What a call of n URLs may return.
Results(n) ==
    {out \in [1..n -> {"body", "failed", "limited", "capped"}] :
        /\ \A i \in 1..n : (out[i] = "capped") <=> (i > MaxSources)
        /\ \A i, j \in 1..n :
             out[i] = "limited" /\ j <= MaxSources => out[j] = "limited"}
=============================================================================
