---------------------------- MODULE MCFeedAccess ----------------------------
(* Instances of FeedAccess for TLC: requests are interchangeable. *)
EXTENDS FeedAccess, TLC

Symmetry == Permutations(Requests) \union Permutations(Managers)
=============================================================================
