----------------------------- MODULE MCHandlers ------------------------------
(* Instances of Handlers for TLC: the clients of a kind are                *)
(* interchangeable, and so are the addresses.                              *)
EXTENDS Handlers, TLC

Symmetry ==
    Permutations(Requests) \union Permutations(Managers) \union Permutations(Addresses)
=============================================================================
