---------------------------- MODULE MCIPLimiter ----------------------------
(* Instances of IPLimiter for TLC: calls are interchangeable, keys too. *)
EXTENDS IPLimiter, TLC

Symmetry == Permutations(Calls) \union Permutations(Keys)
=============================================================================
