------------------------- MODULE MCStoreTransactions -------------------------
(* Instances of StoreTransactions for TLC: savers are interchangeable. *)
EXTENDS StoreTransactions, TLC

Symmetry == Permutations(Savers)
=============================================================================
