--------------------------- MODULE MCStoreManager ---------------------------
(* Instances of StoreManager for TLC.                                      *)
EXTENDS StoreManager, TLC

GoroutineSymmetry == Permutations(Goroutines)
=============================================================================
