---------------------------- MODULE MCIndexSync -----------------------------
(* Instances of IndexSync for TLC.                                         *)
EXTENDS IndexSync, TLC

Symmetry == Permutations(Pks) \cup Permutations(AddSpawned)
=============================================================================
