----------------------------- MODULE MCDataSync -----------------------------
(* Instances of DataSync for TLC.                                          *)
EXTENDS DataSync, TLC
=============================================================================
