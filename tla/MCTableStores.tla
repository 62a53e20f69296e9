--------------------------- MODULE MCTableStores ----------------------------
(* Instances of TableStores for TLC.                                       *)
EXTENDS TableStores

CONSTANTS id, a, b, d1, d2, t1, t2

Alteration(do, name, new) == [do |-> do, name |-> name, new |-> new]

MCAlterations == {Alteration("rename", a, b), Alteration("rename", id, b),
                  Alteration("add", b, b), Alteration("drop", a, a)}
=============================================================================
