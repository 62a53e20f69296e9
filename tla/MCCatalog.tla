----------------------------- MODULE MCCatalog ------------------------------
(* Instances of Catalog for TLC.                                           *)
EXTENDS Catalog, TLC

CONSTANTS d1, d2, t1, t2, id, a, b, pw

\* A table on disk with two tables related to each other, and an empty start.
TwoTables ==
  (<<d1>> :> NoSchema) @@ (<<d1, t1>> :> (id :> "plain" @@ a :> "plain"))
                   @@ (<<d1, t2>> :> (id :> "plain" @@ b :> "defaulted"))

MCInitialCatalogs == {Empty, TwoTables}

MCSchemas == {a :> "plain", a :> "defaulted"}

Alteration(do, name, new, def) == [do |-> do, name |-> name, new |-> new, def |-> def]

MCAlterations ==
  {{Alteration("rename", a, b, "plain"), Alteration("add", a, a, "plain")},
   {Alteration("rename", a, a, "plain")},
   {Alteration("add", b, b, "bad"), Alteration("drop", a, a, "plain")},
   {Alteration("change", a, a, "defaulted")}}

Related(col) == "rel" :> [type |-> "otm", entity |-> t2, through |-> t2, fk |-> <<id, col>>]

MCUserProtocols ==
  {("m" :> [database |-> d1, entities |->
      "e" :> [table |-> t1, fields |-> ("f" :> id), relations |-> Related(col)]]) : col \in {a, b}}
=============================================================================
