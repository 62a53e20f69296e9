---------------------------- MODULE CatalogProofs ----------------------------
(***************************************************************************)
(* Proofs about the catalogue, for any number of databases, tables,        *)
(* columns, passwords and requests, any requests beside each other and any *)
(* failures and restarts among them.                                       *)
(***************************************************************************)
EXTENDS Catalog, FiniteSetTheorems, TLAPS

-----------------------------------------------------------------------------
(* Maps.                                                                   *)

\* One key put into a map.
LEMMA PutFacts ==
  ASSUME NEW f, NEW k, NEW v
  PROVE  /\ DOMAIN Put(f, k, v) = DOMAIN f \cup {k}
         /\ Put(f, k, v)[k] = v
         /\ \A x \in DOMAIN f : x # k => Put(f, k, v)[x] = f[x]
BY DEF Put

\* One key dropped from a map.
LEMMA DropFacts ==
  ASSUME NEW f, NEW k
  PROVE  /\ DOMAIN Drop(f, k) = DOMAIN f \ {k}
         /\ \A x \in DOMAIN f \ {k} : Drop(f, k)[x] = f[x]
BY DEF Drop, Restrict

\* The empty map.
LEMMA EmptyFacts ==
  /\ DOMAIN Empty = {} /\ IsSchema(Empty)
  /\ \A K, X : IsMap(Empty, K, X)
BY DEF Empty, IsSchema, IsMap, Range

\* A map is its domain and its values.
LEMMA MapFacts ==
  ASSUME NEW f, NEW K
  PROVE  /\ IsMap(f, K, Range(f)) <=>
              DOMAIN f \subseteq K /\ f = [x \in DOMAIN f |-> f[x]]
         /\ \A X : IsMap(f, K, X) <=>
              /\ DOMAIN f \subseteq K /\ f = [x \in DOMAIN f |-> f[x]]
              /\ \A x \in DOMAIN f : f[x] \in X
BY DEF IsMap, Range

\* What is put into a map of keys K has a key in K.
LEMMA PutMap ==
  ASSUME NEW f, NEW K, NEW k \in K, NEW v, DOMAIN f \subseteq K
  PROVE  IsMap(Put(f, k, v), K, Range(Put(f, k, v)))
BY DEF Put, IsMap, Range

\* The same, of a map with values in X.
LEMMA PutMapTyped ==
  ASSUME NEW f, NEW K, NEW X, IsMap(f, K, X), NEW k \in K, NEW v \in X
  PROVE  IsMap(Put(f, k, v), K, X)
BY DEF Put, IsMap

\* A map with a key dropped is a map.
LEMMA DropMap ==
  ASSUME NEW f, NEW K, NEW k, DOMAIN f \subseteq K
  PROVE  IsMap(Drop(f, k), K, Range(Drop(f, k)))
BY DEF Drop, Restrict, IsMap, Range

\* The same, of a map with values in X.
LEMMA DropMapTyped ==
  ASSUME NEW f, NEW K, NEW X, IsMap(f, K, X), NEW k
  PROVE  IsMap(Drop(f, k), K, X)
BY DEF Drop, Restrict, IsMap

\* The columns of a table are a map.
LEMMA ColSetFacts ==
  ASSUME NEW cols
  PROVE  cols \in ColSets <=> IsMap(cols, Cols, Definitions)
BY DEF ColSets, IsMap

\* Databases and tables put into a schema.
LEMMA SchemaFacts ==
  ASSUME NEW s, IsSchema(s)
  PROVE  /\ DOMAIN s \subseteq Dbs /\ s = [db \in DOMAIN s |-> s[db]]
         /\ \A db \in DOMAIN s :
              /\ DOMAIN s[db] \subseteq Tabs
              /\ s[db] = [t \in DOMAIN s[db] |-> s[db][t]]
              /\ \A t \in DOMAIN s[db] : s[db][t] \in ColSets
BY MapFacts DEF IsSchema

\* A schema with a database put into it is a schema.
LEMMA SchemaPut ==
  ASSUME NEW s, IsSchema(s), NEW db \in Dbs, NEW tables, IsMap(tables, Tabs, ColSets)
  PROVE  IsSchema(Put(s, db, tables))
<1>1. DOMAIN s \subseteq Dbs
  BY SchemaFacts
<1>2. IsMap(Put(s, db, tables), Dbs, Range(Put(s, db, tables)))
  BY <1>1, PutMap
<1>3. \A d \in DOMAIN s : IsMap(s[d], Tabs, ColSets)
  BY DEF IsSchema
<1>4. ASSUME NEW d \in DOMAIN Put(s, db, tables)
      PROVE  IsMap(Put(s, db, tables)[d], Tabs, ColSets)
  <2>1. CASE d = db
    BY <2>1 DEF Put
  <2>2. CASE d # db
    <3>1. d \in DOMAIN s /\ Put(s, db, tables)[d] = s[d]
      BY <2>2 DEF Put
    <3>2. QED
      BY <1>3, <3>1
  <2>3. QED
    BY <2>1, <2>2
<1>5. QED
  BY <1>2, <1>4 DEF IsSchema

\* A schema with a table put into one of its databases is a schema.
LEMMA TablePut ==
  ASSUME NEW s, IsSchema(s), NEW db \in DOMAIN s, NEW t \in Tabs, NEW cols \in ColSets
  PROVE  IsSchema(Put(s, db, Put(s[db], t, cols)))
<1>1. db \in Dbs
  BY SchemaFacts
<1>2. IsMap(Put(s[db], t, cols), Tabs, ColSets)
  BY PutMapTyped DEF IsSchema
<1>3. QED
  BY <1>1, <1>2, SchemaPut

\* A schema with a table changed in place is a schema.
LEMMA TableChanged ==
  ASSUME NEW s, IsSchema(s), NEW db \in DOMAIN s, NEW t \in DOMAIN s[db], NEW cols \in ColSets
  PROVE  IsSchema([s EXCEPT ![db][t] = cols])
<1> DEFINE r == [s EXCEPT ![db][t] = cols]
<1>1. DOMAIN s \subseteq Dbs /\ \A d \in DOMAIN s : IsMap(s[d], Tabs, ColSets)
  BY SchemaFacts DEF IsSchema
<1>2. /\ DOMAIN r = DOMAIN s /\ r = [d \in DOMAIN r |-> r[d]]
      /\ r[db] = [s[db] EXCEPT ![t] = cols]
      /\ \A d \in DOMAIN s : d # db => r[d] = s[d]
  OBVIOUS
<1>3. IsMap([s[db] EXCEPT ![t] = cols], Tabs, ColSets)
  BY <1>1 DEF IsMap
<1> HIDE DEF r
<1>4. \A d \in DOMAIN r : IsMap(r[d], Tabs, ColSets)
  BY <1>1, <1>2, <1>3
<1>5. IsMap(r, Dbs, Range(r))
  BY <1>1, <1>2, MapFacts
<1>6. QED
  BY <1>4, <1>5 DEF IsSchema, r

-----------------------------------------------------------------------------
(* Alterations.                                                            *)

\* A table's columns, altered, are some of the columns still.
LEMMA AlteredType ==
  ASSUME NEW cols \in ColSets, NEW a \in AlterationForms
  PROVE  Altered(cols, a) \in ColSets
<1>1. IsMap(cols, Cols, Definitions)
  BY ColSetFacts
<1>2. ASSUME NEW c \in Cols, NEW d \in Definitions, NEW f, IsMap(f, Cols, Definitions)
      PROVE  IsMap(Put(f, c, d), Cols, Definitions)
  BY <1>2, PutMapTyped
<1>3. ASSUME NEW c, NEW f, IsMap(f, Cols, Definitions)
      PROVE  IsMap(Drop(f, c), Cols, Definitions)
  BY <1>3, DropMapTyped
<1>4. /\ a.do \in {"change", "rename", "add", "drop"}
      /\ a.name \in Cols /\ a.new \in Cols /\ a.def \in Definitions
  BY DEF AlterationForms
<1>5. a.name \in DOMAIN cols => cols[a.name] \in Definitions
  BY <1>1 DEF IsMap
<1>6. IsMap(Altered(cols, a), Cols, Definitions)
  BY <1>1, <1>2, <1>3, <1>4, <1>5 DEF Altered
<1>7. QED
  BY <1>6, ColSetFacts

\* Every set of natural numbers with a member has a least one.
LEMMA Least ==
  ASSUME NEW T \in SUBSET Nat, T # {}
  PROVE  \E n \in T : \A m \in T : n <= m
<1> DEFINE Below(n) == 0..(n - 1)
           B == {Below(n) : n \in T}
<1>1. \A n \in T : Below(n) \in FiniteSubsetsOf(Nat)
  BY FS_Interval DEF FiniteSubsetsOf
<1>2. B \subseteq FiniteSubsetsOf(Nat) /\ B # {}
  BY <1>1
<1>3. \E x \in B : \A y \in B : ~ (<<y, x>> \in StrictSubsetOrdering(Nat))
  BY <1>2, FS_StrictSubsetOrderingWellFounded, WFMin
<1>4. PICK n \in T : \A m \in T : ~ (<<Below(m), Below(n)>> \in StrictSubsetOrdering(Nat))
  BY <1>3
<1>5. ASSUME NEW m \in T, ~ (n <= m)
      PROVE  FALSE
  <2>1. Below(m) \subseteq Below(n) /\ Below(m) # Below(n)
    <3>1. m \in Below(n) /\ m \notin Below(m)
      BY <1>5
    <3>2. QED
      BY <1>5, <3>1
  <2>2. Below(m) \in SUBSET Nat /\ Below(n) \in SUBSET Nat
    BY <1>5
  <2> HIDE DEF Below, B
  <2>3. <<Below(m), Below(n)>> \in StrictSubsetOrdering(Nat)
    BY <2>1, <2>2 DEF StrictSubsetOrdering
  <2>4. QED
    BY <1>4, <2>3
<1>6. QED
  BY <1>5

\* The steps of AlteredInCache: the columns after i alterations.
AlteredStates == [cols : ColSets, ok : BOOLEAN]

NextAltered(state, a) ==
  IF ~state.ok THEN state
  ELSE IF RefusedAlter(state.cols, a) THEN [state EXCEPT !.ok = FALSE]
  ELSE [cols |-> Altered(state.cols, a), ok |-> TRUE]

\* One alteration, accepted or refused, leaves columns.
LEMMA NextAlteredType ==
  ASSUME NEW state \in AlteredStates, NEW a \in AlterationForms
  PROVE  NextAltered(state, a) \in AlteredStates
BY AlteredType DEF NextAltered, AlteredStates

\* f is the sequence of those states, as far as m.
IsRun(f, cols, order, m) ==
  f = [i \in 0..m |-> IF i = 0 THEN [cols |-> cols, ok |-> TRUE]
                      ELSE NextAltered(f[i - 1], order[i])]

\* Every state of such a sequence has columns.
LEMMA RunType ==
  ASSUME NEW n \in Nat, NEW order \in [1..n -> AlterationForms], NEW cols \in ColSets,
         NEW f, IsRun(f, cols, order, n)
  PROVE  f \in [0..n -> AlteredStates]
<1> DEFINE Bad == {i \in 0..n : f[i] \notin AlteredStates}
<1>1. SUFFICES ASSUME Bad # {} PROVE FALSE
  BY DEF IsRun
<1>2. PICK i \in Bad : \A j \in Bad : i <= j
  <2>1. Bad \in SUBSET Nat
    OBVIOUS
  <2> HIDE DEF Bad
  <2>2. QED
    BY <1>1, <2>1, Least
<1>3. i # 0
  BY DEF IsRun, AlteredStates
<1>4. i - 1 \in 0..n /\ i - 1 \notin Bad /\ i \in 1..n
  BY <1>2, <1>3
<1>5. f[i - 1] \in AlteredStates
  BY <1>4
<1>6. f[i] = NextAltered(f[i - 1], order[i])
  BY <1>3, <1>4 DEF IsRun
<1>7. QED
  BY <1>2, <1>4, <1>5, <1>6, NextAlteredType

\* Such a sequence exists, however long.
LEMMA RunExists ==
  ASSUME NEW n \in Nat, NEW order, NEW cols
  PROVE  \E f : IsRun(f, cols, order, n)
<1> DEFINE Bad == {m \in Nat : ~ \E f : IsRun(f, cols, order, m)}
<1>1. SUFFICES ASSUME Bad # {} PROVE FALSE
  OBVIOUS
<1>2. PICK m \in Bad : \A k \in Bad : m <= k
  BY <1>1, Least
<1> DEFINE first == [cols |-> cols, ok |-> TRUE]
<1>3. m # 0
  <2>1. IsRun([i \in 0..0 |-> first], cols, order, 0)
    BY DEF IsRun
  <2>2. QED
    BY <2>1
<1>4. m - 1 \in Nat /\ m - 1 \notin Bad
  BY <1>2, <1>3
<1>5. PICK f : IsRun(f, cols, order, m - 1)
  BY <1>4
<1> DEFINE g == [i \in 0..m |-> IF i = m THEN NextAltered(f[m - 1], order[m]) ELSE f[i]]
<1>6. \A i \in 0..m :
        g[i] = IF i = 0 THEN first ELSE NextAltered(g[i - 1], order[i])
  <2>1. \A i \in 0..(m - 1) : g[i] = f[i]
    BY <1>4
  <2>2. \A i \in 0..(m - 1) :
          f[i] = IF i = 0 THEN first ELSE NextAltered(f[i - 1], order[i])
    BY <1>5 DEF IsRun
  <2>3. g[m] = NextAltered(f[m - 1], order[m])
    BY <1>4
  <2> HIDE DEF g, first
  <2>4. ASSUME NEW i \in 0..m
        PROVE  g[i] = IF i = 0 THEN first ELSE NextAltered(g[i - 1], order[i])
    <3>1. CASE i = m
      BY <1>3, <1>4, <2>1, <2>3, <3>1
    <3>2. CASE i # m
      <4>1. i \in 0..(m - 1) /\ (i # 0 => i - 1 \in 0..(m - 1))
        BY <1>4, <3>2
      <4>2. QED
        BY <2>1, <2>2, <4>1
    <3>3. QED
      BY <3>1, <3>2
  <2>5. QED
    BY <2>4
<1>7. IsRun(g, cols, order, m)
  BY <1>6 DEF IsRun
<1>8. QED
  BY <1>2, <1>7

\* AlterTable's loop leaves the cached table with some of the columns.
LEMMA AlteredInCacheType ==
  ASSUME NEW cols \in ColSets, NEW alters, IsFiniteSet(alters), alters \subseteq AlterationForms,
         NEW order \in AnyOrder(alters)
  PROVE  AlteredInCache(cols, order).cols \in ColSets
<1> DEFINE n == Cardinality(alters)
           after == CHOOSE f : IsRun(f, cols, order, Len(order))
<1>1. n \in Nat /\ order \in [1..n -> AlterationForms] /\ Len(order) = n
  BY FS_CardinalityType DEF AnyOrder
<1> HIDE DEF n
<1>2. IsRun(after, cols, order, n)
  BY <1>1, RunExists
<1>3. after[n] \in AlteredStates
  BY <1>1, <1>2, RunType
<1>4. AlteredInCache(cols, order) = after[n]
  BY <1>1 DEF AlteredInCache, IsRun, NextAltered
<1>5. QED
  BY <1>3, <1>4 DEF AlteredStates

-----------------------------------------------------------------------------
(* The keys on disk.                                                       *)

\* A database's key has one part, a table's two.
LEMMA DbKeyFacts ==
  ASSUME NEW k \in DbNamed
  PROVE  Len(k) = 1 /\ k[1] \in Dbs /\ k = <<k[1]>> /\ k \notin TableNamed
BY DEF DbNamed, TableNamed

\* A table's key.
LEMMA TableKeyFacts ==
  ASSUME NEW k \in TableNamed
  PROVE  Len(k) = 2 /\ k[1] \in Dbs /\ k[2] \in Tabs /\ k = <<k[1], k[2]>>
BY DEF TableNamed

\* The keys on disk after a write, and after a delete.
LEMMA CatalogPut ==
  ASSUME NEW keys, CatalogOK(keys), NEW k, NEW v, EntryOK(k, v)
  PROVE  CatalogOK(Put(keys, k, v))
<1>1. DOMAIN Put(keys, k, v) = DOMAIN keys \cup {k}
  BY DEF Put
<1>2. k \in DbNamed \cup TableNamed
  BY DEF EntryOK
<1>3. IsFiniteSet(DOMAIN Put(keys, k, v))
  BY <1>1, FS_AddElement DEF CatalogOK
<1>4. IsMap(Put(keys, k, v), DbNamed \cup TableNamed, Range(Put(keys, k, v)))
  BY <1>2, PutMap DEF CatalogOK, IsMap
<1>5. \A x \in DOMAIN Put(keys, k, v) : EntryOK(x, Put(keys, k, v)[x])
  <2>1. ASSUME NEW x \in DOMAIN Put(keys, k, v)
        PROVE  EntryOK(x, Put(keys, k, v)[x])
    <3>1. CASE x = k
      BY <3>1 DEF Put
    <3>2. CASE x # k
      BY <3>2 DEF Put, CatalogOK
    <3>3. QED
      BY <3>1, <3>2
  <2>2. QED
    BY <2>1
<1>6. QED
  BY <1>3, <1>4, <1>5 DEF CatalogOK

\* A deleted key leaves the others as they were.
LEMMA CatalogDrop ==
  ASSUME NEW keys, CatalogOK(keys), NEW k
  PROVE  CatalogOK(Drop(keys, k))
<1>1. DOMAIN Drop(keys, k) = DOMAIN keys \ {k}
  BY DEF Drop, Restrict
<1>2. IsFiniteSet(DOMAIN Drop(keys, k))
  BY <1>1, FS_RemoveElement DEF CatalogOK
<1>3. IsMap(Drop(keys, k), DbNamed \cup TableNamed, Range(Drop(keys, k)))
  BY DropMap DEF CatalogOK, IsMap
<1>4. \A x \in DOMAIN Drop(keys, k) : EntryOK(x, Drop(keys, k)[x])
  BY DEF Drop, Restrict, CatalogOK
<1>5. QED
  BY <1>2, <1>3, <1>4 DEF CatalogOK

\* The databases' and the tables' keys.
LEMMA KeyFacts ==
  ASSUME CatalogOK(schemaKeys)
  PROVE  /\ \A k \in DbKeys : k \in DbNamed
         /\ \A db : \A k \in TableKeys(db) :
              /\ k \in TableNamed /\ schemaKeys[k] \in ColSets
              /\ k[1] = db /\ k[2] \in Tabs /\ k = <<db, k[2]>>
         /\ \A k \in DOMAIN schemaKeys : k \in TableNamed =>
              k \in TableKeys(k[1]) /\ schemaKeys[k] \in ColSets
<1>1. \A k \in DOMAIN schemaKeys : EntryOK(k, schemaKeys[k])
  BY DEF CatalogOK
<1>2. \A k \in DbKeys : k \in DbNamed
  BY <1>1, TableKeyFacts DEF DbKeys, EntryOK
<1>3. ASSUME NEW k \in DOMAIN schemaKeys, Len(k) = 2
      PROVE  k \in TableNamed /\ schemaKeys[k] \in ColSets
  BY <1>1, <1>3, DbKeyFacts DEF EntryOK
<1>4. ASSUME NEW k \in DOMAIN schemaKeys, k \in TableNamed
      PROVE  k \in TableKeys(k[1]) /\ schemaKeys[k] \in ColSets
  BY <1>1, <1>4, DbKeyFacts, TableKeyFacts DEF EntryOK, TableKeys
<1>5. QED
  BY <1>2, <1>3, <1>4, TableKeyFacts DEF TableKeys

\* What GetFullSchema returns is a schema.
LEMMA DiskSchemaType ==
  ASSUME CatalogOK(schemaKeys)
  PROVE  IsSchema(DiskSchema)
<1> DEFINE Tables(db) ==
      [table \in {k[2] : k \in TableKeys(db)} |-> schemaKeys[<<db, table>>]]
<1>1. ASSUME NEW db
      PROVE  IsMap(Tables(db), Tabs, ColSets)
  BY KeyFacts DEF IsMap
<1>2. {k[1] : k \in DbKeys} \subseteq Dbs
  BY KeyFacts, DbKeyFacts
<1> HIDE DEF Tables
<1>3. DiskSchema = [db \in {k[1] : k \in DbKeys} |-> Tables(db)]
  BY DEF DiskSchema, Tables
<1>4. QED
  BY <1>1, <1>2, <1>3 DEF IsSchema, IsMap, Range

-----------------------------------------------------------------------------
(* Programs.                                                               *)

\* An order of a finite set.
LEMMA OrderExists ==
  ASSUME NEW S, IsFiniteSet(S)
  PROVE  /\ Cardinality(S) \in Nat
         /\ (CHOOSE o \in AnyOrder(S) : TRUE) \in [1..Cardinality(S) -> S]
<1>1. Cardinality(S) \in Nat /\ ExistsBijection(1..Cardinality(S), S)
  BY FS_CardinalityType
<1>2. PICK o : o \in Bijection(1..Cardinality(S), S)
  BY <1>1 DEF ExistsBijection
<1>3. o \in AnyOrder(S)
  BY <1>2 DEF Bijection, Injection, IsInjective, AnyOrder
<1>4. QED
  BY <1>1, <1>3 DEF AnyOrder

\* The kinds of steps.
LEMMA StepTypes ==
  /\ \A k, v : EntryOK(k, v) => Set(k, v) \in Steps /\ SetQuietly(k, v) \in Steps
  /\ \A k \in DbNamed \cup TableNamed : Del(k) \in Steps
  /\ \A k \in TableNamed : Probe(k) \in Steps /\ ReadCols(k) \in Steps
  /\ \A k, to \in TableNamed : Copy(k, to) \in Steps
  /\ \A k \in TableNamed, a \in AlterationForms : Alter(k, a) \in Steps
  /\ \A db \in Dbs : Folder(db) \in Steps
  /\ \A what \in Scans, db, to \in Dbs : ForTables(what, db, to) \in Steps
<1>1. ASSUME NEW k, NEW v, EntryOK(k, v)
      PROVE  Set(k, v) \in Steps /\ SetQuietly(k, v) \in Steps
  BY <1>1 DEF Set, SetQuietly, Steps, Kinds, StepFits, EntryOK, Scans
<1>2. ASSUME NEW k \in DbNamed \cup TableNamed
      PROVE  Del(k) \in Steps
  BY DEF Del, Steps, Kinds, StepFits, Scans
<1>3. ASSUME NEW k \in TableNamed
      PROVE  Probe(k) \in Steps /\ ReadCols(k) \in Steps
  BY DEF Del, Probe, ReadCols, Steps, Kinds, StepFits, Scans
<1>4. ASSUME NEW k \in TableNamed, NEW to \in TableNamed
      PROVE  Copy(k, to) \in Steps
  BY DEF Del, Copy, Steps, Kinds, StepFits, Scans
<1>5. ASSUME NEW k \in TableNamed, NEW a \in AlterationForms
      PROVE  Alter(k, a) \in Steps
  BY DEF Set, Alter, Steps, Kinds, StepFits, Scans
<1>6. ASSUME NEW db \in Dbs
      PROVE  Folder(db) \in Steps
  BY DEF Del, Folder, Steps, Kinds, StepFits, Scans, DbNamed
<1>7. ASSUME NEW what \in Scans, NEW db \in Dbs, NEW to \in Dbs
      PROVE  ForTables(what, db, to) \in Steps
  BY DEF Del, Copy, ForTables, Steps, Kinds, StepFits, Scans, DbNamed
<1>8. QED
  BY <1>1, <1>2, <1>3, <1>4, <1>5, <1>6, <1>7

\* The steps a scan has for one table.
LEMMA StepsForType ==
  ASSUME NEW step \in Steps, step.do \in Scans, NEW table \in Tabs
  PROVE  /\ step.do = "probeAll" => StepsFor(step, table)[1] \in Steps
         /\ step.do = "probeAll" => StepsFor(step, table)[1].do # "alter"
         /\ step.do # "probeAll" => \A i \in {1, 2} :
              StepsFor(step, table)[i] \in Steps /\ StepsFor(step, table)[i].do # "alter"
<1>1. step.key[1] \in Dbs /\ step.to[1] \in Dbs
  BY DbKeyFacts DEF Steps, StepFits
<1> DEFINE key == <<step.key[1], table>>
           to == <<step.to[1], table>>
<1>2. key \in TableNamed /\ to \in TableNamed
  BY <1>1 DEF TableNamed
<1>3. /\ Probe(key) \in Steps /\ Copy(key, to) \in Steps /\ Del(key) \in Steps
      /\ Folder(step.key[1]) \in Steps
  BY <1>1, <1>2, StepTypes
<1>4. /\ Probe(key).do # "alter" /\ Copy(key, to).do # "alter" /\ Del(key).do # "alter"
      /\ Folder(step.key[1]).do # "alter"
  BY DEF Probe, Copy, Del, Folder
<1>5. QED
  BY <1>3, <1>4 DEF StepsFor, Scans

\* A scan's steps, none of which alters columns.
LEMMA ExpandedType ==
  ASSUME NEW step \in Steps, step.do \in Scans, NEW tables \in SUBSET Tabs, IsFiniteSet(tables)
  PROVE  /\ Expanded(step, tables) \in Seq(Steps)
         /\ \A i \in DOMAIN Expanded(step, tables) : Expanded(step, tables)[i].do # "alter"
<1> DEFINE order == CHOOSE o \in AnyOrder(tables) : TRUE
           n == Cardinality(tables)
           width == IF step.do = "probeAll" THEN 1 ELSE 2
<1>1. n \in Nat /\ order \in [1..n -> Tabs]
  BY OrderExists
<1> HIDE DEF n, order
<1>2. ASSUME NEW i \in 1..(width * n)
      PROVE  ((i - 1) \div width) + 1 \in 1..n /\ ((i - 1) % width) + 1 \in 1..width
  BY <1>1
<1> DEFINE table(i) == order[((i - 1) \div width) + 1]
           at(i) == ((i - 1) % width) + 1
           elem(i) == StepsFor(step, table(i))[at(i)]
<1>3. ASSUME NEW i \in 1..(width * n)
      PROVE  elem(i) \in Steps /\ elem(i).do # "alter"
  <2>1. table(i) \in Tabs /\ at(i) \in 1..width
    BY <1>1, <1>2
  <2>2. (step.do = "probeAll" => at(i) = 1) /\ at(i) \in {1, 2}
    BY <2>1
  <2> HIDE DEF table, at
  <2>3. QED
    BY <2>1, <2>2, StepsForType
<1>4. Expanded(step, tables) = [i \in 1..(width * n) |-> elem(i)]
  BY DEF Expanded, n, order
<1> DEFINE m == width * n
<1>5. m \in Nat
  BY <1>1
<1>6. /\ \A i \in 1..m : elem(i) \in Steps /\ elem(i).do # "alter"
      /\ Expanded(step, tables) = [i \in 1..m |-> elem(i)]
  BY <1>3, <1>4
<1> HIDE DEF elem, m, width, table, at
<1>7. QED
  BY <1>5, <1>6

\* The rest of a program still has what it needs.
LEMMA TailHasColumns ==
  ASSUME NEW steps \in Seq(Steps), steps # <<>>, NEW cols, HasColumns(steps, cols)
  PROVE  /\ Head(steps) \in Steps /\ Tail(steps) \in Seq(Steps)
         /\ Head(steps).do # "read" => HasColumns(Tail(steps), cols)
         /\ Head(steps).do = "alter" => cols \in ColSets
<1>1. Head(steps) \in Steps /\ Tail(steps) \in Seq(Steps) /\ Head(steps) = steps[1]
  OBVIOUS
<1>2. \A i \in DOMAIN Tail(steps) : i + 1 \in DOMAIN steps /\ Tail(steps)[i] = steps[i + 1]
  OBVIOUS
<1>3. 1 \in DOMAIN steps
  OBVIOUS
<1>4. QED
  BY <1>1, <1>2, <1>3 DEF HasColumns

\* A program whose scan is replaced by the steps of its tables.
LEMMA ScanHasColumns ==
  ASSUME NEW steps \in Seq(Steps), steps # <<>>, NEW cols, HasColumns(steps, cols),
         Head(steps).do \in Scans, NEW tables \in SUBSET Tabs, IsFiniteSet(tables)
  PROVE  /\ Expanded(Head(steps), tables) \o Tail(steps) \in Seq(Steps)
         /\ HasColumns(Expanded(Head(steps), tables) \o Tail(steps), cols)
<1> DEFINE new == Expanded(Head(steps), tables)
           rest == Tail(steps)
<1>1. Head(steps) \in Steps /\ rest \in Seq(Steps) /\ HasColumns(rest, cols)
  BY TailHasColumns DEF Scans
<1>2. new \in Seq(Steps) /\ \A i \in DOMAIN new : new[i].do # "alter"
  BY <1>1, ExpandedType
<1> HIDE DEF new, rest
<1>3. new \o rest \in Seq(Steps)
  BY <1>1, <1>2
<1>4. CASE cols \in ColSets
  BY <1>3, <1>4 DEF HasColumns, new, rest
<1>5. CASE cols \notin ColSets
  <2>1. \A i \in DOMAIN steps : steps[i].do # "alter"
    BY <1>5 DEF HasColumns, Scans
  <2>2. \A i \in DOMAIN rest : rest[i].do # "alter"
    BY <2>1 DEF rest
  <2>3. \A i \in DOMAIN (new \o rest) : (new \o rest)[i].do # "alter"
    BY <1>1, <1>2, <2>2
  <2>4. QED
    BY <1>3, <2>3 DEF HasColumns, new, rest
<1>6. QED
  BY <1>4, <1>5

-----------------------------------------------------------------------------
(* Protocols.                                                              *)

\* What ValidateEntity accepts reaches only columns the schema has.
LEMMA ValidEntityReaches ==
  ASSUME NEW schema, NEW db, NEW entity, ValidateEntity(schema, db, entity),
         NEW p \in Reached(entity)
  PROVE  /\ db \in DOMAIN schema /\ p[1] \in DOMAIN schema[db]
         /\ p[2] \in DOMAIN schema[db][p[1]]
<1>1. CASE \E f \in DOMAIN entity.fields : p = <<entity.table, entity.fields[f]>>
  BY <1>1 DEF ValidateEntity, IsColumnExists, IsTableExists, IsDatabaseExists
<1>2. ASSUME NEW r \in DOMAIN entity.relations,
             p \in {<<entity.table, entity.relations[r].fk[1]>>} \cup Joined(entity.relations[r])
      PROVE  /\ db \in DOMAIN schema /\ p[1] \in DOMAIN schema[db]
             /\ p[2] \in DOMAIN schema[db][p[1]]
  <2> DEFINE rel == entity.relations[r]
  <2>1. ValidateRelation(schema, db, entity.table, rel)
    BY DEF ValidateEntity
  <2> HIDE DEF rel
  <2>2. CASE p = <<entity.table, rel.fk[1]>>
    BY <2>1, <2>2 DEF ValidateRelation, IsColumnExists, IsTableExists, IsDatabaseExists
  <2>3. CASE p \in Joined(rel)
    BY <2>1, <2>3 DEF Joined, ValidateRelation, IsColumnExists, IsTableExists, IsDatabaseExists
  <2>4. QED
    BY <1>2, <2>2, <2>3 DEF rel
<1>3. QED
  BY <1>1, <1>2 DEF Reached

\* So a protocol that ValidateProtocol accepts resolves.
LEMMA ValidResolves ==
  ASSUME NEW schema, NEW protocol, ValidateProtocol(schema, protocol)
  PROVE  Resolves(schema, protocol)
<1>1. ASSUME NEW m \in DOMAIN protocol
      PROVE  LET db == protocol[m].database IN
             /\ db \in DOMAIN schema
             /\ \A e \in DOMAIN protocol[m].entities :
                  /\ protocol[m].entities[e].table \in DOMAIN schema[db]
                  /\ \A p \in Reached(protocol[m].entities[e]) :
                       p[1] \in DOMAIN schema[db] /\ p[2] \in DOMAIN schema[db][p[1]]
  <2>1. /\ protocol[m].database \in DOMAIN schema
        /\ \A e \in DOMAIN protocol[m].entities :
             ValidateEntity(schema, protocol[m].database, protocol[m].entities[e])
    BY DEF ValidateProtocol, ValidateModule, IsDatabaseExists
  <2>2. \A e \in DOMAIN protocol[m].entities :
          protocol[m].entities[e].table \in DOMAIN schema[protocol[m].database]
    BY <2>1 DEF ValidateEntity, IsTableExists
  <2>3. QED
    BY <2>1, <2>2, ValidEntityReaches
<1>2. QED
  BY <1>1 DEF Resolves

\* The protocol made of a schema is accepted for it.
LEMMA BySchemaValid ==
  ASSUME NEW schema
  PROVE  ValidateProtocol(schema, ProtocolBySchema(schema))
<1> DEFINE Entity(db, table) ==
      [table |-> table, fields |-> [col \in DOMAIN schema[db][table] |-> col],
       relations |-> NoRelations]
           Module(db) ==
      [database |-> db, entities |-> [table \in DOMAIN schema[db] |-> Entity(db, table)]]
<1>1. ASSUME NEW db \in DOMAIN schema, NEW table \in DOMAIN schema[db]
      PROVE  ValidateEntity(schema, db, Entity(db, table))
  BY DEF ValidateEntity, NoRelations, IsColumnExists, IsTableExists, IsDatabaseExists
<1> HIDE DEF Entity
<1>2. ASSUME NEW db \in DOMAIN schema
      PROVE  ValidateModule(schema, Module(db))
  BY <1>1 DEF ValidateModule, IsDatabaseExists
<1> HIDE DEF Module
<1>3. ProtocolBySchema(schema) = [db \in DOMAIN schema |-> Module(db)]
  BY DEF ProtocolBySchema, Module, Entity
<1>4. QED
  BY <1>2, <1>3 DEF ValidateProtocol

\* It is empty only if the schema is.
LEMMA BySchemaEmpty ==
  ASSUME NEW schema, IsSchema(schema), ProtocolBySchema(schema) = Empty
  PROVE  schema = Empty
<1>1. DOMAIN schema = {}
  BY DEF ProtocolBySchema, Empty
<1>2. QED
  BY <1>1 DEF IsSchema, IsMap, Empty

-----------------------------------------------------------------------------
(* The progress of a request.                                              *)

\* The fields of a request's progress.
LEMMA TaskFields ==
  ASSUME NEW t, TaskOK(t)
  PROVE  /\ t.op \in Ops /\ t.pc \in Pcs /\ t.steps \in Seq(Steps)
         /\ t.cols \in {NoSchema} \cup ColSets /\ t.dbs \in SUBSET Dbs
         /\ t.tabs \in SUBSET TableNamed /\ t.stale \in BOOLEAN
         /\ t.pw \in {NoPassword} \cup Passwords /\ t.ids \in SUBSET Passwords
         /\ t.pstale \in BOOLEAN /\ t.ok \in BOOLEAN /\ t.clean \in BOOLEAN
BY DEF TaskForm, TaskOK

\* No request, or one that has just ended.
LEMMA NoTaskOK ==
  /\ TaskOK(NoTask) /\ TaskOK(Failed) /\ TaskOK([Failed EXCEPT !.clean = FALSE])
  /\ TaskOK([NoTask EXCEPT !.clean = FALSE])
  /\ NoTask.pc = "idle" /\ Failed.pc = "idle" /\ ~Failed.ok /\ NoTask.clean
<1> DEFINE S == Seq(Steps)
<1>1. <<>> \in S
  OBVIOUS
<1>2. HasColumns(<<>>, NoSchema)
  BY DEF HasColumns
<1>3. IsSchema(Empty)
  BY EmptyFacts
<1> HIDE DEF S
<1>4. TaskOK(NoTask)
  BY <1>1, <1>2, <1>3 DEF NoTask, TaskForm, TaskOK, Ops, Pcs, S
<1>5. QED
  BY <1>1, <1>2, <1>3, <1>4 DEF Failed, NoTask, TaskForm, TaskOK, Ops, Pcs, S

\* What others' steps do to a request's progress: at most, they mark it as overtaken.
Marked(t) ==
  {t, [t EXCEPT !.stale = TRUE], [t EXCEPT !.pstale = TRUE], [t EXCEPT !.clean = FALSE]}

\* A marked request is where it was.
LEMMA MarkedFacts ==
  ASSUME NEW t, TaskOK(t), NEW u \in Marked(t)
  PROVE  /\ TaskOK(u)
         /\ u.op = t.op /\ u.pc = t.pc /\ u.steps = t.steps /\ u.cols = t.cols
         /\ u.dbs = t.dbs /\ u.tabs = t.tabs /\ u.got = t.got /\ u.pw = t.pw
         /\ u.proto = t.proto /\ u.ids = t.ids /\ u.ok = t.ok
         /\ t.stale => u.stale
         /\ t.pstale => u.pstale
         /\ u.clean => t.clean
<1>1. /\ u.op = t.op /\ u.pc = t.pc /\ u.steps = t.steps /\ u.cols = t.cols
      /\ u.dbs = t.dbs /\ u.tabs = t.tabs /\ u.got = t.got /\ u.pw = t.pw
      /\ u.proto = t.proto /\ u.ids = t.ids /\ u.ok = t.ok
      /\ t.stale => u.stale
      /\ t.pstale => u.pstale
      /\ u.clean => t.clean
  BY DEF TaskForm, TaskOK, Marked
<1>2. TaskForm(u)
  BY <1>1 DEF TaskForm, TaskOK, Marked
<1>3. QED
  BY <1>1, <1>2 DEF TaskOK

\* A request after a step of its program, which may have read columns.
LEMMA OnwardOK ==
  ASSUME NEW g \in Goroutines, TaskOK(task[g]), task[g].pc = "store",
         NEW steps \in Seq(Steps)
  PROVE  LET u == Onward(g, steps) IN
         /\ u.op = task[g].op /\ u.clean = task[g].clean /\ u.pc \in {"store", "dbs"}
         /\ HasColumns(steps, task[g].cols) => TaskOK(u)
         /\ \A cols \in {NoSchema} \cup ColSets : HasColumns(steps, cols) =>
              /\ TaskOK([u EXCEPT !.cols = cols])
              /\ [u EXCEPT !.cols = cols].pc = u.pc
              /\ [u EXCEPT !.cols = cols].clean = u.clean
<1> DEFINE t == task[g]
           u == Onward(g, steps)
<1>1. /\ u.op = t.op /\ u.steps = steps /\ u.cols = t.cols
      /\ u.dbs = t.dbs /\ u.tabs = t.tabs /\ u.got = t.got /\ u.pw = t.pw
      /\ u.clean = t.clean
      /\ u.pc \in {"store", "dbs"}
      /\ (u.pc = "store") = (steps # <<>>)
  BY DEF TaskForm, TaskOK, Onward
<1>2. TaskForm(u)
  BY <1>1 DEF TaskForm, TaskOK, Onward, Pcs
<1>3. HasColumns(steps, t.cols) => TaskOK(u)
  BY <1>1, <1>2 DEF TaskOK
<1>4. ASSUME NEW cols \in {NoSchema} \cup ColSets, HasColumns(steps, cols)
      PROVE  LET w == [u EXCEPT !.cols = cols] IN
             TaskOK(w) /\ w.pc = u.pc /\ w.clean = u.clean
  <2> DEFINE w == [u EXCEPT !.cols = cols]
  <2>1. /\ w.op = u.op /\ w.pc = u.pc /\ w.steps = steps /\ w.cols = cols
        /\ w.dbs = u.dbs /\ w.tabs = u.tabs /\ w.got = u.got /\ w.pw = u.pw
        /\ w.clean = u.clean
    BY <1>1, <1>2 DEF TaskForm
  <2>2. TaskForm(w)
    BY <1>1, <1>2 DEF TaskForm
  <2> HIDE DEF w, u
  <2>3. TaskOK(w)
    BY <1>1, <1>4, <2>1, <2>2 DEF TaskOK
  <2>4. QED
    BY <2>1, <2>3 DEF w
<1> HIDE DEF u
<1>5. QED
  BY <1>1, <1>3, <1>4 DEF u

-----------------------------------------------------------------------------
(* One request's step, beside the others.                                  *)

\* Nobody works beside a request that is alone: the others are at rest, or marked.
LEMMA OthersRest ==
  ASSUME CatalogInv, NEW g \in Goroutines, task[g].pc # "idle",
         \A h \in Goroutines \ {g} : task'[h] \in Marked(task[h]),
         task'[g].pc # "idle" /\ task'[g].clean => task[g].clean
  PROVE  /\ CleanRunsAlone'
         /\ \A h \in Goroutines \ {g} : TaskOK(task'[h]) /\ SoloFits(task[h])'
<1>1. \A h \in Goroutines \ {g} :
        /\ TaskOK(task'[h])
        /\ task'[h].pc = task[h].pc
        /\ task'[h].clean => task[h].clean
  BY MarkedFacts DEF CatalogInv, CatalogTypeOK
<1>2. \A h \in Goroutines \ {g} : ~(task[h].pc # "idle" /\ task[h].clean)
  BY DEF CatalogInv, CleanRunsAlone
<1>3. CleanRunsAlone'
  BY <1>1, <1>2 DEF CatalogInv, CleanRunsAlone
<1>4. \A h \in Goroutines \ {g} : SoloFits(task[h])'
  BY <1>1, <1>2 DEF SoloFits
<1>5. QED
  BY <1>1, <1>3, <1>4

\* What a request has read stays as good while nothing that it reads changes.
LEMMA SameReload ==
  ASSUME UNCHANGED schemaKeys, NEW t, NEW u, u \in Marked(t), TaskOK(t), ReloadFits(t)
  PROVE  ReloadFits(u)'
<1>1. u.pc = t.pc /\ u.dbs = t.dbs /\ u.tabs = t.tabs /\ u.got = t.got /\ (t.stale => u.stale)
  BY MarkedFacts
<1>2. u.stale \in BOOLEAN /\ t.stale \in BOOLEAN
  BY MarkedFacts, TaskFields
<1>3. QED
  BY <1>1, <1>2 DEF ReloadFits, DbKeys, TableKeys

\* The same of a refill.
LEMMA SameRefill ==
  ASSUME UNCHANGED <<protoKeys, protos>>, NEW t, NEW u, u \in Marked(t), TaskOK(t), RefillFits(t)
  PROVE  RefillFits(u)'
<1>1. u.pc = t.pc /\ u.ids = t.ids /\ u.pw = t.pw /\ u.proto = t.proto /\ (t.pstale => u.pstale)
  BY MarkedFacts
<1>2. u.pstale \in BOOLEAN /\ t.pstale \in BOOLEAN
  BY MarkedFacts, TaskFields
<1>3. QED
  BY <1>1, <1>2 DEF RefillFits

\* A request's own progress keeps the invariant when it keeps what is claimed of the request.
LEMMA ProgressStep ==
  ASSUME CatalogInv, NEW g \in Goroutines, task[g].pc # "idle", NEW t, Progress(g, t),
         TaskOK(t), ReloadFits(t), RefillFits(t), SoloFits(t),
         t.pc # "idle" /\ t.clean => task[g].clean
  PROVE  CatalogInv'
<1>1. /\ task'[g] = t
      /\ \A h \in Goroutines \ {g} : task'[h] = task[h]
      /\ DOMAIN task' = Goroutines
      /\ UNCHANGED <<schemaKeys, protoKeys, full, protos, calls, cacheStale, protoStale>>
  BY DEF Progress, CatalogInv, CatalogTypeOK, diskVars
<1>2. \A h \in Goroutines \ {g} : task'[h] \in Marked(task[h])
  BY <1>1 DEF Marked
<1>3. CleanRunsAlone' /\ \A h \in Goroutines \ {g} : TaskOK(task'[h]) /\ SoloFits(task[h])'
  BY <1>1, <1>2, OthersRest
<1>4. CatalogTypeOK'
  BY <1>1, <1>3 DEF CatalogInv, CatalogTypeOK
<1>5. ASSUME NEW h \in Goroutines
      PROVE  ReloadFits(task[h])' /\ RefillFits(task[h])'
  <2>1. CASE h = g
    <3>1. t \in Marked(t)
      BY DEF Marked
    <3>2. ReloadFits(t)' /\ RefillFits(t)'
      BY <1>1, <3>1, SameReload, SameRefill
    <3>3. QED
      BY <1>1, <2>1, <3>2 DEF ReloadFits, RefillFits
  <2>2. CASE h # g
    <3>1. /\ task[h] \in Marked(task[h]) /\ TaskOK(task[h])
          /\ ReloadFits(task[h]) /\ RefillFits(task[h])
      BY DEF Marked, CatalogInv, CatalogTypeOK
    <3>2. QED
      BY <1>1, <2>2, <3>1 DEF ReloadFits, RefillFits, DbKeys, TableKeys
  <2>3. QED
    BY <2>1, <2>2
<1>6. SoloFits(task[g])'
  BY <1>1 DEF SoloFits, DiskSchema, DbKeys, TableKeys
<1>7. CacheFresh' /\ ProtosFresh'
  BY <1>1 DEF CatalogInv, CacheFresh, ProtosFresh, DiskSchema, DbKeys, TableKeys
<1>8. QED
  BY <1>3, <1>4, <1>5, <1>6, <1>7 DEF CatalogInv

\* What the invariant says of one request.
LEMMA InvFacts ==
  ASSUME CatalogInv, NEW g \in Goroutines
  PROVE  /\ TaskOK(task[g]) /\ ReloadFits(task[g]) /\ RefillFits(task[g]) /\ SoloFits(task[g])
         /\ CatalogOK(schemaKeys) /\ IsSchema(full)
         /\ DOMAIN protoKeys \subseteq Passwords /\ DOMAIN protos \subseteq Passwords
         /\ calls \in 0..MaxCalls /\ DOMAIN task = Goroutines
BY DEF CatalogInv, CatalogTypeOK, IsMap

\* A request that is in its program, or has ended, has nothing to fit.
LEMMA NothingRead ==
  ASSUME NEW t, t.pc \in {"idle", "store", "dbs", "revoke", "accept", "ids"}
  PROVE  /\ ReloadFits(t) /\ RefillFits(t)
         /\ t.pc \in {"idle", "store", "dbs"} => SoloFits(t)
BY DEF ReloadFits, RefillFits, SoloFits

\* The first step of a program under way, and the rest of it.
LEMMA StepFacts ==
  ASSUME CatalogInv, NEW g \in Goroutines, task[g].pc = "store"
  PROVE  LET s == Head(task[g].steps) IN
         /\ s \in Steps /\ Next1(g) \in Seq(Steps)
         /\ s.do # "read" => HasColumns(Next1(g), task[g].cols)
         /\ s.do = "alter" => task[g].cols \in ColSets
<1>1. TaskOK(task[g]) /\ task[g].steps \in Seq(Steps)
  BY InvFacts, TaskFields
<1>2. task[g].steps # <<>> /\ HasColumns(task[g].steps, task[g].cols)
  BY <1>1 DEF TaskOK
<1>3. QED
  BY <1>1, <1>2, TailHasColumns DEF Next1

\* The tables of a database, as a scan finds them.
LEMMA ScannedTables ==
  ASSUME CatalogOK(schemaKeys), NEW db
  PROVE  /\ {k[2] : k \in TableKeys(db)} \in SUBSET Tabs
         /\ IsFiniteSet({k[2] : k \in TableKeys(db)})
<1>1. IsFiniteSet(TableKeys(db))
  BY FS_Subset DEF CatalogOK, TableKeys
<1>2. IsFiniteSet({k[2] : k \in TableKeys(db)})
  <2> DEFINE second == [k \in TableKeys(db) |-> k[2]]
             image == {k[2] : k \in TableKeys(db)}
  <2>1. second \in Surjection(TableKeys(db), image)
    BY DEF Surjection
  <2> HIDE DEF second, image
  <2>2. IsFiniteSet(image)
    BY <1>1, <2>1, FS_Surjection
  <2>3. QED
    BY <2>2 DEF image
<1>3. QED
  BY <1>2, KeyFacts

\* A scan adds the steps of the tables it finds.
LEMMA StoreScanInv ==
  ASSUME CatalogInv, NEW g \in Goroutines, StoreScan(g)
  PROVE  CatalogInv'
<1> DEFINE s == Head(task[g].steps)
           tables == {k[2] : k \in TableKeys(s.key[1])}
           steps == Expanded(s, tables) \o Next1(g)
<1>1. task[g].pc = "store" /\ s.do \in Scans /\ Progress(g, Onward(g, steps))
  BY DEF StoreScan, AtStep
<1>2. TaskOK(task[g]) /\ task[g].steps \in Seq(Steps)
  BY InvFacts, TaskFields
<1>3. task[g].steps # <<>> /\ HasColumns(task[g].steps, task[g].cols)
  BY <1>1, <1>2 DEF TaskOK
<1>4. tables \in SUBSET Tabs /\ IsFiniteSet(tables)
  BY InvFacts, ScannedTables
<1> HIDE DEF tables
<1>5. steps \in Seq(Steps) /\ HasColumns(steps, task[g].cols)
  BY <1>1, <1>2, <1>3, <1>4, ScanHasColumns DEF Next1
<1> HIDE DEF steps
<1>6. /\ TaskOK(Onward(g, steps)) /\ Onward(g, steps).pc \in {"store", "dbs"}
      /\ Onward(g, steps).clean = task[g].clean
  BY <1>1, <1>2, <1>5, OnwardOK
<1>7. QED
  BY <1>1, <1>6, NothingRead, ProgressStep

\* A read fetches the columns the alterations start from.
LEMMA StoreReadInv ==
  ASSUME CatalogInv, NEW g \in Goroutines, StoreRead(g)
  PROVE  CatalogInv'
<1> DEFINE s == Head(task[g].steps)
           u == Onward(g, Next1(g))
           cols == IF s.do = "read" THEN schemaKeys[s.key] ELSE task[g].cols
           t == [u EXCEPT !.cols = cols]
<1>1. /\ task[g].pc = "store" /\ s.do \in {"read", "probe"} /\ s.key \in DOMAIN schemaKeys
      /\ TaskOK(task[g]) /\ CatalogOK(schemaKeys)
  BY InvFacts DEF StoreRead, AtStep
<1>2. s \in Steps /\ Next1(g) \in Seq(Steps) /\ (s.do # "read" => HasColumns(Next1(g), task[g].cols))
  BY <1>1, StepFacts
<1>3. s.key \in TableNamed /\ schemaKeys[s.key] \in ColSets
  BY <1>1, <1>2, KeyFacts DEF Steps, StepFits
<1>4. /\ TaskForm(task[g]) /\ task[g].cols \in {NoSchema} \cup ColSets
  BY <1>1, TaskFields DEF TaskOK
<1>5. [u EXCEPT !.cols = IF s.do = "read" THEN schemaKeys[s.key] ELSE @] = t
  BY <1>4 DEF Onward, TaskForm
<1>6. Progress(g, t)
  BY <1>1, <1>5 DEF StoreRead
<1> HIDE DEF t, cols
<1>7. CASE s.do = "read"
  <2>1. cols \in ColSets /\ HasColumns(Next1(g), cols)
    BY <1>3, <1>7 DEF HasColumns, cols
  <2>2. TaskOK(t) /\ t.pc \in {"store", "dbs"} /\ t.clean = task[g].clean
    <3>1. TaskOK([u EXCEPT !.cols = cols]) /\ [u EXCEPT !.cols = cols].pc \in {"store", "dbs"}
          /\ [u EXCEPT !.cols = cols].clean = task[g].clean
      BY <1>1, <1>2, <2>1, OnwardOK
    <3>2. QED
      BY <3>1 DEF t
  <2>3. QED
    BY <1>1, <1>6, <2>2, NothingRead, ProgressStep
<1>8. CASE s.do # "read"
  <2>1. t = u
    BY <1>4, <1>8 DEF Onward, TaskForm, t, cols
  <2>2. TaskOK(t) /\ t.pc \in {"store", "dbs"} /\ t.clean = task[g].clean
    BY <1>1, <1>2, <1>8, <2>1, OnwardOK
  <2>3. QED
    BY <1>1, <1>6, <2>2, NothingRead, ProgressStep
<1>9. QED
  BY <1>7, <1>8

\* A folder step only moves on.
LEMMA StoreFolderInv ==
  ASSUME CatalogInv, NEW g \in Goroutines, StoreFolder(g)
  PROVE  CatalogInv'
<1> DEFINE t == Onward(g, Next1(g))
<1>1. /\ task[g].pc = "store" /\ Head(task[g].steps).do = "folder" /\ Progress(g, t)
      /\ TaskOK(task[g])
  BY InvFacts DEF StoreFolder, AtStep
<1>2. Next1(g) \in Seq(Steps) /\ HasColumns(Next1(g), task[g].cols)
  BY <1>1, StepFacts
<1>3. TaskOK(t) /\ t.pc \in {"store", "dbs"} /\ t.clean = task[g].clean
  BY <1>1, <1>2, OnwardOK
<1>4. QED
  BY <1>1, <1>3, NothingRead, ProgressStep

\* A failed step ends the request, unless its error is not looked at.
LEMMA StoreFailsInv ==
  ASSUME CatalogInv, NEW g \in Goroutines, StoreFails(g)
  PROVE  CatalogInv'
<1> DEFINE s == Head(task[g].steps)
           u == Onward(g, Next1(g))
           t == [u EXCEPT !.clean = FALSE]
<1>1. task[g].pc = "store" /\ TaskOK(task[g])
  BY InvFacts DEF StoreFails
<1>2. CASE s.do = "setQuietly"
  <2>1. Progress(g, t)
    BY <1>2 DEF StoreFails
  <2>2. Next1(g) \in Seq(Steps) /\ HasColumns(Next1(g), task[g].cols)
    BY <1>1, <1>2, StepFacts
  <2>3. TaskOK(u) /\ u.pc \in {"store", "dbs"} /\ u.clean = task[g].clean
    BY <1>1, <2>2, OnwardOK
  <2>4. t \in Marked(u)
    BY DEF Marked
  <2>5. TaskOK(t) /\ t.pc \in {"store", "dbs"} /\ (t.clean => task[g].clean)
    BY <2>3, <2>4, MarkedFacts
  <2> HIDE DEF t
  <2>6. QED
    BY <1>1, <2>1, <2>5, NothingRead, ProgressStep
<1>3. CASE s.do # "setQuietly"
  <2>1. Progress(g, Failed)
    BY <1>3 DEF StoreFails
  <2>2. QED
    BY <1>1, <2>1, NoTaskOK, NothingRead, ProgressStep
<1>4. QED
  BY <1>2, <1>3

-----------------------------------------------------------------------------
(* The reload of the cache, and the refill of the protocols.               *)

\* What a reload leaves a request in, and what the protocols' steps do.
LEMMA ReloadTaskOK ==
  ASSUME NEW t, TaskOK(t), t.pc \in {"dbs", "tables", "load"},
         NEW u, TaskForm(u), u.op = t.op, u.steps = t.steps, u.cols = t.cols,
         u.pc = (IF u.tabs # {} THEN "load" ELSE IF u.dbs # {} THEN "tables" ELSE "install"),
         IsSchema(u.got), \A k \in u.tabs : k[1] \in DOMAIN u.got
  PROVE  TaskOK(u)
BY DEF TaskOK

\* A request in the protocols' steps.
LEMMA ProtocolTaskOK ==
  ASSUME NEW t, TaskOK(t), t.pc \in {"install", "accept", "revoke", "ids", "clear", "fill", "put"},
         NEW u, TaskForm(u), u.op = t.op, u.steps = t.steps, u.cols = t.cols,
         u.dbs = t.dbs, u.tabs = t.tabs, IsSchema(u.got),
         \/ u.pc \in {"accept", "put"} /\ u.pw \in Passwords
         \/ u.pc \in {"ids", "clear", "fill"}
  PROVE  TaskOK(u)
BY DEF TaskOK

\* A request that ends is at rest.
LEMMA FinishOK ==
  ASSUME NEW g, NEW ok \in BOOLEAN
  PROVE  /\ TaskOK(Finish(g, ok)) /\ Finish(g, ok).pc = "idle"
         /\ TaskOK([Finish(g, ok) EXCEPT !.clean = FALSE])
         /\ [Finish(g, ok) EXCEPT !.clean = FALSE].pc = "idle"
<1>1. Finish(g, ok) \in {NoTask, Failed}
  <2> DEFINE seen == ok \/ task[g].op \in DDL
  <2>1. seen = TRUE \/ seen = FALSE
    OBVIOUS
  <2> HIDE DEF seen
  <2>2. [NoTask EXCEPT !.ok = TRUE] = NoTask
    <3>1. NoTask.ok = TRUE
      BY DEF NoTask
    <3>2. QED
      BY <3>1, NoTaskOK DEF TaskOK, TaskForm
  <2>3. seen = TRUE => [NoTask EXCEPT !.ok = seen] = NoTask
    BY <2>2
  <2>4. seen = FALSE => [NoTask EXCEPT !.ok = seen] = Failed
    BY DEF Failed
  <2>5. [NoTask EXCEPT !.ok = seen] = Finish(g, ok)
    BY DEF Finish, seen
  <2>6. QED
    BY <2>1, <2>3, <2>4, <2>5
<1>2. QED
  BY <1>1, NoTaskOK DEF NoTask, Failed

\* A reload begins: nothing read, nothing overtaken.
LEMMA GetDatabasesInv ==
  ASSUME CatalogInv, NEW g \in Goroutines, GetDatabases(g)
  PROVE  CatalogInv'
<1> DEFINE dbs == {k[1] : k \in DbKeys}
           t == [task[g] EXCEPT !.pc = IF dbs = {} THEN "install" ELSE "tables",
                                !.dbs = dbs, !.stale = FALSE]
<1>1. task[g].pc = "dbs" /\ Progress(g, t)
  BY DEF GetDatabases
<1>2. /\ TaskOK(task[g]) /\ TaskForm(task[g]) /\ task[g].got = Empty /\ task[g].tabs = {}
      /\ dbs \in SUBSET Dbs
  BY <1>1, InvFacts, KeyFacts, DbKeyFacts DEF TaskOK
<1> HIDE DEF dbs
<1>3. /\ t.op = task[g].op /\ t.steps = task[g].steps /\ t.cols = task[g].cols
      /\ t.pc = (IF dbs = {} THEN "install" ELSE "tables")
      /\ t.dbs = dbs /\ t.tabs = {} /\ t.got = Empty /\ ~t.stale /\ t.clean = task[g].clean
  BY <1>2 DEF TaskForm
<1>4. TaskForm(t)
  BY <1>2 DEF TaskForm, Pcs
<1> HIDE DEF t
<1>5. TaskOK(t)
  BY <1>1, <1>2, <1>3, <1>4, EmptyFacts, ReloadTaskOK
<1>6. ReloadFits(t) /\ RefillFits(t) /\ SoloFits(t)
  BY <1>3, EmptyFacts DEF ReloadFits, RefillFits, SoloFits, dbs
<1>7. QED
  BY <1>1, <1>3, <1>5, <1>6, ProgressStep

\* A database's tables are listed, none of them read yet.
LEMMA GetTablesInv ==
  ASSUME CatalogInv, NEW g \in Goroutines, GetTables(g)
  PROVE  CatalogInv'
<1> DEFINE old == task[g]
           db == CHOOSE d \in task[g].dbs : TRUE
           got == Put(old.got, db, Empty)
           t == Reading([old EXCEPT !.dbs = old.dbs \ {db}, !.tabs = TableKeys(db), !.got = got])
<1>1. /\ old.pc = "tables" /\ TaskOK(old) /\ TaskForm(old) /\ ReloadFits(old) /\ SoloFits(old)
      /\ old.dbs # {} /\ old.tabs = {} /\ IsSchema(old.got) /\ CatalogOK(schemaKeys)
  BY InvFacts DEF GetTables, TaskOK
<1>2. Progress(g, t)
  BY <1>1 DEF GetTables, TaskForm
<1>3. db \in old.dbs /\ db \in Dbs
  BY <1>1 DEF TaskForm
<1>4. DOMAIN got = DOMAIN old.got \cup {db} /\ IsSchema(got)
  <2>1. IsMap(Empty, Tabs, ColSets)
    BY EmptyFacts
  <2>2. IsSchema(got)
    BY <1>1, <1>3, <2>1, SchemaPut
  <2>3. QED
    BY <2>2 DEF Put
<1>5. got[db] = Empty /\ \A d \in DOMAIN old.got : d # db => got[d] = old.got[d]
  BY DEF Put
<1>6. /\ TableKeys(db) \in SUBSET TableNamed /\ \A k \in TableKeys(db) : k[1] = db
      /\ \A d : \A k \in TableKeys(d) : k[1] = d
  BY <1>1, KeyFacts
<1> HIDE DEF db, got
<1>7. /\ t.op = old.op /\ t.steps = old.steps /\ t.cols = old.cols
      /\ t.pc = (IF t.tabs # {} THEN "load" ELSE IF t.dbs # {} THEN "tables" ELSE "install")
      /\ t.dbs = old.dbs \ {db} /\ t.tabs = TableKeys(db) /\ t.got = got
      /\ t.stale = old.stale /\ t.clean = old.clean
  BY <1>1 DEF TaskForm, Reading
<1>8. TaskForm(t)
  BY <1>1, <1>6 DEF TaskForm, Pcs, Reading
<1> HIDE DEF t
<1>9. TaskOK(t)
  BY <1>1, <1>4, <1>6, <1>7, <1>8, ReloadTaskOK
<1>10. ReloadFits(t)
  <2>1. SUFFICES ASSUME ~t.stale
                 PROVE  /\ t.dbs \cup DOMAIN t.got = {k[1] : k \in DbKeys}
                        /\ \A d \in DOMAIN t.got :
                             /\ \A table \in DOMAIN t.got[d] : <<d, table>> \in TableKeys(d)
                             /\ \A k \in TableKeys(d) \ t.tabs :
                                  k[2] \in DOMAIN t.got[d] /\ t.got[d][k[2]] = schemaKeys[k]
    BY DEF ReloadFits
  <2>2. /\ old.dbs \cup DOMAIN old.got = {k[1] : k \in DbKeys}
        /\ \A d \in DOMAIN old.got :
             /\ \A table \in DOMAIN old.got[d] : <<d, table>> \in TableKeys(d)
             /\ \A k \in TableKeys(d) :
                  k[2] \in DOMAIN old.got[d] /\ old.got[d][k[2]] = schemaKeys[k]
    BY <1>1, <1>7, <2>1 DEF ReloadFits
  <2>3. t.dbs \cup DOMAIN t.got = {k[1] : k \in DbKeys}
    BY <1>3, <1>4, <1>7, <2>2
  <2>4. QED
    BY <1>4, <1>5, <1>6, <1>7, <2>2, <2>3, EmptyFacts
<1>11. RefillFits(t) /\ SoloFits(t)
  BY <1>1, <1>7 DEF RefillFits, SoloFits
<1>12. QED
  BY <1>1, <1>2, <1>7, <1>9, <1>10, <1>11, ProgressStep

\* One more table read, as it is on disk.
LEMMA GetTableSchemaInv ==
  ASSUME CatalogInv, NEW g \in Goroutines, GetTableSchema(g)
  PROVE  CatalogInv'
<1> DEFINE old == task[g]
           key == CHOOSE k \in task[g].tabs : TRUE
           db == key[1]
           got == Put(old.got, key[1], Put(old.got[key[1]], key[2], schemaKeys[key]))
           t == Reading([old EXCEPT !.tabs = old.tabs \ {key}, !.got = got])
<1>1. /\ old.pc = "load" /\ TaskOK(old) /\ TaskForm(old) /\ ReloadFits(old) /\ SoloFits(old)
      /\ old.tabs # {} /\ IsSchema(old.got) /\ CatalogOK(schemaKeys)
      /\ key \in DOMAIN schemaKeys
  BY InvFacts DEF GetTableSchema, TaskOK
<1>2. Progress(g, t)
  BY <1>1 DEF GetTableSchema, TaskForm
<1>3. key \in old.tabs /\ key \in TableNamed /\ db \in DOMAIN old.got
  BY <1>1 DEF TaskForm, TaskOK
<1>4. /\ key[2] \in Tabs /\ schemaKeys[key] \in ColSets /\ key \in TableKeys(db)
      /\ key = <<db, key[2]>>
  BY <1>1, <1>3, KeyFacts, TableKeyFacts
<1>5. /\ DOMAIN got = DOMAIN old.got /\ IsSchema(got)
      /\ DOMAIN got[db] = DOMAIN old.got[db] \cup {key[2]}
      /\ got[db][key[2]] = schemaKeys[key]
      /\ \A table \in DOMAIN old.got[db] : table # key[2] => got[db][table] = old.got[db][table]
      /\ \A d \in DOMAIN old.got : d # db => got[d] = old.got[d]
  <2>1. IsSchema(got)
    BY <1>1, <1>3, <1>4, TablePut
  <2>2. QED
    BY <1>3, <2>1 DEF Put
<1>6. \A d : \A k \in TableKeys(d) : k[1] = d /\ k = <<d, k[2]>>
  BY <1>1, KeyFacts
<1> HIDE DEF key, got
<1>7. /\ t.op = old.op /\ t.steps = old.steps /\ t.cols = old.cols
      /\ t.pc = (IF t.tabs # {} THEN "load" ELSE IF t.dbs # {} THEN "tables" ELSE "install")
      /\ t.dbs = old.dbs /\ t.tabs = old.tabs \ {key} /\ t.got = got
      /\ t.stale = old.stale /\ t.clean = old.clean
  BY <1>1 DEF TaskForm, Reading
<1>8. TaskForm(t)
  BY <1>1 DEF TaskForm, Pcs, Reading
<1> HIDE DEF t
<1>9. TaskOK(t)
  <2>1. \A k \in t.tabs : k[1] \in DOMAIN t.got
    BY <1>1, <1>5, <1>7 DEF TaskOK
  <2>2. QED
    BY <1>1, <1>5, <1>7, <1>8, <2>1, ReloadTaskOK
<1>10. ReloadFits(t)
  <2>1. SUFFICES ASSUME ~t.stale
                 PROVE  /\ t.dbs \cup DOMAIN t.got = {k[1] : k \in DbKeys}
                        /\ \A d \in DOMAIN t.got :
                             /\ \A table \in DOMAIN t.got[d] : <<d, table>> \in TableKeys(d)
                             /\ \A k \in TableKeys(d) \ t.tabs :
                                  k[2] \in DOMAIN t.got[d] /\ t.got[d][k[2]] = schemaKeys[k]
    BY DEF ReloadFits
  <2>2. /\ old.dbs \cup DOMAIN old.got = {k[1] : k \in DbKeys}
        /\ \A d \in DOMAIN old.got :
             /\ \A table \in DOMAIN old.got[d] : <<d, table>> \in TableKeys(d)
             /\ \A k \in TableKeys(d) \ old.tabs :
                  k[2] \in DOMAIN old.got[d] /\ old.got[d][k[2]] = schemaKeys[k]
    BY <1>1, <1>7, <2>1 DEF ReloadFits
  <2>3. ASSUME NEW d \in DOMAIN old.got, d # db
        PROVE  /\ \A table \in DOMAIN got[d] : <<d, table>> \in TableKeys(d)
               /\ \A k \in TableKeys(d) \ t.tabs :
                    k[2] \in DOMAIN got[d] /\ got[d][k[2]] = schemaKeys[k]
    BY <1>5, <1>6, <1>7, <2>2, <2>3
  <2>4. /\ \A table \in DOMAIN got[db] : <<db, table>> \in TableKeys(db)
        /\ \A k \in TableKeys(db) \ t.tabs :
             k[2] \in DOMAIN got[db] /\ got[db][k[2]] = schemaKeys[k]
    <3>1. ASSUME NEW k \in TableKeys(db) \ t.tabs, k # key
          PROVE  k[2] \in DOMAIN got[db] /\ got[db][k[2]] = schemaKeys[k]
      <4>1. k \notin old.tabs /\ k[2] # key[2]
        BY <1>4, <1>6, <1>7, <3>1
      <4>2. QED
        BY <1>3, <1>5, <2>2, <4>1
    <3>2. QED
      BY <1>3, <1>4, <1>5, <2>2, <3>1
  <2> HIDE DEF db
  <2>5. QED
    BY <1>5, <1>7, <2>2, <2>3, <2>4
<1>11. RefillFits(t) /\ SoloFits(t)
  BY <1>1, <1>7 DEF RefillFits, SoloFits
<1>12. QED
  BY <1>1, <1>2, <1>7, <1>9, <1>10, <1>11, ProgressStep

\* A failed reload counts as overtaken.
LEMMA GetFullSchemaFailsInv ==
  ASSUME CatalogInv, NEW g \in Goroutines, GetFullSchemaFails(g)
  PROVE  CatalogInv'
<1> DEFINE old == task[g]
           t == [old EXCEPT !.pc = "install", !.got = Empty, !.dbs = {}, !.tabs = {},
                            !.stale = TRUE, !.clean = FALSE]
<1>1. /\ old.pc \in {"dbs", "tables", "load"} /\ TaskOK(old) /\ TaskForm(old)
      /\ Progress(g, t)
  BY InvFacts DEF GetFullSchemaFails, TaskOK
<1>2. /\ t.op = old.op /\ t.steps = old.steps /\ t.cols = old.cols /\ t.pc = "install"
      /\ t.dbs = {} /\ t.tabs = {} /\ t.got = Empty /\ t.stale /\ ~t.clean
  BY <1>1 DEF TaskForm
<1>3. TaskForm(t)
  BY <1>1 DEF TaskForm, Pcs
<1> HIDE DEF t
<1>4. TaskOK(t)
  BY <1>1, <1>2, <1>3, EmptyFacts, ReloadTaskOK
<1>5. ReloadFits(t) /\ RefillFits(t) /\ SoloFits(t)
  BY <1>2 DEF ReloadFits, RefillFits, SoloFits
<1>6. QED
  BY <1>1, <1>2, <1>4, <1>5, ProgressStep

\* A refused protocol changes nothing.
LEMMA RefuseProtocolInv ==
  ASSUME CatalogInv, NEW g \in Goroutines, RefuseProtocol(g)
  PROVE  CatalogInv'
<1> DEFINE t == Finish(g, FALSE)
<1>1. task[g].pc = "accept" /\ Progress(g, t)
  BY DEF RefuseProtocol
<1> HIDE DEF t
<1>2. TaskOK(t) /\ t.pc = "idle"
  BY FinishOK DEF t
<1>3. QED
  BY <1>1, <1>2, NothingRead, ProgressStep

\* A refill begins with the passwords stored.
LEMMA GetProtocolIDsInv ==
  ASSUME CatalogInv, NEW g \in Goroutines, GetProtocolIDs(g)
  PROVE  CatalogInv'
<1> DEFINE old == task[g]
           t == [old EXCEPT !.pc = "clear", !.ids = DOMAIN protoKeys, !.pstale = FALSE]
<1>1. /\ old.pc = "ids" /\ TaskOK(old) /\ TaskForm(old) /\ IsSchema(old.got) /\ SoloFits(old)
      /\ Progress(g, t) /\ DOMAIN protoKeys \subseteq Passwords
  BY InvFacts DEF GetProtocolIDs, TaskOK
<1>2. /\ t.op = old.op /\ t.steps = old.steps /\ t.cols = old.cols /\ t.pc = "clear"
      /\ t.dbs = old.dbs /\ t.tabs = old.tabs /\ t.got = old.got
      /\ t.ids = DOMAIN protoKeys /\ ~t.pstale /\ t.clean = old.clean
  BY <1>1 DEF TaskForm
<1>3. TaskForm(t)
  BY <1>1 DEF TaskForm, Pcs
<1> HIDE DEF t
<1>4. TaskOK(t)
  BY <1>1, <1>2, <1>3, ProtocolTaskOK
<1>5. ReloadFits(t) /\ RefillFits(t) /\ SoloFits(t)
  BY <1>1, <1>2 DEF ReloadFits, RefillFits, SoloFits
<1>6. QED
  BY <1>1, <1>2, <1>4, <1>5, ProgressStep

\* One protocol read, to be put.
LEMMA GetProtocolByPasswordInv ==
  ASSUME CatalogInv, NEW g \in Goroutines, GetProtocolByPassword(g)
  PROVE  CatalogInv'
<1> DEFINE old == task[g]
<1>1. PICK id \in old.ids :
        /\ id \in DOMAIN protoKeys
        /\ Progress(g, [old EXCEPT !.pc = "put", !.pw = id, !.proto = protoKeys[id]])
  BY DEF GetProtocolByPassword
<1> DEFINE t == [old EXCEPT !.pc = "put", !.pw = id, !.proto = protoKeys[id]]
<1>2. /\ old.pc = "fill" /\ TaskOK(old) /\ TaskForm(old) /\ IsSchema(old.got)
      /\ SoloFits(old) /\ RefillFits(old) /\ DOMAIN protoKeys \subseteq Passwords
  BY InvFacts DEF GetProtocolByPassword, TaskOK
<1>3. /\ t.op = old.op /\ t.steps = old.steps /\ t.cols = old.cols /\ t.pc = "put"
      /\ t.dbs = old.dbs /\ t.tabs = old.tabs /\ t.got = old.got
      /\ t.ids = old.ids /\ t.pstale = old.pstale /\ t.clean = old.clean
      /\ t.pw = id /\ t.proto = protoKeys[id]
  BY <1>2 DEF TaskForm
<1>4. TaskForm(t)
  BY <1>1, <1>2 DEF TaskForm, Pcs
<1>5. Progress(g, t)
  BY <1>1
<1> HIDE DEF t
<1>6. TaskOK(t)
  BY <1>1, <1>2, <1>3, <1>4, ProtocolTaskOK
<1>7. ReloadFits(t) /\ RefillFits(t) /\ SoloFits(t)
  BY <1>1, <1>2, <1>3 DEF ReloadFits, RefillFits, SoloFits
<1>8. QED
  BY <1>2, <1>3, <1>5, <1>6, <1>7, ProgressStep

-----------------------------------------------------------------------------
(* Steps that change what other requests have read, or the caches.         *)

\* A schema key written: what others have read of the schema is too old now.
LEMMA SchemaWriteInv ==
  ASSUME CatalogInv, NEW g \in Goroutines, task[g].pc = "store",
         NEW keys, CatalogOK(keys), NEW t, TaskOK(t), t.pc \in {"store", "dbs"},
         t.clean = task[g].clean, SchemaWrite(g, keys, t)
  PROVE  CatalogInv'
<1>1. /\ task'[g] = t /\ DOMAIN task' = Goroutines
      /\ \A h \in Goroutines \ {g} :
           IF task[h].pc \in {"tables", "load", "install"}
             THEN task'[h] = [task[h] EXCEPT !.stale = TRUE] ELSE task'[h] = task[h]
      /\ schemaKeys' = keys /\ cacheStale' = TRUE
      /\ UNCHANGED <<protoKeys, full, protos, calls, protoStale>>
  BY DEF SchemaWrite
<1>2. \A h \in Goroutines \ {g} : task'[h] \in Marked(task[h])
  BY <1>1 DEF Marked
<1>3. CleanRunsAlone' /\ \A h \in Goroutines \ {g} : TaskOK(task'[h]) /\ SoloFits(task[h])'
  BY <1>1, <1>2, OthersRest
<1>4. CatalogTypeOK'
  BY <1>1, <1>3 DEF CatalogInv, CatalogTypeOK
<1>5. ReloadFits(task[g])' /\ RefillFits(task[g])' /\ SoloFits(task[g])'
  BY <1>1 DEF ReloadFits, RefillFits, SoloFits
<1>6. ASSUME NEW h \in Goroutines \ {g}
      PROVE  ReloadFits(task[h])' /\ RefillFits(task[h])'
  <2>1. TaskOK(task[h]) /\ TaskForm(task[h]) /\ RefillFits(task[h]) /\ task'[h] \in Marked(task[h])
    BY <1>2, InvFacts DEF TaskOK
  <2>2. RefillFits(task[h])'
    BY <1>1, <2>1, SameRefill DEF RefillFits
  <2>3. task'[h].pc \in {"tables", "load", "install"} => task'[h].stale
    BY <1>1, <2>1 DEF TaskForm
  <2>4. QED
    BY <2>2, <2>3 DEF ReloadFits
<1>7. CacheFresh' /\ ProtosFresh'
  BY <1>1 DEF CatalogInv, CacheFresh, ProtosFresh
<1>8. QED
  BY <1>3, <1>4, <1>5, <1>6, <1>7 DEF CatalogInv

\* A key set.
LEMMA StoreSetInv ==
  ASSUME CatalogInv, NEW g \in Goroutines, StoreSet(g)
  PROVE  CatalogInv'
<1> DEFINE s == Head(task[g].steps)
           t == Onward(g, Next1(g))
           keys == Put(schemaKeys, s.key, s.val)
<1>1. /\ task[g].pc = "store" /\ s.do \in {"set", "setQuietly"} /\ SchemaWrite(g, keys, t)
      /\ TaskOK(task[g]) /\ CatalogOK(schemaKeys)
  BY InvFacts DEF StoreSet, AtStep
<1>2. s \in Steps /\ Next1(g) \in Seq(Steps) /\ HasColumns(Next1(g), task[g].cols)
  BY <1>1, StepFacts
<1>3. EntryOK(s.key, s.val)
  BY <1>1, <1>2 DEF Steps, StepFits
<1>4. CatalogOK(keys)
  BY <1>1, <1>3, CatalogPut
<1>5. TaskOK(t) /\ t.pc \in {"store", "dbs"} /\ t.clean = task[g].clean
  BY <1>1, <1>2, OnwardOK
<1> HIDE DEF t, keys
<1>6. QED
  BY <1>1, <1>4, <1>5, SchemaWriteInv

\* A key deleted.
LEMMA StoreDeleteInv ==
  ASSUME CatalogInv, NEW g \in Goroutines, StoreDelete(g)
  PROVE  CatalogInv'
<1> DEFINE s == Head(task[g].steps)
           t == Onward(g, Next1(g))
           keys == Drop(schemaKeys, s.key)
<1>1. /\ task[g].pc = "store" /\ s.do = "del" /\ SchemaWrite(g, keys, t)
      /\ TaskOK(task[g]) /\ CatalogOK(schemaKeys)
  BY InvFacts DEF StoreDelete, AtStep
<1>2. Next1(g) \in Seq(Steps) /\ HasColumns(Next1(g), task[g].cols)
  BY <1>1, StepFacts
<1>3. CatalogOK(keys)
  BY <1>1, CatalogDrop
<1>4. TaskOK(t) /\ t.pc \in {"store", "dbs"} /\ t.clean = task[g].clean
  BY <1>1, <1>2, OnwardOK
<1> HIDE DEF t, keys
<1>5. QED
  BY <1>1, <1>3, <1>4, SchemaWriteInv

\* A table's columns copied to another key.
LEMMA StoreCopyInv ==
  ASSUME CatalogInv, NEW g \in Goroutines, StoreCopy(g)
  PROVE  CatalogInv'
<1> DEFINE s == Head(task[g].steps)
           t == Onward(g, Next1(g))
           keys == Put(schemaKeys, s.to, schemaKeys[s.key])
<1>1. /\ task[g].pc = "store" /\ s.do = "copy" /\ SchemaWrite(g, keys, t)
      /\ TaskOK(task[g]) /\ CatalogOK(schemaKeys) /\ s.key \in DOMAIN schemaKeys
  BY InvFacts DEF StoreCopy, AtStep
<1>2. s \in Steps /\ Next1(g) \in Seq(Steps) /\ HasColumns(Next1(g), task[g].cols)
  BY <1>1, StepFacts
<1>3. s.key \in TableNamed /\ s.to \in TableNamed
  BY <1>1, <1>2 DEF Steps, StepFits
<1>4. EntryOK(s.to, schemaKeys[s.key])
  BY <1>1, <1>3, KeyFacts DEF EntryOK
<1>5. CatalogOK(keys)
  BY <1>1, <1>4, CatalogPut
<1>6. TaskOK(t) /\ t.pc \in {"store", "dbs"} /\ t.clean = task[g].clean
  BY <1>1, <1>2, OnwardOK
<1> HIDE DEF t, keys
<1>7. QED
  BY <1>1, <1>5, <1>6, SchemaWriteInv

\* A table's columns altered and saved.
LEMMA StoreAlterInv ==
  ASSUME CatalogInv, NEW g \in Goroutines, StoreAlter(g)
  PROVE  CatalogInv'
<1> DEFINE s == Head(task[g].steps)
           cols == Altered(task[g].cols, s.val)
           t == [Onward(g, Next1(g)) EXCEPT !.cols = cols]
           keys == Put(schemaKeys, s.key, cols)
<1>1. /\ task[g].pc = "store" /\ s.do = "alter" /\ SchemaWrite(g, keys, t)
      /\ TaskOK(task[g]) /\ CatalogOK(schemaKeys)
  BY InvFacts DEF StoreAlter, AtStep
<1>2. /\ s \in Steps /\ Next1(g) \in Seq(Steps) /\ HasColumns(Next1(g), task[g].cols)
      /\ task[g].cols \in ColSets
  BY <1>1, StepFacts
<1>3. s.key \in TableNamed /\ s.val \in AlterationForms
  BY <1>1, <1>2 DEF Steps, StepFits
<1>4. cols \in ColSets
  BY <1>2, <1>3, AlteredType
<1> HIDE DEF cols
<1>5. EntryOK(s.key, cols) /\ HasColumns(Next1(g), cols)
  BY <1>3, <1>4 DEF EntryOK, HasColumns
<1>6. CatalogOK(keys)
  BY <1>1, <1>5, CatalogPut
<1>7. TaskOK(t) /\ t.pc \in {"store", "dbs"} /\ t.clean = task[g].clean
  BY <1>1, <1>2, <1>4, <1>5, OnwardOK
<1> HIDE DEF t, keys
<1>8. QED
  BY <1>1, <1>6, <1>7, SchemaWriteInv

\* A reload that no write has overtaken has read the schema on disk.
LEMMA CompleteReload ==
  ASSUME CatalogOK(schemaKeys), NEW t, TaskOK(t), ReloadFits(t), t.pc = "install", ~t.stale
  PROVE  t.got = DiskSchema
<1> DEFINE got == t.got
           Tables(db) == {k[2] : k \in TableKeys(db)}
<1>1. IsSchema(got) /\ t.dbs = {} /\ t.tabs = {}
  BY DEF TaskOK
<1>2. /\ DOMAIN got = {k[1] : k \in DbKeys}
      /\ \A db \in DOMAIN got :
           /\ \A table \in DOMAIN got[db] : <<db, table>> \in TableKeys(db)
           /\ \A k \in TableKeys(db) :
                k[2] \in DOMAIN got[db] /\ got[db][k[2]] = schemaKeys[k]
  BY <1>1 DEF ReloadFits
<1>3. got = [db \in DOMAIN got |-> got[db]]
  BY <1>1, SchemaFacts
<1>4. ASSUME NEW db \in DOMAIN got
      PROVE  got[db] = [table \in Tables(db) |-> schemaKeys[<<db, table>>]]
  <2>1. got[db] = [table \in DOMAIN got[db] |-> got[db][table]]
    BY <1>1, SchemaFacts
  <2>2. DOMAIN got[db] = Tables(db)
    <3>1. ASSUME NEW table \in DOMAIN got[db]
          PROVE  table \in Tables(db)
      <4>1. <<db, table>> \in TableKeys(db) /\ <<db, table>>[2] = table
        BY <1>2
      <4>2. QED
        BY <4>1
    <3>2. \A table \in Tables(db) : table \in DOMAIN got[db]
      BY <1>2
    <3> HIDE DEF Tables
    <3>3. QED
      BY <3>1, <3>2
  <2>3. ASSUME NEW table \in Tables(db)
        PROVE  got[db][table] = schemaKeys[<<db, table>>]
    BY <1>2, KeyFacts
  <2> HIDE DEF Tables
  <2>4. QED
    BY <2>1, <2>2, <2>3
<1>5. DiskSchema = [db \in DOMAIN got |-> [table \in Tables(db) |-> schemaKeys[<<db, table>>]]]
  BY <1>2 DEF DiskSchema
<1> HIDE DEF Tables
<1>6. QED
  BY <1>3, <1>4, <1>5

\* What was read is installed: fresh, unless a write has overtaken it.
LEMMA SetFullSchemaInv ==
  ASSUME CatalogInv, NEW g \in Goroutines, SetFullSchema(g)
  PROVE  CatalogInv'
<1> DEFINE old == task[g]
           t == [old EXCEPT !.pc = "accept", !.pw = Default,
                            !.proto = ProtocolBySchema(old.got), !.got = Empty]
<1>1. /\ old.pc = "install" /\ TaskOK(old) /\ TaskForm(old) /\ ReloadFits(old)
      /\ SoloFits(old) /\ IsSchema(old.got) /\ CatalogOK(schemaKeys)
  BY InvFacts DEF SetFullSchema, TaskOK
<1>2. /\ task'[g] = t /\ DOMAIN task' = Goroutines
      /\ \A h \in Goroutines \ {g} : task'[h] = task[h]
      /\ full' = old.got /\ cacheStale' = old.stale
      /\ UNCHANGED <<schemaKeys, protoKeys, protos, calls, protoStale>>
  BY <1>1, InvFacts DEF SetFullSchema, diskVars
<1>3. /\ t.op = old.op /\ t.steps = old.steps /\ t.cols = old.cols /\ t.pc = "accept"
      /\ t.dbs = old.dbs /\ t.tabs = old.tabs /\ t.got = Empty /\ t.clean = old.clean
      /\ t.pw = Default /\ t.proto = ProtocolBySchema(old.got)
  BY <1>1 DEF TaskForm
<1>4. TaskForm(t) /\ Default \in Passwords
  BY <1>1, CatalogConstants DEF TaskForm, Pcs
<1> HIDE DEF t
<1>5. TaskOK(t)
  BY <1>1, <1>3, <1>4, EmptyFacts, ProtocolTaskOK
<1>6. \A h \in Goroutines \ {g} : task'[h] \in Marked(task[h])
  BY <1>2 DEF Marked
<1>7. CleanRunsAlone' /\ \A h \in Goroutines \ {g} : TaskOK(task'[h]) /\ SoloFits(task[h])'
  BY <1>1, <1>2, <1>3, <1>6, OthersRest
<1>8. CatalogTypeOK'
  BY <1>1, <1>2, <1>5, <1>7 DEF CatalogInv, CatalogTypeOK
<1>9. ~old.stale => full' = DiskSchema'
  BY <1>1, <1>2, CompleteReload DEF DiskSchema, DbKeys, TableKeys
<1>10. ReloadFits(task[g])' /\ RefillFits(task[g])' /\ SoloFits(task[g])'
  BY <1>1, <1>2, <1>3, <1>9 DEF ReloadFits, RefillFits, SoloFits
<1>11. ASSUME NEW h \in Goroutines \ {g}
       PROVE  ReloadFits(task[h])' /\ RefillFits(task[h])'
  <2>1. /\ TaskOK(task[h]) /\ ReloadFits(task[h]) /\ RefillFits(task[h])
    BY InvFacts
  <2>2. QED
    BY <1>2, <2>1 DEF ReloadFits, RefillFits, DbKeys, TableKeys
<1>12. CacheFresh' /\ ProtosFresh'
  BY <1>2, <1>9 DEF CatalogInv, CacheFresh, ProtosFresh
<1>13. QED
  BY <1>7, <1>8, <1>10, <1>11, <1>12 DEF CatalogInv

\* A protocol written: what others have read of the protocols is too old now.
LEMMA ProtoWriteInv ==
  ASSUME CatalogInv, NEW g \in Goroutines, task[g].pc \in {"accept", "revoke"},
         NEW keys, IsMap(keys, Passwords, Range(keys)), ProtoWrite(g, keys),
         task[g].clean /\ task[g].op \in DDL =>
           full = DiskSchema /\ Default \in DOMAIN keys /\ keys[Default] = ProtocolBySchema(full)
  PROVE  CatalogInv'
<1> DEFINE old == task[g]
           t == [old EXCEPT !.pc = "ids"]
<1>1. /\ TaskOK(old) /\ TaskForm(old) /\ IsSchema(old.got)
  BY InvFacts DEF TaskOK
<1>2. /\ task'[g] = t /\ DOMAIN task' = Goroutines
      /\ \A h \in Goroutines \ {g} :
           IF task[h].pc \in {"clear", "fill", "put"}
             THEN task'[h] = [task[h] EXCEPT !.pstale = TRUE] ELSE task'[h] = task[h]
      /\ protoKeys' = keys /\ protoStale' = TRUE
      /\ UNCHANGED <<schemaKeys, full, protos, calls, cacheStale>>
  BY DEF ProtoWrite
<1>3. /\ t.op = old.op /\ t.steps = old.steps /\ t.cols = old.cols /\ t.pc = "ids"
      /\ t.dbs = old.dbs /\ t.tabs = old.tabs /\ t.got = old.got /\ t.clean = old.clean
  BY <1>1 DEF TaskForm
<1>4. TaskForm(t)
  BY <1>1 DEF TaskForm, Pcs
<1> HIDE DEF t
<1>5. TaskOK(t)
  BY <1>1, <1>3, <1>4, ProtocolTaskOK
<1>6. \A h \in Goroutines \ {g} : task'[h] \in Marked(task[h])
  BY <1>2 DEF Marked
<1>7. CleanRunsAlone' /\ \A h \in Goroutines \ {g} : TaskOK(task'[h]) /\ SoloFits(task[h])'
  BY <1>1, <1>2, <1>3, <1>6, OthersRest
<1>8. CatalogTypeOK'
  BY <1>1, <1>2, <1>5, <1>7 DEF CatalogInv, CatalogTypeOK
<1>9. ReloadFits(task[g])' /\ RefillFits(task[g])'
  BY <1>2, <1>3 DEF ReloadFits, RefillFits
<1>10. SoloFits(task[g])'
  <2>1. DiskSchema' = DiskSchema /\ full' = full
    BY <1>2 DEF DiskSchema, DbKeys, TableKeys
  <2>2. CASE old.clean /\ old.op \in DDL
    <3>1. full = DiskSchema /\ Default \in DOMAIN keys /\ keys[Default] = ProtocolBySchema(full)
      BY <2>2
    <3>2. QED
      BY <1>2, <1>3, <2>1, <2>2, <3>1 DEF SoloFits
  <2>3. CASE ~(old.clean /\ old.op \in DDL)
    BY <1>2, <1>3, <2>3 DEF SoloFits
  <2>4. QED
    BY <2>2, <2>3
<1>11. ASSUME NEW h \in Goroutines \ {g}
       PROVE  ReloadFits(task[h])' /\ RefillFits(task[h])'
  <2>1. /\ TaskOK(task[h]) /\ TaskForm(task[h]) /\ ReloadFits(task[h])
        /\ task'[h] \in Marked(task[h])
    BY <1>6, InvFacts DEF TaskOK
  <2>2. ReloadFits(task[h])'
    BY <1>2, <2>1, SameReload DEF ReloadFits
  <2>3. task'[h].pc \in {"clear", "fill", "put"} => task'[h].pstale
    BY <1>2, <2>1 DEF TaskForm
  <2>4. QED
    BY <2>2, <2>3 DEF RefillFits
<1>12. CacheFresh' /\ ProtosFresh'
  BY <1>2 DEF CatalogInv, CacheFresh, ProtosFresh, DiskSchema, DbKeys, TableKeys
<1>13. QED
  BY <1>7, <1>8, <1>9, <1>10, <1>11, <1>12 DEF CatalogInv

\* A valid protocol stored.
LEMMA AcceptProtocolInv ==
  ASSUME CatalogInv, NEW g \in Goroutines, AcceptProtocol(g)
  PROVE  CatalogInv'
<1> DEFINE old == task[g]
           keys == Put(protoKeys, old.pw, old.proto)
<1>1. old.pc = "accept" /\ ProtoWrite(g, keys)
  BY DEF AcceptProtocol
<1>2. old.pw \in Passwords /\ DOMAIN protoKeys \subseteq Passwords /\ SoloFits(old)
  BY <1>1, InvFacts DEF TaskOK
<1>3. IsMap(keys, Passwords, Range(keys))
  BY <1>2, PutMap
<1>4. old.clean /\ old.op \in DDL =>
        full = DiskSchema /\ Default \in DOMAIN keys /\ keys[Default] = ProtocolBySchema(full)
  BY <1>1, <1>2 DEF SoloFits, Put
<1> HIDE DEF keys
<1>5. QED
  BY <1>1, <1>3, <1>4, ProtoWriteInv

\* A protocol deleted.
LEMMA RevokeProtocolInv ==
  ASSUME CatalogInv, NEW g \in Goroutines, RevokeProtocol(g)
  PROVE  CatalogInv'
<1> DEFINE keys == Drop(protoKeys, task[g].pw)
<1>1. task[g].pc = "revoke" /\ ProtoWrite(g, keys)
  BY DEF RevokeProtocol
<1>2. DOMAIN protoKeys \subseteq Passwords /\ task[g].op \notin DDL
  BY <1>1, InvFacts DEF TaskOK, DDL
<1>3. IsMap(keys, Passwords, Range(keys))
  BY <1>2, DropMap
<1> HIDE DEF keys
<1>4. QED
  BY <1>1, <1>2, <1>3, ProtoWriteInv

\* An error leaves the map half filled.
LEMMA ProtocolFailsInv ==
  ASSUME CatalogInv, NEW g \in Goroutines, ProtocolFails(g)
  PROVE  CatalogInv'
<1> DEFINE t == [Finish(g, FALSE) EXCEPT !.clean = FALSE]
<1>1. /\ task[g].pc # "idle" /\ task'[g] = t /\ DOMAIN task' = Goroutines
      /\ \A h \in Goroutines \ {g} : task'[h] = task[h]
      /\ protoStale' = TRUE
      /\ UNCHANGED <<schemaKeys, protoKeys, full, protos, calls, cacheStale>>
  BY InvFacts DEF ProtocolFails, diskVars
<1>2. TaskOK(t) /\ t.pc = "idle"
  BY FinishOK
<1> HIDE DEF t
<1>3. \A h \in Goroutines \ {g} : task'[h] \in Marked(task[h])
  BY <1>1 DEF Marked
<1>4. CleanRunsAlone' /\ \A h \in Goroutines \ {g} : TaskOK(task'[h]) /\ SoloFits(task[h])'
  BY <1>1, <1>2, <1>3, OthersRest
<1>5. CatalogTypeOK'
  BY <1>1, <1>2, <1>4 DEF CatalogInv, CatalogTypeOK
<1>6. ReloadFits(task[g])' /\ RefillFits(task[g])' /\ SoloFits(task[g])'
  BY <1>1, <1>2 DEF ReloadFits, RefillFits, SoloFits
<1>7. ASSUME NEW h \in Goroutines \ {g}
      PROVE  ReloadFits(task[h])' /\ RefillFits(task[h])'
  <2>1. ReloadFits(task[h]) /\ RefillFits(task[h])
    BY InvFacts
  <2>2. QED
    BY <1>1, <2>1 DEF ReloadFits, RefillFits, DbKeys, TableKeys
<1>8. CacheFresh' /\ ProtosFresh'
  BY <1>1 DEF CatalogInv, CacheFresh, ProtosFresh, DiskSchema, DbKeys, TableKeys
<1>9. QED
  BY <1>4, <1>5, <1>6, <1>7, <1>8 DEF CatalogInv

\* The map emptied: the refills under way lose what they have put.
LEMMA ClearProtocolsInv ==
  ASSUME CatalogInv, NEW g \in Goroutines, ClearProtocols(g)
  PROVE  CatalogInv'
<1> DEFINE old == task[g]
           fill == [old EXCEPT !.pc = "fill"]
           t == IF old.ids = {} THEN Finish(g, TRUE) ELSE fill
<1>1. /\ old.pc = "clear" /\ TaskOK(old) /\ TaskForm(old) /\ IsSchema(old.got)
      /\ RefillFits(old) /\ SoloFits(old)
      /\ IsMap(protoKeys, Passwords, Range(protoKeys))
  BY InvFacts DEF ClearProtocols, TaskOK, CatalogInv, CatalogTypeOK
<1>2. /\ task'[g] = t /\ DOMAIN task' = Goroutines
      /\ \A h \in Goroutines \ {g} :
           IF task[h].pc \in {"fill", "put"}
             THEN task'[h] = [task[h] EXCEPT !.pstale = TRUE] ELSE task'[h] = task[h]
      /\ protos' = Empty /\ protoStale' = (old.ids # {} \/ old.pstale)
      /\ UNCHANGED <<schemaKeys, protoKeys, full, calls, cacheStale>>
  BY DEF ClearProtocols, diskVars
<1>3. /\ fill.op = old.op /\ fill.steps = old.steps /\ fill.cols = old.cols
      /\ fill.pc = "fill" /\ fill.dbs = old.dbs /\ fill.tabs = old.tabs /\ fill.got = old.got
      /\ fill.ids = old.ids /\ fill.pstale = old.pstale /\ fill.clean = old.clean
  BY <1>1 DEF TaskForm
<1>4. TaskForm(fill)
  BY <1>1 DEF TaskForm, Pcs
<1> HIDE DEF fill
<1>5. TaskOK(fill)
  BY <1>1, <1>3, <1>4, ProtocolTaskOK
<1>6. /\ TaskOK(t) /\ t.pc \in {"idle", "fill"}
      /\ t.pc # "idle" => t = fill /\ old.ids # {}
  BY <1>3, <1>5, FinishOK
<1>7. old.ids = {} => t.pc = "idle"
  BY FinishOK
<1> HIDE DEF t
<1>8. \A h \in Goroutines \ {g} : task'[h] \in Marked(task[h])
  BY <1>2 DEF Marked
<1>9. CleanRunsAlone' /\ \A h \in Goroutines \ {g} : TaskOK(task'[h]) /\ SoloFits(task[h])'
  BY <1>1, <1>2, <1>3, <1>6, <1>8, OthersRest
<1>10. CatalogTypeOK'
  BY <1>1, <1>2, <1>6, <1>9, EmptyFacts DEF CatalogInv, CatalogTypeOK
<1>11. ReloadFits(task[g])' /\ RefillFits(task[g])'
  BY <1>1, <1>2, <1>3, <1>6, EmptyFacts DEF ReloadFits, RefillFits
<1>12. SoloFits(task[g])'
  <2>1. DiskSchema' = DiskSchema /\ full' = full
    BY <1>2 DEF DiskSchema, DbKeys, TableKeys
  <2>2. QED
    BY <1>1, <1>2, <1>3, <1>6, <2>1 DEF SoloFits
<1>13. ASSUME NEW h \in Goroutines \ {g}
       PROVE  ReloadFits(task[h])' /\ RefillFits(task[h])'
  <2>1. /\ TaskOK(task[h]) /\ TaskForm(task[h]) /\ ReloadFits(task[h]) /\ RefillFits(task[h])
        /\ task'[h] \in Marked(task[h])
    BY <1>8, InvFacts DEF TaskOK
  <2>2. ReloadFits(task[h])'
    BY <1>2, <2>1, SameReload DEF ReloadFits
  <2>3. IF task[h].pc \in {"fill", "put"}
          THEN task'[h].pc = task[h].pc /\ task'[h].pstale ELSE task'[h] = task[h]
    BY <1>2, <2>1 DEF TaskForm
  <2>4. RefillFits(task[h])'
    BY <1>2, <2>1, <2>3 DEF RefillFits
  <2>5. QED
    BY <2>2, <2>4
<1>14. CacheFresh'
  BY <1>2 DEF CatalogInv, CacheFresh, DiskSchema, DbKeys, TableKeys
<1>15. ProtosFresh'
  <2>1. SUFFICES ASSUME old.ids = {}, ~old.pstale
                 PROVE  protoKeys = Empty
    BY <1>2 DEF ProtosFresh
  <2>2. DOMAIN protoKeys = {} /\ protoKeys = [x \in DOMAIN protoKeys |-> protoKeys[x]]
    BY <1>1, <2>1, MapFacts DEF RefillFits
  <2>3. QED
    BY <2>2 DEF Empty
<1>16. QED
  BY <1>9, <1>10, <1>11, <1>12, <1>13, <1>14, <1>15 DEF CatalogInv

\* Two maps with the same keys and values are one.
LEMMA SameMap ==
  ASSUME NEW f, NEW h, NEW K, IsMap(f, K, Range(f)), IsMap(h, K, Range(h)),
         DOMAIN f = DOMAIN h, \A x \in DOMAIN f : f[x] = h[x]
  PROVE  f = h
BY MapFacts

\* One protocol put; the last one makes the map whole, unless overtaken.
LEMMA PutProtocolInv ==
  ASSUME CatalogInv, NEW g \in Goroutines, PutProtocol(g)
  PROVE  CatalogInv'
<1> DEFINE old == task[g]
           left == old.ids \ {old.pw}
           fill == [old EXCEPT !.pc = "fill", !.ids = left]
           t == IF left = {} THEN Finish(g, TRUE) ELSE fill
           map == Put(protos, old.pw, old.proto)
<1>1. /\ old.pc = "put" /\ TaskOK(old) /\ TaskForm(old) /\ IsSchema(old.got)
      /\ RefillFits(old) /\ SoloFits(old) /\ old.pw \in Passwords
      /\ IsMap(protoKeys, Passwords, Range(protoKeys)) /\ DOMAIN protos \subseteq Passwords
      /\ IsMap(protos, Passwords, Range(protos))
  BY InvFacts DEF PutProtocol, TaskOK, CatalogInv, CatalogTypeOK
<1>2. /\ task'[g] = t /\ DOMAIN task' = Goroutines
      /\ \A h \in Goroutines \ {g} :
           IF old.pstale /\ task[h].pc \in {"fill", "put"}
             THEN task'[h] = [task[h] EXCEPT !.pstale = TRUE] ELSE task'[h] = task[h]
      /\ protos' = map
      /\ protoStale' = IF left = {} THEN old.pstale ELSE protoStale \/ old.pstale
      /\ UNCHANGED <<schemaKeys, protoKeys, full, calls, cacheStale>>
  BY DEF PutProtocol, diskVars
<1>3. /\ DOMAIN map = DOMAIN protos \cup {old.pw} /\ map[old.pw] = old.proto
      /\ \A pw \in DOMAIN protos : pw # old.pw => map[pw] = protos[pw]
      /\ IsMap(map, Passwords, Range(map))
  <2>1. IsMap(map, Passwords, Range(map))
    BY <1>1, PutMap
  <2>2. QED
    BY <2>1 DEF Put
<1>4. ~old.pstale =>
        /\ DOMAIN protos \subseteq DOMAIN protoKeys
        /\ \A pw \in DOMAIN protoKeys \ old.ids :
             pw \in DOMAIN protos /\ protos[pw] = protoKeys[pw]
        /\ old.pw \in DOMAIN protoKeys /\ old.proto = protoKeys[old.pw]
  BY <1>1 DEF RefillFits
<1> HIDE DEF map
<1>5. /\ fill.op = old.op /\ fill.steps = old.steps /\ fill.cols = old.cols
      /\ fill.pc = "fill" /\ fill.dbs = old.dbs /\ fill.tabs = old.tabs /\ fill.got = old.got
      /\ fill.ids = left /\ fill.pstale = old.pstale /\ fill.clean = old.clean
  BY <1>1 DEF TaskForm
<1>6. TaskForm(fill)
  BY <1>1 DEF TaskForm, Pcs
<1> HIDE DEF fill
<1>7. TaskOK(fill)
  BY <1>1, <1>5, <1>6, ProtocolTaskOK
<1>8. /\ TaskOK(t) /\ t.pc \in {"idle", "fill"}
      /\ t.pc # "idle" => t = fill /\ left # {}
  BY <1>5, <1>7, FinishOK
<1> HIDE DEF t
<1>9. \A h \in Goroutines \ {g} : task'[h] \in Marked(task[h])
  BY <1>2 DEF Marked
<1>10. CleanRunsAlone' /\ \A h \in Goroutines \ {g} : TaskOK(task'[h]) /\ SoloFits(task[h])'
  BY <1>1, <1>2, <1>5, <1>8, <1>9, OthersRest
<1>11. CatalogTypeOK'
  BY <1>1, <1>2, <1>3, <1>8, <1>10 DEF CatalogInv, CatalogTypeOK
<1>12. ReloadFits(task[g])' /\ RefillFits(task[g])'
  BY <1>2, <1>3, <1>4, <1>5, <1>8 DEF ReloadFits, RefillFits
<1>13. SoloFits(task[g])'
  <2>1. DiskSchema' = DiskSchema /\ full' = full
    BY <1>2 DEF DiskSchema, DbKeys, TableKeys
  <2>2. QED
    BY <1>1, <1>2, <1>5, <1>8, <2>1 DEF SoloFits
<1>14. ASSUME NEW h \in Goroutines \ {g}
       PROVE  ReloadFits(task[h])' /\ RefillFits(task[h])'
  <2>1. /\ TaskOK(task[h]) /\ TaskForm(task[h]) /\ ReloadFits(task[h]) /\ RefillFits(task[h])
        /\ task'[h] \in Marked(task[h])
    BY <1>9, InvFacts DEF TaskOK
  <2>2. ReloadFits(task[h])'
    BY <1>2, <2>1, SameReload DEF ReloadFits
  <2>3. IF old.pstale /\ task[h].pc \in {"fill", "put"}
          THEN task'[h].pc = task[h].pc /\ task'[h].pstale ELSE task'[h] = task[h]
    BY <1>2, <2>1 DEF TaskForm
  <2>4. RefillFits(task[h])'
    BY <1>2, <1>3, <1>4, <2>1, <2>3 DEF RefillFits
  <2>5. QED
    BY <2>2, <2>4
<1>15. CacheFresh'
  BY <1>2 DEF CatalogInv, CacheFresh, DiskSchema, DbKeys, TableKeys
<1>16. ProtosFresh'
  <2>1. CASE left = {} /\ ~old.pstale
    <3>1. DOMAIN map = DOMAIN protoKeys /\ \A pw \in DOMAIN map : map[pw] = protoKeys[pw]
      BY <1>3, <1>4, <2>1
    <3>2. QED
      BY <1>1, <1>2, <1>3, <3>1, SameMap DEF ProtosFresh
  <2>2. CASE left # {} /\ ~old.pstale /\ ~protoStale
    <3>1. protos = protoKeys
      BY <2>2 DEF CatalogInv, ProtosFresh
    <3>2. DOMAIN map = DOMAIN protoKeys /\ \A pw \in DOMAIN map : map[pw] = protoKeys[pw]
      BY <1>3, <1>4, <2>2, <3>1
    <3>3. QED
      BY <1>1, <1>2, <1>3, <3>2, SameMap DEF ProtosFresh
  <2>3. CASE old.pstale \/ (left # {} /\ protoStale)
    BY <1>2, <2>3 DEF ProtosFresh
  <2>4. QED
    BY <2>1, <2>2, <2>3
<1>17. QED
  BY <1>10, <1>11, <1>12, <1>13, <1>14, <1>15, <1>16 DEF CatalogInv

-----------------------------------------------------------------------------
(* Requests, restarts and the start.                                       *)

\* A request that begins: what the others have read stands, and none is alone any more.
LEMMA BeginStep ==
  ASSUME CatalogInv, NEW g \in Goroutines, Called(g), NEW t, TaskOK(t), Begin(g, t),
         t.pc \in {"idle", "store"} \/ (t.pc \in {"accept", "revoke"} /\ t.op \notin DDL),
         UNCHANGED <<schemaKeys, protoKeys, protos, protoStale>>,
         IsSchema(full'), CacheFresh'
  PROVE  CatalogInv'
<1> DEFINE alone == \A i \in Goroutines : task[i].pc = "idle"
           u == [t EXCEPT !.clean = alone]
<1>1. TaskForm(t) /\ alone \in BOOLEAN /\ t.got = t.got
  BY DEF TaskOK
<1>2. /\ task'[g] = u /\ DOMAIN task' = Goroutines
      /\ \A h \in Goroutines \ {g} :
           IF task[h].pc = "idle" THEN task'[h] = task[h]
           ELSE task'[h] = [task[h] EXCEPT !.clean = FALSE]
      /\ calls' \in 0..MaxCalls
  BY InvFacts, CatalogConstants DEF Begin, Called
<1>3. alone => \A i \in Goroutines : task[i].pc = "idle"
  OBVIOUS
<1> HIDE DEF alone
<1>4. /\ u.op = t.op /\ u.pc = t.pc /\ u.steps = t.steps /\ u.cols = t.cols /\ u.dbs = t.dbs
      /\ u.tabs = t.tabs /\ u.got = t.got /\ u.pw = t.pw /\ u.clean = alone
  BY <1>1 DEF TaskForm
<1>5. TaskForm(u)
  BY <1>1 DEF TaskForm
<1> HIDE DEF u
<1>6. TaskOK(u)
  BY <1>4, <1>5 DEF TaskOK
<1>7. ASSUME NEW h \in Goroutines \ {g}
      PROVE  /\ TaskOK(task'[h]) /\ task'[h].pc = task[h].pc
             /\ task'[h].pc # "idle" => ~task'[h].clean
             /\ ReloadFits(task[h])' /\ RefillFits(task[h])'
  <2>1. /\ TaskOK(task[h]) /\ TaskForm(task[h]) /\ ReloadFits(task[h]) /\ RefillFits(task[h])
    BY InvFacts DEF TaskOK
  <2>2. task'[h] \in Marked(task[h])
    BY <1>2 DEF Marked
  <2>3. TaskOK(task'[h]) /\ task'[h].pc = task[h].pc
    BY <2>1, <2>2, MarkedFacts
  <2>4. task'[h].pc # "idle" => ~task'[h].clean
    BY <1>2, <2>1, <2>3 DEF TaskForm
  <2>5. ReloadFits(task[h])'
    BY <2>1, <2>2, SameReload DEF ReloadFits
  <2>6. RefillFits(task[h])'
    BY <2>1, <2>2, SameRefill DEF RefillFits
  <2>7. QED
    BY <2>3, <2>4, <2>5, <2>6
<1>8. CatalogTypeOK'
  BY <1>2, <1>6, <1>7 DEF CatalogInv, CatalogTypeOK
<1>9. CleanRunsAlone'
  BY <1>2, <1>3, <1>4, <1>7 DEF CleanRunsAlone
<1>10. ReloadFits(task[g])' /\ RefillFits(task[g])' /\ SoloFits(task[g])'
  BY <1>2, <1>4 DEF ReloadFits, RefillFits, SoloFits
<1>11. \A h \in Goroutines \ {g} : SoloFits(task[h])'
  BY <1>7 DEF SoloFits
<1>12. ProtosFresh'
  BY DEF CatalogInv, ProtosFresh
<1>13. QED
  BY <1>7, <1>8, <1>9, <1>10, <1>11, <1>12 DEF CatalogInv

\* A program to run, of the request op.
LEMMA ProgramOK ==
  ASSUME NEW op \in DDL, NEW steps \in Seq(Steps), steps # <<>>, HasColumns(steps, NoSchema)
  PROVE  LET t == [NoTask EXCEPT !.op = op, !.pc = "store", !.steps = steps] IN
         TaskOK(t) /\ t.pc = "store"
<1> DEFINE t == [NoTask EXCEPT !.op = op, !.pc = "store", !.steps = steps]
<1>1. TaskForm(NoTask) /\ TaskOK(NoTask)
  BY NoTaskOK DEF TaskOK
<1>2. /\ t.op = op /\ t.pc = "store" /\ t.steps = steps /\ t.cols = NoSchema
      /\ t.tabs = {} /\ t.got = Empty
  BY DEF NoTask
<1>3. TaskForm(t)
  BY <1>1 DEF TaskForm, Pcs, Ops
<1> HIDE DEF t
<1>4. TaskOK(t)
  BY <1>2, <1>3, EmptyFacts DEF TaskOK
<1>5. QED
  BY <1>2, <1>4 DEF t

\* A request that begins a program.
LEMMA RunInv ==
  ASSUME CatalogInv, NEW g \in Goroutines, NEW op \in DDL, NEW steps \in Seq(Steps),
         steps # <<>>, \A i \in DOMAIN steps : steps[i].do # "alter", Run(g, op, steps)
  PROVE  CatalogInv'
<1> DEFINE t == [NoTask EXCEPT !.op = op, !.pc = "store", !.steps = steps]
<1>1. /\ Called(g) /\ Begin(g, t)
      /\ UNCHANGED <<schemaKeys, protoKeys, full, protos, cacheStale, protoStale>>
  BY DEF Run, diskVars
<1>2. HasColumns(steps, NoSchema)
  BY DEF HasColumns
<1>3. TaskOK(t) /\ t.pc = "store"
  BY <1>2, ProgramOK
<1>4. IsSchema(full') /\ CacheFresh'
  BY <1>1 DEF CatalogInv, CatalogTypeOK, CacheFresh, DiskSchema, DbKeys, TableKeys
<1>5. UNCHANGED <<schemaKeys, protoKeys, protos, protoStale>>
  BY <1>1
<1> HIDE DEF t
<1>6. t.pc \in {"idle", "store"} \/ (t.pc \in {"accept", "revoke"} /\ t.op \notin DDL)
  BY <1>3
<1>7. QED
  BY <1>1, <1>3, <1>4, <1>5, <1>6, BeginStep

\* No request but AlterTable alters columns.
LEMMA StepKinds ==
  /\ \A k, v : Set(k, v).do # "alter" /\ SetQuietly(k, v).do # "alter"
  /\ \A k : Del(k).do # "alter" /\ Probe(k).do # "alter" /\ ReadCols(k).do = "read"
  /\ \A k, to : Copy(k, to).do # "alter"
  /\ \A db : Folder(db).do # "alter"
  /\ \A what \in Scans : \A db, to : ForTables(what, db, to).do # "alter"
BY DEF Set, SetQuietly, Del, Probe, ReadCols, Copy, Folder, ForTables, Scans

\* The requests about databases.
LEMMA DatabaseRequestsInv ==
  ASSUME CatalogInv, NEW g \in Goroutines, NEW db \in Dbs, NEW to \in Dbs
  PROVE  /\ CreateDatabase(g, db) => CatalogInv'
         /\ DeleteDatabase(g, db) => CatalogInv'
         /\ RenameDatabase(g, db, to) => CatalogInv'
<1>1. /\ {"createDatabase", "deleteDatabase", "renameDatabase"} \subseteq DDL
      /\ {"probeAll", "moveAll", "dropAll"} \subseteq Scans
  BY DEF DDL, Scans
<1>2. /\ <<db>> \in DbNamed /\ EntryOK(<<db>>, NoSchema)
      /\ <<to>> \in DbNamed /\ EntryOK(<<to>>, NoSchema)
  BY DEF DbNamed, EntryOK
<1>3. ASSUME CreateDatabase(g, db)
      PROVE  CatalogInv'
  <2> DEFINE steps == <<SetQuietly(<<db>>, NoSchema)>>
  <2>1. steps \in Seq(Steps) /\ steps # <<>> /\ \A i \in DOMAIN steps : steps[i].do # "alter"
    BY <1>2, StepTypes, StepKinds
  <2>2. Run(g, "createDatabase", steps)
    BY <1>3 DEF CreateDatabase
  <2> HIDE DEF steps
  <2>3. QED
    BY <1>1, <2>1, <2>2, RunInv
<1>4. ASSUME DeleteDatabase(g, db)
      PROVE  CatalogInv'
  <2> DEFINE steps == <<ForTables("dropAll", db, db), Del(<<db>>), Folder(db)>>
  <2>1. steps \in Seq(Steps) /\ steps # <<>> /\ \A i \in DOMAIN steps : steps[i].do # "alter"
    BY <1>1, <1>2, StepTypes, StepKinds
  <2>2. Run(g, "deleteDatabase", steps)
    BY <1>4 DEF DeleteDatabase
  <2> HIDE DEF steps
  <2>3. QED
    BY <1>1, <2>1, <2>2, RunInv
<1>5. ASSUME RenameDatabase(g, db, to)
      PROVE  CatalogInv'
  <2> DEFINE steps == <<ForTables("probeAll", db, db), ForTables("moveAll", db, to),
                        Set(<<to>>, NoSchema), Del(<<db>>), Folder(db)>>
  <2>1. steps \in Seq(Steps) /\ steps # <<>> /\ \A i \in DOMAIN steps : steps[i].do # "alter"
    BY <1>1, <1>2, StepTypes, StepKinds
  <2>2. Run(g, "renameDatabase", steps)
    BY <1>5 DEF RenameDatabase
  <2> HIDE DEF steps
  <2>3. QED
    BY <1>1, <2>1, <2>2, RunInv
<1>6. QED
  BY <1>3, <1>4, <1>5

\* The requests about tables, AlterTable apart.
LEMMA TableRequestsInv ==
  ASSUME CatalogInv, NEW g \in Goroutines, NEW db \in Dbs, NEW table \in Tabs
  PROVE  /\ \A cols \in Schemas : CreateTable(g, db, table, cols) => CatalogInv'
         /\ \A to \in Tabs : RenameTable(g, db, table, to) => CatalogInv'
         /\ DeleteTable(g, db, table) => CatalogInv'
<1>1. {"createTable", "renameTable", "deleteTable"} \subseteq DDL
  BY DEF DDL
<1>2. <<db, table>> \in TableNamed /\ \A to \in Tabs : <<db, to>> \in TableNamed
  BY DEF TableNamed
<1>3. ASSUME NEW cols \in Schemas, CreateTable(g, db, table, cols)
      PROVE  CatalogInv'
  <2> DEFINE all == Put(cols, Id, "plain")
             steps == <<Set(<<db, table>>, all)>>
  <2>1. IsMap(cols, Cols, Definitions) /\ Id \in Cols /\ "plain" \in Definitions
    BY CatalogConstants, ColSetFacts DEF Definitions
  <2>2. all \in ColSets
    BY <2>1, PutMapTyped, ColSetFacts
  <2>3. Run(g, "createTable", steps)
    BY <1>3 DEF CreateTable
  <2> HIDE DEF all
  <2>4. EntryOK(<<db, table>>, all)
    BY <1>2, <2>2 DEF EntryOK
  <2>5. steps \in Seq(Steps) /\ steps # <<>> /\ \A i \in DOMAIN steps : steps[i].do # "alter"
    BY <2>4, StepTypes, StepKinds
  <2> HIDE DEF steps
  <2>6. QED
    BY <1>1, <2>3, <2>5, RunInv
<1>4. ASSUME NEW to \in Tabs, RenameTable(g, db, table, to)
      PROVE  CatalogInv'
  <2> DEFINE steps == <<Probe(<<db, table>>), Copy(<<db, table>>, <<db, to>>),
                        Del(<<db, table>>), Folder(db)>>
  <2>1. steps \in Seq(Steps) /\ steps # <<>> /\ \A i \in DOMAIN steps : steps[i].do # "alter"
    BY <1>2, StepTypes, StepKinds
  <2>2. Run(g, "renameTable", steps)
    BY <1>4 DEF RenameTable
  <2> HIDE DEF steps
  <2>3. QED
    BY <1>1, <2>1, <2>2, RunInv
<1>5. ASSUME DeleteTable(g, db, table)
      PROVE  CatalogInv'
  <2> DEFINE steps == <<Del(<<db, table>>), Folder(db)>>
  <2>1. steps \in Seq(Steps) /\ steps # <<>> /\ \A i \in DOMAIN steps : steps[i].do # "alter"
    BY <1>2, StepTypes, StepKinds
  <2>2. Run(g, "deleteTable", steps)
    BY <1>5 DEF DeleteTable
  <2> HIDE DEF steps
  <2>3. QED
    BY <1>1, <2>1, <2>2, RunInv
<1>6. QED
  BY <1>3, <1>4, <1>5

\* AlterTable changes the cache before anything is checked or stored.
LEMMA AlterTableInv ==
  ASSUME CatalogInv, NEW g \in Goroutines, NEW db \in Dbs, NEW table \in Tabs,
         NEW alters \in Alterations, AlterTable(g, db, table, alters)
  PROVE  CatalogInv'
<1>1. IsFiniteSet(alters) /\ alters \subseteq AlterationForms
  BY CatalogConstants
<1>2. db \in DOMAIN full /\ table \in DOMAIN full[db] /\ IsSchema(full)
  BY InvFacts DEF AlterTable, IsTableExists, IsDatabaseExists
<1>3. full[db][table] \in ColSets
  BY <1>2, SchemaFacts
<1>4. PICK o1 \in AnyOrder(alters), o2 \in AnyOrder(alters) :
        LET cache == AlteredInCache(full[db][table], o1)
            accepted == cache.ok /\ ValidateColumnAlteration(cache.cols)
        IN  /\ Called(g)
            /\ full' = [full EXCEPT ![db][table] = cache.cols]
            /\ cacheStale' = (cacheStale \/ full' # full)
            /\ IF accepted
                 THEN Begin(g, [NoTask EXCEPT !.op = "alterTable", !.pc = "store",
                          !.steps = <<ReadCols(<<db, table>>)>>
                                    \o [i \in DOMAIN o2 |-> Alter(<<db, table>>, o2[i])]])
                 ELSE Begin(g, Failed)
  BY DEF AlterTable
<1> DEFINE cols == AlteredInCache(full[db][table], o1).cols
           reads == <<ReadCols(<<db, table>>)>>
           alter == [i \in DOMAIN o2 |-> Alter(<<db, table>>, o2[i])]
           steps == reads \o alter
           t == [NoTask EXCEPT !.op = "alterTable", !.pc = "store", !.steps = steps]
<1>5. cols \in ColSets
  BY <1>1, <1>3, AlteredInCacheType
<1>6. full' = [full EXCEPT ![db][table] = cols] /\ cacheStale' = (cacheStale \/ full' # full)
  BY <1>4
<1>7. IsSchema(full')
  BY <1>2, <1>5, <1>6, TableChanged
<1>8. UNCHANGED <<schemaKeys, protoKeys, protos, protoStale>>
  BY DEF AlterTable, diskVars
<1>9. CacheFresh'
  BY <1>6, <1>8 DEF CatalogInv, CacheFresh, DiskSchema, DbKeys, TableKeys
<1>10. Called(g) /\ (Begin(g, t) \/ Begin(g, Failed))
  BY <1>4
<1>11. TaskOK(t) /\ t.pc = "store"
  <2>1. <<db, table>> \in TableNamed /\ "alterTable" \in DDL
    BY DEF TableNamed, DDL
  <2>2. o2 \in Seq(AlterationForms)
    BY <1>1, FS_CardinalityType DEF AnyOrder
  <2>3. alter \in Seq(Steps) /\ reads \in Seq(Steps)
    BY <2>1, <2>2, StepTypes
  <2>4. reads = <<ReadCols(<<db, table>>)>> /\ ReadCols(<<db, table>>) \in Steps
    BY <2>1, StepTypes
  <2> HIDE DEF alter, reads
  <2>5. steps \in Seq(Steps) /\ steps # <<>> /\ Head(steps) = ReadCols(<<db, table>>)
    BY <2>3, <2>4
  <2> HIDE DEF steps
  <2>6. HasColumns(steps, NoSchema)
    BY <2>5, StepKinds DEF HasColumns
  <2>7. QED
    BY <2>1, <2>5, <2>6, ProgramOK
<1> HIDE DEF t
<1>12. CASE Begin(g, t)
  BY <1>7, <1>8, <1>9, <1>10, <1>11, <1>12, BeginStep
<1>13. CASE Begin(g, Failed)
  BY <1>7, <1>8, <1>9, <1>10, <1>13, NoTaskOK, BeginStep
<1>14. QED
  BY <1>10, <1>12, <1>13

\* The requests about protocols.
LEMMA ProtocolRequestsInv ==
  ASSUME CatalogInv, NEW g \in Goroutines, NEW pw \in Passwords, NEW proto
  PROVE  /\ SetProtocol(g, pw, proto) => CatalogInv'
         /\ DeleteProtocol(g, pw) => CatalogInv'
<1>1. TaskForm(NoTask) /\ TaskOK(NoTask)
  BY NoTaskOK DEF TaskOK
<1>2. {"setProtocol", "deleteProtocol"} \subseteq Ops /\ "setProtocol" \notin DDL
      /\ "deleteProtocol" \notin DDL
  BY DEF Ops, DDL
<1>3. ASSUME UNCHANGED <<diskVars, full, protos, cacheStale, protoStale>>
      PROVE  /\ IsSchema(full') /\ CacheFresh'
             /\ UNCHANGED <<schemaKeys, protoKeys, protos, protoStale>>
  BY <1>3 DEF CatalogInv, CatalogTypeOK, CacheFresh, DiskSchema, DbKeys, TableKeys, diskVars
<1>4. ASSUME SetProtocol(g, pw, proto)
      PROVE  CatalogInv'
  <2> DEFINE t == [NoTask EXCEPT !.op = "setProtocol", !.pc = "accept", !.pw = pw,
                                 !.proto = proto]
  <2>1. /\ Called(g) /\ Begin(g, t)
        /\ UNCHANGED <<diskVars, full, protos, cacheStale, protoStale>>
    BY <1>4 DEF SetProtocol
  <2>2. /\ t.op = "setProtocol" /\ t.pc = "accept" /\ t.pw = pw /\ t.steps = <<>>
        /\ t.cols = NoTask.cols /\ t.tabs = {} /\ t.got = Empty
    BY DEF NoTask
  <2>3. TaskForm(t)
    BY <1>1, <1>2 DEF TaskForm, Pcs
  <2> HIDE DEF t
  <2>4. HasColumns(t.steps, t.cols)
    BY <2>2 DEF HasColumns
  <2>5. TaskOK(t)
    BY <2>2, <2>3, <2>4, EmptyFacts DEF TaskOK
  <2>6. QED
    BY <1>2, <1>3, <2>1, <2>2, <2>5, BeginStep
<1>5. ASSUME DeleteProtocol(g, pw)
      PROVE  CatalogInv'
  <2> DEFINE t == [NoTask EXCEPT !.op = "deleteProtocol", !.pc = "revoke", !.pw = pw]
  <2>1. /\ Called(g) /\ Begin(g, t)
        /\ UNCHANGED <<diskVars, full, protos, cacheStale, protoStale>>
    BY <1>5 DEF DeleteProtocol
  <2>2. /\ t.op = "deleteProtocol" /\ t.pc = "revoke" /\ t.pw = pw /\ t.steps = <<>>
        /\ t.cols = NoTask.cols /\ t.tabs = {} /\ t.got = Empty
    BY DEF NoTask
  <2>3. TaskForm(t)
    BY <1>1, <1>2 DEF TaskForm, Pcs
  <2> HIDE DEF t
  <2>4. HasColumns(t.steps, t.cols)
    BY <2>2 DEF HasColumns
  <2>5. TaskOK(t)
    BY <2>2, <2>3, <2>4, EmptyFacts DEF TaskOK
  <2>6. QED
    BY <1>2, <1>3, <2>1, <2>2, <2>5, BeginStep
<1>6. QED
  BY <1>4, <1>5

\* Every request at rest: what is claimed of a request is claimed of none.
LEMMA AllIdle ==
  ASSUME task = [g \in Goroutines |-> NoTask]
  PROVE  /\ DOMAIN task = Goroutines /\ \A g \in Goroutines : TaskOK(task[g])
         /\ CleanRunsAlone
         /\ \A g \in Goroutines : ReloadFits(task[g]) /\ RefillFits(task[g]) /\ SoloFits(task[g])
<1>1. TaskOK(NoTask) /\ NoTask.pc = "idle"
  BY NoTaskOK
<1>2. \A g \in Goroutines : task[g] = NoTask
  OBVIOUS
<1>3. ReloadFits(NoTask) /\ RefillFits(NoTask) /\ SoloFits(NoTask)
  BY <1>1, NothingRead
<1>4. QED
  BY <1>1, <1>2, <1>3 DEF CleanRunsAlone

\* The program starts with its caches as the disk is.
LEMMA CatalogInit == Init => CatalogInv
<1> SUFFICES ASSUME Init
             PROVE  CatalogInv
  OBVIOUS
<1>1. CatalogOK(schemaKeys) /\ full = DiskSchema
  BY CatalogConstants DEF Init
<1>2. IsSchema(full)
  BY <1>1, DiskSchemaType
<1>3. IsMap(Empty, Passwords, Range(Empty)) /\ DOMAIN Empty \subseteq Passwords
  BY EmptyFacts
<1>4. IsMap(Put(Empty, Default, ProtocolBySchema(full)), Passwords,
            Range(Put(Empty, Default, ProtocolBySchema(full))))
  BY <1>3, CatalogConstants, PutMap
<1>5. IsMap(protoKeys, Passwords, Range(protoKeys)) /\ protos = protoKeys
  BY <1>3, <1>4 DEF Init
<1>6. /\ DOMAIN task = Goroutines /\ \A g \in Goroutines : TaskOK(task[g])
      /\ CleanRunsAlone
      /\ \A g \in Goroutines : ReloadFits(task[g]) /\ RefillFits(task[g]) /\ SoloFits(task[g])
  BY AllIdle DEF Init
<1>7. calls \in 0..MaxCalls
  BY CatalogConstants DEF Init
<1>8. CatalogTypeOK
  BY <1>1, <1>2, <1>5, <1>6, <1>7 DEF CatalogTypeOK
<1>9. QED
  BY <1>1, <1>5, <1>6, <1>8 DEF CatalogInv, CacheFresh, ProtosFresh

\* A restart sets the caches up from the disk.
LEMMA RestartInv ==
  ASSUME CatalogInv, Restart
  PROVE  CatalogInv'
<1> DEFINE keys == Put(protoKeys, Default, ProtocolBySchema(DiskSchema))
<1>1. /\ CatalogOK(schemaKeys) /\ calls \in 0..MaxCalls
      /\ IsMap(protoKeys, Passwords, Range(protoKeys)) /\ DOMAIN protoKeys \subseteq Passwords
  BY DEF CatalogInv, CatalogTypeOK, IsMap
<1>2. IsSchema(DiskSchema)
  BY <1>1, DiskSchemaType
<1>3. IsMap(keys, Passwords, Range(keys))
  BY <1>1, CatalogConstants, PutMap
<1> HIDE DEF keys
<1>4. /\ full' = DiskSchema /\ protoKeys' \in {protoKeys, keys} /\ protos' = protoKeys'
      /\ task' = [g \in Goroutines |-> NoTask] /\ schemaKeys' = schemaKeys /\ calls' = calls
  BY DEF Restart, keys
<1>5. IsMap(protoKeys', Passwords, Range(protoKeys'))
  BY <1>1, <1>3, <1>4
<1>6. DiskSchema' = DiskSchema
  BY <1>4 DEF DiskSchema, DbKeys, TableKeys
<1>7. NoTask = NoTask' /\ TaskOK(NoTask) /\ NoTask.pc = "idle"
  BY NoTaskOK DEF NoTask, Empty
<1>8. /\ DOMAIN task' = Goroutines /\ \A g \in Goroutines : task'[g] = NoTask
  BY <1>4
<1>9. CatalogTypeOK'
  BY <1>1, <1>2, <1>4, <1>5, <1>7, <1>8 DEF CatalogTypeOK
<1>10. /\ CleanRunsAlone'
       /\ \A g \in Goroutines : (ReloadFits(task[g]) /\ RefillFits(task[g]) /\ SoloFits(task[g]))'
  BY <1>7, <1>8 DEF CleanRunsAlone, ReloadFits, RefillFits, SoloFits
<1>11. QED
  BY <1>4, <1>6, <1>9, <1>10 DEF CatalogInv, CacheFresh, ProtosFresh

\* Every step of the program keeps it so.
LEMMA CatalogStep ==
  ASSUME CatalogInv, [Next]_vars
  PROVE  CatalogInv'
<1>1. CASE UNCHANGED vars
  <2>1. /\ UNCHANGED <<schemaKeys, full, protoKeys, protos, task, calls, cacheStale, protoStale>>
        /\ DbKeys' = DbKeys /\ DiskSchema' = DiskSchema
        /\ \A db : TableKeys(db)' = TableKeys(db)
    BY <1>1 DEF vars, DiskSchema, DbKeys, TableKeys
  <2>2. CatalogTypeOK' /\ CleanRunsAlone' /\ CacheFresh' /\ ProtosFresh'
    BY <2>1 DEF CatalogInv, CatalogTypeOK, CleanRunsAlone, CacheFresh, ProtosFresh
  <2>3. ASSUME NEW g \in Goroutines
        PROVE  (ReloadFits(task[g]) /\ RefillFits(task[g]) /\ SoloFits(task[g]))'
    <3>1. ReloadFits(task[g]) /\ RefillFits(task[g]) /\ SoloFits(task[g])
      BY InvFacts
    <3>2. ReloadFits(task[g])'
      BY <2>1, <3>1 DEF ReloadFits
    <3>3. RefillFits(task[g])'
      BY <2>1, <3>1 DEF RefillFits
    <3>4. SoloFits(task[g])'
      BY <2>1, <3>1 DEF SoloFits
    <3>5. QED
      BY <3>2, <3>3, <3>4
  <2>4. QED
    BY <2>2, <2>3 DEF CatalogInv
<1>2. CASE Restart
  BY <1>2, RestartInv
<1>3. ASSUME NEW g \in Goroutines, Request(g)
      PROVE  CatalogInv'
  <2>1. CASE \E db \in Dbs : CreateDatabase(g, db) \/ DeleteDatabase(g, db)
    BY <2>1, DatabaseRequestsInv
  <2>2. CASE \E db, to \in Dbs : RenameDatabase(g, db, to)
    BY <2>2, DatabaseRequestsInv
  <2>3. CASE \E db \in Dbs, table \in Tabs :
               \/ \E cols \in Schemas : CreateTable(g, db, table, cols)
               \/ \E to \in Tabs : RenameTable(g, db, table, to)
               \/ DeleteTable(g, db, table)
    BY <2>3, TableRequestsInv
  <2>4. CASE \E db \in Dbs, table \in Tabs, alters \in Alterations : AlterTable(g, db, table, alters)
    BY <2>4, AlterTableInv
  <2>5. CASE \/ \E pw \in Passwords, proto \in UserProtocols : SetProtocol(g, pw, proto)
             \/ \E pw \in Passwords : DeleteProtocol(g, pw)
    BY <2>5, ProtocolRequestsInv
  <2>6. QED
    BY <1>3, <2>1, <2>2, <2>3, <2>4, <2>5 DEF Request
<1>4. ASSUME NEW g \in Goroutines, StoreStep(g)
      PROVE  CatalogInv'
  BY <1>4, StoreSetInv, StoreDeleteInv, StoreCopyInv, StoreAlterInv, StoreScanInv, StoreReadInv,
     StoreFolderInv, StoreFailsInv DEF StoreStep
<1>5. ASSUME NEW g \in Goroutines, ReloadStep(g)
      PROVE  CatalogInv'
  BY <1>5, GetDatabasesInv, GetTablesInv, GetTableSchemaInv, GetFullSchemaFailsInv,
     SetFullSchemaInv DEF ReloadStep
<1>6. ASSUME NEW g \in Goroutines, ProtocolStep(g)
      PROVE  CatalogInv'
  BY <1>6, AcceptProtocolInv, RefuseProtocolInv, RevokeProtocolInv, GetProtocolIDsInv,
     ClearProtocolsInv, GetProtocolByPasswordInv, PutProtocolInv, ProtocolFailsInv
     DEF ProtocolStep
<1>7. QED
  BY <1>1, <1>2, <1>3, <1>4, <1>5, <1>6 DEF Next

(***************************************************************************)
(* The invariant holds in every run: every request's progress is of its    *)
(* form; a reload that no write has overtaken has read what is on disk, a  *)
(* refill that nothing has overtaken has put what is stored; and a request *)
(* that runs alone finds what its earlier phases left.                     *)
(***************************************************************************)
THEOREM CatalogInvariant == CatalogSpec => []CatalogInv
<1>1. QED
  BY CatalogInit, CatalogStep, PTL DEF CatalogSpec

-----------------------------------------------------------------------------
(* What follows from the invariant.                                        *)

(***************************************************************************)
(* FullSchema goes stale in the known ways only: a key written since the   *)
(* reload that was installed began to read, or an AlterTable's change of   *)
(* the cache in place.                                                     *)
(***************************************************************************)
THEOREM CacheStaysFresh == CatalogSpec => []CacheFresh
<1>1. CatalogInv => CacheFresh
  BY DEF CatalogInv
<1>2. QED
  BY <1>1, CatalogInvariant, PTL

(***************************************************************************)
(* And the map of protocols: a protocol written since the refill began, a  *)
(* refill that another one or an error cut short.                          *)
(***************************************************************************)
THEOREM ProtosStayFresh == CatalogSpec => []ProtosFresh
<1>1. CatalogInv => ProtosFresh
  BY DEF CatalogInv
<1>2. QED
  BY <1>1, CatalogInvariant, PTL

\* Only these steps write protocols.
LEMMA ProtocolWriters ==
  ASSUME NEW g, Request(g) \/ StoreStep(g) \/ ReloadStep(g) \/ ProtocolStep(g)
  PROVE  AcceptProtocol(g) \/ RevokeProtocol(g) \/ protoKeys' = protoKeys
<1>1. CASE Request(g)
  BY <1>1 DEF Request, CreateDatabase, DeleteDatabase, RenameDatabase, CreateTable, RenameTable,
     AlterTable, DeleteTable, SetProtocol, DeleteProtocol, Run, diskVars
<1>2. CASE StoreStep(g)
  BY <1>2 DEF StoreStep, StoreSet, StoreDelete, StoreCopy, StoreAlter, StoreScan, StoreRead,
     StoreFolder, StoreFails, SchemaWrite, Progress, diskVars
<1>3. CASE ReloadStep(g)
  BY <1>3 DEF ReloadStep, GetDatabases, GetTables, GetTableSchema, GetFullSchemaFails,
     SetFullSchema, Progress, diskVars
<1>4. CASE ProtocolStep(g)
  BY <1>4 DEF ProtocolStep, RefuseProtocol, GetProtocolIDs, ClearProtocols,
     GetProtocolByPassword, PutProtocol, ProtocolFails, Progress, diskVars
<1>5. QED
  BY <1>1, <1>2, <1>3, <1>4

\* A protocol that is stored was valid for the cache.
LEMMA AcceptedStep ==
  ASSUME CatalogInv, [Next]_vars
  PROVE  \A pw \in DOMAIN protoKeys' :
           \/ pw \in DOMAIN protoKeys /\ protoKeys'[pw] = protoKeys[pw]
           \/ cacheStale
           \/ Resolves(DiskSchema, protoKeys'[pw])
<1>1. CASE protoKeys' = protoKeys
  BY <1>1
<1>2. ASSUME NEW g \in Goroutines, AcceptProtocol(g)
      PROVE  \A pw \in DOMAIN protoKeys' :
               \/ pw \in DOMAIN protoKeys /\ protoKeys'[pw] = protoKeys[pw]
               \/ cacheStale
               \/ Resolves(DiskSchema, protoKeys'[pw])
  <2>1. /\ protoKeys' = Put(protoKeys, task[g].pw, task[g].proto)
        /\ ValidateProtocol(full, task[g].proto)
    BY <1>2 DEF AcceptProtocol, ProtoWrite
  <2>2. cacheStale \/ Resolves(DiskSchema, task[g].proto)
    BY <2>1, ValidResolves DEF CatalogInv, CacheFresh
  <2>3. QED
    BY <2>1, <2>2 DEF Put
<1>3. ASSUME NEW g \in Goroutines, RevokeProtocol(g)
      PROVE  \A pw \in DOMAIN protoKeys' : pw \in DOMAIN protoKeys /\ protoKeys'[pw] = protoKeys[pw]
  BY <1>3 DEF RevokeProtocol, ProtoWrite, Drop, Restrict
<1>4. CASE Restart
  <2>1. protoKeys' \in {protoKeys, Put(protoKeys, Default, ProtocolBySchema(DiskSchema))}
    BY <1>4 DEF Restart
  <2>2. Resolves(DiskSchema, ProtocolBySchema(DiskSchema))
    BY BySchemaValid, ValidResolves
  <2>3. QED
    BY <2>1, <2>2 DEF Put
<1>5. CASE UNCHANGED vars
  BY <1>1, <1>5 DEF vars
<1>6. QED
  BY <1>1, <1>2, <1>3, <1>4, <1>5, ProtocolWriters DEF Next

(***************************************************************************)
(* A protocol that is stored while the cache is fresh names only tables    *)
(* and columns in the schema on disk: what ValidateProtocol looks up is    *)
(* all that a query can reach through it.                                  *)
(***************************************************************************)
THEOREM ProtocolsResolve == CatalogSpec => AcceptedProtocolsResolve
<1>1. CatalogInv /\ [Next]_vars =>
        [\A pw \in DOMAIN protoKeys' :
           \/ pw \in DOMAIN protoKeys /\ protoKeys'[pw] = protoKeys[pw]
           \/ cacheStale
           \/ Resolves(DiskSchema, protoKeys'[pw])]_vars
  BY AcceptedStep
<1>2. QED
  BY <1>1, CatalogInvariant, PTL DEF CatalogSpec, AcceptedProtocolsResolve

\* A request begins at rest.
LEMMA RequestForm ==
  ASSUME NEW g, Request(g)
  PROVE  Called(g) /\ \E t : Begin(g, t)
<1>1. \A op, steps : Run(g, op, steps) => Called(g) /\ \E t : Begin(g, t)
  BY DEF Run
<1>2. \A db, to :
        CreateDatabase(g, db) \/ DeleteDatabase(g, db) \/ RenameDatabase(g, db, to) =>
          Called(g) /\ \E t : Begin(g, t)
  BY <1>1 DEF CreateDatabase, DeleteDatabase, RenameDatabase
<1>3. \A db, table, to, cols :
        CreateTable(g, db, table, cols) \/ RenameTable(g, db, table, to) \/ DeleteTable(g, db, table) =>
          Called(g) /\ \E t : Begin(g, t)
  BY <1>1 DEF CreateTable, RenameTable, DeleteTable
<1>4. ASSUME NEW db, NEW table, NEW alters, AlterTable(g, db, table, alters)
      PROVE  Called(g) /\ \E t : Begin(g, t)
  BY <1>4 DEF AlterTable
<1>5. \A pw, proto : SetProtocol(g, pw, proto) \/ DeleteProtocol(g, pw) => Called(g) /\ \E t : Begin(g, t)
  BY DEF SetProtocol, DeleteProtocol
<1>6. QED
  BY <1>2, <1>3, <1>4, <1>5 DEF Request

\* How a step changes the progress of requests.
LEMMA StepForms ==
  ASSUME NEW g, Request(g) \/ StoreStep(g) \/ ReloadStep(g) \/ ProtocolStep(g)
  PROVE  \/ \E t : Begin(g, t)
         \/ \E keys, t : SchemaWrite(g, keys, t)
         \/ \E t : Progress(g, t)
         \/ \E keys : ProtoWrite(g, keys)
         \/ SetFullSchema(g) \/ ClearProtocols(g) \/ PutProtocol(g) \/ ProtocolFails(g)
<1>1. CASE Request(g)
  BY <1>1, RequestForm
<1>2. CASE StoreStep(g)
  BY <1>2 DEF StoreStep, StoreSet, StoreDelete, StoreCopy, StoreAlter, StoreScan, StoreRead,
     StoreFolder, StoreFails
<1>3. CASE ReloadStep(g)
  BY <1>3 DEF ReloadStep, GetDatabases, GetTables, GetTableSchema, GetFullSchemaFails
<1>4. CASE ProtocolStep(g)
  BY <1>4 DEF ProtocolStep, AcceptProtocol, RefuseProtocol, RevokeProtocol, GetProtocolIDs,
     GetProtocolByPassword
<1>5. QED
  BY <1>1, <1>2, <1>3, <1>4

\* A request ends by a step of its own.
LEMMA OthersGoOn ==
  ASSUME CatalogInv, NEW h \in Goroutines,
         Request(h) \/ StoreStep(h) \/ ReloadStep(h) \/ ProtocolStep(h),
         NEW g \in Goroutines \ {h}
  PROVE  task'[g].pc = task[g].pc
<1>1. TaskOK(task[g]) /\ DOMAIN task = Goroutines
  BY InvFacts
<1>2. task'[g] \in Marked(task[g])
  <2>1. CASE \E t : Begin(h, t)
    BY <2>1 DEF Begin, Marked
  <2>2. CASE \E keys, t : SchemaWrite(h, keys, t)
    BY <2>2 DEF SchemaWrite, Marked
  <2>3. CASE (\E t : Progress(h, t)) \/ SetFullSchema(h) \/ ProtocolFails(h)
    BY <1>1, <2>3 DEF Progress, SetFullSchema, ProtocolFails, Marked
  <2>4. CASE (\E keys : ProtoWrite(h, keys)) \/ ClearProtocols(h) \/ PutProtocol(h)
    BY <2>4 DEF ProtoWrite, ClearProtocols, PutProtocol, Marked
  <2>5. QED
    BY <2>1, <2>2, <2>3, <2>4, StepForms
<1>3. QED
  BY <1>1, <1>2, MarkedFacts

\* The steps a request ends by, having failed in nothing.
LEMMA WaysToEnd ==
  ASSUME CatalogInv, NEW g \in Goroutines, Completes(g),
         Request(g) \/ StoreStep(g) \/ ReloadStep(g) \/ ProtocolStep(g)
  PROVE  \/ ClearProtocols(g) /\ task[g].ids = {}
         \/ PutProtocol(g) /\ task[g].ids \ {task[g].pw} = {}
         \/ RefuseProtocol(g) /\ task[g].op \in DDL
<1>1. /\ TaskForm(task[g]) /\ DOMAIN task = Goroutines
      /\ task[g].pc # "idle" /\ task'[g].pc = "idle" /\ task'[g].ok /\ task'[g].clean
  BY InvFacts DEF TaskOK, Completes
<1>2. CASE Request(g)
  BY <1>1, <1>2, RequestForm DEF Called
<1>3. CASE StoreStep(g)
  <2>1. ASSUME NEW steps
        PROVE  /\ Onward(g, steps).pc # "idle"
               /\ \A cols : [Onward(g, steps) EXCEPT !.cols = cols].pc # "idle"
               /\ [Onward(g, steps) EXCEPT !.clean = FALSE].pc # "idle"
    BY <1>1 DEF Onward, TaskForm
  <2>2. ~Failed.ok
    BY NoTaskOK
  <2>3. CASE StoreSet(g) \/ StoreDelete(g) \/ StoreCopy(g) \/ StoreAlter(g)
    <3>1. \E keys, steps, cols :
            \/ SchemaWrite(g, keys, Onward(g, steps))
            \/ SchemaWrite(g, keys, [Onward(g, steps) EXCEPT !.cols = cols])
      BY <2>3 DEF StoreSet, StoreDelete, StoreCopy, StoreAlter
    <3>2. ASSUME NEW keys, NEW t, SchemaWrite(g, keys, t)
          PROVE  task'[g] = t
      BY <3>2 DEF SchemaWrite
    <3>3. QED
      BY <1>1, <2>1, <3>1, <3>2
  <2>4. CASE StoreScan(g) \/ StoreFolder(g) \/ StoreFails(g)
    BY <1>1, <2>1, <2>2, <2>4 DEF StoreScan, StoreFolder, StoreFails, Progress
  <2>5. CASE StoreRead(g)
    <3>1. \E v : Progress(g, [Onward(g, Next1(g)) EXCEPT !.cols = v])
      BY <2>5 DEF StoreRead
    <3>2. QED
      BY <1>1, <2>1, <3>1 DEF Progress
  <2>6. QED
    BY <1>3, <2>3, <2>4, <2>5 DEF StoreStep
<1>4. CASE ReloadStep(g)
  <2>1. CASE GetDatabases(g)
    BY <1>1, <2>1 DEF GetDatabases, Progress, TaskForm
  <2>2. CASE GetFullSchemaFails(g)
    BY <1>1, <2>2 DEF GetFullSchemaFails, Progress, TaskForm
  <2>3. CASE SetFullSchema(g)
    BY <1>1, <2>3 DEF SetFullSchema, TaskForm
  <2>4. CASE GetTables(g) \/ GetTableSchema(g)
    <3>1. PICK dbs, tabs, got : Progress(g, Reading([task[g] EXCEPT !.dbs = dbs, !.tabs = tabs, !.got = got]))
      <4>1. CASE GetTables(g)
        BY <1>1, <4>1 DEF GetTables, TaskForm
      <4>2. CASE GetTableSchema(g)
        <5> DEFINE key == CHOOSE k \in task[g].tabs : TRUE
                   got == Put(task[g].got, key[1], Put(task[g].got[key[1]], key[2], schemaKeys[key]))
        <5>1. Progress(g, Reading([task[g] EXCEPT !.tabs = task[g].tabs \ {key}, !.got = got]))
          BY <1>1, <4>2 DEF GetTableSchema, TaskForm
        <5> HIDE DEF key, got
        <5>2. [task[g] EXCEPT !.dbs = task[g].dbs, !.tabs = task[g].tabs \ {key}, !.got = got]
                = [task[g] EXCEPT !.tabs = task[g].tabs \ {key}, !.got = got]
          BY <1>1 DEF TaskForm
        <5>3. QED
          BY <5>1, <5>2
      <4>3. QED
        BY <2>4, <4>1, <4>2
    <3> DEFINE u == [task[g] EXCEPT !.dbs = dbs, !.tabs = tabs, !.got = got]
    <3>2. Reading(u).pc # "idle"
      BY <1>1 DEF Reading, TaskForm
    <3> HIDE DEF u
    <3>3. task'[g] = Reading(u)
      BY <1>1, <3>1 DEF Progress, u
    <3>4. QED
      BY <1>1, <3>2, <3>3
  <2>5. QED
    BY <1>4, <2>1, <2>2, <2>3, <2>4 DEF ReloadStep
<1>5. CASE ProtocolStep(g)
  <2>1. CASE AcceptProtocol(g) \/ RevokeProtocol(g)
    BY <1>1, <2>1 DEF AcceptProtocol, RevokeProtocol, ProtoWrite, TaskForm
  <2>2. CASE GetProtocolIDs(g)
    BY <1>1, <2>2 DEF GetProtocolIDs, Progress, TaskForm
  <2>3. CASE GetProtocolByPassword(g)
    BY <1>1, <2>3 DEF GetProtocolByPassword, Progress, TaskForm
  <2>4. CASE ProtocolFails(g)
    BY <1>1, <2>4 DEF ProtocolFails, Finish, NoTask
  <2>5. CASE RefuseProtocol(g)
    BY <1>1, <2>5 DEF RefuseProtocol, Finish, NoTask, Progress
  <2>6. CASE ClearProtocols(g)
    <3>1. task'[g] = IF task[g].ids = {} THEN Finish(g, TRUE) ELSE [task[g] EXCEPT !.pc = "fill"]
      BY <2>6 DEF ClearProtocols
    <3>2. QED
      BY <1>1, <2>6, <3>1 DEF TaskForm
  <2>7. CASE PutProtocol(g)
    <3> DEFINE left == task[g].ids \ {task[g].pw}
    <3>1. task'[g] = IF left = {} THEN Finish(g, TRUE)
                     ELSE [task[g] EXCEPT !.pc = "fill", !.ids = left]
      BY <2>7 DEF PutProtocol
    <3> HIDE DEF left
    <3>2. [task[g] EXCEPT !.pc = "fill", !.ids = left].pc = "fill"
      BY <1>1 DEF TaskForm
    <3>3. left = {}
      BY <1>1, <3>1, <3>2
    <3>4. QED
      BY <2>7, <3>3 DEF left
  <2>8. QED
    BY <1>5, <2>1, <2>2, <2>3, <2>4, <2>5, <2>6, <2>7 DEF ProtocolStep
<1>6. QED
  BY <1>2, <1>3, <1>4, <1>5

\* A clean request ends with both caches as the disk is.
LEMMA SoloStep ==
  ASSUME CatalogInv, [Next]_vars, NEW g \in Goroutines, Completes(g)
  PROVE  /\ task[g].op \in DDL => full' = DiskSchema'
         /\ task[g].op \in DDL /\ full' # Empty =>
              Default \in DOMAIN protoKeys' /\ protoKeys'[Default] = ProtocolBySchema(full')
         /\ task[g].op \notin DDL \/ full' # Empty => protos' = protoKeys'
<1> DEFINE old == task[g]
           Refreshed ==
             /\ old.op \in DDL => full' = DiskSchema'
             /\ old.op \in DDL /\ full' # Empty =>
                  Default \in DOMAIN protoKeys' /\ protoKeys'[Default] = ProtocolBySchema(full')
             /\ old.op \notin DDL \/ full' # Empty => protos' = protoKeys'
<1>1. /\ CatalogInv' /\ SoloFits(old) /\ IsSchema(full) /\ ProtosFresh' /\ CacheFresh'
      /\ old.pc # "idle" /\ old.clean /\ task'[g].pc = "idle"
  BY CatalogStep, InvFacts DEF CatalogInv, Completes
<1>2. CASE Restart
  <2>1. ~cacheStale' /\ ~protoStale' /\ full' = DiskSchema
    BY <1>2 DEF Restart
  <2>2. full' = DiskSchema' /\ protos' = protoKeys'
    BY <1>1, <2>1 DEF CacheFresh, ProtosFresh
  <2>3. full' # Empty => protoKeys' = Put(protoKeys, Default, ProtocolBySchema(full'))
    BY <1>2, <2>1 DEF Restart
  <2>4. QED
    BY <2>2, <2>3 DEF Put
<1>3. CASE UNCHANGED vars
  BY <1>1, <1>3 DEF vars
<1>4. ASSUME Request(g) \/ StoreStep(g) \/ ReloadStep(g) \/ ProtocolStep(g)
      PROVE  Refreshed
  <2>1. ASSUME UNCHANGED <<schemaKeys, full, protoKeys>>
        PROVE  DiskSchema' = DiskSchema /\ full' = full /\ protoKeys' = protoKeys
    BY <2>1 DEF DiskSchema, DbKeys, TableKeys
  <2>2. CASE ClearProtocols(g) /\ old.ids = {}
    <3>1. /\ old.pc = "clear" /\ UNCHANGED <<schemaKeys, full, protoKeys>>
          /\ protoStale' = (old.ids # {} \/ old.pstale)
      BY <2>2 DEF ClearProtocols, diskVars
    <3>2. protos' = protoKeys'
      BY <1>1, <2>2, <3>1 DEF SoloFits, ProtosFresh
    <3>3. QED
      BY <1>1, <2>1, <3>1, <3>2 DEF SoloFits
  <2>3. CASE PutProtocol(g) /\ old.ids \ {old.pw} = {}
    <3>1. /\ old.pc = "put" /\ UNCHANGED <<schemaKeys, full, protoKeys>>
          /\ protoStale' = old.pstale
      BY <2>3 DEF PutProtocol, diskVars
    <3>2. protos' = protoKeys'
      BY <1>1, <3>1 DEF SoloFits, ProtosFresh
    <3>3. QED
      BY <1>1, <2>1, <3>1, <3>2 DEF SoloFits
  <2>4. CASE RefuseProtocol(g) /\ old.op \in DDL
    <3>1. /\ old.pc = "accept" /\ UNCHANGED <<schemaKeys, full, protoKeys>>
          /\ old.proto = Empty \/ ~ValidateProtocol(full, old.proto)
      BY <2>4 DEF RefuseProtocol, Progress, diskVars
    <3>2. full = DiskSchema /\ old.proto = ProtocolBySchema(full)
      BY <1>1, <2>4, <3>1 DEF SoloFits
    <3>3. full = Empty
      BY <1>1, <3>1, <3>2, BySchemaValid, BySchemaEmpty
    <3>4. QED
      BY <2>1, <2>4, <3>1, <3>2, <3>3
  <2>5. QED
    BY <1>4, <2>2, <2>3, <2>4, WaysToEnd
<1>5. ASSUME NEW h \in Goroutines \ {g},
             Request(h) \/ StoreStep(h) \/ ReloadStep(h) \/ ProtocolStep(h)
      PROVE  FALSE
  BY <1>1, <1>5, OthersGoOn
<1>6. QED
  BY <1>2, <1>3, <1>4, <1>5 DEF Next

(***************************************************************************)
(* A request that ran alone and failed in nothing leaves both caches as    *)
(* the disk is, and the default protocol as the schema is, whatever        *)
(* disorder the requests and failures before it left.                      *)
(***************************************************************************)
THEOREM SoloRequests == CatalogSpec => SoloRequestsRefresh
<1>1. CatalogInv /\ [Next]_vars =>
        [\A g \in Goroutines : Completes(g) =>
           /\ task[g].op \in DDL => full' = DiskSchema'
           /\ task[g].op \in DDL /\ full' # Empty =>
                Default \in DOMAIN protoKeys' /\ protoKeys'[Default] = ProtocolBySchema(full')
           /\ task[g].op \notin DDL \/ full' # Empty => protos' = protoKeys']_vars
  BY SoloStep
<1>2. QED
  BY <1>1, CatalogInvariant, PTL DEF CatalogSpec, SoloRequestsRefresh
=============================================================================
