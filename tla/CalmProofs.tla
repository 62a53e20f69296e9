----------------------------- MODULE CalmProofs -----------------------------
(***************************************************************************)
(* Databases that no request renames, deletes or deletes from: their rows  *)
(* stay readable, fit the schema an alteration gives them, and keep their  *)
(* index entries.  Three layers over StoresInv, proved action by action:   *)
(* CalmInv (where such rows are), FitInv (which columns they have) and     *)
(* EntriesInv (which index entries list them).                             *)
(***************************************************************************)
EXTENDS TableStoresProofs

\* Where a row's key and paths are.
LEMMA HomeFacts ==
  ASSUME StoresInv, NEW pk \in DOMAIN home
  PROVE  /\ home[pk] \in Tables /\ home[pk][1] \in Dbs /\ home[pk][2] \in Tabs
         /\ home[pk] = <<home[pk][1], home[pk][2]>>
         /\ HomeKey(pk) = <<home[pk][1], home[pk][2], pk>>
         /\ HomeKey(pk)[1] = home[pk][1] /\ HomeKey(pk)[2] = home[pk][2] /\ HomeKey(pk)[3] = pk
         /\ HomePath(pk) = <<home[pk][1], home[pk][2], "data">>
         /\ HomePath(pk) \in Paths /\ HomePath(pk)[1] = home[pk][1]
         /\ HomePath(pk)[2] = home[pk][2] /\ HomePath(pk)[3] = "data"
<1>1. home[pk] \in Tables
  BY StorageFacts DEF IsMap
<1>2. Append(home[pk], pk) = <<home[pk][1], home[pk][2], pk>>
  BY <1>1, AppendedIs
<1>3. QED
  BY <1>1, <1>2, TablePaths DEF HomeKey, HomePath

\* Keys of rows are keys of inserted rows.
LEMMA RowKeys ==
  ASSUME StoresInv
  PROVE  /\ \A p \in Paths : p[3] = "data" => \A k \in DOMAIN store[p] :
              k \in Dbs \X Tabs \X DOMAIN home /\ k[3] \in DOMAIN home /\ k[1] \in Dbs
         /\ \A k \in DOMAIN ram :
              k \in Dbs \X Tabs \X DOMAIN home /\ k[3] \in DOMAIN home /\ k[1] \in Dbs
         /\ expected \subseteq DOMAIN home /\ indexed \subseteq DOMAIN home
         /\ DOMAIN ddl.rows \subseteq DOMAIN home
<1>1. \A p \in Paths : p[3] = "data" => DOMAIN store[p] \subseteq Dbs \X Tabs \X DOMAIN home
  BY StorageFacts DEF IsMap, StoredKeys
<1>2. DOMAIN ram \subseteq Dbs \X Tabs \X DOMAIN home
  BY StorageFacts DEF IsMap
<1>3. \A k \in Dbs \X Tabs \X DOMAIN home : k[3] \in DOMAIN home /\ k[1] \in Dbs
  OBVIOUS
<1>4. /\ expected \subseteq DOMAIN home /\ indexed \subseteq DOMAIN home
      /\ DOMAIN ddl.rows \subseteq DOMAIN home
  BY DEF StoresInv, StoresTypeOK, DdlTypeOK, IsMap
<1>5. QED
  BY <1>1, <1>2, <1>3, <1>4

\* The parts of the invariant.
LEMMA CalmParts ==
  ASSUME CalmInv
  PROVE  CalmSchema /\ CalmDdl /\ (\A p \in Paths : CalmStore(p)) /\ CalmRam /\ CalmHeld /\ CalmExpected
BY DEF CalmInv

\* A path of another database holds no calm row.
LEMMA OthersHoldNone ==
  ASSUME StoresInv, CalmInv, NEW p \in Paths, p[3] = "data", p[1] \notin calm,
         NEW k \in DOMAIN store[p]
  PROVE  ~CalmRow(k[3])
<1>1. k[3] \in DOMAIN home
  BY RowKeys
<1>2. CalmRow(k[3]) => p = HomePath(k[3])
  BY CalmParts DEF CalmStore
<1>3. HomePath(k[3])[1] = home[k[3]][1]
  BY <1>1, HomeFacts
<1>4. QED
  BY <1>2, <1>3 DEF CalmRow

\* Nothing about the rows of calm databases changes with their number.
LEMMA CalmStoresKept ==
  ASSUME CalmInv, UNCHANGED <<storage, ram, home>>, calm' \subseteq calm, expected' \subseteq expected
  PROVE  (\A p \in Paths : CalmStore(p)') /\ CalmRam' /\ CalmExpected'
<1>1. \A pk : CalmRow(pk)' => CalmRow(pk)
  BY DEF CalmRow
<1>2. \A pk : HomeKey(pk)' = HomeKey(pk) /\ HomePath(pk)' = HomePath(pk)
  BY DEF HomeKey, HomePath
<1>3. \A p \in Paths : CalmStore(p)'
  BY <1>1, <1>2, CalmParts DEF CalmStore, storage
<1>4. CalmRam'
  BY <1>1, <1>2, CalmParts DEF CalmRam
<1>5. CalmExpected'
  BY <1>1, <1>2, CalmParts DEF CalmExpected, storage
<1>6. QED
  BY <1>3, <1>4, <1>5

\* The schema of calm tables depends on the request by its alteration and creation only.
LEMMA CalmSchemaKept ==
  ASSUME CalmInv, UNCHANGED <<catalog, cache, home>>, calm' \subseteq calm,
         ddl.op = "alter" => ddl'.op = "alter" /\ ddl'.from = ddl.from,
         ddl.op = "create" => ddl'.op = "create"
  PROVE  CalmSchema'
<1>1. \A t : Altering(t) => Altering(t)'
  BY DEF Altering
<1>2. \A pk : CalmRow(pk)' => CalmRow(pk)
  BY DEF CalmRow
<1>3. CalmSchema
  BY CalmParts
<1>4. QED
  BY <1>1, <1>2, <1>3 DEF CalmSchema

\* A save leaves a calm row under its own key, in RAM.
LEMMA SaveCalm ==
  ASSUME StoresInv, CalmInv, NEW db \in Dbs, NEW table \in Tabs, NEW pk \in Pks, Save(db, table, pk),
         DOMAIN home' = DOMAIN home \cup {pk}, \A q \in DOMAIN home : home'[q] = home[q],
         IsMap(home', Pks, Tables), CalmRow(pk)' => home'[pk] = <<db, table>>
  PROVE  CalmInv'
<1> DEFINE key == <<db, table, pk>>
           cols == cache.tables[<<db, table>>]
<1>1. /\ <<db, table>> \in DOMAIN cache.tables /\ <<db, table>> \in Tables
      /\ ram' = Put(ram, key, cols) /\ expected' = expected \cup {pk}
      /\ UNCHANGED <<catalog, cache, storage, ddl, calm, requests>>
  BY DEF Save, Tables
<1>2. CalmRow(pk)' => HomeKey(pk)' = key /\ db \in calm /\ Id \in cols
  <2>1. SUFFICES ASSUME CalmRow(pk)' PROVE HomeKey(pk)' = key /\ db \in calm /\ Id \in cols
    OBVIOUS
  <2>2. home'[pk] = <<db, table>>
    BY <2>1
  <2>3. db \in calm
    BY <2>1, <2>2, <1>1 DEF CalmRow
  <2>4. Id \in cols
    BY <2>3, <1>1, CalmParts DEF CalmSchema
  <2>5. HomeKey(pk)' = key
    BY <2>2, <1>1, AppendedIs DEF HomeKey
  <2>6. QED
    BY <2>3, <2>4, <2>5
<1>3. key[1] = db /\ key[2] = table /\ key[3] = pk
  OBVIOUS
<1> HIDE DEF key, cols
<1>4. /\ DOMAIN ram' = DOMAIN ram \cup {key} /\ ram'[key] = cols
      /\ \A k \in DOMAIN ram : k # key => ram'[k] = ram[k]
  BY <1>1 DEF Put
<1>5. \A q \in DOMAIN home : /\ CalmRow(q)' <=> CalmRow(q)
                             /\ HomeKey(q)' = HomeKey(q) /\ HomePath(q)' = HomePath(q)
  BY <1>1 DEF CalmRow, HomeKey, HomePath
<1>6. CalmSchema'
  <2>1. CalmSchema
    BY CalmParts
  <2>2. \A t : Altering(t)' <=> Altering(t)
    BY <1>1 DEF Altering
  <2>3. \A q \in DOMAIN home' : CalmRow(q)' => home'[q] \in DOMAIN catalog.tables
    <3>1. \A q \in DOMAIN home : CalmRow(q)' => home'[q] \in DOMAIN catalog.tables
      BY <1>5, <2>1 DEF CalmSchema
    <3>2. CalmRow(pk)' => home'[pk] \in DOMAIN catalog.tables
      BY <1>1, <1>2, <2>1 DEF CalmSchema
    <3>3. QED
      BY <3>1, <3>2
  <2>4. QED
    BY <1>1, <2>1, <2>2, <2>3 DEF CalmSchema
<1>7. CalmDdl'
  BY <1>1, CalmParts DEF CalmDdl
<1>8. ASSUME NEW p \in Paths PROVE CalmStore(p)'
  <2>1. \A k \in DOMAIN store[p] : p[3] = "data" => k[3] \in DOMAIN home
    BY RowKeys
  <2>2. CalmStore(p)
    BY CalmParts
  <2>3. handle'[p] = handle[p] /\ store'[p] = store[p] /\ present' = present /\ calm' = calm
    BY <1>1 DEF storage
  <2>4. p[3] = "data" => \A k \in DOMAIN store[p] : CalmRow(k[3])' =>
          /\ k = HomeKey(k[3])' /\ p = HomePath(k[3])'
          /\ store[p][k].enc = 0 /\ Id \in store[p][k].set
    BY <1>5, <2>1, <2>2 DEF CalmStore
  <2>5. QED
    BY <2>2, <2>3, <2>4 DEF CalmStore
<1>9. CalmRam'
  <2>1. \A k \in DOMAIN ram : k[3] \in DOMAIN home
    BY RowKeys
  <2>2. \A k \in DOMAIN ram : CalmRow(k[3])' => k = HomeKey(k[3])' /\ Id \in ram[k]
    BY <2>1, <1>5, CalmParts DEF CalmRam
  <2>3. \A k \in DOMAIN ram' : CalmRow(k[3])' => k = HomeKey(k[3])' /\ Id \in ram'[k]
    BY <2>2, <1>4, <1>3, <1>2
  <2>4. QED
    BY <2>3 DEF CalmRam
<1>10. CalmHeld'
  <2>1. \A k \in ddl.keys : ddl.pc = "rowKeys" => k[3] \in DOMAIN home
    <3>1. SUFFICES ASSUME NEW k \in ddl.keys, ddl.pc = "rowKeys" PROVE k[3] \in DOMAIN home
      OBVIOUS
    <3>2. k \in StoredKeys(ddl.path) /\ ddl.path[3] = "data"
      BY <3>1, InvParts DEF KeysFit, Moved
    <3>3. QED
      BY <3>2 DEF StoredKeys
  <2>2. DOMAIN ddl.rows \subseteq DOMAIN home
    BY RowKeys
  <2>3. QED
    BY <2>1, <2>2, <1>1, <1>5, CalmParts DEF CalmHeld
<1>11. CalmExpected'
  <2>1. expected \subseteq DOMAIN home
    BY RowKeys
  <2>2. store' = store
    BY <1>1 DEF storage
  <2>3. \A q \in expected : CalmRow(q)' =>
          HomeKey(q)' \in DOMAIN ram \/ HomeKey(q)' \in DOMAIN store'[HomePath(q)']
    BY <2>1, <2>2, <1>5, CalmParts DEF CalmExpected
  <2>4. \A q \in expected' : CalmRow(q)' =>
          HomeKey(q)' \in DOMAIN ram' \/ HomeKey(q)' \in DOMAIN store'[HomePath(q)']
    BY <2>3, <1>1, <1>4, <1>2
  <2>5. QED
    BY <2>4 DEF CalmExpected
<1>12. QED
  BY <1>6, <1>7, <1>8, <1>9, <1>10, <1>11 DEF CalmInv

\* A calm row that can be read is read under its own key.
LEMMA ReadAtHome ==
  ASSUME StoresInv, CalmInv, NEW t \in Tables, NEW pk, RowOf(<<t[1], t[2], pk>>) # {}, CalmRow(pk)
  PROVE  home[pk] = t
<1> DEFINE key == <<t[1], t[2], pk>>
           p == <<key[1], key[2], "data">>
<1>1. pk \in DOMAIN home
  BY StorageFacts, ReadRowsInserted DEF StoresInv
<1>2. key \in DOMAIN ram \/ key \in DOMAIN store[p]
  BY DEF RowOf
<1>3. p \in Paths /\ p[3] = "data" /\ key[3] = pk /\ key[1] = t[1] /\ key[2] = t[2]
      /\ t = <<t[1], t[2]>>
  BY TablePaths DEF Tables, Paths
<1>4. key = HomeKey(pk)
  <2> HIDE DEF p, key
  <2>1. CASE key \in DOMAIN ram
    BY <2>1, <1>3, CalmParts DEF CalmRam
  <2>2. CASE key \in DOMAIN store[p]
    BY <2>2, <1>3, CalmParts DEF CalmStore
  <2>3. QED
    BY <2>1, <2>2, <1>2
<1>5. QED
  BY <1>1, <1>3, <1>4, HomeFacts

\* Insert keeps CalmInv.
LEMMA InsertCalm ==
  ASSUME StoresInv, CalmInv, NEW db \in Dbs, NEW table \in Tabs, NEW pk \in Pks, Insert(db, table, pk)
  PROVE  CalmInv'
<1>1. /\ pk \notin DOMAIN home /\ Save(db, table, pk)
      /\ home' = Put(home, pk, <<db, table>>)
  BY DEF Insert
<1>2. IsMap(home', Pks, Tables)
  BY <1>1, PutMap, StorageFacts DEF Tables
<1> DEFINE t == <<db, table>>
<1>3. home' = Put(home, pk, t)
  BY <1>1
<1> HIDE DEF t
<1>4. /\ DOMAIN home' = DOMAIN home \cup {pk} /\ home'[pk] = t
      /\ \A q \in DOMAIN home : home'[q] = home[q]
  BY <1>1, <1>3 DEF Put
<1>5. QED
  BY <1>1, <1>2, <1>4, SaveCalm DEF t

\* Update keeps CalmInv.
LEMMA UpdateCalm ==
  ASSUME StoresInv, CalmInv, NEW db \in Dbs, NEW table \in Tabs, NEW pk \in Pks, Update(db, table, pk)
  PROVE  CalmInv'
<1> DEFINE t == <<db, table>>
<1>1. /\ RowOf(<<db, table, pk>>) # {} /\ Save(db, table, pk) /\ UNCHANGED home
      /\ t \in Tables /\ t[1] = db /\ t[2] = table
  BY DEF Update, Tables
<1> HIDE DEF t
<1>2. pk \in DOMAIN home
  BY <1>1, ReadRowsInserted DEF StoresInv
<1>3. calm' = calm
  BY <1>1 DEF Save
<1>4. CalmRow(pk)' => home'[pk] = t
  BY <1>1, <1>3, ReadAtHome DEF CalmRow
<1>5. QED
  BY <1>1, <1>2, <1>4, StorageFacts, SaveCalm DEF t

\* A step that leaves the schema and the request alone leaves calm rows where a request
\* expects them.
LEMMA StorageCalm ==
  ASSUME StoresInv, CalmInv,
         UNCHANGED <<catalog, cache, ddl, home, calm, expected>>,
         \A p \in Paths : CalmStore(p)', CalmRam', CalmExpected'
  PROVE  CalmInv'
<1>1. CalmSchema'
  BY CalmSchemaKept
<1>2. CalmDdl'
  BY CalmParts DEF CalmDdl
<1>3. CalmHeld'
  BY CalmParts DEF CalmHeld, CalmRow
<1>4. QED
  BY <1>1, <1>2, <1>3 DEF CalmInv

\* Opening a calm store makes it usable; the others are as they were.
LEMMA OpenedCalm ==
  ASSUME StoresInv, CalmInv, NEW p \in Paths, GetDiskStore(p)
  PROVE  \A q \in Paths :
           /\ q # p => handle'[q] = handle[q] /\ (q \in present' => q \in present)
           /\ q[1] \in calm => handle'[q] # "closed" /\ (q \in present' => handle'[q] = "open")
           /\ q[1] \in calm => (handle[q] = "open" => handle'[q] = "open")
<1>1. handle \in [Paths -> {"none", "open", "closed"}]
  BY StorageFacts
<1>2. handle' = [handle EXCEPT ![p] = IF @ = "none" THEN "open" ELSE @]
  BY DEF GetDiskStore
<1>3. present' \subseteq present \cup {p}
  BY DEF GetDiskStore
<1>4. /\ handle'[p] = IF handle[p] = "none" THEN "open" ELSE handle[p]
      /\ \A q \in Paths : q # p => handle'[q] = handle[q]
  BY <1>1, <1>2
<1>5. \A q \in Paths : q[1] \in calm =>
        handle[q] \in {"none", "open"} /\ (q \in present => handle[q] = "open")
  BY <1>1, CalmParts DEF CalmStore
<1>6. QED
  BY <1>3, <1>4, <1>5

\* GetData keeps CalmInv.
LEMMA GetDataCalm ==
  ASSUME StoresInv, CalmInv, NEW db \in Dbs, NEW table \in Tabs, GetData(db, table)
  PROVE  CalmInv'
<1> DEFINE p == <<db, table, "data">>
<1>1. /\ p \in Paths /\ GetDiskStore(p)
      /\ UNCHANGED <<catalog, cache, store, buffers, ddl, history, writes, requests>>
  BY DEF GetData, Paths
<1> HIDE DEF p
<1>2. \A q \in Paths : CalmStore(q)'
  <2>1. \A q \in Paths : q[1] \in calm =>
          handle'[q] # "closed" /\ (q \in present' => handle'[q] = "open")
    BY <1>1, OpenedCalm
  <2>2. UNCHANGED <<store, calm, home>>
    BY <1>1 DEF history
  <2>3. QED
    BY <2>1, <2>2, CalmParts DEF CalmStore, CalmRow, HomeKey, HomePath
<1>3. CalmRam'
  BY <1>1, CalmParts DEF CalmRam, CalmRow, HomeKey, buffers, history
<1>4. CalmExpected'
  BY <1>1, CalmParts DEF CalmExpected, CalmRow, HomeKey, HomePath, buffers, history
<1>5. QED
  BY <1>1, <1>2, <1>3, <1>4, StorageCalm DEF history

\* FlushRow keeps CalmInv.
LEMMA FlushRowCalm ==
  ASSUME StoresInv, CalmInv, NEW key \in DOMAIN ram, FlushRow(key)
  PROVE  CalmInv'
<1> DEFINE p == <<key[1], key[2], "data">>
           held == Put(store[p], key, Value(ram[key]))
<1>1. /\ GetDiskStore(p) /\ store' = [store EXCEPT ![p] = held] /\ ram' = Drop(ram, key)
      /\ UNCHANGED <<catalog, cache, ibuf, ddl, history, writes, requests>>
  BY DEF FlushRow
<1>2. /\ key \in Dbs \X Tabs \X DOMAIN home /\ key[3] \in DOMAIN home
      /\ p \in Paths /\ p[3] = "data" /\ p[1] = key[1]
  <2>1. key \in Dbs \X Tabs \X DOMAIN home /\ key[3] \in DOMAIN home
    BY RowKeys
  <2>2. p \in Paths
    BY <2>1, KeyPath
  <2>3. QED
    BY <2>1, <2>2
<1>3. CalmRow(key[3]) => key = HomeKey(key[3]) /\ p = HomePath(key[3]) /\ Id \in ram[key]
  <2>1. SUFFICES ASSUME CalmRow(key[3])
                 PROVE  key = HomeKey(key[3]) /\ p = HomePath(key[3]) /\ Id \in ram[key]
    OBVIOUS
  <2>2. key = HomeKey(key[3]) /\ Id \in ram[key]
    BY <2>1, CalmParts DEF CalmRam
  <2>3. key[1] = home[key[3]][1] /\ key[2] = home[key[3]][2]
    BY <1>2, <2>2, HomeFacts
  <2>4. p = HomePath(key[3])
    BY <1>2, <2>3, HomeFacts
  <2>5. QED
    BY <2>2, <2>4
<1> HIDE DEF p
<1>4. /\ DOMAIN held = DOMAIN store[p] \cup {key} /\ held[key] = Value(ram[key])
      /\ \A k \in DOMAIN store[p] : k # key => held[k] = store[p][k]
  BY DEF Put
<1>5. /\ DOMAIN ram' = DOMAIN ram \ {key} /\ \A k \in DOMAIN ram' : ram'[k] = ram[k]
  BY <1>1 DEF Drop, Restrict
<1> HIDE DEF held
<1>6. /\ store'[p] = held /\ \A q \in Paths : q # p => store'[q] = store[q]
  BY <1>1, <1>2, StorageFacts
<1>7. \A q \in Paths : CalmStore(q)'
  <2>1. \A q \in Paths : q[1] \in calm =>
          handle'[q] # "closed" /\ (q \in present' => handle'[q] = "open")
    BY <1>1, <1>2, OpenedCalm
  <2>2. UNCHANGED <<calm, home>>
    BY <1>1 DEF history
  <2>3. ASSUME NEW q \in Paths, q # p PROVE CalmStore(q)'
    BY <2>1, <2>2, <2>3, <1>6, CalmParts DEF CalmStore, CalmRow, HomeKey, HomePath
  <2>4. \A k \in DOMAIN held : CalmRow(k[3]) =>
          /\ k = HomeKey(k[3]) /\ p = HomePath(k[3])
          /\ held[k].enc = 0 /\ Id \in held[k].set
    <3>1. \A k \in DOMAIN store[p] : CalmRow(k[3]) =>
            /\ k = HomeKey(k[3]) /\ p = HomePath(k[3])
            /\ store[p][k].enc = 0 /\ Id \in store[p][k].set
      BY <1>2, CalmParts DEF CalmStore
    <3>2. held[key].enc = 0 /\ held[key].set = ram[key]
      BY <1>4 DEF Value
    <3>3. QED
      BY <3>1, <3>2, <1>3, <1>4
  <2>5. CalmStore(p)'
    BY <2>1, <2>2, <2>4, <1>2, <1>6 DEF CalmStore, CalmRow, HomeKey, HomePath
  <2>6. QED
    BY <2>3, <2>5
<1>8. CalmRam'
  BY <1>1, <1>5, CalmParts DEF CalmRam, CalmRow, HomeKey, history
<1>9. CalmExpected'
  <2>1. UNCHANGED <<calm, home, expected>>
    BY <1>1 DEF history
  <2>2. ASSUME NEW pk \in expected, CalmRow(pk)
        PROVE  HomeKey(pk) \in DOMAIN ram' \/ HomeKey(pk) \in DOMAIN store'[HomePath(pk)]
    <3>1. pk \in DOMAIN home /\ HomePath(pk) \in Paths /\ HomeKey(pk)[3] = pk
      BY RowKeys, HomeFacts
    <3>2. HomeKey(pk) \in DOMAIN ram \/ HomeKey(pk) \in DOMAIN store[HomePath(pk)]
      BY <2>2, CalmParts DEF CalmExpected
    <3>3. CASE HomeKey(pk) = key
      BY <3>1, <3>3, <2>2, <1>3, <1>4, <1>6
    <3>4. CASE HomeKey(pk) # key
      BY <3>1, <3>2, <3>4, <1>4, <1>5, <1>6
    <3>5. QED
      BY <3>3, <3>4
  <2>3. QED
    BY <2>1, <2>2 DEF CalmExpected, CalmRow, HomeKey, HomePath
<1>10. QED
  BY <1>1, <1>7, <1>8, <1>9, StorageCalm DEF history

\* FlushIndex keeps CalmInv.
LEMMA FlushIndexCalm ==
  ASSUME StoresInv, CalmInv, NEW key \in DOMAIN ibuf, FlushIndex(key)
  PROVE  CalmInv'
<1> DEFINE p == <<key[1], key[2], "index">>
           old == IF key \in DOMAIN store[p] /\ store[p][key].enc = 0 THEN store[p][key].set ELSE {}
           held == Put(store[p], key, Value(old \cup ibuf[key]))
<1>1. /\ GetDiskStore(p)
      /\ store' = [store EXCEPT ![p] = held] \/ store' = store
      /\ UNCHANGED <<catalog, cache, ram, ddl, history, writes, requests>>
  BY DEF FlushIndex
<1>2. p \in Paths /\ p[3] = "index"
  <2>1. key \in Dbs \X Tabs \X Cols
    BY StorageFacts, MapFacts
  <2>2. p \in Paths
    BY <2>1, KeyPath
  <2>3. QED
    BY <2>2
<1> HIDE DEF p, old
<1>3. /\ DOMAIN held = DOMAIN store[p] \cup {key} /\ held[key].enc = 0
      /\ \A k \in DOMAIN store[p] : k # key => held[k] = store[p][k]
  BY DEF Put, Value
<1> HIDE DEF held
<1>4. \A q \in Paths : q # p => store'[q] = store[q]
  BY <1>1, <1>2, StorageFacts
<1>5. store'[p] \in {held, store[p]}
  BY <1>1, <1>2, StorageFacts
<1>6. UNCHANGED <<calm, home, expected>>
  BY <1>1 DEF history
<1>7. \A q \in Paths : CalmStore(q)'
  <2>1. \A q \in Paths : q[1] \in calm =>
          handle'[q] # "closed" /\ (q \in present' => handle'[q] = "open")
    BY <1>1, <1>2, OpenedCalm
  <2>2. ASSUME NEW q \in Paths, q # p PROVE CalmStore(q)'
    BY <2>1, <2>2, <1>4, <1>6, CalmParts DEF CalmStore, CalmRow, HomeKey, HomePath
  <2>3. p[1] \in calm => \A k \in DOMAIN store'[p] : store'[p][k].enc = 0
    <3>1. p[1] \in calm => \A k \in DOMAIN store[p] : store[p][k].enc = 0
      BY <1>2, CalmParts DEF CalmStore
    <3>2. QED
      BY <3>1, <1>3, <1>5
  <2>4. CalmStore(p)'
    BY <2>1, <2>3, <1>2, <1>6 DEF CalmStore
  <2>5. QED
    BY <2>2, <2>4
<1>8. CalmRam'
  BY <1>1, <1>6, CalmParts DEF CalmRam, CalmRow, HomeKey
<1>9. CalmExpected'
  <2>1. \A pk \in expected : HomePath(pk) \in Paths /\ HomePath(pk) # p
    BY <1>2, RowKeys, HomeFacts
  <2>2. QED
    BY <2>1, <1>1, <1>4, <1>6, CalmParts DEF CalmExpected, CalmRow, HomeKey, HomePath
<1>10. QED
  BY <1>1, <1>6, <1>7, <1>8, <1>9, StorageCalm

\* Requests on rows and flushes keep CalmInv.
LEMMA RowStepCalm ==
  ASSUME StoresInv, CalmInv, RowStep
  PROVE  CalmInv'
BY InsertCalm, UpdateCalm, GetDataCalm, FlushRowCalm, FlushIndexCalm DEF RowStep

\* A request leaves rows and stores as they are.
LEMMA RequestCalm ==
  ASSUME StoresInv, CalmInv, NEW t, Requested(t), calm' \subseteq calm,
         t.keys = {}, t.rows = Empty, CalmSchema', CalmDdl'
  PROVE  CalmInv'
<1>1. /\ ddl' = t /\ UNCHANGED <<cache, storage, buffers, home, expected, indexed, writes>>
  BY RequestedFacts
<1>2. (\A p \in Paths : CalmStore(p)') /\ CalmRam' /\ CalmExpected'
  BY <1>1, CalmStoresKept DEF buffers
<1>3. CalmHeld'
  BY <1>1, EmptyMap DEF CalmHeld
<1>4. QED
  BY <1>2, <1>3 DEF CalmInv

\* Creating a database or a table keeps CalmInv.
LEMMA CreateCalm ==
  ASSUME StoresInv, CalmInv,
         NEW t, t = [NoDdl EXCEPT !.op = "create", !.pc = "reload"], Requested(t), UNCHANGED calm,
         \E db \in Dbs :
           \/ catalog' = [catalog EXCEPT !.dbs = @ \cup {db}]
           \/ \E table \in Tabs, cols \in SUBSET Cols :
                /\ db \in cache.dbs /\ <<db, table>> \notin DOMAIN cache.tables
                /\ catalog' = [catalog EXCEPT !.tables = Put(@, <<db, table>>, cols \cup {Id})]
  PROVE  CalmInv'
<1>1. /\ t.op = "create" /\ t.keys = {} /\ t.rows = Empty
  BY DEF NoDdl
<1>2. /\ ddl.op = "none" /\ ddl' = t /\ UNCHANGED <<cache, home, calm>>
  BY RequestedFacts DEF NoDdl
<1>3. /\ catalog \in [dbs : SUBSET Dbs, tables : {catalog.tables}]
      /\ DOMAIN catalog.tables \subseteq Tables
  BY InvParts DEF SchemaOK
<1>4. CalmSchema
  BY CalmParts
<1>5. ~\E u : Altering(u) \/ Altering(u)'
  BY <1>1, <1>2 DEF Altering
<1>6. CalmDdl'
  BY <1>1, <1>2 DEF CalmDdl
<1>7. PICK db \in Dbs :
        \/ catalog' = [catalog EXCEPT !.dbs = @ \cup {db}]
        \/ \E table \in Tabs, cols \in SUBSET Cols :
             /\ db \in cache.dbs /\ <<db, table>> \notin DOMAIN cache.tables
             /\ catalog' = [catalog EXCEPT !.tables = Put(@, <<db, table>>, cols \cup {Id})]
  OBVIOUS
<1>8. CASE catalog' = [catalog EXCEPT !.dbs = @ \cup {db}]
  <2>1. catalog'.tables = catalog.tables /\ catalog'.dbs = catalog.dbs \cup {db}
    BY <1>3, <1>8
  <2>2. CalmSchema'
    BY <2>1, <1>1, <1>2, <1>4, <1>5 DEF CalmSchema, CalmRow
  <2>3. QED
    BY <2>2, <1>1, <1>2, <1>6, RequestCalm
<1>9. ASSUME NEW table \in Tabs, NEW cols \in SUBSET Cols,
             db \in cache.dbs, <<db, table>> \notin DOMAIN cache.tables,
             catalog' = [catalog EXCEPT !.tables = Put(@, <<db, table>>, cols \cup {Id})]
      PROVE  CalmInv'
  <2> DEFINE u == <<db, table>>
             tables == Put(catalog.tables, u, cols \cup {Id})
  <2>1. u \in Tables /\ u[1] = db /\ u \notin DOMAIN cache.tables
    BY <1>9 DEF Tables
  <2>2. catalog'.tables = tables /\ catalog'.dbs = catalog.dbs
    BY <1>3, <1>9
  <2> HIDE DEF u
  <2>3. /\ DOMAIN tables = DOMAIN catalog.tables \cup {u} /\ tables[u] = cols \cup {Id}
        /\ \A v \in DOMAIN catalog.tables : v # u => tables[v] = catalog.tables[v]
    BY DEF Put
  <2> HIDE DEF tables
  <2>4. db \in calm => db \in catalog.dbs
    BY <1>4, <1>9 DEF CalmSchema
  <2>5. CalmSchema'
    <3>1. ASSUME NEW v \in Tables, v[1] \in calm
          PROVE  /\ v \in DOMAIN tables => Id \in tables[v] /\ v[1] \in catalog.dbs
                 /\ v \in DOMAIN cache.tables =>
                      v \in DOMAIN tables /\ Id \in cache.tables[v] /\ cache.tables[v] = tables[v]
      <4>1. CASE v = u
        BY <4>1, <3>1, <2>1, <2>3, <2>4
      <4>2. CASE v # u
        BY <4>2, <3>1, <2>3, <1>4, <1>5 DEF CalmSchema
      <4>3. QED
        BY <4>1, <4>2
    <3>2. \A pk \in DOMAIN home : CalmRow(pk) => home[pk] \in DOMAIN tables
      BY <2>3, <1>4 DEF CalmSchema
    <3>3. calm \cap cache.dbs \subseteq catalog.dbs
      BY <1>4 DEF CalmSchema
    <3>4. QED
      BY <3>1, <3>2, <3>3, <2>2, <1>1, <1>2 DEF CalmSchema, CalmRow
  <2>6. QED
    BY <2>5, <1>1, <1>2, <1>6, RequestCalm
<1>10. QED
  BY <1>7, <1>8, <1>9

\* A rename takes its databases' calm away.
LEMMA RenameCalm ==
  ASSUME StoresInv, CalmInv, NEW from \in Folders, NEW to \in Folders, Rename(from, to)
  PROVE  CalmInv'
<1> DEFINE t == [NoDdl EXCEPT !.op = "rename", !.pc = "rowKeys", !.from = from, !.to = to,
                              !.paths = RenamedStores(from, "data")]
<1>1. /\ Requested(t) /\ calm' = calm \ {from[1], to[1]} /\ UNCHANGED catalog
  BY DEF Rename
<1>2. t.op = "rename" /\ t.from = from /\ t.to = to /\ t.keys = {} /\ t.rows = Empty
  BY DEF NoDdl
<1> HIDE DEF t
<1>3. ddl' = t /\ ddl.op = "none" /\ UNCHANGED <<cache, home>>
  BY <1>1, RequestedFacts DEF NoDdl
<1>4. CalmSchema'
  BY <1>1, <1>3, CalmSchemaKept
<1>5. CalmDdl'
  BY <1>1, <1>2, <1>3 DEF CalmDdl
<1>6. QED
  BY <1>1, <1>2, <1>4, <1>5, RequestCalm

\* A delete takes its database's calm away.
LEMMA DeleteCalm ==
  ASSUME StoresInv, CalmInv, NEW from \in Folders, Delete(from)
  PROVE  CalmInv'
<1> DEFINE t == [NoDdl EXCEPT !.op = "delete", !.pc = "dropKeys", !.from = from]
<1>1. /\ Requested(t) /\ calm' = calm \ {from[1]} /\ UNCHANGED catalog
  BY DEF Delete
<1>2. t.op = "delete" /\ t.from = from /\ t.keys = {} /\ t.rows = Empty
  BY DEF NoDdl
<1> HIDE DEF t
<1>3. ddl' = t /\ ddl.op = "none" /\ UNCHANGED <<cache, home>>
  BY <1>1, RequestedFacts DEF NoDdl
<1>4. CalmSchema'
  BY <1>1, <1>3, CalmSchemaKept
<1>5. CalmDdl'
  BY <1>1, <1>2, <1>3 DEF CalmDdl
<1>6. QED
  BY <1>1, <1>2, <1>4, <1>5, RequestCalm

\* A refresh changes no schema.
LEMMA RefereshIndexCalm ==
  ASSUME StoresInv, CalmInv, RefereshIndex
  PROVE  CalmInv'
<1> DEFINE paths == {<<u[1], u[2], "index">> : u \in DOMAIN cache.tables}
           t == [NoDdl EXCEPT !.op = "refresh", !.pc = "unindex", !.paths = paths]
<1>1. Requested(t) /\ UNCHANGED <<catalog, calm>>
  BY DEF RefereshIndex
<1> HIDE DEF paths
<1>2. t.op = "refresh" /\ t.keys = {} /\ t.rows = Empty
  BY DEF NoDdl
<1> HIDE DEF t
<1>3. ddl' = t /\ ddl.op = "none" /\ UNCHANGED <<cache, home>>
  BY <1>1, RequestedFacts DEF NoDdl
<1>4. CalmSchema'
  BY <1>1, <1>3, CalmSchemaKept
<1>5. CalmDdl'
  BY <1>2, <1>3 DEF CalmDdl
<1>6. QED
  BY <1>1, <1>2, <1>4, <1>5, RequestCalm

\* An alteration that keeps Id does so in the schema.
LEMMA IdAltered ==
  ASSUME NEW cols, Id \in cols, NEW a, a.name # Id, a.do \in {"rename", "add", "drop"}
  PROVE  Id \in AlteredCols(cols, a)
BY DEF AlteredCols

\* An alteration keeps a calm table in the schema, and its Id.
LEMMA AlterTableCalm ==
  ASSUME StoresInv, CalmInv, NEW db \in Dbs, NEW table \in Tabs, NEW a \in Alterations,
         AlterTable(db, table, a)
  PROVE  CalmInv'
<1> DEFINE u == <<db, table>>
           stores == StoresUnder(u, "data")
           t == [NoDdl EXCEPT !.op = "alter", !.pc = "rows", !.from = u, !.alter = a,
                              !.paths = stores]
           cols == AlteredCols(catalog.tables[u], a)
<1>1. /\ u \in DOMAIN cache.tables /\ u \in DOMAIN catalog.tables
      /\ catalog' = [catalog EXCEPT !.tables[u] = cols]
      /\ Requested(t)
      /\ calm' = IF a.name = Id THEN calm \ {db} ELSE calm
  BY DEF AlterTable
<1>2. u \in Tables /\ u[1] = db
  BY DEF Tables
<1> HIDE DEF stores, u
<1>3. t.op = "alter" /\ t.from = u /\ t.keys = {} /\ t.rows = Empty
  BY DEF NoDdl
<1>4. ddl.op = "none" /\ ddl' = t /\ UNCHANGED <<cache, home>>
  BY <1>1, RequestedFacts DEF NoDdl
<1> HIDE DEF t
<1>5. a.do \in {"rename", "add", "drop"}
  BY TableStoresConstants
<1>6. CalmSchema
  BY CalmParts
<1>7. db \in calm /\ a.name # Id => Id \in cols
  BY <1>1, <1>2, <1>5, <1>6, IdAltered DEF CalmSchema
<1> HIDE DEF cols
<1>8. /\ catalog'.dbs = catalog.dbs /\ DOMAIN catalog'.tables = DOMAIN catalog.tables
      /\ catalog'.tables[u] = cols
      /\ \A v \in DOMAIN catalog.tables : v # u => catalog'.tables[v] = catalog.tables[v]
  <2>1. catalog \in [dbs : SUBSET Dbs, tables : {catalog.tables}] /\ IsMap(catalog.tables, Tables, SUBSET Cols)
    BY InvParts DEF SchemaOK
  <2>2. catalog'.dbs = catalog.dbs /\ catalog'.tables = [catalog.tables EXCEPT ![u] = cols]
    BY <2>1, <1>1
  <2>3. QED
    BY <2>1, <2>2, <1>1 DEF IsMap
<1>9. calm' \subseteq calm /\ (db \in calm' => a.name # Id)
  BY <1>1
<1>10. Altering(u)' /\ \A v : v # u => ~Altering(v)' /\ ~Altering(v)
  BY <1>3, <1>4 DEF Altering
<1>11. CalmSchema'
  <2>1. ASSUME NEW v \in Tables, v[1] \in calm'
        PROVE  /\ v \in DOMAIN catalog'.tables => Id \in catalog'.tables[v] /\ v[1] \in catalog'.dbs
               /\ v \in DOMAIN cache.tables =>
                    v \in DOMAIN catalog'.tables /\ Id \in cache.tables[v]
                    /\ (~Altering(v)' => cache.tables[v] = catalog'.tables[v])
               /\ v \in DOMAIN catalog'.tables => v \in DOMAIN cache.tables
    <3>1. v[1] \in calm /\ ddl.op # "create"
      BY <2>1, <1>4, <1>9
    <3>2. CASE v = u
      <4>1. db \in calm /\ a.name # Id
        BY <3>2, <2>1, <1>2, <1>9
      <4>2. QED
        BY <4>1, <3>1, <3>2, <1>1, <1>6, <1>7, <1>8, <1>10 DEF CalmSchema
    <3>3. CASE v # u
      BY <3>1, <3>3, <1>6, <1>8, <1>10 DEF CalmSchema
    <3>4. QED
      BY <3>2, <3>3
  <2>2. \A pk \in DOMAIN home : CalmRow(pk)' => home[pk] \in DOMAIN catalog'.tables
    BY <1>4, <1>6, <1>8, <1>9 DEF CalmSchema, CalmRow
  <2>3. calm' \cap cache.dbs \subseteq catalog'.dbs
    BY <1>6, <1>8, <1>9 DEF CalmSchema
  <2>4. QED
    BY <2>1, <2>2, <2>3, <1>4 DEF CalmSchema
<1>12. CalmDdl'
  BY <1>3, <1>4 DEF CalmDdl
<1>13. QED
  BY <1>1, <1>3, <1>9, <1>11, <1>12, RequestCalm

\* Schema requests keep CalmInv.
LEMMA SchemaRequestCalm ==
  ASSUME StoresInv, CalmInv, SchemaRequest
  PROVE  CalmInv'
<1> DEFINE t == [NoDdl EXCEPT !.op = "create", !.pc = "reload"]
<1>1. ASSUME NEW db \in Dbs, CreateDatabase(db) PROVE CalmInv'
  <2>1. Requested(t) /\ UNCHANGED calm /\ catalog' = [catalog EXCEPT !.dbs = @ \cup {db}]
    BY <1>1 DEF CreateDatabase
  <2> HIDE DEF t
  <2>2. QED
    BY <2>1, CreateCalm DEF t
<1>2. ASSUME NEW db \in Dbs, NEW table \in Tabs, CreateTable(db, table, FirstCols) PROVE CalmInv'
  <2>1. /\ Requested(t) /\ UNCHANGED calm
        /\ db \in cache.dbs /\ <<db, table>> \notin DOMAIN cache.tables
        /\ catalog' = [catalog EXCEPT !.tables = Put(@, <<db, table>>, FirstCols \cup {Id})]
    BY <1>2 DEF CreateTable
  <2>2. FirstCols \in SUBSET Cols
    BY TableStoresConstants
  <2> HIDE DEF t
  <2>3. QED
    BY <2>1, <2>2, CreateCalm DEF t
<1>3. \A db \in Dbs, table \in Tabs : <<db, table>> \in Folders
  BY DEF Folders, Tables
<1>4. ASSUME NEW db \in Dbs, DeleteDatabase(db) PROVE CalmInv'
  <2> DEFINE from == <<db>>
  <2>1. from \in Folders /\ Delete(from)
    BY <1>4 DEF DeleteDatabase, Folders
  <2> HIDE DEF from
  <2>2. QED
    BY <2>1, DeleteCalm
<1>5. ASSUME NEW db \in Dbs, NEW table \in Tabs, DeleteTable(db, table) PROVE CalmInv'
  <2> DEFINE from == <<db, table>>
  <2>1. from \in Folders /\ Delete(from)
    BY <1>3, <1>5 DEF DeleteTable
  <2> HIDE DEF from
  <2>2. QED
    BY <2>1, DeleteCalm
<1>6. ASSUME NEW db \in Dbs, NEW to \in Dbs, RenameDatabase(db, to) PROVE CalmInv'
  <2> DEFINE from == <<db>>
             new == <<to>>
  <2>1. from \in Folders /\ new \in Folders /\ Rename(from, new)
    BY <1>6 DEF RenameDatabase, Folders
  <2> HIDE DEF from, new
  <2>2. QED
    BY <2>1, RenameCalm
<1>7. ASSUME NEW db \in Dbs, NEW table \in Tabs, NEW to \in Tabs, RenameTable(db, table, to)
      PROVE  CalmInv'
  <2> DEFINE from == <<db, table>>
             new == <<db, to>>
  <2>1. from \in Folders /\ new \in Folders /\ Rename(from, new)
    BY <1>3, <1>7 DEF RenameTable
  <2> HIDE DEF from, new
  <2>2. QED
    BY <2>1, RenameCalm
<1>8. QED
  BY <1>1, <1>2, <1>4, <1>5, <1>6, <1>7, AlterTableCalm, RefereshIndexCalm DEF SchemaRequest

\* The paths and keys a rename goes through are no calm database's.
LEMMA RenamesOthers ==
  ASSUME StoresInv, CalmInv, ddl.op = "rename", NEW p \in Paths, Moved(p)
  PROVE  p[1] = ddl.from[1] /\ p[1] \notin calm
<1>1. ddl.from \in Folders
  BY InvParts DEF OpFits
<1>2. p[1] = ddl.from[1]
  BY <1>1, UnderParts DEF Moved
<1>3. QED
  BY <1>2, CalmParts DEF CalmDdl

\* A step of a request that leaves schema, rows and stores alone.
LEMMA QuietCalm ==
  ASSUME StoresInv, CalmInv,
         UNCHANGED <<catalog, cache, storage, ram, home, calm, expected>>,
         \/ ddl' = NoDdl /\ ddl.op \notin {"alter", "create"}
         \/ ddl'.op = ddl.op /\ ddl'.from = ddl.from /\ ddl'.to = ddl.to,
         CalmHeld'
  PROVE  CalmInv'
<1>1. (\A p \in Paths : CalmStore(p)') /\ CalmRam' /\ CalmExpected'
  BY CalmStoresKept
<1>2. NoDdl.op = "none"
  BY DEF NoDdl
<1>3. CalmSchema'
  BY <1>2, CalmSchemaKept
<1>4. CalmDdl'
  BY <1>2, CalmParts DEF CalmDdl
<1>5. QED
  BY <1>1, <1>3, <1>4 DEF CalmInv

\* Without keys and rows a request holds none of a calm row.
LEMMA HeldNone ==
  ASSUME ddl'.keys = {} \/ ddl'.pc # "rowKeys", ddl'.rows = Empty
  PROVE  CalmHeld'
BY EmptyMap DEF CalmHeld

\* A step of a request that writes one store.
LEMMA WriteCalm ==
  ASSUME StoresInv, CalmInv, NEW p \in Paths, NEW held, store' = [store EXCEPT ![p] = held],
         UNCHANGED <<catalog, cache, present, handle, ram, home, calm, expected>>,
         ddl'.op = ddl.op /\ ddl'.from = ddl.from /\ ddl'.to = ddl.to, CalmHeld',
         p[3] = "index" => p[1] \notin calm,
         p[3] = "data" => \A k \in DOMAIN held : CalmRow(k[3]) =>
           /\ k = HomeKey(k[3]) /\ p = HomePath(k[3])
           /\ held[k].enc = 0 /\ Id \in held[k].set,
         \A pk \in DOMAIN home : CalmRow(pk) /\ HomePath(pk) = p =>
           (HomeKey(pk) \in DOMAIN store[p] => HomeKey(pk) \in DOMAIN held)
  PROVE  CalmInv'
<1>1. store'[p] = held /\ \A q \in Paths : q # p => store'[q] = store[q]
  BY StorageFacts
<1>2. CalmSchema'
  BY CalmSchemaKept
<1>3. CalmDdl'
  BY CalmParts DEF CalmDdl
<1>4. ASSUME NEW q \in Paths PROVE CalmStore(q)'
  <2>1. CASE q = p
    <3>1. p[1] \in calm => handle[p] # "closed" /\ (p \in present => handle[p] = "open")
      BY CalmParts DEF CalmStore
    <3>2. QED
      BY <2>1, <3>1, <1>1 DEF CalmStore, CalmRow, HomeKey, HomePath
  <2>2. CASE q # p
    BY <2>2, <1>1, CalmParts DEF CalmStore, CalmRow, HomeKey, HomePath
  <2>3. QED
    BY <2>1, <2>2
<1>5. CalmRam'
  BY CalmParts DEF CalmRam, CalmRow, HomeKey
<1>6. CalmExpected'
  <2>1. \A pk \in expected : pk \in DOMAIN home /\ HomePath(pk) \in Paths
    BY RowKeys, HomeFacts
  <2>2. \A pk \in expected : CalmRow(pk) =>
          HomeKey(pk) \in DOMAIN ram \/ HomeKey(pk) \in DOMAIN store'[HomePath(pk)]
    BY <2>1, <1>1, CalmParts DEF CalmExpected
  <2>3. QED
    BY <2>2 DEF CalmExpected, CalmRow, HomeKey, HomePath
<1>7. QED
  BY <1>2, <1>3, <1>4, <1>5, <1>6 DEF CalmInv

\* ScanKeys finds no calm row.
LEMMA ScanKeysCalm ==
  ASSUME StoresInv, CalmInv, ScanKeys
  PROVE  CalmInv'
<1>1. PICK p \in ddl.paths :
        ddl' = [ddl EXCEPT !.paths = @ \ {p}, !.path = p,
                  !.keys = {k \in KeysIn(p) :
                    p[3] = "data" \/ k[3] \in catalog.tables[<<p[1], p[2]>>]}]
  BY DEF ScanKeys, Step
<1>2. /\ UNCHANGED <<catalog, cache, storage, ram, home, calm, expected>>
      /\ ddl.pc \in {"rowKeys", "indexKeys"}
  BY DEF ScanKeys, Step, buffers
<1>3. ddl.op = "rename"
  BY <1>2, InvParts, PcOps
<1>4. p \in Paths /\ Moved(p)
  BY <1>2, InvParts DEF DdlTypeOK, KeysFit, MovesKeys
<1>5. /\ ddl'.op = ddl.op /\ ddl'.from = ddl.from /\ ddl'.to = ddl.to /\ ddl'.pc = ddl.pc
      /\ ddl'.rows = ddl.rows /\ ddl'.keys \subseteq KeysIn(p)
  BY <1>1, InvParts DEF DdlTypeOK
<1>6. CalmHeld'
  <2>1. ddl.pc = "rowKeys" => \A k \in ddl'.keys : ~CalmRow(k[3])
    <3>1. SUFFICES ASSUME ddl.pc = "rowKeys", NEW k \in ddl'.keys PROVE ~CalmRow(k[3])
      OBVIOUS
    <3>2. p[3] = "data" /\ p[1] \notin calm
      BY <3>1, <1>3, <1>4, RenamesOthers DEF Moved
    <3>3. k \in DOMAIN store[p]
      BY <1>5 DEF KeysIn
    <3>4. QED
      BY <3>2, <3>3, <1>4, OthersHoldNone
  <2>2. QED
    BY <2>1, <1>2, <1>5, CalmParts DEF CalmHeld, CalmRow
<1>7. QED
  BY <1>2, <1>5, <1>6, QuietCalm

\* GetKey takes one of its keys.
LEMMA GetKeyCalm ==
  ASSUME StoresInv, CalmInv, GetKey
  PROVE  CalmInv'
<1>1. PICK k \in ddl.keys :
        ddl' = [ddl EXCEPT !.hand = [key |-> k, val |-> store[ddl.path][k], dropped |-> FALSE]]
  BY DEF GetKey, Step
<1>2. UNCHANGED <<catalog, cache, storage, ram, home, calm, expected>>
  BY DEF GetKey, Step, buffers
<1>3. /\ ddl'.op = ddl.op /\ ddl'.from = ddl.from /\ ddl'.to = ddl.to /\ ddl'.pc = ddl.pc
      /\ ddl'.rows = ddl.rows /\ ddl'.keys = ddl.keys
  BY <1>1, InvParts DEF DdlTypeOK
<1>4. CalmHeld'
  BY <1>2, <1>3, CalmParts DEF CalmHeld, CalmRow
<1>5. QED
  BY <1>2, <1>3, <1>4, QuietCalm

\* DeleteKey deletes no calm row's key.
LEMMA DeleteKeyCalm ==
  ASSUME StoresInv, CalmInv, DeleteKey
  PROVE  CalmInv'
<1> DEFINE k == ddl.hand.key
           hand == [ddl.hand EXCEPT !.dropped = TRUE]
<1>1. PICK p : p = ddl.path
  OBVIOUS
<1> DEFINE held == Drop(store[p], k)
<1>2. /\ ddl.hand # NoHand /\ store' = [store EXCEPT ![p] = held]
      /\ ddl' = [ddl EXCEPT !.hand = hand]
      /\ UNCHANGED <<catalog, cache, present, handle, ram, home, calm, expected>>
  BY <1>1, InvParts DEF DeleteKey, Step, DdlTypeOK, buffers
<1>3. p \in Paths /\ Moved(p) /\ ddl.op = "rename"
  BY <1>1, <1>2, HandFacts
<1>4. p[1] \notin calm
  BY <1>3, RenamesOthers
<1>5. /\ ddl'.op = ddl.op /\ ddl'.from = ddl.from /\ ddl'.to = ddl.to /\ ddl'.pc = ddl.pc
      /\ ddl'.rows = ddl.rows /\ ddl'.keys = ddl.keys
  BY <1>2, InvParts DEF DdlTypeOK
<1>6. CalmHeld'
  BY <1>2, <1>5, CalmParts DEF CalmHeld, CalmRow
<1>7. DOMAIN held \subseteq DOMAIN store[p]
  BY DEF Drop, Restrict
<1> HIDE DEF held
<1>8. p[3] = "data" => \A j \in DOMAIN held : ~CalmRow(j[3])
  BY <1>3, <1>4, <1>7, OthersHoldNone
<1>9. \A pk \in DOMAIN home : CalmRow(pk) => HomePath(pk) # p
  BY <1>4, HomeFacts DEF CalmRow
<1>10. QED
  BY <1>2, <1>3, <1>4, <1>5, <1>6, <1>8, <1>9, WriteCalm

\* SetKey writes no calm row's key.
LEMMA SetKeyCalm ==
  ASSUME StoresInv, CalmInv, SetKey
  PROVE  CalmInv'
<1> DEFINE k == ddl.hand.key
           val == [ddl.hand.val EXCEPT !.enc = @ + 1]
<1>1. PICK p : p = ddl.path
  OBVIOUS
<1> DEFINE held == Put(store[p], Renamed(k), val)
<1>2. /\ ddl.hand # NoHand /\ store' = [store EXCEPT ![p] = held]
      /\ ddl' = [ddl EXCEPT !.hand = NoHand, !.keys = @ \ {k}]
      /\ UNCHANGED <<catalog, cache, present, handle, ram, home, calm, expected>>
  BY <1>1, InvParts DEF SetKey, Step, DdlTypeOK, buffers
<1>3. /\ p \in Paths /\ Moved(p) /\ ddl.op = "rename" /\ MovesKeys
      /\ k \in ddl.keys /\ k \in StoredKeys(p)
  BY <1>1, <1>2, HandFacts
<1>4. p[1] \notin calm
  BY <1>3, RenamesOthers
<1>5. /\ ddl'.op = ddl.op /\ ddl'.from = ddl.from /\ ddl'.to = ddl.to /\ ddl'.pc = ddl.pc
      /\ ddl'.rows = ddl.rows /\ ddl'.keys \subseteq ddl.keys
  BY <1>2, InvParts DEF DdlTypeOK
<1>6. CalmHeld'
  BY <1>2, <1>5, CalmParts DEF CalmHeld, CalmRow
<1>7. DOMAIN held = DOMAIN store[p] \cup {Renamed(k)}
  BY DEF Put
<1>8. Renamed(k)[3] = k[3]
  BY <1>3, RenamedStored, InvParts DEF OpFits
<1> HIDE DEF held
<1>9. p[3] = "data" => \A j \in DOMAIN held : ~CalmRow(j[3])
  <2>1. SUFFICES ASSUME p[3] = "data" PROVE \A j \in DOMAIN held : ~CalmRow(j[3])
    OBVIOUS
  <2>2. ddl.pc = "rowKeys"
    BY <2>1, <1>3 DEF Moved
  <2>3. ~CalmRow(k[3])
    BY <2>2, <1>3, CalmParts DEF CalmHeld
  <2>4. \A j \in DOMAIN store[p] : ~CalmRow(j[3])
    BY <2>1, <1>3, <1>4, OthersHoldNone
  <2>5. QED
    BY <2>3, <2>4, <1>7, <1>8
<1>10. \A pk \in DOMAIN home : CalmRow(pk) => HomePath(pk) # p
  BY <1>4, HomeFacts DEF CalmRow
<1>11. QED
  BY <1>2, <1>3, <1>4, <1>5, <1>6, <1>9, <1>10, WriteCalm

\* AlterIndexKeys keeps CalmInv.
LEMMA AlterIndexKeysCalm ==
  ASSUME StoresInv, CalmInv, AlterIndexKeys
  PROVE  CalmInv'
<1> DEFINE paths == RenamedStores(ddl.from, "index")
<1>1. /\ ddl.pc = "rowKeys" /\ ddl.keys = {}
      /\ ddl' = NoDdl \/ ddl' = [ddl EXCEPT !.pc = "indexKeys", !.paths = paths]
      /\ UNCHANGED <<catalog, cache, storage, ram, home, calm, expected>>
  BY DEF AlterIndexKeys, Scanned, Step, buffers
<1>2. ddl.op = "rename" /\ ddl.rows = Empty
  BY <1>1, InvParts, PcOps DEF RowsFit
<1> HIDE DEF paths
<1>3. \/ ddl' = NoDdl
      \/ /\ ddl'.op = ddl.op /\ ddl'.from = ddl.from /\ ddl'.to = ddl.to
         /\ ddl'.keys = {} /\ ddl'.rows = Empty
  BY <1>1, <1>2, InvParts DEF DdlTypeOK
<1>4. CalmHeld'
  BY <1>3, HeldNone DEF NoDdl
<1>5. QED
  BY <1>1, <1>2, <1>3, <1>4, QuietCalm

\* A step of a request that changes the schema of other databases only.
LEMMA OtherSchemaCalm ==
  ASSUME StoresInv, CalmInv,
         UNCHANGED <<cache, storage, ram, home, calm, expected>>,
         ddl'.op = ddl.op /\ ddl'.from = ddl.from /\ ddl'.to = ddl.to, CalmHeld',
         \A t \in Tables : t[1] \in calm =>
           /\ t \in DOMAIN catalog'.tables <=> t \in DOMAIN catalog.tables
           /\ t \in DOMAIN catalog.tables => catalog'.tables[t] = catalog.tables[t],
         \A db \in calm : db \in catalog'.dbs <=> db \in catalog.dbs
  PROVE  CalmInv'
<1>1. (\A p \in Paths : CalmStore(p)') /\ CalmRam' /\ CalmExpected'
  BY CalmStoresKept
<1>2. CalmSchema'
  <2>1. CalmSchema
    BY CalmParts
  <2>2. \A t : Altering(t)' <=> Altering(t)
    BY DEF Altering
  <2>3. \A pk \in DOMAIN home : CalmRow(pk) => home[pk] \in DOMAIN catalog'.tables
    <3>1. \A pk \in DOMAIN home : home[pk] \in Tables
      BY HomeFacts
    <3>2. QED
      BY <3>1, <2>1 DEF CalmSchema, CalmRow
  <2>4. \A t \in Tables : t[1] \in calm' =>
          /\ t \in DOMAIN catalog'.tables => Id \in catalog'.tables[t] /\ t[1] \in catalog'.dbs
          /\ t \in DOMAIN cache'.tables =>
               t \in DOMAIN catalog'.tables /\ Id \in cache'.tables[t]
               /\ (~Altering(t)' => cache'.tables[t] = catalog'.tables[t])
          /\ t \in DOMAIN catalog'.tables /\ ddl'.op # "create" => t \in DOMAIN cache'.tables
    BY <2>1, <2>2 DEF CalmSchema
  <2>5. calm' \cap cache'.dbs \subseteq catalog'.dbs
    BY <2>1 DEF CalmSchema
  <2>6. QED
    BY <2>3, <2>4, <2>5 DEF CalmSchema, CalmRow
<1>3. CalmDdl'
  BY CalmParts DEF CalmDdl
<1>4. QED
  BY <1>1, <1>2, <1>3 DEF CalmInv

\* RenameSchemaKeys changes no calm schema.
LEMMA RenameSchemaKeysOthers ==
  ASSUME StoresInv, CalmInv, RenameSchemaKeys
  PROVE  /\ \A t \in Tables : t[1] \in calm =>
              /\ t \in DOMAIN catalog'.tables <=> t \in DOMAIN catalog.tables
              /\ t \in DOMAIN catalog.tables => catalog'.tables[t] = catalog.tables[t]
         /\ \A db \in calm : db \in catalog'.dbs <=> db \in catalog.dbs
<1> DEFINE moved == {t \in DOMAIN catalog.tables : Under(t, ddl.from)}
           rest == Restrict(catalog.tables, DOMAIN catalog.tables \ moved)
           new == {Renamed(t) : t \in moved}
           old(u) == CHOOSE t \in moved : Renamed(t) = u
           tables == [t \in DOMAIN rest \cup new |->
                        IF t \in new THEN catalog.tables[old(t)] ELSE rest[t]]
<1>1. catalog' = [dbs |-> IF Len(ddl.from) = 1
                            THEN (catalog.dbs \cup {ddl.to[1]}) \ {ddl.from[1]}
                            ELSE catalog.dbs,
                  tables |-> tables]
  BY DEF RenameSchemaKeys
<1>2. /\ ddl.op = "rename" /\ ddl.from \in Folders /\ ddl.to \in Folders
      /\ DOMAIN catalog.tables \subseteq Tables
  BY InvParts, PcOps DEF OpFits, RenameSchemaKeys, Scanned
<1>3. ddl.from[1] \notin calm /\ ddl.to[1] \notin calm
  BY <1>2, CalmParts DEF CalmDdl
<1>4. \A t \in moved : t[1] = ddl.from[1] /\ Renamed(t)[1] = ddl.to[1]
  BY <1>2, UnderTable, RenamedTable
<1>5. DOMAIN rest = DOMAIN catalog.tables \ moved /\ \A t \in DOMAIN rest : rest[t] = catalog.tables[t]
  BY DEF Restrict
<1>6. \A t \in Tables : t[1] \in calm => t \notin moved /\ t \notin new
  BY <1>3, <1>4
<1> HIDE DEF rest, new, old, moved
<1>7. \A t \in Tables : t[1] \in calm =>
        /\ t \in DOMAIN tables <=> t \in DOMAIN catalog.tables
        /\ t \in DOMAIN catalog.tables => tables[t] = catalog.tables[t]
  BY <1>5, <1>6
<1> HIDE DEF tables
<1>8. QED
  BY <1>1, <1>3, <1>7

\* A request's step that changes its place only.
LEMMA PlaceFacts ==
  ASSUME StoresInv, NEW pc, NEW path,
         ddl' = [ddl EXCEPT !.pc = pc, !.path = path] \/ ddl' = [ddl EXCEPT !.pc = pc]
  PROVE  /\ ddl'.op = ddl.op /\ ddl'.from = ddl.from /\ ddl'.to = ddl.to
         /\ ddl'.keys = ddl.keys /\ ddl'.rows = ddl.rows /\ ddl'.pc = pc
BY InvParts DEF DdlTypeOK

\* RenameSchemaKeys keeps CalmInv.
LEMMA RenameSchemaKeysCalm ==
  ASSUME StoresInv, CalmInv, RenameSchemaKeys
  PROVE  CalmInv'
<1> DEFINE pc == "folder"
<1>1. /\ ddl.pc = "indexKeys" /\ ddl.keys = {} /\ ddl' = [ddl EXCEPT !.pc = pc]
      /\ UNCHANGED <<cache, storage, ram, home, calm, expected>>
  BY DEF RenameSchemaKeys, Scanned, Step, buffers
<1> HIDE DEF pc
<1>2. ddl.rows = Empty
  BY <1>1, InvParts DEF RowsFit
<1>3. /\ ddl'.op = ddl.op /\ ddl'.from = ddl.from /\ ddl'.to = ddl.to
      /\ ddl'.keys = {} /\ ddl'.rows = Empty
  BY <1>1, <1>2, PlaceFacts
<1>4. QED
  BY <1>1, <1>3, HeldNone, RenameSchemaKeysOthers, OtherSchemaCalm

\* DropSchemaKey changes no calm schema.
LEMMA DropSchemaKeyOthers ==
  ASSUME StoresInv, CalmInv, DropSchemaKey
  PROVE  /\ \A t \in Tables : t[1] \in calm =>
              /\ t \in DOMAIN catalog'.tables <=> t \in DOMAIN catalog.tables
              /\ t \in DOMAIN catalog.tables => catalog'.tables[t] = catalog.tables[t]
         /\ \A db \in calm : db \in catalog'.dbs <=> db \in catalog.dbs
<1> DEFINE tables == {t \in DOMAIN catalog.tables : Under(t, ddl.from)}
<1>1. ddl.op = "delete" /\ ddl.from \in Folders /\ DOMAIN catalog.tables \subseteq Tables
  BY InvParts, PcOps DEF OpFits, DropSchemaKey
<1>2. catalog \in [dbs : SUBSET Dbs, tables : {catalog.tables}]
  BY InvParts DEF SchemaOK
<1>3. ddl.from[1] \notin calm
  BY <1>1, CalmParts DEF CalmDdl
<1>4. \A t \in tables : t[1] = ddl.from[1]
  BY <1>1, UnderTable
<1>5. CASE catalog' = [catalog EXCEPT !.dbs = @ \ (IF Len(ddl.from) = 1 THEN {ddl.from[1]} ELSE {})]
  BY <1>2, <1>3, <1>5
<1>6. ASSUME NEW t \in tables, catalog' = [catalog EXCEPT !.tables = Drop(@, t)]
      PROVE  /\ \A u \in Tables : u[1] \in calm =>
                  /\ u \in DOMAIN catalog'.tables <=> u \in DOMAIN catalog.tables
                  /\ u \in DOMAIN catalog.tables => catalog'.tables[u] = catalog.tables[u]
             /\ \A db \in calm : db \in catalog'.dbs <=> db \in catalog.dbs
  <2>1. catalog'.tables = Drop(catalog.tables, t) /\ catalog'.dbs = catalog.dbs
    BY <1>2, <1>6
  <2>2. /\ DOMAIN catalog'.tables = DOMAIN catalog.tables \ {t}
        /\ \A u \in DOMAIN catalog'.tables : catalog'.tables[u] = catalog.tables[u]
    BY <2>1 DEF Drop, Restrict
  <2>3. t[1] \notin calm
    BY <1>3, <1>4
  <2>4. QED
    BY <2>1, <2>2, <2>3
<1>7. QED
  BY <1>5, <1>6 DEF DropSchemaKey

\* DropSchemaKey keeps CalmInv.
LEMMA DropSchemaKeyCalm ==
  ASSUME StoresInv, CalmInv, DropSchemaKey
  PROVE  CalmInv'
<1> DEFINE pc == "dropFolder"
<1>1. /\ ddl.pc = "dropKeys"
      /\ \E path : ddl' = [ddl EXCEPT !.pc = pc, !.path = path]
      /\ UNCHANGED <<cache, storage, ram, home, calm, expected>>
  BY DEF DropSchemaKey, Step, buffers
<1> HIDE DEF pc
<1>2. ddl.keys = {} /\ ddl.rows = Empty
  BY <1>1, InvParts DEF KeysFit, MovesKeys, RowsFit
<1>3. /\ ddl'.op = ddl.op /\ ddl'.from = ddl.from /\ ddl'.to = ddl.to
      /\ ddl'.keys = {} /\ ddl'.rows = Empty
  BY <1>1, <1>2, PlaceFacts
<1>4. QED
  BY <1>1, <1>3, HeldNone, DropSchemaKeyOthers, OtherSchemaCalm

\* A step of a request that changes the stores of other databases only.
LEMMA OtherStoresCalm ==
  ASSUME StoresInv, CalmInv,
         UNCHANGED <<catalog, cache, ram, home, calm>>, expected' \subseteq expected,
         \/ ddl' = NoDdl /\ ddl.op \notin {"alter", "create"}
         \/ ddl'.op = ddl.op /\ ddl'.from = ddl.from /\ ddl'.to = ddl.to,
         CalmHeld',
         \A p \in Paths : p[1] \in calm =>
           /\ handle'[p] = handle[p] /\ store'[p] = store[p]
           /\ p \in present' => p \in present,
         \A p \in Paths : p[3] = "data" /\ p[1] \notin calm =>
           \A k \in DOMAIN store'[p] : ~CalmRow(k[3])
  PROVE  CalmInv'
<1>1. NoDdl.op = "none"
  BY DEF NoDdl
<1>2. CalmSchema'
  BY <1>1, CalmSchemaKept
<1>3. CalmDdl'
  BY <1>1, CalmParts DEF CalmDdl
<1>4. ASSUME NEW p \in Paths PROVE CalmStore(p)'
  BY CalmParts DEF CalmStore, CalmRow, HomeKey, HomePath
<1>5. CalmRam'
  BY CalmParts DEF CalmRam, CalmRow, HomeKey
<1>6. CalmExpected'
  <2>1. \A pk \in expected : CalmRow(pk) => HomePath(pk) \in Paths /\ HomePath(pk)[1] \in calm
    BY RowKeys, HomeFacts DEF CalmRow
  <2>2. QED
    BY <2>1, CalmParts DEF CalmExpected, CalmRow, HomeKey, HomePath
<1>7. QED
  BY <1>2, <1>3, <1>4, <1>5, <1>6 DEF CalmInv

\* RenameFolder closes and moves no calm store.
LEMMA RenameFolderOthers ==
  ASSUME StoresInv, CalmInv, RenameFolder
  PROVE  /\ \A p \in Paths : p[1] \in calm =>
              /\ handle'[p] = handle[p] /\ store'[p] = store[p]
              /\ p \in present' => p \in present
         /\ \A p \in Paths : p[3] = "data" /\ p[1] \notin calm =>
              \A k \in DOMAIN store'[p] : ~CalmRow(k[3])
<1> DEFINE from == ddl.from
           to == ddl.to
           db == <<ddl.from[1]>>
           kept == Kept(<<ddl.from[1]>>)
<1>1. /\ ddl.pc = "folder" /\ handle' = Closed(<<ddl.from[1]>>)
  BY DEF RenameFolder
<1>2. /\ StoresTypeOK /\ StoresOnDisk
      /\ ddl.op = "rename" /\ from \in Folders /\ to \in Folders
      /\ Len(from) = Len(to) /\ from # to
  BY <1>1, InvParts, PcOps DEF OpFits
<1>3. from[1] \notin calm /\ to[1] \notin calm
  BY <1>2, CalmParts DEF CalmDdl
<1>4. \A p \in Paths : kept[p] = IF Under(p, db) /\ p \notin present THEN Empty ELSE store[p]
  BY <1>2, KeptFacts
<1>5. /\ \A p \in Paths : p[1] \in calm => ~Under(p, db) /\ ~Under(p, from) /\ ~Under(p, to)
      /\ \A p \in Paths : p[1] \notin calm \/ handle'[p] = handle[p]
  <2>1. db \in Folders /\ db[1] = from[1]
    BY <1>2, FolderForms
  <2> HIDE DEF db
  <2>2. \A p \in Paths : Under(p, db) \/ Under(p, from) => p[1] = from[1]
    BY <2>1, <1>2, UnderParts
  <2>3. \A p \in Paths : Under(p, to) => p[1] = to[1]
    BY <1>2, UnderParts
  <2>4. \A p \in Paths : ~Under(p, db) => handle'[p] = handle[p]
    BY <1>1, <1>2, ClosedFacts DEF db
  <2>5. QED
    BY <2>2, <2>3, <2>4, <1>3
<1> HIDE DEF kept, db
<1>6. DOMAIN Empty = {}
  BY EmptyMap
<1>7. \A p \in Paths : p[3] = "data" /\ p[1] \notin calm => \A k \in DOMAIN kept[p] : ~CalmRow(k[3])
  BY <1>4, <1>6, OthersHoldNone
<1>8. \A p \in Paths : p[1] \in calm => kept[p] = store[p]
  BY <1>4, <1>5
<1>9. CASE store' = kept /\ UNCHANGED present
  BY <1>5, <1>7, <1>8, <1>9
<1>10. CASE /\ store' = [p \in Paths |-> IF Under(p, to)
                                          THEN kept[from \o SubSeq(p, Len(from) + 1, 3)]
                                        ELSE IF Under(p, from) THEN Empty ELSE kept[p]]
           /\ present' = {p \in present : ~Under(p, from)}
                         \cup {Renamed(p) : p \in {p \in present : Under(p, from)}}
  <2> DEFINE src(p) == from \o SubSeq(p, Len(from) + 1, 3)
  <2>1. \A p \in Paths : p[1] \in calm => store'[p] = store[p]
    BY <1>5, <1>8, <1>10
  <2>2. \A p \in Paths : p[1] \in calm /\ p \in present' => p \in present
    <3>1. present \subseteq Paths
      BY StorageFacts
    <3>2. \A p \in present : Under(p, from) => Renamed(p)[1] \notin calm
      BY <3>1, <1>2, <1>3, MovedPaths
    <3>3. QED
      BY <3>2, <1>10
  <2>3. ASSUME NEW p \in Paths, p[3] = "data", p[1] \notin calm, NEW k \in DOMAIN store'[p]
        PROVE  ~CalmRow(k[3])
    <3>1. CASE Under(p, to)
      <4>1. src(p) \in Paths /\ src(p)[3] = p[3] /\ Under(src(p), from)
        BY <3>1, <1>2, MovedPaths
      <4>2. store'[p] = kept[src(p)]
        BY <3>1, <1>10
      <4> HIDE DEF src, from
      <4>3. src(p)[1] = from[1]
        BY <4>1, <1>2, UnderParts
      <4>4. QED
        BY <4>1, <4>2, <4>3, <2>3, <1>3, <1>7
    <3>2. CASE ~Under(p, to) /\ Under(p, from)
      BY <3>2, <2>3, <1>6, <1>10
    <3>3. CASE ~Under(p, to) /\ ~Under(p, from)
      <4>1. store'[p] = kept[p]
        BY <3>3, <1>10
      <4>2. QED
        BY <4>1, <2>3, <1>7
    <3>4. QED
      BY <3>1, <3>2, <3>3
  <2>4. QED
    BY <2>1, <2>2, <2>3, <1>5
<1>11. QED
  BY <1>9, <1>10 DEF RenameFolder, kept

\* RenameFolder keeps CalmInv.
LEMMA RenameFolderCalm ==
  ASSUME StoresInv, CalmInv, RenameFolder
  PROVE  CalmInv'
<1> DEFINE pc == "reload"
<1>1. /\ ddl.pc = "folder"
      /\ ddl' = NoDdl \/ ddl' = [ddl EXCEPT !.pc = pc]
      /\ UNCHANGED <<catalog, cache, ram, home, calm, expected>>
  BY DEF RenameFolder, Step, buffers
<1> HIDE DEF pc
<1>2. ddl.op = "rename" /\ ddl.keys = {} /\ ddl.rows = Empty
  BY <1>1, InvParts, PcOps DEF KeysFit, MovesKeys, RowsFit
<1>3. \/ ddl' = NoDdl
      \/ /\ ddl'.op = ddl.op /\ ddl'.from = ddl.from /\ ddl'.to = ddl.to
         /\ ddl'.keys = {} /\ ddl'.rows = Empty
  BY <1>1, <1>2, PlaceFacts
<1>4. CalmHeld'
  BY <1>3, HeldNone DEF NoDdl
<1>5. QED
  BY <1>1, <1>2, <1>3, <1>4, RenameFolderOthers, OtherStoresCalm

\* RemoveFolder closes and empties no calm store.
LEMMA RemoveFolderOthers ==
  ASSUME StoresInv, CalmInv, RemoveFolder
  PROVE  /\ \A p \in Paths : p[1] \in calm =>
              /\ handle'[p] = handle[p] /\ store'[p] = store[p]
              /\ p \in present' => p \in present
         /\ \A p \in Paths : p[3] = "data" /\ p[1] \notin calm =>
              \A k \in DOMAIN store'[p] : ~CalmRow(k[3])
<1>1. PICK f : f = ddl.path
  OBVIOUS
<1> DEFINE gone == {p \in Paths : Under(p, f)}
<1>2. /\ ddl.pc = "dropFolder" /\ handle' = Closed(f)
      /\ store' = [p \in Paths |-> IF p \in gone THEN Empty ELSE store[p]]
      /\ present' = present \ gone
  BY <1>1 DEF RemoveFolder
<1>3. /\ ddl.op = "delete" /\ f \in Folders /\ Under(f, ddl.from) /\ ddl.from \in Folders
  BY <1>1, <1>2, InvParts, PcOps DEF OpFits
<1>4. f[1] \notin calm
  <2>1. ddl.from[1] \notin calm
    BY <1>3, CalmParts DEF CalmDdl
  <2>2. f[1] = ddl.from[1]
    <3>1. CASE Len(f) = 1
      <4>1. f = <<f[1]>> /\ f[1] \in Dbs
        BY <3>1, <1>3, FolderForms
      <4>2. QED
        BY <4>1, <1>3, UnderDb
    <3>2. CASE Len(f) = 2
      <4>1. f \in Tables
        BY <3>2, <1>3, FolderForms
      <4>2. QED
        BY <4>1, <1>3, UnderTable
    <3>3. QED
      BY <3>1, <3>2, <1>3, FolderForms
  <2>3. QED
    BY <2>1, <2>2
<1>5. \A p \in Paths : p[1] \in calm => p \notin gone /\ ~Under(p, f)
  BY <1>3, <1>4, UnderParts
<1>6. \A p \in Paths : p[1] \in calm => handle'[p] = handle[p]
  BY <1>2, <1>5, ClosedFacts, InvParts
<1>7. \A p \in Paths : p[3] = "data" /\ p[1] \notin calm => \A k \in DOMAIN store'[p] : ~CalmRow(k[3])
  BY <1>2, EmptyMap, OthersHoldNone
<1> HIDE DEF gone
<1>8. QED
  BY <1>2, <1>5, <1>6, <1>7

\* RemoveFolder keeps CalmInv.
LEMMA RemoveFolderCalm ==
  ASSUME StoresInv, CalmInv, RemoveFolder
  PROVE  CalmInv'
<1> DEFINE pc == IF ddl.path = ddl.from THEN "reload" ELSE "dropKeys"
<1>1. /\ ddl.pc = "dropFolder" /\ ddl' = [ddl EXCEPT !.pc = pc]
      /\ expected' \subseteq expected
      /\ UNCHANGED <<catalog, cache, ram, home, calm>>
  BY DEF RemoveFolder, Step, buffers
<1> HIDE DEF pc
<1>2. ddl.keys = {} /\ ddl.rows = Empty
  BY <1>1, InvParts DEF KeysFit, MovesKeys, RowsFit
<1>3. /\ ddl'.op = ddl.op /\ ddl'.from = ddl.from /\ ddl'.to = ddl.to
      /\ ddl'.keys = {} /\ ddl'.rows = Empty
  BY <1>1, <1>2, PlaceFacts
<1>4. QED
  BY <1>1, <1>3, HeldNone, RemoveFolderOthers, OtherStoresCalm

\* The rows of a calm database a scan finds are its own table's, under their own keys.
LEMMA ScannedCalm ==
  ASSUME StoresInv, CalmInv, NEW p \in Paths, p[3] = "data",
         NEW pk \in DOMAIN GetRows(p), CalmRow(pk)
  PROVE  /\ pk \in DOMAIN home /\ home[pk] = <<p[1], p[2]>> /\ p = HomePath(pk)
         /\ HomeKey(pk) = <<p[1], p[2], pk>> /\ HomeKey(pk) \in DOMAIN store[p]
         /\ GetRows(p)[pk] = RowOf(HomeKey(pk))
<1> DEFINE key(x) == <<p[1], p[2], x>>
<1>1. GetRows(p) = [x \in {k[3] : k \in KeysIn(p)} |-> RowOf(key(x))]
  BY DEF GetRows
<1>2. PICK k \in DOMAIN store[p] : k[3] = pk
  BY <1>1 DEF KeysIn
<1>3. pk \in DOMAIN home
  BY <1>2, RowKeys
<1>4. k = HomeKey(pk) /\ p = HomePath(pk)
  BY <1>2, CalmParts DEF CalmStore
<1>5. p[1] = home[pk][1] /\ p[2] = home[pk][2] /\ home[pk] = <<home[pk][1], home[pk][2]>>
      /\ HomeKey(pk) = <<home[pk][1], home[pk][2], pk>>
  BY <1>3, <1>4, HomeFacts
<1>6. home[pk] = <<p[1], p[2]>> /\ HomeKey(pk) = key(pk)
  BY <1>5
<1> HIDE DEF key
<1>7. GetRows(p)[pk] = RowOf(key(pk))
  BY <1>1
<1>8. QED
  BY <1>2, <1>3, <1>4, <1>6, <1>7 DEF key

\* ScanRows holds rows of its own table.
LEMMA ScanRowsCalm ==
  ASSUME StoresInv, CalmInv, ScanRows
  PROVE  CalmInv'
<1>1. PICK p \in ddl.paths :
        ddl' = [ddl EXCEPT !.paths = ddl.paths \ {p}, !.path = p, !.rows = GetRows(p)]
  BY DEF ScanRows, Step
<1>2. /\ ddl.pc = "rows"
      /\ UNCHANGED <<catalog, cache, storage, ram, home, calm, expected>>
  BY DEF ScanRows, Step, buffers
<1>3. /\ ddl.op = "alter" /\ DdlTypeOK /\ RowsFit
  BY <1>2, InvParts, PcOps
<1>4. p = Append(ddl.from, "data")
  BY <1>2, <1>3 DEF RowsFit
<1>5. p \in Paths /\ p[3] = "data" /\ p[1] = ddl.from[1] /\ p[2] = ddl.from[2]
      /\ ddl.from = <<ddl.from[1], ddl.from[2]>>
  <2>1. ddl.from \in Tables /\ p \in Paths /\ p = <<ddl.from[1], ddl.from[2], "data">>
    BY <1>3, <1>4, AlterFacts
  <2>2. QED
    BY <2>1, TablePaths
<1>6. /\ ddl'.op = ddl.op /\ ddl'.from = ddl.from /\ ddl'.to = ddl.to /\ ddl'.pc = ddl.pc
      /\ ddl'.rows = GetRows(p) /\ ddl'.keys = ddl.keys
  <2> DEFINE rows == GetRows(p)
  <2>1. ddl' = [ddl EXCEPT !.paths = ddl.paths \ {p}, !.path = p, !.rows = rows]
    BY <1>1
  <2> HIDE DEF rows
  <2>2. /\ ddl'.op = ddl.op /\ ddl'.from = ddl.from /\ ddl'.to = ddl.to /\ ddl'.pc = ddl.pc
        /\ ddl'.rows = rows /\ ddl'.keys = ddl.keys
    BY <2>1, <1>3 DEF DdlTypeOK
  <2>3. QED
    BY <2>2 DEF rows
<1>7. \A pk \in DOMAIN ddl'.rows : CalmRow(pk) => home[pk] = ddl.from
  BY <1>5, <1>6, ScannedCalm
<1>8. CalmHeld'
  BY <1>2, <1>6, <1>7 DEF CalmHeld, CalmRow
<1>9. QED
  BY <1>2, <1>6, <1>8, QuietCalm

\* An alteration under way keeps a calm table's Id.
LEMMA AlterKeepsId ==
  ASSUME StoresInv, CalmInv, AlterRow, NEW pk \in DOMAIN ddl.rows, CalmRow(pk)
  PROVE  /\ ddl.path = HomePath(pk) /\ <<ddl.path[1], ddl.path[2], pk>> = HomeKey(pk)
         /\ pk \in DOMAIN home /\ home[pk] = ddl.from
<1>1. ddl.pc = "rows" /\ pk \in DOMAIN home /\ home[pk] = ddl.from
  BY CalmParts, RowKeys DEF AlterRow, CalmHeld
<1>2. ddl.op = "alter" /\ ddl.rows # Empty
  BY <1>1, InvParts, PcOps, EmptyMap
<1>3. ddl.path = Append(ddl.from, "data")
  BY <1>1, <1>2, InvParts DEF RowsFit
<1>4. ddl.path = HomePath(pk)
  BY <1>1, <1>3 DEF HomePath
<1>5. ddl.path[1] = home[pk][1] /\ ddl.path[2] = home[pk][2]
  BY <1>1, <1>4, HomeFacts
<1>6. QED
  BY <1>1, <1>4, <1>5, HomeFacts

\* AlterRow writes a calm row under its own key, with its Id.
LEMMA AlterRowCalm ==
  ASSUME StoresInv, CalmInv, AlterRow
  PROVE  CalmInv'
<1>1. PICK pk \in DOMAIN ddl.rows :
        /\ Untouched(ddl.rows[pk]) \/ Id \in AlteredRow(ddl.rows[pk])
        /\ store' = IF Untouched(ddl.rows[pk]) THEN store
                    ELSE [store EXCEPT ![ddl.path] =
                            Put(store[ddl.path], <<ddl.path[1], ddl.path[2], pk>>,
                                Value(AlteredRow(ddl.rows[pk])))]
        /\ ddl' = [ddl EXCEPT !.rows = Drop(ddl.rows, pk)]
  BY DEF AlterRow, Step
<1>2. /\ ddl.pc = "rows"
      /\ UNCHANGED <<catalog, cache, dirs, present, handle, ram, home, calm, expected>>
  BY DEF AlterRow, Step, buffers
<1>3. ddl.op = "alter" /\ ddl.rows # Empty
  BY <1>2, InvParts, PcOps, EmptyMap
<1>4. PICK p : p = ddl.path
  OBVIOUS
<1>5. p \in Paths /\ p[3] = "data"
  <2>1. p = Append(ddl.from, "data")
    BY <1>3, <1>4, InvParts DEF RowsFit
  <2>2. p \in Paths /\ p = <<ddl.from[1], ddl.from[2], "data">>
    BY <2>1, <1>3, AlterFacts
  <2>3. QED
    BY <2>2
<1> DEFINE rows == Drop(ddl.rows, pk)
           key == <<p[1], p[2], pk>>
           val == Value(AlteredRow(ddl.rows[pk]))
           held == Put(store[p], key, val)
<1>6. CalmRow(pk) => p = HomePath(pk) /\ key = HomeKey(pk)
  BY <1>4, AlterKeepsId
<1>7. key[3] = pk /\ val.enc = 0 /\ val.set = AlteredRow(ddl.rows[pk])
  BY DEF Value
<1>8. /\ store' = store \/ (store' = [store EXCEPT ![p] = held] /\ Id \in val.set)
      /\ ddl' = [ddl EXCEPT !.rows = rows]
  BY <1>1, <1>4, <1>7
<1>9. /\ DOMAIN rows \subseteq DOMAIN ddl.rows
  BY DEF Drop, Restrict
<1> HIDE DEF rows, key, val
<1>10. /\ ddl'.op = ddl.op /\ ddl'.from = ddl.from /\ ddl'.to = ddl.to /\ ddl'.pc = ddl.pc
       /\ ddl'.rows = rows /\ ddl'.keys = ddl.keys
  BY <1>8, InvParts DEF DdlTypeOK
<1>11. CalmHeld'
  BY <1>2, <1>9, <1>10, CalmParts DEF CalmHeld, CalmRow
<1>12. CASE store' = store
  <2>1. UNCHANGED storage
    BY <1>2, <1>12 DEF storage
  <2>2. QED
    BY <2>1, <1>2, <1>10, <1>11, QuietCalm
<1>13. CASE store' = [store EXCEPT ![p] = held] /\ Id \in val.set
  <2>1. /\ DOMAIN held = DOMAIN store[p] \cup {key} /\ held[key] = val
        /\ \A k \in DOMAIN store[p] : k # key => held[k] = store[p][k]
    BY DEF Put
  <2> HIDE DEF held
  <2>2. \A k \in DOMAIN store[p] : CalmRow(k[3]) =>
          /\ k = HomeKey(k[3]) /\ p = HomePath(k[3])
          /\ store[p][k].enc = 0 /\ Id \in store[p][k].set
    BY <1>5, CalmParts DEF CalmStore
  <2>3. \A k \in DOMAIN held : CalmRow(k[3]) =>
          /\ k = HomeKey(k[3]) /\ p = HomePath(k[3])
          /\ held[k].enc = 0 /\ Id \in held[k].set
    BY <2>1, <2>2, <1>6, <1>7, <1>13
  <2>4. QED
    BY <2>1, <2>3, <1>2, <1>5, <1>10, <1>11, <1>13, WriteCalm
<1>14. QED
  BY <1>8, <1>12, <1>13

\* AlterIndex, RebuildIndex and RefereshDone leave rows and stores alone.
LEMMA IndexStepsCalm ==
  ASSUME StoresInv, CalmInv, AlterIndex \/ RebuildIndex \/ RefereshDone
  PROVE  CalmInv'
<1>1. CASE AlterIndex
  <2> DEFINE paths == {Append(ddl.from, "index")}
  <2>1. /\ ddl.pc = "rows" /\ ddl.rows = Empty
        /\ ddl' = [ddl EXCEPT !.pc = "unindex", !.paths = paths]
        /\ UNCHANGED <<catalog, cache, storage, ram, home, calm, expected>>
    BY <1>1 DEF AlterIndex, Step, buffers
  <2> HIDE DEF paths
  <2>2. /\ ddl'.op = ddl.op /\ ddl'.from = ddl.from /\ ddl'.to = ddl.to
        /\ ddl'.pc # "rowKeys" /\ ddl'.rows = Empty
    BY <2>1, InvParts DEF DdlTypeOK
  <2>3. QED
    BY <2>1, <2>2, HeldNone, QuietCalm
<1>2. CASE RebuildIndex
  <2> DEFINE place == IF ddl.op = "alter" THEN "reload" ELSE "unindex"
             table == <<ddl.path[1], ddl.path[2]>>
  <2>1. /\ ddl.pc = "reindex"
        /\ UNCHANGED <<catalog, cache, storage, ram, home, expected, calm>>
        /\ \/ table \notin DOMAIN catalog.tables /\ ddl' = NoDdl
           \/ ddl' = [ddl EXCEPT !.pc = place]
    BY <1>2 DEF RebuildIndex, history
  <2>2. ddl.op \in {"alter", "refresh"} /\ ddl.rows = Empty
    BY <2>1, InvParts, PcOps DEF RowsFit
  <2>3. ddl.op = "alter" => table \in DOMAIN catalog.tables
    <3>1. SUFFICES ASSUME ddl.op = "alter" PROVE table \in DOMAIN catalog.tables
      OBVIOUS
    <3>2. /\ ddl.path = <<ddl.from[1], ddl.from[2], "index">>
          /\ ddl.from \in DOMAIN catalog.tables /\ ddl.from \in Tables
      BY <2>1, <3>1, InvParts, AlterFacts DEF RowsFit
    <3>3. ddl.from = <<ddl.from[1], ddl.from[2]>>
      BY <3>2, TablePaths
    <3>4. QED
      BY <3>2, <3>3
  <2> HIDE DEF table
  <2>4. \/ ddl' = NoDdl /\ ddl.op = "refresh"
        \/ /\ ddl'.op = ddl.op /\ ddl'.from = ddl.from /\ ddl'.to = ddl.to
           /\ ddl'.pc # "rowKeys" /\ ddl'.rows = Empty
    BY <2>1, <2>2, <2>3, InvParts DEF DdlTypeOK
  <2>5. CalmHeld'
    BY <2>4, HeldNone DEF NoDdl
  <2>6. QED
    BY <2>1, <2>4, <2>5, QuietCalm
<1>3. CASE RefereshDone
  <2>1. /\ ddl.pc = "unindex" /\ ddl.paths = {} /\ ddl' = NoDdl
        /\ UNCHANGED <<catalog, cache, storage, ram, home, calm, expected>>
    BY <1>3 DEF RefereshDone, Step, buffers
  <2>2. ddl.op = "refresh"
    BY <2>1, InvParts, PcOps DEF RowsFit
  <2>3. CalmHeld'
    BY <2>1, HeldNone DEF NoDdl
  <2>4. QED
    BY <2>1, <2>2, <2>3, QuietCalm
<1>4. QED
  BY <1>1, <1>2, <1>3

\* RemoveIndexDir empties index stores only.
LEMMA RemoveIndexDirCalm ==
  ASSUME StoresInv, CalmInv, RemoveIndexDir
  PROVE  CalmInv'
<1>1. PICK p \in ddl.paths :
        /\ present' = present \ {p}
        /\ store' = IF handle[p] = "open" THEN store ELSE [store EXCEPT ![p] = Empty]
        /\ ddl' = [ddl EXCEPT !.pc = "reindex", !.path = p, !.paths = ddl.paths \ {p}]
  BY DEF RemoveIndexDir, Step
<1>2. /\ ddl.pc = "unindex"
      /\ UNCHANGED <<catalog, cache, dirs, handle, ram, home, calm, expected>>
  BY DEF RemoveIndexDir, Step, buffers
<1>3. p \in Paths /\ p[3] = "index" /\ ddl.rows = Empty
  BY <1>2, InvParts DEF RowsFit, DdlTypeOK
<1>4. \A q \in Paths : store'[q] = store[q] \/ (q[3] = "index" /\ store'[q] = Empty)
  BY <1>1, <1>3, StorageFacts
<1>5. /\ ddl'.op = ddl.op /\ ddl'.from = ddl.from /\ ddl'.to = ddl.to
      /\ ddl'.pc # "rowKeys" /\ ddl'.rows = Empty
  BY <1>1, <1>3, InvParts DEF DdlTypeOK
<1>6. CalmHeld'
  BY <1>5, HeldNone
<1>7. CalmSchema'
  BY <1>2, <1>5, CalmSchemaKept
<1>8. CalmDdl'
  BY <1>2, <1>5, CalmParts DEF CalmDdl
<1>9. ASSUME NEW q \in Paths PROVE CalmStore(q)'
  <2>1. CalmStore(q) /\ (q \in present' => q \in present)
    BY <1>1, CalmParts
  <2>2. CASE store'[q] = store[q]
    BY <2>1, <2>2, <1>2 DEF CalmStore, CalmRow, HomeKey, HomePath
  <2>3. CASE q[3] = "index" /\ store'[q] = Empty
    BY <2>1, <2>3, <1>2, EmptyMap DEF CalmStore
  <2>4. QED
    BY <2>2, <2>3, <1>4
<1>10. CalmRam'
  BY <1>2, CalmParts DEF CalmRam, CalmRow, HomeKey
<1>11. CalmExpected'
  <2>1. \A pk \in expected : HomePath(pk) \in Paths /\ HomePath(pk)[3] = "data"
    BY RowKeys, HomeFacts
  <2>2. \A pk \in expected : store'[HomePath(pk)] = store[HomePath(pk)]
    BY <2>1, <1>4
  <2>3. QED
    BY <2>2, <1>2, CalmParts DEF CalmExpected, CalmRow, HomeKey, HomePath
<1>12. QED
  BY <1>6, <1>7, <1>8, <1>9, <1>10, <1>11 DEF CalmInv

\* The schema loaded from the catalog agrees with it.
LEMMA ListedCalm ==
  ASSUME StoresInv, CalmInv, cache' = Listed, ddl' = NoDdl, UNCHANGED <<catalog, home, calm>>
  PROVE  CalmSchema' /\ CalmDdl' /\ CalmHeld'
<1> DEFINE tables == Restrict(catalog.tables,
                              {t \in DOMAIN catalog.tables : t[1] \in catalog.dbs})
<1>1. /\ catalog \in [dbs : SUBSET Dbs, tables : {catalog.tables}]
      /\ DOMAIN catalog.tables \subseteq Tables
  BY InvParts DEF SchemaOK
<1>2. /\ DOMAIN tables = {t \in DOMAIN catalog.tables : t[1] \in catalog.dbs}
      /\ \A t \in DOMAIN tables : tables[t] = catalog.tables[t]
  BY DEF Restrict
<1>3. cache' = [catalog EXCEPT !.tables = tables]
  BY DEF Listed
<1> HIDE DEF tables
<1>4. cache'.tables = tables /\ cache'.dbs = catalog.dbs
  BY <1>1, <1>3
<1>5. CalmSchema
  BY CalmParts
<1>6. CalmSchema'
  <2>1. \A t \in Tables : t[1] \in calm =>
          /\ t \in DOMAIN catalog.tables => Id \in catalog.tables[t] /\ t[1] \in catalog.dbs
          /\ t \in DOMAIN tables =>
               t \in DOMAIN catalog.tables /\ Id \in tables[t] /\ tables[t] = catalog.tables[t]
          /\ t \in DOMAIN catalog.tables => t \in DOMAIN tables
    BY <1>2, <1>5 DEF CalmSchema
  <2>2. \A pk \in DOMAIN home : CalmRow(pk) => home[pk] \in DOMAIN catalog.tables
    BY <1>5 DEF CalmSchema
  <2>3. QED
    BY <2>1, <2>2, <1>4 DEF CalmSchema, CalmRow
<1>7. CalmDdl'
  BY DEF CalmDdl, NoDdl
<1>8. CalmHeld'
  BY HeldNone DEF NoDdl
<1>9. QED
  BY <1>6, <1>7, <1>8

\* SetFullSchema keeps CalmInv.
LEMMA SetFullSchemaCalm ==
  ASSUME StoresInv, CalmInv, SetFullSchema
  PROVE  CalmInv'
<1>1. /\ cache' = Listed /\ ddl' = NoDdl
      /\ UNCHANGED <<catalog, storage, ram, home, expected, calm>>
  BY DEF SetFullSchema, buffers, history
<1>2. (\A p \in Paths : CalmStore(p)') /\ CalmRam' /\ CalmExpected'
  BY <1>1, CalmStoresKept
<1>3. CalmSchema' /\ CalmDdl' /\ CalmHeld'
  BY <1>1, ListedCalm
<1>4. QED
  BY <1>2, <1>3 DEF CalmInv

\* A restart opens the directories there are; the calm rows on disk are in them.
LEMMA RestartCalm ==
  ASSUME StoresInv, CalmInv, Restarted
  PROVE  CalmInv'
<1>1. /\ cache' = Listed /\ ddl' = NoDdl /\ ram' = Empty
      /\ handle' = [p \in Paths |-> IF p \in present THEN "open" ELSE "none"]
      /\ store' = [p \in Paths |-> IF p \in present THEN store[p] ELSE Empty]
      /\ expected' = expected \cap RowsOnDisk(present)
      /\ UNCHANGED <<catalog, present, home, calm>>
  BY DEF Restarted
<1>2. \A p \in Paths : /\ handle'[p] = IF p \in present THEN "open" ELSE "none"
                       /\ store'[p] = IF p \in present THEN store[p] ELSE Empty
  BY <1>1
<1>3. CalmSchema' /\ CalmDdl' /\ CalmHeld'
  BY <1>1, ListedCalm
<1>4. ASSUME NEW p \in Paths PROVE CalmStore(p)'
  <2>1. CalmStore(p)
    BY CalmParts
  <2>2. CASE p \in present
    BY <2>1, <2>2, <1>1, <1>2 DEF CalmStore, CalmRow, HomeKey, HomePath
  <2>3. CASE p \notin present
    <3>1. store'[p] = Empty /\ handle'[p] = "none" /\ p \notin present'
      BY <2>3, <1>1, <1>2
    <3>2. DOMAIN store'[p] = {}
      BY <3>1, EmptyMap
    <3>3. QED
      BY <3>1, <3>2 DEF CalmStore
  <2>4. QED
    BY <2>2, <2>3
<1>5. CalmRam'
  BY <1>1, EmptyMap DEF CalmRam
<1>6. CalmExpected'
  <2>1. ASSUME NEW pk \in expected', CalmRow(pk)
        PROVE  HomeKey(pk) \in DOMAIN store'[HomePath(pk)]
    <3>1. PICK p \in present : p[3] = "data" /\ \E k : k[3] = pk /\ k \in DOMAIN store[p]
      BY <1>1 DEF RowsOnDisk
    <3>2. p \in Paths
      BY StorageFacts
    <3>3. PICK k \in DOMAIN store[p] : k[3] = pk
      BY <3>1
    <3>4. k = HomeKey(pk) /\ p = HomePath(pk)
      BY <2>1, <3>1, <3>2, <3>3, CalmParts DEF CalmStore
    <3>5. QED
      BY <3>2, <3>3, <3>4, <3>1, <1>2
  <2>2. QED
    BY <2>1, <1>1 DEF CalmExpected, CalmRow, HomeKey, HomePath
<1>7. QED
  BY <1>3, <1>4, <1>5, <1>6 DEF CalmInv

\* CalmInv holds at the start.
LEMMA CalmInit ==
  ASSUME Init
  PROVE  CalmInv
<1> DEFINE t == <<FirstDb, FirstTable>>
<1>1. catalog = [dbs |-> {FirstDb}, tables |-> Put(Empty, t, FirstCols)] /\ cache = catalog
      /\ ddl = NoDdl /\ home = Empty /\ ram = Empty /\ expected = {} /\ present = {}
  BY DEF Init
<1>2. t[1] = FirstDb /\ FirstDb \in Dbs
  BY TableStoresConstants
<1> HIDE DEF t
<1>3. DOMAIN Empty = {}
  BY EmptyMap
<1>4. DOMAIN catalog.tables = {t} /\ catalog.tables[t] = FirstCols /\ catalog.dbs = {FirstDb}
  BY <1>1, <1>3 DEF Put
<1>5. CalmSchema
  BY <1>1, <1>2, <1>3, <1>4, TableStoresConstants DEF CalmSchema
<1>6. CalmDdl /\ CalmHeld
  BY <1>1, <1>3 DEF CalmDdl, CalmHeld, NoDdl
<1>7. ASSUME NEW p \in Paths PROVE CalmStore(p)
  <2>1. store[p] = Empty /\ handle[p] = "none"
    BY DEF Init
  <2>2. DOMAIN store[p] = {}
    BY <2>1, <1>3
  <2>3. QED
    BY <2>1, <2>2, <1>1 DEF CalmStore
<1>8. CalmRam /\ CalmExpected
  BY <1>1, <1>3 DEF CalmRam, CalmExpected
<1>9. QED
  BY <1>5, <1>6, <1>7, <1>8 DEF CalmInv

\* Every step keeps CalmInv.
LEMMA CalmStep ==
  ASSUME StoresInv, CalmInv, [Next]_vars
  PROVE  CalmInv'
<1>1. CASE SchemaStep
  <2>1. CASE ScanKeys \/ GetKey \/ DeleteKey \/ SetKey \/ AlterIndexKeys
    BY <2>1, ScanKeysCalm, GetKeyCalm, DeleteKeyCalm, SetKeyCalm, AlterIndexKeysCalm
  <2>2. CASE RenameSchemaKeys \/ RenameFolder \/ DropSchemaKey \/ RemoveFolder
    BY <2>2, RenameSchemaKeysCalm, RenameFolderCalm, DropSchemaKeyCalm, RemoveFolderCalm
  <2>3. CASE ScanRows \/ AlterRow \/ AlterRowPanics \/ AlterIndex
    BY <2>3, ScanRowsCalm, AlterRowCalm, RestartCalm, IndexStepsCalm DEF AlterRowPanics
  <2>4. CASE RemoveIndexDir \/ RebuildIndex \/ RefereshDone \/ SetFullSchema
    BY <2>4, RemoveIndexDirCalm, IndexStepsCalm, SetFullSchemaCalm
  <2>5. QED
    BY <1>1, <2>1, <2>2, <2>3, <2>4 DEF SchemaStep
<1>2. CASE UNCHANGED vars
  <2>1. UNCHANGED <<catalog, cache, storage, ram, ddl, home, expected, calm>>
    BY <1>2 DEF vars, buffers, history
  <2>2. CalmHeld'
    BY <2>1, CalmParts DEF CalmHeld, CalmRow
  <2>3. QED
    BY <2>1, <2>2, QuietCalm
<1>3. QED
  BY <1>1, <1>2, RowStepCalm, SchemaRequestCalm, RestartCalm DEF Next, Crash

\* In a database that no request renames or deletes from, rows lie in RAM or on disk under the
\* key they were inserted under, with their Id, in stores nobody closes: alterData, the flushers
\* and requests on other databases (data.go, schema.go, setup.go) leave that so.
THEOREM CalmRowsStay == StoresSpec => []CalmInv
<1>1. Init => CalmInv
  BY CalmInit
<1>2. CalmInv /\ StoresInv /\ [Next]_vars => CalmInv'
  BY CalmStep
<1>3. QED
  BY <1>1, <1>2, StoresInvariant, PTL DEF StoresSpec

\* What a read of a calm row finds.
LEMMA CalmRowOf ==
  ASSUME StoresInv, CalmInv, NEW pk \in DOMAIN home, CalmRow(pk)
  PROVE  /\ HomeKey(pk) \in DOMAIN ram => RowOf(HomeKey(pk)) = ram[HomeKey(pk)]
         /\ HomeKey(pk) \notin DOMAIN ram /\ HomeKey(pk) \in DOMAIN store[HomePath(pk)] =>
              RowOf(HomeKey(pk)) = store[HomePath(pk)][HomeKey(pk)].set
         /\ HomeKey(pk) \notin DOMAIN ram /\ HomeKey(pk) \notin DOMAIN store[HomePath(pk)] =>
              RowOf(HomeKey(pk)) = {}
         /\ HomeKey(pk) \in DOMAIN store[HomePath(pk)] =>
              Id \in store[HomePath(pk)][HomeKey(pk)].set
         /\ HomeKey(pk) \in DOMAIN ram => Id \in ram[HomeKey(pk)]
<1>1. PICK key : key = HomeKey(pk)
  OBVIOUS
<1>2. PICK p : p = HomePath(pk)
  OBVIOUS
<1>3. <<key[1], key[2], "data">> = p /\ key[3] = pk /\ p \in Paths /\ p[3] = "data" /\ p[1] \in calm
  BY <1>1, <1>2, HomeFacts DEF CalmRow
<1>4. handle[p] # "closed"
  BY <1>3, CalmParts DEF CalmStore
<1>5. key \in DOMAIN store[p] => store[p][key].enc = 0 /\ Id \in store[p][key].set
  BY <1>3, CalmParts DEF CalmStore
<1>6. key \in DOMAIN ram => Id \in ram[key]
  BY <1>3, CalmParts DEF CalmRam
<1>7. RowOf(key) = IF key \in DOMAIN ram THEN ram[key]
                   ELSE IF key \in DOMAIN store[p] THEN store[p][key].set ELSE {}
  BY <1>3, <1>4, <1>5 DEF RowOf, Usable
<1>8. QED
  BY <1>1, <1>2, <1>5, <1>6, <1>7

\* A row that should be there can be read, in every such database (GetData, data.go).
THEOREM CalmReadable == StoresSpec => []CalmRowsReadable
<1>1. StoresInv /\ CalmInv => CalmRowsReadable
  <2>1. SUFFICES ASSUME StoresInv, CalmInv, NEW pk \in expected, CalmRow(pk)
                 PROVE  RowOf(HomeKey(pk)) # {}
    BY DEF CalmRowsReadable, CalmRow, HomeKey
  <2>2. pk \in DOMAIN home
    BY <2>1, RowKeys
  <2>3. HomeKey(pk) \in DOMAIN ram \/ HomeKey(pk) \in DOMAIN store[HomePath(pk)]
    BY <2>1, CalmParts DEF CalmExpected
  <2>4. QED
    BY <2>1, <2>2, <2>3, CalmRowOf
<1>2. QED
  BY <1>1, StoresInvariant, CalmRowsStay, PTL

-----------------------------------------------------------------------------
(* The columns of calm rows.                                               *)

\* The row a key of a calm database has on disk.
OnDisk(pk) == HomeKey(pk) \in DOMAIN store[HomePath(pk)]
DiskRow(pk) == store[HomePath(pk)][HomeKey(pk)].set

\* FitInv, row by row.
LEMMA FitParts ==
  ASSUME FitInv
  PROVE  /\ \A k \in DOMAIN ram : CalmRow(k[3]) /\ k[3] \notin late =>
              ~Altering(home[k[3]]) /\ catalog.tables[home[k[3]]] \subseteq ram[k]
         /\ \A pk \in DOMAIN home : pk \notin late /\ CalmRow(pk) /\ OnDisk(pk) =>
              RowFits(pk, DiskRow(pk))
         /\ \A pk \in DOMAIN ddl.rows : CalmRow(pk) => OnDisk(pk)
BY DEF FitInv, RamFits, DiskFits, RowsThere, OnDisk, DiskRow

LEMMA FitAgain ==
  ASSUME \A k \in DOMAIN ram' : CalmRow(k[3])' /\ k[3] \notin late' =>
           ~Altering(home[k[3]])' /\ catalog'.tables[home'[k[3]]] \subseteq ram'[k],
         \A pk \in DOMAIN home' : pk \notin late' /\ CalmRow(pk)' /\ OnDisk(pk)' =>
           RowFits(pk, DiskRow(pk))',
         \A pk \in DOMAIN ddl'.rows : CalmRow(pk)' => OnDisk(pk)'
  PROVE  FitInv'
BY DEF FitInv, RamFits, DiskFits, RowsThere, OnDisk, DiskRow

\* While nothing is altered, fitting is having the columns of the schema.
LEMMA NotAltering ==
  ASSUME ddl.op # "alter"
  PROVE  /\ \A t : ~Altering(t)
         /\ \A pk : ~ToAlter(pk)
         /\ \A pk, row : RowFits(pk, row) <=> catalog.tables[home[pk]] \subseteq row
BY DEF Altering, ToAlter, RowFits

\* A step that changes no calm row and the fate of none.
LEMMA FitKept ==
  ASSUME StoresInv, CalmInv, FitInv, UNCHANGED home, calm' \subseteq calm, late \subseteq late',
         \A k \in DOMAIN ram' : k \in DOMAIN ram /\ ram'[k] = ram[k],
         \A pk \in DOMAIN home : CalmRow(pk)' /\ pk \notin late' =>
           /\ catalog'.tables[home[pk]] = catalog.tables[home[pk]]
           /\ OnDisk(pk)' => OnDisk(pk) /\ DiskRow(pk)' = DiskRow(pk)
           /\ Altering(home[pk])' => Altering(home[pk])
           /\ \/ ~ToAlter(pk) /\ ~ToAlter(pk)'
              \/ /\ ToAlter(pk) /\ ToAlter(pk)'
                 /\ ddl'.alter = ddl.alter /\ ddl'.rows = ddl.rows,
         \A pk \in DOMAIN ddl'.rows : CalmRow(pk)' => OnDisk(pk)'
  PROVE  FitInv'
<1>1. \A pk : CalmRow(pk)' => CalmRow(pk)
  BY DEF CalmRow
<1>2. \A k \in DOMAIN ram' : CalmRow(k[3])' /\ k[3] \notin late' =>
        ~Altering(home[k[3]])' /\ catalog'.tables[home'[k[3]]] \subseteq ram'[k]
  <2>1. SUFFICES ASSUME NEW k \in DOMAIN ram', CalmRow(k[3])', k[3] \notin late'
                 PROVE  ~Altering(home[k[3]])' /\ catalog'.tables[home'[k[3]]] \subseteq ram'[k]
    OBVIOUS
  <2>2. PICK pk : pk = k[3]
    OBVIOUS
  <2>3. k \in DOMAIN ram /\ ram'[k] = ram[k] /\ pk \in DOMAIN home /\ CalmRow(pk) /\ pk \notin late
    BY <2>1, <2>2, <1>1, RowKeys
  <2>4. ~Altering(home[pk]) /\ catalog.tables[home[pk]] \subseteq ram[k]
    BY <2>2, <2>3, FitParts
  <2>5. catalog'.tables[home[pk]] = catalog.tables[home[pk]] /\ ~Altering(home[pk])'
    BY <2>1, <2>2, <2>3, <2>4
  <2>6. QED
    BY <2>2, <2>3, <2>4, <2>5
<1>3. \A pk \in DOMAIN home' : pk \notin late' /\ CalmRow(pk)' /\ OnDisk(pk)' =>
        RowFits(pk, DiskRow(pk))'
  <2>1. SUFFICES ASSUME NEW pk \in DOMAIN home, pk \notin late', CalmRow(pk)', OnDisk(pk)'
                 PROVE  RowFits(pk, DiskRow(pk))'
    OBVIOUS
  <2>2. PICK row : row = DiskRow(pk)
    OBVIOUS
  <2>3. RowFits(pk, row) /\ DiskRow(pk)' = row
    BY <2>1, <2>2, <1>1, FitParts
  <2>4. catalog'.tables[home'[pk]] = catalog.tables[home[pk]]
    BY <2>1
  <2>5. CASE ~ToAlter(pk) /\ ~ToAlter(pk)'
    BY <2>3, <2>4, <2>5 DEF RowFits
  <2>6. CASE /\ ToAlter(pk) /\ ToAlter(pk)'
             /\ ddl'.alter = ddl.alter /\ ddl'.rows = ddl.rows
    <3>1. (Untouched(row)' <=> Untouched(row)) /\ AlteredRow(row)' = AlteredRow(row)
      BY <2>6 DEF Untouched, AlteredRow
    <3>2. /\ ~Untouched(row) /\ catalog.tables[home[pk]] \subseteq AlteredRow(row)
          /\ pk \in DOMAIN ddl.rows => ddl.rows[pk] = row
      BY <2>3, <2>6 DEF RowFits
    <3>3. QED
      BY <3>1, <3>2, <2>3, <2>4, <2>6 DEF RowFits
  <2>7. QED
    BY <2>1, <2>5, <2>6
<1>4. QED
  BY <1>2, <1>3, FitAgain

\* The rows of a step that leaves rows, their stores and calm schemas alone.
LEMMA FitQuiet ==
  ASSUME StoresInv, CalmInv, FitInv, UNCHANGED <<ram, home>>, calm' \subseteq calm, late \subseteq late',
         ddl.op # "alter", ddl'.op # "alter",
         ddl'.rows = Empty,
         \A pk \in DOMAIN home : CalmRow(pk)' =>
           /\ catalog'.tables[home[pk]] = catalog.tables[home[pk]]
           /\ store'[HomePath(pk)] = store[HomePath(pk)]
  PROVE  FitInv'
<1>1. /\ \A t : ~Altering(t) /\ ~Altering(t)'
      /\ \A pk : ~ToAlter(pk) /\ ~ToAlter(pk)'
  BY DEF Altering, ToAlter
<1>2. \A pk \in DOMAIN home : CalmRow(pk)' => (OnDisk(pk)' => OnDisk(pk) /\ DiskRow(pk)' = DiskRow(pk))
  BY DEF OnDisk, DiskRow, HomeKey, HomePath
<1>3. DOMAIN ddl'.rows = {}
  BY EmptyMap
<1>4. QED
  BY <1>1, <1>2, <1>3, FitKept

\* What is on disk of a row being saved was inserted before.
LEMMA SavedBefore ==
  ASSUME StoresInv, UNCHANGED store, NEW t \in Tables, NEW q, home'[q] = t, OnDisk(q)'
  PROVE  q \in DOMAIN home
<1>1. PICK k : k = HomeKey(q)'
  OBVIOUS
<1>2. PICK p : p = HomePath(q)'
  OBVIOUS
<1>3. p = Append(t, "data") /\ k = Append(t, q)
  BY <1>1, <1>2 DEF HomePath, HomeKey
<1>4. p \in Paths /\ p = <<t[1], t[2], "data">> /\ k = <<t[1], t[2], q>>
  BY <1>3, TablePaths, AppendedIs
<1>5. p[3] = "data" /\ k[3] = q
  BY <1>4
<1>6. k \in DOMAIN store[p]
  BY <1>1, <1>2 DEF OnDisk
<1>7. QED
  BY <1>4, <1>5, <1>6, RowKeys

\* A save fits the schema, unless it falls into an alteration.
LEMMA SaveFits ==
  ASSUME StoresInv, CalmInv, FitInv,
         NEW db \in Dbs, NEW table \in Tabs, NEW pk \in Pks, Save(db, table, pk),
         DOMAIN home' = DOMAIN home \cup {pk}, \A q \in DOMAIN home : home'[q] = home[q],
         CalmRow(pk)' => home'[pk] = <<db, table>>
  PROVE  FitInv'
<1> DEFINE key == <<db, table, pk>>
           t == <<db, table>>
           cols == cache.tables[t]
<1>1. /\ t \in DOMAIN cache.tables /\ t \in Tables /\ t[1] = db
      /\ ram' = Put(ram, key, cols)
      /\ late' = IF Altering(t) THEN late \cup {pk} ELSE late
      /\ UNCHANGED <<catalog, cache, store, ddl, calm>>
  BY DEF Save, Tables, storage
<1>2. key[3] = pk
  OBVIOUS
<1> HIDE DEF key, t, cols
<1>3. /\ DOMAIN ram' = DOMAIN ram \cup {key} /\ ram'[key] = cols
      /\ \A k \in DOMAIN ram : k # key => ram'[k] = ram[k]
  BY <1>1 DEF Put
<1>4. \A q \in DOMAIN home : /\ CalmRow(q)' <=> CalmRow(q)
                             /\ OnDisk(q)' <=> OnDisk(q)
                             /\ DiskRow(q)' = DiskRow(q)
  BY <1>1 DEF CalmRow, OnDisk, DiskRow, HomeKey, HomePath
<1>5. \A u : Altering(u)' <=> Altering(u)
  BY <1>1 DEF Altering
<1>6. late \subseteq late'
  BY <1>1
<1>7. ASSUME NEW k \in DOMAIN ram', CalmRow(k[3])', k[3] \notin late'
      PROVE  ~Altering(home[k[3]])' /\ catalog'.tables[home'[k[3]]] \subseteq ram'[k]
  <2>1. PICK q : q = k[3]
    OBVIOUS
  <2>2. CASE k = key
    <3>1. q = pk /\ home'[q] = t /\ db \in calm
      BY <2>1, <2>2, <1>1, <1>2, <1>7 DEF CalmRow, t
    <3>2. ~Altering(t)
      BY <2>1, <3>1, <1>1, <1>7
    <3>3. cols = catalog.tables[t]
      BY <3>1, <3>2, <1>1, CalmParts DEF CalmSchema, cols
    <3>4. ~Altering(home'[q]) /\ ram'[k] = cols
      BY <2>2, <3>1, <3>2, <1>3
    <3>5. ~Altering(home[q])'
      BY <3>4, <1>1 DEF Altering
    <3>6. QED
      BY <2>1, <3>1, <3>3, <3>4, <3>5, <1>1
  <2>3. CASE k # key
    <3>1. k \in DOMAIN ram /\ ram'[k] = ram[k]
      BY <2>3, <1>3
    <3>2. q \in DOMAIN home /\ q \notin late /\ CalmRow(q) /\ home'[q] = home[q]
      BY <2>1, <3>1, <1>4, <1>6, <1>7, RowKeys
    <3>3. ~Altering(home[q]) /\ catalog.tables[home[q]] \subseteq ram[k]
      BY <2>1, <3>1, <3>2, FitParts
    <3>4. ~Altering(home[q])'
      BY <3>2, <3>3, <1>1 DEF Altering
    <3>5. QED
      BY <2>1, <3>1, <3>2, <3>3, <3>4, <1>1
  <2>4. QED
    BY <2>2, <2>3
<1>8. ASSUME NEW q \in DOMAIN home', q \notin late', CalmRow(q)', OnDisk(q)'
      PROVE  RowFits(q, DiskRow(q))'
  <2>1. q \in DOMAIN home
    <3>1. CASE q # pk
      BY <3>1, <1>8
    <3>2. CASE q = pk
      <4>1. home'[q] = t
        BY <3>2, <1>8 DEF t
      <4>2. QED
        BY <4>1, <1>1, <1>8, SavedBefore
    <3>3. QED
      BY <3>1, <3>2
  <2>2. PICK row : row = DiskRow(q)
    OBVIOUS
  <2>3. RowFits(q, row) /\ DiskRow(q)' = row /\ home'[q] = home[q]
    BY <2>1, <2>2, <1>4, <1>6, <1>8, FitParts
  <2>4. ToAlter(q)' <=> ToAlter(q)
    BY <2>3, <1>1 DEF ToAlter, Altering
  <2>5. (Untouched(row)' <=> Untouched(row)) /\ AlteredRow(row)' = AlteredRow(row)
    BY <1>1 DEF Untouched, AlteredRow
  <2>6. QED
    BY <2>3, <2>4, <2>5, <1>1 DEF RowFits
<1>9. \A q \in DOMAIN ddl'.rows : CalmRow(q)' => OnDisk(q)'
  BY <1>1, <1>4, FitParts, RowKeys
<1>10. QED
  BY <1>7, <1>8, <1>9, FitAgain

\* Insert and Update keep FitInv.
LEMMA SavesFit ==
  ASSUME StoresInv, CalmInv, FitInv, NEW db \in Dbs, NEW table \in Tabs, NEW pk \in Pks,
         Insert(db, table, pk) \/ Update(db, table, pk)
  PROVE  FitInv'
<1> DEFINE t == <<db, table>>
<1>1. CASE Insert(db, table, pk)
  <2>1. pk \notin DOMAIN home /\ Save(db, table, pk) /\ home' = Put(home, pk, t)
    BY <1>1 DEF Insert
  <2> HIDE DEF t
  <2>2. /\ DOMAIN home' = DOMAIN home \cup {pk} /\ home'[pk] = t
        /\ \A q \in DOMAIN home : home'[q] = home[q]
    BY <2>1 DEF Put
  <2>3. QED
    BY <2>1, <2>2, SaveFits DEF t
<1>2. CASE Update(db, table, pk)
  <2>1. /\ RowOf(<<db, table, pk>>) # {} /\ Save(db, table, pk) /\ UNCHANGED home
        /\ t \in Tables /\ t[1] = db /\ t[2] = table
    BY <1>2 DEF Update, Tables
  <2> HIDE DEF t
  <2>2. pk \in DOMAIN home
    BY <2>1, ReadRowsInserted DEF StoresInv
  <2>3. calm' = calm
    BY <2>1 DEF Save
  <2>4. CalmRow(pk)' => home'[pk] = t
    BY <2>1, <2>3, ReadAtHome DEF CalmRow
  <2>5. QED
    BY <2>1, <2>2, <2>4, SaveFits DEF t
<1>3. QED
  BY <1>1, <1>2

\* A read changes no row.
LEMMA GetDataFits ==
  ASSUME StoresInv, CalmInv, FitInv, NEW db \in Dbs, NEW table \in Tabs, GetData(db, table)
  PROVE  FitInv'
<1>1. UNCHANGED <<catalog, store, ram, ddl, home, calm, late>>
  BY DEF GetData, buffers, history
<1>2. \A pk : /\ (OnDisk(pk)' <=> OnDisk(pk)) /\ DiskRow(pk)' = DiskRow(pk)
              /\ (CalmRow(pk)' <=> CalmRow(pk)) /\ (ToAlter(pk)' <=> ToAlter(pk))
              /\ (Altering(home[pk])' <=> Altering(home[pk]))
  BY <1>1 DEF OnDisk, DiskRow, HomeKey, HomePath, CalmRow, ToAlter, Altering
<1>3. \A pk \in DOMAIN ddl'.rows : CalmRow(pk)' => OnDisk(pk)'
  BY <1>1, <1>2, FitParts
<1>4. QED
  BY <1>1, <1>2, <1>3, FitKept

\* An index entry's flush changes no row.
LEMMA FlushIndexFits ==
  ASSUME StoresInv, CalmInv, FitInv, NEW key \in DOMAIN ibuf, FlushIndex(key)
  PROVE  FitInv'
<1> DEFINE p == <<key[1], key[2], "index">>
           old == IF key \in DOMAIN store[p] /\ store[p][key].enc = 0 THEN store[p][key].set ELSE {}
           held == Put(store[p], key, Value(old \cup ibuf[key]))
<1>1. /\ store' = [store EXCEPT ![p] = held] \/ store' = store
      /\ UNCHANGED <<catalog, ram, ddl, home, calm, late>>
  BY DEF FlushIndex, history
<1>2. p[3] = "index"
  OBVIOUS
<1> HIDE DEF p, held
<1>3. \A q \in Paths : q # p => store'[q] = store[q]
  BY <1>1, StorageFacts
<1>4. \A pk \in DOMAIN home : store'[HomePath(pk)] = store[HomePath(pk)]
  <2>1. \A pk \in DOMAIN home : HomePath(pk) \in Paths /\ HomePath(pk) # p
    BY <1>2, HomeFacts
  <2>2. QED
    BY <2>1, <1>3
<1>5. \A pk \in DOMAIN home : /\ (OnDisk(pk)' <=> OnDisk(pk)) /\ DiskRow(pk)' = DiskRow(pk)
  BY <1>1, <1>4 DEF OnDisk, DiskRow, HomeKey, HomePath
<1>6. \A pk : /\ (CalmRow(pk)' <=> CalmRow(pk)) /\ (ToAlter(pk)' <=> ToAlter(pk))
              /\ (Altering(home[pk])' <=> Altering(home[pk]))
  BY <1>1 DEF CalmRow, ToAlter, Altering
<1>7. \A pk \in DOMAIN ddl'.rows : CalmRow(pk)' => OnDisk(pk)'
  BY <1>1, <1>5, <1>6, FitParts, RowKeys
<1>8. QED
  BY <1>1, <1>5, <1>6, <1>7, FitKept

\* What is flushed is what fits: no alteration of its table is under way.
LEMMA FlushRowFits ==
  ASSUME StoresInv, CalmInv, FitInv, NEW key \in DOMAIN ram, FlushRow(key)
  PROVE  FitInv'
<1> DEFINE p == <<key[1], key[2], "data">>
           held == Put(store[p], key, Value(ram[key]))
<1>1. /\ store' = [store EXCEPT ![p] = held] /\ ram' = Drop(ram, key)
      /\ UNCHANGED <<catalog, ddl, home, calm, late>>
  BY DEF FlushRow, history
<1>2. key \in Dbs \X Tabs \X DOMAIN home /\ key[3] \in DOMAIN home
  BY RowKeys
<1>3. p \in Paths
  BY <1>2, KeyPath
<1> HIDE DEF p
<1>4. /\ DOMAIN held = DOMAIN store[p] \cup {key} /\ held[key].set = ram[key]
      /\ \A k \in DOMAIN store[p] : k # key => held[k] = store[p][k]
  BY DEF Put, Value
<1>5. DOMAIN ram' = DOMAIN ram \ {key} /\ \A k \in DOMAIN ram' : ram'[k] = ram[k]
  BY <1>1 DEF Drop, Restrict
<1> HIDE DEF held
<1>6. store'[p] = held /\ \A q \in Paths : q # p => store'[q] = store[q]
  BY <1>1, <1>3, StorageFacts
<1>7. \A pk : /\ HomeKey(pk)' = HomeKey(pk) /\ HomePath(pk)' = HomePath(pk)
              /\ (CalmRow(pk)' <=> CalmRow(pk)) /\ (ToAlter(pk)' <=> ToAlter(pk))
              /\ (Altering(home[pk])' <=> Altering(home[pk]))
  BY <1>1 DEF HomeKey, HomePath, CalmRow, ToAlter, Altering
<1>8. ASSUME NEW pk \in DOMAIN home, HomeKey(pk) # key
      PROVE  (OnDisk(pk)' <=> OnDisk(pk)) /\ (OnDisk(pk) => DiskRow(pk)' = DiskRow(pk))
  <2>1. HomePath(pk) \in Paths
    BY HomeFacts
  <2>2. CASE HomePath(pk) = p
    BY <2>2, <1>4, <1>6, <1>7, <1>8 DEF OnDisk, DiskRow
  <2>3. CASE HomePath(pk) # p
    BY <2>1, <2>3, <1>6, <1>7 DEF OnDisk, DiskRow
  <2>4. QED
    BY <2>2, <2>3
<1>9. ASSUME NEW pk \in DOMAIN home, HomeKey(pk) = key
      PROVE  pk = key[3] /\ OnDisk(pk)' /\ DiskRow(pk)' = ram[key]
  <2>1. pk = key[3] /\ HomePath(pk) = p
    BY <1>9, HomeFacts DEF p
  <2>2. QED
    BY <2>1, <1>4, <1>6, <1>7, <1>9 DEF OnDisk, DiskRow
<1>10. ASSUME NEW pk \in DOMAIN home', pk \notin late', CalmRow(pk)', OnDisk(pk)'
       PROVE  RowFits(pk, DiskRow(pk))'
  <2>1. pk \in DOMAIN home /\ pk \notin late /\ CalmRow(pk)
    BY <1>1, <1>7, <1>10
  <2>2. PICK row : row = DiskRow(pk)'
    OBVIOUS
  <2>3. RowFits(pk, row)
    <3>1. CASE HomeKey(pk) # key
      BY <2>1, <2>2, <3>1, <1>8, <1>10, FitParts
    <3>2. CASE HomeKey(pk) = key
      <4>1. pk = key[3] /\ row = ram[key]
        BY <2>1, <2>2, <3>2, <1>9
      <4>2. ~Altering(home[pk]) /\ catalog.tables[home[pk]] \subseteq row
        BY <2>1, <4>1, FitParts
      <4>3. QED
        BY <4>2 DEF RowFits, ToAlter
    <3>3. QED
      BY <3>1, <3>2
  <2>4. (Untouched(row)' <=> Untouched(row)) /\ AlteredRow(row)' = AlteredRow(row)
    BY <1>1 DEF Untouched, AlteredRow
  <2>5. RowFits(pk, row)' <=> RowFits(pk, row)
    BY <2>4, <1>1, <1>7 DEF RowFits
  <2>6. RowFits(pk, DiskRow(pk))' <=> RowFits(pk, row)'
    BY <2>2 DEF RowFits, Untouched, AlteredRow
  <2>7. QED
    BY <2>3, <2>5, <2>6
<1>11. ASSUME NEW k \in DOMAIN ram', CalmRow(k[3])', k[3] \notin late'
       PROVE  ~Altering(home[k[3]])' /\ catalog'.tables[home'[k[3]]] \subseteq ram'[k]
  <2>1. k \in DOMAIN ram /\ ram'[k] = ram[k] /\ CalmRow(k[3]) /\ k[3] \notin late
    BY <1>1, <1>5, <1>7, <1>11
  <2>2. ~Altering(home[k[3]]) /\ catalog.tables[home[k[3]]] \subseteq ram[k]
    BY <2>1, FitParts
  <2>3. QED
    BY <2>1, <2>2, <1>1, <1>7
<1>12. \A pk \in DOMAIN ddl'.rows : CalmRow(pk)' => OnDisk(pk)'
  BY <1>1, <1>7, <1>8, <1>9, FitParts, RowKeys
<1>13. QED
  BY <1>10, <1>11, <1>12, FitAgain

\* Requests on rows and flushes keep FitInv.
LEMMA RowStepFits ==
  ASSUME StoresInv, CalmInv, FitInv, RowStep
  PROVE  FitInv'
BY SavesFit, GetDataFits, FlushRowFits, FlushIndexFits DEF RowStep

\* Requests but AlterTable change no calm row's schema.
LEMMA OtherRequestsFit ==
  ASSUME StoresInv, CalmInv, FitInv, NEW t, Requested(t), t.op # "alter", t.rows = Empty,
         calm' \subseteq calm, UNCHANGED late,
         \A pk \in DOMAIN home : CalmRow(pk) =>
           catalog'.tables[home[pk]] = catalog.tables[home[pk]]
  PROVE  FitInv'
<1>1. /\ ddl.op = "none" /\ ddl' = t /\ UNCHANGED <<storage, buffers, home>>
  BY RequestedFacts DEF NoDdl
<1>2. UNCHANGED <<store, ram>>
  BY <1>1 DEF storage, buffers
<1>3. \A pk : CalmRow(pk)' => CalmRow(pk)
  BY <1>1 DEF CalmRow
<1>4. QED
  BY <1>1, <1>2, <1>3, FitQuiet

\* The table of a calm row is known to the process.
LEMMA CalmTables ==
  ASSUME StoresInv, CalmInv, NEW pk \in DOMAIN home, CalmRow(pk)
  PROVE  /\ home[pk] \in DOMAIN catalog.tables /\ home[pk] \in Tables /\ home[pk][1] \in calm
         /\ ddl.op # "create" => home[pk] \in DOMAIN cache.tables
<1>1. home[pk] \in Tables
  BY HomeFacts
<1>2. QED
  BY <1>1, CalmParts DEF CalmSchema, CalmRow

\* Creations, renames, deletions and refreshes keep FitInv.
LEMMA PlainRequestsFit ==
  ASSUME StoresInv, CalmInv, FitInv,
         \/ RefereshIndex
         \/ \E db \in Dbs : CreateDatabase(db) \/ DeleteDatabase(db)
         \/ \E db, to \in Dbs : RenameDatabase(db, to)
         \/ \E db \in Dbs, table \in Tabs :
              \/ CreateTable(db, table, FirstCols) \/ DeleteTable(db, table)
              \/ \E to \in Tabs : RenameTable(db, table, to)
  PROVE  FitInv'
<1>1. ASSUME NEW from, NEW to, Rename(from, to) PROVE FitInv'
  <2> DEFINE paths == RenamedStores(from, "data")
             t == [NoDdl EXCEPT !.op = "rename", !.pc = "rowKeys", !.from = from, !.to = to,
                                !.paths = paths]
  <2>1. Requested(t) /\ calm' \subseteq calm /\ UNCHANGED <<catalog, late>>
    BY <1>1 DEF Rename
  <2> HIDE DEF paths
  <2>2. t.op = "rename" /\ t.rows = Empty
    BY DEF NoDdl
  <2> HIDE DEF t
  <2>3. QED
    BY <2>1, <2>2, OtherRequestsFit
<1>2. ASSUME NEW from, Delete(from) PROVE FitInv'
  <2> DEFINE t == [NoDdl EXCEPT !.op = "delete", !.pc = "dropKeys", !.from = from]
  <2>1. Requested(t) /\ calm' \subseteq calm /\ UNCHANGED <<catalog, late>>
    BY <1>2 DEF Delete
  <2>2. t.op = "delete" /\ t.rows = Empty
    BY DEF NoDdl
  <2> HIDE DEF t
  <2>3. QED
    BY <2>1, <2>2, OtherRequestsFit
<1>3. CASE RefereshIndex
  <2> DEFINE paths == {<<u[1], u[2], "index">> : u \in DOMAIN cache.tables}
             t == [NoDdl EXCEPT !.op = "refresh", !.pc = "unindex", !.paths = paths]
  <2>1. Requested(t) /\ UNCHANGED <<catalog, calm, late>>
    BY <1>3 DEF RefereshIndex
  <2> HIDE DEF paths
  <2>2. t.op = "refresh" /\ t.rows = Empty
    BY DEF NoDdl
  <2> HIDE DEF t
  <2>3. QED
    BY <2>1, <2>2, OtherRequestsFit
<1> DEFINE t == [NoDdl EXCEPT !.op = "create", !.pc = "reload"]
<1>4. t.op = "create" /\ t.rows = Empty
  BY DEF NoDdl
<1>5. catalog \in [dbs : SUBSET Dbs, tables : {catalog.tables}]
  BY InvParts DEF SchemaOK
<1>6. ASSUME NEW db \in Dbs, CreateDatabase(db) PROVE FitInv'
  <2>1. /\ Requested(t) /\ UNCHANGED <<calm, late>>
        /\ catalog' = [catalog EXCEPT !.dbs = @ \cup {db}]
    BY <1>6 DEF CreateDatabase
  <2> HIDE DEF t
  <2>2. catalog'.tables = catalog.tables
    BY <2>1, <1>5
  <2>3. QED
    BY <2>1, <2>2, <1>4, OtherRequestsFit
<1>7. ASSUME NEW db \in Dbs, NEW table \in Tabs, CreateTable(db, table, FirstCols) PROVE FitInv'
  <2> DEFINE u == <<db, table>>
  <2>1. /\ Requested(t) /\ UNCHANGED <<calm, late>>
        /\ u \notin DOMAIN cache.tables
        /\ catalog' = [catalog EXCEPT !.tables = Put(@, u, FirstCols \cup {Id})]
    BY <1>7 DEF CreateTable
  <2> HIDE DEF t, u
  <2>2. catalog'.tables = Put(catalog.tables, u, FirstCols \cup {Id})
    BY <2>1, <1>5
  <2>3. \A v \in DOMAIN catalog.tables : v # u => catalog'.tables[v] = catalog.tables[v]
    BY <2>2 DEF Put
  <2>4. ddl.op = "none"
    BY <2>1, RequestedFacts DEF NoDdl
  <2>5. \A pk \in DOMAIN home : CalmRow(pk) => catalog'.tables[home[pk]] = catalog.tables[home[pk]]
    BY <2>1, <2>3, <2>4, CalmTables
  <2>6. QED
    BY <2>1, <2>5, <1>4, OtherRequestsFit
<1>8. QED
  BY <1>1, <1>2, <1>3, <1>6, <1>7
     DEF RenameDatabase, RenameTable, DeleteDatabase, DeleteTable

\* A calm row's store on disk is in the map and open.
LEMMA CalmOpen ==
  ASSUME StoresInv, CalmInv, NEW pk \in DOMAIN home, CalmRow(pk), OnDisk(pk)
  PROVE  handle[HomePath(pk)] = "open" /\ HomePath(pk) \in present
<1>1. PICK p : p = HomePath(pk)
  OBVIOUS
<1>2. p \in Paths /\ p[3] = "data" /\ p[1] \in calm
  BY <1>1, HomeFacts DEF CalmRow
<1>3. store[p] # Empty
  BY <1>1, EmptyMap DEF OnDisk
<1>4. p \in present
  BY <1>2, <1>3, InvParts DEF StoresOnDisk
<1>5. QED
  BY <1>1, <1>2, <1>4, CalmParts DEF CalmStore

\* AlterTable's rows on disk are to be altered, those in RAM are late.
LEMMA AlterTableFits ==
  ASSUME StoresInv, CalmInv, FitInv, NEW db \in Dbs, NEW table \in Tabs, NEW a \in Alterations,
         AlterTable(db, table, a)
  PROVE  FitInv'
<1> DEFINE u == <<db, table>>
           stores == StoresUnder(u, "data")
           t == [NoDdl EXCEPT !.op = "alter", !.pc = "rows", !.from = u, !.alter = a,
                              !.paths = stores]
           cols == AlteredCols(catalog.tables[u], a)
           waiting == {k[3] : k \in {k \in DOMAIN ram : k[1] = db /\ k[2] = table}}
<1>1. /\ u \in DOMAIN cache.tables /\ u \in DOMAIN catalog.tables
      /\ a.do = "rename" => a.name \in cache.tables[u]
      /\ catalog' = [catalog EXCEPT !.tables[u] = cols]
      /\ Requested(t)
      /\ calm' \subseteq calm
      /\ late' = late \cup waiting
  BY DEF AlterTable
<1>2. u \in Tables /\ u[1] = db /\ u[2] = table
  BY DEF Tables
<1>3. u \in Folders
  BY <1>2 DEF Folders
<1> HIDE DEF u
<1>4. \A p \in Paths : Under(p, u) /\ p[3] = "data" /\ handle[p] # "none" => p \in stores
  BY DEF StoresUnder
<1> HIDE DEF stores
<1>5. t.op = "alter" /\ t.from = u /\ t.pc = "rows" /\ t.alter = a /\ t.paths = stores /\ t.rows = Empty
  BY DEF NoDdl
<1> HIDE DEF t
<1>6. ddl.op = "none" /\ ddl' = t /\ UNCHANGED <<cache, store, ram, home>>
  BY <1>1, RequestedFacts DEF NoDdl, storage, buffers
<1>7. a.do \in {"rename", "add", "drop"}
  BY TableStoresConstants
<1>8. /\ catalog'.tables[u] = cols
      /\ \A v \in DOMAIN catalog.tables : v # u => catalog'.tables[v] = catalog.tables[v]
  <2> HIDE DEF cols
  <2>1. catalog \in [dbs : SUBSET Dbs, tables : {catalog.tables}] /\ IsMap(catalog.tables, Tables, SUBSET Cols)
    BY InvParts DEF SchemaOK
  <2>2. catalog'.tables = [catalog.tables EXCEPT ![u] = cols]
    BY <2>1, <1>1
  <2>3. QED
    BY <2>1, <2>2, <1>1 DEF IsMap
<1>9. \A pk : /\ CalmRow(pk)' => CalmRow(pk)
              /\ HomeKey(pk)' = HomeKey(pk) /\ HomePath(pk)' = HomePath(pk)
              /\ (OnDisk(pk)' <=> OnDisk(pk)) /\ DiskRow(pk)' = DiskRow(pk)
  BY <1>1, <1>6 DEF CalmRow, HomeKey, HomePath, OnDisk, DiskRow
<1>10. \A v : /\ ~Altering(v) /\ (Altering(v)' <=> v = u)
  BY <1>5, <1>6 DEF Altering
<1>11. db \in calm => cache.tables[u] = catalog.tables[u]
  BY <1>1, <1>2, <1>10, CalmParts DEF CalmSchema
<1>12. ASSUME NEW k \in DOMAIN ram', CalmRow(k[3])', k[3] \notin late'
       PROVE  ~Altering(home[k[3]])' /\ catalog'.tables[home'[k[3]]] \subseteq ram'[k]
  <2>1. PICK pk : pk = k[3]
    OBVIOUS
  <2>2. k \in DOMAIN ram /\ pk \in DOMAIN home /\ CalmRow(pk) /\ pk \notin late /\ pk \notin waiting
    BY <2>1, <1>1, <1>6, <1>9, <1>12, RowKeys
  <2>3. k = HomeKey(pk)
    BY <2>1, <2>2, CalmParts DEF CalmRam
  <2>4. k[1] # db \/ k[2] # table
    BY <2>1, <2>2
  <2>5. home[pk] # u
    <3>1. k[1] = home[pk][1] /\ k[2] = home[pk][2]
      BY <2>2, <2>3, HomeFacts
    <3>2. QED
      BY <2>4, <3>1, <1>2
  <2>6. catalog.tables[home[pk]] \subseteq ram[k] /\ home[pk] \in DOMAIN catalog.tables
    BY <2>1, <2>2, FitParts, CalmTables
  <2>7. QED
    BY <2>1, <2>5, <2>6, <1>5, <1>6, <1>8 DEF Altering
<1>13. ASSUME NEW pk \in DOMAIN home', pk \notin late', CalmRow(pk)', OnDisk(pk)'
       PROVE  RowFits(pk, DiskRow(pk))'
  <2>1. pk \in DOMAIN home /\ pk \notin late /\ CalmRow(pk) /\ OnDisk(pk)
    BY <1>1, <1>6, <1>9, <1>13
  <2>2. PICK row : row = DiskRow(pk)
    OBVIOUS
  <2>3. row = DiskRow(pk)'
    BY <2>2, <1>9
  <2>4. catalog.tables[home[pk]] \subseteq row /\ home[pk] \in DOMAIN catalog.tables
    BY <2>1, <2>2, <1>6, FitParts, NotAltering, CalmTables
  <2>5. CASE home[pk] = u
    <3>1. db \in calm
      BY <2>1, <2>5, <1>2 DEF CalmRow
    <3>2. HomePath(pk) \in stores
      <4>1. PICK p : p = HomePath(pk)
        OBVIOUS
      <4>2. p \in Paths /\ p[3] = "data" /\ u = <<p[1], p[2]>>
        BY <2>1, <2>5, <4>1, HomeFacts
      <4>3. Under(p, u)
        BY <4>2, <1>3, UnderFacts DEF Paths
      <4>4. handle[p] = "open"
        BY <2>1, <4>1, CalmOpen
      <4>5. QED
        BY <4>1, <4>2, <4>3, <4>4, <1>4
    <3>3. ToAlter(pk)'
      BY <2>5, <3>2, <1>5, <1>6 DEF ToAlter, Altering
    <3>4. pk \notin DOMAIN ddl'.rows
      BY <1>5, <1>6, EmptyMap
    <3>5. ~Untouched(row)' /\ cols \subseteq AlteredRow(row)'
      <4>1. ddl'.alter = a
        BY <1>5, <1>6
      <4>2. a.do = "rename" => a.name \in catalog.tables[u]
        BY <3>1, <1>1, <1>11
      <4>3. catalog.tables[u] \subseteq row
        BY <2>4, <2>5
      <4>4. CASE a.do = "rename"
        BY <4>1, <4>2, <4>3, <4>4 DEF Untouched, AlteredCols, AlteredRow
      <4>5. CASE a.do = "add"
        BY <4>1, <4>3, <4>5 DEF Untouched, AlteredCols, AlteredRow
      <4>6. CASE a.do = "drop"
        BY <4>1, <4>3, <4>6 DEF Untouched, AlteredCols, AlteredRow
      <4>7. QED
        BY <4>4, <4>5, <4>6, <1>7
    <3>6. QED
      BY <2>3, <2>5, <3>3, <3>4, <3>5, <1>6, <1>8 DEF RowFits
  <2>6. CASE home[pk] # u
    <3>1. ~ToAlter(pk)'
      BY <2>6, <1>5, <1>6 DEF ToAlter, Altering
    <3>2. catalog'.tables[home'[pk]] \subseteq row
      BY <2>4, <2>6, <1>6, <1>8
    <3>3. QED
      BY <2>3, <3>1, <3>2 DEF RowFits
  <2>7. QED
    BY <2>5, <2>6
<1>14. \A pk \in DOMAIN ddl'.rows : CalmRow(pk)' => OnDisk(pk)'
  BY <1>5, <1>6, EmptyMap
<1>15. QED
  BY <1>12, <1>13, <1>14, FitAgain

\* The steps of renames and deletions.
Moves ==
  \/ ScanKeys \/ GetKey \/ DeleteKey \/ SetKey \/ AlterIndexKeys
  \/ RenameSchemaKeys \/ RenameFolder \/ DropSchemaKey \/ RemoveFolder

\* They hold no rows to alter, and leave the schema as the process knows it alone.
LEMMA MovesQuiet ==
  ASSUME StoresInv, Moves
  PROVE  /\ UNCHANGED <<cache, ram, ibuf, home, calm, late, indexed>>
         /\ ddl.op \in {"rename", "delete"} /\ ddl'.op \in {"rename", "delete", "none"}
         /\ ddl'.rows = Empty
<1>1. UNCHANGED <<cache, ram, ibuf, home, calm, late, indexed>>
  BY DEF Moves, ScanKeys, GetKey, DeleteKey, SetKey, AlterIndexKeys, RenameSchemaKeys,
         RenameFolder, DropSchemaKey, RemoveFolder, Step, buffers
<1>2. ddl.pc \in {"rowKeys", "indexKeys", "folder", "dropKeys", "dropFolder"}
  <2>1. CASE GetKey \/ DeleteKey \/ SetKey
    BY <2>1, InvParts DEF GetKey, DeleteKey, SetKey, KeysFit, MovesKeys
  <2>2. CASE ~(GetKey \/ DeleteKey \/ SetKey)
    BY <2>2 DEF Moves, ScanKeys, AlterIndexKeys, RenameSchemaKeys, RenameFolder,
                DropSchemaKey, RemoveFolder, Scanned
  <2>3. QED
    BY <2>1, <2>2
<1>3. ddl.op \in {"rename", "delete"} /\ ddl.rows = Empty
  BY <1>2, InvParts, PcOps DEF RowsFit
<1>4. ddl' = NoDdl \/ (ddl'.op = ddl.op /\ ddl'.rows = ddl.rows)
  <2>1. DdlTypeOK
    BY InvParts
  <2>2. ASSUME NEW pc, NEW paths, NEW path, NEW keys, NEW hand,
               \/ ddl' = [ddl EXCEPT !.paths = paths, !.path = path, !.keys = keys]
               \/ ddl' = [ddl EXCEPT !.hand = hand]
               \/ ddl' = [ddl EXCEPT !.hand = hand, !.keys = keys]
               \/ ddl' = [ddl EXCEPT !.pc = pc, !.paths = paths]
               \/ ddl' = [ddl EXCEPT !.pc = pc]
               \/ ddl' = [ddl EXCEPT !.pc = pc, !.path = path]
        PROVE  ddl'.op = ddl.op /\ ddl'.rows = ddl.rows
    BY <2>1, <2>2 DEF DdlTypeOK
  <2>3. CASE ScanKeys
    <3>1. \E paths, path, keys : ddl' = [ddl EXCEPT !.paths = paths, !.path = path, !.keys = keys]
      <4>1. PICK p \in ddl.paths :
              ddl' = [ddl EXCEPT !.paths = @ \ {p}, !.path = p,
                        !.keys = {k \in KeysIn(p) :
                          p[3] = "data" \/ k[3] \in catalog.tables[<<p[1], p[2]>>]}]
        BY <2>3 DEF ScanKeys, Step
      <4> DEFINE keys == {k \in KeysIn(p) :
                            p[3] = "data" \/ k[3] \in catalog.tables[<<p[1], p[2]>>]}
                 paths == ddl.paths \ {p}
      <4>2. ddl' = [ddl EXCEPT !.paths = paths, !.path = p, !.keys = keys]
        BY <4>1
      <4> HIDE DEF keys, paths
      <4>3. QED
        BY <4>2
    <3>2. QED
      BY <3>1, <2>2
  <2>4. CASE GetKey
    <3>1. \E hand : ddl' = [ddl EXCEPT !.hand = hand]
      BY <2>4 DEF GetKey, Step
    <3>2. QED
      BY <3>1, <2>2
  <2>5. CASE DeleteKey
    <3>1. \E hand : ddl' = [ddl EXCEPT !.hand = hand]
      <4>1. ddl' = [ddl EXCEPT !.hand.dropped = TRUE]
        BY <2>5 DEF DeleteKey, Step
      <4>2. QED
        BY <4>1
    <3>2. QED
      BY <3>1, <2>2
  <2>6. CASE SetKey
    <3>1. \E hand, keys : ddl' = [ddl EXCEPT !.hand = hand, !.keys = keys]
      BY <2>6 DEF SetKey, Step
    <3>2. QED
      BY <3>1, <2>2
  <2>7. CASE AlterIndexKeys
    <3>1. ddl' = NoDdl \/ \E pc, paths : ddl' = [ddl EXCEPT !.pc = pc, !.paths = paths]
      BY <2>7 DEF AlterIndexKeys, Step
    <3>2. QED
      BY <3>1, <2>2
  <2>8. CASE RenameSchemaKeys \/ RenameFolder \/ DropSchemaKey \/ RemoveFolder
    <3>1. \/ ddl' = NoDdl
          \/ \E pc : ddl' = [ddl EXCEPT !.pc = pc]
          \/ \E pc, path : ddl' = [ddl EXCEPT !.pc = pc, !.path = path]
      BY <2>8 DEF RenameSchemaKeys, RenameFolder, DropSchemaKey, RemoveFolder, Step
    <3>2. QED
      BY <3>1, <2>2
  <2>9. QED
    BY <2>3, <2>4, <2>5, <2>6, <2>7, <2>8 DEF Moves
<1>5. QED
  BY <1>1, <1>3, <1>4 DEF NoDdl

\* They change no calm schema and no calm store.
LEMMA MovesOthers ==
  ASSUME StoresInv, CalmInv, Moves
  PROVE  /\ \A t \in Tables : t[1] \in calm =>
              /\ t \in DOMAIN catalog'.tables <=> t \in DOMAIN catalog.tables
              /\ t \in DOMAIN catalog.tables => catalog'.tables[t] = catalog.tables[t]
         /\ \A p \in Paths : p[1] \in calm => handle'[p] = handle[p] /\ store'[p] = store[p]
<1>1. CASE ScanKeys \/ GetKey \/ AlterIndexKeys
  BY <1>1 DEF ScanKeys, GetKey, AlterIndexKeys, storage
<1>2. CASE DeleteKey \/ SetKey
  <2>1. PICK p : p = ddl.path
    OBVIOUS
  <2>2. /\ UNCHANGED <<catalog, handle>> /\ ddl.hand # NoHand
        /\ \E held : store' = [store EXCEPT ![p] = held]
    BY <1>2, <2>1 DEF DeleteKey, SetKey
  <2>3. p \in Paths /\ Moved(p) /\ ddl.op = "rename"
    BY <2>1, <2>2, HandFacts
  <2>4. p[1] \notin calm
    BY <2>3, RenamesOthers
  <2>5. \A q \in Paths : q # p => store'[q] = store[q]
    BY <2>2, StorageFacts
  <2>6. QED
    BY <2>2, <2>4, <2>5
<1>3. CASE RenameSchemaKeys
  BY <1>3, RenameSchemaKeysOthers DEF RenameSchemaKeys, storage
<1>4. CASE DropSchemaKey
  BY <1>4, DropSchemaKeyOthers DEF DropSchemaKey, storage
<1>5. CASE RenameFolder
  BY <1>5, RenameFolderOthers DEF RenameFolder
<1>6. CASE RemoveFolder
  BY <1>6, RemoveFolderOthers DEF RemoveFolder
<1>7. QED
  BY <1>1, <1>2, <1>3, <1>4, <1>5, <1>6 DEF Moves

\* Renames and deletions change no calm row.
LEMMA MovesFit ==
  ASSUME StoresInv, CalmInv, FitInv, Moves
  PROVE  FitInv'
<1>1. /\ UNCHANGED <<ram, home, calm, late>>
      /\ ddl.op # "alter" /\ ddl'.op # "alter" /\ ddl'.rows = Empty
  BY MovesQuiet
<1>2. \A pk \in DOMAIN home : CalmRow(pk)' =>
        /\ catalog'.tables[home[pk]] = catalog.tables[home[pk]]
        /\ store'[HomePath(pk)] = store[HomePath(pk)]
  <2>1. \A pk \in DOMAIN home : CalmRow(pk) =>
          /\ home[pk] \in Tables /\ home[pk][1] \in calm /\ home[pk] \in DOMAIN catalog.tables
          /\ HomePath(pk) \in Paths /\ HomePath(pk)[1] \in calm
    BY HomeFacts, CalmTables DEF CalmRow
  <2>2. \A pk : CalmRow(pk)' <=> CalmRow(pk)
    BY <1>1 DEF CalmRow
  <2>3. QED
    BY <2>1, <2>2, MovesOthers
<1>3. QED
  BY <1>1, <1>2, FitQuiet

\* An alteration finds the calm rows on disk as they are there.
LEMMA ScanRowsFits ==
  ASSUME StoresInv, CalmInv, FitInv, ScanRows
  PROVE  FitInv'
<1>1. PICK p \in ddl.paths :
        ddl' = [ddl EXCEPT !.paths = ddl.paths \ {p}, !.path = p, !.rows = GetRows(p)]
  BY DEF ScanRows, Step
<1>2. /\ ddl.pc = "rows"
      /\ UNCHANGED <<catalog, store, handle, ram, home, calm, late>>
  BY DEF ScanRows, Step, buffers, storage
<1>3. /\ ddl.op = "alter" /\ DdlTypeOK /\ RowsFit
  BY <1>2, InvParts, PcOps
<1>4. p = Append(ddl.from, "data")
  BY <1>2, <1>3 DEF RowsFit
<1>5. p \in Paths /\ p[3] = "data"
  <2>1. p \in Paths /\ p = <<ddl.from[1], ddl.from[2], "data">>
    BY <1>3, <1>4, AlterFacts
  <2>2. QED
    BY <2>1
<1> DEFINE rows == GetRows(p)
<1>6. rows = GetRows(p)
  OBVIOUS
<1> HIDE DEF rows
<1>7. /\ ddl'.op = ddl.op /\ ddl'.from = ddl.from /\ ddl'.pc = ddl.pc /\ ddl'.alter = ddl.alter
      /\ ddl'.rows = rows
  BY <1>1, <1>3, <1>6 DEF DdlTypeOK
<1>8. \A pk : /\ HomeKey(pk)' = HomeKey(pk) /\ HomePath(pk)' = HomePath(pk)
              /\ (OnDisk(pk)' <=> OnDisk(pk)) /\ DiskRow(pk)' = DiskRow(pk)
              /\ (CalmRow(pk)' <=> CalmRow(pk))
              /\ (Altering(home[pk])' <=> Altering(home[pk]))
  BY <1>2, <1>7 DEF OnDisk, DiskRow, HomeKey, HomePath, CalmRow, Altering
<1>9. \A row : (Untouched(row)' <=> Untouched(row)) /\ AlteredRow(row)' = AlteredRow(row)
  BY <1>7 DEF Untouched, AlteredRow
<1>10. ASSUME NEW pk \in DOMAIN home', pk \notin late', CalmRow(pk)', OnDisk(pk)'
       PROVE  RowFits(pk, DiskRow(pk))'
  <2>1. pk \in DOMAIN home /\ pk \notin late /\ CalmRow(pk) /\ OnDisk(pk)
    BY <1>2, <1>8, <1>10
  <2>2. PICK row : row = DiskRow(pk)
    OBVIOUS
  <2>3. RowFits(pk, row) /\ row = DiskRow(pk)'
    BY <2>1, <2>2, <1>8, FitParts
  <2>4. CASE home[pk] = ddl.from
    <3>1. HomePath(pk) = p
      BY <2>4, <1>4 DEF HomePath
    <3>2. Altering(home[pk]) /\ ToAlter(pk)
      BY <2>4, <1>2, <1>3 DEF ToAlter, Altering
    <3>3. pk \in DOMAIN rows
      <4>1. PICK k : k = HomeKey(pk)
        OBVIOUS
      <4>2. k[1] = p[1] /\ k[2] = p[2] /\ k[3] = pk
        BY <4>1, <3>1, <2>1, HomeFacts
      <4>3. k \in DOMAIN store[p] /\ handle[p] = "open"
        BY <4>1, <3>1, <2>1, CalmOpen DEF OnDisk
      <4>4. k \in KeysIn(p)
        BY <4>2, <4>3 DEF KeysIn
      <4>5. DOMAIN rows = {j[3] : j \in KeysIn(p)}
        BY <1>6 DEF GetRows
      <4>6. QED
        BY <4>2, <4>4, <4>5
    <3>4. rows[pk] = row
      <4>1. rows[pk] = RowOf(HomeKey(pk))
        BY <3>3, <2>1, <1>5, <1>6, ScannedCalm
      <4>2. HomeKey(pk) \notin DOMAIN ram
        <5>1. HomeKey(pk)[3] = pk
          BY <2>1, HomeFacts
        <5>2. QED
          BY <5>1, <3>2, <2>1, FitParts
      <4>3. RowOf(HomeKey(pk)) = DiskRow(pk)
        BY <4>2, <2>1, CalmRowOf DEF OnDisk, DiskRow
      <4>4. QED
        BY <4>1, <4>3, <2>2
    <3>5. ToAlter(pk)'
      BY <3>2, <3>3, <1>2, <1>7, <1>8 DEF ToAlter
    <3>6. ~Untouched(row)' /\ catalog'.tables[home'[pk]] \subseteq AlteredRow(row)'
      BY <2>3, <3>2, <1>2, <1>9 DEF RowFits
    <3>7. QED
      BY <2>3, <3>4, <3>5, <3>6, <1>7 DEF RowFits
  <2>5. CASE home[pk] # ddl.from
    <3>1. ~ToAlter(pk) /\ ~ToAlter(pk)'
      BY <2>5, <1>8 DEF ToAlter, Altering
    <3>2. QED
      BY <2>3, <3>1, <1>2 DEF RowFits
  <2>6. QED
    BY <2>4, <2>5
<1>11. \A k \in DOMAIN ram' : CalmRow(k[3])' /\ k[3] \notin late' =>
         ~Altering(home[k[3]])' /\ catalog'.tables[home'[k[3]]] \subseteq ram'[k]
  BY <1>2, <1>8, FitParts
<1>12. \A pk \in DOMAIN ddl'.rows : CalmRow(pk)' => OnDisk(pk)'
  <2>1. \A pk \in DOMAIN rows : CalmRow(pk) => OnDisk(pk)
    BY <1>5, <1>6, ScannedCalm DEF OnDisk
  <2>2. QED
    BY <2>1, <1>7, <1>8
<1>13. QED
  BY <1>10, <1>11, <1>12, FitAgain

\* The row an alteration has come to is written back with the columns of the schema.
LEMMA AlterRowFits ==
  ASSUME StoresInv, CalmInv, FitInv, AlterRow
  PROVE  FitInv'
<1>1. PICK pk0 \in DOMAIN ddl.rows :
        /\ store' = IF Untouched(ddl.rows[pk0]) THEN store
                    ELSE [store EXCEPT ![ddl.path] =
                            Put(store[ddl.path], <<ddl.path[1], ddl.path[2], pk0>>,
                                Value(AlteredRow(ddl.rows[pk0])))]
        /\ ddl' = [ddl EXCEPT !.rows = Drop(ddl.rows, pk0)]
  BY DEF AlterRow, Step
<1>2. /\ ddl.pc = "rows"
      /\ UNCHANGED <<catalog, ram, home, calm, late>>
  BY DEF AlterRow, Step, buffers
<1>3. /\ ddl.op = "alter" /\ ddl.rows # Empty /\ ddl.paths = {}
      /\ ddl.path = Append(ddl.from, "data") /\ DdlTypeOK
  BY <1>2, InvParts, PcOps, EmptyMap DEF RowsFit
<1>4. PICK p : p = ddl.path
  OBVIOUS
<1>5. p \in Paths
  BY <1>3, <1>4, AlterFacts
<1> DEFINE rows == Drop(ddl.rows, pk0)
           key == <<p[1], p[2], pk0>>
           val == Value(AlteredRow(ddl.rows[pk0]))
           held == Put(store[p], key, val)
<1>6. /\ CalmRow(pk0) => p = HomePath(pk0) /\ key = HomeKey(pk0) /\ home[pk0] = ddl.from
      /\ key[3] = pk0 /\ val.set = AlteredRow(ddl.rows[pk0])
  BY <1>4, AlterKeepsId DEF Value
<1>7. /\ store' = IF Untouched(ddl.rows[pk0]) THEN store ELSE [store EXCEPT ![p] = held]
      /\ ddl' = [ddl EXCEPT !.rows = rows]
  BY <1>1, <1>4
<1>8. DOMAIN rows = DOMAIN ddl.rows \ {pk0} /\ \A pk \in DOMAIN rows : rows[pk] = ddl.rows[pk]
  BY DEF Drop, Restrict
<1> HIDE DEF rows, key, val
<1>9. /\ DOMAIN held = DOMAIN store[p] \cup {key} /\ held[key] = val
      /\ \A k \in DOMAIN store[p] : k # key => held[k] = store[p][k]
  BY DEF Put
<1> HIDE DEF held
<1>10. /\ ddl'.op = ddl.op /\ ddl'.from = ddl.from /\ ddl'.pc = ddl.pc /\ ddl'.alter = ddl.alter
       /\ ddl'.paths = ddl.paths /\ ddl'.rows = rows
  BY <1>3, <1>7 DEF DdlTypeOK
<1>11. \A pk : /\ HomeKey(pk)' = HomeKey(pk) /\ HomePath(pk)' = HomePath(pk)
               /\ (CalmRow(pk)' <=> CalmRow(pk))
               /\ (Altering(home[pk])' <=> Altering(home[pk]))
  BY <1>2, <1>10 DEF HomeKey, HomePath, CalmRow, Altering
<1>12. \A row : (Untouched(row)' <=> Untouched(row)) /\ AlteredRow(row)' = AlteredRow(row)
  BY <1>10 DEF Untouched, AlteredRow
<1>13. \A q \in Paths : \/ store'[q] = store[q]
                        \/ q = p /\ store'[q] = held
  BY <1>5, <1>7, StorageFacts
<1>14. ASSUME NEW pk \in DOMAIN home, pk # pk0
       PROVE  (OnDisk(pk)' <=> OnDisk(pk)) /\ (OnDisk(pk) => DiskRow(pk)' = DiskRow(pk))
  <2>1. HomePath(pk) \in Paths /\ HomeKey(pk) # key
    BY <1>6, <1>14, HomeFacts
  <2>2. CASE store'[HomePath(pk)] = store[HomePath(pk)]
    BY <2>2, <1>11 DEF OnDisk, DiskRow
  <2>3. CASE HomePath(pk) = p /\ store'[p] = held
    BY <2>1, <2>3, <1>9, <1>11 DEF OnDisk, DiskRow
  <2>4. QED
    BY <2>1, <2>2, <2>3, <1>13
<1>15. CalmRow(pk0) => OnDisk(pk0) /\ OnDisk(pk0)'
  <2>1. SUFFICES ASSUME CalmRow(pk0) PROVE OnDisk(pk0) /\ OnDisk(pk0)'
    OBVIOUS
  <2>2. OnDisk(pk0) /\ HomePath(pk0) = p
    BY <2>1, <1>6, FitParts
  <2>3. QED
    BY <2>2, <1>5, <1>9, <1>11, <1>13 DEF OnDisk
<1>16. ASSUME NEW pk \in DOMAIN home', pk \notin late', CalmRow(pk)', OnDisk(pk)'
       PROVE  RowFits(pk, DiskRow(pk))'
  <2>1. pk \in DOMAIN home /\ pk \notin late /\ CalmRow(pk)
    BY <1>2, <1>11, <1>16
  <2>2. OnDisk(pk)
    BY <2>1, <1>14, <1>15, <1>16
  <2>3. PICK row : row = DiskRow(pk)
    OBVIOUS
  <2>4. RowFits(pk, row)
    BY <2>1, <2>2, <2>3, FitParts
  <2>5. CASE pk # pk0
    <3>1. row = DiskRow(pk)'
      BY <2>1, <2>2, <2>3, <2>5, <1>14
    <3>2. /\ ToAlter(pk)' <=> ToAlter(pk)
          /\ pk \in DOMAIN rows <=> pk \in DOMAIN ddl.rows
          /\ pk \in DOMAIN rows => rows[pk] = ddl.rows[pk]
      BY <2>5, <1>8, <1>10, <1>11 DEF ToAlter
    <3>3. QED
      BY <2>4, <3>1, <3>2, <1>2, <1>10, <1>12 DEF RowFits
  <2>6. CASE pk = pk0
    <3>1. /\ p = HomePath(pk) /\ key = HomeKey(pk) /\ home[pk] = ddl.from
      BY <2>1, <2>6, <1>6
    <3>2. ToAlter(pk)
      BY <2>6, <3>1, <1>2, <1>3 DEF ToAlter, Altering
    <3>3. /\ ~Untouched(row) /\ catalog.tables[home[pk]] \subseteq AlteredRow(row)
          /\ ddl.rows[pk0] = row
      BY <2>4, <2>6, <3>2 DEF RowFits
    <3>4. store'[p] = held
      BY <3>3, <1>5, <1>7, StorageFacts
    <3>5. DiskRow(pk)' = val.set
      BY <3>1, <3>4, <1>9, <1>11 DEF DiskRow
    <3>6. ~ToAlter(pk)'
      BY <2>6, <1>3, <1>8, <1>10 DEF ToAlter
    <3>7. catalog'.tables[home'[pk]] \subseteq val.set
      BY <3>3, <1>2, <1>6
    <3>8. QED
      BY <3>5, <3>6, <3>7 DEF RowFits
  <2>7. QED
    BY <2>5, <2>6
<1>17. \A k \in DOMAIN ram' : CalmRow(k[3])' /\ k[3] \notin late' =>
         ~Altering(home[k[3]])' /\ catalog'.tables[home'[k[3]]] \subseteq ram'[k]
  BY <1>2, <1>11, FitParts
<1>18. \A pk \in DOMAIN ddl'.rows : CalmRow(pk)' => OnDisk(pk)'
  BY <1>8, <1>10, <1>11, <1>14, FitParts, RowKeys
<1>19. QED
  BY <1>16, <1>17, <1>18, FitAgain

\* Once its rows are through, an alteration or a refresh changes none.
LEMMA IndexStepsFit ==
  ASSUME StoresInv, CalmInv, FitInv,
         AlterIndex \/ RemoveIndexDir \/ RebuildIndex \/ RefereshDone \/ SetFullSchema
  PROVE  FitInv'
<1>1. UNCHANGED <<catalog, ram, home, calm, late>>
  BY DEF AlterIndex, RemoveIndexDir, RebuildIndex, RefereshDone, SetFullSchema, Step, buffers, history
<1>2. /\ ddl.pc = "rows" => ddl.paths = {}
      /\ ddl.rows = Empty
  BY InvParts DEF AlterIndex, RemoveIndexDir, RebuildIndex, RefereshDone, SetFullSchema, RowsFit
<1>3. DOMAIN ddl.rows = {}
  BY <1>2, EmptyMap
<1>4. ddl' = NoDdl \/ (ddl'.op = ddl.op /\ ddl'.from = ddl.from /\ ddl'.rows = ddl.rows /\ ddl'.pc # "rows")
  <2>1. DdlTypeOK
    BY InvParts
  <2>2. ASSUME NEW pc, NEW paths, NEW path, pc # "rows",
               \/ ddl' = [ddl EXCEPT !.pc = pc, !.paths = paths]
               \/ ddl' = [ddl EXCEPT !.pc = pc]
               \/ ddl' = [ddl EXCEPT !.pc = pc, !.path = path, !.paths = paths]
        PROVE  ddl'.op = ddl.op /\ ddl'.from = ddl.from /\ ddl'.rows = ddl.rows /\ ddl'.pc # "rows"
    BY <2>1, <2>2 DEF DdlTypeOK
  <2>3. CASE AlterIndex
    <3> DEFINE paths == {Append(ddl.from, "index")}
    <3>1. ddl' = [ddl EXCEPT !.pc = "unindex", !.paths = paths]
      BY <2>3 DEF AlterIndex, Step
    <3> HIDE DEF paths
    <3>2. QED
      BY <3>1, <2>2
  <2>4. CASE RemoveIndexDir
    <3>1. PICK p \in ddl.paths :
            ddl' = [ddl EXCEPT !.pc = "reindex", !.path = p, !.paths = ddl.paths \ {p}]
      BY <2>4 DEF RemoveIndexDir, Step
    <3> DEFINE paths == ddl.paths \ {p}
    <3>2. ddl' = [ddl EXCEPT !.pc = "reindex", !.path = p, !.paths = paths]
      BY <3>1
    <3> HIDE DEF paths
    <3>3. QED
      BY <3>2, <2>2
  <2>5. CASE RebuildIndex
    <3>1. \/ ddl' = NoDdl \/ ddl' = [ddl EXCEPT !.pc = "reload"]
          \/ ddl' = [ddl EXCEPT !.pc = "unindex"]
      BY <2>5 DEF RebuildIndex
    <3>2. QED
      BY <3>1, <2>2
  <2>6. CASE RefereshDone \/ SetFullSchema
    BY <2>6 DEF RefereshDone, SetFullSchema, Step
  <2>7. QED
    BY <2>3, <2>4, <2>5, <2>6
<1>5. \A pk : ~ToAlter(pk) /\ ~ToAlter(pk)'
  BY <1>2, <1>3, <1>4 DEF ToAlter, Altering, NoDdl
<1>6. \A t : Altering(t)' => Altering(t)
  BY <1>4 DEF Altering, NoDdl
<1>7. \A pk \in DOMAIN home : (OnDisk(pk)' <=> OnDisk(pk)) /\ DiskRow(pk)' = DiskRow(pk)
  <2>1. \A q \in Paths : q[3] = "data" => store'[q] = store[q]
    <3>1. CASE RemoveIndexDir
      <4>1. PICK p \in ddl.paths :
              store' = IF handle[p] = "open" THEN store ELSE [store EXCEPT ![p] = Empty]
        BY <3>1 DEF RemoveIndexDir
      <4>2. p \in Paths /\ p[3] = "index"
        BY <3>1, InvParts DEF RemoveIndexDir, RowsFit, DdlTypeOK
      <4>3. QED
        BY <4>1, <4>2, StorageFacts
    <3>2. CASE ~RemoveIndexDir
      BY <3>2 DEF AlterIndex, RebuildIndex, RefereshDone, SetFullSchema, storage
    <3>3. QED
      BY <3>1, <3>2
  <2>2. \A pk \in DOMAIN home : store'[HomePath(pk)] = store[HomePath(pk)]
    BY <2>1, HomeFacts
  <2>3. QED
    BY <2>2, <1>1 DEF OnDisk, DiskRow, HomeKey, HomePath
<1>8. DOMAIN ddl'.rows = {}
  BY <1>3, <1>4, EmptyMap DEF NoDdl
<1>9. QED
  BY <1>1, <1>5, <1>6, <1>7, <1>8, FitKept

\* After a restart the rows of a broken alteration are late.
LEMMA RestartFits ==
  ASSUME StoresInv, CalmInv, FitInv, Restarted
  PROVE  FitInv'
<1>1. /\ ddl' = NoDdl /\ ram' = Empty
      /\ store' = [p \in Paths |-> IF p \in present THEN store[p] ELSE Empty]
      /\ late' = IF ddl.op = "alter" THEN late \cup RowsOf(ddl.from) ELSE late
      /\ UNCHANGED <<catalog, home, calm>>
  BY DEF Restarted
<1>2. DOMAIN ram' = {} /\ DOMAIN ddl'.rows = {}
  BY <1>1, EmptyMap DEF NoDdl
<1>3. \A pk : ~ToAlter(pk)' /\ ~Altering(home[pk])'
  BY <1>1 DEF ToAlter, Altering, NoDdl
<1>4. \A pk \in DOMAIN home : pk \notin late' => ~ToAlter(pk)
  BY <1>1 DEF ToAlter, Altering, RowsOf
<1>5. ASSUME NEW pk \in DOMAIN home, OnDisk(pk)'
      PROVE  OnDisk(pk) /\ DiskRow(pk)' = DiskRow(pk)
  <2>1. PICK p : p = HomePath(pk)
    OBVIOUS
  <2>2. p \in Paths /\ p = HomePath(pk)' /\ HomeKey(pk)' = HomeKey(pk)
    BY <2>1, <1>1, HomeFacts DEF HomePath, HomeKey
  <2>3. store'[p] # Empty
    BY <2>2, <1>5, EmptyMap DEF OnDisk
  <2>4. store'[p] = store[p]
    BY <2>2, <2>3, <1>1
  <2>5. QED
    BY <2>1, <2>2, <2>4, <1>5 DEF OnDisk, DiskRow
<1>6. late \subseteq late'
  BY <1>1
<1>7. QED
  BY <1>1, <1>2, <1>3, <1>4, <1>5, <1>6, FitKept

\* FitInv holds at the start.
LEMMA FitInit ==
  ASSUME Init
  PROVE  FitInv
<1>1. home = Empty /\ ram = Empty /\ ddl.rows = Empty
  BY DEF Init, NoDdl
<1>2. QED
  BY <1>1, EmptyMap DEF FitInv, RamFits, DiskFits, RowsThere

\* Every step keeps FitInv.
LEMMA FitStep ==
  ASSUME StoresInv, CalmInv, FitInv, [Next]_vars
  PROVE  FitInv'
<1>1. CASE SchemaStep
  BY <1>1, MovesFit, ScanRowsFits, AlterRowFits, IndexStepsFit, RestartFits
     DEF SchemaStep, Moves, AlterRowPanics
<1>2. CASE SchemaRequest
  BY <1>2, PlainRequestsFit, AlterTableFits DEF SchemaRequest
<1>3. CASE UNCHANGED vars
  <2>1. UNCHANGED <<catalog, store, ram, ddl, home, calm, late>>
    BY <1>3 DEF vars, buffers, history, storage
  <2>2. \A pk : /\ (OnDisk(pk)' <=> OnDisk(pk)) /\ DiskRow(pk)' = DiskRow(pk)
                /\ (CalmRow(pk)' <=> CalmRow(pk)) /\ (ToAlter(pk)' <=> ToAlter(pk))
                /\ (Altering(home[pk])' <=> Altering(home[pk]))
    BY <2>1 DEF OnDisk, DiskRow, HomeKey, HomePath, CalmRow, ToAlter, Altering
  <2>3. \A pk \in DOMAIN ddl'.rows : CalmRow(pk)' => OnDisk(pk)'
    BY <2>1, <2>2, FitParts
  <2>4. QED
    BY <2>1, <2>2, <2>3, FitKept
<1>4. QED
  BY <1>1, <1>2, <1>3, RowStepFits, RestartFits DEF Next, Crash

\* Of those rows, the ones no AlterTable came upon in RAM have the columns of the schema in RAM,
\* and on disk as soon as alterData (data.go) has come to them: a row is written back with the
\* new columns as it was scanned, for neither a save nor a flush comes in between.
THEOREM CalmRowsFit == StoresSpec => []FitInv
<1>1. Init => FitInv
  BY FitInit
<1>2. FitInv /\ CalmInv /\ StoresInv /\ [Next]_vars => FitInv'
  BY FitStep
<1>3. QED
  BY <1>1, <1>2, StoresInvariant, CalmRowsStay, PTL DEF StoresSpec

\* After an AlterTable (data.go, schema.go), what a read finds of a row on disk has every column
\* of the table's schema.
THEOREM AlteredFit == StoresSpec => []AlteredRowsFit
<1>1. StoresInv /\ CalmInv /\ FitInv => AlteredRowsFit
  <2>1. SUFFICES ASSUME StoresInv, CalmInv, FitInv, NEW pk \in expected, pk \notin late, pk \notin RowsInRam,
                        home[pk][1] \in calm, ~Altering(home[pk])
                 PROVE  catalog.tables[home[pk]] \subseteq RowOf(HomeKey(pk))
    BY DEF AlteredRowsFit, HomeKey
  <2>2. pk \in DOMAIN home /\ CalmRow(pk) /\ pk \notin late
    BY <2>1, RowKeys DEF CalmRow
  <2>3. HomeKey(pk) \notin DOMAIN ram
    <3>1. PICK k : k = HomeKey(pk)
      OBVIOUS
    <3>2. k[3] = pk
      BY <3>1, <2>1, <2>2, HomeFacts
    <3>3. QED
      BY <3>1, <3>2, <2>1 DEF RowsInRam
  <2>4. OnDisk(pk)
    BY <2>1, <2>2, <2>3, CalmParts DEF CalmExpected, OnDisk
  <2>5. RowOf(HomeKey(pk)) = DiskRow(pk)
    BY <2>1, <2>2, <2>3, <2>4, CalmRowOf DEF OnDisk, DiskRow
  <2>6. RowFits(pk, DiskRow(pk))
    BY <2>1, <2>2, <2>4, FitParts
  <2>7. QED
    BY <2>1, <2>5, <2>6 DEF RowFits, ToAlter
<1>2. QED
  BY <1>1, StoresInvariant, CalmRowsStay, CalmRowsFit, PTL

-----------------------------------------------------------------------------
(* The index entries of calm rows.                                         *)

IndexPath(pk) == Append(home[pk], "index")

\* Where a row's index entries are.
LEMMA IndexPlace ==
  ASSUME StoresInv, NEW pk \in DOMAIN home
  PROVE  /\ IndexPath(pk) \in Paths /\ IndexPath(pk)[1] = home[pk][1] /\ IndexPath(pk)[3] = "index"
         /\ IndexPath(pk) = <<home[pk][1], home[pk][2], "index">>
         /\ \A c : Append(home[pk], c) = <<home[pk][1], home[pk][2], c>>
<1>1. home[pk] \in Tables
  BY HomeFacts
<1>2. QED
  BY <1>1, TablePaths, AppendedIs DEF IndexPath

\* EntriesInv, row by row.
LEMMA EntriesParts ==
  ASSUME StoresInv, EntriesInv, NEW pk \in indexed, pk \notin late, CalmRow(pk)
  PROVE  /\ pk \in DOMAIN home
         /\ HomeKey(pk) \in DOMAIN ram => \A c \in ram[HomeKey(pk)] : Entry(home[pk], c, pk)
         /\ OnDisk(pk) /\ ~Reindexing(home[pk]) =>
              \A c \in DiskRow(pk) : Entry(home[pk], c, pk)
BY RowKeys DEF EntriesInv, OnDisk, DiskRow

\* Entries that are kept serve the rows that are.
LEMMA EntriesKept ==
  ASSUME StoresInv, EntriesInv, UNCHANGED home, calm' \subseteq calm, late \subseteq late',
         indexed' \subseteq indexed,
         \A k \in DOMAIN ram' : k \in DOMAIN ram /\ ram'[k] = ram[k],
         \A pk \in DOMAIN home : CalmRow(pk) /\ OnDisk(pk)' /\ ~Reindexing(home[pk])' =>
           OnDisk(pk) /\ DiskRow(pk)' = DiskRow(pk) /\ ~Reindexing(home[pk]),
         \A pk \in DOMAIN home : CalmRow(pk) /\ pk \in indexed' =>
           \A c : Entry(home[pk], c, pk) => Entry(home[pk], c, pk)'
  PROVE  EntriesInv'
<1>1. SUFFICES ASSUME NEW pk \in indexed', pk \notin late', CalmRow(pk)'
               PROVE  /\ HomeKey(pk)' \in DOMAIN ram' =>
                           \A c \in ram'[HomeKey(pk)'] : Entry(home[pk], c, pk)'
                      /\ OnDisk(pk)' /\ ~Reindexing(home[pk])' =>
                           \A c \in DiskRow(pk)' : Entry(home[pk], c, pk)'
  BY DEF EntriesInv, OnDisk, DiskRow
<1>2. CalmRow(pk) /\ HomeKey(pk)' = HomeKey(pk) /\ pk \in indexed /\ pk \notin late
  BY <1>1 DEF CalmRow, HomeKey
<1>3. /\ pk \in DOMAIN home
      /\ HomeKey(pk) \in DOMAIN ram => \A c \in ram[HomeKey(pk)] : Entry(home[pk], c, pk)
      /\ OnDisk(pk) /\ ~Reindexing(home[pk]) => \A c \in DiskRow(pk) : Entry(home[pk], c, pk)
  BY <1>2, EntriesParts
<1>4. \A c : Entry(home[pk], c, pk) => Entry(home[pk], c, pk)'
  BY <1>1, <1>2, <1>3
<1>5. QED
  BY <1>2, <1>3, <1>4

\* Buffers that only grow and an index store left alone keep a row's entries.
LEMMA EntryStays ==
  ASSUME StoresInv, NEW pk \in DOMAIN home, UNCHANGED home,
         \A k \in DOMAIN ibuf : k \in DOMAIN ibuf' /\ ibuf[k] \subseteq ibuf'[k],
         store'[IndexPath(pk)] = store[IndexPath(pk)]
  PROVE  \A c : Entry(home[pk], c, pk) => Entry(home[pk], c, pk)'
BY DEF Entry, IndexPath

\* A step that leaves rows in RAM, entries and the stores of calm databases alone.
LEMMA EntriesQuiet ==
  ASSUME StoresInv, EntriesInv, UNCHANGED <<ram, ibuf, home, indexed>>,
         calm' \subseteq calm, late \subseteq late',
         \A p \in Paths : p[1] \in calm => store'[p] = store[p],
         \A t : Reindexing(t) => Reindexing(t)'
  PROVE  EntriesInv'
<1>1. \A pk \in DOMAIN home : CalmRow(pk) =>
        /\ store'[HomePath(pk)] = store[HomePath(pk)]
        /\ store'[IndexPath(pk)] = store[IndexPath(pk)]
  <2>1. \A pk \in DOMAIN home : CalmRow(pk) =>
          /\ HomePath(pk) \in Paths /\ HomePath(pk)[1] \in calm
          /\ IndexPath(pk) \in Paths /\ IndexPath(pk)[1] \in calm
    BY HomeFacts, IndexPlace DEF CalmRow
  <2>2. QED
    BY <2>1
<1>2. \A pk \in DOMAIN home : CalmRow(pk) =>
        /\ (OnDisk(pk)' <=> OnDisk(pk)) /\ DiskRow(pk)' = DiskRow(pk)
        /\ Reindexing(home[pk]) => Reindexing(home[pk])'
  BY <1>1 DEF OnDisk, DiskRow, HomeKey, HomePath
<1>3. \A pk \in DOMAIN home : CalmRow(pk) => \A c : Entry(home[pk], c, pk) => Entry(home[pk], c, pk)'
  BY <1>1, EntryStays
<1>4. QED
  BY <1>2, <1>3, EntriesKept

\* Schema requests start with nothing.
LEMMA RequestsEntries ==
  ASSUME StoresInv, EntriesInv, SchemaRequest
  PROVE  EntriesInv'
<1>1. /\ ddl.pc = "idle" /\ UNCHANGED <<storage, buffers, home, indexed>>
      /\ calm' \subseteq calm /\ late \subseteq late'
  <2>1. ASSUME NEW db \in Dbs, NEW table \in Tabs, NEW a \in Alterations, AlterTable(db, table, a)
        PROVE  /\ ddl.pc = "idle" /\ UNCHANGED <<storage, buffers, home, indexed>>
               /\ calm' \subseteq calm /\ late \subseteq late'
    BY <2>1 DEF AlterTable, Requested
  <2>2. CASE RefereshIndex
    BY <2>2 DEF RefereshIndex, Requested
  <2>3. ASSUME NEW from, NEW to, Rename(from, to)
        PROVE  /\ ddl.pc = "idle" /\ UNCHANGED <<storage, buffers, home, indexed>>
               /\ calm' \subseteq calm /\ late \subseteq late'
    BY <2>3 DEF Rename, Requested
  <2>4. ASSUME NEW from, Delete(from)
        PROVE  /\ ddl.pc = "idle" /\ UNCHANGED <<storage, buffers, home, indexed>>
               /\ calm' \subseteq calm /\ late \subseteq late'
    BY <2>4 DEF Delete, Requested
  <2>5. ASSUME NEW db \in Dbs, NEW table \in Tabs,
               CreateDatabase(db) \/ CreateTable(db, table, FirstCols)
        PROVE  /\ ddl.pc = "idle" /\ UNCHANGED <<storage, buffers, home, indexed>>
               /\ calm' \subseteq calm /\ late \subseteq late'
    BY <2>5 DEF CreateDatabase, CreateTable, Requested
  <2>6. FirstTable \in Tabs
    BY TableStoresConstants
  <2>7. QED
    BY <2>1, <2>2, <2>3, <2>4, <2>5, <2>6
       DEF SchemaRequest, RenameTable, RenameDatabase, DeleteTable, DeleteDatabase
<1>2. ddl.op # "alter"
  BY <1>1, InvParts DEF OpFits
<1>3. \A t : ~Reindexing(t)
  BY <1>2 DEF Reindexing, Altering
<1>4. UNCHANGED <<ram, ibuf, store>>
  BY <1>1 DEF storage, buffers
<1>5. QED
  BY <1>1, <1>3, <1>4, EntriesQuiet

\* Renames and deletions leave calm databases' stores alone.
LEMMA MovesEntries ==
  ASSUME StoresInv, CalmInv, EntriesInv, Moves
  PROVE  EntriesInv'
<1>1. /\ UNCHANGED <<ram, ibuf, home, calm, late, indexed>> /\ ddl.op # "alter"
  BY MovesQuiet
<1>2. \A t : ~Reindexing(t)
  BY <1>1 DEF Reindexing, Altering
<1>3. QED
  BY <1>1, <1>2, MovesOthers, EntriesQuiet

\* SaveIndex buffers an entry for each column and drops none.
LEMMA IndexedFacts ==
  ASSUME NEW db, NEW table, NEW pk, NEW cols
  PROVE  LET new == Indexed(ibuf, <<db, table, pk>>, cols)
         IN  /\ \A k \in DOMAIN ibuf : k \in DOMAIN new /\ ibuf[k] \subseteq new[k]
             /\ \A c \in cols : <<db, table, c>> \in DOMAIN new /\ pk \in new[<<db, table, c>>]
<1> DEFINE key == <<db, table, pk>>
           D == DOMAIN ibuf \cup {<<key[1], key[2], c>> : c \in cols}
           val(k) == (IF k \in DOMAIN ibuf THEN ibuf[k] ELSE {})
                     \cup (IF k[1] = key[1] /\ k[2] = key[2] /\ k[3] \in cols THEN {key[3]} ELSE {})
<1>1. Indexed(ibuf, key, cols) = [k \in D |-> val(k)]
  BY DEF Indexed
<1>2. \A k \in DOMAIN ibuf : k \in D /\ ibuf[k] \subseteq val(k)
  OBVIOUS
<1>3. \A c \in cols : <<db, table, c>> \in D /\ pk \in val(<<db, table, c>>)
  OBVIOUS
<1> HIDE DEF D, val
<1>4. QED
  BY <1>1, <1>2, <1>3

\* A save buffers the entries of all columns it writes.
LEMMA SaveEntries ==
  ASSUME StoresInv, EntriesInv,
         NEW db \in Dbs, NEW table \in Tabs, NEW pk \in Pks, Save(db, table, pk),
         \A q \in DOMAIN home : home'[q] = home[q],
         indexed' \subseteq indexed \cup {pk}, pk \in DOMAIN home => indexed' = indexed,
         CalmRow(pk)' => home'[pk] = <<db, table>>
  PROVE  EntriesInv'
<1> DEFINE key == <<db, table, pk>>
           t == <<db, table>>
           cols == cache.tables[t]
<1>1. /\ t \in Tables /\ t[1] = db /\ t[2] = table
      /\ ram' = Put(ram, key, cols) /\ ibuf' = Indexed(ibuf, key, cols)
      /\ late \subseteq late'
      /\ UNCHANGED <<store, ddl, calm>>
  BY DEF Save, Tables, storage
<1>2. key[3] = pk /\ key = <<t[1], t[2], pk>>
  OBVIOUS
<1>3. /\ \A k \in DOMAIN ibuf : k \in DOMAIN ibuf' /\ ibuf[k] \subseteq ibuf'[k]
      /\ \A c \in cols : <<db, table, c>> \in DOMAIN ibuf' /\ pk \in ibuf'[<<db, table, c>>]
  <2> HIDE DEF cols
  <2>1. QED
    BY <1>1, IndexedFacts
<1>4. \A c \in cols : Append(t, c) \in DOMAIN ibuf' /\ pk \in ibuf'[Append(t, c)]
  <2>1. \A c : Append(t, c) = <<db, table, c>>
    BY <1>1, AppendedIs
  <2>2. QED
    BY <2>1, <1>3
<1> HIDE DEF key, t, cols
<1>5. /\ ram'[key] = cols
      /\ \A k \in DOMAIN ram' : k # key => k \in DOMAIN ram /\ ram'[k] = ram[k]
  BY <1>1 DEF Put
<1>6. ASSUME NEW q \in indexed', q \notin late', CalmRow(q)'
      PROVE  /\ HomeKey(q)' \in DOMAIN ram' =>
                  \A c \in ram'[HomeKey(q)'] : Entry(home[q], c, q)'
             /\ OnDisk(q)' /\ ~Reindexing(home[q])' =>
                  \A c \in DiskRow(q)' : Entry(home[q], c, q)'
  <2>1. CASE q \in DOMAIN home
    <3>1. q \in indexed /\ q \notin late /\ CalmRow(q) /\ home'[q] = home[q]
      BY <2>1, <1>1, <1>6 DEF CalmRow
    <3>2. HomeKey(q)' = HomeKey(q) /\ HomePath(q)' = HomePath(q) /\ IndexPath(q)' = IndexPath(q)
      BY <3>1 DEF HomeKey, HomePath, IndexPath
    <3>3. OnDisk(q)' => OnDisk(q) /\ DiskRow(q)' = DiskRow(q)
      BY <3>2, <1>1 DEF OnDisk, DiskRow
    <3>4. Reindexing(home[q])' <=> Reindexing(home[q])
      BY <3>1, <1>1 DEF Reindexing, Altering
    <3>5. \A c : Entry(home[q], c, q) => Entry(home[q], c, q)'
      BY <3>1, <1>1, <1>3 DEF Entry
    <3>6. /\ HomeKey(q) \in DOMAIN ram => \A c \in ram[HomeKey(q)] : Entry(home[q], c, q)
          /\ OnDisk(q) /\ ~Reindexing(home[q]) => \A c \in DiskRow(q) : Entry(home[q], c, q)
      BY <3>1, EntriesParts
    <3>7. CASE HomeKey(q)' = key
      <4>1. q = pk
        <5>1. HomeKey(q)[3] = q
          BY <2>1, HomeFacts
        <5>2. QED
          BY <5>1, <3>2, <3>7, <1>2
      <4>2. home'[q] = t
        BY <4>1, <1>6 DEF t
      <4>3. \A c \in cols : Entry(home[q], c, q)'
        BY <4>1, <4>2, <1>4 DEF Entry
      <4>4. QED
        BY <4>3, <3>3, <3>4, <3>5, <3>6, <3>7, <1>5
    <3>8. CASE HomeKey(q)' # key
      BY <3>2, <3>3, <3>4, <3>5, <3>6, <3>8, <1>5
    <3>9. QED
      BY <3>7, <3>8
  <2>2. CASE q \notin DOMAIN home
    <3>1. q = pk
      BY <2>2, <1>6, RowKeys
    <3>2. home'[q] = t
      BY <3>1, <1>6 DEF t
    <3>3. HomeKey(q)' = key
      BY <3>1, <3>2, <1>1, <1>2, AppendedIs DEF HomeKey
    <3>4. \A c \in cols : Entry(home[q], c, q)'
      BY <3>1, <3>2, <1>4 DEF Entry
    <3>5. ~OnDisk(q)'
      BY <2>2, <3>2, <1>1, SavedBefore
    <3>6. QED
      BY <3>3, <3>4, <3>5, <1>5
  <2>3. QED
    BY <2>1, <2>2
<1>7. QED
  BY <1>6 DEF EntriesInv, OnDisk, DiskRow

\* Insert and Update keep EntriesInv.
LEMMA SavesEntries ==
  ASSUME StoresInv, CalmInv, EntriesInv, NEW db \in Dbs, NEW table \in Tabs, NEW pk \in Pks,
         Insert(db, table, pk) \/ Update(db, table, pk)
  PROVE  EntriesInv'
<1> DEFINE t == <<db, table>>
<1>1. CASE Insert(db, table, pk)
  <2>1. /\ pk \notin DOMAIN home /\ Save(db, table, pk) /\ home' = Put(home, pk, t)
        /\ indexed' = indexed \cup {pk}
    BY <1>1 DEF Insert
  <2> HIDE DEF t
  <2>2. home'[pk] = t /\ \A q \in DOMAIN home : home'[q] = home[q]
    BY <2>1 DEF Put
  <2>3. QED
    BY <2>1, <2>2, SaveEntries DEF t
<1>2. CASE Update(db, table, pk)
  <2>1. /\ RowOf(<<db, table, pk>>) # {} /\ Save(db, table, pk) /\ UNCHANGED <<home, indexed>>
        /\ t \in Tables /\ t[1] = db /\ t[2] = table
    BY <1>2 DEF Update, Tables
  <2> HIDE DEF t
  <2>2. pk \in DOMAIN home
    BY <2>1, ReadRowsInserted DEF StoresInv
  <2>3. calm' = calm
    BY <2>1 DEF Save
  <2>4. CalmRow(pk)' => home'[pk] = t
    BY <2>1, <2>3, ReadAtHome DEF CalmRow
  <2>5. QED
    BY <2>1, <2>2, <2>4, SaveEntries DEF t
<1>3. QED
  BY <1>1, <1>2

\* A row flushed takes its entries along.
LEMMA FlushRowEntries ==
  ASSUME StoresInv, CalmInv, EntriesInv, NEW key \in DOMAIN ram, FlushRow(key)
  PROVE  EntriesInv'
<1> DEFINE p == <<key[1], key[2], "data">>
           held == Put(store[p], key, Value(ram[key]))
<1>1. /\ store' = [store EXCEPT ![p] = held] /\ ram' = Drop(ram, key)
      /\ UNCHANGED <<ibuf, ddl, home, calm, late, indexed>>
  BY DEF FlushRow, history
<1>2. key \in Dbs \X Tabs \X DOMAIN home
  BY RowKeys
<1>3. p \in Paths /\ p[3] = "data"
  BY <1>2, KeyPath
<1> HIDE DEF p
<1>4. /\ DOMAIN held = DOMAIN store[p] \cup {key} /\ held[key].set = ram[key]
      /\ \A k \in DOMAIN store[p] : k # key => held[k] = store[p][k]
  BY DEF Put, Value
<1>5. DOMAIN ram' = DOMAIN ram \ {key} /\ \A k \in DOMAIN ram' : ram'[k] = ram[k]
  BY <1>1 DEF Drop, Restrict
<1> HIDE DEF held
<1>6. store'[p] = held /\ \A q \in Paths : q # p => store'[q] = store[q]
  BY <1>1, <1>3, StorageFacts
<1>7. ASSUME NEW pk \in indexed', pk \notin late', CalmRow(pk)'
      PROVE  /\ HomeKey(pk)' \in DOMAIN ram' =>
                  \A c \in ram'[HomeKey(pk)'] : Entry(home[pk], c, pk)'
             /\ OnDisk(pk)' /\ ~Reindexing(home[pk])' =>
                  \A c \in DiskRow(pk)' : Entry(home[pk], c, pk)'
  <2>1. /\ pk \in indexed /\ pk \notin late /\ CalmRow(pk) /\ pk \in DOMAIN home
        /\ HomeKey(pk)' = HomeKey(pk) /\ HomePath(pk)' = HomePath(pk)
        /\ Reindexing(home[pk])' <=> Reindexing(home[pk])
    BY <1>1, <1>7, RowKeys DEF CalmRow, HomeKey, HomePath, Reindexing, Altering
  <2>2. /\ HomeKey(pk) \in DOMAIN ram => \A c \in ram[HomeKey(pk)] : Entry(home[pk], c, pk)
        /\ OnDisk(pk) /\ ~Reindexing(home[pk]) => \A c \in DiskRow(pk) : Entry(home[pk], c, pk)
    BY <2>1, EntriesParts
  <2>3. \A c : Entry(home[pk], c, pk) => Entry(home[pk], c, pk)'
    <3>1. IndexPath(pk) \in Paths /\ IndexPath(pk) # p
      BY <2>1, <1>3, IndexPlace
    <3>2. store'[IndexPath(pk)] = store[IndexPath(pk)]
      BY <3>1, <1>6
    <3>3. QED
      BY <3>2, <2>1, <1>1, EntryStays
  <2>4. HomePath(pk) \in Paths
    BY <2>1, HomeFacts
  <2>5. OnDisk(pk)' => \/ OnDisk(pk) /\ DiskRow(pk)' = DiskRow(pk)
                       \/ HomeKey(pk) = key /\ DiskRow(pk)' = ram[key]
    <3>1. CASE HomePath(pk) = p
      BY <3>1, <2>1, <1>4, <1>6 DEF OnDisk, DiskRow
    <3>2. CASE HomePath(pk) # p
      BY <3>2, <2>1, <2>4, <1>6 DEF OnDisk, DiskRow
    <3>3. QED
      BY <3>1, <3>2
  <2>6. QED
    BY <2>1, <2>2, <2>3, <2>5, <1>5
<1>8. QED
  BY <1>7 DEF EntriesInv, OnDisk, DiskRow

\* An index entry's flush brings it to disk, in a store of a calm database.
LEMMA FlushIndexEntries ==
  ASSUME StoresInv, CalmInv, EntriesInv, NEW key \in DOMAIN ibuf, FlushIndex(key)
  PROVE  EntriesInv'
<1>1. PICK p : p = <<key[1], key[2], "index">>
  OBVIOUS
<1>2. PICK old : old = IF key \in DOMAIN store[p] /\ store[p][key].enc = 0 THEN store[p][key].set ELSE {}
  OBVIOUS
<1> DEFINE held == Put(store[p], key, Value(old \cup ibuf[key]))
<1>3. /\ store' = IF Usable(p) /\ ~(ibuf[key] \subseteq old)
                    THEN [store EXCEPT ![p] = held] ELSE store
      /\ ibuf' = Drop(ibuf, key)
      /\ UNCHANGED <<ram, ddl, home, calm, late, indexed>>
  BY <1>1, <1>2 DEF FlushIndex, history
<1>4. key \in Dbs \X Tabs \X Cols
  BY StorageFacts DEF IsMap
<1>5. p \in Paths /\ p[3] = "index" /\ p[1] = key[1]
  BY <1>1, <1>4, KeyPath
<1>6. DOMAIN ibuf' = DOMAIN ibuf \ {key} /\ \A k \in DOMAIN ibuf' : ibuf'[k] = ibuf[k]
  BY <1>3 DEF Drop, Restrict
<1>7. /\ DOMAIN held = DOMAIN store[p] \cup {key} /\ held[key].set = old \cup ibuf[key]
      /\ \A k \in DOMAIN store[p] : k # key => held[k] = store[p][k]
  BY DEF Put, Value
<1> HIDE DEF held
<1>8. \A q \in Paths : \/ store'[q] = store[q]
                       \/ q = p /\ store'[q] = held
  BY <1>3, <1>5, StorageFacts
<1>9. \A pk \in DOMAIN home : OnDisk(pk)' => OnDisk(pk) /\ DiskRow(pk)' = DiskRow(pk)
  <2>1. \A pk \in DOMAIN home : HomePath(pk) \in Paths /\ HomePath(pk) # p
    BY <1>5, HomeFacts
  <2>2. \A pk \in DOMAIN home : store'[HomePath(pk)] = store[HomePath(pk)]
    BY <2>1, <1>8
  <2>3. QED
    BY <2>2, <1>3 DEF OnDisk, DiskRow, HomeKey, HomePath
<1>10. \A t : Reindexing(t)' <=> Reindexing(t)
  BY <1>3 DEF Reindexing, Altering
<1>11. ASSUME NEW pk \in DOMAIN home, CalmRow(pk), NEW c, Entry(home[pk], c, pk)
       PROVE  Entry(home[pk], c, pk)'
  <2>1. PICK k : k = Append(home[pk], c)
    OBVIOUS
  <2>2. PICK q : q = IndexPath(pk)
    OBVIOUS
  <2>3. \/ k \in DOMAIN ibuf /\ pk \in ibuf[k]
        \/ k \in DOMAIN store[q] /\ pk \in store[q][k].set
    BY <2>1, <2>2, <1>11 DEF Entry, IndexPath
  <2>4. SUFFICES \/ k \in DOMAIN ibuf' /\ pk \in ibuf'[k]
                 \/ k \in DOMAIN store'[q] /\ pk \in store'[q][k].set
    BY <2>1, <2>2, <1>3 DEF Entry, IndexPath
  <2>5. q \in Paths /\ q = <<home[pk][1], home[pk][2], "index">> /\ q[1] \in calm
        /\ k = <<home[pk][1], home[pk][2], c>>
    BY <2>1, <2>2, <1>11, IndexPlace DEF CalmRow
  <2>6. CASE k # key
    <3>1. k \in DOMAIN store[q] => k \in DOMAIN store'[q] /\ store'[q][k] = store[q][k]
      BY <2>5, <2>6, <1>7, <1>8
    <3>2. QED
      BY <2>3, <2>6, <3>1, <1>6
  <2>7. CASE k = key
    <3>1. q = p
      BY <2>5, <2>7, <1>1
    <3>2. Usable(p) /\ (key \in DOMAIN store[p] => old = store[p][key].set)
      <4>1. /\ p[1] \in calm => handle[p] # "closed"
            /\ p[1] \in calm /\ p[3] = "index" => \A j \in DOMAIN store[p] : store[p][j].enc = 0
        BY <1>5, CalmParts DEF CalmStore
      <4>2. QED
        BY <4>1, <3>1, <2>5, <1>2, <1>5 DEF Usable
    <3>3. pk \in old \cup ibuf[key]
      BY <2>3, <2>7, <3>1, <3>2
    <3>4. CASE ibuf[key] \subseteq old
      <4>1. key \in DOMAIN store[p] /\ pk \in store[p][key].set
        BY <3>3, <3>4, <1>2
      <4>2. store' = store
        BY <3>4, <1>3
      <4>3. QED
        BY <4>1, <4>2, <2>7, <3>1
    <3>5. CASE ~(ibuf[key] \subseteq old)
      <4>1. store'[p] = held
        BY <3>2, <3>5, <1>3, <1>5, StorageFacts
      <4>2. QED
        BY <4>1, <2>7, <3>1, <3>3, <1>7
    <3>6. QED
      BY <3>4, <3>5
  <2>8. QED
    BY <2>6, <2>7
<1>12. \A k \in DOMAIN ram' : k \in DOMAIN ram /\ ram'[k] = ram[k]
  BY <1>3
<1>13. QED
  BY <1>3, <1>9, <1>10, <1>11, <1>12, EntriesKept

\* Requests on rows and flushes keep EntriesInv.
LEMMA RowStepEntries ==
  ASSUME StoresInv, CalmInv, EntriesInv, RowStep
  PROVE  EntriesInv'
<1>1. ASSUME NEW db \in Dbs, NEW table \in Tabs, GetData(db, table) PROVE EntriesInv'
  <2>1. UNCHANGED <<store, ram, ibuf, ddl, home, calm, late, indexed>>
    BY <1>1 DEF GetData, buffers, history
  <2>2. \A t : Reindexing(t)' <=> Reindexing(t)
    BY <2>1 DEF Reindexing, Altering
  <2>3. QED
    BY <2>1, <2>2, EntriesQuiet
<1>2. QED
  BY <1>1, SavesEntries, FlushRowEntries, FlushIndexEntries DEF RowStep

\* What an alteration does before it rebuilds an index, and when all is done.
LEMMA PlainStepsEntries ==
  ASSUME StoresInv, CalmInv, EntriesInv,
         ScanRows \/ AlterIndex \/ RemoveIndexDir \/ RefereshDone \/ SetFullSchema
  PROVE  EntriesInv'
<1>1. UNCHANGED <<ram, ibuf, home, calm, late, indexed>>
  BY DEF ScanRows, AlterIndex, RemoveIndexDir, RefereshDone, SetFullSchema, Step, buffers, history
<1>2. \A p \in Paths : p[1] \in calm => store'[p] = store[p]
  <2>1. CASE RemoveIndexDir
    <3>1. PICK p \in ddl.paths :
            store' = IF handle[p] = "open" THEN store ELSE [store EXCEPT ![p] = Empty]
      BY <2>1 DEF RemoveIndexDir
    <3>2. p \in Paths
      BY <2>1, InvParts DEF DdlTypeOK
    <3>3. p[1] \in calm /\ handle[p] # "open" => store[p] = Empty
      BY <3>2, CalmParts, InvParts DEF CalmStore, StoresOnDisk
    <3>4. QED
      BY <3>1, <3>2, <3>3, StorageFacts
  <2>2. CASE ~RemoveIndexDir
    BY <2>2 DEF ScanRows, AlterIndex, RefereshDone, SetFullSchema, storage
  <2>3. QED
    BY <2>1, <2>2
<1>3. \A t : Reindexing(t) => Reindexing(t)'
  <2>1. DdlTypeOK
    BY InvParts
  <2>2. ASSUME NEW paths, NEW path, NEW rows,
               \/ ddl' = [ddl EXCEPT !.paths = paths, !.path = path, !.rows = rows]
               \/ ddl' = [ddl EXCEPT !.pc = "unindex", !.paths = paths]
               \/ ddl' = [ddl EXCEPT !.pc = "reindex", !.path = path, !.paths = paths]
        PROVE  \A t : Reindexing(t) => Reindexing(t)'
    BY <2>1, <2>2 DEF DdlTypeOK, Reindexing, Altering
  <2>3. CASE ScanRows
    <3>1. PICK p \in ddl.paths :
            ddl' = [ddl EXCEPT !.paths = ddl.paths \ {p}, !.path = p, !.rows = GetRows(p)]
      BY <2>3 DEF ScanRows, Step
    <3> DEFINE paths == ddl.paths \ {p}
               rows == GetRows(p)
    <3>2. ddl' = [ddl EXCEPT !.paths = paths, !.path = p, !.rows = rows]
      BY <3>1
    <3> HIDE DEF paths, rows
    <3>3. QED
      BY <3>2, <2>2
  <2>4. CASE AlterIndex
    <3> DEFINE paths == {Append(ddl.from, "index")}
    <3>1. ddl' = [ddl EXCEPT !.pc = "unindex", !.paths = paths]
      BY <2>4 DEF AlterIndex, Step
    <3> HIDE DEF paths
    <3>2. QED
      BY <3>1, <2>2
  <2>5. CASE RemoveIndexDir
    <3>1. PICK p \in ddl.paths :
            ddl' = [ddl EXCEPT !.pc = "reindex", !.path = p, !.paths = ddl.paths \ {p}]
      BY <2>5 DEF RemoveIndexDir, Step
    <3> DEFINE paths == ddl.paths \ {p}
    <3>2. ddl' = [ddl EXCEPT !.pc = "reindex", !.path = p, !.paths = paths]
      BY <3>1
    <3> HIDE DEF paths
    <3>3. QED
      BY <3>2, <2>2
  <2>6. CASE RefereshDone
    <3>1. ddl.op = "refresh"
      BY <2>6, InvParts, PcOps DEF RefereshDone, RowsFit
    <3>2. QED
      BY <3>1 DEF Reindexing, Altering
  <2>7. CASE SetFullSchema
    BY <2>7 DEF SetFullSchema, Reindexing
  <2>8. QED
    BY <2>3, <2>4, <2>5, <2>6, <2>7
<1>4. QED
  BY <1>1, <1>2, <1>3, EntriesQuiet

\* A calm row altered waits for its index to be rebuilt.
LEMMA AlterRowEntries ==
  ASSUME StoresInv, CalmInv, EntriesInv, AlterRow
  PROVE  EntriesInv'
<1>1. PICK pk0 \in DOMAIN ddl.rows :
        /\ store' = IF Untouched(ddl.rows[pk0]) THEN store
                    ELSE [store EXCEPT ![ddl.path] =
                            Put(store[ddl.path], <<ddl.path[1], ddl.path[2], pk0>>,
                                Value(AlteredRow(ddl.rows[pk0])))]
        /\ ddl' = [ddl EXCEPT !.rows = Drop(ddl.rows, pk0)]
  BY DEF AlterRow, Step
<1>2. /\ ddl.pc = "rows"
      /\ UNCHANGED <<ram, ibuf, home, calm, late, indexed>>
  BY DEF AlterRow, Step, buffers
<1>3. /\ ddl.op = "alter" /\ ddl.rows # Empty
      /\ ddl.path = Append(ddl.from, "data") /\ DdlTypeOK
  BY <1>2, InvParts, PcOps, EmptyMap DEF RowsFit
<1>4. PICK p : p = ddl.path
  OBVIOUS
<1>5. p \in Paths /\ p[3] = "data"
  <2>1. p \in Paths /\ p = <<ddl.from[1], ddl.from[2], "data">>
    BY <1>3, <1>4, AlterFacts
  <2>2. QED
    BY <2>1
<1> DEFINE rows == Drop(ddl.rows, pk0)
           key == <<p[1], p[2], pk0>>
           val == Value(AlteredRow(ddl.rows[pk0]))
           held == Put(store[p], key, val)
<1>6. /\ CalmRow(pk0) => home[pk0] = ddl.from
      /\ key[3] = pk0
  BY AlterKeepsId
<1>7. /\ store' = store \/ store' = [store EXCEPT ![p] = held]
      /\ ddl' = [ddl EXCEPT !.rows = rows]
  BY <1>1, <1>4
<1> HIDE DEF rows, key, val
<1>8. /\ DOMAIN held = DOMAIN store[p] \cup {key}
      /\ \A k \in DOMAIN store[p] : k # key => held[k] = store[p][k]
  BY DEF Put
<1> HIDE DEF held
<1>9. ddl'.op = ddl.op /\ ddl'.from = ddl.from /\ ddl'.pc = ddl.pc
  BY <1>3, <1>7 DEF DdlTypeOK
<1>10. \A t : (Reindexing(t)' <=> Reindexing(t)) /\ (t = ddl.from => Reindexing(t))
  BY <1>2, <1>3, <1>9 DEF Reindexing, Altering
<1>11. \A q \in Paths : \/ store'[q] = store[q]
                        \/ q = p /\ store'[q] = held
  BY <1>5, <1>7, StorageFacts
<1>12. ASSUME NEW pk \in DOMAIN home, CalmRow(pk), OnDisk(pk)', ~Reindexing(home[pk])'
       PROVE  OnDisk(pk) /\ DiskRow(pk)' = DiskRow(pk) /\ ~Reindexing(home[pk])
  <2>1. ~Reindexing(home[pk]) /\ pk # pk0
    BY <1>2, <1>6, <1>10, <1>12
  <2>2. /\ HomePath(pk) \in Paths /\ HomeKey(pk) # key
        /\ HomePath(pk)' = HomePath(pk) /\ HomeKey(pk)' = HomeKey(pk)
    BY <2>1, <1>2, <1>6, HomeFacts DEF HomePath, HomeKey
  <2>3. CASE store'[HomePath(pk)] = store[HomePath(pk)]
    BY <2>1, <2>2, <2>3, <1>12 DEF OnDisk, DiskRow
  <2>4. CASE HomePath(pk) = p /\ store'[p] = held
    BY <2>1, <2>2, <2>4, <1>8, <1>12 DEF OnDisk, DiskRow
  <2>5. QED
    BY <2>2, <2>3, <2>4, <1>11
<1>13. \A pk \in DOMAIN home : \A c : Entry(home[pk], c, pk) => Entry(home[pk], c, pk)'
  <2>1. \A pk \in DOMAIN home : IndexPath(pk) \in Paths /\ IndexPath(pk) # p
    BY <1>5, IndexPlace
  <2>2. \A pk \in DOMAIN home : store'[IndexPath(pk)] = store[IndexPath(pk)]
    BY <2>1, <1>11
  <2>3. QED
    BY <2>2, <1>2, EntryStays
<1>14. QED
  BY <1>2, <1>12, <1>13, EntriesKept

\* RebuildIndex lists every column of every calm row on disk.
LEMMA RebuildIndexEntries ==
  ASSUME StoresInv, CalmInv, FitInv, EntriesInv, RebuildIndex
  PROVE  EntriesInv'
<1> DEFINE table == <<ddl.path[1], ddl.path[2]>>
           rows == GetRows(Append(table, "data"))
           listed(c) == {pk \in DOMAIN rows : {Id, c} \subseteq rows[pk]}
           new == {Append(table, c) : c \in {c \in Cols : listed(c) # {}}}
           buf == [k \in DOMAIN ibuf \cup new |->
                     (IF k \in DOMAIN ibuf THEN ibuf[k] ELSE {})
                     \cup (IF k \in new THEN listed(k[3]) ELSE {})]
           place == IF ddl.op = "alter" THEN "reload" ELSE "unindex"
<1>1. /\ ddl.pc = "reindex"
      /\ UNCHANGED <<catalog, store, ram, home, calm, late, indexed>>
      /\ \/ table \notin DOMAIN catalog.tables /\ ibuf' = ibuf /\ ddl' = NoDdl
         \/ ibuf' = buf /\ ddl' = [ddl EXCEPT !.pc = place]
  BY DEF RebuildIndex, storage, history
<1>2. /\ ddl.op \in {"alter", "refresh"} /\ DdlTypeOK
      /\ ddl.path \in Paths
      /\ ddl.op = "alter" => ddl.path = Append(ddl.from, "index")
  BY <1>1, InvParts, PcOps DEF RowsFit
<1>3. table \in Tables /\ table = <<table[1], table[2]>>
  BY <1>2 DEF Tables, Paths
<1>4. ddl.op = "alter" => table = ddl.from /\ table \in DOMAIN catalog.tables
  <2>1. SUFFICES ASSUME ddl.op = "alter" PROVE table = ddl.from /\ table \in DOMAIN catalog.tables
    OBVIOUS
  <2>2. /\ ddl.path = <<ddl.from[1], ddl.from[2], "index">>
        /\ ddl.from \in DOMAIN catalog.tables /\ ddl.from \in Tables
    BY <1>2, <2>1, AlterFacts
  <2>3. ddl.from = <<ddl.from[1], ddl.from[2]>>
    BY <2>2, TablePaths
  <2>4. QED
    BY <2>2, <2>3
<1>5. rows = GetRows(Append(table, "data"))
  OBVIOUS
<1> HIDE DEF table, rows
<1>6. \A c : Append(table, c) = <<table[1], table[2], c>>
  BY <1>3, AppendedIs
<1>7. ASSUME NEW c PROVE Append(table, c)[3] = c
  <2>1. PICK k : k = Append(table, c)
    OBVIOUS
  <2>2. k = <<table[1], table[2], c>>
    BY <2>1, <1>6
  <2>3. k[3] = c
    BY <2>2
  <2>4. QED
    BY <2>1, <2>3
<1>8. /\ \A k \in DOMAIN ibuf : k \in DOMAIN ibuf' /\ ibuf[k] \subseteq ibuf'[k]
      /\ ibuf' = buf => \A c \in Cols : \A pk \in listed(c) :
           Append(table, c) \in DOMAIN ibuf' /\ pk \in ibuf'[Append(table, c)]
  <2> DEFINE val(k) == (IF k \in DOMAIN ibuf THEN ibuf[k] ELSE {})
                       \cup (IF k \in new THEN listed(k[3]) ELSE {})
  <2>1. buf = [k \in DOMAIN ibuf \cup new |-> val(k)]
    OBVIOUS
  <2>2. \A k \in DOMAIN ibuf : ibuf[k] \subseteq val(k)
    OBVIOUS
  <2>3. \A c \in Cols : \A pk \in listed(c) : Append(table, c) \in new /\ pk \in val(Append(table, c))
    <3> HIDE DEF listed
    <3>1. \A c \in Cols : \A pk \in listed(c) : Append(table, c) \in new
      OBVIOUS
    <3> HIDE DEF new
    <3>2. QED
      BY <3>1, <1>7
  <2> HIDE DEF new, listed, val, buf
  <2>4. /\ DOMAIN buf = DOMAIN ibuf \cup new
        /\ \A k \in DOMAIN ibuf \cup new : buf[k] = val(k)
    BY <2>1
  <2>5. \A k \in DOMAIN ibuf : k \in DOMAIN buf /\ ibuf[k] \subseteq buf[k]
    BY <2>2, <2>4
  <2>6. \A c \in Cols : \A pk \in listed(c) : Append(table, c) \in DOMAIN buf /\ pk \in buf[Append(table, c)]
    BY <2>3, <2>4
  <2>7. QED
    BY <2>5, <2>6, <1>1
<1>9. \A pk \in DOMAIN home : \A c : Entry(home[pk], c, pk) => Entry(home[pk], c, pk)'
  BY <1>1, <1>8, EntryStays
<1>10. SUFFICES ASSUME NEW pk \in indexed', pk \notin late', CalmRow(pk)'
                PROVE  /\ HomeKey(pk)' \in DOMAIN ram' =>
                            \A c \in ram'[HomeKey(pk)'] : Entry(home[pk], c, pk)'
                       /\ OnDisk(pk)' /\ ~Reindexing(home[pk])' =>
                            \A c \in DiskRow(pk)' : Entry(home[pk], c, pk)'
  BY DEF EntriesInv, OnDisk, DiskRow
<1>11. /\ pk \in indexed /\ pk \notin late /\ CalmRow(pk) /\ pk \in DOMAIN home
       /\ HomeKey(pk)' = HomeKey(pk) /\ (OnDisk(pk)' <=> OnDisk(pk)) /\ DiskRow(pk)' = DiskRow(pk)
  BY <1>1, <1>10, RowKeys DEF CalmRow, HomeKey, HomePath, OnDisk, DiskRow
<1>12. /\ HomeKey(pk) \in DOMAIN ram => \A c \in ram[HomeKey(pk)] : Entry(home[pk], c, pk)
       /\ OnDisk(pk) /\ ~Reindexing(home[pk]) => \A c \in DiskRow(pk) : Entry(home[pk], c, pk)
  BY <1>11, EntriesParts
<1>13. CASE ~Reindexing(home[pk])
  BY <1>1, <1>9, <1>11, <1>12, <1>13
<1>14. CASE Reindexing(home[pk])
  <2>1. ddl.op = "alter" /\ home[pk] = ddl.from /\ Altering(home[pk])
    BY <1>14 DEF Reindexing, Altering
  <2>2. home[pk] = table /\ ibuf' = buf
    BY <2>1, <1>1, <1>4
  <2>3. ASSUME OnDisk(pk), NEW c \in DiskRow(pk) PROVE c \in Cols /\ pk \in listed(c)
    <3>1. PICK p : p = HomePath(pk)
      OBVIOUS
    <3>2. PICK k : k = HomeKey(pk)
      OBVIOUS
    <3>3. /\ p \in Paths /\ p[3] = "data" /\ p[1] = k[1] /\ p[2] = k[2] /\ k[3] = pk
      BY <3>1, <3>2, <1>11, HomeFacts
    <3>4. p = Append(table, "data") /\ rows = GetRows(p)
      BY <3>1, <2>2, <1>5 DEF HomePath
    <3>5. k \in DOMAIN store[p] /\ handle[p] = "open"
      BY <3>1, <3>2, <2>3, <1>11, CalmOpen DEF OnDisk
    <3>6. k \in KeysIn(p)
      BY <3>3, <3>5 DEF KeysIn
    <3>7. pk \in DOMAIN rows
      <4>1. DOMAIN rows = {j[3] : j \in KeysIn(p)}
        BY <3>4 DEF GetRows
      <4>2. QED
        BY <3>3, <3>6, <4>1
    <3>8. rows[pk] = DiskRow(pk)
      <4>1. rows[pk] = RowOf(HomeKey(pk))
        BY <3>3, <3>4, <3>7, <1>11, ScannedCalm
      <4>2. HomeKey(pk) \notin DOMAIN ram
        <5>1. HomeKey(pk)[3] = pk
          BY <1>11, HomeFacts
        <5>2. QED
          BY <5>1, <2>1, <1>11, FitParts
      <4>3. RowOf(HomeKey(pk)) = DiskRow(pk)
        BY <2>3, <4>2, <1>11, CalmRowOf DEF OnDisk, DiskRow
      <4>4. QED
        BY <4>1, <4>3
    <3>9. Id \in DiskRow(pk)
      BY <2>3, <1>11, CalmRowOf DEF OnDisk, DiskRow
    <3>10. c \in Cols
      <4>1. store[p][k] \in StoredVals(p)
        BY <3>3, <3>5, StorageFacts DEF IsMap
      <4>2. c \in store[p][k].set
        BY <2>3, <3>1, <3>2 DEF DiskRow
      <4>3. QED
        BY <3>3, <4>1, <4>2 DEF StoredVals
    <3>11. QED
      BY <2>3, <3>7, <3>8, <3>9, <3>10
  <2>4. ASSUME OnDisk(pk), NEW c \in DiskRow(pk) PROVE Entry(home[pk], c, pk)'
    <3>1. c \in Cols /\ pk \in listed(c)
      BY <2>3, <2>4
    <3>2. Append(table, c) \in DOMAIN ibuf' /\ pk \in ibuf'[Append(table, c)]
      BY <3>1, <2>2, <1>8
    <3>3. home'[pk] = table
      BY <2>2, <1>1
    <3>4. QED
      BY <3>2, <3>3 DEF Entry
  <2>5. HomeKey(pk)' \in DOMAIN ram' => \A c \in ram'[HomeKey(pk)'] : Entry(home[pk], c, pk)'
    BY <1>1, <1>9, <1>11, <1>12
  <2>6. QED
    BY <2>4, <2>5, <1>11
<1>15. QED
  BY <1>13, <1>14

\* What is in the index store and not buffered outlives the process.
LEMMA RestartEntries ==
  ASSUME StoresInv, CalmInv, EntriesInv, Restarted
  PROVE  EntriesInv'
<1>1. /\ ddl' = NoDdl /\ ram' = Empty /\ ibuf' = Empty
      /\ store' = [p \in Paths |-> IF p \in present THEN store[p] ELSE Empty]
      /\ late' = IF ddl.op = "alter" THEN late \cup RowsOf(ddl.from) ELSE late
      /\ indexed' = {pk \in indexed : /\ Append(home[pk], "index") \in present
                                      /\ ddl.op \notin {"alter", "refresh"}
                                      /\ \A k \in DOMAIN ibuf : pk \notin ibuf[k]}
      /\ UNCHANGED <<home, calm>>
  BY DEF Restarted
<1>2. DOMAIN ram' = {}
  BY <1>1, EmptyMap
<1>3. \A p \in Paths : store'[p] = store[p] \/ DOMAIN store'[p] = {}
  BY <1>1, EmptyMap
<1>4. \A pk \in DOMAIN home : OnDisk(pk)' => OnDisk(pk) /\ DiskRow(pk)' = DiskRow(pk)
  BY <1>1, <1>3, HomeFacts DEF OnDisk, DiskRow, HomeKey, HomePath
<1>5. late \subseteq late' /\ indexed' \subseteq indexed
  BY <1>1
<1>6. \A pk \in indexed' : ~Reindexing(home[pk])
  BY <1>1 DEF Reindexing, Altering
<1>7. ASSUME NEW pk \in DOMAIN home, pk \in indexed', NEW c, Entry(home[pk], c, pk)
      PROVE  Entry(home[pk], c, pk)'
  <2>1. IndexPath(pk) \in present /\ IndexPath(pk) \in Paths /\ \A k \in DOMAIN ibuf : pk \notin ibuf[k]
    BY <1>1, <1>7, IndexPlace DEF IndexPath
  <2>2. store'[IndexPath(pk)] = store[IndexPath(pk)]
    BY <2>1, <1>1
  <2>3. QED
    BY <2>1, <2>2, <1>1, <1>7 DEF Entry, IndexPath
<1>8. SUFFICES ASSUME NEW pk \in indexed', pk \notin late', CalmRow(pk)'
               PROVE  /\ HomeKey(pk)' \in DOMAIN ram' =>
                           \A c \in ram'[HomeKey(pk)'] : Entry(home[pk], c, pk)'
                      /\ OnDisk(pk)' /\ ~Reindexing(home[pk])' =>
                           \A c \in DiskRow(pk)' : Entry(home[pk], c, pk)'
  BY DEF EntriesInv, OnDisk, DiskRow
<1>9. pk \in indexed /\ pk \notin late /\ CalmRow(pk) /\ pk \in DOMAIN home /\ ~Reindexing(home[pk])
  BY <1>1, <1>5, <1>6, <1>8, RowKeys DEF CalmRow
<1>10. OnDisk(pk) => \A c \in DiskRow(pk) : Entry(home[pk], c, pk)
  BY <1>9, EntriesParts
<1>11. QED
  BY <1>2, <1>4, <1>7, <1>8, <1>9, <1>10

\* EntriesInv holds at the start.
LEMMA EntriesInit ==
  ASSUME Init
  PROVE  EntriesInv
BY DEF Init, EntriesInv

\* Every step keeps EntriesInv.
LEMMA EntriesStep ==
  ASSUME StoresInv, CalmInv, FitInv, EntriesInv, [Next]_vars
  PROVE  EntriesInv'
<1>1. CASE SchemaStep
  BY <1>1, MovesEntries, PlainStepsEntries, AlterRowEntries, RebuildIndexEntries,
     RestartEntries
     DEF SchemaStep, Moves, AlterRowPanics
<1>2. CASE UNCHANGED vars
  <2>1. UNCHANGED <<store, ram, ibuf, ddl, home, calm, late, indexed>>
    BY <1>2 DEF vars, buffers, history, storage
  <2>2. \A t : Reindexing(t)' <=> Reindexing(t)
    BY <2>1 DEF Reindexing, Altering
  <2>3. QED
    BY <2>1, <2>2, EntriesQuiet
<1>3. QED
  BY <1>1, <1>2, RowStepEntries, RequestsEntries, RestartEntries DEF Next, Crash
\* Every column of such a row, in RAM or on disk, has its index entry, buffered or in the store
\* the process uses: SaveIndex buffers them all, the index flusher (index.go) brings them to disk,
\* and AlterTable rebuilds those of the rows it rewrites.
THEOREM CalmEntries == StoresSpec => []EntriesInv
<1>1. Init => EntriesInv
  BY EntriesInit
<1>2. EntriesInv /\ FitInv /\ CalmInv /\ StoresInv /\ [Next]_vars => EntriesInv'
  BY EntriesStep
<1>3. QED
  BY <1>1, <1>2, StoresInvariant, CalmRowsStay, CalmRowsFit, PTL DEF StoresSpec

\* While no index is being rebuilt, every column a read finds of such a row has its entry.
THEOREM CalmIndexed == StoresSpec => []CalmRowsIndexed
<1>1. StoresInv /\ CalmInv /\ EntriesInv => CalmRowsIndexed
  <2>1. SUFFICES ASSUME StoresInv, CalmInv, EntriesInv, ddl.op \notin {"alter", "refresh"},
                        NEW pk \in expected, pk \in indexed, pk \notin late, home[pk][1] \in calm,
                        NEW c \in RowOf(HomeKey(pk))
                 PROVE  Entry(home[pk], c, pk)
    BY DEF CalmRowsIndexed, HomeKey, Entry
  <2>2. pk \in DOMAIN home /\ CalmRow(pk)
    BY <2>1, RowKeys DEF CalmRow
  <2>3. ~Reindexing(home[pk])
    BY <2>1 DEF Reindexing, Altering
  <2>4. /\ HomeKey(pk) \in DOMAIN ram => \A d \in ram[HomeKey(pk)] : Entry(home[pk], d, pk)
        /\ OnDisk(pk) => \A d \in DiskRow(pk) : Entry(home[pk], d, pk)
    BY <2>1, <2>2, <2>3, EntriesParts
  <2>5. CASE HomeKey(pk) \in DOMAIN ram
    <3>1. RowOf(HomeKey(pk)) = ram[HomeKey(pk)]
      BY <2>1, <2>2, <2>5, CalmRowOf
    <3>2. QED
      BY <2>1, <2>4, <2>5, <3>1
  <2>6. CASE HomeKey(pk) \notin DOMAIN ram
    <3>1. OnDisk(pk)
      BY <2>1, <2>2, <2>6, CalmParts DEF CalmExpected, OnDisk
    <3>2. RowOf(HomeKey(pk)) = DiskRow(pk)
      BY <2>1, <2>2, <2>6, <3>1, CalmRowOf DEF OnDisk, DiskRow
    <3>3. QED
      BY <2>1, <2>4, <3>1, <3>2
  <2>7. QED
    BY <2>5, <2>6
<1>2. QED
  BY <1>1, StoresInvariant, CalmRowsStay, CalmEntries, PTL
=============================================================================
