---------------------------- MODULE TableStores -----------------------------
(***************************************************************************)
(* What the schema requests do to rows and indexes (storemanager/data.go,  *)
(* index.go, schema.go, setup.go): folders, the Badger stores opened in    *)
(* them, the map diskStore of those stores, the rows and index entries     *)
(* still buffered in memory.                                               *)
(*                                                                         *)
(* A table has a data store and an index store; a store's path is          *)
(* <<db, table, kind>>.  A row's key is <<db, table, pk>>, a column's      *)
(* index entry has the key <<db, table, column>>; a key names its table    *)
(* independently of the folder it lies in.  A row is the set of its        *)
(* columns, an index entry the set of primary keys it lists, and "enc"     *)
(* counts how often the value has been marshalled as a string once more:   *)
(* anything but 0 is unreadable.  One schema request runs at a time, in    *)
(* steps, beside inserts, updates, reads and flushes (whose own            *)
(* interleavings are in DataSync, IndexSync and StoreManager; whose schema *)
(* keys are in Catalog: here a request changes them in one step).          *)
(***************************************************************************)
EXTENDS FiniteSets, Naturals, Sequences, Functions

CONSTANTS
  Dbs, Tabs, Cols, Id, Pks,
  Alterations,     \* [do, name, new]: "rename", "add" (new) or "drop" a column
  FirstDb, FirstTable, FirstCols,      \* the table there is at the start
  NoHand,
  MaxWrites, MaxRequests,              \* bounds on saves and on schema requests
  Faults                               \* \subseteq {"crash"}

Tables == Dbs \X Tabs
Folders == {<<db>> : db \in Dbs} \cup Tables
Paths == Dbs \X Tabs \X {"data", "index"}

Hands == [key : Dbs \X Tabs \X (Pks \cup Cols),
          val : [set : SUBSET (Pks \cup Cols), enc : Nat], dropped : BOOLEAN]

ASSUME TableStoresConstants ==
  /\ Id \in FirstCols /\ FirstCols \subseteq Cols
  /\ FirstDb \in Dbs /\ FirstTable \in Tabs
  /\ Alterations \subseteq [do : {"rename", "add", "drop"}, name : Cols, new : Cols]
  /\ NoHand \notin Hands
  /\ MaxWrites \in Nat /\ MaxRequests \in Nat

VARIABLES
  catalog,   \* the schema keys: [dbs, tables: <<db, table>> |-> columns]
  cache,     \* FullSchema, the same shape
  dirs,      \* directories of databases and tables: <<db>>, <<db, table>>
  present,   \* the paths whose directory exists
  store,     \* what each path's store holds: key |-> [set, enc]
  handle,    \* diskStore: "none", "open" or "closed" (closed, and still in the map)
  ram,       \* dataRamStorage: row key |-> columns
  ibuf,      \* indexBuffer: index key |-> primary keys
  ddl,       \* the schema request under way
  home,      \* history: the table each row was inserted into
  expected,  \* history: rows no request and no crash has destroyed
  calm,      \* history: databases with no rename, delete or lost id so far
  late,      \* history: rows some AlterTable cannot have converted
  indexed,   \* history: rows whose index entries no restart has destroyed
  writes, requests

storage == <<dirs, present, store, handle>>
buffers == <<ram, ibuf>>
history == <<home, expected, calm, late, indexed>>
vars == <<catalog, cache, storage, buffers, ddl, history, writes, requests>>

Empty == [x \in {} |-> x]
Put(f, k, v) == [x \in DOMAIN f \cup {k} |-> IF x = k THEN v ELSE f[x]]
Drop(f, k) == Restrict(f, DOMAIN f \ {k})
Value(set) == [set |-> set, enc |-> 0]

NoDdl == [op |-> "none", pc |-> "idle", from |-> <<>>, to |-> <<>>, alter |-> <<>>,
          paths |-> {}, path |-> <<>>, keys |-> {}, hand |-> NoHand, rows |-> Empty]

Init ==
  /\ catalog = [dbs |-> {FirstDb}, tables |-> Put(Empty, <<FirstDb, FirstTable>>, FirstCols)]
  /\ cache = catalog
  /\ dirs = {} /\ present = {}
  /\ store = [p \in Paths |-> Empty]
  /\ handle = [p \in Paths |-> "none"]
  /\ ram = Empty /\ ibuf = Empty
  /\ ddl = NoDdl
  /\ home = Empty /\ expected = {} /\ calm = Dbs /\ late = {} /\ indexed = {}
  /\ writes = 0 /\ requests = 0

-----------------------------------------------------------------------------
(* Stores.  A path lies under the folder <<db>> or <<db, table>>.  A       *)
(* closed store stays in the map, where every use of it fails.             *)

Under(p, folder) == Len(folder) <= Len(p) /\ SubSeq(p, 1, Len(folder)) = folder

Usable(p) == handle[p] # "closed"

\* Mutant: the directories above a store's are not made.
GetDiskStoreBare(p) ==
  /\ handle' = [handle EXCEPT ![p] = IF @ = "none" THEN "open" ELSE @]
  /\ present' = IF handle[p] = "none" THEN present \cup {p} ELSE present
  /\ UNCHANGED dirs

\* GetDiskStore: a store in the map is used as it is; any other is opened, its folder made.
GetDiskStore(p) ==
  /\ handle' = [handle EXCEPT ![p] = IF @ = "none" THEN "open" ELSE @]
  /\ IF handle[p] = "none"
       THEN /\ present' = present \cup {p}
            /\ dirs' = dirs \cup {<<p[1]>>, <<p[1], p[2]>>}
       ELSE UNCHANGED <<present, dirs>>

\* Mutant: the stores of every folder are closed.
ClosedAll(folder) == [p \in Paths |-> IF handle[p] = "open" THEN "closed" ELSE handle[p]]

\* Closing stores; what a store held whose directory is gone is gone with it.
Closed(folder) ==
  [p \in Paths |-> IF Under(p, folder) /\ handle[p] = "open" THEN "closed" ELSE handle[p]]
Kept(folder) ==
  [p \in Paths |-> IF Under(p, folder) /\ p \notin present THEN Empty ELSE store[p]]

\* A row as GetData returns it: from RAM, else from disk; {} if it cannot be read.
RowOf(key) ==
  LET p == <<key[1], key[2], "data">> IN
  IF key \in DOMAIN ram THEN ram[key]
  ELSE IF Usable(p) /\ key \in DOMAIN store[p] /\ store[p][key].enc = 0
         THEN store[p][key].set
  ELSE {}

\* The keys a scan of an open store for its own table's prefix finds.
KeysIn(p) == IF handle[p] = "open"
               THEN {k \in DOMAIN store[p] : k[1] = p[1] /\ k[2] = p[2]} ELSE {}

\* The stores in the map, of one kind, under a folder.
StoresUnder(folder, kind) ==
  {p \in Paths : Under(p, folder) /\ p[3] = kind /\ handle[p] # "none"}

\* SaveIndex of a row: one entry to add for each of its columns.
Indexed(buf, key, cols) ==
  [k \in DOMAIN buf \cup {<<key[1], key[2], c>> : c \in cols} |->
     (IF k \in DOMAIN buf THEN buf[k] ELSE {})
     \cup (IF k[1] = key[1] /\ k[2] = key[2] /\ k[3] \in cols THEN {key[3]} ELSE {})]

-----------------------------------------------------------------------------
(* Requests on rows, and the flushers.                                     *)

Altering(table) == ddl.op = "alter" /\ ddl.from = table

Save(db, table, pk) ==
  /\ <<db, table>> \in DOMAIN cache.tables
  /\ writes < MaxWrites /\ writes' = writes + 1
  /\ LET key == <<db, table, pk>>
         cols == cache.tables[<<db, table>>]
     IN  /\ ram' = Put(ram, key, cols)
         /\ ibuf' = Indexed(ibuf, key, cols)
  /\ late' = IF Altering(<<db, table>>) THEN late \cup {pk} ELSE late
  /\ expected' = expected \cup {pk}
  /\ UNCHANGED <<catalog, cache, storage, ddl, calm, requests>>

Insert(db, table, pk) ==
  /\ pk \notin DOMAIN home
  /\ Save(db, table, pk)
  /\ home' = Put(home, pk, <<db, table>>)
  /\ indexed' = indexed \cup {pk}

Update(db, table, pk) ==
  /\ RowOf(<<db, table, pk>>) # {}
  /\ Save(db, table, pk)
  /\ UNCHANGED <<home, indexed>>

\* A read, which opens the store it looks in.
GetData(db, table) ==
  /\ <<db, table>> \in DOMAIN cache.tables
  /\ handle[<<db, table, "data">>] = "none"
  /\ GetDiskStore(<<db, table, "data">>)
  /\ UNCHANGED <<catalog, cache, store, buffers, ddl, history, writes, requests>>

\* Mutant: a row whose store cannot be used is dropped.
FlushRowDropping(key) ==
  /\ key \in DOMAIN ram
  /\ ram' = Drop(ram, key)
  /\ LET p == <<key[1], key[2], "data">>
     IN  /\ GetDiskStore(p)
         /\ store' = IF Usable(p) THEN [store EXCEPT ![p] = Put(@, key, Value(ram[key]))]
                     ELSE store
  /\ UNCHANGED <<catalog, cache, ibuf, ddl, history, writes, requests>>

\* A row whose store is closed stays in RAM.
FlushRow(key) ==
  /\ key \in DOMAIN ram
  /\ LET p == <<key[1], key[2], "data">>
     IN  /\ Usable(p)
         /\ GetDiskStore(p)
         /\ store' = [store EXCEPT ![p] = Put(@, key, Value(ram[key]))]
  /\ ram' = Drop(ram, key)
  /\ UNCHANGED <<catalog, cache, ibuf, ddl, history, writes, requests>>

\* An index entry whose store is closed is lost; an unreadable list is started afresh.
FlushIndex(key) ==
  /\ key \in DOMAIN ibuf
  /\ LET p == <<key[1], key[2], "index">>
         old == IF key \in DOMAIN store[p] /\ store[p][key].enc = 0 THEN store[p][key].set ELSE {}
     IN  /\ GetDiskStore(p)
         /\ store' = IF Usable(p) /\ ~(ibuf[key] \subseteq old)
                       THEN [store EXCEPT ![p] = Put(@, key, Value(old \cup ibuf[key]))]
                       ELSE store
  /\ ibuf' = Drop(ibuf, key)
  /\ UNCHANGED <<catalog, cache, ram, ddl, history, writes, requests>>

-----------------------------------------------------------------------------
(* Schema requests: the check against the cache, then steps.               *)

Requested(t) ==
  /\ ddl.pc = "idle"
  /\ requests < MaxRequests /\ requests' = requests + 1
  /\ ddl' = t
  /\ UNCHANGED <<cache, storage, buffers, home, expected, indexed, writes>>

CreateDatabase(db) ==
  /\ db \notin cache.dbs
  /\ catalog' = [catalog EXCEPT !.dbs = @ \cup {db}]
  /\ Requested([NoDdl EXCEPT !.op = "create", !.pc = "reload"])
  /\ UNCHANGED <<calm, late>>

CreateTable(db, table, cols) ==
  /\ db \in cache.dbs /\ <<db, table>> \notin DOMAIN cache.tables
  /\ catalog' = [catalog EXCEPT !.tables = Put(@, <<db, table>>, cols \cup {Id})]
  /\ Requested([NoDdl EXCEPT !.op = "create", !.pc = "reload"])
  /\ UNCHANGED <<calm, late>>

\* A database's rename goes through its tables on disk, a table's through its name.
RenamedStores(from, kind) ==
  {p \in StoresUnder(from, kind) :
     Len(from) = 2 \/ <<p[1], p[2]>> \in DOMAIN catalog.tables}

\* from and to are both <<db, table>> or both <<db>>.
Rename(from, to) ==
  /\ Requested([NoDdl EXCEPT !.op = "rename", !.pc = "rowKeys", !.from = from, !.to = to,
                             !.paths = RenamedStores(from, "data")])
  /\ calm' = calm \ {from[1], to[1]}
  /\ UNCHANGED <<catalog, late>>

RenameTable(db, table, to) ==
  /\ <<db, table>> \in DOMAIN cache.tables /\ <<db, to>> \notin DOMAIN cache.tables
  /\ Rename(<<db, table>>, <<db, to>>)

RenameDatabase(db, to) ==
  /\ db \in cache.dbs /\ to \notin cache.dbs
  /\ Rename(<<db>>, <<to>>)

Delete(from) ==
  /\ Requested([NoDdl EXCEPT !.op = "delete", !.pc = "dropKeys", !.from = from])
  /\ calm' = calm \ {from[1]}
  /\ UNCHANGED <<catalog, late>>

DeleteTable(db, table) ==
  <<db, table>> \in DOMAIN cache.tables /\ Delete(<<db, table>>)

DeleteDatabase(db) == db \in cache.dbs /\ Delete(<<db>>)

RowsOf(table) == {pk \in DOMAIN home : home[pk] = table}

AlteredCols(cols, a) ==
  CASE a.do = "rename" -> IF a.name \in cols THEN (cols \cup {a.new}) \ {a.name} ELSE cols
    [] a.do = "add"    -> cols \cup {a.new}
    [] a.do = "drop"   -> cols \ {a.name}

\* storemanager.AlterTable saves the columns first.
AlterTable(db, table, a) ==
  /\ <<db, table>> \in DOMAIN cache.tables /\ <<db, table>> \in DOMAIN catalog.tables
  /\ a.do = "rename" => a.name \in cache.tables[<<db, table>>]
  /\ a.do # "rename" => Id \notin {a.name, a.new}
  /\ catalog' = [catalog EXCEPT !.tables[<<db, table>>] = AlteredCols(@, a)]
  /\ Requested([NoDdl EXCEPT !.op = "alter", !.pc = "rows", !.from = <<db, table>>,
                             !.alter = a, !.paths = StoresUnder(<<db, table>>, "data")])
  /\ calm' = IF a.name = Id THEN calm \ {db} ELSE calm
  /\ late' = late \cup {k[3] : k \in {k \in DOMAIN ram : k[1] = db /\ k[2] = table}}

RefereshIndex ==
  /\ Requested([NoDdl EXCEPT !.op = "refresh", !.pc = "unindex",
                             !.paths = {<<t[1], t[2], "index">> : t \in DOMAIN cache.tables}])
  /\ UNCHANGED <<catalog, calm, late>>

-----------------------------------------------------------------------------
(* RenameTable and RenameDatabase: rows, index entries, schema, folder.    *)

\* A key or path of the renamed folder under its new name.
Renamed(k) == ddl.to \o SubSeq(k, Len(ddl.to) + 1, Len(k))

Step(t) == /\ ddl' = t
           /\ UNCHANGED <<cache, buffers, home, calm, writes, requests>>

\* AlterIndexKeys goes through the columns the table has on disk.
ScanKeys ==
  /\ ddl.pc \in {"rowKeys", "indexKeys"} /\ ddl.keys = {} /\ ddl.paths # {}
  /\ \E p \in ddl.paths :
       Step([ddl EXCEPT !.paths = @ \ {p}, !.path = p,
               !.keys = {k \in KeysIn(p) :
                 p[3] = "data" \/ k[3] \in catalog.tables[<<p[1], p[2]>>]}])
  /\ UNCHANGED <<catalog, storage, expected, late, indexed>>

GetKey ==
  /\ ddl.keys # {} /\ ddl.hand = NoHand
  /\ \E k \in ddl.keys :
       Step([ddl EXCEPT !.hand = [key |-> k, val |-> store[ddl.path][k], dropped |-> FALSE]])
  /\ UNCHANGED <<catalog, storage, expected, late, indexed>>

DeleteKey ==
  /\ ddl.hand # NoHand /\ ~ddl.hand.dropped
  /\ store' = [store EXCEPT ![ddl.path] = Drop(@, ddl.hand.key)]
  /\ Step([ddl EXCEPT !.hand.dropped = TRUE])
  /\ UNCHANGED <<catalog, dirs, present, handle, expected, late, indexed>>

\* The value is a string by now, and is marshalled as one.
SetKey ==
  /\ ddl.hand # NoHand /\ ddl.hand.dropped
  /\ store' = [store EXCEPT ![ddl.path] =
                 Put(@, Renamed(ddl.hand.key), [ddl.hand.val EXCEPT !.enc = @ + 1])]
  /\ Step([ddl EXCEPT !.hand = NoHand, !.keys = @ \ {ddl.hand.key}])
  /\ UNCHANGED <<catalog, dirs, present, handle, expected, late, indexed>>

Scanned(pc) == ddl.pc = pc /\ ddl.paths = {} /\ ddl.keys = {}

AlterIndexKeys ==
  /\ Scanned("rowKeys")
  /\ Step(IF Len(ddl.from) = 2 /\ ddl.from \notin DOMAIN catalog.tables
            THEN NoDdl
            ELSE [ddl EXCEPT !.pc = "indexKeys", !.paths = RenamedStores(ddl.from, "index")])
  /\ UNCHANGED <<catalog, storage, expected, late, indexed>>

RenameSchemaKeys ==
  /\ Scanned("indexKeys")
  /\ LET moved == {t \in DOMAIN catalog.tables : Under(t, ddl.from)}
         rest == Restrict(catalog.tables, DOMAIN catalog.tables \ moved)
         new == {Renamed(t) : t \in moved}
         old(u) == CHOOSE t \in moved : Renamed(t) = u
     IN  catalog' = [dbs |-> IF Len(ddl.from) = 1
                               THEN (catalog.dbs \cup {ddl.to[1]}) \ {ddl.from[1]}
                               ELSE catalog.dbs,
                     tables |-> [t \in DOMAIN rest \cup new |->
                                   IF t \in new THEN catalog.tables[old(t)] ELSE rest[t]]]
  /\ Step([ddl EXCEPT !.pc = "folder"])
  /\ UNCHANGED <<storage, expected, late, indexed>>

\* Every store of the database is closed; none leaves the map.
RenameFolder ==
  /\ ddl.pc = "folder"
  /\ LET db == <<ddl.from[1]>>
         kept == Kept(db)
         src(p) == ddl.from \o SubSeq(p, Len(ddl.from) + 1, 3)
     IN  /\ handle' = Closed(db)
         /\ IF ddl.from \in dirs /\ ddl.to \notin dirs
              THEN /\ store' = [p \in Paths |-> IF Under(p, ddl.to) THEN kept[src(p)]
                                                ELSE IF Under(p, ddl.from) THEN Empty
                                                ELSE kept[p]]
                   /\ present' = {p \in present : ~Under(p, ddl.from)}
                                 \cup {Renamed(p) : p \in {p \in present : Under(p, ddl.from)}}
                   /\ dirs' = {f \in dirs : ~Under(f, ddl.from)}
                              \cup {Renamed(f) : f \in {f \in dirs : Under(f, ddl.from)}}
                              \cup {<<ddl.to[1]>>}
                   /\ Step([ddl EXCEPT !.pc = "reload"])
              ELSE /\ store' = kept
                   /\ Step(NoDdl)
                   /\ UNCHANGED <<present, dirs>>
  /\ UNCHANGED <<catalog, expected, late, indexed>>

-----------------------------------------------------------------------------
(* DeleteTable and DeleteDatabase: table by table a key, then the folder.  *)

DropSchemaKey ==
  /\ ddl.pc = "dropKeys"
  /\ LET tables == {t \in DOMAIN catalog.tables : Under(t, ddl.from)}
     IN  IF tables = {}
           THEN /\ catalog' = [catalog EXCEPT !.dbs = @ \ (IF Len(ddl.from) = 1
                                                             THEN {ddl.from[1]} ELSE {})]
                /\ Step([ddl EXCEPT !.pc = "dropFolder", !.path = ddl.from])
           ELSE \E t \in tables :
                  /\ catalog' = [catalog EXCEPT !.tables = Drop(@, t)]
                  /\ Step([ddl EXCEPT !.pc = "dropFolder", !.path = t])
  /\ UNCHANGED <<storage, expected, late, indexed>>

RowsOnDisk(paths) ==
  {pk \in Pks : \E p \in paths, k \in UNION {DOMAIN store[q] : q \in Paths} :
     p[3] = "data" /\ k[3] = pk /\ k \in DOMAIN store[p]}

RowsInRam == {k[3] : k \in DOMAIN ram}

\* Buffered rows and index entries of the table stay where they are.
RemoveFolder ==
  /\ ddl.pc = "dropFolder"
  /\ LET gone == {p \in Paths : Under(p, ddl.path)}
     IN  /\ handle' = Closed(ddl.path)
         /\ store' = [p \in Paths |-> IF p \in gone THEN Empty ELSE store[p]]
         /\ present' = present \ gone
         /\ dirs' = {f \in dirs : ~Under(f, ddl.path)}
         /\ expected' = expected \ (RowsOnDisk(gone) \ (RowsInRam \cup RowsOnDisk(Paths \ gone)))
  /\ Step([ddl EXCEPT !.pc = IF ddl.path = ddl.from THEN "reload" ELSE "dropKeys"])
  /\ UNCHANGED <<catalog, late, indexed>>

-----------------------------------------------------------------------------
(* AlterTable and RefereshIndex.                                           *)

GetRows(p) == LET keys == KeysIn(p) IN [pk \in {k[3] : k \in keys} |-> RowOf(<<p[1], p[2], pk>>)]

ScanRows ==
  /\ ddl.pc = "rows" /\ ddl.paths # {}
  /\ \E p \in ddl.paths :
       Step([ddl EXCEPT !.paths = @ \ {p}, !.path = p, !.rows = GetRows(p)])
  /\ UNCHANGED <<catalog, storage, expected, late, indexed>>

\* Mutant: an added column is not filled in.
AlteredRowRenamed(row) == IF ddl.alter.do = "rename" THEN AlteredCols(row, ddl.alter) ELSE row

\* dropColumn deletes a column named "", as AlterTable passes it no old name.
AlteredRow(row) == IF ddl.alter.do = "drop" THEN row ELSE AlteredCols(row, ddl.alter)

Untouched(row) == ddl.alter.do = "rename" /\ ddl.alter.name \notin row

AlterRow ==
  /\ ddl.pc = "rows"
  /\ \E pk \in DOMAIN ddl.rows :
       LET row == ddl.rows[pk] IN
       /\ Untouched(row) \/ Id \in AlteredRow(row)
       /\ store' = IF Untouched(row) THEN store
                   ELSE [store EXCEPT ![ddl.path] =
                           Put(@, <<ddl.path[1], ddl.path[2], pk>>, Value(AlteredRow(row)))]
       /\ Step([ddl EXCEPT !.rows = Drop(@, pk)])
  /\ UNCHANGED <<catalog, dirs, present, handle, expected, late, indexed>>

AlterIndex ==
  /\ ddl.pc = "rows" /\ ddl.paths = {} /\ ddl.rows = Empty
  /\ Step([ddl EXCEPT !.pc = "unindex", !.paths = {Append(ddl.from, "index")}])
  /\ UNCHANGED <<catalog, storage, expected, late, indexed>>

\* The paths in the map do not begin with "store": nothing is closed, the directory removed.
RemoveIndexDir ==
  /\ ddl.pc = "unindex" /\ ddl.paths # {}
  /\ \E p \in ddl.paths :
       /\ present' = present \ {p}
       /\ store' = IF handle[p] = "open" THEN store ELSE [store EXCEPT ![p] = Empty]
       /\ Step([ddl EXCEPT !.pc = "reindex", !.path = p, !.paths = @ \ {p}])
  /\ UNCHANGED <<catalog, dirs, handle, expected, late, indexed>>

\* Mutant: the index is not rebuilt.
RebuildIndexSkipped ==
  /\ ddl.pc = "reindex"
  /\ ddl' = IF ddl.op = "alter" THEN [ddl EXCEPT !.pc = "reload"] ELSE [ddl EXCEPT !.pc = "unindex"]
  /\ UNCHANGED <<catalog, cache, storage, buffers, history, writes, requests>>

\* The entries of the rows on disk, buffered one after the other; a row without id has none.
RebuildIndex ==
  /\ ddl.pc = "reindex"
  /\ LET table == <<ddl.path[1], ddl.path[2]>>
         rows == GetRows(Append(table, "data"))
         listed(c) == {pk \in DOMAIN rows : {Id, c} \subseteq rows[pk]}
         new == {Append(table, c) : c \in {c \in Cols : listed(c) # {}}}
     IN  IF table \notin DOMAIN catalog.tables
           THEN ibuf' = ibuf /\ ddl' = NoDdl
           ELSE /\ ibuf' = [k \in DOMAIN ibuf \cup new |->
                              (IF k \in DOMAIN ibuf THEN ibuf[k] ELSE {})
                              \cup (IF k \in new THEN listed(k[3]) ELSE {})]
                /\ ddl' = IF ddl.op = "alter" THEN [ddl EXCEPT !.pc = "reload"]
                          ELSE [ddl EXCEPT !.pc = "unindex"]
  /\ UNCHANGED <<catalog, cache, storage, ram, history, writes, requests>>

RefereshDone ==
  /\ ddl.pc = "unindex" /\ ddl.paths = {}
  /\ Step(NoDdl)
  /\ UNCHANGED <<catalog, storage, expected, late, indexed>>

\* The tables of databases that are listed.
Listed == [catalog EXCEPT !.tables =
             Restrict(@, {t \in DOMAIN catalog.tables : t[1] \in catalog.dbs})]

SetFullSchema ==
  /\ ddl.pc = "reload"
  /\ cache' = Listed
  /\ ddl' = NoDdl
  /\ UNCHANGED <<catalog, storage, buffers, history, writes, requests>>

-----------------------------------------------------------------------------
(* The end of the process, and SetupStore: every directory there is, is    *)
(* opened.                                                                 *)
Restarted ==
  /\ cache' = Listed
  /\ handle' = [p \in Paths |-> IF p \in present THEN "open" ELSE "none"]
  /\ store' = [p \in Paths |-> IF p \in present THEN store[p] ELSE Empty]
  /\ ram' = Empty /\ ibuf' = Empty
  /\ ddl' = NoDdl
  /\ expected' = expected \cap RowsOnDisk(present)
  /\ late' = IF ddl.op = "alter" THEN late \cup RowsOf(ddl.from) ELSE late
  /\ indexed' = {pk \in indexed : /\ Append(home[pk], "index") \in present
                                  /\ ddl.op \notin {"alter", "refresh"}
                                  /\ \A k \in DOMAIN ibuf : pk \notin ibuf[k]}
  /\ UNCHANGED <<catalog, dirs, present, home, calm, writes, requests>>

Crash == "crash" \in Faults /\ Restarted

\* row["id"].(string) of a row without id ends the process.
AlterRowPanics ==
  /\ ddl.pc = "rows"
  /\ \E pk \in DOMAIN ddl.rows : ~Untouched(ddl.rows[pk]) /\ Id \notin AlteredRow(ddl.rows[pk])
  /\ Restarted

-----------------------------------------------------------------------------
RowStep ==
  \/ \E db \in Dbs, table \in Tabs :
       \/ \E pk \in Pks : Insert(db, table, pk) \/ Update(db, table, pk)
       \/ GetData(db, table)
  \/ \E key \in DOMAIN ram : FlushRow(key)
  \/ \E key \in DOMAIN ibuf : FlushIndex(key)

SchemaRequest ==
  \/ \E db \in Dbs, table \in Tabs :
       \/ CreateTable(db, table, FirstCols)
       \/ DeleteTable(db, table)
       \/ \E to \in Tabs : RenameTable(db, table, to)
       \/ \E a \in Alterations : AlterTable(db, table, a)
  \/ \E db \in Dbs : CreateDatabase(db) \/ DeleteDatabase(db)
  \/ \E db, to \in Dbs : RenameDatabase(db, to)
  \/ RefereshIndex

SchemaStep ==
  \/ ScanKeys \/ GetKey \/ DeleteKey \/ SetKey
  \/ AlterIndexKeys \/ RenameSchemaKeys \/ RenameFolder
  \/ DropSchemaKey \/ RemoveFolder
  \/ ScanRows \/ AlterRow \/ AlterRowPanics \/ AlterIndex
  \/ RemoveIndexDir \/ RebuildIndex \/ RefereshDone
  \/ SetFullSchema

Next == RowStep \/ SchemaRequest \/ SchemaStep \/ Crash

StoresSpec == Init /\ [][Next]_vars

-----------------------------------------------------------------------------
IsMap(f, K, X) == DOMAIN f \subseteq K /\ f \in [DOMAIN f -> X]

\* What a path's store may hold.
StoredKeys(p) == Dbs \X Tabs \X (IF p[3] = "data" THEN DOMAIN home ELSE Cols)
StoredVals(p) == [set : SUBSET (IF p[3] = "data" THEN Cols ELSE Pks), enc : Nat]

SchemaOK(s) ==
  s \in [dbs : SUBSET Dbs, tables : {s.tables}] /\ IsMap(s.tables, Tables, SUBSET Cols)

DdlTypeOK ==
  /\ ddl \in [op : {"none", "create", "rename", "delete", "alter", "refresh"},
              pc : {"idle", "reload", "rowKeys", "indexKeys", "folder", "dropKeys",
                    "dropFolder", "rows", "unindex", "reindex"},
              from : Folders \cup {<<>>}, to : Folders \cup {<<>>}, alter : {ddl.alter},
              paths : SUBSET Paths, path : Paths \cup Folders \cup {<<>>},
              keys : SUBSET (Dbs \X Tabs \X (DOMAIN home \cup Cols)),
              hand : Hands \cup {NoHand}, rows : {ddl.rows}]
  /\ IsMap(ddl.rows, DOMAIN home, SUBSET Cols)

StoresTypeOK ==
  /\ SchemaOK(catalog) /\ SchemaOK(cache)
  /\ dirs \subseteq Folders /\ present \subseteq Paths
  /\ store \in [Paths -> {store[p] : p \in Paths}]
  /\ \A p \in Paths : IsMap(store[p], StoredKeys(p), StoredVals(p))
  /\ handle \in [Paths -> {"none", "open", "closed"}]
  /\ IsMap(ram, Dbs \X Tabs \X DOMAIN home, SUBSET Cols)
  /\ IsMap(ibuf, Dbs \X Tabs \X Cols, SUBSET Pks)
  /\ DdlTypeOK
  /\ IsMap(home, Pks, Tables)
  /\ expected \subseteq DOMAIN home /\ indexed \subseteq DOMAIN home /\ calm \subseteq Dbs
  /\ writes \in Nat /\ requests \in Nat

(***************************************************************************)
(* What is in a store is in a directory, or the store is still open; of    *)
(* data stores only the first can be.                                      *)
(***************************************************************************)
StoresOnDisk ==
  /\ \A p \in Paths :
       /\ store[p] # Empty => p \in present \/ handle[p] = "open"
       /\ p[3] = "data" /\ handle[p] = "open" => p \in present
  /\ \A p \in present : <<p[1], p[2]>> \in dirs /\ <<p[1]>> \in dirs

(***************************************************************************)
(* What a request holds fits where it is: a rename the keys of one store   *)
(* it goes through, all of them still there but the one in its hand; an    *)
(* alteration the rows of its own table.                                   *)
(***************************************************************************)
OpFits ==
  /\ ddl.pc = "idle" => ddl = NoDdl
  /\ ddl.op = "create" => ddl.pc = "reload"
  /\ ddl.op = "rename" =>
       /\ ddl.pc \in {"rowKeys", "indexKeys", "folder", "reload"}
       /\ ddl.from \in Folders /\ ddl.to \in Folders
       /\ Len(ddl.from) = Len(ddl.to) /\ ddl.from # ddl.to
       /\ Len(ddl.from) = 2 => ddl.from[1] = ddl.to[1]
  /\ ddl.op = "delete" =>
       /\ ddl.pc \in {"dropKeys", "dropFolder", "reload"}
       /\ ddl.from \in Folders
       /\ ddl.pc = "dropFolder" => ddl.path \in Folders /\ Under(ddl.path, ddl.from)
  /\ ddl.op = "alter" =>
       /\ ddl.pc \in {"rows", "unindex", "reindex", "reload"}
       /\ ddl.from \in DOMAIN catalog.tables /\ ddl.alter \in Alterations
  /\ ddl.op = "refresh" => ddl.pc \in {"unindex", "reindex"}
  /\ ddl.op = "none" => ddl.pc = "idle"

MovesKeys == ddl.pc \in {"rowKeys", "indexKeys"}
Moved(p) == Under(p, ddl.from) /\ p[3] = (IF ddl.pc = "rowKeys" THEN "data" ELSE "index")
InHand(k) == ddl.hand # NoHand /\ ddl.hand.key = k

KeysFit ==
  /\ ~MovesKeys => ddl.keys = {}
  /\ MovesKeys => \A p \in ddl.paths : Moved(p)
  /\ ddl.keys # {} =>
       /\ ddl.path \in Paths /\ Moved(ddl.path) /\ handle[ddl.path] = "open"
       /\ \A k \in ddl.keys :
            /\ k \in StoredKeys(ddl.path) /\ k[1] = ddl.path[1] /\ k[2] = ddl.path[2]
            /\ ~(InHand(k) /\ ddl.hand.dropped) => k \in DOMAIN store[ddl.path]
  /\ ddl.hand # NoHand => ddl.hand.key \in ddl.keys /\ ddl.hand.val \in StoredVals(ddl.path)

RowsFit ==
  LET own(kind) == Append(ddl.from, kind) IN
  /\ ddl.pc = "rows" => ddl.paths \subseteq {own("data")}
  /\ ddl.rows # Empty =>
       /\ ddl.pc = "rows" /\ ddl.paths = {} /\ ddl.path = own("data")
       /\ handle[ddl.path] = "open"
  /\ ddl.pc \in {"unindex", "reindex"} => \A p \in ddl.paths : p[3] = "index"
  /\ ddl.pc = "unindex" /\ ddl.op = "alter" => ddl.paths = {own("index")}
  /\ ddl.pc = "reindex" => ddl.path \in Paths /\ ddl.path[3] = "index"
  /\ ddl.pc = "reindex" /\ ddl.op = "alter" => ddl.path = own("index")

StoresInv == StoresTypeOK /\ StoresOnDisk /\ OpFits /\ KeysFit /\ RowsFit

(***************************************************************************)
(* Databases with no rename and no delete so far.  Their tables keep Id in *)
(* the schema, in memory as on disk; no request closes or moves their      *)
(* stores; a row inserted into one is nowhere but under its own key.       *)
(***************************************************************************)
CalmRow(pk) == home[pk][1] \in calm
HomeKey(pk) == Append(home[pk], pk)
HomePath(pk) == Append(home[pk], "data")

CalmSchema ==
  /\ \A t \in Tables : t[1] \in calm =>
       /\ t \in DOMAIN catalog.tables => Id \in catalog.tables[t] /\ t[1] \in catalog.dbs
       /\ t \in DOMAIN cache.tables =>
            t \in DOMAIN catalog.tables /\ Id \in cache.tables[t]
            /\ (~Altering(t) => cache.tables[t] = catalog.tables[t])
       /\ t \in DOMAIN catalog.tables /\ ddl.op # "create" => t \in DOMAIN cache.tables
  /\ calm \cap cache.dbs \subseteq catalog.dbs
  /\ \A pk \in DOMAIN home : CalmRow(pk) => home[pk] \in DOMAIN catalog.tables

CalmDdl ==
  /\ ddl.op \in {"rename", "delete"} => ddl.from[1] \notin calm
  /\ ddl.op = "rename" => ddl.to[1] \notin calm

CalmStore(p) ==
  /\ p[1] \in calm => handle[p] # "closed" /\ (p \in present => handle[p] = "open")
  /\ p[1] \in calm /\ p[3] = "index" => \A k \in DOMAIN store[p] : store[p][k].enc = 0
  /\ p[3] = "data" => \A k \in DOMAIN store[p] : CalmRow(k[3]) =>
       /\ k = HomeKey(k[3]) /\ p = HomePath(k[3])
       /\ store[p][k].enc = 0 /\ Id \in store[p][k].set

CalmRam == \A k \in DOMAIN ram : CalmRow(k[3]) => k = HomeKey(k[3]) /\ Id \in ram[k]

CalmHeld ==
  /\ ddl.pc = "rowKeys" => \A k \in ddl.keys : ~CalmRow(k[3])
  /\ \A pk \in DOMAIN ddl.rows : CalmRow(pk) => home[pk] = ddl.from

CalmExpected ==
  \A pk \in expected : CalmRow(pk) =>
    HomeKey(pk) \in DOMAIN ram \/ HomeKey(pk) \in DOMAIN store[HomePath(pk)]

CalmInv ==
  CalmSchema /\ CalmDdl /\ (\A p \in Paths : CalmStore(p)) /\ CalmRam /\ CalmHeld /\ CalmExpected

(***************************************************************************)
(* Of such a database's rows, those that no AlterTable came upon in RAM.   *)
(* What is in RAM has the columns of the schema, and so has what is on     *)
(* disk, or it will once the alteration under way has come to it.          *)
(***************************************************************************)
ToAlter(pk) ==
  Altering(home[pk]) /\ ddl.pc = "rows" /\ (ddl.paths # {} \/ pk \in DOMAIN ddl.rows)

RamFits ==
  \A k \in DOMAIN ram : CalmRow(k[3]) /\ k[3] \notin late =>
    ~Altering(home[k[3]]) /\ catalog.tables[home[k[3]]] \subseteq ram[k]

RowFits(pk, row) ==
  IF ToAlter(pk)
    THEN /\ ~Untouched(row) /\ catalog.tables[home[pk]] \subseteq AlteredRow(row)
         /\ pk \in DOMAIN ddl.rows => ddl.rows[pk] = row
    ELSE catalog.tables[home[pk]] \subseteq row

DiskFits ==
  \A pk \in DOMAIN home \ late :
    CalmRow(pk) /\ HomeKey(pk) \in DOMAIN store[HomePath(pk)] =>
      RowFits(pk, store[HomePath(pk)][HomeKey(pk)].set)

RowsThere ==
  \A pk \in DOMAIN ddl.rows : CalmRow(pk) => HomeKey(pk) \in DOMAIN store[HomePath(pk)]

FitInv == RamFits /\ DiskFits /\ RowsThere

(***************************************************************************)
(* Of these, the rows no restart has come upon before their entries were   *)
(* on disk: every column they have, in RAM or on disk, has its entry.      *)
(***************************************************************************)
Entry(table, c, pk) ==
  LET key == Append(table, c)
      p == Append(table, "index")
  IN  \/ key \in DOMAIN ibuf /\ pk \in ibuf[key]
      \/ key \in DOMAIN store[p] /\ pk \in store[p][key].set

Reindexing(table) == Altering(table) /\ ddl.pc # "reload"

EntriesInv ==
  \A pk \in indexed \ late : CalmRow(pk) =>
    /\ HomeKey(pk) \in DOMAIN ram => \A c \in ram[HomeKey(pk)] : Entry(home[pk], c, pk)
    /\ HomeKey(pk) \in DOMAIN store[HomePath(pk)] /\ ~Reindexing(home[pk]) =>
         \A c \in store[HomePath(pk)][HomeKey(pk)].set : Entry(home[pk], c, pk)

(***************************************************************************)
(* Whatever is renamed, altered and dropped, and however the flushes fall  *)
(* in between, a row that no RemoveFolder and no crash has taken is        *)
(* somewhere: in RAM, in a data store, or in the hands of the request that *)
(* is moving it.  (It may well be unreadable.)                             *)
(***************************************************************************)
RowsConserved ==
  \A pk \in expected :
    \/ pk \in RowsInRam \cup RowsOnDisk(Paths)
    \/ ddl.hand # NoHand /\ ddl.pc = "rowKeys" /\ ddl.hand.key[3] = pk

(***************************************************************************)
(* In a database that was never renamed or deleted from, nor had a table   *)
(* renamed, every row there should be can be read at every moment, under   *)
(* the table it was inserted into: alterations, index refreshes, restarts  *)
(* and requests on other databases make none unreadable.                   *)
(***************************************************************************)
CalmRowsReadable ==
  \A pk \in expected : home[pk][1] \in calm => RowOf(Append(home[pk], pk)) # {}

(***************************************************************************)
(* In such a database, once no AlterTable is under way on its table, a row *)
(* on disk has every column of the table's schema, unless it was in RAM    *)
(* (or the process ended) during an AlterTable: alterData converts what is *)
(* on disk.                                                                *)
(***************************************************************************)
AlteredRowsFit ==
  \A pk \in expected \ (late \cup RowsInRam) :
    LET table == home[pk] IN
    table[1] \in calm /\ ~Altering(table) =>
      catalog.tables[table] \subseteq RowOf(Append(table, pk))

(***************************************************************************)
(* In such a database, while no index is being rebuilt, every column of a  *)
(* row has its index entry, buffered or in the store the process uses,     *)
(* unless a restart came before the entry was on disk.                     *)
(***************************************************************************)
CalmRowsIndexed ==
  ddl.op \notin {"alter", "refresh"} =>
    \A pk \in (expected \cap indexed) \ late : home[pk][1] \in calm =>
      \A c \in RowOf(Append(home[pk], pk)) : Entry(home[pk], c, pk)
=============================================================================
