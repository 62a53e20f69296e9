------------------------------ MODULE Catalog -------------------------------
(***************************************************************************)
(* The catalogue: the schema and protocol keys on disk                     *)
(* (storemanager/schema.go, protocol.go), their copies in memory           *)
(* (database.FullSchema, database.Protocols) and the requests that change  *)
(* them (database/schema.go, setup.go, protocol.go).                       *)
(*                                                                         *)
(* Requests run concurrently and share no lock.  Each is a check against   *)
(* the cache, then a program of store operations (a step each: one Badger  *)
(* transaction), then a reload of the cache: GetFullSchema reads database  *)
(* by database and table by table, SetFullSchema installs what it read and *)
(* stores the "default" protocol made of it, SetupProtocols empties the    *)
(* map of protocols and fills it again.                                    *)
(*                                                                         *)
(* The rows, folders and open stores a request also touches are in         *)
(* TableStores; here a folder step only may fail.  Requests refused by     *)
(* their check change nothing and are left out, except AlterTable's, which *)
(* has changed the cache by then.  A column is "plain", "defaulted" (valid *)
(* in a new table; not in an altered one, whose check wants a number where *)
(* the schema keeps a string) or "bad".                                    *)
(***************************************************************************)
EXTENDS FiniteSets, Functions, Protocols

CONSTANTS
  Dbs, Tabs, Cols, Id, NoSchema,
  Schemas,          \* the columns a CreateTable may ask for
  Alterations,      \* what an AlterTable may ask for: sets of alterations
  Passwords, Default, NoPassword,
  UserProtocols,    \* what a SetProtocol may store
  InitialCatalogs,  \* schema keys the program may start with
  Goroutines, MaxCalls,
  Faults            \* \subseteq {"store", "folder", "crash"}

Definitions == {"plain", "defaulted", "bad"}
ColSets == UNION {[S -> Definitions] : S \in SUBSET Cols}

\* A Go map with keys in K and values in X; a map of databases to maps of tables.
IsMap(f, K, X) == DOMAIN f \subseteq K /\ f \in [DOMAIN f -> X]
IsSchema(s) ==
  IsMap(s, Dbs, Range(s)) /\ \A db \in DOMAIN s : IsMap(s[db], Tabs, ColSets)

DbNamed == {<<db>> : db \in Dbs}
TableNamed == Dbs \X Tabs
AlterationForms ==
  [do : {"change", "rename", "add", "drop"}, name : Cols, new : Cols, def : Definitions]

\* A database's key, which carries no columns, or a table's and its columns.
EntryOK(k, v) == (k \in DbNamed /\ v = NoSchema) \/ (k \in TableNamed /\ v \in ColSets)

CatalogOK(keys) ==
  /\ IsMap(keys, DbNamed \cup TableNamed, Range(keys))
  /\ IsFiniteSet(DOMAIN keys)
  /\ \A k \in DOMAIN keys : EntryOK(k, keys[k])

ASSUME CatalogConstants ==
  /\ Id \in Cols
  /\ Default \in Passwords
  /\ MaxCalls \in Nat
  /\ Schemas \subseteq ColSets
  /\ \A alters \in Alterations : IsFiniteSet(alters) /\ alters \subseteq AlterationForms
  /\ \A keys \in InitialCatalogs : CatalogOK(keys)

VARIABLES
  schemaKeys,   \* on disk: <<db>> |-> NoSchema, <<db, table>> |-> its columns
  full,         \* database.FullSchema
  protoKeys,    \* on disk: password |-> protocol
  protos,       \* database.Protocols
  task,         \* each request's progress
  calls,        \* requests made so far, for MaxCalls
  cacheStale,   \* history: a schema key changed since the installed reload began,
                \* or the cache was changed in place
  protoStale    \* history: the same of the protocols

diskVars == <<schemaKeys, protoKeys>>
vars == <<schemaKeys, full, protoKeys, protos, task, calls, cacheStale, protoStale>>

Empty == [x \in {} |-> x]
Put(f, k, v) == [x \in DOMAIN f \cup {k} |-> IF x = k THEN v ELSE f[x]]
Drop(f, k) == Restrict(f, DOMAIN f \ {k})

DbKeys == {k \in DOMAIN schemaKeys : Len(k) = 1}
TableKeys(db) == {k \in DOMAIN schemaKeys : Len(k) = 2 /\ k[1] = db}

\* What GetFullSchema returns when nothing changes under it.
DiskSchema ==
  [db \in {k[1] : k \in DbKeys} |->
     [table \in {k[2] : k \in TableKeys(db)} |-> schemaKeys[<<db, table>>]]]

NoTask == [op |-> "none", pc |-> "idle", steps |-> <<>>, cols |-> NoSchema,
           dbs |-> {}, tabs |-> {}, got |-> Empty, stale |-> FALSE,
           pw |-> NoPassword, proto |-> Empty, ids |-> {}, pstale |-> FALSE,
           ok |-> TRUE, clean |-> TRUE]

Init ==
  /\ schemaKeys \in InitialCatalogs
  /\ full = DiskSchema
  /\ protoKeys = IF full = Empty THEN Empty
                 ELSE Put(Empty, Default, ProtocolBySchema(full))
  /\ protos = protoKeys
  /\ task = [g \in Goroutines |-> NoTask]
  /\ calls = 0
  /\ cacheStale = FALSE
  /\ protoStale = FALSE

-----------------------------------------------------------------------------
(* Store operations, as the programs of the requests name them.            *)

Set(key, val)    == [do |-> "set", key |-> key, to |-> key, val |-> val]
SetQuietly(key, val) == [Set(key, val) EXCEPT !.do = "setQuietly"]
Del(key)         == [do |-> "del", key |-> key, to |-> key, val |-> NoSchema]
Copy(key, to)    == [Del(key) EXCEPT !.do = "copy", !.to = to]
Probe(key)       == [Del(key) EXCEPT !.do = "probe"]
ReadCols(key)    == [Del(key) EXCEPT !.do = "read"]
Alter(key, a)    == [Set(key, a) EXCEPT !.do = "alter"]
Folder(db)       == [Del(<<db>>) EXCEPT !.do = "folder"]
\* A scan of a database's tables, and what is to be done for each of them.
ForTables(what, db, to) == [Copy(<<db>>, <<to>>) EXCEPT !.do = what]

Scans == {"probeAll", "moveAll", "dropAll"}

AnyOrder(S) == {o \in [1..Cardinality(S) -> S] : \A i, j \in DOMAIN o : o[i] = o[j] => i = j}

\* What a scan has for each table of the database: one step, or two.
StepsFor(step, table) ==
  LET key == <<step.key[1], table>>
  IN  CASE step.do = "probeAll" -> <<Probe(key)>>
        [] step.do = "moveAll"  -> <<Copy(key, <<step.to[1], table>>), Del(key)>>
        [] step.do = "dropAll"  -> <<Del(key), Folder(step.key[1])>>

\* The steps for each table of a scan, table by table.
Expanded(step, tables) ==
  LET order == CHOOSE o \in AnyOrder(tables) : TRUE
      width == IF step.do = "probeAll" THEN 1 ELSE 2
  IN  [i \in 1..(width * Cardinality(tables)) |->
         StepsFor(step, order[((i - 1) \div width) + 1])[((i - 1) % width) + 1]]

(***************************************************************************)
(* One alteration of a table's columns.  A rename puts the column under    *)
(* its new name and then deletes the old name.                             *)
(***************************************************************************)
Altered(cols, a) ==
  CASE a.do = "change" -> IF a.name \in DOMAIN cols THEN Put(cols, a.name, a.def) ELSE cols
    [] a.do = "rename" -> IF a.name \in DOMAIN cols
                            THEN Drop(Put(cols, a.new, cols[a.name]), a.name) ELSE cols
    [] a.do = "add"    -> Put(cols, a.name, a.def)
    [] a.do = "drop"   -> Drop(cols, a.name)

\* database.AlterTable works through the alterations, in any order, until one is refused.
RefusedAlter(cols, a) == IF a.do = "rename" THEN a.name \notin DOMAIN cols ELSE a.name = Id

AlteredInCache(cols, order) ==
  LET after[i \in 0..Len(order)] ==
        IF i = 0 THEN [cols |-> cols, ok |-> TRUE]
        ELSE IF ~after[i - 1].ok THEN after[i - 1]
        ELSE IF RefusedAlter(after[i - 1].cols, order[i])
               THEN [after[i - 1] EXCEPT !.ok = FALSE]
        ELSE [cols |-> Altered(after[i - 1].cols, order[i]), ok |-> TRUE]
  IN  after[Len(order)]

ValidateColumnAlteration(cols) == \A c \in DOMAIN cols : cols[c] = "plain"
ValidateNewTable(cols) == \A c \in DOMAIN cols : cols[c] # "bad"

-----------------------------------------------------------------------------
(* Requests: the check, and the program to run.                            *)

Called(g) == /\ task[g].pc = "idle"
             /\ calls < MaxCalls
             /\ calls' = calls + 1

\* The others are no longer alone.
Begin(g, t) ==
  task' = [h \in Goroutines |->
             IF h = g THEN [t EXCEPT !.clean = \A i \in Goroutines : task[i].pc = "idle"]
             ELSE IF task[h].pc = "idle" THEN task[h]
             ELSE [task[h] EXCEPT !.clean = FALSE]]

Failed == [NoTask EXCEPT !.ok = FALSE]

Run(g, op, steps) ==
  /\ Called(g)
  /\ Begin(g, [NoTask EXCEPT !.op = op, !.pc = "store", !.steps = steps])
  /\ UNCHANGED <<diskVars, full, protos, cacheStale, protoStale>>

CreateDatabase(g, db) ==
  /\ db \notin DOMAIN full
  /\ Run(g, "createDatabase", <<SetQuietly(<<db>>, NoSchema)>>)

CreateTable(g, db, table, cols) ==
  /\ IsDatabaseExists(full, db)
  /\ ~IsTableExists(full, db, table)
  /\ ValidateNewTable(cols)
  /\ Run(g, "createTable", <<Set(<<db, table>>, Put(cols, Id, "plain"))>>)

RenameDatabase(g, db, to) ==
  /\ IsDatabaseExists(full, db)
  /\ ~IsDatabaseExists(full, to)
  /\ Run(g, "renameDatabase",
         <<ForTables("probeAll", db, db), ForTables("moveAll", db, to),
           Set(<<to>>, NoSchema), Del(<<db>>), Folder(db)>>)

RenameTable(g, db, table, to) ==
  /\ IsTableExists(full, db, table)
  /\ ~IsTableExists(full, db, to)
  /\ Run(g, "renameTable",
         <<Probe(<<db, table>>), Copy(<<db, table>>, <<db, to>>), Del(<<db, table>>),
           Folder(db)>>)

DeleteTable(g, db, table) ==
  /\ IsTableExists(full, db, table)
  /\ Run(g, "deleteTable", <<Del(<<db, table>>), Folder(db)>>)

DeleteDatabase(g, db) ==
  /\ IsDatabaseExists(full, db)
  /\ Run(g, "deleteDatabase", <<ForTables("dropAll", db, db), Del(<<db>>), Folder(db)>>)

(***************************************************************************)
(* AlterTable changes FullSchema[db][table] itself, then checks what has   *)
(* come of it; the store manager goes through the alterations again, in an *)
(* order of its own, saving the columns after each.                        *)
(***************************************************************************)
AlterTable(g, db, table, alters) ==
  /\ IsTableExists(full, db, table)
  /\ \E o1, o2 \in AnyOrder(alters) :
       LET cache == AlteredInCache(full[db][table], o1)
           accepted == cache.ok /\ ValidateColumnAlteration(cache.cols)
       IN  /\ Called(g)
           /\ full' = [full EXCEPT ![db][table] = cache.cols]
           /\ cacheStale' = (cacheStale \/ full' # full)
           /\ IF accepted
                THEN Begin(g, [NoTask EXCEPT !.op = "alterTable", !.pc = "store",
                         !.steps = <<ReadCols(<<db, table>>)>>
                                   \o [i \in DOMAIN o2 |-> Alter(<<db, table>>, o2[i])]])
                ELSE Begin(g, Failed)
  /\ UNCHANGED <<diskVars, protos, protoStale>>

SetProtocol(g, pw, proto) ==
  /\ Called(g)
  /\ proto # Empty
  /\ Begin(g, [NoTask EXCEPT !.op = "setProtocol", !.pc = "accept", !.pw = pw,
                             !.proto = proto])
  /\ UNCHANGED <<diskVars, full, protos, cacheStale, protoStale>>

DeleteProtocol(g, pw) ==
  /\ Called(g)
  /\ Begin(g, [NoTask EXCEPT !.op = "deleteProtocol", !.pc = "revoke", !.pw = pw])
  /\ UNCHANGED <<diskVars, full, protos, cacheStale, protoStale>>

-----------------------------------------------------------------------------
(* The steps of a request's program.                                       *)

Next1(g) == Tail(task[g].steps)

\* Mutant: a dropped table's cache entry is left as it is.
OnwardNoReload(g, steps) ==
  [task[g] EXCEPT !.steps = steps,
                  !.pc = IF steps # <<>> THEN "store"
                         ELSE IF task[g].op = "deleteTable" THEN "idle" ELSE "dbs"]

\* Mutant: the end of the program is not noticed.
OnwardNoEnd(g, steps) == [task[g] EXCEPT !.steps = steps, !.pc = "store"]

\* Where a request goes when its store operations are done.
Onward(g, steps) ==
  [task[g] EXCEPT !.steps = steps, !.pc = IF steps = <<>> THEN "dbs" ELSE "store"]

AtStep(g, kinds) == task[g].pc = "store" /\ Head(task[g].steps).do \in kinds

\* A write to the schema keys: every reload under way has read too early.
SchemaWrite(g, keys, t) ==
  /\ schemaKeys' = keys
  /\ cacheStale' = TRUE
  /\ task' = [h \in Goroutines |->
                IF h = g THEN t
                ELSE IF task[h].pc \in {"tables", "load", "install"}
                  THEN [task[h] EXCEPT !.stale = TRUE]
                  ELSE task[h]]
  /\ UNCHANGED <<full, protoKeys, protos, calls, protoStale>>

StoreSet(g) ==
  /\ AtStep(g, {"set", "setQuietly"})
  /\ LET s == Head(task[g].steps)
     IN  SchemaWrite(g, Put(schemaKeys, s.key, s.val), Onward(g, Next1(g)))

StoreDelete(g) ==
  /\ AtStep(g, {"del"})
  /\ SchemaWrite(g, Drop(schemaKeys, Head(task[g].steps).key), Onward(g, Next1(g)))

\* RenameSchemaKeys: the table's columns under the new key; the old one goes next.
StoreCopy(g) ==
  /\ AtStep(g, {"copy"})
  /\ LET s == Head(task[g].steps)
     IN  /\ s.key \in DOMAIN schemaKeys
         /\ SchemaWrite(g, Put(schemaKeys, s.to, schemaKeys[s.key]), Onward(g, Next1(g)))

\* storemanager.AlterTable saves the columns it has read and altered since.
StoreAlter(g) ==
  /\ AtStep(g, {"alter"})
  /\ LET s == Head(task[g].steps)
         cols == Altered(task[g].cols, s.val)
     IN  SchemaWrite(g, Put(schemaKeys, s.key, cols), [Onward(g, Next1(g)) EXCEPT !.cols = cols])

\* Steps that change no schema key: a request's own progress.
Progress(g, t) ==
  /\ task' = [task EXCEPT ![g] = t]
  /\ UNCHANGED <<diskVars, full, protos, calls, cacheStale, protoStale>>

StoreScan(g) ==
  /\ AtStep(g, Scans)
  /\ LET s == Head(task[g].steps)
         tables == {k[2] : k \in TableKeys(s.key[1])}
     IN  Progress(g, Onward(g, Expanded(s, tables) \o Next1(g)))

StoreRead(g) ==
  /\ AtStep(g, {"read", "probe"})
  /\ LET s == Head(task[g].steps)
     IN  /\ s.key \in DOMAIN schemaKeys
         /\ Progress(g, [Onward(g, Next1(g)) EXCEPT
                           !.cols = IF s.do = "read" THEN schemaKeys[s.key] ELSE @])

StoreFolder(g) == AtStep(g, {"folder"}) /\ Progress(g, Onward(g, Next1(g)))

\* A step that fails ends the request: nothing is undone, nothing reloaded.
StoreFails(g) ==
  /\ task[g].pc = "store"
  /\ LET s == Head(task[g].steps)
     IN  /\ \/ s.do \in {"copy", "read", "probe"} /\ s.key \notin DOMAIN schemaKeys
            \/ s.do = "folder" /\ "folder" \in Faults
            \/ s.do # "folder" /\ "store" \in Faults
         /\ Progress(g, IF s.do = "setQuietly"
                          THEN [Onward(g, Next1(g)) EXCEPT !.clean = FALSE]
                          ELSE Failed)

-----------------------------------------------------------------------------
(* GetFullSchema and SetFullSchema.                                        *)

GetDatabases(g) ==
  /\ task[g].pc = "dbs"
  /\ LET dbs == {k[1] : k \in DbKeys}
     IN  Progress(g, [task[g] EXCEPT !.pc = IF dbs = {} THEN "install" ELSE "tables",
                                     !.dbs = dbs, !.stale = FALSE])

\* After a database's tables (or one of them) are read, what is read next.
Reading(t) == [t EXCEPT !.pc = IF t.tabs # {} THEN "load"
                               ELSE IF t.dbs # {} THEN "tables" ELSE "install"]

GetTables(g) ==
  /\ task[g].pc = "tables"
  /\ LET db == CHOOSE d \in task[g].dbs : TRUE
     IN  Progress(g, Reading([task[g] EXCEPT !.dbs = @ \ {db},
                                             !.tabs = TableKeys(db),
                                             !.got = Put(@, db, Empty)]))

GetTableSchema(g) ==
  /\ task[g].pc = "load"
  /\ LET key == CHOOSE k \in task[g].tabs : TRUE
     IN  /\ key \in DOMAIN schemaKeys
         /\ Progress(g, Reading([task[g] EXCEPT
                          !.tabs = @ \ {key},
                          !.got = Put(@, key[1], Put(@[key[1]], key[2], schemaKeys[key]))]))

\* GetFullSchema's error is ignored, and its nil result installed.
GetFullSchemaFails(g) ==
  /\ \/ task[g].pc = "load" /\ (CHOOSE k \in task[g].tabs : TRUE) \notin DOMAIN schemaKeys
     \/ task[g].pc \in {"dbs", "tables", "load"} /\ "store" \in Faults
  /\ Progress(g, [task[g] EXCEPT !.pc = "install", !.got = Empty, !.dbs = {}, !.tabs = {},
                                 !.stale = TRUE, !.clean = FALSE])

\* Mutant: what was read is put over what was there.
SetFullSchemaMerged(g) ==
  /\ task[g].pc = "install"
  /\ full' = [db \in DOMAIN full \cup DOMAIN task[g].got |->
                IF db \in DOMAIN task[g].got THEN task[g].got[db] ELSE full[db]]
  /\ cacheStale' = task[g].stale
  /\ task' = [task EXCEPT ![g].pc = "accept", ![g].pw = Default,
                          ![g].proto = ProtocolBySchema(task[g].got), ![g].got = Empty]
  /\ UNCHANGED <<diskVars, protos, calls, protoStale>>

SetFullSchema(g) ==
  /\ task[g].pc = "install"
  /\ full' = task[g].got
  /\ cacheStale' = task[g].stale
  /\ task' = [task EXCEPT ![g].pc = "accept", ![g].pw = Default,
                          ![g].proto = ProtocolBySchema(task[g].got), ![g].got = Empty]
  /\ UNCHANGED <<diskVars, protos, calls, protoStale>>

-----------------------------------------------------------------------------
(* SetProtocol, DeleteProtocolByPassword and SetupProtocols.               *)

DDL == {"createDatabase", "createTable", "renameDatabase", "renameTable", "alterTable",
        "deleteDatabase", "deleteTable"}

\* A DDL request does not see what becomes of its default protocol.
Finish(g, ok) == [NoTask EXCEPT !.ok = ok \/ task[g].op \in DDL]

ProtoWrite(g, keys) ==
  /\ protoKeys' = keys
  /\ protoStale' = TRUE
  /\ task' = [h \in Goroutines |->
                IF h = g THEN [task[g] EXCEPT !.pc = "ids"]
                ELSE IF task[h].pc \in {"clear", "fill", "put"}
                  THEN [task[h] EXCEPT !.pstale = TRUE]
                  ELSE task[h]]
  /\ UNCHANGED <<schemaKeys, full, protos, calls, cacheStale>>

AcceptProtocol(g) ==
  /\ task[g].pc = "accept"
  /\ task[g].proto # Empty /\ ValidateProtocol(full, task[g].proto)
  /\ ProtoWrite(g, Put(protoKeys, task[g].pw, task[g].proto))

RefuseProtocol(g) ==
  /\ task[g].pc = "accept"
  /\ task[g].proto = Empty \/ ~ValidateProtocol(full, task[g].proto)
  /\ Progress(g, Finish(g, FALSE))

RevokeProtocol(g) ==
  /\ task[g].pc = "revoke"
  /\ ProtoWrite(g, Drop(protoKeys, task[g].pw))

GetProtocolIDs(g) ==
  /\ task[g].pc = "ids"
  /\ Progress(g, [task[g] EXCEPT !.pc = "clear", !.ids = DOMAIN protoKeys, !.pstale = FALSE])

\* Mutant: the map is filled without being emptied.
ClearProtocolsKept(g) ==
  /\ task[g].pc = "clear"
  /\ protoStale' = (task[g].ids # {} \/ task[g].pstale)
  /\ task' = [task EXCEPT ![g] = IF task[g].ids = {} THEN Finish(g, TRUE)
                                 ELSE [task[g] EXCEPT !.pc = "fill"]]
  /\ UNCHANGED <<diskVars, full, protos, calls, cacheStale>>

\* The fills under way lose what they have put.
ClearProtocols(g) ==
  /\ task[g].pc = "clear"
  /\ protos' = Empty
  /\ protoStale' = (task[g].ids # {} \/ task[g].pstale)
  /\ task' = [h \in Goroutines |->
                IF h = g THEN IF task[g].ids = {} THEN Finish(g, TRUE)
                              ELSE [task[g] EXCEPT !.pc = "fill"]
                ELSE IF task[h].pc \in {"fill", "put"} THEN [task[h] EXCEPT !.pstale = TRUE]
                ELSE task[h]]
  /\ UNCHANGED <<diskVars, full, calls, cacheStale>>

GetProtocolByPassword(g) ==
  /\ task[g].pc = "fill"
  /\ \E id \in task[g].ids :
       /\ id \in DOMAIN protoKeys
       /\ Progress(g, [task[g] EXCEPT !.pc = "put", !.pw = id, !.proto = protoKeys[id]])

PutProtocol(g) ==
  /\ task[g].pc = "put"
  /\ protos' = Put(protos, task[g].pw, task[g].proto)
  /\ LET left == task[g].ids \ {task[g].pw}
     IN  /\ protoStale' = IF left = {} THEN task[g].pstale ELSE protoStale \/ task[g].pstale
         /\ task' = [h \in Goroutines |->
                       IF h = g THEN IF left = {} THEN Finish(g, TRUE)
                                     ELSE [task[g] EXCEPT !.pc = "fill", !.ids = left]
                       ELSE IF task[g].pstale /\ task[h].pc \in {"fill", "put"}
                         THEN [task[h] EXCEPT !.pstale = TRUE]
                         ELSE task[h]]
  /\ UNCHANGED <<diskVars, full, calls, cacheStale>>

\* An error leaves the map as far as it was filled.
ProtocolFails(g) ==
  /\ \/ task[g].pc \in {"accept", "revoke", "ids"} /\ "store" \in Faults
     \/ task[g].pc = "fill" /\ ("store" \in Faults \/ task[g].ids \ DOMAIN protoKeys # {})
  /\ task' = [task EXCEPT ![g] = [Finish(g, FALSE) EXCEPT !.clean = FALSE]]
  /\ protoStale' = TRUE
  /\ UNCHANGED <<diskVars, full, protos, calls, cacheStale>>

\* A restart: init sets the caches up from the disk, and the default protocol from them.
Restart ==
  /\ "crash" \in Faults
  /\ full' = DiskSchema
  /\ protoKeys' = IF DiskSchema = Empty THEN protoKeys
                  ELSE Put(protoKeys, Default, ProtocolBySchema(DiskSchema))
  /\ protos' = protoKeys'
  /\ task' = [g \in Goroutines |-> NoTask]
  /\ cacheStale' = FALSE
  /\ protoStale' = FALSE
  /\ UNCHANGED <<schemaKeys, calls>>

-----------------------------------------------------------------------------
Request(g) ==
  \/ \E db \in Dbs : CreateDatabase(g, db) \/ DeleteDatabase(g, db)
  \/ \E db, to \in Dbs : RenameDatabase(g, db, to)
  \/ \E db \in Dbs, table \in Tabs :
       \/ \E cols \in Schemas : CreateTable(g, db, table, cols)
       \/ \E to \in Tabs : RenameTable(g, db, table, to)
       \/ \E alters \in Alterations : AlterTable(g, db, table, alters)
       \/ DeleteTable(g, db, table)
  \/ \E pw \in Passwords, proto \in UserProtocols : SetProtocol(g, pw, proto)
  \/ \E pw \in Passwords : DeleteProtocol(g, pw)

StoreStep(g) ==
  \/ StoreSet(g) \/ StoreDelete(g) \/ StoreCopy(g) \/ StoreAlter(g)
  \/ StoreScan(g) \/ StoreRead(g) \/ StoreFolder(g) \/ StoreFails(g)

ReloadStep(g) ==
  \/ GetDatabases(g) \/ GetTables(g) \/ GetTableSchema(g) \/ GetFullSchemaFails(g)
  \/ SetFullSchema(g)

ProtocolStep(g) ==
  \/ AcceptProtocol(g) \/ RefuseProtocol(g) \/ RevokeProtocol(g)
  \/ GetProtocolIDs(g) \/ ClearProtocols(g) \/ GetProtocolByPassword(g)
  \/ PutProtocol(g) \/ ProtocolFails(g)

Next ==
  \/ \E g \in Goroutines : Request(g) \/ StoreStep(g) \/ ReloadStep(g) \/ ProtocolStep(g)
  \/ Restart

CatalogSpec == Init /\ [][Next]_vars

-----------------------------------------------------------------------------
Ops == DDL \cup {"none", "setProtocol", "deleteProtocol"}
Pcs == {"idle", "store", "dbs", "tables", "load", "install",
        "accept", "revoke", "ids", "clear", "fill", "put"}
Kinds == Scans \cup {"set", "setQuietly", "del", "copy", "probe", "read", "alter", "folder"}

\* A store operation on the keys and values it is for.
StepFits(s) ==
  /\ s.do \in {"set", "setQuietly"} => EntryOK(s.key, s.val)
  /\ s.do \in {"copy", "probe", "read", "alter"} => s.key \in TableNamed
  /\ s.do = "copy" => s.to \in TableNamed
  /\ s.do = "alter" => s.val \in AlterationForms
  /\ s.do \in Scans => s.key \in DbNamed /\ s.to \in DbNamed

Steps ==
  {s \in [do : Kinds, key : DbNamed \cup TableNamed, to : DbNamed \cup TableNamed,
          val : {NoSchema} \cup ColSets \cup AlterationForms] : StepFits(s)}

\* A program's alterations have columns to start from, or read them first.
HasColumns(steps, cols) ==
  (\E i \in DOMAIN steps : steps[i].do = "alter") => Head(steps).do = "read" \/ cols \in ColSets

\* The fields of a request's progress.
TaskForm(t) ==
  t \in [op : Ops, pc : Pcs, steps : Seq(Steps), cols : {NoSchema} \cup ColSets,
         dbs : SUBSET Dbs, tabs : SUBSET TableNamed, got : {t.got}, stale : BOOLEAN,
         pw : {NoPassword} \cup Passwords, proto : {t.proto}, ids : SUBSET Passwords,
         pstale : BOOLEAN, ok : BOOLEAN, clean : BOOLEAN]

(***************************************************************************)
(* A request's progress: it has operations to do exactly while it is in    *)
(* its program, whose alterations start from the columns a read fetched;   *)
(* and a reload reads a table only for a database it has come to.          *)
(***************************************************************************)
TaskOK(t) ==
  /\ TaskForm(t)
  /\ IsSchema(t.got)
  /\ (t.pc = "store") = (t.steps # <<>>)
  /\ HasColumns(t.steps, t.cols)
  /\ t.pc \in {"store", "dbs", "tables", "load", "install"} => t.op \in DDL
  /\ t.pc = "revoke" => t.op = "deleteProtocol"
  /\ t.pc \in {"accept", "revoke", "put"} => t.pw \in Passwords
  /\ t.pc \in {"idle", "store", "dbs"} => t.got = Empty
  /\ t.pc = "tables" => t.dbs # {}
  /\ (t.pc = "load") = (t.tabs # {})
  /\ t.pc = "install" => t.dbs = {}
  /\ \A k \in t.tabs : k[1] \in DOMAIN t.got

\* Types of what is on disk, in memory and under way.
CatalogTypeOK ==
  /\ CatalogOK(schemaKeys)
  /\ IsSchema(full)
  /\ IsMap(protoKeys, Passwords, Range(protoKeys))
  /\ IsMap(protos, Passwords, Range(protos))
  /\ DOMAIN task = Goroutines /\ \A g \in Goroutines : TaskOK(task[g])
  /\ calls \in 0..MaxCalls

(***************************************************************************)
(* Unless a schema key has changed since the installed reload began, or an *)
(* AlterTable has changed the cache in place, FullSchema is exactly what   *)
(* is on disk: whatever requests, failures and restarts came before, no    *)
(* other way leads to a stale cache.                                       *)
(***************************************************************************)
CacheFresh == ~cacheStale => full = DiskSchema

\* The same of the protocols in memory, which are filled one by one.
ProtosFresh == ~protoStale => protos = protoKeys

(***************************************************************************)
(* A request that ran alone, and none of whose steps failed, leaves both   *)
(* caches as the disk is, whatever disorder it found; one that changes the *)
(* schema also leaves the default protocol naming exactly the schema       *)
(* (database.SetFullSchema), unless no database is left.                   *)
(***************************************************************************)
Completes(g) == /\ task[g].pc # "idle" /\ task[g].clean
                /\ task'[g].pc = "idle" /\ task'[g].ok /\ task'[g].clean

SoloRequestsRefresh ==
  [][\A g \in Goroutines : Completes(g) =>
       /\ task[g].op \in DDL => full' = DiskSchema'
       /\ task[g].op \in DDL /\ full' # Empty =>
            Default \in DOMAIN protoKeys' /\ protoKeys'[Default] = ProtocolBySchema(full')
       /\ task[g].op \notin DDL \/ full' # Empty => protos' = protoKeys']_vars

(***************************************************************************)
(* A protocol stored while the cache was fresh reaches, by its fields and  *)
(* its relations' keys, only tables and columns that are in the schema on  *)
(* disk (ValidateProtocol and what it calls).                              *)
(***************************************************************************)
AcceptedProtocolsResolve ==
  [][\A pw \in DOMAIN protoKeys' :
       \/ pw \in DOMAIN protoKeys /\ protoKeys'[pw] = protoKeys[pw]
       \/ cacheStale
       \/ Resolves(DiskSchema, protoKeys'[pw])]_vars

(***************************************************************************)
(* What keeps the two caches' invariants inductive.  A reload that no      *)
(* write has overtaken has, of every database, the tables read so far as   *)
(* they are on disk, and those it has still to read before it; a refill    *)
(* that no write or other refill has overtaken has the protocols read so   *)
(* far in the map, and no others.                                          *)
(***************************************************************************)
ReloadFits(t) ==
  t.pc \in {"tables", "load", "install"} /\ ~t.stale =>
    /\ t.dbs \cup DOMAIN t.got = {k[1] : k \in DbKeys}
    /\ \A db \in DOMAIN t.got :
         /\ \A table \in DOMAIN t.got[db] : <<db, table>> \in TableKeys(db)
         /\ \A k \in TableKeys(db) \ t.tabs :
              k[2] \in DOMAIN t.got[db] /\ t.got[db][k[2]] = schemaKeys[k]

RefillFits(t) ==
  /\ t.pc = "clear" /\ ~t.pstale => t.ids = DOMAIN protoKeys
  /\ t.pc \in {"fill", "put"} /\ ~t.pstale =>
       /\ DOMAIN protos \subseteq DOMAIN protoKeys
       /\ \A pw \in DOMAIN protoKeys \ t.ids :
            pw \in DOMAIN protos /\ protos[pw] = protoKeys[pw]
  /\ t.pc = "put" /\ ~t.pstale => t.pw \in DOMAIN protoKeys /\ t.proto = protoKeys[t.pw]

(***************************************************************************)
(* And what a request that runs alone can rely on: nobody else is at work, *)
(* and each phase finds what the one before it left.                       *)
(***************************************************************************)
SoloFits(t) ==
  t.pc # "idle" /\ t.clean =>
    /\ t.pc \in {"tables", "load", "install"} => ~t.stale
    /\ t.pc \in {"clear", "fill", "put"} => ~t.pstale
    /\ t.op \in DDL /\ t.pc \in {"accept", "ids", "clear", "fill", "put"} => full = DiskSchema
    /\ t.op \in DDL /\ t.pc = "accept" => t.pw = Default /\ t.proto = ProtocolBySchema(full)
    /\ t.op \in DDL /\ t.pc \in {"ids", "clear", "fill", "put"} =>
         Default \in DOMAIN protoKeys /\ protoKeys[Default] = ProtocolBySchema(full)

CleanRunsAlone ==
  \A g, h \in Goroutines :
    g # h /\ task[g].pc # "idle" /\ task[g].clean => task[h].pc = "idle"

CatalogInv ==
  /\ CatalogTypeOK /\ CleanRunsAlone
  /\ \A g \in Goroutines : ReloadFits(task[g]) /\ RefillFits(task[g]) /\ SoloFits(task[g])
  /\ CacheFresh /\ ProtosFresh
=============================================================================
