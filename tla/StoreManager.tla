---------------------------- MODULE StoreManager ----------------------------
(***************************************************************************)
(* InsertData, UpdateData, DeleteData and GetData of storemanager (data.go *)
(* and SaveIndex, DeleteIndex, GenIndex in index.go), called concurrently  *)
(* by database.Insert, Update, UpdatePartial and Delete.                   *)
(*                                                                         *)
(* This module composes DataSync (the rows) and IndexSync (the index): a   *)
(* step of a call is at most one critical section or store operation of    *)
(* one of the two, conjoined with the call's own progress; their flushers  *)
(* run in between.  Nothing locks a row or a pair row-and-index entry.     *)
(*                                                                         *)
(* A row maps columns to values; a JSON column has one leaf value.  The    *)
(* index key of a column's value is the pair <<column, value>>.            *)
(***************************************************************************)
EXTENDS Naturals, FiniteSets, Sequences

CONSTANTS
  Pks, Cols, JsonCols, Vals,
  NoRow, NoPk, NoIndexKey,
  Goroutines,                 \* one request each at a time
  MaxCalls,                   \* bound on the calls made in all
  DataBufferLimit, MaxSpawned, FaultyPks,
  AddTimer, AddSpawned, DelTimer, DelSpawned, BufferLimit, DeleteBufferLimit,
  Faults

Rows == UNION {[cols -> Vals] : cols \in (SUBSET Cols) \ {{}}}
FullRows == [Cols -> Vals]
IndexKeys == Cols \X Vals
NestedKeys == JsonCols \X Vals

\* A table has at least its id column; the rest is what the components assume.
ASSUME StoreManagerConstants ==
  /\ Cols # {} /\ JsonCols \subseteq Cols
  /\ NoPk \notin Pks /\ NoRow \notin Rows /\ NoIndexKey \notin IndexKeys
  /\ MaxCalls \in Nat
  /\ DataBufferLimit \in Nat \ {0} /\ MaxSpawned \in Nat /\ FaultyPks \subseteq Pks
  /\ (AddSpawned \cup {AddTimer}) \cap (DelSpawned \cup {DelTimer}) = {}
  /\ AddTimer \notin AddSpawned /\ DelTimer \notin DelSpawned
  /\ BufferLimit \in Nat \ {0} /\ DeleteBufferLimit \in Nat \ {0}
  /\ Faults \subseteq {"open", "get", "set", "crash"}

VARIABLES
  ram, disk, todo, written, spawned, call, got, seen,          \* DataSync
  indexBuffer, indexDeleteBuffer, index, job, queued,          \* IndexSync
  prog,      \* each goroutine's place in its call
  used,      \* the keys GenerateID has handed out or a client has named
  calls,     \* calls made so far, for MaxCalls
  gone       \* history: deleted, and not saved since the delete began

dataVars == <<ram, disk, todo, written, spawned, call, got, seen>>
indexVars == <<indexBuffer, indexDeleteBuffer, index, job, queued>>
callVars == <<prog, used, calls, gone>>
vars == <<dataVars, indexVars, callVars>>

DS == INSTANCE DataSync WITH
        DataKeys <- Pks, NoKey <- NoPk, FaultyKeys <- FaultyPks,
        CrashEnabled <- "crash" \in Faults

IS == INSTANCE IndexSync

(***************************************************************************)
(* A call: what it does, to which key, how far it is, the row it is to     *)
(* save (or, for "partial", the fields it was given), the row it found,    *)
(* the index keys it has still to queue for deletion and for addition, and *)
(* the primary keys a DeleteData has still to process after this one.      *)
(***************************************************************************)
NoCall == [op |-> "none", pc |-> "idle", pk |-> NoPk, row |-> NoRow,
           fields |-> NoRow, prev |-> NoRow, dels |-> {}, adds |-> {},
           rest |-> <<>>]

Progress ==
  [op : {"none", "get", "insert", "update", "partial", "delete"},
   pc : {"idle", "load", "loading", "saving", "indexing", "erasing"},
   pk : Pks \cup {NoPk},
   row : Rows \cup {NoRow}, fields : Rows \cup {NoRow}, prev : Rows \cup {NoRow},
   dels : SUBSET IndexKeys, adds : SUBSET IndexKeys, rest : Seq(Pks)]

CallTypeOK ==
  /\ prog \in [Goroutines -> Progress]
  /\ used \subseteq Pks
  /\ calls \in 0..MaxCalls
  /\ gone \subseteq Pks

StoreTypeOK == DS!DataTypeOK /\ IS!IndexTypeOK /\ CallTypeOK

Init ==
  /\ DS!DataInit
  /\ IS!IndexInit
  /\ prog = [g \in Goroutines |-> NoCall]
  /\ used = {}
  /\ calls = 0
  /\ gone = {}

-----------------------------------------------------------------------------
\* Mutant: an index key made of the column name alone.
GenIndexOfName(row) == {<<c, c>> : c \in DOMAIN row}

GenIndex(row) == {<<c, row[c]>> : c \in DOMAIN row}

OldIndexes(prev) == IF prev = NoRow THEN {} ELSE GenIndex(prev)

Merge(fields, row) ==
  IF row = NoRow
    THEN fields
    ELSE [c \in DOMAIN fields \cup DOMAIN row |->
            IF c \in DOMAIN fields THEN fields[c] ELSE row[c]]

Called(g) == /\ prog[g].pc = "idle"
             /\ calls < MaxCalls
             /\ calls' = calls + 1

\* Mutant: the RAM map written without the mutex.
SaveUnlocked(pk, row) ==
  /\ ram' = [ram EXCEPT ![pk] = row]
  /\ gone' = gone \ {pk}
  /\ UNCHANGED <<disk, todo, written, spawned, call, got, seen>>

Save(pk, row) == DS!SaveData(pk, row) /\ gone' = gone \ {pk}

Returns(g) == prog' = [prog EXCEPT ![g] = NoCall]

\* InsertData: a fresh key, the row into RAM, then SaveIndex.
InsertData(g, pk, row) ==
  /\ Called(g)
  /\ pk \notin used
  /\ used' = used \cup {pk}
  /\ Save(pk, row)
  /\ prog' = [prog EXCEPT ![g] =
       [NoCall EXCEPT !.op = "insert", !.pc = "indexing", !.pk = pk,
                      !.row = row, !.adds = GenIndex(row)]]
  /\ UNCHANGED indexVars

\* GetData, and the GetData the other calls begin with: the look-up in RAM.
StartGet(g, progress) ==
  /\ Called(g)
  /\ DS!GetDataFromRamSync(g, progress.pk)
  /\ prog' = [prog EXCEPT ![g] = progress]
  /\ used' = used \cup {progress.pk}
  /\ UNCHANGED <<indexVars, gone>>

Loading(op, pk) == [NoCall EXCEPT !.op = op, !.pc = "loading", !.pk = pk]

GetData(g, pk) == StartGet(g, Loading("get", pk))

UpdateData(g, pk, row) ==
  StartGet(g, [Loading("update", pk) EXCEPT !.row = row])

UpdatePartial(g, pk, fields) ==
  StartGet(g, [Loading("partial", pk) EXCEPT !.fields = fields])

DeleteData(g, pks) ==
  StartGet(g, [Loading("delete", Head(pks)) EXCEPT !.rest = Tail(pks)])

\* A GetData inside a call already under way.
LoadFromRam(g) ==
  /\ prog[g].pc = "load"
  /\ DS!GetDataFromRamSync(g, prog[g].pk)
  /\ prog' = [prog EXCEPT ![g].pc = "loading"]
  /\ used' = used \cup {prog[g].pk}
  /\ UNCHANGED <<indexVars, calls, gone>>

LoadFromDisk(g) ==
  /\ DS!GetDataFromDisk(g)
  /\ UNCHANGED <<indexVars, callVars>>

\* The row is there: the call's next move, by what the call does.
Loaded(g, op) ==
  /\ prog[g].pc = "loading" /\ prog[g].op = op
  /\ DS!GetDataReturns(g)
  /\ UNCHANGED <<indexVars, used, calls, gone>>

GetDone(g) == Loaded(g, "get") /\ Returns(g)

\* UpdatePartial merges and calls UpdateData, which reads the row again.
MergeFields(g) ==
  /\ Loaded(g, "partial")
  /\ prog' = [prog EXCEPT ![g].op = "update", ![g].pc = "load",
                          ![g].row = Merge(prog[g].fields, got[g])]

(***************************************************************************)
(* UpdateData's check for "no existing data found for update" counts the   *)
(* rows GetData returned, and GetData returns a row, if an empty one, for  *)
(* every key: the update goes on.                                          *)
(***************************************************************************)
FoundForUpdate(g) ==
  /\ Loaded(g, "update")
  /\ prog' = [prog EXCEPT ![g].pc = "saving", ![g].prev = got[g]]

\* Mutant: SaveIndex called with the two rows swapped.
UpdateSaveSwapped(g) ==
  /\ prog[g].pc = "saving"
  /\ Save(prog[g].pk, prog[g].row)
  /\ prog' = [prog EXCEPT ![g].pc = "indexing",
                          ![g].dels = GenIndex(prog[g].row),
                          ![g].adds = OldIndexes(prog[g].prev)]
  /\ UNCHANGED <<indexVars, used, calls>>

UpdateSave(g) ==
  /\ prog[g].pc = "saving"
  /\ Save(prog[g].pk, prog[g].row)
  /\ prog' = [prog EXCEPT ![g].pc = "indexing",
                          ![g].dels = OldIndexes(prog[g].prev),
                          ![g].adds = GenIndex(prog[g].row)]
  /\ UNCHANGED <<indexVars, used, calls>>

\* SaveIndex step 1, and DeleteIndex: one key at a time, in any order.
QueueDelete(g, k) ==
  /\ prog[g].pc = "indexing"
  /\ k \in prog[g].dels
  /\ IS!AddToDeleteBuffer(k, prog[g].pk)
  /\ prog' = [prog EXCEPT ![g].dels = @ \ {k}]
  /\ UNCHANGED <<dataVars, used, calls, gone>>

\* Mutant: the primary key written straight to the list on disk.
QueueAddUnbuffered(g, k) ==
  /\ prog[g].pc = "indexing"
  /\ prog[g].dels = {}
  /\ k \in prog[g].adds
  /\ index' = [index EXCEPT ![k] = @ \cup {prog[g].pk}]
  /\ IF prog[g].adds = {k}
       THEN Returns(g)
       ELSE prog' = [prog EXCEPT ![g].adds = @ \ {k}]
  /\ UNCHANGED <<dataVars, indexBuffer, indexDeleteBuffer, job, queued>>
  /\ UNCHANGED <<used, calls, gone>>

\* SaveIndex step 2; InsertData and UpdateData return after the last key.
QueueAdd(g, k) ==
  /\ prog[g].pc = "indexing"
  /\ prog[g].dels = {}
  /\ k \in prog[g].adds
  /\ IS!AddToIndexBuffer(k, prog[g].pk)
  /\ IF prog[g].adds = {k}
       THEN Returns(g)
       ELSE prog' = [prog EXCEPT ![g].adds = @ \ {k}]
  /\ UNCHANGED <<dataVars, used, calls, gone>>

\* DeleteIndex fails on a row without an id, and DeleteData returns its error.
DeleteIndex(g) ==
  /\ Loaded(g, "delete")
  /\ IF got[g] = NoRow
       THEN Returns(g)
       ELSE prog' = [prog EXCEPT ![g].pc = "indexing", ![g].prev = got[g],
                                 ![g].dels = GenIndex(got[g])]

DeleteFromRam(g) ==
  /\ prog[g].pc = "indexing" /\ prog[g].op = "delete" /\ prog[g].dels = {}
  /\ DS!DeleteDataFromRamSync(g, prog[g].pk)
  /\ gone' = gone \cup {prog[g].pk}
  /\ prog' = [prog EXCEPT ![g].pc = "erasing"]
  /\ UNCHANGED <<indexVars, used, calls>>

\* DeleteData goes on with the next key of its list, if any.
DeleteFromDisk(g) ==
  LET rest == prog[g].rest IN
  /\ DS!DeleteDataFromDisk(g)
  /\ IF rest = <<>>
       THEN Returns(g)
       ELSE prog' = [prog EXCEPT ![g] =
              [Loading("delete", Head(rest)) EXCEPT !.pc = "load",
                                                    !.rest = Tail(rest)]]
  /\ UNCHANGED <<indexVars, used, calls, gone>>

\* On an error it returns.
DeleteFails(g) ==
  /\ DS!DeleteDataFails(g)
  /\ Returns(g)
  /\ gone' = gone \ {prog[g].pk}
  /\ UNCHANGED <<indexVars, used, calls>>

-----------------------------------------------------------------------------
Flush ==
  \/ DS!DataFlush /\ UNCHANGED <<indexVars, callVars>>
  \/ /\ \E f \in IS!Flushers : IS!FlusherStep(f)
     /\ UNCHANGED <<dataVars, callVars>>

Crash ==
  /\ DS!DataCrash
  /\ IS!IndexCrash
  /\ prog' = [g \in Goroutines |-> NoCall]
  /\ gone' = gone \ {prog[g].pk : g \in {h \in Goroutines : prog[h].pc = "erasing"}}
  /\ UNCHANGED <<used, calls>>

Call(g) ==
  \/ \E pk \in Pks : GetData(g, pk)
  \/ \E pk \in Pks, row \in FullRows : InsertData(g, pk, row)
  \/ \E pk \in Pks, row \in FullRows : UpdateData(g, pk, row)
  \/ \E pk \in Pks, fields \in Rows : UpdatePartial(g, pk, fields)
  \/ \E pks \in {<<a>> : a \in Pks} \cup {<<a, b>> : a, b \in Pks} :
        DeleteData(g, pks)

Step(g) ==
  \/ LoadFromRam(g) \/ LoadFromDisk(g)
  \/ GetDone(g)
  \/ MergeFields(g) \/ FoundForUpdate(g) \/ UpdateSave(g)
  \/ \E k \in IndexKeys : QueueDelete(g, k) \/ QueueAdd(g, k)
  \/ DeleteIndex(g) \/ DeleteFromRam(g) \/ DeleteFromDisk(g) \/ DeleteFails(g)

Next ==
  \/ \E g \in Goroutines : Call(g) \/ Step(g)
  \/ Flush
  \/ Crash

Spec == Init /\ [][Next]_vars

-----------------------------------------------------------------------------
PlainCols == Cols \ JsonCols

(***************************************************************************)
(* While the index stays quiet (no store fails, no crash, the insertion    *)
(* buffer never full), a look-up by a plain column cannot miss a row for   *)
(* good: each visible row is under each of its plain values in the index,  *)
(* in the insertion buffer or its flusher's batch, or about to be queued   *)
(* by the call that saved it -- however updates, deletes and flushes race. *)
(***************************************************************************)
Findable(pk, k) ==
  \/ pk \in index[k] \cup IS!OnItsWay(k)
  \/ \E g \in Goroutines : prog[g].pk = pk /\ k \in prog[g].adds

RowsIndexed ==
  IS!QuietIndex =>
    \A pk \in Pks :
      LET row == DS!Visible(pk) IN
      row # NoRow => \A k \in GenIndex(row) : k[1] \in PlainCols => Findable(pk, k)

(***************************************************************************)
(* Once a DeleteData of a key is over, the row stays deleted until the key *)
(* is saved again: no flush running beside the two halves of the delete    *)
(* and no crash after it brings the row back.                              *)
(***************************************************************************)
Erasing(pk) == \E g \in Goroutines : prog[g].pc = "erasing" /\ prog[g].pk = pk

DeletedStaysDeleted ==
  \A pk \in gone : ~Erasing(pk) => DS!Visible(pk) = NoRow

(***************************************************************************)
(* What keeps them inductive: a call is as far in the row store as its own *)
(* progress says; a deleted row is out of RAM, and on disk only until the  *)
(* second half of the delete; and every version of a row in the store --   *)
(* the one a delete or a restart would bring back, too -- has been queued  *)
(* under each of its values, or is about to be.                            *)
(***************************************************************************)
InStep(p, c) ==
  /\ p.pc # "idle" => p.pk \in Pks
  /\ p.pc = "loading" => c.op \in {"read", "done"} /\ c.key = p.pk
  /\ p.pc = "erasing" => c = [op |-> "delete", key |-> p.pk]
  /\ p.pc \notin {"loading", "erasing"} => c.op = "idle"
  /\ p.op = "partial" => p.fields \in Rows
  /\ p.op = "update" => p.row \in Rows
  /\ p.pc = "saving" => p.op = "update"
  /\ p.pc # "indexing" \/ p.op = "delete" => p.adds = {}

CallsInStep == \A g \in Goroutines : InStep(prog[g], call[g])

GoneFromRam ==
  \A pk \in gone : ram[pk] = NoRow /\ (Erasing(pk) \/ disk[pk] = NoRow)

QueuedOrAbout(pk, k) ==
  pk \in queued[k] \/ \E g \in Goroutines : prog[g].pk = pk /\ k \in prog[g].adds

VersionsIndexed ==
  IS!QuietIndex =>
    \A pk \in Pks : \A row \in {ram[pk], disk[pk]} \ {NoRow} :
      \A k \in GenIndex(row) : QueuedOrAbout(pk, k)

StoreInv == StoreTypeOK /\ CallsInStep /\ GoneFromRam /\ VersionsIndexed

(***************************************************************************)
(* The composition implements its components, so that what is proved of    *)
(* them holds here too.                                                    *)
(***************************************************************************)
ImplementsDataSync == DS!DataSpec
ImplementsIndexSync == IS!IndexSpec

-----------------------------------------------------------------------------
(* What a comment of the code says, and the code breaks.                   *)

\* Nothing is under way: every call has returned and every buffer is on disk.
Quiescent ==
  /\ \A g \in Goroutines : prog[g].pc = "idle"
  /\ DS!InRam = {}
  /\ indexBuffer = IS!NoPks /\ indexDeleteBuffer = IS!NoPks
  /\ \A f \in IS!Flushers : job[f].pc = "asleep"

(***************************************************************************)
(* "DeleteIndex removes all index entries for the given data."             *)
(***************************************************************************)
NoStaleEntries ==
  Quiescent =>
    \A k \in IndexKeys : \A pk \in index[k] :
      disk[pk] # NoRow /\ k \in GenIndex(disk[pk])
=============================================================================
