------------------------------ MODULE DataSync ------------------------------
(***************************************************************************)
(* The row store of storemanager (data_sync.go, GetData in data.go, and    *)
(* the Set/Get/Delete of engine/badgerdb.go it relies on).                 *)
(*                                                                         *)
(* Rows are saved in a RAM map guarded by one mutex.  A flusher, started   *)
(* by a timer or by a save that finds the map full, holds that mutex while *)
(* it copies every row to the table's Badger store and drops it from RAM.  *)
(* Readers look in RAM under the mutex and, on a miss, on disk without it. *)
(* Deletes remove the RAM row under the mutex and the disk row without it. *)
(* So a flush excludes saves and RAM look-ups but neither a disk read nor  *)
(* a disk delete that is already under way.                                *)
(*                                                                         *)
(* A goroutine here is one call of GetData or DeleteData for one key.      *)
(***************************************************************************)
EXTENDS Naturals, FiniteSets

CONSTANTS
  DataKeys,           \* the keys "row:db:table:pk"
  Rows,               \* encoded rows
  NoRow,              \* the absence of a row
  NoKey,              \* the absence of a key
  Goroutines,         \* callers of GetData and DeleteData
  DataBufferLimit,    \* dataBufferLimit (500)
  MaxSpawned,         \* bound on flush goroutines waiting for the mutex
  FaultyKeys,         \* keys whose Badger store may fail
  CrashEnabled        \* whether the process may be killed and restarted

ASSUME DataSyncConstants ==
  /\ NoRow \notin Rows
  /\ NoKey \notin DataKeys
  /\ DataBufferLimit \in Nat \ {0}
  /\ MaxSpawned \in Nat
  /\ FaultyKeys \subseteq DataKeys
  /\ CrashEnabled \in BOOLEAN

VARIABLES
  ram,       \* dataRamStorage
  disk,      \* the rows in the Badger stores
  todo,      \* the keys the running flush has still to deal with
  written,   \* the key it has Set on disk and not yet deleted from RAM
  spawned,   \* flush goroutines started by SaveData and not yet running
  call,      \* what each goroutine is in the middle of
  got,       \* the row its last GetData returned
  seen       \* history: the rows that were visible during that GetData

dataVars == <<ram, disk, todo, written, spawned, call, got, seen>>

flushVars == <<todo, written, spawned>>

MaybeRow == Rows \cup {NoRow}

NoCall == [op |-> "idle", key |-> NoKey]
Idle(g) == call[g].op = "idle"
Reading(g, k) == call[g] = [op |-> "read", key |-> k]

\* Only a flush holds dataRamStorageMutex for more than one step.
MutexFree == todo = {}

InRam == {k \in DataKeys : ram[k] # NoRow}

(***************************************************************************)
(* The row a GetData of k returns when nothing else moves.  The RAM copy   *)
(* of the key a flush has just written is out of every reader's reach: the *)
(* flush holds the mutex until it has deleted that copy.                   *)
(***************************************************************************)
Visible(k) == IF ram[k] # NoRow /\ k # written THEN ram[k] ELSE disk[k]

\* History: every GetData of k under way has now seen these rows visible.
Observe(k, rows) ==
  seen' = [g \in Goroutines |->
             IF Reading(g, k) THEN seen[g] \cup rows ELSE seen[g]]

DataTypeOK ==
  /\ ram \in [DataKeys -> MaybeRow]
  /\ disk \in [DataKeys -> MaybeRow]
  /\ todo \subseteq DataKeys
  /\ written \in DataKeys \cup {NoKey}
  /\ spawned \in 0..MaxSpawned
  /\ call \in [Goroutines -> [op : {"idle", "read", "done", "delete"},
                              key : DataKeys \cup {NoKey}]]
  /\ got \in [Goroutines -> MaybeRow]
  /\ seen \in [Goroutines -> SUBSET MaybeRow]

DataInit ==
  /\ ram = [k \in DataKeys |-> NoRow]
  /\ disk = [k \in DataKeys |-> NoRow]
  /\ todo = {}
  /\ written = NoKey
  /\ spawned = 0
  /\ call = [g \in Goroutines |-> NoCall]
  /\ got = [g \in Goroutines |-> NoRow]
  /\ seen = [g \in Goroutines |-> {}]

-----------------------------------------------------------------------------
(* The calls: each is one critical section or one Badger transaction.      *)

SaveData(k, v) ==
  /\ MutexFree
  /\ ram' = [ram EXCEPT ![k] = v]
  /\ IF Cardinality(InRam \cup {k}) >= DataBufferLimit
       THEN spawned < MaxSpawned /\ spawned' = spawned + 1
       ELSE UNCHANGED spawned
  /\ Observe(k, {v})
  /\ UNCHANGED <<disk, todo, written, call, got>>

\* Mutant: the RAM map read without the mutex.
GetDataFromRamUnlocked(g, k) ==
  /\ Idle(g)
  /\ IF ram[k] # NoRow
       THEN /\ call' = [call EXCEPT ![g] = [op |-> "done", key |-> k]]
            /\ got' = [got EXCEPT ![g] = ram[k]]
       ELSE /\ call' = [call EXCEPT ![g] = [op |-> "read", key |-> k]]
            /\ UNCHANGED got
  /\ seen' = [seen EXCEPT ![g] = {Visible(k)}]
  /\ UNCHANGED <<ram, disk, flushVars>>

\* GetData, first half, and all of it when the row is in RAM.
GetDataFromRamSync(g, k) ==
  /\ MutexFree
  /\ Idle(g)
  /\ IF ram[k] # NoRow
       THEN /\ call' = [call EXCEPT ![g] = [op |-> "done", key |-> k]]
            /\ got' = [got EXCEPT ![g] = ram[k]]
       ELSE /\ call' = [call EXCEPT ![g] = [op |-> "read", key |-> k]]
            /\ UNCHANGED got
  /\ seen' = [seen EXCEPT ![g] = {Visible(k)}]
  /\ UNCHANGED <<ram, disk, flushVars>>

\* GetData, second half: no mutex.  A store that fails reads as no row.
GetDataFromDisk(g) ==
  /\ call[g].op = "read"
  /\ call' = [call EXCEPT ![g].op = "done"]
  /\ \/ got' = [got EXCEPT ![g] = disk[call[g].key]]
     \/ call[g].key \in FaultyKeys /\ got' = [got EXCEPT ![g] = NoRow]
  /\ UNCHANGED <<ram, disk, flushVars, seen>>

\* GetData returns: the caller has the row.
GetDataReturns(g) ==
  /\ call[g].op = "done"
  /\ call' = [call EXCEPT ![g] = NoCall]
  /\ got' = [got EXCEPT ![g] = NoRow]
  /\ seen' = [seen EXCEPT ![g] = {}]
  /\ UNCHANGED <<ram, disk, flushVars>>

\* Mutants: the RAM map changed without the mutex; the row left in RAM.
DeleteDataFromRamUnlocked(g, k) ==
  /\ Idle(g)
  /\ ram' = [ram EXCEPT ![k] = NoRow]
  /\ call' = [call EXCEPT ![g] = [op |-> "delete", key |-> k]]
  /\ Observe(k, {disk[k]})
  /\ UNCHANGED <<disk, flushVars, got>>

DeleteDataKeepsRam(g, k) ==
  /\ MutexFree
  /\ Idle(g)
  /\ call' = [call EXCEPT ![g] = [op |-> "delete", key |-> k]]
  /\ UNCHANGED <<ram, disk, flushVars, got, seen>>

\* DeleteData, first half.
DeleteDataFromRamSync(g, k) ==
  /\ MutexFree
  /\ Idle(g)
  /\ ram' = [ram EXCEPT ![k] = NoRow]
  /\ call' = [call EXCEPT ![g] = [op |-> "delete", key |-> k]]
  /\ Observe(k, {disk[k]})
  /\ UNCHANGED <<disk, flushVars, got>>

\* DeleteData, second half: no mutex.
DeleteDataFromDisk(g) ==
  /\ call[g].op = "delete"
  /\ call' = [call EXCEPT ![g] = NoCall]
  /\ disk' = [disk EXCEPT ![call[g].key] = NoRow]
  /\ Observe(call[g].key, {NoRow})
  /\ UNCHANGED <<ram, flushVars, got>>

\* GetDiskStore or Delete fails: the RAM row is gone, the disk row stays.
DeleteDataFails(g) ==
  /\ call[g].op = "delete"
  /\ call[g].key \in FaultyKeys
  /\ call' = [call EXCEPT ![g] = NoCall]
  /\ UNCHANGED <<ram, disk, flushVars, got, seen>>

-----------------------------------------------------------------------------
(* flushDataRamStorageToDisk: lock, one Set and one delete per key, unlock. *)

\* Mutant: the timer flushes only a full map.
TimerFlushWhenFull ==
  /\ MutexFree
  /\ Cardinality(InRam) >= DataBufferLimit
  /\ todo' = InRam
  /\ UNCHANGED <<ram, disk, written, spawned, call, got, seen>>

\* A flush that finds RAM empty does nothing.
TimerFlush ==
  /\ MutexFree
  /\ InRam # {}
  /\ todo' = InRam
  /\ UNCHANGED <<ram, disk, written, spawned, call, got, seen>>

SpawnedFlush ==
  /\ MutexFree
  /\ spawned > 0
  /\ spawned' = spawned - 1
  /\ todo' = InRam
  /\ UNCHANGED <<ram, disk, written, call, got, seen>>

FlushSet(k) ==
  /\ k \in todo
  /\ written = NoKey
  /\ disk' = [disk EXCEPT ![k] = ram[k]]
  /\ written' = k
  /\ UNCHANGED <<ram, todo, spawned, call, got, seen>>

\* Mutant: a row whose Set failed is dropped from RAM all the same.
FlushFailDropsRow(k) ==
  /\ k \in todo \cap FaultyKeys
  /\ written = NoKey
  /\ todo' = todo \ {k}
  /\ ram' = [ram EXCEPT ![k] = NoRow]
  /\ UNCHANGED <<disk, written, spawned, call, got, seen>>

\* GetDiskStore or Set fails: the row stays in RAM for the next flush.
FlushFail(k) ==
  /\ k \in todo \cap FaultyKeys
  /\ written = NoKey
  /\ todo' = todo \ {k}
  /\ UNCHANGED <<ram, disk, written, spawned, call, got, seen>>

\* Mutant: a flushed row is left in RAM.
FlushClearKeepsRow ==
  /\ written # NoKey
  /\ todo' = todo \ {written}
  /\ written' = NoKey
  /\ UNCHANGED <<ram, disk, spawned, call, got, seen>>

\* The last key dealt with, the flush unlocks.
FlushClear ==
  /\ written # NoKey
  /\ ram' = [ram EXCEPT ![written] = NoRow]
  /\ todo' = todo \ {written}
  /\ written' = NoKey
  /\ UNCHANGED <<disk, spawned, call, got, seen>>

FlushStep ==
  \/ \E k \in DataKeys : FlushSet(k) \/ FlushFail(k)
  \/ FlushClear

\* The process is killed and started again: only the Badger stores survive.
DataCrash ==
  /\ CrashEnabled
  /\ ram' = [k \in DataKeys |-> NoRow]
  /\ todo' = {}
  /\ written' = NoKey
  /\ spawned' = 0
  /\ call' = [g \in Goroutines |-> NoCall]
  /\ got' = [g \in Goroutines |-> NoRow]
  /\ seen' = [g \in Goroutines |-> {}]
  /\ UNCHANGED disk

DataCall ==
  \/ \E k \in DataKeys, v \in Rows : SaveData(k, v)
  \/ \E g \in Goroutines :
        \/ \E k \in DataKeys :
              GetDataFromRamSync(g, k) \/ DeleteDataFromRamSync(g, k)
        \/ GetDataFromDisk(g)
        \/ GetDataReturns(g)
        \/ DeleteDataFromDisk(g)
        \/ DeleteDataFails(g)

DataFlush == TimerFlush \/ SpawnedFlush \/ FlushStep

DataNext == DataCall \/ DataFlush \/ DataCrash

DataSpec == DataInit /\ [][DataNext]_dataVars

(***************************************************************************)
(* The timer goroutine sleeps and flushes for ever, and a flush that holds *)
(* the mutex waits for nobody.  Callers are under no obligation.           *)
(***************************************************************************)
DataFairness ==
  /\ WF_dataVars(TimerFlush)
  /\ WF_dataVars(FlushStep)

DataFairSpec == DataSpec /\ DataFairness

-----------------------------------------------------------------------------
(***************************************************************************)
(* GetData returns a row that was visible at some moment of the call, for  *)
(* all that it looks in RAM and on disk at two moments and that a flush    *)
(* moves the row from one to the other in between: no read falls through   *)
(* the gap, and none brings back a row older than the call.                *)
(***************************************************************************)
ReadsRegular ==
  \A g \in Goroutines :
     call[g].op = "done" =>
       \/ got[g] \in seen[g]
       \/ call[g].key \in FaultyKeys /\ got[g] = NoRow

(***************************************************************************)
(* What makes ReadsRegular inductive: a GetData waiting for its disk read  *)
(* has on record both the row it would find now and the visible one; and   *)
(* the flush's bookkeeping is consistent with the mutex.                   *)
(***************************************************************************)
ReadsCovered ==
  \A g \in Goroutines, k \in DataKeys :
     Reading(g, k) => {disk[k], Visible(k)} \subseteq seen[g]

FlushConsistent ==
  /\ \A k \in todo : ram[k] # NoRow
  /\ written # NoKey => written \in todo

BusyCallsHaveKeys ==
  \A g \in Goroutines : ~Idle(g) => call[g].key \in DataKeys

DataInv ==
  /\ DataTypeOK
  /\ FlushConsistent
  /\ BusyCallsHaveKeys
  /\ ReadsCovered
  /\ ReadsRegular

(***************************************************************************)
(* The store implements RowMap: a flush is a sequence of Persist steps and *)
(* steps nobody sees, whatever saves, reads and deletes run beside it.     *)
(***************************************************************************)
Dirty == {k \in DataKeys : ram[k] # NoRow /\ k # written}

Deleting ==
  [g \in Goroutines |-> IF call[g].op = "delete" THEN call[g].key ELSE NoKey]

RM == INSTANCE RowMap WITH
        visible <- [k \in DataKeys |-> Visible(k)],
        durable <- disk,
        dirty <- Dirty,
        deleting <- Deleting

ImplementsRowMap == RM!Spec

(***************************************************************************)
(* A row that stays the visible one of its key reaches the disk, unless    *)
(* the key's store keeps failing.                                          *)
(***************************************************************************)
SavedRowsReachDisk ==
  \A k \in DataKeys \ FaultyKeys : \A v \in Rows :
     (Visible(k) = v) ~> (disk[k] = v \/ Visible(k) # v)

(***************************************************************************)
(* A row is never stuck in RAM, where it counts against dataBufferLimit    *)
(* and hides the disk from every reader.                                   *)
(***************************************************************************)
RamDrains ==
  \A k \in DataKeys \ FaultyKeys : (ram[k] # NoRow) ~> (ram[k] = NoRow)
=============================================================================
