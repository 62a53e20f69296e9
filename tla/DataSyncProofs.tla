--------------------------- MODULE DataSyncProofs ---------------------------
(***************************************************************************)
(* Proofs about the row store, for any number of keys, rows, goroutines    *)
(* and flushes.                                                            *)
(***************************************************************************)
EXTENDS DataSync, TLAPS

USE DataSyncConstants

\* The initial state satisfies the invariant.
LEMMA DataInitInv == DataInit => DataInv
BY DEF DataInit, DataInv, DataTypeOK, FlushConsistent, BusyCallsHaveKeys,
       ReadsCovered, ReadsRegular, MaybeRow, NoCall, Idle, Reading

\* The types, step by step.
LEMMA DataTypeStep == DataTypeOK /\ BusyCallsHaveKeys /\ [DataNext]_dataVars => DataTypeOK'
<1> SUFFICES ASSUME DataTypeOK, BusyCallsHaveKeys, [DataNext]_dataVars
             PROVE  DataTypeOK'
  OBVIOUS
<1> USE DEF DataTypeOK, BusyCallsHaveKeys, MaybeRow, Idle, NoCall
<1>1. ASSUME NEW k \in DataKeys, NEW v \in Rows, SaveData(k, v)
      PROVE  DataTypeOK'
  BY <1>1 DEF SaveData, Observe
<1>2. ASSUME NEW g \in Goroutines, NEW k \in DataKeys, GetDataFromRamSync(g, k)
      PROVE  DataTypeOK'
  BY <1>2 DEF GetDataFromRamSync, flushVars, Visible
<1>3. ASSUME NEW g \in Goroutines, NEW k \in DataKeys, DeleteDataFromRamSync(g, k)
      PROVE  DataTypeOK'
  BY <1>3 DEF DeleteDataFromRamSync, flushVars, Observe
<1>4. ASSUME NEW g \in Goroutines, GetDataFromDisk(g)
      PROVE  DataTypeOK'
  <2>1. call[g].key \in DataKeys /\ disk[call[g].key] \in MaybeRow
    BY <1>4 DEF GetDataFromDisk
  <2>2. got' \in [Goroutines -> MaybeRow]
    BY <1>4, <2>1 DEF GetDataFromDisk
  <2>3. call' \in [Goroutines -> [op : {"idle", "read", "done", "delete"},
                                 key : DataKeys \cup {NoKey}]]
    BY <1>4 DEF GetDataFromDisk
  <2>4. QED
    BY <1>4, <2>2, <2>3 DEF GetDataFromDisk, flushVars
<1>5. ASSUME NEW g \in Goroutines, GetDataReturns(g)
      PROVE  DataTypeOK'
  BY <1>5 DEF GetDataReturns, flushVars
<1>6. ASSUME NEW g \in Goroutines, DeleteDataFromDisk(g)
      PROVE  DataTypeOK'
  BY <1>6 DEF DeleteDataFromDisk, flushVars, Observe
<1>7. ASSUME NEW g \in Goroutines, DeleteDataFails(g)
      PROVE  DataTypeOK'
  BY <1>7 DEF DeleteDataFails, flushVars
<1>8. CASE TimerFlush
  BY <1>8 DEF TimerFlush, InRam
<1>9. CASE SpawnedFlush
  BY <1>9 DEF SpawnedFlush, InRam
<1>10. ASSUME NEW k \in DataKeys, FlushSet(k) \/ FlushFail(k)
       PROVE  DataTypeOK'
  BY <1>10 DEF FlushSet, FlushFail
<1>11. CASE FlushClear
  BY <1>11 DEF FlushClear
<1>12. CASE DataCrash
  BY <1>12 DEF DataCrash
<1>13. CASE UNCHANGED dataVars
  BY <1>13 DEF dataVars
<1>14. QED
  BY <1>1, <1>2, <1>3, <1>4, <1>5, <1>6, <1>7, <1>8, <1>9, <1>10, <1>11, <1>12, <1>13
     DEF DataNext, DataCall, DataFlush, FlushStep

(***************************************************************************)
(* The bookkeeping of a flush: it visits only rows that are in RAM, and    *)
(* the key it has written is one it has still to clear.  Holding the mutex *)
(* is what keeps everyone else from changing RAM meanwhile.                *)
(***************************************************************************)
LEMMA FlushStepConsistent ==
  DataTypeOK /\ FlushConsistent /\ [DataNext]_dataVars => FlushConsistent'
<1> SUFFICES ASSUME DataTypeOK, FlushConsistent, [DataNext]_dataVars
             PROVE  FlushConsistent'
  OBVIOUS
<1> USE DEF FlushConsistent, DataTypeOK, MutexFree
<1>1. CASE DataCall
  BY <1>1 DEF DataCall, SaveData, GetDataFromRamSync, DeleteDataFromRamSync,
              GetDataFromDisk, GetDataReturns, DeleteDataFromDisk,
              DeleteDataFails, flushVars
<1>2. CASE TimerFlush \/ SpawnedFlush
  BY <1>2 DEF TimerFlush, SpawnedFlush, InRam
<1>3. CASE FlushStep
  BY <1>3 DEF FlushStep, FlushSet, FlushFail, FlushClear
<1>4. CASE DataCrash
  BY <1>4 DEF DataCrash
<1>5. CASE UNCHANGED dataVars
  BY <1>5 DEF dataVars
<1>6. QED
  BY <1>1, <1>2, <1>3, <1>4, <1>5 DEF DataNext, DataFlush

\* A call under way keeps the key it was made with, step by step.
LEMMA BusyCallsStep ==
  DataTypeOK /\ BusyCallsHaveKeys /\ [DataNext]_dataVars => BusyCallsHaveKeys'
<1> SUFFICES ASSUME DataTypeOK, BusyCallsHaveKeys, [DataNext]_dataVars
             PROVE  BusyCallsHaveKeys'
  OBVIOUS
<1> USE DEF BusyCallsHaveKeys, DataTypeOK, Idle, NoCall
<1>1. CASE UNCHANGED call
  BY <1>1
<1>2. ASSUME NEW g \in Goroutines, NEW k \in DataKeys,
             GetDataFromRamSync(g, k) \/ DeleteDataFromRamSync(g, k)
      PROVE  BusyCallsHaveKeys'
  BY <1>2 DEF GetDataFromRamSync, DeleteDataFromRamSync
<1>3. ASSUME NEW g \in Goroutines,
             GetDataFromDisk(g) \/ GetDataReturns(g) \/ DeleteDataFromDisk(g)
               \/ DeleteDataFails(g)
      PROVE  BusyCallsHaveKeys'
  BY <1>3 DEF GetDataFromDisk, GetDataReturns, DeleteDataFromDisk, DeleteDataFails
<1>4. CASE DataCrash
  BY <1>4 DEF DataCrash
<1>5. QED
  BY <1>1, <1>2, <1>3, <1>4
     DEF DataNext, DataCall, DataFlush, FlushStep, SaveData, TimerFlush,
         SpawnedFlush, FlushSet, FlushFail, FlushClear, dataVars

(***************************************************************************)
(* A step leaves the row visible under k as it was, unless it saves,       *)
(* deletes or loses it: in particular every step of a flush does.          *)
(***************************************************************************)
LEMMA FlushInvisible ==
  ASSUME DataTypeOK, FlushConsistent, DataFlush, NEW k \in DataKeys
  PROVE  Visible(k)' = Visible(k)
<1> USE DEF DataTypeOK, FlushConsistent, Visible
<1>1. CASE TimerFlush \/ SpawnedFlush
  BY <1>1 DEF TimerFlush, SpawnedFlush
<1>2. ASSUME NEW j \in DataKeys, FlushSet(j)
      PROVE  Visible(k)' = Visible(k)
  BY <1>2 DEF FlushSet
<1>3. ASSUME NEW j \in DataKeys, FlushFail(j)
      PROVE  Visible(k)' = Visible(k)
  BY <1>3 DEF FlushFail
<1>4. CASE FlushClear
  BY <1>4 DEF FlushClear
<1>5. QED
  BY <1>1, <1>2, <1>3, <1>4 DEF DataFlush, FlushStep

\* What a flush does to the disk: nothing, or it puts a visible row there.
LEMMA FlushWritesVisible ==
  ASSUME DataTypeOK, FlushConsistent, DataFlush, NEW k \in DataKeys
  PROVE  disk'[k] \in {disk[k], Visible(k)}
<1> USE DEF DataTypeOK, FlushConsistent, Visible
<1>1. ASSUME NEW j \in DataKeys, FlushSet(j)
      PROVE  disk'[k] \in {disk[k], Visible(k)}
  BY <1>1 DEF FlushSet
<1>2. CASE UNCHANGED disk
  BY <1>2
<1>3. QED
  BY <1>1, <1>2 DEF DataFlush, FlushStep, TimerFlush, SpawnedFlush, FlushFail, FlushClear

(***************************************************************************)
(* A GetData on its way to the disk keeps on record everything it could    *)
(* still return: the calls that change a row put the change on record, and *)
(* a flush puts on disk only what was visible, hence already recorded.     *)
(***************************************************************************)
LEMMA ReadsCoveredStep ==
  DataInv /\ [DataNext]_dataVars => ReadsCovered'
<1> SUFFICES ASSUME DataInv, [DataNext]_dataVars,
                    NEW r \in Goroutines, NEW j \in DataKeys, Reading(r, j)'
             PROVE  {disk'[j], Visible(j)'} \subseteq seen'[r]
  BY DEF ReadsCovered
<1> USE DEF DataInv, DataTypeOK, Reading, NoCall
<1>0. Reading(r, j) => {disk[j], Visible(j)} \subseteq seen[r]
  BY DEF ReadsCovered
<1>1. ASSUME NEW k \in DataKeys, NEW v \in Rows, SaveData(k, v)
      PROVE  {disk'[j], Visible(j)'} \subseteq seen'[r]
  <2>1. Reading(r, j) /\ disk' = disk /\ written' = written
    BY <1>1 DEF SaveData
  <2>2. Visible(j)' \in {Visible(j), v} /\ (j # k => Visible(j)' = Visible(j))
    BY <1>1 DEF SaveData, Visible, FlushConsistent, MutexFree
  <2>3. seen'[r] = IF j = k THEN seen[r] \cup {v} ELSE seen[r]
    BY <1>1, <2>1 DEF SaveData, Observe
  <2>4. QED
    BY <1>0, <2>1, <2>2, <2>3
<1>2. ASSUME NEW g \in Goroutines, NEW k \in DataKeys, GetDataFromRamSync(g, k)
      PROVE  {disk'[j], Visible(j)'} \subseteq seen'[r]
  <2>1. disk' = disk /\ Visible(j)' = Visible(j)
    BY <1>2 DEF GetDataFromRamSync, flushVars, Visible
  <2>2. CASE r = g
    <3>1. j = k /\ ram[k] = NoRow
      BY <1>2, <2>2 DEF GetDataFromRamSync
    <3>2. seen'[r] = {Visible(j)} /\ Visible(j) = disk[j]
      BY <1>2, <2>2, <3>1 DEF GetDataFromRamSync, Visible
    <3>3. QED
      BY <2>1, <3>2
  <2>3. CASE r # g
    BY <1>0, <1>2, <2>1, <2>3 DEF GetDataFromRamSync
  <2>4. QED
    BY <2>2, <2>3
<1>3. ASSUME NEW g \in Goroutines, NEW k \in DataKeys, DeleteDataFromRamSync(g, k)
      PROVE  {disk'[j], Visible(j)'} \subseteq seen'[r]
  <2>1. Reading(r, j) /\ disk' = disk
    BY <1>3 DEF DeleteDataFromRamSync
  <2>2. Visible(j)' = IF j = k THEN disk[j] ELSE Visible(j)
    BY <1>3 DEF DeleteDataFromRamSync, flushVars, Visible
  <2>3. seen[r] \subseteq seen'[r]
    BY <1>3 DEF DeleteDataFromRamSync, Observe
  <2>4. QED
    BY <1>0, <2>1, <2>2, <2>3
<1>4. ASSUME NEW g \in Goroutines,
             GetDataFromDisk(g) \/ GetDataReturns(g) \/ DeleteDataFails(g)
      PROVE  {disk'[j], Visible(j)'} \subseteq seen'[r]
  <2>1. Reading(r, j) /\ disk' = disk /\ r # g
    BY <1>4 DEF GetDataFromDisk, GetDataReturns, DeleteDataFails
  <2>2. Visible(j)' = Visible(j) /\ seen'[r] = seen[r]
    BY <1>4, <2>1 DEF GetDataFromDisk, GetDataReturns, DeleteDataFails, flushVars, Visible
  <2>3. QED
    BY <1>0, <2>1, <2>2
<1>5. ASSUME NEW g \in Goroutines, DeleteDataFromDisk(g)
      PROVE  {disk'[j], Visible(j)'} \subseteq seen'[r]
  <2>1. Reading(r, j) /\ r # g
    BY <1>5 DEF DeleteDataFromDisk
  <2>2. Visible(j)' \in {Visible(j), disk'[j]}
    BY <1>5 DEF DeleteDataFromDisk, flushVars, Visible
  <2>3. CASE call[g].key = j
    <3>1. disk'[j] = NoRow
      BY <1>5, <2>3 DEF DeleteDataFromDisk
    <3>2. seen'[r] = seen[r] \cup {NoRow}
      BY <1>5, <2>1, <2>3 DEF DeleteDataFromDisk, Observe
    <3>3. QED
      BY <1>0, <2>1, <2>2, <3>1, <3>2
  <2>4. CASE call[g].key # j
    <3>1. disk'[j] = disk[j]
      BY <1>5, <2>4 DEF DeleteDataFromDisk
    <3>2. seen'[r] = seen[r]
      BY <1>5, <2>1, <2>4 DEF DeleteDataFromDisk, Observe
    <3>3. QED
      BY <1>0, <2>1, <2>2, <3>1, <3>2
  <2>5. QED
    BY <2>3, <2>4
<1>6. CASE DataFlush
  <2>1. call' = call /\ seen' = seen
    BY <1>6 DEF DataFlush, TimerFlush, SpawnedFlush, FlushStep, FlushSet,
                FlushFail, FlushClear
  <2>2. Visible(j)' = Visible(j) /\ disk'[j] \in {disk[j], Visible(j)}
    BY <1>6, FlushInvisible, FlushWritesVisible
  <2>3. QED
    BY <1>0, <2>1, <2>2
<1>7. CASE DataCrash
  BY <1>7 DEF DataCrash
<1>8. CASE UNCHANGED dataVars
  BY <1>0, <1>8 DEF dataVars, Visible
<1>9. QED
  BY <1>1, <1>2, <1>3, <1>4, <1>5, <1>6, <1>7, <1>8 DEF DataNext, DataCall

\* The read itself: it returns what is on disk, which is on record.
LEMMA ReadsRegularStep ==
  DataInv /\ [DataNext]_dataVars => ReadsRegular'
<1> SUFFICES ASSUME DataInv, [DataNext]_dataVars,
                    NEW r \in Goroutines, call'[r].op = "done"
             PROVE  \/ got'[r] \in seen'[r]
                    \/ call'[r].key \in FaultyKeys /\ got'[r] = NoRow
  BY DEF ReadsRegular
<1> USE DEF DataInv, DataTypeOK, NoCall, Reading
<1>0. call[r].op = "done" => \/ got[r] \in seen[r]
                             \/ call[r].key \in FaultyKeys /\ got[r] = NoRow
  BY DEF ReadsRegular
<1>1. CASE UNCHANGED <<call, got, seen>>
  BY <1>0, <1>1
<1>2. ASSUME NEW k \in DataKeys, NEW v \in Rows, SaveData(k, v)
      PROVE  \/ got'[r] \in seen'[r]
             \/ call'[r].key \in FaultyKeys /\ got'[r] = NoRow
  BY <1>0, <1>2 DEF SaveData, Observe
<1>3. ASSUME NEW g \in Goroutines, NEW k \in DataKeys, GetDataFromRamSync(g, k)
      PROVE  \/ got'[r] \in seen'[r]
             \/ call'[r].key \in FaultyKeys /\ got'[r] = NoRow
  <2>1. written = NoKey
    BY <1>3 DEF GetDataFromRamSync, FlushConsistent, MutexFree
  <2>2. CASE r = g
    BY <1>3, <2>1, <2>2 DEF GetDataFromRamSync, Visible
  <2>3. CASE r # g
    BY <1>0, <1>3, <2>3 DEF GetDataFromRamSync
  <2>4. QED
    BY <2>2, <2>3
<1>4. ASSUME NEW g \in Goroutines, GetDataFromDisk(g)
      PROVE  \/ got'[r] \in seen'[r]
             \/ call'[r].key \in FaultyKeys /\ got'[r] = NoRow
  <2>1. CASE r = g
    <3>1. call[r].key \in DataKeys /\ Reading(r, call[r].key)
      BY <1>4, <2>1 DEF GetDataFromDisk, BusyCallsHaveKeys, Idle
    <3>2. disk[call[r].key] \in seen[r]
      BY <3>1 DEF ReadsCovered
    <3>3. call'[r].key = call[r].key /\ seen' = seen
      BY <1>4, <2>1 DEF GetDataFromDisk
    <3>4. \/ got'[r] = disk[call[r].key]
          \/ call[r].key \in FaultyKeys /\ got'[r] = NoRow
      BY <1>4, <2>1 DEF GetDataFromDisk
    <3>5. QED
      BY <3>2, <3>3, <3>4
  <2>2. CASE r # g
    BY <1>0, <1>4, <2>2 DEF GetDataFromDisk
  <2>3. QED
    BY <2>1, <2>2
<1>5. ASSUME NEW g \in Goroutines, GetDataReturns(g)
      PROVE  \/ got'[r] \in seen'[r]
             \/ call'[r].key \in FaultyKeys /\ got'[r] = NoRow
  BY <1>0, <1>5 DEF GetDataReturns
<1>6. ASSUME NEW g \in Goroutines, NEW k \in DataKeys, DeleteDataFromRamSync(g, k)
      PROVE  \/ got'[r] \in seen'[r]
             \/ call'[r].key \in FaultyKeys /\ got'[r] = NoRow
  BY <1>0, <1>6 DEF DeleteDataFromRamSync, Observe
<1>7. ASSUME NEW g \in Goroutines, DeleteDataFromDisk(g) \/ DeleteDataFails(g)
      PROVE  \/ got'[r] \in seen'[r]
             \/ call'[r].key \in FaultyKeys /\ got'[r] = NoRow
  BY <1>0, <1>7 DEF DeleteDataFromDisk, DeleteDataFails, Observe
<1>8. CASE DataCrash
  BY <1>8 DEF DataCrash
<1>9. QED
  BY <1>1, <1>2, <1>3, <1>4, <1>5, <1>6, <1>7, <1>8
     DEF DataNext, DataCall, DataFlush, FlushStep, TimerFlush, SpawnedFlush,
         FlushSet, FlushFail, FlushClear, dataVars

\* Every step preserves the invariant.
LEMMA DataInvStep == DataInv /\ [DataNext]_dataVars => DataInv'
BY DataTypeStep, FlushStepConsistent, BusyCallsStep, ReadsCoveredStep,
   ReadsRegularStep DEF DataInv

(***************************************************************************)
(* The inductive invariant: the types, a consistent flush, and every read  *)
(* in progress covered by the rows on its record.                          *)
(***************************************************************************)
THEOREM DataInvariant == DataSpec => []DataInv
BY DataInitInv, DataInvStep, PTL DEF DataSpec

(***************************************************************************)
(* GetData, which looks in RAM and on disk at two different moments, only  *)
(* returns rows that were visible during the call.                         *)
(***************************************************************************)
THEOREM GetDataIsRegular == DataSpec => []ReadsRegular
<1>1. DataInv => ReadsRegular
  BY DEF DataInv
<1>2. QED
  BY DataInvariant, <1>1, PTL

-----------------------------------------------------------------------------
(* Refinement of RowMap, action by action.                                 *)

View == [k \in DataKeys |-> Visible(k)]

RMVars == <<View, disk, Dirty, Deleting>>

\* A step that neither begins nor ends a delete keeps the set of deletes.
LEMMA DeletingKept ==
  ASSUME DataTypeOK,
         \/ UNCHANGED call
         \/ \E g \in Goroutines :
               /\ call[g].op # "delete"
               /\ \E c : c.op # "delete" /\ call' = [call EXCEPT ![g] = c]
  PROVE  Deleting' = Deleting
<1>1. ASSUME NEW h \in Goroutines
      PROVE  /\ call'[h].op = "delete" <=> call[h].op = "delete"
             /\ call[h].op = "delete" => call'[h] = call[h]
  BY DEF DataTypeOK
<1>2. QED
  BY <1>1 DEF Deleting

\* SaveData is a Write of the abstract map.
LEMMA SaveIsWrite ==
  ASSUME DataInv, NEW k \in DataKeys, NEW v \in Rows, SaveData(k, v)
  PROVE  RM!Write(k, v)
<1> USE DEF DataInv, DataTypeOK, FlushConsistent, MutexFree
<1>1. written = NoKey /\ written' = NoKey /\ disk' = disk /\ call' = call
  BY DEF SaveData
<1>2. View' = [View EXCEPT ![k] = v]
  BY <1>1 DEF SaveData, View, Visible
<1>3. Dirty' = Dirty \cup {k}
  BY <1>1 DEF SaveData, Dirty
<1>4. Deleting' = Deleting
  BY <1>1 DEF Deleting
<1>5. QED
  BY <1>1, <1>2, <1>3, <1>4 DEF RM!Write, View

\* The first half of a delete forgets the row in RAM, if there is one.
LEMMA DeleteRamIsForget ==
  ASSUME DataInv, NEW g \in Goroutines, NEW k \in DataKeys,
         DeleteDataFromRamSync(g, k)
  PROVE  RM!Forget(g, k)
<1> USE DEF DataInv, DataTypeOK, FlushConsistent, MutexFree
<1>1. written = NoKey /\ written' = NoKey /\ disk' = disk
  BY DEF DeleteDataFromRamSync, flushVars
<1>2. View' = [View EXCEPT ![k] = disk[k]]
  BY <1>1 DEF DeleteDataFromRamSync, View, Visible
<1>3. Dirty' = Dirty \ {k}
  BY <1>1 DEF DeleteDataFromRamSync, Dirty
<1>4. Deleting[g] = NoKey /\ Deleting' = [Deleting EXCEPT ![g] = k]
  BY DEF DeleteDataFromRamSync, Deleting, Idle
<1>5. QED
  BY <1>1, <1>2, <1>3, <1>4 DEF RM!Forget, View

\* The end of a delete, in either way, is the end of it in the abstract map.
LEMMA DeleteEnds ==
  ASSUME DataInv, NEW g \in Goroutines, call[g].op = "delete",
         call' = [call EXCEPT ![g] = NoCall]
  PROVE  /\ call[g].key \in DataKeys
         /\ Deleting[g] = call[g].key /\ Deleting[g] # NoKey
         /\ Deleting' = [Deleting EXCEPT ![g] = NoKey]
BY DataSyncConstants
   DEF DataInv, DataTypeOK, BusyCallsHaveKeys, Idle, Deleting, NoCall

\* The second half of a delete erases the durable row.
LEMMA DeleteDiskIsErase ==
  ASSUME DataInv, NEW g \in Goroutines, DeleteDataFromDisk(g)
  PROVE  RM!Erase(g)
<1> DEFINE k == call[g].key
<1>1. /\ k \in DataKeys /\ Deleting[g] = k /\ k # NoKey
      /\ Deleting' = [Deleting EXCEPT ![g] = NoKey]
  BY DeleteEnds DEF DeleteDataFromDisk
<1>2. disk' = [disk EXCEPT ![k] = NoRow] /\ ram' = ram /\ written' = written
  BY DEF DeleteDataFromDisk, flushVars
<1>3. Dirty' = Dirty
  BY <1>2 DEF Dirty
<1>4. View' = [View EXCEPT ![k] = IF k \in Dirty THEN View[k] ELSE NoRow]
  BY <1>1, <1>2 DEF View, Visible, Dirty, DataInv, DataTypeOK
<1>5. QED
  BY <1>1, <1>2, <1>3, <1>4 DEF RM!Erase, View

\* A delete that fails half-way is abandoned.
LEMMA DeleteFailsIsAbandon ==
  ASSUME DataInv, NEW g \in Goroutines, DeleteDataFails(g)
  PROVE  RM!Abandon(g)
<1>1. Deleting[g] # NoKey /\ Deleting' = [Deleting EXCEPT ![g] = NoKey]
  BY DeleteEnds DEF DeleteDataFails
<1>2. View' = View /\ Dirty' = Dirty /\ disk' = disk
  BY DEF DeleteDataFails, View, Visible, Dirty, flushVars
<1>3. QED
  BY <1>1, <1>2 DEF RM!Abandon, View

\* A flusher's Set makes the visible row durable.
LEMMA FlushSetIsPersist ==
  ASSUME DataInv, NEW k \in DataKeys, FlushSet(k)
  PROVE  RM!Persist(k)
<1> USE DEF DataInv, DataTypeOK, FlushConsistent
<1>1. k \in Dirty /\ Visible(k) = ram[k]
  BY DEF FlushSet, Dirty, Visible
<1>2. disk' = [disk EXCEPT ![k] = View[k]]
  BY <1>1 DEF FlushSet, View
<1>3. Dirty' = Dirty \ {k} /\ Deleting' = Deleting
  BY DEF FlushSet, Dirty, Deleting
<1>4. View' = View
  BY FlushInvisible DEF View, DataFlush, FlushStep
<1>5. QED
  BY <1>1, <1>2, <1>3, <1>4 DEF RM!Persist, View

\* Dropping the flushed row from RAM is invisible.
LEMMA FlushClearIsStutter ==
  ASSUME DataInv, FlushClear
  PROVE  UNCHANGED RMVars
<1>1. View' = View
  BY FlushInvisible DEF View, DataInv, DataFlush, FlushStep
<1>2. Dirty' = Dirty /\ Deleting' = Deleting
  BY DEF FlushClear, Dirty, Deleting, DataInv, DataTypeOK, FlushConsistent
<1>3. QED
  BY <1>1, <1>2 DEF FlushClear, RMVars

\* A crash shows the durable rows again.
LEMMA CrashIsCrash ==
  ASSUME DataInv, DataCrash
  PROVE  RM!Crash
<1>1. Dirty' = {} /\ disk' = disk
  BY DEF DataCrash, Dirty
<1>2. View' = disk
  BY DEF DataCrash, View, Visible, DataInv, DataTypeOK
<1>3. Deleting' = [g \in Goroutines |-> NoKey]
  BY DEF DataCrash, Deleting, NoCall
<1>4. QED
  BY <1>1, <1>2, <1>3 DEF RM!Crash, View

\* A step of a read, and the start or a failure of a flush, changes nothing.
LEMMA QuietStepIsStutter ==
  ASSUME DataInv, UNCHANGED <<ram, disk, written>>,
         \/ TimerFlush \/ SpawnedFlush
         \/ \E k \in DataKeys : FlushFail(k)
         \/ \E g \in Goroutines :
               \/ \E k \in DataKeys : GetDataFromRamSync(g, k)
               \/ GetDataFromDisk(g)
               \/ GetDataReturns(g)
         \/ UNCHANGED dataVars
  PROVE  UNCHANGED RMVars
<1>1. View' = View /\ Dirty' = Dirty /\ disk' = disk
  BY DEF View, Visible, Dirty
<1>2. Deleting' = Deleting
  <2> USE DEF DataInv
  <2>1. CASE UNCHANGED call
    BY <2>1, DeletingKept
  <2>2. ASSUME NEW g \in Goroutines, NEW k \in DataKeys, GetDataFromRamSync(g, k)
        PROVE  Deleting' = Deleting
    <3>1. \E c : c.op # "delete" /\ call' = [call EXCEPT ![g] = c]
      <4>1. [op |-> "done", key |-> k].op # "delete"
            /\ [op |-> "read", key |-> k].op # "delete"
        OBVIOUS
      <4>2. QED
        BY <2>2, <4>1 DEF GetDataFromRamSync
    <3>2. QED
      BY <2>2, <3>1, DeletingKept DEF GetDataFromRamSync, Idle
  <2>3. ASSUME NEW g \in Goroutines, GetDataFromDisk(g)
        PROVE  Deleting' = Deleting
    <3>1. [call[g] EXCEPT !.op = "done"].op # "delete"
      BY DEF DataTypeOK
    <3>2. call' = [call EXCEPT ![g] = [call[g] EXCEPT !.op = "done"]]
      BY <2>3 DEF GetDataFromDisk
    <3>3. QED
      BY <2>3, <3>1, <3>2, DeletingKept DEF GetDataFromDisk
  <2>4. ASSUME NEW g \in Goroutines, GetDataReturns(g)
        PROVE  Deleting' = Deleting
    <3>1. NoCall.op # "delete"
      BY DEF NoCall
    <3>2. QED
      BY <2>4, <3>1, DeletingKept DEF GetDataReturns
  <2>5. QED
    BY <2>1, <2>2, <2>3, <2>4 DEF TimerFlush, SpawnedFlush, FlushFail, dataVars
<1>3. QED
  BY <1>1, <1>2 DEF RMVars

\* Every step of the row store is a step of the abstract map or invisible to it.
LEMMA DataStepRefines ==
  DataInv /\ [DataNext]_dataVars => [RM!Next]_(RM!rowMapVars)
<1> SUFFICES ASSUME DataInv, [DataNext]_dataVars
             PROVE  RM!Next \/ UNCHANGED RMVars
  BY DEF RM!rowMapVars, View, RMVars
<1>1. ASSUME NEW k \in DataKeys, NEW v \in Rows, SaveData(k, v)
      PROVE  RM!Next
  BY <1>1, SaveIsWrite DEF RM!Next
<1>2. ASSUME NEW g \in Goroutines, NEW k \in DataKeys, DeleteDataFromRamSync(g, k)
      PROVE  RM!Next
  BY <1>2, DeleteRamIsForget DEF RM!Next
<1>3. ASSUME NEW g \in Goroutines, DeleteDataFromDisk(g) \/ DeleteDataFails(g)
      PROVE  RM!Next
  BY <1>3, DeleteDiskIsErase, DeleteFailsIsAbandon DEF RM!Next
<1>4. ASSUME NEW k \in DataKeys, FlushSet(k)
      PROVE  RM!Next
  BY <1>4, FlushSetIsPersist DEF RM!Next
<1>5. CASE FlushClear
  BY <1>5, FlushClearIsStutter
<1>6. CASE DataCrash
  BY <1>6, CrashIsCrash DEF RM!Next
<1>7. CASE \/ TimerFlush \/ SpawnedFlush
           \/ \E k \in DataKeys : FlushFail(k)
           \/ \E g \in Goroutines :
                 \/ \E k \in DataKeys : GetDataFromRamSync(g, k)
                 \/ GetDataFromDisk(g)
                 \/ GetDataReturns(g)
           \/ UNCHANGED dataVars
  <2>1. UNCHANGED <<ram, disk, written>>
    BY <1>7 DEF TimerFlush, SpawnedFlush, FlushFail, GetDataFromRamSync,
                GetDataFromDisk, GetDataReturns, flushVars, dataVars
  <2>2. QED
    BY <1>7, <2>1, QuietStepIsStutter
<1>8. QED
  BY <1>1, <1>2, <1>3, <1>4, <1>5, <1>6, <1>7
     DEF DataNext, DataCall, DataFlush, FlushStep

(***************************************************************************)
(* The row store with its RAM map, mutex and flusher implements RowMap:    *)
(* flushing is invisible, rows reach the disk unchanged, and a crash loses *)
(* exactly the rows that had not reached it.                               *)
(***************************************************************************)
THEOREM DataSyncImplementsRowMap == DataSpec => ImplementsRowMap
<1>1. DataInit => RM!Init
  BY DEF DataInit, RM!Init, Visible, Dirty, Deleting, NoCall
<1>2. DataInv /\ [DataNext]_dataVars => [RM!Next]_(RM!rowMapVars)
  BY DataStepRefines
<1>3. QED
  BY <1>1, <1>2, DataInvariant, PTL DEF DataSpec, ImplementsRowMap, RM!Spec
=============================================================================
