------------------------- MODULE StoreManagerProofs -------------------------
(***************************************************************************)
(* Proofs about the calls of the store manager, for any number of keys,    *)
(* columns, values, goroutines and flushers and, where it says so, any     *)
(* faults.  What DataSyncProofs and IndexSyncProofs prove of the two       *)
(* components carries over to the composition, which implements them.      *)
(***************************************************************************)
EXTENDS StoreManager, TLAPS

DSP == INSTANCE DataSyncProofs WITH
         DataKeys <- Pks, NoKey <- NoPk, FaultyKeys <- FaultyPks,
         CrashEnabled <- "crash" \in Faults

ISP == INSTANCE IndexSyncProofs

USE StoreManagerConstants

-----------------------------------------------------------------------------
(* The components' invariants, in terms of the instances StoreManager uses. *)

\* One and the same definition, through either instance.
LEMMA SameDataInv == (DSP!DataInv <=> DS!DataInv) /\ (DSP!DataInv' <=> DS!DataInv')
BY DEF DSP!DataInv, DS!DataInv, DSP!DataTypeOK, DS!DataTypeOK,
       DSP!FlushConsistent, DS!FlushConsistent, DSP!BusyCallsHaveKeys,
       DS!BusyCallsHaveKeys, DSP!ReadsCovered, DS!ReadsCovered,
       DSP!ReadsRegular, DS!ReadsRegular, DSP!MaybeRow, DS!MaybeRow,
       DSP!Idle, DS!Idle, DSP!Reading, DS!Reading, DSP!Visible, DS!Visible

LEMMA SameDataInit == DSP!DataInit <=> DS!DataInit
BY DEF DSP!DataInit, DS!DataInit, DSP!NoCall, DS!NoCall

LEMMA SameDataNext == [DSP!DataNext]_DSP!dataVars <=> [DS!DataNext]_dataVars
BY DEF dataVars, DSP!dataVars, DSP!DataNext, DS!DataNext, DSP!DataCall,
       DS!DataCall, DSP!DataFlush, DS!DataFlush, DSP!DataCrash, DS!DataCrash,
       DSP!SaveData, DS!SaveData, DSP!GetDataFromRamSync,
       DS!GetDataFromRamSync, DSP!GetDataFromDisk, DS!GetDataFromDisk,
       DSP!GetDataReturns, DS!GetDataReturns, DSP!DeleteDataFromRamSync,
       DS!DeleteDataFromRamSync, DSP!DeleteDataFromDisk,
       DS!DeleteDataFromDisk, DSP!DeleteDataFails, DS!DeleteDataFails,
       DSP!TimerFlush, DS!TimerFlush, DSP!SpawnedFlush, DS!SpawnedFlush,
       DSP!FlushStep, DS!FlushStep, DSP!FlushSet, DS!FlushSet, DSP!FlushFail,
       DS!FlushFail, DSP!FlushClear, DS!FlushClear, DSP!Observe, DS!Observe,
       DSP!NoCall, DS!NoCall, DSP!Idle, DS!Idle, DSP!Reading, DS!Reading,
       DSP!MutexFree, DS!MutexFree, DSP!InRam, DS!InRam, DSP!Visible,
       DS!Visible, DSP!flushVars, DS!flushVars, DSP!Cardinality,
       DS!Cardinality

LEMMA SameIndexInv ==
  (ISP!CompleteInv <=> IS!CompleteInv) /\ (ISP!CompleteInv' <=> IS!CompleteInv')
BY DEF ISP!CompleteInv, IS!CompleteInv, ISP!IndexInv, IS!IndexInv,
       ISP!PlainReadFresh, IS!PlainReadFresh, ISP!PlainIndexComplete,
       IS!PlainIndexComplete, ISP!IndexTypeOK, IS!IndexTypeOK,
       ISP!JobsConsistent, IS!JobsConsistent, ISP!BatchesWereQueued,
       IS!BatchesWereQueued, ISP!NoInventedEntries, IS!NoInventedEntries,
       ISP!PkLists, IS!PkLists, ISP!Jobs, IS!Jobs, ISP!Malformed,
       IS!Malformed, ISP!NoPks, IS!NoPks, ISP!QuietIndex, IS!QuietIndex,
       ISP!OnItsWay, IS!OnItsWay, ISP!PlainKeys, IS!PlainKeys, ISP!Flushers,
       IS!Flushers, ISP!AddFlushers, IS!AddFlushers, ISP!DelFlushers,
       IS!DelFlushers

LEMMA SameIndexInit == ISP!IndexInit <=> IS!IndexInit
BY DEF ISP!IndexInit, IS!IndexInit, ISP!NoPks, IS!NoPks, ISP!Asleep,
       IS!Asleep, ISP!Flushers, IS!Flushers, ISP!AddFlushers, IS!AddFlushers,
       ISP!DelFlushers, IS!DelFlushers

LEMMA SameIndexNext == [ISP!IndexNext]_ISP!indexVars <=> [IS!IndexNext]_indexVars
BY DEF indexVars, ISP!indexVars, ISP!IndexNext, IS!IndexNext, ISP!IndexCall,
       IS!IndexCall, ISP!FlusherStep, IS!FlusherStep, ISP!IndexCrash,
       IS!IndexCrash, ISP!AddToIndexBuffer, IS!AddToIndexBuffer,
       ISP!AddToDeleteBuffer, IS!AddToDeleteBuffer, ISP!TakeIndexBuffer,
       IS!TakeIndexBuffer, ISP!TakeIndexDeleteBuffer,
       IS!TakeIndexDeleteBuffer, ISP!SkipKey, IS!SkipKey, ISP!ReadKey,
       IS!ReadKey, ISP!WriteKey, IS!WriteKey, ISP!Merged, IS!Merged,
       ISP!Without, IS!Without, ISP!Malformed, IS!Malformed, ISP!Continue,
       IS!Continue, ISP!CanTake, IS!CanTake, ISP!Spawn, IS!Spawn,
       ISP!Pending, IS!Pending, ISP!Asleep, IS!Asleep, ISP!NoPks, IS!NoPks,
       ISP!Flushers, IS!Flushers, ISP!AddFlushers, IS!AddFlushers,
       ISP!DelFlushers, IS!DelFlushers, ISP!Cardinality, IS!Cardinality

\* The invariant of the row store (DataSyncProofs) is one here.
LEMMA DataComponent ==
  /\ DS!DataInit => DS!DataInv
  /\ DS!DataInv /\ [DS!DataNext]_dataVars => DS!DataInv'
<1>1. DSP!DataInit => DSP!DataInv
  BY DSP!DataInitInv
<1>2. DSP!DataInv /\ [DSP!DataNext]_DSP!dataVars => DSP!DataInv'
  BY DSP!DataInvStep
<1>3. QED
  BY <1>1, <1>2, SameDataInit, SameDataInv, SameDataNext

\* And that of the index (IndexSyncProofs).
LEMMA IndexComponent ==
  /\ IS!IndexInit => IS!CompleteInv
  /\ IS!CompleteInv /\ [IS!IndexNext]_indexVars => IS!CompleteInv'
<1>1. /\ NestedKeys \subseteq IndexKeys
      /\ ISP!AddFlushers \cap ISP!DelFlushers = {}
  BY DEF NestedKeys, IndexKeys, ISP!AddFlushers, ISP!DelFlushers
<1>2. ISP!IndexInit => ISP!CompleteInv
  BY <1>1, ISP!CompleteInitInv
<1>3. ISP!CompleteInv /\ [ISP!IndexNext]_ISP!indexVars => ISP!CompleteInv'
  BY <1>1, ISP!CompleteInvStep
<1>4. QED
  BY <1>2, <1>3, SameIndexInit, SameIndexInv, SameIndexNext

-----------------------------------------------------------------------------
(* Rows and their index keys.                                              *)

\* A row is a function on some columns, at least one.
LEMMA RowIsFunction ==
  ASSUME NEW row \in Rows
  PROVE  /\ DOMAIN row \subseteq Cols /\ DOMAIN row # {}
         /\ row \in [DOMAIN row -> Vals]
BY DEF Rows

\* And every such function is a row.
LEMMA FunctionIsRow ==
  ASSUME NEW cols \in SUBSET Cols, cols # {}, NEW row \in [cols -> Vals]
  PROVE  row \in Rows
BY DEF Rows

\* A full row is a row, for a table has columns.
LEMMA FullRowIsRow == FullRows \subseteq Rows
BY FunctionIsRow DEF FullRows

\* The index keys of a row, one for each of its columns.
LEMMA GenIndexType ==
  ASSUME NEW row \in Rows
  PROVE  GenIndex(row) \subseteq IndexKeys
BY RowIsFunction DEF GenIndex, IndexKeys

\* Those of the row found, if one was.
LEMMA OldIndexesType ==
  ASSUME NEW row \in Rows \cup {NoRow}
  PROVE  OldIndexes(row) \subseteq IndexKeys
BY GenIndexType DEF OldIndexes

\* Fields merged into a row that may not exist make a row.
LEMMA MergeType ==
  ASSUME NEW fields \in Rows, NEW row \in Rows \cup {NoRow}
  PROVE  Merge(fields, row) \in Rows
<1>1. CASE row = NoRow
  BY <1>1 DEF Merge
<1>2. CASE row # NoRow
  <2> DEFINE cols == DOMAIN fields \cup DOMAIN row
  <2>1. cols \in SUBSET Cols /\ cols # {}
    BY <1>2, RowIsFunction
  <2>2. Merge(fields, row) \in [cols -> Vals]
    BY <1>2, RowIsFunction DEF Merge
  <2>3. QED
    BY <2>1, <2>2, FunctionIsRow
<1>3. QED
  BY <1>1, <1>2

\* A call that has just returned, or not begun.
LEMMA NoCallType ==
  /\ NoCall \in Progress
  /\ NoCall.pc = "idle" /\ NoCall.op = "none" /\ NoCall.adds = {}
BY DEF NoCall, Progress

\* The progress of a call that begins with a GetData.
LEMMA LoadingType ==
  ASSUME NEW op \in {"get", "insert", "update", "partial", "delete"}, NEW pk \in Pks
  PROVE  /\ Loading(op, pk) \in Progress
         /\ Loading(op, pk).op = op /\ Loading(op, pk).pc = "loading"
         /\ Loading(op, pk).pk = pk /\ Loading(op, pk).adds = {}
<1>1. NoCall \in Progress /\ NoCall.adds = {}
  BY NoCallType
<1>2. QED
  BY <1>1 DEF Loading, Progress

-----------------------------------------------------------------------------
(* The composition implements its components, step by step.                *)

\* What a call writes and reads, by its own progress.
LEMMA CallFacts ==
  ASSUME CallTypeOK, CallsInStep, NEW g \in Goroutines
  PROVE  /\ prog[g] \in Progress
         /\ prog[g].pc # "idle" => prog[g].pk \in Pks
         /\ prog[g].pc = "saving" => prog[g].row \in Rows
BY DEF CallTypeOK, CallsInStep, InStep

(***************************************************************************)
(* Every call begins with a save under a fresh key or with a look-up, and  *)
(* then with a progress fit for it.                                        *)
(***************************************************************************)
Begins(p) ==
  /\ p \in Progress /\ p.pk \in Pks /\ p.pc = "loading" /\ p.adds = {}
  /\ p.op = "partial" => p.fields \in Rows
  /\ p.op = "update" => p.row \in Rows

\* The list of keys of a DeleteData: its first key, and those after it.
LEMMA OneKey ==
  ASSUME NEW a \in Pks, NEW pks, pks = <<a>>
  PROVE  Head(pks) \in Pks /\ Tail(pks) \in Seq(Pks)
OBVIOUS

LEMMA TwoKeys ==
  ASSUME NEW a \in Pks, NEW b \in Pks, NEW pks, pks = <<a, b>>
  PROVE  Head(pks) \in Pks /\ Tail(pks) \in Seq(Pks)
OBVIOUS

LEMMA KeysOfDelete ==
  ASSUME NEW pks \in {<<a>> : a \in Pks} \cup {<<a, b>> : a, b \in Pks}
  PROVE  Head(pks) \in Pks /\ Tail(pks) \in Seq(Pks)
BY OneKey, TwoKeys

LEMMA DeletingBegins ==
  ASSUME NEW pk \in Pks, NEW rest \in Seq(Pks)
  PROVE  Begins([Loading("delete", pk) EXCEPT !.rest = rest])
<1> DEFINE S == Seq(Pks)
<1>1. /\ Loading("delete", pk) \in Progress /\ Loading("delete", pk).op = "delete"
      /\ Loading("delete", pk).pc = "loading" /\ Loading("delete", pk).pk = pk
      /\ Loading("delete", pk).adds = {}
  BY LoadingType
<1>2. rest \in S
  OBVIOUS
<1> HIDE DEF Loading, S
<1>3. [Loading("delete", pk) EXCEPT !.rest = rest] \in Progress
  BY <1>1, <1>2 DEF Progress, S
<1>4. QED
  BY <1>1, <1>3 DEF Begins, Progress

LEMMA DeletingForm ==
  ASSUME NEW g \in Goroutines,
         NEW pks \in {<<a>> : a \in Pks} \cup {<<a, b>> : a, b \in Pks},
         DeleteData(g, pks)
  PROVE  \E p \in Progress : Begins(p) /\ StartGet(g, p)
<1> DEFINE h == Head(pks)
           t == Tail(pks)
<1>1. h \in Pks /\ t \in Seq(Pks)
  BY KeysOfDelete
<1>2. StartGet(g, [Loading("delete", h) EXCEPT !.rest = t])
  BY DEF DeleteData
<1> HIDE DEF h, t
<1>3. Begins([Loading("delete", h) EXCEPT !.rest = t])
  BY <1>1, DeletingBegins
<1> DEFINE p == [Loading("delete", h) EXCEPT !.rest = t]
<1>4. Begins(p) /\ StartGet(g, p)
  BY <1>2, <1>3
<1> HIDE DEF p
<1>5. QED
  BY <1>4 DEF Begins

LEMMA CallForms ==
  ASSUME NEW g \in Goroutines, Call(g)
  PROVE  \/ \E pk \in Pks, row \in Rows : InsertData(g, pk, row)
         \/ \E p \in Progress : Begins(p) /\ StartGet(g, p)
<1>1. ASSUME NEW pk \in Pks, GetData(g, pk)
      PROVE  \E p \in Progress : Begins(p) /\ StartGet(g, p)
  <2>1. Begins(Loading("get", pk))
    BY LoadingType DEF Begins
  <2>2. QED
    BY <1>1, <2>1 DEF GetData, Begins
<1>2. ASSUME NEW pk \in Pks, NEW row \in FullRows, UpdateData(g, pk, row)
      PROVE  \E p \in Progress : Begins(p) /\ StartGet(g, p)
  <2>1. Begins([Loading("update", pk) EXCEPT !.row = row])
    BY FullRowIsRow, LoadingType DEF Begins, Progress
  <2>2. QED
    BY <1>2, <2>1 DEF UpdateData, Begins
<1>3. ASSUME NEW pk \in Pks, NEW fields \in Rows, UpdatePartial(g, pk, fields)
      PROVE  \E p \in Progress : Begins(p) /\ StartGet(g, p)
  <2>1. Begins([Loading("partial", pk) EXCEPT !.fields = fields])
    BY LoadingType DEF Begins, Progress
  <2>2. QED
    BY <1>3, <2>1 DEF UpdatePartial, Begins
<1>4. ASSUME NEW pks \in {<<a>> : a \in Pks} \cup {<<a, b>> : a, b \in Pks},
             DeleteData(g, pks)
      PROVE  \E p \in Progress : Begins(p) /\ StartGet(g, p)
  BY <1>4, DeletingForm
<1>5. ASSUME NEW pk \in Pks, NEW row \in FullRows, InsertData(g, pk, row)
      PROVE  \E r \in Rows : InsertData(g, pk, r)
  BY <1>5, FullRowIsRow
<1>6. QED
  BY <1>1, <1>2, <1>3, <1>4, <1>5 DEF Call

\* A step of the composition is a step of the row store, or none.
LEMMA StepOfDataSync ==
  CallTypeOK /\ CallsInStep /\ [Next]_vars => [DS!DataNext]_dataVars
<1> SUFFICES ASSUME CallTypeOK, CallsInStep, [Next]_vars
             PROVE  [DS!DataNext]_dataVars
  OBVIOUS
<1> USE DEF DS!DataNext, DS!DataCall
<1>1. ASSUME NEW g \in Goroutines, Call(g)
      PROVE  DS!DataNext
  <2>1. ASSUME NEW pk \in Pks, NEW row \in Rows, InsertData(g, pk, row)
        PROVE  DS!DataNext
    BY <2>1 DEF InsertData, Save
  <2>2. ASSUME NEW p \in Progress, Begins(p), StartGet(g, p)
        PROVE  DS!DataNext
    BY <2>2 DEF StartGet, Begins
  <2>3. QED
    BY <1>1, <2>1, <2>2, CallForms
<1>2. ASSUME NEW g \in Goroutines, Step(g)
      PROVE  [DS!DataNext]_dataVars
  <2>1. CASE LoadFromRam(g)
    BY <2>1, CallFacts DEF LoadFromRam
  <2>2. CASE LoadFromDisk(g)
    BY <2>2 DEF LoadFromDisk
  <2>3. CASE GetDone(g) \/ MergeFields(g) \/ FoundForUpdate(g) \/ DeleteIndex(g)
    BY <2>3 DEF GetDone, MergeFields, FoundForUpdate, DeleteIndex, Loaded
  <2>4. CASE UpdateSave(g)
    BY <2>4, CallFacts DEF UpdateSave, Save
  <2>5. ASSUME NEW k \in IndexKeys, QueueDelete(g, k) \/ QueueAdd(g, k)
        PROVE  UNCHANGED dataVars
    BY <2>5 DEF QueueDelete, QueueAdd
  <2>6. CASE DeleteFromRam(g)
    BY <2>6, CallFacts DEF DeleteFromRam
  <2>7. CASE DeleteFromDisk(g) \/ DeleteFails(g)
    BY <2>7 DEF DeleteFromDisk, DeleteFails
  <2>8. QED
    BY <1>2, <2>1, <2>2, <2>3, <2>4, <2>5, <2>6, <2>7 DEF Step
<1>3. CASE Flush
  BY <1>3 DEF Flush
<1>4. CASE Crash
  BY <1>4 DEF Crash
<1>5. CASE UNCHANGED vars
  BY <1>5 DEF vars
<1>6. QED
  BY <1>1, <1>2, <1>3, <1>4, <1>5 DEF Next

\* And a step of the index, or none.
LEMMA StepOfIndexSync ==
  CallTypeOK /\ CallsInStep /\ [Next]_vars => [IS!IndexNext]_indexVars
<1> SUFFICES ASSUME CallTypeOK, CallsInStep, [Next]_vars
             PROVE  [IS!IndexNext]_indexVars
  OBVIOUS
<1> USE DEF IS!IndexNext, IS!IndexCall
<1>1. ASSUME NEW g \in Goroutines, Call(g)
      PROVE  UNCHANGED indexVars
  BY <1>1, CallForms DEF InsertData, StartGet
<1>2. ASSUME NEW g \in Goroutines, Step(g)
      PROVE  [IS!IndexNext]_indexVars
  <2>1. ASSUME NEW k \in IndexKeys, QueueDelete(g, k)
        PROVE  IS!IndexNext
    BY <2>1, CallFacts DEF QueueDelete
  <2>2. ASSUME NEW k \in IndexKeys, QueueAdd(g, k)
        PROVE  IS!IndexNext
    BY <2>2, CallFacts DEF QueueAdd
  <2>3. CASE \/ LoadFromRam(g) \/ LoadFromDisk(g) \/ GetDone(g) \/ MergeFields(g)
             \/ FoundForUpdate(g) \/ UpdateSave(g) \/ DeleteIndex(g)
             \/ DeleteFromRam(g) \/ DeleteFromDisk(g) \/ DeleteFails(g)
    BY <2>3 DEF LoadFromRam, LoadFromDisk, GetDone, MergeFields, FoundForUpdate,
       UpdateSave, DeleteIndex, DeleteFromRam, DeleteFromDisk, DeleteFails, Loaded
  <2>4. QED
    BY <1>2, <2>1, <2>2, <2>3 DEF Step
<1>3. CASE Flush
  BY <1>3 DEF Flush
<1>4. CASE Crash
  BY <1>4 DEF Crash
<1>5. CASE UNCHANGED vars
  BY <1>5 DEF vars
<1>6. QED
  BY <1>1, <1>2, <1>3, <1>4, <1>5 DEF Next

-----------------------------------------------------------------------------
(* The calls keep in step with the row store.                              *)

\* Goroutine g, and no other, goes on to progress p and to the read state c.
Moves(g, p, c) ==
  /\ p \in Progress /\ InStep(p, c)
  /\ prog' = [prog EXCEPT ![g] = p]
  /\ call' = [call EXCEPT ![g] = c]

\* What such a move preserves.
LEMMA OneCallMoves ==
  ASSUME CallTypeOK, CallsInStep, DS!DataTypeOK,
         NEW g \in Goroutines, NEW p, NEW c, Moves(g, p, c)
  PROVE  /\ prog' \in [Goroutines -> Progress] /\ CallsInStep'
         /\ prog'[g] = p /\ call'[g] = c
         /\ \A h \in Goroutines \ {g} : prog'[h] = prog[h] /\ call'[h] = call[h]
<1>1. /\ prog \in [Goroutines -> Progress]
      /\ DOMAIN call = Goroutines
  BY DEF CallTypeOK, DS!DataTypeOK
<1>2. /\ prog'[g] = p /\ call'[g] = c
      /\ \A h \in Goroutines \ {g} : prog'[h] = prog[h] /\ call'[h] = call[h]
  BY <1>1 DEF Moves
<1>3. prog' \in [Goroutines -> Progress]
  BY <1>1 DEF Moves
<1>4. \A h \in Goroutines : InStep(prog'[h], call'[h])
  BY <1>2 DEF Moves, CallsInStep
<1>5. QED
  BY <1>2, <1>3, <1>4 DEF CallsInStep

\* The look-up of a key leaves the call reading it or done with it.
LEMMA ReadStarts ==
  ASSUME NEW g \in Goroutines, NEW pk \in Pks, DS!GetDataFromRamSync(g, pk)
  PROVE  \E op \in {"read", "done"} :
           call' = [call EXCEPT ![g] = [op |-> op, key |-> pk]]
BY DEF DS!GetDataFromRamSync

LEMMA CallBegins ==
  ASSUME CallTypeOK, CallsInStep, DS!DataTypeOK,
         NEW g \in Goroutines, NEW p, Begins(p), StartGet(g, p)
  PROVE  \E c : Moves(g, p, c)
<1>1. PICK op \in {"read", "done"} :
        call' = [call EXCEPT ![g] = [op |-> op, key |-> p.pk]]
  BY ReadStarts DEF Begins, StartGet
<1>2. InStep(p, [op |-> op, key |-> p.pk])
  BY DEF Begins, InStep
<1>3. QED
  BY <1>1, <1>2 DEF Moves, Begins, StartGet

LEMMA InsertBegins ==
  ASSUME CallTypeOK, CallsInStep, DS!DataTypeOK,
         NEW g \in Goroutines, NEW pk \in Pks, NEW row \in Rows, InsertData(g, pk, row)
  PROVE  \E p, c : Moves(g, p, c) /\ p.pk = pk /\ p.adds = GenIndex(row)
<1> DEFINE p == [NoCall EXCEPT !.op = "insert", !.pc = "indexing", !.pk = pk,
                               !.row = row, !.adds = GenIndex(row)]
<1>1. p \in Progress /\ p.pk = pk /\ p.adds = GenIndex(row) /\ p.op = "insert" /\ p.pc = "indexing"
  BY NoCallType, GenIndexType DEF Progress, NoCall
<1>2. call[g].op = "idle" /\ call' = call
  BY DEF InsertData, Called, CallsInStep, InStep, Save, DS!SaveData
<1>3. prog' = [prog EXCEPT ![g] = p] /\ call' = [call EXCEPT ![g] = call[g]]
  BY <1>2 DEF InsertData, DS!DataTypeOK
<1> HIDE DEF p
<1>4. InStep(p, call[g])
  BY <1>1, <1>2 DEF InStep
<1>5. QED
  BY <1>1, <1>3, <1>4 DEF Moves

\* The index keys still to queue stay with the call, or have been queued.
Keeps(g, p) ==
  \A k \in prog[g].adds :
     \/ p.pk = prog[g].pk /\ k \in p.adds
     \/ prog[g].pk \in queued'[k]

\* A call with no index keys to queue has none to keep.
LEMMA NothingToKeep ==
  ASSUME CallsInStep, NEW g \in Goroutines,
         prog[g].pc # "indexing" \/ prog[g].op = "delete"
  PROVE  \A p : Keeps(g, p)
BY DEF CallsInStep, InStep, Keeps

LEMMA LoadStepsMove ==
  ASSUME CallTypeOK, CallsInStep, DS!DataTypeOK, NEW g \in Goroutines,
         LoadFromRam(g) \/ LoadFromDisk(g) \/ GetDone(g)
  PROVE  \E p, c : Moves(g, p, c) /\ Keeps(g, p)
<1>1. /\ prog \in [Goroutines -> Progress] /\ prog[g] \in Progress
      /\ InStep(prog[g], call[g])
      /\ DOMAIN call = Goroutines
  BY DEF CallTypeOK, CallsInStep, DS!DataTypeOK
<1>2. CASE LoadFromRam(g)
  <2> DEFINE p == [prog[g] EXCEPT !.pc = "loading"]
  <2>1. prog[g].pc = "load" /\ prog[g].pk \in Pks
    BY <1>1, <1>2 DEF LoadFromRam, InStep
  <2>2. p \in Progress /\ prog' = [prog EXCEPT ![g] = p] /\ p.pk = prog[g].pk
    BY <1>1, <1>2 DEF LoadFromRam, Progress
  <2>3. PICK op \in {"read", "done"} :
          call' = [call EXCEPT ![g] = [op |-> op, key |-> prog[g].pk]]
    BY <1>2, <2>1, ReadStarts DEF LoadFromRam
  <2>4. InStep(p, [op |-> op, key |-> prog[g].pk])
    BY <1>1, <2>1 DEF InStep, Progress
  <2> HIDE DEF p
  <2>5. QED
    BY <2>1, <2>2, <2>3, <2>4, NothingToKeep DEF Moves
<1>3. CASE LoadFromDisk(g)
  <2> DEFINE c == [call[g] EXCEPT !.op = "done"]
  <2>1. call[g].op = "read" /\ call' = [call EXCEPT ![g] = c] /\ prog' = prog
        /\ call[g] \in [op : {"idle", "read", "done", "delete"}, key : Pks \cup {NoPk}]
    BY <1>1, <1>3 DEF LoadFromDisk, DS!GetDataFromDisk, callVars, DS!DataTypeOK
  <2>2. c.op = "done" /\ c.key = call[g].key
    BY <2>1
  <2>3. prog[g].pc = "loading"
    BY <1>1, <2>1 DEF InStep
  <2> HIDE DEF c
  <2>4. InStep(prog[g], c)
    BY <1>1, <2>1, <2>2, <2>3 DEF InStep
  <2>5. prog' = [prog EXCEPT ![g] = prog[g]]
    BY <1>1, <2>1
  <2>6. QED
    BY <1>1, <2>1, <2>3, <2>4, <2>5, NothingToKeep DEF Moves
<1>4. CASE GetDone(g)
  <2>1. prog[g].pc = "loading" /\ prog' = [prog EXCEPT ![g] = NoCall]
        /\ call' = [call EXCEPT ![g] = DS!NoCall]
    BY <1>4 DEF GetDone, Loaded, Returns, DS!GetDataReturns
  <2>2. InStep(NoCall, DS!NoCall)
    BY NoCallType DEF InStep, DS!NoCall
  <2>3. QED
    BY <2>1, <2>2, NoCallType, NothingToKeep DEF Moves
<1>5. QED
  BY <1>2, <1>3, <1>4

LEMMA LoadedStepsMove ==
  ASSUME CallTypeOK, CallsInStep, DS!DataTypeOK, NEW g \in Goroutines,
         MergeFields(g) \/ FoundForUpdate(g) \/ DeleteIndex(g)
  PROVE  \E p, c : Moves(g, p, c) /\ Keeps(g, p)
<1>1. /\ prog \in [Goroutines -> Progress] /\ prog[g] \in Progress
      /\ InStep(prog[g], call[g])
      /\ got[g] \in Rows \cup {NoRow}
  BY DEF CallTypeOK, CallsInStep, DS!DataTypeOK, DS!MaybeRow
<1>2. /\ prog[g].pc = "loading" /\ prog[g].pk \in Pks /\ prog[g].adds = {}
      /\ call' = [call EXCEPT ![g] = DS!NoCall] /\ DS!NoCall.op = "idle"
  BY <1>1 DEF MergeFields, FoundForUpdate, DeleteIndex, Loaded, InStep,
              DS!GetDataReturns, DS!NoCall
<1>3. CASE MergeFields(g)
  <2> DEFINE row == Merge(prog[g].fields, got[g])
             p == [prog[g] EXCEPT !.op = "update", !.pc = "load", !.row = row]
  <2>1. row \in Rows
    BY <1>1, <1>3, MergeType DEF MergeFields, Loaded, InStep
  <2>2. prog' = [prog EXCEPT ![g] = p]
    BY <1>1, <1>3 DEF MergeFields
  <2> HIDE DEF row
  <2>3. /\ p \in Progress /\ p.pk = prog[g].pk /\ p.adds = {}
        /\ p.op = "update" /\ p.pc = "load" /\ p.row = row
    BY <1>1, <1>2, <2>1 DEF Progress
  <2> HIDE DEF p
  <2>4. InStep(p, DS!NoCall)
    BY <1>2, <2>1, <2>3 DEF InStep
  <2>5. QED
    BY <1>2, <2>2, <2>3, <2>4, NothingToKeep DEF Moves
<1>4. CASE FoundForUpdate(g)
  <2> DEFINE p == [prog[g] EXCEPT !.pc = "saving", !.prev = got[g]]
  <2>1. prog' = [prog EXCEPT ![g] = p] /\ prog[g].op = "update" /\ prog[g].row \in Rows
    BY <1>1, <1>4 DEF FoundForUpdate, Loaded, InStep
  <2>2. /\ p \in Progress /\ p.pk = prog[g].pk /\ p.adds = {}
        /\ p.op = "update" /\ p.pc = "saving" /\ p.row = prog[g].row
    BY <1>1, <1>2, <2>1 DEF Progress
  <2> HIDE DEF p
  <2>3. InStep(p, DS!NoCall)
    BY <1>2, <2>1, <2>2 DEF InStep
  <2>4. QED
    BY <1>2, <2>1, <2>2, <2>3, NothingToKeep DEF Moves
<1>5. CASE DeleteIndex(g)
  <2>1. prog[g].op = "delete"
    BY <1>5 DEF DeleteIndex, Loaded
  <2>2. CASE got[g] = NoRow
    <3>1. prog' = [prog EXCEPT ![g] = NoCall] /\ InStep(NoCall, DS!NoCall)
      BY <1>2, <1>5, <2>2, NoCallType DEF DeleteIndex, Returns, InStep
    <3>2. QED
      BY <1>2, <3>1, NoCallType, NothingToKeep DEF Moves
  <2>3. CASE got[g] # NoRow
    <3> DEFINE dels == GenIndex(got[g])
               p == [prog[g] EXCEPT !.pc = "indexing", !.prev = got[g], !.dels = dels]
    <3>1. dels \subseteq IndexKeys
      BY <1>1, <2>3, GenIndexType
    <3>2. prog' = [prog EXCEPT ![g] = p]
      BY <1>1, <1>5, <2>3 DEF DeleteIndex
    <3> HIDE DEF dels
    <3>3. /\ p \in Progress /\ p.pk = prog[g].pk /\ p.adds = {}
          /\ p.op = "delete" /\ p.pc = "indexing"
      BY <1>1, <1>2, <2>1, <3>1 DEF Progress
    <3> HIDE DEF p
    <3>4. InStep(p, DS!NoCall)
      BY <1>2, <3>3 DEF InStep
    <3>5. QED
      BY <1>2, <3>2, <3>3, <3>4, NothingToKeep DEF Moves
  <2>4. QED
    BY <2>2, <2>3
<1>6. QED
  BY <1>3, <1>4, <1>5

LEMMA IndexingStepsMove ==
  ASSUME CallTypeOK, CallsInStep, DS!DataTypeOK, IS!IndexTypeOK,
         NEW g \in Goroutines,
         \/ UpdateSave(g)
         \/ \E k \in IndexKeys : QueueDelete(g, k) \/ QueueAdd(g, k)
  PROVE  \E p, c : Moves(g, p, c) /\ Keeps(g, p)
<1>1. /\ prog \in [Goroutines -> Progress] /\ prog[g] \in Progress
      /\ InStep(prog[g], call[g]) /\ DOMAIN call = Goroutines
  BY DEF CallTypeOK, CallsInStep, DS!DataTypeOK
<1>2. /\ prog[g].pc \in {"saving", "indexing"} /\ call[g].op = "idle"
      /\ prog[g].pk \in Pks
      /\ call' = [call EXCEPT ![g] = call[g]]
  <2>1. prog[g].pc \in {"saving", "indexing"} /\ call' = call
    BY DEF UpdateSave, QueueDelete, QueueAdd, Save, DS!SaveData, dataVars
  <2>2. call' = [call EXCEPT ![g] = call[g]]
    BY <2>1 DEF DS!DataTypeOK
  <2>3. QED
    BY <1>1, <2>1, <2>2 DEF InStep
<1>3. CASE UpdateSave(g)
  <2> DEFINE dels == OldIndexes(prog[g].prev)
             adds == GenIndex(prog[g].row)
             p == [prog[g] EXCEPT !.pc = "indexing", !.dels = dels, !.adds = adds]
  <2>1. prog[g].pc = "saving" /\ prog[g].op = "update" /\ prog[g].row \in Rows
    BY <1>1, <1>3 DEF UpdateSave, InStep
  <2>2. dels \subseteq IndexKeys /\ adds \subseteq IndexKeys
    BY <1>1, <2>1, OldIndexesType, GenIndexType DEF Progress
  <2>3. prog' = [prog EXCEPT ![g] = p]
    BY <1>1, <1>3 DEF UpdateSave
  <2> HIDE DEF dels, adds
  <2>4. /\ p \in Progress /\ p.pk = prog[g].pk /\ p.row = prog[g].row
        /\ p.op = "update" /\ p.pc = "indexing"
    BY <1>1, <2>1, <2>2 DEF Progress
  <2> HIDE DEF p
  <2>5. InStep(p, call[g])
    BY <1>2, <2>1, <2>4 DEF InStep
  <2>6. QED
    BY <1>2, <2>1, <2>3, <2>4, <2>5, NothingToKeep DEF Moves
<1>4. ASSUME NEW k \in IndexKeys, QueueDelete(g, k)
      PROVE  \E p, c : Moves(g, p, c) /\ Keeps(g, p)
  <2> DEFINE dels == prog[g].dels \ {k}
             p == [prog[g] EXCEPT !.dels = dels]
  <2>1. prog[g].pc = "indexing" /\ prog' = [prog EXCEPT ![g] = p]
    BY <1>1, <1>4 DEF QueueDelete
  <2>2. dels \subseteq IndexKeys
    BY <1>1 DEF Progress
  <2> HIDE DEF dels
  <2>3. /\ p \in Progress /\ p.pk = prog[g].pk /\ p.row = prog[g].row
        /\ p.fields = prog[g].fields /\ p.adds = prog[g].adds
        /\ p.op = prog[g].op /\ p.pc = "indexing"
    BY <1>1, <2>1, <2>2 DEF Progress
  <2> HIDE DEF p
  <2>4. InStep(p, call[g])
    BY <1>1, <1>2, <2>1, <2>3 DEF InStep
  <2>5. QED
    BY <1>2, <2>1, <2>3, <2>4 DEF Moves, Keeps
<1>5. ASSUME NEW k \in IndexKeys, QueueAdd(g, k)
      PROVE  \E p, c : Moves(g, p, c) /\ Keeps(g, p)
  <2>1. prog[g].pc = "indexing" /\ k \in prog[g].adds /\ prog[g].pk \in queued'[k]
    BY <1>5 DEF QueueAdd, IS!AddToIndexBuffer, IS!IndexTypeOK, IS!PkLists
  <2>2. CASE prog[g].adds = {k}
    <3>1. prog' = [prog EXCEPT ![g] = NoCall]
      BY <1>5, <2>2 DEF QueueAdd, Returns
    <3>2. InStep(NoCall, call[g])
      BY <1>2, NoCallType DEF InStep
    <3>3. Keeps(g, NoCall)
      BY <2>1, <2>2 DEF Keeps
    <3>4. QED
      BY <1>2, <3>1, <3>2, <3>3, NoCallType DEF Moves
  <2>3. CASE prog[g].adds # {k}
    <3> DEFINE adds == prog[g].adds \ {k}
               p == [prog[g] EXCEPT !.adds = adds]
    <3>1. prog' = [prog EXCEPT ![g] = p]
      BY <1>1, <1>5, <2>3 DEF QueueAdd
    <3>2. adds \subseteq IndexKeys /\ \A x \in prog[g].adds : x = k \/ x \in adds
      BY <1>1 DEF Progress
    <3>3. prog[g].op # "delete"
      BY <1>1, <2>1 DEF InStep
    <3> HIDE DEF adds
    <3>4. /\ p \in Progress /\ p.pk = prog[g].pk /\ p.row = prog[g].row
          /\ p.fields = prog[g].fields /\ p.adds = adds
          /\ p.op = prog[g].op /\ p.pc = "indexing"
      BY <1>1, <2>1, <3>2 DEF Progress
    <3> HIDE DEF p
    <3>5. InStep(p, call[g])
      BY <1>1, <1>2, <2>1, <3>3, <3>4 DEF InStep
    <3>6. Keeps(g, p)
      BY <2>1, <3>2, <3>4 DEF Keeps
    <3>7. QED
      BY <1>2, <3>1, <3>4, <3>5, <3>6 DEF Moves
  <2>4. QED
    BY <2>2, <2>3
<1>6. QED
  BY <1>3, <1>4, <1>5

\* The progress of a DeleteData that goes on with the next key of its list.
NextKey(pk, rest) == [Loading("delete", pk) EXCEPT !.pc = "load", !.rest = rest]

LEMMA NextKeyType ==
  ASSUME NEW pk \in Pks, NEW rest \in Seq(Pks)
  PROVE  /\ NextKey(pk, rest) \in Progress
         /\ NextKey(pk, rest).pk = pk /\ NextKey(pk, rest).pc = "load"
         /\ NextKey(pk, rest).op = "delete" /\ NextKey(pk, rest).adds = {}
<1> DEFINE S == Seq(Pks)
<1>1. /\ Loading("delete", pk) \in Progress /\ Loading("delete", pk).op = "delete"
      /\ Loading("delete", pk).pk = pk /\ Loading("delete", pk).adds = {}
  BY LoadingType
<1>2. rest \in S
  OBVIOUS
<1> HIDE DEF Loading, S
<1>3. NextKey(pk, rest) \in Progress
  BY <1>1, <1>2 DEF Progress, S, NextKey
<1>4. QED
  BY <1>1, <1>3 DEF Progress, NextKey

LEMMA DeletingStepsMove ==
  ASSUME CallTypeOK, CallsInStep, DS!DataTypeOK, NEW g \in Goroutines,
         DeleteFromRam(g) \/ DeleteFromDisk(g) \/ DeleteFails(g)
  PROVE  \E p, c : Moves(g, p, c) /\ Keeps(g, p)
<1>1. /\ prog \in [Goroutines -> Progress] /\ prog[g] \in Progress
      /\ InStep(prog[g], call[g]) /\ DOMAIN call = Goroutines
  BY DEF CallTypeOK, CallsInStep, DS!DataTypeOK
<1>2. CASE DeleteFromRam(g)
  <2> DEFINE p == [prog[g] EXCEPT !.pc = "erasing"]
             c == [op |-> "delete", key |-> prog[g].pk]
  <2>1. /\ prog[g].pc = "indexing" /\ prog[g].op = "delete"
        /\ prog[g].pk \in Pks /\ prog[g].adds = {}
        /\ call' = [call EXCEPT ![g] = c]
    BY <1>1, <1>2 DEF DeleteFromRam, DS!DeleteDataFromRamSync, InStep
  <2>2. prog' = [prog EXCEPT ![g] = p]
    BY <1>1, <1>2 DEF DeleteFromRam
  <2>3. /\ p \in Progress /\ p.pk = prog[g].pk /\ p.adds = {}
        /\ p.op = "delete" /\ p.pc = "erasing"
    BY <1>1, <2>1 DEF Progress
  <2> HIDE DEF p
  <2>4. InStep(p, c)
    BY <2>1, <2>3 DEF InStep
  <2>5. QED
    BY <2>1, <2>2, <2>3, <2>4, NothingToKeep DEF Moves
<1>3. ASSUME DeleteFromDisk(g) \/ DeleteFails(g)
      PROVE  /\ prog[g].pc = "erasing" /\ call' = [call EXCEPT ![g] = DS!NoCall]
             /\ DS!NoCall.op = "idle"
  <2>1. call[g].op = "delete" /\ call' = [call EXCEPT ![g] = DS!NoCall]
    BY <1>3 DEF DeleteFromDisk, DeleteFails, DS!DeleteDataFromDisk, DS!DeleteDataFails
  <2>2. QED
    BY <1>1, <2>1 DEF InStep, DS!NoCall
<1>4. CASE /\ DeleteFromDisk(g) \/ DeleteFails(g)
           /\ prog' = [prog EXCEPT ![g] = NoCall]
  BY <1>3, <1>4, NoCallType, NothingToKeep DEF Moves, InStep
<1>5. CASE DeleteFromDisk(g) /\ prog[g].rest # <<>>
  <2> DEFINE h == Head(prog[g].rest)
             t == Tail(prog[g].rest)
             p == NextKey(h, t)
  <2>1. prog[g].rest \in Seq(Pks) /\ prog[g].rest # <<>>
    BY <1>1, <1>5 DEF Progress
  <2>2. h \in Pks /\ t \in Seq(Pks)
    BY <2>1
  <2>3. prog' = [prog EXCEPT ![g] = p]
    BY <1>5 DEF DeleteFromDisk, NextKey
  <2> HIDE DEF h, t
  <2>4. p \in Progress /\ p.pk = h /\ p.pc = "load" /\ p.op = "delete" /\ p.adds = {}
    BY <2>2, NextKeyType
  <2> HIDE DEF p
  <2>5. InStep(p, DS!NoCall)
    BY <1>3, <1>5, <2>2, <2>4 DEF InStep
  <2>6. QED
    BY <1>3, <1>5, <2>3, <2>4, <2>5, NothingToKeep DEF Moves
<1>6. QED
  BY <1>2, <1>4, <1>5 DEF DeleteFromDisk, DeleteFails, Returns

\* A call's step, whatever it is.
LEMMA StepMoves ==
  ASSUME CallTypeOK, CallsInStep, DS!DataTypeOK, IS!IndexTypeOK,
         NEW g \in Goroutines, Step(g)
  PROVE  \E p, c : Moves(g, p, c) /\ Keeps(g, p)
<1>1. CASE LoadFromRam(g) \/ LoadFromDisk(g) \/ GetDone(g)
  BY <1>1, LoadStepsMove
<1>2. CASE MergeFields(g) \/ FoundForUpdate(g) \/ DeleteIndex(g)
  BY <1>2, LoadedStepsMove
<1>3. CASE \/ UpdateSave(g)
           \/ \E k \in IndexKeys : QueueDelete(g, k) \/ QueueAdd(g, k)
  BY <1>3, IndexingStepsMove
<1>4. CASE DeleteFromRam(g) \/ DeleteFromDisk(g) \/ DeleteFails(g)
  BY <1>4, DeletingStepsMove
<1>5. QED
  BY <1>1, <1>2, <1>3, <1>4 DEF Step

LEMMA CallMoves ==
  ASSUME CallTypeOK, CallsInStep, DS!DataTypeOK, NEW g \in Goroutines, Call(g)
  PROVE  \E p, c : Moves(g, p, c) /\ Keeps(g, p)
<1>1. prog[g].pc = "idle"
  BY CallForms DEF InsertData, StartGet, Called
<1>2. \E p, c : Moves(g, p, c)
  BY CallForms, CallBegins, InsertBegins
<1>3. QED
  BY <1>1, <1>2, NothingToKeep

\* What a flush leaves alone.
LEMMA FlushKeepsCalls ==
  ASSUME Flush
  PROVE  UNCHANGED <<prog, used, calls, gone, call>>
BY DEF Flush, callVars, dataVars, DS!DataFlush, DS!TimerFlush, DS!SpawnedFlush,
       DS!FlushStep, DS!FlushSet, DS!FlushFail, DS!FlushClear

\* A crash ends every call.
LEMMA CrashEndsCalls ==
  ASSUME Crash
  PROVE  /\ prog' = [g \in Goroutines |-> NoCall]
         /\ call' = [g \in Goroutines |-> DS!NoCall]
         /\ gone' \subseteq gone /\ UNCHANGED <<used, calls, disk, queued>>
BY DEF Crash, DS!DataCrash, IS!IndexCrash

\* The bound on the calls, the keys used and the keys deleted.
LEMMA CountersStep ==
  ASSUME CallTypeOK, CallsInStep, [Next]_vars
  PROVE  used' \subseteq Pks /\ calls' \in 0..MaxCalls /\ gone' \subseteq Pks
<1>1. used \subseteq Pks /\ calls \in 0..MaxCalls /\ gone \subseteq Pks
  BY DEF CallTypeOK
<1>2. ASSUME calls < MaxCalls, calls' = calls + 1
      PROVE  calls' \in 0..MaxCalls
  BY <1>1, <1>2
<1>3. ASSUME NEW g \in Goroutines, Call(g)
      PROVE  used' \subseteq Pks /\ calls' \in 0..MaxCalls /\ gone' \subseteq Pks
  <2>1. ASSUME NEW pk \in Pks, NEW row \in Rows, InsertData(g, pk, row)
        PROVE  used' \subseteq Pks /\ calls' \in 0..MaxCalls /\ gone' \subseteq Pks
    BY <1>1, <1>2, <2>1 DEF InsertData, Called, Save
  <2>2. ASSUME NEW p, Begins(p), StartGet(g, p)
        PROVE  used' \subseteq Pks /\ calls' \in 0..MaxCalls /\ gone' \subseteq Pks
    BY <1>1, <1>2, <2>2 DEF StartGet, Called, Begins
  <2>3. QED
    BY <1>3, <2>1, <2>2, CallForms
<1>4. ASSUME NEW g \in Goroutines, Step(g)
      PROVE  used' \subseteq Pks /\ calls' = calls /\ gone' \subseteq Pks
  <2>1. CASE LoadFromRam(g)
    BY <1>1, <2>1, CallFacts DEF LoadFromRam
  <2>2. CASE LoadFromDisk(g) \/ GetDone(g) \/ MergeFields(g) \/ FoundForUpdate(g) \/ DeleteIndex(g)
    BY <1>1, <2>2 DEF LoadFromDisk, GetDone, MergeFields, FoundForUpdate, DeleteIndex,
                      Loaded, callVars
  <2>3. CASE UpdateSave(g)
    BY <1>1, <2>3 DEF UpdateSave, Save
  <2>4. CASE \E k \in IndexKeys : QueueDelete(g, k) \/ QueueAdd(g, k)
    BY <1>1, <2>4 DEF QueueDelete, QueueAdd
  <2>5. CASE DeleteFromRam(g)
    BY <1>1, <2>5, CallFacts DEF DeleteFromRam
  <2>6. CASE DeleteFromDisk(g) \/ DeleteFails(g)
    BY <1>1, <2>6 DEF DeleteFromDisk, DeleteFails
  <2>7. QED
    BY <1>4, <2>1, <2>2, <2>3, <2>4, <2>5, <2>6 DEF Step
<1>5. CASE Flush
  BY <1>1, <1>5, FlushKeepsCalls
<1>6. CASE Crash
  BY <1>1, <1>6, CrashEndsCalls
<1>7. CASE UNCHANGED vars
  BY <1>1, <1>7 DEF vars, callVars
<1>8. QED
  BY <1>1, <1>3, <1>4, <1>5, <1>6, <1>7 DEF Next

LEMMA CallsStep ==
  ASSUME CallTypeOK, CallsInStep, DS!DataTypeOK, IS!IndexTypeOK, [Next]_vars
  PROVE  CallTypeOK' /\ CallsInStep'
<1> SUFFICES prog' \in [Goroutines -> Progress] /\ CallsInStep'
  BY CountersStep DEF CallTypeOK
<1>1. ASSUME NEW g \in Goroutines, Call(g) \/ Step(g)
      PROVE  prog' \in [Goroutines -> Progress] /\ CallsInStep'
  BY <1>1, CallMoves, StepMoves, OneCallMoves
<1>2. CASE UNCHANGED <<prog, call>>
  <2>1. \A g \in Goroutines : InStep(prog'[g], call'[g])
    BY <1>2 DEF CallsInStep
  <2>2. CallsInStep'
    BY <2>1 DEF CallsInStep
  <2>3. QED
    BY <1>2, <2>2 DEF CallTypeOK
<1>3. CASE Crash
  <2>1. InStep(NoCall, DS!NoCall)
    BY NoCallType DEF InStep, DS!NoCall
  <2>2. \A g \in Goroutines : prog'[g] = NoCall /\ call'[g] = DS!NoCall
    BY <1>3, CrashEndsCalls
  <2>3. \A g \in Goroutines : InStep(prog'[g], call'[g])
    BY <2>1, <2>2
  <2>4. CallsInStep'
    BY <2>3 DEF CallsInStep
  <2>5. QED
    BY <1>3, <2>4, CrashEndsCalls, NoCallType
<1>4. CASE Flush
  BY <1>2, <1>4, FlushKeepsCalls
<1>5. CASE UNCHANGED vars
  BY <1>2, <1>5 DEF vars, callVars, dataVars
<1>6. QED
  BY <1>1, <1>3, <1>4, <1>5 DEF Next

-----------------------------------------------------------------------------
(* Deleted rows stay deleted, saved versions get queued for the index.     *)

\* What a call may do to the rows: save one, delete one, or leave them.
LEMMA RowSteps ==
  ASSUME CallTypeOK, CallsInStep, DS!DataTypeOK,
         NEW g \in Goroutines, Call(g) \/ Step(g)
  PROVE  \/ /\ prog[g].pc # "erasing"
            /\ \E pk \in Pks, row \in Rows :
                  /\ Save(pk, row)
                  /\ prog'[g].pk = pk /\ prog'[g].adds = GenIndex(row)
         \/ UNCHANGED <<ram, disk, gone>> /\ prog[g].pc # "erasing"
         \/ DeleteFromRam(g)
         \/ DeleteFromDisk(g)
         \/ DeleteFails(g)
<1>1. CASE Call(g)
  <2>1. ASSUME NEW pk \in Pks, NEW row \in Rows, InsertData(g, pk, row)
        PROVE  /\ prog[g].pc = "idle" /\ Save(pk, row)
               /\ prog'[g].pk = pk /\ prog'[g].adds = GenIndex(row)
    <3>1. \E p, c : Moves(g, p, c) /\ p.pk = pk /\ p.adds = GenIndex(row)
      BY <2>1, InsertBegins
    <3>2. QED
      BY <2>1, <3>1, OneCallMoves DEF InsertData, Called
  <2>2. ASSUME NEW p, StartGet(g, p)
        PROVE  prog[g].pc = "idle" /\ UNCHANGED <<ram, disk, gone>>
    BY <2>2 DEF StartGet, Called, DS!GetDataFromRamSync
  <2>3. QED
    BY <1>1, <2>1, <2>2, CallForms
<1>2. CASE \/ LoadFromRam(g) \/ LoadFromDisk(g) \/ GetDone(g) \/ MergeFields(g)
           \/ FoundForUpdate(g) \/ DeleteIndex(g)
           \/ \E k \in IndexKeys : QueueDelete(g, k) \/ QueueAdd(g, k)
  <2>1. UNCHANGED <<ram, disk, gone>>
    BY <1>2 DEF LoadFromRam, LoadFromDisk, GetDone, MergeFields, FoundForUpdate,
         DeleteIndex, QueueDelete, QueueAdd, Loaded, DS!GetDataFromRamSync,
         DS!GetDataFromDisk, DS!GetDataReturns, dataVars, callVars
  <2>2. prog[g].pc \in {"load", "loading", "indexing"} \/ call[g].op = "read"
    BY <1>2 DEF LoadFromRam, LoadFromDisk, GetDone, MergeFields, FoundForUpdate,
         DeleteIndex, QueueDelete, QueueAdd, Loaded, DS!GetDataFromDisk
  <2>3. prog[g].pc # "erasing"
    <3>1. prog[g].pc = "erasing" => call[g] = [op |-> "delete", key |-> prog[g].pk]
      BY DEF CallsInStep, InStep
    <3>2. prog[g].pc = "erasing" => call[g].op = "delete"
      BY <3>1
    <3>3. QED
      BY <2>2, <3>2
  <2>4. QED
    BY <2>1, <2>3
<1>3. CASE UpdateSave(g)
  <2> DEFINE dels == OldIndexes(prog[g].prev)
             adds == GenIndex(prog[g].row)
             p == [prog[g] EXCEPT !.pc = "indexing", !.dels = dels, !.adds = adds]
  <2>1. prog[g] \in Progress /\ prog[g].pc = "saving" /\ prog[g].row \in Rows
        /\ prog[g].pk \in Pks /\ prog \in [Goroutines -> Progress]
    BY <1>3, CallFacts DEF UpdateSave, CallTypeOK
  <2> HIDE DEF dels, adds
  <2>2. prog'[g] = p
    BY <1>3, <2>1 DEF UpdateSave, dels, adds
  <2>3. p.pk = prog[g].pk /\ p.adds = adds
    BY <2>1 DEF Progress
  <2>4. QED
    BY <1>3, <2>1, <2>2, <2>3 DEF UpdateSave, adds
<1>4. QED
  BY <1>1, <1>2, <1>3 DEF Step

\* The second half of a delete goes on until it is done.
LEMMA ErasingStays ==
  ASSUME CallTypeOK, CallsInStep, DS!DataTypeOK, IS!IndexTypeOK,
         NEW g \in Goroutines, Call(g) \/ Step(g),
         NEW pk \in Pks, Erasing(pk), prog[g].pc # "erasing" \/ prog[g].pk # pk
  PROVE  Erasing(pk)'
<1>1. PICK h \in Goroutines : prog[h].pc = "erasing" /\ prog[h].pk = pk
  BY DEF Erasing
<1>2. h # g
  BY <1>1
<1>3. prog'[h] = prog[h]
  BY <1>2, CallMoves, StepMoves, OneCallMoves
<1>4. QED
  BY <1>1, <1>3 DEF Erasing

\* A deleted row does not come back.
LEMMA GoneStep ==
  ASSUME CallTypeOK, CallsInStep, DS!DataInv, IS!IndexTypeOK, GoneFromRam, [Next]_vars
  PROVE  GoneFromRam'
<1>1. DS!DataTypeOK /\ DS!FlushConsistent
  BY DEF DS!DataInv
<1>2. /\ ram \in [Pks -> Rows \cup {NoRow}] /\ disk \in [Pks -> Rows \cup {NoRow}]
      /\ gone \subseteq Pks
  BY <1>1 DEF DS!DataTypeOK, DS!MaybeRow, CallTypeOK
<1> SUFFICES ASSUME NEW pk \in gone'
             PROVE  ram'[pk] = NoRow /\ (Erasing(pk)' \/ disk'[pk] = NoRow)
  BY DEF GoneFromRam
<1>3. pk \in Pks
  BY CountersStep
<1>4. pk \in gone => ram[pk] = NoRow /\ (Erasing(pk) \/ disk[pk] = NoRow)
  BY DEF GoneFromRam
<1>5. ASSUME NEW g \in Goroutines, Call(g) \/ Step(g)
      PROVE  ram'[pk] = NoRow /\ (Erasing(pk)' \/ disk'[pk] = NoRow)
  <2>1. ASSUME NEW p \in Pks, NEW row \in Rows, Save(p, row), prog[g].pc # "erasing"
        PROVE  ram'[pk] = NoRow /\ (Erasing(pk)' \/ disk'[pk] = NoRow)
    <3>1. pk # p /\ pk \in gone /\ ram'[pk] = ram[pk] /\ disk' = disk
      BY <1>2, <1>3, <2>1 DEF Save, DS!SaveData
    <3>2. QED
      BY <1>1, <1>3, <1>4, <1>5, <2>1, <3>1, ErasingStays
  <2>2. CASE UNCHANGED <<ram, disk, gone>> /\ prog[g].pc # "erasing"
    BY <1>1, <1>3, <1>4, <1>5, <2>2, ErasingStays
  <2>3. CASE DeleteFromRam(g)
    <3>1. prog[g].pc = "indexing" /\ disk' = disk
          /\ ram' = [ram EXCEPT ![prog[g].pk] = NoRow]
          /\ gone' = gone \cup {prog[g].pk}
          /\ prog' = [prog EXCEPT ![g].pc = "erasing"]
      BY <2>3 DEF DeleteFromRam, DS!DeleteDataFromRamSync
    <3>2. CASE pk = prog[g].pk
      <4>1. prog[g] \in Progress /\ prog \in [Goroutines -> Progress]
        BY DEF CallTypeOK
      <4>2. prog'[g].pc = "erasing" /\ prog'[g].pk = pk
        BY <3>1, <3>2, <4>1 DEF Progress
      <4>3. QED
        BY <1>2, <1>3, <3>1, <3>2, <4>2 DEF Erasing
    <3>3. CASE pk # prog[g].pk
      BY <1>1, <1>2, <1>3, <1>4, <1>5, <3>1, <3>3, ErasingStays
    <3>4. QED
      BY <3>2, <3>3
  <2>4. CASE DeleteFromDisk(g)
    <3>1. ram' = ram /\ gone' = gone /\ disk' = [disk EXCEPT ![call[g].key] = NoRow]
          /\ call[g].op = "delete"
      BY <2>4 DEF DeleteFromDisk, DS!DeleteDataFromDisk
    <3>2. call[g].key = prog[g].pk
      <4>1. prog[g].pc = "erasing"
        BY <3>1 DEF CallsInStep, InStep
      <4>2. call[g] = [op |-> "delete", key |-> prog[g].pk]
        BY <4>1 DEF CallsInStep, InStep
      <4>3. QED
        BY <4>2
    <3>3. CASE pk = prog[g].pk
      BY <1>2, <1>3, <1>4, <3>1, <3>2, <3>3
    <3>4. CASE pk # prog[g].pk
      BY <1>1, <1>2, <1>3, <1>4, <1>5, <3>1, <3>2, <3>4, ErasingStays
    <3>5. QED
      BY <3>3, <3>4
  <2>5. CASE DeleteFails(g)
    <3>1. ram' = ram /\ disk' = disk /\ gone' = gone \ {prog[g].pk}
      BY <2>5 DEF DeleteFails, DS!DeleteDataFails
    <3>2. QED
      BY <1>1, <1>3, <1>4, <1>5, <3>1, ErasingStays
  <2>6. QED
    BY <1>1, <1>5, <2>1, <2>2, <2>3, <2>4, <2>5, RowSteps
<1>6. CASE Flush
  <2>1. pk \in gone /\ Erasing(pk)' = Erasing(pk)
    BY <1>6, FlushKeepsCalls DEF Erasing
  <2>2. pk \notin todo /\ pk # written
    BY <1>1, <1>3, <1>4, <2>1 DEF DS!FlushConsistent, DS!DataTypeOK
  <2>3. ram'[pk] = ram[pk] /\ disk'[pk] = disk[pk]
    BY <1>2, <1>3, <1>6, <2>2 DEF Flush, DS!DataFlush, DS!TimerFlush, DS!SpawnedFlush,
       DS!FlushStep, DS!FlushSet, DS!FlushFail, DS!FlushClear, dataVars
  <2>4. QED
    BY <1>4, <2>1, <2>3
<1>7. CASE Crash
  <2>1. /\ pk \in gone /\ ram'[pk] = NoRow /\ disk' = disk
        /\ \A g \in Goroutines : prog[g].pc = "erasing" => pk # prog[g].pk
    BY <1>3, <1>7 DEF Crash, DS!DataCrash
  <2>2. QED
    BY <1>4, <2>1 DEF Erasing
<1>8. CASE UNCHANGED vars
  <2>1. pk \in gone /\ ram' = ram /\ disk' = disk /\ prog' = prog
    BY <1>8 DEF vars, dataVars, callVars
  <2>2. QED
    BY <1>4, <2>1 DEF Erasing
<1>9. QED
  BY <1>5, <1>6, <1>7, <1>8 DEF Next

\* Nothing is taken off the record of what was queued.
LEMMA QueuedGrows ==
  ASSUME CallTypeOK, CallsInStep, IS!IndexTypeOK, [Next]_vars, NEW k \in IndexKeys
  PROVE  queued[k] \subseteq queued'[k]
<1>1. [IS!IndexNext]_indexVars
  BY StepOfIndexSync
<1>2. queued \in [IndexKeys -> SUBSET Pks]
  BY DEF IS!IndexTypeOK, IS!PkLists
<1>3. ASSUME NEW x \in IndexKeys, NEW pk \in Pks, IS!AddToIndexBuffer(x, pk)
      PROVE  queued[k] \subseteq queued'[k]
  BY <1>2, <1>3 DEF IS!AddToIndexBuffer
<1>4. ASSUME \A x \in IndexKeys, pk \in Pks : ~IS!AddToIndexBuffer(x, pk)
      PROVE  queued' = queued
  BY <1>1, <1>4 DEF IS!IndexNext, IS!IndexCall, IS!AddToDeleteBuffer,
     IS!FlusherStep, IS!TakeIndexBuffer, IS!TakeIndexDeleteBuffer, IS!SkipKey,
     IS!ReadKey, IS!WriteKey, IS!IndexCrash, indexVars
<1>5. QED
  BY <1>3, <1>4

\* What is queued or about to be stays so, while the process lives.
LEMMA QueuedOrAboutStays ==
  ASSUME CallTypeOK, CallsInStep, DS!DataTypeOK, IS!IndexTypeOK, [Next]_vars, ~Crash,
         NEW pk \in Pks, NEW k \in IndexKeys, QueuedOrAbout(pk, k)
  PROVE  QueuedOrAbout(pk, k)'
<1>1. queued[k] \subseteq queued'[k]
  BY QueuedGrows
<1>2. CASE pk \in queued[k]
  BY <1>1, <1>2 DEF QueuedOrAbout
<1>3. CASE pk \notin queued[k]
  <2>1. PICK h \in Goroutines : prog[h].pk = pk /\ k \in prog[h].adds
    BY <1>3 DEF QueuedOrAbout
  <2>2. ASSUME NEW g \in Goroutines, Call(g) \/ Step(g)
        PROVE  QueuedOrAbout(pk, k)'
    <3>1. PICK p, c : Moves(g, p, c) /\ Keeps(g, p)
      BY <2>2, CallMoves, StepMoves
    <3>2. prog'[g] = p /\ \A x \in Goroutines \ {g} : prog'[x] = prog[x]
      BY <3>1, OneCallMoves
    <3>3. CASE h = g
      BY <2>1, <3>1, <3>2, <3>3 DEF Keeps, QueuedOrAbout
    <3>4. CASE h # g
      BY <2>1, <3>2, <3>4 DEF QueuedOrAbout
    <3>5. QED
      BY <3>3, <3>4
  <2>3. CASE prog' = prog
    BY <2>1, <2>3 DEF QueuedOrAbout
  <2>4. QED
    BY <2>2, <2>3, FlushKeepsCalls DEF Next, vars, callVars
<1>4. QED
  BY <1>2, <1>3

\* Every version of a row stays queued, or about to be, under its values.
LEMMA VersionsStep ==
  ASSUME CallTypeOK, CallsInStep, DS!DataInv, IS!IndexTypeOK, VersionsIndexed, [Next]_vars
  PROVE  VersionsIndexed'
<1> SUFFICES ASSUME IS!QuietIndex, NEW pk \in Pks,
                    NEW row \in {ram'[pk], disk'[pk]} \ {NoRow}, NEW k \in GenIndex(row)
             PROVE  QueuedOrAbout(pk, k)'
  BY DEF VersionsIndexed, IS!QuietIndex
<1>1. /\ DS!DataTypeOK /\ DS!FlushConsistent
      /\ ram \in [Pks -> Rows \cup {NoRow}] /\ disk \in [Pks -> Rows \cup {NoRow}]
  BY DEF DS!DataInv, DS!DataTypeOK, DS!MaybeRow
<1>2. ~Crash
  BY DEF IS!QuietIndex, Crash, IS!IndexCrash
<1>3. \A v \in {ram[pk], disk[pk]} \ {NoRow} : \A x \in GenIndex(v) : QueuedOrAbout(pk, x)
  BY DEF VersionsIndexed
<1>4. CASE row \in {ram[pk], disk[pk]}
  <2>1. row \in Rows
    BY <1>1, <1>4
  <2>2. k \in IndexKeys
    BY <2>1, GenIndexType
  <2>3. QED
    BY <1>1, <1>2, <1>3, <1>4, <2>2, QueuedOrAboutStays
<1>5. ASSUME NEW g \in Goroutines, Call(g) \/ Step(g)
      PROVE  QueuedOrAbout(pk, k)'
  <2>1. ASSUME NEW p \in Pks, NEW new \in Rows, Save(p, new),
               prog'[g].pk = p, prog'[g].adds = GenIndex(new)
        PROVE  QueuedOrAbout(pk, k)'
    <3>1. ram' = [ram EXCEPT ![p] = new] /\ disk' = disk
      BY <2>1 DEF Save, DS!SaveData
    <3>2. row \in {ram[pk], disk[pk]} \/ (pk = p /\ row = new)
      BY <1>1, <3>1
    <3>3. CASE pk = p /\ row = new
      BY <2>1, <3>3 DEF QueuedOrAbout
    <3>4. QED
      BY <1>4, <3>2, <3>3
  <2>2. ASSUME \/ UNCHANGED <<ram, disk, gone>>
               \/ DeleteFromRam(g) \/ DeleteFromDisk(g) \/ DeleteFails(g)
        PROVE  row \in {ram[pk], disk[pk]}
    BY <1>1, <2>2 DEF DeleteFromRam, DeleteFromDisk, DeleteFails,
       DS!DeleteDataFromRamSync, DS!DeleteDataFromDisk, DS!DeleteDataFails
  <2>3. QED
    BY <1>1, <1>4, <1>5, <2>1, <2>2, RowSteps
<1>6. CASE Flush
  <2>1. row \in {ram[pk], disk[pk]}
    BY <1>1, <1>6 DEF Flush, DS!DataFlush, DS!TimerFlush, DS!SpawnedFlush,
       DS!FlushStep, DS!FlushSet, DS!FlushFail, DS!FlushClear, dataVars
  <2>2. QED
    BY <1>4, <2>1
<1>7. CASE UNCHANGED vars
  BY <1>4, <1>7 DEF vars, dataVars
<1>8. QED
  BY <1>2, <1>5, <1>6, <1>7 DEF Next

-----------------------------------------------------------------------------
(* The theorems.                                                           *)

\* The inductive invariant: that of the calls, and those of the components.
ComposedInv == StoreInv /\ DS!DataInv /\ IS!CompleteInv

LEMMA ComposedInitInv == Init => ComposedInv
<1> SUFFICES ASSUME Init PROVE ComposedInv
  OBVIOUS
<1>1. DS!DataInv /\ IS!CompleteInv
  BY DataComponent, IndexComponent DEF Init
<1>2. DS!DataTypeOK /\ IS!IndexTypeOK
  BY <1>1 DEF DS!DataInv, IS!CompleteInv, IS!IndexInv
<1>3. CallTypeOK
  BY NoCallType DEF Init, CallTypeOK
<1>4. CallsInStep
  <2>1. InStep(NoCall, DS!NoCall)
    BY NoCallType DEF InStep, DS!NoCall
  <2>2. \A g \in Goroutines : InStep(prog[g], call[g])
    BY <2>1 DEF Init, DS!DataInit
  <2>3. QED
    BY <2>2 DEF CallsInStep
<1>5. GoneFromRam /\ VersionsIndexed
  BY DEF Init, DS!DataInit, GoneFromRam, VersionsIndexed
<1>6. QED
  BY <1>1, <1>2, <1>3, <1>4, <1>5 DEF ComposedInv, StoreInv, StoreTypeOK

LEMMA ComposedInvStep == ComposedInv /\ [Next]_vars => ComposedInv'
<1> SUFFICES ASSUME ComposedInv, [Next]_vars
             PROVE  ComposedInv'
  OBVIOUS
<1>1. /\ CallTypeOK /\ CallsInStep /\ GoneFromRam /\ VersionsIndexed
      /\ DS!DataTypeOK /\ IS!IndexTypeOK /\ DS!DataInv /\ IS!CompleteInv
  BY DEF ComposedInv, StoreInv, StoreTypeOK
<1>2. DS!DataInv'
  BY <1>1, StepOfDataSync, DataComponent
<1>3. IS!CompleteInv'
  BY <1>1, StepOfIndexSync, IndexComponent
<1>4. DS!DataTypeOK' /\ IS!IndexTypeOK'
  BY <1>2, <1>3 DEF DS!DataInv, IS!CompleteInv, IS!IndexInv
<1>5. CallTypeOK' /\ CallsInStep'
  BY <1>1, CallsStep
<1>6. GoneFromRam' /\ VersionsIndexed'
  BY <1>1, GoneStep, VersionsStep
<1>7. QED
  BY <1>2, <1>3, <1>4, <1>5, <1>6 DEF ComposedInv, StoreInv, StoreTypeOK

LEMMA ComposedInvariant == Spec => []ComposedInv
BY ComposedInitInv, ComposedInvStep, PTL DEF Spec

(***************************************************************************)
(* Every call is where the row store says it is, a deleted row is nowhere  *)
(* but on the disk a delete is about to clear, and every version of a row  *)
(* that a delete or a restart could bring to light has been queued.        *)
(***************************************************************************)
THEOREM StoreInvariant == Spec => []StoreInv
<1>1. ComposedInv => StoreInv
  BY DEF ComposedInv
<1>2. QED
  BY ComposedInvariant, <1>1, PTL

(***************************************************************************)
(* A look-up by a plain column misses no row for good, however updates,    *)
(* deletes and flushes race, as long as the index stays quiet: the version *)
(* read was queued or is about to be, and what was queued for a plain      *)
(* column is on disk or on its way.                                        *)
(***************************************************************************)
THEOREM RowsFindable == Spec => []RowsIndexed
<1>1. ASSUME ComposedInv, IS!QuietIndex, NEW pk \in Pks, DS!Visible(pk) # NoRow,
             NEW k \in GenIndex(DS!Visible(pk)), k[1] \in PlainCols
      PROVE  Findable(pk, k)
  <2>1. DS!Visible(pk) \in {ram[pk], disk[pk]} \ {NoRow}
    BY <1>1 DEF DS!Visible
  <2>2. DS!Visible(pk) \in Rows
    BY <1>1, <2>1 DEF ComposedInv, DS!DataInv, DS!DataTypeOK, DS!MaybeRow
  <2>3. k \in IndexKeys
    BY <2>2, GenIndexType
  <2>4. k \in IS!PlainKeys
    BY <1>1, <2>3 DEF IS!PlainKeys, PlainCols, NestedKeys, IndexKeys
  <2>5. QueuedOrAbout(pk, k)
    BY <1>1, <2>1 DEF ComposedInv, StoreInv, VersionsIndexed
  <2>6. queued[k] \subseteq index[k] \cup IS!OnItsWay(k)
    BY <1>1, <2>4 DEF ComposedInv, IS!CompleteInv, IS!PlainIndexComplete
  <2>7. QED
    BY <2>5, <2>6 DEF QueuedOrAbout, Findable
<1>2. ComposedInv => RowsIndexed
  BY <1>1 DEF RowsIndexed
<1>3. QED
  BY ComposedInvariant, <1>2, PTL

(***************************************************************************)
(* A deleted row stays deleted until its key is saved again: no flush that *)
(* runs between the two halves of the delete, and no crash after it,       *)
(* brings it back.                                                         *)
(***************************************************************************)
THEOREM DeletesLast == Spec => []DeletedStaysDeleted
<1>1. StoreInv => DeletedStaysDeleted
  BY DEF StoreInv, GoneFromRam, DeletedStaysDeleted, DS!Visible
<1>2. QED
  BY StoreInvariant, <1>1, PTL

(***************************************************************************)
(* The calls use the row store as DataSync says it may be used.            *)
(***************************************************************************)
THEOREM StoreImplementsDataSync == Spec => ImplementsDataSync
<1>1. Init => DS!DataInit
  BY DEF Init
<1>2. ComposedInv /\ [Next]_vars => [DS!DataNext]_dataVars
  BY StepOfDataSync DEF ComposedInv, StoreInv, StoreTypeOK
<1>3. QED
  BY <1>1, <1>2, ComposedInvariant, PTL DEF Spec, ImplementsDataSync, DS!DataSpec,
     DS!dataVars, dataVars

(***************************************************************************)
(* And the index as IndexSync says.                                        *)
(***************************************************************************)
THEOREM StoreImplementsIndexSync == Spec => ImplementsIndexSync
<1>1. Init => IS!IndexInit
  BY DEF Init
<1>2. ComposedInv /\ [Next]_vars => [IS!IndexNext]_indexVars
  BY StepOfIndexSync DEF ComposedInv, StoreInv, StoreTypeOK
<1>3. QED
  BY <1>1, <1>2, ComposedInvariant, PTL DEF Spec, ImplementsIndexSync, IS!IndexSpec,
     IS!indexVars, indexVars

(***************************************************************************)
(* So every GetData inside a call -- the row an update is merged into, the *)
(* old row whose index entries are taken out -- is a row that was visible  *)
(* at some moment of that look-up.                                         *)
(***************************************************************************)
THEOREM CallsReadRegularly == Spec => []DS!ReadsRegular
<1>1. ComposedInv => DS!ReadsRegular
  BY DEF ComposedInv, DS!DataInv
<1>2. QED
  BY ComposedInvariant, <1>1, PTL

(***************************************************************************)
(* And no index entry was invented, whatever fails.                        *)
(***************************************************************************)
THEOREM CallsInventNoEntries == Spec => []IS!NoInventedEntries
<1>1. ComposedInv => IS!NoInventedEntries
  BY DEF ComposedInv, IS!CompleteInv, IS!IndexInv
<1>2. QED
  BY ComposedInvariant, <1>1, PTL
=============================================================================
