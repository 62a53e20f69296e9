----------------------------- MODULE IndexSync ------------------------------
(***************************************************************************)
(* The secondary index of storemanager (index_sync.go): for every index    *)
(* key "index:db:table:column[:nested...]:value" a list of primary keys on *)
(* disk, changed only through two RAM buffers, one of additions and one of *)
(* deletions, each with its own mutex and its own flushers.                *)
(*                                                                         *)
(* A flusher swaps its buffer for an empty one under the mutex and then,   *)
(* without any lock, does a Get, a merge in memory and a Set for each key  *)
(* of the batch it took.  A flusher is the buffer's timer goroutine or one *)
(* of the goroutines started by a call that finds the buffer full; nothing *)
(* orders flushers of one buffer or of the two.                            *)
(***************************************************************************)
EXTENDS Naturals, FiniteSets

CONSTANTS
  IndexKeys,
  NestedKeys,         \* those of six parts or more: a path in a JSON column
  Pks,
  AddTimer,           \* the timer goroutine of the insertion buffer
  AddSpawned,         \* bound: the goroutines started at bufferLimit
  DelTimer,           \* the timer goroutine of the deletion buffer
  DelSpawned,         \* bound: the goroutines started at deleteBufferLimit
  BufferLimit,        \* bufferLimit (500)
  DeleteBufferLimit,  \* deleteBufferLimit (500)
  NoIndexKey,
  Faults              \* what may fail: "open", "get", "set"; "crash"

AddFlushers == AddSpawned \cup {AddTimer}
DelFlushers == DelSpawned \cup {DelTimer}
Flushers == AddFlushers \cup DelFlushers
PlainKeys == IndexKeys \ NestedKeys

ASSUME IndexSyncConstants ==
  /\ NestedKeys \subseteq IndexKeys
  /\ NoIndexKey \notin IndexKeys
  /\ AddFlushers \cap DelFlushers = {}
  /\ AddTimer \notin AddSpawned /\ DelTimer \notin DelSpawned
  /\ BufferLimit \in Nat \ {0} /\ DeleteBufferLimit \in Nat \ {0}
  /\ Faults \subseteq {"open", "get", "set", "crash"}

VARIABLES
  indexBuffer,        \* additions not yet taken by a flusher
  indexDeleteBuffer,  \* deletions not yet taken by a flusher
  index,              \* the lists on disk
  job,                \* each flusher's progress
  queued              \* history: every addition ever asked for

indexVars == <<indexBuffer, indexDeleteBuffer, index, job, queued>>

PkLists == [IndexKeys -> SUBSET Pks]
NoPks == [k \in IndexKeys |-> {}]
Pending(buffer) == {k \in IndexKeys : buffer[k] # {}}

(***************************************************************************)
(* A job: "asleep" (the timer's sleep, or no such goroutine), "started"    *)
(* (spawned, buffer not taken yet), "running" (between two keys of its     *)
(* batch), "merging" (the list of "key" as Get returned it is in "read").  *)
(***************************************************************************)
Jobs == [pc : {"asleep", "started", "running", "merging"},
         batch : PkLists, key : IndexKeys \cup {NoIndexKey}, read : SUBSET Pks]

Asleep == [pc |-> "asleep", batch |-> NoPks, key |-> NoIndexKey, read |-> {}]

IndexTypeOK ==
  /\ indexBuffer \in PkLists
  /\ indexDeleteBuffer \in PkLists
  /\ index \in PkLists
  /\ job \in [Flushers -> Jobs]
  /\ queued \in PkLists

IndexInit ==
  /\ indexBuffer = NoPks
  /\ indexDeleteBuffer = NoPks
  /\ index = NoPks
  /\ job = [f \in Flushers |-> Asleep]
  /\ queued = NoPks

-----------------------------------------------------------------------------
\* go flush...: one more goroutine of the pool, as the call saw the limit.
Spawn(pool) ==
  \E f \in pool : /\ job[f].pc = "asleep"
                  /\ job' = [job EXCEPT ![f] = [Asleep EXCEPT !.pc = "started"]]

\* Mutant: the entry's primary keys replaced instead of added to.
AddToIndexBufferReplaces(k, pk) ==
  /\ indexBuffer' = [indexBuffer EXCEPT ![k] = {pk}]
  /\ queued' = [queued EXCEPT ![k] = @ \cup {pk}]
  /\ IF Cardinality(Pending(indexBuffer) \cup {k}) >= BufferLimit
       THEN Spawn(AddSpawned)
       ELSE UNCHANGED job
  /\ UNCHANGED <<indexDeleteBuffer, index>>

AddToIndexBuffer(k, pk) ==
  /\ indexBuffer' = [indexBuffer EXCEPT ![k] = @ \cup {pk}]
  /\ queued' = [queued EXCEPT ![k] = @ \cup {pk}]
  /\ IF Cardinality(Pending(indexBuffer) \cup {k}) >= BufferLimit
       THEN Spawn(AddSpawned)
       ELSE UNCHANGED job
  /\ UNCHANGED <<indexDeleteBuffer, index>>

\* Mutant: the deletion put into the insertion buffer.
AddToDeleteBufferWrongMap(k, pk) ==
  /\ indexBuffer' = [indexBuffer EXCEPT ![k] = @ \cup {pk}]
  /\ UNCHANGED <<indexDeleteBuffer, index, queued, job>>

AddToDeleteBuffer(k, pk) ==
  /\ indexDeleteBuffer' = [indexDeleteBuffer EXCEPT ![k] = @ \cup {pk}]
  /\ IF Cardinality(Pending(indexDeleteBuffer) \cup {k}) >= DeleteBufferLimit
       THEN Spawn(DelSpawned)
       ELSE UNCHANGED job
  /\ UNCHANGED <<indexBuffer, index, queued>>

-----------------------------------------------------------------------------
(* flushIndexBuffer and flushIndexDeleteBuffer.                            *)

CanTake(f, buffer) ==
  \/ f \in {AddTimer, DelTimer} /\ job[f].pc = "asleep" /\ buffer # NoPks
  \/ job[f].pc = "started"

\* The loop over what is left of a batch; the flusher is done when nothing is.
Continue(f, batch) ==
  job' = [job EXCEPT ![f] =
            IF batch = NoPks THEN Asleep ELSE [Asleep EXCEPT !.pc = "running",
                                                             !.batch = batch]]

\* Mutant: the buffer emptied before it is copied.
TakeIndexBufferEmptied(f) ==
  /\ f \in AddFlushers
  /\ CanTake(f, indexBuffer)
  /\ Continue(f, NoPks)
  /\ indexBuffer' = NoPks
  /\ UNCHANGED <<indexDeleteBuffer, index, queued>>

TakeIndexBuffer(f) ==
  /\ f \in AddFlushers
  /\ CanTake(f, indexBuffer)
  /\ Continue(f, indexBuffer)
  /\ indexBuffer' = NoPks
  /\ UNCHANGED <<indexDeleteBuffer, index, queued>>

TakeIndexDeleteBuffer(f) ==
  /\ f \in DelFlushers
  /\ CanTake(f, indexDeleteBuffer)
  /\ Continue(f, indexDeleteBuffer)
  /\ indexDeleteBuffer' = NoPks
  /\ UNCHANGED <<indexBuffer, index, queued>>

\* Mutant: the length check that lets five parts pass.
MalformedShort(f, k) == FALSE

\* The delete flusher's length check: "index:db:table:column:value" is short.
Malformed(f, k) == f \in DelFlushers /\ k \notin NestedKeys

Without(batch, k) == [batch EXCEPT ![k] = {}]

\* continue: the malformed key, or the one whose store fails, is forgotten.
SkipKey(f, k) ==
  /\ job[f].pc = "running"
  /\ job[f].batch[k] # {}
  /\ \/ Malformed(f, k)
     \/ "open" \in Faults
     \/ "get" \in Faults /\ f \in DelFlushers
  /\ Continue(f, Without(job[f].batch, k))
  /\ UNCHANGED <<indexBuffer, indexDeleteBuffer, index, queued>>

\* Get.  The insertion flusher takes a failing Get for an empty list.
ReadKey(f, k) ==
  /\ job[f].pc = "running"
  /\ job[f].batch[k] # {}
  /\ ~Malformed(f, k)
  /\ \E list \in {index[k]} \cup
                 (IF "get" \in Faults /\ f \in AddFlushers THEN {{}} ELSE {}) :
        job' = [job EXCEPT ![f] = [pc |-> "merging", batch |-> job[f].batch,
                                   key |-> k, read |-> list]]
  /\ UNCHANGED <<indexBuffer, indexDeleteBuffer, index, queued>>

\* Mutants: the list overwritten; the deletions merged like additions.
MergedOverwrites(f) ==
  LET j == job[f] IN
  IF f \in AddFlushers THEN j.batch[j.key] ELSE j.read \ j.batch[j.key]

MergedAlwaysAdds(f) == job[f].read \cup job[f].batch[job[f].key]

Merged(f) ==
  LET j == job[f] IN
  IF f \in AddFlushers THEN j.read \cup j.batch[j.key]
                       ELSE j.read \ j.batch[j.key]

\* Set, if the merge changed the list; its error is ignored.
WriteKey(f) ==
  LET k == job[f].key IN
  /\ job[f].pc = "merging"
  /\ \/ index' = IF Merged(f) # job[f].read
                   THEN [index EXCEPT ![k] = Merged(f)]
                   ELSE index
     \/ "set" \in Faults /\ UNCHANGED index
  /\ Continue(f, Without(job[f].batch, k))
  /\ UNCHANGED <<indexBuffer, indexDeleteBuffer, queued>>

\* The process is killed and started again: only the lists survive.
IndexCrash ==
  /\ "crash" \in Faults
  /\ indexBuffer' = NoPks
  /\ indexDeleteBuffer' = NoPks
  /\ job' = [f \in Flushers |-> Asleep]
  /\ UNCHANGED <<index, queued>>

IndexCall ==
  \E k \in IndexKeys, pk \in Pks :
     AddToIndexBuffer(k, pk) \/ AddToDeleteBuffer(k, pk)

FlusherStep(f) ==
  \/ TakeIndexBuffer(f)
  \/ TakeIndexDeleteBuffer(f)
  \/ \E k \in IndexKeys : SkipKey(f, k) \/ ReadKey(f, k)
  \/ WriteKey(f)

IndexNext ==
  \/ IndexCall
  \/ \E f \in Flushers : FlusherStep(f)
  \/ IndexCrash

IndexSpec == IndexInit /\ [][IndexNext]_indexVars

\* Every goroutine is scheduled; the timers loop for ever.
IndexFairSpec == IndexSpec /\ \A f \in Flushers : WF_indexVars(FlusherStep(f))

-----------------------------------------------------------------------------
(***************************************************************************)
(* No flusher invents an entry: whatever races, errors and crashes happen, *)
(* a list holds only primary keys some SaveIndex queued under that key.    *)
(***************************************************************************)
NoInventedEntries == \A k \in IndexKeys : index[k] \subseteq queued[k]

\* What keeps it inductive: the same of every copy a flusher works on.
BatchesWereQueued ==
  \A k \in IndexKeys :
     /\ indexBuffer[k] \subseteq queued[k]
     /\ \A f \in AddFlushers : job[f].batch[k] \subseteq queued[k]
     /\ \A f \in Flushers :
           job[f].pc = "merging" /\ job[f].key = k => job[f].read \subseteq queued[k]

JobsConsistent ==
  \A f \in Flushers :
     /\ job[f].pc = "merging" =>
          job[f].key \in IndexKeys /\ ~Malformed(f, job[f].key)
     /\ job[f].pc \in {"asleep", "started"} => job[f].batch = NoPks

IndexInv == IndexTypeOK /\ JobsConsistent /\ BatchesWereQueued /\ NoInventedEntries

(***************************************************************************)
(* Completeness, for the index of a plain column, while no store fails,    *)
(* the process is not killed and the insertion buffer never fills up (so   *)
(* that its timer is its only flusher): every addition ever queued is on   *)
(* disk or still on its way there.  The delete flusher's stale reads       *)
(* cannot harm these keys, for it never writes them.                       *)
(***************************************************************************)
QuietIndex == Faults = {} /\ AddSpawned = {}

OnItsWay(k) == indexBuffer[k] \cup job[AddTimer].batch[k]

PlainIndexComplete ==
  QuietIndex => \A k \in PlainKeys : queued[k] \subseteq index[k] \cup OnItsWay(k)

\* The timer is the only writer of a plain key: what it read is still there.
PlainReadFresh ==
  QuietIndex =>
    \A k \in PlainKeys :
       job[AddTimer].pc = "merging" /\ job[AddTimer].key = k
         => job[AddTimer].read = index[k]

CompleteInv == IndexInv /\ PlainReadFresh /\ PlainIndexComplete

(***************************************************************************)
(* An entry of a plain column, once on disk, never leaves it.              *)
(***************************************************************************)
PlainEntriesStay ==
  [][QuietIndex => \A k \in PlainKeys : index[k] \subseteq index'[k]]_indexVars

(***************************************************************************)
(* Every addition to a plain column is eventually found on disk.           *)
(***************************************************************************)
PlainEntriesArrive ==
  \A k \in PlainKeys, pk \in Pks :
     (pk \in queued[k]) ~> (pk \in index[k])
=============================================================================
