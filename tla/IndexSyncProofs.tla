-------------------------- MODULE IndexSyncProofs ---------------------------
(***************************************************************************)
(* Proofs about the index, for any number of keys, primary keys, flushers  *)
(* and, where it says so, any faults.                                      *)
(***************************************************************************)
EXTENDS IndexSync, TLAPS

USE IndexSyncConstants

\* The idle job and the empty batch are well typed.
LEMMA AsleepIsJob == Asleep \in Jobs /\ NoPks \in PkLists
BY DEF Asleep, Jobs, NoPks, PkLists

\* The next job of a flusher that has dealt with a key, or has just begun.
LEMMA ContinueType ==
  ASSUME NEW f \in Flushers, NEW batch \in PkLists, IndexTypeOK, Continue(f, batch)
  PROVE  /\ job' \in [Flushers -> Jobs]
         /\ job'[f].pc # "merging"
         /\ job'[f].batch = batch
         /\ job'[f].pc \in {"asleep", "started"} => batch = NoPks
         /\ \A e \in Flushers \ {f} : job'[e] = job[e]
<1> DEFINE next == IF batch = NoPks THEN Asleep
                   ELSE [Asleep EXCEPT !.pc = "running", !.batch = batch]
<1>1. /\ next \in Jobs /\ next.pc # "merging" /\ next.batch = batch
      /\ next.pc \in {"asleep", "started"} => batch = NoPks
  BY AsleepIsJob DEF Asleep, Jobs
<1>2. job' = [job EXCEPT ![f] = next]
  BY DEF Continue
<1> HIDE DEF next
<1>3. QED
  BY <1>1, <1>2 DEF IndexTypeOK

\* The job of a flusher that has read a key's list.
LEMMA ReadKeyType ==
  ASSUME IndexTypeOK, NEW f \in Flushers, NEW k \in IndexKeys, ReadKey(f, k)
  PROVE  /\ job' \in [Flushers -> Jobs]
         /\ job'[f].pc = "merging" /\ job'[f].key = k
         /\ job'[f].batch = job[f].batch
         /\ job'[f].read \in {index[k], {}}
         /\ Faults = {} => job'[f].read = index[k]
         /\ \A e \in Flushers \ {f} : job'[e] = job[e]
<1>1. PICK list \in {index[k]} \cup
                     (IF "get" \in Faults /\ f \in AddFlushers THEN {{}} ELSE {}) :
        job' = [job EXCEPT ![f] = [pc |-> "merging", batch |-> job[f].batch,
                                   key |-> k, read |-> list]]
  BY DEF ReadKey
<1>2. list \in SUBSET Pks /\ list \in {index[k], {}} /\ (Faults = {} => list = index[k])
  BY <1>1 DEF IndexTypeOK, PkLists
<1>3. job[f] \in Jobs
  BY DEF IndexTypeOK
<1>4. [pc |-> "merging", batch |-> job[f].batch, key |-> k, read |-> list] \in Jobs
  BY <1>2, <1>3 DEF Jobs
<1>5. QED
  BY <1>1, <1>2, <1>4 DEF IndexTypeOK

\* A spawned flusher, and nobody else, changes its job: it is "started".
LEMMA SpawnType ==
  ASSUME IndexTypeOK, NEW pool \in SUBSET Flushers, Spawn(pool)
  PROVE  /\ job' \in [Flushers -> Jobs]
         /\ \E f \in pool :
               /\ job'[f].pc = "started" /\ job'[f].batch = NoPks
               /\ \A e \in Flushers \ {f} : job'[e] = job[e]
<1> DEFINE started == [Asleep EXCEPT !.pc = "started"]
<1>1. PICK f \in pool : job' = [job EXCEPT ![f] = started]
  BY DEF Spawn
<1>2. started \in Jobs /\ started.pc = "started" /\ started.batch = NoPks
  BY AsleepIsJob DEF Asleep, Jobs
<1> HIDE DEF started
<1>3. QED
  BY <1>1, <1>2 DEF IndexTypeOK

\* Taking a key out of a batch leaves a batch, no larger under any key.
LEMMA WithoutType ==
  ASSUME NEW batch \in PkLists, NEW k
  PROVE  /\ Without(batch, k) \in PkLists
         /\ \A j \in IndexKeys : Without(batch, k)[j] \subseteq batch[j]
         /\ \A j \in IndexKeys \ {k} : Without(batch, k)[j] = batch[j]
BY DEF Without, PkLists

\* Every step preserves the types.
LEMMA IndexTypeStep == IndexTypeOK /\ JobsConsistent /\ [IndexNext]_indexVars => IndexTypeOK'
<1> SUFFICES ASSUME IndexTypeOK, JobsConsistent, [IndexNext]_indexVars
             PROVE  IndexTypeOK'
  OBVIOUS
<1>1. ASSUME NEW k \in IndexKeys, NEW pk \in Pks, AddToIndexBuffer(k, pk)
      PROVE  IndexTypeOK'
  <2>1. job' \in [Flushers -> Jobs]
    BY <1>1, SpawnType DEF AddToIndexBuffer, IndexTypeOK, AddFlushers, Flushers
  <2>2. QED
    BY <1>1, <2>1 DEF AddToIndexBuffer, IndexTypeOK, PkLists
<1>2. ASSUME NEW k \in IndexKeys, NEW pk \in Pks, AddToDeleteBuffer(k, pk)
      PROVE  IndexTypeOK'
  <2>1. job' \in [Flushers -> Jobs]
    BY <1>2, SpawnType DEF AddToDeleteBuffer, IndexTypeOK, DelFlushers, Flushers
  <2>2. QED
    BY <1>2, <2>1 DEF AddToDeleteBuffer, IndexTypeOK, PkLists
<1>3. ASSUME NEW f \in Flushers, TakeIndexBuffer(f) \/ TakeIndexDeleteBuffer(f)
      PROVE  IndexTypeOK'
  BY <1>3, ContinueType, AsleepIsJob
     DEF TakeIndexBuffer, TakeIndexDeleteBuffer, IndexTypeOK
<1>4. ASSUME NEW f \in Flushers, NEW k \in IndexKeys, SkipKey(f, k)
      PROVE  IndexTypeOK'
  <2>1. job[f].batch \in PkLists
    BY DEF IndexTypeOK, Jobs
  <2>2. job' \in [Flushers -> Jobs]
    BY <1>4, <2>1, ContinueType, WithoutType DEF SkipKey
  <2>3. QED
    BY <1>4, <2>2 DEF SkipKey, IndexTypeOK
<1>5. ASSUME NEW f \in Flushers, NEW k \in IndexKeys, ReadKey(f, k)
      PROVE  IndexTypeOK'
  BY <1>5, ReadKeyType DEF ReadKey, IndexTypeOK
<1>6. ASSUME NEW f \in Flushers, WriteKey(f)
      PROVE  IndexTypeOK'
  <2>1. job[f].batch \in PkLists /\ job[f].read \subseteq Pks /\ job[f].key \in IndexKeys
    BY <1>6 DEF IndexTypeOK, Jobs, WriteKey, JobsConsistent
  <2>2. job' \in [Flushers -> Jobs]
    BY <1>6, <2>1, ContinueType, WithoutType DEF WriteKey
  <2>3. Merged(f) \subseteq Pks
    BY <2>1 DEF Merged, PkLists
  <2>4. index' \in PkLists
    BY <1>6, <2>1, <2>3 DEF WriteKey, IndexTypeOK, PkLists
  <2>5. QED
    BY <1>6, <2>2, <2>4 DEF WriteKey, IndexTypeOK
<1>7. CASE IndexCrash
  BY <1>7, AsleepIsJob DEF IndexCrash, IndexTypeOK
<1>8. CASE UNCHANGED indexVars
  BY <1>8 DEF indexVars, IndexTypeOK
<1>9. QED
  BY <1>1, <1>2, <1>3, <1>4, <1>5, <1>6, <1>7, <1>8
     DEF IndexNext, IndexCall, FlusherStep

(***************************************************************************)
(* How a step changes a flusher: it is left alone, or it has just got a    *)
(* batch from a buffer, or read the list of a key, or dealt with a key.    *)
(***************************************************************************)
LEMMA JobsStep == IndexTypeOK /\ JobsConsistent /\ [IndexNext]_indexVars => JobsConsistent'
<1> DEFINE Good(e) ==
      /\ job'[e].pc = "merging" =>
           job'[e].key \in IndexKeys /\ ~Malformed(e, job'[e].key)
      /\ job'[e].pc \in {"asleep", "started"} => job'[e].batch = NoPks
<1> SUFFICES ASSUME IndexTypeOK, JobsConsistent, [IndexNext]_indexVars,
                    NEW e \in Flushers
             PROVE  Good(e)
  BY DEF JobsConsistent, Malformed
<1>0. job'[e] = job[e] => Good(e)
  BY DEF JobsConsistent
<1>1. ASSUME NEW k \in IndexKeys, NEW pk \in Pks,
             AddToIndexBuffer(k, pk) \/ AddToDeleteBuffer(k, pk)
      PROVE  Good(e)
  BY <1>0, <1>1, SpawnType
     DEF AddToIndexBuffer, AddToDeleteBuffer, AddFlushers, DelFlushers, Flushers
<1>2. ASSUME NEW f \in Flushers, NEW batch \in PkLists, Continue(f, batch)
      PROVE  Good(e)
  BY <1>0, <1>2, ContinueType
<1>3. ASSUME NEW f \in Flushers, NEW k \in IndexKeys, ReadKey(f, k)
      PROVE  Good(e)
  BY <1>0, <1>3, ReadKeyType DEF ReadKey
<1>4. ASSUME NEW f \in Flushers,
             \/ TakeIndexBuffer(f) \/ TakeIndexDeleteBuffer(f) \/ WriteKey(f)
             \/ \E k \in IndexKeys : SkipKey(f, k)
      PROVE  \E batch \in PkLists : Continue(f, batch)
  <2>1. indexBuffer \in PkLists /\ indexDeleteBuffer \in PkLists /\ job[f].batch \in PkLists
    BY DEF IndexTypeOK, Jobs
  <2>2. QED
    BY <1>4, <2>1, WithoutType
       DEF TakeIndexBuffer, TakeIndexDeleteBuffer, WriteKey, SkipKey
<1>5. CASE IndexCrash
  BY <1>5 DEF IndexCrash, Asleep
<1>6. CASE UNCHANGED indexVars
  BY <1>0, <1>6 DEF indexVars
<1>7. QED
  BY <1>0, <1>1, <1>2, <1>3, <1>4, <1>5, <1>6 DEF IndexNext, IndexCall, FlusherStep

(***************************************************************************)
(* The copies: everything on its way to a list, and everything a flusher   *)
(* has read of one, was queued for that list.                              *)
(***************************************************************************)
LEMMA EntriesStep ==
  IndexInv /\ [IndexNext]_indexVars => BatchesWereQueued' /\ NoInventedEntries'
<1> SUFFICES ASSUME IndexInv, [IndexNext]_indexVars
             PROVE  BatchesWereQueued' /\ NoInventedEntries'
  OBVIOUS
<1> USE DEF IndexInv, BatchesWereQueued, NoInventedEntries
<1>1. ASSUME NEW k \in IndexKeys, NEW pk \in Pks, AddToIndexBuffer(k, pk)
      PROVE  BatchesWereQueued' /\ NoInventedEntries'
  <2>1. \A f \in Flushers : \/ job'[f] = job[f]
                            \/ job'[f].pc = "started" /\ job'[f].batch = NoPks
    BY <1>1, SpawnType DEF AddToIndexBuffer, AddFlushers, Flushers
  <2>2. index' = index
    BY <1>1 DEF AddToIndexBuffer
  <2>3. \A j \in IndexKeys : /\ queued[j] \subseteq queued'[j]
                             /\ indexBuffer'[j] \subseteq queued'[j]
    BY <1>1 DEF AddToIndexBuffer, IndexTypeOK, PkLists
  <2>4. QED
    BY <2>1, <2>2, <2>3 DEF NoPks, Flushers
<1>2. ASSUME NEW k \in IndexKeys, NEW pk \in Pks, AddToDeleteBuffer(k, pk)
      PROVE  BatchesWereQueued' /\ NoInventedEntries'
  <2>1. \A f \in Flushers : \/ job'[f] = job[f]
                            \/ job'[f].pc = "started" /\ job'[f].batch = NoPks
    BY <1>2, SpawnType DEF AddToDeleteBuffer, DelFlushers, Flushers
  <2>2. index' = index /\ indexBuffer' = indexBuffer /\ queued' = queued
    BY <1>2 DEF AddToDeleteBuffer
  <2>3. QED
    BY <2>1, <2>2 DEF NoPks, Flushers
<1>3. ASSUME NEW f \in Flushers, TakeIndexBuffer(f)
      PROVE  BatchesWereQueued' /\ NoInventedEntries'
  <2>1. indexBuffer \in PkLists
    BY DEF IndexTypeOK
  <2>2. /\ job'[f].pc # "merging" /\ job'[f].batch = indexBuffer
        /\ \A e \in Flushers \ {f} : job'[e] = job[e]
    BY <1>3, <2>1, ContinueType DEF TakeIndexBuffer
  <2>3. index' = index /\ queued' = queued /\ indexBuffer' = NoPks
    BY <1>3 DEF TakeIndexBuffer
  <2>4. QED
    BY <2>2, <2>3 DEF NoPks, Flushers
<1>4. ASSUME NEW f \in Flushers, TakeIndexDeleteBuffer(f)
      PROVE  BatchesWereQueued' /\ NoInventedEntries'
  <2>1. indexDeleteBuffer \in PkLists
    BY DEF IndexTypeOK
  <2>2. /\ job'[f].pc # "merging"
        /\ \A e \in Flushers \ {f} : job'[e] = job[e]
    BY <1>4, <2>1, ContinueType DEF TakeIndexDeleteBuffer
  <2>3. /\ index' = index /\ queued' = queued /\ indexBuffer' = indexBuffer
        /\ f \notin AddFlushers
    BY <1>4 DEF TakeIndexDeleteBuffer
  <2>4. QED
    BY <2>2, <2>3 DEF Flushers
<1>5. ASSUME NEW f \in Flushers, NEW k \in IndexKeys, SkipKey(f, k)
      PROVE  BatchesWereQueued' /\ NoInventedEntries'
  <2>1. job[f].batch \in PkLists
    BY DEF IndexTypeOK, Jobs
  <2>2. /\ job'[f].pc # "merging"
        /\ \A j \in IndexKeys : job'[f].batch[j] \subseteq job[f].batch[j]
        /\ \A e \in Flushers \ {f} : job'[e] = job[e]
    BY <1>5, <2>1, ContinueType, WithoutType DEF SkipKey
  <2>3. index' = index /\ queued' = queued /\ indexBuffer' = indexBuffer
    BY <1>5 DEF SkipKey
  <2>4. QED
    BY <2>2, <2>3 DEF Flushers
<1>6. ASSUME NEW f \in Flushers, NEW k \in IndexKeys, ReadKey(f, k)
      PROVE  BatchesWereQueued' /\ NoInventedEntries'
  <2>1. /\ job'[f].key = k /\ job'[f].batch = job[f].batch
        /\ job'[f].read \in {index[k], {}}
        /\ \A e \in Flushers \ {f} : job'[e] = job[e]
    BY <1>6, ReadKeyType
  <2>2. index' = index /\ queued' = queued /\ indexBuffer' = indexBuffer
    BY <1>6 DEF ReadKey
  <2>3. QED
    BY <2>1, <2>2 DEF Flushers
<1>7. ASSUME NEW f \in Flushers, WriteKey(f)
      PROVE  BatchesWereQueued' /\ NoInventedEntries'
  <2> DEFINE k == job[f].key
  <2>1. job[f].batch \in PkLists /\ k \in IndexKeys
    BY <1>7 DEF IndexTypeOK, Jobs, WriteKey, JobsConsistent
  <2>2. /\ job'[f].pc # "merging"
        /\ \A j \in IndexKeys : job'[f].batch[j] \subseteq job[f].batch[j]
        /\ \A e \in Flushers \ {f} : job'[e] = job[e]
    BY <1>7, <2>1, ContinueType, WithoutType DEF WriteKey
  <2>3. queued' = queued /\ indexBuffer' = indexBuffer
    BY <1>7 DEF WriteKey
  <2>4. Merged(f) \subseteq queued[k]
    BY <1>7, <2>1 DEF Merged, WriteKey
  <2>5. index' = index \/ index' = [index EXCEPT ![k] = Merged(f)]
    BY <1>7 DEF WriteKey
  <2>6. \A j \in IndexKeys : index'[j] \subseteq queued'[j]
    BY <2>1, <2>3, <2>4, <2>5 DEF IndexTypeOK, PkLists
  <2>7. QED
    BY <2>2, <2>3, <2>6 DEF Flushers
<1>8. CASE IndexCrash
  BY <1>8 DEF IndexCrash, Asleep, NoPks, Flushers
<1>9. CASE UNCHANGED indexVars
  BY <1>9 DEF indexVars
<1>10. QED
  BY <1>1, <1>2, <1>3, <1>4, <1>5, <1>6, <1>7, <1>8, <1>9
     DEF IndexNext, IndexCall, FlusherStep

\* The initial state satisfies the invariant.
LEMMA IndexInitInv == IndexInit => IndexInv
BY AsleepIsJob DEF IndexInit, IndexInv, IndexTypeOK, JobsConsistent,
   BatchesWereQueued, NoInventedEntries, Asleep, NoPks, Flushers

\* Every step preserves the invariant.
LEMMA IndexInvStep == IndexInv /\ [IndexNext]_indexVars => IndexInv'
BY IndexTypeStep, JobsStep, EntriesStep DEF IndexInv

(***************************************************************************)
(* Whatever the faults, the crashes and the number of flushers, a list     *)
(* holds no primary key that was not queued for it.                        *)
(***************************************************************************)
THEOREM IndexInvariant == IndexSpec => []IndexInv
BY IndexInitInv, IndexInvStep, PTL DEF IndexSpec

(***************************************************************************)
(* In particular a look-up never returns a primary key nobody queued under *)
(* the value looked up.                                                    *)
(***************************************************************************)
THEOREM IndexInventsNothing == IndexSpec => []NoInventedEntries
<1>1. IndexInv => NoInventedEntries
  BY DEF IndexInv
<1>2. QED
  BY IndexInvariant, <1>1, PTL

(***************************************************************************)
(* Plain columns, while the index is quiet.  The insertion timer is then   *)
(* the only goroutine that writes their lists: the delete flushers pass    *)
(* over their keys.  So what the timer has read of a list is still there   *)
(* when it writes the list back, and writing it back only adds to it.      *)
(***************************************************************************)
LEMMA PlainStep ==
  ASSUME CompleteInv, [IndexNext]_indexVars, QuietIndex, NEW k \in PlainKeys
  PROVE  /\ job'[AddTimer].pc = "merging" /\ job'[AddTimer].key = k
              => job'[AddTimer].read = index'[k]
         /\ queued'[k] \subseteq index'[k] \cup indexBuffer'[k] \cup job'[AddTimer].batch[k]
         /\ index[k] \subseteq index'[k]
<1> DEFINE Goal == /\ job'[AddTimer].pc = "merging" /\ job'[AddTimer].key = k
                        => job'[AddTimer].read = index'[k]
                   /\ queued'[k] \subseteq
                        index'[k] \cup indexBuffer'[k] \cup job'[AddTimer].batch[k]
                   /\ index[k] \subseteq index'[k]
<1> SUFFICES Goal
  OBVIOUS
<1> USE DEF CompleteInv, IndexInv, PlainKeys, Flushers, AddFlushers, DelFlushers
<1>a. Faults = {} /\ AddSpawned = {} /\ AddTimer \in Flushers /\ AddTimer \notin DelFlushers
  BY DEF QuietIndex
<1>b. job[AddTimer].pc = "merging" /\ job[AddTimer].key = k
        => job[AddTimer].read = index[k]
  BY DEF PlainReadFresh
<1>c. queued[k] \subseteq index[k] \cup indexBuffer[k] \cup job[AddTimer].batch[k]
  BY DEF PlainIndexComplete, OnItsWay
<1>d. job[AddTimer].batch \in PkLists
  BY <1>a DEF IndexTypeOK, Jobs
<1> HIDE DEF Flushers, AddFlushers, DelFlushers
<1>1. ASSUME NEW j \in IndexKeys, NEW pk \in Pks, AddToIndexBuffer(j, pk)
      PROVE  Goal
  <2>1. job' = job
    BY <1>1, <1>a DEF AddToIndexBuffer, Spawn
  <2>2. /\ index' = index
        /\ queued'[k] \subseteq queued[k] \cup (indexBuffer'[k] \ indexBuffer[k])
        /\ indexBuffer[k] \subseteq indexBuffer'[k]
    BY <1>1 DEF AddToIndexBuffer, IndexTypeOK, PkLists, BatchesWereQueued
  <2>3. QED
    BY <1>b, <1>c, <2>1, <2>2
<1>2. ASSUME NEW j \in IndexKeys, NEW pk \in Pks, AddToDeleteBuffer(j, pk)
      PROVE  Goal
  <2>1. job'[AddTimer] = job[AddTimer]
    BY <1>2, <1>a, SpawnType DEF AddToDeleteBuffer, DelFlushers, Flushers
  <2>2. index' = index /\ queued' = queued /\ indexBuffer' = indexBuffer
    BY <1>2 DEF AddToDeleteBuffer
  <2>3. QED
    BY <1>b, <1>c, <2>1, <2>2
<1>3. ASSUME NEW f \in Flushers, TakeIndexBuffer(f)
      PROVE  Goal
  <2>1. f = AddTimer /\ indexBuffer \in PkLists
    BY <1>3, <1>a DEF TakeIndexBuffer, AddFlushers, IndexTypeOK
  <2>2. job'[f].pc # "merging" /\ job'[f].batch = indexBuffer
    BY <1>3, <2>1, ContinueType DEF TakeIndexBuffer
  <2>3. job[f].batch[k] = {}
    BY <1>3, <2>1 DEF TakeIndexBuffer, CanTake, JobsConsistent, NoPks
  <2>4. index' = index /\ queued' = queued
    BY <1>3 DEF TakeIndexBuffer
  <2>5. QED
    BY <1>c, <2>1, <2>2, <2>3, <2>4
<1>4. ASSUME NEW f \in Flushers, TakeIndexDeleteBuffer(f)
      PROVE  Goal
  <2>1. f # AddTimer /\ indexDeleteBuffer \in PkLists
    BY <1>4, <1>a DEF TakeIndexDeleteBuffer, IndexTypeOK
  <2>2. job'[AddTimer] = job[AddTimer]
    BY <1>4, <1>a, <2>1, ContinueType DEF TakeIndexDeleteBuffer
  <2>3. index' = index /\ queued' = queued /\ indexBuffer' = indexBuffer
    BY <1>4 DEF TakeIndexDeleteBuffer
  <2>4. QED
    BY <1>b, <1>c, <2>2, <2>3
<1>5. ASSUME NEW f \in Flushers, NEW j \in IndexKeys, SkipKey(f, j)
      PROVE  Goal
  <2>1. f # AddTimer
    BY <1>5, <1>a DEF SkipKey, Malformed
  <2>2. job[f].batch \in PkLists
    BY DEF IndexTypeOK, Jobs
  <2>3. job'[AddTimer] = job[AddTimer]
    BY <1>5, <1>a, <2>1, <2>2, ContinueType, WithoutType DEF SkipKey
  <2>4. index' = index /\ queued' = queued /\ indexBuffer' = indexBuffer
    BY <1>5 DEF SkipKey
  <2>5. QED
    BY <1>b, <1>c, <2>3, <2>4
<1>6. ASSUME NEW f \in Flushers, NEW j \in IndexKeys, ReadKey(f, j)
      PROVE  Goal
  <2>1. /\ job'[f].key = j /\ job'[f].batch = job[f].batch
        /\ job'[f].read = index[j]
        /\ \A e \in Flushers \ {f} : job'[e] = job[e]
    BY <1>6, <1>a, ReadKeyType
  <2>2. index' = index /\ queued' = queued /\ indexBuffer' = indexBuffer
    BY <1>6 DEF ReadKey
  <2>3. QED
    BY <1>a, <1>b, <1>c, <2>1, <2>2
<1>7. ASSUME NEW f \in Flushers, WriteKey(f)
      PROVE  Goal
  <2> DEFINE j == job[f].key
  <2>1. job[f].batch \in PkLists /\ j \in IndexKeys /\ ~Malformed(f, j)
    BY <1>7 DEF IndexTypeOK, Jobs, WriteKey, JobsConsistent
  <2>2. queued' = queued /\ indexBuffer' = indexBuffer
    BY <1>7 DEF WriteKey
  <2>3. index' = IF Merged(f) # job[f].read
                   THEN [index EXCEPT ![j] = Merged(f)] ELSE index
    BY <1>7, <1>a DEF WriteKey
  <2>4. /\ job'[f].pc # "merging"
        /\ job'[f].batch = Without(job[f].batch, j)
        /\ \A e \in Flushers \ {f} : job'[e] = job[e]
    BY <1>7, <2>1, ContinueType, WithoutType DEF WriteKey
  <2>5. CASE f = AddTimer
    <3>1. Merged(f) = job[f].read \cup job[f].batch[j]
      BY <2>5 DEF Merged, AddFlushers
    <3>2. CASE j = k
      <4>1. job[f].read = index[k]
        BY <1>7, <1>b, <2>5, <3>2 DEF WriteKey
      <4>2. index'[k] = index[k] \cup job[f].batch[k]
        BY <2>1, <2>3, <3>1, <3>2, <4>1 DEF IndexTypeOK, PkLists
      <4>3. QED
        BY <1>c, <2>2, <2>4, <2>5, <4>2
    <3>3. CASE j # k
      <4>1. index'[k] = index[k]
        BY <2>3, <3>3 DEF IndexTypeOK, PkLists
      <4>2. job'[f].batch[k] = job[f].batch[k]
        BY <2>1, <2>4, <3>3, WithoutType
      <4>3. QED
        BY <1>c, <2>2, <2>4, <2>5, <4>1, <4>2
    <3>4. QED
      BY <3>2, <3>3
  <2>6. CASE f # AddTimer
    <3>1. f \in DelFlushers
      BY <2>6, <1>a DEF Flushers, AddFlushers
    <3>2. j # k
      BY <2>1, <3>1 DEF Malformed
    <3>3. index'[k] = index[k] /\ job'[AddTimer] = job[AddTimer]
      BY <1>a, <2>3, <2>4, <2>6, <3>2 DEF IndexTypeOK, PkLists
    <3>4. QED
      BY <1>b, <1>c, <2>2, <3>3
  <2>7. QED
    BY <2>5, <2>6
<1>8. CASE UNCHANGED indexVars
  BY <1>8, <1>b, <1>c DEF indexVars
<1>9. ~IndexCrash
  BY <1>a DEF IndexCrash
<1>10. QED
  BY <1>1, <1>2, <1>3, <1>4, <1>5, <1>6, <1>7, <1>8, <1>9
     DEF IndexNext, IndexCall, FlusherStep

\* Nothing is queued at first.
LEMMA CompleteInitInv == IndexInit => CompleteInv
<1>1. IndexInit => PlainReadFresh /\ PlainIndexComplete
  BY DEF IndexInit, PlainReadFresh, PlainIndexComplete, OnItsWay, Asleep, NoPks,
         Flushers, AddFlushers, PlainKeys
<1>2. QED
  BY <1>1, IndexInitInv DEF CompleteInv

\* The timer's reads of plain keys stay fresh, and nothing queued is dropped.
LEMMA CompleteInvStep == CompleteInv /\ [IndexNext]_indexVars => CompleteInv'
<1> SUFFICES ASSUME CompleteInv, [IndexNext]_indexVars
             PROVE  CompleteInv'
  OBVIOUS
<1>1. IndexInv'
  BY IndexInvStep DEF CompleteInv
<1>2. PlainReadFresh' /\ PlainIndexComplete'
  BY <1>1, PlainStep DEF PlainReadFresh, PlainIndexComplete, OnItsWay
<1>3. QED
  BY <1>1, <1>2 DEF CompleteInv

\* CompleteInv holds in every reachable state.
THEOREM CompleteInvariant == IndexSpec => []CompleteInv
BY CompleteInitInv, CompleteInvStep, PTL DEF IndexSpec

(***************************************************************************)
(* Every primary key queued for a plain column's value is on disk or on    *)
(* its way, as long as the index stays quiet.                              *)
(***************************************************************************)
THEOREM PlainColumnsComplete == IndexSpec => []PlainIndexComplete
<1>1. CompleteInv => PlainIndexComplete
  BY DEF CompleteInv
<1>2. QED
  BY CompleteInvariant, <1>1, PTL

(***************************************************************************)
(* And once on disk it stays there.                                        *)
(***************************************************************************)
THEOREM PlainColumnsGrow == IndexSpec => PlainEntriesStay
<1>1. CompleteInv /\ [IndexNext]_indexVars =>
        [QuietIndex => \A k \in PlainKeys : index[k] \subseteq index'[k]]_indexVars
  BY PlainStep
<1>2. QED
  BY CompleteInvariant, <1>1, PTL DEF IndexSpec, PlainEntriesStay
=============================================================================
