------------------------------- MODULE RowMap -------------------------------
(***************************************************************************)
(* What the row store of storemanager promises, without its RAM map, its   *)
(* mutex or its flusher: a map of visible rows written through, with a     *)
(* delay, to a map of durable ones.                                        *)
(*                                                                         *)
(* A key is "dirty" when its visible row is newer than the durable one.    *)
(* Rows reach the durable map unchanged, one key at a time and in one      *)
(* step; making a row durable is invisible; only a delete or a crash takes *)
(* a dirty key back to its durable row.  A delete happens in two halves,   *)
(* which is why the row that was durable before can show between them, and *)
(* its second half may fail.                                               *)
(***************************************************************************)
CONSTANTS DataKeys, Rows, NoRow, NoKey, Goroutines

VARIABLES
  visible, durable, dirty,
  deleting    \* the key each caller is in the middle of deleting

rowMapVars == <<visible, durable, dirty, deleting>>

Init ==
  /\ visible = [k \in DataKeys |-> NoRow]
  /\ durable = [k \in DataKeys |-> NoRow]
  /\ dirty = {}
  /\ deleting = [g \in Goroutines |-> NoKey]

Write(k, v) ==
  /\ visible' = [visible EXCEPT ![k] = v]
  /\ dirty' = dirty \cup {k}
  /\ UNCHANGED <<durable, deleting>>

Persist(k) ==
  /\ k \in dirty
  /\ durable' = [durable EXCEPT ![k] = visible[k]]
  /\ dirty' = dirty \ {k}
  /\ UNCHANGED <<visible, deleting>>

\* First half of a delete: the volatile row goes, the durable one shows.
Forget(g, k) ==
  /\ deleting[g] = NoKey
  /\ deleting' = [deleting EXCEPT ![g] = k]
  /\ visible' = [visible EXCEPT ![k] = durable[k]]
  /\ dirty' = dirty \ {k}
  /\ UNCHANGED durable

\* Second half: the durable row goes; a row written since stays visible.
Erase(g) ==
  LET k == deleting[g] IN
  /\ k # NoKey
  /\ deleting' = [deleting EXCEPT ![g] = NoKey]
  /\ durable' = [durable EXCEPT ![k] = NoRow]
  /\ visible' = [visible EXCEPT ![k] = IF k \in dirty THEN @ ELSE NoRow]
  /\ UNCHANGED dirty

\* Or it fails, and the durable row stays.
Abandon(g) ==
  /\ deleting[g] # NoKey
  /\ deleting' = [deleting EXCEPT ![g] = NoKey]
  /\ UNCHANGED <<visible, durable, dirty>>

Crash ==
  /\ visible' = durable
  /\ dirty' = {}
  /\ deleting' = [g \in Goroutines |-> NoKey]
  /\ UNCHANGED durable

Next ==
  \/ \E k \in DataKeys :
        \/ \E v \in Rows : Write(k, v)
        \/ Persist(k)
        \/ \E g \in Goroutines : Forget(g, k)
  \/ \E g \in Goroutines : Erase(g) \/ Abandon(g)
  \/ Crash

Spec == Init /\ [][Next]_rowMapVars
=============================================================================
