------------------------------ MODULE Streams -------------------------------
(***************************************************************************)
(* The subscriptions of the router (stream.go): for each primary key, and  *)
(* under each query, an entry with a context, the requests subscribed and  *)
(* the evaluator that is to answer them.  Subscribe runs under streamsMu   *)
(* from its first line to its last and touches nothing else, so a call is  *)
(* one step.  (The Go map has one more level, the protocol's password,     *)
(* which only makes for more maps of the shape modelled.)                  *)
(*                                                                         *)
(* The consumer of the map, handleDatabaseReaction, is not here: nothing   *)
(* calls StartStreamer, which would register it.                           *)
(***************************************************************************)
EXTENDS FiniteSets

CONSTANTS
  Rids,       \* requests; a subscriber is known by its request
  Pks, Queries, Ctxs,
  NoEntry,    \* a nil *QueryConnMap
  NoCtx       \* an entry whose evaluator is still nil

ASSUME StreamsConstants == NoCtx \notin Ctxs

VARIABLE streams

\* An entry's evaluator is for its own query; "eval" is its context.
Entries == [ctx : Ctxs, conns : SUBSET Rids, eval : Ctxs \cup {NoCtx}]

StreamsTypeOK == streams \in [Pks -> [Queries -> Entries \cup {NoEntry}]]

NoStreams == [pk \in Pks |-> [q \in Queries |-> NoEntry]]

Matching(entries, ctx) ==
  {q \in Queries : entries[q] # NoEntry /\ entries[q].ctx = ctx}

(***************************************************************************)
(* The range over the queries stops at any entry of this context, whatever *)
(* its query (Go's order of iteration is arbitrary); if there is none, a   *)
(* new entry takes the place of the query's own.                           *)
(***************************************************************************)
Joined(entries, rid, query, ctx) ==
  LET same == Matching(entries, ctx) IN
  IF same = {}
    THEN {[entries EXCEPT ![query] =
            [ctx |-> ctx, conns |-> {rid}, eval |-> NoCtx]]}
    ELSE {[entries EXCEPT ![q].conns = @ \cup {rid}] : q \in same}

\* The evaluator goes to the entry under the query.
Subscribe(rid, query, ctx, pk) ==
  \E joined \in Joined(streams[pk], rid, query, ctx) :
    /\ joined[query] # NoEntry
    /\ streams' = [streams EXCEPT ![pk] = [joined EXCEPT ![query].eval = ctx]]

\* There is no entry under the query: the assignment is to a nil pointer.
SubscribePanics(rid, query, ctx, pk) ==
  \E joined \in Joined(streams[pk], rid, query, ctx) : joined[query] = NoEntry

\* The query does not parse; the subscriber stays where it was put.
SubscribeFails(rid, query, ctx, pk) ==
  \E joined \in Joined(streams[pk], rid, query, ctx) :
    streams' = [streams EXCEPT ![pk] = joined]
=============================================================================
