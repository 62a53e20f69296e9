------------------------------- MODULE Router -------------------------------
(***************************************************************************)
(* The router between TCP clients, the database and the extensions         *)
(* (router/*.go, server/tcp_server.go): a goroutine per request, a         *)
(* responder map nobody locks, extensions that are processes of their own  *)
(* behind NATS, and a server that dies of a panic in any goroutine and is  *)
(* started again, with the map empty and the extensions still at work.     *)
(*                                                                         *)
(* A request is known by its RID ("unique request ID"), so a responder is  *)
(* no more than the RID's presence in the map.  Requests are well formed:  *)
(* three parts, a target that exists, and a payload the handler can at     *)
(* worst reject.  Of the database only which keys a request has changed is *)
(* kept: what a change does is StoreManager's subject.                     *)
(***************************************************************************)
EXTENDS Streams, Sequences, Naturals

CONSTANTS
  Exts,       \* keywords of registered extensions
  NoSub,
  Faults      \* "kill", "race" (Go's check for concurrent map writes), "lose"

Changing == {"update", "delete"}
Internal == Changing \cup {"insert", "onql", "database", "subscribe"}
Kinds == Internal \cup Exts
Subs == Queries \X Ctxs

ASSUME RouterConstants ==
  /\ Exts \cap Internal = {}
  /\ NoSub \notin Subs
  /\ Faults \subseteq {"kill", "race", "lose"}

VARIABLES
  process,     \* "up", or what the server died of
  responders,  \* the keys of connQueryMap
  task,        \* each request's goroutine
  ext,         \* where a request to an extension is
  done,        \* history: the keys a request has changed
  answers,     \* history: what was written to the request's connection
  announced    \* history: the keys published to "react.database"

vars == <<process, responders, task, ext, done, answers, announced, streams>>

(***************************************************************************)
(* A goroutine: its target, where it is, the keys its request names and    *)
(* those still to be changed, the answer it is to give, what follows the   *)
(* answer, and for "subscribe" the query and context.  "gone": the server  *)
(* that had the request died.                                              *)
(***************************************************************************)
Tasks == [kind : Kinds \cup {"none"},
          pc : {"none", "register", "route", "changing", "answer", "forget",
                "announce", "again", "done", "gone"},
          named : SUBSET Pks, left : SUBSET Pks,
          error : BOOLEAN, data : BOOLEAN,
          then : {"done", "announce", "again"},
          sub : Subs \cup {NoSub}]

NoTask == [kind |-> "none", pc |-> "none", named |-> {}, left |-> {},
           error |-> FALSE, data |-> FALSE, then |-> "done", sub |-> NoSub]

(***************************************************************************)
(* A request to an extension: "published" to it, "working" in it, "asking" *)
(* the database on its behalf and "told", "answered", then in the server's *)
(* subscription: "responding", "forgetting", "done".                       *)
(***************************************************************************)
Places == {"none", "published", "working", "asking", "told", "answered",
           "responding", "forgetting", "done", "lost"}

Answers == [error : BOOLEAN, data : BOOLEAN]

RouterTypeOK ==
  /\ process \in {"up", "killed", "raced", "subscribe", "noResponder"}
  /\ responders \subseteq Rids
  /\ task \in [Rids -> Tasks]
  /\ ext \in [Rids -> Places]
  /\ done \in [Rids -> SUBSET Pks]
  /\ answers \in [Rids -> Seq(Answers)]
  /\ announced \in [Rids -> SUBSET Pks]
  /\ StreamsTypeOK

Init ==
  /\ process = "up"
  /\ responders = {}
  /\ task = [r \in Rids |-> NoTask]
  /\ ext = [r \in Rids |-> "none"]
  /\ done = [r \in Rids |-> {}]
  /\ answers = [r \in Rids |-> <<>>]
  /\ announced = [r \in Rids |-> {}]
  /\ streams = NoStreams

-----------------------------------------------------------------------------
(* The life of the process.                                                *)

(***************************************************************************)
(* A panic outside dsl.Execute's recover ends the process: connections and *)
(* goroutines are gone, and so are the messages NATS had for it.           *)
(***************************************************************************)
Die(cause) ==
  /\ process' = cause
  /\ responders' = {}
  /\ streams' = NoStreams
  /\ task' = [r \in Rids |->
                IF task[r].pc = "none"
                  THEN NoTask
                  ELSE [NoTask EXCEPT !.kind = task[r].kind, !.pc = "gone",
                                      !.named = task[r].named]]
  /\ ext' = [r \in Rids |->
               IF ext[r] \in {"asking", "answered", "responding", "forgetting"}
                 THEN "lost" ELSE ext[r]]
  /\ UNCHANGED <<done, answers, announced>>

Restart ==
  /\ process # "up"
  /\ process' = "up"
  /\ UNCHANGED <<responders, task, ext, done, answers, announced, streams>>

Kill == process = "up" /\ "kill" \in Faults /\ Die("killed")

\* Goroutines at an access to connQueryMap, and those whose access writes.
Reading == {r \in Rids : task[r].pc = "answer" \/ ext[r] = "responding"}
Writing == {r \in Rids : \/ task[r].pc \in {"register", "forget"}
                         \/ ext[r] = "forgetting"}

MapRace ==
  /\ process = "up"
  /\ "race" \in Faults
  /\ Writing # {} /\ Cardinality(Reading \cup Writing) > 1
  /\ Die("raced")

-----------------------------------------------------------------------------
(* A client's request and its goroutine.                                   *)

At(rid, pc) == process = "up" /\ task[rid].pc = pc

Goes(rid, pc) == task' = [task EXCEPT ![rid].pc = pc]

Replies(rid, error, data, then) ==
  task' = [task EXCEPT ![rid].pc = "answer", ![rid].error = error,
                       ![rid].data = data, ![rid].then = then]

Ask(rid, kind) ==
  /\ At(rid, "none")
  /\ task' = [task EXCEPT ![rid] = [NoTask EXCEPT !.kind = kind,
                                                  !.pc = "register"]]
  /\ UNCHANGED <<process, responders, ext, done, answers, announced, streams>>

\* Mutant: the responder stored under the target.
HandleServerRequestByTarget(rid) ==
  /\ At(rid, "register")
  /\ responders' = responders \cup {task[rid].kind}
  /\ Goes(rid, "route")
  /\ UNCHANGED <<process, ext, done, answers, announced, streams>>

HandleServerRequest(rid) ==
  /\ At(rid, "register")
  /\ responders' = responders \cup {rid}
  /\ Goes(rid, "route")
  /\ UNCHANGED <<process, ext, done, answers, announced, streams>>

Routed(rid, kinds) == At(rid, "route") /\ task[rid].kind \in kinds

\* Mutants: the return after an error forgotten; the error not answered.
RefuseGoesOn(rid) ==
  /\ Routed(rid, Internal)
  /\ Replies(rid, TRUE, FALSE, "again")
  /\ UNCHANGED <<process, responders, ext, done, answers, announced, streams>>

RefuseSilently(rid) ==
  /\ Routed(rid, Internal)
  /\ Goes(rid, "done")
  /\ UNCHANGED <<process, responders, ext, done, answers, announced, streams>>

\* The payload does not parse, the query fails or does not give keys.
Refuse(rid) ==
  /\ Routed(rid, Internal)
  /\ Replies(rid, TRUE, FALSE, "done")
  /\ UNCHANGED <<process, responders, ext, done, answers, announced, streams>>

\* HandleDslRequest, handleDatabaseRequest: the result.
HandleRead(rid) ==
  /\ Routed(rid, {"onql", "database"})
  /\ Replies(rid, FALSE, TRUE, "done")
  /\ UNCHANGED <<process, responders, ext, done, answers, announced, streams>>

\* Announced even if it fails, with an empty key.
HandleInsert(rid) ==
  /\ Routed(rid, {"insert"})
  /\ \/ \E pk \in Pks :
          /\ \A r \in Rids : pk \notin done[r]
          /\ done' = [done EXCEPT ![rid] = {pk}]
          /\ task' = [task EXCEPT ![rid].pc = "answer", ![rid].named = {pk},
                                  ![rid].data = TRUE, ![rid].then = "announce"]
     \/ /\ Replies(rid, TRUE, FALSE, "announce")
        /\ UNCHANGED done
  /\ UNCHANGED <<process, responders, ext, answers, announced, streams>>

\* HandleUpdate, HandleDelete: the keys are the request's or its query's.
HandleChange(rid, pks) ==
  /\ Routed(rid, Changing)
  /\ task' = [task EXCEPT ![rid].pc = "changing", ![rid].named = pks,
                          ![rid].left = pks]
  /\ UNCHANGED <<process, responders, ext, done, answers, announced, streams>>

\* Mutant: the loop goes on after an error, and a later success clears it.
ChangeKeyGoesOn(rid, pk) ==
  /\ At(rid, "changing")
  /\ pk \in task[rid].left
  /\ \E ok \in BOOLEAN :
       /\ task' = [task EXCEPT ![rid].left = @ \ {pk}, ![rid].error = ~ok]
       /\ done' = [done EXCEPT ![rid] = IF ok THEN @ \cup {pk} ELSE @]
  /\ UNCHANGED <<process, responders, ext, answers, announced, streams>>

\* UpdatePartial or DeleteData of one key; an error ends the loop.
ChangeKey(rid, pk) ==
  /\ At(rid, "changing")
  /\ pk \in task[rid].left
  /\ \/ /\ task' = [task EXCEPT ![rid].left = @ \ {pk}]
        /\ done' = [done EXCEPT ![rid] = @ \cup {pk}]
     \/ /\ task' = [task EXCEPT ![rid].left = {}, ![rid].error = TRUE]
        /\ UNCHANGED done
  /\ UNCHANGED <<process, responders, ext, answers, announced, streams>>

\* HandleUpdate says "success" if one key was updated, HandleDelete if all.
Success(rid) ==
  IF task[rid].kind = "update"
    THEN done[rid] # {} \/ task[rid].named = {}
    ELSE ~task[rid].error

\* Mutant: a failed change is not announced.
ChangeEndsOnError(rid) ==
  /\ At(rid, "changing")
  /\ task[rid].left = {}
  /\ Replies(rid, task[rid].error, Success(rid),
             IF task[rid].error THEN "done" ELSE "announce")
  /\ UNCHANGED <<process, responders, ext, done, answers, announced, streams>>

ChangeEnds(rid) ==
  /\ At(rid, "changing")
  /\ task[rid].left = {}
  /\ Replies(rid, task[rid].error, Success(rid), "announce")
  /\ UNCHANGED <<process, responders, ext, done, answers, announced, streams>>

(***************************************************************************)
(* handleStreamRequest.  Its Onquery gives at most one key (bound).  After *)
(* a failing Subscribe it answers the error and then answers "success".    *)
(***************************************************************************)
Subscribed(rid, query, ctx, then, error) ==
  task' = [task EXCEPT ![rid].pc = "answer", ![rid].error = error,
                       ![rid].data = ~error, ![rid].then = then,
                       ![rid].sub = <<query, ctx>>]

HandleStreamRequest(rid, query, ctx) ==
  /\ Routed(rid, {"subscribe"})
  /\ \/ /\ \/ UNCHANGED streams
           \/ \E pk \in Pks : Subscribe(rid, query, ctx, pk)
        /\ Subscribed(rid, query, ctx, "done", FALSE)
     \/ /\ \E pk \in Pks : SubscribeFails(rid, query, ctx, pk)
        /\ Subscribed(rid, query, ctx, "again", TRUE)
  /\ UNCHANGED <<process, responders, ext, done, answers, announced>>

StreamRequestPanics(rid, query, ctx) ==
  /\ Routed(rid, {"subscribe"})
  /\ \E pk \in Pks : SubscribePanics(rid, query, ctx, pk)
  /\ Die("subscribe")

AnswerAgain(rid) ==
  /\ At(rid, "again")
  /\ Replies(rid, FALSE, TRUE, "done")
  /\ UNCHANGED <<process, responders, ext, done, answers, announced, streams>>

Written(rid, error, data) ==
  answers' = [answers EXCEPT ![rid] = Append(@, [error |-> error, data |-> data])]

\* handleServerResponse: the responder is looked up and called, ...
Respond(rid) ==
  /\ At(rid, "answer")
  /\ \/ /\ rid \in responders
        /\ Written(rid, task[rid].error, task[rid].data)
        /\ Goes(rid, "forget")
        /\ UNCHANGED <<process, responders, ext, done, announced, streams>>
     \/ rid \notin responders /\ Die("noResponder")

\* Mutant: the responder stays in the map.
ForgetNothing(rid) ==
  /\ At(rid, "forget")
  /\ Goes(rid, task[rid].then)
  /\ UNCHANGED <<process, responders, ext, done, answers, announced, streams>>

\* ... and then deleted.
Forget(rid) ==
  /\ At(rid, "forget")
  /\ responders' = responders \ {rid}
  /\ Goes(rid, task[rid].then)
  /\ UNCHANGED <<process, ext, done, answers, announced, streams>>

\* The keys of an update or a delete go out as Go prints a slice, not in JSON.
Announce(rid) ==
  /\ At(rid, "announce")
  /\ announced' = [announced EXCEPT ![rid] = task[rid].named]
  /\ Goes(rid, "done")
  /\ UNCHANGED <<process, responders, ext, done, answers, streams>>

-----------------------------------------------------------------------------
(* Extensions.                                                             *)

MoveExt(rid, place) ==
  /\ ext' = [ext EXCEPT ![rid] = place]
  /\ UNCHANGED <<process, responders, done, answers, announced, streams>>

HandleExtensionMessage(rid) ==
  /\ Routed(rid, Exts)
  /\ \E place \in {"published"} \cup (Faults \cap {"lose"}) :
        MoveExt(rid, IF place = "lose" THEN "lost" ELSE place)
  /\ Goes(rid, "done")

\* The process of the extension; it makes at most one database call (bound).
ExtTakes(rid) == ext[rid] = "published" /\ MoveExt(rid, "working")

Sends(rid, place) == MoveExt(rid, IF process = "up" THEN place ELSE "lost")

ExtAsks(rid) == ext[rid] = "working" /\ Sends(rid, "asking")

ExtAnswers(rid) == ext[rid] \in {"working", "told"} /\ Sends(rid, "answered")

ExtStep(rid) ==
  /\ ExtTakes(rid) \/ ExtAsks(rid) \/ ExtAnswers(rid)
  /\ UNCHANGED task

\* A message is lost on the bus, or the extension dies or never answers.
ExtLoses(rid) ==
  /\ "lose" \in Faults
  /\ ext[rid] \in {"published", "working", "asking", "told", "answered"}
  /\ MoveExt(rid, "lost")
  /\ UNCHANGED task

(***************************************************************************)
(* The subscription's goroutine takes one message at a time: a request to  *)
(* the database, which goes back by a publish, or a response.              *)
(***************************************************************************)
Subscription(rid) ==
  /\ process = "up"
  /\ \A r \in Rids : task[r].kind = task[rid].kind =>
                        ext[r] \notin {"responding", "forgetting"}

HandleDatabaseRequest(rid) ==
  /\ Subscription(rid)
  /\ ext[rid] = "asking"
  /\ MoveExt(rid, "told")

HandleMessageFromExtension(rid) ==
  /\ Subscription(rid)
  /\ ext[rid] = "answered"
  /\ MoveExt(rid, "responding")

RespondForExt(rid) ==
  /\ process = "up" /\ ext[rid] = "responding"
  /\ rid \in responders
  /\ Written(rid, FALSE, TRUE)
  /\ ext' = [ext EXCEPT ![rid] = "forgetting"]
  /\ UNCHANGED <<process, responders, done, announced, streams>>

NobodyAsked(rid) ==
  /\ process = "up" /\ ext[rid] = "responding"
  /\ rid \notin responders
  /\ Die("noResponder")

ForgetForExt(rid) ==
  /\ process = "up" /\ ext[rid] = "forgetting"
  /\ responders' = responders \ {rid}
  /\ ext' = [ext EXCEPT ![rid] = "done"]
  /\ UNCHANGED <<process, done, answers, announced, streams>>

-----------------------------------------------------------------------------
RequestStep(rid) ==
  \/ HandleServerRequest(rid)
  \/ Refuse(rid) \/ HandleRead(rid) \/ HandleInsert(rid)
  \/ \E pks \in SUBSET Pks : HandleChange(rid, pks)
  \/ \E pk \in Pks : ChangeKey(rid, pk)
  \/ ChangeEnds(rid)
  \/ \E s \in Subs : \/ HandleStreamRequest(rid, s[1], s[2])
                     \/ StreamRequestPanics(rid, s[1], s[2])
  \/ AnswerAgain(rid)
  \/ Respond(rid) \/ Forget(rid) \/ Announce(rid)
  \/ HandleExtensionMessage(rid)

SubscriptionStep(rid) ==
  \/ /\ \/ HandleDatabaseRequest(rid) \/ HandleMessageFromExtension(rid)
        \/ RespondForExt(rid) \/ ForgetForExt(rid)
     /\ UNCHANGED task
  \/ NobodyAsked(rid)

Next ==
  \/ \E rid \in Rids :
       \/ \E kind \in Kinds : Ask(rid, kind)
       \/ RequestStep(rid) \/ ExtStep(rid) \/ SubscriptionStep(rid)
       \/ ExtLoses(rid)
  \/ Kill \/ MapRace \/ Restart

Spec == Init /\ [][Next]_vars

(***************************************************************************)
(* Goroutines, the subscriptions' and the extensions run.  One formula for *)
(* the three: a request is with one of them at a time.  Nobody has to ask  *)
(* and nothing has to fail.                                                *)
(***************************************************************************)
Fairness ==
  \A rid \in Rids :
    WF_vars(RequestStep(rid) \/ SubscriptionStep(rid) \/ ExtStep(rid))

FairSpec == Spec /\ Fairness

-----------------------------------------------------------------------------
Gone(rid) == task[rid].pc = "gone"

(***************************************************************************)
(* An answer without an error means that every key the request names was   *)
(* changed, and an update answered without "success" changed none: a       *)
(* failure in the middle of the loop shows in the answer (cud.go).         *)
(***************************************************************************)
AnswerTellsTheTruth ==
  \A rid \in Rids : \A i \in DOMAIN answers[rid] :
    /\ ~answers[rid][i].error => done[rid] = task[rid].named
    /\ task[rid].kind = "update" /\ ~answers[rid][i].data => done[rid] = {}

(***************************************************************************)
(* A responder is in the map from before its request is routed until its   *)
(* answer is written: no answer kills the server for want of a responder,  *)
(* but for the second answer to a failed subscription, and the answer an   *)
(* extension gives to a request of a server that has died since.           *)
(***************************************************************************)
AnswersFindTheirResponder ==
  [][process = "up" /\ process' = "noResponder" =>
       \E rid \in Rids :
         \/ task[rid].kind = "subscribe" /\ Len(answers[rid]) = 1
         \/ ext[rid] = "responding" /\ Gone(rid)]_vars

(***************************************************************************)
(* The map does not fill up: once a request's goroutine and its extension  *)
(* are through, no responder is left behind.                               *)
(***************************************************************************)
RespondersReleased ==
  \A rid \in responders :
    \/ task[rid].pc \notin {"none", "done", "gone"}
    \/ task[rid].kind \in Exts /\ ext[rid] # "done"

\* What makes these inductive: what a request has at each place on its way.
ResponderKept(rid) ==
  LET t == task[rid] IN
  /\ t.pc \in {"none", "register", "route", "changing"} =>
       answers[rid] = <<>> /\ ext[rid] = "none"
  /\ t.pc \in {"route", "changing", "forget"} => rid \in responders
  /\ t.pc = "answer" =>
       \/ answers[rid] = <<>> /\ rid \in responders
       \/ t.kind = "subscribe" /\ Len(answers[rid]) = 1
  /\ t.pc = "answer" /\ t.then = "again" => answers[rid] = <<>>
  /\ t.then = "again" \/ t.pc = "again" => t.kind = "subscribe"
  /\ t.pc = "announce" => rid \notin responders
  /\ t.pc = "again" => Len(answers[rid]) = 1
  /\ t.pc = "forget" /\ t.then = "again" => Len(answers[rid]) = 1
  /\ ext[rid] # "none" => t.kind \in Exts /\ t.pc \in {"done", "gone"}
  /\ ext[rid] \notin {"none", "lost", "done"} /\ t.pc = "done" =>
       rid \in responders

AnswerPrepared(rid) ==
  LET t == task[rid] IN
  /\ t.pc \in {"none", "register", "route"} =>
       t.named = {} /\ done[rid] = {} /\ ~t.error /\ ~t.data
  /\ t.kind \notin Changing \cup {"insert"} => t.named = {} /\ done[rid] = {}
  /\ t.pc = "changing" =>
       /\ t.kind \in Changing
       /\ t.error => t.left = {}
       /\ ~t.error => done[rid] \cup t.left = t.named
  /\ t.pc = "answer" =>
       /\ ~t.error => done[rid] = t.named
       /\ t.kind = "update" /\ ~t.data => done[rid] = {}

RouterInv ==
  /\ RouterTypeOK
  /\ RespondersReleased
  /\ AnswerTellsTheTruth
  /\ \A rid \in Rids : ResponderKept(rid) /\ AnswerPrepared(rid)

(***************************************************************************)
(* Every request is answered, unless the server dies with it or a message  *)
(* to or from an extension is lost: there is no timeout and no retry.      *)
(***************************************************************************)
EveryRequestAnswered ==
  \A rid \in Rids :
    (task[rid].kind # "none")
      ~> (answers[rid] # <<>> \/ Gone(rid) \/ ext[rid] = "lost")

(***************************************************************************)
(* Every key an insert, update or delete has changed is published to       *)
(* "react.database", if its loop failed later too.                         *)
(***************************************************************************)
ChangesAnnounced ==
  \A rid \in Rids :
    (done[rid] # {}) ~> (done[rid] \subseteq announced[rid] \/ Gone(rid))
=============================================================================
