---------------------------- MODULE RouterProofs ----------------------------
(***************************************************************************)
(* Proofs about the router, for any number of requests, keys, extensions   *)
(* and faults.                                                             *)
(***************************************************************************)
EXTENDS Router, TLAPS

USE RouterConstants, StreamsConstants

-----------------------------------------------------------------------------
(* Types.                                                                  *)

\* The server starts with every variable of its type.
LEMMA InitTypeOK == Init => RouterTypeOK
<1>1. NoTask \in Tasks
  BY DEF NoTask, Tasks, Kinds
<1>2. NoStreams \in [Pks -> [Queries -> Entries \cup {NoEntry}]]
  BY DEF NoStreams
<1>3. QED
  BY <1>1, <1>2 DEF Init, RouterTypeOK, StreamsTypeOK, Places

\* A goroutine's record stays one when its fields are set.
LEMMA GoesType ==
  ASSUME task \in [Rids -> Tasks], NEW rid \in Rids,
         NEW pc \in {"route", "forget", "done", "announce", "again"}, Goes(rid, pc)
  PROVE  task' \in [Rids -> Tasks]
<1>1. [task[rid] EXCEPT !.pc = pc] \in Tasks
  BY DEF Tasks
<1>2. QED
  BY <1>1 DEF Goes

\* The same when its answer is set.
LEMMA RepliesType ==
  ASSUME task \in [Rids -> Tasks], NEW rid \in Rids,
         NEW error \in BOOLEAN, NEW data \in BOOLEAN,
         NEW then \in {"done", "announce", "again"}, Replies(rid, error, data, then)
  PROVE  task' \in [Rids -> Tasks]
<1>1. [task[rid] EXCEPT !.pc = "answer", !.error = error, !.data = data,
                        !.then = then] \in Tasks
  BY DEF Tasks
<1>2. QED
  BY <1>1 DEF Replies

\* The same when its keys are set.
LEMMA KeysType ==
  ASSUME NEW t \in Tasks, NEW pks \in SUBSET Pks
  PROVE  /\ [t EXCEPT !.pc = "answer", !.named = pks, !.data = TRUE,
                      !.then = "announce"] \in Tasks
         /\ [t EXCEPT !.pc = "changing", !.named = pks, !.left = pks] \in Tasks
         /\ [t EXCEPT !.left = @ \ pks] \in Tasks
         /\ [t EXCEPT !.left = {}, !.error = TRUE] \in Tasks
BY DEF Tasks

\* The same when a subscription's answer is set.
LEMMA SubscribedType ==
  ASSUME task \in [Rids -> Tasks], NEW rid \in Rids, NEW query \in Queries,
         NEW ctx \in Ctxs, NEW then \in {"done", "again"}, NEW error \in BOOLEAN,
         Subscribed(rid, query, ctx, then, error)
  PROVE  task' \in [Rids -> Tasks]
<1>1. <<query, ctx>> \in Subs
  BY DEF Subs
<1>2. [task[rid] EXCEPT !.pc = "answer", !.error = error, !.data = ~error,
                        !.then = then, !.sub = <<query, ctx>>] \in Tasks
  <2> DEFINE t == task[rid]
             s == <<query, ctx>>
  <2>1. t \in Tasks /\ s \in Subs /\ (~error) \in BOOLEAN
    BY <1>1
  <2> HIDE DEF t, s
  <2>2. [t EXCEPT !.pc = "answer", !.error = error, !.data = ~error,
                  !.then = then, !.sub = s] \in Tasks
    BY <2>1 DEF Tasks
  <2>3. QED
    BY <2>2 DEF t, s
<1>3. QED
  BY <1>2 DEF Subscribed

\* The map of subscriptions keeps its type, whatever Subscribe does to it.
LEMMA JoinedType ==
  ASSUME NEW entries \in [Queries -> Entries \cup {NoEntry}],
         NEW rid \in Rids, NEW query \in Queries, NEW ctx \in Ctxs,
         NEW joined \in Joined(entries, rid, query, ctx)
  PROVE  joined \in [Queries -> Entries \cup {NoEntry}]
<1>1. CASE Matching(entries, ctx) = {}
  <2>1. [ctx |-> ctx, conns |-> {rid}, eval |-> NoCtx] \in Entries
    BY DEF Entries
  <2>2. QED
    BY <1>1, <2>1 DEF Joined
<1>2. CASE Matching(entries, ctx) # {}
  <2>1. PICK q \in Matching(entries, ctx) :
          joined = [entries EXCEPT ![q].conns = @ \cup {rid}]
    BY <1>2 DEF Joined
  <2>2. entries[q] \in Entries /\ q \in Queries
    BY DEF Matching
  <2>3. [entries[q] EXCEPT !.conns = @ \cup {rid}] \in Entries
    BY <2>2 DEF Entries
  <2>4. QED
    BY <2>1, <2>2, <2>3
<1>3. QED
  BY <1>1, <1>2

\* So does a whole Subscribe.
LEMMA SubscribeType ==
  ASSUME StreamsTypeOK, NEW rid \in Rids, NEW query \in Queries,
         NEW ctx \in Ctxs, NEW pk \in Pks,
         \/ Subscribe(rid, query, ctx, pk)
         \/ SubscribeFails(rid, query, ctx, pk)
  PROVE  StreamsTypeOK'
<1>0. streams[pk] \in [Queries -> Entries \cup {NoEntry}]
  BY DEF StreamsTypeOK
<1>1. CASE Subscribe(rid, query, ctx, pk)
  <2>1. PICK joined \in Joined(streams[pk], rid, query, ctx) :
          /\ joined[query] # NoEntry
          /\ streams' = [streams EXCEPT ![pk] = [joined EXCEPT ![query].eval = ctx]]
    BY <1>1 DEF Subscribe
  <2>2. joined \in [Queries -> Entries \cup {NoEntry}]
    BY <1>0, JoinedType
  <2>3. [joined[query] EXCEPT !.eval = ctx] \in Entries
    BY <2>1, <2>2 DEF Entries
  <2>4. QED
    BY <2>1, <2>2, <2>3 DEF StreamsTypeOK
<1>2. CASE SubscribeFails(rid, query, ctx, pk)
  BY <1>0, <1>2, JoinedType DEF SubscribeFails, StreamsTypeOK
<1>3. QED
  BY <1>1, <1>2

\* So does a death.
LEMMA DieType ==
  ASSUME RouterTypeOK,
         NEW cause \in {"killed", "raced", "subscribe", "noResponder"},
         Die(cause)
  PROVE  RouterTypeOK'
<1>1. NoTask \in Tasks
  BY DEF NoTask, Tasks, Kinds
<1>2. \A r \in Rids : [NoTask EXCEPT !.kind = task[r].kind, !.pc = "gone",
                                     !.named = task[r].named] \in Tasks
  BY <1>1 DEF RouterTypeOK, Tasks
<1>3. task' \in [Rids -> Tasks]
  BY <1>1, <1>2 DEF Die
<1>4. ext' \in [Rids -> Places]
  BY DEF Die, RouterTypeOK, Places
<1>5. NoStreams \in [Pks -> [Queries -> Entries \cup {NoEntry}]]
  BY DEF NoStreams
<1>6. QED
  BY <1>3, <1>4, <1>5 DEF Die, RouterTypeOK, StreamsTypeOK

\* Every step keeps the types.
LEMMA TypeStep == RouterTypeOK /\ [Next]_vars => RouterTypeOK'
<1> SUFFICES ASSUME RouterTypeOK, [Next]_vars PROVE RouterTypeOK'
  OBVIOUS
<1> USE DEF RouterTypeOK
<1>0. \A r \in Rids : task[r] \in Tasks
  OBVIOUS
<1>1. ASSUME NEW rid \in Rids, NEW kind \in Kinds, Ask(rid, kind) PROVE RouterTypeOK'
  <2>1. [NoTask EXCEPT !.kind = kind, !.pc = "register"] \in Tasks
    BY DEF NoTask, Tasks, Kinds
  <2>2. QED
    BY <1>1, <2>1 DEF Ask, StreamsTypeOK
<1>2. ASSUME NEW rid \in Rids, RequestStep(rid) PROVE RouterTypeOK'
  <2>1. CASE HandleServerRequest(rid)
    <3>1. task' \in [Rids -> Tasks]
      BY <2>1, GoesType DEF HandleServerRequest
    <3>2. QED
      BY <2>1, <3>1 DEF HandleServerRequest, StreamsTypeOK
  <2>2. CASE Refuse(rid) \/ HandleRead(rid) \/ AnswerAgain(rid)
    <3>1. task' \in [Rids -> Tasks]
      BY <2>2, RepliesType DEF Refuse, HandleRead, AnswerAgain
    <3>2. QED
      BY <2>2, <3>1 DEF Refuse, HandleRead, AnswerAgain, StreamsTypeOK
  <2>3. CASE HandleInsert(rid)
    <3>1. CASE Replies(rid, TRUE, FALSE, "announce") /\ UNCHANGED done
      <4>1. task' \in [Rids -> Tasks]
        BY <3>1, RepliesType
      <4>2. QED
        BY <2>3, <3>1, <4>1 DEF HandleInsert, StreamsTypeOK
    <3>2. ASSUME NEW pk \in Pks,
                 done' = [done EXCEPT ![rid] = {pk}],
                 task' = [task EXCEPT ![rid].pc = "answer", ![rid].named = {pk},
                                      ![rid].data = TRUE, ![rid].then = "announce"]
          PROVE  RouterTypeOK'
      <4>1. [task[rid] EXCEPT !.pc = "answer", !.named = {pk}, !.data = TRUE,
                              !.then = "announce"] \in Tasks
        BY <1>0, {pk} \in SUBSET Pks, KeysType
      <4>2. task' \in [Rids -> Tasks]
        BY <3>2, <4>1
      <4>3. QED
        BY <2>3, <3>2, <4>2 DEF HandleInsert, StreamsTypeOK
    <3>3. QED
      BY <2>3, <3>1, <3>2 DEF HandleInsert
  <2>4. ASSUME NEW pks \in SUBSET Pks, HandleChange(rid, pks) PROVE RouterTypeOK'
    <3>1. [task[rid] EXCEPT !.pc = "changing", !.named = pks, !.left = pks] \in Tasks
      BY <1>0, KeysType
    <3>2. task' \in [Rids -> Tasks]
      BY <2>4, <3>1 DEF HandleChange
    <3>3. QED
      BY <2>4, <3>2 DEF HandleChange, StreamsTypeOK
  <2>5. ASSUME NEW pk \in Pks, ChangeKey(rid, pk) PROVE RouterTypeOK'
    <3>1. /\ [task[rid] EXCEPT !.left = @ \ {pk}] \in Tasks
          /\ [task[rid] EXCEPT !.left = {}, !.error = TRUE] \in Tasks
      BY <1>0, {pk} \in SUBSET Pks, KeysType
    <3>2. \/ task' = [task EXCEPT ![rid].left = @ \ {pk}]
          \/ task' = [task EXCEPT ![rid].left = {}, ![rid].error = TRUE]
      BY <2>5 DEF ChangeKey
    <3>3. task' \in [Rids -> Tasks]
      BY <3>1, <3>2
    <3>4. done' \in [Rids -> SUBSET Pks]
      <4>1. done' = done \/ done' = [done EXCEPT ![rid] = @ \cup {pk}]
        BY <2>5 DEF ChangeKey
      <4>2. done[rid] \cup {pk} \in SUBSET Pks
        OBVIOUS
      <4>3. QED
        BY <4>1, <4>2
    <3>5. QED
      BY <2>5, <3>3, <3>4 DEF ChangeKey, StreamsTypeOK
  <2>6. CASE ChangeEnds(rid)
    <3>1. task[rid].error \in BOOLEAN /\ Success(rid) \in BOOLEAN
      BY <1>0 DEF Tasks, Success
    <3>2. task' \in [Rids -> Tasks]
      BY <2>6, <3>1, RepliesType DEF ChangeEnds
    <3>3. QED
      BY <2>6, <3>2 DEF ChangeEnds, StreamsTypeOK
  <2>7. ASSUME NEW s \in Subs, HandleStreamRequest(rid, s[1], s[2])
        PROVE  RouterTypeOK'
    <3>1. s[1] \in Queries /\ s[2] \in Ctxs /\ <<s[1], s[2]>> \in Subs
      BY DEF Subs
    <3>2. StreamsTypeOK'
      BY <2>7, <3>1, SubscribeType DEF HandleStreamRequest, StreamsTypeOK
    <3>3. PICK error \in BOOLEAN, then \in {"done", "again"} :
            Subscribed(rid, s[1], s[2], then, error)
      BY <2>7 DEF HandleStreamRequest
    <3>4. task' \in [Rids -> Tasks]
      BY <3>1, <3>3, SubscribedType
    <3>5. QED
      BY <2>7, <3>2, <3>4 DEF HandleStreamRequest
  <2>8. ASSUME NEW s \in Subs, StreamRequestPanics(rid, s[1], s[2])
        PROVE  RouterTypeOK'
    BY <2>8, DieType DEF StreamRequestPanics
  <2>9. CASE Respond(rid)
    <3>1. CASE Die("noResponder")
      BY <3>1, DieType
    <3>2. CASE /\ Written(rid, task[rid].error, task[rid].data)
               /\ Goes(rid, "forget")
               /\ UNCHANGED <<process, responders, ext, done, announced, streams>>
      <4>1. [error |-> task[rid].error, data |-> task[rid].data] \in Answers
        BY <1>0 DEF Tasks, Answers
      <4>2. answers' \in [Rids -> Seq(Answers)]
        BY <3>2, <4>1 DEF Written
      <4>3. task' \in [Rids -> Tasks]
        BY <3>2, GoesType
      <4>4. QED
        BY <3>2, <4>2, <4>3 DEF StreamsTypeOK
    <3>3. QED
      BY <2>9, <3>1, <3>2 DEF Respond
  <2>10. CASE Forget(rid)
    <3>1. task[rid].then \in {"done", "announce", "again"}
      BY <1>0 DEF Tasks
    <3>2. task' \in [Rids -> Tasks]
      BY <2>10, <3>1, GoesType DEF Forget
    <3>3. QED
      BY <2>10, <3>2 DEF Forget, StreamsTypeOK
  <2>11. CASE Announce(rid)
    <3>1. task[rid].named \in SUBSET Pks
      BY <1>0 DEF Tasks
    <3>2. task' \in [Rids -> Tasks]
      BY <2>11, GoesType DEF Announce
    <3>3. QED
      BY <2>11, <3>1, <3>2 DEF Announce, StreamsTypeOK
  <2>12. CASE HandleExtensionMessage(rid)
    <3>1. task' \in [Rids -> Tasks]
      BY <2>12, GoesType DEF HandleExtensionMessage
    <3>2. QED
      BY <2>12, <3>1 DEF HandleExtensionMessage, MoveExt, StreamsTypeOK, Places
  <2>13. QED
    BY <1>2, <2>1, <2>2, <2>3, <2>4, <2>5, <2>6, <2>7, <2>8, <2>9, <2>10, <2>11,
       <2>12 DEF RequestStep
<1>3. ASSUME NEW rid \in Rids, ExtStep(rid) \/ ExtLoses(rid) PROVE RouterTypeOK'
  BY <1>3 DEF ExtStep, ExtLoses, ExtTakes, ExtAsks, ExtAnswers, Sends, MoveExt, StreamsTypeOK, Places
<1>4. ASSUME NEW rid \in Rids, SubscriptionStep(rid) PROVE RouterTypeOK'
  <2>1. CASE NobodyAsked(rid)
    BY <2>1, DieType DEF NobodyAsked
  <2>2. CASE RespondForExt(rid) /\ UNCHANGED task
    <3>1. answers' \in [Rids -> Seq(Answers)]
      BY <2>2 DEF RespondForExt, Written, Answers
    <3>2. QED
      BY <2>2, <3>1 DEF RespondForExt, StreamsTypeOK, Places
  <2>3. CASE (HandleDatabaseRequest(rid) \/ HandleMessageFromExtension(rid) \/ ForgetForExt(rid)) /\ UNCHANGED task
    BY <2>3 DEF HandleDatabaseRequest, HandleMessageFromExtension, ForgetForExt, MoveExt, StreamsTypeOK, Places
  <2>4. QED
    BY <1>4, <2>1, <2>2, <2>3 DEF SubscriptionStep
<1>5. CASE Kill \/ MapRace
  BY <1>5, DieType DEF Kill, MapRace
<1>6. CASE Restart
  BY <1>6 DEF Restart, StreamsTypeOK
<1>7. CASE UNCHANGED vars
  BY <1>7 DEF vars, StreamsTypeOK
<1>8. QED
  BY <1>1, <1>2, <1>3, <1>4, <1>5, <1>6, <1>7 DEF Next

-----------------------------------------------------------------------------
(* The invariant, request by request: a step of one request leaves alone   *)
(* what the invariant says of the others.                                  *)

Released(rid) ==
  rid \in responders =>
    \/ task[rid].pc \notin {"none", "done", "gone"}
    \/ task[rid].kind \in Exts /\ ext[rid] # "done"

Truthful(rid) ==
  \A i \in DOMAIN answers[rid] :
    /\ ~answers[rid][i].error => done[rid] = task[rid].named
    /\ task[rid].kind = "update" /\ ~answers[rid][i].data => done[rid] = {}

RequestInv(rid) ==
  ResponderKept(rid) /\ AnswerPrepared(rid) /\ Released(rid) /\ Truthful(rid)

\* The step is none of this request's.
Apart(rid) ==
  /\ task'[rid] = task[rid]
  /\ ext'[rid] = ext[rid]
  /\ done'[rid] = done[rid]
  /\ answers'[rid] = answers[rid]
  /\ rid \in responders' <=> rid \in responders

\* The invariant is the types and what holds of each request.
LEMMA ByRequest ==
  ASSUME RouterTypeOK
  PROVE  RouterInv <=> \A rid \in Rids : RequestInv(rid)
BY DEF RouterTypeOK, RouterInv, RequestInv, Released, Truthful,
       RespondersReleased, AnswerTellsTheTruth

\* The same of the next state.
LEMMA ByRequestNext ==
  ASSUME RouterTypeOK', \A rid \in Rids : RequestInv(rid)'
  PROVE  RouterInv'
BY DEF RouterTypeOK, RouterInv, RequestInv, Released, Truthful,
       RespondersReleased, AnswerTellsTheTruth

\* A request keeps the invariant in a step that is none of its own.
LEMMA ApartKeeps ==
  ASSUME NEW rid \in Rids, RequestInv(rid), Apart(rid)
  PROVE  RequestInv(rid)'
BY DEF Apart, RequestInv, Released, Truthful, ResponderKept, AnswerPrepared

\* At the start no request has been made.
LEMMA InitInv == Init => RouterInv
<1> SUFFICES ASSUME Init PROVE RouterInv
  OBVIOUS
<1>1. RouterTypeOK
  BY InitTypeOK
<1>2. ASSUME NEW rid \in Rids PROVE RequestInv(rid)
  BY DEF Init, NoTask, RequestInv, Released, Truthful, ResponderKept,
         AnswerPrepared, Changing
<1>3. QED
  BY <1>1, <1>2, ByRequest

\* The death of the server keeps the invariant of every request.
LEMMA DieKeeps ==
  ASSUME RouterInv, NEW cause, Die(cause), NEW rid \in Rids
  PROVE  RequestInv(rid)'
<1>0. /\ RequestInv(rid)
      /\ task[rid] \in Tasks
  BY ByRequest DEF RouterInv, RouterTypeOK
<1>1. /\ responders' = {}
      /\ done'[rid] = done[rid]
      /\ answers'[rid] = answers[rid]
  BY DEF Die
<1>5. ext'[rid] = ext[rid] \/ (ext'[rid] = "lost" /\ ext[rid] # "none")
  <2>1. ext'[rid] = IF ext[rid] \in {"asking", "answered", "responding", "forgetting"}
                      THEN "lost" ELSE ext[rid]
    BY DEF Die
  <2>2. QED
    BY <2>1
<1>2. CASE task[rid].pc = "none"
  <2>1. task'[rid] = NoTask
    BY <1>2 DEF Die
  <2>2. QED
    BY <1>0, <1>1, <1>2, <1>5, <2>1
    DEF NoTask, RequestInv, Released, Truthful, ResponderKept, AnswerPrepared,
        Changing
<1>3. CASE task[rid].pc # "none"
  <2>1. /\ task'[rid].pc = "gone" /\ task'[rid].kind = task[rid].kind
        /\ task'[rid].named = task[rid].named /\ task'[rid].then = "done"
    BY <1>3 DEF Die, NoTask
  <2>2. QED
    BY <1>0, <1>1, <1>3, <1>5, <2>1
    DEF RequestInv, Released, Truthful, ResponderKept, AnswerPrepared, Changing
<1>4. QED
  BY <1>2, <1>3

\* A step of one request is none of the others'.
LEMMA OthersApart ==
  ASSUME RouterTypeOK, NEW rid \in Rids, NEW r \in Rids, r # rid,
         \/ \E kind \in Kinds : Ask(rid, kind)
         \/ RequestStep(rid) \/ ExtStep(rid) \/ SubscriptionStep(rid)
         \/ ExtLoses(rid)
  PROVE  Apart(r) \/ \E cause : Die(cause)
<1> USE DEF Apart, RouterTypeOK
<1>1. ASSUME NEW kind \in Kinds, Ask(rid, kind) PROVE Apart(r)
  BY <1>1 DEF Ask
<1>2. ASSUME HandleServerRequest(rid) \/ Forget(rid) \/ Announce(rid)
      PROVE  Apart(r)
  BY <1>2 DEF HandleServerRequest, Forget, Announce, Goes
<1>3. ASSUME Refuse(rid) \/ HandleRead(rid) \/ ChangeEnds(rid) \/ AnswerAgain(rid)
      PROVE  Apart(r)
  BY <1>3 DEF Refuse, HandleRead, ChangeEnds, AnswerAgain, Replies
<1>4. ASSUME HandleInsert(rid) PROVE Apart(r)
  BY <1>4 DEF HandleInsert, Replies
<1>5. ASSUME NEW pks \in SUBSET Pks, HandleChange(rid, pks) PROVE Apart(r)
  BY <1>5 DEF HandleChange
<1>6. ASSUME NEW pk \in Pks, ChangeKey(rid, pk) PROVE Apart(r)
  BY <1>6 DEF ChangeKey
<1>7. ASSUME NEW s \in Subs, HandleStreamRequest(rid, s[1], s[2]) PROVE Apart(r)
  BY <1>7 DEF HandleStreamRequest, Subscribed
<1>8. ASSUME NEW s \in Subs, StreamRequestPanics(rid, s[1], s[2])
      PROVE  \E cause : Die(cause)
  BY <1>8 DEF StreamRequestPanics
<1>9. ASSUME Respond(rid) PROVE Apart(r) \/ \E cause : Die(cause)
  BY <1>9 DEF Respond, Written, Goes
<1>10. ASSUME HandleExtensionMessage(rid) \/ ExtStep(rid) \/ ExtLoses(rid)
       PROVE  Apart(r)
  BY <1>10 DEF HandleExtensionMessage, ExtStep, ExtLoses, ExtTakes, ExtAsks,
               ExtAnswers, Sends, MoveExt, Goes
<1>11. ASSUME SubscriptionStep(rid) PROVE Apart(r) \/ \E cause : Die(cause)
  BY <1>11 DEF SubscriptionStep, HandleDatabaseRequest, RespondForExt, Written,
               HandleMessageFromExtension, ForgetForExt, NobodyAsked, MoveExt
<1>12. QED
  BY <1>1, <1>2, <1>3, <1>4, <1>5, <1>6, <1>7, <1>8, <1>9, <1>10, <1>11
  DEF RequestStep

\* What a goroutine does before it has an answer keeps its invariant.
LEMMA AskKeeps ==
  ASSUME RouterTypeOK, NEW rid \in Rids, RequestInv(rid),
         \/ \E kind \in Kinds : Ask(rid, kind)
         \/ HandleServerRequest(rid) \/ HandleExtensionMessage(rid)
         \/ \E pks \in SUBSET Pks : HandleChange(rid, pks)
         \/ \E pk \in Pks : ChangeKey(rid, pk)
  PROVE  RequestInv(rid)'
<1> USE DEF RequestInv, Released, Truthful, ResponderKept, AnswerPrepared
<1>0. task[rid] \in Tasks
  BY DEF RouterTypeOK
<1>1. ASSUME NEW kind \in Kinds, Ask(rid, kind) PROVE RequestInv(rid)'
  <2>1. /\ task'[rid] = [NoTask EXCEPT !.kind = kind, !.pc = "register"]
        /\ UNCHANGED <<responders, ext, done, answers>>
        /\ task[rid].pc = "none"
    BY <1>1 DEF Ask, At, RouterTypeOK
  <2>2. QED
    BY <2>1 DEF NoTask, Changing
<1>2. ASSUME HandleServerRequest(rid) PROVE RequestInv(rid)'
  <2>1. /\ task'[rid] = [task[rid] EXCEPT !.pc = "route"]
        /\ rid \in responders'
        /\ UNCHANGED <<ext, done, answers>>
        /\ task[rid].pc = "register"
    BY <1>2 DEF HandleServerRequest, Goes, At, RouterTypeOK
  <2>2. QED
    BY <1>0, <2>1 DEF Tasks, Changing
<1>3. ASSUME HandleExtensionMessage(rid) PROVE RequestInv(rid)'
  <2>1. /\ task'[rid] = [task[rid] EXCEPT !.pc = "done"]
        /\ ext'[rid] \in {"published", "lost"}
        /\ UNCHANGED <<responders, done, answers>>
        /\ task[rid].pc = "route" /\ task[rid].kind \in Exts
    BY <1>3 DEF HandleExtensionMessage, MoveExt, Goes, Routed, At, RouterTypeOK
  <2>2. QED
    BY <1>0, <2>1, RouterConstants DEF Tasks, Changing, Internal
<1>4. ASSUME NEW pks \in SUBSET Pks, HandleChange(rid, pks) PROVE RequestInv(rid)'
  <2>1. /\ task'[rid] = [task[rid] EXCEPT !.pc = "changing", !.named = pks,
                                          !.left = pks]
        /\ UNCHANGED <<responders, ext, done, answers>>
        /\ task[rid].pc = "route" /\ task[rid].kind \in Changing
    BY <1>4 DEF HandleChange, Routed, At, RouterTypeOK
  <2>2. QED
    BY <1>0, <2>1 DEF Tasks, Changing
<1>5. ASSUME NEW pk \in Pks, ChangeKey(rid, pk) PROVE RequestInv(rid)'
  <2>1. /\ UNCHANGED <<responders, ext, answers>>
        /\ task[rid].pc = "changing" /\ pk \in task[rid].left
    BY <1>5 DEF ChangeKey, At
  <2>2. ~task[rid].error /\ done[rid] \cup task[rid].left = task[rid].named
    BY <2>1
  <2>3. CASE /\ task' = [task EXCEPT ![rid].left = @ \ {pk}]
             /\ done' = [done EXCEPT ![rid] = @ \cup {pk}]
    <3>1. /\ task'[rid] = [task[rid] EXCEPT !.left = @ \ {pk}]
          /\ done'[rid] = done[rid] \cup {pk}
      BY <2>3 DEF RouterTypeOK
    <3>2. (done[rid] \cup {pk}) \cup (task[rid].left \ {pk}) = task[rid].named
      BY <2>1, <2>2
    <3>3. /\ task'[rid].pc = "changing" /\ task'[rid].kind = task[rid].kind
          /\ task'[rid].named = task[rid].named /\ task'[rid].then = task[rid].then
          /\ task'[rid].error = task[rid].error
          /\ task'[rid].left = task[rid].left \ {pk}
      BY <1>0, <2>1, <3>1 DEF Tasks
    <3>4. done'[rid] \cup task'[rid].left = task'[rid].named
      BY <3>1, <3>2, <3>3
    <3>5. ResponderKept(rid)' /\ Released(rid)' /\ Truthful(rid)'
      BY <2>1, <3>3
    <3>6. AnswerPrepared(rid)'
      BY <2>1, <2>2, <3>3, <3>4 DEF Changing
    <3>7. QED
      BY <3>5, <3>6
  <2>4. CASE /\ task' = [task EXCEPT ![rid].left = {}, ![rid].error = TRUE]
             /\ UNCHANGED done
    <3>1. task'[rid] = [task[rid] EXCEPT !.left = {}, !.error = TRUE]
      BY <2>4 DEF RouterTypeOK
    <3>2. /\ task'[rid].pc = "changing" /\ task'[rid].kind = task[rid].kind
          /\ task'[rid].then = task[rid].then /\ task'[rid].error
          /\ task'[rid].left = {}
      BY <1>0, <2>1, <3>1 DEF Tasks
    <3>3. ResponderKept(rid)' /\ Released(rid)' /\ Truthful(rid)'
      BY <2>1, <3>2
    <3>4. AnswerPrepared(rid)'
      BY <2>1, <3>2 DEF Changing
    <3>5. QED
      BY <3>3, <3>4
  <2>5. QED
    BY <1>5, <2>3, <2>4 DEF ChangeKey
<1>6. QED
  BY <1>1, <1>2, <1>3, <1>4, <1>5

\* A request that is given an answer fit to be written keeps its invariant.
LEMMA ReadyKeeps ==
  ASSUME NEW rid \in Rids, RequestInv(rid), UNCHANGED <<responders, ext, answers>>,
         task[rid].pc \in {"route", "changing", "again"},
         task'[rid].pc = "answer", task'[rid].kind = task[rid].kind,
         task'[rid].then = "again" =>
           task[rid].kind = "subscribe" /\ task[rid].pc = "route",
         task[rid].pc = "again" \/ task[rid].kind \notin Changing \cup {"insert"} =>
           task'[rid].named = task[rid].named /\ done'[rid] = done[rid],
         ~task'[rid].error => done'[rid] = task'[rid].named,
         task[rid].kind = "update" /\ ~task'[rid].data => done'[rid] = {}
  PROVE  RequestInv(rid)'
<1> USE DEF RequestInv, Released, Truthful, ResponderKept, AnswerPrepared
<1>1. ResponderKept(rid)' /\ Released(rid)'
  OBVIOUS
<1>2. AnswerPrepared(rid)'
  BY DEF Changing
<1>3. CASE task[rid].pc = "again"
  <2>1. task[rid].kind = "subscribe"
    BY <1>3
  <2>2. done'[rid] = {} /\ task'[rid].named = {}
    BY <1>3, <2>1 DEF Changing
  <2>3. Truthful(rid)'
    BY <2>1, <2>2
  <2>4. QED
    BY <1>1, <1>2, <2>3
<1>4. CASE task[rid].pc # "again"
  <2>1. answers'[rid] = <<>>
    BY <1>4
  <2>2. Truthful(rid)'
    BY <2>1
  <2>3. QED
    BY <1>1, <1>2, <2>2
<1>5. QED
  BY <1>3, <1>4

\* So does what gives it the answer.
LEMMA PrepareKeeps ==
  ASSUME RouterTypeOK, NEW rid \in Rids, RequestInv(rid),
         \/ Refuse(rid) \/ HandleRead(rid) \/ HandleInsert(rid) \/ ChangeEnds(rid)
         \/ AnswerAgain(rid)
         \/ \E s \in Subs : HandleStreamRequest(rid, s[1], s[2])
  PROVE  RequestInv(rid)'
<1>0. task[rid] \in Tasks
  BY DEF RouterTypeOK
<1>1. AnswerPrepared(rid) /\ ResponderKept(rid)
  BY DEF RequestInv
<1>a. ASSUME NEW error \in BOOLEAN, NEW data \in BOOLEAN, NEW then,
             Replies(rid, error, data, then)
      PROVE  /\ task'[rid].pc = "answer" /\ task'[rid].error = error
             /\ task'[rid].data = data /\ task'[rid].then = then
             /\ task'[rid].kind = task[rid].kind
             /\ task'[rid].named = task[rid].named
  <2>1. task'[rid] = [task[rid] EXCEPT !.pc = "answer", !.error = error,
                                       !.data = data, !.then = then]
    BY <1>a DEF Replies, RouterTypeOK
  <2>2. QED
    BY <1>0, <2>1 DEF Tasks
<1>2. CASE Refuse(rid)
  <2>1. /\ Replies(rid, TRUE, FALSE, "done")
        /\ UNCHANGED <<responders, ext, done, answers>>
        /\ task[rid].pc = "route"
    BY <1>2 DEF Refuse, Routed, At
  <2>2. done[rid] = {}
    BY <1>1, <2>1 DEF AnswerPrepared
  <2>3. /\ task'[rid].pc = "answer" /\ task'[rid].error = TRUE
        /\ task'[rid].data = FALSE /\ task'[rid].then = "done"
        /\ task'[rid].kind = task[rid].kind
        /\ task'[rid].named = task[rid].named
    BY <1>a, <2>1
  <2>4. QED
    BY <2>1, <2>2, <2>3, ReadyKeeps
<1>3. CASE HandleRead(rid)
  <2>1. /\ Replies(rid, FALSE, TRUE, "done")
        /\ UNCHANGED <<responders, ext, done, answers>>
        /\ task[rid].pc = "route"
    BY <1>3 DEF HandleRead, Routed, At
  <2>2. done[rid] = {} /\ task[rid].named = {}
    BY <1>1, <2>1 DEF AnswerPrepared
  <2>3. /\ task'[rid].pc = "answer" /\ task'[rid].error = FALSE
        /\ task'[rid].data = TRUE /\ task'[rid].then = "done"
        /\ task'[rid].kind = task[rid].kind
        /\ task'[rid].named = task[rid].named
    BY <1>a, <2>1
  <2>4. QED
    BY <2>1, <2>2, <2>3, ReadyKeeps
<1>4. CASE AnswerAgain(rid)
  <2>1. /\ Replies(rid, FALSE, TRUE, "done")
        /\ UNCHANGED <<responders, ext, done, answers>>
        /\ task[rid].pc = "again"
    BY <1>4 DEF AnswerAgain, At
  <2>2. done[rid] = {} /\ task[rid].named = {}
    BY <1>1, <2>1 DEF AnswerPrepared, ResponderKept, Changing
  <2>3. /\ task'[rid].pc = "answer" /\ task'[rid].error = FALSE
        /\ task'[rid].data = TRUE /\ task'[rid].then = "done"
        /\ task'[rid].kind = task[rid].kind
        /\ task'[rid].named = task[rid].named
    BY <1>a, <2>1
  <2>4. QED
    BY <2>1, <2>2, <2>3, ReadyKeeps
<1>5. CASE HandleInsert(rid)
  <2>1. /\ UNCHANGED <<responders, ext, answers>>
        /\ task[rid].pc = "route" /\ task[rid].kind = "insert"
    BY <1>5 DEF HandleInsert, Routed, At
  <2>2. CASE Replies(rid, TRUE, FALSE, "announce") /\ UNCHANGED done
    <3>1. /\ task'[rid].pc = "answer" /\ task'[rid].error = TRUE
          /\ task'[rid].then = "announce" /\ task'[rid].kind = task[rid].kind
      BY <1>a, <2>2
    <3>2. QED
      BY <2>1, <2>2, <3>1, ReadyKeeps DEF Changing
  <2>3. ASSUME NEW pk \in Pks, done' = [done EXCEPT ![rid] = {pk}],
               task' = [task EXCEPT ![rid].pc = "answer", ![rid].named = {pk},
                                    ![rid].data = TRUE, ![rid].then = "announce"]
        PROVE  RequestInv(rid)'
    <3>1. /\ task'[rid].pc = "answer" /\ task'[rid].then = "announce"
          /\ task'[rid].kind = task[rid].kind /\ task'[rid].named = {pk}
      BY <1>0, <2>3 DEF RouterTypeOK, Tasks
    <3>2. done'[rid] = {pk}
      BY <2>3 DEF RouterTypeOK
    <3>3. QED
      BY <2>1, <3>1, <3>2, ReadyKeeps DEF Changing
  <2>4. QED
    BY <1>5, <2>2, <2>3 DEF HandleInsert
<1>6. CASE ChangeEnds(rid)
  <2>1. /\ Replies(rid, task[rid].error, Success(rid), "announce")
        /\ UNCHANGED <<responders, ext, done, answers>>
        /\ task[rid].pc = "changing" /\ task[rid].left = {}
    BY <1>6 DEF ChangeEnds, At
  <2>2. /\ task[rid].error \in BOOLEAN
        /\ Success(rid) \in BOOLEAN
    BY <1>0 DEF Tasks, Success
  <2>3. /\ task[rid].kind \in Changing
        /\ ~task[rid].error => done[rid] = task[rid].named
    BY <1>1, <2>1 DEF AnswerPrepared
  <2>4. task[rid].kind = "update" /\ ~Success(rid) => done[rid] = {}
    BY DEF Success
  <2>5. /\ task'[rid].pc = "answer" /\ task'[rid].error = task[rid].error
        /\ task'[rid].data = Success(rid) /\ task'[rid].then = "announce"
        /\ task'[rid].kind = task[rid].kind
        /\ task'[rid].named = task[rid].named
    BY <1>a, <2>1, <2>2
  <2>6. QED
    BY <2>1, <2>2, <2>3, <2>4, <2>5, ReadyKeeps
<1>7. ASSUME NEW s \in Subs, HandleStreamRequest(rid, s[1], s[2])
      PROVE  RequestInv(rid)'
  <2>1. /\ UNCHANGED <<responders, ext, done, answers>>
        /\ task[rid].pc = "route" /\ task[rid].kind = "subscribe"
    BY <1>7 DEF HandleStreamRequest, Routed, At
  <2>2. PICK error \in BOOLEAN, then \in {"done", "again"} :
          Subscribed(rid, s[1], s[2], then, error)
    BY <1>7 DEF HandleStreamRequest
  <2>3. /\ task'[rid].pc = "answer" /\ task'[rid].kind = task[rid].kind
        /\ task'[rid].named = task[rid].named
    BY <1>0, <2>2 DEF Subscribed, RouterTypeOK, Tasks
  <2>4. done[rid] = {} /\ task[rid].named = {}
    BY <1>1, <2>1 DEF AnswerPrepared
  <2>5. QED
    BY <2>1, <2>3, <2>4, ReadyKeeps
<1>8. QED
  BY <1>2, <1>3, <1>4, <1>5, <1>6, <1>7

\* An answer that tells the truth leaves a truthful history.
LEMMA WrittenTruthful ==
  ASSUME NEW rid \in Rids, answers \in [Rids -> Seq(Answers)], Truthful(rid),
         NEW error \in BOOLEAN, NEW data \in BOOLEAN, Written(rid, error, data),
         done'[rid] = done[rid], task'[rid].kind = task[rid].kind,
         task'[rid].named = task[rid].named,
         ~error => done[rid] = task[rid].named,
         task[rid].kind = "update" /\ ~data => done[rid] = {}
  PROVE  Truthful(rid)' /\ Len(answers'[rid]) = Len(answers[rid]) + 1
<1> DEFINE s == answers[rid]
           a == [error |-> error, data |-> data]
<1>1. s \in Seq(Answers) /\ a \in Answers
  BY DEF Answers
<1>2. answers'[rid] = Append(s, a)
  BY DEF Written
<1>3. Len(answers'[rid]) = Len(s) + 1
  BY <1>1, <1>2
<1>4. ASSUME NEW i \in DOMAIN answers'[rid]
      PROVE  \/ i \in DOMAIN s /\ answers'[rid][i] = s[i]
             \/ answers'[rid][i] = a
  BY <1>1, <1>2
<1>5. Truthful(rid)'
  <2>1. ASSUME NEW i \in DOMAIN answers'[rid]
        PROVE  /\ ~answers'[rid][i].error => done'[rid] = task'[rid].named
               /\ task'[rid].kind = "update" /\ ~answers'[rid][i].data =>
                    done'[rid] = {}
    <3>1. CASE i \in DOMAIN s /\ answers'[rid][i] = s[i]
      BY <3>1 DEF Truthful
    <3>2. CASE answers'[rid][i] = a
      BY <3>2
    <3>3. QED
      BY <1>4, <2>1, <3>1, <3>2
  <2>2. QED
    BY <2>1 DEF Truthful
<1>6. QED
  BY <1>3, <1>5

\* Writing the answer, forgetting the responder and announcing keep it too.
LEMMA RespondKeeps ==
  ASSUME RouterInv, NEW rid \in Rids, RequestInv(rid),
         Respond(rid) \/ Forget(rid) \/ Announce(rid)
  PROVE  RequestInv(rid)'
<1>0. task[rid] \in Tasks /\ RouterTypeOK
  BY DEF RouterInv, RouterTypeOK
<1>1. CASE Respond(rid) /\ rid \in responders
  <2>1. /\ Written(rid, task[rid].error, task[rid].data)
        /\ Goes(rid, "forget")
        /\ UNCHANGED <<responders, ext, done>>
        /\ task[rid].pc = "answer"
    BY <1>1 DEF Respond, At
  <2>2. task'[rid] = [task[rid] EXCEPT !.pc = "forget"]
    BY <1>0, <2>1 DEF Goes, RouterTypeOK
  <2>3. /\ task'[rid].pc = "forget" /\ task'[rid].kind = task[rid].kind
        /\ task'[rid].named = task[rid].named /\ task'[rid].then = task[rid].then
        /\ task[rid].error \in BOOLEAN /\ task[rid].data \in BOOLEAN
    BY <1>0, <2>2 DEF Tasks
  <2>4. /\ ~task[rid].error => done[rid] = task[rid].named
        /\ task[rid].kind = "update" /\ ~task[rid].data => done[rid] = {}
    BY <2>1 DEF RequestInv, AnswerPrepared
  <2>5. /\ Truthful(rid)'
        /\ Len(answers'[rid]) = Len(answers[rid]) + 1
    BY <1>0, <2>1, <2>3, <2>4, WrittenTruthful DEF RequestInv, RouterTypeOK
  <2>6. ResponderKept(rid)'
    <3>1. task[rid].then = "again" => Len(answers'[rid]) = 1
      BY <2>1, <2>5 DEF RequestInv, ResponderKept
    <3>2. QED
      BY <1>1, <2>1, <2>3, <3>1 DEF RequestInv, ResponderKept
  <2>7. AnswerPrepared(rid)' /\ Released(rid)'
    BY <2>1, <2>3 DEF RequestInv, AnswerPrepared, Released, Changing
  <2>8. QED
    BY <2>5, <2>6, <2>7 DEF RequestInv
<1>2. CASE Respond(rid) /\ rid \notin responders
  BY <1>2, DieKeeps DEF Respond
<1>3. CASE Forget(rid)
  <2>1. /\ Goes(rid, task[rid].then)
        /\ rid \notin responders'
        /\ UNCHANGED <<ext, done, answers>>
        /\ task[rid].pc = "forget"
    BY <1>3 DEF Forget, At
  <2>2. task'[rid] = [task[rid] EXCEPT !.pc = task[rid].then]
    BY <1>0, <2>1 DEF Goes, RouterTypeOK
  <2>3. /\ task'[rid].pc = task[rid].then /\ task'[rid].kind = task[rid].kind
        /\ task'[rid].named = task[rid].named /\ task'[rid].then = task[rid].then
        /\ task[rid].then \in {"done", "announce", "again"}
    BY <1>0, <2>2 DEF Tasks
  <2>4. ResponderKept(rid)'
    BY <2>1, <2>3 DEF RequestInv, ResponderKept
  <2>5. AnswerPrepared(rid)' /\ Released(rid)' /\ Truthful(rid)'
    BY <2>1, <2>3 DEF RequestInv, AnswerPrepared, Released, Truthful, Changing
  <2>6. QED
    BY <2>4, <2>5 DEF RequestInv
<1>4. CASE Announce(rid)
  <2>1. /\ Goes(rid, "done")
        /\ UNCHANGED <<responders, ext, done, answers>>
        /\ task[rid].pc = "announce"
    BY <1>4 DEF Announce, At
  <2>2. task'[rid] = [task[rid] EXCEPT !.pc = "done"]
    BY <1>0, <2>1 DEF Goes, RouterTypeOK
  <2>3. /\ task'[rid].pc = "done" /\ task'[rid].kind = task[rid].kind
        /\ task'[rid].named = task[rid].named /\ task'[rid].then = task[rid].then
    BY <1>0, <2>2 DEF Tasks
  <2>4. rid \notin responders' /\ ext'[rid] = "none"
    BY <2>1 DEF RequestInv, ResponderKept
  <2>5. ResponderKept(rid)'
    BY <2>1, <2>3, <2>4 DEF RequestInv, ResponderKept
  <2>6. AnswerPrepared(rid)' /\ Released(rid)' /\ Truthful(rid)'
    BY <2>1, <2>3, <2>4
    DEF RequestInv, AnswerPrepared, Released, Truthful, Changing
  <2>7. QED
    BY <2>5, <2>6 DEF RequestInv
<1>5. QED
  BY <1>1, <1>2, <1>3, <1>4

\* So do the steps of an extension and of its subscription.
LEMMA ExtKeeps ==
  ASSUME RouterInv, NEW rid \in Rids, RequestInv(rid),
         ExtStep(rid) \/ ExtLoses(rid) \/ SubscriptionStep(rid)
  PROVE  RequestInv(rid)'
<1>0. task[rid] \in Tasks /\ RouterTypeOK
  BY DEF RouterInv, RouterTypeOK
<1> DEFINE Moves == HandleDatabaseRequest(rid) \/ HandleMessageFromExtension(rid)
<1>1. CASE (ExtStep(rid) \/ ExtLoses(rid) \/ Moves) /\ UNCHANGED task
  <2>1. UNCHANGED <<responders, task, done, answers>>
    BY <1>1 DEF ExtStep, ExtLoses, ExtTakes, ExtAsks, ExtAnswers, Sends, MoveExt,
                HandleDatabaseRequest, HandleMessageFromExtension
  <2>2. /\ ext[rid] \in {"published", "working", "asking", "told", "answered"}
        /\ ext'[rid] \in Places \ {"none", "done"}
    BY <1>0, <1>1
    DEF ExtStep, ExtLoses, ExtTakes, ExtAsks, ExtAnswers, Sends, MoveExt,
        HandleDatabaseRequest, HandleMessageFromExtension, RouterTypeOK, Places
  <2>3. QED
    BY <2>1, <2>2
    DEF RequestInv, ResponderKept, AnswerPrepared, Released, Truthful, Changing
<1>2. CASE RespondForExt(rid) /\ UNCHANGED task
  <2>1. /\ Written(rid, FALSE, TRUE)
        /\ ext[rid] = "responding" /\ rid \in responders
        /\ UNCHANGED <<responders, task, done>>
    BY <1>2 DEF RespondForExt
  <2>2. ext'[rid] = "forgetting"
    BY <1>0, <1>2 DEF RespondForExt, RouterTypeOK
  <2>3. task[rid].kind \in Exts /\ task[rid].pc \in {"done", "gone"}
    BY <2>1 DEF RequestInv, ResponderKept
  <2>4. done[rid] = task[rid].named
    BY <2>3 DEF RequestInv, AnswerPrepared, Changing, Internal
  <2>5. Truthful(rid)'
    BY <1>0, <2>1, <2>4, WrittenTruthful DEF RequestInv, RouterTypeOK
  <2>6. ResponderKept(rid)'
    BY <2>1, <2>2, <2>3 DEF RequestInv, ResponderKept, Internal
  <2>7. AnswerPrepared(rid)' /\ Released(rid)'
    BY <2>1, <2>2, <2>3 DEF RequestInv, AnswerPrepared, Released, Changing
  <2>8. QED
    BY <2>5, <2>6, <2>7 DEF RequestInv
<1>3. CASE NobodyAsked(rid)
  BY <1>3, DieKeeps DEF NobodyAsked
<1>4. CASE ForgetForExt(rid) /\ UNCHANGED task
  <2>1. /\ ext[rid] = "forgetting" /\ rid \notin responders'
        /\ UNCHANGED <<task, done, answers>>
    BY <1>4 DEF ForgetForExt
  <2>2. ext'[rid] = "done"
    BY <1>0, <1>4 DEF ForgetForExt, RouterTypeOK
  <2>3. task[rid].pc \in {"done", "gone"} /\ task[rid].kind \in Exts
    BY <2>1 DEF RequestInv, ResponderKept
  <2>4. ResponderKept(rid)'
    BY <2>1, <2>2, <2>3 DEF RequestInv, ResponderKept
  <2>5. AnswerPrepared(rid)' /\ Released(rid)' /\ Truthful(rid)'
    BY <2>1, <2>2, <2>3
    DEF RequestInv, AnswerPrepared, Released, Truthful, Changing
  <2>6. QED
    BY <2>4, <2>5 DEF RequestInv
<1>5. QED
  BY <1>1, <1>2, <1>3, <1>4 DEF ExtStep, ExtLoses, SubscriptionStep

\* Every step keeps the invariant.
LEMMA InvStep == RouterInv /\ [Next]_vars => RouterInv'
<1> SUFFICES ASSUME RouterInv, [Next]_vars PROVE RouterInv'
  OBVIOUS
<1>1. RouterTypeOK /\ RouterTypeOK'
  BY TypeStep DEF RouterInv
<1>2. \A r \in Rids : RequestInv(r)
  BY <1>1, ByRequest
<1>3. ASSUME NEW r \in Rids PROVE RequestInv(r)'
  <2>1. CASE \E cause : Die(cause)
    BY <2>1, DieKeeps
  <2>2. ASSUME NEW rid \in Rids,
               \/ \E kind \in Kinds : Ask(rid, kind)
               \/ RequestStep(rid) \/ ExtStep(rid) \/ SubscriptionStep(rid)
               \/ ExtLoses(rid)
        PROVE  RequestInv(r)'
    <3>1. CASE r # rid
      <4>1. Apart(r) \/ \E cause : Die(cause)
        BY <1>1, <2>2, <3>1, OthersApart
      <4>2. QED
        BY <1>2, <2>1, <4>1, ApartKeeps
    <3>2. CASE r = rid
      <4>1. CASE \E s \in Subs : StreamRequestPanics(rid, s[1], s[2])
        BY <2>1, <4>1 DEF StreamRequestPanics
      <4>2. CASE RequestStep(rid) /\ ~\E s \in Subs :
                                       StreamRequestPanics(rid, s[1], s[2])
        BY <1>1, <1>2, <3>2, <4>2, AskKeeps, PrepareKeeps, RespondKeeps
        DEF RequestStep
      <4>3. QED
        BY <1>1, <1>2, <2>2, <3>2, <4>1, <4>2, AskKeeps, ExtKeeps
    <3>3. QED
      BY <3>1, <3>2
  <2>3. CASE Kill \/ MapRace
    BY <2>1, <2>3 DEF Kill, MapRace
  <2>4. CASE Restart \/ UNCHANGED vars
    <3>1. Apart(r)
      BY <2>4 DEF Restart, vars, Apart
    <3>2. QED
      BY <1>2, <3>1, ApartKeeps
  <2>5. QED
    BY <2>2, <2>3, <2>4 DEF Next
<1>4. QED
  BY <1>1, <1>3, ByRequestNext

-----------------------------------------------------------------------------
(* The theorems.                                                           *)

(***************************************************************************)
(* What the router knows of each request, at each place on its way, is so  *)
(* for any number of requests, keys and extensions and whatever goes wrong.*)
(***************************************************************************)
THEOREM RouterInvariant == Spec => []RouterInv
<1>1. Init => RouterInv
  BY InitInv
<1>2. RouterInv /\ [Next]_vars => RouterInv'
  BY InvStep
<1>3. QED
  BY <1>1, <1>2, PTL DEF Spec

(***************************************************************************)
(* An answer without an error means every key named was changed; an update *)
(* answered without "success" has changed none (cud.go).                   *)
(***************************************************************************)
THEOREM AnswersTellTheTruth == Spec => []AnswerTellsTheTruth
<1>1. RouterInv => AnswerTellsTheTruth
  BY DEF RouterInv
<1>2. QED
  BY <1>1, RouterInvariant, PTL

(***************************************************************************)
(* connQueryMap holds no responder of a request that is through with its   *)
(* goroutine and its extension.                                            *)
(***************************************************************************)
THEOREM NoResponderLeftBehind == Spec => []RespondersReleased
<1>1. RouterInv => RespondersReleased
  BY DEF RouterInv
<1>2. QED
  BY <1>1, RouterInvariant, PTL

(***************************************************************************)
(* The server does not die for want of a responder but for the second      *)
(* answer to a failed subscription and for an extension's answer to a      *)
(* request of a server that has died since.                                *)
(***************************************************************************)
THEOREM ResponderFound == Spec => AnswersFindTheirResponder
<1> DEFINE Foreseen ==
      process = "up" /\ process' = "noResponder" =>
        \E rid \in Rids :
          \/ task[rid].kind = "subscribe" /\ Len(answers[rid]) = 1
          \/ ext[rid] = "responding" /\ Gone(rid)
<1>1. RouterInv /\ [Next]_vars => Foreseen
  <2> SUFFICES ASSUME RouterInv, [Next]_vars, process = "up", process' = "noResponder"
               PROVE  \E rid \in Rids :
                        \/ task[rid].kind = "subscribe" /\ Len(answers[rid]) = 1
                        \/ ext[rid] = "responding" /\ Gone(rid)
    OBVIOUS
  <2>1. \A rid \in Rids : ResponderKept(rid)
    BY DEF RouterInv
  <2>2. \E rid \in Rids :
          \/ Respond(rid) /\ rid \notin responders
          \/ NobodyAsked(rid)
    BY DEF Next, vars, Ask, RequestStep, HandleServerRequest, Refuse, HandleRead,
           HandleInsert, HandleChange, ChangeKey, ChangeEnds, HandleStreamRequest,
           StreamRequestPanics, AnswerAgain, Respond, Forget, Announce,
           HandleExtensionMessage, ExtStep, ExtLoses, ExtTakes, ExtAsks,
           ExtAnswers, Sends, MoveExt, SubscriptionStep, HandleDatabaseRequest,
           HandleMessageFromExtension, RespondForExt, ForgetForExt, Kill, MapRace,
           Restart, Die
  <2>3. PICK rid \in Rids : \/ Respond(rid) /\ rid \notin responders
                            \/ NobodyAsked(rid)
    BY <2>2
  <2>4. CASE Respond(rid) /\ rid \notin responders
    BY <2>1, <2>4 DEF Respond, At, ResponderKept
  <2>5. CASE NobodyAsked(rid)
    <3>1. task[rid].pc = "gone"
      BY <2>1, <2>5 DEF NobodyAsked, ResponderKept
    <3>2. QED
      BY <2>5, <3>1 DEF NobodyAsked, Gone
  <2>6. QED
    BY <2>3, <2>4, <2>5
<1>2. QED
  BY <1>1, RouterInvariant, PTL DEF Spec, AnswersFindTheirResponder
=============================================================================
