----------------------------- MODULE QueryParser ----------------------------
(***************************************************************************)
(* The parser's recursive descent (dsl/parser/parser.go, filter.go,        *)
(* projection.go, operator.go), a step for each token: a function that has *)
(* called ParseStatement in a loop and waits for it is in plan.calls, the  *)
(* innermost last, with what it needs when its loop ends.                  *)
(***************************************************************************)
EXTENDS QueryPlan

VARIABLE plan

\* src: the statement a call found last when it began; last: an operator's loop is over.
Entered(p, kind, src, x) ==
  [p EXCEPT !.calls = Append(@, [kind |-> kind, src |-> src, x |-> x, last |-> FALSE])]
Left(p) == [p EXCEPT !.calls = Front(@)]

Call == Last(plan.calls)
In == IF plan.calls = <<>> THEN "main" ELSE Call.kind

HasStatement == Prev(plan) # 0

\* How the operator that is read next binds, against the one whose right side this is.
Binds == GetOperatorPrecedence(Text(plan)) - GetOperatorPrecedence(Call.x)

Closers == [main |-> {"end"}, filter |-> {"]"}, parenthesis |-> {")"}, key |-> {"end", "}", ","},
            projection |-> {"end", "}"}, operator |-> {"end", ")", "]", ",", "}"}]

(***************************************************************************)
(* The right side of an operator ends at a closing token, at an operator   *)
(* that binds less, and after one that does not, whatever follows.         *)
(***************************************************************************)
LoopEnds ==
  \/ Kind(plan) \in Closers[In]
  \/ In = "operator" /\ (Call.last \/ (Kind(plan) = "op" /\ Binds < 0))

\* The innermost loop goes on with a statement; a projection's is over its keys.
Reading(kinds) == plan.ok /\ In # "projection" /\ ~LoopEnds /\ Kind(plan) \in kinds
Ending(call) == plan.ok /\ In = call /\ LoopEnds

-----------------------------------------------------------------------------
(* ParseStatement, at a token that is a statement or part of one.          *)

ParseDot     == Reading({"."}) /\ plan' = Skip(plan)
ReadLiteral  == Reading({"string", "number"}) /\ plan' = ParseLiteral(plan)
ReadName     == Reading({"ident"}) /\ plan' = ParseIdentifier(plan)
ReadRow      == Reading({"row"}) /\ HasStatement /\ plan' = ParseRow(plan)
ReadSlice    == Reading({"slice"}) /\ HasStatement /\ plan' = ParseSlice(plan)

-----------------------------------------------------------------------------
(* Filters, parentheses and projections.                                   *)

OpenFilter ==
  /\ Reading({"["}) /\ HasStatement
  /\ plan' = AddStatement(Entered(Skip(plan), "filter", Prev(plan), ""),
                          [NoStatement EXCEPT !.op = "SFT", !.src = Prev(plan)])

CloseFilter ==
  /\ Ending("filter")
  /\ plan' = AddStatement(Left(Skip(plan)), [NoStatement EXCEPT !.op = "EFT", !.src = Call.src])

OpenParenthesis == Reading({"("}) /\ plan' = Entered(Skip(plan), "parenthesis", Prev(plan), "")
CloseParenthesis == Ending("parenthesis") /\ plan' = Left(Skip(plan))

OpenProjection ==
  /\ Reading({"{"}) /\ HasStatement
  /\ plan' = AddStatement(Entered(Skip(plan), "projection", Prev(plan), ""),
                          [NoStatement EXCEPT !.op = "SPJ", !.src = Prev(plan)])

\* A key is a string and a colon, or the first name of what it stands for.
Named == Kind(plan) = "string" /\ Kind(Skip(plan)) = ":"
KeyStatement(op, projection, key) ==
  [NoStatement EXCEPT !.op = op, !.src = projection, !.x = key]

OpenKey ==
  /\ plan.ok /\ In = "projection"
  /\ Named \/ Kind(plan) = "ident"
  /\ plan' = AddStatement(Entered(IF Named THEN Skip(Skip(plan)) ELSE plan,
                                  "key", Call.src + 1, Text(plan)),
                          KeyStatement("SPK", Call.src + 1, Text(plan)))

\* The brace that ends the projection may be taken for the end of its key.
CloseKey ==
  /\ Ending("key")
  /\ plan' = AddStatement(Odd(Left(Skip(plan)), "projection",
                              Kind(plan) = "}" /\ Kind(Skip(plan)) \notin {"end", "}"}),
                          KeyStatement("EPK", Call.src, Call.x))

CloseProjection ==
  /\ Ending("projection")
  /\ plan' = AddStatement(Left(Skip(plan)), [NoStatement EXCEPT !.op = "EPJ", !.src = Call.src])

-----------------------------------------------------------------------------
(* Operators.                                                              *)

\* The operator whose right side this one belongs to has read its last one.
Marked == IF In = "operator" THEN [plan EXCEPT !.calls[Len(plan.calls)].last = TRUE] ELSE plan

OpenOperator ==
  /\ Reading({"op"})
  /\ Text(plan) = "not" \/ HasStatement
  /\ plan' = Odd(Entered(Skip(Marked), "operator", IF Text(plan) = "not" THEN 0 ELSE Prev(plan),
                         Text(plan)),
                 "right", In = "operator" /\ Binds = 0 /\ Text(plan) # "not")

CloseOperator ==
  /\ Ending("operator") /\ HasStatement
  /\ plan' = AddStatement(Odd(Left(plan), "cutShort", Call.last /\ Kind(plan) = "op" /\ Binds > 0),
                          [NoStatement EXCEPT !.op = "NO", !.src = Call.src,
                                              !.host = Prev(plan), !.x = Call.x])

-----------------------------------------------------------------------------
\* An error: a token that has no place here, or nothing before one that needs it.
Unexpected ==
  /\ \/ Reading({"end", ":", ",", ")", "]", "}"})
     \/ Reading({"row", "slice", "[", "{"}) /\ ~HasStatement
     \/ Reading({"op"}) /\ Text(plan) # "not" /\ ~HasStatement
     \/ Ending("operator") /\ ~HasStatement
     \/ plan.ok /\ In = "projection" /\ ~LoopEnds /\ ~Named /\ Kind(plan) # "ident"
  /\ plan' = Bad(plan)

ParseStep ==
  \/ ParseDot \/ ReadLiteral \/ ReadName \/ ReadRow \/ ReadSlice
  \/ OpenFilter \/ CloseFilter \/ OpenParenthesis \/ CloseParenthesis
  \/ OpenProjection \/ OpenKey \/ CloseKey \/ CloseProjection
  \/ OpenOperator \/ CloseOperator
  \/ Unexpected

Parsed == plan.ok /\ plan.calls = <<>> /\ Kind(plan) = "end"

-----------------------------------------------------------------------------
(* What the plan looks like while it grows.                                *)

IsSequence(s) == Len(s) \in Nat /\ s = [i \in 1..Len(s) |-> s[i]]

\* The plan is a record of sequences, those of statements and of calls of records.
PlanTyped ==
  /\ DOMAIN plan = {"tokens", "pos", "stmts", "parents", "calls", "ok", "odd"}
  /\ IsSequence(plan.stmts)
  /\ IsSequence(plan.parents)
  /\ IsSequence(plan.calls)
  /\ \A s \in DOMAIN plan.stmts : plan.stmts[s].src \in Nat
  /\ \A i \in DOMAIN plan.calls : DOMAIN plan.calls[i] = {"kind", "src", "x", "last"}

OpOf(s) == plan.stmts[s].op

Starts == {s \in DOMAIN plan.stmts : OpOf(s) \in {"SFT", "SPJ"}}
Ends   == {s \in DOMAIN plan.stmts : OpOf(s) \in {"EFT", "EPJ"}}
Open   == {plan.parents[k] : k \in DOMAIN plan.parents}

\* An end reads the table its start reads, which is the statement before the start.
Opening(e) == plan.stmts[e].src + 1

\* The statements of loops that are over at t, their ends apart.
Past(t) == UNION {Opening(e)..(e - 1) : e \in {f \in Ends : f <= t}}

\* The filters and projections that have started at t and have not ended.
Around(t) == {s \in Starts : s <= t /\ \A e \in Ends : Opening(e) = s => t < e}

\* Filters and projections nest, whatever the text: those that are open around the others.
BracketsNest ==
  /\ \A e \in Ends : /\ Opening(e) \in Starts \ Open
                     /\ Opening(e) < e
                     /\ OpOf(e) = (IF OpOf(Opening(e)) = "SFT" THEN "EFT" ELSE "EPJ")
  /\ \A e, f \in Ends : e < f => e < Opening(f) \/ Opening(f) < Opening(e)
  /\ \A s \in Starts \ Open : \E e \in Ends : Opening(e) = s
  /\ \A o \in Open, e \in Ends : o < Opening(e) \/ e < o

\* The statements whose values a statement reads.
Reads(t) ==
  CASE OpOf(t) \in {"EFT", "EPK"} -> {t - 1}
    [] OpOf(t) \in {"SPK", "EPJ", ""} -> {}
    [] OTHER -> {plan.stmts[t].src, plan.stmts[t].host} \ {0}

\* What may be read after t: not what is in a loop that is over, nor the end of a key.
Readable(t) == {r \in 1..t : r \notin Past(t) /\ OpOf(r) # "EPK"}

ReadsInScope == \A t \in DOMAIN plan.stmts : Reads(t) \subseteq Readable(t - 1)

\* A key belongs to the innermost loop around it, which is a projection.
KeysFit ==
  \A t \in DOMAIN plan.stmts : OpOf(t) \in {"SPK", "EPK"} =>
    LET projection == plan.stmts[t].src
    IN  projection \in Around(t) /\ OpOf(projection) = "SPJ" /\ \A s \in Around(t) : s <= projection

\* The filters and projections among the first i calls.
Brackets(i) == {j \in 1..i : plan.calls[j].kind \in {"filter", "projection"}}

(***************************************************************************)
(* The calls that are under way are those whose loops are open, in this    *)
(* order, and what a call keeps for its return can still be read then.     *)
(***************************************************************************)
CallsFit ==
  /\ Len(plan.parents) = Cardinality(Brackets(Len(plan.calls)))
  /\ \A j \in Brackets(Len(plan.calls)) :
       LET start == plan.calls[j].src + 1 IN
       /\ plan.parents[Cardinality(Brackets(j))] = start
       /\ OpOf(start) = (IF plan.calls[j].kind = "filter" THEN "SFT" ELSE "SPJ")
       /\ \A i \in 1..j : plan.calls[i].src <= plan.calls[j].src
  /\ \A i \in DOMAIN plan.calls :
       /\ plan.calls[i].src \in {0} \cup Readable(Prev(plan))
       /\ plan.calls[i].kind = "key" => /\ i > 1 /\ plan.calls[i - 1].kind = "projection"
                                        /\ plan.calls[i].src = plan.calls[i - 1].src + 1

(***************************************************************************)
(* The parser's invariant, which is inductive: for any text it makes loops *)
(* that nest, and statements that read what is in scope where they stand   *)
(* (ParseFilter, ParseProjection, ParseOperator, GetPrevStatement).        *)
(***************************************************************************)
PlanInv ==
  /\ PlanTyped
  /\ plan.ok =>
       /\ BracketsNest /\ ReadsInScope /\ KeysFit /\ CallsFit
       /\ Open \subseteq Starts
       /\ \A i, j \in DOMAIN plan.parents : i < j => plan.parents[i] < plan.parents[j]
       /\ HasStatement /\ OpOf(Prev(plan)) = "EPK" => In = "projection"
=============================================================================
