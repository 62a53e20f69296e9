------------------------------- MODULE Query --------------------------------
(***************************************************************************)
(* Executing a query (dsl/main.go, dsl/evaluator): the text is parsed to a *)
(* plan, and the evaluator walks the plan's statements, each reading the   *)
(* results of earlier ones from memory and leaving its own there.  A       *)
(* filter or projection walks the statements of its body once for each     *)
(* row, by moving the plan's position back.  The rows come from a database *)
(* that does not change meanwhile; contexts, which put another query's     *)
(* result in place of a table, are left out.                               *)
(*                                                                         *)
(* "odd" collects where the evaluator is known to do otherwise:            *)
(*   "skipped"  a filter or projection of no rows skips the statement      *)
(*              after its end as well;                                     *)
(*   "slice"    a slice ends before it starts, goes backwards, or is an    *)
(*              empty one of a table, which is no table any more;          *)
(*   "host"     a relation is followed from a single row.                  *)
(***************************************************************************)
EXTENDS QueryParser

CONSTANTS
  Queries, Databases,   \* the queries, and the databases they are asked of
  Tokens(_)             \* the lexer: a query's tokens

VARIABLES
  query, data,
  at,        \* Plan.Pos: the last statement evaluated, 0 at the start
  mem,       \* Evaluator.Memory: statement |-> value, of those there are
  frames,    \* the filters and projections that are being evaluated
  outcome,   \* "parsing", "running", "done"
  result,    \* Evaluator.Result, Failed for an error
  odd,
  current    \* history: the statements whose values belong to the rows the frames are at

evalVars == <<at, mem, frames, outcome, result, odd, current>>
vars == <<query, data, plan, evalVars>>

Init ==
  /\ query \in Queries
  /\ data \in Databases
  /\ plan = NewPlan(Tokens(query))
  /\ at = 0
  /\ mem = <<>>
  /\ frames = <<>>
  /\ outcome = "parsing"
  /\ result = Null
  /\ odd = {}
  /\ current = {}

\* Execute parses the text and, unless that fails, evaluates the plan.
Parse ==
  /\ outcome = "parsing"
  /\ ParseStep
  /\ UNCHANGED <<query, data, evalVars>>

Eval ==
  /\ outcome = "parsing" /\ Parsed
  /\ outcome' = "running"
  /\ odd' = plan.odd
  /\ UNCHANGED <<query, data, plan, at, mem, frames, result, current>>

-----------------------------------------------------------------------------
(* Evaluating one statement.                                               *)

Stmt == plan.stmts[at + 1]
HasNext == at < Len(plan.stmts)
Evaluating(op) == outcome = "running" /\ HasNext /\ Stmt.op = op

Mem(s) == IF s \in DOMAIN mem THEN mem[s] ELSE <<"UNSET", 0>>
Source == Mem(Stmt.src)

\* Rows of the open filter or projection are under these statements' names.
Under(s) == plan.stmts[s].op \in {"SFT", "SPK", "SPJ"}

Keep == UNCHANGED <<query, data, plan>>

Fail(why) ==
  /\ outcome' = "done"
  /\ result' = Failed
  /\ odd' = odd \cup why
  /\ UNCHANGED <<at, mem, frames, current>>
  /\ Keep

ParseFails ==
  /\ outcome = "parsing" /\ ~plan.ok
  /\ Fail(plan.odd)

SetMemoryValue(s, v) == mem' = [x \in DOMAIN mem \cup {s} |-> IF x = s THEN v ELSE mem[x]]

\* The value of the statement, or the error.
Yield(v, why) ==
  \/ v = Failed /\ Fail(why)
  \/ /\ v # Failed
     /\ SetMemoryValue(at + 1, v)
     /\ at' = at + 1
     /\ odd' = odd \cup why
     /\ current' = current \cup {at + 1}
     /\ UNCHANGED <<frames, outcome, result>>
     /\ Keep

If(cond, why) == IF cond THEN {why} ELSE {}

EvalTable ==
  /\ Evaluating("AT")
  /\ Yield(Table(data[GetTableName(Protos, Password, Stmt.table[1], Stmt.table[2])]), {})

Matching(table, col, v) == SelectSeq(data[table], LAMBDA r : Field(r, col) = v)

GetMTMRelatedTabledData(rel, v) ==
  LET through == Matching(rel.through, rel.fk[2], v)
  IN  FlattenSeq([i \in DOMAIN through |->
        Matching(rel.entity, rel.fk[4], Field(through[i], rel.fk[3]))])

GetRelatedTableData(rel, row) ==
  IF rel.type = "mtm" THEN GetMTMRelatedTabledData(rel, Field(row, rel.fk[1]))
  ELSE Matching(rel.entity, rel.fk[2], Field(row, rel.fk[1]))

EvalRelatedTable ==
  /\ Evaluating("ART")
  /\ LET host == Mem(Stmt.host)
         rows == IF Type(host) = "ROW" THEN <<host[2]>> ELSE host[2]
     IN  Yield(IF Type(host) # (IF Under(Stmt.host) THEN "ROW" ELSE "TABLE") THEN Failed
               ELSE Table(FlattenSeq([i \in DOMAIN rows |->
                                        GetRelatedTableData(Stmt.x, rows[i])])),
               If(Type(host) = "ROW" /\ ~Under(Stmt.host), "host"))

\* A column of the row of a filter or projection is a field, of a table a list.
EvalTableList ==
  /\ Evaluating("ATL")
  /\ LET rows == SelectSeq(Source[2], LAMBDA r : Stmt.name \in DOMAIN r)
         list == [i \in DOMAIN rows |-> rows[i][Stmt.name]]
     IN  Yield(IF Under(Stmt.src)
                 THEN IF Type(Source) = "ROW" THEN Field(Source[2], Stmt.name) ELSE Failed
               ELSE IF Type(Source) # "TABLE" THEN Failed
               ELSE IF Stmt.type \in DOMAIN ListType
                 THEN <<ListType[Stmt.type], [i \in DOMAIN list |-> list[i][2]]>>
               ELSE NarrowTypes(list), {})

EvalTableField ==
  /\ Evaluating("ARF")
  /\ Yield(IF Type(Source) = "ROW" THEN Field(Source[2], Stmt.name) ELSE Failed, {})

EvalRow ==
  /\ Evaluating("ATR")
  /\ Yield(EvalTableRow(Source, Stmt.x), {})

EvalSlicing ==
  /\ Evaluating("SLT")
  /\ LET v == EvalSlice(Source, Stmt.x)
         untyped == Type(Source) = "TABLE" /\ v[2] = <<>> /\ at + 1 < Len(plan.stmts)
     IN  Yield(v, If(IsArray(Source) /\ (v = Failed \/ untyped), "slice"))

EvalLiteral == Evaluating("LIT") /\ Yield(Stmt.x, {})

IsJson(s) == s # 0 /\ plan.stmts[s].op \in {"AJP", "UNI"}

EvalOperation ==
  /\ Evaluating("NO")
  /\ Yield(EvalOperator(Stmt.x, Source, Mem(Stmt.host), IsJson(Stmt.src), IsJson(Stmt.host)), {})

EvalProperty ==
  /\ Evaluating("AJP") \/ Evaluating("UNI")
  /\ Yield(EvalJsonProperty(Source, Stmt.x, Stmt.op = "UNI"), {})

EvalAggregate ==
  /\ Evaluating("AGR")
  /\ Yield(EvalAggr(Stmt.x[1], Stmt.x[2], Source, Stmt.input), {})

-----------------------------------------------------------------------------
(* Filters and projections: a frame is at one row of its table.            *)

Frame(rows) == [start |-> at + 1, rows |-> rows, i |-> 1, kept |-> <<>>, obj |-> <<>>]
Top == Last(frames)
TopOp == IF frames = <<>> THEN "" ELSE plan.stmts[Top.start].op
ReplaceTop(f) == Append(Front(frames), f)

\* The end of what starts at s, past those of others inside it (the parser adds one).
EndOf(s, open, close) ==
  LET count(i, op) == Cardinality({j \in s..i : plan.stmts[j].op = op})
      ends == {i \in s..Len(plan.stmts) : count(i, open) = count(i, close)}
  IN  Min(ends)

Start(open) ==
  /\ Evaluating(open)
  /\ \/ Type(Source) # "TABLE" /\ Fail({})
     \/ /\ Type(Source) = "TABLE" /\ Source[2] # <<>>
        /\ frames' = Append(frames, Frame(Source[2]))
        /\ SetMemoryValue(at + 1, Row(Source[2][1]))
        /\ at' = at + 1
        /\ current' = current \cup {at + 1}
        /\ UNCHANGED <<outcome, result, odd>>
        /\ Keep

\* With no rows the body is skipped, and the statement after the end with it.
SkipBody(open, close) ==
  /\ Evaluating(open)
  /\ Source = Table(<<>>)
  /\ LET end == EndOf(at + 1, open, close)
         more == end < Len(plan.stmts)
     IN  /\ at' = IF more THEN end + 1 ELSE end
         /\ SetMemoryValue(end, Table(<<>>))
         /\ current' = current \cup {end}
         /\ odd' = odd \cup If(more, "skipped")
  /\ UNCHANGED <<frames, outcome, result>>
  /\ Keep

\* The row is done with kept the result so far: on to the next one, or to the end.
NextRow(kept) ==
  /\ IF Top.i < Len(Top.rows)
       THEN /\ frames' = ReplaceTop([Top EXCEPT !.i = @ + 1, !.kept = kept, !.obj = <<>>])
            /\ SetMemoryValue(Top.start, Row(Top.rows[Top.i + 1]))
            /\ at' = Top.start
            /\ current' = current \ ((Top.start + 1)..at)
       ELSE /\ frames' = Front(frames)
            /\ SetMemoryValue(at + 1, Table(kept))
            /\ at' = at + 1
            /\ current' = (current \ (Top.start..at)) \cup {at + 1}
  /\ UNCHANGED <<outcome, result, odd>>
  /\ Keep

StartFilter == Start("SFT")
SkipFilter  == SkipBody("SFT", "EFT")

\* Mutant: a row that is not kept is looked at again.
EndFilterRowAgain ==
  /\ TopOp = "SFT" /\ Evaluating("EFT")
  /\ \/ Type(Mem(at)) # "BOOL" /\ Fail({})
     \/ Mem(at) = Bool(TRUE) /\ NextRow(Append(Top.kept, Top.rows[Top.i]))
     \/ /\ Mem(at) = Bool(FALSE)
        /\ at' = Top.start
        /\ UNCHANGED <<frames, mem, outcome, result, odd, current>>
        /\ Keep

\* The last statement of the body decides whether the row is kept.
EndFilterRow ==
  /\ TopOp = "SFT" /\ Evaluating("EFT")
  /\ \/ Type(Mem(at)) # "BOOL" /\ Fail({})
     \/ Mem(at) = Bool(TRUE)  /\ NextRow(Append(Top.kept, Top.rows[Top.i]))
     \/ Mem(at) = Bool(FALSE) /\ NextRow(Top.kept)

StartProjection == Start("SPJ")
SkipProjection  == SkipBody("SPJ", "EPJ")

SetKey(key, v) == frames' = ReplaceTop([Top EXCEPT !.obj = (key :> v) @@ @])

StartKey ==
  /\ TopOp = "SPJ" /\ Evaluating("SPK")
  /\ SetKey(Stmt.x, Str(""))
  /\ SetMemoryValue(at + 1, Row(Top.rows[Top.i]))
  /\ at' = at + 1
  /\ current' = current \cup {at + 1}
  /\ UNCHANGED <<outcome, result, odd>>
  /\ Keep

EndKey ==
  /\ TopOp = "SPJ" /\ Evaluating("EPK")
  /\ SetKey(Stmt.x, IF at \in DOMAIN mem THEN mem[at] ELSE Null)
  /\ at' = at + 1
  /\ UNCHANGED <<mem, outcome, result, odd, current>>
  /\ Keep

\* Mutant: the position stays before the projection's end.
EndProjectionRowBefore ==
  /\ TopOp = "SPJ" /\ Evaluating("EPJ")
  /\ IF Top.i < Len(Top.rows) THEN NextRow(Append(Top.kept, Top.obj))
     ELSE /\ frames' = Front(frames)
          /\ SetMemoryValue(at + 1, Table(Append(Top.kept, Top.obj)))
          /\ UNCHANGED <<at, outcome, result, odd, current>>
          /\ Keep

EndProjectionRow ==
  /\ TopOp = "SPJ" /\ Evaluating("EPJ")
  /\ NextRow(Append(Top.kept, Top.obj))

\* A statement that has no place where it is met, or the end of the plan in a body.
Misplaced ==
  /\ outcome = "running"
  /\ IF HasNext
       THEN \/ Stmt.op \in {"EFT", ""} /\ (Stmt.op = "" \/ TopOp # "SFT")
            \/ Stmt.op \in {"SPK", "EPK", "EPJ"} /\ TopOp # "SPJ"
       ELSE frames # <<>>
  /\ Fail({})

Finish ==
  /\ outcome = "running"
  /\ ~HasNext /\ frames = <<>>
  /\ outcome' = "done"
  /\ result' = IF at \in DOMAIN mem THEN mem[at] ELSE Null
  /\ UNCHANGED <<at, mem, frames, odd, current>>
  /\ Keep

Next ==
  \/ Parse \/ ParseFails \/ Eval
  \/ EvalTable \/ EvalRelatedTable \/ EvalTableList \/ EvalTableField \/ EvalRow
  \/ EvalSlicing \/ EvalLiteral \/ EvalOperation \/ EvalProperty \/ EvalAggregate
  \/ StartFilter \/ SkipFilter \/ EndFilterRow
  \/ StartProjection \/ SkipProjection \/ StartKey \/ EndKey \/ EndProjectionRow
  \/ Misplaced
  \/ Finish

\* Execute runs in one goroutine, which nothing holds up.
Spec == Init /\ [][Next]_vars /\ WF_vars(Next)

-----------------------------------------------------------------------------
(* Properties.                                                             *)

(***************************************************************************)
(* The type invariant: the position is one of the plan, memory is of its   *)
(* statements, and a frame was started by a statement that starts one      *)
(* (evaluator.go, types.go).                                               *)
(***************************************************************************)
QueryTypeOK ==
  /\ outcome \in {"parsing", "running", "done"}
  /\ at \in 0..Len(plan.stmts)
  /\ DOMAIN mem \subseteq DOMAIN plan.stmts
  /\ \A k \in DOMAIN frames : frames[k].start \in Starts

\* The filters and projections the position is inside of, outermost first.
Enclosing ==
  LET Close(s) == IF plan.stmts[s].op = "SFT" THEN EndOf(s, "SFT", "EFT")
                  ELSE EndOf(s, "SPJ", "EPJ")
  IN  {s \in 1..at : plan.stmts[s].op \in {"SFT", "SPJ"} /\ Close(s) > at}

(***************************************************************************)
(* However the position has been moved back and forth, the loops the       *)
(* evaluator is in are those of the brackets around the position, unless a *)
(* filter or projection of no rows moved it too far: a statement is never  *)
(* evaluated for the rows of a loop it is not written in, an end and a key *)
(* are met in the loop they belong to, and no loop runs off the plan       *)
(* (EvalFilter and EvalProjection set Plan.Pos themselves).                *)
(***************************************************************************)
LoopsMatchBrackets ==
  outcome = "running" /\ "skipped" \notin odd =>
    /\ {frames[k].start : k \in DOMAIN frames} = Enclosing
    /\ \A k \in 2..Len(frames) : frames[k - 1].start < frames[k].start
    /\ IF HasNext
         THEN /\ Stmt.op \in {"EFT", "EPJ"} => frames # <<>> /\ Top.start = Opening(at + 1)
              /\ Stmt.op \in {"SPK", "EPK"} => TopOp = "SPJ" /\ Top.start = Stmt.src
         ELSE frames = <<>>

(***************************************************************************)
(* Memory keeps the last value of every statement, those of earlier rows   *)
(* and of finished loops included.  No statement ever reads one of these:  *)
(* what it reads has been computed for the rows that the filters and       *)
(* projections around it are at (Evaluator.Memory, GetPrevStatement,       *)
(* ParseOperator).                                                         *)
(***************************************************************************)
ReadsCurrentRows ==
  outcome = "running" /\ HasNext /\ "skipped" \notin odd => Reads(at + 1) \subseteq current

\* The evaluator is at one row of each loop around its position, and of no other.
LoopsFit ==
  /\ {frames[k].start : k \in DOMAIN frames} = Around(at)
  /\ \A j, k \in DOMAIN frames : j < k => frames[j].start < frames[k].start

FramesTyped ==
  /\ IsSequence(frames)
  /\ \A k \in DOMAIN frames : DOMAIN frames[k] = {"start", "rows", "i", "kept", "obj"}

(***************************************************************************)
(* The invariant of a query on its way, which is inductive: the parser's,  *)
(* and while the plan is walked what LoopsMatchBrackets and                *)
(* ReadsCurrentRows need (Execute, Eval).                                  *)
(***************************************************************************)
QueryInv ==
  /\ PlanInv /\ QueryTypeOK /\ FramesTyped
  /\ outcome = "parsing" => at = 0 /\ mem = <<>> /\ frames = <<>> /\ current = {}
  /\ outcome = "running" =>
       /\ plan.ok /\ plan.calls = <<>>
       /\ "skipped" \notin odd => LoopsFit /\ Readable(at) \subseteq current

(***************************************************************************)
(* Every query ends, with an answer or an error, though filters and        *)
(* projections move the position back for every row (Execute).             *)
(***************************************************************************)
EveryQueryEnds == <>(outcome = "done")
=============================================================================
