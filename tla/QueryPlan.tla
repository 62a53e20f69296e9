----------------------------- MODULE QueryPlan ------------------------------
(***************************************************************************)
(* The query parser (dsl/parser): from the tokens of a query to the list   *)
(* of statements the evaluator walks.  The lexer is text handling: a query *)
(* is a sequence of tokens <<kind, value>> here.                           *)
(*                                                                         *)
(* Statements are named by their positions (NumberToColumn).  A statement  *)
(* has its operation, the statement it takes its data from (src), a second *)
(* one (host: the table a relation is followed from, or the right          *)
(* operand) and what else its operation needs.  A plan's "odd" collects    *)
(* the places where the parser is known not to read what the query says:   *)
(*   "right"       of two operators that bind alike the second one comes   *)
(*                 first, if there is a single operand between them;       *)
(*   "cutShort"    ParseOperator has read one operator of its right side   *)
(*                 and leaves others that bind tighter than its own;       *)
(*   "property"    a name that follows an operator whose left side is a    *)
(*                 column or an aggregate is read as one of its properties;*)
(*   "projection"  the brace that ends a projection is taken for the end   *)
(*                 of its last key alone.                                  *)
(***************************************************************************)
EXTENDS Protocols, QueryValues, SequencesExt

CONSTANTS
  Protos, Password,   \* database.Protocols and the protocol queries are made under
  ColTypes            \* database.FullSchema: [db][table][column] |-> type

Sym(s) == <<s, "">>
End == Sym("end")

NoStatement == [op |-> "", src |-> 0, host |-> 0, x |-> <<>>, name |-> "", type |-> "",
                table |-> <<>>, input |-> "", returns |-> ""]

\* calls: the parser's functions that are under way, those of recursion included.
NewPlan(tokens) == [tokens |-> tokens, pos |-> 1, stmts |-> <<>>, parents |-> <<>>,
                    calls |-> <<>>, ok |-> TRUE, odd |-> {}]

Tok(p) == IF p.pos <= Len(p.tokens) THEN p.tokens[p.pos] ELSE End
Kind(p) == Tok(p)[1]
Text(p) == Tok(p)[2]
Skip(p) == [p EXCEPT !.pos = @ + 1]
Bad(p) == [p EXCEPT !.ok = FALSE]
Odd(p, what, cond) == IF cond THEN [p EXCEPT !.odd = @ \cup {what}] ELSE p

Prev(p) == Len(p.stmts)

\* Mutant: a filter or projection stays open after its end.
AddStatementLeavesOpen(p, s) ==
  [p EXCEPT !.stmts = Append(@, s),
            !.parents = IF s.op \in {"SFT", "SPJ"} THEN Append(@, Prev(p) + 1) ELSE @]

\* The open filters and projections are kept for "parent" and for operands.
AddStatement(p, s) ==
  [p EXCEPT !.stmts = Append(@, s),
            !.parents = CASE s.op \in {"SFT", "SPJ"} -> Append(@, Prev(p) + 1)
                          [] s.op \in {"EFT", "EPJ"} -> Front(@)
                          [] OTHER -> @]

GetOperatorPrecedence(op) ==
  CASE op \in {"*", "/", "%"} -> 4
    [] op \in {"+", "-"} -> 3
    [] op \in {">", "<", ">=", "<=", "!=", "in", "="} -> 2
    [] op \in {"and", "or", "not"} -> 1

-----------------------------------------------------------------------------
(* Statements that access data.                                            *)

\* The table a statement's data comes from, 0 if there is none.
GetAncestorTable(p, s) ==
  LET anc[i \in 0..Prev(p)] ==
        IF i = 0 \/ p.stmts[i].op \in {"AT", "ART"} THEN i ELSE anc[p.stmts[i].src]
  IN  anc[s]

TableOf(p, s) == p.stmts[GetAncestorTable(p, s)].table

ColumnStatement(p, op, table, col, src) ==
  LET name == GetColName(Protos, Password, table[1], table[2], col)
      db == GetDbName(Protos, Password, table[1])
      physical == GetTableName(Protos, Password, table[1], table[2])
  IN  AddStatement(p, [NoStatement EXCEPT !.op = op, !.src = src, !.name = name,
                                          !.type = ColTypes[db][physical][name]])

\* database "." table
ParseAccessTable(p) ==
  LET t == Skip(Skip(p)) IN
  IF ~IsDatabase(Protos, Password, Text(p)) \/ Kind(Skip(p)) # "."
     \/ ~IsTable(Protos, Password, Text(p), Text(t))
    THEN Bad(p)
    ELSE AddStatement(Skip(t), [NoStatement EXCEPT !.op = "AT", !.table = <<Text(p), Text(t)>>])

ParseAccessRelatedTable(p, table, prev) ==
  LET rel == GetRelation(Protos, Password, table[1], table[2], Text(p))
  IN  AddStatement(Skip(p), [NoStatement EXCEPT !.op = "ART", !.host = prev, !.x = rel,
                                                !.table = <<table[1], rel.prototable>>])

ParseTableList(p, table, prev) == ColumnStatement(Skip(p), "ATL", table, Text(p), prev)
ParseRowField(p, table, prev)  == ColumnStatement(Skip(p), "ARF", table, Text(p), prev)

ParseLiteral(p) ==
  AddStatement(Skip(p), [NoStatement EXCEPT !.op = "LIT",
                           !.x = IF Kind(p) = "number" THEN Num(Text(p)) ELSE Str(Text(p))])

ParseRow(p)   == AddStatement(Skip(p), [NoStatement EXCEPT !.op = "ATR", !.src = Prev(p),
                                                           !.x = Text(p)])
ParseSlice(p) == AddStatement(Skip(p), [NoStatement EXCEPT !.op = "SLT", !.src = Prev(p),
                                                           !.x = Text(p)])

\* parent.column: a field of the row the filter or projection around this one is at.
ParseParentKeyword(p) ==
  LET col == Skip(Skip(p))
      outer == p.parents[Len(p.parents) - 1]
  IN  IF Len(p.parents) < 2 \/ Kind(col) # "ident" THEN Bad(p)
      ELSE ColumnStatement(Skip(col), "ATL", TableOf(p, outer), Text(col), outer)

\* A property of JSON data, or of what is not known to be.
ParseJsonProperty(p, prev) ==
  LET s == p.stmts[prev]
      json == s.type = "json" \/ s.op = "AJP"
  IN  AddStatement(Odd(Skip(p), "property", ~json),
        [NoStatement EXCEPT !.op = IF json THEN "AJP" ELSE "UNI", !.src = prev, !.x = Text(p),
                            !.type = IF json THEN "json" ELSE "unknown"])

-----------------------------------------------------------------------------
(* Aggregates.                                                             *)

Returns(list, table, field) == [LIST |-> list, TABLE |-> table, FIELD |-> field]

AggrRegistry ==
  [_sum    |-> Returns("NUMBER", "NUMBER", ""), _count |-> Returns("NUMBER", "NUMBER", ""),
   _avg    |-> Returns("NUMBER", "", ""),       _min   |-> Returns("NUMBER", "", ""),
   _max    |-> Returns("NUMBER", "", ""),       _like  |-> Returns("NUMBER", "NUMBER", "NUMBER"),
   _unique |-> Returns("LIST", "TABLE", ""),    _asc   |-> Returns("LIST", "TABLE", ""),
   _desc   |-> Returns("LIST", "TABLE", "")]

IsAggr(name) == name \in DOMAIN AggrRegistry

InputType(s) ==
  CASE s.op \in {"AT", "ART", "EFT"} -> "TABLE"
    [] s.op \in {"ATL", "AJP"} -> "LIST"       \* JSON data aggregates as a list does
    [] s.op = "ARF" -> "FIELD"
    [] OTHER -> "none"

GetAggrReturnType(name, s) ==
  LET input == IF s.op = "AGR" THEN s.returns ELSE InputType(s)
  IN  IF input \in DOMAIN AggrRegistry[name] THEN AggrRegistry[name][input] ELSE ""

\* The arguments in parentheses, if any.
ArgTokens(p) ==
  IF Kind(p) # "(" THEN <<>>
  ELSE LET close == CHOOSE i \in p.pos..Len(p.tokens) :
                      /\ p.tokens[i][1] = ")"
                      /\ \A j \in p.pos..(i - 1) : p.tokens[j][1] # ")"
       IN  SubSeq(p.tokens, p.pos, close)

ParseAggr(p, prev) ==
  LET s == p.stmts[prev]
      args == ArgTokens(Skip(p))
      given == SelectSeq(args, LAMBDA t : t[1] \in {"ident", "number", "string"})
      returns == GetAggrReturnType(Text(p), s)
  IN  IF returns = "" THEN Bad(p)
      ELSE AddStatement([Skip(p) EXCEPT !.pos = @ + Len(args)],
             [NoStatement EXCEPT !.op = "AGR", !.src = prev, !.input = InputType(s),
                                 !.returns = returns,
                                 !.x = <<Text(p), [i \in DOMAIN given |-> given[i][2]]>>])

-----------------------------------------------------------------------------
(* Identifiers: what one means depends on the statement before it.         *)

Chained == {"AT", "ART", "SFT", "EFT", "SLT", "SPK", "EPK", "ATL", "ATR", "ARF", "AJP",
            "UNI", "AGR"}
OnTables == {"AT", "ART", "SFT", "EFT", "SLT", "SPK", "EPK"}

\* The last statement, or, after an operator or a literal, the open filter.
GetPrevStatement(p) ==
  IF p.stmts[Prev(p)].op \in Chained THEN Prev(p)
  ELSE IF p.parents # <<>> THEN Last(p.parents) ELSE 0

\* Mutant: columns go before relations.
IdentifierOnTableColumnsFirst(p, prev) ==
  LET t == TableOf(p, prev) IN
  CASE IsColumn(Protos, Password, t[1], t[2], Text(p)) -> ParseTableList(p, t, prev)
    [] IsAggr(Text(p)) -> ParseAggr(p, prev)
    [] OTHER -> Bad(p)

IdentifierOnTable(p, prev) ==
  LET t == TableOf(p, prev) IN
  CASE IsRelatedTable(Protos, Password, t[1], t[2], Text(p)) ->
         IF p.stmts[prev].op \in OnTables THEN ParseAccessRelatedTable(p, t, prev) ELSE Bad(p)
    [] IsColumn(Protos, Password, t[1], t[2], Text(p)) -> ParseTableList(p, t, prev)
    [] IsAggr(Text(p)) -> ParseAggr(p, prev)
    [] OTHER -> Bad(p)

IdentifierOnRow(p, prev) ==
  LET t == TableOf(p, prev) IN
  CASE IsColumn(Protos, Password, t[1], t[2], Text(p)) -> ParseRowField(p, t, prev)
    [] IsRelatedTable(Protos, Password, t[1], t[2], Text(p)) -> ParseAccessRelatedTable(p, t, prev)
    [] IsAggr(Text(p)) -> ParseAggr(p, prev)
    [] OTHER -> Bad(p)

\* After a number or a string nothing is read, and an empty statement added.
IdentifierOnValue(p, prev) ==
  LET s == p.stmts[prev] IN
  IF s.op = "AGR" /\ s.returns = "NUMBER" THEN AddStatement(Odd(p, "property", TRUE), NoStatement)
  ELSE IF IsAggr(Text(p)) THEN ParseAggr(p, prev)
  ELSE ParseJsonProperty(p, prev)

ParseIdentifier(p) ==
  IF p.stmts = <<>> \/ IsDatabase(Protos, Password, Text(p)) THEN ParseAccessTable(p)
  ELSE LET prev == GetPrevStatement(p) IN
    IF prev = 0 THEN Bad(p)
    ELSE LET s == p.stmts[prev] IN
      IF Text(p) = "parent" THEN ParseParentKeyword(p)
      ELSE IF s.op = "SPJ" \/ GetAncestorTable(p, prev) = 0 THEN Bad(p)
      ELSE IF s.returns = "TABLE" \/ s.op \in OnTables THEN IdentifierOnTable(p, prev)
      ELSE IF s.op = "ATR" THEN IdentifierOnRow(p, prev)
      ELSE IdentifierOnValue(p, prev)
=============================================================================
