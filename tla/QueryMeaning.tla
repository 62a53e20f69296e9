---------------------------- MODULE QueryMeaning ----------------------------
(***************************************************************************)
(* What a query means, whatever parser and evaluator do: the reference the *)
(* evaluator of module Query is compared with (the repository's README.md, *)
(* "Syntax and Operators", is the source of the language).                 *)
(*                                                                         *)
(* A query is a tree:                                                      *)
(*   <<"table", t>>          the rows of a table                           *)
(*   <<"it">>                the row the filter or projection is at        *)
(*   <<"parent", c>>         a column of the row of the one around it      *)
(*   <<"rel", q, r>>         the rows related to a row, or to any of a     *)
(*                           table's                                       *)
(*   <<"col", q, c>>         a column of a row or of a table's rows        *)
(*   <<"prop", q, k>>        a property of JSON data                       *)
(*   <<"row", q, i>>, <<"slice", q, <<from, to, step>>>>                   *)
(*   <<"filter", q, c>>      the rows for which c holds                    *)
(*   <<"proj", q, keys>>     an object for each row; keys: <<name, q>>     *)
(*   <<"aggr", q, f, args>>, <<"lit", v>>, <<"op", o, l, r>>, <<"not", q>> *)
(*   <<"text", tokens>>      tokens that are no query                      *)
(***************************************************************************)
EXTENDS QueryPlan

CONSTANT Db         \* the name the protocol gives the database

-----------------------------------------------------------------------------
(* The text of a query, as tokens.                                         *)

Precedence(q) ==
  CASE q[1] = "op" -> GetOperatorPrecedence(q[2])
    [] q[1] = "not" -> 1
    [] OTHER -> 5

Ident(name) == <<"ident", name>>

RECURSIVE Render(_)

InParentheses(q, cond) ==
  IF cond THEN <<Sym("(")>> \o Render(q) \o <<Sym(")")>> ELSE Render(q)

\* What follows a query, after a dot unless the query is the row itself.
After(q, name) == Render(q) \o (IF q = <<"it">> THEN <<>> ELSE <<Sym(".")>>) \o <<Ident(name)>>

\* Operators of one precedence group from left to right.
Render(q) ==
  CASE q[1] = "text"   -> q[2]
    [] q[1] = "it"     -> <<>>
    [] q[1] = "table"  -> <<Ident(Db), Sym("."), Ident(q[2])>>
    [] q[1] = "parent" -> <<Ident("parent"), Sym("."), Ident(q[2])>>
    [] q[1] = "lit"    -> <<<<IF Type(q[2]) = "NUMBER" THEN "number" ELSE "string", q[2][2]>>>>
    [] q[1] \in {"rel", "col", "prop"} -> After(q[2], q[3])
    [] q[1] = "aggr"   -> After(q[2], q[3]) \o
                          (IF q[4] = <<>> THEN <<>>
                           ELSE <<Sym("(")>> \o [k \in DOMAIN q[4] |-> <<"string", q[4][k]>>]
                                             \o <<Sym(")")>>)
    [] q[1] \in {"row", "slice"} -> Append(Render(q[2]), <<q[1], q[3]>>)
    [] q[1] = "filter" -> Render(q[2]) \o <<Sym("[")>> \o Render(q[3]) \o <<Sym("]")>>
    [] q[1] = "proj"   ->
         LET key(k) == <<<<"string", q[3][k][1]>>, Sym(":")>> \o Render(q[3][k][2])
                         \o (IF k = Len(q[3]) THEN <<>> ELSE <<Sym(",")>>)
         IN  Render(q[2]) \o <<Sym("{")>> \o FlattenSeq([k \in DOMAIN q[3] |-> key(k)])
                          \o <<Sym("}")>>
    [] q[1] = "op"     -> InParentheses(q[3], Precedence(q[3]) < Precedence(q))
                          \o <<<<"op", q[2]>>>>
                          \o InParentheses(q[4], Precedence(q[4]) < Precedence(q) + (IF q[4][1] = "op" THEN 1 ELSE 0))
    [] q[1] = "not"    -> <<<<"op", "not">>>> \o InParentheses(q[2], Precedence(q[2]) <= 1)

-----------------------------------------------------------------------------
(* Its value, in a database (physical table |-> its rows, in order) and    *)
(* with the rows of the filters and projections around it.                 *)

\* The protocol's names for columns mean one column each, and so do relations.
Entities == {Protos[Password][Db].entities[e] : e \in DOMAIN Protos[Password][Db].entities}
Having(name) == CHOOSE e \in Entities : name \in DOMAIN e.fields
Physical(name) == Having(name).fields[name]
TypeOf(name) == ColTypes[Protos[Password][Db].database][Having(name).table][Physical(name)]
RelationNamed(name) == (CHOOSE e \in Entities : name \in DOMAIN e.relations).relations[name]

Where(rows, col, v) == SelectSeq(rows, LAMBDA r : r[col] = v)

RelatedTo(data, rel, row) ==
  LET joined == Where(data[rel.through], rel.fk[2], row[rel.fk[1]]) IN
  IF rel.type = "mtm"
    THEN FlattenSeq([i \in DOMAIN joined |->
           Where(data[rel.entity], rel.fk[4], joined[i][rel.fk[3]])])
    ELSE Where(data[rel.entity], rel.fk[2], row[rel.fk[1]])

\* Python's slices, for positive steps: -1 is the last element.
Positions(n, x) ==
  LET From(i) == x[1] = Omitted \/ (IF x[1] < 0 THEN i - n >= x[1] ELSE i >= x[1])
      To(i)   == x[2] = Omitted \/ (IF x[2] < 0 THEN i - n < x[2] ELSE i < x[2])
      range   == {i \in 0..(n - 1) : From(i) /\ To(i)}
  IN  {i \in range : (i - Min(range)) % (IF x[3] = Omitted THEN 1 ELSE x[3]) = 0}

Pick(s, positions) ==
  LET nth(k) == CHOOSE i \in positions : Cardinality({j \in positions : j < i}) = k - 1
  IN  [k \in 1..Cardinality(positions) |-> s[nth(k) + 1]]

OfEach(v, name) ==
  CASE Type(v) = "ROW" -> Field(v[2], name)
    [] Type(v) = "TABLE" -> NarrowTypes([i \in DOMAIN v[2] |-> Field(v[2][i], name)])
    [] IsArray(v) /\ v[2] = <<>> -> v
    [] OTHER -> Failed

ColumnMeaning(v, name) ==
  IF v = Table(<<>>) /\ TypeOf(name) \in DOMAIN ListType
    THEN <<ListType[TypeOf(name)], <<>>>>
    ELSE OfEach(v, Physical(name))

RECURSIVE Meaning(_, _, _)

OperandsMeaning(q, l, r) ==
  IF Failed \in {l, r} THEN Failed
  ELSE EvalOperator(q[2], l, r, q[3][1] = "prop", q[4][1] = "prop")

FilterMeaning(q, v, env, data) ==
  LET cond == [i \in DOMAIN v[2] |-> Meaning(q[3], Append(env, v[2][i]), data)]
      kept == {i \in DOMAIN v[2] : cond[i] = Bool(TRUE)}
  IN  IF \E i \in DOMAIN v[2] : Type(cond[i]) # "BOOL" THEN Failed
      ELSE Table(Pick(v[2], {i - 1 : i \in kept}))

ProjectionMeaning(q, v, env, data) ==
  LET names == {q[3][k][1] : k \in DOMAIN q[3]}
      of(name) == q[3][CHOOSE k \in DOMAIN q[3] : q[3][k][1] = name][2]
      obj(row) == [name \in names |-> Meaning(of(name), Append(env, row), data)]
      objs == [i \in DOMAIN v[2] |-> obj(v[2][i])]
  IN  IF \E i \in DOMAIN objs : \E name \in names : Type(objs[i][name]) = "FAILED" THEN Failed
      ELSE Table(objs)

Meaning(q, env, data) ==
  LET v == Meaning(q[2], env, data) IN
  CASE q[1] = "text"   -> Failed
    [] q[1] = "table"  -> Table(data[GetTableName(Protos, Password, Db, q[2])])
    [] q[1] = "it"     -> Row(Last(env))
    [] q[1] = "parent" -> Field(env[Len(env) - 1], Physical(q[2]))
    [] q[1] = "lit"    -> q[2]
    [] q[1] = "op"     -> OperandsMeaning(q, Meaning(q[3], env, data), Meaning(q[4], env, data))
    [] q[1] = "not"    -> EvalLogicalOperator("not", Null, v)
    [] q[1] = "rel"    -> LET rel == RelationNamed(q[3])
                              rows == IF Type(v) = "ROW" THEN <<v[2]>> ELSE v[2]
                          IN  IF Type(v) \notin {"ROW", "TABLE"} THEN Failed
                              ELSE Table(FlattenSeq([i \in DOMAIN rows |->
                                                       RelatedTo(data, rel, rows[i])]))
    [] q[1] = "col"    -> ColumnMeaning(v, q[3])
    [] q[1] = "prop"   -> OfEach(v, q[3])
    [] q[1] = "row"    -> IF ~IsArray(v) \/ q[3] >= Len(v[2]) THEN Failed
                          ELSE Elements(v)[q[3] + 1]
    [] q[1] = "slice"  -> IF ~IsArray(v) THEN Failed
                          ELSE NarrowTypes(Pick(Elements(v), Positions(Len(v[2]), q[3])))
    [] q[1] = "filter" -> IF Type(v) # "TABLE" THEN Failed ELSE FilterMeaning(q, v, env, data)
    [] q[1] = "proj"   -> IF Type(v) # "TABLE" THEN Failed ELSE ProjectionMeaning(q, v, env, data)
    [] q[1] = "aggr"   -> IF v = Failed THEN Failed
                          ELSE EvalAggr(q[3], q[4], v, IF Type(v) = "TABLE" THEN "TABLE" ELSE "LIST")

\* A result as the client gets it: an empty array has no type.
Answer(v) == IF IsArray(v) /\ v[2] = <<>> THEN <<"ARRAY", <<>>>> ELSE v
=============================================================================
