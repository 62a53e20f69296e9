---------------------------- MODULE QueryProofs -----------------------------
(***************************************************************************)
(* Proofs about the query language, for every text a query can have, every *)
(* database and every set of protocols: what the parser makes of it        *)
(* (PlanInv), and what the evaluator knows while it walks the plan         *)
(* (QueryInv).  Tokens may be anything, so that the text need not be one   *)
(* that a tree of QueryMeaning renders.                                    *)
(*                                                                         *)
(* First the sequences; then what each helper of the parser leaves of a    *)
(* plan, what a longer plan keeps, and the steps of the parser; then       *)
(* positions of a finished plan, and the steps of the evaluator, of which  *)
(* each moves the position on, back to the start of a loop, or past one.   *)
(***************************************************************************)
EXTENDS Query, FiniteSetTheorems, SequenceTheorems, TLAPS

-----------------------------------------------------------------------------
(* Sequences, whatever they are of.                                        *)

LEMMA SequenceIs ==
  ASSUME NEW s
  PROVE  IsSequence(s) <=> s \in Seq(Range(s))
  <1>1. ASSUME IsSequence(s) PROVE s \in Seq(Range(s))
    <2>1. Len(s) \in Nat /\ s = [i \in 1..Len(s) |-> s[i]]
      BY <1>1 DEF IsSequence
    <2>2. s \in [1..Len(s) -> Range(s)]
      BY <2>1 DEF Range
    <2> QED BY <2>1, <2>2, SeqDef
  <1>2. ASSUME s \in Seq(Range(s)) PROVE IsSequence(s)
    BY <1>2, LenProperties DEF IsSequence
  <1> QED BY <1>1, <1>2

LEMMA SequenceOf ==
  ASSUME NEW S, NEW s \in Seq(S)
  PROVE  IsSequence(s)
  BY LenProperties DEF IsSequence

LEMMA SequenceFacts ==
  ASSUME NEW s, IsSequence(s)
  PROVE  Len(s) \in Nat /\ DOMAIN s = 1..Len(s) /\ (s = <<>> <=> Len(s) = 0)
  <1>1. Len(s) \in Nat /\ DOMAIN s = 1..Len(s)
    BY SequenceIs, LenProperties
  <1>2. s = <<>> <=> Len(s) = 0
    BY SequenceIs, EmptySeq, <1>1
  <1> QED BY <1>1, <1>2

LEMMA AppendFacts ==
  ASSUME NEW s, IsSequence(s), NEW e
  PROVE  /\ IsSequence(Append(s, e))
         /\ Len(Append(s, e)) = Len(s) + 1
         /\ DOMAIN Append(s, e) = 1..(Len(s) + 1)
         /\ \A i \in 1..Len(s) : Append(s, e)[i] = s[i]
         /\ Append(s, e)[Len(s) + 1] = e
  <1> DEFINE S == Range(s) \cup {e}
  <1>1. s \in Seq(S) /\ e \in S
    BY SequenceIs, SeqMonotonic
  <1> HIDE DEF S
  <1>2. Append(s, e) \in Seq(S)
    BY <1>1, AppendProperties
  <1>3. /\ Len(Append(s, e)) = Len(s) + 1
        /\ \A i \in 1..Len(s) : Append(s, e)[i] = s[i]
        /\ Append(s, e)[Len(s) + 1] = e
    BY <1>1, AppendProperties
  <1>4. DOMAIN Append(s, e) = 1..(Len(s) + 1)
    BY <1>2, <1>3, LenProperties
  <1>5. IsSequence(Append(s, e))
    BY <1>2, SequenceOf
  <1> QED BY <1>3, <1>4, <1>5

LEMMA FrontFacts ==
  ASSUME NEW s, IsSequence(s), s # <<>>
  PROVE  /\ IsSequence(Front(s))
         /\ Len(Front(s)) = Len(s) - 1
         /\ DOMAIN Front(s) = 1..(Len(s) - 1)
         /\ \A i \in 1..(Len(s) - 1) : Front(s)[i] = s[i]
         /\ Last(s) = s[Len(s)]
         /\ Len(s) >= 1
  <1> DEFINE m == Len(s) - 1
  <1>0. s \in Seq(Range(s))
    BY SequenceIs
  <1>1. Len(s) \in Nat \ {0}
    BY <1>0, EmptySeq, LenProperties
  <1>2. m \in Nat /\ \A i \in 1..m : s[i] \in Range(s)
    BY <1>0, <1>1, ElementOfSeq
  <1>3. Front(s) = SubSeq(s, 1, m)
    BY DEF Front
  <1>4. /\ Front(s) \in Seq(Range(s))
        /\ Len(Front(s)) = IF 1 <= m THEN m - 1 + 1 ELSE 0
        /\ \A i \in 1..m - 1 + 1 : Front(s)[i] = s[1 + i - 1]
    BY <1>0, <1>2, <1>3, SubSeqProperties
  <1>5. Len(Front(s)) = m /\ \A i \in 1..m : Front(s)[i] = s[i]
    <2> HIDE DEF m
    <2>1. m - 1 + 1 = m /\ (1 <= m \/ m = 0)
      BY <1>2
    <2>2. Len(Front(s)) = m
      BY <1>4, <2>1
    <2>3. ASSUME NEW i \in 1..m PROVE Front(s)[i] = s[i]
      <3>1. i \in 1..m - 1 + 1 /\ 1 + i - 1 = i
        BY <1>2
      <3> QED BY <1>4, <3>1
    <2> QED BY <2>2, <2>3
  <1>6. DOMAIN Front(s) = 1..m
    BY <1>4, <1>5, LenProperties
  <1>7. IsSequence(Front(s))
    BY <1>4, SequenceOf
  <1> QED BY <1>1, <1>5, <1>6, <1>7 DEF Last

LEMMA EmptyFacts == IsSequence(<<>>) /\ Len(<<>>) = 0 /\ DOMAIN <<>> = {}
  <1>1. IsSequence(<<>>) /\ Len(<<>>) = 0
    BY EmptySeq, SequenceOf
  <1> QED BY <1>1, SequenceFacts

-----------------------------------------------------------------------------
(* What the parser's helpers do to a plan.                                 *)

Fields == {"tokens", "pos", "stmts", "parents", "calls", "ok", "odd"}

\* The plan is as it was, its position and what is odd of it apart.
SamePlan(p, q) ==
  /\ DOMAIN q = Fields
  /\ q.stmts = p.stmts /\ q.parents = p.parents /\ q.calls = p.calls /\ q.ok = p.ok

LEMMA SkipFacts ==
  ASSUME NEW p, DOMAIN p = Fields
  PROVE  SamePlan(p, Skip(p))
  BY DEF Skip, SamePlan, Fields

LEMMA OddFacts ==
  ASSUME NEW p, DOMAIN p = Fields, NEW what, NEW cond
  PROVE  SamePlan(p, Odd(p, what, cond))
  BY DEF Odd, SamePlan, Fields

LEMMA BadFacts ==
  ASSUME NEW p, DOMAIN p = Fields
  PROVE  /\ ~Bad(p).ok /\ DOMAIN Bad(p) = Fields
         /\ Bad(p).stmts = p.stmts /\ Bad(p).parents = p.parents /\ Bad(p).calls = p.calls
  BY DEF Bad, Fields

LEMMA EnteredFacts ==
  ASSUME NEW p, DOMAIN p = Fields, NEW kind, NEW src, NEW x
  PROVE  LET q == Entered(p, kind, src, x)
         IN  /\ DOMAIN q = Fields
             /\ q.stmts = p.stmts /\ q.parents = p.parents /\ q.ok = p.ok
             /\ q.calls = Append(p.calls, [kind |-> kind, src |-> src, x |-> x, last |-> FALSE])
  BY DEF Entered, Fields

LEMMA LeftFacts ==
  ASSUME NEW p, DOMAIN p = Fields
  PROVE  /\ DOMAIN Left(p) = Fields
         /\ Left(p).stmts = p.stmts /\ Left(p).parents = p.parents /\ Left(p).ok = p.ok
         /\ Left(p).calls = Front(p.calls)
  BY DEF Left, Fields

LEMMA AddFacts ==
  ASSUME NEW p, DOMAIN p = Fields, NEW s
  PROVE  LET q == AddStatement(p, s)
         IN  /\ DOMAIN q = Fields
             /\ q.stmts = Append(p.stmts, s) /\ q.calls = p.calls /\ q.ok = p.ok
             /\ s.op \in {"SFT", "SPJ"} => q.parents = Append(p.parents, Len(p.stmts) + 1)
             /\ s.op \in {"EFT", "EPJ"} => q.parents = Front(p.parents)
             /\ s.op \notin {"SFT", "SPJ", "EFT", "EPJ"} => q.parents = p.parents
  BY DEF AddStatement, Fields, Prev

\* A statement that is no bracket has been added to the plan.
Adds(p, q, s) ==
  /\ DOMAIN q = Fields
  /\ q.stmts = Append(p.stmts, s)
  /\ q.parents = p.parents /\ q.calls = p.calls /\ q.ok = p.ok

Brackets4 == {"SFT", "SPJ", "EFT", "EPJ"}

LEMMA AddPlainFacts ==
  ASSUME NEW p, NEW q, DOMAIN p = Fields, SamePlan(p, q), NEW s, s.op \notin Brackets4
  PROVE  Adds(p, AddStatement(q, s), s)
  <1>1. DOMAIN q = Fields
    BY DEF SamePlan
  <1>2. /\ DOMAIN AddStatement(q, s) = Fields
        /\ AddStatement(q, s).stmts = Append(q.stmts, s)
        /\ AddStatement(q, s).calls = q.calls /\ AddStatement(q, s).ok = q.ok
        /\ AddStatement(q, s).parents = q.parents
    BY <1>1, AddFacts DEF Brackets4
  <1>3. q.stmts = p.stmts /\ q.calls = p.calls /\ q.ok = p.ok /\ q.parents = p.parents
    BY DEF SamePlan
  <1> QED BY <1>2, <1>3 DEF Adds

-----------------------------------------------------------------------------
(* What a token that is a name is read as.                                 *)

\* s is a statement that reads the statements of srcs and no others.
Accesses(s, srcs) ==
  /\ s.op \in {"AT", "ART", "ATL", "ARF", "ATR", "SLT", "LIT", "AJP", "UNI", "AGR", ""}
  /\ s.src \in srcs \cup {0}
  /\ s.host \in srcs \cup {0}

\* q is p after an error, or with such a statement.
ReadsOnly(p, q, srcs) == q = Bad(p) \/ \E s : Accesses(s, srcs) /\ Adds(p, q, s)

LEMMA AddAccess ==
  ASSUME NEW p, NEW q, DOMAIN p = Fields, SamePlan(p, q), NEW srcs, NEW s, Accesses(s, srcs)
  PROVE  ReadsOnly(p, AddStatement(q, s), srcs)
  <1>1. s.op \notin Brackets4
    BY DEF Accesses, Brackets4
  <1>2. Adds(p, AddStatement(q, s), s)
    BY <1>1, AddPlainFacts
  <1> QED BY <1>2 DEF ReadsOnly

LEMMA BadReads ==
  ASSUME NEW p, DOMAIN p = Fields, NEW srcs
  PROVE  ReadsOnly(p, Bad(p), srcs)
  BY DEF ReadsOnly

LEMMA SkipTwice ==
  ASSUME NEW p, DOMAIN p = Fields
  PROVE  SamePlan(p, Skip(p)) /\ SamePlan(p, Skip(Skip(p))) /\ SamePlan(p, Skip(Skip(Skip(p))))
  <1>1. SamePlan(p, Skip(p)) /\ DOMAIN Skip(p) = Fields
    BY SkipFacts DEF SamePlan
  <1>2. SamePlan(Skip(p), Skip(Skip(p))) /\ DOMAIN Skip(Skip(p)) = Fields
    BY <1>1, SkipFacts DEF SamePlan
  <1>3. SamePlan(Skip(Skip(p)), Skip(Skip(Skip(p))))
    BY <1>2, SkipFacts
  <1> QED BY <1>1, <1>2, <1>3 DEF SamePlan

LEMMA ColumnReads ==
  ASSUME NEW p, NEW q, DOMAIN p = Fields, SamePlan(p, q),
         NEW op \in {"ATL", "ARF"}, NEW table, NEW col, NEW src
  PROVE  ReadsOnly(p, ColumnStatement(q, op, table, col, src), {src})
  <1> DEFINE name == GetColName(Protos, Password, table[1], table[2], col)
             db == GetDbName(Protos, Password, table[1])
             physical == GetTableName(Protos, Password, table[1], table[2])
             type == ColTypes[db][physical][name]
             s == [NoStatement EXCEPT !.op = op, !.src = src, !.name = name, !.type = type]
  <1>1. ColumnStatement(q, op, table, col, src) = AddStatement(q, s)
    BY DEF ColumnStatement
  <1> HIDE DEF name, db, physical, type
  <1>2. Accesses(s, {src})
    BY DEF Accesses, NoStatement
  <1> QED BY <1>1, <1>2, AddAccess

LEMMA LiteralReads ==
  ASSUME NEW p, DOMAIN p = Fields
  PROVE  ReadsOnly(p, ParseLiteral(p), {})
  <1> DEFINE x == IF Kind(p) = "number" THEN Num(Text(p)) ELSE Str(Text(p))
             s == [NoStatement EXCEPT !.op = "LIT", !.x = x]
  <1>1. ParseLiteral(p) = AddStatement(Skip(p), s)
    BY DEF ParseLiteral
  <1> HIDE DEF x
  <1>2. Accesses(s, {})
    BY DEF Accesses, NoStatement
  <1> QED BY <1>1, <1>2, AddAccess, SkipFacts

LEMMA RowReads ==
  ASSUME NEW p, DOMAIN p = Fields
  PROVE  /\ ReadsOnly(p, ParseRow(p), {Prev(p)})
         /\ ReadsOnly(p, ParseSlice(p), {Prev(p)})
  <1> DEFINE text == Text(p)
             prev == Prev(p)
             r == [NoStatement EXCEPT !.op = "ATR", !.src = prev, !.x = text]
             s == [NoStatement EXCEPT !.op = "SLT", !.src = prev, !.x = text]
  <1>1. ParseRow(p) = AddStatement(Skip(p), r) /\ ParseSlice(p) = AddStatement(Skip(p), s)
    BY DEF ParseRow, ParseSlice
  <1> HIDE DEF text, prev
  <1>2. Accesses(r, {prev}) /\ Accesses(s, {prev})
    BY DEF Accesses, NoStatement
  <1>3. ReadsOnly(p, AddStatement(Skip(p), r), {prev}) /\ ReadsOnly(p, AddStatement(Skip(p), s), {prev})
    BY <1>2, AddAccess, SkipFacts
  <1> QED BY <1>1, <1>3 DEF prev

LEMMA ReadsMore ==
  ASSUME NEW p, NEW q, NEW S, NEW T, S \subseteq T, ReadsOnly(p, q, S)
  PROVE  ReadsOnly(p, q, T)
  BY DEF ReadsOnly, Accesses

LEMMA TableReads ==
  ASSUME NEW p, DOMAIN p = Fields
  PROVE  ReadsOnly(p, ParseAccessTable(p), {})
  <1> DEFINE t == Skip(Skip(p))
             table == <<Text(p), Text(t)>>
             s == [NoStatement EXCEPT !.op = "AT", !.table = table]
  <1>1. ParseAccessTable(p) = Bad(p) \/ ParseAccessTable(p) = AddStatement(Skip(t), s)
    BY Zenon DEF ParseAccessTable
  <1> HIDE DEF table
  <1>2. Accesses(s, {})
    BY DEF Accesses, NoStatement
  <1>3. SamePlan(p, Skip(t))
    BY SkipTwice
  <1>4. ReadsOnly(p, AddStatement(Skip(t), s), {})
    BY <1>2, <1>3, AddAccess
  <1>5. ReadsOnly(p, Bad(p), {})
    BY BadReads
  <1> QED BY <1>1, <1>4, <1>5

LEMMA RelatedTableReads ==
  ASSUME NEW p, DOMAIN p = Fields, NEW table, NEW prev
  PROVE  ReadsOnly(p, ParseAccessRelatedTable(p, table, prev), {prev})
  <1> DEFINE rel == GetRelation(Protos, Password, table[1], table[2], Text(p))
             of == <<table[1], rel.prototable>>
             s == [NoStatement EXCEPT !.op = "ART", !.host = prev, !.x = rel, !.table = of]
  <1>1. ParseAccessRelatedTable(p, table, prev) = AddStatement(Skip(p), s)
    BY DEF ParseAccessRelatedTable
  <1> HIDE DEF rel, of
  <1>2. Accesses(s, {prev})
    BY DEF Accesses, NoStatement
  <1> QED BY <1>1, <1>2, AddAccess, SkipFacts

LEMMA ListReads ==
  ASSUME NEW p, DOMAIN p = Fields, NEW table, NEW prev
  PROVE  /\ ReadsOnly(p, ParseTableList(p, table, prev), {prev})
         /\ ReadsOnly(p, ParseRowField(p, table, prev), {prev})
  <1>1. SamePlan(p, Skip(p))
    BY SkipFacts
  <1>2. /\ ReadsOnly(p, ColumnStatement(Skip(p), "ATL", table, Text(p), prev), {prev})
        /\ ReadsOnly(p, ColumnStatement(Skip(p), "ARF", table, Text(p), prev), {prev})
    BY <1>1, ColumnReads
  <1> QED BY <1>2 DEF ParseTableList, ParseRowField

LEMMA JsonReads ==
  ASSUME NEW p, DOMAIN p = Fields, NEW prev
  PROVE  ReadsOnly(p, ParseJsonProperty(p, prev), {prev})
  <1> DEFINE json == p.stmts[prev].type = "json" \/ p.stmts[prev].op = "AJP"
             text == Text(p)
             q == Odd(Skip(p), "property", ~json)
             s == [NoStatement EXCEPT !.op = IF json THEN "AJP" ELSE "UNI", !.src = prev, !.x = text,
                                      !.type = IF json THEN "json" ELSE "unknown"]
  <1>1. ParseJsonProperty(p, prev) = AddStatement(q, s)
    BY DEF ParseJsonProperty
  <1> HIDE DEF json, text
  <1>2. Accesses(s, {prev})
    BY DEF Accesses, NoStatement
  <1>3. SamePlan(p, Skip(p)) /\ DOMAIN Skip(p) = Fields
    BY SkipFacts DEF SamePlan
  <1>4. SamePlan(Skip(p), q)
    BY <1>3, OddFacts
  <1>5. SamePlan(p, q)
    BY <1>3, <1>4 DEF SamePlan
  <1> QED BY <1>1, <1>2, <1>5, AddAccess

LEMMA AggrReads ==
  ASSUME NEW p, DOMAIN p = Fields, NEW prev
  PROVE  ReadsOnly(p, ParseAggr(p, prev), {prev})
  <1> DEFINE args == ArgTokens(Skip(p))
             given == SelectSeq(args, LAMBDA t : t[1] \in {"ident", "number", "string"})
             returns == GetAggrReturnType(Text(p), p.stmts[prev])
             input == InputType(p.stmts[prev])
             x == <<Text(p), [i \in DOMAIN given |-> given[i][2]]>>
             q == [Skip(p) EXCEPT !.pos = @ + Len(args)]
             s == [NoStatement EXCEPT !.op = "AGR", !.src = prev, !.input = input,
                                      !.returns = returns, !.x = x]
  <1>1. ParseAggr(p, prev) = Bad(p) \/ ParseAggr(p, prev) = AddStatement(q, s)
    BY Zenon DEF ParseAggr
  <1>2. SamePlan(p, Skip(p)) /\ DOMAIN Skip(p) = Fields
    BY SkipFacts DEF SamePlan
  <1> HIDE DEF args, x, returns, input
  <1>3. SamePlan(p, q)
    BY <1>2 DEF SamePlan, Fields
  <1>4. Accesses(s, {prev})
    BY DEF Accesses, NoStatement
  <1>5. ReadsOnly(p, AddStatement(q, s), {prev})
    BY <1>3, <1>4, AddAccess
  <1> QED BY <1>1, <1>5, BadReads

LEMMA ParentReads ==
  ASSUME NEW p, DOMAIN p = Fields, IsSequence(p.parents)
  PROVE  ReadsOnly(p, ParseParentKeyword(p), Range(p.parents))
  <1> DEFINE col == Skip(Skip(p))
             outer == p.parents[Len(p.parents) - 1]
             q == ColumnStatement(Skip(col), "ATL", TableOf(p, outer), Text(col), outer)
  <1>1. CASE Len(p.parents) < 2 \/ Kind(col) # "ident"
    <2>1. ParseParentKeyword(p) = Bad(p)
      BY <1>1 DEF ParseParentKeyword
    <2> QED BY <2>1, BadReads
  <1>2. CASE ~(Len(p.parents) < 2 \/ Kind(col) # "ident")
    <2>1. ParseParentKeyword(p) = q
      BY <1>2 DEF ParseParentKeyword
    <2>2. ReadsOnly(p, q, {outer})
      BY SkipTwice, ColumnReads
    <2>3. Len(p.parents) \in Nat /\ DOMAIN p.parents = 1..Len(p.parents)
      BY SequenceFacts
    <2>4. Len(p.parents) - 1 \in DOMAIN p.parents
      BY <1>2, <2>3
    <2>5. {outer} \subseteq Range(p.parents)
      BY <2>4 DEF Range
    <2> QED BY <2>1, <2>2, <2>5, ReadsMore
  <1> QED BY <1>1, <1>2

LEMMA OnTableReads ==
  ASSUME NEW p, DOMAIN p = Fields, NEW prev
  PROVE  /\ ReadsOnly(p, IdentifierOnTable(p, prev), {prev})
         /\ ReadsOnly(p, IdentifierOnRow(p, prev), {prev})
  <1> DEFINE t == TableOf(p, prev)
  <1>1. /\ ReadsOnly(p, ParseAccessRelatedTable(p, t, prev), {prev})
        /\ ReadsOnly(p, ParseTableList(p, t, prev), {prev})
        /\ ReadsOnly(p, ParseRowField(p, t, prev), {prev})
        /\ ReadsOnly(p, ParseAggr(p, prev), {prev})
        /\ ReadsOnly(p, Bad(p), {prev})
    BY RelatedTableReads, ListReads, AggrReads, BadReads
  <1>2. IdentifierOnTable(p, prev) \in {ParseAccessRelatedTable(p, t, prev),
          ParseTableList(p, t, prev), ParseAggr(p, prev), Bad(p)}
    BY DEF IdentifierOnTable
  <1>3. IdentifierOnRow(p, prev) \in {ParseAccessRelatedTable(p, t, prev),
          ParseRowField(p, t, prev), ParseAggr(p, prev), Bad(p)}
    BY DEF IdentifierOnRow
  <1> QED BY <1>1, <1>2, <1>3

LEMMA OnValueReads ==
  ASSUME NEW p, DOMAIN p = Fields, NEW prev
  PROVE  ReadsOnly(p, IdentifierOnValue(p, prev), {prev})
  <1> DEFINE q == Odd(p, "property", TRUE)
  <1>1. SamePlan(p, q)
    BY OddFacts
  <1>2. Accesses(NoStatement, {prev})
    BY DEF Accesses, NoStatement
  <1>3. ReadsOnly(p, AddStatement(q, NoStatement), {prev})
    BY <1>1, <1>2, AddAccess
  <1>4. IdentifierOnValue(p, prev) \in {AddStatement(q, NoStatement), ParseAggr(p, prev),
                                        ParseJsonProperty(p, prev)}
    BY DEF IdentifierOnValue
  <1> QED BY <1>3, <1>4, AggrReads, JsonReads

\* What a name may be read after: the last statement, or an open filter or projection.
Near(p) == {r \in {Prev(p)} : p.stmts # <<>> /\ p.stmts[r].op \in Chained} \cup Range(p.parents)

LEMMA IdentifierReads ==
  ASSUME NEW p, DOMAIN p = Fields,
         IsSequence(p.stmts), IsSequence(p.parents)
  PROVE  ReadsOnly(p, ParseIdentifier(p), Near(p))
  <1> DEFINE prev == GetPrevStatement(p)
  <1>1. CASE p.stmts = <<>> \/ IsDatabase(Protos, Password, Text(p))
    <2>1. ParseIdentifier(p) = ParseAccessTable(p)
      BY <1>1 DEF ParseIdentifier
    <2> QED BY <2>1, TableReads, ReadsMore
  <1>2. CASE p.stmts # <<>> /\ prev # 0 /\ ParseIdentifier(p) # ParseAccessTable(p)
    <2>1. prev \in Near(p)
      <3>1. CASE p.stmts[Prev(p)].op \in Chained
        BY <3>1, <1>2 DEF GetPrevStatement, Near
      <3>2. CASE p.stmts[Prev(p)].op \notin Chained
        <4>1. p.parents # <<>> /\ prev = Last(p.parents)
          BY <1>2, <3>2 DEF GetPrevStatement
        <4>2. Len(p.parents) \in DOMAIN p.parents /\ prev = p.parents[Len(p.parents)]
          BY <4>1, FrontFacts, SequenceFacts
        <4> QED BY <4>2 DEF Near, Range
      <3> QED BY <3>1, <3>2
    <2>2. ParseIdentifier(p) \in {ParseParentKeyword(p), Bad(p), IdentifierOnTable(p, prev),
                                  IdentifierOnRow(p, prev), IdentifierOnValue(p, prev)}
      BY <1>2 DEF ParseIdentifier
    <2>3. /\ ReadsOnly(p, IdentifierOnTable(p, prev), Near(p))
          /\ ReadsOnly(p, IdentifierOnRow(p, prev), Near(p))
          /\ ReadsOnly(p, IdentifierOnValue(p, prev), Near(p))
      BY <2>1, OnTableReads, OnValueReads, ReadsMore
    <2>4. ReadsOnly(p, ParseParentKeyword(p), Near(p))
      BY ParentReads, ReadsMore DEF Near
    <2> QED BY <2>2, <2>3, <2>4, BadReads
  <1>3. CASE p.stmts # <<>> /\ prev = 0 /\ ParseIdentifier(p) # ParseAccessTable(p)
    <2>1. ParseIdentifier(p) = Bad(p)
      BY <1>3 DEF ParseIdentifier
    <2> QED BY <2>1, BadReads
  <1>4. CASE ParseIdentifier(p) = ParseAccessTable(p)
    BY <1>4, TableReads, ReadsMore
  <1> QED BY <1>1, <1>2, <1>3, <1>4

-----------------------------------------------------------------------------
(* A plan that grows by a statement: what was there stays what it was.     *)

LEMMA PastFacts ==
  ASSUME NEW t, NEW r
  PROVE  /\ r \in Past(t) <=> \E e \in Ends : e <= t /\ r \in Opening(e)..(e - 1)
         /\ r \in Past(t)' <=> \E e \in Ends' : e <= t /\ r \in Opening(e)'..(e - 1)
  BY DEF Past

LEMMA AroundFacts ==
  ASSUME NEW t, NEW r
  PROVE  /\ r \in Around(t) <=> /\ r \in Starts /\ r <= t
                                /\ \A e \in Ends : Opening(e) = r => t < e
         /\ r \in Around(t)' <=> /\ r \in Starts' /\ r <= t
                                 /\ \A e \in Ends' : Opening(e)' = r => t < e
  BY DEF Around

LEMMA TypedFacts ==
  ASSUME PlanTyped
  PROVE  /\ Prev(plan) \in Nat /\ DOMAIN plan.stmts = 1..Prev(plan)
         /\ Len(plan.parents) \in Nat /\ DOMAIN plan.parents = 1..Len(plan.parents)
         /\ Len(plan.calls) \in Nat /\ DOMAIN plan.calls = 1..Len(plan.calls)
         /\ Starts \subseteq 1..Prev(plan) /\ Ends \subseteq 1..Prev(plan)
         /\ \A e \in Ends : Opening(e) \in Nat \ {0}
         /\ plan.calls = <<>> <=> Len(plan.calls) = 0
         /\ plan.parents = <<>> <=> Len(plan.parents) = 0
         /\ DOMAIN plan = Fields
  <1>1. /\ IsSequence(plan.stmts) /\ IsSequence(plan.parents)
        /\ IsSequence(plan.calls) /\ DOMAIN plan = Fields
    BY DEF PlanTyped, Fields
  <1>2. /\ Prev(plan) \in Nat /\ DOMAIN plan.stmts = 1..Prev(plan)
        /\ Len(plan.parents) \in Nat /\ DOMAIN plan.parents = 1..Len(plan.parents)
        /\ Len(plan.calls) \in Nat /\ DOMAIN plan.calls = 1..Len(plan.calls)
        /\ plan.calls = <<>> <=> Len(plan.calls) = 0
        /\ plan.parents = <<>> <=> Len(plan.parents) = 0
    BY <1>1, SequenceFacts DEF Prev
  <1>3. Starts \subseteq 1..Prev(plan) /\ Ends \subseteq 1..Prev(plan)
    BY <1>2 DEF Starts, Ends
  <1>4. \A e \in Ends : Opening(e) \in Nat \ {0}
    BY <1>2, <1>3 DEF PlanTyped, Opening
  <1> QED BY <1>1, <1>2, <1>3, <1>4

Adding(s) == plan.stmts' = Append(plan.stmts, s)

LEMMA Grown ==
  ASSUME PlanTyped, NEW s, Adding(s), NEW n, n = Prev(plan)
  PROVE  /\ Prev(plan)' = n + 1
         /\ DOMAIN plan.stmts' = 1..(n + 1)
         /\ plan.stmts'[n + 1] = s /\ OpOf(n + 1)' = s.op
         /\ Opening(n + 1)' = s.src + 1
         /\ \A t \in 1..n : /\ plan.stmts'[t] = plan.stmts[t]
                                     /\ OpOf(t)' = OpOf(t) /\ Opening(t)' = Opening(t)
                                     /\ Reads(t)' = Reads(t)
         /\ Starts' = IF s.op \in {"SFT", "SPJ"} THEN Starts \cup {n + 1} ELSE Starts
         /\ Ends' = IF s.op \in {"EFT", "EPJ"} THEN Ends \cup {n + 1} ELSE Ends
         /\ \A t \in 0..n : Past(t)' = Past(t) /\ Readable(t)' = Readable(t)
  <1>1. n \in Nat /\ DOMAIN plan.stmts = 1..n /\ Starts \subseteq 1..n /\ Ends \subseteq 1..n
    BY TypedFacts
  <1>2. /\ Prev(plan)' = n + 1 /\ DOMAIN plan.stmts' = 1..(n + 1)
        /\ plan.stmts'[n + 1] = s /\ \A t \in 1..n : plan.stmts'[t] = plan.stmts[t]
    BY AppendFacts DEF PlanTyped, Adding, Prev
  <1>3. OpOf(n + 1)' = s.op /\ \A t \in 1..n : OpOf(t)' = OpOf(t)
    BY <1>2 DEF OpOf
  <1>4. Opening(n + 1)' = s.src + 1 /\ \A t \in 1..n : Opening(t)' = Opening(t)
    BY <1>2 DEF Opening
  <1>5. \A t \in 1..n : Reads(t)' = Reads(t)
    BY <1>2 DEF Reads, OpOf
  <1>6. Starts' = IF s.op \in {"SFT", "SPJ"} THEN Starts \cup {n + 1} ELSE Starts
    <2>1. \A t : t \in Starts' <=> t \in 1..(n + 1) /\ OpOf(t)' \in {"SFT", "SPJ"}
      BY <1>2 DEF Starts
    <2>2. \A t : t \in Starts <=> t \in 1..n /\ OpOf(t) \in {"SFT", "SPJ"}
      BY <1>1 DEF Starts
    <2>3. \A t : t \in 1..(n + 1) <=> t \in 1..n \/ t = n + 1
      BY <1>1
    <2> QED BY <1>3, <2>1, <2>2, <2>3
  <1>7. Ends' = IF s.op \in {"EFT", "EPJ"} THEN Ends \cup {n + 1} ELSE Ends
    <2>1. \A t : t \in Ends' <=> t \in 1..(n + 1) /\ OpOf(t)' \in {"EFT", "EPJ"}
      BY <1>2 DEF Ends
    <2>2. \A t : t \in Ends <=> t \in 1..n /\ OpOf(t) \in {"EFT", "EPJ"}
      BY <1>1 DEF Ends
    <2>3. \A t : t \in 1..(n + 1) <=> t \in 1..n \/ t = n + 1
      BY <1>1
    <2> QED BY <1>3, <2>1, <2>2, <2>3
  <1>8. ASSUME NEW t \in 0..n PROVE Past(t)' = Past(t) /\ Readable(t)' = Readable(t)
    <2>1. ASSUME NEW r PROVE r \in Past(t)' <=> r \in Past(t)
      <3>1. \A e : e \in Ends' /\ e <= t <=> e \in Ends /\ e <= t
        BY <1>1, <1>7
      <3>2. \A e \in Ends : Opening(e)' = Opening(e)
        BY <1>1, <1>4
      <3> QED BY <3>1, <3>2, PastFacts
    <2>2. Past(t)' = Past(t)
      BY <2>1
    <2>3. \A r \in 1..t : OpOf(r)' = OpOf(r)
      BY <1>1, <1>3
    <2> QED BY <2>2, <2>3 DEF Readable
  <1> QED BY <1>2, <1>3, <1>4, <1>5, <1>6, <1>7, <1>8

LEMMA AroundGrown ==
  ASSUME PlanTyped, NEW s, Adding(s), NEW n, n = Prev(plan), NEW t \in 0..n
  PROVE  Around(t)' = Around(t)
  <1>1. n \in Nat /\ Starts \subseteq 1..n /\ Ends \subseteq 1..n
    BY TypedFacts
  <1>2. /\ Starts' \subseteq Starts \cup {n + 1} /\ Starts \subseteq Starts'
        /\ Ends' \subseteq Ends \cup {n + 1} /\ Ends \subseteq Ends'
        /\ \A e \in Ends : Opening(e)' = Opening(e)
    BY <1>1, Grown
  <1>3. t < n + 1 /\ ~(n + 1 <= t)
    BY <1>1
  <1>4. ASSUME NEW r PROVE r \in Around(t)' <=> r \in Around(t)
    <2>1. r \in Starts' /\ r <= t <=> r \in Starts /\ r <= t
      BY <1>2, <1>3
    <2>2. (\A e \in Ends' : Opening(e)' = r => t < e) <=> \A e \in Ends : Opening(e) = r => t < e
      BY <1>2, <1>3
    <2> QED BY <2>1, <2>2, AroundFacts
  <1> QED BY <1>4

LEMMA Unchanged ==
  ASSUME plan.stmts' = plan.stmts
  PROVE  /\ Prev(plan)' = Prev(plan) /\ DOMAIN plan.stmts' = DOMAIN plan.stmts
         /\ \A t : OpOf(t)' = OpOf(t) /\ Opening(t)' = Opening(t) /\ Reads(t)' = Reads(t)
         /\ Starts' = Starts /\ Ends' = Ends
         /\ \A t : Past(t)' = Past(t) /\ Readable(t)' = Readable(t) /\ Around(t)' = Around(t)
  <1>1. /\ Prev(plan)' = Prev(plan) /\ DOMAIN plan.stmts' = DOMAIN plan.stmts
        /\ \A t : OpOf(t)' = OpOf(t) /\ Opening(t)' = Opening(t) /\ Reads(t)' = Reads(t)
    BY DEF Prev, OpOf, Opening, Reads
  <1>2. Starts' = Starts /\ Ends' = Ends
    BY <1>1 DEF Starts, Ends
  <1>3. ASSUME NEW t PROVE Past(t)' = Past(t) /\ Readable(t)' = Readable(t)
    <2>1. \A r : r \in Past(t)' <=> r \in Past(t)
      BY <1>1, <1>2, PastFacts
    <2>2. Past(t)' = Past(t)
      BY <2>1
    <2> QED BY <1>1, <2>2 DEF Readable
  <1>4. ASSUME NEW t PROVE Around(t)' = Around(t)
    <2>1. \A r : r \in Around(t)' <=> r \in Around(t)
      BY <1>1, <1>2, AroundFacts
    <2> QED BY <2>1
  <1> QED BY <1>1, <1>2, <1>3, <1>4

\* What may be read after one more statement.
LEMMA ReadableGrown ==
  ASSUME PlanTyped, NEW s, Adding(s), NEW n, n = Prev(plan)
  PROVE  /\ s.op \notin {"EFT", "EPJ"} => Readable(n) \subseteq Readable(n + 1)'
         /\ s.op \in {"EFT", "EPJ"} =>
              \A r \in Readable(n) : r \notin (s.src + 1)..n => r \in Readable(n + 1)'
  <1>1. n \in Nat /\ Ends \subseteq 1..n
    BY TypedFacts
  <1>2. SUFFICES ASSUME NEW r \in Readable(n),
                        s.op \in {"EFT", "EPJ"} => r \notin (s.src + 1)..n
                 PROVE  r \in Readable(n + 1)'
    OBVIOUS
  <1>3. r \in 1..n /\ r \notin Past(n) /\ OpOf(r) # "EPK"
    BY DEF Readable
  <1>4. r \in 1..(n + 1) /\ OpOf(r)' # "EPK"
    BY <1>1, <1>3, Grown
  <1>5. ASSUME NEW e \in Ends', e <= n + 1, r \in Opening(e)'..(e - 1) PROVE FALSE
    <2>1. CASE e \in Ends
      <3>0. e \in 1..n /\ e <= n
        BY <1>1, <2>1
      <3>1. e <= n /\ Opening(e)' = Opening(e)
        BY <3>0, Grown
      <3>2. e <= n /\ r \in Opening(e)..(e - 1)
        BY <1>5, <3>1
      <3> QED BY <1>3, <2>1, <3>2, PastFacts
    <2>2. CASE e \notin Ends
      <3>1. s.op \in {"EFT", "EPJ"} /\ e = n + 1
        BY <2>2, Grown
      <3>2. Opening(n + 1)' = s.src + 1
        BY Grown
      <3>3. Opening(e)' = s.src + 1
        BY <3>1, <3>2
      <3>4. r \in (s.src + 1)..n
        BY <1>1, <1>5, <3>1, <3>3
      <3> QED BY <1>2, <3>1, <3>4
    <2> QED BY <2>1, <2>2
  <1>6. r \notin Past(n + 1)'
    BY <1>5, PastFacts
  <1> QED BY <1>4, <1>6 DEF Readable

-----------------------------------------------------------------------------
(* The statements and the open filters and projections.                    *)

Increasing == \A i, j \in DOMAIN plan.parents : i < j => plan.parents[i] < plan.parents[j]

BodyInv == BracketsNest /\ ReadsInScope /\ KeysFit /\ Open \subseteq Starts /\ Increasing

LEMMA SameBody ==
  ASSUME BodyInv, plan.stmts' = plan.stmts, plan.parents' = plan.parents
  PROVE  BodyInv'
  <1>1. Open' = Open /\ Increasing'
    BY DEF Open, Increasing, BodyInv
  <1>2. BracketsNest'
    BY <1>1, Unchanged DEF BodyInv, BracketsNest
  <1>3. ReadsInScope'
    BY Unchanged DEF BodyInv, ReadsInScope
  <1>4. Open' \subseteq Starts'
    BY <1>1, Unchanged DEF BodyInv
  <1>5. KeysFit'
    <2>1. \A t : Around(t)' = Around(t) /\ OpOf(t)' = OpOf(t)
      BY Unchanged
    <2> QED BY <2>1 DEF BodyInv, KeysFit
  <1> QED BY <1>1, <1>2, <1>3, <1>4, <1>5 DEF BodyInv

\* p is the innermost of what is open, and a projection.
InLast(p) == p \in Open /\ OpOf(p) = "SPJ" /\ \A o \in Open : o <= p

\* A new key belongs to the innermost loop, and the others to theirs.
LEMMA KeysGrown ==
  ASSUME PlanTyped, BodyInv, NEW s, Adding(s), NEW n, n = Prev(plan),
         s.op \in {"SPK", "EPK"} => InLast(s.src)
  PROVE  KeysFit'
  <1>1. /\ n \in Nat /\ DOMAIN plan.stmts = 1..n /\ DOMAIN plan.stmts' = 1..(n + 1)
        /\ Starts \subseteq 1..n /\ Ends \subseteq 1..n
    BY TypedFacts, Grown
  <1>2. ASSUME NEW t \in 1..(n + 1), OpOf(t)' \in {"SPK", "EPK"},
               NEW p, p = plan.stmts'[t].src
        PROVE  p \in Around(t)' /\ OpOf(p)' = "SPJ" /\ \A r \in Around(t)' : r <= p
    <2>1. CASE t \in 1..n
      <3>1. OpOf(t) \in {"SPK", "EPK"} /\ p = plan.stmts[t].src /\ Around(t)' = Around(t)
        <4>1. t \in 0..n
          BY <1>1, <2>1
        <4> QED BY <1>1, <1>2, <2>1, <4>1, Grown, AroundGrown
      <3>2. p \in Around(t) /\ OpOf(p) = "SPJ" /\ \A r \in Around(t) : r <= p
        BY <1>1, <2>1, <3>1 DEF BodyInv, KeysFit
      <3>3. OpOf(p)' = OpOf(p)
        BY <1>1, <3>2, Grown, AroundFacts
      <3> QED BY <3>1, <3>2, <3>3
    <2>2. CASE t = n + 1
      <3>1. p = s.src /\ s.op \in {"SPK", "EPK"}
        BY <1>2, <2>2, Grown
      <3>2. Starts' = Starts /\ Ends' = Ends /\ \A e \in Ends : Opening(e)' = Opening(e)
        BY <1>1, <3>1, Grown
      <3>3. InLast(p)
        BY <3>1
      <3>4. ASSUME NEW r PROVE r \in Around(t)' <=> r \in Open
        <4>1. r \in Around(t)' <=> r \in Starts /\ r <= n + 1 /\ \A e \in Ends : Opening(e) = r => n + 1 < e
          BY <2>2, <3>2, AroundFacts
        <4>2. /\ r \in Starts => r <= n + 1
              /\ \A e \in Ends : ~(n + 1 < e)
          <5>1. \A e \in 1..n : e <= n + 1 /\ ~(n + 1 < e)
            BY <1>1
          <5> QED BY <1>1, <5>1
        <4>3. /\ r \in Open => r \in Starts /\ \A e \in Ends : Opening(e) # r
              /\ r \in Starts \ Open => \E e \in Ends : Opening(e) = r
          BY DEF BodyInv, BracketsNest
        <4> QED BY <4>1, <4>2, <4>3
      <3>5. OpOf(p)' = OpOf(p)
        BY <1>1, <3>3, Grown DEF InLast, BodyInv
      <3> QED BY <3>3, <3>4, <3>5 DEF InLast
    <2> QED BY <1>1, <2>1, <2>2
  <1> QED BY <1>1, <1>2 DEF KeysFit

\* The new statement reads what may be read, and so do the others.
LEMMA ScopeGrown ==
  ASSUME PlanTyped, ReadsInScope, NEW s, Adding(s), NEW n, n = Prev(plan),
         Reads(n + 1)' \subseteq Readable(n)
  PROVE  ReadsInScope'
  <1>1. n \in Nat /\ DOMAIN plan.stmts = 1..n /\ DOMAIN plan.stmts' = 1..(n + 1)
    BY TypedFacts, Grown
  <1>2. ASSUME NEW t \in 1..n PROVE Reads(t)' \subseteq Readable(t - 1)'
    <2>1. Reads(t) \subseteq Readable(t - 1)
      BY <1>1 DEF ReadsInScope
    <2>2. t - 1 \in 0..n
      BY <1>1
    <2>3. Reads(t)' = Reads(t) /\ Readable(t - 1)' = Readable(t - 1)
      BY <2>2, Grown
    <2> QED BY <2>1, <2>3
  <1>3. Reads(n + 1)' \subseteq Readable(n)'
    <2>1. n \in 0..n
      BY <1>1
    <2>2. Readable(n)' = Readable(n)
      BY <2>1, Grown
    <2> QED BY <2>1, <2>2
  <1>4. \A t \in 1..(n + 1) : t \in 1..n \/ t = n + 1
    BY <1>1
  <1>5. \A t \in 1..(n + 1) : Reads(t)' \subseteq Readable(t - 1)'
    <2> SUFFICES ASSUME NEW t \in 1..(n + 1) PROVE Reads(t)' \subseteq Readable(t - 1)'
      OBVIOUS
    <2>1. CASE t \in 1..n
      BY <1>2, <2>1
    <2>2. CASE t = n + 1
      <3>1. t - 1 = n
        BY <1>1, <2>2
      <3> QED BY <1>3, <2>2, <3>1
    <2> QED BY <1>4, <2>1, <2>2
  <1> QED BY <1>1, <1>5 DEF ReadsInScope

LEMMA PlainBody ==
  ASSUME PlanTyped, BodyInv, NEW s, Adding(s), s.op \notin Brackets4,
         plan.parents' = plan.parents, NEW n, n = Prev(plan), Reads(n + 1)' \subseteq Readable(n),
         s.op \in {"SPK", "EPK"} => InLast(s.src)
  PROVE  BodyInv'
  <1>1. Open' = Open /\ Increasing'
    BY DEF Open, Increasing, BodyInv
  <1>2. Starts' = Starts /\ Ends' = Ends
    BY Grown DEF Brackets4
  <1>3. Starts \subseteq 1..n /\ Ends \subseteq 1..n
    BY TypedFacts
  <1>4. \A e \in Ends : Opening(e)' = Opening(e) /\ OpOf(e)' = OpOf(e)
    BY <1>3, Grown
  <1>5. \A e \in Ends : OpOf(Opening(e))' = OpOf(Opening(e))
    <2> SUFFICES ASSUME NEW e \in Ends PROVE OpOf(Opening(e))' = OpOf(Opening(e))
      OBVIOUS
    <2>1. Opening(e) \in 1..n
      BY <1>3 DEF BodyInv, BracketsNest
    <2> QED BY <1>4, <2>1, Grown DEF OpOf
  <1>6. BracketsNest'
    BY <1>1, <1>2, <1>4, <1>5 DEF BodyInv, BracketsNest
  <1>7. ReadsInScope'
    BY ScopeGrown DEF BodyInv
  <1>8. KeysFit'
    BY KeysGrown
  <1> QED BY <1>1, <1>2, <1>6, <1>7, <1>8 DEF BodyInv

LEMMA StartBody ==
  ASSUME PlanTyped, BodyInv, NEW s, Adding(s), s.op \in {"SFT", "SPJ"},
         NEW n, n = Prev(plan), plan.parents' = Append(plan.parents, n + 1),
         Reads(n + 1)' \subseteq Readable(n)
  PROVE  BodyInv'
  <1> DEFINE m == Len(plan.parents)
  <1>1. /\ n \in Nat /\ Starts \subseteq 1..n /\ Ends \subseteq 1..n
        /\ m \in Nat /\ DOMAIN plan.parents = 1..m
    BY TypedFacts
  <1>2. Starts' = Starts \cup {n + 1} /\ Ends' = Ends
    BY Grown
  <1>3. /\ DOMAIN plan.parents' = 1..(m + 1)
        /\ \A i \in 1..m : plan.parents'[i] = plan.parents[i]
        /\ plan.parents'[m + 1] = n + 1
    BY AppendFacts DEF PlanTyped
  <1>4. \A i \in 1..m : plan.parents[i] \in Open
    BY <1>1 DEF Open
  <1>5. Open' = Open \cup {n + 1}
    <2>1. Open' = {plan.parents'[k] : k \in 1..(m + 1)}
      BY <1>3 DEF Open
    <2>2. Open = {plan.parents[k] : k \in 1..m}
      BY <1>1 DEF Open
    <2>3. \A k : k \in 1..(m + 1) <=> k \in 1..m \/ k = m + 1
      BY <1>1
    <2> HIDE DEF m
    <2> QED BY <1>3, <2>1, <2>2, <2>3
  <1>6. Increasing'
    <2> SUFFICES ASSUME NEW i \in 1..(m + 1), NEW j \in 1..(m + 1), i < j
                 PROVE  plan.parents'[i] < plan.parents'[j]
      BY <1>3 DEF Increasing
    <2>1. i \in 1..m
      BY <1>1
    <2>4. plan.parents[i] \in 1..n
      BY <1>1, <1>4, <2>1 DEF BodyInv
    <2>2. CASE j \in 1..m
      BY <1>1, <1>3, <2>1, <2>2 DEF BodyInv, Increasing
    <2>3. CASE j = m + 1
      BY <1>1, <1>3, <2>1, <2>3, <2>4
    <2> QED BY <1>1, <2>2, <2>3
  <1>7. \A e \in Ends : /\ Opening(e)' = Opening(e) /\ OpOf(e)' = OpOf(e)
                        /\ Opening(e) \in 1..n
    BY <1>1, Grown DEF BodyInv, BracketsNest
  <1>8. \A e \in Ends : OpOf(Opening(e))' = OpOf(Opening(e))
    BY <1>7, Grown DEF OpOf
  <1>9. BracketsNest'
    <2>1. n + 1 \notin Starts /\ (\A e \in Ends : Opening(e) # n + 1 /\ e < n + 1)
      BY <1>1, <1>7
    <2>2. \A e \in Ends' : /\ Opening(e)' \in Starts' \ Open'
                           /\ Opening(e)' < e
                           /\ OpOf(e)' = (IF OpOf(Opening(e))' = "SFT" THEN "EFT" ELSE "EPJ")
      BY <1>2, <1>5, <1>7, <1>8, <2>1 DEF BodyInv, BracketsNest
    <2>3. \A e, f \in Ends' : e < f => e < Opening(f)' \/ Opening(f)' < Opening(e)'
      BY <1>2, <1>7 DEF BodyInv, BracketsNest
    <2>4. \A t \in Starts' \ Open' : \E e \in Ends' : Opening(e)' = t
      BY <1>2, <1>5, <1>7 DEF BodyInv, BracketsNest
    <2>5. \A o \in Open', e \in Ends' : o < Opening(e)' \/ e < o
      BY <1>2, <1>5, <1>7, <2>1 DEF BodyInv, BracketsNest
    <2> QED BY <2>2, <2>3, <2>4, <2>5 DEF BracketsNest
  <1>10. ReadsInScope'
    BY ScopeGrown DEF BodyInv
  <1>11. Open' \subseteq Starts'
    BY <1>2, <1>5 DEF BodyInv
  <1>12. KeysFit'
    BY KeysGrown
  <1> QED BY <1>6, <1>9, <1>10, <1>11, <1>12 DEF BodyInv

LEMMA EndBody ==
  ASSUME PlanTyped, BodyInv, NEW s, Adding(s), s.op \in {"EFT", "EPJ"},
         NEW n, n = Prev(plan), plan.parents # <<>>, plan.parents' = Front(plan.parents),
         NEW start, start = Last(plan.parents), s.src + 1 = start,
         s.op = (IF OpOf(start) = "SFT" THEN "EFT" ELSE "EPJ"),
         Reads(n + 1)' \subseteq Readable(n)
  PROVE  BodyInv'
  <1> DEFINE m == Len(plan.parents) - 1
  <1>1. /\ n \in Nat /\ Starts \subseteq 1..n /\ Ends \subseteq 1..n
        /\ m \in Nat /\ DOMAIN plan.parents = 1..(m + 1)
    BY TypedFacts
  <1>2. Starts' = Starts /\ Ends' = Ends \cup {n + 1}
    BY Grown
  <1>3. /\ DOMAIN plan.parents' = 1..m
        /\ \A i \in 1..m : plan.parents'[i] = plan.parents[i]
        /\ plan.parents[m + 1] = start
    <2>1. IsSequence(plan.parents)
      BY DEF PlanTyped
    <2>2. Len(plan.parents) = m + 1
      BY <1>1
    <2> QED BY <2>1, <2>2, FrontFacts
  <1>4. start \in Open /\ start \in Starts
    BY <1>1, <1>3 DEF Open, BodyInv
  <1>5. Open' = Open \ {start}
    <2>1. Open' = {plan.parents'[k] : k \in 1..m}
      BY <1>3 DEF Open
    <2>2. Open = {plan.parents[k] : k \in 1..(m + 1)}
      BY <1>1 DEF Open
    <2>3. \A k : k \in 1..(m + 1) <=> k \in 1..m \/ k = m + 1
      BY <1>1
    <2>4. \A k \in 1..m : plan.parents[k] # start
      <3> SUFFICES ASSUME NEW k \in 1..m PROVE plan.parents[k] # start
        OBVIOUS
      <3>1. plan.parents[k] < plan.parents[m + 1]
        BY <1>1 DEF BodyInv, Increasing
      <3>2. plan.parents[k] \in 1..n /\ start \in 1..n
        <4>1. k \in 1..(m + 1)
          BY <1>1
        <4>2. plan.parents[k] \in Open
          BY <2>2, <4>1
        <4> QED BY <1>1, <1>4, <4>2 DEF BodyInv
      <3> QED BY <1>1, <1>3, <3>1, <3>2
    <2> HIDE DEF m
    <2> QED BY <1>3, <2>1, <2>2, <2>3, <2>4
  <1>6. Increasing'
    BY <1>1, <1>3 DEF BodyInv, Increasing
  <1>7. \A e \in Ends : /\ Opening(e)' = Opening(e) /\ OpOf(e)' = OpOf(e)
                        /\ Opening(e) \in 1..n
    BY <1>1, Grown DEF BodyInv, BracketsNest
  <1>8. \A e \in Ends : OpOf(Opening(e))' = OpOf(Opening(e))
    BY <1>7, Grown DEF OpOf
  <1>9. Opening(n + 1)' = start /\ OpOf(n + 1)' = s.op /\ OpOf(start)' = OpOf(start)
    BY <1>1, <1>4, Grown
  <1>10. \A o \in Open' : o < start
    <2> SUFFICES ASSUME NEW k \in 1..m PROVE plan.parents[k] < plan.parents[m + 1]
      BY <1>3 DEF Open
    <2> QED BY <1>1 DEF BodyInv, Increasing
  <1>11. BracketsNest'
    <2>1. OpOf(Opening(n + 1))' = OpOf(start)
      BY <1>9 DEF OpOf, Opening
    <2>2. \A e \in Ends' : /\ Opening(e)' \in Starts' \ Open'
                           /\ Opening(e)' < e
                           /\ OpOf(e)' = (IF OpOf(Opening(e))' = "SFT" THEN "EFT" ELSE "EPJ")
      <3> SUFFICES ASSUME NEW e \in Ends'
                   PROVE  /\ Opening(e)' \in Starts' \ Open'
                          /\ Opening(e)' < e
                          /\ OpOf(e)' = (IF OpOf(Opening(e))' = "SFT" THEN "EFT" ELSE "EPJ")
        OBVIOUS
      <3>1. CASE e \in Ends
        BY <1>2, <1>5, <1>7, <1>8, <3>1 DEF BodyInv, BracketsNest
      <3>2. CASE e = n + 1
        <4>1. Opening(e)' = start /\ OpOf(e)' = s.op /\ OpOf(Opening(e))' = OpOf(start)
          BY <1>9, <2>1, <3>2 DEF Opening
        <4> QED BY <1>1, <1>2, <1>4, <1>5, <3>2, <4>1
      <3> QED BY <1>2, <3>1, <3>2
    <2>3. \A e, f \in Ends' : e < f => e < Opening(f)' \/ Opening(f)' < Opening(e)'
      <3>1. \A e \in Ends : start < Opening(e)' \/ e < start
        BY <1>4, <1>7 DEF BodyInv, BracketsNest
      <3>2. \A e, f \in Ends : e < f => e < Opening(f)' \/ Opening(f)' < Opening(e)'
        BY <1>7 DEF BodyInv, BracketsNest
      <3> SUFFICES ASSUME NEW e \in Ends', NEW f \in Ends', e < f
                   PROVE  e < Opening(f)' \/ Opening(f)' < Opening(e)'
        OBVIOUS
      <3>3. CASE f \in Ends
        <4>1. e \in Ends
          BY <1>1, <1>2, <3>3
        <4> QED BY <3>2, <3>3, <4>1
      <3>4. CASE f = n + 1
        <4>1. Opening(f)' = start
          BY <1>9, <3>4 DEF Opening
        <4>2. e \in Ends
          BY <1>1, <1>2, <3>4
        <4> QED BY <3>1, <4>1, <4>2
      <3> QED BY <1>2, <3>3, <3>4
    <2>4. \A t \in Starts' \ Open' : \E e \in Ends' : Opening(e)' = t
      BY <1>2, <1>5, <1>7, <1>9 DEF BodyInv, BracketsNest
    <2>5. \A o \in Open', e \in Ends' : o < Opening(e)' \/ e < o
      BY <1>2, <1>5, <1>7, <1>9, <1>10 DEF BodyInv, BracketsNest
    <2> QED BY <2>2, <2>3, <2>4, <2>5 DEF BracketsNest
  <1>12. ReadsInScope'
    BY ScopeGrown DEF BodyInv
  <1>13. Open' \subseteq Starts'
    BY <1>2, <1>5 DEF BodyInv
  <1>14. KeysFit'
    <2>1. s.op \notin {"SPK", "EPK"}
      OBVIOUS
    <2> QED BY <2>1, KeysGrown
  <1> QED BY <1>6, <1>11, <1>12, <1>13, <1>14 DEF BodyInv

-----------------------------------------------------------------------------
(* The calls that are under way, and the filters and projections of them.  *)

BracketFits(j) ==
  LET start == plan.calls[j].src + 1 IN
  /\ plan.parents[Cardinality(Brackets(j))] = start
  /\ OpOf(start) = (IF plan.calls[j].kind = "filter" THEN "SFT" ELSE "SPJ")
  /\ \A i \in 1..j : plan.calls[i].src <= plan.calls[j].src

KeyFits(i) ==
  plan.calls[i].kind = "key" => /\ i > 1 /\ plan.calls[i - 1].kind = "projection"
                                /\ plan.calls[i].src = plan.calls[i - 1].src + 1

LEMMA CallsFitParts ==
  /\ CallsFit <=> /\ Len(plan.parents) = Cardinality(Brackets(Len(plan.calls)))
                  /\ \A j \in Brackets(Len(plan.calls)) : BracketFits(j)
                  /\ \A i \in DOMAIN plan.calls :
                       plan.calls[i].src \in {0} \cup Readable(Prev(plan)) /\ KeyFits(i)
  /\ CallsFit' <=> /\ Len(plan.parents') = Cardinality(Brackets(Len(plan.calls)))'
                   /\ \A j \in Brackets(Len(plan.calls))' : BracketFits(j)'
                   /\ \A i \in DOMAIN plan.calls' :
                        plan.calls'[i].src \in {0} \cup Readable(Prev(plan))' /\ KeyFits(i)'
  BY Zenon DEF CallsFit, BracketFits, KeyFits

LEMMA BracketsCount ==
  ASSUME NEW i \in Nat
  PROVE  /\ IsFiniteSet(Brackets(i)) /\ Cardinality(Brackets(i)) \in Nat
         /\ \A j \in Brackets(i) : Brackets(j) \subseteq Brackets(i) /\ j \in Brackets(j)
         /\ \A j \in Brackets(i) : Cardinality(Brackets(j)) \in 1..Cardinality(Brackets(i))
  <1>1. Brackets(i) \subseteq 1..i
    BY DEF Brackets
  <1>2. IsFiniteSet(1..i)
    BY FS_Interval
  <1>3. IsFiniteSet(Brackets(i))
    BY <1>1, <1>2, FS_Subset
  <1>4. Cardinality(Brackets(i)) \in Nat
    BY <1>3, FS_CardinalityType
  <1>5. ASSUME NEW j \in Brackets(i)
        PROVE  Brackets(j) \subseteq Brackets(i) /\ j \in Brackets(j)
    BY DEF Brackets
  <1>6. ASSUME NEW j \in Brackets(i)
        PROVE  Cardinality(Brackets(j)) \in 1..Cardinality(Brackets(i))
    <2>1. IsFiniteSet(Brackets(j)) /\ Cardinality(Brackets(j)) <= Cardinality(Brackets(i))
      BY <1>3, <1>5, FS_Subset
    <2>2. Cardinality(Brackets(j)) \in Nat /\ Cardinality(Brackets(j)) # 0
      BY <1>5, <2>1, FS_CardinalityType, FS_EmptySet
    <2> QED BY <1>4, <2>1, <2>2
  <1> QED BY <1>3, <1>4, <1>5, <1>6

LEMMA BracketsNext ==
  ASSUME NEW i \in Nat
  PROVE  LET b == plan.calls[i + 1].kind \in {"filter", "projection"} IN
         /\ Brackets(i + 1) = IF b THEN Brackets(i) \cup {i + 1} ELSE Brackets(i)
         /\ Cardinality(Brackets(i + 1)) = Cardinality(Brackets(i)) + (IF b THEN 1 ELSE 0)
  <1> DEFINE b == plan.calls[i + 1].kind \in {"filter", "projection"}
  <1>1. \A j : j \in 1..(i + 1) <=> j \in 1..i \/ j = i + 1
    OBVIOUS
  <1>2. Brackets(i + 1) = IF b THEN Brackets(i) \cup {i + 1} ELSE Brackets(i)
    BY <1>1 DEF Brackets
  <1>3. i + 1 \notin Brackets(i)
    BY DEF Brackets
  <1>4. IsFiniteSet(Brackets(i)) /\ Cardinality(Brackets(i)) \in Nat
    BY BracketsCount
  <1>5. Cardinality(Brackets(i) \cup {i + 1}) = Cardinality(Brackets(i)) + 1
    BY <1>3, <1>4, FS_AddElement
  <1> QED BY <1>2, <1>4, <1>5

\* The first m calls are those that were there.
LEMMA CallsKept ==
  ASSUME PlanTyped, Open \subseteq Starts, CallsFit,
         NEW m \in 0..Len(plan.calls),
         \A i \in 1..m : plan.calls'[i].kind = plan.calls[i].kind
                         /\ plan.calls'[i].src = plan.calls[i].src,
         \A t \in 1..Prev(plan) : OpOf(t)' = OpOf(t),
         \A k \in 1..Cardinality(Brackets(m)) : plan.parents'[k] = plan.parents[k]
  PROVE  /\ \A i \in 0..m : Brackets(i)' = Brackets(i)
         /\ \A j \in Brackets(m) : BracketFits(j)'
         /\ \A i \in 1..m : KeyFits(i)'
  <1>1. /\ Len(plan.calls) \in Nat /\ DOMAIN plan.calls = 1..Len(plan.calls)
        /\ Len(plan.parents) \in Nat /\ DOMAIN plan.parents = 1..Len(plan.parents)
        /\ Starts \subseteq 1..Prev(plan)
    BY TypedFacts
  <1>2. \A i \in 0..m : Brackets(i)' = Brackets(i)
    BY <1>1 DEF Brackets
  <1>3. ASSUME NEW j \in Brackets(m) PROVE BracketFits(j)'
    <2>1. j \in 1..m /\ j \in Brackets(Len(plan.calls))
      BY <1>1 DEF Brackets
    <2>2. BracketFits(j)
      BY <2>1, CallsFitParts
    <2>3. Cardinality(Brackets(j)) \in 1..Cardinality(Brackets(m))
      BY <1>1, BracketsCount
    <2>4. Cardinality(Brackets(j)) \in DOMAIN plan.parents
      BY <1>1, <2>1, BracketsCount, CallsFitParts
    <2>5. plan.calls[j].src + 1 \in Open
      BY <2>2, <2>4 DEF BracketFits, Open
    <2>6. plan.calls[j].src + 1 \in 1..Prev(plan)
      BY <1>1, <2>5
    <2>7. Brackets(j)' = Brackets(j) /\ plan.calls'[j].src = plan.calls[j].src
      BY <1>1, <1>2, <2>1
    <2>8. plan.parents'[Cardinality(Brackets(j))'] = plan.calls'[j].src + 1
      BY <2>2, <2>3, <2>7 DEF BracketFits
    <2>9. OpOf(plan.calls[j].src + 1)' = OpOf(plan.calls[j].src + 1)
      BY <2>6, <2>7 DEF OpOf
    <2>10. OpOf(plan.calls[j].src + 1)' = IF plan.calls'[j].kind = "filter" THEN "SFT" ELSE "SPJ"
      BY <2>1, <2>2, <2>9 DEF BracketFits
    <2>11. \A i \in 1..j : plan.calls'[i].src <= plan.calls'[j].src
      BY <1>1, <2>1, <2>2 DEF BracketFits
    <2> QED BY <2>8, <2>10, <2>11 DEF BracketFits
  <1>4. ASSUME NEW i \in 1..m PROVE KeyFits(i)'
    <2>1. KeyFits(i)
      BY <1>1, CallsFitParts
    <2>2. i > 1 => i - 1 \in 1..m
      BY <1>1
    <2> QED BY <2>1, <2>2 DEF KeyFits
  <1> QED BY <1>2, <1>3, <1>4

OpsKept == \A t \in 1..Prev(plan) : OpOf(t)' = OpOf(t)
StillReadable(i) == plan.calls'[i].src \in {0} \cup Readable(Prev(plan))'

LEMMA SameCalls ==
  ASSUME PlanTyped, Open \subseteq Starts, CallsFit, OpsKept,
         plan.calls' = plan.calls, plan.parents' = plan.parents,
         \A i \in DOMAIN plan.calls : StillReadable(i)
  PROVE  CallsFit'
  <1> DEFINE L == Len(plan.calls)
  <1>1. L \in Nat /\ DOMAIN plan.calls = 1..L /\ L \in 0..L
    BY TypedFacts
  <1>2. /\ \A i \in 0..L : Brackets(i)' = Brackets(i)
        /\ \A j \in Brackets(L) : BracketFits(j)'
        /\ \A i \in 1..L : KeyFits(i)'
    BY <1>1, CallsKept DEF OpsKept
  <1>3. Len(plan.parents') = Cardinality(Brackets(L))
    BY CallsFitParts
  <1>4. Brackets(Len(plan.calls))' = Brackets(L)
    <2>1. Brackets(L)' = Brackets(L)
      BY DEF Brackets
    <2> QED BY <2>1
  <1> QED BY <1>1, <1>2, <1>3, <1>4, CallsFitParts DEF StillReadable

LEMMA CallPushed ==
  ASSUME PlanTyped, Open \subseteq Starts, CallsFit, OpsKept,
         NEW L, L = Len(plan.calls),
         DOMAIN plan.calls' = 1..(L + 1), Len(plan.calls') = L + 1,
         \A i \in 1..L : /\ plan.calls'[i].kind = plan.calls[i].kind
                         /\ plan.calls'[i].src = plan.calls[i].src,
         plan.calls'[L + 1].kind \notin {"filter", "projection"}, KeyFits(L + 1)',
         plan.parents' = plan.parents,
         \A i \in 1..(L + 1) : StillReadable(i)
  PROVE  CallsFit'
  <1>1. L \in Nat /\ DOMAIN plan.calls = 1..L /\ L \in 0..L
    BY TypedFacts
  <1>2. /\ \A i \in 0..L : Brackets(i)' = Brackets(i)
        /\ \A j \in Brackets(L) : BracketFits(j)'
        /\ \A i \in 1..L : KeyFits(i)'
    BY <1>1, CallsKept DEF OpsKept
  <1>3. Brackets(L + 1)' = Brackets(L)
    <2>1. \A j : j \in 1..(L + 1) <=> j \in 1..L \/ j = L + 1
      BY <1>1
    <2>2. Brackets(L + 1)' = {j \in 1..L : plan.calls'[j].kind \in {"filter", "projection"}}
      BY <2>1 DEF Brackets
    <2> QED BY <2>2 DEF Brackets
  <1>4. Brackets(Len(plan.calls))' = Brackets(L)
    BY <1>3 DEF Brackets
  <1>5. Len(plan.parents') = Cardinality(Brackets(L))
    BY CallsFitParts
  <1>6. \A i \in 1..(L + 1) : KeyFits(i)'
    <2> SUFFICES ASSUME NEW i \in 1..(L + 1) PROVE KeyFits(i)'
      OBVIOUS
    <2>1. CASE i = L + 1
      BY <2>1 DEF KeyFits
    <2>2. CASE i \in 1..L
      BY <1>2, <2>2
    <2> QED BY <1>1, <2>1, <2>2
  <1> QED BY <1>2, <1>4, <1>5, <1>6, CallsFitParts DEF StillReadable

LEMMA BracketPushed ==
  ASSUME PlanTyped, Open \subseteq Starts, CallsFit, OpsKept,
         NEW L, L = Len(plan.calls), NEW n, n = Prev(plan),
         DOMAIN plan.calls' = 1..(L + 1), Len(plan.calls') = L + 1,
         \A i \in 1..L : plan.calls'[i] = plan.calls[i],
         plan.calls'[L + 1].kind \in {"filter", "projection"}, plan.calls'[L + 1].src = n,
         OpOf(n + 1)' = (IF plan.calls'[L + 1].kind = "filter" THEN "SFT" ELSE "SPJ"),
         plan.parents' = Append(plan.parents, n + 1),
         \A i \in 1..(L + 1) : StillReadable(i)
  PROVE  CallsFit'
  <1> DEFINE m == Cardinality(Brackets(L))
  <1>1. /\ L \in Nat /\ DOMAIN plan.calls = 1..L /\ L \in 0..L /\ n \in Nat
        /\ Len(plan.parents) \in Nat
    BY TypedFacts
  <1>2. m \in Nat /\ Len(plan.parents) = m /\ IsFiniteSet(Brackets(L))
    BY <1>1, CallsFitParts, BracketsCount
  <1>3. /\ Len(plan.parents') = m + 1 /\ plan.parents'[m + 1] = n + 1
        /\ \A k \in 1..m : plan.parents'[k] = plan.parents[k]
    <2>1. IsSequence(plan.parents)
      BY DEF PlanTyped
    <2> HIDE DEF m
    <2> QED BY <1>2, <2>1, AppendFacts
  <1>4. /\ \A i \in 0..L : Brackets(i)' = Brackets(i)
        /\ \A j \in Brackets(L) : BracketFits(j)'
        /\ \A i \in 1..L : KeyFits(i)'
    BY <1>1, <1>3, CallsKept DEF OpsKept
  <1>5. Brackets(L + 1)' = Brackets(L) \cup {L + 1}
    <2>1. \A j : j \in 1..(L + 1) <=> j \in 1..L \/ j = L + 1
      BY <1>1
    <2>2. Brackets(L + 1)' = {j \in 1..L : plan.calls'[j].kind \in {"filter", "projection"}} \cup {L + 1}
      BY <2>1 DEF Brackets
    <2> QED BY <2>2 DEF Brackets
  <1>6. Brackets(Len(plan.calls))' = Brackets(L) \cup {L + 1}
    BY <1>5 DEF Brackets
  <1>7. Cardinality(Brackets(L) \cup {L + 1}) = m + 1
    <2>1. L + 1 \notin Brackets(L)
      BY <1>1 DEF Brackets
    <2> QED BY <1>2, <2>1, FS_AddElement
  <1>8. BracketFits(L + 1)'
    <2>1. plan.parents'[Cardinality(Brackets(L + 1))'] = plan.calls'[L + 1].src + 1
      BY <1>3, <1>5, <1>7
    <2>2. OpOf(plan.calls[L + 1].src + 1)' = (IF plan.calls'[L + 1].kind = "filter" THEN "SFT" ELSE "SPJ")
      BY DEF OpOf
    <2>3. ASSUME NEW i \in 1..(L + 1) PROVE plan.calls'[i].src <= n
      <3>1. CASE i = L + 1
        BY <1>1, <3>1
      <3>2. CASE i \in 1..L
        <4>1. plan.calls'[i].src \in {0} \cup Readable(n)
          BY <1>1, <3>2, CallsFitParts
        <4> QED BY <1>1, <4>1 DEF Readable
      <3> QED BY <1>1, <3>1, <3>2
    <2> QED BY <2>1, <2>2, <2>3 DEF BracketFits
  <1>9. \A i \in 1..(L + 1) : KeyFits(i)'
    <2> SUFFICES ASSUME NEW i \in 1..(L + 1) PROVE KeyFits(i)'
      OBVIOUS
    <2>1. CASE i = L + 1
      BY <2>1 DEF KeyFits
    <2>2. CASE i \in 1..L
      BY <1>4, <2>2
    <2> QED BY <1>1, <2>1, <2>2
  <1>10. \A j \in Brackets(L) \cup {L + 1} : BracketFits(j)'
    BY <1>4, <1>8
  <1>11. Len(plan.parents') = Cardinality(Brackets(Len(plan.calls)))'
    BY <1>3, <1>6, <1>7
  <1> QED BY <1>6, <1>9, <1>10, <1>11, CallsFitParts DEF StillReadable

LEMMA CallPopped ==
  ASSUME PlanTyped, Open \subseteq Starts, CallsFit, OpsKept,
         NEW L \in Nat, L + 1 = Len(plan.calls), plan.calls' = Front(plan.calls),
         plan.parents' = IF plan.calls[L + 1].kind \in {"filter", "projection"}
                           THEN Front(plan.parents) ELSE plan.parents,
         \A i \in 1..L : StillReadable(i)
  PROVE  CallsFit'
  <1> DEFINE m == Cardinality(Brackets(L))
             b == plan.calls[L + 1].kind \in {"filter", "projection"}
  <1>1. /\ Len(plan.parents) \in Nat /\ L \in 0..Len(plan.calls)
        /\ plan.calls # <<>> /\ (plan.parents = <<>> <=> Len(plan.parents) = 0)
    BY TypedFacts
  <1>2. /\ Len(plan.calls') = L /\ DOMAIN plan.calls' = 1..L
        /\ \A i \in 1..L : plan.calls'[i] = plan.calls[i]
    <2>1. IsSequence(plan.calls)
      BY DEF PlanTyped
    <2>2. Len(plan.calls) - 1 = L
      OBVIOUS
    <2>3. /\ Len(Front(plan.calls)) = Len(plan.calls) - 1
          /\ DOMAIN Front(plan.calls) = 1..(Len(plan.calls) - 1)
          /\ \A i \in 1..(Len(plan.calls) - 1) : Front(plan.calls)[i] = plan.calls[i]
      BY <1>1, <2>1, FrontFacts
    <2> QED BY <2>2, <2>3
  <1>3. m \in Nat /\ Len(plan.parents) = m + (IF b THEN 1 ELSE 0)
    BY CallsFitParts, BracketsCount, BracketsNext
  <1>4. Len(plan.parents') = m /\ \A k \in 1..m : plan.parents'[k] = plan.parents[k]
    <2>1. IsSequence(plan.parents)
      BY DEF PlanTyped
    <2>2. CASE b
      <3>1. Len(plan.parents) - 1 = m /\ plan.parents # <<>>
        BY <1>1, <1>3, <2>2
      <3>2. /\ Len(Front(plan.parents)) = Len(plan.parents) - 1
            /\ \A k \in 1..(Len(plan.parents) - 1) : Front(plan.parents)[k] = plan.parents[k]
        BY <2>1, <3>1, FrontFacts
      <3> QED BY <2>2, <3>1, <3>2
    <2>3. CASE ~b
      BY <1>3, <2>3
    <2> QED BY <2>2, <2>3
  <1>5. /\ \A i \in 0..L : Brackets(i)' = Brackets(i)
        /\ \A j \in Brackets(L) : BracketFits(j)'
        /\ \A i \in 1..L : KeyFits(i)'
    BY <1>1, <1>2, <1>4, CallsKept DEF OpsKept
  <1>6. Brackets(Len(plan.calls))' = Brackets(L)
    BY <1>2, <1>5 DEF Brackets
  <1> QED BY <1>2, <1>4, <1>5, <1>6, CallsFitParts DEF StillReadable

-----------------------------------------------------------------------------
(* The parser's invariant, in parts.                                       *)

LastKey == HasStatement /\ OpOf(Prev(plan)) = "EPK" => In = "projection"

LEMMA PlanInvParts ==
  /\ PlanInv <=> PlanTyped /\ (plan.ok => BodyInv /\ CallsFit /\ LastKey)
  /\ PlanInv' <=> PlanTyped' /\ (plan.ok' => BodyInv' /\ CallsFit' /\ LastKey')
  BY Zenon DEF PlanInv, BodyInv, Increasing, LastKey

LEMMA AtLast ==
  ASSUME NEW k, Prev(plan)' = k
  PROVE  Readable(Prev(plan))' = Readable(k)' /\ OpOf(Prev(plan))' = OpOf(k)'
  BY DEF Readable, Past, OpOf

LEMMA CallIs ==
  ASSUME PlanTyped, NEW kind, kind # "main", In = kind
  PROVE  /\ Len(plan.calls) \in Nat \ {0} /\ plan.calls # <<>>
         /\ Call = plan.calls[Len(plan.calls)] /\ Call.kind = kind
         /\ DOMAIN plan.calls = 1..Len(plan.calls)
  <1>1. plan.calls # <<>> /\ Call.kind = kind
    BY DEF In
  <1>2. Len(plan.calls) \in Nat \ {0} /\ DOMAIN plan.calls = 1..Len(plan.calls)
    BY <1>1, TypedFacts
  <1> QED BY <1>1, <1>2 DEF Call, Last

LEMMA CallsReadable ==
  ASSUME PlanTyped, CallsFit, NEW i \in 1..Len(plan.calls)
  PROVE  /\ plan.calls[i].src \in {0} \cup Readable(Prev(plan))
         /\ plan.calls[i].src \in 0..Prev(plan)
         /\ KeyFits(i)
  <1>1. i \in DOMAIN plan.calls /\ Prev(plan) \in Nat
    BY TypedFacts
  <1>2. plan.calls[i].src \in {0} \cup Readable(Prev(plan)) /\ KeyFits(i)
    BY <1>1, CallsFitParts
  <1> QED BY <1>1, <1>2 DEF Readable

\* What the innermost filters and projections start with can be read.
LEMMA OpenReadable ==
  ASSUME PlanTyped, BodyInv
  PROVE  Open \subseteq Readable(Prev(plan))
  <1>1. SUFFICES ASSUME NEW o \in Open PROVE o \in Readable(Prev(plan))
    OBVIOUS
  <1>2. o \in Starts /\ o \in 1..Prev(plan)
    BY TypedFacts DEF BodyInv
  <1>3. o \notin Past(Prev(plan))
    <2> SUFFICES ASSUME NEW e \in Ends, o \in Opening(e)..(e - 1) PROVE FALSE
      BY PastFacts
    <2>1. e \in Nat /\ Opening(e) \in Nat
      BY TypedFacts
    <2> QED BY <1>2, <2>1 DEF BodyInv, BracketsNest
  <1> QED BY <1>2, <1>3 DEF Readable, Starts

LEMMA LastReadable ==
  ASSUME PlanTyped, BodyInv, NEW n, n = Prev(plan), n # 0, OpOf(n) # "EPK"
  PROVE  n \in Readable(n)
  <1>1. n \in 1..n /\ Ends \subseteq 1..n
    BY TypedFacts
  <1>2. n \notin Past(n)
    BY <1>1, PastFacts
  <1> QED BY <1>1, <1>2 DEF Readable

\* The filter or projection that is being read is the innermost open one.
LEMMA BracketIs ==
  ASSUME PlanTyped, BodyInv, CallsFit, NEW j \in 1..Len(plan.calls),
         plan.calls[j].kind \in {"filter", "projection"}
  PROVE  /\ plan.calls[j].src + 1 \in Open
         /\ plan.calls[j].src + 1 \in 1..Prev(plan)
         /\ OpOf(plan.calls[j].src + 1)
              = (IF plan.calls[j].kind = "filter" THEN "SFT" ELSE "SPJ")
         /\ j = Len(plan.calls) => /\ plan.parents # <<>>
                                   /\ Last(plan.parents) = plan.calls[j].src + 1
                                   /\ \A i \in 1..j : plan.calls[i].src <= plan.calls[j].src
  <1> DEFINE L == Len(plan.calls)
             c == Cardinality(Brackets(j))
  <1>1. /\ L \in Nat /\ Len(plan.parents) \in Nat /\ DOMAIN plan.parents = 1..Len(plan.parents)
        /\ Starts \subseteq 1..Prev(plan)
        /\ plan.parents = <<>> <=> Len(plan.parents) = 0
    BY TypedFacts
  <1>2. j \in Brackets(L)
    BY DEF Brackets
  <1>3. BracketFits(j) /\ Len(plan.parents) = Cardinality(Brackets(L))
    BY <1>2, CallsFitParts
  <1>4. c \in 1..Len(plan.parents)
    BY <1>1, <1>2, <1>3, BracketsCount
  <1>5. plan.calls[j].src + 1 = plan.parents[c]
    BY <1>3 DEF BracketFits
  <1>6. plan.calls[j].src + 1 \in Open
    BY <1>1, <1>4, <1>5 DEF Open
  <1>7. j = L => plan.parents # <<>> /\ Last(plan.parents) = plan.parents[c]
    BY <1>1, <1>3, <1>4 DEF Last
  <1> QED BY <1>1, <1>3, <1>5, <1>6, <1>7 DEF BracketFits, BodyInv

\* A projection that is innermost, or whose key is, is the innermost that is open.
LEMMA InnermostIs ==
  ASSUME PlanTyped, BodyInv, CallsFit, NEW j \in 1..Len(plan.calls),
         plan.calls[j].kind = "projection",
         j = Len(plan.calls) \/ (j + 1 = Len(plan.calls) /\ plan.calls[j + 1].kind = "key")
  PROVE  InLast(plan.calls[j].src + 1)
  <1> DEFINE L == Len(plan.calls)
             m == Len(plan.parents)
  <1>1. L \in Nat /\ m \in Nat /\ DOMAIN plan.parents = 1..m /\ Starts \subseteq 1..Prev(plan)
    BY TypedFacts
  <1>2. j \in Brackets(L) /\ j \in Nat
    BY DEF Brackets
  <1>3. BracketFits(j) /\ m = Cardinality(Brackets(L))
    BY <1>2, CallsFitParts
  <1>4. Brackets(j) = Brackets(L)
    <2>1. CASE j + 1 = L /\ plan.calls[j + 1].kind = "key"
      <3>1. Brackets(j + 1) = Brackets(j)
        BY <1>2, <2>1, BracketsNext
      <3> QED BY <2>1, <3>1
    <2> QED BY <2>1
  <1>5. m \in 1..m
    <2>1. Cardinality(Brackets(j)) \in 1..Cardinality(Brackets(L))
      BY <1>1, <1>2, BracketsCount
    <2> QED BY <1>3, <1>4, <2>1
  <1>6. plan.calls[j].src + 1 = plan.parents[m] /\ OpOf(plan.calls[j].src + 1) = "SPJ"
    BY <1>3, <1>4 DEF BracketFits
  <1>7. plan.parents[m] \in Open
    BY <1>1, <1>5 DEF Open
  <1>8. ASSUME NEW k \in 1..m PROVE plan.parents[k] <= plan.parents[m]
    <2>1. plan.parents[m] \in 1..Prev(plan)
      BY <1>1, <1>7 DEF BodyInv
    <2>2. CASE k = m
      BY <2>1, <2>2
    <2>3. CASE k < m
      <3>1. plan.parents[k] < plan.parents[m]
        BY <1>1, <1>5, <2>3 DEF BodyInv, Increasing
      <3>2. plan.parents[k] \in 1..Prev(plan)
        BY <1>1 DEF BodyInv, Open
      <3> QED BY <2>1, <3>1, <3>2
    <2> QED BY <1>1, <2>2, <2>3
  <1>9. \A o \in Open : o <= plan.parents[m]
    BY <1>1, <1>8 DEF Open
  <1> QED BY <1>6, <1>7, <1>9 DEF InLast

LEMMA OneLess ==
  ASSUME NEW n \in Nat \ {0}
  PROVE  \E m \in Nat : m + 1 = n
  <1>1. n - 1 \in Nat /\ n - 1 + 1 = n
    OBVIOUS
  <1> QED BY <1>1

LEMMA CallsPopped ==
  ASSUME PlanTyped, plan.calls' = Front(plan.calls), NEW L \in Nat, L + 1 = Len(plan.calls)
  PROVE  /\ IsSequence(plan.calls') /\ DOMAIN plan.calls' = 1..L
         /\ Len(plan.calls') = L
         /\ \A i \in 1..L : plan.calls'[i] = plan.calls[i]
         /\ \A i \in DOMAIN plan.calls' : DOMAIN plan.calls'[i] = {"kind", "src", "x", "last"}
  <1>1. IsSequence(plan.calls) /\ plan.calls # <<>> /\ DOMAIN plan.calls = 1..(L + 1)
    BY TypedFacts DEF PlanTyped
  <1>2. Len(plan.calls) - 1 = L
    OBVIOUS
  <1>3. /\ IsSequence(Front(plan.calls))
        /\ Len(Front(plan.calls)) = Len(plan.calls) - 1
        /\ DOMAIN Front(plan.calls) = 1..(Len(plan.calls) - 1)
        /\ \A i \in 1..(Len(plan.calls) - 1) : Front(plan.calls)[i] = plan.calls[i]
    BY <1>1, FrontFacts
  <1>4. /\ IsSequence(plan.calls') /\ DOMAIN plan.calls' = 1..L
        /\ Len(plan.calls') = L
        /\ \A i \in 1..L : plan.calls'[i] = plan.calls[i]
    BY <1>2, <1>3
  <1> QED BY <1>1, <1>4 DEF PlanTyped

LEMMA TypedGrown ==
  ASSUME PlanTyped, DOMAIN plan' = Fields,
         plan.stmts' = plan.stmts \/ (\E s : Adding(s) /\ s.src \in Nat),
         IsSequence(plan.parents'), IsSequence(plan.calls'),
         \A i \in DOMAIN plan.calls' : DOMAIN plan.calls'[i] = {"kind", "src", "x", "last"}
  PROVE  PlanTyped'
  <1>1. /\ IsSequence(plan.stmts')
        /\ \A s \in DOMAIN plan.stmts' : plan.stmts'[s].src \in Nat
    <2>1. CASE plan.stmts' = plan.stmts
      BY <2>1 DEF PlanTyped, Range
    <2>2. CASE \E s : Adding(s) /\ s.src \in Nat
      <3>1. PICK s : Adding(s) /\ s.src \in Nat
        BY <2>2
      <3>2. IsSequence(plan.stmts')
        BY <3>1, AppendFacts DEF Adding, PlanTyped
      <3>3. DOMAIN plan.stmts = 1..Prev(plan) /\ Prev(plan) \in Nat
        BY TypedFacts
      <3>4. \A t \in 1..(Prev(plan) + 1) : t \in 1..Prev(plan) \/ t = Prev(plan) + 1
        BY <3>3
      <3>5. /\ DOMAIN plan.stmts' = 1..(Prev(plan) + 1)
            /\ plan.stmts'[Prev(plan) + 1] = s
            /\ \A t \in 1..Prev(plan) : plan.stmts'[t] = plan.stmts[t]
        BY <3>1, Grown
      <3> QED BY <3>1, <3>2, <3>3, <3>4, <3>5 DEF PlanTyped
    <2> QED BY <2>1, <2>2
  <1> QED BY <1>1 DEF PlanTyped, Fields

-----------------------------------------------------------------------------
(* The steps that add no statement.                                        *)

LEMMA BadStep ==
  ASSUME PlanInv, plan' = Bad(plan)
  PROVE  PlanInv'
  <1>1. PlanTyped /\ DOMAIN plan = Fields
    BY PlanInvParts, TypedFacts
  <1>2. /\ ~plan.ok' /\ DOMAIN plan' = Fields
        /\ plan.stmts' = plan.stmts /\ plan.parents' = plan.parents /\ plan.calls' = plan.calls
    BY <1>1, BadFacts
  <1>3. PlanTyped'
    BY <1>1, <1>2 DEF PlanTyped, Fields
  <1> QED BY <1>2, <1>3, PlanInvParts

LEMMA SkipStep ==
  ASSUME PlanInv, plan.ok, SamePlan(plan, plan')
  PROVE  PlanInv'
  <1>1. PlanTyped /\ BodyInv /\ CallsFit /\ LastKey
    BY PlanInvParts
  <1>2. /\ DOMAIN plan' = Fields /\ plan.stmts' = plan.stmts /\ plan.parents' = plan.parents
        /\ plan.calls' = plan.calls
    BY DEF SamePlan
  <1>3. PlanTyped'
    BY <1>1, <1>2 DEF PlanTyped, Fields
  <1>4. BodyInv'
    BY <1>1, <1>2, SameBody
  <1>5. Prev(plan)' = Prev(plan) /\ OpsKept /\ Readable(Prev(plan))' = Readable(Prev(plan))
    BY <1>2, Unchanged, AtLast DEF OpsKept
  <1>6. CallsFit'
    <2>1. \A i \in DOMAIN plan.calls : StillReadable(i)
      BY <1>1, <1>2, <1>5, CallsFitParts DEF StillReadable
    <2> QED BY <1>1, <1>2, <1>5, <2>1, SameCalls DEF BodyInv
  <1>7. LastKey'
    BY <1>1, <1>2 DEF LastKey, HasStatement, OpOf, Prev, In, Call
  <1> QED BY <1>3, <1>4, <1>6, <1>7, PlanInvParts

\* A parenthesis or an operator begins.
LEMMA EnterStep ==
  ASSUME PlanInv, plan.ok, In # "projection", DOMAIN plan' = Fields,
         plan.stmts' = plan.stmts, plan.parents' = plan.parents,
         NEW calls, IsSequence(calls), Len(calls) = Len(plan.calls),
         \A i \in 1..Len(plan.calls) : /\ DOMAIN calls[i] = {"kind", "src", "x", "last"}
                                       /\ calls[i].kind = plan.calls[i].kind
                                       /\ calls[i].src = plan.calls[i].src,
         NEW kind \in {"parenthesis", "operator"}, NEW src \in {0, Prev(plan)}, NEW x,
         plan.calls' = Append(calls, [kind |-> kind, src |-> src, x |-> x, last |-> FALSE])
  PROVE  PlanInv'
  <1> DEFINE c == [kind |-> kind, src |-> src, x |-> x, last |-> FALSE]
             L == Len(plan.calls)
             n == Prev(plan)
  <1>1. PlanTyped /\ BodyInv /\ CallsFit /\ LastKey
    BY PlanInvParts
  <1>2. L \in Nat /\ n \in Nat
    BY <1>1, TypedFacts
  <1>3. /\ IsSequence(plan.calls')
        /\ DOMAIN plan.calls' = 1..(L + 1) /\ Len(plan.calls') = L + 1
        /\ \A i \in 1..L : plan.calls'[i] = calls[i]
        /\ plan.calls'[L + 1] = c
    BY AppendFacts
  <1>4. \A i \in 1..(L + 1) : i \in 1..L \/ i = L + 1
    BY <1>2
  <1>5. PlanTyped'
    <2>1. \A i \in DOMAIN plan.calls' : DOMAIN plan.calls'[i] = {"kind", "src", "x", "last"}
      <3>1. DOMAIN c = {"kind", "src", "x", "last"}
        OBVIOUS
      <3> HIDE DEF c, L
      <3> QED BY <1>3, <1>4, <3>1 DEF L
    <2>2. IsSequence(plan.parents')
      BY <1>1 DEF PlanTyped
    <2> QED BY <1>1, <1>3, <2>1, <2>2, TypedGrown
  <1>6. BodyInv'
    BY <1>1, SameBody
  <1>7. /\ Prev(plan)' = n /\ OpsKept /\ Readable(Prev(plan))' = Readable(n)
        /\ OpOf(Prev(plan))' = OpOf(n)
    BY Unchanged, AtLast DEF OpsKept
  <1>8. n # 0 => OpOf(n) # "EPK"
    BY <1>1 DEF LastKey, HasStatement
  <1>9. \A i \in 1..(L + 1) : StillReadable(i)
    <2> SUFFICES ASSUME NEW i \in 1..(L + 1) PROVE StillReadable(i)
      OBVIOUS
    <2>1. CASE i \in 1..L
      <3>1. plan.calls[i].src \in {0} \cup Readable(n)
        BY <1>1, <2>1, CallsReadable
      <3> QED BY <1>3, <1>7, <2>1, <3>1 DEF StillReadable
    <2>2. CASE i = L + 1
      <3>1. src = 0 \/ src \in Readable(n)
        BY <1>1, <1>8, LastReadable
      <3>2. plan.calls'[i].src = src
        BY <1>3, <2>2
      <3> QED BY <1>7, <3>1, <3>2 DEF StillReadable
    <2> QED BY <1>4, <2>1, <2>2
  <1>10. CallsFit'
    <2>1. plan.calls'[L + 1].kind = kind
      BY <1>3
    <2>2. plan.calls'[L + 1].kind \notin {"filter", "projection", "key"}
      BY <2>1
    <2>3. ASSUME NEW k, k = L PROVE KeyFits(k + 1)'
      BY <2>2, <2>3 DEF KeyFits
    <2>4. \A i \in 1..L : /\ plan.calls'[i].kind = plan.calls[i].kind
                          /\ plan.calls'[i].src = plan.calls[i].src
      BY <1>3
    <2>5. Open \subseteq Starts
      BY <1>1 DEF BodyInv
    <2> SUFFICES ASSUME NEW k, k = L PROVE CallsFit'
      OBVIOUS
    <2> HIDE DEF L
    <2> QED BY <1>1, <1>3, <1>7, <1>9, <2>2, <2>3, <2>4, <2>5, CallPushed DEF L
  <1>11. LastKey'
    BY <1>7, <1>8 DEF LastKey, HasStatement
  <1> QED BY <1>5, <1>6, <1>10, <1>11, PlanInvParts

\* A parenthesis ends.
LEMMA LeaveStep ==
  ASSUME PlanInv, plan.ok, In = "parenthesis", DOMAIN plan' = Fields,
         plan.stmts' = plan.stmts, plan.parents' = plan.parents, plan.calls' = Front(plan.calls)
  PROVE  PlanInv'
  <1>1. PlanTyped /\ BodyInv /\ CallsFit /\ LastKey
    BY PlanInvParts
  <1>2. /\ Len(plan.calls) \in Nat \ {0} /\ plan.calls # <<>>
        /\ plan.calls[Len(plan.calls)].kind = "parenthesis"
    BY <1>1, CallIs
  <1>3. PICK L \in Nat : L + 1 = Len(plan.calls)
    BY <1>2, OneLess
  <1>4. /\ IsSequence(plan.calls') /\ DOMAIN plan.calls' = 1..L
        /\ \A i \in 1..L : plan.calls'[i] = plan.calls[i]
        /\ \A i \in DOMAIN plan.calls' : DOMAIN plan.calls'[i] = {"kind", "src", "x", "last"}
    BY <1>1, <1>3, CallsPopped
  <1>5. PlanTyped'
    <2>3. IsSequence(plan.parents')
      BY <1>1 DEF PlanTyped
    <2> QED BY <1>1, <1>4, <2>3, TypedGrown
  <1>6. BodyInv'
    BY <1>1, SameBody
  <1>7. /\ Prev(plan)' = Prev(plan) /\ OpsKept /\ Readable(Prev(plan))' = Readable(Prev(plan))
        /\ OpOf(Prev(plan))' = OpOf(Prev(plan))
    BY Unchanged, AtLast DEF OpsKept
  <1>8. \A i \in 1..L : StillReadable(i)
    <2> SUFFICES ASSUME NEW i \in 1..L PROVE StillReadable(i)
      OBVIOUS
    <2>1. i \in 1..Len(plan.calls)
      BY <1>3
    <2> QED BY <1>1, <1>4, <1>7, <2>1, CallsReadable DEF StillReadable
  <1>9. CallsFit'
    BY <1>1, <1>2, <1>3, <1>7, <1>8, CallPopped DEF BodyInv
  <1>10. LastKey'
    BY <1>1, <1>7 DEF LastKey, HasStatement
  <1> QED BY <1>5, <1>6, <1>9, <1>10, PlanInvParts

-----------------------------------------------------------------------------
(* The steps that add a statement that is no filter's and no projection's. *)

LEMMA NewReads ==
  ASSUME PlanTyped, NEW s, Adding(s), NEW n, n = Prev(plan)
  PROVE  /\ s.op \in {"EFT", "EPK"} => Reads(n + 1)' = {n}
         /\ s.op \in {"SPK", "EPJ", ""} => Reads(n + 1)' = {}
         /\ s.op \notin {"EFT", "EPK", "SPK", "EPJ", ""} => Reads(n + 1)' = {s.src, s.host} \ {0}
  <1>1. n \in Nat /\ plan.stmts'[n + 1] = s /\ OpOf(n + 1)' = s.op
    BY TypedFacts, Grown
  <1>2. n + 1 - 1 = n
    BY <1>1
  <1>3. ASSUME s.op \in {"EFT", "EPK"} PROVE Reads(n + 1)' = {n}
    <2>1. ASSUME NEW t, OpOf(t)' \in {"EFT", "EPK"} PROVE Reads(t)' = {t - 1}
      BY <2>1, Zenon DEF Reads
    <2>2. Reads(n + 1)' = {n + 1 - 1}
      BY <1>1, <1>3, <2>1
    <2> QED BY <1>2, <2>2
  <1>4. ASSUME s.op \in {"SPK", "EPJ", ""} PROVE Reads(n + 1)' = {}
    <2>1. OpOf(n + 1)' \notin {"EFT", "EPK"} /\ OpOf(n + 1)' \in {"SPK", "EPJ", ""}
      BY <1>1, <1>4
    <2> QED BY <2>1 DEF Reads
  <1>5. ASSUME s.op \notin {"EFT", "EPK", "SPK", "EPJ", ""}
        PROVE  Reads(n + 1)' = {s.src, s.host} \ {0}
    <2>1. OpOf(n + 1)' \notin {"EFT", "EPK"} /\ OpOf(n + 1)' \notin {"SPK", "EPJ", ""}
      BY <1>1, <1>5
    <2>2. Reads(n + 1)' = {plan.stmts'[n + 1].src, plan.stmts'[n + 1].host} \ {0}
      BY <2>1 DEF Reads
    <2> QED BY <1>1, <2>2
  <1> QED BY <1>3, <1>4, <1>5

LEMMA PlainAdded ==
  ASSUME PlanTyped, BodyInv, NEW s, Adding(s), s.op \notin Brackets4,
         NEW n, n = Prev(plan), Reads(n + 1)' \subseteq Readable(n), plan.parents' = plan.parents,
         s.op \in {"SPK", "EPK"} => InLast(s.src)
  PROVE  /\ BodyInv' /\ OpsKept /\ Prev(plan)' = n + 1 /\ OpOf(Prev(plan))' = s.op
         /\ Readable(n) \subseteq Readable(Prev(plan))' /\ n + 1 \in Nat \ {0}
         /\ s.op # "EPK" => LastKey'
  <1>1. n \in Nat /\ Prev(plan)' = n + 1 /\ OpOf(n + 1)' = s.op
    BY TypedFacts, Grown
  <1>2. Readable(Prev(plan))' = Readable(n + 1)' /\ OpOf(Prev(plan))' = s.op
    BY <1>1, AtLast
  <1>3. Readable(n) \subseteq Readable(n + 1)'
    BY ReadableGrown DEF Brackets4
  <1>4. BodyInv'
    BY PlainBody
  <1>5. OpsKept
    BY Grown DEF OpsKept
  <1>6. s.op # "EPK" => LastKey'
    BY <1>2 DEF LastKey
  <1> QED BY <1>1, <1>2, <1>3, <1>4, <1>5, <1>6

LEMMA ReadStep ==
  ASSUME PlanInv, plan.ok, NEW srcs, srcs \subseteq Readable(Prev(plan)),
         ReadsOnly(plan, plan', srcs)
  PROVE  PlanInv'
  <1> SUFFICES ASSUME plan' # Bad(plan) PROVE PlanInv'
    BY BadStep
  <1>1. PlanTyped /\ BodyInv /\ CallsFit /\ LastKey
    BY PlanInvParts
  <1>2. PICK s : Accesses(s, srcs) /\ Adds(plan, plan', s)
    BY DEF ReadsOnly
  <1>3. /\ Adding(s) /\ DOMAIN plan' = Fields
        /\ plan.parents' = plan.parents /\ plan.calls' = plan.calls
    BY <1>2 DEF Adds, Adding
  <1>4. /\ s.op \notin Brackets4 \cup {"EPK", "SPK"}
        /\ {s.src, s.host} \subseteq srcs \cup {0}
    BY <1>2 DEF Accesses, Brackets4
  <1>5. Prev(plan) \in Nat /\ \A r \in Readable(Prev(plan)) : r \in Nat
    BY <1>1, TypedFacts DEF Readable
  <1>6. s.src \in Nat
    BY <1>4, <1>5
  <1> DEFINE n == Prev(plan)
  <1>7. ASSUME NEW k, k = n PROVE Reads(k + 1)' \subseteq Readable(k)
    <2>1. Reads(k + 1)' \subseteq {s.src, s.host} \ {0}
      BY <1>1, <1>3, <1>4, <1>7, NewReads DEF Brackets4
    <2> QED BY <1>4, <1>7, <2>1
  <1>8. /\ BodyInv' /\ OpsKept /\ LastKey' /\ Readable(n) \subseteq Readable(Prev(plan))'
    <2>1. s.op \notin Brackets4 /\ s.op \notin {"SPK", "EPK"}
      BY <1>4
    <2> SUFFICES ASSUME NEW k, k = n
                 PROVE BodyInv' /\ OpsKept /\ LastKey' /\ Readable(n) \subseteq Readable(Prev(plan))'
      OBVIOUS
    <2>2. Reads(k + 1)' \subseteq Readable(k)
      BY <1>7
    <2> QED BY <1>1, <1>3, <2>1, <2>2, PlainAdded
  <1>9. PlanTyped'
    <2>1. IsSequence(plan.parents') /\ IsSequence(plan.calls')
      BY <1>1, <1>3 DEF PlanTyped
    <2>2. \A i \in DOMAIN plan.calls' : DOMAIN plan.calls'[i] = {"kind", "src", "x", "last"}
      BY <1>1, <1>3 DEF PlanTyped
    <2> QED BY <1>1, <1>3, <1>6, <2>1, <2>2, TypedGrown
  <1>10. CallsFit'
    <2>1. \A i \in DOMAIN plan.calls : StillReadable(i)
      BY <1>1, <1>3, <1>8, CallsFitParts DEF StillReadable
    <2> QED BY <1>1, <1>3, <1>8, <2>1, SameCalls DEF BodyInv
  <1> QED BY <1>8, <1>9, <1>10, PlanInvParts

\* A key begins.
LEMMA KeyStep ==
  ASSUME PlanInv, plan.ok, In = "projection", NEW s, Adding(s), NEW x,
         s.op = "SPK", s.src = Call.src + 1, DOMAIN plan' = Fields, plan.parents' = plan.parents,
         plan.calls' = Append(plan.calls, [kind |-> "key", src |-> Call.src + 1,
                                           x |-> x, last |-> FALSE])
  PROVE  PlanInv'
  <1> SUFFICES ASSUME NEW L, L = Len(plan.calls), NEW n, n = Prev(plan),
                      NEW start, start = Call.src + 1
               PROVE  PlanInv'
    OBVIOUS
  <1> DEFINE c == [kind |-> "key", src |-> start, x |-> x, last |-> FALSE]
  <1>1. PlanTyped /\ BodyInv /\ CallsFit /\ LastKey
    BY PlanInvParts
  <1>2. L \in Nat \ {0} /\ Call = plan.calls[L] /\ Call.kind = "projection" /\ n \in Nat
    BY <1>1, CallIs, TypedFacts
  <1>3. start \in Open /\ start \in 1..n /\ start \in Readable(n)
    <2>1. L \in 1..Len(plan.calls) /\ plan.calls[L].kind \in {"filter", "projection"}
      BY <1>2
    <2> QED BY <1>1, <1>2, <2>1, BracketIs, OpenReadable
  <1>4. /\ IsSequence(plan.calls')
        /\ DOMAIN plan.calls' = 1..(L + 1) /\ Len(plan.calls') = L + 1
        /\ \A i \in 1..L : plan.calls'[i] = plan.calls[i]
        /\ plan.calls'[L + 1] = c
    BY <1>1, AppendFacts DEF PlanTyped
  <1>5. \A i \in 1..(L + 1) : i \in 1..L \/ i = L + 1
    BY <1>2
  <1>6. s.op \notin Brackets4 /\ Reads(n + 1)' \subseteq Readable(n)
    BY <1>1, NewReads DEF Brackets4
  <1>7. BodyInv' /\ OpsKept /\ LastKey' /\ Readable(n) \subseteq Readable(Prev(plan))'
    <2>1. L \in 1..Len(plan.calls) /\ plan.calls[L].kind = "projection" /\ L = Len(plan.calls)
      BY <1>2
    <2>2. InLast(start)
      BY <1>1, <1>2, <2>1, InnermostIs
    <2> QED BY <1>1, <1>6, <2>2, PlainAdded
  <1>8. PlanTyped'
    <2>1. IsSequence(plan.parents')
      BY <1>1 DEF PlanTyped
    <2>2. DOMAIN c = {"kind", "src", "x", "last"}
      OBVIOUS
    <2>3. DOMAIN plan.calls = 1..L
      BY <1>1, TypedFacts
    <2> HIDE DEF c
    <2>4. \A i \in DOMAIN plan.calls' : DOMAIN plan.calls'[i] = {"kind", "src", "x", "last"}
      BY <1>1, <1>4, <1>5, <2>2, <2>3 DEF PlanTyped
    <2>5. s.src \in Nat
      BY <1>2, <1>3
    <2> QED BY <1>1, <1>4, <2>1, <2>4, <2>5, TypedGrown
  <1>9. \A i \in 1..(L + 1) : StillReadable(i)
    <2> SUFFICES ASSUME NEW i \in 1..(L + 1) PROVE StillReadable(i)
      OBVIOUS
    <2>1. CASE i \in 1..L
      <3>1. plan.calls[i].src \in {0} \cup Readable(n)
        BY <1>1, <2>1, CallsReadable
      <3> QED BY <1>4, <1>7, <2>1, <3>1 DEF StillReadable
    <2>2. CASE i = L + 1
      <3>1. plan.calls'[i].src = start
        BY <1>4, <2>2
      <3> QED BY <1>3, <1>7, <3>1 DEF StillReadable
    <2> QED BY <1>5, <2>1, <2>2
  <1>10. CallsFit'
    <2>1. plan.calls'[L + 1].kind \notin {"filter", "projection"}
      BY <1>4
    <2>2. KeyFits(L + 1)'
      <3>1. L + 1 > 1 /\ L + 1 - 1 = L /\ L \in 1..L
        BY <1>2
      <3>2. /\ plan.calls'[L + 1 - 1].kind = "projection"
            /\ plan.calls'[L + 1].src = plan.calls'[L + 1 - 1].src + 1
        BY <1>2, <1>4, <3>1
      <3> QED BY <3>1, <3>2 DEF KeyFits
    <2>3. \A i \in 1..L : /\ plan.calls'[i].kind = plan.calls[i].kind
                          /\ plan.calls'[i].src = plan.calls[i].src
      BY <1>4
    <2> QED BY <1>1, <1>4, <1>7, <1>9, <2>1, <2>2, <2>3, CallPushed DEF BodyInv
  <1> QED BY <1>7, <1>8, <1>10, PlanInvParts

\* A key or an operator ends.
LEMMA ReturnStep ==
  ASSUME PlanInv, plan.ok, In \in {"key", "operator"}, NEW s, Adding(s),
         s.op = (IF In = "key" THEN "EPK" ELSE "NO"), s.src = Call.src,
         In = "operator" => HasStatement /\ s.host = Prev(plan),
         DOMAIN plan' = Fields, plan.parents' = plan.parents, plan.calls' = Front(plan.calls)
  PROVE  PlanInv'
  <1> SUFFICES ASSUME NEW n, n = Prev(plan) PROVE PlanInv'
    OBVIOUS
  <1>1. PlanTyped /\ BodyInv /\ CallsFit /\ LastKey
    BY PlanInvParts
  <1>2. /\ Len(plan.calls) \in Nat \ {0} /\ Call = plan.calls[Len(plan.calls)]
        /\ Call.kind = In /\ n \in Nat
    BY <1>1, CallIs, TypedFacts
  <1>3. PICK L \in Nat : L + 1 = Len(plan.calls)
    BY <1>2, OneLess
  <1>4. /\ IsSequence(plan.calls') /\ DOMAIN plan.calls' = 1..L
        /\ Len(plan.calls') = L
        /\ \A i \in 1..L : plan.calls'[i] = plan.calls[i]
        /\ \A i \in DOMAIN plan.calls' : DOMAIN plan.calls'[i] = {"kind", "src", "x", "last"}
    BY <1>1, <1>3, CallsPopped
  <1>5. /\ Call.src \in {0} \cup Readable(n) /\ Call.src \in Nat /\ KeyFits(L + 1)
    <2>1. L + 1 \in 1..Len(plan.calls)
      BY <1>3
    <2> QED BY <1>1, <1>2, <1>3, <2>1, CallsReadable
  <1>6. n # 0
    <2>1. CASE In = "operator"
      BY <2>1 DEF HasStatement
    <2>2. CASE In = "key"
      <3>1. L \in 1..Len(plan.calls) /\ plan.calls[L].kind \in {"filter", "projection"}
        <4>1. L + 1 > 1 /\ plan.calls[L + 1 - 1].kind = "projection"
          BY <1>2, <1>3, <1>5, <2>2 DEF KeyFits
        <4>2. L + 1 - 1 = L
          BY <1>3
        <4> QED BY <1>3, <4>1, <4>2
      <3>2. plan.calls[L].src + 1 \in 1..n
        BY <1>1, <3>1, BracketIs
      <3> QED BY <1>2, <3>2
    <2> QED BY <2>1, <2>2
  <1>7. n \in Readable(n)
    <2>1. OpOf(n) # "EPK"
      BY <1>1, <1>6 DEF LastKey, HasStatement
    <2> QED BY <1>1, <1>6, <2>1, LastReadable
  <1>8. Reads(n + 1)' \subseteq Readable(n)
    <2>1. CASE In = "key"
      <3>1. s.op = "EPK"
        BY <2>1
      <3>2. Reads(n + 1)' = {n}
        BY <1>1, <3>1, NewReads
      <3> QED BY <1>7, <3>2
    <2>2. CASE In = "operator"
      <3>1. Reads(n + 1)' = {s.src, s.host} \ {0}
        BY <1>1, <2>2, NewReads
      <3> QED BY <1>5, <1>7, <2>2, <3>1
    <2> QED BY <2>1, <2>2
  <1>9. /\ BodyInv' /\ OpsKept /\ Readable(n) \subseteq Readable(Prev(plan))'
        /\ s.op # "EPK" => LastKey'
    <2>1. s.op \notin Brackets4
      BY DEF Brackets4
    <2>2. ASSUME In = "key" PROVE InLast(s.src)
      <3>1. /\ L + 1 > 1 /\ plan.calls[L + 1 - 1].kind = "projection"
            /\ plan.calls[L + 1].src = plan.calls[L + 1 - 1].src + 1
            /\ plan.calls[L + 1].kind = "key"
        BY <1>2, <1>3, <1>5, <2>2 DEF KeyFits
      <3>2. L + 1 - 1 = L /\ L \in 1..Len(plan.calls)
        BY <1>3, <3>1
      <3>3. InLast(plan.calls[L].src + 1)
        BY <1>1, <1>3, <3>1, <3>2, InnermostIs
      <3> QED BY <1>2, <1>3, <3>1, <3>2, <3>3
    <2> QED BY <1>1, <1>8, <2>1, <2>2, PlainAdded
  <1>10. PlanTyped'
    <2>1. IsSequence(plan.parents')
      BY <1>1 DEF PlanTyped
    <2>2. s.src \in Nat
      BY <1>5
    <2> QED BY <1>1, <1>4, <2>1, <2>2, TypedGrown
  <1>11. \A i \in 1..L : StillReadable(i)
    <2> SUFFICES ASSUME NEW i \in 1..L PROVE StillReadable(i)
      OBVIOUS
    <2>1. i \in 1..Len(plan.calls)
      BY <1>3
    <2>2. plan.calls[i].src \in {0} \cup Readable(n)
      BY <1>1, <2>1, CallsReadable
    <2> QED BY <1>4, <1>9, <2>2 DEF StillReadable
  <1>12. CallsFit'
    <2>1. plan.calls[L + 1].kind \notin {"filter", "projection"}
      BY <1>2, <1>3
    <2> QED BY <1>1, <1>3, <1>9, <1>11, <2>1, CallPopped DEF BodyInv
  <1>13. LastKey'
    <2>1. CASE In = "operator"
      BY <1>9, <2>1
    <2>2. CASE In = "key"
      <3>1. L > 0 /\ plan.calls[L].kind = "projection"
        <4>1. L + 1 > 1 /\ plan.calls[L + 1 - 1].kind = "projection"
          BY <1>2, <1>3, <1>5, <2>2 DEF KeyFits
        <4>2. L + 1 - 1 = L
          BY <1>3
        <4> QED BY <1>3, <4>1, <4>2
      <3>2. plan.calls' # <<>>
        <4>1. plan.calls' = <<>> => Len(plan.calls') = 0
          BY <1>4, SequenceFacts
        <4> QED BY <1>3, <1>4, <3>1, <4>1
      <3>3. plan.calls'[Len(plan.calls')].kind = "projection"
        BY <1>3, <1>4, <3>1
      <3>4. In' = "projection"
        BY <3>2, <3>3 DEF In, Call, Last
      <3> QED BY <3>4 DEF LastKey
    <2> QED BY <2>1, <2>2
  <1> QED BY <1>9, <1>10, <1>12, <1>13, PlanInvParts

-----------------------------------------------------------------------------
(* Filters and projections begin and end.                                  *)

LEMMA OpenStep ==
  ASSUME PlanInv, plan.ok, In # "projection", NEW n, n = Prev(plan), n # 0,
         NEW kind \in {"filter", "projection"}, NEW s, Adding(s),
         s.op = (IF kind = "filter" THEN "SFT" ELSE "SPJ"), s.src = n, s.host = 0,
         NEW x, DOMAIN plan' = Fields, plan.parents' = Append(plan.parents, n + 1),
         plan.calls' = Append(plan.calls, [kind |-> kind, src |-> n, x |-> x, last |-> FALSE])
  PROVE  PlanInv'
  <1> SUFFICES ASSUME NEW L, L = Len(plan.calls) PROVE PlanInv'
    OBVIOUS
  <1> DEFINE c == [kind |-> kind, src |-> n, x |-> x, last |-> FALSE]
  <1>1. PlanTyped /\ BodyInv /\ CallsFit /\ LastKey
    BY PlanInvParts
  <1>2. L \in Nat /\ n \in Nat
    BY <1>1, TypedFacts
  <1>3. n \in Readable(n)
    <2>1. OpOf(n) # "EPK"
      BY <1>1 DEF LastKey, HasStatement
    <2> QED BY <1>1, <2>1, LastReadable
  <1>4. /\ IsSequence(plan.calls')
        /\ DOMAIN plan.calls' = 1..(L + 1) /\ Len(plan.calls') = L + 1
        /\ \A i \in 1..L : plan.calls'[i] = plan.calls[i]
        /\ plan.calls'[L + 1] = c
    BY <1>1, AppendFacts DEF PlanTyped
  <1>5. \A i \in 1..(L + 1) : i \in 1..L \/ i = L + 1
    BY <1>2
  <1>6. s.op \in {"SFT", "SPJ"} /\ s.op \notin {"EFT", "EPJ"} /\ Reads(n + 1)' \subseteq Readable(n)
    <2>1. s.op \in {"SFT", "SPJ"}
      OBVIOUS
    <2>2. Reads(n + 1)' = {s.src, s.host} \ {0}
      BY <1>1, <2>1, NewReads
    <2> QED BY <1>3, <2>1, <2>2
  <1>7. /\ BodyInv' /\ OpsKept /\ LastKey' /\ Readable(n) \subseteq Readable(Prev(plan))'
        /\ OpOf(n + 1)' = s.op
    <2>1. BodyInv'
      BY <1>1, <1>6, StartBody
    <2>2. OpsKept /\ Prev(plan)' = n + 1 /\ OpOf(n + 1)' = s.op
      BY <1>1, Grown DEF OpsKept
    <2>3. Readable(Prev(plan))' = Readable(n + 1)' /\ OpOf(Prev(plan))' = s.op
      BY <2>2, AtLast
    <2>4. Readable(n) \subseteq Readable(n + 1)'
      BY <1>1, <1>6, ReadableGrown
    <2>5. LastKey'
      BY <1>6, <2>3 DEF LastKey
    <2> QED BY <2>1, <2>2, <2>3, <2>4, <2>5
  <1>8. PlanTyped'
    <2>1. IsSequence(plan.parents')
      BY <1>1, AppendFacts DEF PlanTyped
    <2>2. DOMAIN c = {"kind", "src", "x", "last"}
      OBVIOUS
    <2>3. DOMAIN plan.calls = 1..L
      BY <1>1, TypedFacts
    <2> HIDE DEF c
    <2>4. \A i \in DOMAIN plan.calls' : DOMAIN plan.calls'[i] = {"kind", "src", "x", "last"}
      BY <1>1, <1>4, <1>5, <2>2, <2>3 DEF PlanTyped
    <2>5. s.src \in Nat
      BY <1>2
    <2> QED BY <1>1, <1>4, <2>1, <2>4, <2>5, TypedGrown
  <1>9. \A i \in 1..(L + 1) : StillReadable(i)
    <2> SUFFICES ASSUME NEW i \in 1..(L + 1) PROVE StillReadable(i)
      OBVIOUS
    <2>1. CASE i \in 1..L
      <3>1. plan.calls[i].src \in {0} \cup Readable(n)
        BY <1>1, <2>1, CallsReadable
      <3> QED BY <1>4, <1>7, <2>1, <3>1 DEF StillReadable
    <2>2. CASE i = L + 1
      <3>1. plan.calls'[i].src = n
        BY <1>4, <2>2
      <3> QED BY <1>3, <1>7, <3>1 DEF StillReadable
    <2> QED BY <1>5, <2>1, <2>2
  <1>10. CallsFit'
    <2>1. plan.calls'[L + 1].kind = kind /\ plan.calls'[L + 1].src = n
      BY <1>4
    <2>2. OpOf(n + 1)' = (IF plan.calls'[L + 1].kind = "filter" THEN "SFT" ELSE "SPJ")
      BY <1>7, <2>1
    <2>3. Open \subseteq Starts
      BY <1>1 DEF BodyInv
    <2>4. plan.calls'[L + 1].kind \in {"filter", "projection"}
      BY <2>1
    <2>5. /\ DOMAIN plan.calls' = 1..(L + 1) /\ Len(plan.calls') = L + 1
          /\ \A i \in 1..L : plan.calls'[i] = plan.calls[i]
      BY <1>4
    <2>6. PlanTyped /\ CallsFit /\ OpsKept
      BY <1>1, <1>7
    <2> HIDE DEF c
    <2> QED BY <1>9, <2>1, <2>2, <2>3, <2>4, <2>5, <2>6, BracketPushed
  <1> QED BY <1>7, <1>8, <1>10, PlanInvParts

LEMMA CloseStep ==
  ASSUME PlanInv, plan.ok, In \in {"filter", "projection"}, NEW s, Adding(s),
         s.op = (IF In = "filter" THEN "EFT" ELSE "EPJ"), s.src = Call.src,
         DOMAIN plan' = Fields, plan.parents' = Front(plan.parents),
         plan.calls' = Front(plan.calls)
  PROVE  PlanInv'
  <1> SUFFICES ASSUME NEW n, n = Prev(plan), NEW start, start = Call.src + 1 PROVE PlanInv'
    OBVIOUS
  <1>1. PlanTyped /\ BodyInv /\ CallsFit /\ LastKey
    BY PlanInvParts
  <1>2. /\ Len(plan.calls) \in Nat \ {0} /\ Call = plan.calls[Len(plan.calls)]
        /\ Call.kind = In /\ n \in Nat
    BY <1>1, CallIs, TypedFacts
  <1>3. PICK L \in Nat : L + 1 = Len(plan.calls)
    BY <1>2, OneLess
  <1>4. /\ IsSequence(plan.calls') /\ DOMAIN plan.calls' = 1..L
        /\ Len(plan.calls') = L
        /\ \A i \in 1..L : plan.calls'[i] = plan.calls[i]
        /\ \A i \in DOMAIN plan.calls' : DOMAIN plan.calls'[i] = {"kind", "src", "x", "last"}
    BY <1>1, <1>3, CallsPopped
  <1>5. /\ start \in Open /\ start \in 1..n /\ plan.parents # <<>> /\ Last(plan.parents) = start
        /\ OpOf(start) = (IF In = "filter" THEN "SFT" ELSE "SPJ")
        /\ \A i \in 1..(L + 1) : plan.calls[i].src <= Call.src
    <2>1. L + 1 \in 1..Len(plan.calls) /\ plan.calls[L + 1].kind \in {"filter", "projection"}
      BY <1>2, <1>3
    <2> QED BY <1>1, <1>2, <1>3, <2>1, BracketIs
  <1>6. Call.src \in Nat
    <2>1. L + 1 \in 1..Len(plan.calls)
      BY <1>3
    <2> QED BY <1>1, <1>2, <1>3, <2>1, CallsReadable
  <1>7. s.op \in {"EFT", "EPJ"} /\ s.op = (IF OpOf(start) = "SFT" THEN "EFT" ELSE "EPJ")
    BY <1>5
  <1>8. Reads(n + 1)' \subseteq Readable(n)
    <2>1. CASE In = "filter"
      <3>1. s.op = "EFT" /\ n # 0
        BY <1>2, <1>5, <2>1
      <3>2. OpOf(n) # "EPK"
        BY <1>1, <2>1, <3>1 DEF LastKey, HasStatement
      <3>3. n \in Readable(n)
        BY <1>1, <3>1, <3>2, LastReadable
      <3>4. Reads(n + 1)' = {n}
        BY <1>1, <3>1, NewReads
      <3> QED BY <3>3, <3>4
    <2>2. CASE In = "projection"
      <3>1. s.op = "EPJ"
        BY <2>2
      <3>2. Reads(n + 1)' = {}
        BY <1>1, <3>1, NewReads
      <3> QED BY <3>2
    <2> QED BY <2>1, <2>2
  <1>9. BodyInv'
    BY <1>1, <1>5, <1>7, <1>8, EndBody
  <1>10. /\ OpsKept /\ Prev(plan)' = n + 1 /\ Readable(Prev(plan))' = Readable(n + 1)'
         /\ LastKey'
    <2>1. OpsKept /\ Prev(plan)' = n + 1 /\ OpOf(n + 1)' = s.op
      BY <1>1, Grown DEF OpsKept
    <2>2. Readable(Prev(plan))' = Readable(n + 1)' /\ OpOf(Prev(plan))' = s.op
      BY <2>1, AtLast
    <2>3. LastKey'
      BY <1>7, <2>2 DEF LastKey
    <2> QED BY <2>1, <2>2, <2>3
  <1>11. PlanTyped'
    <2>1. IsSequence(plan.parents')
      BY <1>1, <1>5, FrontFacts DEF PlanTyped
    <2> QED BY <1>1, <1>4, <1>6, <2>1, TypedGrown
  <1>12. \A i \in 1..L : StillReadable(i)
    <2> SUFFICES ASSUME NEW i \in 1..L PROVE StillReadable(i)
      OBVIOUS
    <2>1. i \in 1..Len(plan.calls) /\ i \in 1..(L + 1)
      BY <1>3
    <2>2. /\ plan.calls[i].src \in {0} \cup Readable(n) /\ plan.calls[i].src \in 0..n
          /\ plan.calls[i].src <= Call.src
      BY <1>1, <1>5, <2>1, CallsReadable
    <2>3. plan.calls[i].src \notin (s.src + 1)..n
      BY <1>2, <1>6, <2>2
    <2>4. plan.calls[i].src \in {0} \cup Readable(n + 1)'
      BY <1>1, <1>7, <2>2, <2>3, ReadableGrown
    <2> QED BY <1>4, <1>10, <2>4 DEF StillReadable
  <1>13. CallsFit'
    <2>1. plan.calls[L + 1].kind \in {"filter", "projection"}
      BY <1>2, <1>3
    <2> QED BY <1>1, <1>3, <1>10, <1>12, <2>1, CallPopped DEF BodyInv
  <1> QED BY <1>9, <1>10, <1>11, <1>13, PlanInvParts

-----------------------------------------------------------------------------
(* Every step of the parser, and where it starts.                          *)

LEMMA NewPlanInv ==
  ASSUME NEW tokens, plan = NewPlan(tokens)
  PROVE  PlanInv
  <1>1. /\ DOMAIN plan = Fields
        /\ plan.stmts = <<>> /\ plan.parents = <<>> /\ plan.calls = <<>>
    BY DEF NewPlan, Fields
  <1>2. IsSequence(<<>>) /\ Len(<<>>) = 0 /\ DOMAIN <<>> = {}
    BY EmptyFacts
  <1>3. DOMAIN plan.stmts = {} /\ DOMAIN plan.parents = {} /\ DOMAIN plan.calls = {}
    BY <1>1, <1>2
  <1>4. PlanTyped
    BY <1>1, <1>2, <1>3 DEF PlanTyped, Fields
  <1>5. Starts = {} /\ Ends = {} /\ Open = {}
    BY <1>3 DEF Starts, Ends, Open
  <1>6. BodyInv
    <2>1. BracketsNest
      BY <1>5 DEF BracketsNest
    <2>2. ReadsInScope
      BY <1>3 DEF ReadsInScope
    <2>3. Increasing
      BY <1>3 DEF Increasing
    <2>4. KeysFit
      BY <1>3 DEF KeysFit
    <2> QED BY <1>5, <2>1, <2>2, <2>3, <2>4 DEF BodyInv
  <1>7. Brackets(Len(plan.calls)) = {}
    BY <1>1, <1>2 DEF Brackets
  <1>8. CallsFit
    <2>1. Len(plan.parents) = Cardinality(Brackets(Len(plan.calls)))
      BY <1>1, <1>2, <1>7, FS_EmptySet
    <2> QED BY <1>3, <1>7, <2>1, CallsFitParts
  <1>9. LastKey
    BY <1>1, <1>2 DEF LastKey, HasStatement, Prev
  <1> QED BY <1>4, <1>6, <1>8, <1>9, PlanInvParts

LEMMA NearReadable ==
  ASSUME PlanInv, plan.ok, In # "projection"
  PROVE  /\ Near(plan) \subseteq Readable(Prev(plan))
         /\ HasStatement => Prev(plan) \in Readable(Prev(plan))
  <1>1. PlanTyped /\ BodyInv /\ LastKey
    BY PlanInvParts
  <1>2. HasStatement => Prev(plan) \in Readable(Prev(plan))
    BY <1>1, LastReadable DEF LastKey, HasStatement
  <1>3. plan.stmts # <<>> => HasStatement
    BY <1>1, SequenceFacts DEF PlanTyped, HasStatement, Prev
  <1>4. Range(plan.parents) = Open
    BY DEF Range, Open
  <1>5. Range(plan.parents) \subseteq Readable(Prev(plan))
    BY <1>1, <1>4, OpenReadable
  <1> QED BY <1>2, <1>3, <1>5 DEF Near

LEMMA NamesKept ==
  ASSUME PlanInv, plan.ok, ParseDot \/ ReadLiteral \/ ReadName \/ ReadRow \/ ReadSlice
  PROVE  PlanInv'
  <1>1. PlanTyped /\ DOMAIN plan = Fields
    BY PlanInvParts, TypedFacts
  <1>2. In # "projection"
    BY DEF ParseDot, ReadLiteral, ReadName, ReadRow, ReadSlice, Reading
  <1>3. CASE ParseDot
    BY <1>1, <1>3, SkipFacts, SkipStep DEF ParseDot
  <1>4. CASE ReadLiteral
    BY <1>1, <1>4, LiteralReads, ReadStep DEF ReadLiteral
  <1>5. CASE ReadName
    <2>1. ReadsOnly(plan, ParseIdentifier(plan), Near(plan))
      BY <1>1, IdentifierReads DEF PlanTyped
    <2> QED BY <1>2, <1>5, <2>1, NearReadable, ReadStep DEF ReadName
  <1>6. CASE ReadRow \/ ReadSlice
    <2>1. HasStatement /\ plan' \in {ParseRow(plan), ParseSlice(plan)}
      BY <1>6 DEF ReadRow, ReadSlice
    <2>2. ReadsOnly(plan, plan', {Prev(plan)})
      BY <1>1, <2>1, RowReads
    <2>3. {Prev(plan)} \subseteq Readable(Prev(plan))
      BY <1>2, <2>1, NearReadable
    <2> QED BY <2>2, <2>3, ReadStep
  <1> QED BY <1>3, <1>4, <1>5, <1>6

LEMMA BracketsKept ==
  ASSUME PlanInv, plan.ok, OpenFilter \/ OpenProjection \/ CloseFilter \/ CloseProjection
  PROVE  PlanInv'
  <1>1. PlanTyped /\ DOMAIN plan = Fields
    BY PlanInvParts, TypedFacts
  <1>2. SamePlan(plan, Skip(plan)) /\ DOMAIN Skip(plan) = Fields
    BY <1>1, SkipFacts DEF SamePlan
  <1> SUFFICES ASSUME NEW n, n = Prev(plan) PROVE PlanInv'
    OBVIOUS
  <1>3. ASSUME NEW kind \in {"filter", "projection"}, NEW op, NEW x,
               op = (IF kind = "filter" THEN "SFT" ELSE "SPJ"),
               In # "projection", HasStatement,
               plan' = AddStatement(Entered(Skip(plan), kind, n, x),
                                    [NoStatement EXCEPT !.op = op, !.src = n])
        PROVE  PlanInv'
    <2> DEFINE p == Entered(Skip(plan), kind, n, x)
               s == [NoStatement EXCEPT !.op = op, !.src = n]
    <2>1. /\ DOMAIN p = Fields
          /\ p.stmts = plan.stmts /\ p.parents = plan.parents
          /\ p.calls = Append(plan.calls, [kind |-> kind, src |-> n, x |-> x, last |-> FALSE])
      BY <1>2, EnteredFacts DEF SamePlan
    <2>2. s.op = op /\ s.src = n /\ s.host = 0
      BY DEF NoStatement
    <2> HIDE DEF p, s
    <2>3. op \in {"SFT", "SPJ"}
      BY <1>3
    <2>4. plan' = AddStatement(p, s)
      BY <1>3 DEF p, s
    <2>5. /\ DOMAIN plan' = Fields /\ plan.stmts' = Append(p.stmts, s)
          /\ plan.calls' = p.calls /\ plan.parents' = Append(p.parents, Len(p.stmts) + 1)
      BY <2>1, <2>2, <2>3, <2>4, AddFacts
    <2>6. Adding(s) /\ plan.parents' = Append(plan.parents, n + 1)
      BY <2>1, <2>5 DEF Adding, Prev
    <2>7. plan.calls' = Append(plan.calls, [kind |-> kind, src |-> n, x |-> x, last |-> FALSE])
      BY <2>1, <2>5
    <2>8. n # 0 /\ s.op = (IF kind = "filter" THEN "SFT" ELSE "SPJ")
      BY <1>3, <2>2 DEF HasStatement
    <2> QED BY <1>3, <2>2, <2>5, <2>6, <2>7, <2>8, OpenStep
  <1>4. ASSUME NEW op, op = (IF In = "filter" THEN "EFT" ELSE "EPJ"),
               In \in {"filter", "projection"},
               plan' = AddStatement(Left(Skip(plan)),
                                    [NoStatement EXCEPT !.op = op, !.src = Call.src])
        PROVE  PlanInv'
    <2> SUFFICES ASSUME NEW src, src = Call.src PROVE PlanInv'
      OBVIOUS
    <2> DEFINE p == Left(Skip(plan))
               s == [NoStatement EXCEPT !.op = op, !.src = src]
    <2>1. /\ DOMAIN p = Fields
          /\ p.stmts = plan.stmts /\ p.parents = plan.parents /\ p.calls = Front(plan.calls)
      BY <1>2, LeftFacts DEF SamePlan
    <2>2. s.op = op /\ s.src = src
      BY DEF NoStatement
    <2>3. plan' = AddStatement(p, s)
      BY <1>4
    <2> HIDE DEF p, s
    <2>4. op \in {"EFT", "EPJ"}
      BY <1>4
    <2>5. /\ DOMAIN plan' = Fields /\ plan.stmts' = Append(p.stmts, s)
          /\ plan.calls' = p.calls /\ plan.parents' = Front(p.parents)
      BY <2>1, <2>2, <2>3, <2>4, AddFacts
    <2>6. Adding(s) /\ plan.parents' = Front(plan.parents) /\ plan.calls' = Front(plan.calls)
      BY <2>1, <2>5 DEF Adding
    <2>7. s.op = (IF In = "filter" THEN "EFT" ELSE "EPJ") /\ s.src = Call.src
      BY <1>4, <2>2
    <2> QED BY <1>4, <2>5, <2>6, <2>7, CloseStep
  <1>5. CASE OpenFilter
    BY <1>3, <1>5 DEF OpenFilter, Reading
  <1>6. CASE OpenProjection
    BY <1>3, <1>6 DEF OpenProjection, Reading
  <1>7. CASE CloseFilter
    BY <1>4, <1>7 DEF CloseFilter, Ending
  <1>8. CASE CloseProjection
    BY <1>4, <1>8 DEF CloseProjection, Ending
  <1> QED BY <1>5, <1>6, <1>7, <1>8

LEMMA EnteredSkipped ==
  ASSUME NEW p, DOMAIN p = Fields, NEW kind, NEW src, NEW x
  PROVE  LET q == Entered(Skip(p), kind, src, x)
         IN  /\ DOMAIN q = Fields
             /\ q.stmts = p.stmts /\ q.parents = p.parents
             /\ q.calls = Append(p.calls, [kind |-> kind, src |-> src, x |-> x, last |-> FALSE])
  BY EnteredFacts, SkipFacts DEF SamePlan

LEMMA EnterAfterSkip ==
  ASSUME PlanInv, plan.ok, In # "projection", NEW kind \in {"parenthesis", "operator"},
         NEW src \in {0, Prev(plan)}, NEW x, plan' = Entered(Skip(plan), kind, src, x)
  PROVE  PlanInv'
  <1>1. PlanTyped /\ DOMAIN plan = Fields
    BY PlanInvParts, TypedFacts
  <1>2. /\ DOMAIN plan' = Fields /\ plan.stmts' = plan.stmts /\ plan.parents' = plan.parents
        /\ plan.calls' = Append(plan.calls, [kind |-> kind, src |-> src, x |-> x,
                                             last |-> FALSE])
    BY <1>1, EnteredSkipped
  <1>3. /\ IsSequence(plan.calls)
        /\ \A i \in 1..Len(plan.calls) : DOMAIN plan.calls[i] = {"kind", "src", "x", "last"}
    BY <1>1, TypedFacts DEF PlanTyped
  <1> QED BY <1>2, <1>3, EnterStep

LEMMA ParenthesesKept ==
  ASSUME PlanInv, plan.ok, OpenParenthesis \/ CloseParenthesis
  PROVE  PlanInv'
  <1>1. PlanTyped /\ DOMAIN plan = Fields
    BY PlanInvParts, TypedFacts
  <1>2. SamePlan(plan, Skip(plan)) /\ DOMAIN Skip(plan) = Fields
    BY <1>1, SkipFacts DEF SamePlan
  <1>3. CASE OpenParenthesis
    <2>1. In # "projection"
      BY <1>3 DEF OpenParenthesis, Reading
    <2> SUFFICES ASSUME NEW x, NEW kind, x = "", kind = "parenthesis" PROVE PlanInv'
      OBVIOUS
    <2>2. plan' = Entered(Skip(plan), kind, Prev(plan), x)
      BY <1>3, Zenon DEF OpenParenthesis
    <2> QED BY <2>1, <2>2, EnterAfterSkip
  <1>4. CASE CloseParenthesis
    <2>1. In = "parenthesis" /\ plan' = Left(Skip(plan))
      BY <1>4 DEF CloseParenthesis, Ending
    <2>2. /\ DOMAIN plan' = Fields /\ plan.stmts' = plan.stmts /\ plan.parents' = plan.parents
          /\ plan.calls' = Front(plan.calls)
      BY <1>2, <2>1, LeftFacts DEF SamePlan
    <2> QED BY <2>1, <2>2, LeaveStep
  <1> QED BY <1>3, <1>4

LEMMA KeysKept ==
  ASSUME PlanInv, plan.ok, OpenKey \/ CloseKey
  PROVE  PlanInv'
  <1>1. PlanTyped /\ DOMAIN plan = Fields
    BY PlanInvParts, TypedFacts
  <1>2. /\ SamePlan(plan, Skip(plan)) /\ DOMAIN Skip(plan) = Fields
        /\ SamePlan(plan, Skip(Skip(plan))) /\ SamePlan(plan, plan)
    BY <1>1, SkipTwice DEF SamePlan
  <1>3. CASE OpenKey
    <2> SUFFICES ASSUME NEW src, src = Call.src + 1, NEW x, x = Text(plan) PROVE PlanInv'
      OBVIOUS
    <2> DEFINE r == IF Named THEN Skip(Skip(plan)) ELSE plan
               p == Entered(r, "key", src, x)
               s == KeyStatement("SPK", src, x)
    <2>1. In = "projection" /\ plan' = AddStatement(p, s)
      BY <1>3 DEF OpenKey
    <2>2. SamePlan(plan, r) /\ DOMAIN r = Fields
      BY <1>2 DEF SamePlan
    <2> HIDE DEF r
    <2>3. /\ DOMAIN p = Fields
          /\ p.stmts = plan.stmts /\ p.parents = plan.parents
          /\ p.calls = Append(plan.calls, [kind |-> "key", src |-> src, x |-> x, last |-> FALSE])
      BY <2>2, EnteredFacts DEF SamePlan
    <2>4. s.op = "SPK" /\ s.src = src
      BY DEF KeyStatement, NoStatement
    <2> HIDE DEF p, s
    <2>5. SamePlan(p, p) /\ s.op \notin Brackets4
      BY <2>3, <2>4 DEF SamePlan, Brackets4
    <2>6. Adds(p, plan', s)
      BY <2>1, <2>3, <2>5, AddPlainFacts
    <2>7. /\ DOMAIN plan' = Fields /\ Adding(s) /\ plan.parents' = plan.parents
          /\ plan.calls' = Append(plan.calls, [kind |-> "key", src |-> src, x |-> x,
                                               last |-> FALSE])
      BY <2>3, <2>6 DEF Adds, Adding
    <2>8. plan.calls' = Append(plan.calls, [kind |-> "key", src |-> Call.src + 1, x |-> x,
                                            last |-> FALSE])
      BY <2>7
    <2> QED BY <2>1, <2>4, <2>7, <2>8, KeyStep
  <1>4. CASE CloseKey
    <2> SUFFICES ASSUME NEW src, src = Call.src, NEW x, x = Call.x,
                        NEW odds, odds = (Kind(plan) = "}" /\ Kind(Skip(plan)) \notin {"end", "}"})
                 PROVE  PlanInv'
      OBVIOUS
    <2> DEFINE l == Left(Skip(plan))
               p == Odd(l, "projection", odds)
               s == KeyStatement("EPK", src, x)
    <2>1. In = "key" /\ plan' = AddStatement(p, s)
      BY <1>4 DEF CloseKey, Ending
    <2>2. /\ DOMAIN l = Fields
          /\ l.stmts = plan.stmts /\ l.parents = plan.parents /\ l.calls = Front(plan.calls)
      BY <1>2, LeftFacts DEF SamePlan
    <2>3. SamePlan(l, p)
      BY <2>2, OddFacts
    <2>4. s.op = "EPK" /\ s.src = src
      BY DEF KeyStatement, NoStatement
    <2> HIDE DEF l, p, s
    <2>5. s.op \notin Brackets4
      BY <2>4 DEF Brackets4
    <2>6. Adds(l, plan', s)
      BY <2>1, <2>2, <2>3, <2>5, AddPlainFacts
    <2>7. /\ DOMAIN plan' = Fields /\ Adding(s) /\ plan.parents' = plan.parents
          /\ plan.calls' = Front(plan.calls)
      BY <2>2, <2>6 DEF Adds, Adding
    <2>8. /\ s.op = (IF In = "key" THEN "EPK" ELSE "NO") /\ s.src = Call.src
          /\ In \in {"key", "operator"} /\ In # "operator"
      BY <2>1, <2>4
    <2> QED BY <2>7, <2>8, ReturnStep
  <1> QED BY <1>3, <1>4

LEMMA OperatorsKept ==
  ASSUME PlanInv, plan.ok, OpenOperator \/ CloseOperator
  PROVE  PlanInv'
  <1>1. PlanTyped /\ DOMAIN plan = Fields
    BY PlanInvParts, TypedFacts
  <1>2. CASE OpenOperator
    <2> SUFFICES ASSUME NEW src, src = (IF Text(plan) = "not" THEN 0 ELSE Prev(plan)),
                        NEW x, x = Text(plan), NEW right,
                        right = (In = "operator" /\ Binds = 0 /\ Text(plan) # "not")
                 PROVE  PlanInv'
      OBVIOUS
    <2> DEFINE L == Len(plan.calls)
               p == IF In = "operator" THEN [plan EXCEPT !.calls[L].last = TRUE] ELSE plan
               q == Entered(Skip(p), "operator", src, x)
               c == [plan.calls[L] EXCEPT !.last = TRUE]
               calls == IF In = "operator" THEN [plan.calls EXCEPT ![L] = c] ELSE plan.calls
    <2>1. In # "projection" /\ plan' = Odd(q, "right", right)
      <3>1. In # "projection"
        BY <1>2 DEF OpenOperator, Reading
      <3>2. plan' = Odd(Entered(Skip(Marked), "operator", IF Text(plan) = "not" THEN 0 ELSE Prev(plan),
                                Text(plan)),
                        "right", In = "operator" /\ Binds = 0 /\ Text(plan) # "not")
        BY <1>2 DEF OpenOperator, Marked
      <3>3. Marked = p
        BY DEF Marked
      <3> HIDE DEF p
      <3> QED BY <3>1, <3>2, <3>3, Zenon
    <2>2. /\ DOMAIN p = Fields
          /\ p.stmts = plan.stmts /\ p.parents = plan.parents
          /\ p.calls = calls
      BY <1>1 DEF Fields
    <2>3. /\ IsSequence(calls) /\ Len(calls) = Len(plan.calls)
          /\ \A i \in 1..Len(plan.calls) : /\ DOMAIN calls[i] = {"kind", "src", "x", "last"}
                                           /\ calls[i].kind = plan.calls[i].kind
                                           /\ calls[i].src = plan.calls[i].src
      <3>1. /\ IsSequence(plan.calls) /\ DOMAIN plan.calls = 1..L
            /\ \A i \in 1..L : DOMAIN plan.calls[i] = {"kind", "src", "x", "last"}
        BY <1>1, TypedFacts DEF PlanTyped
      <3>2. CASE In # "operator"
        BY <3>1, <3>2
      <3>3. CASE In = "operator"
        <4>1. L \in Nat \ {0}
          BY <1>1, <3>3, CallIs
        <4>2. L \in 1..L
          BY <4>1
        <4>3. DOMAIN c = {"kind", "src", "x", "last"} /\ c.kind = plan.calls[L].kind
              /\ c.src = plan.calls[L].src
          BY <3>1, <4>2
        <4> DEFINE S == Range(plan.calls) \cup {c}
                   new == [plan.calls EXCEPT ![L] = c]
        <4>4. plan.calls \in Seq(S) /\ c \in S
          BY <3>1, SequenceIs, SeqMonotonic
        <4>5. calls = new
          BY <3>3
        <4> HIDE DEF c, S
        <4>6. /\ new \in Seq(S) /\ Len(new) = L
              /\ \A j \in 1..L : new[j] = IF j = L THEN c ELSE plan.calls[j]
          BY <4>2, <4>4, ExceptSeq
        <4>7. IsSequence(new)
          BY <4>6, SequenceOf
        <4> HIDE DEF new, L
        <4>8. ASSUME NEW i \in 1..L
              PROVE  /\ DOMAIN new[i] = {"kind", "src", "x", "last"}
                     /\ new[i].kind = plan.calls[i].kind /\ new[i].src = plan.calls[i].src
          <5>1. CASE i = L
            BY <4>3, <4>6, <5>1
          <5>2. CASE i # L
            BY <3>1, <4>6, <5>2
          <5> QED BY <5>1, <5>2
        <4>9. L = Len(plan.calls)
          BY DEF L
        <4> HIDE DEF calls
        <4> QED BY <4>5, <4>6, <4>7, <4>8, <4>9
      <3> QED BY <3>2, <3>3
    <2> HIDE DEF p, calls
    <2>4. /\ DOMAIN q = Fields
          /\ q.stmts = plan.stmts /\ q.parents = plan.parents
          /\ q.calls = Append(calls, [kind |-> "operator", src |-> src, x |-> x, last |-> FALSE])
      BY <2>2, EnteredSkipped
    <2> HIDE DEF q
    <2>5. SamePlan(q, plan')
      BY <2>1, <2>4, OddFacts
    <2>6. /\ DOMAIN plan' = Fields /\ plan.stmts' = plan.stmts /\ plan.parents' = plan.parents
          /\ plan.calls' = Append(calls, [kind |-> "operator", src |-> src, x |-> x,
                                          last |-> FALSE])
      BY <2>4, <2>5 DEF SamePlan
    <2>7. src \in {0, Prev(plan)} /\ "operator" \in {"parenthesis", "operator"}
      OBVIOUS
    <2> QED BY <2>1, <2>3, <2>6, <2>7, EnterStep
  <1>3. CASE CloseOperator
    <2> SUFFICES ASSUME NEW src, src = Call.src, NEW x, x = Call.x, NEW n, n = Prev(plan),
                        NEW cut, cut = (Call.last /\ Kind(plan) = "op" /\ Binds > 0)
                 PROVE  PlanInv'
      OBVIOUS
    <2> DEFINE l == Left(plan)
               p == Odd(l, "cutShort", cut)
               s == [NoStatement EXCEPT !.op = "NO", !.src = src, !.host = n, !.x = x]
    <2>1. In = "operator" /\ HasStatement /\ plan' = AddStatement(p, s)
      BY <1>3 DEF CloseOperator, Ending
    <2>2. /\ DOMAIN l = Fields
          /\ l.stmts = plan.stmts /\ l.parents = plan.parents /\ l.calls = Front(plan.calls)
      BY <1>1, LeftFacts
    <2>3. SamePlan(l, p)
      BY <2>2, OddFacts
    <2>4. s.op = "NO" /\ s.src = src /\ s.host = n
      BY DEF NoStatement
    <2> HIDE DEF l, p, s
    <2>5. s.op \notin Brackets4
      BY <2>4 DEF Brackets4
    <2>6. Adds(l, plan', s)
      BY <2>1, <2>2, <2>3, <2>5, AddPlainFacts
    <2>7. /\ DOMAIN plan' = Fields /\ Adding(s) /\ plan.parents' = plan.parents
          /\ plan.calls' = Front(plan.calls)
      BY <2>2, <2>6 DEF Adds, Adding
    <2>8. /\ s.op = (IF In = "key" THEN "EPK" ELSE "NO") /\ s.src = Call.src
          /\ In \in {"key", "operator"} /\ (In = "operator" => HasStatement /\ s.host = Prev(plan))
      BY <2>1, <2>4
    <2> QED BY <2>7, <2>8, ReturnStep
  <1> QED BY <1>2, <1>3

\* The parser keeps its invariant, whatever token comes next (ParseStatement).
LEMMA ParserKeepsPlanInv ==
  ASSUME PlanInv, ParseStep
  PROVE  PlanInv'
  <1>1. plan.ok
    BY DEF ParseStep, ParseDot, ReadLiteral, ReadName, ReadRow, ReadSlice, OpenFilter, CloseFilter,
           OpenParenthesis, CloseParenthesis, OpenProjection, OpenKey, CloseKey, CloseProjection,
           OpenOperator, CloseOperator, Unexpected, Reading, Ending
  <1>2. CASE Unexpected
    BY <1>2, BadStep DEF Unexpected
  <1> QED BY <1>1, <1>2, NamesKept, BracketsKept, ParenthesesKept, KeysKept, OperatorsKept
          DEF ParseStep

-----------------------------------------------------------------------------
(* A plan that is read to its end: every loop has its end.                 *)

Complete == PlanTyped /\ BodyInv /\ Open = {}

LEMMA ParsedComplete ==
  ASSUME PlanInv, plan.ok, plan.calls = <<>>
  PROVE  Complete
  <1>1. PlanTyped /\ BodyInv /\ CallsFit
    BY PlanInvParts
  <1>2. Brackets(Len(plan.calls)) = {}
    BY EmptyFacts DEF Brackets
  <1>3. Len(plan.parents) = 0
    BY <1>1, <1>2, FS_EmptySet DEF CallsFit
  <1>4. DOMAIN plan.parents = {}
    BY <1>1, <1>3, TypedFacts
  <1> QED BY <1>1, <1>4 DEF Complete, Open

\* Each end ends one loop, after its start, and each loop has one end.
LEMMA EndsFacts ==
  ASSUME Complete
  PROVE  /\ Prev(plan) \in Nat /\ DOMAIN plan.stmts = 1..Prev(plan)
         /\ Starts \subseteq 1..Prev(plan) /\ Ends \subseteq 1..Prev(plan)
         /\ \A e \in Ends : /\ Opening(e) \in Starts /\ Opening(e) < e
                            /\ OpOf(e) = (IF OpOf(Opening(e)) = "SFT" THEN "EFT" ELSE "EPJ")
         /\ \A e, f \in Ends : e < f => e < Opening(f) \/ Opening(f) < Opening(e)
         /\ \A s \in Starts : \E e \in Ends : Opening(e) = s
         /\ \A e, f \in Ends : Opening(e) = Opening(f) => e = f
  <1>1. /\ Prev(plan) \in Nat /\ DOMAIN plan.stmts = 1..Prev(plan)
        /\ Starts \subseteq 1..Prev(plan) /\ Ends \subseteq 1..Prev(plan)
    BY TypedFacts DEF Complete
  <1>2. \A e \in Ends : /\ Opening(e) \in Starts /\ Opening(e) < e
                        /\ OpOf(e) = (IF OpOf(Opening(e)) = "SFT" THEN "EFT" ELSE "EPJ")
    BY DEF Complete, BodyInv, BracketsNest
  <1>3. \A e, f \in Ends : e < f => e < Opening(f) \/ Opening(f) < Opening(e)
    BY DEF Complete, BodyInv, BracketsNest
  <1>4. \A s \in Starts : \E e \in Ends : Opening(e) = s
    BY DEF Complete, BodyInv, BracketsNest
  <1>5. ASSUME NEW e \in Ends, NEW f \in Ends, Opening(e) = Opening(f), e < f PROVE FALSE
    <2>1. Opening(e) \in 1..Prev(plan) /\ e \in 1..Prev(plan) /\ f \in 1..Prev(plan)
      BY <1>1, <1>2
    <2>2. Opening(e) < e /\ (e < Opening(f) \/ Opening(f) < Opening(e))
      BY <1>2, <1>3, <1>5
    <2> QED BY <1>1, <1>5, <2>1, <2>2
  <1>6. \A e, f \in Ends : Opening(e) = Opening(f) => e = f
    BY <1>1, <1>5
  <1> QED BY <1>1, <1>2, <1>3, <1>4, <1>6

\* Before the end of a loop more loops of its kind have started in it than ended, at it as many.
LEMMA EndOfIs ==
  ASSUME Complete, NEW e \in Ends, NEW s, s = Opening(e)
  PROVE  EndOf(s, OpOf(s), OpOf(e)) = e
  <1> DEFINE n == Prev(plan)
             open == OpOf(s)
             close == OpOf(e)
             O(i) == {j \in s..i : OpOf(j) = open}
             C(i) == {j \in s..i : OpOf(j) = close}
             ends == {i \in s..n : Cardinality(O(i)) = Cardinality(C(i))}
  <1>1. EndOf(s, open, close) = Min(ends)
    BY DEF EndOf, OpOf, Prev
  <1>2. n \in Nat /\ s \in 1..n /\ e \in 1..n /\ s < e /\ s \in Starts
        /\ open \in {"SFT", "SPJ"} /\ close = (IF open = "SFT" THEN "EFT" ELSE "EPJ")
    BY EndsFacts DEF Starts
  <1>3. \A i \in s..n : IsFiniteSet(O(i)) /\ IsFiniteSet(C(i))
    <2> TAKE i \in s..n
    <2>1. IsFiniteSet(s..i)
      BY <1>2, FS_Interval
    <2> QED BY <2>1, FS_Subset
  <1>4. ASSUME NEW i \in s..n, i <= e, NEW c \in C(i)
        PROVE  /\ c \in Ends /\ Opening(c) \in O(i)
               /\ i < e => Opening(c) # s
    <2>1. c \in 1..n /\ c \in s..i /\ OpOf(c) = close
      BY <1>2, <1>4
    <2>2. c \in Ends
      BY <1>2, <2>1, EndsFacts DEF Ends
    <2>3. Opening(c) \in Starts /\ Opening(c) < c /\ Opening(c) \in 1..n
          /\ OpOf(c) = (IF OpOf(Opening(c)) = "SFT" THEN "EFT" ELSE "EPJ")
      BY <2>2, EndsFacts
    <2>4. OpOf(Opening(c)) = open
      <3>1. OpOf(Opening(c)) \in {"SFT", "SPJ"}
        BY <2>3 DEF Starts
      <3> QED BY <1>2, <2>1, <2>3, <3>1
    <2>5. CASE c = e
      BY <1>2, <1>4, <2>1, <2>2, <2>4, <2>5
    <2>6. CASE c # e
      <3>1. c < e
        BY <1>2, <1>4, <2>1, <2>6
      <3>2. c < s \/ s < Opening(c)
        BY <2>2, <3>1, EndsFacts
      <3>3. s < Opening(c) /\ Opening(c) \in s..i
        BY <1>2, <1>4, <2>1, <2>3, <3>2
      <3>4. Opening(c) # s
        BY <1>2, <2>3, <3>3
      <3> QED BY <2>2, <2>4, <3>3, <3>4
    <2> QED BY <2>5, <2>6
  <1>5. ASSUME NEW i \in s..n, i < e PROVE i \notin ends
    <2> DEFINE f == [c \in C(i) |-> Opening(c)]
    <2>1. i <= e
      BY <1>2, <1>5
    <2>2. f \in [C(i) -> O(i) \ {s}]
      BY <1>4, <1>5, <2>1
    <2>3. \A c, d \in C(i) : f[c] = f[d] => c = d
      BY <1>4, <2>1, EndsFacts
    <2>4. f \in Injection(C(i), O(i) \ {s})
      BY <2>2, <2>3 DEF Injection, IsInjective
    <2>5. IsFiniteSet(O(i)) /\ IsFiniteSet(C(i)) /\ s \in O(i)
      BY <1>2, <1>3
    <2>6. /\ Cardinality(O(i) \ {s}) = Cardinality(O(i)) - 1
          /\ IsFiniteSet(O(i) \ {s})
      BY <2>5, FS_RemoveElement
    <2> HIDE DEF f, O, C
    <2>7. Cardinality(C(i)) <= Cardinality(O(i)) - 1
      BY <2>4, <2>6, FS_Injection
    <2>8. Cardinality(C(i)) \in Nat /\ Cardinality(O(i)) \in Nat
      BY <2>5, FS_CardinalityType
    <2> QED BY <2>7, <2>8
  <1>6. e \in ends
    <2> DEFINE f == [c \in C(e) |-> Opening(c)]
    <2>1. e \in s..n /\ e <= e
      BY <1>2
    <2>2. f \in [C(e) -> O(e)]
      BY <1>4, <2>1
    <2>3. \A c, d \in C(e) : f[c] = f[d] => c = d
      BY <1>4, <2>1, EndsFacts
    <2>4. f \in Injection(C(e), O(e))
      BY <2>2, <2>3 DEF Injection, IsInjective
    <2>5. ASSUME NEW o \in O(e) PROVE \E c \in C(e) : f[c] = o
      <3>1. o \in 1..n /\ o \in s..e /\ OpOf(o) = open /\ o \in Starts
        BY <1>2, EndsFacts DEF Starts
      <3>2. PICK c \in Ends : Opening(c) = o
        BY <3>1, EndsFacts
      <3>3. c \in 1..n /\ o < c /\ OpOf(c) = close
        BY <1>2, <3>1, <3>2, EndsFacts
      <3>4. c <= e
        <4>1. SUFFICES ASSUME e < c PROVE FALSE
          BY <1>2, <3>3
        <4>2. e < o \/ o < s
          BY <3>2, <4>1, EndsFacts
        <4> QED BY <1>2, <3>1, <4>2
      <3>5. c \in C(e)
        BY <1>2, <3>1, <3>3, <3>4
      <3> QED BY <3>2, <3>5
    <2>6. f \in Surjection(C(e), O(e))
      BY <2>2, <2>5 DEF Surjection
    <2>7. IsFiniteSet(O(e))
      BY <1>3, <2>1
    <2> HIDE DEF f, O, C
    <2>8. Cardinality(C(e)) = Cardinality(O(e))
      BY <2>4, <2>6, <2>7, FS_Injection
    <2> QED BY <2>1, <2>8
  <1>7. \A i \in ends : e <= i
    BY <1>2, <1>5
  <1>8. Min(ends) = e
    <2>1. ends \subseteq Int
      BY <1>2
    <2> HIDE DEF ends
    <2>2. \A x \in ends : (\A y \in ends : x <= y) => x = e
      BY <1>6, <1>7, <2>1
    <2> QED BY <1>6, <1>7, <2>2 DEF Min
  <1> QED BY <1>1, <1>8

-----------------------------------------------------------------------------
(* The loops around a position, and what may be read there, as it moves.   *)

LEMMA AroundOnward ==
  ASSUME Complete, NEW t \in 0..(Prev(plan) - 1)
  PROVE  /\ t + 1 \notin Starts \cup Ends => Around(t + 1) = Around(t)
         /\ t + 1 \in Starts => Around(t + 1) = Around(t) \cup {t + 1}
         /\ t + 1 \in Ends => Around(t + 1) = Around(t) \ {Opening(t + 1)}
         /\ \A s \in Around(t) : s <= t
  <1>1. /\ Prev(plan) \in Nat /\ Starts \subseteq 1..Prev(plan) /\ Ends \subseteq 1..Prev(plan)
        /\ t \in Nat
    BY EndsFacts
  <1>2. ASSUME NEW s PROVE /\ s \in Around(t) <=> s \in Starts /\ s <= t
                                /\ \A e \in Ends : Opening(e) = s => t < e
                           /\ s \in Around(t + 1) <=> s \in Starts /\ s <= t + 1
                                /\ \A e \in Ends : Opening(e) = s => t + 1 < e
    BY DEF Around
  <1>3. \A e \in Ends : Opening(e) < e /\ Opening(e) \in 1..Prev(plan)
    BY EndsFacts
  <1>4. ASSUME t + 1 \notin Starts \cup Ends PROVE Around(t + 1) = Around(t)
    <2>1. \A s \in Starts : s <= t + 1 <=> s <= t
      BY <1>1, <1>4
    <2>2. \A e \in Ends : t < e <=> t + 1 < e
      BY <1>1, <1>4
    <2> QED BY <1>2, <2>1, <2>2
  <1>5. ASSUME t + 1 \in Starts PROVE Around(t + 1) = Around(t) \cup {t + 1}
    <2>1. t + 1 \notin Ends
      BY <1>5 DEF Starts, Ends
    <2>2. \A e \in Ends : t < e <=> t + 1 < e
      BY <1>1, <2>1
    <2>3. \A s \in Starts : s <= t + 1 <=> s <= t \/ s = t + 1
      BY <1>1
    <2>4. \A e \in Ends : Opening(e) = t + 1 => t + 1 < e
      BY <1>3
    <2>5. t + 1 <= t + 1
      BY <1>1
    <2> QED BY <1>2, <1>5, <2>2, <2>3, <2>4, <2>5
  <1>6. ASSUME t + 1 \in Ends PROVE Around(t + 1) = Around(t) \ {Opening(t + 1)}
    <2>1. t + 1 \notin Starts
      BY <1>6 DEF Starts, Ends
    <2>2. \A e \in Ends : t < e <=> t + 1 < e \/ e = t + 1
      BY <1>1
    <2>3. \A s \in Starts : s <= t + 1 <=> s <= t
      BY <1>1, <2>1
    <2>4. ~(t + 1 < t + 1)
      BY <1>1
    <2>5. \A e \in Ends : Opening(e) = Opening(t + 1) => e = t + 1
      BY <1>6, EndsFacts
    <2> QED BY <1>2, <1>6, <2>2, <2>3, <2>4, <2>5
  <1> QED BY <1>2, <1>4, <1>5, <1>6

\* At the end of a loop the position is where it is at the start, as far as loops go.
LEMMA AroundBack ==
  ASSUME Complete, NEW e \in Ends, NEW s, s = Opening(e), NEW t, t + 1 = e, t \in Nat
  PROVE  /\ s \in Around(t) /\ s <= t /\ s \in Starts
         /\ \A x \in Around(t) : x <= s
         /\ Around(s) = Around(t)
  <1>1. /\ Prev(plan) \in Nat /\ Starts \subseteq 1..Prev(plan) /\ Ends \subseteq 1..Prev(plan)
        /\ s \in Starts /\ s < e
        /\ \A f \in Ends : Opening(f) = s => f = e
    BY EndsFacts
  <1>2. ASSUME NEW x, NEW i PROVE x \in Around(i) <=> x \in Starts /\ x <= i
                                    /\ \A f \in Ends : Opening(f) = x => i < f
    BY DEF Around
  <1>3. s <= t /\ t < e
    BY <1>1
  <1>4. s \in Around(t)
    BY <1>1, <1>2, <1>3
  <1>5. ASSUME NEW x \in Around(t) PROVE x <= s /\ x \in Around(s)
    <2>1. x \in Starts /\ x <= t /\ \A f \in Ends : Opening(f) = x => t < f
      BY <1>2
    <2>2. PICK f \in Ends : Opening(f) = x
      BY <2>1, EndsFacts
    <2>3. CASE f = e
      BY <1>1, <1>3, <1>2, <2>1, <2>2, <2>3
    <2>4. CASE f # e
      <3>1. e < f
        BY <1>1, <2>1, <2>2, <2>4
      <3>2. e < x \/ x < s
        BY <2>2, <3>1, EndsFacts
      <3>3. x < s
        BY <1>1, <2>1, <3>2
      <3>4. \A g \in Ends : Opening(g) = x => s < g
        BY <1>1, <1>3, <2>1
      <3>5. x <= s
        BY <1>1, <2>1, <3>3
      <3> QED BY <1>2, <2>1, <3>4, <3>5
    <2> QED BY <2>3, <2>4
  <1>6. ASSUME NEW x \in Around(s) PROVE x \in Around(t)
    <2>1. x \in Starts /\ x <= s /\ \A f \in Ends : Opening(f) = x => s < f
      BY <1>2
    <2>2. ASSUME NEW f \in Ends, Opening(f) = x PROVE t < f
      <3>1. s < f /\ f \in 1..Prev(plan)
        BY <1>1, <2>1, <2>2
      <3>2. CASE f < e
        <4>1. f < s \/ s < x
          BY <2>2, <3>2, EndsFacts
        <4> QED BY <1>1, <2>1, <3>1, <4>1
      <3>3. CASE ~(f < e)
        BY <1>1, <3>1, <3>3
      <3> QED BY <3>2, <3>3
    <2>3. x <= t
      BY <1>1, <1>3, <2>1
    <2> QED BY <1>2, <2>1, <2>2, <2>3
  <1> QED BY <1>1, <1>3, <1>4, <1>5, <1>6

\* Past the end of a loop the position is where it was before the start.
LEMMA AroundSkip ==
  ASSUME Complete, NEW e \in Ends, NEW t \in Nat, t + 1 = Opening(e)
  PROVE  Around(e) = Around(t)
  <1>1. /\ Prev(plan) \in Nat /\ Starts \subseteq 1..Prev(plan) /\ Ends \subseteq 1..Prev(plan)
        /\ t + 1 \in Starts /\ t + 1 < e
    BY EndsFacts
  <1> DEFINE d == e - 1
  <1>2. d \in 0..(Prev(plan) - 1) /\ d \in Nat /\ d + 1 = e
    BY <1>1
  <1> HIDE DEF d
  <1>3. Around(d + 1) = Around(d) \ {t + 1}
    BY <1>2, AroundOnward
  <1>4. Around(t + 1) = Around(d)
    BY <1>2, AroundBack
  <1>5. t \in 0..(Prev(plan) - 1)
    BY <1>1
  <1>6. Around(t + 1) = Around(t) \cup {t + 1} /\ \A s \in Around(t) : s <= t
    BY <1>1, <1>5, AroundOnward
  <1>7. t + 1 \notin Around(t)
    BY <1>6
  <1> QED BY <1>2, <1>3, <1>4, <1>6, <1>7

\* What may be read after a statement that could not be read before is this one.
LEMMA ReadableOnward ==
  ASSUME Complete, NEW t \in Nat
  PROVE  /\ Readable(t + 1) \subseteq Readable(t) \cup {t + 1}
         /\ OpOf(t + 1) = "EPK" => Readable(t + 1) \subseteq Readable(t)
         /\ t + 1 \in Ends =>
              Readable(t + 1) \subseteq (Readable(t) \ (Opening(t + 1)..t)) \cup {t + 1}
         /\ Readable(0) = {}
  <1>1. \A r : r \in 1..(t + 1) <=> r \in 1..t \/ r = t + 1
    OBVIOUS
  <1>2. ASSUME NEW r, r \in Past(t) PROVE r \in Past(t + 1)
    <2>1. PICK e \in Ends : e <= t /\ r \in Opening(e)..(e - 1)
      BY <1>2, PastFacts
    <2>2. e <= t + 1
      BY <2>1, EndsFacts
    <2> QED BY <2>1, <2>2, PastFacts
  <1>3. Readable(t + 1) \subseteq Readable(t) \cup {t + 1}
    BY <1>1, <1>2 DEF Readable
  <1>4. ASSUME t + 1 \in Ends, NEW r \in Readable(t + 1) PROVE r \notin Opening(t + 1)..t
    <2>1. r \notin Past(t + 1)
      BY DEF Readable
    <2>2. r \notin Opening(t + 1)..(t + 1 - 1)
      BY <1>4, <2>1, PastFacts
    <2>3. t + 1 - 1 = t
      OBVIOUS
    <2> QED BY <2>2, <2>3
  <1>5. OpOf(t + 1) = "EPK" => t + 1 \notin Readable(t + 1)
    BY DEF Readable
  <1>6. Readable(0) = {}
    BY DEF Readable
  <1> QED BY <1>3, <1>4, <1>5, <1>6

\* What may be read at the start of a loop may be read at its end, the body apart.
LEMMA ReadableBack ==
  ASSUME Complete, NEW e \in Ends, NEW s, s = Opening(e), NEW t \in Nat, t + 1 = e
  PROVE  Readable(s) \subseteq Readable(t) \ ((s + 1)..t)
  <1>1. /\ Prev(plan) \in Nat /\ Ends \subseteq 1..Prev(plan) /\ Starts \subseteq 1..Prev(plan)
        /\ s \in Starts /\ s < e /\ \A f \in Ends : Opening(f) \in Starts
    BY EndsFacts
  <1>2. SUFFICES ASSUME NEW r \in Readable(s) PROVE r \in Readable(t) /\ r \notin (s + 1)..t
    OBVIOUS
  <1>3. r \in 1..s /\ r \notin Past(s) /\ OpOf(r) # "EPK"
    BY DEF Readable
  <1>4. r \in 1..t /\ r \notin (s + 1)..t
    BY <1>1, <1>3
  <1>5. ASSUME NEW f \in Ends, f <= t, r \in Opening(f)..(f - 1) PROVE FALSE
    <2>0. Opening(f) \in 1..Prev(plan) /\ f \in 1..Prev(plan)
      BY <1>1, <1>5
    <2>1. f < e /\ f \in 1..Prev(plan) /\ Opening(f) \in 1..Prev(plan)
      BY <1>5, <2>0
    <2>2. f < s \/ s < Opening(f)
      BY <2>1, EndsFacts
    <2>3. f <= s
      BY <1>1, <1>3, <1>5, <2>1, <2>2
    <2> QED BY <1>3, <1>5, <2>3, PastFacts
  <1>6. r \notin Past(t)
    BY <1>5, PastFacts
  <1> QED BY <1>3, <1>4, <1>6 DEF Readable

\* After a loop that is skipped its end may be read, and what could be read before it.
LEMMA ReadableSkip ==
  ASSUME Complete, NEW e \in Ends, NEW t \in Nat, t + 1 = Opening(e)
  PROVE  Readable(e) \subseteq Readable(t) \cup {e}
  <1>1. /\ Prev(plan) \in Nat /\ Ends \subseteq 1..Prev(plan) /\ t + 1 < e
    BY EndsFacts
  <1>2. SUFFICES ASSUME NEW r \in Readable(e), r # e PROVE r \in Readable(t)
    OBVIOUS
  <1>3. r \in 1..e /\ r \notin Past(e) /\ OpOf(r) # "EPK"
    BY DEF Readable
  <1>4. e <= e
    BY <1>1
  <1>5. r \notin (t + 1)..(e - 1)
    BY <1>3, <1>4, PastFacts
  <1>6. r \in 1..t
    BY <1>1, <1>2, <1>3, <1>5
  <1>7. \A f \in Ends : f <= t => f <= e
    BY <1>1
  <1>8. r \notin Past(t)
    BY <1>3, <1>7, PastFacts
  <1> QED BY <1>3, <1>6, <1>8 DEF Readable

-----------------------------------------------------------------------------
(* The frames.                                                             *)

FrameFields == {"start", "rows", "i", "kept", "obj"}

FrameStarts == {frames[k].start : k \in DOMAIN frames}
Outward == \A j, k \in DOMAIN frames : j < k => frames[j].start < frames[k].start

LEMMA FramesFacts ==
  ASSUME FramesTyped
  PROVE  /\ Len(frames) \in Nat /\ DOMAIN frames = 1..Len(frames)
         /\ frames = <<>> <=> Len(frames) = 0
         /\ \A k \in 1..Len(frames) : DOMAIN frames[k] = FrameFields
  BY SequenceFacts DEF FramesTyped, FrameFields

LEMMA FramePushed ==
  ASSUME FramesTyped, NEW f, DOMAIN f = FrameFields, frames' = Append(frames, f)
  PROVE  /\ FramesTyped'
         /\ FrameStarts' = FrameStarts \cup {f.start}
         /\ Outward /\ (\A s \in FrameStarts : s < f.start) => Outward'
  <1> DEFINE L == Len(frames)
  <1>1. L \in Nat /\ DOMAIN frames = 1..L /\ \A k \in 1..L : DOMAIN frames[k] = FrameFields
    BY FramesFacts
  <1>2. /\ IsSequence(frames') /\ DOMAIN frames' = 1..(L + 1)
        /\ (\A k \in 1..L : frames'[k] = frames[k]) /\ frames'[L + 1] = f
    BY AppendFacts DEF FramesTyped
  <1> HIDE DEF L
  <1>3. \A k : k \in 1..(L + 1) <=> k \in 1..L \/ k = L + 1
    BY <1>1
  <1>4. \A k \in 1..(L + 1) : DOMAIN frames'[k] = FrameFields
    BY <1>1, <1>2, <1>3
  <1>5. FramesTyped'
    BY <1>2, <1>4 DEF FramesTyped, FrameFields
  <1>6. FrameStarts' = FrameStarts \cup {f.start}
    BY <1>1, <1>2, <1>3 DEF FrameStarts
  <1>7. ASSUME Outward, \A s \in FrameStarts : s < f.start PROVE Outward'
    <2>1. SUFFICES ASSUME NEW j \in 1..(L + 1), NEW k \in 1..(L + 1), j < k
                   PROVE  frames'[j].start < frames'[k].start
      BY <1>2 DEF Outward
    <2>2. j \in 1..L
      BY <1>1, <2>1
    <2>3. CASE k \in 1..L
      BY <1>1, <1>2, <1>7, <2>1, <2>2, <2>3 DEF Outward
    <2>4. CASE k = L + 1
      <3>1. frames[j].start \in FrameStarts
        BY <1>1, <2>2 DEF FrameStarts
      <3> QED BY <1>2, <1>7, <2>2, <2>4, <3>1
    <2> QED BY <1>3, <2>3, <2>4
  <1> QED BY <1>5, <1>6, <1>7

LEMMA FramePopped ==
  ASSUME FramesTyped, frames # <<>>, frames' = Front(frames), FrameStarts \subseteq Nat
  PROVE  /\ FramesTyped'
         /\ FrameStarts' \subseteq FrameStarts
         /\ Outward => Outward' /\ FrameStarts' = FrameStarts \ {Top.start}
  <1> DEFINE m == Len(frames) - 1
  <1>1. /\ m \in Nat /\ DOMAIN frames = 1..(m + 1) /\ DOMAIN frames' = 1..m
        /\ IsSequence(frames') /\ Top = frames[m + 1]
        /\ \A k \in 1..m : frames'[k] = frames[k]
    <2>1. Len(frames) \in Nat \ {0} /\ DOMAIN frames = 1..Len(frames)
      BY FramesFacts
    <2>2. m \in Nat /\ m + 1 = Len(frames)
      BY <2>1
    <2>3. /\ IsSequence(frames') /\ DOMAIN frames' = 1..m /\ Last(frames) = frames[Len(frames)]
          /\ \A k \in 1..m : frames'[k] = frames[k]
      BY FrontFacts DEF FramesTyped
    <2> HIDE DEF m
    <2> QED BY <2>1, <2>2, <2>3 DEF Top
  <1> HIDE DEF m
  <1>2. \A k : k \in 1..(m + 1) <=> k \in 1..m \/ k = m + 1
    BY <1>1
  <1>3. \A k \in 1..m : DOMAIN frames'[k] = FrameFields
    BY <1>1, <1>2, FramesFacts
  <1>4. FramesTyped'
    BY <1>1, <1>3 DEF FramesTyped, FrameFields
  <1>5. FrameStarts' = {frames[k].start : k \in 1..m}
    BY <1>1 DEF FrameStarts
  <1>6. FrameStarts = {frames[k].start : k \in 1..(m + 1)}
    BY <1>1 DEF FrameStarts
  <1>7. ASSUME Outward PROVE Outward' /\ FrameStarts' = FrameStarts \ {Top.start}
    <2>1. Outward'
      BY <1>1, <1>2, <1>7 DEF Outward
    <2>2. ASSUME NEW k \in 1..m PROVE frames[k].start # frames[m + 1].start
      <3>1. k \in 1..(m + 1) /\ m + 1 \in 1..(m + 1) /\ k < m + 1
        BY <1>1
      <3>2. frames[k].start < frames[m + 1].start
        BY <1>1, <1>7, <3>1 DEF Outward
      <3>3. frames[k].start \in Nat /\ frames[m + 1].start \in Nat
        BY <1>6, <3>1
      <3> QED BY <3>2, <3>3
    <2> QED BY <1>1, <1>2, <1>5, <1>6, <2>1, <2>2
  <1> QED BY <1>2, <1>4, <1>5, <1>6, <1>7

LEMMA FrameReplaced ==
  ASSUME FramesTyped, frames # <<>>, NEW f, DOMAIN f = FrameFields, f.start = Top.start,
         frames' = ReplaceTop(f)
  PROVE  FramesTyped' /\ FrameStarts' = FrameStarts /\ (Outward => Outward')
  <1> DEFINE m == Len(frames) - 1
             front == Front(frames)
  <1>1. /\ m \in Nat /\ DOMAIN frames = 1..(m + 1) /\ Top = frames[m + 1]
        /\ IsSequence(front) /\ Len(front) = m /\ \A k \in 1..m : front[k] = frames[k]
    <2>1. Len(frames) \in Nat \ {0} /\ DOMAIN frames = 1..Len(frames)
      BY FramesFacts
    <2>2. m \in Nat /\ m + 1 = Len(frames)
      BY <2>1
    <2>3. /\ IsSequence(front) /\ Len(front) = m /\ Last(frames) = frames[Len(frames)]
          /\ \A k \in 1..m : front[k] = frames[k]
      BY FrontFacts DEF FramesTyped
    <2> HIDE DEF m, front
    <2> QED BY <2>1, <2>2, <2>3 DEF Top
  <1>2. frames' = Append(front, f)
    BY DEF ReplaceTop
  <1> HIDE DEF m, front
  <1>3. /\ IsSequence(frames') /\ DOMAIN frames' = 1..(m + 1)
        /\ (\A k \in 1..m : frames'[k] = frames[k]) /\ frames'[m + 1] = f
    BY <1>1, <1>2, AppendFacts
  <1>4. \A k : k \in 1..(m + 1) <=> k \in 1..m \/ k = m + 1
    BY <1>1
  <1>5. \A k \in 1..(m + 1) : DOMAIN frames'[k] = FrameFields
    BY <1>1, <1>3, <1>4, FramesFacts
  <1>6. FramesTyped'
    BY <1>3, <1>5 DEF FramesTyped, FrameFields
  <1>7. \A k \in 1..(m + 1) : frames'[k].start = frames[k].start
    BY <1>1, <1>3, <1>4
  <1>8. FrameStarts' = FrameStarts /\ (Outward => Outward')
    BY <1>1, <1>3, <1>7 DEF FrameStarts, Outward
  <1> QED BY <1>6, <1>8

\* The frame of the loop that is innermost.
LEMMA TopIs ==
  ASSUME FramesTyped, frames # <<>>, FrameStarts \subseteq Nat
  PROVE  /\ DOMAIN Top = FrameFields /\ Top.start \in FrameStarts
         /\ Outward => \A s \in FrameStarts : s <= Top.start
  <1>1. /\ Len(frames) \in Nat \ {0} /\ DOMAIN frames = 1..Len(frames)
        /\ \A k \in 1..Len(frames) : DOMAIN frames[k] = FrameFields
    BY FramesFacts
  <1>2. Top = frames[Len(frames)]
    BY FrontFacts DEF FramesTyped, Top
  <1>3. Len(frames) \in 1..Len(frames)
    BY <1>1
  <1>4. ASSUME Outward, NEW k \in 1..Len(frames) PROVE frames[k].start <= Top.start
    <2>0. Len(frames) \in Nat /\ (k = Len(frames) \/ k < Len(frames))
      <3>1. \A L \in Nat : k \in 1..L => k = L \/ k < L
        OBVIOUS
      <3> QED BY <1>1, <3>1
    <2>1. frames[k].start \in Nat /\ Top.start \in Nat
      BY <1>1, <1>2, <1>3 DEF FrameStarts
    <2>2. CASE k = Len(frames)
      BY <1>2, <2>1, <2>2
    <2>3. CASE k < Len(frames)
      BY <1>1, <1>2, <1>3, <1>4, <2>1, <2>3 DEF Outward
    <2> QED BY <2>0, <2>2, <2>3
  <1> QED BY <1>1, <1>2, <1>3, <1>4 DEF FrameStarts

-----------------------------------------------------------------------------
(* The invariant while a plan is walked.                                   *)

LEMMA Running ==
  ASSUME QueryInv, outcome = "running"
  PROVE  /\ Complete /\ PlanInv /\ plan.ok /\ plan.calls = <<>>
         /\ at \in 0..Prev(plan) /\ Prev(plan) \in Nat /\ DOMAIN plan.stmts = 1..Prev(plan)
         /\ DOMAIN mem \subseteq DOMAIN plan.stmts
         /\ FramesTyped /\ FrameStarts \subseteq Starts /\ FrameStarts \subseteq Nat
         /\ "skipped" \notin odd => /\ FrameStarts = Around(at) /\ Outward
                                    /\ Readable(at) \subseteq current
  <1>1. Complete /\ PlanInv /\ plan.ok /\ plan.calls = <<>>
    BY ParsedComplete DEF QueryInv
  <1>2. Prev(plan) \in Nat /\ DOMAIN plan.stmts = 1..Prev(plan) /\ Starts \subseteq 1..Prev(plan)
    BY <1>1, EndsFacts
  <1>3. at \in 0..Prev(plan) /\ DOMAIN mem \subseteq DOMAIN plan.stmts
    BY DEF QueryInv, QueryTypeOK, Prev
  <1>4. FramesTyped /\ FrameStarts \subseteq Starts
    BY DEF QueryInv, QueryTypeOK, FrameStarts
  <1>5. FrameStarts \subseteq Nat
    BY <1>2, <1>4
  <1>6. "skipped" \notin odd => /\ FrameStarts = Around(at) /\ Outward
                                /\ Readable(at) \subseteq current
    BY DEF QueryInv, LoopsFit, FrameStarts, Outward
  <1> QED BY <1>1, <1>2, <1>3, <1>4, <1>5, <1>6

LEMMA PlanKept ==
  ASSUME PlanInv, plan' = plan
  PROVE  PlanInv'
  <1>1. CASE plan.ok
    <2>1. DOMAIN plan = Fields
      BY PlanInvParts, TypedFacts
    <2>2. SamePlan(plan, plan')
      BY <2>1 DEF SamePlan
    <2> QED BY <1>1, <2>2, SkipStep
  <1>2. CASE ~plan.ok
    <2>1. PlanTyped'
      BY PlanInvParts DEF PlanTyped
    <2> QED BY <1>2, <2>1, PlanInvParts
  <1> QED BY <1>1, <1>2

\* A step of the evaluator to position k keeps the invariant if it keeps what varies of it.
LEMMA WalkStep ==
  ASSUME QueryInv, outcome = "running", plan' = plan,
         NEW k \in 0..Prev(plan), at' = k, DOMAIN mem' \subseteq DOMAIN plan.stmts,
         FramesTyped', FrameStarts' \subseteq Starts, outcome' \in {"running", "done"},
         outcome' = "running" /\ "skipped" \notin odd'
           => FrameStarts' = Around(k) /\ Outward' /\ Readable(k) \subseteq current'
  PROVE  QueryInv'
  <1>1. PlanInv' /\ plan'.ok /\ plan'.calls = <<>>
    BY Running, PlanKept
  <1>2. /\ Starts' = Starts /\ Around(k)' = Around(k) /\ Readable(k)' = Readable(k)
        /\ Prev(plan)' = Prev(plan)
    BY Unchanged DEF Around
  <1>3. QueryTypeOK'
    BY <1>2 DEF QueryTypeOK, FrameStarts, Prev
  <1>4. Around(at)' = Around(k)' /\ Readable(at)' = Readable(k)'
    BY DEF Around, Readable, Past
  <1>5. outcome' = "running" /\ "skipped" \notin odd' => LoopsFit' /\ Readable(at)' \subseteq current'
    BY <1>2, <1>4 DEF LoopsFit, FrameStarts, Outward
  <1> QED BY <1>1, <1>3, <1>5 DEF QueryInv

LEMMA Remembered ==
  ASSUME DOMAIN mem \subseteq DOMAIN plan.stmts, NEW s \in DOMAIN plan.stmts, NEW v,
         SetMemoryValue(s, v)
  PROVE  DOMAIN mem' \subseteq DOMAIN plan.stmts
  BY DEF SetMemoryValue

LEMMA FailStep ==
  ASSUME QueryInv, outcome = "running", NEW why, Fail(why)
  PROVE  QueryInv'
  <1>1. /\ outcome' = "done" /\ at' = at /\ mem' = mem /\ frames' = frames /\ plan' = plan
    BY DEF Fail, Keep
  <1>2. FramesTyped' /\ FrameStarts' \subseteq Starts
    BY <1>1, Running DEF FramesTyped, FrameStarts
  <1> QED BY <1>1, <1>2, Running, WalkStep

LEMMA YieldStep ==
  ASSUME QueryInv, outcome = "running", HasNext, at + 1 \notin Starts \cup Ends,
         NEW v, NEW why, Yield(v, why)
  PROVE  QueryInv'
  <1>1. CASE Fail(why)
    BY <1>1, FailStep
  <1>2. CASE ~Fail(why)
    <2> DEFINE t == at
    <2>1. /\ SetMemoryValue(t + 1, v) /\ at' = t + 1 /\ odd' = odd \cup why
          /\ current' = current \cup {t + 1} /\ frames' = frames /\ outcome' = outcome
          /\ plan' = plan
      BY <1>2 DEF Yield, Keep
    <2>2. t \in 0..(Prev(plan) - 1) /\ t \in Nat /\ t + 1 \in 0..Prev(plan)
          /\ t + 1 \in DOMAIN plan.stmts
      BY Running DEF HasNext, Prev
    <2>3. FramesTyped' /\ FrameStarts' = FrameStarts /\ (Outward => Outward')
      BY <2>1, Running DEF FramesTyped, FrameStarts, Outward
    <2>4. DOMAIN mem' \subseteq DOMAIN plan.stmts
      BY <2>1, <2>2, Running, Remembered
    <2>5. ASSUME "skipped" \notin odd'
          PROVE  FrameStarts' = Around(t + 1) /\ Outward' /\ Readable(t + 1) \subseteq current'
      <3>1. FrameStarts = Around(t) /\ Outward /\ Readable(t) \subseteq current
        BY <2>1, <2>5, Running
      <3>2. Around(t + 1) = Around(t)
        BY <2>2, Running, AroundOnward
      <3>3. Readable(t + 1) \subseteq Readable(t) \cup {t + 1}
        BY <2>2, Running, ReadableOnward
      <3> QED BY <2>1, <2>3, <3>1, <3>2, <3>3
    <2> HIDE DEF t
    <2> QED BY <2>1, <2>2, <2>3, <2>4, <2>5, Running, WalkStep
  <1> QED BY <1>1, <1>2

-----------------------------------------------------------------------------
(* The actions of the evaluator.                                           *)

Plain == {"AT", "ART", "ATL", "ARF", "ATR", "SLT", "LIT", "NO", "AJP", "UNI", "AGR"}

LEMMA EvaluatingIs ==
  ASSUME QueryInv, NEW op, Evaluating(op)
  PROVE  /\ outcome = "running" /\ HasNext /\ OpOf(at + 1) = op
         /\ at \in 0..(Prev(plan) - 1) /\ at \in Nat /\ at + 1 \in 1..Prev(plan)
         /\ op \in {"SFT", "SPJ"} <=> at + 1 \in Starts
         /\ op \in {"EFT", "EPJ"} <=> at + 1 \in Ends
  <1>1. outcome = "running" /\ HasNext /\ OpOf(at + 1) = op
    BY DEF Evaluating, Stmt, OpOf
  <1>2. /\ at \in 0..(Prev(plan) - 1) /\ at \in Nat /\ at + 1 \in 1..Prev(plan)
        /\ DOMAIN plan.stmts = 1..Prev(plan)
    BY <1>1, Running DEF HasNext, Prev
  <1> QED BY <1>1, <1>2 DEF Starts, Ends

LEMMA EvalStep ==
  ASSUME QueryInv, NEW op \in Plain, Evaluating(op), NEW v, NEW why, Yield(v, why)
  PROVE  QueryInv'
  BY EvaluatingIs, YieldStep DEF Plain

LEMMA EvalKept ==
  ASSUME QueryInv,
         \/ EvalTable \/ EvalRelatedTable \/ EvalTableList \/ EvalTableField \/ EvalRow
         \/ EvalSlicing \/ EvalLiteral \/ EvalOperation \/ EvalProperty \/ EvalAggregate
  PROVE  QueryInv'
  <1>1. SUFFICES \E op \in Plain : Evaluating(op) /\ \E v, why : Yield(v, why)
    BY EvalStep
  <1>2. /\ "AT" \in Plain /\ "ART" \in Plain /\ "ATL" \in Plain /\ "ARF" \in Plain
        /\ "ATR" \in Plain /\ "SLT" \in Plain /\ "LIT" \in Plain /\ "NO" \in Plain
        /\ "AJP" \in Plain /\ "UNI" \in Plain /\ "AGR" \in Plain
    BY DEF Plain
  <1>3. CASE EvalTable
    BY <1>2, <1>3, Zenon DEF EvalTable
  <1>4. CASE EvalRelatedTable
    BY <1>2, <1>4, Zenon DEF EvalRelatedTable
  <1>5. CASE EvalTableList
    BY <1>2, <1>5, Zenon DEF EvalTableList
  <1>6. CASE EvalTableField
    BY <1>2, <1>6, Zenon DEF EvalTableField
  <1>7. CASE EvalRow
    BY <1>2, <1>7, Zenon DEF EvalRow
  <1>8. CASE EvalSlicing
    BY <1>2, <1>8, Zenon DEF EvalSlicing
  <1>9. CASE EvalLiteral
    BY <1>2, <1>9, Zenon DEF EvalLiteral
  <1>10. CASE EvalOperation
    BY <1>2, <1>10, Zenon DEF EvalOperation
  <1>11. CASE EvalProperty
    BY <1>2, <1>11, Zenon DEF EvalProperty
  <1>12. CASE EvalAggregate
    BY <1>2, <1>12, Zenon DEF EvalAggregate
  <1> QED BY <1>3, <1>4, <1>5, <1>6, <1>7, <1>8, <1>9, <1>10, <1>11, <1>12

\* A loop begins: its frame is the innermost.
LEMMA StartStep ==
  ASSUME QueryInv, NEW open \in {"SFT", "SPJ"}, Start(open)
  PROVE  QueryInv'
  <1>1. Evaluating(open)
    BY DEF Start
  <1>2. CASE Fail({})
    BY <1>1, <1>2, FailStep DEF Evaluating
  <1>3. CASE ~Fail({})
    <2> DEFINE t == at
               f == Frame(Source[2])
    <2>1. /\ frames' = Append(frames, f) /\ SetMemoryValue(t + 1, Row(Source[2][1]))
          /\ at' = t + 1 /\ current' = current \cup {t + 1} /\ outcome' = outcome /\ odd' = odd
          /\ plan' = plan
      BY <1>3 DEF Start, Keep
    <2>2. DOMAIN f = FrameFields /\ f.start = t + 1
      BY DEF Frame, FrameFields
    <2>3. /\ t \in 0..(Prev(plan) - 1) /\ t \in Nat /\ t + 1 \in 0..Prev(plan)
          /\ t + 1 \in DOMAIN plan.stmts /\ t + 1 \in Starts /\ outcome = "running"
      BY <1>1, EvaluatingIs, Running
    <2> HIDE DEF t, f
    <2>4. /\ FramesTyped' /\ FrameStarts' = FrameStarts \cup {t + 1}
          /\ Outward /\ (\A s \in FrameStarts : s < t + 1) => Outward'
      BY <2>1, <2>2, <2>3, Running, FramePushed
    <2>5. DOMAIN mem' \subseteq DOMAIN plan.stmts
      BY <2>1, <2>3, Running, Remembered
    <2>6. ASSUME "skipped" \notin odd'
          PROVE  FrameStarts' = Around(t + 1) /\ Outward' /\ Readable(t + 1) \subseteq current'
      <3>1. FrameStarts = Around(t) /\ Outward /\ Readable(t) \subseteq current
        BY <2>1, <2>3, <2>6, Running DEF t
      <3>2. Around(t + 1) = Around(t) \cup {t + 1} /\ \A s \in Around(t) : s <= t
        BY <2>3, Running, AroundOnward
      <3>3. Readable(t + 1) \subseteq Readable(t) \cup {t + 1}
        BY <2>3, Running, ReadableOnward
      <3>4. \A s \in FrameStarts : s < t + 1
        BY <2>3, <3>1, <3>2, Running
      <3> QED BY <2>1, <2>4, <3>1, <3>2, <3>3, <3>4
    <2> QED BY <2>1, <2>3, <2>4, <2>5, <2>6, Running, WalkStep
  <1> QED BY <1>2, <1>3

\* The body of a loop of no rows is skipped.
LEMMA SkippedStep ==
  ASSUME QueryInv,
         SkipBody("SFT", "EFT") \/ SkipBody("SPJ", "EPJ")
  PROVE  QueryInv'
  <1> SUFFICES ASSUME NEW open \in {"SFT", "SPJ"}, NEW close,
                      close = (IF open = "SFT" THEN "EFT" ELSE "EPJ"), SkipBody(open, close)
               PROVE  QueryInv'
    OBVIOUS
  <1>1. Evaluating(open)
    BY DEF SkipBody
  <1> DEFINE t == at
             n == Prev(plan)
  <1>2. /\ t \in Nat /\ t + 1 \in Starts /\ outcome = "running" /\ OpOf(t + 1) = open
        /\ Complete /\ n \in Nat
    BY <1>1, EvaluatingIs, Running
  <1>3. PICK e \in Ends : Opening(e) = t + 1
    <2> HIDE DEF t
    <2> QED BY <1>2, EndsFacts
  <1>4. EndOf(t + 1, open, close) = e /\ e \in 1..n
    <2> HIDE DEF t
    <2>1. OpOf(e) = close /\ e \in 1..n
      BY <1>2, <1>3, EndsFacts
    <2> QED BY <1>2, <1>3, <2>1, EndOfIs
  <1>5. /\ at' = (IF e < n THEN e + 1 ELSE e) /\ SetMemoryValue(e, Table(<<>>))
        /\ current' = current \cup {e} /\ odd' = odd \cup If(e < n, "skipped")
        /\ frames' = frames /\ outcome' = outcome /\ plan' = plan
    BY <1>4 DEF SkipBody, Keep, Prev
  <1> HIDE DEF t, n
  <1>6. DOMAIN mem' \subseteq DOMAIN plan.stmts
    BY <1>2, <1>4, <1>5, Running, Remembered DEF n
  <1>7. FramesTyped' /\ FrameStarts' = FrameStarts /\ (Outward => Outward')
    BY <1>2, <1>5, Running DEF FramesTyped, FrameStarts, Outward
  <1>8. CASE e < n
    <2>1. e + 1 \in 0..n /\ at' = e + 1
      BY <1>2, <1>4, <1>5, <1>8
    <2>2. "skipped" \in odd'
      BY <1>5, <1>8 DEF If
    <2> QED BY <1>2, <1>5, <1>6, <1>7, <2>1, <2>2, Running, WalkStep DEF n
  <1>9. CASE ~(e < n)
    <2>1. e \in 0..n /\ at' = e
      BY <1>2, <1>4, <1>5, <1>9
    <2>2. ASSUME "skipped" \notin odd'
          PROVE  FrameStarts' = Around(e) /\ Outward' /\ Readable(e) \subseteq current'
      <3>1. FrameStarts = Around(t) /\ Outward /\ Readable(t) \subseteq current
        BY <1>2, <1>5, <2>2, Running DEF t
      <3>2. Around(e) = Around(t) /\ Readable(e) \subseteq Readable(t) \cup {e}
        BY <1>2, <1>3, AroundSkip, ReadableSkip
      <3> QED BY <1>5, <1>7, <3>1, <3>2
    <2> QED BY <1>2, <1>5, <1>6, <1>7, <2>1, <2>2, Running, WalkStep DEF n
  <1> QED BY <1>8, <1>9

\* A row is done with: the position goes back to the start of the loop, or past its end.
LEMMA NextRowStep ==
  ASSUME QueryInv, frames # <<>>, NEW close \in {"EFT", "EPJ"}, Evaluating(close),
         NEW kept, NextRow(kept)
  PROVE  QueryInv'
  <1> SUFFICES ASSUME NEW t, t = at, NEW s, s = Top.start PROVE QueryInv'
    OBVIOUS
  <1> DEFINE n == Prev(plan)
             e == t + 1
             f == [Top EXCEPT !.i = @ + 1, !.kept = kept, !.obj = <<>>]
  <1>1. /\ t \in 0..(n - 1) /\ t \in Nat /\ e \in 1..n /\ n \in Nat /\ e \in Ends
        /\ outcome = "running" /\ DOMAIN plan.stmts = 1..n /\ Complete
    BY EvaluatingIs, Running
  <1>2. /\ DOMAIN Top = FrameFields /\ s \in FrameStarts /\ s \in Starts /\ s \in 1..n
        /\ Outward => \A x \in FrameStarts : x <= s
    BY <1>1, TopIs, Running, EndsFacts
  <1>3. ASSUME "skipped" \notin odd
        PROVE  /\ FrameStarts = Around(t) /\ Outward /\ Readable(t) \subseteq current
               /\ s = Opening(e)
    <2>1. FrameStarts = Around(t) /\ Outward /\ Readable(t) \subseteq current
      BY <1>1, <1>3, Running
    <2>2. Opening(e) \in Around(t) /\ (\A x \in Around(t) : x <= Opening(e)) /\ Opening(e) \in Nat
      BY <1>1, AroundBack, EndsFacts
    <2>3. s <= Opening(e) /\ Opening(e) <= s
      BY <1>2, <2>1, <2>2
    <2> QED BY <1>2, <2>1, <2>2, <2>3
  <1>4. outcome' = outcome /\ odd' = odd /\ plan' = plan
    BY DEF NextRow, Keep
  <1>5. CASE Top.i < Len(Top.rows)
    <2>1. /\ frames' = ReplaceTop(f) /\ SetMemoryValue(s, Row(Top.rows[Top.i + 1]))
          /\ at' = s /\ current' = current \ ((s + 1)..t)
      BY <1>5 DEF NextRow
    <2>2. DOMAIN f = FrameFields /\ f.start = Top.start
      BY <1>2 DEF FrameFields
    <2> HIDE DEF f, n
    <2>3. FramesTyped' /\ FrameStarts' = FrameStarts /\ (Outward => Outward')
      BY <1>1, <2>1, <2>2, Running, FrameReplaced
    <2>4. DOMAIN mem' \subseteq DOMAIN plan.stmts
      BY <1>1, <1>2, <2>1, Running, Remembered
    <2>5. ASSUME "skipped" \notin odd'
          PROVE  FrameStarts' = Around(s) /\ Outward' /\ Readable(s) \subseteq current'
      <3>1. /\ FrameStarts = Around(t) /\ Outward /\ Readable(t) \subseteq current
            /\ s = Opening(e)
        BY <1>3, <1>4, <2>5
      <3>2. Around(s) = Around(t)
        BY <1>1, <3>1, AroundBack
      <3>3. Readable(s) \subseteq Readable(t) \ ((s + 1)..t)
        BY <1>1, <3>1, ReadableBack
      <3> QED BY <2>1, <2>3, <3>1, <3>2, <3>3
    <2>6. s \in 0..n
      BY <1>1, <1>2
    <2> QED BY <1>1, <1>4, <2>1, <2>3, <2>4, <2>5, <2>6, Running, WalkStep DEF n
  <1>6. CASE ~(Top.i < Len(Top.rows))
    <2>1. /\ frames' = Front(frames) /\ SetMemoryValue(e, Table(kept))
          /\ at' = e /\ current' = (current \ (s..t)) \cup {e}
      BY <1>6 DEF NextRow
    <2> HIDE DEF n
    <2>2. /\ FramesTyped' /\ FrameStarts' \subseteq FrameStarts
          /\ Outward => Outward' /\ FrameStarts' = FrameStarts \ {s}
      BY <1>1, <2>1, Running, FramePopped
    <2>3. DOMAIN mem' \subseteq DOMAIN plan.stmts
      BY <1>1, <2>1, Running, Remembered
    <2>4. ASSUME "skipped" \notin odd'
          PROVE  FrameStarts' = Around(e) /\ Outward' /\ Readable(e) \subseteq current'
      <3>1. /\ FrameStarts = Around(t) /\ Outward /\ Readable(t) \subseteq current
            /\ s = Opening(e)
        BY <1>3, <1>4, <2>4
      <3>2. Around(e) = Around(t) \ {s}
        BY <1>1, <3>1, AroundOnward DEF n
      <3>3. Readable(e) \subseteq (Readable(t) \ (s..t)) \cup {e}
        BY <1>1, <3>1, ReadableOnward
      <3> QED BY <2>1, <2>2, <3>1, <3>2, <3>3
    <2>5. e \in 0..n
      BY <1>1
    <2>6. FrameStarts' \subseteq Starts
      BY <1>1, <2>2, Running
    <2> QED BY <1>1, <1>4, <2>1, <2>2, <2>3, <2>4, <2>5, <2>6, WalkStep DEF n
  <1> QED BY <1>5, <1>6

LEMMA RowsKept ==
  ASSUME QueryInv, EndFilterRow \/ EndProjectionRow
  PROVE  QueryInv'
  <1>1. frames # <<>>
    BY DEF EndFilterRow, EndProjectionRow, TopOp
  <1>2. CASE EndFilterRow
    <2>1. Evaluating("EFT") /\ (Fail({}) \/ \E kept : NextRow(kept))
      BY <1>2 DEF EndFilterRow
    <2>2. CASE Fail({})
      BY <2>1, <2>2, FailStep DEF Evaluating
    <2>3. CASE \E kept : NextRow(kept)
      BY <1>1, <2>1, <2>3, NextRowStep
    <2> QED BY <2>1, <2>2, <2>3
  <1>3. CASE EndProjectionRow
    <2>1. Evaluating("EPJ") /\ \E kept : NextRow(kept)
      BY <1>3 DEF EndProjectionRow
    <2> QED BY <1>1, <2>1, NextRowStep
  <1> QED BY <1>2, <1>3

\* A key begins and ends within its projection's frame.
LEMMA KeysWalked ==
  ASSUME QueryInv, StartKey \/ EndKey
  PROVE  QueryInv'
  <1> SUFFICES ASSUME NEW t, t = at, NEW n, n = Prev(plan) PROVE QueryInv'
    OBVIOUS
  <1>1. frames # <<>>
    BY DEF StartKey, EndKey, TopOp
  <1>2. Evaluating("SPK") \/ Evaluating("EPK")
    BY DEF StartKey, EndKey
  <1>3. /\ t \in 0..(n - 1) /\ t \in Nat /\ t + 1 \in 0..n /\ t + 1 \in DOMAIN plan.stmts
        /\ t + 1 \notin Starts \cup Ends /\ outcome = "running" /\ n \in Nat /\ Complete
    BY <1>2, EvaluatingIs, Running
  <1>4. /\ at' = t + 1 /\ outcome' = outcome /\ odd' = odd /\ plan' = plan
        /\ \E key, v : SetKey(key, v)
    <2>1. CASE StartKey
      BY <2>1 DEF StartKey, Keep
    <2>2. CASE EndKey
      BY <2>2, Zenon DEF EndKey, Keep
    <2> QED BY <2>1, <2>2
  <1>5. FramesTyped' /\ FrameStarts' = FrameStarts /\ (Outward => Outward')
    <2>1. PICK key, v : SetKey(key, v)
      BY <1>4
    <2> DEFINE f == [Top EXCEPT !.obj = (key :> v) @@ @]
    <2>2. frames' = ReplaceTop(f)
      BY <2>1 DEF SetKey
    <2>3. DOMAIN f = FrameFields /\ f.start = Top.start
      BY <1>1, <1>3, TopIs, Running DEF FrameFields
    <2> HIDE DEF f
    <2> QED BY <1>1, <1>3, <2>2, <2>3, Running, FrameReplaced
  <1>6. DOMAIN mem' \subseteq DOMAIN plan.stmts
    <2>1. CASE StartKey
      <3>1. SetMemoryValue(t + 1, Row(Top.rows[Top.i]))
        BY <2>1 DEF StartKey
      <3> QED BY <1>3, <3>1, Running, Remembered
    <2>2. CASE EndKey
      <3>1. mem' = mem
        BY <2>2 DEF EndKey
      <3> QED BY <1>3, <3>1, Running
    <2> QED BY <2>1, <2>2
  <1>7. ASSUME "skipped" \notin odd'
        PROVE  FrameStarts' = Around(t + 1) /\ Outward' /\ Readable(t + 1) \subseteq current'
    <2>1. FrameStarts = Around(t) /\ Outward /\ Readable(t) \subseteq current
      BY <1>3, <1>4, <1>7, Running
    <2>2. Around(t + 1) = Around(t)
      BY <1>3, AroundOnward
    <2>3. Readable(t + 1) \subseteq current'
      <3>1. CASE StartKey
        <4>1. current' = current \cup {t + 1}
          BY <3>1 DEF StartKey
        <4> QED BY <1>3, <2>1, <4>1, ReadableOnward
      <3>2. CASE EndKey
        <4>1. current' = current /\ Evaluating("EPK")
          BY <3>2 DEF EndKey
        <4>2. OpOf(t + 1) = "EPK"
          BY <4>1, EvaluatingIs
        <4> QED BY <1>3, <2>1, <4>1, <4>2, ReadableOnward
      <3> QED BY <3>1, <3>2
    <2> QED BY <1>5, <2>1, <2>2, <2>3
  <1> QED BY <1>3, <1>4, <1>5, <1>6, <1>7, Running, WalkStep

LEMMA EndingKept ==
  ASSUME QueryInv, Misplaced \/ Finish
  PROVE  QueryInv'
  <1>1. CASE Misplaced
    <2>1. outcome = "running" /\ Fail({})
      BY <1>1, Zenon DEF Misplaced
    <2> QED BY <2>1, FailStep
  <1>2. CASE Finish
    <2>1. /\ outcome = "running" /\ outcome' = "done" /\ at' = at /\ mem' = mem
          /\ frames' = frames /\ plan' = plan
      BY <1>2 DEF Finish, Keep
    <2>2. FramesTyped' /\ FrameStarts' \subseteq Starts
      BY <2>1, Running DEF FramesTyped, FrameStarts
    <2> QED BY <2>1, <2>2, Running, WalkStep
  <1> QED BY <1>1, <1>2

-----------------------------------------------------------------------------
(* The actions before the evaluator's.                                     *)

LEMMA EmptyQuery ==
  ASSUME PlanInv, at = 0, mem = <<>>, frames = <<>>, current = {}, outcome = "parsing"
  PROVE  QueryInv
  <1>1. Len(plan.stmts) \in Nat
    BY PlanInvParts, TypedFacts DEF Prev
  <1>2. QueryTypeOK /\ FramesTyped
    BY <1>1, EmptyFacts DEF QueryTypeOK, FramesTyped
  <1> QED BY <1>2 DEF QueryInv

LEMMA ParsingKept ==
  ASSUME QueryInv, Parse \/ ParseFails \/ Eval
  PROVE  QueryInv'
  <1>1. /\ outcome = "parsing" /\ PlanInv
        /\ at = 0 /\ mem = <<>> /\ frames = <<>> /\ current = {}
    BY DEF QueryInv, Parse, ParseFails, Eval
  <1>2. /\ at' = 0 /\ mem' = <<>> /\ frames' = <<>> /\ current' = {}
    BY <1>1 DEF Parse, ParseFails, Eval, Fail, evalVars
  <1>3. PlanInv'
    BY <1>1, ParserKeepsPlanInv, PlanKept DEF Parse, ParseFails, Eval, Fail, Keep
  <1>4. Len(plan.stmts)' \in Nat
    BY <1>3, PlanInvParts, SequenceFacts DEF PlanTyped
  <1>5. outcome' \in {"parsing", "running", "done"}
    BY <1>1 DEF Parse, ParseFails, Eval, Fail, evalVars
  <1>6. QueryTypeOK' /\ FramesTyped'
    BY <1>2, <1>4, <1>5, EmptyFacts DEF QueryTypeOK, FramesTyped
  <1>7. ASSUME outcome' = "running"
        PROVE  plan'.ok /\ plan'.calls = <<>> /\ LoopsFit' /\ Readable(at)' \subseteq current'
    <2>1. Eval
      BY <1>1, <1>7 DEF Parse, ParseFails, Fail, evalVars
    <2>2. plan.ok /\ plan.calls = <<>> /\ plan' = plan
      BY <2>1 DEF Eval, Parsed
    <2>3. Complete
      BY <1>1, <2>2, ParsedComplete
    <2>4. /\ Starts' = Starts /\ Around(0)' = Around(0) /\ Readable(0)' = Readable(0)
      BY <2>2, Unchanged DEF Around
    <2>5. Around(at)' = Around(0)' /\ Readable(at)' = Readable(0)'
      BY <1>2 DEF Around, Readable, Past
    <2>6. Around(0) = {} /\ Readable(0) = {}
      BY <2>3, EndsFacts, ReadableOnward DEF Around
    <2>7. LoopsFit'
      BY <1>2, <2>4, <2>5, <2>6, EmptyFacts DEF LoopsFit
    <2> QED BY <2>2, <2>4, <2>5, <2>6, <2>7
  <1> QED BY <1>2, <1>3, <1>6, <1>7 DEF QueryInv

-----------------------------------------------------------------------------
(* The theorems.                                                           *)

LEMMA QueryInit ==
  ASSUME Init
  PROVE  QueryInv
  BY NewPlanInv, EmptyQuery DEF Init

LEMMA QueryNext ==
  ASSUME QueryInv, [Next]_vars
  PROVE  QueryInv'
  <1>1. CASE Next
    BY <1>1, ParsingKept, EvalKept, StartStep, SkippedStep, RowsKept, KeysWalked, EndingKept
       DEF Next, StartFilter, StartProjection, SkipFilter, SkipProjection
  <1>2. CASE UNCHANGED vars
    <2>1. /\ plan' = plan /\ at' = at /\ mem' = mem /\ frames' = frames /\ outcome' = outcome
          /\ odd' = odd /\ current' = current
      BY <1>2 DEF vars, evalVars
    <2>2. PlanInv' /\ QueryTypeOK' /\ FramesTyped'
      BY <2>1, PlanKept, Unchanged DEF QueryInv, QueryTypeOK, FramesTyped
    <2>3. LoopsFit' = LoopsFit /\ Readable(at)' = Readable(at)
      BY <2>1 DEF LoopsFit, Around, Readable, Past, Starts, Ends, Opening, OpOf
    <2> QED BY <2>1, <2>2, <2>3 DEF QueryInv
  <1> QED BY <1>1, <1>2

(***************************************************************************)
(* Whatever the text of the query, the data and the protocols are, the     *)
(* invariants of the parser and of the evaluator hold (Execute).           *)
(***************************************************************************)
THEOREM QueryInvariant == Spec => []QueryInv
  <1>1. Init => QueryInv
    BY QueryInit
  <1>2. QueryInv /\ [Next]_vars => QueryInv'
    BY QueryNext
  <1> QED BY <1>1, <1>2, PTL DEF Spec

(***************************************************************************)
(* The parser makes loops that nest and statements that read what is in    *)
(* scope, whatever the text (ParseFilter, ParseProjection, ParseOperator). *)
(***************************************************************************)
THEOREM PlansFit == Spec => []PlanInv
  <1>1. QueryInv => PlanInv
    BY DEF QueryInv
  <1> QED BY <1>1, QueryInvariant, PTL

(***************************************************************************)
(* The evaluator's position and memory are of the plan's statements, and   *)
(* its frames of statements that start one (evaluator.go).                 *)
(***************************************************************************)
THEOREM QueryTypeCorrect == Spec => []QueryTypeOK
  <1>1. QueryInv => QueryTypeOK
    BY DEF QueryInv
  <1> QED BY <1>1, QueryInvariant, PTL

LEMMA EnclosingIs ==
  ASSUME Complete, at \in 0..Prev(plan)
  PROVE  Enclosing = Around(at)
  <1> DEFINE Close(s) == IF plan.stmts[s].op = "SFT" THEN EndOf(s, "SFT", "EFT")
                         ELSE EndOf(s, "SPJ", "EPJ")
  <1>1. /\ Starts \subseteq 1..Prev(plan) /\ Prev(plan) \in Nat
        /\ DOMAIN plan.stmts = 1..Prev(plan)
    BY EndsFacts
  <1>2. Enclosing = {s \in 1..at : plan.stmts[s].op \in {"SFT", "SPJ"} /\ Close(s) > at}
    BY DEF Enclosing
  <1>3. ASSUME NEW s \in Starts PROVE \E e \in Ends : Opening(e) = s /\ Close(s) = e
    <2>1. PICK e \in Ends : Opening(e) = s
      BY EndsFacts
    <2>2. /\ OpOf(s) \in {"SFT", "SPJ"} /\ OpOf(s) = plan.stmts[s].op
          /\ OpOf(e) = (IF OpOf(s) = "SFT" THEN "EFT" ELSE "EPJ")
      BY <2>1, EndsFacts DEF Starts, OpOf
    <2>3. EndOf(s, OpOf(s), OpOf(e)) = e
      BY <2>1, EndOfIs
    <2>4. Close(s) = e
      <3>1. CASE OpOf(s) = "SFT"
        BY <2>2, <2>3, <3>1
      <3>2. CASE OpOf(s) = "SPJ"
        BY <2>2, <2>3, <3>2
      <3> QED BY <2>2, <3>1, <3>2
    <2> QED BY <2>1, <2>4
  <1> HIDE DEF Close
  <1>4. ASSUME NEW s \in Starts
        PROVE  Close(s) > at <=> \A e \in Ends : Opening(e) = s => at < e
    <2>1. PICK e \in Ends : Opening(e) = s /\ Close(s) = e
      BY <1>3
    <2>2. \A f \in Ends : Opening(f) = s => f = e
      BY <2>1, EndsFacts
    <2>3. e \in Nat /\ at \in Nat
      BY <1>1, EndsFacts
    <2> QED BY <2>1, <2>2, <2>3
  <1>5. \A s : s \in 1..at /\ plan.stmts[s].op \in {"SFT", "SPJ"} <=> s \in Starts /\ s <= at
    BY <1>1 DEF Starts, OpOf
  <1> QED BY <1>2, <1>4, <1>5 DEF Around

\* The innermost loop the evaluator is in starts last of those around the position.
LEMMA TopStart ==
  ASSUME QueryInv, outcome = "running", "skipped" \notin odd,
         NEW s \in Around(at), \A x \in Around(at) : x <= s
  PROVE  frames # <<>> /\ Top.start = s
  <1>1. /\ FrameStarts = Around(at) /\ Outward /\ Complete /\ FramesTyped
        /\ FrameStarts \subseteq Nat
    BY Running
  <1>2. frames # <<>>
    BY <1>1, FramesFacts, EmptyFacts DEF FrameStarts
  <1>3. Top.start \in FrameStarts /\ \A x \in FrameStarts : x <= Top.start
    BY <1>1, <1>2, TopIs
  <1>4. s \in Nat /\ Top.start \in Nat
    BY <1>1, <1>3, EndsFacts, AroundFacts
  <1>5. Top.start <= s /\ s <= Top.start
    BY <1>1, <1>3
  <1> QED BY <1>2, <1>4, <1>5

\* The statement that is next belongs to the innermost loop, if it ends one or is a key's.
InOwnLoop ==
  /\ Stmt.op \in {"EFT", "EPJ"} => frames # <<>> /\ Top.start = Opening(at + 1)
  /\ Stmt.op \in {"SPK", "EPK"} => TopOp = "SPJ" /\ Top.start = Stmt.src

LEMMA OwnLoop ==
  ASSUME QueryInv, outcome = "running", "skipped" \notin odd, HasNext
  PROVE  InOwnLoop
  <1> SUFFICES ASSUME NEW t, t = at PROVE InOwnLoop
    OBVIOUS
  <1>1. /\ Complete /\ t \in Nat /\ t + 1 \in 1..Prev(plan) /\ t \in 0..(Prev(plan) - 1)
        /\ DOMAIN plan.stmts = 1..Prev(plan)
    BY Running DEF HasNext, Prev
  <1>2. Stmt = plan.stmts[t + 1] /\ OpOf(t + 1) = Stmt.op
    BY DEF Stmt, OpOf
  <1>3. ASSUME Stmt.op \in {"EFT", "EPJ"} PROVE frames # <<>> /\ Top.start = Opening(at + 1)
    <2>1. t + 1 \in Ends
      BY <1>1, <1>2, <1>3 DEF Ends
    <2>2. Opening(t + 1) \in Around(t) /\ \A x \in Around(t) : x <= Opening(t + 1)
      BY <1>1, <2>1, AroundBack
    <2> QED BY <2>2, TopStart
  <1>4. ASSUME Stmt.op \in {"SPK", "EPK"} PROVE TopOp = "SPJ" /\ Top.start = Stmt.src
    <2>1. t + 1 \notin Starts \cup Ends
      BY <1>2, <1>4 DEF Starts, Ends
    <2>2. Around(t + 1) = Around(t)
      BY <1>1, <2>1, AroundOnward
    <2>3. /\ Stmt.src \in Around(t + 1) /\ OpOf(Stmt.src) = "SPJ"
          /\ \A x \in Around(t + 1) : x <= Stmt.src
      BY <1>1, <1>2, <1>4 DEF Complete, BodyInv, KeysFit
    <2>4. frames # <<>> /\ Top.start = Stmt.src
      BY <2>2, <2>3, TopStart
    <2> QED BY <2>3, <2>4 DEF TopOp, OpOf
  <1> QED BY <1>3, <1>4 DEF InOwnLoop

LEMMA NoLoopAtTheEnd ==
  ASSUME QueryInv, outcome = "running", "skipped" \notin odd, ~HasNext
  PROVE  frames = <<>>
  <1>1. FrameStarts = Around(at) /\ Complete /\ at \in 0..Prev(plan) /\ FramesTyped
    BY Running
  <1>2. at = Prev(plan)
    BY <1>1, EndsFacts DEF HasNext, Prev
  <1>3. ASSUME NEW s \in Around(at) PROVE FALSE
    <2>1. s \in Starts /\ \A e \in Ends : Opening(e) = s => at < e
      BY AroundFacts
    <2>2. PICK e \in Ends : Opening(e) = s
      BY <1>1, <2>1, EndsFacts
    <2> QED BY <1>1, <1>2, <2>1, <2>2, EndsFacts
  <1>4. Len(frames) \in Nat /\ DOMAIN frames = 1..Len(frames) /\ (frames = <<>> <=> Len(frames) = 0)
    BY <1>1, FramesFacts, SequenceFacts DEF FramesTyped
  <1>5. \A k \in 1..Len(frames) : frames[k].start \in FrameStarts
    BY <1>4 DEF FrameStarts
  <1> QED BY <1>1, <1>3, <1>4, <1>5

(***************************************************************************)
(* The loops the evaluator is in are those of the brackets around its      *)
(* position, for every query and of any number of rows and depth of loops; *)
(* an end and a key are met in the loop they belong to, and the plan ends  *)
(* in none (EvalFilter, EvalProjection).                                   *)
(***************************************************************************)
THEOREM LoopsFollowBrackets == Spec => []LoopsMatchBrackets
  <1>1. ASSUME QueryInv PROVE LoopsMatchBrackets
    <2> SUFFICES ASSUME outcome = "running", "skipped" \notin odd
                 PROVE  /\ {frames[k].start : k \in DOMAIN frames} = Enclosing
                        /\ \A k \in 2..Len(frames) : frames[k - 1].start < frames[k].start
                        /\ HasNext => InOwnLoop
                        /\ ~HasNext => frames = <<>>
      BY Zenon DEF LoopsMatchBrackets, InOwnLoop
    <2>1. FrameStarts = Around(at) /\ Outward /\ Complete /\ at \in 0..Prev(plan) /\ FramesTyped
      BY <1>1, Running
    <2>2. FrameStarts = Enclosing
      BY <2>1, EnclosingIs
    <2>3. Len(frames) \in Nat /\ DOMAIN frames = 1..Len(frames)
      BY <2>1, FramesFacts
    <2>4. ASSUME NEW k \in 2..Len(frames) PROVE frames[k - 1].start < frames[k].start
      <3>1. k - 1 \in 1..Len(frames) /\ k \in 1..Len(frames) /\ k - 1 < k
        BY <2>3
      <3> QED BY <2>1, <2>3, <3>1 DEF Outward
    <2>5. HasNext => InOwnLoop
      BY <1>1, OwnLoop
    <2>6. ~HasNext => frames = <<>>
      BY <1>1, NoLoopAtTheEnd
    <2> QED BY <2>2, <2>4, <2>5, <2>6 DEF FrameStarts
  <1> QED BY <1>1, QueryInvariant, PTL

(***************************************************************************)
(* No statement reads a value that was left by an earlier row or by a loop *)
(* that is over (Evaluator.Memory, GetPrevStatement).                      *)
(***************************************************************************)
THEOREM NoStaleReads == Spec => []ReadsCurrentRows
  <1>1. ASSUME QueryInv PROVE ReadsCurrentRows
    <2> SUFFICES ASSUME outcome = "running", HasNext, "skipped" \notin odd
                 PROVE  Reads(at + 1) \subseteq current
      BY DEF ReadsCurrentRows
    <2>1. /\ PlanInv /\ plan.ok /\ Readable(at) \subseteq current
          /\ at \in 0..Prev(plan) /\ Prev(plan) \in Nat /\ DOMAIN plan.stmts = 1..Prev(plan)
      BY <1>1, Running
    <2>2. at + 1 \in DOMAIN plan.stmts /\ at + 1 - 1 = at
      BY <2>1 DEF HasNext, Prev
    <2>3. Reads(at + 1) \subseteq Readable(at + 1 - 1)
      BY <2>1, <2>2 DEF PlanInv, ReadsInScope
    <2> QED BY <2>1, <2>2, <2>3
  <1> QED BY <1>1, QueryInvariant, PTL
=============================================================================
