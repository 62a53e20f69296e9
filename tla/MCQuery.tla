------------------------------- MODULE MCQuery ------------------------------
(* People with their orders, and the items they have ordered: a protocol    *)
(* with an alias for a column and one for a table, five databases, and the  *)
(* queries one gets by combining conditions, filters and what follows them. *)
EXTENDS QueryLanguage

MCRank == [a |-> 1, b |-> 2, i1 |-> 3, i2 |-> 4, o1 |-> 5, o2 |-> 6, o3 |-> 7,
           p1 |-> 8, p2 |-> 9] @@ ("" :> 0)
MCMatches == [a |-> {"a"}, p |-> {"p1", "p2"}]

Fields(cols) == [c \in cols |-> c]
Relation(type, entity, prototable, fk, through) ==
  [type |-> type, entity |-> entity, prototable |-> prototable, fk |-> fk, through |-> through]

MCProtos ==
  [pw |-> [db |-> [database |-> "physical", entities |->
    [p |-> [table |-> "people",
            fields |-> Fields({"id", "name"}) @@ [years |-> "age"],
            relations |-> [orders |-> Relation("otm", "o", "o", <<"id", "owner">>, ""),
                           items  |-> Relation("mtm", "i", "i",
                                               <<"id", "owner", "item", "id">>, "o")]],
     o |-> [table |-> "o",
            fields |-> Fields({"id", "owner", "amount", "info"}) @@ [itemid |-> "item"],
            relations |-> [item |-> Relation("mto", "i", "i", <<"item", "id">>, "")]],
     i |-> [table |-> "i", fields |-> Fields({"id", "name"}), relations |-> NoRelations]]]]]

MCColTypes ==
  [physical |->
    [people |-> [id |-> "string", name |-> "string", age |-> "number"],
     o |-> [id |-> "string", owner |-> "string", item |-> "string", amount |-> "number",
            info |-> "json"],
     i |-> [id |-> "string", name |-> "string"]]]

Person(id, name, age) == [id |-> Str(id), name |-> Str(name), age |-> Num(age)]
Order(id, owner, item, n) ==
  [id |-> Str(id), owner |-> Str(owner), item |-> Str(item), amount |-> Num(n),
   info |-> Row(IF n > 1 THEN [k |-> Num(n)] ELSE [x |-> Str("a")])]
Item(id, name) == [id |-> Str(id), name |-> Str(name)]

Database(people, orders) ==
  [people |-> people, o |-> orders, i |-> <<Item("i1", "a"), Item("i2", "b")>>]

P1 == Person("p1", "a", 3)
P2 == Person("p2", "b", 2)
MCDatabases ==
  {Database(<<>>, <<>>),
   Database(<<P1>>, <<Order("o1", "p1", "i1", 1)>>),
   Database(<<P1, P2>>, <<Order("o1", "p1", "i2", 2), Order("o2", "p1", "i1", 1)>>),
   Database(<<P1, P2>>, <<Order("o1", "p2", "i1", 3)>>),
   Database(<<P1, P2>>, <<Order("o1", "p1", "i1", 1), Order("o2", "p2", "i2", 3),
                          Order("o3", "p2", "i1", 1)>>)}

-----------------------------------------------------------------------------
T(t) == <<"table", t>>
It == <<"it">>
Col(q, c) == <<"col", q, c>>
Rel(q, r) == <<"rel", q, r>>
Filter(q, c) == <<"filter", q, c>>
Aggr(q, f) == <<"aggr", q, f, <<>>>>
AggrBy(q, f, args) == <<"aggr", q, f, args>>
N(n) == <<"lit", Num(n)>>
S(s) == <<"lit", Str(s)>>
Op(o, l, r) == <<"op", o, l, r>>
Not(q) == <<"not", q>>
Slice(q, from, to, step) == <<"slice", q, <<from, to, step>>>>

Years == Col(It, "years")
Orders == Rel(It, "orders")
Amount == Col(It, "amount")
Adult == Op(">", Years, N(2))
IsA == Op("=", Col(It, "name"), S("a"))

Conditions ==
  {Adult, IsA, Not(IsA), Op("and", IsA, Adult), Op("or", Not(IsA), Adult),
   Op("and", Op("or", IsA, Adult), Not(Adult)), Op("or", IsA, Op("and", Adult, Not(Adult))),
   Not(Op("and", IsA, Adult)),
   Op("=", Op("+", Years, N(1)), N(4)), Op("<", N(2), Years),
   Op(">=", Years, Op("-", N(4), Op("*", N(1), N(2)))),
   Op("!=", Op("*", Op("+", Years, N(1)), N(2)), N(6)),
   Op("in", Col(It, "id"), Col(T("o"), "owner")),
   Op("in", N(1), Col(Orders, "amount")),
   Op(">", Aggr(Orders, "_count"), N(1)),
   Op("and", Op("=", Aggr(Orders, "_count"), N(1)), Op(">", Aggr(Col(Orders, "amount"), "_sum"), N(2))),
   Op("or", Op("=", Aggr(Col(Rel(It, "items"), "name"), "_count"), N(2)), IsA),
   Op(">", Aggr(Filter(Orders, Op(">", Amount, N(1))), "_count"), N(0)),
   Op("and", Op(">", Aggr(Filter(Orders, Op(">", Amount, N(1))), "_count"), N(0)),
      Op("!=", Col(It, "id"), S("p2"))),
   Op("<=", Aggr(Col(Filter(Orders, Op("=", <<"parent", "id">>, S("p1"))), "amount"), "_sum"), N(2)),
   Op("in", S("b"), Col(Rel(Orders, "item"), "name")),
   AggrBy(Col(It, "id"), "_like", <<"p">>),
   AggrBy(Col(Orders, "itemid"), "_like", <<"a">>),
   Op("=", Op("+", Col(It, "name"), S("")), S("a")),
   Op("=", Aggr(Orders, "_sum"), N(2)), Years}

\* Conditions of two and three parts, grouped either way.
Parts == {Adult, Not(IsA), AggrBy(Col(It, "id"), "_like", <<"a">>),
          Op(">", Aggr(Orders, "_count"), N(1))}
Both(l, r) == {Op("and", l, r), Op("or", l, r)}
Compound ==
  UNION {Both(l, r) \cup {Not(c) : c \in Both(l, r)} : l \in Parts, r \in Parts}
  \cup UNION {UNION {Both(l, c) \cup Both(c, l) : c \in Both(m, r)} :
               l \in Parts, m \in Parts, r \in Parts}

\* Sums and products, compared.
Infix(l, r) == {Op("+", l, r), Op("-", l, r), Op("*", l, r)}
Arithmetics ==
  UNION {{Op("=", e, N(4)), Op(">", N(3), e)} :
         e \in UNION {UNION {Infix(l, t) \cup Infix(t, l) : l \in Infix(Years, u)} :
                      t \in {N(1), N(2)}, u \in {N(1), N(2)}}}

OrderConditions ==
  {Op("=", <<"prop", Col(It, "info"), "k">>, N(2)), Op(">=", Amount, N(1)),
   Op("=", Col(Rel(It, "item"), "name"), S("b"))}

Posts(q) ==
  {Slice(q, 0, 1, Omitted), Slice(q, -1, Omitted, Omitted), Slice(q, Omitted, Omitted, 2),
   Slice(q, 1, -1, Omitted), Col(Slice(q, 0, 1, Omitted), "name"), <<"row", q, 0>>,
   Col(<<"row", q, 0>>, "years"), <<"row", q, 1>>, <<"row", Col(q, "name"), 1>>,
   Rel(<<"row", q, 0>>, "orders"), Filter(Col(q, "name"), Adult), <<"proj", <<"row", q, 0>>, <<<<"n", N(1)>>>>>>,
   Slice(q, 1, 0, Omitted), Slice(q, Omitted, Omitted, -1),
   Col(q, "years"), Slice(Col(q, "years"), -2, 1, Omitted), Aggr(Col(q, "years"), "_avg"),
   Aggr(Col(q, "years"), "_max"), Aggr(Col(q, "name"), "_desc"), Aggr(q, "_count"),
   AggrBy(q, "_asc", <<"age">>), AggrBy(q, "_desc", <<"name", "age">>),
   Col(Filter(AggrBy(q, "_asc", <<"age">>), Adult), "name"),
   Filter(q, IsA), Filter(AggrBy(q, "_asc", <<"age">>), Adult), Slice(Filter(q, IsA), 0, 1, 1),
   Rel(q, "orders"), Col(Rel(q, "items"), "name"), Aggr(Col(Rel(q, "orders"), "amount"), "_min"),
   <<"proj", q, <<<<"n", Col(It, "name")>>, <<"y", Op("+", Years, N(1))>>>>>>,
   <<"proj", q, <<<<"c", Aggr(Orders, "_count")>>,
                  <<"o", Col(Filter(Orders, Op(">", Amount, N(1))), "id")>>>>>>,
   <<"proj", q, <<<<"o", <<"proj", Orders, <<<<"a", Amount>>, <<"i", Col(Rel(It, "item"), "name")>>>>>>>>>>>>}

OrderPosts(q) ==
  {<<"prop", Col(q, "info"), "k">>, AggrBy(q, "_unique", <<"owner">>),
   AggrBy(q, "_asc", <<"amount">>), AggrBy(Aggr(Col(q, "itemid"), "_asc"), "_unique", <<>>),
   AggrBy(q, "_sum", <<"amount">>), Aggr(Col(q, "itemid"), "_unique"), Rel(q, "item")}

\* Texts that are no queries: what is open stays so, or something is missing.
Texts ==
  {<<Sym("[")>>, <<<<"slice", <<0, 1, 1>>>>>>, <<<<"op", "=">>, <<"number", 1>>>>, <<<<"op", "not">>>>,
   <<Ident("x")>>, <<Sym(")")>>} \cup
  {Render(T("p")) \o t : t \in
     {<<Sym("[")>>, <<Sym("["), Ident("name"), Sym("}")>>, <<Sym("{"), <<"number", 5>>>>,
      <<Sym("{"), <<"string", "n">>, <<"number", 5>>>>,
      <<Sym("("), Ident("name")>>}}

P == T("p")
O == T("o")
MCQueries ==
  {<<"text", t>> : t \in Texts} \cup {P} \cup {Filter(P, c) : c \in Conditions \cup Compound \cup Arithmetics}
  \cup {Filter(Filter(P, c), d) : c \in Parts, d \in Parts}
  \cup Posts(P) \cup UNION {Posts(Filter(P, c)) : c \in {Adult, Not(IsA), Op("and", Adult, IsA)}}
  \cup {Filter(Slice(P, 0, 1, Omitted), Adult), Filter(Rel(Slice(P, 1, Omitted, Omitted), "orders"), Op(">", Amount, N(1)))}
  \cup OrderPosts(O) \cup {Filter(O, c) : c \in OrderConditions}
  \cup UNION {OrderPosts(Filter(O, c)) : c \in {Op(">=", Amount, N(1))}}
=============================================================================
