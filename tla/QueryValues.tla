---------------------------- MODULE QueryValues -----------------------------
(***************************************************************************)
(* The values a query computes with, and what the evaluator's operators    *)
(* and aggregates do to them (dsl/evaluator/types.go, operator.go,         *)
(* filter.go, aggr.go, unknown.go).                                        *)
(*                                                                         *)
(* A value is a pair of its type, as getStructureType names it, and its    *)
(* contents: a row maps columns to values, a table is a sequence of rows,  *)
(* an ARRAY_OF_UNKNOWN (a []any) a sequence of values of any type.         *)
(* Failed stands for an error and for a panic, which Execute makes an      *)
(* error of.  Numbers are integers: division, remainder and averages that  *)
(* are not whole are left out, as are patterns and dates as texts.         *)
(***************************************************************************)
EXTENDS Integers, FiniteSets, Sequences, FiniteSetsExt

CONSTANTS
  Rank,      \* the strings there are, in their order: string |-> number
  Matches    \* pattern |-> the strings it matches

Type(v) == v[1]

Null == <<"NULL", 0>>
Failed == <<"FAILED", 0>>
Num(n) == <<"NUMBER", n>>
Str(s) == <<"STRING", s>>
Bool(b) == <<"BOOL", b>>
Row(r) == <<"ROW", r>>
Table(rows) == <<"TABLE", rows>>

Field(row, col) == IF col \in DOMAIN row THEN row[col] ELSE Null

ArrayOf == [STRING |-> "ARRAY_OF_STRING", NUMBER |-> "ARRAY_OF_NUMBER",
            BOOL |-> "ARRAY_OF_BOOL", ROW |-> "TABLE"]
ElementOf == [ARRAY_OF_STRING |-> "STRING", ARRAY_OF_NUMBER |-> "NUMBER",
              ARRAY_OF_BOOL |-> "BOOL", TABLE |-> "ROW"]

\* Lists of a column have the type of the column.
ListType == [number |-> "ARRAY_OF_NUMBER", timestamp |-> "ARRAY_OF_NUMBER",
             string |-> "ARRAY_OF_STRING"]

IsArray(v) == Type(v) \in DOMAIN ElementOf \cup {"ARRAY_OF_UNKNOWN"}

\* A []any takes the type all its elements have; an empty one has none.
NarrowTypes(s) ==
  LET types == {Type(s[i]) : i \in DOMAIN s} IN
  IF \E t \in DOMAIN ArrayOf : types = {t}
    THEN <<ArrayOf[Type(s[1])], [i \in DOMAIN s |-> s[i][2]]>>
    ELSE <<"ARRAY_OF_UNKNOWN", s>>

Elements(v) ==
  IF Type(v) = "ARRAY_OF_UNKNOWN" THEN v[2]
  ELSE [i \in DOMAIN v[2] |-> <<ElementOf[Type(v)], v[2][i]>>]

-----------------------------------------------------------------------------
(* Operators.  An operand of the other type counts as 0 or "".             *)

Scalar(v) == Type(v) \in {"STRING", "NUMBER"}
NumOf(v) == IF Type(v) = "NUMBER" THEN v[2] ELSE 0
StrOf(v) == IF Type(v) = "STRING" THEN v[2] ELSE ""

EvalArithmeticOperator(op, a, b) ==
  IF ~Scalar(a) \/ ~Scalar(b) THEN Failed
  ELSE IF StrOf(a) # "" THEN IF op = "+" THEN Str(a[2] \o StrOf(b)) ELSE Failed
  ELSE CASE op = "+" -> Num(NumOf(a) + NumOf(b))
         [] op = "-" -> Num(NumOf(a) - NumOf(b))
         [] op = "*" -> Num(NumOf(a) * NumOf(b))

\* A JSON property of another type compares as false, anything else is an error.
EvalComparisonOperator(op, a, b, aJson, bJson) ==
  LET in == op = "in" /\ Type(b) = ArrayOf[Type(a)] /\ \E i \in DOMAIN b[2] : b[2][i] = a[2]
      l == IF Type(a) = "STRING" THEN Rank[a[2]] ELSE a[2]
      r == IF Type(a) = "STRING" THEN Rank[StrOf(b)] ELSE NumOf(b)
  IN  IF ~Scalar(a) THEN IF aJson THEN Bool(FALSE) ELSE Failed
      ELSE IF ~Scalar(b) /\ Type(b) \notin {"ARRAY_OF_STRING", "ARRAY_OF_NUMBER"}
        THEN IF bJson THEN Bool(FALSE) ELSE Failed
      ELSE Bool(CASE op = "="  -> l = r
                  [] op = "!=" -> l # r
                  [] op = "<"  -> l < r
                  [] op = "<=" -> l <= r
                  [] op = ">"  -> l > r
                  [] op = ">=" -> l >= r
                  [] op = "in" -> in)

EvalLogicalOperator(op, a, b) ==
  IF Type(b) # "BOOL" \/ (op # "not" /\ Type(a) # "BOOL") THEN Failed
  ELSE Bool(CASE op = "and" -> a[2] /\ b[2]
              [] op = "or"  -> a[2] \/ b[2]
              [] op = "not" -> ~b[2])

Logical == {"and", "or", "not"}
Arithmetic == {"+", "-", "*"}

EvalOperator(op, a, b, aJson, bJson) ==
  IF op \in Logical THEN EvalLogicalOperator(op, a, b)
  ELSE IF op \in Arithmetic THEN EvalArithmeticOperator(op, a, b)
  ELSE EvalComparisonOperator(op, a, b, aJson, bJson)

-----------------------------------------------------------------------------
(* Slices and single rows.                                                 *)

CONSTANT Omitted     \* a part of a slice that is not given

\* Mutant: negative indices count from the last element but one.
BoundOff(x, n, default) ==
  LET y == IF x = Omitted THEN default ELSE IF x < 0 THEN n - 1 + x ELSE x
  IN  IF y < 0 THEN 0 ELSE IF y > n THEN n ELSE y

\* An index from the end if negative, within the array in any case.
Bound(x, n, default) ==
  LET y == IF x = Omitted THEN default ELSE IF x < 0 THEN n + x ELSE x
  IN  IF y < 0 THEN 0 ELSE IF y > n THEN n ELSE y

Step(x) == IF x \in {Omitted, 0} THEN 1 ELSE x

\* A negative step runs out of the array, and a start after the end is not supported.
SliceFails(arr, x) ==
  LET n == Len(arr)
      start == Bound(x[1], n, 0)
      end == Bound(x[2], n, n)
  IN  start > end \/ (start < end /\ Step(x[3]) < 0)

EvalSlice(v, x) ==
  IF ~IsArray(v) \/ Type(v) = "ARRAY_OF_BOOL" THEN Failed
  ELSE LET arr == Elements(v)
           n == Len(arr)
           start == Bound(x[1], n, 0)
           end == Bound(x[2], n, n)
           count == IF start = end THEN 0 ELSE (end - start - 1) \div Step(x[3]) + 1
       IN  IF SliceFails(arr, x) THEN Failed
           ELSE NarrowTypes([k \in 1..count |-> arr[start + (k - 1) * Step(x[3]) + 1]])

EvalTableRow(v, i) ==
  IF ~IsArray(v) \/ Type(v) = "ARRAY_OF_BOOL" \/ i >= Len(v[2]) THEN Failed
  ELSE Elements(v)[i + 1]

\* A property of an object, or of each object of an array.
EvalJsonProperty(v, name, unknown) ==
  LET Of(e) == IF Type(e) = "ROW" THEN Field(e[2], name) ELSE Null IN
  CASE Type(v) = "ROW" -> Field(v[2], name)
    [] Type(v) \in {"TABLE", "ARRAY_OF_UNKNOWN"} ->
         LET s == Elements(v) IN
         IF unknown /\ \E i \in DOMAIN s : Type(s[i]) \notin {"ROW", "NULL"} THEN Failed
         ELSE NarrowTypes([i \in DOMAIN s |-> Of(s[i])])
    [] OTHER -> Failed

-----------------------------------------------------------------------------
(* Aggregates, of a list or of the columns of a table named in args.       *)

NeedsColumn(v, args) == Type(v) = "TABLE" /\ args = <<>>

Column(v, args) ==
  IF Type(v) = "TABLE" THEN [i \in DOMAIN v[2] |-> Field(v[2][i], args[1])] ELSE Elements(v)

Numbers(v, args) ==
  LET s == SelectSeq(Column(v, args), LAMBDA e : Type(e) = "NUMBER")
  IN  [i \in DOMAIN s |-> s[i][2]]

Total(s) == MapThenSumSet(LAMBDA i : s[i], DOMAIN s)

\* _sum, _avg, _min, _max
Numeric(name, args, v) ==
  IF Type(v) \notin {"ARRAY_OF_NUMBER", "TABLE", "ARRAY_OF_UNKNOWN"} \/ NeedsColumn(v, args)
    THEN Failed
  ELSE LET s == Numbers(v, args)
           values == {s[i] : i \in DOMAIN s}
       IN  CASE name = "_sum" -> Num(Total(s))
             [] name = "_avg" -> Num(IF s = <<>> THEN 0 ELSE Total(s) \div Len(s))
             [] name = "_min" -> IF s = <<>> THEN Failed ELSE Num(Min(values))
             [] name = "_max" -> IF s = <<>> THEN Failed ELSE Num(Max(values))

\* Nulls come last in both directions.
Before(name, a, b) ==
  LET Key(v) == IF Type(v) = "STRING" THEN Rank[v[2]] ELSE v[2] IN
  /\ Type(a) # "NULL"
  /\ \/ Type(b) = "NULL"
     \/ IF name = "_asc" THEN Key(a) < Key(b) ELSE Key(a) > Key(b)

\* Rows are compared by the first of the columns in which they differ.
RowBefore(name, cols, r, s) ==
  \E k \in DOMAIN cols :
    /\ Before(name, Field(r, cols[k]), Field(s, cols[k]))
    /\ \A j \in 1..(k - 1) : Field(r, cols[j]) = Field(s, cols[j])

\* before: the pairs of positions of which the first element is the lesser.
SliceStable(s, before) ==
  LET First(i, j) == <<i, j>> \in before \/ (i < j /\ <<j, i>> \notin before)
      place(i) == Cardinality({j \in DOMAIN s \ {i} : First(j, i)}) + 1
  IN  [k \in DOMAIN s |-> s[CHOOSE i \in DOMAIN s : place(i) = k]]

\* _asc, _desc
Sorted(name, args, v) ==
  IF ~IsArray(v) \/ Type(v) = "ARRAY_OF_BOOL" \/ NeedsColumn(v, args) THEN Failed
  ELSE LET s == Elements(v)
           before == {p \in (DOMAIN s) \X (DOMAIN s) :
                        IF Type(v) = "TABLE" THEN RowBefore(name, args, v[2][p[1]], v[2][p[2]])
                        ELSE Before(name, s[p[1]], s[p[2]])}
       IN  <<Type(v), SliceStable(v[2], before)>>

\* The first of the elements with equal keys.
FirstOf(s, keys) ==
  LET keep == {i \in DOMAIN s : \A j \in 1..(i - 1) : keys[j] # keys[i]}
      nth(k) == CHOOSE i \in keep : Cardinality({j \in keep : j < i}) = k - 1
  IN  [k \in 1..Cardinality(keep) |-> s[nth(k)]]

Unique(args, v) ==
  IF ~IsArray(v) \/ Type(v) = "ARRAY_OF_BOOL" \/ NeedsColumn(v, args) THEN Failed
  ELSE LET key(i) == IF Type(v) = "TABLE" THEN [k \in DOMAIN args |-> Field(v[2][i], args[k])]
                     ELSE v[2][i]
       IN  <<Type(v), FirstOf(v[2], [i \in DOMAIN v[2] |-> key(i)])>>

Count(v) == IF IsArray(v) THEN Num(Len(v[2])) ELSE Failed

\* Whether any string matches; a table needs a column as well as a pattern.
Like(args, v, input) ==
  LET OfTable == input = "TABLE"
      strings == IF Type(v) = "STRING" THEN <<v>>
                 ELSE IF OfTable /\ Type(v) = "TABLE" THEN Column(v, args)
                 ELSE IF Type(v) = "TABLE" THEN <<>> ELSE Elements(v)
      pattern == args[IF OfTable THEN 2 ELSE 1]
  IN  IF Len(args) < (IF OfTable THEN 2 ELSE 1)
         \/ Type(v) \notin {"STRING", "ARRAY_OF_STRING", "ARRAY_OF_UNKNOWN", "TABLE"}
        THEN Failed
        ELSE Bool(\E i \in DOMAIN strings :
                    Type(strings[i]) = "STRING" /\ strings[i][2] \in Matches[pattern])

EvalAggr(name, args, v, input) ==
  CASE name \in {"_sum", "_avg", "_min", "_max"} -> Numeric(name, args, v)
    [] name \in {"_asc", "_desc"} -> Sorted(name, args, v)
    [] name = "_count"  -> Count(v)
    [] name = "_unique" -> Unique(args, v)
    [] name = "_like"   -> Like(args, v, input)
=============================================================================
