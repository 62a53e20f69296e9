--------------------------- MODULE QueryLanguage ----------------------------
(***************************************************************************)
(* Parser and evaluator against the meaning of queries: a query is a tree, *)
(* Tokens is Render, and what the evaluator ends with is what the tree     *)
(* means.                                                                  *)
(***************************************************************************)
EXTENDS Query, QueryMeaning

(***************************************************************************)
(* A query's result is what the query means: an answer where it means one, *)
(* an error where it means none.  The queries whose tokens the parser is   *)
(* known to misread, and the executions in which the evaluator is known to *)
(* go astray, are the ones excepted.  This covers all of Parse and Eval:   *)
(* operator precedence, the table a name belongs to, the row a statement   *)
(* is evaluated for, and the values other rows have left in memory.        *)
(***************************************************************************)
QueryMeansWhatItSays ==
  outcome = "done" /\ odd = {} => Answer(result) = Answer(Meaning(query, <<>>, data))

(***************************************************************************)
(* "Slicing can be applied before or after filtration, as ONQL evaluates   *)
(* queries from left to right" (README.md:128): what follows a filter is   *)
(* evaluated whatever the filter keeps and gets.                           *)
(***************************************************************************)
LeftToRight ==
  outcome = "done" /\ odd \subseteq {"skipped"} =>
    Answer(result) = Answer(Meaning(query, <<>>, data))
=============================================================================
