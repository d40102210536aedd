------------------------------ MODULE JsonRows ------------------------------
(***************************************************************************)
(* The trees of JsonTree with the rows of items that their pointers make,  *)
(* and the lists of JsonLists that they implement.                         *)
(***************************************************************************)
EXTENDS JsonTree, Sequences

VARIABLE rows   \* the lists as walked from their first items

\* The items met from first on, and NULL once the list has ended.
Walk(first, nx) ==
  LET met[i \in 1..Cardinality(Node)] ==
        IF i = 1 THEN first
        ELSE IF met[i - 1] = NULL THEN NULL ELSE nx[met[i - 1]]
  IN  met
Row(c) == LET met == Walk(child[c], next) IN
  SubSeq(met, 1, Cardinality({i \in DOMAIN met : met[i] # NULL}))

Rows == [c \in Node |-> IF c \in Lists THEN Row(c) ELSE <<>>]

RowsInit == Init /\ rows = Rows
RowsNext == Next /\ rows' = Rows'
RowsSpec == RowsInit /\ [][RowsNext]_<<vars, rows>>

Abstract == INSTANCE JsonLists WITH nodes <- live, names <- name

\* Behind the pointers every call is one change of one row: the item asked for
\* goes to its place, everything else keeps its order and its name, and what
\* is deleted takes along exactly what is below it; a call that fails changes
\* no row (cJSON.h:228-246).
Implements == Abstract!Spec
=============================================================================
