------------------------------ MODULE MCJsonTree ------------------------------
(***************************************************************************)
(* JsonTree for TLC, with the rows of its lists.                           *)
(***************************************************************************)
EXTENDS JsonRows, TLC

MCFold == "a" :> "a" @@ "A" :> "a"

VARIABLE use   \* what the callers make use of: one profile throughout

\* Five items without names, for every place in a list; three with names in
\* two cases; references to lists with items; references with names; texts; items
\* that are neither lists nor texts.
Profiles ==
  {[items |-> 5, names |-> {}, kinds |-> {"list"}, refs |-> FALSE],
   [items |-> 3, names |-> {"a", "A"}, kinds |-> {"list"}, refs |-> FALSE],
   [items |-> 4, names |-> {}, kinds |-> {"list"}, refs |-> TRUE],
   [items |-> 3, names |-> {"a"}, kinds |-> {"list"}, refs |-> TRUE],
   [items |-> 3, names |-> {}, kinds |-> {"list", "text"}, refs |-> TRUE],
   [items |-> 3, names |-> {}, kinds |-> {"list", "plain"}, refs |-> FALSE]}

\* New items are the lowest that are free, as any others would do as well.
Lowest == \A n \in live' \ live, m \in Node \ live' : n < m

MCInit == RowsInit /\ use \in Profiles
MCNext ==
  /\ Calls(use.names, use.kinds, use.refs) /\ Loses
  /\ Cardinality(live') <= use.items /\ Lowest
  /\ rows' = Rows'
  /\ UNCHANGED use
MCSpec == MCInit /\ [][MCNext]_<<vars, rows, use>>
=============================================================================
