------------------------------ MODULE JsonLists ------------------------------
(***************************************************************************)
(* What cJSON promises of its arrays and objects: every item has a row of  *)
(* items below it, a caller may put an item of its own at any place of a   *)
(* row, take one out or exchange it, and what is deleted goes with         *)
(* everything below it.  No pointers, no allocation.                       *)
(***************************************************************************)
EXTENDS SequencesExt

CONSTANTS Node, Name, NULL

VARIABLES nodes,  \* the items that exist
          rows,   \* the row of items below each item
          names   \* the name of each item

vars == <<nodes, rows, names>>

Init ==
  /\ nodes = {}
  /\ rows = [n \in Node |-> <<>>]
  /\ names = [n \in Node |-> NULL]

\* Items the caller holds: they are in no row.
Own == {n \in nodes : \A c \in nodes : n \notin Range(rows[c])}

\* n and everything below it: what is in every set that holds n and, with an
\* item, its row.
Below(n) ==
  {x \in nodes : \A S \in SUBSET nodes :
     n \in S /\ (\A c \in S : Range(rows[c]) \subseteq S) => x \in S}

\* The rows and names once the items of S are gone.
Without(r, S) == [c \in Node |-> IF c \in S THEN <<>> ELSE r[c]]
Unnamed(f, S) == [n \in Node |-> IF n \in S THEN NULL ELSE f[n]]

\* The names if n is called something else, or nothing.
Renamings(n) == {[names EXCEPT ![n] = k] : k \in Name \cup {NULL}}

\* New items, the first with the others in its row.
Make(a, s) ==
  /\ nodes' = nodes \cup {a} \cup Range(s)
  /\ rows' = [rows EXCEPT ![a] = s]
  /\ UNCHANGED names

\* A new item at the end of a row.
MakeIn(c, n) ==
  /\ nodes' = nodes \cup {n}
  /\ rows' = [rows EXCEPT ![c] = Append(@, n)]
  /\ names' \in Renamings(n)

\* A caller's item goes before place i of a row that it is not above of.
Put(c, i, n) ==
  /\ rows' = [rows EXCEPT ![c] = InsertAt(@, i, n)]
  /\ names' \in Renamings(n)
  /\ c \notin Below(n)
  /\ UNCHANGED nodes

Take(c, i) ==
  /\ rows' = [rows EXCEPT ![c] = RemoveAt(@, i)]
  /\ UNCHANGED <<nodes, names>>

Delete(n) ==
  /\ nodes' = nodes \ Below(n)
  /\ rows' = Without(rows, Below(n))
  /\ names' = Unnamed(names, Below(n))

TakeAndDelete(c, i) == LET gone == Below(rows[c][i]) IN
  /\ nodes' = nodes \ gone
  /\ rows' = Without([rows EXCEPT ![c] = RemoveAt(@, i)], gone)
  /\ names' = Unnamed(names, gone)

\* The item at place i makes way for a caller's, and is deleted.
Exchange(c, i, n) == LET gone == Below(rows[c][i]) IN
  /\ nodes' = nodes \ gone
  /\ rows' = Without([rows EXCEPT ![c] = ReplaceAt(@, i, n)], gone)
  /\ names' \in {Unnamed(f, gone) : f \in Renamings(n)}
  /\ c \notin Below(n)

\* A caller's item gets another name, or loses it.
Rename(n) ==
  /\ names' \in Renamings(n)
  /\ UNCHANGED <<nodes, rows>>

Next ==
  \/ \E a \in Node \ nodes :
       \/ \E x, y \in (Node \ nodes) \ {a} : x # y /\ Make(a, <<x, y>>)
       \/ Make(a, <<>>)
       \/ \E c \in nodes : MakeIn(c, a)
  \/ \E n \in Own : Delete(n) \/ Rename(n)
  \/ \E c \in nodes : \E i \in DOMAIN rows[c] : Take(c, i) \/ TakeAndDelete(c, i)
  \/ \E n \in Own, c \in nodes :
       \/ \E i \in 1..Len(rows[c]) + 1 : Put(c, i, n)
       \/ \E i \in DOMAIN rows[c] : Exchange(c, i, n)

Spec == Init /\ [][Next]_vars
=============================================================================
