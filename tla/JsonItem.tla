------------------------------- MODULE JsonItem -------------------------------
(***************************************************************************)
(* cJSON items as values: what cJSON.c copies, compares and looks up, apart *)
(* from the pointers (JsonTree) and the text (JsonText).  A string is a     *)
(* sequence of characters, each a TLA+ string.                              *)
(***************************************************************************)
EXTENDS Integers, Sequences

LOCAL INSTANCE SequencesExt

CONSTANT NULL

\* struct cJSON: value is the valuestring, or the number of a number item;
\* name is the string of an object member; items are the children.  last is the
\* place of the child that the prev of the first child leads to, which is where
\* the next one is appended: 0 if prev is not set, Gone if it leads to an item
\* that is no child any more.
Item(type, value, name, items) ==
  [type |-> type, value |-> value, name |-> name, items |-> items,
   last |-> Len(items)]
Gone == -1

Scalar(type)  == Item(type, NULL, NULL, <<>>)
Number(d)     == Item("number", d, NULL, <<>>)
Text(s)       == Item("string", s, NULL, <<>>)
Array(items)  == Item("array", NULL, NULL, items)
Object(items) == Item("object", NULL, NULL, items)
Called(v, k)  == [v EXCEPT !.name = k]
Holding(v, items, last) == [v EXCEPT !.items = items, !.last = last]

IsArray(v)  == v # NULL /\ v.type = "array"
IsObject(v) == v # NULL /\ v.type = "object"
IsString(v) == v # NULL /\ v.type = "string"
IsNull(v)   == v # NULL /\ v.type = "null"

\* The blocks of memory an item stands for: itself, its text, its name, and
\* those of its children.  cJSON_Delete gives all of them back.
OwnBlocks(v) ==
  1 + (IF v.type = "string" /\ v.value # NULL THEN 1 ELSE 0)
    + (IF v.name # NULL THEN 1 ELSE 0)
RECURSIVE Blocks(_)
Blocks(v) == OwnBlocks(v) + FoldSeq(LAMBDA w, n : n + Blocks(w), 0, v.items)
BlocksOf(s) == FoldSeq(LAMBDA w, n : n + Blocks(w), 0, s)

\* add_item_to_array goes by last.  It reports success whatever happens; what an
\* item that is gone is made to point at nobody sees.
Appended(v, w) ==
  IF v.items # <<>> /\ v.last \in {0, Gone} THEN v
  ELSE Holding(v, Append(SubSeq(v.items, 1, v.last), w), v.last + 1)

\* cJSON_DetachItemViaPointer: without the i-th child.
Detached(v, i) ==
  Holding(v, RemoveAt(v.items, i),
    CASE i > 1 /\ i = Len(v.items)      -> i - 1
      [] i = v.last /\ i < Len(v.items) -> Gone
      [] i < v.last /\ i < Len(v.items) -> v.last - 1
      [] OTHER -> IF Len(v.items) = 1 THEN 0 ELSE v.last)

\* A copy of v, which is built anew.
RECURSIVE Fresh(_)
Fresh(v) == Holding(v, [i \in DOMAIN v.items |-> Fresh(v.items[i])], Len(v.items))

-----------------------------------------------------------------------------
\* tolower; the letters of the names.
LowerChar(c) == IF c \in {"A", "B", "C"} THEN
                  CASE c = "A" -> "a" [] c = "B" -> "b" [] OTHER -> "c"
                ELSE c
Lower(s) == [i \in DOMAIN s |-> LowerChar(s[i])]

\* strcmp, and case_insensitive_strcmp.  A missing name equals nothing.
SameName(j, k, exact) ==
  j # NULL /\ k # NULL /\ IF exact THEN j = k ELSE Lower(j) = Lower(k)

\* The place of get_object_item's item among those of v, 0 if there is none.
\* The search for the exact name ends at an item without one.
GetObjectItem(v, k, exact) ==
  LET fits(i) == SameName(v.items[i].name, k, exact)
      ends(i) == fits(i) \/ (exact /\ v.items[i].name = NULL)
      found   == {i \in DOMAIN v.items :
                    fits(i) /\ \A j \in 1..(i - 1) : ~ends(j)}
  IN  IF ~(IsObject(v) \/ IsArray(v)) \/ k = NULL \/ found = {} THEN 0
      ELSE CHOOSE i \in found : TRUE

-----------------------------------------------------------------------------
\* cJSON_Compare.  Members of an object are looked for by name, each way.
RECURSIVE Compare(_, _, _)
Compare(a, b, exact) ==
  /\ a.type = b.type
  /\ a.type \in {"number", "string"} => a.value = b.value
  /\ a.type = "array" =>
       /\ Len(a.items) = Len(b.items)
       /\ \A i \in DOMAIN a.items : Compare(a.items[i], b.items[i], exact)
  /\ a.type = "object" =>
       LET within(x, y) == \A i \in DOMAIN x.items :
             LET j == GetObjectItem(y, x.items[i].name, exact)
             IN  j # 0 /\ Compare(x.items[i], y.items[j], exact)
       IN  within(a, b) /\ within(b, a)

\* cJSON_Duplicate with memory for left blocks: the copy or NULL, and the
\* blocks left then.  A copy that cannot be finished is deleted.
RECURSIVE Duplicate(_, _, _)
Duplicate(v, recurse, left) ==
  LET copied(r, w) ==            \* the next child of the copy in r
        IF r.item = NULL THEN r
        ELSE LET c == Duplicate(w, TRUE, r.left) IN
             IF c.item = NULL
             THEN [item |-> NULL, left |-> c.left + Blocks(r.item)]
             ELSE [item |-> Appended(r.item, c.item), left |-> c.left]
  IN  IF left < OwnBlocks(v) THEN [item |-> NULL, left |-> left]
      ELSE FoldLeft(copied, [item |-> Holding(v, <<>>, 0),
                             left |-> left - OwnBlocks(v)],
                    IF recurse THEN v.items ELSE <<>>)
=============================================================================
