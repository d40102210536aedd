---------------------------- MODULE JsonTree_proof ----------------------------
(***************************************************************************)
(* Proofs about JsonTree, for any memory, any names and any kinds of item: *)
(* the lists of cJSON.c stay whole whatever calls are made on them in      *)
(* whatever order, and every string has the one item that frees it.        *)
(*                                                                         *)
(* A list is followed through sets: what next leads to from an item is in  *)
(* every set that holds the item and, with an item, the next one.  A       *)
(* change of the links keeps a list whole if every such set of the new     *)
(* links, with the item that was moved put in or taken out, is one of the  *)
(* old links.                                                              *)
(***************************************************************************)
EXTENDS JsonTree, FiniteSetTheorems, TLAPS

-----------------------------------------------------------------------------
(* The inductive invariant, of live items lv, lists ls and links.            *)

\* Items in no list have no neighbours.
Loose(lv, nx, pv, ow) ==
  \A n \in lv : ow[n] = NULL => nx[n] = NULL /\ pv[n] = NULL

\* The neighbours of an item are in its list, and know it.
Linked(lv, ls, nx, pv, ch, ow) ==
  \A n \in lv : ow[n] # NULL =>
    /\ ow[n] \in ls /\ ch[ow[n]] \in lv
    /\ pv[n] \in lv /\ ow[pv[n]] = ow[n]
    /\ n = ch[ow[n]] => nx[pv[n]] = NULL
    /\ n # ch[ow[n]] => nx[pv[n]] = n
    /\ nx[n] # NULL => /\ nx[n] \in lv /\ ow[nx[n]] = ow[n]
                       /\ pv[nx[n]] = n /\ nx[n] # ch[ow[n]]

\* A list has its first item.
Headed(lv, ls, ch, ow) ==
  \A c \in ls : ch[c] # NULL => ch[c] \in lv /\ ow[ch[c]] = c

\* S is closed under next.
Closed(S, nx) == \A y \in S : nx[y] \in S \cup {NULL}

\* What starts with the first item and is closed has every item.
Reached(lv, ls, nx, ch, ow) ==
  \A c \in ls : \A S \in SUBSET lv :
    ch[c] \in S /\ Closed(S, nx) => \A n \in lv : ow[n] = c => n \in S

\* No item is below itself.
Grounded(lv, ow) == \A S \in SUBSET lv : S # {} => \E x \in S : ow[x] \notin S

\* What is not allocated is linked to nothing.
Clear(lv, nx, pv, ch, ow) ==
  \A n \in Node \ lv : nx[n] = NULL /\ pv[n] = NULL /\ ch[n] = NULL /\ ow[n] = NULL

Typed(lv, ls, nx, pv, ch, ow) ==
  /\ lv \subseteq Node /\ ls \subseteq lv
  /\ nx \in [Node -> MaybeNode] /\ pv \in [Node -> MaybeNode]
  /\ ch \in [Node -> MaybeNode] /\ ow \in [Node -> MaybeNode]

Shape(lv, ls, nx, pv, ch, ow) ==
  /\ Typed(lv, ls, nx, pv, ch, ow)
  /\ Loose(lv, nx, pv, ow)
  /\ Linked(lv, ls, nx, pv, ch, ow)
  /\ Headed(lv, ls, ch, ow)
  /\ Reached(lv, ls, nx, ch, ow)
  /\ Grounded(lv, ow)
  /\ Clear(lv, nx, pv, ch, ow)

-----------------------------------------------------------------------------
(* What the calls do to the links.                                           *)

\* A new item, in no list.
LEMMA ShapeCreate ==
  ASSUME NEW lv, NEW ls, NEW nx, NEW pv, NEW ch, NEW ow,
         Shape(lv, ls, nx, pv, ch, ow),
         NEW n \in Node \ lv, NEW ls2 \in SUBSET (ls \cup {n}), ls \subseteq ls2,
         NEW ch2 \in [Node -> MaybeNode],
         \A x \in Node \ {n} : ch2[x] = ch[x], n \in ls2 => ch2[n] = NULL
  PROVE  Shape(lv \cup {n}, ls2, nx, pv, ch2, ow)
<1> USE DEF Shape, Typed, MaybeNode
<1>0. NULL \notin Node
  BY JsonTreeAssumption
<1>1. nx[n] = NULL /\ pv[n] = NULL /\ ch[n] = NULL /\ ow[n] = NULL
  BY DEF Clear
<1>2. \A x \in lv : ow[x] # NULL => ow[x] \in ls /\ ow[x] # n /\ ch2[ow[x]] = ch[ow[x]]
  BY DEF Linked
<1>3. Typed(lv \cup {n}, ls2, nx, pv, ch2, ow)
  OBVIOUS
<1>4. Loose(lv \cup {n}, nx, pv, ow)
  BY <1>1 DEF Loose
<1>5. Linked(lv \cup {n}, ls2, nx, pv, ch2, ow)
  BY <1>0, <1>1, <1>2 DEF Linked
<1>6. Headed(lv \cup {n}, ls2, ch2, ow)
  BY <1>0, <1>1 DEF Headed
<1>7. Reached(lv \cup {n}, ls2, nx, ch2, ow)
  <2> SUFFICES ASSUME NEW c \in ls2, NEW S \in SUBSET (lv \cup {n}),
                      ch2[c] \in S, Closed(S, nx),
                      NEW m \in lv \cup {n}, ow[m] = c
               PROVE  m \in S
    BY DEF Reached
  <2>1. m # n /\ m \in lv /\ c # n /\ c \in ls
    BY <1>0, <1>1, <1>2
  <2>2. ch[c] \in S \ {n}
    BY <2>1, <1>1, <1>0 DEF Headed
  <2>3. Closed(S \ {n}, nx)
    <3>1. ASSUME NEW y \in S \ {n}, nx[y] # NULL PROVE nx[y] # n
      BY <3>1, <1>0, <1>1 DEF Loose, Linked
    <3> QED BY <3>1 DEF Closed
  <2> QED
    BY <2>1, <2>2, <2>3 DEF Reached
<1>8. Grounded(lv \cup {n}, ow)
  <2> SUFFICES ASSUME NEW S \in SUBSET (lv \cup {n}), S # {}, \A x \in S : ow[x] \in S
               PROVE  FALSE
    BY DEF Grounded
  <2>1. n \notin S
    BY <1>0, <1>1
  <2> QED
    BY <2>1 DEF Grounded
<1>9. Clear(lv \cup {n}, nx, pv, ch2, ow)
  BY DEF Clear
<1> QED
  BY <1>3, <1>4, <1>5, <1>6, <1>7, <1>8, <1>9

\* add_item_to_array on a list that is empty.
LEMMA ShapeFirst ==
  ASSUME NEW lv, NEW ls, NEW nx, NEW pv, NEW ch, NEW ow,
         Shape(lv, ls, nx, pv, ch, ow),
         NEW c \in ls, NEW n \in lv, ow[n] = NULL, ch[c] = NULL,
         NEW pv2 \in [Node -> MaybeNode], NEW ch2 \in [Node -> MaybeNode],
         NEW ow2 \in [Node -> MaybeNode],
         \A x \in Node : pv2[x] = IF x = n THEN n ELSE pv[x],
         \A x \in Node : ch2[x] = IF x = c THEN n ELSE ch[x],
         \A x \in Node : ow2[x] = IF x = n THEN c ELSE ow[x],
         Grounded(lv, ow2)
  PROVE  Shape(lv, ls, nx, pv2, ch2, ow2)
<1> USE DEF Shape, Typed, MaybeNode
<1>0. NULL \notin Node
  BY JsonTreeAssumption
<1>1. nx[n] = NULL
  BY DEF Loose
<1>2. \A x \in lv : ow[x] # c
  BY <1>0 DEF Linked
<1>3. Typed(lv, ls, nx, pv2, ch2, ow2)
  OBVIOUS
<1>4. Loose(lv, nx, pv2, ow2)
  BY <1>0 DEF Loose
<1>5. Linked(lv, ls, nx, pv2, ch2, ow2)
  BY <1>0, <1>1, <1>2 DEF Linked
<1>6. Headed(lv, ls, ch2, ow2)
  BY <1>0 DEF Headed
<1>7. Reached(lv, ls, nx, ch2, ow2)
  BY <1>0, <1>2 DEF Reached
<1>9. Clear(lv, nx, pv2, ch2, ow2)
  BY DEF Clear
<1> QED
  BY <1>3, <1>4, <1>5, <1>6, <1>7, <1>9

\* add_item_to_array on a list with items.
LEMMA ShapeLast ==
  ASSUME NEW lv, NEW ls, NEW nx, NEW pv, NEW ch, NEW ow,
         Shape(lv, ls, nx, pv, ch, ow),
         NEW c \in ls, NEW n \in lv, ow[n] = NULL, ch[c] # NULL,
         NEW nx2 \in [Node -> MaybeNode], NEW pv2 \in [Node -> MaybeNode],
         NEW ow2 \in [Node -> MaybeNode],
         \A x \in Node : nx2[x] = IF x = pv[ch[c]] THEN n ELSE nx[x],
         \A x \in Node : pv2[x] = IF x = ch[c] THEN n
                                  ELSE IF x = n THEN pv[ch[c]] ELSE pv[x],
         \A x \in Node : ow2[x] = IF x = n THEN c ELSE ow[x],
         Grounded(lv, ow2)
  PROVE  Shape(lv, ls, nx2, pv2, ch, ow2)
<1> USE DEF Shape, Typed, MaybeNode
<1> DEFINE last == pv[ch[c]]
<1>0. NULL \notin Node
  BY JsonTreeAssumption
<1>1. nx[n] = NULL /\ pv[n] = NULL
  BY DEF Loose
<1>2. /\ ch[c] \in lv /\ ow[ch[c]] = c
      /\ last \in lv /\ ow[last] = c /\ nx[last] = NULL /\ last # n /\ ch[c] # n
  BY <1>0 DEF Headed, Linked
<1>3. Typed(lv, ls, nx2, pv2, ch, ow2)
  OBVIOUS
<1>4. Loose(lv, nx2, pv2, ow2)
  BY <1>0, <1>2 DEF Loose
<1>5. Linked(lv, ls, nx2, pv2, ch, ow2)
  BY <1>0, <1>1, <1>2 DEF Linked
<1>6. Headed(lv, ls, ch, ow2)
  BY <1>0 DEF Headed
<1>7. Reached(lv, ls, nx2, ch, ow2)
  <2> SUFFICES ASSUME NEW d \in ls, NEW S \in SUBSET lv, ch[d] \in S, Closed(S, nx2),
                      NEW m \in lv, ow2[m] = d
               PROVE  m \in S
    BY DEF Reached
  <2>1. Closed(S, nx)
    BY <1>2 DEF Closed
  <2>2. m # n => m \in S
    BY <2>1 DEF Reached
  <2>3. m = n => last \in S
    BY <2>1, <1>2 DEF Reached
  <2> QED
    BY <2>2, <2>3, <1>0 DEF Closed
<1>9. Clear(lv, nx2, pv2, ch, ow2)
  BY <1>2 DEF Clear
<1> QED
  BY <1>3, <1>4, <1>5, <1>6, <1>7, <1>9

\* cJSON_InsertItemInArray before the item after of the list c.
InsertChange(nx, pv, ch, ow, c, after, n, nx2, pv2, ch2, ow2) ==
  /\ nx2 \in [Node -> MaybeNode] /\ pv2 \in [Node -> MaybeNode]
  /\ ch2 \in [Node -> MaybeNode] /\ ow2 \in [Node -> MaybeNode]
  /\ \A x \in Node : nx2[x] = IF x = n THEN after
                              ELSE IF x = pv[after] /\ after # ch[c] THEN n ELSE nx[x]
  /\ \A x \in Node : pv2[x] = IF x = after THEN n
                              ELSE IF x = n THEN pv[after] ELSE pv[x]
  /\ \A x \in Node : ch2[x] = IF x = c /\ after = ch[c] THEN n ELSE ch[x]
  /\ \A x \in Node : ow2[x] = IF x = n THEN c ELSE ow[x]

LEMMA ShapeInsert ==
  ASSUME NEW lv, NEW ls, NEW nx, NEW pv, NEW ch, NEW ow,
         Shape(lv, ls, nx, pv, ch, ow),
         NEW c \in ls, NEW n \in lv, ow[n] = NULL,
         NEW after \in lv, ow[after] = c,
         NEW nx2, NEW pv2, NEW ch2, NEW ow2,
         InsertChange(nx, pv, ch, ow, c, after, n, nx2, pv2, ch2, ow2),
         Grounded(lv, ow2)
  PROVE  Shape(lv, ls, nx2, pv2, ch2, ow2)
<1> USE DEF Shape, Typed, MaybeNode, InsertChange
<1> DEFINE before == pv[after]
<1>0. NULL \notin Node
  BY JsonTreeAssumption
<1>1. nx[n] = NULL /\ pv[n] = NULL
  BY DEF Loose
<1>2. /\ ch[c] \in lv /\ ow[ch[c]] = c /\ before \in lv /\ ow[before] = c
      /\ IF after = ch[c] THEN nx[before] = NULL ELSE nx[before] = after
      /\ after # n /\ before # n /\ ch[c] # n
  BY <1>0 DEF Headed, Linked
<1>3. Typed(lv, ls, nx2, pv2, ch2, ow2)
  OBVIOUS
<1>4. Loose(lv, nx2, pv2, ow2)
  BY <1>0, <1>2 DEF Loose
<1>5. Linked(lv, ls, nx2, pv2, ch2, ow2)
  BY <1>0, <1>1, <1>2 DEF Linked
<1>6. Headed(lv, ls, ch2, ow2)
  BY <1>0, <1>2 DEF Headed
<1>7. Reached(lv, ls, nx2, ch2, ow2)
  <2> SUFFICES ASSUME NEW d \in ls, NEW S \in SUBSET lv, ch2[d] \in S, Closed(S, nx2),
                      NEW m \in lv, ow2[m] = d
               PROVE  m \in S
    BY DEF Reached
  <2>1. Closed(S, nx)
    BY <1>0, <1>1, <1>2 DEF Closed
  <2>2. ch[d] \in S
    BY <1>0, <1>2 DEF Closed
  <2>3. m # n => m \in S
    BY <2>1, <2>2 DEF Reached
  <2>4. m = n /\ after # ch[c] => before \in S
    BY <2>1, <2>2, <1>2 DEF Reached
  <2> QED
    BY <2>3, <2>4, <1>0, <1>2 DEF Closed
<1>9. Clear(lv, nx2, pv2, ch2, ow2)
  BY <1>2 DEF Clear
<1> QED
  BY <1>3, <1>4, <1>5, <1>6, <1>7, <1>9

\* cJSON_DetachItemViaPointer takes item out of the list c.
DetachChange(nx, pv, ch, ow, c, item, nx2, pv2, ch2, ow2) ==
  /\ nx2 \in [Node -> MaybeNode] /\ pv2 \in [Node -> MaybeNode]
  /\ ch2 \in [Node -> MaybeNode] /\ ow2 \in [Node -> MaybeNode]
  /\ \A x \in Node : nx2[x] = IF x = item THEN NULL
                              ELSE IF x = pv[item] /\ item # ch[c] THEN nx[item]
                              ELSE nx[x]
  /\ \A x \in Node : pv2[x] =
       IF x = item THEN NULL
       ELSE IF x = nx[item] \/ (x = ch[c] /\ item # ch[c] /\ nx[item] = NULL)
       THEN pv[item] ELSE pv[x]
  /\ \A x \in Node : ch2[x] = IF x = c /\ item = ch[c] THEN nx[item] ELSE ch[x]
  /\ \A x \in Node : ow2[x] = IF x = item THEN NULL ELSE ow[x]

LEMMA ShapeDetach ==
  ASSUME NEW lv, NEW ls, NEW nx, NEW pv, NEW ch, NEW ow,
         Shape(lv, ls, nx, pv, ch, ow),
         NEW c \in ls, NEW item \in lv, ow[item] = c,
         NEW nx2, NEW pv2, NEW ch2, NEW ow2,
         DetachChange(nx, pv, ch, ow, c, item, nx2, pv2, ch2, ow2)
  PROVE  Shape(lv, ls, nx2, pv2, ch2, ow2)
<1> USE DEF Shape, Typed, MaybeNode, DetachChange
<1> DEFINE before == pv[item]
           after == nx[item]
           first == ch[c]
<1>0. NULL \notin Node
  BY JsonTreeAssumption
<1>1. /\ first \in lv /\ ow[first] = c /\ before \in lv /\ ow[before] = c
      /\ IF item = first THEN nx[before] = NULL ELSE nx[before] = item
      /\ after # NULL => /\ after \in lv /\ ow[after] = c
                         /\ pv[after] = item /\ after # first
  <2>1. c # NULL /\ ow[item] # NULL
    BY <1>0
  <2>2. /\ first \in lv /\ before \in lv /\ ow[before] = c
        /\ IF item = first THEN nx[before] = NULL ELSE nx[before] = item
        /\ after # NULL => /\ after \in lv /\ ow[after] = c
                           /\ pv[after] = item /\ after # first
    BY <2>1 DEF Linked
  <2> QED
    BY <2>2, <1>0 DEF Headed
<1>2. \A x \in lv : nx[x] = item => x = before /\ item # first
  BY <1>0, <1>1 DEF Loose, Linked
<1>3. Typed(lv, ls, nx2, pv2, ch2, ow2)
  OBVIOUS
<1>4. Loose(lv, nx2, pv2, ow2)
  BY <1>0, <1>1 DEF Loose
<1>7. Reached(lv, ls, nx2, ch2, ow2)
  <2> SUFFICES ASSUME NEW d \in ls, NEW S \in SUBSET lv, ch2[d] \in S, Closed(S, nx2),
                      NEW m \in lv, ow2[m] = d
               PROVE  m \in S
    BY DEF Reached
  <2>0. m # item /\ ow[m] = d
    BY <1>0
  <2>1. ch[d] \in lv /\ ow[ch[d]] = d
    BY <2>0, <1>0 DEF Linked, Headed
  <2>2. CASE after \in S \cup {NULL}
    <3>1. Closed(S \cup {item}, nx)
      BY <2>2, <1>1, <1>2 DEF Closed
    <3>2. ch[d] \in S \cup {item}
      BY <2>1, <1>1
    <3> QED
      BY <3>1, <3>2, <2>0 DEF Reached
  <2>3. CASE after \notin S \cup {NULL}
    <3>1. before \notin S \/ before = item \/ item = first
      BY <2>3, <1>1 DEF Closed
    <3>2. d = c => item # first
      BY <2>3
    <3>3. Closed(S \ {item}, nx)
      BY <3>1, <1>1, <1>2 DEF Closed
    <3>4. ch[d] \in S \ {item}
      BY <3>2, <2>1, <1>1
    <3> QED
      BY <3>3, <3>4, <2>0 DEF Reached
  <2> QED
    BY <2>2, <2>3
<1>5. Linked(lv, ls, nx2, pv2, ch2, ow2)
  <2> SUFFICES ASSUME NEW n \in lv, n # item, ow[n] # NULL
               PROVE
                 /\ ow[n] \in ls /\ ch2[ow[n]] \in lv
                 /\ pv2[n] \in lv /\ ow2[pv2[n]] = ow[n]
                 /\ n = ch2[ow[n]] => nx2[pv2[n]] = NULL
                 /\ n # ch2[ow[n]] => nx2[pv2[n]] = n
                 /\ nx2[n] # NULL => /\ nx2[n] \in lv /\ ow2[nx2[n]] = ow[n]
                                    /\ pv2[nx2[n]] = n /\ nx2[n] # ch2[ow[n]]
    BY DEF Linked
  <2>1. /\ ow[n] \in ls /\ ch[ow[n]] \in lv /\ ow[ch[ow[n]]] = ow[n]
        /\ pv[n] \in lv /\ ow[pv[n]] = ow[n]
        /\ n = ch[ow[n]] => nx[pv[n]] = NULL
        /\ n # ch[ow[n]] => nx[pv[n]] = n
        /\ nx[n] # NULL => /\ nx[n] \in lv /\ ow[nx[n]] = ow[n]
                           /\ pv[nx[n]] = n /\ nx[n] # ch[ow[n]]
    BY <1>0 DEF Linked, Headed
  <2>2. CASE ow[n] # c
    BY <2>1, <2>2, <1>0, <1>1
  <2>3. CASE ow[n] = c
    <3>1. item = first => after # NULL
      <4>1. after = NULL => Closed({item}, nx)
        BY DEF Closed
      <4> QED
        BY <4>1, <2>3 DEF Reached
    <3> QED
      BY <2>1, <2>3, <3>1, <1>0, <1>1, <1>2
  <2> QED
    BY <2>2, <2>3
<1>6. Headed(lv, ls, ch2, ow2)
  BY <1>0, <1>1 DEF Headed
<1>8. Grounded(lv, ow2)
  BY <1>0 DEF Grounded
<1>9. Clear(lv, nx2, pv2, ch2, ow2)
  BY <1>0, <1>1 DEF Clear
<1> QED
  BY <1>3, <1>4, <1>5, <1>6, <1>7, <1>8, <1>9

\* cJSON_ReplaceItemViaPointer puts n in the place of item in the list c.
ReplaceChange(nx, pv, ch, ow, c, item, n, nx2, pv2, ch2, ow2) ==
  /\ nx2 \in [Node -> MaybeNode] /\ pv2 \in [Node -> MaybeNode]
  /\ ch2 \in [Node -> MaybeNode] /\ ow2 \in [Node -> MaybeNode]
  /\ \A x \in Node : nx2[x] = IF x = item THEN NULL
                              ELSE IF x = n THEN nx[item]
                              ELSE IF x = pv[item] /\ item # ch[c] THEN n ELSE nx[x]
  /\ \A x \in Node : pv2[x] =
       IF x = item THEN NULL
       ELSE IF x = n THEN IF item = ch[c] /\ pv[item] = ch[c] THEN n ELSE pv[item]
       ELSE IF x = nx[item] \/ (x = ch[c] /\ item # ch[c] /\ nx[item] = NULL)
       THEN n ELSE pv[x]
  /\ \A x \in Node : ch2[x] = IF x = c /\ item = ch[c] THEN n ELSE ch[x]
  /\ \A x \in Node : ow2[x] = IF x = item THEN NULL
                              ELSE IF x = n THEN c ELSE ow[x]

LEMMA ShapeReplace ==
  ASSUME NEW lv, NEW ls, NEW nx, NEW pv, NEW ch, NEW ow,
         Shape(lv, ls, nx, pv, ch, ow),
         NEW c \in ls, NEW item \in lv, ow[item] = c, NEW n \in lv, ow[n] = NULL,
         NEW nx2, NEW pv2, NEW ch2, NEW ow2,
         ReplaceChange(nx, pv, ch, ow, c, item, n, nx2, pv2, ch2, ow2),
         Grounded(lv, ow2)
  PROVE  Shape(lv, ls, nx2, pv2, ch2, ow2)
<1> USE DEF Shape, Typed, MaybeNode, ReplaceChange
<1> DEFINE before == pv[item]
           after == nx[item]
           first == ch[c]
<1>0. NULL \notin Node /\ n # item
  BY JsonTreeAssumption
<1>1. /\ first \in lv /\ ow[first] = c /\ before \in lv /\ ow[before] = c
      /\ IF item = first THEN nx[before] = NULL ELSE nx[before] = item
      /\ after # NULL => /\ after \in lv /\ ow[after] = c
                         /\ pv[after] = item /\ after # first
  <2>1. c # NULL /\ ow[item] # NULL
    BY <1>0
  <2>2. /\ first \in lv /\ before \in lv /\ ow[before] = c
        /\ IF item = first THEN nx[before] = NULL ELSE nx[before] = item
        /\ after # NULL => /\ after \in lv /\ ow[after] = c
                           /\ pv[after] = item /\ after # first
    BY <2>1 DEF Linked
  <2> QED
    BY <2>2, <1>0 DEF Headed
<1>2. \A x \in lv : nx[x] = item => x = before /\ item # first
  BY <1>0, <1>1 DEF Loose, Linked
<1>a. item # first => before # item /\ after # item
  <2> DEFINE rest == {x \in lv : ow[x] = c} \ {item}
  <2>1. SUFFICES ASSUME item # first, before = item \/ after = item PROVE FALSE
    OBVIOUS
  <2>2. \A x \in rest : nx[x] \in rest \cup {NULL}
    BY <2>1, <1>0, <1>1, <1>2 DEF Linked
  <2>3. Closed(rest, nx) /\ first \in rest /\ rest \in SUBSET lv
    BY <2>1, <2>2, <1>1 DEF Closed
  <2>4. item \in rest
    BY <2>3 DEF Reached
  <2> QED
    BY <2>4
<1>3. nx[n] = NULL /\ pv[n] = NULL /\ n # first /\ n # before /\ n # after
  BY <1>0, <1>1 DEF Loose
<1>4. Typed(lv, ls, nx2, pv2, ch2, ow2)
  OBVIOUS
<1>5. Loose(lv, nx2, pv2, ow2)
  BY <1>0, <1>1 DEF Loose
<1>6. Linked(lv, ls, nx2, pv2, ch2, ow2)
  <2> SUFFICES ASSUME NEW m \in lv, ow2[m] # NULL
               PROVE
                 /\ ow2[m] \in ls /\ ch2[ow2[m]] \in lv
                 /\ pv2[m] \in lv /\ ow2[pv2[m]] = ow2[m]
                 /\ m = ch2[ow2[m]] => nx2[pv2[m]] = NULL
                 /\ m # ch2[ow2[m]] => nx2[pv2[m]] = m
                 /\ nx2[m] # NULL => /\ nx2[m] \in lv /\ ow2[nx2[m]] = ow2[m]
                                    /\ pv2[nx2[m]] = m /\ nx2[m] # ch2[ow2[m]]
    BY DEF Linked
  <2>1. CASE m = n
    <3>1. ch2[c] \in lv /\ (item = first <=> ch2[c] = n) /\ ow2[n] = c /\ nx2[n] = after
      BY <1>0, <1>1, <1>3
    <3>2. pv2[n] \in lv /\ ow2[pv2[n]] = c
      BY <1>0, <1>1, <1>a, <1>3
    <3>3. n = ch2[c] => nx2[pv2[n]] = NULL
      BY <1>0, <1>1, <1>2, <1>3
    <3>4. n # ch2[c] => nx2[pv2[n]] = n
      BY <1>0, <1>1, <1>a, <1>3
    <3>5. after # NULL => /\ after \in lv /\ ow2[after] = c
                          /\ pv2[after] = n /\ after # ch2[c]
      BY <1>0, <1>1, <1>a, <1>3
    <3> QED
      BY <2>1, <3>1, <3>2, <3>3, <3>4, <3>5
  <2>2. ASSUME m # n
        PROVE
        /\ m # item /\ ow2[m] = ow[m]
        /\ ow[m] \in ls /\ ch[ow[m]] \in lv /\ ow[ch[ow[m]]] = ow[m]
        /\ pv[m] \in lv /\ ow[pv[m]] = ow[m]
        /\ m = ch[ow[m]] => nx[pv[m]] = NULL
        /\ m # ch[ow[m]] => nx[pv[m]] = m
        /\ nx[m] # NULL => /\ nx[m] \in lv /\ ow[nx[m]] = ow[m]
                           /\ pv[nx[m]] = m /\ nx[m] # ch[ow[m]]
    BY <2>2, <1>0 DEF Linked, Headed
  <2>3. CASE m # n /\ ow[m] # c
    BY <2>2, <2>3, <1>0, <1>1, <1>3
  <2>4. CASE m # n /\ ow[m] = c
    <3>1. ch2[c] \in lv /\ (item = first <=> ch2[c] = n)
      BY <1>1, <1>3
    <3>2. pv2[m] \in lv /\ ow2[pv2[m]] = c
      BY <2>2, <2>4, <1>0, <1>1, <1>2, <1>3
    <3>3. m = ch2[c] => nx2[pv2[m]] = NULL
      BY <2>2, <2>4, <1>0, <1>1, <1>2, <1>3
    <3>4. m # ch2[c] => nx2[pv2[m]] = m
      BY <2>2, <2>4, <1>0, <1>1, <1>2, <1>3
    <3>5. nx2[m] # NULL => nx2[m] \in lv /\ ow2[nx2[m]] = c /\ nx2[m] # ch2[c]
      BY <2>2, <2>4, <1>0, <1>1, <1>2, <1>3
    <3>6. nx2[m] # NULL => pv2[nx2[m]] = m
      BY <2>2, <2>4, <1>0, <1>1, <1>2, <1>3
    <3> QED
      BY <2>2, <2>4, <3>1, <3>2, <3>3, <3>4, <3>5, <3>6
  <2> QED
    BY <2>1, <2>3, <2>4
<1>7. Headed(lv, ls, ch2, ow2)
  BY <1>0, <1>1 DEF Headed
<1>8. Reached(lv, ls, nx2, ch2, ow2)
  <2> SUFFICES ASSUME NEW d \in ls, NEW S \in SUBSET lv, ch2[d] \in S, Closed(S, nx2),
                      NEW m \in lv, ow2[m] = d
               PROVE  m \in S
    BY DEF Reached
  <2>1. ch[d] \in lv /\ ow[ch[d]] = d
    BY <1>0, <1>1 DEF Linked, Headed
  <2>2. CASE n \in S
    <3>1. Closed(S \cup {item}, nx)
      BY <2>2, <1>0, <1>1, <1>2, <1>3 DEF Closed
    <3>2. ch[d] \in S \cup {item}
      BY <2>1, <1>1
    <3> QED
      BY <3>1, <3>2, <2>2, <1>0 DEF Reached
  <2>3. CASE n \notin S
    <3>1. before \notin S \/ before = item \/ item = first
      BY <2>3, <1>0, <1>1, <1>3 DEF Closed
    <3>2. d = c => item # first
      BY <2>3
    <3>3. Closed(S \ {item}, nx)
      BY <2>3, <3>1, <1>0, <1>1, <1>2 DEF Closed
    <3>4. ch[d] \in S \ {item}
      BY <3>2, <2>1, <1>1
    <3>5. m # n => m \in S
      BY <3>3, <3>4, <1>0 DEF Reached
    <3>6. m # n
      <4>1. d = c => item \in S \ {item}
        BY <3>3, <3>4 DEF Reached
      <4> QED
        BY <4>1, <1>0
    <3> QED
      BY <3>5, <3>6
  <2> QED
    BY <2>2, <2>3
<1>9. Clear(lv, nx2, pv2, ch2, ow2)
  BY <1>0, <1>1 DEF Clear
<1> QED
  BY <1>4, <1>5, <1>6, <1>7, <1>8, <1>9

\* cJSON_Delete frees F: whole trees.
ClearChange(nx, pv, ch, ow, F, nx2, pv2, ch2, ow2) ==
  /\ nx2 \in [Node -> MaybeNode] /\ pv2 \in [Node -> MaybeNode]
  /\ ch2 \in [Node -> MaybeNode] /\ ow2 \in [Node -> MaybeNode]
  /\ \A x \in Node : nx2[x] = IF x \in F THEN NULL ELSE nx[x]
  /\ \A x \in Node : pv2[x] = IF x \in F THEN NULL ELSE pv[x]
  /\ \A x \in Node : ch2[x] = IF x \in F THEN NULL ELSE ch[x]
  /\ \A x \in Node : ow2[x] = IF x \in F THEN NULL ELSE ow[x]

LEMMA ShapeFree ==
  ASSUME NEW lv, NEW ls, NEW nx, NEW pv, NEW ch, NEW ow,
         Shape(lv, ls, nx, pv, ch, ow),
         NEW F \in SUBSET lv, \A m \in lv : ow[m] # NULL => (m \in F <=> ow[m] \in F),
         NEW nx2, NEW pv2, NEW ch2, NEW ow2,
         ClearChange(nx, pv, ch, ow, F, nx2, pv2, ch2, ow2)
  PROVE  Shape(lv \ F, ls \ F, nx2, pv2, ch2, ow2)
<1> USE DEF Shape, Typed, MaybeNode, ClearChange
<1>0. NULL \notin Node
  BY JsonTreeAssumption
<1>1. Typed(lv \ F, ls \ F, nx2, pv2, ch2, ow2)
  OBVIOUS
<1>2. Loose(lv \ F, nx2, pv2, ow2)
  BY DEF Loose
<1>3. Headed(lv \ F, ls \ F, ch2, ow2)
  BY <1>0 DEF Headed
<1>4. Linked(lv \ F, ls \ F, nx2, pv2, ch2, ow2)
  BY <1>0 DEF Linked, Headed
<1>5. Reached(lv \ F, ls \ F, nx2, ch2, ow2)
  <2> SUFFICES ASSUME NEW d \in ls \ F, NEW S \in SUBSET (lv \ F),
                      ch2[d] \in S, Closed(S, nx2),
                      NEW m \in lv \ F, ow2[m] = d
               PROVE  m \in S
    BY DEF Reached
  <2>1. \A y \in F : nx[y] \in F \cup {NULL}
    BY <1>0 DEF Loose, Linked
  <2>2. Closed(S \cup F, nx)
    BY <2>1 DEF Closed
  <2>3. ch[d] \in S \cup F
    OBVIOUS
  <2> QED
    BY <2>2, <2>3 DEF Reached
<1>6. Grounded(lv \ F, ow2)
  BY DEF Grounded
<1>7. Clear(lv \ F, nx2, pv2, ch2, ow2)
  BY DEF Clear
<1> QED
  BY <1>1, <1>2, <1>3, <1>4, <1>5, <1>6, <1>7

\* Taking in a tree T with the root n, outside of which c lies, puts nothing
\* below itself.
LEMMA GroundedTake ==
  ASSUME NEW lv, NEW ow, NULL \notin lv, Grounded(lv, ow),
         NEW n \in lv, NEW c \in lv, NEW ow2,
         \A x \in lv : ow2[x] = IF x = n THEN c ELSE ow[x],
         NEW T, n \in T, c \notin T, \A m \in lv : m # n /\ ow[m] \in T => m \in T
  PROVE  Grounded(lv, ow2)
<1> SUFFICES ASSUME NEW S \in SUBSET lv, S # {}, \A x \in S : ow2[x] \in S
             PROVE  FALSE
  BY DEF Grounded
<1>1. CASE n \notin S
  BY <1>1 DEF Grounded
<1>2. CASE n \in S
  <2>1. c \in S \ T
    BY <1>2
  <2>2. \A x \in S \ T : ow[x] \in S \ T
    OBVIOUS
  <2> QED
    BY <2>1, <2>2 DEF Grounded
<1> QED
  BY <1>1, <1>2

-----------------------------------------------------------------------------
(* What cJSON_Delete reaches.                                                *)

\* Only lists that are no references have a child to follow.
Followed(lv, ls, ch, rf) ==
  /\ ls \cap rf = {}
  /\ \A x \in Node \ rf : ch[x] # NULL => x \in ls

\* S has the n it starts from, and what cJSON_Delete goes on to from its items.
Kept(S, n, nx, ch, rf) ==
  /\ n \in S
  /\ \A y \in S : y \notin rf => ch[y] \in S \cup {NULL}
  /\ \A y \in S : y # n => nx[y] \in S \cup {NULL}

\* What it frees is the least such set.
LEMMA FreedLeast ==
  ASSUME NEW n \in Node, NEW nx, NEW ch, NEW rf
  PROVE  LET F == Freed(n, nx, ch, rf) IN
         /\ F \subseteq Node
         /\ \A S \in SUBSET Node : Kept(S, n, nx, ch, rf) => F \subseteq S
         /\ \A x \in Node : (\A S \in SUBSET Node : Kept(S, n, nx, ch, rf) => x \in S)
                            => x \in F
BY DEF Freed, Kept

\* What cJSON_Delete(n) frees is n and, of the other items, those whose owners
\* it frees.
LEMMA FreedWhole ==
  ASSUME NEW lv, NEW ls, NEW nx, NEW pv, NEW ch, NEW ow, NEW rf,
         Shape(lv, ls, nx, pv, ch, ow), Followed(lv, ls, ch, rf),
         NEW n \in lv
  PROVE  LET F == Freed(n, nx, ch, rf) IN
         /\ F \subseteq lv /\ n \in F /\ ow[n] \notin F
         /\ \A m \in lv \ {n} : m \in F <=> ow[m] \in F
<1> USE DEF Shape, Typed, MaybeNode
<1> DEFINE F == Freed(n, nx, ch, rf)
           K(S) == Kept(S, n, nx, ch, rf)
<1>0. NULL \notin Node
  BY JsonTreeAssumption
<1>1. \A S \in SUBSET Node : K(S) => F \subseteq S
  BY FreedLeast
<1>2. n \in F /\ F \subseteq Node
  BY FreedLeast DEF Kept
<1>3. K(F)
  <2> SUFFICES ASSUME NEW y \in F
               PROVE  /\ y \notin rf => ch[y] \in F \cup {NULL}
                      /\ y # n => nx[y] \in F \cup {NULL}
    BY <1>2 DEF Kept
  <2>1. \A S \in SUBSET Node : K(S) => y \in S
    BY <1>1
  <2>2. y \notin rf /\ ch[y] # NULL => ch[y] \in F
    BY <2>1, <1>2, FreedLeast DEF Kept
  <2>3. y # n /\ nx[y] # NULL => nx[y] \in F
    BY <2>1, <1>2, FreedLeast DEF Kept
  <2> QED
    BY <2>2, <2>3
<1> HIDE DEF F
<1>4. F \subseteq lv
  <2>1. \A y \in lv : ch[y] \in lv \cup {NULL} \/ y \in rf
    BY DEF Followed, Headed
  <2>2. \A y \in lv : nx[y] \in lv \cup {NULL}
    BY DEF Loose, Linked
  <2>3. K(lv)
    BY <2>1, <2>2 DEF Kept
  <2> QED
    BY <1>1, <2>3
<1>5. \A m \in F : m = n \/ ow[m] \in F
  <2> DEFINE U == {m \in F : m = n \/ ow[m] \in F}
  <2>1. n \in U /\ U \in SUBSET Node
    BY <1>2
  <2>2. \A y \in U : y \notin rf => ch[y] \in U \cup {NULL}
    BY <1>3, <1>4, <1>2 DEF Kept, Followed, Headed
  <2>3. \A y \in U : y # n => nx[y] \in U \cup {NULL}
    <3> SUFFICES ASSUME NEW y \in U, y # n, nx[y] # NULL PROVE nx[y] \in U
      OBVIOUS
    <3>1. y \in lv /\ nx[y] \in F /\ ow[y] # NULL /\ ow[y] \in F
      BY <1>3, <1>4 DEF Kept, Loose
    <3> QED
      BY <3>1 DEF Linked
  <2>4. K(U)
    BY <2>1, <2>2, <2>3 DEF Kept
  <2> QED
    BY <2>1, <2>4, <1>1
<1>6. ow[n] \notin F
  <2>1. ow[n] \in F => \A m \in F : ow[m] \in F
    BY <1>5
  <2> QED
    BY <2>1, <1>2, <1>4 DEF Grounded
<1>7. \A m \in lv : ow[m] \in F => m \in F
  <2> SUFFICES ASSUME NEW m \in lv, ow[m] \in F PROVE m \in F
    OBVIOUS
  <2> DEFINE c == ow[m]
             U == {x \in F : ow[x] = c}
  <2>1. c \in ls /\ c \notin rf /\ ch[c] \in lv /\ ow[ch[c]] = c /\ n \notin U
    BY <1>0, <1>4, <1>6 DEF Followed, Linked, Headed
  <2>2. ch[c] \in U
    BY <2>1, <1>0, <1>3 DEF Kept
  <2>3. Closed(U, nx)
    <3> SUFFICES ASSUME NEW y \in U, nx[y] # NULL PROVE nx[y] \in U
      BY DEF Closed
    <3>1. y \in lv /\ nx[y] \in F /\ ow[y] # NULL
      BY <2>1, <1>0, <1>3, <1>4 DEF Kept
    <3> QED
      BY <3>1 DEF Linked
  <2> QED
    BY <2>1, <2>2, <2>3, <1>4 DEF Reached
<1> QED
  BY <1>2, <1>4, <1>5, <1>6, <1>7 DEF F

\* Of an item just made, alone or as a list with one item just made, it frees
\* just that.
LEMMA FreedAlone ==
  ASSUME NEW lv, NEW nx, NEW pv, NEW ch, NEW ow, NEW rf, Clear(lv, nx, pv, ch, ow),
         NEW n \in Node \ lv
  PROVE  Freed(n, nx, ch, rf) = {n}
<1>1. n \in Freed(n, nx, ch, rf)
  BY FreedLeast DEF Kept
<1>2. Kept({n}, n, nx, ch, rf)
  BY DEF Clear, Kept
<1> QED
  BY <1>1, <1>2, FreedLeast

LEMMA FreedPair ==
  ASSUME NEW lv, NEW nx, NEW pv, NEW ch, NEW ow, NEW rf, Clear(lv, nx, pv, ch, ow),
         NEW a \in Node \ lv, NEW x \in Node \ lv, a # x, a \notin rf,
         NEW ch2, ch2[a] = x, ch2[x] = ch[x]
  PROVE  Freed(a, nx, ch2, rf) = {a, x}
<1>1. nx[x] = NULL /\ ch2[x] = NULL
  BY DEF Clear
<1>2. \A S \in SUBSET Node : Kept(S, a, nx, ch2, rf) => a \in S /\ x \in S
  BY <1>1, JsonTreeAssumption DEF Kept
<1>3. Kept({a, x}, a, nx, ch2, rf)
  BY <1>1 DEF Kept
<1> QED
  BY <1>2, <1>3, FreedLeast

-----------------------------------------------------------------------------
(* The same for the operators of JsonTree, which change records of links.    *)

\* The links l have the shape of live items lv and lists ls.
Whole(lv, ls, l) == Shape(lv, ls, l.next, l.prev, l.child, l.owner)

\* The owners when n goes to c.
Moved(ow, n, c) == [ow EXCEPT ![n] = c]

LinkRecords == [next : [Node -> MaybeNode], prev : [Node -> MaybeNode],
                child : [Node -> MaybeNode], owner : [Node -> MaybeNode]]

\* Only c may have another child after the change.
SameChild(ch, ch2, c) == \A x \in Node \ {c} : ch2[x] = ch[x]

\* add_item_to_array, of next and child.
AppendChange(nx, pv, ch, c, n, nx2, ch2) ==
  /\ \A x \in Node : nx2[x] = IF ch[c] # NULL /\ x = pv[ch[c]] THEN n ELSE nx[x]
  /\ \A x \in Node : ch2[x] = IF x = c /\ ch[c] = NULL THEN n ELSE ch[x]

LEMMA WholeAppended ==
  ASSUME NEW lv, NEW ls, NEW l \in LinkRecords, Whole(lv, ls, l),
         NEW c \in ls, NEW n \in lv, l.owner[n] = NULL,
         Grounded(lv, Moved(l.owner, n, c))
  PROVE  LET m == Appended(l, c, n) IN
         /\ m \in LinkRecords /\ Whole(lv, ls, m)
         /\ SameChild(l.child, m.child, c)
         /\ AppendChange(l.next, l.prev, l.child, c, n, m.next, m.child)
<1> DEFINE m == Appended(l, c, n)
           first == l.child[c]
<1>0. c \in Node /\ n \in Node /\ Shape(lv, ls, l.next, l.prev, l.child, l.owner)
  BY DEF Whole, Shape, Typed
<1>1. CASE first = NULL
  <2>1. m = [next  |-> [l.next EXCEPT ![n] = NULL], prev |-> [l.prev EXCEPT ![n] = n],
             child |-> [l.child EXCEPT ![c] = n], owner |-> [l.owner EXCEPT ![n] = c]]
    BY <1>1 DEF Appended, LinkRecords
  <2>2. l.next[n] = NULL
    BY <1>0 DEF Shape, Loose
  <2>3. m.next = l.next /\ m \in LinkRecords
    BY <2>1, <2>2, <1>0 DEF MaybeNode, LinkRecords
  <2>4. /\ \A x \in Node : m.prev[x] = IF x = n THEN n ELSE l.prev[x]
        /\ \A x \in Node : m.child[x] = IF x = c THEN n ELSE l.child[x]
        /\ \A x \in Node : m.owner[x] = IF x = n THEN c ELSE l.owner[x]
        /\ m.owner = Moved(l.owner, n, c)
    BY <2>1, <1>0 DEF LinkRecords, Moved
  <2>5. /\ m.prev \in [Node -> MaybeNode] /\ m.child \in [Node -> MaybeNode]
        /\ m.owner \in [Node -> MaybeNode]
    BY <2>3 DEF LinkRecords
  <2> HIDE DEF m
  <2>6. Shape(lv, ls, l.next, m.prev, m.child, m.owner)
    BY <1>0, <1>1, <2>4, <2>5, ShapeFirst
  <2>7. AppendChange(l.next, l.prev, l.child, c, n, m.next, m.child)
    BY <1>1, <2>3, <2>4 DEF AppendChange
  <2> QED
    BY <2>3, <2>4, <2>6, <2>7 DEF Whole, SameChild, m
<1>2. CASE first # NULL
  <2>1. first \in Node /\ l.prev[first] \in Node /\ n # first
    BY <1>0, <1>2, JsonTreeAssumption DEF Shape, Typed, Headed, Linked
  <2>2. m = [next  |-> [l.next EXCEPT ![l.prev[first]] = n],
             prev  |-> [l.prev EXCEPT ![n] = l.prev[first], ![first] = n],
             child |-> l.child, owner |-> [l.owner EXCEPT ![n] = c]]
    BY <1>2, <2>1, JsonTreeAssumption DEF Appended, LinkRecords
  <2>3. m \in LinkRecords
    BY <2>1, <2>2, <1>0 DEF MaybeNode, LinkRecords
  <2>4. /\ \A x \in Node : m.next[x] = IF x = l.prev[first] THEN n ELSE l.next[x]
        /\ \A x \in Node : m.prev[x] = IF x = first THEN n
                                        ELSE IF x = n THEN l.prev[first] ELSE l.prev[x]
        /\ m.child = l.child
        /\ \A x \in Node : m.owner[x] = IF x = n THEN c ELSE l.owner[x]
        /\ m.owner = Moved(l.owner, n, c)
    BY <2>1, <2>2, <1>0 DEF LinkRecords, Moved
  <2>5. /\ m.next \in [Node -> MaybeNode] /\ m.prev \in [Node -> MaybeNode]
        /\ m.owner \in [Node -> MaybeNode]
    BY <2>3 DEF LinkRecords
  <2> HIDE DEF m
  <2>6. Shape(lv, ls, m.next, m.prev, l.child, m.owner)
    BY <1>0, <1>2, <2>4, <2>5, ShapeLast
  <2>7. AppendChange(l.next, l.prev, l.child, c, n, m.next, m.child)
    BY <1>2, <2>4 DEF AppendChange
  <2> QED
    BY <2>3, <2>4, <2>6, <2>7 DEF Whole, SameChild, m
<1> QED
  BY <1>1, <1>2

LEMMA WholeInserted ==
  ASSUME NEW lv, NEW ls, NEW l \in LinkRecords, Whole(lv, ls, l),
         NEW c \in ls, NEW n \in lv, l.owner[n] = NULL,
         NEW after \in lv, l.owner[after] = c,
         Grounded(lv, Moved(l.owner, n, c))
  PROVE  LET m == Inserted(l, c, after, n) IN
         /\ m \in LinkRecords /\ Whole(lv, ls, m)
         /\ SameChild(l.child, m.child, c)
         /\ InsertChange(l.next, l.prev, l.child, l.owner, c, after, n,
                         m.next, m.prev, m.child, m.owner)
<1> DEFINE m == Inserted(l, c, after, n)
           before == l.prev[after]
           first == l.child[c]
<1>0. /\ c \in Node /\ n \in Node /\ after \in Node
      /\ Shape(lv, ls, l.next, l.prev, l.child, l.owner)
  BY DEF Whole, Shape, Typed
<1>1. before \in Node /\ n # after /\ n # before
  BY <1>0, JsonTreeAssumption DEF Shape, Typed, Linked
<1>2. m = [next  |-> IF after = first THEN [l.next EXCEPT ![n] = after]
                     ELSE [l.next EXCEPT ![n] = after, ![before] = n],
           prev  |-> [l.prev EXCEPT ![n] = before, ![after] = n],
           child |-> IF after = first THEN [l.child EXCEPT ![c] = n] ELSE l.child,
           owner |-> [l.owner EXCEPT ![n] = c]]
  BY <1>0, <1>1 DEF Inserted, LinkRecords
<1>3. m \in LinkRecords
  BY <1>0, <1>1, <1>2 DEF MaybeNode, LinkRecords
<1>4. /\ \A x \in Node : m.next[x] = IF x = n THEN after
                                      ELSE IF x = before /\ after # first THEN n
                                      ELSE l.next[x]
      /\ \A x \in Node : m.prev[x] = IF x = after THEN n
                                      ELSE IF x = n THEN before ELSE l.prev[x]
      /\ \A x \in Node : m.child[x] = IF x = c /\ after = first THEN n ELSE l.child[x]
      /\ \A x \in Node : m.owner[x] = IF x = n THEN c ELSE l.owner[x]
      /\ m.owner = Moved(l.owner, n, c)
  BY <1>0, <1>1, <1>2 DEF LinkRecords, Moved
<1>5. /\ m.next \in [Node -> MaybeNode] /\ m.prev \in [Node -> MaybeNode]
      /\ m.child \in [Node -> MaybeNode] /\ m.owner \in [Node -> MaybeNode]
  BY <1>3 DEF LinkRecords
<1>6. InsertChange(l.next, l.prev, l.child, l.owner, c, after, n,
             m.next, m.prev, m.child, m.owner)
  BY <1>4, <1>5 DEF InsertChange
<1> HIDE DEF m
<1>7. Shape(lv, ls, m.next, m.prev, m.child, m.owner)
  BY <1>0, <1>4, <1>6, ShapeInsert
<1> QED
  BY <1>3, <1>4, <1>6, <1>7 DEF Whole, SameChild, m

LEMMA WholeDetached ==
  ASSUME NEW lv, NEW ls, NEW l \in LinkRecords, Whole(lv, ls, l),
         NEW c \in ls, NEW item \in lv, l.owner[item] = c
  PROVE  LET m == Detached(l, c, item) IN
         /\ m \in LinkRecords /\ Whole(lv, ls, m)
         /\ SameChild(l.child, m.child, c)
         /\ m.owner = Moved(l.owner, item, NULL)
         /\ DetachChange(l.next, l.prev, l.child, l.owner, c, item,
                         m.next, m.prev, m.child, m.owner)
<1> DEFINE m == Detached(l, c, item)
           before == l.prev[item]
           after == l.next[item]
           first == l.child[c]
<1>0. /\ c \in Node /\ item \in Node
      /\ Shape(lv, ls, l.next, l.prev, l.child, l.owner)
  BY DEF Whole, Shape, Typed
<1>1. before \in Node
  BY <1>0, JsonTreeAssumption DEF Shape, Typed, Linked
<1> DEFINE p == [x \in Node |-> IF x = after \/ (x = first /\ item # first /\ after = NULL)
                               THEN before ELSE l.prev[x]]
           q == IF item # first THEN after ELSE l.next[before]
           r == IF item = first THEN after ELSE l.child[c]
           l1 == [l EXCEPT !.next[before] = q, !.prev = p, !.child[c] = r]
<1>2. m = [l1 EXCEPT !.next[item] = NULL, !.prev[item] = NULL, !.owner[item] = NULL]
  BY DEF Detached
<1>a. q \in MaybeNode /\ r \in MaybeNode /\ p \in [Node -> MaybeNode] /\ NULL \in MaybeNode
  BY <1>0, <1>1 DEF LinkRecords, MaybeNode
<1> HIDE DEF p, q, r, m
<1>b. /\ l1 \in LinkRecords
      /\ l1.next = [l.next EXCEPT ![before] = q] /\ l1.prev = p
      /\ l1.child = [l.child EXCEPT ![c] = r] /\ l1.owner = l.owner
  BY <1>0, <1>1, <1>a DEF LinkRecords
<1> HIDE DEF l1
<1>3. m \in LinkRecords
  BY <1>0, <1>2, <1>a, <1>b DEF LinkRecords
<1>d. m.owner = Moved(l.owner, item, NULL)
  BY <1>2, <1>b DEF LinkRecords, Moved
<1>c. /\ m.next = [l1.next EXCEPT ![item] = NULL] /\ m.prev = [p EXCEPT ![item] = NULL]
      /\ m.child = l1.child /\ m.owner = [l.owner EXCEPT ![item] = NULL]
  BY <1>2, <1>b DEF LinkRecords
<1>4. /\ \A x \in Node : m.next[x] = IF x = item THEN NULL
                                      ELSE IF x = before /\ item # first THEN after
                                      ELSE l.next[x]
      /\ \A x \in Node : m.prev[x] =
           IF x = item THEN NULL
           ELSE IF x = after \/ (x = first /\ item # first /\ after = NULL)
           THEN before ELSE l.prev[x]
      /\ \A x \in Node : m.child[x] = IF x = c /\ item = first THEN after ELSE l.child[x]
      /\ \A x \in Node : m.owner[x] = IF x = item THEN NULL ELSE l.owner[x]
  BY <1>0, <1>1, <1>b, <1>c DEF LinkRecords, p, q, r
<1>5. /\ m.next \in [Node -> MaybeNode] /\ m.prev \in [Node -> MaybeNode]
      /\ m.child \in [Node -> MaybeNode] /\ m.owner \in [Node -> MaybeNode]
  BY <1>3 DEF LinkRecords
<1>6. DetachChange(l.next, l.prev, l.child, l.owner, c, item,
             m.next, m.prev, m.child, m.owner)
  BY <1>4, <1>5 DEF DetachChange
<1>7. Shape(lv, ls, m.next, m.prev, m.child, m.owner)
  BY <1>0, <1>4, <1>6, ShapeDetach
<1> QED
  BY <1>3, <1>4, <1>6, <1>7, <1>d DEF Whole, SameChild, m

LEMMA WholeReplaced ==
  ASSUME NEW lv, NEW ls, NEW l \in LinkRecords, Whole(lv, ls, l),
         NEW c \in ls, NEW item \in lv, l.owner[item] = c,
         NEW n \in lv, l.owner[n] = NULL,
         Grounded(lv, Moved(Moved(l.owner, n, c), item, NULL))
  PROVE  LET m == Replaced(l, c, item, n) IN
         /\ m \in LinkRecords /\ Whole(lv, ls, m)
         /\ m.owner = Moved(Moved(l.owner, n, c), item, NULL)
         /\ SameChild(l.child, m.child, c)
         /\ ReplaceChange(l.next, l.prev, l.child, l.owner, c, item, n,
                          m.next, m.prev, m.child, m.owner)
<1> DEFINE m == Replaced(l, c, item, n)
           before == l.prev[item]
           after == l.next[item]
           first == l.child[c]
<1>0. /\ c \in Node /\ item \in Node /\ n \in Node
      /\ Shape(lv, ls, l.next, l.prev, l.child, l.owner)
  BY DEF Whole, Shape, Typed
<1>1. before \in Node /\ n # item
  BY <1>0, JsonTreeAssumption DEF Shape, Typed, Linked
<1> DEFINE q == [x \in Node |-> IF x = n THEN after
                               ELSE IF x = before /\ item # first THEN n ELSE l.next[x]]
           p == [x \in Node |->
                   IF x = n THEN IF item = first /\ before = first THEN n ELSE before
                   ELSE IF x = after \/ (x = first /\ item # first /\ after = NULL)
                   THEN n ELSE l.prev[x]]
           r == IF item = first THEN n ELSE l.child[c]
           l1 == [l EXCEPT !.next = q, !.prev = p, !.child[c] = r, !.owner[n] = c]
<1>2. m = [l1 EXCEPT !.next[item] = NULL, !.prev[item] = NULL, !.owner[item] = NULL]
  BY DEF Replaced
<1>a. /\ r \in MaybeNode /\ c \in MaybeNode /\ NULL \in MaybeNode
      /\ p \in [Node -> MaybeNode] /\ q \in [Node -> MaybeNode]
  BY <1>0, <1>1 DEF LinkRecords, MaybeNode
<1> HIDE DEF p, q, r, m
<1>b. /\ l1 \in LinkRecords /\ l1.next = q /\ l1.prev = p
      /\ l1.child = [l.child EXCEPT ![c] = r] /\ l1.owner = [l.owner EXCEPT ![n] = c]
  BY <1>0, <1>1, <1>a DEF LinkRecords
<1> HIDE DEF l1
<1>c. /\ m.next = [q EXCEPT ![item] = NULL] /\ m.prev = [p EXCEPT ![item] = NULL]
      /\ m.child = l1.child /\ m.owner = [l.owner EXCEPT ![n] = c, ![item] = NULL]
  BY <1>2, <1>b DEF LinkRecords
<1>3. m \in LinkRecords /\ m.owner = Moved(Moved(l.owner, n, c), item, NULL)
  BY <1>0, <1>2, <1>a, <1>b, <1>c DEF LinkRecords, Moved
<1>4. /\ \A x \in Node : m.next[x] = IF x = item THEN NULL
                                      ELSE IF x = n THEN after
                                      ELSE IF x = before /\ item # first THEN n
                                      ELSE l.next[x]
      /\ \A x \in Node : m.prev[x] =
           IF x = item THEN NULL
           ELSE IF x = n THEN IF item = first /\ before = first THEN n ELSE before
           ELSE IF x = after \/ (x = first /\ item # first /\ after = NULL)
           THEN n ELSE l.prev[x]
      /\ \A x \in Node : m.child[x] = IF x = c /\ item = first THEN n ELSE l.child[x]
      /\ \A x \in Node : m.owner[x] = IF x = item THEN NULL
                                       ELSE IF x = n THEN c ELSE l.owner[x]
  BY <1>0, <1>1, <1>b, <1>c DEF LinkRecords, p, q, r
<1>5. /\ m.next \in [Node -> MaybeNode] /\ m.prev \in [Node -> MaybeNode]
      /\ m.child \in [Node -> MaybeNode] /\ m.owner \in [Node -> MaybeNode]
  BY <1>3 DEF LinkRecords
<1>6. ReplaceChange(l.next, l.prev, l.child, l.owner, c, item, n,
              m.next, m.prev, m.child, m.owner)
  BY <1>4, <1>5 DEF ReplaceChange
<1>7. Shape(lv, ls, m.next, m.prev, m.child, m.owner)
  BY <1>0, <1>3, <1>4, <1>6, ShapeReplace
<1> QED
  BY <1>3, <1>4, <1>6, <1>7 DEF Whole, SameChild, m

\* The links without the items of F.
Cleared(l, F) ==
  [next  |-> [n \in Node |-> IF n \in F THEN NULL ELSE l.next[n]],
   prev  |-> [n \in Node |-> IF n \in F THEN NULL ELSE l.prev[n]],
   child |-> [n \in Node |-> IF n \in F THEN NULL ELSE l.child[n]],
   owner |-> [n \in Node |-> IF n \in F THEN NULL ELSE l.owner[n]]]

LEMMA WholeCleared ==
  ASSUME NEW lv, NEW ls, NEW l \in LinkRecords, Whole(lv, ls, l),
         NEW F \in SUBSET lv,
         \A m \in lv : l.owner[m] # NULL => (m \in F <=> l.owner[m] \in F)
  PROVE  Cleared(l, F) \in LinkRecords /\ Whole(lv \ F, ls \ F, Cleared(l, F))
<1> DEFINE m == Cleared(l, F)
<1>0. Shape(lv, ls, l.next, l.prev, l.child, l.owner)
  BY DEF Whole
<1>1. m \in LinkRecords
  BY DEF Cleared, LinkRecords, MaybeNode
<1>2. /\ \A x \in Node : m.next[x] = IF x \in F THEN NULL ELSE l.next[x]
      /\ \A x \in Node : m.prev[x] = IF x \in F THEN NULL ELSE l.prev[x]
      /\ \A x \in Node : m.child[x] = IF x \in F THEN NULL ELSE l.child[x]
      /\ \A x \in Node : m.owner[x] = IF x \in F THEN NULL ELSE l.owner[x]
  BY DEF Cleared
<1>3. /\ m.next \in [Node -> MaybeNode] /\ m.prev \in [Node -> MaybeNode]
      /\ m.child \in [Node -> MaybeNode] /\ m.owner \in [Node -> MaybeNode]
  BY <1>1 DEF LinkRecords
<1>4. ClearChange(l.next, l.prev, l.child, l.owner, F, m.next, m.prev, m.child, m.owner)
  BY <1>2, <1>3 DEF ClearChange
<1> HIDE DEF m
<1>5. Shape(lv \ F, ls \ F, m.next, m.prev, m.child, m.owner)
  BY <1>0, <1>4, ShapeFree
<1> QED
  BY <1>1, <1>5 DEF Whole, m

-----------------------------------------------------------------------------
(* Every call keeps the trees whole.                                         *)

\* The part of the inductive invariant that is about links.
Trees ==
  /\ live \subseteq Node /\ ref \subseteq live
  /\ kind \in [Node -> {"list", "text", "plain"}]
  /\ \A n \in Node \ live : kind[n] = "plain"
  /\ Links \in LinkRecords
  /\ Whole(live, Lists, Links)
  /\ Followed(live, Lists, child, ref)

LEMMA LinksSet ==
  ASSUME NEW l \in LinkRecords, SetLinks(l)
  PROVE  Links' = l
<1>1. l = [next |-> l.next, prev |-> l.prev, child |-> l.child, owner |-> l.owner]
  BY DEF LinkRecords
<1> QED
  BY <1>1 DEF SetLinks, Links

\* What the invariant says of the variables.
LEMMA TreesShape ==
  ASSUME Trees
  PROVE  /\ Shape(live, Lists, next, prev, child, owner)
         /\ next \in [Node -> MaybeNode] /\ prev \in [Node -> MaybeNode]
         /\ child \in [Node -> MaybeNode] /\ owner \in [Node -> MaybeNode]
BY DEF Trees, Whole, Links, LinkRecords

\* Calls that change the links of lists only.
LEMMA TreesSetLinks ==
  ASSUME Trees, NEW l \in LinkRecords, NEW c \in Lists, SetLinks(l),
         Whole(live, Lists, l), SameChild(child, l.child, c),
         UNCHANGED <<live, kind, ref>>
  PROVE  Trees'
<1>1. Links' = l /\ child' = l.child
  BY LinksSet DEF SetLinks
<1>2. Lists' = Lists /\ live' = live
  BY DEF Lists
<1>3. Followed(live, Lists, l.child, ref)
  BY DEF Trees, Followed, SameChild
<1> QED
  BY <1>1, <1>2, <1>3 DEF Trees

\* An item that the list c may take in is not above it.
LEMMA TakeableGrounded ==
  ASSUME Trees, NEW c \in Lists, NEW n \in Takeable(c)
  PROVE  /\ n \in live /\ owner[n] = NULL /\ n # c
         /\ Grounded(live, Moved(owner, n, c))
<1> DEFINE T == Subtree(n)
           ow2 == Moved(owner, n, c)
<1>0. n \in live /\ owner[n] = NULL /\ c \notin T /\ c \in live
  BY DEF Takeable, Held, Roots, Lists
<1>1. Followed(live, Lists, child, ref)
  BY DEF Trees
<1>2. /\ n \in T
      /\ \A m \in live \ {n} : m \in T <=> owner[m] \in T
  BY <1>0, <1>1, TreesShape, FreedWhole DEF Subtree
<1>3. NULL \notin live /\ live \subseteq Node /\ Grounded(live, owner) /\ T \subseteq Node
  BY <1>0, TreesShape, JsonTreeAssumption DEF Shape, Typed, Subtree, Freed
<1>4. \A x \in live : ow2[x] = IF x = n THEN c ELSE owner[x]
  BY <1>3, TreesShape DEF Moved
<1>5. \A m \in live : m # n /\ owner[m] \in T => m \in T
  BY <1>2, <1>3, JsonTreeAssumption
<1> HIDE DEF T, ow2
<1>6. Grounded(live, ow2)
  BY <1>0, <1>2, <1>3, <1>4, <1>5, GroundedTake
<1> QED
  BY <1>0, <1>2, <1>6 DEF ow2

\* What cJSON_Delete frees of a tree as it is.
LEMMA SubtreeWhole ==
  ASSUME Trees, NEW n \in live
  PROVE  /\ Subtree(n) \subseteq live /\ n \in Subtree(n) /\ owner[n] \notin Subtree(n)
         /\ \A m \in live \ {n} : m \in Subtree(n) <=> owner[m] \in Subtree(n)
BY TreesShape, FreedWhole DEF Subtree, Trees

\* Calls that delete the trees S, the links being l before.
LEMMA TreesFree ==
  ASSUME Trees, NEW l \in LinkRecords, Whole(live, Lists, l),
         \A x \in Node \ Lists : l.child[x] = child[x],
         NEW S \in SUBSET live,
         \A m \in live : l.owner[m] # NULL => (m \in S <=> l.owner[m] \in S),
         NEW nm, Free(S, l, nm)
  PROVE  Trees'
<1>1. /\ live' = live \ S /\ ref' = ref \ S
      /\ kind' = [n \in Node |-> IF n \in S THEN "plain" ELSE kind[n]]
      /\ SetLinks(Cleared(l, S))
  BY DEF Free, Cleared
<1>2. Cleared(l, S) \in LinkRecords /\ Whole(live \ S, Lists \ S, Cleared(l, S))
  BY WholeCleared
<1>3. Links' = Cleared(l, S) /\ child' = Cleared(l, S).child
  BY <1>1, <1>2, LinksSet DEF SetLinks
<1>4. live \subseteq Node /\ ref \subseteq live /\ kind \in [Node -> {"list", "text", "plain"}]
  BY DEF Trees
<1>5. Lists' = Lists \ S
  BY <1>1, <1>4 DEF Lists
<1>6. Followed(live \ S, Lists \ S, child', ref \ S)
  <2>1. \A x \in Node : child'[x] = IF x \in S THEN NULL ELSE l.child[x]
    BY <1>3 DEF Cleared
  <2> QED
    BY <2>1, <1>4 DEF Trees, Followed
<1>7. \A n \in Node \ live' : kind'[n] = "plain"
  BY <1>1 DEF Trees
<1>8. kind' \in [Node -> {"list", "text", "plain"}]
  BY <1>1, <1>4
<1> QED
  BY <1>1, <1>2, <1>3, <1>4, <1>5, <1>6, <1>7, <1>8 DEF Trees

\* The lists when there is a new item of kind k, the references then being rf2.
ListsWith(n, k, rf2) == IF k = "list" /\ n \notin rf2 THEN Lists \cup {n} ELSE Lists

\* A new item; a reference may share the child of another.
LEMMA NewItem ==
  ASSUME Trees, NEW n \in Node \ live, NEW k \in {"list", "text", "plain"},
         NEW rf2 \in {ref, ref \cup {n}}, NEW to \in MaybeNode, n \in rf2 \/ to = NULL
  PROVE  LET l == [Links EXCEPT !.child[n] = to]
             ls2 == ListsWith(n, k, rf2)
         IN  /\ l \in LinkRecords /\ Whole(live \cup {n}, ls2, l)
             /\ Followed(live \cup {n}, ls2, l.child, rf2)
             /\ l.owner = owner /\ owner[n] = NULL
             /\ l.child = [child EXCEPT ![n] = to]
             /\ \A c \in Lists : c # n /\ Grounded(live \cup {n}, Moved(owner, n, c))
<1> DEFINE l == [Links EXCEPT !.child[n] = to]
           ls2 == ListsWith(n, k, rf2)
           ch2 == [child EXCEPT ![n] = to]
           lv2 == live \cup {n}
<1>1. /\ Shape(live, Lists, next, prev, child, owner)
      /\ next \in [Node -> MaybeNode] /\ prev \in [Node -> MaybeNode]
      /\ child \in [Node -> MaybeNode] /\ owner \in [Node -> MaybeNode]
      /\ Links \in LinkRecords
  BY TreesShape DEF Trees
<1>2. l.next = next /\ l.prev = prev /\ l.child = ch2 /\ l.owner = owner /\ l \in LinkRecords
  BY <1>1 DEF Links, LinkRecords
<1>3. /\ ls2 \in SUBSET (Lists \cup {n}) /\ Lists \subseteq ls2 /\ (n \in ls2 => ch2[n] = NULL)
      /\ n \notin Lists
  BY <1>1 DEF ListsWith, Lists
<1>4. ch2 \in [Node -> MaybeNode] /\ \A x \in Node \ {n} : ch2[x] = child[x]
  BY <1>1
<1>5. Shape(lv2, ls2, next, prev, ch2, owner)
  <2> HIDE DEF ls2, ch2
  <2> QED
    BY <1>1, <1>3, <1>4, ShapeCreate
<1>6. Followed(lv2, ls2, ch2, rf2)
  <2>1. n \notin ref /\ live \subseteq Node /\ Followed(live, Lists, child, ref)
    BY DEF Trees
  <2>2. CASE rf2 = ref \cup {n}
    BY <2>1, <2>2, <1>3, <1>4 DEF Followed, ListsWith
  <2>3. CASE rf2 = ref
    BY <2>1, <2>3, <1>1, <1>3, <1>4 DEF Followed, ListsWith
  <2> QED
    BY <2>2, <2>3
<1>7. owner[n] = NULL
  BY <1>1 DEF Shape, Clear
<1>8. ASSUME NEW c \in Lists PROVE c # n /\ Grounded(lv2, Moved(owner, n, c))
  <2> DEFINE ow2 == Moved(owner, n, c)
  <2>1. c # n /\ c \in live /\ live \subseteq Node /\ NULL \notin Node
    BY <1>1, JsonTreeAssumption DEF Shape, Typed
  <2>2. \A m \in lv2 : m # n /\ owner[m] \in {n} => m \in {n}
    BY <1>1, <1>7, <2>1 DEF Shape, Typed, Linked
  <2>3. \A x \in lv2 : ow2[x] = IF x = n THEN c ELSE owner[x]
    BY <1>1, <2>1 DEF Moved
  <2>4. Grounded(lv2, owner) /\ NULL \notin lv2 /\ n \in lv2 /\ c \in lv2 /\ c \notin {n}
    BY <1>5, <2>1 DEF Shape
  <2> HIDE DEF lv2, ow2
  <2>5. Grounded(lv2, ow2)
    BY <2>2, <2>3, <2>4, GroundedTake
  <2> QED
    BY <2>1, <2>5 DEF ow2
<1> QED
  BY <1>2, <1>5, <1>6, <1>7, <1>8 DEF Whole

\* Calls that make one item, and change the links of at most one list c.
LEMMA TreesNew ==
  ASSUME Trees, NEW n \in Node \ live, NEW k \in {"list", "text", "plain"},
         NEW rf2 \in {ref, ref \cup {n}},
         live' = live \cup {n}, kind' = [kind EXCEPT ![n] = k], ref' = rf2,
         Links' \in LinkRecords,
         Whole(live \cup {n}, ListsWith(n, k, rf2), Links'),
         n \in rf2 \/ child'[n] = NULL,
         \A x \in Node \ (Lists \cup {n}) : child'[x] = child[x]
  PROVE  Trees'
<1> DEFINE ls2 == ListsWith(n, k, rf2)
<1>1. /\ live \subseteq Node /\ ref \subseteq live /\ kind \in [Node -> {"list", "text", "plain"}]
      /\ \A x \in Node \ live : kind[x] = "plain"
  BY DEF Trees
<1>2. Lists' = ls2
  BY <1>1 DEF Lists, ListsWith
<1>3. Followed(live, Lists, child, ref)
  BY DEF Trees
<1>4. Lists \subseteq live
  BY DEF Lists
<1>5. Followed(live \cup {n}, ls2, child', rf2)
  <2>1. CASE rf2 = ref \cup {n}
    BY <2>1, <1>1, <1>3, <1>4 DEF Followed, ListsWith
  <2>2. CASE rf2 = ref
    BY <2>2, <1>1, <1>3, <1>4 DEF Followed, ListsWith
  <2> QED
    BY <2>1, <2>2
<1>6. /\ kind' \in [Node -> {"list", "text", "plain"}] /\ live' \subseteq Node /\ ref' \subseteq live'
      /\ \A x \in Node \ live' : kind'[x] = "plain"
  BY <1>1
<1> QED
  BY <1>2, <1>5, <1>6 DEF Trees

\* A new item goes to the end of the list c.
LEMMA NewItemIn ==
  ASSUME Trees, NEW n \in Node \ live, NEW k \in {"list", "text", "plain"},
         NEW rf2 \in {ref, ref \cup {n}}, NEW to \in MaybeNode, n \in rf2 \/ to = NULL,
         NEW c \in Lists
  PROVE  LET m == Appended([Links EXCEPT !.child[n] = to], c, n) IN
         /\ m \in LinkRecords /\ Whole(live \cup {n}, ListsWith(n, k, rf2), m)
         /\ SameChild([child EXCEPT ![n] = to], m.child, c)
         /\ AppendChange(next, prev, [child EXCEPT ![n] = to], c, n, m.next, m.child)
<1> DEFINE l == [Links EXCEPT !.child[n] = to]
           m == Appended(l, c, n)
           ls2 == ListsWith(n, k, rf2)
           lv2 == live \cup {n}
<1>1. /\ l \in LinkRecords /\ Whole(lv2, ls2, l)
      /\ l.owner = owner /\ l.owner[n] = NULL
      /\ l.next = next /\ l.prev = prev
      /\ l.child = [child EXCEPT ![n] = to]
      /\ c # n /\ Grounded(lv2, Moved(l.owner, n, c))
  BY NewItem DEF Links
<1>2. c \in ls2 /\ n \in lv2
  BY DEF ListsWith
<1> HIDE DEF l, m, ls2, lv2
<1>3. /\ Appended(l, c, n) \in LinkRecords /\ Whole(lv2, ls2, Appended(l, c, n))
      /\ SameChild(l.child, Appended(l, c, n).child, c)
      /\ AppendChange(l.next, l.prev, l.child, c, n,
                      Appended(l, c, n).next, Appended(l, c, n).child)
  BY <1>1, <1>2, WholeAppended
<1> QED
  BY <1>1, <1>3 DEF m, l, ls2, lv2

LEMMA TreesNewIn ==
  ASSUME Trees, NEW n \in Node \ live, NEW k \in {"list", "text", "plain"},
         NEW rf2 \in {ref, ref \cup {n}}, NEW to \in MaybeNode, n \in rf2 \/ to = NULL,
         live' = live \cup {n}, kind' = [kind EXCEPT ![n] = k], ref' = rf2,
         NEW c \in Lists, SetLinks(Appended([Links EXCEPT !.child[n] = to], c, n))
  PROVE  Trees'
<1> DEFINE m == Appended([Links EXCEPT !.child[n] = to], c, n)
<1>1. /\ m \in LinkRecords /\ Whole(live \cup {n}, ListsWith(n, k, rf2), m)
      /\ SameChild([child EXCEPT ![n] = to], m.child, c)
  <2> HIDE DEF m
  <2> QED
    BY NewItemIn DEF m
<1>2. SetLinks(m)
  OBVIOUS
<1> HIDE DEF m
<1>3. Links' = m /\ child' = m.child
  BY <1>1, <1>2, LinksSet DEF SetLinks
<1>4. /\ \A x \in Node \ (Lists \cup {n}) : child'[x] = child[x]
      /\ n \in rf2 \/ child'[n] = NULL
      /\ Links' \in LinkRecords /\ Whole(live \cup {n}, ListsWith(n, k, rf2), Links')
  BY <1>1, <1>3, TreesShape DEF Lists, SameChild
<1> QED
  BY <1>4, TreesNew

LEMMA TreesCreate ==
  ASSUME Trees, NEW n \in Node \ live, NEW k \in Kind, Create(n, k)
  PROVE  Trees'
<1> DEFINE l == [Links EXCEPT !.child[n] = NULL]
<1>1. k \in {"list", "text", "plain"} /\ NULL \in MaybeNode /\ ref \in {ref, ref \cup {n}}
  BY JsonTreeAssumption DEF MaybeNode
<1>2. child[n] = NULL /\ child \in [Node -> MaybeNode]
  BY TreesShape DEF Shape, Clear
<1>3. l = Links
  BY <1>2 DEF Links
<1>4. Links' = Links /\ Links \in LinkRecords /\ child' = child
  BY DEF Create, links, Links, Trees
<1>5. Whole(live \cup {n}, ListsWith(n, k, ref), l)
  <2> HIDE DEF l
  <2> QED
    BY <1>1, NewItem DEF l
<1>6. live' = live \cup {n} /\ kind' = [kind EXCEPT ![n] = k] /\ ref' = ref
  BY DEF Create
<1>7. child'[n] = NULL /\ \A x \in Node \ (Lists \cup {n}) : child'[x] = child[x]
  BY <1>2, <1>4
<1>8. Links' \in LinkRecords /\ Whole(live \cup {n}, ListsWith(n, k, ref), Links')
  BY <1>3, <1>4, <1>5
<1> QED
  BY <1>1, <1>2, <1>4, <1>6, <1>7, <1>8, TreesNew

LEMMA TreesCreateTextFails ==
  ASSUME Trees, NEW n \in Node \ live, CreateTextFails(n)
  PROVE  Trees' /\ UNCHANGED <<live, kind, ref, links>>
<1>1. Freed(n, next, child, ref) = {n}
  BY TreesShape, FreedAlone DEF Shape
<1>2. UNCHANGED <<live, kind, ref, links>>
  BY <1>1 DEF CreateTextFails
<1> QED
  BY <1>2 DEF Trees, Links, Lists, links

LEMMA TreesAddNewFails ==
  ASSUME Trees, NEW n \in Node \ live, NEW what, AddNewToObjectFails(n, what)
  PROVE  /\ Trees' /\ UNCHANGED <<live, kind, ref, const, name, links>>
         /\ strings' = strings + (IF what = "text" THEN 1 ELSE 0)
                                - (IF what = "text" THEN 1 ELSE 0)
<1>1. Freed(n, next, child, ref) = {n}
  BY TreesShape, FreedAlone DEF Shape
<1>2. UNCHANGED <<live, kind, ref, const, name, links>>
  BY <1>1 DEF AddNewToObjectFails
<1>3. strings' = strings + (IF what = "text" THEN 1 ELSE 0)
                         - (IF what = "text" THEN 1 ELSE 0)
  BY <1>1 DEF AddNewToObjectFails
<1> QED
  BY <1>2, <1>3 DEF Trees, Links, Lists, links

LEMMA TreesCreateArrayFails ==
  ASSUME Trees, NEW a \in Node \ live, NEW x \in Node \ live, CreateArrayFails(a, x)
  PROVE  Trees' /\ UNCHANGED <<live, kind, ref, links>>
<1> DEFINE ch2 == [child EXCEPT ![a] = x]
<1>1. Freed(a, next, ch2, ref) = {a, x}
  <2>1. /\ Clear(live, next, prev, child, owner) /\ child \in [Node -> MaybeNode]
        /\ a \notin ref /\ a # x
    BY TreesShape DEF Shape, Trees, CreateArrayFails
  <2>2. ch2[a] = x /\ ch2[x] = child[x]
    BY <2>1
  <2> HIDE DEF ch2
  <2> QED
    BY <2>1, <2>2, FreedPair
<1>2. UNCHANGED <<live, kind, ref, links>>
  BY <1>1 DEF CreateArrayFails
<1> QED
  BY <1>2 DEF Trees, Links, Lists, links

LEMMA TreesCreateReferenceTo ==
  ASSUME Trees, NEW n \in Node \ live, NEW k \in Kind, NEW to \in live,
         CreateReferenceTo(n, k, to)
  PROVE  Trees'
<1> DEFINE target == IF k = "list" THEN to ELSE NULL
           l == [Links EXCEPT !.child[n] = target]
           rf2 == ref \cup {n}
<1>1. k \in {"list", "text", "plain"} /\ target \in MaybeNode /\ n \in rf2
  BY JsonTreeAssumption DEF MaybeNode, Trees
<1>2. /\ live' = live \cup {n} /\ kind' = [kind EXCEPT ![n] = k] /\ ref' = rf2
      /\ child' = [child EXCEPT ![n] = target] /\ UNCHANGED <<next, prev, owner>>
  BY DEF CreateReferenceTo
<1>3. rf2 \in {ref, ref \cup {n}}
  OBVIOUS
<1> HIDE DEF target, rf2
<1>4. l \in LinkRecords /\ Whole(live \cup {n}, ListsWith(n, k, rf2), l)
  <2> HIDE DEF l
  <2> QED
    BY <1>1, <1>3, NewItem DEF l
<1>5. Links' = l
  BY <1>2 DEF Links
<1>6. \A x \in Node \ (Lists \cup {n}) : child'[x] = child[x]
  BY <1>2, TreesShape
<1>7. Links' \in LinkRecords /\ Whole(live \cup {n}, ListsWith(n, k, rf2), Links')
  BY <1>4, <1>5
<1> QED
  BY <1>1, <1>2, <1>3, <1>6, <1>7, TreesNew

LEMMA TreesAddReferenceFails ==
  ASSUME Trees, NEW r \in Node \ live, NEW n \in live, AddReferenceFails(r, n)
  PROVE  Trees'
<1> DEFINE target == child[n]
           k == kind[n]
           l == [Links EXCEPT !.child[r] = target]
           rf2 == ref \cup {r}
<1>1. k \in {"list", "text", "plain"} /\ target \in MaybeNode /\ r \in rf2
  BY TreesShape DEF Trees
<1>2. /\ live' = live \cup {r} /\ kind' = [kind EXCEPT ![r] = k] /\ ref' = rf2
      /\ child' = [child EXCEPT ![r] = target] /\ UNCHANGED <<next, prev, owner>>
  BY DEF AddReferenceFails
<1>3. rf2 \in {ref, ref \cup {r}}
  OBVIOUS
<1> HIDE DEF target, k, rf2
<1>4. l \in LinkRecords /\ Whole(live \cup {r}, ListsWith(r, k, rf2), l)
  <2> HIDE DEF l
  <2> QED
    BY <1>1, <1>3, NewItem DEF l
<1>5. Links' = l
  BY <1>2 DEF Links
<1>6. \A x \in Node \ (Lists \cup {r}) : child'[x] = child[x]
  BY <1>2, TreesShape
<1>7. Links' \in LinkRecords /\ Whole(live \cup {r}, ListsWith(r, k, rf2), Links')
  BY <1>4, <1>5
<1> QED
  BY <1>1, <1>2, <1>3, <1>6, <1>7, TreesNew

\* Calls that leave the links and kinds as they are.
LEMMA TreesSame ==
  ASSUME Trees, UNCHANGED <<live, kind, ref, links>>
  PROVE  Trees'
BY DEF Trees, Links, Lists, links

\* The links when c has taken in n at the end.
LEMMA AppendedWhole ==
  ASSUME Trees, NEW c \in Lists, NEW n \in Takeable(c)
  PROVE  LET m == Appended(Links, c, n) IN
         /\ m \in LinkRecords /\ Whole(live, Lists, m) /\ SameChild(child, m.child, c)
         /\ AppendChange(next, prev, child, c, n, m.next, m.child)
<1> DEFINE l == Links
<1>1. /\ l \in LinkRecords /\ Whole(live, Lists, l)
      /\ l.next = next /\ l.prev = prev /\ l.owner = owner /\ l.child = child
      /\ n \in live /\ owner[n] = NULL /\ Grounded(live, Moved(owner, n, c))
  BY TakeableGrounded DEF Trees, Links
<1> HIDE DEF l
<1>2. LET m == Appended(l, c, n) IN
      /\ m \in LinkRecords /\ Whole(live, Lists, m) /\ SameChild(l.child, m.child, c)
      /\ AppendChange(l.next, l.prev, l.child, c, n, m.next, m.child)
  BY <1>1, WholeAppended
<1> QED
  BY <1>1, <1>2 DEF l

LEMMA TreesAppend ==
  ASSUME Trees, NEW c \in Lists, NEW n \in Takeable(c),
         SetLinks(Appended(Links, c, n)), UNCHANGED <<live, kind, ref>>
  PROVE  Trees'
<1> DEFINE m == Appended(Links, c, n)
<1>1. m \in LinkRecords /\ Whole(live, Lists, m) /\ SameChild(child, m.child, c)
  BY AppendedWhole
<1>2. SetLinks(m)
  OBVIOUS
<1> HIDE DEF m
<1> QED
  BY <1>1, <1>2, TreesSetLinks

LEMMA TreesAddNew ==
  ASSUME Trees, NEW c \in Lists, NEW n \in Node \ live, NEW k, NEW what \in Kind,
         AddNewToObject(c, k, n, what)
  PROVE  Trees'
<1>1. child[n] = NULL /\ child \in [Node -> MaybeNode]
  BY TreesShape DEF Shape, Clear
<1>2. [Links EXCEPT !.child[n] = NULL] = Links
  BY <1>1 DEF Links
<1>3. /\ what \in {"list", "text", "plain"} /\ NULL \in MaybeNode
      /\ ref \in {ref, ref \cup {n}}
  BY JsonTreeAssumption DEF MaybeNode
<1>4. /\ live' = live \cup {n} /\ kind' = [kind EXCEPT ![n] = what] /\ ref' = ref
      /\ SetLinks(Appended([Links EXCEPT !.child[n] = NULL], c, n))
  BY <1>2 DEF AddNewToObject
<1> QED
  BY <1>3, <1>4, TreesNewIn

LEMMA TreesAddReference ==
  ASSUME Trees, NEW c \in Lists, NEW r \in Node \ live, NEW k, NEW n \in live,
         AddReference(c, k, r, n)
  PROVE  Trees'
<1> DEFINE rf2 == ref \cup {r}
           to == child[n]
           what == kind[n]
<1>1. what \in {"list", "text", "plain"} /\ to \in MaybeNode
  BY TreesShape DEF Trees
<1>2. rf2 \in {ref, ref \cup {r}} /\ r \in rf2
  OBVIOUS
<1>3. /\ live' = live \cup {r} /\ kind' = [kind EXCEPT ![r] = what] /\ ref' = rf2
      /\ SetLinks(Appended([Links EXCEPT !.child[r] = to], c, r))
  BY DEF AddReference
<1> HIDE DEF rf2, to, what
<1> QED
  BY <1>1, <1>2, <1>3, TreesNewIn

\* The links when c has taken in n before the item after.
LEMMA InsertedWhole ==
  ASSUME Trees, NEW c \in Lists, NEW after \in live, owner[after] = c, NEW n \in Takeable(c)
  PROVE  LET m == Inserted(Links, c, after, n) IN
         /\ m \in LinkRecords /\ Whole(live, Lists, m) /\ SameChild(child, m.child, c)
         /\ InsertChange(next, prev, child, owner, c, after, n,
                         m.next, m.prev, m.child, m.owner)
<1> DEFINE l == Links
<1>1. /\ l \in LinkRecords /\ Whole(live, Lists, l)
      /\ l.next = next /\ l.prev = prev /\ l.owner = owner /\ l.child = child
      /\ n \in live /\ owner[n] = NULL /\ Grounded(live, Moved(owner, n, c))
  BY TakeableGrounded DEF Trees, Links
<1> HIDE DEF l
<1>2. LET m == Inserted(l, c, after, n) IN
      /\ m \in LinkRecords /\ Whole(live, Lists, m) /\ SameChild(l.child, m.child, c)
      /\ InsertChange(l.next, l.prev, l.child, l.owner, c, after, n,
                      m.next, m.prev, m.child, m.owner)
  BY <1>1, WholeInserted
<1> QED
  BY <1>1, <1>2 DEF l

LEMMA TreesInsert ==
  ASSUME Trees, NEW c \in Lists, NEW after \in live, NEW n \in Takeable(c),
         InsertItemInArray(c, after, n)
  PROVE  Trees'
<1> DEFINE m == Inserted(Links, c, after, n)
<1>1. SetLinks(m) /\ UNCHANGED <<live, kind, ref>> /\ owner[after] = c
  BY DEF InsertItemInArray
<1>2. m \in LinkRecords /\ Whole(live, Lists, m) /\ SameChild(child, m.child, c)
  BY <1>1, InsertedWhole
<1> HIDE DEF m
<1> QED
  BY <1>1, <1>2, TreesSetLinks

\* The links when item has left its list c.
LEMMA DetachedWhole ==
  ASSUME Trees, NEW c \in Lists, NEW item \in live, owner[item] = c
  PROVE  LET m == Detached(Links, c, item) IN
         /\ m \in LinkRecords /\ Whole(live, Lists, m) /\ SameChild(child, m.child, c)
         /\ m.owner = Moved(owner, item, NULL)
         /\ DetachChange(next, prev, child, owner, c, item, m.next, m.prev, m.child, m.owner)
<1> DEFINE l == Links
<1>1. /\ l \in LinkRecords /\ Whole(live, Lists, l)
      /\ l.next = next /\ l.prev = prev /\ l.owner = owner /\ l.child = child
  BY DEF Trees, Links
<1> HIDE DEF l
<1>2. LET m == Detached(l, c, item) IN
      /\ m \in LinkRecords /\ Whole(live, Lists, m) /\ SameChild(l.child, m.child, c)
      /\ m.owner = Moved(l.owner, item, NULL)
      /\ DetachChange(l.next, l.prev, l.child, l.owner, c, item,
                      m.next, m.prev, m.child, m.owner)
  BY <1>1, WholeDetached
<1> QED
  BY <1>1, <1>2 DEF l

LEMMA TreesDetach ==
  ASSUME Trees, NEW c \in Lists, NEW item \in live, Detach(c, item)
  PROVE  Trees'
<1> DEFINE m == Detached(Links, c, item)
<1>1. SetLinks(m) /\ UNCHANGED <<live, kind, ref>> /\ owner[item] = c
  BY DEF Detach
<1>2. m \in LinkRecords /\ Whole(live, Lists, m) /\ SameChild(child, m.child, c)
  BY <1>1, DetachedWhole
<1> HIDE DEF m
<1> QED
  BY <1>1, <1>2, TreesSetLinks

LEMMA TreesDelete ==
  ASSUME Trees, NEW n \in Roots, Delete(n)
  PROVE  Trees'
<1> DEFINE S == Subtree(n)
           l == Links
<1>1. /\ n \in live /\ owner[n] = NULL /\ l \in LinkRecords /\ Whole(live, Lists, l)
      /\ l.child = child /\ l.owner = owner /\ Free(S, l, Names)
  BY DEF Roots, Trees, Links, Delete
<1>2. S \in SUBSET live /\ \A m \in live \ {n} : m \in S <=> owner[m] \in S
  BY <1>1, SubtreeWhole
<1> HIDE DEF S, l
<1>3. \A m \in live : l.owner[m] # NULL => (m \in S <=> l.owner[m] \in S)
  BY <1>1, <1>2
<1> QED
  BY <1>1, <1>2, <1>3, TreesFree

\* What is below an item that has left its list.
LEMMA DetachedApart ==
  ASSUME Trees, NEW c \in Lists, NEW item \in live, owner[item] = c
  PROVE  LET m == Detached(Links, c, item)
             S == Subtree(item)
         IN  /\ S \in SUBSET live
             /\ \A x \in live : m.owner[x] # NULL => (x \in S <=> m.owner[x] \in S)
<1> DEFINE S == Subtree(item)
           m == Detached(Links, c, item)
<1>1. S \in SUBSET live /\ \A x \in live \ {item} : x \in S <=> owner[x] \in S
  BY SubtreeWhole
<1>2. m.owner = Moved(owner, item, NULL)
  BY DetachedWhole
<1> HIDE DEF S, m
<1>3. \A x \in live : m.owner[x] = IF x = item THEN NULL ELSE owner[x]
  BY <1>2, TreesShape DEF Moved, Trees
<1>4. \A x \in live : m.owner[x] # NULL => (x \in S <=> m.owner[x] \in S)
  BY <1>1, <1>3
<1> QED
  BY <1>1, <1>4 DEF S, m

LEMMA TreesDeleteItem ==
  ASSUME Trees, NEW c \in Lists, NEW item \in live, DeleteItem(c, item)
  PROVE  Trees'
<1> DEFINE S == Subtree(item)
           m == Detached(Links, c, item)
<1>1. owner[item] = c /\ Free(S, m, Names)
  BY DEF DeleteItem
<1>2. m \in LinkRecords /\ Whole(live, Lists, m) /\ SameChild(child, m.child, c)
  BY <1>1, DetachedWhole
<1>3. S \in SUBSET live /\ \A x \in live : m.owner[x] # NULL => (x \in S <=> m.owner[x] \in S)
  BY <1>1, DetachedApart
<1> HIDE DEF S, m
<1>4. \A x \in Node \ Lists : m.child[x] = child[x]
  BY <1>2 DEF SameChild
<1> QED
  BY <1>1, <1>2, <1>3, <1>4, TreesFree

\* The links when n has taken the place of item, and what is below item then.
LEMMA ReplacedWhole ==
  ASSUME Trees, NEW c \in Lists, NEW item \in live, owner[item] = c, NEW n \in Takeable(c)
  PROVE  LET m == Replaced(Links, c, item, n)
             S == Subtree(item)
         IN
         /\ m \in LinkRecords /\ Whole(live, Lists, m) /\ SameChild(child, m.child, c)
         /\ ReplaceChange(next, prev, child, owner, c, item, n,
                          m.next, m.prev, m.child, m.owner)
         /\ S \in SUBSET live
         /\ \A x \in live : m.owner[x] # NULL => (x \in S <=> m.owner[x] \in S)
<1> DEFINE S == Subtree(item)
           l == Links
           m == Replaced(Links, c, item, n)
           ow2 == Moved(Moved(owner, n, c), item, NULL)
<1>1. /\ l \in LinkRecords /\ Whole(live, Lists, l)
      /\ l.next = next /\ l.prev = prev /\ l.owner = owner /\ l.child = child
      /\ n \in live /\ owner[n] = NULL /\ Grounded(live, Moved(owner, n, c))
  BY TakeableGrounded DEF Trees, Links
<1>2. /\ S \in SUBSET live /\ c \notin S
      /\ \A x \in live \ {item} : x \in S <=> owner[x] \in S
  BY SubtreeWhole
<1>3. /\ NULL \notin live /\ live \subseteq Node /\ c # NULL
  BY JsonTreeAssumption DEF Trees, Lists
<1>4. \A x \in live : /\ ow2[x] = IF x = item THEN NULL ELSE IF x = n THEN c ELSE owner[x]
                      /\ Moved(owner, n, c)[x] = IF x = n THEN c ELSE owner[x]
  BY <1>3, TreesShape DEF Moved
<1>5. Grounded(live, ow2)
  BY <1>1, <1>3, <1>4 DEF Grounded
<1>6. /\ m \in LinkRecords /\ Whole(live, Lists, m) /\ SameChild(child, m.child, c)
      /\ ReplaceChange(next, prev, child, owner, c, item, n,
                       m.next, m.prev, m.child, m.owner)
      /\ m.owner = ow2
  <2> HIDE DEF l
  <2>1. LET k == Replaced(l, c, item, n) IN
        /\ k \in LinkRecords /\ Whole(live, Lists, k) /\ SameChild(l.child, k.child, c)
        /\ ReplaceChange(l.next, l.prev, l.child, l.owner, c, item, n,
                         k.next, k.prev, k.child, k.owner)
        /\ k.owner = Moved(Moved(l.owner, n, c), item, NULL)
    BY <1>1, <1>5, WholeReplaced
  <2> QED
    BY <1>1, <2>1 DEF l
<1> HIDE DEF S, m, ow2
<1>7. \A x \in live : m.owner[x] # NULL => (x \in S <=> m.owner[x] \in S)
  BY <1>1, <1>2, <1>3, <1>4, <1>6
<1> QED
  BY <1>2, <1>6, <1>7 DEF S, m

\* n takes the place of item in the list c, and item is deleted.
LEMMA TreesReplace ==
  ASSUME Trees, NEW c \in Lists, NEW item \in live, owner[item] = c,
         NEW n \in Takeable(c), NEW nm,
         Free(Subtree(item), Replaced(Links, c, item, n), nm)
  PROVE  Trees'
<1> DEFINE S == Subtree(item)
           m == Replaced(Links, c, item, n)
<1>1. /\ m \in LinkRecords /\ Whole(live, Lists, m) /\ SameChild(child, m.child, c)
      /\ S \in SUBSET live
      /\ \A x \in live : m.owner[x] # NULL => (x \in S <=> m.owner[x] \in S)
  BY ReplacedWhole
<1>2. Free(S, m, nm)
  OBVIOUS
<1> HIDE DEF S, m
<1>3. \A x \in Node \ Lists : m.child[x] = child[x]
  BY <1>1 DEF SameChild
<1> QED
  BY <1>1, <1>2, <1>3, TreesFree

\* Following next from the child of a list meets just the items in it.
LEMMA MembersOwned ==
  ASSUME Trees, NEW c \in Lists
  PROVE  Members(c) = {n \in live : owner[n] = c}
<1> USE DEF Shape, Typed, MaybeNode
<1> DEFINE own == {n \in live : owner[n] = c}
<1>0. /\ Shape(live, Lists, next, prev, child, owner) /\ NULL \notin live /\ c # NULL
  BY TreesShape, JsonTreeAssumption
<1>1. CASE child[c] = NULL
  BY <1>0, <1>1 DEF Members, Linked
<1>2. CASE child[c] # NULL
  <2>1. child[c] \in own
    BY <1>0, <1>2 DEF Headed
  <2>2. \A y \in own : next[y] \in own \cup {NULL}
    BY <1>0 DEF Linked
  <2>3. From(child[c]) \subseteq own
    BY <2>1, <2>2 DEF From
  <2>4. \A S \in SUBSET live :
          child[c] \in S /\ (\A y \in S : next[y] \in S \cup {NULL}) => own \subseteq S
    BY <1>0 DEF Reached, Closed
  <2>5. own \subseteq From(child[c])
    BY <2>4 DEF From
  <2> QED
    BY <1>2, <2>3, <2>5 DEF Members
<1> QED
  BY <1>1, <1>2

LEMMA FoundInList ==
  ASSUME Trees, NEW c \in Lists, NEW k, NEW exact, GetObjectItem(c, k, exact) # NULL
  PROVE  GetObjectItem(c, k, exact) \in live /\ owner[GetObjectItem(c, k, exact)] = c
<1>1. GetObjectItem(c, k, exact) \in Members(c)
  BY DEF GetObjectItem
<1> QED
  BY <1>1, MembersOwned

LEMMA ThreeNew ==
  ASSUME NEW S, NEW a, NEW x, NEW y, Cardinality({a, x, y} \ S) = 3
  PROVE  a # x /\ a # y /\ x # y
<1>1. \A u, v : IsFiniteSet({u, v}) /\ Cardinality({u, v}) \in 0 .. 2
  <2> SUFFICES ASSUME NEW u, NEW v
               PROVE  IsFiniteSet({u, v}) /\ Cardinality({u, v}) \in 0 .. 2
    OBVIOUS
  <2>1. IsFiniteSet({u}) /\ Cardinality({u}) = 1
    BY FS_Singleton
  <2>2. {u, v} = {u} \cup {v}
    OBVIOUS
  <2> QED
    BY <2>1, <2>2, FS_AddElement
<1>2. ASSUME NEW u, NEW v, {a, x, y} = {u, v} PROVE FALSE
  <2>1. {a, x, y} \ S \subseteq {u, v}
    BY <1>2
  <2>2. Cardinality({a, x, y} \ S) <= Cardinality({u, v})
    BY <2>1, <1>1, FS_Subset
  <2>3. Cardinality({u, v}) \in 0 .. 2
    BY <1>1
  <2>4. \A i : i \in 0 .. 2 => ~(3 <= i)
    OBVIOUS
  <2> QED
    BY <2>2, <2>3, <2>4
<1>3. /\ a = x => {a, x, y} = {a, y}
      /\ a = y => {a, x, y} = {a, x}
      /\ x = y => {a, x, y} = {a, x}
  OBVIOUS
<1> QED
  BY <1>2, <1>3

\* Three new items, two of them put into the list that is the third.
LEMMA TreesCreateArrayOf ==
  ASSUME Trees, NEW a \in Node \ live, NEW x \in Node \ live, NEW y \in Node \ live,
         NEW k \in Kind, CreateArrayOf(a, x, y, k)
  PROVE  Trees'
<1> DEFINE more(z) == IF k = "list" THEN {z} ELSE {}
           lv1 == live \cup {a}
           ls1 == Lists \cup {a}
           lv2 == lv1 \cup {x}
           ls2 == ls1 \cup more(x)
           lv3 == lv2 \cup {y}
           ls3 == ls2 \cup more(y)
           pv1 == [prev EXCEPT ![x] = x]
           ch1 == [child EXCEPT ![a] = x]
           ow1 == [owner EXCEPT ![x] = a]
           nx2 == [next EXCEPT ![x] = y]
           pv2 == [pv1 EXCEPT ![y] = x, ![x] = y]
           ow2 == [ow1 EXCEPT ![y] = a]
<1>1. /\ Shape(live, Lists, next, prev, child, owner)
      /\ next \in [Node -> MaybeNode] /\ prev \in [Node -> MaybeNode]
      /\ child \in [Node -> MaybeNode] /\ owner \in [Node -> MaybeNode]
  BY TreesShape
<1>2. a # x /\ a # y /\ x # y
  BY ThreeNew DEF CreateArrayOf
<1>3. /\ \A z \in {a, x, y} : /\ z \notin live /\ z \notin Lists /\ z \notin ref
                              /\ child[z] = NULL /\ owner[z] = NULL
                              /\ next[z] = NULL /\ prev[z] = NULL
      /\ NULL \notin Node /\ live \subseteq Node /\ Lists \subseteq live
  BY <1>1, JsonTreeAssumption DEF Shape, Clear, Trees, Lists
<1>4. Shape(lv1, ls1, next, prev, child, owner)
  <2>1. ls1 \in SUBSET (Lists \cup {a}) /\ Lists \subseteq ls1
    OBVIOUS
  <2> QED
    BY <1>1, <1>3, <2>1, ShapeCreate
<1>5. Shape(lv2, ls2, next, prev, child, owner)
  <2>1. x \in Node \ lv1 /\ ls2 \in SUBSET (ls1 \cup {x}) /\ ls1 \subseteq ls2
    BY <1>2, <1>3
  <2> HIDE DEF lv1, ls1, ls2
  <2> QED
    BY <1>1, <1>3, <1>4, <2>1, ShapeCreate
<1>6. Shape(lv3, ls3, next, prev, child, owner)
  <2>1. y \in Node \ lv2 /\ ls3 \in SUBSET (ls2 \cup {y}) /\ ls2 \subseteq ls3
    BY <1>2, <1>3
  <2> HIDE DEF lv2, ls2, ls3
  <2> QED
    BY <1>1, <1>3, <1>5, <2>1, ShapeCreate
<1>7. Grounded(lv3, owner) /\ a \in ls3 /\ a \in lv3 /\ x \in lv3 /\ y \in lv3
  BY <1>6 DEF Shape
<1>8. \A m \in lv3 : owner[m] \notin {a, x, y}
  BY <1>1, <1>3 DEF Shape, Linked
<1>9. lv3 \subseteq Node
  BY <1>3
<1> DEFINE taken == Grounded(lv3, ow1) /\ Grounded(lv3, ow2)
<1>10. taken
  <2>1. \A m \in lv3 : ow1[m] = IF m = x THEN a ELSE owner[m]
    BY <1>1, <1>9
  <2>2. \A m \in lv3 : ow2[m] = IF m = y THEN a ELSE ow1[m]
    BY <1>1, <1>9
  <2>3. \A m \in lv3 : m # x /\ owner[m] \in {x} => m \in {x}
    BY <1>8
  <2>4. \A m \in lv3 : m # y /\ ow1[m] \in {y} => m \in {y}
    BY <1>2, <1>8, <2>1
  <2>5. NULL \notin lv3 /\ a \notin {x} /\ a \notin {y}
    BY <1>2, <1>3, <1>9
  <2> HIDE DEF lv3, ow1, ow2
  <2>6. Grounded(lv3, ow1)
    BY <1>7, <2>1, <2>3, <2>5, GroundedTake
  <2>7. Grounded(lv3, ow2)
    BY <1>7, <2>2, <2>4, <2>5, <2>6, GroundedTake
  <2> QED
    BY <2>6, <2>7
<1>11. Shape(lv3, ls3, next, pv1, ch1, ow1)
  <2>1. /\ pv1 \in [Node -> MaybeNode] /\ ch1 \in [Node -> MaybeNode]
        /\ ow1 \in [Node -> MaybeNode]
        /\ \A z \in Node : pv1[z] = IF z = x THEN x ELSE prev[z]
        /\ \A z \in Node : ch1[z] = IF z = a THEN x ELSE child[z]
        /\ \A z \in Node : ow1[z] = IF z = x THEN a ELSE owner[z]
    BY <1>1 DEF MaybeNode
  <2>2. owner[x] = NULL /\ child[a] = NULL
    BY <1>3
  <2> HIDE DEF lv3, ls3, pv1, ch1, ow1, ow2
  <2> QED
    BY <1>6, <1>7, <1>10, <2>1, <2>2, ShapeFirst
<1>12. Shape(lv3, ls3, nx2, pv2, ch1, ow2)
  <2>1. ch1[a] = x /\ pv1[x] = x /\ ow1[y] = NULL /\ x # NULL
    BY <1>1, <1>2, <1>3
  <2>2. /\ nx2 \in [Node -> MaybeNode] /\ pv2 \in [Node -> MaybeNode]
        /\ ow2 \in [Node -> MaybeNode]
        /\ \A z \in Node : nx2[z] = IF z = x THEN y ELSE next[z]
        /\ \A z \in Node : pv2[z] = IF z = x THEN y ELSE IF z = y THEN x ELSE pv1[z]
        /\ \A z \in Node : ow2[z] = IF z = y THEN a ELSE ow1[z]
    BY <1>1, <1>2 DEF MaybeNode
  <2> HIDE DEF lv3, ls3, pv1, ch1, ow1, nx2, pv2, ow2
  <2>3. /\ \A z \in Node : nx2[z] = IF z = pv1[ch1[a]] THEN y ELSE next[z]
        /\ \A z \in Node : pv2[z] = IF z = ch1[a] THEN y
                                    ELSE IF z = y THEN pv1[ch1[a]] ELSE pv1[z]
    BY <2>1, <2>2
  <2> QED
    BY <1>7, <1>10, <1>11, <2>1, <2>2, <2>3, ShapeLast
<1>13. /\ live' = lv3 /\ ref' = ref
       /\ kind' = [kind EXCEPT ![a] = "list", ![x] = k, ![y] = k]
       /\ next' = nx2 /\ prev' = pv2 /\ child' = ch1 /\ owner' = ow2
  <2>1. /\ prev' = [prev EXCEPT ![y] = x, ![x] = y]
        /\ next' = nx2 /\ child' = ch1 /\ owner' = ow2
    BY DEF CreateArrayOf, SetLinks, Links
  <2>2. pv2 = [prev EXCEPT ![y] = x, ![x] = y]
    BY <1>1, <1>2
  <2> QED
    BY <2>1, <2>2 DEF CreateArrayOf
<1>14. kind \in [Node -> {"list", "text", "plain"}] /\ k \in {"list", "text", "plain"}
  BY JsonTreeAssumption DEF Trees
<1>15. Lists' = ls3
  BY <1>2, <1>3, <1>13, <1>14 DEF Lists
<1>16. Followed(live', Lists', child', ref')
  <2>1. Followed(live, Lists, child, ref)
    BY DEF Trees
  <2> QED
    BY <1>1, <1>3, <1>13, <1>15, <2>1 DEF Followed
<1>17. /\ live' \subseteq Node /\ ref' \subseteq live'
       /\ kind' \in [Node -> {"list", "text", "plain"}]
       /\ \A n \in Node \ live' : kind'[n] = "plain"
  BY <1>3, <1>13, <1>14 DEF Trees
<1>18. Links' \in LinkRecords /\ Whole(live', Lists', Links')
  <2>1. Links' = [next |-> nx2, prev |-> pv2, child |-> ch1, owner |-> ow2]
    BY <1>13 DEF Links
  <2>2. /\ nx2 \in [Node -> MaybeNode] /\ pv2 \in [Node -> MaybeNode]
        /\ ch1 \in [Node -> MaybeNode] /\ ow2 \in [Node -> MaybeNode]
    BY <1>12 DEF Shape, Typed
  <2> HIDE DEF nx2, pv2, ch1, ow2, lv3, ls3
  <2> QED
    BY <1>12, <1>13, <1>15, <2>1, <2>2 DEF Whole, LinkRecords
<1> QED
  BY <1>16, <1>17, <1>18 DEF Trees

-----------------------------------------------------------------------------
(* Every call keeps account of the strings.                                  *)

\* The live items that own a name, and those that own a text.
Named(lv, nm, cs) == {n \in lv : nm[n] # NULL /\ n \notin cs}
Texted(lv, kd, rf) == {n \in lv : kd[n] = "text" /\ n \notin rf}

\* The names nm are right for live items lv of kinds kd and references rf.
Accounted(lv, kd, rf, nm) ==
  /\ nm.const \subseteq lv
  /\ nm.name \in [Node -> Name \cup {NULL}]
  /\ \A n \in Node \ lv : nm.name[n] = NULL
  /\ nm.strings = Cardinality(Named(lv, nm.name, nm.const))
                  + Cardinality(Texted(lv, kd, rf))

\* The part of the inductive invariant that is about names and texts.
Texts == Accounted(live, kind, ref, Names)

LEMMA Owned ==
  /\ \A n \in live : OwnName(n) = 1 <=> n \in Named(live, name, const)
  /\ \A n \in live : OwnName(n) = IF n \in Named(live, name, const) THEN 1 ELSE 0
  /\ \A n \in live : OwnText(n) = 1 <=> n \in Texted(live, kind, ref)
BY DEF OwnName, OwnText, Named, Texted

LEMMA Finite ==
  ASSUME NEW S \in SUBSET Node
  PROVE  IsFiniteSet(S) /\ Cardinality(S) \in Nat
BY MemoryAssumption, FS_Subset, FS_CardinalityType

LEMMA CountWith ==
  ASSUME NEW S \in SUBSET Node, NEW x \in Node \ S
  PROVE  Cardinality(S \cup {x}) = Cardinality(S) + 1
BY Finite, FS_AddElement

LEMMA CountWithout ==
  ASSUME NEW S \in SUBSET Node, NEW x
  PROVE  Cardinality(S \ {x}) = Cardinality(S) - (IF x \in S THEN 1 ELSE 0)
<1>1. CASE x \in S
  BY <1>1, Finite, FS_RemoveElement
<1>2. CASE x \notin S
  <2>1. S \ {x} = S
    BY <1>2
  <2> QED
    BY <1>2, <2>1, Finite
<1> QED
  BY <1>1, <1>2

LEMMA CountApart ==
  ASSUME NEW S \in SUBSET Node, NEW F
  PROVE  Cardinality(S \ F) = Cardinality(S) - Cardinality(S \cap F)
<1>1. IsFiniteSet(S)
  BY Finite
<1> QED
  BY <1>1, FS_Difference

\* Calls that leave names and texts as they are.
LEMMA TextsSame ==
  ASSUME Texts, UNCHANGED <<live, kind, ref, names>>
  PROVE  Texts'
BY DEF Texts, Names, names

\* A new item of kind k, which may be a reference or have a name.
LEMMA TextsNew ==
  ASSUME Trees, Texts, NEW n \in Node \ live, NEW k, NEW rf2 \in {ref, ref \cup {n}},
         live' = live \cup {n}, kind' = [kind EXCEPT ![n] = k], ref' = rf2,
         const \subseteq const', const' \subseteq const \cup {n},
         NEW z \in Name \cup {NULL}, name' = [name EXCEPT ![n] = z],
         strings' = strings + (IF z # NULL /\ n \notin const' THEN 1 ELSE 0)
                            + (IF k = "text" /\ n \notin rf2 THEN 1 ELSE 0)
  PROVE  Texts'
<1> DEFINE N == Named(live, name, const)
           T == Texted(live, kind, ref)
           N2 == Named(live', name', const')
           T2 == Texted(live', kind', ref')
<1>1. /\ const \subseteq live /\ name \in [Node -> Name \cup {NULL}]
      /\ \A x \in Node \ live : name[x] = NULL
      /\ strings = Cardinality(N) + Cardinality(T)
  BY DEF Texts, Accounted, Names
<1>2. live \subseteq Node /\ ref \subseteq live /\ kind \in [Node -> {"list", "text", "plain"}]
  BY DEF Trees
<1>3. N \in SUBSET Node /\ T \in SUBSET Node /\ n \notin N /\ n \notin T
  BY <1>2 DEF Named, Texted
<1>4. N2 = IF z # NULL /\ n \notin const' THEN N \cup {n} ELSE N
  BY <1>1, <1>2 DEF Named
<1>5. T2 = IF k = "text" /\ n \notin rf2 THEN T \cup {n} ELSE T
  BY <1>2 DEF Texted
<1> HIDE DEF N, T, N2, T2
<1>6. Cardinality(N) \in Nat /\ Cardinality(T) \in Nat
  BY <1>3, Finite
<1>7. Cardinality(N2) = Cardinality(N) + (IF z # NULL /\ n \notin const' THEN 1 ELSE 0)
  BY <1>3, <1>4, <1>6, CountWith
<1>8. Cardinality(T2) = Cardinality(T) + (IF k = "text" /\ n \notin rf2 THEN 1 ELSE 0)
  BY <1>3, <1>5, <1>6, CountWith
<1>9. strings' = Cardinality(N2) + Cardinality(T2)
  BY <1>1, <1>6, <1>7, <1>8
<1>10. /\ const' \subseteq live' /\ name' \in [Node -> Name \cup {NULL}]
       /\ \A x \in Node \ live' : name'[x] = NULL
  BY <1>1
<1> QED
  BY <1>9, <1>10 DEF Texts, Accounted, Names, N2, T2

LEMMA TextsCreateArrayOf ==
  ASSUME Trees, Texts, NEW a \in Node \ live, NEW x \in Node \ live, NEW y \in Node \ live,
         NEW k, CreateArrayOf(a, x, y, k)
  PROVE  Texts'
<1> DEFINE N == Named(live, name, const)
           T == Texted(live, kind, ref)
           N2 == Named(live', name', const')
           T2 == Texted(live', kind', ref')
<1>1. /\ const \subseteq live /\ name \in [Node -> Name \cup {NULL}]
      /\ \A z \in Node \ live : name[z] = NULL
      /\ strings = Cardinality(N) + Cardinality(T)
  BY DEF Texts, Accounted, Names
<1>2. live \subseteq Node /\ ref \subseteq live /\ kind \in [Node -> {"list", "text", "plain"}]
  BY DEF Trees
<1>3. /\ live' = live \cup {a, x, y} /\ UNCHANGED <<ref, const, name>>
      /\ kind' = [kind EXCEPT ![a] = "list", ![x] = k, ![y] = k]
      /\ strings' = strings + (IF k = "text" THEN 2 ELSE 0)
      /\ a # x /\ a # y /\ x # y
  BY ThreeNew DEF CreateArrayOf
<1>4. /\ N \in SUBSET Node /\ T \in SUBSET Node /\ x \notin T /\ T \cup {x} \in SUBSET Node
      /\ y \in Node \ (T \cup {x})
  BY <1>2, <1>3 DEF Named, Texted
<1>5. N2 = N
  BY <1>1, <1>2, <1>3 DEF Named
<1>6. T2 = IF k = "text" THEN (T \cup {x}) \cup {y} ELSE T
  BY <1>2, <1>3 DEF Texted
<1> HIDE DEF N, T, N2, T2
<1>7. Cardinality(N) \in Nat /\ Cardinality(T) \in Nat
  BY <1>4, Finite
<1>8. Cardinality(T \cup {x}) = Cardinality(T) + 1
  BY <1>4, CountWith
<1>9. Cardinality((T \cup {x}) \cup {y}) = Cardinality(T \cup {x}) + 1
  BY <1>4, CountWith
<1>10. strings' = Cardinality(N2) + Cardinality(T2)
  BY <1>1, <1>3, <1>5, <1>6, <1>7, <1>8, <1>9
<1>11. /\ const' \subseteq live' /\ name' \in [Node -> Name \cup {NULL}]
       /\ \A z \in Node \ live' : name'[z] = NULL
  BY <1>1, <1>3
<1> QED
  BY <1>10, <1>11 DEF Texts, Accounted, Names, N2, T2

\* An item gets a name, its own or constant, and its old one is freed.
LEMMA RenamedAccounted ==
  ASSUME Trees, Texts, NEW n \in live, NEW k \in Name, NEW b
  PROVE  Accounted(live, kind, ref, Renamed(n, k, b))
<1> DEFINE nm == Renamed(n, k, b)
           N == Named(live, name, const)
           T == Texted(live, kind, ref)
           N2 == Named(live, nm.name, nm.const)
<1>1. /\ const \subseteq live /\ name \in [Node -> Name \cup {NULL}]
      /\ \A x \in Node \ live : name[x] = NULL
      /\ strings = Cardinality(N) + Cardinality(T)
  BY DEF Texts, Accounted, Names
<1>2. live \subseteq Node /\ N \in SUBSET Node /\ T \in SUBSET Node
  BY DEF Trees, Named, Texted
<1>3. /\ nm.name = [name EXCEPT ![n] = k]
      /\ nm.const = IF b THEN const \cup {n} ELSE const \ {n}
      /\ nm.strings = strings + (IF b THEN 0 ELSE 1) - (IF n \in N THEN 1 ELSE 0)
  BY Owned DEF Renamed
<1>4. N2 = IF b THEN N \ {n} ELSE (N \ {n}) \cup {n}
  BY <1>1, <1>2, <1>3, JsonTreeAssumption DEF Named
<1>5. /\ nm.const \subseteq live /\ nm.name \in [Node -> Name \cup {NULL}]
      /\ \A x \in Node \ live : nm.name[x] = NULL
  BY <1>1, <1>3
<1> HIDE DEF nm, N, T, N2
<1>6. Cardinality(N) \in Nat /\ Cardinality(T) \in Nat
  BY <1>2, Finite
<1>7. Cardinality(N \ {n}) = Cardinality(N) - (IF n \in N THEN 1 ELSE 0)
  BY <1>2, CountWithout
<1>8. N \ {n} \in SUBSET Node /\ n \in Node \ (N \ {n})
  BY <1>2
<1>9. Cardinality((N \ {n}) \cup {n}) = Cardinality(N \ {n}) + 1
  BY <1>8, CountWith
<1>10. Cardinality(N2) = Cardinality(N) - (IF n \in N THEN 1 ELSE 0) + (IF b THEN 0 ELSE 1)
  BY <1>4, <1>6, <1>7, <1>9
<1>11. nm.strings = Cardinality(N2) + Cardinality(T)
  BY <1>1, <1>3, <1>6, <1>10
<1> QED
  BY <1>5, <1>11 DEF Accounted, nm, N2, T

LEMMA TextsRenamed ==
  ASSUME Trees, Texts, NEW n \in live, NEW k \in Name, NEW b,
         SetNames(Renamed(n, k, b)), UNCHANGED <<live, kind, ref>>
  PROVE  Texts'
<1>1. Accounted(live, kind, ref, Renamed(n, k, b))
  BY RenamedAccounted
<1>2. Names' = Renamed(n, k, b)
  BY DEF Names, SetNames, Renamed
<1> QED
  BY <1>1, <1>2 DEF Texts

LEMMA TextsRenamingFails ==
  ASSUME Trees, Texts, NEW n \in live, RenamingFails(n)
  PROVE  Texts'
<1> DEFINE N == Named(live, name, const)
           T == Texted(live, kind, ref)
           N2 == Named(live', name', const')
           T2 == Texted(live', kind', ref')
<1>1. /\ const \subseteq live /\ name \in [Node -> Name \cup {NULL}]
      /\ \A x \in Node \ live : name[x] = NULL
      /\ strings = Cardinality(N) + Cardinality(T)
  BY DEF Texts, Accounted, Names
<1>2. live \subseteq Node /\ N \in SUBSET Node /\ T \in SUBSET Node
  BY DEF Trees, Named, Texted
<1>3. /\ UNCHANGED <<live, kind, ref, const>> /\ name' = [name EXCEPT ![n] = NULL]
      /\ strings' = strings - (IF n \in N THEN 1 ELSE 0)
  BY Owned DEF RenamingFails
<1>4. N2 = N \ {n} /\ T2 = T
  BY <1>1, <1>2, <1>3 DEF Named, Texted
<1>5. /\ const' \subseteq live' /\ name' \in [Node -> Name \cup {NULL}]
      /\ \A x \in Node \ live' : name'[x] = NULL
  BY <1>1, <1>3
<1> HIDE DEF N, T, N2, T2
<1>6. Cardinality(N) \in Nat /\ Cardinality(T) \in Nat
  BY <1>2, Finite
<1>7. Cardinality(N \ {n}) = Cardinality(N) - (IF n \in N THEN 1 ELSE 0)
  BY <1>2, CountWithout
<1>8. strings' = Cardinality(N2) + Cardinality(T2)
  BY <1>1, <1>3, <1>4, <1>6, <1>7
<1> QED
  BY <1>5, <1>8 DEF Texts, Accounted, Names, N2, T2

\* cJSON_Delete frees S, whose items own in nm what they own now.
LEMMA TextsFree ==
  ASSUME Trees, NEW S \in SUBSET live, NEW l, NEW nm, Free(S, l, nm),
         Accounted(live, kind, ref, nm),
         \A x \in S : x \in Named(live, nm.name, nm.const)
                      <=> x \in Named(live, name, const)
  PROVE  Texts'
<1> DEFINE N == Named(live, nm.name, nm.const)
           T == Texted(live, kind, ref)
           N2 == Named(live', name', const')
           T2 == Texted(live', kind', ref')
<1>1. /\ nm.const \subseteq live /\ nm.name \in [Node -> Name \cup {NULL}]
      /\ \A x \in Node \ live : nm.name[x] = NULL
      /\ nm.strings = Cardinality(N) + Cardinality(T)
  BY DEF Accounted
<1>2. /\ live \subseteq Node /\ N \in SUBSET Node /\ T \in SUBSET Node
      /\ kind \in [Node -> {"list", "text", "plain"}]
  BY DEF Trees, Named, Texted
<1>3. {n \in S : OwnName(n) = 1} = N \cap S /\ {n \in S : OwnText(n) = 1} = T \cap S
  BY Owned
<1>4. /\ live' = live \ S /\ ref' = ref \ S /\ const' = nm.const \ S
      /\ kind' = [n \in Node |-> IF n \in S THEN "plain" ELSE kind[n]]
      /\ name' = [n \in Node |-> IF n \in S THEN NULL ELSE nm.name[n]]
      /\ strings' = nm.strings - Cardinality(N \cap S) - Cardinality(T \cap S)
  BY <1>3 DEF Free, SetNames
<1>5. N2 = N \ S /\ T2 = T \ S
  BY <1>1, <1>2, <1>4 DEF Named, Texted
<1>6. /\ const' \subseteq live' /\ name' \in [Node -> Name \cup {NULL}]
      /\ \A x \in Node \ live' : name'[x] = NULL
  BY <1>1, <1>4
<1> HIDE DEF N, T, N2, T2
<1>7. Cardinality(N \ S) = Cardinality(N) - Cardinality(N \cap S)
  BY <1>2, CountApart
<1>8. Cardinality(T \ S) = Cardinality(T) - Cardinality(T \cap S)
  BY <1>2, CountApart
<1>9. /\ Cardinality(N) \in Nat /\ Cardinality(T) \in Nat
      /\ Cardinality(N \cap S) \in Nat /\ Cardinality(T \cap S) \in Nat
  BY <1>2, Finite
<1>10. strings' = Cardinality(N2) + Cardinality(T2)
  BY <1>1, <1>4, <1>5, <1>7, <1>8, <1>9
<1> QED
  BY <1>6, <1>10 DEF Texts, Accounted, Names, N2, T2

-----------------------------------------------------------------------------
(* The inductive invariant.                                                  *)

\* What failed calls have left allocated, and its other part.
Leaks == \A n \in lost : n \in ref /\ owner[n] = NULL /\ name[n] = NULL
Sound == Trees /\ Texts /\ ret \in {"ok", "failed"}
IInv == Sound /\ Leaks

\* The links of the invariant are those of WellLinked.
LEMMA TreesWellLinked ==
  ASSUME Trees
  PROVE  WellLinked
<1>1. Shape(live, Lists, next, prev, child, owner)
  BY TreesShape
<1>2. NULL \notin Node
  BY JsonTreeAssumption
<1> SUFFICES ASSUME NEW n \in live, owner[n] # NULL
             PROVE  LET c == owner[n] IN
                    /\ c \in Lists /\ child[c] \in live /\ owner[child[c]] = c
                    /\ prev[n] \in live /\ owner[prev[n]] = c
                    /\ IF n = child[c] THEN next[prev[n]] = NULL ELSE next[prev[n]] = n
                    /\ next[n] # NULL => next[n] \in live /\ owner[next[n]] = c
                                         /\ prev[next[n]] = n /\ next[n] # child[c]
  BY <1>1 DEF WellLinked, Shape, Loose
<1> QED
  BY <1>1, <1>2 DEF Shape, Typed, Linked, Headed

LEMMA Enough ==
  ASSUME Sound
  PROVE  WellLinked /\ ListsComplete /\ StringsAccounted /\ strings \in Nat
<1>1. WellLinked
  BY TreesWellLinked DEF Sound
<1>2. ListsComplete
  BY MembersOwned DEF ListsComplete, Sound
<1> DEFINE N == Named(live, name, const)
           T == Texted(live, kind, ref)
<1>3. /\ const \subseteq live /\ name \in [Node -> Name \cup {NULL}]
      /\ strings = Cardinality(N) + Cardinality(T)
  BY DEF Sound, Texts, Accounted, Names
<1>4. {n \in live : OwnName(n) = 1} = N /\ {n \in live : OwnText(n) = 1} = T
  BY DEF OwnName, OwnText, Named, Texted
<1>5. N \in SUBSET Node /\ T \in SUBSET Node
  BY DEF Sound, Trees, Named, Texted
<1> HIDE DEF N, T
<1>6. strings \in Nat
  <2>1. Cardinality(N) \in Nat /\ Cardinality(T) \in Nat
    BY <1>5, Finite
  <2> QED
    BY <1>3, <2>1
<1> QED
  BY <1>1, <1>2, <1>3, <1>4, <1>6 DEF StringsAccounted

LEMMA EnoughIntact ==
  ASSUME IInv
  PROVE  Intact /\ OnlyReferencesLost
<1>1. const \subseteq live /\ name \in [Node -> Name \cup {NULL}]
  BY DEF IInv, Sound, Texts, Accounted, Names
<1>2. lost \subseteq live
  BY DEF IInv, Sound, Leaks, Trees
<1>3. WellLinked /\ ListsComplete /\ strings \in Nat
  BY Enough DEF IInv
<1>4. TypeOK
  BY <1>1, <1>2, <1>3, TreesShape DEF TypeOK, IInv, Sound, Trees
<1> QED
  BY <1>3, <1>4 DEF Intact, OnlyReferencesLost, IInv, Leaks

LEMMA Initially ==
  ASSUME Init
  PROVE  IInv
<1>1. live = {} /\ ref = {} /\ const = {} /\ Lists = {} /\ strings = 0 /\ ret = "ok"
  BY DEF Init, Lists
<1>2. /\ kind = [n \in Node |-> "plain"] /\ next = [n \in Node |-> NULL]
      /\ prev = [n \in Node |-> NULL] /\ child = [n \in Node |-> NULL]
      /\ owner = [n \in Node |-> NULL] /\ name = [n \in Node |-> NULL]
  BY DEF Init
<1>3. Links \in LinkRecords
  BY <1>2 DEF Links, LinkRecords, MaybeNode
<1>4. Shape(live, Lists, next, prev, child, owner)
  BY <1>1, <1>2 DEF Shape, Typed, Loose, Linked, Headed, Reached, Grounded, Clear, MaybeNode
<1>5. Trees
  BY <1>1, <1>2, <1>3, <1>4 DEF Trees, Whole, Links, Followed
<1>6. Named(live, name, const) = {} /\ Texted(live, kind, ref) = {}
  BY <1>1 DEF Named, Texted
<1>7. Cardinality(Named(live, name, const)) = 0 /\ Cardinality(Texted(live, kind, ref)) = 0
  BY <1>6, FS_EmptySet
<1>8. Texts
  BY <1>1, <1>2, <1>7 DEF Texts, Accounted, Names
<1>9. Leaks
  BY DEF Init, Leaks
<1> QED
  BY <1>1, <1>5, <1>8, <1>9 DEF IInv, Sound

\* Calls that make an item.
LEMMA PreservedMaking ==
  ASSUME Sound, NEW n \in Node \ live
  PROVE
    /\ CreateTextFails(n) => Sound'
    /\ \A k \in Kind : Create(n, k) => Sound'
    /\ \A c \in Lists, k \in Name, what \in Kind : AddNewToObject(c, k, n, what) => Sound'
    /\ \A what \in Kind : AddNewToObjectFails(n, what) => Sound'
    /\ \A x \in Node \ live : CreateArrayFails(n, x) => Sound'
    /\ \A x, y \in Node \ live, k \in Kind : CreateArrayOf(n, x, y, k) => Sound'
    /\ \A k \in Kind, to \in live : CreateReferenceTo(n, k, to) => Sound'
    /\ \A c \in Lists, k \in Name \cup {NULL}, m \in live : AddReference(c, k, n, m) => Sound'
    /\ \A m \in live : AddReferenceFails(n, m) => Sound'
<1> USE DEF Sound
<1>0. /\ ref \in {ref, ref \cup {n}} /\ ref \cup {n} \in {ref, ref \cup {n}}
      /\ n \notin ref /\ n \notin const /\ name[n] = NULL
      /\ name = [name EXCEPT ![n] = NULL]
      /\ NULL \notin Name /\ strings \in Nat
  BY JsonTreeAssumption, Enough DEF Trees, Texts, Accounted, Names
<1>1. ASSUME CreateTextFails(n) PROVE Sound'
  <2>1. Trees' /\ UNCHANGED <<live, kind, ref, names>> /\ ret' = "failed"
    BY <1>1, TreesCreateTextFails DEF CreateTextFails
  <2> QED
    BY <2>1, TextsSame
<1>2. ASSUME NEW k \in Kind, Create(n, k) PROVE Sound'
  <2>1. Trees'
    BY <1>2, TreesCreate
  <2>2. /\ live' = live \cup {n} /\ kind' = [kind EXCEPT ![n] = k] /\ ref' = ref
        /\ const' = const /\ name' = [name EXCEPT ![n] = NULL] /\ ret' = "ok"
        /\ strings' = strings + 0 + (IF k = "text" /\ n \notin ref THEN 1 ELSE 0)
    BY <1>0, <1>2 DEF Create
  <2> QED
    BY <1>0, <2>1, <2>2, TextsNew
<1>3. ASSUME NEW c \in Lists, NEW k \in Name, NEW what \in Kind,
             AddNewToObject(c, k, n, what)
      PROVE  Sound'
  <2>1. Trees'
    BY <1>3, TreesAddNew
  <2>2. /\ live' = live \cup {n} /\ kind' = [kind EXCEPT ![n] = what] /\ ref' = ref
        /\ const' = const /\ name' = [name EXCEPT ![n] = k] /\ ret' = "ok"
        /\ strings' = strings + (IF k # NULL /\ n \notin const' THEN 1 ELSE 0)
                              + (IF what = "text" /\ n \notin ref THEN 1 ELSE 0)
    BY <1>0, <1>3 DEF AddNewToObject
  <2> QED
    BY <1>0, <2>1, <2>2, TextsNew
<1>4. ASSUME NEW x \in Node \ live, CreateArrayFails(n, x) PROVE Sound'
  <2>1. Trees' /\ UNCHANGED <<live, kind, ref, names>> /\ ret' = "failed"
    BY <1>4, TreesCreateArrayFails DEF CreateArrayFails
  <2> QED
    BY <2>1, TextsSame
<1>5. ASSUME NEW x \in Node \ live, NEW y \in Node \ live, NEW k \in Kind,
             CreateArrayOf(n, x, y, k)
      PROVE  Sound'
  <2>1. Trees' /\ Texts' /\ ret' = "ok"
    BY <1>5, TreesCreateArrayOf, TextsCreateArrayOf DEF CreateArrayOf
  <2> QED
    BY <2>1
<1>6. ASSUME NEW k \in Kind, NEW to \in live, CreateReferenceTo(n, k, to) PROVE Sound'
  <2>1. Trees'
    BY <1>6, TreesCreateReferenceTo
  <2>2. /\ live' = live \cup {n} /\ kind' = [kind EXCEPT ![n] = k] /\ ref' = ref \cup {n}
        /\ const' = const /\ name' = [name EXCEPT ![n] = NULL] /\ ret' = "ok"
        /\ strings' = strings + 0 + (IF k = "text" /\ n \notin ref \cup {n} THEN 1 ELSE 0)
    BY <1>0, <1>6 DEF CreateReferenceTo, names
  <2> QED
    BY <1>0, <2>1, <2>2, TextsNew
<1>7. ASSUME NEW c \in Lists, NEW k \in Name \cup {NULL}, NEW m \in live,
             AddReference(c, k, n, m)
      PROVE  Sound'
  <2>1. Trees'
    BY <1>7, TreesAddReference
  <2>2. /\ live' = live \cup {n} /\ kind' = [kind EXCEPT ![n] = kind[m]]
        /\ ref' = ref \cup {n} /\ name' = [name EXCEPT ![n] = k] /\ ret' = "ok"
        /\ const \subseteq const' /\ const' \subseteq const \cup {n}
        /\ strings' = strings + (IF k # NULL /\ n \notin const' THEN 1 ELSE 0)
                              + (IF kind[m] = "text" /\ n \notin ref \cup {n} THEN 1 ELSE 0)
    BY <1>0, <1>7 DEF AddReference
  <2> QED
    BY <1>0, <2>1, <2>2, TextsNew
<1>8. ASSUME NEW what \in Kind, AddNewToObjectFails(n, what) PROVE Sound'
  <2>1. /\ Trees' /\ UNCHANGED <<live, kind, ref, const, name>>
        /\ strings' = strings + (IF what = "text" THEN 1 ELSE 0)
                               - (IF what = "text" THEN 1 ELSE 0)
    BY <1>8, TreesAddNewFails
  <2>2. ret' = "failed"
    BY <1>8 DEF AddNewToObjectFails
  <2>3. strings' = strings
    BY <1>0, <2>1
  <2> QED
    BY <2>1, <2>2, <2>3, TextsSame DEF names
<1>9. ASSUME NEW m \in live, AddReferenceFails(n, m) PROVE Sound'
  <2>1. Trees'
    BY <1>9, TreesAddReferenceFails
  <2>2. /\ live' = live \cup {n} /\ kind' = [kind EXCEPT ![n] = kind[m]]
        /\ ref' = ref \cup {n} /\ name' = [name EXCEPT ![n] = NULL] /\ ret' = "failed"
        /\ const \subseteq const' /\ const' \subseteq const \cup {n}
        /\ strings' = strings + 0
                              + (IF kind[m] = "text" /\ n \notin ref \cup {n} THEN 1 ELSE 0)
    BY <1>0, <1>9 DEF AddReferenceFails
  <2> QED
    BY <1>0, <2>1, <2>2, TextsNew
<1> QED
  BY <1>1, <1>2, <1>3, <1>4, <1>5, <1>6, <1>7, <1>8, <1>9

LEMMA PreservedFails ==
  ASSUME Sound, Fails
  PROVE  Sound'
BY TreesSame, TextsSame DEF Sound, Fails

LEMMA PreservedDetach ==
  ASSUME Sound, NEW c \in Lists, NEW item \in live, Detach(c, item)
  PROVE  Sound'
BY TreesDetach, TextsSame DEF Sound, Detach

LEMMA PreservedDelete ==
  ASSUME Sound, NEW n \in Roots, Delete(n)
  PROVE  Sound'
<1>1. Trees'
  BY TreesDelete DEF Sound
<1>2. Free(Subtree(n), Links, Names) /\ ret' = "ok"
  BY DEF Delete
<1>3. Subtree(n) \in SUBSET live
  BY SubtreeWhole DEF Roots, Sound
<1>4. Texts'
  <2> DEFINE S == Subtree(n)
  <2>1. Accounted(live, kind, ref, Names) /\ Names.name = name /\ Names.const = const
    BY DEF Sound, Texts, Names
  <2>2. Free(S, Links, Names) /\ S \in SUBSET live
    BY <1>2, <1>3
  <2> HIDE DEF S
  <2> QED
    BY <2>1, <2>2, TextsFree DEF Sound
<1> QED
  BY <1>1, <1>2, <1>4 DEF Sound

LEMMA PreservedDeleteItem ==
  ASSUME Sound, NEW c \in Lists, NEW item \in live, DeleteItem(c, item)
  PROVE  Sound'
<1>1. Trees'
  BY TreesDeleteItem DEF Sound
<1> DEFINE S == Subtree(item)
           l == Detached(Links, c, item)
<1>2. Free(S, l, Names) /\ ret' = "ok"
  BY DEF DeleteItem
<1>3. S \in SUBSET live
  BY SubtreeWhole DEF Sound
<1>4. Texts'
  <2>1. Accounted(live, kind, ref, Names) /\ Names.name = name /\ Names.const = const
    BY DEF Sound, Texts, Names
  <2> HIDE DEF S, l
  <2> QED
    BY <1>2, <1>3, <2>1, TextsFree DEF Sound
<1> QED
  BY <1>1, <1>2, <1>4 DEF Sound

\* n takes the place of item under its own name or a new one.
LEMMA PreservedReplaced ==
  ASSUME Sound, NEW c \in Lists, NEW item \in live, owner[item] = c, NEW n \in Takeable(c),
         n # item, NEW nm, Accounted(live, kind, ref, nm),
         \A x \in live \ {n} : x \in Named(live, nm.name, nm.const)
                               <=> x \in Named(live, name, const),
         Free(Subtree(item), Replaced(Links, c, item, n), nm), ret' = "ok"
  PROVE  Sound'
<1>1. Trees'
  BY TreesReplace DEF Sound
<1> DEFINE S == Subtree(item)
           l == Replaced(Links, c, item, n)
<1>2. S \in SUBSET live /\ n \notin S
  <2>1. /\ S \in SUBSET live
        /\ \A m \in live \ {item} : m \in S <=> owner[m] \in S
    BY SubtreeWhole DEF Sound
  <2>2. n \in live /\ owner[n] = NULL /\ NULL \notin live
    BY JsonTreeAssumption DEF Takeable, Held, Roots, Sound, Trees
  <2> QED
    BY <2>1, <2>2
<1>3. \A x \in S : x \in Named(live, nm.name, nm.const) <=> x \in Named(live, name, const)
  BY <1>2
<1>4. Free(S, l, nm)
  OBVIOUS
<1> HIDE DEF S, l
<1>5. Texts'
  BY <1>2, <1>3, <1>4, TextsFree DEF Sound
<1> QED
  BY <1>1, <1>5 DEF Sound

LEMMA PreservedReplaceItem ==
  ASSUME Sound, NEW c \in Lists, NEW item \in live,
         NEW n, n \in Takeable(c) \/ n = item, ReplaceItem(c, item, n)
  PROVE  Sound'
<1>1. CASE item = n
  <2>1. UNCHANGED <<live, kind, ref, links, names>> /\ ret' = "ok"
    BY <1>1 DEF ReplaceItem
  <2> QED
    BY <2>1, TreesSame, TextsSame DEF Sound
<1>2. CASE item # n
  <2>1. /\ owner[item] = c /\ ret' = "ok" /\ n \in Takeable(c)
        /\ Free(Subtree(item), Replaced(Links, c, item, n), Names)
    BY <1>2 DEF ReplaceItem
  <2>2. Accounted(live, kind, ref, Names) /\ Names.name = name /\ Names.const = const
    BY DEF Sound, Texts, Names
  <2> QED
    BY <1>2, <2>1, <2>2, PreservedReplaced
<1> QED
  BY <1>1, <1>2

LEMMA PreservedReplaceNamed ==
  ASSUME Sound, NEW c \in Lists, NEW k \in Name, NEW n \in Takeable(c), NEW b,
         ReplaceNamed(c, k, n, b)
  PROVE  Sound'
<1> DEFINE item == GetObjectItem(c, k, b)
           nm == Renamed(n, k, FALSE)
<1>1. n \in live /\ owner[n] = NULL
  BY DEF Takeable, Held, Roots
<1>2. CASE item = NULL
  <2>1. SetNames(nm) /\ ret' = "failed" /\ UNCHANGED <<live, kind, ref, links>>
    BY <1>2 DEF ReplaceNamed
  <2> QED
    BY <1>1, <2>1, TreesSame, TextsRenamed DEF Sound
<1>3. CASE item # NULL
  <2>1. item \in live /\ owner[item] = c
    BY <1>3, FoundInList DEF Sound
  <2>2. Free(Subtree(item), Replaced(Links, c, item, n), nm) /\ ret' = "ok"
    BY <1>3 DEF ReplaceNamed
  <2>3. Accounted(live, kind, ref, nm)
    BY <1>1, RenamedAccounted DEF Sound
  <2>4. n # item
    BY <1>1, <2>1, JsonTreeAssumption DEF Lists, Sound, Trees
  <2>5. \A x \in live \ {n} : x \in Named(live, nm.name, nm.const)
                              <=> x \in Named(live, name, const)
    <3>1. nm.name = [name EXCEPT ![n] = k] /\ nm.const = const \ {n}
      BY DEF Renamed
    <3>2. live \subseteq Node /\ name \in [Node -> Name \cup {NULL}]
      BY DEF Sound, Trees, Texts, Accounted, Names
    <3> QED
      BY <3>1, <3>2 DEF Named
  <2> HIDE DEF item, nm
  <2> QED
    BY <2>1, <2>2, <2>3, <2>4, <2>5, PreservedReplaced
<1> QED
  BY <1>2, <1>3

LEMMA PreservedAdding ==
  ASSUME Sound, NEW c \in Lists, NEW n, n \in Takeable(c) \/ n = c
  PROVE
    /\ AddItemToArray(c, n) => Sound'
    /\ \A k \in Name, b \in BOOLEAN : AddItemToObject(c, k, n, b) => Sound'
<1>1. ASSUME AddItemToArray(c, n) PROVE Sound'
  <2>1. CASE Fails
    BY <2>1, PreservedFails
  <2>2. CASE ~Fails
    <3>1. /\ c # n /\ SetLinks(Appended(Links, c, n)) /\ ret' = "ok"
          /\ UNCHANGED <<live, kind, ref, names>>
      BY <1>1, <2>2 DEF AddItemToArray
    <3>2. n \in Takeable(c)
      BY <3>1
    <3> QED
      BY <3>1, <3>2, TreesAppend, TextsSame DEF Sound
  <2> QED
    BY <2>1, <2>2
<1>2. ASSUME NEW k \in Name, NEW b \in BOOLEAN, AddItemToObject(c, k, n, b) PROVE Sound'
  <2>1. CASE Fails
    BY <2>1, PreservedFails
  <2>2. CASE ~Fails
    <3>1. /\ c # n /\ SetLinks(Appended(Links, c, n)) /\ SetNames(Renamed(n, k, b))
          /\ ret' = "ok" /\ UNCHANGED <<live, kind, ref>>
      BY <1>2, <2>2 DEF AddItemToObject
    <3>2. n \in Takeable(c) /\ n \in live
      BY <3>1 DEF Takeable, Held, Roots
    <3> QED
      BY <3>1, <3>2, TreesAppend, TextsRenamed DEF Sound
  <2> QED
    BY <2>1, <2>2
<1> QED
  BY <1>1, <1>2

LEMMA PreservedRenamingFails ==
  ASSUME Sound, NEW n \in live, RenamingFails(n)
  PROVE  Sound'
<1>1. UNCHANGED <<live, kind, ref, links>> /\ ret' = "failed"
  BY DEF RenamingFails
<1> QED
  BY <1>1, TreesSame, TextsRenamingFails DEF Sound

LEMMA PreservedInsert ==
  ASSUME Sound, NEW c \in Lists, NEW after \in live, NEW n \in Takeable(c),
         InsertItemInArray(c, after, n)
  PROVE  Sound'
BY TreesInsert, TextsSame DEF Sound, InsertItemInArray

LEMMA PreservedNamed ==
  ASSUME Sound, NEW c \in Lists, NEW k, NEW b, DetachNamed(c, k, b) \/ DeleteNamed(c, k, b)
  PROVE  Sound'
<1> DEFINE item == GetObjectItem(c, k, b)
<1>1. CASE item = NULL
  <2>1. Fails
    BY <1>1 DEF DetachNamed, DeleteNamed
  <2> QED
    BY <2>1, PreservedFails
<1>2. CASE item # NULL
  <2>1. item \in live
    BY <1>2, FoundInList DEF Sound
  <2>2. Detach(c, item) \/ DeleteItem(c, item)
    BY <1>2 DEF DetachNamed, DeleteNamed
  <2> HIDE DEF item
  <2> QED
    BY <2>1, <2>2, PreservedDetach, PreservedDeleteItem
<1> QED
  BY <1>1, <1>2

LEMMA Preserved ==
  ASSUME Sound, [Next]_vars
  PROVE  Sound'
<1>0. CASE UNCHANGED vars
  <2>1. UNCHANGED <<live, kind, ref, links, names, ret>>
    BY <1>0 DEF vars, links, names
  <2> QED
    BY <2>1, TreesSame, TextsSame DEF Sound
<1>1. CASE \E n \in Node \ live :
       \/ CreateTextFails(n)
       \/ \E k \in Kind : Create(n, k)
       \/ \E c \in Lists, k \in Name, what \in Kind : AddNewToObject(c, k, n, what)
       \/ \E what \in Kind : AddNewToObjectFails(n, what)
       \/ \E x \in Node \ live : CreateArrayFails(n, x)
       \/ \E x, y \in Node \ live, k \in Kind : CreateArrayOf(n, x, y, k)
       \/ \E k \in Kind, to \in live : CreateReferenceTo(n, k, to)
       \/ \E c \in Lists, k \in Name \cup {NULL}, m \in live : AddReference(c, k, n, m)
       \/ \E m \in live : AddReferenceFails(n, m)
  BY <1>1, PreservedMaking
<1>2. CASE \E n \in Held : Delete(n)
  BY <1>2, PreservedDelete DEF Held
<1>3. ASSUME NEW c \in Lists, NEW item \in live, Detach(c, item) \/ DeleteItem(c, item)
      PROVE  Sound'
  BY <1>3, PreservedDetach, PreservedDeleteItem
<1>4. ASSUME NEW c \in Lists, NEW k \in Name, NEW b \in BOOLEAN,
             DetachNamed(c, k, b) \/ DeleteNamed(c, k, b)
      PROVE  Sound'
  BY <1>4, PreservedNamed
<1>5. ASSUME NEW c \in Lists, NEW n \in Takeable(c),
             \/ AddItemToArray(c, n) \/ RenamingFails(n)
             \/ \E k \in Name, b \in BOOLEAN :
                  AddItemToObject(c, k, n, b) \/ ReplaceNamed(c, k, n, b)
             \/ \E m \in live : InsertItemInArray(c, m, n) \/ ReplaceItem(c, m, n)
      PROVE  Sound'
  <2>1. n \in live
    BY DEF Takeable, Held, Roots
  <2>2. CASE AddItemToArray(c, n) \/ \E k \in Name, b \in BOOLEAN : AddItemToObject(c, k, n, b)
    BY <2>2, PreservedAdding
  <2>3. CASE RenamingFails(n)
    BY <2>1, <2>3, PreservedRenamingFails
  <2>4. CASE \E k \in Name, b \in BOOLEAN : ReplaceNamed(c, k, n, b)
    BY <2>4, PreservedReplaceNamed
  <2>5. CASE \E m \in live : InsertItemInArray(c, m, n) \/ ReplaceItem(c, m, n)
    BY <2>5, PreservedInsert, PreservedReplaceItem
  <2> QED
    BY <1>5, <2>2, <2>3, <2>4, <2>5
<1>6. ASSUME NEW c \in Lists,
             \/ AddItemToArray(c, c) \/ \E m \in live : ReplaceItem(c, m, m)
             \/ \E k \in Name, b \in BOOLEAN : AddItemToObject(c, k, c, b)
      PROVE  Sound'
  BY <1>6, PreservedAdding, PreservedReplaceItem
<1>7. CASE Fails
  BY <1>7, PreservedFails
<1> QED
  BY <1>0, <1>1, <1>2, <1>3, <1>4, <1>5, <1>6, <1>7 DEF Next, Calls

-----------------------------------------------------------------------------
(* What failed calls leave allocated.                                        *)

\* A step leaves what was lost as it is, and loses only copies without a name.
Copies(S) == \A n \in S : n \in ref' /\ owner'[n] = NULL /\ name'[n] = NULL
Safe == Copies(lost) /\ (ret' = "failed" => Copies(live' \ live))

\* What is in no list stays in none, except for the item put into one.
LEMMA OwnersKept ==
  ASSUME NEW l \in LinkRecords, NEW c, NEW x, NEW n,
         NEW m \in Node, m # n, l.owner[m] = NULL
  PROVE  /\ Appended(l, c, n).owner[m] = NULL
         /\ Inserted(l, c, x, n).owner[m] = NULL
         /\ Detached(l, c, x).owner[m] = NULL
         /\ Replaced(l, c, x, n).owner[m] = NULL
<1>0. l.owner \in [Node -> MaybeNode]
  BY DEF LinkRecords
<1>1. Appended(l, c, n).owner \in {l.owner, [l.owner EXCEPT ![n] = c]}
  BY DEF Appended, LinkRecords
<1>2. Inserted(l, c, x, n).owner = [l.owner EXCEPT ![n] = c]
  BY DEF Inserted, LinkRecords
<1>3. Detached(l, c, x).owner = [l.owner EXCEPT ![x] = NULL]
  BY DEF Detached, LinkRecords
<1>4. Replaced(l, c, x, n).owner = [[l.owner EXCEPT ![n] = c] EXCEPT ![x] = NULL]
  BY DEF Replaced, LinkRecords
<1> QED
  BY <1>0, <1>1, <1>2, <1>3, <1>4

\* What the invariant says of the lost items.
LEMMA LostApart ==
  ASSUME IInv, NEW m \in lost
  PROVE  /\ m \in ref /\ m \in live /\ m \in Node /\ owner[m] = NULL /\ name[m] = NULL
         /\ m \notin Held
         /\ Links \in LinkRecords /\ Links.owner[m] = NULL /\ Names.name[m] = NULL
<1>1. m \in ref /\ owner[m] = NULL /\ name[m] = NULL
  BY DEF IInv, Leaks
<1>2. m \in live /\ m \in Node /\ Links \in LinkRecords
  BY <1>1, TreesShape DEF IInv, Sound, Trees, Shape, Typed
<1> QED
  BY <1>1, <1>2 DEF Held, Links, Names

\* They are below no item that the callers have or that is in a list.
LEMMA LostNotBelow ==
  ASSUME IInv, NEW m \in lost, NEW n \in live, n \in Held \/ owner[n] # NULL
  PROVE  m \notin Subtree(n)
<1>1. /\ m \in live /\ owner[m] = NULL /\ m # n
  BY LostApart
<1>2. Subtree(n) \subseteq live /\ \A x \in live \ {n} : x \in Subtree(n) <=> owner[x] \in Subtree(n)
  BY SubtreeWhole DEF IInv, Sound
<1>3. NULL \notin live
  BY JsonTreeAssumption DEF IInv, Sound, Trees
<1> HIDE DEF Subtree
<1> QED
  BY <1>1, <1>2, <1>3

LEMMA SafeFree ==
  ASSUME IInv, NEW S \in SUBSET live, NEW l, NEW nm, Free(S, l, nm),
         \A m \in lost : m \notin S /\ l.owner[m] = NULL /\ nm.name[m] = NULL
  PROVE  Safe
<1>1. /\ live' = live \ S /\ ref' = ref \ S
      /\ owner' = [n \in Node |-> IF n \in S THEN NULL ELSE l.owner[n]]
      /\ name' = [n \in Node |-> IF n \in S THEN NULL ELSE nm.name[n]]
  BY DEF Free, SetLinks, SetNames
<1>2. \A m \in lost : m \in ref /\ m \in Node
  BY LostApart
<1> QED
  BY <1>1, <1>2 DEF Safe, Copies

\* Calls that make items.
LEMMA SafeMaking ==
  ASSUME IInv, NEW n \in Node \ live,
         \/ CreateTextFails(n)
         \/ \E k \in Kind : Create(n, k)
         \/ \E c \in Lists, k \in Name, what \in Kind : AddNewToObject(c, k, n, what)
         \/ \E what \in Kind : AddNewToObjectFails(n, what)
         \/ \E x \in Node \ live : CreateArrayFails(n, x)
         \/ \E x, y \in Node \ live, k \in Kind : CreateArrayOf(n, x, y, k)
         \/ \E k \in Kind, to \in live : CreateReferenceTo(n, k, to)
         \/ \E c \in Lists, k \in Name \cup {NULL}, m \in live : AddReference(c, k, n, m)
         \/ \E m \in live : AddReferenceFails(n, m)
  PROVE  Safe
<1>0. /\ \A m \in lost : /\ m \in ref /\ m \in live /\ m \in Node
                         /\ owner[m] = NULL /\ name[m] = NULL /\ m # n
      /\ owner[n] = NULL /\ name[n] = NULL /\ owner \in [Node -> MaybeNode]
      /\ name \in [Node -> Name \cup {NULL}]
  BY LostApart, TreesShape DEF Shape, Clear, IInv, Sound, Texts, Accounted, Names
<1>1. CASE \/ CreateTextFails(n)
           \/ \E what \in Kind : AddNewToObjectFails(n, what)
           \/ \E x \in Node \ live : CreateArrayFails(n, x)
  <2>1. UNCHANGED <<live, ref, name, owner>>
    BY <1>1, TreesCreateTextFails, TreesAddNewFails, TreesCreateArrayFails
    DEF CreateTextFails, AddNewToObjectFails, CreateArrayFails, names, links, IInv, Sound
  <2> QED
    BY <1>0, <2>1 DEF Safe, Copies
<1>2. CASE \/ \E k \in Kind : Create(n, k)
           \/ \E k \in Kind, to \in live : CreateReferenceTo(n, k, to)
  <2>1. ref \subseteq ref' /\ UNCHANGED <<name, owner>> /\ ret' = "ok"
    BY <1>2 DEF Create, CreateReferenceTo, links, names
  <2> QED
    BY <1>0, <2>1 DEF Safe, Copies
<1>3. CASE \E x, y \in Node \ live, k \in Kind : CreateArrayOf(n, x, y, k)
  <2> PICK x \in Node \ live, y \in Node \ live, k \in Kind : CreateArrayOf(n, x, y, k)
    BY <1>3
  <2>1. /\ ref' = ref /\ name' = name /\ ret' = "ok"
        /\ owner' = [owner EXCEPT ![x] = n, ![y] = n]
    BY DEF CreateArrayOf, SetLinks, Links
  <2> QED
    BY <1>0, <2>1 DEF Safe, Copies
<1>4. CASE \E c \in Lists, k \in Name, what \in Kind : AddNewToObject(c, k, n, what)
  <2> PICK c \in Lists, k \in Name, what \in Kind : AddNewToObject(c, k, n, what)
    BY <1>4
  <2>1. /\ ref' = ref /\ name' = [name EXCEPT ![n] = k] /\ ret' = "ok"
        /\ owner' = Appended(Links, c, n).owner
    BY DEF AddNewToObject, SetLinks
  <2>2. \A m \in lost : owner'[m] = NULL
    BY <1>0, <2>1, LostApart, OwnersKept
  <2> QED
    BY <1>0, <2>1, <2>2 DEF Safe, Copies
<1>5. CASE \E c \in Lists, k \in Name \cup {NULL}, m \in live : AddReference(c, k, n, m)
  <2> PICK c \in Lists, k \in Name \cup {NULL}, m \in live : AddReference(c, k, n, m)
    BY <1>5
  <2> DEFINE l == [Links EXCEPT !.child[n] = child[m]]
  <2>1. /\ ref' = ref \cup {n} /\ name' = [name EXCEPT ![n] = k] /\ ret' = "ok"
        /\ owner' = Appended(l, c, n).owner
    BY DEF AddReference, SetLinks
  <2>2. l \in LinkRecords /\ l.owner = owner
    <3>1. /\ next \in [Node -> MaybeNode] /\ prev \in [Node -> MaybeNode]
          /\ child \in [Node -> MaybeNode] /\ m \in Node
      BY TreesShape DEF IInv, Sound, Trees
    <3>2. [child EXCEPT ![n] = child[m]] \in [Node -> MaybeNode]
      BY <3>1
    <3>3. l = [next |-> next, prev |-> prev, child |-> [child EXCEPT ![n] = child[m]],
               owner |-> owner]
      BY DEF Links
    <3> QED
      BY <1>0, <3>1, <3>2, <3>3 DEF LinkRecords
  <2> HIDE DEF l
  <2>3. \A i \in lost : owner'[i] = NULL
    BY <1>0, <2>1, <2>2, OwnersKept
  <2> QED
    BY <1>0, <2>1, <2>3 DEF Safe, Copies
<1>6. CASE \E m \in live : AddReferenceFails(n, m)
  <2>1. live' = live \cup {n} /\ ref' = ref \cup {n} /\ UNCHANGED <<name, owner>>
    BY <1>6 DEF AddReferenceFails
  <2> QED
    BY <1>0, <2>1 DEF Safe, Copies
<1> QED
  BY <1>1, <1>2, <1>3, <1>4, <1>5, <1>6

\* Calls on items the callers have or that are in lists.
LEMMA SafeSame ==
  ASSUME IInv, UNCHANGED <<live, ref, name, owner>>
  PROVE  Safe
<1>1. \A m \in lost : m \in ref /\ owner[m] = NULL /\ name[m] = NULL
  BY LostApart
<1> QED
  BY <1>1 DEF Safe, Copies

LEMMA SafeTaking ==
  ASSUME IInv, NEW c \in Lists, NEW item \in live, Detach(c, item) \/ DeleteItem(c, item)
  PROVE  Safe
<1> DEFINE l == Detached(Links, c, item)
<1>1. \A m \in lost : m \in ref /\ l.owner[m] = NULL /\ name[m] = NULL /\ Names.name[m] = NULL
  <2> TAKE m \in lost
  <2>1. \E n : m # n
    BY JsonTreeAssumption, LostApart
  <2> QED
    BY <2>1, LostApart, OwnersKept
<1>2. owner[item] = c /\ c # NULL
  BY JsonTreeAssumption DEF Detach, DeleteItem, Lists, IInv, Sound, Trees
<1>3. CASE Detach(c, item)
  <2>1. ref' = ref /\ name' = name /\ owner' = l.owner /\ ret' = "ok"
    BY <1>3 DEF Detach, SetLinks, names
  <2> HIDE DEF l
  <2> QED
    BY <1>1, <2>1 DEF Safe, Copies
<1>4. CASE DeleteItem(c, item)
  <2> DEFINE S == Subtree(item)
  <2>1. Free(S, l, Names)
    BY <1>4 DEF DeleteItem
  <2>2. S \in SUBSET live /\ \A m \in lost : m \notin S
    BY <1>2, LostNotBelow, SubtreeWhole DEF IInv, Sound
  <2> HIDE DEF S, l
  <2> QED
    BY <1>1, <2>1, <2>2, SafeFree
<1> QED
  BY <1>3, <1>4

LEMMA SafeDelete ==
  ASSUME IInv, NEW n \in Held, Delete(n)
  PROVE  Safe
<1> DEFINE S == Subtree(n)
           l == Links
           nm == Names
<1>1. Free(S, l, nm)
  BY DEF Delete
<1>2. n \in live
  BY DEF Held, Roots
<1>3. S \in SUBSET live /\ \A m \in lost : m \notin S
  BY <1>2, LostNotBelow, SubtreeWhole DEF IInv, Sound
<1>4. \A m \in lost : l.owner[m] = NULL /\ nm.name[m] = NULL
  BY LostApart
<1> HIDE DEF S, l, nm
<1> QED
  BY <1>1, <1>3, <1>4, SafeFree

\* An item of the callers goes into a list, under its own name or a new one.
LEMMA SafePutting ==
  ASSUME IInv, NEW n \in Held, NEW l, NEW nm,
         \A m \in lost : m # n => l.owner[m] = NULL /\ nm.name[m] = NULL
  PROVE  /\ owner' = l.owner /\ name' = nm.name /\ UNCHANGED <<live, ref>> => Safe
         /\ \A item \in live : owner[item] # NULL /\ Free(Subtree(item), l, nm) => Safe
<1>1. \A m \in lost : m \in ref /\ l.owner[m] = NULL /\ nm.name[m] = NULL
  BY LostApart
<1>2. ASSUME owner' = l.owner, name' = nm.name, UNCHANGED <<live, ref>> PROVE Safe
  BY <1>1, <1>2 DEF Safe, Copies
<1>3. ASSUME NEW item \in live, owner[item] # NULL, Free(Subtree(item), l, nm) PROVE Safe
  <2> DEFINE S == Subtree(item)
  <2>1. S \in SUBSET live /\ \A m \in lost : m \notin S
    BY <1>3, LostNotBelow, SubtreeWhole DEF IInv, Sound
  <2>2. Free(S, l, nm)
    BY <1>3
  <2> HIDE DEF S
  <2> QED
    BY <1>1, <2>1, <2>2, SafeFree
<1> QED
  BY <1>2, <1>3

LEMMA SafeFails ==
  ASSUME IInv, Fails
  PROVE  Safe
BY SafeSame DEF Fails, links, names

LEMMA SafeAdding ==
  ASSUME IInv, NEW c \in Lists, NEW n \in Takeable(c),
         \/ AddItemToArray(c, n) \/ RenamingFails(n)
         \/ \E k \in Name, b \in BOOLEAN :
              AddItemToObject(c, k, n, b) \/ ReplaceNamed(c, k, n, b)
         \/ \E m \in live : InsertItemInArray(c, m, n) \/ ReplaceItem(c, m, n)
  PROVE  Safe
<1>1. n \in Held /\ c # NULL
  BY JsonTreeAssumption DEF Takeable, Lists, IInv, Sound, Trees
<1>2. \A m \in lost : m # n =>
        /\ Appended(Links, c, n).owner[m] = NULL
        /\ \A x : /\ Inserted(Links, c, x, n).owner[m] = NULL
                  /\ Replaced(Links, c, x, n).owner[m] = NULL
        /\ Links.owner[m] = NULL /\ Names.name[m] = NULL
        /\ \A k, b : Renamed(n, k, b).name[m] = NULL
  <2> SUFFICES ASSUME NEW m \in lost, m # n
               PROVE  /\ Appended(Links, c, n).owner[m] = NULL
                      /\ \A x : /\ Inserted(Links, c, x, n).owner[m] = NULL
                                /\ Replaced(Links, c, x, n).owner[m] = NULL
                      /\ Links.owner[m] = NULL /\ Names.name[m] = NULL
                      /\ \A k, b : Renamed(n, k, b).name[m] = NULL
    OBVIOUS
  <2>1. Links.owner[m] = NULL /\ Names.name[m] = NULL
    BY LostApart
  <2>2. /\ Appended(Links, c, n).owner[m] = NULL
        /\ \A x : /\ Inserted(Links, c, x, n).owner[m] = NULL
                  /\ Replaced(Links, c, x, n).owner[m] = NULL
    BY LostApart, OwnersKept
  <2>3. name \in [Node -> Name \cup {NULL}] /\ m \in Node /\ name[m] = NULL
    BY LostApart DEF IInv, Sound, Texts, Accounted, Names
  <2>4. ASSUME NEW k, NEW b PROVE Renamed(n, k, b).name[m] = NULL
    <3>1. Renamed(n, k, b).name = [name EXCEPT ![n] = k]
      BY DEF Renamed
    <3> QED
      BY <2>3, <3>1
  <2> QED
    BY <2>1, <2>2, <2>4
<1>3. CASE Fails
  BY <1>3, SafeFails
<1>4. CASE ~Fails /\ AddItemToArray(c, n)
  <2> DEFINE l == Appended(Links, c, n)
  <2>1. owner' = l.owner /\ name' = Names.name /\ UNCHANGED <<live, ref>>
    BY <1>4 DEF AddItemToArray, SetLinks, Names, names
  <2>2. \A m \in lost : m # n => l.owner[m] = NULL /\ Names.name[m] = NULL
    BY <1>2
  <2> HIDE DEF l
  <2> QED
    BY <1>1, <2>1, <2>2, SafePutting
<1>5. CASE RenamingFails(n)
  <2> DEFINE nm == [Names EXCEPT !.name = name']
  <2>1. owner' = Links.owner /\ name' = nm.name /\ UNCHANGED <<live, ref>>
    BY <1>5 DEF RenamingFails, Links, Names, links
  <2>2. \A m \in lost : m # n => Links.owner[m] = NULL /\ nm.name[m] = NULL
    <3>1. nm.name = [name EXCEPT ![n] = NULL]
      BY <1>5 DEF RenamingFails, Names
    <3> QED
      BY <1>2, <3>1, LostApart DEF IInv, Sound, Texts, Accounted, Names
  <2> HIDE DEF nm
  <2> QED
    BY <1>1, <2>1, <2>2, SafePutting
<1>6. CASE ~Fails /\ \E k \in Name, b \in BOOLEAN : AddItemToObject(c, k, n, b)
  <2> PICK k \in Name, b \in BOOLEAN : AddItemToObject(c, k, n, b)
    BY <1>6
  <2> DEFINE l == Appended(Links, c, n)
             nm == Renamed(n, k, b)
  <2>1. owner' = l.owner /\ name' = nm.name /\ UNCHANGED <<live, ref>>
    BY <1>6 DEF AddItemToObject, SetLinks, SetNames
  <2>2. \A m \in lost : m # n => l.owner[m] = NULL /\ nm.name[m] = NULL
    BY <1>2
  <2> HIDE DEF l, nm
  <2> QED
    BY <1>1, <2>1, <2>2, SafePutting
<1>7. CASE \E k \in Name, b \in BOOLEAN : ReplaceNamed(c, k, n, b)
  <2> PICK k \in Name, b \in BOOLEAN : ReplaceNamed(c, k, n, b)
    BY <1>7
  <2> DEFINE item == GetObjectItem(c, k, b)
             l == Replaced(Links, c, item, n)
             nm == Renamed(n, k, FALSE)
  <2>1. CASE item = NULL
    <3>1. owner' = Links.owner /\ name' = nm.name /\ UNCHANGED <<live, ref>>
      BY <2>1 DEF ReplaceNamed, SetNames, Links, links
    <3>2. \A m \in lost : m # n => Links.owner[m] = NULL /\ nm.name[m] = NULL
      BY <1>2
    <3> HIDE DEF nm, item
    <3> QED
      BY <1>1, <3>1, <3>2, SafePutting
  <2>2. CASE item # NULL
    <3>1. item \in live /\ owner[item] # NULL
      BY <1>1, <2>2, FoundInList DEF IInv, Sound
    <3>2. Free(Subtree(item), l, nm)
      BY <2>2 DEF ReplaceNamed
    <3>3. \A m \in lost : m # n => l.owner[m] = NULL /\ nm.name[m] = NULL
      BY <1>2
    <3> HIDE DEF nm, item, l
    <3> QED
      BY <1>1, <3>1, <3>2, <3>3, SafePutting
  <2> QED
    BY <2>1, <2>2
<1>8. CASE \E m \in live : InsertItemInArray(c, m, n)
  <2> PICK x \in live : InsertItemInArray(c, x, n)
    BY <1>8
  <2> DEFINE l == Inserted(Links, c, x, n)
  <2>1. owner' = l.owner /\ name' = Names.name /\ UNCHANGED <<live, ref>>
    BY DEF InsertItemInArray, SetLinks, Names, names
  <2>2. \A m \in lost : m # n => l.owner[m] = NULL /\ Names.name[m] = NULL
    BY <1>2
  <2> HIDE DEF l
  <2> QED
    BY <1>1, <2>1, <2>2, SafePutting
<1>9. CASE \E m \in live : ReplaceItem(c, m, n)
  <2> PICK x \in live : ReplaceItem(c, x, n)
    BY <1>9
  <2> DEFINE l == Replaced(Links, c, x, n)
  <2>1. CASE x = n
    <3>1. UNCHANGED <<live, ref, name, owner>>
      BY <2>1 DEF ReplaceItem, links, names
    <3> QED
      BY <3>1, SafeSame
  <2>2. CASE x # n
    <3>1. owner[x] # NULL /\ Free(Subtree(x), l, Names)
      BY <1>1, <2>2 DEF ReplaceItem
    <3>2. \A m \in lost : m # n => l.owner[m] = NULL /\ Names.name[m] = NULL
      BY <1>2
    <3> HIDE DEF l
    <3> QED
      BY <1>1, <3>1, <3>2, SafePutting
  <2> QED
    BY <2>1, <2>2
<1> QED
  BY <1>3, <1>4, <1>5, <1>6, <1>7, <1>8, <1>9

LEMMA SafeCalls ==
  ASSUME IInv, Calls(Name, Kind, TRUE)
  PROVE  Safe
<1>1. CASE Fails
  BY <1>1, SafeFails
<1>2. CASE \E n \in Node \ live :
       \/ CreateTextFails(n)
       \/ \E k \in Kind : Create(n, k)
       \/ \E c \in Lists, k \in Name, what \in Kind : AddNewToObject(c, k, n, what)
       \/ \E what \in Kind : AddNewToObjectFails(n, what)
       \/ \E x \in Node \ live : CreateArrayFails(n, x)
       \/ \E x, y \in Node \ live, k \in Kind : CreateArrayOf(n, x, y, k)
       \/ \E k \in Kind, to \in live : CreateReferenceTo(n, k, to)
       \/ \E c \in Lists, k \in Name \cup {NULL}, m \in live : AddReference(c, k, n, m)
       \/ \E m \in live : AddReferenceFails(n, m)
  BY <1>2, SafeMaking
<1>3. CASE \E n \in Held : Delete(n)
  BY <1>3, SafeDelete
<1>4. ASSUME NEW c \in Lists, NEW item \in live, Detach(c, item) \/ DeleteItem(c, item)
      PROVE  Safe
  BY <1>4, SafeTaking
<1>5. ASSUME NEW c \in Lists, NEW k \in Name, NEW b \in BOOLEAN,
             DetachNamed(c, k, b) \/ DeleteNamed(c, k, b)
      PROVE  Safe
  <2> DEFINE item == GetObjectItem(c, k, b)
  <2>1. CASE item = NULL
    BY <1>5, <2>1, SafeFails DEF DetachNamed, DeleteNamed
  <2>2. CASE item # NULL
    <3>1. item \in live
      BY <2>2, FoundInList DEF IInv, Sound
    <3>2. Detach(c, item) \/ DeleteItem(c, item)
      BY <1>5, <2>2 DEF DetachNamed, DeleteNamed
    <3> HIDE DEF item
    <3> QED
      BY <3>1, <3>2, SafeTaking
  <2> QED
    BY <2>1, <2>2
<1>6. ASSUME NEW c \in Lists, NEW n \in Takeable(c),
             \/ AddItemToArray(c, n) \/ RenamingFails(n)
             \/ \E k \in Name, b \in BOOLEAN :
                  AddItemToObject(c, k, n, b) \/ ReplaceNamed(c, k, n, b)
             \/ \E m \in live : InsertItemInArray(c, m, n) \/ ReplaceItem(c, m, n)
      PROVE  Safe
  BY <1>6, SafeAdding
<1>7. ASSUME NEW c \in Lists,
             \/ AddItemToArray(c, c) \/ \E m \in live : ReplaceItem(c, m, m)
             \/ \E k \in Name, b \in BOOLEAN : AddItemToObject(c, k, c, b)
      PROVE  Safe
  <2>1. Fails \/ UNCHANGED <<live, kind, ref, links, names>>
    BY <1>7 DEF AddItemToArray, AddItemToObject, ReplaceItem
  <2> QED
    BY <2>1, SafeFails, SafeSame DEF links, names
<1> QED
  BY <1>1, <1>2, <1>3, <1>4, <1>5, <1>6, <1>7 DEF Calls

\* Every step keeps both parts of the inductive invariant.
LEMMA StepKeeps ==
  ASSUME IInv, [Next]_vars
  PROVE  IInv'
<1>1. Sound'
  BY Preserved DEF IInv
<1>2. CASE UNCHANGED vars
  <2>1. Leaks'
    BY <1>2 DEF vars, IInv, Leaks
  <2> QED
    BY <1>1, <2>1 DEF IInv
<1>3. CASE Next
  <2>1. Safe /\ Loses
    BY <1>3, SafeCalls DEF Next
  <2>2. Leaks'
    BY <2>1 DEF Safe, Copies, Loses, Leaks
  <2> QED
    BY <1>1, <2>2 DEF IInv
<1> QED
  BY <1>2, <1>3

-----------------------------------------------------------------------------
\* However items are made, added, inserted, taken out, replaced and deleted, and
\* whichever allocation fails: the links stay those of whole lists (cJSON.c:1966,
\* 2142, 2320), and walking a list meets what was put into it and nothing else.
THEOREM TreesStayIntact == Spec => []Intact
<1>1. Init => IInv
  BY Initially
<1>2. IInv /\ [Next]_vars => IInv'
  BY StepKeeps
<1>3. IInv => Intact
  BY EnoughIntact
<1> QED
  BY <1>1, <1>2, <1>3, PTL DEF Spec

\* Every string allocated for a name or a text belongs to one live item that will
\* free it when it is deleted, whatever is renamed, replaced or shared (cJSON.c:2037,
\* 2359); and whatever call fails wherever, no item stays allocated that nobody has
\* (2147), except the unnamed copy that cJSON_AddItemReferenceToObject drops (2076).
THEOREM NothingIsLeaked == Spec => []NothingLeaks
<1>1. Init => IInv
  BY Initially
<1>2. IInv /\ [Next]_vars => IInv'
  BY StepKeeps
<1>3. IInv => NothingLeaks
  <2>1. IInv => StringsAccounted
    BY Enough DEF IInv
  <2>2. IInv => OnlyReferencesLost
    BY EnoughIntact
  <2> QED
    BY <2>1, <2>2 DEF NothingLeaks
<1> QED
  BY <1>1, <1>2, <1>3, PTL DEF Spec
=============================================================================
