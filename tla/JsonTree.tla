------------------------------- MODULE JsonTree -------------------------------
(***************************************************************************)
(* The trees of cJSON.c: items linked by next, prev and child, where prev  *)
(* of the first item of a list points to the last.  One action per public  *)
(* call that builds or changes a tree; every allocation may fail.          *)
(*                                                                         *)
(* The callers are legal: they pass items that exist, add only items they  *)
(* hold themselves, and never below themselves (one call with array = item *)
(* is refused by the code and is made here).  They do not change a list    *)
(* through a reference to it.  An index is the item found there.           *)
(***************************************************************************)
EXTENDS Naturals, FiniteSets

CONSTANTS Node,   \* the items there is memory for
          Name,   \* names of object members
          Fold,   \* the lower case of each name
          Kind,   \* kinds of item: "list", "text", "plain"
          NULL

ASSUME JsonTreeAssumption ==
  /\ NULL \notin Node /\ NULL \notin Name
  /\ Kind \subseteq {"list", "text", "plain"}

\* Memory is finite.
ASSUME MemoryAssumption == IsFiniteSet(Node)

VARIABLES
  live,     \* items allocated
  kind,     \* "list" (array or object), "text" (has a valuestring), "plain"
  ref,      \* items flagged cJSON_IsReference
  const,    \* items flagged cJSON_StringIsConst
  next, prev, child,
  name,     \* the item's string
  strings,  \* how many strings are allocated
  owner,    \* history: whose list the item is in
  lost,     \* history: items that failed calls left allocated, told to nobody
  ret       \* what the last call returned: "ok" or "failed"

links == <<next, prev, child, owner>>
names == <<name, const, strings>>
vars  == <<live, kind, ref, const, next, prev, child, name, strings, owner, lost,
           ret>>

MaybeNode == Node \cup {NULL}

TypeOK ==
  /\ live \subseteq Node /\ ref \subseteq live /\ const \subseteq live
  /\ kind \in [Node -> {"list", "text", "plain"}]
  /\ next \in [Node -> MaybeNode] /\ prev \in [Node -> MaybeNode]
  /\ child \in [Node -> MaybeNode] /\ owner \in [Node -> MaybeNode]
  /\ name \in [Node -> Name \cup {NULL}]
  /\ strings \in Nat /\ lost \subseteq live
  /\ ret \in {"ok", "failed"}

Init ==
  /\ live = {} /\ ref = {} /\ const = {}
  /\ kind = [n \in Node |-> "plain"]
  /\ next = [n \in Node |-> NULL] /\ prev = next /\ child = next
  /\ owner = next /\ name = next
  /\ strings = 0 /\ lost = {} /\ ret = "ok"

-----------------------------------------------------------------------------
\* Items in no list, those of them the callers hold, and lists they may change.
Roots == {n \in live : owner[n] = NULL}
Held  == Roots \ lost
Lists == {c \in live : kind[c] = "list" /\ c \notin ref}

\* A string the item's deletion frees: its name, its value.
OwnName(n) == IF name[n] # NULL /\ n \notin const THEN 1 ELSE 0
OwnText(n) == IF kind[n] = "text" /\ n \notin ref THEN 1 ELSE 0

\* m and the items that next leads to from there: those in every set that holds
\* m and, with an item, the one after it.
From(m) ==
  LET closed == {S \in SUBSET live :
                   m \in S /\ \A y \in S : next[y] \in S \cup {NULL}}
  IN  {x \in live : \A S \in closed : x \in S}
Members(c) == IF child[c] = NULL THEN {} ELSE From(child[c])

\* The items cJSON_Delete(n) frees, n's own next being NULL: it follows child,
\* except of references, and next.
Freed(n, nx, ch, rf) ==
  LET closed == {S \in SUBSET Node : n \in S /\ \A y \in S :
                   /\ y \notin rf => ch[y] \in S \cup {NULL}
                   /\ y # n => nx[y] \in S \cup {NULL}}
  IN  {x \in Node : \A S \in closed : x \in S}

Subtree(n) == Freed(n, next, child, ref)

\* The items c may take in: the caller's own, and not above c.
Takeable(c) == {n \in Held : c \notin Subtree(n)}

-----------------------------------------------------------------------------
\* The links after a change are computed as a record.
Links == [next |-> next, prev |-> prev, child |-> child, owner |-> owner]
SetLinks(l) ==
  next' = l.next /\ prev' = l.prev /\ child' = l.child /\ owner' = l.owner

\* add_item_to_array.  The last item is found through prev of the first; if
\* that is not set, nothing is added and the call still succeeds.
Appended(l, c, n) == LET first == l.child[c] IN
  IF first = NULL
  THEN [l EXCEPT !.child[c] = n, !.prev[n] = n, !.next[n] = NULL, !.owner[n] = c]
  ELSE IF l.prev[first] = NULL THEN l
  ELSE [l EXCEPT !.next[l.prev[first]] = n, !.prev[n] = l.prev[first],
                 !.prev[first] = n, !.owner[n] = c]

\* cJSON_InsertItemInArray before the item after.
InsertedForgetful(l, c, after, n) ==   \* Mutant: the item before is forgotten
  [l EXCEPT !.next[n] = after, !.prev[n] = l.prev[after], !.prev[after] = n,
            !.child[c] = IF @ = after THEN n ELSE @, !.owner[n] = c]
Inserted(l, c, after, n) ==
  LET m == [l EXCEPT !.next[n] = after, !.prev[n] = l.prev[after],
                     !.prev[after] = n, !.owner[n] = c]
  IN  IF after = l.child[c] THEN [m EXCEPT !.child[c] = n]
      ELSE [m EXCEPT !.next[l.prev[after]] = n]

\* cJSON_DetachItemViaPointer: item leaves the list of c.
DetachedLastForgotten(l, c, item) ==   \* Mutant: prev of the first stays
  LET before == l.prev[item]  after == l.next[item]  first == l.child[c]
      m == [l EXCEPT !.next[before] = IF item # first THEN after ELSE @,
                     !.prev = [x \in Node |-> IF x = after THEN before ELSE @[x]],
                     !.child[c] = IF item = first THEN after ELSE @]
  IN  [m EXCEPT !.next[item] = NULL, !.prev[item] = NULL, !.owner[item] = NULL]
Detached(l, c, item) ==
  LET before == l.prev[item]  after == l.next[item]  first == l.child[c]
      m == [l EXCEPT
        !.next[before] = IF item # first THEN after ELSE @,
        !.prev = [x \in Node |->
          IF x = after \/ (x = first /\ item # first /\ after = NULL)
          THEN before ELSE @[x]],
        !.child[c] = IF item = first THEN after ELSE @]
  IN  [m EXCEPT !.next[item] = NULL, !.prev[item] = NULL, !.owner[item] = NULL]

\* cJSON_ReplaceItemViaPointer: n takes the place of item.
Replaced(l, c, item, n) ==
  LET before == l.prev[item]  after == l.next[item]  first == l.child[c]
      m == [l EXCEPT
        !.next = [x \in Node |->
          IF x = n THEN after
          ELSE IF x = before /\ item # first THEN n ELSE @[x]],
        !.prev = [x \in Node |->
          IF x = n THEN IF item = first /\ before = first THEN n ELSE before
          ELSE IF x = after \/ (x = first /\ item # first /\ after = NULL)
          THEN n ELSE @[x]],
        !.child[c] = IF item = first THEN n ELSE @,
        !.owner[n] = c]
  IN  [m EXCEPT !.next[item] = NULL, !.prev[item] = NULL, !.owner[item] = NULL]

-----------------------------------------------------------------------------
\* The names after a change: n is called k, and its own old name freed.
Names == [name |-> name, const |-> const, strings |-> strings]
RenamedLeaky(n, k, constant) ==        \* Mutant: the old name is not freed
  [name    |-> [name EXCEPT ![n] = k],
   const   |-> IF constant THEN const \cup {n} ELSE const \ {n},
   strings |-> strings + (IF constant THEN 0 ELSE 1)]
Renamed(n, k, constant) ==
  [name    |-> [name EXCEPT ![n] = k],
   const   |-> IF constant THEN const \cup {n} ELSE const \ {n},
   strings |-> strings + (IF constant THEN 0 ELSE 1) - OwnName(n)]
SetNames(nm) ==
  name' = nm.name /\ const' = nm.const /\ strings' = nm.strings

\* cJSON_Delete frees the items of S; links and names are those of the rest.
Free(S, l, nm) ==
  LET clear(f, z) == [n \in Node |-> IF n \in S THEN z ELSE f[n]] IN
  /\ live' = live \ S /\ ref' = ref \ S
  /\ kind' = clear(kind, "plain")
  /\ SetLinks([next |-> clear(l.next, NULL), prev |-> clear(l.prev, NULL),
               child |-> clear(l.child, NULL), owner |-> clear(l.owner, NULL)])
  /\ SetNames([name    |-> clear(nm.name, NULL),
               const   |-> nm.const \ S,
               strings |-> nm.strings - Cardinality({n \in S : OwnName(n) = 1})
                                      - Cardinality({n \in S : OwnText(n) = 1})])

Fails == ret' = "failed" /\ UNCHANGED <<live, kind, ref, links, names>>

-----------------------------------------------------------------------------
\* cJSON_CreateNull, True, False, Bool, Number, Array, Object: one allocation.
\* CreateString and CreateRaw: a second one for the text.
Create(n, k) ==
  /\ n \notin live
  /\ live' = live \cup {n}
  /\ kind' = [kind EXCEPT ![n] = k]
  /\ strings' = strings + (IF k = "text" THEN 1 ELSE 0)
  /\ ret' = "ok"
  /\ UNCHANGED <<ref, const, name, links>>

\* CreateString gets its item but no memory for the text.
CreateTextFails(n) ==
  /\ n \notin live
  /\ live' = (live \cup {n}) \ Freed(n, next, child, ref)
  /\ ret' = "failed"
  /\ UNCHANGED <<kind, ref, names, links>>

\* cJSON_CreateStringReference, CreateArrayReference, CreateObjectReference.
CreateReferenceTo(n, k, to) ==
  /\ n \notin live /\ to \in live
  /\ live' = live \cup {n}
  /\ kind' = [kind EXCEPT ![n] = k]
  /\ ref' = ref \cup {n}
  /\ child' = [child EXCEPT ![n] = IF k = "list" THEN to ELSE NULL]
  /\ ret' = "ok"
  /\ UNCHANGED <<names, next, prev, owner>>

\* cJSON_CreateIntArray and its like, here with two items; prev of the first
\* is set when the last has been made.
CreateArrayOf(a, x, y, k) ==
  /\ Cardinality({a, x, y} \ live) = 3
  /\ live' = live \cup {a, x, y}
  /\ kind' = [kind EXCEPT ![a] = "list", ![x] = k, ![y] = k]
  /\ SetLinks([Links EXCEPT !.child[a] = x, !.next[x] = y, !.prev[y] = x,
                            !.prev[x] = y, !.owner[x] = a, !.owner[y] = a])
  /\ strings' = strings + (IF k = "text" THEN 2 ELSE 0)
  /\ ret' = "ok"
  /\ UNCHANGED <<ref, const, name>>

\* The second item cannot be made: the array is deleted with the first.
CreateArrayFails(a, x) ==
  /\ a # x /\ {a, x} \cap live = {}
  /\ live' = (live \cup {a, x}) \ Freed(a, next, [child EXCEPT ![a] = x], ref)
  /\ ret' = "failed"
  /\ UNCHANGED <<kind, ref, names, links>>

-----------------------------------------------------------------------------
\* cJSON_AddItemToArray, cJSON_InsertItemInArray past the end.
AddItemToArray(c, n) ==
  \/ c = n /\ Fails
  \/ /\ c # n
     /\ SetLinks(Appended(Links, c, n))
     /\ ret' = "ok"
     /\ UNCHANGED <<live, kind, ref, names>>

\* cJSON_AddItemToObject and AddItemToObjectCS; copying the name may fail.
AddItemToObject(c, k, n, constant) ==
  \/ c = n /\ Fails
  \/ ~constant /\ Fails
  \/ /\ c # n
     /\ SetNames(Renamed(n, k, constant))
     /\ SetLinks(Appended(Links, c, n))
     /\ ret' = "ok"
     /\ UNCHANGED <<live, kind, ref>>

\* cJSON_AddNullToObject and its like: a new item under a name.
AddNewToObject(c, k, n, what) ==
  /\ n \notin live
  /\ live' = live \cup {n}
  /\ kind' = [kind EXCEPT ![n] = what]
  /\ name' = [name EXCEPT ![n] = k]
  /\ strings' = strings + 1 + (IF what = "text" THEN 1 ELSE 0)
  /\ SetLinks(Appended(Links, c, n))
  /\ ret' = "ok"
  /\ UNCHANGED <<ref, const>>

\* There is no object or no memory for the name: the item goes again, with its
\* text if the deletion reaches it.
AddNewToObjectFailsForgetful(n, what) ==   \* Mutant: the item is not deleted
  /\ n \notin live
  /\ live' = live \cup {n}
  /\ kind' = [kind EXCEPT ![n] = what]
  /\ strings' = strings + (IF what = "text" THEN 1 ELSE 0)
  /\ ret' = "failed"
  /\ UNCHANGED <<ref, const, name, links>>
AddNewToObjectFails(n, what) ==
  LET freed == Freed(n, next, child, ref)
      text  == IF what = "text" THEN 1 ELSE 0
  IN
  /\ n \notin live
  /\ live' = (live \cup {n}) \ freed
  /\ strings' = strings + text - (IF n \in freed THEN text ELSE 0)
  /\ ret' = "failed"
  /\ UNCHANGED <<kind, ref, const, name, links>>

\* cJSON_AddItemReferenceToArray, and ToObject with a name k: a copy of the
\* item that shares its child and text.
AddReference(c, k, r, n) ==
  /\ r \notin live /\ n \in live
  /\ live' = live \cup {r}
  /\ kind' = [kind EXCEPT ![r] = kind[n]]
  /\ ref' = ref \cup {r}
  /\ const' = IF n \in const /\ k = NULL THEN const \cup {r} ELSE const
  /\ name' = [name EXCEPT ![r] = k]
  /\ strings' = strings + (IF k = NULL THEN 0 ELSE 1)
  /\ SetLinks(Appended([Links EXCEPT !.child[r] = child[n]], c, r))
  /\ ret' = "ok"

\* There is no memory for the name: the copy stays, in no list.
AddReferenceFails(r, n) ==
  /\ r \notin live /\ n \in live
  /\ live' = live \cup {r}
  /\ kind' = [kind EXCEPT ![r] = kind[n]]
  /\ ref' = ref \cup {r}
  /\ const' = IF n \in const THEN const \cup {r} ELSE const
  /\ child' = [child EXCEPT ![r] = child[n]]
  /\ ret' = "failed"
  /\ UNCHANGED <<next, prev, owner, name, strings>>

\* cJSON_InsertItemInArray before an item of the list.
InsertItemInArray(c, after, n) ==
  /\ owner[after] = c
  /\ SetLinks(Inserted(Links, c, after, n))
  /\ ret' = "ok"
  /\ UNCHANGED <<live, kind, ref, names>>

-----------------------------------------------------------------------------
\* get_object_item: the first item whose name fits.  The search for the exact
\* name stops at an item without a name.
Fits(m, k, exact) ==
  name[m] # NULL /\ IF exact THEN name[m] = k ELSE Fold[name[m]] = Fold[k]

GetObjectItem(c, k, exact) ==
  LET fit == {m \in Members(c) : Fits(m, k, exact) /\
        \A j \in Members(c) \ {m} : m \in From(j) =>
          ~Fits(j, k, exact) /\ (exact => name[j] # NULL)}
  IN  IF fit = {} THEN NULL ELSE CHOOSE m \in fit : TRUE

\* cJSON_DetachItemViaPointer, DetachItemFromArray.
Detach(c, item) ==
  /\ owner[item] = c
  /\ SetLinks(Detached(Links, c, item))
  /\ ret' = "ok"
  /\ UNCHANGED <<live, kind, ref, names>>

\* cJSON_DeleteItemFromArray.
DeleteItem(c, item) ==
  /\ owner[item] = c
  /\ Free(Subtree(item), Detached(Links, c, item), Names)
  /\ ret' = "ok"

\* cJSON_DetachItemFromObject and DeleteItemFromObject.
DetachNamed(c, k, exact) == LET item == GetObjectItem(c, k, exact) IN
  IF item = NULL THEN Fails ELSE Detach(c, item)
DeleteNamed(c, k, exact) == LET item == GetObjectItem(c, k, exact) IN
  IF item = NULL THEN Fails ELSE DeleteItem(c, item)

\* cJSON_Delete of an item the caller holds.
Delete(n) ==
  /\ Free(Subtree(n), Links, Names)
  /\ ret' = "ok"

\* cJSON_ReplaceItemViaPointer, ReplaceItemInArray: item is deleted.
ReplaceItem(c, item, n) ==
  /\ owner[item] = c
  /\ \/ item = n /\ UNCHANGED <<live, kind, ref, links, names>>
     \/ item # n /\ Free(Subtree(item), Replaced(Links, c, item, n), Names)
  /\ ret' = "ok"

\* cJSON_ReplaceItemInObject: n is renamed before the item is looked for, and
\* loses its name if there is no memory for the new one.
ReplaceNamed(c, k, n, exact) == LET item == GetObjectItem(c, k, exact) IN
  IF item = NULL
  THEN /\ SetNames(Renamed(n, k, FALSE))
       /\ ret' = "failed"
       /\ UNCHANGED <<live, kind, ref, links>>
  ELSE /\ Free(Subtree(item), Replaced(Links, c, item, n), Renamed(n, k, FALSE))
       /\ ret' = "ok"
RenamingFails(n) ==
  /\ name' = [name EXCEPT ![n] = NULL]
  /\ strings' = strings - OwnName(n)
  /\ ret' = "failed"
  /\ UNCHANGED <<live, kind, ref, const, links>>

-----------------------------------------------------------------------------
\* The calls with names from ns, items of the kinds ks, and references if refs.
\* Fails: there is no memory for the first item, or none is given.
Calls(ns, ks, refs) ==
  \/ Fails
  \/ \E n \in Node \ live :
       \/ CreateTextFails(n)
       \/ \E k \in ks : Create(n, k)
       \/ \E c \in Lists, k \in ns, what \in ks : AddNewToObject(c, k, n, what)
       \/ \E what \in ks : AddNewToObjectFails(n, what)
       \/ \E x \in Node \ live : CreateArrayFails(n, x)
       \/ \E x, y \in Node \ live, k \in ks : CreateArrayOf(n, x, y, k)
       \/ refs /\ \E k \in ks, to \in live \ lost : CreateReferenceTo(n, k, to)
       \/ refs /\ \E c \in Lists, k \in ns \cup {NULL}, m \in live \ lost :
                    AddReference(c, k, n, m)
       \/ refs /\ ns # {} /\ \E m \in live \ lost : AddReferenceFails(n, m)
  \/ \E n \in Held : Delete(n)
  \/ \E c \in Lists :
       \/ \E item \in live : Detach(c, item) \/ DeleteItem(c, item)
       \/ \E k \in ns, b \in BOOLEAN : DetachNamed(c, k, b) \/ DeleteNamed(c, k, b)
       \/ \E n \in Takeable(c) :
            \/ AddItemToArray(c, n) \/ RenamingFails(n)
            \/ \E k \in ns, b \in BOOLEAN :
                 AddItemToObject(c, k, n, b) \/ ReplaceNamed(c, k, n, b)
            \/ \E m \in live : InsertItemInArray(c, m, n) \/ ReplaceItem(c, m, n)
       \/ AddItemToArray(c, c) \/ \E m \in live : ReplaceItem(c, m, m)
       \/ \E k \in ns, b \in BOOLEAN : AddItemToObject(c, k, c, b)

Loses == lost' = lost \cup (IF ret' = "failed" THEN live' \ live ELSE {})

Next == Calls(Name, Kind, TRUE) /\ Loses

Spec == Init /\ [][Next]_vars

-----------------------------------------------------------------------------
\* The lists stay in order whatever is added, taken out or exchanged where:
\* next and prev agree, only the last item has no next, and the first knows
\* the last (cJSON.c:1966, 2320), on which every append depends.
WellLinked ==
  \A n \in live :
    IF owner[n] = NULL THEN next[n] = NULL /\ prev[n] = NULL
    ELSE LET c == owner[n] IN
      /\ c \in Lists /\ child[c] \in live /\ owner[child[c]] = c
      /\ prev[n] \in live /\ owner[prev[n]] = c
      /\ IF n = child[c] THEN next[prev[n]] = NULL ELSE next[prev[n]] = n
      /\ next[n] # NULL => next[n] \in live /\ owner[next[n]] = c
                           /\ prev[next[n]] = n /\ next[n] # child[c]

\* Walking a list from its child meets every item put into it and nothing
\* else (cJSON.c:1851): nothing is lost in a list, shared, or left behind.
ListsComplete ==
  \A c \in Lists : Members(c) = {n \in live : owner[n] = c}

\* The trees are whole, whatever calls made them in whatever order.
Intact == TypeOK /\ WellLinked /\ ListsComplete

\* Every string allocated is the name or the text of one live item that frees
\* it when it is deleted: none is left when a name is replaced (cJSON.c:2037,
\* 2359) or a call fails halfway (2147), none is freed twice or through a
\* reference.  Of the live items those in lost are deleted by nobody.
StringsAccounted ==
  strings = Cardinality({n \in live : OwnName(n) = 1})
          + Cardinality({n \in live : OwnText(n) = 1})

\* A call that fails halfway leaves nothing allocated but one thing: the copy
\* that cJSON_AddItemReferenceToObject drops when there is no memory for its
\* name (cJSON.c:2076, 2028).  That copy has no string, is in no list and is
\* freed by nobody.
OnlyReferencesLost ==
  \A n \in lost : n \in ref /\ owner[n] = NULL /\ name[n] = NULL

\* The memory of a tree: no string and, but for that copy, no item is left
\* behind by any call, whichever of its allocations fails.
NothingLeaks == StringsAccounted /\ OnlyReferencesLost
=============================================================================
