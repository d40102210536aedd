------------------------------ MODULE JsonPatch ------------------------------
(***************************************************************************)
(* cJSON_Utils.c: pointers into documents (RFC 6901), patches (RFC 6902)    *)
(* and merge patches (RFC 7386).  A pointer is the sequence of its tokens,  *)
(* each a sequence of characters as written, with ~0 and ~1 for ~ and /.    *)
(* Memory is enough here, and every pointer is empty or begins with a /.    *)
(***************************************************************************)
EXTENDS JsonItem

LOCAL INSTANCE SequencesExt
LOCAL INSTANCE FiniteSetsExt

\* The characters of names, as strcmp and the digits need them.
Code == [c \in {"-", "/", "0", "1", "2", "A", "B", "a", "b", "~"} |->
  CASE c = "-" -> 45 [] c = "/" -> 47 [] c = "0" -> 48 [] c = "1" -> 49
    [] c = "2" -> 50 [] c = "A" -> 65 [] c = "B" -> 66 [] c = "a" -> 97
    [] c = "b" -> 98 [] OTHER -> 126]

\* compare_strings: negative, zero or positive.  A missing name is after any.
CompareStrings(j, k, exact) ==
  LET x == IF exact THEN j ELSE Lower(j)
      y == IF exact THEN k ELSE Lower(k)
      at(s, i) == IF i \in DOMAIN s THEN Code[s[i]] ELSE 0
      differ   == {i \in 1..Len(x) + 1 : at(x, i) # at(y, i)}
  IN  IF j = NULL \/ k = NULL THEN 1
      ELSE IF differ = {} THEN 0
      ELSE at(x, Min(differ)) - at(y, Min(differ))

-----------------------------------------------------------------------------
\* encode_string_as_pointer.
EncodedSlashes(s) ==   \* Mutant: ~ stays as it is
  FlattenSeq([i \in DOMAIN s |-> IF s[i] = "/" THEN <<"~", "1">> ELSE <<s[i]>>])
Encoded(s) == FlattenSeq([i \in DOMAIN s |->
  CASE s[i] = "/" -> <<"~", "1">> [] s[i] = "~" -> <<"~", "0">> [] OTHER -> <<s[i]>>])

\* decode_pointer_inplace: the string is read at r and written at w.  Only the
\* escapes are written, and a / one place too far.
RECURSIVE DecodeFrom(_, _, _)
DecodeFrom(s, r, w) ==
  CASE r > Len(s) -> SubSeq(s, 1, w - 1)
    [] r <= Len(s) /\ s[r] # "~" -> DecodeFrom(s, r + 1, w + 1)
    [] r < Len(s) /\ s[r] = "~" /\ s[r + 1] = "0" ->
         DecodeFrom([s EXCEPT ![w] = "~"], r + 2, w + 1)
    [] r < Len(s) /\ s[r] = "~" /\ s[r + 1] = "1" ->
         DecodeFrom([s EXCEPT ![w + 1] = "/"], r + 2, w + 1)
    [] OTHER -> s
Decoded(token) == DecodeFrom(token, 1, 1)

\* compare_pointers: is the name the one the token stands for.
RECURSIVE Matches(_, _, _)
Matches(k, token, exact) ==
  IF k = <<>> \/ token = <<>> THEN k = token
  ELSE IF token[1] = "~"
  THEN /\ Len(token) > 1
       /\ \/ token[2] = "0" /\ k[1] = "~"
          \/ token[2] = "1" /\ k[1] = "/"
       /\ Matches(Tail(k), SubSeq(token, 3, Len(token)), exact)
  ELSE /\ SameName(<<k[1]>>, <<token[1]>>, exact)
       /\ Matches(Tail(k), Tail(token), exact)

\* decode_array_index_from_pointer: the index, or -1 if the token is none.  It
\* is the first character that must be a digit, of the others it is only asked
\* that they do not come before "0".
Index(token) ==
  LET digit(i) == Code[token[i]] - 48
      number[i \in 0..Len(token)] == IF i = 0 THEN 0 ELSE 10 * number[i - 1] + digit(i)
  IN  IF token = <<>> THEN 0
      ELSE IF token[1] = "0" /\ Len(token) > 1 THEN -1
      ELSE IF digit(1) \notin 0..9 \/ \E i \in DOMAIN token : digit(i) < 0 THEN -1
      ELSE number[Len(token)]

\* The item the token leads to from v: its place among the children, or 0.
Step(v, token, exact) ==
  CASE IsArray(v) ->
         IF Index(token) \in 0..(Len(v.items) - 1) THEN Index(token) + 1 ELSE 0
    [] IsObject(v) ->
         LET found == {i \in DOMAIN v.items :
               v.items[i].name # NULL /\ Matches(v.items[i].name, token, exact)}
         IN  IF found = {} THEN 0 ELSE Min(found)
    [] OTHER -> 0

\* get_item_from_pointer, as the places to go through; NULL if there is none.
RECURSIVE Find(_, _, _)
Find(v, path, exact) ==
  IF path = <<>> THEN <<>>
  ELSE LET i == Step(v, path[1], exact) IN
       IF i = 0 THEN NULL
       ELSE LET rest == Find(v.items[i], Tail(path), exact) IN
            IF rest = NULL THEN NULL ELSE <<i>> \o rest

RECURSIVE ItemAt(_, _)
ItemAt(v, place) ==
  IF place = <<>> THEN v ELSE ItemAt(v.items[place[1]], Tail(place))
RECURSIVE With(_, _, _)
With(v, place, w) ==       \* v with w at the place
  IF place = <<>> THEN w
  ELSE [v EXCEPT !.items[place[1]] = With(@, Tail(place), w)]

GetPointer(v, path, exact) == LET place == Find(v, path, exact) IN
  IF place = NULL THEN NULL ELSE ItemAt(v, place)

\* cJSONUtils_FindPointerFromObjectTo, the item being at this place.
RECURSIVE FindPointer(_, _)
Digits(n) == IF n < 10 THEN <<<<"0", "1", "2">>[n + 1]>> ELSE <<"1", "0">>
FindPointer(v, place) ==
  IF place = <<>> THEN <<>>
  ELSE LET i == place[1]
           token == IF IsArray(v) THEN Digits(i - 1) ELSE Encoded(v.items[i].name)
       IN  <<token>> \o FindPointer(v.items[i], Tail(place))

-----------------------------------------------------------------------------
\* sort_list: the halves are sorted and merged; what is in strict order stays.
RECURSIVE Merge(_, _, _)
MergeForgetful(s, t, exact) ==   \* Mutant: the rest of the first list is forgotten
  IF s = <<>> THEN t ELSE IF t = <<>> THEN <<>>
  ELSE IF CompareStrings(s[1].name, t[1].name, exact) < 0
  THEN <<s[1]>> \o Merge(Tail(s), t, exact)
  ELSE <<t[1]>> \o Merge(s, Tail(t), exact)
Merge(s, t, exact) ==
  IF s = <<>> THEN t ELSE IF t = <<>> THEN s
  ELSE IF CompareStrings(s[1].name, t[1].name, exact) < 0
  THEN <<s[1]>> \o Merge(Tail(s), t, exact)
  ELSE <<t[1]>> \o Merge(s, Tail(t), exact)
RECURSIVE SortList(_, _)
SortList(s, exact) ==
  LET half == (Len(s) + 1) \div 2 IN
  IF \A i \in 1..Len(s) - 1 : CompareStrings(s[i].name, s[i + 1].name, exact) < 0
  THEN s
  ELSE Merge(SortList(SubSeq(s, 1, half), exact),
             SortList(SubSeq(s, half + 1, Len(s)), exact), exact)

\* sort_object.  Nobody sets the prev of the item that is first now: an item of
\* a second half has none, the old first one still has the old last one.
Reordered(v, sorted) ==
  LET last == {k \in DOMAIN sorted : sorted[1].was = 1 /\ sorted[k].was = v.last}
      kept == sorted # <<>> /\ sorted[1].was = 1 /\ v.last = Gone
  IN  Holding(v, [k \in DOMAIN sorted |-> v.items[sorted[k].was]],
              IF kept THEN Gone ELSE IF last = {} THEN 0 ELSE Min(last))
SortObject(v, exact) ==
  Reordered(v, SortList([i \in DOMAIN v.items |-> [name |-> v.items[i].name, was |-> i]],
                        exact))

\* compare_json: are they the same, and both as they are afterwards, since it
\* sorts the objects it meets on its way.
RECURSIVE CompareItems(_, _, _)
CompareJson(a, b, exact) ==
  CASE a.type # b.type -> [same |-> FALSE, a |-> a, b |-> b]
    [] a.type = b.type /\ a.type = "array" -> CompareItems(a, b, exact)
    [] a.type = b.type /\ a.type = "object" ->
         CompareItems(SortObject(a, exact), SortObject(b, exact), exact)
    [] OTHER -> [same |-> a.value = b.value, a |-> a, b |-> b]

\* The children side by side, until two differ.
CompareItems(x, y, exact) ==
  LET named(i) == IsObject(x) => SameName(x.items[i].name, y.items[i].name, exact)
      noted(r, i, c) == [same |-> c.same, a |-> [r.a EXCEPT !.items[i] = c.a],
                         b |-> [r.b EXCEPT !.items[i] = c.b]]
      pair(r, i) ==
        IF ~r.same \/ ~named(i) THEN [r EXCEPT !.same = FALSE]
        ELSE noted(r, i, CompareJson(x.items[i], y.items[i], exact))
      walked == FoldLeft(pair, [same |-> TRUE, a |-> x, b |-> y],
                         [i \in 1..Min({Len(x.items), Len(y.items)}) |-> i])
  IN  [walked EXCEPT !.same = @ /\ Len(x.items) = Len(y.items)]

-----------------------------------------------------------------------------
\* A patch: op, path and from, and the value, which is called "value".
Patch(op, path, value) ==
  [op |-> op, path |-> path, from |-> NULL,
   value |-> IF value = NULL THEN NULL ELSE Called(Fresh(value), <<"value">>)]

Done(doc, status) == [doc |-> doc, status |-> status]

\* detach_path: the document without the item at the path, and the item.  The
\* member of an object is looked for in either case, whatever exact says.
DetachPath(doc, path, exact) ==
  LET child == Decoded(Last(path))
      where(parent) == IF IsArray(parent) THEN Index(child) + 1
                       ELSE GetObjectItem(parent, child, FALSE)
      taken(place, parent, i) ==
        IF i \notin DOMAIN parent.items THEN [doc |-> doc, item |-> NULL]
        ELSE [doc |-> With(doc, place, Detached(parent, i)), item |-> parent.items[i]]
      from(place, parent) == taken(place, parent, where(parent))
      found(place) == IF place = NULL THEN [doc |-> doc, item |-> NULL]
                      ELSE from(place, ItemAt(doc, place))
  IN  IF path = <<>> THEN [doc |-> doc, item |-> NULL]
      ELSE found(Find(doc, Front(path), exact))

\* The object without the member of this name, if it has one.
WithoutMemberKept(v, k, exact) == v   \* Mutant: the old member stays
WithoutMember(v, k, exact) == LET i == GetObjectItem(v, k, exact) IN
  IF i = 0 THEN v ELSE Detached(v, i)

\* The end of apply_patch: value goes to the path.
AddAtPath(doc, path, value, exact) ==
  LET child == Decoded(Last(path))
      into(place, p) == Done(With(doc, place, p), 0)
      before(place, parent, i) ==
        CASE i = -1 -> Done(doc, 11)
          [] i > Len(parent.items) -> Done(doc, 10)
          [] OTHER -> into(place, Holding(parent, InsertAt(parent.items, i + 1, value),
                                          parent.last + 1))
      below(place, parent) ==
        CASE IsObject(parent) ->
               into(place, Appended(WithoutMember(parent, child, exact), Called(value, child)))
          [] IsArray(parent) ->
               IF child = <<"-">> THEN into(place, Appended(parent, value))
               ELSE before(place, parent, Index(child))
          [] OTHER -> Done(doc, 9)
      found(place) == IF place = NULL THEN Done(doc, 9) ELSE below(place, ItemAt(doc, place))
  IN  IF path = <<>> THEN Done(doc, 9) ELSE found(Find(doc, Front(path), exact))

\* What decode_patch_operation knows.
Operations == {"add", "remove", "replace", "move", "copy", "test"}

\* apply_patch.  A failing patch may have taken something out already.
ApplyPatch(doc, p, exact) ==
  LET given(d) == IF p.value = NULL THEN Done(d, 7)
                  ELSE AddAtPath(d, p.path, Fresh(p.value), exact)
      whole == CASE p.op = "remove" -> Done(Scalar("invalid"), 0)
                 [] p.op # "remove" /\ p.value = NULL -> Done(doc, 7)
                 [] OTHER -> Done(Called(Fresh(p.value), NULL), 0)
      compared(place, c) == Done(With(doc, place, c.a), IF c.same THEN 0 ELSE 1)
      test(place) == IF place = NULL \/ p.value = NULL THEN Done(doc, 1)
                     ELSE compared(place, CompareJson(ItemAt(doc, place), p.value, exact))
      detached(r) == CASE r.item = NULL -> Done(doc, 13)
                       [] r.item # NULL /\ p.op = "remove" -> Done(r.doc, 0)
                       [] OTHER -> given(r.doc)
      moved(r)  == IF r.item = NULL THEN Done(doc, 5)
                   ELSE AddAtPath(r.doc, p.path, r.item, exact)
      copied(v) == IF v = NULL THEN Done(doc, 5)
                   ELSE AddAtPath(doc, p.path, Fresh(v), exact)
  IN  CASE p.path = NULL -> Done(doc, 2)
        [] p.path # NULL /\ p.op \notin Operations -> Done(doc, 3)
        [] p.path = <<>> /\ p.op \in {"add", "remove", "replace"} -> whole
        [] p.path # NULL /\ p.op = "test" -> test(Find(doc, p.path, exact))
        [] p.path \notin {NULL, <<>>} /\ p.op = "add" -> given(doc)
        [] p.path \notin {NULL, <<>>} /\ p.op \in {"remove", "replace"} ->
             detached(DetachPath(doc, p.path, exact))
        [] p.path # NULL /\ p.op \in {"move", "copy"} /\ p.from = NULL -> Done(doc, 4)
        [] p.path # NULL /\ p.op = "move" /\ p.from # NULL ->
             moved(DetachPath(doc, p.from, exact))
        [] p.path # NULL /\ p.op = "copy" /\ p.from # NULL ->
             copied(GetPointer(doc, p.from, exact))

\* cJSONUtils_ApplyPatches stops at the first patch that fails.
ApplyPatches(doc, patches, exact) ==
  FoldLeft(LAMBDA r, p : IF r.status # 0 THEN r ELSE ApplyPatch(r.doc, p, exact),
           Done(doc, 0), patches)

-----------------------------------------------------------------------------
\* create_patches: what turns from into to, and both sorted where it went.
Patches(patches, from, to) == [patches |-> patches, from |-> from, to |-> to]
Joined(p, r) == Patches(p.patches \o r.patches, p.from \o r.from, p.to \o r.to)
RECURSIVE CreatePatches(_, _, _, _)

\* The members of two sorted objects, side by side.
RECURSIVE CreateForMembers(_, _, _, _)
CreateForMembers(path, fs, ts, exact) ==
  LET diff == IF fs = <<>> THEN 1 ELSE IF ts = <<>> THEN -1
              ELSE CompareStrings(fs[1].name, ts[1].name, exact)
      only(op, v) == Patch(op, Append(path, Encoded(v.name)), IF op = "add" THEN v ELSE NULL)
      one(p) == Patches(p.patches, <<p.from>>, <<p.to>>)
      first == CASE diff < 0 -> Patches(<<only("remove", fs[1])>>, <<fs[1]>>, <<>>)
                 [] diff > 0 -> Patches(<<only("add", ts[1])>>, <<>>, <<ts[1]>>)
                 [] OTHER -> one(CreatePatches(Append(path, Encoded(fs[1].name)),
                                               fs[1], ts[1], exact))
  IN  IF fs = <<>> /\ ts = <<>> THEN Patches(<<>>, <<>>, <<>>)
      ELSE Joined(first, CreateForMembers(path, IF diff <= 0 THEN Tail(fs) ELSE fs,
                                          IF diff >= 0 THEN Tail(ts) ELSE ts, exact))

\* Elements both have, what from has more, what to has more.
CreateForElementsRising(path, from, to, exact) ==   \* Mutant: the index goes on
  LET n == Min({Len(from.items), Len(to.items)})
      common == [i \in 1..n |-> CreatePatches(Append(path, Digits(i - 1)),
                                             from.items[i], to.items[i], exact)]
      more(s) == SubSeq(s, n + 1, Len(s))
  IN  Patches(FlattenSeq([i \in 1..n |-> common[i].patches])
                \o [i \in DOMAIN more(from.items) |->
                      Patch("remove", Append(path, Digits(n + i - 1)), NULL)]
                \o [i \in DOMAIN more(to.items) |->
                      Patch("add", Append(path, <<"-">>), more(to.items)[i])],
              [from EXCEPT !.items = [i \in 1..n |-> common[i].from] \o more(@)],
              [to EXCEPT !.items = [i \in 1..n |-> common[i].to] \o more(@)])
CreateForElements(path, from, to, exact) ==
  LET n == Min({Len(from.items), Len(to.items)})
      common == [i \in 1..n |-> CreatePatches(Append(path, Digits(i - 1)),
                                             from.items[i], to.items[i], exact)]
      more(s) == SubSeq(s, n + 1, Len(s))
  IN  Patches(FlattenSeq([i \in 1..n |-> common[i].patches])
                \o [i \in DOMAIN more(from.items) |->
                      Patch("remove", Append(path, Digits(n)), NULL)]
                \o [i \in DOMAIN more(to.items) |->
                      Patch("add", Append(path, <<"-">>), more(to.items)[i])],
              [from EXCEPT !.items = [i \in 1..n |-> common[i].from] \o more(@)],
              [to EXCEPT !.items = [i \in 1..n |-> common[i].to] \o more(@)])

CreatePatches(path, from, to, exact) ==
  LET both(f, t, members) == Patches(members.patches, [f EXCEPT !.items = members.from],
                                     [t EXCEPT !.items = members.to])
      sorted(f, t) == both(f, t, CreateForMembers(path, f.items, t.items, exact))
  IN  CASE from.type # to.type -> Patches(<<Patch("replace", path, to)>>, from, to)
        [] from.type = to.type /\ from.type = "array" ->
             CreateForElements(path, from, to, exact)
        [] from.type = to.type /\ from.type = "object" ->
             sorted(SortObject(from, exact), SortObject(to, exact))
        [] OTHER -> Patches(IF from.value = to.value THEN <<>>
                            ELSE <<Patch("replace", path, to)>>, from, to)

GeneratePatches(from, to, exact) == CreatePatches(<<>>, from, to, exact)

-----------------------------------------------------------------------------
\* merge_patch.
RECURSIVE MergePatch(_, _, _)
MergePatchNulls(target, patch, exact) ==   \* Mutant: null is a value like any other
  LET old(t, i) == IF i = 0 THEN NULL ELSE t.items[i]
      merged(t, p) == Appended(WithoutMember(t, p.name, exact),
        Called(MergePatch(old(t, GetObjectItem(t, p.name, exact)), p, exact), p.name))
  IN  IF ~IsObject(patch) THEN Fresh(patch)
      ELSE FoldLeft(merged, IF IsObject(target) THEN target ELSE Object(<<>>),
                    patch.items)
MergePatch(target, patch, exact) ==
  LET old(t, i) == IF i = 0 THEN NULL ELSE t.items[i]
      merged(t, p) ==
        IF IsNull(p) THEN WithoutMember(t, p.name, exact)
        ELSE Appended(WithoutMember(t, p.name, exact),
          Called(MergePatch(old(t, GetObjectItem(t, p.name, exact)), p, exact), p.name))
  IN  IF ~IsObject(patch) THEN Fresh(patch)
      ELSE FoldLeft(merged, IF IsObject(target) THEN target ELSE Object(<<>>),
                    patch.items)

\* generate_merge_patch: the patch, NULL if there is nothing to change, and
\* both documents sorted where it went.  Below the members it is always the
\* variant that takes either case.
RECURSIVE GenerateMergePatch(_, _, _)
MergeMember(f, t, exact) ==
  LET one(g) == Patches(IF g.patches = NULL THEN <<>> ELSE <<Called(g.patches, t.name)>>,
                        <<g.from>>, <<g.to>>)
      known(c) == IF c.same THEN Patches(<<>>, <<c.a>>, <<c.b>>)
                  ELSE one(GenerateMergePatch(c.a, c.b, FALSE))
  IN  known(CompareJson(f, t, exact))

RECURSIVE MergeMembers(_, _, _)
MergeMembers(fs, ts, exact) ==
  LET diff == IF fs = <<>> THEN 1 ELSE IF ts = <<>> THEN -1
              ELSE CompareStrings(fs[1].name, ts[1].name, TRUE)
      null(v) == Called(Scalar("null"), v.name)
      first == CASE diff < 0 -> Patches(<<null(fs[1])>>, <<fs[1]>>, <<>>)
                 [] diff > 0 -> Patches(<<Fresh(ts[1])>>, <<>>, <<ts[1]>>)
                 [] OTHER -> MergeMember(fs[1], ts[1], exact)
  IN  IF fs = <<>> /\ ts = <<>> THEN Patches(<<>>, <<>>, <<>>)
      ELSE Joined(first, MergeMembers(IF diff <= 0 THEN Tail(fs) ELSE fs,
                                      IF diff >= 0 THEN Tail(ts) ELSE ts, exact))
GenerateMergePatch(from, to, exact) ==
  LET merged(f, t, r) ==
        Patches(IF r.patches = <<>> THEN NULL ELSE Object(r.patches),
                [f EXCEPT !.items = r.from], [t EXCEPT !.items = r.to])
      sorted(f, t) == merged(f, t, MergeMembers(f.items, t.items, exact))
  IN  IF ~IsObject(to) \/ ~IsObject(from) THEN Patches(Fresh(to), from, to)
      ELSE sorted(SortObject(from, exact), SortObject(to, exact))
=============================================================================
