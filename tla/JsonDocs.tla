------------------------------- MODULE JsonDocs -------------------------------
(***************************************************************************)
(* A caller of cJSON with a document.  It prints it, has the text damaged,  *)
(* commented and minified on its way, parses it, copies it; or it has a     *)
(* second document, computes the patch from the one to the other, and       *)
(* applies it, or patches the document by hand.  Where memory is asked for, *)
(* any allocation may be the last one that succeeds.                        *)
(***************************************************************************)
EXTENDS JsonText, JsonPatch

LOCAL INSTANCE SequencesExt
LOCAL INSTANCE FiniteSetsExt

CONSTANTS TextDocs,   \* documents that are printed
          PatchDocs,  \* documents that patches lead from and to
          Lengths,    \* lengths of the buffers that callers supply or guess
          Memory,     \* how many allocations succeed (printers), or blocks there are
          Damage,     \* symbols that a damage puts into a text
          HandPatches \* patches written by hand

VARIABLES
  doc,    \* the document
  other,  \* the document it is to become, or NULL
  text,   \* the text, or NULL
  got,    \* the document the last call returned or left, or NULL
  patch,  \* the patches generated, the merge patch, or NULL
  ret     \* the last call, its arguments, and what it returned besides

vars == <<doc, other, text, got, patch, ret>>

Init ==
  /\ \/ doc \in TextDocs /\ other = NULL
     \/ doc \in PatchDocs /\ other \in PatchDocs
  /\ text = NULL /\ got = NULL /\ patch = NULL
  /\ ret = [call |-> "none"]

-----------------------------------------------------------------------------
\* The printers; r is what they return.
PrintWith(name, length, format, r) ==
  /\ other = NULL /\ ret.call = "none"
  /\ text' = r.text
  /\ ret' = [call |-> name, length |-> length, format |-> format, inside |-> r.inside]
  /\ UNCHANGED <<doc, other, got, patch>>

PrintAllocated(format, left) ==
  PrintWith("print", DefaultBufferSize, format, PrintWhole(doc, format, left))
PrintGuessed(format, length, left) ==
  PrintWith("printBuffered", length, format, PrintBuffered(doc, format, length, left))
PrintInPlace(format, length) ==
  PrintWith("printPreallocated", length, format, PrintPreallocated(doc, format, length))

Printers == {"print", "printBuffered", "printPreallocated"}

\* On its way one symbol of the text is lost, changed, or comes in.  (Two
\* numbers side by side would be one.)
NumbersApart(s) == \A i \in 1..Len(s) - 1 : ~({s[i], s[i + 1]} \subseteq DOMAIN NumberOf)
DamageText ==
  /\ text # NULL /\ ret.call \in Printers
  /\ \E i \in DOMAIN text, c \in Damage :
       text' \in {RemoveAt(text, i), ReplaceAt(text, i, c), InsertAt(text, i, c)}
  /\ text' # text /\ NumbersApart(text')
  /\ ret' = [call |-> "damage"]
  /\ UNCHANGED <<doc, other, got, patch>>

\* Someone puts a comment before a bracket, and the text is minified.
Comments == {<<>>, <<"/", "*", Quote, "*", "/">>, <<"/", "/", "a", "LF">>}
MinifyText ==
  /\ text # NULL /\ ret.call \in Printers
  /\ \E i \in {1} \cup {j \in DOMAIN text : text[j] \in {"]", "}"}}, c \in Comments :
       text' = Minify(SubSeq(text, 1, i - 1) \o c \o SubSeq(text, i, Len(text)))
  /\ ret' = [call |-> "minify"]
  /\ UNCHANGED <<doc, other, got, patch>>

\* cJSON_ParseWithOpts, or, if it is not for a C string, ParseWithLengthOpts.
ParseText(cstring, required, left) ==
  /\ text # NULL /\ ret.call \in Printers \cup {"minify", "damage"}
  /\ \E r \in {IF cstring THEN ParseWithOpts(text, required, left)
               ELSE ParseWithLengthOpts(text, required, left)} :
       /\ got' = r.item
       /\ ret' = [call |-> "parse", of |-> ret.call, cstring |-> cstring,
                  required |-> required, memory |-> left, left |-> r.left]
  /\ UNCHANGED <<doc, other, text, patch>>

Copy(recurse, left) ==
  /\ other = NULL /\ ret.call = "none"
  /\ LET r == Duplicate(doc, recurse, left)
     IN  /\ got' = r.item
         /\ ret' = [call |-> "duplicate", recurse |-> recurse, memory |-> left,
                    left |-> r.left]
  /\ UNCHANGED <<doc, other, text, patch>>

-----------------------------------------------------------------------------
\* cJSONUtils_GeneratePatches; it leaves both documents sorted.
Generate(exact) ==
  /\ other # NULL /\ ret.call = "none"
  /\ LET r == GeneratePatches(doc, other, exact)
     IN  patch' = r.patches /\ doc' = r.from /\ other' = r.to
  /\ ret' = [call |-> "generate", exact |-> exact]
  /\ UNCHANGED <<text, got>>

\* cJSONUtils_ApplyPatches, to the document itself or to a copy of it.
Apply(copy) ==
  /\ ret.call = "generate"
  /\ LET r == ApplyPatches(IF copy THEN Fresh(doc) ELSE doc, patch, ret.exact)
     IN  /\ got' = r.doc
         /\ ret' = [call |-> "apply", exact |-> ret.exact, copy |-> copy,
                    status |-> r.status]
  /\ UNCHANGED <<doc, other, text, patch>>

GenerateMerge(exact) ==
  /\ other # NULL /\ ret.call = "none"
  /\ LET r == GenerateMergePatch(doc, other, exact)
     IN  patch' = r.patches /\ doc' = r.from /\ other' = r.to
  /\ ret' = [call |-> "generateMerge", exact |-> exact]
  /\ UNCHANGED <<text, got>>

\* cJSONUtils_MergePatch; without a patch there is nothing to call it with.
ApplyMerge(copy) ==
  /\ ret.call = "generateMerge"
  /\ got' = IF patch = NULL THEN doc
            ELSE MergePatch(IF copy THEN Fresh(doc) ELSE doc, patch, ret.exact)
  /\ ret' = [call |-> "merge", exact |-> ret.exact, copy |-> copy]
  /\ UNCHANGED <<doc, other, text, patch>>

ApplyByHand(p, exact) ==
  /\ other # NULL /\ ret.call = "none"
  /\ LET r == ApplyPatches(doc, <<p>>, exact)
     IN  /\ got' = r.doc
         /\ ret' = [call |-> "byHand", exact |-> exact, status |-> r.status]
  /\ patch' = <<p>>
  /\ UNCHANGED <<doc, other, text>>

\* cJSONUtils_FindPointerFromObjectTo, and GetPointer on what it returns.
RECURSIVE Places(_)
Places(v) == {<<>>} \cup UNION {{<<i>> \o p : p \in Places(v.items[i])} : i \in DOMAIN v.items}
FindItem(place, exact) ==
  /\ other # NULL /\ ret.call = "none" /\ place \in Places(doc)
  /\ ret' = [call |-> "pointer", place |-> place, exact |-> exact,
             found |-> Find(doc, FindPointer(doc, place), exact)]
  /\ UNCHANGED <<doc, other, text, got, patch>>

-----------------------------------------------------------------------------
Next ==
  \/ \E format \in BOOLEAN :
       \/ \E left \in Memory :
            \/ PrintAllocated(format, left)
            \/ \E length \in Lengths : PrintGuessed(format, length, left)
       \/ \E length \in Lengths : PrintInPlace(format, length)
  \/ DamageText
  \/ MinifyText
  \/ \E cstring \in BOOLEAN, required \in BOOLEAN, left \in Memory :
       ParseText(cstring, required, left)
  \/ \E recurse \in BOOLEAN, left \in Memory : Copy(recurse, left)
  \/ \E exact \in BOOLEAN :
       \/ Generate(exact)
       \/ GenerateMerge(exact)
       \/ \E p \in HandPatches : ApplyByHand(p, exact)
       \/ \E place \in Places(doc) : FindItem(place, exact)
  \/ \E copy \in BOOLEAN : Apply(copy) \/ ApplyMerge(copy)

Spec == Init /\ [][Next]_vars
-----------------------------------------------------------------------------
\* What a document becomes on its way through a text: an infinite number is null.
RECURSIVE Read(_)
Read(v) ==
  IF v.type = "number" /\ v.value = "inf" THEN Called(Scalar("null"), v.name)
  ELSE [v EXCEPT !.items = [i \in DOMAIN @ |-> Read(@[i])]]
RECURSIVE Depth(_)
Depth(v) == IF v.type \notin {"array", "object"} THEN 0
            ELSE 1 + Max({0} \cup {Depth(v.items[i]) : i \in DOMAIN v.items})
RECURSIVE Strings(_)
Strings(v) ==
  {s \in {v.name} \cup (IF v.type = "string" THEN {v.value} ELSE {}) : s # NULL}
    \cup UNION {Strings(v.items[i]) : i \in DOMAIN v.items}
SlashLast(v) == \E s \in Strings(v) : s # <<>> /\ Last(s) = Slash

\* A text the printer made is read as the document it was made from, with all
\* names, strings and the order of the members, whatever the format, if it is
\* nested no deeper than the limit and memory lasts; otherwise it is refused.
RoundTrip ==
  ret.call = "parse" /\ (ret.of \in Printers \/ (ret.of = "minify" /\ ~SlashLast(doc))) =>
    got = IF /\ Depth(doc) <= NestingLimit /\ ret.memory >= Blocks(doc)
             /\ ret.required => ret.cstring
          THEN Read(doc) ELSE NULL

\* The text as the printer would have written what it says: without blanks
\* between the symbols, with the escapes it uses for control characters that
\* stand in a string as they are, and each string only up to a NUL in it.
Normal(s) ==
  LET start == [within |-> FALSE, slash |-> FALSE, cut |-> FALSE, out |-> <<>>]
      between(r, c) ==
        IF c \in Blank THEN r
        ELSE [start EXCEPT !.within = c = Quote,
              !.out = Append(r.out, IF c \in DOMAIN NumberOf THEN Printed(NumberOf[c]) ELSE c)]
      escaped(r, c) ==
        CASE r.cut -> [r EXCEPT !.slash = FALSE]
          [] c \in ZeroCode -> [r EXCEPT !.slash = FALSE, !.cut = TRUE, !.out = Front(@)]
          [] c = "/" -> [r EXCEPT !.slash = FALSE, !.out = Append(Front(@), c)]
          [] OTHER -> [r EXCEPT !.slash = FALSE, !.out = Append(@, c)]
      plain(r, c) ==
        CASE c = Quote -> [start EXCEPT !.out = Append(r.out, c)]
          [] r.cut -> [r EXCEPT !.slash = c = Slash]
          [] c \in {"LF", "TAB", "SOH", "BS"} -> [r EXCEPT !.out = @ \o <<Slash, Escape[c]>>]
          [] OTHER -> [r EXCEPT !.slash = c = Slash, !.out = Append(@, c)]
      next(r, c) == IF ~r.within THEN between(r, c)
                    ELSE IF r.slash THEN escaped(r, c) ELSE plain(r, c)
  IN  FoldLeft(next, start, s).out

\* A damaged text that is accepted as a whole is read as what it says, and no
\* part of it is passed over but blanks between the symbols and what follows a
\* NUL in a string.  What it says need not be JSON: any byte up to the space
\* counts as blank, control characters may stand in strings, and a \u without
\* four hexadecimal digits is a NUL (cJSON.c:635, 824, 1050).
ReadsWhatItSays ==
  ret.call = "parse" /\ ret.required /\ got # NULL => Normal(text) = TextOf(got, FALSE)

\* Whatever ends a parse or a copy, and where, the blocks that are taken are
\* those of the item returned: none is left behind, none given back twice.
NothingLost ==
  ret.call \in {"parse", "duplicate"} =>
    ret.left + (IF got = NULL THEN 0 ELSE Blocks(got)) = ret.memory

\* No printer writes past the end of its buffer, or copies from past the end of
\* the one before but for the byte of CopiedFromNothing, whatever length the
\* caller guessed or supplied.
WritesInside == ret.call \in Printers => ret.inside

\* "Give 5 bytes more" (cJSON.h): a buffer of the caller's is enough if it has 5
\* bytes more than the text, and a text printed into it leaves room for its NUL.
FiveMore ==
  ret.call = "printPreallocated" =>
    /\ ret.length >= WidthOf(TextOf(doc, ret.format)) + 5 => text = TextOf(doc, ret.format)
    /\ text # NULL => ret.length >= WidthOf(text) + 1

\* The buffers hold: nothing leaves them, and what the header asks for is enough.
BuffersHold == WritesInside /\ FiveMore

\* Minified, a text is the unformatted one, unless a string of it ends in a
\* backslash: minify_string takes the quote after \\ for an escaped one.
MinifyKeeps == ret.call = "minify" /\ ~SlashLast(doc) => text = TextOf(doc, FALSE)

-----------------------------------------------------------------------------
\* Names that patches can lead to: different in more than the case of their
\* letters, and without the / that decode_pointer_inplace misplaces.
RECURSIVE PlainNames(_)
PlainNames(v) ==
  /\ \A i, j \in DOMAIN v.items : i # j /\ IsObject(v) =>
       ~SameName(v.items[i].name, v.items[j].name, FALSE)
  /\ IsObject(v) => \A i \in DOMAIN v.items : ~Contains(v.items[i].name, "/")
  /\ \A i \in DOMAIN v.items : PlainNames(v.items[i])
RECURSIVE NoNulls(_)
NoNulls(v) == v.type # "null" /\ \A i \in DOMAIN v.items : NoNulls(v.items[i])
SameCase(v, w) == \A j, k \in Strings(v) \cup Strings(w) : SameName(j, k, FALSE) => j = k

\* The pointer constructed for an item leads back to it, and to no other.
PointersLead == ret.call = "pointer" /\ ret.exact => ret.found = ret.place

\* The patches generated turn a document, if it has its own list ends, into the
\* other one, and all of them apply.
PatchTurns ==
  ret.call = "apply" /\ ret.copy /\ PlainNames(doc) /\ PlainNames(other) /\ SameCase(doc, other) =>
    ret.status = 0 /\ Compare(got, other, TRUE)

\* The same of the document itself, which generating the patches has sorted.
PatchTurnsItself ==
  ret.call = "apply" /\ ~ret.copy /\ PlainNames(doc) /\ PlainNames(other) /\ SameCase(doc, other) =>
    ret.status = 0 /\ Compare(got, other, TRUE)

\* The merge patch generated turns the one document into the other, if that one
\* has no null, which a merge patch cannot bring.
MergeTurns ==
  ret.call = "merge" /\ ret.copy /\ PlainNames(doc) /\ PlainNames(other) /\ SameCase(doc, other)
    /\ NoNulls(other) => Compare(got, other, TRUE)

\* Patches and merge patches do what they were generated for.
PatchesTurn == PatchTurns /\ MergeTurns

\* A patch by hand that reports success has brought its value to its path.  (If
\* there is nothing at from, detach_path may still move what differs in case.)
ValueArrives ==
  ret.call = "byHand" /\ ret.status = 0 /\ PlainNames(doc) =>
    LET p == patch[1]
        value == IF p.op \in {"copy", "move"} THEN GetPointer(doc, p.from, ret.exact)
                 ELSE p.value
    IN  value # NULL /\ p.op # "test" /\ (p.path = <<>> \/ Last(p.path) # <<"-">>)
          => /\ GetPointer(got, p.path, ret.exact) # NULL
             /\ Compare(GetPointer(got, p.path, ret.exact), value, TRUE)

\* A patch that adds, copies or tests and fails has changed no member's value.
FailureKeeps ==
  ret.call = "byHand" /\ ret.status # 0 /\ patch[1].op \in {"add", "copy", "test"} =>
    Compare(doc, got, TRUE)

\* What a patch by hand reports is what it has done (cJSON_Utils.c:807).
ReportIsTrue == ValueArrives /\ FailureKeeps

\* Generating patches changes nothing of either document but the order of the
\* members of its objects.
OnlyOrderChanges ==
  [][doc' # doc \/ other' # other =>
       Blocks(doc) = Blocks(doc') /\ Blocks(other) = Blocks(other')
       /\ Compare(doc, doc', TRUE) /\ Compare(other, other', TRUE)]_vars
=============================================================================
