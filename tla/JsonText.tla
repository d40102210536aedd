------------------------------- MODULE JsonText -------------------------------
(***************************************************************************)
(* Items to text and back (cJSON.c).  A text is a sequence of symbols: the  *)
(* characters that matter to the grammar, and null, true, false, numbers    *)
(* and \u sequences as one symbol each, with the width they have in bytes.  *)
(* Places in a text are counted from 1.                                     *)
(***************************************************************************)
EXTENDS JsonItem, PrintBuffer

LOCAL INSTANCE SequencesExt

CONSTANTS NestingLimit,      \* CJSON_NESTING_LIMIT
          DefaultBufferSize  \* default_buffer_size of print

Quote == "\""
Slash == "\\"
\* What buffer_skip_whitespace skips: every byte up to the space.
Blank   == {" ", "TAB", "LF", "NUL", "SOH", "BS"}

\* Numbers: what strtod makes of a lexeme, and what sprintf makes of a double.
NumberOf == [lexeme \in {"1", "1.0", "-2.5", "1e999"} |->
  CASE lexeme \in {"1", "1.0"} -> "1" [] lexeme = "-2.5" -> "-2.5" [] OTHER -> "inf"]
Printed(d) == IF d = "inf" THEN "null" ELSE d

\* Characters that are printed with a backslash, and what follows it.
Escape == [c \in {Quote, Slash, "BS", "LF", "TAB", "SOH"} |->
  CASE c = "BS" -> "b" [] c = "LF" -> "n" [] c = "TAB" -> "t" [] c = "SOH" -> "u0001"
    [] OTHER -> c]
\* What may follow a backslash in a text, and what it stands for.  Half of a
\* surrogate pair (uD800) stands for nothing and is refused; parse_hex4 takes u
\* and four characters that are not all hexadecimal digits (u00zz) for u0000.
ZeroCode == {"u0000", "u00zz"}
Unescape == [c \in {Quote, Slash, "/", "b", "n", "t", "u0001"} \cup ZeroCode |->
  CASE c = "b" -> "BS" [] c = "n" -> "LF" [] c = "t" -> "TAB" [] c = "u0001" -> "SOH"
    [] c \in ZeroCode -> "NUL" [] OTHER -> c]

Width(c) == CASE c \in {"null", "true", "-2.5"} -> 4
              [] c \in {"false", "u0001", "u0000", "u00zz", "uD800", "1e999"} -> 5
              [] c = "1.0" -> 3
              [] OTHER -> 1
WidthOf(s) == FoldSeq(LAMBDA c, n : n + Width(c), 0, s)

-----------------------------------------------------------------------------
\* Printing: the pieces a value is printed in, each with its text.
PieceOf(need, text, nul) == [text |-> text, piece |-> Piece(need, WidthOf(text), nul)]

PrintStringRaw(s) ==   \* Mutant: a backslash is no special character
  LET chars == IF s = NULL THEN <<>> ELSE FlattenSeq([i \in DOMAIN s |->
                 IF s[i] \in DOMAIN Escape /\ s[i] # Slash
                 THEN <<Slash, Escape[s[i]]>> ELSE <<s[i]>>])
  IN  <<PieceOf(WidthOf(chars) + 3, <<Quote>> \o chars \o <<Quote>>, 1)>>
PrintString(s) ==
  LET chars == IF s = NULL THEN <<>> ELSE FlattenSeq([i \in DOMAIN s |->
                 IF s[i] \in DOMAIN Escape THEN <<Slash, Escape[s[i]]>> ELSE <<s[i]>>])
  IN  <<PieceOf(WidthOf(chars) + 3, <<Quote>> \o chars \o <<Quote>>, 1)>>

Tabs(n) == [i \in 1..n |-> "TAB"]

RECURSIVE PrintValue(_, _, _)
PrintArray(v, format, depth) ==
  LET comma == IF format THEN <<",", " ">> ELSE <<",">>
      element(i) == PrintValue(v.items[i], format, depth + 1) \o
        IF i < Len(v.items) THEN <<PieceOf(Len(comma) + 1, comma, 1)>> ELSE <<>>
  IN  <<PieceOf(1, <<"[">>, 0)>>
      \o FlattenSeq([i \in DOMAIN v.items |-> element(i)])
      \o <<PieceOf(2, <<"]">>, 1)>>

PrintObject(v, format, depth) ==
  LET open  == IF format THEN <<"{", "LF">> ELSE <<"{">>
      colon == IF format THEN <<":", "TAB">> ELSE <<":">>
      tabs  == IF format THEN <<PieceOf(depth + 1, Tabs(depth + 1), 0)>> ELSE <<>>
      ends(i) == (IF i < Len(v.items) THEN <<",">> ELSE <<>>)
                 \o (IF format THEN <<"LF">> ELSE <<>>)
      member(i) ==
        tabs \o PrintString(v.items[i].name) \o <<PieceOf(Len(colon), colon, 0)>>
        \o PrintValue(v.items[i], format, depth + 1)
        \o <<PieceOf(Len(ends(i)) + 1, ends(i), 1)>>
      close == IF format THEN PieceOf(depth + 2, Tabs(depth) \o <<"}">>, 1)
               ELSE PieceOf(2, <<"}">>, 1)
  IN  <<PieceOf(Len(open) + 1, open, 0)>>
      \o FlattenSeq([i \in DOMAIN v.items |-> member(i)]) \o <<close>>

PrintValue(v, format, depth) ==
  CASE v.type \in {"null", "true", "false"} ->
         <<PieceOf(Width(v.type) + 1, <<v.type>>, 1)>>
    [] v.type = "number" ->
         <<PieceOf(Width(Printed(v.value)) + 1, <<Printed(v.value)>>, 1)>>
    [] v.type = "string" -> PrintString(v.value)
    [] v.type = "array"  -> PrintArray(v, format, depth)
    [] v.type = "object" -> PrintObject(v, format, depth)

\* print_value into the buffer b with memory for left more of them: the text
\* as far as it got, whether all of it, and whether every write was inside.
PrintInto(b, v, format, left) ==
  LET put(r, p) == IF ~r.ok THEN r ELSE
        LET e == Ensure(r.buffer, p.piece.need, r.left > 0) IN
        [ok     |-> e.given,
         inside |-> r.inside /\ (e.given => InsideBuffer(Write(e.buffer, p.piece))),
         left   |-> IF e.buffer.length > r.buffer.length THEN r.left - 1 ELSE r.left,
         text   |-> IF e.given THEN r.text \o p.text ELSE r.text,
         buffer |-> IF e.given THEN Write(e.buffer, p.piece) ELSE e.buffer]
  IN  FoldLeft(put, [ok |-> TRUE, inside |-> TRUE, left |-> left, text |-> <<>>,
                     buffer |-> b], PrintValue(v, format, 0))

\* cJSON_Print and PrintUnformatted: in the end the buffer is cut to the text.
PrintWhole(v, format, left) ==
  LET r == PrintInto(Buffer(DefaultBufferSize, FALSE), v, format, left - 1)
  IN  IF left = 0 THEN [text |-> NULL, inside |-> TRUE]
      ELSE [text |-> IF r.ok /\ r.left > 0 THEN r.text ELSE NULL, inside |-> r.inside]

\* cJSON_PrintBuffered, whose buffer begins with prebuffer bytes.
PrintBuffered(v, format, prebuffer, left) ==
  LET r == PrintInto(Buffer(prebuffer, FALSE), v, format, left - 1)
  IN  IF left = 0 THEN [text |-> NULL, inside |-> TRUE]
      ELSE [text |-> IF r.ok THEN r.text ELSE NULL, inside |-> r.inside]

\* cJSON_PrintPreallocated, into the caller's length bytes.
PrintPreallocated(v, format, length) ==
  LET r == PrintInto(Buffer(length, TRUE), v, format, 0)
  IN  [text |-> IF r.ok THEN r.text ELSE NULL, inside |-> r.inside]

\* The whole text, for comparison.
TextOf(v, format) == FlattenSeq([i \in DOMAIN PrintValue(v, format, 0) |->
                                   PrintValue(v, format, 0)[i].text])

-----------------------------------------------------------------------------
\* Parsing.  A parser goes on from place at with memory for left blocks; it
\* returns where it stopped, the memory left, and the item, NULL if it failed.
\* An item under construction is deleted by the parser that made it.
At(buf, i) == IF i \in DOMAIN buf THEN buf[i] ELSE "beyond"
Result(at, left, item) == [at |-> at, left |-> left, item |-> item]

\* buffer_skip_whitespace steps back from the end of the buffer.
RECURSIVE AfterBlanks(_, _)
AfterBlanks(buf, at) ==
  IF At(buf, at) \in Blank THEN AfterBlanks(buf, at + 1) ELSE at
SkipWhitespace(buf, at) ==
  IF at \notin DOMAIN buf THEN at
  ELSE IF AfterBlanks(buf, at) > Len(buf) THEN Len(buf) ELSE AfterBlanks(buf, at)

\* The place of the quote that ends the string whose characters begin at i;
\* past the end if there is none.
RECURSIVE StringEnd(_, _)
StringEnd(buf, i) ==
  CASE i \notin DOMAIN buf -> Len(buf) + 1
    [] At(buf, i) = Quote  -> i
    [] At(buf, i) = Slash  -> StringEnd(buf, i + 2)
    [] OTHER               -> StringEnd(buf, i + 1)

\* The characters from i to before end, up to a NUL among them; at is the
\* place of an escape that is none, or end.
RECURSIVE Unescaped(_, _, _)
Unescaped(buf, i, end) ==
  CASE i >= end -> [at |-> end, chars |-> <<>>]
    [] i < end /\ buf[i] # Slash ->
         LET r == Unescaped(buf, i + 1, end) IN [r EXCEPT !.chars = <<buf[i]>> \o @]
    [] i < end /\ buf[i] = Slash /\ buf[i + 1] \notin DOMAIN Unescape ->
         [at |-> i, chars |-> <<>>]
    [] OTHER ->
         LET r == Unescaped(buf, i + 2, end)
         IN  [r EXCEPT !.chars = <<Unescape[buf[i + 1]]>> \o @]
CString(s) == IF \E i \in DOMAIN s : s[i] = "NUL"
              THEN SubSeq(s, 1, SelectInSeq(s, LAMBDA c : c = "NUL") - 1) ELSE s

\* parse_string; the item is the string without its item.
ParseString(buf, at, left) ==
  LET end == StringEnd(buf, at + 1)
      r   == Unescaped(buf, at + 1, end)
  IN  IF At(buf, at) # Quote \/ end > Len(buf) \/ left = 0
      THEN Result(at + 1, left, NULL)
      ELSE IF r.at # end THEN Result(r.at, left, NULL)
      ELSE Result(end + 1, left - 1, CString(r.chars))

-----------------------------------------------------------------------------
RECURSIVE ParseValue(_, _, _, _)

\* The elements of an array from place at on; done has those before it.
RECURSIVE ParseElements(_, _, _, _, _)
ParseElements(buf, at, depth, left, done) ==
  LET more(v, next, all) ==
        CASE At(buf, next) = "," -> ParseElements(buf, next + 1, depth, v.left, all)
          [] At(buf, next) = "]" -> Result(next + 1, v.left, Array(all))
          [] OTHER -> Result(next, v.left + BlocksOf(all), NULL)
      read(v) == IF v.item = NULL THEN Result(v.at, v.left + BlocksOf(done) + 1, NULL)
                 ELSE more(v, SkipWhitespace(buf, v.at), Append(done, v.item))
  IN  IF left = 0 THEN Result(at - 1, BlocksOf(done), NULL)
      ELSE read(ParseValue(buf, SkipWhitespace(buf, at), depth, left - 1))

\* The members of an object.  A name is parsed as the item's text and then
\* becomes its name; past the end of buf there is no quote.
RECURSIVE ParseMembers(_, _, _, _, _)
ParseMembersUnnamed(buf, at, depth, left, done) ==   \* Mutant: names stay behind
  LET more(v, next, all) ==
        CASE At(buf, next) = "," -> ParseMembers(buf, next + 1, depth, v.left, all)
          [] At(buf, next) = "}" -> Result(next + 1, v.left, Object(all))
          [] OTHER -> Result(next, v.left + BlocksOf(all), NULL)
      read(k, v) == IF v.item = NULL THEN Result(v.at, v.left + BlocksOf(done) + 1, NULL)
                    ELSE more(v, SkipWhitespace(buf, v.at),
                              Append(done, Called(v.item, k.item)))
      after(k, colon) == IF At(buf, colon) # ":"
                         THEN Result(colon, k.left + BlocksOf(done) + 1, NULL)
                         ELSE read(k, ParseValue(buf, SkipWhitespace(buf, colon + 1),
                                                 depth, k.left))
      named(k) == IF k.item = NULL THEN Result(k.at, k.left + BlocksOf(done) + 1, NULL)
                  ELSE after(k, SkipWhitespace(buf, k.at))
  IN  IF left = 0 THEN Result(at - 1, BlocksOf(done), NULL)
      ELSE named(ParseString(buf, SkipWhitespace(buf, at), left - 1))
ParseMembers(buf, at, depth, left, done) ==
  LET more(v, next, all) ==
        CASE At(buf, next) = "," -> ParseMembers(buf, next + 1, depth, v.left, all)
          [] At(buf, next) = "}" -> Result(next + 1, v.left, Object(all))
          [] OTHER -> Result(next, v.left + BlocksOf(all), NULL)
      read(k, v) == IF v.item = NULL THEN Result(v.at, v.left + BlocksOf(done) + 2, NULL)
                    ELSE more(v, SkipWhitespace(buf, v.at),
                              Append(done, Called(v.item, k.item)))
      after(k, colon) == IF At(buf, colon) # ":"
                         THEN Result(colon, k.left + BlocksOf(done) + 2, NULL)
                         ELSE read(k, ParseValue(buf, SkipWhitespace(buf, colon + 1),
                                                 depth, k.left))
      named(k) == IF k.item = NULL THEN Result(k.at, k.left + BlocksOf(done) + 1, NULL)
                  ELSE after(k, SkipWhitespace(buf, k.at))
  IN  IF left = 0 THEN Result(at - 1, BlocksOf(done), NULL)
      ELSE named(ParseString(buf, SkipWhitespace(buf, at), left - 1))

\* parse_array and parse_object: the bracket, what it holds, the nesting.
ParseNested(buf, at, depth, left, close) ==
  LET first == SkipWhitespace(buf, at + 1) IN
  IF depth >= NestingLimit THEN Result(at, left, NULL)
  ELSE IF At(buf, first) = close
  THEN Result(first + 1, left, IF close = "]" THEN Array(<<>>) ELSE Object(<<>>))
  ELSE IF first > Len(buf) THEN Result(first - 1, left, NULL)
  ELSE IF close = "]" THEN ParseElements(buf, first, depth + 1, left, <<>>)
  ELSE ParseMembers(buf, first, depth + 1, left, <<>>)

ParseArray(buf, at, depth, left) == ParseNested(buf, at, depth, left, "]")
ParseObject(buf, at, depth, left) == ParseNested(buf, at, depth, left, "}")

ParseValue(buf, at, depth, left) == LET c == At(buf, at) IN
  CASE c \in {"null", "false", "true"} -> Result(at + 1, left, Scalar(c))
    [] c = Quote ->
         LET s == ParseString(buf, at, left)
         IN  IF s.item = NULL THEN s ELSE [s EXCEPT !.item = Text(s.item)]
    [] c \in DOMAIN NumberOf -> Result(at + 1, left, Number(NumberOf[c]))
    [] c = "[" -> ParseArray(buf, at, depth, left)
    [] c = "{" -> ParseObject(buf, at, depth, left)
    [] OTHER   -> Result(at, left, NULL)

\* cJSON_ParseWithLengthOpts: the item or NULL, the memory left, and where
\* parsing ended (return_parse_end) or the error is (cJSON_GetErrorPtr).
ParseWithLengthOptsLoose(buf, required, left) ==   \* Mutant: what follows is not looked at
  LET inside(i) == IF i <= Len(buf) THEN i ELSE Len(buf)
      read(v) == IF v.item = NULL THEN Result(inside(v.at), v.left + 1, NULL) ELSE v
  IN  IF buf = <<>> \/ left = 0 THEN Result(inside(1), left, NULL)
      ELSE read(ParseValue(buf, SkipWhitespace(buf, 1), 0, left - 1))
ParseWithLengthOpts(buf, required, left) ==
  LET inside(i) == IF i <= Len(buf) THEN i ELSE Len(buf)
      ended(v, end) == IF At(buf, end) = "NUL" THEN Result(end, v.left, v.item)
                       ELSE Result(inside(end), v.left + Blocks(v.item), NULL)
      read(v) == CASE v.item = NULL -> Result(inside(v.at), v.left + 1, NULL)
                   [] v.item # NULL /\ required -> ended(v, SkipWhitespace(buf, v.at))
                   [] OTHER -> v
  IN  IF buf = <<>> \/ left = 0 THEN Result(inside(1), left, NULL)
      ELSE read(ParseValue(buf, SkipWhitespace(buf, 1), 0, left - 1))

\* cJSON_ParseWithOpts: up to and with the NUL at the end of a C string.
ParseWithOpts(text, required, left) ==
  ParseWithLengthOpts(Append(text, "NUL"), required, left)

-----------------------------------------------------------------------------
\* cJSON_Minify, from place i of a C string on.
RECURSIVE MinifyString(_, _)
MinifyStringPlain(s, i) ==   \* Mutant: every quote ends it
  IF i > Len(s) THEN [text |-> <<>>, at |-> i]
  ELSE IF s[i] = Quote THEN [text |-> <<Quote>>, at |-> i + 1]
  ELSE LET r == MinifyString(s, i + 1) IN [r EXCEPT !.text = <<s[i]>> \o @]
MinifyString(s, i) ==   \* inside a string: its text, and the place after it
  CASE i > Len(s)   -> [text |-> <<>>, at |-> i]
    [] i <= Len(s) /\ s[i] = Quote -> [text |-> <<Quote>>, at |-> i + 1]
    [] i <= Len(s) /\ s[i] = Slash /\ At(s, i + 1) = Quote ->
         LET r == MinifyString(s, i + 2)
         IN  [r EXCEPT !.text = <<Slash, Quote>> \o @]
    [] OTHER ->
         LET r == MinifyString(s, i + 1) IN [r EXCEPT !.text = <<s[i]>> \o @]

\* The place after a comment that begins at i.
CommentEnd(s, i, last) ==
  LET ends == {j \in (i + 2)..(Len(s) + 1 - Len(last)) :
                 SubSeq(s, j, j + Len(last) - 1) = last}
  IN  IF ends = {} THEN Len(s) + 1
      ELSE (CHOOSE j \in ends : \A m \in ends : j <= m) + Len(last)

RECURSIVE MinifyFrom(_, _)
MinifyFrom(s, i) ==
  CASE i > Len(s) -> <<>>
    [] At(s, i) \in {" ", "TAB", "LF"} -> MinifyFrom(s, i + 1)
    [] At(s, i) = "/" /\ At(s, i + 1) = "/" -> MinifyFrom(s, CommentEnd(s, i, <<"LF">>))
    [] At(s, i) = "/" /\ At(s, i + 1) = "*" ->
         MinifyFrom(s, CommentEnd(s, i, <<"*", "/">>))
    [] At(s, i) = "/" /\ At(s, i + 1) \notin {"/", "*"} -> MinifyFrom(s, i + 1)
    [] At(s, i) = Quote -> LET r == MinifyString(s, i + 1)
                           IN  <<Quote>> \o r.text \o MinifyFrom(s, r.at)
    [] OTHER -> <<s[i]>> \o MinifyFrom(s, i + 1)
Minify(s) == MinifyFrom(s, 1)
=============================================================================
