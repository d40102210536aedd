------------------------------ MODULE MCJsonDocs ------------------------------
(***************************************************************************)
(* Documents, damages and patches for JsonDocs.                             *)
(***************************************************************************)
EXTENDS JsonDocs

LOCAL INSTANCE SequencesExt

Of(k, v) == Called(v, <<k>>)

\* Every type, empty and not, every escape, numbers that are not finite, and
\* arrays and objects to one level more than the limit.
MCTextDocs ==
  {Object(<<Of("a", Number("1")), Of("b", Array(<<Scalar("true"), Scalar("false")>>))>>),
   Array(<<Number("-2.5"), Number("inf")>>),
   Object(<<Called(Text(<<"SOH", Slash, "b">>), <<Quote>>), Called(Text(<<>>), <<"LF">>)>>),
   Text(<<"TAB", "/", Slash>>), Array(<<Text(<<Slash>>), Scalar("true")>>),
   Array(<<Object(<<Of("a", Object(<<>>)), Of("b", Array(<<>>))>>)>>),
   Array(<<Object(<<Of("a", Array(<<Object(<<>>)>>))>>)>>),
   Scalar("null")}

\* Objects with up to three members, some of them in an order that sorting
\* changes, and values of every kind.
MCPatchDocs ==
  {Number("1"), Array(<<Number("-2.5")>>), Object(<<>>),
   Array(<<Object(<<Of("a", Number("1"))>>), Scalar("true"), Text(<<"a">>)>>),
   Object(<<Of("a", Number("1")), Of("b", Number("1"))>>),
   Object(<<Of("b", Number("-2.5")), Of("a", Object(<<Of("b", Scalar("true"))>>))>>),
   Object(<<Of("b", Number("1")), Of("A", Array(<<Number("1")>>))>>),
   Object(<<Of("1", Array(<<Number("1"), Scalar("null"), Number("1")>>)),
            Of("b", Object(<<>>)), Of("a", Text(<<"b">>))>>),
   Object(<<Of("a", Object(<<Of("2", Number("1")), Of("1", Scalar("true"))>>))>>),
   Object(<<Called(Number("1"), <<"a", "/", "b">>), Called(Number("-2.5"), <<"a", "~">>),
            Of("A", Number("1")), Of("a", Scalar("null"))>>)}

ByHand(op, from, path, value) == [Patch(op, path, value) EXCEPT !.from = from]
A == <<"a">>
MCHandPatches ==
  {ByHand("add", NULL, <<A>>, Array(<<>>)), ByHand("add", NULL, <<A>>, NULL),
   ByHand("add", NULL, <<<<"1">>>>, Scalar("true")),
   ByHand("add", NULL, <<<<"2">>>>, Scalar("true")),
   ByHand("add", NULL, <<<<"0", "1">>>>, Scalar("true")),
   ByHand("add", NULL, <<A, <<"b">>>>, Number("1")),
   ByHand("add", NULL, <<<<"1">>, <<"-">>>>, Number("1")),
   ByHand("replace", NULL, <<>>, Object(<<>>)), ByHand("remove", NULL, <<>>, NULL),
   ByHand("replace", NULL, <<A>>, Text(<<"a">>)), ByHand("remove", NULL, <<<<"0">>>>, NULL),
   ByHand("move", <<A>>, <<<<"b">>>>, NULL), ByHand("move", <<A>>, <<A, <<"b">>>>, NULL),
   ByHand("move", <<<<"1">>>>, <<<<"0">>>>, NULL),
   ByHand("copy", <<<<"b">>>>, <<A>>, NULL), ByHand("copy", <<A>>, <<<<"1">>, <<"1">>>>, NULL),
   ByHand("copy", NULL, <<A>>, NULL), ByHand("test", NULL, <<<<"b">>>>, Number("1")),
   ByHand("test", NULL, <<A>>, Object(<<Of("b", Scalar("true"))>>)),
   ByHand("test", NULL, <<>>, Object(<<Of("b", Number("1")), Of("a", Number("1"))>>)),
   ByHand("spread", NULL, <<A>>, NULL), ByHand("add", NULL, NULL, Number("1"))}

MCLengths == {0, 1} \cup 3..12 \cup {20, 40}
MCMemory  == 0..7 \cup {20}
MCDamage  == {Quote, Slash, ",", "]", "}", ":", "1", "1.0", "1e999", "LF", "SOH", "u0000",
              "u00zz", "u0001", "uD800", "/"}
=============================================================================
