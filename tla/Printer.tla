-------------------------------- MODULE Printer --------------------------------
(***************************************************************************)
(* Any printer on a buffer of cJSON.c: it puts piece after piece, of any    *)
(* sizes, into a buffer of any length, its own or the caller's, and any     *)
(* allocation may fail.  JsonText's printer is one of these.                *)
(***************************************************************************)
EXTENDS PrintBuffer

VARIABLE buffer

Init == \E length \in Nat, noalloc \in BOOLEAN : buffer = Buffer(length, noalloc)

Put(piece, memory) == LET e == Ensure(buffer, piece.need, memory) IN
  buffer' = IF e.given THEN Write(e.buffer, piece) ELSE e.buffer

Next == \E need, width \in Nat, nul \in {0, 1}, memory \in BOOLEAN :
          /\ Honest(Piece(need, width, nul))
          /\ Put(Piece(need, width, nul), memory)

Spec == Init /\ [][Next]_buffer

-----------------------------------------------------------------------------
\* Whatever is printed in whatever pieces into a buffer of whatever length,
\* nothing is written past its end, there is room for the NUL that ends the
\* text (cJSON.c:461), and nothing is copied from past the end of the old
\* buffer but the byte of CopiedFromNothing.
Inside == InsideBuffer(buffer)
=============================================================================
