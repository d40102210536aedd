--------------------------- MODULE Printer_proof --------------------------------
(***************************************************************************)
(* No printer that asks for as much as it writes writes past its buffer, for *)
(* every size of buffer, every sequence of pieces, every INT_MAX, with and  *)
(* without realloc, and whatever allocations fail.                         *)
(***************************************************************************)
EXTENDS Printer, TLAPS

\* The fields of a buffer and what they hold.
IsBuffer(b) ==
  b \in [held : BOOLEAN, length : Nat, offset : Nat, noalloc : BOOLEAN,
         wrote : Nat, copied : Nat, limit : Nat]

\* InsideBuffer is inductive once the fields have their types.
IInv == IsBuffer(buffer) /\ InsideBuffer(buffer)

\* A buffer stays one when fields get values of their types.
LEMMA WrittenIsBuffer ==
  ASSUME NEW c, IsBuffer(c), NEW x \in Nat, NEW y \in Nat
  PROVE  IsBuffer([c EXCEPT !.wrote = x, !.offset = y])
BY DEF IsBuffer

LEMMA GrownIsBuffer ==
  ASSUME NEW c, IsBuffer(c), NEW x \in Nat, NEW y \in Nat, NEW z \in Nat
  PROVE  IsBuffer([c EXCEPT !.length = x, !.copied = y, !.limit = z])
BY DEF IsBuffer

\* A new length has room for what was asked for, and is a length an int holds.
LEMMA NewSizeIsEnough ==
  ASSUME NEW needed \in Nat, NewSize(needed) # 0
  PROVE  NewSize(needed) \in Nat /\ NewSize(needed) >= needed /\ NewSize(needed) <= IntMax
<1> IntMax \in Nat \ {0}
  BY PrintBufferAssumption
<1>1. CASE needed > IntMax \div 2
  BY <1>1 DEF NewSize
<1>2. CASE ~(needed > IntMax \div 2)
  BY <1>2 DEF NewSize
<1> QED
  BY <1>1, <1>2

\* What ensure grants lies inside the buffer with a byte to spare, and what it
\* copies on the way was inside the old one, unless that one has length 0
\* (cJSON.c:439-522).
THEOREM EnsureGrantsRoom ==
  ASSUME NEW b, IsBuffer(b), InsideBuffer(b), NEW need \in Nat, NEW memory \in BOOLEAN
  PROVE  LET e == Ensure(b, need, memory) IN
         /\ IsBuffer(e.buffer)
         /\ InsideBuffer(e.buffer)
         /\ e.given => /\ e.buffer.held
                       /\ e.buffer.offset = b.offset
                       /\ b.offset + need < e.buffer.length
<1> DEFINE needed == need + b.offset + 1
           e == Ensure(b, need, memory)
<1>a. IntMax \in Nat \ {0} /\ Reallocates \in BOOLEAN
  BY PrintBufferAssumption
<1>b. needed \in Nat
  BY DEF IsBuffer
<1>1. CASE ~b.held \/ (b.length > 0 /\ b.offset >= b.length) \/ need > IntMax
  <2>1. e = [given |-> FALSE, buffer |-> b]
    BY <1>1 DEF Ensure
  <2> QED
    BY <2>1
<1>2. CASE /\ ~(~b.held \/ (b.length > 0 /\ b.offset >= b.length) \/ need > IntMax)
           /\ needed <= b.length
  <2>1. e = [given |-> TRUE, buffer |-> b]
    BY <1>2 DEF Ensure
  <2>2. b.held /\ b.offset + need < b.length
    BY <1>2 DEF IsBuffer
  <2> QED
    BY <2>1, <2>2
<1>3. CASE /\ ~(~b.held \/ (b.length > 0 /\ b.offset >= b.length) \/ need > IntMax)
           /\ ~(needed <= b.length)
           /\ b.noalloc \/ NewSize(needed) = 0
  <2>1. e = [given |-> FALSE, buffer |-> b]
    BY <1>3 DEF Ensure
  <2> QED
    BY <2>1
<1>4. CASE /\ ~(~b.held \/ (b.length > 0 /\ b.offset >= b.length) \/ need > IntMax)
           /\ ~(needed <= b.length)
           /\ ~(b.noalloc \/ NewSize(needed) = 0)
           /\ ~memory
  <2>1. e = [given |-> FALSE, buffer |-> [b EXCEPT !.held = FALSE, !.length = 0]]
    BY <1>4 DEF Ensure
  <2> DEFINE f == [b EXCEPT !.held = FALSE, !.length = 0]
  <2>2. IsBuffer(f) /\ ~f.held
    BY DEF IsBuffer
  <2>3. InsideBuffer(f)
    BY <2>2 DEF InsideBuffer
  <2>4. ~e.given /\ e.buffer = f
    BY <2>1
  <2> HIDE DEF e, f
  <2> QED
    BY <2>2, <2>3, <2>4 DEF e
<1>5. CASE /\ ~(~b.held \/ (b.length > 0 /\ b.offset >= b.length) \/ need > IntMax)
           /\ ~(needed <= b.length)
           /\ ~(b.noalloc \/ NewSize(needed) = 0)
           /\ memory
  <2> DEFINE g == [b EXCEPT !.length = NewSize(needed),
                            !.copied = IF Reallocates THEN 0 ELSE b.offset + 1,
                            !.limit  = b.length]
  <2>1. e = [given |-> TRUE, buffer |-> g]
    BY <1>5 DEF Ensure
  <2>2. /\ NewSize(needed) \in Nat /\ NewSize(needed) >= needed
    BY <1>5, <1>b, NewSizeIsEnough
  <2>3. IsBuffer(g)
    <3>1. /\ (IF Reallocates THEN 0 ELSE b.offset + 1) \in Nat
          /\ b.length \in Nat
      BY <1>a DEF IsBuffer
    <3> QED
      BY <3>1, <2>2, GrownIsBuffer
  <2>4. /\ g.held /\ g.offset = b.offset /\ g.wrote = b.wrote
        /\ g.length = NewSize(needed) /\ g.limit = b.length
        /\ g.copied = IF Reallocates THEN 0 ELSE b.offset + 1
    BY <1>5 DEF IsBuffer
  <2>5. b.wrote <= b.length /\ (b.offset < b.length \/ (b.offset = 0 /\ b.length = 0))
    BY <1>5 DEF InsideBuffer
  <2>6. b.length < needed
    BY <1>5, <1>b DEF IsBuffer
  <2>7. g.wrote <= g.length /\ b.offset + need < g.length
    BY <2>2, <2>4, <2>5, <2>6 DEF IsBuffer
  <2>10. g.copied <= g.limit \/ CopiedFromNothing(g)
    <3>1. CASE Reallocates
      BY <2>4, <3>1 DEF IsBuffer
    <3>2. CASE ~Reallocates /\ b.offset < b.length
      BY <2>4, <3>2 DEF IsBuffer
    <3>3. CASE ~Reallocates /\ b.offset = 0 /\ b.length = 0
      BY <2>4, <3>3 DEF IsBuffer, CopiedFromNothing
    <3> QED
      BY <1>a, <2>5, <3>1, <3>2, <3>3
  <2>8. b.offset < g.length
    BY <2>7, <2>2, <2>4 DEF IsBuffer
  <2>9. InsideBuffer(g)
    BY <2>4, <2>7, <2>8, <2>10 DEF InsideBuffer
  <2> HIDE DEF g
  <2> QED
    BY <2>1, <2>3, <2>4, <2>7, <2>9
<1> QED
  BY <1>1, <1>2, <1>3, <1>4, <1>5

\* One piece more keeps the buffer's promises.
LEMMA PutInside ==
  ASSUME IInv, NEW piece, Honest(piece), NEW memory \in BOOLEAN, Put(piece, memory)
  PROVE  IInv'
<1> DEFINE e == Ensure(buffer, piece.need, memory)
<1>1. /\ IsBuffer(e.buffer) /\ InsideBuffer(e.buffer)
      /\ e.given => /\ e.buffer.held
                    /\ e.buffer.offset + piece.need < e.buffer.length
  BY EnsureGrantsRoom DEF IInv, Honest
<1>2. CASE ~e.given
  BY <1>1, <1>2 DEF Put, IInv
<1>3. CASE e.given
  <2> DEFINE c == e.buffer
             w == Write(c, piece)
  <2>1. buffer' = w
    BY <1>3 DEF Put
  <2>2. c.offset \in Nat /\ c.length \in Nat /\ c.held
    BY <1>1, <1>3 DEF IsBuffer
  <2>3. IsBuffer(w)
    <3>1. /\ c.offset + piece.width \in Nat
          /\ c.offset + piece.width + piece.nul \in Nat
      BY <2>2 DEF Honest
    <3> QED
      BY <3>1, <1>1, WrittenIsBuffer DEF Write
  <2>4. /\ w.wrote = c.offset + piece.width + piece.nul
        /\ w.offset = c.offset + piece.width
        /\ w.length = c.length /\ w.copied = c.copied /\ w.limit = c.limit
    BY <1>1 DEF IsBuffer, Write
  <2>5. w.wrote <= w.length /\ w.offset < w.length
    BY <1>1, <1>3, <2>2, <2>4 DEF Honest
  <2>6. w.copied <= w.limit \/ CopiedFromNothing(w)
    BY <1>1, <2>2, <2>4 DEF InsideBuffer, CopiedFromNothing
  <2> QED
    BY <2>1, <2>3, <2>5, <2>6 DEF IInv, InsideBuffer
<1> QED
  BY <1>2, <1>3

\* For every length of the first buffer, 0 included, nothing is ever written
\* past the end, nor copied from past the end of the old buffer, except that
\* growing a buffer of length 0 without realloc copies one byte (cJSON.c:515).
THEOREM PrintsInside == Spec => []Inside
<1>1. Init => IInv
  <2> SUFFICES ASSUME NEW length \in Nat, NEW noalloc \in BOOLEAN,
                      buffer = Buffer(length, noalloc)
               PROVE  IInv
    BY DEF Init
  <2>1. IsBuffer(buffer)
    BY DEF Buffer, IsBuffer
  <2>2. /\ buffer.wrote = 0 /\ buffer.copied = 0 /\ buffer.offset = 0
        /\ buffer.length = length /\ buffer.limit = length
    BY DEF Buffer
  <2> QED
    BY <2>1, <2>2 DEF IInv, InsideBuffer
<1>2. IInv /\ [Next]_buffer => IInv'
  <2> SUFFICES ASSUME IInv, [Next]_buffer PROVE IInv'
    OBVIOUS
  <2>1. CASE Next
    <3>1. PICK need \in Nat, width \in Nat, nul \in {0, 1}, memory \in BOOLEAN :
            /\ Honest(Piece(need, width, nul))
            /\ Put(Piece(need, width, nul), memory)
      BY <2>1 DEF Next
    <3> QED
      BY <3>1, PutInside
  <2>2. CASE UNCHANGED buffer
    BY <2>2 DEF IInv
  <2> QED
    BY <2>1, <2>2
<1>3. IInv => Inside
  BY DEF IInv, Inside
<1> QED
  BY <1>1, <1>2, <1>3, PTL DEF Spec
=============================================================================
