------------------------------ MODULE PrintBuffer ------------------------------
(***************************************************************************)
(* The buffer the printer of cJSON.c writes into.  Before each piece of    *)
(* text the printer asks for room (ensure), writes, and moves on.  The     *)
(* buffer grows unless the caller supplied it; what a write may touch is   *)
(* settled here and nowhere else.                                          *)
(***************************************************************************)
EXTENDS Integers

CONSTANTS IntMax,       \* INT_MAX
          Reallocates   \* is there a realloc (cJSON_InitHooks took none away)

ASSUME PrintBufferAssumption == IntMax \in Nat \ {0} /\ Reallocates \in BOOLEAN

\* struct printbuffer; held: buffer is not NULL.  wrote and copied are the
\* furthest bytes written and copied since, limit the room there was for them.
Buffer(length, noalloc) ==
  [held |-> TRUE, length |-> length, offset |-> 0, noalloc |-> noalloc,
   wrote |-> 0, copied |-> 0, limit |-> length]

\* The length ensure gives the buffer so that needed bytes fit, 0 if it cannot.
NewSize(needed) ==
  IF needed > IntMax \div 2 THEN IF needed <= IntMax THEN IntMax ELSE 0
  ELSE needed * 2

\* A piece of text: the room asked for, the bytes written, of which the last
\* ones (the terminating NUL) are not moved over.
Piece(need, width, nul) == [need |-> need, width |-> width, nul |-> nul]

\* ensure: what becomes of the buffer b if need more bytes are asked for; given
\* says whether they were granted, memory whether the allocation succeeds.
EnsureTight(b, need, memory) ==   \* Mutant: the room already used is forgotten
  LET needed == need + 1 IN
  IF ~b.held \/ (b.length > 0 /\ b.offset >= b.length) \/ need > IntMax
  THEN [given |-> FALSE, buffer |-> b]
  ELSE IF needed <= b.length THEN [given |-> TRUE, buffer |-> b]
  ELSE IF b.noalloc \/ NewSize(needed) = 0 THEN [given |-> FALSE, buffer |-> b]
  ELSE IF ~memory
  THEN [given |-> FALSE, buffer |-> [b EXCEPT !.held = FALSE, !.length = 0]]
  ELSE [given |-> TRUE,
        buffer |-> [b EXCEPT !.length = NewSize(needed)]]
Ensure(b, need, memory) ==
  LET needed == need + b.offset + 1 IN
  IF ~b.held \/ (b.length > 0 /\ b.offset >= b.length) \/ need > IntMax
  THEN [given |-> FALSE, buffer |-> b]
  ELSE IF needed <= b.length THEN [given |-> TRUE, buffer |-> b]
  ELSE IF b.noalloc \/ NewSize(needed) = 0 THEN [given |-> FALSE, buffer |-> b]
  ELSE IF ~memory
  THEN [given |-> FALSE, buffer |-> [b EXCEPT !.held = FALSE, !.length = 0]]
  ELSE [given |-> TRUE,
        buffer |-> [b EXCEPT !.length = NewSize(needed),
                             !.copied = IF Reallocates THEN 0 ELSE b.offset + 1,
                             !.limit  = b.length]]

\* A piece that has been granted is written and, for its width, moved over.
Write(b, piece) ==
  [b EXCEPT !.wrote = b.offset + piece.width + piece.nul,
            !.offset = @ + piece.width]

\* A printer that asks, for each piece, for as much as it writes.
Honest(piece) ==
  /\ piece.need \in Nat /\ piece.width \in Nat /\ piece.nul \in {0, 1}
  /\ piece.width + piece.nul <= piece.need

\* A buffer of length 0 has no byte, and yet one is copied out of it when it
\* grows without a realloc (cJSON.c:515).
CopiedFromNothing(b) == ~Reallocates /\ b.limit = 0 /\ b.copied = 1

\* What the buffer promises: nothing is written past its end; nothing is copied
\* from past the end of the old one, but for that one byte; and there is room
\* for the final NUL, unless the length is still 0.
InsideBuffer(b) ==
  b.held => /\ b.wrote <= b.length
            /\ b.copied <= b.limit \/ CopiedFromNothing(b)
            /\ b.offset < b.length \/ (b.offset = 0 /\ b.length = 0)
=============================================================================
