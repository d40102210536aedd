---------------------------- MODULE SerialLine ----------------------------
(***************************************************************************)
(* The serial port as the driver sees it: the open descriptors, the line   *)
(* speed of the tty and its input queue (src/core/3rd/uart/uart.c), with    *)
(* the two directions of the wire behind it.                               *)
(*                                                                         *)
(* A frame is [cmd, val, new]: the command it belongs to, the byte of its  *)
(* data field the driver looks at, and whether it answers the request      *)
(* issued last.  `new' is a history field: no code reads it, and issuing   *)
(* a request turns it off in everything that is still on its way.          *)
(* A frame in the input queue also has `left', the bytes of it a read has  *)
(* not taken yet, so that a read may cut a frame in two.                   *)
(***************************************************************************)
EXTENDS Naturals, Integers, Sequences, FiniteSets, FiniteSetsExt

CONSTANTS
  Bauds,     \* line speeds a device or a caller may use
  Settable,  \* the speeds in the table of serial_set
  Vmin,      \* bytes a read waits for unless the line falls silent
  Chunk      \* bytes the UART hands to the tty at a time

ASSUME LineAssumption ==
  /\ Bauds \subseteq Nat
  /\ Settable \subseteq Bauds
  /\ Settable # {}
  /\ Vmin \in Nat \ {0}
  /\ Chunk \in Nat \ {0}

VARIABLES
  fds,      \* descriptors this process has open on the port
  ttyBaud,  \* speed the tty is set to; it outlives the descriptors
  rx,       \* input queue of the tty
  toDev,    \* requests on the wire
  toHost    \* replies on the wire

lineVars == <<fds, ttyBaud, rx, toDev, toHost>>

Byte == 0..255
Err  == 255     \* RECV_DATA_VALUE_ERR

Cmd == {"SET_BTRATE", "SET_DEV_ADDR", "GET_DEV_ADDR", "GET_G", "GET_W",
        "SET_OUTPUT_MODE", "SET_AUTO_OUTPUT_TYPE", "READ_ALL_DATA",
        "GYROSCOPE_CALIB", "SAVE_CONFIG"}

\* Bytes in the data field of the answer to cmd, and in the whole frame.
PayloadLen(cmd) ==
  CASE cmd \in {"GET_G", "GET_W"} -> 9
    [] cmd = "READ_ALL_DATA"      -> 43
    [] OTHER                      -> 1
FrameLen(cmd) == PayloadLen(cmd) + 5

\* What a buffer holds that is not one whole frame.
Junk  == [cmd |-> "JUNK", val |-> 0, new |-> FALSE]
Frame == [cmd : Cmd, val : Byte, new : BOOLEAN] \cup {Junk}

-----------------------------------------------------------------------------
\* open returns the lowest free number; 0, 1 and 2 are taken.
LowestFree(S) ==
  CHOOSE n \in 3..(3 + Cardinality(S)) :
    n \notin S /\ \A m \in 3..(n - 1) : m \in S

\* Deviation: the speed is never set.
SerialInitKeepsSpeed(speed, n) ==
  /\ n = LowestFree(fds)
  /\ fds' = fds \cup {n}
  /\ rx' = <<>>
  /\ UNCHANGED <<ttyBaud, toDev, toHost>>

\* serial_init succeeds with descriptor n: a speed outside the table of
\* serial_set leaves the tty at the speed it had, and the input is flushed.
SerialInit(speed, n) ==
  /\ n = LowestFree(fds)
  /\ fds' = fds \cup {n}
  /\ ttyBaud' = IF speed \in Settable THEN speed ELSE ttyBaud
  /\ rx' = <<>>
  /\ UNCHANGED <<toDev, toHost>>

\* serial_init returns -1: open failed, or serial_set did and the
\* descriptor stays open.
SerialInitFails ==
  /\ \/ UNCHANGED fds
     \/ fds' = fds \cup {LowestFree(fds)}
  /\ UNCHANGED <<ttyBaud, rx, toDev, toHost>>

\* The last close of the tty discards its input.
Close(n) ==
  /\ fds' = fds \ {n}
  /\ rx' = IF fds' = {} THEN <<>> ELSE rx
  /\ UNCHANGED <<ttyBaud, toDev, toHost>>

-----------------------------------------------------------------------------
\* Bytes in the first i frames of queue s.
BytesTo(s, i) == MapThenSumSet(LAMBDA j : s[j].left, 1..i)
Bytes(s)      == BytesTo(s, Len(s))

\* Queue s without its first n bytes: without the frames that end in them, and
\* with what they leave of the next.
Unread(s, n) ==
  LET gone == Cardinality({i \in 1..Len(s) : BytesTo(s, i) <= n})
  IN  [i \in 1..(Len(s) - gone) |->
        [s[gone + i] EXCEPT !.left = Min({@, BytesTo(s, gone + i) - n})]]

\* What one read of at most max bytes may return: it wakes up at Vmin bytes,
\* when the newest frame may still be arriving chunk by chunk, or takes less
\* once the line has been silent for VTIME.
ReadSizes(s, max) ==
  LET hi == Min({Bytes(s), max})
      lo == Min({hi, Max({Vmin, BytesTo(s, Len(s) - 1)})})
  IN  {n \in lo..hi : n = hi \/ (n - lo) % Chunk = 0}

\* The start of the reader's buffer once it has read from queue s.
HeadFrame(s) ==
  IF s[1].cmd \in Cmd /\ s[1].left = FrameLen(s[1].cmd)
  THEN [cmd |-> s[1].cmd, val |-> s[1].val, new |-> s[1].new]
  ELSE Junk

\* Issuing a request makes everything on its way an answer to an older one.
Age(s) == [i \in 1..Len(s) |-> [s[i] EXCEPT !.new = FALSE]]

\* serial_send of request q: a descriptor that is not open sends nothing.
SerialSend(n, q) ==
  /\ toDev'  = IF n \in fds THEN Append(Age(toDev), q) ELSE Age(toDev)
  /\ toHost' = Age(toHost)
  /\ rx'     = Age(rx)
  /\ UNCHANGED <<fds, ttyBaud>>
=============================================================================
