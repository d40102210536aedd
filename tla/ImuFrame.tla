------------------------------ MODULE ImuFrame ------------------------------
(***************************************************************************)
(* The frame format of src/imu_300_vg.[ch] byte by byte: filling a send    *)
(* buffer, checking a received one and taking the data field out of it.    *)
(* A buffer is a function from 0..BufSize-1 to bytes.                      *)
(*                                                                         *)
(* One frame with chosen command, address and data is sent over a wire     *)
(* that may damage one byte of it, or one of the frames that the comments  *)
(* quote is received.  ImuSample decodes what arrives.                     *)
(***************************************************************************)
EXTENDS Integers, Sequences, FiniteSets, FiniteSetsExt

CONSTANTS
  BufSize,   \* size of the buffers (64 and 128 in the code)
  Codes,     \* command words that are sent
  Addrs,     \* values of g_dev_addr
  DataSet,   \* data fields that are sent, as sequences of bytes
  Flips      \* what damage adds to a byte, modulo 256

Byte == 0..255

\* Lengths are unsigned chars: a frame of 256 bytes would be sent as none.
ASSUME FrameAssumption ==
  /\ BufSize \in 48..255
  /\ Codes \subseteq Byte /\ Addrs \subseteq Byte /\ DataSet \subseteq Seq(Byte)
  /\ \A d \in DataSet : Len(d) + 5 <= BufSize
  /\ Flips \subseteq 1..255

Head77       == 119   \* PACKAGE_HEAD
GetAddrCode  == 31    \* CMD_SEND_GET_DEV_ADDR

\* Positions in a frame.
IHead == 0  ILen == 1  IAddr == 2  ICmd == 3  IData == 4

Zeroes == [i \in 0..BufSize - 1 |-> 0]

\* Deviation: the length byte is left out of the sum.
ChecksumNoLen(buff, n) == MapThenSumSet(LAMBDA i : buff[i], 2..n) % 256

\* The low byte of the sum of the n bytes that follow the head.
Checksum(buff, n) == MapThenSumSet(LAMBDA i : buff[i], 1..n) % 256

\* _gen_imx300_vg_cmd: the sum runs over the place of the checksum too, which
\* is still zero.
Gen(code, data, addr) ==
  LET n    == Len(data)
      body == [i \in 0..BufSize - 1 |->
                 CASE i = IHead                  -> Head77
                   [] i = ILen                   -> n + IData
                   [] i = IAddr                  -> IF code = GetAddrCode THEN 0 ELSE addr
                   [] i = ICmd                   -> code
                   [] i \in IData..(IData+n-1)   -> data[i - IData + 1]
                   [] OTHER                      -> 0]
  IN  [body EXCEPT ![IData + n] = Checksum(body, n + IData)]

\* What _gen_imx300_vg_cmd returns: the bytes to send.
GenLen(buff) == (buff[ILen] + 1) % 256

\* Deviation: the checksum is not compared.
CheckHeadOnly(buff) == buff[IHead] = Head77

\* _check_imx300_vg_cmd returns 0.  The length is the one the frame claims; a
\* place beyond the buffer is not looked at here (lengths stay below BufSize).
Check(buff) ==
  /\ buff[IHead] = Head77
  /\ LET n == buff[ILen] IN
       n < BufSize /\ Checksum(buff, n - 1) = buff[n]

\* Deviation: the checksum is not counted in the length.
PayloadLenShort(buff) == (buff[ILen] - IData - 1) % 256

\* imx300_vg_cmd_send_and_recv: the length it returns, an unsigned char, and
\* the data field it copies into a cleared array of max bytes.
PayloadLen(buff) == (buff[ILen] - IData) % 256
Payload(buff, max) ==
  [i \in 1..max |->
     IF i <= PayloadLen(buff) /\ IData + i - 1 < BufSize THEN buff[IData + i - 1] ELSE 0]

-----------------------------------------------------------------------------
\* The frame as imu_300_vg.h describes it (lines 4 to 50): head, length from
\* itself to the checksum, address, command word, data, checksum.
ProtocolFrame(code, data, addr) ==
  LET front == <<Len(data) + 4, IF code = GetAddrCode THEN 0 ELSE addr, code>> \o data
      sum   == MapThenSumSet(LAMBDA i : front[i], 1..Len(front))
  IN  <<Head77>> \o front \o <<sum % 256>>

\* The bytes of s at the start of a buffer whose other bytes are zero.
InBuffer(s) == [i \in 0..BufSize - 1 |-> IF i < Len(s) THEN s[i + 1] ELSE 0]

-----------------------------------------------------------------------------
VARIABLES
  code, addr, data,  \* what is sent
  sent,              \* the send buffer
  got,               \* the receive buffer
  hit                \* index of the damaged byte, -1 if none

frameVars == <<code, addr, data, sent, got, hit>>

\* The complete frames that comments quote, without placeholders for bytes: the
\* measurement at imu_300_vg.c:760, and those at imu_300_vg.h:59 and
\* imu_300_vg.c:367, 409, 440, 680.
Quoted ==
  {<<119, 47, 0, 89, 16, 0, 96, 16, 3, 6, 0, 0, 0, 16, 1, 7, 16, 5, 67, 1, 1,
     84, 16, 0, 19, 16, 0, 4, 0, 0, 9, 16, 135, 6, 53, 0, 1, 118, 145, 0, 2, 6,
     148, 0, 73, 17, 117, 92>>,
   <<119, 22, 0, 132, 16, 147, 118, 18, 152, 135, 0, 20, 3, 0, 1, 7, 0, 148,
     33, 16, 6, 48, 254>>,
   <<119, 4, 0, 31, 35>>,
   <<119, 13, 0, 84, 0, 1, 7, 0, 148, 33, 16, 6, 48, 100>>,
   <<119, 13, 0, 80, 16, 147, 118, 18, 152, 135, 0, 20, 3, 190>>,
   <<119, 5, 0, 11, 2, 18>>}

Untouched == sent = Zeroes /\ hit = -1

ToSend(c, a, d) == Untouched /\ got = Zeroes /\ code = c /\ addr = a /\ data = d
OnItsWay(q) ==
  /\ Untouched /\ got = InBuffer(q)
  /\ code = q[ICmd + 1] /\ addr = q[IAddr + 1] /\ data = SubSeq(q, IData + 1, Len(q) - 1)

FrameInit ==
  \/ \E c \in Codes, a \in Addrs, d \in DataSet : ToSend(c, a, d)
  \/ \E q \in Quoted : OnItsWay(q)

SendFrame ==
  /\ sent = Zeroes
  /\ sent' = Gen(code, data, addr)
  /\ UNCHANGED <<code, addr, data, got, hit>>

\* The frame reaches the receive buffer whole,
Arrive ==
  /\ sent # Zeroes /\ got = Zeroes
  /\ got' = sent
  /\ UNCHANGED <<code, addr, data, sent, hit>>

\* or with one byte changed.
ArriveDamaged ==
  /\ sent # Zeroes /\ got = Zeroes
  /\ \E i \in 0..GenLen(sent) - 1, d \in Flips :
       hit' = i /\ got' = [sent EXCEPT ![i] = (@ + d) % 256]
  /\ UNCHANGED <<code, addr, data, sent>>

FrameNext == SendFrame \/ Arrive \/ ArriveDamaged

-----------------------------------------------------------------------------
(* The frame sent is, byte for byte and in length, the one the header file   *)
(* describes, although the code sums over the checksum's own place.          *)
SentAsDescribed ==
  sent # Zeroes =>
    LET p == ProtocolFrame(code, data, addr) IN
      sent = InBuffer(p) /\ GenLen(sent) = Len(p)

(* A frame that arrives whole, or is one of those quoted, is accepted; the   *)
(* caller's array of max bytes gets as much of its data field as it can hold *)
(* and zeroes behind; and if it holds the field, the length returned is the  *)
(* field's (lines 201-260).                                                  *)
RoundTrip ==
  got # Zeroes /\ hit = -1 =>
    /\ Check(got)
    /\ \A max \in {1, 6, 32, 64} :
         /\ \A i \in 1..max :
              Payload(got, max)[i] = IF i <= Len(data) THEN data[i] ELSE 0
         /\ Len(data) <= max => PayloadLen(got) = Len(data)

(* One damaged byte is always noticed, be it in the head, the data or the    *)
(* checksum.  (In the length byte it need not be: another byte is then taken *)
(* for the checksum.)                                                        *)
DamageNoticed == hit # -1 /\ hit # ILen => ~Check(got)
=============================================================================
