-------------------------- MODULE ImuSample_proof --------------------------
(***************************************************************************)
(* The frame format of ImuFrame for every size of the buffers, every       *)
(* command word, address and data field, and every damage to a byte; and   *)
(* the decoding of ImuSample for every measurement that a device can send. *)
(***************************************************************************)
EXTENDS ImuSample, Sums_proof, SequenceTheorems

-----------------------------------------------------------------------------
(* The checksum.                                                             *)

LEMMA ChecksumTotal ==
  ASSUME NEW buff, NEW n
  PROVE  Checksum(buff, n) = Total(buff, 1..n) % 256
BY DEF Checksum, MapThenSumSet, MapThenFoldSet, Total, IsSum, Pick

Buffers == [0..BufSize - 1 -> Byte]

\* The bytes of a buffer are numbers.
LEMMA BytesNat ==
  ASSUME NEW buff \in Buffers, NEW n \in Nat, n < BufSize
  PROVE  IsFiniteSet(1..n) /\ \A i \in 1..n : buff[i] \in Nat
<1>1. BufSize \in Nat
  BY FrameAssumption
<1>2. IsFiniteSet(1..n)
  BY FS_Interval
<1>3. \A i \in 1..n : i \in 0..BufSize - 1
  BY <1>1
<1>4. \A i \in 0..BufSize - 1 : buff[i] \in Byte
  BY DEF Buffers
<1>5. Byte \subseteq Nat
  BY DEF Byte
<1> QED
  BY <1>2, <1>3, <1>4, <1>5

LEMMA LowByte ==
  ASSUME NEW t \in Nat
  PROVE  t % 256 \in Byte
BY DEF Byte

LEMMA ChecksumByte ==
  ASSUME NEW buff \in Buffers, NEW n \in Nat, n < BufSize
  PROVE  Total(buff, 1..n) \in Nat /\ Checksum(buff, n) \in Byte
<1>1. Total(buff, 1..n) \in Nat
  BY BytesNat, TotalNat
<1> QED
  BY <1>1, ChecksumTotal, LowByte

\* The checksum depends on the bytes it covers only.
LEMMA ChecksumSame ==
  ASSUME NEW a, NEW b, NEW n \in Nat, \A i \in 1..n : a[i] = b[i]
  PROVE  Checksum(a, n) = Checksum(b, n)
<1>1. IsFiniteSet(1..n)
  BY FS_Interval
<1> QED
  BY <1>1, TotalSame, ChecksumTotal

\* A zero more does not change it.
LEMMA ChecksumZero ==
  ASSUME NEW buff \in Buffers, NEW n \in Nat, n + 1 < BufSize, buff[n + 1] = 0
  PROVE  Checksum(buff, n + 1) = Checksum(buff, n)
<1>1. BufSize \in Nat /\ n + 1 \in Nat /\ n < BufSize
  BY FrameAssumption
<1>2. \A i \in 1..(n + 1) : buff[i] \in Nat
  BY <1>1, BytesNat
<1>3. Total(buff, 1..(n + 1)) = Total(buff, 1..n) + buff[n + 1]
  BY <1>2, TotalNext
<1>4. Total(buff, 1..n) \in Nat
  BY <1>1, ChecksumByte
<1>5. Total(buff, 1..(n + 1)) = Total(buff, 1..n)
  BY <1>3, <1>4
<1> QED
  BY <1>5, ChecksumTotal

\* Adding something to a byte, modulo 256, is noticed modulo 256.
LEMMA Wrapped ==
  ASSUME NEW b \in Byte, NEW d \in 1..255
  PROVE  (b + d) % 256 = b + d \/ (b + d) % 256 = b + d - 256
<1>1. b \in 0..255
  BY DEF Byte
<1>2. CASE b + d < 256
  <2>1. b + d \in 0..255
    BY <1>1, <1>2
  <2> QED
    BY <2>1
<1>3. CASE b + d >= 256
  <2>1. b + d - 256 \in 0..255
    BY <1>1, <1>3
  <2> DEFINE r == b + d - 256
  <2>2. b + d = r + 256 /\ r \in 0..255
    BY <1>1, <2>1
  <2> HIDE DEF r
  <2>3. (r + 256) % 256 = r
    BY <2>2
  <2> QED
    BY <2>2, <2>3 DEF r
<1> QED
  BY <1>1, <1>2, <1>3

LEMMA FlipByte ==
  ASSUME NEW b \in Byte, NEW d \in 1..255
  PROVE  /\ (b + d) % 256 \in Byte
         /\ (b + d) % 256 # b
         /\ ((b + d) % 256) - b \in -255..255
<1> DEFINE c == (b + d) % 256
<1>1. b \in 0..255 /\ b + d \in Nat
  BY DEF Byte
<1>2. c \in Byte
  BY <1>1, LowByte
<1>3. c = b + d \/ c = b + d - 256
  BY Wrapped
<1> HIDE DEF c
<1>4. c # b /\ c - b \in -255..255
  BY <1>1, <1>2, <1>3 DEF Byte
<1> QED
  BY <1>2, <1>4 DEF c

\* No two bytes differ by a multiple of 256.
LEMMA NotMultiple ==
  ASSUME NEW q \in Int, 256 * q \in -255..255
  PROVE  q = 0
<1>1. CASE q >= 1
  <2>1. 256 * q >= 256
    BY <1>1
  <2> QED
    BY <2>1
<1>2. CASE q <= -1
  <2>1. 256 * q <= -256
    BY <1>2
  <2> QED
    BY <2>1
<1> QED
  BY <1>1, <1>2

LEMMA SumDiffers ==
  ASSUME NEW b \in Nat, NEW c \in Nat, c # b, c - b \in -255..255, NEW rest \in Nat
  PROVE  (c + rest) % 256 # (b + rest) % 256
<1>1. SUFFICES ASSUME (c + rest) % 256 = (b + rest) % 256
               PROVE  FALSE
  OBVIOUS
<1> DEFINE x == c + rest
           y == b + rest
<1>2. x \in Nat /\ y \in Nat /\ x - y = c - b
  OBVIOUS
<1>3. x % 256 = y % 256
  BY <1>1
<1> HIDE DEF x, y
<1>4. x = 256 * (x \div 256) + (x % 256) /\ x \div 256 \in Int
  BY <1>2
<1>5. y = 256 * (y \div 256) + (y % 256) /\ y \div 256 \in Int
  BY <1>2
<1> DEFINE q == (x \div 256) - (y \div 256)
<1>6. x - y = 256 * q /\ q \in Int
  <2> DEFINE i == x \div 256
             j == y \div 256
             r == x % 256
  <2>1. i \in Int /\ j \in Int /\ x = 256 * i + r /\ y = 256 * j + r /\ r \in Int
    BY <1>2, <1>3, <1>4, <1>5
  <2> HIDE DEF i, j, r
  <2>2. x - y = 256 * (i - j) /\ i - j \in Int
    BY <1>2, <2>1
  <2> QED
    BY <2>2 DEF i, j
<1> HIDE DEF q
<1>7. q = 0
  BY <1>2, <1>6, NotMultiple
<1> QED
  BY <1>2, <1>6, <1>7

-----------------------------------------------------------------------------
(* The frame that is generated.                                              *)

\* What a frame can hold.
Fits(c, a, d) ==
  /\ c \in Byte /\ a \in Byte /\ d \in Seq(Byte)
  /\ Len(d) + 5 <= BufSize

SentAddr(c, a) == IF c = GetAddrCode THEN 0 ELSE a

\* The frame before its checksum.
Body(c, d, a) ==
  [i \in 0..BufSize - 1 |->
     CASE i = IHead                     -> Head77
       [] i = ILen                      -> Len(d) + IData
       [] i = IAddr                     -> SentAddr(c, a)
       [] i = ICmd                      -> c
       [] i \in IData..(IData+Len(d)-1) -> d[i - IData + 1]
       [] OTHER                         -> 0]

\* The bytes of a frame, up to the checksum and after it.
IsBody(g, c, a, d) ==
  /\ g \in Buffers
  /\ g[0] = 119 /\ g[1] = Len(d) + 4 /\ g[2] = SentAddr(c, a) /\ g[3] = c
  /\ \A i \in 1..Len(d) : g[3 + i] = d[i]

LEMMA Sizes ==
  ASSUME NEW c, NEW a, NEW d, Fits(c, a, d)
  PROVE  /\ BufSize \in 48..255 /\ Len(d) \in 0..250 /\ Len(d) + 5 <= BufSize
         /\ Len(d) + 4 \in Byte /\ SentAddr(c, a) \in Byte
<1>1. Len(d) \in Nat /\ Len(d) + 5 <= BufSize /\ BufSize \in 48..255
  BY FrameAssumption DEF Fits
<1>2. SentAddr(c, a) \in Byte
  <2>1. a \in Byte /\ 0 \in Byte
    BY DEF Fits, Byte
  <2>2. SentAddr(c, a) = 0 \/ SentAddr(c, a) = a
    BY Zenon DEF SentAddr
  <2> QED
    BY <2>1, <2>2
<1>3. Len(d) \in 0..250 /\ Len(d) + 4 \in Byte
  <2> DEFINE n == Len(d)
  <2>1. n \in Nat /\ n + 5 <= BufSize /\ BufSize \in 48..255
    BY <1>1
  <2> HIDE DEF n
  <2>2. n \in 0..250 /\ n + 4 \in 0..255
    BY <2>1
  <2> QED
    BY <2>2 DEF n, Byte
<1> QED
  BY <1>1, <1>2, <1>3

LEMMA BodyBytes ==
  ASSUME NEW c, NEW a, NEW d, Fits(c, a, d)
  PROVE  /\ IsBody(Body(c, d, a), c, a, d)
         /\ \A i \in Len(d) + 4..BufSize - 1 : Body(c, d, a)[i] = 0
<1> DEFINE n == Len(d)
           g == Body(c, d, a)
<1>1. /\ BufSize \in 48..255 /\ n \in 0..250 /\ n + 5 <= BufSize
      /\ n + 4 \in Byte /\ SentAddr(c, a) \in Byte /\ c \in Byte
      /\ \A i \in 1..n : d[i] \in Byte
  BY Sizes DEF Fits
<1>2. \A i \in 0..BufSize - 1 :
        g[i] = CASE i = 0             -> 119
                 [] i = 1             -> n + 4
                 [] i = 2             -> SentAddr(c, a)
                 [] i = 3             -> c
                 [] i \in 4..(4+n-1)  -> d[i - 4 + 1]
                 [] OTHER             -> 0
  BY DEF Body, IHead, ILen, IAddr, ICmd, IData, Head77
<1>3. DOMAIN g = 0..BufSize - 1 /\ g = [i \in 0..BufSize - 1 |-> g[i]]
  BY DEF Body
<1> HIDE DEF n, g
<1>4. g[0] = 119 /\ g[1] = n + 4 /\ g[2] = SentAddr(c, a) /\ g[3] = c
  BY <1>1, <1>2
<1>5. ASSUME NEW i \in 1..n
      PROVE  g[3 + i] = d[i]
  <2> DEFINE j == 3 + i
  <2>1. j \in 0..BufSize - 1 /\ j \in 4..(4+n-1) /\ j - 4 + 1 = i /\ ~(j \in 0..3)
    BY <1>1
  <2> HIDE DEF j
  <2>2. g[j] = d[j - 4 + 1]
    BY <1>2, <2>1
  <2> QED
    BY <2>1, <2>2 DEF j
<1>6. ASSUME NEW i \in n + 4..BufSize - 1
      PROVE  g[i] = 0
  BY <1>1, <1>2
<1>7. ASSUME NEW i \in 0..BufSize - 1
      PROVE  g[i] \in Byte
  <2>1. CASE i \in 0..3
    <3>1. g[i] \in {119, n + 4, SentAddr(c, a), c}
      BY <1>4, <2>1
    <3> QED
      BY <1>1, <3>1 DEF Byte
  <2>2. CASE i \in 4..(n + 3)
    <3>1. i - 3 \in 1..n /\ 3 + (i - 3) = i
      BY <1>1, <2>2
    <3>2. g[i] = d[i - 3]
      BY <1>5, <3>1
    <3> QED
      BY <1>1, <3>1, <3>2
  <2>3. CASE i \in n + 4..BufSize - 1
    BY <1>6, <2>3 DEF Byte
  <2> QED
    BY <1>1, <2>1, <2>2, <2>3
<1>8. g \in Buffers
  BY <1>3, <1>7 DEF Buffers
<1> QED
  BY <1>4, <1>5, <1>6, <1>8 DEF IsBody, n, g

\* The frame, its checksum over the bytes before it.
IsFrame(g, c, a, d) ==
  /\ IsBody(g, c, a, d)
  /\ g[Len(d) + 4] = Checksum(g, Len(d) + 3)
  /\ \A i \in Len(d) + 5..BufSize - 1 : g[i] = 0

\* The code sums over the checksum's place as well, which is zero by then.
LEMMA GenIsFrame ==
  ASSUME NEW c, NEW a, NEW d, Fits(c, a, d)
  PROVE  IsFrame(Gen(c, d, a), c, a, d)
<1> DEFINE n == Len(d)
           b == Body(c, d, a)
           s == Checksum(b, n + IData)
           g == [b EXCEPT ![IData + n] = s]
<1>1. Gen(c, d, a) = g
  BY Zenon DEF Gen, Body, SentAddr
<1>2. /\ BufSize \in 48..255 /\ n \in 0..250 /\ n + 5 <= BufSize
  BY Sizes
<1>3. /\ b \in Buffers
      /\ b[0] = 119 /\ b[1] = n + 4 /\ b[2] = SentAddr(c, a) /\ b[3] = c
      /\ \A i \in 1..n : b[3 + i] = d[i]
      /\ \A i \in n + 4..BufSize - 1 : b[i] = 0
  BY BodyBytes DEF IsBody
<1> HIDE DEF b, n
<1>4. n + 4 \in Nat /\ n + 4 < BufSize
  BY <1>2
<1>5. s \in Byte
  BY <1>3, <1>4, ChecksumByte DEF IData
<1>6. s = Checksum(b, n + 3)
  <2> DEFINE k == n + 3
  <2>1. k \in Nat /\ k + 1 = n + 4 /\ k + 1 < BufSize /\ b[k + 1] = 0
    BY <1>2, <1>3
  <2> HIDE DEF k
  <2>2. Checksum(b, k + 1) = Checksum(b, k)
    BY <1>3, <2>1, ChecksumZero
  <2> QED
    BY <2>1, <2>2 DEF k, IData
<1> HIDE DEF s
<1>7. g \in Buffers /\ g[n + 4] = s /\ \A i \in 0..BufSize - 1 : i # n + 4 => g[i] = b[i]
  BY <1>2, <1>3, <1>5 DEF Buffers, IData
<1> HIDE DEF g
<1>8. Checksum(g, n + 3) = Checksum(b, n + 3)
  <2>1. n + 3 \in Nat /\ \A i \in 1..(n + 3) : g[i] = b[i]
    BY <1>2, <1>7
  <2> QED
    BY <2>1, ChecksumSame
<1>9. g[0] = 119 /\ g[1] = n + 4 /\ g[2] = SentAddr(c, a) /\ g[3] = c
  BY <1>2, <1>3, <1>7
<1>10. \A i \in 1..n : g[3 + i] = d[i]
  BY <1>2, <1>3, <1>7
<1>11. \A i \in n + 5..BufSize - 1 : g[i] = 0
  BY <1>2, <1>3, <1>7
<1> QED
  BY <1>1, <1>6, <1>7, <1>8, <1>9, <1>10, <1>11 DEF IsFrame, IsBody, n

\* The receiver accepts it, and finds its data field.
LEMMA FrameAccepted ==
  ASSUME NEW c, NEW a, NEW d, Fits(c, a, d), NEW g, IsFrame(g, c, a, d)
  PROVE  /\ Check(g) /\ PayloadLen(g) = Len(d) /\ GenLen(g) = Len(d) + 5
         /\ \A max \in {1, 6, 32, 64} : \A i \in 1..max :
              Payload(g, max)[i] = IF i <= Len(d) THEN d[i] ELSE 0
<1> DEFINE n == Len(d)
<1>1. BufSize \in 48..255 /\ n \in 0..250 /\ n + 5 <= BufSize
  BY Sizes
<1>2. /\ g[0] = 119 /\ g[1] = n + 4 /\ g[n + 4] = Checksum(g, n + 3)
      /\ \A i \in 1..n : g[3 + i] = d[i]
  BY DEF IsFrame, IsBody
<1> HIDE DEF n
<1>3. Check(g)
  <2>1. (n + 4) - 1 = n + 3 /\ n + 4 < BufSize
    BY <1>1
  <2> QED
    BY <1>2, <2>1 DEF Check, IHead, ILen, Head77
<1>4. PayloadLen(g) = n
  <2>1. ((n + 4) - 4) % 256 = n
    BY <1>1
  <2> QED
    BY <1>2, <2>1 DEF PayloadLen, ILen, IData
<1>5. GenLen(g) = n + 5
  <2>1. ((n + 4) + 1) % 256 = n + 5
    BY <1>1
  <2> QED
    BY <1>2, <2>1 DEF GenLen, ILen
<1>6. ASSUME NEW max \in {1, 6, 32, 64}, NEW i \in 1..max
      PROVE  Payload(g, max)[i] = IF i <= n THEN d[i] ELSE 0
  <2>1. i \in 1..64 /\ 4 + i - 1 = 3 + i /\ (i <= n => 4 + i - 1 < BufSize)
    BY <1>1
  <2>2. Payload(g, max)[i] = IF i <= n /\ 4 + i - 1 < BufSize THEN g[4 + i - 1] ELSE 0
    BY <1>4 DEF Payload, IData
  <2>3. i <= n => i \in 1..n
    BY <1>1, <2>1
  <2> QED
    BY <1>2, <2>1, <2>2, <2>3
<1> QED
  BY <1>3, <1>4, <1>5, <1>6 DEF n

\* What the header file describes, as it lies in a buffer.
LEMMA FrameIsDescribed ==
  ASSUME NEW c, NEW a, NEW d, Fits(c, a, d), NEW g, IsFrame(g, c, a, d)
  PROVE  /\ Len(ProtocolFrame(c, d, a)) = Len(d) + 5
         /\ g = InBuffer(ProtocolFrame(c, d, a))
<1> DEFINE n == Len(d)
           three == <<n + 4, SentAddr(c, a), c>>
           front == three \o d
           sum == MapThenSumSet(LAMBDA i : front[i], 1..Len(front)) % 256
           p == <<Head77>> \o front \o <<sum>>
<1>0. ProtocolFrame(c, d, a) = p
  BY Zenon DEF ProtocolFrame, SentAddr
<1>1. BufSize \in 48..255 /\ n \in 0..250 /\ n + 5 <= BufSize
  BY Sizes
<1>2. /\ g \in Buffers
      /\ g[0] = 119 /\ g[1] = n + 4 /\ g[2] = SentAddr(c, a) /\ g[3] = c
      /\ \A i \in 1..n : g[3 + i] = d[i]
      /\ g[n + 4] = Checksum(g, n + 3)
      /\ \A i \in n + 5..BufSize - 1 : g[i] = 0
  BY DEF IsFrame, IsBody
<1>3. d \in Seq(Byte) /\ three \in Seq(Byte)
  BY Sizes DEF Fits
<1>4. /\ Len(three) = 3
      /\ three[1] = n + 4 /\ three[2] = SentAddr(c, a) /\ three[3] = c
  OBVIOUS
<1> HIDE DEF three
<1>5. /\ front \in Seq(Byte) /\ Len(front) = n + 3
      /\ \A i \in 1..3 : front[i] = three[i]
      /\ \A i \in 4..n + 3 : front[i] = d[i - 3]
  <2>1. /\ front \in Seq(Byte) /\ Len(front) = 3 + n
        /\ \A i \in 1..(3 + n) : front[i] = IF i <= 3 THEN three[i] ELSE d[i - 3]
    <3>1. /\ three \o d \in Seq(Byte)
          /\ Len(three \o d) = Len(three) + Len(d)
          /\ \A i \in 1..(Len(three) + Len(d)) :
                (three \o d)[i] = IF i <= Len(three) THEN three[i] ELSE d[i - Len(three)]
      BY <1>3, ConcatProperties, Zenon
    <3> QED
      BY <1>4, <3>1
  <2> HIDE DEF front
  <2> QED
    BY <1>1, <2>1
<1> HIDE DEF front
<1>6. \A i \in 1..(n + 3) : front[i] = g[i]
  <2> SUFFICES ASSUME NEW i \in 1..(n + 3) PROVE front[i] = g[i]
    OBVIOUS
  <2>1. CASE i \in 1..3
    <3>1. i = 1 \/ i = 2 \/ i = 3
      BY <2>1
    <3> QED
      BY <1>2, <1>4, <1>5, <2>1, <3>1
  <2>2. CASE i \in 4..n + 3
    <3>1. i - 3 \in 1..n /\ 3 + (i - 3) = i
      BY <1>1, <2>2
    <3>2. g[3 + (i - 3)] = d[i - 3]
      BY <1>2, <3>1
    <3> QED
      BY <1>5, <2>2, <3>1, <3>2
  <2> QED
    BY <1>1, <2>1, <2>2
<1>7. sum = Total(front, 1..(n + 3)) % 256
  BY <1>5 DEF MapThenSumSet, MapThenFoldSet, Total, IsSum, Pick
<1>8. sum = Checksum(g, n + 3)
  <2>1. IsFiniteSet(1..(n + 3))
    BY <1>1, FS_Interval
  <2>2. Total(front, 1..(n + 3)) = Total(g, 1..(n + 3))
    BY <1>6, <2>1, TotalSame
  <2> QED
    BY <1>7, <2>2, ChecksumTotal
<1> HIDE DEF sum
<1>9. sum \in Byte
  <2>1. n + 3 \in Nat /\ n + 3 < BufSize
    BY <1>1
  <2> QED
    BY <1>2, <1>8, <2>1, ChecksumByte
<1>10. /\ Len(p) = n + 5
       /\ p[1] = 119 /\ p[n + 5] = sum
       /\ \A i \in 2..n + 4 : p[i] = front[i - 1]
  <2>1. <<Head77>> \in Seq(Byte) /\ Len(<<Head77>>) = 1 /\ <<Head77>>[1] = 119
    BY DEF Head77, Byte
  <2>2. <<sum>> \in Seq(Byte) /\ Len(<<sum>>) = 1 /\ <<sum>>[1] = sum
    BY <1>9
  <2> DEFINE h == <<Head77>>
             e == <<sum>>
             q == h \o front
  <2> HIDE DEF h, e
  <2>3. /\ q \in Seq(Byte) /\ Len(q) = n + 4 /\ q[1] = 119
        /\ \A i \in 2..n + 4 : q[i] = front[i - 1]
    BY <1>1, <1>5, <2>1 DEF h
  <2> HIDE DEF q
  <2>4. /\ Len(q \o e) = n + 5 /\ (q \o e)[n + 5] = sum
        /\ \A i \in 1..n + 4 : (q \o e)[i] = q[i]
    BY <1>1, <2>2, <2>3 DEF e
  <2>5. p = q \o e
    BY DEF q, h, e
  <2> HIDE DEF p
  <2> QED
    BY <1>1, <2>3, <2>4, <2>5
<1> HIDE DEF p
<1>11. \A i \in 0..BufSize - 1 : g[i] = IF i < Len(p) THEN p[i + 1] ELSE 0
  <2> SUFFICES ASSUME NEW i \in 0..BufSize - 1
               PROVE  g[i] = IF i < n + 5 THEN p[i + 1] ELSE 0
    BY <1>10
  <2>1. CASE i = 0
    BY <1>1, <1>2, <1>10, <2>1
  <2>2. CASE i \in 1..(n + 3)
    <3>1. i + 1 \in 2..n + 4 /\ (i + 1) - 1 = i /\ i < n + 5
      BY <1>1, <2>2
    <3>2. p[i + 1] = front[(i + 1) - 1]
      BY <1>10, <3>1
    <3> QED
      BY <1>6, <2>2, <3>1, <3>2
  <2>3. CASE i = n + 4
    <3>1. i + 1 = n + 5 /\ i < n + 5
      BY <1>1, <2>3
    <3> QED
      BY <1>2, <1>8, <1>10, <2>3, <3>1
  <2>4. CASE i \in n + 5..BufSize - 1
    BY <1>1, <1>2, <2>4
  <2> QED
    BY <1>1, <2>1, <2>2, <2>3, <2>4
<1>12. g = [i \in 0..BufSize - 1 |-> g[i]]
  BY <1>2 DEF Buffers
<1>13. g = InBuffer(p)
  BY <1>11, <1>12 DEF InBuffer
<1> QED
  BY <1>0, <1>10, <1>13 DEF n

-----------------------------------------------------------------------------
(* A byte is damaged.                                                        *)

\* f is g but for the byte at i.
Damaged(f, g, i) ==
  /\ f \in Buffers
  /\ f[i] \in Byte /\ f[i] # g[i] /\ f[i] - g[i] \in -255..255
  /\ \A j \in 0..BufSize - 1 : j # i => f[j] = g[j]

LEMMA FlipDamages ==
  ASSUME NEW g \in Buffers, NEW i \in 0..BufSize - 1, NEW x \in 1..255
  PROVE  Damaged([g EXCEPT ![i] = (g[i] + x) % 256], g, i)
<1> DEFINE y == (g[i] + x) % 256
           f == [g EXCEPT ![i] = y]
<1>1. g[i] \in Byte
  BY DEF Buffers
<1>2. y \in Byte /\ y # g[i] /\ y - g[i] \in -255..255
  BY <1>1, FlipByte
<1> HIDE DEF y
<1>3. f \in Buffers /\ f[i] = y /\ \A j \in 0..BufSize - 1 : j # i => f[j] = g[j]
  BY <1>2 DEF Buffers
<1> HIDE DEF f
<1>4. Damaged(f, g, i)
  BY <1>2, <1>3 DEF Damaged
<1> QED
  BY <1>4 DEF f, y

LEMMA DamageSeen ==
  ASSUME NEW c, NEW a, NEW d, Fits(c, a, d), NEW g, IsFrame(g, c, a, d),
         NEW i \in 0..Len(d) + 4, NEW f, Damaged(f, g, i)
  PROVE  /\ f # Zeroes
         /\ i # ILen => ~Check(f)
<1> DEFINE n == Len(d)
           m == n + 3
<1>1. BufSize \in 48..255 /\ n \in 0..250 /\ n + 5 <= BufSize
  BY Sizes
<1>2. /\ g \in Buffers /\ g[0] = 119 /\ g[1] = n + 4
      /\ g[n + 4] = Checksum(g, m)
  BY DEF IsFrame, IsBody
<1>3. i \in 0..n + 4
  OBVIOUS
<1>4. i \in 0..BufSize - 1
  BY <1>1, <1>3
<1>5. g[i] \in Byte
  BY <1>2, <1>4 DEF Buffers
<1> HIDE DEF n
<1> DEFINE y == f[i]
<1>6. y \in Byte /\ y # g[i] /\ y - g[i] \in -255..255
  BY DEF Damaged
<1> HIDE DEF y
<1>8. /\ f \in Buffers /\ f[i] = y
      /\ \A j \in 0..BufSize - 1 : j # i => f[j] = g[j]
  BY DEF Damaged, y
<1>9. f # Zeroes
  <2>1. Zeroes[0] = 0 /\ Zeroes[1] = 0
    BY <1>1 DEF Zeroes
  <2>2. f[0] = 119 \/ f[1] = n + 4
    BY <1>1, <1>2, <1>8
  <2>3. n + 4 # 0
    BY <1>1
  <2> QED
    BY <2>1, <2>2, <2>3
<1>10. ASSUME i # 1
       PROVE  ~Check(f)
  <2>1. CASE i = 0
    BY <1>2, <1>6, <1>8, <2>1 DEF Check, IHead, Head77
  <2>2. CASE i # 0
    <3>1. f[1] = n + 4
      BY <1>1, <1>2, <1>8, <1>10
    <3>2. (n + 4) - 1 = m /\ m \in Nat /\ m < BufSize
      BY <1>1
    <3>3. SUFFICES Checksum(f, m) # f[n + 4]
      BY <3>1, <3>2 DEF Check, ILen
    <3> HIDE DEF m
    <3>4. CASE i = n + 4
      <4>1. \A j \in 1..m : f[j] = g[j]
        <5>1. \A j \in 1..m : j \in 0..BufSize - 1 /\ j # i
          BY <1>1, <3>2, <3>4 DEF m
        <5> QED
          BY <1>8, <5>1
      <4>2. Checksum(f, m) = Checksum(g, m)
        BY <3>2, <4>1, ChecksumSame
      <4> QED
        BY <1>2, <1>6, <1>8, <3>4, <4>2
    <3>5. CASE i # n + 4
      <4> DEFINE S == 1..m
                 R == S \ {i}
                 rest == Total(g, R)
      <4>1. i \in S
        BY <1>1, <1>3, <2>2, <3>2, <3>5
      <4>2. f[n + 4] = g[n + 4]
        BY <1>1, <1>8, <3>5
      <4>3. IsFiniteSet(S) /\ (\A j \in S : g[j] \in Nat) /\ (\A j \in S : f[j] \in Nat)
        BY <1>2, <1>8, <3>2, BytesNat
      <4>4. \A j \in R : f[j] = g[j]
        BY <1>1, <1>8, <3>2
      <4> HIDE DEF S
      <4>5. IsFiniteSet(R)
        BY <4>3, FS_Subset
      <4>6. Total(g, S) = g[i] + Total(g, R) /\ Total(f, S) = f[i] + Total(f, R)
        BY <4>1, <4>3, TotalWithout
      <4>7. \A j \in R : g[j] \in Nat
        BY <4>3
      <4> HIDE DEF R
      <4>8. Total(f, R) = Total(g, R) /\ Total(g, R) \in Nat
        BY <4>4, <4>5, <4>7, TotalNat, TotalSame
      <4>9. (y + rest) % 256 # (g[i] + rest) % 256
        <5>1. Byte \subseteq Nat
          BY DEF Byte
        <5>2. y \in Nat /\ g[i] \in Nat
          BY <1>5, <1>6, <5>1
        <5> QED
          BY <1>6, <4>8, <5>2, SumDiffers
      <4>10. Checksum(f, m) = (y + rest) % 256 /\ Checksum(g, m) = (g[i] + rest) % 256
        BY <1>8, <4>6, <4>8, ChecksumTotal DEF S
      <4> HIDE DEF rest
      <4> QED
        BY <1>2, <4>2, <4>9, <4>10
    <3> QED
      BY <3>4, <3>5
  <2> QED
    BY <2>1, <2>2
<1> QED
  BY <1>9, <1>10 DEF ILen

-----------------------------------------------------------------------------
(* The frames the comments quote.                                            *)

\* q with the sums p of its bytes after the head is a frame.
Adds(q, p) ==
  /\ q \in Seq(Byte) /\ Len(q) \in 5..48
  /\ q[1] = 119 /\ q[2] = Len(q) - 1 /\ q[3] = 0
  /\ p[1] = 0 /\ \A i \in 2..(Len(q) - 1) : p[i] = p[i - 1] + q[i]
  /\ p[Len(q) - 1] % 256 = q[Len(q)]

LEMMA QuotedIsFrame ==
  ASSUME NEW q, NEW p, Adds(q, p)
  PROVE  LET d == SubSeq(q, 5, Len(q) - 1) IN
           Fits(q[4], q[3], d) /\ IsFrame(InBuffer(q), q[4], q[3], d)
<1> DEFINE L == Len(q)
           d == SubSeq(q, 5, L - 1)
           g == InBuffer(q)
<1>1. /\ q \in Seq(Byte) /\ L \in 5..48
      /\ q[1] = 119 /\ q[2] = L - 1 /\ q[3] = 0
      /\ p[1] = 0 /\ \A i \in 2..(L - 1) : p[i] = p[i - 1] + q[i]
      /\ p[L - 1] % 256 = q[L]
  BY DEF Adds
<1>2. BufSize \in 48..255
  BY FrameAssumption
<1>3. \A i \in 1..L : q[i] \in Byte
  BY <1>1
<1>4. d \in Seq(Byte) /\ Len(d) = L - 5 /\ \A i \in 1..(L - 5) : d[i] = q[4 + i]
  <2> DEFINE k == L
  <2>1. k \in 5..48 /\ L = k
    BY <1>1
  <2> HIDE DEF k
  <2>2. /\ k - 1 \in Int /\ (k - 1) - 5 + 1 = k - 5 /\ 5..(k - 1) \subseteq 1..k
        /\ IF 5 <= k - 1 THEN k - 5 = (k - 1) - 5 + 1 ELSE k - 5 = 0
    BY <2>1
  <2>3. \A i \in 5..(k - 1) : q[i] \in Byte
    BY <1>3, <2>1, <2>2
  <2>4. /\ d \in Seq(Byte)
        /\ Len(d) = IF 5 <= k - 1 THEN (k - 1) - 5 + 1 ELSE 0
        /\ \A i \in 1..((k - 1) - 5 + 1) : d[i] = q[5 + i - 1]
    BY <2>1, <2>2, <2>3, SubSeqProperties
  <2> HIDE DEF d, L
  <2>5. \A i \in 1..(k - 5) : 5 + i - 1 = 4 + i
    BY <2>1
  <2> QED
    BY <2>1, <2>2, <2>4, <2>5
<1>5. /\ \A i \in 0..BufSize - 1 : g[i] = IF i < L THEN q[i + 1] ELSE 0
      /\ g = [i \in 0..BufSize - 1 |-> g[i]]
  BY DEF InBuffer
<1> HIDE DEF L, g
<1>6. \A i \in 0..BufSize - 1 : g[i] \in Byte
  <2> SUFFICES ASSUME NEW i \in 0..BufSize - 1 PROVE g[i] \in Byte
    OBVIOUS
  <2>1. i < L => i + 1 \in 1..L
    BY <1>1
  <2>2. 0 \in Byte
    BY DEF Byte
  <2> QED
    BY <1>3, <1>5, <2>1, <2>2
<1>7. g \in Buffers
  BY <1>5, <1>6 DEF Buffers
<1>8. \A i \in 0..(L - 1) : g[i] = q[i + 1]
  <2>1. \A i \in 0..(L - 1) : i \in 0..BufSize - 1 /\ i < L
    BY <1>1, <1>2
  <2> QED
    BY <1>5, <2>1
<1>9. \A k \in 0..(L - 2) : Total(g, 1..k) = p[k + 1]
  <2> DEFINE T == {k \in Nat : k <= L - 2 => Total(g, 1..k) = p[k + 1]}
  <2>1. 0 \in T
    <3>1. 1..0 = {}
      OBVIOUS
    <3>2. Total(g, 1..0) = 0
      BY <3>1, TotalNone
    <3> QED
      BY <1>1, <3>2
  <2>2. ASSUME NEW k \in Nat, k \in T
        PROVE  k + 1 \in T
    <3> SUFFICES ASSUME k + 1 <= L - 2
                 PROVE  Total(g, 1..(k + 1)) = p[(k + 1) + 1]
      OBVIOUS
    <3>1. k + 1 \in Nat /\ k + 1 < BufSize /\ k <= L - 2
      BY <1>1, <1>2
    <3>2. \A i \in 1..(k + 1) : g[i] \in Nat
      BY <1>7, <3>1, BytesNat
    <3>3. Total(g, 1..(k + 1)) = Total(g, 1..k) + g[k + 1]
      BY <3>2, TotalNext
    <3>4. Total(g, 1..k) = p[k + 1]
      BY <2>2, <3>1
    <3>5. g[k + 1] = q[(k + 1) + 1]
      <4>1. k + 1 \in 0..(L - 1)
        BY <1>1
      <4> QED
        BY <1>8, <4>1
    <3>6. p[(k + 1) + 1] = p[k + 1] + q[(k + 1) + 1]
      <4> DEFINE j == (k + 1) + 1
      <4>1. j \in 2..(L - 1) /\ j - 1 = k + 1
        BY <1>1
      <4> HIDE DEF j
      <4>2. p[j] = p[j - 1] + q[j]
        BY <1>1, <4>1
      <4> QED
        BY <4>1, <4>2 DEF j
    <3> QED
      BY <3>3, <3>4, <3>5, <3>6
  <2> HIDE DEF T
  <2>3. Nat \subseteq T
    BY <2>1, <2>2, NatSetInduction
  <2> QED
    BY <1>1, <2>3 DEF T
<1>10. Checksum(g, L - 2) = g[L - 1]
  <2>1. L - 2 \in 0..(L - 2) /\ (L - 2) + 1 = L - 1 /\ L - 1 \in 0..(L - 1) /\ (L - 1) + 1 = L
    BY <1>1
  <2>2. Total(g, 1..(L - 2)) = p[L - 1]
    BY <1>9, <2>1
  <2>3. g[L - 1] = q[L]
    BY <1>8, <2>1
  <2> QED
    BY <1>1, <2>2, <2>3, ChecksumTotal
<1>11. g[0] = 119 /\ g[1] = L - 1 /\ g[2] = q[3] /\ g[3] = q[4]
  <2>1. {0, 1, 2, 3} \subseteq 0..(L - 1)
    BY <1>1
  <2>2. g[0] = q[0 + 1] /\ g[1] = q[1 + 1] /\ g[2] = q[2 + 1] /\ g[3] = q[3 + 1]
    BY <1>8, <2>1, Zenon
  <2> QED
    BY <1>1, <2>2
<1>12. \A i \in 1..(L - 5) : g[3 + i] = d[i]
  <2> SUFFICES ASSUME NEW i \in 1..(L - 5) PROVE g[3 + i] = q[4 + i]
    BY <1>4
  <2>1. 3 + i \in 0..(L - 1) /\ (3 + i) + 1 = 4 + i
    BY <1>1
  <2> QED
    BY <1>8, <2>1
<1>13. \A i \in L..BufSize - 1 : g[i] = 0
  <2> SUFFICES ASSUME NEW i \in L..BufSize - 1 PROVE g[i] = 0
    OBVIOUS
  <2>1. i \in 0..BufSize - 1 /\ ~(i < L)
    BY <1>1, <1>2
  <2> QED
    BY <1>5, <2>1, Zenon
<1> HIDE DEF d
<1>14. q[3] \in Byte /\ q[4] \in Byte
  BY <1>1, <1>3
<1>15. Fits(q[4], q[3], d)
  <2>1. Len(d) + 5 <= BufSize
    BY <1>1, <1>2, <1>4
  <2> QED
    BY <1>4, <1>14, <2>1 DEF Fits
<1>16. SentAddr(q[4], q[3]) = q[3]
  BY <1>1 DEF SentAddr
<1>17. IsFrame(g, q[4], q[3], d)
  <2>1. Len(d) = L - 5 /\ (L - 5) + 4 = L - 1 /\ (L - 5) + 3 = L - 2 /\ (L - 5) + 5 = L
    BY <1>1, <1>4
  <2>2. IsBody(g, q[4], q[3], d)
    BY <1>7, <1>11, <1>12, <1>16, <2>1 DEF IsBody
  <2>3. g[Len(d) + 4] = Checksum(g, Len(d) + 3)
    BY <1>10, <2>1
  <2>4. \A i \in Len(d) + 5..BufSize - 1 : g[i] = 0
    BY <1>13, <2>1
  <2> QED
    BY <2>2, <2>3, <2>4 DEF IsFrame
<1> QED
  BY <1>15, <1>17 DEF d, g, L

LEMMA QuotedAdd ==
  ASSUME NEW q \in Quoted
  PROVE  \E p : Adds(q, p)
<1>1. CASE q = <<119, 22, 0, 132, 16, 147, 118, 18, 152, 135, 0, 20, 3, 0, 1,
               7, 0, 148, 33, 16, 6, 48, 254>>
  <2> DEFINE p == <<0, 22, 22, 154, 170, 317, 435, 453, 605, 740, 740, 760, 763,
               763, 764, 771, 771, 919, 952, 968, 974, 1022>>
  <2>1. Adds(q, p)
    <3>1. q \in Seq(Byte) /\ Len(q) = 23
      BY <1>1 DEF Byte
    <3>2. \A i \in 2..22 : p[i] = p[i - 1] + q[i]
      <4> SUFFICES ASSUME NEW i \in 2..22 PROVE p[i] = p[i - 1] + q[i]
        OBVIOUS
      <4>1. i \in {2, 3, 4, 5, 6, 7, 8, 9, 10, 11, 12, 13, 14, 15, 16, 17, 18, 19, 20, 21, 22}
        OBVIOUS
      <4> QED
        BY <1>1, <4>1
    <3> QED
      BY <1>1, <3>1, <3>2 DEF Adds
  <2> HIDE DEF p
  <2> QED
    BY <2>1
<1>2. CASE q = <<119, 4, 0, 31, 35>>
  <2> DEFINE p == <<0, 4, 4, 35>>
  <2>1. Adds(q, p)
    <3>1. q \in Seq(Byte) /\ Len(q) = 5
      BY <1>2 DEF Byte
    <3>2. \A i \in 2..4 : p[i] = p[i - 1] + q[i]
      <4> SUFFICES ASSUME NEW i \in 2..4 PROVE p[i] = p[i - 1] + q[i]
        OBVIOUS
      <4>1. i \in {2, 3, 4}
        OBVIOUS
      <4> QED
        BY <1>2, <4>1
    <3> QED
      BY <1>2, <3>1, <3>2 DEF Adds
  <2> HIDE DEF p
  <2> QED
    BY <2>1
<1>3. CASE q = <<119, 13, 0, 84, 0, 1, 7, 0, 148, 33, 16, 6, 48, 100>>
  <2> DEFINE p == <<0, 13, 13, 97, 97, 98, 105, 105, 253, 286, 302, 308, 356>>
  <2>1. Adds(q, p)
    <3>1. q \in Seq(Byte) /\ Len(q) = 14
      BY <1>3 DEF Byte
    <3>2. \A i \in 2..13 : p[i] = p[i - 1] + q[i]
      <4> SUFFICES ASSUME NEW i \in 2..13 PROVE p[i] = p[i - 1] + q[i]
        OBVIOUS
      <4>1. i \in {2, 3, 4, 5, 6, 7, 8, 9, 10, 11, 12, 13}
        OBVIOUS
      <4> QED
        BY <1>3, <4>1
    <3> QED
      BY <1>3, <3>1, <3>2 DEF Adds
  <2> HIDE DEF p
  <2> QED
    BY <2>1
<1>4. CASE q = <<119, 13, 0, 80, 16, 147, 118, 18, 152, 135, 0, 20, 3, 190>>
  <2> DEFINE p == <<0, 13, 13, 93, 109, 256, 374, 392, 544, 679, 679, 699, 702>>
  <2>1. Adds(q, p)
    <3>1. q \in Seq(Byte) /\ Len(q) = 14
      BY <1>4 DEF Byte
    <3>2. \A i \in 2..13 : p[i] = p[i - 1] + q[i]
      <4> SUFFICES ASSUME NEW i \in 2..13 PROVE p[i] = p[i - 1] + q[i]
        OBVIOUS
      <4>1. i \in {2, 3, 4, 5, 6, 7, 8, 9, 10, 11, 12, 13}
        OBVIOUS
      <4> QED
        BY <1>4, <4>1
    <3> QED
      BY <1>4, <3>1, <3>2 DEF Adds
  <2> HIDE DEF p
  <2> QED
    BY <2>1
<1>5. CASE q = <<119, 5, 0, 11, 2, 18>>
  <2> DEFINE p == <<0, 5, 5, 16, 18>>
  <2>1. Adds(q, p)
    <3>1. q \in Seq(Byte) /\ Len(q) = 6
      BY <1>5 DEF Byte
    <3>2. \A i \in 2..5 : p[i] = p[i - 1] + q[i]
      <4> SUFFICES ASSUME NEW i \in 2..5 PROVE p[i] = p[i - 1] + q[i]
        OBVIOUS
      <4>1. i \in {2, 3, 4, 5}
        OBVIOUS
      <4> QED
        BY <1>5, <4>1
    <3> QED
      BY <1>5, <3>1, <3>2 DEF Adds
  <2> HIDE DEF p
  <2> QED
    BY <2>1
<1>6. CASE q = <<119, 47, 0, 89, 16, 0, 96, 16, 3, 6, 0, 0, 0, 16, 1, 7, 16, 5,
               67, 1, 1, 84, 16, 0, 19, 16, 0, 4, 0, 0, 9, 16, 135, 6, 53, 0, 1,
               118, 145, 0, 2, 6, 148, 0, 73, 17, 117, 92>>
  <2> DEFINE p == <<0, 47, 47, 136, 152, 152, 248, 264, 267, 273, 273, 273, 273, 289,
               290, 297, 313, 318, 385, 386, 387, 471, 487, 487, 506, 522, 522,
               526, 526, 526, 535, 551, 686, 692, 745, 745, 746, 864, 1009,
               1009, 1011, 1017, 1165, 1165, 1238, 1255, 1372>>
  <2>1. Adds(q, p)
    <3>1. q \in Seq(Byte) /\ Len(q) = 48
      BY <1>6 DEF Byte
    <3>2. \A i \in 2..47 : p[i] = p[i - 1] + q[i]
      <4> SUFFICES ASSUME NEW i \in 2..47 PROVE p[i] = p[i - 1] + q[i]
        OBVIOUS
      <4>1. CASE i \in 2..16
        <5>1. i \in {2, 3, 4, 5, 6, 7, 8, 9, 10, 11, 12, 13, 14, 15, 16}
          BY <4>1
        <5> QED
          BY <1>6, <5>1
      <4>2. CASE i \in 17..31
        <5>1. i \in {17, 18, 19, 20, 21, 22, 23, 24, 25, 26, 27, 28, 29, 30, 31}
          BY <4>2
        <5> QED
          BY <1>6, <5>1
      <4>3. CASE i \in 32..47
        <5>1. i \in {32, 33, 34, 35, 36, 37, 38, 39, 40, 41, 42, 43, 44, 45, 46, 47}
          BY <4>3
        <5> QED
          BY <1>6, <5>1
      <4> QED
        BY <4>1, <4>2, <4>3
    <3> QED
      BY <1>6, <3>1, <3>2 DEF Adds
  <2> HIDE DEF p
  <2> QED
    BY <2>1
<1> QED
  BY <1>1, <1>2, <1>3, <1>4, <1>5, <1>6 DEF Quoted

-----------------------------------------------------------------------------
(* The frame on its way.                                                     *)

\* What is sent fits; the send buffer is empty or holds the frame made of it,
\* and the receive buffer nothing, such a frame, or the one sent but for a byte.
FrameInv ==
  /\ Fits(code, addr, data)
  /\ sent = Zeroes \/ sent = Gen(code, data, addr)
  /\ \/ hit = -1 /\ (got = Zeroes \/ IsFrame(got, code, addr, data))
     \/ /\ sent # Zeroes /\ got # Zeroes
        /\ hit \in 0..Len(data) + 4
        /\ Damaged(got, sent, hit)

LEMMA FrameInvInit == FrameInit => FrameInv
<1>1. ASSUME NEW c \in Codes, NEW a \in Addrs, NEW d \in DataSet, ToSend(c, a, d)
      PROVE  FrameInv
  <2>1. Fits(c, a, d)
    BY FrameAssumption DEF Fits
  <2> QED
    BY <1>1, <2>1 DEF ToSend, Untouched, FrameInv
<1>2. ASSUME NEW q \in Quoted, OnItsWay(q)
      PROVE  FrameInv
  <2> DEFINE d == SubSeq(q, 5, Len(q) - 1)
  <2>1. Fits(q[4], q[3], d) /\ IsFrame(InBuffer(q), q[4], q[3], d)
    BY QuotedAdd, QuotedIsFrame
  <2>2. /\ sent = Zeroes /\ hit = -1 /\ got = InBuffer(q)
        /\ code = q[4] /\ addr = q[3] /\ data = d
    BY <1>2 DEF OnItsWay, Untouched, ICmd, IAddr, IData
  <2> HIDE DEF d
  <2> QED
    BY <2>1, <2>2 DEF FrameInv
<1> QED
  BY <1>1, <1>2 DEF FrameInit

LEMMA FrameInvStep == FrameInv /\ [FrameNext]_frameVars => FrameInv'
<1> SUFFICES ASSUME FrameInv, [FrameNext]_frameVars
             PROVE  FrameInv'
  OBVIOUS
<1>1. CASE SendFrame
  <2>1. /\ sent = Zeroes /\ sent' = Gen(code, data, addr)
        /\ code' = code /\ addr' = addr /\ data' = data /\ got' = got /\ hit' = hit
    BY <1>1 DEF SendFrame
  <2>2. Fits(code, addr, data) /\ hit = -1 /\ (got = Zeroes \/ IsFrame(got, code, addr, data))
    BY <2>1 DEF FrameInv
  <2> QED
    BY <2>1, <2>2 DEF FrameInv
<1>2. CASE Arrive
  <2>1. /\ sent # Zeroes /\ got = Zeroes /\ got' = sent
        /\ code' = code /\ addr' = addr /\ data' = data /\ sent' = sent /\ hit' = hit
    BY <1>2 DEF Arrive
  <2>2. Fits(code, addr, data) /\ hit = -1 /\ sent = Gen(code, data, addr)
    BY <2>1 DEF FrameInv
  <2>3. IsFrame(sent, code, addr, data)
    BY <2>2, GenIsFrame
  <2> QED
    BY <2>1, <2>2, <2>3 DEF FrameInv
<1>3. CASE ArriveDamaged
  <2>1. /\ sent # Zeroes /\ got = Zeroes
        /\ code' = code /\ addr' = addr /\ data' = data /\ sent' = sent
    BY <1>3 DEF ArriveDamaged
  <2>2. PICK i \in 0..GenLen(sent) - 1, x \in Flips :
          hit' = i /\ got' = [sent EXCEPT ![i] = (sent[i] + x) % 256]
    BY <1>3 DEF ArriveDamaged
  <2>3. Fits(code, addr, data) /\ sent = Gen(code, data, addr)
    BY <2>1 DEF FrameInv
  <2>4. IsFrame(sent, code, addr, data)
    BY <2>3, GenIsFrame
  <2>5. GenLen(sent) = Len(data) + 5
    BY <2>3, <2>4, FrameAccepted
  <2>6. BufSize \in 48..255 /\ Len(data) \in 0..250 /\ Len(data) + 5 <= BufSize
    BY <2>3, Sizes
  <2>7. i \in 0..Len(data) + 4 /\ i \in 0..BufSize - 1
    BY <2>5, <2>6
  <2>8. x \in 1..255
    BY FrameAssumption
  <2>9. sent \in Buffers
    BY <2>4 DEF IsFrame, IsBody
  <2>10. Damaged(got', sent, hit')
    BY <2>2, <2>7, <2>8, <2>9, FlipDamages
  <2>11. got' # Zeroes
    BY <2>2, <2>3, <2>4, <2>7, <2>10, DamageSeen
  <2> QED
    BY <2>1, <2>2, <2>3, <2>7, <2>10, <2>11 DEF FrameInv, Damaged
<1>4. CASE UNCHANGED frameVars
  BY <1>4 DEF FrameInv, frameVars, Damaged
<1> QED
  BY <1>1, <1>2, <1>3, <1>4 DEF FrameNext

-----------------------------------------------------------------------------
(* Digits.                                                                   *)

\* A quotient is ten times the next one and a digit.
LEMMA DivideOnce ==
  ASSUME NEW a \in Nat
  PROVE  /\ a \div 10 \in Nat /\ a % 10 \in 0..9
         /\ a = (10 * (a \div 10)) + (a % 10)
BY SMT

LEMMA Quotients ==
  ASSUME NEW a \in Nat
  PROVE  /\ a \div 1 = a
         /\ a \div 100 = (a \div 10) \div 10
         /\ a \div 1000 = (a \div 100) \div 10
         /\ a \div 10000 = (a \div 1000) \div 10
         /\ a \div 100000 = (a \div 10000) \div 10
         /\ a \div 1000000 = (a \div 100000) \div 10
<1>1. a \div 1 = a
  BY SMT
<1>2. a \div 100 = (a \div 10) \div 10
  BY SMT
<1>3. a \div 1000 = (a \div 100) \div 10
  BY SMT
<1>4. a \div 10000 = (a \div 1000) \div 10
  BY SMT
<1>5. a \div 100000 = (a \div 10000) \div 10
  BY SMT
<1>6. a \div 1000000 = (a \div 100000) \div 10
  BY SMT
<1> QED
  BY <1>1, <1>2, <1>3, <1>4, <1>5, <1>6, SMT

\* A number of five digits is their sum, and so is one of seven.
LEMMA FiveDigits ==
  ASSUME NEW a \in Nat, a <= 99999
  PROVE  a = ((a \div 10000) % 10) * 10000 + ((a \div 1000) % 10) * 1000
           + ((a \div 100) % 10) * 100 + ((a \div 10) % 10) * 10 + ((a \div 1) % 10)
<1> DEFINE b == a \div 10
           c == a \div 100
           d == a \div 1000
           e == a \div 10000
<1>1. /\ a = (10 * b) + (a % 10) /\ b = (10 * c) + (b % 10)
      /\ c = (10 * d) + (c % 10) /\ d = (10 * e) + (d % 10)
      /\ b \in Nat /\ c \in Nat /\ d \in Nat /\ e \in Nat
      /\ a % 10 \in Nat /\ b % 10 \in Nat /\ c % 10 \in Nat /\ d % 10 \in Nat
  BY DivideOnce, Quotients, SMT
<1>2. e = e % 10
  BY SMT
<1> HIDE DEF b, c, d, e
<1> DEFINE r == a % 10  s == b % 10  t == c % 10  u == d % 10  v == e % 10
<1>3. /\ a = (10 * b) + r /\ b = (10 * c) + s
      /\ c = (10 * d) + t /\ d = (10 * e) + u /\ e = v
      /\ r \in Nat /\ s \in Nat /\ t \in Nat /\ u \in Nat
  BY <1>1, <1>2
<1> HIDE DEF r, s, t, u, v
<1>4. a = v * 10000 + u * 1000 + t * 100 + s * 10 + r
  BY <1>1, <1>3, SMT
<1> QED
  BY <1>4, Quotients, SMT DEF r, s, t, u, v, b, c, d, e

LEMMA SevenDigits ==
  ASSUME NEW a \in Nat, a <= 9999999
  PROVE  a = ((a \div 1000000) % 10) * 1000000 + ((a \div 100000) % 10) * 100000
           + ((a \div 10000) % 10) * 10000 + ((a \div 1000) % 10) * 1000
           + ((a \div 100) % 10) * 100 + ((a \div 10) % 10) * 10 + ((a \div 1) % 10)
<1> DEFINE b == a \div 10
           c == a \div 100
           d == a \div 1000
           e == a \div 10000
           f == a \div 100000
           g == a \div 1000000
<1>1. /\ a = (10 * b) + (a % 10) /\ b = (10 * c) + (b % 10)
      /\ c = (10 * d) + (c % 10) /\ d = (10 * e) + (d % 10)
      /\ e = (10 * f) + (e % 10) /\ f = (10 * g) + (f % 10)
      /\ b \in Nat /\ c \in Nat /\ d \in Nat /\ e \in Nat /\ f \in Nat /\ g \in Nat
      /\ a % 10 \in Nat /\ b % 10 \in Nat /\ c % 10 \in Nat /\ d % 10 \in Nat
      /\ e % 10 \in Nat /\ f % 10 \in Nat
  BY DivideOnce, Quotients, SMT
<1>2. g = g % 10
  BY SMT
<1> HIDE DEF b, c, d, e, f, g
<1> DEFINE r == a % 10  s == b % 10  t == c % 10  u == d % 10
           v == e % 10  w == f % 10  x == g % 10
<1>3. /\ a = (10 * b) + r /\ b = (10 * c) + s
      /\ c = (10 * d) + t /\ d = (10 * e) + u
      /\ e = (10 * f) + v /\ f = (10 * g) + w /\ g = x
      /\ r \in Nat /\ s \in Nat /\ t \in Nat /\ u \in Nat /\ v \in Nat /\ w \in Nat
  BY <1>1, <1>2
<1> HIDE DEF r, s, t, u, v, w, x
<1>4. a = x * 1000000 + w * 100000 + v * 10000 + u * 1000 + t * 100 + s * 10 + r
  BY <1>1, <1>3, SMT
<1> QED
  BY <1>4, Quotients, SMT DEF r, s, t, u, v, w, x, b, c, d, e, f, g

-----------------------------------------------------------------------------
(* A quantity as the device writes it and as the driver reads it.            *)

Largest(n) == IF n = 5 THEN 99999 ELSE 9999999

Magnitude(v) == IF v < 0 THEN -v ELSE v

\* e are the digits of v: a sign, and n decimals.
IsCoded(e, v, n) ==
  /\ e[1] = (IF v < 0 THEN 1 ELSE 0)
  /\ \A i \in 1..n : e[1 + i] = (Magnitude(v) \div 10^(n - i)) % 10

\* The digits from place s on add up to the quantity.
ReadFrom(h, s, n) ==
  LET worth == [i \in 1..n |-> CharValue(h[s + i]) * 10^(n - i)]
      mag == MapThenSumSet(LAMBDA i : worth[i], 1..n)
  IN  IF h[s] = 1 THEN -mag ELSE mag

LEMMA SumOf ==
  ASSUME NEW g, NEW n \in Nat, \A i \in 1..n : g[i] \in Nat
  PROVE  /\ n = 5 => Total(g, 1..n) = g[1] + g[2] + g[3] + g[4] + g[5]
         /\ n = 7 => Total(g, 1..n) = g[1] + g[2] + g[3] + g[4] + g[5] + g[6] + g[7]
<1> DEFINE P(k) == Total(g, 1..k)
<1>1. P(0) = 0
  <2>1. 1..0 = {}
    OBVIOUS
  <2> QED
    BY <2>1, TotalNone
<1>2. ASSUME NEW k \in Nat, k + 1 <= n
      PROVE  P(k + 1) = P(k) + g[k + 1]
  <2>1. \A i \in 1..(k + 1) : g[i] \in Nat
    BY <1>2
  <2> QED
    BY <2>1, TotalNext
<1> HIDE DEF P
<1>3. ASSUME n >= 5
      PROVE  P(5) = g[1] + g[2] + g[3] + g[4] + g[5]
  <2>1. g[1] \in Nat /\ g[2] \in Nat /\ g[3] \in Nat /\ g[4] \in Nat /\ g[5] \in Nat
    BY <1>3
  <2>2. P(0 + 1) = P(0) + g[0 + 1] /\ P(1 + 1) = P(1) + g[1 + 1] /\ P(2 + 1) = P(2) + g[2 + 1]
        /\ P(3 + 1) = P(3) + g[3 + 1] /\ P(4 + 1) = P(4) + g[4 + 1]
    BY <1>2, <1>3
  <2>3. P(1) = g[1] /\ P(2) = P(1) + g[2] /\ P(3) = P(2) + g[3]
        /\ P(4) = P(3) + g[4] /\ P(5) = P(4) + g[5]
    BY <1>1, <2>1, <2>2
  <2> QED
    BY <2>1, <2>3
<1>4. ASSUME n >= 7
      PROVE  P(7) = g[1] + g[2] + g[3] + g[4] + g[5] + g[6] + g[7]
  <2>1. P(5 + 1) = P(5) + g[5 + 1] /\ P(6 + 1) = P(6) + g[6 + 1]
    BY <1>2, <1>4
  <2>2. g[1] \in Nat /\ g[2] \in Nat /\ g[3] \in Nat /\ g[4] \in Nat /\ g[5] \in Nat
        /\ g[6] \in Nat /\ g[7] \in Nat
    BY <1>4
  <2>3. P(6) = P(5) + g[6] /\ P(7) = P(6) + g[7]
    BY <2>1
  <2> QED
    BY <1>3, <1>4, <2>2, <2>3
<1>5. CASE n = 5
  BY <1>3, <1>5 DEF P
<1>6. CASE n = 7
  BY <1>4, <1>6 DEF P
<1> QED
  BY <1>5, <1>6

\* What is written is read back.
LEMMA ReadsBack ==
  ASSUME NEW n \in {5, 7}, NEW v \in Int, Magnitude(v) <= Largest(n),
         NEW e, IsCoded(e, v, n), NEW h, NEW s \in Nat,
         \A i \in 0..n : h[s + i] = e[1 + i]
  PROVE  ReadFrom(h, s, n) = v
<1> DEFINE a == Magnitude(v)
           g == [i \in 1..n |-> CharValue(h[s + i]) * 10^(n - i)]
           mag == MapThenSumSet(LAMBDA i : g[i], 1..n)
<1>1. a \in Nat /\ a <= Largest(n)
  BY SMT DEF Magnitude
<1>2. h[s] = (IF v < 0 THEN 1 ELSE 0)
  <2>1. h[s + 0] = e[1 + 0]
    BY SMT
  <2> QED
    BY <2>1, SMT DEF IsCoded
<1>3. \A i \in 1..n : h[s + i] = (a \div 10^(n - i)) % 10
  BY SMT DEF IsCoded
<1>4. ReadFrom(h, s, n) = IF h[s] = 1 THEN -mag ELSE mag
  BY Zenon DEF ReadFrom
<1>5. v = IF v < 0 THEN -a ELSE a
  BY SMT DEF Magnitude
<1> HIDE DEF a, g
<1>6. mag = Total(g, 1..n)
  BY Zenon DEF MapThenSumSet, MapThenFoldSet, Total, IsSum, Pick
<1> HIDE DEF mag
<1>7. CASE n = 5
  <2> DEFINE d(i) == h[s + i]
  <2>1. /\ d(1) = (a \div 10000) % 10 /\ d(2) = (a \div 1000) % 10
        /\ d(3) = (a \div 100) % 10 /\ d(4) = (a \div 10) % 10 /\ d(5) = (a \div 1) % 10
    BY <1>3, <1>7, SMT
  <2>2. \A i \in 1..5 : d(i) \in 0..9
    BY <1>1, <2>1, SMT
  <2>3. \A i \in 1..5 : g[i] = d(i) * 10^(5 - i)
    BY <1>7, <2>2, SMT DEF g, CharValue
  <2> HIDE DEF d
  <2>4. /\ g[1] = d(1) * 10000 /\ g[2] = d(2) * 1000 /\ g[3] = d(3) * 100
        /\ g[4] = d(4) * 10 /\ g[5] = d(5)
    BY <2>2, <2>3, SMT
  <2>5. \A i \in 1..n : g[i] \in Nat
    BY <1>7, <2>2, <2>4, SMT
  <2>6. Total(g, 1..n) = g[1] + g[2] + g[3] + g[4] + g[5]
    <3>1. n \in Nat
      BY <1>7
    <3> QED
      BY <1>7, <2>5, <3>1, SumOf, Zenon
  <2>7. a = d(1) * 10000 + d(2) * 1000 + d(3) * 100 + d(4) * 10 + d(5)
    BY <1>1, <1>7, <2>1, FiveDigits, SMT DEF Largest
  <2> QED
    BY <1>2, <1>4, <1>5, <1>6, <2>4, <2>6, <2>7, SMT
<1>8. CASE n = 7
  <2> DEFINE d(i) == h[s + i]
  <2>1. /\ d(1) = (a \div 1000000) % 10 /\ d(2) = (a \div 100000) % 10
        /\ d(3) = (a \div 10000) % 10 /\ d(4) = (a \div 1000) % 10
        /\ d(5) = (a \div 100) % 10 /\ d(6) = (a \div 10) % 10 /\ d(7) = (a \div 1) % 10
    BY <1>3, <1>8, SMT
  <2>2. \A i \in 1..7 : d(i) \in 0..9
    BY <1>1, <2>1, SMT
  <2>3. \A i \in 1..7 : g[i] = d(i) * 10^(7 - i)
    BY <1>8, <2>2, SMT DEF g, CharValue
  <2> HIDE DEF d
  <2>4. /\ g[1] = d(1) * 1000000 /\ g[2] = d(2) * 100000 /\ g[3] = d(3) * 10000
        /\ g[4] = d(4) * 1000 /\ g[5] = d(5) * 100 /\ g[6] = d(6) * 10 /\ g[7] = d(7)
    BY <2>2, <2>3, SMT
  <2>5. \A i \in 1..n : g[i] \in Nat
    BY <1>8, <2>2, <2>4, SMT
  <2>6. Total(g, 1..n) = g[1] + g[2] + g[3] + g[4] + g[5] + g[6] + g[7]
    <3>1. n \in Nat
      BY <1>8
    <3> QED
      BY <1>8, <2>5, <3>1, SumOf, Zenon
  <2>7. a = d(1) * 1000000 + d(2) * 100000 + d(3) * 10000 + d(4) * 1000
          + d(5) * 100 + d(6) * 10 + d(7)
    BY <1>1, <1>8, <2>1, SevenDigits, SMT DEF Largest
  <2> QED
    BY <1>2, <1>4, <1>5, <1>6, <2>4, <2>6, <2>7, SMT
<1> QED
  BY <1>7, <1>8

-----------------------------------------------------------------------------
(* The data field of a measurement.                                          *)

LEMMA Encodes ==
  ASSUME NEW n \in {5, 7}, NEW v \in Int
  PROVE  /\ Encoded(v, n + 1) \in Seq(0..9) /\ Len(Encoded(v, n + 1)) = n + 1
         /\ IsCoded(Encoded(v, n + 1), v, n)
<1> DEFINE a == Magnitude(v)
           m == n + 1
           sign == <<IF v < 0 THEN 1 ELSE 0>>
           decimals == [i \in 1..m - 1 |-> (a \div 10^(m - 1 - i)) % 10]
           e == sign \o decimals
<1>1. Encoded(v, n + 1) = e
  BY Zenon DEF Encoded, Magnitude
<1>2. a \in Nat
  BY SMT DEF Magnitude
<1>3. m \in Nat /\ m - 1 = n /\ n \in Nat
  OBVIOUS
<1> HIDE DEF a, m
<1>4. \A k \in 0..6 : 10^k \in Nat \ {0}
  <2> SUFFICES ASSUME NEW k \in 0..6 PROVE 10^k \in Nat \ {0}
    OBVIOUS
  <2>1. CASE k = 0
    BY <2>1, SMT
  <2>2. CASE k = 1
    BY <2>2, SMT
  <2>3. CASE k = 2
    BY <2>3, SMT
  <2>4. CASE k = 3
    BY <2>4, SMT
  <2>5. CASE k = 4
    BY <2>5, SMT
  <2>6. CASE k = 5
    BY <2>6, SMT
  <2>7. CASE k = 6
    BY <2>7, SMT
  <2> QED
    BY <2>1, <2>2, <2>3, <2>4, <2>5, <2>6, <2>7
<1>5. \A i \in 1..n : decimals[i] = (a \div 10^(n - i)) % 10
  BY <1>3, SMT
<1>6. \A p \in Nat \ {0} : (a \div p) % 10 \in 0..9
  BY <1>2, SMT
<1>7. \A i \in 1..n : (a \div 10^(n - i)) % 10 \in 0..9
  <2>1. \A i \in 1..n : n - i \in 0..6
    BY SMT
  <2> QED
    BY <1>4, <1>6, <2>1
<1>8. decimals \in Seq(0..9) /\ Len(decimals) = n
  <2>1. DOMAIN decimals = 1..n
    BY <1>3
  <2>2. decimals = [i \in 1..n |-> decimals[i]]
    BY <1>3
  <2> HIDE DEF decimals
  <2>3. \A i \in 1..n : decimals[i] \in 0..9
    BY <1>5, <1>7
  <2> QED
    BY <1>3, <2>1, <2>2, <2>3, SMT
<1>9. sign \in Seq(0..9) /\ Len(sign) = 1 /\ sign[1] = IF v < 0 THEN 1 ELSE 0
  BY SMT
<1> HIDE DEF sign, decimals
<1>10. /\ e \in Seq(0..9) /\ Len(e) = Len(sign) + Len(decimals)
       /\ \A i \in 1..(Len(sign) + Len(decimals)) :
            e[i] = IF i <= Len(sign) THEN sign[i] ELSE decimals[i - Len(sign)]
  BY <1>8, <1>9, ConcatProperties, Zenon
<1> HIDE DEF e
<1>11. /\ Len(e) = n + 1 /\ e[1] = IF v < 0 THEN 1 ELSE 0
       /\ \A i \in 1..n : e[1 + i] = decimals[i]
  BY <1>3, <1>8, <1>9, <1>10, SMT
<1>12. IsCoded(e, v, n)
  BY <1>5, <1>11 DEF IsCoded, a
<1> QED
  BY <1>1, <1>10, <1>11, <1>12

\* What FlattenSeq chains together.
Joins(F, s, n) == F = [i \in 1..n |-> IF i = 1 THEN s[i] ELSE F[i - 1] \o s[i]]

LEMMA JoinExists ==
  ASSUME NEW s, NEW n \in Nat
  PROVE  \E F : Joins(F, s, n)
<1> DEFINE Step(F, i) == IF i = 1 THEN s[i] ELSE F[i - 1] \o s[i]
           T == {m \in Nat : \E F : F = [i \in 1..m |-> Step(F, i)]}
<1>1. 0 \in T
  <2> DEFINE F == [i \in 1..0 |-> s[i]]
  <2>1. F = [i \in 1..0 |-> Step(F, i)]
    OBVIOUS
  <2> QED
    BY <2>1
<1>2. ASSUME NEW m \in Nat, m \in T
      PROVE  m + 1 \in T
  <2>1. PICK F : F = [i \in 1..m |-> Step(F, i)]
    BY <1>2
  <2> DEFINE G == [i \in 1..(m + 1) |-> Step(F, i)]
  <2>2. \A i \in 1..m : G[i] = F[i]
    <3> SUFFICES ASSUME NEW i \in 1..m PROVE G[i] = F[i]
      OBVIOUS
    <3>1. F[i] = Step(F, i)
      <4> HIDE DEF Step
      <4> QED
        BY <2>1
    <3>2. G[i] = Step(F, i)
      <4> HIDE DEF Step
      <4> QED
        OBVIOUS
    <3> QED
      BY <3>1, <3>2
  <2>3. \A i \in 1..(m + 1) : Step(F, i) = Step(G, i)
    <3> SUFFICES ASSUME NEW i \in 1..(m + 1), i # 1 PROVE F[i - 1] = G[i - 1]
      OBVIOUS
    <3>1. i - 1 \in 1..m
      OBVIOUS
    <3> QED
      BY <2>2, <3>1
  <2>4. G = [i \in 1..(m + 1) |-> Step(G, i)]
    <3>1. G = [i \in 1..(m + 1) |-> Step(F, i)]
      OBVIOUS
    <3> HIDE DEF G, Step
    <3> QED
      BY <2>3, <3>1
  <2> HIDE DEF G, Step
  <2>5. \E H : H = [i \in 1..(m + 1) |-> Step(H, i)]
    BY <2>4
  <2> QED
    BY <2>5
<1>3. n \in T
  <2> HIDE DEF T
  <2> QED
    BY <1>1, <1>2, NatSetInduction
<1>4. PICK F : F = [i \in 1..n |-> Step(F, i)]
  BY <1>3
<1> QED
  BY <1>4 DEF Joins

LEMMA FlattenJoins ==
  ASSUME NEW s, Len(s) \in Nat \ {0}
  PROVE  \E F : Joins(F, s, Len(s)) /\ FlattenSeq(s) = F[Len(s)]
<1> DEFINE F == CHOOSE F : Joins(F, s, Len(s))
<1>1. Joins(F, s, Len(s))
  BY JoinExists
<1>2. FlattenSeq(s) = F[Len(s)]
  BY Zenon DEF FlattenSeq, Joins
<1> HIDE DEF F
<1> QED
  BY <1>1, <1>2

\* The quantity at place j of the frame: how many digits it has, and how many
\* there are before it.
Wide(j) == IF j <= 9 THEN 6 ELSE 8
Off(j)  == IF j <= 10 THEN 6 * (j - 1) ELSE 54 + 8 * (j - 10)

LEMMA Offsets ==
  ASSUME NEW m \in 1..13
  PROVE  /\ Off(m) \in Nat /\ Wide(m) \in 6..8 /\ Off(m) + Wide(m) = Off(m + 1)
         /\ Off(1) = 0 /\ Off(14) = 86
         /\ \A j \in 1..m : Off(j) \in Nat /\ Off(j) <= Off(m)
BY SMT DEF Off, Wide

\* The first m quantities lie in f one after the other.
UpTo(f, s, m) ==
  /\ f \in Seq(0..9) /\ Len(f) = Off(m + 1)
  /\ \A j \in 1..m : \A t \in 1..Wide(j) : f[Off(j) + t] = s[j][t]

\* One after the other, the quantities are where Off says.
Quantities(s) ==
  Len(s) = 13 /\ \A j \in 1..13 : s[j] \in Seq(0..9) /\ Len(s[j]) = Wide(j)

LEMMA Laid ==
  ASSUME NEW s, Quantities(s)
  PROVE  UpTo(FlattenSeq(s), s, 13)
<1> USE DEF Quantities
<1>0. Len(s) \in Nat \ {0}
  OBVIOUS
<1>1. PICK F : Joins(F, s, 13) /\ FlattenSeq(s) = F[13]
  BY <1>0, FlattenJoins
<1>2. \A i \in 1..13 : F[i] = IF i = 1 THEN s[i] ELSE F[i - 1] \o s[i]
  BY <1>1 DEF Joins
<1> DEFINE T == {m \in Nat : m \in 1..13 => UpTo(F[m], s, m)}
<1>3. 0 \in T
  OBVIOUS
<1>4. ASSUME NEW m \in Nat, m \in T
      PROVE  m + 1 \in T
  <2> SUFFICES ASSUME m + 1 \in 1..13 PROVE UpTo(F[m + 1], s, m + 1)
    OBVIOUS
  <2>1. CASE m = 0
    <3>1. F[1] = s[1]
      BY <1>2
    <3>2. s[1] \in Seq(0..9) /\ Len(s[1]) = Wide(1)
      OBVIOUS
    <3>3. Off(1) = 0 /\ Off(1) + Wide(1) = Off(1 + 1) /\ Wide(1) \in Nat
      BY SMT DEF Off, Wide
    <3>4. \A t \in 1..Wide(1) : F[1][Off(1) + t] = s[1][t]
      <4> SUFFICES ASSUME NEW t \in 1..Wide(1)
                   PROVE  F[1][Off(1) + t] = s[1][t]
        OBVIOUS
      <4>1. Off(1) + t = t
        BY <3>3
      <4> QED
        BY <3>1, <4>1, Zenon
    <3>5. UpTo(F[1], s, 1)
      <4>1. \A j \in 1..1 : j = 1
        OBVIOUS
      <4>2. Len(F[1]) = Off(1 + 1)
        BY <3>1, <3>2, <3>3
      <4> QED
        BY <3>1, <3>2, <3>4, <4>1, <4>2 DEF UpTo
    <3> QED
      BY <2>1, <3>5
  <2>2. CASE m # 0
    <3> DEFINE p == F[m]
               q == s[m + 1]
               n == Off(m + 1)
               w == Wide(m + 1)
    <3>1. m \in 1..12 /\ m + 1 \in 1..13 /\ UpTo(F[m], s, m)
      BY <1>4, <2>2
    <3>2. F[m + 1] = p \o q
      <4>1. m + 1 # 1 /\ (m + 1) - 1 = m
        BY <3>1
      <4> QED
        BY <1>2, <3>1, <4>1
    <3>3. /\ p \in Seq(0..9) /\ Len(p) = n
          /\ q \in Seq(0..9) /\ Len(q) = w
          /\ \A j \in 1..m : \A t \in 1..Wide(j) : p[Off(j) + t] = s[j][t]
      BY <3>1, Zenon DEF UpTo
    <3> HIDE DEF p, q, n, w
    <3>4. n \in Nat /\ w \in Nat /\ n + w = Off((m + 1) + 1)
      BY <3>1, SMT DEF n, w, Off, Wide
    <3>5. \A j \in 1..m : /\ Off(j) \in Nat /\ Wide(j) \in Nat
                          /\ Off(j) + Wide(j) <= n
      BY <3>1, SMT DEF n, Off, Wide
    <3> DEFINE r == p \o q
    <3>6. /\ r \in Seq(0..9) /\ Len(r) = Len(p) + Len(q)
          /\ \A i \in 1..(Len(p) + Len(q)) :
               r[i] = IF i <= Len(p) THEN p[i] ELSE q[i - Len(p)]
      BY <3>3, ConcatProperties, Zenon
    <3> HIDE DEF r
    <3>7. /\ Len(r) = n + w
          /\ \A i \in 1..(n + w) : r[i] = IF i <= n THEN p[i] ELSE q[i - n]
      BY <3>3, <3>6
    <3>8. \A j \in 1..m : \A t \in 1..Wide(j) : r[Off(j) + t] = s[j][t]
      <4> SUFFICES ASSUME NEW j \in 1..m, NEW t \in 1..Wide(j)
                   PROVE  r[Off(j) + t] = p[Off(j) + t]
        BY <3>3
      <4>1. Off(j) + t \in 1..(n + w) /\ Off(j) + t <= n
        <5>1. /\ Off(j) \in Nat /\ Wide(j) \in Nat
              /\ Off(j) + Wide(j) <= n
          BY <3>5
        <5> DEFINE o == Off(j)
                   v == Wide(j)
        <5>2. o \in Nat /\ v \in Nat /\ o + v <= n /\ t \in 1..v
          BY <5>1
        <5> HIDE DEF o, v
        <5>3. o + t \in 1..(n + w) /\ o + t <= n
          BY <3>4, <5>2
        <5> QED
          BY <5>3 DEF o
      <4> QED
        BY <3>7, <4>1
    <3>9. \A t \in 1..w : r[n + t] = q[t]
      <4> SUFFICES ASSUME NEW t \in 1..w
                   PROVE  r[n + t] = q[t]
        OBVIOUS
      <4>1. n + t \in 1..(n + w) /\ ~(n + t <= n) /\ (n + t) - n = t
        BY <3>4
      <4> QED
        BY <3>7, <4>1
    <3>10. \A j \in 1..(m + 1) : \A t \in 1..Wide(j) : r[Off(j) + t] = s[j][t]
      <4>1. \A j \in 1..(m + 1) : j \in 1..m \/ j = m + 1
        BY <3>1
      <4> QED
        BY <3>8, <3>9, <4>1, Zenon DEF n, w, q
    <3> QED
      BY <3>2, <3>4, <3>6, <3>7, <3>10 DEF UpTo, r
  <2> QED
    BY <2>1, <2>2
<1>5. 13 \in T
  <2> HIDE DEF T
  <2> QED
    BY <1>3, <1>4, NatSetInduction
<1>6. UpTo(F[13], s, 13)
  BY <1>5
<1> QED
  BY <1>1, <1>6

\* The measurements a device can send.
IsSample(smp) ==
  \A f \in Field : smp[f] \in Int /\ Magnitude(smp[f]) <= Largest(Digits(f))

\* The quantities are in the order of the frame at the places the driver knows.
LEMMA Places ==
  /\ \A f \in Field : \E j \in 1..13 :
       Order[j] = f /\ Start(f) = 8 + Off(j) /\ Digits(f) = Wide(j) - 1
  /\ \A j \in 1..13 : Order[j] \in Field /\ Digits(Order[j]) = Wide(j) - 1
  /\ \A f \in Field : Digits(f) \in {5, 7}
BY SMT DEF Field, Short, Long, Order, Start, Digits, Off, Wide

-----------------------------------------------------------------------------
(* The hexadecimal digits of what arrives.                                   *)

\* Digit p of the data field, the first one being digit 0.
Nibble(d, p) == IF p % 2 = 0 THEN d[p \div 2 + 1] \div 16 ELSE d[p \div 2 + 1] % 16

\* The data field begins at digit 8.
LEMMA DataDigits ==
  ASSUME NEW buff, NEW d, NEW n \in 0..44,
         \A i \in 1..n : buff[3 + i] = d[i],
         NEW p \in 0..(2 * n - 1)
  PROVE  ToHexStr(buff)[8 + p] = Nibble(d, p)
<1>1. PICK k \in 0..(n - 1) : p = 2 * k \/ p = 2 * k + 1
  <2>1. p \div 2 \in 0..(n - 1) /\ (p = 2 * (p \div 2) \/ p = 2 * (p \div 2) + 1)
    BY SMT
  <2> QED
    BY <2>1
<1>2. k \in Nat /\ k + 1 \in 1..n /\ 3 + (k + 1) = 4 + k
  BY SMT
<1>3. buff[4 + k] = d[k + 1]
  BY <1>2
<1>4. 8 + p \in 0..95
  BY SMT
<1>5. ToHexStr(buff)[8 + p] =
        IF (8 + p) % 2 = 0 THEN buff[(8 + p) \div 2] \div 16 ELSE buff[(8 + p) \div 2] % 16
  BY <1>4, Zenon DEF ToHexStr
<1>6. CASE p = 2 * k
  <2>1. (8 + p) % 2 = 0 /\ (8 + p) \div 2 = 4 + k /\ p % 2 = 0 /\ p \div 2 = k
    BY <1>2, <1>6, SMT
  <2> QED
    BY <1>3, <1>5, <2>1, Zenon DEF Nibble
<1>7. CASE p = 2 * k + 1
  <2>1. ~((8 + p) % 2 = 0) /\ (8 + p) \div 2 = 4 + k /\ ~(p % 2 = 0) /\ p \div 2 = k
    BY <1>2, <1>7, SMT
  <2> QED
    BY <1>3, <1>5, <2>1, Zenon DEF Nibble
<1> QED
  BY <1>1, <1>6, <1>7

\* Two digits to a byte.
Pairs(D) == [b \in 1..43 |-> 16 * D[2 * b - 1] + D[2 * b]]

LEMMA Halved == \A p \in 0..85 : \E k \in 0..42 : p = 2 * k \/ p = 2 * k + 1
<1> SUFFICES ASSUME NEW p \in 0..85
             PROVE  \E k \in 0..42 : p = 2 * k \/ p = 2 * k + 1
  OBVIOUS
<1>1. p \div 2 \in 0..42 /\ (p = 2 * (p \div 2) \/ p = 2 * (p \div 2) + 1)
  BY SMT
<1> QED
  BY <1>1

IsPaired(D, d) ==
  /\ d \in Seq(Byte) /\ Len(d) = 43
  /\ \A p \in 0..85 : Nibble(d, p) = D[p + 1]

LEMMA Paired ==
  ASSUME NEW D \in Seq(0..9), Len(D) = 86
  PROVE  IsPaired(D, Pairs(D))
<1> DEFINE d == Pairs(D)
<1>1. \A i \in 1..86 : D[i] \in 0..9
  BY ElementOfSeq
<1>2. ASSUME NEW b \in 1..43
      PROVE  d[b] \in Byte /\ d[b] \div 16 = D[2 * b - 1] /\ d[b] % 16 = D[2 * b]
  <2> DEFINE x == D[2 * b - 1]
             y == D[2 * b]
  <2>1. x \in 0..9 /\ y \in 0..9
    <3>1. 2 * b - 1 \in 1..86 /\ 2 * b \in 1..86
      BY SMT
    <3> QED
      BY <1>1, <3>1
  <2>2. d[b] = (16 * x) + y
    BY Zenon DEF Pairs
  <2> HIDE DEF x, y
  <2>3. /\ (16 * x) + y \in 0..255
        /\ ((16 * x) + y) \div 16 = x /\ ((16 * x) + y) % 16 = y
    BY <2>1, SMT
  <2> QED
    BY <2>2, <2>3 DEF x, y, Byte
<1> HIDE DEF d
<1>3. d \in Seq(Byte) /\ Len(d) = 43
  <2>1. DOMAIN d = 1..43 /\ d = [b \in 1..43 |-> d[b]]
    BY Zenon DEF d, Pairs
  <2>2. d \in [1..43 -> Byte]
    BY <1>2, <2>1
  <2> QED
    BY <2>1, <2>2
<1>4. ASSUME NEW p \in 0..85
      PROVE  Nibble(d, p) = D[p + 1]
  <2>1. PICK k \in 0..42 : p = 2 * k \/ p = 2 * k + 1
    BY Halved
  <2>2. k + 1 \in 1..43 /\ 2 * (k + 1) - 1 = 2 * k + 1 /\ 2 * (k + 1) = 2 * k + 2
    BY SMT
  <2>3. d[k + 1] \div 16 = D[2 * k + 1] /\ d[k + 1] % 16 = D[2 * k + 2]
    BY <1>2, <2>2
  <2>4. CASE p = 2 * k
    <3>1. p % 2 = 0 /\ p \div 2 = k /\ p + 1 = 2 * k + 1
      BY <2>4, SMT
    <3> QED
      BY <2>3, <3>1, Zenon DEF Nibble
  <2>5. CASE p = 2 * k + 1
    <3>1. \A c \in 0..42 : LET o == 2 * c + 1 IN
            ~(o % 2 = 0) /\ o \div 2 = c /\ o + 1 = 2 * c + 2
      BY SMT
    <3>2. ~(p % 2 = 0) /\ p \div 2 = k /\ p + 1 = 2 * k + 2
      BY <2>5, <3>1, Zenon
    <3> QED
      BY <2>3, <3>2, Zenon DEF Nibble
  <2> QED
    BY <2>1, <2>4, <2>5
<1> QED
  BY <1>3, <1>4 DEF IsPaired, d

\* The data field of a measurement fits a frame, and its digits are, from the
\* place the driver looks at, the ones the device coded.
LEMMA SampleDigits ==
  ASSUME NEW smp, IsSample(smp)
  PROVE  /\ DataField(smp) \in Seq(Byte) /\ Len(DataField(smp)) = 43
         /\ \A f \in Field : \A i \in 0..Digits(f) :
              /\ Start(f) + i - 8 \in 0..85
              /\ Nibble(DataField(smp), Start(f) + i - 8) =
                   Encoded(smp[f], Digits(f) + 1)[1 + i]
<1> DEFINE s == [j \in 1..13 |-> Encoded(smp[Order[j]], IF j <= 9 THEN 6 ELSE 8)]
           D == FlattenSeq(s)
           d == Pairs(D)
<1>1. DataField(smp) = d
  BY Zenon DEF DataField, Pairs
<1>2. \A j \in 1..13 : s[j] = Encoded(smp[Order[j]], Wide(j))
  BY Zenon DEF Wide
<1>3. Len(s) = 13
  OBVIOUS
<1> HIDE DEF s
<1>4. ASSUME NEW j \in 1..13
      PROVE  s[j] \in Seq(0..9) /\ Len(s[j]) = Wide(j)
  <2>1. Order[j] \in Field /\ Digits(Order[j]) = Wide(j) - 1
    BY Places
  <2>2. Digits(Order[j]) \in {5, 7} /\ smp[Order[j]] \in Int
    BY <2>1, Places DEF IsSample
  <2>3. Wide(j) = Digits(Order[j]) + 1
    BY <2>1, <2>2, SMT DEF Wide
  <2> DEFINE n == Digits(Order[j])
             v == smp[Order[j]]
  <2>4. n \in {5, 7} /\ v \in Int
    BY <2>2
  <2>5. s[j] = Encoded(v, n + 1) /\ Wide(j) = n + 1
    BY <1>2, <2>3
  <2> HIDE DEF n, v
  <2> QED
    BY <2>4, <2>5, Encodes
<1>5. /\ D \in Seq(0..9) /\ Len(D) = 86
      /\ \A j \in 1..13 : \A t \in 1..Wide(j) : D[Off(j) + t] = s[j][t]
  <2>1. Quantities(s)
    BY <1>3, <1>4 DEF Quantities
  <2>2. UpTo(D, s, 13)
    BY <2>1, Laid
  <2>3. Off(13 + 1) = 86
    BY SMT DEF Off
  <2> QED
    BY <2>2, <2>3, Zenon DEF UpTo
<1> HIDE DEF D
<1>6. d \in Seq(Byte) /\ Len(d) = 43 /\ \A p \in 0..85 : Nibble(d, p) = D[p + 1]
  <2>1. IsPaired(D, d)
    BY <1>5, Paired
  <2> QED
    BY <2>1 DEF IsPaired
<1> HIDE DEF d
<1>7. ASSUME NEW f \in Field, NEW i \in 0..Digits(f)
      PROVE  /\ Start(f) + i - 8 \in 0..85
             /\ Nibble(d, Start(f) + i - 8) = Encoded(smp[f], Digits(f) + 1)[1 + i]
  <2>1. PICK j \in 1..13 : Order[j] = f /\ Start(f) = 8 + Off(j) /\ Digits(f) = Wide(j) - 1
    BY Places
  <2>2. Off(j) \in Nat /\ Wide(j) \in 6..8 /\ Off(j) + Wide(j) <= 86
    BY SMT DEF Off, Wide
  <2> DEFINE o == Off(j)
             w == Wide(j)
  <2>3. o \in Nat /\ w \in 6..8 /\ o + w <= 86 /\ Start(f) = 8 + o /\ Digits(f) = w - 1
    BY <2>1, <2>2
  <2>4. D[o + (i + 1)] = Encoded(smp[f], w)[i + 1]
    <3>1. i + 1 \in 1..w
      <4>1. \A k \in 0..(w - 1) : k + 1 \in 1..w
        BY <2>3
      <4> QED
        BY <2>3, <4>1
    <3> QED
      <4>1. D[Off(j) + (i + 1)] = s[j][i + 1]
        BY <1>5, <3>1, Zenon
      <4> QED
        BY <1>2, <2>1, <4>1, Zenon
  <2> HIDE DEF o, w
  <2>5. /\ i \in 0..(w - 1) /\ Start(f) + i - 8 = o + i /\ o + i \in 0..85
        /\ (o + i) + 1 = o + (i + 1) /\ i + 1 = 1 + i /\ Digits(f) + 1 = w
    BY <2>3
  <2>6. Nibble(d, o + i) = D[o + (i + 1)]
    BY <1>6, <2>5
  <2> QED
    BY <2>4, <2>5, <2>6
<1> QED
  BY <1>1, <1>6, <1>7

-----------------------------------------------------------------------------
(* What the driver decodes.                                                  *)

LEMMA DecodeReads ==
  ASSUME NEW buff, NEW f
  PROVE  Decode(buff, f) = ReadFrom(ToHexStr(buff), Start(f), Digits(f))
BY Zenon DEF Decode, ReadFrom

\* A quantity in the data field is decoded as what it was.
LEMMA DecodeCoded ==
  ASSUME NEW buff, NEW d, NEW n \in 0..44,
         \A i \in 1..n : buff[3 + i] = d[i],
         NEW f \in Field, NEW v \in Int, Magnitude(v) <= Largest(Digits(f)),
         NEW e, IsCoded(e, v, Digits(f)),
         \A i \in 0..Digits(f) :
           /\ Start(f) + i - 8 \in 0..(2 * n - 1)
           /\ Nibble(d, Start(f) + i - 8) = e[1 + i]
  PROVE  Decode(buff, f) = v
<1> DEFINE h == ToHexStr(buff)
           s == Start(f)
           k == Digits(f)
<1>1. k \in {5, 7} /\ s \in Nat
  BY Places, SMT DEF Start, Field, Short, Long
<1>2. \A i \in 0..k : h[s + i] = e[1 + i]
  <2> SUFFICES ASSUME NEW i \in 0..k
               PROVE  h[s + i] = e[1 + i]
    OBVIOUS
  <2> DEFINE p == s + i - 8
  <2>1. p \in 0..(2 * n - 1) /\ Nibble(d, p) = e[1 + i]
    OBVIOUS
  <2>2. 8 + p = s + i
    BY <1>1
  <2> HIDE DEF p, h
  <2>3. h[8 + p] = Nibble(d, p)
    BY <2>1, DataDigits DEF h
  <2> QED
    BY <2>1, <2>2, <2>3
<1>3. Magnitude(v) <= Largest(k) /\ IsCoded(e, v, k)
  OBVIOUS
<1>4. \A m \in {5, 7}, x \in Nat :
        (Magnitude(v) <= Largest(m) /\ IsCoded(e, v, m)
           /\ \A i \in 0..m : h[x + i] = e[1 + i])
        => ReadFrom(h, x, m) = v
  <2> HIDE DEF h
  <2> QED
    BY ReadsBack
<1> HIDE DEF h, s, k
<1>5. ReadFrom(h, s, k) = v
  BY <1>1, <1>2, <1>3, <1>4, Zenon
<1> QED
  BY <1>5, DecodeReads DEF h, s, k

\* The data field of what was received is the one sent; only its length may
\* have been damaged.
HasData(g, d) == \A i \in 1..Len(d) : g[3 + i] = d[i]

LEMMA DataArrives ==
  ASSUME FrameInv, got # Zeroes, Check(got)
  PROVE  HasData(got, data) /\ Len(data) \in 0..250 /\ Len(data) + 5 <= BufSize
<1>0. Fits(code, addr, data)
  BY DEF FrameInv
<1>1. Len(data) \in 0..250 /\ Len(data) + 5 <= BufSize /\ BufSize \in 48..255
  BY <1>0, Sizes
<1>2. CASE hit = -1 /\ IsFrame(got, code, addr, data)
  <2>1. HasData(got, data)
    BY <1>2, Zenon DEF IsFrame, IsBody, HasData
  <2> QED
    BY <1>1, <2>1
<1>3. CASE sent # Zeroes /\ hit \in 0..Len(data) + 4 /\ Damaged(got, sent, hit)
  <2>1. sent = Gen(code, data, addr)
    BY <1>3 DEF FrameInv
  <2>2. IsFrame(sent, code, addr, data)
    BY <1>0, <2>1, GenIsFrame
  <2>3. hit = ILen
    BY <1>0, <1>3, <2>2, DamageSeen
  <2>4. \A j \in 0..BufSize - 1 : j # 1 => got[j] = sent[j]
    BY <1>3, <2>3 DEF Damaged, ILen
  <2>5. \A i \in 1..Len(data) : sent[3 + i] = data[i]
    BY <2>2, Zenon DEF IsFrame, IsBody
  <2>6. \A i \in 1..Len(data) : 3 + i \in 0..BufSize - 1 /\ 3 + i # 1
    BY <1>1
  <2>7. HasData(got, data)
    BY <2>4, <2>5, <2>6, Zenon DEF HasData
  <2> QED
    BY <1>1, <2>7
<1> QED
  BY <1>2, <1>3 DEF FrameInv

-----------------------------------------------------------------------------
(* The worked example of the comments.                                       *)

LEMMA CodedFive ==
  ASSUME NEW v \in Int, NEW e, e[1] = (IF v < 0 THEN 1 ELSE 0),
         e[2] = (Magnitude(v) \div 10000) % 10, e[3] = (Magnitude(v) \div 1000) % 10,
         e[4] = (Magnitude(v) \div 100) % 10, e[5] = (Magnitude(v) \div 10) % 10,
         e[6] = Magnitude(v) % 10
  PROVE  IsCoded(e, v, 5)
<1> DEFINE a == Magnitude(v)
<1>1. a \in Nat
  BY SMT DEF Magnitude
<1>2. /\ e[2] = (a \div 10000) % 10 /\ e[3] = (a \div 1000) % 10
      /\ e[4] = (a \div 100) % 10 /\ e[5] = (a \div 10) % 10 /\ e[6] = a % 10
  OBVIOUS
<1> HIDE DEF a
<1>3. a \div 1 = a
  BY <1>1, SMT
<1>4. ASSUME NEW i \in 1..5 PROVE e[1 + i] = (a \div 10^(5 - i)) % 10
  <2>1. CASE i = 1
    <3>1. e[1 + 1] = (a \div 10^(5 - 1)) % 10
      BY <1>2, SMT
    <3> QED
      BY <2>1, <3>1
  <2>2. CASE i = 2
    <3>1. e[1 + 2] = (a \div 10^(5 - 2)) % 10
      BY <1>2, SMT
    <3> QED
      BY <2>2, <3>1
  <2>3. CASE i = 3
    <3>1. e[1 + 3] = (a \div 10^(5 - 3)) % 10
      BY <1>2, SMT
    <3> QED
      BY <2>3, <3>1
  <2>4. CASE i = 4
    <3>1. e[1 + 4] = (a \div 10^(5 - 4)) % 10
      BY <1>2, SMT
    <3> QED
      BY <2>4, <3>1
  <2>5. CASE i = 5
    <3>1. e[1 + 5] = (a \div 10^(5 - 5)) % 10
      BY <1>2, <1>3, SMT
    <3> QED
      BY <2>5, <3>1
  <2> QED
    BY <2>1, <2>2, <2>3, <2>4, <2>5
<1> QED
  BY <1>4 DEF IsCoded, a

\* Three bytes are six digits.
LEMMA SixDigits ==
  ASSUME NEW d, NEW k \in {0, 3, 6}, NEW i \in 0..5
  PROVE  Nibble(d, 2 * k + i) =
           IF i = 0 THEN d[k + 1] \div 16 ELSE IF i = 1 THEN d[k + 1] % 16
           ELSE IF i = 2 THEN d[k + 2] \div 16 ELSE IF i = 3 THEN d[k + 2] % 16
           ELSE IF i = 4 THEN d[k + 3] \div 16 ELSE d[k + 3] % 16
<1>1. CASE i = 0
  <2>1. (2 * k + i) % 2 = 0 /\ (2 * k + i) \div 2 + 1 = k + 1
    BY <1>1, SMT
  <2> QED
    BY <1>1, <2>1, Zenon DEF Nibble
<1>2. CASE i = 1
  <2>1. ~((2 * k + i) % 2 = 0) /\ (2 * k + i) \div 2 + 1 = k + 1 /\ ~(i = 0)
    BY <1>2, SMT
  <2> QED
    BY <1>2, <2>1, Zenon DEF Nibble
<1>3. CASE i = 2
  <2>1. (2 * k + i) % 2 = 0 /\ (2 * k + i) \div 2 + 1 = k + 2 /\ ~(i = 0) /\ ~(i = 1)
    BY <1>3, SMT
  <2> QED
    BY <1>3, <2>1, Zenon DEF Nibble
<1>4. CASE i = 3
  <2>1. /\ ~((2 * k + i) % 2 = 0) /\ (2 * k + i) \div 2 + 1 = k + 2
        /\ ~(i = 0) /\ ~(i = 1) /\ ~(i = 2)
    BY <1>4, SMT
  <2> QED
    BY <1>4, <2>1, Zenon DEF Nibble
<1>5. CASE i = 4
  <2>1. /\ (2 * k + i) % 2 = 0 /\ (2 * k + i) \div 2 + 1 = k + 3
        /\ ~(i = 0) /\ ~(i = 1) /\ ~(i = 2) /\ ~(i = 3)
    BY <1>5, SMT
  <2> QED
    BY <1>5, <2>1, Zenon DEF Nibble
<1>6. CASE i = 5
  <2>1. /\ ~((2 * k + i) % 2 = 0) /\ (2 * k + i) \div 2 + 1 = k + 3
        /\ ~(i = 0) /\ ~(i = 1) /\ ~(i = 2) /\ ~(i = 3) /\ ~(i = 4)
    BY <1>6, SMT
  <2> QED
    BY <1>6, <2>1, Zenon DEF Nibble
<1> QED
  BY <1>1, <1>2, <1>3, <1>4, <1>5, <1>6

\* A quantity of three bytes that is one of the first three.
Spells(d, k, e) ==
  /\ e[1] = d[k + 1] \div 16 /\ e[2] = d[k + 1] % 16
  /\ e[3] = d[k + 2] \div 16 /\ e[4] = d[k + 2] % 16
  /\ e[5] = d[k + 3] \div 16 /\ e[6] = d[k + 3] % 16

LEMMA SpelledOut ==
  ASSUME NEW d, NEW k \in {0, 3, 6}, NEW e, Spells(d, k, e), NEW i \in 0..5
  PROVE  Nibble(d, 2 * k + i) = e[1 + i]
<1>1. e[1 + i] =
        IF i = 0 THEN e[1] ELSE IF i = 1 THEN e[2] ELSE IF i = 2 THEN e[3]
        ELSE IF i = 3 THEN e[4] ELSE IF i = 4 THEN e[5] ELSE e[6]
  OBVIOUS
<1> QED
  BY <1>1, SixDigits, Zenon DEF Spells

LEMMA DecodeThree ==
  ASSUME NEW buff, NEW d, \A i \in 1..9 : buff[3 + i] = d[i],
         NEW f \in Field, NEW k \in {0, 3, 6}, Start(f) = 8 + 2 * k, Digits(f) = 5,
         NEW v \in Int, Magnitude(v) <= 99999, NEW e, IsCoded(e, v, 5), Spells(d, k, e)
  PROVE  Decode(buff, f) = v
<1>1. Magnitude(v) <= Largest(Digits(f))
  BY SMT DEF Largest
<1>2. ASSUME NEW i \in 0..Digits(f)
      PROVE  /\ Start(f) + i - 8 \in 0..(2 * 9 - 1)
             /\ Nibble(d, Start(f) + i - 8) = e[1 + i]
  <2>1. i \in 0..5
    OBVIOUS
  <2>2. Start(f) + i - 8 = 2 * k + i /\ 2 * k + i \in 0..(2 * 9 - 1)
    BY <2>1
  <2> QED
    BY <2>1, <2>2, SpelledOut
<1>3. IsCoded(e, v, Digits(f))
  OBVIOUS
<1>4. 9 \in 0..44
  OBVIOUS
<1> QED
  BY <1>1, <1>2, <1>3, <1>4, DecodeCoded

LEMMA Magnitudes == \A v \in Int : Magnitude(v) = IF v < 0 THEN 0 - v ELSE v
BY SMT DEF Magnitude

LEMMA ExampleReads ==
  ASSUME NEW buff, NEW d, \A i \in 1..9 : buff[3 + i] = d[i],
         \A i \in 1..9 : d[i] = QuotedData[i]
  PROVE  \A j \in 1..3 : Decode(buff, Order[j]) = QuotedValues[j]
<1>1. /\ d[1] = 16 /\ d[2] = 147 /\ d[3] = 118 /\ d[4] = 18 /\ d[5] = 152
      /\ d[6] = 135 /\ d[7] = 0 /\ d[8] = 20 /\ d[9] = 3
  BY SMT DEF QuotedData
<1>2. Decode(buff, "yaw") = -9376
  <2> DEFINE v == -9376
             e == <<1, 0, 9, 3, 7, 6>>
  <2>1. v \in Int /\ v < 0 /\ 0 - v = 9376
    BY SMT
  <2>2. /\ e[1] = 1 /\ e[2] = 0 /\ e[3] = 9 /\ e[4] = 3 /\ e[5] = 7 /\ e[6] = 6
    OBVIOUS
  <2>3. "yaw" \in Field /\ Start("yaw") = 8 + 2 * 0 /\ Digits("yaw") = 5
    BY SMT DEF Field, Short, Start, Digits
  <2> HIDE DEF v, e
  <2>4. Magnitude(v) = 9376 /\ Magnitude(v) <= 99999
    BY <2>1, Magnitudes, SMT
  <2>5. IsCoded(e, v, 5)
    BY <2>1, <2>2, <2>4, CodedFive, SMT
  <2>6. Spells(d, 0, e)
    BY <1>1, <2>2, SMT DEF Spells
  <2>7. Decode(buff, "yaw") = v
    BY <2>1, <2>3, <2>4, <2>5, <2>6, DecodeThree, SMT
  <2> QED
    BY <2>7 DEF v
<1>3. Decode(buff, "pitch") = -29887
  <2> DEFINE v == -29887
             e == <<1, 2, 9, 8, 8, 7>>
  <2>1. v \in Int /\ v < 0 /\ 0 - v = 29887
    BY SMT
  <2>2. /\ e[1] = 1 /\ e[2] = 2 /\ e[3] = 9 /\ e[4] = 8 /\ e[5] = 8 /\ e[6] = 7
    OBVIOUS
  <2>3. "pitch" \in Field /\ Start("pitch") = 8 + 2 * 3 /\ Digits("pitch") = 5
    BY SMT DEF Field, Short, Start, Digits
  <2> HIDE DEF v, e
  <2>4. Magnitude(v) = 29887 /\ Magnitude(v) <= 99999
    BY <2>1, Magnitudes, SMT
  <2>5. IsCoded(e, v, 5)
    BY <2>1, <2>2, <2>4, CodedFive, SMT
  <2>6. Spells(d, 3, e)
    BY <1>1, <2>2, SMT DEF Spells
  <2>7. Decode(buff, "pitch") = v
    BY <2>1, <2>3, <2>4, <2>5, <2>6, DecodeThree, SMT
  <2> QED
    BY <2>7 DEF v
<1>4. Decode(buff, "roll") = 1403
  <2> DEFINE v == 1403
             e == <<0, 0, 1, 4, 0, 3>>
  <2>1. v \in Int /\ ~(v < 0) /\ v = 1403
    BY SMT
  <2>2. /\ e[1] = 0 /\ e[2] = 0 /\ e[3] = 1 /\ e[4] = 4 /\ e[5] = 0 /\ e[6] = 3
    OBVIOUS
  <2>3. "roll" \in Field /\ Start("roll") = 8 + 2 * 6 /\ Digits("roll") = 5
    BY SMT DEF Field, Short, Start, Digits
  <2> HIDE DEF v, e
  <2>4. Magnitude(v) = 1403 /\ Magnitude(v) <= 99999
    BY <2>1, Magnitudes, SMT
  <2>5. IsCoded(e, v, 5)
    BY <2>1, <2>2, <2>4, CodedFive, SMT
  <2>6. Spells(d, 6, e)
    BY <1>1, <2>2, SMT DEF Spells
  <2>7. Decode(buff, "roll") = v
    BY <2>1, <2>3, <2>4, <2>5, <2>6, DecodeThree, SMT
  <2> QED
    BY <2>7 DEF v
<1>5. /\ Order[1] = "yaw" /\ Order[2] = "pitch" /\ Order[3] = "roll"
      /\ QuotedValues[1] = -9376 /\ QuotedValues[2] = -29887 /\ QuotedValues[3] = 1403
  BY SMT DEF Order, QuotedValues
<1>6. \A j \in 1..3 : j = 1 \/ j = 2 \/ j = 3
  OBVIOUS
<1> DEFINE x == -9376
           y == -29887
           z == 1403
<1>7. /\ Decode(buff, Order[1]) = x /\ Decode(buff, Order[2]) = y
      /\ Decode(buff, Order[3]) = z
      /\ QuotedValues[1] = x /\ QuotedValues[2] = y /\ QuotedValues[3] = z
  BY <1>2, <1>3, <1>4, <1>5, SMT
<1> HIDE DEF x, y, z
<1> QED
  BY <1>6, <1>7

-----------------------------------------------------------------------------
(* A measurement on its way.                                                 *)

\* What is measured is what is sent, and what is reported was decoded from the
\* data field sent.
SampleInv ==
  /\ FrameInv
  /\ sample # <<>> =>
       /\ sample = [f \in Field |-> sample[f]]
       /\ IsSample(sample) /\ data = DataField(sample)
  /\ vg_data # <<>> =>
       /\ got # Zeroes /\ HasData(got, data)
       /\ vg_data = [f \in Field |-> Decode(got, f)]

LEMMA InRange ==
  ASSUME NEW m \in Int, NEW x \in Within(m)
  PROVE  x \in Int /\ Magnitude(x) <= m
BY SMT DEF Within, Magnitude

\* The values fit the digits of their quantities.
LEMMA SmallValues ==
  ASSUME NEW f \in Field, NEW x \in Values3 \cup Others
  PROVE  x \in Int /\ Magnitude(x) <= Largest(Digits(f))
<1> DEFINE m == Magnitude(x)
<1>1. x \in Int /\ m <= 99999 /\ m \in Int
  <2>1. x \in Within(99999)
    BY SampleAssumption, SMT
  <2>2. x \in Int /\ Magnitude(x) <= 99999
    BY <2>1, InRange, SMT
  <2>3. Magnitude(x) \in Int
    BY <2>2, SMT DEF Magnitude
  <2> QED
    BY <2>2, <2>3, SMT
<1> HIDE DEF m
<1>2. m <= Largest(Digits(f))
  BY <1>1, SMT DEF Largest
<1> QED
  BY <1>1, <1>2 DEF m

LEMMA LargeValues ==
  ASSUME NEW f \in Field, f \notin Short, NEW x \in Values4
  PROVE  x \in Int /\ Magnitude(x) <= Largest(Digits(f))
<1>1. x \in Within(9999999)
  BY SampleAssumption, SMT
<1>2. x \in Int /\ Magnitude(x) <= 9999999
  BY <1>1, InRange, SMT
<1>3. Digits(f) = 7
  BY SMT DEF Digits
<1>4. Largest(7) = 9999999
  BY SMT DEF Largest
<1> QED
  BY <1>2, <1>3, <1>4, SMT

LEMMA SampleInvInit == Init => SampleInv
<1> SUFFICES ASSUME Init
             PROVE  SampleInv
  OBVIOUS
<1>1. vg_data = <<>>
  BY DEF Init
<1>2. CASE FrameInit /\ sample = <<>>
  BY <1>1, <1>2, FrameInvInit DEF SampleInv
<1>3. ASSUME NEW f \in Field, NEW o \in Others,
             NEW v \in (IF f \in Short THEN Values3 ELSE Values4),
             sample = [g \in Field |-> IF g = f THEN v ELSE o],
             ToSend(ReadAllData, 0, DataField(sample))
      PROVE  SampleInv
  <2>1. ASSUME NEW g \in Field
        PROVE  sample[g] \in Int /\ Magnitude(sample[g]) <= Largest(Digits(g))
    <3>1. sample[g] = IF g = f THEN v ELSE o
      BY <1>3
    <3>2. sample[g] \in Values3 \cup Others \/ (g \notin Short /\ sample[g] \in Values4)
      BY <1>3, <3>1, Zenon
    <3> QED
      BY <3>2, SmallValues, LargeValues, Zenon
  <2>2. IsSample(sample) /\ sample = [g \in Field |-> sample[g]]
    BY <1>3, <2>1 DEF IsSample
  <2>3. DataField(sample) \in Seq(Byte) /\ Len(DataField(sample)) = 43
    BY <2>2, SampleDigits
  <2>4. /\ data = DataField(sample) /\ code = 89 /\ addr = 0
        /\ sent = Zeroes /\ got = Zeroes /\ hit = -1
    BY <1>3 DEF ToSend, Untouched, ReadAllData
  <2>5. Fits(code, addr, data)
    <3>1. BufSize \in 48..255
      BY FrameAssumption
    <3>2. 89 \in Byte /\ 0 \in Byte
      BY SMT DEF Byte
    <3>3. data \in Seq(Byte) /\ Len(data) = 43
      BY <2>3, <2>4
    <3>4. Len(data) + 5 <= BufSize
      BY <3>1, <3>3
    <3> QED
      BY <2>4, <3>2, <3>3, <3>4 DEF Fits
  <2>6. FrameInv
    BY <2>4, <2>5 DEF FrameInv
  <2> QED
    BY <1>1, <2>2, <2>4, <2>6 DEF SampleInv
<1> QED
  BY <1>2, <1>3 DEF Init

LEMMA SampleInvStep == SampleInv /\ [Next]_vars => SampleInv'
<1> SUFFICES ASSUME SampleInv, [Next]_vars
             PROVE  SampleInv'
  OBVIOUS
<1>1. CASE FrameNext /\ UNCHANGED <<sample, vg_data>>
  <2>1. FrameInv'
    BY <1>1, FrameInvStep DEF SampleInv
  <2>2. data' = data /\ (got # Zeroes => got' = got)
    BY <1>1 DEF FrameNext, SendFrame, Arrive, ArriveDamaged
  <2> QED
    BY <1>1, <2>1, <2>2 DEF SampleInv
<1>2. CASE CalRecvData
  <2>1. /\ got # Zeroes /\ Check(got)
        /\ vg_data' = [f \in Field |-> Decode(got, f)]
        /\ got' = got /\ data' = data /\ sample' = sample /\ UNCHANGED frameVars
    BY <1>2 DEF CalRecvData, frameVars
  <2>2. FrameInv'
    BY <2>1, FrameInvStep DEF SampleInv
  <2>3. HasData(got, data)
    BY <2>1, DataArrives DEF SampleInv
  <2> QED
    BY <2>1, <2>2, <2>3 DEF SampleInv
<1>3. CASE UNCHANGED vars
  <2>1. FrameInv'
    BY <1>3, FrameInvStep DEF SampleInv, vars
  <2> QED
    BY <1>3, <2>1 DEF SampleInv, vars, frameVars
<1> QED
  BY <1>1, <1>2, <1>3 DEF Next

LEMMA SampleInvAlways == Spec => [](SampleInv /\ FrameInv)
<1>1. SampleInv => FrameInv
  BY DEF SampleInv
<1> QED
  BY <1>1, SampleInvInit, SampleInvStep, PTL DEF Spec

(* What _gen_imx300_vg_cmd puts into the buffer is, byte for byte and in     *)
(* length, the frame the header file describes, for every command word,      *)
(* address and data field that fits and every size of the buffer.            *)
THEOREM FramesAsDescribed == Spec => []SentAsDescribed
<1>1. FrameInv => SentAsDescribed
  <2> SUFFICES ASSUME FrameInv, sent # Zeroes
               PROVE  LET p == ProtocolFrame(code, data, addr) IN
                        sent = InBuffer(p) /\ GenLen(sent) = Len(p)
    BY DEF SentAsDescribed
  <2>1. Fits(code, addr, data) /\ sent = Gen(code, data, addr)
    BY DEF FrameInv
  <2>2. IsFrame(sent, code, addr, data)
    BY <2>1, GenIsFrame
  <2>3. GenLen(sent) = Len(data) + 5
    BY <2>1, <2>2, FrameAccepted
  <2>4. /\ Len(ProtocolFrame(code, data, addr)) = Len(data) + 5
        /\ sent = InBuffer(ProtocolFrame(code, data, addr))
    BY <2>1, <2>2, FrameIsDescribed
  <2> QED
    BY <2>3, <2>4
<1> QED
  BY <1>1, SampleInvAlways, PTL

(* A frame that arrives whole, and each complete frame quoted in a comment,  *)
(* is accepted by _check_imx300_vg_cmd; the caller's array gets as much of   *)
(* its data field as it holds, and its length if it holds all of it.         *)
THEOREM FramesReadBack == Spec => []RoundTrip
<1>1. FrameInv => RoundTrip
  <2> SUFFICES ASSUME FrameInv, got # Zeroes, hit = -1
               PROVE  /\ Check(got)
                      /\ \A max \in {1, 6, 32, 64} :
                           /\ \A i \in 1..max :
                                Payload(got, max)[i] = IF i <= Len(data) THEN data[i] ELSE 0
                           /\ Len(data) <= max => PayloadLen(got) = Len(data)
    BY DEF RoundTrip
  <2>1. Fits(code, addr, data) /\ IsFrame(got, code, addr, data)
    BY DEF FrameInv
  <2> QED
    BY <2>1, FrameAccepted
<1> QED
  BY <1>1, SampleInvAlways, PTL

(* A byte that is not the length and arrives changed, by whatever was added  *)
(* to it modulo 256, makes _check_imx300_vg_cmd refuse the frame.            *)
THEOREM DamageSeenAlways == Spec => []DamageNoticed
<1>1. FrameInv => DamageNoticed
  <2> SUFFICES ASSUME FrameInv, hit # -1, hit # ILen
               PROVE  ~Check(got)
    BY DEF DamageNoticed
  <2>1. /\ Fits(code, addr, data) /\ sent = Gen(code, data, addr)
        /\ hit \in 0..Len(data) + 4
        /\ Damaged(got, sent, hit)
    BY DEF FrameInv
  <2>2. IsFrame(sent, code, addr, data)
    BY <2>1, GenIsFrame
  <2> QED
    BY <2>1, <2>2, DamageSeen
<1> QED
  BY <1>1, SampleInvAlways, PTL

(* imx300_vg_cal_recv_data reports what the device measured, for every       *)
(* measurement that fits the digits of a quantity and whatever the wire does *)
(* to one byte of the frame: the thirteen places it counts are those of the  *)
(* quantities, a frame damaged in the data is dropped, and the example in    *)
(* the comments comes out as they say.                                       *)
THEOREM MeasuredIsReported == Spec => []Faithful
<1>1. ASSUME SampleInv, vg_data # <<>>, sample # <<>>
      PROVE  vg_data = sample
  <2>1. /\ sample = [f \in Field |-> sample[f]]
        /\ IsSample(sample) /\ data = DataField(sample)
        /\ HasData(got, data) /\ vg_data = [f \in Field |-> Decode(got, f)]
    BY <1>1 DEF SampleInv
  <2>2. ASSUME NEW f \in Field
        PROVE  Decode(got, f) = sample[f]
    <3> DEFINE v == sample[f]
               n == Digits(f)
               e == Encoded(v, n + 1)
               k == 43
    <3>1. n \in {5, 7} /\ v \in Int /\ Magnitude(v) <= Largest(Digits(f))
      BY <2>1, Places DEF IsSample
    <3>2. IsCoded(e, v, n)
      BY <3>1, Encodes
    <3>3. \A i \in 0..Digits(f) : /\ Start(f) + i - 8 \in 0..85
                                  /\ Nibble(data, Start(f) + i - 8) = e[1 + i]
      BY <2>1, SampleDigits
    <3>4. k \in 0..44 /\ 2 * k - 1 = 85
      OBVIOUS
    <3>5. \A i \in 1..k : got[3 + i] = data[i]
      <4>1. Len(data) = 43
        BY <2>1, SampleDigits
      <4> QED
        BY <2>1, <4>1 DEF HasData
    <3> HIDE DEF v, e, k
    <3>6. Decode(got, f) = v
      BY <3>1, <3>2, <3>3, <3>4, <3>5, DecodeCoded
    <3> QED
      BY <3>6 DEF v
  <2> QED
    BY <2>1, <2>2
<1>2. ASSUME SampleInv, vg_data # <<>>, Example
      PROVE  \A j \in 1..3 : vg_data[Order[j]] = QuotedValues[j]
  <2>1. HasData(got, data) /\ vg_data = [f \in Field |-> Decode(got, f)]
    BY <1>2 DEF SampleInv
  <2>2. \A i \in 1..9 : data[i] = QuotedData[i]
    <3> SUFFICES ASSUME NEW i \in 1..9
                 PROVE  data[i] = QuotedData[i]
      OBVIOUS
    <3>1. SubSeq(data, 1, 9) = QuotedData
      BY <1>2 DEF Example
    <3>2. SubSeq(data, 1, 9)[i] = data[i]
      BY SMT
    <3> QED
      BY <3>1, <3>2
  <2>3. \A i \in 1..9 : got[3 + i] = data[i]
    <3>1. Len(data) \in Nat /\ Len(data) >= 9
      BY <1>2, Sizes DEF Example, SampleInv, FrameInv
    <3> QED
      BY <2>1, <3>1 DEF HasData
  <2>4. \A j \in 1..3 : Decode(got, Order[j]) = QuotedValues[j]
    BY <2>2, <2>3, ExampleReads
  <2>5. \A j \in 1..3 : Order[j] \in Field
    BY Places
  <2> QED
    BY <2>1, <2>4, <2>5
<1>3. SampleInv => Faithful
  BY <1>1, <1>2 DEF Faithful
<1> QED
  BY <1>3, SampleInvAlways, PTL
=============================================================================
