-------------------------- MODULE ImuDriver_proof --------------------------
(***************************************************************************)
(* What holds of ImuDriver for every list of speeds, every set of          *)
(* addresses, every set of calls and every fault.                          *)
(*                                                                         *)
(* First what no fault can break: its types and its descriptors.  Then its *)
(* requests and answers: when answers are punctual, nothing is left on the *)
(* line between requests and measurements are fresh; when nothing is lost  *)
(* either, every call is answered by its own answer, and driver and device *)
(* keep agreeing on speed and address.  The program of main.cpp is such a  *)
(* client.                                                                 *)
(***************************************************************************)
EXTENDS ImuMain, Sums_proof


\* The places at which the driver or its caller holds a descriptor number.
Holding == {"send", "recv", "next", "idle", "drain", "close", "reopen",
            "drain_new", "flush"}

(* The inductive invariant: every descriptor is number 3, open or not, and   *)
(* the port is closed where it is about to be opened.                        *)
FdInv ==
  /\ fds \subseteq {3}
  /\ pc \in Holding => fd = 3
  /\ pc \in {"open", "reopen"} => fds = {}
  /\ pc \in {"next", "drain_new", "flush"} => fds = {3}
  /\ pc \in {"send", "recv"} /\ k # 0 => fds = {3}
  /\ pc \in {"drain_new", "flush"} => newFd = 3
  /\ pc \in {"idle", "drain", "close", "reopen", "drain_new", "flush"} => k = 0
  /\ k \in Nat

-----------------------------------------------------------------------------
(* open hands out number 3 when nothing is open: the numbers below belong to *)
(* the standard streams.                                                     *)
LEMMA LowestFreeOfNone == LowestFree({}) = 3
<1>1. Cardinality({}) = 0
  BY FS_EmptySet
<1>2. \A n \in 3..3 : n \notin {} /\ (\A m \in 3..(n - 1) : m \in {}) <=> n = 3
  OBVIOUS
<1> QED
  BY <1>1, <1>2 DEF LowestFree

(* serial_init on a port that is not open: it succeeds with number 3.        *)
LEMMA InitOpensThree ==
  ASSUME NEW speed, NEW n, fds = {}, n = LowestFree(fds), SerialInit(speed, n)
  PROVE  n = 3 /\ fds' = {3}
BY LowestFreeOfNone DEF SerialInit

(* serial_init on a port that is not open: it fails and leaves at most one   *)
(* descriptor, number 3, behind.                                             *)
LEMMA InitFailureLeavesThree ==
  ASSUME fds = {}, SerialInitFails
  PROVE  fds' \subseteq {3}
BY LowestFreeOfNone DEF SerialInitFails

-----------------------------------------------------------------------------
LEMMA FdInvInit == Init => FdInv
BY DEF Init, FdInv, Holding

LEMMA FdInvNext == FdInv /\ [Next]_vars => FdInv'
<1> SUFFICES ASSUME FdInv, [Next]_vars PROVE FdInv'
  OBVIOUS
<1> USE DEF FdInv, Holding
<1>1. CASE ProbeOpen
  <2>1. CASE \E n \in {LowestFree(fds)} :
               SerialInit(Speeds[k], n) /\ fd' = n /\ pc' = "send"
    BY <1>1, <2>1, InitOpensThree DEF ProbeOpen
  <2>2. CASE SerialInitFails /\ fd' = -1 /\ pc' = "failed"
    BY <1>1, <2>2, InitFailureLeavesThree DEF ProbeOpen
  <2> QED
    BY <1>1, <2>1, <2>2 DEF ProbeOpen
<1>2. CASE Send
  BY <1>2 DEF Send, SerialSend
<1>3. CASE Receive
  <2>1. fds' = fds /\ newFd' = newFd /\ pc = "recv"
    BY <1>3 DEF Receive
  <2>2. CASE k = 0
    <3>1. pc' \in {"drain", "idle"} /\ k' = k /\ fd' = fd
      BY <1>3, <2>2 DEF Receive
    <3> QED
      BY <2>1, <2>2, <3>1
  <2>3. CASE k # 0
    <3>1. PICK g : AfterProbe(Succeeds(call, g))
      BY <1>3, <2>3 DEF Receive
    <3>2. \/ pc' = "next" /\ k' = k /\ fd' = fd
          \/ pc' = "idle" /\ k' = 0 /\ fd' = fd
          \/ pc' = "send" /\ k' = 0 /\ fd' = fd
          \/ pc' = "failed" /\ k' = 0
      BY <3>1 DEF AfterProbe
    <3> QED
      BY <2>1, <2>3, <3>2
  <2> QED
    BY <2>2, <2>3
<1>4. CASE ProbeClose
  BY <1>4 DEF ProbeClose, Close
<1>5. CASE Drain
  BY <1>5 DEF Drain
<1>6. CASE CloseOld
  BY <1>6 DEF CloseOld, Close
<1>7. CASE Reopen
  <2>1. CASE \E n \in {LowestFree(fds)} :
               SerialInit(call.val, n) /\ newFd' = n /\ pc' = "drain_new" /\ UNCHANGED fd
    BY <1>7, <2>1, InitOpensThree DEF Reopen
  <2>2. CASE SerialInitFails /\ fd' = -1 /\ pc' = "failed" /\ UNCHANGED newFd
    BY <1>7, <2>2, InitFailureLeavesThree DEF Reopen
  <2> QED
    BY <1>7, <2>1, <2>2 DEF Reopen
<1>8. CASE FlushOld
  BY <1>8 DEF FlushOld
<1>9. CASE \E c \in Calls : Call(c)
  BY <1>9 DEF Call, lineVars
<1>10. CASE LineStep /\ UNCHANGED driverVars
  <2>1. fds' = fds
    BY <1>10 DEF LineStep, DevServe, DevAutoOutput, Deliver, LoseRequest, LoseReply
  <2> QED
    BY <1>10, <2>1 DEF driverVars
<1>11. CASE UNCHANGED vars
  BY <1>11 DEF vars, lineVars, driverVars
<1> QED
  BY <1>1, <1>2, <1>3, <1>4, <1>5, <1>6, <1>7, <1>8, <1>9, <1>10, <1>11
     DEF Next, DriverStep

LEMMA FdInvHolds == Spec => []FdInv
<1> QED
  BY FdInvInit, FdInvNext, PTL DEF Spec

-----------------------------------------------------------------------------
(* The driver never has the port open twice.                                 *)
THEOREM NeverOpenTwice == Spec => []OneOpenFd
<1>1. FdInv => OneOpenFd
  <2> SUFFICES ASSUME FdInv PROVE OneOpenFd
    OBVIOUS
  <2>1. fds = {} \/ fds = {3}
    BY DEF FdInv
  <2>2. Cardinality({}) = 0 /\ Cardinality({3}) = 1
    BY FS_EmptySet, FS_Singleton
  <2> QED
    BY <2>1, <2>2 DEF OneOpenFd
<1> QED
  BY <1>1, FdInvHolds, PTL

(* The flush of the number already closed reaches the port just opened.      *)
THEOREM FlushReachesNewPort == Spec => []StaleFdIsNewFd
<1>1. FdInv => StaleFdIsNewFd
  BY DEF FdInv, Holding, StaleFdIsNewFd
<1> QED
  BY <1>1, FdInvHolds, PTL
-----------------------------------------------------------------------------
(* The bytes in an input queue.                                              *)

\* A queue of frames with counts of bytes left.
Waiting == [cmd : Cmd \cup {"JUNK"}, val : Byte, new : BOOLEAN, left : Nat]
Counted(s) == s \in Seq(Waiting)

LEMMA CountedFacts ==
  ASSUME NEW s, Counted(s)
  PROVE  Len(s) \in Nat /\ \A j \in 1..Len(s) : s[j] \in Waiting /\ s[j].left \in Nat
<1>1. Len(s) \in Nat /\ \A j \in 1..Len(s) : s[j] \in Waiting
  BY DEF Counted
<1>2. \A f \in Waiting : f.left \in Nat
  BY DEF Waiting
<1> QED
  BY <1>1, <1>2

LEMMA BytesToTotal ==
  ASSUME NEW s, NEW i \in Nat
  PROVE  BytesTo(s, i) = Total([j \in 1..i |-> s[j].left], 1..i)
<1> DEFINE S == 1..i
           g == [j \in S |-> s[j].left]
           Sums(f) == f = [t \in SUBSET S |->
                             IF t = {} THEN 0
                             ELSE s[CHOOSE x \in t : TRUE].left
                                  + f[t \ {CHOOSE x \in t : TRUE}]]
           sum == CHOOSE f : Sums(f)
<1>1. IsFiniteSet(S)
  BY FS_Interval
<1>2. \A t \in SUBSET S : t # {} => s[Pick(t)].left = g[Pick(t)]
  BY PickIsIn
<1>3. \A F : IsSum(F, g, S) <=> Sums(F)
  <2> SUFFICES ASSUME NEW F PROVE IsSum(F, g, S) <=> Sums(F)
    OBVIOUS
  <2> HIDE DEF g, S
  <2>1. \A t \in SUBSET S :
          (IF t = {} THEN 0 ELSE g[Pick(t)] + F[t \ {Pick(t)}])
            = (IF t = {} THEN 0 ELSE s[Pick(t)].left + F[t \ {Pick(t)}])
    BY <1>2
  <2>2. IsSum(F, g, S) <=>
          F = [t \in SUBSET S |-> IF t = {} THEN 0 ELSE s[Pick(t)].left + F[t \ {Pick(t)}]]
    BY <2>1 DEF IsSum
  <2> QED
    BY <2>2 DEF Pick
<1>4. Sums(sum)
  <2>1. \E F : IsSum(F, g, S)
    BY <1>1, SumExists
  <2> HIDE DEF Sums, g, S
  <2> QED
    BY <1>3, <2>1
<1>5. IsSum(sum, g, S)
  <2> HIDE DEF Sums, g, S, sum
  <2> QED
    BY <1>3, <1>4
<1>6. BytesTo(s, i) = sum[S]
  BY DEF BytesTo, MapThenSumSet, MapThenFoldSet
<1>7. Total(g, S) = sum[S]
  <2> HIDE DEF g, S, sum
  <2>1. S \subseteq S /\ \A x \in S : g[x] = g[x]
    OBVIOUS
  <2> QED
    BY <1>1, <1>5, <2>1, TotalIs
<1> QED
  BY <1>6, <1>7

LEMMA BytesToNone ==
  ASSUME NEW s
  PROVE  BytesTo(s, 0) = 0
<1>1. BytesTo(s, 0) = Total([j \in 1..0 |-> s[j].left], 1..0)
  BY BytesToTotal
<1>2. 1..0 = {}
  OBVIOUS
<1> QED
  BY <1>1, <1>2, TotalNone

LEMMA BytesToNat ==
  ASSUME NEW s, NEW i \in Nat, \A j \in 1..i : s[j].left \in Nat
  PROVE  BytesTo(s, i) \in Nat
<1> DEFINE S == 1..i
           g == [j \in S |-> s[j].left]
<1>1. IsFiniteSet(S)
  BY FS_Interval
<1>3. \A j \in S : g[j] \in Nat
  OBVIOUS
<1>2. BytesTo(s, i) = Total(g, S)
  BY BytesToTotal
<1> HIDE DEF g, S
<1> QED
  BY <1>1, <1>2, <1>3, TotalNat

LEMMA BytesToNext ==
  ASSUME NEW s, NEW i \in Nat, \A j \in 1..(i + 1) : s[j].left \in Nat
  PROVE  BytesTo(s, i + 1) = BytesTo(s, i) + s[i + 1].left
<1> DEFINE g == [j \in 1..(i + 1) |-> s[j].left]
           h == [j \in 1..i |-> s[j].left]
<1>1. BytesTo(s, i + 1) = Total(g, 1..(i + 1)) /\ BytesTo(s, i) = Total(h, 1..i)
  BY BytesToTotal
<1>2. \A j \in 1..(i + 1) : g[j] \in Nat
  OBVIOUS
<1>3. \A j \in 1..i : g[j] = h[j]
  OBVIOUS
<1>4. IsFiniteSet(1..i)
  BY FS_Interval
<1>5. g[i + 1] = s[i + 1].left
  OBVIOUS
<1> HIDE DEF g, h
<1>6. Total(g, 1..i) = Total(h, 1..i)
  BY <1>3, <1>4, TotalSame
<1>7. Total(g, 1..(i + 1)) = Total(g, 1..i) + g[i + 1]
  BY <1>2, TotalNext
<1> QED
  BY <1>1, <1>5, <1>6, <1>7

LEMMA BytesToOne ==
  ASSUME NEW s, s[1].left \in Nat
  PROVE  BytesTo(s, 1) = s[1].left
<1>1. BytesTo(s, 0 + 1) = BytesTo(s, 0) + s[0 + 1].left
  BY BytesToNext
<1> QED
  BY <1>1, BytesToNone

\* More frames, more bytes.
LEMMA BytesToGrows ==
  ASSUME NEW s, NEW m \in Nat, \A j \in 1..m : s[j].left \in Nat
  PROVE  \A i, j \in 0..m : i <= j => BytesTo(s, i) <= BytesTo(s, j)
<1> SUFFICES ASSUME NEW i \in 0..m
             PROVE  \A j \in i..m : BytesTo(s, i) <= BytesTo(s, j)
  OBVIOUS
<1> DEFINE T == {d \in Nat : i + d <= m => BytesTo(s, i) <= BytesTo(s, i + d)}
<1>0. \A j \in 0..m : BytesTo(s, j) \in Nat
  BY BytesToNat
<1>1. 0 \in T
  <2>1. BytesTo(s, i) \in Nat /\ i + 0 = i
    BY <1>0
  <2> QED
    BY <2>1
<1>2. ASSUME NEW d \in Nat, d \in T
      PROVE  d + 1 \in T
  <2> SUFFICES ASSUME i + (d + 1) <= m
               PROVE  BytesTo(s, i) <= BytesTo(s, i + (d + 1))
    OBVIOUS
  <2> DEFINE e == i + d
  <2>1. e \in Nat /\ e \in 0..m /\ e + 1 \in 0..m /\ i + (d + 1) = e + 1
    OBVIOUS
  <2>2. BytesTo(s, i) <= BytesTo(s, e)
    BY <1>2, <2>1
  <2> HIDE DEF e
  <2>3. \A j \in 1..(e + 1) : s[j].left \in Nat
    BY <2>1
  <2>4. BytesTo(s, e + 1) = BytesTo(s, e) + s[e + 1].left
    BY <2>1, <2>3, BytesToNext
  <2>5. s[e + 1].left \in Nat /\ BytesTo(s, e) \in Nat /\ BytesTo(s, i) \in Nat
    BY <1>0, <2>1, <2>3
  <2>6. BytesTo(s, i) <= BytesTo(s, e + 1)
    BY <2>2, <2>4, <2>5
  <2> QED
    BY <2>1, <2>6
<1>3. Nat \subseteq T
  <2> HIDE DEF T
  <2> QED
    BY <1>1, <1>2, NatSetInduction
<1> SUFFICES ASSUME NEW j \in i..m PROVE BytesTo(s, i) <= BytesTo(s, j)
  OBVIOUS
<1>4. j - i \in T /\ i + (j - i) = j
  BY <1>3
<1> QED
  BY <1>4

\* The frames that end within the first n bytes are the first of the queue.
LEMMA GoneAreFirst ==
  ASSUME NEW s, Counted(s), NEW n \in Nat
  PROVE  \E m \in 0..Len(s) :
           /\ Cardinality({i \in 1..Len(s) : BytesTo(s, i) <= n}) = m
           /\ \A i \in (m + 1)..Len(s) : BytesTo(s, i) > n
<1> DEFINE P(i) == BytesTo(s, i) <= n
           T == {j \in Nat : j <= Len(s) =>
                   \E m \in 0..j : {i \in 1..j : P(i)} = 1..m}
<1>0. Len(s) \in Nat /\ \A j \in 1..Len(s) : s[j].left \in Nat
  BY CountedFacts
<1>1. /\ \A j \in 0..Len(s) : BytesTo(s, j) \in Nat
      /\ \A i, j \in 0..Len(s) : i <= j => BytesTo(s, i) <= BytesTo(s, j)
  <2>1. ASSUME NEW j \in 0..Len(s)
        PROVE  BytesTo(s, j) \in Nat
    <3>1. j \in Nat /\ \A i \in 1..j : s[i].left \in Nat
      BY <1>0
    <3> QED
      BY <3>1, BytesToNat
  <2> QED
    BY <1>0, <2>1, BytesToGrows
<1>2. \A i, j \in 1..Len(s) : i <= j /\ P(j) => P(i)
  <2> SUFFICES ASSUME NEW i \in 1..Len(s), NEW j \in 1..Len(s), i <= j, P(j) PROVE P(i)
    OBVIOUS
  <2>1. BytesTo(s, i) <= BytesTo(s, j) /\ BytesTo(s, i) \in Nat /\ BytesTo(s, j) \in Nat
    BY <1>0, <1>1
  <2> QED
    BY <2>1
<1> HIDE DEF P
<1>3. 0 \in T
  <2>1. {i \in 1..0 : P(i)} = 1..0
    OBVIOUS
  <2> QED
    BY <2>1
<1>4. ASSUME NEW j \in Nat, j \in T
      PROVE  j + 1 \in T
  <2> SUFFICES ASSUME j + 1 <= Len(s)
               PROVE  \E m \in 0..(j + 1) : {i \in 1..(j + 1) : P(i)} = 1..m
    OBVIOUS
  <2>1. CASE P(j + 1)
    <3>1. {i \in 1..(j + 1) : P(i)} = 1..(j + 1)
      BY <1>0, <1>2, <2>1
    <3> QED
      BY <3>1
  <2>2. CASE ~P(j + 1)
    <3>1. PICK m \in 0..j : {i \in 1..j : P(i)} = 1..m
      BY <1>0, <1>4
    <3>2. {i \in 1..(j + 1) : P(i)} = {i \in 1..j : P(i)}
      BY <2>2
    <3> QED
      BY <3>1, <3>2
  <2> QED
    BY <2>1, <2>2
<1>5. Len(s) \in T
  <2> HIDE DEF T
  <2> QED
    BY <1>0, <1>3, <1>4, NatSetInduction
<1>6. PICK m \in 0..Len(s) : {i \in 1..Len(s) : P(i)} = 1..m
  BY <1>0, <1>5
<1>7. Cardinality(1..m) = m
  BY FS_Interval
<1>8. ASSUME NEW i \in (m + 1)..Len(s)
      PROVE  BytesTo(s, i) > n
  <2>1. i \in 1..Len(s) /\ i \notin 1..m /\ i \in 0..Len(s)
    BY <1>0
  <2>2. ~P(i)
    BY <1>6, <2>1
  <2>3. BytesTo(s, i) \in Nat
    BY <1>1, <2>1
  <2> QED
    BY <2>2, <2>3 DEF P
<1> QED
  BY <1>6, <1>7, <1>8 DEF P

LEMMA MinOfTwo ==
  ASSUME NEW a \in Int, NEW b \in Int
  PROVE  Min({a, b}) = IF a <= b THEN a ELSE b
BY DEF Min

LEMMA MaxOfTwo ==
  ASSUME NEW a \in Int, NEW b \in Int
  PROVE  Max({a, b}) = IF a <= b THEN b ELSE a
BY DEF Max

\* What a read leaves of a queue is again one.
LEMMA UnreadCounted ==
  ASSUME NEW s, Counted(s), NEW n \in Nat
  PROVE  Counted(Unread(s, n))
<1> DEFINE gone == Cardinality({i \in 1..Len(s) : BytesTo(s, i) <= n})
           rest(i) == [s[gone + i] EXCEPT !.left = Min({@, BytesTo(s, gone + i) - n})]
<1>1. Unread(s, n) = [i \in 1..(Len(s) - gone) |-> rest(i)]
  BY DEF Unread
<1>2. gone \in 0..Len(s) /\ \A i \in (gone + 1)..Len(s) : BytesTo(s, i) > n
  <2> HIDE DEF gone
  <2> QED
    BY GoneAreFirst DEF gone
<1> HIDE DEF gone
<1>3. Len(s) \in Nat /\ \A j \in 1..Len(s) : s[j] \in Waiting /\ s[j].left \in Nat
  BY CountedFacts
<1>4. ASSUME NEW i \in 1..(Len(s) - gone)
      PROVE  rest(i) \in Waiting
  <2> DEFINE f == s[gone + i]
             b == BytesTo(s, gone + i) - n
  <2>1. gone + i \in (gone + 1)..Len(s) /\ gone + i \in Nat /\ gone + i \in 1..Len(s)
    BY <1>2, <1>3
  <2>2. f \in Waiting /\ f.left \in Nat
    BY <1>3, <2>1
  <2>3. BytesTo(s, gone + i) \in Nat /\ BytesTo(s, gone + i) > n
    <3>1. \A j \in 1..(gone + i) : s[j].left \in Nat
      BY <1>3, <2>1
    <3> QED
      BY <1>2, <2>1, <3>1, BytesToNat
  <2>4. b \in Nat
    BY <2>3
  <2> HIDE DEF f, b
  <2>5. Min({f.left, b}) \in Nat
    BY <2>2, <2>4, MinOfTwo
  <2>6. [f EXCEPT !.left = Min({f.left, b})] \in Waiting
    BY <2>2, <2>5 DEF Waiting
  <2> QED
    BY <2>6 DEF f, b
<1>5. Len(s) - gone \in Nat
  BY <1>2, <1>3
<1> HIDE DEF rest
<1>6. Unread(s, n) \in Seq(Waiting)
  BY <1>1, <1>4, <1>5
<1> QED
  BY <1>6 DEF Counted

\* No read takes less than nothing.
LEMMA ReadSizesNat ==
  ASSUME NEW s, Counted(s), s # <<>>, NEW max \in Nat, NEW n \in ReadSizes(s, max)
  PROVE  n \in Nat
<1>1. Len(s) \in Nat /\ Len(s) - 1 \in Nat /\ \A j \in 1..Len(s) : s[j].left \in Nat
  <2>1. Len(s) # 0
    BY DEF Counted
  <2> QED
    BY <2>1, CountedFacts
<1>2. Bytes(s) \in Nat /\ BytesTo(s, Len(s) - 1) \in Nat /\ Vmin \in Nat
  BY <1>1, BytesToNat, LineAssumption DEF Bytes
<1> DEFINE hi == Min({Bytes(s), max})
           top == Max({Vmin, BytesTo(s, Len(s) - 1)})
           lo == Min({hi, top})
<1>3. hi \in Nat
  BY <1>2, MinOfTwo
<1>4. top \in Nat
  BY <1>2, MaxOfTwo
<1>5. lo \in Nat
  <2> HIDE DEF hi, top
  <2> QED
    BY <1>3, <1>4, MinOfTwo
<1>6. n \in lo..hi
  BY DEF ReadSizes
<1> HIDE DEF lo, hi
<1> QED
  BY <1>3, <1>5, <1>6

-----------------------------------------------------------------------------
(* The inductive invariant for the types: what is on the line and what the   *)
(* driver keeps are well formed, and the values of requests are such as the  *)
(* device can take over.                                                     *)
Request  == [cmd : Cmd, val : Nat, baud : Bauds, new : BOOLEAN, to : Byte]
Response == [cmd : Cmd, val : Byte, baud : Bauds, new : BOOLEAN]
Point == {"open", "send", "recv", "next", "idle", "drain", "close", "reopen",
             "drain_new", "flush", "failed"}

Sensible(q) == /\ q.cmd = "SET_DEV_ADDR" => q.val \in Byte
               /\ q.cmd = "SET_BTRATE" => q.val \in Bauds

LineTyped ==
  /\ ttyBaud \in Bauds
  /\ Counted(rx)
  /\ toDev \in Seq(Request) /\ \A i \in 1..Len(toDev) : Sensible(toDev[i])
  /\ toHost \in Seq(Response)
  /\ dev \in [addr : Byte, baud : Bauds, mode : Nat]

DriverTyped ==
  /\ pc \in Point
  /\ k \in 0..Len(Speeds)
  /\ call \in [cmd : Cmd, val : Nat] /\ Sensible(call)
  /\ fd \in Int /\ newFd \in Int /\ addr \in Byte
  /\ buf \in [Place -> Frame]
  /\ done \in [cmd : Cmd \cup {"NONE"}, val : Nat, ok : BOOLEAN, got : Frame]

TypeInv == FdInv /\ LineTyped /\ DriverTyped

LEMMA TypeInvImplies == TypeInv => TypeOK
BY DEF TypeInv, FdInv, LineTyped, DriverTyped, TypeOK, Counted, Waiting, Request, Response,
   Point

\* Speeds are numbers, and the list of speeds is not empty.
LEMMA SpeedFacts ==
  /\ Settable \subseteq Bauds /\ Coded \subseteq Bauds /\ Bauds \subseteq Nat
  /\ Len(Speeds) \in Nat /\ Len(Speeds) # 0
  /\ \A i \in 1..Len(Speeds) : Speeds[i] \in Bauds
BY LineAssumption, DriverAssumption

\* The requests the driver makes of its own accord are as well formed as a client's.
LEMMA CallFacts ==
  /\ GetAddr \in [cmd : Cmd, val : Nat] /\ Sensible(GetAddr)
  /\ SetBaud(Target) \in [cmd : Cmd, val : Nat] /\ Sensible(SetBaud(Target))
<1>1. Target \in Bauds /\ Target \in Nat
  BY DriverAssumption, SpeedFacts
<1> QED
  BY <1>1 DEF GetAddr, SetBaud, Cmd, Sensible

LEMMA NothingRead == Junk \in Frame /\ Counted(<<>>)
BY DEF Junk, Frame, Counted

\* A damaged frame answers nothing, so it cannot get older.
LEMMA JunkStaysJunk == [Junk EXCEPT !.new = FALSE] = Junk
<1>1. Junk = [x \in DOMAIN Junk |-> Junk[x]] /\ Junk.new = FALSE
  BY DEF Junk
<1>2. ASSUME NEW g, g = [x \in DOMAIN g |-> g[x]], g.new = FALSE
      PROVE  [g EXCEPT !.new = FALSE] = g
  BY <1>2
<1> QED
  BY <1>1, <1>2

LEMMA TypeInvInit == Init => TypeInv
<1> SUFFICES ASSUME Init PROVE TypeInv
  OBVIOUS
<1>1. FdInv
  BY FdInvInit
<1>2. LineTyped
  <2>1. dev \in [addr : Byte, baud : Bauds, mode : Nat]
    BY DeviceAssumption DEF Init, DevInit
  <2>2. toDev = <<>> /\ toHost = <<>> /\ rx = <<>> /\ ttyBaud \in Settable
    BY DEF Init
  <2> QED
    BY <2>1, <2>2, SpeedFacts, NothingRead DEF LineTyped
<1>3. DriverTyped
  <2>1. /\ pc = "open" /\ k = 1 /\ call = GetAddr /\ fd = -1 /\ newFd = -1 /\ addr = 0
        /\ buf = [p \in Place |-> Junk] /\ done = Nothing
    BY DEF Init
  <2>2. Nothing \in [cmd : Cmd \cup {"NONE"}, val : Nat, ok : BOOLEAN, got : Frame]
    BY NothingRead DEF Nothing
  <2>3. buf \in [Place -> Frame]
    BY <2>1, NothingRead
  <2>4. k \in 0..Len(Speeds)
    BY <2>1, SpeedFacts
  <2>5. pc \in Point /\ addr \in Byte
    BY <2>1 DEF Point, Byte
  <2> QED
    BY <2>1, <2>2, <2>3, <2>4, <2>5, CallFacts DEF DriverTyped
<1> QED
  BY <1>1, <1>2, <1>3 DEF TypeInv

-----------------------------------------------------------------------------
(* What each operation on the line keeps.                                    *)

LEMMA InitKeepsLine ==
  ASSUME LineTyped, NEW speed, NEW n, SerialInit(speed, n), UNCHANGED dev
  PROVE  LineTyped'
BY SpeedFacts, NothingRead DEF LineTyped, SerialInit

LEMMA InitFailsKeepsLine ==
  ASSUME LineTyped, SerialInitFails, UNCHANGED dev
  PROVE  LineTyped'
BY DEF LineTyped, SerialInitFails

LEMMA CloseKeepsLine ==
  ASSUME LineTyped, NEW n, Close(n), UNCHANGED dev
  PROVE  LineTyped'
BY NothingRead DEF LineTyped, Close

LEMMA RecvKeepsLine ==
  ASSUME LineTyped, NEW n, NEW max \in Nat, SerialRecv(n, max),
         UNCHANGED <<ttyBaud, toDev, toHost, dev>>
  PROVE  LineTyped'
<1>1. Counted(rx')
  <2>1. CASE UNCHANGED rx
    BY <2>1 DEF LineTyped
  <2>2. CASE rx # <<>> /\ \E m \in ReadSizes(rx, max) : rx' = Unread(rx, m)
    <3>1. PICK m \in ReadSizes(rx, max) : rx' = Unread(rx, m)
      BY <2>2
    <3>2. m \in Nat
      BY <2>2, ReadSizesNat DEF LineTyped
    <3> QED
      BY <3>1, <3>2, UnreadCounted DEF LineTyped
  <2> QED
    BY <2>1, <2>2 DEF SerialRecv
<1> QED
  BY <1>1 DEF LineTyped

\* What is on its way stays what it was when it gets older.
LEMMA AgeKeeps ==
  ASSUME NEW R, NEW s \in Seq(R), \A f \in R : [f EXCEPT !.new = FALSE] \in R
  PROVE  Age(s) \in Seq(R) /\ Len(Age(s)) = Len(s)
<1>1. Len(s) \in Nat /\ \A i \in 1..Len(s) : s[i] \in R
  OBVIOUS
<1>2. Age(s) = [i \in 1..Len(s) |-> [s[i] EXCEPT !.new = FALSE]]
  BY DEF Age
<1> QED
  BY <1>1, <1>2

LEMMA SendKeepsLine ==
  ASSUME LineTyped, NEW n, NEW q \in Request, Sensible(q), SerialSend(n, q), UNCHANGED dev
  PROVE  LineTyped'
<1>1. Counted(rx')
  <2>1. \A f \in Waiting : [f EXCEPT !.new = FALSE] \in Waiting
    BY DEF Waiting
  <2> QED
    BY <2>1, AgeKeeps DEF SerialSend, LineTyped, Counted
<1>2. toHost' \in Seq(Response)
  <2>1. \A f \in Response : [f EXCEPT !.new = FALSE] \in Response
    BY DEF Response
  <2> QED
    BY <2>1, AgeKeeps DEF SerialSend, LineTyped
<1>3. toDev' \in Seq(Request) /\ \A i \in 1..Len(toDev') : Sensible(toDev'[i])
  <2> DEFINE a == Age(toDev)
  <2>1. \A f \in Request : [f EXCEPT !.new = FALSE] \in Request
    BY DEF Request
  <2>2. a \in Seq(Request) /\ Len(a) = Len(toDev)
    BY <2>1, AgeKeeps DEF LineTyped
  <2>3. \A i \in 1..Len(a) : Sensible(a[i])
    <3> SUFFICES ASSUME NEW i \in 1..Len(a) PROVE Sensible(a[i])
      OBVIOUS
    <3>1. i \in 1..Len(toDev) /\ toDev[i] \in Request /\ Sensible(toDev[i])
      BY <2>2 DEF LineTyped
    <3>2. a[i] = [toDev[i] EXCEPT !.new = FALSE]
      BY <3>1 DEF Age
    <3>3. a[i].cmd = toDev[i].cmd /\ a[i].val = toDev[i].val
      <4> DEFINE f == toDev[i]
      <4> HIDE DEF f, a
      <4>1. f \in Request
        BY <3>1 DEF f
      <4>2. a[i] = [f EXCEPT !.new = FALSE]
        BY <3>2 DEF f
      <4>3. a[i].cmd = f.cmd /\ a[i].val = f.val
        BY <4>1, <4>2 DEF Request
      <4> QED
        BY <4>3 DEF f
    <3> QED
      BY <3>1, <3>3 DEF Sensible
  <2>4. toDev' = a \/ toDev' = Append(a, q)
    BY DEF SerialSend
  <2> HIDE DEF a
  <2>5. CASE toDev' = a
    BY <2>2, <2>3, <2>5
  <2>6. CASE toDev' = Append(a, q)
    <3>1. toDev' \in Seq(Request) /\ Len(toDev') = Len(a) + 1 /\ Len(a) \in Nat
      BY <2>2, <2>6
    <3>2. \A i \in 1..Len(toDev') : toDev'[i] = IF i <= Len(a) THEN a[i] ELSE q
      BY <2>2, <2>6, <3>1
    <3> QED
      BY <2>3, <3>1, <3>2
  <2> QED
    BY <2>4, <2>5, <2>6
<1> QED
  BY <1>1, <1>2, <1>3 DEF LineTyped, SerialSend

LEMMA DevKeepsLine ==
  ASSUME LineTyped, LineStep
  PROVE  LineTyped'
<1>1. CASE DevServe
  <2> DEFINE q == toDev[1]
  <2>1. toDev # <<>> /\ Len(toDev) \in Nat /\ Len(toDev) # 0
    BY <1>1 DEF DevServe, LineTyped
  <2>2. q \in Request /\ Sensible(q) /\ Head(toDev) = q
    BY <2>1 DEF LineTyped
  <2>3. /\ Tail(toDev) \in Seq(Request)
        /\ \A i \in 1..Len(Tail(toDev)) : i + 1 \in 1..Len(toDev)
                                           /\ Tail(toDev)[i] = toDev[i + 1]
    BY <2>1 DEF LineTyped
  <2>4. toDev' = Tail(toDev) /\ UNCHANGED <<ttyBaud, rx>>
    BY <1>1 DEF DevServe
  <2>5. toDev' \in Seq(Request) /\ \A i \in 1..Len(toDev') : Sensible(toDev'[i])
    BY <2>3, <2>4 DEF LineTyped
  <2> HIDE DEF q
  <2>6. \/ UNCHANGED <<toHost, dev>>
        \/ Reply(q, AnswerTo(q)) /\ Obey(q)
        \/ Reply(q, Err) /\ UNCHANGED dev
    BY <1>1, <2>2 DEF DevServe
  <2>7. AnswerTo(q) \in Byte /\ Err \in Byte
    <3>1. dev.addr \in Byte /\ SampleByte \in Byte /\ 0 \in Byte /\ 1 \in Byte /\ Err \in Byte
      BY DEF LineTyped, SampleByte, Err, Byte
    <3>2. q.cmd = "SET_DEV_ADDR" => q.val \in Byte
      BY <2>2 DEF Sensible
    <3> QED
      BY <3>1, <3>2 DEF AnswerTo
  <2>8. \A v \in Byte : Reply(q, v) => toHost' \in Seq(Response)
    <3> SUFFICES ASSUME NEW v \in Byte, Reply(q, v) PROVE toHost' \in Seq(Response)
      OBVIOUS
    <3> DEFINE r == [cmd |-> q.cmd, val |-> v, baud |-> dev.baud, new |-> q.new]
    <3>1. r \in Response
      BY <2>2 DEF Response, Request, LineTyped
    <3>2. toHost' = Append(toHost, r)
      BY DEF Reply
    <3> HIDE DEF r
    <3> QED
      BY <3>1, <3>2 DEF LineTyped
  <2>9. Obey(q) => dev' \in [addr : Byte, baud : Bauds, mode : Nat]
    <3>1. q.val \in Nat
      BY <2>2 DEF Request
    <3> QED
      BY <2>2, <3>1 DEF Obey, Sensible, LineTyped
  <2> QED
    BY <2>4, <2>5, <2>6, <2>7, <2>8, <2>9 DEF LineTyped
<1>2. CASE DevAutoOutput
  <2> DEFINE r == [cmd |-> "READ_ALL_DATA", val |-> SampleByte, baud |-> dev.baud,
                   new |-> FALSE]
  <2>1. r \in Response
    BY DEF Response, SampleByte, Byte, Cmd, LineTyped
  <2>2. toHost' = Append(toHost, r) /\ UNCHANGED <<ttyBaud, rx, toDev, dev>>
    BY <1>2 DEF DevAutoOutput
  <2> HIDE DEF r
  <2>3. toHost' \in Seq(Response)
    BY <2>1, <2>2 DEF LineTyped
  <2> QED
    BY <2>2, <2>3 DEF LineTyped
<1>3. CASE Deliver
  <2> DEFINE r == toHost[1]
             f == IF r.baud = ttyBaud
                  THEN [cmd |-> r.cmd, val |-> r.val, new |-> r.new]
                  ELSE Junk
             a == [cmd |-> f.cmd, val |-> f.val, new |-> f.new, left |-> FrameLen(r.cmd)]
  <2>1. toHost # <<>> /\ toHost \in Seq(Response) /\ UNCHANGED <<ttyBaud, toDev, dev>>
    BY <1>3 DEF Deliver, LineTyped
  <2>2. r \in Response /\ Head(toHost) = r /\ Tail(toHost) \in Seq(Response)
    BY <2>1
  <2> HIDE DEF r
  <2>3. toHost' = Tail(toHost) /\ (rx' = rx \/ rx' = Append(rx, a))
    BY <1>3, <2>2 DEF Deliver
  <2>4. f.cmd \in Cmd \cup {"JUNK"} /\ f.val \in Byte /\ f.new \in BOOLEAN
    <3>1. CASE r.baud = ttyBaud
      <4>1. f = [cmd |-> r.cmd, val |-> r.val, new |-> r.new]
        BY <3>1
      <4>2. f.cmd = r.cmd /\ f.val = r.val /\ f.new = r.new
        BY <4>1
      <4> HIDE DEF f
      <4> QED
        BY <2>2, <4>2 DEF Response
    <3>2. CASE r.baud # ttyBaud
      <4>1. f = Junk
        BY <3>2
      <4> HIDE DEF f
      <4> QED
        BY <4>1 DEF Junk, Byte
    <3> QED
      BY <3>1, <3>2
  <2> HIDE DEF f
  <2>5. FrameLen(r.cmd) \in Nat
    BY DEF FrameLen, PayloadLen
  <2>6. a \in Waiting
    BY <2>4, <2>5 DEF Waiting
  <2> HIDE DEF a
  <2>7. Counted(rx')
    BY <2>3, <2>6 DEF LineTyped, Counted
  <2> QED
    BY <2>1, <2>2, <2>3, <2>7 DEF LineTyped
<1>4. CASE LoseRequest
  <2>1. toDev # <<>> /\ Len(toDev) \in Nat /\ Len(toDev) # 0
    BY <1>4 DEF LoseRequest, LineTyped
  <2>2. /\ Tail(toDev) \in Seq(Request)
        /\ \A i \in 1..Len(Tail(toDev)) : i + 1 \in 1..Len(toDev)
                                           /\ Tail(toDev)[i] = toDev[i + 1]
    BY <2>1 DEF LineTyped
  <2>3. toDev' = Tail(toDev) /\ UNCHANGED <<ttyBaud, rx, toHost, dev>>
    BY <1>4 DEF LoseRequest
  <2>4. toDev' \in Seq(Request) /\ \A i \in 1..Len(toDev') : Sensible(toDev'[i])
    BY <2>2, <2>3 DEF LineTyped
  <2> QED
    BY <2>3, <2>4 DEF LineTyped
<1>5. CASE LoseReply
  <2>1. toHost # <<>> /\ toHost' = Tail(toHost) /\ UNCHANGED <<ttyBaud, rx, toDev, dev>>
    BY <1>5 DEF LoseReply
  <2>2. toHost' \in Seq(Response)
    BY <2>1 DEF LineTyped
  <2> QED
    BY <2>1, <2>2 DEF LineTyped
<1> QED
  BY <1>1, <1>2, <1>3, <1>4, <1>5 DEF LineStep

-----------------------------------------------------------------------------
(* What the wait for an answer does to the driver's state.                   *)

LEMMA HeadFrameTyped ==
  ASSUME NEW s, Counted(s), s # <<>>
  PROVE  HeadFrame(s) \in Frame
<1>1. s[1] \in Waiting
  BY DEF Counted
<1>2. CASE s[1].cmd \in Cmd
  <2> DEFINE f == s[1]
  <2> HIDE DEF f
  <2>1. f \in Waiting /\ f.cmd \in Cmd
    BY <1>1, <1>2 DEF f
  <2>2. [cmd |-> f.cmd, val |-> f.val, new |-> f.new] \in Frame
    BY <2>1 DEF Waiting, Frame
  <2> QED
    BY <2>2, NothingRead DEF HeadFrame, f
<1>3. CASE s[1].cmd \notin Cmd
  BY <1>3, NothingRead DEF HeadFrame
<1> QED
  BY <1>2, <1>3

LEMMA FrameValues == \A g \in Frame : g.val \in Byte
BY DEF Frame, Junk, Byte

LEMMA PlaceOfIn ==
  ASSUME k \in Nat
  PROVE  \A c : PlaceOf(c) \in Place
BY DEF PlaceOf, Place

LEMMA ReceiveKeepsDriver ==
  ASSUME TypeInv, Receive
  PROVE  DriverTyped'
<1>1. DriverTyped /\ LineTyped /\ k \in Nat
  BY SpeedFacts DEF TypeInv, DriverTyped
<1>2. PICK g \in InBuffer :
        /\ buf' = IF call.cmd = "READ_ALL_DATA" THEN buf
                  ELSE [buf EXCEPT ![PlaceOf(call)] = g]
        /\ Learn(call, g)
        /\ done' = [cmd |-> call.cmd, val |-> call.val,
                    ok |-> Succeeds(call, g), got |-> g]
        /\ IF k > 0 THEN AfterProbe(Succeeds(call, g))
           ELSE /\ pc' = IF call.cmd = "SET_BTRATE" THEN "drain" ELSE "idle"
                /\ UNCHANGED <<k, call, fd>>
  BY DEF Receive
<1>3. g \in Frame
  <2>1. buf[PlaceOf(call)] \in Frame
    BY <1>1, PlaceOfIn DEF DriverTyped
  <2>2. rx # <<>> => HeadFrame(rx) \in Frame
    BY <1>1, HeadFrameTyped DEF LineTyped
  <2> QED
    BY <2>1, <2>2, NothingRead DEF InBuffer
<1>4. buf' \in [Place -> Frame]
  BY <1>1, <1>2, <1>3 DEF DriverTyped
<1>5. addr' \in Byte
  <2>1. g.val \in Byte
    BY <1>3, FrameValues
  <2>2. call.cmd = "SET_DEV_ADDR" => call.val \in Byte
    BY <1>1 DEF DriverTyped, Sensible
  <2> QED
    BY <1>1, <1>2, <2>1, <2>2 DEF Learn, DriverTyped
<1>6. done' \in [cmd : Cmd \cup {"NONE"}, val : Nat, ok : BOOLEAN, got : Frame]
  <2> DEFINE b == Succeeds(call, g)
  <2>1. b \in BOOLEAN
    BY DEF Succeeds
  <2>2. call.cmd \in Cmd /\ call.val \in Nat
    BY <1>1 DEF DriverTyped
  <2>3. done' = [cmd |-> call.cmd, val |-> call.val, ok |-> b, got |-> g]
    BY <1>2
  <2> HIDE DEF b
  <2> QED
    BY <1>3, <2>1, <2>2, <2>3
<1>7. /\ pc' \in {"next", "idle", "send", "failed", "drain"}
      /\ k' = k \/ k' = 0
      /\ call' = call \/ call' = SetBaud(Target)
      /\ fd' = fd \/ fd' = -1
  BY <1>2 DEF AfterProbe
<1>8. pc' \in Point /\ k' \in 0..Len(Speeds) /\ fd' \in Int
  BY <1>1, <1>7, SpeedFacts DEF Point, DriverTyped
<1>9. call' \in [cmd : Cmd, val : Nat] /\ Sensible(call')
  BY <1>1, <1>7, CallFacts DEF DriverTyped
<1>10. newFd' \in Int
  BY <1>1 DEF Receive, DriverTyped
<1> QED
  BY <1>4, <1>5, <1>6, <1>8, <1>9, <1>10 DEF DriverTyped

LEMMA TypeInvNext == TypeInv /\ [Next]_vars => TypeInv'
<1> SUFFICES ASSUME TypeInv, [Next]_vars PROVE TypeInv'
  OBVIOUS
<1>0. FdInv /\ FdInv' /\ LineTyped /\ DriverTyped /\ k \in Nat
  BY FdInvNext, SpeedFacts DEF TypeInv, DriverTyped
<1>1. CASE ProbeOpen
  <2>1. fds = {}
    BY <1>0, <1>1 DEF ProbeOpen, FdInv
  <2>2. UNCHANGED <<dev, k, newFd, addr, buf, done>> /\ call' = GetAddr
    BY <1>1 DEF ProbeOpen
  <2>3. LineTyped' /\ fd' \in Int /\ pc' \in {"send", "failed"}
    <3>1. CASE \E n \in {LowestFree(fds)} :
                 SerialInit(Speeds[k], n) /\ fd' = n /\ pc' = "send"
      <4>1. SerialInit(Speeds[k], 3) /\ fd' = 3 /\ pc' = "send"
        BY <2>1, <3>1, LowestFreeOfNone
      <4> QED
        BY <1>0, <2>2, <4>1, InitKeepsLine
    <3>2. CASE SerialInitFails /\ fd' = -1 /\ pc' = "failed"
      BY <1>0, <2>2, <3>2, InitFailsKeepsLine
    <3> QED
      BY <1>1, <3>1, <3>2 DEF ProbeOpen
  <2>4. DriverTyped'
    BY <1>0, <2>2, <2>3, CallFacts DEF DriverTyped, Point
  <2> QED
    BY <1>0, <2>3, <2>4 DEF TypeInv
<1>2. CASE Send
  <2> DEFINE q == [cmd |-> call.cmd, val |-> call.val, baud |-> ttyBaud, new |-> TRUE,
                   to |-> IF call.cmd = "GET_DEV_ADDR" THEN 0 ELSE addr]
  <2>1. /\ SerialSend(fd, q) /\ pc' = "recv"
        /\ buf' = [p \in Place |-> [buf[p] EXCEPT !.new = FALSE]]
        /\ UNCHANGED <<dev, k, call, fd, newFd, addr, done>>
    BY <1>2 DEF Send
  <2>2. q \in Request /\ q.cmd = call.cmd /\ q.val = call.val
    BY <1>0 DEF Request, LineTyped, DriverTyped, Byte
  <2> HIDE DEF q
  <2>3. Sensible(q)
    BY <1>0, <2>2 DEF Sensible, DriverTyped
  <2>4. LineTyped'
    BY <1>0, <2>1, <2>2, <2>3, SendKeepsLine
  <2>5. \A g \in Frame : [g EXCEPT !.new = FALSE] \in Frame
    <3>1. \A g \in [cmd : Cmd, val : Byte, new : BOOLEAN] :
            [g EXCEPT !.new = FALSE] \in [cmd : Cmd, val : Byte, new : BOOLEAN]
      OBVIOUS
    <3>2. [Junk EXCEPT !.new = FALSE] = Junk
      BY JunkStaysJunk
    <3> QED
      BY <3>1, <3>2 DEF Frame
  <2>6. buf' \in [Place -> Frame]
    BY <1>0, <2>1, <2>5 DEF DriverTyped
  <2>7. DriverTyped'
    BY <1>0, <2>1, <2>6 DEF DriverTyped, Point
  <2> QED
    BY <1>0, <2>4, <2>7 DEF TypeInv
<1>3. CASE Receive
  <2>1. LineTyped'
    <3>1. BufLen(call.cmd) \in Nat
      BY DEF BufLen
    <3> QED
      BY <1>0, <1>3, <3>1, RecvKeepsLine DEF Receive
  <2> QED
    BY <1>0, <1>3, <2>1, ReceiveKeepsDriver DEF TypeInv
<1>4. CASE ProbeClose
  <2>1. LineTyped'
    BY <1>0, <1>4, CloseKeepsLine DEF ProbeClose
  <2>2. /\ (pc' = "open" /\ k' = k + 1 /\ k < Len(Speeds)) \/ (pc' = "idle" /\ k' = 0)
        /\ UNCHANGED <<call, fd, newFd, addr, buf, done>>
    BY <1>4 DEF ProbeClose
  <2>3. k' \in 0..Len(Speeds)
    BY <1>0, <2>2, SpeedFacts
  <2>4. DriverTyped'
    BY <1>0, <2>2, <2>3 DEF DriverTyped, Point
  <2> QED
    BY <1>0, <2>1, <2>4 DEF TypeInv
<1>5. CASE Drain
  <2>1. LineTyped'
    BY <1>0, <1>5, RecvKeepsLine DEF Drain
  <2>2. DriverTyped'
    BY <1>0, <1>5 DEF Drain, DriverTyped, Point
  <2> QED
    BY <1>0, <2>1, <2>2 DEF TypeInv
<1>6. CASE CloseOld
  <2>1. LineTyped'
    BY <1>0, <1>6, CloseKeepsLine DEF CloseOld
  <2>2. DriverTyped'
    BY <1>0, <1>6 DEF CloseOld, DriverTyped, Point
  <2> QED
    BY <1>0, <2>1, <2>2 DEF TypeInv
<1>7. CASE Reopen
  <2>1. fds = {} /\ UNCHANGED <<dev, k, call, addr, buf, done>>
    BY <1>0, <1>7 DEF Reopen, FdInv
  <2>2. LineTyped' /\ fd' \in Int /\ newFd' \in Int /\ pc' \in {"drain_new", "failed"}
    <3>1. CASE \E n \in {LowestFree(fds)} :
                 /\ SerialInit(call.val, n)
                 /\ newFd' = n /\ pc' = "drain_new" /\ UNCHANGED fd
      <4>1. SerialInit(call.val, 3) /\ newFd' = 3 /\ pc' = "drain_new" /\ UNCHANGED fd
        BY <2>1, <3>1, LowestFreeOfNone
      <4>2. LineTyped'
        BY <1>0, <2>1, <4>1, InitKeepsLine
      <4> QED
        BY <1>0, <4>1, <4>2 DEF DriverTyped
    <3>2. CASE SerialInitFails /\ fd' = -1 /\ pc' = "failed" /\ UNCHANGED newFd
      BY <1>0, <2>1, <3>2, InitFailsKeepsLine DEF DriverTyped
    <3> QED
      BY <1>7, <3>1, <3>2 DEF Reopen
  <2>3. DriverTyped'
    BY <1>0, <2>1, <2>2 DEF DriverTyped, Point
  <2> QED
    BY <1>0, <2>2, <2>3 DEF TypeInv
<1>8. CASE FlushOld
  <2>1. LineTyped'
    BY <1>0, <1>8, NothingRead DEF FlushOld, LineTyped
  <2>2. DriverTyped'
    BY <1>0, <1>8 DEF FlushOld, DriverTyped, Point
  <2> QED
    BY <1>0, <2>1, <2>2 DEF TypeInv
<1>9. CASE \E c \in Calls : Call(c)
  <2>1. PICK c \in Calls : Call(c)
    BY <1>9
  <2>2. c \in [cmd : Cmd, val : Nat] /\ Sensible(c)
    BY <2>1, SpeedFacts, DriverAssumption DEF Call, Sensible
  <2>3. LineTyped'
    BY <1>0, <2>1 DEF Call, lineVars, LineTyped
  <2>4. DriverTyped'
    BY <1>0, <2>1, <2>2 DEF Call, DriverTyped, Point
  <2> QED
    BY <1>0, <2>3, <2>4 DEF TypeInv
<1>10. CASE LineStep /\ UNCHANGED driverVars
  <2>1. LineTyped'
    BY <1>0, <1>10, DevKeepsLine
  <2>2. DriverTyped'
    BY <1>0, <1>10 DEF driverVars, DriverTyped
  <2> QED
    BY <1>0, <2>1, <2>2 DEF TypeInv
<1>11. CASE UNCHANGED vars
  BY <1>0, <1>11 DEF vars, lineVars, driverVars, TypeInv, LineTyped, DriverTyped
<1> QED
  BY <1>1, <1>2, <1>3, <1>4, <1>5, <1>6, <1>7, <1>8, <1>9, <1>10, <1>11
     DEF Next, DriverStep

(* The frames in the queues stay well formed, however reads cut them, and    *)
(* the driver stays at one of its places, whatever goes wrong.               *)
THEOREM TypesCorrect == Spec => []TypeOK
<1> QED
  BY TypeInvInit, TypeInvNext, TypeInvImplies, PTL DEF Spec

-----------------------------------------------------------------------------
(* The lines the theorems are about.                                         *)

\* Answers come before the driver stops waiting (or never), the device sends
\* nothing unasked, and a read waits for the longest frame (uart.c:225).
Punctual ==
  /\ "delay" \notin Faults /\ "auto" \notin Faults
  /\ Vmin >= FrameLen("READ_ALL_DATA")
  /\ \A c \in Calls : c.cmd = "SET_OUTPUT_MODE" => c.val = 0

\* Nothing goes wrong, the device starts at a speed that is probed, and the
\* speeds asked for are in the table of serial_set.
Reliable ==
  /\ Punctual
  /\ Faults = {}
  /\ DevBauds \subseteq Settable
  /\ \A b \in DevBauds : \E i \in 1..Len(Speeds) : Speeds[i] = b
  /\ Target \in Settable
  /\ \A c \in Calls :
       /\ c.cmd = "SET_BTRATE" => c.val \in Settable
       /\ c.cmd = "SET_DEV_ADDR" => c.val \in Byte \ {Err}

-----------------------------------------------------------------------------
(* The inductive invariant of a punctual line.                               *)

Silent == rx = <<>> /\ toDev = <<>> /\ toHost = <<>>

\* What the request in progress has caused is in one place: it is on its way to
\* the device, or its answer is on its way back, or has arrived.
Outbound ==
  /\ rx = <<>> /\ toHost = <<>> /\ toDev # <<>> /\ toDev = <<toDev[1]>>
  /\ toDev[1].cmd = call.cmd /\ toDev[1].val = call.val
  /\ toDev[1].new = TRUE /\ toDev[1].baud = ttyBaud
  /\ call.cmd # "GET_DEV_ADDR" => toDev[1].to = addr
Inbound ==
  /\ rx = <<>> /\ toDev = <<>> /\ toHost # <<>> /\ toHost = <<toHost[1]>>
  /\ toHost[1].cmd = call.cmd /\ toHost[1].new = TRUE
Arrived ==
  /\ toDev = <<>> /\ toHost = <<>> /\ rx # <<>> /\ rx = <<rx[1]>>
  /\ rx[1].left = FrameLen(call.cmd)
  /\ \/ rx[1].cmd = "JUNK"
     \/ rx[1].cmd = call.cmd /\ rx[1].new = TRUE

LineInv ==
  /\ FdInv
  /\ pc # "recv" => Silent
  /\ pc = "recv" => Silent \/ (fds = {3} /\ (Outbound \/ Inbound \/ Arrived))
  /\ call.cmd \in Cmd /\ (call.cmd = "SET_OUTPUT_MODE" => call.val = 0)
  /\ dev = [addr |-> dev.addr, baud |-> dev.baud, mode |-> 0]
  /\ SampleIsFresh

-----------------------------------------------------------------------------
(* Reading from an input queue with one frame in it.                         *)

\* A read that waits for at least as many bytes as the frame has takes it whole.
LEMMA ReadWhole ==
  ASSUME NEW f, f.left \in Nat, NEW max \in Nat, f.left <= max, f.left <= Vmin,
         NEW n \in ReadSizes(<<f>>, max)
  PROVE  Unread(<<f>>, n) = <<>>
<1> DEFINE s == <<f>>
<1>1. Len(s) = 1 /\ s[1] = f
  OBVIOUS
<1>2. Bytes(s) = f.left /\ BytesTo(s, 0) = 0 /\ BytesTo(s, 1) = f.left
  <2> HIDE DEF s
  <2> QED
    BY <1>1, BytesToNone, BytesToOne DEF Bytes
<1> HIDE DEF s
<1>3. Vmin \in Nat
  BY LineAssumption
<1>4. n = f.left
  <2>1. Min({Bytes(s), max}) = f.left
    BY <1>2, MinOfTwo
  <2>2. Max({Vmin, BytesTo(s, Len(s) - 1)}) = Vmin
    BY <1>1, <1>2, <1>3, MaxOfTwo
  <2>3. Min({f.left, Vmin}) = f.left
    BY <1>3, MinOfTwo
  <2>4. n \in f.left .. f.left
    BY <2>1, <2>2, <2>3 DEF ReadSizes, s
  <2> QED
    BY <2>4
<1>5. {i \in 1..Len(s) : BytesTo(s, i) <= n} = {1}
  BY <1>1, <1>2, <1>4
<1>6. Cardinality({i \in 1..Len(s) : BytesTo(s, i) <= n}) = 1
  BY <1>5, FS_Singleton
<1>7. Unread(s, n) = <<>>
  <2> DEFINE gone == Cardinality({i \in 1..Len(s) : BytesTo(s, i) <= n})
             rest(i) == [s[gone + i] EXCEPT !.left = Min({@, BytesTo(s, gone + i) - n})]
  <2>1. Unread(s, n) = [i \in 1..(Len(s) - gone) |-> rest(i)]
    BY DEF Unread
  <2>2. gone = 1
    BY <1>6
  <2> HIDE DEF gone, rest
  <2>3. 1..(Len(s) - gone) = {}
    BY <2>2, <1>1
  <2>4. [i \in {} |-> rest(i)] = <<>>
    OBVIOUS
  <2> QED
    BY <2>1, <2>3, <2>4
<1> QED
  BY <1>7 DEF s

\* No frame is longer than a measurement.
LEMMA FrameLens ==
  ASSUME NEW cmd
  PROVE  /\ FrameLen(cmd) \in Nat /\ FrameLen(cmd) # 0
         /\ FrameLen(cmd) <= FrameLen("READ_ALL_DATA")
         /\ FrameLen("READ_ALL_DATA") = 48
BY DEF FrameLen, PayloadLen

\* There is nothing on its way to be made old.
LEMMA AgeNone == Age(<<>>) = <<>>
BY DEF Age

\* What one frame in the input queue leaves behind when it is read.
LEMMA ArrivedIsTakenWhole ==
  ASSUME Punctual, Arrived, call.cmd \in Cmd,
         NEW n \in ReadSizes(rx, BufLen(call.cmd))
  PROVE  Unread(rx, n) = <<>>
<1> DEFINE f == rx[1]
           max == BufLen(call.cmd)
<1>1. rx = <<f>> /\ f.left = FrameLen(call.cmd)
  BY DEF Arrived
<1>2. max \in Nat /\ FrameLen(call.cmd) <= max
  BY FrameLens DEF BufLen
<1>3. FrameLen(call.cmd) \in Nat /\ FrameLen(call.cmd) <= Vmin
  BY FrameLens, LineAssumption DEF Punctual
<1>4. n \in ReadSizes(rx, max)
  OBVIOUS
<1> HIDE DEF f, max
<1> QED
  BY <1>1, <1>2, <1>3, <1>4, ReadWhole

\* A wait that ends leaves the line silent, whether an answer came or not.
LEMMA WaitEndsSilent ==
  ASSUME Punctual, LineInv, pc = "recv", SerialRecv(fd, BufLen(call.cmd)),
         UNCHANGED <<toDev, toHost>>
  PROVE  Silent' /\ (Silent \/ Arrived)
<1>1. CASE Silent
  BY <1>1 DEF Silent, SerialRecv
<1>2. CASE fds = {3} /\ Arrived
  <2>1. fd \in fds /\ rx # <<>> /\ toDev = <<>> /\ toHost = <<>>
    BY <1>2 DEF LineInv, FdInv, Holding, Arrived
  <2>2. PICK n \in ReadSizes(rx, BufLen(call.cmd)) : rx' = Unread(rx, n)
    BY <2>1 DEF SerialRecv
  <2>3. rx' = <<>>
    BY <1>2, <2>2, ArrivedIsTakenWhole DEF LineInv
  <2> QED
    BY <1>2, <2>1, <2>3 DEF Silent
<1>3. CASE fds = {3} /\ (Outbound \/ Inbound)
  <2>1. fd \in fds /\ rx = <<>> /\ ~(toDev = <<>> /\ toHost = <<>>)
    BY <1>3 DEF LineInv, FdInv, Holding, Outbound, Inbound
  <2>2. ~MayTimeOut
    BY <2>1 DEF MayTimeOut, Punctual
  <2> QED
    BY <2>1, <2>2 DEF SerialRecv
<1> QED
  BY <1>1, <1>2, <1>3 DEF LineInv

\* The buffer of a measurement holds its own answer or nothing that is valid.
LEMMA SampleInBuffer ==
  ASSUME Silent \/ Arrived, call.cmd = "READ_ALL_DATA", NEW g \in InBuffer, Valid(g)
  PROVE  g.new /\ g.cmd = "READ_ALL_DATA"
<1>1. g # Junk
  BY DEF Valid, Junk, Cmd
<1>2. rx # <<>> /\ g = HeadFrame(rx)
  BY <1>1 DEF InBuffer
<1>3. rx[1].cmd \in Cmd /\ g = [cmd |-> rx[1].cmd, val |-> rx[1].val, new |-> rx[1].new]
  BY <1>1, <1>2 DEF HeadFrame
<1>4. Arrived
  BY <1>2 DEF Silent
<1>5. rx[1].cmd = call.cmd /\ rx[1].new = TRUE
  BY <1>3, <1>4 DEF Arrived, Cmd
<1> QED
  BY <1>3, <1>5

LEMMA LineInvInit ==
  ASSUME Punctual
  PROVE  Init => LineInv
<1> SUFFICES ASSUME Init PROVE LineInv
  OBVIOUS
<1>1. FdInv
  BY FdInvInit
<1>2. Silent /\ pc = "open" /\ call = GetAddr /\ done = Nothing
  BY DEF Init, Silent
<1>3. call.cmd \in Cmd /\ (call.cmd = "SET_OUTPUT_MODE" => call.val = 0)
  BY <1>2 DEF GetAddr, Cmd
<1>4. SampleIsFresh
  BY <1>2 DEF Nothing, SampleIsFresh
<1>5. dev = [addr |-> dev.addr, baud |-> dev.baud, mode |-> 0]
  BY DEF Init, DevInit, Punctual
<1> QED
  BY <1>1, <1>2, <1>3, <1>4, <1>5 DEF LineInv

\* The part of the invariant a step that leaves the calls alone keeps.
LEMMA CallsKept ==
  ASSUME LineInv, UNCHANGED <<call, done, dev>>
  PROVE  /\ call'.cmd \in Cmd /\ (call'.cmd = "SET_OUTPUT_MODE" => call'.val = 0)
         /\ dev' = [addr |-> dev'.addr, baud |-> dev'.baud, mode |-> 0]
         /\ SampleIsFresh'
BY DEF LineInv, SampleIsFresh

LEMMA LineInvReceive ==
  ASSUME Punctual, LineInv, FdInv', Receive
  PROVE  LineInv'
<1> DEFINE Taken(g) ==
             /\ Learn(call, g)
             /\ done' = [cmd |-> call.cmd, val |-> call.val,
                         ok |-> Succeeds(call, g), got |-> g]
             /\ IF k > 0 THEN AfterProbe(Succeeds(call, g))
                ELSE /\ pc' = IF call.cmd = "SET_BTRATE" THEN "drain" ELSE "idle"
                     /\ UNCHANGED <<k, call, fd>>
<1>1. PICK g \in InBuffer : Taken(g)
  BY DEF Receive
<1>2. Silent' /\ (Silent \/ Arrived)
  BY WaitEndsSilent DEF Receive
<1>3. pc' # "recv" /\ (call' = call \/ call' = SetBaud(Target))
  BY <1>1 DEF AfterProbe
<1>4. call'.cmd \in Cmd /\ (call'.cmd = "SET_OUTPUT_MODE" => call'.val = 0)
  BY <1>3 DEF SetBaud, Cmd, LineInv
<1>5. SampleIsFresh'
  <2>1. done'.ok = Succeeds(call, g) /\ done'.cmd = call.cmd /\ done'.got = g
    BY <1>1
  <2>2. ASSUME done'.ok, done'.cmd = "READ_ALL_DATA"
        PROVE  g.new /\ g.cmd = "READ_ALL_DATA"
    BY <1>2, <2>1, <2>2, SampleInBuffer DEF Succeeds
  <2> QED
    BY <2>1, <2>2 DEF SampleIsFresh
<1>6. dev' = [addr |-> dev'.addr, baud |-> dev'.baud, mode |-> 0]
  BY DEF Receive, LineInv
<1> QED
  BY <1>2, <1>3, <1>4, <1>5, <1>6 DEF LineInv

LEMMA LineInvSend ==
  ASSUME LineInv, FdInv', Send
  PROVE  LineInv'
<1> DEFINE q == [cmd |-> call.cmd, val |-> call.val, baud |-> ttyBaud, new |-> TRUE,
                 to |-> IF call.cmd = "GET_DEV_ADDR" THEN 0 ELSE addr]
<1>1. Silent /\ pc' = "recv" /\ SerialSend(fd, q)
  BY DEF Send, LineInv
<1>2. UNCHANGED <<call, done, dev, addr, fds, ttyBaud>>
  BY DEF Send, SerialSend
<1>q. /\ q.cmd = call.cmd /\ q.val = call.val /\ q.new = TRUE /\ q.baud = ttyBaud
      /\ call.cmd # "GET_DEV_ADDR" => q.to = addr
  OBVIOUS
<1> HIDE DEF q
<1>3. rx' = <<>> /\ toHost' = <<>> /\ toDev' = IF fd \in fds THEN <<q>> ELSE <<>>
  <2>1. Append(<<>>, q) = <<q>>
    OBVIOUS
  <2> QED
    BY <1>1, <2>1, AgeNone DEF SerialSend, Silent
<1>4. Silent' \/ (fds' = {3} /\ Outbound')
  <2>1. CASE fd \in fds
    <3>1. toDev' = <<q>>
      BY <1>3, <2>1
    <3>2. Outbound'
      <4>1. toDev' # <<>> /\ toDev'[1] = q
        BY <3>1
      <4> QED
        BY <1>2, <1>3, <1>q, <3>1, <4>1 DEF Outbound
    <3>3. fds' = {3}
      BY <1>2, <2>1 DEF LineInv, FdInv
    <3> QED
      BY <3>2, <3>3
  <2>2. CASE fd \notin fds
    BY <1>3, <2>2 DEF Silent
  <2> QED
    BY <2>1, <2>2
<1> QED
  BY <1>1, <1>2, <1>4, CallsKept DEF LineInv

\* The device takes the one request there is, and answers or ignores it.
LEMMA LineInvServe ==
  ASSUME LineInv, FdInv', DevServe, UNCHANGED driverVars
  PROVE  LineInv'
<1> DEFINE q == toDev[1]
<1>1. pc = "recv" /\ fds = {3} /\ Outbound
  BY DEF LineInv, DevServe, Silent, Inbound, Arrived
<1>2. toDev = <<q>> /\ q.cmd = call.cmd /\ q.val = call.val /\ q.new = TRUE /\ rx = <<>> /\ toHost = <<>>
  BY <1>1 DEF Outbound
<1>3. UNCHANGED <<fds, rx, pc, call, done>>
  BY DEF DevServe, driverVars
<1> HIDE DEF q
<1>4. Head(toDev) = q /\ toDev' = <<>>
  BY <1>2 DEF DevServe
<1>5. \/ UNCHANGED <<toHost, dev>>
      \/ \E v : Reply(q, v) /\ (Obey(q) \/ UNCHANGED dev)
  BY <1>4 DEF DevServe
<1>6. dev' = [addr |-> dev'.addr, baud |-> dev'.baud, mode |-> 0]
  BY <1>2, <1>5 DEF Obey, LineInv
<1>7. Silent' \/ Inbound'
  <2>1. CASE UNCHANGED toHost
    BY <1>2, <1>3, <1>4, <2>1 DEF Silent
  <2>2. CASE \E v : Reply(q, v)
    <3>1. PICK v : Reply(q, v)
      BY <2>2
    <3>2. toHost' = <<[cmd |-> q.cmd, val |-> v, baud |-> dev.baud, new |-> q.new]>>
      BY <3>1, <1>2 DEF Reply
    <3> QED
      BY <1>2, <1>3, <1>4, <3>2 DEF Inbound
  <2> QED
    BY <1>5, <2>1, <2>2
<1> QED
  BY <1>1, <1>3, <1>6, <1>7 DEF LineInv, SampleIsFresh

\* The one answer there is reaches the tty.
LEMMA LineInvDeliver ==
  ASSUME LineInv, FdInv', Deliver, UNCHANGED driverVars
  PROVE  LineInv'
<1> DEFINE r == toHost[1]
           f == IF r.baud = ttyBaud
                THEN [cmd |-> r.cmd, val |-> r.val, new |-> r.new]
                ELSE Junk
           a == [cmd |-> f.cmd, val |-> f.val, new |-> f.new, left |-> FrameLen(r.cmd)]
<1>1. pc = "recv" /\ fds = {3} /\ Inbound
  BY DEF LineInv, Deliver, Silent, Outbound, Arrived
<1>2. toHost = <<r>> /\ r.cmd = call.cmd /\ r.new = TRUE /\ rx = <<>> /\ toDev = <<>>
  BY <1>1 DEF Inbound
<1>3. UNCHANGED <<fds, toDev, dev, pc, call, done>>
  BY DEF Deliver, driverVars
<1> HIDE DEF r
<1>4. f = Junk \/ (f.cmd = r.cmd /\ f.new = r.new)
  OBVIOUS
<1>5. Head(toHost) = r /\ toHost' = <<>>
  BY <1>2 DEF Deliver
<1>6. rx' = <<a>>
  <2>1. rx' = Append(rx, a)
    BY <1>1, <1>5 DEF Deliver
  <2> HIDE DEF a
  <2> QED
    BY <1>2, <2>1
<1>7. Arrived'
  <2>1. a.cmd = f.cmd /\ a.new = f.new /\ a.left = FrameLen(call.cmd)
    BY <1>2
  <2>2. f = Junk => f.cmd = "JUNK"
    BY DEF Junk
  <2> HIDE DEF a, f
  <2> QED
    BY <1>2, <1>3, <1>4, <1>5, <1>6, <2>1, <2>2 DEF Arrived
<1> QED
  BY <1>1, <1>3, <1>7, CallsKept DEF LineInv

LEMMA LineInvNext ==
  ASSUME Punctual
  PROVE  LineInv /\ [Next]_vars => LineInv'
<1> SUFFICES ASSUME LineInv, [Next]_vars PROVE LineInv'
  OBVIOUS
<1>0. FdInv'
  BY FdInvNext DEF LineInv
<1>1. CASE ProbeOpen
  <2>1. Silent' /\ pc' # "recv"
    BY <1>1 DEF ProbeOpen, SerialInit, SerialInitFails, LineInv, Silent
  <2>2. call' = GetAddr /\ UNCHANGED <<dev, done>>
    BY <1>1 DEF ProbeOpen
  <2>3. call'.cmd \in Cmd /\ (call'.cmd = "SET_OUTPUT_MODE" => call'.val = 0)
    BY <2>2 DEF GetAddr, Cmd
  <2> QED
    BY <1>0, <2>1, <2>2, <2>3 DEF LineInv, SampleIsFresh
<1>2. CASE Send
  BY <1>0, <1>2, LineInvSend
<1>3. CASE Receive
  BY <1>0, <1>3, LineInvReceive
<1>4. CASE ProbeClose
  <2>1. Silent' /\ pc' # "recv"
    BY <1>4 DEF ProbeClose, Close, LineInv, Silent
  <2> QED
    BY <1>0, <1>4, <2>1, CallsKept DEF ProbeClose, LineInv
<1>5. CASE Drain
  <2>1. Silent' /\ pc' # "recv"
    BY <1>5 DEF Drain, SerialRecv, LineInv, Silent
  <2> QED
    BY <1>0, <1>5, <2>1, CallsKept DEF Drain, LineInv
<1>6. CASE CloseOld
  <2>1. Silent' /\ pc' # "recv"
    BY <1>6 DEF CloseOld, Close, LineInv, Silent
  <2> QED
    BY <1>0, <1>6, <2>1, CallsKept DEF CloseOld, LineInv
<1>7. CASE Reopen
  <2>1. Silent' /\ pc' # "recv"
    BY <1>7 DEF Reopen, SerialInit, SerialInitFails, LineInv, Silent
  <2> QED
    BY <1>0, <1>7, <2>1, CallsKept DEF Reopen, LineInv
<1>8. CASE FlushOld
  <2>1. Silent' /\ pc' # "recv"
    BY <1>8 DEF FlushOld, LineInv, Silent
  <2> QED
    BY <1>0, <1>8, <2>1, CallsKept DEF FlushOld, LineInv
<1>9. CASE \E c \in Calls : Call(c)
  <2>1. PICK c \in Calls : Call(c)
    BY <1>9
  <2>2. Silent' /\ pc' # "recv" /\ call' = c /\ UNCHANGED <<dev, done>>
    BY <2>1 DEF Call, lineVars, LineInv, Silent
  <2>3. c.cmd \in Cmd /\ (c.cmd = "SET_OUTPUT_MODE" => c.val = 0)
    BY DriverAssumption DEF Punctual
  <2> QED
    BY <1>0, <2>2, <2>3 DEF LineInv, SampleIsFresh
<1>10. CASE LineStep /\ UNCHANGED driverVars
  <2>1. CASE DevServe
    BY <1>0, <1>10, <2>1, LineInvServe
  <2>2. CASE DevAutoOutput
    BY <2>2 DEF DevAutoOutput, LineInv
  <2>3. CASE Deliver
    BY <1>0, <1>10, <2>3, LineInvDeliver
  <2>4. CASE LoseRequest \/ LoseReply
    <3>1. UNCHANGED <<call, done, dev, pc, fds>>
      BY <1>10, <2>4 DEF LoseRequest, LoseReply, driverVars
    <3>2. pc = "recv" /\ (Outbound \/ Inbound)
      BY <2>4 DEF LoseRequest, LoseReply, LineInv, Silent, Arrived
    <3>3. Silent'
      <4>1. CASE LoseRequest
        <5>1. toDev = <<toDev[1]>> /\ rx = <<>> /\ toHost = <<>>
          BY <3>2, <4>1 DEF Outbound, Inbound, LoseRequest
        <5> DEFINE q == toDev[1]
        <5> HIDE DEF q
        <5>2. Tail(<<q>>) = <<>>
          OBVIOUS
        <5> QED
          BY <4>1, <5>1, <5>2 DEF LoseRequest, Silent, q
      <4>2. CASE LoseReply
        <5>1. toHost = <<toHost[1]>> /\ rx = <<>> /\ toDev = <<>>
          BY <3>2, <4>2 DEF Outbound, Inbound, LoseReply
        <5> DEFINE r == toHost[1]
        <5> HIDE DEF r
        <5>2. Tail(<<r>>) = <<>>
          OBVIOUS
        <5> QED
          BY <4>2, <5>1, <5>2 DEF LoseReply, Silent, r
      <4> QED
        BY <2>4, <4>1, <4>2
    <3> QED
      BY <1>0, <3>1, <3>2, <3>3, CallsKept DEF LineInv
  <2> QED
    BY <1>10, <2>1, <2>2, <2>3, <2>4 DEF LineStep
<1>11. CASE UNCHANGED vars
  BY <1>0, <1>11 DEF vars, lineVars, driverVars, LineInv, SampleIsFresh, Silent,
     Outbound, Inbound, Arrived
<1> QED
  BY <1>1, <1>2, <1>3, <1>4, <1>5, <1>6, <1>7, <1>8, <1>9, <1>10, <1>11
     DEF Next, DriverStep

LEMMA LineInvHolds ==
  ASSUME Punctual
  PROVE  Spec => []LineInv
<1> QED
  BY LineInvInit, LineInvNext, PTL DEF Spec

-----------------------------------------------------------------------------
(* A measurement is taken from the device's answer to the request for it.    *)
THEOREM MeasurementsFresh ==
  ASSUME Punctual
  PROVE  Spec => []SampleIsFresh
<1>1. LineInv => SampleIsFresh
  BY DEF LineInv
<1> QED
  BY <1>1, LineInvHolds, PTL

(* A request never goes out while something an earlier one caused is still   *)
(* on the line, whatever is lost and whichever speeds are tried.             *)
THEOREM NothingStaysBehind ==
  ASSUME Punctual
  PROVE  Spec => []NothingLeftBehind
<1>1. LineInv => NothingLeftBehind
  BY DEF LineInv, Silent, NothingLeftBehind
<1> QED
  BY <1>1, LineInvHolds, PTL

-----------------------------------------------------------------------------
(* The inductive invariant of a line on which nothing is lost either.        *)

\* The device as it is once it has obeyed the request in progress.
Obeyed ==
  /\ dev.baud = IF call.cmd = "SET_BTRATE" THEN call.val ELSE ttyBaud
  /\ dev.addr = IF call.cmd = "SET_DEV_ADDR" THEN call.val ELSE addr

\* The first byte of its answer.
Answer ==
  CASE call.cmd = "GET_DEV_ADDR"    -> dev.addr
    [] call.cmd = "SET_DEV_ADDR"    -> call.val
    [] call.cmd = "GYROSCOPE_CALIB" -> 1
    [] call.cmd \in {"GET_G", "GET_W", "READ_ALL_DATA"} -> SampleByte
    [] OTHER                        -> 0

OwnReply == toHost # <<>> => toHost[1].baud = ttyBaud /\ toHost[1].val = Answer
OwnFrame == rx # <<>> => rx[1].cmd = call.cmd /\ rx[1].val = Answer

\* While the probe runs, no speed tried so far was the device's, and nothing an
\* answer could be taken for lies where its requests have their buffer.
Probing ==
  /\ pc \in {"open", "send", "recv", "next"}
  /\ k \in 1..Len(Speeds)
  /\ \A i \in 1..(k - 1) : Speeds[i] # dev.baud
  /\ dev.baud \in DevBauds
  /\ call = GetAddr
  /\ buf["probe"] = Junk
  /\ pc # "open" /\ Speeds[k] \in Settable => ttyBaud = Speeds[k]
  /\ pc = "next" => ttyBaud # dev.baud
  /\ pc = "recv" => /\ Silent => ttyBaud # dev.baud
                    /\ Inbound \/ Arrived => ttyBaud = dev.baud
                    /\ OwnReply /\ OwnFrame

\* Afterwards the two sides agree whenever no request is on its way.
Agreeing ==
  /\ pc \notin {"open", "next", "failed"}
  /\ pc \in {"idle", "send"} => fds = {3} /\ ttyBaud = dev.baud /\ addr = dev.addr
  /\ pc = "recv" => /\ ~Silent
                    /\ Outbound => ttyBaud = dev.baud /\ addr = dev.addr
                    /\ ~Outbound => Obeyed
                    /\ OwnReply /\ OwnFrame
  /\ pc \in {"drain", "close", "reopen", "drain_new", "flush"} =>
       /\ call.cmd = "SET_BTRATE" /\ dev.baud = call.val /\ addr = dev.addr
       /\ pc \in {"drain_new", "flush"} => ttyBaud = dev.baud

QuietInv ==
  /\ LineInv
  /\ k > 0 => Probing
  /\ k = 0 => Agreeing \/ pc = "failed"
  /\ call.cmd = "SET_BTRATE" => call.val \in Settable
  /\ call.cmd = "SET_DEV_ADDR" => call.val \in Byte \ {Err}
  /\ DOMAIN buf = Place
  /\ AnswerIsToTheCall

-----------------------------------------------------------------------------
(* The steps that move a request and its answer.                             *)

\* A request for an open port goes on its way.
LEMMA SentIsOutbound ==
  ASSUME LineInv, fds = {3}, Send
  PROVE  /\ Outbound'
         /\ pc = "send" /\ pc' = "recv"
         /\ UNCHANGED <<fds, ttyBaud, dev, k, call, fd, addr, done>>
         /\ DOMAIN buf = Place => DOMAIN buf' = Place
         /\ buf["probe"] = Junk => buf'["probe"] = Junk
<1> DEFINE q == [cmd |-> call.cmd, val |-> call.val, baud |-> ttyBaud, new |-> TRUE,
                 to |-> IF call.cmd = "GET_DEV_ADDR" THEN 0 ELSE addr]
<1>1. Silent /\ pc = "send" /\ pc' = "recv" /\ SerialSend(fd, q) /\ fd \in fds
  BY DEF Send, LineInv, FdInv, Holding
<1>2. UNCHANGED <<fds, ttyBaud, dev, k, call, fd, addr, done>>
  BY DEF Send, SerialSend
<1>3. /\ q.cmd = call.cmd /\ q.val = call.val /\ q.new = TRUE /\ q.baud = ttyBaud
      /\ call.cmd # "GET_DEV_ADDR" => q.to = addr
  OBVIOUS
<1> HIDE DEF q
<1>4. rx' = <<>> /\ toHost' = <<>> /\ toDev' = <<q>>
  <2>1. Append(<<>>, q) = <<q>>
    OBVIOUS
  <2> QED
    BY <1>1, <2>1, AgeNone DEF SerialSend, Silent
<1>5. Outbound'
  <2>1. toDev' # <<>> /\ toDev'[1] = q
    BY <1>4
  <2> QED
    BY <1>2, <1>3, <1>4, <2>1 DEF Outbound
<1>6. buf' = [p \in Place |-> [buf[p] EXCEPT !.new = FALSE]]
  BY DEF Send
<1>7. [Junk EXCEPT !.new = FALSE] = Junk
  BY JunkStaysJunk
<1> QED
  BY <1>1, <1>2, <1>5, <1>6, <1>7 DEF Place

\* The answer the device gives to the one request on its way, if it hears it.
LEMMA ServedIsAnswered ==
  ASSUME LineInv, Faults = {}, DevServe
  PROVE  /\ pc = "recv" /\ fds = {3} /\ Outbound
         /\ rx' = <<>> /\ toDev' = <<>> /\ UNCHANGED <<fds, ttyBaud>>
         /\ \/ ~Hears(toDev[1]) /\ toHost' = <<>> /\ dev' = dev
            \/ /\ Hears(toDev[1]) /\ Obey(toDev[1])
               /\ toHost' # <<>> /\ toHost' = <<toHost'[1]>>
               /\ toHost'[1].cmd = call.cmd /\ toHost'[1].new = TRUE
               /\ toHost'[1].baud = dev.baud /\ toHost'[1].val = AnswerTo(toDev[1])
<1> DEFINE q == toDev[1]
           a == [cmd |-> q.cmd, val |-> AnswerTo(q), baud |-> dev.baud, new |-> q.new]
<1>1. pc = "recv" /\ fds = {3} /\ Outbound
  BY DEF LineInv, DevServe, Silent, Inbound, Arrived
<1>2. toDev = <<q>> /\ q.cmd = call.cmd /\ q.new = TRUE /\ rx = <<>> /\ toHost = <<>>
  BY <1>1 DEF Outbound
<1>3. a.cmd = q.cmd /\ a.val = AnswerTo(q) /\ a.baud = dev.baud /\ a.new = q.new
  OBVIOUS
<1> HIDE DEF q
<1>4. Head(toDev) = q /\ toDev' = <<>> /\ UNCHANGED <<fds, ttyBaud, rx>>
  BY <1>2 DEF DevServe
<1>5. \/ ~Hears(q) /\ UNCHANGED <<toHost, dev>>
      \/ Hears(q) /\ Reply(q, AnswerTo(q)) /\ Obey(q)
  BY <1>4 DEF DevServe
<1> HIDE DEF a
<1>6. Reply(q, AnswerTo(q)) => toHost' = <<a>>
  <2>1. Reply(q, AnswerTo(q)) => toHost' = Append(<<>>, a)
    BY <1>2 DEF Reply, a
  <2>2. Append(<<>>, a) = <<a>>
    OBVIOUS
  <2> QED
    BY <2>1, <2>2
<1>7. CASE ~Hears(q) /\ UNCHANGED <<toHost, dev>>
  BY <1>1, <1>2, <1>4, <1>7 DEF q
<1>8. CASE Hears(q) /\ Reply(q, AnswerTo(q)) /\ Obey(q)
  <2>1. toHost' = <<a>>
    BY <1>6, <1>8
  <2>2. toHost' # <<>> /\ toHost'[1] = a
    BY <2>1
  <2>3. /\ toHost'[1].cmd = call.cmd /\ toHost'[1].new = TRUE
        /\ toHost'[1].baud = dev.baud /\ toHost'[1].val = AnswerTo(q)
    BY <1>2, <1>3, <2>2
  <2> QED
    BY <1>1, <1>2, <1>4, <1>8, <2>1, <2>2, <2>3 DEF q
<1> QED
  BY <1>5, <1>7, <1>8

\* An answer at the speed of the tty arrives as it was sent.
LEMMA DeliveredIsArrived ==
  ASSUME LineInv, Deliver, toHost[1].baud = ttyBaud
  PROVE  /\ pc = "recv" /\ fds = {3} /\ Inbound
         /\ rx' # <<>> /\ rx'[1].cmd = call.cmd /\ rx'[1].val = toHost[1].val
         /\ toHost' = <<>> /\ toDev' = <<>> /\ UNCHANGED <<fds, ttyBaud, dev>>
<1> DEFINE r == toHost[1]
           a == [cmd |-> r.cmd, val |-> r.val, new |-> r.new, left |-> FrameLen(r.cmd)]
<1>1. pc = "recv" /\ fds = {3} /\ Inbound
  BY DEF LineInv, Deliver, Silent, Outbound, Arrived
<1>2. toHost = <<r>> /\ r.cmd = call.cmd /\ rx = <<>> /\ toDev = <<>> /\ r.baud = ttyBaud
  BY <1>1 DEF Inbound
<1>3. UNCHANGED <<fds, ttyBaud, toDev, dev>>
  BY DEF Deliver
<1> HIDE DEF r
<1>4. Head(toHost) = r /\ toHost' = <<>>
  BY <1>2 DEF Deliver
<1>5. rx' = Append(rx, a)
  BY <1>1, <1>2, <1>4 DEF Deliver
<1>6. a.cmd = r.cmd /\ a.val = r.val
  OBVIOUS
<1> HIDE DEF a
<1>7. rx' # <<>> /\ rx'[1] = a
  BY <1>2, <1>5
<1> QED
  BY <1>1, <1>2, <1>3, <1>4, <1>6, <1>7 DEF r

\* The buffer of a request whose answer has arrived holds that answer.
LEMMA AnswerInBuffer ==
  ASSUME LineInv, Arrived, OwnFrame, pc = "recv", NEW g \in InBuffer
  PROVE  g.cmd = call.cmd /\ g.val = Answer /\ g.new = TRUE
<1>1. fd \in fds /\ rx # <<>>
  BY DEF LineInv, FdInv, Holding, Arrived, Silent, Outbound, Inbound
<1>2. g = HeadFrame(rx)
  BY <1>1 DEF InBuffer
<1>3. rx[1].cmd = call.cmd /\ rx[1].val = Answer
  BY <1>1 DEF OwnFrame
<1>4. call.cmd \in Cmd /\ rx[1].left = FrameLen(rx[1].cmd) /\ rx[1].new = TRUE
  BY <1>3 DEF LineInv, Arrived, Cmd
<1>5. g = [cmd |-> rx[1].cmd, val |-> rx[1].val, new |-> rx[1].new]
  BY <1>2, <1>3, <1>4 DEF HeadFrame
<1> QED
  BY <1>3, <1>4, <1>5

-----------------------------------------------------------------------------
(* The invariant of the line on which nothing is lost.                       *)

LEMMA QuietInvInit ==
  ASSUME Reliable
  PROVE  Init => QuietInv
<1> SUFFICES ASSUME Init PROVE QuietInv
  OBVIOUS
<1>1. LineInv
  BY LineInvInit DEF Reliable
<1>2. k = 1 /\ pc = "open" /\ call = GetAddr /\ buf = [p \in Place |-> Junk] /\ done = Nothing
  BY DEF Init
<1>3. 1 \in 1..Len(Speeds)
  BY DriverAssumption
<1>4. dev.baud \in DevBauds
  BY DEF Init, DevInit
<1>5. Probing
  BY <1>2, <1>3, <1>4 DEF Probing, Place
<1>6. call.cmd # "SET_BTRATE" /\ call.cmd # "SET_DEV_ADDR"
  BY <1>2 DEF GetAddr
<1>7. AnswerIsToTheCall
  BY <1>2 DEF Nothing, AnswerIsToTheCall
<1> QED
  BY <1>1, <1>2, <1>5, <1>6, <1>7 DEF QuietInv

\* Nothing valid is read while the probe tries a speed that is not the device's.
LEMMA WrongSpeedNoAnswer ==
  ASSUME QuietInv, k > 0, pc = "recv", Silent, NEW g \in InBuffer
  PROVE  g = Junk
<1>1. buf["probe"] = Junk /\ call = GetAddr /\ rx = <<>>
  BY DEF QuietInv, Probing, Silent
<1> QED
  BY <1>1 DEF InBuffer, PlaceOf, GetAddr

LEMMA QuietInvReceiveProbe ==
  ASSUME Reliable, QuietInv, LineInv', Receive, k > 0
  PROVE  QuietInv'
<1>1. Probing /\ pc = "recv" /\ LineInv /\ Punctual
  BY DEF QuietInv, Receive, Reliable
<1>2. Silent \/ Arrived
  BY <1>1, WaitEndsSilent DEF Receive
<1>3. UNCHANGED <<fds, ttyBaud, dev>>
  BY DEF Receive
<1>4. PICK g \in InBuffer :
        /\ buf' = IF call.cmd = "READ_ALL_DATA" THEN buf
                  ELSE [buf EXCEPT ![PlaceOf(call)] = g]
        /\ Learn(call, g)
        /\ done' = [cmd |-> call.cmd, val |-> call.val,
                    ok |-> Succeeds(call, g), got |-> g]
        /\ AfterProbe(Succeeds(call, g))
  BY DEF Receive
<1>5. DOMAIN buf' = Place
  BY <1>4 DEF QuietInv
<1>6. k \in Nat /\ k # 0 /\ call.cmd = "GET_DEV_ADDR"
  BY <1>1 DEF LineInv, FdInv, Probing, GetAddr
<1>7. CASE Silent
  <2>1. g = Junk /\ ttyBaud # dev.baud
    BY <1>1, <1>7, WrongSpeedNoAnswer DEF Probing
  <2>2. ~Succeeds(call, g)
    BY <2>1 DEF Succeeds, Valid, Junk, Cmd
  <2>3. pc' = "next" /\ UNCHANGED <<k, call, fd>>
    BY <1>4, <2>2 DEF AfterProbe
  <2>4. buf' = [buf EXCEPT !["probe"] = Junk]
    BY <1>4, <1>6, <2>1 DEF PlaceOf
  <2>5. buf'["probe"] = Junk
    BY <2>4 DEF QuietInv, Place
  <2>6. Probing'
    BY <1>1, <1>3, <2>1, <2>3, <2>5 DEF Probing
  <2>7. done'.ok = Succeeds(call, g)
    BY <1>4
  <2> QED
    BY <1>5, <1>6, <2>2, <2>3, <2>6, <2>7 DEF QuietInv, AnswerIsToTheCall
<1>8. CASE Arrived
  <2>1. g.cmd = call.cmd /\ g.val = Answer /\ g.new = TRUE
    BY <1>1, <1>8, AnswerInBuffer DEF Probing
  <2>2. g.val = dev.addr
    BY <1>6, <2>1 DEF Answer
  <2>3. Succeeds(call, g)
    BY <1>6, <2>1 DEF Succeeds, Valid, Cmd
  <2>4. addr' = dev'.addr
    BY <1>3, <1>4, <1>6, <2>2, <2>3 DEF Learn
  <2>5. ttyBaud = dev.baud /\ fds' = {3}
    BY <1>1, <1>3, <1>8 DEF Probing, LineInv, FdInv
  <2>6. /\ k' = 0
        /\ pc' = "failed" \/ (pc' \in {"idle", "send"} /\ (call' = call \/ call' = SetBaud(Target)))
        /\ call' = call \/ call' = SetBaud(Target)
    BY <1>4, <2>3 DEF AfterProbe
  <2>7. Agreeing' \/ pc' = "failed"
    BY <1>3, <2>4, <2>5, <2>6 DEF Agreeing
  <2>8. /\ call'.cmd = "SET_BTRATE" => call'.val \in Settable
        /\ call'.cmd # "SET_DEV_ADDR"
    BY <1>6, <2>6 DEF SetBaud, Reliable
  <2>9. done'.got = g /\ done'.cmd = call.cmd
    BY <1>4
  <2>10. AnswerIsToTheCall'
    BY <2>1, <2>9 DEF AnswerIsToTheCall
  <2> QED
    BY <1>5, <2>6, <2>7, <2>8, <2>10 DEF QuietInv
<1> QED
  BY <1>2, <1>7, <1>8

LEMMA QuietInvReceiveCall ==
  ASSUME Reliable, QuietInv, LineInv', Receive, k = 0
  PROVE  QuietInv'
<1>1. Agreeing /\ pc = "recv" /\ LineInv /\ Punctual
  BY DEF QuietInv, Receive, Reliable
<1>2. Arrived /\ ~Outbound /\ fds = {3}
  <2>1. Silent \/ Arrived
    BY <1>1, WaitEndsSilent DEF Receive
  <2>2. Arrived
    BY <1>1, <2>1 DEF Agreeing
  <2> QED
    BY <1>1, <2>2 DEF LineInv, Silent, Arrived, Outbound
<1>3. UNCHANGED <<fds, ttyBaud, dev>>
  BY DEF Receive
<1>4. PICK g \in InBuffer :
        /\ buf' = IF call.cmd = "READ_ALL_DATA" THEN buf
                  ELSE [buf EXCEPT ![PlaceOf(call)] = g]
        /\ Learn(call, g)
        /\ done' = [cmd |-> call.cmd, val |-> call.val,
                    ok |-> Succeeds(call, g), got |-> g]
        /\ pc' = IF call.cmd = "SET_BTRATE" THEN "drain" ELSE "idle"
        /\ UNCHANGED <<k, call, fd>>
  BY DEF Receive
<1>5. DOMAIN buf' = Place
  BY <1>4 DEF QuietInv
<1>6. Obeyed /\ OwnFrame
  BY <1>1, <1>2 DEF Agreeing
<1>7. g.cmd = call.cmd /\ g.val = Answer /\ g.new = TRUE
  BY <1>1, <1>2, <1>6, AnswerInBuffer
<1>8. Succeeds(call, g)
  <2>1. Valid(g)
    BY <1>1, <1>7 DEF Valid, LineInv
  <2>2. call.cmd = "SET_DEV_ADDR" => g.val # Err
    BY <1>7 DEF Answer, QuietInv
  <2>3. call.cmd = "SAVE_CONFIG" => g.val # Err
    BY <1>7 DEF Answer, Err
  <2>4. call.cmd = "GYROSCOPE_CALIB" => g.val = 1
    BY <1>7 DEF Answer
  <2> QED
    BY <2>1, <2>2, <2>3, <2>4 DEF Succeeds
<1>9. addr' = dev.addr
  <2>1. call.cmd = "GET_DEV_ADDR" => addr' = dev.addr
    BY <1>4, <1>7, <1>8 DEF Learn, Answer
  <2>2. call.cmd = "SET_DEV_ADDR" => addr' = dev.addr
    BY <1>4, <1>6, <1>8 DEF Learn, Obeyed
  <2>3. call.cmd \notin {"GET_DEV_ADDR", "SET_DEV_ADDR"} => addr' = dev.addr
    BY <1>4, <1>6, <1>8 DEF Learn, Obeyed
  <2> QED
    BY <2>1, <2>2, <2>3
<1>10. Agreeing'
  BY <1>2, <1>3, <1>4, <1>6, <1>9 DEF Agreeing, Obeyed
<1>11. done'.got = g /\ done'.cmd = call.cmd
  BY <1>4
<1>12. AnswerIsToTheCall'
  BY <1>7, <1>11 DEF AnswerIsToTheCall
<1> QED
  BY <1>4, <1>5, <1>10, <1>12 DEF QuietInv

\* What a step that only moves frames keeps.
LEMMA FramesOnly ==
  ASSUME QuietInv, LineInv', UNCHANGED driverVars,
         k > 0 => Probing', k = 0 => Agreeing'
  PROVE  QuietInv'
BY DEF QuietInv, driverVars, AnswerIsToTheCall

LEMMA QuietInvServe ==
  ASSUME Reliable, QuietInv, LineInv', DevServe, UNCHANGED driverVars
  PROVE  QuietInv'
<1> DEFINE q == toDev[1]
<1>1. UNCHANGED <<pc, k, call, fd, newFd, addr, buf, done>>
  BY DEF driverVars
<1>2. /\ pc = "recv" /\ fds = {3} /\ Outbound
      /\ rx' = <<>> /\ toDev' = <<>> /\ UNCHANGED <<fds, ttyBaud>>
      /\ \/ ~Hears(q) /\ toHost' = <<>> /\ dev' = dev
         \/ /\ Hears(q) /\ Obey(q)
            /\ toHost' # <<>> /\ toHost' = <<toHost'[1]>>
            /\ toHost'[1].cmd = call.cmd /\ toHost'[1].new = TRUE
            /\ toHost'[1].baud = dev.baud /\ toHost'[1].val = AnswerTo(q)
  BY ServedIsAnswered DEF QuietInv, Reliable
<1>3. /\ q.cmd = call.cmd /\ q.val = call.val /\ q.baud = ttyBaud
      /\ call.cmd # "GET_DEV_ADDR" => q.to = addr
  BY <1>2 DEF Outbound
<1>4. dev = [addr |-> dev.addr, baud |-> dev.baud, mode |-> 0]
  BY DEF QuietInv, LineInv
<1> HIDE DEF q
<1>5. ~Outbound'
  BY <1>2 DEF Outbound
<1>6. CASE k > 0
  <2>1. Probing /\ call = GetAddr /\ q.cmd = "GET_DEV_ADDR"
    BY <1>3, <1>6 DEF QuietInv, Probing, GetAddr
  <2>2. Hears(q) <=> ttyBaud = dev.baud
    BY <1>3, <2>1 DEF Hears
  <2>3. dev' = dev
    BY <1>2, <2>1 DEF Obey
  <2>4. CASE ttyBaud # dev.baud
    <3>1. toHost' = <<>>
      BY <1>2, <2>2, <2>4
    <3>2. ~Inbound' /\ ~Arrived' /\ OwnReply' /\ OwnFrame'
      BY <1>2, <3>1 DEF Inbound, Arrived, OwnReply, OwnFrame
    <3> QED
      BY <1>1, <1>2, <2>1, <2>3, <2>4, <3>2, <1>6, FramesOnly DEF Probing
  <2>5. CASE ttyBaud = dev.baud
    <3>1. toHost' # <<>> /\ toHost'[1].baud = dev.baud /\ toHost'[1].val = dev.addr
      BY <1>2, <2>1, <2>2, <2>5 DEF AnswerTo
    <3>2. Answer' = dev.addr
      BY <1>1, <2>1, <2>3 DEF Answer, GetAddr
    <3>3. ~Silent' /\ OwnReply' /\ OwnFrame'
      BY <1>2, <2>5, <3>1, <3>2 DEF Silent, OwnReply, OwnFrame
    <3> QED
      BY <1>1, <1>2, <2>1, <2>3, <2>5, <3>3, <1>6, FramesOnly DEF Probing
  <2> QED
    BY <2>4, <2>5
<1>7. CASE k = 0
  <2>1. ttyBaud = dev.baud /\ addr = dev.addr
    BY <1>2, <1>7 DEF QuietInv, Agreeing
  <2>2. Hears(q)
    BY <1>3, <2>1 DEF Hears
  <2>3. /\ Obey(q) /\ toHost' # <<>>
        /\ toHost'[1].baud = ttyBaud /\ toHost'[1].val = AnswerTo(q)
    BY <1>2, <2>1, <2>2
  <2>4. dev'.baud = IF call.cmd = "SET_BTRATE" THEN call.val ELSE dev.baud
    BY <1>3, <1>4, <2>3 DEF Obey
  <2>5. dev'.addr = IF call.cmd = "SET_DEV_ADDR" THEN call.val ELSE dev.addr
    BY <1>3, <1>4, <2>3 DEF Obey
  <2>6. Obeyed'
    BY <1>1, <1>2, <2>1, <2>4, <2>5 DEF Obeyed
  <2>7. AnswerTo(q) = Answer'
    BY <1>1, <1>3, <2>5 DEF AnswerTo, Answer
  <2>8. ~Silent' /\ OwnReply' /\ OwnFrame'
    BY <1>2, <2>3, <2>7 DEF Silent, OwnReply, OwnFrame
  <2>9. Agreeing'
    BY <1>1, <1>2, <1>5, <2>6, <2>8 DEF Agreeing
  <2> QED
    BY <2>9, <1>7, FramesOnly
<1>8. k \in Nat
  BY DEF QuietInv, LineInv, FdInv
<1> QED
  BY <1>6, <1>7, <1>8

LEMMA QuietInvDeliver ==
  ASSUME QuietInv, LineInv', Deliver, UNCHANGED driverVars
  PROVE  QuietInv'
<1>1. UNCHANGED <<pc, k, call, fd, newFd, addr, buf, done>>
  BY DEF driverVars
<1>2. pc = "recv" /\ Inbound /\ toHost # <<>>
  BY DEF Deliver, QuietInv, LineInv, Silent, Outbound, Arrived, Inbound
<1>3. k \in Nat /\ LineInv
  BY DEF QuietInv, LineInv, FdInv
<1>4. OwnReply /\ (k > 0 => Probing) /\ (k = 0 => Agreeing)
  BY <1>2, <1>3 DEF QuietInv, Probing, Agreeing
<1>5. toHost[1].baud = ttyBaud /\ toHost[1].val = Answer
  BY <1>2, <1>4 DEF OwnReply
<1>6. /\ rx' # <<>> /\ rx'[1].cmd = call.cmd /\ rx'[1].val = toHost[1].val
      /\ toHost' = <<>> /\ toDev' = <<>> /\ UNCHANGED <<fds, ttyBaud, dev>>
  BY <1>3, <1>5, DeliveredIsArrived
<1>7. Answer' = Answer
  BY <1>1, <1>6 DEF Answer
<1>8. ~Silent' /\ ~Outbound' /\ OwnReply' /\ OwnFrame'
  BY <1>1, <1>5, <1>6, <1>7 DEF Silent, Outbound, OwnReply, OwnFrame
<1>9. CASE k > 0
  <2>1. Probing /\ ttyBaud = dev.baud
    BY <1>2, <1>4, <1>9 DEF Probing
  <2>2. Probing'
    BY <1>1, <1>2, <1>6, <1>8, <2>1 DEF Probing
  <2> QED
    BY <1>9, <2>2, FramesOnly
<1>10. CASE k = 0
  <2>1. Agreeing /\ Obeyed
    BY <1>2, <1>4, <1>10 DEF Agreeing, Inbound, Outbound
  <2>2. Obeyed'
    BY <1>1, <1>6, <2>1 DEF Obeyed
  <2>3. Agreeing'
    BY <1>1, <1>2, <1>8, <2>2 DEF Agreeing
  <2> QED
    BY <1>10, <2>3, FramesOnly
<1> QED
  BY <1>3, <1>9, <1>10

\* No speed tried was the device's when the next one is tried, and one is left.
LEMMA QuietInvProbeClose ==
  ASSUME Reliable, QuietInv, LineInv', ProbeClose
  PROVE  QuietInv'
<1>1. Probing /\ k \in Nat
  BY DEF QuietInv, ProbeClose, Agreeing, LineInv, FdInv
<1>2. dev.baud \in Settable /\ ttyBaud # dev.baud /\ k \in 1..Len(Speeds)
  BY <1>1 DEF Probing, Reliable, ProbeClose
<1>3. Speeds[k] # dev.baud
  BY <1>1, <1>2 DEF Probing, ProbeClose
<1>4. Len(Speeds) \in Nat
  BY DriverAssumption
<1>5. \A i \in 1..k : Speeds[i] # dev.baud
  BY <1>1, <1>2, <1>3, <1>4 DEF Probing
<1>6. k < Len(Speeds)
  <2>1. PICK i \in 1..Len(Speeds) : Speeds[i] = dev.baud
    BY <1>1 DEF Probing, Reliable
  <2> QED
    BY <1>2, <1>4, <1>5, <2>1
<1>7. /\ pc' = "open" /\ k' = k + 1 /\ ttyBaud' = ttyBaud
      /\ UNCHANGED <<dev, call, fd, newFd, addr, buf, done>>
  BY <1>6 DEF ProbeClose, Close
<1>8. k' \in 1..Len(Speeds) /\ k' - 1 = k /\ k' > 0 /\ k' # 0
  BY <1>1, <1>4, <1>6, <1>7
<1>9. Probing'
  BY <1>1, <1>5, <1>7, <1>8 DEF Probing
<1> QED
  BY <1>7, <1>8, <1>9 DEF QuietInv, AnswerIsToTheCall

LEMMA QuietInvNext ==
  ASSUME Reliable
  PROVE  QuietInv /\ [Next]_vars => QuietInv'
<1> SUFFICES ASSUME QuietInv, [Next]_vars PROVE QuietInv'
  OBVIOUS
<1>a. LineInv /\ LineInv' /\ FdInv /\ FdInv' /\ k \in Nat /\ Faults = {}
  BY LineInvNext DEF QuietInv, Reliable, LineInv, FdInv
<1>1. CASE ProbeOpen
  <2>1. Probing /\ k > 0
    BY <1>1, <1>a DEF ProbeOpen, QuietInv, Agreeing
  <2>2. /\ pc' = "send" /\ ttyBaud' = IF Speeds[k] \in Settable THEN Speeds[k] ELSE ttyBaud
        /\ call' = GetAddr /\ UNCHANGED <<dev, k, newFd, addr, buf, done>>
    BY <1>1, <1>a DEF ProbeOpen, SerialInit
  <2>3. Probing'
    BY <2>1, <2>2 DEF Probing
  <2> QED
    BY <1>a, <2>1, <2>2, <2>3 DEF QuietInv, AnswerIsToTheCall, GetAddr
<1>2. CASE Send
  <2>1. fds = {3}
    BY <1>2, <1>a DEF Send, QuietInv, Agreeing, FdInv
  <2>2. /\ Outbound'
        /\ pc = "send" /\ pc' = "recv"
        /\ UNCHANGED <<fds, ttyBaud, dev, k, call, fd, addr, done>>
        /\ DOMAIN buf = Place => DOMAIN buf' = Place
        /\ buf["probe"] = Junk => buf'["probe"] = Junk
    BY <1>2, <1>a, <2>1, SentIsOutbound
  <2>3. ~Silent' /\ ~Inbound' /\ ~Arrived' /\ OwnReply' /\ OwnFrame'
    BY <2>2 DEF Outbound, Silent, Inbound, Arrived, OwnReply, OwnFrame
  <2>4. k > 0 => Probing'
    BY <2>2, <2>3 DEF QuietInv, Probing
  <2>5. k = 0 => Agreeing'
    BY <2>2, <2>3 DEF QuietInv, Agreeing
  <2> QED
    BY <1>a, <2>2, <2>4, <2>5 DEF QuietInv, AnswerIsToTheCall
<1>3. CASE Receive
  BY <1>3, <1>a, QuietInvReceiveProbe, QuietInvReceiveCall
<1>4. CASE ProbeClose
  BY <1>4, <1>a, QuietInvProbeClose
<1>5. CASE Drain
  <2>1. UNCHANGED <<fds, ttyBaud, dev, k, call, addr, buf, done>>
    BY <1>5 DEF Drain
  <2>2. Agreeing /\ k = 0
    BY <1>5, <1>a DEF Drain, FdInv, QuietInv
  <2>3. Agreeing'
    BY <1>5, <2>1, <2>2 DEF Drain, Agreeing
  <2> QED
    BY <1>a, <2>1, <2>2, <2>3 DEF QuietInv, AnswerIsToTheCall
<1>6. CASE CloseOld
  <2>1. UNCHANGED <<ttyBaud, dev, k, call, addr, buf, done>>
    BY <1>6 DEF CloseOld, Close
  <2>2. Agreeing /\ k = 0
    BY <1>6, <1>a DEF CloseOld, FdInv, QuietInv
  <2>3. Agreeing'
    BY <1>6, <2>1, <2>2 DEF CloseOld, Agreeing
  <2> QED
    BY <1>a, <2>1, <2>2, <2>3 DEF QuietInv, AnswerIsToTheCall
<1>7. CASE Reopen
  <2>1. Agreeing /\ k = 0 /\ call.val \in Settable
    BY <1>7, <1>a DEF Reopen, FdInv, QuietInv, Agreeing
  <2>2. /\ pc' = "drain_new" /\ ttyBaud' = call.val
        /\ UNCHANGED <<dev, k, call, addr, buf, done>>
    BY <1>7, <1>a, <2>1 DEF Reopen, SerialInit
  <2>3. Agreeing'
    BY <1>7, <2>1, <2>2 DEF Reopen, Agreeing
  <2> QED
    BY <1>a, <2>1, <2>2, <2>3 DEF QuietInv, AnswerIsToTheCall
<1>8. CASE FlushOld
  <2>1. UNCHANGED <<fds, ttyBaud, dev, k, call, addr, buf, done>> /\ pc' = "idle"
    BY <1>8 DEF FlushOld
  <2>2. Agreeing /\ k = 0 /\ fds = {3}
    BY <1>8, <1>a DEF FlushOld, FdInv, QuietInv
  <2>3. Agreeing'
    BY <1>8, <2>1, <2>2 DEF FlushOld, Agreeing
  <2> QED
    BY <1>a, <2>1, <2>2, <2>3 DEF QuietInv, AnswerIsToTheCall
<1>9. CASE \E c \in Calls : Call(c)
  <2>1. PICK c \in Calls : Call(c)
    BY <1>9
  <2>2. /\ pc = "idle" /\ pc' = "send" /\ call' = c
        /\ UNCHANGED <<fds, ttyBaud, dev, k, addr, buf, done>>
    BY <2>1 DEF Call, lineVars
  <2>3. Agreeing /\ k = 0
    BY <2>2, <1>a DEF FdInv, QuietInv
  <2>4. Agreeing'
    BY <2>2, <2>3 DEF Agreeing
  <2>5. /\ c.cmd = "SET_BTRATE" => c.val \in Settable
        /\ c.cmd = "SET_DEV_ADDR" => c.val \in Byte \ {Err}
    BY DEF Reliable
  <2> QED
    BY <1>a, <2>2, <2>3, <2>4, <2>5 DEF QuietInv, AnswerIsToTheCall
<1>10. CASE LineStep /\ UNCHANGED driverVars
  <2>1. CASE DevServe
    BY <1>10, <1>a, <2>1, QuietInvServe
  <2>2. CASE DevAutoOutput
    BY <1>a, <2>2 DEF DevAutoOutput, LineInv
  <2>3. CASE Deliver
    BY <1>10, <1>a, <2>3, QuietInvDeliver
  <2>4. CASE LoseRequest \/ LoseReply
    BY <1>a, <2>4 DEF LoseRequest, LoseReply
  <2> QED
    BY <1>10, <2>1, <2>2, <2>3, <2>4 DEF LineStep
<1>11. CASE UNCHANGED vars
  <2>1. UNCHANGED <<rx, toDev, toHost>> /\ UNCHANGED <<fds, ttyBaud, dev>>
        /\ UNCHANGED driverVars
    BY <1>11 DEF vars, lineVars
  <2>2. UNCHANGED <<pc, k, call, fd, newFd, addr, buf, done>>
    BY <2>1 DEF driverVars
  <2>3. /\ Silent' = Silent /\ Outbound' = Outbound /\ Inbound' = Inbound
        /\ Arrived' = Arrived /\ OwnReply' = OwnReply /\ OwnFrame' = OwnFrame
        /\ Obeyed' = Obeyed
    BY <2>1, <2>2 DEF Silent, Outbound, Inbound, Arrived, OwnReply, OwnFrame,
       Obeyed, Answer
  <2>4. k > 0 => Probing'
    BY <2>1, <2>2, <2>3 DEF QuietInv, Probing
  <2>5. k = 0 => Agreeing' \/ pc' = "failed"
    BY <2>1, <2>2, <2>3 DEF QuietInv, Agreeing
  <2> QED
    BY <1>a, <2>2, <2>4, <2>5 DEF QuietInv, AnswerIsToTheCall
<1> QED
  BY <1>1, <1>2, <1>3, <1>4, <1>5, <1>6, <1>7, <1>8, <1>9, <1>10, <1>11
     DEF Next, DriverStep

LEMMA QuietInvHolds ==
  ASSUME Reliable
  PROVE  Spec => []QuietInv
<1> QED
  BY QuietInvInit, QuietInvNext, PTL DEF Spec

-----------------------------------------------------------------------------
(* A request that succeeds has been answered, by the device's answer to it.  *)
THEOREM AnswersBelongToCalls ==
  ASSUME Reliable
  PROVE  Spec => []AnswerIsToTheCall
<1>1. QuietInv => AnswerIsToTheCall
  BY DEF QuietInv
<1> QED
  BY <1>1, QuietInvHolds, PTL

(* Between calls the driver talks to the address the device listens to.      *)
THEOREM AddressesAgree ==
  ASSUME Reliable
  PROVE  Spec => []AddressAgrees
<1>1. QuietInv => AddressAgrees
  BY DEF QuietInv, LineInv, FdInv, Agreeing, AddressAgrees
<1> QED
  BY <1>1, QuietInvHolds, PTL

LEMMA QuietIsUsable ==
  ASSUME QuietInv
  PROVE  PortUsable
<1> SUFFICES ASSUME pc = "idle" PROVE fd \in fds /\ ttyBaud = dev.baud
  BY DEF PortUsable
<1>1. k = 0 /\ fd = 3
  BY DEF QuietInv, LineInv, FdInv, Holding
<1>2. fds = {3} /\ ttyBaud = dev.baud
  BY <1>1 DEF QuietInv, Agreeing
<1> QED
  BY <1>1, <1>2

(* Between calls the client has an open port at the speed of the device.     *)
THEOREM PortsUsable ==
  ASSUME Reliable
  PROVE  Spec => []PortUsable
<1>1. QuietInv => PortUsable
  BY QuietIsUsable
<1> QED
  BY <1>1, QuietInvHolds, PTL

-----------------------------------------------------------------------------
(* The program of main.cpp.                                                  *)

MainCalls == {SetMode, SetType, ReadAll}

\* Whatever it ignores, the program is one of the driver's clients.
LEMMA MainIsClient ==
  ASSUME MainCalls \subseteq Calls
  PROVE  MainSpec => Init /\ [][Next]_vars
<1>1. MainInit => Init
  BY DEF MainInit
<1>2. [MainNext]_mainVars => [Next]_vars
  <2> SUFFICES ASSUME [MainNext]_mainVars PROVE [Next]_vars
    OBVIOUS
  <2>0. SetMode \in Calls /\ SetType \in Calls /\ ReadAll \in Calls
    BY DEF MainCalls
  <2>1. CASE MainCall
    <3>1. \E c \in {SetMode, SetType, ReadAll} : Call(c)
      BY <2>1 DEF MainCall
    <3> QED
      BY <2>0, <3>1 DEF Next
  <2>2. CASE MainExit
    BY <2>2 DEF MainExit
  <2>3. CASE (DriverStep \/ (LineStep /\ UNCHANGED driverVars)) /\ UNCHANGED stage
    BY <2>3 DEF Next
  <2>4. CASE UNCHANGED mainVars
    BY <2>4 DEF mainVars
  <2> QED
    BY <2>1, <2>2, <2>3, <2>4 DEF MainNext
<1> QED
  BY <1>1, <1>2, PTL DEF MainSpec

(* The measurements the program reads are answers to their own requests, and *)
(* no request finds anything left by those before, although the program      *)
(* looks at none of its calls' results (main.cpp:35-61).                     *)
THEOREM MainReadsFresh ==
  ASSUME Punctual, MainCalls \subseteq Calls
  PROVE  MainSpec => [](SampleIsFresh /\ NothingLeftBehind)
<1>1. LineInv => SampleIsFresh /\ NothingLeftBehind
  BY DEF LineInv, Silent, NothingLeftBehind
<1> QED
  BY <1>1, MainIsClient, LineInvInit, LineInvNext, PTL

(* When nothing goes wrong, every call of the program is answered by its own *)
(* answer, on a port and at an address that reach the device.                *)
THEOREM MainIsAnswered ==
  ASSUME Reliable, MainCalls \subseteq Calls
  PROVE  MainSpec => [](AnswerIsToTheCall /\ Connected)
<1>0. Punctual
  BY DEF Reliable
<1>1. QuietInv => AnswerIsToTheCall /\ AddressAgrees
  BY DEF QuietInv, LineInv, FdInv, Agreeing, AddressAgrees
<1>2. QuietInv => PortUsable
  BY QuietIsUsable
<1>3. QuietInv => AnswerIsToTheCall /\ Connected
  BY <1>1, <1>2 DEF Connected
<1> QED
  BY <1>0, <1>3, MainIsClient, QuietInvInit, QuietInvNext, PTL
=============================================================================
