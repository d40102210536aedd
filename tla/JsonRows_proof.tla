---------------------------- MODULE JsonRows_proof ----------------------------
(***************************************************************************)
(* The pointers of JsonTree implement the rows of JsonLists, for any       *)
(* memory, any names and any calls.                                        *)
(***************************************************************************)
EXTENDS JsonRows, JsonTree_proof, Sums_proof, SequenceTheorems

-----------------------------------------------------------------------------
(* Changes of a sequence at one place.                                       *)

LEMMA PutAt ==
  ASSUME NEW S, NEW s \in Seq(S), NEW i \in 1..Len(s) + 1, NEW n \in S
  PROVE  LET t == Abstract!InsertAt(s, i, n) IN
         /\ t \in Seq(S) /\ Len(t) = Len(s) + 1
         /\ \A j \in 1..Len(s) + 1 :
              t[j] = IF j < i THEN s[j] ELSE IF j = i THEN n ELSE s[j - 1]
<1> DEFINE b == SubSeq(s, 1, i - 1)
           a == SubSeq(s, i, Len(s))
           m == <<n>>
<1>1. Len(s) \in Nat /\ \A j \in 1..Len(s) : s[j] \in S
  BY LenProperties, ElementOfSeq
<1>2. b \in Seq(S) /\ Len(b) = i - 1 /\ \A j \in 1..i - 1 : b[j] = s[j]
  BY <1>1, SubSeqProperties
<1>3. a \in Seq(S) /\ Len(a) = Len(s) - i + 1 /\ \A j \in 1..Len(s) - i + 1 : a[j] = s[i + j - 1]
  BY <1>1, SubSeqProperties
<1>4. m \in Seq(S) /\ Len(m) = 1 /\ m[1] = n
  OBVIOUS
<1> HIDE DEF a, b, m
<1> DEFINE bm == b \o m
<1>5. /\ bm \in Seq(S) /\ Len(bm) = i
      /\ \A j \in 1..i : bm[j] = IF j < i THEN s[j] ELSE n
  <2>1. /\ bm \in Seq(S) /\ Len(bm) = Len(b) + Len(m)
        /\ \A j \in 1..Len(b) + Len(m) :
             bm[j] = IF j <= Len(b) THEN b[j] ELSE m[j - Len(b)]
    BY <1>2, <1>4, ConcatProperties
  <2> HIDE DEF bm
  <2> QED
    BY <2>1, <1>1, <1>2, <1>4
<1> HIDE DEF bm
<1>6. /\ bm \o a \in Seq(S) /\ Len(bm \o a) = Len(bm) + Len(a)
      /\ \A j \in 1..Len(bm) + Len(a) :
           (bm \o a)[j] = IF j <= Len(bm) THEN bm[j] ELSE a[j - Len(bm)]
  BY <1>3, <1>5, ConcatProperties
<1> DEFINE t == bm \o a
<1>7. Abstract!InsertAt(s, i, n) = t
  BY DEF Abstract!InsertAt, a, b, m, bm
<1> HIDE DEF t
<1>8. Len(t) = Len(s) + 1 /\ t \in Seq(S)
  BY <1>1, <1>3, <1>5, <1>6 DEF t
<1>9. ASSUME NEW j \in 1..Len(s) + 1
      PROVE  t[j] = IF j < i THEN s[j] ELSE IF j = i THEN n ELSE s[j - 1]
  <2>1. t[j] = IF j <= i THEN bm[j] ELSE a[j - i]
    BY <1>1, <1>3, <1>5, <1>6 DEF t
  <2>2. CASE j <= i
    BY <2>1, <2>2, <1>1, <1>5
  <2>3. CASE j > i
    <3>1. j - i \in 1..Len(s) - i + 1 /\ i + (j - i) - 1 = j - 1
      BY <2>3, <1>1
    <3>2. a[j - i] = s[i + (j - i) - 1]
      BY <3>1, <1>3
    <3> QED
      BY <2>1, <2>3, <3>1, <3>2, <1>1
  <2> QED
    BY <2>2, <2>3, <1>1
<1> QED
  BY <1>7, <1>8, <1>9

LEMMA TakeAt ==
  ASSUME NEW S, NEW s \in Seq(S), NEW i \in 1..Len(s)
  PROVE  LET t == Abstract!RemoveAt(s, i) IN
         /\ t \in Seq(S) /\ Len(t) = Len(s) - 1
         /\ \A j \in 1..Len(s) - 1 : t[j] = IF j < i THEN s[j] ELSE s[j + 1]
<1> DEFINE b == SubSeq(s, 1, i - 1)
           a == SubSeq(s, i + 1, Len(s))
<1>1. Len(s) \in Nat /\ \A j \in 1..Len(s) : s[j] \in S
  BY LenProperties, ElementOfSeq
<1>2. b \in Seq(S) /\ Len(b) = i - 1 /\ \A j \in 1..i - 1 : b[j] = s[j]
  BY <1>1, SubSeqProperties
<1>3. a \in Seq(S) /\ Len(a) = Len(s) - i /\ \A j \in 1..Len(s) - i : a[j] = s[i + j]
  <2>1. /\ SubSeq(s, i + 1, Len(s)) \in Seq(S)
        /\ Len(SubSeq(s, i + 1, Len(s))) = IF i + 1 <= Len(s) THEN Len(s) - (i + 1) + 1 ELSE 0
        /\ \A j \in 1..Len(s) - (i + 1) + 1 : SubSeq(s, i + 1, Len(s))[j] = s[(i + 1) + j - 1]
    BY <1>1, SubSeqProperties
  <2> QED
    BY <2>1, <1>1
<1> HIDE DEF a, b
<1>4. /\ b \o a \in Seq(S) /\ Len(b \o a) = Len(b) + Len(a)
      /\ \A j \in 1..Len(b) + Len(a) : (b \o a)[j] = IF j <= Len(b) THEN b[j] ELSE a[j - Len(b)]
  BY <1>2, <1>3, ConcatProperties
<1> DEFINE t == b \o a
<1>5. Abstract!RemoveAt(s, i) = t
  BY DEF Abstract!RemoveAt, a, b
<1> HIDE DEF t
<1>6. Len(t) = Len(s) - 1 /\ t \in Seq(S)
  BY <1>1, <1>2, <1>3, <1>4 DEF t
<1>7. ASSUME NEW j \in 1..Len(s) - 1
      PROVE  t[j] = IF j < i THEN s[j] ELSE s[j + 1]
  <2>1. t[j] = IF j <= i - 1 THEN b[j] ELSE a[j - (i - 1)]
    BY <1>1, <1>2, <1>3, <1>4 DEF t
  <2>2. CASE j < i
    BY <2>1, <2>2, <1>1, <1>2
  <2>3. CASE j >= i
    <3>1. j - (i - 1) \in 1..Len(s) - i /\ i + (j - (i - 1)) = j + 1
      BY <2>3, <1>1
    <3> QED
      BY <2>1, <2>3, <3>1, <1>1, <1>3
  <2> QED
    BY <2>2, <2>3, <1>1
<1> QED
  BY <1>5, <1>6, <1>7

LEMMA ExchangeAt ==
  ASSUME NEW S, NEW s \in Seq(S), NEW i \in 1..Len(s), NEW n \in S
  PROVE  LET t == Abstract!ReplaceAt(s, i, n) IN
         /\ t \in Seq(S) /\ Len(t) = Len(s)
         /\ \A j \in 1..Len(s) : t[j] = IF j = i THEN n ELSE s[j]
BY ExceptSeq DEF Abstract!ReplaceAt

-----------------------------------------------------------------------------
(* The row of a list.                                                        *)

\* next leads from the first item through s, and no further.
IsRow(s, lv, first, nx) ==
  /\ s \in Seq(lv)
  /\ first = IF Len(s) = 0 THEN NULL ELSE s[1]
  /\ \A i \in 1..Len(s) : nx[s[i]] = IF i = Len(s) THEN NULL ELSE s[i + 1]

\* r has the rows of the lists ls.
Rowed(r, lv, ls, ch, nx) ==
  /\ r \in [Node -> Seq(Node)]
  /\ \A c \in ls : IsRow(r[c], lv, ch[c], nx)
  /\ \A c \in Node \ ls : r[c] = <<>>

\* The row of a whole list has its items and no others, each once, in an order
\* that prev has as well.
LEMMA RowOwned ==
  ASSUME NEW lv, NEW ls, NEW nx, NEW pv, NEW ch, NEW ow,
         Shape(lv, ls, nx, pv, ch, ow), NEW c \in ls,
         NEW s, IsRow(s, lv, ch[c], nx)
  PROVE  /\ s \in Seq(lv) /\ Len(s) \in Nat
         /\ \A i \in 1..Len(s) : s[i] \in lv /\ ow[s[i]] = c
         /\ \A i \in 1..Len(s) : i = 1 <=> s[i] = ch[c]
         /\ \A i \in 2..Len(s) : pv[s[i]] = s[i - 1]
<1> USE DEF Shape, Typed, MaybeNode
<1>0. NULL \notin Node /\ c # NULL /\ lv \subseteq Node
  BY JsonTreeAssumption
<1>1. s \in Seq(lv) /\ Len(s) \in Nat /\ \A i \in 1..Len(s) : s[i] \in lv
  BY LenProperties, ElementOfSeq DEF IsRow
<1>2. \A i \in 1..Len(s) : ow[s[i]] = c
  <2> DEFINE T == {k \in Nat : k + 1 <= Len(s) => ow[s[k + 1]] = c}
  <2>1. 0 \in T
    BY <1>0, <1>1 DEF Headed, IsRow
  <2>2. ASSUME NEW k \in Nat, k \in T PROVE k + 1 \in T
    <3> SUFFICES ASSUME k + 2 <= Len(s) PROVE ow[s[k + 2]] = c
      BY <2>2
    <3>1. ow[s[k + 1]] = c /\ k + 1 \in 1..Len(s) /\ k + 1 # Len(s)
      BY <2>2, <1>1
    <3>2. nx[s[k + 1]] = s[k + 2] /\ s[k + 1] \in lv /\ s[k + 2] \in lv
      BY <3>1, <1>1 DEF IsRow
    <3> QED
      BY <3>1, <3>2, <1>0 DEF Linked
  <2> HIDE DEF T
  <2>3. Nat \subseteq T
    BY <2>1, <2>2, NatSetInduction
  <2> SUFFICES ASSUME NEW i \in 1..Len(s) PROVE ow[s[i]] = c
    OBVIOUS
  <2>4. i - 1 \in T /\ i - 1 \in Nat /\ (i - 1) + 1 = i /\ i <= Len(s)
    BY <2>3, <1>1
  <2> QED
    BY <2>4 DEF T
<1>3. ASSUME NEW i \in 2..Len(s) PROVE pv[s[i]] = s[i - 1] /\ s[i] # ch[c]
  <2>1. i - 1 \in 1..Len(s) /\ i - 1 # Len(s) /\ (i - 1) + 1 = i /\ i \in 1..Len(s)
    BY <1>1
  <2>2. nx[s[i - 1]] = s[i]
    BY <2>1 DEF IsRow
  <2>3. s[i - 1] \in lv /\ s[i] \in lv /\ ow[s[i - 1]] = c
    BY <2>1, <1>1, <1>2
  <2> QED
    BY <2>2, <2>3, <1>0 DEF Linked
<1>4. ASSUME NEW i \in 1..Len(s) PROVE i = 1 <=> s[i] = ch[c]
  <2>1. CASE i = 1
    BY <2>1, <1>1 DEF IsRow
  <2>2. CASE i # 1
    <3>1. i \in 2..Len(s)
      BY <2>2, <1>1
    <3> QED
      BY <2>2, <3>1, <1>3
  <2> QED
    BY <2>1, <2>2
<1> QED
  BY <1>1, <1>2, <1>3, <1>4

LEMMA RowOnce ==
  ASSUME NEW lv, NEW ls, NEW nx, NEW pv, NEW ch, NEW ow,
         Shape(lv, ls, nx, pv, ch, ow), NEW c \in ls,
         NEW s, IsRow(s, lv, ch[c], nx)
  PROVE  /\ \A m \in lv : ow[m] = c => \E i \in 1..Len(s) : s[i] = m
         /\ \A i, j \in 1..Len(s) : s[i] = s[j] => i = j
<1>0. /\ s \in Seq(lv) /\ Len(s) \in Nat
      /\ \A i \in 1..Len(s) : s[i] \in lv /\ ow[s[i]] = c
      /\ \A i \in 1..Len(s) : i = 1 <=> s[i] = ch[c]
      /\ \A i \in 2..Len(s) : pv[s[i]] = s[i - 1]
  BY RowOwned
<1>1. ASSUME NEW m \in lv, ow[m] = c PROVE \E i \in 1..Len(s) : s[i] = m
  <2> DEFINE S == {s[i] : i \in 1..Len(s)}
  <2>1. S \in SUBSET lv
    BY <1>0
  <2>2. Len(s) # 0
    <3> SUFFICES ASSUME Len(s) = 0 PROVE FALSE
      OBVIOUS
    <3>1. ch[c] = NULL /\ c # NULL /\ NULL \notin lv
      BY JsonTreeAssumption DEF IsRow, Shape, Typed
    <3> QED
      BY <1>1, <3>1 DEF Shape, Linked
  <2>3. ch[c] \in S
    <3>1. 1 \in 1..Len(s)
      BY <2>2, <1>0
    <3> QED
      BY <3>1, <1>0
  <2>4. Closed(S, nx)
    <3> SUFFICES ASSUME NEW i \in 1..Len(s) PROVE nx[s[i]] \in S \cup {NULL}
      BY DEF Closed
    <3>1. nx[s[i]] = IF i = Len(s) THEN NULL ELSE s[i + 1]
      BY DEF IsRow
    <3>2. i # Len(s) => i + 1 \in 1..Len(s)
      BY <1>0
    <3> QED
      BY <3>1, <3>2
  <2>5. m \in S
    <3> HIDE DEF S
    <3> QED
      BY <1>1, <2>1, <2>3, <2>4 DEF Shape, Reached
  <2> QED
    BY <2>5
<1>2. \A i, j \in 1..Len(s) : s[i] = s[j] => i = j
  <2> DEFINE T == {k \in Nat : \A j \in 1..Len(s) :
                     k + 1 <= Len(s) /\ s[k + 1] = s[j] => j = k + 1}
  <2>1. 0 \in T
    BY <1>0
  <2>2. ASSUME NEW k \in Nat, k \in T PROVE k + 1 \in T
    <3> SUFFICES ASSUME NEW j \in 1..Len(s), k + 2 <= Len(s), s[k + 2] = s[j]
                 PROVE  j = k + 2
      OBVIOUS
    <3>1. k + 2 \in 2..Len(s) /\ k + 2 \in 1..Len(s) /\ (k + 2) - 1 = k + 1 /\ k + 2 # 1
      BY <1>0
    <3>2. j # 1
      BY <3>1, <1>0
    <3>3. j \in 2..Len(s) /\ j - 1 \in 1..Len(s)
      BY <3>2, <1>0
    <3>4. s[k + 1] = s[j - 1]
      BY <3>1, <3>3, <1>0
    <3>5. j - 1 = k + 1
      BY <2>2, <3>1, <3>3, <3>4, <1>0
    <3> QED
      BY <3>5, <1>0
  <2> HIDE DEF T
  <2>3. Nat \subseteq T
    BY <2>1, <2>2, NatSetInduction
  <2> SUFFICES ASSUME NEW i \in 1..Len(s), NEW j \in 1..Len(s), s[i] = s[j] PROVE i = j
    OBVIOUS
  <2>4. i - 1 \in T /\ i - 1 \in Nat /\ (i - 1) + 1 = i /\ i <= Len(s)
    BY <2>3, <1>0
  <2> QED
    BY <2>4 DEF T
<1> QED
  BY <1>1, <1>2

\* prev of the first item is the last.
LEMMA RowLast ==
  ASSUME NEW lv, NEW ls, NEW nx, NEW pv, NEW ch, NEW ow,
         Shape(lv, ls, nx, pv, ch, ow), NEW c \in ls,
         NEW s, IsRow(s, lv, ch[c], nx), Len(s) # 0
  PROVE  s[1] = ch[c] /\ pv[s[1]] = s[Len(s)]
<1>0. /\ s \in Seq(lv) /\ Len(s) \in Nat
      /\ \A i \in 1..Len(s) : s[i] \in lv /\ ow[s[i]] = c
      /\ \A i \in 1..Len(s) : i = 1 <=> s[i] = ch[c]
  BY RowOwned
<1>1. 1 \in 1..Len(s) /\ s[1] = ch[c] /\ c # NULL /\ NULL \notin lv
  BY <1>0, JsonTreeAssumption DEF Shape, Typed
<1>2. pv[s[1]] \in lv /\ ow[pv[s[1]]] = c /\ nx[pv[s[1]]] = NULL
  BY <1>0, <1>1 DEF Shape, Linked
<1>3. PICK j \in 1..Len(s) : s[j] = pv[s[1]]
  BY <1>2, RowOnce
<1>4. j = Len(s)
  <2>1. j # Len(s) => j + 1 \in 1..Len(s) /\ nx[s[j]] = s[j + 1]
    BY <1>0 DEF IsRow
  <2> QED
    BY <2>1, <1>0, <1>1, <1>2, <1>3
<1> QED
  BY <1>1, <1>3, <1>4

-----------------------------------------------------------------------------
(* Walking a list from its first item makes its row.                         *)

IsWalk(f, first, nx) ==
  f = [i \in 1..Cardinality(Node) |->
         IF i = 1 THEN first ELSE IF f[i - 1] = NULL THEN NULL ELSE nx[f[i - 1]]]

LEMMA WalkChosen ==
  ASSUME NEW first, NEW nx
  PROVE  Walk(first, nx) = CHOOSE f : IsWalk(f, first, nx)
BY DEF Walk, IsWalk

LEMMA WalkRow ==
  ASSUME NEW lv \in SUBSET Node, NEW first, NEW nx, NEW s, IsRow(s, lv, first, nx),
         \A i, j \in 1..Len(s) : s[i] = s[j] => i = j
  PROVE  LET met == Walk(first, nx) IN
         SubSeq(met, 1, Cardinality({i \in DOMAIN met : met[i] # NULL})) = s
<1> DEFINE N == Cardinality(Node)
           F == [i \in 1..N |-> IF i <= Len(s) THEN s[i] ELSE NULL]
<1>0. /\ s \in Seq(lv) /\ Len(s) \in Nat /\ \A i \in 1..Len(s) : s[i] \in Node
      /\ N \in Nat /\ NULL \notin Node
  BY MemoryAssumption, JsonTreeAssumption, FS_CardinalityType, LenProperties, ElementOfSeq
     DEF IsRow
<1> HIDE DEF N, F
<1>6. Cardinality(1..Len(s)) = Len(s)
  <2> DEFINE L == Len(s)
  <2>1. L \in Nat /\ 1 \in Int /\ L \in Int
    BY <1>0
  <2> HIDE DEF L
  <2>2. Cardinality(1..L) = IF 1 > L THEN 0 ELSE L - 1 + 1
    BY <2>1, FS_Interval
  <2>3. Cardinality(1..L) = L
    BY <2>1, <2>2
  <2> QED
    BY <2>3 DEF L
<1>1. Len(s) <= N
  <2> DEFINE g == [i \in 1..Len(s) |-> s[i]]
  <2>1. g \in Injection(1..Len(s), Node)
    BY <1>0 DEF Injection, IsInjective
  <2> HIDE DEF g
  <2>2. Cardinality(1..Len(s)) <= Cardinality(Node)
    BY <2>1, MemoryAssumption, FS_Injection
  <2> QED
    BY <2>2, <1>6 DEF N
<1> USE DEF F
<1>2. IsWalk(F, first, nx)
  <2>1. \A i \in 1..N : F[i] = IF i = 1 THEN first
                               ELSE IF F[i - 1] = NULL THEN NULL ELSE nx[F[i - 1]]
    <3> SUFFICES ASSUME NEW i \in 1..N
                 PROVE  F[i] = IF i = 1 THEN first
                               ELSE IF F[i - 1] = NULL THEN NULL ELSE nx[F[i - 1]]
      OBVIOUS
    <3>1. CASE i = 1
      BY <3>1, <1>0 DEF IsRow
    <3>2. CASE i # 1
      <4>1. i - 1 \in 1..N /\ (i - 1) + 1 = i
        BY <3>2, <1>0
      <4>2. CASE i - 1 <= Len(s)
        <5>1. i - 1 \in 1..Len(s)
          BY <4>1, <4>2, <1>0
        <5>2. /\ F[i - 1] = s[i - 1] /\ s[i - 1] # NULL
              /\ nx[s[i - 1]] = IF i - 1 = Len(s) THEN NULL ELSE s[i]
          BY <4>1, <5>1, <1>0 DEF IsRow
        <5>3. i - 1 = Len(s) <=> ~(i <= Len(s))
          BY <5>1, <1>0
        <5> QED
          BY <3>2, <5>2, <5>3
      <4>3. CASE ~(i - 1 <= Len(s))
        BY <3>2, <4>1, <4>3, <1>0
      <4> QED
        BY <4>2, <4>3
    <3> QED
      BY <3>1, <3>2
  <2>2. F = [i \in 1..N |-> F[i]]
    OBVIOUS
  <2> HIDE DEF F
  <2> QED
    BY <2>1, <2>2 DEF IsWalk, N
<1>3. ASSUME NEW f, IsWalk(f, first, nx) PROVE f = F
  <2>1. /\ DOMAIN f = 1..N /\ f = [i \in 1..N |-> f[i]]
        /\ \A i \in 1..N : f[i] = IF i = 1 THEN first
                                  ELSE IF f[i - 1] = NULL THEN NULL ELSE nx[f[i - 1]]
    BY <1>3 DEF IsWalk, N
  <2>2. \A i \in 1..N : F[i] = IF i = 1 THEN first
                               ELSE IF F[i - 1] = NULL THEN NULL ELSE nx[F[i - 1]]
    <3> HIDE DEF F
    <3> QED
      BY <1>2 DEF IsWalk, N
  <2> HIDE DEF F
  <2> DEFINE T == {k \in Nat : k + 1 <= N => f[k + 1] = F[k + 1]}
  <2>3. 0 \in T
    <3> SUFFICES ASSUME 1 <= N PROVE f[1] = F[1]
      OBVIOUS
    <3>1. 1 \in 1..N
      BY <1>0
    <3> QED
      BY <3>1, <2>1, <2>2
  <2>4. ASSUME NEW k \in Nat, k \in T PROVE k + 1 \in T
    <3> SUFFICES ASSUME k + 2 <= N PROVE f[k + 2] = F[k + 2]
      OBVIOUS
    <3>1. k + 2 \in 1..N /\ k + 2 # 1 /\ (k + 2) - 1 = k + 1 /\ k + 1 <= N
      BY <1>0
    <3> QED
      BY <3>1, <2>1, <2>2, <2>4
  <2> HIDE DEF T
  <2>5. Nat \subseteq T
    BY <2>3, <2>4, NatSetInduction
  <2>6. ASSUME NEW i \in 1..N PROVE f[i] = F[i]
    <3>1. i - 1 \in T /\ i - 1 \in Nat /\ (i - 1) + 1 = i /\ i <= N
      BY <2>5, <1>0
    <3> QED
      BY <3>1 DEF T
  <2>7. F = [i \in 1..N |-> F[i]]
    BY DEF F
  <2> QED
    BY <2>1, <2>6, <2>7
<1>4. Walk(first, nx) = F
  <2> HIDE DEF F
  <2> QED
    BY <1>2, <1>3, WalkChosen
<1>5. {i \in DOMAIN F : F[i] # NULL} = 1..Len(s)
  BY <1>0, <1>1
<1>7. SubSeq(F, 1, Len(s)) = s
  <2>1. \A i \in 1..Len(s) : F[i] = s[i] /\ F[i] \in lv
    BY <1>0, <1>1, ElementOfSeq
  <2> HIDE DEF F
  <2>2. /\ SubSeq(F, 1, Len(s)) \in Seq(lv) /\ Len(SubSeq(F, 1, Len(s))) = Len(s)
        /\ \A i \in 1..Len(s) : SubSeq(F, 1, Len(s))[i] = F[i]
    <3>1. /\ SubSeq(F, 1, Len(s)) \in Seq(lv)
          /\ Len(SubSeq(F, 1, Len(s))) = IF 1 <= Len(s) THEN Len(s) - 1 + 1 ELSE 0
          /\ \A i \in 1..Len(s) - 1 + 1 : SubSeq(F, 1, Len(s))[i] = F[1 + i - 1]
      BY <2>1, <1>0, SubSeqProperties
    <3> QED
      BY <3>1, <1>0
  <2> QED
    BY <2>1, <2>2, <1>0, SeqEqual
<1> HIDE DEF F
<1> QED
  BY <1>4, <1>5, <1>6, <1>7

\* Rows, of lists ls and their links.
RowsOf(ls, ch, nx) ==
  [c \in Node |-> IF c \in ls
     THEN LET met == Walk(ch[c], nx) IN
          SubSeq(met, 1, Cardinality({i \in DOMAIN met : met[i] # NULL}))
     ELSE <<>>]

\* It is any function that has the rows.
LEMMA RowsAre ==
  ASSUME NEW lv, NEW ls, NEW nx, NEW pv, NEW ch, NEW ow,
         Shape(lv, ls, nx, pv, ch, ow), NEW r, Rowed(r, lv, ls, ch, nx)
  PROVE  r = RowsOf(ls, ch, nx)
<1>1. ASSUME NEW c \in ls
      PROVE  LET met == Walk(ch[c], nx) IN
             SubSeq(met, 1, Cardinality({i \in DOMAIN met : met[i] # NULL})) = r[c]
  <2>1. IsRow(r[c], lv, ch[c], nx) /\ lv \in SUBSET Node
    BY DEF Rowed, Shape, Typed
  <2>2. \A i, j \in 1..Len(r[c]) : r[c][i] = r[c][j] => i = j
    BY <2>1, RowOnce
  <2> QED
    BY <2>1, <2>2, WalkRow
<1>2. \A c \in Node \ ls : r[c] = <<>>
  BY DEF Rowed
<1>3. r = [c \in Node |-> r[c]]
  BY DEF Rowed
<1> QED
  BY <1>1, <1>2, <1>3 DEF RowsOf

-----------------------------------------------------------------------------
(* What a change of next does to a row.                                      *)

LEMMA RowLen ==
  ASSUME NEW lv, NEW first, NEW nx, NEW s, IsRow(s, lv, first, nx)
  PROVE  s \in Seq(lv) /\ Len(s) \in Nat /\ \A j \in 1..Len(s) : s[j] \in lv
BY LenProperties, ElementOfSeq DEF IsRow

\* n before place i.
LEMMA RowPut ==
  ASSUME NEW lv, NEW first, NEW nx, NEW s, IsRow(s, lv, first, nx),
         NEW n \in lv, NEW i \in 1..Len(s) + 1, NEW first2, NEW nx2,
         first2 = IF i = 1 THEN n ELSE first,
         nx2[n] = IF i = Len(s) + 1 THEN NULL ELSE s[i],
         i # 1 => nx2[s[i - 1]] = n,
         \A j \in 1..Len(s) : j # i - 1 => nx2[s[j]] = nx[s[j]]
  PROVE  IsRow(Abstract!InsertAt(s, i, n), lv, first2, nx2)
<1> DEFINE t == Abstract!InsertAt(s, i, n)
<1>0. s \in Seq(lv) /\ Len(s) \in Nat
  BY RowLen
<1>1. /\ t \in Seq(lv) /\ Len(t) = Len(s) + 1
      /\ \A j \in 1..Len(s) + 1 :
           t[j] = IF j < i THEN s[j] ELSE IF j = i THEN n ELSE s[j - 1]
  BY <1>0, PutAt
<1> HIDE DEF t
<1>2. first2 = IF Len(t) = 0 THEN NULL ELSE t[1]
  <2>1. 1 \in 1..Len(s) + 1 /\ Len(t) # 0
    BY <1>0, <1>1
  <2>2. t[1] = IF i = 1 THEN n ELSE s[1]
    BY <1>0, <1>1, <2>1
  <2>3. i # 1 => Len(s) # 0
    BY <1>0
  <2> QED
    BY <2>1, <2>2, <2>3 DEF IsRow
<1>3. ASSUME NEW j \in 1..Len(t)
      PROVE  nx2[t[j]] = IF j = Len(t) THEN NULL ELSE t[j + 1]
  <2>0. j \in 1..Len(s) + 1 /\ (j # Len(t) => j + 1 \in 1..Len(s) + 1)
    BY <1>0, <1>1
  <2>1. CASE j < i - 1
    <3>1. j \in 1..Len(s) /\ j # i - 1 /\ j # Len(s) /\ j # Len(t) /\ j + 1 < i
      BY <2>1, <1>0, <1>1
    <3>2. t[j] = s[j] /\ t[j + 1] = s[j + 1]
      BY <2>0, <3>1, <1>0, <1>1
    <3> QED
      BY <3>1, <3>2 DEF IsRow
  <2>2. CASE j = i - 1
    <3>1. j < i /\ i # 1 /\ j + 1 = i /\ j # Len(t)
      BY <2>2, <2>0, <1>0, <1>1
    <3>2. t[j] = s[i - 1] /\ t[j + 1] = n
      BY <2>0, <2>2, <3>1, <1>1
    <3> QED
      BY <3>1, <3>2
  <2>3. CASE j = i
    <3>1. t[j] = n
      BY <2>0, <2>3, <1>0, <1>1
    <3>2. j # Len(t) => t[j + 1] = s[i] /\ i # Len(s) + 1
      BY <2>0, <2>3, <1>0, <1>1
    <3> QED
      BY <2>3, <3>1, <3>2, <1>1
  <2>4. CASE j > i
    <3>1. j - 1 \in 1..Len(s) /\ j - 1 # i - 1 /\ (j - 1) + 1 = j
          /\ ~(j < i) /\ j # i /\ ~(j + 1 < i) /\ j + 1 # i /\ (j + 1) - 1 = j
      BY <2>0, <2>4, <1>0
    <3>2. t[j] = s[j - 1] /\ (j # Len(t) => t[j + 1] = s[j])
      BY <2>0, <3>1, <1>1
    <3>3. j - 1 = Len(s) <=> j = Len(t)
      BY <2>0, <1>0, <1>1
    <3>4. nx2[s[j - 1]] = IF j - 1 = Len(s) THEN NULL ELSE s[(j - 1) + 1]
      BY <3>1 DEF IsRow
    <3> QED
      BY <3>1, <3>2, <3>3, <3>4
  <2> QED
    BY <2>1, <2>2, <2>3, <2>4, <2>0, <1>0
<1> QED
  BY <1>1, <1>2, <1>3 DEF IsRow, t

\* Without place i.
LEMMA RowTake ==
  ASSUME NEW lv, NEW first, NEW nx, NEW s, IsRow(s, lv, first, nx),
         NEW i \in 1..Len(s), NEW first2, NEW nx2,
         first2 = IF i = 1 THEN nx[s[1]] ELSE first,
         i # 1 => nx2[s[i - 1]] = nx[s[i]],
         \A j \in 1..Len(s) : j # i - 1 /\ j # i => nx2[s[j]] = nx[s[j]]
  PROVE  IsRow(Abstract!RemoveAt(s, i), lv, first2, nx2)
<1> DEFINE t == Abstract!RemoveAt(s, i)
<1>0. s \in Seq(lv) /\ Len(s) \in Nat
  BY RowLen
<1>1. /\ t \in Seq(lv) /\ Len(t) = Len(s) - 1
      /\ \A j \in 1..Len(s) - 1 : t[j] = IF j < i THEN s[j] ELSE s[j + 1]
  BY <1>0, TakeAt
<1> HIDE DEF t
<1>2. first2 = IF Len(t) = 0 THEN NULL ELSE t[1]
  <2>1. Len(t) # 0 => 1 \in 1..Len(s) - 1
    BY <1>0, <1>1
  <2>2. Len(t) # 0 => t[1] = IF i = 1 THEN s[1 + 1] ELSE s[1]
    BY <2>1, <1>0, <1>1
  <2>3. 1 \in 1..Len(s) /\ (Len(t) = 0 <=> 1 = Len(s)) /\ (Len(t) = 0 => i = 1) /\ Len(s) # 0
    BY <1>0, <1>1
  <2>4. nx[s[1]] = IF 1 = Len(s) THEN NULL ELSE s[1 + 1]
    BY <2>3 DEF IsRow
  <2>5. first = s[1]
    BY <2>3 DEF IsRow
  <2> QED
    BY <2>2, <2>3, <2>4, <2>5
<1>3. ASSUME NEW j \in 1..Len(t)
      PROVE  nx2[t[j]] = IF j = Len(t) THEN NULL ELSE t[j + 1]
  <2>0. /\ j \in 1..Len(s) - 1 /\ j \in 1..Len(s) /\ j + 1 \in 1..Len(s)
        /\ (j # Len(t) => j + 1 \in 1..Len(s) - 1)
        /\ (j = Len(t) <=> j + 1 = Len(s))
    BY <1>0, <1>1
  <2>1. CASE j < i - 1
    <3>1. j # i - 1 /\ j # i /\ j # Len(s) /\ j # Len(t) /\ j < i /\ j + 1 < i
      BY <2>1, <1>0, <1>1
    <3>2. t[j] = s[j] /\ t[j + 1] = s[j + 1]
      BY <2>0, <3>1, <1>1
    <3> QED
      BY <2>0, <3>1, <3>2 DEF IsRow
  <2>2. CASE j = i - 1
    <3>1. j < i /\ i # 1 /\ i = j + 1 /\ ~(j + 1 < i)
      BY <2>2, <2>0
    <3>2. t[j] = s[i - 1] /\ (j # Len(t) => t[j + 1] = s[(j + 1) + 1])
      BY <2>0, <2>2, <3>1, <1>1
    <3>3. nx[s[j + 1]] = IF j + 1 = Len(s) THEN NULL ELSE s[(j + 1) + 1]
      BY <2>0 DEF IsRow
    <3> QED
      BY <2>0, <3>1, <3>2, <3>3
  <2>3. CASE j >= i
    <3>1. ~(j < i) /\ ~(j + 1 < i) /\ j + 1 # i /\ j + 1 # i - 1
      BY <2>3, <2>0
    <3>2. t[j] = s[j + 1] /\ (j # Len(t) => t[j + 1] = s[(j + 1) + 1])
      BY <2>0, <3>1, <1>1
    <3>3. nx[s[j + 1]] = IF j + 1 = Len(s) THEN NULL ELSE s[(j + 1) + 1]
      BY <2>0 DEF IsRow
    <3> QED
      BY <2>0, <3>1, <3>2, <3>3
  <2> QED
    BY <2>1, <2>2, <2>3, <2>0, <1>0
<1> QED
  BY <1>1, <1>2, <1>3 DEF IsRow, t

\* n at place i.
LEMMA RowExchange ==
  ASSUME NEW lv, NEW first, NEW nx, NEW s, IsRow(s, lv, first, nx),
         NEW n \in lv, NEW i \in 1..Len(s), NEW first2, NEW nx2,
         first2 = IF i = 1 THEN n ELSE first,
         nx2[n] = nx[s[i]],
         i # 1 => nx2[s[i - 1]] = n,
         \A j \in 1..Len(s) : j # i - 1 /\ j # i => nx2[s[j]] = nx[s[j]]
  PROVE  IsRow(Abstract!ReplaceAt(s, i, n), lv, first2, nx2)
<1> DEFINE t == Abstract!ReplaceAt(s, i, n)
<1>0. s \in Seq(lv) /\ Len(s) \in Nat
  BY RowLen
<1>1. /\ t \in Seq(lv) /\ Len(t) = Len(s)
      /\ \A j \in 1..Len(s) : t[j] = IF j = i THEN n ELSE s[j]
  BY <1>0, ExchangeAt
<1> HIDE DEF t
<1>2. first2 = IF Len(t) = 0 THEN NULL ELSE t[1]
  <2>1. 1 \in 1..Len(s) /\ Len(s) # 0
    BY <1>0
  <2> QED
    BY <2>1, <1>1 DEF IsRow
<1>3. ASSUME NEW j \in 1..Len(t)
      PROVE  nx2[t[j]] = IF j = Len(t) THEN NULL ELSE t[j + 1]
  <2>0. /\ j \in 1..Len(s) /\ (j # Len(s) => j + 1 \in 1..Len(s))
    BY <1>0, <1>1
  <2>1. nx[s[j]] = IF j = Len(s) THEN NULL ELSE s[j + 1]
    BY <2>0 DEF IsRow
  <2>2. CASE j = i - 1
    <3>1. j + 1 = i /\ i # 1 /\ j # i /\ j # Len(s)
      BY <2>0, <2>2, <1>0
    <3> QED
      BY <2>0, <2>2, <3>1, <1>1
  <2>3. CASE j = i
    <3>1. j # Len(s) => t[j + 1] = s[j + 1]
      <4>1. j + 1 # i
        BY <2>0, <2>3
      <4> QED
        BY <2>0, <4>1, <1>1
    <3> QED
      BY <2>0, <2>1, <2>3, <3>1, <1>1
  <2>4. CASE j # i - 1 /\ j # i
    <3>1. j + 1 # i
      BY <2>0, <2>4
    <3> QED
      BY <2>0, <2>1, <2>4, <3>1, <1>1
  <2> QED
    BY <2>2, <2>3, <2>4
<1> QED
  BY <1>1, <1>2, <1>3 DEF IsRow, t

\* Neither.
LEMMA RowSame ==
  ASSUME NEW lv, NEW first, NEW nx, NEW s, IsRow(s, lv, first, nx), NEW nx2,
         \A j \in 1..Len(s) : nx2[s[j]] = nx[s[j]], NEW lv2,
         \A j \in 1..Len(s) : s[j] \in lv2
  PROVE  IsRow(s, lv2, first, nx2)
<1>1. s \in Seq(lv2)
  BY SeqMonotonic DEF IsRow
<1> QED
  BY <1>1 DEF IsRow

-----------------------------------------------------------------------------
(* What the calls do to the rows.                                            *)

\* Only the list c changes.
OnlyIn(c, lv, nx, ch, ow, nx2, ch2) ==
  /\ SameChild(ch, ch2, c)
  /\ \A x \in lv : ow[x] # NULL /\ ow[x] # c => nx2[x] = nx[x]

LEMMA RowedOne ==
  ASSUME NEW lv, NEW ls, NEW nx, NEW pv, NEW ch, NEW ow,
         Shape(lv, ls, nx, pv, ch, ow), NEW r, Rowed(r, lv, ls, ch, nx),
         NEW c \in ls, NEW nx2, NEW ch2, OnlyIn(c, lv, nx, ch, ow, nx2, ch2),
         NEW t, IsRow(t, lv, ch2[c], nx2)
  PROVE  Rowed([r EXCEPT ![c] = t], lv, ls, ch2, nx2)
<1> USE DEF OnlyIn
<1>0. lv \subseteq Node /\ ls \subseteq lv /\ NULL \notin Node
  BY JsonTreeAssumption DEF Shape, Typed
<1>1. t \in Seq(Node)
  <2>1. t \in Seq(lv)
    BY DEF IsRow
  <2> QED
    BY <1>0, <2>1, SeqMonotonic
<1>2. ASSUME NEW d \in ls, d # c PROVE IsRow(r[d], lv, ch2[d], nx2)
  <2>1. IsRow(r[d], lv, ch[d], nx) /\ ch2[d] = ch[d]
    BY <1>0, <1>2 DEF Rowed, SameChild
  <2>2. \A j \in 1..Len(r[d]) : r[d][j] \in lv /\ ow[r[d][j]] = d
    BY <2>1, RowOwned
  <2>3. \A j \in 1..Len(r[d]) : nx2[r[d][j]] = nx[r[d][j]]
    BY <1>0, <1>2, <2>2
  <2> QED
    BY <2>1, <2>2, <2>3, RowSame
<1> QED
  BY <1>0, <1>1, <1>2 DEF Rowed

\* An item of a list is at one place of its row, and prev leads to the place
\* before, from the first place to the last.
LEMMA Placed ==
  ASSUME NEW lv, NEW ls, NEW nx, NEW pv, NEW ch, NEW ow,
         Shape(lv, ls, nx, pv, ch, ow), NEW c \in ls,
         NEW s, IsRow(s, lv, ch[c], nx)
  PROVE  /\ s \in Seq(lv) /\ Len(s) \in Nat
         /\ \A j \in 1..Len(s) : s[j] \in lv /\ ow[s[j]] = c
         /\ \A i \in 1..Len(s) :
              /\ i = 1 <=> s[i] = ch[c]
              /\ i # 1 => i - 1 \in 1..Len(s) /\ pv[s[i]] = s[i - 1]
              /\ \A j \in 1..Len(s) : s[j] = s[i] => j = i
              /\ i # 1 => \A j \in 1..Len(s) : s[j] = pv[s[i]] => j = i - 1
<1>1. /\ s \in Seq(lv) /\ Len(s) \in Nat
      /\ \A i \in 1..Len(s) : s[i] \in lv /\ ow[s[i]] = c
      /\ \A i \in 1..Len(s) : i = 1 <=> s[i] = ch[c]
      /\ \A i \in 2..Len(s) : pv[s[i]] = s[i - 1]
  BY RowOwned
<1>2. \A i, j \in 1..Len(s) : s[i] = s[j] => i = j
  BY RowOnce
<1>3. ASSUME NEW i \in 1..Len(s), i # 1
      PROVE  i - 1 \in 1..Len(s) /\ pv[s[i]] = s[i - 1]
  BY <1>1, <1>3
<1> QED
  BY <1>1, <1>2, <1>3

LEMMA RowedAppend ==
  ASSUME NEW lv, NEW ls, NEW nx, NEW pv, NEW ch, NEW ow,
         Shape(lv, ls, nx, pv, ch, ow), NEW r, Rowed(r, lv, ls, ch, nx),
         NEW c \in ls, NEW n \in lv, ow[n] = NULL, NEW nx2, NEW ch2,
         AppendChange(nx, pv, ch, c, n, nx2, ch2)
  PROVE  /\ Len(r[c]) \in Nat
         /\ Rowed([r EXCEPT ![c] = Abstract!InsertAt(r[c], Len(r[c]) + 1, n)],
                  lv, ls, ch2, nx2)
<1> DEFINE s == r[c]
           last == pv[ch[c]]
           i == Len(s) + 1
<1>0. /\ IsRow(s, lv, ch[c], nx) /\ NULL \notin Node /\ lv \subseteq Node
      /\ c \in Node /\ c # NULL
  BY JsonTreeAssumption DEF Rowed, Shape, Typed
<1>1. /\ s \in Seq(lv) /\ Len(s) \in Nat
      /\ \A j \in 1..Len(s) : s[j] \in lv /\ ow[s[j]] = c
  BY <1>0, Placed
<1> HIDE DEF s
<1>2. ch[c] = NULL <=> Len(s) = 0
  <2>1. Len(s) # 0 => 1 \in 1..Len(s)
    BY <1>1
  <2> QED
    BY <2>1, <1>0, <1>1 DEF IsRow
<1>3. Len(s) # 0 => Len(s) \in 1..Len(s) /\ s[1] = ch[c] /\ last = s[Len(s)]
  BY <1>0, <1>1, RowLast
<1>4. \A x \in lv : nx2[x] = IF ch[c] # NULL /\ x = last THEN n ELSE nx[x]
  BY <1>0 DEF AppendChange
<1>5. SameChild(ch, ch2, c) /\ ch2[c] = IF ch[c] = NULL THEN n ELSE ch[c]
  BY <1>0 DEF AppendChange, SameChild
<1>6. OnlyIn(c, lv, nx, ch, ow, nx2, ch2)
  BY <1>1, <1>2, <1>3, <1>4, <1>5 DEF OnlyIn
<1>7. IsRow(Abstract!InsertAt(s, i, n), lv, ch2[c], nx2)
  <2>1. i \in 1..Len(s) + 1 /\ (i = 1 <=> Len(s) = 0) /\ i - 1 = Len(s)
    BY <1>1
  <2>2. ch2[c] = IF i = 1 THEN n ELSE ch[c]
    BY <1>2, <1>5, <2>1
  <2>3. nx2[n] = IF i = Len(s) + 1 THEN NULL ELSE s[i]
    <3>1. nx[n] = NULL
      BY DEF Shape, Loose
    <3>2. ch[c] # NULL => n # last
      BY <1>0, <1>1, <1>2, <1>3
    <3> QED
      BY <3>1, <3>2, <1>4
  <2>4. i # 1 => nx2[s[i - 1]] = n
    BY <1>1, <1>2, <1>3, <1>4, <2>1
  <2>5. ASSUME NEW j \in 1..Len(s), j # i - 1 PROVE nx2[s[j]] = nx[s[j]]
    <3>1. \A a, b \in 1..Len(s) : s[a] = s[b] => a = b
      BY <1>0, RowOnce
    <3>2. Len(s) # 0 => s[j] # last
      BY <3>1, <2>1, <2>5, <1>3
    <3> QED
      BY <3>2, <1>1, <1>2, <1>4
  <2> HIDE DEF i
  <2> QED
    BY <1>0, <2>1, <2>2, <2>3, <2>4, <2>5, RowPut
<1>8. Rowed([r EXCEPT ![c] = Abstract!InsertAt(s, i, n)], lv, ls, ch2, nx2)
  BY <1>6, <1>7, RowedOne
<1> QED
  BY <1>1, <1>8 DEF s

LEMMA RowedInsert ==
  ASSUME NEW lv, NEW ls, NEW nx, NEW pv, NEW ch, NEW ow,
         Shape(lv, ls, nx, pv, ch, ow), NEW r, Rowed(r, lv, ls, ch, nx),
         NEW c \in ls, NEW n \in lv, ow[n] = NULL, NEW i \in 1..Len(r[c]),
         NEW nx2, NEW pv2, NEW ch2, NEW ow2,
         InsertChange(nx, pv, ch, ow, c, r[c][i], n, nx2, pv2, ch2, ow2)
  PROVE  Rowed([r EXCEPT ![c] = Abstract!InsertAt(r[c], i, n)], lv, ls, ch2, nx2)
<1> DEFINE s == r[c]
           after == s[i]
<1>0. /\ IsRow(s, lv, ch[c], nx) /\ NULL \notin Node /\ lv \subseteq Node
      /\ c \in Node /\ c # NULL
  BY JsonTreeAssumption DEF Rowed, Shape, Typed
<1>1. /\ s \in Seq(lv) /\ Len(s) \in Nat
      /\ \A j \in 1..Len(s) : s[j] \in lv /\ ow[s[j]] = c
      /\ \A k \in 1..Len(s) :
           /\ k = 1 <=> s[k] = ch[c]
           /\ k # 1 => k - 1 \in 1..Len(s) /\ pv[s[k]] = s[k - 1]
           /\ \A j \in 1..Len(s) : s[j] = s[k] => j = k
           /\ k # 1 => \A j \in 1..Len(s) : s[j] = pv[s[k]] => j = k - 1
  BY <1>0, Placed
<1>2. i \in 1..Len(s)
  OBVIOUS
<1>3. /\ \A x \in lv : nx2[x] = IF x = n THEN after
                                ELSE IF x = pv[after] /\ after # ch[c] THEN n ELSE nx[x]
      /\ \A x \in Node : ch2[x] = IF x = c /\ after = ch[c] THEN n ELSE ch[x]
  BY <1>0 DEF InsertChange
<1> HIDE DEF s
<1>4. after \in lv /\ ow[after] = c /\ (i = 1 <=> after = ch[c])
      /\ (i # 1 => i - 1 \in 1..Len(s) /\ pv[after] = s[i - 1])
      /\ (i # 1 => \A j \in 1..Len(s) : s[j] = pv[after] => j = i - 1)
  BY <1>1, <1>2
<1>5. SameChild(ch, ch2, c) /\ ch2[c] = IF i = 1 THEN n ELSE ch[c]
  BY <1>0, <1>3, <1>4 DEF SameChild
<1>6. OnlyIn(c, lv, nx, ch, ow, nx2, ch2)
  BY <1>1, <1>3, <1>4, <1>5 DEF OnlyIn
<1>7. IsRow(Abstract!InsertAt(s, i, n), lv, ch2[c], nx2)
  <2>1. i \in 1..Len(s) + 1 /\ i # Len(s) + 1
    BY <1>1, <1>2
  <2>2. nx2[n] = IF i = Len(s) + 1 THEN NULL ELSE s[i]
    BY <1>3, <2>1
  <2>3. i # 1 => nx2[s[i - 1]] = n
    BY <1>0, <1>1, <1>3, <1>4
  <2>4. \A j \in 1..Len(s) : j # i - 1 => nx2[s[j]] = nx[s[j]]
    BY <1>0, <1>1, <1>3, <1>4
  <2> QED
    BY <1>0, <1>5, <2>1, <2>2, <2>3, <2>4, RowPut
<1> DEFINE t == Abstract!InsertAt(s, i, n)
<1>8. IsRow(t, lv, ch2[c], nx2)
  BY <1>7
<1> HIDE DEF t
<1>9. Rowed([r EXCEPT ![c] = t], lv, ls, ch2, nx2)
  BY <1>6, <1>8, RowedOne
<1> QED
  BY <1>9 DEF s, t

LEMMA RowedDetach ==
  ASSUME NEW lv, NEW ls, NEW nx, NEW pv, NEW ch, NEW ow,
         Shape(lv, ls, nx, pv, ch, ow), NEW r, Rowed(r, lv, ls, ch, nx),
         NEW c \in ls, NEW i \in 1..Len(r[c]),
         NEW nx2, NEW pv2, NEW ch2, NEW ow2,
         DetachChange(nx, pv, ch, ow, c, r[c][i], nx2, pv2, ch2, ow2)
  PROVE  Rowed([r EXCEPT ![c] = Abstract!RemoveAt(r[c], i)], lv, ls, ch2, nx2)
<1> DEFINE s == r[c]
           item == s[i]
<1>0. /\ IsRow(s, lv, ch[c], nx) /\ NULL \notin Node /\ lv \subseteq Node
      /\ c \in Node /\ c # NULL
  BY JsonTreeAssumption DEF Rowed, Shape, Typed
<1>1. /\ s \in Seq(lv) /\ Len(s) \in Nat
      /\ \A j \in 1..Len(s) : s[j] \in lv /\ ow[s[j]] = c
      /\ \A k \in 1..Len(s) :
           /\ k = 1 <=> s[k] = ch[c]
           /\ k # 1 => k - 1 \in 1..Len(s) /\ pv[s[k]] = s[k - 1]
           /\ \A j \in 1..Len(s) : s[j] = s[k] => j = k
           /\ k # 1 => \A j \in 1..Len(s) : s[j] = pv[s[k]] => j = k - 1
  BY <1>0, Placed
<1>2. i \in 1..Len(s)
  OBVIOUS
<1>3. /\ \A x \in lv : nx2[x] = IF x = item THEN NULL
                                ELSE IF x = pv[item] /\ item # ch[c] THEN nx[item]
                                ELSE nx[x]
      /\ \A x \in Node : ch2[x] = IF x = c /\ item = ch[c] THEN nx[item] ELSE ch[x]
  BY <1>0 DEF DetachChange
<1> HIDE DEF s
<1>4. item \in lv /\ ow[item] = c /\ (i = 1 <=> item = ch[c])
      /\ (i # 1 => i - 1 \in 1..Len(s) /\ pv[item] = s[i - 1])
      /\ (i # 1 => \A j \in 1..Len(s) : s[j] = pv[item] => j = i - 1)
      /\ \A j \in 1..Len(s) : s[j] = item => j = i
  BY <1>1, <1>2
<1>5. SameChild(ch, ch2, c) /\ ch2[c] = IF i = 1 THEN nx[s[1]] ELSE ch[c]
  BY <1>0, <1>3, <1>4 DEF SameChild
<1>6. OnlyIn(c, lv, nx, ch, ow, nx2, ch2)
  BY <1>1, <1>3, <1>4, <1>5 DEF OnlyIn
<1>7. IsRow(Abstract!RemoveAt(s, i), lv, ch2[c], nx2)
  <2>1. i # 1 => nx2[s[i - 1]] = nx[s[i]]
    <3>1. i # 1 => i - 1 # i
      BY <1>1, <1>2
    <3> QED
      BY <3>1, <1>1, <1>3, <1>4
  <2>2. \A j \in 1..Len(s) : j # i - 1 /\ j # i => nx2[s[j]] = nx[s[j]]
    BY <1>1, <1>3, <1>4
  <2> QED
    BY <1>0, <1>2, <1>5, <2>1, <2>2, RowTake
<1> DEFINE t == Abstract!RemoveAt(s, i)
<1>8. IsRow(t, lv, ch2[c], nx2)
  BY <1>7
<1> HIDE DEF t
<1>9. Rowed([r EXCEPT ![c] = t], lv, ls, ch2, nx2)
  BY <1>6, <1>8, RowedOne
<1> QED
  BY <1>9 DEF s, t

LEMMA RowedReplace ==
  ASSUME NEW lv, NEW ls, NEW nx, NEW pv, NEW ch, NEW ow,
         Shape(lv, ls, nx, pv, ch, ow), NEW r, Rowed(r, lv, ls, ch, nx),
         NEW c \in ls, NEW n \in lv, ow[n] = NULL, NEW i \in 1..Len(r[c]),
         NEW nx2, NEW pv2, NEW ch2, NEW ow2,
         ReplaceChange(nx, pv, ch, ow, c, r[c][i], n, nx2, pv2, ch2, ow2)
  PROVE  Rowed([r EXCEPT ![c] = Abstract!ReplaceAt(r[c], i, n)], lv, ls, ch2, nx2)
<1> DEFINE s == r[c]
           item == s[i]
<1>0. /\ IsRow(s, lv, ch[c], nx) /\ NULL \notin Node /\ lv \subseteq Node
      /\ c \in Node /\ c # NULL
  BY JsonTreeAssumption DEF Rowed, Shape, Typed
<1>1. /\ s \in Seq(lv) /\ Len(s) \in Nat
      /\ \A j \in 1..Len(s) : s[j] \in lv /\ ow[s[j]] = c
      /\ \A k \in 1..Len(s) :
           /\ k = 1 <=> s[k] = ch[c]
           /\ k # 1 => k - 1 \in 1..Len(s) /\ pv[s[k]] = s[k - 1]
           /\ \A j \in 1..Len(s) : s[j] = s[k] => j = k
           /\ k # 1 => \A j \in 1..Len(s) : s[j] = pv[s[k]] => j = k - 1
  BY <1>0, Placed
<1>2. i \in 1..Len(s)
  OBVIOUS
<1>3. /\ \A x \in lv : nx2[x] = IF x = item THEN NULL
                                ELSE IF x = n THEN nx[item]
                                ELSE IF x = pv[item] /\ item # ch[c] THEN n ELSE nx[x]
      /\ \A x \in Node : ch2[x] = IF x = c /\ item = ch[c] THEN n ELSE ch[x]
  BY <1>0 DEF ReplaceChange
<1> HIDE DEF s
<1>4. item \in lv /\ ow[item] = c /\ (i = 1 <=> item = ch[c])
      /\ (i # 1 => i - 1 \in 1..Len(s) /\ pv[item] = s[i - 1])
      /\ (i # 1 => \A j \in 1..Len(s) : s[j] = pv[item] => j = i - 1)
      /\ (\A j \in 1..Len(s) : s[j] = item => j = i)
      /\ n # item /\ \A j \in 1..Len(s) : s[j] # n
  BY <1>0, <1>1, <1>2
<1>5. SameChild(ch, ch2, c) /\ ch2[c] = IF i = 1 THEN n ELSE ch[c]
  BY <1>0, <1>3, <1>4 DEF SameChild
<1>6. OnlyIn(c, lv, nx, ch, ow, nx2, ch2)
  BY <1>1, <1>3, <1>4, <1>5 DEF OnlyIn
<1>7. IsRow(Abstract!ReplaceAt(s, i, n), lv, ch2[c], nx2)
  <2>1. i # 1 => nx2[s[i - 1]] = n
    <3>1. i # 1 => i - 1 # i
      BY <1>1, <1>2
    <3> QED
      BY <3>1, <1>1, <1>3, <1>4
  <2>2. \A j \in 1..Len(s) : j # i - 1 /\ j # i => nx2[s[j]] = nx[s[j]]
    BY <1>1, <1>3, <1>4
  <2>3. nx2[n] = nx[s[i]]
    BY <1>3, <1>4
  <2> QED
    BY <1>0, <1>2, <1>5, <2>1, <2>2, <2>3, RowExchange
<1> DEFINE t == Abstract!ReplaceAt(s, i, n)
<1>8. IsRow(t, lv, ch2[c], nx2)
  BY <1>7
<1> HIDE DEF t
<1>9. Rowed([r EXCEPT ![c] = t], lv, ls, ch2, nx2)
  BY <1>6, <1>8, RowedOne
<1> QED
  BY <1>9 DEF s, t

LEMMA RowedClear ==
  ASSUME NEW lv, NEW ls, NEW nx, NEW pv, NEW ch, NEW ow,
         Shape(lv, ls, nx, pv, ch, ow), NEW r, Rowed(r, lv, ls, ch, nx),
         NEW F \in SUBSET lv, \A m \in lv : ow[m] # NULL => (m \in F <=> ow[m] \in F),
         NEW nx2, NEW ch2,
         \A x \in Node : nx2[x] = IF x \in F THEN NULL ELSE nx[x],
         \A x \in Node : ch2[x] = IF x \in F THEN NULL ELSE ch[x]
  PROVE  Rowed(Abstract!Without(r, F), lv \ F, ls \ F, ch2, nx2)
<1> DEFINE r2 == Abstract!Without(r, F)
<1>0. lv \subseteq Node /\ ls \subseteq lv /\ NULL \notin Node
  BY JsonTreeAssumption DEF Shape, Typed
<1>1. r2 = [c \in Node |-> IF c \in F THEN <<>> ELSE r[c]]
  BY DEF Abstract!Without
<1>2. r2 \in [Node -> Seq(Node)] /\ \A c \in Node \ (ls \ F) : r2[c] = <<>>
  BY <1>1, EmptySeq DEF Rowed
<1> HIDE DEF r2
<1>3. ASSUME NEW c \in ls \ F PROVE IsRow(r2[c], lv \ F, ch2[c], nx2)
  <2>1. IsRow(r[c], lv, ch[c], nx) /\ r2[c] = r[c] /\ ch2[c] = ch[c]
    BY <1>0, <1>1, <1>3 DEF Rowed
  <2>2. \A j \in 1..Len(r[c]) : r[c][j] \in lv /\ ow[r[c][j]] = c
    BY <2>1, RowOwned
  <2>3. \A j \in 1..Len(r[c]) : r[c][j] \in lv \ F /\ nx2[r[c][j]] = nx[r[c][j]]
    BY <2>2, <1>0
  <2> DEFINE s == r[c]
             first == ch[c]
             lv2 == lv \ F
  <2>4. /\ IsRow(s, lv, first, nx)
        /\ \A j \in 1..Len(s) : s[j] \in lv2
        /\ \A j \in 1..Len(s) : nx2[s[j]] = nx[s[j]]
    BY <2>1, <2>3
  <2>5. r2[c] = s /\ ch2[c] = first
    BY <2>1
  <2> HIDE DEF s, first, lv2
  <2>6. IsRow(s, lv2, first, nx2)
    BY <2>4, RowSame
  <2> QED
    BY <2>5, <2>6 DEF lv2
<1> QED
  BY <1>2, <1>3 DEF Rowed, r2

\* A new item has no row.
LEMMA RowedNew ==
  ASSUME NEW lv, NEW ls, NEW nx, NEW pv, NEW ch, NEW ow,
         Shape(lv, ls, nx, pv, ch, ow), NEW r, Rowed(r, lv, ls, ch, nx),
         NEW n \in Node \ lv, NEW ls2 \in SUBSET (ls \cup {n}), ls \subseteq ls2,
         NEW ch2, \A x \in Node \ {n} : ch2[x] = ch[x], n \in ls2 => ch2[n] = NULL
  PROVE  Rowed(r, lv \cup {n}, ls2, ch2, nx) /\ r[n] = <<>>
<1>0. lv \subseteq Node /\ ls \subseteq lv
  BY DEF Shape, Typed
<1>1. r[n] = <<>>
  BY <1>0 DEF Rowed
<1>2. ASSUME NEW c \in ls PROVE IsRow(r[c], lv \cup {n}, ch2[c], nx)
  <2> DEFINE s == r[c]
             first == ch[c]
             lv2 == lv \cup {n}
  <2>1. IsRow(s, lv, first, nx) /\ ch2[c] = first
    BY <1>0 DEF Rowed
  <2>2. \A j \in 1..Len(s) : s[j] \in lv2
    BY <2>1, RowLen
  <2> HIDE DEF s, first, lv2
  <2>3. IsRow(s, lv2, first, nx)
    BY <2>1, <2>2, RowSame
  <2> QED
    BY <2>1, <2>3 DEF s, lv2
<1>3. n \in ls2 => IsRow(r[n], lv \cup {n}, ch2[n], nx)
  BY <1>1, EmptySeq DEF IsRow
<1> QED
  BY <1>0, <1>1, <1>2, <1>3 DEF Rowed

\* What is in every set that holds n and, with an item, its row, is what
\* cJSON_Delete(n) frees.
BelowIn(lv, r, n) ==
  {x \in lv : \A S \in SUBSET lv :
     n \in S /\ (\A c \in S : Abstract!Range(r[c]) \subseteq S) => x \in S}

LEMMA BelowFreed ==
  ASSUME NEW lv, NEW ls, NEW nx, NEW pv, NEW ch, NEW ow, NEW rf,
         Shape(lv, ls, nx, pv, ch, ow), Followed(lv, ls, ch, rf),
         NEW r, Rowed(r, lv, ls, ch, nx), NEW n \in lv
  PROVE  BelowIn(lv, r, n) = Freed(n, nx, ch, rf)
<1> DEFINE F == Freed(n, nx, ch, rf)
           Holds(S) == n \in S /\ \A c \in S : Abstract!Range(r[c]) \subseteq S
<1>0. /\ F \subseteq lv /\ n \in F /\ ow[n] \notin F
      /\ \A m \in lv \ {n} : m \in F <=> ow[m] \in F
  BY FreedWhole
<1> HIDE DEF F
<1>1. lv \subseteq Node /\ ls \subseteq lv /\ NULL \notin Node
  BY JsonTreeAssumption DEF Shape, Typed
<1>2. \A c \in lv, m \in lv : m \in Abstract!Range(r[c]) <=> ow[m] = c
  <2> SUFFICES ASSUME NEW c \in lv, NEW m \in lv
               PROVE  m \in Abstract!Range(r[c]) <=> ow[m] = c
    OBVIOUS
  <2>1. CASE c \in ls
    <3> DEFINE s == r[c]
    <3>1. IsRow(s, lv, ch[c], nx)
      BY <2>1 DEF Rowed
    <3> HIDE DEF s
    <3>2. s \in Seq(lv) /\ \A i \in 1..Len(s) : s[i] \in lv /\ ow[s[i]] = c
      BY <2>1, <3>1, RowOwned
    <3>3. ow[m] = c => \E i \in 1..Len(s) : s[i] = m
      BY <2>1, <3>1, RowOnce
    <3>4. m \in Abstract!Range(s) <=> ow[m] = c
      BY <3>2, <3>3 DEF Abstract!Range
    <3> QED
      BY <3>4 DEF s
  <2>2. CASE c \notin ls
    <3>1. r[c] = <<>>
      BY <1>1, <2>2 DEF Rowed
    <3>2. Abstract!Range(<<>>) = {}
      BY DEF Abstract!Range
    <3>3. ow[m] # c
      BY <1>1, <2>2 DEF Shape, Linked
    <3> QED
      BY <3>1, <3>2, <3>3
  <2> QED
    BY <2>1, <2>2
<1>3. \A c \in lv : Abstract!Range(r[c]) \subseteq lv
  <2> SUFFICES ASSUME NEW c \in lv PROVE Abstract!Range(r[c]) \subseteq lv
    OBVIOUS
  <2>1. CASE c \in ls
    <3> DEFINE s == r[c]
    <3>1. IsRow(s, lv, ch[c], nx)
      BY <2>1 DEF Rowed
    <3> HIDE DEF s
    <3>2. Abstract!Range(s) \subseteq lv
      BY <3>1, RowLen DEF Abstract!Range
    <3> QED
      BY <3>2 DEF s
  <2>2. CASE c \notin ls
    <3>1. r[c] = <<>>
      BY <1>1, <2>2 DEF Rowed
    <3>2. Abstract!Range(<<>>) = {}
      BY DEF Abstract!Range
    <3> QED
      BY <3>1, <3>2
  <2> QED
    BY <2>1, <2>2
<1>4. Holds(F)
  <2> SUFFICES ASSUME NEW c \in F, NEW m \in Abstract!Range(r[c]) PROVE m \in F
    BY <1>0
  <2>1. m \in lv /\ ow[m] = c
    BY <1>0, <1>2, <1>3
  <2> QED
    BY <1>0, <2>1
<1>5. ASSUME NEW S \in SUBSET lv, Holds(S) PROVE F \subseteq S
  <2> SUFFICES ASSUME F \ S # {} PROVE FALSE
    OBVIOUS
  <2>1. PICK x \in F \ S : ow[x] \notin F \ S
    BY <1>0 DEF Shape, Grounded
  <2>2. x \in lv /\ x # n /\ ow[x] \in S
    BY <1>0, <1>5, <2>1
  <2>3. x \in Abstract!Range(r[ow[x]])
    BY <1>2, <2>2
  <2> QED
    BY <1>5, <2>1, <2>2, <2>3
<1>6. \A S \in SUBSET lv : Holds(S) => F \subseteq S
  BY <1>5
<1>7. F \in SUBSET lv
  BY <1>0
<1> HIDE DEF Holds
<1>8. {x \in lv : \A S \in SUBSET lv : Holds(S) => x \in S} = F
  BY <1>4, <1>6, <1>7
<1> QED
  BY <1>8 DEF Holds, F, BelowIn

-----------------------------------------------------------------------------
(* The invariant: the rows are those of whole lists.                         *)

RowsHold == Rowed(rows, live, Lists, child, next)
RInv == IInv /\ RowsHold

\* What a call must do: keep the rows, and be a step of the lists or none.
Follows == RowsHold' /\ [Abstract!Next]_(Abstract!vars)

LEMMA RowsBecome ==
  ASSUME Trees', rows' = Rows', NEW r, Rowed(r, live', Lists', child', next')
  PROVE  rows' = r /\ RowsHold'
<1>1. Shape(live', Lists', next', prev', child', owner')
  BY DEF Trees, Whole, Links
<1>2. r = RowsOf(Lists', child', next')
  BY <1>1, RowsAre
<1>3. Rows' = RowsOf(Lists', child', next')
  BY DEF Rows, Row, RowsOf
<1>4. rows' = r
  BY <1>2, <1>3
<1> QED
  BY <1>4 DEF RowsHold

\* The items in no row are those the caller holds.
LEMMA OwnRoots ==
  ASSUME Trees, RowsHold
  PROVE  Abstract!Own = Roots
<1>1. Shape(live, Lists, next, prev, child, owner) /\ Lists \subseteq live
  BY TreesShape DEF Lists
<1>2. ASSUME NEW n \in live, owner[n] = NULL, NEW c \in live PROVE n \notin Abstract!Range(rows[c])
  <2>1. CASE c \in Lists
    <3> DEFINE s == rows[c]
    <3>1. IsRow(s, live, child[c], next) /\ c # NULL
      BY <1>1, <2>1, JsonTreeAssumption DEF RowsHold, Rowed, Trees
    <3> HIDE DEF s
    <3>2. s \in Seq(live) /\ \A i \in 1..Len(s) : s[i] \in live /\ owner[s[i]] = c
      BY <1>1, <2>1, <3>1, RowOwned
    <3>3. n \notin Abstract!Range(s)
      BY <1>2, <3>1, <3>2 DEF Abstract!Range
    <3> QED
      BY <3>3 DEF s
  <2>2. CASE c \notin Lists
    <3>1. rows[c] = <<>>
      BY <2>2 DEF RowsHold, Rowed, Trees
    <3>2. Abstract!Range(<<>>) = {}
      BY DEF Abstract!Range
    <3> QED
      BY <3>1, <3>2
  <2> QED
    BY <2>1, <2>2
<1>3. ASSUME NEW n \in live, owner[n] # NULL PROVE \E c \in live : n \in Abstract!Range(rows[c])
  <2> DEFINE c == owner[n]
             s == rows[c]
  <2>1. c \in Lists
    BY <1>1, <1>3 DEF Shape, Linked
  <2>2. IsRow(s, live, child[c], next)
    BY <2>1 DEF RowsHold, Rowed
  <2>3. owner[n] = c
    OBVIOUS
  <2> HIDE DEF s, c
  <2>4. \E i \in 1..Len(s) : s[i] = n
    BY <1>1, <2>1, <2>2, <2>3, RowOnce
  <2>5. s \in Seq(live)
    BY <2>2, RowLen
  <2>6. n \in Abstract!Range(s)
    BY <2>4, <2>5 DEF Abstract!Range
  <2> QED
    BY <1>1, <2>1, <2>6 DEF s
<1> QED
  BY <1>2, <1>3 DEF Abstract!Own, Roots

LEMMA BelowSubtree ==
  ASSUME Trees, RowsHold, NEW n \in live
  PROVE  Abstract!Below(n) = Subtree(n)
<1>1. Shape(live, Lists, next, prev, child, owner) /\ Followed(live, Lists, child, ref)
  BY TreesShape DEF Trees
<1>2. Rowed(rows, live, Lists, child, next)
  BY DEF RowsHold
<1>3. BelowIn(live, rows, n) = Freed(n, next, child, ref)
  BY <1>1, <1>2, BelowFreed
<1>4. Abstract!Below(n) = BelowIn(live, rows, n)
  BY DEF Abstract!Below, BelowIn
<1> QED
  BY <1>3, <1>4 DEF Subtree

\* An item of a list has its place in the row.
LEMMA HasPlace ==
  ASSUME Trees, RowsHold, NEW c \in Lists, NEW item \in live, owner[item] = c
  PROVE  /\ c \in live
         /\ \E i \in 1..Len(rows[c]) : i \in DOMAIN rows[c] /\ rows[c][i] = item
<1> DEFINE s == rows[c]
<1>1. Shape(live, Lists, next, prev, child, owner) /\ IsRow(s, live, child[c], next)
  BY TreesShape DEF RowsHold, Rowed
<1> HIDE DEF s
<1>2. (\E i \in 1..Len(s) : s[i] = item) /\ s \in Seq(live)
  BY <1>1, RowOnce, RowLen
<1>3. \E i \in 1..Len(s) : i \in DOMAIN s /\ s[i] = item
  BY <1>2
<1> QED
  BY <1>3 DEF s, Lists

LEMMA NamesChange ==
  ASSUME Texts, NEW n
  PROVE  /\ name \in Abstract!Renamings(n)
         /\ \A k \in Name \cup {NULL} : [name EXCEPT ![n] = k] \in Abstract!Renamings(n)
<1>1. name \in [Node -> Name \cup {NULL}]
  BY DEF Texts, Accounted, Names
<1>2. ASSUME n \in Node PROVE name = [name EXCEPT ![n] = name[n]] /\ name[n] \in Name \cup {NULL}
  BY <1>1, <1>2
<1>3. n \notin Node => name = [name EXCEPT ![n] = NULL]
  BY <1>1
<1> QED
  BY <1>2, <1>3 DEF Abstract!Renamings

-----------------------------------------------------------------------------
(* Every call is a step of the lists, or none.                               *)

\* Calls that fail, and a call that replaces an item by itself.
LEMMA FollowsSame ==
  ASSUME RInv, rows' = Rows', UNCHANGED <<live, kind, ref, links, name>>
  PROVE  Follows
<1>1. Trees' /\ Lists' = Lists
  BY TreesSame DEF RInv, IInv, Sound, Lists
<1>2. Rowed(rows, live', Lists', child', next')
  BY <1>1 DEF RInv, RowsHold, links
<1>3. rows' = rows /\ RowsHold'
  BY <1>1, <1>2, RowsBecome
<1> QED
  BY <1>3 DEF Follows, Abstract!vars

LEMMA FollowsRename ==
  ASSUME RInv, rows' = Rows', NEW n \in Roots,
         UNCHANGED <<live, kind, ref, links>>, name' \in Abstract!Renamings(n)
  PROVE  Follows
<1>1. Trees' /\ Lists' = Lists
  BY TreesSame DEF RInv, IInv, Sound, Lists
<1>2. Rowed(rows, live', Lists', child', next')
  BY <1>1 DEF RInv, RowsHold, links
<1>3. rows' = rows /\ RowsHold'
  BY <1>1, <1>2, RowsBecome
<1>4. n \in Abstract!Own
  BY OwnRoots DEF RInv, IInv, Sound
<1>5. Abstract!Rename(n)
  BY <1>3 DEF Abstract!Rename
<1> QED
  BY <1>3, <1>4, <1>5 DEF Follows, Abstract!Next

\* A new item, alone.
LEMMA FollowsNew ==
  ASSUME RInv, rows' = Rows', Trees', NEW n \in Node \ live,
         live' = live \cup {n}, UNCHANGED <<next, name>>,
         Lists' \subseteq Lists \cup {n}, Lists \subseteq Lists',
         \A x \in Node \ {n} : child'[x] = child[x], n \in Lists' => child'[n] = NULL
  PROVE  Follows
<1> DEFINE ls2 == Lists'
           ch2 == child'
<1>1. Shape(live, Lists, next, prev, child, owner) /\ Rowed(rows, live, Lists, child, next)
  BY TreesShape DEF RInv, IInv, Sound, RowsHold
<1>2. /\ ls2 \in SUBSET (Lists \cup {n}) /\ Lists \subseteq ls2
      /\ \A x \in Node \ {n} : ch2[x] = child[x]
      /\ n \in ls2 => ch2[n] = NULL
  OBVIOUS
<1> HIDE DEF ls2, ch2
<1>3. Rowed(rows, live \cup {n}, ls2, ch2, next) /\ rows[n] = <<>>
  BY <1>1, <1>2, RowedNew
<1>4. Rowed(rows, live', Lists', child', next')
  BY <1>3 DEF ls2, ch2
<1>5. rows' = rows /\ RowsHold'
  BY <1>4, RowsBecome
<1>6. rows = [rows EXCEPT ![n] = <<>>]
  BY <1>1, <1>3 DEF Rowed
<1>7. Abstract!Range(<<>>) = {}
  BY DEF Abstract!Range
<1>8. Abstract!Make(n, <<>>)
  BY <1>5, <1>6, <1>7 DEF Abstract!Make
<1> QED
  BY <1>5, <1>8 DEF Follows, Abstract!Next

LEMMA FollowsCreate ==
  ASSUME RInv, rows' = Rows', NEW n \in Node \ live, NEW k \in Kind, Create(n, k)
  PROVE  Follows
<1>1. Trees' /\ live' = live \cup {n} /\ UNCHANGED <<next, child, ref, name>>
  BY TreesCreate DEF RInv, IInv, Sound, Create, links
<1>2. kind' = [kind EXCEPT ![n] = k] /\ kind \in [Node -> {"list", "text", "plain"}]
      /\ live \subseteq Node /\ child[n] = NULL
  BY TreesShape DEF RInv, IInv, Sound, Trees, Create, Shape, Clear
<1>3. Lists' \subseteq Lists \cup {n} /\ Lists \subseteq Lists'
  BY <1>1, <1>2 DEF Lists
<1> QED
  BY <1>1, <1>2, <1>3, FollowsNew

LEMMA FollowsAddReferenceFails ==
  ASSUME RInv, rows' = Rows', NEW r \in Node \ live, NEW n \in live,
         AddReferenceFails(r, n)
  PROVE  Follows
<1>1. Trees' /\ live' = live \cup {r} /\ UNCHANGED <<next, name>> /\ ref' = ref \cup {r}
  BY TreesAddReferenceFails DEF RInv, IInv, Sound, AddReferenceFails
<1>2. kind' = [kind EXCEPT ![r] = kind[n]] /\ kind \in [Node -> {"list", "text", "plain"}]
      /\ live \subseteq Node /\ \A x \in Node \ {r} : child'[x] = child[x]
  BY TreesShape DEF RInv, IInv, Sound, Trees, AddReferenceFails
<1>3. Lists' \subseteq Lists /\ Lists \subseteq Lists' /\ r \notin Lists'
  BY <1>1, <1>2 DEF Lists
<1> QED
  BY <1>1, <1>2, <1>3, FollowsNew

LEMMA FollowsCreateReferenceTo ==
  ASSUME RInv, rows' = Rows', NEW n \in Node \ live, NEW k \in Kind, NEW to \in live,
         CreateReferenceTo(n, k, to)
  PROVE  Follows
<1>1. Trees' /\ live' = live \cup {n} /\ UNCHANGED <<next, name>> /\ ref' = ref \cup {n}
  BY TreesCreateReferenceTo DEF RInv, IInv, Sound, CreateReferenceTo, names
<1>2. kind' = [kind EXCEPT ![n] = k] /\ kind \in [Node -> {"list", "text", "plain"}]
      /\ live \subseteq Node /\ \A x \in Node \ {n} : child'[x] = child[x]
  BY TreesShape DEF RInv, IInv, Sound, Trees, CreateReferenceTo
<1>3. Lists' \subseteq Lists /\ Lists \subseteq Lists' /\ n \notin Lists'
  BY <1>1, <1>2 DEF Lists
<1> QED
  BY <1>1, <1>2, <1>3, FollowsNew

\* Three new items, two of them the row of the third.
LEMMA FollowsCreateArrayOf ==
  ASSUME RInv, rows' = Rows', NEW a \in Node \ live, NEW x \in Node \ live,
         NEW y \in Node \ live, NEW k \in Kind, CreateArrayOf(a, x, y, k)
  PROVE  Follows
<1> DEFINE t == <<x, y>>
           r == [rows EXCEPT ![a] = t]
<1>1. /\ Shape(live, Lists, next, prev, child, owner)
      /\ next \in [Node -> MaybeNode] /\ prev \in [Node -> MaybeNode]
      /\ child \in [Node -> MaybeNode]
      /\ Rowed(rows, live, Lists, child, next)
  BY TreesShape DEF RInv, IInv, Sound, RowsHold
<1>2. a # x /\ a # y /\ x # y
  BY ThreeNew DEF CreateArrayOf
<1>3. /\ NULL \notin Node /\ live \subseteq Node /\ Lists \subseteq live
      /\ child[x] = NULL /\ child[y] = NULL /\ next[y] = NULL
  BY <1>1, JsonTreeAssumption DEF Shape, Clear, Typed
<1>4. /\ live' = live \cup {a} \cup {x, y} /\ ref' = ref /\ name' = name
      /\ kind' = [kind EXCEPT ![a] = "list", ![x] = k, ![y] = k]
      /\ next' = [next EXCEPT ![x] = y] /\ child' = [child EXCEPT ![a] = x]
  BY DEF CreateArrayOf, SetLinks, Links
<1>5. Trees'
  BY TreesCreateArrayOf DEF RInv, IInv, Sound
<1>6. kind \in [Node -> {"list", "text", "plain"}] /\ ref \subseteq live
  BY DEF RInv, IInv, Sound, Trees
<1>7. /\ a \in Lists' /\ Lists' \subseteq Lists \cup {a, x, y}
      /\ \A c \in Lists : c \in Lists'
  BY <1>2, <1>3, <1>4, <1>6 DEF Lists
<1>8. /\ t \in Seq(Node) /\ t \in Seq(live') /\ Len(t) = 2 /\ t[1] = x /\ t[2] = y
  BY <1>4
<1> HIDE DEF t
<1>9. IsRow(t, live', child'[a], next')
  <2>1. child'[a] = x /\ next'[x] = y /\ next'[y] = NULL
    BY <1>1, <1>2, <1>3, <1>4
  <2> QED
    BY <1>8, <2>1 DEF IsRow
<1>10. ASSUME NEW c \in Lists PROVE IsRow(rows[c], live', child'[c], next')
  <2> DEFINE s == rows[c]
             first == child[c]
             lv2 == live'
             nx2 == next'
  <2>1. IsRow(s, live, first, next)
    BY <1>1 DEF Rowed
  <2>2. child'[c] = first
    BY <1>1, <1>3, <1>4
  <2>3. \A j \in 1..Len(s) : s[j] \in live
    BY <2>1, RowLen
  <2> HIDE DEF s, first
  <2>4. \A j \in 1..Len(s) : s[j] \in lv2 /\ nx2[s[j]] = next[s[j]]
    BY <1>1, <1>3, <1>4, <2>3
  <2> HIDE DEF lv2, nx2
  <2>5. IsRow(s, lv2, first, nx2)
    BY <2>1, <2>4, RowSame
  <2> QED
    BY <2>2, <2>5 DEF s, lv2, nx2
<1>11. Rowed(r, live', Lists', child', next')
  <2>1. rows \in [Node -> Seq(Node)] /\ \A c \in Node \ Lists : rows[c] = <<>>
    BY <1>1 DEF Rowed
  <2>2. r \in [Node -> Seq(Node)]
    BY <1>8, <2>1
  <2>3. \A c \in Node : r[c] = IF c = a THEN t ELSE rows[c]
    BY <2>1
  <2>4. \A c \in Node \ Lists' : r[c] = <<>>
    BY <1>7, <2>1, <2>3
  <2> HIDE DEF r
  <2>5. ASSUME NEW c \in Lists' PROVE IsRow(r[c], live', child'[c], next')
    <3>1. CASE c = a
      BY <1>9, <2>3, <3>1
    <3>2. CASE c \in Lists
      BY <1>3, <1>10, <2>3, <3>2
    <3>3. CASE c \in {x, y}
      <4>1. r[c] = <<>> /\ child'[c] = NULL
        BY <1>1, <1>2, <1>3, <1>4, <2>1, <2>3, <3>3
      <4> QED
        BY <4>1, EmptySeq DEF IsRow
    <3> QED
      BY <1>7, <3>1, <3>2, <3>3
  <2> QED
    BY <2>2, <2>4, <2>5 DEF Rowed
<1>12. rows' = r /\ RowsHold'
  <2> HIDE DEF r
  <2> QED
    BY <1>5, <1>11, RowsBecome
<1>13. Abstract!Range(<<x, y>>) = {x, y}
  BY <1>8 DEF Abstract!Range, t
<1>14. Abstract!Make(a, <<x, y>>)
  BY <1>4, <1>12, <1>13 DEF Abstract!Make, t
<1>15. \E p, q \in (Node \ live) \ {a} : p # q /\ Abstract!Make(a, <<p, q>>)
  BY <1>2, <1>14
<1> QED
  BY <1>12, <1>15 DEF Follows, Abstract!Next

-----------------------------------------------------------------------------
(* Calls that put an item into a list.                                       *)

\* An item the list may take in is put at place i.
LEMMA PutFollows ==
  ASSUME RInv, NEW c \in Lists, NEW n \in Takeable(c), NEW i \in 1..Len(rows[c]) + 1,
         RowsHold', rows' = [rows EXCEPT ![c] = Abstract!InsertAt(rows[c], i, n)],
         live' = live, name' \in Abstract!Renamings(n)
  PROVE  Follows
<1>1. n \in Roots /\ n \in live /\ c \in live /\ c \notin Subtree(n)
  BY DEF Takeable, Held, Roots, Lists
<1>2. n \in Abstract!Own /\ c \notin Abstract!Below(n)
  BY <1>1, OwnRoots, BelowSubtree DEF RInv, IInv, Sound
<1>3. Abstract!Put(c, i, n)
  BY <1>2 DEF Abstract!Put
<1> QED
  BY <1>1, <1>2, <1>3 DEF Follows, Abstract!Next

LEMMA FollowsAppend ==
  ASSUME RInv, rows' = Rows', NEW c \in Lists, NEW n \in Takeable(c),
         SetLinks(Appended(Links, c, n)), UNCHANGED <<live, kind, ref>>,
         name' \in Abstract!Renamings(n)
  PROVE  Follows
<1> DEFINE m == Appended(Links, c, n)
           r == [rows EXCEPT ![c] = Abstract!InsertAt(rows[c], Len(rows[c]) + 1, n)]
<1>1. /\ Shape(live, Lists, next, prev, child, owner) /\ Rowed(rows, live, Lists, child, next)
      /\ n \in live /\ owner[n] = NULL
  BY TreesShape DEF RInv, IInv, Sound, RowsHold, Takeable, Held, Roots
<1>2. AppendChange(next, prev, child, c, n, m.next, m.child)
  BY AppendedWhole DEF RInv, IInv, Sound
<1>3. next' = m.next /\ child' = m.child /\ Lists' = Lists
  BY DEF SetLinks, Lists
<1>4. Trees'
  BY TreesAppend DEF RInv, IInv, Sound
<1> HIDE DEF m
<1>5. Len(rows[c]) \in Nat /\ Rowed(r, live, Lists, m.child, m.next)
  BY <1>1, <1>2, RowedAppend
<1>6. rows' = r /\ RowsHold'
  <2> HIDE DEF r
  <2> QED
    BY <1>3, <1>4, <1>5, RowsBecome
<1>7. Len(rows[c]) + 1 \in 1..Len(rows[c]) + 1
  BY <1>5
<1> QED
  BY <1>6, <1>7, PutFollows

LEMMA FollowsInsert ==
  ASSUME RInv, rows' = Rows', NEW c \in Lists, NEW after \in live, NEW n \in Takeable(c),
         InsertItemInArray(c, after, n)
  PROVE  Follows
<1> DEFINE m == Inserted(Links, c, after, n)
<1>0. SetLinks(m) /\ UNCHANGED <<live, kind, ref, name>> /\ owner[after] = c
  BY DEF InsertItemInArray, names
<1>1. /\ Shape(live, Lists, next, prev, child, owner) /\ Rowed(rows, live, Lists, child, next)
      /\ n \in live /\ owner[n] = NULL
  BY TreesShape DEF RInv, IInv, Sound, RowsHold, Takeable, Held, Roots
<1>2. InsertChange(next, prev, child, owner, c, after, n, m.next, m.prev, m.child, m.owner)
  BY <1>0, InsertedWhole DEF RInv, IInv, Sound
<1>3. next' = m.next /\ child' = m.child /\ Lists' = Lists
  BY <1>0 DEF SetLinks, Lists
<1>4. Trees'
  BY TreesInsert DEF RInv, IInv, Sound
<1>5. PICK i \in 1..Len(rows[c]) : rows[c][i] = after
  BY <1>0, HasPlace DEF RInv, IInv, Sound
<1> HIDE DEF m
<1> DEFINE r == [rows EXCEPT ![c] = Abstract!InsertAt(rows[c], i, n)]
<1>6. Rowed(r, live, Lists, m.child, m.next)
  BY <1>1, <1>2, <1>5, RowedInsert
<1>7. rows' = r /\ RowsHold'
  <2> HIDE DEF r
  <2> QED
    BY <1>0, <1>3, <1>4, <1>6, RowsBecome
<1>8. i \in 1..Len(rows[c]) + 1
  <2> DEFINE s == rows[c]
  <2>1. IsRow(s, live, child[c], next)
    BY <1>1 DEF Rowed
  <2> HIDE DEF s
  <2>2. Len(s) \in Nat
    BY <2>1, RowLen
  <2> QED
    BY <2>2 DEF s
<1>9. name' \in Abstract!Renamings(n)
  BY <1>0, NamesChange DEF RInv, IInv, Sound
<1> QED
  BY <1>0, <1>7, <1>8, <1>9, PutFollows

\* A new item goes to the end of a list.
LEMMA PutLast ==
  ASSUME NEW S, NEW s \in Seq(S), NEW n \in S
  PROVE  Abstract!InsertAt(s, Len(s) + 1, n) = Append(s, n)
<1> DEFINE t == Abstract!InsertAt(s, Len(s) + 1, n)
           u == Append(s, n)
           i == Len(s) + 1
<1>1. Len(s) \in Nat /\ i \in 1..Len(s) + 1
  BY LenProperties
<1>2. /\ t \in Seq(S) /\ Len(t) = Len(s) + 1
      /\ \A j \in 1..Len(s) + 1 :
              t[j] = IF j < i THEN s[j] ELSE IF j = i THEN n ELSE s[j - 1]
  <2>1. PICK k \in 1..Len(s) + 1 : k = i
    BY <1>1
  <2> HIDE DEF i, t, u
  <2>2. LET z == Abstract!InsertAt(s, k, n) IN
        /\ z \in Seq(S) /\ Len(z) = Len(s) + 1
        /\ \A j \in 1..Len(s) + 1 :
             z[j] = IF j < k THEN s[j] ELSE IF j = k THEN n ELSE s[j - 1]
    BY PutAt
  <2>3. t = Abstract!InsertAt(s, k, n)
    BY <2>1 DEF t, i
  <2> QED
    BY <2>1, <2>2, <2>3
<1>3. /\ u \in Seq(S) /\ Len(u) = Len(s) + 1
      /\ \A j \in 1..Len(s) + 1 : u[j] = IF j = Len(s) + 1 THEN n ELSE s[j]
  BY <1>1, AppendProperties
<1> HIDE DEF t, u
<1>4. \A j \in 1..Len(s) + 1 : t[j] = u[j]
  BY <1>1, <1>2, <1>3
<1>5. t = u
  BY <1>2, <1>3, <1>4, SeqEqual
<1> QED
  BY <1>5 DEF t, u

LEMMA FollowsNewIn ==
  ASSUME RInv, rows' = Rows', NEW n \in Node \ live, NEW k \in {"list", "text", "plain"},
         NEW rf2 \in {ref, ref \cup {n}}, NEW to \in MaybeNode, n \in rf2 \/ to = NULL,
         live' = live \cup {n}, kind' = [kind EXCEPT ![n] = k], ref' = rf2,
         NEW c \in Lists, SetLinks(Appended([Links EXCEPT !.child[n] = to], c, n)),
         name' \in Abstract!Renamings(n)
  PROVE  Follows
<1> DEFINE l == [Links EXCEPT !.child[n] = to]
           m == Appended(l, c, n)
           ls2 == ListsWith(n, k, rf2)
           lv2 == live \cup {n}
           ch2 == [child EXCEPT ![n] = to]
           r == [rows EXCEPT ![c] = Abstract!InsertAt(rows[c], Len(rows[c]) + 1, n)]
<1>1. /\ Shape(live, Lists, next, prev, child, owner) /\ Rowed(rows, live, Lists, child, next)
      /\ child \in [Node -> MaybeNode] /\ owner[n] = NULL
  BY TreesShape DEF RInv, IInv, Sound, RowsHold, Shape, Clear
<1>2. /\ Whole(lv2, ls2, l) /\ l.next = next /\ l.prev = prev /\ l.child = ch2 /\ l.owner = owner
  <2>1. Whole(lv2, ls2, l) /\ l.child = ch2 /\ l.owner = owner
    <3> HIDE DEF l, ls2, lv2, ch2
    <3> QED
      BY NewItem DEF RInv, IInv, Sound, l, ls2, lv2, ch2
  <2>2. l.next = next /\ l.prev = prev
    BY DEF Links
  <2> QED
    BY <2>1, <2>2
<1>3. Shape(lv2, ls2, next, prev, ch2, owner)
  <2> HIDE DEF l, ls2, lv2, ch2
  <2> QED
    BY <1>2 DEF Whole
<1>4. Rowed(rows, lv2, ls2, ch2, next)
  <2>1. /\ ls2 \in SUBSET (Lists \cup {n}) /\ Lists \subseteq ls2 /\ (n \in ls2 => ch2[n] = NULL)
        /\ \A x \in Node \ {n} : ch2[x] = child[x]
    BY <1>1 DEF ListsWith, Lists
  <2> HIDE DEF ls2, ch2
  <2> QED
    BY <1>1, <2>1, RowedNew
<1>5. AppendChange(next, prev, ch2, c, n, m.next, m.child)
  <2> HIDE DEF ls2, lv2
  <2> QED
    BY NewItemIn DEF RInv, IInv, Sound
<1>6. next' = m.next /\ child' = m.child /\ live' = lv2
  BY DEF SetLinks
<1>7. Lists' = ls2
  <2>1. kind \in [Node -> {"list", "text", "plain"}] /\ ref \subseteq live /\ live \subseteq Node
    BY DEF RInv, IInv, Sound, Trees
  <2> QED
    BY <2>1 DEF Lists, ListsWith
<1>8. Trees'
  BY TreesNewIn DEF RInv, IInv, Sound
<1>9. c \in ls2 /\ n \in lv2 /\ c \in live
  BY DEF ListsWith, Lists
<1> HIDE DEF l, m, ls2, lv2, ch2
<1>10. Len(rows[c]) \in Nat /\ Rowed(r, lv2, ls2, m.child, m.next)
  BY <1>1, <1>3, <1>4, <1>5, <1>9, RowedAppend
<1>11. rows' = r /\ RowsHold'
  <2> HIDE DEF r
  <2> QED
    BY <1>6, <1>7, <1>8, <1>10, RowsBecome
<1>12. Abstract!InsertAt(rows[c], Len(rows[c]) + 1, n) = Append(rows[c], n)
  <2>1. rows[c] \in Seq(Node)
    BY <1>1 DEF Rowed, Lists, Shape, Typed
  <2> QED
    BY <2>1, PutLast
<1>13. Abstract!MakeIn(c, n)
  BY <1>6, <1>11, <1>12 DEF Abstract!MakeIn, lv2
<1> QED
  BY <1>9, <1>11, <1>13 DEF Follows, Abstract!Next

LEMMA FollowsAddNew ==
  ASSUME RInv, rows' = Rows', NEW c \in Lists, NEW n \in Node \ live, NEW k \in Name,
         NEW what \in Kind, AddNewToObject(c, k, n, what)
  PROVE  Follows
<1>1. child[n] = NULL /\ child \in [Node -> MaybeNode]
  BY TreesShape DEF Shape, Clear, RInv, IInv, Sound
<1>2. [Links EXCEPT !.child[n] = NULL] = Links
  BY <1>1 DEF Links
<1>3. /\ what \in {"list", "text", "plain"} /\ NULL \in MaybeNode
      /\ ref \in {ref, ref \cup {n}}
  BY JsonTreeAssumption DEF MaybeNode
<1>4. /\ live' = live \cup {n} /\ kind' = [kind EXCEPT ![n] = what] /\ ref' = ref
      /\ SetLinks(Appended([Links EXCEPT !.child[n] = NULL], c, n))
      /\ name' = [name EXCEPT ![n] = k]
  BY <1>2 DEF AddNewToObject
<1>5. name' \in Abstract!Renamings(n)
  BY <1>4, NamesChange DEF RInv, IInv, Sound
<1> QED
  BY <1>3, <1>4, <1>5, FollowsNewIn

LEMMA FollowsAddReference ==
  ASSUME RInv, rows' = Rows', NEW c \in Lists, NEW r \in Node \ live,
         NEW k \in Name \cup {NULL}, NEW n \in live, AddReference(c, k, r, n)
  PROVE  Follows
<1> DEFINE rf2 == ref \cup {r}
           to == child[n]
           what == kind[n]
<1>1. what \in {"list", "text", "plain"} /\ to \in MaybeNode
  BY TreesShape DEF Trees, RInv, IInv, Sound
<1>2. rf2 \in {ref, ref \cup {r}} /\ r \in rf2
  OBVIOUS
<1>3. /\ live' = live \cup {r} /\ kind' = [kind EXCEPT ![r] = what] /\ ref' = rf2
      /\ SetLinks(Appended([Links EXCEPT !.child[r] = to], c, r))
      /\ name' = [name EXCEPT ![r] = k]
  BY DEF AddReference
<1>4. name' \in Abstract!Renamings(r)
  BY <1>3, NamesChange DEF RInv, IInv, Sound
<1> HIDE DEF rf2, to, what
<1> QED
  BY <1>1, <1>2, <1>3, <1>4, FollowsNewIn

-----------------------------------------------------------------------------
(* Calls that take an item out of a list, or delete one.                     *)

LEMMA FollowsDetach ==
  ASSUME RInv, rows' = Rows', NEW c \in Lists, NEW item \in live, Detach(c, item)
  PROVE  Follows
<1> DEFINE m == Detached(Links, c, item)
<1>0. SetLinks(m) /\ UNCHANGED <<live, kind, ref, name>> /\ owner[item] = c
  BY DEF Detach, names
<1>1. Shape(live, Lists, next, prev, child, owner) /\ Rowed(rows, live, Lists, child, next)
  BY TreesShape DEF RInv, IInv, Sound, RowsHold
<1>2. DetachChange(next, prev, child, owner, c, item, m.next, m.prev, m.child, m.owner)
  BY <1>0, DetachedWhole DEF RInv, IInv, Sound
<1>3. next' = m.next /\ child' = m.child /\ Lists' = Lists
  BY <1>0 DEF SetLinks, Lists
<1>4. Trees'
  BY TreesDetach DEF RInv, IInv, Sound
<1>5. /\ c \in live
      /\ \E i \in 1..Len(rows[c]) : i \in DOMAIN rows[c] /\ rows[c][i] = item
  BY <1>0, HasPlace DEF RInv, IInv, Sound
<1>6. PICK i \in 1..Len(rows[c]) : i \in DOMAIN rows[c] /\ rows[c][i] = item
  BY <1>5
<1> HIDE DEF m
<1> DEFINE r == [rows EXCEPT ![c] = Abstract!RemoveAt(rows[c], i)]
<1>7. Rowed(r, live, Lists, m.child, m.next)
  BY <1>1, <1>2, <1>6, RowedDetach
<1>8. rows' = r /\ RowsHold'
  <2> HIDE DEF r
  <2> QED
    BY <1>0, <1>3, <1>4, <1>7, RowsBecome
<1>9. Abstract!Take(c, i)
  BY <1>0, <1>8 DEF Abstract!Take
<1> QED
  BY <1>5, <1>6, <1>8, <1>9 DEF Follows, Abstract!Next

\* What cJSON_Delete leaves of rows r that fit the links l.
LEMMA FreedRows ==
  ASSUME Trees, Trees', rows' = Rows', NEW l \in LinkRecords, Whole(live, Lists, l),
         NEW S \in SUBSET live,
         \A m \in live : l.owner[m] # NULL => (m \in S <=> l.owner[m] \in S),
         NEW nm, Free(S, l, nm), NEW r, Rowed(r, live, Lists, l.child, l.next)
  PROVE  /\ rows' = Abstract!Without(r, S) /\ RowsHold'
         /\ live' = live \ S /\ name' = Abstract!Unnamed(nm.name, S)
<1> DEFINE nx2 == [n \in Node |-> IF n \in S THEN NULL ELSE l.next[n]]
           ch2 == [n \in Node |-> IF n \in S THEN NULL ELSE l.child[n]]
           r2 == Abstract!Without(r, S)
<1>1. /\ live' = live \ S /\ ref' = ref \ S
      /\ kind' = [n \in Node |-> IF n \in S THEN "plain" ELSE kind[n]]
      /\ next' = nx2 /\ child' = ch2
      /\ name' = [n \in Node |-> IF n \in S THEN NULL ELSE nm.name[n]]
  BY DEF Free, SetLinks, SetNames
<1>2. live \subseteq Node /\ kind \in [Node -> {"list", "text", "plain"}]
  BY DEF Trees
<1>3. Lists' = Lists \ S
  BY <1>1, <1>2 DEF Lists
<1>4. /\ Shape(live, Lists, l.next, l.prev, l.child, l.owner)
      /\ \A x \in Node : nx2[x] = IF x \in S THEN NULL ELSE l.next[x]
      /\ \A x \in Node : ch2[x] = IF x \in S THEN NULL ELSE l.child[x]
  BY DEF Whole
<1> HIDE DEF nx2, ch2
<1>5. Rowed(r2, live \ S, Lists \ S, ch2, nx2)
  BY <1>4, RowedClear
<1> HIDE DEF r2
<1>6. rows' = r2 /\ RowsHold'
  BY <1>1, <1>3, <1>5, RowsBecome
<1> QED
  BY <1>1, <1>6 DEF r2, Abstract!Unnamed

LEMMA FollowsDelete ==
  ASSUME RInv, rows' = Rows', NEW n \in Roots, Delete(n)
  PROVE  Follows
<1> DEFINE S == Subtree(n)
           l == Links
           nm == Names
<1>1. /\ n \in live /\ owner[n] = NULL /\ l \in LinkRecords /\ Whole(live, Lists, l)
      /\ l.child = child /\ l.next = next /\ l.owner = owner /\ Free(S, l, nm)
      /\ nm.name = name
  BY DEF Roots, Trees, Links, Delete, RInv, IInv, Sound, Names
<1>2. S \in SUBSET live /\ \A m \in live \ {n} : m \in S <=> owner[m] \in S
  BY <1>1, SubtreeWhole DEF RInv, IInv, Sound
<1>3. Trees' /\ Trees
  BY TreesDelete DEF RInv, IInv, Sound
<1>4. Abstract!Below(n) = S /\ n \in Abstract!Own
  BY <1>1, OwnRoots, BelowSubtree DEF RInv, IInv, Sound
<1> HIDE DEF S, l, nm
<1>5. \A m \in live : l.owner[m] # NULL => (m \in S <=> l.owner[m] \in S)
  BY <1>1, <1>2
<1>6. Rowed(rows, live, Lists, l.child, l.next)
  BY <1>1 DEF RInv, RowsHold
<1>7. /\ rows' = Abstract!Without(rows, S) /\ RowsHold'
      /\ live' = live \ S /\ name' = Abstract!Unnamed(nm.name, S)
  BY <1>1, <1>2, <1>3, <1>5, <1>6, FreedRows
<1>8. Abstract!Delete(n)
  BY <1>1, <1>4, <1>7 DEF Abstract!Delete
<1> QED
  BY <1>4, <1>7, <1>8 DEF Follows, Abstract!Next

LEMMA FollowsDeleteItem ==
  ASSUME RInv, rows' = Rows', NEW c \in Lists, NEW item \in live, DeleteItem(c, item)
  PROVE  Follows
<1> DEFINE S == Subtree(item)
           m == Detached(Links, c, item)
           nm == Names
<1>0. Free(S, m, nm) /\ owner[item] = c /\ nm.name = name
  BY DEF DeleteItem, Names
<1>1. Shape(live, Lists, next, prev, child, owner) /\ Rowed(rows, live, Lists, child, next)
  BY TreesShape DEF RInv, IInv, Sound, RowsHold
<1>2. /\ m \in LinkRecords /\ Whole(live, Lists, m)
      /\ DetachChange(next, prev, child, owner, c, item, m.next, m.prev, m.child, m.owner)
  BY <1>0, DetachedWhole DEF RInv, IInv, Sound
<1>3. S \in SUBSET live /\ \A x \in live : m.owner[x] # NULL => (x \in S <=> m.owner[x] \in S)
  BY <1>0, DetachedApart DEF RInv, IInv, Sound
<1>4. Trees' /\ Trees
  BY TreesDeleteItem DEF RInv, IInv, Sound
<1>5. /\ c \in live
      /\ \E i \in 1..Len(rows[c]) : i \in DOMAIN rows[c] /\ rows[c][i] = item
  BY <1>0, HasPlace DEF RInv, IInv, Sound
<1>6. PICK i \in 1..Len(rows[c]) : i \in DOMAIN rows[c] /\ rows[c][i] = item
  BY <1>5
<1>7. Abstract!Below(rows[c][i]) = S
  BY <1>6, BelowSubtree DEF RInv, IInv, Sound
<1> HIDE DEF m, S, nm
<1> DEFINE r == [rows EXCEPT ![c] = Abstract!RemoveAt(rows[c], i)]
<1>8. Rowed(r, live, Lists, m.child, m.next)
  BY <1>1, <1>2, <1>6, RowedDetach
<1>9. /\ rows' = Abstract!Without(r, S) /\ RowsHold'
      /\ live' = live \ S /\ name' = Abstract!Unnamed(nm.name, S)
  <2> HIDE DEF r
  <2> QED
    BY <1>0, <1>2, <1>3, <1>4, <1>8, FreedRows
<1>10. Abstract!TakeAndDelete(c, i)
  BY <1>0, <1>7, <1>9 DEF Abstract!TakeAndDelete
<1> QED
  BY <1>5, <1>6, <1>9, <1>10 DEF Follows, Abstract!Next

\* n takes the place of item under the names nm.
LEMMA FollowsReplaced ==
  ASSUME RInv, rows' = Rows', NEW c \in Lists, NEW item \in live, owner[item] = c,
         NEW n \in Takeable(c), NEW nm, nm.name \in Abstract!Renamings(n),
         Free(Subtree(item), Replaced(Links, c, item, n), nm)
  PROVE  Follows
<1> DEFINE S == Subtree(item)
           m == Replaced(Links, c, item, n)
<1>0. Free(S, m, nm)
  OBVIOUS
<1>1. /\ Shape(live, Lists, next, prev, child, owner) /\ Rowed(rows, live, Lists, child, next)
      /\ n \in live /\ owner[n] = NULL /\ n \in Roots
  BY TreesShape DEF RInv, IInv, Sound, RowsHold, Takeable, Held, Roots
<1>2. /\ m \in LinkRecords /\ Whole(live, Lists, m)
      /\ ReplaceChange(next, prev, child, owner, c, item, n, m.next, m.prev, m.child, m.owner)
      /\ S \in SUBSET live
      /\ \A x \in live : m.owner[x] # NULL => (x \in S <=> m.owner[x] \in S)
  BY ReplacedWhole DEF RInv, IInv, Sound
<1>3. Trees' /\ Trees
  BY TreesReplace DEF RInv, IInv, Sound
<1>4. /\ c \in live
      /\ \E i \in 1..Len(rows[c]) : i \in DOMAIN rows[c] /\ rows[c][i] = item
  BY HasPlace DEF RInv, IInv, Sound
<1>5. PICK i \in 1..Len(rows[c]) : i \in DOMAIN rows[c] /\ rows[c][i] = item
  BY <1>4
<1>6. Abstract!Below(rows[c][i]) = S /\ n \in Abstract!Own /\ c \notin Abstract!Below(n)
  BY <1>1, <1>5, OwnRoots, BelowSubtree DEF RInv, IInv, Sound, Takeable, Held
<1> HIDE DEF m, S
<1> DEFINE r == [rows EXCEPT ![c] = Abstract!ReplaceAt(rows[c], i, n)]
<1>7. Rowed(r, live, Lists, m.child, m.next)
  BY <1>1, <1>2, <1>5, RowedReplace
<1>8. /\ rows' = Abstract!Without(r, S) /\ RowsHold'
      /\ live' = live \ S /\ name' = Abstract!Unnamed(nm.name, S)
  <2> HIDE DEF r
  <2> QED
    BY <1>0, <1>2, <1>3, <1>7, FreedRows
<1>9. Abstract!Exchange(c, i, n)
  BY <1>6, <1>8 DEF Abstract!Exchange
<1> QED
  BY <1>4, <1>5, <1>6, <1>8, <1>9 DEF Follows, Abstract!Next

-----------------------------------------------------------------------------
(* Together.                                                                 *)

LEMMA FollowsFails ==
  ASSUME RInv, rows' = Rows', Fails
  PROVE  Follows
BY FollowsSame DEF Fails, names

\* Calls that make an item.
LEMMA FollowsMaking ==
  ASSUME RInv, rows' = Rows', NEW n \in Node \ live
  PROVE
    /\ CreateTextFails(n) => Follows
    /\ \A k \in Kind : Create(n, k) => Follows
    /\ \A c \in Lists, k \in Name, what \in Kind : AddNewToObject(c, k, n, what) => Follows
    /\ \A what \in Kind : AddNewToObjectFails(n, what) => Follows
    /\ \A x \in Node \ live : CreateArrayFails(n, x) => Follows
    /\ \A x, y \in Node \ live, k \in Kind : CreateArrayOf(n, x, y, k) => Follows
    /\ \A k \in Kind, to \in live : CreateReferenceTo(n, k, to) => Follows
    /\ \A c \in Lists, k \in Name \cup {NULL}, m \in live : AddReference(c, k, n, m) => Follows
    /\ \A m \in live : AddReferenceFails(n, m) => Follows
<1>1. ASSUME CreateTextFails(n) PROVE Follows
  <2>1. UNCHANGED <<live, kind, ref, links, name>>
    BY <1>1, TreesCreateTextFails DEF CreateTextFails, names, RInv, IInv, Sound
  <2> QED
    BY <2>1, FollowsSame
<1>2. ASSUME NEW x \in Node \ live, CreateArrayFails(n, x) PROVE Follows
  <2>1. UNCHANGED <<live, kind, ref, links, name>>
    BY <1>2, TreesCreateArrayFails DEF CreateArrayFails, names, RInv, IInv, Sound
  <2> QED
    BY <2>1, FollowsSame
<1>3. ASSUME NEW what \in Kind, AddNewToObjectFails(n, what) PROVE Follows
  <2>1. UNCHANGED <<live, kind, ref, links, name>>
    BY <1>3, TreesAddNewFails DEF RInv, IInv, Sound
  <2> QED
    BY <2>1, FollowsSame
<1> QED
  BY <1>1, <1>2, <1>3, FollowsCreate, FollowsAddNew, FollowsCreateArrayOf,
     FollowsCreateReferenceTo, FollowsAddReference, FollowsAddReferenceFails

\* Calls that put in an item the caller holds, under its name or a new one.
LEMMA FollowsAdding ==
  ASSUME RInv, rows' = Rows', NEW c \in Lists, NEW n, n \in Takeable(c) \/ n = c
  PROVE
    /\ AddItemToArray(c, n) => Follows
    /\ \A k \in Name, b \in BOOLEAN : AddItemToObject(c, k, n, b) => Follows
<1>1. ASSUME AddItemToArray(c, n) PROVE Follows
  <2>1. CASE Fails
    BY <2>1, FollowsFails
  <2>2. CASE ~Fails
    <3>1. /\ c # n /\ SetLinks(Appended(Links, c, n)) /\ UNCHANGED <<live, kind, ref, name>>
      BY <1>1, <2>2 DEF AddItemToArray, names
    <3>2. n \in Takeable(c) /\ name' \in Abstract!Renamings(n)
      BY <3>1, NamesChange DEF RInv, IInv, Sound
    <3> QED
      BY <3>1, <3>2, FollowsAppend
  <2> QED
    BY <2>1, <2>2
<1>2. ASSUME NEW k \in Name, NEW b \in BOOLEAN, AddItemToObject(c, k, n, b) PROVE Follows
  <2>1. CASE Fails
    BY <2>1, FollowsFails
  <2>2. CASE ~Fails
    <3>1. /\ c # n /\ SetLinks(Appended(Links, c, n)) /\ name' = [name EXCEPT ![n] = k]
          /\ UNCHANGED <<live, kind, ref>>
      BY <1>2, <2>2 DEF AddItemToObject, SetNames, Renamed
    <3>2. n \in Takeable(c) /\ name' \in Abstract!Renamings(n)
      BY <3>1, NamesChange DEF RInv, IInv, Sound
    <3> QED
      BY <3>1, <3>2, FollowsAppend
  <2> QED
    BY <2>1, <2>2
<1> QED
  BY <1>1, <1>2

LEMMA FollowsRenamingFails ==
  ASSUME RInv, rows' = Rows', NEW c \in Lists, NEW n \in Takeable(c), RenamingFails(n)
  PROVE  Follows
<1>1. UNCHANGED <<live, kind, ref, links>> /\ name' = [name EXCEPT ![n] = NULL]
  BY DEF RenamingFails
<1>2. n \in Roots /\ name' \in Abstract!Renamings(n)
  BY <1>1, NamesChange DEF RInv, IInv, Sound, Takeable, Held
<1> QED
  BY <1>1, <1>2, FollowsRename

LEMMA FollowsReplaceItem ==
  ASSUME RInv, rows' = Rows', NEW c \in Lists, NEW item \in live,
         NEW n, n \in Takeable(c) \/ n = item, ReplaceItem(c, item, n)
  PROVE  Follows
<1>1. CASE item = n
  <2>1. UNCHANGED <<live, kind, ref, links, name>> \/ item # n
    BY DEF ReplaceItem, names
  <2> QED
    BY <1>1, <2>1, FollowsSame
<1>2. CASE item # n
  <2> DEFINE nm == Names
  <2>1. /\ owner[item] = c /\ n \in Takeable(c)
        /\ Free(Subtree(item), Replaced(Links, c, item, n), nm)
    BY <1>2 DEF ReplaceItem
  <2>2. nm.name \in Abstract!Renamings(n)
    BY NamesChange DEF RInv, IInv, Sound, Names
  <2> HIDE DEF nm
  <2> QED
    BY <2>1, <2>2, FollowsReplaced
<1> QED
  BY <1>1, <1>2

LEMMA FollowsReplaceNamed ==
  ASSUME RInv, rows' = Rows', NEW c \in Lists, NEW k \in Name, NEW n \in Takeable(c), NEW b,
         ReplaceNamed(c, k, n, b)
  PROVE  Follows
<1> DEFINE item == GetObjectItem(c, k, b)
           nm == Renamed(n, k, FALSE)
<1>1. n \in Roots /\ nm.name \in Abstract!Renamings(n)
  BY NamesChange DEF Takeable, Held, Renamed, RInv, IInv, Sound
<1>2. CASE item = NULL
  <2>1. name' = nm.name /\ UNCHANGED <<live, kind, ref, links>>
    BY <1>2 DEF ReplaceNamed, SetNames
  <2> HIDE DEF nm
  <2> QED
    BY <1>1, <2>1, FollowsRename
<1>3. CASE item # NULL
  <2>1. item \in live /\ owner[item] = c
    BY <1>3, FoundInList DEF RInv, IInv, Sound
  <2>2. Free(Subtree(item), Replaced(Links, c, item, n), nm)
    BY <1>3 DEF ReplaceNamed
  <2> HIDE DEF item, nm
  <2> QED
    BY <1>1, <2>1, <2>2, FollowsReplaced
<1> QED
  BY <1>2, <1>3

LEMMA FollowsNamed ==
  ASSUME RInv, rows' = Rows', NEW c \in Lists, NEW k, NEW b,
         DetachNamed(c, k, b) \/ DeleteNamed(c, k, b)
  PROVE  Follows
<1> DEFINE item == GetObjectItem(c, k, b)
<1>1. CASE item = NULL
  <2>1. Fails
    BY <1>1 DEF DetachNamed, DeleteNamed
  <2> QED
    BY <2>1, FollowsFails
<1>2. CASE item # NULL
  <2>1. item \in live
    BY <1>2, FoundInList DEF RInv, IInv, Sound
  <2>2. Detach(c, item) \/ DeleteItem(c, item)
    BY <1>2 DEF DetachNamed, DeleteNamed
  <2> HIDE DEF item
  <2> QED
    BY <2>1, <2>2, FollowsDetach, FollowsDeleteItem
<1> QED
  BY <1>1, <1>2

LEMMA EveryCallFollows ==
  ASSUME RInv, RowsNext
  PROVE  Follows
<1>0. Next /\ rows' = Rows'
  BY DEF RowsNext
<1>1. CASE \E n \in Node \ live :
       \/ CreateTextFails(n)
       \/ \E k \in Kind : Create(n, k)
       \/ \E c \in Lists, k \in Name, what \in Kind : AddNewToObject(c, k, n, what)
       \/ \E what \in Kind : AddNewToObjectFails(n, what)
       \/ \E x \in Node \ live : CreateArrayFails(n, x)
       \/ \E x, y \in Node \ live, k \in Kind : CreateArrayOf(n, x, y, k)
       \/ \E k \in Kind, to \in live : CreateReferenceTo(n, k, to)
       \/ \E c \in Lists, k \in Name \cup {NULL}, m \in live : AddReference(c, k, n, m)
       \/ \E m \in live : AddReferenceFails(n, m)
  BY <1>0, <1>1, FollowsMaking
<1>2. CASE \E n \in Held : Delete(n)
  BY <1>0, <1>2, FollowsDelete DEF Held
<1>3. ASSUME NEW c \in Lists, NEW item \in live, Detach(c, item) \/ DeleteItem(c, item)
      PROVE  Follows
  BY <1>0, <1>3, FollowsDetach, FollowsDeleteItem
<1>4. ASSUME NEW c \in Lists, NEW k \in Name, NEW b \in BOOLEAN,
             DetachNamed(c, k, b) \/ DeleteNamed(c, k, b)
      PROVE  Follows
  BY <1>0, <1>4, FollowsNamed
<1>5. ASSUME NEW c \in Lists, NEW n \in Takeable(c),
             \/ AddItemToArray(c, n) \/ RenamingFails(n)
             \/ \E k \in Name, b \in BOOLEAN :
                  AddItemToObject(c, k, n, b) \/ ReplaceNamed(c, k, n, b)
             \/ \E m \in live : InsertItemInArray(c, m, n) \/ ReplaceItem(c, m, n)
      PROVE  Follows
  <2>1. CASE AddItemToArray(c, n) \/ \E k \in Name, b \in BOOLEAN : AddItemToObject(c, k, n, b)
    BY <1>0, <2>1, FollowsAdding
  <2>2. CASE RenamingFails(n)
    BY <1>0, <2>2, FollowsRenamingFails
  <2>3. CASE \E k \in Name, b \in BOOLEAN : ReplaceNamed(c, k, n, b)
    BY <1>0, <2>3, FollowsReplaceNamed
  <2>4. CASE \E m \in live : InsertItemInArray(c, m, n) \/ ReplaceItem(c, m, n)
    BY <1>0, <2>4, FollowsInsert, FollowsReplaceItem
  <2> QED
    BY <1>5, <2>1, <2>2, <2>3, <2>4
<1>6. ASSUME NEW c \in Lists,
             \/ AddItemToArray(c, c) \/ \E m \in live : ReplaceItem(c, m, m)
             \/ \E k \in Name, b \in BOOLEAN : AddItemToObject(c, k, c, b)
      PROVE  Follows
  BY <1>0, <1>6, FollowsAdding, FollowsReplaceItem
<1>7. CASE Fails
  BY <1>0, <1>7, FollowsFails
<1> QED
  BY <1>0, <1>1, <1>2, <1>3, <1>4, <1>5, <1>6, <1>7 DEF Next, Calls

LEMMA RowsStart ==
  ASSUME RowsInit
  PROVE  RInv /\ Abstract!Init
<1>1. Init /\ rows = Rows /\ IInv
  BY Initially DEF RowsInit
<1>2. live = {} /\ Lists = {} /\ name = [n \in Node |-> NULL]
  BY <1>1 DEF Init, Lists
<1>3. rows = [n \in Node |-> <<>>]
  BY <1>1, <1>2 DEF Rows
<1>4. RowsHold
  BY <1>2, <1>3, EmptySeq DEF RowsHold, Rowed
<1> QED
  BY <1>1, <1>2, <1>3, <1>4 DEF RInv, Abstract!Init

LEMMA RowsStep ==
  ASSUME RInv, [RowsNext]_<<vars, rows>>
  PROVE  RInv' /\ [Abstract!Next]_(Abstract!vars)
<1>1. CASE RowsNext
  <2>1. IInv'
    BY <1>1, StepKeeps DEF RowsNext, RInv
  <2>2. Follows
    BY <1>1, EveryCallFollows
  <2> QED
    BY <2>1, <2>2 DEF RInv, Follows
<1>2. CASE UNCHANGED <<vars, rows>>
  <2>1. IInv'
    BY <1>2, StepKeeps DEF RInv
  <2>2. RowsHold'
    BY <1>2 DEF vars, RInv, RowsHold, Lists
  <2> QED
    BY <1>2, <2>1, <2>2 DEF RInv, vars, Abstract!vars
<1> QED
  BY <1>1, <1>2

\* Behind the pointers every call of cJSON is one change of one row: what is put
\* in, taken out, exchanged or deleted is what the caller asked for, at its place
\* and with what is below it, and nothing else moves (cJSON.h:228-246,
\* cJSON.c:1966-2360).
THEOREM TreesImplementLists == RowsSpec => Implements
<1>1. RowsInit => RInv /\ Abstract!Init
  BY RowsStart
<1>2. RInv /\ [RowsNext]_<<vars, rows>> => RInv' /\ [Abstract!Next]_(Abstract!vars)
  BY RowsStep
<1> QED
  BY <1>1, <1>2, PTL DEF RowsSpec, Implements, Abstract!Spec
=============================================================================
