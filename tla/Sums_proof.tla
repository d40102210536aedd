----------------------------- MODULE Sums_proof -----------------------------
(***************************************************************************)
(* Sums over finite sets, as MapThenSumSet of the community modules takes  *)
(* them: one element after the other, in an order CHOOSE decides.  The     *)
(* order does not matter, and a sum over 1..n + 1 is a sum over 1..n and   *)
(* one more.  The byte counts of SerialLine and the checksum of ImuFrame   *)
(* are such sums.                                                          *)
(***************************************************************************)
EXTENDS FiniteSetsExt, FiniteSetTheorems, WellFoundedInduction, TLAPS

\* Induction over the naturals, on a set.
LEMMA NatSetInduction ==
  ASSUME NEW T, 0 \in T, \A n \in Nat : n \in T => n + 1 \in T
  PROVE  Nat \subseteq T
<1> DEFINE U == Nat \ T
           R == OpToRel(<, Nat)
<1> SUFFICES ASSUME U # {} PROVE FALSE
  OBVIOUS
<1>1. IsWellFoundedOn(R, Nat)
  BY NatLessThanWellFounded
<1>2. U \subseteq Nat
  OBVIOUS
<1>3. \A x, y \in Nat : y < x => <<y, x>> \in R
  BY DEF OpToRel
<1> HIDE DEF R, U
<1>4. PICK x \in U : \A y \in U : ~(<<y, x>> \in R)
  BY <1>1, <1>2, WFMin
<1>5. x \in Nat /\ x \notin T
  BY <1>4 DEF U
<1>6. x # 0 /\ x - 1 \in Nat /\ x - 1 < x
  BY <1>5
<1>7. x - 1 \in T
  BY <1>3, <1>4, <1>5, <1>6 DEF U
<1> QED
  BY <1>5, <1>6, <1>7

-----------------------------------------------------------------------------
Pick(t) == CHOOSE x \in t : TRUE

\* F sums g over the subsets of S.
IsSum(F, g, S) ==
  F = [t \in SUBSET S |-> IF t = {} THEN 0 ELSE g[Pick(t)] + F[t \ {Pick(t)}]]

Total(g, S) == (CHOOSE F : IsSum(F, g, S))[S]

\* The subsets of S of at most n elements.
Small(S, n) == {t \in SUBSET S : Cardinality(t) <= n}

LEMMA PickIsIn ==
  ASSUME NEW t, t # {}
  PROVE  Pick(t) \in t
BY DEF Pick

\* What picking leaves is smaller.
LEMMA Smaller ==
  ASSUME NEW S, IsFiniteSet(S), NEW n \in Nat, NEW t \in Small(S, n + 1), t # {}, NEW x \in t
  PROVE  t \ {x} \in Small(S, n)
<1>1. IsFiniteSet(t) /\ Cardinality(t) \in Nat /\ Cardinality(t) <= n + 1
  BY FS_Subset, FS_CardinalityType DEF Small
<1>2. Cardinality(t \ {x}) = Cardinality(t) - 1
  BY <1>1, FS_RemoveElement
<1> QED
  BY <1>1, <1>2 DEF Small

LEMMA AllSmall ==
  ASSUME NEW S, IsFiniteSet(S)
  PROVE  Cardinality(S) \in Nat /\ Small(S, Cardinality(S)) = SUBSET S
BY FS_Subset, FS_CardinalityType DEF Small

LEMMA NoneSmall ==
  ASSUME NEW S, IsFiniteSet(S)
  PROVE  Small(S, 0) = {{}}
<1>1. \A t \in SUBSET S : Cardinality(t) <= 0 <=> t = {}
  <2> SUFFICES ASSUME NEW t \in SUBSET S PROVE Cardinality(t) <= 0 <=> t = {}
    OBVIOUS
  <2>1. IsFiniteSet(t)
    BY FS_Subset
  <2>2. Cardinality(t) \in Nat /\ (Cardinality(t) = 0 <=> t = {})
    BY <2>1, FS_CardinalityType, FS_EmptySet
  <2> QED
    BY <2>2
<1> QED
  BY <1>1 DEF Small

LEMMA SumExists ==
  ASSUME NEW S, IsFiniteSet(S), NEW g
  PROVE  \E F : IsSum(F, g, S)
<1> DEFINE Step(F, t) == IF t = {} THEN 0 ELSE g[Pick(t)] + F[t \ {Pick(t)}]
           T == {n \in Nat : \E F : F = [t \in Small(S, n) |-> Step(F, t)]}
<1>1. 0 \in T
  <2> DEFINE F == [t \in Small(S, 0) |-> 0]
  <2>1. F = [t \in Small(S, 0) |-> Step(F, t)]
    BY NoneSmall
  <2> QED
    BY <2>1
<1>2. ASSUME NEW n \in Nat, n \in T
      PROVE  n + 1 \in T
  <2>1. PICK F : F = [t \in Small(S, n) |-> Step(F, t)]
    BY <1>2
  <2> DEFINE G == [t \in Small(S, n + 1) |-> Step(F, t)]
  <2>2. ASSUME NEW t \in Small(S, n + 1), t # {}
        PROVE  G[t \ {Pick(t)}] = F[t \ {Pick(t)}]
    <3> DEFINE u == t \ {Pick(t)}
    <3>1. u \in Small(S, n)
      BY <2>2, PickIsIn, Smaller
    <3>2. u \in Small(S, n + 1)
      BY <3>1, FS_Subset, FS_CardinalityType DEF Small
    <3> HIDE DEF u
    <3>3. G[u] = Step(F, u)
      BY <3>2
    <3>4. F[u] = Step(F, u)
      BY <2>1, <3>1
    <3> QED
      BY <3>3, <3>4 DEF u
  <2>3. \A t \in Small(S, n + 1) : Step(F, t) = Step(G, t)
    <3> HIDE DEF G
    <3> QED
      BY <2>2
  <2>4. G = [t \in Small(S, n + 1) |-> Step(G, t)]
    <3>1. G = [t \in Small(S, n + 1) |-> Step(F, t)]
      OBVIOUS
    <3> HIDE DEF G, Step
    <3> QED
      BY <2>3, <3>1
  <2> HIDE DEF G, Step
  <2>5. \E F2 : F2 = [t \in Small(S, n + 1) |-> Step(F2, t)]
    BY <2>4
  <2> QED
    BY <2>5
<1>3. Cardinality(S) \in T
  <2> HIDE DEF T
  <2> QED
    BY <1>1, <1>2, NatSetInduction, AllSmall
<1>4. PICK F : F = [t \in Small(S, Cardinality(S)) |-> Step(F, t)]
  BY <1>3
<1> QED
  BY <1>4, AllSmall DEF IsSum

LEMMA SumStep ==
  ASSUME NEW S, NEW g, NEW F, IsSum(F, g, S)
  PROVE  /\ F[{}] = 0
         /\ \A t \in SUBSET S : t # {} => F[t] = g[Pick(t)] + F[t \ {Pick(t)}]
BY DEF IsSum

LEMMA SumNat ==
  ASSUME NEW S, IsFiniteSet(S), NEW g, \A x \in S : g[x] \in Nat,
         NEW F, IsSum(F, g, S)
  PROVE  \A t \in SUBSET S : F[t] \in Nat
<1>0. /\ F[{}] = 0
      /\ \A t \in SUBSET S : t # {} => F[t] = g[Pick(t)] + F[t \ {Pick(t)}]
  BY SumStep
<1> DEFINE T == {n \in Nat : \A t \in Small(S, n) : F[t] \in Nat}
<1>1. 0 \in T
  BY <1>0, NoneSmall
<1>2. ASSUME NEW n \in Nat, n \in T
      PROVE  n + 1 \in T
  <2> SUFFICES ASSUME NEW t \in Small(S, n + 1) PROVE F[t] \in Nat
    OBVIOUS
  <2>1. CASE t = {}
    BY <1>0, <2>1
  <2>2. CASE t # {}
    <3>1. t \in SUBSET S /\ Pick(t) \in t
      BY <2>2, PickIsIn DEF Small
    <3>2. t \ {Pick(t)} \in Small(S, n)
      BY <3>1, Smaller
    <3>3. F[t \ {Pick(t)}] \in Nat
      BY <1>2, <3>2
    <3>4. F[t] = g[Pick(t)] + F[t \ {Pick(t)}]
      BY <1>0, <2>2, <3>1
    <3> QED
      BY <3>1, <3>3, <3>4
  <2> QED
    BY <2>1, <2>2
<1>3. Cardinality(S) \in T
  <2> HIDE DEF T
  <2> QED
    BY <1>1, <1>2, NatSetInduction, AllSmall
<1> QED
  BY <1>3, AllSmall

\* Any element may be taken out first.
LEMMA SumAny ==
  ASSUME NEW S, IsFiniteSet(S), NEW g, \A x \in S : g[x] \in Nat,
         NEW F, IsSum(F, g, S)
  PROVE  \A t \in SUBSET S : \A x \in t : F[t] = g[x] + F[t \ {x}]
<1>0. /\ F[{}] = 0
      /\ \A t \in SUBSET S : t # {} => F[t] = g[Pick(t)] + F[t \ {Pick(t)}]
  BY SumStep
<1> DEFINE Any(t) == \A x \in t : F[t] = g[x] + F[t \ {x}]
           T == {n \in Nat : \A t \in Small(S, n) : Any(t)}
<1>1. 0 \in T
  BY NoneSmall
<1>2. ASSUME NEW n \in Nat, n \in T
      PROVE  n + 1 \in T
  <2> SUFFICES ASSUME NEW t \in Small(S, n + 1), NEW x \in t
               PROVE  F[t] = g[x] + F[t \ {x}]
    OBVIOUS
  <2> DEFINE y == Pick(t)
  <2>1. t \in SUBSET S /\ y \in t /\ t # {}
    BY PickIsIn DEF Small
  <2>2. F[t] = g[y] + F[t \ {y}]
    BY <1>0, <2>1
  <2> HIDE DEF y
  <2>3. t \ {x} \in Small(S, n) /\ t \ {y} \in Small(S, n)
    BY <2>1, Smaller
  <2>4. CASE x = y
    BY <2>2, <2>4
  <2>5. CASE x # y
    <3>1. F[t \ {y}] = g[x] + F[(t \ {y}) \ {x}]
      BY <1>2, <2>3, <2>5
    <3>2. F[t \ {x}] = g[y] + F[(t \ {x}) \ {y}]
      BY <1>2, <2>1, <2>3, <2>5
    <3>3. (t \ {y}) \ {x} = (t \ {x}) \ {y} /\ (t \ {x}) \ {y} \in SUBSET S
      BY <2>1
    <3> DEFINE r == F[(t \ {x}) \ {y}]
    <3>4. r \in Nat /\ g[x] \in Nat /\ g[y] \in Nat
      BY <2>1, <3>3, SumNat
    <3>5. F[t \ {y}] = g[x] + r /\ F[t \ {x}] = g[y] + r
      BY <3>1, <3>2, <3>3
    <3> HIDE DEF r
    <3> QED
      BY <2>2, <3>4, <3>5
  <2> QED
    BY <2>4, <2>5
<1>3. Cardinality(S) \in T
  <2> HIDE DEF T
  <2> QED
    BY <1>1, <1>2, NatSetInduction, AllSmall
<1> QED
  BY <1>3, AllSmall

\* Two sums of the same numbers are the same.
LEMMA SumUnique ==
  ASSUME NEW S, IsFiniteSet(S), NEW R, NEW g, NEW h, NEW F, NEW H,
         IsSum(F, g, S), IsSum(H, h, R), S \subseteq R, \A x \in S : g[x] = h[x]
  PROVE  \A t \in SUBSET S : F[t] = H[t]
<1>0. /\ F[{}] = 0
      /\ \A t \in SUBSET S : t # {} => F[t] = g[Pick(t)] + F[t \ {Pick(t)}]
  BY SumStep
<1>a. /\ H[{}] = 0
      /\ \A t \in SUBSET R : t # {} => H[t] = h[Pick(t)] + H[t \ {Pick(t)}]
  BY SumStep
<1> DEFINE T == {n \in Nat : \A t \in Small(S, n) : F[t] = H[t]}
<1>1. 0 \in T
  BY <1>0, <1>a, NoneSmall
<1>2. ASSUME NEW n \in Nat, n \in T
      PROVE  n + 1 \in T
  <2> SUFFICES ASSUME NEW t \in Small(S, n + 1) PROVE F[t] = H[t]
    OBVIOUS
  <2>1. t \in SUBSET S /\ t \in SUBSET R
    BY DEF Small
  <2>2. CASE t = {}
    BY <1>0, <1>a, <2>2
  <2>3. CASE t # {}
    <3>1. Pick(t) \in t /\ t \ {Pick(t)} \in Small(S, n)
      BY <2>3, PickIsIn, Smaller
    <3>2. F[t] = g[Pick(t)] + F[t \ {Pick(t)}]
      BY <1>0, <2>1, <2>3
    <3>3. H[t] = h[Pick(t)] + H[t \ {Pick(t)}]
      BY <1>a, <2>1, <2>3
    <3> QED
      BY <1>2, <2>1, <3>1, <3>2, <3>3
  <2> QED
    BY <2>2, <2>3
<1>3. Cardinality(S) \in T
  <2> HIDE DEF T
  <2> QED
    BY <1>1, <1>2, NatSetInduction, AllSmall
<1> QED
  BY <1>3, AllSmall

-----------------------------------------------------------------------------
(* Totals.                                                                   *)

LEMMA TotalIsSum ==
  ASSUME NEW S, IsFiniteSet(S), NEW g
  PROVE  \E F : IsSum(F, g, S) /\ Total(g, S) = F[S]
<1> DEFINE F == CHOOSE F : IsSum(F, g, S)
<1>1. IsSum(F, g, S)
  BY SumExists
<1>2. Total(g, S) = F[S]
  BY DEF Total
<1> HIDE DEF F
<1> QED
  BY <1>1, <1>2

\* A total is the sum of its numbers by whatever function sums them.
LEMMA TotalIs ==
  ASSUME NEW S, IsFiniteSet(S), NEW R, S \subseteq R, NEW g, NEW h, NEW H,
         IsSum(H, h, R), \A x \in S : g[x] = h[x]
  PROVE  Total(g, S) = H[S]
<1>1. PICK F : IsSum(F, g, S) /\ Total(g, S) = F[S]
  BY TotalIsSum
<1>2. S \in SUBSET S
  OBVIOUS
<1> QED
  BY <1>1, <1>2, SumUnique

LEMMA TotalNat ==
  ASSUME NEW S, IsFiniteSet(S), NEW g, \A x \in S : g[x] \in Nat
  PROVE  Total(g, S) \in Nat
<1>1. PICK F : IsSum(F, g, S) /\ Total(g, S) = F[S]
  BY TotalIsSum
<1>2. S \in SUBSET S
  OBVIOUS
<1> QED
  BY <1>1, <1>2, SumNat

LEMMA TotalNone ==
  ASSUME NEW g
  PROVE  Total(g, {}) = 0
<1>1. IsFiniteSet({})
  BY FS_EmptySet
<1>2. PICK F : IsSum(F, g, {}) /\ Total(g, {}) = F[{}]
  BY <1>1, TotalIsSum
<1>3. {} \in SUBSET {}
  OBVIOUS
<1> QED
  BY <1>2, <1>3, SumStep

LEMMA TotalSame ==
  ASSUME NEW S, IsFiniteSet(S), NEW g, NEW h, \A x \in S : g[x] = h[x]
  PROVE  Total(g, S) = Total(h, S)
<1>1. PICK H : IsSum(H, h, S) /\ Total(h, S) = H[S]
  BY TotalIsSum
<1>2. S \subseteq S
  OBVIOUS
<1> QED
  BY <1>1, <1>2, TotalIs

LEMMA TotalWithout ==
  ASSUME NEW S, IsFiniteSet(S), NEW g, \A x \in S : g[x] \in Nat, NEW x \in S
  PROVE  Total(g, S) = g[x] + Total(g, S \ {x})
<1>1. PICK F : IsSum(F, g, S) /\ Total(g, S) = F[S]
  BY TotalIsSum
<1>2. F[S] = g[x] + F[S \ {x}]
  BY <1>1, SumAny
<1>3. IsFiniteSet(S \ {x}) /\ S \ {x} \subseteq S
  BY FS_RemoveElement
<1> DEFINE R == S \ {x}
<1> HIDE DEF R
<1>4. Total(g, R) = F[R]
  BY <1>1, <1>3, TotalIs DEF R
<1> QED
  BY <1>1, <1>2, <1>4 DEF R

\* The sum of the first n + 1 numbers.
LEMMA TotalNext ==
  ASSUME NEW n \in Nat, NEW g, \A i \in 1..(n + 1) : g[i] \in Nat
  PROVE  Total(g, 1..(n + 1)) = Total(g, 1..n) + g[n + 1]
<1> DEFINE S == 1..(n + 1)
<1>1. IsFiniteSet(S) /\ n + 1 \in S /\ S \ {n + 1} = 1..n
  BY FS_Interval
<1>2. IsFiniteSet(1..n) /\ \A i \in 1..n : g[i] \in Nat
  BY FS_Interval
<1>3. Total(g, 1..n) \in Nat
  BY <1>2, TotalNat
<1>4. \A x \in S : g[x] \in Nat
  OBVIOUS
<1> HIDE DEF S
<1>5. Total(g, S) = g[n + 1] + Total(g, S \ {n + 1})
  BY <1>1, <1>4, TotalWithout
<1>6. g[n + 1] \in Nat
  BY <1>1, <1>4
<1>7. Total(g, S) = g[n + 1] + Total(g, 1..n)
  BY <1>1, <1>5
<1> DEFINE a == Total(g, 1..n)
           b == g[n + 1]
<1>8. a \in Nat /\ b \in Nat /\ Total(g, S) = b + a
  BY <1>3, <1>6, <1>7
<1> HIDE DEF a, b
<1>9. Total(g, S) = a + b
  BY <1>8
<1> QED
  BY <1>9 DEF S, a, b
=============================================================================
