----------------------------- MODULE OrderLemmas -----------------------------
(***************************************************************************)
(* Facts about natural numbers and finite ordered sets that the proofs of  *)
(* the storage engine share.                                               *)
(*                                                                         *)
(* The library's induction theorems take an operator; that the natural     *)
(* numbers are well ordered does not, so induction is over a set.          *)
(***************************************************************************)
EXTENDS Integers, FiniteSets, FiniteSetsExt, FiniteSetTheorems, FunctionTheorems,
        WellFoundedInduction, TLAPS

\* Any set of natural numbers that has an element has a least one.
LEMMA LeastElement ==
    ASSUME NEW T \in SUBSET Nat, T # {}
    PROVE  \E x \in T : \A y \in T : x <= y
<1> DEFINE less == {p \in Nat \X Nat : p[1] < p[2]}
<1>1. IsWellFoundedOn(less, Nat)
  BY NatLessThanWellFounded DEF OpToRel
<1>2. \A x, y \in Nat : <<x, y>> \in less <=> x < y
  OBVIOUS
<1> HIDE DEF less
<1>3. PICK x \in T : \A y \in T : ~(<<y, x>> \in less)
  BY <1>1, WFMin
<1>4. ASSUME NEW y \in T PROVE x <= y
  <2>1. x \in Nat /\ y \in Nat
    OBVIOUS
  <2>2. ~(y < x)
    BY <1>2, <1>3, <2>1
  <2> QED BY <2>1, <2>2
<1> QED BY <1>4

\* A set that contains 0 and the successor of each of its natural numbers
\* contains all of them.
LEMMA SetInduction ==
    ASSUME NEW S, 0 \in S, \A n \in Nat : n \in S => n + 1 \in S
    PROVE  \A n \in Nat : n \in S
<1> SUFFICES ASSUME NEW n \in Nat, n \notin S PROVE FALSE
  OBVIOUS
<1> DEFINE T == {m \in Nat : m \notin S}
<1>1. PICK x \in T : \A y \in T : x <= y
  BY LeastElement
<1>2. x # 0 /\ x - 1 \in Nat /\ (x - 1) + 1 = x
  BY <1>1
<1>3. x - 1 \in S
  BY <1>1, <1>2
<1> QED BY <1>1, <1>2, <1>3

\* A finite set of natural numbers that has an element has a largest one.
LEMMA LargestElement ==
    ASSUME NEW T \in SUBSET Nat, IsFiniteSet(T), T # {}
    PROVE  \E x \in T : \A y \in T : x >= y
<1> DEFINE S == {n \in Nat : \A f \in [1 .. n -> Nat] :
                    n # 0 => \E i \in 1 .. n : \A j \in 1 .. n : f[i] >= f[j]}
<1>1. 0 \in S
  OBVIOUS
<1>2. ASSUME NEW n \in Nat, n \in S PROVE n + 1 \in S
  <2>0. ASSUME NEW f \in [1 .. n + 1 -> Nat]
        PROVE  \E i \in 1 .. n + 1 : \A j \in 1 .. n + 1 : f[i] >= f[j]
    <3>1. CASE n = 0
      BY <3>1
    <3>2. CASE n # 0
      <4> DEFINE g == [i \in 1 .. n |-> f[i]]
      <4>1. g \in [1 .. n -> Nat]
        OBVIOUS
      <4>2. PICK i \in 1 .. n : \A j \in 1 .. n : g[i] >= g[j]
        BY <1>2, <3>2, <4>1
      <4>3. /\ i \in 1 .. n + 1 /\ n + 1 \in 1 .. n + 1
            /\ \A j \in 1 .. n + 1 : j = n + 1 \/ f[i] >= f[j]
            /\ \A j \in 1 .. n + 1 : f[j] \in Nat
        BY <4>2
      <4>4. CASE f[i] >= f[n + 1]
        BY <4>3, <4>4
      <4>5. CASE ~(f[i] >= f[n + 1])
        <5>1. \A j \in 1 .. n + 1 : f[n + 1] >= f[j]
          BY <4>3, <4>5
        <5> QED BY <4>3, <5>1
      <4> QED BY <4>4, <4>5
    <3> QED BY <3>1, <3>2
  <2>1. n + 1 \in Nat
    OBVIOUS
  <2> QED BY <2>0, <2>1
<1>3. \A n \in Nat : n \in S
  <2> HIDE DEF S
  <2> QED BY <1>1, <1>2, SetInduction
<1>4. /\ Cardinality(T) \in Nat
      /\ ExistsBijection(1 .. Cardinality(T), T)
  BY FS_CardinalityType
<1>5. PICK f : f \in Bijection(1 .. Cardinality(T), T)
  BY <1>4 DEF ExistsBijection
<1> DEFINE n == Cardinality(T)
<1>6. /\ f \in [1 .. n -> T]
      /\ \A t \in T : \E i \in 1 .. n : f[i] = t
  BY <1>5 DEF Bijection, Surjection, Injection
<1>7. n \in Nat /\ n # 0
  BY <1>4, FS_EmptySet
<1> HIDE DEF n
<1>8. f \in [1 .. n -> Nat]
  BY <1>6
<1>9. PICK i \in 1 .. n : \A j \in 1 .. n : f[i] >= f[j]
  BY <1>3, <1>7, <1>8
<1> QED BY <1>6, <1>9

\* Min of FiniteSetsExt, on the sets it is meant for.
LEMMA MinIs ==
    ASSUME NEW T \in SUBSET Nat, T # {}
    PROVE  Min(T) \in T /\ \A y \in T : Min(T) <= y
BY LeastElement DEF Min

\* Max of FiniteSetsExt, on the sets it is meant for.
LEMMA MaxIs ==
    ASSUME NEW T \in SUBSET Nat, IsFiniteSet(T), T # {}
    PROVE  Max(T) \in T /\ \A y \in T : Max(T) >= y
BY LargestElement DEF Max

-----------------------------------------------------------------------------
(* Finite sets in a strict order, given as a set of pairs.                 *)

StrictOrder(R, S) ==
    /\ \A x \in S : <<x, x>> \notin R
    /\ \A x, y, z \in S : <<x, y>> \in R /\ <<y, z>> \in R => <<x, z>> \in R
    /\ \A x, y \in S : x = y \/ <<x, y>> \in R \/ <<y, x>> \in R

\* How many elements of S come before x.
Rank(R, S, x) == Cardinality({y \in S : <<y, x>> \in R})

\* A finite ordered set has one element of each rank, and what comes first has
\* the smaller rank.
LEMMA Ranks ==
    ASSUME NEW S, IsFiniteSet(S), NEW R, StrictOrder(R, S)
    PROVE  /\ \A x, y \in S : <<x, y>> \in R => Rank(R, S, x) < Rank(R, S, y)
           /\ \A x \in S : Rank(R, S, x) \in 0 .. Cardinality(S) - 1
           /\ \A i \in 0 .. Cardinality(S) - 1 : \E x \in S : Rank(R, S, x) = i
<1> DEFINE lower(x) == {y \in S : <<y, x>> \in R}
           n == Cardinality(S)
<1>0. n \in Nat
  BY FS_CardinalityType
<1>1. \A x \in S : IsFiniteSet(lower(x)) /\ Rank(R, S, x) = Cardinality(lower(x))
                  /\ Rank(R, S, x) \in Nat
  <2> SUFFICES ASSUME NEW x \in S
               PROVE  IsFiniteSet(lower(x)) /\ Cardinality(lower(x)) \in Nat
    BY DEF Rank
  <2>1. lower(x) \in SUBSET S
    OBVIOUS
  <2> HIDE DEF lower
  <2> QED BY <2>1, FS_Subset, FS_CardinalityType
<1>2. ASSUME NEW x \in S, NEW y \in S, <<x, y>> \in R
      PROVE  Rank(R, S, x) < Rank(R, S, y)
  <2>1. lower(x) \in SUBSET lower(y) /\ x \in lower(y) /\ x \notin lower(x)
    BY <1>2 DEF StrictOrder
  <2> HIDE DEF lower
  <2>2. Cardinality(lower(x)) <= Cardinality(lower(y))
        /\ (Cardinality(lower(y)) = Cardinality(lower(x)) => lower(y) = lower(x))
    BY <1>1, <2>1, FS_Subset
  <2>3. Cardinality(lower(x)) \in Nat /\ Cardinality(lower(y)) \in Nat
    BY <1>1, FS_CardinalityType
  <2> QED BY <1>1, <2>1, <2>2, <2>3
<1>3. ASSUME NEW x \in S PROVE Rank(R, S, x) \in 0 .. n - 1
  <2>1. lower(x) \in SUBSET S /\ x \notin lower(x)
    BY DEF StrictOrder
  <2> HIDE DEF lower
  <2>2. Cardinality(lower(x)) <= n /\ (n = Cardinality(lower(x)) => S = lower(x))
    BY <2>1, FS_Subset
  <2>3. Rank(R, S, x) = Cardinality(lower(x)) /\ Rank(R, S, x) \in Nat
    BY <1>1
  <2> QED BY <1>0, <2>1, <2>2, <2>3
<1> HIDE DEF lower, n
<1> DEFINE f == [x \in S |-> Rank(R, S, x)]
<1>4. f \in Injection(S, 0 .. n - 1)
  <2>1. f \in [S -> 0 .. n - 1]
    BY <1>3
  <2>2. ASSUME NEW x \in S, NEW y \in S, f[x] = f[y] PROVE x = y
    <3>1. Rank(R, S, x) = Rank(R, S, y) /\ Rank(R, S, x) \in Nat
      BY <1>1, <2>2
    <3>2. <<x, y>> \notin R /\ <<y, x>> \notin R
      BY <1>2, <3>1
    <3> QED BY <3>2 DEF StrictOrder
  <2> QED BY <2>1, <2>2 DEF Injection, IsInjective
<1>5. IsFiniteSet(0 .. n - 1) /\ Cardinality(0 .. n - 1) = n
  <2>1. 0 \in Int /\ n - 1 \in Int
    BY <1>0
  <2> QED BY <1>0, <2>1, FS_Interval
<1>6. f \in Surjection(S, 0 .. n - 1)
  BY <1>4, <1>5, FS_Injection DEF n
<1>7. \A i \in 0 .. n - 1 : \E x \in S : Rank(R, S, x) = i
  BY <1>6 DEF Surjection
<1> QED BY <1>2, <1>3, <1>7 DEF n

\* The first and the last element.
LEMMA Ends ==
    ASSUME NEW S, IsFiniteSet(S), S # {}, NEW R, StrictOrder(R, S)
    PROVE  /\ \E x \in S : \A y \in S : y = x \/ <<x, y>> \in R
           /\ \E x \in S : \A y \in S : y = x \/ <<y, x>> \in R
<1> DEFINE n == Cardinality(S)
<1>1. n \in Nat /\ n # 0
  BY FS_CardinalityType, FS_EmptySet
<1> HIDE DEF n
<1>2. \A x \in S : Rank(R, S, x) \in 0 .. n - 1
  BY Ranks DEF n
<1>3. \A x, y \in S : <<x, y>> \in R => Rank(R, S, x) < Rank(R, S, y)
  BY Ranks
<1>4. \A i \in 0 .. n - 1 : \E x \in S : Rank(R, S, x) = i
  BY Ranks DEF n
<1>5. PICK x \in S : Rank(R, S, x) = 0
  BY <1>1, <1>4
<1>6. PICK z \in S : Rank(R, S, z) = n - 1
  BY <1>1, <1>4
<1>7. ASSUME NEW y \in S PROVE <<y, x>> \notin R /\ <<z, y>> \notin R
  BY <1>1, <1>2, <1>3, <1>5, <1>6
<1> QED BY <1>7 DEF StrictOrder

\* The sequence that puts each element where its rank says.
LEMMA Listed ==
    ASSUME NEW S, IsFiniteSet(S), NEW R, StrictOrder(R, S),
           NEW q, q = [i \in 1 .. Cardinality(S) |-> CHOOSE x \in S : Rank(R, S, x) = i - 1]
    PROVE  /\ Cardinality(S) \in Nat /\ q \in [1 .. Cardinality(S) -> S]
           /\ \A i, j \in 1 .. Cardinality(S) : i < j => <<q[i], q[j]>> \in R
           /\ \A x \in S : \E i \in 1 .. Cardinality(S) : q[i] = x
<1> DEFINE n == Cardinality(S)
<1>1. n \in Nat
  BY FS_CardinalityType
<1> HIDE DEF n
<1>2. \A x, y \in S : <<x, y>> \in R => Rank(R, S, x) < Rank(R, S, y)
  BY Ranks
<1>3. \A x \in S : Rank(R, S, x) \in 0 .. n - 1
  BY Ranks DEF n
<1>4. \A i \in 0 .. n - 1 : \E x \in S : Rank(R, S, x) = i
  BY Ranks DEF n
<1>5. ASSUME NEW i \in 1 .. n PROVE q[i] \in S /\ Rank(R, S, q[i]) = i - 1
  <2>1. i - 1 \in 0 .. n - 1
    BY <1>1
  <2>2. \E x \in S : Rank(R, S, x) = i - 1
    BY <1>4, <2>1
  <2>3. q[i] = CHOOSE x \in S : Rank(R, S, x) = i - 1
    BY DEF n
  <2> QED BY <2>2, <2>3
<1>6. q \in [1 .. n -> S]
  BY <1>5 DEF n
<1>7. ASSUME NEW i \in 1 .. n, NEW j \in 1 .. n, i < j PROVE <<q[i], q[j]>> \in R
  <2>1. Rank(R, S, q[i]) = i - 1 /\ Rank(R, S, q[j]) = j - 1 /\ q[i] \in S /\ q[j] \in S
    BY <1>5
  <2>2. q[i] # q[j] /\ ~(Rank(R, S, q[j]) < Rank(R, S, q[i]))
    BY <1>7, <2>1
  <2> QED BY <1>2, <2>1, <2>2 DEF StrictOrder
<1>8. ASSUME NEW x \in S PROVE \E i \in 1 .. n : q[i] = x
  <2>1. Rank(R, S, x) + 1 \in 1 .. n /\ Rank(R, S, x) \in Nat
    BY <1>1, <1>3
  <2>2. PICK i \in 1 .. n : i = Rank(R, S, x) + 1
    BY <2>1
  <2>3. q[i] \in S /\ Rank(R, S, q[i]) = Rank(R, S, x)
    BY <1>5, <2>1, <2>2
  <2>4. ~(Rank(R, S, q[i]) < Rank(R, S, x)) /\ ~(Rank(R, S, x) < Rank(R, S, q[i]))
    BY <2>1, <2>3
  <2>5. q[i] = x
    BY <1>2, <2>3, <2>4 DEF StrictOrder
  <2> QED BY <2>5
<1> QED BY <1>1, <1>6, <1>7, <1>8 DEF n
=============================================================================
