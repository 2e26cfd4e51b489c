----------------------------- MODULE SetLemmas ------------------------------
(***************************************************************************)
(* Facts about finite sets and finite functions that the proofs of several *)
(* components rest on: least and greatest elements, induction and          *)
(* recursion up to a number, the sequence of a set's elements in an order, *)
(* and the size of a union.                                                *)
(***************************************************************************)
EXTENDS Integers, FiniteSets, FiniteSetTheorems, WellFoundedInduction, TLAPS

\* A family of subsets of a finite set has a minimal member.
LEMMA MinimalMember ==
  ASSUME NEW U, IsFiniteSet(U), NEW F, F \subseteq SUBSET U, F # {}
  PROVE  \E X \in F : \A Y \in F : Y \subseteq X => Y = X
<1>1. FiniteSubsetsOf(U) = SUBSET U
  BY FS_FiniteSubsetsOfFinite
<1>2. IsWellFoundedOn(StrictSubsetOrdering(U), SUBSET U)
  BY <1>1, FS_StrictSubsetOrderingWellFounded
<1>3. PICK X \in F : \A Y \in F : <<Y, X>> \notin StrictSubsetOrdering(U)
  BY <1>2, WFMin
<1>4. ASSUME NEW Y \in F, Y \subseteq X, Y # X
      PROVE  FALSE
  <2>1. <<Y, X>> \in StrictSubsetOrdering(U)
    BY <1>4 DEF StrictSubsetOrdering
  <2> QED
    BY <2>1, <1>3
<1> QED
  BY <1>4

\* Some of the first N numbers have a least one.
LEMMA LeastElement ==
  ASSUME NEW N \in Nat, NEW S \in SUBSET (1 .. N), S # {}
  PROVE  \E x \in S : \A y \in S : x <= y
<1>1. PICK U : U = 1 .. N
  OBVIOUS
<1> DEFINE F == {1 .. x : x \in S}
<1>2. PICK X \in F : \A Y \in F : Y \subseteq X => Y = X
  <2>1. IsFiniteSet(U)
    BY <1>1, FS_Interval
  <2>2. F \subseteq SUBSET U
    BY <1>1
  <2>3. F # {}
    OBVIOUS
  <2> HIDE DEF F
  <2> QED
    BY <2>1, <2>2, <2>3, MinimalMember
<1>3. PICK x \in S : X = 1 .. x
  OBVIOUS
<1>4. \A y \in S : x <= y
  <2> SUFFICES ASSUME NEW y \in S, y < x
               PROVE  FALSE
    OBVIOUS
  <2>1. 1 .. y \in F /\ 1 .. y \subseteq 1 .. x
    OBVIOUS
  <2>2. x \in 1 .. x /\ x \notin 1 .. y
    OBVIOUS
  <2> QED
    BY <2>1, <2>2, <1>2, <1>3
<1> QED
  BY <1>4

\* They have a greatest one, too.
LEMMA GreatestElement ==
  ASSUME NEW N \in Nat, NEW S \in SUBSET (1 .. N), S # {}
  PROVE  \E x \in S : \A y \in S : y <= x
<1>1. PICK U : U = 1 .. N
  OBVIOUS
<1> DEFINE F == {x .. N : x \in S}
<1>2. PICK X \in F : \A Y \in F : Y \subseteq X => Y = X
  <2>1. IsFiniteSet(U)
    BY <1>1, FS_Interval
  <2>2. F \subseteq SUBSET U
    BY <1>1
  <2>3. F # {}
    OBVIOUS
  <2> HIDE DEF F
  <2> QED
    BY <2>1, <2>2, <2>3, MinimalMember
<1>3. PICK x \in S : X = x .. N
  OBVIOUS
<1>4. \A y \in S : y <= x
  <2> SUFFICES ASSUME NEW y \in S, y > x
               PROVE  FALSE
    OBVIOUS
  <2>1. y .. N \in F /\ y .. N \subseteq x .. N
    OBVIOUS
  <2>2. x \in x .. N /\ x \notin y .. N
    OBVIOUS
  <2> QED
    BY <2>1, <2>2, <1>2, <1>3
<1> QED
  BY <1>4

\* What holds of 0, and of n when it holds of n - 1, holds of the numbers up to N.
LEMMA CountUp ==
  ASSUME NEW N \in Nat, NEW P, 0 \in P, \A n \in 1 .. N : n - 1 \in P => n \in P
  PROVE  \A n \in 0 .. N : n \in P
<1> DEFINE S == {n \in 1 .. N : n \notin P}
<1> SUFFICES S = {}
  OBVIOUS
<1> SUFFICES ASSUME S # {}
             PROVE  FALSE
  OBVIOUS
<1>1. PICK x \in S : \A y \in S : x <= y
  <2>1. S \in SUBSET (1 .. N)
    OBVIOUS
  <2> HIDE DEF S
  <2> QED
    BY <2>1, LeastElement
<1>2. x - 1 \in P
  BY <1>1
<1> QED
  BY <1>1, <1>2

\* A function that is given at 0, and at n by its value at n - 1.
Iterates(g, N, b, G) == g[0] = b /\ \A n \in 1 .. N : g[n] = G[n][g[n - 1]]

LEMMA Iteration ==
  ASSUME NEW N \in Nat, NEW S, NEW b \in S, NEW G \in [1 .. N -> [S -> S]]
  PROVE  \E g \in [0 .. N -> S] : Iterates(g, N, b, G)
<1> DEFINE P == {n \in 0 .. N : \E g \in [0 .. n -> S] : Iterates(g, n, b, G)}
<1>1. 0 \in P
  <2>1. [n \in 0 .. 0 |-> b] \in [0 .. 0 -> S]
    OBVIOUS
  <2>2. Iterates([n \in 0 .. 0 |-> b], 0, b, G)
    BY DEF Iterates
  <2> QED
    BY <2>1, <2>2
<1>2. ASSUME NEW n \in 1 .. N, n - 1 \in P
      PROVE  n \in P
  <2>1. PICK g \in [0 .. n - 1 -> S] : Iterates(g, n - 1, b, G)
    BY <1>2
  <2> DEFINE h == [i \in 0 .. n |-> IF i = n THEN G[n][g[n - 1]] ELSE g[i]]
  <2>2. h \in [0 .. n -> S]
    <3>1. g[n - 1] \in S
      OBVIOUS
    <3>2. G[n][g[n - 1]] \in S
      BY <3>1
    <3> HIDE DEF P
    <3>3. \A i \in 0 .. n : h[i] \in S
      BY <3>2
    <3> QED
      BY <3>3
  <2>3. Iterates(h, n, b, G)
    BY <2>1 DEF Iterates
  <2> QED
    BY <2>2, <2>3
<1>3. N \in P
  <2>1. \A n \in 1 .. N : n - 1 \in P => n \in P
    BY <1>2
  <2> HIDE DEF P
  <2>2. \A n \in 0 .. N : n \in P
    BY <1>1, <2>1, CountUp
  <2> QED
    BY <2>2
<1> QED
  BY <1>3

\* The size of a set, with and without one element.
LEMMA CountWithout ==
  ASSUME NEW S, IsFiniteSet(S), NEW c
  PROVE  /\ IsFiniteSet(S \ {c}) /\ Cardinality(S \ {c}) \in Nat
         /\ Cardinality(S) = Cardinality(S \ {c}) + (IF c \in S THEN 1 ELSE 0)
<1>1. /\ IsFiniteSet(S \ {c})
      /\ Cardinality(S \ {c}) = IF c \in S THEN Cardinality(S) - 1 ELSE Cardinality(S)
  BY FS_RemoveElement
<1>2. Cardinality(S) \in Nat /\ Cardinality(S \ {c}) \in Nat
  BY <1>1, FS_CardinalityType
<1> QED
  BY <1>1, <1>2

LEMMA FiniteNumbers ==
  ASSUME NEW N \in Nat, NEW S \in SUBSET (1 .. N)
  PROVE  IsFiniteSet(S) /\ Cardinality(S) \in Nat
<1>1. IsFiniteSet(1 .. N)
  BY FS_Interval
<1>2. IsFiniteSet(S)
  BY <1>1, FS_Subset
<1> QED
  BY <1>2, FS_CardinalityType

\* R, a set of pairs, is a strict order of all elements of X.
Orders(R, X) ==
  /\ \A x \in X : <<x, x>> \notin R
  /\ \A x, y \in X : x = y \/ <<x, y>> \in R \/ <<y, x>> \in R
  /\ \A x, y, z \in X : <<x, y>> \in R /\ <<y, z>> \in R => <<x, z>> \in R

\* The elements of X in that order.
Ranks(seq, X, R) ==
  /\ seq \in [1 .. Cardinality(X) -> X]
  /\ \A i, j \in 1 .. Cardinality(X) : i < j => <<seq[i], seq[j]>> \in R

LEMMA LastOfOrder ==
  ASSUME NEW X, IsFiniteSet(X), X # {}, NEW R, Orders(R, X)
  PROVE  \E m \in X : \A x \in X : x # m => <<x, m>> \in R
<1> DEFINE Up(x) == {y \in X : y = x \/ <<x, y>> \in R}
           F == {Up(x) : x \in X}
<1>1. PICK Y \in F : \A Z \in F : Z \subseteq Y => Z = Y
  <2>1. F \subseteq SUBSET X /\ F # {}
    OBVIOUS
  <2> HIDE DEF F
  <2> QED
    BY <2>1, MinimalMember
<1>2. PICK m \in X : Y = Up(m)
  OBVIOUS
<1>3. ASSUME NEW x \in X, <<m, x>> \in R
      PROVE  FALSE
  <2>1. Up(x) \subseteq Up(m)
    BY <1>3 DEF Orders
  <2>2. Up(x) \in F
    OBVIOUS
  <2>3. Up(x) = Up(m)
    BY <1>1, <1>2, <2>1, <2>2
  <2>4. m \in Up(x)
    BY <2>3
  <2>5. m = x \/ <<x, m>> \in R
    BY <2>4
  <2> QED
    BY <1>3, <2>5 DEF Orders
<1> QED
  BY <1>3 DEF Orders

LEMMA RankingExists ==
  ASSUME NEW U, IsFiniteSet(U), NEW R, Orders(R, U)
  PROVE  \E seq : Ranks(seq, U, R)
<1> DEFINE F == {X \in SUBSET U : ~ \E seq : Ranks(seq, X, R)}
<1> SUFFICES ASSUME F # {}
             PROVE  FALSE
  OBVIOUS
<1>3. PICK X \in F : \A Y \in F : Y \subseteq X => Y = X
  <2>1. F \subseteq SUBSET U
    OBVIOUS
  <2> HIDE DEF F
  <2> QED
    BY <2>1, MinimalMember
<1>4. IsFiniteSet(X) /\ X \subseteq U
  BY FS_Subset
<1>5. X # {}
  <2>1. ASSUME X = {}
        PROVE  Ranks([i \in 1 .. 0 |-> i], X, R)
    <3>1. Cardinality(X) = 0
      BY <2>1, FS_EmptySet
    <3> QED
      BY <3>1 DEF Ranks
  <2> QED
    BY <2>1, <1>3
<1>6. PICK m \in X : \A x \in X : x # m => <<x, m>> \in R
  <2>1. Orders(R, X)
    BY <1>4 DEF Orders
  <2> QED
    BY <1>4, <1>5, <2>1, LastOfOrder
<1> DEFINE Y == X \ {m}
           n == Cardinality(Y)
<1>7. n \in Nat /\ Cardinality(X) = n + 1
  BY <1>4, CountWithout
<1>8. PICK f : Ranks(f, Y, R)
  <2>1. Y \subseteq X /\ Y # X /\ Y \in SUBSET U
    OBVIOUS
  <2>2. Y \notin F
    BY <1>3, <2>1
  <2> QED
    BY <2>1, <2>2
<1>9. Ranks([i \in 1 .. n + 1 |-> IF i <= n THEN f[i] ELSE m], X, R)
  <2> DEFINE g == [i \in 1 .. n + 1 |-> IF i <= n THEN f[i] ELSE m]
  <2>1. f \in [1 .. n -> Y] /\ \A i, j \in 1 .. n : i < j => <<f[i], f[j]>> \in R
    BY <1>8 DEF Ranks
  <2>2. ASSUME NEW i \in 1 .. n
        PROVE  f[i] \in X /\ <<f[i], m>> \in R
    <3>1. f[i] \in Y
      BY <2>1
    <3> QED
      BY <1>6, <3>1
  <2>3. g \in [1 .. n + 1 -> X]
    <3> SUFFICES ASSUME NEW i \in 1 .. n + 1
                 PROVE  g[i] \in X
      OBVIOUS
    <3>1. CASE i <= n
      <4>1. i \in 1 .. n /\ g[i] = f[i]
        BY <1>7, <3>1
      <4> QED
        BY <2>2, <4>1
    <3>2. CASE ~(i <= n)
      BY <3>2
    <3> QED
      BY <3>1, <3>2
  <2>4. ASSUME NEW i \in 1 .. n + 1, NEW j \in 1 .. n + 1, i < j
        PROVE  <<g[i], g[j]>> \in R
    <3>1. i \in 1 .. n /\ g[i] = f[i]
      BY <1>7, <2>4
    <3>2. CASE j <= n
      <4>1. j \in 1 .. n /\ g[j] = f[j]
        BY <1>7, <3>2
      <4> QED
        BY <2>1, <2>4, <3>1, <4>1
    <3>3. CASE ~(j <= n)
      <4>1. g[j] = m
        BY <3>3
      <4> QED
        BY <2>2, <3>1, <4>1
    <3> QED
      BY <3>2, <3>3
  <2> HIDE DEF g
  <2> QED
    BY <1>7, <2>3, <2>4 DEF Ranks
<1> QED
  BY <1>3, <1>9

\* No element is left out, and none comes twice.
LEMMA RankingIsOnto ==
  ASSUME NEW X, IsFiniteSet(X), NEW R, Orders(R, X), NEW seq, Ranks(seq, X, R)
  PROVE  /\ \A x \in X : \E i \in 1 .. Cardinality(X) : seq[i] = x
         /\ \A i, j \in 1 .. Cardinality(X) : seq[i] = seq[j] => i = j
<1> DEFINE n == Cardinality(X)
<1>1. n \in Nat
  BY FS_CardinalityType
<1>2. \A i \in 1 .. n : seq[i] \in X
  BY DEF Ranks
<1>3. ASSUME NEW i \in 1 .. n, NEW j \in 1 .. n, seq[i] = seq[j]
      PROVE  i = j
  <2>1. ASSUME NEW k \in 1 .. n, NEW l \in 1 .. n, seq[k] = seq[l], k < l
        PROVE  FALSE
    <3>1. <<seq[k], seq[l]>> \in R
      BY <2>1 DEF Ranks
    <3> QED
      BY <1>2, <2>1, <3>1 DEF Orders
  <2>2. ~(i < j) /\ ~(j < i)
    BY <1>3, <2>1
  <2> QED
    BY <1>1, <2>2
<1>4. seq \in Injection(1 .. n, X)
  BY <1>3 DEF Ranks, Injection, IsInjective
<1>5. IsFiniteSet(1 .. n) /\ Cardinality(1 .. n) = n
  BY <1>1, FS_Interval
<1>6. seq \in Surjection(1 .. n, X)
  BY <1>4, <1>5, FS_Injection
<1> QED
  BY <1>3, <1>6 DEF Surjection

\* The elements of a set of numbers in their order.
InOrder(S, seq) ==
  /\ seq \in [1 .. Cardinality(S) -> S]
  /\ \A i, j \in DOMAIN seq : i < j => seq[i] < seq[j]

\* They are ranked by the order of the numbers.
NumberOrder(S) == {p \in S \X S : p[1] < p[2]}

LEMMA OrderIsRanking ==
  ASSUME NEW S \in SUBSET Nat
  PROVE  /\ Orders(NumberOrder(S), S)
         /\ \A seq : InOrder(S, seq) <=> Ranks(seq, S, NumberOrder(S))
<1>1. \A x, y \in S : <<x, y>> \in NumberOrder(S) <=> x < y
  BY DEF NumberOrder
<1>2. Orders(NumberOrder(S), S)
  BY <1>1 DEF Orders
<1>3. ASSUME NEW seq
      PROVE  InOrder(S, seq) <=> Ranks(seq, S, NumberOrder(S))
  BY <1>1 DEF InOrder, Ranks
<1> QED
  BY <1>2, <1>3

LEMMA OrderExists ==
  ASSUME NEW N \in Nat, NEW S \in SUBSET (1 .. N)
  PROVE  \E seq : InOrder(S, seq)
<1>1. IsFiniteSet(S)
  BY FiniteNumbers
<1>2. S \in SUBSET Nat
  OBVIOUS
<1> QED
  BY <1>1, <1>2, OrderIsRanking, RankingExists

\* No element is left out.
LEMMA OrderIsOnto ==
  ASSUME NEW S \in SUBSET Nat, IsFiniteSet(S), NEW seq, InOrder(S, seq), NEW x \in S
  PROVE  \E i \in 1 .. Cardinality(S) : seq[i] = x
<1>1. Orders(NumberOrder(S), S) /\ Ranks(seq, S, NumberOrder(S))
  BY OrderIsRanking
<1> QED
  BY <1>1, RankingIsOnto

\* The size of two sets that share nothing.
LEMMA DisjointUnion ==
  ASSUME NEW S, NEW T, IsFiniteSet(S), IsFiniteSet(T), S \cap T = {}
  PROVE  /\ Cardinality(S) \in Nat /\ Cardinality(T) \in Nat
         /\ Cardinality(S \cup T) = Cardinality(S) + Cardinality(T)
<1>1. Cardinality(S \cup T) = Cardinality(S) + Cardinality(T) - Cardinality(S \cap T)
  BY FS_Union
<1>2. Cardinality(S \cap T) = 0
  BY FS_EmptySet
<1>3. Cardinality(S) \in Nat /\ Cardinality(T) \in Nat
  BY FS_CardinalityType
<1> QED
  BY <1>1, <1>2, <1>3
=============================================================================
