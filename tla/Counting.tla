------------------------------ MODULE Counting ------------------------------
(***************************************************************************)
(* What the proofs need of numbers, finite sets and sums and the library   *)
(* does not state.  Induction is over the elements of a set K of numbers,  *)
(* and comes from the least-number principle: the induction theorems of    *)
(* the library take an operator, WFMin takes a set.                        *)
(***************************************************************************)
EXTENDS Integers, Functions, FiniteSetTheorems, WellFoundedInduction, TLAPS

LEMMA NatBySets ==
    ASSUME NEW K \in SUBSET Nat, 0 \in K, \A n \in K : n + 1 \in K
    PROVE  K = Nat
  <1> DEFINE R == OpToRel(<, Nat)
             T == Nat \ K
  <1> SUFFICES ASSUME T # {}
               PROVE  FALSE
    OBVIOUS
  <1>1. IsWellFoundedOn(R, Nat)
    BY NatLessThanWellFounded
  <1>2. PICK m \in T : \A k \in T : ~(<<k, m>> \in R)
    <2> HIDE DEF R
    <2> QED
      BY <1>1, WFMin
  <1>3. \A k \in Nat : k < m => <<k, m>> \in R
    BY DEF OpToRel
  <1>4. m \in Nat /\ m # 0
    OBVIOUS
  <1>5. m - 1 \in Nat /\ m - 1 < m
    BY <1>4
  <1>6. m - 1 \in K
    BY <1>2, <1>3, <1>5
  <1>7. (m - 1) + 1 \in K
    BY <1>6
  <1> QED
    BY <1>4, <1>7

\* A set of numbers has a least one.
LEMMA LeastExists ==
    ASSUME NEW K \in SUBSET Nat, K # {}
    PROVE  \E m \in K : \A k \in K : m <= k
  <1> DEFINE R == OpToRel(<, Nat)
  <1>1. IsWellFoundedOn(R, Nat)
    BY NatLessThanWellFounded
  <1>2. PICK m \in K : \A k \in K : ~(<<k, m>> \in R)
    <2> HIDE DEF R
    <2> QED
      BY <1>1, WFMin
  <1>3. \A k \in Nat : k < m => <<k, m>> \in R
    BY DEF OpToRel
  <1>4. \A k \in K : ~(k < m) /\ k \in Nat /\ m \in Nat
    BY <1>2, <1>3
  <1> HIDE DEF R
  <1> QED
    BY <1>4

\* A set of places in a sequence has a last one.
LEMMA TopExists ==
    ASSUME NEW n \in Nat, NEW T \in SUBSET (1..n), T # {}
    PROVE  \E m \in T : \A k \in T : k <= m
  <1> DEFINE Good(i) == \A U \in SUBSET (1..i) : U # {} => \E m \in U : \A k \in U : k <= m
             K == {i \in Nat : Good(i)}
  <1>1. 0 \in K
    <2>1. 1..0 = {} /\ 0 \in Nat
      OBVIOUS
    <2>2. Good(0)
      BY <2>1
    <2> QED
      BY <2>1, <2>2
  <1>2. ASSUME NEW i \in K
        PROVE  i + 1 \in K
    <2>1. i \in Nat /\ Good(i)
      OBVIOUS
    <2>2. ASSUME NEW U \in SUBSET (1..i + 1), U # {}
          PROVE  \E m \in U : \A k \in U : k <= m
      <3>1. CASE i + 1 \in U
        BY <2>1, <3>1
      <3>2. CASE i + 1 \notin U
        <4>1. U \in SUBSET (1..i)
          BY <2>1, <3>2
        <4> HIDE DEF K
        <4> QED
          BY <2>1, <2>2, <4>1
      <3> QED
        BY <3>1, <3>2
    <2>3. Good(i + 1)
      BY <2>2
    <2> QED
      BY <2>1, <2>3
  <1>3. K = Nat
    <2> HIDE DEF K
    <2>1. K \in SUBSET Nat
      BY DEF K
    <2> QED
      BY <1>1, <1>2, <2>1, NatBySets
  <1> QED
    BY <1>3

Top(T) == CHOOSE x \in T : \A y \in T : x >= y

LEMMA TopIsLast ==
    ASSUME NEW n \in Nat, NEW T \in SUBSET (1..n), T # {}
    PROVE  /\ Top(T) \in T /\ \A k \in T : k <= Top(T)
           /\ T \ {Top(T)} \in SUBSET (1..n - 1)
  <1>1. Top(T) \in T /\ \A k \in T : Top(T) >= k
    BY TopExists DEF Top
  <1>2. ASSUME NEW k \in T \ {Top(T)}
        PROVE  k \in 1..n - 1
    <2>1. k \in 1..n /\ Top(T) \in 1..n /\ k <= Top(T) /\ k # Top(T)
      BY <1>1
    <2> QED
      BY <2>1
  <1> QED
    BY <1>1, <1>2

-----------------------------------------------------------------------------
(***************************************************************************)
(* Sizes of sets.                                                          *)
(***************************************************************************)
In(w, S) == IF w \in S THEN 1 ELSE 0

\* What one element adds to the size of a set.
LEMMA ButOne ==
    ASSUME NEW A, NEW B, NEW w, IsFiniteSet(A), A \ {w} = B \ {w}
    PROVE  /\ IsFiniteSet(B) /\ Cardinality(A) \in Nat /\ Cardinality(B) \in Nat
           /\ Cardinality(B) = Cardinality(A) - In(w, A) + In(w, B)
  <1>1. IsFiniteSet(A \ {w}) /\ Cardinality(A \ {w}) \in Nat
    <2>1. A \ {w} \in SUBSET A
      OBVIOUS
    <2> QED
      BY <2>1, FS_Subset, FS_CardinalityType
  <1>2. ASSUME NEW C, C \ {w} = A \ {w}
        PROVE  /\ IsFiniteSet(C)
               /\ Cardinality(C) = Cardinality(A \ {w}) + In(w, C)
    <2>1. CASE w \in C
      <3>1. C = (A \ {w}) \cup {w} /\ w \notin A \ {w}
        BY <1>2, <2>1
      <3> QED
        BY <1>1, <2>1, <3>1, FS_AddElement DEF In
    <2>2. CASE w \notin C
      <3>1. C = A \ {w}
        BY <1>2, <2>2
      <3> QED
        BY <1>1, <2>2, <3>1 DEF In
    <2> QED
      BY <2>1, <2>2
  <1> QED
    BY <1>1, <1>2 DEF In

\* As many values as places in a list that repeats none.
LEMMA CountingPlaces ==
    ASSUME NEW n \in Nat, NEW f, \A i, j \in 1..n : f[i] = f[j] => i = j,
           NEW T, \A i \in 1..n : f[i] \in T, \A x \in T : \E i \in 1..n : f[i] = x
    PROVE  Cardinality(T) = n
  <1> DEFINE g == [i \in 1..n |-> f[i]]
  <1>1. g \in [1..n -> T]
    OBVIOUS
  <1>2. \A i, j \in 1..n : g[i] = g[j] => i = j
    OBVIOUS
  <1>3. \A x \in T : \E i \in 1..n : g[i] = x
    OBVIOUS
  <1> HIDE DEF g
  <1>4. ExistsBijection(1..n, T)
    BY <1>1, <1>2, <1>3 DEF ExistsBijection, Bijection, Injection, Surjection, IsInjective
  <1> QED
    BY <1>4, FS_CountingElements

\* Sets without a common element.
LEMMA CountingApart ==
    ASSUME NEW S, NEW T, IsFiniteSet(S), IsFiniteSet(T), S \cap T = {}
    PROVE  /\ IsFiniteSet(S \cup T) /\ Cardinality(S) \in Nat /\ Cardinality(T) \in Nat
           /\ Cardinality(S \cup T) = Cardinality(S) + Cardinality(T)
  <1>1. Cardinality(S \cap T) = 0
    BY FS_EmptySet
  <1>2. /\ IsFiniteSet(S \cup T) /\ Cardinality(S) \in Nat /\ Cardinality(T) \in Nat
        /\ Cardinality(S \cup T) = Cardinality(S) + Cardinality(T) - Cardinality(S \cap T)
    BY FS_Union, FS_CardinalityType
  <1> QED
    BY <1>1, <1>2

\* A set of places has a list of its members in their order, each once.
LEMMA InOrder ==
    ASSUME NEW n \in Nat, NEW I \in SUBSET (1..n)
    PROVE  /\ Cardinality(I) \in Nat
           /\ \E f \in [1..Cardinality(I) -> I] :
                 /\ \A i, j \in 1..Cardinality(I) : i < j => f[i] < f[j]
                 /\ \A k \in I : \E i \in 1..Cardinality(I) : f[i] = k
  <1> DEFINE Lists(J, k) ==
               \E f \in [1..k -> J] :
                  /\ \A i, j \in 1..k : i < j => f[i] < f[j]
                  /\ \A x \in J : \E i \in 1..k : f[i] = x
             Good(m) == \A J \in SUBSET (1..m) : \E k \in Nat : Lists(J, k)
             K == {m \in Nat : Good(m)}
  <1>1. 0 \in K
    <2>1. 1..0 = {} /\ 0 \in Nat
      OBVIOUS
    <2>2. Lists({}, 0)
      <3>1. [i \in 1..0 |-> 0] \in [1..0 -> {}]
        BY <2>1
      <3> QED
        BY <2>1, <3>1
    <2>3. \A J \in SUBSET (1..0) : J = {}
      BY <2>1
    <2> HIDE DEF Lists
    <2>4. Good(0)
      BY <2>1, <2>2, <2>3
    <2> QED
      BY <2>1, <2>4
  <1>2. ASSUME NEW m \in K
        PROVE  m + 1 \in K
    <2>1. m \in Nat /\ Good(m)
      OBVIOUS
    <2>2. ASSUME NEW J \in SUBSET (1..m + 1)
          PROVE  \E k \in Nat : Lists(J, k)
      <3> HIDE DEF K
      <3>1. CASE m + 1 \notin J
        <4>1. J \in SUBSET (1..m)
          BY <2>1, <3>1
        <4> QED
          BY <2>1, <4>1
      <3>2. CASE m + 1 \in J
        <4> DEFINE J0 == J \ {m + 1}
        <4>1. J0 \in SUBSET (1..m) /\ J = J0 \cup {m + 1} /\ m + 1 \notin J0
          BY <2>1, <3>2
        <4>2. \A x \in J0 : x \in Nat /\ x < m + 1
          BY <2>1, <4>1
        <4> HIDE DEF J0
        <4>3. PICK k \in Nat : Lists(J0, k)
          BY <2>1, <4>1
        <4>4. PICK f \in [1..k -> J0] :
                 /\ \A i, j \in 1..k : i < j => f[i] < f[j]
                 /\ \A x \in J0 : \E i \in 1..k : f[i] = x
          BY <4>3
        <4> DEFINE g == [i \in 1..k + 1 |-> IF i = k + 1 THEN m + 1 ELSE f[i]]
        <4>5. \A i \in 1..k + 1 : i # k + 1 => i \in 1..k
          OBVIOUS
        <4>6. g \in [1..k + 1 -> J]
          BY <4>1, <4>4, <4>5
        <4>7. k + 1 \in 1..k + 1 /\ g[k + 1] = m + 1 /\ \A i \in 1..k : i \in 1..k + 1 /\ i # k + 1 /\ g[i] = f[i]
          BY <4>3
        <4> HIDE DEF g
        <4>8. ASSUME NEW i \in 1..k + 1, NEW j \in 1..k + 1, i < j
              PROVE  g[i] < g[j]
          <5>1. i \in 1..k
            BY <4>3, <4>8
          <5>2. f[i] \in J0 /\ g[i] = f[i]
            BY <4>4, <4>7, <5>1
          <5>3. CASE j = k + 1
            <6>1. f[i] < m + 1
              BY <4>2, <5>2
            <6> QED
              BY <4>7, <5>2, <5>3, <6>1
          <5>4. CASE j # k + 1
            <6>1. j \in 1..k /\ g[j] = f[j]
              BY <4>5, <4>7, <5>4
            <6>2. f[i] < f[j]
              BY <4>4, <4>8, <5>1, <6>1
            <6> QED
              BY <5>2, <6>1, <6>2
          <5> QED
            BY <5>3, <5>4
        <4>9. \A x \in J : \E i \in 1..k + 1 : g[i] = x
          BY <4>1, <4>4, <4>7
        <4>10. Lists(J, k + 1)
          BY <4>6, <4>8, <4>9
        <4>11. k + 1 \in Nat
          BY <4>3
        <4> HIDE DEF Lists
        <4> QED
          BY <4>10, <4>11
      <3> QED
        BY <3>1, <3>2
    <2> HIDE DEF Lists
    <2>3. Good(m + 1) /\ m + 1 \in Nat
      BY <2>1, <2>2
    <2> HIDE DEF Good
    <2> QED
      BY <2>3
  <1>3. K = Nat
    <2> HIDE DEF K
    <2>1. K \in SUBSET Nat
      BY DEF K
    <2> QED
      BY <1>1, <1>2, <2>1, NatBySets
  <1>4. PICK k \in Nat : Lists(I, k)
    <2> HIDE DEF Lists
    <2> QED
      BY <1>3
  <1>5. PICK f \in [1..k -> I] :
           /\ \A i, j \in 1..k : i < j => f[i] < f[j]
           /\ \A x \in I : \E i \in 1..k : f[i] = x
    BY <1>4
  <1>6. \A i, j \in 1..k : f[i] = f[j] => i = j
    <2>1. ASSUME NEW i \in 1..k, NEW j \in 1..k, f[i] = f[j]
          PROVE  i = j
      <3>0. f[i] \in I /\ f[j] \in I /\ \A x \in I : x \in Nat
        BY <1>5
      <3>1. f[i] \in Nat /\ f[j] \in Nat
        BY <3>0
      <3>2. ~(f[i] < f[j]) /\ ~(f[j] < f[i])
        BY <2>1, <3>1
      <3>3. ~(i < j) /\ ~(j < i)
        BY <1>5, <3>2
      <3> QED
        BY <3>3
    <2> QED
      BY <2>1
  <1>7. Cardinality(I) = k
    <2>1. \A i \in 1..k : f[i] \in I
      BY <1>5
    <2> HIDE DEF Lists, Good, K
    <2> QED
      BY <1>4, <1>5, <1>6, <2>1, CountingPlaces
  <1> QED
    BY <1>4, <1>5, <1>7

\* The i-th of a set of places.
Nth(I, i) == CHOOSE k \in I : Cardinality({j \in I : j <= k}) = i

LEMMA NthInOrder ==
    ASSUME NEW n \in Nat, NEW I \in SUBSET (1..n)
    PROVE  /\ Cardinality(I) \in Nat
           /\ \A i \in 1..Cardinality(I) : Nth(I, i) \in I
           /\ \A i, j \in 1..Cardinality(I) : i < j => Nth(I, i) < Nth(I, j)
           /\ \A k \in I : \E i \in 1..Cardinality(I) : Nth(I, i) = k
  <1> DEFINE m == Cardinality(I)
  <1>1. m \in Nat
    BY InOrder
  <1>2. PICK f \in [1..m -> I] :
           /\ \A i, j \in 1..m : i < j => f[i] < f[j]
           /\ \A k \in I : \E i \in 1..m : f[i] = k
    BY InOrder
  <1> HIDE DEF m
  <1>3. \A i \in 1..m : f[i] \in I /\ f[i] \in Nat
    <2>1. \A x \in I : x \in Nat
      OBVIOUS
    <2> QED
      BY <1>2, <2>1
  <1>4. ASSUME NEW i \in 1..m
        PROVE  Cardinality({j \in I : j <= f[i]}) = i
    <2> DEFINE T == {j \in I : j <= f[i]}
    <2>1. \A a, b \in 1..i : f[a] = f[b] => a = b
      <3> SUFFICES ASSUME NEW a \in 1..i, NEW b \in 1..i, f[a] = f[b], a # b
                   PROVE  FALSE
        OBVIOUS
      <3>1. a \in 1..m /\ b \in 1..m /\ (a < b \/ b < a)
        BY <1>1
      <3> QED
        BY <1>2, <1>3, <3>1
    <2>2. \A a \in 1..i : f[a] \in T
      <3> SUFFICES ASSUME NEW a \in 1..i
                   PROVE  f[a] \in T
        OBVIOUS
      <3>1. a \in 1..m /\ (a = i \/ a < i)
        BY <1>1
      <3> QED
        BY <1>2, <1>3, <3>1
    <2>3. \A x \in T : \E a \in 1..i : f[a] = x
      <3> SUFFICES ASSUME NEW x \in T
                   PROVE  \E a \in 1..i : f[a] = x
        OBVIOUS
      <3>1. PICK a \in 1..m : f[a] = x
        BY <1>2
      <3>2. ~(i < a)
        BY <1>2, <1>3, <3>1
      <3> QED
        BY <1>1, <3>1, <3>2
    <2>4. i \in Nat
      BY <1>1
    <2> HIDE DEF T
    <2> QED
      BY <2>1, <2>2, <2>3, <2>4, CountingPlaces DEF T
  <1>5. ASSUME NEW i \in 1..m
        PROVE  Nth(I, i) = f[i]
    <2>1. \E k \in I : Cardinality({j \in I : j <= k}) = i
      BY <1>3, <1>4
    <2>2. Nth(I, i) \in I /\ Cardinality({j \in I : j <= Nth(I, i)}) = i
      BY <2>1 DEF Nth
    <2>3. PICK a \in 1..m : f[a] = Nth(I, i)
      BY <1>2, <2>2
    <2> QED
      BY <1>4, <2>2, <2>3
  <1> QED
    BY <1>1, <1>2, <1>3, <1>5 DEF m

\* The places of a stretch follow each other.
LEMMA NthOfStretch ==
    ASSUME NEW a \in Nat, NEW b \in Nat, a <= b
    PROVE  /\ Cardinality(a + 1..b) = b - a
           /\ \A i \in 1..b - a : Nth(a + 1..b, i) = a + i
  <1>1. Cardinality(a + 1..b) = b - a
    <2>1. CASE a = b
      <3>1. a + 1..b = {}
        BY <2>1
      <3> QED
        BY <2>1, <3>1, FS_EmptySet
    <2>2. CASE a < b
      BY <2>2, FS_Interval
    <2> QED
      BY <2>1, <2>2
  <1>2. ASSUME NEW i \in 1..b - a
        PROVE  Nth(a + 1..b, i) = a + i
    <2> DEFINE I == a + 1..b
               T(k) == {j \in I : j <= k}
    <2>1. \A k \in I : Cardinality(T(k)) = k - a
      <3> SUFFICES ASSUME NEW k \in I
                   PROVE  Cardinality(T(k)) = k - a
        OBVIOUS
      <3>1. T(k) = a + 1..k
        OBVIOUS
      <3>2. Cardinality(a + 1..k) = k - (a + 1) + 1
        <4>1. a + 1 \in Int /\ k \in Int /\ a + 1 <= k
          OBVIOUS
        <4> QED
          BY <4>1, FS_Interval
      <3>3. k - (a + 1) + 1 = k - a
        OBVIOUS
      <3> HIDE DEF T
      <3> QED
        BY <3>1, <3>2, <3>3
    <2>2. a + i \in I /\ Cardinality(T(a + i)) = i
      BY <2>1
    <2>3. Nth(I, i) \in I /\ Cardinality(T(Nth(I, i))) = i
      <3> HIDE DEF I
      <3> QED
        BY <2>2 DEF Nth
    <2> QED
      BY <2>1, <2>3
  <1> QED
    BY <1>1, <1>2

-----------------------------------------------------------------------------
(***************************************************************************)
(* Sums.  What SumFunction returns is proved by induction on the size of   *)
(* the set whose values it adds.                                           *)
(***************************************************************************)
Pick(T) == CHOOSE x \in T : TRUE
Partial(f, S) == CHOOSE g : g = [T \in SUBSET S |-> IF T = {} THEN 0 ELSE f[Pick(T)] + g[T \ {Pick(T)}]]

LEMMA TotalUnfold ==
    ASSUME NEW S, NEW f, DOMAIN f = S
    PROVE  SumFunction(f) = Partial(f, S)[S]
  BY DEF Partial, Pick, SumFunction, SumFunctionOnSet, FoldFunctionOnSet, MapThenFoldSet

Unfolds(g, f, S) == g = [T \in SUBSET S |-> IF T = {} THEN 0 ELSE f[Pick(T)] + g[T \ {Pick(T)}]]

\* The subsets of at most n elements.
UpTo(n, S) == {T \in SUBSET S : Cardinality(T) <= n}

LEMMA SmallerByOne ==
    ASSUME NEW S, IsFiniteSet(S), NEW T \in SUBSET S, T # {}
    PROVE  /\ Pick(T) \in T /\ T \ {Pick(T)} \in SUBSET S
           /\ IsFiniteSet(T) /\ Cardinality(T) \in Nat /\ Cardinality(T) > 0
           /\ Cardinality(T \ {Pick(T)}) = Cardinality(T) - 1
  <1>1. Pick(T) \in T
    BY DEF Pick
  <1>2. IsFiniteSet(T)
    BY FS_Subset
  <1>3. Cardinality(T) \in Nat /\ Cardinality(T) # 0
    BY <1>2, FS_CardinalityType, FS_EmptySet
  <1>4. Cardinality(T \ {Pick(T)}) = Cardinality(T) - 1
    BY <1>1, <1>2, FS_RemoveElement
  <1> QED
    BY <1>1, <1>2, <1>3, <1>4

LEMMA SumExists ==
    ASSUME NEW S, IsFiniteSet(S), NEW f
    PROVE  \E g : Unfolds(g, f, S)
  <1> DEFINE Body(g, T) == IF T = {} THEN 0 ELSE f[Pick(T)] + g[T \ {Pick(T)}]
             Upto(n, g) == g = [T \in UpTo(n, S) |-> Body(g, T)]
             K == {n \in Nat : \E g : Upto(n, g)}
  <1>1. 0 \in K
    <2>1. \A T \in UpTo(0, S) : T = {}
      <3> SUFFICES ASSUME NEW T \in UpTo(0, S), T # {}
                   PROVE  FALSE
        OBVIOUS
      <3>1. T \in SUBSET S /\ Cardinality(T) <= 0
        BY DEF UpTo
      <3>2. Cardinality(T) \in Nat /\ Cardinality(T) > 0
        BY <3>1, SmallerByOne
      <3> QED
        BY <3>1, <3>2
    <2> DEFINE g == [T \in UpTo(0, S) |-> 0]
    <2>2. Upto(0, g)
      BY <2>1
    <2> QED
      BY <2>2
  <1>2. ASSUME NEW n \in K
        PROVE  n + 1 \in K
    <2>1. PICK g : Upto(n, g)
      OBVIOUS
    <2> DEFINE h == [T \in UpTo(n + 1, S) |-> Body(g, T)]
    <2>2. ASSUME NEW T \in UpTo(n + 1, S), T # {}
          PROVE  h[T \ {Pick(T)}] = g[T \ {Pick(T)}]
      <3> DEFINE U == T \ {Pick(T)}
      <3>1. U \in UpTo(n, S) /\ U \in UpTo(n + 1, S)
        BY <2>2, SmallerByOne DEF UpTo
      <3> HIDE DEF U, Body
      <3>2. g[U] = Body(g, U) /\ h[U] = Body(g, U)
        BY <2>1, <3>1
      <3> QED
        BY <3>2 DEF U
    <2>3. Upto(n + 1, h)
      BY <2>2
    <2>4. n + 1 \in Nat
      OBVIOUS
    <2> HIDE DEF h, Upto
    <2> QED
      BY <2>3, <2>4
  <1>3. K = Nat
    <2> HIDE DEF K
    <2>1. K \in SUBSET Nat
      BY DEF K
    <2> QED
      BY <1>1, <1>2, <2>1, NatBySets
  <1>4. PICK g : Upto(Cardinality(S), g)
    BY <1>3, FS_CardinalityType
  <1>5. UpTo(Cardinality(S), S) = SUBSET S
    BY FS_Subset DEF UpTo
  <1> QED
    BY <1>4, <1>5 DEF Unfolds

\* Induction over the subsets of a finite set, by least counterexample.
LEMMA SubsetsBySets ==
    ASSUME NEW S, IsFiniteSet(S), NEW Good \in SUBSET SUBSET S, {} \in Good,
           \A T \in SUBSET S : T # {} /\ T \ {Pick(T)} \in Good => T \in Good
    PROVE  \A T \in SUBSET S : T \in Good
  <1> DEFINE K == {n \in Nat : UpTo(n, S) \subseteq Good}
  <1>1. 0 \in K
    <2> SUFFICES ASSUME NEW T \in UpTo(0, S), T # {}
                 PROVE  FALSE
      OBVIOUS
    <2>1. T \in SUBSET S /\ Cardinality(T) <= 0
      BY DEF UpTo
    <2>2. Cardinality(T) \in Nat /\ Cardinality(T) > 0
      BY <2>1, SmallerByOne
    <2> QED
      BY <2>1, <2>2
  <1>2. ASSUME NEW n \in K, NEW T \in UpTo(n + 1, S)
        PROVE  T \in Good
    <2>1. T \in SUBSET S /\ Cardinality(T) <= n + 1 /\ n \in Nat /\ UpTo(n, S) \subseteq Good
      BY DEF UpTo
    <2>2. CASE T # {}
      <3>1. T \ {Pick(T)} \in UpTo(n, S)
        BY <2>1, <2>2, SmallerByOne DEF UpTo
      <3> QED
        BY <2>1, <2>2, <3>1
    <2> QED
      BY <2>2
  <1>3. K = Nat
    <2>1. \A n \in K : n + 1 \in K
      BY <1>2
    <2>2. K \in SUBSET Nat
      OBVIOUS
    <2> HIDE DEF K
    <2> QED
      BY <1>1, <2>1, <2>2, NatBySets
  <1>4. ASSUME NEW T \in SUBSET S
        PROVE  T \in Good
    <2>1. Cardinality(T) \in Nat
      BY FS_Subset, FS_CardinalityType
    <2>2. T \in UpTo(Cardinality(T), S)
      BY <2>1 DEF UpTo
    <2> QED
      BY <1>3, <2>1, <2>2
  <1> QED
    BY <1>4

LEMMA PartialUnfolds ==
    ASSUME NEW S, IsFiniteSet(S), NEW f
    PROVE  /\ Partial(f, S)[{}] = 0
           /\ \A T \in SUBSET S : T # {} =>
                  Partial(f, S)[T] = f[Pick(T)] + Partial(f, S)[T \ {Pick(T)}]
  <1>1. Unfolds(Partial(f, S), f, S)
    <2>1. PICK g : Unfolds(g, f, S)
      BY SumExists
    <2> QED
      BY <2>1, Zenon DEF Partial, Unfolds
  <1> HIDE DEF Partial
  <1> DEFINE p == Partial(f, S)
  <1>2. p = [T \in SUBSET S |-> IF T = {} THEN 0 ELSE f[Pick(T)] + p[T \ {Pick(T)}]]
    BY <1>1 DEF Unfolds
  <1> HIDE DEF p
  <1>3. p[{}] = 0
    BY <1>2
  <1>4. \A T \in SUBSET S : T # {} => p[T] = f[Pick(T)] + p[T \ {Pick(T)}]
    BY <1>2
  <1> QED
    BY <1>3, <1>4 DEF p

LEMMA TotalType ==
    ASSUME NEW S, IsFiniteSet(S), NEW f \in [S -> Int]
    PROVE  SumFunction(f) \in Int /\ \A T \in SUBSET S : Partial(f, S)[T] \in Int
  <1> DEFINE p == Partial(f, S)
             Good == {T \in SUBSET S : p[T] \in Int}
  <1>1. p[{}] = 0 /\ \A T \in SUBSET S : T # {} => p[T] = f[Pick(T)] + p[T \ {Pick(T)}]
    BY PartialUnfolds
  <1> HIDE DEF p
  <1>2. {} \in Good
    BY <1>1
  <1>3. ASSUME NEW T \in SUBSET S, T # {}, T \ {Pick(T)} \in Good
        PROVE  T \in Good
    <2>1. Pick(T) \in S
      BY <1>3, SmallerByOne
    <2>2. f[Pick(T)] \in Int /\ p[T \ {Pick(T)}] \in Int
      BY <1>3, <2>1
    <2>3. p[T] = f[Pick(T)] + p[T \ {Pick(T)}]
      BY <1>1, <1>3
    <2>4. p[T] \in Int
      BY <2>2, <2>3
    <2> QED
      BY <1>3, <2>4
  <1>4. \A T \in SUBSET S : T \in Good
    <2>1. Good \in SUBSET SUBSET S
      OBVIOUS
    <2> HIDE DEF Good
    <2> QED
      BY <1>2, <1>3, <2>1, SubsetsBySets
  <1>5. SumFunction(f) = p[S]
    BY TotalUnfold DEF p
  <1> QED
    BY <1>4, <1>5 DEF p

\* Changing one term changes the sum by as much.
LEMMA TotalChange ==
    ASSUME NEW S, IsFiniteSet(S), NEW f \in [S -> Int], NEW g \in [S -> Int],
           NEW x \in S, \A y \in S \ {x} : g[y] = f[y]
    PROVE  SumFunction(g) = SumFunction(f) + (g[x] - f[x])
  <1> DEFINE p == Partial(f, S)
             q == Partial(g, S)
             Good == {T \in SUBSET S : q[T] = p[T] + (IF x \in T THEN g[x] - f[x] ELSE 0)}
  <1>1. p[{}] = 0 /\ \A T \in SUBSET S : T # {} => p[T] = f[Pick(T)] + p[T \ {Pick(T)}]
    BY PartialUnfolds
  <1>2. q[{}] = 0 /\ \A T \in SUBSET S : T # {} => q[T] = g[Pick(T)] + q[T \ {Pick(T)}]
    BY PartialUnfolds
  <1>3. SumFunction(f) = p[S] /\ SumFunction(g) = q[S]
    BY TotalUnfold
  <1>4. \A T \in SUBSET S : p[T] \in Int
    BY TotalType
  <1> HIDE DEF p, q
  <1>5. {} \in Good
    BY <1>1, <1>2
  <1>6. ASSUME NEW T \in SUBSET S, T # {}, T \ {Pick(T)} \in Good
        PROVE  T \in Good
    <2> DEFINE y == Pick(T)
    <2>1. y \in T /\ y \in S /\ T \ {y} \in SUBSET S
      BY <1>6, SmallerByOne
    <2>2. q[T \ {y}] = p[T \ {y}] + (IF x \in T \ {y} THEN g[x] - f[x] ELSE 0)
      BY <1>6
    <2>3. p[T] = f[y] + p[T \ {y}] /\ q[T] = g[y] + q[T \ {y}]
      BY <1>1, <1>2, <1>6
    <2>4. p[T \ {y}] \in Int /\ f[y] \in Int /\ f[x] \in Int /\ g[x] \in Int
      BY <1>4, <2>1
    <2> HIDE DEF y
    <2>5. CASE y = x
      <3>1. g[y] = g[x] /\ x \notin T \ {y} /\ x \in T
        BY <2>1, <2>5
      <3> QED
        BY <2>2, <2>3, <2>4, <2>5, <3>1
    <2>6. CASE y # x
      <3>1. g[y] = f[y] /\ (x \in T <=> x \in T \ {y})
        BY <2>1, <2>6
      <3> QED
        BY <2>2, <2>3, <2>4, <3>1
    <2> QED
      BY <2>5, <2>6
  <1>7. \A T \in SUBSET S : T \in Good
    <2>1. Good \in SUBSET SUBSET S
      OBVIOUS
    <2> HIDE DEF Good
    <2> QED
      BY <1>5, <1>6, <2>1, SubsetsBySets
  <1> QED
    BY <1>3, <1>7

\* A sum of natural numbers is at least the number of ones.
LEMMA TotalCounts ==
    ASSUME NEW S, IsFiniteSet(S), NEW f \in [S -> Nat]
    PROVE  Cardinality({x \in S : f[x] = 1}) <= SumFunction(f)
  <1> DEFINE p == Partial(f, S)
             Ones(T) == {x \in T : f[x] = 1}
             Good == {T \in SUBSET S : Cardinality(Ones(T)) <= p[T]}
  <1>1. p[{}] = 0 /\ \A T \in SUBSET S : T # {} => p[T] = f[Pick(T)] + p[T \ {Pick(T)}]
    BY PartialUnfolds
  <1>2. SumFunction(f) = p[S]
    BY TotalUnfold
  <1>3. \A T \in SUBSET S : p[T] \in Int
    BY TotalType
  <1> HIDE DEF p
  <1>4. {} \in Good
    <2>1. Ones({}) = {}
      OBVIOUS
    <2> QED
      BY <1>1, <2>1, FS_EmptySet
  <1>5. ASSUME NEW T \in SUBSET S, T # {}, T \ {Pick(T)} \in Good
        PROVE  T \in Good
    <2> DEFINE y == Pick(T)
               U == T \ {y}
    <2>1. y \in T /\ y \in S /\ U \in SUBSET S
      BY <1>5, SmallerByOne
    <2>2. p[T] = f[y] + p[U] /\ Cardinality(Ones(U)) <= p[U] /\ p[U] \in Int /\ f[y] \in Nat
      BY <1>1, <1>3, <1>5, <2>1
    <2> HIDE DEF y
    <2>3. IsFiniteSet(Ones(U)) /\ Cardinality(Ones(U)) \in Nat
      BY <2>1, FS_Subset, FS_CardinalityType
    <2>4. CASE f[y] = 1
      <3>1. Ones(T) = Ones(U) \cup {y} /\ y \notin Ones(U)
        BY <2>1, <2>4
      <3>2. Cardinality(Ones(T)) = Cardinality(Ones(U)) + 1
        BY <2>3, <3>1, FS_AddElement
      <3> QED
        BY <2>2, <2>3, <2>4, <3>2
    <2>5. CASE f[y] # 1
      <3>1. Ones(T) = Ones(U)
        BY <2>1, <2>5
      <3> HIDE DEF Ones, U
      <3> QED
        BY <2>2, <2>3, <3>1
    <2> QED
      BY <2>4, <2>5
  <1>6. \A T \in SUBSET S : T \in Good
    <2>1. Good \in SUBSET SUBSET S
      OBVIOUS
    <2> HIDE DEF Good
    <2> QED
      BY <1>4, <1>5, <2>1, SubsetsBySets
  <1>7. S \in Good
    BY <1>6
  <1> QED
    BY <1>2, <1>7

LEMMA TotalZero ==
    ASSUME NEW S, IsFiniteSet(S), NEW f, f = [x \in S |-> 0]
    PROVE  SumFunction(f) = 0
  <1> DEFINE p == Partial(f, S)
             Good == {T \in SUBSET S : p[T] = 0}
  <1>1. p[{}] = 0 /\ \A T \in SUBSET S : T # {} => p[T] = f[Pick(T)] + p[T \ {Pick(T)}]
    BY PartialUnfolds
  <1> HIDE DEF p
  <1>2. {} \in Good
    BY <1>1
  <1>3. ASSUME NEW T \in SUBSET S, T # {}, T \ {Pick(T)} \in Good
        PROVE  T \in Good
    <2>1. Pick(T) \in S
      BY <1>3, SmallerByOne
    <2> QED
      BY <1>1, <1>3, <2>1
  <1>4. \A T \in SUBSET S : T \in Good
    <2>1. Good \in SUBSET SUBSET S
      OBVIOUS
    <2> HIDE DEF Good
    <2> QED
      BY <1>2, <1>3, <2>1, SubsetsBySets
  <1>5. SumFunction(f) = p[S]
    BY TotalUnfold DEF p
  <1> QED
    BY <1>4, <1>5
=============================================================================
