----------------------------- MODULE ListProofs -----------------------------
(***************************************************************************)
(* Facts about sets of naturals and sequences that the proofs of several   *)
(* components share.                                                       *)
(***************************************************************************)
EXTENDS SeqRetain, FiniteSetsExt, TLAPS, WellFoundedInduction, NaturalsInduction,
        SequenceTheorems, FiniteSetTheorems
-----------------------------------------------------------------------------
(***************************************************************************)
(* Largest and smallest elements.                                          *)
(***************************************************************************)

\* 1..n is finite and has n elements.
LEMMA CountTo ==
    ASSUME NEW n \in Nat
    PROVE  IsFiniteSet(1..n) /\ Cardinality(1..n) = n
<1>1. 1 \in Int /\ n \in Int
    OBVIOUS
<1> DEFINE last == IF 1 > n THEN 0 ELSE n - 1 + 1
<1>2. IsFiniteSet(1..n) /\ Cardinality(1..n) = last
    BY <1>1, FS_Interval
<1>3. last = n
    OBVIOUS
<1> HIDE DEF last
<1> QED BY <1>2, <1>3, Zenon

\* A nonempty set of naturals has a smallest element, which Min returns.
LEMMA MinExists ==
    ASSUME NEW S \in SUBSET Nat, S # {}
    PROVE  Min(S) \in S /\ \A y \in S : Min(S) <= y
<1>1. PICK x \in S : \A y \in S : ~(<<y, x>> \in OpToRel(<, Nat))
    BY WFMin, NatLessThanWellFounded, Zenon
<1>2. \A y \in S : x <= y
    <2> SUFFICES ASSUME NEW y \in S, ~(x <= y) PROVE FALSE
        OBVIOUS
    <2>1. y \in Nat /\ x \in Nat /\ y < x
        OBVIOUS
    <2>2. <<y, x>> \in OpToRel(<, Nat)
        BY <2>1 DEF OpToRel
    <2> QED BY <1>1, <2>2
<1> QED BY <1>2 DEF Min

\* A bounded nonempty set of naturals has a largest element, which Max returns.
LEMMA MaxExists ==
    ASSUME NEW S \in SUBSET Nat, S # {}, NEW b \in Nat, \A x \in S : x <= b
    PROVE  Max(S) \in S /\ \A y \in S : y <= Max(S)
<1> DEFINE D == {b - x : x \in S}
<1>0. D # {}
    BY Zenon DEF D
<1>1. D \in SUBSET Nat
    BY SMT DEF D
<1>2. Min(D) \in D /\ \A d \in D : Min(D) <= d
    BY <1>0, <1>1, MinExists
<1>3. PICK m \in S : Min(D) = b - m
    BY <1>2 DEF D
<1>4. \A y \in S : m >= y
    <2> SUFFICES ASSUME NEW y \in S PROVE m >= y
        OBVIOUS
    <2>1. b - y \in D
        BY Zenon DEF D
    <2>2. b - m <= b - y
        BY <1>2, <1>3, <2>1, Zenon
    <2> QED BY <2>2, SMT
<1> QED BY <1>4 DEF Max

\* A finite set of naturals is bounded: a smallest unbounded one would stay
\* unbounded without one of its elements.
LEMMA FiniteBounded ==
    ASSUME NEW S \in SUBSET Nat, IsFiniteSet(S)
    PROVE  \E b \in Nat : \A x \in S : x <= b
<1> DEFINE Bad == {T \in SUBSET Nat : IsFiniteSet(T) /\ ~ \E b \in Nat : \A x \in T : x <= b}
           Sizes == {Cardinality(T) : T \in Bad}
<1> SUFFICES ASSUME S \in Bad PROVE FALSE
    BY Zenon
<1>1. Sizes \in SUBSET Nat
    BY FS_CardinalityType
<1>2. Sizes # {}
    BY Zenon
<1>3. PICK T \in Bad : \A U \in Bad : Cardinality(T) <= Cardinality(U)
    <2>1. Min(Sizes) \in Sizes /\ \A y \in Sizes : Min(Sizes) <= y
        BY <1>1, <1>2, MinExists
    <2>2. PICK T \in Bad : Cardinality(T) = Min(Sizes)
        BY <2>1
    <2> QED BY <2>1, <2>2
<1>4. T # {}
    <2>1. 0 \in Nat /\ \A x \in {} : x <= 0
        OBVIOUS
    <2> QED BY <2>1
<1>5. PICK x \in T : TRUE
    BY <1>4
<1>6. IsFiniteSet(T \ {x}) /\ Cardinality(T \ {x}) = Cardinality(T) - 1 /\ Cardinality(T) \in Nat
    BY FS_RemoveElement, FS_CardinalityType
<1>7. T \ {x} \notin Bad
    <2> SUFFICES ASSUME T \ {x} \in Bad PROVE FALSE
        OBVIOUS
    <2>1. Cardinality(T) <= Cardinality(T \ {x})
        BY <1>3
    <2> HIDE DEF Bad
    <2> QED BY <2>1, <1>6
<1>8. PICK b \in Nat : \A y \in T \ {x} : y <= b
    BY <1>6, <1>7
<1>9. x \in Nat
    OBVIOUS
<1>10. \A y \in T : y <= b + x
    BY <1>8, <1>9
<1>11. b + x \in Nat
    BY <1>8, <1>9
<1> QED BY <1>10, <1>11

\* Max of a finite nonempty set of naturals is its largest element.
LEMMA FiniteMax ==
    ASSUME NEW S \in SUBSET Nat, S # {}, IsFiniteSet(S)
    PROVE  Max(S) \in S /\ Max(S) \in Nat /\ \A y \in S : y <= Max(S)
BY FiniteBounded, MaxExists

\* The image of a finite set under a function is finite.
LEMMA FiniteImage ==
    ASSUME NEW S, IsFiniteSet(S), NEW f
    PROVE  IsFiniteSet({f[x] : x \in S})
<1> DEFINE T == {f[x] : x \in S}
           g == [x \in S |-> f[x]]
<1>1. g \in Surjection(S, T)
    BY DEF Surjection
<1> HIDE DEF g, T
<1>2. IsFiniteSet(T)
    BY <1>1, FS_Surjection
<1> QED BY <1>2 DEF T
-----------------------------------------------------------------------------
(***************************************************************************)
(* Retain.                                                                 *)
(***************************************************************************)

\* A later position has a larger rank, and ranks run from 1 to the number of
\* positions.
LEMMA RankGrows ==
    ASSUME NEW n \in Nat, NEW I \in SUBSET (1..n)
    PROVE  /\ IsFiniteSet(I) /\ Cardinality(I) \in Nat
           /\ \A i \in I : Rank(I, i) \in 1..Cardinality(I)
           /\ \A i, j \in I : i < j => Rank(I, i) < Rank(I, j)
<1> DEFINE Upto(i) == {j \in I : j <= i}
<1>1. IsFiniteSet(I) /\ Cardinality(I) \in Nat
    <2>1. IsFiniteSet(1..n)
        BY FS_Interval
    <2>2. IsFiniteSet(I)
        BY <2>1, FS_Subset
    <2> QED BY <2>2, FS_CardinalityType
<1>2. \A i \in I : IsFiniteSet(Upto(i)) /\ Cardinality(Upto(i)) \in Nat
                   /\ Cardinality(Upto(i)) <= Cardinality(I)
    <2> SUFFICES ASSUME NEW i \in I PROVE IsFiniteSet(Upto(i)) /\ Cardinality(Upto(i)) \in Nat
                   /\ Cardinality(Upto(i)) <= Cardinality(I)
        OBVIOUS
    <2>1. Upto(i) \in SUBSET I
        OBVIOUS
    <2> HIDE DEF Upto
    <2> QED BY <1>1, <2>1, FS_Subset, FS_CardinalityType
<1>3. \A i \in I : Cardinality(Upto(i)) # 0
    <2> SUFFICES ASSUME NEW i \in I PROVE Cardinality(Upto(i)) # 0
        OBVIOUS
    <2>1. i \in Upto(i)
        OBVIOUS
    <2> HIDE DEF Upto
    <2> QED BY <1>2, <2>1, FS_EmptySet
<1>4. ASSUME NEW i \in I, NEW j \in I, i < j PROVE Cardinality(Upto(i)) < Cardinality(Upto(j))
    <2>1. Upto(i) \in SUBSET Upto(j)
        <3>1. i \in Int /\ j \in Int
            OBVIOUS
        <3>2. \A x \in I : x \in Int /\ (x <= i => x <= j)
            BY <1>4, <3>1
        <3> QED BY <3>2
    <2>2. j \in Upto(j) /\ j \notin Upto(i)
        BY <1>4
    <2>3. Upto(i) # Upto(j)
        BY <2>2
    <2>4. IsFiniteSet(Upto(j)) /\ Cardinality(Upto(i)) \in Nat /\ Cardinality(Upto(j)) \in Nat
        BY <1>2
    <2> HIDE DEF Upto
    <2>5. Cardinality(Upto(i)) <= Cardinality(Upto(j)) /\ Cardinality(Upto(j)) # Cardinality(Upto(i))
        BY <2>1, <2>3, <2>4, FS_Subset
    <2> QED BY <2>4, <2>5
<1>5. \A i \in I : Rank(I, i) = Cardinality(Upto(i))
    BY DEF Rank
<1> HIDE DEF Upto
<1>6. \A i \in I : Rank(I, i) \in 1..Cardinality(I)
    BY <1>1, <1>2, <1>3, <1>5
<1> QED BY <1>1, <1>4, <1>5, <1>6

\* Nth is the inverse of Rank, and grows.
LEMMA NthInverse ==
    ASSUME NEW n \in Nat, NEW I \in SUBSET (1..n)
    PROVE  /\ \A k \in 1..Cardinality(I) : Nth(I, k) \in I /\ Rank(I, Nth(I, k)) = k
           /\ \A i \in I : Nth(I, Rank(I, i)) = i
           /\ \A k, l \in 1..Cardinality(I) : k < l => Nth(I, k) < Nth(I, l)
<1> DEFINE c == Cardinality(I)
           f == [i \in I |-> Rank(I, i)]
<1>1. /\ IsFiniteSet(I) /\ c \in Nat
      /\ \A i \in I : Rank(I, i) \in 1..c
      /\ \A i, j \in I : i < j => Rank(I, i) < Rank(I, j)
    BY RankGrows
<1>2. \A i \in I : i \in Int
    OBVIOUS
<1>3. \A i, j \in I : Rank(I, i) = Rank(I, j) => i = j
    <2> SUFFICES ASSUME NEW i \in I, NEW j \in I, Rank(I, i) = Rank(I, j), i # j PROVE FALSE
        OBVIOUS
    <2>1. i < j \/ j < i
        BY <1>2
    <2>2. Rank(I, i) \in Int
        BY <1>1
    <2> QED BY <1>1, <2>1, <2>2
<1>4. f \in Injection(I, 1..c)
    BY <1>1, <1>3 DEF Injection, IsInjective
<1>5. IsFiniteSet(1..c) /\ Cardinality(1..c) = c
    BY <1>1, CountTo, Zenon
<1>6. f \in Surjection(I, 1..c)
    <2> HIDE DEF f
    <2> QED BY <1>4, <1>5, FS_Injection
<1>7. \A k \in 1..c : \E i \in I : Rank(I, i) = k
    BY <1>6 DEF Surjection
<1>8. \A k \in 1..c : Nth(I, k) \in I /\ Rank(I, Nth(I, k)) = k
    BY <1>7 DEF Nth
<1>9. \A i \in I : Nth(I, Rank(I, i)) = i
    BY <1>1, <1>3, <1>8
<1>10. ASSUME NEW k \in 1..c, NEW l \in 1..c, k < l PROVE Nth(I, k) < Nth(I, l)
    <2> DEFINE a == Nth(I, k)
               b == Nth(I, l)
    <2>1. a \in I /\ b \in I /\ a \in Int /\ b \in Int /\ Rank(I, a) = k /\ Rank(I, b) = l
        BY <1>2, <1>8
    <2> HIDE DEF a, b
    <2>2. ~(b < a) /\ a # b
        BY <1>1, <1>10, <2>1
    <2>3. a < b
        BY <2>1, <2>2
    <2> QED BY <2>3 DEF a, b
<1> QED BY <1>8, <1>9, <1>10

\* Retain keeps exactly the elements at the positions I, in order.
LEMMA RetainFacts ==
    ASSUME NEW S, NEW s \in Seq(S), NEW I \in SUBSET (DOMAIN s)
    PROVE  /\ Retain(s, I) \in Seq(S)
           /\ Len(Retain(s, I)) = Cardinality(I) /\ Cardinality(I) \in Nat
           /\ DOMAIN Retain(s, I) = 1..Cardinality(I)
           /\ \A k \in DOMAIN Retain(s, I) : Nth(I, k) \in I /\ Retain(s, I)[k] = s[Nth(I, k)]
           /\ \A i \in I : Rank(I, i) \in DOMAIN Retain(s, I) /\ Nth(I, Rank(I, i)) = i
           /\ \A k, l \in DOMAIN Retain(s, I) : k < l => Nth(I, k) < Nth(I, l)
<1>1. Len(s) \in Nat /\ DOMAIN s = 1..Len(s) /\ I \in SUBSET (1..Len(s))
    OBVIOUS
<1>2. /\ Cardinality(I) \in Nat
      /\ \A i \in I : Rank(I, i) \in 1..Cardinality(I)
    BY <1>1, RankGrows
<1>3. /\ \A k \in 1..Cardinality(I) : Nth(I, k) \in I
      /\ \A i \in I : Nth(I, Rank(I, i)) = i
      /\ \A k, l \in 1..Cardinality(I) : k < l => Nth(I, k) < Nth(I, l)
    BY <1>1, NthInverse
<1>4. \A i \in I : s[i] \in S
    OBVIOUS
<1> QED BY <1>2, <1>3, <1>4 DEF Retain

\* Retain leaves nothing exactly when it is given no position.
LEMMA RetainEmpty ==
    ASSUME NEW S, NEW s \in Seq(S), NEW I \in SUBSET (DOMAIN s)
    PROVE  Retain(s, I) = <<>> <=> I = {}
<1>1. /\ Retain(s, I) \in Seq(S) /\ DOMAIN Retain(s, I) = 1..Cardinality(I)
      /\ Cardinality(I) \in Nat /\ Len(Retain(s, I)) = Cardinality(I)
      /\ \A i \in I : Rank(I, i) \in DOMAIN Retain(s, I)
    BY RetainFacts
<1>2. I = {} => Cardinality(I) = 0
    BY FS_EmptySet
<1>3. I # {} => Cardinality(I) # 0
    BY <1>1
<1> QED BY <1>1, <1>2, <1>3
-----------------------------------------------------------------------------
(***************************************************************************)
(* Iteration.  The state after i steps of a loop over n elements exists,   *)
(* and what every step preserves holds of all of them.                     *)
(***************************************************************************)
\* f is the course of n steps from b in S, the i-th of them by G[i].
Course(f, S, b, n, G) ==
    f \in [0..n -> S] /\ f[0] = b /\ \A i \in 1..n : f[i] = G[i][f[i - 1]]

LEMMA IterationExists ==
    ASSUME NEW S, NEW b \in S, NEW n \in Nat, NEW G \in [1..n -> [S -> S]]
    PROVE  \E f : Course(f, S, b, n, G)
<1> DEFINE Runs(m, f) == f[0] = b /\ \A i \in 1..m : f[i] = G[i][f[i - 1]]
           Bad == {m \in 0..n : ~ \E f \in [0..m -> S] : Runs(m, f)}
<1>1. Bad = {}
    <2> SUFFICES ASSUME Bad # {} PROVE FALSE
        OBVIOUS
    <2> DEFINE m == Min(Bad)
    <2>1. m \in Bad /\ \A x \in Bad : m <= x
        <3>1. Bad \in SUBSET Nat
            OBVIOUS
        <3> HIDE DEF Bad
        <3> QED BY <3>1, MinExists
    <2>2. m \in 0..n /\ ~ \E f \in [0..m -> S] : Runs(m, f)
        BY <2>1, Zenon
    <2> HIDE DEF m
    <2>3. m # 0
        <3> SUFFICES ASSUME m = 0 PROVE FALSE
            OBVIOUS
        <3> DEFINE g == [i \in 0..0 |-> b]
        <3>1. g \in [0..m -> S] /\ Runs(m, g)
            OBVIOUS
        <3> QED BY <2>2, <3>1
    <2>4. m - 1 \in 0..n /\ m - 1 \notin Bad
        <3>1. m - 1 \in 0..n /\ ~(m <= m - 1)
            BY <2>2, <2>3
        <3> HIDE DEF Bad
        <3> QED BY <2>1, <3>1
    <2>5. PICK f \in [0..(m - 1) -> S] : Runs(m - 1, f)
        BY <2>4
    <2> DEFINE g == [i \in 0..m |-> IF i = m THEN G[m][f[m - 1]] ELSE f[i]]
    <2>6. f[m - 1] \in S /\ m \in 1..n
        BY <2>2, <2>3
    <2>7. G[m][f[m - 1]] \in S
        BY <2>6
    <2>8. g \in [0..m -> S]
        BY <2>2, <2>7
    <2>9. Runs(m, g)
        <3>1. g[0] = b
            BY <2>2, <2>3, <2>5
        <3>2. ASSUME NEW i \in 1..m PROVE g[i] = G[i][g[i - 1]]
            <4>1. CASE i = m
                <5>1. g[m] = G[m][f[m - 1]] /\ g[m - 1] = f[m - 1]
                    BY <2>2, <2>3
                <5> QED BY <4>1, <5>1
            <4>2. CASE i # m
                <5>1. i \in 1..(m - 1) /\ i \in 0..m /\ i - 1 \in 0..m /\ i - 1 # m
                    BY <2>2, <4>2
                <5>2. g[i] = f[i] /\ g[i - 1] = f[i - 1]
                    BY <4>2, <5>1
                <5> QED BY <2>5, <5>1, <5>2
            <4> QED BY <4>1, <4>2
        <3> QED BY <3>1, <3>2
    <2> HIDE DEF g, Runs
    <2> QED BY <2>2, <2>8, <2>9
<1>2. n \in 0..n
    OBVIOUS
<1>3. PICK f \in [0..n -> S] : Runs(n, f)
    <2> HIDE DEF Runs
    <2>1. n \notin Bad
        BY <1>1, Zenon
    <2> QED BY <1>2, <2>1
<1> QED BY <1>3 DEF Course

\* A set of indices that contains 0 and is closed under successor up to n contains n.
LEMMA Reaches ==
    ASSUME NEW n \in Nat, NEW P, 0 \in P, \A i \in 1..n : i - 1 \in P => i \in P
    PROVE  n \in P
<1> DEFINE Bad == {i \in 0..n : i \notin P}
<1> SUFFICES ASSUME n \notin P PROVE FALSE
    OBVIOUS
<1>1. Bad \in SUBSET Nat /\ Bad # {}
    OBVIOUS
<1>2. Min(Bad) \in Bad /\ \A y \in Bad : Min(Bad) <= y
    <2> HIDE DEF Bad
    <2> QED BY <1>1, MinExists
<1>3. PICK m \in Bad : \A y \in Bad : m <= y
    BY <1>2
<1>4. m \in 1..n /\ m - 1 \in 0..n /\ ~(m <= m - 1)
    BY <1>3
<1>5. m - 1 \in P
    BY <1>3, <1>4
<1> QED BY <1>3, <1>4, <1>5
=============================================================================
