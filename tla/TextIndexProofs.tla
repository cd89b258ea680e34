-------------------------- MODULE TextIndexProofs --------------------------
(***************************************************************************)
(* Proofs about TextIndex, for any documents, records, stemmer and stop    *)
(* words: the cached index holds the postings of the stored documents and  *)
(* their counts, however documents are replaced, deleted and skipped by    *)
(* the Bloom filter, a clean namespace has the sidecar of its index, and a *)
(* search finds what the stored documents hold, up to one edit.            *)
(***************************************************************************)
EXTENDS TextIndex, ListProofs
-----------------------------------------------------------------------------
(***************************************************************************)
(* Edit distance.  The two-row programme computes 0 for equal prefixes and *)
(* at most 1 for prefixes one edit apart; what it computes beyond that no  *)
(* search asks for.                                                        *)
(***************************************************************************)
\* The first i characters of a and the first j of b are the same; differ in one
\* place; a has one character more.
Same(a, b, i, j) == i = j /\ \A k \in 1..i : a[k] = b[k]
Replaced(a, b, i, j) == i = j /\ \E p \in 1..i : \A k \in 1..i : k = p \/ a[k] = b[k]
Inserted(a, b, i, j) ==
    i = j + 1 /\ \E p \in 1..i : /\ \A k \in 1..(p - 1) : a[k] = b[k]
                                 /\ \A k \in p..j : a[k + 1] = b[k]
OneEdit(a, b, i, j) ==
    Same(a, b, i, j) \/ Replaced(a, b, i, j) \/ Inserted(a, b, i, j) \/ Inserted(b, a, j, i)

LEMMA SameStep ==
    ASSUME NEW a, NEW b, NEW i \in Nat \ {0}, NEW j \in Nat \ {0}
    PROVE  Same(a, b, i, j) <=> a[i] = b[j] /\ Same(a, b, i - 1, j - 1)
<1>1. i - 1 = j - 1 <=> i = j
    OBVIOUS
<1>2. \A k \in 1..i : k = i \/ k \in 1..(i - 1)
    OBVIOUS
<1>3. i \in 1..i /\ \A k \in 1..(i - 1) : k \in 1..i
    OBVIOUS
<1> QED BY <1>1, <1>2, <1>3, Zenon DEF Same

LEMMA ReplacedStep ==
    ASSUME NEW a, NEW b, NEW i \in Nat \ {0}
    PROVE  (Same(a, b, i, i) \/ Replaced(a, b, i, i)) <=>
             \/ Same(a, b, i - 1, i - 1)
             \/ a[i] = b[i] /\ (Same(a, b, i - 1, i - 1) \/ Replaced(a, b, i - 1, i - 1))
<1>1. \A k \in 1..i : k = i \/ k \in 1..(i - 1)
    OBVIOUS
<1>2. i \in 1..i /\ \A k \in 1..(i - 1) : k \in 1..i /\ k # i
    OBVIOUS
<1>3. ASSUME Replaced(a, b, i, i)
      PROVE  Same(a, b, i - 1, i - 1) \/ (a[i] = b[i] /\ Replaced(a, b, i - 1, i - 1))
    <2>1. PICK p \in 1..i : \A k \in 1..i : k = p \/ a[k] = b[k]
        BY <1>3 DEF Replaced
    <2>2. CASE p = i
        BY <1>2, <2>1, <2>2 DEF Same
    <2>3. CASE p # i
        <3>1. p \in 1..(i - 1) /\ a[i] = b[i]
            BY <1>1, <1>2, <2>1, <2>3, Zenon
        <3> QED BY <1>2, <2>1, <3>1, Zenon DEF Replaced
    <2> QED BY <2>2, <2>3
<1>4. ASSUME Same(a, b, i - 1, i - 1) PROVE Replaced(a, b, i, i)
    BY <1>1, <1>2, <1>4, Zenon DEF Same, Replaced
<1>5. ASSUME a[i] = b[i], Replaced(a, b, i - 1, i - 1) PROVE Replaced(a, b, i, i)
    <2>1. PICK p \in 1..(i - 1) : \A k \in 1..(i - 1) : k = p \/ a[k] = b[k]
        BY <1>5 DEF Replaced
    <2> QED BY <1>1, <1>2, <1>5, <2>1, Zenon DEF Replaced
<1>6. Same(a, b, i, i) => Same(a, b, i - 1, i - 1)
    BY SameStep
<1> QED BY <1>3, <1>4, <1>5, <1>6

LEMMA InsertedStep ==
    ASSUME NEW a, NEW b, NEW j \in Nat \ {0}
    PROVE  Inserted(a, b, j + 1, j) <=>
             Same(a, b, j, j) \/ (a[j + 1] = b[j] /\ Inserted(a, b, j, j - 1))
<1>1. ASSUME Inserted(a, b, j + 1, j)
      PROVE  Same(a, b, j, j) \/ (a[j + 1] = b[j] /\ Inserted(a, b, j, j - 1))
    <2>1. PICK p \in 1..(j + 1) : /\ \A k \in 1..(p - 1) : a[k] = b[k]
                                  /\ \A k \in p..j : a[k + 1] = b[k]
        BY <1>1 DEF Inserted
    <2>2. CASE p = j + 1
        <3>1. p - 1 = j
            BY <2>2
        <3> QED BY <2>1, <3>1 DEF Same
    <2>3. CASE p # j + 1
        <3>1. p \in 1..j /\ j \in p..j /\ \A k \in p..(j - 1) : k \in p..j
            BY <2>3
        <3>2. j = (j - 1) + 1
            OBVIOUS
        <3> QED BY <2>1, <3>1, <3>2 DEF Inserted
    <2> QED BY <2>2, <2>3
<1>2. ASSUME Same(a, b, j, j) PROVE Inserted(a, b, j + 1, j)
    <2>1. j + 1 \in 1..(j + 1) /\ (j + 1) - 1 = j /\ (j + 1)..j = {}
        OBVIOUS
    <2>2. /\ \A k \in 1..((j + 1) - 1) : a[k] = b[k]
          /\ \A k \in (j + 1)..j : a[k + 1] = b[k]
        BY <1>2, <2>1 DEF Same
    <2> QED BY <2>1, <2>2, Zenon DEF Inserted
<1>3. ASSUME a[j + 1] = b[j], Inserted(a, b, j, j - 1) PROVE Inserted(a, b, j + 1, j)
    <2>1. PICK p \in 1..j : /\ \A k \in 1..(p - 1) : a[k] = b[k]
                            /\ \A k \in p..(j - 1) : a[k + 1] = b[k]
        BY <1>3 DEF Inserted
    <2>2. p \in 1..(j + 1) /\ \A k \in p..j : k = j \/ k \in p..(j - 1)
        OBVIOUS
    <2> QED BY <1>3, <2>1, <2>2, Zenon DEF Inserted
<1> QED BY <1>1, <1>2, <1>3

LEMMA EditStep ==
    ASSUME NEW a, NEW b, NEW i \in Nat \ {0}, NEW j \in Nat \ {0}
    PROVE  OneEdit(a, b, i, j) <=>
             \/ Same(a, b, i, j - 1)
             \/ Same(a, b, i - 1, j)
             \/ Same(a, b, i - 1, j - 1)
             \/ a[i] = b[j] /\ OneEdit(a, b, i - 1, j - 1)
<1>1. CASE i = j
    <2>1. /\ ~Same(a, b, i, j - 1) /\ ~Same(a, b, i - 1, j)
          /\ ~Inserted(a, b, i, j) /\ ~Inserted(b, a, j, i)
          /\ ~Inserted(a, b, i - 1, j - 1) /\ ~Inserted(b, a, j - 1, i - 1)
        BY <1>1 DEF Same, Inserted
    <2> QED BY <1>1, <2>1, ReplacedStep DEF OneEdit
<1>2. CASE i = j + 1
    <2>1. /\ ~Same(a, b, i, j - 1) /\ ~Same(a, b, i - 1, j - 1) /\ ~Same(a, b, i, j)
          /\ ~Replaced(a, b, i, j) /\ ~Replaced(a, b, i - 1, j - 1)
          /\ ~Inserted(b, a, j, i) /\ ~Inserted(b, a, j - 1, i - 1)
        BY <1>2 DEF Same, Replaced, Inserted
    <2>2. i - 1 = j
        BY <1>2
    <2>3. Inserted(a, b, i, j) <=> Same(a, b, i - 1, j) \/ (a[i] = b[j] /\ Inserted(a, b, i - 1, j - 1))
        BY <1>2, <2>2, InsertedStep
    <2> QED BY <2>1, <2>3 DEF OneEdit
<1>3. CASE j = i + 1
    <2>1. /\ ~Same(a, b, i - 1, j) /\ ~Same(a, b, i - 1, j - 1) /\ ~Same(a, b, i, j)
          /\ ~Replaced(a, b, i, j) /\ ~Replaced(a, b, i - 1, j - 1)
          /\ ~Inserted(a, b, i, j) /\ ~Inserted(a, b, i - 1, j - 1)
        BY <1>3 DEF Same, Replaced, Inserted
    <2>2. j - 1 = i
        BY <1>3
    <2>3. Inserted(b, a, j, i) <=> Same(b, a, j - 1, i) \/ (b[j] = a[i] /\ Inserted(b, a, j - 1, i - 1))
        BY <1>3, <2>2, InsertedStep
    <2>4. Same(b, a, j - 1, i) <=> Same(a, b, i, j - 1)
        BY <2>2 DEF Same
    <2> QED BY <2>1, <2>3, <2>4 DEF OneEdit
<1>4. CASE i # j /\ i # j + 1 /\ j # i + 1
    <2>1. i - 1 # j /\ j - 1 # i /\ i - 1 # j - 1 /\ i - 1 # (j - 1) + 1 /\ j - 1 # (i - 1) + 1
        BY <1>4
    <2> QED BY <1>4, <2>1 DEF OneEdit, Same, Replaced, Inserted
<1> QED BY <1>1, <1>2, <1>3, <1>4

\* One row of the programme, from the row before it, and all of them.
IsRow(c, prev, a, b, i) ==
    c = [j \in 0..Len(b) |->
           IF j = 0 THEN i
           ELSE Min({c[j - 1] + 1, prev[j] + 1, prev[j - 1] + (IF a[i] = b[j] THEN 0 ELSE 1)})]
RowAfter(prev, a, b, i) == CHOOSE c : IsRow(c, prev, a, b, i)
AreRows(f, a, b) ==
    f = [i \in 0..Len(a) |-> IF i = 0 THEN [j \in 0..Len(b) |-> j] ELSE RowAfter(f[i - 1], a, b, i)]

\* What a row holds.
Computed(c, prev, a, b, i, m) ==
    /\ c \in [0..m -> Nat] /\ c[0] = i
    /\ \A j \in 1..m :
          c[j] = Min({c[j - 1] + 1, prev[j] + 1, prev[j - 1] + (IF a[i] = b[j] THEN 0 ELSE 1)})

LEMMA MinOfThree ==
    ASSUME NEW x \in Nat, NEW y \in Nat, NEW z \in Nat
    PROVE  /\ Min({x, y, z}) \in Nat
           /\ Min({x, y, z}) <= x /\ Min({x, y, z}) <= y /\ Min({x, y, z}) <= z
           /\ Min({x, y, z}) = x \/ Min({x, y, z}) = y \/ Min({x, y, z}) = z
<1>1. {x, y, z} \in SUBSET Nat /\ {x, y, z} # {}
    OBVIOUS
<1>2. Min({x, y, z}) \in {x, y, z} /\ \A w \in {x, y, z} : Min({x, y, z}) <= w
    BY <1>1, MinExists
<1> QED BY <1>2

LEMMA RowExists ==
    ASSUME NEW m \in Nat, NEW b, Len(b) = m, NEW prev \in [0..m -> Nat], NEW a, NEW i \in Nat
    PROVE  \E c \in [0..m -> Nat] : IsRow(c, prev, a, b, i)
<1> DEFINE Value(j, x) == Min({x + 1, prev[j] + 1, prev[j - 1] + (IF a[i] = b[j] THEN 0 ELSE 1)})
           G == [j \in 1..m |-> [x \in Nat |-> Value(j, x)]]
<1>1. \A j \in 1..m : \A x \in Nat : Value(j, x) \in Nat
    <2> TAKE j \in 1..m
    <2> TAKE x \in Nat
    <2>1. x + 1 \in Nat /\ prev[j] + 1 \in Nat /\ prev[j - 1] + (IF a[i] = b[j] THEN 0 ELSE 1) \in Nat
        OBVIOUS
    <2> QED BY <2>1, MinOfThree
<1> HIDE DEF Value
<1>2. G \in [1..m -> [Nat -> Nat]] /\ \A j \in 1..m : \A x \in Nat : G[j][x] = Value(j, x)
    BY <1>1
<1> HIDE DEF G
<1>3. PICK c : Course(c, Nat, i, m, G)
    BY <1>2, IterationExists
<1>4. c \in [0..m -> Nat] /\ c[0] = i /\ \A j \in 1..m : c[j] = Value(j, c[j - 1])
    <2>1. c \in [0..m -> Nat] /\ c[0] = i /\ \A j \in 1..m : c[j] = G[j][c[j - 1]]
        BY <1>3 DEF Course
    <2>2. \A j \in 1..m : c[j - 1] \in Nat
        BY <2>1
    <2> QED BY <1>2, <2>1, <2>2
<1>5. \A j \in 0..m : c[j] = IF j = 0 THEN i ELSE Value(j, c[j - 1])
    <2>1. \A j \in 0..m : j = 0 \/ (j # 0 /\ j \in 1..m)
        OBVIOUS
    <2> QED BY <1>4, <2>1
<1>6. c = [j \in 0..m |-> IF j = 0 THEN i ELSE Value(j, c[j - 1])]
    BY <1>4, <1>5
<1>7. IsRow(c, prev, a, b, i)
    BY <1>6 DEF IsRow, Value
<1> QED BY <1>4, <1>7

LEMMA RowTyped ==
    ASSUME NEW m \in Nat, NEW b, Len(b) = m, NEW prev \in [0..m -> Nat], NEW a, NEW i \in Nat,
           NEW c, IsRow(c, prev, a, b, i)
    PROVE  Computed(c, prev, a, b, i, m)
<1> DEFINE Value(j, x) == Min({x + 1, prev[j] + 1, prev[j - 1] + (IF a[i] = b[j] THEN 0 ELSE 1)})
           P == {j \in 0..m : c[j] \in Nat}
<1>1. c = [j \in 0..m |-> IF j = 0 THEN i ELSE Value(j, c[j - 1])]
    BY DEF IsRow
<1> HIDE DEF Value
<1>2. c[0] = i /\ \A j \in 1..m : c[j] = Value(j, c[j - 1])
    <2>1. \A j \in 0..m : c[j] = IF j = 0 THEN i ELSE Value(j, c[j - 1])
        BY <1>1, Zenon
    <2>2. 0 \in 0..m /\ \A j \in 1..m : j \in 0..m /\ j # 0
        OBVIOUS
    <2> QED BY <2>1, <2>2
<1>3. \A k \in 0..m : k \in P
    <2> SUFFICES ASSUME NEW k \in 0..m PROVE k \in P
        OBVIOUS
    <2>1. 0 \in P
        BY <1>2
    <2>2. ASSUME NEW j \in 1..k, j - 1 \in P PROVE j \in P
        <3>1. j \in 1..m /\ j \in 0..m /\ j - 1 \in 0..m
            OBVIOUS
        <3>2. c[j - 1] + 1 \in Nat /\ prev[j] + 1 \in Nat
              /\ prev[j - 1] + (IF a[i] = b[j] THEN 0 ELSE 1) \in Nat
            BY <2>2, <3>1, SMTT(30)
        <3>3. Value(j, c[j - 1]) \in Nat
            BY <3>2, MinOfThree DEF Value
        <3> QED BY <1>2, <3>1, <3>3
    <2>3. k \in Nat
        OBVIOUS
    <2> HIDE DEF P
    <2> QED BY <2>1, <2>2, <2>3, Reaches
<1>4. DOMAIN c = 0..m /\ c = [j \in DOMAIN c |-> c[j]]
    BY <1>1
<1>5. c \in [0..m -> Nat]
    BY <1>3, <1>4
<1> QED BY <1>2, <1>5 DEF Value, Computed

LEMMA RowsExist ==
    ASSUME NEW n \in Nat, NEW m \in Nat, NEW a, NEW b, Len(a) = n, Len(b) = m
    PROVE  \E f : AreRows(f, a, b)
<1> DEFINE S == [0..m -> Nat]
           first == [j \in 0..m |-> j]
           G == [i \in 1..n |-> [prev \in S |-> RowAfter(prev, a, b, i)]]
<1>1. \A i \in 1..n : \A prev \in S : RowAfter(prev, a, b, i) \in S
    <2> SUFFICES ASSUME NEW i \in 1..n, NEW prev \in S PROVE RowAfter(prev, a, b, i) \in S
        OBVIOUS
    <2>0. i \in Nat /\ prev \in [0..m -> Nat]
        OBVIOUS
    <2>1. \E c \in [0..m -> Nat] : IsRow(c, prev, a, b, i)
        BY <2>0, RowExists
    <2>2. IsRow(RowAfter(prev, a, b, i), prev, a, b, i)
        BY <2>1, Zenon DEF RowAfter
    <2> QED BY <2>0, <2>2, RowTyped DEF Computed
<1>2. first \in S
    OBVIOUS
<1> HIDE DEF S
<1>3. G \in [1..n -> [S -> S]] /\ \A i \in 1..n : \A prev \in S : G[i][prev] = RowAfter(prev, a, b, i)
    BY <1>1
<1> HIDE DEF G, first
<1>4. PICK f : Course(f, S, first, n, G)
    BY <1>2, <1>3, IterationExists
<1>5. f \in [0..n -> S] /\ f[0] = first /\ \A i \in 1..n : f[i] = RowAfter(f[i - 1], a, b, i)
    <2>1. f \in [0..n -> S] /\ f[0] = first /\ \A i \in 1..n : f[i] = G[i][f[i - 1]]
        BY <1>4 DEF Course
    <2>2. \A i \in 1..n : f[i - 1] \in S
        BY <2>1
    <2> QED BY <1>3, <2>1, <2>2
<1>6. \A i \in 0..n : f[i] = IF i = 0 THEN first ELSE RowAfter(f[i - 1], a, b, i)
    <2>1. \A i \in 0..n : i = 0 \/ (i # 0 /\ i \in 1..n)
        OBVIOUS
    <2> QED BY <1>5, <2>1
<1>7. f = [i \in 0..n |-> IF i = 0 THEN first ELSE RowAfter(f[i - 1], a, b, i)]
    BY <1>5, <1>6
<1>8. AreRows(f, a, b)
    BY <1>7 DEF AreRows, first
<1> QED BY <1>8

\* A row tells which prefixes are the same and which are one edit apart.
RowTells(c, a, b, i, J) ==
    \A j \in J : /\ c[j] \in Nat
                 /\ c[j] = 0 <=> Same(a, b, i, j)
                 /\ c[j] <= 1 <=> OneEdit(a, b, i, j)

LEMMA FirstRow ==
    ASSUME NEW a, NEW b, NEW j \in Nat
    PROVE  /\ j = 0 <=> Same(a, b, 0, j)
           /\ j <= 1 <=> OneEdit(a, b, 0, j)
           /\ j = 0 <=> Same(a, b, j, 0)
           /\ j <= 1 <=> OneEdit(a, b, j, 0)
<1>1. (j = 0 <=> Same(a, b, 0, j)) /\ (j = 0 <=> Same(a, b, j, 0))
    BY DEF Same
<1>2. ~Replaced(a, b, 0, j) /\ ~Replaced(a, b, j, 0)
    BY DEF Replaced
<1>3. \A x, y : ~Inserted(x, y, 0, j)
    BY DEF Inserted
<1>4. \A x, y : Inserted(x, y, j, 0) <=> j = 1
    <2> TAKE x, y
    <2>1. Inserted(x, y, j, 0) => j = 1
        BY DEF Inserted
    <2>2. Inserted(x, y, 1, 0)
        <3>1. 1 \in 1..1 /\ 1..(1 - 1) = {} /\ 1..0 = {} /\ 1 = 0 + 1
            OBVIOUS
        <3> QED BY <3>1, Zenon DEF Inserted
    <2> QED BY <2>1, <2>2
<1> QED BY <1>1, <1>2, <1>3, <1>4 DEF OneEdit

LEMMA NextRowTells ==
    ASSUME NEW m \in Nat, NEW b, Len(b) = m, NEW prev \in [0..m -> Nat], NEW a, NEW i \in Nat \ {0},
           RowTells(prev, a, b, i - 1, 0..m),
           NEW c, Computed(c, prev, a, b, i, m)
    PROVE  RowTells(c, a, b, i, 0..m)
<1> DEFINE P == {j \in 0..m : RowTells(c, a, b, i, {j})}
<1>1. 0 \in P
    BY FirstRow DEF RowTells, Computed
<1>2. ASSUME NEW j \in 1..m, j - 1 \in P PROVE j \in P
    <2> DEFINE up == prev[j]
               left == c[j - 1]
               diag == prev[j - 1]
               cost == IF a[i] = b[j] THEN 0 ELSE 1
    <2>1. j \in 0..m /\ j - 1 \in 0..m /\ j \in Nat \ {0}
        OBVIOUS
    <2>2. left \in Nat /\ (left = 0 <=> Same(a, b, i, j - 1))
        BY <1>2 DEF RowTells
    <2>3. /\ up \in Nat /\ (up = 0 <=> Same(a, b, i - 1, j))
          /\ diag \in Nat /\ (diag = 0 <=> Same(a, b, i - 1, j - 1))
          /\ diag <= 1 <=> OneEdit(a, b, i - 1, j - 1)
        BY <2>1 DEF RowTells
    <2>4. c[j] = Min({left + 1, up + 1, diag + cost})
        BY DEF Computed
    <2> HIDE DEF left, up, diag
    <2>5. cost \in Nat /\ (cost = 0 <=> a[i] = b[j]) /\ cost <= 1
        OBVIOUS
    <2> HIDE DEF cost
    <2>6. /\ c[j] \in Nat /\ c[j] <= left + 1 /\ c[j] <= up + 1 /\ c[j] <= diag + cost
          /\ c[j] = left + 1 \/ c[j] = up + 1 \/ c[j] = diag + cost
        <3>1. left + 1 \in Nat /\ up + 1 \in Nat /\ diag + cost \in Nat
            BY <2>2, <2>3, <2>5
        <3> QED BY <2>4, <3>1, MinOfThree
    <2>7. c[j] = 0 <=> diag = 0 /\ cost = 0
        BY <2>2, <2>3, <2>5, <2>6
    <2>8. c[j] <= 1 <=> left = 0 \/ up = 0 \/ diag = 0 \/ (cost = 0 /\ diag <= 1)
        BY <2>2, <2>3, <2>5, <2>6, SMTT(30)
    <2>a. Same(a, b, i, j) <=> a[i] = b[j] /\ Same(a, b, i - 1, j - 1)
        BY <2>1, SameStep
    <2>b. OneEdit(a, b, i, j) <=>
            \/ Same(a, b, i, j - 1)
            \/ Same(a, b, i - 1, j)
            \/ Same(a, b, i - 1, j - 1)
            \/ a[i] = b[j] /\ OneEdit(a, b, i - 1, j - 1)
        BY <2>1, EditStep
    <2>9. c[j] = 0 <=> Same(a, b, i, j)
        BY <2>3, <2>5, <2>7, <2>a, Zenon
    <2>10. c[j] <= 1 <=> OneEdit(a, b, i, j)
        BY <2>2, <2>3, <2>5, <2>8, <2>b, Zenon
    <2> QED BY <2>1, <2>6, <2>9, <2>10 DEF RowTells
<1>3. ASSUME NEW k \in 0..m PROVE k \in P
    <2>1. k \in Nat /\ \A j \in 1..k : j \in 1..m
        OBVIOUS
    <2> HIDE DEF P
    <2>2. \A j \in 1..k : j - 1 \in P => j \in P
        BY <1>2, <2>1
    <2> QED BY <1>1, <2>1, <2>2, Reaches
<1> QED BY <1>3 DEF RowTells

\* levenshtein(a, b) <= 1 exactly for words at most one edit apart.
LEMMA LevenshteinTells ==
    ASSUME NEW n \in Nat, NEW m \in Nat, NEW a, NEW b, Len(a) = n, Len(b) = m
    PROVE  Levenshtein(a, b) <= 1 <=> OneEdit(a, b, n, m)
<1> DEFINE row == CHOOSE f : AreRows(f, a, b)
           S == [0..m -> Nat]
           P == {i \in 0..n : row[i] \in S /\ RowTells(row[i], a, b, i, 0..m)}
<1>1. Levenshtein(a, b) = row[n][m]
    BY Zenon DEF Levenshtein, AreRows, RowAfter, IsRow
<1>2. AreRows(row, a, b)
    BY RowsExist, Zenon
<1> HIDE DEF row
<1>3. row[0] = [j \in 0..m |-> j] /\ \A i \in 1..n : row[i] = RowAfter(row[i - 1], a, b, i)
    <2>1. \A i \in 0..n : row[i] = IF i = 0 THEN [j \in 0..m |-> j] ELSE RowAfter(row[i - 1], a, b, i)
        BY <1>2, Zenon DEF AreRows
    <2>2. 0 \in 0..n /\ \A i \in 1..n : i \in 0..n /\ i # 0
        OBVIOUS
    <2> QED BY <2>1, <2>2, Zenon
<1>4. 0 \in P
    <2>1. row[0] \in S /\ \A j \in 0..m : row[0][j] = j /\ j \in Nat
        BY <1>3
    <2>2. RowTells(row[0], a, b, 0, 0..m)
        BY <2>1, FirstRow DEF RowTells
    <2> QED BY <2>1, <2>2
<1>5. ASSUME NEW i \in 1..n, i - 1 \in P PROVE i \in P
    <2>1. row[i - 1] \in S /\ RowTells(row[i - 1], a, b, i - 1, 0..m) /\ i \in Nat \ {0} /\ i \in 0..n
        BY <1>5
    <2>2. \E c \in [0..m -> Nat] : IsRow(c, row[i - 1], a, b, i)
        BY <2>1, RowExists
    <2>3. IsRow(row[i], row[i - 1], a, b, i)
        BY <1>3, <2>2, Zenon DEF RowAfter
    <2>4. Computed(row[i], row[i - 1], a, b, i, m) /\ i \in Nat
        BY <2>1, <2>3, RowTyped
    <2>5. RowTells(row[i], a, b, i, 0..m)
        BY <2>1, <2>4, NextRowTells
    <2> QED BY <2>1, <2>4, <2>5 DEF Computed
<1> HIDE DEF P
<1>6. n \in P
    BY <1>4, <1>5, Reaches
<1>7. RowTells(row[n], a, b, n, 0..m) /\ m \in 0..m
    BY <1>6 DEF P
<1> QED BY <1>1, <1>7 DEF RowTells

LEMMA RemovedCharacter ==
    ASSUME NEW S, NEW a \in Seq(S), NEW b \in Seq(S)
    PROVE  (\E p \in DOMAIN a : RemoveAt(a, p) = b) <=> Inserted(a, b, Len(a), Len(b))
<1> DEFINE n == Len(a)
           m == Len(b)
<1>1. n \in Nat /\ m \in Nat /\ DOMAIN a = 1..n /\ DOMAIN b = 1..m
    OBVIOUS
<1>2. ASSUME NEW p \in 1..n
      PROVE  /\ RemoveAt(a, p) \in Seq(S) /\ Len(RemoveAt(a, p)) = n - 1
             /\ \A k \in 1..(n - 1) : RemoveAt(a, p)[k] = IF k < p THEN a[k] ELSE a[k + 1]
    <2> DEFINE u == SubSeq(a, 1, p - 1)
               v == SubSeq(a, p + 1, n)
    <2>1. u \in Seq(S) /\ Len(u) = p - 1 /\ \A k \in 1..(p - 1) : u[k] = a[k]
        BY <1>1
    <2>2. v \in Seq(S) /\ Len(v) = n - p /\ \A k \in 1..(n - p) : v[k] = a[p + k]
        <3>1. n - (p + 1) + 1 = n - p /\ n - p \in Nat
            BY <1>1
        <3>2. \A k \in 1..(n - p) : p + k \in 1..n /\ (p + 1) + k - 1 = p + k
            BY <1>1
        <3>3. p + 1 \in Int /\ n \in Int /\ \A k \in (p + 1)..n : a[k] \in S
            BY <1>1
        <3>4. v \in Seq(S) /\ Len(v) = (IF p + 1 <= n THEN n - (p + 1) + 1 ELSE 0)
              /\ \A k \in 1..(n - (p + 1) + 1) : v[k] = a[(p + 1) + k - 1]
            BY <3>3, SubSeqProperties
        <3> HIDE DEF n, v
        <3>5. Len(v) = n - p
            BY <1>1, <3>4
        <3> QED BY <3>1, <3>2, <3>4, <3>5
    <2>3. RemoveAt(a, p) = u \o v
        BY DEF RemoveAt
    <2> HIDE DEF u, v, n
    <2>4. /\ u \o v \in Seq(S) /\ Len(u \o v) = n - 1
          /\ \A k \in 1..(n - 1) : (u \o v)[k] = IF k <= p - 1 THEN u[k] ELSE v[k - (p - 1)]
        <3>1. u \o v \in Seq(S) /\ Len(u \o v) = Len(u) + Len(v)
              /\ \A k \in 1..(Len(u) + Len(v)) : (u \o v)[k] = IF k <= Len(u) THEN u[k] ELSE v[k - Len(u)]
            BY <2>1, <2>2, ConcatProperties
        <3>2. (p - 1) + (n - p) = n - 1
            BY <1>1
        <3> QED BY <2>1, <2>2, <3>1, <3>2
    <2>5. ASSUME NEW k \in 1..(n - 1) PROVE (u \o v)[k] = IF k < p THEN a[k] ELSE a[k + 1]
        <3>1. CASE k < p
            <4>1. k \in 1..(p - 1) /\ k <= p - 1
                BY <3>1
            <4> QED BY <2>1, <2>4, <3>1, <4>1
        <3>2. CASE ~(k < p)
            <4>1. k - (p - 1) \in 1..(n - p) /\ ~(k <= p - 1) /\ p + (k - (p - 1)) = k + 1
                BY <1>1, <3>2
            <4> QED BY <2>2, <2>4, <3>2, <4>1
        <3> QED BY <3>1, <3>2
    <2> QED BY <2>3, <2>4, <2>5
<1>3. ASSUME NEW p \in 1..n, RemoveAt(a, p) = b PROVE Inserted(a, b, n, m)
    <2>1. m = n - 1 /\ \A k \in 1..(n - 1) : b[k] = IF k < p THEN a[k] ELSE a[k + 1]
        BY <1>2, <1>3
    <2>2. \A k \in 1..(p - 1) : k \in 1..(n - 1) /\ k < p
        BY <1>1
    <2>3. \A k \in p..m : k \in 1..(n - 1) /\ ~(k < p)
        BY <1>1, <2>1
    <2>4. n = m + 1
        BY <1>1, <2>1
    <2> HIDE DEF n, m
    <2>5. (\A k \in 1..(p - 1) : a[k] = b[k]) /\ \A k \in p..m : a[k + 1] = b[k]
        BY <2>1, <2>2, <2>3
    <2> QED BY <2>4, <2>5, Zenon DEF Inserted
<1>4. ASSUME Inserted(a, b, n, m) PROVE \E p \in 1..n : RemoveAt(a, p) = b
    <2>1. PICK p \in 1..n : (\A k \in 1..(p - 1) : a[k] = b[k]) /\ \A k \in p..m : a[k + 1] = b[k]
        BY <1>4, Zenon DEF Inserted
    <2>2. n = m + 1
        BY <1>4, Zenon DEF Inserted
    <2> DEFINE w == RemoveAt(a, p)
    <2>3. /\ w \in Seq(S) /\ Len(w) = n - 1
          /\ \A k \in 1..(n - 1) : w[k] = IF k < p THEN a[k] ELSE a[k + 1]
        BY <1>2
    <2> HIDE DEF w
    <2>4. Len(w) = m
        BY <1>1, <2>2, <2>3
    <2>5. ASSUME NEW k \in 1..m PROVE w[k] = b[k]
        <3>1. k \in 1..(n - 1) /\ (k < p => k \in 1..(p - 1)) /\ (~(k < p) => k \in p..m)
            BY <1>1, <2>2
        <3> QED BY <2>1, <2>3, <3>1
    <2>6. w = b
        BY <2>3, <2>4, <2>5
    <2> QED BY <2>6 DEF w
<1> QED BY <1>1, <1>3, <1>4

LEMMA ReplacedCharacter ==
    ASSUME NEW S, NEW a \in Seq(S), NEW b \in Seq(S)
    PROVE  (Len(a) = Len(b) /\ \E p \in DOMAIN a : [a EXCEPT ![p] = b[p]] = b)
             <=> Replaced(a, b, Len(a), Len(b))
<1> DEFINE n == Len(a)
<1>1. n \in Nat /\ DOMAIN a = 1..n /\ DOMAIN b = 1..Len(b)
    OBVIOUS
<1>2. ASSUME NEW p \in 1..n, [a EXCEPT ![p] = b[p]] = b, n = Len(b) PROVE Replaced(a, b, n, Len(b))
    <2>1. \A k \in 1..n : k = p \/ [a EXCEPT ![p] = b[p]][k] = a[k]
        BY <1>1
    <2>2. \A k \in 1..n : k = p \/ a[k] = b[k]
        BY <1>2, <2>1
    <2> QED BY <1>2, <2>2, Zenon DEF Replaced
<1>3. ASSUME Replaced(a, b, n, Len(b)) PROVE n = Len(b) /\ \E p \in 1..n : [a EXCEPT ![p] = b[p]] = b
    <2>1. n = Len(b)
        BY <1>3 DEF Replaced
    <2>2. PICK p \in 1..n : \A k \in 1..n : k = p \/ a[k] = b[k]
        BY <1>3 DEF Replaced
    <2> DEFINE c == [a EXCEPT ![p] = b[p]]
    <2>3. c \in Seq(S) /\ Len(c) = n
        <3>1. p \in 1..Len(b) /\ b[p] \in S
            BY <2>1
        <3> QED BY <1>1, <3>1
    <2>4. \A k \in 1..n : c[k] = b[k]
        BY <1>1, <2>2
    <2> HIDE DEF c
    <2>5. c = b
        BY <2>1, <2>3, <2>4
    <2> QED BY <2>1, <2>5 DEF c
<1> QED BY <1>1, <1>2, <1>3

LEMMA SameWord ==
    ASSUME NEW S, NEW a \in Seq(S), NEW b \in Seq(S)
    PROVE  a = b <=> Same(a, b, Len(a), Len(b))
BY DEF Same

\* is_one_edit_away agrees with the definition of one edit.
LEMMA EditIsNear ==
    ASSUME NEW a \in Terms, NEW b \in Terms
    PROVE  IsOneEditAway[<<a, b>>] <=> NearTerm[<<a, b>>]
<1> DEFINE S == ToSet(a) \cup ToSet(b)
<1>1. a \in Seq(ToSet(a)) /\ b \in Seq(ToSet(b))
    BY WordsAssumption, Zenon DEF Terms
<1>2. a \in Seq(S) /\ b \in Seq(S)
    BY <1>1
<1> HIDE DEF S
<1>3. Len(a) \in Nat /\ Len(b) \in Nat
    BY <1>2
<1>4. Levenshtein(a, b) <= 1 <=> OneEdit(a, b, Len(a), Len(b))
    BY <1>3, LevenshteinTells
<1>5. IsOneEditAway[<<a, b>>] = (Levenshtein(a, b) <= 1)
    BY DEF IsOneEditAway
<1>6. NearTerm[<<a, b>>] = OneEditApart(a, b)
    BY DEF NearTerm
<1>7. a = b <=> Same(a, b, Len(a), Len(b))
    BY <1>2, SameWord
<1>8. (\E i \in DOMAIN a : RemoveAt(a, i) = b) <=> Inserted(a, b, Len(a), Len(b))
    BY <1>2, RemovedCharacter
<1>9. (\E i \in DOMAIN b : RemoveAt(b, i) = a) <=> Inserted(b, a, Len(b), Len(a))
    BY <1>2, RemovedCharacter
<1>10. (Len(a) = Len(b) /\ \E i \in DOMAIN a : [a EXCEPT ![i] = b[i]] = b)
         <=> Replaced(a, b, Len(a), Len(b))
    BY <1>2, ReplacedCharacter
<1> QED BY <1>4, <1>5, <1>6, <1>7, <1>8, <1>9, <1>10, Zenon DEF OneEdit, OneEditApart
-----------------------------------------------------------------------------
USE TextAssumption

(***************************************************************************)
(* Tokens and postings.                                                    *)
(***************************************************************************)
Token  == [term : Terms, position : Nat]
Facets == {r.facets : r \in Records} \cup {Decoded(r).facets : r \in Records}
Posting == [doc : Docs, freq : Nat, len : Nat, facets : Facets, positions : SUBSET Nat]

LEMMA TokenizeFacts ==
    ASSUME NEW text \in Seq(DOMAIN Stem)
    PROVE  Tokenize(text) \in Seq(Token)
<1> DEFINE all == [i \in DOMAIN text |-> [term |-> Stem[text[i]], position |-> i]]
           kept == {i \in DOMAIN text : text[i] \notin StopWords}
<1>1. Len(text) \in Nat /\ DOMAIN text = 1..Len(text) /\ \A i \in DOMAIN text : text[i] \in DOMAIN Stem
    OBVIOUS
<1>2. ASSUME NEW i \in DOMAIN text
      PROVE  [term |-> Stem[text[i]], position |-> i] \in Token
    <2>1. Stem[text[i]] \in Terms /\ i \in Nat
        BY <1>1 DEF Terms
    <2> QED BY <2>1 DEF Token
<1>3. all \in [1..Len(text) -> Token]
    BY <1>1, <1>2
<1>4. all \in Seq(Token) /\ DOMAIN all = DOMAIN text
    BY <1>1, <1>3
<1>5. Tokenize(text) = Retain(all, kept)
    BY DEF Tokenize
<1> HIDE DEF all
<1> QED BY <1>4, <1>5, RetainFacts

LEMMA TokensFinite ==
    ASSUME NEW tokens \in Seq(Token)
    PROVE  /\ Len(tokens) \in Nat /\ DOMAIN tokens = 1..Len(tokens)
           /\ \A i \in DOMAIN tokens : tokens[i].term \in Terms /\ tokens[i].position \in Nat
           /\ IsFiniteSet(DOMAIN tokens) /\ Cardinality(DOMAIN tokens) = Len(tokens)
<1>1. Len(tokens) \in Nat /\ DOMAIN tokens = 1..Len(tokens) /\ \A i \in DOMAIN tokens : tokens[i] \in Token
    OBVIOUS
<1>2. IsFiniteSet(1..Len(tokens))
    BY <1>1, CountTo, Zenon
<1>3. Cardinality(1..Len(tokens)) = Len(tokens)
    BY <1>1, CountTo, Zenon
<1> QED BY <1>1, <1>2, <1>3 DEF Token

LEMMA PostingFacts ==
    ASSUME NEW doc \in Docs, NEW tokens \in Seq(Token), NEW facets \in Facets, NEW t
    PROVE  /\ PostingOf(doc, tokens, facets, t) \in Posting
           /\ PostingOf(doc, tokens, facets, t).doc = doc
           /\ PostingOf(doc, tokens, facets, t).len = Len(tokens)
<1> DEFINE here == {i \in DOMAIN tokens : tokens[i].term = t}
           ps == {tokens[i].position : i \in here}
<1>1. /\ Len(tokens) \in Nat /\ IsFiniteSet(DOMAIN tokens)
      /\ \A i \in DOMAIN tokens : tokens[i].position \in Nat
    BY TokensFinite
<1>2. here \in SUBSET DOMAIN tokens
    OBVIOUS
<1>3. Cardinality(here) \in Nat
    BY <1>1, <1>2, FS_Subset, FS_CardinalityType
<1>4. ps \in SUBSET Nat
    BY <1>1
<1>5. PostingOf(doc, tokens, facets, t) =
        [doc |-> doc, freq |-> Cardinality(here), len |-> Len(tokens), facets |-> facets, positions |-> ps]
    BY DEF PostingOf
<1> HIDE DEF here, ps
<1> QED BY <1>1, <1>3, <1>4, <1>5 DEF Posting

LEMMA DecodedFacts ==
    ASSUME NEW r \in Records
    PROVE  /\ Decoded(r).text = r.text /\ r.text \in Seq(DOMAIN Stem)
           /\ r.facets \in Facets /\ Decoded(r).facets \in Facets
           /\ Tokenize(r.text) \in Seq(Token) /\ r # Absent
<1>1. r.text \in Seq(DOMAIN Stem) /\ r = [text |-> r.text, facets |-> r.facets]
    OBVIOUS
<1>2. Decoded(r).text = r.text
    BY <1>1 DEF Decoded
<1>3. Tokenize(r.text) \in Seq(Token)
    BY <1>1, TokenizeFacts
<1> QED BY <1>1, <1>2, <1>3 DEF Facets
-----------------------------------------------------------------------------
(***************************************************************************)
(* An index: its shape, and that its Bloom filter covers it.               *)
(***************************************************************************)
PostingLists == UNION {[T -> Seq(Posting)] : T \in SUBSET Terms}

IsBloom(b) == b = [members |-> b.members, count |-> b.count, capacity |-> b.capacity]

IsIndex(ix) ==
    /\ ix = [postings |-> ix.postings, totalDocs |-> ix.totalDocs, totalDocLen |-> ix.totalDocLen,
             bloom |-> ix.bloom]
    /\ ix.postings \in PostingLists
    /\ IsBloom(ix.bloom)

Covered(ix) == Indexed(ix) \subseteq ix.bloom.members

HasPosting(ix, d) == \E t \in DOMAIN ix.postings : \E i \in DOMAIN ix.postings[t] : ix.postings[t][i].doc = d

LEMMA IndexedIff ==
    ASSUME NEW ix, NEW d
    PROVE  d \in Indexed(ix) <=> HasPosting(ix, d)
BY DEF Indexed, DocsOf, HasPosting

LEMMA ListsTyped ==
    ASSUME NEW ix, ix.postings \in PostingLists
    PROVE  /\ DOMAIN ix.postings \in SUBSET Terms
           /\ \A t \in DOMAIN ix.postings : ix.postings[t] \in Seq(Posting)
           /\ \A t : PostingsOf(ix, t) \in Seq(Posting)
BY DEF PostingLists, PostingsOf

LEMMA EmptyIndexFacts == IsIndex(EmptyIndex) /\ Covered(EmptyIndex) /\ DOMAIN EmptyIndex.postings = {}
<1>1. EmptyIndex.postings = [t \in {} |-> <<>>] /\ EmptyIndex.bloom = NewBloom(InitialCapacity)
    BY DEF EmptyIndex
<1>2. [t \in {} |-> <<>>] \in PostingLists
    <2>1. {} \in SUBSET Terms /\ [t \in {} |-> <<>>] \in [{} -> Seq(Posting)]
        OBVIOUS
    <2> QED BY <2>1, Zenon DEF PostingLists
<1>3. Indexed(EmptyIndex) = {}
    BY <1>1 DEF Indexed
<1> QED BY <1>1, <1>2, <1>3 DEF IsIndex, IsBloom, Covered, EmptyIndex, NewBloom

\* Whether the filter grows and is rebuilt or not, it covers the new document and
\* what it covered before; nothing else of the index changes.
LEMMA BloomFacts ==
    ASSUME NEW ix, IsIndex(ix), NEW doc
    PROVE  LET new == BloomInsert(ix, doc) IN
           /\ new = [postings |-> ix.postings, totalDocs |-> ix.totalDocs, totalDocLen |-> ix.totalDocLen,
                     bloom |-> new.bloom]
           /\ IsBloom(new.bloom)
           /\ Covered(ix) => Indexed(ix) \cup {doc} \subseteq new.bloom.members
<1> DEFINE grow == ix.bloom.count >= ix.bloom.capacity
           b == IF grow THEN RebuildBloom(ix, 2 * ix.bloom.capacity) ELSE ix.bloom
           new == BloomInsert(ix, doc)
<1>1. new = [ix EXCEPT !.bloom = BloomAdd(b, doc)]
    BY DEF BloomInsert
<1>2. IsBloom(RebuildBloom(ix, 2 * ix.bloom.capacity))
      /\ RebuildBloom(ix, 2 * ix.bloom.capacity).members = Indexed(ix)
    <2> DEFINE count == FoldFunction(LAMBDA ps, n : n + Len(ps), 0, ix.postings)
               capacity == Max({2 * ix.bloom.capacity, InitialCapacity})
    <2>1. RebuildBloom(ix, 2 * ix.bloom.capacity) =
            [members |-> Indexed(ix), count |-> count, capacity |-> capacity]
        BY Zenon DEF RebuildBloom
    <2> HIDE DEF count, capacity
    <2> HIDE DEF RebuildBloom
    <2> QED BY <2>1 DEF IsBloom
<1>3. IsBloom(b) /\ (Covered(ix) => Indexed(ix) \subseteq b.members)
    BY <1>2 DEF IsIndex, Covered
<1> HIDE DEF grow, b, new
<1>4. IsBloom(BloomAdd(b, doc)) /\ BloomAdd(b, doc).members = b.members \cup {doc}
    <2> DEFINE m == b.members
               n == b.count
               c == b.capacity
    <2>1. b = [members |-> m, count |-> n, capacity |-> c]
        BY <1>3 DEF IsBloom
    <2>2. BloomAdd(b, doc) = [b EXCEPT !.members = @ \cup {doc}, !.count = @ + 1]
        BY DEF BloomAdd
    <2>3. BloomAdd(b, doc) = [members |-> m \cup {doc}, count |-> n + 1, capacity |-> c]
        <3> HIDE DEF m, n, c
        <3>1. b.members = m /\ b.count = n
            BY <2>1
        <3> PICK k : k = n + 1
            OBVIOUS
        <3>2. BloomAdd(b, doc) = [b EXCEPT !.members = m \cup {doc}, !.count = k]
            BY <2>2, <3>1
        <3> QED BY <2>1, <3>2
    <2> QED BY <2>3 DEF IsBloom
<1>5. new.bloom = BloomAdd(b, doc)
      /\ new = [postings |-> ix.postings, totalDocs |-> ix.totalDocs, totalDocLen |-> ix.totalDocLen,
                bloom |-> BloomAdd(b, doc)]
    BY <1>1 DEF IsIndex
<1> QED BY <1>3, <1>4, <1>5 DEF new

-----------------------------------------------------------------------------
(***************************************************************************)
(* What an index is an index of: the tokens and facets of some documents.  *)
(* ListFor says that a posting list is complete, exact and without         *)
(* repetition for one term, Listed that the postings of an index are those *)
(* of a content, and no others.                                            *)
(***************************************************************************)
IsContent(c) ==
    /\ DOMAIN c \in SUBSET Docs
    /\ \A d \in DOMAIN c : c[d].tokens \in Seq(Token) /\ c[d].facets \in Facets

With(c, doc, tokens, facets) ==
    [d \in DOMAIN c \cup {doc} |-> IF d = doc THEN [tokens |-> tokens, facets |-> facets] ELSE c[d]]
Without(c, doc) == [d \in DOMAIN c \ {doc} |-> c[d]]

HoldersOf(c, t) == {d \in DOMAIN c : t \in TermsOf(c[d].tokens)}
PostingIn(c, d, t) == PostingOf(d, c[d].tokens, c[d].facets, t)

ListFor(ps, c, t) ==
    /\ \A i \in DOMAIN ps : ps[i].doc \in HoldersOf(c, t) /\ ps[i] = PostingIn(c, ps[i].doc, t)
    /\ \A d \in HoldersOf(c, t) : \E i \in DOMAIN ps : ps[i].doc = d
    /\ \A i, j \in DOMAIN ps : ps[i].doc = ps[j].doc => i = j

Listed(ix, c) ==
    \A t \in Terms : /\ ListFor(PostingsOf(ix, t), c, t)
                     /\ t \in DOMAIN ix.postings => HoldersOf(c, t) # {}

LEMMA WithoutFacts ==
    ASSUME NEW c, IsContent(c), NEW doc
    PROVE  /\ IsContent(Without(c, doc))
           /\ \A t : HoldersOf(Without(c, doc), t) = HoldersOf(c, t) \ {doc}
           /\ \A t : \A d \in HoldersOf(c, t) \ {doc} : PostingIn(Without(c, doc), d, t) = PostingIn(c, d, t)
<1>1. /\ DOMAIN Without(c, doc) = DOMAIN c \ {doc}
      /\ \A d \in DOMAIN c \ {doc} : Without(c, doc)[d] = c[d]
    BY DEF Without
<1> HIDE DEF Without
<1>2. IsContent(Without(c, doc))
    BY <1>1 DEF IsContent
<1>3. \A t : HoldersOf(Without(c, doc), t) = HoldersOf(c, t) \ {doc}
    <2> TAKE t
    <2>1. \A d \in DOMAIN c \ {doc} : d \in HoldersOf(Without(c, doc), t) <=> d \in HoldersOf(c, t)
        BY <1>1, Zenon DEF HoldersOf
    <2>2. HoldersOf(Without(c, doc), t) \subseteq DOMAIN c \ {doc} /\ HoldersOf(c, t) \subseteq DOMAIN c
        BY <1>1, Zenon DEF HoldersOf
    <2> QED BY <2>1, <2>2
<1>4. \A t : \A d \in HoldersOf(c, t) \ {doc} : PostingIn(Without(c, doc), d, t) = PostingIn(c, d, t)
    BY <1>1, Zenon DEF HoldersOf, PostingIn
<1> QED BY <1>2, <1>3, <1>4

LEMMA WithFacts ==
    ASSUME NEW c, IsContent(c), NEW doc \in Docs, doc \notin DOMAIN c,
           NEW tokens \in Seq(Token), NEW facets \in Facets
    PROVE  LET new == With(c, doc, tokens, facets) IN
           /\ IsContent(new)
           /\ \A t : HoldersOf(new, t) = IF t \in TermsOf(tokens) THEN HoldersOf(c, t) \cup {doc} ELSE HoldersOf(c, t)
           /\ \A t : PostingIn(new, doc, t) = PostingOf(doc, tokens, facets, t)
           /\ \A t : \A d \in HoldersOf(c, t) : d # doc /\ PostingIn(new, d, t) = PostingIn(c, d, t)
<1> DEFINE new == With(c, doc, tokens, facets)
<1>1. /\ DOMAIN new = DOMAIN c \cup {doc}
      /\ \A d \in DOMAIN c : d # doc /\ new[d] = c[d]
      /\ new[doc].tokens = tokens /\ new[doc].facets = facets
    BY DEF With
<1> HIDE DEF new
<1>2. IsContent(new)
    BY <1>1 DEF IsContent
<1>3. \A t : HoldersOf(new, t) = IF t \in TermsOf(tokens) THEN HoldersOf(c, t) \cup {doc} ELSE HoldersOf(c, t)
    <2> TAKE t
    <2>1. \A d \in DOMAIN c : d \in HoldersOf(new, t) <=> d \in HoldersOf(c, t)
        BY <1>1, Zenon DEF HoldersOf
    <2>2. doc \in HoldersOf(new, t) <=> t \in TermsOf(tokens)
        BY <1>1, Zenon DEF HoldersOf
    <2>3. HoldersOf(new, t) \subseteq DOMAIN c \cup {doc} /\ HoldersOf(c, t) \subseteq DOMAIN c
        BY <1>1 DEF HoldersOf
    <2>4. CASE t \in TermsOf(tokens)
        <3>1. HoldersOf(new, t) = HoldersOf(c, t) \cup {doc}
            BY <2>1, <2>2, <2>3, <2>4
        <3> QED BY <3>1, <2>4
    <2>5. CASE t \notin TermsOf(tokens)
        <3>1. HoldersOf(new, t) = HoldersOf(c, t)
            BY <2>1, <2>2, <2>3, <2>5
        <3> QED BY <3>1, <2>5
    <2> QED BY <2>4, <2>5
<1>4. \A t : PostingIn(new, doc, t) = PostingOf(doc, tokens, facets, t)
    BY <1>1 DEF PostingIn
<1>5. \A t : \A d \in HoldersOf(c, t) : d # doc /\ PostingIn(new, d, t) = PostingIn(c, d, t)
    BY <1>1, Zenon DEF HoldersOf, PostingIn
<1> QED BY <1>2, <1>3, <1>4, <1>5 DEF new

\* The postings of the other documents, in order, are a list of the content without
\* the document.
LEMMA OtherDocsFacts ==
    ASSUME NEW ps \in Seq(Posting), NEW doc
    PROVE  /\ OtherDocs(ps, doc) \in Seq(Posting)
           /\ \A k \in DOMAIN OtherDocs(ps, doc) : \E i \in DOMAIN ps : ps[i].doc # doc /\ OtherDocs(ps, doc)[k] = ps[i]
           /\ \A i \in DOMAIN ps : ps[i].doc # doc => \E k \in DOMAIN OtherDocs(ps, doc) : OtherDocs(ps, doc)[k] = ps[i]
           /\ OtherDocs(ps, doc) = <<>> <=> \A i \in DOMAIN ps : ps[i].doc = doc
<1> DEFINE I == {i \in DOMAIN ps : ps[i].doc # doc}
           qs == OtherDocs(ps, doc)
<1>1. qs = Retain(ps, I)
    BY DEF OtherDocs
<1>2. I \in SUBSET DOMAIN ps
    OBVIOUS
<1> HIDE DEF I, qs
<1>3. /\ qs \in Seq(Posting)
      /\ \A k \in DOMAIN qs : Nth(I, k) \in I /\ qs[k] = ps[Nth(I, k)]
      /\ \A i \in I : Rank(I, i) \in DOMAIN qs /\ Nth(I, Rank(I, i)) = i
    BY <1>1, <1>2, RetainFacts
<1>4. qs = <<>> <=> I = {}
    BY <1>1, <1>2, RetainEmpty
<1>5. \A k \in DOMAIN qs : \E i \in DOMAIN ps : ps[i].doc # doc /\ qs[k] = ps[i]
    BY <1>3, Zenon DEF I
<1>6. \A i \in I : \E k \in DOMAIN qs : qs[k] = ps[i]
    BY <1>3, Zenon
<1> QED BY <1>3, <1>4, <1>5, <1>6, Zenon DEF I, qs

LEMMA OtherDocsListed ==
    ASSUME NEW ps \in Seq(Posting), NEW doc, NEW c, IsContent(c), NEW t, ListFor(ps, c, t)
    PROVE  /\ ListFor(OtherDocs(ps, doc), Without(c, doc), t)
           /\ OtherDocs(ps, doc) = <<>> <=> HoldersOf(Without(c, doc), t) = {}
<1> DEFINE I == {i \in DOMAIN ps : ps[i].doc # doc}
           qs == OtherDocs(ps, doc)
           w == Without(c, doc)
<1>1. /\ HoldersOf(w, t) = HoldersOf(c, t) \ {doc}
      /\ \A d \in HoldersOf(c, t) \ {doc} : PostingIn(w, d, t) = PostingIn(c, d, t)
    BY WithoutFacts
<1>2. /\ \A i \in DOMAIN ps : ps[i].doc \in HoldersOf(c, t) /\ ps[i] = PostingIn(c, ps[i].doc, t)
      /\ \A d \in HoldersOf(c, t) : \E i \in DOMAIN ps : ps[i].doc = d
      /\ \A i, j \in DOMAIN ps : ps[i].doc = ps[j].doc => i = j
    BY DEF ListFor
<1>3. /\ \A k \in DOMAIN qs : Nth(I, k) \in I /\ qs[k] = ps[Nth(I, k)] /\ k \in 1..Cardinality(I)
      /\ Cardinality(I) \in Nat
      /\ \A k, l \in DOMAIN qs : k < l => Nth(I, k) < Nth(I, l)
    <2>1. qs = Retain(ps, I) /\ I \in SUBSET DOMAIN ps
        BY DEF OtherDocs
    <2> HIDE DEF I, qs
    <2> QED BY <2>1, RetainFacts
<1>4. /\ \A i \in DOMAIN ps : ps[i].doc # doc => \E k \in DOMAIN qs : qs[k] = ps[i]
      /\ qs = <<>> <=> \A i \in DOMAIN ps : ps[i].doc = doc
    BY OtherDocsFacts
<1> HIDE DEF qs, w
<1>5. ASSUME NEW k \in DOMAIN qs PROVE qs[k].doc \in HoldersOf(w, t) /\ qs[k] = PostingIn(w, qs[k].doc, t)
    <2>1. Nth(I, k) \in DOMAIN ps /\ ps[Nth(I, k)].doc # doc /\ qs[k] = ps[Nth(I, k)]
        BY <1>3, Zenon
    <2> QED BY <2>1, <1>1, <1>2
<1>6. ASSUME NEW d \in HoldersOf(w, t) PROVE \E k \in DOMAIN qs : qs[k].doc = d
    <2>1. d \in HoldersOf(c, t) /\ d # doc
        BY <1>1
    <2>2. PICK i \in DOMAIN ps : ps[i].doc = d
        BY <2>1, <1>2, Zenon
    <2> QED BY <2>1, <2>2, <1>4
<1>7. ASSUME NEW k \in DOMAIN qs, NEW l \in DOMAIN qs, qs[k].doc = qs[l].doc PROVE k = l
    <2>1. Nth(I, k) \in DOMAIN ps /\ Nth(I, l) \in DOMAIN ps /\ qs[k] = ps[Nth(I, k)] /\ qs[l] = ps[Nth(I, l)]
        BY <1>3, Zenon
    <2>2. Nth(I, k) = Nth(I, l) /\ Nth(I, k) \in Int
        BY <2>1, <1>2, <1>7
    <2>3. ~(Nth(I, k) < Nth(I, l)) /\ ~(Nth(I, l) < Nth(I, k))
        BY <2>2
    <2>4. k \in Int /\ l \in Int
        BY <1>3
    <2> QED BY <2>3, <2>4, <1>3
<1>8. qs = <<>> <=> HoldersOf(w, t) = {}
    BY <1>1, <1>2, <1>4
<1> QED BY <1>5, <1>6, <1>7, <1>8 DEF ListFor, qs, w

\* A posting appended for a new document that holds the term; nothing for one that
\* does not.
LEMMA AppendListed ==
    ASSUME NEW ps \in Seq(Posting), NEW c, IsContent(c), NEW t, ListFor(ps, c, t),
           NEW doc \in Docs, doc \notin DOMAIN c, NEW tokens \in Seq(Token), NEW facets \in Facets
    PROVE  LET new == With(c, doc, tokens, facets)
           IN  IF t \in TermsOf(tokens)
               THEN ListFor(Append(ps, PostingOf(doc, tokens, facets, t)), new, t)
               ELSE ListFor(ps, new, t)
<1> DEFINE new == With(c, doc, tokens, facets)
           p == PostingOf(doc, tokens, facets, t)
           qs == Append(ps, p)
<1>1. /\ HoldersOf(new, t) = IF t \in TermsOf(tokens) THEN HoldersOf(c, t) \cup {doc} ELSE HoldersOf(c, t)
      /\ PostingIn(new, doc, t) = p
      /\ \A d \in HoldersOf(c, t) : d # doc /\ PostingIn(new, d, t) = PostingIn(c, d, t)
    BY WithFacts
<1>2. /\ \A i \in DOMAIN ps : ps[i].doc \in HoldersOf(c, t) /\ ps[i] = PostingIn(c, ps[i].doc, t)
      /\ \A d \in HoldersOf(c, t) : \E i \in DOMAIN ps : ps[i].doc = d
      /\ \A i, j \in DOMAIN ps : ps[i].doc = ps[j].doc => i = j
    BY DEF ListFor
<1>3. p.doc = doc
    BY PostingFacts
<1>4. CASE t \in TermsOf(tokens)
    <2> HIDE DEF new, p
    <2>1. /\ Len(ps) \in Nat /\ DOMAIN ps = 1..Len(ps) /\ DOMAIN qs = 1..(Len(ps) + 1)
          /\ \A i \in DOMAIN ps : qs[i] = ps[i] /\ i # Len(ps) + 1
          /\ qs[Len(ps) + 1] = p
        OBVIOUS
    <2> HIDE DEF qs
    <2>2. \A i \in DOMAIN qs : i \in DOMAIN ps \/ i = Len(ps) + 1
        BY <2>1
    <2>3. HoldersOf(new, t) = HoldersOf(c, t) \cup {doc}
        BY <1>1, <1>4
    <2>4. \A i \in DOMAIN qs : qs[i].doc \in HoldersOf(new, t) /\ qs[i] = PostingIn(new, qs[i].doc, t)
        <3> TAKE i \in DOMAIN qs
        <3>1. CASE i \in DOMAIN ps
            BY <3>1, <2>1, <2>3, <1>1, <1>2
        <3>2. CASE i = Len(ps) + 1
            BY <3>2, <2>1, <2>3, <1>1, <1>3
        <3> QED BY <3>1, <3>2, <2>2
    <2>5. \A d \in HoldersOf(new, t) : \E i \in DOMAIN qs : qs[i].doc = d
        <3> TAKE d \in HoldersOf(new, t)
        <3>1. CASE d = doc
            <4>1. Len(ps) + 1 \in DOMAIN qs
                BY <2>1
            <4> QED BY <4>1, <3>1, <2>1, <1>3
        <3>2. CASE d \in HoldersOf(c, t)
            <4>1. PICK i \in DOMAIN ps : ps[i].doc = d
                BY <3>2, <1>2, Zenon
            <4>2. i \in DOMAIN qs
                BY <2>1
            <4> QED BY <4>1, <4>2, <2>1
        <3> QED BY <3>1, <3>2, <2>3
    <2>6. \A i, j \in DOMAIN qs : qs[i].doc = qs[j].doc => i = j
        <3>1. \A i \in DOMAIN ps : ps[i].doc # doc
            BY <1>1, <1>2
        <3> TAKE i, j \in DOMAIN qs
        <3>2. CASE i \in DOMAIN ps /\ j \in DOMAIN ps
            BY <3>2, <2>1, <1>2
        <3>3. CASE i = Len(ps) + 1 /\ j \in DOMAIN ps
            BY <3>3, <2>1, <3>1, <1>3
        <3>4. CASE i \in DOMAIN ps /\ j = Len(ps) + 1
            BY <3>4, <2>1, <3>1, <1>3
        <3> QED BY <3>2, <3>3, <3>4, <2>2
    <2>7. ListFor(qs, new, t)
        BY <2>4, <2>5, <2>6, Zenon DEF ListFor
    <2> QED BY <2>7, <1>4 DEF qs, new, p
<1>5. CASE t \notin TermsOf(tokens)
    <2> HIDE DEF new
    <2>1. HoldersOf(new, t) = HoldersOf(c, t)
        BY <1>1, <1>5
    <2>2. \A i \in DOMAIN ps : ps[i].doc \in HoldersOf(new, t) /\ ps[i] = PostingIn(new, ps[i].doc, t)
        BY <2>1, <1>1, <1>2
    <2>3. ListFor(ps, new, t)
        BY <2>1, <2>2, <1>2, Zenon DEF ListFor
    <2> QED BY <2>3, <1>5 DEF new
<1> QED BY <1>4, <1>5

-----------------------------------------------------------------------------
(***************************************************************************)
(* The corpus statistics: the tokens of a content as pairs of a document   *)
(* and a position, so that their number is one cardinality.                *)
(***************************************************************************)
Pairs(c) == UNION {{d} \X DOMAIN c[d].tokens : d \in DOMAIN c}

Counted(ix, c) ==
    /\ IsFiniteSet(Pairs(c)) /\ ix.totalDocLen = Cardinality(Pairs(c))
    /\ ix.totalDocs \in Int /\ ix.totalDocs >= Cardinality(DOMAIN c)

Exact(ix, c) == ix.totalDocs = Cardinality(DOMAIN c)

LEMMA DocsFinite ==
    ASSUME NEW D \in SUBSET Docs
    PROVE  IsFiniteSet(D) /\ Cardinality(D) \in Nat
<1>1. IsFiniteSet(Docs)
    OBVIOUS
<1>2. IsFiniteSet(D)
    BY <1>1, FS_Subset
<1> QED BY <1>2, FS_CardinalityType

LEMMA RowFacts ==
    ASSUME NEW d, NEW n \in Nat
    PROVE  IsFiniteSet({d} \X (1..n)) /\ Cardinality({d} \X (1..n)) = n
<1> DEFINE f == [i \in 1..n |-> <<d, i>>]
           R == {d} \X (1..n)
<1>1. f \in Bijection(1..n, R)
    <2>1. f \in [1..n -> R]
        OBVIOUS
    <2>2. \A i, j \in 1..n : f[i] = f[j] => i = j
        OBVIOUS
    <2>3. \A p \in R : \E i \in 1..n : f[i] = p
        OBVIOUS
    <2> HIDE DEF f, R
    <2> QED BY <2>1, <2>2, <2>3 DEF Bijection, Injection, Surjection, IsInjective
<1>2. ExistsBijection(1..n, R)
    BY <1>1 DEF ExistsBijection
<1>3. IsFiniteSet(1..n)
    BY CountTo, Zenon
<1>4. Cardinality(1..n) = n
    BY CountTo, Zenon
<1> HIDE DEF R
<1>5. IsFiniteSet(R) /\ Cardinality(R) = n
    BY <1>2, <1>3, <1>4, FS_Bijection
<1> QED BY <1>5 DEF R

\* Two contents that agree but for one document differ by the tokens of that document.
LEMMA PairsSplit ==
    ASSUME NEW c, NEW small, NEW doc, doc \notin DOMAIN small, DOMAIN c = DOMAIN small \cup {doc},
           \A d \in DOMAIN small : c[d] = small[d], c[doc].tokens \in Seq(Token)
    PROVE  LET n == Len(c[doc].tokens) IN
           /\ Pairs(c) = Pairs(small) \cup ({doc} \X (1..n))
           /\ IsFiniteSet(Pairs(c)) <=> IsFiniteSet(Pairs(small))
           /\ IsFiniteSet(Pairs(c)) => Cardinality(Pairs(c)) = Cardinality(Pairs(small)) + n
<1> DEFINE n == Len(c[doc].tokens)
           R == {doc} \X (1..n)
           A == Pairs(small)
           B == Pairs(c)
<1>1. n \in Nat /\ DOMAIN c[doc].tokens = 1..n
    BY TokensFinite
<1>2. \A p : p \in A <=> \E d \in DOMAIN small : p \in {d} \X DOMAIN small[d].tokens
    BY Zenon DEF Pairs
<1>3. \A p : p \in B <=> \E d \in DOMAIN c : p \in {d} \X DOMAIN c[d].tokens
    BY Zenon DEF Pairs
<1> HIDE DEF A, B
<1>4. \A p : p \in B <=> (p \in A \/ p \in R)
    <2> TAKE p
    <2>1. p \in B <=> (p \in {doc} \X DOMAIN c[doc].tokens \/ \E d \in DOMAIN small : p \in {d} \X DOMAIN c[d].tokens)
        BY <1>3, Zenon
    <2>2. \A d \in DOMAIN small : {d} \X DOMAIN c[d].tokens = {d} \X DOMAIN small[d].tokens
        OBVIOUS
    <2>3. {doc} \X DOMAIN c[doc].tokens = R
        BY <1>1
    <2> QED BY <2>1, <2>2, <2>3, <1>2, Zenon
<1>5. A \cap R = {}
    <2> SUFFICES ASSUME NEW p \in A, p \in R PROVE FALSE
        OBVIOUS
    <2>1. PICK d \in DOMAIN small : p \in {d} \X DOMAIN small[d].tokens
        BY <1>2
    <2>2. p[1] = d /\ p[1] = doc
        BY <2>1
    <2> QED BY <2>2
<1>6. IsFiniteSet(R) /\ Cardinality(R) = n
    BY <1>1, RowFacts
<1> HIDE DEF R, n
<1>7. B = A \cup R
    BY <1>4
<1>8. A \in SUBSET B
    BY <1>7
<1>9. IsFiniteSet(B) => IsFiniteSet(A)
    BY <1>8, FS_Subset
<1>10. IsFiniteSet(A) => IsFiniteSet(B) /\ Cardinality(B) = Cardinality(A) + n
    <2> SUFFICES ASSUME IsFiniteSet(A) PROVE IsFiniteSet(B) /\ Cardinality(B) = Cardinality(A) + n
        OBVIOUS
    <2>1. IsFiniteSet(A \cup R) /\ Cardinality(A \cup R) = Cardinality(A) + Cardinality(R) - Cardinality(A \cap R)
        BY <1>6, FS_Union
    <2>2. Cardinality(A \cap R) = 0
        BY <1>5, FS_EmptySet
    <2>3. Cardinality(A) \in Nat
        BY FS_CardinalityType
    <2> QED BY <2>1, <2>2, <2>3, <1>1, <1>6, <1>7
<1> QED BY <1>7, <1>9, <1>10 DEF A, B, R, n

LEMMA WithCounts ==
    ASSUME NEW c, IsContent(c), NEW doc \in Docs, doc \notin DOMAIN c,
           NEW tokens \in Seq(Token), NEW facets \in Facets, IsFiniteSet(Pairs(c))
    PROVE  LET new == With(c, doc, tokens, facets) IN
           /\ IsFiniteSet(Pairs(new))
           /\ Cardinality(Pairs(new)) = Cardinality(Pairs(c)) + Len(tokens)
           /\ Cardinality(DOMAIN new) = Cardinality(DOMAIN c) + 1
<1> DEFINE new == With(c, doc, tokens, facets)
<1>1. /\ DOMAIN new = DOMAIN c \cup {doc}
      /\ \A d \in DOMAIN c : new[d] = c[d]
      /\ new[doc].tokens = tokens
    BY DEF With
<1> HIDE DEF new
<1>2. IsFiniteSet(Pairs(new)) /\ Cardinality(Pairs(new)) = Cardinality(Pairs(c)) + Len(tokens)
    BY <1>1, PairsSplit
<1>3. Cardinality(DOMAIN new) = Cardinality(DOMAIN c) + 1
    <2>1. IsFiniteSet(DOMAIN c)
        BY DocsFinite DEF IsContent
    <2> QED BY <2>1, <1>1, FS_AddElement
<1> QED BY <1>2, <1>3 DEF new

LEMMA WithoutCounts ==
    ASSUME NEW c, IsContent(c), NEW doc, IsFiniteSet(Pairs(c))
    PROVE  LET new == Without(c, doc) IN
           /\ IsFiniteSet(Pairs(new))
           /\ Cardinality(DOMAIN new) \in Nat /\ Cardinality(DOMAIN new) <= Cardinality(DOMAIN c)
           /\ doc \in DOMAIN c =>
                /\ Cardinality(Pairs(new)) = Cardinality(Pairs(c)) - Len(c[doc].tokens)
                /\ Cardinality(DOMAIN new) = Cardinality(DOMAIN c) - 1
           /\ doc \notin DOMAIN c => Pairs(new) = Pairs(c) /\ DOMAIN new = DOMAIN c
<1> DEFINE new == Without(c, doc)
<1>1. /\ DOMAIN new = DOMAIN c \ {doc}
      /\ \A d \in DOMAIN new : new[d] = c[d]
    BY DEF Without
<1> HIDE DEF new
<1>2. IsFiniteSet(DOMAIN c) /\ Cardinality(DOMAIN c) \in Nat
    BY DocsFinite DEF IsContent
<1>3. IsFiniteSet(DOMAIN new) /\ Cardinality(DOMAIN new) \in Nat
    <2>1. IsFiniteSet(DOMAIN c \ {doc})
        BY <1>2, FS_RemoveElement
    <2> QED BY <2>1, <1>1, FS_CardinalityType
<1>4. Cardinality(DOMAIN new) = IF doc \in DOMAIN c THEN Cardinality(DOMAIN c) - 1 ELSE Cardinality(DOMAIN c)
    BY <1>1, <1>2, FS_RemoveElement
<1>5. CASE doc \in DOMAIN c
    <2>1. doc \notin DOMAIN new /\ DOMAIN c = DOMAIN new \cup {doc} /\ \A d \in DOMAIN new : c[d] = new[d]
        BY <1>1, <1>5
    <2>2. c[doc].tokens \in Seq(Token)
        BY <1>5 DEF IsContent
    <2>3. IsFiniteSet(Pairs(new)) /\ Cardinality(Pairs(c)) = Cardinality(Pairs(new)) + Len(c[doc].tokens)
        BY <2>1, <2>2, PairsSplit
    <2>4. Cardinality(Pairs(new)) \in Nat /\ Len(c[doc].tokens) \in Nat
        BY <2>2, <2>3, FS_CardinalityType
    <2>5. Cardinality(Pairs(new)) = Cardinality(Pairs(c)) - Len(c[doc].tokens)
        BY <2>3, <2>4
    <2> QED BY <1>2, <1>3, <1>4, <1>5, <2>3, <2>5 DEF new
<1>6. CASE doc \notin DOMAIN c
    <2>1. DOMAIN new = DOMAIN c /\ \A d \in DOMAIN c : new[d] = c[d]
        BY <1>1, <1>6
    <2>2. Pairs(new) = Pairs(c)
        BY <2>1, Zenon DEF Pairs
    <2> QED BY <1>2, <1>3, <1>4, <1>6, <2>1, <2>2 DEF new
<1> QED BY <1>5, <1>6

-----------------------------------------------------------------------------
(***************************************************************************)
(* remove_document, and skipping it for a document without postings.       *)
(***************************************************************************)
Matching(ix, c) == IsContent(c) /\ Listed(ix, c) /\ Counted(ix, c)
HollowIn(c, doc) == doc \in DOMAIN c /\ c[doc].tokens = <<>>

LensOf(ix, doc) ==
    UNION {{ix.postings[t][i].len : i \in {j \in DOMAIN ix.postings[t] : ix.postings[t][j].doc = doc}} :
             t \in DOMAIN ix.postings}

\* The conclusion of RemoveFacts, by name.
Removed(new, ix, doc) ==
    /\ DOMAIN new.postings = {t \in DOMAIN ix.postings : OtherDocs(ix.postings[t], doc) # <<>>}
    /\ \A t \in DOMAIN new.postings : new.postings[t] = OtherDocs(ix.postings[t], doc)
    /\ \A t : PostingsOf(new, t) = OtherDocs(PostingsOf(ix, t), doc)
    /\ new.bloom = ix.bloom
    /\ new.totalDocs = IF LensOf(ix, doc) # {} THEN ix.totalDocs - 1 ELSE ix.totalDocs
    /\ new.totalDocLen = IF LensOf(ix, doc) # {} THEN ix.totalDocLen - Max(LensOf(ix, doc)) ELSE ix.totalDocLen

LEMMA RemoveFacts ==
    ASSUME NEW ix, IsIndex(ix), NEW doc
    PROVE  IsIndex(RemoveDocument(ix, doc)) /\ Removed(RemoveDocument(ix, doc), ix, doc)
<1> DEFINE kept == [t \in DOMAIN ix.postings |-> OtherDocs(ix.postings[t], doc)]
           T == {u \in DOMAIN kept : kept[u] # <<>>}
           lists == [t \in T |-> kept[t]]
           found == LensOf(ix, doc)
           n == IF found # {} THEN ix.totalDocs - 1 ELSE ix.totalDocs
           l == IF found # {} THEN ix.totalDocLen - Max(found) ELSE ix.totalDocLen
           new == RemoveDocument(ix, doc)
<1>1. /\ ix.postings \in PostingLists /\ IsBloom(ix.bloom)
      /\ ix = [postings |-> ix.postings, totalDocs |-> ix.totalDocs, totalDocLen |-> ix.totalDocLen,
               bloom |-> ix.bloom]
    BY DEF IsIndex
<1>2. /\ DOMAIN ix.postings \in SUBSET Terms
      /\ \A t \in DOMAIN ix.postings : ix.postings[t] \in Seq(Posting)
    BY <1>1, ListsTyped
<1>3. \A t \in DOMAIN ix.postings : OtherDocs(ix.postings[t], doc) \in Seq(Posting)
    BY <1>2, OtherDocsFacts
<1>4. new = [ix EXCEPT
               !.postings = lists,
               !.totalDocs = IF found # {} THEN @ - 1 ELSE @,
               !.totalDocLen = IF found # {} THEN @ - Max(found) ELSE @]
    BY Zenon DEF RemoveDocument, LensOf
<1>5. new = [postings |-> lists, totalDocs |-> n, totalDocLen |-> l, bloom |-> ix.bloom]
    <2> HIDE DEF lists, found, new
    <2>1. new = [ix EXCEPT !.postings = lists, !.totalDocs = n, !.totalDocLen = l]
        BY <1>4, Zenon
    <2> HIDE DEF n, l
    <2> PICK p, nd, nl, bl : p = ix.postings /\ nd = ix.totalDocs /\ nl = ix.totalDocLen /\ bl = ix.bloom
        OBVIOUS
    <2>2. ix = [postings |-> p, totalDocs |-> nd, totalDocLen |-> nl, bloom |-> bl]
        BY <1>1
    <2> QED BY <2>1, <2>2
<1>6. /\ DOMAIN kept = DOMAIN ix.postings
      /\ \A t \in DOMAIN ix.postings : kept[t] = OtherDocs(ix.postings[t], doc)
    OBVIOUS
<1> HIDE DEF kept
<1>7. /\ DOMAIN lists = {t \in DOMAIN ix.postings : OtherDocs(ix.postings[t], doc) # <<>>}
      /\ \A t \in DOMAIN lists : lists[t] = OtherDocs(ix.postings[t], doc)
    BY <1>6
<1>8. lists \in PostingLists
    <2>1. T \in SUBSET Terms
        BY <1>2, <1>6
    <2>2. \A t \in T : kept[t] \in Seq(Posting)
        BY <1>3, <1>6
    <2>3. lists \in [T -> Seq(Posting)]
        BY <2>2
    <2> HIDE DEF lists, T
    <2> QED BY <2>1, <2>3, Zenon DEF PostingLists
<1> HIDE DEF lists, found, n, l, new
<1>9. IsIndex(new)
    BY <1>1, <1>5, <1>8 DEF IsIndex
<1>10. \A t : PostingsOf(new, t) = OtherDocs(PostingsOf(ix, t), doc)
    <2> TAKE t
    <2>1. new.postings = lists
        BY <1>5
    <2>2. CASE t \in DOMAIN lists
        <3>1. t \in DOMAIN ix.postings /\ lists[t] = OtherDocs(ix.postings[t], doc)
            BY <2>2, <1>7
        <3> QED BY <2>1, <2>2, <3>1 DEF PostingsOf
    <2>3. CASE t \in DOMAIN ix.postings /\ t \notin DOMAIN lists
        <3>1. OtherDocs(ix.postings[t], doc) = <<>>
            BY <2>3, <1>7
        <3> QED BY <2>1, <2>3, <3>1 DEF PostingsOf
    <2>4. CASE t \notin DOMAIN ix.postings
        <3>1. t \notin DOMAIN lists
            BY <2>4, <1>7
        <3>2. OtherDocs(<<>>, doc) = <<>>
            <4>1. <<>> \in Seq(Posting) /\ \A i \in DOMAIN <<>> : <<>>[i].doc = doc
                OBVIOUS
            <4> QED BY <4>1, OtherDocsFacts
        <3> QED BY <2>1, <2>4, <3>1, <3>2 DEF PostingsOf
    <2> QED BY <2>2, <2>3, <2>4
<1>11. Removed(new, ix, doc)
    BY <1>5, <1>7, <1>10 DEF Removed, n, l, found
<1> QED BY <1>9, <1>11 DEF new

LEMMA RemoveCovered ==
    ASSUME NEW ix, IsIndex(ix), Covered(ix), NEW doc
    PROVE  Covered(RemoveDocument(ix, doc))
<1> DEFINE new == RemoveDocument(ix, doc)
<1>1. Removed(new, ix, doc)
    BY RemoveFacts
<1>2. \A t \in DOMAIN ix.postings : ix.postings[t] \in Seq(Posting)
    BY ListsTyped DEF IsIndex
<1> HIDE DEF new
<1>3. \A d : HasPosting(new, d) => HasPosting(ix, d)
    <2> SUFFICES ASSUME NEW t \in DOMAIN new.postings, NEW k \in DOMAIN new.postings[t]
                 PROVE  HasPosting(ix, new.postings[t][k].doc)
        BY DEF HasPosting
    <2>1. t \in DOMAIN ix.postings /\ new.postings[t] = OtherDocs(ix.postings[t], doc)
        BY <1>1 DEF Removed
    <2>2. PICK i \in DOMAIN ix.postings[t] : new.postings[t][k] = ix.postings[t][i]
        BY <2>1, <1>2, OtherDocsFacts
    <2> QED BY <2>1, <2>2 DEF HasPosting
<1>4. Indexed(new) \subseteq Indexed(ix)
    BY <1>3, IndexedIff
<1>5. new.bloom = ix.bloom
    BY <1>1 DEF Removed
<1> QED BY <1>4, <1>5 DEF Covered, new

LEMMA RemoveListed ==
    ASSUME NEW ix, IsIndex(ix), NEW c, IsContent(c), Listed(ix, c), NEW doc
    PROVE  Listed(RemoveDocument(ix, doc), Without(c, doc))
<1> DEFINE new == RemoveDocument(ix, doc)
           w == Without(c, doc)
<1>1. Removed(new, ix, doc)
    BY RemoveFacts
<1>2. /\ \A t \in DOMAIN ix.postings : ix.postings[t] \in Seq(Posting)
      /\ \A t : PostingsOf(ix, t) \in Seq(Posting)
    BY ListsTyped DEF IsIndex
<1> HIDE DEF new, w
<1> SUFFICES ASSUME NEW t \in Terms
             PROVE  ListFor(PostingsOf(new, t), w, t) /\ (t \in DOMAIN new.postings => HoldersOf(w, t) # {})
    BY DEF Listed, new, w
<1>3. ListFor(PostingsOf(ix, t), c, t)
    BY DEF Listed
<1>4. /\ ListFor(OtherDocs(PostingsOf(ix, t), doc), w, t)
      /\ OtherDocs(PostingsOf(ix, t), doc) = <<>> <=> HoldersOf(w, t) = {}
    BY <1>2, <1>3, OtherDocsListed DEF w
<1>5. PostingsOf(new, t) = OtherDocs(PostingsOf(ix, t), doc)
    BY <1>1 DEF Removed
<1>6. ASSUME t \in DOMAIN new.postings PROVE OtherDocs(PostingsOf(ix, t), doc) # <<>>
    <2>1. t \in DOMAIN ix.postings /\ OtherDocs(ix.postings[t], doc) # <<>>
        BY <1>1, <1>6 DEF Removed
    <2> QED BY <2>1 DEF PostingsOf
<1> QED BY <1>4, <1>5, <1>6

\* The postings of a document tell its length; a document without postings has no
\* tokens.
LEMMA PostingLens ==
    ASSUME NEW ix, IsIndex(ix), NEW c, IsContent(c), Listed(ix, c), NEW doc
    PROVE  /\ HasPosting(ix, doc) <=> doc \in DOMAIN c /\ c[doc].tokens # <<>>
           /\ LensOf(ix, doc) # {} <=> HasPosting(ix, doc)
           /\ HasPosting(ix, doc) => LensOf(ix, doc) = {Len(c[doc].tokens)}
<1>1. \A n : n \in LensOf(ix, doc) <=>
               \E t \in DOMAIN ix.postings : \E i \in DOMAIN ix.postings[t] :
                  ix.postings[t][i].doc = doc /\ n = ix.postings[t][i].len
    <2> TAKE n
    <2> DEFINE Here(t) == {j \in DOMAIN ix.postings[t] : ix.postings[t][j].doc = doc}
    <2>1. n \in LensOf(ix, doc) <=> \E t \in DOMAIN ix.postings : n \in {ix.postings[t][i].len : i \in Here(t)}
        BY Zenon DEF LensOf
    <2>2. \A t : n \in {ix.postings[t][i].len : i \in Here(t)} <=> \E i \in Here(t) : n = ix.postings[t][i].len
        BY Zenon
    <2> QED BY <2>1, <2>2, Zenon
<1>2. DOMAIN ix.postings \in SUBSET Terms
    BY ListsTyped DEF IsIndex
<1>3. ASSUME NEW t \in DOMAIN ix.postings, NEW i \in DOMAIN ix.postings[t], ix.postings[t][i].doc = doc
      PROVE  doc \in DOMAIN c /\ c[doc].tokens # <<>> /\ ix.postings[t][i].len = Len(c[doc].tokens)
    <2>1. ListFor(ix.postings[t], c, t)
        BY <1>2 DEF Listed, PostingsOf
    <2>2. doc \in HoldersOf(c, t) /\ ix.postings[t][i] = PostingIn(c, doc, t)
        BY <2>1, <1>3 DEF ListFor
    <2>3. doc \in DOMAIN c /\ t \in TermsOf(c[doc].tokens)
        BY <2>2 DEF HoldersOf
    <2>4. doc \in Docs /\ c[doc].tokens \in Seq(Token) /\ c[doc].facets \in Facets
        BY <2>3 DEF IsContent
    <2>5. ix.postings[t][i].len = Len(c[doc].tokens)
        BY <2>2, <2>4, PostingFacts DEF PostingIn
    <2>6. c[doc].tokens # <<>>
        BY <2>3 DEF TermsOf
    <2> QED BY <2>3, <2>5, <2>6
<1>4. ASSUME doc \in DOMAIN c, c[doc].tokens # <<>> PROVE HasPosting(ix, doc)
    <2> DEFINE tokens == c[doc].tokens
    <2>1. tokens \in Seq(Token) /\ tokens # <<>>
        BY <1>4 DEF IsContent
    <2>2. 1 \in DOMAIN tokens /\ tokens[1].term \in Terms
        <3>1. Len(tokens) \in Nat /\ DOMAIN tokens = 1..Len(tokens) /\ Len(tokens) # 0
            BY <2>1
        <3> HIDE DEF tokens
        <3>2. 1 \in DOMAIN tokens
            BY <3>1
        <3> QED BY <2>1, <3>2, TokensFinite
    <2> PICK t : t = tokens[1].term
        OBVIOUS
    <2>3. t \in Terms /\ doc \in HoldersOf(c, t)
        BY <1>4, <2>2 DEF HoldersOf, TermsOf
    <2>4. ListFor(PostingsOf(ix, t), c, t)
        BY <2>3 DEF Listed
    <2>5. PICK i \in DOMAIN PostingsOf(ix, t) : PostingsOf(ix, t)[i].doc = doc
        BY <2>3, <2>4, Zenon DEF ListFor
    <2>6. t \in DOMAIN ix.postings /\ PostingsOf(ix, t) = ix.postings[t]
        <3>1. CASE t \in DOMAIN ix.postings
            BY <3>1 DEF PostingsOf
        <3>2. CASE t \notin DOMAIN ix.postings
            <4>1. PostingsOf(ix, t) = <<>>
                BY <3>2 DEF PostingsOf
            <4> QED BY <4>1, <2>5
        <3> QED BY <3>1, <3>2
    <2> QED BY <2>5, <2>6 DEF HasPosting
<1>5. LensOf(ix, doc) # {} <=> HasPosting(ix, doc)
    BY <1>1, Zenon DEF HasPosting
<1>6. HasPosting(ix, doc) => doc \in DOMAIN c /\ c[doc].tokens # <<>>
    BY <1>3, Zenon DEF HasPosting
<1>7. \A n \in LensOf(ix, doc) : n = Len(c[doc].tokens)
    BY <1>1, <1>3, Zenon
<1> HIDE DEF HasPosting
<1> QED BY <1>4, <1>5, <1>6, <1>7

LEMMA RemoveMatching ==
    ASSUME NEW ix, IsIndex(ix), NEW c, Matching(ix, c), NEW doc
    PROVE  /\ Matching(RemoveDocument(ix, doc), Without(c, doc))
           /\ Exact(ix, c) /\ ~HollowIn(c, doc) => Exact(RemoveDocument(ix, doc), Without(c, doc))
<1> DEFINE new == RemoveDocument(ix, doc)
           w == Without(c, doc)
<1>1. IsContent(c) /\ Listed(ix, c) /\ Counted(ix, c)
    BY DEF Matching
<1>2. IsContent(w) /\ Listed(new, w)
    BY <1>1, WithoutFacts, RemoveListed
<1>3. /\ new.totalDocs = IF LensOf(ix, doc) # {} THEN ix.totalDocs - 1 ELSE ix.totalDocs
      /\ new.totalDocLen = IF LensOf(ix, doc) # {} THEN ix.totalDocLen - Max(LensOf(ix, doc)) ELSE ix.totalDocLen
    BY RemoveFacts DEF Removed
<1>4. /\ HasPosting(ix, doc) <=> doc \in DOMAIN c /\ c[doc].tokens # <<>>
      /\ LensOf(ix, doc) # {} <=> HasPosting(ix, doc)
      /\ HasPosting(ix, doc) => LensOf(ix, doc) = {Len(c[doc].tokens)}
    BY <1>1, PostingLens
<1>5. /\ IsFiniteSet(Pairs(c)) /\ ix.totalDocLen = Cardinality(Pairs(c))
      /\ ix.totalDocs \in Int /\ ix.totalDocs >= Cardinality(DOMAIN c)
    BY <1>1 DEF Counted
<1>6. /\ IsFiniteSet(Pairs(w))
      /\ Cardinality(DOMAIN w) \in Nat /\ Cardinality(DOMAIN w) <= Cardinality(DOMAIN c)
      /\ doc \in DOMAIN c =>
           /\ Cardinality(Pairs(w)) = Cardinality(Pairs(c)) - Len(c[doc].tokens)
           /\ Cardinality(DOMAIN w) = Cardinality(DOMAIN c) - 1
      /\ doc \notin DOMAIN c => Pairs(w) = Pairs(c) /\ DOMAIN w = DOMAIN c
    BY <1>1, <1>5, WithoutCounts
<1>7. Cardinality(DOMAIN c) \in Nat
    BY <1>1, DocsFinite DEF IsContent
<1>8. Cardinality(Pairs(c)) \in Nat
    BY <1>5, FS_CardinalityType
<1> HIDE DEF new, w
<1>9. CASE HasPosting(ix, doc)
    <2>1. doc \in DOMAIN c
        BY <1>4, <1>9
    <2> DEFINE n == Len(c[doc].tokens)
    <2>2. n \in Nat
        BY <2>1, <1>1 DEF IsContent
    <2>3. LensOf(ix, doc) = {n}
        BY <1>4, <1>9
    <2> HIDE DEF n
    <2>4. Max({n}) = n
        <3>1. {n} \in SUBSET Nat /\ {n} # {} /\ \A x \in {n} : x <= n
            BY <2>2
        <3>2. Max({n}) \in {n}
            BY <3>1, <2>2, MaxExists
        <3> QED BY <3>2
    <2>5. new.totalDocs = ix.totalDocs - 1 /\ new.totalDocLen = ix.totalDocLen - n
        BY <1>3, <2>3, <2>4
    <2>6. /\ Cardinality(Pairs(w)) = Cardinality(Pairs(c)) - n
          /\ Cardinality(DOMAIN w) = Cardinality(DOMAIN c) - 1
        BY <1>6, <2>1 DEF n
    <2>7. Counted(new, w)
        BY <1>5, <1>6, <1>7, <1>8, <2>2, <2>5, <2>6 DEF Counted
    <2>8. Exact(ix, c) => Exact(new, w)
        BY <2>5, <2>6 DEF Exact
    <2> QED BY <1>2, <2>7, <2>8 DEF Matching, new, w
<1>10. CASE ~HasPosting(ix, doc)
    <2>1. new.totalDocs = ix.totalDocs /\ new.totalDocLen = ix.totalDocLen
        BY <1>3, <1>4, <1>10
    <2>2. Cardinality(Pairs(w)) = Cardinality(Pairs(c))
        <3>1. CASE doc \in DOMAIN c
            <4>1. Len(c[doc].tokens) = 0
                BY <1>4, <1>10, <3>1
            <4> QED BY <4>1, <3>1, <1>6, <1>8
        <3> QED BY <3>1, <1>6
    <2>3. Counted(new, w)
        BY <1>5, <1>6, <1>7, <2>1, <2>2 DEF Counted
    <2>4. Exact(ix, c) /\ ~HollowIn(c, doc) => Exact(new, w)
        BY <1>4, <1>6, <1>10, <2>1 DEF Exact, HollowIn
    <2> QED BY <1>2, <2>3, <2>4 DEF Matching, new, w
<1> QED BY <1>9, <1>10

\* A document outside the postings need not be removed: the index is one of the
\* content without it as well.
LEMMA SkipMatching ==
    ASSUME NEW ix, IsIndex(ix), NEW c, Matching(ix, c), NEW doc, ~HasPosting(ix, doc)
    PROVE  /\ Matching(ix, Without(c, doc))
           /\ Exact(ix, c) /\ ~HollowIn(c, doc) => Exact(ix, Without(c, doc))
<1> DEFINE w == Without(c, doc)
<1>1. IsContent(c) /\ Listed(ix, c) /\ Counted(ix, c)
    BY DEF Matching
<1>2. /\ IsContent(w)
      /\ \A t : HoldersOf(w, t) = HoldersOf(c, t) \ {doc}
      /\ \A t : \A d \in HoldersOf(c, t) \ {doc} : PostingIn(w, d, t) = PostingIn(c, d, t)
    BY <1>1, WithoutFacts
<1>3. HasPosting(ix, doc) <=> doc \in DOMAIN c /\ c[doc].tokens # <<>>
    BY <1>1, PostingLens
<1>4. \A t : HoldersOf(w, t) = HoldersOf(c, t)
    <2>1. \A t : doc \notin HoldersOf(c, t)
        <3> SUFFICES ASSUME NEW t, doc \in HoldersOf(c, t) PROVE FALSE
            OBVIOUS
        <3>1. doc \in DOMAIN c /\ t \in TermsOf(c[doc].tokens)
            BY DEF HoldersOf
        <3>2. c[doc].tokens = <<>>
            BY <3>1, <1>3
        <3> QED BY <3>1, <3>2 DEF TermsOf
    <2> QED BY <2>1, <1>2
<1>5. /\ IsFiniteSet(Pairs(c)) /\ ix.totalDocLen = Cardinality(Pairs(c))
      /\ ix.totalDocs \in Int /\ ix.totalDocs >= Cardinality(DOMAIN c)
    BY <1>1 DEF Counted
<1>6. /\ IsFiniteSet(Pairs(w))
      /\ Cardinality(DOMAIN w) \in Nat /\ Cardinality(DOMAIN w) <= Cardinality(DOMAIN c)
      /\ doc \in DOMAIN c =>
           /\ Cardinality(Pairs(w)) = Cardinality(Pairs(c)) - Len(c[doc].tokens)
           /\ Cardinality(DOMAIN w) = Cardinality(DOMAIN c) - 1
      /\ doc \notin DOMAIN c => Pairs(w) = Pairs(c) /\ DOMAIN w = DOMAIN c
    BY <1>1, <1>5, WithoutCounts
<1>7. Cardinality(DOMAIN c) \in Nat
    BY <1>1, DocsFinite DEF IsContent
<1>8. Cardinality(Pairs(c)) \in Nat
    BY <1>5, FS_CardinalityType
<1> HIDE DEF w
<1>9. Listed(ix, w)
    <2> SUFFICES ASSUME NEW t \in Terms
                 PROVE  ListFor(PostingsOf(ix, t), w, t) /\ (t \in DOMAIN ix.postings => HoldersOf(w, t) # {})
        BY DEF Listed
    <2>1. ListFor(PostingsOf(ix, t), c, t) /\ (t \in DOMAIN ix.postings => HoldersOf(c, t) # {})
        BY <1>1 DEF Listed
    <2>2. \A d \in HoldersOf(c, t) : PostingIn(w, d, t) = PostingIn(c, d, t)
        BY <1>2, <1>4
    <2>3. HoldersOf(w, t) = HoldersOf(c, t)
        BY <1>4
    <2>4. ListFor(PostingsOf(ix, t), w, t)
        BY <2>1, <2>2, <2>3 DEF ListFor
    <2> QED BY <2>1, <2>3, <2>4
<1>10. Cardinality(Pairs(w)) = Cardinality(Pairs(c))
    <2>1. CASE doc \in DOMAIN c
        <3>1. Len(c[doc].tokens) = 0
            BY <1>3, <2>1
        <3> QED BY <3>1, <2>1, <1>6, <1>8
    <2> QED BY <2>1, <1>6
<1>11. Counted(ix, w)
    BY <1>5, <1>6, <1>7, <1>10 DEF Counted
<1>12. Exact(ix, c) /\ ~HollowIn(c, doc) => Exact(ix, w)
    BY <1>3, <1>6 DEF Exact, HollowIn
<1> QED BY <1>2, <1>9, <1>11, <1>12 DEF Matching, w

-----------------------------------------------------------------------------
(***************************************************************************)
(* add_document.                                                           *)
(***************************************************************************)
\* The conclusion of AddFacts, by name.
Added(new, ix, doc, tokens, facets) ==
    /\ DOMAIN new.postings = DOMAIN ix.postings \cup TermsOf(tokens)
    /\ \A t : PostingsOf(new, t) = IF t \in TermsOf(tokens)
                                   THEN Append(PostingsOf(ix, t), PostingOf(doc, tokens, facets, t))
                                   ELSE PostingsOf(ix, t)
    /\ new.totalDocs = ix.totalDocs + 1
    /\ new.totalDocLen = ix.totalDocLen + Len(tokens)
    /\ Covered(ix) => Indexed(ix) \cup {doc} \subseteq new.bloom.members

LEMMA AddFacts ==
    ASSUME NEW ix, IsIndex(ix), NEW doc \in Docs, NEW tokens \in Seq(Token), NEW facets \in Facets
    PROVE  LET new == AddDocument(ix, doc, tokens, facets)
           IN  IsIndex(new) /\ Added(new, ix, doc, tokens, facets)
<1> DEFINE new == AddDocument(ix, doc, tokens, facets)
           grown == BloomInsert(ix, doc)
           bloom == grown.bloom
           terms == TermsOf(tokens)
           Longer(t) == Append(PostingsOf(ix, t), PostingOf(doc, tokens, facets, t))
           T == DOMAIN ix.postings \cup terms
           lists == [t \in T |-> IF t \in terms THEN Longer(t) ELSE ix.postings[t]]
           n == ix.totalDocs + 1
           l == ix.totalDocLen + Len(tokens)
<1>1. /\ ix.postings \in PostingLists
      /\ DOMAIN ix.postings \in SUBSET Terms
      /\ \A t \in DOMAIN ix.postings : ix.postings[t] \in Seq(Posting)
      /\ \A t : PostingsOf(ix, t) \in Seq(Posting)
    BY ListsTyped DEF IsIndex
<1>2. /\ grown = [postings |-> ix.postings, totalDocs |-> ix.totalDocs, totalDocLen |-> ix.totalDocLen,
                  bloom |-> bloom]
      /\ IsBloom(bloom)
      /\ Covered(ix) => Indexed(ix) \cup {doc} \subseteq bloom.members
    BY BloomFacts
<1>3. new = [grown EXCEPT
               !.postings = [t \in DOMAIN @ \cup terms |-> IF t \in terms THEN Longer(t) ELSE @[t]],
               !.totalDocs = @ + 1,
               !.totalDocLen = @ + Len(tokens)]
    BY Zenon DEF AddDocument
<1>4. grown.postings = ix.postings /\ grown.totalDocs = ix.totalDocs /\ grown.totalDocLen = ix.totalDocLen
    BY <1>2
<1> HIDE DEF new, bloom, grown
<1>5. new = [postings |-> lists, totalDocs |-> n, totalDocLen |-> l, bloom |-> bloom]
    <2>1. new = [grown EXCEPT
                   !.postings = [t \in DOMAIN grown.postings \cup terms |->
                                   IF t \in terms THEN Longer(t) ELSE grown.postings[t]],
                   !.totalDocs = grown.totalDocs + 1,
                   !.totalDocLen = grown.totalDocLen + Len(tokens)]
        BY <1>3, Zenon
    <2>2. [t \in DOMAIN grown.postings \cup terms |-> IF t \in terms THEN Longer(t) ELSE grown.postings[t]] = lists
        BY <1>4, Zenon
    <2> HIDE DEF lists
    <2>3. new = [grown EXCEPT !.postings = lists, !.totalDocs = n, !.totalDocLen = l]
        BY <2>1, <2>2, <1>4, Zenon
    <2> HIDE DEF n, l
    <2> PICK p, nd, nl : p = ix.postings /\ nd = ix.totalDocs /\ nl = ix.totalDocLen
        OBVIOUS
    <2>4. grown = [postings |-> p, totalDocs |-> nd, totalDocLen |-> nl, bloom |-> bloom]
        BY <1>2
    <2> QED BY <2>3, <2>4
<1>6. terms \in SUBSET Terms
    BY TokensFinite DEF TermsOf
<1>7. \A t : Longer(t) \in Seq(Posting)
    <2> TAKE t
    <2>1. PostingOf(doc, tokens, facets, t) \in Posting
        BY PostingFacts
    <2> QED BY <2>1, <1>1
<1> HIDE DEF terms, Longer
<1>8. lists \in PostingLists
    <2>1. T \in SUBSET Terms
        BY <1>1, <1>6
    <2>2. \A t \in T : (IF t \in terms THEN Longer(t) ELSE ix.postings[t]) \in Seq(Posting)
        BY <1>1, <1>7
    <2>3. lists \in [T -> Seq(Posting)]
        BY <2>2
    <2> HIDE DEF lists, T
    <2> QED BY <2>1, <2>3, Zenon DEF PostingLists
<1>9. DOMAIN lists = DOMAIN ix.postings \cup terms
    OBVIOUS
<1>10. \A t : PostingsOf(new, t) = IF t \in terms THEN Longer(t) ELSE PostingsOf(ix, t)
    <2> TAKE t
    <2>1. new.postings = lists
        BY <1>5
    <2>2. CASE t \in terms
        BY <2>1, <2>2 DEF PostingsOf
    <2>3. CASE t \notin terms /\ t \in DOMAIN ix.postings
        BY <2>1, <2>3 DEF PostingsOf
    <2>4. CASE t \notin terms /\ t \notin DOMAIN ix.postings
        BY <2>1, <2>4 DEF PostingsOf
    <2> QED BY <2>2, <2>3, <2>4
<1> HIDE DEF lists, n, l, T
<1>11. IsIndex(new)
    BY <1>2, <1>5, <1>8 DEF IsIndex
<1>12. Added(new, ix, doc, tokens, facets)
    <2>1. DOMAIN new.postings = DOMAIN ix.postings \cup TermsOf(tokens)
        BY <1>5, <1>9 DEF terms
    <2>2. new.totalDocs = ix.totalDocs + 1 /\ new.totalDocLen = ix.totalDocLen + Len(tokens) /\ new.bloom = bloom
        BY <1>5 DEF n, l
    <2>3. \A t : PostingsOf(new, t) = IF t \in TermsOf(tokens)
                                     THEN Append(PostingsOf(ix, t), PostingOf(doc, tokens, facets, t))
                                     ELSE PostingsOf(ix, t)
        BY <1>10, Zenon DEF terms, Longer
    <2> QED BY <1>2, <2>1, <2>2, <2>3, Zenon DEF Added
<1> QED BY <1>11, <1>12 DEF new

LEMMA AddCovered ==
    ASSUME NEW ix, IsIndex(ix), Covered(ix), NEW doc \in Docs, NEW tokens \in Seq(Token), NEW facets \in Facets
    PROVE  Covered(AddDocument(ix, doc, tokens, facets))
<1> DEFINE new == AddDocument(ix, doc, tokens, facets)
<1>1. IsIndex(new) /\ Added(new, ix, doc, tokens, facets)
    BY AddFacts
<1> HIDE DEF new
<1>2. \A t : PostingsOf(ix, t) \in Seq(Posting)
    BY ListsTyped DEF IsIndex
<1>3. ASSUME NEW d, HasPosting(new, d) PROVE d = doc \/ HasPosting(ix, d)
    <2>1. PICK t \in DOMAIN new.postings : \E i \in DOMAIN new.postings[t] : new.postings[t][i].doc = d
        BY <1>3, Zenon DEF HasPosting
    <2> DEFINE ps == PostingsOf(ix, t)
               p == PostingOf(doc, tokens, facets, t)
    <2>2. new.postings[t] = IF t \in TermsOf(tokens) THEN Append(ps, p) ELSE ps
        BY <1>1, <2>1, Zenon DEF Added, PostingsOf
    <2>3. p.doc = doc /\ ps \in Seq(Posting)
        BY <1>2, PostingFacts
    <2> HIDE DEF p
    <2>4. (\E i \in DOMAIN ps : ps[i].doc = d) => HasPosting(ix, d)
        <3> SUFFICES ASSUME NEW i \in DOMAIN ps, ps[i].doc = d PROVE HasPosting(ix, d)
            OBVIOUS
        <3>1. t \in DOMAIN ix.postings
            <4>1. t \notin DOMAIN ix.postings => ps = <<>>
                BY DEF PostingsOf
            <4> QED BY <4>1
        <3> QED BY <3>1 DEF PostingsOf, HasPosting
    <2>5. PICK i \in DOMAIN new.postings[t] : new.postings[t][i].doc = d
        BY <2>1
    <2> HIDE DEF ps
    <2>6. CASE t \in TermsOf(tokens)
        <3>1. i \in DOMAIN Append(ps, p) /\ Append(ps, p)[i].doc = d
            BY <2>2, <2>5, <2>6
        <3>2. (i \in DOMAIN ps /\ Append(ps, p)[i] = ps[i]) \/ Append(ps, p)[i] = p
            <4> HIDE DEF Posting
            <4>1. Len(ps) \in Nat /\ DOMAIN ps = 1..Len(ps) /\ i \in 1..(Len(ps) + 1)
                BY <2>3, <3>1
            <4>2. i \in 1..Len(ps) => Append(ps, p)[i] = ps[i]
                BY <2>3, <4>1
            <4>3. i = Len(ps) + 1 => Append(ps, p)[i] = p
                BY <2>3, <4>1
            <4> QED BY <4>1, <4>2, <4>3
        <3> QED BY <3>1, <3>2, <2>3, <2>4
    <2>7. CASE t \notin TermsOf(tokens)
        BY <2>2, <2>4, <2>5, <2>7
    <2> QED BY <2>6, <2>7
<1>4. Indexed(new) \subseteq Indexed(ix) \cup {doc}
    BY <1>3, IndexedIff
<1>5. Indexed(ix) \cup {doc} \subseteq new.bloom.members
    BY <1>1 DEF Added
<1> QED BY <1>4, <1>5 DEF Covered, new

LEMMA AddMatching ==
    ASSUME NEW ix, IsIndex(ix), NEW c, Matching(ix, c), NEW doc \in Docs, doc \notin DOMAIN c,
           NEW tokens \in Seq(Token), NEW facets \in Facets
    PROVE  LET new == AddDocument(ix, doc, tokens, facets)
               w == With(c, doc, tokens, facets)
           IN  Matching(new, w) /\ (Exact(ix, c) => Exact(new, w))
<1> DEFINE new == AddDocument(ix, doc, tokens, facets)
           w == With(c, doc, tokens, facets)
<1>1. IsContent(c) /\ Listed(ix, c) /\ Counted(ix, c)
    BY DEF Matching
<1>2. Added(new, ix, doc, tokens, facets)
    BY AddFacts
<1>3. /\ IsContent(w)
      /\ \A t : HoldersOf(w, t) = IF t \in TermsOf(tokens) THEN HoldersOf(c, t) \cup {doc} ELSE HoldersOf(c, t)
    BY <1>1, WithFacts
<1>4. /\ IsFiniteSet(Pairs(c)) /\ ix.totalDocLen = Cardinality(Pairs(c))
      /\ ix.totalDocs \in Int /\ ix.totalDocs >= Cardinality(DOMAIN c)
    BY <1>1 DEF Counted
<1>5. /\ IsFiniteSet(Pairs(w))
      /\ Cardinality(Pairs(w)) = Cardinality(Pairs(c)) + Len(tokens)
      /\ Cardinality(DOMAIN w) = Cardinality(DOMAIN c) + 1
    BY <1>1, <1>4, WithCounts
<1>6. Cardinality(DOMAIN c) \in Nat
    BY <1>1, DocsFinite DEF IsContent
<1>7. \A t : PostingsOf(ix, t) \in Seq(Posting)
    BY ListsTyped DEF IsIndex
<1>8. ASSUME NEW t \in Terms
      PROVE  ListFor(PostingsOf(new, t), w, t)
    <2>1. ListFor(PostingsOf(ix, t), c, t)
        BY <1>1 DEF Listed
    <2>2. IF t \in TermsOf(tokens)
          THEN ListFor(Append(PostingsOf(ix, t), PostingOf(doc, tokens, facets, t)), w, t)
          ELSE ListFor(PostingsOf(ix, t), w, t)
        BY <1>1, <1>7, <2>1, AppendListed
    <2>3. PostingsOf(new, t) = IF t \in TermsOf(tokens)
                               THEN Append(PostingsOf(ix, t), PostingOf(doc, tokens, facets, t))
                               ELSE PostingsOf(ix, t)
        BY <1>2 DEF Added
    <2> HIDE DEF new, w
    <2> QED BY <2>2, <2>3, Zenon
<1> HIDE DEF new, w
<1>9. Listed(new, w)
    <2> SUFFICES ASSUME NEW t \in Terms, t \in DOMAIN new.postings PROVE HoldersOf(w, t) # {}
        BY <1>8 DEF Listed
    <2>1. t \in DOMAIN ix.postings \/ t \in TermsOf(tokens)
        BY <1>2 DEF Added
    <2>2. t \in DOMAIN ix.postings => HoldersOf(c, t) # {}
        BY <1>1 DEF Listed
    <2>3. CASE t \in TermsOf(tokens)
        BY <2>3, <1>3
    <2>4. CASE t \notin TermsOf(tokens)
        <3>1. HoldersOf(w, t) = HoldersOf(c, t)
            BY <2>4, <1>3
        <3> QED BY <2>1, <2>2, <2>4, <3>1
    <2> QED BY <2>3, <2>4
<1>10. new.totalDocs = ix.totalDocs + 1 /\ new.totalDocLen = ix.totalDocLen + Len(tokens)
    BY <1>2 DEF Added
<1>11. Counted(new, w)
    BY <1>4, <1>5, <1>6, <1>10 DEF Counted
<1>12. Exact(ix, c) => Exact(new, w)
    BY <1>5, <1>10 DEF Exact
<1> QED BY <1>3, <1>9, <1>11, <1>12 DEF Matching, new, w

-----------------------------------------------------------------------------
(***************************************************************************)
(* rebuild_from_engine: one stored record after the other.                 *)
(***************************************************************************)
Stores == [Docs -> Records \cup {Absent}]

ContentOf(s, D) ==
    [d \in {e \in D : s[e] # Absent} |->
       [tokens |-> Tokenize(Decoded(s[d]).text), facets |-> Decoded(s[d]).facets]]

\* The index is that of the content, with exact counts.
IndexOf(ix, c) == IsIndex(ix) /\ Covered(ix) /\ Matching(ix, c) /\ Exact(ix, c)

Steps(f, s, docs, n) ==
    f = [i \in 0..n |-> IF i = 0 THEN EmptyIndex ELSE AddStored(f[i - 1], s, docs[i])]

LEMMA ContentFacts ==
    ASSUME NEW s \in Stores, NEW D \in SUBSET Docs
    PROVE  /\ IsContent(ContentOf(s, D))
           /\ DOMAIN ContentOf(s, D) = {e \in D : s[e] # Absent}
           /\ \A d \in DOMAIN ContentOf(s, D) :
                /\ s[d] \in Records
                /\ ContentOf(s, D)[d].tokens = Tokenize(s[d].text)
                /\ ContentOf(s, D)[d].tokens = Tokenize(Decoded(s[d]).text)
                /\ ContentOf(s, D)[d].facets = Decoded(s[d]).facets
<1> DEFINE c == ContentOf(s, D)
<1>1. /\ DOMAIN c = {e \in D : s[e] # Absent}
      /\ \A d \in DOMAIN c : c[d] = [tokens |-> Tokenize(Decoded(s[d]).text), facets |-> Decoded(s[d]).facets]
    BY DEF ContentOf
<1>2. \A d \in D : s[d] # Absent => s[d] \in Records
    BY DEF Stores
<1> HIDE DEF c
<1>3. ASSUME NEW d \in DOMAIN c
      PROVE  /\ s[d] \in Records
             /\ c[d].tokens = Tokenize(s[d].text) /\ c[d].tokens = Tokenize(Decoded(s[d]).text)
             /\ c[d].facets = Decoded(s[d]).facets
             /\ c[d].tokens \in Seq(Token) /\ c[d].facets \in Facets
    <2>1. s[d] \in Records
        BY <1>1, <1>2
    <2> PICK r \in Records : r = s[d]
        BY <2>1
    <2>2. c[d].tokens = Tokenize(Decoded(r).text) /\ c[d].facets = Decoded(r).facets
        <3> PICK v : v = Decoded(r)
            OBVIOUS
        <3>1. c[d] = [tokens |-> Tokenize(v.text), facets |-> v.facets]
            BY <1>1, Zenon
        <3> QED BY <3>1
    <2>3. Decoded(r).text = r.text /\ Tokenize(r.text) \in Seq(Token) /\ Decoded(r).facets \in Facets
        BY DecodedFacts
    <2> QED BY <2>1, <2>2, <2>3
<1>4. IsContent(c)
    BY <1>1, <1>3 DEF IsContent
<1> QED BY <1>1, <1>3, <1>4 DEF c

LEMMA ContentGrows ==
    ASSUME NEW s \in Stores, NEW D \in SUBSET Docs, NEW doc \in Docs, doc \notin D
    PROVE  ContentOf(s, D \cup {doc}) =
             IF s[doc] = Absent THEN ContentOf(s, D)
             ELSE With(ContentOf(s, D), doc, Tokenize(Decoded(s[doc]).text), Decoded(s[doc]).facets)
<1> DEFINE E == {e \in D : s[e] # Absent}
           G == {e \in D \cup {doc} : s[e] # Absent}
           Value(d) == [tokens |-> Tokenize(Decoded(s[d]).text), facets |-> Decoded(s[d]).facets]
<1>1. ContentOf(s, D) = [d \in E |-> Value(d)]
    BY Zenon DEF ContentOf
<1>2. ContentOf(s, D \cup {doc}) = [d \in G |-> Value(d)]
    BY Zenon DEF ContentOf
<1>3. CASE s[doc] = Absent
    <2>1. G = E
        BY <1>3
    <2> HIDE DEF G, E, Value
    <2> QED BY <1>1, <1>2, <1>3, <2>1
<1>4. CASE s[doc] # Absent
    <2> DEFINE c == ContentOf(s, D)
               w == With(c, doc, Tokenize(Decoded(s[doc]).text), Decoded(s[doc]).facets)
    <2>1. G = E \cup {doc} /\ doc \notin E
        BY <1>4
    <2> HIDE DEF G, E
    <2>2. w = [d \in DOMAIN c \cup {doc} |-> IF d = doc THEN Value(doc) ELSE c[d]]
        BY Zenon DEF With
    <2> HIDE DEF Value, w
    <2>3. DOMAIN c = E /\ \A d \in E : c[d] = Value(d)
        BY <1>1
    <2> HIDE DEF c
    <2>4. w = [d \in G |-> Value(d)]
        BY <2>1, <2>2, <2>3
    <2> QED BY <1>2, <1>4, <2>4 DEF w, c
<1> QED BY <1>3, <1>4

LEMMA AddStoredFacts ==
    ASSUME NEW s \in Stores, NEW D \in SUBSET Docs, NEW doc \in Docs, doc \notin D,
           NEW ix, IndexOf(ix, ContentOf(s, D))
    PROVE  IndexOf(AddStored(ix, s, doc), ContentOf(s, D \cup {doc}))
<1> DEFINE c == ContentOf(s, D)
           tokens == Tokenize(Decoded(s[doc]).text)
           facets == Decoded(s[doc]).facets
<1>1. IsIndex(ix) /\ Covered(ix) /\ Matching(ix, c) /\ Exact(ix, c)
    BY DEF IndexOf
<1>2. CASE s[doc] = Absent
    <2>1. AddStored(ix, s, doc) = ix /\ ContentOf(s, D \cup {doc}) = c
        BY <1>2, ContentGrows DEF AddStored
    <2> QED BY <2>1
<1>3. CASE s[doc] # Absent
    <2>1. s[doc] \in Records
        BY <1>3 DEF Stores
    <2>2. tokens \in Seq(Token) /\ facets \in Facets
        BY <2>1, DecodedFacts
    <2>3. doc \notin DOMAIN c
        <3>1. DOMAIN c = {e \in D : s[e] # Absent}
            BY ContentFacts, Zenon
        <3> HIDE DEF c
        <3> QED BY <3>1
    <2>4. AddStored(ix, s, doc) = AddDocument(ix, doc, tokens, facets)
        BY <1>3 DEF AddStored
    <2>5. ContentOf(s, D \cup {doc}) = With(c, doc, tokens, facets)
        BY <1>3, ContentGrows
    <2> HIDE DEF c, tokens, facets
    <2>6. IsIndex(AddDocument(ix, doc, tokens, facets))
        BY <1>1, <2>2, AddFacts
    <2>7. Covered(AddDocument(ix, doc, tokens, facets))
        BY <1>1, <2>2, AddCovered
    <2>8. /\ Matching(AddDocument(ix, doc, tokens, facets), With(c, doc, tokens, facets))
          /\ Exact(AddDocument(ix, doc, tokens, facets), With(c, doc, tokens, facets))
        BY <1>1, <2>2, <2>3, AddMatching
    <2> QED BY <2>4, <2>5, <2>6, <2>7, <2>8 DEF IndexOf
<1> QED BY <1>2, <1>3

LEMMA EmptyMatching ==
    ASSUME NEW s
    PROVE  IndexOf(EmptyIndex, ContentOf(s, {}))
<1> DEFINE c == ContentOf(s, {})
<1>1. DOMAIN c = {}
    BY DEF ContentOf
<1>2. IsIndex(EmptyIndex) /\ Covered(EmptyIndex) /\ DOMAIN EmptyIndex.postings = {}
    BY EmptyIndexFacts
<1>3. EmptyIndex.totalDocs = 0 /\ EmptyIndex.totalDocLen = 0
    BY DEF EmptyIndex
<1> HIDE DEF c
<1>4. IsContent(c)
    BY <1>1 DEF IsContent
<1>5. \A t : HoldersOf(c, t) = {} /\ PostingsOf(EmptyIndex, t) = <<>>
    BY <1>1, <1>2 DEF HoldersOf, PostingsOf
<1>6. Listed(EmptyIndex, c)
    BY <1>2, <1>5 DEF Listed, ListFor
<1>7. Pairs(c) = {}
    BY <1>1 DEF Pairs
<1>8. Cardinality({}) = 0 /\ IsFiniteSet({})
    BY FS_EmptySet
<1>9. Counted(EmptyIndex, c) /\ Exact(EmptyIndex, c)
    BY <1>1, <1>3, <1>7, <1>8 DEF Counted, Exact
<1> QED BY <1>2, <1>4, <1>6, <1>9 DEF IndexOf, Matching, c

LEMMA StepsExist ==
    ASSUME NEW s, NEW docs, NEW n \in Nat
    PROVE  \E f : Steps(f, s, docs, n)
<1> DEFINE P == {m \in 0..n : \E f : Steps(f, s, docs, m)}
<1>1. 0 \in P
    <2> DEFINE f == [i \in 0..0 |-> EmptyIndex]
    <2>1. f = [i \in 0..0 |-> IF i = 0 THEN EmptyIndex ELSE AddStored(f[i - 1], s, docs[i])]
        <3> HIDE DEF EmptyIndex
        <3> QED OBVIOUS
    <2> HIDE DEF f
    <2>2. Steps(f, s, docs, 0)
        BY <2>1, Zenon DEF Steps
    <2> QED BY <2>2
<1>2. ASSUME NEW m \in 1..n, m - 1 \in P PROVE m \in P
    <2>1. PICK f : Steps(f, s, docs, m - 1)
        BY <1>2
    <2> DEFINE g == [i \in 0..m |-> IF i = m THEN AddStored(f[m - 1], s, docs[m]) ELSE f[i]]
    <2>2. \A i \in 0..(m - 1) : f[i] = IF i = 0 THEN EmptyIndex ELSE AddStored(f[i - 1], s, docs[i])
        BY <2>1 DEF Steps
    <2>3. \A i \in 0..(m - 1) : g[i] = f[i]
        OBVIOUS
    <2>4. g[m] = AddStored(f[m - 1], s, docs[m]) /\ DOMAIN g = 0..m
        OBVIOUS
    <2>5. g = [i \in DOMAIN g |-> g[i]]
        OBVIOUS
    <2> HIDE DEF g
    <2>6. ASSUME NEW i \in 0..m
          PROVE  g[i] = IF i = 0 THEN EmptyIndex ELSE AddStored(g[i - 1], s, docs[i])
        <3>1. CASE i = 0
            BY <3>1, <2>2, <2>3
        <3>2. CASE i # 0 /\ i # m
            <4>1. i \in 0..(m - 1) /\ i - 1 \in 0..(m - 1)
                BY <3>2
            <4> QED BY <3>2, <4>1, <2>2, <2>3
        <3>3. CASE i = m
            <4>1. m # 0 /\ m - 1 \in 0..(m - 1)
                OBVIOUS
            <4> QED BY <3>3, <4>1, <2>3, <2>4
        <3> QED BY <3>1, <3>2, <3>3
    <2>7. g = [i \in 0..m |-> IF i = 0 THEN EmptyIndex ELSE AddStored(g[i - 1], s, docs[i])]
        BY <2>4, <2>5, <2>6
    <2>8. Steps(g, s, docs, m)
        BY <2>7, Zenon DEF Steps
    <2> QED BY <2>8
<1> HIDE DEF P
<1>3. n \in P
    BY <1>1, <1>2, Reaches
<1> QED BY <1>3 DEF P

LEMMA DocsInSeq ==
    LET docs == SetToSeq(Docs)
        n == Cardinality(Docs)
    IN  /\ n \in Nat
        /\ \A i \in 1..n : docs[i] \in Docs
        /\ \A i, j \in 1..n : docs[i] = docs[j] => i = j
        /\ \A d \in Docs : \E i \in 1..n : docs[i] = d
<1> DEFINE docs == SetToSeq(Docs)
           n == Cardinality(Docs)
<1>1. n \in Nat /\ ExistsBijection(1..n, Docs)
    BY FS_CardinalityType
<1>2. PICK b : b \in Bijection(1..n, Docs)
    BY <1>1 DEF ExistsBijection
<1>3. b \in [1..n -> Docs] /\ IsInjective(b)
    BY <1>2 DEF Bijection, Injection
<1>4. docs \in [1..n -> Docs] /\ IsInjective(docs)
    <2>1. docs = CHOOSE f \in [1..n -> Docs] : IsInjective(f)
        BY Zenon DEF SetToSeq
    <2> HIDE DEF docs, n
    <2> QED BY <2>1, <1>3, Zenon
<1> HIDE DEF docs, n
<1>5. docs \in Injection(1..n, Docs)
    BY <1>4 DEF Injection
<1>6. IsFiniteSet(1..n)
    BY <1>1, CountTo, Zenon
<1>7. Cardinality(1..n) = n
    BY <1>1, CountTo, Zenon
<1>8. docs \in Surjection(1..n, Docs)
    <2>1. IsFiniteSet(Docs) /\ Cardinality(1..n) = Cardinality(Docs)
        BY <1>7 DEF n
    <2> QED BY <2>1, <1>5, FS_Injection
<1>9. \A i, j \in 1..n : docs[i] = docs[j] => i = j
    BY <1>4 DEF IsInjective
<1>10. \A d \in Docs : \E i \in 1..n : docs[i] = d
    BY <1>8 DEF Surjection
<1> QED BY <1>1, <1>4, <1>9, <1>10 DEF docs, n

LEMMA RebuildFacts ==
    ASSUME NEW s \in Stores
    PROVE  IndexOf(RebuildFromEngine(s), ContentOf(s, Docs))
<1> DEFINE docs == SetToSeq(Docs)
           n == Cardinality(Docs)
           after == CHOOSE f : Steps(f, s, docs, n)
           Upto(m) == {docs[i] : i \in 1..m}
           P == {m \in 0..n : IndexOf(after[m], ContentOf(s, Upto(m)))}
<1>1. RebuildFromEngine(s) = after[n]
    BY Zenon DEF RebuildFromEngine, Steps
<1>2. /\ n \in Nat
      /\ \A i \in 1..n : docs[i] \in Docs
      /\ \A i, j \in 1..n : docs[i] = docs[j] => i = j
      /\ \A d \in Docs : \E i \in 1..n : docs[i] = d
    BY DocsInSeq
<1> HIDE DEF docs, n
<1>3. Steps(after, s, docs, n)
    BY <1>2, StepsExist, Zenon
<1> HIDE DEF after
<1>4. /\ after[0] = EmptyIndex
      /\ \A m \in 1..n : after[m] = AddStored(after[m - 1], s, docs[m])
    <2>1. after = [i \in 0..n |-> IF i = 0 THEN EmptyIndex ELSE AddStored(after[i - 1], s, docs[i])]
        BY <1>3, Zenon DEF Steps
    <2>2. \A i \in 0..n : after[i] = IF i = 0 THEN EmptyIndex ELSE AddStored(after[i - 1], s, docs[i])
        BY <2>1, Zenon
    <2>3. 0 \in 0..n /\ \A m \in 1..n : m \in 0..n /\ m # 0
        BY <1>2
    <2> QED BY <2>2, <2>3
<1>5. 0 \in P
    <2>1. Upto(0) = {}
        OBVIOUS
    <2>2. IndexOf(after[0], ContentOf(s, {}))
        BY <1>4, EmptyMatching
    <2>3. 0 \in 0..n
        BY <1>2
    <2> HIDE DEF Upto
    <2> QED BY <2>1, <2>2, <2>3
<1>6. ASSUME NEW m \in 1..n, m - 1 \in P PROVE m \in P
    <2>1. IndexOf(after[m - 1], ContentOf(s, Upto(m - 1)))
        BY <1>6
    <2>2. Upto(m) = Upto(m - 1) \cup {docs[m]}
        <3>1. m \in 1..m /\ \A i \in 1..m : i \in 1..(m - 1) \/ i = m
            BY <1>2
        <3>2. \A i \in 1..(m - 1) : i \in 1..m
            BY <1>2
        <3> QED BY <3>1, <3>2
    <2>3. Upto(m - 1) \in SUBSET Docs /\ docs[m] \in Docs /\ docs[m] \notin Upto(m - 1)
        <3>1. \A i \in 1..(m - 1) : i \in 1..n /\ i # m
            BY <1>2
        <3> QED BY <3>1, <1>2
    <2> HIDE DEF Upto
    <2>4. IndexOf(AddStored(after[m - 1], s, docs[m]), ContentOf(s, Upto(m - 1) \cup {docs[m]}))
        BY <2>1, <2>3, AddStoredFacts
    <2>5. m \in 0..n
        BY <1>2
    <2>6. IndexOf(after[m], ContentOf(s, Upto(m)))
        BY <1>4, <2>2, <2>4
    <2> QED BY <2>5, <2>6
<1>7. Upto(n) = Docs
    BY <1>2
<1> HIDE DEF P
<1>8. n \in P
    BY <1>2, <1>5, <1>6, Reaches
<1>9. IndexOf(after[n], ContentOf(s, Upto(n)))
    BY <1>8 DEF P
<1> HIDE DEF Upto
<1> QED BY <1>1, <1>7, <1>9

-----------------------------------------------------------------------------
(***************************************************************************)
(* The inductive invariant.  A cached index is always well formed, covered *)
(* by its filter and the index of some content; that content is the stored *)
(* one until a write fails half way, and the number of documents is exact  *)
(* until a document without tokens is replaced or deleted.  A clean        *)
(* namespace persisted since it was loaded has the sidecar of its index.   *)
(***************************************************************************)
Content == ContentOf(store, Docs)

IInv ==
    /\ store \in Stores
    /\ dirty \in BOOLEAN /\ diverged \in BOOLEAN /\ miscounted \in BOOLEAN /\ reloaded \in BOOLEAN
    /\ index # Absent => IsIndex(index) /\ Covered(index) /\ \E c : Matching(index, c)
    /\ index # Absent /\ ~diverged => Matching(index, Content)
    /\ index # Absent /\ ~diverged /\ ~miscounted => Exact(index, Content)
    /\ index # Absent /\ sidecar # Absent /\ ~dirty /\ ~reloaded => sidecar = Serialize(index)

LEMMA ContentPut ==
    ASSUME NEW s \in Stores, NEW doc \in Docs, NEW rec \in Records
    PROVE  /\ [s EXCEPT ![doc] = rec] \in Stores
           /\ ContentOf([s EXCEPT ![doc] = rec], Docs) =
                With(Without(ContentOf(s, Docs), doc), doc, Tokenize(Decoded(rec).text), Decoded(rec).facets)
<1> DEFINE u == [s EXCEPT ![doc] = rec]
           D == Docs \ {doc}
<1>1. u \in Stores /\ u[doc] = rec /\ rec # Absent /\ \A d \in D : u[d] = s[d]
    BY DecodedFacts DEF Stores
<1> HIDE DEF u
<1>2. Docs = D \cup {doc} /\ D \in SUBSET Docs /\ doc \notin D
    OBVIOUS
<1>3. ContentOf(u, D \cup {doc}) =
        With(ContentOf(u, D), doc, Tokenize(Decoded(rec).text), Decoded(rec).facets)
    BY <1>1, <1>2, ContentGrows
<1>4. ContentOf(u, D) = Without(ContentOf(s, Docs), doc)
    <2> DEFINE E == {e \in D : u[e] # Absent}
               F == {e \in Docs : s[e] # Absent}
               Value(d) == [tokens |-> Tokenize(Decoded(s[d]).text), facets |-> Decoded(s[d]).facets]
               UValue(d) == [tokens |-> Tokenize(Decoded(u[d]).text), facets |-> Decoded(u[d]).facets]
    <2>1. ContentOf(u, D) = [d \in E |-> UValue(d)]
        BY Zenon DEF ContentOf
    <2>2. ContentOf(s, Docs) = [d \in F |-> Value(d)]
        BY Zenon DEF ContentOf
    <2>3. E = F \ {doc}
        BY <1>1
    <2>4. \A d \in E : UValue(d) = Value(d)
        BY <1>1
    <2> HIDE DEF E, F, Value, UValue
    <2> QED BY <2>1, <2>2, <2>3, <2>4 DEF Without
<1> QED BY <1>1, <1>2, <1>3, <1>4 DEF u

LEMMA ContentDelete ==
    ASSUME NEW s \in Stores, NEW doc \in Docs
    PROVE  /\ [s EXCEPT ![doc] = Absent] \in Stores
           /\ ContentOf([s EXCEPT ![doc] = Absent], Docs) = Without(ContentOf(s, Docs), doc)
<1> DEFINE u == [s EXCEPT ![doc] = Absent]
           D == Docs \ {doc}
           E == {e \in Docs : u[e] # Absent}
           F == {e \in Docs : s[e] # Absent}
           Value(d) == [tokens |-> Tokenize(Decoded(s[d]).text), facets |-> Decoded(s[d]).facets]
           UValue(d) == [tokens |-> Tokenize(Decoded(u[d]).text), facets |-> Decoded(u[d]).facets]
<1>1. u \in Stores /\ u[doc] = Absent /\ \A d \in D : u[d] = s[d]
    BY DEF Stores
<1> HIDE DEF u
<1>2. ContentOf(u, Docs) = [d \in E |-> UValue(d)]
    BY Zenon DEF ContentOf
<1>3. ContentOf(s, Docs) = [d \in F |-> Value(d)]
    BY Zenon DEF ContentOf
<1>4. E = F \ {doc}
    BY <1>1
<1>5. \A d \in E : UValue(d) = Value(d)
    <2>1. \A d \in E : u[d] = s[d]
        BY <1>1
    <2> QED BY <2>1
<1> HIDE DEF E, F, Value, UValue
<1>6. ContentOf(u, Docs) = Without(ContentOf(s, Docs), doc)
    BY <1>2, <1>3, <1>4, <1>5 DEF Without
<1> QED BY <1>1, <1>6 DEF u

LEMMA HollowFacts ==
    ASSUME NEW doc \in Docs, store \in Stores
    PROVE  HollowIn(Content, doc) <=> Hollow(doc)
<1> DEFINE c == Content
<1>1. /\ DOMAIN c = {e \in Docs : store[e] # Absent}
      /\ \A d \in DOMAIN c : c[d].tokens = Tokenize(store[d].text)
    <2>1. Docs \in SUBSET Docs
        OBVIOUS
    <2> QED BY <2>1, ContentFacts DEF Content
<1> HIDE DEF c
<1>2. HollowIn(c, doc) <=> Hollow(doc)
    BY <1>1 DEF HollowIn, Hollow
<1> QED BY <1>2 DEF c

LEMMA LoadedFacts ==
    ASSUME IInv
    PROVE  /\ IsIndex(Loaded) /\ Covered(Loaded) /\ \E c : Matching(Loaded, c)
           /\ ~(index # Absent /\ diverged) => Matching(Loaded, Content)
           /\ ~(index # Absent /\ diverged) /\ ~(index # Absent /\ miscounted) => Exact(Loaded, Content)
<1>1. CASE index = Absent
    <2>1. Loaded = RebuildFromEngine(store)
        BY <1>1 DEF Loaded
    <2>2. IndexOf(Loaded, Content)
        BY <2>1, RebuildFacts DEF IInv, Content
    <2> QED BY <2>2 DEF IndexOf
<1>2. CASE index # Absent
    <2>1. Loaded = index
        BY <1>2 DEF Loaded
    <2> QED BY <1>2, <2>1 DEF IInv
<1> QED BY <1>1, <1>2

LEMMA TextInit == Init => IInv
<1> SUFFICES ASSUME Init PROVE IInv
    OBVIOUS
<1>1. store \in Stores
    BY DEF Init, Stores
<1> QED BY <1>1 DEF Init, IInv

LEMMA IndexStep ==
    ASSUME IInv, NEW doc \in Docs, NEW rec \in Records, NEW falsePositive \in BOOLEAN, NEW ok \in BOOLEAN,
           index_document(doc, rec, falsePositive, ok)
    PROVE  IInv'
<1> DEFINE ix == Loaded
           c == Content
           w == Without(c, doc)
           seen == doc \in ix.bloom.members \/ falsePositive
           base == IF seen THEN RemoveDocument(ix, doc) ELSE ix
           tokens == Tokenize(rec.text)
           facets == rec.facets
           new == AddDocument(base, doc, tokens, facets)
<1>1. /\ index' = new /\ dirty' = TRUE
      /\ store' = IF ok THEN [store EXCEPT ![doc] = rec] ELSE store
      /\ diverged' = ((index # Absent /\ diverged) \/ ~ok \/ Decoded(rec) # rec)
      /\ miscounted' = ((index # Absent /\ miscounted) \/ Hollow(doc))
      /\ reloaded' = (reloaded \/ index = Absent)
    BY DEF index_document, IndexOfNew
<1>2. /\ store \in Stores
      /\ dirty \in BOOLEAN /\ diverged \in BOOLEAN /\ miscounted \in BOOLEAN /\ reloaded \in BOOLEAN
    BY DEF IInv
<1>3. /\ IsIndex(ix) /\ Covered(ix)
      /\ ~(index # Absent /\ diverged) => Matching(ix, c)
      /\ ~(index # Absent /\ diverged) /\ ~(index # Absent /\ miscounted) => Exact(ix, c)
    BY LoadedFacts
<1>4. tokens \in Seq(Token) /\ facets \in Facets
    BY DecodedFacts
<1>5. HollowIn(c, doc) <=> Hollow(doc)
    BY <1>2, HollowFacts
<1>6. store' \in Stores
    BY <1>1, <1>2, ContentPut
<1>7. doc \notin DOMAIN w
    BY DEF Without
<1> HIDE DEF ix, c, w
<1>8. IsIndex(base) /\ Covered(base)
    BY <1>3, RemoveFacts, RemoveCovered
<1>9. ASSUME Matching(ix, c)
      PROVE  Matching(base, w) /\ (Exact(ix, c) /\ ~HollowIn(c, doc) => Exact(base, w))
    <2>1. CASE seen
        BY <1>3, <1>9, <2>1, RemoveMatching DEF w
    <2>2. CASE ~seen
        <3>1. doc \notin Indexed(ix)
            BY <1>3, <2>2 DEF Covered
        <3>2. ~HasPosting(ix, doc)
            BY <3>1, IndexedIff
        <3> QED BY <1>3, <1>9, <2>2, <3>2, SkipMatching DEF w
    <2> QED BY <2>1, <2>2
<1> HIDE DEF base, tokens, facets
<1>10. IsIndex(new) /\ Covered(new)
    BY <1>4, <1>8, AddFacts, AddCovered
<1>11. ASSUME Matching(base, w)
       PROVE  /\ Matching(new, With(w, doc, tokens, facets))
              /\ Exact(base, w) => Exact(new, With(w, doc, tokens, facets))
    BY <1>4, <1>7, <1>8, <1>11, AddMatching
<1>a. \E e : Matching(new, e)
    <2>1. PICK e : Matching(ix, e)
        BY LoadedFacts DEF ix
    <2> DEFINE v == Without(e, doc)
    <2>2. Matching(base, v)
        <3>1. CASE seen
            BY <1>3, <2>1, <3>1, RemoveMatching DEF base
        <3>2. CASE ~seen
            <4>1. doc \notin Indexed(ix)
                BY <1>3, <3>2 DEF Covered
            <4>2. ~HasPosting(ix, doc)
                BY <4>1, IndexedIff
            <4> QED BY <1>3, <2>1, <3>2, <4>2, SkipMatching DEF base
        <3> QED BY <3>1, <3>2
    <2>3. doc \notin DOMAIN v
        BY DEF Without
    <2> HIDE DEF v
    <2>4. Matching(new, With(v, doc, tokens, facets))
        BY <1>4, <1>8, <2>2, <2>3, AddMatching
    <2> QED BY <2>4
<1> HIDE DEF new
<1>12. ASSUME ~diverged' PROVE Content' = With(w, doc, tokens, facets) /\ Matching(ix, c)
    <2>1. ok /\ Decoded(rec) = rec /\ ~(index # Absent /\ diverged)
        BY <1>1, <1>12
    <2>2. store' = [store EXCEPT ![doc] = rec]
        BY <1>1, <2>1
    <2>3. ContentOf([store EXCEPT ![doc] = rec], Docs) =
            With(Without(ContentOf(store, Docs), doc), doc, Tokenize(Decoded(rec).text), Decoded(rec).facets)
        BY <1>2, ContentPut
    <2>4. Content' = With(w, doc, tokens, facets)
        BY <2>1, <2>2, <2>3 DEF Content, c, w, tokens, facets
    <2> QED BY <2>1, <2>4, <1>3
<1>13. ~diverged' => Matching(index', Content')
    BY <1>1, <1>9, <1>11, <1>12
<1>14. ~diverged' /\ ~miscounted' => Exact(index', Content')
    <2> SUFFICES ASSUME ~diverged', ~miscounted' PROVE Exact(index', Content')
        OBVIOUS
    <2>1. ~(index # Absent /\ diverged) /\ ~(index # Absent /\ miscounted) /\ ~HollowIn(c, doc)
        BY <1>1, <1>5
    <2> QED BY <2>1, <1>1, <1>3, <1>9, <1>11, <1>12
<1>15. dirty' \in BOOLEAN /\ diverged' \in BOOLEAN /\ miscounted' \in BOOLEAN /\ reloaded' \in BOOLEAN
    BY <1>1, <1>2
<1> QED BY <1>1, <1>6, <1>10, <1>a, <1>13, <1>14, <1>15 DEF IInv

LEMMA DeleteStep ==
    ASSUME IInv, NEW doc \in Docs, NEW sidecarOk \in BOOLEAN, NEW ok \in BOOLEAN,
           delete_document(doc, sidecarOk, ok)
    PROVE  IInv'
<1> DEFINE ix == Loaded
           c == Content
           w == Without(c, doc)
           left == RemoveDocument(ix, doc)
           empty == left.totalDocs = 0
           deleted == ok /\ (empty => sidecarOk)
<1>1. /\ index' = IF empty THEN Absent ELSE left
      /\ dirty' = ~empty
      /\ store' = IF deleted THEN [store EXCEPT ![doc] = Absent] ELSE store
      /\ diverged' = (~empty /\ ((index # Absent /\ diverged) \/ ~deleted))
      /\ miscounted' = (~empty /\ ((index # Absent /\ miscounted) \/ Hollow(doc)))
      /\ reloaded' = (~empty /\ (reloaded \/ index = Absent))
    BY DEF delete_document
<1>2. /\ store \in Stores
      /\ dirty \in BOOLEAN /\ diverged \in BOOLEAN /\ miscounted \in BOOLEAN /\ reloaded \in BOOLEAN
    BY DEF IInv
<1>3. /\ IsIndex(ix) /\ Covered(ix)
      /\ ~(index # Absent /\ diverged) => Matching(ix, c)
      /\ ~(index # Absent /\ diverged) /\ ~(index # Absent /\ miscounted) => Exact(ix, c)
    BY LoadedFacts
<1>4. HollowIn(c, doc) <=> Hollow(doc)
    BY <1>2, HollowFacts
<1>5. store' \in Stores
    BY <1>1, <1>2, ContentDelete
<1> HIDE DEF ix, c
<1>6. IsIndex(left) /\ Covered(left)
    BY <1>3, RemoveFacts, RemoveCovered
<1>7. ASSUME Matching(ix, c)
      PROVE  Matching(left, w) /\ (Exact(ix, c) /\ ~HollowIn(c, doc) => Exact(left, w))
    BY <1>3, <1>7, RemoveMatching
<1>a. \E e : Matching(left, e)
    <2>1. PICK e : Matching(ix, e)
        BY LoadedFacts DEF ix
    <2> QED BY <1>3, <2>1, RemoveMatching
<1> HIDE DEF left, w
<1>8. dirty' \in BOOLEAN /\ diverged' \in BOOLEAN /\ miscounted' \in BOOLEAN /\ reloaded' \in BOOLEAN
    BY <1>1, <1>2
<1>9. CASE empty
    BY <1>1, <1>5, <1>8, <1>9 DEF IInv
<1>10. CASE ~empty
    <2>1. index' = left /\ dirty' = TRUE
        BY <1>1, <1>10
    <2>2. ASSUME ~diverged' PROVE Content' = w /\ Matching(ix, c)
        <3>1. deleted /\ ~(index # Absent /\ diverged)
            BY <1>1, <1>10, <2>2
        <3>2. store' = [store EXCEPT ![doc] = Absent]
            BY <1>1, <3>1
        <3>3. ContentOf([store EXCEPT ![doc] = Absent], Docs) = Without(ContentOf(store, Docs), doc)
            BY <1>2, ContentDelete
        <3>4. Content' = w
            BY <3>2, <3>3 DEF Content, c, w
        <3> QED BY <3>1, <3>4, <1>3
    <2>3. ~diverged' => Matching(index', Content')
        BY <1>7, <2>1, <2>2
    <2>4. ~diverged' /\ ~miscounted' => Exact(index', Content')
        <3> SUFFICES ASSUME ~diverged', ~miscounted' PROVE Exact(index', Content')
            OBVIOUS
        <3>1. ~(index # Absent /\ diverged) /\ ~(index # Absent /\ miscounted) /\ ~HollowIn(c, doc)
            BY <1>1, <1>4, <1>10
        <3> QED BY <3>1, <1>3, <1>7, <2>1, <2>2
    <2> QED BY <1>5, <1>6, <1>a, <1>8, <2>1, <2>3, <2>4 DEF IInv
<1> QED BY <1>9, <1>10

LEMMA TextStep ==
    ASSUME IInv, [Next]_vars
    PROVE  IInv'
<1>1. CASE \E d \in Docs, r \in Records, fp \in BOOLEAN, ok \in BOOLEAN : index_document(d, r, fp, ok)
    BY <1>1, IndexStep
<1>2. CASE \E d \in Docs, sidecarOk \in BOOLEAN, ok \in BOOLEAN : delete_document(d, sidecarOk, ok)
    BY <1>2, DeleteStep
<1>3. CASE search
    <2>1. /\ index = Absent /\ index' = Loaded
          /\ reloaded' = TRUE /\ diverged' = FALSE /\ miscounted' = FALSE
          /\ store' = store /\ dirty' = dirty
        BY <1>3 DEF search
    <2>2. IsIndex(Loaded) /\ Covered(Loaded) /\ Matching(Loaded, Content) /\ Exact(Loaded, Content)
        BY <2>1, LoadedFacts
    <2>3. Content' = Content
        BY <2>1 DEF Content
    <2> HIDE DEF Loaded, Content
    <2> QED BY <2>1, <2>2, <2>3 DEF IInv
<1>4. CASE \E written \in BOOLEAN, ok \in BOOLEAN : persist(written, ok)
    <2>1. PICK written \in BOOLEAN, ok \in BOOLEAN : persist(written, ok)
        BY <1>4
    <2>2. /\ store' = store /\ index' = index /\ diverged' = diverged /\ miscounted' = miscounted
          /\ \/ sidecar' = Serialize(index) /\ dirty' = FALSE /\ reloaded' = FALSE
             \/ dirty /\ dirty' = dirty /\ reloaded' = reloaded
        BY <2>1 DEF persist
    <2>3. Content' = Content
        BY <2>2 DEF Content
    <2> QED BY <2>2, <2>3 DEF IInv
<1>5. CASE restart
    BY <1>5 DEF restart, IInv
<1>6. CASE UNCHANGED vars
    <2>1. Content' = Content
        BY <1>6 DEF Content, vars
    <2> QED BY <1>6, <2>1 DEF IInv, vars, auxVars
<1> QED BY <1>1, <1>2, <1>3, <1>4, <1>5, <1>6 DEF Next

THEOREM TextInductive == Spec => []IInv
<1> QED BY TextInit, TextStep, PTL DEF Spec

-----------------------------------------------------------------------------
(***************************************************************************)
(* The invariants that the run checks.                                     *)
(***************************************************************************)
\* The content in the words of the properties.
LEMMA StoredFacts ==
    ASSUME store \in Stores
    PROVE  /\ IsContent(Content) /\ DOMAIN Content = Stored
           /\ \A d \in Stored : /\ Content[d].tokens = TokensOf(d)
                                /\ Content[d].facets = Decoded(store[d]).facets
           /\ \A t : HoldersOf(Content, t) = Holding(t)
           /\ Pairs(Content) = UNION {{d} \X DOMAIN TokensOf(d) : d \in Stored}
<1> DEFINE c == Content
<1>1. /\ IsContent(c) /\ DOMAIN c = {e \in Docs : store[e] # Absent}
      /\ \A d \in DOMAIN c : /\ c[d].tokens = Tokenize(Decoded(store[d]).text)
                             /\ c[d].facets = Decoded(store[d]).facets
    <2>1. Docs \in SUBSET Docs
        OBVIOUS
    <2> QED BY <2>1, ContentFacts DEF Content
<1> HIDE DEF c
<1>2. DOMAIN c = Stored
    BY <1>1 DEF Stored
<1>3. \A d \in Stored : c[d].tokens = TokensOf(d) /\ c[d].facets = Decoded(store[d]).facets
    BY <1>1, <1>2 DEF TokensOf
<1>4. \A t : HoldersOf(c, t) = Holding(t)
    <2> TAKE t
    <2>1. \A d \in Stored : d \in HoldersOf(c, t) <=> d \in Holding(t)
        BY <1>2, <1>3, Zenon DEF HoldersOf, Holding
    <2>2. HoldersOf(c, t) \subseteq Stored /\ Holding(t) \subseteq Stored
        BY <1>2 DEF HoldersOf, Holding
    <2> QED BY <2>1, <2>2
<1>5. Pairs(c) = UNION {{d} \X DOMAIN TokensOf(d) : d \in Stored}
    <2> DEFINE R == UNION {{d} \X DOMAIN TokensOf(d) : d \in Stored}
    <2>1. \A p : p \in Pairs(c) <=> \E d \in DOMAIN c : p \in {d} \X DOMAIN c[d].tokens
        BY Zenon DEF Pairs
    <2>2. \A p : p \in R <=> \E d \in Stored : p \in {d} \X DOMAIN TokensOf(d)
        BY Zenon
    <2>3. \A p : p \in Pairs(c) <=> p \in R
        <3> HIDE DEF R
        <3> QED BY <1>2, <1>3, <2>1, <2>2
    <2> QED BY <2>3
<1> QED BY <1>1, <1>2, <1>3, <1>4, <1>5 DEF c

\* The Bloom filter never misses a document that has postings, so the removal that
\* index_document skips is one that would have changed nothing.
THEOREM FilterCoversPostings == Spec => []BloomCoversPostings
<1>1. IInv => BloomCoversPostings
    BY DEF IInv, Covered, BloomCoversPostings
<1> QED BY <1>1, TextInductive, PTL

\* The conclusion of ListLength, by name.
ListIs(ps, c, t) ==
    /\ Len(ps) = Cardinality(HoldersOf(c, t))
    /\ {ps[i] : i \in DOMAIN ps} = {PostingIn(c, d, t) : d \in HoldersOf(c, t)}

LEMMA ListLength ==
    ASSUME NEW ps \in Seq(Posting), NEW c, IsContent(c), NEW t, ListFor(ps, c, t)
    PROVE  ListIs(ps, c, t)
<1> DEFINE H == HoldersOf(c, t)
           n == Len(ps)
           f == [i \in 1..n |-> ps[i].doc]
<1>1. n \in Nat /\ DOMAIN ps = 1..n
    OBVIOUS
<1>2. /\ \A i \in DOMAIN ps : ps[i].doc \in H /\ ps[i] = PostingIn(c, ps[i].doc, t)
      /\ \A d \in H : \E i \in DOMAIN ps : ps[i].doc = d
      /\ \A i, j \in DOMAIN ps : ps[i].doc = ps[j].doc => i = j
    BY DEF ListFor
<1> HIDE DEF H, n
<1>3. f \in [1..n -> H] /\ \A i \in 1..n : f[i] = ps[i].doc
    BY <1>1, <1>2
<1> HIDE DEF f
<1>4. f \in Injection(1..n, H) /\ f \in Surjection(1..n, H)
    <2>1. \A i, j \in 1..n : f[i] = f[j] => i = j
        BY <1>1, <1>2, <1>3
    <2>2. \A d \in H : \E i \in 1..n : f[i] = d
        BY <1>1, <1>2, <1>3
    <2> QED BY <1>3, <2>1, <2>2 DEF Injection, Surjection, IsInjective
<1>5. IsFiniteSet(1..n)
    BY <1>1, CountTo, Zenon
<1>6. Cardinality(1..n) = n
    BY <1>1, CountTo, Zenon
<1>7. ExistsBijection(1..n, H)
    BY <1>4 DEF ExistsBijection, Bijection
<1>8. Cardinality(H) = n
    BY <1>5, <1>6, <1>7, FS_Bijection
<1>9. {ps[i] : i \in DOMAIN ps} = {PostingIn(c, d, t) : d \in H}
    <2>1. \A i \in DOMAIN ps : ps[i] \in {PostingIn(c, d, t) : d \in H}
        BY <1>2
    <2>2. \A d \in H : PostingIn(c, d, t) \in {ps[i] : i \in DOMAIN ps}
        <3> TAKE d \in H
        <3>1. PICK i \in DOMAIN ps : ps[i].doc = d
            BY <1>2
        <3>2. ps[i] = PostingIn(c, d, t)
            BY <1>2, <3>1
        <3> QED BY <3>2
    <2> QED BY <2>1, <2>2
<1> QED BY <1>8, <1>9 DEF H, n, ListIs

\* The cached index is the index of the stored records, posting by posting, until a
\* write of the engine fails after the index was changed.
THEOREM IndexOfStore == Spec => []IndexMatchesStore
<1>1. ASSUME IInv PROVE IndexMatchesStore
    <2> SUFFICES ASSUME index # Absent, ~diverged
                 PROVE  /\ DOMAIN index.postings = UNION {TermsOf(TokensOf(d)) : d \in Stored}
                        /\ \A t \in DOMAIN index.postings :
                             /\ Len(index.postings[t]) = Cardinality(Holding(t))
                             /\ {index.postings[t][i] : i \in DOMAIN index.postings[t]} =
                                  {PostingOf(d, TokensOf(d), Decoded(store[d]).facets, t) : d \in Holding(t)}
        BY DEF IndexMatchesStore
    <2> DEFINE c == Content
    <2>1. store \in Stores /\ IsIndex(index) /\ IsContent(c) /\ Listed(index, c)
        BY <1>1 DEF IInv, Matching
    <2>2. /\ DOMAIN c = Stored
          /\ \A d \in Stored : c[d].tokens = TokensOf(d) /\ c[d].facets = Decoded(store[d]).facets
          /\ \A t : HoldersOf(c, t) = Holding(t)
        BY <2>1, StoredFacts
    <2>3. /\ DOMAIN index.postings \in SUBSET Terms
          /\ \A t \in DOMAIN index.postings : index.postings[t] \in Seq(Posting)
        BY <2>1, ListsTyped DEF IsIndex
    <2> HIDE DEF c
    <2>4. \A d \in Stored : TermsOf(TokensOf(d)) \in SUBSET Terms
        <3> TAKE d \in Stored
        <3>1. TokensOf(d) \in Seq(Token)
            BY <2>1, <2>2 DEF IsContent
        <3> HIDE DEF TokensOf
        <3> QED BY <3>1, TokensFinite DEF TermsOf
    <2>5. \A t \in Terms : t \in DOMAIN index.postings <=> Holding(t) # {}
        <3> TAKE t \in Terms
        <3>1. ListFor(PostingsOf(index, t), c, t) /\ (t \in DOMAIN index.postings => HoldersOf(c, t) # {})
            BY <2>1 DEF Listed
        <3>2. ASSUME t \notin DOMAIN index.postings PROVE HoldersOf(c, t) = {}
            <4>1. PostingsOf(index, t) = <<>>
                BY <3>2 DEF PostingsOf
            <4>2. \A d \in HoldersOf(c, t) : \E i \in DOMAIN <<>> : <<>>[i].doc = d
                BY <3>1, <4>1, Zenon DEF ListFor
            <4> QED BY <4>2
        <3> QED BY <3>1, <3>2, <2>2
    <2>6. DOMAIN index.postings = UNION {TermsOf(TokensOf(d)) : d \in Stored}
        <3> DEFINE U == UNION {TermsOf(TokensOf(d)) : d \in Stored}
        <3>1. \A t : t \in U <=> \E d \in Stored : t \in TermsOf(TokensOf(d))
            BY Zenon
        <3>2. \A t : Holding(t) # {} <=> \E d \in Stored : t \in TermsOf(TokensOf(d))
            BY DEF Holding
        <3>3. U \in SUBSET Terms
            BY <2>4
        <3> HIDE DEF U
        <3>4. \A t \in Terms : t \in DOMAIN index.postings <=> t \in U
            BY <3>1, <3>2, <2>5
        <3>5. DOMAIN index.postings = U
            BY <3>3, <3>4, <2>3
        <3> QED BY <3>5 DEF U
    <2>7. ASSUME NEW t \in DOMAIN index.postings
          PROVE  /\ Len(index.postings[t]) = Cardinality(Holding(t))
                 /\ {index.postings[t][i] : i \in DOMAIN index.postings[t]} =
                      {PostingOf(d, TokensOf(d), Decoded(store[d]).facets, t) : d \in Holding(t)}
        <3>1. ListFor(index.postings[t], c, t)
            BY <2>1, <2>3 DEF Listed, PostingsOf
        <3>2. /\ Len(index.postings[t]) = Cardinality(HoldersOf(c, t))
              /\ {index.postings[t][i] : i \in DOMAIN index.postings[t]} =
                   {PostingIn(c, d, t) : d \in HoldersOf(c, t)}
            <4>1. index.postings[t] \in Seq(Posting)
                BY <2>3
            <4>2. ListIs(index.postings[t], c, t)
                BY <2>1, <3>1, <4>1, ListLength
            <4> QED BY <4>2 DEF ListIs
        <3>3. \A d \in Holding(t) : PostingIn(c, d, t) = PostingOf(d, TokensOf(d), Decoded(store[d]).facets, t)
            BY <2>2 DEF Holding, PostingIn
        <3>4. HoldersOf(c, t) = Holding(t)
            BY <2>2
        <3>5. {PostingIn(c, d, t) : d \in Holding(t)} =
                {PostingOf(d, TokensOf(d), Decoded(store[d]).facets, t) : d \in Holding(t)}
            BY <3>3
        <3> QED BY <3>2, <3>4, <3>5
    <2> QED BY <2>6, <2>7
<1> QED BY <1>1, TextInductive, PTL

\* The statistics BM25 divides by are those of the stored records.
THEOREM CountsOfStore == Spec => []CountsMatch
<1>1. ASSUME IInv PROVE CountsMatch
    <2> SUFFICES ASSUME index # Absent, ~diverged
                 PROVE  /\ index.totalDocLen = Cardinality(UNION {{d} \X DOMAIN TokensOf(d) : d \in Stored})
                        /\ index.totalDocs >= Cardinality(Stored)
                        /\ ~miscounted => index.totalDocs = Cardinality(Stored)
        BY DEF CountsMatch
    <2>1. store \in Stores /\ Counted(index, Content) /\ (~miscounted => Exact(index, Content))
        BY <1>1 DEF IInv, Matching
    <2>2. DOMAIN Content = Stored /\ Pairs(Content) = UNION {{d} \X DOMAIN TokensOf(d) : d \in Stored}
        BY <2>1, StoredFacts
    <2> QED BY <2>1, <2>2 DEF Counted, Exact
<1> QED BY <1>1, TextInductive, PTL

\* What a clean namespace would load from its sidecar is the index it serves, with a
\* filter that covers it, if every facet, term and position list of that index fits
\* the length field it is written with.
THEOREM SidecarOfIndex == Spec => []SidecarCurrent
<1>1. ASSUME IInv PROVE SidecarCurrent
    <2> SUFFICES ASSUME index # Absent, sidecar # Absent, ~dirty, ~reloaded, Fits(index)
                 PROVE  /\ sidecar.intact
                        /\ Serialize(Deserialize(sidecar)) = Serialize(index)
                        /\ Indexed(index) \subseteq Deserialize(sidecar).bloom.members
        BY DEF SidecarCurrent
    <2> DEFINE p == index.postings
               n == index.totalDocs
               l == index.totalDocLen
    <2>a. Fits(index) = TRUE
        <3>1. Fits(index) \in BOOLEAN
            BY DEF Fits
        <3> QED BY <3>1, Zenon
    <2>2. Serialize(index) = [intact |-> TRUE, postings |-> p, totalDocs |-> n, totalDocLen |-> l]
        BY <2>a, Zenon DEF Serialize
    <2>1. sidecar = [intact |-> TRUE, postings |-> p, totalDocs |-> n, totalDocLen |-> l]
        BY <1>1, <2>2 DEF IInv
    <2> DEFINE bare == [postings |-> p, totalDocs |-> n, totalDocLen |-> l, bloom |-> NewBloom(InitialCapacity)]
               bloom == RebuildBloom(bare, bare.totalDocs)
               ix == Deserialize(sidecar)
    <2> HIDE DEF p, n, l
    <2>3. sidecar.intact = TRUE /\ sidecar.postings = p /\ sidecar.totalDocs = n /\ sidecar.totalDocLen = l
        BY <2>1
    <2>4. ix = [bare EXCEPT !.bloom = bloom]
        BY <2>3, Zenon DEF Deserialize
    <2>5. bloom.members = Indexed(bare)
        <3> HIDE DEF bare
        <3> QED BY DEF RebuildBloom
    <2>6. Indexed(bare) = Indexed(index)
        BY DEF Indexed, p
    <2> HIDE DEF bloom, ix
    <2>7. ix = [postings |-> p, totalDocs |-> n, totalDocLen |-> l, bloom |-> bloom]
        <3> PICK b : b = NewBloom(InitialCapacity)
            OBVIOUS
        <3> QED BY <2>4
    <2>b. ix.postings = p /\ ix.totalDocs = n /\ ix.totalDocLen = l
        BY <2>7
    <2>c. Fits(ix) = Fits(index)
        BY <2>b DEF Fits, p
    <2>8. Serialize(ix) = Serialize(index)
        BY <2>2, <2>a, <2>b, <2>c, Zenon DEF Serialize
    <2>9. ix.bloom.members = Indexed(index)
        BY <2>5, <2>6, <2>7
    <2> QED BY <2>3, <2>8, <2>9 DEF ix
<1> QED BY <1>1, TextInductive, PTL

\* remove_document's assertions hold whenever it is called, after failed writes and
\* miscounted documents too: an index that still has a posting of a document counts
\* that document and the tokens of it.
RemovalAssertions ==
    \A doc \in Docs : \A len \in LensOf(Loaded, doc) : Loaded.totalDocs > 0 /\ Loaded.totalDocLen >= len

\* total_docs and total_doc_len never underflow in remove_document.
THEOREM RemovalNeverUnderflows == Spec => []RemovalAssertions
<1>1. ASSUME IInv PROVE RemovalAssertions
    <2> SUFFICES ASSUME NEW doc \in Docs, NEW len \in LensOf(Loaded, doc)
                 PROVE  Loaded.totalDocs > 0 /\ Loaded.totalDocLen >= len
        BY DEF RemovalAssertions
    <2> DEFINE ix == Loaded
    <2>1. IsIndex(ix) /\ \E c : Matching(ix, c)
        BY <1>1, LoadedFacts
    <2>2. PICK c : Matching(ix, c)
        BY <2>1
    <2>3. len \in LensOf(ix, doc)
        OBVIOUS
    <2> HIDE DEF ix
    <2>4. IsContent(c) /\ Listed(ix, c) /\ Counted(ix, c)
        BY <2>2 DEF Matching
    <2>5. /\ HasPosting(ix, doc) <=> doc \in DOMAIN c /\ c[doc].tokens # <<>>
          /\ LensOf(ix, doc) # {} <=> HasPosting(ix, doc)
          /\ HasPosting(ix, doc) => LensOf(ix, doc) = {Len(c[doc].tokens)}
        BY <2>1, <2>4, PostingLens
    <2>6. doc \in DOMAIN c /\ len = Len(c[doc].tokens)
        BY <2>3, <2>5
    <2>7. /\ IsFiniteSet(Pairs(c)) /\ ix.totalDocLen = Cardinality(Pairs(c))
          /\ ix.totalDocs \in Int /\ ix.totalDocs >= Cardinality(DOMAIN c)
        BY <2>4 DEF Counted
    <2> DEFINE w == Without(c, doc)
    <2>8. /\ IsFiniteSet(Pairs(w)) /\ Cardinality(DOMAIN w) \in Nat
          /\ Cardinality(Pairs(w)) = Cardinality(Pairs(c)) - Len(c[doc].tokens)
          /\ Cardinality(DOMAIN w) = Cardinality(DOMAIN c) - 1
        BY <2>4, <2>6, <2>7, WithoutCounts
    <2> HIDE DEF w
    <2>9. Cardinality(Pairs(w)) \in Nat /\ Cardinality(Pairs(c)) \in Nat
        BY <2>7, <2>8, FS_CardinalityType
    <2>10. Cardinality(DOMAIN c) \in Nat
        BY <2>4, DocsFinite DEF IsContent
    <2>11. len \in Nat
        BY <2>4, <2>6 DEF IsContent
    <2> QED BY <2>6, <2>7, <2>8, <2>9, <2>10, <2>11 DEF ix
<1> QED BY <1>1, TextInductive, PTL
-----------------------------------------------------------------------------
(***************************************************************************)
(* Searches.                                                               *)
(***************************************************************************)
\* The positions of a text where a word that is no stopword stems to t.
PlacesOf(text, t) == {i \in DOMAIN text : text[i] \notin StopWords /\ Stem[text[i]] = t}
WordsOf(text) == {Stem[text[i]] : i \in {j \in DOMAIN text : text[j] \notin StopWords}}

LEMMA TokenPlaces ==
    ASSUME NEW text \in Seq(DOMAIN Stem)
    PROVE  /\ TermsOf(Tokenize(text)) = WordsOf(text) /\ WordsOf(text) \in SUBSET Terms
           /\ Tokenize(text) = <<>> <=> WordsOf(text) = {}
           /\ \A t : LET here == {k \in DOMAIN Tokenize(text) : Tokenize(text)[k].term = t}
                     IN  /\ Cardinality(here) = Cardinality(PlacesOf(text, t))
                         /\ {Tokenize(text)[k].position : k \in here} = PlacesOf(text, t)
<1> DEFINE all == [i \in DOMAIN text |-> [term |-> Stem[text[i]], position |-> i]]
           I == {i \in DOMAIN text : text[i] \notin StopWords}
           T == Tokenize(text)
<1>1. Len(text) \in Nat /\ DOMAIN text = 1..Len(text) /\ \A i \in DOMAIN text : text[i] \in DOMAIN Stem
    OBVIOUS
<1>2. ASSUME NEW i \in DOMAIN text
      PROVE  [term |-> Stem[text[i]], position |-> i] \in Token
    <2>1. Stem[text[i]] \in Terms /\ i \in Nat
        BY <1>1 DEF Terms
    <2> QED BY <2>1 DEF Token
<1>3. /\ all \in Seq(Token) /\ DOMAIN all = DOMAIN text
      /\ \A i \in DOMAIN text : all[i].term = Stem[text[i]] /\ all[i].position = i
    <2>1. all \in [1..Len(text) -> Token]
        BY <1>1, <1>2
    <2> QED BY <1>1, <2>1
<1>4. T = Retain(all, I)
    BY DEF Tokenize
<1>5. I \in SUBSET (DOMAIN all) /\ I \in SUBSET DOMAIN text
    BY <1>3
<1>6. \A i : i \in I <=> i \in DOMAIN text /\ text[i] \notin StopWords
    OBVIOUS
<1> HIDE DEF all, T, I
<1>7. /\ \A k \in DOMAIN T : Nth(I, k) \in I /\ T[k] = all[Nth(I, k)]
      /\ \A i \in I : Rank(I, i) \in DOMAIN T /\ Nth(I, Rank(I, i)) = i
      /\ \A k, l \in DOMAIN T : k < l => Nth(I, k) < Nth(I, l)
      /\ DOMAIN T = 1..Cardinality(I) /\ Cardinality(I) \in Nat
    BY <1>3, <1>4, <1>5, RetainFacts
<1>8. \A k \in DOMAIN T : Nth(I, k) \in I /\ T[k].term = Stem[text[Nth(I, k)]] /\ T[k].position = Nth(I, k)
    BY <1>3, <1>5, <1>7
<1>9. TermsOf(T) = WordsOf(text)
    <2>1. \A t : t \in TermsOf(T) <=> \E k \in DOMAIN T : t = T[k].term
        BY DEF TermsOf
    <2>2. \A t : t \in WordsOf(text) <=> \E i \in I : t = Stem[text[i]]
        BY DEF WordsOf, I
    <2>3. \A k \in DOMAIN T : T[k].term \in WordsOf(text)
        BY <1>8, <2>2
    <2>4. ASSUME NEW i \in I PROVE Stem[text[i]] \in TermsOf(T)
        <3>1. Rank(I, i) \in DOMAIN T /\ Nth(I, Rank(I, i)) = i
            BY <1>7
        <3>2. T[Rank(I, i)].term = Stem[text[i]]
            BY <1>8, <3>1
        <3> QED BY <2>1, <3>1, <3>2
    <2> QED BY <2>1, <2>2, <2>3, <2>4
<1>10. WordsOf(text) \in SUBSET Terms
    BY DEF WordsOf, Terms
<1>11. T = <<>> <=> WordsOf(text) = {}
    <2>1. T = <<>> <=> I = {}
        BY <1>3, <1>4, <1>5, RetainEmpty
    <2>2. WordsOf(text) = {} <=> I = {}
        BY DEF WordsOf, I
    <2> QED BY <2>1, <2>2
<1>12. ASSUME NEW t
       PROVE  LET here == {k \in DOMAIN T : T[k].term = t}
              IN  /\ Cardinality(here) = Cardinality(PlacesOf(text, t))
                  /\ {T[k].position : k \in here} = PlacesOf(text, t)
    <2> DEFINE here == {k \in DOMAIN T : T[k].term = t}
               there == PlacesOf(text, t)
               f == [k \in here |-> Nth(I, k)]
    <2>1. \A i : i \in there <=> i \in I /\ Stem[text[i]] = t
        BY <1>6 DEF PlacesOf
    <2>2. \A k : k \in here <=> k \in DOMAIN T /\ Stem[text[Nth(I, k)]] = t
        BY <1>8
    <2>3. {T[k].position : k \in here} = there
        <3> HIDE DEF there
        <3>1. \A k \in here : T[k].position \in there
            BY <1>8, <2>1, <2>2
        <3>2. \A i \in there : Rank(I, i) \in here /\ T[Rank(I, i)].position = i
            <4> TAKE i \in there
            <4>1. i \in I /\ Stem[text[i]] = t
                BY <2>1
            <4>2. Rank(I, i) \in DOMAIN T /\ Nth(I, Rank(I, i)) = i
                BY <1>7, <4>1
            <4> QED BY <1>8, <2>2, <4>1, <4>2
        <3> HIDE DEF here
        <3> QED BY <3>1, <3>2
    <2> HIDE DEF here, there
    <2>4. IsFiniteSet(here)
        <3>1. here \in SUBSET DOMAIN T
            BY <2>2
        <3>2. IsFiniteSet(DOMAIN T)
            BY TokenizeFacts, TokensFinite DEF T
        <3> QED BY <3>1, <3>2, FS_Subset
    <2>5. f \in Bijection(here, there)
        <3>1. \A k \in here : Nth(I, k) \in there
            BY <1>8, <2>1, <2>2
        <3>2. \A k, l \in here : Nth(I, k) = Nth(I, l) => k = l
            <4> SUFFICES ASSUME NEW k \in here, NEW l \in here, Nth(I, k) = Nth(I, l), k # l PROVE FALSE
                OBVIOUS
            <4>1. k \in DOMAIN T /\ l \in DOMAIN T
                BY <2>2
            <4>2. k < l \/ l < k
                BY <1>7, <4>1
            <4>3. Nth(I, k) \in Int /\ Nth(I, l) \in Int
                BY <1>1, <1>5, <1>7, <4>1
            <4> QED BY <1>7, <4>1, <4>2, <4>3
        <3>3. \A i \in there : \E k \in here : Nth(I, k) = i
            <4> TAKE i \in there
            <4>1. i \in I /\ Stem[text[i]] = t
                BY <2>1
            <4>2. Rank(I, i) \in DOMAIN T /\ Nth(I, Rank(I, i)) = i
                BY <1>7, <4>1
            <4> QED BY <2>2, <4>1, <4>2
        <3>4. f \in [here -> there] /\ \A k \in here : f[k] = Nth(I, k)
            BY <3>1
        <3> HIDE DEF f
        <3> QED BY <3>2, <3>3, <3>4 DEF Bijection, Injection, Surjection, IsInjective
    <2>6. ExistsBijection(here, there)
        BY <2>5 DEF ExistsBijection
    <2>7. Cardinality(there) = Cardinality(here)
        BY <2>4, <2>6, FS_Bijection
    <2> QED BY <2>3, <2>7 DEF here, there
<1> QED BY <1>9, <1>10, <1>11, <1>12 DEF T

\* What a query looks for in the postings.
TermsSought(ix, q, typo) ==
    IF typo THEN ExpandTypoTerms(ix, TermsOf(Tokenize(q))) ELSE TermsOf(Tokenize(q))

LEMMA SoughtFacts ==
    ASSUME NEW ix, IsIndex(ix), NEW q \in Seq(DOMAIN Stem), NEW typo \in BOOLEAN
    PROVE  /\ TermsSought(ix, q, typo) \in SUBSET Terms
           /\ \A t \in DOMAIN ix.postings : t \in TermsSought(ix, q, typo) <=> Near(t, WordsOf(q), typo)
<1>1. TermsOf(Tokenize(q)) = WordsOf(q) /\ WordsOf(q) \in SUBSET Terms
    BY TokenPlaces
<1>2. DOMAIN ix.postings \in SUBSET Terms
    BY ListsTyped DEF IsIndex
<1>3. CASE ~typo
    <2>1. TermsSought(ix, q, typo) = WordsOf(q)
        BY <1>1, <1>3 DEF TermsSought
    <2>2. \A t : Near(t, WordsOf(q), typo) <=> t \in WordsOf(q)
        BY <1>3 DEF Near
    <2> QED BY <1>1, <2>1, <2>2
<1>4. CASE typo
    <2>1. \A t : t \in TermsSought(ix, q, typo) <=>
                   \/ t \in WordsOf(q)
                   \/ t \in DOMAIN ix.postings /\ \E w \in WordsOf(q) : t # w /\ IsOneEditAway[<<t, w>>]
        BY <1>1, <1>4 DEF TermsSought, ExpandTypoTerms
    <2>2. \A t : Near(t, WordsOf(q), typo) <=> \E w \in WordsOf(q) : NearTerm[<<t, w>>]
        BY <1>4 DEF Near
    <2>3. ASSUME NEW t \in DOMAIN ix.postings
          PROVE  t \in TermsSought(ix, q, typo) <=> Near(t, WordsOf(q), typo)
        <3>1. t \in Terms
            BY <1>2
        <3>2. \A w \in WordsOf(q) : IsOneEditAway[<<t, w>>] <=> NearTerm[<<t, w>>]
            BY <1>1, <3>1, EditIsNear
        <3>3. NearTerm[<<t, t>>]
            BY <3>1 DEF NearTerm, OneEditApart
        <3> QED BY <2>1, <2>2, <3>2, <3>3, Zenon
    <2>4. TermsSought(ix, q, typo) \in SUBSET Terms
        BY <1>1, <1>2, <2>1
    <2> QED BY <2>3, <2>4
<1> QED BY <1>3, <1>4

\* The list of a term, in terms of the content.
LEMMA ListOf ==
    ASSUME NEW ix, IsIndex(ix), NEW c, IsContent(c), Listed(ix, c), NEW t \in Terms
    PROVE  /\ \A i \in DOMAIN PostingsOf(ix, t) :
                 /\ PostingsOf(ix, t)[i].doc \in HoldersOf(c, t)
                 /\ PostingsOf(ix, t)[i] = PostingIn(c, PostingsOf(ix, t)[i].doc, t)
           /\ \A d \in HoldersOf(c, t) : \E i \in DOMAIN PostingsOf(ix, t) : PostingsOf(ix, t)[i].doc = d
           /\ \A i, j \in DOMAIN PostingsOf(ix, t) :
                 PostingsOf(ix, t)[i].doc = PostingsOf(ix, t)[j].doc => i = j
           /\ Len(PostingsOf(ix, t)) = Cardinality(HoldersOf(c, t))
           /\ HoldersOf(c, t) # {} => t \in DOMAIN ix.postings
<1> DEFINE ps == PostingsOf(ix, t)
<1>1. ps \in Seq(Posting)
    BY ListsTyped DEF IsIndex
<1>2. ListFor(ps, c, t)
    BY DEF Listed
<1>3. t \notin DOMAIN ix.postings => DOMAIN ps = {}
    BY DEF PostingsOf
<1> HIDE DEF ps
<1>4. Len(ps) = Cardinality(HoldersOf(c, t))
    BY <1>1, <1>2, ListLength DEF ListIs
<1>5. /\ \A i \in DOMAIN ps : ps[i].doc \in HoldersOf(c, t) /\ ps[i] = PostingIn(c, ps[i].doc, t)
      /\ \A d \in HoldersOf(c, t) : \E i \in DOMAIN ps : ps[i].doc = d
      /\ \A i, j \in DOMAIN ps : ps[i].doc = ps[j].doc => i = j
    BY <1>2 DEF ListFor
<1>6. HoldersOf(c, t) # {} => t \in DOMAIN ix.postings
    BY <1>3, <1>5
<1> QED BY <1>4, <1>5, <1>6 DEF ps

\* The score a search should give a document for one of its terms.
Expected(c, q, d, t) ==
    [term |-> t, times |-> Cardinality(PlacesOf(q, t)), docFreq |-> Cardinality(HoldersOf(c, t)),
     freq |-> Cardinality({i \in DOMAIN c[d].tokens : c[d].tokens[i].term = t}), len |-> Len(c[d].tokens)]
Found(c, q, typo, d) == {t \in TermsOf(c[d].tokens) : Near(t, WordsOf(q), typo)}
Scored(found, c, q, typo, fs) ==
    /\ DOMAIN found = {d \in DOMAIN c : Found(c, q, typo, d) # {} /\ MatchesFacets(c[d].facets, fs)}
    /\ \A d \in DOMAIN found : found[d] = {Expected(c, q, d, t) : t \in Found(c, q, typo, d)}

LEMMA ScoreFacts ==
    ASSUME NEW ix, IsIndex(ix), NEW c, IsContent(c), Listed(ix, c),
           NEW q \in Seq(DOMAIN Stem), NEW typo \in BOOLEAN, NEW fs
    PROVE  Scored(ScoreIndex(ix, q, typo, fs), c, q, typo, fs)
<1> DEFINE queried == Tokenize(q)
           terms == TermsSought(ix, q, typo)
           P(t) == PostingsOf(ix, t)
           hits == {h \in UNION {{t} \X DOMAIN P(t) : t \in terms} :
                      MatchesFacets(P(h[1])[h[2]].facets, fs)}
           docs == {P(h[1])[h[2]].doc : h \in hits}
           Scores(d) == {Hit(queried, h[1], P(h[1]), h[2]) : h \in {g \in hits : P(g[1])[g[2]].doc = d}}
           Holds(d) == {t \in terms : d \in HoldersOf(c, t)}
<1>1. ScoreIndex(ix, q, typo, fs) = [d \in docs |-> Scores(d)]
    BY DEF ScoreIndex, TermsSought
<1>2. /\ terms \in SUBSET Terms
      /\ \A t \in DOMAIN ix.postings : t \in terms <=> Near(t, WordsOf(q), typo)
    BY SoughtFacts
<1>3. \A t \in terms :
         /\ \A i \in DOMAIN P(t) : P(t)[i].doc \in HoldersOf(c, t) /\ P(t)[i] = PostingIn(c, P(t)[i].doc, t)
         /\ \A d \in HoldersOf(c, t) : \E i \in DOMAIN P(t) : P(t)[i].doc = d
         /\ Len(P(t)) = Cardinality(HoldersOf(c, t))
    BY <1>2, ListOf
<1>4. \A t, d : d \in HoldersOf(c, t) <=> d \in DOMAIN c /\ t \in TermsOf(c[d].tokens)
    BY DEF HoldersOf
<1>5. \A d \in DOMAIN c : Holds(d) = Found(c, q, typo, d)
    <2> SUFFICES ASSUME NEW d \in DOMAIN c, NEW t
                 PROVE  t \in Holds(d) <=> t \in Found(c, q, typo, d)
        BY Zenon
    <2>1. t \in TermsOf(c[d].tokens) => t \in DOMAIN ix.postings
        <3> SUFFICES ASSUME t \in TermsOf(c[d].tokens) PROVE t \in DOMAIN ix.postings
            OBVIOUS
        <3>1. c[d].tokens \in Seq(Token)
            BY DEF IsContent
        <3>2. t \in Terms
            BY <3>1, TokensFinite DEF TermsOf
        <3>3. HoldersOf(c, t) # {}
            BY <1>4
        <3> QED BY <3>2, <3>3, ListOf
    <2> HIDE DEF terms
    <2> QED BY <1>2, <1>4, <2>1 DEF Found
<1> HIDE DEF terms, P
<1>6. /\ \A h \in hits : h[1] \in terms /\ h[2] \in DOMAIN P(h[1]) /\ MatchesFacets(P(h[1])[h[2]].facets, fs)
      /\ \A t \in terms : \A i \in DOMAIN P(t) : MatchesFacets(P(t)[i].facets, fs) => <<t, i>> \in hits
    <2>1. \A h : h \in hits <=> /\ \E t \in terms : h \in {t} \X DOMAIN P(t)
                               /\ MatchesFacets(P(h[1])[h[2]].facets, fs)
        BY Zenon
    <2>2. \A t, h : h \in {t} \X DOMAIN P(t) => h[1] = t /\ h[2] \in DOMAIN P(t)
        OBVIOUS
    <2>3. \A t : \A i \in DOMAIN P(t) : <<t, i>> \in {t} \X DOMAIN P(t) /\ <<t, i>>[1] = t /\ <<t, i>>[2] = i
        OBVIOUS
    <2> HIDE DEF hits
    <2>4. ASSUME NEW h \in hits
          PROVE  h[1] \in terms /\ h[2] \in DOMAIN P(h[1]) /\ MatchesFacets(P(h[1])[h[2]].facets, fs)
        <3>1. PICK t \in terms : h \in {t} \X DOMAIN P(t)
            BY <2>1
        <3>2. h[1] = t /\ h[2] \in DOMAIN P(t)
            BY <2>2, <3>1
        <3> QED BY <2>1, <3>2
    <2>5. ASSUME NEW t \in terms, NEW i \in DOMAIN P(t), MatchesFacets(P(t)[i].facets, fs)
          PROVE  <<t, i>> \in hits
        <3>1. <<t, i>> \in {t} \X DOMAIN P(t) /\ P(<<t, i>>[1])[<<t, i>>[2]].facets = P(t)[i].facets
            BY <2>3
        <3> QED BY <2>1, <2>5, <3>1, Zenon
    <2> QED BY <2>4, <2>5
<1>7. /\ \A d \in docs : \E t \in terms : \E i \in DOMAIN P(t) :
                d = P(t)[i].doc /\ MatchesFacets(P(t)[i].facets, fs)
      /\ \A t \in terms : \A i \in DOMAIN P(t) : MatchesFacets(P(t)[i].facets, fs) => P(t)[i].doc \in docs
    <2>1. \A d : d \in docs <=> \E h \in hits : d = P(h[1])[h[2]].doc
        BY Zenon
    <2>2. \A t, i : P(<<t, i>>[1])[<<t, i>>[2]].doc = P(t)[i].doc
        OBVIOUS
    <2> HIDE DEF hits, docs
    <2>3. ASSUME NEW d \in docs
          PROVE  \E t \in terms : \E i \in DOMAIN P(t) : d = P(t)[i].doc /\ MatchesFacets(P(t)[i].facets, fs)
        <3>1. PICK h \in hits : d = P(h[1])[h[2]].doc
            BY <2>1
        <3>2. h[1] \in terms /\ h[2] \in DOMAIN P(h[1]) /\ MatchesFacets(P(h[1])[h[2]].facets, fs)
            BY <1>6
        <3> QED BY <3>1, <3>2, Zenon
    <2>4. ASSUME NEW t \in terms, NEW i \in DOMAIN P(t), MatchesFacets(P(t)[i].facets, fs)
          PROVE  P(t)[i].doc \in docs
        <3>1. <<t, i>> \in hits
            BY <1>6, <2>4
        <3> QED BY <2>1, <2>2, <3>1, Zenon
    <2> QED BY <2>3, <2>4
<1>8. /\ \A d : \A x \in Scores(d) : \E t \in terms : \E i \in DOMAIN P(t) :
                d = P(t)[i].doc /\ x = Hit(queried, t, P(t), i)
      /\ \A t \in terms : \A i \in DOMAIN P(t) :
            MatchesFacets(P(t)[i].facets, fs) => Hit(queried, t, P(t), i) \in Scores(P(t)[i].doc)
    <2>1. \A d, x : x \in Scores(d) <=> \E h \in hits : P(h[1])[h[2]].doc = d /\ x = Hit(queried, h[1], P(h[1]), h[2])
        BY Zenon
    <2>2. \A t, i : /\ P(<<t, i>>[1])[<<t, i>>[2]].doc = P(t)[i].doc
                    /\ Hit(queried, <<t, i>>[1], P(<<t, i>>[1]), <<t, i>>[2]) = Hit(queried, t, P(t), i)
        OBVIOUS
    <2> HIDE DEF hits, Scores
    <2>3. ASSUME NEW d, NEW x \in Scores(d)
          PROVE  \E t \in terms : \E i \in DOMAIN P(t) : d = P(t)[i].doc /\ x = Hit(queried, t, P(t), i)
        <3>1. PICK h \in hits : P(h[1])[h[2]].doc = d /\ x = Hit(queried, h[1], P(h[1]), h[2])
            BY <2>1
        <3>2. h[1] \in terms /\ h[2] \in DOMAIN P(h[1])
            BY <1>6
        <3> QED BY <3>1, <3>2, Zenon
    <2>4. ASSUME NEW t \in terms, NEW i \in DOMAIN P(t), MatchesFacets(P(t)[i].facets, fs)
          PROVE  Hit(queried, t, P(t), i) \in Scores(P(t)[i].doc)
        <3>1. <<t, i>> \in hits
            BY <1>6, <2>4
        <3> QED BY <2>1, <2>2, <3>1, Zenon
    <2> QED BY <2>3, <2>4
<1> HIDE DEF hits, docs, Scores, Holds
<1>9. ASSUME NEW t \in terms, NEW i \in DOMAIN P(t)
      PROVE  /\ P(t)[i].doc \in DOMAIN c /\ t \in Holds(P(t)[i].doc)
             /\ P(t)[i].facets = c[P(t)[i].doc].facets
             /\ Hit(queried, t, P(t), i) = Expected(c, q, P(t)[i].doc, t)
    <2>1. P(t)[i].doc \in HoldersOf(c, t) /\ P(t)[i] = PostingIn(c, P(t)[i].doc, t) /\ Len(P(t)) = Cardinality(HoldersOf(c, t))
        BY <1>3
    <2>2. P(t)[i].doc \in DOMAIN c /\ t \in Holds(P(t)[i].doc)
        BY <1>4, <2>1 DEF Holds
    <2> DEFINE d == P(t)[i].doc
    <2> DEFINE p == P(t)[i]
    <2>3. /\ p.facets = c[d].facets /\ p.len = Len(c[d].tokens)
          /\ p.freq = Cardinality({k \in DOMAIN c[d].tokens : c[d].tokens[k].term = t})
        <3>1. p = PostingIn(c, d, t)
            BY <2>1
        <3> HIDE DEF p, d
        <3>2. /\ PostingIn(c, d, t).facets = c[d].facets /\ PostingIn(c, d, t).len = Len(c[d].tokens)
              /\ PostingIn(c, d, t).freq = Cardinality({k \in DOMAIN c[d].tokens : c[d].tokens[k].term = t})
            BY DEF PostingIn, PostingOf
        <3> QED BY <3>1, <3>2
    <2>4. Cardinality({k \in DOMAIN queried : queried[k].term = t}) = Cardinality(PlacesOf(q, t))
        BY TokenPlaces
    <2> HIDE DEF d, queried
    <2>5. Hit(queried, t, P(t), i) = Expected(c, q, d, t)
        BY <2>1, <2>3, <2>4 DEF Hit, Expected
    <2> QED BY <2>2, <2>3, <2>5 DEF d
<1>10. ASSUME NEW d \in DOMAIN c, NEW t \in Holds(d)
       PROVE  t \in terms /\ \E i \in DOMAIN P(t) : P(t)[i].doc = d
    BY <1>3 DEF Holds
<1>11. \A d : d \in docs <=> d \in DOMAIN c /\ Holds(d) # {} /\ MatchesFacets(c[d].facets, fs)
    <2> TAKE d
    <2>1. ASSUME d \in docs PROVE d \in DOMAIN c /\ Holds(d) # {} /\ MatchesFacets(c[d].facets, fs)
        <3>0. PICK t \in terms : \E i \in DOMAIN P(t) : d = P(t)[i].doc /\ MatchesFacets(P(t)[i].facets, fs)
            BY <1>7, <2>1
        <3>1. PICK i \in DOMAIN P(t) : d = P(t)[i].doc /\ MatchesFacets(P(t)[i].facets, fs)
            BY <3>0
        <3> QED BY <1>9, <3>1
    <2>2. ASSUME d \in DOMAIN c, Holds(d) # {}, MatchesFacets(c[d].facets, fs) PROVE d \in docs
        <3>1. PICK t \in Holds(d) : TRUE
            BY <2>2
        <3>2. t \in terms
            BY <1>10, <2>2
        <3>3. PICK i \in DOMAIN P(t) : P(t)[i].doc = d
            BY <1>10, <2>2
        <3>4. MatchesFacets(P(t)[i].facets, fs)
            BY <1>9, <2>2, <3>2, <3>3
        <3> QED BY <1>7, <3>2, <3>3, <3>4
    <2> QED BY <2>1, <2>2
<1>12. ASSUME NEW d \in docs PROVE Scores(d) = {Expected(c, q, d, t) : t \in Holds(d)}
    <2>1. d \in DOMAIN c /\ MatchesFacets(c[d].facets, fs)
        BY <1>11
    <2>2. \A x \in Scores(d) : x \in {Expected(c, q, d, t) : t \in Holds(d)}
        <3> TAKE x \in Scores(d)
        <3>0. PICK t \in terms : \E i \in DOMAIN P(t) : d = P(t)[i].doc /\ x = Hit(queried, t, P(t), i)
            BY <1>8
        <3>1. PICK i \in DOMAIN P(t) : d = P(t)[i].doc /\ x = Hit(queried, t, P(t), i)
            BY <3>0
        <3>2. t \in Holds(d) /\ x = Expected(c, q, d, t)
            BY <1>9, <3>1
        <3> QED BY <3>2
    <2>3. \A t \in Holds(d) : Expected(c, q, d, t) \in Scores(d)
        <3> TAKE t \in Holds(d)
        <3>1. t \in terms
            BY <1>10, <2>1
        <3>2. PICK i \in DOMAIN P(t) : P(t)[i].doc = d
            BY <1>10, <2>1
        <3>3. MatchesFacets(P(t)[i].facets, fs) /\ Hit(queried, t, P(t), i) = Expected(c, q, d, t)
            BY <1>9, <2>1, <3>1, <3>2
        <3> QED BY <1>8, <3>1, <3>2, <3>3
    <2> QED BY <2>2, <2>3
<1>13. DOMAIN ScoreIndex(ix, q, typo, fs) = docs /\ \A d \in docs : ScoreIndex(ix, q, typo, fs)[d] = Scores(d)
    BY <1>1
<1>14. docs = {d \in DOMAIN c : Found(c, q, typo, d) # {} /\ MatchesFacets(c[d].facets, fs)}
    BY <1>5, <1>11
<1>15. \A d \in docs : Scores(d) = {Expected(c, q, d, t) : t \in Found(c, q, typo, d)}
    BY <1>5, <1>11, <1>12
<1> QED BY <1>13, <1>14, <1>15, Zenon DEF Scored

LEMMA SnippetFacts ==
    ASSUME NEW ix, IsIndex(ix), NEW c, IsContent(c), Listed(ix, c), NEW q \in Seq(DOMAIN Stem),
           NEW d \in DOMAIN c, store[d] # Absent, NEW text \in Seq(DOMAIN Stem),
           text = Decoded(store[d]).text, c[d].tokens = Tokenize(text)
    PROVE  BuildSnippets(ix, d, q) = {p \in DOMAIN text : text[p] \notin StopWords /\ Stem[text[p]] \in WordsOf(q)}
<1> DEFINE terms == TermsOf(Tokenize(q)) \cap DOMAIN ix.postings
           At(t) == {i \in DOMAIN ix.postings[t] : ix.postings[t][i].doc = d}
           here == {u \in terms : d \in DocsOf(ix.postings[u])}
           places == UNION {ix.postings[t][Min(At(t))].positions : t \in here}
           T == Tokenize(text)
<1>1. BuildSnippets(ix, d, q) = {p \in places : p <= Len(text)}
    BY DEF BuildSnippets
<1>2. TermsOf(Tokenize(q)) = WordsOf(q) /\ WordsOf(q) \in SUBSET Terms
    BY TokenPlaces
<1>3. TermsOf(T) = WordsOf(text)
    BY TokenPlaces
<1>4. \A t : d \in HoldersOf(c, t) <=> t \in WordsOf(text)
    BY <1>3 DEF HoldersOf
<1>5. \A t : t \in here <=> t \in WordsOf(q) /\ t \in DOMAIN ix.postings /\ At(t) # {}
    BY <1>2 DEF DocsOf
<1>6. ASSUME NEW t \in WordsOf(q), t \in DOMAIN ix.postings
      PROVE  /\ At(t) # {} => t \in WordsOf(text)
             /\ At(t) # {} => ix.postings[t][Min(At(t))].positions = PlacesOf(text, t)
             /\ t \in WordsOf(text) => At(t) # {}
    <2> DEFINE ps == ix.postings[t]
    <2>1. t \in Terms /\ PostingsOf(ix, t) = ps
        BY <1>2, <1>6 DEF PostingsOf
    <2>2. ps \in Seq(Posting)
        BY <1>6, ListsTyped DEF IsIndex
    <2>3. /\ \A i \in DOMAIN ps : ps[i].doc \in HoldersOf(c, t) /\ ps[i] = PostingIn(c, ps[i].doc, t)
          /\ \A e \in HoldersOf(c, t) : \E i \in DOMAIN ps : ps[i].doc = e
        <3>1. ListFor(ps, c, t)
            BY <2>1 DEF Listed
        <3> HIDE DEF ps
        <3> QED BY <3>1 DEF ListFor
    <2> HIDE DEF ps
    <2>4. \A i : i \in At(t) <=> i \in DOMAIN ps /\ ps[i].doc = d
        BY DEF ps
    <2>5. t \in WordsOf(text) => At(t) # {}
        BY <1>4, <2>3, <2>4
    <2>6. ASSUME At(t) # {}
          PROVE  t \in WordsOf(text) /\ ps[Min(At(t))].positions = PlacesOf(text, t)
        <3>1. At(t) \in SUBSET Nat
            BY <2>2, <2>4
        <3> HIDE DEF At
        <3>2. Min(At(t)) \in At(t)
            BY <2>6, <3>1, MinExists
        <3>3. ps[Min(At(t))] = PostingIn(c, d, t) /\ d \in HoldersOf(c, t)
            BY <2>3, <2>4, <3>2
        <3>4. PostingIn(c, d, t).positions = {T[k].position : k \in {k \in DOMAIN T : T[k].term = t}}
            BY DEF PostingIn, PostingOf
        <3>5. {T[k].position : k \in {k \in DOMAIN T : T[k].term = t}} = PlacesOf(text, t)
            BY TokenPlaces, Zenon
        <3> QED BY <1>4, <3>3, <3>4, <3>5
    <2> HIDE DEF At
    <2> QED BY <2>5, <2>6 DEF ps
<1>7. \A t : t \in here <=> t \in WordsOf(q) /\ t \in WordsOf(text)
    <2>1. ASSUME NEW t \in WordsOf(q), t \in WordsOf(text) PROVE t \in DOMAIN ix.postings
        <3>1. t \in Terms /\ HoldersOf(c, t) # {}
            BY <1>2, <1>4, <2>1
        <3> QED BY <3>1, ListOf
    <2> HIDE DEF here, At
    <2> QED BY <1>5, <1>6, <2>1
<1>8. \A t \in here : ix.postings[t][Min(At(t))].positions = PlacesOf(text, t)
    <2> HIDE DEF here, At
    <2> QED BY <1>5, <1>6
<1>9. \A p : p \in places <=> \E t \in here : p \in PlacesOf(text, t)
    <2>1. \A p : p \in places <=> \E t \in here : p \in ix.postings[t][Min(At(t))].positions
        BY Zenon
    <2> HIDE DEF here, At, places
    <2> QED BY <1>8, <2>1
<1> HIDE DEF here, At, places
<1>10. \A p : p \in places <=> p \in DOMAIN text /\ text[p] \notin StopWords /\ Stem[text[p]] \in WordsOf(q)
    <2>1. \A t, p : p \in PlacesOf(text, t) <=> p \in DOMAIN text /\ text[p] \notin StopWords /\ Stem[text[p]] = t
        BY DEF PlacesOf
    <2>2. \A p \in DOMAIN text : text[p] \notin StopWords => Stem[text[p]] \in WordsOf(text)
        BY DEF WordsOf
    <2> QED BY <1>7, <1>9, <2>1, <2>2
<1>11. \A p \in DOMAIN text : p <= Len(text)
    OBVIOUS
<1> QED BY <1>1, <1>10, <1>11
\* SearchMatchesStore for one query.
HitsOf(q, typo, d) == {t \in TermsOf(TokensOf(d)) : Near(t, WordsOf(q), typo)}
ScoreOf(q, d, t) ==
    [term |-> t, times |-> Cardinality({j \in DOMAIN q : q[j] \notin StopWords /\ Stem[q[j]] = t}),
     docFreq |-> Cardinality(Holding(t)),
     freq |-> Cardinality({i \in DOMAIN TokensOf(d) : TokensOf(d)[i].term = t}),
     len |-> Len(TokensOf(d))]
Promised(q, typo, fs) ==
    /\ DOMAIN Search(index, q, typo, fs) =
         {d \in Stored : HitsOf(q, typo, d) # {} /\ MatchesFacets(Decoded(store[d]).facets, fs)}
    /\ \A d \in DOMAIN Search(index, q, typo, fs) : BuildSnippets(index, d, q) = Matches(d, q)
    /\ \A d \in DOMAIN Search(index, q, typo, fs) :
          Search(index, q, typo, fs)[d] = {ScoreOf(q, d, t) : t \in HitsOf(q, typo, d)}

LEMMA SearchKeepsPromise ==
    ASSUME IInv, index # Absent, ~diverged,
           NEW q \in Queries, NEW typo \in BOOLEAN, NEW fs
    PROVE  Promised(q, typo, fs)
<1> DEFINE c == Content
           found == Search(index, q, typo, fs)
<1>1. /\ store \in Stores /\ IsIndex(index) /\ IsContent(c) /\ Listed(index, c) /\ Counted(index, c)
    BY DEF IInv, Matching
<1>2. q \in Seq(DOMAIN Stem)
    BY WordsAssumption
<1>3. /\ DOMAIN c = Stored
      /\ \A d \in Stored : c[d].tokens = TokensOf(d) /\ c[d].facets = Decoded(store[d]).facets
      /\ \A t : HoldersOf(c, t) = Holding(t)
    BY <1>1, StoredFacts
<1> HIDE DEF c
<1>4. \A d \in Stored : Found(c, q, typo, d) = HitsOf(q, typo, d)
    BY <1>3, Zenon DEF Found, HitsOf
<1>5. \A d \in Stored : \A t : Expected(c, q, d, t) = ScoreOf(q, d, t)
    BY <1>3, Zenon DEF Expected, PlacesOf, ScoreOf
<1>6. /\ DOMAIN found = {d \in Stored : HitsOf(q, typo, d) # {} /\ MatchesFacets(Decoded(store[d]).facets, fs)}
      /\ \A d \in DOMAIN found : found[d] = {ScoreOf(q, d, t) : t \in HitsOf(q, typo, d)}
    <2>1. CASE ~(Tokenize(q) = <<>> \/ index.totalDocs = 0)
        <3>1. found = ScoreIndex(index, q, typo, fs)
            BY <2>1 DEF Search
        <3> HIDE DEF found
        <3>2. Scored(found, c, q, typo, fs)
            BY <1>1, <1>2, <3>1, ScoreFacts
        <3>3. /\ DOMAIN found = {d \in DOMAIN c : Found(c, q, typo, d) # {} /\ MatchesFacets(c[d].facets, fs)}
              /\ \A d \in DOMAIN found : found[d] = {Expected(c, q, d, t) : t \in Found(c, q, typo, d)}
            BY <3>2, Zenon DEF Scored
        <3>4. DOMAIN found = {d \in Stored : HitsOf(q, typo, d) # {} /\ MatchesFacets(Decoded(store[d]).facets, fs)}
            BY <1>3, <1>4, <3>3
        <3>5. \A d \in DOMAIN found : found[d] = {ScoreOf(q, d, t) : t \in HitsOf(q, typo, d)}
            <4> SUFFICES ASSUME NEW d \in DOMAIN found
                         PROVE  found[d] = {ScoreOf(q, d, t) : t \in HitsOf(q, typo, d)}
                OBVIOUS
            <4>1. d \in Stored
                BY <3>4
            <4>2. found[d] = {Expected(c, q, d, t) : t \in HitsOf(q, typo, d)}
                BY <1>4, <3>3, <4>1, Zenon
            <4>3. \A t \in HitsOf(q, typo, d) : Expected(c, q, d, t) = ScoreOf(q, d, t)
                BY <1>5, <4>1
            <4> QED BY <4>2, <4>3
        <3> QED BY <3>4, <3>5
    <2>2. CASE Tokenize(q) = <<>> \/ index.totalDocs = 0
        <3>1. DOMAIN found = {}
            BY <2>2 DEF Search
        <3> HIDE DEF found
        <3>2. \A d \in Stored : HitsOf(q, typo, d) = {}
            <4>1. CASE Tokenize(q) = <<>>
                <5>1. WordsOf(q) = {}
                    BY <1>2, <4>1, TokenPlaces
                <5> QED BY <5>1 DEF HitsOf, Near
            <4>2. CASE index.totalDocs = 0
                <5>1. Stored \in SUBSET Docs
                    BY DEF Stored
                <5>2. IsFiniteSet(Stored) /\ Cardinality(Stored) \in Nat
                    BY <5>1, DocsFinite
                <5>3. 0 >= Cardinality(Stored)
                    BY <1>1, <1>3, <4>2 DEF Counted
                <5>4. Cardinality(Stored) = 0
                    BY <5>2, <5>3
                <5>5. Stored = {}
                    BY <5>2, <5>4, FS_EmptySet
                <5> QED BY <5>5
            <4> QED BY <2>2, <4>1, <4>2
        <3> QED BY <3>1, <3>2
    <2> QED BY <2>1, <2>2
<1> HIDE DEF found
<1>7. ASSUME NEW d \in DOMAIN found PROVE BuildSnippets(index, d, q) = Matches(d, q)
    <2> DEFINE text == Decoded(store[d]).text
    <2>1. d \in Stored /\ d \in DOMAIN c
        BY <1>3, <1>6
    <2>2. store[d] # Absent /\ store[d] \in Records
        BY <1>1, <2>1 DEF Stored, Stores
    <2>3. text \in Seq(DOMAIN Stem)
        BY <2>2, DecodedFacts
    <2>4. c[d].tokens = Tokenize(text)
        BY <1>3, <2>1 DEF TokensOf
    <2>5. Matches(d, q) = {p \in DOMAIN text : text[p] \notin StopWords /\ Stem[text[p]] \in TermsOf(Tokenize(q))}
        BY DEF Matches
    <2>6. TermsOf(Tokenize(q)) = WordsOf(q)
        BY <1>2, TokenPlaces
    <2>7. BuildSnippets(index, d, q) = {p \in DOMAIN text : text[p] \notin StopWords /\ Stem[text[p]] \in WordsOf(q)}
        BY <1>1, <1>2, <2>1, <2>2, <2>3, <2>4, SnippetFacts
    <2> QED BY <2>5, <2>6, <2>7, Zenon
<1> QED BY <1>6, <1>7 DEF Promised, found

\* A search finds the stored documents that hold what was asked for, a term one edit
\* away included, with the frequencies that score them and the words to mark, however
\* the index came about.
THEOREM SearchOfStore == Spec => []SearchMatchesStore
<1>1. IInv => SearchMatchesStore
    <2>1. IInv /\ index # Absent /\ ~diverged =>
            \A q \in Queries, typo \in BOOLEAN, fs \in Filters : Promised(q, typo, fs)
        BY SearchKeepsPromise
    <2> QED BY <2>1, Zenon DEF SearchMatchesStore, Promised, HitsOf, ScoreOf, WordsOf
<1> QED BY <1>1, TextInductive, PTL
=============================================================================
