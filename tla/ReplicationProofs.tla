-------------------------- MODULE ReplicationProofs --------------------------
(***************************************************************************)
(* Proofs about replication: last writer wins, the durable pending list,   *)
(* fencing tokens, and what an equal Merkle root says.                     *)
(***************************************************************************)
EXTENDS Replication, ListProofs
-----------------------------------------------------------------------------
(***************************************************************************)
(* Operators on the values of one node.                                    *)
(***************************************************************************)

\* SetToSeq lists the elements of a finite set.
LEMMA SetToSeqFacts ==
    ASSUME NEW T, IsFiniteSet(T)
    PROVE  /\ SetToSeq(T) \in Seq(T) /\ Len(SetToSeq(T)) \in Nat
           /\ ToSet(SetToSeq(T)) = T
<1> DEFINE c == Cardinality(T)
           f == SetToSeq(T)
<1>1. c \in Nat /\ ExistsBijection(1..c, T)
    BY FS_CardinalityType
<1>2. \E g \in [1..c -> T] : IsInjective(g)
    BY <1>1 DEF ExistsBijection, Bijection, Injection
<1>3. f \in [1..c -> T] /\ IsInjective(f)
    BY <1>2 DEF SetToSeq
<1>4. Cardinality(1..c) = c
    BY <1>1, CountTo, Zenon
<1>5. f \in Surjection(1..c, T)
    <2>1. f \in Injection(1..c, T)
        BY <1>3 DEF Injection
    <2> QED BY <2>1, <1>4, FS_Injection
<1>6. \A x \in T : \E i \in 1..c : f[i] = x
    BY <1>5 DEF Surjection
<1> HIDE DEF f, c
<1>7. f \in Seq(T) /\ Len(f) \in Nat /\ DOMAIN f = 1..c
    BY <1>1, <1>3
<1>8. ToSet(f) = T
    BY <1>3, <1>6, <1>7 DEF ToSet
<1> QED BY <1>7, <1>8 DEF f

Holders(ss, k) == {i \in DOMAIN ss : ss[i].ents[k] # NoEntry}

\* A segment list answers from the last segment that holds the key.
LEMMA LastHolder ==
    ASSUME NEW ss \in Seq(Segment), NEW k \in Keys
    PROVE  \/ /\ Holders(ss, k) = {} /\ SegmentGet(ss, k) = NoEntry
              /\ \A i \in DOMAIN ss : ss[i].ents[k] = NoEntry
           \/ \E i \in DOMAIN ss :
                 /\ SegmentGet(ss, k) = ss[i].ents[k] /\ ss[i].ents[k] # NoEntry
                 /\ \A j \in DOMAIN ss : j > i => ss[j].ents[k] = NoEntry
<1> DEFINE H == Holders(ss, k)
<1>1. H \subseteq DOMAIN ss /\ DOMAIN ss = 1..Len(ss) /\ Len(ss) \in Nat
    BY DEF Holders
<1>2. SegmentGet(ss, k) = IF H = {} THEN NoEntry ELSE ss[Max(H)].ents[k]
    BY DEF SegmentGet, Holders
<1>3. CASE H = {}
    BY <1>2, <1>3 DEF Holders
<1>4. CASE H # {}
    <2>1. IsFiniteSet(H) /\ H \in SUBSET Nat
        <3>1. IsFiniteSet(1..Len(ss)) /\ H \in SUBSET (1..Len(ss))
            BY <1>1, FS_Interval
        <3> QED BY <3>1, FS_Subset
    <2>2. Max(H) \in H /\ Max(H) \in Nat /\ \A y \in H : y <= Max(H)
        BY <1>4, <2>1, FiniteMax
    <2>3. \A j \in DOMAIN ss : j > Max(H) => j \notin H
        BY <2>2, <1>1
    <2>4. PICK i \in DOMAIN ss : i = Max(H) /\ i \in H
        BY <1>1, <2>2
    <2> QED BY <1>2, <1>4, <2>3, <2>4 DEF Holders
<1> QED BY <1>3, <1>4

\* What a get of a segment list is, given its last holder or that it has none.
LEMMA HolderGet ==
    ASSUME NEW ss \in Seq(Segment), NEW k \in Keys
    PROVE  /\ (\A i \in DOMAIN ss : ss[i].ents[k] = NoEntry) => SegmentGet(ss, k) = NoEntry
           /\ \A i \in DOMAIN ss :
                 (/\ ss[i].ents[k] # NoEntry
                  /\ \A j \in DOMAIN ss : j > i => ss[j].ents[k] = NoEntry)
                 => SegmentGet(ss, k) = ss[i].ents[k]
<1>1. DOMAIN ss = 1..Len(ss) /\ Len(ss) \in Nat
    OBVIOUS
<1>2. ASSUME NEW i \in DOMAIN ss, NEW l \in DOMAIN ss, ss[i].ents[k] # NoEntry,
             \A j \in DOMAIN ss : j > i => ss[j].ents[k] = NoEntry,
             ss[l].ents[k] # NoEntry,
             \A j \in DOMAIN ss : j > l => ss[j].ents[k] = NoEntry
      PROVE  i = l
    BY <1>1, <1>2
<1> QED BY <1>2, LastHolder

\* The entry of a segment list, and of a node, for a key.
LEMMA GetType ==
    ASSUME NEW ss \in Seq(Segment), NEW m \in Entries, NEW k \in Keys
    PROVE  /\ SegmentGet(ss, k) \in Entry \cup {NoEntry}
           /\ Local(m, ss, k) \in Entry \cup {NoEntry}
<1>1. \A i \in DOMAIN ss : ss[i].ents[k] \in Entry \cup {NoEntry}
    <2>1. \A i \in DOMAIN ss : ss[i] \in Segment
        OBVIOUS
    <2> QED BY <2>1 DEF Segment, Entries
<1>2. m[k] \in Entry \cup {NoEntry}
    BY DEF Entries
<1> QED BY <1>1, <1>2, LastHolder DEF Local

\* An age is a natural number.
LEMMA AgeType ==
    ASSUME NEW e \in Entry \cup {NoEntry}
    PROVE  Age(e) \in Nat
BY DEF Age, Entry

\* Appending a segment: it answers for the keys it holds.
LEMMA AppendGet ==
    ASSUME NEW ss \in Seq(Segment), NEW s \in Segment, NEW k \in Keys
    PROVE  SegmentGet(Append(ss, s), k) =
               IF s.ents[k] # NoEntry THEN s.ents[k] ELSE SegmentGet(ss, k)
<1> DEFINE tt == Append(ss, s)
<1>1. /\ tt \in Seq(Segment) /\ DOMAIN tt = 1..(Len(ss) + 1) /\ Len(ss) \in Nat
      /\ DOMAIN ss = 1..Len(ss)
      /\ \A i \in DOMAIN ss : tt[i] = ss[i]
      /\ tt[Len(ss) + 1] = s
    OBVIOUS
<1> HIDE DEF tt
<1>2. CASE s.ents[k] # NoEntry
    <2>1. Len(ss) + 1 \in DOMAIN tt /\ \A j \in DOMAIN tt : ~(j > Len(ss) + 1)
        BY <1>1
    <2>2. tt[Len(ss) + 1].ents[k] # NoEntry
        BY <1>1, <1>2
    <2>3. SegmentGet(tt, k) = tt[Len(ss) + 1].ents[k]
        BY <1>1, <2>1, <2>2, HolderGet
    <2> QED BY <1>1, <1>2, <2>3 DEF tt
<1>3. CASE s.ents[k] = NoEntry
    <2>1. ASSUME \A i \in DOMAIN ss : ss[i].ents[k] = NoEntry
          PROVE  SegmentGet(tt, k) = NoEntry
        <3>1. \A i \in DOMAIN tt : tt[i].ents[k] = NoEntry
            BY <1>1, <1>3, <2>1
        <3> QED BY <3>1, <1>1, HolderGet
    <2>2. ASSUME NEW i \in DOMAIN ss, ss[i].ents[k] # NoEntry,
                 \A j \in DOMAIN ss : j > i => ss[j].ents[k] = NoEntry
          PROVE  SegmentGet(tt, k) = ss[i].ents[k]
        <3>1. i \in DOMAIN tt /\ tt[i] = ss[i]
            BY <1>1
        <3>2. \A j \in DOMAIN tt : j > i => tt[j].ents[k] = NoEntry
            BY <1>1, <1>3, <2>2
        <3>3. tt[i].ents[k] # NoEntry
            BY <3>1, <2>2
        <3>4. SegmentGet(tt, k) = tt[i].ents[k]
            BY <3>1, <3>2, <3>3, <1>1, HolderGet
        <3> QED BY <3>1, <3>4
    <2> QED BY <1>3, <2>1, <2>2, LastHolder DEF tt
<1> QED BY <1>2, <1>3

OwnAt(ss) == {i \in DOMAIN ss : ~ss[i].imported}
Own(ss) == Retain(ss, OwnAt(ss))

\* The own segments of a list answer from the last own segment that holds the key.
LEMMA OwnGet ==
    ASSUME NEW ss \in Seq(Segment), NEW k \in Keys
    PROVE  /\ Own(ss) \in Seq(Segment)
           /\ (\A i \in OwnAt(ss) : ss[i].ents[k] = NoEntry) => SegmentGet(Own(ss), k) = NoEntry
           /\ \A i \in OwnAt(ss) :
                 (/\ ss[i].ents[k] # NoEntry
                  /\ \A j \in OwnAt(ss) : j > i => ss[j].ents[k] = NoEntry)
                 => SegmentGet(Own(ss), k) = ss[i].ents[k]
           /\ \/ /\ SegmentGet(Own(ss), k) = NoEntry
                 /\ \A i \in OwnAt(ss) : ss[i].ents[k] = NoEntry
              \/ \E i \in OwnAt(ss) :
                    /\ SegmentGet(Own(ss), k) = ss[i].ents[k] /\ ss[i].ents[k] # NoEntry
                    /\ \A j \in OwnAt(ss) : j > i => ss[j].ents[k] = NoEntry
<1> DEFINE I == OwnAt(ss)
           os == Own(ss)
<1>1. I \in SUBSET (DOMAIN ss) /\ DOMAIN ss = 1..Len(ss) /\ Len(ss) \in Nat
    BY DEF OwnAt
<1>2. /\ os \in Seq(Segment)
      /\ \A x \in DOMAIN os : Nth(I, x) \in I /\ os[x] = ss[Nth(I, x)]
      /\ \A i \in I : Rank(I, i) \in DOMAIN os /\ Nth(I, Rank(I, i)) = i
      /\ \A x, y \in DOMAIN os : x < y => Nth(I, x) < Nth(I, y)
    BY <1>1, RetainFacts DEF Own
<1>3. DOMAIN os = 1..Len(os) /\ Len(os) \in Nat
    BY <1>2
<1> HIDE DEF I, os
<1>4. \A i \in I : os[Rank(I, i)] = ss[i]
    BY <1>2
<1>5. \A i, j \in I : j > i => Rank(I, j) > Rank(I, i)
    <2> SUFFICES ASSUME NEW i \in I, NEW j \in I, j > i, ~(Rank(I, j) > Rank(I, i)) PROVE FALSE
        OBVIOUS
    <2>1. i \in Nat /\ j \in Nat /\ Rank(I, i) \in Nat /\ Rank(I, j) \in Nat
        BY <1>1, <1>2, <1>3
    <2>2. CASE Rank(I, j) = Rank(I, i)
        BY <2>1, <2>2, <1>2
    <2>3. CASE Rank(I, j) < Rank(I, i)
        <3>1. Nth(I, Rank(I, j)) < Nth(I, Rank(I, i))
            BY <2>3, <1>2
        <3> QED BY <3>1, <2>1, <1>2
    <2> QED BY <2>1, <2>2, <2>3
<1>6. ASSUME \A i \in I : ss[i].ents[k] = NoEntry
      PROVE  SegmentGet(os, k) = NoEntry
    BY <1>2, <1>6, HolderGet
<1>7. ASSUME NEW i \in I, ss[i].ents[k] # NoEntry,
             \A j \in I : j > i => ss[j].ents[k] = NoEntry
      PROVE  SegmentGet(os, k) = ss[i].ents[k]
    <2>1. \A y \in DOMAIN os : y > Rank(I, i) => Nth(I, y) > i
        BY <1>2, <1>3, <1>1
    <2>2. \A y \in DOMAIN os : y > Rank(I, i) => os[y].ents[k] = NoEntry
        BY <2>1, <1>2, <1>7
    <2>3. Rank(I, i) \in DOMAIN os /\ os[Rank(I, i)].ents[k] # NoEntry
        BY <1>2, <1>4, <1>7
    <2> QED BY <2>2, <2>3, <1>2, <1>4, HolderGet
<1>8. ASSUME NEW x \in DOMAIN os, os[x].ents[k] # NoEntry,
             SegmentGet(os, k) = os[x].ents[k],
             \A y \in DOMAIN os : y > x => os[y].ents[k] = NoEntry
      PROVE  \E i \in I :
                /\ SegmentGet(os, k) = ss[i].ents[k] /\ ss[i].ents[k] # NoEntry
                /\ \A j \in I : j > i => ss[j].ents[k] = NoEntry
    <2>1. PICK i \in I : i = Nth(I, x)
        BY <1>2
    <2>2. ASSUME NEW j \in I, j > i PROVE ss[j].ents[k] = NoEntry
        <3>1. Rank(I, j) \in DOMAIN os /\ Nth(I, Rank(I, j)) = j
            BY <1>2
        <3>2. Rank(I, j) > x
            <4> SUFFICES ASSUME ~(Rank(I, j) > x) PROVE FALSE
                OBVIOUS
            <4>1. x \in Nat /\ Rank(I, j) \in Nat /\ i \in Nat /\ j \in Nat
                BY <3>1, <1>1, <1>3
            <4>2. Rank(I, j) < x => j < i
                BY <3>1, <2>1, <1>2
            <4>3. Rank(I, j) = x => j = i
                BY <3>1, <2>1
            <4> QED BY <4>1, <4>2, <4>3, <2>2
        <3> QED BY <3>1, <3>2, <1>4, <1>8
    <2>3. ss[i] = os[x]
        BY <2>1, <1>2
    <2> QED BY <2>1, <2>2, <2>3, <1>8
<1>9. ASSUME \A x \in DOMAIN os : os[x].ents[k] = NoEntry, NEW i \in I
      PROVE  ss[i].ents[k] = NoEntry
    BY <1>2, <1>4, <1>9
<1>10. \/ /\ SegmentGet(os, k) = NoEntry /\ \A x \in DOMAIN os : os[x].ents[k] = NoEntry
       \/ \E x \in DOMAIN os :
             /\ SegmentGet(os, k) = os[x].ents[k] /\ os[x].ents[k] # NoEntry
             /\ \A y \in DOMAIN os : y > x => os[y].ents[k] = NoEntry
    BY <1>2, LastHolder
<1>11. \/ /\ SegmentGet(os, k) = NoEntry
          /\ \A i \in I : ss[i].ents[k] = NoEntry
       \/ \E i \in I :
             /\ SegmentGet(os, k) = ss[i].ents[k] /\ ss[i].ents[k] # NoEntry
             /\ \A j \in I : j > i => ss[j].ents[k] = NoEntry
    BY <1>8, <1>9, <1>10
<1> QED BY <1>2, <1>6, <1>7, <1>11 DEF I, os

\* Appending an imported segment leaves the answer of the own ones, an own one is theirs.
LEMMA OwnAppend ==
    ASSUME NEW ss \in Seq(Segment), NEW s \in Segment, NEW k \in Keys
    PROVE  SegmentGet(Own(Append(ss, s)), k) =
               IF ~s.imported /\ s.ents[k] # NoEntry THEN s.ents[k] ELSE SegmentGet(Own(ss), k)
<1> DEFINE tt == Append(ss, s)
           new == Len(ss) + 1
<1>1. /\ tt \in Seq(Segment) /\ DOMAIN tt = 1..new /\ Len(ss) \in Nat
      /\ DOMAIN ss = 1..Len(ss)
      /\ \A i \in DOMAIN ss : tt[i] = ss[i]
      /\ tt[new] = s
    OBVIOUS
<1>a. /\ new \in Nat /\ new \in DOMAIN tt
      /\ \A i \in DOMAIN tt : i \in Nat /\ ~(i > new)
      /\ \A i \in DOMAIN ss : i \in DOMAIN tt /\ i \in Nat
    BY <1>1
<1>b. \A i \in DOMAIN tt : i = new \/ i \in DOMAIN ss
    BY <1>1
<1> HIDE DEF tt, new
<1>2. /\ \A i \in OwnAt(ss) : i \in OwnAt(tt) /\ tt[i] = ss[i]
      /\ \A i \in OwnAt(tt) : i \in OwnAt(ss) \/ (i = new /\ ~s.imported)
      /\ ~s.imported => new \in OwnAt(tt)
      /\ \A i \in OwnAt(tt) : ~(i > new)
    <2>1. /\ \A i : i \in OwnAt(ss) <=> i \in DOMAIN ss /\ ~ss[i].imported
          /\ \A i : i \in OwnAt(tt) <=> i \in DOMAIN tt /\ ~tt[i].imported
        BY Zenon DEF OwnAt
    <2>2. \A i \in OwnAt(ss) : i \in OwnAt(tt) /\ tt[i] = ss[i]
        BY <2>1, <1>1, <1>a, Zenon
    <2>3. \A i \in OwnAt(tt) : i \in OwnAt(ss) \/ (i = new /\ ~s.imported)
        <3> SUFFICES ASSUME NEW i \in OwnAt(tt)
                     PROVE  i \in OwnAt(ss) \/ (i = new /\ ~s.imported)
            OBVIOUS
        <3>1. i \in DOMAIN tt /\ ~tt[i].imported
            BY <2>1, Zenon
        <3>2. CASE i = new
            BY <3>1, <3>2, <1>1, Zenon
        <3>3. CASE i \in DOMAIN ss
            <4>1. tt[i] = ss[i]
                BY <3>3, <1>1
            <4> QED BY <3>1, <3>3, <4>1, <2>1, Zenon
        <3>4. i = new \/ i \in DOMAIN ss
            BY <3>1, <1>b, Zenon
        <3> QED BY <3>2, <3>3, <3>4, Zenon
    <2>4. ~s.imported => new \in OwnAt(tt)
        BY <2>1, <1>1, <1>a, Zenon
    <2>5. \A i \in OwnAt(tt) : ~(i > new)
        BY <2>1, <1>a, Zenon
    <2> QED BY <2>2, <2>3, <2>4, <2>5
<1>3. CASE ~s.imported /\ s.ents[k] # NoEntry
    <2>1. new \in OwnAt(tt) /\ tt[new].ents[k] # NoEntry /\ \A j \in OwnAt(tt) : ~(j > new)
        BY <1>1, <1>2, <1>3
    <2>2. SegmentGet(Own(tt), k) = tt[new].ents[k]
        BY <2>1, <1>1, OwnGet
    <2> QED BY <2>2, <1>1, <1>3 DEF tt
<1>4. CASE ~(~s.imported /\ s.ents[k] # NoEntry)
    <2>1. ASSUME \A i \in OwnAt(ss) : ss[i].ents[k] = NoEntry
          PROVE  SegmentGet(Own(tt), k) = NoEntry
        <3>1. \A i \in OwnAt(tt) : tt[i].ents[k] = NoEntry
            BY <1>1, <1>2, <1>4, <2>1
        <3> QED BY <3>1, <1>1, OwnGet
    <2>2. ASSUME NEW i \in OwnAt(ss), ss[i].ents[k] # NoEntry,
                 \A j \in OwnAt(ss) : j > i => ss[j].ents[k] = NoEntry
          PROVE  SegmentGet(Own(tt), k) = ss[i].ents[k]
        <3>1. i \in OwnAt(tt) /\ tt[i] = ss[i]
            BY <1>2
        <3>2. \A j \in OwnAt(tt) : j > i => tt[j].ents[k] = NoEntry
            BY <1>1, <1>2, <1>4, <2>2
        <3>3. tt[i].ents[k] # NoEntry
            BY <3>1, <2>2
        <3>4. SegmentGet(Own(tt), k) = tt[i].ents[k]
            BY <3>1, <3>2, <3>3, <1>1, OwnGet
        <3> QED BY <3>1, <3>4
    <2>3. \/ /\ SegmentGet(Own(ss), k) = NoEntry
             /\ \A i \in OwnAt(ss) : ss[i].ents[k] = NoEntry
          \/ \E i \in OwnAt(ss) :
                /\ SegmentGet(Own(ss), k) = ss[i].ents[k] /\ ss[i].ents[k] # NoEntry
                /\ \A j \in OwnAt(ss) : j > i => ss[j].ents[k] = NoEntry
        BY OwnGet
    <2>4. SegmentGet(Own(tt), k) = SegmentGet(Own(ss), k)
        BY <2>1, <2>2, <2>3
    <2> QED BY <1>4, <2>4 DEF tt
<1> QED BY <1>3, <1>4

\* The merge takes an own segment's entry with the highest LSN.
LEMMA MergedFacts ==
    ASSUME NEW ss \in Seq(Segment), NEW k \in Keys
    PROVE  \/ /\ Merged(ss, k) = NoEntry
              /\ \A i \in OwnAt(ss) : ss[i].ents[k] = NoEntry
           \/ \E t \in OwnAt(ss) :
                 /\ Merged(ss, k) = ss[t].ents[k] /\ ss[t].ents[k] \in Entry
                 /\ \A j \in OwnAt(ss) :
                       ss[j].ents[k] # NoEntry => ss[j].ents[k].lsn <= ss[t].ents[k].lsn
<1> DEFINE hits == {i \in DOMAIN ss : ~ss[i].imported /\ ss[i].ents[k] # NoEntry}
           f == [i \in hits |-> ss[i].ents[k].lsn]
           L == {f[i] : i \in hits}
           top == {i \in hits : \A j \in hits : ss[j].ents[k].lsn <= ss[i].ents[k].lsn}
<1>1. DOMAIN ss = 1..Len(ss) /\ Len(ss) \in Nat /\ \A i \in DOMAIN ss : ss[i] \in Segment
    OBVIOUS
<1>2. /\ hits \in SUBSET (1..Len(ss)) /\ hits \in SUBSET Nat /\ IsFiniteSet(hits)
      /\ \A i : i \in hits <=> i \in OwnAt(ss) /\ ss[i].ents[k] # NoEntry
    <2>1. hits \in SUBSET (1..Len(ss)) /\ IsFiniteSet(1..Len(ss))
        BY <1>1, FS_Interval
    <2>2. IsFiniteSet(hits)
        BY <2>1, FS_Subset
    <2> QED BY <2>1, <2>2, <1>1 DEF OwnAt
<1>3. \A i \in hits : ss[i].ents[k] \in Entry /\ f[i] = ss[i].ents[k].lsn /\ f[i] \in Nat
    <2>1. \A i \in hits : ss[i].ents[k] \in Entry
        BY <1>1 DEF Segment, Entries
    <2> QED BY <2>1 DEF Entry
<1>4. Merged(ss, k) = IF hits = {} THEN NoEntry ELSE ss[Min(top)].ents[k]
    BY Zenon DEF Merged
<1>5. top \subseteq hits
    OBVIOUS
<1>6. CASE hits = {}
    BY <1>2, <1>4, <1>6
<1>7. CASE hits # {}
    <2>1. L \in SUBSET Nat /\ L # {} /\ IsFiniteSet(L)
        <3>1. IsFiniteSet(L)
            BY <1>2, FiniteImage
        <3>2. L # {}
            BY <1>7
        <3>3. L \in SUBSET Nat
            BY <1>3
        <3> QED BY <3>1, <3>2, <3>3
    <2> HIDE DEF f
    <2>2. Max(L) \in L /\ \A y \in L : y <= Max(L)
        BY <2>1, FiniteMax
    <2>3. PICK x \in hits : Max(L) = f[x]
        BY <2>2
    <2>4. \A j \in hits : f[j] <= f[x]
        BY <2>2, <2>3
    <2> HIDE DEF L
    <2>5. x \in top
        BY <2>4, <1>3
    <2> HIDE DEF hits
    <2>6. top \in SUBSET Nat /\ top # {}
        BY <2>5, <1>2, <1>5
    <2>7. Min(top) \in top
        BY <2>6, MinExists
    <2>8. /\ Min(top) \in hits
          /\ \A j \in hits : ss[j].ents[k].lsn <= ss[Min(top)].ents[k].lsn
        BY <2>7
    <2> HIDE DEF top
    <2> QED BY <2>8, <1>2, <1>3, <1>4, <1>7
<1> QED BY <1>6, <1>7

\* One key of a node whose LSN counter l was never lowered: the log w holds no entry
\* above the counter, and among the log and the own segments a later entry for the key
\* has a higher LSN, if it is not the same one.
Below(e, f) == e.lsn < f.lsn \/ e = f
InOrder(ss, w, l, k) ==
    /\ w[k] # NoEntry => w[k].lsn <= l
    /\ \A i \in OwnAt(ss) : ss[i].ents[k] # NoEntry =>
          /\ ss[i].ents[k].lsn <= l
          /\ w[k] # NoEntry => Below(ss[i].ents[k], w[k])
          /\ \A j \in OwnAt(ss) :
                j > i /\ ss[j].ents[k] # NoEntry => Below(ss[i].ents[k], ss[j].ents[k])

\* Then the highest LSN is that of the last own segment with the key.
LEMMA MergedIsLast ==
    ASSUME NEW ss \in Seq(Segment), NEW k \in Keys, NEW w, NEW l, InOrder(ss, w, l, k)
    PROVE  Merged(ss, k) = SegmentGet(Own(ss), k)
<1>1. \A i \in OwnAt(ss) : i \in Nat /\ ss[i].ents[k] \in Entry \cup {NoEntry}
    <2>1. \A i \in DOMAIN ss : i \in Nat /\ ss[i] \in Segment
        OBVIOUS
    <2> QED BY <2>1 DEF OwnAt, Segment, Entries
<1>2. CASE \A i \in OwnAt(ss) : ss[i].ents[k] = NoEntry
    <2>1. Merged(ss, k) = NoEntry
        BY <1>2, MergedFacts
    <2> QED BY <2>1, <1>2, OwnGet
<1>3. CASE ~ \A i \in OwnAt(ss) : ss[i].ents[k] = NoEntry
    <2>1. PICK t \in OwnAt(ss) :
             /\ Merged(ss, k) = ss[t].ents[k] /\ ss[t].ents[k] \in Entry
             /\ \A j \in OwnAt(ss) :
                   ss[j].ents[k] # NoEntry => ss[j].ents[k].lsn <= ss[t].ents[k].lsn
        BY <1>3, MergedFacts
    <2>2. PICK z \in OwnAt(ss) :
             /\ SegmentGet(Own(ss), k) = ss[z].ents[k] /\ ss[z].ents[k] # NoEntry
             /\ \A j \in OwnAt(ss) : j > z => ss[j].ents[k] = NoEntry
        BY <1>3, OwnGet
    <2>3. ss[t].ents[k] # NoEntry /\ ss[z].ents[k] \in Entry
        BY <2>1, <2>2, <1>1, ReplicationAssumption DEF Entry
    <2>4. ~(t > z)
        BY <2>2, <2>3
    <2>5. CASE t = z
        BY <2>1, <2>2, <2>5
    <2>6. CASE z > t
        <3>1. Below(ss[t].ents[k], ss[z].ents[k])
            BY <2>2, <2>3, <2>6 DEF InOrder
        <3>2. ss[z].ents[k].lsn <= ss[t].ents[k].lsn
            BY <2>1, <2>2
        <3>3. ss[z].ents[k].lsn \in Nat /\ ss[t].ents[k].lsn \in Nat
            BY <2>1, <2>3 DEF Entry
        <3> QED BY <3>1, <3>2, <3>3, <2>1, <2>2 DEF Below
    <2> QED BY <2>4, <2>5, <2>6, <1>1
<1> QED BY <1>2, <1>3

\* What a compaction leaves of one key: the merged entry if it is a put.
Survivor(ss, k) == IF Visible(Merged(ss, k)) # {} THEN Merged(ss, k) ELSE NoEntry

\* The segment list after a compaction: at most one segment, which holds the survivors.
LEMMA CompactedFacts ==
    ASSUME NEW ss \in Seq(Segment)
    PROVE  /\ Compacted(ss) \in Seq(Segment)
           /\ \A i \in DOMAIN Compacted(ss) :
                 /\ ~Compacted(ss)[i].imported /\ Live(Compacted(ss)[i].ents) # {}
                 /\ \A k \in Keys : Compacted(ss)[i].ents[k] = Survivor(ss, k)
           /\ \A k \in Keys : /\ SegmentGet(Compacted(ss), k) = Survivor(ss, k)
                              /\ SegmentGet(Own(Compacted(ss)), k) = Survivor(ss, k)
<1> DEFINE kept == [k \in Keys |-> Survivor(ss, k)]
           one == [ents |-> kept, imported |-> FALSE]
           cs == Compacted(ss)
<1>1. kept \in Entries /\ one \in Segment
    <2>1. \A k \in Keys : Survivor(ss, k) \in Entry \cup {NoEntry}
        <3> SUFFICES ASSUME NEW k \in Keys PROVE Survivor(ss, k) \in Entry \cup {NoEntry}
            OBVIOUS
        <3>1. Merged(ss, k) \in Entry \cup {NoEntry}
            BY MergedFacts
        <3> QED BY <3>1 DEF Survivor
    <2> QED BY <2>1 DEF Entries, Segment
<1>2. cs = IF Live(kept) = {} THEN <<>> ELSE <<one>>
    BY Zenon DEF Compacted, Survivor
<1>3. \A k \in Keys : kept[k] = Survivor(ss, k)
    OBVIOUS
<1> HIDE DEF kept, cs
<1>4. CASE Live(kept) = {}
    <2>1. cs = <<>> /\ DOMAIN cs = {}
        BY <1>2, <1>4
    <2>2. \A k \in Keys : Survivor(ss, k) = NoEntry
        BY <1>3, <1>4 DEF Live
    <2>3. cs \in Seq(Segment) /\ OwnAt(cs) = {}
        BY <2>1 DEF OwnAt
    <2>4. \A k \in Keys : SegmentGet(cs, k) = NoEntry /\ SegmentGet(Own(cs), k) = NoEntry
        BY <2>1, <2>3, HolderGet, OwnGet
    <2> QED BY <2>1, <2>2, <2>3, <2>4 DEF cs
<1>5. CASE Live(kept) # {}
    <2>1. cs = <<one>>
        BY <1>2, <1>5
    <2>2. cs \in Seq(Segment) /\ DOMAIN cs = {1} /\ cs[1] = one
        BY <2>1, <1>1
    <2>3. one.ents = kept /\ one.imported = FALSE
        OBVIOUS
    <2>4. 1 \in OwnAt(cs) /\ \A i \in OwnAt(cs) : i = 1
        BY <2>2, <2>3 DEF OwnAt
    <2>5. ASSUME NEW k \in Keys
          PROVE  SegmentGet(cs, k) = kept[k] /\ SegmentGet(Own(cs), k) = kept[k]
        <3>1. cs[1].ents[k] = kept[k]
            BY <2>2, <2>3
        <3>2. /\ \A i \in DOMAIN cs : i = 1 /\ ~(i > 1)
              /\ \A i \in OwnAt(cs) : i = 1 /\ ~(i > 1)
            BY <2>2, <2>4
        <3>3. CASE kept[k] = NoEntry
            BY <3>1, <3>2, <3>3, <2>2, <2>4, HolderGet, OwnGet
        <3>4. CASE kept[k] # NoEntry
            <4>1. SegmentGet(cs, k) = cs[1].ents[k]
                BY <3>1, <3>2, <3>4, <2>2, HolderGet
            <4>2. SegmentGet(Own(cs), k) = cs[1].ents[k]
                <5>1. /\ 1 \in OwnAt(cs) /\ cs[1].ents[k] # NoEntry
                      /\ \A j \in OwnAt(cs) : j > 1 => cs[j].ents[k] = NoEntry
                    BY <3>1, <3>2, <3>4, <2>4
                <5> QED BY <5>1, <2>2, OwnGet
            <4> QED BY <4>1, <4>2, <3>1
        <3> QED BY <3>3, <3>4
    <2>6. \A i \in DOMAIN cs :
             /\ ~cs[i].imported /\ Live(cs[i].ents) # {}
             /\ \A k \in Keys : cs[i].ents[k] = Survivor(ss, k)
        BY <2>2, <2>3, <1>3, <1>5
    <2> QED BY <2>2, <2>5, <2>6, <1>3 DEF cs
<1> QED BY <1>4, <1>5

AppliedTo(m, ss, h, S, last, base, m2, k) ==
    IF k \in S /\ Newer(h[k], Found(m, ss, k))
    THEN /\ h[k] \in Entry /\ m2[k] \in Entry /\ m2[k].op = h[k].op /\ m2[k].ts = h[k].ts
         /\ m2[k].lsn > last /\ m2[k].lsn <= last + Len(Winners(m, ss, h, S))
    ELSE m2[k] = base[k]

\* The records an import applies: op and time of the incoming entry with an LSN above the
\* last one, only where it wins.
LEMMA AppliedFacts ==
    ASSUME NEW m, NEW ss, NEW h \in Entries, NEW S \in SUBSET Keys, NEW last \in Nat,
           NEW base \in Entries
    PROVE  LET res == ApplyRecords(base, Winners(m, ss, h, S), h, last)
           IN  /\ res \in Entries
               /\ Len(Winners(m, ss, h, S)) \in Nat
               /\ \A k \in Keys : AppliedTo(m, ss, h, S, last, base, res, k)
<1> DEFINE T == {k \in S : Newer(h[k], Found(m, ss, k))}
           won == Winners(m, ss, h, S)
           res == ApplyRecords(base, won, h, last)
<1>1. IsFiniteSet(T)
    BY ReplicationAssumption, FS_Subset
<1>2. won = SetToSeq(T)
    BY DEF Winners
<1>3. won \in Seq(T) /\ Len(won) \in Nat /\ ToSet(won) = T
    BY <1>1, <1>2, SetToSeqFacts
<1>4. \A k \in Keys : res[k] = IF k \in T
                               THEN [h[k] EXCEPT !.lsn = last + (CHOOSE i \in DOMAIN won : won[i] = k)]
                               ELSE base[k]
    BY <1>3 DEF ApplyRecords
<1>5. \A k : k \in T <=> k \in S /\ Newer(h[k], Found(m, ss, k))
    OBVIOUS
<1>6. DOMAIN res = Keys /\ res = [k \in Keys |-> res[k]]
    BY DEF ApplyRecords
<1> HIDE DEF T, won, res
<1>7. ASSUME NEW k \in T, k \in Keys
      PROVE  /\ h[k] \in Entry /\ res[k] \in Entry
             /\ res[k].op = h[k].op /\ res[k].ts = h[k].ts
             /\ res[k].lsn > last /\ res[k].lsn <= last + Len(won)
    <2>1. h[k] \in Entry
        BY <1>5, <1>7 DEF Newer, Entries
    <2>2. \E i \in DOMAIN won : won[i] = k
        BY <1>3 DEF ToSet
    <2>3. PICK i \in DOMAIN won : i = (CHOOSE j \in DOMAIN won : won[j] = k)
        BY <2>2
    <2>4. last + i \in Nat /\ last + i > last /\ last + i <= last + Len(won)
        BY <1>3
    <2>5. res[k] = [h[k] EXCEPT !.lsn = last + i]
        BY <1>4, <1>7, <2>3
    <2> QED BY <2>1, <2>4, <2>5 DEF Entry
<1>8. \A k \in Keys : k \notin T => res[k] = base[k]
    BY <1>4
<1>9. res \in Entries
    <2>1. \A k \in Keys : res[k] \in Entry \cup {NoEntry}
        BY <1>7, <1>8 DEF Entries
    <2> QED BY <2>1, <1>6 DEF Entries
<1>10. \A k \in Keys : AppliedTo(m, ss, h, S, last, base, res, k)
    BY <1>5, <1>7, <1>8 DEF AppliedTo, won
<1> QED BY <1>3, <1>9, <1>10 DEF won, res

\* The memtable and the log get the same records.
LEMMA AppliedSame ==
    ASSUME NEW m \in Entries, NEW w \in Entries, NEW won, NEW h, NEW last, NEW k \in Keys,
           m[k] = NoEntry \/ m[k] = w[k]
    PROVE  \/ ApplyRecords(m, won, h, last)[k] = NoEntry
           \/ ApplyRecords(m, won, h, last)[k] = ApplyRecords(w, won, h, last)[k]
BY DEF ApplyRecords

\* The highest LSN of the log.
LEMMA LastLsnFacts ==
    ASSUME NEW w \in Entries
    PROVE  LastLsn(w) \in Nat /\ \A k \in Keys : w[k] # NoEntry => w[k].lsn <= LastLsn(w)
<1> DEFINE f == [k \in Live(w) |-> w[k].lsn]
           L == {f[k] : k \in Live(w)}
<1>1. \A k \in Keys : w[k] # NoEntry => k \in Live(w) /\ w[k].lsn \in Nat
    BY DEF Live, Entries, Entry
<1>2. L \in SUBSET Nat
    BY <1>1 DEF Live
<1>3. IsFiniteSet(L)
    <2>1. IsFiniteSet(Live(w))
        BY ReplicationAssumption, FS_Subset DEF Live
    <2> QED BY <2>1, FiniteImage
<1>4. LastLsn(w) = IF L = {} THEN 0 ELSE Max(L)
    BY DEF LastLsn
<1>5. \A k \in Keys : w[k] # NoEntry => w[k].lsn \in L
    BY <1>1
<1> HIDE DEF L
<1>6. CASE L = {}
    BY <1>4, <1>5, <1>6
<1>7. CASE L # {}
    <2>1. Max(L) \in L /\ Max(L) \in Nat /\ \A y \in L : y <= Max(L)
        BY <1>2, <1>3, <1>7, FiniteMax
    <2> QED BY <2>1, <1>4, <1>5, <1>7
<1> QED BY <1>6, <1>7

\* What an import compares with is what a get answers, or nothing in place of a segment
\* that cannot be read.
LEMMA FoundFacts ==
    ASSUME NEW m, NEW ss, NEW k
    PROVE  Found(m, ss, k) = Local(m, ss, k) \/ (m[k] = NoEntry /\ Found(m, ss, k) = NoEntry)
BY Zenon DEF Found

-----------------------------------------------------------------------------
(***************************************************************************)
(* One key of a node that is not confused: the entry that is read is the   *)
(* newest one of the node, the node's own segments have it too, and it is  *)
(* no older than a dropped tombstone; what the log has of the key is as    *)
(* new as all the node knows, so that a replay brings nothing older.       *)
(***************************************************************************)
Sound(m, ss, d, k) ==
    /\ \A i \in DOMAIN ss : Age(ss[i].ents[k]) <= Age(Local(m, ss, k))
    /\ Age(Local(m, ss, k)) <= Age(Local(m, Own(ss), k))
    /\ Local(m, ss, k) # NoEntry => d[k] <= Age(Local(m, ss, k))

KnownOf(m, ss, d, k) ==
    IF Age(Local(m, ss, k)) > d[k] THEN Age(Local(m, ss, k)) ELSE d[k]

Logged(m, ss, d, w, k) == w[k] # NoEntry => KnownOf(m, ss, d, k) <= Age(w[k])

\* What is known after a memtable changed: as much as before, or the new entry.
Moved(m, ss, d, m2, ss2, k) ==
    \/ m2[k] = m[k] /\ KnownOf(m2, ss2, d, k) = KnownOf(m, ss, d, k)
    \/ m2[k] \in Entry /\ KnownOf(m2, ss2, d, k) = Age(m2[k])

\* A newer entry in the memtable is read, and nothing else changes.
LEMMA SoundRaised ==
    ASSUME NEW m \in Entries, NEW ss \in Seq(Segment), NEW d \in [Keys -> Nat], NEW k \in Keys,
           Sound(m, ss, d, k), NEW m2 \in Entries,
           \/ m2[k] = m[k]
           \/ m2[k] \in Entry /\ m2[k].ts >= Age(Local(m, ss, k)) /\ m2[k].ts >= d[k]
    PROVE  /\ Sound(m2, ss, d, k)
           /\ KnownOf(m2, ss, d, k) >= KnownOf(m, ss, d, k)
           /\ m2[k] # m[k] => Local(m2, ss, k) = m2[k]
           /\ Moved(m, ss, d, m2, ss, k)
<1>1. /\ Local(m, ss, k) \in Entry \cup {NoEntry} /\ Age(Local(m, ss, k)) \in Nat /\ d[k] \in Nat
      /\ Local(m, Own(ss), k) \in Entry \cup {NoEntry} /\ Age(Local(m, Own(ss), k)) \in Nat
    BY GetType, AgeType, OwnGet
<1>2. \A i \in DOMAIN ss : Age(ss[i].ents[k]) \in Nat
    <2>1. \A i \in DOMAIN ss : ss[i] \in Segment
        OBVIOUS
    <2>2. \A i \in DOMAIN ss : ss[i].ents[k] \in Entry \cup {NoEntry}
        BY <2>1 DEF Segment, Entries
    <2> QED BY <2>2, AgeType
<1>3. CASE m2[k] = m[k]
    <2>1. Local(m2, ss, k) = Local(m, ss, k) /\ Local(m2, Own(ss), k) = Local(m, Own(ss), k)
        BY <1>3 DEF Local
    <2> QED BY <2>1, <1>1, <1>3 DEF Sound, KnownOf, Moved
<1>4. CASE m2[k] \in Entry /\ m2[k].ts >= Age(Local(m, ss, k)) /\ m2[k].ts >= d[k]
    <2>1. m2[k] # NoEntry /\ Age(m2[k]) = m2[k].ts /\ m2[k].ts \in Nat
        BY <1>4, ReplicationAssumption DEF Entry, Age
    <2>2. Local(m2, ss, k) = m2[k] /\ Local(m2, Own(ss), k) = m2[k]
        BY <2>1 DEF Local
    <2>3. \A i \in DOMAIN ss : Age(ss[i].ents[k]) <= m2[k].ts
        BY <2>1, <1>1, <1>2, <1>4 DEF Sound
    <2>4. Sound(m2, ss, d, k)
        BY <2>1, <2>2, <2>3, <1>4 DEF Sound
    <2>5. KnownOf(m2, ss, d, k) >= KnownOf(m, ss, d, k)
        BY <2>1, <2>2, <1>1, <1>4 DEF KnownOf
    <2>6. KnownOf(m2, ss, d, k) = Age(m2[k])
        BY <2>1, <2>2, <1>1, <1>4 DEF KnownOf
    <2> QED BY <2>2, <2>4, <2>5, <2>6, <1>4 DEF Moved
<1> QED BY <1>3, <1>4

\* A replay of the log brings nothing older than what is known.
LEMMA SoundReplayed ==
    ASSUME NEW m \in Entries, NEW ss \in Seq(Segment), NEW d \in [Keys -> Nat], NEW k \in Keys,
           Sound(m, ss, d, k), NEW w \in Entries, m[k] = NoEntry \/ m[k] = w[k],
           Logged(m, ss, d, w, k)
    PROVE  /\ Sound(w, ss, d, k)
           /\ KnownOf(w, ss, d, k) >= KnownOf(m, ss, d, k)
           /\ Logged(w, ss, d, w, k)
<1>1. /\ Local(m, ss, k) \in Entry \cup {NoEntry} /\ Age(Local(m, ss, k)) \in Nat /\ d[k] \in Nat
      /\ w[k] \in Entry \cup {NoEntry}
    BY GetType, AgeType DEF Entries
<1>2. CASE w[k] = NoEntry
    BY <1>2, SoundRaised DEF Logged
<1>3. CASE w[k] # NoEntry
    <2>1. w[k] \in Entry /\ Age(w[k]) = w[k].ts /\ w[k].ts \in Nat
        BY <1>1, <1>3 DEF Age, Entry
    <2>2. KnownOf(m, ss, d, k) <= w[k].ts
        BY <2>1, <1>3 DEF Logged
    <2>3. w[k].ts >= Age(Local(m, ss, k)) /\ w[k].ts >= d[k]
        BY <2>1, <2>2, <1>1 DEF KnownOf
    <2>4. Sound(w, ss, d, k) /\ KnownOf(w, ss, d, k) >= KnownOf(m, ss, d, k)
        BY <2>1, <2>3, SoundRaised
    <2>5. KnownOf(w, ss, d, k) = w[k].ts
        <3>1. Local(w, ss, k) = w[k]
            BY <1>3 DEF Local
        <3> QED BY <3>1, <2>1, <2>3, <1>1 DEF KnownOf
    <2> QED BY <2>1, <2>4, <2>5 DEF Logged
<1> QED BY <1>2, <1>3

\* A flush moves the memtable below an empty one.
LEMMA SoundFlushed ==
    ASSUME NEW m \in Entries, NEW ss \in Seq(Segment), NEW d \in [Keys -> Nat], NEW k \in Keys
    PROVE  LET tt == Append(ss, [ents |-> m, imported |-> FALSE])
           IN  /\ tt \in Seq(Segment)
               /\ Local(Empty, tt, k) = Local(m, ss, k)
               /\ Sound(m, ss, d, k) => Sound(Empty, tt, d, k)
               /\ KnownOf(Empty, tt, d, k) = KnownOf(m, ss, d, k)
<1> DEFINE s == [ents |-> m, imported |-> FALSE]
           tt == Append(ss, s)
<1>1. s \in Segment /\ s.ents = m /\ ~s.imported /\ Empty[k] = NoEntry
    BY DEF Segment, Empty
<1>2. /\ tt \in Seq(Segment) /\ Len(ss) \in Nat
      /\ \A i \in DOMAIN tt : (i \in DOMAIN ss /\ tt[i] = ss[i]) \/ tt[i] = s
    BY <1>1
<1>3. SegmentGet(tt, k) = IF s.ents[k] # NoEntry THEN s.ents[k] ELSE SegmentGet(ss, k)
    BY <1>1, AppendGet
<1>4. SegmentGet(Own(tt), k) =
          IF ~s.imported /\ s.ents[k] # NoEntry THEN s.ents[k] ELSE SegmentGet(Own(ss), k)
    BY <1>1, OwnAppend
<1> HIDE DEF s, tt
<1>5. Local(Empty, tt, k) = Local(m, ss, k) /\ Local(Empty, Own(tt), k) = Local(m, Own(ss), k)
    BY <1>1, <1>3, <1>4 DEF Local
<1>6. Age(m[k]) <= Age(Local(m, ss, k))
    <2>1. m[k] \in Entry \cup {NoEntry} /\ Local(m, ss, k) \in Entry \cup {NoEntry}
        BY GetType DEF Entries
    <2>2. Age(m[k]) \in Nat /\ Age(Local(m, ss, k)) \in Nat
        BY <2>1, AgeType
    <2>3. m[k] # NoEntry => Local(m, ss, k) = m[k]
        BY DEF Local
    <2>4. m[k] = NoEntry => Age(m[k]) = 0
        BY DEF Age
    <2> QED BY <2>2, <2>3, <2>4
<1>7. KnownOf(Empty, tt, d, k) = KnownOf(m, ss, d, k)
    BY <1>5 DEF KnownOf
<1>8. ASSUME Sound(m, ss, d, k) PROVE Sound(Empty, tt, d, k)
    <2>1. \A i \in DOMAIN tt : Age(tt[i].ents[k]) <= Age(Local(m, ss, k))
        BY <1>1, <1>2, <1>6, <1>8 DEF Sound
    <2> QED BY <2>1, <1>5, <1>8 DEF Sound
<1> QED BY <1>2, <1>5, <1>7, <1>8 DEF s, tt

HasDelete(ss, k) == \E i \in DOMAIN ss : ss[i].ents[k] # NoEntry /\ ss[i].ents[k].op = "Delete"

\* A compaction: a put that was read stays, and what goes with a tombstone is remembered
\* as dropped.
LEMMA SoundCompacted ==
    ASSUME NEW m \in Entries, NEW ss \in Seq(Segment), NEW d \in [Keys -> Nat], NEW k \in Keys,
           Sound(m, ss, d, k), NEW d2 \in [Keys -> Nat],
           d2[k] = IF HasDelete(ss, k) /\ Age(SegmentGet(ss, k)) > d[k]
                   THEN Age(SegmentGet(ss, k)) ELSE d[k],
           Merged(ss, k) = SegmentGet(Own(ss), k)
    PROVE  /\ Sound(m, Compacted(ss), d2, k)
           /\ KnownOf(m, Compacted(ss), d2, k) = KnownOf(m, ss, d, k)
<1> DEFINE cs == Compacted(ss)
           new == SegmentGet(Own(ss), k)
           old == SegmentGet(ss, k)
<1>1. /\ cs \in Seq(Segment)
      /\ \A i \in DOMAIN cs : cs[i].ents[k] = Survivor(ss, k)
      /\ SegmentGet(cs, k) = Survivor(ss, k) /\ SegmentGet(Own(cs), k) = Survivor(ss, k)
    BY CompactedFacts
<1>2. /\ Local(m, ss, k) \in Entry \cup {NoEntry} /\ Age(Local(m, ss, k)) \in Nat
      /\ d[k] \in Nat /\ d2[k] \in Nat
      /\ old \in Entry \cup {NoEntry} /\ Age(old) \in Nat
      /\ new \in Entry \cup {NoEntry} /\ Age(new) \in Nat
    BY GetType, AgeType, OwnGet
<1>3. new # NoEntry => \E i \in DOMAIN ss : ss[i].ents[k] = new
    <2>1. OwnAt(ss) \subseteq DOMAIN ss
        BY DEF OwnAt
    <2>2. new = NoEntry \/ \E i \in OwnAt(ss) : new = ss[i].ents[k]
        BY OwnGet
    <2> QED BY <2>1, <2>2
<1>4. old # NoEntry => \E i \in DOMAIN ss : ss[i].ents[k] = old
    BY LastHolder
<1>4a. HasDelete(ss, k) => old # NoEntry
    BY LastHolder DEF HasDelete
<1>5. Age(new) <= Age(Local(m, ss, k)) /\ Age(old) <= Age(Local(m, ss, k))
    BY <1>2, <1>3, <1>4 DEF Sound, Age
<1>6. Age(NoEntry) = 0
    BY DEF Age
<1>7. Survivor(ss, k) = new \/ Survivor(ss, k) = NoEntry
    BY DEF Survivor
<1>8. Local(m, cs, k) = Local(m, Own(cs), k) 
    BY <1>1 DEF Local
<1> HIDE DEF cs, new, old
<1>9. CASE m[k] # NoEntry
    <2>1. Local(m, cs, k) = m[k] /\ Local(m, ss, k) = m[k]
        BY <1>9 DEF Local
    <2>2. d2[k] >= d[k] /\ d2[k] <= Age(m[k])
        BY <2>1, <1>2, <1>5, <1>9 DEF Sound, old
    <2>3. \A i \in DOMAIN cs : Age(cs[i].ents[k]) <= Age(m[k])
        BY <1>1, <1>2, <1>5, <1>6, <1>7, <2>1
    <2>4. Sound(m, cs, d2, k)
        BY <2>1, <2>2, <2>3, <1>2, <1>8 DEF Sound
    <2>5. KnownOf(m, cs, d2, k) = KnownOf(m, ss, d, k)
        <3>1. d[k] <= Age(m[k]) /\ Age(m[k]) \in Nat
            BY <2>1, <1>2, <1>9 DEF Sound
        <3> QED BY <3>1, <2>1, <2>2, <1>2 DEF KnownOf
    <2> QED BY <2>4, <2>5 DEF cs
<1>10. CASE m[k] = NoEntry
    <2>1. /\ Local(m, ss, k) = old /\ Local(m, Own(ss), k) = new
          /\ Local(m, cs, k) = Survivor(ss, k)
        BY <1>1, <1>10 DEF Local, old, new
    <2>2. Age(old) <= Age(new) /\ (old # NoEntry => d[k] <= Age(old))
        BY <2>1 DEF Sound
    <2>3. Age(old) = Age(new)
        BY <2>1, <2>2, <1>2, <1>5
    <2>4. Survivor(ss, k) # NoEntry => Age(Survivor(ss, k)) = Age(old) /\ old # NoEntry
        <3>1. new # NoEntry => old # NoEntry
            <4>1. new # NoEntry => \E i \in DOMAIN ss : ss[i].ents[k] # NoEntry
                BY <1>3
            <4> QED BY <4>1, LastHolder DEF old
        <3> QED BY <3>1, <2>3, <1>7
    <2>5. d2[k] >= d[k] /\ (HasDelete(ss, k) => d2[k] >= Age(old))
        BY <1>2 DEF old
    <2>6. Survivor(ss, k) # NoEntry => d2[k] <= Age(old)
        BY <2>2, <2>4, <1>2 DEF old
    <2>7. Sound(m, cs, d2, k)
        <3>1. \A i \in DOMAIN cs : Age(cs[i].ents[k]) = Age(Local(m, cs, k))
            BY <2>1, <1>1
        <3>2. Age(Local(m, cs, k)) \in Nat
            BY <2>1, <1>2, <1>6, <1>7
        <3>3. Local(m, cs, k) # NoEntry => d2[k] <= Age(Local(m, cs, k))
            BY <2>1, <2>4, <2>6
        <3> QED BY <3>1, <3>2, <3>3, <1>8 DEF Sound
    <2>8. Age(Survivor(ss, k)) >= Age(old) \/ d2[k] >= Age(old)
        <3>1. CASE HasDelete(ss, k)
            BY <3>1, <2>5
        <3>2. CASE ~HasDelete(ss, k)
            <4>1. CASE new = NoEntry
                BY <4>1, <1>2, <1>6, <2>3
            <4>2. CASE new # NoEntry
                <5>1. PICK i \in DOMAIN ss : ss[i].ents[k] = new
                    BY <4>2, <1>3
                <5>2. new.op # "Delete"
                    BY <5>1, <4>2, <3>2 DEF HasDelete
                <5>3. Visible(new) # {}
                    BY <5>2, <4>2 DEF Visible
                <5>4. Survivor(ss, k) = new
                    BY <5>3 DEF Survivor, new
                <5> QED BY <5>4, <2>3, <1>2
            <4> QED BY <4>1, <4>2
        <3> QED BY <3>1, <3>2
    <2>9. KnownOf(m, cs, d2, k) = KnownOf(m, ss, d, k)
        <3>1. Age(Survivor(ss, k)) \in Nat /\ Age(Survivor(ss, k)) <= Age(old)
            BY <2>3, <1>2, <1>6, <1>7
        <3>2. d2[k] = d[k] \/ d2[k] = Age(old)
            BY DEF old
        <3> QED BY <3>1, <3>2, <2>1, <2>5, <2>8, <1>2 DEF KnownOf
    <2> QED BY <2>7, <2>9 DEF cs
<1> QED BY <1>9, <1>10

\* Applying records: last writer wins, unless the record is older than what the node knew.
LEMMA SoundApplied ==
    ASSUME NEW m \in Entries, NEW ss \in Seq(Segment), NEW d \in [Keys -> Nat], NEW k \in Keys,
           Sound(m, ss, d, k), NEW h \in Entries, NEW m2 \in Entries,
           \/ m2[k] = m[k]
           \/ /\ Newer(h[k], Found(m, ss, k)) /\ h[k] \in Entry /\ m2[k] \in Entry
              /\ m2[k].ts = h[k].ts
              /\ ~(m[k] = NoEntry /\ h[k] # NoEntry /\ Age(h[k]) < KnownOf(m, ss, d, k))
    PROVE  /\ Sound(m2, ss, d, k)
           /\ KnownOf(m2, ss, d, k) >= KnownOf(m, ss, d, k)
           /\ Moved(m, ss, d, m2, ss, k)
<1>1. CASE m2[k] = m[k]
    BY <1>1, SoundRaised
<1>2. CASE /\ Newer(h[k], Found(m, ss, k)) /\ h[k] \in Entry /\ m2[k] \in Entry
           /\ m2[k].ts = h[k].ts
           /\ ~(m[k] = NoEntry /\ h[k] # NoEntry /\ Age(h[k]) < KnownOf(m, ss, d, k))
    <2>1. /\ Local(m, ss, k) \in Entry \cup {NoEntry} /\ Age(Local(m, ss, k)) \in Nat
          /\ d[k] \in Nat
        BY GetType, AgeType
    <2>2. Age(h[k]) = h[k].ts /\ h[k].ts \in Nat /\ h[k] # NoEntry
        BY <1>2, ReplicationAssumption DEF Age, Entry
    <2>3. h[k].ts >= Age(Local(m, ss, k)) /\ h[k].ts >= d[k]
        <3>1. CASE m[k] = NoEntry
            <4>1. ~(h[k].ts < KnownOf(m, ss, d, k))
                BY <3>1, <1>2, <2>2
            <4> QED BY <4>1, <2>1, <2>2 DEF KnownOf
        <3>2. CASE m[k] # NoEntry
            <4>a. Local(m, ss, k) # NoEntry /\ Found(m, ss, k) = Local(m, ss, k)
                BY <3>2, FoundFacts DEF Local
            <4>1. Age(Local(m, ss, k)) = Local(m, ss, k).ts
                BY <4>a DEF Age
            <4>2. h[k].ts > Age(Local(m, ss, k))
                BY <1>2, <4>a, <4>1 DEF Newer
            <4>3. d[k] <= Age(Local(m, ss, k))
                BY <4>a DEF Sound
            <4> QED BY <4>2, <4>3, <2>1, <2>2
        <3> QED BY <3>1, <3>2
    <2>4. m2[k] \in Entry /\ m2[k].ts >= Age(Local(m, ss, k)) /\ m2[k].ts >= d[k]
        BY <2>3, <1>2
    <2> QED BY <2>4, SoundRaised
<1> QED BY <1>1, <1>2

\* Registering the imported segment after its records were applied.
LEMMA SoundRegistered ==
    ASSUME NEW m \in Entries, NEW ss \in Seq(Segment), NEW d \in [Keys -> Nat], NEW k \in Keys,
           Sound(m, ss, d, k), NEW h \in Entries, NEW m2 \in Entries,
           IF Newer(h[k], Found(m, ss, k))
           THEN h[k] \in Entry /\ m2[k] \in Entry /\ m2[k].ts = h[k].ts
           ELSE m2[k] = m[k],
           ~(m[k] = NoEntry /\ h[k] # NoEntry /\ Age(h[k]) < KnownOf(m, ss, d, k))
    PROVE  /\ Sound(m2, Register(ss, h), d, k)
           /\ KnownOf(m2, Register(ss, h), d, k) >= KnownOf(m, ss, d, k)
           /\ Age(h[k]) <= KnownOf(m2, Register(ss, h), d, k)
           /\ Moved(m, ss, d, m2, Register(ss, h), k)
<1> DEFINE s == [ents |-> h, imported |-> TRUE]
           tt == Register(ss, h)
<1>1. s \in Segment /\ s.ents = h /\ s.imported = TRUE
    BY DEF Segment
<1>2. /\ tt = Append(ss, s)
      /\ tt \in Seq(Segment) /\ Len(ss) \in Nat
      /\ \A i \in DOMAIN tt : (i \in DOMAIN ss /\ tt[i] = ss[i]) \/ tt[i] = s
    BY <1>1 DEF Register
<1>3. SegmentGet(tt, k) = IF h[k] # NoEntry THEN h[k] ELSE SegmentGet(ss, k)
    BY <1>1, <1>2, AppendGet
<1>4. SegmentGet(Own(tt), k) = SegmentGet(Own(ss), k)
    BY <1>1, <1>2, OwnAppend
<1> HIDE DEF s, tt
<1>5. /\ Sound(m2, ss, d, k) /\ KnownOf(m2, ss, d, k) >= KnownOf(m, ss, d, k)
      /\ Moved(m, ss, d, m2, ss, k)
    BY SoundApplied
<1>6. /\ Local(m, ss, k) \in Entry \cup {NoEntry} /\ Age(Local(m, ss, k)) \in Nat
      /\ Local(m2, ss, k) \in Entry \cup {NoEntry} /\ Age(Local(m2, ss, k)) \in Nat
      /\ h[k] \in Entry \cup {NoEntry} /\ Age(h[k]) \in Nat /\ d[k] \in Nat
      /\ KnownOf(m2, ss, d, k) \in Nat /\ KnownOf(m, ss, d, k) \in Nat
    <2>1. h[k] \in Entry \cup {NoEntry}
        BY DEF Entries
    <2>2. /\ Local(m, ss, k) \in Entry \cup {NoEntry} /\ Age(Local(m, ss, k)) \in Nat
          /\ Local(m2, ss, k) \in Entry \cup {NoEntry} /\ Age(Local(m2, ss, k)) \in Nat
        BY GetType, AgeType
    <2> QED BY <2>1, <2>2, AgeType DEF KnownOf
<1>7. Age(NoEntry) = 0
    BY DEF Age
<1>8. Local(m2, Own(tt), k) = Local(m2, Own(ss), k)
    BY <1>4 DEF Local
<1>9. Age(Local(m2, ss, k)) = Age(Local(m2, tt, k)) /\ Age(h[k]) <= Age(Local(m2, ss, k))
      /\ (Local(m2, tt, k) # NoEntry => Local(m2, ss, k) # NoEntry)
    <2>1. CASE Newer(h[k], Found(m, ss, k))
        <3>1. h[k] \in Entry /\ m2[k] \in Entry /\ m2[k].ts = h[k].ts
            BY <2>1
        <3>2. m2[k] # NoEntry /\ Age(m2[k]) = Age(h[k])
            BY <3>1, ReplicationAssumption DEF Age, Entry
        <3>3. Local(m2, ss, k) = m2[k] /\ Local(m2, tt, k) = m2[k]
            BY <3>2 DEF Local
        <3> QED BY <3>2, <3>3, <1>6
    <2>2. CASE ~Newer(h[k], Found(m, ss, k))
        <3>1. m2[k] = m[k] /\ Local(m2, ss, k) = Local(m, ss, k)
            BY <2>2 DEF Local
        <3>2. CASE h[k] = NoEntry
            <4>1. Local(m2, tt, k) = Local(m2, ss, k)
                BY <3>2, <1>3 DEF Local
            <4> QED BY <4>1, <3>2, <1>6, <1>7
        <3>3. CASE h[k] # NoEntry
            <4>a. Found(m, ss, k) # NoEntry /\ ~(h[k].ts > Found(m, ss, k).ts)
                BY <2>2, <3>3 DEF Newer
            <4>1. Local(m, ss, k) # NoEntry /\ ~(h[k].ts > Local(m, ss, k).ts)
                BY <4>a, FoundFacts
            <4>2. Age(h[k]) = h[k].ts /\ Age(Local(m, ss, k)) = Local(m, ss, k).ts
                BY <3>3, <4>1 DEF Age
            <4>3. Age(h[k]) <= Age(Local(m, ss, k))
                BY <4>1, <4>2, <1>6
            <4>4. CASE m[k] # NoEntry
                <5>1. Local(m2, tt, k) = m[k] /\ Local(m2, ss, k) = m[k]
                    BY <3>1, <4>4 DEF Local
                <5> QED BY <5>1, <3>1, <4>3
            <4>5. CASE m[k] = NoEntry
                <5>1. Local(m2, tt, k) = h[k]
                    BY <3>1, <3>3, <4>5, <1>3 DEF Local
                <5>2. ~(Age(h[k]) < KnownOf(m, ss, d, k))
                    BY <3>3, <4>5
                <5>3. Age(h[k]) >= Age(Local(m, ss, k))
                    BY <5>2, <1>6 DEF KnownOf
                <5> QED BY <5>1, <5>3, <3>1, <4>1, <4>3, <1>6
            <4> QED BY <4>4, <4>5
        <3> QED BY <3>2, <3>3
    <2> QED BY <2>1, <2>2
<1>10. Sound(m2, tt, d, k)
    <2>1. \A i \in DOMAIN tt : Age(tt[i].ents[k]) <= Age(Local(m2, tt, k))
        BY <1>1, <1>2, <1>5, <1>9 DEF Sound
    <2>2. Age(Local(m2, tt, k)) <= Age(Local(m2, Own(tt), k))
        BY <1>5, <1>8, <1>9 DEF Sound
    <2>3. Local(m2, tt, k) # NoEntry => d[k] <= Age(Local(m2, tt, k))
        BY <1>5, <1>9 DEF Sound
    <2> QED BY <2>1, <2>2, <2>3 DEF Sound
<1>11. KnownOf(m2, tt, d, k) = KnownOf(m2, ss, d, k)
    BY <1>9 DEF KnownOf
<1>12. Age(h[k]) <= KnownOf(m2, tt, d, k)
    BY <1>6, <1>9, <1>11 DEF KnownOf
<1> QED BY <1>5, <1>10, <1>11, <1>12 DEF tt, Moved

-----------------------------------------------------------------------------
(***************************************************************************)
(* The order of LSNs, and all that is kept of one key of a node that is    *)
(* not confused.                                                           *)
(***************************************************************************)
Trusted(m, w, ss, d, l, k) ==
    Sound(m, ss, d, k) /\ Logged(m, ss, d, w, k) /\ InOrder(ss, w, l, k)

\* Own entries have natural LSNs.
LEMMA OwnEntries ==
    ASSUME NEW ss \in Seq(Segment), NEW k \in Keys
    PROVE  \A i \in OwnAt(ss) : /\ i \in Nat /\ i \in DOMAIN ss
                                /\ ss[i].ents[k] # NoEntry => ss[i].ents[k].lsn \in Nat
<1>1. \A i \in DOMAIN ss : i \in Nat /\ ss[i] \in Segment
    OBVIOUS
<1>2. \A i \in DOMAIN ss : ss[i].ents[k] \in Entry \cup {NoEntry}
    BY <1>1 DEF Segment, Entries
<1> QED BY <1>1, <1>2 DEF OwnAt, Entry

\* A record that is logged gets an LSN above the counter.
LEMMA OrderRaised ==
    ASSUME NEW ss \in Seq(Segment), NEW w \in Entries, NEW l \in Nat, NEW k \in Keys,
           InOrder(ss, w, l, k), NEW w2, NEW l2 \in Nat, l <= l2,
           \/ w2[k] = w[k]
           \/ w2[k] \in Entry /\ w2[k].lsn > l /\ w2[k].lsn <= l2
    PROVE  InOrder(ss, w2, l2, k)
<1>1. w[k] # NoEntry => w[k].lsn \in Nat
    BY DEF Entries, Entry
<1>2. w2[k] # NoEntry => w2[k].lsn <= l2
    BY <1>1 DEF InOrder
<1>3. ASSUME NEW i \in OwnAt(ss), ss[i].ents[k] # NoEntry
      PROVE  /\ ss[i].ents[k].lsn <= l2
             /\ w2[k] # NoEntry => Below(ss[i].ents[k], w2[k])
    <2>1. ss[i].ents[k].lsn \in Nat /\ ss[i].ents[k].lsn <= l
        BY <1>3, OwnEntries DEF InOrder
    <2>2. CASE w2[k] = w[k]
        BY <2>1, <2>2, <1>3 DEF InOrder
    <2>3. CASE w2[k] \in Entry /\ w2[k].lsn > l
        <3>1. w2[k].lsn \in Nat
            BY <2>3 DEF Entry
        <3> QED BY <3>1, <2>1, <2>3 DEF Below
    <2> QED BY <2>2, <2>3
<1> QED BY <1>2, <1>3 DEF InOrder

\* An imported segment is not merged.
LEMMA OrderRegistered ==
    ASSUME NEW ss \in Seq(Segment), NEW h \in Entries, NEW w, NEW l, NEW k \in Keys,
           InOrder(ss, w, l, k)
    PROVE  InOrder(Register(ss, h), w, l, k)
<1> DEFINE tt == Register(ss, h)
<1>1. /\ \A i \in DOMAIN tt : (i \in DOMAIN ss /\ tt[i] = ss[i]) \/ tt[i].imported
      /\ \A i \in DOMAIN ss : i \in DOMAIN tt /\ tt[i] = ss[i]
    <2>1. [ents |-> h, imported |-> TRUE] \in Segment
        BY DEF Segment
    <2> QED BY <2>1 DEF Register
<1> HIDE DEF tt
<1>2. OwnAt(tt) = OwnAt(ss) /\ \A i \in OwnAt(ss) : tt[i] = ss[i]
    BY <1>1 DEF OwnAt
<1> QED BY <1>2 DEF InOrder, tt

\* A flush registers entries that are the log's.
LEMMA OrderFlushed ==
    ASSUME NEW ss \in Seq(Segment), NEW m \in Entries, NEW w \in Entries, NEW l \in Nat,
           NEW k \in Keys, InOrder(ss, w, l, k), m[k] = NoEntry \/ m[k] = w[k],
           NEW w2, w2[k] = w[k] \/ w2[k] = NoEntry
    PROVE  InOrder(Append(ss, [ents |-> m, imported |-> FALSE]), w2, l, k)
<1> DEFINE s == [ents |-> m, imported |-> FALSE]
           tt == Append(ss, s)
<1>1. s \in Segment /\ s.ents = m
    BY DEF Segment
<1>2. /\ \A i \in DOMAIN tt : (i \in DOMAIN ss /\ tt[i] = ss[i]) \/ (i = Len(ss) + 1 /\ tt[i] = s)
      /\ Len(ss) \in Nat /\ DOMAIN ss = 1..Len(ss)
    BY <1>1
<1> HIDE DEF s, tt
<1>3. \A i \in OwnAt(tt) : (i \in OwnAt(ss) /\ tt[i] = ss[i]) \/ (i = Len(ss) + 1 /\ tt[i] = s)
    BY <1>2 DEF OwnAt
<1>4. \A i \in OwnAt(ss) : ~(i > Len(ss) + 1) /\ i # Len(ss) + 1
    BY <1>2 DEF OwnAt
<1>5. w2[k] # NoEntry => w2[k] = w[k] /\ w2[k].lsn <= l
    BY DEF InOrder
<1>6. ASSUME NEW i \in OwnAt(tt), tt[i].ents[k] # NoEntry
      PROVE  /\ tt[i].ents[k].lsn <= l
             /\ w2[k] # NoEntry => Below(tt[i].ents[k], w2[k])
             /\ \A j \in OwnAt(tt) :
                   j > i /\ tt[j].ents[k] # NoEntry => Below(tt[i].ents[k], tt[j].ents[k])
    <2>1. CASE i = Len(ss) + 1 /\ tt[i] = s
        <3>1. tt[i].ents[k] = w[k] /\ w[k] # NoEntry
            BY <2>1, <1>1, <1>6
        <3>2. \A j \in OwnAt(tt) : ~(j > i)
            BY <2>1, <1>2, <1>3, <1>4
        <3> QED BY <3>1, <3>2, <1>5 DEF InOrder, Below
    <2>2. CASE i \in OwnAt(ss) /\ tt[i] = ss[i]
        <3>1. /\ ss[i].ents[k].lsn <= l
              /\ w[k] # NoEntry => Below(ss[i].ents[k], w[k])
              /\ \A j \in OwnAt(ss) :
                    j > i /\ ss[j].ents[k] # NoEntry => Below(ss[i].ents[k], ss[j].ents[k])
            BY <2>2, <1>6 DEF InOrder
        <3>2. ASSUME NEW j \in OwnAt(tt), j > i, tt[j].ents[k] # NoEntry
              PROVE  Below(tt[i].ents[k], tt[j].ents[k])
            <4>1. CASE j \in OwnAt(ss) /\ tt[j] = ss[j]
                BY <4>1, <3>1, <3>2, <2>2
            <4>2. CASE tt[j] = s
                <5>1. tt[j].ents[k] = w[k] /\ w[k] # NoEntry
                    BY <4>2, <3>2, <1>1
                <5> QED BY <5>1, <3>1, <2>2
            <4> QED BY <4>1, <4>2, <1>3
        <3> QED BY <3>1, <3>2, <2>2, <1>5
    <2> QED BY <2>1, <2>2, <1>3
<1> QED BY <1>5, <1>6 DEF InOrder, tt, s

\* A compaction leaves one own segment with entries that were there.
LEMMA OrderCompacted ==
    ASSUME NEW ss \in Seq(Segment), NEW w, NEW l, NEW k \in Keys, InOrder(ss, w, l, k)
    PROVE  InOrder(Compacted(ss), w, l, k)
<1> DEFINE cs == Compacted(ss)
<1>1. /\ cs \in Seq(Segment) /\ \A i \in DOMAIN cs : cs[i].ents[k] = Survivor(ss, k)
    BY CompactedFacts
<1>2. \A i \in OwnAt(cs) : cs[i].ents[k] = Survivor(ss, k)
    BY <1>1 DEF OwnAt
<1> HIDE DEF cs
<1>3. Survivor(ss, k) # NoEntry => \E t \in OwnAt(ss) : Survivor(ss, k) = ss[t].ents[k]
    BY MergedFacts DEF Survivor
<1>4. Survivor(ss, k) # NoEntry =>
          /\ Survivor(ss, k).lsn <= l
          /\ w[k] # NoEntry => Below(Survivor(ss, k), w[k])
    BY <1>3 DEF InOrder
<1> QED BY <1>2, <1>4 DEF InOrder, Below, cs

\* What is logged stays as new as what is known when a record is applied to both.
LEMMA LoggedMoved ==
    ASSUME NEW m, NEW ss, NEW d, NEW w, NEW k \in Keys, NEW m2, NEW ss2, NEW w2,
           Logged(m, ss, d, w, k), m[k] = NoEntry \/ m[k] = w[k],
           Moved(m, ss, d, m2, ss2, k),
           \/ m2[k] = m[k] /\ w2[k] = w[k]
           \/ m2[k] \in Entry /\ m2[k] = w2[k]
    PROVE  Logged(m2, ss2, d, w2, k)
<1>1. \A e \in Entry : e # NoEntry /\ Age(e) \in Nat
    BY ReplicationAssumption DEF Entry, Age
<1>2. CASE m2[k] = m[k] /\ KnownOf(m2, ss2, d, k) = KnownOf(m, ss, d, k)
    <2>1. w2[k] = w[k]
        BY <1>1, <1>2
    <2> QED BY <2>1, <1>2 DEF Logged
<1>3. CASE m2[k] \in Entry /\ KnownOf(m2, ss2, d, k) = Age(m2[k])
    <2>1. w2[k] = m2[k]
        BY <1>1, <1>3
    <2> QED BY <2>1, <1>1, <1>3 DEF Logged
<1> QED BY <1>2, <1>3 DEF Moved

\* A write.
LEMMA TrustedWritten ==
    ASSUME NEW m \in Entries, NEW w \in Entries, NEW ss \in Seq(Segment), NEW d \in [Keys -> Nat],
           NEW l \in Nat, NEW k \in Keys, Trusted(m, w, ss, d, l, k), m[k] = NoEntry \/ m[k] = w[k],
           NEW e \in Entry, e.ts >= Age(Local(m, ss, k)), e.ts >= d[k], e.lsn = l + 1,
           NEW m2 \in Entries, NEW w2 \in Entries,
           \/ m2[k] = m[k] /\ w2[k] = w[k]
           \/ m2[k] = e /\ w2[k] = e
    PROVE  /\ Trusted(m2, w2, ss, d, l + 1, k)
           /\ KnownOf(m2, ss, d, k) >= KnownOf(m, ss, d, k)
<1>1. Sound(m, ss, d, k) /\ Logged(m, ss, d, w, k) /\ InOrder(ss, w, l, k)
    BY DEF Trusted
<1>2. /\ Sound(m2, ss, d, k) /\ KnownOf(m2, ss, d, k) >= KnownOf(m, ss, d, k)
      /\ Moved(m, ss, d, m2, ss, k)
    BY <1>1, SoundRaised
<1>3. Logged(m2, ss, d, w2, k)
    BY <1>1, <1>2, LoggedMoved
<1>4. InOrder(ss, w2, l + 1, k)
    BY <1>1, OrderRaised
<1> QED BY <1>2, <1>3, <1>4 DEF Trusted

\* A flush.
LEMMA TrustedFlushed ==
    ASSUME NEW m \in Entries, NEW w \in Entries, NEW ss \in Seq(Segment), NEW d \in [Keys -> Nat],
           NEW l \in Nat, NEW k \in Keys, Trusted(m, w, ss, d, l, k), m[k] = NoEntry \/ m[k] = w[k],
           NEW w2, w2[k] = w[k] \/ w2[k] = NoEntry
    PROVE  LET tt == Append(ss, [ents |-> m, imported |-> FALSE])
           IN  /\ Trusted(Empty, w2, tt, d, l, k)
               /\ KnownOf(Empty, tt, d, k) = KnownOf(m, ss, d, k)
<1> DEFINE tt == Append(ss, [ents |-> m, imported |-> FALSE])
<1>1. Sound(m, ss, d, k) /\ Logged(m, ss, d, w, k) /\ InOrder(ss, w, l, k)
    BY DEF Trusted
<1>2. InOrder(tt, w2, l, k)
    BY <1>1, OrderFlushed
<1>3. Sound(Empty, tt, d, k) /\ KnownOf(Empty, tt, d, k) = KnownOf(m, ss, d, k)
    BY <1>1, SoundFlushed
<1> HIDE DEF tt
<1>4. Logged(Empty, tt, d, w2, k)
    BY <1>1, <1>3 DEF Logged
<1> QED BY <1>2, <1>3, <1>4 DEF Trusted, tt

\* A compaction.
LEMMA TrustedCompacted ==
    ASSUME NEW m \in Entries, NEW w \in Entries, NEW ss \in Seq(Segment), NEW d \in [Keys -> Nat],
           NEW l \in Nat, NEW k \in Keys, Trusted(m, w, ss, d, l, k), NEW d2 \in [Keys -> Nat],
           d2[k] = IF HasDelete(ss, k) /\ Age(SegmentGet(ss, k)) > d[k]
                   THEN Age(SegmentGet(ss, k)) ELSE d[k]
    PROVE  /\ Trusted(m, w, Compacted(ss), d2, l, k)
           /\ KnownOf(m, Compacted(ss), d2, k) = KnownOf(m, ss, d, k)
<1>1. Sound(m, ss, d, k) /\ Logged(m, ss, d, w, k) /\ InOrder(ss, w, l, k)
    BY DEF Trusted
<1>2. Merged(ss, k) = SegmentGet(Own(ss), k)
    BY <1>1, MergedIsLast
<1>3. /\ Sound(m, Compacted(ss), d2, k)
      /\ KnownOf(m, Compacted(ss), d2, k) = KnownOf(m, ss, d, k)
    BY <1>1, <1>2, SoundCompacted
<1>4. InOrder(Compacted(ss), w, l, k)
    BY <1>1, OrderCompacted
<1> QED BY <1>1, <1>3, <1>4 DEF Trusted, Logged

\* The records of an import, and the segment after them.
LEMMA TrustedApplied ==
    ASSUME NEW m \in Entries, NEW w \in Entries, NEW ss \in Seq(Segment), NEW d \in [Keys -> Nat],
           NEW l \in Nat, NEW k \in Keys, Trusted(m, w, ss, d, l, k), m[k] = NoEntry \/ m[k] = w[k],
           NEW h \in Entries, NEW m2 \in Entries, NEW w2 \in Entries, NEW l2 \in Nat, l <= l2,
           IF Newer(h[k], Found(m, ss, k))
           THEN /\ h[k] \in Entry /\ m2[k] \in Entry /\ m2[k].ts = h[k].ts /\ w2[k] = m2[k]
                /\ w2[k].lsn > l /\ w2[k].lsn <= l2
           ELSE m2[k] = m[k] /\ w2[k] = w[k],
           ~(m[k] = NoEntry /\ h[k] # NoEntry /\ Age(h[k]) < KnownOf(m, ss, d, k))
    PROVE  /\ Trusted(m2, w2, Register(ss, h), d, l2, k)
           /\ KnownOf(m2, Register(ss, h), d, k) >= KnownOf(m, ss, d, k)
           /\ Age(h[k]) <= KnownOf(m2, Register(ss, h), d, k)
<1>1. Sound(m, ss, d, k) /\ Logged(m, ss, d, w, k) /\ InOrder(ss, w, l, k)
    BY DEF Trusted
<1>2. /\ Sound(m2, Register(ss, h), d, k)
      /\ KnownOf(m2, Register(ss, h), d, k) >= KnownOf(m, ss, d, k)
      /\ Age(h[k]) <= KnownOf(m2, Register(ss, h), d, k)
      /\ Moved(m, ss, d, m2, Register(ss, h), k)
    BY <1>1, SoundRegistered
<1>3. Logged(m2, Register(ss, h), d, w2, k)
    BY <1>1, <1>2, LoggedMoved
<1>4. InOrder(ss, w2, l2, k)
    BY <1>1, OrderRaised
<1>5. InOrder(Register(ss, h), w2, l2, k)
    BY <1>4, OrderRegistered
<1> QED BY <1>2, <1>3, <1>5 DEF Trusted

\* A reopening that does not lower the counter, after some records were logged.
LEMMA TrustedReplayed ==
    ASSUME NEW m \in Entries, NEW w \in Entries, NEW ss \in Seq(Segment), NEW d \in [Keys -> Nat],
           NEW l \in Nat, NEW k \in Keys, Trusted(m, w, ss, d, l, k), m[k] = NoEntry \/ m[k] = w[k],
           NEW h \in Entries, NEW m2 \in Entries, NEW w2 \in Entries, NEW l2 \in Nat, l <= l2,
           w2[k] # NoEntry => w2[k].lsn <= l2,
           \/ m2[k] = m[k] /\ w2[k] = w[k]
           \/ /\ Newer(h[k], Found(m, ss, k)) /\ h[k] \in Entry /\ m2[k] \in Entry
              /\ m2[k].ts = h[k].ts /\ w2[k] = m2[k] /\ w2[k].lsn > l
              /\ ~(m[k] = NoEntry /\ h[k] # NoEntry /\ Age(h[k]) < KnownOf(m, ss, d, k))
    PROVE  /\ Trusted(w2, w2, ss, d, l2, k)
           /\ KnownOf(w2, ss, d, k) >= KnownOf(m, ss, d, k)
<1>1. Sound(m, ss, d, k) /\ Logged(m, ss, d, w, k) /\ InOrder(ss, w, l, k)
    BY DEF Trusted
<1>2. /\ Sound(m2, ss, d, k) /\ KnownOf(m2, ss, d, k) >= KnownOf(m, ss, d, k)
      /\ Moved(m, ss, d, m2, ss, k)
    BY <1>1, SoundApplied
<1>3. Logged(m2, ss, d, w2, k)
    BY <1>1, <1>2, LoggedMoved
<1>4. InOrder(ss, w2, l2, k)
    <2>1. \A e \in Entry : e # NoEntry
        BY ReplicationAssumption DEF Entry
    <2> QED BY <2>1, <1>1, OrderRaised
<1>5. m2[k] = NoEntry \/ m2[k] = w2[k]
    OBVIOUS
<1>6. /\ Sound(w2, ss, d, k) /\ Logged(w2, ss, d, w2, k)
      /\ KnownOf(w2, ss, d, k) >= KnownOf(m2, ss, d, k)
    BY <1>2, <1>3, <1>5, SoundReplayed
<1>7. KnownOf(w2, ss, d, k) >= KnownOf(m, ss, d, k)
    <2>1. \A x \in Entries : KnownOf(x, ss, d, k) \in Nat
        BY GetType, AgeType DEF KnownOf
    <2> QED BY <2>1, <1>2, <1>6
<1> QED BY <1>4, <1>6, <1>7 DEF Trusted

-----------------------------------------------------------------------------
(***************************************************************************)
(* Types, roles and the rounds of the loop.                                *)
(***************************************************************************)
Fields == {"pc", "peer_root", "todo", "data"}

LoopOK(l) ==
    /\ DOMAIN l = Fields
    /\ l.todo \in Seq(Entries)
    /\ \A i \in DOMAIN l.todo : Live(l.todo[i]) # {}
    /\ l.pc \in {"import", "record"} => l.todo # <<>>

\* What is in a memtable is in the log.
Mirrors(m, w) == \A k \in Keys : m[k] = NoEntry \/ m[k] = w[k]

Types ==
    /\ role \in [Nodes -> {"primary", "replica"}]
    /\ mem \in [Nodes -> Entries] /\ wal \in [Nodes -> Entries]
    /\ \A n \in Nodes : Mirrors(mem[n], wal[n])
    /\ segs \in [Nodes -> Seq(Segment)] /\ lsn \in [Nodes -> Nat] /\ clock \in Nat
    /\ DOMAIN loop = Nodes /\ DOMAIN pending = Nodes
    /\ wtoken \in [Nodes -> Nat] /\ wfile \in [Nodes -> Nat] /\ tokens \in Seq(Nat)
    /\ dropped \in [Nodes -> [Keys -> Nat]] /\ hidden \in [Nodes -> BOOLEAN]
    /\ rewound \in [Nodes -> BOOLEAN]

\* A round imports from a nonempty list of segments with records.
RoundsOK == \A n \in Nodes : LoopOK(loop[n])

\* No segment is without records.
SegmentsLive == \A n \in Nodes : \A i \in DOMAIN segs[n] : Live(segs[n][i].ents) # {}

\* At most one node writes, it pulls from nobody, and WTOKEN holds the token in memory.
RolesOK ==
    /\ \A n, o \in Nodes : role[n] = "primary" /\ role[o] = "primary" => n = o
    /\ \A n \in Nodes : role[n] = "primary" => loop[n] = IdleLoop
    /\ wtoken = wfile

\* The idle loop is well formed.
LEMMA IdleOK == LoopOK(IdleLoop) /\ IdleLoop.pc = "idle"
<1>1. IdleLoop.todo = <<>> /\ IdleLoop.pc = "idle" /\ <<>> \in Seq(Entries) /\ DOMAIN <<>> = {}
    BY DEF IdleLoop
<1> QED BY <1>1 DEF LoopOK, IdleLoop, Fields

\* The records Goto builds from an earlier one.
LEMMA LoopFields ==
    ASSUME NEW l, DOMAIN l = Fields, NEW p, NEW t, NEW d
    PROVE  /\ LET x == [l EXCEPT !.pc = p, !.todo = t]
              IN  DOMAIN x = Fields /\ x.pc = p /\ x.todo = t
           /\ LET x == [l EXCEPT !.pc = p, !.data = d]
              IN  DOMAIN x = Fields /\ x.pc = p /\ x.todo = l.todo /\ x.data = d
           /\ LET x == [l EXCEPT !.todo = t]
              IN  DOMAIN x = Fields /\ x.pc = l.pc /\ x.todo = t
           /\ LET x == [l EXCEPT !.pc = p, !.todo = t, !.data = d]
              IN  DOMAIN x = Fields /\ x.pc = p /\ x.todo = t
BY DEF Fields

\* A segment the peer offers is one of its segments.
LEMMA MissingFacts ==
    ASSUME NEW peer \in Seq(Segment), NEW own
    PROVE  /\ MissingSegments(peer, own) \in Seq(Entries)
           /\ \A i \in DOMAIN MissingSegments(peer, own) :
                 \E j \in DOMAIN peer : MissingSegments(peer, own)[i] = peer[j].ents
<1> DEFINE s == [i \in DOMAIN peer |-> peer[i].ents]
           I == {i \in DOMAIN peer : peer[i].ents \notin Hashes(own)}
<1>1. DOMAIN peer = 1..Len(peer) /\ Len(peer) \in Nat /\ \A i \in DOMAIN peer : peer[i] \in Segment
    OBVIOUS
<1>2. \A i \in DOMAIN peer : peer[i].ents \in Entries
    BY <1>1 DEF Segment
<1>3. s \in Seq(Entries) /\ DOMAIN s = DOMAIN peer /\ \A i \in DOMAIN peer : s[i] = peer[i].ents
    BY <1>1, <1>2
<1>4. I \in SUBSET (DOMAIN s)
    BY <1>3
<1>5. MissingSegments(peer, own) = Retain(s, I)
    BY Zenon DEF MissingSegments
<1> HIDE DEF s, I
<1>6. /\ Retain(s, I) \in Seq(Entries)
      /\ \A x \in DOMAIN Retain(s, I) : Nth(I, x) \in I /\ Retain(s, I)[x] = s[Nth(I, x)]
    BY <1>3, <1>4, RetainFacts
<1> QED BY <1>3, <1>4, <1>5, <1>6

\* What is on the loop's list after a step was on it, or is a segment of a node.
Offered(h) ==
    \/ \E n \in Nodes : \E i \in DOMAIN loop[n].todo : loop[n].todo[i] = h
    \/ \E n \in Nodes : \E i \in DOMAIN segs[n] : segs[n][i].ents = h

\* The tail of a list.
LEMMA TailFacts ==
    ASSUME NEW t \in Seq(Entries), t # <<>>
    PROVE  /\ Tail(t) \in Seq(Entries) /\ Head(t) = t[1] /\ 1 \in DOMAIN t /\ Head(t) \in Entries
           /\ \A i \in DOMAIN Tail(t) : i + 1 \in DOMAIN t /\ Tail(t)[i] = t[i + 1]
<1>1. Len(t) \in Nat /\ Len(t) > 0 /\ DOMAIN t = 1..Len(t)
    OBVIOUS
<1>2. Tail(t) \in Seq(Entries) /\ DOMAIN Tail(t) = 1..(Len(t) - 1) /\ Head(t) = t[1]
      /\ \A i \in 1..(Len(t) - 1) : Tail(t)[i] = t[i + 1]
    BY <1>1
<1> QED BY <1>1, <1>2

\* A step of the loop goes on with a list of segments that were offered.
LEMMA PullSteps ==
    ASSUME Types, RoundsOK, SegmentsLive, NEW n \in Nodes,
           \/ compare(n) \/ give_up(n) \/ fetch_corrupt(n) \/ fetch_failed(n)
           \/ import_segment(n) \/ record_outcome(n) \/ finish_round(n)
           \/ restart(n) \/ crash_in_promote(n)
           \/ \E S \in SUBSET Keys : crash_in_import(n, S)
           \/ \E p \in Nodes : probe(n, p) \/ list_missing(n, p) \/ fetch_ok(n, p)
           \/ \E p \in Nodes, reached \in BOOLEAN : promote_to_primary(n, p, reached)
    PROVE  /\ LoopOK(loop'[n])
           /\ \A i \in DOMAIN loop'[n].todo : Offered(loop'[n].todo[i])
           /\ DOMAIN loop' = Nodes /\ \A o \in Nodes : o # n => loop'[o] = loop[o]
           /\ loop'[n].pc = "record" => import_segment(n)
<1> DEFINE l == loop[n]
           OK(x) == LoopOK(x) /\ \A i \in DOMAIN x.todo : Offered(x.todo[i])
<1>0. /\ DOMAIN loop = Nodes /\ LoopOK(l) /\ DOMAIN l = Fields
      /\ segs \in [Nodes -> Seq(Segment)]
      /\ l.todo \in Seq(Entries) /\ \A i \in DOMAIN l.todo : Live(l.todo[i]) # {}
      /\ l.pc \in {"import", "record"} => l.todo # <<>>
    BY DEF Types, RoundsOK, LoopOK
<1>1. ASSUME NEW x, Goto(n, x), OK(x), x.pc = "record" => import_segment(n)
      PROVE  /\ LoopOK(loop'[n])
             /\ \A i \in DOMAIN loop'[n].todo : Offered(loop'[n].todo[i])
             /\ DOMAIN loop' = Nodes /\ \A o \in Nodes : o # n => loop'[o] = loop[o]
             /\ loop'[n].pc = "record" => import_segment(n)
    <2>1. loop'[n] = x /\ DOMAIN loop' = Nodes /\ \A o \in Nodes : o # n => loop'[o] = loop[o]
        BY <1>0, <1>1 DEF Goto
    <2> QED BY <2>1, <1>1
<1>2. OK(IdleLoop) /\ IdleLoop.pc # "record"
    BY IdleOK DEF IdleLoop
<1>3. OK(l)
    BY <1>0 DEF Offered
<1>4. l.todo # <<>> => /\ Tail(l.todo) \in Seq(Entries)
                       /\ \A i \in DOMAIN Tail(l.todo) :
                             Live(Tail(l.todo)[i]) # {} /\ Offered(Tail(l.todo)[i])
    BY <1>0, <1>3, TailFacts
<1>5. ASSUME NEW r \in {"compare", "list"}, NEW y
      PROVE  /\ OK([IdleLoop EXCEPT !.pc = r]) /\ OK([IdleLoop EXCEPT !.pc = r, !.peer_root = y])
             /\ [IdleLoop EXCEPT !.pc = r].pc # "record"
             /\ [IdleLoop EXCEPT !.pc = r, !.peer_root = y].pc # "record"
    <2>1. IdleLoop.todo = <<>> /\ <<>> \in Seq(Entries) /\ DOMAIN <<>> = {}
        BY DEF IdleLoop
    <2>2. /\ LET x == [IdleLoop EXCEPT !.pc = r]
             IN  DOMAIN x = Fields /\ x.pc = r /\ x.todo = <<>>
          /\ LET x == [IdleLoop EXCEPT !.pc = r, !.peer_root = y]
             IN  DOMAIN x = Fields /\ x.pc = r /\ x.todo = <<>>
        BY DEF IdleLoop, Fields
    <2> QED BY <2>1, <2>2 DEF LoopOK
<1> HIDE DEF l
<1>6. ASSUME compare(n) \/ give_up(n) \/ finish_round(n) \/ restart(n) \/ crash_in_promote(n)
      PROVE  \E x : Goto(n, x) /\ OK(x) /\ x.pc # "record"
    BY <1>6, <1>2, <1>5 DEF compare, give_up, finish_round, restart, crash_in_promote
<1>7. ASSUME \/ \E S \in SUBSET Keys : crash_in_import(n, S)
             \/ \E p \in Nodes, reached \in BOOLEAN : promote_to_primary(n, p, reached)
      PROVE  Goto(n, IdleLoop)
    BY <1>7 DEF crash_in_import, promote_to_primary
<1>8. ASSUME NEW p \in Nodes, probe(n, p)
      PROVE  \E x : Goto(n, x) /\ OK(x) /\ x.pc # "record"
    BY <1>8, <1>5 DEF probe
<1>9. ASSUME NEW p \in Nodes, list_missing(n, p)
      PROVE  \E x : Goto(n, x) /\ OK(x) /\ x.pc # "record"
    <2> DEFINE t == MissingSegments(segs[p], segs[n])
               x == [l EXCEPT !.pc = "pull", !.todo = t]
    <2>1. Goto(n, x)
        BY <1>9 DEF list_missing, l
    <2>2. segs[p] \in Seq(Segment)
        BY <1>0
    <2>3. t \in Seq(Entries) /\ \A i \in DOMAIN t : \E j \in DOMAIN segs[p] : t[i] = segs[p][j].ents
        BY <2>2, MissingFacts
    <2>4. \A i \in DOMAIN t : Live(t[i]) # {} /\ Offered(t[i])
        BY <2>3 DEF SegmentsLive, Offered
    <2> HIDE DEF t
    <2>5. DOMAIN x = Fields /\ x.pc = "pull" /\ x.todo = t
        BY <1>0, LoopFields
    <2>6. OK(x) /\ x.pc # "record"
        BY <2>3, <2>4, <2>5 DEF LoopOK
    <2> QED BY <2>1, <2>6
<1>10. ASSUME \/ fetch_corrupt(n) \/ \E p \in Nodes : fetch_ok(n, p)
       PROVE  \E x : Goto(n, x) /\ OK(x) /\ x.pc # "record"
    <2>1. PICK d : Goto(n, [l EXCEPT !.pc = "import", !.data = d]) /\ l.todo # <<>>
        BY <1>10 DEF fetch_corrupt, fetch_ok, l
    <2> DEFINE x == [l EXCEPT !.pc = "import", !.data = d]
    <2>2. DOMAIN x = Fields /\ x.pc = "import" /\ x.todo = l.todo
        BY <1>0, LoopFields
    <2>3. OK(x) /\ x.pc # "record"
        BY <2>1, <2>2, <1>0, <1>3 DEF LoopOK
    <2> QED BY <2>1, <2>3
<1>11. ASSUME fetch_failed(n)
       PROVE  \E x : Goto(n, x) /\ OK(x) /\ x.pc # "record"
    <2> DEFINE t == Tail(l.todo)
               x == [l EXCEPT !.todo = t]
    <2>1. Goto(n, x) /\ l.todo # <<>> /\ l.pc = "pull"
        BY <1>11 DEF fetch_failed, At, l
    <2>2. DOMAIN x = Fields /\ x.pc = l.pc /\ x.todo = t
        BY <1>0, LoopFields
    <2>3. OK(x) /\ x.pc # "record"
        BY <2>1, <2>2, <1>4 DEF LoopOK
    <2> QED BY <2>1, <2>3
<1>12. ASSUME record_outcome(n)
       PROVE  \E x : Goto(n, x) /\ OK(x) /\ x.pc # "record"
    <2> DEFINE t == Tail(l.todo)
               x == [l EXCEPT !.pc = "pull", !.todo = t, !.data = Corrupt]
    <2>1. Goto(n, x) /\ l.pc = "record"
        BY <1>12 DEF record_outcome, At, l
    <2>2. t \in Seq(Entries) /\ \A i \in DOMAIN t : Live(t[i]) # {} /\ Offered(t[i])
        BY <2>1, <1>0, <1>4
    <2> HIDE DEF t
    <2>3. DOMAIN x = Fields /\ x.pc = "pull" /\ x.todo = t
        BY <1>0, LoopFields
    <2>4. OK(x) /\ x.pc # "record"
        BY <2>2, <2>3 DEF LoopOK
    <2> QED BY <2>1, <2>4
<1>13. ASSUME import_segment(n)
       PROVE  \E x : Goto(n, x) /\ OK(x)
    <2> DEFINE d == Outcome(n)
               x == [l EXCEPT !.pc = "record", !.data = d]
    <2>1. Goto(n, x) /\ l.pc = "import"
        BY <1>13 DEF import_segment, At, l
    <2> HIDE DEF d
    <2>2. DOMAIN x = Fields /\ x.pc = "record" /\ x.todo = l.todo
        BY <1>0, LoopFields
    <2>3. OK(x)
        BY <2>1, <2>2, <1>0, <1>3 DEF LoopOK
    <2> QED BY <2>1, <2>3
<1> HIDE DEF OK
<1>14. \E x : Goto(n, x) /\ OK(x) /\ (x.pc = "record" => import_segment(n))
    BY <1>2, <1>6, <1>7, <1>8, <1>9, <1>10, <1>11, <1>12, <1>13
<1> QED BY <1>1, <1>14 DEF OK

dataVars == <<mem, wal, segs, lsn, clock, dropped, hidden, rewound, unheard>>
Flush(n) == \E cut \in 0..lsn[n] : flush_to_segments(n, cut)

Apply(n) == import_segment(n) /\ Outcome(n) = "Applied"
Pull(n) ==
    \/ compare(n) \/ give_up(n) \/ fetch_corrupt(n) \/ fetch_failed(n)
    \/ import_segment(n) /\ Outcome(n) # "Applied"
    \/ record_outcome(n) \/ finish_round(n)
    \/ \E p \in Nodes : probe(n, p) \/ list_missing(n, p) \/ fetch_ok(n, p)
Fail(n) ==
    \/ restart(n) \/ crash_in_promote(n)
    \/ \E p \in Nodes, reached \in BOOLEAN : promote_to_primary(n, p, reached)

\* The steps, by what they change of the stored data.
LEMMA StepKinds ==
    ASSUME [Next]_vars
    PROVE  \/ UNCHANGED vars
           \/ \E n \in Nodes :
                \/ \E k \in Keys, op \in Ops : write(n, k, op)
                \/ Flush(n) \/ compact_once(n)
                \/ Apply(n) \/ \E S \in SUBSET Keys : crash_in_import(n, S)
                \/ Pull(n) \/ Fail(n)
BY Zenon DEF Next, Apply, Pull, Fail, Flush

\* Pulling changes no data, role or token, and only a replica pulls.
LEMMA PullFrame ==
    ASSUME NEW n \in Nodes, Pull(n)
    PROVE  UNCHANGED <<dataVars, role, tokenVars, spent>> /\ role[n] = "replica"
BY DEF Pull, compare, give_up, fetch_corrupt, fetch_failed, import_segment, record_outcome,
       finish_round, probe, list_missing, fetch_ok, At, nodeVars, auxVars, dataVars

\* A kill outside an import and a promotion change nothing on disk but tokens and roles.
LEMMA FailFrame ==
    ASSUME NEW n \in Nodes, Fail(n)
    PROVE  /\ UNCHANGED <<wal, segs, clock, dropped, hidden, unheard>>
           /\ \E R \in SUBSET Nodes : Reopen(R)
BY DEF Fail, restart, crash_in_promote, promote_to_primary

\* A node that is opened again has what its log has.
LEMMA ReopenEffect ==
    ASSUME Types, NEW R \in SUBSET Nodes, Reopen(R), wal' \in [Nodes -> Entries]
    PROVE  /\ mem' \in [Nodes -> Entries] /\ lsn' \in [Nodes -> Nat]
           /\ rewound' \in [Nodes -> BOOLEAN]
           /\ \A o \in Nodes :
                 /\ ~rewound'[o] => ~rewound[o]
                 /\ \/ mem'[o] = mem[o] /\ lsn'[o] = lsn[o] /\ o \notin R
                    \/ /\ mem'[o] = wal'[o] /\ lsn'[o] = LastLsn(wal'[o])
                       /\ ~rewound'[o] => lsn[o] <= lsn'[o]
<1>1. \A o \in Nodes : LastLsn(wal'[o]) \in Nat
    BY LastLsnFacts
<1>2. mem \in [Nodes -> Entries] /\ lsn \in [Nodes -> Nat] /\ rewound \in [Nodes -> BOOLEAN]
    BY DEF Types
<1>3. /\ mem' = [n \in Nodes |-> IF n \in R THEN wal'[n] ELSE mem[n]]
      /\ lsn' = [n \in Nodes |-> IF n \in R THEN LastLsn(wal'[n]) ELSE lsn[n]]
      /\ rewound' = [n \in Nodes |-> rewound[n] \/ (n \in R /\ LastLsn(wal'[n]) < lsn[n])]
    BY DEF Reopen
<1>4. mem' \in [Nodes -> Entries]
    BY <1>2, <1>3
<1>5. lsn' \in [Nodes -> Nat]
    BY <1>1, <1>2, <1>3
<1>6. rewound' \in [Nodes -> BOOLEAN]
    BY <1>3
<1>7. ASSUME NEW o \in Nodes
      PROVE  /\ ~rewound'[o] => ~rewound[o]
             /\ \/ mem'[o] = mem[o] /\ lsn'[o] = lsn[o] /\ o \notin R
                \/ /\ mem'[o] = wal'[o] /\ lsn'[o] = LastLsn(wal'[o])
                   /\ ~rewound'[o] => lsn[o] <= lsn'[o]
    <2>1. rewound'[o] = (rewound[o] \/ (o \in R /\ LastLsn(wal'[o]) < lsn[o]))
        BY <1>3, Zenon
    <2>2. ~rewound'[o] => ~rewound[o] /\ (o \in R => ~(LastLsn(wal'[o]) < lsn[o]))
        BY <2>1
    <2>3. lsn[o] \in Nat /\ LastLsn(wal'[o]) \in Nat
        BY <1>1, <1>2
    <2>4. o \in R => mem'[o] = wal'[o] /\ lsn'[o] = LastLsn(wal'[o])
        BY <1>3
    <2>5. o \notin R => mem'[o] = mem[o] /\ lsn'[o] = lsn[o]
        BY <1>3
    <2> QED BY <2>2, <2>3, <2>4, <2>5
<1> QED BY <1>4, <1>5, <1>6, <1>7

\* The log after a flush has the entries of the files that were kept.
LEMMA FlushEffect ==
    ASSUME Types, NEW n \in Nodes, Flush(n)
    PROVE  /\ Live(mem[n]) # {}
           /\ segs' = [segs EXCEPT ![n] = Append(segs[n], [ents |-> mem[n], imported |-> FALSE])]
           /\ mem' = [mem EXCEPT ![n] = Empty]
           /\ \E w \in Entries : /\ wal' = [wal EXCEPT ![n] = w]
                                 /\ \A k \in Keys : w[k] = wal[n][k] \/ w[k] = NoEntry
           /\ UNCHANGED <<role, lsn, clock, pullVars, tokenVars, auxVars, spent>>
<1>1. PICK cut \in 0..lsn[n] : flush_to_segments(n, cut)
    BY DEF Flush
<1> DEFINE w == [k \in Keys |-> IF wal[n][k] # NoEntry /\ wal[n][k].lsn > cut
                                THEN wal[n][k] ELSE NoEntry]
<1>2. wal' = [wal EXCEPT ![n] = w]
    BY <1>1 DEF flush_to_segments
<1>3. wal[n] \in Entries
    BY DEF Types
<1>4. w \in Entries /\ \A k \in Keys : w[k] = wal[n][k] \/ w[k] = NoEntry
    BY <1>3 DEF Entries
<1> HIDE DEF w
<1> QED BY <1>1, <1>2, <1>4 DEF flush_to_segments

\* The loop of a node after any step.
LEMMA LoopSteps ==
    ASSUME Types, RoundsOK, SegmentsLive, [Next]_vars
    PROVE  /\ RoundsOK' /\ DOMAIN loop' = Nodes
           /\ \A n \in Nodes : \A i \in DOMAIN loop'[n].todo : Offered(loop'[n].todo[i])
           /\ \A n \in Nodes : loop'[n].pc = "record" => import_segment(n) \/ loop'[n] = loop[n]
<1> USE DEF RoundsOK
<1>0. DOMAIN loop = Nodes
    BY DEF Types
<1>1. CASE loop' = loop
    BY <1>0, <1>1 DEF Offered
<1>2. ASSUME NEW n \in Nodes,
             \/ Apply(n) \/ (\E S \in SUBSET Keys : crash_in_import(n, S))
             \/ Pull(n) \/ Fail(n)
      PROVE  /\ RoundsOK' /\ DOMAIN loop' = Nodes
             /\ \A o \in Nodes : \A i \in DOMAIN loop'[o].todo : Offered(loop'[o].todo[i])
             /\ \A o \in Nodes : loop'[o].pc = "record" => import_segment(o) \/ loop'[o] = loop[o]
    <2>1. /\ LoopOK(loop'[n])
          /\ \A i \in DOMAIN loop'[n].todo : Offered(loop'[n].todo[i])
          /\ DOMAIN loop' = Nodes /\ \A o \in Nodes : o # n => loop'[o] = loop[o]
          /\ loop'[n].pc = "record" => import_segment(n)
        BY <1>2, PullSteps, Zenon DEF Apply, Pull, Fail
    <2>2. \A o \in Nodes : \A i \in DOMAIN loop[o].todo : Offered(loop[o].todo[i])
        BY DEF Offered
    <2> QED BY <2>1, <2>2
<1>3. ASSUME NEW n \in Nodes,
             \/ \E k \in Keys, op \in Ops : write(n, k, op)
             \/ Flush(n) \/ compact_once(n)
      PROVE  loop' = loop
    BY <1>3 DEF write, Flush, flush_to_segments, compact_once, pullVars
<1>4. UNCHANGED vars => loop' = loop
    BY DEF vars, pullVars
<1> QED BY <1>1, <1>2, <1>3, <1>4, StepKinds

\* The segment an import applies.
LEMMA AppliedSegment ==
    ASSUME Types, RoundsOK, NEW n \in Nodes, loop[n].pc \in {"import", "record"}
    PROVE  /\ loop[n].todo # <<>> /\ loop[n].todo \in Seq(Entries)
           /\ Head(loop[n].todo) \in Entries /\ Live(Head(loop[n].todo)) # {}
           /\ Head(loop[n].todo) = loop[n].todo[1] /\ 1 \in DOMAIN loop[n].todo
<1>1. loop[n].todo \in Seq(Entries) /\ loop[n].todo # <<>>
      /\ \A i \in DOMAIN loop[n].todo : Live(loop[n].todo[i]) # {}
    BY DEF RoundsOK, LoopOK
<1> QED BY <1>1, TailFacts

won(n, S) == Winners(mem[n], segs[n], Head(loop[n].todo), S)

\* The data of a node after an import, and nothing else.
LEMMA ApplyEffect ==
    ASSUME Types, RoundsOK, NEW n \in Nodes, Apply(n)
    PROVE  LET h == Head(loop[n].todo)
           IN  /\ h \in Entries /\ Live(h) # {} /\ role[n] = "replica"
               /\ mem' = [mem EXCEPT ![n] = ApplyRecords(mem[n], won(n, Keys), h, lsn[n])]
               /\ wal' = [wal EXCEPT ![n] = ApplyRecords(wal[n], won(n, Keys), h, lsn[n])]
               /\ lsn' = [lsn EXCEPT ![n] = lsn[n] + Len(won(n, Keys))]
               /\ segs' = [segs EXCEPT ![n] = Register(segs[n], h)]
               /\ hidden' = [hidden EXCEPT ![n] = hidden[n] \/ Hides(n, h)]
               /\ UNCHANGED <<role, clock, tokenVars, dropped, rewound, unheard>>
BY AppliedSegment DEF Apply, import_segment, At, won

\* The data of a node killed in an import, and nothing else.
LEMMA CrashEffect ==
    ASSUME Types, RoundsOK, NEW n \in Nodes, NEW S \in SUBSET Keys, crash_in_import(n, S)
    PROVE  LET h == Head(loop[n].todo)
               part == [k \in Keys |-> IF k \in S THEN h[k] ELSE NoEntry]
           IN  /\ h \in Entries /\ Live(h) # {} /\ role[n] = "replica"
               /\ wal' = [wal EXCEPT ![n] = ApplyRecords(wal[n], won(n, S), h, lsn[n])]
               /\ wal' \in [Nodes -> Entries]
               /\ Reopen({n}) /\ \A o \in Nodes : o # n => mem'[o] = mem[o] /\ lsn'[o] = lsn[o]
               /\ \A o \in Nodes : o # n => rewound'[o] = rewound[o]
               /\ hidden' = [hidden EXCEPT ![n] = hidden[n] \/ Hides(n, part)]
               /\ wtoken' = [wtoken EXCEPT ![n] = wfile[n]]
               /\ UNCHANGED <<role, segs, clock, wfile, tokens, blind, dropped, unheard>>
<1> DEFINE h == Head(loop[n].todo)
           part == [k \in Keys |-> IF k \in S THEN h[k] ELSE NoEntry]
<1>1. h \in Entries /\ Live(h) # {} /\ role[n] = "replica"
    BY AppliedSegment DEF crash_in_import, At
<1>2. /\ wal' = [wal EXCEPT ![n] = ApplyRecords(wal[n], won(n, S), h, lsn[n])]
      /\ hidden' = [hidden EXCEPT ![n] = hidden[n] \/ Hides(n, part)]
      /\ wtoken' = [wtoken EXCEPT ![n] = wfile[n]]
      /\ Reopen({n})
      /\ UNCHANGED <<role, segs, clock, wfile, tokens, blind, dropped, unheard>>
    BY DEF crash_in_import, won
<1>3. wal \in [Nodes -> Entries] /\ wal[n] \in Entries /\ lsn[n] \in Nat
      /\ rewound \in [Nodes -> BOOLEAN]
    BY DEF Types
<1>4. wal' \in [Nodes -> Entries]
    <2>1. ApplyRecords(wal[n], won(n, S), h, lsn[n]) \in Entries
        BY <1>1, <1>3, AppliedFacts DEF won
    <2> HIDE DEF h
    <2> QED BY <2>1, <1>2, <1>3
<1>5. \A o \in Nodes : o # n => mem'[o] = mem[o] /\ lsn'[o] = lsn[o] /\ rewound'[o] = rewound[o]
    <2> SUFFICES ASSUME NEW o \in Nodes, o # n
                 PROVE  mem'[o] = mem[o] /\ lsn'[o] = lsn[o] /\ rewound'[o] = rewound[o]
        OBVIOUS
    <2>1. mem'[o] = mem[o] /\ lsn'[o] = lsn[o]
        BY <1>2 DEF Reopen
    <2>2. rewound'[o] = (rewound[o] \/ (o \in {n} /\ LastLsn(wal'[o]) < lsn[o]))
        BY <1>2, Zenon DEF Reopen
    <2>3. o \notin {n}
        OBVIOUS
    <2>4. rewound'[o] = (rewound[o] \/ FALSE)
        BY <2>2, <2>3, Zenon
    <2>5. rewound[o] \in BOOLEAN
        BY <1>3
    <2> QED BY <2>1, <2>4, <2>5
<1> HIDE DEF h, part
<1> QED BY <1>1, <1>2, <1>4, <1>5 DEF h, part

gone(n) == {k \in Keys : HasDelete(segs[n], k)}
Dropped(n) == [k \in Keys |-> IF k \in gone(n) /\ Age(SegmentGet(segs[n], k)) > dropped[n][k]
                              THEN Age(SegmentGet(segs[n], k)) ELSE dropped[n][k]]

\* What a compaction does to the data.
LEMMA CompactEffect ==
    ASSUME Types, NEW n \in Nodes, compact_once(n)
    PROVE  /\ segs' = [segs EXCEPT ![n] = Compacted(segs[n])]
           /\ dropped' = [dropped EXCEPT ![n] = Dropped(n)] /\ Dropped(n) \in [Keys -> Nat]
           /\ unheard' = (unheard \/ \E k \in gone(n), o \in Nodes :
                                       Known(o, k) < Age(SegmentGet(segs[n], k)))
           /\ UNCHANGED <<role, mem, wal, lsn, clock, pullVars, tokenVars, hidden, rewound>>
<1>1. segs' = [segs EXCEPT ![n] = Compacted(segs[n])]
      /\ UNCHANGED <<role, mem, wal, lsn, clock, pullVars, tokenVars, hidden, rewound>>
    BY DEF compact_once
<1>2. dropped' = [dropped EXCEPT ![n] = Dropped(n)]
    BY DEF compact_once, Dropped, gone, HasDelete
<1>3. unheard' = (unheard \/ \E k \in gone(n), o \in Nodes :
                               Known(o, k) < Age(SegmentGet(segs[n], k)))
    BY Zenon DEF compact_once, gone, HasDelete
<1>4. Dropped(n) \in [Keys -> Nat]
    <2>1. segs[n] \in Seq(Segment) /\ dropped[n] \in [Keys -> Nat] /\ mem[n] \in Entries
        BY DEF Types
    <2>2. \A k \in Keys : Age(SegmentGet(segs[n], k)) \in Nat
        BY <2>1, GetType, AgeType
    <2> QED BY <2>1, <2>2 DEF Dropped
<1> QED BY <1>1, <1>2, <1>3, <1>4

Wrote(n, k, op, e) ==
    /\ mem' = [mem EXCEPT ![n] = [mem[n] EXCEPT ![k] = e]]
    /\ wal' = [wal EXCEPT ![n] = [wal[n] EXCEPT ![k] = e]]
    /\ e.ts = clock + 1 /\ e.op = op /\ e.lsn = lsn[n] + 1
    /\ [mem[n] EXCEPT ![k] = e] \in Entries /\ [wal[n] EXCEPT ![k] = e] \in Entries
    /\ clock' = clock + 1 /\ lsn' = [lsn EXCEPT ![n] = lsn[n] + 1]
    /\ role[n] = "primary"
    /\ UNCHANGED <<role, segs, pullVars, tokenVars, auxVars>>

\* A write puts a new entry into the memtable and the log.
LEMMA WriteEffect ==
    ASSUME Types, NEW n \in Nodes, NEW k \in Keys, NEW op \in Ops, write(n, k, op)
    PROVE  \E e \in Entry : Wrote(n, k, op, e)
<1> DEFINE e == [op |-> op, ts |-> clock + 1, lsn |-> lsn[n] + 1]
<1>1. /\ clock \in Nat /\ lsn \in [Nodes -> Nat] /\ lsn[n] \in Nat
      /\ mem \in [Nodes -> Entries] /\ wal \in [Nodes -> Entries]
    BY DEF Types
<1>2. clock' = clock + 1 /\ lsn' = [lsn EXCEPT ![n] = lsn[n] + 1] /\ lsn'[n] = lsn[n] + 1
      /\ role[n] = "primary" /\ UNCHANGED <<role, segs, pullVars, tokenVars, auxVars>>
    BY <1>1 DEF write
<1>3. e \in Entry /\ e.ts = clock + 1 /\ e.op = op /\ e.lsn = lsn[n] + 1
    <2>1. op \in {"Put", "PutOversized", "Delete"}
        BY ReplicationAssumption
    <2> QED BY <2>1, <1>1 DEF Entry
<1>4. /\ mem' = [mem EXCEPT ![n][k] = [op |-> op, ts |-> clock', lsn |-> lsn'[n]]]
      /\ wal' = [wal EXCEPT ![n][k] = [op |-> op, ts |-> clock', lsn |-> lsn'[n]]]
    BY DEF write
<1>5. mem' = [mem EXCEPT ![n][k] = e] /\ wal' = [wal EXCEPT ![n][k] = e]
    BY <1>2, <1>4
<1> HIDE DEF e
<1>6. /\ mem' = [mem EXCEPT ![n] = [mem[n] EXCEPT ![k] = e]]
      /\ wal' = [wal EXCEPT ![n] = [wal[n] EXCEPT ![k] = e]]
    BY <1>5
<1>7. mem[n] \in Entries /\ wal[n] \in Entries
    BY <1>1
<1>8. [mem[n] EXCEPT ![k] = e] \in Entries /\ [wal[n] EXCEPT ![k] = e] \in Entries
    BY <1>3, <1>7 DEF Entries
<1> QED BY <1>2, <1>3, <1>6, <1>8 DEF Wrote

\* Every step keeps the types.
LEMMA TypesStep ==
    ASSUME Types, RoundsOK, SegmentsLive, [Next]_vars
    PROVE  Types'
<1>0. DOMAIN loop' = Nodes
    BY LoopSteps
<1>1. ASSUME UNCHANGED vars PROVE Types'
    BY <1>0, <1>1 DEF Types, vars, nodeVars, pullVars, tokenVars, auxVars
<1>2. ASSUME NEW n \in Nodes, NEW k \in Keys, NEW op \in Ops, write(n, k, op)
      PROVE  Types'
    <2>1. PICK e \in Entry : Wrote(n, k, op, e)
        BY <1>2, WriteEffect
    <2>2. mem \in [Nodes -> Entries] /\ wal \in [Nodes -> Entries]
          /\ \A o \in Nodes : Mirrors(mem[o], wal[o])
        BY DEF Types
    <2>3. \A o \in Nodes : Mirrors(mem'[o], wal'[o])
        <3>1. Mirrors([mem[n] EXCEPT ![k] = e], [wal[n] EXCEPT ![k] = e])
            BY <2>2 DEF Mirrors, Entries
        <3> QED BY <3>1, <2>1, <2>2 DEF Wrote
    <2>4. /\ mem' = [mem EXCEPT ![n] = [mem[n] EXCEPT ![k] = e]]
          /\ wal' = [wal EXCEPT ![n] = [wal[n] EXCEPT ![k] = e]]
          /\ [mem[n] EXCEPT ![k] = e] \in Entries /\ [wal[n] EXCEPT ![k] = e] \in Entries
        BY <2>1 DEF Wrote
    <2>5. mem' \in [Nodes -> Entries] /\ wal' \in [Nodes -> Entries]
        BY <2>2, <2>4
    <2>6. clock' \in Nat /\ lsn' \in [Nodes -> Nat]
        BY <2>1 DEF Types, Wrote
    <2>7. UNCHANGED <<role, segs, pending, wtoken, wfile, tokens, dropped, hidden, rewound>>
        BY <2>1 DEF Wrote, pullVars, tokenVars, auxVars
    <2> QED BY <2>3, <2>5, <2>6, <2>7, <1>0 DEF Types
<1>3. ASSUME NEW n \in Nodes, Flush(n) PROVE Types'
    <2>1. Append(segs[n], [ents |-> mem[n], imported |-> FALSE]) \in Seq(Segment)
        <3>1. mem[n] \in Entries /\ segs[n] \in Seq(Segment)
            BY DEF Types
        <3>2. [ents |-> mem[n], imported |-> FALSE] \in Segment
            BY <3>1 DEF Segment
        <3> QED BY <3>1, <3>2
    <2>2. Empty \in Entries
        BY DEF Empty, Entries
    <2>3. PICK w \in Entries :
             /\ segs' = [segs EXCEPT ![n] = Append(segs[n], [ents |-> mem[n], imported |-> FALSE])]
             /\ mem' = [mem EXCEPT ![n] = Empty] /\ wal' = [wal EXCEPT ![n] = w]
             /\ UNCHANGED <<role, lsn, clock, pullVars, tokenVars, auxVars, spent>>
        BY <1>3, FlushEffect
    <2>4. mem \in [Nodes -> Entries] /\ wal \in [Nodes -> Entries]
          /\ \A o \in Nodes : Mirrors(mem[o], wal[o])
        BY DEF Types
    <2>5. \A o \in Nodes : Mirrors(mem'[o], wal'[o])
        <3>1. Mirrors(Empty, w)
            BY DEF Mirrors, Empty
        <3> QED BY <3>1, <2>3, <2>4
    <2> QED BY <2>1, <2>2, <2>3, <2>5, <1>0 DEF Types, pullVars, tokenVars, auxVars
<1>4. ASSUME NEW n \in Nodes, compact_once(n) PROVE Types'
    <2>1. Compacted(segs[n]) \in Seq(Segment)
        BY CompactedFacts DEF Types
    <2>2. /\ segs' = [segs EXCEPT ![n] = Compacted(segs[n])]
          /\ dropped' = [dropped EXCEPT ![n] = Dropped(n)] /\ Dropped(n) \in [Keys -> Nat]
          /\ UNCHANGED <<role, mem, wal, lsn, clock, pullVars, tokenVars, hidden, rewound>>
        BY <1>4, CompactEffect
    <2> QED BY <2>1, <2>2, <1>0 DEF Types, pullVars, tokenVars
<1>5. ASSUME NEW n \in Nodes, Apply(n) PROVE Types'
    <2> DEFINE h == Head(loop[n].todo)
               m == ApplyRecords(mem[n], won(n, Keys), h, lsn[n])
               w == ApplyRecords(wal[n], won(n, Keys), h, lsn[n])
               c == Len(won(n, Keys))
               s == Register(segs[n], h)
               b == hidden[n] \/ Hides(n, h)
    <2>1. /\ h \in Entries
          /\ mem' = [mem EXCEPT ![n] = m]
          /\ wal' = [wal EXCEPT ![n] = w]
          /\ lsn' = [lsn EXCEPT ![n] = lsn[n] + c]
          /\ segs' = [segs EXCEPT ![n] = s]
          /\ hidden' = [hidden EXCEPT ![n] = b]
          /\ UNCHANGED <<role, clock, tokenVars, dropped, rewound, unheard>>
        BY <1>5, ApplyEffect
    <2>2. mem[n] \in Entries /\ wal[n] \in Entries /\ segs[n] \in Seq(Segment) /\ lsn[n] \in Nat
          /\ Mirrors(mem[n], wal[n])
        BY DEF Types
    <2>3. m \in Entries /\ w \in Entries /\ c \in Nat
        BY <2>1, <2>2, AppliedFacts DEF won
    <2>4. s \in Seq(Segment)
        BY <2>1, <2>2 DEF Register, Segment
    <2>5. b \in BOOLEAN
        BY Zenon
    <2>6. lsn[n] + c \in Nat
        BY <2>2, <2>3
    <2>7. UNCHANGED <<pending>>
        BY <1>5 DEF Apply, import_segment
    <2>8. Mirrors(m, w)
        <3>1. \A k \in Keys : mem[n][k] = NoEntry \/ mem[n][k] = wal[n][k]
            BY <2>2 DEF Mirrors
        <3>2. \A k \in Keys : m[k] = NoEntry \/ m[k] = w[k]
            BY <3>1, <2>2, AppliedSame
        <3> QED BY <3>2 DEF Mirrors
    <2> HIDE DEF m, w, c, s, b, h
    <2>9. \A o \in Nodes : Mirrors(mem'[o], wal'[o])
        BY <2>1, <2>8 DEF Types
    <2> QED BY <2>1, <2>3, <2>4, <2>5, <2>6, <2>7, <2>9, <1>0 DEF Types, tokenVars
<1>6. ASSUME NEW n \in Nodes, NEW S \in SUBSET Keys, crash_in_import(n, S) PROVE Types'
    <2> DEFINE h == Head(loop[n].todo)
               b == hidden[n] \/ Hides(n, [k \in Keys |-> IF k \in S THEN h[k] ELSE NoEntry])
    <2>1. /\ wal' \in [Nodes -> Entries] /\ Reopen({n})
          /\ hidden' = [hidden EXCEPT ![n] = b]
          /\ wtoken' = [wtoken EXCEPT ![n] = wfile[n]]
          /\ \A o \in Nodes : o # n => mem'[o] = mem[o] /\ wal'[o] = wal[o]
          /\ UNCHANGED <<role, segs, clock, wfile, tokens, blind, dropped, unheard>>
        <3>1. /\ wal' = [wal EXCEPT ![n] = ApplyRecords(wal[n], won(n, S), h, lsn[n])]
              /\ wal' \in [Nodes -> Entries]
              /\ Reopen({n}) /\ \A o \in Nodes : o # n => mem'[o] = mem[o] /\ lsn'[o] = lsn[o]
              /\ hidden' = [hidden EXCEPT ![n] = b]
              /\ wtoken' = [wtoken EXCEPT ![n] = wfile[n]]
              /\ UNCHANGED <<role, segs, clock, wfile, tokens, blind, dropped, unheard>>
            BY <1>6, CrashEffect
        <3> HIDE DEF b, h
        <3>2. \A o \in Nodes : o # n => wal'[o] = wal[o]
            BY <3>1 DEF Types
        <3> QED BY <3>1, <3>2
    <2>2. /\ mem' \in [Nodes -> Entries] /\ lsn' \in [Nodes -> Nat]
          /\ rewound' \in [Nodes -> BOOLEAN]
        BY <2>1, ReopenEffect
    <2>3. \A o \in Nodes : Mirrors(mem'[o], wal'[o])
        <3>1. mem'[n] = wal'[n]
            BY <2>1 DEF Reopen
        <3> QED BY <3>1, <2>1 DEF Types, Mirrors
    <2>5. b \in BOOLEAN
        BY Zenon
    <2>7. UNCHANGED <<pending>>
        BY <1>6 DEF crash_in_import
    <2> HIDE DEF b, h
    <2> QED BY <2>1, <2>2, <2>3, <2>5, <2>7, <1>0 DEF Types
<1>7. ASSUME NEW n \in Nodes, Pull(n) PROVE Types'
    <2>1. DOMAIN pending' = Nodes
        BY <1>7 DEF Types, Pull, compare, give_up, fetch_corrupt, fetch_failed, import_segment,
           record_outcome, finish_round, probe, list_missing, fetch_ok
    <2> QED BY <2>1, <1>0, <1>7, PullFrame DEF Types, dataVars, tokenVars
<1>8. ASSUME NEW n \in Nodes, Fail(n) PROVE Types'
    <2>1. UNCHANGED <<pending>>
        BY <1>8 DEF Fail, restart, crash_in_promote, promote_to_primary
    <2>a. /\ UNCHANGED <<wal, segs, clock, dropped, hidden, unheard>>
          /\ mem' \in [Nodes -> Entries] /\ lsn' \in [Nodes -> Nat]
          /\ rewound' \in [Nodes -> BOOLEAN] /\ \A o \in Nodes : Mirrors(mem'[o], wal'[o])
        <3>1. PICK R \in SUBSET Nodes :
                 UNCHANGED <<wal, segs, clock, dropped, hidden, unheard>> /\ Reopen(R)
            BY <1>8, FailFrame
        <3>2. wal' \in [Nodes -> Entries]
            BY <3>1 DEF Types
        <3>3. /\ mem' \in [Nodes -> Entries] /\ lsn' \in [Nodes -> Nat]
              /\ rewound' \in [Nodes -> BOOLEAN]
              /\ \A o \in Nodes : mem'[o] = mem[o] \/ mem'[o] = wal'[o]
            BY <3>1, <3>2, ReopenEffect
        <3>4. \A o \in Nodes : Mirrors(mem'[o], wal'[o])
            BY <3>1, <3>3 DEF Types, Mirrors
        <3> QED BY <3>1, <3>3, <3>4
    <2>2. CASE restart(n) \/ crash_in_promote(n)
        <3>1. UNCHANGED <<role, tokens>>
            BY <2>2 DEF restart, crash_in_promote
        <3>2. wtoken' \in [Nodes -> Nat] /\ wfile' \in [Nodes -> Nat]
            <4>1. wtoken \in [Nodes -> Nat] /\ wfile \in [Nodes -> Nat] /\ wfile[n] \in Nat
                BY DEF Types
            <4>2. CASE restart(n)
                BY <4>1, <4>2 DEF restart
            <4>3. CASE crash_in_promote(n)
                BY <4>1, <4>3 DEF crash_in_promote
            <4> QED BY <2>2, <4>2, <4>3
        <3> QED BY <3>1, <3>2, <2>1, <2>a, <1>0 DEF Types
    <2>3. CASE \E p \in Nodes, reached \in BOOLEAN : promote_to_primary(n, p, reached)
        <3>1. PICK p \in Nodes, reached \in BOOLEAN : promote_to_primary(n, p, reached)
            BY <2>3
        <3> DEFINE t == NewToken(IF reached THEN wtoken[p] ELSE 0, wfile[n])
        <3>2. t \in Nat
            BY DEF Types, NewToken
        <3>3. /\ wfile' = [wfile EXCEPT ![n] = t] /\ wtoken' = [wtoken EXCEPT ![n] = t]
              /\ tokens' = Append(tokens, t)
              /\ role' = [role EXCEPT ![n] = "primary", ![p] = "replica"]
            BY <3>1 DEF promote_to_primary
        <3> HIDE DEF t
        <3>4. /\ wfile' \in [Nodes -> Nat] /\ wtoken' \in [Nodes -> Nat] /\ tokens' \in Seq(Nat)
              /\ role' \in [Nodes -> {"primary", "replica"}]
            <4>1. wtoken \in [Nodes -> Nat] /\ wfile \in [Nodes -> Nat] /\ tokens \in Seq(Nat)
                  /\ role \in [Nodes -> {"primary", "replica"}]
                BY DEF Types
            <4>2. wfile' \in [Nodes -> Nat]
                BY <3>2, <3>3, <4>1
            <4>3. wtoken' \in [Nodes -> Nat]
                BY <3>2, <3>3, <4>1
            <4>4. tokens' \in Seq(Nat)
                BY <3>2, <3>3, <4>1
            <4>5. role' \in [Nodes -> {"primary", "replica"}]
                BY <3>3, <4>1
            <4> QED BY <4>2, <4>3, <4>4, <4>5
        <3> QED BY <3>4, <2>1, <2>a, <1>0 DEF Types
    <2> QED BY <1>8, <2>2, <2>3 DEF Fail
<1> QED BY <1>1, <1>2, <1>3, <1>4, <1>5, <1>6, <1>7, <1>8, StepKinds

\* A registered segment holds a key.
LEMMA SegmentsLiveStep ==
    ASSUME Types, RoundsOK, SegmentsLive, [Next]_vars
    PROVE  SegmentsLive'
<1>0. segs \in [Nodes -> Seq(Segment)] /\ mem \in [Nodes -> Entries]
    BY DEF Types
<1>1. ASSUME segs' = segs PROVE SegmentsLive'
    BY <1>1 DEF SegmentsLive
<1>2. ASSUME NEW n \in Nodes, NEW s \in Segment, Live(s.ents) # {},
             segs' = [segs EXCEPT ![n] = Append(segs[n], s)]
      PROVE  SegmentsLive'
    <2>1. segs[n] \in Seq(Segment)
        BY <1>0
    <2> DEFINE tt == Append(segs[n], s)
    <2>2. \A i \in DOMAIN tt : (i \in DOMAIN segs[n] /\ tt[i] = segs[n][i]) \/ tt[i] = s
        BY <2>1, <1>2
    <2> HIDE DEF tt
    <2>3. \A i \in DOMAIN tt : Live(tt[i].ents) # {}
        BY <2>2, <1>2 DEF SegmentsLive
    <2>4. segs'[n] = tt /\ \A o \in Nodes : o # n => segs'[o] = segs[o]
        BY <1>0, <1>2 DEF tt
    <2> QED BY <2>3, <2>4 DEF SegmentsLive
<1>3. ASSUME NEW n \in Nodes, Flush(n) PROVE SegmentsLive'
    <2> DEFINE s == [ents |-> mem[n], imported |-> FALSE]
    <2>1. s \in Segment /\ s.ents = mem[n]
        BY <1>0 DEF Segment
    <2>2. Live(mem[n]) # {} /\ segs' = [segs EXCEPT ![n] = Append(segs[n], s)]
        BY <1>3, FlushEffect
    <2> QED BY <2>1, <2>2, <1>2
<1>4. ASSUME NEW n \in Nodes, Apply(n) PROVE SegmentsLive'
    <2> DEFINE h == Head(loop[n].todo)
               s == [ents |-> h, imported |-> TRUE]
    <2>1. h \in Entries /\ Live(h) # {} /\ segs' = [segs EXCEPT ![n] = Register(segs[n], h)]
        BY <1>4, ApplyEffect
    <2>2. s \in Segment /\ s.ents = h
        BY <2>1 DEF Segment
    <2> QED BY <2>1, <2>2, <1>2 DEF Register
<1>5. ASSUME NEW n \in Nodes, compact_once(n) PROVE SegmentsLive'
    <2>1. segs' = [segs EXCEPT ![n] = Compacted(segs[n])]
        BY <1>5, CompactEffect
    <2>2. segs[n] \in Seq(Segment)
        BY <1>0
    <2>3. \A i \in DOMAIN Compacted(segs[n]) : Live(Compacted(segs[n])[i].ents) # {}
        BY <2>2, CompactedFacts
    <2>4. segs'[n] = Compacted(segs[n]) /\ \A o \in Nodes : o # n => segs'[o] = segs[o]
        BY <1>0, <2>1
    <2> QED BY <2>3, <2>4 DEF SegmentsLive
<1>6. ASSUME NEW n \in Nodes,
             \/ \E k \in Keys, op \in Ops : write(n, k, op)
             \/ \E S \in SUBSET Keys : crash_in_import(n, S)
      PROVE  segs' = segs
    BY <1>6 DEF write, crash_in_import
<1>7. ASSUME NEW n \in Nodes, Pull(n) \/ Fail(n) PROVE segs' = segs
    BY <1>7, PullFrame, FailFrame DEF dataVars
<1>8. UNCHANGED vars => segs' = segs
    BY DEF vars, nodeVars
<1> QED BY <1>1, <1>3, <1>4, <1>5, <1>6, <1>7, <1>8, StepKinds

\* Only a kill or a promotion changes roles and tokens.
LEMMA RoleFrame ==
    ASSUME [Next]_vars
    PROVE  \/ UNCHANGED <<role, tokenVars>>
           \/ \E n \in Nodes : Fail(n) \/ \E S \in SUBSET Keys : crash_in_import(n, S)
<1>1. ASSUME NEW n \in Nodes,
             \/ \E k \in Keys, op \in Ops : write(n, k, op)
             \/ Flush(n) \/ compact_once(n) \/ Apply(n)
      PROVE  UNCHANGED <<role, tokenVars>>
    BY <1>1 DEF write, Flush, flush_to_segments, compact_once, Apply, import_segment
<1>2. ASSUME NEW n \in Nodes, Pull(n) PROVE UNCHANGED <<role, tokenVars>>
    BY <1>2, PullFrame
<1>3. UNCHANGED vars => UNCHANGED <<role, tokenVars>>
    BY DEF vars, nodeVars
<1> QED BY <1>1, <1>2, <1>3, StepKinds

\* There is one primary, its loop is idle, and a token in memory is the one on disk.
LEMMA RolesStep ==
    ASSUME Types, RoundsOK, SegmentsLive, RolesOK, [Next]_vars
    PROVE  RolesOK'
<1>0. /\ role \in [Nodes -> {"primary", "replica"}] /\ DOMAIN loop = Nodes
      /\ wtoken \in [Nodes -> Nat] /\ wfile \in [Nodes -> Nat]
    BY DEF Types
<1>1. ASSUME NEW n \in Nodes, role[n] = "replica", UNCHANGED <<role, wtoken, wfile>>,
             \A o \in Nodes : o # n => loop'[o] = loop[o]
      PROVE  RolesOK'
    BY <1>1 DEF RolesOK
<1>2. ASSUME UNCHANGED <<role, wtoken, wfile, loop>> PROVE RolesOK'
    BY <1>2 DEF RolesOK
<1>3. ASSUME NEW n \in Nodes, Apply(n) \/ Pull(n) PROVE RolesOK'
    <2>1. role[n] = "replica" /\ UNCHANGED <<role, wtoken, wfile>>
        <3>1. Pull(n) => role[n] = "replica" /\ UNCHANGED <<role, tokenVars>>
            BY PullFrame
        <3>2. Apply(n) => role[n] = "replica" /\ UNCHANGED <<role, tokenVars>>
            BY DEF Apply, import_segment, At
        <3> QED BY <3>1, <3>2, <1>3 DEF tokenVars
    <2>2. \A o \in Nodes : o # n => loop'[o] = loop[o]
        BY <1>3, PullSteps, Zenon DEF Apply, Pull
    <2> QED BY <2>1, <2>2, <1>1
<1>4. ASSUME NEW n \in Nodes, NEW S \in SUBSET Keys, crash_in_import(n, S) PROVE RolesOK'
    <2>1. /\ role[n] = "replica" /\ UNCHANGED <<role, wfile>>
          /\ wtoken' = [wtoken EXCEPT ![n] = wfile[n]] /\ loop' = [loop EXCEPT ![n] = IdleLoop]
        BY <1>4 DEF crash_in_import, At, Goto
    <2>2. wtoken' = wtoken
        BY <2>1, <1>0 DEF RolesOK
    <2>3. \A o \in Nodes : o # n => loop'[o] = loop[o]
        BY <2>1, <1>0
    <2> QED BY <2>1, <2>2, <2>3, <1>1
<1>5. ASSUME NEW n \in Nodes, restart(n) PROVE RolesOK'
    <2>1. /\ UNCHANGED <<role, wfile>>
          /\ wtoken' = [wtoken EXCEPT ![n] = wfile[n]] /\ loop' = [loop EXCEPT ![n] = IdleLoop]
        BY <1>5 DEF restart, Goto
    <2>2. wtoken' = wtoken
        BY <2>1, <1>0 DEF RolesOK
    <2>3. loop'[n] = IdleLoop /\ \A o \in Nodes : o # n => loop'[o] = loop[o]
        BY <2>1, <1>0
    <2> QED BY <2>1, <2>2, <2>3 DEF RolesOK
<1>6. ASSUME NEW n \in Nodes, crash_in_promote(n) PROVE RolesOK'
    <2>1. /\ UNCHANGED role /\ role[n] = "replica"
          /\ wtoken' = [wtoken EXCEPT ![n] = 0] /\ wfile' = [wfile EXCEPT ![n] = 0]
          /\ loop' = [loop EXCEPT ![n] = IdleLoop]
        BY <1>6 DEF crash_in_promote, Goto
    <2>2. wtoken' = wfile'
        BY <2>1 DEF RolesOK
    <2>3. loop'[n] = IdleLoop /\ \A o \in Nodes : o # n => loop'[o] = loop[o]
        BY <2>1, <1>0
    <2> QED BY <2>1, <2>2, <2>3 DEF RolesOK
<1>7. ASSUME NEW n \in Nodes, NEW p \in Nodes, NEW reached \in BOOLEAN,
             promote_to_primary(n, p, reached)
      PROVE  RolesOK'
    <2>1. /\ role' = [role EXCEPT ![n] = "primary", ![p] = "replica"]
          /\ role[n] = "replica" /\ p # n /\ role[p] = "primary"
          /\ loop' = [loop EXCEPT ![n] = IdleLoop]
        BY <1>7 DEF promote_to_primary, Goto, Serves
    <2>2. wtoken' = wfile'
        BY <1>7 DEF RolesOK, promote_to_primary
    <2>3. loop'[n] = IdleLoop /\ \A o \in Nodes : o # n => loop'[o] = loop[o]
        BY <2>1, <1>0
    <2>4. \A o \in Nodes : o # n => role'[o] # "primary"
        BY <2>1, <1>0 DEF RolesOK
    <2> QED BY <2>2, <2>3, <2>4 DEF RolesOK
<1>8. ASSUME NEW n \in Nodes,
             \/ \E k \in Keys, op \in Ops : write(n, k, op)
             \/ Flush(n) \/ compact_once(n)
      PROVE  RolesOK'
    BY <1>2, <1>8 DEF write, Flush, flush_to_segments, compact_once, tokenVars, pullVars
<1>9. UNCHANGED vars => RolesOK'
    BY <1>2 DEF vars, nodeVars, tokenVars, pullVars
<1> QED BY <1>3, <1>4, <1>5, <1>6, <1>7, <1>8, <1>9, StepKinds DEF Fail
-----------------------------------------------------------------------------
(***************************************************************************)
(* Fencing: the primary holds a token no smaller than any handed out.      *)
(***************************************************************************)
TokensOK ==
    ~blind => \A i \in DOMAIN tokens :
        /\ \A j \in DOMAIN tokens : i < j => tokens[i] < tokens[j]
        /\ \A n \in Nodes : role[n] = "primary" => tokens[i] <= wtoken[n]

\* A promotion that reaches the old primary takes a token above the old primary's.
LEMMA TokensStep ==
    ASSUME Types, RolesOK, TokensOK, [Next]_vars
    PROVE  TokensOK'
<1>0. /\ role \in [Nodes -> {"primary", "replica"}] /\ tokens \in Seq(Nat)
      /\ wtoken \in [Nodes -> Nat] /\ wfile \in [Nodes -> Nat] /\ wtoken = wfile
    BY DEF Types, RolesOK
<1>1. ASSUME UNCHANGED <<role, tokens, blind>>,
             \A n \in Nodes : role[n] = "primary" => wtoken'[n] = wtoken[n]
      PROVE  TokensOK'
    BY <1>1 DEF TokensOK
<1>2. ASSUME UNCHANGED <<role, tokenVars>> PROVE TokensOK'
    BY <1>1, <1>2 DEF tokenVars
<1>3. ASSUME NEW n \in Nodes,
             restart(n) \/ crash_in_promote(n) \/ \E S \in SUBSET Keys : crash_in_import(n, S)
      PROVE  TokensOK'
    <2>1. UNCHANGED <<role, tokens, blind>>
        BY <1>3 DEF restart, crash_in_promote, crash_in_import
    <2>2. \/ wtoken' = [wtoken EXCEPT ![n] = wfile[n]]
          \/ role[n] = "replica" /\ wtoken' = [wtoken EXCEPT ![n] = 0]
        BY <1>3 DEF restart, crash_in_promote, crash_in_import
    <2>3. \A o \in Nodes : role[o] = "primary" => wtoken'[o] = wtoken[o]
        BY <2>2, <1>0
    <2> QED BY <2>1, <2>3, <1>1
<1>4. ASSUME NEW n \in Nodes, NEW p \in Nodes, NEW reached \in BOOLEAN,
             promote_to_primary(n, p, reached)
      PROVE  TokensOK'
    <2> DEFINE t == NewToken(IF reached THEN wtoken[p] ELSE 0, wfile[n])
    <2>1. /\ role' = [role EXCEPT ![n] = "primary", ![p] = "replica"]
          /\ role[n] = "replica" /\ p # n /\ role[p] = "primary"
          /\ wtoken' = [wtoken EXCEPT ![n] = t] /\ tokens' = Append(tokens, t)
          /\ blind' = (blind \/ ~reached)
        BY <1>4 DEF promote_to_primary, Serves
    <2>2. SUFFICES ASSUME ~blind, reached PROVE TokensOK'
        BY <2>1 DEF TokensOK
    <2>3. t \in Nat /\ t > wtoken[p]
        BY <2>2, <1>0 DEF NewToken
    <2> HIDE DEF t
    <2>4. \A i \in DOMAIN tokens : tokens[i] \in Nat /\ tokens[i] < t
        <3>1. \A i \in DOMAIN tokens : tokens[i] \in Nat /\ tokens[i] <= wtoken[p]
            BY <2>1, <2>2, <1>0 DEF TokensOK
        <3> QED BY <3>1, <2>3, <1>0
    <2>5. \A o \in Nodes : role'[o] = "primary" => o = n
        BY <2>1, <1>0 DEF RolesOK
    <2>6. wtoken'[n] = t
        BY <2>1, <1>0
    <2>7. /\ DOMAIN tokens' = 1..(Len(tokens) + 1) /\ DOMAIN tokens = 1..Len(tokens)
          /\ Len(tokens) \in Nat /\ tokens'[Len(tokens) + 1] = t
          /\ \A i \in DOMAIN tokens : tokens'[i] = tokens[i]
        BY <2>1, <2>3, <1>0
    <2>8. ASSUME NEW i \in DOMAIN tokens'
          PROVE  /\ \A j \in DOMAIN tokens' : i < j => tokens'[i] < tokens'[j]
                 /\ tokens'[i] <= t
        <3>1. CASE i = Len(tokens) + 1
            BY <3>1, <2>3, <2>7
        <3>2. CASE i \in DOMAIN tokens
            <4>1. ASSUME NEW j \in DOMAIN tokens', i < j PROVE tokens'[i] < tokens'[j]
                <5>1. CASE j \in DOMAIN tokens
                    <6>1. tokens[i] < tokens[j]
                        BY <5>1, <4>1, <3>2, <2>2 DEF TokensOK
                    <6> QED BY <6>1, <5>1, <3>2, <2>7
                <5>2. CASE j = Len(tokens) + 1
                    BY <5>2, <3>2, <2>4, <2>7
                <5> QED BY <5>1, <5>2, <2>7
            <4>2. tokens'[i] <= t
                BY <3>2, <2>3, <2>4, <2>7
            <4> QED BY <4>1, <4>2
        <3> QED BY <3>1, <3>2, <2>7
    <2> QED BY <2>5, <2>6, <2>8 DEF TokensOK
<1> QED BY <1>2, <1>3, <1>4, RoleFrame DEF Fail

-----------------------------------------------------------------------------
(***************************************************************************)
(* The copies of the writes on a key: every one has the time of a write    *)
(* that happened.                                                          *)
(***************************************************************************)
Copies(k) ==
    UNION {{e \in Entry : \/ wal[n][k] = e
                          \/ \E i \in DOMAIN segs[n] : segs[n][i].ents[k] = e
                          \/ \E i \in DOMAIN loop[n].todo : loop[n].todo[i][k] = e} : n \in Nodes}

TimesOK ==
    \A k \in Keys : /\ \A e \in Copies(k) : e.ts >= 1 /\ e.ts <= clock
                    /\ \A n \in Nodes : dropped[n][k] <= clock

\* Unless a node is confused, a read returns the newest entry it holds, its own segments
\* answer as new as all of them, no dropped tombstone is newer, a replay of its log brings
\* nothing older, and its own entries are in LSN order.
SoundOK ==
    \A n \in Nodes : ~Confused(n) =>
        \A k \in Keys : Trusted(mem[n], wal[n], segs[n], dropped[n], lsn[n], k)

\* An entry is a copy exactly when some log, segment or list of segments has it.
LEMMA CopyIff ==
    ASSUME NEW k \in Keys, NEW e
    PROVE  e \in Copies(k) <=>
               /\ e \in Entry
               /\ \E n \in Nodes : \/ wal[n][k] = e
                                   \/ \E i \in DOMAIN segs[n] : segs[n][i].ents[k] = e
                                   \/ \E i \in DOMAIN loop[n].todo : loop[n].todo[i][k] = e
BY DEF Copies

\* What a node reads, and what its own segments answer, are copies.
LEMMA ReadsAreCopies ==
    ASSUME Types, NEW n \in Nodes, NEW k \in Keys
    PROVE  /\ mem[n] \in Entries /\ segs[n] \in Seq(Segment) /\ dropped[n] \in [Keys -> Nat]
           /\ Seen(n, k) # NoEntry => Seen(n, k) \in Copies(k)
           /\ SegmentGet(segs[n], k) # NoEntry => SegmentGet(segs[n], k) \in Copies(k)
           /\ SegmentGet(Own(segs[n]), k) # NoEntry => SegmentGet(Own(segs[n]), k) \in Copies(k)
<1>1. mem[n] \in Entries /\ segs[n] \in Seq(Segment) /\ dropped[n] \in [Keys -> Nat]
    BY DEF Types
<1>2. Own(segs[n]) \in Seq(Segment)
    BY <1>1, OwnGet
<1>3. /\ SegmentGet(segs[n], k) \in Entry \cup {NoEntry}
      /\ SegmentGet(Own(segs[n]), k) \in Entry \cup {NoEntry}
      /\ Local(mem[n], segs[n], k) \in Entry \cup {NoEntry}
    BY <1>1, <1>2, GetType
<1>4. SegmentGet(segs[n], k) # NoEntry => SegmentGet(segs[n], k) \in Copies(k)
    <2>1. SegmentGet(segs[n], k) # NoEntry =>
              \E i \in DOMAIN segs[n] : segs[n][i].ents[k] = SegmentGet(segs[n], k)
        BY <1>1, LastHolder
    <2> QED BY <2>1, <1>3, CopyIff
<1>5. SegmentGet(Own(segs[n]), k) # NoEntry => SegmentGet(Own(segs[n]), k) \in Copies(k)
    <2>1. OwnAt(segs[n]) \subseteq DOMAIN segs[n]
        BY DEF OwnAt
    <2>2. SegmentGet(Own(segs[n]), k) # NoEntry =>
              \E i \in OwnAt(segs[n]) : SegmentGet(Own(segs[n]), k) = segs[n][i].ents[k]
        BY <1>1, OwnGet
    <2>3. SegmentGet(Own(segs[n]), k) # NoEntry =>
              \E i \in DOMAIN segs[n] : segs[n][i].ents[k] = SegmentGet(Own(segs[n]), k)
        BY <2>1, <2>2
    <2> QED BY <2>3, <1>3, CopyIff
<1>6. mem[n][k] # NoEntry => mem[n][k] \in Copies(k)
    <2>1. mem[n][k] \in Entry \cup {NoEntry}
        BY <1>1 DEF Entries
    <2>2. mem[n][k] = NoEntry \/ mem[n][k] = wal[n][k]
        BY DEF Types, Mirrors
    <2> QED BY <2>1, <2>2, CopyIff
<1>7. Seen(n, k) # NoEntry => Seen(n, k) \in Copies(k)
    BY <1>4, <1>6 DEF Seen, Local
<1> QED BY <1>1, <1>4, <1>5, <1>7

\* A copy after a step has the op and time of a copy before it, or was just written.
LEMMA CopySteps ==
    ASSUME Types, RoundsOK, SegmentsLive, [Next]_vars, NEW k \in Keys, NEW e, e \in Copies(k)'
    PROVE  \/ \E f \in Copies(k) : f.op = e.op /\ f.ts = e.ts
           \/ \E n \in Nodes, op \in Ops : Wrote(n, k, op, e)
<1> DEFINE Old == \E f \in Copies(k) : f.op = e.op /\ f.ts = e.ts
<1>0. mem \in [Nodes -> Entries] /\ segs \in [Nodes -> Seq(Segment)] /\ lsn \in [Nodes -> Nat]
      /\ wal \in [Nodes -> Entries]
    BY DEF Types
<1>1. PICK n \in Nodes : e \in Entry /\
             \/ wal'[n][k] = e
             \/ \E i \in DOMAIN segs'[n] : segs'[n][i].ents[k] = e
             \/ \E i \in DOMAIN loop'[n].todo : loop'[n].todo[i][k] = e
    BY DEF Copies
<1>2. ASSUME e \in Copies(k) PROVE Old
    BY <1>2
<1>3. CASE \E i \in DOMAIN loop'[n].todo : loop'[n].todo[i][k] = e
    <2>1. PICK i \in DOMAIN loop'[n].todo : loop'[n].todo[i][k] = e
        BY <1>3
    <2>2. Offered(loop'[n].todo[i])
        BY LoopSteps
    <2>3. e \in Copies(k)
        BY <2>1, <2>2, <1>1, CopyIff DEF Offered
    <2> QED BY <2>3
<1>4. ASSUME wal'[n] = wal[n], wal'[n][k] = e PROVE Old
    BY <1>1, <1>4, CopyIff
<1>5. ASSUME segs'[n] = segs[n], \E i \in DOMAIN segs'[n] : segs'[n][i].ents[k] = e PROVE Old
    BY <1>1, <1>5, CopyIff
<1>6. CASE \/ wal'[n][k] = e
           \/ \E i \in DOMAIN segs'[n] : segs'[n][i].ents[k] = e
    <2>1. ASSUME UNCHANGED <<wal, segs>> PROVE Old
        BY <2>1, <1>4, <1>5, <1>6
    <2>2. ASSUME NEW o \in Nodes, NEW k2 \in Keys, NEW op \in Ops, write(o, k2, op)
          PROVE  Old \/ Wrote(o, k, op, e)
        <3>1. PICK f \in Entry : Wrote(o, k2, op, f)
            BY <2>2, WriteEffect
        <3>2. /\ wal' = [wal EXCEPT ![o] = [wal[o] EXCEPT ![k2] = f]] /\ segs' = segs
              /\ wal[o] \in Entries
            BY <3>1, <1>0 DEF Wrote
        <3>3. wal'[n][k] = wal[n][k] \/ (o = n /\ k2 = k /\ wal'[n][k] = f)
            BY <3>2, <1>0 DEF Entries
        <3>4. wal'[n][k] = e => Old \/ Wrote(o, k, op, e)
            BY <3>1, <3>3, <1>1, CopyIff
        <3> QED BY <3>2, <3>4, <1>5, <1>6
    <2>3. ASSUME NEW o \in Nodes, NEW s \in Segment, NEW ss, ss = Append(segs[o], s),
                 segs' = [segs EXCEPT ![o] = ss],
                 \E i \in DOMAIN segs'[n] : segs'[n][i].ents[k] = e
          PROVE  Old \/ s.ents[k] = e
        <3>1. segs[o] \in Seq(Segment)
            BY <1>0
        <3>2. \A i \in DOMAIN ss : (i \in DOMAIN segs[o] /\ ss[i] = segs[o][i]) \/ ss[i] = s
            BY <2>3, <3>1
        <3>3. segs'[o] = ss /\ (o # n => segs'[n] = segs[n])
            BY <2>3, <1>0
        <3>4. CASE o # n
            BY <3>3, <3>4, <2>3, <1>5
        <3>5. CASE o = n
            <4>1. PICK i \in DOMAIN ss : ss[i].ents[k] = e
                BY <3>3, <3>5, <2>3
            <4>2. CASE ss[i] = s
                BY <4>1, <4>2
            <4>3. CASE i \in DOMAIN segs[o] /\ ss[i] = segs[o][i]
                BY <4>1, <4>3, <1>1, CopyIff
            <4> QED BY <3>2, <4>2, <4>3
        <3> QED BY <3>4, <3>5
    <2>4. ASSUME NEW o \in Nodes, Flush(o) PROVE Old
        <3> DEFINE s == [ents |-> mem[o], imported |-> FALSE]
        <3>1. s \in Segment /\ s.ents = mem[o] /\ mem[o] \in Entries
            BY <1>0 DEF Segment
        <3>2. segs' = [segs EXCEPT ![o] = Append(segs[o], s)]
            BY <2>4, FlushEffect
        <3>a. e # NoEntry
            BY <1>1, ReplicationAssumption DEF Entry
        <3>3. wal'[n][k] = NoEntry \/ wal'[n][k] = wal[n][k]
            <4>1. PICK w \in Entries : /\ wal' = [wal EXCEPT ![o] = w]
                                       /\ \A kk \in Keys : w[kk] = wal[o][kk] \/ w[kk] = NoEntry
                BY <2>4, FlushEffect
            <4> QED BY <4>1, <1>0
        <3>4. wal'[n][k] = e => Old
            BY <3>3, <3>a, <1>1, CopyIff
        <3>5. s.ents[k] = e => Old
            <4>1. mem[o][k] = NoEntry \/ mem[o][k] = wal[o][k]
                BY DEF Types, Mirrors
            <4> QED BY <4>1, <3>1, <3>a, <1>1, CopyIff
        <3> HIDE DEF s
        <3> QED BY <3>1, <3>2, <3>4, <3>5, <2>3, <1>6
    <2>5. ASSUME NEW o \in Nodes, compact_once(o) PROVE Old
        <3>1. segs' = [segs EXCEPT ![o] = Compacted(segs[o])] /\ wal' = wal
              /\ segs[o] \in Seq(Segment)
            BY <2>5, <1>0, CompactEffect
        <3>2. \A i \in DOMAIN Compacted(segs[o]) : Compacted(segs[o])[i].ents[k] = Survivor(segs[o], k)
            BY <3>1, CompactedFacts
        <3>3. segs'[o] = Compacted(segs[o]) /\ (o # n => segs'[n] = segs[n])
            BY <3>1, <1>0
        <3>4. Survivor(segs[o], k) = e => e \in Copies(k)
            <4>1. Survivor(segs[o], k) = Merged(segs[o], k) \/ Survivor(segs[o], k) = NoEntry
                BY DEF Survivor
            <4>2. e # NoEntry
                BY <1>1, ReplicationAssumption DEF Entry
            <4>3. Merged(segs[o], k) = NoEntry
                  \/ \E t \in OwnAt(segs[o]) : Merged(segs[o], k) = segs[o][t].ents[k]
                BY <3>1, MergedFacts
            <4>4. OwnAt(segs[o]) \subseteq DOMAIN segs[o]
                BY DEF OwnAt
            <4> QED BY <4>1, <4>2, <4>3, <4>4, <1>1, CopyIff
        <3>5. (\E i \in DOMAIN segs'[n] : segs'[n][i].ents[k] = e) => Old
            BY <3>2, <3>3, <3>4, <1>2, <1>5
        <3> QED BY <3>1, <3>5, <1>4, <1>6
    <2>6. ASSUME NEW o \in Nodes, NEW h \in Entries, NEW S \in SUBSET Keys,
                 loop[o].pc = "import", h = Head(loop[o].todo), wal'[n][k] = e,
                 wal' = [wal EXCEPT ![o] = ApplyRecords(wal[o], won(o, S), h, lsn[o])]
          PROVE  Old
        <3> DEFINE w == ApplyRecords(wal[o], won(o, S), h, lsn[o])
        <3>1. wal[o] \in Entries /\ lsn[o] \in Nat
            BY <1>0
        <3>2. \/ h[k] \in Entry /\ w[k].op = h[k].op /\ w[k].ts = h[k].ts
              \/ w[k] = wal[o][k]
            <4>1. AppliedTo(mem[o], segs[o], h, S, lsn[o], wal[o], w, k)
                BY <3>1, <2>6, AppliedFacts DEF won
            <4> QED BY <4>1 DEF AppliedTo
        <3>3. wal'[o] = w /\ (o # n => wal'[n] = wal[n])
            BY <2>6, <1>0
        <3> HIDE DEF w
        <3>4. h[k] \in Entry => h[k] \in Copies(k)
            <4>1. h = loop[o].todo[1] /\ 1 \in DOMAIN loop[o].todo
                BY <2>6, AppliedSegment
            <4> QED BY <4>1, CopyIff
        <3>5. CASE o # n
            BY <3>3, <3>5, <2>6, <1>4
        <3>6. CASE o = n
            BY <3>2, <3>3, <3>4, <3>6, <2>6, <1>1, CopyIff
        <3> QED BY <3>5, <3>6
    <2>7. ASSUME NEW o \in Nodes, Apply(o) PROVE Old
        <3> DEFINE h == Head(loop[o].todo)
                   s == [ents |-> h, imported |-> TRUE]
        <3>1. /\ h \in Entries
              /\ wal' = [wal EXCEPT ![o] = ApplyRecords(wal[o], won(o, Keys), h, lsn[o])]
              /\ segs' = [segs EXCEPT ![o] = Register(segs[o], h)]
            BY <2>7, ApplyEffect
        <3>2. s \in Segment /\ s.ents = h /\ Register(segs[o], h) = Append(segs[o], s)
            BY <3>1 DEF Segment, Register
        <3>3. loop[o].pc = "import"
            BY <2>7 DEF Apply, import_segment, At
        <3>4. s.ents[k] = e => Old
            <4>1. h = loop[o].todo[1] /\ 1 \in DOMAIN loop[o].todo
                BY <3>3, AppliedSegment
            <4> QED BY <4>1, <3>2, <1>1, CopyIff
        <3>5. wal'[n][k] = e => Old
            BY <3>1, <3>3, <2>6
        <3> HIDE DEF s, h
        <3> QED BY <3>1, <3>2, <3>4, <3>5, <2>3, <1>6
    <2>8. ASSUME NEW o \in Nodes, NEW S \in SUBSET Keys, crash_in_import(o, S) PROVE Old
        <3> DEFINE h == Head(loop[o].todo)
        <3>1. /\ h \in Entries
              /\ wal' = [wal EXCEPT ![o] = ApplyRecords(wal[o], won(o, S), h, lsn[o])]
              /\ segs' = segs
            BY <2>8, CrashEffect
        <3>2. loop[o].pc = "import"
            BY <2>8 DEF crash_in_import, At
        <3>3. wal'[n][k] = e => Old
            BY <3>1, <3>2, <2>6
        <3> QED BY <3>1, <3>3, <1>5, <1>6
    <2>9. ASSUME NEW o \in Nodes, Pull(o) \/ Fail(o) PROVE Old
        BY <2>1, <2>9, PullFrame, FailFrame DEF dataVars
    <2>10. UNCHANGED vars => Old
        BY <2>1 DEF vars, nodeVars
    <2> HIDE DEF Old
    <2>11. Old \/ \E o \in Nodes, op \in Ops : Wrote(o, k, op, e)
        BY <2>2, <2>4, <2>5, <2>7, <2>8, <2>9, <2>10, StepKinds
    <2> QED BY <2>11 DEF Old
<1> QED BY <1>1, <1>3, <1>6

\* Times of copies and of dropped tombstones are times of writes.
LEMMA TimesStep ==
    ASSUME Types, RoundsOK, SegmentsLive, TimesOK, [Next]_vars, Types'
    PROVE  TimesOK' /\ clock' >= clock
<1>0. clock \in Nat /\ clock' \in Nat /\ dropped \in [Nodes -> [Keys -> Nat]]
    BY DEF Types
<1>1. clock' = clock \/ \E n \in Nodes, k \in Keys, op \in Ops : write(n, k, op)
    <2>1. ASSUME NEW n \in Nodes, Flush(n) \/ compact_once(n) \/ Apply(n)
                      \/ \E S \in SUBSET Keys : crash_in_import(n, S)
          PROVE  clock' = clock
        BY <2>1 DEF Flush, flush_to_segments, compact_once, Apply, import_segment, crash_in_import
    <2>2. ASSUME NEW n \in Nodes, Pull(n) \/ Fail(n) PROVE clock' = clock
        BY <2>2, PullFrame, FailFrame DEF dataVars
    <2>3. UNCHANGED vars => clock' = clock
        BY DEF vars, nodeVars
    <2> QED BY <2>1, <2>2, <2>3, StepKinds
<1>2. ASSUME NEW n \in Nodes, NEW k \in Keys, NEW op \in Ops, write(n, k, op)
      PROVE  clock' = clock + 1
    BY <1>2 DEF write
<1>3. clock' >= clock
    BY <1>0, <1>1, <1>2
<1>4. ASSUME NEW k \in Keys, NEW e, e \in Copies(k)' PROVE e.ts >= 1 /\ e.ts <= clock'
    <2>1. CASE \E f \in Copies(k) : f.op = e.op /\ f.ts = e.ts
        <3>1. PICK f \in Copies(k) : f.ts = e.ts
            BY <2>1
        <3>2. f \in Entry /\ f.ts >= 1 /\ f.ts <= clock
            BY CopyIff DEF TimesOK
        <3>3. f.ts \in Nat
            BY <3>2 DEF Entry
        <3> QED BY <3>1, <3>2, <3>3, <1>0, <1>3
    <2>2. CASE \E n \in Nodes, op \in Ops : Wrote(n, k, op, e)
        <3>1. e.ts = clock + 1 /\ clock' = clock + 1
            BY <2>2 DEF Wrote
        <3> QED BY <3>1, <1>0
    <2> QED BY <1>4, <2>1, <2>2, CopySteps
<1>5. ASSUME NEW k \in Keys, NEW n \in Nodes PROVE dropped'[n][k] <= clock'
    <2>1. dropped[n][k] \in Nat /\ dropped[n][k] <= clock
        BY <1>0 DEF TimesOK
    <2>2. CASE dropped' = dropped
        BY <2>1, <2>2, <1>0, <1>3
    <2>3. ASSUME NEW o \in Nodes, compact_once(o) PROVE dropped'[n][k] <= clock
        <3>1. dropped' = [dropped EXCEPT ![o] = Dropped(o)]
            BY <2>3, CompactEffect
        <3>2. dropped'[n] = dropped[n] \/ (o = n /\ dropped'[n] = Dropped(n))
            BY <3>1, <1>0
        <3>3. Dropped(n)[k] = dropped[n][k] \/ Dropped(n)[k] = Age(SegmentGet(segs[n], k))
            BY DEF Dropped
        <3>4. Age(SegmentGet(segs[n], k)) <= clock
            BY <1>0, ReadsAreCopies DEF TimesOK, Age
        <3> QED BY <3>2, <3>3, <3>4, <2>1
    <2>4. ASSUME NEW o \in Nodes,
                 \/ \E k2 \in Keys, op \in Ops : write(o, k2, op)
                 \/ Flush(o) \/ Apply(o) \/ \E S \in SUBSET Keys : crash_in_import(o, S)
          PROVE  dropped' = dropped
        BY <2>4 DEF write, Flush, flush_to_segments, Apply, import_segment, crash_in_import, auxVars
    <2>5. ASSUME NEW o \in Nodes, Pull(o) \/ Fail(o) PROVE dropped' = dropped
        BY <2>5, PullFrame, FailFrame DEF dataVars
    <2>6. UNCHANGED vars => dropped' = dropped
        BY DEF vars, auxVars
    <2>7. dropped' = dropped \/ dropped'[n][k] <= clock
        BY <2>3, <2>4, <2>5, <2>6, StepKinds
    <2>8. CASE dropped'[n][k] <= clock
        <3>1. dropped'[n][k] \in Nat
            BY DEF Types
        <3> QED BY <3>1, <2>8, <1>0, <1>3
    <2> QED BY <2>2, <2>7, <2>8
<1> QED BY <1>3, <1>4, <1>5 DEF TimesOK

\* An import that is not recorded as hiding takes no newer write's place.
LEMMA NotHiding ==
    ASSUME NEW n \in Nodes, NEW h, ~Hides(n, h), NEW k \in Keys
    PROVE  ~(mem[n][k] = NoEntry /\ h[k] # NoEntry
             /\ Age(h[k]) < KnownOf(mem[n], segs[n], dropped[n], k))
BY DEF Hides, Known, KnownOf, Seen

\* Every step keeps a node trusted and what it knows, or confuses the node for good.
LEMMA SoundSteps ==
    ASSUME Types, RoundsOK, TimesOK, SoundOK, [Next]_vars, Types',
           NEW n \in Nodes, NEW k \in Keys, ~hidden'[n], ~rewound'[n]
    PROVE  /\ ~hidden[n] /\ ~rewound[n]
           /\ Trusted(mem'[n], wal'[n], segs'[n], dropped'[n], lsn'[n], k)
           /\ KnownOf(mem'[n], segs'[n], dropped'[n], k) >= KnownOf(mem[n], segs[n], dropped[n], k)
<1> DEFINE known == KnownOf(mem[n], segs[n], dropped[n], k)
           Goal == /\ ~hidden[n] /\ ~rewound[n]
                   /\ Trusted(mem'[n], wal'[n], segs'[n], dropped'[n], lsn'[n], k)
                   /\ KnownOf(mem'[n], segs'[n], dropped'[n], k) >= known
<1>0. /\ mem \in [Nodes -> Entries] /\ segs \in [Nodes -> Seq(Segment)] /\ lsn \in [Nodes -> Nat]
      /\ wal \in [Nodes -> Entries] /\ rewound \in [Nodes -> BOOLEAN]
      /\ dropped \in [Nodes -> [Keys -> Nat]] /\ hidden \in [Nodes -> BOOLEAN] /\ clock \in Nat
      /\ mem[n] \in Entries /\ segs[n] \in Seq(Segment) /\ dropped[n] \in [Keys -> Nat]
      /\ lsn[n] \in Nat /\ wal[n] \in Entries /\ (mem[n][k] = NoEntry \/ mem[n][k] = wal[n][k])
      /\ mem'[n] \in Entries /\ wal'[n] \in Entries /\ lsn'[n] \in Nat
      /\ wal' \in [Nodes -> Entries]
    BY DEF Types, Mirrors
<1>a. /\ mem[n] \in Entries /\ segs[n] \in Seq(Segment) /\ dropped[n] \in [Keys -> Nat]
      /\ lsn[n] \in Nat /\ wal[n] \in Entries /\ (mem[n][k] = NoEntry \/ mem[n][k] = wal[n][k])
    BY <1>0
<1>1. known \in Nat
    <2>1. Age(Local(mem[n], segs[n], k)) \in Nat
        BY <1>0, GetType, AgeType
    <2> QED BY <2>1, <1>0 DEF KnownOf
<1>2. ASSUME ~hidden[n], ~rewound[n]
      PROVE  Trusted(mem[n], wal[n], segs[n], dropped[n], lsn[n], k)
    BY <1>2 DEF SoundOK, Confused
<1>3. ASSUME hidden'[n] = hidden[n], rewound'[n] = rewound[n], mem'[n] = mem[n],
             wal'[n] = wal[n], lsn'[n] = lsn[n], segs'[n] = segs[n], dropped'[n] = dropped[n]
      PROVE  Goal
    <2>1. known >= known
        BY <1>1
    <2> QED BY <1>2, <1>3, <2>1
<1>4. ASSUME NEW o \in Nodes, NEW k2 \in Keys, NEW op \in Ops, write(o, k2, op)
      PROVE  Goal
    <2>1. PICK e \in Entry : Wrote(o, k2, op, e)
        BY <1>4, WriteEffect
    <2>2. /\ mem' = [mem EXCEPT ![o] = [mem[o] EXCEPT ![k2] = e]]
          /\ wal' = [wal EXCEPT ![o] = [wal[o] EXCEPT ![k2] = e]]
          /\ lsn' = [lsn EXCEPT ![o] = lsn[o] + 1] /\ e.lsn = lsn[o] + 1 /\ e.ts = clock + 1
          /\ segs' = segs /\ dropped' = dropped /\ hidden' = hidden /\ rewound' = rewound
        BY <2>1 DEF Wrote, auxVars
    <2>3. CASE o # n
        BY <2>2, <2>3, <1>0, <1>3
    <2>4. CASE o = n
        <3>1. /\ lsn'[n] = lsn[n] + 1 /\ e.lsn = lsn[n] + 1
              /\ mem'[n] \in Entries /\ wal'[n] \in Entries
              /\ \/ mem'[n][k] = mem[n][k] /\ wal'[n][k] = wal[n][k]
                 \/ mem'[n][k] = e /\ wal'[n][k] = e
            BY <2>2, <2>4, <1>0 DEF Entries
        <3>2. e.ts >= Age(Local(mem[n], segs[n], k)) /\ e.ts >= dropped[n][k]
            <4>1. Age(Local(mem[n], segs[n], k)) <= clock
                BY <1>0, ReadsAreCopies DEF TimesOK, Age, Seen
            <4>2. Age(Local(mem[n], segs[n], k)) \in Nat
                BY <1>0, GetType, AgeType
            <4>3. dropped[n][k] <= clock /\ dropped[n][k] \in Nat
                BY <1>0 DEF TimesOK
            <4> QED BY <4>1, <4>2, <4>3, <2>2, <1>0
        <3>3. ~hidden[n] /\ ~rewound[n]
            BY <2>2
        <3>4. Trusted(mem[n], wal[n], segs[n], dropped[n], lsn[n], k)
            BY <3>3, <1>2
        <3>5. /\ Trusted(mem'[n], wal'[n], segs[n], dropped[n], lsn[n] + 1, k)
              /\ KnownOf(mem'[n], segs[n], dropped[n], k) >= known
            <4> DEFINE m == mem[n]
                       w == wal[n]
                       ss == segs[n]
                       d == dropped[n]
                       l == lsn[n]
                       m2 == mem'[n]
                       w2 == wal'[n]
            <4>1. /\ m \in Entries /\ w \in Entries /\ ss \in Seq(Segment) /\ d \in [Keys -> Nat]
                  /\ l \in Nat /\ Trusted(m, w, ss, d, l, k) /\ (m[k] = NoEntry \/ m[k] = w[k])
                BY <3>4, <1>a
            <4>2. /\ e.ts >= Age(Local(m, ss, k)) /\ e.ts >= d[k] /\ e.lsn = l + 1
                  /\ m2 \in Entries /\ w2 \in Entries
                  /\ (m2[k] = m[k] /\ w2[k] = w[k]) \/ (m2[k] = e /\ w2[k] = e)
                BY <3>1, <3>2
            <4> HIDE DEF m, w, ss, d, l, m2, w2
            <4>3. /\ Trusted(m2, w2, ss, d, l + 1, k)
                  /\ KnownOf(m2, ss, d, k) >= KnownOf(m, ss, d, k)
                BY <4>1, <4>2, TrustedWritten
            <4> QED BY <4>3 DEF m, w, ss, d, l, m2, w2
        <3> QED BY <3>1, <3>3, <3>5, <2>2
    <2> QED BY <2>3, <2>4
<1>5. ASSUME NEW o \in Nodes, Flush(o) PROVE Goal
    <2>1. PICK w \in Entries :
             /\ wal' = [wal EXCEPT ![o] = w]
             /\ \A kk \in Keys : w[kk] = wal[o][kk] \/ w[kk] = NoEntry
        BY <1>5, FlushEffect
    <2>2. /\ segs' = [segs EXCEPT ![o] = Append(segs[o], [ents |-> mem[o], imported |-> FALSE])]
          /\ mem' = [mem EXCEPT ![o] = Empty] /\ lsn' = lsn
          /\ dropped' = dropped /\ hidden' = hidden /\ rewound' = rewound
        BY <1>5, FlushEffect DEF auxVars
    <2>3. CASE o # n
        BY <2>1, <2>2, <2>3, <1>0, <1>3
    <2>4. CASE o = n
        <3> DEFINE tt == Append(segs[n], [ents |-> mem[n], imported |-> FALSE])
        <3>1. segs'[n] = tt /\ mem'[n] = Empty /\ dropped'[n] = dropped[n] /\ lsn'[n] = lsn[n]
              /\ wal'[n] = w /\ (w[k] = wal[n][k] \/ w[k] = NoEntry)
            BY <2>1, <2>2, <2>4, <1>0
        <3>2. ~hidden[n] /\ ~rewound[n]
            BY <2>2
        <3>3. Trusted(mem[n], wal[n], segs[n], dropped[n], lsn[n], k)
            BY <3>2, <1>2
        <3>4. /\ Trusted(Empty, w, tt, dropped[n], lsn[n], k)
              /\ KnownOf(Empty, tt, dropped[n], k) = known
            BY <3>1, <3>3, <1>a, TrustedFlushed
        <3> HIDE DEF tt, known
        <3>5. KnownOf(Empty, tt, dropped[n], k) >= known
            BY <3>4, <1>1
        <3> QED BY <3>1, <3>2, <3>4, <3>5
    <2> QED BY <2>3, <2>4
<1>6. ASSUME NEW o \in Nodes, compact_once(o) PROVE Goal
    <2>1. /\ segs' = [segs EXCEPT ![o] = Compacted(segs[o])]
          /\ dropped' = [dropped EXCEPT ![o] = Dropped(o)] /\ Dropped(o) \in [Keys -> Nat]
          /\ mem' = mem /\ wal' = wal /\ lsn' = lsn /\ hidden' = hidden /\ rewound' = rewound
        BY <1>6, CompactEffect
    <2>2. CASE o # n
        BY <2>1, <2>2, <1>0, <1>3
    <2>3. CASE o = n
        <3>1. segs'[n] = Compacted(segs[n]) /\ mem'[n] = mem[n] /\ dropped'[n] = Dropped(n)
              /\ Dropped(n) \in [Keys -> Nat]
            BY <2>1, <2>3, <1>0
        <3>2. Dropped(n)[k] = IF HasDelete(segs[n], k) /\ Age(SegmentGet(segs[n], k)) > dropped[n][k]
                              THEN Age(SegmentGet(segs[n], k)) ELSE dropped[n][k]
            BY DEF Dropped, gone
        <3>3. ~hidden[n] /\ ~rewound[n]
            BY <2>1
        <3>4. Trusted(mem[n], wal[n], segs[n], dropped[n], lsn[n], k)
            BY <3>3, <1>2
        <3>5. /\ Trusted(mem[n], wal[n], Compacted(segs[n]), Dropped(n), lsn[n], k)
              /\ KnownOf(mem[n], Compacted(segs[n]), Dropped(n), k) = known
            <4> DEFINE m == mem[n]
                       w == wal[n]
                       ss == segs[n]
                       d == dropped[n]
                       l == lsn[n]
                       d2 == Dropped(n)
            <4>1. /\ m \in Entries /\ w \in Entries /\ ss \in Seq(Segment) /\ d \in [Keys -> Nat]
                  /\ l \in Nat /\ Trusted(m, w, ss, d, l, k) /\ d2 \in [Keys -> Nat]
                BY <3>1, <3>4, <1>a
            <4>2. d2[k] = IF HasDelete(ss, k) /\ Age(SegmentGet(ss, k)) > d[k]
                          THEN Age(SegmentGet(ss, k)) ELSE d[k]
                BY <3>2
            <4> HIDE DEF m, w, ss, d, l, d2
            <4>3. /\ Trusted(m, w, Compacted(ss), d2, l, k)
                  /\ KnownOf(m, Compacted(ss), d2, k) = KnownOf(m, ss, d, k)
                BY <4>1, <4>2, TrustedCompacted
            <4> QED BY <4>3 DEF m, w, ss, d, l, d2
        <3> HIDE DEF known
        <3>6. KnownOf(mem[n], Compacted(segs[n]), Dropped(n), k) >= known
            BY <3>5, <1>1
        <3> QED BY <3>1, <3>3, <3>5, <3>6, <2>1
    <2> QED BY <2>2, <2>3
<1>7. ASSUME NEW o \in Nodes, Apply(o) PROVE Goal
    <2> DEFINE h == Head(loop[o].todo)
               m2 == ApplyRecords(mem[o], won(o, Keys), h, lsn[o])
               w2 == ApplyRecords(wal[o], won(o, Keys), h, lsn[o])
               c == Len(won(o, Keys))
    <2>1. /\ h \in Entries
          /\ mem' = [mem EXCEPT ![o] = m2]
          /\ wal' = [wal EXCEPT ![o] = w2]
          /\ lsn' = [lsn EXCEPT ![o] = lsn[o] + c]
          /\ segs' = [segs EXCEPT ![o] = Register(segs[o], h)]
          /\ hidden' = [hidden EXCEPT ![o] = hidden[o] \/ Hides(o, h)]
          /\ dropped' = dropped /\ rewound' = rewound
        BY <1>7, ApplyEffect
    <2>2. CASE o # n
        <3> HIDE DEF h, m2, w2, c
        <3> QED BY <2>1, <2>2, <1>0, <1>3
    <2>3. CASE o = n
        <3>1. /\ m2 \in Entries /\ AppliedTo(mem[n], segs[n], h, Keys, lsn[n], mem[n], m2, k)
              /\ w2 \in Entries /\ AppliedTo(mem[n], segs[n], h, Keys, lsn[n], wal[n], w2, k)
              /\ c \in Nat
            BY <2>1, <2>3, <1>0, AppliedFacts DEF won
        <3>2. m2[k] = NoEntry \/ m2[k] = w2[k]
            BY <2>1, <2>3, <1>0, AppliedSame
        <3>3. c = Len(Winners(mem[n], segs[n], h, Keys))
            BY <2>3 DEF won
        <3> HIDE DEF h, m2, w2, c
        <3>4. /\ segs'[n] = Register(segs[n], h) /\ mem'[n] = m2 /\ wal'[n] = w2
              /\ dropped'[n] = dropped[n] /\ lsn'[n] = lsn[n] + c
            BY <2>1, <2>3, <1>0
        <3>5. ~hidden[n] /\ ~Hides(n, h) /\ ~rewound[n]
            BY <2>1, <2>3, <1>0, Zenon
        <3>6. IF Newer(h[k], Found(mem[n], segs[n], k))
              THEN /\ h[k] \in Entry /\ m2[k] \in Entry /\ m2[k].ts = h[k].ts /\ w2[k] = m2[k]
                   /\ w2[k].lsn > lsn[n] /\ w2[k].lsn <= lsn[n] + c
              ELSE m2[k] = mem[n][k] /\ w2[k] = wal[n][k]
            <4>1. \A e \in Entry : e # NoEntry
                BY ReplicationAssumption DEF Entry
            <4>2. IF Newer(h[k], Found(mem[n], segs[n], k))
                  THEN h[k] \in Entry /\ m2[k] \in Entry /\ m2[k].ts = h[k].ts
                  ELSE m2[k] = mem[n][k]
                BY <3>1 DEF AppliedTo
            <4>3. IF Newer(h[k], Found(mem[n], segs[n], k))
                  THEN w2[k].lsn > lsn[n] /\ w2[k].lsn <= lsn[n] + c
                  ELSE w2[k] = wal[n][k]
                BY <3>1, <3>3 DEF AppliedTo
            <4> QED BY <4>1, <4>2, <4>3, <3>2
        <3>7. ~(mem[n][k] = NoEntry /\ h[k] # NoEntry
                /\ Age(h[k]) < KnownOf(mem[n], segs[n], dropped[n], k))
            BY <3>5, NotHiding
        <3>8. lsn[n] + c \in Nat /\ lsn[n] <= lsn[n] + c
            BY <3>1, <1>0
        <3>9. Trusted(mem[n], wal[n], segs[n], dropped[n], lsn[n], k)
            BY <3>5, <1>2
        <3>10. /\ Trusted(m2, w2, Register(segs[n], h), dropped[n], lsn[n] + c, k)
               /\ KnownOf(m2, Register(segs[n], h), dropped[n], k) >= known
            BY <3>1, <3>6, <3>7, <3>8, <3>9, <2>1, <1>a, TrustedApplied
        <3> QED BY <3>4, <3>5, <3>10
    <2> QED BY <2>2, <2>3
<1>8. ASSUME NEW o \in Nodes, NEW S \in SUBSET Keys, crash_in_import(o, S) PROVE Goal
    <2> DEFINE h == Head(loop[o].todo)
               m2 == ApplyRecords(mem[o], won(o, S), h, lsn[o])
               w2 == ApplyRecords(wal[o], won(o, S), h, lsn[o])
               part == [x \in Keys |-> IF x \in S THEN h[x] ELSE NoEntry]
    <2>1. /\ h \in Entries
          /\ wal' = [wal EXCEPT ![o] = w2] /\ Reopen({o})
          /\ \A q \in Nodes : q # o => mem'[q] = mem[q] /\ lsn'[q] = lsn[q] /\ rewound'[q] = rewound[q]
          /\ hidden' = [hidden EXCEPT ![o] = hidden[o] \/ Hides(o, part)]
          /\ segs' = segs /\ dropped' = dropped
        BY <1>8, CrashEffect
    <2>2. CASE o # n
        <3> HIDE DEF h, m2, w2, part
        <3> QED BY <2>1, <2>2, <1>0, <1>3
    <2>3. CASE o = n
        <3>1. /\ m2 \in Entries /\ AppliedTo(mem[n], segs[n], h, S, lsn[n], mem[n], m2, k)
              /\ w2 \in Entries /\ AppliedTo(mem[n], segs[n], h, S, lsn[n], wal[n], w2, k)
            BY <2>1, <2>3, <1>0, AppliedFacts DEF won
        <3>2. m2[k] = NoEntry \/ m2[k] = w2[k]
            BY <2>1, <2>3, <1>0, AppliedSame
        <3>3. k \in S => part[k] = h[k]
            OBVIOUS
        <3> HIDE DEF h, m2, w2, part
        <3>4. wal'[n] = w2 /\ segs'[n] = segs[n] /\ dropped'[n] = dropped[n]
            BY <2>1, <2>3, <1>0
        <3>5. /\ ~rewound[n] /\ mem'[n] = wal'[n] /\ lsn'[n] = LastLsn(wal'[n])
              /\ lsn[n] <= lsn'[n]
            <4>1. {o} \in SUBSET Nodes /\ n \in {o}
                BY <2>3
            <4> QED BY <4>1, <2>1, <1>0, ReopenEffect
        <3>6. ~hidden[n] /\ ~Hides(n, part)
            BY <2>1, <2>3, <1>0, Zenon
        <3>7. k \in S => ~(mem[n][k] = NoEntry /\ h[k] # NoEntry
                           /\ Age(h[k]) < KnownOf(mem[n], segs[n], dropped[n], k))
            BY <3>3, <3>6, NotHiding
        <3>8. \/ m2[k] = mem[n][k] /\ w2[k] = wal[n][k]
              \/ /\ Newer(h[k], Found(mem[n], segs[n], k)) /\ h[k] \in Entry /\ m2[k] \in Entry
                 /\ m2[k].ts = h[k].ts /\ w2[k] = m2[k] /\ w2[k].lsn > lsn[n]
                 /\ ~(mem[n][k] = NoEntry /\ h[k] # NoEntry
                      /\ Age(h[k]) < KnownOf(mem[n], segs[n], dropped[n], k))
            <4>1. \A e \in Entry : e # NoEntry
                BY ReplicationAssumption DEF Entry
            <4>2. IF k \in S /\ Newer(h[k], Found(mem[n], segs[n], k))
                  THEN h[k] \in Entry /\ m2[k] \in Entry /\ m2[k].ts = h[k].ts
                  ELSE m2[k] = mem[n][k]
                BY <3>1 DEF AppliedTo
            <4>3. IF k \in S /\ Newer(h[k], Found(mem[n], segs[n], k))
                  THEN w2[k].lsn > lsn[n] ELSE w2[k] = wal[n][k]
                BY <3>1 DEF AppliedTo
            <4> QED BY <4>1, <4>2, <4>3, <3>2, <3>7
        <3>9. w2[k] # NoEntry => w2[k].lsn <= lsn'[n]
            BY <3>1, <3>4, <3>5, LastLsnFacts
        <3>10. Trusted(mem[n], wal[n], segs[n], dropped[n], lsn[n], k)
            BY <3>5, <3>6, <1>2
        <3>11. /\ Trusted(w2, w2, segs[n], dropped[n], lsn'[n], k)
               /\ KnownOf(w2, segs[n], dropped[n], k) >= known
            BY <3>1, <3>5, <3>8, <3>9, <3>10, <2>1, <1>0, TrustedReplayed
        <3> QED BY <3>4, <3>5, <3>6, <3>11
    <2> QED BY <2>2, <2>3
<1>9. ASSUME NEW o \in Nodes, Pull(o) PROVE Goal
    <2>1. UNCHANGED dataVars
        BY <1>9, PullFrame
    <2> QED BY <2>1, <1>3 DEF dataVars
<1>10. ASSUME NEW o \in Nodes, Fail(o) PROVE Goal
    <2>1. PICK R \in SUBSET Nodes : Reopen(R)
        BY <1>10, FailFrame
    <2>2. UNCHANGED <<wal, segs, dropped, hidden>>
        BY <1>10, FailFrame
    <2>3. /\ ~rewound[n]
          /\ \/ mem'[n] = mem[n] /\ lsn'[n] = lsn[n]
             \/ mem'[n] = wal'[n] /\ lsn'[n] = LastLsn(wal'[n]) /\ lsn[n] <= lsn'[n]
        BY <2>1, <1>0, ReopenEffect
    <2>4. CASE mem'[n] = mem[n] /\ lsn'[n] = lsn[n]
        <3>1. rewound'[n] = rewound[n]
            <4>1. rewound' \in [Nodes -> BOOLEAN]
                BY DEF Types
            <4> QED BY <4>1, <2>3, <1>0
        <3> QED BY <3>1, <2>2, <2>4, <1>3
    <2>5. CASE mem'[n] = wal'[n] /\ lsn'[n] = LastLsn(wal'[n]) /\ lsn[n] <= lsn'[n]
        <3>1. Empty \in Entries
            BY DEF Empty, Entries
        <3>2. wal[n][k] # NoEntry => wal[n][k].lsn <= lsn'[n]
            BY <2>2, <2>5, <1>0, LastLsnFacts
        <3>3. ~hidden[n]
            BY <2>2
        <3>4. Trusted(mem[n], wal[n], segs[n], dropped[n], lsn[n], k)
            BY <3>3, <2>3, <1>2
        <3>5. /\ Trusted(wal[n], wal[n], segs[n], dropped[n], lsn'[n], k)
              /\ KnownOf(wal[n], segs[n], dropped[n], k) >= known
            BY <3>1, <3>2, <3>4, <2>5, <1>0, TrustedReplayed
        <3> QED BY <3>3, <3>5, <2>2, <2>3, <2>5
    <2> QED BY <2>3, <2>4, <2>5
<1>11. UNCHANGED vars => Goal
    BY <1>3 DEF vars, nodeVars, auxVars
<1> HIDE DEF Goal
<1>12. Goal
    BY <1>4, <1>5, <1>6, <1>7, <1>8, <1>9, <1>10, <1>11, StepKinds
<1> QED BY <1>12 DEF Goal

-----------------------------------------------------------------------------
(***************************************************************************)
(* A segment whose import has returned is reflected by the node.           *)
(***************************************************************************)
AppliedOK ==
    \A n \in Nodes :
        /\ loop[n].pc = "record" /\ loop[n].data # "HashMismatch" /\ ~Confused(n)
        /\ Parses(Head(loop[n].todo))
        => \A k \in Keys : Age(Head(loop[n].todo)[k]) <= Known(n, k)

\* A segment that is skipped is one the node has; an applied one was merged; a rejected
\* one does not parse.
LEMMA AppliedStep ==
    ASSUME Types, RoundsOK, SegmentsLive, TimesOK, SoundOK, AppliedOK, [Next]_vars, Types'
    PROVE  AppliedOK'
<1> SUFFICES ASSUME NEW n \in Nodes, loop'[n].pc = "record", loop'[n].data # "HashMismatch",
                    ~hidden'[n], ~rewound'[n], Parses(Head(loop'[n].todo)), NEW k \in Keys
             PROVE  Age(Head(loop'[n].todo)[k]) <= KnownOf(mem'[n], segs'[n], dropped'[n], k)
    BY DEF AppliedOK, Confused, Known, KnownOf, Seen
<1> DEFINE old == KnownOf(mem[n], segs[n], dropped[n], k)
           new == KnownOf(mem'[n], segs'[n], dropped'[n], k)
<1>0. /\ mem[n] \in Entries /\ segs[n] \in Seq(Segment) /\ dropped[n] \in [Keys -> Nat]
      /\ mem'[n] \in Entries /\ segs'[n] \in Seq(Segment) /\ dropped'[n] \in [Keys -> Nat]
      /\ lsn[n] \in Nat /\ segs \in [Nodes -> Seq(Segment)] /\ mem \in [Nodes -> Entries]
      /\ wal[n] \in Entries /\ wal \in [Nodes -> Entries]
      /\ hidden \in [Nodes -> BOOLEAN] /\ (mem[n][k] = NoEntry \/ mem[n][k] = wal[n][k])
    BY DEF Types, Mirrors
<1>1. old \in Nat /\ new \in Nat
    <2>1. /\ Age(Local(mem[n], segs[n], k)) \in Nat
          /\ Age(Local(mem'[n], segs'[n], k)) \in Nat
        BY <1>0, GetType, AgeType
    <2> QED BY <2>1, <1>0 DEF KnownOf
<1>2. /\ ~hidden[n] /\ ~rewound[n] /\ new >= old
      /\ Trusted(mem[n], wal[n], segs[n], dropped[n], lsn[n], k)
      /\ Sound(mem[n], segs[n], dropped[n], k)
    BY SoundSteps DEF SoundOK, Confused, Trusted
<1>3. old = Known(n, k)
    BY DEF KnownOf, Known, Seen
<1>4. RoundsOK'
    BY LoopSteps
<1>5. CASE loop'[n] = loop[n]
    <2>1. Age(Head(loop[n].todo)[k]) <= old
        BY <1>2, <1>3, <1>5 DEF AppliedOK, Confused
    <2>2. Age(Head(loop[n].todo)[k]) \in Nat
        <3>1. Head(loop[n].todo) \in Entries
            BY <1>5, AppliedSegment
        <3>2. Head(loop[n].todo)[k] \in Entry \cup {NoEntry}
            BY <3>1 DEF Entries
        <3> QED BY <3>2, AgeType
    <2> HIDE DEF old, new
    <2> QED BY <2>1, <2>2, <1>1, <1>2, <1>5 DEF new
<1>6. CASE import_segment(n)
    <2> DEFINE h == Head(loop[n].todo)
    <2>1. /\ loop[n].pc = "import" /\ DOMAIN loop[n] = Fields /\ DOMAIN loop = Nodes
          /\ loop' = [loop EXCEPT ![n] = [loop[n] EXCEPT !.pc = "record", !.data = Outcome(n)]]
        BY <1>6 DEF import_segment, At, Goto, Types, RoundsOK, LoopOK
    <2>2. loop'[n].todo = loop[n].todo /\ loop'[n].data = Outcome(n)
        BY <2>1, LoopFields
    <2>3. h \in Entries
        BY <2>1, AppliedSegment
    <2>4. Outcome(n) \in {"Skipped", "Applied"}
        <3>1. Outcome(n) # "HashMismatch" /\ Parses(h)
            BY <2>2
        <3> HIDE DEF h
        <3> QED BY <3>1 DEF Outcome, h
    <2>5. CASE Outcome(n) = "Skipped"
        <3>1. h \in Hashes(segs[n])
            BY <2>5 DEF Outcome
        <3>2. PICK i \in DOMAIN segs[n] : segs[n][i].ents = h
            BY <3>1 DEF Hashes
        <3>3. Age(h[k]) <= Age(Local(mem[n], segs[n], k))
            BY <3>2, <1>2 DEF Sound
        <3>4. Age(h[k]) \in Nat /\ Age(Local(mem[n], segs[n], k)) \in Nat
            <4>1. h[k] \in Entry \cup {NoEntry}
                BY <2>3 DEF Entries
            <4> QED BY <4>1, <1>0, GetType, AgeType
        <3>5. Age(h[k]) <= old
            BY <3>3, <3>4, <1>0 DEF KnownOf
        <3> HIDE DEF old, new, h
        <3>6. Age(h[k]) <= new
            BY <3>4, <3>5, <1>1, <1>2
        <3> QED BY <3>6, <2>2 DEF h, new
    <2>6. CASE Outcome(n) = "Applied"
        <3> DEFINE m2 == ApplyRecords(mem[n], won(n, Keys), h, lsn[n])
                   w2 == ApplyRecords(wal[n], won(n, Keys), h, lsn[n])
                   c == Len(won(n, Keys))
        <3>1. /\ mem' = [mem EXCEPT ![n] = m2]
              /\ segs' = [segs EXCEPT ![n] = Register(segs[n], h)]
              /\ hidden' = [hidden EXCEPT ![n] = hidden[n] \/ Hides(n, h)]
              /\ dropped' = dropped
            BY <1>6, <2>6, ApplyEffect DEF Apply
        <3>2. /\ m2 \in Entries /\ AppliedTo(mem[n], segs[n], h, Keys, lsn[n], mem[n], m2, k)
              /\ w2 \in Entries /\ AppliedTo(mem[n], segs[n], h, Keys, lsn[n], wal[n], w2, k)
              /\ c \in Nat
            BY <2>3, <1>0, AppliedFacts DEF won
        <3>3. m2[k] = NoEntry \/ m2[k] = w2[k]
            BY <1>0, AppliedSame
        <3>4. c = Len(Winners(mem[n], segs[n], h, Keys))
            BY DEF won
        <3> HIDE DEF h, m2, w2, c
        <3>5. segs'[n] = Register(segs[n], h) /\ mem'[n] = m2 /\ dropped'[n] = dropped[n]
            BY <3>1, <1>0
        <3>6. ~Hides(n, h)
            BY <3>1, <1>0, Zenon
        <3>7. IF Newer(h[k], Found(mem[n], segs[n], k))
              THEN /\ h[k] \in Entry /\ m2[k] \in Entry /\ m2[k].ts = h[k].ts /\ w2[k] = m2[k]
                   /\ w2[k].lsn > lsn[n] /\ w2[k].lsn <= lsn[n] + c
              ELSE m2[k] = mem[n][k] /\ w2[k] = wal[n][k]
            <4>1. \A e \in Entry : e # NoEntry
                BY ReplicationAssumption DEF Entry
            <4>2. IF Newer(h[k], Found(mem[n], segs[n], k))
                  THEN h[k] \in Entry /\ m2[k] \in Entry /\ m2[k].ts = h[k].ts
                  ELSE m2[k] = mem[n][k]
                BY <3>2 DEF AppliedTo
            <4>3. IF Newer(h[k], Found(mem[n], segs[n], k))
                  THEN w2[k].lsn > lsn[n] /\ w2[k].lsn <= lsn[n] + c
                  ELSE w2[k] = wal[n][k]
                BY <3>2, <3>4 DEF AppliedTo
            <4> QED BY <4>1, <4>2, <4>3, <3>3
        <3>8. ~(mem[n][k] = NoEntry /\ h[k] # NoEntry
                /\ Age(h[k]) < KnownOf(mem[n], segs[n], dropped[n], k))
            BY <3>6, NotHiding
        <3>9. lsn[n] + c \in Nat /\ lsn[n] <= lsn[n] + c
            BY <3>2, <1>0
        <3>10. Age(h[k]) <= KnownOf(m2, Register(segs[n], h), dropped[n], k)
            <4>1. /\ mem[n] \in Entries /\ segs[n] \in Seq(Segment) /\ dropped[n] \in [Keys -> Nat]
                  /\ lsn[n] \in Nat /\ wal[n] \in Entries
                  /\ (mem[n][k] = NoEntry \/ mem[n][k] = wal[n][k])
                BY <1>0
            <4>2. Trusted(mem[n], wal[n], segs[n], dropped[n], lsn[n], k)
                BY <1>2
            <4> DEFINE m == mem[n]
                       w == wal[n]
                       ss == segs[n]
                       d == dropped[n]
                       l == lsn[n]
                       l2 == lsn[n] + c
            <4>3. /\ m \in Entries /\ w \in Entries /\ ss \in Seq(Segment) /\ d \in [Keys -> Nat]
                  /\ l \in Nat /\ Trusted(m, w, ss, d, l, k) /\ (m[k] = NoEntry \/ m[k] = w[k])
                  /\ h \in Entries /\ m2 \in Entries /\ w2 \in Entries /\ l2 \in Nat /\ l <= l2
                BY <4>1, <4>2, <3>2, <3>9, <2>3
            <4>4. /\ IF Newer(h[k], Found(m, ss, k))
                     THEN /\ h[k] \in Entry /\ m2[k] \in Entry /\ m2[k].ts = h[k].ts
                          /\ w2[k] = m2[k] /\ w2[k].lsn > l /\ w2[k].lsn <= l2
                     ELSE m2[k] = m[k] /\ w2[k] = w[k]
                  /\ ~(m[k] = NoEntry /\ h[k] # NoEntry /\ Age(h[k]) < KnownOf(m, ss, d, k))
                BY <3>7, <3>8
            <4> HIDE DEF m, w, ss, d, l, l2
            <4>5. Age(h[k]) <= KnownOf(m2, Register(ss, h), d, k)
                BY <4>3, <4>4, TrustedApplied
            <4> QED BY <4>5 DEF ss, d
        <3> QED BY <3>5, <3>10, <2>2 DEF h
    <2> QED BY <2>4, <2>5, <2>6
<1> QED BY <1>5, <1>6, LoopSteps
-----------------------------------------------------------------------------
(***************************************************************************)
(* The inductive invariant and what it gives.                              *)
(***************************************************************************)
ReplicationInv ==
    /\ Types /\ RoundsOK /\ SegmentsLive /\ RolesOK /\ TokensOK
    /\ TimesOK /\ SoundOK /\ AppliedOK

\* A node without data is trusted.
LEMMA SoundEmpty ==
    ASSUME NEW k \in Keys, NEW d, d[k] = 0
    PROVE  Trusted(Empty, Empty, <<>>, d, 0, k)
<1>1. <<>> \in Seq(Segment) /\ DOMAIN <<>> = {} /\ OwnAt(<<>>) = {}
    BY DEF OwnAt
<1>2. SegmentGet(<<>>, k) = NoEntry /\ SegmentGet(Own(<<>>), k) = NoEntry
    BY <1>1, HolderGet, OwnGet
<1>3. Local(Empty, <<>>, k) = NoEntry /\ Local(Empty, Own(<<>>), k) = NoEntry
    BY <1>2 DEF Local, Empty
<1>4. Age(NoEntry) = 0
    BY DEF Age
<1>5. Sound(Empty, <<>>, d, k)
    BY <1>1, <1>3, <1>4 DEF Sound
<1>6. Empty[k] = NoEntry
    BY DEF Empty
<1>7. Logged(Empty, <<>>, d, Empty, k) /\ InOrder(<<>>, Empty, 0, k)
    BY <1>1, <1>6 DEF Logged, InOrder
<1> QED BY <1>5, <1>7 DEF Trusted

\* The first state.
LEMMA InvInit ==
    ASSUME Init
    PROVE  ReplicationInv
<1> USE DEF Init
<1>1. Types
    <2>1. Empty \in Entries /\ Mirrors(Empty, Empty)
        BY DEF Empty, Entries, Mirrors
    <2>2. \A n \in Nodes : Mirrors(mem[n], wal[n])
        BY <2>1
    <2> QED BY <2>1, <2>2, ReplicationAssumption DEF Types
<1>2. RoundsOK
    BY IdleOK DEF RoundsOK
<1>3. SegmentsLive
    BY DEF SegmentsLive
<1>4. RolesOK /\ TokensOK
    BY DEF RolesOK, TokensOK
<1>5. \A k \in Keys : Copies(k) = {}
    <2> SUFFICES ASSUME NEW k \in Keys, NEW e \in Copies(k) PROVE FALSE
        OBVIOUS
    <2>1. PICK n \in Nodes : e \in Entry /\
             \/ wal[n][k] = e
             \/ \E i \in DOMAIN segs[n] : segs[n][i].ents[k] = e
             \/ \E i \in DOMAIN loop[n].todo : loop[n].todo[i][k] = e
        BY CopyIff
    <2>2. wal[n][k] = NoEntry /\ DOMAIN segs[n] = {} /\ DOMAIN loop[n].todo = {}
        BY DEF Empty, IdleLoop
    <2> QED BY <2>1, <2>2, ReplicationAssumption DEF Entry
<1>6. TimesOK
    BY <1>5 DEF TimesOK
<1>7. SoundOK
    BY SoundEmpty DEF SoundOK
<1>8. AppliedOK
    BY IdleOK DEF AppliedOK
<1> QED BY <1>1, <1>2, <1>3, <1>4, <1>6, <1>7, <1>8 DEF ReplicationInv

\* Every step keeps the invariant.
LEMMA InvStep ==
    ASSUME ReplicationInv, [Next]_vars
    PROVE  ReplicationInv'
<1> USE DEF ReplicationInv
<1>1. Types' /\ RoundsOK' /\ SegmentsLive'
    BY TypesStep, LoopSteps, SegmentsLiveStep
<1>2. RolesOK' /\ TokensOK'
    BY RolesStep, TokensStep
<1>3. TimesOK' /\ AppliedOK'
    BY <1>1, TimesStep, AppliedStep
<1>4. SoundOK'
    <2> SUFFICES ASSUME NEW n \in Nodes, ~hidden'[n], ~rewound'[n], NEW k \in Keys
                 PROVE  Trusted(mem'[n], wal'[n], segs'[n], dropped'[n], lsn'[n], k)
        BY DEF SoundOK, Confused
    <2> QED BY <1>1, SoundSteps
<1> QED BY <1>1, <1>2, <1>3, <1>4

\* The inductive invariant of replication.
THEOREM Invariant == Spec => []ReplicationInv
<1>1. Init => ReplicationInv
    BY InvInit
<1>2. ReplicationInv /\ [Next]_vars => ReplicationInv'
    BY InvStep
<1> QED BY <1>1, <1>2, PTL DEF Spec

\* The set of primaries has at most one element.
LEMMA OnePrimary ==
    ASSUME RolesOK
    PROVE  Cardinality({n \in Nodes : role[n] = "primary"}) <= 1
<1> DEFINE P == {n \in Nodes : role[n] = "primary"}
<1>1. \A a, b \in P : a = b
    BY DEF RolesOK
<1> HIDE DEF P
<1>2. CASE P = {}
    BY <1>2, FS_EmptySet DEF P
<1>3. CASE P # {}
    <2>1. PICK a \in P : P = {a}
        BY <1>1, <1>3
    <2>2. Cardinality({a}) = 1
        BY FS_Singleton
    <2> QED BY <2>1, <2>2 DEF P
<1> QED BY <1>2, <1>3

\* TypeOK holds in every reachable state: tables have their types, a registered segment
\* holds a key, there is at most one primary, which never pulls, and import_segment
\* always has a segment to import.
THEOREM TypeCorrect == Spec => []TypeOK
<1>1. ReplicationInv => TypeOK
    <2> SUFFICES ASSUME ReplicationInv PROVE TypeOK
        OBVIOUS
    <2>1. \A n \in Nodes :
             /\ mem[n] \in Entries
             /\ \A i \in DOMAIN segs[n] : segs[n][i] \in Segment /\ Live(segs[n][i].ents) # {}
        <3> SUFFICES ASSUME NEW n \in Nodes
                     PROVE  /\ mem[n] \in Entries
                            /\ \A i \in DOMAIN segs[n] :
                                  segs[n][i] \in Segment /\ Live(segs[n][i].ents) # {}
            OBVIOUS
        <3>1. mem[n] \in Entries /\ segs[n] \in Seq(Segment)
            BY DEF ReplicationInv, Types
        <3>2. \A i \in DOMAIN segs[n] : segs[n][i] \in Segment
            BY <3>1
        <3> QED BY <3>1, <3>2 DEF ReplicationInv, SegmentsLive
    <2>2. \A n \in Nodes : loop[n].pc \in {"import", "record"} => loop[n].todo # <<>>
        BY DEF ReplicationInv, RoundsOK, LoopOK
    <2>3. role \in [Nodes -> {"primary", "replica"}]
        BY DEF ReplicationInv, Types
    <2>4. \A n \in Nodes : (role[n] = "primary" => loop[n] = IdleLoop) /\ wtoken[n] = wfile[n]
        BY DEF ReplicationInv, RolesOK
    <2>5. Cardinality({n \in Nodes : role[n] = "primary"}) <= 1
        BY OnePrimary DEF ReplicationInv
    <2> QED BY <2>1, <2>2, <2>3, <2>4, <2>5 DEF TypeOK
<1> QED BY <1>1, Invariant, PTL

\* Fencing: as long as every promotion reached the old primary, the tokens they hand out
\* increase, kills inside set_write_token included.
THEOREM Fencing == Spec => []TokensGrow
<1>1. ReplicationInv => TokensGrow
    BY DEF ReplicationInv, TokensOK, TokensGrow
<1> QED BY <1>1, Invariant, PTL

\* Last writer wins: no step makes a node forget a write it has reflected, unless an
\* import was registered over a newer entry or a reopening lowered the LSN counter.
THEOREM NothingForgotten == Spec => NeverForgets
<1>1. ReplicationInv /\ [Next]_vars =>
        [\A n \in Nodes, k \in Keys : ~Confused(n)' => Known(n, k)' >= Known(n, k)]_vars
    <2> SUFFICES ASSUME ReplicationInv, [Next]_vars, NEW n \in Nodes, NEW k \in Keys,
                        ~hidden'[n], ~rewound'[n]
                 PROVE  Known(n, k)' >= Known(n, k)
        BY DEF Confused
    <2>1. KnownOf(mem'[n], segs'[n], dropped'[n], k) >= KnownOf(mem[n], segs[n], dropped[n], k)
        BY SoundSteps, InvStep DEF ReplicationInv
    <2> QED BY <2>1 DEF Known, KnownOf, Seen
<1> QED BY <1>1, Invariant, PTL DEF Spec, NeverForgets

\* The hash of a segment that parses leaves the durable pending list within a round only
\* when the node reflects every record of it.
THEOREM PendingKept == Spec => PendingUntilApplied
<1> DEFINE A == \A n \in Nodes : loop[n].pc # "list" /\ ~Confused(n) =>
                   \A h \in pending[n] \ pending'[n] :
                       Parses(h) => \A k \in Keys : Age(h[k]) <= Known(n, k)
<1>1. ReplicationInv /\ [Next]_vars => [A]_vars
    <2> SUFFICES ASSUME ReplicationInv, [Next]_vars, NEW n \in Nodes, loop[n].pc # "list",
                        ~Confused(n), NEW h \in pending[n] \ pending'[n], Parses(h),
                        NEW k \in Keys
                 PROVE  Age(h[k]) <= Known(n, k)
        BY DEF A
    <2>1. DOMAIN pending = Nodes
        BY DEF ReplicationInv, Types
    <2>2. record_outcome(n) /\ NoLongerPending(loop[n].data) /\ h = Head(loop[n].todo)
        <3>1. ASSUME pending' = pending PROVE FALSE
            BY <3>1
        <3>2. ASSUME NEW o \in Nodes, record_outcome(o)
              PROVE  record_outcome(n) /\ NoLongerPending(loop[n].data) /\ h = Head(loop[n].todo)
            <4>1. NoLongerPending(loop[o].data)
                  /\ pending' = [pending EXCEPT ![o] = pending[o] \ {Head(loop[o].todo)}]
                BY <3>1, <3>2 DEF record_outcome
            <4>2. o = n
                BY <4>1, <2>1
            <4> QED BY <4>1, <4>2, <3>2, <2>1
        <3>3. ASSUME NEW o \in Nodes, NEW p \in Nodes, list_missing(o, p) PROVE FALSE
            <4>1. loop[o].pc = "list"
                  /\ pending' = [pending EXCEPT ![o] = ToSet(MissingSegments(segs[p], segs[o]))]
                BY <3>3 DEF list_missing, At
            <4> QED BY <4>1, <2>1
        <3>4. ASSUME NEW o \in Nodes,
                     \/ \E k2 \in Keys, op \in Ops : write(o, k2, op)
                     \/ Flush(o) \/ compact_once(o)
                     \/ compare(o) \/ give_up(o) \/ fetch_corrupt(o) \/ fetch_failed(o)
                     \/ import_segment(o) \/ finish_round(o)
                     \/ restart(o) \/ crash_in_promote(o)
                     \/ \E S \in SUBSET Keys : crash_in_import(o, S)
                     \/ \E p \in Nodes : probe(o, p) \/ fetch_ok(o, p)
                     \/ \E p \in Nodes, reached \in BOOLEAN : promote_to_primary(o, p, reached)
              PROVE  pending' = pending
            BY <3>4 DEF write, Flush, flush_to_segments, compact_once, compare, give_up, fetch_corrupt,
               fetch_failed, import_segment, finish_round, restart, crash_in_promote,
               crash_in_import, probe, fetch_ok, promote_to_primary, pullVars
        <3>5. UNCHANGED vars => pending' = pending
            BY DEF vars, pullVars
        <3> QED BY <3>1, <3>2, <3>3, <3>4, <3>5, Zenon DEF Next, Flush
    <2>3. loop[n].pc = "record" /\ loop[n].data # "HashMismatch"
        BY <2>2 DEF record_outcome, At, NoLongerPending
    <2> QED BY <2>2, <2>3 DEF ReplicationInv, AppliedOK
<1>2. PendingUntilApplied <=> [][A]_vars
    BY DEF PendingUntilApplied
<1> HIDE DEF A
<1> QED BY <1>1, <1>2, Invariant, PTL DEF Spec

-----------------------------------------------------------------------------
(***************************************************************************)
(* What an equal Merkle root says.  Copies with the same time are of the   *)
(* same write; unless a tombstone went unheard, every node knows what any  *)
(* node has dropped; before the first failover the primary knows of every  *)
(* copy, and what it has dropped last was a tombstone.                     *)
(***************************************************************************)
OneOp == \A k \in Keys : \A e, f \in Copies(k) : e.ts = f.ts => e.op = f.op

Heard ==
    ~unheard => \A n, o \in Nodes, k \in Keys : ~Confused(n) => dropped[o][k] <= Known(n, k)

PrimaryLeads ==
    tokens = <<>> =>
        /\ \A n \in Nodes : role[n] = "primary" <=> n = First
        /\ ~hidden[First]
        /\ ~rewound[First] => \A k \in Keys :
              /\ \A e \in Copies(k) : e.ts <= Known(First, k)
              /\ Seen(First, k) = NoEntry /\ dropped[First][k] > 0 =>
                    \A e \in Copies(k) : e.ts = dropped[First][k] => e.op = "Delete"

SyncInv == ReplicationInv /\ OneOp /\ Heard /\ PrimaryLeads

\* A copy is an entry and its time a natural number.
LEMMA CopyTime ==
    ASSUME NEW k \in Keys, NEW e \in Copies(k)
    PROVE  e \in Entry /\ e.ts \in Nat /\ e # NoEntry
BY CopyIff, ReplicationAssumption DEF Entry

\* What a node knows of a key is a time.
LEMMA KnownType ==
    ASSUME Types, NEW n \in Nodes, NEW k \in Keys
    PROVE  /\ Known(n, k) \in Nat /\ Age(Seen(n, k)) \in Nat /\ dropped[n][k] \in Nat
           /\ Age(Seen(n, k)) <= Known(n, k) /\ dropped[n][k] <= Known(n, k)
           /\ Seen(n, k) \in Entry \cup {NoEntry}
<1>1. mem[n] \in Entries /\ segs[n] \in Seq(Segment) /\ dropped[n] \in [Keys -> Nat]
    BY DEF Types
<1>2. Seen(n, k) \in Entry \cup {NoEntry}
    BY <1>1, GetType DEF Seen
<1>3. Age(Seen(n, k)) \in Nat
    BY <1>2, AgeType
<1> QED BY <1>1, <1>2, <1>3 DEF Known

\* A write has a time of its own.
LEMMA OneOpStep ==
    ASSUME SyncInv, [Next]_vars
    PROVE  OneOp'
<1>0. Types /\ RoundsOK /\ SegmentsLive /\ RolesOK /\ TimesOK /\ OneOp
    BY DEF SyncInv, ReplicationInv
<1>1. SUFFICES ASSUME NEW k \in Keys, NEW e, NEW f, e \in Copies(k)', f \in Copies(k)',
                      e.ts = f.ts
               PROVE  e.op = f.op
    BY DEF OneOp
<1> DEFINE Old(x) == \E y \in Copies(k) : y.op = x.op /\ y.ts = x.ts
           New(x) == \E n \in Nodes, op \in Ops : Wrote(n, k, op, x)
<1>2. (Old(e) \/ New(e)) /\ (Old(f) \/ New(f))
    BY <1>0, <1>1, CopySteps
<1>3. clock \in Nat
    BY <1>0 DEF Types
<1>4. ASSUME NEW x, Old(x) PROVE x.ts \in Nat /\ x.ts <= clock
    BY <1>0, <1>4, CopyTime DEF TimesOK
<1>5. ASSUME NEW x, New(x) PROVE x.ts = clock + 1
    BY <1>5 DEF Wrote
<1>6. CASE Old(e) /\ Old(f)
    BY <1>0, <1>1, <1>6 DEF OneOp
<1>7. CASE New(e) /\ New(f)
    <2>1. PICK n \in Nodes, op \in Ops : Wrote(n, k, op, e)
        BY <1>7
    <2>2. PICK o \in Nodes, op2 \in Ops : Wrote(o, k, op2, f)
        BY <1>7
    <2>3. o = n
        BY <2>1, <2>2, <1>0 DEF Wrote, RolesOK
    <2>4. mem \in [Nodes -> Entries] /\ mem[n] \in Entries
        BY <1>0 DEF Types
    <2>5. mem'[n] = [mem[n] EXCEPT ![k] = e] /\ mem'[n] = [mem[n] EXCEPT ![k] = f]
        BY <2>1, <2>2, <2>3, <2>4 DEF Wrote
    <2>6. e = f
        BY <2>4, <2>5 DEF Entries
    <2> QED BY <2>6
<1>8. CASE (Old(e) /\ New(f)) \/ (New(e) /\ Old(f))
    BY <1>1, <1>3, <1>4, <1>5, <1>8
<1> HIDE DEF Old, New
<1> QED BY <1>2, <1>6, <1>7, <1>8

\* Only a compaction drops tombstones, and only a compaction leaves one unheard.
LEMMA DroppedSteps ==
    ASSUME Types, [Next]_vars, NEW o \in Nodes, NEW k \in Keys
    PROVE  \/ dropped'[o][k] = dropped[o][k] /\ (unheard => unheard')
           \/ /\ compact_once(o) /\ HasDelete(segs[o], k)
              /\ dropped'[o][k] = Age(SegmentGet(segs[o], k))
              /\ (unheard => unheard')
              /\ ~unheard' => \A n \in Nodes : ~(Known(n, k) < Age(SegmentGet(segs[o], k)))
<1>0. dropped \in [Nodes -> [Keys -> Nat]]
    BY DEF Types
<1>1. ASSUME NEW p \in Nodes, compact_once(p)
      PROVE  \/ dropped'[o][k] = dropped[o][k] /\ (unheard => unheard')
             \/ /\ compact_once(o) /\ HasDelete(segs[o], k)
                /\ dropped'[o][k] = Age(SegmentGet(segs[o], k))
                /\ (unheard => unheard')
                /\ ~unheard' => \A n \in Nodes : ~(Known(n, k) < Age(SegmentGet(segs[o], k)))
    <2>1. /\ dropped' = [dropped EXCEPT ![p] = Dropped(p)]
          /\ unheard' = (unheard \/ \E k2 \in gone(p), n \in Nodes :
                                      Known(n, k2) < Age(SegmentGet(segs[p], k2)))
        BY <1>1, CompactEffect
    <2>2. dropped'[o] = dropped[o] \/ (o = p /\ dropped'[o] = Dropped(o))
        BY <2>1, <1>0
    <2>3. \/ Dropped(o)[k] = dropped[o][k]
          \/ k \in gone(o) /\ Dropped(o)[k] = Age(SegmentGet(segs[o], k))
        BY DEF Dropped
    <2>4. k \in gone(o) => HasDelete(segs[o], k)
        BY DEF gone
    <2>5. (unheard => unheard')
          /\ (~unheard' => \A k2 \in gone(p), n \in Nodes :
                             ~(Known(n, k2) < Age(SegmentGet(segs[p], k2))))
        BY <2>1, Zenon
    <2> QED BY <2>2, <2>3, <2>4, <2>5, <1>1
<1>2. ASSUME UNCHANGED <<dropped, unheard>>
      PROVE  dropped'[o][k] = dropped[o][k] /\ (unheard => unheard')
    BY <1>2
<1>3. ASSUME NEW p \in Nodes,
             \/ \E k2 \in Keys, op \in Ops : write(p, k2, op)
             \/ Flush(p) \/ Apply(p) \/ \E S \in SUBSET Keys : crash_in_import(p, S)
      PROVE  UNCHANGED <<dropped, unheard>>
    BY <1>3 DEF write, Flush, flush_to_segments, Apply, import_segment, crash_in_import, auxVars
<1>4. ASSUME NEW p \in Nodes, Pull(p) \/ Fail(p) PROVE UNCHANGED <<dropped, unheard>>
    BY <1>4, PullFrame, FailFrame DEF dataVars
<1>5. UNCHANGED vars => UNCHANGED <<dropped, unheard>>
    BY DEF vars, auxVars
<1>6. \/ UNCHANGED <<dropped, unheard>>
      \/ \E p \in Nodes : compact_once(p)
    BY <1>3, <1>4, <1>5, StepKinds
<1> QED BY <1>1, <1>2, <1>6

\* What one node drops the others know, as long as none is recorded as unheard.
LEMMA HeardStep ==
    ASSUME SyncInv, [Next]_vars
    PROVE  Heard'
<1>0. Types /\ RoundsOK /\ SegmentsLive /\ TimesOK /\ SoundOK /\ Heard
    BY DEF SyncInv, ReplicationInv
<1>a. Types'
    BY <1>0, TypesStep
<1>1. SUFFICES ASSUME ~unheard', NEW n \in Nodes, NEW o \in Nodes, NEW k \in Keys,
                      ~hidden'[n], ~rewound'[n]
               PROVE  dropped'[o][k] <= Known(n, k)'
    BY DEF Heard, Confused
<1>2. ~Confused(n)
      /\ KnownOf(mem'[n], segs'[n], dropped'[n], k) >= KnownOf(mem[n], segs[n], dropped[n], k)
    BY <1>0, <1>a, <1>1, SoundSteps DEF Confused
<1>3. Known(n, k)' >= Known(n, k)
    BY <1>2 DEF KnownOf, Known, Seen
<1>4. Known(n, k) \in Nat /\ dropped[o][k] \in Nat
    BY <1>0, KnownType
<1>5. Known(n, k)' \in Nat
    <2>1. dropped'[n] \in [Keys -> Nat] /\ mem'[n] \in Entries /\ segs'[n] \in Seq(Segment)
        BY <1>a DEF Types
    <2>2. Age(Local(mem'[n], segs'[n], k)) \in Nat
        BY <2>1, GetType, AgeType
    <2> QED BY <2>1, <2>2 DEF Known, Seen
<1>6. CASE dropped'[o][k] = dropped[o][k] /\ (unheard => unheard')
    <2>1. dropped[o][k] <= Known(n, k)
        BY <1>0, <1>1, <1>2, <1>6 DEF Heard
    <2> QED BY <2>1, <1>3, <1>4, <1>5, <1>6
<1>7. CASE /\ dropped'[o][k] = Age(SegmentGet(segs[o], k))
           /\ ~unheard' => \A p \in Nodes : ~(Known(p, k) < Age(SegmentGet(segs[o], k)))
    <2>1. segs[o] \in Seq(Segment) /\ mem[o] \in Entries
        BY <1>0 DEF Types
    <2>2. Age(SegmentGet(segs[o], k)) \in Nat
        BY <2>1, GetType, AgeType
    <2>3. ~(Known(n, k) < Age(SegmentGet(segs[o], k)))
        BY <1>1, <1>7
    <2> QED BY <2>2, <2>3, <1>3, <1>4, <1>5, <1>7
<1> QED BY <1>0, <1>6, <1>7, DroppedSteps

\* The data of a primary change by its writes, flushes and compactions, and a reopening
\* gives it what its log has.
LEMMA PrimarySteps ==
    ASSUME Types, RoundsOK, [Next]_vars, NEW n \in Nodes, role[n] = "primary"
    PROVE  /\ hidden'[n] = hidden[n]
           /\ \/ /\ mem'[n] = mem[n] \/ mem'[n] = wal[n]
                 /\ segs'[n] = segs[n] /\ dropped'[n] = dropped[n]
              \/ \E k \in Keys, op \in Ops, e \in Entry : Wrote(n, k, op, e)
              \/ Flush(n) \/ compact_once(n)
<1> DEFINE Same == /\ mem'[n] = mem[n] \/ mem'[n] = wal[n]
                   /\ segs'[n] = segs[n] /\ dropped'[n] = dropped[n] /\ hidden'[n] = hidden[n]
<1>0. /\ mem \in [Nodes -> Entries] /\ segs \in [Nodes -> Seq(Segment)]
      /\ dropped \in [Nodes -> [Keys -> Nat]] /\ hidden \in [Nodes -> BOOLEAN]
    BY DEF Types
<1>1. ASSUME NEW o \in Nodes, NEW k \in Keys, NEW op \in Ops, write(o, k, op)
      PROVE  hidden' = hidden /\ (Same \/ \E e \in Entry : Wrote(n, k, op, e))
    <2>1. PICK e \in Entry : Wrote(o, k, op, e)
        BY <1>1, WriteEffect
    <2>2. hidden' = hidden /\ (o # n => Same)
        BY <2>1, <1>0 DEF Wrote, auxVars
    <2> QED BY <2>1, <2>2
<1>2. ASSUME NEW o \in Nodes, Flush(o)
      PROVE  hidden' = hidden /\ (Same \/ o = n)
    BY <1>2, <1>0 DEF Flush, flush_to_segments, auxVars
<1>3. ASSUME NEW o \in Nodes, compact_once(o)
      PROVE  hidden' = hidden /\ (Same \/ o = n)
    <2>1. /\ segs' = [segs EXCEPT ![o] = Compacted(segs[o])]
          /\ dropped' = [dropped EXCEPT ![o] = Dropped(o)]
          /\ mem' = mem /\ hidden' = hidden
        BY <1>3, CompactEffect
    <2> QED BY <2>1, <1>0
<1>4. ASSUME NEW o \in Nodes, Apply(o) PROVE Same
    <2> DEFINE h == Head(loop[o].todo)
               m2 == ApplyRecords(mem[o], won(o, Keys), h, lsn[o])
               b == hidden[o] \/ Hides(o, h)
    <2>1. /\ role[o] = "replica"
          /\ mem' = [mem EXCEPT ![o] = m2]
          /\ segs' = [segs EXCEPT ![o] = Register(segs[o], h)]
          /\ hidden' = [hidden EXCEPT ![o] = b]
          /\ dropped' = dropped
        BY <1>4, ApplyEffect
    <2>2. o # n
        BY <2>1
    <2> HIDE DEF h, m2, b
    <2> QED BY <2>1, <2>2, <1>0
<1>5. ASSUME NEW o \in Nodes, NEW S \in SUBSET Keys, crash_in_import(o, S) PROVE Same
    <2> DEFINE h == Head(loop[o].todo)
               b == hidden[o] \/ Hides(o, [k \in Keys |-> IF k \in S THEN h[k] ELSE NoEntry])
    <2>1. /\ role[o] = "replica"
          /\ \A q \in Nodes : q # o => mem'[q] = mem[q] /\ lsn'[q] = lsn[q]
          /\ hidden' = [hidden EXCEPT ![o] = b]
          /\ segs' = segs /\ dropped' = dropped
        BY <1>5, CrashEffect
    <2>2. o # n
        BY <2>1
    <2> HIDE DEF h, b
    <2> QED BY <2>1, <2>2, <1>0
<1>6. ASSUME NEW o \in Nodes, Pull(o) PROVE Same
    BY <1>6, PullFrame DEF dataVars
<1>7. ASSUME NEW o \in Nodes, Fail(o) PROVE Same
    <2>1. PICK R \in SUBSET Nodes : Reopen(R)
        BY <1>7, FailFrame
    <2>2. UNCHANGED <<wal, segs, dropped, hidden>>
        BY <1>7, FailFrame
    <2>3. wal' \in [Nodes -> Entries]
        BY <2>2 DEF Types
    <2>4. mem'[n] = mem[n] \/ mem'[n] = wal'[n]
        BY <2>1, <2>3, ReopenEffect
    <2> QED BY <2>2, <2>4
<1>8. UNCHANGED vars => Same
    BY DEF vars, nodeVars, auxVars
<1> HIDE DEF Same
<1>9. \/ Same
      \/ hidden' = hidden /\ \E k \in Keys, op \in Ops, e \in Entry : Wrote(n, k, op, e)
      \/ hidden' = hidden /\ (Flush(n) \/ compact_once(n))
    BY <1>1, <1>2, <1>3, <1>4, <1>5, <1>6, <1>7, <1>8, StepKinds
<1> QED BY <1>9 DEF Same

\* Before the first promotion the roles are those of the start.
LEMMA NoPromotion ==
    ASSUME Types, [Next]_vars, tokens' = <<>>
    PROVE  tokens = <<>> /\ role' = role
<1>1. UNCHANGED <<role, tokenVars>> => tokens = <<>> /\ role' = role
    BY DEF tokenVars
<1>2. ASSUME NEW n \in Nodes,
             restart(n) \/ crash_in_promote(n) \/ \E S \in SUBSET Keys : crash_in_import(n, S)
      PROVE  tokens = <<>> /\ role' = role
    BY <1>2 DEF restart, crash_in_promote, crash_in_import
<1>3. ASSUME NEW n \in Nodes, NEW p \in Nodes, NEW reached \in BOOLEAN,
             promote_to_primary(n, p, reached)
      PROVE  FALSE
    <2>1. PICK t : tokens' = Append(tokens, t)
        BY <1>3 DEF promote_to_primary
    <2>2. tokens \in Seq(Nat)
        BY DEF Types
    <2>3. Len(tokens') = Len(tokens) + 1 /\ Len(tokens) \in Nat
        BY <2>1, <2>2
    <2> QED BY <2>3
<1> QED BY <1>1, <1>2, <1>3, RoleFrame DEF Fail

\* A compaction takes a key from view only with a tombstone, the newest entry of the node.
LEMMA TakenByTombstone ==
    ASSUME SyncInv, NEW n \in Nodes, ~Confused(n), compact_once(n), NEW k \in Keys,
           Seen(n, k)' = NoEntry, NEW f \in Copies(k), f.ts = dropped'[n][k],
           Seen(n, k) # NoEntry
    PROVE  f.op = "Delete"
<1> DEFINE old == SegmentGet(segs[n], k)
           new == SegmentGet(Own(segs[n]), k)
<1>0. Types /\ TimesOK /\ SoundOK /\ OneOp
    BY DEF SyncInv, ReplicationInv
<1>1. /\ mem[n] \in Entries /\ segs[n] \in Seq(Segment) /\ dropped[n] \in [Keys -> Nat]
      /\ segs \in [Nodes -> Seq(Segment)] /\ dropped \in [Nodes -> [Keys -> Nat]]
    BY <1>0 DEF Types
<1>2. /\ segs' = [segs EXCEPT ![n] = Compacted(segs[n])]
      /\ dropped' = [dropped EXCEPT ![n] = Dropped(n)] /\ mem' = mem
    BY <1>0, CompactEffect
<1>3. segs'[n] = Compacted(segs[n]) /\ dropped'[n] = Dropped(n) /\ mem'[n] = mem[n]
    BY <1>1, <1>2
<1>4. SegmentGet(Compacted(segs[n]), k) = Survivor(segs[n], k)
    BY <1>1, CompactedFacts
<1>5. mem[n][k] = NoEntry /\ Survivor(segs[n], k) = NoEntry
    BY <1>3, <1>4 DEF Seen, Local
<1>6. Local(mem[n], segs[n], k) = old /\ Local(mem[n], Own(segs[n]), k) = new /\ old # NoEntry
    BY <1>5 DEF Local, Seen
<1>7. /\ Sound(mem[n], segs[n], dropped[n], k)
      /\ Merged(segs[n], k) = new
    <2>1. Sound(mem[n], segs[n], dropped[n], k) /\ InOrder(segs[n], wal[n], lsn[n], k)
        BY <1>0 DEF SoundOK, Trusted
    <2> QED BY <2>1, <1>1, MergedIsLast
<1>8. old \in Copies(k) /\ (new # NoEntry => new \in Copies(k))
    BY <1>0, <1>6, ReadsAreCopies
<1>9. old \in Entry /\ old.ts \in Nat /\ old.ts >= 1 /\ Age(old) = old.ts
    BY <1>0, <1>6, <1>8, CopyTime DEF TimesOK, Age
<1>10. Age(old) <= Age(new) /\ dropped[n][k] <= Age(old)
    BY <1>6, <1>7 DEF Sound
<1>11. new # NoEntry
    BY <1>9, <1>10 DEF Age
<1>12. new \in Entry /\ new.ts \in Nat /\ Age(new) = new.ts
    BY <1>8, <1>11, CopyTime DEF Age
<1>13. PICK i \in DOMAIN segs[n] : segs[n][i].ents[k] = new
    <2>1. OwnAt(segs[n]) \subseteq DOMAIN segs[n]
        BY DEF OwnAt
    <2>2. new = NoEntry \/ \E j \in OwnAt(segs[n]) : new = segs[n][j].ents[k]
        BY <1>1, OwnGet
    <2> QED BY <2>1, <2>2, <1>11
<1>14. Age(new) <= Age(old)
    BY <1>6, <1>7, <1>13 DEF Sound
<1>15. new.op = "Delete"
    <2>1. Visible(new) = {}
        BY <1>5, <1>7, <1>11 DEF Survivor
    <2> QED BY <2>1, <1>11, <1>12 DEF Visible, Entry
<1>16. HasDelete(segs[n], k)
    BY <1>11, <1>13, <1>15 DEF HasDelete
<1>17. Dropped(n)[k] = IF HasDelete(segs[n], k) /\ Age(old) > dropped[n][k]
                       THEN Age(old) ELSE dropped[n][k]
    BY DEF Dropped, gone
<1>18. dropped[n][k] \in Nat
    BY <1>1
<1> HIDE DEF old, new
<1>19. Dropped(n)[k] = new.ts
    BY <1>9, <1>10, <1>12, <1>14, <1>16, <1>17, <1>18
<1>20. f.ts = new.ts
    BY <1>3, <1>19
<1> QED BY <1>0, <1>8, <1>11, <1>15, <1>20 DEF OneOp

\* The first primary knows of every copy until a failover.
LEMMA LeadsStep ==
    ASSUME SyncInv, [Next]_vars
    PROVE  PrimaryLeads'
<1>0. Types /\ RoundsOK /\ SegmentsLive /\ TimesOK /\ SoundOK /\ PrimaryLeads /\ First \in Nodes
    BY ReplicationAssumption DEF SyncInv, ReplicationInv
<1>1. SUFFICES ASSUME tokens' = <<>>
               PROVE  /\ \A n \in Nodes : role'[n] = "primary" <=> n = First
                      /\ ~hidden'[First]
                      /\ ~rewound'[First] => \A k \in Keys :
                            /\ \A e \in Copies(k)' : e.ts <= Known(First, k)'
                            /\ Seen(First, k)' = NoEntry /\ dropped'[First][k] > 0 =>
                                  \A e \in Copies(k)' : e.ts = dropped'[First][k] => e.op = "Delete"
    BY DEF PrimaryLeads
<1>2. tokens = <<>> /\ role' = role
    BY <1>0, <1>1, NoPromotion
<1>3. (\A n \in Nodes : role[n] = "primary" <=> n = First) /\ ~hidden[First]
    BY <1>0, <1>2 DEF PrimaryLeads
<1>4. role[First] = "primary"
    BY <1>0, <1>3
<1>5. /\ hidden'[First] = hidden[First]
      /\ \/ /\ mem'[First] = mem[First] \/ mem'[First] = wal[First]
            /\ segs'[First] = segs[First] /\ dropped'[First] = dropped[First]
         \/ \E k \in Keys, op \in Ops, e \in Entry : Wrote(First, k, op, e)
         \/ Flush(First) \/ compact_once(First)
    BY <1>0, <1>4, PrimarySteps
<1>6. ~hidden'[First]
    BY <1>3, <1>5
<1>7. Types'
    BY <1>0, TypesStep
<1>a. SUFFICES ASSUME ~rewound'[First], NEW some \in Keys
               PROVE  \A k \in Keys :
                         /\ \A e \in Copies(k)' : e.ts <= Known(First, k)'
                         /\ Seen(First, k)' = NoEntry /\ dropped'[First][k] > 0 =>
                               \A e \in Copies(k)' : e.ts = dropped'[First][k] => e.op = "Delete"
    BY <1>2, <1>3, <1>6
<1>b. ~Confused(First) /\ ~rewound[First]
    <2>1. ~rewound[First]
        BY <1>0, <1>6, <1>7, <1>a, SoundSteps
    <2> QED BY <2>1, <1>3 DEF Confused
<1>c. \A k \in Keys :
          /\ \A e \in Copies(k) : e.ts <= Known(First, k)
          /\ Seen(First, k) = NoEntry /\ dropped[First][k] > 0 =>
                \A e \in Copies(k) : e.ts = dropped[First][k] => e.op = "Delete"
    BY <1>0, <1>2, <1>b DEF PrimaryLeads
<1>8. ASSUME NEW k \in Keys
      PROVE  /\ Known(First, k)' >= Known(First, k)
             /\ Known(First, k)' \in Nat /\ Known(First, k) \in Nat
    <2>1. KnownOf(mem'[First], segs'[First], dropped'[First], k)
            >= KnownOf(mem[First], segs[First], dropped[First], k)
        BY <1>0, <1>6, <1>7, <1>a, SoundSteps
    <2>2. dropped'[First] \in [Keys -> Nat] /\ mem'[First] \in Entries /\ segs'[First] \in Seq(Segment)
        BY <1>0, <1>7 DEF Types
    <2>3. Age(Local(mem'[First], segs'[First], k)) \in Nat
        BY <2>2, GetType, AgeType
    <2>4. Known(First, k)' \in Nat
        BY <2>2, <2>3 DEF Known, Seen
    <2>5. Known(First, k) \in Nat
        BY <1>0, KnownType
    <2> QED BY <2>1, <2>4, <2>5 DEF KnownOf, Known, Seen
<1>9. ASSUME NEW k \in Keys, NEW e, NEW n \in Nodes, NEW op \in Ops,
             Wrote(n, k, op, e), e \in Copies(k)'
      PROVE  Seen(First, k)' = e /\ e # NoEntry /\ e.ts <= Known(First, k)'
    <2>1. n = First
        BY <1>3, <1>9 DEF Wrote
    <2>2. e \in Entry
        BY <1>9 DEF Copies
    <2>3. mem \in [Nodes -> Entries] /\ mem[First] \in Entries
        BY <1>0 DEF Types
    <2>4. mem'[First] = [mem[First] EXCEPT ![k] = e]
        BY <2>1, <2>3, <1>9 DEF Wrote
    <2>5. mem'[First][k] = e
        BY <2>3, <2>4 DEF Entries
    <2>6. e # NoEntry /\ e.ts \in Nat
        BY <2>2, ReplicationAssumption DEF Entry
    <2>7. Seen(First, k)' = e
        BY <2>5, <2>6 DEF Seen, Local
    <2>8. Age(e) = e.ts
        BY <2>6 DEF Age
    <2>9. Known(First, k)' = IF e.ts > dropped'[First][k] THEN e.ts ELSE dropped'[First][k]
        BY <2>7, <2>8 DEF Known
    <2>10. dropped'[First][k] \in Nat
        BY <1>0, <1>7 DEF Types
    <2> QED BY <2>6, <2>7, <2>9, <2>10
<1>10. ASSUME NEW k \in Keys, NEW e, e \in Copies(k)' PROVE e.ts <= Known(First, k)'
    <2>1. CASE \E f \in Copies(k) : f.op = e.op /\ f.ts = e.ts
        <3>1. PICK f \in Copies(k) : f.ts = e.ts
            BY <2>1
        <3>2. f.ts \in Nat /\ f.ts <= Known(First, k)
            BY <1>c, CopyTime
        <3> QED BY <3>1, <3>2, <1>8
    <2>2. CASE \E n \in Nodes, op \in Ops : Wrote(n, k, op, e)
        BY <2>2, <1>9, <1>10
    <2> QED BY <2>1, <2>2, <1>0, <1>10, CopySteps
<1>11. ASSUME NEW k \in Keys, Seen(First, k)' = NoEntry, dropped'[First][k] > 0,
              NEW e, e \in Copies(k)', e.ts = dropped'[First][k]
       PROVE  e.op = "Delete"
    <2>1. PICK f \in Copies(k) : f.op = e.op /\ f.ts = e.ts
        BY <1>0, <1>9, <1>11, CopySteps
    <2>2. SUFFICES f.op = "Delete"
        BY <2>1
    <2>3. ASSUME Seen(First, k) = NoEntry, dropped'[First][k] = dropped[First][k]
          PROVE  f.op = "Delete"
        BY <2>1, <2>3, <1>c, <1>11
    <2>4. /\ mem[First] \in Entries /\ segs[First] \in Seq(Segment)
          /\ mem \in [Nodes -> Entries] /\ segs \in [Nodes -> Seq(Segment)]
          /\ dropped[First] \in [Keys -> Nat]
          /\ (mem[First][k] = NoEntry \/ mem[First][k] = wal[First][k])
        BY <1>0 DEF Types, Mirrors
    <2>a. CASE mem'[First] = wal[First] /\ segs'[First] = segs[First]
               /\ dropped'[First] = dropped[First]
        <3>1. Seen(First, k)' = Local(wal[First], segs[First], k)
            BY <2>a DEF Seen
        <3>2. Seen(First, k) = NoEntry
            BY <3>1, <2>4, <1>11 DEF Seen, Local
        <3> QED BY <3>2, <2>3, <2>a
    <2>5. CASE mem'[First] = mem[First] /\ segs'[First] = segs[First]
               /\ dropped'[First] = dropped[First]
        <3>1. Seen(First, k)' = Seen(First, k)
            BY <2>5 DEF Seen
        <3> QED BY <3>1, <2>3, <2>5, <1>11
    <2>6. CASE \E k2 \in Keys, op \in Ops, w \in Entry : Wrote(First, k2, op, w)
        <3>1. PICK k2 \in Keys, op \in Ops, w \in Entry : Wrote(First, k2, op, w)
            BY <2>6
        <3>2. mem'[First] = [mem[First] EXCEPT ![k2] = w] /\ segs' = segs /\ dropped' = dropped
            BY <3>1, <2>4, <1>0 DEF Wrote, auxVars
        <3>3. mem'[First][k] = w \/ mem'[First][k] = mem[First][k]
            BY <3>2, <2>4 DEF Entries
        <3>4. w # NoEntry
            BY ReplicationAssumption DEF Entry
        <3>5. Seen(First, k) = NoEntry
            BY <3>2, <3>3, <3>4, <1>11 DEF Seen, Local
        <3> QED BY <3>2, <3>5, <2>3
    <2>7. CASE Flush(First)
        <3> DEFINE tt == Append(segs[First], [ents |-> mem[First], imported |-> FALSE])
        <3>1. segs'[First] = tt /\ mem'[First] = Empty /\ dropped' = dropped
            BY <2>4, <2>7, <1>0, FlushEffect DEF auxVars
        <3>2. Local(Empty, tt, k) = Local(mem[First], segs[First], k)
            BY <2>4, SoundFlushed
        <3> HIDE DEF tt
        <3>3. Seen(First, k)' = Seen(First, k)
            BY <3>1, <3>2 DEF Seen
        <3> QED BY <3>1, <3>3, <2>3, <1>11
    <2>8. CASE compact_once(First)
        <3>1. CASE Seen(First, k) # NoEntry
            BY <3>1, <2>1, <2>8, <1>0, <1>b, <1>11, TakenByTombstone
        <3>2. CASE Seen(First, k) = NoEntry
            <4>1. SegmentGet(segs[First], k) = NoEntry
                BY <3>2 DEF Seen, Local
            <4>2. ~HasDelete(segs[First], k)
                BY <4>1, <2>4, LastHolder DEF HasDelete
            <4>3. dropped'[First][k] = dropped[First][k]
                BY <4>2, <1>0, DroppedSteps
            <4> QED BY <4>3, <3>2, <2>3
        <3> QED BY <3>1, <3>2
    <2> QED BY <2>a, <2>5, <2>6, <2>7, <2>8, <1>5
<1> QED BY <1>10, <1>11

\* Both invariants hold together.
THEOREM SyncInvariant == Spec => []SyncInv
<1>1. Init => SyncInv
    <2> SUFFICES ASSUME Init PROVE SyncInv
        OBVIOUS
    <2>1. ReplicationInv
        BY InvInit
    <2>2. \A k \in Keys : Copies(k) = {}
        <3> SUFFICES ASSUME NEW k \in Keys, NEW e \in Copies(k) PROVE FALSE
            OBVIOUS
        <3>1. e.ts \in Nat /\ e.ts >= 1 /\ e.ts <= clock
            BY <2>1, CopyTime DEF ReplicationInv, TimesOK
        <3> QED BY <3>1 DEF Init
    <2>3. OneOp
        BY <2>2 DEF OneOp
    <2>4. First \in Nodes
        BY ReplicationAssumption
    <2>5. \A n, o \in Nodes, k \in Keys : dropped[o][k] <= Known(n, k)
        <3> SUFFICES ASSUME NEW n \in Nodes, NEW o \in Nodes, NEW k \in Keys
                     PROVE  dropped[o][k] <= Known(n, k)
            OBVIOUS
        <3>1. dropped[o][k] = 0
            BY DEF Init
        <3>2. Known(n, k) \in Nat
            BY <2>1, KnownType DEF ReplicationInv
        <3> QED BY <3>1, <3>2
    <2>6. Heard
        BY <2>5 DEF Heard
    <2>7. PrimaryLeads
        BY <2>2, <2>4 DEF PrimaryLeads, Init
    <2> QED BY <2>1, <2>3, <2>6, <2>7 DEF SyncInv
<1>2. SyncInv /\ [Next]_vars => SyncInv'
    <2> SUFFICES ASSUME SyncInv, [Next]_vars PROVE SyncInv'
        OBVIOUS
    <2>1. ReplicationInv'
        BY InvStep DEF SyncInv
    <2>2. OneOp' /\ Heard' /\ PrimaryLeads'
        BY OneOpStep, HeardStep, LeadsStep
    <2> QED BY <2>1, <2>2 DEF SyncInv
<1> QED BY <1>1, <1>2, PTL DEF Spec

\* Equal Merkle roots mean the same segments, counted; in particular the same hashes.
LEMMA SameRoot ==
    ASSUME NEW ss, NEW tt, MerkleRoot(ss) = MerkleRoot(tt)
    PROVE  Hashes(ss) = Hashes(tt)
<1>1. DOMAIN MerkleRoot(ss) = Hashes(ss) /\ DOMAIN MerkleRoot(tt) = Hashes(tt)
    BY DEF MerkleRoot
<1> QED BY <1>1

\* compare_merkle can be trusted: before a failover, when the roots are equal, the primary
\* has flushed and no exception is recorded, the replica answers every get like the primary.
THEOREM RootsAgree == Spec => []InSyncAgree
<1>1. SyncInv => InSyncAgree
    <2> SUFFICES ASSUME SyncInv, NEW p \in Nodes, NEW n \in Nodes, Serves(p, n), tokens = <<>>,
                        ~unheard, ~Confused(p), ~Confused(n), mem[p] = Empty,
                        MerkleRoot(segs[n]) = MerkleRoot(segs[p])
                 PROVE  Reads(n) = Reads(p)
        BY DEF InSyncAgree
    <2> SUFFICES ASSUME NEW k \in Keys PROVE Visible(Seen(n, k)) = Visible(Seen(p, k))
        BY DEF Reads
    <2>0. Types /\ TimesOK /\ SoundOK /\ OneOp /\ Heard /\ PrimaryLeads
        BY DEF SyncInv, ReplicationInv
    <2>1. p = First
        BY <2>0 DEF Serves, PrimaryLeads
    <2>2. /\ \A e \in Copies(k) : e.ts <= Known(p, k)
          /\ Seen(p, k) = NoEntry /\ dropped[p][k] > 0 =>
                \A e \in Copies(k) : e.ts = dropped[p][k] => e.op = "Delete"
        BY <2>0, <2>1 DEF PrimaryLeads, Confused
    <2>3. Hashes(segs[n]) = Hashes(segs[p])
        BY SameRoot
    <2>4. Sound(mem[n], segs[n], dropped[n], k) /\ Sound(mem[p], segs[p], dropped[p], k)
        BY <2>0 DEF SoundOK, Trusted
    <2>5. /\ mem[n] \in Entries /\ segs[n] \in Seq(Segment)
          /\ mem[p] \in Entries /\ segs[p] \in Seq(Segment)
        BY <2>0 DEF Types
    <2>6. Local(mem[p], segs[p], k) = SegmentGet(segs[p], k)
        BY DEF Local, Empty
    <2>7. /\ Known(n, k) \in Nat /\ Known(p, k) \in Nat
          /\ dropped[n][k] \in Nat /\ dropped[p][k] \in Nat
          /\ Seen(n, k) \in Entry \cup {NoEntry} /\ Seen(p, k) \in Entry \cup {NoEntry}
          /\ Age(Seen(n, k)) \in Nat /\ Age(Seen(p, k)) \in Nat
        BY <2>0, KnownType
    <2>8. /\ Seen(n, k) # NoEntry => /\ Seen(n, k) \in Copies(k) /\ Age(Seen(n, k)) = Seen(n, k).ts
                                     /\ dropped[n][k] <= Age(Seen(n, k))
          /\ Seen(p, k) # NoEntry => /\ Seen(p, k) \in Copies(k) /\ Age(Seen(p, k)) = Seen(p, k).ts
                                     /\ dropped[p][k] <= Age(Seen(p, k))
        BY <2>0, <2>4, ReadsAreCopies DEF Age, Seen, Sound
    <2>9. CASE Seen(p, k) # NoEntry
        <3>1. PICK i \in DOMAIN segs[p] : segs[p][i].ents[k] = Seen(p, k)
            BY <2>5, <2>6, <2>9, LastHolder DEF Seen
        <3>2. segs[p][i].ents \in Hashes(segs[n])
            BY <2>3 DEF Hashes
        <3>3. PICK j \in DOMAIN segs[n] : segs[n][j].ents = segs[p][i].ents
            BY <3>2 DEF Hashes
        <3>4. Age(Seen(p, k)) <= Age(Seen(n, k))
            BY <3>1, <3>3, <2>4 DEF Sound, Seen
        <3>5. Known(p, k) = Age(Seen(p, k))
            BY <2>7, <2>8, <2>9 DEF Known
        <3>6. Age(Seen(p, k)) >= 1
            BY <2>0, <2>8, <2>9 DEF TimesOK
        <3>7. Seen(n, k) # NoEntry
            BY <3>4, <3>6, <2>7 DEF Age
        <3>8. Seen(n, k).ts = Seen(p, k).ts
            BY <3>4, <3>5, <3>7, <2>2, <2>7, <2>8, <2>9
        <3>9. Seen(n, k).op = Seen(p, k).op
            BY <3>7, <3>8, <2>0, <2>8, <2>9 DEF OneOp
        <3> QED BY <3>7, <3>8, <3>9, <2>9 DEF Visible
    <2>10. CASE Seen(p, k) = NoEntry
        <3>1. CASE Seen(n, k) = NoEntry
            BY <3>1, <2>10
        <3>2. CASE Seen(n, k) # NoEntry
            <4>1. Age(Seen(p, k)) = 0 /\ Known(p, k) = dropped[p][k]
                BY <2>7, <2>10 DEF Age, Known
            <4>2. Seen(n, k).ts <= dropped[p][k] /\ Seen(n, k).ts >= 1
                BY <4>1, <3>2, <2>0, <2>2, <2>8 DEF TimesOK
            <4>3. Known(n, k) = Age(Seen(n, k))
                BY <3>2, <2>7, <2>8 DEF Known
            <4>4. dropped[p][k] <= Known(n, k)
                BY <2>0 DEF Heard
            <4>5. Seen(n, k).ts = dropped[p][k] /\ dropped[p][k] > 0
                BY <4>2, <4>3, <4>4, <3>2, <2>7, <2>8
            <4>6. Seen(n, k).op = "Delete"
                BY <4>5, <3>2, <2>2, <2>8, <2>10
            <4> QED BY <4>6, <2>10 DEF Visible
        <3> QED BY <3>1, <3>2
    <2> QED BY <2>9, <2>10
<1> QED BY <1>1, SyncInvariant, PTL
=============================================================================
