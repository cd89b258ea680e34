----------------------------- MODULE ScanProofs -----------------------------
(***************************************************************************)
(* Proofs about Scan, for every number of keys, block length, page size,   *)
(* number of writes and number of segments: every read path answers what   *)
(* get answers, pages come in key order, and a pagination misses nothing   *)
(* it may count on.                                                        *)
(***************************************************************************)
EXTENDS Scan, ListProofs

USE ScanAssumption
-----------------------------------------------------------------------------
(***************************************************************************)
(* One segment: the sparse index never leads past a key, so the readers    *)
(* see exactly the entries of the run.                                     *)
(***************************************************************************)

LEMMA LiveFacts ==
    ASSUME NEW S \in SUBSET Keys
    PROVE  /\ IsFiniteSet(S) /\ Cardinality(S) \in Nat
           /\ \A k \in S : Rank(S, k) \in 1..Cardinality(S)
           /\ \A j, k \in S : j < k => Rank(S, j) < Rank(S, k)
           /\ \A n \in 1..Cardinality(S) : Nth(S, n) \in S /\ Rank(S, Nth(S, n)) = n
           /\ \A k \in S : Nth(S, Rank(S, k)) = k
           /\ \A m, n \in 1..Cardinality(S) : m < n => Nth(S, m) < Nth(S, n)
<1>1. MaxKey \in Nat /\ S \in SUBSET (1..MaxKey)
    BY DEF Keys
<1> QED BY <1>1, RankGrows, NthInverse

\* Starting from the block that find_block_offset picks for a key, a reader
\* meets every entry at or after the key.
LEMMA ReadFromCovers ==
    ASSUME NEW seg \in Entries, NEW k \in Int, NEW j \in Live(seg), k <= j
    PROVE  j \in ReadFrom(seg, FindBlock(Index(seg), k))
<1> DEFINE S == Live(seg)
           c == Cardinality(S)
           index == Index(seg)
           P == {b \in DOMAIN index : index[b] <= k}
           pos == Cardinality(P)
<1>1. S \in SUBSET Keys /\ BlockLen \in Nat /\ j \in S /\ j \in Int
    BY DEF Live, Keys
<1>2. /\ c \in Nat
      /\ \A x \in S : Rank(S, x) \in 1..c
      /\ \A x, y \in S : x < y => Rank(S, x) < Rank(S, y)
      /\ \A n \in 1..c : Nth(S, n) \in S /\ Rank(S, Nth(S, n)) = n
    BY <1>1, LiveFacts
<1>3. \A b \in DOMAIN index : b \in 1..c /\ (b - 1) * BlockLen < c
                              /\ index[b] = Nth(S, (b - 1) * BlockLen + 1)
    BY DEF Index
<1>4. \A b \in DOMAIN index : index[b] \in S /\ Rank(S, index[b]) = (b - 1) * BlockLen + 1
    <2> SUFFICES ASSUME NEW b \in DOMAIN index
                 PROVE index[b] \in S /\ Rank(S, index[b]) = (b - 1) * BlockLen + 1
        OBVIOUS
    <2> DEFINE o == (b - 1) * BlockLen
    <2>1. b \in 1..c /\ o < c /\ index[b] = Nth(S, o + 1)
        BY <1>3
    <2>2. o \in Nat
        BY <1>1, <1>2, <2>1
    <2> HIDE DEF o, c, S, index
    <2>3. o + 1 \in 1..c
        BY <1>2, <2>1, <2>2
    <2> QED BY <1>2, <2>1, <2>3 DEF o
<1>5. FindBlock(index, k) = IF pos = 0 THEN 1 ELSE pos
    BY DEF FindBlock
<1>6. j \in ReadFrom(seg, FindBlock(index, k)) <=> Rank(S, j) > (FindBlock(index, k) - 1) * BlockLen
    BY <1>1 DEF ReadFrom
<1>7. CASE pos = 0
    <2>1. Rank(S, j) \in 1..c /\ (1 - 1) * BlockLen = 0
        BY <1>1, <1>2
    <2> QED BY <1>5, <1>6, <1>7, <2>1
<1>8. CASE pos # 0
    <2>1. P \in SUBSET (1..c)
        BY <1>3
    <2>2. IsFiniteSet(1..c)
        BY <1>2, FS_Interval
    <2>3. IsFiniteSet(P) /\ pos \in Nat
        BY <2>1, <2>2, FS_Subset, FS_CardinalityType
    <2>4. P # {}
        <3> HIDE DEF P
        <3> QED BY <1>8, FS_EmptySet
    <2>5. P \in SUBSET Nat
        BY <1>2, <2>1
    <2> DEFINE q == Max(P)
    <2>6. q \in P /\ q \in Nat /\ \A y \in P : y <= q
        <3> HIDE DEF P
        <3> QED BY <2>3, <2>4, <2>5, FiniteMax
    <2>7. P \in SUBSET (1..q)
        <3>1. \A y \in P : y \in Nat /\ 1 <= y /\ y <= q
            BY <1>2, <2>1, <2>6
        <3> HIDE DEF P, q
        <3> QED BY <3>1, <2>6
    <2>8. pos <= q
        <3>1. IsFiniteSet(1..q) /\ Cardinality(1..q) = q
            BY <2>6, CountTo, Zenon
        <3> HIDE DEF P, q
        <3> QED BY <2>7, <3>1, FS_Subset
    <2>9. index[q] <= k /\ index[q] \in S /\ Rank(S, index[q]) = (q - 1) * BlockLen + 1
        BY <1>4, <2>6
    <2>10. index[q] \in Int
        BY <2>9, <1>1 DEF Keys
    <2>11. Rank(S, index[q]) <= Rank(S, j)
        <3>1. index[q] < j \/ index[q] = j
            BY <1>1, <2>9, <2>10
        <3>2. PICK f : f = index[q]
            OBVIOUS
        <3> HIDE DEF S, q, index, c
        <3>3. f \in S /\ j \in S /\ (f < j \/ f = j)
            BY <3>1, <3>2, <1>1, <2>9
        <3>4. Rank(S, f) \in Int /\ Rank(S, j) \in Int
            BY <3>3, <1>2
        <3>5. Rank(S, f) <= Rank(S, j)
            BY <3>3, <3>4, <1>2
        <3> QED BY <3>2, <3>5
    <2>12. (pos - 1) * BlockLen <= (q - 1) * BlockLen
        <3> HIDE DEF pos, q
        <3> QED BY <1>1, <2>3, <2>6, <2>8
    <2>13. Rank(S, j) > (pos - 1) * BlockLen
        <3> DEFINE x == (pos - 1) * BlockLen
                   y == (q - 1) * BlockLen
        <3>1. x \in Int /\ y \in Int /\ Rank(S, j) \in Int
            BY <1>1, <1>2, <2>3, <2>6
        <3>2. x <= y /\ y + 1 <= Rank(S, j)
            BY <2>9, <2>11, <2>12
        <3> HIDE DEF x, y
        <3>3. x < Rank(S, j)
            BY <3>1, <3>2
        <3> QED BY <3>3 DEF x
    <2> QED BY <1>5, <1>6, <1>8, <2>13
<1> QED BY <1>7, <1>8

LEMMA ReadFromLive ==
    ASSUME NEW seg, NEW b, NEW k \in ReadFrom(seg, b)
    PROVE  k \in Live(seg) /\ k \in Keys /\ k \in Int /\ seg[k] # NoEntry
BY DEF ReadFrom, Live, Keys

\* A point read of a segment, from disk or from memory, answers its entry.
LEMMA ReaderGetFacts ==
    ASSUME NEW seg \in Entries, NEW k \in Keys
    PROVE  ReaderGet(seg, k) = seg[k] /\ InMemoryGet(seg, k) = seg[k]
<1> DEFINE R == ReadFrom(seg, FindBlock(Index(seg), k))
<1>1. k \in Int /\ (k \in Live(seg) <=> seg[k] # NoEntry)
    BY DEF Keys, Live
<1>2. k \in R <=> seg[k] # NoEntry
    BY <1>1, ReadFromCovers, ReadFromLive
<1>3. ReaderGet(seg, k) = seg[k]
    BY <1>2 DEF ReaderGet
<1>4. InMemoryGet(seg, k) = seg[k]
    <2> DEFINE es == {seg[j] : j \in R \cap {k}}
    <2>1. InMemoryGet(seg, k) = IF es = {} THEN NoEntry ELSE Highest(es)
        BY DEF InMemoryGet
    <2>2. CASE seg[k] = NoEntry
        <3>1. es = {}
            BY <1>2, <2>2
        <3> QED BY <2>1, <2>2, <3>1
    <2>3. CASE seg[k] # NoEntry
        <3>1. es = {seg[k]}
            BY <1>2, <2>3
        <3>2. seg[k] \in Entry
            BY <2>3 DEF Entries
        <3>3. Highest({seg[k]}) = seg[k]
            BY <3>2 DEF Highest, Entry
        <3> QED BY <2>1, <3>1, <3>3
    <2> QED BY <2>2, <2>3
<1> QED BY <1>3, <1>4

Within(seg, lo, hi) == {k \in Live(seg) : lo <= k /\ k < hi}

\* A cursor and both range scans of a segment find the run's keys in [lo, hi).
LEMMA CursorFacts ==
    ASSUME NEW seg \in Entries, NEW lo \in Int, NEW hi \in Int
    PROVE  /\ Cursor(seg, lo, hi) = Within(seg, lo, hi)
           /\ RangeScan(seg, lo, hi) = Within(seg, lo, hi)
           /\ InMemoryRangeScan(seg, lo, hi) = Within(seg, lo, hi)
<1> DEFINE R == ReadFrom(seg, FindBlock(Index(seg), lo))
<1>1. \A k \in Live(seg) : k \in Int
    BY DEF Live, Keys
<1>2. \A k \in R : k \in Live(seg)
    BY ReadFromLive
<1>3. \A k \in Live(seg) : lo <= k => k \in R
    BY ReadFromCovers
<1> HIDE DEF R
<1>4. {k \in R : lo <= k /\ k < hi} = Within(seg, lo, hi)
    BY <1>2, <1>3 DEF Within
<1>5. ~Overlaps(seg, lo, hi) => Within(seg, lo, hi) = {}
    BY <1>1 DEF Overlaps, Within
<1>6. (\A k \in Live(seg) : hi < k) \/ (\A k \in Live(seg) : lo > k) => Within(seg, lo, hi) = {}
    BY <1>1 DEF Within
<1> QED BY <1>4, <1>5, <1>6 DEF Cursor, RangeScan, InMemoryRangeScan, R
-----------------------------------------------------------------------------
(***************************************************************************)
(* The list of segments: since a later registration has the higher LSNs,   *)
(* the newest registration and the highest LSN are the same entry.         *)
(***************************************************************************)

\* For every key, segments registered later hold later writes.
Ordered(ss) ==
    \A i, j \in DOMAIN ss : i < j =>
        \A k \in Keys : ss[i][k] # NoEntry /\ ss[j][k] # NoEntry => ss[i][k].lsn < ss[j][k].lsn

HitsOf(ss, k) == {i \in DOMAIN ss : ss[i][k] # NoEntry}
EntriesOf(ss, k) == {ss[i][k] : i \in HitsOf(ss, k)}

LEMMA HighestIs ==
    ASSUME NEW es, NEW e \in es, e.lsn \in Int,
           \A f \in es : f.lsn \in Int /\ (f = e \/ f.lsn < e.lsn)
    PROVE  Highest(es) = e
<1>1. \A f \in es : f.lsn <= e.lsn
    OBVIOUS
<1>2. ASSUME NEW f \in es, \A g \in es : g.lsn <= f.lsn PROVE f = e
    <2>1. e.lsn <= f.lsn /\ f.lsn \in Int /\ (f = e \/ f.lsn < e.lsn)
        BY <1>2
    <2> QED BY <2>1
<1> DEFINE h == Highest(es)
<1>3. h \in es /\ \A g \in es : g.lsn <= h.lsn
    BY <1>1 DEF Highest
<1> QED BY <1>2, <1>3

LEMMA EntryFacts ==
    ASSUME NEW e \in Entries, NEW k \in Keys, e[k] # NoEntry
    PROVE  /\ e[k] \in Entry /\ e[k].lsn \in Nat /\ e[k].op \in {"Put", "Delete"}
           /\ k \in Live(e)
<1>1. e[k] \in Entry
    BY DEF Entries
<1> QED BY <1>1 DEF Entry, Live

\* SegmentStore::get answers from the newest registration that has the key.
LEMMA SegmentGetFacts ==
    ASSUME NEW ss \in Seq(Entries), NEW k \in Keys
    PROVE  /\ HitsOf(ss, k) = {} => SegmentGet(ss, k) = NoEntry
           /\ HitsOf(ss, k) # {} =>
                \E i \in HitsOf(ss, k) : SegmentGet(ss, k) = ss[i][k] /\ \A j \in HitsOf(ss, k) : j <= i
<1> DEFINE hits == {i \in DOMAIN ss : ReaderGet(ss[i], k) # NoEntry}
           H == HitsOf(ss, k)
<1>1. \A i \in DOMAIN ss : ss[i] \in Entries
    OBVIOUS
<1>2. hits = H
    BY <1>1, ReaderGetFacts DEF HitsOf
<1>3. SegmentGet(ss, k) = IF hits = {} THEN NoEntry ELSE ss[CHOOSE i \in hits : \A j \in hits : j <= i][k]
    BY DEF SegmentGet
<1>4. H # {} => \E i \in H : \A j \in H : j <= i
    <2>1. Len(ss) \in Nat /\ DOMAIN ss = 1..Len(ss)
        OBVIOUS
    <2>2. H \in SUBSET Nat /\ \A i \in H : i <= Len(ss)
        BY <2>1 DEF HitsOf
    <2> HIDE DEF H
    <2> QED BY <2>1, <2>2, MaxExists
<1> HIDE DEF hits, H
<1>5. H # {} => \E i \in H : SegmentGet(ss, k) = ss[i][k] /\ \A j \in H : j <= i
    BY <1>2, <1>3, <1>4
<1> QED BY <1>2, <1>3, <1>5 DEF H

\* It is the entry with the highest LSN of all.
LEMMA NewestIsHighest ==
    ASSUME NEW ss \in Seq(Entries), Ordered(ss), NEW k \in Keys
    PROVE  /\ SegmentGet(ss, k) = IF HitsOf(ss, k) = {} THEN NoEntry ELSE Highest(EntriesOf(ss, k))
           /\ SegmentGet(ss, k) \in Entry \cup {NoEntry}
           /\ SegmentGet(ss, k) = NoEntry <=> HitsOf(ss, k) = {}
<1>1. CASE HitsOf(ss, k) = {}
    BY <1>1, SegmentGetFacts
<1>2. CASE HitsOf(ss, k) # {}
    <2>1. PICK i \in HitsOf(ss, k) : SegmentGet(ss, k) = ss[i][k] /\ \A j \in HitsOf(ss, k) : j <= i
        BY <1>2, SegmentGetFacts
    <2>2. DOMAIN ss = 1..Len(ss) /\ Len(ss) \in Nat
        OBVIOUS
    <2>3. \A j \in HitsOf(ss, k) : j \in DOMAIN ss /\ j \in Int /\ ss[j] \in Entries /\ ss[j][k] # NoEntry
        BY <2>2 DEF HitsOf
    <2>4. \A j \in HitsOf(ss, k) : ss[j][k] \in Entry /\ ss[j][k].lsn \in Nat
        BY <2>3, EntryFacts
    <2>5. \A j \in HitsOf(ss, k) : j = i \/ ss[j][k].lsn < ss[i][k].lsn
        BY <2>1, <2>3 DEF Ordered
    <2>6. Highest(EntriesOf(ss, k)) = ss[i][k]
        <3>1. ss[i][k] \in EntriesOf(ss, k)
            BY DEF EntriesOf
        <3>2. \A f \in EntriesOf(ss, k) : f.lsn \in Int /\ (f = ss[i][k] \/ f.lsn < ss[i][k].lsn)
            BY <2>4, <2>5 DEF EntriesOf
        <3>3. ss[i][k].lsn \in Int
            BY <2>4
        <3> QED BY <3>1, <3>2, <3>3, HighestIs
    <2>7. ss[i][k] # NoEntry /\ ss[i][k] \in Entry
        BY <2>3, <2>4
    <2> QED BY <1>2, <2>1, <2>6, <2>7
<1> QED BY <1>1, <1>2

\* Snapshot::get and ImmutableEngine::get agree with SegmentStore::get.
LEMMA FlushedReads ==
    ASSUME NEW ss \in Seq(Entries), Ordered(ss), NEW k \in Keys
    PROVE  SnapshotGet(ss, k) = SegmentGet(ss, k) /\ ImmutableGet(ss, k) = SegmentGet(ss, k)
<1> DEFINE a == {ReaderGet(ss[i], k) : i \in DOMAIN ss} \ {NoEntry}
           b == {InMemoryGet(ss[i], k) : i \in DOMAIN ss} \ {NoEntry}
<1>1. \A i \in DOMAIN ss : ReaderGet(ss[i], k) = ss[i][k] /\ InMemoryGet(ss[i], k) = ss[i][k]
    <2>1. \A i \in DOMAIN ss : ss[i] \in Entries
        OBVIOUS
    <2> QED BY <2>1, ReaderGetFacts
<1>2. a = EntriesOf(ss, k) /\ b = EntriesOf(ss, k)
    BY <1>1 DEF EntriesOf, HitsOf
<1>3. EntriesOf(ss, k) = {} <=> HitsOf(ss, k) = {}
    BY DEF EntriesOf
<1> HIDE DEF a, b
<1>4. SnapshotGet(ss, k) = IF a = {} THEN NoEntry ELSE Highest(a)
    BY DEF SnapshotGet, a
<1>5. ImmutableGet(ss, k) = IF b = {} THEN NoEntry ELSE Highest(b)
    BY DEF ImmutableGet, b
<1> QED BY <1>2, <1>3, <1>4, <1>5, NewestIsHighest

InWindow(k, lo, hi) == lo <= k /\ k < hi

\* The k-way merge of the cursors is get, key by key, tombstones included.
LEMMA MergeFacts ==
    ASSUME NEW ss \in Seq(Entries), Ordered(ss), NEW lo \in Int, NEW hi \in Int
    PROVE  /\ DOMAIN Merge(ss, lo, hi) = {k \in Keys : InWindow(k, lo, hi) /\ SegmentGet(ss, k) # NoEntry}
           /\ \A k \in DOMAIN Merge(ss, lo, hi) : Merge(ss, lo, hi)[k] = SegmentGet(ss, k)
           /\ \A k \in DOMAIN Merge(ss, lo, hi) : Merge(ss, lo, hi)[k] \in Entry
<1> DEFINE w == Merge(ss, lo, hi)
           D == UNION {Cursor(ss[i], lo, hi) : i \in DOMAIN ss}
           e(k) == {ss[i][k] : i \in {j \in DOMAIN ss : k \in Cursor(ss[j], lo, hi)}}
<1>1. \A i \in DOMAIN ss : Cursor(ss[i], lo, hi) = Within(ss[i], lo, hi)
    <2>1. \A i \in DOMAIN ss : ss[i] \in Entries
        OBVIOUS
    <2> QED BY <2>1, CursorFacts
<1>2. w = [k \in D |-> Highest(e(k))]
    BY DEF Merge
<1>3. \A i \in DOMAIN ss : \A k : k \in Cursor(ss[i], lo, hi) <=> k \in Keys /\ InWindow(k, lo, hi) /\ i \in HitsOf(ss, k)
    BY <1>1 DEF Within, Live, InWindow, HitsOf
<1>4. \A k : k \in D <=> k \in Keys /\ InWindow(k, lo, hi) /\ HitsOf(ss, k) # {}
    BY <1>3 DEF HitsOf
<1>5. \A k \in D : e(k) = EntriesOf(ss, k)
    <2> SUFFICES ASSUME NEW k \in D PROVE e(k) = EntriesOf(ss, k)
        OBVIOUS
    <2>1. {j \in DOMAIN ss : k \in Cursor(ss[j], lo, hi)} = HitsOf(ss, k)
        <3>1. k \in Keys /\ InWindow(k, lo, hi)
            BY <1>4
        <3> QED BY <1>3, <3>1 DEF HitsOf
    <2> QED BY <2>1 DEF EntriesOf
<1> HIDE DEF D
<1>6. \A k \in D : k \in Keys /\ HitsOf(ss, k) # {} /\ w[k] = Highest(EntriesOf(ss, k))
    BY <1>2, <1>4, <1>5
<1>7. DOMAIN w = D
    BY <1>2
<1> HIDE DEF w, e
<1>8. \A k \in D : w[k] = SegmentGet(ss, k) /\ w[k] \in Entry
    BY <1>6, NewestIsHighest
<1>9. D = {k \in Keys : InWindow(k, lo, hi) /\ SegmentGet(ss, k) # NoEntry}
    BY <1>4, NewestIsHighest
<1> QED BY <1>7, <1>8, <1>9 DEF w

LEMMA LivePuts ==
    ASSUME NEW ss \in Seq(Entries), Ordered(ss), NEW lo \in Int, NEW hi \in Int
    PROVE  Puts(Merge(ss, lo, hi)) \in SUBSET Keys
<1> DEFINE g == Merge(ss, lo, hi)
<1>1. /\ DOMAIN g = {k \in Keys : InWindow(k, lo, hi) /\ SegmentGet(ss, k) # NoEntry}
      /\ \A k \in DOMAIN g : g[k] = SegmentGet(ss, k)
      /\ \A k \in DOMAIN g : g[k] \in Entry
    BY MergeFacts
<1> HIDE DEF g
<1>2. Puts(g) \in SUBSET Keys
    BY <1>1 DEF Puts
<1> QED BY <1>2 DEF g

\* Range reads of snapshots and of ImmutableEngine agree with SegmentStore::get.
LEMMA FlushedRanges ==
    ASSUME NEW ss \in Seq(Entries), Ordered(ss), NEW lo \in Int, NEW hi \in Int
    PROVE  LET visible == {k \in Keys : lo <= k /\ k < hi /\ Visible(SegmentGet(ss, k)) # {}}
           IN  SnapshotRange(ss, lo, hi) = visible /\ ImmutableRange(ss, lo, hi) = visible
<1> DEFINE f(k) == {i \in DOMAIN ss : k \in RangeScan(ss[i], lo, hi)}
           g(k) == {i \in DOMAIN ss : k \in InMemoryRangeScan(ss[i], lo, hi)}
           visible == {k \in Keys : lo <= k /\ k < hi /\ Visible(SegmentGet(ss, k)) # {}}
<1>1. \A i \in DOMAIN ss : RangeScan(ss[i], lo, hi) = Within(ss[i], lo, hi)
                           /\ InMemoryRangeScan(ss[i], lo, hi) = Within(ss[i], lo, hi)
    <2>1. \A i \in DOMAIN ss : ss[i] \in Entries
        OBVIOUS
    <2> QED BY <2>1, CursorFacts
<1>2. \A k \in Keys : f(k) = IF lo <= k /\ k < hi THEN HitsOf(ss, k) ELSE {}
    BY <1>1 DEF Within, HitsOf, Live
<1>3. \A k \in Keys : g(k) = IF lo <= k /\ k < hi THEN HitsOf(ss, k) ELSE {}
    BY <1>1 DEF Within, HitsOf, Live
<1>4. \A k \in Keys : HitsOf(ss, k) # {} =>
         (Highest({ss[i][k] : i \in HitsOf(ss, k)}).op = "Put" <=> Visible(SegmentGet(ss, k)) # {})
    BY NewestIsHighest DEF Visible, EntriesOf
<1>5. \A k \in Keys : HitsOf(ss, k) = {} => Visible(SegmentGet(ss, k)) = {}
    BY NewestIsHighest DEF Visible
<1>6. SnapshotRange(ss, lo, hi) = {k \in Keys : f(k) # {} /\ Highest({ss[i][k] : i \in f(k)}).op = "Put"}
    BY DEF SnapshotRange
<1>7. ImmutableRange(ss, lo, hi) = {k \in Keys : g(k) # {} /\ Highest({ss[i][k] : i \in g(k)}).op = "Put"}
    BY DEF ImmutableRange
<1> HIDE DEF f, g
<1>8. \A k \in Keys : (f(k) # {} /\ Highest({ss[i][k] : i \in f(k)}).op = "Put") <=> k \in visible
    BY <1>2, <1>4, <1>5
<1>9. \A k \in Keys : (g(k) # {} /\ Highest({ss[i][k] : i \in g(k)}).op = "Put") <=> k \in visible
    BY <1>3, <1>4, <1>5
<1>10. SnapshotRange(ss, lo, hi) = visible
    BY <1>6, <1>8
<1>11. ImmutableRange(ss, lo, hi) = visible
    BY <1>7, <1>9
<1> QED BY <1>10, <1>11
-----------------------------------------------------------------------------
(***************************************************************************)
(* Keys in order, and the first or the last n of them.                     *)
(***************************************************************************)

LEMMA KeySet ==
    ASSUME NEW S \in SUBSET Keys
    PROVE  /\ IsFiniteSet(S) /\ Cardinality(S) \in Nat /\ Cardinality(S) <= MaxKey
           /\ \A T \in SUBSET S : IsFiniteSet(T) /\ Cardinality(T) \in Nat /\ Cardinality(T) <= Cardinality(S)
           /\ \A T \in SUBSET S : Cardinality(T) = Cardinality(S) => T = S
           /\ S \in SUBSET Int
<1>1. MaxKey \in Nat
    OBVIOUS
<1>2. IsFiniteSet(Keys) /\ Cardinality(Keys) = MaxKey
    BY <1>1, CountTo, Zenon DEF Keys
<1>3. IsFiniteSet(S) /\ Cardinality(S) \in Nat /\ Cardinality(S) <= MaxKey
    BY <1>2, FS_Subset, FS_CardinalityType
<1>4. \A T \in SUBSET S : IsFiniteSet(T) /\ Cardinality(T) \in Nat /\ Cardinality(T) <= Cardinality(S)
                         /\ (Cardinality(T) = Cardinality(S) => T = S)
    BY <1>3, FS_Subset, FS_CardinalityType
<1>5. S \in SUBSET Int
    BY DEF Keys
<1> QED BY <1>3, <1>4, <1>5

LEMMA LeastFacts ==
    ASSUME NEW S \in SUBSET Keys, NEW n \in Nat
    PROVE  /\ Least(S, n) \in SUBSET S
           /\ Cardinality(Least(S, n)) <= n
           /\ \A k \in Least(S, n), j \in S : j <= k => j \in Least(S, n)
           /\ Cardinality(S) <= n => Least(S, n) = S
           /\ Cardinality(S) >= n => Cardinality(Least(S, n)) = n
<1> DEFINE c == Cardinality(S)
           L == Least(S, n)
<1>1. /\ c \in Nat
      /\ \A k \in S : Rank(S, k) \in 1..c
      /\ \A j, k \in S : j < k => Rank(S, j) < Rank(S, k)
      /\ \A i \in 1..c : Nth(S, i) \in S /\ Rank(S, Nth(S, i)) = i
    BY LiveFacts
<1>2. L = {k \in S : Rank(S, k) <= n}
    BY DEF Least
<1>3. \A k \in S : k \in Int
    BY DEF Keys
<1> HIDE DEF c, L
<1>4. ASSUME NEW k \in L, NEW j \in S, j <= k PROVE j \in L
    <2>1. k \in S /\ Rank(S, k) <= n
        BY <1>2
    <2>2. j = k \/ j < k
        BY <1>3, <1>4, <2>1
    <2>3. Rank(S, j) \in Int /\ Rank(S, k) \in Int
        BY <1>1, <2>1
    <2>4. Rank(S, j) <= Rank(S, k)
        BY <1>1, <2>1, <2>2, <2>3
    <2> QED BY <1>2, <2>1, <2>3, <2>4
<1>5. c <= n => L = S
    BY <1>1, <1>2
<1>6. CASE c <= n
    <2>1. L = S /\ Cardinality(L) = c
        BY <1>5, <1>6 DEF c
    <2> QED BY <1>1, <1>4, <1>6, <2>1 DEF c, L
<1>7. CASE n = 0
    <2>1. L = {}
        BY <1>1, <1>2, <1>7
    <2>2. Cardinality(L) = 0
        BY <2>1, FS_EmptySet
    <2> QED BY <1>1, <1>4, <1>5, <1>7, <2>1, <2>2 DEF c, L
<1>8. CASE n # 0 /\ ~(c <= n)
    <2>1. n \in 1..c
        BY <1>1, <1>8
    <2>2. PICK m \in S : Rank(S, m) = n
        BY <1>1, <2>1
    <2>3. \A j \in S : j <= m <=> Rank(S, j) <= n
        <3> SUFFICES ASSUME NEW j \in S PROVE j <= m <=> Rank(S, j) <= n
            OBVIOUS
        <3>1. j < m \/ j = m \/ m < j
            BY <1>3
        <3>2. Rank(S, j) \in Int
            BY <1>1
        <3> QED BY <1>1, <1>3, <2>2, <3>1, <3>2
    <2>4. L = {j \in S : j <= m}
        BY <1>2, <2>3
    <2>5. Cardinality(L) = n
        BY <2>2, <2>4 DEF Rank
    <2>6. L \in SUBSET S
        BY <1>2
    <2> QED BY <1>4, <1>8, <2>5, <2>6 DEF c, L
<1> QED BY <1>6, <1>7, <1>8

\* Counting from above is counting from below backwards.
LEMMA RankFromAbove ==
    ASSUME NEW S \in SUBSET Keys, NEW k \in S
    PROVE  Cardinality({j \in S : j >= k}) = Cardinality(S) + 1 - Rank(S, k)
<1> DEFINE A == {j \in S : j >= k}
           B == {j \in S : j <= k}
<1>1. k \in Int /\ \A j \in S : j \in Int
    BY DEF Keys
<1>2. A \cup B = S /\ A \cap B = {k}
    <2>1. \A j \in S : (j >= k \/ j <= k) /\ (j >= k /\ j <= k => j = k)
        BY <1>1
    <2>2. k >= k /\ k <= k
        BY <1>1
    <2>3. A \cup B = S
        BY <2>1
    <2>4. A \cap B = {k}
        BY <2>1, <2>2
    <2> QED BY <2>3, <2>4
<1>3. /\ IsFiniteSet(A) /\ IsFiniteSet(B) /\ Cardinality(A) \in Nat
      /\ Cardinality(B) \in Nat /\ Cardinality(S) \in Nat
    <2>1. A \in SUBSET S /\ B \in SUBSET S
        OBVIOUS
    <2> HIDE DEF A, B
    <2> QED BY <2>1, KeySet
<1>4. Cardinality(B) = Rank(S, k)
    BY DEF Rank
<1> HIDE DEF A, B
<1>5. Cardinality({k}) = 1
    BY FS_Singleton
<1>6. Cardinality(A \cup B) = Cardinality(A) + Cardinality(B) - Cardinality(A \cap B)
    BY <1>3, FS_Union
<1>7. Cardinality(A) = Cardinality(S) + 1 - Cardinality(B)
    <2>1. Cardinality(S) = Cardinality(A) + Cardinality(B) - 1
        BY <1>2, <1>5, <1>6
    <2>2. PICK a \in Nat, b \in Nat, s \in Nat : a = Cardinality(A) /\ b = Cardinality(B) /\ s = Cardinality(S)
        BY <1>3
    <2>3. s = a + b - 1
        BY <2>1, <2>2
    <2>4. a = s + 1 - b
        BY <2>3
    <2> QED BY <2>2, <2>4
<1> QED BY <1>4, <1>7 DEF A

LEMMA GreatestFacts ==
    ASSUME NEW S \in SUBSET Keys, NEW n \in Nat
    PROVE  /\ Greatest(S, n) \in SUBSET S
           /\ Cardinality(Greatest(S, n)) <= n
           /\ \A k \in Greatest(S, n), j \in S : j >= k => j \in Greatest(S, n)
           /\ Cardinality(S) <= n => Greatest(S, n) = S
           /\ Cardinality(S) >= n => Cardinality(Greatest(S, n)) = n
<1> DEFINE c == Cardinality(S)
           G == Greatest(S, n)
<1>1. /\ c \in Nat
      /\ \A k \in S : Rank(S, k) \in 1..c
      /\ \A j, k \in S : j < k => Rank(S, j) < Rank(S, k)
    BY LiveFacts
<1>2. G = {k \in S : c + 1 - Rank(S, k) <= n}
    BY RankFromAbove DEF Greatest
<1>3. \A k \in S : k \in Int
    BY DEF Keys
<1> HIDE DEF c, G
<1>4. ASSUME NEW k \in G, NEW j \in S, j >= k PROVE j \in G
    <2>1. k \in S /\ c + 1 - Rank(S, k) <= n
        BY <1>2
    <2>2. j = k \/ k < j
        BY <1>3, <1>4, <2>1
    <2>3. Rank(S, j) \in Int /\ Rank(S, k) \in Int
        BY <1>1, <2>1
    <2>4. Rank(S, k) <= Rank(S, j)
        BY <1>1, <2>1, <2>2, <2>3
    <2>5. c + 1 - Rank(S, j) <= n
        BY <1>1, <2>1, <2>3, <2>4
    <2> QED BY <1>2, <2>5
<1>5. G \in SUBSET S
    BY <1>2
<1>6. CASE c <= n
    <2>1. G = S
        BY <1>1, <1>2, <1>6
    <2>2. Cardinality(G) = c
        BY <2>1 DEF c
    <2> QED BY <1>1, <1>4, <1>6, <2>1, <2>2 DEF c, G
<1>7. CASE ~(c <= n)
    <2> DEFINE L == Least(S, c - n)
    <2>1. c - n \in Nat
        BY <1>1, <1>7
    <2>2. L \in SUBSET S /\ Cardinality(L) = c - n
        <3>1. c >= c - n
            BY <1>1
        <3> QED BY <2>1, <3>1, LeastFacts DEF c
    <2>3. G = S \ L
        BY <1>1, <1>2 DEF Least
    <2> HIDE DEF L
    <2>4. IsFiniteSet(S) /\ S \cap L = L
        BY <2>2, KeySet
    <2>5. Cardinality(S \ L) = Cardinality(S) - Cardinality(S \cap L)
        BY <2>4, FS_Difference
    <2>6. Cardinality(G) = n
        BY <1>1, <2>2, <2>3, <2>4, <2>5 DEF c
    <2> QED BY <1>1, <1>4, <1>5, <1>7, <2>6 DEF c, G
<1> QED BY <1>6, <1>7

LEMMA AscendingFacts ==
    ASSUME NEW S \in SUBSET Keys
    PROVE  /\ Ascending(S) \in Seq(S) /\ Len(Ascending(S)) = Cardinality(S)
           /\ \A k \in S : \E i \in DOMAIN Ascending(S) : Ascending(S)[i] = k
           /\ \A i, j \in DOMAIN Ascending(S) : i < j => Ascending(S)[i] < Ascending(S)[j]
<1>1. /\ Cardinality(S) \in Nat
      /\ \A k \in S : Rank(S, k) \in 1..Cardinality(S) /\ Nth(S, Rank(S, k)) = k
      /\ \A i \in 1..Cardinality(S) : Nth(S, i) \in S
      /\ \A i, j \in 1..Cardinality(S) : i < j => Nth(S, i) < Nth(S, j)
    BY LiveFacts
<1> QED BY <1>1 DEF Ascending

LEMMA DescendingFacts ==
    ASSUME NEW S \in SUBSET Keys
    PROVE  /\ Descending(S) \in Seq(S) /\ Len(Descending(S)) = Cardinality(S)
           /\ \A k \in S : \E i \in DOMAIN Descending(S) : Descending(S)[i] = k
           /\ \A i, j \in DOMAIN Descending(S) : i < j => Descending(S)[i] > Descending(S)[j]
<1> DEFINE c == Cardinality(S)
           s == Descending(S)
<1>1. /\ c \in Nat
      /\ \A k \in S : Rank(S, k) \in 1..c /\ Nth(S, Rank(S, k)) = k
      /\ \A i \in 1..c : Nth(S, i) \in S
      /\ \A i, j \in 1..c : i < j => Nth(S, i) < Nth(S, j)
    BY LiveFacts
<1>2. s = [i \in 1..c |-> Nth(S, c + 1 - i)]
    BY DEF Descending
<1>3. \A i \in 1..c : c + 1 - i \in 1..c
    BY <1>1
<1> HIDE DEF c, s
<1>4. s \in Seq(S) /\ Len(s) = c /\ DOMAIN s = 1..c
    BY <1>1, <1>2, <1>3
<1>5. ASSUME NEW k \in S PROVE \E i \in DOMAIN s : s[i] = k
    <2> DEFINE i == c + 1 - Rank(S, k)
    <2>1. i \in 1..c /\ c + 1 - i = Rank(S, k)
        BY <1>1
    <2> HIDE DEF i
    <2> QED BY <1>1, <1>2, <1>4, <2>1
<1>6. ASSUME NEW i \in DOMAIN s, NEW j \in DOMAIN s, i < j PROVE s[i] > s[j]
    <2>1. i \in 1..c /\ j \in 1..c
        BY <1>4
    <2>2. PICK a \in 1..c, b \in 1..c : a = c + 1 - i /\ b = c + 1 - j
        BY <1>3, <2>1
    <2>3. b < a
        BY <1>1, <1>6, <2>1, <2>2
    <2>4. Nth(S, b) < Nth(S, a) /\ Nth(S, b) \in S /\ Nth(S, a) \in S
        BY <1>1, <2>3
    <2>5. Nth(S, b) \in Int /\ Nth(S, a) \in Int
        <3>1. \A x \in S : x \in Int
            BY DEF Keys
        <3> QED BY <2>4, <3>1
    <2>6. s[i] = Nth(S, a) /\ s[j] = Nth(S, b)
        BY <1>2, <2>1, <2>2
    <2> QED BY <2>4, <2>5, <2>6
<1> QED BY <1>4, <1>5, <1>6 DEF c, s
-----------------------------------------------------------------------------
(***************************************************************************)
(* What a scan merges: the live keys that the segments' budget lets        *)
(* through, and the memtable's entries of the window.                      *)
(***************************************************************************)

\* The memtable's entries are later than those of every segment.
Below(ss, m) ==
    \A i \in DOMAIN ss, k \in Keys :
        ss[i][k] # NoEntry /\ m[k] # NoEntry => ss[i][k].lsn < m[k].lsn

LEMMA GetEntryType ==
    ASSUME NEW m \in Entries, NEW ss \in Seq(Entries), Ordered(ss), NEW k \in Keys
    PROVE  GetEntry(m, ss, k) \in Entry \cup {NoEntry}
<1>1. m[k] \in Entry \cup {NoEntry}
    BY DEF Entries
<1>2. SegmentGet(ss, k) \in Entry \cup {NoEntry}
    BY NewestIsHighest
<1> QED BY <1>1, <1>2 DEF GetEntry

LiveIn(m, lo, hi) == {k \in Live(m) : InWindow(k, lo, hi)}

\* A window of the memtable merged with the live segment keys F.
WindowOf(m, ss, lo, hi, F) ==
    MergeSortedScans(Restricted(Merge(ss, lo, hi), F), MemRange(m, lo, hi))

\* w has the keys F and those of the memtable; every entry is what get finds for its key.
AnswersLikeGet(w, m, ss, lo, hi, F) ==
    /\ DOMAIN w = F \cup LiveIn(m, lo, hi)
    /\ \A k \in DOMAIN w : /\ k \in Keys /\ InWindow(k, lo, hi)
                           /\ w[k] = GetEntry(m, ss, k) /\ w[k] \in Entry

LEMMA MergedFacts ==
    ASSUME NEW m \in Entries, NEW ss \in Seq(Entries), Ordered(ss), Below(ss, m),
           NEW lo \in Int, NEW hi \in Int, NEW F \in SUBSET Puts(Merge(ss, lo, hi))
    PROVE  AnswersLikeGet(WindowOf(m, ss, lo, hi, F), m, ss, lo, hi, F)
<1> DEFINE w == WindowOf(m, ss, lo, hi, F)
           g == Merge(ss, lo, hi)
           s == Restricted(g, F)
           r == MemRange(m, lo, hi)
           both(k) == (IF k \in DOMAIN s THEN {s[k]} ELSE {}) \cup (IF k \in DOMAIN r THEN {r[k]} ELSE {})
<1>1. \A k \in DOMAIN g : k \in Keys /\ InWindow(k, lo, hi) /\ g[k] = SegmentGet(ss, k)
                          /\ g[k] \in Entry /\ SegmentGet(ss, k) # NoEntry
    <2>1. /\ DOMAIN g = {k \in Keys : InWindow(k, lo, hi) /\ SegmentGet(ss, k) # NoEntry}
          /\ \A k \in DOMAIN g : g[k] = SegmentGet(ss, k)
          /\ \A k \in DOMAIN g : g[k] \in Entry
        BY MergeFacts
    <2> HIDE DEF g
    <2> QED BY <2>1
<1>2. F \in SUBSET DOMAIN g
    BY DEF Puts
<1>3. DOMAIN s = F /\ \A k \in F : s[k] = g[k]
    BY DEF Restricted
<1>4. DOMAIN r = LiveIn(m, lo, hi) /\ \A k \in DOMAIN r : r[k] = m[k]
    BY DEF MemRange, Restricted, InWindow, LiveIn
<1>5. w = [k \in DOMAIN s \cup DOMAIN r |-> Highest(both(k))]
    BY DEF MergeSortedScans, WindowOf
<1>6. \A k \in Live(m) : k \in Keys /\ m[k] # NoEntry
    BY DEF Live
<1>7. \A k \in Keys : m[k] # NoEntry => m[k] \in Entry /\ m[k].lsn \in Nat /\ k \in Live(m)
    BY EntryFacts
<1> HIDE DEF g, s, r, w
<1>8. DOMAIN w = F \cup LiveIn(m, lo, hi)
    BY <1>3, <1>4, <1>5 DEF LiveIn
<1>9. ASSUME NEW k \in DOMAIN w
      PROVE  k \in Keys /\ InWindow(k, lo, hi) /\ w[k] = GetEntry(m, ss, k) /\ w[k] \in Entry
    <2>1. k \in Keys /\ InWindow(k, lo, hi)
        BY <1>1, <1>2, <1>6, <1>8, <1>9 DEF LiveIn
    <2>2. w[k] = Highest(both(k))
        BY <1>3, <1>4, <1>5, <1>8, <1>9
    <2>3. CASE m[k] = NoEntry
        <3>1. k \notin DOMAIN r /\ k \in F
            BY <1>4, <1>6, <1>8, <1>9, <2>3 DEF LiveIn
        <3>2. both(k) = {g[k]}
            BY <1>3, <3>1
        <3>3. g[k] \in Entry /\ g[k] = GetEntry(m, ss, k)
            BY <1>1, <1>2, <2>3, <3>1 DEF GetEntry
        <3>4. Highest({g[k]}) = g[k]
            BY <3>3 DEF Highest, Entry
        <3> QED BY <2>1, <2>2, <3>2, <3>3, <3>4
    <2>4. CASE m[k] # NoEntry
        <3>1. k \in DOMAIN r /\ r[k] = m[k] /\ m[k] \in Entry /\ m[k].lsn \in Nat
            BY <1>4, <1>7, <2>1, <2>4 DEF LiveIn
        <3>2. GetEntry(m, ss, k) = m[k]
            BY <2>4 DEF GetEntry
        <3>3. m[k] \in both(k)
            BY <3>1
        <3>4. \A f \in both(k) : f = m[k] \/ (k \in F /\ f = g[k])
            BY <1>3, <3>1
        <3>5. k \in F => g[k].lsn \in Nat /\ g[k].lsn < m[k].lsn
            <4> SUFFICES ASSUME k \in F PROVE g[k].lsn \in Nat /\ g[k].lsn < m[k].lsn
                OBVIOUS
            <4>1. g[k] = SegmentGet(ss, k) /\ g[k] \in Entry /\ SegmentGet(ss, k) # NoEntry
                BY <1>1, <1>2
            <4>2. HitsOf(ss, k) # {}
                BY <2>1, <4>1, SegmentGetFacts
            <4>3. PICK i \in HitsOf(ss, k) : SegmentGet(ss, k) = ss[i][k]
                BY <2>1, <4>2, SegmentGetFacts
            <4>4. ss[i][k].lsn < m[k].lsn
                BY <2>1, <2>4 DEF HitsOf, Below
            <4> QED BY <4>1, <4>3, <4>4 DEF Entry
        <3> HIDE DEF both
        <3>6. \A f \in both(k) : f.lsn \in Int /\ (f = m[k] \/ f.lsn < m[k].lsn)
            BY <3>1, <3>4, <3>5
        <3>7. Highest(both(k)) = m[k]
            BY <3>1, <3>3, <3>6, HighestIs
        <3> QED BY <2>1, <2>2, <3>1, <3>2, <3>7
    <2> QED BY <2>3, <2>4
<1> QED BY <1>8, <1>9 DEF AnswersLikeGet, w

VisibleIn(m, ss, lo, hi) == {k \in Keys : InWindow(k, lo, hi) /\ Visible(GetEntry(m, ss, k)) # {}}

\* No tombstone of the memtable over a live segment key of the window.
Unshadowed(m, ss, lo, hi) ==
    \A k \in Keys : InWindow(k, lo, hi) /\ m[k] # NoEntry /\ m[k].op = "Delete"
                      => ~(SegmentGet(ss, k) # NoEntry /\ SegmentGet(ss, k).op = "Put")

\* Of the visible keys of the window the merge can only miss live segment keys
\* that the budget kept back, and no live one it got is hidden, unless shadowed.
LEMMA MergedPuts ==
    ASSUME NEW m \in Entries, NEW ss \in Seq(Entries), Ordered(ss), Below(ss, m),
           NEW lo \in Int, NEW hi \in Int, NEW F \in SUBSET Puts(Merge(ss, lo, hi)),
           NEW w, w = WindowOf(m, ss, lo, hi, F)
    PROVE  /\ Puts(w) \in SUBSET VisibleIn(m, ss, lo, hi)
           /\ \A k \in Puts(w) : w[k].lsn \in Nat /\ Visible(GetEntry(m, ss, k)) = {w[k].lsn}
           /\ VisibleIn(m, ss, lo, hi) \ Puts(w) \in SUBSET (Puts(Merge(ss, lo, hi)) \ F)
           /\ Unshadowed(m, ss, lo, hi) => F \in SUBSET Puts(w)
           /\ Puts(Merge(ss, lo, hi)) \in SUBSET Keys
<1> DEFINE g == Merge(ss, lo, hi)
<1>1. /\ DOMAIN w = F \cup LiveIn(m, lo, hi)
      /\ \A k \in DOMAIN w : /\ k \in Keys /\ InWindow(k, lo, hi)
                             /\ w[k] = GetEntry(m, ss, k) /\ w[k] \in Entry
    <2>1. AnswersLikeGet(w, m, ss, lo, hi, F)
        BY MergedFacts
    <2> QED BY <2>1 DEF AnswersLikeGet
<1>2. /\ DOMAIN g = {k \in Keys : InWindow(k, lo, hi) /\ SegmentGet(ss, k) # NoEntry}
      /\ \A k \in DOMAIN g : g[k] = SegmentGet(ss, k)
      /\ \A k \in DOMAIN g : g[k] \in Entry
    BY MergeFacts
<1>3. \A k \in Keys : m[k] # NoEntry => m[k] \in Entry /\ k \in Live(m)
    BY EntryFacts
<1> HIDE DEF g
<1>4. ASSUME NEW k \in Puts(w) PROVE k \in VisibleIn(m, ss, lo, hi) /\ w[k].lsn \in Nat /\ Visible(GetEntry(m, ss, k)) = {w[k].lsn}
    <2>1. k \in DOMAIN w /\ w[k].op = "Put"
        BY <1>4 DEF Puts
    <2>2. w[k] \in Entry /\ w[k] = GetEntry(m, ss, k) /\ k \in Keys /\ InWindow(k, lo, hi)
        BY <1>1, <2>1
    <2>3. w[k] # NoEntry /\ w[k].lsn \in Nat
        BY <2>2 DEF Entry
    <2>4. Visible(GetEntry(m, ss, k)) = {w[k].lsn}
        BY <2>1, <2>2, <2>3 DEF Visible
    <2> QED BY <2>2, <2>3, <2>4 DEF VisibleIn
<1>5. ASSUME NEW k \in VisibleIn(m, ss, lo, hi), k \notin Puts(w) PROVE k \in Puts(g) \ F
    <2>1. k \in Keys /\ InWindow(k, lo, hi) /\ GetEntry(m, ss, k) # NoEntry /\ GetEntry(m, ss, k).op = "Put"
        BY <1>5 DEF VisibleIn, Visible
    <2>2. k \notin DOMAIN w
        BY <1>1, <1>5, <2>1 DEF Puts
    <2>3. m[k] = NoEntry /\ k \notin F
        BY <1>1, <1>3, <2>1, <2>2 DEF LiveIn
    <2>4. GetEntry(m, ss, k) = SegmentGet(ss, k)
        BY <2>3 DEF GetEntry
    <2> QED BY <1>2, <2>1, <2>3, <2>4 DEF Puts
<1>6. ASSUME Unshadowed(m, ss, lo, hi), NEW k \in F PROVE k \in Puts(w)
    <2>1. k \in DOMAIN g /\ g[k].op = "Put"
        BY DEF Puts, g
    <2>2. k \in Keys /\ InWindow(k, lo, hi) /\ SegmentGet(ss, k) # NoEntry /\ SegmentGet(ss, k).op = "Put"
        BY <1>2, <2>1
    <2>3. m[k] # NoEntry => m[k] \in Entry /\ m[k].op # "Delete"
        BY <1>3, <1>6, <2>2 DEF Unshadowed
    <2>4. GetEntry(m, ss, k).op = "Put"
        BY <2>2, <2>3 DEF GetEntry, Entry
    <2> QED BY <1>1, <2>4 DEF Puts
<1>7. Puts(g) \in SUBSET Keys
    BY <1>2 DEF Puts
<1> QED BY <1>4, <1>5, <1>6, <1>7 DEF g
-----------------------------------------------------------------------------
(***************************************************************************)
(* The budget: the first n live segment keys are enough to know the first  *)
(* n visible keys, as long as none of them is hidden.                      *)
(***************************************************************************)

\* S: live segment keys; F: those read; L: the live keys of the merge; V: the
\* visible keys.
LEMMA BudgetForward ==
    ASSUME NEW S \in SUBSET Keys, NEW L \in SUBSET Keys, NEW V \in SUBSET Keys, NEW n \in Nat,
           NEW F, F = Least(S, n), F \in SUBSET L, V \ L \in SUBSET (S \ F),
           NEW x \in Least(L, n), NEW v \in V, v <= x
    PROVE  v \in Least(L, n)
<1> DEFINE T == Least(L, n)
<1>1. T \in SUBSET L /\ Cardinality(T) <= n /\ \A k \in T, j \in L : j <= k => j \in T
    BY LeastFacts
<1>2. F \in SUBSET S /\ (Cardinality(S) <= n => F = S) /\ (Cardinality(S) >= n => Cardinality(F) = n)
      /\ \A k \in F, j \in S : j <= k => j \in F
    BY LeastFacts
<1>3. CASE v \in L
    BY <1>1, <1>3
<1>4. CASE v \notin L
    <2>1. v \in S /\ v \notin F
        BY <1>4
    <2>2. Cardinality(S) \in Nat
        BY KeySet
    <2>3. Cardinality(F) = n
        BY <1>2, <2>1, <2>2
    <2>4. x \in T /\ x \in Int /\ v \in Int /\ F \in SUBSET Int
        <3>1. Keys \in SUBSET Int
            BY DEF Keys
        <3>2. x \in T /\ x \in Keys /\ v \in Keys
            BY <1>1
        <3> QED BY <1>2, <3>1, <3>2
    <2> HIDE DEF T
    <2>5. \A f \in F : f < v
        BY <1>2, <2>1, <2>4
    <2>6. F \in SUBSET T /\ x \notin F
        <3>1. \A f \in F : f <= x /\ f # x
            BY <2>4, <2>5
        <3> QED BY <1>1, <2>4, <3>1
    <2>7. T \in SUBSET Keys
        BY <1>1
    <2>8. F = T
        <3>1. Cardinality(F) <= Cardinality(T) /\ Cardinality(T) \in Nat /\ (Cardinality(F) = Cardinality(T) => F = T)
            BY <2>6, <2>7, KeySet
        <3> QED BY <1>1, <2>3, <3>1
    <2> QED BY <2>4, <2>6, <2>8
<1> QED BY <1>3, <1>4

LEMMA BudgetReverse ==
    ASSUME NEW S \in SUBSET Keys, NEW L \in SUBSET Keys, NEW V \in SUBSET Keys, NEW n \in Nat,
           NEW F, F = Greatest(S, n), F \in SUBSET L, V \ L \in SUBSET (S \ F),
           NEW x \in Greatest(L, n), NEW v \in V, v >= x
    PROVE  v \in Greatest(L, n)
<1> DEFINE T == Greatest(L, n)
<1>1. T \in SUBSET L /\ Cardinality(T) <= n /\ \A k \in T, j \in L : j >= k => j \in T
    BY GreatestFacts
<1>2. F \in SUBSET S /\ (Cardinality(S) <= n => F = S) /\ (Cardinality(S) >= n => Cardinality(F) = n)
      /\ \A k \in F, j \in S : j >= k => j \in F
    BY GreatestFacts
<1>3. CASE v \in L
    BY <1>1, <1>3
<1>4. CASE v \notin L
    <2>1. v \in S /\ v \notin F
        BY <1>4
    <2>2. Cardinality(S) \in Nat
        BY KeySet
    <2>3. Cardinality(F) = n
        BY <1>2, <2>1, <2>2
    <2>4. x \in T /\ x \in Int /\ v \in Int /\ F \in SUBSET Int
        <3>1. Keys \in SUBSET Int
            BY DEF Keys
        <3>2. x \in T /\ x \in Keys /\ v \in Keys
            BY <1>1
        <3> QED BY <1>2, <3>1, <3>2
    <2> HIDE DEF T
    <2>5. \A f \in F : f > v
        BY <1>2, <2>1, <2>4
    <2>6. F \in SUBSET T /\ x \notin F
        <3>1. \A f \in F : f >= x /\ f # x
            BY <2>4, <2>5
        <3> QED BY <1>1, <2>4, <3>1
    <2>7. T \in SUBSET Keys
        BY <1>1
    <2>8. F = T
        <3>1. Cardinality(F) <= Cardinality(T) /\ Cardinality(T) \in Nat /\ (Cardinality(F) = Cardinality(T) => F = T)
            BY <2>6, <2>7, KeySet
        <3> QED BY <1>1, <2>3, <3>1
    <2> QED BY <2>4, <2>6, <2>8
<1> QED BY <1>3, <1>4

\* Where no key of the window follows the first n live ones there are no more
\* live ones.
LEMMA NotOverBudget ==
    ASSUME NEW w, Puts(w) \in SUBSET Keys, NEW n \in Nat, ~OverBudget(w, n)
    PROVE  Least(Puts(w), n) = Puts(w)
<1> DEFINE P == Puts(w)
           T == Least(P, n)
<1>1. T \in SUBSET P /\ (Cardinality(P) <= n => T = P) /\ \A k \in T, j \in P : j <= k => j \in T
    BY LeastFacts
<1>2. Cardinality(P) \in Nat /\ P \in SUBSET Int
    BY KeySet
<1>3. CASE ~(Cardinality(P) >= n)
    BY <1>1, <1>2, <1>3
<1>4. CASE Cardinality(P) >= n
    <2>1. \A k \in DOMAIN w : \E j \in T : ~(j < k)
        BY <1>4 DEF OverBudget
    <2>2. P \in SUBSET DOMAIN w
        BY DEF Puts
    <2> HIDE DEF P, T
    <2>3. ASSUME NEW k \in P PROVE k \in T
        <3>1. PICK j \in T : ~(j < k)
            BY <2>1, <2>2
        <3>2. k <= j
            BY <1>1, <1>2, <3>1
        <3> QED BY <1>1, <3>2
    <2> QED BY <1>1, <2>3 DEF P, T
<1> QED BY <1>3, <1>4
-----------------------------------------------------------------------------
(***************************************************************************)
(* A page as a list of items.                                              *)
(***************************************************************************)

Item == [key : Keys, val : Nat]

Before(dir, k, l) == IF dir = "forward" THEN k < l ELSE k > l

\* ks is K in order; w has a value for every key of K; items are K with these values.
Lists(ks, dir, K) ==
    /\ ks \in Seq(K)
    /\ \A k \in K : \E i \in DOMAIN ks : ks[i] = k
    /\ \A i, j \in DOMAIN ks : i < j => Before(dir, ks[i], ks[j])
HasValues(w, K) == \A k \in K : w[k].lsn \in Nat
ItemsOf(items, w, ks, K) ==
    /\ items \in Seq(Item)
    /\ DOMAIN items = DOMAIN ks /\ Len(items) = Len(ks)
    /\ \A i \in DOMAIN ks : items[i].key = ks[i]
    /\ ByKey(items) = {<<k, w[k].lsn>> : k \in K}

LEMMA ItemsFacts ==
    ASSUME NEW K \in SUBSET Keys, NEW w, HasValues(w, K), NEW dir, NEW ks, Lists(ks, dir, K)
    PROVE  ItemsOf(Items(w, ks), w, ks, K)
<1> DEFINE it == Items(w, ks)
<1>0. ks \in Seq(K) /\ \A k \in K : \E i \in DOMAIN ks : ks[i] = k
    BY DEF Lists
<1>1. it = [i \in DOMAIN ks |-> [key |-> ks[i], val |-> w[ks[i]].lsn]]
    BY DEF Items
<1>2. \A i \in DOMAIN ks : ks[i] \in K /\ ks[i] \in Keys /\ w[ks[i]].lsn \in Nat
    BY <1>0 DEF HasValues
<1>3. DOMAIN ks = 1..Len(ks) /\ Len(ks) \in Nat
    BY <1>0
<1> HIDE DEF it
<1>4. DOMAIN it = DOMAIN ks /\ \A i \in DOMAIN ks : it[i] = [key |-> ks[i], val |-> w[ks[i]].lsn]
    BY <1>1
<1>5. \A i \in DOMAIN ks : it[i] \in Item /\ it[i].key = ks[i] /\ it[i].val = w[ks[i]].lsn
    BY <1>2, <1>4 DEF Item
<1>6. it \in Seq(Item) /\ Len(it) = Len(ks)
    <2>1. it = [i \in 1..Len(ks) |-> it[i]]
        BY <1>1, <1>3, <1>4
    <2>2. \A i \in 1..Len(ks) : it[i] \in Item
        BY <1>3, <1>5
    <2> QED BY <1>3, <2>1, <2>2
<1>7. ByKey(it) = {<<it[i].key, it[i].val>> : i \in DOMAIN ks}
    BY <1>4 DEF ByKey
<1>8. ASSUME NEW i \in DOMAIN ks PROVE <<it[i].key, it[i].val>> \in {<<k, w[k].lsn>> : k \in K}
    <2>1. <<it[i].key, it[i].val>> = <<ks[i], w[ks[i]].lsn>> /\ ks[i] \in K
        BY <1>2, <1>5
    <2> QED BY <2>1
<1>9. ASSUME NEW k \in K PROVE <<k, w[k].lsn>> \in {<<it[i].key, it[i].val>> : i \in DOMAIN ks}
    <2>1. PICK i \in DOMAIN ks : ks[i] = k
        BY <1>0
    <2>2. <<it[i].key, it[i].val>> = <<k, w[k].lsn>>
        BY <1>5, <2>1
    <2> QED BY <2>2
<1>10. ByKey(it) = {<<k, w[k].lsn>> : k \in K}
    <2> DEFINE X == {<<it[i].key, it[i].val>> : i \in DOMAIN ks}
               Y == {<<k, w[k].lsn>> : k \in K}
    <2>1. \A p \in X : p \in Y
        BY <1>8, Zenon
    <2>2. \A p \in Y : p \in X
        BY <1>9, Zenon
    <2>3. X = Y
        <3> HIDE DEF X, Y
        <3> QED BY <2>1, <2>2
    <2> QED BY <1>7, <2>3, Zenon
<1> QED BY <1>4, <1>5, <1>6, <1>10 DEF it, ItemsOf
Answer(m, ss, k) == {<<k, v>> : v \in Visible(GetEntry(m, ss, k))}
OfKey(items, k) == {p \in ByKey(items) : p[1] = k}

\* The values of w for the keys T are visible.
Shown(w, m, ss, T) == \A k \in T : Visible(GetEntry(m, ss, k)) = {w[k].lsn}

\* The items of the keys T are what get answers, for a key that is in T if it
\* is visible.
LEMMA OfKeyFacts ==
    ASSUME NEW m, NEW ss, NEW w, NEW T, Shown(w, m, ss, T),
           NEW items, NEW ks, ItemsOf(items, w, ks, T),
           NEW j, Visible(GetEntry(m, ss, j)) # {} => j \in T
    PROVE  OfKey(items, j) = Answer(m, ss, j)
<1> DEFINE X == {<<k, w[k].lsn>> : k \in T}
<1>1. OfKey(items, j) = {p \in X : p[1] = j}
    BY DEF OfKey, ItemsOf
<1>2. \A p \in X : \E k \in T : p = <<k, w[k].lsn>>
    BY Zenon
<1>3. \A k \in T : <<k, w[k].lsn>> \in X
    BY Zenon
<1> HIDE DEF X
<1>4. \A p \in X : p[1] \in T /\ p = <<p[1], w[p[1]].lsn>>
    BY <1>2
<1>5. CASE j \in T
    <2>1. {p \in X : p[1] = j} = {<<j, w[j].lsn>>}
        <3>1. \A p \in X : p[1] = j => p = <<j, w[j].lsn>>
            BY <1>4
        <3>2. <<j, w[j].lsn>> \in X /\ <<j, w[j].lsn>>[1] = j
            BY <1>3, <1>5
        <3> QED BY <3>1, <3>2
    <2>2. Answer(m, ss, j) = {<<j, w[j].lsn>>}
        BY <1>5 DEF Answer, Shown
    <2> QED BY <1>1, <2>1, <2>2
<1>6. CASE j \notin T
    <2>1. {p \in X : p[1] = j} = {}
        BY <1>4, <1>6
    <2>2. Answer(m, ss, j) = {}
        BY <1>6 DEF Answer
    <2> QED BY <1>1, <2>1, <2>2
<1> QED BY <1>5, <1>6

KeysIn(lo, hi) == {k \in Keys : InWindow(k, lo, hi)}

\* A page holds keys of its window in order, and ends at its cursor.
WellPaged(page, dir, lo, hi) ==
    /\ page.items \in Seq(Item)
    /\ \A i \in DOMAIN page.items : InWindow(page.items[i].key, lo, hi)
    /\ \A i, j \in DOMAIN page.items : i < j => Before(dir, page.items[i].key, page.items[j].key)
    /\ page.next # NoKey =>
         /\ page.next \in Keys /\ InWindow(page.next, lo, hi)
         /\ \A i \in DOMAIN page.items : ~Before(dir, page.next, page.items[i].key)

\* Up to its cursor, or to the end of the window, a page answers like get.
Answered(page, m, ss, dir, lo, hi) ==
    \A k \in Keys :
        InWindow(k, lo, hi) /\ (page.next = NoKey \/ ~Before(dir, page.next, k))
            => OfKey(page.items, k) = Answer(m, ss, k)

\* A page of the keys ks with their values, whose cursor is the last of them.
Presents(page, w, ks) ==
    /\ page.items = Items(w, ks)
    /\ page.next = NoKey \/ (ks # <<>> /\ page.next = ks[Len(ks)])

\* What is left of a page once its items and their order are known.
PageListing(page, dir, lo, hi, w, ks, T) ==
    T \in SUBSET KeysIn(lo, hi) /\ HasValues(w, T) /\ Lists(ks, dir, T) /\ Presents(page, w, ks)

LEMMA PageOfKeys ==
    ASSUME NEW page, NEW dir, NEW lo, NEW hi, NEW w, NEW ks, NEW T,
           PageListing(page, dir, lo, hi, w, ks, T)
    PROVE  /\ WellPaged(page, dir, lo, hi)
           /\ page.next \in T \cup {NoKey}
           /\ ItemsOf(page.items, w, ks, T)
<1> DEFINE it == page.items
<1>0. /\ T \in SUBSET KeysIn(lo, hi) /\ T \in SUBSET Keys /\ \A k \in T : InWindow(k, lo, hi)
      /\ HasValues(w, T) /\ Lists(ks, dir, T) /\ Presents(page, w, ks)
    BY DEF KeysIn, PageListing
<1>1. ItemsOf(it, w, ks, T)
    BY <1>0, ItemsFacts DEF Presents
<1>2. DOMAIN ks = 1..Len(ks) /\ Len(ks) \in Nat /\ \A i \in DOMAIN ks : ks[i] \in T /\ ks[i] \in Keys
    BY <1>0 DEF Lists
<1>2a. \A k \in Keys : k \in Int
    BY DEF Keys
<1> HIDE DEF it
<1>3. ASSUME page.next # NoKey
      PROVE  /\ page.next \in T /\ page.next \in Keys
             /\ \A i \in DOMAIN it : ~Before(dir, page.next, it[i].key)
    <2>1. ks # <<>> /\ page.next = ks[Len(ks)]
        BY <1>0, <1>3 DEF Presents
    <2>2. Len(ks) \in DOMAIN ks
        BY <1>2, <2>1 DEF Lists
    <2>3. ASSUME NEW i \in DOMAIN ks PROVE ~Before(dir, ks[Len(ks)], ks[i])
        <3>1. i = Len(ks) \/ i < Len(ks)
            BY <1>2
        <3>2. ks[i] \in Int /\ ks[Len(ks)] \in Int
            BY <1>2, <1>2a, <2>2
        <3>3. i < Len(ks) => Before(dir, ks[i], ks[Len(ks)])
            BY <1>0, <2>2 DEF Lists
        <3> QED BY <3>1, <3>2, <3>3 DEF Before
    <2> QED BY <1>1, <1>2, <2>1, <2>2, <2>3 DEF ItemsOf
<1>4. \A i \in DOMAIN it : InWindow(it[i].key, lo, hi)
    BY <1>0, <1>1, <1>2 DEF ItemsOf
<1>5. \A i, j \in DOMAIN it : i < j => Before(dir, it[i].key, it[j].key)
    BY <1>0, <1>1 DEF ItemsOf, Lists
<1>6. it \in Seq(Item)
    BY <1>1 DEF ItemsOf
<1> QED BY <1>0, <1>1, <1>3, <1>4, <1>5, <1>6 DEF it, WellPaged

\* One page of range_page.
LEMMA ForwardPage ==
    ASSUME NEW m \in Entries, NEW ss \in Seq(Entries), Ordered(ss), Below(ss, m),
           NEW lo \in Int, NEW hi \in Int, NEW n \in Nat \ {0}, NEW scan, scan = RangeCore(m, ss, lo, hi, n),
           NEW page, page = [items |-> scan.items, next |-> NextKey(scan)]
    PROVE  /\ WellPaged(page, "forward", lo, hi)
           /\ Unshadowed(m, ss, lo, hi) => Answered(page, m, ss, "forward", lo, hi)
<1> DEFINE g == Merge(ss, lo, hi)
           S == Puts(g)
           F == Least(S, n)
           w == WindowOf(m, ss, lo, hi, F)
           L == Puts(w)
           T == Least(L, n)
           ks == Ascending(T)
           V == VisibleIn(m, ss, lo, hi)
<1>1. scan = [items |-> Items(w, ks), truncated |-> OverBudget(g, n) \/ OverBudget(w, n)]
    BY DEF RangeCore, RangeScanBudgeted, DedupFilterScan, WindowOf, Truncated
<1>2. page.items = Items(w, ks)
    BY <1>1
<1>3. S \in SUBSET Keys
    BY LivePuts
<1>4. F \in SUBSET S /\ (Cardinality(S) <= n => F = S) /\ (Cardinality(S) >= n => Cardinality(F) = n)
    BY <1>3, LeastFacts
<1>5. /\ L \in SUBSET V
      /\ \A k \in L : w[k].lsn \in Nat /\ Visible(GetEntry(m, ss, k)) = {w[k].lsn}
      /\ V \ L \in SUBSET (S \ F)
      /\ Unshadowed(m, ss, lo, hi) => F \in SUBSET L
      /\ S \in SUBSET Keys
    <2> HIDE DEF w
    <2>1. w = WindowOf(m, ss, lo, hi, F) /\ F \in SUBSET Puts(Merge(ss, lo, hi))
        BY <1>4 DEF w
    <2> HIDE DEF F
    <2> QED BY <2>1, MergedPuts
<1>6. V \in SUBSET Keys /\ \A k \in V : InWindow(k, lo, hi)
    BY DEF VisibleIn
<1>7. T \in SUBSET L /\ L \in SUBSET Keys /\ T \in SUBSET Keys
      /\ (Cardinality(L) <= n => T = L) /\ (Cardinality(L) >= n => Cardinality(T) = n)
    BY <1>5, <1>6, LeastFacts
<1>8. Lists(ks, "forward", T) /\ Len(ks) = Cardinality(T)
    BY <1>7, AscendingFacts DEF Lists, Before
<1>9. page.next = IF scan.truncated /\ scan.items # <<>> THEN scan.items[Len(scan.items)].key ELSE NoKey
    BY DEF NextKey, Last
<1>10. scan.items = Items(w, ks) /\ (scan.truncated <=> OverBudget(g, n) \/ OverBudget(w, n))
    <2>1. scan.items = Items(w, ks)
        BY <1>1
    <2>2. scan.truncated = (OverBudget(g, n) \/ OverBudget(w, n))
        <3> HIDE DEF g, w, ks
        <3> QED BY <1>1
    <2> QED BY <2>1, <2>2
<1> HIDE DEF g, S, F, w, L, T, ks, V
<1>11. HasValues(w, T) /\ Shown(w, m, ss, T)
    BY <1>5, <1>7 DEF HasValues, Shown
<1>12. T \in SUBSET KeysIn(lo, hi)
    BY <1>5, <1>6, <1>7 DEF KeysIn
<1>13. ItemsOf(scan.items, w, ks, T)
    BY <1>7, <1>8, <1>10, <1>11, ItemsFacts
<1>14. ks \in Seq(T) /\ scan.items \in Seq(Item) /\ Len(scan.items) = Len(ks)
    BY <1>8, <1>13 DEF ItemsOf, Lists
<1>15. scan.items = <<>> <=> ks = <<>>
    BY <1>14
<1>16. ks # <<>> => Len(ks) \in DOMAIN ks /\ scan.items[Len(scan.items)].key = ks[Len(ks)] /\ ks[Len(ks)] \in T
    <2> SUFFICES ASSUME ks # <<>>
                 PROVE Len(ks) \in DOMAIN ks /\ scan.items[Len(scan.items)].key = ks[Len(ks)] /\ ks[Len(ks)] \in T
        OBVIOUS
    <2>1. Len(ks) \in DOMAIN ks /\ ks[Len(ks)] \in T
        BY <1>14
    <2> QED BY <1>13, <2>1 DEF ItemsOf
<1>17. Presents(page, w, ks)
    BY <1>2, <1>9, <1>15, <1>16 DEF Presents
<1>18. /\ WellPaged(page, "forward", lo, hi)
       /\ page.next \in T \cup {NoKey}
       /\ ItemsOf(page.items, w, ks, T)
    <2>1. PageListing(page, "forward", lo, hi, w, ks, T)
        BY <1>8, <1>11, <1>12, <1>17 DEF PageListing
    <2> QED BY <2>1, PageOfKeys
<1>19. ASSUME Unshadowed(m, ss, lo, hi), NEW k \in Keys, InWindow(k, lo, hi),
              page.next = NoKey \/ ~Before("forward", page.next, k)
       PROVE  OfKey(page.items, k) = Answer(m, ss, k)
    <2> SUFFICES ASSUME Visible(GetEntry(m, ss, k)) # {} PROVE k \in T
        BY <1>11, <1>18, OfKeyFacts
    <2>1. k \in V
        BY <1>19 DEF V, VisibleIn
    <2>2. F \in SUBSET L
        BY <1>5, <1>19
    <2>3. CASE page.next # NoKey
        <3>1. page.next \in T
            BY <1>18, <2>3
        <3>2. k <= page.next
            <4>1. page.next \in Int /\ k \in Int
                <5>1. Keys \in SUBSET Int
                    BY DEF Keys
                <5> QED BY <1>7, <3>1, <5>1
            <4> QED BY <1>19, <2>3, <4>1 DEF Before
        <3> QED BY <1>3, <1>5, <1>6, <1>7, <2>1, <2>2, <3>1, <3>2, BudgetForward DEF F, T
    <2>4. CASE page.next = NoKey
        <3>1. ~(OverBudget(g, n) \/ OverBudget(w, n)) \/ ks = <<>>
            <4> SUFFICES ASSUME OverBudget(g, n) \/ OverBudget(w, n), ks # <<>> PROVE FALSE
                OBVIOUS
            <4>1. page.next = ks[Len(ks)] /\ ks[Len(ks)] \in T
                BY <1>9, <1>10, <1>15, <1>16
            <4>2. page.next \in Keys
                BY <1>7, <4>1
            <4> QED BY <2>4, <4>2 DEF NoKey, Keys
        <3>2. CASE ~(OverBudget(g, n) \/ OverBudget(w, n))
            <4>1. F = S
                BY <1>3, <3>2, NotOverBudget DEF F, S
            <4>2. T = L
                BY <1>7, <3>2, NotOverBudget DEF T, L
            <4> QED BY <1>5, <2>1, <4>1, <4>2
        <3>3. CASE ks = <<>>
            <4>1. T = {}
                BY <1>8, <3>3 DEF Lists
            <4>2. Cardinality(T) = 0
                BY <4>1, FS_EmptySet
            <4>3. Cardinality(L) \in Nat /\ Cardinality(S) \in Nat
                BY <1>3, <1>7, KeySet
            <4>4. L = {}
                BY <1>7, <4>1, <4>2, <4>3
            <4>5. F = {}
                BY <2>2, <4>4
            <4>6. Cardinality(F) = 0
                BY <4>5, FS_EmptySet
            <4>7. S = {}
                BY <1>4, <4>3, <4>5, <4>6
            <4> QED BY <1>5, <2>1, <4>4, <4>7
        <3> QED BY <3>1, <3>2, <3>3
    <2> QED BY <2>3, <2>4
<1> QED BY <1>18, <1>19 DEF Answered
\* One page of range_rev_page: hi is the page's end.
LEMMA ReversePage ==
    ASSUME NEW m \in Entries, NEW ss \in Seq(Entries), Ordered(ss), Below(ss, m),
           NEW lo \in Int, NEW hi \in Int, NEW n \in Nat \ {0},
           NEW F, F = Greatest(Puts(Merge(ss, lo, hi)), n),
           NEW w, w = WindowOf(m, ss, lo, hi, F),
           NEW live, live = Descending(Greatest(Puts(w), n)),
           NEW page, page = [items |-> Items(w, live),
                             next  |-> IF Len(live) >= n THEN Last(live) ELSE NoKey]
    PROVE  /\ WellPaged(page, "reverse", lo, hi)
           /\ Unshadowed(m, ss, lo, hi) => Answered(page, m, ss, "reverse", lo, hi)
<1> DEFINE g == Merge(ss, lo, hi)
           S == Puts(g)
           L == Puts(w)
           T == Greatest(L, n)
           V == VisibleIn(m, ss, lo, hi)
<1>1. page.items = Items(w, live) /\ page.next = IF Len(live) >= n THEN live[Len(live)] ELSE NoKey
    BY DEF Last
<1>2. S \in SUBSET Keys
    BY LivePuts
<1>3. F \in SUBSET S /\ (Cardinality(S) <= n => F = S) /\ (Cardinality(S) >= n => Cardinality(F) = n)
    BY <1>2, GreatestFacts
<1>4. /\ L \in SUBSET V
      /\ \A k \in L : w[k].lsn \in Nat /\ Visible(GetEntry(m, ss, k)) = {w[k].lsn}
      /\ V \ L \in SUBSET (S \ F)
      /\ Unshadowed(m, ss, lo, hi) => F \in SUBSET L
      /\ S \in SUBSET Keys
    <2>1. F \in SUBSET Puts(Merge(ss, lo, hi))
        BY <1>3
    <2> QED BY <2>1, MergedPuts
<1>5. V \in SUBSET Keys /\ \A k \in V : InWindow(k, lo, hi)
    BY DEF VisibleIn
<1>6. T \in SUBSET L /\ L \in SUBSET Keys /\ T \in SUBSET Keys
      /\ (Cardinality(L) <= n => T = L) /\ (Cardinality(L) >= n => Cardinality(T) = n)
    BY <1>4, <1>5, GreatestFacts
<1>7. Lists(live, "reverse", T) /\ Len(live) = Cardinality(T)
    BY <1>6, DescendingFacts DEF Lists, Before
<1> HIDE DEF g, S, L, T, V
<1>8. HasValues(w, T) /\ Shown(w, m, ss, T)
    BY <1>4, <1>6 DEF HasValues, Shown
<1>9. T \in SUBSET KeysIn(lo, hi)
    BY <1>4, <1>5, <1>6 DEF KeysIn
<1>10. Cardinality(L) \in Nat /\ Cardinality(S) \in Nat /\ Cardinality(T) \in Nat
    BY <1>2, <1>6, KeySet
<1>11. Len(live) >= n => live # <<>> /\ Len(live) \in DOMAIN live /\ live[Len(live)] \in T
    <2>1. live \in Seq(T)
        BY <1>7 DEF Lists
    <2> QED BY <2>1
<1>12. Presents(page, w, live)
    BY <1>1, <1>11 DEF Presents
<1>13. /\ WellPaged(page, "reverse", lo, hi)
       /\ page.next \in T \cup {NoKey}
       /\ ItemsOf(page.items, w, live, T)
    <2>1. PageListing(page, "reverse", lo, hi, w, live, T)
        BY <1>7, <1>8, <1>9, <1>12 DEF PageListing
    <2> QED BY <2>1, PageOfKeys
<1>14. ASSUME Unshadowed(m, ss, lo, hi), NEW k \in Keys, InWindow(k, lo, hi),
              page.next = NoKey \/ ~Before("reverse", page.next, k)
       PROVE  OfKey(page.items, k) = Answer(m, ss, k)
    <2> SUFFICES ASSUME Visible(GetEntry(m, ss, k)) # {} PROVE k \in T
        BY <1>8, <1>13, OfKeyFacts
    <2>1. k \in V
        BY <1>14 DEF V, VisibleIn
    <2>2. F \in SUBSET L
        BY <1>4, <1>14
    <2>3. CASE page.next # NoKey
        <3>1. page.next \in T
            BY <1>13, <2>3
        <3>2. k >= page.next
            <4>1. page.next \in Int /\ k \in Int
                <5>1. Keys \in SUBSET Int
                    BY DEF Keys
                <5> QED BY <1>6, <3>1, <5>1
            <4> QED BY <1>14, <2>3, <4>1 DEF Before
        <3> QED BY <1>2, <1>4, <1>5, <1>6, <2>1, <2>2, <3>1, <3>2, BudgetReverse DEF S, g, T
    <2>4. CASE page.next = NoKey
        <3>1. ~(Len(live) >= n)
            <4> SUFFICES ASSUME Len(live) >= n PROVE FALSE
                OBVIOUS
            <4>1. page.next \in Keys
                BY <1>1, <1>6, <1>11
            <4> QED BY <2>4, <4>1 DEF NoKey, Keys
        <3>2. Cardinality(T) < n
            BY <1>7, <1>10, <3>1
        <3>3. T = L /\ Cardinality(L) < n
            BY <1>6, <1>10, <3>2
        <3>4. Cardinality(F) < n
            <4>1. Cardinality(F) <= Cardinality(L) /\ Cardinality(F) \in Nat
                BY <1>6, <2>2, KeySet
            <4> QED BY <1>10, <3>3, <4>1
        <3>5. F = S
            BY <1>3, <1>10, <3>4
        <3> QED BY <1>4, <2>1, <3>3, <3>5
    <2> QED BY <2>3, <2>4
<1> QED BY <1>13, <1>14 DEF Answered

\* The engine's pages, in either direction.
PageOf(dir, m, ss, lo, hi, cursor, n) ==
    IF dir = "forward" THEN RangePage(m, ss, lo, hi, cursor, n) ELSE RangeRevPage(m, ss, lo, hi, cursor, n)
From(dir, lo, cursor) == IF dir = "forward" THEN PageStart(cursor, lo) ELSE lo
To(dir, hi, cursor) == IF dir = "forward" \/ cursor = NoKey THEN hi ELSE cursor

LEMMA PageFacts ==
    ASSUME NEW dir \in {"forward", "reverse"}, NEW m \in Entries, NEW ss \in Seq(Entries),
           Ordered(ss), Below(ss, m), NEW lo \in Nat, NEW hi \in Nat, NEW cursor \in Nat,
           NEW n \in Nat \ {0}
    PROVE  /\ WellPaged(PageOf(dir, m, ss, lo, hi, cursor, n), dir, From(dir, lo, cursor), To(dir, hi, cursor))
           /\ Unshadowed(m, ss, From(dir, lo, cursor), To(dir, hi, cursor)) =>
                Answered(PageOf(dir, m, ss, lo, hi, cursor, n), m, ss, dir,
                         From(dir, lo, cursor), To(dir, hi, cursor))
<1> DEFINE page == PageOf(dir, m, ss, lo, hi, cursor, n)
<1>1. CASE dir = "forward"
    <2> DEFINE scan == RangeCore(m, ss, PageStart(cursor, lo), hi, n)
    <2>1. page = [items |-> scan.items, next |-> NextKey(scan)]
        BY <1>1 DEF PageOf, RangePage
    <2>2. PageStart(cursor, lo) \in Int /\ hi \in Int
        BY DEF PageStart
    <2>3. From(dir, lo, cursor) = PageStart(cursor, lo) /\ To(dir, hi, cursor) = hi
        BY <1>1 DEF From, To
    <2> HIDE DEF page
    <2> QED BY <1>1, <2>1, <2>2, <2>3, ForwardPage DEF page
<1>2. CASE dir = "reverse"
    <2> DEFINE end == IF cursor = NoKey THEN hi ELSE cursor
               F == Greatest(Puts(Merge(ss, lo, end)), n)
               w == WindowOf(m, ss, lo, end, F)
               live == Descending(Greatest(Puts(w), n))
    <2>1. From(dir, lo, cursor) = lo /\ To(dir, hi, cursor) = end
        BY <1>2 DEF From, To
    <2>2. lo \in Int /\ end \in Int
        OBVIOUS
    <2>3. page = IF end <= lo THEN [items |-> <<>>, next |-> NoKey]
                 ELSE [items |-> Items(w, live), next |-> IF Len(live) >= n THEN Last(live) ELSE NoKey]
        BY <1>2 DEF PageOf, RangeRevPage, WindowOf, RangeScanRevBudgeted
    <2> HIDE DEF page, end, w, live, F
    <2>4. CASE end <= lo
        <3>1. page.items = <<>> /\ page.next = NoKey
            BY <2>3, <2>4
        <3>2. WellPaged(page, dir, lo, end)
            BY <3>1 DEF WellPaged
        <3>3. \A k \in Keys : k \in Int
            BY DEF Keys
        <3>4. Answered(page, m, ss, dir, lo, end)
            BY <2>2, <2>4, <3>3 DEF Answered, InWindow
        <3> QED BY <2>1, <3>2, <3>4 DEF page
    <2>5. CASE ~(end <= lo)
        <3>1. page = [items |-> Items(w, live), next |-> IF Len(live) >= n THEN Last(live) ELSE NoKey]
            BY <2>3, <2>5
        <3> QED BY <1>2, <2>1, <2>2, <3>1, ReversePage DEF page, w, live, F
    <2> QED BY <2>4, <2>5
<1> QED BY <1>1, <1>2

\* range and prefix without a budget list every visible key of the window.
LEMMA UnlimitedScan ==
    ASSUME NEW m \in Entries, NEW ss \in Seq(Entries), Ordered(ss), Below(ss, m),
           NEW lo \in Int, NEW hi \in Int
    PROVE  ByKey(RangeItems(m, ss, lo, hi)) = Expected(m, ss, KeysIn(lo, hi))
<1> DEFINE n == Unlimited
           g == Merge(ss, lo, hi)
           S == Puts(g)
           F == Least(S, n)
           w == WindowOf(m, ss, lo, hi, F)
           L == Puts(w)
           T == Least(L, n)
           ks == Ascending(T)
           V == VisibleIn(m, ss, lo, hi)
           it == RangeItems(m, ss, lo, hi)
<1>1. it = Items(w, ks)
    BY DEF RangeItems, RangeCore, RangeScanBudgeted, DedupFilterScan, WindowOf
<1>2. n \in Nat /\ MaxKey \in Nat /\ MaxKey <= n
    BY DEF Unlimited
<1>3. S \in SUBSET Keys
    BY LivePuts
<1> HIDE DEF n
<1>4. F = S
    <2>1. Cardinality(S) \in Nat /\ Cardinality(S) <= MaxKey
        BY <1>3, KeySet
    <2>2. Cardinality(S) <= n
        BY <1>2, <2>1
    <2> QED BY <1>2, <1>3, <2>2, LeastFacts
<1>5. /\ L \in SUBSET V
      /\ \A k \in L : w[k].lsn \in Nat /\ Visible(GetEntry(m, ss, k)) = {w[k].lsn}
      /\ V \ L \in SUBSET (S \ F)
      /\ Unshadowed(m, ss, lo, hi) => F \in SUBSET L
      /\ S \in SUBSET Keys
    <2>1. w = WindowOf(m, ss, lo, hi, F) /\ F \in SUBSET Puts(Merge(ss, lo, hi))
        BY <1>4
    <2> HIDE DEF w, F, L, V, S, g, T, ks, it
    <2>2. /\ Puts(w) \in SUBSET VisibleIn(m, ss, lo, hi)
          /\ \A k \in Puts(w) : w[k].lsn \in Nat /\ Visible(GetEntry(m, ss, k)) = {w[k].lsn}
          /\ VisibleIn(m, ss, lo, hi) \ Puts(w) \in SUBSET (Puts(Merge(ss, lo, hi)) \ F)
          /\ Unshadowed(m, ss, lo, hi) => F \in SUBSET Puts(w)
          /\ Puts(Merge(ss, lo, hi)) \in SUBSET Keys
        BY <2>1, MergedPuts
    <2> QED BY <2>2 DEF L, V, S, g
<1>6. V \in SUBSET Keys
    BY DEF VisibleIn
<1>7. T = L
    <2>1. Cardinality(L) \in Nat /\ Cardinality(L) <= MaxKey
        BY <1>5, <1>6, KeySet
    <2>2. Cardinality(L) <= n
        BY <1>2, <2>1
    <2> QED BY <1>2, <1>5, <1>6, <2>2, LeastFacts
<1>8. Lists(ks, "forward", T)
    BY <1>5, <1>6, <1>7, AscendingFacts DEF Lists, Before
<1> HIDE DEF g, S, F, w, L, T, ks, it
<1>9. HasValues(w, T) /\ T \in SUBSET Keys
    BY <1>5, <1>6, <1>7 DEF HasValues
<1>10. ItemsOf(it, w, ks, T)
    BY <1>1, <1>8, <1>9, ItemsFacts
<1>11. T = V
    BY <1>4, <1>5, <1>7
<1>12. \A k \in KeysIn(lo, hi) : Visible(GetEntry(m, ss, k)) = IF k \in T THEN {w[k].lsn} ELSE {}
    BY <1>5, <1>7, <1>11 DEF VisibleIn, KeysIn
<1>13. T \in SUBSET KeysIn(lo, hi)
    BY <1>11 DEF VisibleIn, KeysIn
<1> DEFINE X == {<<k, w[k].lsn>> : k \in T}
           Y == Expected(m, ss, KeysIn(lo, hi))
           at(k) == {<<k, v>> : v \in Visible(GetEntry(m, ss, k))}
<1>14. ByKey(it) = X
    BY <1>10 DEF ItemsOf
<1>15. Y = UNION {at(k) : k \in KeysIn(lo, hi)}
    BY DEF Expected
<1>16. ASSUME NEW p \in X PROVE p \in Y
    <2>1. PICK k \in T : p = <<k, w[k].lsn>>
        BY <1>16
    <2>2. p \in at(k)
        BY <1>12, <1>13, <2>1
    <2> HIDE DEF at
    <2> QED BY <1>13, <1>15, <2>2
<1>17. ASSUME NEW p \in Y PROVE p \in X
    <2>1. PICK k \in KeysIn(lo, hi) : p \in at(k)
        <3> HIDE DEF at
        <3> QED BY <1>15, <1>17
    <2>2. PICK v \in Visible(GetEntry(m, ss, k)) : p = <<k, v>>
        BY <2>1
    <2>3. k \in T /\ v = w[k].lsn
        BY <1>12, <2>2
    <2> QED BY <2>2, <2>3
<1>18. X = Y
    <2> HIDE DEF X, Y
    <2> QED BY <1>16, <1>17
<1> QED BY <1>14, <1>18 DEF it
-----------------------------------------------------------------------------
(***************************************************************************)
(* The inductive invariant.                                                *)
(***************************************************************************)
Bases == UNION {[D -> SUBSET Nat] : D \in SUBSET Keys}

Pagination ==
    [dir : {"forward", "reverse"}, n : Nat \ {0}, lo : Nat \ {0}, hi : 0..(MaxKey + 1),
     cursor : Keys \cup {NoKey}, items : Seq(Item), done : BOOLEAN, base : Bases]

TypeOK ==
    /\ memtable \in Entries /\ segs \in Seq(Entries) /\ lsn \in Nat
    /\ flushing \in {<<>>} \cup {<<f>> : f \in [ents : Entries, max : Nat]}
    /\ client = Idle \/ client \in Pagination

AtMost(e, n) == \A k \in Keys : e[k] # NoEntry => e[k].lsn <= n

\* Registration order is LSN order, and the memtable is later than every segment.
LsnOrder ==
    /\ Ordered(segs) /\ \A i \in DOMAIN segs : AtMost(segs[i], lsn)
    /\ Below(segs, memtable) /\ AtMost(memtable, lsn)

\* A flush under way: the memtable still has what was copied, or something later.
Copied(f, m) == \A k \in Keys : m[k] = f.ents[k] \/ (m[k] # NoEntry /\ m[k].lsn > f.max)
FlushPending ==
    flushing # <<>> =>
        /\ flushing[1].max <= lsn /\ AtMost(flushing[1].ents, flushing[1].max)
        /\ Below(segs, flushing[1].ents)
        /\ Copied(flushing[1], memtable)

\* What a client has is in order and not beyond its cursor.
InOrder(c) ==
    /\ \A i, j \in DOMAIN c.items : i < j => Before(c.dir, c.items[i].key, c.items[j].key)
    /\ c.cursor = NoKey /\ ~c.done => c.items = <<>>
    /\ c.cursor # NoKey => /\ InWindow(c.cursor, c.lo, c.hi)
                           /\ \A i \in DOMAIN c.items : ~Before(c.dir, c.cursor, c.items[i].key)

\* The keys a client counts on still have the value they had, and it has seen
\* this value exactly if its cursor passed them.
Passed(c, k) == c.done \/ (c.cursor # NoKey /\ ~Before(c.dir, c.cursor, k))
Counted(c, m, ss) ==
    \A k \in DOMAIN c.base :
        /\ k >= c.lo /\ k < c.hi
        /\ c.base[k] = Visible(GetEntry(m, ss, k))
        /\ OfKey(c.items, k) = IF Passed(c, k) THEN {<<k, v>> : v \in c.base[k]} ELSE {}

ClientInv == client # Idle => InOrder(client) /\ Counted(client, memtable, segs)

IInv == TypeOK /\ LsnOrder /\ FlushPending /\ ClientInv
-----------------------------------------------------------------------------
(***************************************************************************)
(* What the steps do to the reads and to the client.                       *)
(***************************************************************************)

LEMMA AppendSegment ==
    ASSUME NEW ss \in Seq(Entries), NEW e \in Entries, Ordered(ss), Below(ss, e)
    PROVE  /\ Append(ss, e) \in Seq(Entries) /\ Ordered(Append(ss, e))
           /\ \A k \in Keys : SegmentGet(Append(ss, e), k) = IF e[k] # NoEntry THEN e[k] ELSE SegmentGet(ss, k)
<1> DEFINE tt == Append(ss, e)
           n == Len(ss) + 1
<1>1. /\ tt \in Seq(Entries) /\ n \in Nat /\ DOMAIN ss = 1..Len(ss) /\ Len(ss) \in Nat
      /\ DOMAIN tt = 1..n /\ tt[n] = e /\ \A i \in DOMAIN ss : tt[i] = ss[i]
    OBVIOUS
<1> HIDE DEF tt
<1>2. \A i \in DOMAIN tt : i = n \/ i \in DOMAIN ss
    BY <1>1
<1>3. Ordered(tt)
    <2> SUFFICES ASSUME NEW i \in DOMAIN tt, NEW j \in DOMAIN tt, i < j, NEW k \in Keys,
                        tt[i][k] # NoEntry, tt[j][k] # NoEntry
                 PROVE  tt[i][k].lsn < tt[j][k].lsn
        BY DEF Ordered
    <2>1. i \in DOMAIN ss
        BY <1>1, <1>2
    <2>2. CASE j = n
        BY <1>1, <2>1, <2>2 DEF Below
    <2>3. CASE j \in DOMAIN ss
        BY <1>1, <2>1, <2>3 DEF Ordered
    <2> QED BY <1>2, <2>2, <2>3
<1>4. ASSUME NEW k \in Keys
      PROVE  SegmentGet(tt, k) = IF e[k] # NoEntry THEN e[k] ELSE SegmentGet(ss, k)
    <2>1. HitsOf(tt, k) = HitsOf(ss, k) \cup (IF e[k] # NoEntry THEN {n} ELSE {})
        BY <1>1, <1>2 DEF HitsOf
    <2>2. \A i \in HitsOf(ss, k) : i \in DOMAIN ss /\ i < n
        BY <1>1 DEF HitsOf
    <2>3. CASE e[k] # NoEntry
        <3>1. PICK i \in HitsOf(tt, k) : SegmentGet(tt, k) = tt[i][k] /\ \A j \in HitsOf(tt, k) : j <= i
            <4>1. HitsOf(tt, k) # {}
                BY <2>1, <2>3
            <4> QED BY <1>1, <4>1, SegmentGetFacts
        <3>2. i = n
            <4>1. n <= i
                BY <2>1, <2>3, <3>1
            <4>2. i = n \/ i < n
                BY <2>1, <2>2, <2>3
            <4>3. i \in Int /\ n \in Int
                BY <1>1 DEF HitsOf
            <4> QED BY <4>1, <4>2, <4>3
        <3> QED BY <1>1, <2>3, <3>1, <3>2
    <2>4. CASE e[k] = NoEntry
        <3>1. HitsOf(tt, k) = HitsOf(ss, k)
            BY <2>1, <2>4
        <3>2. CASE HitsOf(ss, k) = {}
            <4>1. SegmentGet(ss, k) = NoEntry
                BY <3>2, SegmentGetFacts
            <4>2. SegmentGet(tt, k) = NoEntry
                BY <1>1, <3>1, <3>2, SegmentGetFacts
            <4> QED BY <2>4, <4>1, <4>2
        <3>3. CASE HitsOf(ss, k) # {}
            <4>1. PICK i \in HitsOf(ss, k) : SegmentGet(ss, k) = ss[i][k] /\ \A j \in HitsOf(ss, k) : j <= i
                BY <3>3, SegmentGetFacts
            <4>2. PICK h \in HitsOf(tt, k) : SegmentGet(tt, k) = tt[h][k] /\ \A j \in HitsOf(tt, k) : j <= h
                BY <1>1, <3>1, <3>3, SegmentGetFacts
            <4>3. h = i
                <5>1. h <= i /\ i <= h
                    BY <3>1, <4>1, <4>2
                <5>2. h \in Int /\ i \in Int
                    BY <1>1, <2>2, <3>1
                <5> QED BY <5>1, <5>2
            <4> QED BY <1>1, <2>2, <2>4, <4>1, <4>2, <4>3
        <3> QED BY <3>2, <3>3
    <2> QED BY <2>3, <2>4
<1> QED BY <1>1, <1>3, <1>4 DEF tt

\* What finalize_flush leaves in the memtable.
Left(m, f) == [k \in Keys |-> IF m[k] # NoEntry /\ m[k].lsn > f.max THEN m[k] ELSE NoEntry]

\* finalize_flush changes no answer of get.
LEMMA FlushKeepsReads ==
    ASSUME NEW m \in Entries, NEW ss \in Seq(Entries), NEW f \in [ents : Entries, max : Nat],
           Ordered(ss), Below(ss, f.ents), AtMost(f.ents, f.max), Copied(f, m), NEW k \in Keys
    PROVE  GetEntry(Left(m, f), Append(ss, f.ents), k) = GetEntry(m, ss, k)
<1> DEFINE s == SegmentGet(ss, k)
           t == SegmentGet(Append(ss, f.ents), k)
           e == f.ents
<1>1. e \in Entries /\ f.max \in Nat
    OBVIOUS
<1>2. t = IF e[k] # NoEntry THEN e[k] ELSE s
    BY <1>1, AppendSegment
<1>3. GetEntry(Left(m, f), Append(ss, e), k) = IF m[k] # NoEntry /\ m[k].lsn > f.max THEN m[k] ELSE t
    BY DEF GetEntry, Left
<1>4. GetEntry(m, ss, k) = IF m[k] # NoEntry THEN m[k] ELSE s
    BY DEF GetEntry
<1>5. m[k] = e[k] \/ (m[k] # NoEntry /\ m[k].lsn > f.max)
    BY DEF Copied
<1>6. e[k] # NoEntry => ~(e[k].lsn > f.max)
    <2> SUFFICES ASSUME e[k] # NoEntry PROVE ~(e[k].lsn > f.max)
        OBVIOUS
    <2>1. e[k].lsn \in Nat /\ e[k].lsn <= f.max
        BY <1>1, EntryFacts DEF AtMost
    <2> QED BY <1>1, <2>1
<1> HIDE DEF s, t, e
<1>7. CASE m[k] = e[k]
    BY <1>2, <1>3, <1>4, <1>6, <1>7 DEF e
<1>8. CASE m[k] # NoEntry /\ m[k].lsn > f.max
    BY <1>3, <1>4, <1>8 DEF e
<1> QED BY <1>5, <1>7, <1>8

LEMMA JoinedItems ==
    ASSUME NEW a \in Seq(Item), NEW b \in Seq(Item)
    PROVE  /\ a \o b \in Seq(Item)
           /\ \A i \in DOMAIN (a \o b) :
                 \/ i \in DOMAIN a /\ (a \o b)[i] = a[i]
                 \/ i \notin DOMAIN a /\ i - Len(a) \in DOMAIN b /\ (a \o b)[i] = b[i - Len(a)]
           /\ \A k : OfKey(a \o b, k) = OfKey(a, k) \cup OfKey(b, k)
<1> DEFINE c == a \o b
<1>1. /\ c \in Seq(Item) /\ DOMAIN a = 1..Len(a) /\ DOMAIN b = 1..Len(b) /\ DOMAIN c = 1..(Len(a) + Len(b))
      /\ Len(a) \in Nat /\ Len(b) \in Nat
      /\ \A i \in DOMAIN c : c[i] = IF i <= Len(a) THEN a[i] ELSE b[i - Len(a)]
    OBVIOUS
<1> HIDE DEF c
<1>2. \A i \in DOMAIN c : \/ i \in DOMAIN a /\ c[i] = a[i]
                          \/ i \notin DOMAIN a /\ i - Len(a) \in DOMAIN b /\ c[i] = b[i - Len(a)]
    BY <1>1
<1>3. \A i \in DOMAIN a : i \in DOMAIN c /\ c[i] = a[i]
    BY <1>1
<1>4. \A i \in DOMAIN b : i + Len(a) \in DOMAIN c /\ c[i + Len(a)] = b[i]
    BY <1>1
<1> DEFINE pair(it) == <<it.key, it.val>>
<1>5. \A p : p \in ByKey(c) <=> \E i \in DOMAIN c : p = pair(c[i])
    BY DEF ByKey
<1>6. \A p : p \in ByKey(a) <=> \E i \in DOMAIN a : p = pair(a[i])
    BY DEF ByKey
<1>7. \A p : p \in ByKey(b) <=> \E i \in DOMAIN b : p = pair(b[i])
    BY DEF ByKey
<1> HIDE DEF pair
<1>8. \A p : p \in ByKey(c) <=> p \in ByKey(a) \/ p \in ByKey(b)
    <2>1. ASSUME NEW p, p \in ByKey(c) PROVE p \in ByKey(a) \/ p \in ByKey(b)
        BY <1>2, <1>5, <1>6, <1>7, <2>1
    <2>2. ASSUME NEW p, p \in ByKey(a) PROVE p \in ByKey(c)
        BY <1>3, <1>5, <1>6, <2>2
    <2>3. ASSUME NEW p, p \in ByKey(b) PROVE p \in ByKey(c)
        BY <1>4, <1>5, <1>7, <2>3
    <2> QED BY <2>1, <2>2, <2>3
<1>9. \A k : OfKey(c, k) = OfKey(a, k) \cup OfKey(b, k)
    BY <1>8 DEF OfKey
<1> QED BY <1>1, <1>2, <1>9 DEF c

LEMMA OfKeyNone ==
    ASSUME NEW items, NEW k, \A i \in DOMAIN items : items[i].key # k
    PROVE  OfKey(items, k) = {}
BY DEF OfKey, ByKey

LEMMA Orders ==
    ASSUME NEW dir, NEW a \in Int, NEW b \in Int, NEW k \in Int,
           ~Before(dir, a, b), Before(dir, a, k)
    PROVE  Before(dir, b, k) /\ ~Before(dir, k, b) /\ b # k
BY DEF Before

\* A page's window is what the cursor has not passed.
LEMMA WindowFacts ==
    ASSUME NEW c \in Pagination, ~c.done, NEW k \in Keys
    PROVE  /\ InWindow(k, From(c.dir, c.lo, c.cursor), To(c.dir, c.hi, c.cursor)) =>
                (c.cursor # NoKey => Before(c.dir, c.cursor, k))
           /\ InWindow(k, From(c.dir, c.lo, c.cursor), To(c.dir, c.hi, c.cursor)) => ~Passed(c, k)
           /\ c.lo <= k /\ k < c.hi /\ ~Passed(c, k) =>
                InWindow(k, From(c.dir, c.lo, c.cursor), To(c.dir, c.hi, c.cursor))
           /\ InWindow(k, From(c.dir, c.lo, c.cursor), To(c.dir, c.hi, c.cursor)) /\ InOrder(c) =>
                InWindow(k, c.lo, c.hi)
<1>1. Keys \in SUBSET Int
    BY DEF Keys
<1>2. /\ c.dir \in {"forward", "reverse"} /\ c.lo \in Int /\ c.hi \in Int
      /\ c.cursor \in Int /\ k \in Int
    <2>1. c.dir \in {"forward", "reverse"} /\ c.lo \in Int /\ c.cursor \in Keys \cup {NoKey}
        BY DEF Pagination
    <2>2. c.hi \in 0..(MaxKey + 1) /\ MaxKey \in Int
        BY DEF Pagination
    <2>3. NoKey \in Int
        BY DEF NoKey
    <2>4. c.hi \in Int
        BY <2>2
    <2>5. c.cursor \in Int /\ k \in Int
        BY <1>1, <2>1, <2>3
    <2> QED BY <2>1, <2>4, <2>5
<1>5. InOrder(c) => (c.cursor # NoKey => InWindow(c.cursor, c.lo, c.hi))
    BY DEF InOrder
<1>3. CASE c.dir = "forward"
    BY <1>2, <1>3, <1>5 DEF From, To, PageStart, InWindow, Passed, Before
<1>4. CASE c.dir = "reverse"
    BY <1>2, <1>4, <1>5 DEF From, To, InWindow, Passed, Before
<1> QED BY <1>2, <1>3, <1>4

\* What the client is after a page: ordered, and it has exactly the keys passed.
PageAdded(c, d, page, base) ==
    d = [c EXCEPT !.items = @ \o page.items, !.cursor = page.next,
                  !.done = (page.next = NoKey), !.base = base]

LEMMA AfterPage ==
    ASSUME NEW c \in Pagination, NEW page, page.items \in Seq(Item), page.next \in Keys \cup {NoKey},
           NEW base \in Bases, NEW d, PageAdded(c, d, page, base)
    PROVE  /\ d \in Pagination
           /\ d.dir = c.dir /\ d.lo = c.lo /\ d.hi = c.hi /\ d.base = base
           /\ d.items = c.items \o page.items /\ d.cursor = page.next
           /\ d.done <=> page.next = NoKey
<1>1. c.items \o page.items \in Seq(Item)
    BY JoinedItems DEF Pagination
<1> DEFINE its == c.items \o page.items
<1>2. its \in Seq(Item) /\ c.items \o page.items = its
    BY <1>1
<1> HIDE DEF its
<1>3. d = [c EXCEPT !.items = its, !.cursor = page.next, !.done = (page.next = NoKey), !.base = base]
    BY <1>2 DEF PageAdded
<1>4. (page.next = NoKey) \in BOOLEAN
    OBVIOUS
<1> QED BY <1>2, <1>3, <1>4 DEF Pagination

LEMMA PagesJoin ==
    ASSUME NEW c \in Pagination, ~c.done, NEW m, NEW ss, InOrder(c), Counted(c, m, ss),
           NEW f, f = From(c.dir, c.lo, c.cursor), NEW t, t = To(c.dir, c.hi, c.cursor),
           NEW page, WellPaged(page, c.dir, f, t),
           NEW base \in Bases,
           DOMAIN base = {} \/ (base = c.base /\ Answered(page, m, ss, c.dir, f, t)),
           NEW d, PageAdded(c, d, page, base)
    PROVE  d \in Pagination /\ InOrder(d) /\ Counted(d, m, ss)
<1> DEFINE a == c.items
           b == page.items
<1>1. Keys \in SUBSET Int /\ NoKey \in Int
    BY DEF Keys, NoKey
<1>2. /\ a \in Seq(Item) /\ c.cursor \in Keys \cup {NoKey}
      /\ DOMAIN c.base \in SUBSET Keys /\ c.dir \in {"forward", "reverse"}
    BY DEF Pagination, Bases
<1>3. /\ b \in Seq(Item)
      /\ \A i \in DOMAIN b : InWindow(b[i].key, f, t)
      /\ \A i, j \in DOMAIN b : i < j => Before(c.dir, b[i].key, b[j].key)
      /\ page.next # NoKey =>
           /\ page.next \in Keys /\ InWindow(page.next, f, t)
           /\ \A i \in DOMAIN b : ~Before(c.dir, page.next, b[i].key)
    BY DEF WellPaged
<1>4. page.next \in Keys \cup {NoKey}
    BY <1>3
<1>5. /\ d \in Pagination
      /\ d.dir = c.dir /\ d.lo = c.lo /\ d.hi = c.hi /\ d.base = base
      /\ d.items = a \o b /\ d.cursor = page.next
      /\ d.done <=> page.next = NoKey
    BY <1>3, <1>4, AfterPage
<1>6. \A s \in Seq(Item) : /\ Len(s) \in Nat /\ DOMAIN s = 1..Len(s) /\ DOMAIN s \in SUBSET Int
                            /\ \A i \in DOMAIN s : s[i].key \in Keys
    <2> TAKE s \in Seq(Item)
    <2>1. Len(s) \in Nat /\ DOMAIN s = 1..Len(s) /\ \A i \in DOMAIN s : s[i] \in Item
        OBVIOUS
    <2> QED BY <2>1 DEF Item
<1>7. /\ \A i, j \in DOMAIN a : i < j => Before(c.dir, a[i].key, a[j].key)
      /\ c.cursor = NoKey => a = <<>>
      /\ c.cursor # NoKey => \A i \in DOMAIN a : ~Before(c.dir, c.cursor, a[i].key)
    BY DEF InOrder, a
<1>8. /\ \A i \in DOMAIN (a \o b) :
              \/ i \in DOMAIN a /\ (a \o b)[i] = a[i]
              \/ i \notin DOMAIN a /\ i - Len(a) \in DOMAIN b /\ (a \o b)[i] = b[i - Len(a)]
      /\ \A k : OfKey(a \o b, k) = OfKey(a, k) \cup OfKey(b, k)
      /\ a \o b \in Seq(Item)
    BY <1>2, <1>3, JoinedItems
<1>9. /\ \A k \in Keys : InWindow(k, f, t) => (c.cursor # NoKey => Before(c.dir, c.cursor, k))
      /\ \A k \in Keys : InWindow(k, f, t) => ~Passed(c, k)
      /\ \A k \in Keys : c.lo <= k /\ k < c.hi /\ ~Passed(c, k) => InWindow(k, f, t)
      /\ \A k \in Keys : InWindow(k, f, t) /\ InOrder(c) => InWindow(k, c.lo, c.hi)
    BY WindowFacts
<1> DEFINE ab == a \o b
<1> HIDE DEF a, b
<1>10. /\ Len(a) \in Nat /\ DOMAIN a = 1..Len(a)
       /\ DOMAIN a \in SUBSET Int /\ DOMAIN b \in SUBSET Int /\ DOMAIN (a \o b) \in SUBSET Int
       /\ \A i \in DOMAIN a : a[i].key \in Keys
       /\ \A i \in DOMAIN b : b[i].key \in Keys
       /\ \A i \in DOMAIN a : c.cursor # NoKey
    <2>1. a \in Seq(Item) /\ b \in Seq(Item) /\ a \o b \in Seq(Item)
        BY <1>2, <1>3, <1>8 DEF a, b
    <2>2. c.cursor = NoKey => DOMAIN a = {}
        BY <1>7 DEF a
    <2> QED BY <1>6, <2>1, <2>2
<1>11. /\ d.items = ab /\ DOMAIN ab \in SUBSET Int
       /\ \A i \in DOMAIN ab :
              \/ i \in DOMAIN a /\ ab[i] = a[i]
              \/ i \notin DOMAIN a /\ i - Len(a) \in DOMAIN b /\ ab[i] = b[i - Len(a)]
       /\ \A k : OfKey(ab, k) = OfKey(a, k) \cup OfKey(b, k)
    BY <1>5, <1>8, <1>10 DEF a, b
<1> HIDE DEF ab
<1>12. ASSUME NEW i \in DOMAIN a, NEW k \in Keys, InWindow(k, f, t)
       PROVE  Before(c.dir, a[i].key, k) /\ ~Before(c.dir, k, a[i].key)
    <2>1. ~Before(c.dir, c.cursor, a[i].key) /\ Before(c.dir, c.cursor, k)
        BY <1>7, <1>9, <1>10, <1>12
    <2>2. c.cursor \in Int /\ a[i].key \in Int /\ k \in Int
        BY <1>1, <1>2, <1>10
    <2> QED BY <2>1, <2>2, Orders
<1>13. InOrder(d)
    <2>3. \A i \in DOMAIN ab : i >= 1
        BY <1>2, <1>3, <1>8 DEF ab, a, b
    <2>1. ASSUME NEW i \in DOMAIN ab, NEW j \in DOMAIN ab, i < j
          PROVE  Before(c.dir, ab[i].key, ab[j].key)
        <3>1. i \in Int /\ j \in Int
            BY <1>11
        <3>2. CASE i \in DOMAIN a /\ j \in DOMAIN a
            BY <1>7, <1>11, <2>1, <3>2 DEF a
        <3>3. CASE i \in DOMAIN a /\ j \notin DOMAIN a
            <4>1. ab[i] = a[i] /\ j - Len(a) \in DOMAIN b /\ ab[j] = b[j - Len(a)]
                BY <1>11, <3>3
            <4> QED BY <1>3, <1>10, <1>12, <3>3, <4>1 DEF b
        <3>4. CASE i \notin DOMAIN a
            <4>1. j \notin DOMAIN a
                <5>1. ~(i \in 1..Len(a)) /\ i - Len(a) \in DOMAIN b /\ DOMAIN b \in SUBSET Int
                    BY <1>10, <1>11, <3>4
                <5>2. i >= 1
                    BY <2>3, <3>1
                <5>3. ~(j \in 1..Len(a))
                    BY <1>10, <2>1, <3>1, <5>1, <5>2
                <5> QED BY <1>10, <5>3
            <4>2. /\ i - Len(a) \in DOMAIN b /\ ab[i] = b[i - Len(a)]
                  /\ j - Len(a) \in DOMAIN b /\ ab[j] = b[j - Len(a)]
                BY <1>11, <3>4, <4>1
            <4>3. i - Len(a) < j - Len(a)
                BY <1>10, <2>1, <3>1
            <4> QED BY <1>3, <4>2, <4>3 DEF b
        <3> QED BY <3>2, <3>3, <3>4
    <2>2. ASSUME page.next # NoKey, NEW i \in DOMAIN ab
          PROVE  ~Before(c.dir, page.next, ab[i].key)
        <3>1. CASE i \in DOMAIN a
            BY <1>3, <1>11, <1>12, <2>2, <3>1
        <3>2. CASE i \notin DOMAIN a
            <4>1. i - Len(a) \in DOMAIN b /\ ab[i] = b[i - Len(a)]
                BY <1>11, <3>2
            <4> QED BY <1>3, <2>2, <4>1 DEF b
        <3> QED BY <3>1, <3>2
    <2>4. page.next # NoKey => InWindow(page.next, c.lo, c.hi)
        BY <1>3, <1>9
    <2> QED BY <1>5, <1>11, <2>1, <2>2, <2>4 DEF InOrder
<1>14. Counted(d, m, ss)
    <2> SUFFICES ASSUME NEW k \in DOMAIN base
                 PROVE  /\ k >= c.lo /\ k < c.hi
                        /\ base[k] = Visible(GetEntry(m, ss, k))
                        /\ OfKey(ab, k) = IF Passed(d, k) THEN {<<k, v>> : v \in base[k]} ELSE {}
        BY <1>5, <1>11 DEF Counted
    <2>1. base = c.base /\ Answered(page, m, ss, c.dir, f, t)
        OBVIOUS
    <2>2. k \in Keys /\ k \in Int
        BY <1>1, <1>2, <2>1
    <2>3. /\ k >= c.lo /\ k < c.hi
          /\ base[k] = Visible(GetEntry(m, ss, k))
          /\ OfKey(a, k) = IF Passed(c, k) THEN {<<k, v>> : v \in base[k]} ELSE {}
        BY <2>1 DEF Counted, a
    <2>4. CASE Passed(c, k)
        <3>1. OfKey(b, k) = {}
            <4>1. \A i \in DOMAIN b : b[i].key # k
                BY <1>3, <1>9, <2>2, <2>4 DEF b
            <4> QED BY <4>1, OfKeyNone
        <3>2. Passed(d, k)
            <4> SUFFICES ASSUME page.next # NoKey PROVE ~Before(c.dir, page.next, k)
                BY <1>5 DEF Passed
            <4>1. /\ page.next \in Keys /\ page.next \in Int /\ c.cursor \in Int /\ c.cursor # NoKey
                  /\ ~Before(c.dir, c.cursor, k)
                BY <1>1, <1>2, <1>3, <2>4 DEF Passed
            <4>2. Before(c.dir, c.cursor, page.next)
                BY <1>3, <1>9, <4>1
            <4> QED BY <2>2, <4>1, <4>2, Orders
        <3> QED BY <1>11, <2>3, <2>4, <3>1, <3>2
    <2>5. CASE ~Passed(c, k)
        <3>1. InWindow(k, f, t)
            <4>1. c.lo <= k
                BY <2>2, <2>3 DEF Pagination
            <4> QED BY <1>9, <2>2, <2>3, <2>5, <4>1
        <3>2. CASE Passed(d, k)
            <4>1. page.next = NoKey \/ ~Before(c.dir, page.next, k)
                BY <1>5, <3>2 DEF Passed
            <4>2. OfKey(b, k) = Answer(m, ss, k)
                BY <2>1, <2>2, <3>1, <4>1 DEF Answered, b
            <4>3. Answer(m, ss, k) = {<<k, v>> : v \in base[k]}
                BY <2>3 DEF Answer
            <4> QED BY <1>11, <2>3, <2>5, <3>2, <4>2, <4>3
        <3>3. CASE ~Passed(d, k)
            <4>1. page.next # NoKey /\ Before(c.dir, page.next, k)
                BY <1>5, <3>3 DEF Passed
            <4>2. \A i \in DOMAIN b : b[i].key # k
                <5>1. \A i \in DOMAIN b : ~Before(c.dir, page.next, b[i].key)
                    BY <1>3, <4>1 DEF b
                <5> QED BY <4>1, <5>1
            <4>3. OfKey(b, k) = {}
                BY <4>2, OfKeyNone
            <4> QED BY <1>11, <2>3, <2>5, <3>3, <4>3
        <3> QED BY <3>2, <3>3
    <2> QED BY <2>3, <2>4, <2>5
<1> QED BY <1>5, <1>13, <1>14
-----------------------------------------------------------------------------
(***************************************************************************)
(* The invariant is inductive.                                             *)
(***************************************************************************)
LEMMA InitIInv == Init => IInv
<1> SUFFICES ASSUME Init PROVE IInv
    OBVIOUS
<1>1. /\ memtable \in Entries /\ segs = <<>> /\ lsn = 0 /\ flushing = <<>> /\ client = Idle
      /\ \A k \in Keys : memtable[k] = NoEntry
    BY DEF Init, Entries
<1>2. DOMAIN segs = {} /\ segs \in Seq(Entries)
    BY <1>1
<1> QED BY <1>1, <1>2 DEF IInv, TypeOK, LsnOrder, FlushPending, ClientInv, Ordered, Below, AtMost

\* What a client counts on less one key is still what it can count on.
KeyDropped(c, d, k) == d = [c EXCEPT !.base = Restricted(@, DOMAIN @ \ {k})]

LEMMA AfterWrite ==
    ASSUME NEW c \in Pagination, NEW k, NEW d, KeyDropped(c, d, k)
    PROVE  /\ d \in Pagination
           /\ d.dir = c.dir /\ d.lo = c.lo /\ d.hi = c.hi /\ d.items = c.items
           /\ d.cursor = c.cursor /\ d.done = c.done
           /\ DOMAIN d.base = DOMAIN c.base \ {k}
           /\ \A j \in DOMAIN d.base : d.base[j] = c.base[j]
<1> DEFINE base == Restricted(c.base, DOMAIN c.base \ {k})
<1>1. PICK D \in SUBSET Keys : c.base \in [D -> SUBSET Nat]
    BY DEF Pagination, Bases
<1>2. base \in [D \ {k} -> SUBSET Nat] /\ \A j \in DOMAIN base : base[j] = c.base[j]
    BY <1>1 DEF Restricted
<1>3. base \in Bases /\ DOMAIN base = DOMAIN c.base \ {k}
    BY <1>1, <1>2 DEF Bases
<1>4. d = [c EXCEPT !.base = base]
    BY DEF KeyDropped
<1> HIDE DEF base
<1> QED BY <1>2, <1>3, <1>4 DEF Pagination

LEMMA WriteIInv ==
    ASSUME IInv, NEW k \in Keys, NEW op \in {"Put", "Delete"}, write(k, op)
    PROVE  IInv'
<1>1. /\ ~Paged /\ lsn' = lsn + 1 /\ segs' = segs /\ flushing' = flushing
      /\ memtable' = [memtable EXCEPT ![k] = [op |-> op, lsn |-> lsn']]
      /\ client' = IF client = Idle THEN Idle ELSE [client EXCEPT !.base = Restricted(@, DOMAIN @ \ {k})]
    BY DEF write
<1>2. TypeOK /\ LsnOrder /\ FlushPending /\ ClientInv
    BY DEF IInv
<1>3. lsn \in Nat /\ lsn' \in Nat /\ [op |-> op, lsn |-> lsn'] \in Entry
    BY <1>1, <1>2 DEF TypeOK, Entry
<1>4. /\ memtable' \in Entries
      /\ memtable'[k] = [op |-> op, lsn |-> lsn'] /\ memtable'[k] # NoEntry /\ memtable'[k].lsn = lsn + 1
      /\ \A j \in Keys : j # k => memtable'[j] = memtable[j]
    <2>1. memtable \in [Keys -> Entry \cup {NoEntry}]
        BY <1>2 DEF TypeOK, Entries
    <2>2. NoEntry \notin Entry
        BY DEF Entry
    <2> QED BY <1>1, <1>3, <2>1, <2>2 DEF Entries
<1>5. \A j \in Keys : memtable[j] # NoEntry => memtable[j].lsn \in Nat
    BY <1>2, EntryFacts DEF TypeOK
<1>6. \A i \in DOMAIN segs, j \in Keys : segs[i][j] # NoEntry => segs[i][j].lsn \in Nat
    <2> SUFFICES ASSUME NEW i \in DOMAIN segs, NEW j \in Keys, segs[i][j] # NoEntry
                 PROVE  segs[i][j].lsn \in Nat
        OBVIOUS
    <2>1. segs[i] \in Entries
        BY <1>2 DEF TypeOK
    <2> QED BY <2>1, EntryFacts
<1>7. LsnOrder'
    <2>1. Ordered(segs')
        BY <1>1, <1>2 DEF LsnOrder
    <2>2. \A i \in DOMAIN segs' : AtMost(segs'[i], lsn')
        BY <1>1, <1>2, <1>3, <1>6 DEF LsnOrder, AtMost
    <2>3. Below(segs', memtable')
        <3> SUFFICES ASSUME NEW i \in DOMAIN segs, NEW j \in Keys, segs[i][j] # NoEntry, memtable'[j] # NoEntry
                     PROVE  segs[i][j].lsn < memtable'[j].lsn
            BY <1>1 DEF Below
        <3>1. segs[i][j].lsn \in Nat /\ segs[i][j].lsn <= lsn
            BY <1>2, <1>6 DEF LsnOrder, AtMost
        <3>2. CASE j = k
            BY <1>3, <1>4, <3>1, <3>2
        <3>3. CASE j # k
            BY <1>2, <1>4, <3>3 DEF LsnOrder, Below
        <3> QED BY <3>2, <3>3
    <2>4. AtMost(memtable', lsn')
        <3> SUFFICES ASSUME NEW j \in Keys, memtable'[j] # NoEntry PROVE memtable'[j].lsn <= lsn'
            BY DEF AtMost
        <3>1. CASE j = k
            BY <1>1, <1>3, <1>4, <3>1
        <3>2. CASE j # k
            BY <1>1, <1>2, <1>3, <1>4, <1>5, <3>2 DEF LsnOrder, AtMost
        <3> QED BY <3>1, <3>2
    <2> QED BY <2>1, <2>2, <2>3, <2>4 DEF LsnOrder
<1>8. FlushPending'
    <2> SUFFICES ASSUME flushing # <<>>
                 PROVE  flushing[1].max <= lsn' /\ Copied(flushing[1], memtable')
        BY <1>1, <1>2 DEF FlushPending
    <2>1. flushing[1].max \in Nat /\ flushing[1].max <= lsn /\ Copied(flushing[1], memtable)
        BY <1>2 DEF FlushPending, TypeOK
    <2>2. ASSUME NEW j \in Keys
          PROVE  memtable'[j] = flushing[1].ents[j] \/ (memtable'[j] # NoEntry /\ memtable'[j].lsn > flushing[1].max)
        <3>1. CASE j = k
            BY <1>3, <1>4, <2>1, <3>1
        <3>2. CASE j # k
            BY <1>4, <2>1, <3>2 DEF Copied
        <3> QED BY <3>1, <3>2
    <2> QED BY <1>1, <1>3, <2>1, <2>2 DEF Copied
<1>9. CASE client = Idle
    BY <1>1, <1>2, <1>3, <1>4, <1>7, <1>8, <1>9 DEF IInv, TypeOK, ClientInv
<1>10. CASE client # Idle
    <2>1. client \in Pagination /\ InOrder(client) /\ Counted(client, memtable, segs)
        BY <1>2, <1>10 DEF TypeOK, ClientInv
    <2>2. client' = [client EXCEPT !.base = Restricted(@, DOMAIN @ \ {k})]
        BY <1>1, <1>10
    <2> DEFINE d == client'
    <2>3. KeyDropped(client, d, k)
        BY <2>2 DEF KeyDropped
    <2> HIDE DEF d
    <2>4. /\ d \in Pagination
          /\ d.dir = client.dir /\ d.lo = client.lo /\ d.hi = client.hi /\ d.items = client.items
          /\ d.cursor = client.cursor /\ d.done = client.done
          /\ DOMAIN d.base = DOMAIN client.base \ {k}
          /\ \A j \in DOMAIN d.base : d.base[j] = client.base[j]
        BY <2>1, <2>3, AfterWrite
    <2>5. InOrder(d)
        BY <2>1, <2>4 DEF InOrder
    <2>6. \A j \in Keys : j # k => GetEntry(memtable', segs, j) = GetEntry(memtable, segs, j)
        BY <1>4 DEF GetEntry
    <2>7. \A j : Passed(d, j) <=> Passed(client, j)
        BY <2>4 DEF Passed
    <2>8. DOMAIN client.base \in SUBSET Keys
        BY <2>1 DEF Pagination, Bases
    <2>9. Counted(d, memtable', segs)
        BY <2>1, <2>4, <2>6, <2>7, <2>8 DEF Counted
    <2> QED BY <1>1, <1>2, <1>3, <1>4, <1>7, <1>8, <2>4, <2>5, <2>9 DEF IInv, TypeOK, ClientInv, d
<1> QED BY <1>9, <1>10

LEMMA BeginFlushIInv ==
    ASSUME IInv, begin_flush
    PROVE  IInv'
<1>1. /\ memtable' = memtable /\ segs' = segs /\ lsn' = lsn /\ client' = client
      /\ flushing' = <<[ents |-> memtable, max |-> lsn]>>
    BY DEF begin_flush
<1>2. TypeOK /\ LsnOrder /\ FlushPending /\ ClientInv
    BY DEF IInv
<1>3. memtable \in Entries /\ lsn \in Nat
    BY <1>2 DEF TypeOK
<1>4. flushing'[1].ents = memtable /\ flushing'[1].max = lsn
    BY <1>1
<1>5. TypeOK'
    BY <1>1, <1>2, <1>3 DEF TypeOK
<1>6. FlushPending'
    BY <1>1, <1>2, <1>3, <1>4 DEF FlushPending, LsnOrder, Copied
<1> QED BY <1>1, <1>2, <1>5, <1>6 DEF IInv, LsnOrder, ClientInv

LEMMA FinalizeFlushIInv ==
    ASSUME IInv, finalize_flush
    PROVE  IInv'
<1>1. TypeOK /\ LsnOrder /\ FlushPending /\ ClientInv /\ flushing # <<>>
    BY DEF IInv, finalize_flush
<1>2. PICK f \in [ents : Entries, max : Nat] : flushing = <<f>>
    BY <1>1 DEF TypeOK
<1>3. /\ segs' = Append(segs, f.ents) /\ flushing' = <<>> /\ lsn' = lsn /\ client' = client
      /\ memtable' = Left(memtable, f)
    BY <1>2 DEF finalize_flush, Left
<1>4. /\ f.ents \in Entries /\ f.max \in Nat /\ f.max <= lsn /\ AtMost(f.ents, f.max)
      /\ Below(segs, f.ents) /\ Copied(f, memtable)
    BY <1>1, <1>2 DEF FlushPending
<1>5. /\ memtable \in Entries /\ segs \in Seq(Entries) /\ lsn \in Nat
      /\ Ordered(segs) /\ Below(segs, memtable) /\ AtMost(memtable, lsn)
      /\ \A i \in DOMAIN segs : AtMost(segs[i], lsn)
    BY <1>1 DEF TypeOK, LsnOrder
<1>6. segs' \in Seq(Entries) /\ Ordered(segs')
    BY <1>3, <1>4, <1>5, AppendSegment
<1>7. \A i \in DOMAIN segs' : segs'[i] = f.ents \/ (i \in DOMAIN segs /\ segs'[i] = segs[i])
    BY <1>3, <1>4, <1>5
<1>8. \A k \in Keys : memtable'[k] # NoEntry => memtable'[k] = memtable[k] /\ memtable[k].lsn > f.max
    BY <1>3 DEF Left
<1>9. memtable' \in Entries
    BY <1>3, <1>5 DEF Left, Entries
<1>10. ASSUME NEW k \in Keys, f.ents[k] # NoEntry
       PROVE  f.ents[k].lsn \in Nat /\ f.ents[k].lsn <= f.max
    BY <1>4, <1>10, EntryFacts DEF AtMost
<1>11. LsnOrder'
    <2>1. ASSUME NEW i \in DOMAIN segs' PROVE AtMost(segs'[i], lsn)
        <3>1. CASE segs'[i] = f.ents
            BY <1>4, <1>5, <1>10, <3>1 DEF AtMost
        <3>2. CASE i \in DOMAIN segs /\ segs'[i] = segs[i]
            BY <1>5, <3>2
        <3> QED BY <1>7, <3>1, <3>2
    <2>2. Below(segs', memtable')
        <3> SUFFICES ASSUME NEW i \in DOMAIN segs', NEW k \in Keys, segs'[i][k] # NoEntry, memtable'[k] # NoEntry
                     PROVE  segs'[i][k].lsn < memtable'[k].lsn
            BY DEF Below
        <3>1. memtable'[k] = memtable[k] /\ memtable[k].lsn > f.max
            BY <1>8
        <3>2. CASE segs'[i] = f.ents
            <4>1. memtable[k].lsn \in Nat
                BY <1>5, <3>1, EntryFacts
            <4> QED BY <1>4, <1>10, <3>1, <3>2, <4>1
        <3>3. CASE i \in DOMAIN segs /\ segs'[i] = segs[i]
            BY <1>5, <3>1, <3>3 DEF Below
        <3> QED BY <1>7, <3>2, <3>3
    <2>3. AtMost(memtable', lsn)
        BY <1>5, <1>8 DEF AtMost
    <2> QED BY <1>3, <1>6, <2>1, <2>2, <2>3 DEF LsnOrder
<1>12. \A k \in Keys : GetEntry(memtable', segs', k) = GetEntry(memtable, segs, k)
    BY <1>3, <1>4, <1>5, FlushKeepsReads
<1>13. ClientInv'
    <2> SUFFICES ASSUME client # Idle PROVE InOrder(client) /\ Counted(client, memtable', segs')
        BY <1>3 DEF ClientInv
    <2>1. client \in Pagination /\ InOrder(client) /\ Counted(client, memtable, segs)
        BY <1>1 DEF TypeOK, ClientInv
    <2>2. DOMAIN client.base \in SUBSET Keys
        BY <2>1 DEF Pagination, Bases
    <2> QED BY <1>12, <2>1, <2>2 DEF Counted
<1> QED BY <1>1, <1>3, <1>5, <1>6, <1>9, <1>11, <1>13 DEF IInv, TypeOK, FlushPending

LEMMA StartPagingIInv ==
    ASSUME IInv, NEW dir \in {"forward", "reverse"}, NEW n \in 1..MaxPage,
           start_paging(dir, n, 1, MaxKey + 1)
    PROVE  IInv'
<1> DEFINE base == [k \in 1..((MaxKey + 1) - 1) |-> Visible(GetEntry(memtable, segs, k))]
<1>1. /\ memtable' = memtable /\ segs' = segs /\ lsn' = lsn /\ flushing' = flushing
      /\ client' = [dir |-> dir, n |-> n, lo |-> 1, hi |-> MaxKey + 1, cursor |-> NoKey,
                    items |-> <<>>, done |-> FALSE, base |-> base]
    BY DEF start_paging
<1>2. TypeOK /\ LsnOrder /\ FlushPending
    BY DEF IInv
<1>3. memtable \in Entries /\ segs \in Seq(Entries) /\ Ordered(segs)
    BY <1>2 DEF TypeOK, LsnOrder
<1>4. MaxKey \in Nat /\ MaxKey \in Int /\ MaxPage \in Nat
    OBVIOUS
<1>5. Keys = 1..((MaxKey + 1) - 1) /\ \A k \in Keys : k \in Int /\ k >= 1 /\ k < MaxKey + 1
    BY <1>4 DEF Keys
<1>6. /\ DOMAIN base = Keys
      /\ \A k \in Keys : base[k] = Visible(GetEntry(memtable, segs, k))
    BY <1>5
<1>7. base \in Bases
    <2>1. ASSUME NEW k \in Keys PROVE Visible(GetEntry(memtable, segs, k)) \in SUBSET Nat
        <3>1. GetEntry(memtable, segs, k) \in Entry \cup {NoEntry}
            BY <1>3, GetEntryType
        <3> QED BY <3>1 DEF Visible, Entry
    <2>2. base \in [Keys -> SUBSET Nat]
        BY <1>5, <2>1
    <2> QED BY <2>2 DEF Bases
<1> HIDE DEF base
<1> DEFINE c == client'
<1>8. /\ c \in Pagination /\ c.base = base /\ c.items = <<>> /\ c.cursor = NoKey
      /\ ~c.done /\ c.lo = 1 /\ c.hi = MaxKey + 1
    <2>1. n \in Nat \ {0} /\ 1 \in Nat \ {0} /\ MaxKey + 1 \in 0..(MaxKey + 1) /\ <<>> \in Seq(Item)
        BY <1>4
    <2> QED BY <1>1, <1>7, <2>1 DEF Pagination
<1> HIDE DEF c
<1>9. InOrder(c)
    BY <1>8 DEF InOrder
<1>10. Counted(c, memtable, segs)
    <2>1. \A k : OfKey(c.items, k) = {}
        BY <1>8, OfKeyNone
    <2> QED BY <1>5, <1>6, <1>8, <2>1 DEF Counted, Passed
<1> QED BY <1>1, <1>2, <1>8, <1>9, <1>10 DEF IInv, TypeOK, LsnOrder, FlushPending, ClientInv, c

LEMMA NextPageIInv ==
    ASSUME IInv, next_page
    PROVE  IInv'
<1> DEFINE c == client
           f == From(c.dir, c.lo, c.cursor)
           t == To(c.dir, c.hi, c.cursor)
           page == PageOf(c.dir, memtable, segs, c.lo, c.hi, c.cursor, c.n)
           base == IF Shadowing THEN Restricted(c.base, {}) ELSE c.base
<1>1. /\ client # Idle /\ ~c.done
      /\ memtable' = memtable /\ segs' = segs /\ lsn' = lsn /\ flushing' = flushing
      /\ client' = [client EXCEPT !.items = @ \o page.items, !.cursor = page.next,
                                  !.done = (page.next = NoKey), !.base = base]
    BY DEF next_page, PageOf
<1>2. TypeOK /\ LsnOrder /\ FlushPending /\ ClientInv
    BY DEF IInv
<1>3. /\ memtable \in Entries /\ segs \in Seq(Entries) /\ Ordered(segs) /\ Below(segs, memtable)
      /\ c \in Pagination /\ InOrder(c) /\ Counted(c, memtable, segs)
    BY <1>1, <1>2 DEF TypeOK, LsnOrder, ClientInv
<1>4. PageAdded(c, client', page, base)
    BY <1>1 DEF PageAdded
<1>5. /\ c.dir \in {"forward", "reverse"} /\ c.lo \in Nat /\ c.hi \in Nat /\ c.cursor \in Nat
      /\ c.n \in Nat \ {0} /\ c.base \in Bases
    <2>1. /\ c.dir \in {"forward", "reverse"} /\ c.lo \in Nat /\ c.n \in Nat \ {0} /\ c.base \in Bases
          /\ c.hi \in 0..(MaxKey + 1) /\ c.cursor \in Keys \cup {NoKey}
        BY <1>3 DEF Pagination
    <2>2. \A k \in Keys : k \in Nat
        BY DEF Keys
    <2>3. NoKey \in Nat
        BY DEF NoKey
    <2> QED BY <2>1, <2>2, <2>3
<1>6. /\ WellPaged(page, c.dir, f, t)
      /\ Unshadowed(memtable, segs, f, t) => Answered(page, memtable, segs, c.dir, f, t)
    BY <1>3, <1>5, PageFacts
<1>7. ~Shadowing => Unshadowed(memtable, segs, f, t)
    <2> SUFFICES ASSUME NEW k \in Keys, InWindow(k, f, t), memtable[k] # NoEntry, memtable[k].op = "Delete",
                        SegmentGet(segs, k) # NoEntry, SegmentGet(segs, k).op = "Put"
                 PROVE  Shadowing
        BY DEF Unshadowed
    <2>1. InWindow(k, c.lo, c.hi)
        BY <1>1, <1>3, WindowFacts
    <2>2. k \in Int
        BY DEF Keys
    <2>3. k \in c.lo..(c.hi - 1)
        BY <1>5, <2>1, <2>2 DEF InWindow
    <2> QED BY <2>3 DEF Shadowing
<1>8. base \in Bases /\ (DOMAIN base = {} \/ (base = c.base /\ Answered(page, memtable, segs, c.dir, f, t)))
    <2>1. CASE Shadowing
        <3>1. DOMAIN Restricted(c.base, {}) = {} /\ Restricted(c.base, {}) \in [{} -> SUBSET Nat]
            BY DEF Restricted
        <3>2. Restricted(c.base, {}) \in Bases
            BY <3>1 DEF Bases
        <3> QED BY <2>1, <3>1, <3>2
    <2>2. CASE ~Shadowing
        BY <1>5, <1>6, <1>7, <2>2
    <2> QED BY <2>1, <2>2
<1> HIDE DEF base, page, f, t
<1>9. client' \in Pagination /\ InOrder(client') /\ Counted(client', memtable, segs)
    BY <1>1, <1>3, <1>4, <1>6, <1>8, PagesJoin DEF f, t
<1> QED BY <1>1, <1>2, <1>9 DEF IInv, TypeOK, LsnOrder, FlushPending, ClientInv

LEMMA IInvInductive == IInv /\ [Next]_vars => IInv'
<1> SUFFICES ASSUME IInv, [Next]_vars PROVE IInv'
    OBVIOUS
<1>1. ASSUME NEW k \in Keys, NEW op \in {"Put", "Delete"}, write(k, op) PROVE IInv'
    BY <1>1, WriteIInv
<1>2. CASE begin_flush
    BY <1>2, BeginFlushIInv
<1>3. CASE finalize_flush
    BY <1>3, FinalizeFlushIInv
<1>4. ASSUME NEW dir \in {"forward", "reverse"}, NEW n \in 1..MaxPage, start_paging(dir, n, 1, MaxKey + 1)
      PROVE  IInv'
    BY <1>4, StartPagingIInv
<1>5. CASE next_page
    BY <1>5, NextPageIInv
<1>6. CASE end_paging
    BY <1>6 DEF end_paging, IInv, TypeOK, LsnOrder, FlushPending, ClientInv
<1>7. CASE UNCHANGED vars
    BY <1>7 DEF vars, IInv, TypeOK, LsnOrder, FlushPending, ClientInv
<1> QED BY <1>1, <1>2, <1>3, <1>4, <1>5, <1>6, <1>7 DEF Next
-----------------------------------------------------------------------------
(***************************************************************************)
(* What the invariant gives.                                               *)
(***************************************************************************)
\* The prefix p is the window [2p, 2p + 2).
LEMMA PrefixWindow ==
    ASSUME NEW p \in Nat
    PROVE  \A k \in Keys : HasPrefix(k, p) <=> InWindow(k, 2 * p, 2 * p + 2)
<1> SUFFICES ASSUME NEW k \in Keys PROVE HasPrefix(k, p) <=> InWindow(k, 2 * p, 2 * p + 2)
    OBVIOUS
<1>1. k \in Nat
    BY DEF Keys
<1>2. k \div 2 = p <=> 2 * p <= k /\ k < 2 * p + 2
    BY <1>1
<1> QED BY <1>2 DEF HasPrefix, InWindow

LEMMA PrefixScan ==
    ASSUME NEW m \in Entries, NEW ss \in Seq(Entries), Ordered(ss), Below(ss, m), NEW p \in Nat
    PROVE  ByKey(PrefixItems(m, ss, p)) = Expected(m, ss, {k \in Keys : HasPrefix(k, p)})
<1> DEFINE lo == 2 * p
           hi == 2 * p + 2
           g == Merge(ss, lo, hi)
           F == Least(Puts(g), Unlimited)
           ents == Restricted(g, F)
           own == Restricted(ents, {k \in DOMAIN ents : HasPrefix(k, p)})
           mem == Restricted(m, {k \in Live(m) : HasPrefix(k, p)})
<1>1. lo \in Int /\ hi \in Int /\ \A k \in Keys : HasPrefix(k, p) <=> InWindow(k, lo, hi)
    BY PrefixWindow
<1>2. PrefixCore(m, ss, p, Unlimited) =
        DedupFilterScan(MergeSortedScans(own, mem), Unlimited, OverBudget(g, Unlimited))
    BY DEF PrefixCore, RangeScanBudgeted
<1>3. RangeCore(m, ss, lo, hi, Unlimited) =
        DedupFilterScan(MergeSortedScans(ents, MemRange(m, lo, hi)), Unlimited, OverBudget(g, Unlimited))
    BY DEF RangeCore, RangeScanBudgeted
<1> HIDE DEF lo, hi
<1>4. \A k \in DOMAIN g : k \in Keys /\ InWindow(k, lo, hi)
    <2>1. DOMAIN g = {k \in Keys : InWindow(k, lo, hi) /\ SegmentGet(ss, k) # NoEntry}
        BY <1>1, MergeFacts
    <2> QED BY <2>1
<1>5. F \in SUBSET DOMAIN g
    BY DEF Least, Puts
<1> HIDE DEF g, F
<1>6. own = ents
    <2>1. DOMAIN ents = F /\ \A k \in DOMAIN ents : HasPrefix(k, p)
        BY <1>1, <1>4, <1>5 DEF Restricted
    <2>2. {k \in DOMAIN ents : HasPrefix(k, p)} = F
        BY <2>1
    <2> QED BY <2>2 DEF Restricted
<1>7. mem = MemRange(m, lo, hi)
    <2>1. \A k \in Live(m) : k \in Keys
        BY DEF Live
    <2>2. {k \in Live(m) : HasPrefix(k, p)} = {k \in Live(m) : lo <= k /\ k < hi}
        BY <1>1, <2>1 DEF InWindow
    <2> QED BY <2>2 DEF MemRange
<1>8. PrefixItems(m, ss, p) = RangeItems(m, ss, lo, hi)
    BY <1>2, <1>3, <1>6, <1>7 DEF PrefixItems, RangeItems
<1>9. {k \in Keys : HasPrefix(k, p)} = KeysIn(lo, hi)
    BY <1>1 DEF KeysIn
<1>10. ByKey(RangeItems(m, ss, lo, hi)) = Expected(m, ss, KeysIn(lo, hi))
    BY <1>1, UnlimitedScan
<1> HIDE DEF ents, own, mem
<1> QED BY <1>8, <1>9, <1>10

LEMMA AgreeLemma == IInv => ReadPathsAgree
<1> SUFFICES ASSUME IInv PROVE ReadPathsAgree
    OBVIOUS
<1>1. memtable \in Entries /\ segs \in Seq(Entries) /\ Ordered(segs) /\ Below(segs, memtable)
    BY DEF IInv, TypeOK, LsnOrder
<1>2. \A lo, hi \in 1..(MaxKey + 1) : lo \in Int /\ hi \in Int
    OBVIOUS
<1>3. \A p \in 0..(MaxKey \div 2) : p \in Nat
    OBVIOUS
<1>4. ASSUME NEW lo \in 1..(MaxKey + 1), NEW hi \in 1..(MaxKey + 1)
      PROVE  ByKey(RangeItems(memtable, segs, lo, hi))
                = Expected(memtable, segs, {k \in Keys : lo <= k /\ k < hi})
    <2>1. KeysIn(lo, hi) = {k \in Keys : lo <= k /\ k < hi}
        BY DEF KeysIn, InWindow
    <2>2. ByKey(RangeItems(memtable, segs, lo, hi)) = Expected(memtable, segs, KeysIn(lo, hi))
        BY <1>1, <1>2, UnlimitedScan
    <2> QED BY <2>1, <2>2
<1>5. ASSUME NEW p \in 0..(MaxKey \div 2)
      PROVE  ByKey(PrefixItems(memtable, segs, p))
                = Expected(memtable, segs, {k \in Keys : HasPrefix(k, p)})
    BY <1>1, <1>3, PrefixScan
<1>6. \A k \in Keys : SegmentGet(segs, k) = SnapshotGet(segs, k)
                   /\ SegmentGet(segs, k) = ImmutableGet(segs, k)
    BY <1>1, FlushedReads
<1>7. ASSUME NEW lo \in 1..(MaxKey + 1), NEW hi \in 1..(MaxKey + 1)
      PROVE  LET flushed == {k \in Keys : lo <= k /\ k < hi /\ Visible(SegmentGet(segs, k)) # {}} IN
             SnapshotRange(segs, lo, hi) = flushed /\ ImmutableRange(segs, lo, hi) = flushed
    BY <1>1, <1>2, FlushedRanges
<1>8. ASSUME NEW p \in 0..(MaxKey \div 2)
      PROVE  ImmutablePrefix(segs, p)
               = {k \in Keys : HasPrefix(k, p) /\ Visible(SegmentGet(segs, k)) # {}}
    <2> DEFINE lo == 2 * p
               hi == 2 * p + 2
    <2>1. p \in Nat /\ lo \in Int /\ hi \in Int
        BY <1>3
    <2>2. \A k \in Keys : HasPrefix(k, p) <=> InWindow(k, lo, hi)
        BY <2>1, PrefixWindow
    <2>3. ImmutablePrefix(segs, p) = ImmutableRange(segs, lo, hi)
        BY DEF ImmutablePrefix
    <2> HIDE DEF lo, hi
    <2>4. ImmutableRange(segs, lo, hi) = {k \in Keys : lo <= k /\ k < hi /\ Visible(SegmentGet(segs, k)) # {}}
        BY <1>1, <2>1, FlushedRanges
    <2>5. {k \in Keys : lo <= k /\ k < hi /\ Visible(SegmentGet(segs, k)) # {}}
            = {k \in Keys : HasPrefix(k, p) /\ Visible(SegmentGet(segs, k)) # {}}
        BY <2>2 DEF InWindow
    <2> QED BY <2>3, <2>4, <2>5
<1> QED BY <1>4, <1>5, <1>6, <1>7, <1>8 DEF ReadPathsAgree

LEMMA OrderedLemma == IInv => PagesOrdered
<1> SUFFICES ASSUME IInv, client # Idle, NEW i \in DOMAIN client.items, NEW j \in DOMAIN client.items, i < j
             PROVE  IF client.dir = "forward" THEN client.items[i].key < client.items[j].key
                                              ELSE client.items[i].key > client.items[j].key
    BY DEF PagesOrdered
<1>1. Before(client.dir, client.items[i].key, client.items[j].key)
    BY DEF IInv, ClientInv, InOrder
<1> QED BY <1>1 DEF Before

LEMMA CompleteLemma == IInv => PagesComplete
<1> SUFFICES ASSUME IInv, Paged, NEW k \in DOMAIN client.base
             PROVE  {p \in ByKey(client.items) : p[1] = k} = {<<k, v>> : v \in client.base[k]}
    BY DEF PagesComplete, Complete
<1>1. OfKey(client.items, k) = IF Passed(client, k) THEN {<<k, v>> : v \in client.base[k]} ELSE {}
    BY DEF IInv, ClientInv, Counted, Paged
<1>2. Passed(client, k)
    BY DEF Passed, Paged
<1> QED BY <1>1, <1>2 DEF OfKey
-----------------------------------------------------------------------------
\* The LSNs of the memtable and the segments rise in registration order, a flush
\* under way has not lost what it copied, and a client that pages has, in order,
\* exactly what get answers for the keys its cursor passed, of those it counts on.
THEOREM Inductive == Spec => []IInv
<1>1. Init => IInv
    BY InitIInv
<1>2. IInv /\ [Next]_vars => IInv'
    BY IInvInductive
<1> QED BY <1>1, <1>2, PTL DEF Spec

\* get, range, prefix, snapshots and ImmutableEngine give the same answers for any
\* number of keys, segments, blocks and writes, also between the two halves of a flush.
THEOREM AllReadsAgree == Spec => []ReadPathsAgree
BY Inductive, AgreeLemma, PTL

\* range_page and range_rev_page: the pages of a client follow each other in strict
\* key order, whatever is written and flushed in between.
THEOREM PagesInOrder == Spec => []PagesOrdered
BY Inductive, OrderedLemma, PTL

\* A pagination that ended returned every key that was not written meanwhile once and
\* with its value, and no deleted key, as long as no page met a memtable tombstone over
\* a live segment key.
THEOREM PagesMissNothing == Spec => []PagesComplete
BY Inductive, CompleteLemma, PTL
=============================================================================
