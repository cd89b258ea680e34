-------------------------- MODULE CompactionProofs --------------------------
(***************************************************************************)
(* Theorems about Compaction.  First the store: its segments, files,       *)
(* manifest and snapshots.  Then what a cycle does to reads: no disk write *)
(* of it changes what get returns for a key whose versions are all in the  *)
(* cohort, unless the record has expired.                                  *)
(***************************************************************************)
EXTENDS Compaction, ListProofs
-----------------------------------------------------------------------------
(***************************************************************************)
(* Entries and segment metadata.                                           *)
(***************************************************************************)

\* An entry's death time and bucket are naturals.
LEMMA EntryTimes ==
    ASSUME NEW e \in Entry
    PROVE  DeathTimeFor(e) \in Nat /\ CohortBucketFor(e) \in Nat
<1>1. e.timestamp \in Nat /\ e.ttl \in Nat
    BY DEF Entry
<1>2. CohortWindow \in Nat /\ CohortWindow > 0
    BY ConstantsAssumption
<1>3. \A t \in Nat : t \div CohortWindow \in Nat
    BY <1>2
<1> QED BY <1>1, <1>2, <1>3 DEF DeathTimeFor, CohortBucketFor

\* A segment's entries are entries.
LEMMA EntryOf ==
    ASSUME NEW ents \in Entries, NEW k \in Keys
    PROVE  /\ ents[k] \in Entry \cup {NoEntry}
           /\ k \in Live(ents) => ents[k] \in Entry
BY DEF Entries, Live

\* The metadata SegmentWriter::flush writes for a nonempty segment; its death
\* time is no earlier than that of any record.
LEMMA MetaTyped ==
    ASSUME NEW id \in Nat, NEW ents \in Entries, Live(ents) # {}
    PROVE  /\ MetaOf(id, ents) \in Meta
           /\ MetaOf(id, ents).id = id
           /\ \A k \in Live(ents) : DeathTimeFor(ents[k]) <= MetaOf(id, ents).death
<1> DEFINE D == {DeathTimeFor(ents[k]) : k \in Live(ents)}
<1>1. Live(ents) \in SUBSET Keys /\ Live(ents) \in SUBSET Nat /\ IsFiniteSet(Live(ents))
    <2>1. Live(ents) \in SUBSET Keys
        BY DEF Live
    <2> QED BY <2>1, ConstantsAssumption, FS_Subset
<1>2. \A k \in Live(ents) : ents[k] \in Entry
    BY <1>1, EntryOf
<1>3. CohortBucketFor(ents[Min(Live(ents))]) \in Nat
    BY <1>1, <1>2, MinExists, EntryTimes
<1>4. D \in SUBSET Nat
    BY <1>2, EntryTimes
<1>5. D # {}
    BY Zenon
<1>6. IsFiniteSet(D)
    <2> DEFINE g == [k \in Live(ents) |-> DeathTimeFor(ents[k])]
    <2>1. {g[k] : k \in Live(ents)} = D
        OBVIOUS
    <2> HIDE DEF g, D
    <2> QED BY <1>1, <2>1, FiniteImage
<1>7. Max(D) \in Nat /\ \A y \in D : y <= Max(D)
    <2> HIDE DEF D
    <2> QED BY <1>4, <1>5, <1>6, FiniteMax
<1>8. \A k \in Live(ents) : DeathTimeFor(ents[k]) \in D
    BY Zenon
<1> HIDE DEF D
<1>9. MetaOf(id, ents) = [id |-> id, bucket |-> CohortBucketFor(ents[Min(Live(ents))]), death |-> Max(D)]
    BY DEF MetaOf, D
<1> QED BY <1>3, <1>7, <1>8, <1>9 DEF Meta

\* Writing a file leaves the other files alone.
LEMMA PutFileFacts ==
    ASSUME NEW fs, NEW id, NEW ents
    PROVE  /\ DOMAIN PutFile(fs, id, ents) = DOMAIN fs \cup {id}
           /\ PutFile(fs, id, ents)[id] = ents
           /\ \A i \in DOMAIN fs : i # id => PutFile(fs, id, ents)[i] = fs[i]
BY DEF PutFile

\* The newest of some entries exists.
LEMMA NewestExists ==
    ASSUME NEW found, found # {}, IsFiniteSet(found), \A e \in found : e.lsn \in Nat
    PROVE  LET e == CHOOSE e \in found : \A f \in found : f.lsn <= e.lsn
           IN  e \in found /\ \A f \in found : f.lsn <= e.lsn
<1> DEFINE L == {e.lsn : e \in found}
<1>1. L \in SUBSET Nat
    OBVIOUS
<1>2. L # {}
    BY Zenon
<1>3. IsFiniteSet(L)
    <2> DEFINE g == [e \in found |-> e.lsn]
    <2>1. {g[e] : e \in found} = L
        OBVIOUS
    <2> HIDE DEF g, L
    <2> QED BY <2>1, FiniteImage
<1>4. Max(L) \in L /\ \A y \in L : y <= Max(L)
    <2> HIDE DEF L
    <2> QED BY <1>1, <1>2, <1>3, FiniteMax
<1>5. PICK e \in found : e.lsn = Max(L)
    BY <1>4
<1>6. \A f \in found : f.lsn <= e.lsn
    BY <1>4, <1>5
<1> QED BY <1>5, <1>6

\* The entries a cohort holds for a key.
Found(ids, fs, k) == {fs[ids[i]][k] : i \in DOMAIN ids} \ {NoEntry}

\* The entries the segments of a cohort hold for a key are finitely many.
LEMMA FoundFacts ==
    ASSUME NEW fs, NEW ids \in Seq(Nat), Range(ids) \subseteq DOMAIN fs,
           \A i \in DOMAIN fs : fs[i] \in Entries, NEW k \in Keys
    PROVE  Found(ids, fs, k) \subseteq Entry /\ IsFiniteSet(Found(ids, fs, k))
<1> DEFINE all == {fs[ids[i]][k] : i \in DOMAIN ids}
           found == all \ {NoEntry}
<1>1. \A i \in DOMAIN ids : fs[ids[i]] \in Entries
    BY DEF Range
<1>2. \A i \in DOMAIN ids : fs[ids[i]][k] \in Entry \cup {NoEntry}
    BY <1>1, EntryOf
<1>3. found \subseteq Entry
    BY <1>2
<1>4. IsFiniteSet(DOMAIN ids)
    <2>1. DOMAIN ids = 1..Len(ids) /\ Len(ids) \in Nat
        OBVIOUS
    <2> QED BY <2>1, FS_Interval
<1>5. IsFiniteSet(all)
    <2> DEFINE g == [i \in DOMAIN ids |-> fs[ids[i]][k]]
    <2>1. {g[i] : i \in DOMAIN ids} = all
        OBVIOUS
    <2> HIDE DEF g, all
    <2> QED BY <1>4, <2>1, FiniteImage
<1>6. IsFiniteSet(found)
    <2> HIDE DEF all
    <2> QED BY <1>5, FS_Difference
<1> QED BY <1>3, <1>6 DEF Found

\* Merged takes an entry of the cohort with the highest LSN.
LEMMA MergedFacts ==
    ASSUME NEW fs, NEW ids \in Seq(Nat), Range(ids) \subseteq DOMAIN fs,
           \A i \in DOMAIN fs : fs[i] \in Entries, NEW k \in Keys
    PROVE  /\ Merged(ids, fs)[k] \in Entry \cup {NoEntry}
           /\ Merged(ids, fs)[k] = NoEntry <=> \A i \in DOMAIN ids : fs[ids[i]][k] = NoEntry
           /\ Merged(ids, fs)[k] # NoEntry =>
                /\ \E i \in DOMAIN ids : fs[ids[i]][k] = Merged(ids, fs)[k]
                /\ \A i \in DOMAIN ids : fs[ids[i]][k] # NoEntry =>
                      fs[ids[i]][k].lsn <= Merged(ids, fs)[k].lsn
<1> DEFINE found == Found(ids, fs, k)
           top == CHOOSE e \in found : \A f \in found : f.lsn <= e.lsn
<1>1. found \subseteq Entry /\ IsFiniteSet(found)
    BY FoundFacts
<1>2. Merged(ids, fs)[k] = IF found = {} THEN NoEntry ELSE top
    BY DEF Merged, Found
<1>3. \A i \in DOMAIN ids : fs[ids[i]][k] # NoEntry => fs[ids[i]][k] \in found
    BY DEF Found
<1>4. \A e \in found : \E i \in DOMAIN ids : fs[ids[i]][k] = e
    BY DEF Found
<1>5. \A e \in Entry : e.lsn \in Nat /\ e # NoEntry
    BY ConstantsAssumption DEF Entry
<1>6. found # {} => top \in found /\ \A f \in found : f.lsn <= top.lsn
    <2> HIDE DEF found
    <2> QED BY <1>1, <1>5, NewestExists
<1> HIDE DEF found, top
<1>7. CASE found = {}
    BY <1>2, <1>3, <1>7
<1>8. CASE found # {}
    <2>1. Merged(ids, fs)[k] = top /\ top \in Entry /\ top # NoEntry
        BY <1>1, <1>2, <1>5, <1>6, <1>8
    <2>2. \E i \in DOMAIN ids : fs[ids[i]][k] = top
        BY <1>4, <1>6, <1>8
    <2> QED BY <1>3, <1>6, <1>8, <2>1, <2>2
<1> QED BY <1>7, <1>8

\* What a compaction writes are entries.
LEMMA SurvivorsTyped ==
    ASSUME NEW fs, NEW ids \in Seq(Nat), Range(ids) \subseteq DOMAIN fs,
           \A i \in DOMAIN fs : fs[i] \in Entries, NEW at
    PROVE  Survivors(ids, fs, at) \in Entries
<1>1. \A k \in Keys : Merged(ids, fs)[k] \in Entry \cup {NoEntry}
    BY MergedFacts
<1> QED BY <1>1 DEF Survivors, Entries
-----------------------------------------------------------------------------
(***************************************************************************)
(* The manifest: ids, the next free id, appending and removing.            *)
(***************************************************************************)
Distinct(metas) == \A i, j \in DOMAIN metas : metas[i].id = metas[j].id => i = j

\* The fields of a manifest entry.
LEMMA MetaAt ==
    ASSUME NEW metas \in Seq(Meta), NEW i \in DOMAIN metas
    PROVE  metas[i] \in Meta /\ metas[i].id \in Nat /\ metas[i].bucket \in Nat /\ metas[i].death \in Nat
<1>1. metas[i] \in Meta
    OBVIOUS
<1> QED BY <1>1 DEF Meta

\* The ids of a manifest are naturals and finitely many.
LEMMA IdsFinite ==
    ASSUME NEW metas \in Seq(Meta)
    PROVE  SeqIds(metas) \in SUBSET Nat /\ IsFiniteSet(SeqIds(metas)) /\ IsFiniteSet(DOMAIN metas)
<1> DEFINE g == [i \in DOMAIN metas |-> metas[i].id]
<1>1. DOMAIN metas = 1..Len(metas) /\ Len(metas) \in Nat
    OBVIOUS
<1>2. IsFiniteSet(DOMAIN metas)
    BY <1>1, FS_Interval
<1>3. SeqIds(metas) = {g[i] : i \in DOMAIN metas}
    BY DEF SeqIds
<1>4. \A i \in DOMAIN metas : metas[i].id \in Nat
    BY MetaAt
<1>5. SeqIds(metas) \in SUBSET Nat
    BY <1>4 DEF SeqIds
<1> HIDE DEF g
<1> QED BY <1>2, <1>3, <1>5, FiniteImage

\* The ids a store opened again and a cycle start from are above every live id.
LEMMA NextIdAbove ==
    ASSUME NEW metas \in Seq(Meta)
    PROVE  /\ NextId(metas) \in Nat /\ \A i \in SeqIds(metas) : i < NextId(metas)
           /\ CompactionId(metas) \in Nat /\ \A i \in SeqIds(metas) : i < CompactionId(metas)
<1> DEFINE ids == SeqIds(metas)
           A == ids \cup {0}
           B == {metas[i].id + 1 : i \in DOMAIN metas} \cup {0}
           g == [i \in DOMAIN metas |-> metas[i].id + 1]
<1>1. ids \in SUBSET Nat /\ IsFiniteSet(ids) /\ IsFiniteSet(DOMAIN metas)
    BY IdsFinite
<1>2. A \in SUBSET Nat /\ A # {} /\ IsFiniteSet(A)
    <2> HIDE DEF ids
    <2> QED BY <1>1, FS_AddElement
<1>3. Max(A) \in Nat /\ \A i \in ids : i <= Max(A)
    <2>1. Max(A) \in Nat /\ \A i \in A : i <= Max(A)
        <3> HIDE DEF A
        <3> QED BY <1>2, FiniteMax
    <2> HIDE DEF ids
    <2> QED BY <2>1
<1>4. CompactionId(metas) = Max(A) + 1
    BY DEF CompactionId, SeqIds
<1>5. {g[i] : i \in DOMAIN metas} = {metas[i].id + 1 : i \in DOMAIN metas}
    OBVIOUS
<1>6. IsFiniteSet({metas[i].id + 1 : i \in DOMAIN metas})
    <2> HIDE DEF g
    <2> QED BY <1>1, <1>5, FiniteImage
<1>7. IsFiniteSet(B)
    BY <1>6, FS_AddElement
<1>8. \A i \in DOMAIN metas : metas[i].id \in Nat
    BY MetaAt
<1>9. B \in SUBSET Nat /\ B # {}
    BY <1>8
<1>10. Max(B) \in Nat /\ \A i \in B : i <= Max(B)
    <2> HIDE DEF B
    <2> QED BY <1>7, <1>9, FiniteMax
<1>11. \A i \in ids : i + 1 \in B
    BY DEF SeqIds
<1>12. NextId(metas) = Max(B)
    BY DEF NextId
<1> HIDE DEF ids, A, B
<1> QED BY <1>1, <1>3, <1>4, <1>10, <1>11, <1>12 DEF ids

\* manifest.add_segment of a fresh id.
LEMMA AppendIds ==
    ASSUME NEW metas \in Seq(Meta), NEW m \in Meta
    PROVE  /\ Append(metas, m) \in Seq(Meta)
           /\ SeqIds(Append(metas, m)) = SeqIds(metas) \cup {m.id}
           /\ Distinct(metas) /\ m.id \notin SeqIds(metas) => Distinct(Append(metas, m))
<1>1. /\ Append(metas, m) \in Seq(Meta)
      /\ DOMAIN metas = 1..Len(metas) /\ Len(metas) \in Nat
      /\ DOMAIN Append(metas, m) = 1..(Len(metas) + 1)
      /\ \A i \in 1..Len(metas) : Append(metas, m)[i] = metas[i]
      /\ Append(metas, m)[Len(metas) + 1] = m
    OBVIOUS
<1> DEFINE a == Append(metas, m)
<1> HIDE DEF a
<1>2. SeqIds(a) = SeqIds(metas) \cup {m.id}
    BY <1>1 DEF SeqIds, a
<1>3. Distinct(metas) /\ m.id \notin SeqIds(metas) => Distinct(a)
    BY <1>1 DEF SeqIds, Distinct, a
<1> QED BY <1>1, <1>2, <1>3 DEF a

\* manifest.remove_segments of one id.
LEMMA RemoveId ==
    ASSUME NEW metas \in Seq(Meta), NEW id, Distinct(metas)
    PROVE  LET left == Retain(metas, {i \in DOMAIN metas : metas[i].id # id})
           IN  left \in Seq(Meta) /\ Distinct(left) /\ SeqIds(left) = SeqIds(metas) \ {id}
<1> DEFINE I == {i \in DOMAIN metas : metas[i].id # id}
           left == Retain(metas, I)
<1>1. /\ left \in Seq(Meta)
      /\ \A k \in DOMAIN left : Nth(I, k) \in I /\ left[k] = metas[Nth(I, k)]
      /\ \A i \in I : Rank(I, i) \in DOMAIN left /\ Nth(I, Rank(I, i)) = i
      /\ \A k, l \in DOMAIN left : k < l => Nth(I, k) < Nth(I, l)
    <2>1. I \in SUBSET (DOMAIN metas)
        OBVIOUS
    <2> HIDE DEF I
    <2> QED BY <2>1, RetainFacts
<1>2. I \subseteq DOMAIN metas /\ \A i \in I : metas[i].id # id
    OBVIOUS
<1>3. \A i \in DOMAIN metas : metas[i].id # id => i \in I
    OBVIOUS
<1>4. DOMAIN left \subseteq Int /\ DOMAIN metas \subseteq Int
    BY <1>1
<1> HIDE DEF I, left
<1>5. SeqIds(left) \subseteq SeqIds(metas) \ {id}
    BY <1>1, <1>2 DEF SeqIds
<1>6. SeqIds(metas) \ {id} \subseteq SeqIds(left)
    <2> SUFFICES ASSUME NEW i \in DOMAIN metas, metas[i].id # id
                 PROVE  metas[i].id \in SeqIds(left)
        BY DEF SeqIds
    <2>1. i \in I
        BY <1>3
    <2>2. Rank(I, i) \in DOMAIN left /\ left[Rank(I, i)] = metas[i]
        BY <1>1, <2>1
    <2> QED BY <2>2 DEF SeqIds
<1>7. Distinct(left)
    <2> SUFFICES ASSUME NEW k \in DOMAIN left, NEW l \in DOMAIN left,
                        left[k].id = left[l].id, k # l
                 PROVE  FALSE
        BY DEF Distinct
    <2>1. Nth(I, k) = Nth(I, l)
        BY <1>1, <1>2 DEF Distinct
    <2>2. Nth(I, k) \in Int
        BY <1>1, <1>2, <1>4
    <2>3. k < l \/ l < k
        BY <1>4
    <2> QED BY <1>1, <2>1, <2>2, <2>3
<1> QED BY <1>1, <1>5, <1>6, <1>7 DEF left, I

\* The ids of a cohort still to be removed.
LEMMA LeftIds ==
    ASSUME NEW ids \in Seq(Nat), NEW id
    PROVE  LET left == Retain(ids, {i \in DOMAIN ids : ids[i] # id})
           IN  left \in Seq(Nat) /\ Range(left) = Range(ids) \ {id}
<1> DEFINE I == {i \in DOMAIN ids : ids[i] # id}
           left == Retain(ids, I)
<1>1. /\ left \in Seq(Nat)
      /\ \A k \in DOMAIN left : Nth(I, k) \in I /\ left[k] = ids[Nth(I, k)]
      /\ \A i \in I : Rank(I, i) \in DOMAIN left /\ Nth(I, Rank(I, i)) = i
    <2>1. I \in SUBSET (DOMAIN ids)
        OBVIOUS
    <2> HIDE DEF I
    <2> QED BY <2>1, RetainFacts
<1>2. I \subseteq DOMAIN ids /\ \A i \in I : ids[i] # id
    OBVIOUS
<1>3. \A i \in DOMAIN ids : ids[i] # id => i \in I
    OBVIOUS
<1> HIDE DEF I, left
<1>4. Range(left) \subseteq Range(ids) \ {id}
    BY <1>1, <1>2 DEF Range
<1>5. ASSUME NEW i \in DOMAIN ids, ids[i] # id PROVE ids[i] \in Range(left)
    <2>1. Rank(I, i) \in DOMAIN left /\ left[Rank(I, i)] = ids[i]
        BY <1>1, <1>3, <1>5
    <2> QED BY <2>1 DEF Range
<1>6. Range(ids) \ {id} \subseteq Range(left)
    BY <1>5 DEF Range
<1> QED BY <1>1, <1>4, <1>6 DEF left, I

\* A cohort lists its segments in manifest order.
InOrder(ids, metas) ==
    \A i, j \in DOMAIN ids : \A p, q \in DOMAIN metas :
        i < j /\ metas[p].id = ids[i] /\ metas[q].id = ids[j] => p < q

\* identify_cohorts: nonempty groups of unpinned segments in manifest order,
\* no segment in two of them, dying with their last segment.
LEMMA CohortFacts ==
    ASSUME NEW metas \in Seq(Meta), NEW pinned, Distinct(metas)
    PROVE  LET todo == IdentifyCohorts(metas, pinned)
           IN  /\ todo \subseteq Cohort
               /\ \A c \in todo :
                    /\ c.ids # <<>>
                    /\ Range(c.ids) \subseteq SeqIds(metas) \ pinned
                    /\ \A d \in todo : c # d => Range(c.ids) \cap Range(d.ids) = {}
                    /\ InOrder(c.ids, metas)
                    /\ \A p \in DOMAIN metas : metas[p].id \in Range(c.ids) => metas[p].death <= c.death
<1> DEFINE todo == IdentifyCohorts(metas, pinned)
           free == {i \in DOMAIN metas : metas[i].id \notin pinned}
           at(b) == {i \in free : metas[i].bucket = b}
           group(b) == Retain(metas, at(b))
           buckets == {metas[i].bucket : i \in free}
           cohort(g) == [ids |-> [i \in DOMAIN g |-> g[i].id], death |-> Max({g[i].death : i \in DOMAIN g})]
<1>1. todo = {cohort(g) : g \in {group(b) : b \in buckets}}
    BY DEF IdentifyCohorts
<1>2. \A c \in todo : \E b \in buckets : c = cohort(group(b))
    <2> HIDE DEF todo, group, cohort, buckets
    <2> QED BY <1>1
<1>3. ASSUME NEW b \in buckets
      PROVE  /\ cohort(group(b)) \in Cohort
             /\ cohort(group(b)).ids # <<>>
             /\ \A x \in Range(cohort(group(b)).ids) : \E i \in at(b) : x = metas[i].id
             /\ InOrder(cohort(group(b)).ids, metas)
             /\ \A p \in DOMAIN metas :
                   metas[p].id \in Range(cohort(group(b)).ids) => metas[p].death <= cohort(group(b)).death
    <2> DEFINE I == at(b)
               g == Retain(metas, I)
               D == {g[i].death : i \in DOMAIN g}
               h == [i \in DOMAIN g |-> g[i].death]
    <2>0. I \in SUBSET (DOMAIN metas)
        OBVIOUS
    <2>1. I # {}
        OBVIOUS
    <2>2. /\ g \in Seq(Meta) /\ g # <<>>
          /\ \A k \in DOMAIN g : Nth(I, k) \in I /\ g[k] = metas[Nth(I, k)]
          /\ \A k, l \in DOMAIN g : k < l => Nth(I, k) < Nth(I, l)
        <3> HIDE DEF I
        <3> QED BY <2>0, <2>1, RetainFacts, RetainEmpty
    <2> HIDE DEF g, I
    <2>3. \A k \in DOMAIN g : g[k].id \in Nat /\ g[k].death \in Nat
        BY <2>2, MetaAt
    <2>4. DOMAIN g # {} /\ IsFiniteSet(DOMAIN g)
        BY <2>2, IdsFinite
    <2>5. {h[i] : i \in DOMAIN g} = D
        OBVIOUS
    <2>6. IsFiniteSet(D)
        <3> HIDE DEF h, D
        <3> QED BY <2>4, <2>5, FiniteImage
    <2>7. D \in SUBSET Nat /\ D # {}
        BY <2>3, <2>4
    <2>8. Max(D) \in Nat /\ \A d \in D : d <= Max(D)
        <3> HIDE DEF D
        <3> QED BY <2>6, <2>7, FiniteMax
    <2>9. [i \in DOMAIN g |-> g[i].id] \in Seq(Nat)
        BY <2>2, <2>3
    <2>10. [i \in DOMAIN g |-> g[i].id] # <<>>
        BY <2>4
    <2>11. cohort(g) \in Cohort
        BY <2>8, <2>9 DEF Cohort
    <2>12. \A x \in Range(cohort(g).ids) : \E i \in I : x = metas[i].id
        BY <2>2 DEF Range
    <2>13. /\ cohort(g).ids = [i \in DOMAIN g |-> g[i].id] /\ cohort(g).death = Max(D)
           /\ \A i \in DOMAIN g : g[i].death \in D
        OBVIOUS
    <2> HIDE DEF D, cohort
    <2>14. \A i \in DOMAIN g : \A p \in DOMAIN metas :
              metas[p].id = cohort(g).ids[i] => p = Nth(I, i) /\ metas[p] = g[i]
        BY <2>0, <2>2, <2>13 DEF Distinct
    <2>15. InOrder(cohort(g).ids, metas)
        BY <2>2, <2>13, <2>14 DEF InOrder
    <2>16. \A p \in DOMAIN metas : metas[p].id \in Range(cohort(g).ids) => metas[p].death <= cohort(g).death
        BY <2>8, <2>13, <2>14 DEF Range
    <2> QED BY <2>10, <2>11, <2>12, <2>13, <2>15, <2>16 DEF g, I
<1>a. \A b : \A i \in at(b) : i \in DOMAIN metas /\ metas[i].id \notin pinned /\ metas[i].bucket = b
    OBVIOUS
<1> HIDE DEF todo, cohort, group, at, buckets
<1>4. todo \subseteq Cohort
    BY <1>2, <1>3
<1>5. ASSUME NEW c \in todo PROVE c.ids # <<>> /\ Range(c.ids) \subseteq SeqIds(metas) \ pinned
    <2>1. PICK b \in buckets : c = cohort(group(b))
        BY <1>2
    <2>2. c.ids # <<>> /\ \A x \in Range(c.ids) : \E i \in at(b) : x = metas[i].id
        BY <1>3, <2>1
    <2> QED BY <1>a, <2>2 DEF SeqIds
<1>6. ASSUME NEW c \in todo, NEW d \in todo, c # d PROVE Range(c.ids) \cap Range(d.ids) = {}
    <2>1. PICK b \in buckets : c = cohort(group(b))
        BY <1>2
    <2>2. PICK a \in buckets : d = cohort(group(a))
        BY <1>2
    <2>3. a # b
        BY <1>6, <2>1, <2>2
    <2>4. ASSUME NEW x \in Range(c.ids), x \in Range(d.ids) PROVE FALSE
        <3>1. PICK i \in at(b) : x = metas[i].id
            BY <1>3, <2>1
        <3>2. PICK j \in at(a) : x = metas[j].id
            BY <1>3, <2>2, <2>4
        <3>3. i = j
            BY <1>a, <3>1, <3>2 DEF Distinct
        <3> QED BY <1>a, <2>3, <3>1, <3>2, <3>3
    <2> QED BY <2>4
<1>7. ASSUME NEW c \in todo
      PROVE  /\ InOrder(c.ids, metas)
             /\ \A p \in DOMAIN metas : metas[p].id \in Range(c.ids) => metas[p].death <= c.death
    <2>1. PICK b \in buckets : c = cohort(group(b))
        BY <1>2
    <2> QED BY <1>3, <2>1
<1> QED BY <1>4, <1>5, <1>6, <1>7 DEF todo
-----------------------------------------------------------------------------
(***************************************************************************)
(* The inductive invariant of a store whose caller never compacts while a  *)
(* flush is in flight.                                                     *)
(***************************************************************************)
CompState ==
    [phase : {"idle", "next", "add", "remove", "delete"}, todo : SUBSET Cohort,
     ids : Seq(Nat), out : SUBSET Nat, dead : Seq(Nat), next : Nat, written : Nat, at : Nat]

CountsState == [flushes : Nat, cycles : Nat, snapshots : Nat, restarts : Nat]

Types ==
    /\ TypeOK
    /\ comp \in CompState
    /\ counts \in CountsState

\* Every live segment has its own id and its file; no file is without records.
SegmentsOK ==
    /\ Distinct(manifest)
    /\ ManifestHasFiles
    /\ \A i \in DOMAIN files : Live(files[i]) # {}

\* The segments in flight have ids of their own below next_segment_id, and none
\* is in flight during a cycle.
FlushesOK ==
    /\ \A w \in flushes : Live(w.ents) # {} /\ w.id \notin SeqIds(manifest) /\ w.id < next_segment_id
    /\ \A v, w \in flushes : v.id = w.id => v = w
    /\ ~Unlocked => flushes = {}

\* The counter that hands out the next id is above every live id.
IdsBelow ==
    /\ Unlocked => comp = Idle /\ \A i \in SeqIds(manifest) : i < next_segment_id
    /\ ~Unlocked => \A i \in SeqIds(manifest) : i < comp.next

\* The segments a cycle has taken from the manifest or still may.
Compacting == Range(comp.ids) \cup Range(comp.dead) \cup UNION {Range(c.ids) : c \in comp.todo}

\* A pinned segment is live and in no cohort.
PinsOK ==
    /\ Unlocked => SeqIds(readers) \subseteq SeqIds(manifest)
    /\ PinnedIds \subseteq SeqIds(manifest) \ Compacting

\* The cohorts to come are live, and share no segment with one another or with the
\* cohort being compacted.
CohortsOK ==
    \A c \in comp.todo :
        /\ c.ids # <<>>
        /\ Range(c.ids) \subseteq SeqIds(manifest)
        /\ Range(c.ids) \cap (Range(comp.ids) \cup Range(comp.dead)) = {}
        /\ \A d \in comp.todo : c # d => Range(c.ids) \cap Range(d.ids) = {}

\* The output waits for its manifest entry, old segments leave the manifest, their
\* files go when none of them is listed any more.
PhaseOK ==
    /\ comp.phase \in {"add", "remove"} =>
          comp.ids # <<>> /\ Range(comp.dead) \cap SeqIds(manifest) \subseteq Range(comp.ids)
    /\ comp.phase = "add" =>
          /\ Range(comp.dead) \subseteq SeqIds(manifest)
          /\ \E id \in DOMAIN files : comp.out = {id} /\ id \notin SeqIds(manifest) /\ id < comp.next
    /\ comp.phase \in {"add", "remove", "delete"} => comp.dead # <<>>
    /\ comp.phase = "delete" => Range(comp.dead) \cap SeqIds(manifest) = {}

CompactionInv ==
    /\ Types /\ SegmentsOK /\ FlushesOK /\ IdsBelow /\ PinsOK /\ CohortsOK /\ PhaseOK

\* The idle cycle holds nothing.
LEMMA IdleFacts ==
    /\ Idle \in CompState /\ Idle.phase = "idle" /\ Idle.todo = {} /\ Idle.out = {}
    /\ Idle.ids = <<>> /\ Idle.dead = <<>> /\ Idle.next = 0 /\ Idle.written = 0
    /\ Range(Idle.ids) = {} /\ Range(Idle.dead) = {}
<1>1. <<>> \in Seq(Nat)
    OBVIOUS
<1> QED BY <1>1 DEF Idle, CompState, Range

\* An empty cycle satisfies everything the invariant says of a cycle.
LEMMA IdleInv ==
    ASSUME comp = Idle
    PROVE  Unlocked /\ CohortsOK /\ PhaseOK /\ Compacting = {}
BY IdleFacts DEF Unlocked, CohortsOK, PhaseOK, Compacting

\* Reopening: SegmentStore::open reads one reader per live segment.
LEMMA OpenReadersFacts ==
    ASSUME NEW metas \in Seq(Meta), NEW fs
    PROVE  /\ OpenReaders(metas, fs) \in Seq(Reader)
           /\ SeqIds(OpenReaders(metas, fs)) = SeqIds(metas)
<1>1. \A i \in DOMAIN metas : metas[i].id \in Nat
    BY MetaAt
<1>2. \A id \in Nat : OpenReader(id, fs) \in Reader /\ OpenReader(id, fs).id = id
    BY DEF OpenReader, Reader, Live
<1>3. DOMAIN OpenReaders(metas, fs) = DOMAIN metas
      /\ \A i \in DOMAIN metas : OpenReaders(metas, fs)[i] \in Reader
                                 /\ OpenReaders(metas, fs)[i].id = metas[i].id
    BY <1>1, <1>2 DEF OpenReaders
<1>4. OpenReaders(metas, fs) \in Seq(Reader)
    BY <1>1, <1>2 DEF OpenReaders
<1> QED BY <1>3, <1>4 DEF SeqIds

\* The initial state: an empty directory.
LEMMA InitInv == Init => CompactionInv
<1> SUFFICES ASSUME Init PROVE CompactionInv
    OBVIOUS
<1>1. SeqIds(manifest) = {} /\ SeqIds(readers) = {} /\ DOMAIN files = {}
    BY DEF Init, SeqIds
<1>2. Unlocked /\ CohortsOK /\ PhaseOK /\ Compacting = {}
    BY IdleInv DEF Init
<1>3. Types
    <2>1. manifest \in Seq(Meta) /\ readers \in Seq(Reader)
        BY DEF Init
    <2>2. latest \in Entries
        BY DEF Init, Entries
    <2> QED BY <1>1, <2>1, <2>2, IdleFacts DEF Init, Types, TypeOK, CompState, CountsState
<1>4. SegmentsOK /\ FlushesOK /\ IdsBelow
    BY <1>1, <1>2 DEF Init, SegmentsOK, FlushesOK, IdsBelow, Distinct, ManifestHasFiles
<1>5. PinsOK
    BY <1>1, <1>2 DEF Init, PinsOK, PinnedIds
<1> QED BY <1>2, <1>3, <1>4, <1>5 DEF CompactionInv
-----------------------------------------------------------------------------
(***************************************************************************)
(* Each action preserves the invariant.                                    *)
(***************************************************************************)

\* A step that leaves the manifest and the cycle alone.
LEMMA FrameInv ==
    ASSUME CompactionInv, UNCHANGED <<manifest, comp>>
    PROVE  /\ Unlocked' = Unlocked /\ SeqIds(manifest)' = SeqIds(manifest) /\ Compacting' = Compacting
           /\ CohortsOK'
           /\ UNCHANGED files => SegmentsOK' /\ PhaseOK'
           /\ UNCHANGED <<readers, snapshots>> => PinsOK'
           /\ UNCHANGED next_segment_id => IdsBelow'
           /\ UNCHANGED next_segment_id /\ flushes' \subseteq flushes => FlushesOK'
<1>1. Unlocked' = Unlocked /\ SeqIds(manifest)' = SeqIds(manifest) /\ Compacting' = Compacting
    BY DEF Unlocked, SeqIds, Compacting
<1>2. CohortsOK'
    BY <1>1 DEF CompactionInv, CohortsOK
<1>3. UNCHANGED files => SegmentsOK' /\ PhaseOK'
    BY DEF CompactionInv, SegmentsOK, Distinct, ManifestHasFiles, PhaseOK, SeqIds
<1>4. UNCHANGED <<readers, snapshots>> => PinsOK'
    <2>1. UNCHANGED <<readers, snapshots>> => PinnedIds' = PinnedIds /\ SeqIds(readers)' = SeqIds(readers)
        BY DEF PinnedIds, SeqIds
    <2> QED BY <1>1, <2>1 DEF CompactionInv, PinsOK
<1>5. UNCHANGED next_segment_id => IdsBelow'
    BY <1>1 DEF CompactionInv, IdsBelow
<1>6. UNCHANGED next_segment_id /\ flushes' \subseteq flushes => FlushesOK'
    BY <1>1 DEF CompactionInv, FlushesOK
<1> QED BY <1>1, <1>2, <1>3, <1>4, <1>5, <1>6

\* The clock touches nothing else.
LEMMA TickInv ==
    ASSUME CompactionInv, Tick
    PROVE  CompactionInv'
<1>1. Types'
    BY DEF CompactionInv, Types, TypeOK, Tick, segVars
<1>2. UNCHANGED <<files, manifest, readers, next_segment_id, flushes, snapshots, comp>>
    BY DEF Tick, segVars
<1> QED BY <1>1, <1>2, FrameInv DEF CompactionInv

\* The entries of a batch: one for each of its keys, and it has one.
LEMMA BatchFacts ==
    ASSUME now \in Nat, lsn_counter \in Nat, NEW b \in Batches
    PROVE  BatchEntries(b) \in Entries /\ Live(BatchEntries(b)) # {}
<1>1. PICK ks \in (SUBSET Keys) \ {{}} : b \in [ks -> Ops]
    BY DEF Batches
<1>2. \A k \in Keys : k \in Nat
    BY ConstantsAssumption
<1>3. \A o \in Ops : o.op \in {"Put", "Delete"} /\ o.ttl \in Nat
    BY ConstantsAssumption DEF Ops
<1>4. ASSUME NEW k \in Keys
      PROVE  /\ BatchEntries(b)[k] \in Entry \cup {NoEntry}
             /\ k \in ks => BatchEntries(b)[k] \in Entry
    <2>1. CASE k \in ks
        <3>1. b[k].op \in {"Put", "Delete"} /\ b[k].ttl \in Nat
            BY <1>1, <1>3, <2>1
        <3>2. [op |-> b[k].op, lsn |-> lsn_counter + k, timestamp |-> now, ttl |-> b[k].ttl] \in Entry
            BY <1>2, <3>1 DEF Entry
        <3>3. BatchEntries(b)[k] = [op |-> b[k].op, lsn |-> lsn_counter + k, timestamp |-> now, ttl |-> b[k].ttl]
            BY <1>1, <2>1 DEF BatchEntries
        <3> QED BY <3>2, <3>3
    <2>2. CASE k \notin ks
        BY <1>1, <2>2 DEF BatchEntries
    <2> QED BY <2>1, <2>2
<1>5. BatchEntries(b) \in Entries
    BY <1>4 DEF BatchEntries, Entries
<1>6. PICK k \in ks : TRUE
    OBVIOUS
<1>7. k \in Live(BatchEntries(b))
    BY <1>1, <1>4, <1>6, ConstantsAssumption DEF Live, Entry
<1> QED BY <1>5, <1>7

\* prepare_flush takes an id no live segment, flush or pin has.
LEMMA PrepareInv ==
    ASSUME CompactionInv, NEW b \in Batches, prepare_flush(b)
    PROVE  CompactionInv'
<1> DEFINE w == [id |-> next_segment_id, ents |-> BatchEntries(b), written |-> FALSE]
<1>1. now \in Nat /\ lsn_counter \in Nat /\ next_segment_id \in Nat
    BY DEF CompactionInv, Types, TypeOK
<1>2. BatchEntries(b) \in Entries /\ Live(BatchEntries(b)) # {}
    BY <1>1, BatchFacts
<1>3. flushes' = flushes \cup {w} /\ next_segment_id' = next_segment_id + 1
    BY DEF prepare_flush
<1>4. w \in Work /\ w.id = next_segment_id /\ Live(w.ents) # {}
    BY <1>1, <1>2 DEF Work
<1> HIDE DEF w
<1>5. Max(Keys) \in Nat
    BY ConstantsAssumption, FiniteMax
<1>6. UNCHANGED <<now, files, manifest, readers, snapshots, comp, latest>> /\ Unlocked
    BY DEF prepare_flush
<1>7. Types'
    <2>1. counts' \in CountsState
        BY DEF CompactionInv, Types, CountsState, prepare_flush
    <2>2. lsn_counter' \in Nat
        BY <1>1, <1>5 DEF prepare_flush
    <2> QED BY <1>1, <1>3, <1>4, <1>6, <2>1, <2>2 DEF CompactionInv, Types, TypeOK
<1>8. SegmentsOK' /\ CohortsOK' /\ PhaseOK'
    BY <1>6, FrameInv
<1>9. PinsOK' /\ Unlocked' /\ SeqIds(manifest)' = SeqIds(manifest)
    BY <1>6, FrameInv
<1>10. \A i \in SeqIds(manifest) : i \in Nat /\ i < next_segment_id
    BY <1>6, IdsFinite DEF CompactionInv, Types, TypeOK, IdsBelow
<1>11. IdsBelow'
    BY <1>1, <1>3, <1>6, <1>9, <1>10 DEF CompactionInv, IdsBelow
<1>12. \A v \in flushes : v.id \in Nat /\ v.id < next_segment_id
    BY DEF CompactionInv, FlushesOK, Types, TypeOK, Work
<1>13. FlushesOK'
    <2>2. \A v \in flushes' : Live(v.ents) # {} /\ v.id \notin SeqIds(manifest) /\ v.id < next_segment_id'
        BY <1>1, <1>3, <1>4, <1>10, <1>12 DEF CompactionInv, FlushesOK
    <2>3. \A u, v \in flushes' : u.id = v.id => u = v
        BY <1>1, <1>3, <1>4, <1>12 DEF CompactionInv, FlushesOK
    <2> QED BY <1>9, <2>2, <2>3 DEF FlushesOK
<1> QED BY <1>7, <1>8, <1>9, <1>11, <1>13 DEF CompactionInv

\* execute writes a file no live segment owns.
LEMMA ExecuteInv ==
    ASSUME CompactionInv, NEW w \in flushes, execute(w)
    PROVE  CompactionInv'
<1> DEFINE v == [w EXCEPT !.written = TRUE]
<1>1. w \in Work
    BY DEF CompactionInv, Types, TypeOK
<1>2. v \in Work /\ v.id = w.id /\ v.ents = w.ents
    BY <1>1 DEF Work
<1>3. flushes' = (flushes \ {w}) \cup {v} /\ files' = PutFile(files, w.id, w.ents)
    BY DEF execute
<1> HIDE DEF v
<1>4. UNCHANGED <<manifest, readers, next_segment_id, snapshots, comp>> /\ Unlocked
    BY DEF execute, CompactionInv, FlushesOK
<1>5. w.id \in Nat /\ w.ents \in Entries /\ Live(w.ents) # {} /\ w.id \notin SeqIds(manifest)
    BY <1>1 DEF Work, CompactionInv, FlushesOK
<1>6. /\ DOMAIN files' = DOMAIN files \cup {w.id} /\ files'[w.id] = w.ents
      /\ \A i \in DOMAIN files : i # w.id => files'[i] = files[i]
    BY <1>3 DEF PutFile
<1>7. Types'
    BY <1>2, <1>3, <1>5, <1>6 DEF CompactionInv, Types, TypeOK, execute
<1>8. IdsBelow' /\ CohortsOK' /\ PinsOK' /\ Unlocked' /\ SeqIds(manifest)' = SeqIds(manifest)
    BY <1>4, FrameInv
<1>9. SegmentsOK'
    BY <1>4, <1>5, <1>6, <1>8 DEF CompactionInv, SegmentsOK, Distinct, ManifestHasFiles
<1>10. FlushesOK'
    BY <1>2, <1>3, <1>4, <1>5, <1>8 DEF CompactionInv, FlushesOK
<1>11. PhaseOK'
    BY <1>8 DEF Unlocked, PhaseOK
<1> QED BY <1>7, <1>8, <1>9, <1>10, <1>11 DEF CompactionInv

\* finalize_segment lists and opens one more segment.
LEMMA FinalizeInv ==
    ASSUME CompactionInv, NEW w \in flushes, finalize_segment(w)
    PROVE  CompactionInv'
<1> DEFINE m == MetaOf(w.id, w.ents)
           r == OpenReader(w.id, files)
<1>1. w \in Work /\ w.id \in Nat /\ w.ents \in Entries
    BY DEF CompactionInv, Types, TypeOK, Work
<1>2. Live(w.ents) # {} /\ w.id \notin SeqIds(manifest) /\ w.id < next_segment_id
    BY DEF CompactionInv, FlushesOK
<1>3. m \in Meta /\ m.id = w.id
    BY <1>1, <1>2, MetaTyped
<1>4. r \in Reader /\ r.id = w.id
    BY <1>1 DEF OpenReader, Reader, Live
<1>5. /\ flushes' = flushes \ {w} /\ manifest' = Append(manifest, m) /\ readers' = Append(readers, r)
      /\ w.id \in DOMAIN files /\ Unlocked
      /\ UNCHANGED <<files, next_segment_id, snapshots, comp>>
    BY DEF finalize_segment
<1> HIDE DEF m, r
<1>6. manifest \in Seq(Meta) /\ readers \in Seq(Reader) /\ Distinct(manifest)
    BY DEF CompactionInv, Types, TypeOK, SegmentsOK
<1>7. /\ manifest' \in Seq(Meta) /\ SeqIds(manifest)' = SeqIds(manifest) \cup {w.id}
      /\ Distinct(manifest)'
    BY <1>2, <1>3, <1>5, <1>6, AppendIds
<1>8. readers' \in Seq(Reader) /\ SeqIds(readers)' = SeqIds(readers) \cup {w.id}
    <2>1. /\ Append(readers, r) \in Seq(Reader)
          /\ DOMAIN readers = 1..Len(readers) /\ Len(readers) \in Nat
          /\ DOMAIN Append(readers, r) = 1..(Len(readers) + 1)
          /\ \A i \in 1..Len(readers) : Append(readers, r)[i] = readers[i]
          /\ Append(readers, r)[Len(readers) + 1] = r
        BY <1>4, <1>6
    <2> QED BY <1>4, <1>5, <2>1 DEF SeqIds
<1>9. latest' \in Entries
    BY <1>1 DEF CompactionInv, Types, TypeOK, finalize_segment, Entries
<1>10. Types'
    BY <1>5, <1>7, <1>8, <1>9 DEF CompactionInv, Types, TypeOK, finalize_segment
<1>11. SegmentsOK'
    BY <1>5, <1>7 DEF CompactionInv, SegmentsOK, ManifestHasFiles
<1>12. Unlocked'
    BY <1>5 DEF Unlocked
<1>13. FlushesOK'
    <2>1. \A v \in flushes' : v \in flushes /\ v.id # w.id
        BY <1>5 DEF CompactionInv, FlushesOK
    <2> QED BY <1>5, <1>7, <1>12, <2>1 DEF CompactionInv, FlushesOK
<1>14. IdsBelow'
    BY <1>2, <1>5, <1>7, <1>12 DEF CompactionInv, IdsBelow
<1>15. comp = Idle /\ comp' = Idle
    BY <1>5 DEF CompactionInv, IdsBelow
<1>16. CohortsOK' /\ PhaseOK' /\ Compacting = {} /\ Compacting' = {}
    <2>1. CohortsOK' /\ PhaseOK'
        BY <1>15, IdleFacts DEF CohortsOK, PhaseOK
    <2> QED BY <1>15, <2>1, IdleFacts DEF Compacting
<1>17. PinsOK'
    BY <1>5, <1>7, <1>8, <1>16 DEF CompactionInv, PinsOK, PinnedIds
<1> QED BY <1>10, <1>11, <1>13, <1>14, <1>16, <1>17 DEF CompactionInv

\* A failed flush leaves files that nothing lists.
LEMMA AbortInv ==
    ASSUME CompactionInv, NEW w \in flushes, abort_flush(w)
    PROVE  CompactionInv'
<1>1. /\ flushes' \subseteq flushes
      /\ UNCHANGED <<files, manifest, readers, next_segment_id, snapshots, comp>>
    BY DEF abort_flush, segVars
<1>2. Types'
    BY <1>1 DEF CompactionInv, Types, TypeOK, abort_flush
<1> QED BY <1>1, <1>2, FrameInv DEF CompactionInv

\* A snapshot pins live segments, outside any cycle.
LEMMA SnapshotInv ==
    ASSUME CompactionInv, snapshot
    PROVE  CompactionInv'
<1> DEFINE n == [id |-> counts.snapshots + 1, readers |-> readers,
                 seen |-> [k \in Keys |-> Visible(SnapshotGet(readers, files, k))]]
<1>1. /\ snapshots' = snapshots \cup {n} /\ Unlocked
      /\ UNCHANGED <<now, lsn_counter, files, manifest, readers, next_segment_id, flushes, comp, latest>>
    BY DEF snapshot, segVars
<1>2. counts.snapshots \in Nat /\ counts' \in CountsState
    BY DEF CompactionInv, Types, CountsState, snapshot
<1>3. n.id \in Nat /\ n.readers = readers
    BY <1>2
<1> HIDE DEF n
<1>4. Types'
    BY <1>1, <1>2, <1>3 DEF CompactionInv, Types, TypeOK
<1>5. /\ Unlocked' /\ SeqIds(manifest)' = SeqIds(manifest) /\ Compacting' = Compacting
      /\ SegmentsOK' /\ PhaseOK' /\ CohortsOK' /\ IdsBelow' /\ FlushesOK'
    BY <1>1, FrameInv
<1>6. comp = Idle /\ Compacting = {}
    BY <1>1, IdleInv DEF CompactionInv, IdsBelow
<1>7. PinnedIds' = PinnedIds \cup SeqIds(readers)
    BY <1>1, <1>3 DEF PinnedIds
<1>8. PinsOK'
    BY <1>1, <1>5, <1>6, <1>7 DEF CompactionInv, PinsOK
<1> QED BY <1>4, <1>5, <1>8 DEF CompactionInv

\* Dropping a snapshot only unpins.
LEMMA DropInv ==
    ASSUME CompactionInv, NEW s \in snapshots, drop_snapshot(s)
    PROVE  CompactionInv'
<1>1. /\ snapshots' \subseteq snapshots
      /\ UNCHANGED <<now, lsn_counter, files, manifest, readers, next_segment_id, flushes, comp, latest, counts>>
    BY DEF drop_snapshot, segVars
<1>2. Types'
    BY <1>1 DEF CompactionInv, Types, TypeOK
<1>3. /\ Unlocked' = Unlocked /\ SeqIds(manifest)' = SeqIds(manifest) /\ Compacting' = Compacting
      /\ SegmentsOK' /\ PhaseOK' /\ CohortsOK' /\ IdsBelow' /\ FlushesOK'
    BY <1>1, FrameInv
<1>4. PinnedIds' \subseteq PinnedIds
    BY <1>1 DEF PinnedIds
<1>5. PinsOK'
    BY <1>1, <1>3, <1>4 DEF CompactionInv, PinsOK
<1> QED BY <1>2, <1>3, <1>5 DEF CompactionInv

\* compact_once: cohorts of unpinned live segments, ids above all of theirs.
LEMMA CompactOnceInv ==
    ASSUME CompactionInv, Serialized, compact_once
    PROVE  CompactionInv'
<1> DEFINE todo == IdentifyCohorts(manifest, PinnedIds)
<1>1. /\ Unlocked /\ flushes = {} /\ comp = Idle
      /\ comp' = [Idle EXCEPT !.phase = "next", !.todo = todo, !.next = CompactionId(manifest), !.at = now]
      /\ UNCHANGED <<now, lsn_counter, files, manifest, readers, next_segment_id, flushes, snapshots, latest>>
    BY DEF compact_once, segVars, CompactionInv, IdsBelow
<1>2. counts' \in CountsState
    BY DEF CompactionInv, Types, CountsState, compact_once
<1>3. manifest \in Seq(Meta) /\ Distinct(manifest) /\ now \in Nat
    BY DEF CompactionInv, Types, TypeOK, SegmentsOK
<1>4. /\ todo \subseteq Cohort
      /\ \A c \in todo : /\ c.ids # <<>> /\ Range(c.ids) \subseteq SeqIds(manifest) \ PinnedIds
                         /\ \A d \in todo : c # d => Range(c.ids) \cap Range(d.ids) = {}
    BY <1>3, CohortFacts
<1>5. CompactionId(manifest) \in Nat /\ \A i \in SeqIds(manifest) : i < CompactionId(manifest)
    BY <1>3, NextIdAbove
<1> HIDE DEF todo
<1>6. /\ comp' \in CompState /\ comp'.phase = "next" /\ comp'.todo = todo /\ comp'.out = {}
      /\ comp'.ids = <<>> /\ comp'.dead = <<>> /\ comp'.next = CompactionId(manifest)
    BY <1>1, <1>3, <1>4, <1>5, IdleFacts DEF CompState, Idle
<1>7. Range(comp'.ids) = {} /\ Range(comp'.dead) = {}
    BY <1>6 DEF Range
<1>8. Types'
    BY <1>1, <1>2, <1>4, <1>6 DEF CompactionInv, Types, TypeOK
<1>9. SeqIds(manifest)' = SeqIds(manifest) /\ PinnedIds' = PinnedIds /\ ~Unlocked'
    BY <1>1, <1>6 DEF SeqIds, PinnedIds, Unlocked
<1>10. SegmentsOK'
    BY <1>1, <1>9 DEF CompactionInv, SegmentsOK, Distinct, ManifestHasFiles
<1>11. FlushesOK' /\ IdsBelow'
    BY <1>1, <1>5, <1>6, <1>9 DEF FlushesOK, IdsBelow
<1>12. CohortsOK'
    BY <1>4, <1>6, <1>7, <1>9 DEF CohortsOK
<1>13. PhaseOK'
    BY <1>6 DEF PhaseOK
<1>14. Compacting' \cap PinnedIds = {}
    BY <1>4, <1>6, <1>7 DEF Compacting
<1>15. PinsOK'
    BY <1>9, <1>14 DEF CompactionInv, PinsOK
<1> QED BY <1>8, <1>10, <1>11, <1>12, <1>13, <1>15 DEF CompactionInv

\* A cycle that has used an id without output, or listed its output.
LEMMA UsedId ==
    ASSUME NEW r \in CompState, NEW q, q = [r EXCEPT !.phase = "remove", !.next = @ + 1]
    PROVE  /\ q \in CompState /\ q.todo = r.todo /\ q.ids = r.ids /\ q.dead = r.dead
           /\ q.next = r.next + 1 /\ q.phase = "remove" /\ q.out = r.out /\ q.at = r.at
<1>1. r.next + 1 \in Nat
    BY DEF CompState
<1> QED BY <1>1 DEF CompState

\* A cycle that has listed its output.
LEMMA ListedOutput ==
    ASSUME NEW r \in CompState, NEW q, q = [r EXCEPT !.phase = "remove", !.written = @ + 1]
    PROVE  /\ q \in CompState /\ q.todo = r.todo /\ q.ids = r.ids /\ q.dead = r.dead
           /\ q.next = r.next /\ q.phase = "remove" /\ q.out = r.out /\ q.at = r.at
<1>1. r.written + 1 \in Nat
    BY DEF CompState
<1> QED BY <1>1 DEF CompState

\* The head of the cohort loop: what becomes of the cohort, and what is written.
LEMMA TakeFacts ==
    ASSUME CompactionInv, NEW c \in comp.todo, take_cohort(c)
    PROVE  LET s == Survivors(c.ids, files, comp.at) IN
           /\ comp.phase = "next" /\ comp.next \in Nat /\ c.ids \in Seq(Nat) /\ c.ids # <<>>
           /\ Range(c.ids) \subseteq SeqIds(manifest) /\ Range(c.ids) \subseteq DOMAIN files
           /\ s \in Entries
           /\ comp' \in CompState /\ comp'.at = comp.at
           /\ comp'.todo = comp.todo \ {c} /\ comp'.ids = c.ids /\ comp'.dead = c.ids
           /\ comp.next <= comp'.next
           /\ \/ /\ UNCHANGED files /\ comp'.phase = "remove" /\ comp'.out = {}
                 /\ comp.at > c.death \/ Live(s) = {}
              \/ /\ Live(s) # {} /\ files' = PutFile(files, comp.next, s)
                 /\ comp'.phase = "add" /\ comp'.out = {comp.next} /\ comp.next < comp'.next
           /\ UNCHANGED <<now, lsn_counter, manifest, readers, next_segment_id, flushes, snapshots, counts, latest>>
<1> DEFINE s == Survivors(c.ids, files, comp.at)
           rest == [comp EXCEPT !.todo = @ \ {c}, !.ids = c.ids, !.dead = c.ids, !.out = {}]
<1>1. /\ comp.phase = "next"
      /\ UNCHANGED <<now, lsn_counter, manifest, readers, next_segment_id, flushes, snapshots, counts, latest>>
    BY DEF take_cohort
<1>2. comp \in CompState /\ c \in Cohort /\ comp.next \in Nat
    BY DEF CompactionInv, Types, CompState
<1>3. c.ids \in Seq(Nat)
    BY <1>2 DEF Cohort
<1>4. c.ids # <<>> /\ Range(c.ids) \subseteq SeqIds(manifest)
    BY DEF CompactionInv, CohortsOK
<1>5. Range(c.ids) \subseteq DOMAIN files /\ \A i \in DOMAIN files : files[i] \in Entries
    BY <1>4 DEF CompactionInv, SegmentsOK, ManifestHasFiles, Types, TypeOK
<1>6. s \in Entries
    BY <1>3, <1>5, SurvivorsTyped
<1>7. /\ rest \in CompState /\ rest.todo = comp.todo \ {c} /\ rest.ids = c.ids /\ rest.dead = c.ids
      /\ rest.next = comp.next /\ rest.out = {} /\ rest.at = comp.at
    BY <1>2, <1>3 DEF CompState
<1> HIDE DEF rest, s
<1>8. \/ comp' = [rest EXCEPT !.phase = FirstPhase] /\ UNCHANGED files /\ comp.at > c.death
      \/ /\ comp' = [rest EXCEPT !.phase = FirstPhase, !.next = @ + 1] /\ UNCHANGED files
         /\ Live(s) = {}
      \/ /\ Live(s) # {} /\ files' = PutFile(files, comp.next, s)
         /\ comp' = [rest EXCEPT !.phase = "add", !.out = {comp.next}, !.next = @ + 1]
    BY DEF take_cohort, rest, s
<1>9. FirstPhase = "remove"
    BY DEF FirstPhase, PhaseOrder
<1> DEFINE Taken ==
              /\ comp' \in CompState /\ comp'.at = comp.at
              /\ comp'.todo = comp.todo \ {c} /\ comp'.ids = c.ids /\ comp'.dead = c.ids
              /\ comp.next <= comp'.next
              /\ \/ /\ UNCHANGED files /\ comp'.phase = "remove" /\ comp'.out = {}
                    /\ comp.at > c.death \/ Live(s) = {}
                 \/ /\ Live(s) # {} /\ files' = PutFile(files, comp.next, s)
                    /\ comp'.phase = "add" /\ comp'.out = {comp.next} /\ comp.next < comp'.next
<1>10. ASSUME comp' = [rest EXCEPT !.phase = FirstPhase] /\ UNCHANGED files /\ comp.at > c.death
       PROVE  Taken
    <2>1. comp' \in CompState /\ comp'.todo = rest.todo /\ comp'.ids = rest.ids /\ comp'.at = rest.at
          /\ comp'.dead = rest.dead /\ comp'.next = rest.next /\ comp'.phase = "remove" /\ comp'.out = rest.out
        BY <1>7, <1>9, <1>10 DEF CompState
    <2> QED BY <1>2, <1>7, <1>10, <2>1
<1>11. ASSUME comp' = [rest EXCEPT !.phase = FirstPhase, !.next = @ + 1] /\ UNCHANGED files, Live(s) = {}
       PROVE  Taken
    <2>1. comp' \in CompState /\ comp'.todo = rest.todo /\ comp'.ids = rest.ids /\ comp'.at = rest.at
          /\ comp'.dead = rest.dead /\ comp'.next = rest.next + 1 /\ comp'.phase = "remove" /\ comp'.out = rest.out
        BY <1>7, <1>9, <1>11, UsedId
    <2> QED BY <1>2, <1>7, <1>11, <2>1
<1>12. ASSUME Live(s) # {} /\ files' = PutFile(files, comp.next, s),
              comp' = [rest EXCEPT !.phase = "add", !.out = {comp.next}, !.next = @ + 1]
       PROVE  Taken
    <2>1. rest \in CompState /\ comp.next \in Nat /\ rest.next + 1 \in Nat
        BY <1>2, <1>7
    <2>2. comp' = [rest EXCEPT !.phase = "add", !.out = {comp.next}, !.next = @ + 1]
        BY <1>12
    <2>3. comp' \in CompState /\ comp'.todo = rest.todo /\ comp'.ids = rest.ids /\ comp'.at = rest.at
          /\ comp'.dead = rest.dead /\ comp'.next = rest.next + 1 /\ comp'.phase = "add"
          /\ comp'.out = {comp.next}
        BY <2>1, <2>2 DEF CompState
    <2> QED BY <1>2, <1>7, <1>12, <2>3
<1>13. Taken
    BY <1>8, <1>10, <1>11, <1>12
<1> QED BY <1>1, <1>2, <1>3, <1>4, <1>5, <1>6, <1>13 DEF s

\* The head of the cohort loop moves one cohort from those to come to the one at hand.
LEMMA TakeInv ==
    ASSUME CompactionInv, NEW c \in comp.todo, take_cohort(c)
    PROVE  CompactionInv'
<1> DEFINE s == Survivors(c.ids, files, comp.at)
<1>1. /\ comp.phase = "next" /\ comp.next \in Nat /\ c.ids # <<>> /\ Range(c.ids) \subseteq SeqIds(manifest)
      /\ s \in Entries
      /\ comp' \in CompState /\ comp'.todo = comp.todo \ {c} /\ comp'.ids = c.ids /\ comp'.dead = c.ids
      /\ comp.next <= comp'.next
      /\ \/ UNCHANGED files /\ comp'.phase = "remove"
         \/ /\ Live(s) # {} /\ files' = PutFile(files, comp.next, s)
            /\ comp'.phase = "add" /\ comp'.out = {comp.next} /\ comp.next < comp'.next
      /\ UNCHANGED <<now, lsn_counter, manifest, readers, next_segment_id, flushes, snapshots, counts, latest>>
    BY TakeFacts
<1> HIDE DEF s
<1>2. SeqIds(manifest)' = SeqIds(manifest) /\ PinnedIds' = PinnedIds /\ ~Unlocked /\ ~Unlocked'
    BY <1>1 DEF SeqIds, PinnedIds, Unlocked
<1>3. \A i \in SeqIds(manifest) : i \in Nat /\ i < comp.next
    BY <1>2, IdsFinite DEF CompactionInv, IdsBelow, Types, TypeOK
<1>4. IdsBelow'
    BY <1>1, <1>2, <1>3 DEF IdsBelow, CompState
<1>5. FlushesOK'
    BY <1>1, <1>2 DEF CompactionInv, FlushesOK
<1>6. CohortsOK'
    BY <1>1, <1>2 DEF CompactionInv, CohortsOK
<1>7. Compacting' \subseteq Compacting
    BY <1>1 DEF Compacting
<1>8. PinsOK'
    BY <1>2, <1>7 DEF CompactionInv, PinsOK
<1>9. CASE UNCHANGED files /\ comp'.phase = "remove"
    <2>1. Types'
        BY <1>1, <1>9 DEF CompactionInv, Types, TypeOK, CompState
    <2>2. SegmentsOK'
        BY <1>1, <1>2, <1>9 DEF CompactionInv, SegmentsOK, Distinct, ManifestHasFiles
    <2>3. PhaseOK'
        BY <1>1, <1>9 DEF PhaseOK
    <2> QED BY <1>4, <1>5, <1>6, <1>8, <2>1, <2>2, <2>3 DEF CompactionInv
<1>10. CASE /\ Live(s) # {} /\ files' = PutFile(files, comp.next, s)
            /\ comp'.phase = "add" /\ comp'.out = {comp.next} /\ comp.next < comp'.next
    <2>1. /\ DOMAIN files' = DOMAIN files \cup {comp.next} /\ files'[comp.next] = s
          /\ \A i \in DOMAIN files : i # comp.next => files'[i] = files[i]
        BY <1>10 DEF PutFile
    <2>2. comp.next \notin SeqIds(manifest)
        BY <1>3
    <2>3. Types'
        BY <1>1, <2>1 DEF CompactionInv, Types, TypeOK, CompState
    <2>4. SegmentsOK'
        BY <1>1, <1>2, <1>10, <2>1 DEF CompactionInv, SegmentsOK, Distinct, ManifestHasFiles
    <2>5. PhaseOK'
        BY <1>1, <1>2, <1>10, <2>1, <2>2 DEF PhaseOK
    <2> QED BY <1>4, <1>5, <1>6, <1>8, <2>3, <2>4, <2>5 DEF CompactionInv
<1> QED BY <1>1, <1>9, <1>10

\* The output enters the manifest.
LEMMA AddFacts ==
    ASSUME CompactionInv, add_output
    PROVE  \E id \in DOMAIN files :
             LET m == MetaOf(id, files[id]) IN
             /\ comp.phase = "add" /\ comp.out = {id} /\ id \notin SeqIds(manifest) /\ id < comp.next
             /\ id \in Nat /\ files[id] \in Entries /\ Live(files[id]) # {}
             /\ m \in Meta /\ m.id = id
             /\ manifest' = Append(manifest, m)
             /\ manifest' \in Seq(Meta) /\ SeqIds(manifest') = SeqIds(manifest) \cup {id} /\ Distinct(manifest')
             /\ comp' \in CompState /\ comp'.phase = "remove" /\ comp'.todo = comp.todo /\ comp'.ids = comp.ids
             /\ comp'.dead = comp.dead /\ comp'.next = comp.next /\ comp'.out = comp.out /\ comp'.at = comp.at
             /\ UNCHANGED <<now, lsn_counter, files, readers, next_segment_id, flushes, snapshots, counts, latest>>
<1>1. PICK id \in DOMAIN files : comp.out = {id} /\ id \notin SeqIds(manifest) /\ id < comp.next
    BY DEF add_output, CompactionInv, PhaseOK
<1> DEFINE m == MetaOf(id, files[id])
<1>2. id \in Nat /\ files[id] \in Entries /\ Live(files[id]) # {}
    BY DEF CompactionInv, Types, TypeOK, SegmentsOK
<1>3. m \in Meta /\ m.id = id
    BY <1>2, MetaTyped
<1>4. (CHOOSE i \in comp.out : TRUE) = id
    BY <1>1
<1>5. /\ comp.phase = "add" /\ manifest' = Append(manifest, m)
      /\ comp' = [comp EXCEPT !.phase = "remove", !.written = @ + 1]
      /\ UNCHANGED <<now, lsn_counter, files, readers, next_segment_id, flushes, snapshots, counts, latest>>
    BY <1>4 DEF add_output, FirstPhase, PhaseOrder
<1>6. manifest \in Seq(Meta) /\ Distinct(manifest) /\ comp \in CompState
    BY DEF CompactionInv, Types, TypeOK, SegmentsOK
<1> HIDE DEF m
<1>7. manifest' \in Seq(Meta) /\ SeqIds(manifest') = SeqIds(manifest) \cup {id} /\ Distinct(manifest')
    BY <1>1, <1>3, <1>5, <1>6, AppendIds
<1>8. /\ comp' \in CompState /\ comp'.phase = "remove" /\ comp'.todo = comp.todo /\ comp'.ids = comp.ids
      /\ comp'.dead = comp.dead /\ comp'.next = comp.next /\ comp'.out = comp.out /\ comp'.at = comp.at
    BY <1>5, <1>6, ListedOutput
<1> QED BY <1>1, <1>2, <1>3, <1>5, <1>7, <1>8 DEF m

\* The output has an id of its own and its file.
LEMMA AddInv ==
    ASSUME CompactionInv, add_output
    PROVE  CompactionInv'
<1>1. PICK id \in DOMAIN files :
        /\ comp.phase = "add" /\ comp.out = {id} /\ id \notin SeqIds(manifest) /\ id < comp.next
        /\ manifest' \in Seq(Meta) /\ SeqIds(manifest') = SeqIds(manifest) \cup {id} /\ Distinct(manifest')
        /\ comp' \in CompState /\ comp'.phase = "remove" /\ comp'.todo = comp.todo /\ comp'.ids = comp.ids
        /\ comp'.dead = comp.dead /\ comp'.next = comp.next
        /\ UNCHANGED <<now, lsn_counter, files, readers, next_segment_id, flushes, snapshots, counts, latest>>
    BY AddFacts
<1>2. Types'
    BY <1>1 DEF CompactionInv, Types, TypeOK, CompState
<1>3. SegmentsOK'
    BY <1>1 DEF CompactionInv, SegmentsOK, ManifestHasFiles
<1>4. ~Unlocked /\ ~Unlocked' /\ PinnedIds' = PinnedIds /\ Compacting' = Compacting
    BY <1>1 DEF Unlocked, PinnedIds, Compacting
<1>5. IdsBelow'
    BY <1>1, <1>4 DEF CompactionInv, IdsBelow
<1>6. FlushesOK'
    BY <1>1, <1>4 DEF CompactionInv, FlushesOK
<1>7. CohortsOK'
    BY <1>1 DEF CompactionInv, CohortsOK
<1>8. PinsOK'
    BY <1>1, <1>4 DEF CompactionInv, PinsOK
<1>9. PhaseOK'
    <2>1. /\ comp.ids # <<>> /\ comp.dead # <<>> /\ id \notin Range(comp.dead)
          /\ Range(comp.dead) \cap SeqIds(manifest) \subseteq Range(comp.ids)
        BY <1>1 DEF CompactionInv, PhaseOK
    <2> QED BY <1>1, <2>1 DEF PhaseOK
<1> QED BY <1>2, <1>3, <1>5, <1>6, <1>7, <1>8, <1>9 DEF CompactionInv

\* One Remove frame.
LEMMA RemoveFacts ==
    ASSUME CompactionInv, remove_old
    PROVE  LET id == Head(comp.ids)
               left == Retain(comp.ids, {i \in DOMAIN comp.ids : comp.ids[i] # id})
               kept == Retain(manifest, {i \in DOMAIN manifest : manifest[i].id # id})
           IN  /\ comp.phase = "remove" /\ comp.ids \in Seq(Nat) /\ comp.ids # <<>> /\ comp.dead # <<>>
               /\ Range(comp.dead) \cap SeqIds(manifest) \subseteq Range(comp.ids)
               /\ id \in Range(comp.ids) /\ comp.ids[1] = id
               /\ manifest' = kept /\ kept \in Seq(Meta) /\ Distinct(kept) /\ SeqIds(kept) = SeqIds(manifest) \ {id}
               /\ left \in Seq(Nat) /\ Range(left) = Range(comp.ids) \ {id}
               /\ comp' \in CompState /\ comp'.todo = comp.todo /\ comp'.ids = left /\ comp'.out = comp.out
               /\ comp'.dead = comp.dead /\ comp'.next = comp.next /\ comp'.at = comp.at
               /\ comp'.phase = IF left = <<>> THEN "delete" ELSE "remove"
               /\ UNCHANGED <<now, lsn_counter, files, readers, next_segment_id, flushes, snapshots, counts, latest>>
<1> DEFINE id == Head(comp.ids)
           left == Retain(comp.ids, {i \in DOMAIN comp.ids : comp.ids[i] # id})
           kept == Retain(manifest, {i \in DOMAIN manifest : manifest[i].id # id})
<1>1. comp \in CompState /\ manifest \in Seq(Meta) /\ Distinct(manifest) /\ comp.ids \in Seq(Nat)
    BY DEF CompactionInv, Types, TypeOK, SegmentsOK
<1>2. /\ comp.phase = "remove" /\ comp.ids # <<>> /\ comp.dead # <<>>
      /\ Range(comp.dead) \cap SeqIds(manifest) \subseteq Range(comp.ids)
    BY DEF remove_old, CompactionInv, PhaseOK
<1>3. /\ manifest' = kept
      /\ comp' = [comp EXCEPT !.ids = left, !.phase = IF left = <<>> THEN After(@) ELSE @]
      /\ UNCHANGED <<now, lsn_counter, files, readers, next_segment_id, flushes, snapshots, counts, latest>>
    BY DEF remove_old, NextRemoved
<1>4. kept \in Seq(Meta) /\ Distinct(kept) /\ SeqIds(kept) = SeqIds(manifest) \ {id}
    BY <1>1, RemoveId
<1>5. left \in Seq(Nat) /\ Range(left) = Range(comp.ids) \ {id}
    BY <1>1, LeftIds
<1>6. id \in Range(comp.ids) /\ comp.ids[1] = id
    BY <1>1, <1>2 DEF Range
<1> HIDE DEF id, left, kept
<1>7. After("remove") = "delete"
    BY DEF After, FirstPhase, PhaseOrder
<1>8. /\ comp' \in CompState /\ comp'.todo = comp.todo /\ comp'.ids = left /\ comp'.out = comp.out
      /\ comp'.dead = comp.dead /\ comp'.next = comp.next /\ comp'.at = comp.at
      /\ comp'.phase = IF left = <<>> THEN "delete" ELSE "remove"
    BY <1>1, <1>2, <1>3, <1>5, <1>7 DEF CompState
<1> QED BY <1>1, <1>2, <1>3, <1>4, <1>5, <1>6, <1>8 DEF id, left, kept

\* An old segment leaves the manifest; its file stays.
LEMMA RemoveInv ==
    ASSUME CompactionInv, remove_old
    PROVE  CompactionInv'
<1> DEFINE id == Head(comp.ids)
           left == Retain(comp.ids, {i \in DOMAIN comp.ids : comp.ids[i] # id})
           kept == Retain(manifest, {i \in DOMAIN manifest : manifest[i].id # id})
<1>1. /\ comp.phase = "remove" /\ comp.dead # <<>>
      /\ Range(comp.dead) \cap SeqIds(manifest) \subseteq Range(comp.ids) /\ id \in Range(comp.ids)
      /\ manifest' = kept /\ kept \in Seq(Meta) /\ Distinct(kept) /\ SeqIds(kept) = SeqIds(manifest) \ {id}
      /\ left \in Seq(Nat) /\ Range(left) = Range(comp.ids) \ {id}
      /\ comp' \in CompState /\ comp'.todo = comp.todo /\ comp'.ids = left
      /\ comp'.dead = comp.dead /\ comp'.next = comp.next
      /\ comp'.phase = IF left = <<>> THEN "delete" ELSE "remove"
      /\ UNCHANGED <<now, lsn_counter, files, readers, next_segment_id, flushes, snapshots, counts, latest>>
    BY RemoveFacts
<1> HIDE DEF id, left, kept
<1>2. Types'
    BY <1>1 DEF CompactionInv, Types, TypeOK, CompState
<1>3. SegmentsOK'
    BY <1>1 DEF CompactionInv, SegmentsOK, ManifestHasFiles
<1>4. ~Unlocked /\ ~Unlocked' /\ PinnedIds' = PinnedIds
    BY <1>1 DEF Unlocked, PinnedIds
<1>5. Compacting' \subseteq Compacting /\ id \in Compacting
    BY <1>1 DEF Compacting
<1>6. IdsBelow'
    BY <1>1, <1>4 DEF CompactionInv, IdsBelow
<1>7. FlushesOK'
    BY <1>1, <1>4 DEF CompactionInv, FlushesOK
<1>8. CohortsOK'
    BY <1>1 DEF CompactionInv, CohortsOK
<1>9. PinsOK'
    BY <1>1, <1>4, <1>5 DEF CompactionInv, PinsOK
<1>10. PhaseOK'
    <2>1. Range(comp.dead) \cap SeqIds(kept) \subseteq Range(left)
        BY <1>1
    <2>2. left = <<>> => Range(left) = {}
        BY DEF Range
    <2> QED BY <1>1, <2>1, <2>2 DEF PhaseOK
<1> QED BY <1>2, <1>3, <1>6, <1>7, <1>8, <1>9, <1>10 DEF CompactionInv

\* Only files the manifest no longer lists go.
LEMMA DeleteInv ==
    ASSUME CompactionInv, delete_files
    PROVE  CompactionInv'
<1> DEFINE id == Head(comp.dead)
           rest == Tail(comp.dead)
<1>1. comp \in CompState /\ comp.dead \in Seq(Nat)
    BY DEF CompactionInv, Types, TypeOK
<1>2. comp.phase = "delete" /\ comp.dead # <<>> /\ Range(comp.dead) \cap SeqIds(manifest) = {}
    BY DEF delete_files, CompactionInv, PhaseOK
<1>3. /\ files' = [i \in DOMAIN files \ {id} |-> files[i]]
      /\ comp' = [comp EXCEPT !.dead = rest, !.phase = IF rest = <<>> THEN After(@) ELSE @]
      /\ UNCHANGED <<now, lsn_counter, manifest, readers, next_segment_id, flushes, snapshots, counts, latest>>
    BY DEF delete_files
<1>4. id \in Range(comp.dead) /\ rest \in Seq(Nat) /\ Range(rest) \subseteq Range(comp.dead)
    <2>1. /\ rest \in Seq(Nat) /\ DOMAIN rest = 1..(Len(comp.dead) - 1)
          /\ \A i \in DOMAIN rest : rest[i] = comp.dead[i + 1] /\ i + 1 \in DOMAIN comp.dead
        BY <1>1, <1>2
    <2>2. id \in Range(comp.dead)
        BY <1>1, <1>2 DEF Range
    <2> HIDE DEF rest
    <2> QED BY <2>1, <2>2 DEF Range
<1> HIDE DEF id, rest
<1>5. After("delete") = "next"
    BY DEF After, FirstPhase, PhaseOrder
<1>6. /\ comp' \in CompState /\ comp'.todo = comp.todo /\ comp'.ids = comp.ids
      /\ comp'.dead = rest /\ comp'.next = comp.next
      /\ comp'.phase = IF rest = <<>> THEN "next" ELSE "delete"
    BY <1>1, <1>2, <1>3, <1>4, <1>5 DEF CompState
<1>7. DOMAIN files' = DOMAIN files \ {id} /\ \A i \in DOMAIN files' : files'[i] = files[i]
    BY <1>3
<1>8. Types'
    BY <1>3, <1>6, <1>7 DEF CompactionInv, Types, TypeOK, CompState
<1>9. ~Unlocked /\ ~Unlocked' /\ PinnedIds' = PinnedIds /\ SeqIds(manifest)' = SeqIds(manifest)
    BY <1>2, <1>3, <1>6 DEF Unlocked, PinnedIds, SeqIds
<1>10. SegmentsOK'
    BY <1>2, <1>3, <1>4, <1>7, <1>9 DEF CompactionInv, SegmentsOK, ManifestHasFiles, Distinct
<1>11. Compacting' \subseteq Compacting
    BY <1>4, <1>6 DEF Compacting
<1>12. IdsBelow' /\ FlushesOK'
    BY <1>3, <1>6, <1>9 DEF CompactionInv, IdsBelow, FlushesOK
<1>13. CohortsOK'
    BY <1>4, <1>6, <1>9 DEF CompactionInv, CohortsOK
<1>14. PinsOK'
    BY <1>9, <1>11 DEF CompactionInv, PinsOK
<1>15. PhaseOK'
    BY <1>2, <1>4, <1>6, <1>9 DEF PhaseOK
<1> QED BY <1>8, <1>10, <1>12, <1>13, <1>14, <1>15 DEF CompactionInv

\* The store is opened again, at the end of a cycle or after a crash.
LEMMA ReopenInv ==
    ASSUME CompactionInv, comp' = Idle, flushes' = {}, snapshots' \subseteq snapshots,
           readers' = OpenReaders(manifest, files), next_segment_id' = NextId(manifest),
           UNCHANGED <<now, lsn_counter, files, manifest, latest>>, counts' \in CountsState
    PROVE  CompactionInv'
<1>1. manifest \in Seq(Meta)
    BY DEF CompactionInv, Types, TypeOK
<1>2. readers' \in Seq(Reader) /\ SeqIds(readers') = SeqIds(manifest)
    BY <1>1, OpenReadersFacts
<1>3. NextId(manifest) \in Nat /\ \A i \in SeqIds(manifest) : i < NextId(manifest)
    BY <1>1, NextIdAbove
<1>4. Unlocked' /\ Compacting' = {} /\ CohortsOK' /\ PhaseOK'
    BY IdleFacts DEF Unlocked, Compacting, CohortsOK, PhaseOK
<1>5. SeqIds(manifest)' = SeqIds(manifest) /\ PinnedIds' \subseteq PinnedIds
    BY DEF SeqIds, PinnedIds
<1>6. Types'
    BY <1>2, <1>3, IdleFacts DEF CompactionInv, Types, TypeOK
<1>7. SegmentsOK'
    BY <1>5 DEF CompactionInv, SegmentsOK, ManifestHasFiles, Distinct
<1>8. FlushesOK' /\ IdsBelow'
    BY <1>3, <1>4, <1>5 DEF FlushesOK, IdsBelow
<1>9. PinsOK'
    BY <1>2, <1>4, <1>5 DEF CompactionInv, PinsOK
<1> QED BY <1>4, <1>6, <1>7, <1>8, <1>9 DEF CompactionInv

\* The end of a cycle reopens the store.
LEMMA FinishInv ==
    ASSUME CompactionInv, finish_compaction
    PROVE  CompactionInv'
<1>1. flushes' = {}
    BY DEF finish_compaction, CompactionInv, FlushesOK, Unlocked
<1>2. counts' \in CountsState
    BY DEF finish_compaction, CompactionInv, Types
<1> QED BY <1>1, <1>2, ReopenInv DEF finish_compaction

\* So does a restart after a crash.
LEMMA CrashInv ==
    ASSUME CompactionInv, Crash
    PROVE  CompactionInv'
<1>1. counts' \in CountsState
    BY DEF Crash, CompactionInv, Types, CountsState
<1> QED BY <1>1, ReopenInv DEF Crash

\* Every step preserves the invariant.
LEMMA NextInv ==
    ASSUME CompactionInv, Serialized, [Next]_vars
    PROVE  CompactionInv'
<1>1. CASE Tick
    BY <1>1, TickInv
<1>2. CASE \E b \in Batches : prepare_flush(b)
    BY <1>2, PrepareInv
<1>3. CASE \E w \in flushes : execute(w) \/ finalize_segment(w) \/ abort_flush(w)
    BY <1>3, ExecuteInv, FinalizeInv, AbortInv
<1>4. CASE snapshot
    BY <1>4, SnapshotInv
<1>5. CASE \E s \in snapshots : drop_snapshot(s)
    BY <1>5, DropInv
<1>6. CASE compact_once
    BY <1>6, CompactOnceInv
<1>7. CASE \E c \in comp.todo : take_cohort(c)
    BY <1>7, TakeInv
<1>8. CASE add_output
    BY <1>8, AddInv
<1>9. CASE remove_old
    BY <1>9, RemoveInv
<1>10. CASE delete_files
    BY <1>10, DeleteInv
<1>11. CASE finish_compaction
    BY <1>11, FinishInv
<1>12. CASE Crash
    BY <1>12, CrashInv
<1>13. CASE UNCHANGED vars
    <2>1. UNCHANGED <<now, lsn_counter, files, manifest, readers, next_segment_id, flushes, snapshots,
                      comp, counts, latest>>
        BY <1>13 DEF vars, segVars
    <2>2. Types'
        BY <2>1 DEF CompactionInv, Types, TypeOK
    <2> QED BY <2>1, <2>2, FrameInv DEF CompactionInv
<1> QED BY <1>1, <1>2, <1>3, <1>4, <1>5, <1>6, <1>7, <1>8, <1>9, <1>10, <1>11, <1>12, <1>13 DEF Next
-----------------------------------------------------------------------------
(***************************************************************************)
(* Snapshots.                                                              *)
(***************************************************************************)

\* No step removes or rewrites the file of a live segment: a flush and an output
\* use fresh ids, and a file goes after its manifest entry.
LEMMA LiveFilesKept ==
    ASSUME CompactionInv, [Next]_vars
    PROVE  \A i \in SeqIds(manifest) : i \in DOMAIN files' /\ files'[i] = files[i]
<1>1. SeqIds(manifest) \subseteq DOMAIN files
    BY DEF CompactionInv, SegmentsOK, ManifestHasFiles
<1>2. CASE \E w \in flushes : execute(w)
    <2>1. PICK w \in flushes : files' = PutFile(files, w.id, w.ents)
        BY <1>2 DEF execute
    <2>2. w.id \notin SeqIds(manifest)
        BY DEF CompactionInv, FlushesOK
    <2> QED BY <1>1, <2>1, <2>2 DEF PutFile
<1>3. CASE \E c \in comp.todo : take_cohort(c)
    <2>1. UNCHANGED files \/ \E s : files' = PutFile(files, comp.next, s)
        BY <1>3 DEF take_cohort
    <2>2. ~Unlocked
        BY <1>3 DEF take_cohort, Unlocked
    <2>3. \A i \in SeqIds(manifest) : i \in Nat /\ i < comp.next
        BY <2>2, IdsFinite DEF CompactionInv, IdsBelow, Types, TypeOK
    <2>4. comp.next \notin SeqIds(manifest)
        BY <2>3
    <2>5. CASE UNCHANGED files
        BY <1>1, <2>5
    <2>6. ASSUME NEW s, files' = PutFile(files, comp.next, s)
          PROVE  \A i \in SeqIds(manifest) : i \in DOMAIN files' /\ files'[i] = files[i]
        BY <1>1, <2>4, <2>6 DEF PutFile
    <2> QED BY <2>1, <2>5, <2>6
<1>4. CASE delete_files
    <2>1. files' = [i \in DOMAIN files \ {Head(comp.dead)} |-> files[i]]
        BY <1>4 DEF delete_files
    <2>2. comp.dead \in Seq(Nat) /\ comp.dead # <<>> /\ Range(comp.dead) \cap SeqIds(manifest) = {}
        BY <1>4 DEF delete_files, CompactionInv, PhaseOK, Types, TypeOK
    <2>3. Head(comp.dead) \in Range(comp.dead)
        BY <2>2 DEF Range
    <2> QED BY <1>1, <2>1, <2>2, <2>3
<1>5. CASE UNCHANGED files
    BY <1>1, <1>5
<1>6. \/ UNCHANGED files \/ delete_files
      \/ \E w \in flushes : execute(w)
      \/ \E c \in comp.todo : take_cohort(c)
    BY DEF Next, vars, segVars, Tick, prepare_flush, finalize_segment, abort_flush, snapshot, drop_snapshot,
           compact_once, add_output, remove_old, finish_compaction, Crash
<1> QED BY <1>2, <1>3, <1>4, <1>5, <1>6

\* A read of a snapshot depends only on the files of its segments.
LEMMA SnapshotGetSame ==
    ASSUME NEW rs, NEW fs, NEW gs, NEW k,
           \A i \in DOMAIN rs : rs[i].id \in DOMAIN fs /\ rs[i].id \in DOMAIN gs
                                /\ gs[rs[i].id] = fs[rs[i].id]
    PROVE  SnapshotGet(rs, gs, k) = SnapshotGet(rs, fs, k)
<1>1. \A i \in DOMAIN rs : ReaderGet(rs[i], gs, k) = ReaderGet(rs[i], fs, k)
    BY DEF ReaderGet
<1> DEFINE A == {ReaderGet(rs[i], gs, k) : i \in DOMAIN rs}
           B == {ReaderGet(rs[i], fs, k) : i \in DOMAIN rs}
           pick(S) == LET found == S \ {NoEntry} IN
                      IF found = {} THEN NoEntry
                      ELSE IF IoError \in found THEN IoError
                      ELSE CHOOSE e \in found : \A f \in found : f.lsn <= e.lsn
<1>2. A = B
    BY <1>1
<1>3. SnapshotGet(rs, gs, k) = pick(A) /\ SnapshotGet(rs, fs, k) = pick(B)
    BY DEF SnapshotGet
<1> HIDE DEF A, B, pick
<1> QED BY <1>2, <1>3

\* The segments of a snapshot are live.
LEMMA PinnedLive ==
    ASSUME CompactionInv, NEW s \in snapshots, NEW i \in DOMAIN s.readers
    PROVE  s.readers[i].id \in SeqIds(manifest)
<1>1. s.readers[i].id \in SeqIds(s.readers)
    BY DEF SeqIds
<1>2. SeqIds(s.readers) \subseteq PinnedIds
    BY DEF PinnedIds
<1> QED BY <1>1, <1>2 DEF CompactionInv, PinsOK

\* No step changes what a live snapshot answers.
LEMMA SnapshotStep ==
    ASSUME CompactionInv, SnapshotReadable, [Next]_vars
    PROVE  SnapshotReadable'
<1>1. ASSUME NEW s \in snapshots, NEW k \in Keys
      PROVE  Visible(SnapshotGet(s.readers, files', k)) = s.seen[k]
    <2>1. \A i \in DOMAIN s.readers : s.readers[i].id \in SeqIds(manifest)
        BY PinnedLive
    <2>2. \A i \in DOMAIN s.readers :
             /\ s.readers[i].id \in DOMAIN files /\ s.readers[i].id \in DOMAIN files'
             /\ files'[s.readers[i].id] = files[s.readers[i].id]
        BY <2>1, LiveFilesKept DEF CompactionInv, SegmentsOK, ManifestHasFiles
    <2>3. SnapshotGet(s.readers, files', k) = SnapshotGet(s.readers, files, k)
        BY <2>2, SnapshotGetSame
    <2>4. Visible(SnapshotGet(s.readers, files, k)) = s.seen[k]
        BY DEF SnapshotReadable
    <2> QED BY <2>3, <2>4
<1>2. CASE snapshots' \subseteq snapshots
    BY <1>1, <1>2 DEF SnapshotReadable
<1>3. CASE snapshot
    <2> DEFINE n == [id |-> counts.snapshots + 1, readers |-> readers,
                     seen |-> [k \in Keys |-> Visible(SnapshotGet(readers, files, k))]]
    <2>1. snapshots' = snapshots \cup {n} /\ files' = files
        BY <1>3 DEF snapshot, segVars
    <2>2. ASSUME NEW k \in Keys PROVE Visible(SnapshotGet(n.readers, files, k)) = n.seen[k]
        OBVIOUS
    <2> HIDE DEF n
    <2>3. ASSUME NEW s \in snapshots', NEW k \in Keys
          PROVE  Visible(SnapshotGet(s.readers, files', k)) = s.seen[k]
        BY <1>1, <2>1, <2>2
    <2> QED BY <2>3 DEF SnapshotReadable
<1>4. snapshots' \subseteq snapshots \/ snapshot
    BY DEF Next, vars, Tick, prepare_flush, execute, finalize_segment, abort_flush, drop_snapshot,
           compact_once, take_cohort, add_output, remove_old, delete_files, finish_compaction, Crash
<1> QED BY <1>2, <1>3, <1>4
-----------------------------------------------------------------------------
(***************************************************************************)
(* The theorems.                                                           *)
(***************************************************************************)

\* The invariant holds throughout.
THEOREM Invariant ==
    ASSUME Serialized
    PROVE  Spec => []CompactionInv
<1>1. Init => CompactionInv
    BY InitInv
<1>2. CompactionInv /\ [Next]_vars => CompactionInv'
    BY NextInv
<1> QED BY <1>1, <1>2, PTL DEF Spec

\* Type correctness of segment files, manifest, readers and the compaction cycle.
THEOREM TypeCorrect ==
    ASSUME Serialized
    PROVE  Spec => []TypeOK
<1>1. CompactionInv => TypeOK
    BY DEF CompactionInv, Types
<1> QED BY <1>1, Invariant, PTL

\* collect_expired_cohort and compact_partial_cohort: between any two disk writes
\* of a cycle, and after a crash there, every segment in the manifest has its files.
THEOREM StoreReopens ==
    ASSUME Serialized
    PROVE  Spec => []ManifestHasFiles
<1>1. CompactionInv => ManifestHasFiles
    BY DEF CompactionInv, SegmentsOK
<1> QED BY <1>1, Invariant, PTL

\* prepare_flush and compact_cycle hand out ids that no live segment, no flush in
\* flight and no output has.
THEOREM IdsDistinct ==
    ASSUME Serialized
    PROVE  Spec => []SegmentIdsDistinct
<1>1. CompactionInv => SegmentIdsDistinct
    <2> SUFFICES ASSUME CompactionInv PROVE SegmentIdsDistinct
        OBVIOUS
    <2>1. Unlocked => comp.out = {}
        BY IdleFacts DEF CompactionInv, IdsBelow
    <2> QED BY <2>1 DEF CompactionInv, SegmentsOK, Distinct, FlushesOK, SegmentIdsDistinct
<1> QED BY <1>1, Invariant, PTL

\* Snapshot and pinned_ids: whatever flushes, compaction cycles and drops of other
\* snapshots do, a live snapshot answers every get as when it was taken.
THEOREM SnapshotsStable ==
    ASSUME Serialized
    PROVE  Spec => []SnapshotReadable
<1>1. Init => SnapshotReadable
    BY DEF Init, SnapshotReadable
<1>2. CompactionInv /\ SnapshotReadable /\ [Next]_vars => SnapshotReadable'
    BY SnapshotStep
<1> QED BY <1>1, <1>2, Invariant, PTL DEF Spec
-----------------------------------------------------------------------------
(***************************************************************************)
(* What the store would answer if it were opened on given files.           *)
(***************************************************************************)
HoldersOf(metas, fs, k) == {i \in DOMAIN metas : fs[metas[i].id][k] # NoEntry}

\* Opened again, the store answers from the last segment that holds the key.
LEMMA OpenedGet ==
    ASSUME NEW metas \in Seq(Meta), NEW fs, SeqIds(metas) \subseteq DOMAIN fs, NEW k \in Keys
    PROVE  LET H == HoldersOf(metas, fs, k)
           IN  SegmentGet(OpenReaders(metas, fs), fs, k) =
                 IF H = {} THEN NoEntry ELSE fs[metas[Max(H)].id][k]
<1> DEFINE rs == OpenReaders(metas, fs)
           H == HoldersOf(metas, fs, k)
           hits == {i \in DOMAIN rs : ReaderGet(rs[i], fs, k) # NoEntry}
<1>1. \A i \in DOMAIN metas : metas[i].id \in DOMAIN fs
    BY DEF SeqIds
<1>2. DOMAIN rs = DOMAIN metas
      /\ \A i \in DOMAIN metas : rs[i] = OpenReader(metas[i].id, fs)
    BY DEF OpenReaders
<1>3. \A i \in DOMAIN metas : ReaderGet(rs[i], fs, k) = fs[metas[i].id][k]
    BY <1>1, <1>2 DEF OpenReader, ReaderGet, Live
<1>4. hits = H
    BY <1>2, <1>3 DEF HoldersOf
<1>5. SegmentGet(rs, fs, k) = IF hits = {} THEN NoEntry ELSE ReaderGet(rs[Max(hits)], fs, k)
    BY DEF SegmentGet
<1>6. H \in SUBSET Nat /\ IsFiniteSet(H) /\ H \subseteq DOMAIN metas
    <2>1. H \subseteq DOMAIN metas /\ DOMAIN metas \subseteq Nat
        BY DEF HoldersOf
    <2> QED BY <2>1, IdsFinite, FS_Subset
<1>7. H # {} => Max(H) \in DOMAIN metas
    BY <1>6, FiniteMax
<1> HIDE DEF H, hits, rs
<1> QED BY <1>3, <1>4, <1>5, <1>7 DEF H, rs

\* The last holder, when there is one.
LEMMA LastHolder ==
    ASSUME NEW metas \in Seq(Meta), NEW fs, NEW k, NEW p \in HoldersOf(metas, fs, k)
    PROVE  LET q == Max(HoldersOf(metas, fs, k))
           IN  /\ q \in HoldersOf(metas, fs, k) /\ q \in DOMAIN metas /\ q \in Nat
               /\ \A i \in HoldersOf(metas, fs, k) : i \in Nat /\ i <= q
<1>1. HoldersOf(metas, fs, k) \subseteq DOMAIN metas /\ DOMAIN metas \subseteq Nat
    BY DEF HoldersOf
<1>2. IsFiniteSet(HoldersOf(metas, fs, k))
    BY <1>1, IdsFinite, FS_Subset
<1> QED BY <1>1, <1>2, FiniteMax

\* Of a manifest only the files it lists matter.
LEMMA SameFilesSameGet ==
    ASSUME NEW metas \in Seq(Meta), NEW fs, NEW gs, SeqIds(metas) \subseteq DOMAIN fs,
           \A i \in SeqIds(metas) : i \in DOMAIN gs /\ gs[i] = fs[i], NEW k \in Keys
    PROVE  SegmentGet(OpenReaders(metas, gs), gs, k) = SegmentGet(OpenReaders(metas, fs), fs, k)
<1> DEFINE H == HoldersOf(metas, fs, k)
           G == HoldersOf(metas, gs, k)
<1>1. \A i \in DOMAIN metas : metas[i].id \in SeqIds(metas)
    BY DEF SeqIds
<1>2. G = H
    BY <1>1 DEF HoldersOf
<1>3. /\ SegmentGet(OpenReaders(metas, fs), fs, k) = IF H = {} THEN NoEntry ELSE fs[metas[Max(H)].id][k]
      /\ SegmentGet(OpenReaders(metas, gs), gs, k) = IF G = {} THEN NoEntry ELSE gs[metas[Max(G)].id][k]
    BY OpenedGet
<1>4. H # {} => Max(H) \in DOMAIN metas
    BY LastHolder
<1> HIDE DEF H, G
<1> QED BY <1>1, <1>2, <1>3, <1>4

\* A segment that does not hold the key, added at the end, changes no read of it;
\* one that does answers it.
LEMMA AppendedGet ==
    ASSUME NEW metas \in Seq(Meta), NEW m \in Meta, NEW fs,
           SeqIds(metas) \subseteq DOMAIN fs, m.id \in DOMAIN fs, NEW k \in Keys
    PROVE  LET a == Append(metas, m)
           IN  SegmentGet(OpenReaders(a, fs), fs, k) =
                 IF fs[m.id][k] = NoEntry THEN SegmentGet(OpenReaders(metas, fs), fs, k) ELSE fs[m.id][k]
<1> DEFINE a == Append(metas, m)
           n == Len(metas) + 1
           H == HoldersOf(metas, fs, k)
           G == HoldersOf(a, fs, k)
<1>1. /\ a \in Seq(Meta) /\ n \in Nat /\ DOMAIN metas = 1..Len(metas) /\ DOMAIN a = 1..n
      /\ \A i \in DOMAIN metas : a[i] = metas[i] /\ i \in DOMAIN a /\ i < n
      /\ a[n] = m /\ n \in DOMAIN a /\ \A i \in DOMAIN a : i \in Nat /\ i <= n /\ (i # n => i \in DOMAIN metas)
    OBVIOUS
<1>2. SeqIds(a) = SeqIds(metas) \cup {m.id}
    BY AppendIds
<1> HIDE DEF a, n
<1>3. /\ SegmentGet(OpenReaders(metas, fs), fs, k) = IF H = {} THEN NoEntry ELSE fs[metas[Max(H)].id][k]
      /\ SegmentGet(OpenReaders(a, fs), fs, k) = IF G = {} THEN NoEntry ELSE fs[a[Max(G)].id][k]
    BY <1>1, <1>2, OpenedGet
<1>4. CASE fs[m.id][k] = NoEntry
    <2>1. G = H
        BY <1>1, <1>4 DEF HoldersOf
    <2>2. H # {} => Max(H) \in DOMAIN metas
        BY LastHolder
    <2> HIDE DEF H, G
    <2> QED BY <1>1, <1>3, <1>4, <2>1, <2>2 DEF a
<1>5. CASE fs[m.id][k] # NoEntry
    <2>1. n \in G
        BY <1>1, <1>5 DEF HoldersOf
    <2>2. Max(G) \in DOMAIN a /\ n <= Max(G)
        BY <1>1, <2>1, LastHolder
    <2>3. Max(G) = n
        BY <1>1, <2>2
    <2> HIDE DEF G
    <2> QED BY <1>1, <1>3, <1>5, <2>1, <2>3 DEF a
<1> QED BY <1>4, <1>5

\* manifest.remove_segments keeps the other entries in order.
LEMMA RemovedAt ==
    ASSUME NEW metas \in Seq(Meta), NEW id, NEW I \in SUBSET (DOMAIN metas),
           \A i \in DOMAIN metas : i \in I <=> metas[i].id # id
    PROVE  LET kept == Retain(metas, I)
           IN  /\ \A x \in DOMAIN kept : /\ Nth(I, x) \in DOMAIN metas /\ metas[Nth(I, x)].id # id
                                         /\ kept[x] = metas[Nth(I, x)]
               /\ \A i \in DOMAIN metas : metas[i].id # id => \E x \in DOMAIN kept : Nth(I, x) = i
               /\ \A x, y \in DOMAIN kept : x \in Nat /\ (x < y => Nth(I, x) < Nth(I, y))
<1> DEFINE kept == Retain(metas, I)
<1>2. /\ kept \in Seq(Meta)
      /\ \A x \in DOMAIN kept : Nth(I, x) \in I /\ kept[x] = metas[Nth(I, x)]
      /\ \A i \in I : Rank(I, i) \in DOMAIN kept /\ Nth(I, Rank(I, i)) = i
      /\ \A x, y \in DOMAIN kept : x < y => Nth(I, x) < Nth(I, y)
    BY RetainFacts
<1>3. \A x \in DOMAIN kept : x \in Nat
    BY <1>2
<1> HIDE DEF kept
<1> QED BY <1>2, <1>3 DEF kept

Without(metas, id) == Retain(metas, {i \in DOMAIN metas : metas[i].id # id})

\* Removing a segment that is not the last holder of a key changes no read of the
\* key; removing its only holder leaves none.
LEMMA RemovedGet ==
    ASSUME NEW metas \in Seq(Meta), NEW id, NEW fs, SeqIds(metas) \subseteq DOMAIN fs, NEW k \in Keys,
           Distinct(metas)
    PROVE  /\ \A q \in HoldersOf(metas, fs, k) :
                 metas[q].id # id /\ (\A i \in HoldersOf(metas, fs, k) : i <= q) =>
                     SegmentGet(OpenReaders(Without(metas, id), fs), fs, k) = fs[metas[q].id][k]
           /\ (\A i \in HoldersOf(metas, fs, k) : metas[i].id = id) =>
                 SegmentGet(OpenReaders(Without(metas, id), fs), fs, k) = NoEntry
<1> DEFINE I == {i \in DOMAIN metas : metas[i].id # id}
           H == HoldersOf(metas, fs, k)
           kept == Retain(metas, I)
           G == HoldersOf(kept, fs, k)
<1>1. kept \in Seq(Meta) /\ SeqIds(kept) = SeqIds(metas) \ {id}
    BY RemoveId
<1>0. I \in SUBSET (DOMAIN metas) /\ \A i \in DOMAIN metas : i \in I <=> metas[i].id # id
    OBVIOUS
<1> HIDE DEF I
<1>2. /\ \A x \in DOMAIN kept : Nth(I, x) \in DOMAIN metas /\ metas[Nth(I, x)].id # id /\ kept[x] = metas[Nth(I, x)]
      /\ \A i \in DOMAIN metas : metas[i].id # id => \E x \in DOMAIN kept : Nth(I, x) = i
      /\ \A x, y \in DOMAIN kept : x \in Nat /\ (x < y => Nth(I, x) < Nth(I, y))
    BY <1>0, RemovedAt
<1> HIDE DEF kept
<1>3. SegmentGet(OpenReaders(kept, fs), fs, k) = IF G = {} THEN NoEntry ELSE fs[kept[Max(G)].id][k]
    BY <1>1, OpenedGet
<1>4. \A x \in DOMAIN kept : x \in G <=> Nth(I, x) \in H
    BY <1>2 DEF HoldersOf
<1>5. G \subseteq DOMAIN kept /\ H \subseteq DOMAIN metas /\ DOMAIN metas \subseteq Nat
    BY DEF HoldersOf
<1>6. ASSUME NEW q \in H, metas[q].id # id, \A i \in H : i <= q
      PROVE  SegmentGet(OpenReaders(kept, fs), fs, k) = fs[metas[q].id][k]
    <2>1. PICK x \in DOMAIN kept : Nth(I, x) = q
        BY <1>2, <1>5, <1>6
    <2>2. x \in G
        BY <1>4, <2>1
    <2>3. Max(G) \in G /\ Max(G) \in DOMAIN kept /\ Max(G) \in Nat /\ x <= Max(G)
        BY <1>1, <2>2, LastHolder
    <2>4. Max(G) = x
        <3>1. Nth(I, Max(G)) \in H /\ Nth(I, Max(G)) <= q
            BY <1>4, <1>6, <2>3
        <3>2. Nth(I, Max(G)) \in Nat /\ q \in Nat
            BY <1>5, <3>1
        <3>3. x < Max(G) => q < Nth(I, Max(G))
            BY <1>2, <2>1, <2>3
        <3>4. x \in Nat
            BY <1>2
        <3> QED BY <2>3, <3>1, <3>2, <3>3, <3>4
    <2> HIDE DEF G
    <2> QED BY <1>2, <1>3, <2>1, <2>2, <2>4
<1>7. ASSUME \A i \in H : metas[i].id = id
      PROVE  SegmentGet(OpenReaders(kept, fs), fs, k) = NoEntry
    <2>1. G = {}
        BY <1>2, <1>4, <1>5, <1>7
    <2> HIDE DEF G
    <2> QED BY <1>3, <2>1
<1> QED BY <1>6, <1>7 DEF I, kept, Without
-----------------------------------------------------------------------------
(***************************************************************************)
(* The inductive invariant of reads, on top of CompactionInv.              *)
(***************************************************************************)
VersionsIn(fs, ws, k) == ({fs[i][k] : i \in DOMAIN fs} \cup {w.ents[k] : w \in ws}) \ {NoEntry}

\* No two versions of a key have the same LSN, whatever files hold them, and the
\* next flush writes a higher one.
LsnsOK ==
    \A k \in Keys : \A e, f \in VersionsIn(files, flushes, k) :
        e.lsn < lsn_counter + k /\ (e.lsn = f.lsn => e = f)

\* A flush past phase 2 finds its file as it wrote it.
WrittenOK == \A w \in flushes : w.written => w.id \in DOMAIN files /\ files[w.id] = w.ents

MetasDie(metas, fs) ==
    \A p \in DOMAIN metas : \A k \in Live(fs[metas[p].id]) : DeathTimeFor(fs[metas[p].id][k]) <= metas[p].death

CohortsDie(todo, fs) ==
    \A c \in todo : \A i \in Range(c.ids) : \A k \in Live(fs[i]) : DeathTimeFor(fs[i][k]) <= c.death

\* The death time of a segment and of a cohort is past that of all their records.
DeathsOK == MetasDie(manifest, files) /\ CohortsDie(comp.todo, files)

Rewriting == comp.phase \in {"add", "remove"}

\* Cohorts are in manifest order.
OrdersOK ==
    /\ \A c \in comp.todo : InOrder(c.ids, manifest)
    /\ Rewriting => InOrder(comp.ids, manifest) /\ InOrder(comp.dead, manifest)

\* The segments still to be removed are live and are the last ones of the cohort,
\* whose files are all there.
RemovalOK ==
    Rewriting =>
        /\ Range(comp.ids) \subseteq SeqIds(manifest) \cap Range(comp.dead)
        /\ Range(comp.dead) \subseteq DOMAIN files
        /\ \A i, j \in DOMAIN comp.dead :
              i < j /\ comp.dead[i] \in Range(comp.ids) => comp.dead[j] \in Range(comp.ids)

Goes(e, at) == e = NoEntry \/ e.op # "Put" \/ DeathTimeFor(e) <= at

OutputOf(out, dead, fs, at) ==
    \/ out = {} /\ \A k \in Keys : Goes(Merged(dead, fs)[k], at)
    \/ \E id \in DOMAIN fs \ Range(dead) :
          out = {id} /\ \A k \in Keys :
             fs[id][k] = IF Goes(Merged(dead, fs)[k], at) THEN NoEntry ELSE Merged(dead, fs)[k]

\* The output holds what the cohort's newest entries leave, and once listed is the
\* last segment of the manifest.
OutputOK ==
    /\ Rewriting => OutputOf(comp.out, comp.dead, files, comp.at)
    /\ comp.phase = "remove" =>
          /\ comp.out \subseteq SeqIds(manifest)
          /\ \A p, q \in DOMAIN manifest : manifest[q].id \in comp.out => p <= q

ReadsInv == LsnsOK /\ WrittenOK /\ DeathsOK /\ OrdersOK /\ RemovalOK /\ OutputOK

\* The initial state: nothing on disk.
LEMMA InitReads == Init => ReadsInv
<1> SUFFICES ASSUME Init PROVE ReadsInv
    OBVIOUS
<1>1. comp.todo = {} /\ ~Rewriting /\ comp.phase # "remove"
    BY IdleFacts DEF Init, Rewriting
<1>2. DOMAIN files = {} /\ DOMAIN manifest = {} /\ flushes = {}
    BY DEF Init
<1> QED BY <1>1, <1>2 DEF ReadsInv, LsnsOK, VersionsIn, WrittenOK, DeathsOK, MetasDie, CohortsDie,
                          OrdersOK, RemovalOK, OutputOK

\* A step that adds no version.
LEMMA LsnsKept ==
    ASSUME LsnsOK, lsn_counter' = lsn_counter,
           \A k \in Keys : VersionsIn(files', flushes', k) \subseteq VersionsIn(files, flushes, k)
    PROVE  LsnsOK'
BY DEF LsnsOK

\* A step that leaves segments and cycle alone, and begins no flush.
LEMMA FrameReads ==
    ASSUME ReadsInv, UNCHANGED <<files, manifest, comp, lsn_counter>>, flushes' \subseteq flushes
    PROVE  ReadsInv'
<1>1. LsnsOK'
    <2>1. \A k \in Keys : VersionsIn(files', flushes', k) \subseteq VersionsIn(files, flushes, k)
        BY DEF VersionsIn
    <2> QED BY <2>1, LsnsKept DEF ReadsInv
<1>2. WrittenOK' /\ DeathsOK'
    BY DEF ReadsInv, WrittenOK, DeathsOK
<1>3. OrdersOK'
    BY DEF ReadsInv, OrdersOK, Rewriting
<1>4. SeqIds(manifest)' = SeqIds(manifest)
    BY DEF SeqIds
<1>5. RemovalOK' /\ OutputOK'
    BY <1>4 DEF ReadsInv, RemovalOK, OutputOK, Rewriting
<1> QED BY <1>1, <1>2, <1>3, <1>5 DEF ReadsInv

\* An idle store has no cohort to keep in order.
LEMMA IdleReads ==
    ASSUME comp' = Idle
    PROVE  CohortsDie(comp'.todo, files') /\ OrdersOK' /\ RemovalOK' /\ OutputOK'
<1>1. comp'.todo = {} /\ comp'.phase = "idle"
    BY IdleFacts
<1> QED BY <1>1 DEF CohortsDie, OrdersOK, RemovalOK, OutputOK, Rewriting

\* The versions of a key are entries.
LEMMA VersionsTyped ==
    ASSUME CompactionInv, NEW k \in Keys, NEW e \in VersionsIn(files, flushes, k)
    PROVE  e \in Entry /\ e.lsn \in Nat
<1>1. \A i \in DOMAIN files : files[i][k] \in Entry \cup {NoEntry}
    BY EntryOf DEF CompactionInv, Types, TypeOK
<1>2. \A w \in flushes : w.ents \in Entries
    BY DEF CompactionInv, Types, TypeOK, Work
<1>3. \A w \in flushes : w.ents[k] \in Entry \cup {NoEntry}
    BY <1>2, EntryOf
<1>4. e \in Entry
    BY <1>1, <1>3 DEF VersionsIn
<1> QED BY <1>4 DEF Entry

\* prepare_flush: the new entries have LSNs above all others of their keys.
LEMMA PrepareReads ==
    ASSUME CompactionInv, ReadsInv, NEW b \in Batches, prepare_flush(b)
    PROVE  ReadsInv'
<1> DEFINE w == [id |-> next_segment_id, ents |-> BatchEntries(b), written |-> FALSE]
<1>1. /\ flushes' = flushes \cup {w} /\ lsn_counter' = lsn_counter + Max(Keys)
      /\ Unlocked /\ UNCHANGED <<files, manifest, comp>>
    BY DEF prepare_flush
<1>2. w.ents = BatchEntries(b) /\ w.written = FALSE
    OBVIOUS
<1> HIDE DEF w
<1>3. lsn_counter \in Nat /\ Max(Keys) \in Nat /\ Max(Keys) > 0 /\ \A k \in Keys : k \in Nat
    <2>1. /\ Keys \in SUBSET Nat /\ Keys # {} /\ IsFiniteSet(Keys)
          /\ \A k \in Keys : k \in Nat /\ k > 0
        BY ConstantsAssumption
    <2>2. Max(Keys) \in Keys
        BY <2>1, FiniteMax
    <2> QED BY <2>1, <2>2 DEF CompactionInv, Types, TypeOK
<1>4. LsnsOK'
    <2> SUFFICES ASSUME NEW k \in Keys, NEW e \in VersionsIn(files', flushes', k),
                        NEW f \in VersionsIn(files', flushes', k)
                 PROVE  e.lsn < lsn_counter' + k /\ (e.lsn = f.lsn => e = f)
        BY DEF LsnsOK
    <2>1. \A x \in VersionsIn(files, flushes, k) : x.lsn \in Nat /\ x.lsn < lsn_counter + k
        BY VersionsTyped DEF ReadsInv, LsnsOK
    <2>2. \A x, y \in VersionsIn(files, flushes, k) : x.lsn = y.lsn => x = y
        BY DEF ReadsInv, LsnsOK
    <2>3. \A x \in VersionsIn(files', flushes', k) :
             x \in VersionsIn(files, flushes, k) \/ (x = BatchEntries(b)[k] /\ x # NoEntry)
        BY <1>1, <1>2 DEF VersionsIn
    <2>4. BatchEntries(b)[k] # NoEntry => BatchEntries(b)[k].lsn = lsn_counter + k
        BY DEF BatchEntries
    <2>5. \A x \in VersionsIn(files', flushes', k) :
             /\ x.lsn \in Nat /\ x.lsn <= lsn_counter + k
             /\ x.lsn < lsn_counter + k => x \in VersionsIn(files, flushes, k)
             /\ x.lsn = lsn_counter + k => x = BatchEntries(b)[k]
        BY <1>3, <2>1, <2>3, <2>4
    <2>6. e.lsn < lsn_counter' + k
        <3>1. e.lsn \in Nat /\ e.lsn <= lsn_counter + k /\ k \in Nat
            BY <1>3, <2>5
        <3> QED BY <1>1, <1>3, <3>1
    <2>7. e.lsn = f.lsn => e = f
        BY <1>3, <2>2, <2>5
    <2> QED BY <2>6, <2>7
<1>5. WrittenOK'
    BY <1>1, <1>2 DEF ReadsInv, WrittenOK
<1>6. comp' = Idle
    BY <1>1 DEF CompactionInv, IdsBelow
<1>7. DeathsOK' /\ OrdersOK' /\ RemovalOK' /\ OutputOK'
    BY <1>1, <1>6, IdleReads DEF ReadsInv, DeathsOK
<1> QED BY <1>4, <1>5, <1>7 DEF ReadsInv

\* execute: what was in memory is on disk, under an id no live segment has.
LEMMA ExecuteReads ==
    ASSUME CompactionInv, ReadsInv, NEW w \in flushes, execute(w)
    PROVE  ReadsInv'
<1> DEFINE v == [w EXCEPT !.written = TRUE]
<1>1. w \in Work
    BY DEF CompactionInv, Types, TypeOK
<1>2. v.id = w.id /\ v.ents = w.ents
    BY <1>1 DEF Work
<1>3. /\ flushes' = (flushes \ {w}) \cup {v} /\ files' = PutFile(files, w.id, w.ents)
      /\ UNCHANGED <<manifest, comp, lsn_counter>>
    BY DEF execute
<1> HIDE DEF v
<1>4. /\ DOMAIN files' = DOMAIN files \cup {w.id} /\ files'[w.id] = w.ents
      /\ \A i \in DOMAIN files : i # w.id => files'[i] = files[i]
    BY <1>3 DEF PutFile
<1>5. LsnsOK'
    <2>1. \A k \in Keys : VersionsIn(files', flushes', k) \subseteq VersionsIn(files, flushes, k)
        BY <1>2, <1>3, <1>4 DEF VersionsIn
    <2> QED BY <1>3, <2>1, LsnsKept DEF ReadsInv
<1>6. WrittenOK'
    <2>1. \A u \in flushes : u # w => u.id # w.id
        BY DEF CompactionInv, FlushesOK
    <2> QED BY <1>2, <1>3, <1>4, <2>1 DEF ReadsInv, WrittenOK
<1>7. comp' = Idle
    BY <1>3 DEF CompactionInv, FlushesOK, IdsBelow
<1>8. \A p \in DOMAIN manifest : manifest[p].id \in DOMAIN files /\ manifest[p].id # w.id
    BY DEF CompactionInv, FlushesOK, SegmentsOK, ManifestHasFiles, SeqIds
<1>9. MetasDie(manifest', files')
    BY <1>3, <1>4, <1>8 DEF ReadsInv, DeathsOK, MetasDie
<1> QED BY <1>5, <1>6, <1>7, <1>9, IdleReads DEF ReadsInv, DeathsOK

\* Listing a segment under the metadata SegmentWriter::flush wrote for it.
LEMMA AppendDies ==
    ASSUME NEW metas \in Seq(Meta), NEW fs, NEW id \in Nat, fs[id] \in Entries, Live(fs[id]) # {},
           MetasDie(metas, fs)
    PROVE  MetasDie(Append(metas, MetaOf(id, fs[id])), fs)
<1> DEFINE m == MetaOf(id, fs[id])
           a == Append(metas, m)
<1>1. m \in Meta /\ m.id = id /\ \A k \in Live(fs[id]) : DeathTimeFor(fs[id][k]) <= m.death
    BY MetaTyped
<1> HIDE DEF m
<1>2. \A p \in DOMAIN a : (p \in DOMAIN metas /\ a[p] = metas[p]) \/ a[p] = m
    BY <1>1
<1> HIDE DEF a
<1>3. MetasDie(a, fs)
    BY <1>1, <1>2 DEF MetasDie
<1> QED BY <1>3 DEF a, m

\* finalize_segment: the file is listed as it was written.
LEMMA FinalizeReads ==
    ASSUME CompactionInv, ReadsInv, NEW w \in flushes, finalize_segment(w)
    PROVE  ReadsInv'
<1>1. w.id \in Nat /\ w.ents \in Entries /\ Live(w.ents) # {} /\ manifest \in Seq(Meta)
    BY DEF CompactionInv, Types, TypeOK, Work, FlushesOK
<1>2. /\ flushes' \subseteq flushes /\ manifest' = Append(manifest, MetaOf(w.id, w.ents)) /\ w.written
      /\ Unlocked /\ UNCHANGED <<files, comp, lsn_counter>>
    BY DEF finalize_segment
<1>3. files[w.id] = w.ents
    BY <1>2 DEF ReadsInv, WrittenOK
<1>4. MetasDie(manifest', files')
    BY <1>1, <1>2, <1>3, AppendDies DEF ReadsInv, DeathsOK
<1>5. comp' = Idle
    BY <1>2 DEF CompactionInv, IdsBelow
<1>6. LsnsOK' /\ WrittenOK'
    <2>1. \A k \in Keys : VersionsIn(files', flushes', k) \subseteq VersionsIn(files, flushes, k)
        BY <1>2 DEF VersionsIn
    <2> QED BY <1>2, <2>1, LsnsKept DEF ReadsInv, WrittenOK
<1> QED BY <1>4, <1>5, <1>6, IdleReads DEF ReadsInv, DeathsOK

\* compact_once: the cohorts are in manifest order and outlive their segments.
LEMMA CompactOnceReads ==
    ASSUME CompactionInv, ReadsInv, compact_once
    PROVE  ReadsInv'
<1> DEFINE todo == IdentifyCohorts(manifest, PinnedIds)
<1>1. /\ comp' = [Idle EXCEPT !.phase = "next", !.todo = todo, !.next = CompactionId(manifest), !.at = now]
      /\ UNCHANGED <<lsn_counter, files, manifest, flushes>>
    BY DEF compact_once, segVars
<1>2. manifest \in Seq(Meta) /\ Distinct(manifest)
    BY DEF CompactionInv, Types, TypeOK, SegmentsOK
<1>3. \A c \in todo :
        /\ Range(c.ids) \subseteq SeqIds(manifest) /\ InOrder(c.ids, manifest)
        /\ \A p \in DOMAIN manifest : manifest[p].id \in Range(c.ids) => manifest[p].death <= c.death
    BY <1>2, CohortFacts
<1>4. todo \subseteq Cohort
    BY <1>2, CohortFacts
<1> HIDE DEF todo
<1>5. comp'.phase = "next" /\ comp'.todo = todo
    BY <1>1 DEF Idle
<1>6. LsnsOK' /\ WrittenOK'
    BY <1>1 DEF ReadsInv, LsnsOK, WrittenOK
<1>7. CohortsDie(todo, files)
    <2> SUFFICES ASSUME NEW c \in todo, NEW i \in Range(c.ids), NEW k \in Live(files[i])
                 PROVE  DeathTimeFor(files[i][k]) <= c.death
        BY DEF CohortsDie
    <2>1. PICK p \in DOMAIN manifest : manifest[p].id = i
        BY <1>3 DEF SeqIds
    <2>2. DeathTimeFor(files[i][k]) <= manifest[p].death
        BY <2>1 DEF ReadsInv, DeathsOK, MetasDie
    <2>3. manifest[p].death \in Nat /\ manifest[p].death <= c.death /\ c.death \in Nat
        BY <1>2, <1>3, <1>4, <2>1, MetaAt DEF Cohort
    <2>4. files[i] \in Entries
        BY <2>1 DEF CompactionInv, SegmentsOK, ManifestHasFiles, SeqIds, Types, TypeOK
    <2>5. DeathTimeFor(files[i][k]) \in Nat
        BY <2>4, EntryOf, EntryTimes DEF Live
    <2> QED BY <2>2, <2>3, <2>5
<1>8. DeathsOK'
    BY <1>1, <1>5, <1>7 DEF ReadsInv, DeathsOK
<1>9. OrdersOK' /\ RemovalOK' /\ OutputOK'
    BY <1>1, <1>3, <1>5 DEF OrdersOK, RemovalOK, OutputOK, Rewriting
<1> QED BY <1>6, <1>8, <1>9 DEF ReadsInv

\* The merge of a cohort depends only on the files of its segments.
LEMMA MergedSame ==
    ASSUME NEW ids, NEW fs, NEW gs, \A i \in DOMAIN ids : gs[ids[i]] = fs[ids[i]]
    PROVE  Merged(ids, gs) = Merged(ids, fs)
<1> DEFINE F(k) == {fs[ids[i]][k] : i \in DOMAIN ids} \ {NoEntry}
           G(k) == {gs[ids[i]][k] : i \in DOMAIN ids} \ {NoEntry}
           top(found) == IF found = {} THEN NoEntry ELSE CHOOSE e \in found : \A f \in found : f.lsn <= e.lsn
<1>1. \A k \in Keys : F(k) = G(k)
    OBVIOUS
<1>2. Merged(ids, gs) = [k \in Keys |-> top(G(k))] /\ Merged(ids, fs) = [k \in Keys |-> top(F(k))]
    BY DEF Merged
<1> HIDE DEF F, G, top
<1> QED BY <1>1, <1>2

\* What a cohort merges to, unless it goes, is what compaction writes.
LEMMA SurvivorsAre ==
    ASSUME NEW fs, NEW ids \in Seq(Nat), Range(ids) \subseteq DOMAIN fs,
           \A i \in DOMAIN fs : fs[i] \in Entries, NEW at \in Nat, NEW k \in Keys
    PROVE  LET m == Merged(ids, fs)[k] IN
           /\ Survivors(ids, fs, at)[k] = IF Goes(m, at) THEN NoEntry ELSE m
           /\ ~Goes(m, at) => m # NoEntry
<1> DEFINE m == Merged(ids, fs)[k]
<1>1. m \in Entry \cup {NoEntry}
    BY MergedFacts
<1>2. m # NoEntry => DeathTimeFor(m) \in Nat
    BY <1>1, EntryTimes
<1>3. Survivors(ids, fs, at)[k] =
        IF m # NoEntry /\ m.op = "Put" /\ DeathTimeFor(m) > at THEN m ELSE NoEntry
    BY DEF Survivors
<1> HIDE DEF m
<1>4. ~Goes(m, at) <=> m # NoEntry /\ m.op = "Put" /\ DeathTimeFor(m) > at
    BY <1>2 DEF Goes
<1> QED BY <1>3, <1>4 DEF m

\* A segment list the manifest lists, and its files, when live files are kept.
LEMMA ListedFiles ==
    ASSUME CompactionInv, [Next]_vars, NEW ids, Range(ids) \subseteq SeqIds(manifest)
    PROVE  \A i \in DOMAIN ids : ids[i] \in DOMAIN files /\ ids[i] \in DOMAIN files' /\ files'[ids[i]] = files[ids[i]]
<1>1. \A i \in DOMAIN ids : ids[i] \in SeqIds(manifest)
    BY DEF Range
<1> QED BY <1>1, LiveFilesKept DEF CompactionInv, SegmentsOK, ManifestHasFiles

\* While the manifest stays, the death times of segments and cohorts hold.
LEMMA DeathsKept ==
    ASSUME CompactionInv, ReadsInv, [Next]_vars, UNCHANGED manifest, comp'.todo \subseteq comp.todo
    PROVE  DeathsOK'
<1>1. \A i \in SeqIds(manifest) : files'[i] = files[i]
    BY LiveFilesKept
<1>2. \A p \in DOMAIN manifest : manifest[p].id \in SeqIds(manifest)
    BY DEF SeqIds
<1>3. \A c \in comp.todo : Range(c.ids) \subseteq SeqIds(manifest)
    BY DEF CompactionInv, CohortsOK
<1>4. MetasDie(manifest', files')
    BY <1>1, <1>2 DEF ReadsInv, DeathsOK, MetasDie
<1>5. CohortsDie(comp'.todo, files')
    <2> SUFFICES ASSUME NEW c \in comp'.todo, NEW i \in Range(c.ids), NEW k \in Live(files'[i])
                 PROVE  DeathTimeFor(files'[i][k]) <= c.death
        BY DEF CohortsDie
    <2>1. c \in comp.todo /\ files'[i] = files[i]
        BY <1>1, <1>3
    <2> QED BY <2>1 DEF ReadsInv, DeathsOK, CohortsDie
<1> QED BY <1>4, <1>5 DEF DeathsOK

\* The head of the cohort loop: what the output holds, and when there is none.
LEMMA TakeReads ==
    ASSUME CompactionInv, ReadsInv, NEW c \in comp.todo, take_cohort(c), [Next]_vars
    PROVE  ReadsInv'
<1> DEFINE s == Survivors(c.ids, files, comp.at)
<1>1. /\ comp.phase = "next" /\ comp.next \in Nat /\ c.ids \in Seq(Nat) /\ c.ids # <<>>
      /\ Range(c.ids) \subseteq SeqIds(manifest) /\ Range(c.ids) \subseteq DOMAIN files
      /\ comp'.at = comp.at
      /\ comp'.todo = comp.todo \ {c} /\ comp'.ids = c.ids /\ comp'.dead = c.ids
      /\ \/ /\ UNCHANGED files /\ comp'.phase = "remove" /\ comp'.out = {}
            /\ comp.at > c.death \/ Live(s) = {}
         \/ /\ files' = PutFile(files, comp.next, s)
            /\ comp'.phase = "add" /\ comp'.out = {comp.next}
      /\ UNCHANGED <<lsn_counter, manifest, flushes>>
    BY TakeFacts
<1>2. comp.at \in Nat /\ c.death \in Nat /\ \A i \in DOMAIN files : files[i] \in Entries
    BY DEF CompactionInv, Types, TypeOK, CompState, Cohort
<1>3. \A k \in Keys : LET m == Merged(c.ids, files)[k] IN
        /\ s[k] = IF Goes(m, comp.at) THEN NoEntry ELSE m
        /\ ~Goes(m, comp.at) => m # NoEntry
    BY <1>1, <1>2, SurvivorsAre
<1>4. ~Unlocked /\ flushes = {} /\ flushes' = {}
    BY <1>1 DEF CompactionInv, FlushesOK, Unlocked
<1> HIDE DEF s
<1>5. \A i \in SeqIds(manifest) : i \in Nat /\ i < comp.next
    BY <1>4, IdsFinite DEF CompactionInv, IdsBelow, Types, TypeOK
<1>6. comp.next \notin SeqIds(manifest)
    BY <1>5
<1>7. Merged(c.ids, files') = Merged(c.ids, files)
    <2>1. \A i \in DOMAIN c.ids : files'[c.ids[i]] = files[c.ids[i]]
        BY <1>1, ListedFiles
    <2> QED BY <2>1, MergedSame
<1>8. LsnsOK'
    <2>1. CASE UNCHANGED files
        BY <1>1, <2>1, LsnsKept DEF ReadsInv
    <2>2. CASE files' = PutFile(files, comp.next, s)
        <3>1. /\ DOMAIN files' = DOMAIN files \cup {comp.next} /\ files'[comp.next] = s
              /\ \A i \in DOMAIN files : i # comp.next => files'[i] = files[i]
            BY <2>2 DEF PutFile
        <3>2. ASSUME NEW k \in Keys
              PROVE  VersionsIn(files', flushes', k) \subseteq VersionsIn(files, flushes, k)
            <4>1. s[k] = NoEntry \/ \E i \in DOMAIN files : s[k] = files[i][k]
                <5>1. s[k] = NoEntry \/ (s[k] = Merged(c.ids, files)[k] /\ Merged(c.ids, files)[k] # NoEntry)
                    BY <1>3
                <5>2. Merged(c.ids, files)[k] # NoEntry =>
                        \E i \in DOMAIN c.ids : files[c.ids[i]][k] = Merged(c.ids, files)[k]
                    BY <1>1, <1>2, MergedFacts
                <5>3. \A i \in DOMAIN c.ids : c.ids[i] \in DOMAIN files
                    BY <1>1 DEF Range
                <5> QED BY <5>1, <5>2, <5>3
            <4>2. ASSUME NEW i \in DOMAIN files', files'[i][k] # NoEntry
                  PROVE  files'[i][k] \in VersionsIn(files, flushes, k)
                BY <3>1, <4>1, <4>2 DEF VersionsIn
            <4> QED BY <1>4, <4>2 DEF VersionsIn
        <3> QED BY <1>1, <3>2, LsnsKept DEF ReadsInv
    <2> QED BY <1>1, <2>1, <2>2
<1>9. WrittenOK'
    BY <1>4 DEF WrittenOK
<1>10. DeathsOK'
    BY <1>1, DeathsKept
<1>11. OrdersOK'
    BY <1>1 DEF ReadsInv, OrdersOK
<1>12. SeqIds(manifest)' = SeqIds(manifest)
    BY <1>1 DEF SeqIds
<1>13. RemovalOK'
    <2>1. Range(c.ids) \subseteq DOMAIN files'
        BY <1>1, LiveFilesKept
    <2>2. \A i \in DOMAIN c.ids : c.ids[i] \in Range(c.ids)
        BY DEF Range
    <2> QED BY <1>1, <1>12, <2>1, <2>2 DEF RemovalOK
<1>14. OutputOf(comp'.out, comp'.dead, files', comp'.at)
    <2>1. CASE comp'.out = {} /\ (comp.at > c.death \/ Live(s) = {})
        <3> SUFFICES ASSUME NEW k \in Keys PROVE Goes(Merged(c.ids, files)[k], comp.at)
            BY <1>1, <1>7, <2>1 DEF OutputOf
        <3>1. CASE Live(s) = {}
            BY <1>3, <3>1 DEF Live
        <3>2. CASE comp.at > c.death
            <4> SUFFICES ASSUME Merged(c.ids, files)[k] # NoEntry
                         PROVE  DeathTimeFor(Merged(c.ids, files)[k]) <= comp.at
                BY DEF Goes
            <4>1. PICK i \in DOMAIN c.ids : files[c.ids[i]][k] = Merged(c.ids, files)[k]
                <5>1. /\ c.ids \in Seq(Nat) /\ Range(c.ids) \subseteq DOMAIN files
                      /\ \A i \in DOMAIN files : files[i] \in Entries
                    BY <1>1, <1>2
                <5> QED BY <5>1, MergedFacts
            <4>2. c.ids[i] \in Range(c.ids) /\ k \in Live(files[c.ids[i]])
                BY <4>1 DEF Range, Live
            <4>3. DeathTimeFor(files[c.ids[i]][k]) <= c.death
                BY <4>2 DEF ReadsInv, DeathsOK, CohortsDie
            <4>4. files[c.ids[i]] \in Entries
                BY <1>1, <1>2, <4>2
            <4>5. files[c.ids[i]][k] \in Entry
                BY <4>2, <4>4, EntryOf
            <4>6. DeathTimeFor(Merged(c.ids, files)[k]) \in Nat
                BY <4>1, <4>5, EntryTimes
            <4> QED BY <1>2, <3>2, <4>1, <4>3, <4>6
        <3> QED BY <2>1, <3>1, <3>2
    <2>2. CASE files' = PutFile(files, comp.next, s) /\ comp'.out = {comp.next}
        <3>1. comp.next \in DOMAIN files' /\ files'[comp.next] = s
            BY <2>2 DEF PutFile
        <3>2. comp.next \notin Range(comp'.dead)
            BY <1>1, <1>6
        <3>3. \A k \in Keys : files'[comp.next][k] =
                 IF Goes(Merged(comp'.dead, files')[k], comp'.at) THEN NoEntry ELSE Merged(comp'.dead, files')[k]
            BY <1>1, <1>3, <1>7, <3>1
        <3> QED BY <2>2, <3>1, <3>2, <3>3 DEF OutputOf
    <2> QED BY <1>1, <2>1, <2>2
<1>15. OutputOK'
    <2>1. comp'.phase = "remove" => comp'.out = {}
        BY <1>1
    <2> QED BY <1>14, <2>1 DEF OutputOK
<1> QED BY <1>8, <1>9, <1>10, <1>11, <1>13, <1>15 DEF ReadsInv

\* Listing a new segment at the end keeps cohorts in order.
LEMMA AppendOrder ==
    ASSUME NEW metas \in Seq(Meta), NEW m \in Meta, NEW ids, InOrder(ids, metas),
           Range(ids) \subseteq SeqIds(metas), m.id \notin SeqIds(metas)
    PROVE  InOrder(ids, Append(metas, m))
<1> DEFINE a == Append(metas, m)
<1>1. \A p \in DOMAIN a : (p \in DOMAIN metas /\ a[p] = metas[p]) \/ a[p] = m
    OBVIOUS
<1> HIDE DEF a
<1>2. \A i \in DOMAIN ids : ids[i] # m.id
    BY DEF Range
<1>3. \A p \in DOMAIN a : \A i \in DOMAIN ids : a[p].id = ids[i] => p \in DOMAIN metas /\ metas[p].id = ids[i]
    BY <1>1, <1>2
<1>4. InOrder(ids, a)
    BY <1>3 DEF InOrder
<1> QED BY <1>4 DEF a

\* Removing an entry from the manifest keeps cohorts in order.
LEMMA RemoveOrder ==
    ASSUME NEW metas \in Seq(Meta), NEW id, NEW ids, InOrder(ids, metas)
    PROVE  InOrder(ids, Retain(metas, {i \in DOMAIN metas : metas[i].id # id}))
<1> DEFINE I == {i \in DOMAIN metas : metas[i].id # id}
           kept == Retain(metas, I)
<1>1. I \in SUBSET (DOMAIN metas) /\ \A i \in DOMAIN metas : i \in I <=> metas[i].id # id
    OBVIOUS
<1> HIDE DEF I
<1>2. /\ \A x \in DOMAIN kept : Nth(I, x) \in DOMAIN metas /\ metas[Nth(I, x)].id # id /\ kept[x] = metas[Nth(I, x)]
      /\ \A i \in DOMAIN metas : metas[i].id # id => \E x \in DOMAIN kept : Nth(I, x) = i
      /\ \A x, y \in DOMAIN kept : x \in Nat /\ (x < y => Nth(I, x) < Nth(I, y))
    BY <1>1, RemovedAt
<1> HIDE DEF kept
<1>3. DOMAIN metas \subseteq Nat
    OBVIOUS
<1>4. ASSUME NEW i \in DOMAIN ids, NEW j \in DOMAIN ids, NEW x \in DOMAIN kept, NEW y \in DOMAIN kept,
             i < j, kept[x].id = ids[i], kept[y].id = ids[j]
      PROVE  x < y
    <2>1. Nth(I, x) < Nth(I, y)
        BY <1>2, <1>4 DEF InOrder
    <2>2. x \in Nat /\ y \in Nat /\ Nth(I, x) \in Nat /\ Nth(I, y) \in Nat
        BY <1>2, <1>3
    <2>3. y < x => Nth(I, y) < Nth(I, x)
        BY <1>2
    <2> QED BY <2>1, <2>2, <2>3
<1> QED BY <1>4 DEF InOrder, I, kept

\* Dropping ids from a cohort keeps it in order.
LEMMA LeftOrder ==
    ASSUME NEW ids \in Seq(Nat), NEW id, NEW metas, InOrder(ids, metas)
    PROVE  InOrder(Retain(ids, {i \in DOMAIN ids : ids[i] # id}), metas)
<1> DEFINE I == {i \in DOMAIN ids : ids[i] # id}
           left == Retain(ids, I)
<1>1. I \in SUBSET (DOMAIN ids)
    OBVIOUS
<1> HIDE DEF I
<1>2. /\ \A x \in DOMAIN left : Nth(I, x) \in I /\ left[x] = ids[Nth(I, x)]
      /\ \A x, y \in DOMAIN left : x < y => Nth(I, x) < Nth(I, y)
    BY <1>1, RetainFacts
<1> HIDE DEF left
<1>3. InOrder(left, metas)
    BY <1>1, <1>2 DEF InOrder
<1> QED BY <1>3 DEF I, left

\* add_output: the output is the last segment.
LEMMA AddReads ==
    ASSUME CompactionInv, ReadsInv, add_output
    PROVE  ReadsInv'
<1>1. PICK id \in DOMAIN files :
         LET m == MetaOf(id, files[id]) IN
         /\ comp.phase = "add" /\ comp.out = {id} /\ id \notin SeqIds(manifest)
         /\ id \in Nat /\ files[id] \in Entries /\ Live(files[id]) # {}
         /\ m \in Meta /\ m.id = id
         /\ manifest' = Append(manifest, m)
         /\ SeqIds(manifest') = SeqIds(manifest) \cup {id}
         /\ comp'.phase = "remove" /\ comp'.todo = comp.todo /\ comp'.ids = comp.ids
         /\ comp'.dead = comp.dead /\ comp'.out = comp.out /\ comp'.at = comp.at
         /\ UNCHANGED <<lsn_counter, files, flushes>>
    BY AddFacts
<1> DEFINE m == MetaOf(id, files[id])
<1>2. manifest \in Seq(Meta) /\ m \in Meta /\ m.id = id /\ manifest' = Append(manifest, m)
    BY <1>1 DEF CompactionInv, Types, TypeOK
<1>3. Rewriting /\ Rewriting'
    BY <1>1 DEF Rewriting
<1>4. LsnsOK' /\ WrittenOK'
    BY <1>1 DEF ReadsInv, LsnsOK, WrittenOK
<1>5. MetasDie(manifest', files')
    BY <1>1, <1>2, AppendDies DEF ReadsInv, DeathsOK
<1>6. DeathsOK'
    BY <1>1, <1>5 DEF ReadsInv, DeathsOK
<1> HIDE DEF m
<1>7. \A c \in comp.todo : InOrder(c.ids, manifest')
    BY <1>1, <1>2, AppendOrder DEF ReadsInv, OrdersOK, CompactionInv, CohortsOK
<1>8. InOrder(comp.ids, manifest') /\ InOrder(comp.dead, manifest')
    <2>1. Range(comp.dead) \subseteq SeqIds(manifest) /\ Range(comp.ids) \subseteq SeqIds(manifest)
        BY <1>1, <1>3 DEF CompactionInv, PhaseOK, ReadsInv, RemovalOK
    <2>2. InOrder(comp.ids, manifest) /\ InOrder(comp.dead, manifest)
        BY <1>3 DEF ReadsInv, OrdersOK
    <2> QED BY <1>1, <1>2, <2>1, <2>2, AppendOrder
<1>9. OrdersOK'
    BY <1>1, <1>7, <1>8 DEF OrdersOK
<1>10. RemovalOK'
    BY <1>1, <1>3 DEF ReadsInv, RemovalOK
<1>11. \A p, q \in DOMAIN manifest' : manifest'[q].id = id => p <= q
    <2>1. /\ DOMAIN manifest' = 1..(Len(manifest) + 1) /\ Len(manifest) \in Nat
          /\ \A q \in DOMAIN manifest' : q = Len(manifest) + 1 \/ (q \in DOMAIN manifest /\ manifest'[q] = manifest[q])
        BY <1>2
    <2>2. \A q \in DOMAIN manifest : manifest[q].id # id
        BY <1>1 DEF SeqIds
    <2> QED BY <2>1, <2>2
<1>12. OutputOK'
    BY <1>1, <1>3, <1>11 DEF ReadsInv, OutputOK
<1> QED BY <1>4, <1>6, <1>9, <1>10, <1>12 DEF ReadsInv

\* The next segment to remove comes first in the manifest of those left.
LEMMA HeadFirst ==
    ASSUME CompactionInv, ReadsInv, comp.phase = "remove", NEW p \in DOMAIN manifest, NEW q \in DOMAIN manifest,
           manifest[p].id = Head(comp.ids), manifest[q].id \in Range(comp.ids) \ {Head(comp.ids)}
    PROVE  p < q
<1>1. comp.ids \in Seq(Nat) /\ comp.ids # <<>>
    BY DEF CompactionInv, Types, TypeOK, PhaseOK
<1>2. PICK j \in DOMAIN comp.ids : comp.ids[j] = manifest[q].id
    BY DEF Range
<1>3. 1 \in DOMAIN comp.ids /\ comp.ids[1] = Head(comp.ids) /\ j \in Nat /\ j >= 1
    BY <1>1, <1>2
<1>4. 1 < j
    BY <1>2, <1>3
<1> QED BY <1>2, <1>3, <1>4 DEF ReadsInv, OrdersOK, Rewriting, InOrder

\* remove_old: the segments left are the last ones of the cohort.
LEMMA RemoveReads ==
    ASSUME CompactionInv, ReadsInv, remove_old
    PROVE  ReadsInv'
<1> DEFINE id == Head(comp.ids)
           left == Retain(comp.ids, {i \in DOMAIN comp.ids : comp.ids[i] # id})
           I == {i \in DOMAIN manifest : manifest[i].id # id}
           kept == Retain(manifest, I)
<1>1. /\ comp.phase = "remove" /\ comp.ids \in Seq(Nat) /\ id \in Range(comp.ids)
      /\ manifest' = kept /\ SeqIds(kept) = SeqIds(manifest) \ {id}
      /\ Range(left) = Range(comp.ids) \ {id}
      /\ comp'.todo = comp.todo /\ comp'.ids = left /\ comp'.out = comp.out
      /\ comp'.dead = comp.dead /\ comp'.at = comp.at
      /\ comp'.phase = IF left = <<>> THEN "delete" ELSE "remove"
      /\ UNCHANGED <<lsn_counter, files, flushes>>
    BY RemoveFacts
<1>2. manifest \in Seq(Meta) /\ Rewriting
    BY <1>1 DEF CompactionInv, Types, TypeOK, Rewriting
<1>3. I \in SUBSET (DOMAIN manifest) /\ \A i \in DOMAIN manifest : i \in I <=> manifest[i].id # id
    OBVIOUS
<1>4. \A ids : InOrder(ids, manifest) => InOrder(ids, kept)
    BY <1>2, RemoveOrder
<1>5. \A ids : InOrder(comp.ids, ids) => InOrder(left, ids)
    BY <1>1, LeftOrder
<1> HIDE DEF left, I
<1>6. /\ \A x \in DOMAIN kept : Nth(I, x) \in DOMAIN manifest /\ manifest[Nth(I, x)].id # id /\ kept[x] = manifest[Nth(I, x)]
      /\ \A i \in DOMAIN manifest : manifest[i].id # id => \E x \in DOMAIN kept : Nth(I, x) = i
      /\ \A x, y \in DOMAIN kept : x \in Nat /\ (x < y => Nth(I, x) < Nth(I, y))
    BY <1>2, <1>3, RemovedAt
<1> HIDE DEF kept
<1>7. LsnsOK' /\ WrittenOK'
    BY <1>1 DEF ReadsInv, LsnsOK, WrittenOK
<1>8. DeathsOK'
    <2>1. MetasDie(manifest', files')
        BY <1>1, <1>6 DEF ReadsInv, DeathsOK, MetasDie
    <2> QED BY <1>1, <2>1 DEF ReadsInv, DeathsOK
<1>9. OrdersOK'
    BY <1>1, <1>2, <1>4, <1>5 DEF ReadsInv, OrdersOK
<1>10. RemovalOK'
    <2>1. Range(left) \subseteq SeqIds(kept) \cap Range(comp.dead) /\ Range(comp.dead) \subseteq DOMAIN files
        BY <1>1, <1>2 DEF ReadsInv, RemovalOK
    <2>2. ASSUME NEW i \in DOMAIN comp.dead, NEW j \in DOMAIN comp.dead, i < j, comp.dead[i] \in Range(left)
          PROVE  comp.dead[j] \in Range(left)
        <3>1. comp.dead[i] \in Range(comp.ids) \ {id} /\ comp.dead[j] \in Range(comp.ids)
            BY <1>1, <1>2, <2>2 DEF ReadsInv, RemovalOK
        <3>2. ASSUME comp.dead[j] = id PROVE FALSE
            <4>1. Range(comp.ids) \subseteq SeqIds(manifest)
                BY <1>2 DEF ReadsInv, RemovalOK
            <4>2. PICK q \in DOMAIN manifest : manifest[q].id = comp.dead[i]
                BY <3>1, <4>1 DEF SeqIds
            <4>3. PICK p \in DOMAIN manifest : manifest[p].id = id
                BY <1>1, <4>1 DEF SeqIds
            <4>4. p < q
                BY <1>1, <3>1, <4>2, <4>3, HeadFirst
            <4>5. q < p
                BY <1>2, <2>2, <3>2, <4>2, <4>3 DEF ReadsInv, OrdersOK, InOrder
            <4>6. p \in Nat /\ q \in Nat
                BY <1>2
            <4> QED BY <4>4, <4>5, <4>6
        <3> QED BY <1>1, <3>1, <3>2
    <2> HIDE DEF id
    <2> QED BY <1>1, <2>1, <2>2 DEF RemovalOK
<1>11. OutputOK'
    <2>1. OutputOf(comp.out, comp.dead, files, comp.at)
        BY <1>2 DEF ReadsInv, OutputOK
    <2>2. id \notin comp.out
        <3>1. id \in Range(comp.dead)
            BY <1>1, <1>2 DEF ReadsInv, RemovalOK
        <3> QED BY <2>1, <3>1 DEF OutputOf
    <2>3. comp.out \subseteq SeqIds(kept)
        BY <1>1, <2>2 DEF ReadsInv, OutputOK
    <2>4. ASSUME NEW x \in DOMAIN kept, NEW y \in DOMAIN kept, kept[y].id \in comp.out
          PROVE  x <= y
        <3>1. Nth(I, x) <= Nth(I, y)
            BY <1>1, <1>6, <2>4 DEF ReadsInv, OutputOK
        <3>2. x \in Nat /\ y \in Nat /\ Nth(I, x) \in Nat /\ Nth(I, y) \in Nat
            BY <1>2, <1>6
        <3>3. y < x => Nth(I, y) < Nth(I, x)
            BY <1>6
        <3> QED BY <3>1, <3>2, <3>3
    <2> QED BY <1>1, <2>1, <2>3, <2>4 DEF OutputOK
<1> QED BY <1>7, <1>8, <1>9, <1>10, <1>11 DEF ReadsInv

\* delete_files: no live file goes, and no output waits.
LEMMA DeleteReads ==
    ASSUME CompactionInv, ReadsInv, delete_files, [Next]_vars
    PROVE  ReadsInv'
<1>1. /\ comp.phase = "delete" /\ files' = [i \in DOMAIN files \ {Head(comp.dead)} |-> files[i]]
      /\ comp' = [comp EXCEPT !.dead = Tail(@), !.phase = IF Tail(comp.dead) = <<>> THEN After(@) ELSE @]
      /\ UNCHANGED <<lsn_counter, manifest, flushes>>
    BY DEF delete_files
<1>2. After("delete") = "next"
    BY DEF After, FirstPhase, PhaseOrder
<1>3. comp'.todo = comp.todo /\ comp'.phase \in {"next", "delete"}
    BY <1>1, <1>2 DEF CompactionInv, Types, CompState
<1>4. flushes = {} /\ flushes' = {}
    BY <1>1 DEF CompactionInv, FlushesOK, Unlocked
<1>5. LsnsOK'
    <2>1. \A k \in Keys : VersionsIn(files', flushes', k) \subseteq VersionsIn(files, flushes, k)
        BY <1>1, <1>4 DEF VersionsIn
    <2> QED BY <1>1, <2>1, LsnsKept DEF ReadsInv
<1>6. WrittenOK'
    BY <1>4 DEF WrittenOK
<1>7. DeathsOK'
    BY <1>1, <1>3, DeathsKept
<1>8. OrdersOK' /\ RemovalOK' /\ OutputOK'
    BY <1>1, <1>3 DEF ReadsInv, OrdersOK, RemovalOK, OutputOK, Rewriting
<1> QED BY <1>5, <1>6, <1>7, <1>8 DEF ReadsInv

\* The store is opened again, at the end of a cycle or after a crash.
LEMMA ReopenReads ==
    ASSUME ReadsInv, comp' = Idle, flushes' \subseteq flushes, UNCHANGED <<lsn_counter, files, manifest>>
    PROVE  ReadsInv'
<1>1. LsnsOK' /\ WrittenOK'
    <2>1. \A k \in Keys : VersionsIn(files', flushes', k) \subseteq VersionsIn(files, flushes, k)
        BY DEF VersionsIn
    <2> QED BY <2>1, LsnsKept DEF ReadsInv, WrittenOK
<1> QED BY <1>1, IdleReads DEF ReadsInv, DeathsOK

\* Every step preserves the invariant of reads.
LEMMA NextReads ==
    ASSUME CompactionInv, ReadsInv, [Next]_vars
    PROVE  ReadsInv'
<1>1. CASE Tick
    BY <1>1, FrameReads DEF Tick, segVars
<1>2. CASE \E b \in Batches : prepare_flush(b)
    BY <1>2, PrepareReads
<1>3. CASE \E w \in flushes : execute(w) \/ finalize_segment(w)
    BY <1>3, ExecuteReads, FinalizeReads
<1>4. CASE \E w \in flushes : abort_flush(w)
    BY <1>4, FrameReads DEF abort_flush, segVars
<1>5. CASE snapshot \/ \E s \in snapshots : drop_snapshot(s)
    BY <1>5, FrameReads DEF snapshot, drop_snapshot, segVars
<1>6. CASE compact_once
    BY <1>6, CompactOnceReads
<1>7. CASE \E c \in comp.todo : take_cohort(c)
    BY <1>7, TakeReads
<1>8. CASE add_output
    BY <1>8, AddReads
<1>9. CASE remove_old
    BY <1>9, RemoveReads
<1>10. CASE delete_files
    BY <1>10, DeleteReads
<1>11. CASE finish_compaction
    BY <1>11, ReopenReads DEF finish_compaction
<1>12. CASE Crash
    BY <1>12, ReopenReads DEF Crash
<1>13. CASE UNCHANGED vars
    BY <1>13, FrameReads DEF vars, segVars
<1> QED BY <1>1, <1>2, <1>3, <1>4, <1>5, <1>6, <1>7, <1>8, <1>9, <1>10, <1>11, <1>12, <1>13 DEF Next
-----------------------------------------------------------------------------
(***************************************************************************)
(* Reads across one disk write of a cycle.                                 *)
(***************************************************************************)

\* What a read of the disk answers is a version of the key or nothing, and what
\* the client sees of it.
LEMMA DiskGetIs ==
    ASSUME CompactionInv, NEW k \in Keys
    PROVE  /\ DiskGet(k) = IF Holders(k) = {} THEN NoEntry ELSE files[manifest[Max(Holders(k))].id][k]
           /\ Holders(k) = HoldersOf(manifest, files, k)
<1>1. Holders(k) = HoldersOf(manifest, files, k)
    BY DEF Holders, HoldersOf
<1>2. manifest \in Seq(Meta) /\ SeqIds(manifest) \subseteq DOMAIN files
    BY DEF CompactionInv, Types, TypeOK, SegmentsOK, ManifestHasFiles
<1>3. SegmentGet(OpenReaders(manifest, files), files, k) =
        IF HoldersOf(manifest, files, k) = {} THEN NoEntry
        ELSE files[manifest[Max(HoldersOf(manifest, files, k))].id][k]
    BY <1>2, OpenedGet
<1> QED BY <1>1, <1>3 DEF DiskGet

\* While the manifest stays, so does every read.
LEMMA ManifestStays ==
    ASSUME CompactionInv, [Next]_vars, UNCHANGED manifest, NEW k \in Keys
    PROVE  DiskGet(k)' = DiskGet(k)
<1>1. manifest \in Seq(Meta) /\ SeqIds(manifest) \subseteq DOMAIN files
    BY DEF CompactionInv, Types, TypeOK, SegmentsOK, ManifestHasFiles
<1>2. \A i \in SeqIds(manifest) : i \in DOMAIN files' /\ files'[i] = files[i]
    BY LiveFilesKept
<1>3. SegmentGet(OpenReaders(manifest, files'), files', k) = SegmentGet(OpenReaders(manifest, files), files, k)
    BY <1>1, <1>2, SameFilesSameGet
<1> QED BY <1>3 DEF DiskGet

\* The newest entry of a cohort is the one in the segment none comes after.
LEMMA NewestIsMerged ==
    ASSUME CompactionInv, ReadsInv, Rewriting, NEW k \in Keys, NEW i \in DOMAIN comp.dead,
           files[comp.dead[i]][k] # NoEntry,
           \A j \in DOMAIN comp.dead : files[comp.dead[j]][k] # NoEntry =>
               files[comp.dead[j]][k].lsn <= files[comp.dead[i]][k].lsn
    PROVE  Merged(comp.dead, files)[k] = files[comp.dead[i]][k]
<1> DEFINE e == files[comp.dead[i]][k]
           m == Merged(comp.dead, files)[k]
<1>1. comp.dead \in Seq(Nat) /\ Range(comp.dead) \subseteq DOMAIN files /\ \A j \in DOMAIN files : files[j] \in Entries
    BY DEF CompactionInv, Types, TypeOK, ReadsInv, RemovalOK
<1>2. /\ m = NoEntry <=> \A j \in DOMAIN comp.dead : files[comp.dead[j]][k] = NoEntry
      /\ m # NoEntry =>
           /\ \E j \in DOMAIN comp.dead : files[comp.dead[j]][k] = m
           /\ \A j \in DOMAIN comp.dead : files[comp.dead[j]][k] # NoEntry => files[comp.dead[j]][k].lsn <= m.lsn
    BY <1>1, MergedFacts
<1> HIDE DEF m
<1>3. m # NoEntry /\ e.lsn <= m.lsn /\ m.lsn <= e.lsn
    BY <1>2
<1>4. \A j \in DOMAIN comp.dead : comp.dead[j] \in DOMAIN files
    BY <1>1 DEF Range
<1>5. m \in VersionsIn(files, flushes, k) /\ e \in VersionsIn(files, flushes, k)
    BY <1>2, <1>3, <1>4 DEF VersionsIn
<1>6. m.lsn \in Nat /\ e.lsn \in Nat
    BY <1>5, VersionsTyped
<1>7. m.lsn = e.lsn
    BY <1>3, <1>6
<1>8. m = e
    BY <1>5, <1>7 DEF ReadsInv, LsnsOK
<1> QED BY <1>8 DEF m

\* add_output: the output holds what the last segment of the cohort answered.
LEMMA AddKeepsReads ==
    ASSUME CompactionInv, ReadsInv, add_output, NEW k \in Keys, Confined(k)
    PROVE  DiskGet(k)' = DiskGet(k)
<1>1. PICK id \in DOMAIN files :
         LET m == MetaOf(id, files[id]) IN
         /\ comp.phase = "add" /\ comp.out = {id} /\ id \notin SeqIds(manifest)
         /\ m \in Meta /\ m.id = id
         /\ manifest' = Append(manifest, m)
         /\ UNCHANGED files
    BY AddFacts
<1> DEFINE m == MetaOf(id, files[id])
           new == files[id][k]
<1>2. manifest \in Seq(Meta) /\ SeqIds(manifest) \subseteq DOMAIN files /\ comp.dead \in Seq(Nat) /\ Rewriting
    BY <1>1 DEF CompactionInv, Types, TypeOK, SegmentsOK, ManifestHasFiles, Rewriting
<1>3. DiskGet(k)' = IF new = NoEntry THEN DiskGet(k) ELSE new
    <2>1. m \in Meta /\ m.id = id /\ manifest' = Append(manifest, m) /\ files' = files
        BY <1>1
    <2> HIDE DEF m
    <2>2. SegmentGet(OpenReaders(Append(manifest, m), files), files, k) =
            IF files[m.id][k] = NoEntry THEN SegmentGet(OpenReaders(manifest, files), files, k) ELSE files[m.id][k]
        BY <1>2, <2>1, AppendedGet
    <2> QED BY <2>1, <2>2 DEF DiskGet
<1>4. CASE new = NoEntry
    BY <1>3, <1>4
<1>5. CASE new # NoEntry
    <2>1. new = Merged(comp.dead, files)[k]
        BY <1>1, <1>2, <1>5 DEF ReadsInv, OutputOK, OutputOf
    <2>2. /\ Range(comp.dead) \subseteq SeqIds(manifest) /\ Range(comp.dead) \subseteq DOMAIN files
          /\ \A j \in DOMAIN files : files[j] \in Entries
        BY <1>1, <1>2 DEF CompactionInv, PhaseOK, Types, TypeOK, ReadsInv, RemovalOK
    <2>3. PICK i \in DOMAIN comp.dead :
             /\ files[comp.dead[i]][k] = new
             /\ \A j \in DOMAIN comp.dead : files[comp.dead[j]][k] # NoEntry =>
                   files[comp.dead[j]][k].lsn <= new.lsn
        <3>1. Merged(comp.dead, files)[k] # NoEntry =>
                /\ \E i \in DOMAIN comp.dead : files[comp.dead[i]][k] = Merged(comp.dead, files)[k]
                /\ \A i \in DOMAIN comp.dead : files[comp.dead[i]][k] # NoEntry =>
                      files[comp.dead[i]][k].lsn <= Merged(comp.dead, files)[k].lsn
            BY <1>2, <2>2, MergedFacts
        <3> HIDE DEF new
        <3> QED BY <1>5, <2>1, <3>1
    <2>4. PICK p \in DOMAIN manifest : manifest[p].id = comp.dead[i]
        BY <2>2 DEF Range, SeqIds
    <2>5. p \in Holders(k) /\ Holders(k) = HoldersOf(manifest, files, k)
        BY <1>5, <2>3, <2>4 DEF Holders, HoldersOf
    <2> DEFINE q == Max(Holders(k))
    <2>6. q \in Holders(k) /\ q \in DOMAIN manifest /\ p <= q /\ p \in Nat /\ q \in Nat
        BY <1>2, <2>5, LastHolder
    <2>7. DiskGet(k) = files[manifest[q].id][k]
        BY <2>6, DiskGetIs
    <2> HIDE DEF q
    <2>8. manifest[q].id # id /\ files[manifest[q].id][k] # NoEntry
        BY <1>1, <2>6 DEF SeqIds, Holders
    <2>9. PICK j \in DOMAIN comp.dead : comp.dead[j] = manifest[q].id
        BY <1>1, <2>6, <2>8 DEF Confined, Range
    <2>10. i <= j
        <3>1. j < i => q < p
            BY <1>2, <2>4, <2>6, <2>9 DEF ReadsInv, OrdersOK, InOrder
        <3>2. i \in Nat /\ j \in Nat
            BY <1>2
        <3> QED BY <2>6, <3>1, <3>2
    <2>11. \A x \in DOMAIN comp.dead : comp.dead[x] \in DOMAIN files
        BY <2>2 DEF Range
    <2> DEFINE last == files[comp.dead[j]][k]
    <2>12. new.lsn <= last.lsn
        BY <1>5, <2>3, <2>8, <2>9, <2>10, <2>11 DEF Confined
    <2>13. \A x \in DOMAIN comp.dead : files[comp.dead[x]][k] # NoEntry => files[comp.dead[x]][k].lsn \in Nat
        <3>1. \A x \in DOMAIN comp.dead : files[comp.dead[x]][k] # NoEntry =>
                 files[comp.dead[x]][k] \in VersionsIn(files, flushes, k)
            BY <2>11 DEF VersionsIn
        <3> QED BY <3>1, VersionsTyped
    <2>14. \A x \in DOMAIN comp.dead : files[comp.dead[x]][k] # NoEntry => files[comp.dead[x]][k].lsn <= last.lsn
        <3>1. new.lsn \in Nat /\ last.lsn \in Nat
            BY <1>5, <2>3, <2>8, <2>9, <2>13
        <3> HIDE DEF new, last
        <3> QED BY <2>3, <2>12, <2>13, <3>1
    <2>15. Merged(comp.dead, files)[k] = last
        BY <1>2, <2>8, <2>9, <2>14, NewestIsMerged
    <2> QED BY <1>3, <1>5, <2>1, <2>7, <2>9, <2>15
<1> QED BY <1>4, <1>5

\* remove_old: a removed segment answered a read only where what it answered goes.
LEMMA RemoveKeepsReads ==
    ASSUME CompactionInv, ReadsInv, remove_old, NEW k \in Keys, Confined(k)
    PROVE  \/ DiskGet(k)' = DiskGet(k)
           \/ DiskGet(k) \in Entry /\ DiskGet(k)' = NoEntry /\ Goes(DiskGet(k), comp.at)
<1> DEFINE id == Head(comp.ids)
           kept == Without(manifest, id)
           H == HoldersOf(manifest, files, k)
           q == Max(H)
<1>1. /\ comp.phase = "remove" /\ id \in Range(comp.ids) /\ manifest' = kept /\ UNCHANGED files
      /\ Range(comp.dead) \cap SeqIds(manifest) \subseteq Range(comp.ids)
    BY RemoveFacts DEF Without
<1>2. /\ manifest \in Seq(Meta) /\ SeqIds(manifest) \subseteq DOMAIN files /\ Distinct(manifest)
      /\ comp.dead \in Seq(Nat) /\ Rewriting
    BY <1>1 DEF CompactionInv, Types, TypeOK, SegmentsOK, ManifestHasFiles, Rewriting
<1>3. Holders(k) = H /\ DiskGet(k) = IF H = {} THEN NoEntry ELSE files[manifest[q].id][k]
    BY DiskGetIs
<1>4. /\ \A x \in H : manifest[x].id # id /\ (\A i \in H : i <= x) =>
            SegmentGet(OpenReaders(kept, files), files, k) = files[manifest[x].id][k]
      /\ (\A i \in H : manifest[i].id = id) => SegmentGet(OpenReaders(kept, files), files, k) = NoEntry
    BY <1>2, RemovedGet
<1>5. DiskGet(k)' = SegmentGet(OpenReaders(kept, files), files, k)
    BY <1>1 DEF DiskGet
<1>6. H # {} => q \in H /\ q \in DOMAIN manifest /\ q \in Nat /\ \A i \in H : i \in Nat /\ i <= q
    BY <1>2, LastHolder
<1> HIDE DEF q, kept, H
<1>7. CASE H = {}
    BY <1>3, <1>4, <1>5, <1>7
<1>8. CASE H # {} /\ manifest[q].id # id
    BY <1>3, <1>4, <1>5, <1>6, <1>8
<1>9. CASE H # {} /\ manifest[q].id = id
    <2>1. \A i \in H : i \in DOMAIN manifest /\ files[manifest[i].id][k] # NoEntry
        BY <1>3 DEF Holders
    <2>2. OutputOf(comp.out, comp.dead, files, comp.at)
        BY <1>2 DEF ReadsInv, OutputOK
    <2>3. id \in Range(comp.dead) /\ Range(comp.ids) \subseteq SeqIds(manifest) /\ Range(comp.dead) \subseteq DOMAIN files
        BY <1>1, <1>2 DEF ReadsInv, RemovalOK
    <2>4. id \notin comp.out
        BY <2>2, <2>3 DEF OutputOf
    <2>5. \A o \in comp.out : files[o][k] = NoEntry
        <3> SUFFICES ASSUME NEW o \in comp.out, files[o][k] # NoEntry PROVE FALSE
            OBVIOUS
        <3>1. PICK p \in DOMAIN manifest : manifest[p].id = o
            BY <1>1 DEF ReadsInv, OutputOK, SeqIds
        <3>2. p \in H
            BY <1>3, <3>1 DEF Holders
        <3>3. p <= q /\ q <= p /\ p \in Nat /\ q \in Nat
            BY <1>1, <1>6, <3>1, <3>2 DEF ReadsInv, OutputOK
        <3>4. p = q
            BY <3>3
        <3> QED BY <1>9, <2>4, <3>1, <3>4
    <2>6. \A i \in H : manifest[i].id \in Range(comp.dead)
        BY <1>3, <2>1, <2>5 DEF Confined
    <2>7. \A i \in H : manifest[i].id = id
        <3> SUFFICES ASSUME NEW i \in H, manifest[i].id # id PROVE FALSE
            OBVIOUS
        <3>1. manifest[i].id \in Range(comp.ids) \ {id}
            BY <1>1, <2>1, <2>6 DEF SeqIds
        <3>2. q < i
            BY <1>1, <1>6, <1>9, <2>1, <3>1, HeadFirst
        <3> QED BY <1>6, <3>2
    <2>8. PICK x \in DOMAIN comp.dead : comp.dead[x] = id
        BY <2>3 DEF Range
    <2> DEFINE e == files[comp.dead[x]][k]
    <2>9. e # NoEntry /\ DiskGet(k) = e
        BY <1>3, <1>6, <1>9, <2>1, <2>8
    <2>10. \A y \in DOMAIN comp.dead : comp.dead[y] \in DOMAIN files
        BY <2>3 DEF Range
    <2>11. \A y \in DOMAIN comp.dead : files[comp.dead[y]][k] # NoEntry => files[comp.dead[y]][k].lsn <= e.lsn
        <3> SUFFICES ASSUME NEW y \in DOMAIN comp.dead, files[comp.dead[y]][k] # NoEntry
                     PROVE  y <= x
            BY <2>9, <2>10 DEF Confined
        <3>1. x \in Nat /\ y \in Nat
            BY <1>2
        <3>2. ASSUME x < y PROVE FALSE
            <4>1. comp.dead[y] \in Range(comp.ids)
                BY <1>1, <1>2, <2>8, <3>2 DEF ReadsInv, RemovalOK
            <4>2. PICK p \in DOMAIN manifest : manifest[p].id = comp.dead[y]
                BY <2>3, <4>1 DEF SeqIds
            <4>3. p \in H
                BY <1>3, <4>2 DEF Holders
            <4>4. comp.dead[y] = id
                BY <2>7, <4>2, <4>3
            <4>5. p < p
                BY <1>2, <2>8, <3>2, <4>2, <4>4 DEF ReadsInv, OrdersOK, InOrder
            <4>6. p \in Nat
                BY <1>2
            <4> QED BY <4>5, <4>6
        <3> QED BY <3>1, <3>2
    <2>12. Merged(comp.dead, files)[k] = e
        BY <1>2, <2>9, <2>11, NewestIsMerged
    <2>13. Goes(e, comp.at)
        BY <2>2, <2>5, <2>9, <2>12 DEF OutputOf
    <2>14. e \in Entry
        <3>1. e \in VersionsIn(files, flushes, k)
            BY <2>9, <2>10 DEF VersionsIn
        <3> QED BY <3>1, VersionsTyped
    <2> QED BY <1>4, <1>5, <2>7, <2>9, <2>13, <2>14
<1> QED BY <1>7, <1>8, <1>9

KeepsRead(k) ==
    \/ Visible(DiskGet(k))' = Visible(DiskGet(k))
    \/ Expired(DiskGet(k)) /\ Visible(DiskGet(k))' = Absent

\* No step during a cycle changes a read of a key confined to the cohort.
LEMMA StepKeepsReads ==
    ASSUME CompactionInv, ReadsInv, [Next]_vars, ~Unlocked, NEW k \in Keys, Confined(k)
    PROVE  KeepsRead(k)
<1>1. CASE UNCHANGED manifest
    <2>1. DiskGet(k)' = DiskGet(k)
        BY <1>1, ManifestStays
    <2> QED BY <2>1 DEF KeepsRead, Visible
<1>2. CASE add_output
    <2>1. DiskGet(k)' = DiskGet(k)
        BY <1>2, AddKeepsReads
    <2> QED BY <2>1 DEF KeepsRead, Visible
<1>3. CASE remove_old
    <2>1. CASE DiskGet(k)' = DiskGet(k)
        BY <2>1 DEF KeepsRead, Visible
    <2>2. CASE DiskGet(k) \in Entry /\ DiskGet(k)' = NoEntry /\ Goes(DiskGet(k), comp.at)
        <3>1. Visible(DiskGet(k))' = Absent
            BY <2>2, ConstantsAssumption DEF Visible
        <3>2. CASE DiskGet(k).op # "Put"
            <4>1. DiskGet(k).op = "Delete"
                BY <2>2, <3>2 DEF Entry
            <4>2. Visible(DiskGet(k)) = Absent
                BY <2>2, <4>1, ConstantsAssumption DEF Visible, Entry
            <4> QED BY <3>1, <4>2 DEF KeepsRead
        <3>3. CASE DeathTimeFor(DiskGet(k)) <= comp.at
            BY <2>2, <3>1, <3>3 DEF KeepsRead, Expired
        <3>4. DiskGet(k) # NoEntry
            BY <2>2, ConstantsAssumption DEF Entry
        <3> QED BY <2>2, <3>2, <3>3, <3>4 DEF Goes
    <2> QED BY <1>3, <2>1, <2>2, RemoveKeepsReads
<1>4. UNCHANGED manifest \/ add_output \/ remove_old
    BY DEF Next, vars, segVars, Tick, prepare_flush, execute, finalize_segment, abort_flush, snapshot, drop_snapshot,
           compact_once, take_cohort, delete_files, finish_compaction, Crash
<1> QED BY <1>1, <1>2, <1>3, <1>4

\* The invariant of reads holds throughout.
THEOREM ReadsInvariant ==
    ASSUME Serialized
    PROVE  Spec => []ReadsInv
<1>1. Init => ReadsInv
    BY InitReads
<1>2. CompactionInv /\ ReadsInv /\ [Next]_vars => ReadsInv'
    BY NextReads
<1> QED BY <1>1, <1>2, Invariant, PTL DEF Spec

\* compact_once, compact_partial_cohort and collect_expired_cohort: no disk write of
\* a cycle, and no crash between two of them, changes what get returns for a key
\* whose versions are all in the cohort being compacted, unless its record expired.
THEOREM CompactionReadsKept ==
    ASSUME Serialized
    PROVE  Spec => CompactionKeepsReads
<1>1. CompactionInv /\ ReadsInv /\ [Next]_vars =>
        [~Unlocked => \A k \in Keys : Confined(k) =>
            \/ Visible(DiskGet(k))' = Visible(DiskGet(k))
            \/ Expired(DiskGet(k)) /\ Visible(DiskGet(k))' = Absent]_vars
    BY StepKeepsReads DEF KeepsRead
<1> QED BY <1>1, Invariant, ReadsInvariant, PTL DEF Spec, CompactionKeepsReads
=============================================================================
