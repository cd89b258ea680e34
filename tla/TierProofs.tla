----------------------------- MODULE TierProofs -----------------------------
(***************************************************************************)
(* Proofs about TieredEngine: the newest value of a key survives           *)
(* archiving, stripping, pruning, fetching and compaction, reads and the   *)
(* fast paths find it, and the books of the cache are right.               *)
(***************************************************************************)
EXTENDS Tier, ListProofs
-----------------------------------------------------------------------------
Seg   == [ents : Entries, imported : BOOLEAN]
State == [mem : Entries, wal : Entries, segs : Seq(Seg), lsn : Nat, fetched : SUBSET Entries,
          hidden : BOOLEAN]

TypesOK ==
    /\ Now \in State
    /\ archived \in Seq(Entries)
    /\ \A i \in DOMAIN archived : archived[i] \in DOMAIN remote
    /\ \A h \in DOMAIN remote : remote[h] \in {"whole", "torn"}
    /\ newest \in Entries
    /\ \A k \in Keys : newest[k] # NoEntry => newest[k].ts <= MaxWrites

\* A copy of k: no newer than the last write, and one of the last write has its
\* operation.  Its LSN is past, unless the counter was lowered.
CopyOK(e, k, l) ==
    e # NoEntry =>
        /\ newest[k] # NoEntry
        /\ ~rewound => e.lsn <= l
        /\ e.ts <= newest[k].ts
        /\ e.ts = newest[k].ts => e.op = newest[k].op

CopiesOK(st) ==
    \A k \in Keys :
        /\ st.mem[k] = NoEntry \/ st.mem[k] = st.wal[k]
        /\ CopyOK(newest[k], k, st.lsn)
        /\ CopyOK(st.mem[k], k, st.lsn)
        /\ CopyOK(st.wal[k], k, st.lsn)
        /\ \A i \in DOMAIN st.segs : CopyOK(st.segs[i].ents[k], k, st.lsn)
        /\ \A i \in DOMAIN archived : CopyOK(archived[i][k], k, st.lsn)

InArchive(k) == \E i \in DOMAIN archived : Same(archived[i][k], newest[k])

\* What is not the last write itself has a lower LSN.
Older(e, k) == e # NoEntry /\ e # newest[k] => e.lsn < newest[k].lsn

\* The last write of k is in the memtable, or in a segment of the node's own with nothing
\* over it in the memtable, nothing else can be replayed from the WAL, and it beats
\* every other copy by its LSN.
Held(st, k) ==
    /\ \/ st.mem[k] = newest[k]
       \/ /\ st.mem[k] = NoEntry
          /\ \E i \in DOMAIN st.segs : ~st.segs[i].imported /\ st.segs[i].ents[k] = newest[k]
    /\ st.wal[k] \in {NoEntry, newest[k]}
    /\ \A i \in DOMAIN st.segs : Older(st.segs[i].ents[k], k)
    /\ \A i \in DOMAIN archived : Older(archived[i][k], k)

\* What is visible and in no archived segment is held here, unless an import hid it or
\* the counter was lowered.
HeldOK(st) ==
    ~st.hidden /\ ~rewound => \A k \in Keys : Visible(newest[k]) # {} /\ ~InArchive(k) => Held(st, k)
-----------------------------------------------------------------------------
\* What import_segment writes: the winners are logged anew, in the order of the keys.
LEMMA ImportFacts ==
    ASSUME NEW st \in State, NEW h \in Entries
    PROVE  LET new == ImportSegment(st, h) IN
           /\ new \in State
           /\ new.lsn >= st.lsn
           /\ new.segs = Append(st.segs, [ents |-> h, imported |-> TRUE])
           /\ new.fetched = st.fetched
           /\ new.hidden = (st.hidden \/ \E k \in Keys : st.mem[k] = NoEntry /\ h[k] # NoEntry
                              /\ \E i \in DOMAIN st.segs : st.segs[i].ents[k] # NoEntry
                                                          /\ st.segs[i].ents[k].ts > h[k].ts)
           /\ \A k \in Keys : ~Wins(st, h, k) => new.mem[k] = st.mem[k] /\ new.wal[k] = st.wal[k]
           /\ \A k \in Keys : Wins(st, h, k) =>
                 /\ new.mem[k] \in Entry /\ new.wal[k] = new.mem[k]
                 /\ new.mem[k].op = h[k].op /\ new.mem[k].ts = h[k].ts
                 /\ new.mem[k].lsn > st.lsn /\ new.mem[k].lsn <= new.lsn
<1> DEFINE won == {k \in Keys : Wins(st, h, k)}
           new == ImportSegment(st, h)
           hid == \E k \in Keys : st.mem[k] = NoEntry /\ h[k] # NoEntry
                              /\ \E i \in DOMAIN st.segs : st.segs[i].ents[k] # NoEntry
                                                          /\ st.segs[i].ents[k].ts > h[k].ts
           logged(base) == [k \in Keys |->
               IF k \in won THEN [h[k] EXCEPT !.lsn = st.lsn + Rank(won, k)] ELSE base[k]]
           log == logged(st.mem)
           wlog == logged(st.wal)
<1>1. MaxKey \in Nat /\ won \in SUBSET (1..MaxKey)
    BY TierAssumption DEF Keys
<1>2. Cardinality(won) \in Nat /\ \A k \in won : Rank(won, k) \in 1..Cardinality(won)
    <2> HIDE DEF won
    <2> QED BY <1>1, RankGrows
<1>3. new = [st EXCEPT !.mem = log, !.wal = wlog, !.lsn = @ + Cardinality(won),
                       !.segs = Append(@, [ents |-> h, imported |-> TRUE]), !.hidden = @ \/ hid]
    BY Zenon DEF ImportSegment
<1>4. st.mem \in Entries /\ st.wal \in Entries /\ st.segs \in Seq(Seg) /\ st.lsn \in Nat /\ st.hidden \in BOOLEAN
      /\ st.fetched \in SUBSET Entries
    BY DEF State
<1>5. ASSUME NEW k \in Keys, k \in won
      PROVE  /\ log[k] \in Entry
             /\ log[k].op = h[k].op /\ log[k].ts = h[k].ts
             /\ log[k].lsn > st.lsn /\ log[k].lsn <= st.lsn + Cardinality(won)
             /\ wlog[k] = log[k]
    <2>1. h[k] \in Entry
        BY <1>5 DEF Entries, Wins
    <2>2. log[k] = [h[k] EXCEPT !.lsn = st.lsn + Rank(won, k)] /\ wlog[k] = log[k]
        BY <1>5
    <2>3. Rank(won, k) \in 1..Cardinality(won)
        BY <1>2, <1>5
    <2> HIDE DEF log, wlog, won
    <2> QED BY <1>2, <1>4, <2>1, <2>2, <2>3 DEF Entry
<1>6. log \in Entries /\ wlog \in Entries
    <2> SUFFICES ASSUME NEW base \in Entries PROVE logged(base) \in Entries
        BY <1>4
    <2>1. \A k \in Keys : logged(base)[k] \in Entry \cup {NoEntry}
        <3> SUFFICES ASSUME NEW k \in Keys PROVE logged(base)[k] \in Entry \cup {NoEntry}
            OBVIOUS
        <3>1. CASE k \in won
            <4>1. logged(base)[k] = log[k]
                BY <3>1
            <4> QED BY <1>5, <3>1, <4>1
        <3>2. CASE k \notin won
            BY <3>2 DEF Entries
        <3> QED BY <3>1, <3>2
    <2>2. logged(base) = [k \in Keys |-> logged(base)[k]]
        BY Zenon
    <2> HIDE DEF logged
    <2> QED BY <2>1, <2>2 DEF Entries
<1>7. [ents |-> h, imported |-> TRUE] \in Seg
    BY DEF Seg
<1>8. \A k \in Keys : k \in won <=> Wins(st, h, k)
    BY Zenon
<1>9. \A k \in Keys : k \notin won => log[k] = st.mem[k] /\ wlog[k] = st.wal[k]
    BY Zenon
<1> HIDE DEF log, wlog, won, hid, new
<1>10. /\ new.mem = log /\ new.wal = wlog /\ new.lsn = st.lsn + Cardinality(won)
       /\ new.segs = Append(st.segs, [ents |-> h, imported |-> TRUE])
       /\ new.hidden = (st.hidden \/ hid) /\ new.fetched = st.fetched
       /\ new = [mem |-> new.mem, wal |-> new.wal, segs |-> new.segs, lsn |-> new.lsn, fetched |-> new.fetched,
                 hidden |-> new.hidden]
    BY <1>3 DEF State
<1>11. hid \in BOOLEAN /\ Append(st.segs, [ents |-> h, imported |-> TRUE]) \in Seq(Seg)
    BY <1>4, <1>7 DEF hid
<1>12. (st.hidden \/ hid) \in BOOLEAN
    BY <1>4, <1>11, Zenon
<1>13. new \in State
    <2>1. new.mem \in Entries /\ new.wal \in Entries /\ new.segs \in Seq(Seg) /\ new.lsn \in Nat
          /\ new.fetched \in SUBSET Entries
        BY <1>2, <1>4, <1>6, <1>10, <1>11
    <2>2. new.hidden \in BOOLEAN
        BY <1>10, <1>12, Zenon
    <2> QED BY <1>10, <2>1, <2>2 DEF State
<1>14. new.lsn >= st.lsn
    BY <1>2, <1>4, <1>10
<1>15. \A k \in Keys : Wins(st, h, k) =>
                 /\ new.mem[k] \in Entry /\ new.wal[k] = new.mem[k]
                 /\ new.mem[k].op = h[k].op /\ new.mem[k].ts = h[k].ts
                 /\ new.mem[k].lsn > st.lsn /\ new.mem[k].lsn <= new.lsn
    BY <1>5, <1>8, <1>10
<1>16. \A k \in Keys : ~Wins(st, h, k) => new.mem[k] = st.mem[k] /\ new.wal[k] = st.wal[k]
    BY <1>8, <1>9, <1>10
<1> QED BY <1>10, <1>13, <1>14, <1>15, <1>16 DEF new, hid

\* fetch_and_import imports, marks, or leaves everything as it is.
LEMMA FetchFacts ==
    ASSUME NEW st \in State, NEW h \in Entries
    PROVE  LET new == FetchAndImport(st, h) IN
           /\ new \in State
           /\ \/ /\ h \in Hashes(st.segs) \/ h \in Torn
                 /\ new.mem = st.mem /\ new.wal = st.wal /\ new.segs = st.segs /\ new.lsn = st.lsn
                 /\ new.hidden = st.hidden
              \/ LET imp == ImportSegment(st, h) IN
                 /\ h \notin Hashes(st.segs) /\ h \notin Torn
                 /\ new.mem = imp.mem /\ new.wal = imp.wal /\ new.segs = imp.segs /\ new.lsn = imp.lsn
                 /\ new.hidden = imp.hidden
<1> DEFINE imp == ImportSegment(st, h)
<1>1. imp \in State
    BY ImportFacts
<1> HIDE DEF imp
<1>2. CASE h \in Hashes(st.segs)
    BY <1>2 DEF FetchAndImport, State
<1>3. CASE h \notin Hashes(st.segs) /\ h \in Torn
    BY <1>3 DEF FetchAndImport
<1>4. CASE h \notin Hashes(st.segs) /\ h \notin Torn
    <2>1. FetchAndImport(st, h) = [imp EXCEPT !.fetched = @ \cup {h}]
        BY <1>4 DEF FetchAndImport, imp
    <2> QED BY <1>1, <1>4, <2>1 DEF State, imp
<1> QED BY <1>2, <1>3, <1>4

\* What a loop over hs does with imports: each state follows from the one before.
LEMMA FetchingRuns ==
    ASSUME NEW hs \in Seq(Entries), Now \in State
    PROVE  \E after \in [0..Len(hs) -> State] :
              /\ after[0] = Now
              /\ \A i \in 1..Len(hs) : after[i] = FetchAndImport(after[i - 1], hs[i])
              /\ AfterFetching(hs) = after[Len(hs)]
<1> DEFINE n == Len(hs)
           Steps(f) == f = [i \in 0..n |-> IF i = 0 THEN Now ELSE FetchAndImport(f[i - 1], hs[i])]
           run == CHOOSE f : Steps(f)
           G == [i \in 1..n |-> [st \in State |-> FetchAndImport(st, hs[i])]]
<1>1. n \in Nat /\ \A i \in 1..n : hs[i] \in Entries
    OBVIOUS
<1>2. G \in [1..n -> [State -> State]]
    <2> SUFFICES ASSUME NEW i \in 1..n, NEW st \in State PROVE FetchAndImport(st, hs[i]) \in State
        OBVIOUS
    <2> QED BY <1>1, FetchFacts
<1>3. PICK f : Course(f, State, Now, n, G)
    <2>1. n \in Nat
        BY <1>1
    <2> HIDE DEF G, n, Steps, run
    <2> QED BY <1>2, <2>1, IterationExists
<1>4. Steps(f)
    <2>1. ASSUME NEW i \in 0..n, i # 0 PROVE f[i] = FetchAndImport(f[i - 1], hs[i])
        <3>1. i \in 1..n /\ i - 1 \in 0..n
            BY <1>1, <2>1
        <3>2. f[i] = G[i][f[i - 1]] /\ f[i - 1] \in State
            BY <1>3, <3>1 DEF Course
        <3> QED BY <3>1, <3>2
    <2>2. f = [i \in 0..n |-> f[i]] /\ f[0] = Now
        BY <1>3 DEF Course
    <2> HIDE DEF G
    <2> QED BY <2>1, <2>2
<1>5. Steps(run)
    BY <1>4
<1>6. AfterFetching(hs) = run[n]
    BY DEF AfterFetching
<1>7. /\ run[0] = Now
      /\ \A i \in 1..n : run[i] = FetchAndImport(run[i - 1], hs[i])
      /\ DOMAIN run = 0..n
    <2>1. 0 \in 0..n /\ \A i \in 1..n : i \in 0..n /\ i # 0
        BY <1>1
    <2> HIDE DEF run
    <2> QED BY <1>5, <2>1
<1>8. ASSUME NEW m \in 0..n PROVE run[m] \in State
    <2> DEFINE P == {i \in 0..n : run[i] \in State}
    <2>1. 0 \in P
        BY <1>1, <1>7
    <2>2. ASSUME NEW i \in 1..m, i - 1 \in P PROVE i \in P
        <3>1. i \in 1..n /\ i \in 0..n
            BY <1>1
        <3> QED BY <1>1, <1>7, <2>2, <3>1, FetchFacts
    <2>3. m \in Nat
        OBVIOUS
    <2> HIDE DEF P
    <2>4. m \in P
        BY <2>1, <2>2, <2>3, Reaches
    <2> QED BY <2>4 DEF P
<1>9. run \in [0..n -> State]
    <2>1. run = [i \in 0..n |-> run[i]]
        <3> HIDE DEF run
        <3> QED BY <1>5
    <2> HIDE DEF run
    <2> QED BY <1>8, <2>1
<1> HIDE DEF run
<1> QED BY <1>6, <1>7, <1>9

-----------------------------------------------------------------------------
(***************************************************************************)
(* The newest value.                                                       *)
(***************************************************************************)
StateInv(st) == CopiesOK(st) /\ HeldOK(st)

\* A counter that grows leaves a copy in order.
LEMMA CopyMono ==
    ASSUME NEW e, e = NoEntry \/ e.lsn \in Nat, NEW k, NEW l \in Nat, NEW m \in Nat, l <= m, CopyOK(e, k, l)
    PROVE  CopyOK(e, k, m)
BY DEF CopyOK

\* The segments of a list with one more.
LEMMA AppendAt ==
    ASSUME NEW S, NEW ss \in Seq(S), NEW s \in S, NEW i \in DOMAIN Append(ss, s)
    PROVE  \/ i \in DOMAIN ss /\ Append(ss, s)[i] = ss[i]
           \/ i = Len(ss) + 1 /\ Append(ss, s)[i] = s
OBVIOUS

LEMMA StateFacts ==
    ASSUME NEW st \in State
    PROVE  /\ st.mem \in Entries /\ st.wal \in Entries /\ st.segs \in Seq(Seg) /\ st.lsn \in Nat /\ st.hidden \in BOOLEAN
           /\ st.fetched \in SUBSET Entries
           /\ \A i \in DOMAIN st.segs : st.segs[i].ents \in Entries /\ st.segs[i].imported \in BOOLEAN
<1>1. /\ st.mem \in Entries /\ st.wal \in Entries /\ st.segs \in Seq(Seg) /\ st.lsn \in Nat /\ st.hidden \in BOOLEAN
      /\ st.fetched \in SUBSET Entries
    BY DEF State
<1>2. \A i \in DOMAIN st.segs : st.segs[i] \in Seg
    BY <1>1
<1> QED BY <1>1, <1>2 DEF Seg

LEMMA EntryFacts ==
    ASSUME NEW h \in Entries, NEW k \in Keys, h[k] # NoEntry
    PROVE  h[k] \in Entry /\ h[k].op \in {"Put", "Delete"} /\ h[k].ts \in Nat /\ h[k].lsn \in Nat
BY DEF Entries, Entry

\* Importing an archived segment keeps every copy in order and the newest value held.
LEMMA ImportKeeps ==
    ASSUME NEW st \in State, archived \in Seq(Entries), newest \in Entries, StateInv(st),
           NEW a \in DOMAIN archived
    PROVE  StateInv(ImportSegment(st, archived[a]))
<1> DEFINE h == archived[a]
           new == ImportSegment(st, h)
<1>1. h \in Entries
    OBVIOUS
<1>2. /\ new \in State
      /\ new.lsn >= st.lsn
      /\ new.segs = Append(st.segs, [ents |-> h, imported |-> TRUE])
      /\ new.hidden = (st.hidden \/ \E k \in Keys : st.mem[k] = NoEntry /\ h[k] # NoEntry
                          /\ \E i \in DOMAIN st.segs : st.segs[i].ents[k] # NoEntry
                                                      /\ st.segs[i].ents[k].ts > h[k].ts)
      /\ \A k \in Keys : ~Wins(st, h, k) => new.mem[k] = st.mem[k] /\ new.wal[k] = st.wal[k]
      /\ \A k \in Keys : Wins(st, h, k) =>
            /\ new.mem[k] \in Entry /\ new.wal[k] = new.mem[k]
            /\ new.mem[k].op = h[k].op /\ new.mem[k].ts = h[k].ts
            /\ new.mem[k].lsn > st.lsn /\ new.mem[k].lsn <= new.lsn
    BY <1>1, ImportFacts
<1>3. /\ st.mem \in Entries /\ st.wal \in Entries /\ st.segs \in Seq(Seg) /\ st.lsn \in Nat /\ new.lsn \in Nat
      /\ [ents |-> h, imported |-> TRUE] \in Seg
      /\ st.hidden \in BOOLEAN
      /\ \A i \in DOMAIN st.segs : st.segs[i].ents \in Entries
    <2>1. [ents |-> h, imported |-> TRUE] \in Seg
        BY <1>1 DEF Seg
    <2> HIDE DEF new
    <2> QED BY <1>2, <2>1, StateFacts
<1>4. \A i \in DOMAIN new.segs : \/ i \in DOMAIN st.segs /\ new.segs[i] = st.segs[i]
                                 \/ new.segs[i].ents = h /\ new.segs[i].imported
    BY <1>2, <1>3, AppendAt
<1>4a. \A i \in DOMAIN st.segs : i \in DOMAIN new.segs /\ new.segs[i] = st.segs[i]
    BY <1>2, <1>3
<1> HIDE DEF new
<1>5. CopiesOK(new)
    <2> SUFFICES ASSUME NEW k \in Keys
                 PROVE  /\ new.mem[k] = NoEntry \/ new.mem[k] = new.wal[k]
                        /\ CopyOK(newest[k], k, new.lsn)
                        /\ CopyOK(new.mem[k], k, new.lsn)
                        /\ CopyOK(new.wal[k], k, new.lsn)
                        /\ \A i \in DOMAIN new.segs : CopyOK(new.segs[i].ents[k], k, new.lsn)
                        /\ \A i \in DOMAIN archived : CopyOK(archived[i][k], k, new.lsn)
        BY DEF CopiesOK
    <2>1. \A g \in Entries : CopyOK(g[k], k, st.lsn) => CopyOK(g[k], k, new.lsn)
        <3> SUFFICES ASSUME NEW g \in Entries, CopyOK(g[k], k, st.lsn) PROVE CopyOK(g[k], k, new.lsn)
            OBVIOUS
        <3>1. g[k] = NoEntry \/ g[k].lsn \in Nat
            BY EntryFacts
        <3> QED BY <1>2, <1>3, <3>1, CopyMono
    <2>2. /\ CopyOK(newest[k], k, st.lsn) /\ CopyOK(st.mem[k], k, st.lsn)
          /\ CopyOK(st.wal[k], k, st.lsn) /\ (st.mem[k] = NoEntry \/ st.mem[k] = st.wal[k])
          /\ \A i \in DOMAIN st.segs : CopyOK(st.segs[i].ents[k], k, st.lsn)
          /\ \A i \in DOMAIN archived : CopyOK(archived[i][k], k, st.lsn)
        BY DEF StateInv, CopiesOK
    <2>3. /\ CopyOK(newest[k], k, new.lsn)
          /\ \A i \in DOMAIN archived : CopyOK(archived[i][k], k, new.lsn)
        BY <2>1, <2>2
    <2>4. \A i \in DOMAIN new.segs : CopyOK(new.segs[i].ents[k], k, new.lsn)
        BY <1>3, <1>4, <2>1, <2>2, <2>3
    <2>5. /\ CopyOK(new.mem[k], k, new.lsn) /\ CopyOK(new.wal[k], k, new.lsn)
          /\ new.mem[k] = NoEntry \/ new.mem[k] = new.wal[k]
        <3>1. CASE ~Wins(st, h, k)
            BY <1>2, <1>3, <2>1, <2>2, <3>1
        <3>2. CASE Wins(st, h, k)
            <4>1. h[k] # NoEntry /\ CopyOK(h[k], k, st.lsn) /\ CopyOK(newest[k], k, st.lsn)
                BY <2>2, <3>2 DEF Wins
            <4>2. /\ newest[k] # NoEntry /\ h[k].ts <= newest[k].ts
                  /\ h[k].ts = newest[k].ts => h[k].op = newest[k].op
                BY <4>1 DEF CopyOK
            <4>3. /\ new.wal[k] = new.mem[k]
                  /\ new.mem[k].op = h[k].op /\ new.mem[k].ts = h[k].ts /\ new.mem[k].lsn \in Nat
                  /\ new.mem[k].lsn > st.lsn /\ new.mem[k].lsn <= new.lsn
                BY <1>2, <3>2 DEF Entry
            <4> QED BY <1>3, <4>2, <4>3 DEF CopyOK
        <3> QED BY <3>1, <3>2
    <2> QED BY <2>3, <2>4, <2>5
<1>6. HeldOK(new)
    <2> SUFFICES ASSUME ~new.hidden, ~rewound, NEW k \in Keys, Visible(newest[k]) # {}, ~InArchive(k)
                 PROVE  Held(new, k)
        BY DEF HeldOK
    <2>0. ~st.hidden /\ newest[k] # NoEntry
        BY <1>2 DEF Visible
    <2>1. Held(st, k)
        BY <2>0 DEF StateInv, HeldOK
    <2>2. CopyOK(h[k], k, st.lsn) /\ ~Same(h[k], newest[k]) /\ Older(h[k], k)
        BY <2>1 DEF StateInv, CopiesOK, InArchive, Held
    <2>3. ASSUME h[k] # NoEntry PROVE h[k].ts < newest[k].ts /\ h[k].ts \in Nat /\ newest[k].ts \in Nat
        <3>1. h[k].ts \in Nat /\ newest[k].ts \in Nat
            BY <1>1, <2>0, <2>3, EntryFacts
        <3>2. h[k].ts <= newest[k].ts /\ h[k].ts # newest[k].ts
            BY <2>0, <2>2, <2>3 DEF CopyOK, Same
        <3> QED BY <3>1, <3>2
    <2>4. ~Wins(st, h, k)
        <3> SUFFICES ASSUME Wins(st, h, k) PROVE FALSE
            OBVIOUS
        <3>1. h[k] # NoEntry
            BY DEF Wins
        <3>2. CASE st.mem[k] = newest[k]
            BY <2>0, <2>3, <3>1, <3>2 DEF Wins, Local
        <3>3. CASE st.mem[k] = NoEntry /\ \E i \in DOMAIN st.segs : ~st.segs[i].imported
                                             /\ st.segs[i].ents[k] = newest[k]
            <4>1. PICK i \in DOMAIN st.segs : st.segs[i].ents[k] = newest[k]
                BY <3>3
            <4>2. st.segs[i].ents[k] # NoEntry /\ st.segs[i].ents[k].ts > h[k].ts
                BY <2>0, <2>3, <3>1, <4>1
            <4> QED BY <1>2, <3>1, <3>3, <4>2
        <3> QED BY <2>1, <3>2, <3>3 DEF Held
    <2>5. new.mem[k] = st.mem[k] /\ new.wal[k] = st.wal[k]
        BY <1>2, <2>4
    <2>6. \A i \in DOMAIN new.segs : Older(new.segs[i].ents[k], k)
        BY <1>4, <2>1, <2>2 DEF Held
    <2> QED BY <1>4a, <2>1, <2>5, <2>6 DEF Held
<1> QED BY <1>5, <1>6 DEF StateInv, new

\* The invariant only looks at these parts of a state.
LEMMA StateInvSame ==
    ASSUME NEW st, NEW u, StateInv(st), u.mem = st.mem, u.wal = st.wal, u.segs = st.segs, u.lsn = st.lsn, u.hidden = st.hidden
    PROVE  StateInv(u)
BY DEF StateInv, CopiesOK, HeldOK, Held

\* So does fetch_and_import.
LEMMA FetchKeeps ==
    ASSUME NEW st \in State, archived \in Seq(Entries), newest \in Entries, StateInv(st),
           NEW a \in DOMAIN archived
    PROVE  StateInv(FetchAndImport(st, archived[a]))
<1> DEFINE h == archived[a]
           new == FetchAndImport(st, h)
           imp == ImportSegment(st, h)
<1>1. h \in Entries
    OBVIOUS
<1>2. \/ /\ new.mem = st.mem /\ new.wal = st.wal /\ new.segs = st.segs
         /\ new.lsn = st.lsn /\ new.hidden = st.hidden
      \/ new.mem = imp.mem /\ new.wal = imp.wal /\ new.segs = imp.segs /\ new.lsn = imp.lsn /\ new.hidden = imp.hidden
    BY <1>1, FetchFacts
<1>3. StateInv(imp)
    BY ImportKeeps
<1> HIDE DEF new, imp
<1>4. StateInv(new)
    BY <1>2, <1>3, StateInvSame
<1> QED BY <1>4 DEF new

\* So does a loop of them.
LEMMA FetchingKeeps ==
    ASSUME NEW hs \in Seq(Entries), Now \in State, archived \in Seq(Entries), newest \in Entries,
           StateInv(Now), \A i \in DOMAIN hs : \E a \in DOMAIN archived : hs[i] = archived[a]
    PROVE  AfterFetching(hs) \in State /\ StateInv(AfterFetching(hs))
<1>1. PICK after \in [0..Len(hs) -> State] :
              /\ after[0] = Now
              /\ \A i \in 1..Len(hs) : after[i] = FetchAndImport(after[i - 1], hs[i])
              /\ AfterFetching(hs) = after[Len(hs)]
    BY FetchingRuns
<1> DEFINE P == {i \in 0..Len(hs) : StateInv(after[i])}
<1>2. Len(hs) \in Nat /\ DOMAIN hs = 1..Len(hs)
    OBVIOUS
<1>3. 0 \in P
    BY <1>1, <1>2
<1>4. ASSUME NEW i \in 1..Len(hs), i - 1 \in P PROVE i \in P
    <2>1. PICK a \in DOMAIN archived : hs[i] = archived[a]
        BY <1>2
    <2>2. i - 1 \in 0..Len(hs) /\ StateInv(after[i - 1])
        BY <1>4, Zenon
    <2>3. after[i - 1] \in State /\ i \in 0..Len(hs)
        BY <1>2, <2>2
    <2> QED BY <1>1, <2>1, <2>2, <2>3, FetchKeeps
<1> HIDE DEF P
<1>5. Len(hs) \in P
    BY <1>2, <1>3, <1>4, Reaches
<1> QED BY <1>1, <1>5 DEF P

-----------------------------------------------------------------------------
(***************************************************************************)
(* The lists.                                                              *)
(***************************************************************************)
\* r is s without its element i, and what is left of s keeps its order.
Without(r, s, i) ==
    /\ Len(r) = Len(s) - 1
    /\ \A j \in 1..(i - 1) : r[j] = s[j]
    /\ \A j \in i..(Len(s) - 1) : r[j] = s[j + 1]
    /\ \A j \in DOMAIN r : \E l \in DOMAIN s : l # i /\ r[j] = s[l]

\* SequencesExt!RemoveAt.
LEMMA RemoveAtFacts ==
    ASSUME NEW S, NEW s \in Seq(S), NEW i \in DOMAIN s
    PROVE  /\ RemoveAt(s, i) \in Seq(S)
           /\ Without(RemoveAt(s, i), s, i)
           /\ \A j \in DOMAIN RemoveAt(s, i) : \E l \in DOMAIN s : l # i /\ RemoveAt(s, i)[j] = s[l]
           /\ \A l \in DOMAIN s : l # i => \E j \in DOMAIN RemoveAt(s, i) : RemoveAt(s, i)[j] = s[l]
<1> DEFINE r == RemoveAt(s, i)
           a == SubSeq(s, 1, i - 1)
           b == SubSeq(s, i + 1, Len(s))
<1>1. Len(s) \in Nat /\ i \in 1..Len(s) /\ DOMAIN s = 1..Len(s)
    OBVIOUS
<1>2. a \in Seq(S) /\ Len(a) = i - 1 /\ \A j \in 1..(i - 1) : a[j] = s[j]
    BY <1>1
<1>3. b \in Seq(S) /\ Len(b) = Len(s) - i /\ \A j \in 1..(Len(s) - i) : b[j] = s[i + j]
    BY <1>1
<1>4. r = a \o b
    BY DEF RemoveAt
<1> HIDE DEF r, a, b
<1>4a. Len(s) \in Nat /\ i \in Nat /\ 1 <= i /\ i <= Len(s) /\ Len(a) = i - 1 /\ Len(b) = Len(s) - i
    BY <1>1, <1>2, <1>3
<1>4b. /\ r \in Seq(S) /\ Len(r) = Len(a) + Len(b)
       /\ \A j \in 1..(Len(a) + Len(b)) : r[j] = IF j <= Len(a) THEN a[j] ELSE b[j - Len(a)]
    BY <1>2, <1>3, <1>4, ConcatProperties
<1>5. r \in Seq(S) /\ Len(r) = Len(s) - 1 /\ DOMAIN r = 1..(Len(s) - 1)
    <2>1. Len(r) = Len(s) - 1
        BY <1>4a, <1>4b
    <2> QED BY <1>4b, <2>1
<1>6. ASSUME NEW j \in 1..(i - 1) PROVE j \in DOMAIN r /\ r[j] = s[j]
    <2>1. j \in 1..(Len(s) - 1) /\ j \in 1..(Len(a) + Len(b)) /\ j <= Len(a)
        BY <1>4a
    <2>2. r[j] = a[j] /\ a[j] = s[j]
        BY <1>2, <1>4b, <2>1
    <2> QED BY <1>5, <2>1, <2>2
<1>7. ASSUME NEW j \in i..(Len(s) - 1) PROVE j \in DOMAIN r /\ r[j] = s[j + 1]
    <2>1. /\ j - Len(a) \in 1..(Len(s) - i) /\ i + (j - Len(a)) = j + 1 /\ ~(j <= Len(a))
          /\ j \in 1..(Len(a) + Len(b)) /\ j \in 1..(Len(s) - 1)
        <3>1. j \in Int /\ i <= j /\ j <= Len(s) - 1
            BY <1>4a
        <3>2. j - Len(a) \in Int /\ 1 <= j - Len(a) /\ j - Len(a) <= Len(s) - i
            BY <1>4a, <3>1
        <3>3. Len(s) - i \in Int /\ Len(s) - 1 \in Int /\ Len(a) + Len(b) = Len(s) - 1
            BY <1>4a
        <3>4. i + (j - Len(a)) = j + 1 /\ ~(j <= Len(a)) /\ 1 <= j
            BY <1>4a, <3>1
        <3> QED BY <3>1, <3>2, <3>3, <3>4
    <2>2. r[j] = b[j - Len(a)]
        BY <1>4b, <2>1
    <2>3. b[j - Len(a)] = s[j + 1]
        BY <1>3, <2>1
    <2> QED BY <1>5, <2>1, <2>2, <2>3
<1>8. \A j \in DOMAIN r : \E l \in DOMAIN s : l # i /\ r[j] = s[l]
    <2> SUFFICES ASSUME NEW j \in DOMAIN r PROVE \E l \in DOMAIN s : l # i /\ r[j] = s[l]
        OBVIOUS
    <2>1. CASE j < i
        <3>1. j \in 1..(i - 1) /\ j \in DOMAIN s /\ j # i
            BY <1>1, <1>5, <2>1
        <3> QED BY <1>6, <3>1
    <2>2. CASE ~(j < i)
        <3>1. j \in i..(Len(s) - 1) /\ j + 1 \in DOMAIN s /\ j + 1 # i
            BY <1>1, <1>5, <2>2
        <3> QED BY <1>7, <3>1
    <2> QED BY <2>1, <2>2
<1>9. \A l \in DOMAIN s : l # i => \E j \in DOMAIN r : r[j] = s[l]
    <2> SUFFICES ASSUME NEW l \in DOMAIN s, l # i PROVE \E j \in DOMAIN r : r[j] = s[l]
        OBVIOUS
    <2>1. CASE l < i
        <3>1. l \in 1..(i - 1)
            BY <1>1, <2>1
        <3> QED BY <1>6, <3>1
    <2>2. CASE ~(l < i)
        <3>1. l - 1 \in i..(Len(s) - 1) /\ (l - 1) + 1 = l
            BY <1>1, <2>2
        <3>2. l - 1 \in DOMAIN r /\ r[l - 1] = s[l]
            BY <1>7, <3>1
        <3> QED BY <3>2
    <2> QED BY <2>1, <2>2
<1>10. Without(r, s, i)
    BY <1>5, <1>6, <1>7, <1>8, Zenon DEF Without
<1> QED BY <1>5, <1>8, <1>9, <1>10 DEF r

\* What is picked from the archived list is in it.
LEMMA ArchivedFacts ==
    ASSUME archived \in Seq(Entries), NEW I \in SUBSET DOMAIN archived
    PROVE  /\ Archived(I) \in Seq(Entries)
           /\ \A n \in DOMAIN Archived(I) : \E a \in I : Archived(I)[n] = archived[a]
           /\ \A a \in I : \E n \in DOMAIN Archived(I) : Archived(I)[n] = archived[a]
           /\ Archived(I) = <<>> <=> I = {}
<1>1. /\ Retain(archived, I) \in Seq(Entries)
      /\ \A k \in DOMAIN Retain(archived, I) : Nth(I, k) \in I /\ Retain(archived, I)[k] = archived[Nth(I, k)]
      /\ \A i \in I : Rank(I, i) \in DOMAIN Retain(archived, I) /\ Nth(I, Rank(I, i)) = i
    BY RetainFacts
<1>2. Retain(archived, I) = <<>> <=> I = {}
    BY RetainEmpty
<1>3. \A a \in I : Retain(archived, I)[Rank(I, a)] = archived[a]
    BY <1>1
<1> QED BY <1>1, <1>2, <1>3 DEF Archived
-----------------------------------------------------------------------------
(***************************************************************************)
(* The invariant in terms of the copies of a key.                          *)
(***************************************************************************)
TierInv == TypesOK /\ StateInv(Now)

\* The same invariant on the variables, with the copies of a key as one set.
Copies(k) ==
    {mem[k], wal[k]} \cup {segs[i].ents[k] : i \in DOMAIN segs} \cup {archived[i][k] : i \in DOMAIN archived}

InOwn(k) == \E i \in DOMAIN segs : ~segs[i].imported /\ segs[i].ents[k] = newest[k]

\* The memtable holds nothing that a replay would not give.
Mirrors == \A k \in Keys : mem[k] = NoEntry \/ mem[k] = wal[k]

AllInOrder == \A k \in Keys : CopyOK(newest[k], k, lsn) /\ \A e \in Copies(k) : CopyOK(e, k, lsn)

\* Where the newest write of k is held.
Kept(k) ==
    /\ mem[k] = newest[k] \/ (mem[k] = NoEntry /\ InOwn(k))
    /\ wal[k] \in {NoEntry, newest[k]}

AllHeld ==
    ~hidden /\ ~rewound => \A k \in Keys : Visible(newest[k]) # {} /\ ~InArchive(k) =>
        Kept(k) /\ \A e \in Copies(k) : Older(e, k)

LEMMA NowFields ==
    /\ Now.mem = mem /\ Now.wal = wal /\ Now.segs = segs /\ Now.lsn = lsn /\ Now.hidden = hidden
    /\ Now.fetched = fetched
    /\ Now'.mem = mem' /\ Now'.wal = wal' /\ Now'.segs = segs' /\ Now'.lsn = lsn' /\ Now'.hidden = hidden'
    /\ Now'.fetched = fetched'
BY DEF Now

LEMMA InvBefore ==
    ASSUME StateInv(Now) PROVE Mirrors /\ AllInOrder /\ AllHeld
<1>1. Mirrors /\ AllInOrder
    BY NowFields DEF StateInv, CopiesOK, AllInOrder, Copies, Mirrors
<1>2. AllHeld
    <2> SUFFICES ASSUME ~hidden, ~rewound, NEW k \in Keys, Visible(newest[k]) # {}, ~InArchive(k)
                 PROVE  Kept(k) /\ \A e \in Copies(k) : Older(e, k)
        BY DEF AllHeld
    <2>1. Held(Now, k)
        BY NowFields DEF StateInv, HeldOK
    <2>2. Older(mem[k], k) /\ Older(wal[k], k)
        BY <2>1, NowFields DEF Held, Older
    <2> QED BY <2>1, <2>2, NowFields DEF Held, Copies, InOwn, Kept
<1> QED BY <1>1, <1>2

LEMMA InvAfter ==
    ASSUME Mirrors', AllInOrder', AllHeld' PROVE StateInv(Now)'
<1>1. CopiesOK(Now)'
    BY NowFields DEF CopiesOK, AllInOrder, Copies, Mirrors
<1>2. HeldOK(Now)'
    <2> SUFFICES ASSUME ~hidden', ~rewound', NEW k \in Keys, (Visible(newest[k]) # {})', ~InArchive(k)'
                 PROVE  Held(Now, k)'
        BY NowFields DEF HeldOK
    <2>1. Kept(k)' /\ \A e \in Copies(k)' : Older(e, k)'
        BY DEF AllHeld
    <2> QED BY <2>1, NowFields DEF Held, Copies, InOwn, Kept
<1> QED BY <1>1, <1>2 DEF StateInv

\* A step that writes nothing new: the WAL may lose entries, the counter may be lowered.
LEMMA MoveKeeps ==
    ASSUME TierInv, UNCHANGED <<newest, hidden>>, lsn' \in Nat, rewound => rewound', ~rewound' => lsn <= lsn',
           \A k \in Keys : wal'[k] = NoEntry \/ wal'[k] = wal[k],
           Mirrors',
           \A k \in Keys : \A e \in Copies(k)' : e = NoEntry \/ e \in Copies(k),
           \A k \in Keys : InArchive(k) => InArchive(k)',
           \A k \in Keys : /\ Visible(newest[k]) # {} /\ ~InArchive(k)'
                           /\ Kept(k)
                           /\ \A e \in Copies(k) : Older(e, k)
                           => mem'[k] = newest[k] \/ (mem'[k] = NoEntry /\ InOwn(k)')
    PROVE  StateInv(Now)'
<1>1. AllInOrder /\ AllHeld
    BY InvBefore DEF TierInv
<1>2. AllInOrder'
    <2> SUFFICES ASSUME NEW k \in Keys
                 PROVE  CopyOK(newest[k], k, lsn)' /\ \A e \in Copies(k)' : CopyOK(e, k, lsn)'
        BY DEF AllInOrder
    <2>0. Now \in State /\ archived \in Seq(Entries) /\ newest \in Entries
        BY DEF TierInv, TypesOK
    <2>1. CopyOK(newest[k], k, lsn) /\ \A e \in Copies(k) : CopyOK(e, k, lsn)
        BY <1>1 DEF AllInOrder
    <2>2. \A e \in Copies(k)' : e = NoEntry \/ e \in Copies(k)
        OBVIOUS
    <2>3. lsn \in Nat /\ \A e \in Copies(k) \cup {newest[k]} : e = NoEntry \/ e.lsn \in Nat
        <3>1. /\ mem \in Entries /\ wal \in Entries /\ lsn \in Nat
              /\ \A i \in DOMAIN segs : segs[i].ents \in Entries
              /\ \A i \in DOMAIN archived : archived[i] \in Entries
            BY <2>0, StateFacts, NowFields
        <3> QED BY <2>0, <3>1, EntryFacts DEF Copies
    <2>4. \A e \in Copies(k) \cup {newest[k]} : CopyOK(e, k, lsn) => CopyOK(e, k, lsn)'
        BY <2>3 DEF CopyOK
    <2>5. CopyOK(NoEntry, k, lsn)' /\ newest'[k] = newest[k]
        BY DEF CopyOK
    <2> QED BY <2>1, <2>2, <2>4, <2>5
<1>3. AllHeld'
    <2> SUFFICES ASSUME ~hidden', ~rewound', NEW k \in Keys, (Visible(newest[k]) # {})', ~InArchive(k)'
                 PROVE  Kept(k)' /\ \A e \in Copies(k)' : Older(e, k)'
        BY DEF AllHeld
    <2>1. ~hidden /\ ~rewound /\ Visible(newest[k]) # {} /\ ~InArchive(k) /\ newest[k] = newest'[k]
        BY DEF Visible
    <2>2. Kept(k) /\ \A e \in Copies(k) : Older(e, k)
        BY <1>1, <2>1 DEF AllHeld
    <2>3. mem'[k] = newest[k] \/ (mem'[k] = NoEntry /\ InOwn(k)')
        BY <2>1, <2>2
    <2>4. \A e \in Copies(k)' : Older(e, k)'
        <3>1. \A e \in Copies(k)' : e = NoEntry \/ e \in Copies(k)
            OBVIOUS
        <3> QED BY <2>1, <2>2, <3>1 DEF Older
    <2>5. wal'[k] \in {NoEntry, newest[k]}
        BY <2>2 DEF Kept
    <2> QED BY <2>1, <2>3, <2>4, <2>5 DEF Kept
<1> QED BY <1>2, <1>3, InvAfter

\* A step that leaves the memtable and the WAL as they are.
LEMMA MirrorsSame == ASSUME TierInv, UNCHANGED <<mem, wal>> PROVE Mirrors'
BY InvBefore DEF Mirrors, TierInv

-----------------------------------------------------------------------------
(***************************************************************************)
(* The steps.                                                              *)
(***************************************************************************)
LEMMA TypeFacts ==
    ASSUME TypesOK
    PROVE  /\ mem \in Entries /\ wal \in Entries /\ segs \in Seq(Seg) /\ lsn \in Nat /\ fetched \in SUBSET Entries
           /\ hidden \in BOOLEAN /\ archived \in Seq(Entries) /\ newest \in Entries
           /\ \A i \in DOMAIN segs : segs[i].ents \in Entries /\ segs[i].imported \in BOOLEAN
           /\ \A i \in DOMAIN archived : archived[i] \in Entries
<1>1. Now \in State /\ archived \in Seq(Entries) /\ newest \in Entries
    BY DEF TypesOK
<1>2. \A i \in DOMAIN archived : archived[i] \in Entries
    BY <1>1
<1> QED BY <1>1, <1>2, StateFacts, NowFields

LEMMA TypesAfter ==
    ASSUME mem' \in Entries, wal' \in Entries, segs' \in Seq(Seg), lsn' \in Nat, fetched' \in SUBSET Entries, hidden' \in BOOLEAN
    PROVE  Now' \in State
BY DEF Now, State

\* The clock is past no write.
LEMMA ClockFacts ==
    ASSUME TypesOK
    PROVE  Clock \in 0..MaxWrites /\ \A k \in Keys : newest[k] # NoEntry => newest[k].ts <= Clock
<1> DEFINE written == {k \in Keys : newest[k] # NoEntry}
           T == {newest[k].ts : k \in written} \cup {0}
<1>1. newest \in Entries /\ \A k \in written : newest[k].ts \in Nat /\ newest[k].ts <= MaxWrites
    BY EntryFacts DEF TypesOK
<1>2. MaxWrites \in Nat
    BY TierAssumption
<1>3. T \in SUBSET Nat /\ T # {} /\ \A t \in T : t <= MaxWrites
    BY <1>1, <1>2
<1>4. Max(T) \in T /\ \A t \in T : t <= Max(T)
    <2> HIDE DEF T
    <2> QED BY <1>2, <1>3, MaxExists
<1>5. PICK t \in T : \A u \in T : u <= t
    BY <1>4
<1>6. /\ t \in 0..MaxWrites
      /\ \A k \in Keys : newest[k] # NoEntry => newest[k].ts <= t
      /\ t = 0 \/ \E k \in Keys : newest[k] # NoEntry /\ newest[k].ts = t
    BY <1>2, <1>3, <1>5
<1> QED BY <1>6 DEF Clock

LEMMA WriteStep ==
    ASSUME TierInv, NEW k \in Keys, NEW op \in {"Put", "Delete"}, write(k, op)
    PROVE  TierInv'
<1>0. PICK e : e = [op |-> op, ts |-> Clock + 1, lsn |-> lsn + 1]
    OBVIOUS
<1>1. /\ mem \in Entries /\ wal \in Entries /\ segs \in Seq(Seg) /\ lsn \in Nat /\ fetched \in SUBSET Entries
      /\ hidden \in BOOLEAN /\ archived \in Seq(Entries) /\ newest \in Entries
      /\ \A i \in DOMAIN segs : segs[i].ents \in Entries
      /\ \A i \in DOMAIN archived : archived[i] \in Entries
    BY TypeFacts DEF TierInv
<1>2. Clock \in 0..MaxWrites /\ Clock \in Nat /\ \A j \in Keys : newest[j] # NoEntry => newest[j].ts <= Clock
    <2>1. MaxWrites \in Nat
        BY TierAssumption
    <2> QED BY <2>1, ClockFacts DEF TierInv
<1>3. /\ lsn' = lsn + 1 /\ mem' = [mem EXCEPT ![k] = e] /\ newest' = [newest EXCEPT ![k] = e]
      /\ wal' = [wal EXCEPT ![k] = e]
      /\ Clock < MaxWrites
      /\ UNCHANGED <<segs, archived, fetched, remote, hidden, rewound>>
    BY <1>0, <1>1 DEF write, archiveVars, cacheVars, Entries
<1>4. e \in Entry /\ e # NoEntry /\ e.ts = Clock + 1 /\ e.lsn = lsn + 1 /\ e.op = op
    BY <1>0, <1>1, <1>2, TierAssumption DEF Entry
<1>5. /\ mem' \in Entries /\ wal' \in Entries /\ newest' \in Entries /\ lsn' \in Nat /\ mem'[k] = e /\ wal'[k] = e /\ newest'[k] = e
      /\ \A j \in Keys : j # k => mem'[j] = mem[j] /\ wal'[j] = wal[j] /\ newest'[j] = newest[j]
    BY <1>1, <1>3, <1>4 DEF Entries
<1>6. TypesOK'
    <2>1. Now' \in State
        BY <1>1, <1>3, <1>5, TypesAfter
    <2>2. \A j \in Keys : newest'[j] # NoEntry => newest'[j].ts <= MaxWrites
        <3> SUFFICES ASSUME NEW j \in Keys, newest'[j] # NoEntry PROVE newest'[j].ts <= MaxWrites
            OBVIOUS
        <3>1. CASE j = k
            BY <1>2, <1>3, <1>4, <1>5, <3>1, TierAssumption
        <3>2. CASE j # k
            BY <1>5, <3>2 DEF TierInv, TypesOK
        <3> QED BY <3>1, <3>2
    <2> QED BY <1>1, <1>3, <1>5, <2>1, <2>2 DEF TierInv, TypesOK
<1>7. Mirrors /\ AllInOrder /\ AllHeld
    BY InvBefore DEF TierInv
<1>8. /\ \A j \in Keys : j # k => Copies(j)' = Copies(j)
      /\ \A c \in Copies(k)' : c = e \/ c \in Copies(k)
    BY <1>3, <1>5 DEF Copies
<1>9. \A j \in Keys : \A c \in Copies(j) : c # NoEntry => c \in Entry
    BY <1>1 DEF Copies, Entries
<1>10. AllInOrder'
    <2> SUFFICES ASSUME NEW j \in Keys
                 PROVE  CopyOK(newest[j], j, lsn)' /\ \A c \in Copies(j)' : CopyOK(c, j, lsn)'
        BY DEF AllInOrder
    <2>1. CopyOK(newest[j], j, lsn) /\ \A c \in Copies(j) : CopyOK(c, j, lsn)
        BY <1>7 DEF AllInOrder
    <2>2. CASE j # k
        <3>1. \A c \in Copies(j) \cup {newest[j]} : c # NoEntry => c.lsn \in Nat
            BY <1>1, <1>9, EntryFacts DEF Entry
        <3>2. \A c \in Copies(j) \cup {newest[j]} : CopyOK(c, j, lsn) => CopyOK(c, j, lsn)'
            BY <1>1, <1>3, <1>5, <2>2, <3>1 DEF CopyOK
        <3>3. newest'[j] = newest[j] /\ Copies(j)' = Copies(j)
            BY <1>5, <1>8, <2>2
        <3> QED BY <2>1, <3>2, <3>3
    <2>3. CASE j = k
        <3>1. CopyOK(e, j, lsn)'
            BY <1>1, <1>2, <1>3, <1>4, <1>5, <2>3 DEF CopyOK
        <3>2. ASSUME NEW c \in Copies(k) PROVE CopyOK(c, k, lsn)'
            <4> SUFFICES ASSUME c # NoEntry PROVE CopyOK(c, k, lsn)'
                BY <1>4, <1>5 DEF CopyOK
            <4>1. c.lsn \in Nat /\ c.ts \in Nat
                BY <1>9 DEF Entry
            <4>2. newest[k] # NoEntry /\ (~rewound => c.lsn <= lsn) /\ c.ts <= newest[k].ts
                BY <2>1, <2>3 DEF CopyOK
            <4>3. newest[k].ts \in Nat /\ newest[k].ts <= Clock
                BY <1>1, <1>2, <4>2, EntryFacts
            <4>4. (~rewound => c.lsn <= lsn + 1) /\ c.ts < Clock + 1
                BY <1>1, <1>2, <4>1, <4>2, <4>3
            <4> QED BY <1>2, <1>3, <1>4, <1>5, <4>1, <4>4 DEF CopyOK
        <3> QED BY <1>5, <1>8, <2>3, <3>1, <3>2
    <2> QED BY <2>2, <2>3
<1>11. AllHeld'
    <2> SUFFICES ASSUME ~hidden', ~rewound', NEW j \in Keys, (Visible(newest[j]) # {})', ~InArchive(j)'
                 PROVE  Kept(j)' /\ \A c \in Copies(j)' : Older(c, j)'
        BY DEF AllHeld
    <2>1. CASE j # k
        <3>1. /\ ~hidden /\ ~rewound /\ Visible(newest[j]) # {} /\ ~InArchive(j)
              /\ newest'[j] = newest[j] /\ mem'[j] = mem[j] /\ wal'[j] = wal[j]
            BY <1>3, <1>5, <2>1 DEF Visible, InArchive
        <3>2. Kept(j) /\ \A c \in Copies(j) : Older(c, j)
            BY <1>7, <3>1 DEF AllHeld
        <3> QED BY <1>3, <1>8, <2>1, <3>1, <3>2 DEF InOwn, Older, Kept
    <2>2. CASE j = k
        <3>1. ASSUME NEW c \in Copies(k)' PROVE Older(c, k)'
            <4> SUFFICES ASSUME c # NoEntry, c # e PROVE c.lsn < e.lsn
                BY <1>5 DEF Older
            <4>1. c \in Copies(k)
                BY <1>8
            <4>2. c.lsn \in Nat /\ c.lsn <= lsn
                BY <1>3, <1>7, <1>9, <4>1 DEF AllInOrder, CopyOK, Entry
            <4> QED BY <1>1, <1>4, <4>2
        <3> QED BY <1>5, <2>2, <3>1 DEF Kept
    <2> QED BY <2>1, <2>2
<1>12. StateInv(Now)'
    <2>1. Mirrors'
        BY <1>5, <1>7 DEF Mirrors
    <2> QED BY <1>10, <1>11, <2>1, InvAfter
<1> QED BY <1>6, <1>12 DEF TierInv

LEMMA FlushStep ==
    ASSUME TierInv, NEW cut, flush_to_segments(cut)
    PROVE  TierInv'
<1> DEFINE s == [ents |-> mem, imported |-> FALSE]
<1>1. /\ mem \in Entries /\ wal \in Entries /\ segs \in Seq(Seg) /\ lsn \in Nat /\ fetched \in SUBSET Entries
      /\ hidden \in BOOLEAN /\ archived \in Seq(Entries) /\ newest \in Entries
    BY TypeFacts DEF TierInv
<1>2. /\ segs' = Append(segs, s) /\ mem' = Empty
      /\ wal' = [k \in Keys |-> IF wal[k] # NoEntry /\ wal[k].lsn > cut THEN wal[k] ELSE NoEntry]
      /\ UNCHANGED <<lsn, archived, fetched, remote, newest, hidden, rewound>>
    BY DEF flush_to_segments, archiveVars, auxVars
<1>3. s \in Seg /\ s.ents = mem /\ s.imported = FALSE
    BY <1>1 DEF Seg
<1>4. mem' \in Entries /\ \A k \in Keys : mem'[k] = NoEntry
    BY <1>2 DEF Empty, Entries
<1>4a. wal' \in Entries /\ \A k \in Keys : wal'[k] = NoEntry \/ wal'[k] = wal[k]
    BY <1>1, <1>2 DEF Entries
<1> HIDE DEF s
<1>5. /\ segs' \in Seq(Seg)
      /\ \A i \in DOMAIN segs' : segs'[i] = s \/ \E j \in DOMAIN segs : segs'[i] = segs[j]
      /\ \A j \in DOMAIN segs : j \in DOMAIN segs' /\ segs'[j] = segs[j]
      /\ Len(segs) + 1 \in DOMAIN segs' /\ segs'[Len(segs) + 1] = s
    BY <1>1, <1>2, <1>3
<1>6. TypesOK'
    <2>1. Now' \in State
        BY <1>1, <1>2, <1>4, <1>4a, <1>5, TypesAfter
    <2> QED BY <1>2, <2>1 DEF TierInv, TypesOK
<1>7. \A k \in Keys : \A e \in Copies(k)' : e = NoEntry \/ e \in Copies(k)
    <2> SUFFICES ASSUME NEW k \in Keys, NEW e \in Copies(k)' PROVE e = NoEntry \/ e \in Copies(k)
        OBVIOUS
    <2>1. CASE e = mem'[k] \/ e = wal'[k]
        BY <1>4, <1>4a, <2>1 DEF Copies
    <2>2. CASE \E i \in DOMAIN segs' : e = segs'[i].ents[k]
        <3>1. PICK i \in DOMAIN segs' : e = segs'[i].ents[k]
            BY <2>2
        <3>2. segs'[i].ents = mem \/ \E j \in DOMAIN segs : segs'[i] = segs[j]
            BY <1>3, <1>5
        <3> QED BY <3>1, <3>2 DEF Copies
    <2>3. CASE \E i \in DOMAIN archived' : e = archived'[i][k]
        BY <1>2, <2>3 DEF Copies
    <2> QED BY <2>1, <2>2, <2>3 DEF Copies
<1>8. \A k \in Keys : InArchive(k)' <=> InArchive(k)
    BY <1>2 DEF InArchive
<1>9. ASSUME NEW k \in Keys, Kept(k)
      PROVE  mem'[k] = NoEntry /\ InOwn(k)'
    <2>1. \E i \in DOMAIN segs' : ~segs'[i].imported /\ segs'[i].ents[k] = newest[k]
        BY <1>3, <1>5, <1>9 DEF InOwn, Kept
    <2> QED BY <1>2, <1>4, <2>1 DEF InOwn
<1>10. StateInv(Now)'
    <2>1. Mirrors'
        BY <1>4 DEF Mirrors
    <2> QED BY <1>1, <1>2, <1>4a, <1>7, <1>8, <1>9, <2>1, MoveKeeps
<1> QED BY <1>6, <1>10 DEF TierInv

\* What a merge leaves of a key: the record of an own segment with the highest LSN.
LEMMA MergedFacts ==
    ASSUME NEW ss \in Seq(Seg), NEW k \in Keys
    PROVE  LET hits == {i \in DOMAIN ss : ~ss[i].imported /\ ss[i].ents[k] # NoEntry} IN
           \/ Merged(ss, k) = NoEntry /\ hits = {}
           \/ \E t \in hits : /\ Merged(ss, k) = ss[t].ents[k] /\ ss[t].ents[k] \in Entry
                              /\ \A j \in hits : ss[j].ents[k].lsn <= ss[t].ents[k].lsn
<1> DEFINE hits == {i \in DOMAIN ss : ~ss[i].imported /\ ss[i].ents[k] # NoEntry}
           f == [i \in hits |-> ss[i].ents[k].lsn]
           L == {f[i] : i \in hits}
           top == {i \in hits : \A j \in hits : ss[j].ents[k].lsn <= ss[i].ents[k].lsn}
<1>1. DOMAIN ss = 1..Len(ss) /\ Len(ss) \in Nat /\ \A i \in DOMAIN ss : ss[i] \in Seg
    OBVIOUS
<1>2. hits \in SUBSET Nat /\ IsFiniteSet(hits)
    <2>1. hits \in SUBSET (1..Len(ss)) /\ IsFiniteSet(1..Len(ss))
        BY <1>1, FS_Interval
    <2> QED BY <2>1, FS_Subset
<1>3. \A i \in hits : ss[i].ents[k] \in Entry /\ f[i] = ss[i].ents[k].lsn /\ f[i] \in Nat
    <2>1. \A i \in hits : ss[i].ents[k] \in Entry
        BY <1>1 DEF Seg, Entries
    <2> QED BY <2>1 DEF Entry
<1>4. Merged(ss, k) = IF hits = {} THEN NoEntry ELSE ss[Min(top)].ents[k]
    BY Zenon DEF Merged
<1>5. CASE hits = {}
    BY <1>4, <1>5
<1>6. CASE hits # {}
    <2>1. L \in SUBSET Nat /\ L # {}
        BY <1>3, <1>6
    <2>2. IsFiniteSet(L)
        BY <1>2, FiniteImage
    <2> HIDE DEF f
    <2>3. Max(L) \in L /\ \A y \in L : y <= Max(L)
        <3> HIDE DEF L
        <3> QED BY <2>1, <2>2, FiniteMax
    <2>4. PICK x \in hits : Max(L) = f[x]
        BY <2>3
    <2>5. \A j \in hits : f[j] <= f[x]
        BY <2>3, <2>4
    <2> HIDE DEF L
    <2>6. top \in SUBSET Nat /\ top # {}
        BY <2>5, <1>2, <1>3
    <2>7. Min(top) \in top
        <3> HIDE DEF top
        <3> QED BY <2>6, MinExists
    <2>8. Min(top) \in hits /\ \A j \in hits : ss[j].ents[k].lsn <= ss[Min(top)].ents[k].lsn
        BY <2>7
    <2> HIDE DEF top, hits
    <2>9. \/ Merged(ss, k) = NoEntry /\ hits = {}
          \/ \E t \in hits : /\ Merged(ss, k) = ss[t].ents[k] /\ ss[t].ents[k] \in Entry
                             /\ \A j \in hits : ss[j].ents[k].lsn <= ss[t].ents[k].lsn
        BY <2>8, <1>3, <1>4, <1>6
    <2> QED BY <2>9 DEF hits
<1> QED BY <1>5, <1>6

\* What compaction leaves of a key is one of its copies, and the newest if that is
\* held in an own segment.
LEMMA CompactedFacts ==
    ASSUME TierInv
    PROVE  /\ Compacted(segs) \in Seq(Seg)
           /\ \A i \in DOMAIN Compacted(segs), k \in Keys :
                 LET e == Compacted(segs)[i].ents[k] IN
                 e = NoEntry \/ \E j \in DOMAIN segs : e = segs[j].ents[k]
           /\ \A k \in Keys : Visible(newest[k]) # {} /\ InOwn(k) /\ (\A e \in Copies(k) : Older(e, k)) =>
                 \E i \in DOMAIN Compacted(segs) :
                    ~Compacted(segs)[i].imported /\ Compacted(segs)[i].ents[k] = newest[k]
<1> DEFINE hits(k) == {i \in DOMAIN segs : ~segs[i].imported /\ segs[i].ents[k] # NoEntry}
           kept == [k \in Keys |-> IF Visible(Merged(segs, k)) # {} THEN Merged(segs, k) ELSE NoEntry]
           s == [ents |-> kept, imported |-> FALSE]
<1>1. segs \in Seq(Seg) /\ newest \in Entries
    BY TypeFacts DEF TierInv
<1>2. ASSUME NEW k \in Keys
      PROVE  \/ Merged(segs, k) = NoEntry /\ hits(k) = {}
             \/ \E t \in hits(k) : /\ Merged(segs, k) = segs[t].ents[k] /\ segs[t].ents[k] \in Entry
                                   /\ \A j \in hits(k) : segs[j].ents[k].lsn <= segs[t].ents[k].lsn
    BY <1>1, MergedFacts
<1>3. \A k \in Keys : \/ kept[k] = NoEntry
                      \/ kept[k] \in Entry /\ \E j \in DOMAIN segs : kept[k] = segs[j].ents[k]
    <2> SUFFICES ASSUME NEW k \in Keys, kept[k] # NoEntry
                 PROVE  kept[k] \in Entry /\ \E j \in DOMAIN segs : kept[k] = segs[j].ents[k]
        OBVIOUS
    <2>1. kept[k] = Merged(segs, k)
        OBVIOUS
    <2> HIDE DEF kept
    <2> QED BY <1>2, <2>1
<1>4. kept \in Entries
    <2>1. kept = [k \in Keys |-> kept[k]]
        BY Zenon
    <2> HIDE DEF kept
    <2> QED BY <1>3, <2>1 DEF Entries
<1>5. s \in Seg /\ s.ents = kept /\ s.imported = FALSE
    <2> HIDE DEF kept
    <2> QED BY <1>4 DEF Seg
<1>6. Compacted(segs) = IF Live(kept) = {} THEN <<>> ELSE <<s>>
    BY DEF Compacted
<1>7. ASSUME NEW k \in Keys, Visible(newest[k]) # {}, InOwn(k), \A e \in Copies(k) : Older(e, k)
      PROVE  kept[k] = newest[k] /\ newest[k] # NoEntry
    <2>1. newest[k] # NoEntry /\ newest[k].lsn \in Nat
        BY <1>1, <1>7, EntryFacts DEF Visible
    <2>2. PICK i \in hits(k) : segs[i].ents[k] = newest[k]
        BY <1>7, <2>1 DEF InOwn
    <2>3. PICK t \in hits(k) : /\ Merged(segs, k) = segs[t].ents[k] /\ segs[t].ents[k] \in Entry
                               /\ \A j \in hits(k) : segs[j].ents[k].lsn <= segs[t].ents[k].lsn
        BY <1>2, <2>2
    <2>4. segs[t].ents[k].lsn \in Nat /\ newest[k].lsn <= segs[t].ents[k].lsn
        BY <2>2, <2>3 DEF Entry
    <2>5. Older(segs[t].ents[k], k) /\ segs[t].ents[k] # NoEntry
        BY <1>7 DEF Copies
    <2>6. segs[t].ents[k] = newest[k]
        BY <2>1, <2>4, <2>5 DEF Older
    <2>7. Merged(segs, k) = newest[k]
        BY <2>3, <2>6
    <2> QED BY <1>7, <2>1, <2>7
<1> HIDE DEF kept, s
<1>8. /\ Compacted(segs) \in Seq(Seg)
      /\ \A i \in DOMAIN Compacted(segs) : Compacted(segs)[i] = s
      /\ Live(kept) # {} => 1 \in DOMAIN Compacted(segs)
    BY <1>5, <1>6
<1>9. ASSUME NEW i \in DOMAIN Compacted(segs), NEW k \in Keys
      PROVE  LET e == Compacted(segs)[i].ents[k] IN
             e = NoEntry \/ \E j \in DOMAIN segs : e = segs[j].ents[k]
    <2>1. Compacted(segs)[i].ents[k] = kept[k]
        BY <1>5, <1>8
    <2> QED BY <1>3, <2>1
<1>10. ASSUME NEW k \in Keys, Visible(newest[k]) # {}, InOwn(k), \A e \in Copies(k) : Older(e, k)
       PROVE  \E i \in DOMAIN Compacted(segs) :
                    ~Compacted(segs)[i].imported /\ Compacted(segs)[i].ents[k] = newest[k]
    <2>1. kept[k] = newest[k] /\ kept[k] # NoEntry
        BY <1>7, <1>10
    <2>2. Live(kept) # {}
        BY <2>1 DEF Live
    <2> QED BY <1>5, <1>8, <2>1, <2>2
<1> QED BY <1>8, <1>9, <1>10

LEMMA CompactStep ==
    ASSUME TierInv, compact_once
    PROVE  TierInv'
<1>1. /\ mem \in Entries /\ wal \in Entries /\ lsn \in Nat /\ fetched \in SUBSET Entries /\ hidden \in BOOLEAN
    BY TypeFacts DEF TierInv
<1>2. segs' = Compacted(segs) /\ UNCHANGED <<mem, wal, lsn, archived, fetched, remote, newest, hidden, rewound>>
    BY DEF compact_once, archiveVars, auxVars
<1>3. /\ segs' \in Seq(Seg)
      /\ \A i \in DOMAIN segs', k \in Keys :
            segs'[i].ents[k] = NoEntry \/ \E j \in DOMAIN segs : segs'[i].ents[k] = segs[j].ents[k]
      /\ \A k \in Keys : Visible(newest[k]) # {} /\ InOwn(k) /\ (\A e \in Copies(k) : Older(e, k)) =>
            \E i \in DOMAIN segs' : ~segs'[i].imported /\ segs'[i].ents[k] = newest[k]
    BY <1>2, CompactedFacts
<1>4. TypesOK'
    <2>1. Now' \in State
        BY <1>1, <1>2, <1>3, TypesAfter
    <2> QED BY <1>2, <2>1 DEF TierInv, TypesOK
<1>5. \A k \in Keys : \A e \in Copies(k)' : e = NoEntry \/ e \in Copies(k)
    BY <1>2, <1>3 DEF Copies
<1>6. \A k \in Keys : InArchive(k)' <=> InArchive(k)
    BY <1>2 DEF InArchive
<1>7. ASSUME NEW k \in Keys, Visible(newest[k]) # {}, Kept(k), \A e \in Copies(k) : Older(e, k)
      PROVE  mem'[k] = newest[k] \/ (mem'[k] = NoEntry /\ InOwn(k)')
    BY <1>2, <1>3, <1>7 DEF InOwn, Kept
<1>8. StateInv(Now)'
    BY <1>1, <1>2, <1>5, <1>6, <1>7, MirrorsSame, MoveKeeps
<1> QED BY <1>4, <1>8 DEF TierInv

\* Stripping moves one segment to the end and takes index records from it.
LEMMA StripFacts ==
    ASSUME segs \in Seq(Seg), NEW i \in DOMAIN segs
    PROVE  /\ Strip(segs, i) \in Seq(Seg)
           /\ \A l \in DOMAIN Strip(segs, i), k \in Keys :
                 LET e == Strip(segs, i)[l].ents[k] IN
                 e = NoEntry \/ \E j \in DOMAIN segs : e = segs[j].ents[k]
           /\ \A j \in DOMAIN segs : j # i => \E l \in DOMAIN Strip(segs, i) : Strip(segs, i)[l] = segs[j]
<1> DEFINE kept == Filtered(segs[i].ents)
           s == [ents |-> kept, imported |-> FALSE]
           r == RemoveAt(segs, i)
<1>1. segs[i].ents \in Entries
    <2>1. segs[i] \in Seg
        OBVIOUS
    <2> QED BY <2>1 DEF Seg
<1>2. kept \in Entries /\ \A k \in Keys : kept[k] = NoEntry \/ kept[k] = segs[i].ents[k]
    BY <1>1 DEF Filtered, Entries
<1>3. Strip(segs, i) = IF Live(kept) \in {{}, Live(segs[i].ents)} THEN segs ELSE Append(r, s)
    BY DEF Strip
<1> HIDE DEF kept
<1>4. s \in Seg /\ s.ents = kept
    BY <1>2 DEF Seg
<1>5. /\ r \in Seq(Seg)
      /\ \A j \in DOMAIN r : \E l \in DOMAIN segs : l # i /\ r[j] = segs[l]
      /\ \A l \in DOMAIN segs : l # i => \E j \in DOMAIN r : r[j] = segs[l]
    BY RemoveAtFacts
<1> HIDE DEF s, r
<1>6. CASE Live(kept) \in {{}, Live(segs[i].ents)}
    <2>1. Strip(segs, i) = segs
        BY <1>3, <1>6
    <2> QED BY <2>1
<1>7. CASE Live(kept) \notin {{}, Live(segs[i].ents)}
    <2> DEFINE t == Append(r, s)
    <2>1. Strip(segs, i) = t
        BY <1>3, <1>7
    <2>2. t \in Seq(Seg) /\ (\A l \in DOMAIN t : t[l] = s \/ \E j \in DOMAIN r : t[l] = r[j])
          /\ \A j \in DOMAIN r : j \in DOMAIN t /\ t[j] = r[j]
        <3>1. r \in Seq(Seg) /\ s \in Seg
            BY <1>4, <1>5
        <3>2. \A l \in DOMAIN t : t[l] = s \/ \E j \in DOMAIN r : t[l] = r[j]
            BY <3>1, AppendAt
        <3>3. t \in Seq(Seg) /\ \A j \in DOMAIN r : j \in DOMAIN t /\ t[j] = r[j]
            BY <3>1
        <3> QED BY <3>2, <3>3
    <2> HIDE DEF t
    <2>3. ASSUME NEW l \in DOMAIN t, NEW k \in Keys
          PROVE  t[l].ents[k] = NoEntry \/ \E j \in DOMAIN segs : t[l].ents[k] = segs[j].ents[k]
        <3>1. CASE t[l] = s
            BY <1>2, <1>4, <3>1
        <3>2. CASE \E j \in DOMAIN r : t[l] = r[j]
            <4>1. PICK j \in DOMAIN segs : t[l] = segs[j]
                BY <1>5, <3>2
            <4> QED BY <4>1
        <3> QED BY <2>2, <3>1, <3>2
    <2>4. \A j \in DOMAIN segs : j # i => \E l \in DOMAIN t : t[l] = segs[j]
        BY <1>5, <2>2
    <2> QED BY <2>1, <2>2, <2>3, <2>4
<1> QED BY <1>6, <1>7

\* Leaving out a segment that is archived.
LEMMA DropKeeps ==
    ASSUME TierInv, NEW i \in DOMAIN segs, UNCHANGED <<mem, wal, lsn, fetched, newest, hidden, rewound>>,
           segs' \in Seq(Seg), archived' \in Seq(Entries), \A h \in DOMAIN remote' : remote'[h] \in {"whole", "torn"},
           \A a \in DOMAIN archived' : archived'[a] \in DOMAIN remote',
           \A a \in DOMAIN archived' : archived'[a] = segs[i].ents \/ \E b \in DOMAIN archived : archived'[a] = archived[b],
           \A b \in DOMAIN archived : \E a \in DOMAIN archived' : archived'[a] = archived[b],
           \E a \in DOMAIN archived' : archived'[a] = segs[i].ents,
           \A l \in DOMAIN segs', k \in Keys :
               segs'[l].ents[k] = NoEntry \/ \E j \in DOMAIN segs : segs'[l].ents[k] = segs[j].ents[k],
           \A j \in DOMAIN segs : j # i => \E l \in DOMAIN segs' : segs'[l] = segs[j]
    PROVE  TierInv'
<1>1. mem \in Entries /\ wal \in Entries /\ lsn \in Nat /\ fetched \in SUBSET Entries /\ hidden \in BOOLEAN
    BY TypeFacts DEF TierInv
<1>2. TypesOK'
    <2>1. Now' \in State
        BY <1>1, TypesAfter
    <2> QED BY <2>1 DEF TierInv, TypesOK
<1>3. \A k \in Keys : \A e \in Copies(k)' : e = NoEntry \/ e \in Copies(k)
    <2> SUFFICES ASSUME NEW k \in Keys, NEW e \in Copies(k)' PROVE e = NoEntry \/ e \in Copies(k)
        OBVIOUS
    <2>1. CASE e = mem'[k] \/ e = wal'[k]
        BY <2>1 DEF Copies
    <2>2. CASE \E l \in DOMAIN segs' : e = segs'[l].ents[k]
        BY <2>2 DEF Copies
    <2>3. CASE \E a \in DOMAIN archived' : e = archived'[a][k]
        BY <2>3 DEF Copies
    <2> QED BY <2>1, <2>2, <2>3 DEF Copies
<1>4. \A k \in Keys : InArchive(k) => InArchive(k)'
    <2> SUFFICES ASSUME NEW k \in Keys, InArchive(k) PROVE InArchive(k)'
        OBVIOUS
    <2>1. PICK b \in DOMAIN archived : Same(archived[b][k], newest[k])
        BY DEF InArchive
    <2>2. PICK a \in DOMAIN archived' : archived'[a] = archived[b]
        OBVIOUS
    <2> QED BY <2>1, <2>2 DEF InArchive, Same
<1>5. ASSUME NEW k \in Keys, Visible(newest[k]) # {}, ~InArchive(k)', Kept(k)
      PROVE  mem'[k] = newest[k] \/ (mem'[k] = NoEntry /\ InOwn(k)')
    <2>1. CASE mem[k] = newest[k]
        BY <2>1
    <2>2. CASE mem[k] = NoEntry /\ InOwn(k)
        <3>1. PICK j \in DOMAIN segs : ~segs[j].imported /\ segs[j].ents[k] = newest[k]
            BY <2>2 DEF InOwn
        <3>2. newest[k] # NoEntry
            BY <1>5 DEF Visible
        <3>3. segs[i].ents[k] # newest[k]
            BY <1>5, <3>2 DEF InArchive, Same
        <3>4. PICK l \in DOMAIN segs' : segs'[l] = segs[j]
            BY <3>1, <3>3
        <3> QED BY <2>2, <3>1, <3>4 DEF InOwn
    <2> QED BY <1>5, <2>1, <2>2 DEF Kept
<1>6. StateInv(Now)'
    <2>1. /\ Mirrors' /\ lsn' \in Nat /\ (rewound => rewound') /\ (~rewound' => lsn <= lsn')
          /\ \A k \in Keys : wal'[k] = NoEntry \/ wal'[k] = wal[k]
        BY <1>1, MirrorsSame
    <2> QED BY <1>3, <1>4, <1>5, <2>1, MoveKeeps
<1> QED BY <1>2, <1>6 DEF TierInv

LEMMA ArchiveStep ==
    ASSUME TierInv, NEW i \in DOMAIN segs, NEW strip \in BOOLEAN, archive_segments(i, strip)
    PROVE  TierInv'
<1> DEFINE h == segs[i].ents
<1>1. /\ segs \in Seq(Seg) /\ archived \in Seq(Entries) /\ h \in Entries
      /\ \A a \in DOMAIN archived : archived[a] \in DOMAIN remote
      /\ \A g \in DOMAIN remote : remote[g] \in {"whole", "torn"}
    BY TypeFacts DEF TierInv, TypesOK
<1>2. /\ remote' = [g \in DOMAIN remote \cup {h} |-> IF g \in DOMAIN remote THEN remote[g] ELSE "whole"]
      /\ archived' = Append(archived, h)
      /\ segs' = IF strip THEN Strip(segs, i) ELSE segs
      /\ UNCHANGED <<mem, wal, lsn, fetched, newest, hidden, rewound>>
    BY DEF archive_segments, auxVars
<1> HIDE DEF h
<1>3. /\ archived' \in Seq(Entries)
      /\ \A a \in DOMAIN archived' : archived'[a] = h \/ \E b \in DOMAIN archived : archived'[a] = archived[b]
      /\ \A b \in DOMAIN archived : b \in DOMAIN archived' /\ archived'[b] = archived[b]
      /\ Len(archived) + 1 \in DOMAIN archived' /\ archived'[Len(archived) + 1] = h
    BY <1>1, <1>2
<1>4. /\ DOMAIN remote' = DOMAIN remote \cup {h}
      /\ \A g \in DOMAIN remote' : remote'[g] \in {"whole", "torn"}
    BY <1>1, <1>2
<1>5. \A a \in DOMAIN archived' : archived'[a] \in DOMAIN remote'
    BY <1>1, <1>3, <1>4
<1>6. /\ segs' \in Seq(Seg)
      /\ \A l \in DOMAIN segs', k \in Keys :
            segs'[l].ents[k] = NoEntry \/ \E j \in DOMAIN segs : segs'[l].ents[k] = segs[j].ents[k]
      /\ \A j \in DOMAIN segs : j # i => \E l \in DOMAIN segs' : segs'[l] = segs[j]
    <2>1. CASE strip
        <3>1. segs' = Strip(segs, i)
            BY <1>2, <2>1
        <3> QED BY <1>1, <3>1, StripFacts
    <2>2. CASE ~strip
        <3>1. segs' = segs
            BY <1>2, <2>2
        <3> QED BY <1>1, <3>1
    <2> QED BY <2>1, <2>2
<1>7. \E a \in DOMAIN archived' : archived'[a] = h
    BY <1>3
<1>8. \A b \in DOMAIN archived : \E a \in DOMAIN archived' : archived'[a] = archived[b]
    BY <1>3
<1> QED BY <1>2, <1>3, <1>4, <1>5, <1>6, <1>7, <1>8, DropKeeps DEF h

LEMMA PruneStep ==
    ASSUME TierInv, NEW i \in DOMAIN segs, prune_local_segment(i)
    PROVE  TierInv'
<1>1. /\ segs \in Seq(Seg) /\ archived \in Seq(Entries)
      /\ \A a \in DOMAIN archived : archived[a] \in DOMAIN remote
      /\ \A g \in DOMAIN remote : remote[g] \in {"whole", "torn"}
    BY TypeFacts DEF TierInv, TypesOK
<1>2. /\ segs' = RemoveAt(segs, i)
      /\ \E a \in DOMAIN archived : archived[a] = segs[i].ents
      /\ UNCHANGED <<mem, wal, lsn, archived, fetched, remote, newest, hidden, rewound>>
    BY DEF prune_local_segment, archiveVars, auxVars, ToSet
<1>3. /\ segs' \in Seq(Seg)
      /\ \A l \in DOMAIN segs' : \E j \in DOMAIN segs : segs'[l] = segs[j]
      /\ \A j \in DOMAIN segs : j # i => \E l \in DOMAIN segs' : segs'[l] = segs[j]
    BY <1>1, <1>2, RemoveAtFacts
<1>4. \A l \in DOMAIN segs', k \in Keys :
          segs'[l].ents[k] = NoEntry \/ \E j \in DOMAIN segs : segs'[l].ents[k] = segs[j].ents[k]
    BY <1>3
<1> QED BY <1>1, <1>2, <1>3, <1>4, DropKeeps

\* The archived list stays the same set; the memtable stays or is replayed.
LEMMA SameKeeps ==
    ASSUME TierInv, UNCHANGED <<wal, segs, newest, hidden>>, mem' = mem \/ mem' = wal,
           lsn' \in Nat, rewound => rewound', ~rewound' => lsn <= lsn', fetched' \in SUBSET Entries,
           archived' \in Seq(Entries), \A h \in DOMAIN remote' : remote'[h] \in {"whole", "torn"},
           DOMAIN remote \subseteq DOMAIN remote',
           \A a \in DOMAIN archived' : \E b \in DOMAIN archived : archived'[a] = archived[b],
           \A b \in DOMAIN archived : \E a \in DOMAIN archived' : archived'[a] = archived[b]
    PROVE  TierInv'
<1>1. mem \in Entries /\ wal \in Entries /\ segs \in Seq(Seg) /\ lsn \in Nat /\ hidden \in BOOLEAN
    BY TypeFacts DEF TierInv
<1>2. \A a \in DOMAIN archived' : archived'[a] \in DOMAIN remote'
    <2>1. \A b \in DOMAIN archived : archived[b] \in DOMAIN remote
        BY DEF TierInv, TypesOK
    <2> QED BY <2>1
<1>3. TypesOK'
    <2>1. Now' \in State
        BY <1>1, TypesAfter
    <2> QED BY <1>2, <2>1 DEF TierInv, TypesOK
<1>4. \A k \in Keys : \A e \in Copies(k)' : e = NoEntry \/ e \in Copies(k)
    BY DEF Copies
<1>5. \A k \in Keys : InArchive(k) => InArchive(k)'
    <2> SUFFICES ASSUME NEW k \in Keys, InArchive(k) PROVE InArchive(k)'
        OBVIOUS
    <2>1. PICK b \in DOMAIN archived : Same(archived[b][k], newest[k])
        BY DEF InArchive
    <2>2. PICK a \in DOMAIN archived' : archived'[a] = archived[b]
        OBVIOUS
    <2> QED BY <2>1, <2>2 DEF InArchive, Same
<1>5a. Mirrors /\ Mirrors'
    BY InvBefore DEF TierInv, Mirrors
<1>6. ASSUME NEW k \in Keys, Visible(newest[k]) # {}, Kept(k)
      PROVE  mem'[k] = newest[k] \/ (mem'[k] = NoEntry /\ InOwn(k)')
    <2>1. newest[k] # NoEntry /\ (mem[k] = NoEntry \/ mem[k] = wal[k])
        BY <1>5a, <1>6 DEF Visible, Mirrors
    <2>2. InOwn(k) => InOwn(k)'
        BY DEF InOwn
    <2> QED BY <1>6, <2>1, <2>2 DEF Kept
<1>7. StateInv(Now)'
    BY <1>4, <1>5, <1>5a, <1>6, MoveKeeps
<1> QED BY <1>3, <1>7 DEF TierInv

LEMMA ArchiveFailedStep ==
    ASSUME TierInv, NEW i \in DOMAIN segs, archive_failed(i)
    PROVE  TierInv'
<1>1. /\ archived \in Seq(Entries) /\ lsn \in Nat /\ fetched \in SUBSET Entries
      /\ \A g \in DOMAIN remote : remote[g] \in {"whole", "torn"}
    BY TypeFacts DEF TierInv, TypesOK
<1>2. /\ remote' = [g \in DOMAIN remote \cup {segs[i].ents} |->
                       IF g \in DOMAIN remote THEN remote[g] ELSE "torn"]
      /\ UNCHANGED <<mem, wal, segs, lsn, archived, fetched, newest, hidden, rewound>>
    BY DEF archive_failed, localVars, auxVars
<1>3. /\ DOMAIN remote \subseteq DOMAIN remote'
      /\ \A g \in DOMAIN remote' : remote'[g] \in {"whole", "torn"}
    BY <1>1, <1>2
<1> QED BY <1>1, <1>2, <1>3, SameKeeps

LEMMA RangeStep ==
    ASSUME TierInv, UNCHANGED <<localVars, archiveVars, auxVars>>
    PROVE  TierInv'
<1>1. /\ archived \in Seq(Entries) /\ lsn \in Nat /\ fetched \in SUBSET Entries
      /\ \A g \in DOMAIN remote : remote[g] \in {"whole", "torn"}
    BY TypeFacts DEF TierInv, TypesOK
<1>2. UNCHANGED <<mem, wal, segs, lsn, archived, fetched, remote, newest, hidden, rewound>>
    BY DEF localVars, archiveVars, auxVars
<1> QED BY <1>1, <1>2, SameKeeps

\* What a reopening takes for the LSN counter.
LEMMA LastLsnFacts == ASSUME NEW w \in Entries PROVE LastLsn(w) \in Nat
<1> DEFINE f == [k \in Live(w) |-> w[k].lsn]
           L == {f[k] : k \in Live(w)}
<1>1. L \in SUBSET Nat
    BY DEF Live, Entries, Entry
<1>2. IsFiniteSet(L)
    <2>1. 1 \in Int /\ MaxKey \in Int /\ Live(w) \subseteq 1..MaxKey
        BY TierAssumption DEF Live, Keys
    <2>2. IsFiniteSet(1..MaxKey)
        BY <2>1, FS_Interval
    <2>3. IsFiniteSet(Live(w))
        BY <2>1, <2>2, FS_Subset
    <2> QED BY <2>3, FiniteImage
<1>3. LastLsn(w) = IF L = {} THEN 0 ELSE Max(L)
    BY DEF LastLsn
<1> HIDE DEF L
<1> QED BY <1>1, <1>2, <1>3, FiniteMax

LEMMA RestartStep ==
    ASSUME TierInv, restart
    PROVE  TierInv'
<1> DEFINE I == {i \in DOMAIN archived : archived[i] \notin {archived[j] : j \in 1..(i - 1)}}
<1>1. /\ archived \in Seq(Entries) /\ DOMAIN archived = 1..Len(archived) /\ Len(archived) \in Nat
      /\ \A g \in DOMAIN remote : remote[g] \in {"whole", "torn"}
    BY TypeFacts DEF TierInv, TypesOK
<1>2. /\ archived' = Archived(I) /\ fetched' = {}
      /\ mem' = wal /\ lsn' = LastLsn(wal)
      /\ rewound' = (rewound \/ lsn' < lsn)
      /\ UNCHANGED <<wal, segs, remote, newest, hidden>>
    BY DEF restart
<1>3. ASSUME NEW b \in DOMAIN archived PROVE \E i \in I : archived[i] = archived[b]
    <2> DEFINE J == {j \in DOMAIN archived : archived[j] = archived[b]}
    <2>1. J \in SUBSET Nat /\ J # {}
        BY <1>1
    <2>2. Min(J) \in J /\ \A j \in J : Min(J) <= j
        <3> HIDE DEF J
        <3> QED BY <2>1, MinExists
    <2>3. PICK m \in J : \A j \in J : m <= j
        BY <2>2
    <2>4. ASSUME NEW j \in 1..(m - 1), archived[m] = archived[j] PROVE FALSE
        <3>1. j \in DOMAIN archived /\ ~(m <= j)
            BY <1>1, <2>3
        <3> QED BY <2>3, <2>4, <3>1
    <2>5. m \in I
        BY <2>3, <2>4
    <2> QED BY <2>3, <2>5
<1>4. I \in SUBSET DOMAIN archived
    OBVIOUS
<1> HIDE DEF I
<1>5. /\ archived' \in Seq(Entries)
      /\ \A a \in DOMAIN archived' : \E b \in I : archived'[a] = archived[b]
      /\ \A i \in I : \E a \in DOMAIN archived' : archived'[a] = archived[i]
    BY <1>1, <1>2, <1>4, ArchivedFacts
<1>6. \A b \in DOMAIN archived : \E a \in DOMAIN archived' : archived'[a] = archived[b]
    BY <1>3, <1>5
<1>7. \A a \in DOMAIN archived' : \E b \in DOMAIN archived : archived'[a] = archived[b]
    BY <1>4, <1>5
<1>8. fetched' \in SUBSET Entries /\ DOMAIN remote \subseteq DOMAIN remote'
    BY <1>2
<1>9. lsn' \in Nat /\ (rewound => rewound') /\ (~rewound' => lsn <= lsn')
    <2>1. wal \in Entries /\ lsn \in Nat
        BY TypeFacts DEF TierInv
    <2>2. lsn' \in Nat
        BY <1>2, <2>1, LastLsnFacts
    <2>3. rewound => rewound'
        BY <1>2, Zenon
    <2>4. ~rewound' => ~(lsn' < lsn)
        BY <1>2, Zenon
    <2> QED BY <2>1, <2>2, <2>3, <2>4
<1> QED BY <1>1, <1>2, <1>5, <1>6, <1>7, <1>8, <1>9, SameKeeps

\* A loop of imports of archived segments.
LEMMA BecomeStep ==
    ASSUME TierInv, NEW hs \in Seq(Entries), \A i \in DOMAIN hs : \E a \in DOMAIN archived : hs[i] = archived[a],
           Become(AfterFetching(hs))
    PROVE  TierInv'
<1> DEFINE st == AfterFetching(hs)
<1>1. st \in State /\ StateInv(st)
    <2>1. Now \in State /\ archived \in Seq(Entries) /\ newest \in Entries /\ StateInv(Now)
        BY DEF TierInv, TypesOK
    <2> QED BY <2>1, FetchingKeeps
<1>2. /\ mem' = st.mem /\ wal' = st.wal /\ segs' = st.segs /\ lsn' = st.lsn /\ fetched' = st.fetched /\ hidden' = st.hidden
      /\ UNCHANGED <<archived, remote, newest, rewound>>
    BY DEF Become
<1>3. PICK u : u = st
    OBVIOUS
<1> HIDE DEF st
<1>4. Now' \in State
    BY <1>1, <1>2, StateFacts, TypesAfter
<1>5. TypesOK'
    BY <1>2, <1>4 DEF TierInv, TypesOK
<1>6. StateInv(u)
    BY <1>1, <1>3
<1>7. StateInv(Now)'
    <2>1. Now'.mem = u.mem /\ Now'.wal = u.wal /\ Now'.segs = u.segs /\ Now'.lsn = u.lsn /\ Now'.hidden = u.hidden
        BY <1>2, <1>3, NowFields
    <2>2. CopiesOK(Now)'
        <3>1. CopiesOK(u)
            BY <1>6 DEF StateInv
        <3> QED BY <1>2, <2>1, <3>1 DEF CopiesOK, CopyOK
    <2>3. HeldOK(Now)'
        <3>1. HeldOK(u)
            BY <1>6 DEF StateInv
        <3> QED BY <1>2, <2>1, <3>1 DEF HeldOK, Held, InArchive, Older, Same, Visible
    <2> QED BY <2>2, <2>3 DEF StateInv
<1> QED BY <1>5, <1>7 DEF TierInv

LEMMA FetchStep ==
    ASSUME TierInv, NEW hs \in Seq(Entries), \A i \in DOMAIN hs : \E a \in DOMAIN archived : hs[i] = archived[a],
           NEW n, fetch(hs, n)
    PROVE  TierInv'
<1>1. n \in 1..Len(hs) /\ Become(AfterFetching(SubSeq(hs, 1, n)))
    BY DEF fetch
<1>2. SubSeq(hs, 1, n) \in Seq(Entries) /\ \A i \in DOMAIN SubSeq(hs, 1, n) : i \in DOMAIN hs /\ SubSeq(hs, 1, n)[i] = hs[i]
    BY <1>1
<1>3. \A i \in DOMAIN SubSeq(hs, 1, n) : \E a \in DOMAIN archived : SubSeq(hs, 1, n)[i] = archived[a]
    BY <1>2
<1> QED BY <1>1, <1>2, <1>3, BecomeStep

LEMMA NextInv == TierInv /\ [Next]_vars => TierInv'
<1> SUFFICES ASSUME TierInv, [Next]_vars PROVE TierInv'
    OBVIOUS
<1>0. archived \in Seq(Entries) /\ \A a \in DOMAIN archived : archived[a] \in Entries
    BY TypeFacts DEF TierInv
<1>1. CASE UNCHANGED vars
    BY <1>1, RangeStep DEF vars
<1>2. ASSUME NEW k \in Keys, NEW op \in {"Put", "Delete"}, write(k, op) PROVE TierInv'
    BY <1>2, WriteStep
<1>3. ASSUME NEW cut, flush_to_segments(cut) PROVE TierInv'
    BY <1>3, FlushStep
<1>4. CASE compact_once
    BY <1>4, CompactStep
<1>5. ASSUME NEW i \in DOMAIN segs, NEW strip \in BOOLEAN, archive_segments(i, strip) PROVE TierInv'
    BY <1>5, ArchiveStep
<1>6. ASSUME NEW i \in DOMAIN segs, archive_failed(i) \/ prune_local_segment(i) PROVE TierInv'
    BY <1>6, ArchiveFailedStep, PruneStep
<1>7. ASSUME NEW I \in SUBSET DOMAIN archived
      PROVE  /\ Archived(I) \in Seq(Entries)
             /\ \A n \in DOMAIN Archived(I) : \E a \in DOMAIN archived : Archived(I)[n] = archived[a]
    BY <1>0, ArchivedFacts
<1>8. ASSUME NEW k \in Keys, NEW F, get(k, F) PROVE TierInv'
    <2> DEFINE I == {i \in DOMAIN archived : InBounds(archived[i], k) /\ archived[i] \notin fetched \cup F}
    <2>1. Become(AfterFetching(Archived(I)))
        BY <1>8 DEF get, AfterGet, ToFetch
    <2>2. I \in SUBSET DOMAIN archived
        OBVIOUS
    <2> HIDE DEF I
    <2> QED BY <1>7, <2>1, <2>2, BecomeStep
<1>9. ASSUME NEW i \in DOMAIN archived, fetch(<<archived[i]>>, 1) PROVE TierInv'
    <2>1. <<archived[i]>> \in Seq(Entries) /\ \A n \in DOMAIN <<archived[i]>> : <<archived[i]>>[n] = archived[i]
        BY <1>0
    <2> QED BY <1>9, <2>1, FetchStep
<1>10. ASSUME NEW lo, NEW hi, NEW n, fetch(Archived({i \in DOMAIN archived : Overlaps(archived[i], lo, hi)}), n)
       PROVE  TierInv'
    <2> DEFINE I == {i \in DOMAIN archived : Overlaps(archived[i], lo, hi)}
    <2>1. I \in SUBSET DOMAIN archived /\ fetch(Archived(I), n)
        BY <1>10
    <2> HIDE DEF I
    <2> QED BY <1>7, <2>1, FetchStep
<1>11. ASSUME NEW n, fetch(Archived({i \in DOMAIN archived : archived[i] \notin fetched}), n)
       PROVE  TierInv'
    <2> DEFINE I == {i \in DOMAIN archived : archived[i] \notin fetched}
    <2>1. I \in SUBSET DOMAIN archived /\ fetch(Archived(I), n)
        BY <1>11
    <2> HIDE DEF I
    <2> QED BY <1>7, <2>1, FetchStep
<1>12. ASSUME NEW lo, NEW hi, NEW F, range(lo, hi, F) PROVE TierInv'
    BY <1>12, RangeStep DEF range
<1>13. CASE restart
    BY <1>13, RestartStep
<1> QED BY <1>1, <1>2, <1>3, <1>4, <1>5, <1>6, <1>8, <1>9, <1>10, <1>11, <1>12, <1>13 DEF Next

LEMMA InitInv == Init => TierInv
<1> SUFFICES ASSUME Init PROVE TierInv
    OBVIOUS
<1>1. /\ mem = Empty /\ wal = Empty /\ segs = <<>> /\ lsn = 0 /\ archived = <<>> /\ fetched = {} /\ newest = Empty
      /\ hidden = FALSE /\ DOMAIN remote = {}
    BY DEF Init
<1>2. Empty \in Entries /\ \A k \in Keys : Empty[k] = NoEntry
    BY DEF Empty, Entries
<1>3. Now \in State
    <2>1. <<>> \in Seq(Seg) /\ {} \in SUBSET Entries /\ 0 \in Nat /\ FALSE \in BOOLEAN
        OBVIOUS
    <2> QED BY <1>1, <1>2, <2>1 DEF Now, State
<1>4. TypesOK
    BY <1>1, <1>2, <1>3 DEF TypesOK
<1>5. StateInv(Now)
    BY <1>1, <1>2, NowFields DEF StateInv, CopiesOK, HeldOK, CopyOK, Visible
<1> QED BY <1>4, <1>5 DEF TierInv

\* Archiving, stripping, pruning, fetching and compacting, in any order and with
\* failing transfers and restarts, lose no newest value, unless a torn upload was listed,
\* an import was registered over a newer entry, or a reopening lowered the LSN counter.
THEOREM NothingLost == Spec => []NewestSurvives
<1>1. TierInv => NewestSurvives
    <2> SUFFICES ASSUME TierInv, ToSet(archived) \cap Torn = {}, ~hidden, ~rewound, NEW k \in Keys, Visible(newest[k]) # {}
                 PROVE  Survives(k)
        BY DEF NewestSurvives
    <2>1. newest[k] # NoEntry
        BY DEF Visible
    <2>2. CASE InArchive(k)
        <3>1. PICK a \in DOMAIN archived : Same(archived[a][k], newest[k])
            BY <2>2 DEF InArchive
        <3>2. archived[a] \in ToSet(archived) /\ archived[a] \in DOMAIN remote /\ remote[archived[a]] = "whole"
            BY DEF ToSet, TierInv, TypesOK, Torn
        <3> QED BY <3>1, <3>2 DEF Survives
    <2>3. CASE ~InArchive(k)
        <3>1. mem[k] = newest[k] \/ InOwn(k)
            BY <2>3, InvBefore DEF TierInv, AllHeld, Kept
        <3>2. newest[k] \in AllLocal(k)
            BY <2>1, <3>1 DEF InOwn, AllLocal
        <3> QED BY <2>1, <3>2 DEF Survives, Same
    <2> QED BY <2>2, <2>3
<1> QED BY InitInv, NextInv, <1>1, PTL DEF Spec
-----------------------------------------------------------------------------
(***************************************************************************)
(* Reads.                                                                  *)
(***************************************************************************)
\* The operation of a copy of the newest write is that of the newest write.
LEMMA SameVisible ==
    ASSUME NEW e, NEW k, NEW l, CopyOK(e, k, l), Same(e, newest[k])
    PROVE  Visible(e) = Visible(newest[k])
BY DEF CopyOK, Same, Visible

\* A read of the segments misses only a key that is in none of them.
LEMMA SegmentGetFacts ==
    ASSUME NEW ss \in Seq(Seg), NEW k \in Keys
    PROVE  /\ SegmentGet(ss, k) = NoEntry => \A i \in DOMAIN ss : ss[i].ents[k] = NoEntry
           /\ SegmentGet(ss, k) # NoEntry => \E i \in DOMAIN ss : SegmentGet(ss, k) = ss[i].ents[k]
<1> DEFINE hits == {i \in DOMAIN ss : ss[i].ents[k] # NoEntry}
<1>1. CASE hits = {}
    BY <1>1 DEF SegmentGet
<1>2. CASE hits # {}
    <2>1. hits \in SUBSET Nat /\ Len(ss) \in Nat /\ \A i \in hits : i <= Len(ss)
        OBVIOUS
    <2>2. Max(hits) \in hits /\ \A i \in hits : i <= Max(hits)
        <3> HIDE DEF hits
        <3> QED BY <1>2, <2>1, MaxExists
    <2> DEFINE m == CHOOSE i \in hits : \A j \in hits : j <= i
    <2>3. m \in hits
        BY <2>2
    <2>4. SegmentGet(ss, k) = ss[m].ents[k]
        BY <1>2 DEF SegmentGet
    <2> HIDE DEF m
    <2> QED BY <2>3, <2>4
<1> QED BY <1>1, <1>2

\* A key of a segment is within its bounds.
LEMMA BoundsFacts ==
    ASSUME NEW h \in Entries, NEW k \in Keys, h[k] # NoEntry
    PROVE  MinKey(h) \in Nat /\ MaxKeyOf(h) \in Nat /\ MinKey(h) <= k /\ k <= MaxKeyOf(h)
<1> DEFINE L == Live(h)
<1>1. L \in SUBSET Nat /\ k \in L /\ MaxKey \in Nat /\ \A j \in L : j <= MaxKey
    BY TierAssumption DEF Live, Keys
<1> HIDE DEF L
<1>2. L # {}
    BY <1>1
<1>3. Min(L) \in L /\ \A j \in L : Min(L) <= j
    BY <1>1, <1>2, MinExists
<1>4. Max(L) \in L /\ \A j \in L : j <= Max(L)
    BY <1>1, <1>2, MaxExists
<1>5. MinKey(h) \in L /\ \A j \in L : MinKey(h) <= j
    BY <1>3 DEF MinKey, L
<1>6. MaxKeyOf(h) \in L /\ \A j \in L : j <= MaxKeyOf(h)
    BY <1>4 DEF MaxKeyOf, L
<1> QED BY <1>1, <1>5, <1>6

\* The fast paths of AsyncTieredEngine answer as the calls they stand for: what
\* they skip would have fetched or loaded nothing.
THEOREM FastPaths == Spec => []FastPathsAgree
<1>1. TierInv => FastPathsAgree
    <2> SUFFICES ASSUME TierInv PROVE FastPathsAgree
        OBVIOUS
    <2>0. archived \in Seq(Entries) /\ Now \in State
        BY DEF TierInv, TypesOK
    <2>1. ASSUME NEW k \in Keys PROVE AsyncGet(k) = Get(k)
        <3>1. CASE LocalGet(k) # {} \/ GetNeedsArchivedFetch(k)
            BY <3>1 DEF AsyncGet, Get
        <3>2. CASE LocalGet(k) = {} /\ ~GetNeedsArchivedFetch(k)
            <4> DEFINE I == {i \in DOMAIN archived : InBounds(archived[i], k) /\ archived[i] \notin fetched \cup {}}
            <4>1. I = {} /\ I \in SUBSET DOMAIN archived
                BY <3>2 DEF GetNeedsArchivedFetch
            <4>2. ToFetch(k, {}) = Archived(I)
                BY DEF ToFetch
            <4> HIDE DEF I
            <4>3. Archived(I) = <<>>
                BY <2>0, <4>1, ArchivedFacts
            <4>4. AfterFetching(<<>>) = Now
                <5>1. <<>> \in Seq(Entries) /\ Len(<<>>) = 0
                    OBVIOUS
                <5>2. PICK after \in [0..Len(<<>>) -> State] : after[0] = Now /\ AfterFetching(<<>>) = after[Len(<<>>)]
                    BY <2>0, <5>1, FetchingRuns
                <5> QED BY <5>1, <5>2
            <4>5. AfterGet(k, {}) = Now
                BY <4>2, <4>3, <4>4 DEF AfterGet
            <4>6. Get(k) = LocalGet(k)
                BY <3>2, <4>5, NowFields DEF Get, LocalGet
            <4> QED BY <3>2, <4>6 DEF AsyncGet
        <3> QED BY <3>1, <3>2
    <2>2. ASSUME NEW lo \in 1..(MaxKey + 1), NEW hi \in 1..(MaxKey + 1), NEW k \in lo..(hi - 1)
          PROVE  AsyncRangeGet(lo, hi, k) = RangeGet(lo, hi, k)
        <3>1. CASE RangeNeedsArchivedFetch(lo, hi)
            BY <3>1 DEF AsyncRangeGet
        <3>2. CASE ~RangeNeedsArchivedFetch(lo, hi)
            <4> DEFINE I == {i \in DOMAIN archived : Overlaps(archived[i], lo, hi) /\ archived[i] \notin fetched}
            <4>1. I = {} /\ I \in SUBSET DOMAIN archived
                BY <3>2 DEF RangeNeedsArchivedFetch
            <4>2. ToLoad(lo, hi) = Archived(I)
                BY DEF ToLoad
            <4> HIDE DEF I
            <4>3. ToSet(ToLoad(lo, hi)) = {}
                BY <2>0, <4>1, <4>2, ArchivedFacts DEF ToSet
            <4>4. EphemeralGet({}, k) = {}
                BY DEF EphemeralGet
            <4>5. RangeGet(lo, hi, k) = LocalRange(k)
                BY <4>3, <4>4 DEF RangeGet, MergeLocalWins
            <4> QED BY <3>2, <4>5 DEF AsyncRangeGet
        <3> QED BY <3>1, <3>2
    <2> QED BY <2>1, <2>2 DEF FastPathsAgree
<1> QED BY InitInv, NextInv, <1>1, PTL DEF Spec

\* The memtable of st has an entry of k no older than that of h.
Covered(st, h, k) == h[k] # NoEntry => st.mem[k] # NoEntry /\ st.mem[k].ts >= h[k].ts

\* An import never makes the memtable older, and covers what it imports if the
\* segments were covered.
LEMMA ImportCovers ==
    ASSUME NEW st \in State, NEW h \in Entries, NEW k \in Keys
    PROVE  LET new == ImportSegment(st, h) IN
           /\ \A g \in Entries : Covered(st, g, k) => Covered(new, g, k)
           /\ (\A i \in DOMAIN st.segs : Covered(st, st.segs[i].ents, k)) =>
                 /\ \A i \in DOMAIN new.segs : Covered(new, new.segs[i].ents, k)
                 /\ Covered(new, h, k)
<1> DEFINE new == ImportSegment(st, h)
<1>1. /\ new \in State
      /\ new.segs = Append(st.segs, [ents |-> h, imported |-> TRUE])
      /\ ~Wins(st, h, k) => new.mem[k] = st.mem[k]
      /\ Wins(st, h, k) => new.mem[k] \in Entry /\ new.mem[k].ts = h[k].ts
    BY ImportFacts
<1>2. /\ st.mem \in Entries /\ st.segs \in Seq(Seg)
      /\ \A i \in DOMAIN st.segs : st.segs[i].ents \in Entries
    BY StateFacts
<1>3. [ents |-> h, imported |-> TRUE] \in Seg
    BY DEF Seg
<1> HIDE DEF new
<1>4. \A i \in DOMAIN new.segs : new.segs[i].ents = h \/ \E j \in DOMAIN st.segs : new.segs[i] = st.segs[j]
    BY <1>1, <1>2, <1>3
<1>5. h[k] # NoEntry => h[k].ts \in Nat
    BY EntryFacts
<1>6. st.mem[k] # NoEntry => st.mem[k].ts \in Nat
    BY <1>2, EntryFacts
<1>7. ASSUME NEW g \in Entries, Covered(st, g, k) PROVE Covered(new, g, k)
    <2> SUFFICES ASSUME g[k] # NoEntry PROVE new.mem[k] # NoEntry /\ new.mem[k].ts >= g[k].ts
        BY DEF Covered
    <2>1. st.mem[k] # NoEntry /\ st.mem[k].ts >= g[k].ts /\ g[k].ts \in Nat
        BY <1>7, EntryFacts DEF Covered
    <2>2. CASE ~Wins(st, h, k)
        BY <1>1, <2>1, <2>2
    <2>3. CASE Wins(st, h, k)
        <3>1. h[k] # NoEntry /\ h[k].ts > st.mem[k].ts
            BY <2>1, <2>3 DEF Wins, Local
        <3>2. new.mem[k] # NoEntry /\ new.mem[k].ts = h[k].ts
            BY <1>1, <2>3, TierAssumption DEF Entry
        <3> QED BY <1>5, <1>6, <2>1, <3>1, <3>2
    <2> QED BY <2>2, <2>3
<1>8. ASSUME \A i \in DOMAIN st.segs : Covered(st, st.segs[i].ents, k)
      PROVE  /\ \A i \in DOMAIN new.segs : Covered(new, new.segs[i].ents, k)
             /\ Covered(new, h, k)
    <2>1. Covered(new, h, k)
        <3> SUFFICES ASSUME h[k] # NoEntry PROVE new.mem[k] # NoEntry /\ new.mem[k].ts >= h[k].ts
            BY DEF Covered
        <3>1. CASE Wins(st, h, k)
            <4>1. new.mem[k] # NoEntry /\ new.mem[k].ts = h[k].ts
                BY <1>1, <3>1, TierAssumption DEF Entry
            <4> QED BY <1>5, <4>1
        <3>2. CASE ~Wins(st, h, k)
            <4>1. Local(st.mem, st.segs, k) # NoEntry /\ ~(h[k].ts > Local(st.mem, st.segs, k).ts)
                BY <3>2 DEF Wins
            <4>2. st.mem[k] # NoEntry
                <5> SUFFICES ASSUME st.mem[k] = NoEntry PROVE FALSE
                    OBVIOUS
                <5>1. SegmentGet(st.segs, k) # NoEntry
                    BY <4>1 DEF Local
                <5>2. PICK i \in DOMAIN st.segs : SegmentGet(st.segs, k) = st.segs[i].ents[k]
                    BY <1>2, <5>1, SegmentGetFacts
                <5> QED BY <1>8, <5>1, <5>2 DEF Covered
            <4>3. Local(st.mem, st.segs, k) = st.mem[k]
                BY <4>2 DEF Local
            <4> QED BY <1>1, <1>5, <1>6, <3>2, <4>1, <4>2, <4>3
        <3> QED BY <3>1, <3>2
    <2>2. ASSUME NEW i \in DOMAIN new.segs PROVE Covered(new, new.segs[i].ents, k)
        <3>1. CASE new.segs[i].ents = h
            BY <2>1, <3>1 DEF Covered
        <3>2. CASE \E j \in DOMAIN st.segs : new.segs[i] = st.segs[j]
            BY <1>2, <1>7, <1>8, <3>2
        <3> QED BY <1>4, <3>1, <3>2
    <2> QED BY <2>1, <2>2
<1> QED BY <1>7, <1>8 DEF new

\* The same for fetch_and_import, unless the object is torn.
LEMMA FetchCovers ==
    ASSUME NEW st \in State, NEW h \in Entries, NEW k \in Keys
    PROVE  LET new == FetchAndImport(st, h) IN
           /\ \A g \in Entries : Covered(st, g, k) => Covered(new, g, k)
           /\ (\A i \in DOMAIN st.segs : Covered(st, st.segs[i].ents, k)) =>
                 /\ \A i \in DOMAIN new.segs : Covered(new, new.segs[i].ents, k)
                 /\ h \notin Torn => Covered(new, h, k)
<1> DEFINE new == FetchAndImport(st, h)
           imp == ImportSegment(st, h)
<1>1. \/ /\ h \in Hashes(st.segs) \/ h \in Torn
         /\ new.mem = st.mem /\ new.segs = st.segs
      \/ new.mem = imp.mem /\ new.segs = imp.segs
    BY FetchFacts
<1>2. /\ \A g \in Entries : Covered(st, g, k) => Covered(imp, g, k)
      /\ (\A i \in DOMAIN st.segs : Covered(st, st.segs[i].ents, k)) =>
            /\ \A i \in DOMAIN imp.segs : Covered(imp, imp.segs[i].ents, k)
            /\ Covered(imp, h, k)
    BY ImportCovers
<1>3. h \in Hashes(st.segs) => \E i \in DOMAIN st.segs : h = st.segs[i].ents
    BY DEF Hashes
<1> HIDE DEF new, imp
<1>4. CASE (h \in Hashes(st.segs) \/ h \in Torn) /\ new.mem = st.mem /\ new.segs = st.segs
    <2>1. \A g : Covered(st, g, k) <=> Covered(new, g, k)
        BY <1>4 DEF Covered
    <2> QED BY <1>3, <1>4, <2>1 DEF new
<1>5. CASE new.mem = imp.mem /\ new.segs = imp.segs
    <2>1. \A g : Covered(imp, g, k) <=> Covered(new, g, k)
        BY <1>5 DEF Covered
    <2> QED BY <1>2, <1>5, <2>1 DEF new
<1> QED BY <1>1, <1>4, <1>5

\* And for a loop of them.
LEMMA FetchingCovers ==
    ASSUME TierInv, NEW hs \in Seq(Entries), NEW k \in Keys
    PROVE  /\ Covered(Now, newest, k) => Covered(AfterFetching(hs), newest, k)
           /\ AllLocal(k) = {} => \A j \in DOMAIN hs : hs[j] \notin Torn => Covered(AfterFetching(hs), hs[j], k)
<1>0. /\ Now \in State /\ newest \in Entries /\ Len(hs) \in Nat /\ DOMAIN hs = 1..Len(hs)
      /\ \A i \in 1..Len(hs) : hs[i] \in Entries
    BY DEF TierInv, TypesOK
<1>1. PICK after \in [0..Len(hs) -> State] :
              /\ after[0] = Now
              /\ \A i \in 1..Len(hs) : after[i] = FetchAndImport(after[i - 1], hs[i])
              /\ AfterFetching(hs) = after[Len(hs)]
    BY <1>0, FetchingRuns
<1>2. ASSUME NEW i \in 1..Len(hs) PROVE i - 1 \in 0..Len(hs) /\ i \in 0..Len(hs) /\ after[i - 1] \in State
    <2>1. i - 1 \in 0..Len(hs) /\ i \in 0..Len(hs)
        BY <1>0
    <2> QED BY <2>1
<1>3. ASSUME Covered(Now, newest, k) PROVE Covered(AfterFetching(hs), newest, k)
    <2> DEFINE P == {i \in 0..Len(hs) : Covered(after[i], newest, k)}
    <2>1. 0 \in P
        BY <1>0, <1>1, <1>3
    <2>2. ASSUME NEW i \in 1..Len(hs), i - 1 \in P PROVE i \in P
        <3>1. Covered(after[i - 1], newest, k)
            BY <2>2, Zenon
        <3>2. Covered(after[i], newest, k)
            BY <1>0, <1>1, <1>2, <3>1, FetchCovers
        <3> QED BY <1>2, <3>2
    <2> HIDE DEF P
    <2>3. Len(hs) \in P
        BY <1>0, <2>1, <2>2, Reaches
    <2> QED BY <1>1, <2>3 DEF P
<1>4. ASSUME AllLocal(k) = {}, NEW j \in DOMAIN hs, hs[j] \notin Torn PROVE Covered(AfterFetching(hs), hs[j], k)
    <2> DEFINE SegsCovered(st) == \A i \in DOMAIN st.segs : Covered(st, st.segs[i].ents, k)
               P == {i \in 0..Len(hs) : SegsCovered(after[i]) /\ (j <= i => Covered(after[i], hs[j], k))}
    <2>1. 0 \in P
        <3>1. \A i \in DOMAIN segs : segs[i].ents[k] = NoEntry
            BY <1>4 DEF AllLocal
        <3>2. SegsCovered(after[0])
            BY <1>1, <3>1, NowFields DEF Covered
        <3> QED BY <1>0, <3>2
    <2>2. ASSUME NEW i \in 1..Len(hs), i - 1 \in P PROVE i \in P
        <3>1. SegsCovered(after[i - 1]) /\ (j <= i - 1 => Covered(after[i - 1], hs[j], k))
            BY <2>2, Zenon
        <3>2. /\ \A g \in Entries : Covered(after[i - 1], g, k) => Covered(after[i], g, k)
              /\ SegsCovered(after[i])
              /\ hs[i] \notin Torn => Covered(after[i], hs[i], k)
            BY <1>0, <1>1, <1>2, <3>1, FetchCovers
        <3>3. j <= i => Covered(after[i], hs[j], k)
            <4>1. CASE j = i
                BY <1>4, <3>2, <4>1
            <4>2. CASE j <= i - 1
                BY <1>0, <3>1, <3>2, <4>2
            <4> HIDE DEF SegsCovered
            <4> QED BY <1>0, <4>1, <4>2
        <3> QED BY <1>2, <3>2, <3>3
    <2> HIDE DEF P
    <2>3. Len(hs) \in P
        BY <1>0, <2>1, <2>2, Reaches
    <2>4. j <= Len(hs) => Covered(after[Len(hs)], hs[j], k)
        BY <2>3, Zenon DEF P
    <2> QED BY <1>0, <1>1, <2>4
<1> QED BY <1>3, <1>4

\* What get fetches: archived segments in whose bounds the key is, all of them that
\* hold it and were not fetched.
LEMMA ToFetchFacts ==
    ASSUME TierInv, NEW k \in Keys
    PROVE  /\ ToFetch(k, {}) \in Seq(Entries)
           /\ \A i \in DOMAIN ToFetch(k, {}) : \E a \in DOMAIN archived : ToFetch(k, {})[i] = archived[a]
           /\ \A a \in DOMAIN archived : archived[a][k] # NoEntry /\ archived[a] \notin fetched =>
                 \E i \in DOMAIN ToFetch(k, {}) : ToFetch(k, {})[i] = archived[a]
<1> DEFINE I == {i \in DOMAIN archived : InBounds(archived[i], k) /\ archived[i] \notin fetched \cup {}}
<1>1. archived \in Seq(Entries) /\ \A a \in DOMAIN archived : archived[a] \in Entries
    BY TypeFacts DEF TierInv
<1>2. ToFetch(k, {}) = Archived(I)
    BY DEF ToFetch
<1>3. I \in SUBSET DOMAIN archived
    OBVIOUS
<1>4. \A a \in DOMAIN archived : archived[a][k] # NoEntry /\ archived[a] \notin fetched => a \in I
    BY <1>1, BoundsFacts DEF InBounds
<1> HIDE DEF I
<1>5. /\ Archived(I) \in Seq(Entries)
      /\ \A n \in DOMAIN Archived(I) : \E a \in I : Archived(I)[n] = archived[a]
      /\ \A a \in I : \E n \in DOMAIN Archived(I) : Archived(I)[n] = archived[a]
    BY <1>1, <1>3, ArchivedFacts
<1> QED BY <1>2, <1>3, <1>4, <1>5

\* Once the memtable covers the newest write, the key reads as that write.
LEMMA CoveredReads ==
    ASSUME TierInv, NEW k \in Keys, newest[k] # NoEntry, NEW hs \in Seq(Entries),
           \A i \in DOMAIN hs : \E a \in DOMAIN archived : hs[i] = archived[a],
           NEW e, Same(e, newest[k]), e # NoEntry => AfterFetching(hs).mem[k] # NoEntry /\ AfterFetching(hs).mem[k].ts >= e.ts
    PROVE  Visible(Local(AfterFetching(hs).mem, AfterFetching(hs).segs, k)) = Visible(newest[k])
<1> DEFINE st == AfterFetching(hs)
<1>1. Now \in State /\ archived \in Seq(Entries) /\ newest \in Entries /\ StateInv(Now)
    BY DEF TierInv, TypesOK
<1>2. st \in State /\ StateInv(st)
    BY <1>1, FetchingKeeps
<1>3. st.mem[k] # NoEntry /\ st.mem[k].ts >= newest[k].ts
    BY DEF Same
<1> HIDE DEF st
<1>4. CopyOK(st.mem[k], k, st.lsn) /\ st.mem \in Entries
    BY <1>2, StateFacts DEF StateInv, CopiesOK
<1>5. st.mem[k].ts \in Nat /\ newest[k].ts \in Nat
    BY <1>1, <1>3, <1>4, EntryFacts
<1>6. Same(st.mem[k], newest[k])
    BY <1>3, <1>4, <1>5 DEF CopyOK, Same
<1>7. Visible(st.mem[k]) = Visible(newest[k])
    BY <1>4, <1>6, SameVisible
<1>8. Local(st.mem, st.segs, k) = st.mem[k]
    BY <1>3 DEF Local
<1> QED BY <1>7, <1>8 DEF st

\* A local read finds a copy.
LEMMA LocalIsCopy ==
    ASSUME TierInv, NEW k \in Keys
    PROVE  CopyOK(Local(mem, segs, k), k, lsn)
<1>1. segs \in Seq(Seg)
    BY TypeFacts DEF TierInv
<1>2. CopyOK(mem[k], k, lsn) /\ \A i \in DOMAIN segs : CopyOK(segs[i].ents[k], k, lsn)
    BY NowFields DEF TierInv, StateInv, CopiesOK
<1>3. CASE mem[k] # NoEntry
    BY <1>2, <1>3 DEF Local
<1>4. CASE mem[k] = NoEntry /\ SegmentGet(segs, k) # NoEntry
    BY <1>1, <1>2, <1>4, SegmentGetFacts DEF Local
<1>5. CASE mem[k] = NoEntry /\ SegmentGet(segs, k) = NoEntry
    BY <1>5 DEF Local, CopyOK
<1> QED BY <1>3, <1>4, <1>5

\* Tier.GetReadsThrough: a get that goes to the archive imports whatever overlaps, in
\* the order of the uploads, and still answers with the newest write.
THEOREM ReadThrough == Spec => []GetReadsThrough
<1>1. TierInv => GetReadsThrough
    <2> SUFFICES ASSUME TierInv, NEW k \in Keys,
                        \/ Same(mem[k], newest[k])
                        \/ LocalGet(k) # {} /\ Same(Local(mem, segs, k), newest[k])
                        \/ AllLocal(k) = {} /\ \E h \in Unfetched : Same(h[k], newest[k])
                 PROVE  Get(k) = Visible(newest[k])
        BY DEF GetReadsThrough
    <2> DEFINE hs == ToFetch(k, {})
               st == AfterFetching(hs)
    <2>1. newest[k] # NoEntry
        BY DEF Same
    <2>2. /\ hs \in Seq(Entries)
          /\ \A i \in DOMAIN hs : \E a \in DOMAIN archived : hs[i] = archived[a]
          /\ \A a \in DOMAIN archived : archived[a][k] # NoEntry /\ archived[a] \notin fetched =>
                \E i \in DOMAIN hs : hs[i] = archived[a]
        BY ToFetchFacts
    <2>3. LocalGet(k) = {} => Get(k) = Visible(Local(st.mem, st.segs, k))
        BY DEF Get, AfterGet
    <2>4. CASE LocalGet(k) # {}
        <3>1. Same(Local(mem, segs, k), newest[k])
            <4>1. CASE Same(mem[k], newest[k])
                BY <4>1 DEF Same, Local
            <4>2. CASE AllLocal(k) = {}
                <5>1. mem[k] = NoEntry /\ \A i \in DOMAIN segs : segs[i].ents[k] = NoEntry
                    BY <4>2 DEF AllLocal
                <5>2. segs \in Seq(Seg)
                    BY TypeFacts DEF TierInv
                <5>3. SegmentGet(segs, k) = NoEntry
                    BY <5>1, <5>2, SegmentGetFacts
                <5> QED BY <2>4, <5>1, <5>3 DEF LocalGet, Local, Visible
            <4> QED BY <4>1, <4>2
        <3>2. LocalGet(k) = Visible(newest[k])
            BY <3>1, LocalIsCopy, SameVisible DEF LocalGet
        <3> QED BY <2>4, <3>2 DEF Get
    <2>5. CASE LocalGet(k) = {} /\ Same(mem[k], newest[k])
        <3>1. newest \in Entries /\ mem \in Entries
            BY TypeFacts DEF TierInv
        <3>2. Covered(Now, newest, k)
            <4>1. mem[k] # NoEntry /\ mem[k].ts = newest[k].ts /\ newest[k].ts \in Nat
                BY <2>1, <2>5, <3>1, EntryFacts DEF Same
            <4> QED BY <4>1, NowFields DEF Covered
        <3>3. Covered(st, newest, k)
            BY <2>2, <3>2, FetchingCovers
        <3>4. Same(newest[k], newest[k])
            BY <2>1 DEF Same
        <3>5. newest[k] # NoEntry => st.mem[k] # NoEntry /\ st.mem[k].ts >= newest[k].ts
            BY <3>3 DEF Covered
        <3> HIDE DEF hs
        <3>6. Visible(Local(st.mem, st.segs, k)) = Visible(newest[k])
            BY <2>1, <2>2, <3>4, <3>5, CoveredReads
        <3> QED BY <2>3, <2>5, <3>6
    <2>6. CASE LocalGet(k) = {} /\ AllLocal(k) = {} /\ \E h \in Unfetched : Same(h[k], newest[k])
        <3>1. PICK a \in DOMAIN archived : /\ archived[a] \notin fetched /\ archived[a] \notin Torn
                                           /\ Same(archived[a][k], newest[k])
            BY <2>6 DEF Unfetched, ToSet
        <3>2. PICK i \in DOMAIN hs : hs[i] = archived[a]
            BY <2>2, <3>1 DEF Same
        <3>3. Covered(st, hs[i], k)
            BY <2>2, <2>6, <3>1, <3>2, FetchingCovers
        <3>4. hs[i][k] # NoEntry => st.mem[k] # NoEntry /\ st.mem[k].ts >= hs[i][k].ts
            BY <3>3 DEF Covered
        <3>5. Same(hs[i][k], newest[k])
            BY <3>1, <3>2
        <3> HIDE DEF hs
        <3>6. Visible(Local(st.mem, st.segs, k)) = Visible(newest[k])
            BY <2>1, <2>2, <3>4, <3>5, CoveredReads
        <3> QED BY <2>3, <2>6, <3>6
    <2> QED BY <2>4, <2>5, <2>6
<1> QED BY InitInv, NextInv, <1>1, PTL DEF Spec

\* Finitely many records have one of the highest LSN.
LEMMA HighestFacts ==
    ASSUME NEW es, es # {}, IsFiniteSet(es), \A e \in es : e.lsn \in Nat
    PROVE  Highest(es) \in es /\ \A f \in es : f.lsn <= Highest(es).lsn
<1> DEFINE f == [e \in es |-> e.lsn]
           L == {f[e] : e \in es}
<1>1. L \in SUBSET Nat /\ L # {}
    OBVIOUS
<1>2. IsFiniteSet(L)
    BY FiniteImage
<1>3. Max(L) \in L /\ \A l \in L : l <= Max(L)
    <2> HIDE DEF L
    <2> QED BY <1>1, <1>2, FiniteMax
<1>4. PICK e \in es : Max(L) = e.lsn
    BY <1>3
<1>5. \A g \in es : g.lsn \in L
    OBVIOUS
<1> HIDE DEF L
<1>6. \E t : t \in Top(es)
    BY <1>3, <1>4, <1>5 DEF Top
<1> QED BY <1>6 DEF Highest, Top

\* What a list holds of a key is finite.
LEMMA FiniteOnKey ==
    ASSUME NEW s, NEW n \in Nat, DOMAIN s = 1..n, NEW k
    PROVE  IsFiniteSet({s[i][k] : i \in DOMAIN s})
<1> DEFINE g == [i \in 1..n |-> s[i][k]]
<1>1. IsFiniteSet({g[i] : i \in 1..n})
    <2>1. IsFiniteSet(1..n)
        BY FS_Interval
    <2> QED BY <2>1, FiniteImage
<1>2. {s[i][k] : i \in DOMAIN s} = {g[i] : i \in 1..n}
    OBVIOUS
<1> QED BY <1>1, <1>2

\* Tier.RangeReadsThrough: among the archived segments that a range loads, the newest
\* write is the one of the highest LSN unless an older one has a higher one.
THEOREM RangeReadThrough == Spec => []RangeReadsThrough
<1>1. TierInv => RangeReadsThrough
    <2> SUFFICES ASSUME TierInv, NEW lo \in 1..(MaxKey + 1), NEW hi \in 1..(MaxKey + 1), NEW k \in lo..(hi - 1),
                        \A h, g \in ToSet(ToLoad(lo, hi)) :
                            Same(g[k], newest[k]) /\ h[k] # NoEntry /\ ~Same(h[k], newest[k])
                                => h[k].lsn < g[k].lsn,
                        \/ LocalRange(k) # {} /\ \A e \in Top(AllLocal(k)) : Same(e, newest[k])
                        \/ AllLocal(k) = {} /\ \E h \in Unfetched : Same(h[k], newest[k])
                 PROVE  RangeGet(lo, hi, k) = Visible(newest[k])
        BY Zenon DEF RangeReadsThrough
    <2>0. k \in Keys /\ lo \in Nat /\ hi \in Nat /\ k \in Nat /\ lo <= k /\ k < hi
        BY TierAssumption DEF Keys
    <2>1. /\ mem \in Entries /\ newest \in Entries /\ archived \in Seq(Entries) /\ segs \in Seq(Seg)
          /\ \A i \in DOMAIN segs : segs[i].ents \in Entries
          /\ \A i \in DOMAIN archived : archived[i] \in Entries
        BY TypeFacts DEF TierInv
    <2>2. /\ CopyOK(mem[k], k, lsn)
          /\ \A i \in DOMAIN segs : CopyOK(segs[i].ents[k], k, lsn)
          /\ \A i \in DOMAIN archived : CopyOK(archived[i][k], k, lsn)
        BY <2>0, NowFields DEF TierInv, StateInv, CopiesOK
    <2>3. CASE LocalRange(k) # {} /\ \A e \in Top(AllLocal(k)) : Same(e, newest[k])
        <3>1. AllLocal(k) # {} /\ LocalRange(k) = Visible(Highest(AllLocal(k)))
            BY <2>3 DEF LocalRange
        <3>2. \A e \in AllLocal(k) : CopyOK(e, k, lsn) /\ e # NoEntry /\ e.lsn \in Nat
            BY <2>0, <2>1, <2>2, EntryFacts DEF AllLocal
        <3>3. IsFiniteSet(AllLocal(k))
            <4> DEFINE t == [i \in DOMAIN segs |-> segs[i].ents]
                       T == {t[i][k] : i \in DOMAIN t}
            <4>1. DOMAIN t = 1..Len(segs) /\ Len(segs) \in Nat
                BY <2>1
            <4>2. AllLocal(k) \subseteq T \cup {mem[k]}
                BY DEF AllLocal
            <4> HIDE DEF t
            <4>3. IsFiniteSet(T)
                BY <4>1, FiniteOnKey
            <4> HIDE DEF T
            <4>4. IsFiniteSet(T \cup {mem[k]})
                BY <4>3, FS_AddElement
            <4> QED BY <4>2, <4>4, FS_Subset
        <3>4. /\ Highest(AllLocal(k)) \in AllLocal(k)
              /\ \A f \in AllLocal(k) : f.lsn <= Highest(AllLocal(k)).lsn
            <4>1. PICK es : es = AllLocal(k)
                OBVIOUS
            <4> QED BY <3>1, <3>2, <3>3, <4>1, HighestFacts
        <3>5. CopyOK(Highest(AllLocal(k)), k, lsn) /\ Same(Highest(AllLocal(k)), newest[k])
            BY <2>3, <3>2, <3>4 DEF Top
        <3>6. LocalRange(k) = Visible(newest[k])
            BY <3>1, <3>5, SameVisible
        <3> QED BY <2>3, <3>6 DEF RangeGet, MergeLocalWins
    <2>4. CASE AllLocal(k) = {} /\ \E h \in Unfetched : Same(h[k], newest[k])
        <3> DEFINE I == {i \in DOMAIN archived : Overlaps(archived[i], lo, hi) /\ archived[i] \notin fetched}
                   loaded == ToSet(ToLoad(lo, hi))
                   es == {h[k] : h \in loaded} \ {NoEntry}
        <3>1. PICK a \in DOMAIN archived : archived[a] \notin fetched /\ Same(archived[a][k], newest[k])
            BY <2>4 DEF Unfetched, ToSet
        <3>2. a \in I
            <4>1. /\ archived[a] \in Entries /\ archived[a][k] # NoEntry
                BY <2>1, <3>1 DEF Same
            <4>2. /\ MinKey(archived[a]) \in Nat /\ MaxKeyOf(archived[a]) \in Nat
                  /\ MinKey(archived[a]) <= k /\ k <= MaxKeyOf(archived[a])
                BY <2>0, <4>1, BoundsFacts
            <4>3. Overlaps(archived[a], lo, hi)
                BY <2>0, <4>2 DEF Overlaps
            <4> QED BY <3>1, <4>3
        <3>3. ToLoad(lo, hi) = Archived(I) /\ I \in SUBSET DOMAIN archived
            BY DEF ToLoad
        <3> HIDE DEF I
        <3>4. /\ Archived(I) \in Seq(Entries)
              /\ \A n \in DOMAIN Archived(I) : \E b \in I : Archived(I)[n] = archived[b]
              /\ \A b \in I : \E n \in DOMAIN Archived(I) : Archived(I)[n] = archived[b]
            BY <2>1, <3>3, ArchivedFacts
        <3>5. archived[a] \in loaded /\ \A h \in loaded : \E b \in DOMAIN archived : h = archived[b]
            BY <3>2, <3>3, <3>4 DEF ToSet
        <3>6. \A h, g \in loaded : Same(g[k], newest[k]) /\ h[k] # NoEntry /\ ~Same(h[k], newest[k])
                                       => h[k].lsn < g[k].lsn
            BY Zenon
        <3>6a. IsFiniteSet({h[k] : h \in loaded})
            <4> DEFINE A == Archived(I)
            <4>1. DOMAIN A = 1..Len(A) /\ Len(A) \in Nat
                BY <3>4
            <4>2. {h[k] : h \in loaded} = {A[i][k] : i \in DOMAIN A}
                BY <3>3 DEF ToSet
            <4> HIDE DEF A
            <4>3. IsFiniteSet({A[i][k] : i \in DOMAIN A})
                BY <4>1, FiniteOnKey
            <4> QED BY <4>2, <4>3
        <3> HIDE DEF loaded
        <3>7. archived[a][k] \in es
            BY <3>1, <3>5 DEF Same
        <3>8. \A e \in es : CopyOK(e, k, lsn) /\ e # NoEntry /\ e.lsn \in Nat
            BY <2>0, <2>1, <2>2, <3>5, EntryFacts
        <3>9. \A e \in es : ~Same(e, newest[k]) => e.lsn < archived[a][k].lsn
            BY <3>1, <3>5, <3>6
        <3>10. EphemeralGet(loaded, k) = Visible(Highest(es))
            BY <3>7 DEF EphemeralGet
        <3>10a. IsFiniteSet(es)
            BY <3>6a, FS_Subset
        <3> HIDE DEF es
        <3>11. Highest(es) \in es /\ archived[a][k].lsn <= Highest(es).lsn
            BY <3>7, <3>8, <3>10a, HighestFacts
        <3>12. archived[a][k].lsn \in Nat /\ Highest(es).lsn \in Nat
            BY <3>7, <3>8, <3>11
        <3>13. Same(Highest(es), newest[k])
            BY <3>9, <3>11, <3>12
        <3>14. Visible(Highest(es)) = Visible(newest[k])
            BY <3>8, <3>11, <3>13, SameVisible
        <3>15. LocalRange(k) = {}
            BY <2>4 DEF LocalRange
        <3> QED BY <3>10, <3>14, <3>15 DEF RangeGet, MergeLocalWins, loaded
    <2> QED BY <2>3, <2>4
<1> QED BY InitInv, NextInv, <1>1, PTL DEF Spec

-----------------------------------------------------------------------------
(***************************************************************************)
(* The cache: what loading a segment does to a well-kept cache.            *)
(***************************************************************************)
LEMMA SizeFacts == ASSUME NEW h PROVE Size(h) \in Nat
<1>1. IsFiniteSet(1..MaxKey)
    <2>1. 1 \in Int /\ MaxKey \in Int
        BY TierAssumption
    <2> QED BY <2>1, FS_Interval
<1>2. Live(h) \subseteq 1..MaxKey
    BY DEF Live, Keys
<1> QED BY <1>1, <1>2, FS_Subset, FS_CardinalityType DEF Size

\* The recursive function of the prefix sums has a value.
LEMMA BytesFacts ==
    ASSUME NEW s \in Seq(Entries)
    PROVE  /\ \A i \in 0..Len(s) : BytesOfFirst(s)[i] \in Nat
           /\ BytesOfFirst(s)[0] = 0
           /\ \A i \in 1..Len(s) : BytesOfFirst(s)[i] = BytesOfFirst(s)[i - 1] + Size(s[i])
<1> DEFINE n == Len(s)
           Steps(f) == f = [i \in 0..n |-> IF i = 0 THEN 0 ELSE f[i - 1] + Size(s[i])]
           sum == CHOOSE f : Steps(f)
           G == [i \in 1..n |-> [x \in Nat |-> x + Size(s[i])]]
<1>1. n \in Nat
    OBVIOUS
<1>2. G \in [1..n -> [Nat -> Nat]]
    BY SizeFacts
<1>3. PICK f : Course(f, Nat, 0, n, G)
    <2>1. 0 \in Nat
        OBVIOUS
    <2> HIDE DEF G, n, Steps, sum
    <2> QED BY <1>1, <1>2, <2>1, IterationExists
<1>4. Steps(f)
    <2>1. ASSUME NEW i \in 0..n, i # 0 PROVE f[i] = f[i - 1] + Size(s[i])
        <3>1. i \in 1..n /\ i - 1 \in 0..n
            BY <1>1, <2>1
        <3>2. f[i] = G[i][f[i - 1]] /\ f[i - 1] \in Nat
            BY <1>3, <3>1 DEF Course
        <3> QED BY <3>1, <3>2
    <2>2. f = [i \in 0..n |-> f[i]] /\ f[0] = 0
        BY <1>3 DEF Course
    <2> HIDE DEF G
    <2> QED BY <2>1, <2>2
<1>5. Steps(sum)
    BY <1>4
<1>6. BytesOfFirst(s) = sum
    BY DEF BytesOfFirst
<1>7. sum[0] = 0 /\ \A i \in 1..n : sum[i] = sum[i - 1] + Size(s[i])
    <2>1. 0 \in 0..n /\ \A i \in 1..n : i \in 0..n /\ i # 0
        BY <1>1
    <2> HIDE DEF sum
    <2> QED BY <1>5, <2>1
<1> HIDE DEF sum
<1>8. ASSUME NEW m \in 0..n PROVE sum[m] \in Nat
    <2> DEFINE P == {i \in 0..n : sum[i] \in Nat}
    <2>1. 0 \in P
        BY <1>1, <1>7
    <2>2. ASSUME NEW i \in 1..m, i - 1 \in P PROVE i \in P
        <3>1. i \in 1..n /\ i \in 0..n /\ sum[i - 1] \in Nat
            BY <1>1, <2>2
        <3> QED BY <1>7, <3>1, SizeFacts
    <2>3. m \in Nat
        OBVIOUS
    <2> HIDE DEF P
    <2>4. m \in P
        BY <2>1, <2>2, <2>3, Reaches
    <2> QED BY <2>4 DEF P
<1> QED BY <1>6, <1>7, <1>8

LEMMA SameGrowth ==
    ASSUME NEW p \in Nat, NEW q \in Nat, NEW x \in Nat, NEW y \in Nat, NEW z \in Nat, p - x = q - y
    PROVE  (p + z) - x = (q + z) - y
OBVIOUS

\* Equal stretches of two lists have the same bytes: the n elements after position a
\* of t and those after position b of s.
SameStretch(t, a, s, b, n) == a + n <= Len(t) /\ b + n <= Len(s) /\ \A i \in 1..n : t[a + i] = s[b + i]

LEMMA StretchBytes ==
    ASSUME NEW s \in Seq(Entries), NEW t \in Seq(Entries), NEW a \in Nat, NEW b \in Nat, NEW n \in Nat,
           SameStretch(t, a, s, b, n)
    PROVE  BytesOfFirst(t)[a + n] - BytesOfFirst(t)[a] = BytesOfFirst(s)[b + n] - BytesOfFirst(s)[b]
<1> DEFINE B(u) == BytesOfFirst(u)
           P == {i \in 0..n : B(t)[a + i] - B(t)[a] = B(s)[b + i] - B(s)[b]}
<1>0. Len(s) \in Nat /\ Len(t) \in Nat /\ a + n <= Len(t) /\ b + n <= Len(s)
    BY DEF SameStretch
<1>1. /\ \A i \in 0..Len(s) : B(s)[i] \in Nat
      /\ \A i \in 1..Len(s) : B(s)[i] = B(s)[i - 1] + Size(s[i])
      /\ \A i \in 0..Len(t) : B(t)[i] \in Nat
      /\ \A i \in 1..Len(t) : B(t)[i] = B(t)[i - 1] + Size(t[i])
    BY BytesFacts
<1> HIDE DEF B
<1>2. 0 \in P
    <2>1. a + 0 = a /\ b + 0 = b /\ a \in 0..Len(t) /\ b \in 0..Len(s) /\ 0 \in 0..n
        BY <1>0
    <2>2. B(t)[a] \in Nat /\ B(s)[b] \in Nat
        BY <1>1, <2>1
    <2>3. B(t)[a] - B(t)[a] = 0 /\ B(s)[b] - B(s)[b] = 0
        BY <2>2
    <2> QED BY <2>1, <2>3
<1>3. ASSUME NEW i \in 1..n, i - 1 \in P PROVE i \in P
    <2>1. /\ a + i \in 1..Len(t) /\ b + i \in 1..Len(s) /\ (a + i) - 1 = a + (i - 1) /\ (b + i) - 1 = b + (i - 1)
          /\ a + (i - 1) \in 0..Len(t) /\ b + (i - 1) \in 0..Len(s) /\ a \in 0..Len(t) /\ b \in 0..Len(s)
          /\ i \in 0..n
        BY <1>0
    <2>2. B(t)[a + i] = B(t)[a + (i - 1)] + Size(t[a + i]) /\ B(s)[b + i] = B(s)[b + (i - 1)] + Size(s[b + i])
        BY <1>1, <2>1
    <2>3. Size(t[a + i]) = Size(s[b + i]) /\ Size(s[b + i]) \in Nat
        BY SizeFacts DEF SameStretch
    <2>4. B(t)[a + (i - 1)] - B(t)[a] = B(s)[b + (i - 1)] - B(s)[b]
        BY <1>3
    <2>5. B(t)[a + (i - 1)] \in Nat /\ B(t)[a] \in Nat /\ B(s)[b + (i - 1)] \in Nat /\ B(s)[b] \in Nat
        BY <1>1, <2>1
    <2>6. B(t)[a + i] - B(t)[a] = B(s)[b + i] - B(s)[b]
        <3> HIDE DEF P
        <3>1. PICK p, q, x, y, z : /\ p = B(t)[a + (i - 1)] /\ q = B(s)[b + (i - 1)]
                                   /\ x = B(t)[a] /\ y = B(s)[b] /\ z = Size(s[b + i])
            OBVIOUS
        <3>2. p \in Nat /\ q \in Nat /\ x \in Nat /\ y \in Nat /\ z \in Nat /\ p - x = q - y
            BY <2>3, <2>4, <2>5, <3>1
        <3>3. (p + z) - x = (q + z) - y
            BY <3>2, SameGrowth
        <3> QED BY <2>2, <2>3, <3>1, <3>3
    <2> QED BY <2>1, <2>6
<1> HIDE DEF P
<1>4. n \in P
    BY <1>2, <1>3, Reaches
<1> QED BY <1>4 DEF P, B

Total(s) == BytesOfFirst(s)[Len(s)]

NoTwice(s) == \A i, j \in DOMAIN s : s[i] = s[j] => i = j

\* The books of a cache are right.
WellKept(c) ==
    /\ c.bytes = Total(c.items)
    /\ NoTwice(c.items)
    /\ c.bytes > CacheMax => Len(c.items) = 1

Caches == [items : Seq(Entries), bytes : Nat]

\* One more segment.
LEMMA AppendBytes ==
    ASSUME NEW s \in Seq(Entries), NEW h \in Entries
    PROVE  Total(Append(s, h)) = Total(s) + Size(h) /\ Total(s) \in Nat /\ Size(h) \in Nat
<1> DEFINE t == Append(s, h)
           n == Len(s)
<1>1. t \in Seq(Entries) /\ Len(t) = n + 1 /\ n \in Nat /\ t[n + 1] = h /\ \A i \in 1..n : t[0 + i] = s[0 + i]
    OBVIOUS
<1> HIDE DEF t, n
<1>2. BytesOfFirst(t)[0 + n] - BytesOfFirst(t)[0] = BytesOfFirst(s)[0 + n] - BytesOfFirst(s)[0]
    <2>1. PICK z \in Nat : z = 0
        OBVIOUS
    <2>2. SameStretch(t, z, s, z, n)
        BY <1>1, <2>1 DEF n, SameStretch
    <2>3. BytesOfFirst(t)[z + n] - BytesOfFirst(t)[z] = BytesOfFirst(s)[z + n] - BytesOfFirst(s)[z]
        BY <1>1, <2>2, StretchBytes
    <2> QED BY <2>1, <2>3
<1>3. BytesOfFirst(t)[0] = 0 /\ BytesOfFirst(s)[0] = 0 /\ BytesOfFirst(t)[n] \in Nat /\ BytesOfFirst(s)[n] \in Nat
    <2>1. 0 \in 0..Len(t) /\ n \in 0..Len(t) /\ n \in 0..Len(s)
        BY <1>1 DEF n
    <2> QED BY <1>1, <2>1, BytesFacts
<1>4. BytesOfFirst(t)[n + 1] = BytesOfFirst(t)[n] + Size(h)
    <2>1. n + 1 \in 1..Len(t) /\ (n + 1) - 1 = n
        BY <1>1
    <2>2. BytesOfFirst(t)[n + 1] = BytesOfFirst(t)[(n + 1) - 1] + Size(t[n + 1])
        BY <1>1, <2>1, BytesFacts
    <2> QED BY <1>1, <2>1, <2>2
<1>5. Size(h) \in Nat
    BY SizeFacts
<1>6. BytesOfFirst(t)[n] = BytesOfFirst(s)[n]
    BY <1>1, <1>2, <1>3
<1> QED BY <1>1, <1>3, <1>4, <1>5, <1>6 DEF Total, t, n

LEMMA AppendNoTwice ==
    ASSUME NEW s \in Seq(Entries), NEW h \in Entries, NoTwice(s), \A i \in DOMAIN s : s[i] # h
    PROVE  NoTwice(Append(s, h))
<1>1. DOMAIN Append(s, h) = 1..(Len(s) + 1) /\ Len(s) \in Nat /\ DOMAIN s = 1..Len(s)
    OBVIOUS
<1>2. \A i \in 1..Len(s) : Append(s, h)[i] = s[i]
    OBVIOUS
<1>3. Append(s, h)[Len(s) + 1] = h
    OBVIOUS
<1> SUFFICES ASSUME NEW i \in 1..(Len(s) + 1), NEW j \in 1..(Len(s) + 1), Append(s, h)[i] = Append(s, h)[j]
             PROVE  i = j
    BY <1>1 DEF NoTwice
<1>4. (i \in 1..Len(s) \/ i = Len(s) + 1) /\ (j \in 1..Len(s) \/ j = Len(s) + 1)
    BY <1>1
<1> QED BY <1>1, <1>2, <1>3, <1>4 DEF NoTwice

\* What eviction leaves is a suffix with its bytes; it makes room or empties the cache.
LEMMA EvictedFacts ==
    ASSUME NEW c \in Caches, WellKept(c), NEW incoming \in Nat
    PROVE  LET e == Evicted(c, incoming) IN
           /\ e.items \in Seq(Entries) /\ e.bytes = Total(e.items) /\ NoTwice(e.items)
           /\ e.bytes + incoming <= CacheMax \/ Len(e.items) = 0
           /\ \A i \in DOMAIN e.items : \E j \in DOMAIN c.items : e.items[i] = c.items[j]
<1> DEFINE s == c.items
           len == Len(s)
           B == BytesOfFirst(s)
           left(i) == c.bytes - B[i]
           fits(i) == left(i) + incoming <= CacheMax
           I == {i \in 0..len : fits(i) \/ i = len}
           n == CHOOSE i \in 0..len : (fits(i) \/ i = len) /\ \A j \in 0..(i - 1) : ~fits(j)
           t == SubSeq(s, n + 1, len)
<1>1. s \in Seq(Entries) /\ len \in Nat /\ c.bytes \in Nat /\ c.bytes = B[len] /\ NoTwice(s)
    BY DEF Caches, WellKept, Total
<1>2. Evicted(c, incoming) = [items |-> t, bytes |-> left(n)]
    BY DEF Evicted
<1>3. n \in 0..len /\ (fits(n) \/ n = len)
    <2>1. I \in SUBSET Nat /\ I # {}
        BY <1>1
    <2>2. Min(I) \in I /\ \A i \in I : Min(I) <= i
        <3> HIDE DEF I
        <3> QED BY <2>1, MinExists
    <2>3. PICK m \in I : \A i \in I : m <= i
        BY <2>2
    <2>4. m \in 0..len /\ (fits(m) \/ m = len)
        BY <2>3, Zenon
    <2>5. ASSUME NEW j \in 0..(m - 1), fits(j) PROVE FALSE
        <3>1. j \in 0..len /\ ~(m <= j)
            BY <1>1, <2>4
        <3>2. j \in I
            BY <2>5, <3>1, Zenon
        <3> HIDE DEF I
        <3> QED BY <2>3, <3>1, <3>2
    <2> HIDE DEF I, fits
    <2> QED BY <2>4, <2>5
<1>4. fits(n) => left(n) + incoming <= CacheMax
    OBVIOUS
<1> HIDE DEF n, fits
<1>5. t \in Seq(Entries) /\ Len(t) = len - n /\ \A i \in 1..(len - n) : t[i] = s[n + i]
    BY <1>1, <1>3
<1> HIDE DEF t, s, len
<1>6. left(n) = Total(t)
    <2>1. PICK z \in Nat : z = 0
        OBVIOUS
    <2>2. n \in Nat /\ len - n \in Nat /\ z + (len - n) = len - n /\ n + (len - n) = len
        BY <1>1, <1>3, <2>1
    <2>3. SameStretch(t, z, s, n, len - n)
        BY <1>1, <1>5, <2>1, <2>2 DEF SameStretch, len
    <2>4. BytesOfFirst(t)[z + (len - n)] - BytesOfFirst(t)[z] = B[n + (len - n)] - B[n]
        BY <1>1, <1>5, <2>2, <2>3, StretchBytes
    <2>5. BytesOfFirst(t)[0] = 0 /\ BytesOfFirst(t)[len - n] \in Nat
        <3>1. 0 \in 0..Len(t) /\ len - n \in 0..Len(t)
            BY <1>5, <2>2
        <3> QED BY <1>5, <3>1, BytesFacts
    <2>6. BytesOfFirst(t)[len - n] = B[len] - B[n]
        <3>1. BytesOfFirst(t)[len - n] - BytesOfFirst(t)[0] = B[len] - B[n]
            BY <2>1, <2>2, <2>4
        <3> QED BY <2>5, <3>1
    <2> QED BY <1>1, <1>5, <2>6 DEF Total
<1>7. NoTwice(t)
    <2> SUFFICES ASSUME NEW i \in DOMAIN t, NEW j \in DOMAIN t, t[i] = t[j] PROVE i = j
        BY DEF NoTwice
    <2>1. i \in 1..(len - n) /\ j \in 1..(len - n)
        BY <1>5
    <2>2. n + i \in DOMAIN s /\ n + j \in DOMAIN s
        BY <1>1, <1>3, <2>1 DEF len
    <2>3. s[n + i] = s[n + j]
        BY <1>5, <2>1
    <2>4. n + i = n + j
        BY <1>1, <2>2, <2>3 DEF NoTwice
    <2> QED BY <1>1, <1>3, <2>1, <2>4
<1>8. \A i \in DOMAIN t : \E j \in DOMAIN s : t[i] = s[j]
    <2> SUFFICES ASSUME NEW i \in DOMAIN t PROVE \E j \in DOMAIN s : t[i] = s[j]
        OBVIOUS
    <2>1. i \in 1..(len - n)
        BY <1>5
    <2>2. n + i \in DOMAIN s
        BY <1>1, <1>3, <2>1 DEF len
    <2> QED BY <1>5, <2>1, <2>2
<1>9. left(n) + incoming <= CacheMax \/ Len(t) = 0
    BY <1>1, <1>3, <1>4, <1>5
<1> HIDE DEF left
<1> QED BY <1>2, <1>5, <1>6, <1>7, <1>8, <1>9 DEF s

\* cache_segment of a segment that is not cached.
LEMMA CacheSegmentKeeps ==
    ASSUME NEW c \in Caches, WellKept(c), NEW h \in Entries, \A i \in DOMAIN c.items : c.items[i] # h
    PROVE  CacheSegment(c, h) \in Caches /\ WellKept(CacheSegment(c, h))
<1> DEFINE e == Evicted(c, Size(h))
           new == [items |-> Append(e.items, h), bytes |-> e.bytes + Size(h)]
<1>1. Size(h) \in Nat
    BY SizeFacts
<1>2. /\ e.items \in Seq(Entries) /\ e.bytes = Total(e.items) /\ NoTwice(e.items)
      /\ e.bytes + Size(h) <= CacheMax \/ Len(e.items) = 0
      /\ \A i \in DOMAIN e.items : \E j \in DOMAIN c.items : e.items[i] = c.items[j]
    BY <1>1, EvictedFacts
<1>3. CASE CacheMax = 0
    BY <1>3 DEF CacheSegment
<1>4. CASE CacheMax # 0
    <2>1. CacheSegment(c, h) = new
        BY <1>4 DEF CacheSegment
    <2> HIDE DEF e
    <2>2. Total(Append(e.items, h)) = Total(e.items) + Size(h) /\ Total(e.items) \in Nat
        BY <1>2, AppendBytes
    <2>3. NoTwice(Append(e.items, h))
        BY <1>2, AppendNoTwice
    <2>4. Append(e.items, h) \in Seq(Entries) /\ Len(Append(e.items, h)) = Len(e.items) + 1
        BY <1>2
    <2>5. new.items = Append(e.items, h) /\ new.bytes = e.bytes + Size(h)
        OBVIOUS
    <2>6. new \in Caches
        BY <1>1, <1>2, <2>2, <2>4 DEF Caches
    <2>7. new.bytes > CacheMax => Len(new.items) = 1
        <3>1. CacheMax \in Nat
            BY TierAssumption
        <3> QED BY <1>1, <1>2, <2>2, <2>4, <2>5, <3>1
    <2>8. WellKept(new)
        BY <1>2, <2>2, <2>3, <2>5, <2>7 DEF WellKept
    <2> QED BY <2>1, <2>6, <2>8
<1> QED BY <1>3, <1>4

\* A hit moves the segment to the end and changes no count.
LEMMA TouchKeeps ==
    ASSUME NEW c \in Caches, WellKept(c), NEW h \in Entries, \E i \in DOMAIN c.items : c.items[i] = h
    PROVE  Touch(c, h) \in Caches /\ WellKept(Touch(c, h))
<1> DEFINE s == c.items
           at == CHOOSE i \in DOMAIN s : s[i] = h
           r == RemoveAt(s, at)
           t == Append(r, h)
           len == Len(s)
           B == BytesOfFirst(s)
           R == BytesOfFirst(r)
<1>1. s \in Seq(Entries) /\ len \in Nat /\ DOMAIN s = 1..len /\ c.bytes \in Nat /\ c.bytes = Total(s) /\ NoTwice(s)
    BY DEF Caches, WellKept
<1>2. Touch(c, h) = [c EXCEPT !.items = t]
    BY DEF Touch
<1>3. at \in DOMAIN s /\ s[at] = h
    OBVIOUS
<1> HIDE DEF at, s
<1>4. /\ r \in Seq(Entries) /\ Len(r) = len - 1
      /\ \A j \in 1..(at - 1) : r[j] = s[j]
      /\ \A j \in at..(len - 1) : r[j] = s[j + 1]
      /\ \A j \in DOMAIN r : \E l \in DOMAIN s : l # at /\ r[j] = s[l]
    <2>1. s \in Seq(Entries) /\ at \in DOMAIN s
        BY <1>1, <1>3
    <2>2. r \in Seq(Entries) /\ Without(r, s, at)
        BY <2>1, RemoveAtFacts
    <2> HIDE DEF r
    <2> QED BY <2>2, Zenon DEF Without, len
<1>5. at \in Nat /\ len \in Nat /\ 1 <= at /\ at <= len /\ len - 1 \in Nat /\ at - 1 \in Nat /\ len - at \in Nat
    BY <1>1, <1>3
<1> HIDE DEF r, s, len
<1>6. Total(s) = Total(r) + Size(h)
    <2>0. PICK z \in Nat : z = 0
        OBVIOUS
    <2>1. SameStretch(r, z, s, z, at - 1)
        BY <1>4, <1>5, <2>0 DEF SameStretch, len
    <2>2. SameStretch(r, at - 1, s, at, len - at)
        <3>1. (at - 1) + (len - at) <= Len(r) /\ at + (len - at) <= Len(s)
            BY <1>4, <1>5 DEF len
        <3>2. ASSUME NEW i \in 1..(len - at) PROVE r[(at - 1) + i] = s[at + i]
            <4>1. (at - 1) + i \in at..(len - 1) /\ ((at - 1) + i) + 1 = at + i
                BY <1>5
            <4> QED BY <1>4, <4>1
        <3> QED BY <3>1, <3>2 DEF SameStretch
    <2>3. R[z + (at - 1)] - R[z] = B[z + (at - 1)] - B[z]
        BY <1>1, <1>4, <1>5, <2>1, StretchBytes
    <2>4. R[(at - 1) + (len - at)] - R[at - 1] = B[at + (len - at)] - B[at]
        BY <1>1, <1>4, <1>5, <2>2, StretchBytes
    <2>5. B[at] = B[at - 1] + Size(h)
        <3>1. at \in 1..Len(s)
            BY <1>5 DEF len
        <3> QED BY <1>1, <1>3, <3>1, BytesFacts
    <2>6. /\ R[0] = 0 /\ B[0] = 0 /\ Size(h) \in Nat
          /\ B[at - 1] \in Nat /\ B[len] \in Nat /\ R[at - 1] \in Nat /\ R[len - 1] \in Nat
        <3>1. at - 1 \in 0..Len(s) /\ len \in 0..Len(s) /\ at - 1 \in 0..Len(r) /\ len - 1 \in 0..Len(r)
            BY <1>4, <1>5 DEF len
        <3> QED BY <1>1, <1>4, <3>1, BytesFacts, SizeFacts
    <2>7. z + (at - 1) = at - 1 /\ (at - 1) + (len - at) = len - 1 /\ at + (len - at) = len
        BY <1>5, <2>0
    <2>8. PICK b, d, p, q, x : b = B[at - 1] /\ d = B[len] /\ p = R[at - 1] /\ q = R[len - 1] /\ x = Size(h)
        OBVIOUS
    <2>9. /\ b \in Nat /\ d \in Nat /\ p \in Nat /\ q \in Nat /\ x \in Nat
          /\ p - 0 = b - 0 /\ q - p = d - (b + x)
        BY <2>0, <2>3, <2>4, <2>5, <2>6, <2>7, <2>8
    <2>10. d = q + x
        BY <2>9
    <2> QED BY <1>4, <2>8, <2>10 DEF Total, len
<1>7. Total(t) = Total(r) + Size(h)
    BY <1>4, AppendBytes
<1>8. NoTwice(r)
    <2> SUFFICES ASSUME NEW i \in DOMAIN r, NEW j \in DOMAIN r, r[i] = r[j] PROVE i = j
        BY DEF NoTwice
    <2> DEFINE up(l) == IF l < at THEN l ELSE l + 1
    <2>1. ASSUME NEW l \in DOMAIN r PROVE up(l) \in DOMAIN s /\ r[l] = s[up(l)]
        <3>1. l \in 1..(len - 1)
            BY <1>4
        <3>2. CASE l < at
            <4>1. l \in 1..(at - 1) /\ l \in 1..len
                BY <1>5, <3>1, <3>2
            <4> QED BY <1>1, <1>4, <3>2, <4>1
        <3>3. CASE ~(l < at)
            <4>1. l \in at..(len - 1) /\ l + 1 \in 1..len
                BY <1>5, <3>1, <3>3
            <4> QED BY <1>1, <1>4, <3>3, <4>1
        <3> QED BY <3>2, <3>3
    <2>2. up(i) \in DOMAIN s /\ up(j) \in DOMAIN s /\ s[up(i)] = s[up(j)]
        BY <2>1
    <2>3. up(i) = up(j)
        <3> HIDE DEF up
        <3> QED BY <1>1, <2>2 DEF NoTwice
    <2>4. i \in Nat /\ j \in Nat
        BY <1>4
    <2> QED BY <1>5, <2>3, <2>4
<1>9. \A j \in DOMAIN r : r[j] # h
    BY <1>1, <1>3, <1>4 DEF NoTwice
<1>10. NoTwice(t)
    BY <1>4, <1>8, <1>9, AppendNoTwice
<1>11. t \in Seq(Entries) /\ Len(t) = len
    BY <1>4, <1>5
<1> HIDE DEF t
<1>12. PICK new : new = [c EXCEPT !.items = t]
    OBVIOUS
<1>13. new.items = t /\ new.bytes = c.bytes /\ new \in Caches
    BY <1>11, <1>12 DEF Caches
<1>14. new.bytes > CacheMax => Len(new.items) = 1
    BY <1>11, <1>13 DEF WellKept, s, len
<1>15. WellKept(new)
    BY <1>1, <1>6, <1>7, <1>10, <1>13, <1>14 DEF WellKept
<1> QED BY <1>2, <1>12, <1>13, <1>15

WellKeptCaches == {c \in Caches : WellKept(c)}

\* A hit, a failed download and a new segment keep them right.
LEMMA LoadKeeps ==
    ASSUME NEW c \in WellKeptCaches, NEW h \in Entries, NEW F
    PROVE  Load(c, h, F) \in WellKeptCaches
<1>1. c \in Caches /\ WellKept(c)
    BY DEF WellKeptCaches
<1>2. h \in ToSet(c.items) <=> \E i \in DOMAIN c.items : c.items[i] = h
    BY DEF ToSet
<1>3. CASE h \in ToSet(c.items)
    BY <1>1, <1>2, <1>3, TouchKeeps DEF Load, WellKeptCaches
<1>4. CASE h \notin ToSet(c.items) /\ h \in F
    BY <1>4 DEF Load
<1>5. CASE h \notin ToSet(c.items) /\ h \notin F
    <2>1. \A i \in DOMAIN c.items : c.items[i] # h
        BY <1>2, <1>5
    <2>2. CacheSegment(c, h) \in Caches /\ WellKept(CacheSegment(c, h))
        BY <1>1, <2>1, CacheSegmentKeeps
    <2> QED BY <1>5, <2>2 DEF Load, WellKeptCaches
<1> QED BY <1>3, <1>4, <1>5

CacheNow == [items |-> cache, bytes |-> bytes]

\* The loop over what a range loads.
LEMMA RangeCache ==
    ASSUME TierInv, CacheNow \in WellKeptCaches, NEW lo, NEW hi, NEW F
    PROVE  AfterRange(lo, hi, F) \in WellKeptCaches
<1> DEFINE hs == ToLoad(lo, hi)
           n == Len(hs)
           Steps(f) == f = [i \in 0..n |-> IF i = 0 THEN CacheNow ELSE Load(f[i - 1], hs[i], F)]
           run == CHOOSE f : Steps(f)
           G == [i \in 1..n |-> [c \in WellKeptCaches |-> Load(c, hs[i], F)]]
<1>0. AfterRange(lo, hi, F) = run[n]
    BY DEF AfterRange, CacheNow
<1>1. hs \in Seq(Entries)
    <2> DEFINE I == {i \in DOMAIN archived : Overlaps(archived[i], lo, hi) /\ archived[i] \notin fetched}
    <2>1. archived \in Seq(Entries) /\ I \in SUBSET DOMAIN archived
        BY TypeFacts DEF TierInv
    <2>2. hs = Archived(I)
        BY DEF ToLoad
    <2> HIDE DEF I, hs
    <2> QED BY <2>1, <2>2, ArchivedFacts
<1> HIDE DEF hs
<1>2. n \in Nat /\ \A i \in 1..n : hs[i] \in Entries
    BY <1>1
<1>3. G \in [1..n -> [WellKeptCaches -> WellKeptCaches]]
    <2> SUFFICES ASSUME NEW i \in 1..n, NEW c \in WellKeptCaches PROVE Load(c, hs[i], F) \in WellKeptCaches
        OBVIOUS
    <2> QED BY <1>2, LoadKeeps
<1>4. PICK f : Course(f, WellKeptCaches, CacheNow, n, G)
    <2>1. n \in Nat
        BY <1>2
    <2> HIDE DEF G, n, Steps, run
    <2> QED BY <1>3, <2>1, IterationExists
<1>5. Steps(f)
    <2>1. ASSUME NEW i \in 0..n, i # 0 PROVE f[i] = Load(f[i - 1], hs[i], F)
        <3>1. i \in 1..n /\ i - 1 \in 0..n
            BY <1>2, <2>1
        <3>2. f[i] = G[i][f[i - 1]] /\ f[i - 1] \in WellKeptCaches
            BY <1>4, <3>1 DEF Course
        <3> QED BY <3>1, <3>2
    <2>2. f = [i \in 0..n |-> f[i]] /\ f[0] = CacheNow
        BY <1>4 DEF Course
    <2> HIDE DEF G
    <2> QED BY <2>1, <2>2
<1>6. Steps(run)
    BY <1>5
<1>7. run[0] = CacheNow /\ \A i \in 1..n : run[i] = Load(run[i - 1], hs[i], F)
    <2>1. 0 \in 0..n /\ \A i \in 1..n : i \in 0..n /\ i # 0
        BY <1>2
    <2> HIDE DEF run
    <2> QED BY <1>6, <2>1
<1> HIDE DEF run
<1>8. run[n] \in WellKeptCaches
    <2> DEFINE P == {i \in 0..n : run[i] \in WellKeptCaches}
    <2>1. 0 \in P
        BY <1>2, <1>7
    <2>2. ASSUME NEW i \in 1..n, i - 1 \in P PROVE i \in P
        <3>1. i \in 0..n /\ run[i - 1] \in WellKeptCaches
            BY <1>2, <2>2
        <3> QED BY <1>2, <1>7, <3>1, LoadKeeps
    <2> HIDE DEF P
    <2>3. n \in P
        BY <1>2, <2>1, <2>2, Reaches
    <2> QED BY <2>3 DEF P
<1> QED BY <1>0, <1>8

LEMMA EmptyKept == [items |-> <<>>, bytes |-> 0] \in WellKeptCaches
<1> DEFINE c == [items |-> <<>>, bytes |-> 0]
<1>1. c.items = <<>> /\ c.bytes = 0 /\ <<>> \in Seq(Entries) /\ Len(<<>>) = 0
    OBVIOUS
<1>2. Total(<<>>) = 0
    BY <1>1, BytesFacts DEF Total
<1>3. NoTwice(<<>>)
    BY DEF NoTwice
<1>4. CacheMax \in Nat
    BY TierAssumption
<1>5. c \in Caches
    BY <1>1 DEF Caches
<1> HIDE DEF c
<1>6. WellKept(c)
    BY <1>1, <1>2, <1>3, <1>4 DEF WellKept
<1> QED BY <1>5, <1>6 DEF WellKeptCaches, c

\* The set of well-kept caches is a constant.
LEMMA NotMoved == WellKeptCaches' = WellKeptCaches
BY DEF WellKeptCaches, Caches, WellKept, Total, NoTwice, BytesOfFirst, Size, Live, Entries, Entry, Keys

\* A list without repetition has as many elements as positions.
LEMMA NoTwiceCount ==
    ASSUME NEW s \in Seq(Entries), NoTwice(s)
    PROVE  Cardinality(ToSet(s)) = Len(s)
<1> DEFINE D == 1..Len(s)
           T == ToSet(s)
           f == [i \in D |-> s[i]]
<1>1. Len(s) \in Nat /\ DOMAIN s = D
    OBVIOUS
<1>2. T = {s[i] : i \in D}
    BY <1>1 DEF ToSet
<1>3. f \in Bijection(D, T)
    BY <1>1, <1>2 DEF NoTwice, Bijection, Injection, Surjection, IsInjective
<1> HIDE DEF f, T
<1>4. ExistsBijection(1..Len(s), T)
    BY <1>3 DEF ExistsBijection
<1> QED BY <1>1, <1>4, FS_CountingElements DEF T

\* Tier.CacheAccounting: whatever a range evicts, touches and adds, and whichever of its
\* downloads fail, the byte count is that of the cached segments.
THEOREM CacheKept == Spec => []CacheAccounting
<1> DEFINE CacheInv == CacheNow \in WellKeptCaches
<1>1. Init => CacheInv
    BY EmptyKept DEF Init, CacheNow
<1>2. TierInv /\ CacheInv /\ [Next]_vars => CacheInv'
    <2> SUFFICES ASSUME TierInv, CacheInv, [Next]_vars PROVE CacheInv'
        OBVIOUS
    <2>1. CASE UNCHANGED cacheVars
        <3>1. CacheNow' = CacheNow
            BY <2>1 DEF CacheNow, cacheVars
        <3> QED BY <3>1, NotMoved
    <2>2. ASSUME NEW lo, NEW hi, NEW F, range(lo, hi, F) PROVE CacheInv'
        <3>1. PICK c : c = AfterRange(lo, hi, F)
            OBVIOUS
        <3>2. c \in WellKeptCaches
            BY <3>1, RangeCache
        <3>3. cache' = c.items /\ bytes' = c.bytes
            BY <2>2, <3>1 DEF range
        <3>4. CacheNow' = c
            BY <3>2, <3>3 DEF CacheNow, WellKeptCaches, Caches
        <3> QED BY <3>2, <3>4, NotMoved
    <2>3. CASE restart
        <3>1. cache' = <<>> /\ bytes' = 0
            BY <2>3 DEF restart
        <3>2. CacheNow' = [items |-> <<>>, bytes |-> 0]
            BY <3>1 DEF CacheNow
        <3> QED BY <3>2, EmptyKept, NotMoved
    <2>4. [Next]_vars => UNCHANGED cacheVars \/ (\E lo, hi, F : range(lo, hi, F)) \/ restart
        <3>1. \A k, op, i, strip : write(k, op) \/ archive_segments(i, strip) => UNCHANGED cacheVars
            BY DEF write, archive_segments, cacheVars
        <3>2. \A i : archive_failed(i) \/ prune_local_segment(i) => UNCHANGED cacheVars
            BY DEF archive_failed, prune_local_segment, cacheVars
        <3>3. \A cut : flush_to_segments(cut) \/ compact_once \/ UNCHANGED vars => UNCHANGED cacheVars
            BY DEF flush_to_segments, compact_once, vars, cacheVars
        <3>4. \A k, F, hs, n : get(k, F) \/ fetch(hs, n) => UNCHANGED cacheVars
            BY DEF get, fetch, Become, cacheVars
        <3> QED BY <3>1, <3>2, <3>3, <3>4 DEF Next
    <2> QED BY <2>1, <2>2, <2>3, <2>4
<1>3. CacheInv => CacheAccounting
    <2> SUFFICES ASSUME CacheInv PROVE CacheAccounting
        OBVIOUS
    <2>1. cache \in Seq(Entries) /\ bytes = Total(cache) /\ NoTwice(cache) /\ (bytes > CacheMax => Len(cache) = 1)
        BY DEF CacheNow, WellKeptCaches, Caches, WellKept
    <2>2. Cardinality(ToSet(cache)) = Len(cache)
        BY <2>1, NoTwiceCount
    <2> QED BY <2>1, <2>2 DEF CacheAccounting, Total
<1> QED BY InitInv, NextInv, <1>1, <1>2, <1>3, PTL DEF Spec
=============================================================================
