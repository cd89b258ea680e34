---------------------------- MODULE EngineProofs ----------------------------
(***************************************************************************)
(* Theorems about Engine, for every value of its constants: types, ids,    *)
(* the flush phases and WAL coverage; then what recovery relies on and     *)
(* what it achieves.  LSNs number the writes, and the names of the WAL     *)
(* files are in the order of their records.  This lasts until the engine   *)
(* has both flushed and been opened again: then the LSN counter starts     *)
(* from what the WAL still holds.                                          *)
(*                                                                         *)
(* From this, the blocking Engine implements DurableStore: what a read     *)
(* returns is what the history of writes says, a flush changes no read,    *)
(* and a clean close or a kill loses nothing, wherever in a call it falls. *)
(***************************************************************************)
EXTENDS Engine, TLAPS, WellFoundedInduction, SequenceTheorems, FiniteSetTheorems
-----------------------------------------------------------------------------
(***************************************************************************)
(* Largest and smallest elements of sets of naturals.                      *)
(***************************************************************************)

\* A nonempty set of naturals has a smallest element: the Min that Kept takes.
LEMMA MinExists ==
    ASSUME NEW S \in SUBSET Nat, S # {}
    PROVE  Min(S) \in S /\ \A y \in S : Min(S) <= y
<1>1. PICK x \in S : \A y \in S : ~(<<y, x>> \in OpToRel(<, Nat))
    BY WFMin, NatLessThanWellFounded, Zenon
<1>2. \A y \in S : x <= y
    <2> SUFFICES ASSUME NEW y \in S, ~(x <= y) PROVE FALSE
        OBVIOUS
    <2>1. y \in Nat /\ x \in Nat /\ y < x
        OBVIOUS
    <2>2. <<y, x>> \in OpToRel(<, Nat)
        BY <2>1 DEF OpToRel
    <2> QED BY <1>1, <2>2
<1> QED BY <1>2 DEF Min

\* A bounded nonempty set of naturals has a largest element, which Max returns:
\* the Max of flushed_max_lsn, of the recovered LSN and of the next segment id.
LEMMA MaxExists ==
    ASSUME NEW S \in SUBSET Nat, S # {}, NEW b \in Nat, \A x \in S : x <= b
    PROVE  Max(S) \in S /\ \A y \in S : y <= Max(S)
<1> DEFINE D == {b - x : x \in S}
<1>0. D # {}
    BY Zenon DEF D
<1>1. D \in SUBSET Nat
    BY SMT DEF D
<1>2. Min(D) \in D /\ \A d \in D : Min(D) <= d
    BY <1>0, <1>1, MinExists
<1>3. PICK m \in S : Min(D) = b - m
    BY <1>2 DEF D
<1>4. \A y \in S : m >= y
    <2> SUFFICES ASSUME NEW y \in S PROVE m >= y
        OBVIOUS
    <2>1. b - y \in D
        BY Zenon DEF D
    <2>2. b - m <= b - y
        BY <1>2, <1>3, <2>1, Zenon
    <2> QED BY <2>2, SMT
<1> QED BY <1>4 DEF Max

\* The two-element Max of finalize_flush and of Truncate.
LEMMA MaxOfTwo ==
    ASSUME NEW a \in Int, NEW b \in Int
    PROVE  Max({a, b}) = IF a >= b THEN a ELSE b
BY DEF Max
-----------------------------------------------------------------------------
(***************************************************************************)
(* WAL files.  WalOK(w, l): well-typed files, one with the largest name,   *)
(* no record with an LSN above l.                                          *)
(***************************************************************************)
FileOK(f, l) ==
    /\ f \in WalFile
    /\ \A i \in DOMAIN f.recs : f.recs[i].entry.lsn <= l

HasLast(w) == \E b \in DOMAIN w : \A n \in DOMAIN w : n <= b

WalOK(w, l) ==
    /\ DOMAIN w \subseteq Nat
    /\ HasLast(w)
    /\ \A n \in DOMAIN w : FileOK(w[n], l)

\* Every position of a file holds a record.
LEMMA RecordOf ==
    ASSUME NEW f \in WalFile, NEW i \in DOMAIN f.recs
    PROVE  f.recs[i] \in Record
<1>1. f.recs \in Seq(Record)
    BY DEF WalFile
<1> QED BY <1>1

\* The bound on the LSNs may grow.
LEMMA FileOKMono ==
    ASSUME NEW f, NEW l \in Nat, NEW m \in Nat, l <= m, FileOK(f, l)
    PROVE  FileOK(f, m)
<1>1. \A i \in DOMAIN f.recs : f.recs[i].entry.lsn \in Nat
    BY RecordOf DEF FileOK, Record, Entry
<1> QED BY <1>1 DEF FileOK

\* Replacing the records of a file by good records leaves a good file.
LEMMA ReplaceRecs ==
    ASSUME NEW f \in WalFile, NEW s \in Seq(Record)
    PROVE  /\ [f EXCEPT !.recs = s] \in WalFile
           /\ [f EXCEPT !.recs = s].recs = s
           /\ [f EXCEPT !.recs = s].synced = f.synced
BY DEF WalFile

\* Changing one file in place.
LEMMA ReplaceFile ==
    ASSUME NEW w, NEW l \in Nat, NEW m \in Nat, l <= m, WalOK(w, l),
           NEW cur \in DOMAIN w, NEW v, DOMAIN v = DOMAIN w,
           \A n \in DOMAIN w : n # cur => v[n] = w[n], FileOK(v[cur], m)
    PROVE  WalOK(v, m)
BY FileOKMono DEF WalOK, HasLast

\* Appending a sequence of records.
LEMMA ExtendFile ==
    ASSUME NEW f, NEW l \in Nat, NEW m \in Nat, l <= m, FileOK(f, l),
           NEW s \in Seq(Record), \A i \in DOMAIN s : s[i].entry.lsn <= m
    PROVE  /\ FileOK([f EXCEPT !.recs = f.recs \o s], m)
           /\ DOMAIN [f EXCEPT !.recs = f.recs \o s].recs = 1..(Len(f.recs) + Len(s))
           /\ \A i \in DOMAIN f.recs : [f EXCEPT !.recs = f.recs \o s].recs[i] = f.recs[i]
           /\ \A i \in DOMAIN s : [f EXCEPT !.recs = f.recs \o s].recs[Len(f.recs) + i] = s[i]
<1> DEFINE t == f.recs \o s
           g == [f EXCEPT !.recs = t]
<1>1. FileOK(f, m) /\ f \in WalFile /\ f.recs \in Seq(Record)
    BY FileOKMono DEF FileOK, WalFile
<1>2. /\ t \in Seq(Record) /\ Len(t) = Len(f.recs) + Len(s)
      /\ \A i \in 1..Len(t) : t[i] = IF i <= Len(f.recs) THEN f.recs[i] ELSE s[i - Len(f.recs)]
    BY <1>1, ConcatProperties
<1>3. g \in WalFile /\ g.recs = t
    BY <1>1, <1>2, ReplaceRecs
<1>4. \A i \in DOMAIN t : t[i].entry.lsn <= m
    <2> SUFFICES ASSUME NEW i \in 1..Len(t) PROVE t[i].entry.lsn <= m
        BY <1>2
    <2>1. CASE i <= Len(f.recs)
        BY <2>1, <1>1, <1>2 DEF FileOK
    <2>2. CASE ~(i <= Len(f.recs))
        <3>1. i - Len(f.recs) \in DOMAIN s
            BY <1>1, <1>2, <2>2
        <3> QED BY <3>1, <2>2, <1>2
    <2> QED BY <2>1, <2>2
<1>5. FileOK(g, m)
    BY <1>3, <1>4 DEF FileOK
<1>6. DOMAIN t = 1..(Len(f.recs) + Len(s))
    BY <1>2
<1>7. \A i \in DOMAIN f.recs : t[i] = f.recs[i]
    BY <1>1, <1>2
<1>8. \A i \in DOMAIN s : t[Len(f.recs) + i] = s[i]
    BY <1>1, <1>2
<1> QED BY <1>3, <1>5, <1>6, <1>7, <1>8

\* Append1: the record is in the file afterwards, with the highest LSN.
LEMMA Append1OK ==
    ASSUME NEW w, NEW l \in Nat, WalOK(w, l), NEW cur \in DOMAIN w,
           NEW k \in Keys, NEW e \in Entry, l <= e.lsn
    PROVE  /\ WalOK(Append1(w, cur, k, e), e.lsn)
           /\ DOMAIN Append1(w, cur, k, e) = DOMAIN w
<1> DEFINE r == [key |-> k, entry |-> e]
           g == [w[cur] EXCEPT !.recs = w[cur].recs \o <<r>>]
<1>1. FileOK(w[cur], l) /\ w[cur].recs \in Seq(Record) /\ e.lsn \in Nat
    BY DEF WalOK, FileOK, WalFile, Entry
<1>2. r \in Record /\ <<r>> \in Seq(Record)
    BY DEF Record
<1>3. \A i \in DOMAIN <<r>> : <<r>>[i].entry.lsn <= e.lsn
    BY DEF Entry
<1>4. FileOK(g, e.lsn)
    BY <1>1, <1>2, <1>3, ExtendFile
<1>5. Append(w[cur].recs, r) = w[cur].recs \o <<r>>
    BY <1>1, <1>2, AppendIsConcat
<1>6. /\ DOMAIN Append1(w, cur, k, e) = DOMAIN w
      /\ \A n \in DOMAIN w : n # cur => Append1(w, cur, k, e)[n] = w[n]
      /\ Append1(w, cur, k, e)[cur] = g
    BY <1>5 DEF Append1
<1> HIDE DEF g
<1> QED BY <1>1, <1>4, <1>6, ReplaceFile

\* Fsync changes no record.
LEMMA FsyncOK ==
    ASSUME NEW w, NEW l \in Nat, WalOK(w, l), NEW cur \in DOMAIN w
    PROVE  /\ WalOK(Fsync(w, cur), l)
           /\ DOMAIN Fsync(w, cur) = DOMAIN w
           /\ \A n \in DOMAIN w : Fsync(w, cur)[n].recs = w[n].recs
<1> DEFINE g == [w[cur] EXCEPT !.synced = Len(w[cur].recs)]
<1>1. FileOK(w[cur], l) /\ w[cur] \in WalFile /\ w[cur].recs \in Seq(Record)
    BY DEF WalOK, FileOK, WalFile
<1>2. g \in WalFile /\ g.recs = w[cur].recs
    BY <1>1 DEF WalFile
<1>3. FileOK(g, l)
    BY <1>1, <1>2 DEF FileOK
<1>4. /\ DOMAIN Fsync(w, cur) = DOMAIN w
      /\ \A n \in DOMAIN w : n # cur => Fsync(w, cur)[n] = w[n]
      /\ Fsync(w, cur)[cur] = g
    BY DEF Fsync
<1> HIDE DEF g
<1>5. WalOK(Fsync(w, cur), l)
    BY <1>3, <1>4, ReplaceFile
<1>6. \A n \in DOMAIN w : Fsync(w, cur)[n].recs = w[n].recs
    BY <1>2, <1>4
<1> QED BY <1>4, <1>5, <1>6

\* Create adds an empty file and truncates none but its namesake.
LEMMA CreateOK ==
    ASSUME NEW w, NEW l \in Nat, WalOK(w, l), NEW name \in Nat
    PROVE  /\ WalOK(Create(w, name), l)
           /\ DOMAIN Create(w, name) = DOMAIN w \cup {name}
           /\ \A n \in DOMAIN w : n # name => Create(w, name)[n] = w[n]
<1>1. /\ DOMAIN Create(w, name) = DOMAIN w \cup {name}
      /\ Create(w, name)[name] = NewWal
      /\ \A n \in DOMAIN w : n # name => Create(w, name)[n] = w[n]
    BY DEF Create
<1>2. FileOK(NewWal, l)
    BY DEF FileOK, NewWal, WalFile
<1>3. HasLast(Create(w, name))
    BY <1>1 DEF WalOK, HasLast
<1> QED BY <1>1, <1>2, <1>3 DEF WalOK

\* Retiring the other files leaves the current one as it was.
LEMMA RetireOK ==
    ASSUME NEW w, NEW l \in Nat, WalOK(w, l), NEW cur \in DOMAIN w
    PROVE  /\ WalOK(RetireOthers(w, cur), l)
           /\ cur \in DOMAIN RetireOthers(w, cur)
BY DEF WalOK, HasLast, RetireOthers

\* Any part of the files that keeps the largest of its names is well formed.
LEMMA SubWalOK ==
    ASSUME NEW w, NEW l \in Nat, WalOK(w, l), NEW cur \in DOMAIN w, NEW cut \in DOMAIN w
    PROVE  LET left == [n \in {x \in DOMAIN w : x = cur \/ x >= cut} |-> w[n]] IN
           /\ WalOK(left, l)
           /\ cur \in DOMAIN left
<1> DEFINE dom == {x \in DOMAIN w : x = cur \/ x >= cut}
           left == [n \in dom |-> w[n]]
<1>1. PICK b \in DOMAIN w : \A n \in DOMAIN w : n <= b
    BY DEF WalOK, HasLast
<1>2. b \in dom /\ \A n \in dom : n <= b
    BY <1>1 DEF WalOK
<1>3. HasLast(left)
    BY <1>2 DEF HasLast
<1>4. DOMAIN left \subseteq Nat /\ \A n \in dom : FileOK(left[n], l)
    BY DEF WalOK
<1> QED BY <1>3, <1>4 DEF WalOK

\* The file with the largest name is one of the files.
LEMMA LastFile ==
    ASSUME NEW w, NEW l \in Nat, WalOK(w, l)
    PROVE  Max(DOMAIN w) \in DOMAIN w
<1>1. PICK b \in DOMAIN w : \A n \in DOMAIN w : n <= b
    BY DEF WalOK, HasLast
<1>2. DOMAIN w \in SUBSET Nat /\ DOMAIN w # {} /\ b \in Nat
    BY DEF WalOK
<1> QED BY <1>1, <1>2, MaxExists

\* Cutting a file after n records.
LEMMA TruncateOK ==
    ASSUME NEW f, NEW l \in Nat, FileOK(f, l), NEW n \in -1..Len(f.recs)
    PROVE  FileOK(Truncate(f, n), l)
<1> DEFINE c == Max({n, 0})
           s == SubSeq(f.recs, 1, c)
<1>1. f \in WalFile /\ f.recs \in Seq(Record) /\ Len(f.recs) \in Nat
    BY DEF FileOK, WalFile
<1>2. c \in 0..Len(f.recs)
    BY <1>1, MaxOfTwo
<1> HIDE DEF c
<1>3. /\ s \in Seq(Record) /\ Len(s) = c
      /\ \A i \in 1..c : s[i] = f.recs[i]
    <2>1. \A i \in 1..c : f.recs[i] \in Record
        BY <1>1, <1>2
    <2> QED BY <1>2, <2>1, SubSeqProperties
<1>4. \A i \in DOMAIN s : s[i].entry.lsn <= l
    BY <1>1, <1>2, <1>3 DEF FileOK
<1>5. Truncate(f, n) = [recs |-> s, synced |-> n, hdr |-> n >= 0]
    BY DEF Truncate, c
<1> HIDE DEF s
<1>6. Truncate(f, n) \in WalFile /\ Truncate(f, n).recs = s
    BY <1>1, <1>3, <1>5 DEF WalFile
<1> QED BY <1>4, <1>6 DEF FileOK

\* Whatever a close, a kill or a power failure leaves is well formed.
LEMMA SurvivorsOK ==
    ASSUME NEW w, NEW l \in Nat, WalOK(w, l), NEW cur \in DOMAIN w,
           NEW kind, NEW s \in Survivors(w, cur, kind)
    PROVE  /\ WalOK(s, l)
           /\ DOMAIN s = DOMAIN w
           /\ kind = "kill" => s = w
<1>1. CASE kind = "close"
    BY <1>1, FsyncOK DEF Survivors
<1>2. CASE kind = "kill"
    BY <1>2 DEF Survivors
<1>3. CASE kind # "close" /\ kind # "kill"
    <2> DEFINE floor == IF kind = "torn" THEN -1 ELSE 0
    <2>1. PICK keep \in [DOMAIN w -> -1..MaxWrites] :
             /\ s = [n \in DOMAIN w |-> Truncate(w[n], keep[n])]
             /\ \A n \in DOMAIN w : keep[n] \in Max({floor, w[n].synced})..Len(w[n].recs)
        BY <1>3, Zenon DEF Survivors
    <2>2. \A n \in DOMAIN w : FileOK(s[n], l)
        <3> SUFFICES ASSUME NEW n \in DOMAIN w PROVE FileOK(s[n], l)
            OBVIOUS
        <3>1. FileOK(w[n], l) /\ w[n].synced \in Int /\ Len(w[n].recs) \in Nat
            BY DEF WalOK, FileOK, WalFile
        <3>2. keep[n] \in -1..Len(w[n].recs)
            <4>1. floor \in {-1, 0}
                OBVIOUS
            <4> HIDE DEF floor
            <4>2. Max({floor, w[n].synced}) = IF floor >= w[n].synced THEN floor ELSE w[n].synced
                BY <3>1, <4>1, MaxOfTwo
            <4> QED BY <2>1, <3>1, <4>1, <4>2
        <3> QED BY <2>1, <3>1, <3>2, TruncateOK
    <2> QED BY <1>3, <2>1, <2>2 DEF WalOK, HasLast
<1> QED BY <1>1, <1>2, <1>3

\* Replay gives each key an entry that some WAL record holds, or none.
LEMMA ReplayOK ==
    ASSUME NEW w, NEW l \in Nat, WalOK(w, l)
    PROVE  /\ Replay(w) \in MemEntries
           /\ \A k \in Keys : Replay(w)[k] # NoEntry =>
                 \E n \in DOMAIN w : \E i \in DOMAIN w[n].recs :
                    w[n].recs[i] = [key |-> k, entry |-> Replay(w)[k]]
<1>1. \A k \in Keys : Replay(w)[k] # NoEntry =>
         \E n \in DOMAIN w : \E i \in DOMAIN w[n].recs :
            w[n].recs[i] = [key |-> k, entry |-> Replay(w)[k]]
    <2> SUFFICES ASSUME NEW k \in Keys, Replay(w)[k] # NoEntry
                 PROVE  \E n \in DOMAIN w : \E i \in DOMAIN w[n].recs :
                           w[n].recs[i] = [key |-> k, entry |-> Replay(w)[k]]
        OBVIOUS
    <2> DEFINE p == CHOOSE q \in Positions(w, k) : IsLast(w, k, q)
    <2>1. /\ \E q \in Positions(w, k) : IsLast(w, k, q)
          /\ Replay(w)[k] = w[p[1]].recs[p[2]].entry
        BY Zenon DEF Replay
    <2>2. p \in Positions(w, k)
        BY <2>1
    <2> HIDE DEF p
    <2>3a. PICK n \in DOMAIN w : \E i \in DOMAIN w[n].recs : p = <<n, i>>
        BY <2>2 DEF Positions
    <2>3. PICK i \in DOMAIN w[n].recs : p = <<n, i>>
        BY <2>3a
    <2>4. w[n].recs[i].key = k /\ Replay(w)[k] = w[n].recs[i].entry
        BY <2>1, <2>2, <2>3 DEF Positions
    <2>5. w[n] \in WalFile /\ w[n].recs[i] \in Record
        BY RecordOf DEF WalOK, FileOK
    <2>6. w[n].recs[i] = [key |-> k, entry |-> Replay(w)[k]]
        BY <2>4, <2>5 DEF Record
    <2> QED BY <2>6
<1>2. \A k \in Keys : Replay(w)[k] \in Entry \cup {NoEntry}
    <2> SUFFICES ASSUME NEW k \in Keys, Replay(w)[k] # NoEntry PROVE Replay(w)[k] \in Entry
        OBVIOUS
    <2>0. PICK n \in DOMAIN w : \E i \in DOMAIN w[n].recs :
             w[n].recs[i] = [key |-> k, entry |-> Replay(w)[k]]
        BY <1>1
    <2>1. PICK i \in DOMAIN w[n].recs : w[n].recs[i] = [key |-> k, entry |-> Replay(w)[k]]
        BY <2>0
    <2>2. w[n].recs[i] \in Record
        BY RecordOf DEF WalOK, FileOK
    <2> QED BY <2>1, <2>2 DEF Record
<1>3. Replay(w) = [k \in Keys |-> Replay(w)[k]]
    BY DEF Replay
<1>4. Replay(w) \in MemEntries
    BY <1>2, <1>3, Zenon DEF MemEntries
<1> QED BY <1>1, <1>4

\* The LSN that recovery restarts from bounds every record it replayed.
LEMMA RecoveredOK ==
    ASSUME NEW w, NEW l \in Nat, WalOK(w, l)
    PROVE  RecoveredLsn(w) \in Nat /\ WalOK(w, RecoveredLsn(w))
<1> DEFINE S == Lsns(w) \cup {0}
<1>1. \A n \in DOMAIN w : \A i \in DOMAIN w[n].recs :
         w[n].recs[i].entry.lsn \in Nat /\ w[n].recs[i].entry.lsn <= l
    BY RecordOf DEF WalOK, FileOK, Record, Entry
<1>2. S \in SUBSET Nat /\ \A x \in S : x <= l
    BY <1>1 DEF Lsns
<1>3. Max(S) \in S /\ \A y \in S : y <= Max(S)
    <2>1. S # {}
        OBVIOUS
    <2> HIDE DEF S
    <2> QED BY <1>2, <2>1, MaxExists
<1>4. \A n \in DOMAIN w : \A i \in DOMAIN w[n].recs : w[n].recs[i].entry.lsn \in S
    BY DEF Lsns
<1>5. RecoveredLsn(w) = Max(S)
    BY DEF RecoveredLsn
<1> HIDE DEF S
<1>6. RecoveredLsn(w) \in Nat
    BY <1>2, <1>3, <1>5
<1> QED BY <1>3, <1>4, <1>5, <1>6 DEF WalOK, FileOK
-----------------------------------------------------------------------------
(***************************************************************************)
(* The memtable, segment ids and the history.                              *)
(***************************************************************************)
MemOK(m, l) == m \in MemEntries /\ \A k \in Keys : m[k] # NoEntry => m[k].lsn <= l

\* flushed_max_lsn is the LSN of an entry and bounds all of them.
LEMMA MaxLsnOK ==
    ASSUME NEW l \in Nat, NEW m, MemOK(m, l), Live(m) # {}
    PROVE  /\ MaxLsnOf(m) \in Nat
           /\ MaxLsnOf(m) <= l
           /\ \A k \in Keys : m[k] # NoEntry => m[k].lsn <= MaxLsnOf(m)
<1> DEFINE S == {m[k].lsn : k \in Live(m)}
<1>1. \A k \in Live(m) : m[k].lsn \in Nat /\ m[k].lsn <= l
    BY DEF MemOK, MemEntries, Live, Entry
<1>2. S # {}
    BY Zenon
<1>3. S \in SUBSET Nat /\ \A x \in S : x <= l
    BY <1>1
<1>4. \A k \in Keys : m[k] # NoEntry => m[k].lsn \in S
    BY DEF Live
<1>5. MaxLsnOf(m) = Max(S)
    BY DEF MaxLsnOf
<1> HIDE DEF S
<1>6. Max(S) \in S /\ \A y \in S : y <= Max(S)
    BY <1>2, <1>3, MaxExists
<1> QED BY <1>3, <1>4, <1>5, <1>6

\* The next segment id is above every id in the manifest.
LEMMA NextIdOK ==
    ASSUME NEW segs \in Seq(Segment), NEW b \in Nat, \A i \in DOMAIN segs : segs[i].id < b
    PROVE  NextId(segs) \in Nat /\ \A i \in DOMAIN segs : segs[i].id < NextId(segs)
<1> DEFINE S == {segs[i].id + 1 : i \in DOMAIN segs} \cup {0}
<1>0. \A i \in DOMAIN segs : segs[i] \in Segment
    OBVIOUS
<1>1. \A i \in DOMAIN segs : segs[i].id \in Nat
    BY <1>0 DEF Segment
<1>2. S \in SUBSET Nat /\ \A x \in S : x <= b
    BY <1>1
<1>3. S # {} /\ \A i \in DOMAIN segs : segs[i].id + 1 \in S
    OBVIOUS
<1>4. NextId(segs) = Max(S)
    BY DEF NextId
<1> HIDE DEF S
<1>5. Max(S) \in S /\ \A y \in S : y <= Max(S)
    BY <1>2, <1>3, MaxExists
<1>6. NextId(segs) \in Nat
    BY <1>2, <1>4, <1>5
<1> QED BY <1>1, <1>3, <1>4, <1>5, <1>6

\* A restart keeps at least the durable prefix, and a kill keeps everything.
LEMMA KeptOK ==
    ASSUME NEW h \in Seq(HistEntry), NEW d \in 0..Len(h), NEW w, NEW s
    PROVE  /\ Kept(h, d, w, s) \in d..Len(h)
           /\ s = w => Kept(h, d, w, s) = Len(h)
<1> DEFINE lost == {i \in DOMAIN h : h[i].val \in Vals(w) \ Vals(s)}
<1>0. Len(h) \in Nat /\ d \in Nat /\ lost \in SUBSET (1..Len(h)) /\ lost \in SUBSET Nat
    OBVIOUS
<1>1. s = w => lost = {}
    OBVIOUS
<1>2. Kept(h, d, w, s) = IF lost = {} THEN Len(h) ELSE Max({d, Min(lost) - 1})
    BY DEF Kept
<1> HIDE DEF lost
<1>3. CASE lost = {}
    BY <1>0, <1>2, <1>3
<1>4. CASE lost # {}
    <2>1. Min(lost) \in 1..Len(h)
        BY <1>0, <1>4, MinExists
    <2>2. Max({d, Min(lost) - 1}) = IF d >= Min(lost) - 1 THEN d ELSE Min(lost) - 1
        BY <1>0, <2>1, MaxOfTwo
    <2> QED BY <1>0, <1>1, <1>2, <1>4, <2>1, <2>2
<1> QED BY <1>3, <1>4

\* A prefix of a history is a history.
LEMMA PrefixOK ==
    ASSUME NEW h \in Seq(HistEntry), NEW n \in 0..Len(h)
    PROVE  SubSeq(h, 1, n) \in Seq(HistEntry) /\ Len(SubSeq(h, 1, n)) = n
<1>1. \A i \in 1..n : h[i] \in HistEntry
    OBVIOUS
<1> QED BY <1>1, SubSeqProperties
-----------------------------------------------------------------------------
(***************************************************************************)
(* The inductive invariant.  LSNs above lsn_counter do not occur, neither  *)
(* in the WAL nor in the memtable, so a write gets an LSN no flush in      *)
(* flight has seen; hence a memtable entry at or below the flushed_max_lsn *)
(* of a flush is one the flush has copied.  The LSN counter may fall at a  *)
(* restart, but then no flush survives either.                             *)
(***************************************************************************)
SnapshotOK(f, m, l, h) ==
    /\ f.flushed_max_lsn <= l
    /\ f.upto <= Len(h)
    /\ \A k \in Keys : m[k] # NoEntry /\ m[k].lsn <= f.flushed_max_lsn => f.ents[k] = m[k]

IInv ==
    /\ TypeOK
    /\ WalOK(wal, lsn_counter)
    /\ MemOK(memtable, lsn_counter)
    /\ SegmentIdsUnique
    /\ durable <= Len(hist)
    /\ \A f \in flushes : SnapshotOK(f, memtable, lsn_counter, hist)

\* Registering a segment with an unused id at the end of the manifest.
LEMMA RegisterOK ==
    ASSUME NEW segs \in Seq(Segment), NEW g \in Segment,
           \A i, j \in DOMAIN segs : segs[i].id = segs[j].id => i = j,
           \A i \in DOMAIN segs : segs[i].id # g.id
    PROVE  LET t == Append(segs, g) IN
           /\ t \in Seq(Segment)
           /\ \A i, j \in DOMAIN t : t[i].id = t[j].id => i = j
           /\ \A i \in DOMAIN t : (i \in DOMAIN segs /\ t[i] = segs[i]) \/ t[i] = g
           /\ DOMAIN t = 1..(Len(segs) + 1) /\ t[Len(segs) + 1] = g
<1> DEFINE t == Append(segs, g)
<1>1. /\ t \in Seq(Segment) /\ DOMAIN t = 1..(Len(segs) + 1)
      /\ \A i \in DOMAIN segs : t[i] = segs[i]
      /\ t[Len(segs) + 1] = g
    OBVIOUS
<1>2. \A i \in DOMAIN t : (i \in DOMAIN segs /\ t[i] = segs[i]) \/ (i = Len(segs) + 1 /\ t[i] = g)
    BY <1>1
<1>3. \A i, j \in DOMAIN t : t[i].id = t[j].id => i = j
    BY <1>2, Zenon
<1> QED BY <1>1, <1>2, <1>3

\* What phase 1 of a flush takes from a nonempty memtable.
LEMMA PrepareOK ==
    ASSUME NEW l \in Nat, NEW m, MemOK(m, l), Live(m) # {}, NEW id \in Nat,
           NEW h \in Seq(HistEntry)
    PROVE  /\ PrepareFlush(m, id, h) \in FlushWork
           /\ PrepareFlush(m, id, h).id = id
           /\ PrepareFlush(m, id, h).ents = m
           /\ SnapshotOK(PrepareFlush(m, id, h), m, l, h)
           /\ Execute(PrepareFlush(m, id, h)) = [id |-> id, ents |-> m]
           /\ Execute(PrepareFlush(m, id, h)) \in Segment
<1>1. /\ MaxLsnOf(m) \in Nat /\ MaxLsnOf(m) <= l
      /\ m \in MemEntries /\ Len(h) \in Nat
    BY MaxLsnOK DEF MemOK
<1>2. /\ PrepareFlush(m, id, h).id = id
      /\ PrepareFlush(m, id, h).ents = m
      /\ PrepareFlush(m, id, h).flushed_max_lsn = MaxLsnOf(m)
      /\ PrepareFlush(m, id, h).upto = Len(h)
    BY DEF PrepareFlush
<1>3. PrepareFlush(m, id, h) \in FlushWork
    BY <1>1 DEF PrepareFlush, FlushWork
<1>4. SnapshotOK(PrepareFlush(m, id, h), m, l, h)
    BY <1>1, <1>2 DEF SnapshotOK
<1>5. Execute(PrepareFlush(m, id, h)) = [id |-> id, ents |-> m]
    BY <1>2 DEF Execute
<1>6. Execute(PrepareFlush(m, id, h)) \in Segment
    BY <1>1, <1>5 DEF Segment
<1> QED BY <1>2, <1>3, <1>4, <1>5, <1>6

\* Phase 3 keeps a subset of the memtable's entries.
LEMMA RemainingOK ==
    ASSUME NEW l \in Nat, NEW m, MemOK(m, l), NEW max
    PROVE  /\ MemOK(Remaining(m, max), l)
           /\ \A k \in Keys : Remaining(m, max)[k] # NoEntry =>
                 Remaining(m, max)[k] = m[k] /\ m[k].lsn > max
           /\ \A k \in Keys : m[k] # NoEntry /\ m[k].lsn > max => Remaining(m, max)[k] = m[k]
<1>1. \A k \in Keys : Remaining(m, max)[k] = IF m[k] # NoEntry /\ m[k].lsn > max THEN m[k] ELSE NoEntry
    BY DEF Remaining
<1>2. Remaining(m, max) \in MemEntries
    BY DEF Remaining, MemOK, MemEntries
<1> QED BY <1>1, <1>2 DEF MemOK

\* A flush in one call empties the memtable it flushes.
LEMMA RemainingEmpty ==
    ASSUME NEW l \in Nat, NEW m, MemOK(m, l), Live(m) # {}
    PROVE  \A k \in Keys : Remaining(m, MaxLsnOf(m))[k] = NoEntry
<1> SUFFICES ASSUME NEW k \in Keys PROVE Remaining(m, MaxLsnOf(m))[k] = NoEntry
    OBVIOUS
<1>1. m[k] # NoEntry => m[k].lsn \in Nat /\ m[k].lsn <= MaxLsnOf(m)
    BY MaxLsnOK DEF MemOK, MemEntries, Entry
<1>2. MaxLsnOf(m) \in Nat
    BY MaxLsnOK
<1> QED BY <1>1, <1>2 DEF Remaining

\* A flush in flight stays correct while LSNs and history grow and the
\* memtable only loses entries or gains entries with new LSNs.
LEMMA SnapshotsKept ==
    ASSUME IInv, TypeOK', flushes' \subseteq flushes,
           lsn_counter <= lsn_counter', Len(hist) <= Len(hist'),
           \A k \in Keys : memtable'[k] # NoEntry =>
              memtable'[k] = memtable[k] \/ memtable'[k].lsn > lsn_counter
    PROVE  \A f \in flushes' : SnapshotOK(f, memtable', lsn_counter', hist')
<1> SUFFICES ASSUME NEW f \in flushes' PROVE SnapshotOK(f, memtable', lsn_counter', hist')
    OBVIOUS
<1>1. /\ f.flushed_max_lsn \in Nat /\ f.upto \in Nat
      /\ SnapshotOK(f, memtable, lsn_counter, hist)
    BY DEF IInv, TypeOK, FlushWork
<1>2. /\ Len(hist) \in Nat /\ Len(hist') \in Nat
      /\ lsn_counter \in Nat /\ lsn_counter' \in Nat
    BY SMTT(30) DEF IInv, TypeOK
<1>3. \A k \in Keys : memtable'[k] # NoEntry => memtable'[k].lsn \in Nat
    BY DEF TypeOK, MemEntries, Entry
<1>4. \A k \in Keys : memtable'[k] # NoEntry /\ memtable'[k].lsn <= f.flushed_max_lsn
         => f.ents[k] = memtable'[k]
    BY <1>1, <1>2, <1>3 DEF SnapshotOK
<1> QED BY <1>1, <1>2, <1>4 DEF SnapshotOK

\* begin_flush, execute and finalize_flush in one call.
LEMMA FlushAllOK ==
    ASSUME IInv, NEW l \in Nat, NEW m, MemOK(m, l), Live(m) # {},
           NEW w, WalOK(w, l), NEW cur \in DOMAIN w, NEW h \in Seq(HistEntry),
           FlushAll(m, w, cur, h), flushes' = flushes
    PROVE  /\ manifest' = Append(manifest, [id |-> next_segment_id, ents |-> m])
           /\ manifest' \in Seq(Segment)
           /\ next_segment_id' \in Nat
           /\ SegmentIdsUnique'
           /\ MemOK(memtable', l)
           /\ \A k \in Keys : memtable'[k] = NoEntry
           /\ WalOK(wal', l)
           /\ cur \in DOMAIN wal'
           /\ durable' = Len(h)
<1> DEFINE work == PrepareFlush(m, next_segment_id, h)
           g == [id |-> next_segment_id, ents |-> m]
<1>1. manifest \in Seq(Segment) /\ next_segment_id \in Nat /\ flushes \subseteq FlushWork
    BY DEF IInv, TypeOK
<1>2. Execute(work) = g /\ g \in Segment /\ g.id = next_segment_id
    BY <1>1, PrepareOK
<1>3. work.flushed_max_lsn = MaxLsnOf(m)
    BY DEF PrepareFlush
<1>4. /\ manifest' = Append(manifest, g)
      /\ next_segment_id' = next_segment_id + 1
      /\ memtable' = Remaining(m, MaxLsnOf(m))
      /\ wal' = RetireOthers(w, cur)
      /\ durable' = Len(h)
    BY <1>2, <1>3 DEF FlushAll
<1> HIDE DEF work, g
<1>5. /\ \A i \in DOMAIN manifest : manifest[i].id < next_segment_id
      /\ \A i \in DOMAIN manifest : manifest[i].id \in Nat
      /\ \A i, j \in DOMAIN manifest : manifest[i].id = manifest[j].id => i = j
      /\ \A v \in flushes : v.id \in Nat /\ v.id < next_segment_id
      /\ \A v \in flushes : \A i \in DOMAIN manifest : v.id # manifest[i].id
      /\ \A v, x \in flushes : v.id = x.id => v = x
    <2>1. \A i \in DOMAIN manifest : manifest[i] \in Segment
        BY <1>1
    <2> QED BY <1>1, <2>1 DEF IInv, SegmentIdsUnique, Segment, FlushWork
<1>6. \A i \in DOMAIN manifest : manifest[i].id # g.id
    BY <1>1, <1>2, <1>5
<1>7. /\ manifest' \in Seq(Segment)
      /\ \A i, j \in DOMAIN manifest' : manifest'[i].id = manifest'[j].id => i = j
      /\ \A i \in DOMAIN manifest' :
            (i \in DOMAIN manifest /\ manifest'[i] = manifest[i]) \/ manifest'[i] = g
    BY <1>1, <1>2, <1>4, <1>5, <1>6, RegisterOK
<1>8. SegmentIdsUnique'
    <2>1. \A i \in DOMAIN manifest' : manifest'[i].id < next_segment_id'
        BY <1>1, <1>2, <1>4, <1>5, <1>7
    <2>2. \A v \in flushes' : v.id < next_segment_id' /\ \A i \in DOMAIN manifest' : v.id # manifest'[i].id
        BY <1>1, <1>2, <1>4, <1>5, <1>7
    <2> QED BY <1>5, <1>7, <2>1, <2>2 DEF SegmentIdsUnique
<1>9. MemOK(memtable', l) /\ \A k \in Keys : memtable'[k] = NoEntry
    BY <1>4, RemainingOK, RemainingEmpty
<1>10. WalOK(wal', l) /\ cur \in DOMAIN wal'
    BY <1>4, RetireOK
<1>11. manifest' = Append(manifest, [id |-> next_segment_id, ents |-> m])
    BY <1>4 DEF g
<1> QED BY <1>1, <1>4, <1>7, <1>8, <1>9, <1>10, <1>11

\* write_entry's last part, for any way the WAL work before it ended.
LEMMA ApplyOK ==
    ASSUME IInv, NEW k \in Keys, NEW e \in Entry, e.lsn = lsn_counter + 1, NEW auto,
           NEW w, WalOK(w, e.lsn), NEW cur \in DOMAIN w, NEW d \in 0..(Len(hist) + 1),
           Apply(k, e, auto, w, cur, d),
           lsn_counter' = lsn_counter + 1, issued' \in Nat, rotations' \in Nat,
           UNCHANGED <<up, flushes, restarts>>
    PROVE  IInv'
<1> DEFINE m == Insert(memtable, k, e)
           h == Append(hist, HistRec(k, e, TRUE, 0))
<1>1. TypeOK /\ lsn_counter \in Nat /\ e.lsn \in Nat /\ Len(hist) \in Nat /\ flushes \subseteq FlushWork
    BY DEF IInv, TypeOK
<1>2. MemOK(m, e.lsn)
    <2>1. \A x \in Keys : m[x] = IF x = k THEN e ELSE memtable[x]
        BY <1>1 DEF Insert, TypeOK, MemEntries
    <2>2. m \in MemEntries
        BY <1>1 DEF Insert, TypeOK, MemEntries
    <2>3. \A x \in Keys : memtable[x] # NoEntry => memtable[x].lsn \in Nat /\ memtable[x].lsn <= lsn_counter
        BY DEF IInv, MemOK, MemEntries, Entry
    <2> QED BY <1>1, <2>1, <2>2, <2>3 DEF MemOK
<1>3. h \in Seq(HistEntry) /\ Len(h) = Len(hist) + 1
    <2>1. HistRec(k, e, TRUE, 0) \in HistEntry
        BY DEF HistRec, HistEntry, Entry
    <2>2. hist \in Seq(HistEntry)
        BY <1>1 DEF TypeOK
    <2> QED BY <2>1, <2>2, AppendProperties
<1>4. \A x \in Keys : m[x] # NoEntry => m[x] = memtable[x] \/ m[x].lsn > lsn_counter
    BY <1>1 DEF Insert, TypeOK, MemEntries
<1>5. m[k] # NoEntry
    BY <1>1, ConstantsAssumption DEF Insert, TypeOK, MemEntries, Entry, Op
<1>6. /\ hist' = h /\ current_wal' = cur
      /\ \/ /\ FlushAll(m, w, cur, h)
         \/ /\ memtable' = m /\ wal' = w /\ durable' = d
            /\ UNCHANGED <<manifest, next_segment_id>>
    BY DEF Apply
<1> HIDE DEF m, h
<1>7. Live(m) # {}
    BY <1>5 DEF Live
<1>8. SUFFICES /\ manifest' \in Seq(Segment) /\ next_segment_id' \in Nat /\ SegmentIdsUnique'
               /\ MemOK(memtable', e.lsn)
               /\ \A x \in Keys : memtable'[x] # NoEntry =>
                     memtable'[x] = memtable[x] \/ memtable'[x].lsn > lsn_counter
               /\ WalOK(wal', e.lsn) /\ current_wal' \in DOMAIN wal'
               /\ durable' \in 0..Len(h)
    <2>2. TypeOK'
        BY <1>1, <1>3, <1>6, <1>8 DEF TypeOK, WalOK, FileOK, MemOK
    <2>3. durable' <= Len(hist') /\ Len(hist) <= Len(hist') /\ lsn_counter <= lsn_counter'
        BY <1>1, <1>3, <1>6, <1>8
    <2>4. \A f \in flushes' : SnapshotOK(f, memtable', lsn_counter', hist')
        BY <1>8, <2>2, <2>3, SnapshotsKept
    <2> QED BY <1>8, <2>2, <2>3, <2>4 DEF IInv
<1>9. CASE FlushAll(m, w, cur, h)
    <2>1. flushes' = flushes
        OBVIOUS
    <2>2. /\ manifest' \in Seq(Segment) /\ next_segment_id' \in Nat /\ SegmentIdsUnique'
          /\ MemOK(memtable', e.lsn) /\ \A x \in Keys : memtable'[x] = NoEntry
          /\ WalOK(wal', e.lsn) /\ cur \in DOMAIN wal' /\ durable' = Len(h)
        BY <1>1, <1>2, <1>3, <1>7, <1>9, <2>1, FlushAllOK, Zenon
    <2> QED BY <1>1, <1>3, <1>6, <2>2
<1>10. CASE /\ memtable' = m /\ wal' = w /\ durable' = d
            /\ UNCHANGED <<manifest, next_segment_id>>
    <2>1. SegmentIdsUnique'
        BY <1>10 DEF IInv, SegmentIdsUnique
    <2> QED BY <1>1, <1>2, <1>3, <1>4, <1>6, <1>10, <2>1 DEF TypeOK
<1> QED BY <1>6, <1>9, <1>10

\* Facts about the state that every action lemma starts from.
LEMMA StateFacts ==
    ASSUME IInv
    PROVE  /\ TypeOK /\ WalOK(wal, lsn_counter) /\ MemOK(memtable, lsn_counter)
           /\ lsn_counter \in Nat /\ issued \in Nat /\ rotations \in Nat /\ restarts \in Nat
           /\ current_wal \in DOMAIN wal /\ DOMAIN wal \subseteq Nat
           /\ manifest \in Seq(Segment) /\ next_segment_id \in Nat
           /\ flushes \subseteq FlushWork
           /\ hist \in Seq(HistEntry) /\ Len(hist) \in Nat /\ durable \in 0..Len(hist)
BY DEF IInv, TypeOK

\* A step that leaves memtable, history and flushes alone and touches the WAL.
LEMMA WalStep ==
    ASSUME IInv, WalOK(wal', lsn_counter), current_wal' \in DOMAIN wal', up' \in BOOLEAN,
           durable' \in 0..Len(hist),
           UNCHANGED <<memtable, lsn_counter, manifest, next_segment_id, flushes, rotations,
                       restarts, issued, hist>>
    PROVE  IInv'
<1>1. TypeOK'
    BY DEF IInv, TypeOK, WalOK, FileOK
<1>2. SegmentIdsUnique'
    BY DEF IInv, SegmentIdsUnique
<1>3. \A f \in flushes' : SnapshotOK(f, memtable', lsn_counter', hist')
    BY DEF IInv
<1>4. WalOK(wal', lsn_counter') /\ MemOK(memtable', lsn_counter') /\ durable' <= Len(hist')
    BY StateFacts
<1> QED BY <1>1, <1>2, <1>3, <1>4 DEF IInv

\* put, put_with_ttl and delete.
LEMMA WriteStep ==
    ASSUME IInv, NEW k \in Keys, NEW op \in Op, NEW auto, WriteEntry(k, op, auto)
    PROVE  IInv'
<1> DEFINE e == [op |-> op, lsn |-> lsn_counter + 1, val |-> issued + 1]
           logged == Append1(wal, current_wal, k, e)
           synced == Fsync(logged, current_wal)
           name == NextWalPath(lsn_counter + 1)
<1>1. /\ e \in Entry /\ e.lsn = lsn_counter + 1 /\ lsn_counter <= e.lsn
      /\ e.op = op /\ e.val = issued + 1
      /\ e.lsn \in Nat /\ name \in Nat /\ issued + 1 \in Nat
    BY StateFacts DEF Entry, NextWalPath
<1>2. /\ issued' = issued + 1 /\ lsn_counter' = lsn_counter + 1
      /\ UNCHANGED <<up, flushes, restarts>>
      /\ \/ /\ UNCHANGED rotations
            /\ Apply(k, e, auto, logged, current_wal, durable)
         \/ /\ rotations' = rotations + 1
            /\ name \notin DOMAIN wal
            /\ Apply(k, e, auto, Create(synced, name), name, Len(hist) + 1)
         \/ /\ rotations' = rotations + 1
            /\ wal' = synced
            /\ hist' = Append(hist, HistRec(k, e, FALSE, 0))
            /\ durable' = Len(hist')
            /\ UNCHANGED <<current_wal, memtable, manifest, next_segment_id>>
    BY DEF WriteEntry
<1> HIDE DEF e, name
<1>3. WalOK(logged, e.lsn) /\ DOMAIN logged = DOMAIN wal /\ current_wal \in DOMAIN logged
    BY <1>1, StateFacts, Append1OK
<1> HIDE DEF logged
<1>4. WalOK(synced, e.lsn) /\ DOMAIN synced = DOMAIN wal /\ current_wal \in DOMAIN synced
    BY <1>1, <1>3, FsyncOK
<1> HIDE DEF synced
<1>5. WalOK(Create(synced, name), e.lsn) /\ name \in DOMAIN Create(synced, name)
    <2>1. /\ WalOK(Create(synced, name), e.lsn)
          /\ DOMAIN Create(synced, name) = DOMAIN synced \cup {name}
        BY <1>1, <1>4, CreateOK, Zenon
    <2> QED BY <2>1
<1>6. /\ durable \in 0..(Len(hist) + 1) /\ Len(hist) + 1 \in 0..(Len(hist) + 1)
      /\ rotations \in Nat /\ rotations + 1 \in Nat
    BY StateFacts
<1>7. CASE UNCHANGED rotations /\ Apply(k, e, auto, logged, current_wal, durable)
    <2>1. issued' \in Nat /\ rotations' \in Nat
        BY <1>1, <1>2, <1>6, <1>7
    <2> QED BY <1>1, <1>2, <1>3, <1>6, <1>7, <2>1, ApplyOK, Zenon
<1>8. CASE /\ rotations' = rotations + 1
           /\ Apply(k, e, auto, Create(synced, name), name, Len(hist) + 1)
    <2>1. issued' \in Nat /\ rotations' \in Nat
        BY <1>1, <1>2, <1>6, <1>8
    <2> QED BY <1>1, <1>2, <1>5, <1>6, <1>8, <2>1, ApplyOK, Zenon
<1>9. CASE /\ rotations' = rotations + 1
           /\ wal' = synced
           /\ hist' = Append(hist, HistRec(k, e, FALSE, 0))
           /\ durable' = Len(hist')
           /\ UNCHANGED <<current_wal, memtable, manifest, next_segment_id>>
    <2>1. hist' \in Seq(HistEntry) /\ Len(hist') = Len(hist) + 1
        <3>1. HistRec(k, e, FALSE, 0) \in HistEntry
            BY <1>1 DEF HistRec, HistEntry, Entry
        <3> QED BY <1>9, <3>1, StateFacts, AppendProperties
    <2>2. TypeOK'
        <3>1. /\ lsn_counter' \in Nat /\ issued' \in Nat /\ rotations' \in Nat /\ durable' \in Nat
              /\ restarts' \in Nat
            BY <1>2, <1>6, <1>9, <2>1, StateFacts
        <3>2. DOMAIN wal' \subseteq Nat /\ current_wal' \in DOMAIN wal'
            BY <1>4, <1>9 DEF WalOK
        <3>3. \A n \in DOMAIN wal' : wal'[n] \in WalFile
            BY <1>4, <1>9 DEF WalOK, FileOK
        <3> QED BY <1>2, <1>9, <2>1, <3>1, <3>2, <3>3 DEF IInv, TypeOK
    <2>3. SegmentIdsUnique'
        BY <1>2, <1>9 DEF IInv, SegmentIdsUnique
    <2>4. lsn_counter <= lsn_counter' /\ Len(hist) <= Len(hist') /\ durable' <= Len(hist')
        BY <1>2, <1>9, <2>1, StateFacts, SMTT(30)
    <2>5. flushes' \subseteq flushes /\ memtable' = memtable
        BY <1>2, <1>9
    <2>6. \A f \in flushes' : SnapshotOK(f, memtable', lsn_counter', hist')
        BY <2>2, <2>4, <2>5, SnapshotsKept
    <2>7. WalOK(wal', lsn_counter') /\ MemOK(memtable', lsn_counter')
        <3>1. \A x \in Keys : memtable[x] # NoEntry => memtable[x].lsn \in Nat /\ memtable[x].lsn <= lsn_counter
            BY DEF IInv, MemOK, MemEntries, Entry
        <3>2. MemOK(memtable', lsn_counter')
            BY <2>5, <3>1, <1>2, StateFacts DEF MemOK
        <3> QED BY <3>2, <1>1, <1>2, <1>4, <1>9
    <2> QED BY <2>2, <2>3, <2>4, <2>6, <2>7 DEF IInv
<1> QED BY <1>2, <1>7, <1>8, <1>9

\* Engine::flush.
LEMMA FsyncStep ==
    ASSUME IInv, flush
    PROVE  IInv'
<1>1. /\ WalOK(wal', lsn_counter) /\ current_wal' \in DOMAIN wal'
      /\ up' \in BOOLEAN /\ durable' \in 0..Len(hist)
    BY StateFacts, FsyncOK DEF flush, TypeOK
<1> QED BY <1>1, WalStep DEF flush, segVars

\* flush_to_segments on the blocking Engine.
LEMMA FlushStep ==
    ASSUME IInv, flush_to_segments
    PROVE  IInv'
<1>1. /\ Live(memtable) # {} /\ FlushAll(memtable, wal, current_wal, hist)
      /\ UNCHANGED <<up, current_wal, lsn_counter, flushes, rotations, restarts, issued, hist>>
    BY DEF flush_to_segments
<1>2. /\ manifest' \in Seq(Segment) /\ next_segment_id' \in Nat /\ SegmentIdsUnique'
      /\ MemOK(memtable', lsn_counter) /\ \A k \in Keys : memtable'[k] = NoEntry
      /\ WalOK(wal', lsn_counter) /\ current_wal \in DOMAIN wal' /\ durable' = Len(hist)
    <2>1. flushes' = flushes
        BY <1>1
    <2> QED BY <1>1, <2>1, StateFacts, FlushAllOK, Zenon
<1>3. TypeOK'
    BY <1>1, <1>2, StateFacts DEF TypeOK, WalOK, FileOK, MemOK
<1>4. \A f \in flushes' : SnapshotOK(f, memtable', lsn_counter', hist')
    BY <1>1, <1>2, <1>3, StateFacts, SnapshotsKept
<1> QED BY <1>1, <1>2, <1>3, <1>4, StateFacts DEF IInv

\* A function on 1..n is a sequence of length n.
LEMMA SeqOfFunction ==
    ASSUME NEW S, NEW n \in Nat, NEW f \in [1..n -> S]
    PROVE  f \in Seq(S) /\ Len(f) = n
<1>1. f \in Seq(S)
    BY SeqDef, Zenon
<1>2. DOMAIN f = 1..n /\ DOMAIN f = 1..Len(f) /\ Len(f) \in Nat
    BY <1>1, LenProperties
<1> QED BY <1>1, <1>2

\* The entries of a batch get LSNs above every earlier one.
LEMMA BatchFacts ==
    ASSUME IInv, NEW ops \in Batches
    PROVE  /\ Len(ops) \in Nat /\ DOMAIN ops = 1..Len(ops)
           /\ \A i \in DOMAIN ops : ops[i].key \in Keys /\ ops[i].op \in Op
           /\ \A i \in DOMAIN ops : /\ TxEntry(ops, i) \in Entry
                                    /\ TxEntry(ops, i).lsn = lsn_counter + i
<1>1. PICK n \in 0..MaxTx : ops \in [1..n -> [key : Keys, op : Op]]
    BY DEF Batches
<1>2. Len(ops) = n /\ n \in Nat /\ DOMAIN ops = 1..Len(ops)
    <2>1. n \in Nat
        BY ConstantsAssumption
    <2>2. Len(ops) = n
        BY <1>1, <2>1, SeqOfFunction
    <2> QED BY <1>1, <2>1, <2>2
<1>3. \A i \in DOMAIN ops : ops[i].key \in Keys /\ ops[i].op \in Op
    BY <1>1, <1>2
<1>4. \A i \in DOMAIN ops : TxEntry(ops, i) \in Entry /\ TxEntry(ops, i).lsn = lsn_counter + i
    BY <1>2, <1>3, StateFacts DEF TxEntry, Entry
<1> QED BY <1>2, <1>3, <1>4

\* Logging the first j records of a batch.
LEMMA LogBatchOK ==
    ASSUME IInv, NEW ops \in Batches, NEW j \in 0..Len(ops)
    PROVE  /\ WalOK(LogBatch(wal, current_wal, ops, j), lsn_counter + j)
           /\ DOMAIN LogBatch(wal, current_wal, ops, j) = DOMAIN wal
           /\ HistBatch(ops, j) \in Seq(HistEntry)
           /\ Len(HistBatch(ops, j)) = Len(hist) + j
<1> DEFINE s == [i \in 1..j |-> [key |-> ops[i].key, entry |-> TxEntry(ops, i)]]
           t == [i \in 1..j |-> HistRec(ops[i].key, TxEntry(ops, i), TRUE, Len(ops) - i)]
           v == LogBatch(wal, current_wal, ops, j)
           g == [wal[current_wal] EXCEPT !.recs = wal[current_wal].recs \o s]
<1>0. j \in Nat /\ j <= Len(ops) /\ lsn_counter \in Nat /\ lsn_counter + j \in Nat
      /\ lsn_counter <= lsn_counter + j /\ Len(ops) \in Nat
    BY BatchFacts, StateFacts
<1>1. \A i \in 1..j : /\ [key |-> ops[i].key, entry |-> TxEntry(ops, i)] \in Record
                      /\ TxEntry(ops, i).lsn <= lsn_counter + j
    BY <1>0, BatchFacts, StateFacts DEF Record
<1>2. s \in Seq(Record) /\ DOMAIN s = 1..j /\ \A i \in DOMAIN s : s[i].entry.lsn <= lsn_counter + j
    BY <1>0, <1>1
<1>3. \A i \in 1..j : HistRec(ops[i].key, TxEntry(ops, i), TRUE, Len(ops) - i) \in HistEntry
    <2> SUFFICES ASSUME NEW i \in 1..j
                 PROVE  HistRec(ops[i].key, TxEntry(ops, i), TRUE, Len(ops) - i) \in HistEntry
        OBVIOUS
    <2>1. TxEntry(ops, i) \in Entry /\ ops[i].key \in Keys /\ Len(ops) - i \in Nat
        BY <1>0, BatchFacts
    <2> QED BY <2>1 DEF HistRec, HistEntry, Entry
<1>4. t \in Seq(HistEntry) /\ Len(t) = j
    <2>1. t \in [1..j -> HistEntry]
        BY <1>3, Zenon
    <2> HIDE DEF t
    <2> QED BY <1>0, <2>1, SeqOfFunction
<1>5. HistBatch(ops, j) = hist \o t
    BY DEF HistBatch
<1>6. /\ DOMAIN v = DOMAIN wal
      /\ \A n \in DOMAIN wal : n # current_wal => v[n] = wal[n]
      /\ v[current_wal] = g
    BY StateFacts DEF LogBatch
<1> HIDE DEF s, t, v
<1>7. FileOK(wal[current_wal], lsn_counter)
    BY StateFacts DEF WalOK
<1>8. FileOK(g, lsn_counter + j)
    BY <1>0, <1>2, <1>7, ExtendFile
<1> HIDE DEF g
<1>9. WalOK(v, lsn_counter + j)
    BY <1>0, <1>6, <1>8, StateFacts, ReplaceFile
<1>10. HistBatch(ops, j) \in Seq(HistEntry) /\ Len(HistBatch(ops, j)) = Len(hist) + j
    BY <1>4, <1>5, StateFacts, ConcatProperties
<1> QED BY <1>6, <1>9, <1>10 DEF v

\* Inserting a whole batch into the memtable.
LEMMA InsertBatchOK ==
    ASSUME IInv, NEW ops \in Batches
    PROVE  /\ MemOK(InsertBatch(memtable, ops), lsn_counter + Len(ops))
           /\ \A k \in Keys : \/ InsertBatch(memtable, ops)[k] = memtable[k]
                              \/ /\ InsertBatch(memtable, ops)[k] # NoEntry
                                 /\ InsertBatch(memtable, ops)[k].lsn > lsn_counter
<1> DEFINE m == InsertBatch(memtable, ops)
<1>1. \A k \in Keys :
         \/ m[k] = memtable[k]
         \/ \E i \in DOMAIN ops : m[k] = TxEntry(ops, i)
    <2> SUFFICES ASSUME NEW k \in Keys, m[k] # memtable[k]
                 PROVE  \E i \in DOMAIN ops : m[k] = TxEntry(ops, i)
        OBVIOUS
    <2> DEFINE mine == {i \in DOMAIN ops : ops[i].key = k}
    <2>1. m[k] = TxEntry(ops, Max(mine)) /\ mine # {}
        BY DEF InsertBatch
    <2>2. mine \in SUBSET Nat /\ \A i \in mine : i <= Len(ops)
        BY BatchFacts
    <2>3. Max(mine) \in mine
        <3> HIDE DEF mine
        <3> QED BY <2>1, <2>2, BatchFacts, MaxExists
    <2> QED BY <2>1, <2>3
<1>2. m = [k \in Keys |-> m[k]]
    BY DEF InsertBatch
<1> HIDE DEF m
<1>3. /\ \A k \in Keys : memtable[k] \in Entry \cup {NoEntry}
      /\ \A k \in Keys : memtable[k] # NoEntry => memtable[k].lsn \in Nat /\ memtable[k].lsn <= lsn_counter
    BY DEF IInv, MemOK, MemEntries, Entry
<1>4. \A k \in Keys : m[k] \in Entry \cup {NoEntry}
    BY <1>1, <1>3, BatchFacts
<1>5. m \in MemEntries
    BY <1>2, <1>4, Zenon DEF MemEntries
<1>6. \A k \in Keys : m[k] # NoEntry => m[k].lsn <= lsn_counter + Len(ops)
    BY <1>1, <1>3, BatchFacts, StateFacts, SMTT(30)
<1>7. \A k \in Keys : m[k] = memtable[k] \/ (m[k] # NoEntry /\ m[k].lsn > lsn_counter)
    <2>1. NoEntry \notin Entry
        BY ConstantsAssumption DEF Entry, Op
    <2> QED BY <1>1, <2>1, BatchFacts, StateFacts
<1> QED BY <1>5, <1>6, <1>7 DEF m, MemOK

\* commit_transaction.
LEMMA CommitStep ==
    ASSUME IInv, NEW ops \in Batches, commit_transaction(ops)
    PROVE  IInv'
<1> DEFINE l == lsn_counter + Len(ops)
           logged == LogBatch(wal, current_wal, ops, Len(ops))
           synced == Fsync(logged, current_wal)
           name == NextWalPath(l)
<1>1. Len(ops) \in Nat /\ l \in Nat /\ name \in Nat /\ lsn_counter <= l
    BY BatchFacts, StateFacts DEF NextWalPath
<1>2. /\ issued' = issued + Len(ops) /\ lsn_counter' = l
      /\ memtable' = InsertBatch(memtable, ops)
      /\ hist' = HistBatch(ops, Len(ops)) /\ durable' = Len(hist')
      /\ UNCHANGED <<up, manifest, next_segment_id, flushes, restarts>>
      /\ \/ wal' = synced /\ UNCHANGED <<current_wal, rotations>>
         \/ rotations' = rotations + 1 /\ wal' = Create(synced, name) /\ current_wal' = name
         \/ rotations' = rotations + 1 /\ wal' = synced /\ UNCHANGED current_wal
    BY DEF commit_transaction, segVars
<1>3. WalOK(logged, l) /\ DOMAIN logged = DOMAIN wal /\ Len(ops) \in 0..Len(ops)
    BY <1>1, LogBatchOK
<1>4. hist' \in Seq(HistEntry) /\ Len(hist') = Len(hist) + Len(ops)
    BY <1>2, <1>3, LogBatchOK
<1>5. MemOK(memtable', l) /\ \A k \in Keys : memtable'[k] = memtable[k] \/ memtable'[k].lsn > lsn_counter
    BY <1>2, InsertBatchOK
<1> HIDE DEF l, name, logged
<1>6. WalOK(synced, l) /\ DOMAIN synced = DOMAIN wal /\ current_wal \in DOMAIN synced
    BY <1>1, <1>3, StateFacts, FsyncOK
<1> HIDE DEF synced
<1>7. /\ WalOK(Create(synced, name), l)
      /\ DOMAIN Create(synced, name) = DOMAIN synced \cup {name}
    BY <1>1, <1>6, CreateOK, Zenon
<1>8. WalOK(wal', l) /\ current_wal' \in DOMAIN wal' /\ rotations' \in Nat
    BY <1>2, <1>6, <1>7, StateFacts
<1>9. TypeOK'
    <2>1. issued' \in Nat /\ lsn_counter' \in Nat /\ durable' \in Nat
        BY <1>1, <1>2, <1>4, StateFacts
    <2>2. DOMAIN wal' \subseteq Nat /\ \A n \in DOMAIN wal' : wal'[n] \in WalFile
        BY <1>8 DEF WalOK, FileOK
    <2>3. memtable' \in MemEntries
        BY <1>5 DEF MemOK
    <2> QED BY <1>2, <1>4, <1>8, <2>1, <2>2, <2>3, StateFacts DEF TypeOK
<1>10. SegmentIdsUnique'
    BY <1>2 DEF IInv, SegmentIdsUnique
<1>11. lsn_counter <= lsn_counter' /\ Len(hist) <= Len(hist') /\ durable' <= Len(hist')
    BY <1>1, <1>2, <1>4, StateFacts
<1>12. \A f \in flushes' : SnapshotOK(f, memtable', lsn_counter', hist')
    BY <1>2, <1>5, <1>9, <1>11, SnapshotsKept
<1> QED BY <1>2, <1>5, <1>8, <1>9, <1>10, <1>11, <1>12 DEF IInv

\* The parts of SegmentIdsUnique, with the ids typed.
LEMMA IdFacts ==
    ASSUME IInv
    PROVE  /\ \A i \in DOMAIN manifest : manifest[i].id \in Nat /\ manifest[i].id < next_segment_id
           /\ \A i, j \in DOMAIN manifest : manifest[i].id = manifest[j].id => i = j
           /\ \A v \in flushes : v.id \in Nat /\ v.id < next_segment_id
           /\ \A v \in flushes : \A i \in DOMAIN manifest : v.id # manifest[i].id
           /\ \A v, x \in flushes : v.id = x.id => v = x
<1>1. \A i \in DOMAIN manifest : manifest[i] \in Segment
    BY StateFacts
<1> QED BY <1>1, StateFacts DEF IInv, SegmentIdsUnique, Segment, FlushWork

\* Phase 1 of an asynchronous flush.
LEMMA BeginStep ==
    ASSUME IInv, begin_flush
    PROVE  IInv'
<1> DEFINE work == PrepareFlush(memtable, next_segment_id, hist)
<1>1. /\ Live(memtable) # {}
      /\ flushes' = flushes \cup {work}
      /\ next_segment_id' = next_segment_id + 1
      /\ UNCHANGED <<up, wal, current_wal, lsn_counter, memtable, manifest, rotations, restarts,
                     issued, hist, durable>>
    BY DEF begin_flush, walVars, auxVars
<1>2. /\ work \in FlushWork /\ work.id = next_segment_id
      /\ SnapshotOK(work, memtable, lsn_counter, hist)
    BY <1>1, StateFacts, PrepareOK
<1> HIDE DEF work
<1>3. TypeOK'
    BY <1>1, <1>2 DEF IInv, TypeOK
<1>4. SegmentIdsUnique'
    BY <1>1, <1>2, IdFacts, StateFacts DEF SegmentIdsUnique
<1>5. \A f \in flushes' : SnapshotOK(f, memtable', lsn_counter', hist')
    BY <1>1, <1>2 DEF IInv
<1>6. WalOK(wal', lsn_counter') /\ MemOK(memtable', lsn_counter') /\ durable' <= Len(hist')
    BY <1>1 DEF IInv
<1> QED BY <1>3, <1>4, <1>5, <1>6 DEF IInv

\* Phase 3 of an asynchronous flush.
LEMMA FinalizeStep ==
    ASSUME IInv, NEW work \in flushes, finalize_flush(work)
    PROVE  IInv'
<1>1. /\ manifest' = Append(manifest, Execute(work))
      /\ memtable' = Remaining(memtable, work.flushed_max_lsn)
      /\ wal' = RetireOthers(wal, current_wal)
      /\ flushes' = flushes \ {work}
      /\ durable' = Max({durable, work.upto})
      /\ UNCHANGED <<up, current_wal, lsn_counter, next_segment_id, rotations, restarts, issued, hist>>
    BY DEF finalize_flush
<1>2. Execute(work) \in Segment /\ Execute(work).id = work.id
    BY StateFacts DEF Execute, Segment, FlushWork
<1>3. /\ manifest \in Seq(Segment)
      /\ \A i, j \in DOMAIN manifest : manifest[i].id = manifest[j].id => i = j
      /\ \A i \in DOMAIN manifest : manifest[i].id # Execute(work).id
    BY <1>2, IdFacts, StateFacts
<1>4. /\ manifest' \in Seq(Segment)
      /\ \A i, j \in DOMAIN manifest' : manifest'[i].id = manifest'[j].id => i = j
      /\ \A i \in DOMAIN manifest' :
            (i \in DOMAIN manifest /\ manifest'[i] = manifest[i]) \/ manifest'[i] = Execute(work)
    BY <1>1, <1>2, <1>3, RegisterOK
<1>5. SegmentIdsUnique'
    <2>1. \A i \in DOMAIN manifest' : manifest'[i].id < next_segment_id'
        BY <1>1, <1>2, <1>4, IdFacts
    <2>2. \A v \in flushes' : v.id < next_segment_id' /\ \A i \in DOMAIN manifest' : v.id # manifest'[i].id
        BY <1>1, <1>2, <1>4, IdFacts
    <2>3. \A v, x \in flushes' : v.id = x.id => v = x
        BY <1>1, IdFacts
    <2> QED BY <1>4, <2>1, <2>2, <2>3 DEF SegmentIdsUnique
<1>6. /\ MemOK(memtable', lsn_counter)
      /\ \A k \in Keys : memtable'[k] # NoEntry => memtable'[k] = memtable[k]
    BY <1>1, StateFacts, RemainingOK
<1>7. WalOK(wal', lsn_counter) /\ current_wal' \in DOMAIN wal'
    BY <1>1, StateFacts, RetireOK
<1>8. durable' \in 0..Len(hist)
    <2>1. work.upto \in 0..Len(hist)
        BY StateFacts DEF IInv, SnapshotOK, FlushWork
    <2>2. Max({durable, work.upto}) = IF durable >= work.upto THEN durable ELSE work.upto
        BY <2>1, StateFacts, MaxOfTwo
    <2> QED BY <1>1, <2>1, <2>2, StateFacts
<1>9. TypeOK'
    <2>1. DOMAIN wal' \subseteq Nat /\ \A n \in DOMAIN wal' : wal'[n] \in WalFile
        BY <1>7 DEF WalOK, FileOK
    <2> QED BY <1>1, <1>4, <1>6, <1>7, <1>8, <2>1, StateFacts DEF TypeOK, MemOK
<1>10. \A f \in flushes' : SnapshotOK(f, memtable', lsn_counter', hist')
    BY <1>1, <1>6, <1>9, StateFacts, SnapshotsKept
<1> QED BY <1>1, <1>5, <1>6, <1>7, <1>8, <1>9, <1>10, StateFacts DEF IInv

\* A flush that is dropped.
LEMMA AbortStep ==
    ASSUME IInv, NEW work \in flushes, abort_flush(work)
    PROVE  IInv'
<1>1. /\ flushes' = flushes \ {work}
      /\ UNCHANGED <<up, wal, current_wal, lsn_counter, memtable, manifest, next_segment_id,
                     rotations, restarts, issued, hist, durable>>
    BY DEF abort_flush, walVars, auxVars
<1>2. TypeOK'
    BY <1>1 DEF IInv, TypeOK
<1>3. SegmentIdsUnique'
    BY <1>1 DEF IInv, SegmentIdsUnique
<1> QED BY <1>1, <1>2, <1>3 DEF IInv

\* Engine::open on what is left: from well-formed files and a manifest with
\* distinct ids it rebuilds a good state.
LEMMA OpenStep ==
    ASSUME IInv, NEW kind, NEW l \in Nat, NEW w, WalOK(w, l), NEW cur \in DOMAIN w,
           NEW segs \in Seq(Segment), NEW b \in Nat,
           \A i \in DOMAIN segs : segs[i].id < b,
           \A i, j \in DOMAIN segs : segs[i].id = segs[j].id => i = j,
           NEW h \in Seq(HistEntry), NEW d \in 0..Len(h),
           Restart(kind, w, cur, segs, h, d), issued' \in Nat
    PROVE  IInv'
<1>1. PICK s \in Survivors(w, cur, kind) :
         /\ Open(s, segs)
         /\ hist' = SubSeq(h, 1, Kept(h, d, w, s))
         /\ durable' = IF kind = "kill" THEN d ELSE Len(hist')
    BY DEF Restart
<1>2. restarts' \in Nat /\ rotations' \in Nat
    BY SMTT(30), StateFacts DEF Restart
<1>3. WalOK(s, l) /\ (kind = "kill" => s = w)
    BY SurvivorsOK
<1> DEFINE r == RecoveredLsn(s)
           name == NextWalPath(r + 1)
<1>4. r \in Nat /\ WalOK(s, r) /\ name \in Nat
    BY <1>3, RecoveredOK DEF NextWalPath
<1>5. /\ memtable' = Replay(s) /\ lsn_counter' = r /\ manifest' = segs
      /\ next_segment_id' = NextId(segs) /\ flushes' = {}
    BY <1>1 DEF Open
<1>6. WalOK(wal', r) /\ current_wal' \in DOMAIN wal' /\ up' \in BOOLEAN
    <2>1. Max(DOMAIN s) \in DOMAIN s /\ s[Max(DOMAIN s)] \in WalFile
        BY <1>4, LastFile DEF WalOK, FileOK
    <2>2. s[Max(DOMAIN s)].hdr \in BOOLEAN
        BY <2>1 DEF WalFile
    <2>3. WalOK(Create(s, name), r) /\ DOMAIN Create(s, name) = DOMAIN s \cup {name}
        BY <1>4, CreateOK, Zenon
    <2>4. \/ up' = s[Max(DOMAIN s)].hdr /\ wal' = s /\ current_wal' = Max(DOMAIN s)
          \/ /\ up' = (name \notin DOMAIN s)
             /\ wal' = IF up' THEN Create(s, name) ELSE s
             /\ current_wal' = IF up' THEN name ELSE Max(DOMAIN s)
        BY <1>1 DEF Open
    <2> HIDE DEF r, name
    <2>5. CASE up' = s[Max(DOMAIN s)].hdr /\ wal' = s /\ current_wal' = Max(DOMAIN s)
        BY <1>4, <2>1, <2>2, <2>5
    <2>6. CASE /\ up' = (name \notin DOMAIN s)
               /\ wal' = IF up' THEN Create(s, name) ELSE s
               /\ current_wal' = IF up' THEN name ELSE Max(DOMAIN s)
        <3>1. CASE name \in DOMAIN s
            BY <1>4, <2>1, <2>6, <3>1
        <3>2. CASE name \notin DOMAIN s
            BY <2>3, <2>6, <3>2
        <3> QED BY <3>1, <3>2
    <2> QED BY <2>4, <2>5, <2>6
<1>7. MemOK(memtable', r)
    <2>1. /\ Replay(s) \in MemEntries
          /\ \A k \in Keys : Replay(s)[k] # NoEntry =>
                \E n \in DOMAIN s : \E i \in DOMAIN s[n].recs :
                   s[n].recs[i] = [key |-> k, entry |-> Replay(s)[k]]
        BY <1>4, ReplayOK
    <2>2. \A n \in DOMAIN s : \A i \in DOMAIN s[n].recs : s[n].recs[i].entry.lsn <= r
        BY <1>4 DEF WalOK, FileOK
    <2>3. \A k \in Keys : Replay(s)[k] # NoEntry => Replay(s)[k].lsn <= r
        <3> SUFFICES ASSUME NEW k \in Keys, Replay(s)[k] # NoEntry PROVE Replay(s)[k].lsn <= r
            OBVIOUS
        <3>1. PICK n \in DOMAIN s : \E i \in DOMAIN s[n].recs :
                 s[n].recs[i] = [key |-> k, entry |-> Replay(s)[k]]
            BY <2>1
        <3>2. PICK i \in DOMAIN s[n].recs : s[n].recs[i] = [key |-> k, entry |-> Replay(s)[k]]
            BY <3>1
        <3>3. s[n].recs[i].entry = Replay(s)[k]
            BY <3>2
        <3> QED BY <2>2, <3>3, Zenon
    <2> QED BY <1>5, <2>1, <2>3 DEF MemOK
<1>8. next_segment_id' \in Nat /\ SegmentIdsUnique'
    <2>1. NextId(segs) \in Nat /\ \A i \in DOMAIN segs : segs[i].id < NextId(segs)
        BY NextIdOK
    <2> QED BY <1>5, <2>1 DEF SegmentIdsUnique
<1>9. hist' \in Seq(HistEntry) /\ Len(hist') \in Nat /\ durable' \in 0..Len(hist')
    <2>1. Kept(h, d, w, s) \in d..Len(h) /\ (s = w => Kept(h, d, w, s) = Len(h))
        BY KeptOK
    <2>2. Kept(h, d, w, s) \in 0..Len(h) /\ Len(h) \in Nat /\ d \in Nat
        BY <2>1
    <2>3. hist' \in Seq(HistEntry) /\ Len(hist') = Kept(h, d, w, s)
        BY <1>1, <2>2, PrefixOK
    <2> QED BY <1>1, <1>3, <2>1, <2>2, <2>3
<1>10. TypeOK'
    <2>1. DOMAIN wal' \subseteq Nat /\ \A n \in DOMAIN wal' : wal'[n] \in WalFile
        BY <1>6 DEF WalOK, FileOK
    <2>2. memtable' \in MemEntries /\ durable' \in Nat
        BY <1>7, <1>9 DEF MemOK
    <2> HIDE DEF r
    <2> QED BY <1>2, <1>4, <1>5, <1>6, <1>8, <1>9, <2>1, <2>2 DEF TypeOK
<1> QED BY <1>5, <1>6, <1>7, <1>8, <1>9, <1>10 DEF IInv

\* The session ends between two calls.
LEMMA ReopenStep ==
    ASSUME IInv, NEW kind, Reopen(kind)
    PROVE  IInv'
<1>1. Restart(kind, wal, current_wal, manifest, hist, durable) /\ issued' \in Nat
    BY StateFacts DEF Reopen
<1>2. /\ \A i \in DOMAIN manifest : manifest[i].id < next_segment_id
      /\ \A i, j \in DOMAIN manifest : manifest[i].id = manifest[j].id => i = j
    BY IdFacts
<1> QED BY <1>1, <1>2, StateFacts, OpenStep, Zenon

\* The session ends inside a write or a commit.
LEMMA CrashInCommitStep ==
    ASSUME IInv, NEW kind, NEW ops \in Batches, NEW j \in DOMAIN ops, CrashInCommit(kind, ops, j)
    PROVE  IInv'
<1> DEFINE w == LogBatch(wal, current_wal, ops, j)
           h == HistBatch(ops, j)
           l == lsn_counter + j
<1>1. j \in 0..Len(ops) /\ j \in Nat /\ l \in Nat
    BY BatchFacts, StateFacts
<1>2. Restart(kind, w, current_wal, manifest, h, durable) /\ issued' \in Nat
    BY <1>1, StateFacts, SMTT(30) DEF CrashInCommit
<1>3. /\ WalOK(w, l) /\ DOMAIN w = DOMAIN wal
      /\ h \in Seq(HistEntry) /\ Len(h) = Len(hist) + j
    BY <1>1, LogBatchOK
<1> HIDE DEF w, h, l
<1>4. current_wal \in DOMAIN w /\ durable \in 0..Len(h)
    BY SMTT(30), <1>1, <1>3, StateFacts
<1>5. /\ \A i \in DOMAIN manifest : manifest[i].id < next_segment_id
      /\ \A i, k \in DOMAIN manifest : manifest[i].id = manifest[k].id => i = k
    BY IdFacts
<1>6. manifest \in Seq(Segment) /\ next_segment_id \in Nat
    BY StateFacts
<1> QED BY <1>1, <1>2, <1>3, <1>4, <1>5, <1>6, OpenStep, Zenon

\* The session ends in phase 3 of a flush.
LEMMA CrashInFinalizeStep ==
    ASSUME IInv, NEW kind, NEW work \in FlushableWork, NEW cut \in DOMAIN wal,
           CrashInFinalize(kind, work, cut)
    PROVE  IInv'
<1> DEFINE left == [n \in {x \in DOMAIN wal : x = current_wal \/ x >= cut} |-> wal[n]]
           segs == Append(manifest, Execute(work))
           d == Max({durable, work.upto})
           b == next_segment_id + 1
<1>1. Restart(kind, left, current_wal, segs, hist, d) /\ issued' \in Nat
    BY StateFacts DEF CrashInFinalize
<1>2. WalOK(left, lsn_counter) /\ current_wal \in DOMAIN left
    BY StateFacts, SubWalOK
<1>3. /\ work \in FlushWork /\ work.id \in Nat /\ work.id <= next_segment_id
      /\ work.upto \in 0..Len(hist)
      /\ \A i \in DOMAIN manifest : manifest[i].id # work.id
    <2>1. CASE work \in flushes
        <3>1. work \in FlushWork /\ work.upto <= Len(hist) /\ work.upto \in Nat
            BY <2>1, StateFacts DEF IInv, SnapshotOK, FlushWork
        <3> QED BY <2>1, <3>1, IdFacts, StateFacts
    <2>2. CASE /\ Live(memtable) # {}
               /\ work = PrepareFlush(memtable, next_segment_id, hist)
        <3>1. work \in FlushWork /\ work.id = next_segment_id
            BY <2>2, StateFacts, PrepareOK
        <3>2. work.upto = Len(hist)
            BY <2>2 DEF PrepareFlush
        <3>3. \A i \in DOMAIN manifest : manifest[i].id # work.id
            BY <3>1, IdFacts, StateFacts
        <3> QED BY <3>1, <3>2, <3>3, StateFacts
    <2> QED BY <2>1, <2>2, Zenon DEF FlushableWork
<1>4. Execute(work) \in Segment /\ Execute(work).id = work.id
    BY <1>3 DEF Execute, Segment, FlushWork
<1>5. /\ manifest \in Seq(Segment)
      /\ \A i, j \in DOMAIN manifest : manifest[i].id = manifest[j].id => i = j
      /\ \A i \in DOMAIN manifest : manifest[i].id # Execute(work).id
    BY <1>3, <1>4, IdFacts, StateFacts
<1>6. /\ segs \in Seq(Segment)
      /\ \A i, j \in DOMAIN segs : segs[i].id = segs[j].id => i = j
      /\ \A i \in DOMAIN segs : (i \in DOMAIN manifest /\ segs[i] = manifest[i]) \/ segs[i] = Execute(work)
    BY <1>4, <1>5, RegisterOK
<1> HIDE DEF left, segs
<1>7. b \in Nat /\ \A i \in DOMAIN segs : segs[i].id < b
    <2>1. /\ next_segment_id \in Nat
          /\ \A i \in DOMAIN manifest : manifest[i].id \in Nat /\ manifest[i].id < next_segment_id
        BY IdFacts, StateFacts
    <2> SUFFICES ASSUME NEW i \in DOMAIN segs PROVE segs[i].id < b
        BY <2>1
    <2>2. CASE i \in DOMAIN manifest /\ segs[i] = manifest[i]
        BY <2>1, <2>2
    <2>3. CASE segs[i] = Execute(work)
        BY <1>3, <1>4, <2>1, <2>3
    <2> QED BY <1>6, <2>2, <2>3
<1>8. d \in 0..Len(hist)
    <2>1. Max({durable, work.upto}) = IF durable >= work.upto THEN durable ELSE work.upto
        BY SMTT(30), <1>3, StateFacts, MaxOfTwo
    <2> QED BY <1>3, <2>1, StateFacts
<1>9. hist \in Seq(HistEntry) /\ lsn_counter \in Nat
    BY StateFacts
<1> HIDE DEF d, b
<1> QED BY <1>1, <1>2, <1>6, <1>7, <1>8, <1>9, OpenStep, Zenon

\* The initial state satisfies the invariant.
LEMMA InitIInv == Init => IInv
<1> SUFFICES ASSUME Init PROVE IInv
    OBVIOUS
<1>1. FileOK(NewWal, 0)
    BY DEF FileOK, NewWal, WalFile
<1>2. WalOK(wal, 0) /\ current_wal \in DOMAIN wal
    BY <1>1 DEF Init, WalOK, HasLast
<1>3. MemOK(memtable, 0)
    BY DEF Init, MemOK, MemEntries, EmptyMem
<1>4. TypeOK
    <2>1. DOMAIN wal \subseteq Nat /\ \A n \in DOMAIN wal : wal[n] \in WalFile
        BY <1>2 DEF WalOK, FileOK
    <2> QED BY <1>2, <1>3, <2>1 DEF Init, TypeOK, MemOK
<1>5. SegmentIdsUnique
    BY DEF Init, SegmentIdsUnique
<1> QED BY <1>2, <1>3, <1>4, <1>5 DEF Init, IInv

\* Every step preserves the invariant.
LEMMA NextIInv == IInv /\ [Next]_vars => IInv'
<1> SUFFICES ASSUME IInv, [Next]_vars PROVE IInv'
    OBVIOUS
<1>1. CASE UNCHANGED vars
    <2>1. UNCHANGED <<up, wal, current_wal, lsn_counter, memtable, manifest, next_segment_id,
                      flushes, rotations, restarts, issued, hist, durable>>
        BY <1>1 DEF vars, walVars, segVars, auxVars
    <2>2. TypeOK' /\ SegmentIdsUnique'
        BY <2>1 DEF IInv, TypeOK, SegmentIdsUnique
    <2> QED BY <2>1, <2>2 DEF IInv
<1>2. CASE \E k \in Keys : put(k) \/ put_with_ttl(k) \/ delete(k)
    BY <1>2, WriteStep DEF put, put_with_ttl, delete, Op
<1>3. CASE flush
    BY <1>3, FsyncStep
<1>4. CASE \E ops \in Batches : commit_transaction(ops)
    BY <1>4, CommitStep
<1>5. CASE flush_to_segments
    BY <1>5, FlushStep
<1>6. CASE begin_flush
    BY <1>6, BeginStep
<1>7. CASE \E work \in flushes : finalize_flush(work) \/ abort_flush(work)
    BY <1>7, FinalizeStep, AbortStep
<1>8. CASE \E kind \in CrashKinds : Reopen(kind)
    BY <1>8, ReopenStep
<1>9. CASE \E kind \in CrashKinds \ {"close"}, ops \in Batches :
              \E j \in DOMAIN ops : CrashInCommit(kind, ops, j)
    BY <1>9, CrashInCommitStep
<1>10. CASE \E kind \in CrashKinds \ {"close"} :
              \E work \in FlushableWork, cut \in DOMAIN wal : CrashInFinalize(kind, work, cut)
    BY <1>10, CrashInFinalizeStep
<1> QED BY <1>1, <1>2, <1>3, <1>4, <1>5, <1>6, <1>7, <1>8, <1>9, <1>10 DEF Next

\* The inductive invariant holds in every reachable state.
THEOREM Invariance == Spec => []IInv
BY InitIInv, NextIInv, PTL DEF Spec

\* Every reachable state is well typed, and the WAL file being written is always
\* one of the files on disk, whatever retires, creates or truncates files.
THEOREM TypeCorrect == Spec => []TypeOK
<1>1. IInv => TypeOK
    BY DEF IInv
<1> QED BY <1>1, Invariance, PTL

\* No two segments, registered or being written, ever share an id: a flush never
\* overwrites another's files, across any number of flushes in flight, aborts,
\* crashes and restarts (SegmentStore::prepare_flush, SegmentStore::open).
THEOREM IdsUnique == Spec => []SegmentIdsUnique
<1>1. IInv => SegmentIdsUnique
    BY DEF IInv
<1> QED BY <1>1, Invariance, PTL
-----------------------------------------------------------------------------
(***************************************************************************)
(* A flush loses no write.                                                 *)
(***************************************************************************)
Keeps(k) ==
    memtable[k] # NoEntry /\ memtable'[k] # memtable[k] =>
       \/ memtable'[k] # NoEntry /\ memtable'[k].lsn > memtable[k].lsn
       \/ \E i \in DOMAIN manifest' :
             \/ manifest'[i].ents[k] = memtable[k]
             \/ i > Len(manifest) /\ manifest'[i].ents[k] # NoEntry
                /\ manifest'[i].ents[k].lsn > memtable[k].lsn

\* A flush in one call: every entry of the memtable, the one just inserted
\* included, is in the new segment.
LEMMA FlushAllKeeps ==
    ASSUME IInv, NEW l \in Nat, NEW m, MemOK(m, l), Live(m) # {},
           NEW w, WalOK(w, l), NEW cur \in DOMAIN w, NEW h \in Seq(HistEntry),
           FlushAll(m, w, cur, h), flushes' = flushes,
           NEW k \in Keys, memtable[k] # NoEntry,
           m[k] = memtable[k] \/ (m[k] # NoEntry /\ m[k].lsn > memtable[k].lsn)
    PROVE  Keeps(k)
<1> DEFINE g == [id |-> next_segment_id, ents |-> m]
<1>1. manifest' = Append(manifest, g)
    BY FlushAllOK, Zenon
<1>2. manifest \in Seq(Segment) /\ g \in Segment /\ g.ents = m
    BY StateFacts DEF MemOK, Segment
<1> HIDE DEF g
<1>3. /\ Len(manifest) + 1 \in DOMAIN manifest' /\ manifest'[Len(manifest) + 1] = g
      /\ Len(manifest) + 1 > Len(manifest)
    BY <1>1, <1>2
<1> QED BY <1>2, <1>3 DEF Keeps

\* A write that changes one key to a newer entry and may flush.
LEMMA WriteKeeps ==
    ASSUME IInv, NEW k \in Keys, NEW op \in Op, NEW auto, WriteEntry(k, op, auto), NEW x \in Keys
    PROVE  Keeps(x)
<1> DEFINE e == [op |-> op, lsn |-> lsn_counter + 1, val |-> issued + 1]
           m == Insert(memtable, k, e)
           h == Append(hist, HistRec(k, e, TRUE, 0))
<1>0. e \in Entry /\ e.lsn = lsn_counter + 1 /\ lsn_counter \in Nat /\ e # NoEntry
    <2>1. lsn_counter \in Nat /\ issued \in Nat
        BY StateFacts, Zenon
    <2>2. e \in Entry /\ e.lsn = lsn_counter + 1
        BY <2>1 DEF Entry, Op
    <2> HIDE DEF e
    <2>3. e # NoEntry
        BY <2>2, ConstantsAssumption DEF Entry, Op
    <2> QED BY <2>1, <2>2, <2>3
<1>1. \A y \in Keys : m[y] = IF y = k THEN e ELSE memtable[y]
    BY DEF Insert, IInv, TypeOK, MemEntries
<1>2. \A y \in Keys : memtable[y] # NoEntry => memtable[y].lsn \in Nat /\ memtable[y].lsn <= lsn_counter
    BY DEF IInv, MemOK, MemEntries, Entry
<1>3. MemOK(m, e.lsn) /\ Live(m) # {}
    <2>1. m \in MemEntries
        BY <1>0 DEF Insert, IInv, TypeOK, MemEntries
    <2>2. \A y \in Keys : m[y] # NoEntry => m[y].lsn <= e.lsn
        BY <1>0, <1>1, <1>2
    <2>3. m[k] # NoEntry
        BY <1>0, <1>1
    <2> HIDE DEF m
    <2> QED BY <2>1, <2>2, <2>3 DEF MemOK, Live
<1>4. h \in Seq(HistEntry)
    <2>1. HistRec(k, e, TRUE, 0) \in HistEntry
        BY <1>0 DEF HistRec, HistEntry, Entry
    <2> QED BY <2>1, StateFacts, AppendProperties
<1> DEFINE logged == Append1(wal, current_wal, k, e)
           synced == Fsync(logged, current_wal)
           name == NextWalPath(lsn_counter + 1)
           new == Create(synced, name)
<1>5. /\ flushes' = flushes
      /\ \/ Apply(k, e, auto, logged, current_wal, durable)
         \/ Apply(k, e, auto, new, name, Len(hist) + 1)
         \/ memtable' = memtable
    BY DEF WriteEntry
<1>6. \/ memtable' = m
      \/ FlushAll(m, logged, current_wal, h)
      \/ FlushAll(m, new, name, h)
      \/ memtable' = memtable
    BY <1>5 DEF Apply
<1> HIDE DEF e
<1>7. WalOK(logged, e.lsn) /\ current_wal \in DOMAIN logged
    BY <1>0, StateFacts, Append1OK
<1> HIDE DEF logged
<1>8. WalOK(new, e.lsn) /\ name \in DOMAIN new
    <2>1. WalOK(synced, e.lsn) /\ e.lsn \in Nat /\ name \in Nat
        BY <1>0, <1>7, FsyncOK DEF NextWalPath
    <2> HIDE DEF synced, name
    <2>2. WalOK(new, e.lsn) /\ DOMAIN new = DOMAIN synced \cup {name}
        BY <2>1, CreateOK, Zenon
    <2> QED BY <2>2
<1> SUFFICES ASSUME memtable[x] # NoEntry PROVE Keeps(x)
    BY Zenon DEF Keeps
<1>9. m[x] = memtable[x] \/ (m[x] # NoEntry /\ m[x].lsn > memtable[x].lsn)
    BY <1>0, <1>1, <1>2
<1>10. e.lsn \in Nat
    BY <1>0
<1> HIDE DEF m, h, new, name
<1>11. CASE memtable' = m
    BY <1>9, <1>11, Zenon DEF Keeps
<1>12. CASE FlushAll(m, logged, current_wal, h)
    BY <1>3, <1>4, <1>5, <1>7, <1>9, <1>10, <1>12, FlushAllKeeps, Zenon
<1>13. CASE FlushAll(m, new, name, h)
    BY <1>3, <1>4, <1>5, <1>8, <1>9, <1>10, <1>13, FlushAllKeeps, Zenon
<1>14. CASE memtable' = memtable
    BY <1>14, Zenon DEF Keeps
<1> QED BY <1>6, <1>11, <1>12, <1>13, <1>14

\* Phase 3 drops only entries the work package holds.
LEMMA FinalizeKeeps ==
    ASSUME IInv, NEW work \in flushes, finalize_flush(work), NEW k \in Keys
    PROVE  Keeps(k)
<1>1. /\ manifest' = Append(manifest, Execute(work))
      /\ memtable' = Remaining(memtable, work.flushed_max_lsn)
    BY DEF finalize_flush
<1>2. manifest \in Seq(Segment) /\ Execute(work) \in Segment /\ Execute(work).ents = work.ents
    BY StateFacts DEF Execute, Segment, FlushWork
<1>3. Len(manifest) + 1 \in DOMAIN manifest' /\ manifest'[Len(manifest) + 1] = Execute(work)
    BY <1>1, <1>2
<1>4. SUFFICES ASSUME memtable[k] # NoEntry, memtable'[k] # memtable[k] PROVE Keeps(k)
    BY Zenon DEF Keeps
<1>5. ~(memtable[k].lsn > work.flushed_max_lsn)
    BY <1>1, <1>4, StateFacts, RemainingOK
<1>6. memtable[k].lsn \in Nat /\ work.flushed_max_lsn \in Nat
    BY <1>4, StateFacts DEF TypeOK, MemEntries, Entry, FlushWork
<1>7. work.ents[k] = memtable[k]
    BY <1>4, <1>5, <1>6 DEF IInv, SnapshotOK
<1>8. manifest'[Len(manifest) + 1].ents[k] = memtable[k]
    BY <1>2, <1>3, <1>7
<1> QED BY <1>3, <1>8 DEF Keeps

\* An entry leaves the memtable within a session only for a newer entry of its
\* key or into a registered segment, for any number of flushes in flight.
THEOREM FlushesKeepWrites == Spec => FlushKeepsWrites
<1>1. ASSUME IInv, [Next]_vars, restarts' = restarts, NEW k \in Keys
      PROVE  Keeps(k)
    <2>0. restarts \in Nat
        BY <1>1, StateFacts
    <2>1. CASE memtable' = memtable
        BY <2>1, Zenon DEF Keeps
    <2>2. CASE \E y \in Keys : put(y) \/ put_with_ttl(y) \/ delete(y)
        BY <1>1, <2>2, WriteKeeps DEF put, put_with_ttl, delete, Op
    <2>3. ASSUME NEW ops \in Batches, commit_transaction(ops) PROVE Keeps(k)
        <3>1. memtable' = InsertBatch(memtable, ops)
            BY <2>3 DEF commit_transaction
        <3>2. /\ MemOK(memtable', lsn_counter + Len(ops))
              /\ memtable'[k] = memtable[k] \/ (memtable'[k] # NoEntry /\ memtable'[k].lsn > lsn_counter)
            BY <1>1, <3>1, InsertBatchOK
        <3>3. ASSUME memtable[k] # NoEntry, memtable'[k] # memtable[k]
              PROVE  memtable'[k] # NoEntry /\ memtable'[k].lsn > memtable[k].lsn
            <4>1. memtable[k].lsn \in Nat /\ memtable[k].lsn <= lsn_counter /\ lsn_counter \in Nat
                BY <1>1, <3>3, StateFacts DEF MemOK, MemEntries, Entry
            <4>2. memtable'[k] # NoEntry
                BY <3>2, <3>3
            <4>3. memtable'[k].lsn \in Nat
                BY <1>1, <3>2, <4>2 DEF MemOK, MemEntries, Entry
            <4> QED BY <3>2, <3>3, <4>1, <4>2, <4>3
        <3> QED BY <3>3, Zenon DEF Keeps
    <2>4. CASE flush_to_segments
        <3>1. /\ Live(memtable) # {} /\ FlushAll(memtable, wal, current_wal, hist)
              /\ flushes' = flushes
            BY <2>4 DEF flush_to_segments
        <3>2. CASE memtable[k] # NoEntry
            BY <1>1, <3>1, <3>2, StateFacts, FlushAllKeeps, Zenon
        <3>3. CASE memtable[k] = NoEntry
            BY <3>3, Zenon DEF Keeps
        <3> QED BY <3>2, <3>3
    <2>5. CASE \E work \in flushes : finalize_flush(work)
        BY <1>1, <2>5, FinalizeKeeps
    <2>6. CASE flush \/ begin_flush \/ \E work \in flushes : abort_flush(work)
        <3>1. memtable' = memtable
            BY <2>6 DEF flush, begin_flush, abort_flush
        <3> QED BY <3>1, <2>1
    <2>7. CASE UNCHANGED vars
        BY <2>7, <2>1 DEF vars
    <2>8. ASSUME restarts' = restarts + 1 PROVE FALSE
        BY <1>1, <2>0, <2>8
    <2>9. /\ \A kind : ~Reopen(kind)
          /\ \A kind, ops, j : ~CrashInCommit(kind, ops, j)
          /\ \A kind, work, cut : ~CrashInFinalize(kind, work, cut)
        BY <2>8 DEF Reopen, CrashInCommit, CrashInFinalize, Restart
    <2> QED BY <1>1, <2>2, <2>3, <2>4, <2>5, <2>6, <2>7, <2>9 DEF Next
<1>2. IInv /\ [Next]_vars => (restarts' = restarts => \A k \in Keys : Keeps(k))
    BY <1>1
<1>3. IInv /\ [Next]_vars =>
        [restarts' = restarts => \A k \in Keys : Keeps(k)]_vars
    BY <1>2
<1> QED BY <1>3, Invariance, PTL DEF Spec, FlushKeepsWrites, Keeps
-----------------------------------------------------------------------------
(***************************************************************************)
(* The WAL covers the memtable, on the blocking Engine: no call runs       *)
(* during a flush, so when finalize_flush retires WAL files the memtable   *)
(* is empty.  (With a flush in flight a write may rotate the WAL, and its  *)
(* record be deleted while its entry is in the memtable only.)             *)
(***************************************************************************)
Covers(w, m) ==
    \A k \in Keys : m[k] # NoEntry =>
        \E n \in DOMAIN w : \E i \in DOMAIN w[n].recs : w[n].recs[i] = [key |-> k, entry |-> m[k]]

\* v holds all the records of w, each where it was.
Extends(w, v) ==
    \A n \in DOMAIN w : \A i \in DOMAIN w[n].recs :
        n \in DOMAIN v /\ i \in DOMAIN v[n].recs /\ v[n].recs[i] = w[n].recs[i]

\* More records cover at least as much.
LEMMA CoversExtends ==
    ASSUME NEW w, NEW v, NEW m, Covers(w, m), Extends(w, v)
    PROVE  Covers(v, m)
<1> SUFFICES ASSUME NEW k \in Keys, m[k] # NoEntry
             PROVE  \E n \in DOMAIN v : \E i \in DOMAIN v[n].recs :
                       v[n].recs[i] = [key |-> k, entry |-> m[k]]
    BY Zenon DEF Covers
<1>1. PICK n \in DOMAIN w : \E i \in DOMAIN w[n].recs : w[n].recs[i] = [key |-> k, entry |-> m[k]]
    BY Zenon DEF Covers
<1>2. PICK i \in DOMAIN w[n].recs : w[n].recs[i] = [key |-> k, entry |-> m[k]]
    BY <1>1
<1>3. n \in DOMAIN v /\ i \in DOMAIN v[n].recs /\ v[n].recs[i] = w[n].recs[i]
    BY Zenon DEF Extends
<1> QED BY <1>2, <1>3, Zenon

\* Extension is transitive.
LEMMA ExtendsTrans ==
    ASSUME NEW u, NEW v, NEW w, Extends(u, v), Extends(v, w)
    PROVE  Extends(u, w)
BY Zenon DEF Extends

\* An fsync and a new file keep every record.
LEMMA FsyncCreateExtends ==
    ASSUME NEW w, NEW l \in Nat, WalOK(w, l), NEW cur \in DOMAIN w, NEW name \in Nat
    PROVE  /\ Extends(w, Fsync(w, cur))
           /\ name \notin DOMAIN w => Extends(w, Create(Fsync(w, cur), name))
<1>1. /\ WalOK(Fsync(w, cur), l) /\ DOMAIN Fsync(w, cur) = DOMAIN w
      /\ \A n \in DOMAIN w : Fsync(w, cur)[n].recs = w[n].recs
    BY FsyncOK
<1>2. /\ DOMAIN Create(Fsync(w, cur), name) = DOMAIN Fsync(w, cur) \cup {name}
      /\ \A n \in DOMAIN Fsync(w, cur) : n # name => Create(Fsync(w, cur), name)[n] = Fsync(w, cur)[n]
    BY <1>1, CreateOK
<1> QED BY <1>1, <1>2 DEF Extends

\* Logging a batch keeps every record and adds those of the batch.
LEMMA LogBatchExtends ==
    ASSUME IInv, NEW ops \in Batches
    PROVE  LET v == LogBatch(wal, current_wal, ops, Len(ops)) IN
           /\ Extends(wal, v)
           /\ \A i \in DOMAIN ops : \E p \in DOMAIN v[current_wal].recs :
                 v[current_wal].recs[p] = [key |-> ops[i].key, entry |-> TxEntry(ops, i)]
<1> DEFINE v == LogBatch(wal, current_wal, ops, Len(ops))
           s == [i \in 1..Len(ops) |-> [key |-> ops[i].key, entry |-> TxEntry(ops, i)]]
           f == wal[current_wal]
           t == f.recs \o s
<1>1. /\ DOMAIN v = DOMAIN wal
      /\ \A n \in DOMAIN wal : n # current_wal => v[n] = wal[n]
      /\ v[current_wal] = [f EXCEPT !.recs = t]
    BY StateFacts DEF LogBatch
<1>2. f \in WalFile /\ f.recs \in Seq(Record) /\ current_wal \in DOMAIN wal
    BY StateFacts DEF TypeOK, WalFile
<1>3. Len(ops) \in Nat /\ s \in Seq(Record) /\ Len(s) = Len(ops)
    <2>1. s \in [1..Len(ops) -> Record]
        BY BatchFacts DEF Record
    <2>2. Len(ops) \in Nat
        BY BatchFacts
    <2> HIDE DEF s
    <2> QED BY <2>1, <2>2, SeqOfFunction
<1>4. \A i \in 1..Len(ops) : s[i] = [key |-> ops[i].key, entry |-> TxEntry(ops, i)]
    OBVIOUS
<1> HIDE DEF s, v, f
<1>5. /\ t \in Seq(Record) /\ Len(t) = Len(f.recs) + Len(s)
      /\ \A i \in 1..(Len(f.recs) + Len(s)) :
            t[i] = IF i <= Len(f.recs) THEN f.recs[i] ELSE s[i - Len(f.recs)]
    BY <1>2, <1>3, ConcatProperties
<1> HIDE DEF t
<1>6. v[current_wal].recs = t
    BY <1>1, <1>2, <1>5 DEF WalFile
<1>7. /\ DOMAIN t = 1..(Len(f.recs) + Len(s)) /\ DOMAIN f.recs = 1..Len(f.recs)
      /\ Len(f.recs) \in Nat /\ Len(s) \in Nat
    BY <1>2, <1>3, <1>5
<1>8. \A i \in DOMAIN f.recs : i \in DOMAIN t /\ t[i] = f.recs[i]
    BY <1>5, <1>7
<1>9. Extends(wal, v)
    BY <1>1, <1>6, <1>8 DEF Extends, f
<1>10. ASSUME NEW i \in DOMAIN ops
       PROVE  \E p \in DOMAIN v[current_wal].recs :
                 v[current_wal].recs[p] = [key |-> ops[i].key, entry |-> TxEntry(ops, i)]
    <2>1. i \in 1..Len(ops)
        BY BatchFacts
    <2>2. Len(f.recs) + i \in DOMAIN t /\ t[Len(f.recs) + i] = s[i]
        BY <1>3, <1>5, <1>7, <2>1
    <2> QED BY <1>4, <1>6, <2>1, <2>2
<1> QED BY <1>9, <1>10 DEF v

\* Logging a record keeps every other one.
LEMMA Append1Extends ==
    ASSUME NEW w, NEW l \in Nat, WalOK(w, l), NEW cur \in DOMAIN w,
           NEW k \in Keys, NEW e \in Entry
    PROVE  /\ Extends(w, Append1(w, cur, k, e))
           /\ cur \in DOMAIN Append1(w, cur, k, e)
           /\ \E i \in DOMAIN Append1(w, cur, k, e)[cur].recs :
                 Append1(w, cur, k, e)[cur].recs[i] = [key |-> k, entry |-> e]
<1> DEFINE r == [key |-> k, entry |-> e]
           v == Append1(w, cur, k, e)
           g == [w[cur] EXCEPT !.recs = Append(w[cur].recs, r)]
<1>1. w[cur] \in WalFile /\ w[cur].recs \in Seq(Record) /\ r \in Record
    BY DEF WalOK, FileOK, WalFile, Record
<1>2. /\ DOMAIN v = DOMAIN w /\ \A n \in DOMAIN w : n # cur => v[n] = w[n]
      /\ v[cur] = g
    BY DEF Append1
<1> HIDE DEF v, r
<1>3. Append(w[cur].recs, r) \in Seq(Record)
    BY <1>1
<1>4. v[cur].recs = Append(w[cur].recs, r)
    BY <1>1, <1>2, <1>3, ReplaceRecs
<1> HIDE DEF g
<1>5. /\ \A i \in DOMAIN w[cur].recs : i \in DOMAIN v[cur].recs /\ v[cur].recs[i] = w[cur].recs[i]
      /\ Len(w[cur].recs) + 1 \in DOMAIN v[cur].recs /\ v[cur].recs[Len(w[cur].recs) + 1] = r
    BY <1>1, <1>4
<1>6. Extends(w, v)
    BY <1>2, <1>5 DEF Extends
<1> QED BY <1>2, <1>5, <1>6, Zenon DEF v, r

\* Logging a record and inserting its entry keep the memtable covered.
LEMMA Append1Covers ==
    ASSUME NEW w, NEW l \in Nat, WalOK(w, l), NEW cur \in DOMAIN w,
           NEW k \in Keys, NEW e \in Entry, NEW m \in MemEntries, Covers(w, m)
    PROVE  Covers(Append1(w, cur, k, e), Insert(m, k, e))
<1> DEFINE r == [key |-> k, entry |-> e]
           v == Append1(w, cur, k, e)
<1>1. /\ Extends(w, v) /\ cur \in DOMAIN v
      /\ \E i \in DOMAIN v[cur].recs : v[cur].recs[i] = r
    BY Append1Extends
<1> HIDE DEF v, r
<1>2. Covers(v, m)
    BY <1>1, CoversExtends
<1>3. \A x \in Keys : Insert(m, k, e)[x] = IF x = k THEN e ELSE m[x]
    BY DEF Insert, MemEntries
<1>4. ASSUME NEW x \in Keys, Insert(m, k, e)[x] # NoEntry
      PROVE  \E n \in DOMAIN v : \E i \in DOMAIN v[n].recs :
                v[n].recs[i] = [key |-> x, entry |-> Insert(m, k, e)[x]]
    <2>1. CASE x = k
        <3>1. r = [key |-> x, entry |-> Insert(m, k, e)[x]]
            BY <1>3, <2>1 DEF r
        <3> QED BY <1>1, <3>1, Zenon
    <2>2. CASE x # k
        <3>1. Insert(m, k, e)[x] = m[x] /\ m[x] # NoEntry
            BY <1>3, <1>4, <2>2
        <3> QED BY <1>2, <3>1, Zenon DEF Covers
    <2> QED BY <2>1, <2>2
<1> QED BY <1>4, Zenon DEF Covers, v

\* What write_entry does after the WAL work keeps the memtable covered.
LEMMA ApplyCovers ==
    ASSUME IInv, NEW k \in Keys, NEW e \in Entry, e.lsn = lsn_counter + 1, NEW auto,
           NEW w, WalOK(w, e.lsn), NEW cur \in DOMAIN w, NEW d, flushes' = flushes,
           Covers(w, Insert(memtable, k, e)), Apply(k, e, auto, w, cur, d)
    PROVE  Covers(wal', memtable')
<1> DEFINE m == Insert(memtable, k, e)
           h == Append(hist, HistRec(k, e, TRUE, 0))
<1>1. FlushAll(m, w, cur, h) \/ (memtable' = m /\ wal' = w)
    BY DEF Apply
<1>2. CASE memtable' = m /\ wal' = w
    BY <1>2
<1>3. CASE FlushAll(m, w, cur, h)
    <2>1. e.lsn \in Nat /\ e # NoEntry /\ lsn_counter \in Nat
        BY StateFacts, ConstantsAssumption, SMTT(30) DEF Entry, Op
    <2>2. \A x \in Keys : m[x] = IF x = k THEN e ELSE memtable[x]
        BY DEF Insert, IInv, TypeOK, MemEntries
    <2>3. \A x \in Keys : memtable[x] # NoEntry => memtable[x].lsn \in Nat /\ memtable[x].lsn <= lsn_counter
        BY DEF IInv, MemOK, MemEntries, Entry
    <2>4. m \in MemEntries
        BY DEF Insert, IInv, TypeOK, MemEntries
    <2>5. MemOK(m, e.lsn)
        BY <2>1, <2>2, <2>3, <2>4 DEF MemOK
    <2>6. Live(m) # {}
        BY <2>1, <2>2 DEF Live
    <2>7. h \in Seq(HistEntry)
        <3>1. HistRec(k, e, TRUE, 0) \in HistEntry
            BY DEF HistRec, HistEntry, Entry
        <3> QED BY <3>1, StateFacts, AppendProperties
    <2> HIDE DEF m, h
    <2>8. \A x \in Keys : memtable'[x] = NoEntry
        BY <1>3, <2>1, <2>5, <2>6, <2>7, FlushAllOK, Zenon
    <2> QED BY <2>8, Zenon DEF Covers
<1> QED BY <1>1, <1>2, <1>3

\* put, put_with_ttl and delete.
LEMMA WriteCovers ==
    ASSUME IInv, WalCoversMemtable, NEW k \in Keys, NEW op \in Op, NEW auto,
           WriteEntry(k, op, auto)
    PROVE  Covers(wal', memtable')
<1> DEFINE e == [op |-> op, lsn |-> lsn_counter + 1, val |-> issued + 1]
           logged == Append1(wal, current_wal, k, e)
           synced == Fsync(logged, current_wal)
           name == NextWalPath(lsn_counter + 1)
           new == Create(synced, name)
           m == Insert(memtable, k, e)
<1>0. e \in Entry /\ e.lsn = lsn_counter + 1 /\ e.lsn \in Nat /\ lsn_counter <= e.lsn
      /\ lsn_counter \in Nat /\ name \in Nat
    BY StateFacts DEF Entry, NextWalPath
<1>1. /\ flushes' = flushes
      /\ \/ Apply(k, e, auto, logged, current_wal, durable)
         \/ name \notin DOMAIN wal /\ Apply(k, e, auto, new, name, Len(hist) + 1)
         \/ wal' = synced /\ memtable' = memtable
    BY DEF WriteEntry
<1> HIDE DEF e, name
<1>2. Covers(wal, memtable) /\ memtable \in MemEntries
    BY StateFacts DEF WalCoversMemtable, Covers, TypeOK
<1>3. Covers(logged, m) /\ Covers(wal, memtable)
    BY <1>0, <1>2, StateFacts, Append1Covers
<1>4. WalOK(logged, e.lsn) /\ DOMAIN logged = DOMAIN wal /\ current_wal \in DOMAIN logged
    BY <1>0, StateFacts, Append1OK
<1>5. Extends(wal, logged)
    BY <1>0, StateFacts, Append1Extends
<1> HIDE DEF logged
<1>6. /\ Extends(logged, synced)
      /\ name \notin DOMAIN wal => Extends(logged, new)
    BY <1>0, <1>4, FsyncCreateExtends
<1>7. WalOK(new, e.lsn) /\ name \in DOMAIN new
    <2>1. WalOK(synced, e.lsn)
        BY <1>0, <1>4, FsyncOK
    <2> HIDE DEF synced
    <2>2. WalOK(new, e.lsn) /\ DOMAIN new = DOMAIN synced \cup {name}
        BY <1>0, <2>1, CreateOK, Zenon
    <2> QED BY <2>2
<1> HIDE DEF synced, new, m
<1>8. CASE Apply(k, e, auto, logged, current_wal, durable)
    <2>1. Covers(logged, Insert(memtable, k, e))
        BY <1>3 DEF m
    <2> QED BY <1>0, <1>1, <1>4, <1>8, <2>1, ApplyCovers, Zenon
<1>9. CASE name \notin DOMAIN wal /\ Apply(k, e, auto, new, name, Len(hist) + 1)
    <2>1. Covers(new, Insert(memtable, k, e))
        BY <1>3, <1>6, <1>9, CoversExtends DEF m
    <2> QED BY <1>0, <1>1, <1>7, <1>9, <2>1, ApplyCovers, Zenon
<1>10. CASE wal' = synced /\ memtable' = memtable
    <2>1. Extends(wal, synced)
        BY <1>5, <1>6, ExtendsTrans
    <2> QED BY <1>2, <1>10, <2>1, CoversExtends
<1> QED BY <1>1, <1>8, <1>9, <1>10

\* commit_transaction.
LEMMA CommitCovers ==
    ASSUME IInv, WalCoversMemtable, NEW ops \in Batches, commit_transaction(ops)
    PROVE  Covers(wal', memtable')
<1> DEFINE logged == LogBatch(wal, current_wal, ops, Len(ops))
           synced == Fsync(logged, current_wal)
           name == NextWalPath(lsn_counter + Len(ops))
           l == lsn_counter + Len(ops)
           m == InsertBatch(memtable, ops)
<1>1. /\ memtable' = m
      /\ \/ wal' = synced
         \/ name \notin DOMAIN wal /\ wal' = Create(synced, name)
    BY DEF commit_transaction
<1>2. l \in Nat /\ name \in Nat /\ Len(ops) \in 0..Len(ops)
    BY BatchFacts, StateFacts DEF NextWalPath
<1>3. WalOK(logged, l) /\ DOMAIN logged = DOMAIN wal
    BY <1>2, LogBatchOK
<1>4. /\ Extends(wal, logged)
      /\ \A i \in DOMAIN ops : \E p \in DOMAIN logged[current_wal].recs :
            logged[current_wal].recs[p] = [key |-> ops[i].key, entry |-> TxEntry(ops, i)]
    BY LogBatchExtends
<1>5. Covers(logged, memtable)
    <2>1. Covers(wal, memtable)
        BY Zenon DEF WalCoversMemtable, Covers
    <2> QED BY <1>4, <2>1, CoversExtends
<1> HIDE DEF logged, name, l
<1>6. Covers(logged, m)
    <2> SUFFICES ASSUME NEW k \in Keys, m[k] # NoEntry
                 PROVE  \E n \in DOMAIN logged : \E i \in DOMAIN logged[n].recs :
                           logged[n].recs[i] = [key |-> k, entry |-> m[k]]
        BY Zenon DEF Covers
    <2> DEFINE mine == {i \in DOMAIN ops : ops[i].key = k}
    <2>1. m[k] = IF mine = {} THEN memtable[k] ELSE TxEntry(ops, Max(mine))
        BY DEF InsertBatch
    <2> HIDE DEF m
    <2>2. CASE mine = {}
        BY <1>5, <2>1, <2>2, Zenon DEF Covers
    <2>3. CASE mine # {}
        <3>1. mine \in SUBSET Nat /\ (\A i \in mine : i <= Len(ops)) /\ Len(ops) \in Nat
            BY BatchFacts
        <3>2. Max(mine) \in mine
            <4> HIDE DEF mine
            <4> QED BY <2>3, <3>1, MaxExists
        <3>3. Max(mine) \in DOMAIN ops /\ ops[Max(mine)].key = k
            BY <3>2
        <3>4. m[k] = TxEntry(ops, Max(mine))
            BY <2>1, <2>3
        <3> HIDE DEF mine
        <3>5. current_wal \in DOMAIN logged
            BY <1>3, StateFacts
        <3> QED BY <1>4, <3>3, <3>4, <3>5, Zenon
    <2> QED BY <2>2, <2>3
<1> HIDE DEF m
<1>7. /\ Extends(logged, synced)
      /\ name \notin DOMAIN wal => Extends(logged, Create(synced, name))
    BY <1>2, <1>3, StateFacts, FsyncCreateExtends
<1> QED BY <1>1, <1>6, <1>7, CoversExtends

\* Engine::open replays every record it finds: what is in the memtable after it
\* comes from the files it leaves.
LEMMA OpenCovers ==
    ASSUME IInv, NEW kind, NEW l \in Nat, NEW w, WalOK(w, l), NEW cur \in DOMAIN w,
           NEW segs, NEW h, NEW d, Restart(kind, w, cur, segs, h, d)
    PROVE  Covers(wal', memtable') /\ flushes' = {}
<1>1. PICK s \in Survivors(w, cur, kind) : Open(s, segs)
    BY DEF Restart
<1>2. WalOK(s, l)
    BY SurvivorsOK
<1> DEFINE name == NextWalPath(RecoveredLsn(s) + 1)
<1>3. /\ memtable' = Replay(s) /\ flushes' = {}
      /\ wal' = s \/ (name \notin DOMAIN s /\ wal' = Create(s, name))
    BY <1>1 DEF Open
<1>4. Covers(s, Replay(s))
    BY <1>2, ReplayOK DEF Covers
<1>5. name \in Nat
    BY <1>2, RecoveredOK DEF NextWalPath
<1> HIDE DEF name
<1>6. ASSUME name \notin DOMAIN s PROVE Extends(s, Create(s, name))
    <2>1. /\ DOMAIN Create(s, name) = DOMAIN s \cup {name}
          /\ \A n \in DOMAIN s : n # name => Create(s, name)[n] = s[n]
        BY <1>2, <1>5, CreateOK
    <2> QED BY <1>6, <2>1 DEF Extends
<1> QED BY <1>3, <1>4, <1>6, CoversExtends

\* On the blocking Engine no flush is ever in flight between two calls.
CInv == IInv /\ flushes = {} /\ WalCoversMemtable

\* Every step of the blocking Engine keeps the memtable covered by the WAL.
LEMMA NextCInv ==
    ASSUME MaxInFlight = 0
    PROVE  CInv /\ [Next]_vars => CInv'
<1> SUFFICES ASSUME CInv, [Next]_vars PROVE CInv'
    OBVIOUS
<1> SUFFICES flushes' = {} /\ Covers(wal', memtable')
    <2>1. IInv'
        BY NextIInv DEF CInv
    <2> QED BY <2>1 DEF CInv, WalCoversMemtable, Covers
<1>0. IInv /\ flushes = {} /\ WalCoversMemtable /\ Covers(wal, memtable)
    BY Zenon DEF CInv, WalCoversMemtable, Covers
<1>1. CASE UNCHANGED vars
    BY <1>0, <1>1 DEF vars, walVars, segVars
<1>2. CASE \E k \in Keys : put(k) \/ put_with_ttl(k) \/ delete(k)
    <2>1. PICK k \in Keys, op \in Op, auto \in BOOLEAN : WriteEntry(k, op, auto)
        BY <1>2 DEF put, put_with_ttl, delete, Op
    <2>2. flushes' = flushes
        BY <2>1 DEF WriteEntry
    <2> QED BY <1>0, <2>1, <2>2, WriteCovers
<1>3. CASE flush
    <2>1. wal' = Fsync(wal, current_wal) /\ memtable' = memtable /\ flushes' = flushes
        BY <1>3 DEF flush, segVars
    <2>2. Extends(wal, Fsync(wal, current_wal))
        BY <1>0, StateFacts, FsyncCreateExtends
    <2> QED BY <1>0, <2>1, <2>2, CoversExtends
<1>4. CASE \E ops \in Batches : commit_transaction(ops)
    <2>1. PICK ops \in Batches : commit_transaction(ops)
        BY <1>4
    <2>2. flushes' = flushes
        BY <2>1 DEF commit_transaction, segVars
    <2> QED BY <1>0, <2>1, <2>2, CommitCovers
<1>5. CASE flush_to_segments
    <2>1. /\ Live(memtable) # {} /\ FlushAll(memtable, wal, current_wal, hist)
          /\ flushes' = flushes
        BY <1>5 DEF flush_to_segments
    <2>2. \A k \in Keys : memtable'[k] = NoEntry
        BY <1>0, <2>1, StateFacts, FlushAllOK, Zenon
    <2> QED BY <1>0, <2>1, <2>2 DEF Covers
<1>6. CASE begin_flush
    <2>1. Cardinality({}) < 0
        BY <1>0, <1>6 DEF begin_flush
    <2> QED BY <2>1, FS_EmptySet
<1>7. CASE \E work \in flushes : finalize_flush(work) \/ abort_flush(work)
    BY <1>0, <1>7
<1>8. CASE \E kind \in CrashKinds : Reopen(kind)
    <2>1. PICK kind : Restart(kind, wal, current_wal, manifest, hist, durable)
        BY <1>8 DEF Reopen
    <2> QED BY <1>0, <2>1, StateFacts, OpenCovers, Zenon
<1>9. CASE \E kind \in CrashKinds \ {"close"}, ops \in Batches :
              \E j \in DOMAIN ops : CrashInCommit(kind, ops, j)
    <2>1. PICK kind \in CrashKinds, ops \in Batches : \E j \in DOMAIN ops : CrashInCommit(kind, ops, j)
        BY <1>9
    <2>2. PICK j \in DOMAIN ops : CrashInCommit(kind, ops, j)
        BY <2>1
    <2> DEFINE w == LogBatch(wal, current_wal, ops, j)
               l == lsn_counter + j
    <2>3. Restart(kind, w, current_wal, manifest, HistBatch(ops, j), durable)
        BY <2>2 DEF CrashInCommit
    <2>4. j \in 0..Len(ops) /\ l \in Nat
        BY <1>0, BatchFacts, StateFacts
    <2>5. WalOK(w, l) /\ DOMAIN w = DOMAIN wal /\ current_wal \in DOMAIN wal
        BY <1>0, <2>4, LogBatchOK, StateFacts
    <2> HIDE DEF w, l
    <2> QED BY <1>0, <2>3, <2>4, <2>5, OpenCovers
<1>10. CASE \E kind \in CrashKinds \ {"close"} :
              \E work \in FlushableWork, cut \in DOMAIN wal : CrashInFinalize(kind, work, cut)
    <2>1. PICK kind \in CrashKinds, work \in FlushableWork, cut \in DOMAIN wal : CrashInFinalize(kind, work, cut)
        BY <1>10
    <2> DEFINE left == [n \in {x \in DOMAIN wal : x = current_wal \/ x >= cut} |-> wal[n]]
    <2>2. Restart(kind, left, current_wal, Append(manifest, Execute(work)), hist,
                  Max({durable, work.upto}))
        BY <2>1 DEF CrashInFinalize
    <2>3. WalOK(left, lsn_counter) /\ current_wal \in DOMAIN left /\ lsn_counter \in Nat
        BY <1>0, StateFacts, SubWalOK
    <2> HIDE DEF left
    <2> QED BY <1>0, <2>2, <2>3, OpenCovers
<1> QED BY <1>1, <1>2, <1>3, <1>4, <1>5, <1>6, <1>7, <1>8, <1>9, <1>10 DEF Next

\* On the blocking Engine every memtable entry is backed by its record in a WAL
\* file on disk, through rotations, failed rotations, flushes, crashes in any of
\* them and restarts: finalize_flush retires no WAL file that is still needed.
THEOREM BlockingWalCovers ==
    ASSUME MaxInFlight = 0
    PROVE  Spec => []WalCoversMemtable
<1>1. Init => CInv
    <2> SUFFICES ASSUME Init PROVE CInv
        OBVIOUS
    <2>1. IInv
        BY InitIInv
    <2>2. \A k \in Keys : memtable[k] = NoEntry
        BY DEF Init, EmptyMem
    <2> QED BY <2>1, <2>2 DEF Init, CInv, WalCoversMemtable
<1>2. CInv /\ [Next]_vars => CInv'
    BY NextCInv
<1>3. CInv => WalCoversMemtable
    BY DEF CInv
<1> QED BY <1>1, <1>2, <1>3, PTL DEF Spec
-----------------------------------------------------------------------------
(***************************************************************************)
(* The records of WAL files w.  After c writes a record's LSN is its       *)
(* number among the writes, and it lies in a file named no higher than c   *)
(* and than the current file.                                              *)
(***************************************************************************)
NumberedEntry(e, c) == e.lsn = e.val /\ e.val \in 1..c

RecordsNumbered(w, cur, c) ==
    \A n \in DOMAIN w : \A i \in DOMAIN w[n].recs :
        NumberedEntry(w[n].recs[i].entry, c) /\ n <= c /\ n <= cur

NamesBelow(w, c) == \A n \in DOMAIN w : n <= c + 1

\* Replay order is the order of the writes.
RecordsOrdered(w) ==
    \A m, n \in DOMAIN w : \A i \in DOMAIN w[m].recs, j \in DOMAIN w[n].recs :
        m < n \/ (m = n /\ i < j) => w[m].recs[i].entry.val < w[n].recs[j].entry.val

LogOK(w, cur, c) == RecordsNumbered(w, cur, c) /\ NamesBelow(w, c) /\ RecordsOrdered(w)

\* The records are the last ones of the history.
EndsHistory(w, c) == \A v \in Vals(w) : \A u \in v..c : u \in Vals(w)

\* Each record is the write of its number in history h.
RecordsOf(w, h) ==
    \A n \in DOMAIN w : \A i \in DOMAIN w[n].recs :
        LET r == w[n].recs[i] IN
        /\ r.entry.val \in DOMAIN h
        /\ h[r.entry.val].key = r.key /\ h[r.entry.val].op = r.entry.op /\ h[r.entry.val].val = r.entry.val

\* The number of a record is the number of some record.
LEMMA ValsIff ==
    ASSUME NEW w, NEW v
    PROVE  v \in Vals(w) <=> \E n \in DOMAIN w : \E i \in DOMAIN w[n].recs : w[n].recs[i].entry.val = v
BY DEF Vals

\* Records s were appended to file cur.
Logged(w, v, cur, s) ==
    /\ DOMAIN v = DOMAIN w
    /\ \A n \in DOMAIN w : n # cur => v[n] = w[n]
    /\ DOMAIN v[cur].recs = 1..(Len(w[cur].recs) + Len(s))
    /\ \A i \in DOMAIN w[cur].recs : v[cur].recs[i] = w[cur].recs[i]
    /\ \A i \in DOMAIN s : v[cur].recs[Len(w[cur].recs) + i] = s[i]

\* A position of the extended files is an old one or one of the new ones.
LEMMA LoggedAt ==
    ASSUME NEW w, NEW l \in Nat, WalOK(w, l), NEW cur \in DOMAIN w, NEW s \in Seq(Record), NEW v,
           Logged(w, v, cur, s), NEW n \in DOMAIN v, NEW i \in DOMAIN v[n].recs
    PROVE  /\ i \in Nat /\ n \in DOMAIN w
           /\ \/ i \in DOMAIN w[n].recs /\ v[n].recs[i] = w[n].recs[i]
              \/ /\ n = cur /\ i - Len(w[cur].recs) \in DOMAIN s
                 /\ v[n].recs[i] = s[i - Len(w[cur].recs)]
                 /\ \A j \in DOMAIN w[cur].recs : j < i
<1>1. w[n].recs \in Seq(Record) /\ w[cur].recs \in Seq(Record) /\ n \in DOMAIN w
    BY DEF WalOK, FileOK, WalFile, Logged
<1>2. CASE n # cur
    BY <1>1, <1>2 DEF Logged
<1>3. CASE n = cur
    <2>1. i \in 1..(Len(w[cur].recs) + Len(s)) /\ Len(w[cur].recs) \in Nat /\ Len(s) \in Nat
          /\ DOMAIN w[cur].recs = 1..Len(w[cur].recs) /\ DOMAIN s = 1..Len(s)
        BY <1>1, <1>3 DEF Logged
    <2>2. CASE i <= Len(w[cur].recs)
        BY <1>3, <2>1, <2>2 DEF Logged
    <2>3. CASE ~(i <= Len(w[cur].recs))
        <3>1. i - Len(w[cur].recs) \in DOMAIN s /\ Len(w[cur].recs) + (i - Len(w[cur].recs)) = i
            BY <2>1, <2>3
        <3>2. v[cur].recs[Len(w[cur].recs) + (i - Len(w[cur].recs))] = s[i - Len(w[cur].recs)]
            BY <3>1 DEF Logged
        <3> QED BY <1>1, <1>3, <2>1, <2>3, <3>1, <3>2
    <2> QED BY <2>2, <2>3
<1> QED BY <1>2, <1>3

\* Logging the next j writes.
LEMMA LoggedOK ==
    ASSUME NEW w, NEW l \in Nat, WalOK(w, l), NEW cur \in DOMAIN w, NEW s \in Seq(Record), NEW v,
           Logged(w, v, cur, s), NEW c \in Nat, LogOK(w, cur, c),
           \A i \in DOMAIN s : s[i].entry.lsn = c + i /\ s[i].entry.val = c + i
    PROVE  LogOK(v, cur, c + Len(s))
<1> DEFINE b == Len(w[cur].recs)
           d == c + Len(s)
<1>1. /\ w[cur].recs \in Seq(Record) /\ b \in Nat /\ Len(s) \in Nat /\ d \in Nat /\ c <= d
      /\ cur \in Nat /\ DOMAIN w \subseteq Nat /\ DOMAIN v = DOMAIN w
    BY DEF WalOK, FileOK, WalFile, Logged
<1>2. \A i \in DOMAIN s : i \in Nat /\ i >= 1 /\ i <= Len(s)
    OBVIOUS
<1>3. cur <= c + 1
    BY DEF LogOK, NamesBelow
<1>4. \A n \in DOMAIN v : \A i \in DOMAIN v[n].recs :
         /\ i \in Nat
         /\ \/ /\ i \in DOMAIN w[n].recs /\ v[n].recs[i].entry = w[n].recs[i].entry
               /\ NumberedEntry(w[n].recs[i].entry, c) /\ n <= c /\ n <= cur
            \/ /\ n = cur /\ i - b \in DOMAIN s
               /\ v[n].recs[i].entry.val = c + (i - b) /\ v[n].recs[i].entry.lsn = c + (i - b)
               /\ \A j \in DOMAIN w[cur].recs : j < i
    <2> SUFFICES ASSUME NEW n \in DOMAIN v, NEW i \in DOMAIN v[n].recs
                 PROVE  /\ i \in Nat
                        /\ \/ /\ i \in DOMAIN w[n].recs /\ v[n].recs[i].entry = w[n].recs[i].entry
                              /\ NumberedEntry(w[n].recs[i].entry, c) /\ n <= c /\ n <= cur
                           \/ /\ n = cur /\ i - b \in DOMAIN s
                              /\ v[n].recs[i].entry.val = c + (i - b) /\ v[n].recs[i].entry.lsn = c + (i - b)
                              /\ \A j \in DOMAIN w[cur].recs : j < i
        OBVIOUS
    <2>1. /\ i \in Nat /\ n \in DOMAIN w
          /\ \/ i \in DOMAIN w[n].recs /\ v[n].recs[i] = w[n].recs[i]
             \/ /\ n = cur /\ i - Len(w[cur].recs) \in DOMAIN s
                /\ v[n].recs[i] = s[i - Len(w[cur].recs)]
                /\ \A j \in DOMAIN w[cur].recs : j < i
        BY LoggedAt
    <2>2. i \in DOMAIN w[n].recs => NumberedEntry(w[n].recs[i].entry, c) /\ n <= c /\ n <= cur
        BY <2>1, Zenon DEF LogOK, RecordsNumbered
    <2> HIDE DEF LogOK, Logged
    <2> QED BY <2>1, <2>2
<1>d. d = c + Len(s)
    OBVIOUS
<1> HIDE DEF b, d
<1>5. RecordsNumbered(v, cur, d)
    <2> SUFFICES ASSUME NEW n \in DOMAIN v, NEW i \in DOMAIN v[n].recs
                 PROVE  NumberedEntry(v[n].recs[i].entry, d) /\ n <= d /\ n <= cur
        BY Zenon DEF RecordsNumbered
    <2> DEFINE e == v[n].recs[i].entry
    <2>1. n \in Nat /\ i \in Nat
        BY <1>1, <1>4
    <2>2. CASE NumberedEntry(e, c) /\ n <= c /\ n <= cur
        BY <1>1, <2>1, <2>2 DEF NumberedEntry
    <2>3. CASE /\ n = cur /\ i - b \in DOMAIN s
               /\ e.val = c + (i - b) /\ e.lsn = c + (i - b)
        <3>1. i - b \in 1..Len(s)
            BY <2>3
        <3> HIDE DEF e
        <3>2. c + (i - b) \in 1..d /\ cur <= d
            BY <1>1, <1>d, <1>3, <3>1
        <3> QED BY <1>1, <2>3, <3>2 DEF NumberedEntry, e
    <2> QED BY <1>4, <2>2, <2>3
<1>6. NamesBelow(v, d)
    BY <1>1 DEF LogOK, NamesBelow
<1>7. RecordsOrdered(v)
    <2> SUFFICES ASSUME NEW m \in DOMAIN v, NEW n \in DOMAIN v, NEW i \in DOMAIN v[m].recs,
                        NEW j \in DOMAIN v[n].recs, m < n \/ (m = n /\ i < j)
                 PROVE  v[m].recs[i].entry.val < v[n].recs[j].entry.val
        BY Zenon DEF RecordsOrdered
    <2>0. m \in Nat /\ n \in Nat /\ i \in Nat /\ j \in Nat
        BY <1>1, <1>4
    <2>1. CASE j \in DOMAIN w[n].recs /\ v[n].recs[j].entry = w[n].recs[j].entry /\ n <= cur
        <3>1. i \in DOMAIN w[m].recs /\ v[m].recs[i].entry = w[m].recs[i].entry
            BY <1>1, <1>4, <2>0, <2>1
        <3>2. w[m].recs[i].entry.val < w[n].recs[j].entry.val
            BY <1>1, <2>1, <3>1 DEF LogOK, RecordsOrdered
        <3> QED BY <2>1, <3>1, <3>2
    <2>2. CASE n = cur /\ j - b \in DOMAIN s /\ v[n].recs[j].entry.val = c + (j - b)
        <3>1. CASE v[m].recs[i].entry = w[m].recs[i].entry /\ NumberedEntry(w[m].recs[i].entry, c)
            BY <1>1, <1>2, <2>2, <3>1 DEF NumberedEntry
        <3>2. CASE m = cur /\ i - b \in DOMAIN s /\ v[m].recs[i].entry.val = c + (i - b)
            <4>1. i < j
                BY <2>0, <2>2, <3>2
            <4>2. c + (i - b) < c + (j - b)
                BY <4>1, <1>1, <2>0
            <4> QED BY <4>2, <2>2, <3>2
        <3> QED BY <1>4, <3>1, <3>2
    <2> QED BY <1>4, <2>1, <2>2
<1> QED BY <1>d, <1>5, <1>6, <1>7 DEF LogOK

\* The numbers of the records after logging.
LEMMA LoggedVals ==
    ASSUME NEW w, NEW l \in Nat, WalOK(w, l), NEW cur \in DOMAIN w, NEW s \in Seq(Record), NEW v,
           Logged(w, v, cur, s), NEW c \in Nat, \A i \in DOMAIN s : s[i].entry.val = c + i
    PROVE  \A x : x \in Vals(v) <=> x \in Vals(w) \/ x \in (c + 1)..(c + Len(s))
<1> TAKE x
<1> DEFINE b == Len(w[cur].recs)
<1>1. /\ w[cur].recs \in Seq(Record) /\ b \in Nat /\ Len(s) \in Nat /\ DOMAIN v = DOMAIN w
      /\ DOMAIN s = 1..Len(s)
    BY DEF WalOK, FileOK, WalFile, Logged
<1>2. ASSUME x \in Vals(v) PROVE x \in Vals(w) \/ x \in (c + 1)..(c + Len(s))
    <2>1. PICK n \in DOMAIN v : \E i \in DOMAIN v[n].recs : v[n].recs[i].entry.val = x
        BY <1>2, ValsIff
    <2>2. PICK i \in DOMAIN v[n].recs : v[n].recs[i].entry.val = x
        BY <2>1
    <2>3. /\ n \in DOMAIN w
          /\ \/ i \in DOMAIN w[n].recs /\ v[n].recs[i] = w[n].recs[i]
             \/ i - b \in DOMAIN s /\ v[n].recs[i] = s[i - b]
        BY LoggedAt
    <2>4. CASE i \in DOMAIN w[n].recs /\ v[n].recs[i] = w[n].recs[i]
        BY <2>2, <2>3, <2>4, ValsIff
    <2>5. CASE i - b \in DOMAIN s /\ v[n].recs[i] = s[i - b]
        <3>1. x = c + (i - b)
            BY <2>2, <2>5
        <3> HIDE DEF b
        <3> QED BY <1>1, <2>5, <3>1
    <2> QED BY <2>3, <2>4, <2>5
<1>3. ASSUME x \in Vals(w) PROVE x \in Vals(v)
    <2>1. PICK n \in DOMAIN w : \E i \in DOMAIN w[n].recs : w[n].recs[i].entry.val = x
        BY <1>3, ValsIff
    <2>2. PICK i \in DOMAIN w[n].recs : w[n].recs[i].entry.val = x
        BY <2>1
    <2>3. i \in DOMAIN v[n].recs /\ v[n].recs[i] = w[n].recs[i]
        BY <1>1 DEF Logged
    <2> QED BY <1>1, <2>2, <2>3, ValsIff
<1>4. ASSUME x \in (c + 1)..(c + Len(s)) PROVE x \in Vals(v)
    <2>1. x - c \in DOMAIN s /\ c + (x - c) = x
        BY <1>1, <1>4
    <2>2. b + (x - c) \in 1..(b + Len(s))
        <3> HIDE DEF b
        <3> QED BY <1>1, <2>1
    <2>3. b + (x - c) \in DOMAIN v[cur].recs /\ v[cur].recs[b + (x - c)] = s[x - c]
        BY <2>1, <2>2 DEF Logged
    <2>4. v[cur].recs[b + (x - c)].entry.val = x
        BY <2>1, <2>3
    <2> QED BY <1>1, <2>3, <2>4, ValsIff
<1> QED BY <1>2, <1>3, <1>4

\* Logging the next writes leaves the end of the history in the files.
LEMMA LoggedEnds ==
    ASSUME NEW w, NEW l \in Nat, WalOK(w, l), NEW cur \in DOMAIN w, NEW s \in Seq(Record), NEW v,
           Logged(w, v, cur, s), NEW c \in Nat, \A i \in DOMAIN s : s[i].entry.val = c + i,
           LogOK(w, cur, c), EndsHistory(w, c)
    PROVE  EndsHistory(v, c + Len(s))
<1>1. \A x : x \in Vals(v) <=> x \in Vals(w) \/ x \in (c + 1)..(c + Len(s))
    BY LoggedVals
<1>2. \A x \in Vals(w) : x \in 1..c
    BY ValsIff DEF LogOK, RecordsNumbered, NumberedEntry
<1>3. Len(s) \in Nat
    OBVIOUS
<1> SUFFICES ASSUME NEW x \in Vals(v), NEW u \in x..(c + Len(s)) PROVE u \in Vals(v)
    BY Zenon DEF EndsHistory
<1>4. CASE x \in Vals(w)
    <2>1. x \in Nat /\ x <= c
        BY <1>2, <1>4
    <2>2. u \in x..c => u \in Vals(w)
        BY <1>4 DEF EndsHistory
    <2> QED BY <1>1, <1>3, <2>1, <2>2
<1>5. CASE x \in (c + 1)..(c + Len(s))
    BY <1>1, <1>3, <1>5
<1> QED BY <1>1, <1>4, <1>5

\* The same records under the same names.
SameRecords(w, v) == DOMAIN v = DOMAIN w /\ \A n \in DOMAIN w : v[n].recs = w[n].recs

LEMMA SameRecordsOK ==
    ASSUME NEW w, NEW v, SameRecords(w, v), NEW cur, NEW c, NEW h
    PROVE  /\ LogOK(w, cur, c) => LogOK(v, cur, c)
           /\ EndsHistory(w, c) => EndsHistory(v, c)
           /\ RecordsOf(w, h) => RecordsOf(v, h)
           /\ Vals(v) = Vals(w)
<1>1. RecordsNumbered(w, cur, c) => RecordsNumbered(v, cur, c)
    BY DEF SameRecords, RecordsNumbered
<1>2. NamesBelow(w, c) => NamesBelow(v, c)
    BY DEF SameRecords, NamesBelow
<1>3. RecordsOrdered(w) => RecordsOrdered(v)
    BY DEF SameRecords, RecordsOrdered
<1>4. Vals(v) = Vals(w)
    <2>1. \A x : x \in Vals(v) <=> x \in Vals(w)
        BY ValsIff DEF SameRecords
    <2> QED BY <2>1
<1>5. RecordsOf(w, h) => RecordsOf(v, h)
    BY DEF SameRecords, RecordsOf
<1> QED BY <1>1, <1>2, <1>3, <1>4, <1>5 DEF LogOK, EndsHistory

\* A new file of a free name at the end.
LEMMA NewFileOK ==
    ASSUME NEW w, NEW l \in Nat, WalOK(w, l), NEW name \in Nat, name \notin DOMAIN w, NEW cur, NEW c \in Nat,
           name \in c..(c + 1), LogOK(w, cur, c), NEW h
    PROVE  /\ LogOK(Create(w, name), name, c)
           /\ EndsHistory(w, c) => EndsHistory(Create(w, name), c)
           /\ RecordsOf(w, h) => RecordsOf(Create(w, name), h)
           /\ Vals(Create(w, name)) = Vals(w)
<1> DEFINE v == Create(w, name)
<1>1. /\ DOMAIN v = DOMAIN w \cup {name} /\ v[name].recs = <<>>
      /\ \A n \in DOMAIN w : v[n] = w[n]
    BY DEF Create, NewWal
<1>2. \A n \in DOMAIN v : \A i \in DOMAIN v[n].recs :
         n \in DOMAIN w /\ i \in DOMAIN w[n].recs /\ v[n].recs[i] = w[n].recs[i]
    BY <1>1
<1>3. \A n \in DOMAIN w : \A i \in DOMAIN w[n].recs :
         n \in DOMAIN v /\ i \in DOMAIN v[n].recs /\ v[n].recs[i] = w[n].recs[i]
    BY <1>1
<1>4. DOMAIN w \subseteq Nat
    BY DEF WalOK
<1> HIDE DEF v
<1>5. RecordsNumbered(v, name, c)
    <2>1. \A n \in DOMAIN w : n <= c => n <= name
        BY <1>4
    <2> QED BY <1>2, <2>1, Zenon DEF LogOK, RecordsNumbered
<1>6. NamesBelow(v, c)
    BY <1>1 DEF LogOK, NamesBelow
<1>7. RecordsOrdered(v)
    <2>1. RecordsOrdered(w)
        BY DEF LogOK
    <2> SUFFICES ASSUME NEW m \in DOMAIN v, NEW n \in DOMAIN v, NEW i \in DOMAIN v[m].recs,
                        NEW j \in DOMAIN v[n].recs, m < n \/ (m = n /\ i < j)
                 PROVE  v[m].recs[i].entry.val < v[n].recs[j].entry.val
        BY Zenon DEF RecordsOrdered
    <2>2. w[m].recs[i].entry.val < w[n].recs[j].entry.val
        BY <1>2, <2>1, Zenon DEF RecordsOrdered
    <2> QED BY <1>2, <2>2
<1>8. Vals(v) = Vals(w)
    <2>1. \A x : x \in Vals(v) <=> x \in Vals(w)
        <3> TAKE x
        <3>1. x \in Vals(v) <=> \E n \in DOMAIN v : \E i \in DOMAIN v[n].recs : v[n].recs[i].entry.val = x
            BY ValsIff
        <3>2. x \in Vals(w) <=> \E n \in DOMAIN w : \E i \in DOMAIN w[n].recs : w[n].recs[i].entry.val = x
            BY ValsIff
        <3>3. ASSUME x \in Vals(v) PROVE x \in Vals(w)
            <4>1. PICK n \in DOMAIN v : \E i \in DOMAIN v[n].recs : v[n].recs[i].entry.val = x
                BY <3>1, <3>3
            <4>2. PICK i \in DOMAIN v[n].recs : v[n].recs[i].entry.val = x
                BY <4>1
            <4>3. n \in DOMAIN w /\ i \in DOMAIN w[n].recs /\ w[n].recs[i].entry.val = x
                BY <1>2, <4>2
            <4> QED BY <3>2, <4>3
        <3>4. ASSUME x \in Vals(w) PROVE x \in Vals(v)
            <4>1. PICK n \in DOMAIN w : \E i \in DOMAIN w[n].recs : w[n].recs[i].entry.val = x
                BY <3>2, <3>4
            <4>2. PICK i \in DOMAIN w[n].recs : w[n].recs[i].entry.val = x
                BY <4>1
            <4>3. n \in DOMAIN v /\ i \in DOMAIN v[n].recs /\ v[n].recs[i].entry.val = x
                BY <1>3, <4>2
            <4> QED BY <3>1, <4>3
        <3> QED BY <3>3, <3>4
    <2> QED BY <2>1
<1>9. RecordsOf(w, h) => RecordsOf(v, h)
    BY <1>2 DEF RecordsOf
<1> QED BY <1>5, <1>6, <1>7, <1>8, <1>9 DEF LogOK, EndsHistory, v

\* Some of the files, such that those left out are older than those kept.
LEMMA SomeFilesOK ==
    ASSUME NEW w, NEW l \in Nat, WalOK(w, l), NEW cur \in DOMAIN w, NEW c \in Nat, LogOK(w, cur, c), NEW h,
           NEW D \in SUBSET (DOMAIN w), NEW v, v = [n \in D |-> w[n]],
           \A n \in DOMAIN w \ D : \A m \in D : n <= cur => n < m
    PROVE  /\ LogOK(v, cur, c)
           /\ EndsHistory(w, c) => EndsHistory(v, c)
           /\ RecordsOf(w, h) => RecordsOf(v, h)
<1>1. DOMAIN v = D /\ \A n \in D : n \in DOMAIN w /\ v[n] = w[n]
    OBVIOUS
<1>2. RecordsNumbered(v, cur, c) /\ NamesBelow(v, c)
    BY <1>1, Zenon DEF LogOK, RecordsNumbered, NamesBelow
<1>3. RecordsOrdered(v)
    <2>1. RecordsOrdered(w)
        BY DEF LogOK
    <2> QED BY <1>1, <2>1 DEF RecordsOrdered
<1>4. RecordsOf(w, h) => RecordsOf(v, h)
    BY <1>1 DEF RecordsOf
<1>5. ASSUME EndsHistory(w, c) PROVE EndsHistory(v, c)
    <2> SUFFICES ASSUME NEW x \in Vals(v), NEW u \in x..c PROVE u \in Vals(v)
        BY Zenon DEF EndsHistory
    <2>1. PICK m \in D : \E j \in DOMAIN w[m].recs : w[m].recs[j].entry.val = x
        BY <1>1, ValsIff
    <2>2. PICK j \in DOMAIN w[m].recs : w[m].recs[j].entry.val = x
        BY <2>1
    <2>3. x \in Vals(w)
        BY <1>1, <2>2, ValsIff
    <2>4. u \in Vals(w)
        BY <2>3, <1>5 DEF EndsHistory
    <2>5. PICK n \in DOMAIN w : \E i \in DOMAIN w[n].recs : w[n].recs[i].entry.val = u
        BY <2>4, ValsIff
    <2>6. PICK i \in DOMAIN w[n].recs : w[n].recs[i].entry.val = u
        BY <2>5
    <2>7. n <= cur /\ x \in Nat
        BY <2>2, <2>6 DEF LogOK, RecordsNumbered, NumberedEntry
    <2>8. CASE n \in D
        BY <1>1, <2>6, <2>8, ValsIff
    <2>9. CASE n \notin D
        <3>1. n < m
            BY <2>7, <2>9
        <3>2. u < x
            BY <2>2, <2>6, <3>1 DEF LogOK, RecordsOrdered
        <3> QED BY <3>2, <2>7
    <2> QED BY <2>8, <2>9
<1> QED BY <1>2, <1>3, <1>4, <1>5 DEF LogOK

-----------------------------------------------------------------------------
(***************************************************************************)
(* The order of the writes, for any number of flushes in flight.           *)
(***************************************************************************)
\* No restart so far, or none that followed a flush and lost a record.
Undisturbed == restarts = 0 \/ (manifest = <<>> /\ CrashKinds \subseteq {"close", "kill"})

EntriesNumbered(m, c) == \A k \in Keys : m[k] # NoEntry => NumberedEntry(m[k], c)

InOrder ==
    /\ lsn_counter = issued
    /\ LogOK(wal, current_wal, issued)
    /\ EntriesNumbered(memtable, issued)
    /\ \A i \in DOMAIN manifest : EntriesNumbered(manifest[i].ents, issued)
    /\ \A f \in flushes : EntriesNumbered(f.ents, issued)
    /\ manifest = <<>> => issued \in Vals(wal) \cup {0}

OrderInv == IInv /\ (Undisturbed => InOrder)

\* The counter may grow.
LEMMA EntriesNumberedMono ==
    ASSUME NEW m, NEW c \in Nat, NEW d \in Nat, c <= d, EntriesNumbered(m, c)
    PROVE  EntriesNumbered(m, d)
BY DEF EntriesNumbered, NumberedEntry

\* What finalize_flush leaves of the WAL.
LEMMA RetireOrder ==
    ASSUME NEW w, NEW l \in Nat, WalOK(w, l), NEW cur \in DOMAIN w, NEW c \in Nat, LogOK(w, cur, c), NEW h
    PROVE  /\ LogOK(RetireOthers(w, cur), cur, c)
           /\ EndsHistory(w, c) => EndsHistory(RetireOthers(w, cur), c)
           /\ RecordsOf(w, h) => RecordsOf(RetireOthers(w, cur), h)
<1> DEFINE D == {cur}
<1>1. D \in SUBSET (DOMAIN w) /\ RetireOthers(w, cur) = [n \in D |-> w[n]]
    BY DEF RetireOthers
<1>2. \A n \in DOMAIN w \ D : \A m \in D : n <= cur => n < m
    BY DEF WalOK
<1> HIDE DEF D
<1> QED BY <1>1, <1>2, SomeFilesOK

\* Registering a segment of numbered entries.
LEMMA RegisterOrder ==
    ASSUME NEW segs \in Seq(Segment), NEW g \in Segment, NEW c, EntriesNumbered(g.ents, c),
           \A i \in DOMAIN segs : EntriesNumbered(segs[i].ents, c)
    PROVE  /\ \A i \in DOMAIN Append(segs, g) : EntriesNumbered(Append(segs, g)[i].ents, c)
           /\ Append(segs, g) # <<>>
<1> DEFINE t == Append(segs, g)
<1>1. /\ DOMAIN t = 1..(Len(segs) + 1) /\ Len(segs) \in Nat
      /\ \A i \in DOMAIN segs : t[i] = segs[i]
      /\ t[Len(segs) + 1] = g /\ DOMAIN segs = 1..Len(segs)
    OBVIOUS
<1>2. \A i \in DOMAIN t : (i \in DOMAIN segs /\ t[i] = segs[i]) \/ t[i] = g
    BY <1>1
<1>3. t # <<>>
    BY <1>1
<1> QED BY <1>2, <1>3

\* begin_flush, execute and finalize_flush in one call.
LEMMA FlushAllOrder ==
    ASSUME IInv, NEW l \in Nat, NEW m, MemOK(m, l), Live(m) # {},
           NEW w, WalOK(w, l), NEW cur \in DOMAIN w, NEW h \in Seq(HistEntry),
           FlushAll(m, w, cur, h), flushes' = flushes, current_wal' = cur,
           NEW c \in Nat, lsn_counter' = c, issued' = c, LogOK(w, cur, c), EntriesNumbered(m, c),
           \A i \in DOMAIN manifest : EntriesNumbered(manifest[i].ents, c),
           \A f \in flushes : EntriesNumbered(f.ents, c)
    PROVE  InOrder'
<1> DEFINE g == [id |-> next_segment_id, ents |-> m]
<1>1. /\ manifest' = Append(manifest, g) /\ \A k \in Keys : memtable'[k] = NoEntry
    BY FlushAllOK, Zenon
<1>2. manifest \in Seq(Segment) /\ g \in Segment /\ g.ents = m
    BY StateFacts DEF Segment, MemOK
<1> HIDE DEF g
<1>3. \A i \in DOMAIN manifest' : EntriesNumbered(manifest'[i].ents, c)
    BY <1>1, <1>2, RegisterOrder
<1>4. manifest' # <<>>
    BY <1>1, <1>2, RegisterOrder
<1>5. LogOK(wal', cur, c)
    BY RetireOrder DEF FlushAll
<1>6. EntriesNumbered(memtable', c)
    BY <1>1 DEF EntriesNumbered
<1> QED BY <1>3, <1>4, <1>5, <1>6 DEF InOrder

\* The end of write_entry.
LEMMA ApplyOrder ==
    ASSUME IInv, InOrder, NEW k \in Keys, NEW e \in Entry, e.lsn = issued + 1, e.val = issued + 1, NEW auto,
           NEW w, WalOK(w, issued + 1), NEW cur \in DOMAIN w, NEW d,
           LogOK(w, cur, issued + 1), issued + 1 \in Vals(w),
           Apply(k, e, auto, w, cur, d),
           lsn_counter' = issued + 1, issued' = issued + 1, flushes' = flushes
    PROVE  InOrder'
<1> DEFINE m == Insert(memtable, k, e)
           h == Append(hist, HistRec(k, e, TRUE, 0))
           c == issued + 1
<1>1. issued \in Nat /\ c \in Nat /\ lsn_counter = issued /\ memtable \in MemEntries /\ issued <= c
    BY StateFacts DEF InOrder, TypeOK
<1>2. \A x \in Keys : m[x] = IF x = k THEN e ELSE memtable[x]
    BY <1>1 DEF Insert, MemEntries
<1>3. m \in MemEntries
    BY <1>1 DEF Insert, MemEntries
<1>4. NumberedEntry(e, c) /\ e # NoEntry
    BY <1>1, ConstantsAssumption DEF NumberedEntry, Entry, Op
<1>5. h \in Seq(HistEntry)
    <2>1. HistRec(k, e, TRUE, 0) \in HistEntry
        BY DEF HistRec, HistEntry, Entry
    <2> QED BY <2>1, StateFacts, AppendProperties
<1>6. /\ current_wal' = cur
      /\ \/ /\ FlushAll(m, w, cur, h)
         \/ memtable' = m /\ wal' = w /\ UNCHANGED <<manifest, next_segment_id>>
    BY DEF Apply
<1> HIDE DEF m, h, c
<1>7. EntriesNumbered(memtable, issued) /\ EntriesNumbered(memtable, c)
    BY <1>1, EntriesNumberedMono DEF InOrder
<1>8. EntriesNumbered(m, c)
    BY <1>2, <1>4, <1>7 DEF EntriesNumbered
<1>9. MemOK(m, c)
    <2>1. \A x \in Keys : m[x] # NoEntry => m[x].lsn <= c
        BY <1>1, <1>8 DEF EntriesNumbered, NumberedEntry
    <2> QED BY <1>3, <2>1 DEF MemOK
<1>10. Live(m) # {}
    BY <1>2, <1>4 DEF Live
<1>11. \A i \in DOMAIN manifest : EntriesNumbered(manifest[i].ents, c)
    BY <1>1, EntriesNumberedMono DEF InOrder
<1>12. \A f \in flushes : EntriesNumbered(f.ents, c)
    BY <1>1, EntriesNumberedMono DEF InOrder
<1>c. WalOK(w, c) /\ LogOK(w, cur, c) /\ c \in Vals(w) /\ lsn_counter' = c /\ issued' = c
    BY DEF c
<1>13. CASE FlushAll(m, w, cur, h)
    BY <1>1, <1>5, <1>6, <1>8, <1>9, <1>10, <1>11, <1>12, <1>13, <1>c, FlushAllOrder, Zenon
<1>14. CASE memtable' = m /\ wal' = w /\ UNCHANGED <<manifest, next_segment_id>>
    BY <1>6, <1>8, <1>11, <1>12, <1>14, <1>c DEF InOrder
<1> QED BY <1>6, <1>13, <1>14

\* Logging one record.
LEMMA Append1Logged ==
    ASSUME NEW w, NEW l \in Nat, WalOK(w, l), NEW cur \in DOMAIN w, NEW k \in Keys, NEW e \in Entry
    PROVE  LET r == [key |-> k, entry |-> e] IN
           /\ Logged(w, Append1(w, cur, k, e), cur, <<r>>)
           /\ <<r>> \in Seq(Record) /\ Len(<<r>>) = 1
           /\ \A i \in DOMAIN <<r>> : i = 1 /\ <<r>>[i].entry = e /\ <<r>>[i].key = k
<1> DEFINE r == [key |-> k, entry |-> e]
           v == Append1(w, cur, k, e)
           g == [w[cur] EXCEPT !.recs = Append(w[cur].recs, r)]
<1>1. w[cur] \in WalFile /\ w[cur].recs \in Seq(Record) /\ r \in Record
    BY DEF WalOK, FileOK, WalFile, Record
<1>2. /\ DOMAIN v = DOMAIN w /\ \A n \in DOMAIN w : n # cur => v[n] = w[n]
      /\ v[cur] = g
    BY DEF Append1
<1>a. r.entry = e /\ r.key = k
    OBVIOUS
<1> HIDE DEF v, r
<1>3. Append(w[cur].recs, r) \in Seq(Record)
    BY <1>1
<1>4. v[cur].recs = Append(w[cur].recs, r)
    BY <1>1, <1>2, <1>3, ReplaceRecs
<1> HIDE DEF g
<1>5. <<r>> \in Seq(Record) /\ Len(<<r>>) = 1 /\ DOMAIN <<r>> = {1} /\ <<r>>[1] = r
    BY <1>1
<1>6. /\ DOMAIN v[cur].recs = 1..(Len(w[cur].recs) + Len(<<r>>))
      /\ \A i \in DOMAIN w[cur].recs : v[cur].recs[i] = w[cur].recs[i]
      /\ v[cur].recs[Len(w[cur].recs) + 1] = r
    BY <1>1, <1>4, <1>5
<1>7. Logged(w, v, cur, <<r>>)
    BY <1>2, <1>5, <1>6 DEF Logged
<1> QED BY <1>5, <1>7, <1>a DEF v, r

\* The records of the first j writes of a batch.
Batch(ops, j) == [i \in 1..j |-> [key |-> ops[i].key, entry |-> TxEntry(ops, i)]]

\* Logging a batch.
LEMMA LogBatchLogged ==
    ASSUME IInv, NEW ops \in Batches, NEW j \in 0..Len(ops)
    PROVE  /\ Logged(wal, LogBatch(wal, current_wal, ops, j), current_wal, Batch(ops, j))
           /\ Batch(ops, j) \in Seq(Record) /\ Len(Batch(ops, j)) = j /\ DOMAIN Batch(ops, j) = 1..j
           /\ \A i \in 1..j : /\ Batch(ops, j)[i].key = ops[i].key
                              /\ Batch(ops, j)[i].entry = TxEntry(ops, i)
<1> DEFINE s == Batch(ops, j)
           f == wal[current_wal]
           g == [f EXCEPT !.recs = f.recs \o s]
           v == LogBatch(wal, current_wal, ops, j)
<1>0. j \in Nat /\ j <= Len(ops) /\ Len(ops) \in Nat /\ DOMAIN ops = 1..Len(ops)
    BY BatchFacts
<1>1. \A i \in 1..j : [key |-> ops[i].key, entry |-> TxEntry(ops, i)] \in Record
    BY <1>0, BatchFacts DEF Record
<1>2. s \in Seq(Record) /\ Len(s) = j /\ DOMAIN s = 1..j
    <2>1. s \in [1..j -> Record]
        BY <1>1 DEF Batch
    <2> HIDE DEF s
    <2> QED BY <1>0, <2>1, SeqOfFunction
<1>3. \A i \in 1..j : s[i].key = ops[i].key /\ s[i].entry = TxEntry(ops, i)
    BY DEF Batch
<1>4. /\ DOMAIN v = DOMAIN wal
      /\ \A n \in DOMAIN wal : n # current_wal => v[n] = wal[n]
      /\ v[current_wal] = g
    BY StateFacts DEF LogBatch, Batch
<1>5. f \in WalFile /\ f.recs \in Seq(Record)
    BY StateFacts DEF TypeOK, WalFile
<1> HIDE DEF s, v, f
<1>6. /\ f.recs \o s \in Seq(Record) /\ Len(f.recs \o s) = Len(f.recs) + Len(s)
      /\ \A i \in 1..(Len(f.recs) + Len(s)) :
            (f.recs \o s)[i] = IF i <= Len(f.recs) THEN f.recs[i] ELSE s[i - Len(f.recs)]
    BY <1>2, <1>5, ConcatProperties
<1>7. v[current_wal].recs = f.recs \o s
    BY <1>4, <1>5, <1>6, ReplaceRecs
<1>8. /\ DOMAIN (f.recs \o s) = 1..(Len(f.recs) + Len(s))
      /\ \A i \in DOMAIN f.recs : (f.recs \o s)[i] = f.recs[i]
      /\ \A i \in DOMAIN s : (f.recs \o s)[Len(f.recs) + i] = s[i]
    BY <1>2, <1>5, <1>6
<1>9. Logged(wal, v, current_wal, s)
    BY <1>4, <1>7, <1>8 DEF Logged, f
<1> QED BY <1>2, <1>3, <1>9 DEF s, v

\* An fsync changes no record.
LEMMA FsyncSame ==
    ASSUME NEW w, NEW l \in Nat, WalOK(w, l), NEW cur \in DOMAIN w
    PROVE  SameRecords(w, Fsync(w, cur))
BY FsyncOK DEF SameRecords

\* put, put_with_ttl and delete.
LEMMA WriteOrder ==
    ASSUME IInv, InOrder, NEW k \in Keys, NEW op \in Op, NEW auto, WriteEntry(k, op, auto)
    PROVE  InOrder'
<1> DEFINE e == [op |-> op, lsn |-> lsn_counter + 1, val |-> issued + 1]
           r == [key |-> k, entry |-> e]
           c == issued + 1
           logged == Append1(wal, current_wal, k, e)
           synced == Fsync(logged, current_wal)
           new == Create(synced, c)
<1>0. /\ issued \in Nat /\ c \in Nat /\ lsn_counter = issued /\ NextWalPath(lsn_counter + 1) = c /\ issued <= c
      /\ c \in c..(c + 1)
    BY StateFacts DEF InOrder, NextWalPath
<1>1. e \in Entry /\ e.lsn = c /\ e.val = c /\ lsn_counter <= e.lsn
    BY <1>0 DEF Entry
<1>2. /\ issued' = c /\ lsn_counter' = c /\ UNCHANGED <<up, flushes, restarts>>
      /\ \/ Apply(k, e, auto, logged, current_wal, durable)
         \/ c \notin DOMAIN wal /\ Apply(k, e, auto, new, c, Len(hist) + 1)
         \/ wal' = synced /\ UNCHANGED <<current_wal, memtable, manifest, next_segment_id>>
    BY <1>0 DEF WriteEntry
<1> HIDE DEF e
<1>3. WalOK(logged, c) /\ DOMAIN logged = DOMAIN wal /\ current_wal \in DOMAIN logged
    BY <1>0, <1>1, StateFacts, Append1OK
<1>4. /\ Logged(wal, logged, current_wal, <<r>>) /\ <<r>> \in Seq(Record) /\ Len(<<r>>) = 1
      /\ \A i \in DOMAIN <<r>> : i = 1 /\ <<r>>[i].entry = e
    BY <1>1, StateFacts, Append1Logged
<1> HIDE DEF logged, r
<1>5. \A i \in DOMAIN <<r>> : <<r>>[i].entry.lsn = issued + i /\ <<r>>[i].entry.val = issued + i
    BY <1>1, <1>4
<1>6. LogOK(logged, current_wal, c)
    <2>1. LogOK(wal, current_wal, issued) /\ current_wal \in DOMAIN wal /\ WalOK(wal, lsn_counter) /\ lsn_counter \in Nat
        BY StateFacts DEF InOrder
    <2>2. LogOK(logged, current_wal, issued + Len(<<r>>))
        BY <1>0, <1>4, <1>5, <2>1, LoggedOK
    <2> QED BY <1>4, <2>2
<1>7. c \in Vals(logged)
    <2>1. \A x : x \in Vals(logged) <=> x \in Vals(wal) \/ x \in (issued + 1)..(issued + Len(<<r>>))
        BY <1>0, <1>4, <1>5, StateFacts, LoggedVals
    <2> QED BY <1>0, <1>4, <2>1
<1>8. WalOK(synced, c) /\ DOMAIN synced = DOMAIN wal /\ current_wal \in DOMAIN synced
      /\ SameRecords(logged, synced)
    BY <1>0, <1>3, FsyncOK, FsyncSame
<1> HIDE DEF synced
<1>9. LogOK(synced, current_wal, c) /\ c \in Vals(synced)
    BY <1>6, <1>7, <1>8, SameRecordsOK
<1>10. ASSUME c \notin DOMAIN wal
       PROVE  /\ LogOK(new, c, c) /\ c \in Vals(new) /\ WalOK(new, c) /\ c \in DOMAIN new
    <2>1. LogOK(new, c, c) /\ Vals(new) = Vals(synced)
        BY <1>0, <1>8, <1>9, <1>10, NewFileOK
    <2>2. WalOK(new, c) /\ DOMAIN new = DOMAIN synced \cup {c}
        BY <1>0, <1>8, CreateOK
    <2> QED BY <1>9, <2>1, <2>2
<1> HIDE DEF new
<1>11. CASE Apply(k, e, auto, logged, current_wal, durable)
    BY <1>1, <1>2, <1>3, <1>6, <1>7, <1>11, ApplyOrder
<1>12. CASE c \notin DOMAIN wal /\ Apply(k, e, auto, new, c, Len(hist) + 1)
    BY <1>1, <1>2, <1>10, <1>12, ApplyOrder
<1>13. CASE wal' = synced /\ UNCHANGED <<current_wal, memtable, manifest, next_segment_id>>
    <2>1. EntriesNumbered(memtable, c)
        BY <1>0, EntriesNumberedMono DEF InOrder
    <2>2. \A i \in DOMAIN manifest : EntriesNumbered(manifest[i].ents, c)
        BY <1>0, EntriesNumberedMono DEF InOrder
    <2>3. \A f \in flushes : EntriesNumbered(f.ents, c)
        BY <1>0, EntriesNumberedMono DEF InOrder
    <2> HIDE DEF c
    <2> QED BY <1>2, <1>9, <1>13, <2>1, <2>2, <2>3 DEF InOrder
<1> QED BY <1>2, <1>11, <1>12, <1>13

\* The log with the first j records of a batch.
LEMMA BatchOrder ==
    ASSUME IInv, InOrder, NEW ops \in Batches, NEW j \in 0..Len(ops)
    PROVE  LET v == LogBatch(wal, current_wal, ops, j) IN
           /\ LogOK(v, current_wal, issued + j)
           /\ manifest = <<>> => issued + j \in Vals(v) \cup {0}
           /\ WalOK(v, issued + j) /\ DOMAIN v = DOMAIN wal
           /\ \A i \in 1..Len(ops) : NumberedEntry(TxEntry(ops, i), issued + i)
<1> DEFINE v == LogBatch(wal, current_wal, ops, j)
           s == Batch(ops, j)
<1>1. /\ issued \in Nat /\ j \in Nat /\ lsn_counter = issued /\ Len(ops) \in Nat /\ DOMAIN ops = 1..Len(ops)
      /\ issued + j \in Nat /\ j <= Len(ops) /\ 1..j \subseteq DOMAIN ops
    BY BatchFacts, StateFacts DEF InOrder
<1>2. \A i \in 1..Len(ops) : TxEntry(ops, i).lsn = issued + i /\ TxEntry(ops, i).val = issued + i
    BY <1>1 DEF TxEntry
<1>3. /\ Logged(wal, v, current_wal, s) /\ s \in Seq(Record) /\ Len(s) = j /\ DOMAIN s = 1..j
      /\ \A i \in 1..j : s[i].entry = TxEntry(ops, i)
    BY LogBatchLogged
<1>4. WalOK(v, issued + j) /\ DOMAIN v = DOMAIN wal
    BY <1>1, LogBatchOK
<1> HIDE DEF v, s
<1>5. \A i \in DOMAIN s : s[i].entry.lsn = issued + i /\ s[i].entry.val = issued + i
    BY <1>1, <1>2, <1>3
<1>6. LogOK(wal, current_wal, issued) /\ current_wal \in DOMAIN wal /\ WalOK(wal, issued)
    BY <1>1, StateFacts DEF InOrder
<1>7. LogOK(v, current_wal, issued + Len(s))
    BY <1>1, <1>3, <1>5, <1>6, LoggedOK
<1>8. \A x : x \in Vals(v) <=> x \in Vals(wal) \/ x \in (issued + 1)..(issued + Len(s))
    BY <1>1, <1>3, <1>5, <1>6, LoggedVals
<1>9. ASSUME manifest = <<>> PROVE issued + j \in Vals(v) \cup {0}
    <2>1. issued \in Vals(wal) \cup {0}
        BY <1>9 DEF InOrder
    <2>2. CASE j = 0
        BY <1>1, <1>8, <2>1, <2>2
    <2>3. CASE j # 0
        BY <1>1, <1>3, <1>8, <2>3
    <2> QED BY <2>2, <2>3
<1>10. \A i \in 1..Len(ops) : NumberedEntry(TxEntry(ops, i), issued + i)
    BY <1>1, <1>2 DEF NumberedEntry
<1> QED BY <1>3, <1>4, <1>7, <1>9, <1>10 DEF v

\* commit_transaction.
LEMMA CommitOrder ==
    ASSUME IInv, InOrder, NEW ops \in Batches, commit_transaction(ops)
    PROVE  InOrder'
<1> DEFINE c == issued + Len(ops)
           logged == LogBatch(wal, current_wal, ops, Len(ops))
           synced == Fsync(logged, current_wal)
           m == InsertBatch(memtable, ops)
<1>1. /\ issued \in Nat /\ c \in Nat /\ lsn_counter = issued /\ NextWalPath(lsn_counter + Len(ops)) = c
      /\ issued <= c /\ c \in c..(c + 1) /\ Len(ops) \in 0..Len(ops) /\ DOMAIN ops = 1..Len(ops)
      /\ Len(ops) \in Nat
    BY BatchFacts, StateFacts DEF InOrder, NextWalPath
<1>2. /\ issued' = c /\ lsn_counter' = c /\ memtable' = m
      /\ UNCHANGED <<manifest, flushes>>
      /\ \/ wal' = synced /\ current_wal' = current_wal
         \/ c \notin DOMAIN wal /\ wal' = Create(synced, c) /\ current_wal' = c
    BY <1>1 DEF commit_transaction, segVars
<1>3. /\ LogOK(logged, current_wal, c) /\ WalOK(logged, c) /\ DOMAIN logged = DOMAIN wal
      /\ manifest = <<>> => c \in Vals(logged) \cup {0}
      /\ \A i \in 1..Len(ops) : NumberedEntry(TxEntry(ops, i), issued + i)
    BY <1>1, BatchOrder
<1> HIDE DEF logged
<1>4. /\ WalOK(synced, c) /\ DOMAIN synced = DOMAIN wal /\ SameRecords(logged, synced)
    BY <1>1, <1>3, StateFacts, FsyncOK, FsyncSame
<1> HIDE DEF synced
<1>5. LogOK(synced, current_wal, c) /\ (manifest = <<>> => c \in Vals(synced) \cup {0})
    BY <1>3, <1>4, SameRecordsOK
<1>6. c \notin DOMAIN wal => LogOK(Create(synced, c), c, c) /\ Vals(Create(synced, c)) = Vals(synced)
    BY <1>1, <1>4, <1>5, NewFileOK
<1>7. EntriesNumbered(m, c)
    <2> SUFFICES ASSUME NEW k \in Keys, m[k] # NoEntry PROVE NumberedEntry(m[k], c)
        BY Zenon DEF EntriesNumbered
    <2> DEFINE mine == {i \in DOMAIN ops : ops[i].key = k}
    <2>1. m[k] = IF mine = {} THEN memtable[k] ELSE TxEntry(ops, Max(mine))
        BY DEF InsertBatch
    <2> HIDE DEF m
    <2>2. CASE mine = {}
        <3>1. EntriesNumbered(memtable, c)
            BY <1>1, EntriesNumberedMono DEF InOrder
        <3>2. m[k] = memtable[k]
            BY <2>1, <2>2
        <3> HIDE DEF c
        <3> QED BY <3>1, <3>2 DEF EntriesNumbered
    <2>3. CASE mine # {}
        <3>1. mine \in SUBSET Nat /\ \A i \in mine : i <= Len(ops)
            BY <1>1
        <3>2. Max(mine) \in mine
            <4> HIDE DEF mine
            <4> QED BY <1>1, <2>3, <3>1, MaxExists
        <3>3. Max(mine) \in 1..Len(ops) /\ m[k] = TxEntry(ops, Max(mine))
            BY <1>1, <2>1, <2>3, <3>2
        <3> HIDE DEF mine
        <3>4. NumberedEntry(TxEntry(ops, Max(mine)), issued + Max(mine))
            BY <1>3, <3>3
        <3> QED BY <1>1, <3>3, <3>4 DEF NumberedEntry
    <2> QED BY <2>2, <2>3
<1>8. \A i \in DOMAIN manifest : EntriesNumbered(manifest[i].ents, c)
    BY <1>1, EntriesNumberedMono DEF InOrder
<1>9. \A f \in flushes : EntriesNumbered(f.ents, c)
    BY <1>1, EntriesNumberedMono DEF InOrder
<1> HIDE DEF c, m
<1> QED BY <1>2, <1>5, <1>6, <1>7, <1>8, <1>9 DEF InOrder

\* A clean close or a kill loses no record.
LEMMA SurvivorsSame ==
    ASSUME NEW w, NEW l \in Nat, WalOK(w, l), NEW cur \in DOMAIN w, NEW kind \in {"close", "kill"},
           NEW s \in Survivors(w, cur, kind)
    PROVE  SameRecords(w, s) /\ WalOK(s, l)
<1>1. WalOK(s, l)
    BY SurvivorsOK
<1>2. CASE kind = "close"
    <2>1. s = Fsync(w, cur)
        BY <1>2 DEF Survivors
    <2> QED BY <1>1, <2>1, FsyncSame
<1>3. CASE kind = "kill"
    <2>1. s = w
        BY <1>3 DEF Survivors
    <2> QED BY <1>1, <2>1 DEF SameRecords
<1> QED BY <1>2, <1>3

\* The LSN counter recovered from a log that holds the last write.
LEMMA RecoveredLast ==
    ASSUME NEW s, NEW c \in Nat, WalOK(s, c), NEW cur, LogOK(s, cur, c), c \in Vals(s) \cup {0}
    PROVE  RecoveredLsn(s) = c
<1>1. RecoveredLsn(s) \in Nat /\ WalOK(s, RecoveredLsn(s))
    BY RecoveredOK
<1>2. \A n \in DOMAIN s : \A i \in DOMAIN s[n].recs : s[n].recs[i].entry.lsn <= RecoveredLsn(s)
    BY <1>1 DEF WalOK, FileOK
<1>3. c <= RecoveredLsn(s)
    <2>1. CASE c = 0
        BY <1>1, <2>1
    <2>2. CASE c \in Vals(s)
        <3>1. PICK n \in DOMAIN s : \E i \in DOMAIN s[n].recs : s[n].recs[i].entry.val = c
            BY <2>2, ValsIff
        <3>2. PICK i \in DOMAIN s[n].recs : s[n].recs[i].entry.val = c
            BY <3>1
        <3>3. s[n].recs[i].entry.lsn = c
            BY <3>2 DEF LogOK, RecordsNumbered, NumberedEntry
        <3> QED BY <1>2, <3>3
    <2> QED BY <2>1, <2>2
<1>4. RecoveredLsn(s) <= c
    <2> DEFINE S == Lsns(s) \cup {0}
    <2>1. \A x \in S : x \in Nat /\ x <= c
        BY RecordOf DEF WalOK, FileOK, Record, Entry, Lsns
    <2>2. RecoveredLsn(s) = Max(S) /\ S # {}
        BY DEF RecoveredLsn
    <2> HIDE DEF S
    <2>3. Max(S) \in S
        BY <2>1, <2>2, MaxExists
    <2> QED BY <2>1, <2>2, <2>3
<1> QED BY <1>1, <1>3, <1>4

\* What Engine::open makes of a log that holds the last write.
LEMMA OpenLog ==
    ASSUME NEW s, NEW c \in Nat, WalOK(s, c), NEW cur, LogOK(s, cur, c), c \in Vals(s) \cup {0},
           NEW segs, Open(s, segs), NEW h
    PROVE  /\ lsn_counter' = c
           /\ LogOK(wal', current_wal', c)
           /\ EndsHistory(s, c) => EndsHistory(wal', c)
           /\ RecordsOf(s, h) => RecordsOf(wal', h)
           /\ Vals(wal') = Vals(s)
<1> DEFINE last == Max(DOMAIN s)
           name == NextWalPath(RecoveredLsn(s) + 1)
<1>1. RecoveredLsn(s) = c /\ name = c + 1
    BY RecoveredLast DEF NextWalPath
<1>2. /\ lsn_counter' = c
      /\ \/ wal' = s /\ current_wal' = last
         \/ name \notin DOMAIN s /\ wal' = Create(s, name) /\ current_wal' = name
    BY <1>1 DEF Open
<1>3. last \in DOMAIN s /\ \A n \in DOMAIN s : n <= last
    <2>1. DOMAIN s \in SUBSET Nat /\ \E b \in DOMAIN s : \A n \in DOMAIN s : n <= b
        BY DEF WalOK, HasLast
    <2>2. PICK b \in DOMAIN s : \A n \in DOMAIN s : n <= b
        BY <2>1
    <2> QED BY <2>1, <2>2, MaxExists
<1> HIDE DEF last
<1>4. LogOK(s, last, c)
    <2>1. RecordsNumbered(s, last, c)
        BY <1>3 DEF LogOK, RecordsNumbered
    <2> QED BY <2>1 DEF LogOK
<1>5. c + 1 \in c..(c + 1) /\ c + 1 \in Nat
    OBVIOUS
<1>6. ASSUME name \notin DOMAIN s
      PROVE  /\ LogOK(Create(s, name), name, c)
             /\ EndsHistory(s, c) => EndsHistory(Create(s, name), c)
             /\ RecordsOf(s, h) => RecordsOf(Create(s, name), h)
             /\ Vals(Create(s, name)) = Vals(s)
    BY <1>1, <1>5, <1>6, NewFileOK
<1> HIDE DEF name
<1> QED BY <1>2, <1>4, <1>6

\* A restart before the first flush that loses no record.
LEMMA RestartOrder ==
    ASSUME NEW kind \in {"close", "kill"}, NEW c \in Nat, NEW w, WalOK(w, c), NEW cur \in DOMAIN w,
           LogOK(w, cur, c), c \in Vals(w) \cup {0}, NEW h, NEW d,
           Restart(kind, w, cur, <<>>, h, d), issued' = c
    PROVE  InOrder'
<1>1. PICK s \in Survivors(w, cur, kind) : Open(s, <<>>)
    BY DEF Restart
<1>2. SameRecords(w, s) /\ WalOK(s, c)
    BY SurvivorsSame
<1>3. LogOK(s, cur, c) /\ Vals(s) = Vals(w)
    BY <1>2, SameRecordsOK
<1>4. lsn_counter' = c /\ LogOK(wal', current_wal', c) /\ Vals(wal') = Vals(s)
    BY <1>1, <1>2, <1>3, OpenLog
<1>5. memtable' = Replay(s) /\ manifest' = <<>> /\ flushes' = {}
    BY <1>1 DEF Open
<1>6. EntriesNumbered(Replay(s), c)
    <2> SUFFICES ASSUME NEW k \in Keys, Replay(s)[k] # NoEntry PROVE NumberedEntry(Replay(s)[k], c)
        BY Zenon DEF EntriesNumbered
    <2>1. \E n \in DOMAIN s : \E i \in DOMAIN s[n].recs : s[n].recs[i] = [key |-> k, entry |-> Replay(s)[k]]
        BY <1>2, ReplayOK
    <2>2. PICK n \in DOMAIN s : \E i \in DOMAIN s[n].recs : s[n].recs[i] = [key |-> k, entry |-> Replay(s)[k]]
        BY <2>1
    <2>3. PICK i \in DOMAIN s[n].recs : s[n].recs[i] = [key |-> k, entry |-> Replay(s)[k]]
        BY <2>2
    <2>4. s[n].recs[i].entry = Replay(s)[k]
        BY <2>3
    <2>5. NumberedEntry(s[n].recs[i].entry, c)
        BY <1>3 DEF LogOK, RecordsNumbered
    <2> QED BY <2>4, <2>5
<1> QED BY <1>3, <1>4, <1>5, <1>6 DEF InOrder

\* Every step keeps the writes in order until the state is disturbed.
LEMMA NextOrder == OrderInv /\ [Next]_vars => OrderInv'
<1> SUFFICES ASSUME IInv, Undisturbed => InOrder, [Next]_vars, Undisturbed' PROVE InOrder'
    BY NextIInv DEF OrderInv
<1> DEFINE Here == restarts' = restarts /\ (manifest' = <<>> => manifest = <<>>)
<1>a. ASSUME Here PROVE InOrder
    BY <1>a DEF Undisturbed
<1>b. ASSUME restarts' = restarts + 1, manifest' = <<>> => manifest = <<>>
      PROVE  InOrder /\ manifest' = <<>> /\ CrashKinds \subseteq {"close", "kill"}
    BY <1>b, StateFacts DEF Undisturbed
<1> HIDE DEF Here
<1>c. ASSUME InOrder
      PROVE  /\ lsn_counter = issued /\ issued \in Nat /\ current_wal \in DOMAIN wal /\ WalOK(wal, issued)
             /\ LogOK(wal, current_wal, issued)
             /\ EntriesNumbered(memtable, issued)
             /\ \A i \in DOMAIN manifest : EntriesNumbered(manifest[i].ents, issued)
             /\ \A f \in flushes : EntriesNumbered(f.ents, issued)
             /\ manifest = <<>> => issued \in Vals(wal) \cup {0}
    BY <1>c, StateFacts DEF InOrder
<1>1. CASE UNCHANGED vars
    <2>1. UNCHANGED <<wal, current_wal, lsn_counter, memtable, manifest, flushes, restarts, issued>>
        BY <1>1 DEF vars, walVars, segVars, auxVars
    <2>2. InOrder
        BY <2>1, <1>a DEF Here
    <2> QED BY <2>1, <2>2 DEF InOrder
<1>2. CASE \E k \in Keys : put(k) \/ put_with_ttl(k) \/ delete(k)
    <2>1. PICK k \in Keys, op \in Op, auto \in BOOLEAN : WriteEntry(k, op, auto)
        BY <1>2 DEF put, put_with_ttl, delete, Op
    <2>2. restarts' = restarts /\ (manifest' = manifest \/ \E g : manifest' = Append(manifest, g))
        BY <2>1, Zenon DEF WriteEntry, Apply, FlushAll
    <2>3. Here
        BY <2>2, StateFacts DEF Here
    <2> QED BY <1>a, <2>1, <2>3, WriteOrder
<1>3. CASE flush
    <2>1. /\ wal' = Fsync(wal, current_wal)
          /\ UNCHANGED <<current_wal, lsn_counter, memtable, manifest, flushes, restarts, issued>>
        BY <1>3 DEF flush, segVars
    <2>2. InOrder
        BY <2>1, <1>a DEF Here
    <2>3. SameRecords(wal, wal')
        BY <2>1, <2>2, <1>c, FsyncSame
    <2>4. LogOK(wal', current_wal, issued) /\ Vals(wal') = Vals(wal)
        BY <2>2, <2>3, <1>c, SameRecordsOK
    <2> QED BY <2>1, <2>2, <2>4, <1>c DEF InOrder
<1>4. CASE \E ops \in Batches : commit_transaction(ops)
    <2>1. PICK ops \in Batches : commit_transaction(ops)
        BY <1>4
    <2>2. Here
        BY <2>1 DEF commit_transaction, segVars, Here
    <2> QED BY <1>a, <2>1, <2>2, CommitOrder
<1>5. CASE flush_to_segments
    <2>1. /\ Live(memtable) # {} /\ FlushAll(memtable, wal, current_wal, hist)
          /\ UNCHANGED <<current_wal, flushes, lsn_counter, issued, restarts>>
          /\ \E g : manifest' = Append(manifest, g)
        BY <1>5, Zenon DEF flush_to_segments, FlushAll
    <2>2. InOrder
        BY <2>1, <1>a, StateFacts DEF Here
    <2>3. MemOK(memtable, issued) /\ hist \in Seq(HistEntry)
        BY <2>2, <1>c, StateFacts
    <2> QED BY <2>1, <2>2, <2>3, <1>c, FlushAllOrder, Zenon
<1>6. CASE begin_flush
    <2>1. /\ flushes' = flushes \cup {PrepareFlush(memtable, next_segment_id, hist)}
          /\ UNCHANGED <<wal, current_wal, lsn_counter, memtable, manifest, restarts, issued>>
        BY <1>6 DEF begin_flush, walVars, auxVars
    <2>2. InOrder
        BY <2>1, <1>a DEF Here
    <2>3. PrepareFlush(memtable, next_segment_id, hist).ents = memtable
        BY DEF PrepareFlush
    <2>4. \A f \in flushes' : EntriesNumbered(f.ents, issued)
        BY <2>1, <2>2, <2>3, <1>c
    <2> QED BY <2>1, <2>2, <2>4, <1>c DEF InOrder
<1>7. CASE \E work \in flushes : finalize_flush(work) \/ abort_flush(work)
    <2>1. PICK work \in flushes : finalize_flush(work) \/ abort_flush(work)
        BY <1>7
    <2>2. CASE finalize_flush(work)
        <3>1. /\ manifest' = Append(manifest, Execute(work))
              /\ memtable' = Remaining(memtable, work.flushed_max_lsn)
              /\ wal' = RetireOthers(wal, current_wal)
              /\ flushes' = flushes \ {work}
              /\ UNCHANGED <<current_wal, lsn_counter, restarts, issued>>
            BY <2>2 DEF finalize_flush
        <3>2. InOrder
            BY <3>1, <1>a, StateFacts DEF Here
        <3>3. manifest \in Seq(Segment) /\ Execute(work) \in Segment /\ Execute(work).ents = work.ents
            BY StateFacts DEF Execute, Segment, FlushWork
        <3>4. EntriesNumbered(Execute(work).ents, issued)
            BY <3>2, <3>3, <1>c
        <3>5. /\ \A i \in DOMAIN manifest' : EntriesNumbered(manifest'[i].ents, issued)
              /\ manifest' # <<>>
            BY <3>1, <3>2, <3>3, <3>4, <1>c, RegisterOrder
        <3>6. LogOK(wal', current_wal, issued)
            BY <3>1, <3>2, <1>c, RetireOrder
        <3>7. EntriesNumbered(memtable', issued)
            BY <3>1, <3>2, <1>c DEF EntriesNumbered, Remaining
        <3> QED BY <3>1, <3>2, <3>5, <3>6, <3>7, <1>c DEF InOrder
    <2>3. CASE abort_flush(work)
        <3>1. /\ flushes' = flushes \ {work}
              /\ UNCHANGED <<wal, current_wal, lsn_counter, memtable, manifest, restarts, issued>>
            BY <2>3 DEF abort_flush, walVars, auxVars
        <3>2. InOrder
            BY <3>1, <1>a DEF Here
        <3> QED BY <3>1, <3>2 DEF InOrder
    <2> QED BY <2>1, <2>2, <2>3
<1>8. CASE \E kind \in CrashKinds : Reopen(kind)
    <2>1. PICK kind \in CrashKinds : Reopen(kind)
        BY <1>8
    <2>2. Restart(kind, wal, current_wal, manifest, hist, durable) /\ issued' = issued
        BY <2>1 DEF Reopen
    <2>3. restarts' = restarts + 1 /\ manifest' = manifest
        BY <2>2 DEF Restart, Open
    <2>4. InOrder /\ manifest = <<>> /\ kind \in {"close", "kill"}
        BY <2>1, <2>3, <1>b
    <2> QED BY <2>2, <2>4, <1>c, RestartOrder
<1>9. CASE \E kind \in CrashKinds \ {"close"}, ops \in Batches :
              \E j \in DOMAIN ops : CrashInCommit(kind, ops, j)
    <2>1. PICK kind \in CrashKinds, ops \in Batches : \E j \in DOMAIN ops : CrashInCommit(kind, ops, j)
        BY <1>9
    <2>2. PICK j \in DOMAIN ops : CrashInCommit(kind, ops, j)
        BY <2>1
    <2> DEFINE w == LogBatch(wal, current_wal, ops, j)
               c == issued + j
    <2>3. /\ Restart(kind, w, current_wal, manifest, HistBatch(ops, j), durable)
          /\ issued' = c
        BY <2>2 DEF CrashInCommit
    <2>4. restarts' = restarts + 1 /\ manifest' = manifest
        BY <2>3 DEF Restart, Open
    <2>5. InOrder /\ manifest = <<>> /\ kind \in {"close", "kill"}
        BY <2>1, <2>4, <1>b
    <2>6. j \in 0..Len(ops) /\ c \in Nat
        BY <2>5, <1>c, BatchFacts
    <2>7. LogOK(w, current_wal, c) /\ c \in Vals(w) \cup {0} /\ WalOK(w, c) /\ current_wal \in DOMAIN w
        BY <2>5, <2>6, <1>c, BatchOrder
    <2> HIDE DEF w, c
    <2> QED BY <2>3, <2>5, <2>6, <2>7, RestartOrder
<1>10. CASE \E kind \in CrashKinds \ {"close"} :
              \E work \in FlushableWork, cut \in DOMAIN wal : CrashInFinalize(kind, work, cut)
    <2>1. PICK kind \in CrashKinds, work \in FlushableWork, cut \in DOMAIN wal : CrashInFinalize(kind, work, cut)
        BY <1>10
    <2>2. restarts' = restarts + 1 /\ manifest' = Append(manifest, Execute(work))
        BY <2>1 DEF CrashInFinalize, Restart, Open
    <2>3. manifest' # <<>> /\ restarts' # 0
        BY <2>2, StateFacts
    <2> QED BY <2>3 DEF Undisturbed
<1> QED BY <1>1, <1>2, <1>3, <1>4, <1>5, <1>6, <1>7, <1>8, <1>9, <1>10 DEF Next

LEMMA InitOrder == Init => OrderInv
<1> SUFFICES ASSUME Init PROVE OrderInv
    OBVIOUS
<1>1. IInv
    BY InitIInv
<1>2. /\ lsn_counter = 0 /\ issued = 0 /\ current_wal = 0 /\ DOMAIN wal = {0} /\ wal[0].recs = <<>>
      /\ memtable = EmptyMem /\ manifest = <<>> /\ flushes = {}
    BY DEF Init, NewWal
<1>3. LogOK(wal, 0, 0)
    BY <1>2 DEF LogOK, RecordsNumbered, NamesBelow, RecordsOrdered
<1>4. EntriesNumbered(memtable, 0)
    BY <1>2 DEF EntriesNumbered, EmptyMem
<1> QED BY <1>1, <1>2, <1>3, <1>4 DEF OrderInv, InOrder
-----------------------------------------------------------------------------
(***************************************************************************)
(* The results.                                                            *)
(***************************************************************************)
\* File-name order is the order of the writes, whatever number of flushes is in
\* flight: recovery.rs may take one for the other until the engine has flushed
\* and been opened again, or has lost records.
THEOREM NamesChronological == Spec => [](Undisturbed => WalNamesChronological)
<1>1. OrderInv => (Undisturbed => WalNamesChronological)
    <2> SUFFICES ASSUME OrderInv, Undisturbed PROVE WalNamesChronological
        OBVIOUS
    <2>1. RecordsOrdered(wal)
        BY DEF OrderInv, InOrder, LogOK
    <2> QED BY <2>1 DEF RecordsOrdered, WalNamesChronological
<1> QED BY InitOrder, NextOrder, <1>1, PTL DEF Spec

\* An entry written later has the higher LSN, for as long.
THEOREM LsnsMonotonic == Spec => [](Undisturbed => LsnMonotonic)
<1>1. OrderInv => (Undisturbed => LsnMonotonic)
    <2> SUFFICES ASSUME OrderInv, Undisturbed, NEW k \in Keys, NEW i \in DOMAIN manifest,
                        memtable[k] # NoEntry, manifest[i].ents[k] # NoEntry,
                        memtable[k].val > manifest[i].ents[k].val
                 PROVE  memtable[k].lsn > manifest[i].ents[k].lsn
        BY DEF LsnMonotonic
    <2>1. NumberedEntry(memtable[k], issued) /\ NumberedEntry(manifest[i].ents[k], issued)
        BY DEF OrderInv, InOrder, EntriesNumbered
    <2> QED BY <2>1 DEF NumberedEntry
<1> QED BY InitOrder, NextOrder, <1>1, PTL DEF Spec
-----------------------------------------------------------------------------
(***************************************************************************)
(* What DurableStore lets a read of k return after history h.              *)
(***************************************************************************)
\* The number of the last applied write of k.
LastOf(h, k) == Max(Store!Applied(h, k) \cup {0})

LEMMA LastFacts ==
    ASSUME NEW h \in Seq(HistEntry), NEW k
    PROVE  /\ LastOf(h, k) \in Nat
           /\ LastOf(h, k) # 0 => /\ LastOf(h, k) \in DOMAIN h
                                  /\ h[LastOf(h, k)].key = k /\ h[LastOf(h, k)].applied
           /\ \A i \in DOMAIN h : h[i].key = k /\ h[i].applied => i <= LastOf(h, k)
<1> DEFINE A == {i \in DOMAIN h : h[i].key = k /\ h[i].applied}
           S == A \cup {0}
<1>1. Store!Applied(h, k) = A
    BY DEF Store!Applied
<1>2. LastOf(h, k) = Max(S)
    BY <1>1 DEF LastOf
<1>3. S \in SUBSET Nat /\ S # {} /\ Len(h) \in Nat /\ \A x \in S : x <= Len(h)
    OBVIOUS
<1>4. Max(S) \in S /\ \A y \in S : y <= Max(S)
    <2> HIDE DEF S
    <2> QED BY <1>3, MaxExists
<1> QED BY <1>2, <1>3, <1>4

\* Its value, or that of a failed write that came after it.
LEMMA OutcomesIff ==
    ASSUME NEW h, NEW k, NEW x
    PROVE  x \in Store!Outcomes(h, k) <=>
             \/ x = IF LastOf(h, k) = 0 THEN Absent ELSE Store!Visible(h[LastOf(h, k)])
             \/ \E j \in DOMAIN h : j > LastOf(h, k) /\ h[j].key = k /\ x = Store!Visible(h[j])
BY DEF Store!Outcomes, LastOf, Store!Max, Max

\* g is history h with more writes at its end.
Extension(h, g) ==
    /\ h \in Seq(HistEntry) /\ g \in Seq(HistEntry)
    /\ Len(h) <= Len(g)
    /\ \A i \in DOMAIN h : g[i] = h[i]

\* The applied writes of k that g adds to h.
News(h, g, k) == {i \in Store!Applied(g, k) : i > Len(h)}

LEMMA NewsFacts ==
    ASSUME NEW h, NEW g, Extension(h, g), NEW k
    PROVE  /\ \A i : i \in News(h, g, k) <=> i \in DOMAIN g /\ g[i].key = k /\ g[i].applied /\ i > Len(h)
           /\ News(h, g, k) # {} => /\ Max(News(h, g, k)) \in News(h, g, k)
                                    /\ \A i \in News(h, g, k) : i <= Max(News(h, g, k))
<1>1. \A i : i \in News(h, g, k) <=> i \in DOMAIN g /\ g[i].key = k /\ g[i].applied /\ i > Len(h)
    BY DEF News, Store!Applied
<1>2. News(h, g, k) \in SUBSET Nat /\ Len(g) \in Nat /\ \A i \in News(h, g, k) : i <= Len(g)
    BY <1>1 DEF Extension
<1> QED BY <1>1, <1>2, MaxExists

\* Writes that leave k alone, or fail, leave its value possible.
LEMMA OutcomesKept ==
    ASSUME NEW h, NEW g, Extension(h, g), NEW k, News(h, g, k) = {}, NEW x \in Store!Outcomes(h, k)
    PROVE  x \in Store!Outcomes(g, k)
<1>1. \A i \in DOMAIN g : ~(g[i].key = k /\ g[i].applied /\ i > Len(h))
    BY NewsFacts
<1>2. /\ Len(h) \in Nat /\ Len(g) \in Nat /\ DOMAIN h = 1..Len(h) /\ DOMAIN g = 1..Len(g)
      /\ \A i \in DOMAIN h : i \in DOMAIN g /\ g[i] = h[i]
      /\ h \in Seq(HistEntry) /\ g \in Seq(HistEntry)
    BY DEF Extension
<1>3. Store!Applied(g, k) = Store!Applied(h, k)
    BY <1>1, <1>2 DEF Store!Applied
<1>4. LastOf(g, k) = LastOf(h, k)
    BY <1>3 DEF LastOf
<1>5. LastOf(h, k) # 0 => g[LastOf(h, k)] = h[LastOf(h, k)]
    BY <1>2, LastFacts
<1>6. CASE x = IF LastOf(h, k) = 0 THEN Absent ELSE Store!Visible(h[LastOf(h, k)])
    <2>1. x = IF LastOf(g, k) = 0 THEN Absent ELSE Store!Visible(g[LastOf(g, k)])
        BY <1>4, <1>5, <1>6
    <2> QED BY <2>1, OutcomesIff
<1>7. CASE \E j \in DOMAIN h : j > LastOf(h, k) /\ h[j].key = k /\ x = Store!Visible(h[j])
    <2>1. PICK j \in DOMAIN h : j > LastOf(h, k) /\ h[j].key = k /\ x = Store!Visible(h[j])
        BY <1>7
    <2>2. j \in DOMAIN g /\ j > LastOf(g, k) /\ g[j].key = k /\ x = Store!Visible(g[j])
        BY <1>2, <1>4, <2>1
    <2> QED BY <2>2, OutcomesIff
<1> QED BY <1>6, <1>7, OutcomesIff

\* The last applied write of k is a possible value.
LEMMA OutcomesNew ==
    ASSUME NEW h, NEW g, Extension(h, g), NEW k, News(h, g, k) # {}
    PROVE  Store!Visible(g[Max(News(h, g, k))]) \in Store!Outcomes(g, k)
<1> DEFINE m == Max(News(h, g, k))
<1>1. /\ \A i : i \in News(h, g, k) <=> i \in DOMAIN g /\ g[i].key = k /\ g[i].applied /\ i > Len(h)
      /\ m \in News(h, g, k) /\ \A i \in News(h, g, k) : i <= m
    BY NewsFacts
<1>2. g \in Seq(HistEntry) /\ Len(h) \in Nat /\ Len(g) \in Nat /\ DOMAIN g = 1..Len(g)
    BY DEF Extension
<1> HIDE DEF m
<1>3. m \in DOMAIN g /\ m \in Nat /\ m > Len(h) /\ g[m].key = k /\ g[m].applied
    BY <1>1, <1>2
<1>4. /\ LastOf(g, k) \in Nat
      /\ LastOf(g, k) # 0 => LastOf(g, k) \in DOMAIN g /\ g[LastOf(g, k)].key = k /\ g[LastOf(g, k)].applied
      /\ \A i \in DOMAIN g : g[i].key = k /\ g[i].applied => i <= LastOf(g, k)
    BY <1>2, LastFacts
<1>5. m <= LastOf(g, k)
    BY <1>3, <1>4
<1>6. LastOf(g, k) \in News(h, g, k)
    BY <1>1, <1>2, <1>3, <1>4, <1>5
<1>7. LastOf(g, k) = m
    BY <1>1, <1>3, <1>4, <1>5, <1>6
<1>8. Store!Visible(g[m]) = IF LastOf(g, k) = 0 THEN Absent ELSE Store!Visible(g[LastOf(g, k)])
    BY <1>2, <1>3, <1>7
<1> QED BY <1>8, OutcomesIff DEF m
-----------------------------------------------------------------------------
(***************************************************************************)
(* Reads.                                                                  *)
(***************************************************************************)
\* The entry a read finds gives the value its write made visible.
ValueOf(e) == IF e = NoEntry \/ e.op = "Delete" THEN Absent ELSE e.val

HasRecord(w, k) == \E n \in DOMAIN w : \E i \in DOMAIN w[n].recs : w[n].recs[i].key = k

\* Positions as records.
LEMMA PositionsIff ==
    ASSUME NEW w, NEW k, NEW p
    PROVE  p \in Positions(w, k) <=>
             \E n \in DOMAIN w : \E i \in DOMAIN w[n].recs : p = <<n, i>> /\ w[n].recs[i].key = k
BY DEF Positions

\* A key without records stays empty at replay.
LEMMA ReplayNone ==
    ASSUME NEW w, NEW k \in Keys, ~HasRecord(w, k)
    PROVE  Replay(w)[k] = NoEntry
<1>1. \A p : p \notin Positions(w, k)
    BY PositionsIff DEF HasRecord
<1> QED BY <1>1, Zenon DEF Replay

\* A key with records gets the one written last.
LEMMA ReplayLast ==
    ASSUME NEW w, NEW c \in Nat, NEW cur, WalOK(w, c), LogOK(w, cur, c), NEW k \in Keys, HasRecord(w, k)
    PROVE  \E n \in DOMAIN w : \E i \in DOMAIN w[n].recs :
              /\ w[n].recs[i].key = k /\ Replay(w)[k] = w[n].recs[i].entry
              /\ \A m \in DOMAIN w : \A j \in DOMAIN w[m].recs :
                    w[m].recs[j].key = k => w[m].recs[j].entry.val <= w[n].recs[i].entry.val
<1> DEFINE Mine == {v \in 1..c : \E n \in DOMAIN w : \E i \in DOMAIN w[n].recs :
                                    w[n].recs[i].key = k /\ w[n].recs[i].entry.val = v}
           top == Max(Mine)
<1>1. /\ \A n \in DOMAIN w : n \in Nat
      /\ \A n \in DOMAIN w : \A i \in DOMAIN w[n].recs : i \in Nat
      /\ \A n \in DOMAIN w : \A i \in DOMAIN w[n].recs : w[n].recs[i].entry.val \in 1..c
    BY DEF WalOK, FileOK, WalFile, LogOK, RecordsNumbered, NumberedEntry
<1>2. Mine # {}
    <2>1. PICK n \in DOMAIN w : \E i \in DOMAIN w[n].recs : w[n].recs[i].key = k
        BY DEF HasRecord
    <2>2. PICK i \in DOMAIN w[n].recs : w[n].recs[i].key = k
        BY <2>1
    <2>3. w[n].recs[i].entry.val \in Mine
        BY <1>1, <2>2
    <2> QED BY <2>3
<1>3. top \in Mine /\ \A v \in Mine : v <= top
    <2>1. Mine \in SUBSET Nat /\ \A v \in Mine : v <= c
        OBVIOUS
    <2> HIDE DEF Mine
    <2> QED BY <1>2, <2>1, MaxExists
<1>4. PICK n \in DOMAIN w : \E i \in DOMAIN w[n].recs :
         w[n].recs[i].key = k /\ w[n].recs[i].entry.val = top
    BY <1>3
<1>5. PICK i \in DOMAIN w[n].recs : w[n].recs[i].key = k /\ w[n].recs[i].entry.val = top
    BY <1>4
<1>6. \A m \in DOMAIN w : \A j \in DOMAIN w[m].recs :
         w[m].recs[j].key = k => w[m].recs[j].entry.val \in Mine
    BY <1>1
<1> HIDE DEF Mine, top
<1>7. \A m \in DOMAIN w : \A j \in DOMAIN w[m].recs :
         w[m].recs[j].key = k => w[m].recs[j].entry.val <= top
    BY <1>3, <1>6
<1>8. \A m \in DOMAIN w : \A j \in DOMAIN w[m].recs :
         w[m].recs[j].key = k => Precedes(<<m, j>>, <<n, i>>)
    <2> SUFFICES ASSUME NEW m \in DOMAIN w, NEW j \in DOMAIN w[m].recs, w[m].recs[j].key = k,
                        ~(m < n \/ (m = n /\ j <= i))
                 PROVE  FALSE
        BY DEF Precedes
    <2>1. n < m \/ (n = m /\ i < j)
        BY <1>1
    <2>2. w[n].recs[i].entry.val < w[m].recs[j].entry.val
        BY <2>1 DEF LogOK, RecordsOrdered
    <2>3. w[m].recs[j].entry.val <= top
        BY <1>7
    <2> QED BY <1>1, <1>5, <2>2, <2>3
<1>9. IsLast(w, k, <<n, i>>)
    <2>1. <<n, i>> \in Positions(w, k)
        BY <1>5, PositionsIff
    <2>2. \A q \in Positions(w, k) : Precedes(q, <<n, i>>)
        BY <1>8, PositionsIff
    <2> QED BY <2>1, <2>2 DEF IsLast
<1>10. \A q \in Positions(w, k) : IsLast(w, k, q) => q = <<n, i>>
    <2> SUFFICES ASSUME NEW q \in Positions(w, k), IsLast(w, k, q) PROVE q = <<n, i>>
        OBVIOUS
    <2>1. PICK m \in DOMAIN w : \E j \in DOMAIN w[m].recs : q = <<m, j>>
        BY PositionsIff
    <2>2. PICK j \in DOMAIN w[m].recs : q = <<m, j>>
        BY <2>1
    <2>3. Precedes(<<n, i>>, <<m, j>>) /\ Precedes(<<m, j>>, <<n, i>>)
        BY <1>9, <2>2 DEF IsLast
    <2>4. n = m /\ i = j
        BY <1>1, <2>3 DEF Precedes
    <2> QED BY <2>2, <2>4
<1>11. (CHOOSE q \in Positions(w, k) : IsLast(w, k, q)) = <<n, i>>
    BY <1>9, <1>10 DEF IsLast
<1>12. Replay(w)[k] = w[n].recs[i].entry
    <2> DEFINE p == CHOOSE q \in Positions(w, k) : IsLast(w, k, q)
    <2>1. \E q \in Positions(w, k) : IsLast(w, k, q)
        BY <1>9 DEF IsLast
    <2>2. Replay(w)[k] = w[p[1]].recs[p[2]].entry
        BY <2>1 DEF Replay
    <2>3. p = <<n, i>>
        BY <1>11
    <2> HIDE DEF p
    <2>4. p[1] = n /\ p[2] = i
        BY <2>3
    <2> QED BY <2>2, <2>4
<1> QED BY <1>5, <1>7, <1>12

\* The WAL shows each key as its last write left it, if the segments do so for
\* the keys it does not hold.
LEMMA KillGet ==
    ASSUME NEW w, NEW c \in Nat, NEW cur, WalOK(w, c), LogOK(w, cur, c), EndsHistory(w, c),
           NEW h \in Seq(HistEntry), RecordsOf(w, h), Len(h) = c, NEW k \in Keys, NEW segs,
           ~HasRecord(w, k) => ValueOf(SegmentGet(segs, k)) \in Store!Outcomes(h, k)
    PROVE  Get(Replay(w), segs, k) \in Store!Outcomes(h, k)
<1>1. CASE ~HasRecord(w, k)
    <2>1. Replay(w)[k] = NoEntry
        BY <1>1, ReplayNone
    <2>2. Get(Replay(w), segs, k) = ValueOf(SegmentGet(segs, k))
        BY <2>1 DEF Get, GetEntry, ValueOf
    <2> QED BY <1>1, <2>2
<1>2. CASE HasRecord(w, k)
    <2>1. PICK n \in DOMAIN w : \E i \in DOMAIN w[n].recs :
              /\ w[n].recs[i].key = k /\ Replay(w)[k] = w[n].recs[i].entry
              /\ \A m \in DOMAIN w : \A j \in DOMAIN w[m].recs :
                    w[m].recs[j].key = k => w[m].recs[j].entry.val <= w[n].recs[i].entry.val
        BY <1>2, ReplayLast
    <2>2. PICK i \in DOMAIN w[n].recs :
              /\ w[n].recs[i].key = k /\ Replay(w)[k] = w[n].recs[i].entry
              /\ \A m \in DOMAIN w : \A j \in DOMAIN w[m].recs :
                    w[m].recs[j].key = k => w[m].recs[j].entry.val <= w[n].recs[i].entry.val
        BY <2>1
    <2> DEFINE e == w[n].recs[i].entry
               v == e.val
               last == LastOf(h, k)
    <2>3. e \in Entry /\ e # NoEntry
        <3>1. w[n].recs[i] \in Record
            BY RecordOf DEF WalOK, FileOK
        <3> QED BY <3>1, ConstantsAssumption DEF Record, Entry, Op
    <2>4. v \in DOMAIN h /\ h[v].key = k /\ h[v].op = e.op /\ h[v].val = e.val
        BY <2>2 DEF RecordsOf
    <2>5. v \in Vals(w) /\ v \in 1..c
        BY <2>2, ValsIff DEF LogOK, RecordsNumbered, NumberedEntry
    <2>6. Get(Replay(w), segs, k) = Store!Visible(h[v])
        BY <2>2, <2>3, <2>4 DEF Get, GetEntry, Store!Visible
    <2>7. /\ last \in Nat
          /\ last # 0 => last \in DOMAIN h /\ h[last].key = k /\ h[last].applied
        BY LastFacts
    <2> HIDE DEF v, e, last
    <2>8. ASSUME last > v PROVE FALSE
        <3>1. last \in DOMAIN h /\ h[last].key = k
            BY <2>5, <2>7, <2>8
        <3>2. last \in v..c
            BY <2>5, <2>8, <3>1
        <3>3. last \in Vals(w)
            BY <2>5, <3>2 DEF EndsHistory
        <3>4. PICK m \in DOMAIN w : \E j \in DOMAIN w[m].recs : w[m].recs[j].entry.val = last
            BY <3>3, ValsIff
        <3>5. PICK j \in DOMAIN w[m].recs : w[m].recs[j].entry.val = last
            BY <3>4
        <3>6. w[m].recs[j].key = k
            BY <3>1, <3>5 DEF RecordsOf
        <3>7. w[m].recs[j].entry.val <= v
            BY <2>2, <3>6 DEF v, e
        <3> QED BY <2>5, <2>7, <2>8, <3>5, <3>7
    <2>9. CASE last = v
        BY <2>5, <2>6, <2>9, OutcomesIff DEF last
    <2>10. CASE last # v
        <3>1. v > last
            BY <2>5, <2>7, <2>8, <2>10
        <3> QED BY <2>4, <2>6, <3>1, OutcomesIff DEF last
    <2> QED BY <2>9, <2>10
<1> QED BY <1>1, <1>2
-----------------------------------------------------------------------------
(***************************************************************************)
(* Steps of a running session: writes, fsyncs and flushes.                 *)
(***************************************************************************)
\* What Write of DurableStore says of a read before (x) and after (y).
ReadsOn(h, g, k, x, y) ==
    y = IF News(h, g, k) = {} THEN x ELSE Store!Visible(g[Max(News(h, g, k))])

LEMMA ReadsOnKeeps ==
    ASSUME NEW h, NEW g, Extension(h, g), NEW k, NEW x \in Store!Outcomes(h, k), NEW y, ReadsOn(h, g, k, x, y)
    PROVE  y \in Store!Outcomes(g, k)
<1>1. CASE News(h, g, k) = {}
    BY <1>1, OutcomesKept DEF ReadsOn
<1>2. CASE News(h, g, k) # {}
    BY <1>2, OutcomesNew DEF ReadsOn
<1> QED BY <1>1, <1>2

\* A step of Engine that adds writes to the history is a Write of DurableStore.
LEMMA WriteRefines ==
    ASSUME Extension(hist, hist'), Len(hist) < Len(hist'), durable' \in durable..Len(hist'),
           \A k \in Keys : ReadsOn(hist, hist', k, Get(memtable, manifest, k), Get(memtable', manifest', k))
    PROVE  Store!Write
<1>1. /\ hist \in Seq(HistEntry) /\ hist' \in Seq(HistEntry) /\ Len(hist) \in Nat /\ Len(hist') \in Nat
      /\ \A i \in DOMAIN hist : hist'[i] = hist[i]
    BY DEF Extension
<1>2. SubSeq(hist', 1, Len(hist)) = hist
    <2> DEFINE s == SubSeq(hist', 1, Len(hist))
    <2>1. /\ s \in Seq(HistEntry) /\ Len(s) = Len(hist)
          /\ \A i \in 1..Len(hist) : s[i] = hist'[i]
        <3>1. \A i \in 1..Len(hist) : hist'[i] \in HistEntry
            BY <1>1
        <3> QED BY <1>1, <3>1, SubSeqProperties
    <2> HIDE DEF s
    <2>2. DOMAIN s = DOMAIN hist /\ \A i \in DOMAIN hist : s[i] = hist[i]
        BY <1>1, <2>1
    <2> QED BY <1>1, <2>1, <2>2 DEF s
<1>3. [k \in Keys |-> Get(memtable', manifest', k)] =
      [k \in Keys |->
          LET new == {i \in Store!Applied(hist', k) : i > Len(hist)} IN
          IF new = {} THEN [x \in Keys |-> Get(memtable, manifest, x)][k] ELSE Store!Visible(hist'[Max(new)])]
    <2> SUFFICES ASSUME NEW k \in Keys
                 PROVE  Get(memtable', manifest', k) =
                        LET new == {i \in Store!Applied(hist', k) : i > Len(hist)} IN
                        IF new = {} THEN Get(memtable, manifest, k) ELSE Store!Visible(hist'[Max(new)])
        BY Zenon
    <2> QED BY Zenon DEF ReadsOn, News
<1> QED BY <1>1, <1>2, <1>3 DEF Store!Write, Store!Max, Max

\* The newest segment is asked first.
LEMMA SegmentGetAppend ==
    ASSUME NEW segs \in Seq(Segment), NEW g \in Segment, NEW k \in Keys
    PROVE  SegmentGet(Append(segs, g), k) = IF g.ents[k] # NoEntry THEN g.ents[k] ELSE SegmentGet(segs, k)
<1> DEFINE t == Append(segs, g)
           old == {i \in DOMAIN segs : segs[i].ents[k] # NoEntry}
           new == {i \in DOMAIN t : t[i].ents[k] # NoEntry}
           b == Len(segs) + 1
<1>1. /\ Len(segs) \in Nat /\ b \in Nat /\ DOMAIN segs = 1..Len(segs) /\ DOMAIN t = 1..b
      /\ \A i \in DOMAIN segs : t[i] = segs[i]
      /\ t[b] = g
    OBVIOUS
<1>2. /\ SegmentGet(segs, k) = IF old = {} THEN NoEntry ELSE segs[Max(old)].ents[k]
      /\ SegmentGet(t, k) = IF new = {} THEN NoEntry ELSE t[Max(new)].ents[k]
    BY DEF SegmentGet
<1>3. CASE g.ents[k] # NoEntry
    <2>1. b \in new /\ new \in SUBSET Nat /\ \A i \in new : i <= b
        BY <1>1, <1>3
    <2>2. Max(new) \in new /\ b <= Max(new)
        <3> HIDE DEF new, b
        <3> QED BY <1>1, <2>1, MaxExists
    <2>3. Max(new) = b
        <3> HIDE DEF new, old, b, t
        <3>1. Max(new) \in Nat /\ Max(new) <= b
            BY <2>1, <2>2
        <3>2. b \in Nat
            BY <1>1
        <3> QED BY <2>2, <3>1, <3>2
    <2>4. new # {}
        BY <2>1
    <2> HIDE DEF new
    <2> QED BY <1>1, <1>2, <1>3, <2>3, <2>4
<1>4. CASE g.ents[k] = NoEntry
    <2>1. new = old
        BY <1>1, <1>4
    <2>2. old \in SUBSET Nat /\ \A i \in old : i <= Len(segs)
        BY <1>1
    <2>3. old # {} => Max(old) \in old
        <3> HIDE DEF old
        <3> QED BY <1>1, <2>2, MaxExists
    <2>4. old # {} => Max(old) \in DOMAIN segs
        BY <2>3
    <2> HIDE DEF new, old, t
    <2>5. old # {} => t[Max(old)] = segs[Max(old)]
        BY <1>1, <2>4
    <2>6. SegmentGet(t, k) = SegmentGet(segs, k)
        BY <1>2, <2>1, <2>5
    <2> QED BY <1>4, <2>6 DEF t
<1> QED BY <1>3, <1>4

\* A flush of memtable m changes no read.
LEMMA FlushReads ==
    ASSUME IInv, NEW l \in Nat, NEW m, MemOK(m, l), Live(m) # {},
           NEW w, WalOK(w, l), NEW cur \in DOMAIN w, NEW h \in Seq(HistEntry),
           FlushAll(m, w, cur, h), flushes' = flushes, NEW k \in Keys
    PROVE  Get(memtable', manifest', k) = Get(m, manifest, k)
<1> DEFINE g == [id |-> next_segment_id, ents |-> m]
<1>1. manifest' = Append(manifest, g) /\ memtable'[k] = NoEntry
    BY FlushAllOK, Zenon
<1>2. manifest \in Seq(Segment) /\ g \in Segment /\ g.ents = m
    BY StateFacts DEF Segment, MemOK
<1> HIDE DEF g
<1>3. SegmentGet(manifest', k) = IF m[k] # NoEntry THEN m[k] ELSE SegmentGet(manifest, k)
    BY <1>1, <1>2, SegmentGetAppend
<1>4. GetEntry(memtable', manifest', k) = GetEntry(m, manifest, k)
    BY <1>1, <1>3 DEF GetEntry
<1> QED BY <1>4 DEF Get

\* One more write in the history.
LEMMA HistAppend ==
    ASSUME NEW h \in Seq(HistEntry), NEW r \in HistEntry
    PROVE  /\ Extension(h, Append(h, r)) /\ Len(Append(h, r)) = Len(h) + 1
           /\ Append(h, r)[Len(h) + 1] = r
           /\ \A k : News(h, Append(h, r), k) = IF r.key = k /\ r.applied THEN {Len(h) + 1} ELSE {}
<1> DEFINE g == Append(h, r)
<1>1. /\ g \in Seq(HistEntry) /\ Len(g) = Len(h) + 1 /\ Len(h) \in Nat
      /\ DOMAIN g = 1..(Len(h) + 1) /\ DOMAIN h = 1..Len(h)
      /\ \A i \in DOMAIN h : g[i] = h[i]
      /\ g[Len(h) + 1] = r
    BY AppendProperties
<1> HIDE DEF g
<1>2. Extension(h, g)
    BY <1>1 DEF Extension
<1>3. ASSUME NEW k PROVE News(h, g, k) = IF r.key = k /\ r.applied THEN {Len(h) + 1} ELSE {}
    <2>1. \A i : i \in News(h, g, k) <=> i \in DOMAIN g /\ g[i].key = k /\ g[i].applied /\ i > Len(h)
        BY <1>2, NewsFacts
    <2>2. \A i : i \in DOMAIN g /\ i > Len(h) <=> i = Len(h) + 1
        BY <1>1
    <2>3. \A i : i \in News(h, g, k) <=> i = Len(h) + 1 /\ r.key = k /\ r.applied
        BY <1>1, <2>1, <2>2
    <2> QED BY <2>3
<1> QED BY <1>1, <1>2, <1>3 DEF g

\* The end of write_entry: the new write is what reads of its key show.
LEMMA ApplyRefines ==
    ASSUME IInv, NEW k \in Keys, NEW e \in Entry, lsn_counter <= e.lsn, NEW auto,
           NEW w, WalOK(w, e.lsn), NEW cur \in DOMAIN w, NEW d \in durable..(Len(hist) + 1),
           Apply(k, e, auto, w, cur, d), flushes' = flushes
    PROVE  Store!Write
<1> DEFINE m == Insert(memtable, k, e)
           r == HistRec(k, e, TRUE, 0)
           h == Append(hist, r)
<1>1. memtable \in MemEntries /\ MemOK(memtable, lsn_counter) /\ hist \in Seq(HistEntry) /\ e.lsn \in Nat
      /\ Len(hist) \in Nat /\ durable \in 0..Len(hist) /\ lsn_counter \in Nat
    BY StateFacts DEF TypeOK, Entry
<1>2. /\ hist' = h
      /\ \/ FlushAll(m, w, cur, h)
         \/ memtable' = m /\ manifest' = manifest /\ durable' = d
    BY DEF Apply
<1>3. r \in HistEntry /\ r.key = k /\ r.applied = TRUE /\ r.op = e.op /\ r.val = e.val
    BY DEF HistRec, HistEntry, Entry
<1>4. \A x \in Keys : m[x] = IF x = k THEN e ELSE memtable[x]
    BY <1>1 DEF Insert, MemEntries
<1>5. MemOK(m, e.lsn)
    <2>1. m \in MemEntries
        BY <1>1 DEF Insert, MemEntries
    <2>2. \A x \in Keys : memtable[x] # NoEntry => memtable[x].lsn \in Nat /\ memtable[x].lsn <= lsn_counter
        BY <1>1 DEF MemOK, MemEntries, Entry
    <2> HIDE DEF m
    <2> QED BY <1>1, <1>4, <2>1, <2>2 DEF MemOK
<1>6. e # NoEntry
    BY ConstantsAssumption DEF Entry, Op
<1> HIDE DEF m, r
<1>7. Live(m) # {}
    BY <1>4, <1>6 DEF Live
<1>8. /\ Extension(hist, h) /\ Len(h) = Len(hist) + 1 /\ h[Len(hist) + 1] = r
      /\ \A x : News(hist, h, x) = IF r.key = x /\ r.applied THEN {Len(hist) + 1} ELSE {}
    BY <1>1, <1>3, HistAppend
<1>9. h \in Seq(HistEntry)
    BY <1>8 DEF Extension
<1> HIDE DEF h
<1>10. \A x \in Keys : Get(memtable', manifest', x) = Get(m, manifest, x)
    <2> TAKE x \in Keys
    <2>1. CASE FlushAll(m, w, cur, h)
        BY <1>1, <1>5, <1>7, <1>9, <2>1, FlushReads, Zenon
    <2>2. CASE memtable' = m /\ manifest' = manifest
        BY <2>2
    <2> QED BY <1>2, <2>1, <2>2
<1>11. durable' \in durable..Len(h)
    <2>1. CASE FlushAll(m, w, cur, h)
        <3>1. durable' = Len(h)
            BY <2>1 DEF FlushAll
        <3> QED BY <1>1, <1>8, <3>1
    <2>2. CASE durable' = d
        BY <1>8, <2>2
    <2> QED BY <1>2, <2>1, <2>2
<1>12. \A x \in Keys : ReadsOn(hist, h, x, Get(memtable, manifest, x), Get(m, manifest, x))
    <2> TAKE x \in Keys
    <2>1. CASE x = k
        <3>1. Get(m, manifest, x) = Store!Visible(r)
            BY <1>3, <1>4, <1>6, <2>1 DEF Get, GetEntry, Store!Visible
        <3>2. News(hist, h, x) = {Len(hist) + 1}
            BY <1>3, <1>8, <2>1
        <3>3. Max({Len(hist) + 1}) = Len(hist) + 1
            BY <1>1 DEF Max
        <3> QED BY <1>8, <3>1, <3>2, <3>3 DEF ReadsOn
    <2>2. CASE x # k
        <3>1. News(hist, h, x) = {}
            BY <1>3, <1>8, <2>2
        <3>2. Get(m, manifest, x) = Get(memtable, manifest, x)
            BY <1>4, <2>2 DEF Get, GetEntry
        <3> QED BY <3>1, <3>2 DEF ReadsOn
    <2> QED BY <2>1, <2>2
<1> QED BY <1>1, <1>2, <1>8, <1>10, <1>11, <1>12, WriteRefines

\* put, put_with_ttl and delete.
LEMMA WriteEntryRefines ==
    ASSUME IInv, NEW k \in Keys, NEW op \in Op, NEW auto, WriteEntry(k, op, auto)
    PROVE  Store!Write
<1> DEFINE e == [op |-> op, lsn |-> lsn_counter + 1, val |-> issued + 1]
           r == HistRec(k, e, FALSE, 0)
           logged == Append1(wal, current_wal, k, e)
           synced == Fsync(logged, current_wal)
           name == NextWalPath(lsn_counter + 1)
           new == Create(synced, name)
<1>1. /\ e \in Entry /\ e.lsn = lsn_counter + 1 /\ lsn_counter <= e.lsn /\ e.lsn \in Nat /\ name \in Nat
    BY StateFacts DEF Entry, NextWalPath
<1>2. /\ flushes' = flushes
      /\ \/ Apply(k, e, auto, logged, current_wal, durable)
         \/ Apply(k, e, auto, new, name, Len(hist) + 1)
         \/ hist' = Append(hist, r) /\ durable' = Len(hist') /\ UNCHANGED <<memtable, manifest>>
    BY DEF WriteEntry
<1> HIDE DEF e, name
<1>3. WalOK(logged, e.lsn) /\ current_wal \in DOMAIN logged
    BY <1>1, StateFacts, Append1OK
<1> HIDE DEF logged
<1>4. WalOK(synced, e.lsn)
    BY <1>1, <1>3, FsyncOK
<1> HIDE DEF synced
<1>5. WalOK(new, e.lsn) /\ name \in DOMAIN new
    <2>1. WalOK(new, e.lsn) /\ DOMAIN new = DOMAIN synced \cup {name}
        BY <1>1, <1>4, CreateOK, Zenon
    <2> QED BY <2>1
<1> HIDE DEF new
<1>6. /\ durable \in durable..(Len(hist) + 1) /\ Len(hist) + 1 \in durable..(Len(hist) + 1)
      /\ hist \in Seq(HistEntry) /\ Len(hist) \in Nat /\ durable \in 0..Len(hist)
    BY StateFacts
<1>7. CASE Apply(k, e, auto, logged, current_wal, durable)
    BY <1>1, <1>2, <1>3, <1>6, <1>7, ApplyRefines, Zenon
<1>8. CASE Apply(k, e, auto, new, name, Len(hist) + 1)
    BY <1>1, <1>2, <1>5, <1>6, <1>8, ApplyRefines, Zenon
<1>9. CASE hist' = Append(hist, r) /\ durable' = Len(hist') /\ UNCHANGED <<memtable, manifest>>
    <2>1. r \in HistEntry /\ r.applied = FALSE
        BY <1>1 DEF HistRec, HistEntry, Entry
    <2> HIDE DEF r
    <2>2. /\ Extension(hist, hist') /\ Len(hist') = Len(hist) + 1
          /\ \A x : News(hist, hist', x) = {}
        BY <1>6, <1>9, <2>1, HistAppend
    <2>3. durable' \in durable..Len(hist')
        BY <1>6, <1>9, <2>2
    <2>4. \A x \in Keys : ReadsOn(hist, hist', x, Get(memtable, manifest, x), Get(memtable', manifest', x))
        BY <1>9, <2>2 DEF ReadsOn
    <2> QED BY <1>6, <2>2, <2>3, <2>4, WriteRefines
<1> QED BY <1>2, <1>7, <1>8, <1>9

\* The history with the first j writes of a batch.
LEMMA HistBatchFacts ==
    ASSUME IInv, NEW ops \in Batches, NEW j \in 0..Len(ops)
    PROVE  LET g == HistBatch(ops, j) IN
           /\ Extension(hist, g) /\ Len(g) = Len(hist) + j
           /\ \A i \in 1..j : LET r == g[Len(hist) + i] IN
                 /\ Len(hist) + i \in DOMAIN g
                 /\ r.key = ops[i].key /\ r.applied = TRUE /\ r.op = ops[i].op /\ r.val = issued + i
<1> DEFINE g == HistBatch(ops, j)
           t == [i \in 1..j |-> HistRec(ops[i].key, TxEntry(ops, i), TRUE, Len(ops) - i)]
<1>1. /\ j \in Nat /\ j <= Len(ops) /\ Len(ops) \in Nat /\ hist \in Seq(HistEntry) /\ Len(hist) \in Nat
    BY BatchFacts, StateFacts
<1>2. \A i \in 1..j : HistRec(ops[i].key, TxEntry(ops, i), TRUE, Len(ops) - i) \in HistEntry
    <2> TAKE i \in 1..j
    <2>1. TxEntry(ops, i) \in Entry /\ ops[i].key \in Keys /\ Len(ops) - i \in Nat
        BY <1>1, BatchFacts
    <2> QED BY <2>1 DEF HistRec, HistEntry, Entry
<1>3. t \in Seq(HistEntry) /\ Len(t) = j
    <2>1. t \in [1..j -> HistEntry]
        BY <1>2, Zenon
    <2> HIDE DEF t
    <2> QED BY <1>1, <2>1, SeqOfFunction
<1>4. \A i \in 1..j : /\ t[i].key = ops[i].key /\ t[i].applied = TRUE
                      /\ t[i].op = ops[i].op /\ t[i].val = issued + i
    BY DEF HistRec, TxEntry
<1>5. g = hist \o t
    BY DEF HistBatch
<1> HIDE DEF g, t
<1>6. /\ g \in Seq(HistEntry) /\ Len(g) = Len(hist) + j
      /\ \A i \in 1..(Len(hist) + j) : g[i] = IF i <= Len(hist) THEN hist[i] ELSE t[i - Len(hist)]
    BY <1>1, <1>3, <1>5, ConcatProperties
<1>7. Extension(hist, g)
    BY <1>1, <1>6 DEF Extension
<1>8. \A i \in 1..j : Len(hist) + i \in DOMAIN g /\ g[Len(hist) + i] = t[i]
    BY <1>1, <1>6
<1> QED BY <1>4, <1>6, <1>7, <1>8 DEF g

\* commit_transaction: the last write of each key in the batch is what reads show.
LEMMA CommitRefines ==
    ASSUME IInv, NEW ops \in Batches, commit_transaction(ops)
    PROVE  Store!Write \/ Store!Harden \/ UNCHANGED Store!vars
<1> DEFINE n == Len(ops)
           g == HistBatch(ops, n)
           m == InsertBatch(memtable, ops)
<1>1. /\ n \in Nat /\ DOMAIN ops = 1..n /\ n \in 0..n
      /\ hist \in Seq(HistEntry) /\ Len(hist) \in Nat /\ durable \in 0..Len(hist)
      /\ memtable \in MemEntries
    BY BatchFacts, StateFacts DEF TypeOK
<1>2. memtable' = m /\ hist' = g /\ durable' = Len(hist') /\ manifest' = manifest
    BY DEF commit_transaction, segVars
<1>3. /\ Extension(hist, g) /\ Len(g) = Len(hist) + n
      /\ \A i \in 1..n : LET r == g[Len(hist) + i] IN
            /\ Len(hist) + i \in DOMAIN g
            /\ r.key = ops[i].key /\ r.applied = TRUE /\ r.op = ops[i].op /\ r.val = issued + i
    BY <1>1, HistBatchFacts
<1> HIDE DEF g
<1>4. g \in Seq(HistEntry) /\ DOMAIN g = 1..(Len(hist) + n)
    BY <1>1, <1>3 DEF Extension
<1>5. ASSUME NEW k \in Keys PROVE ReadsOn(hist, g, k, Get(memtable, manifest, k), Get(m, manifest, k))
    <2> DEFINE mine == {i \in DOMAIN ops : ops[i].key = k}
    <2>1. m[k] = IF mine = {} THEN memtable[k] ELSE TxEntry(ops, Max(mine))
        BY DEF InsertBatch
    <2> HIDE DEF m
    <2>2. \A i : i \in News(hist, g, k) <=> i \in DOMAIN g /\ g[i].key = k /\ g[i].applied /\ i > Len(hist)
        BY <1>3, NewsFacts
    <2>3. \A i \in News(hist, g, k) : i - Len(hist) \in mine
        <3> TAKE i \in News(hist, g, k)
        <3>1. i \in 1..(Len(hist) + n) /\ g[i].key = k /\ i > Len(hist)
            BY <1>4, <2>2
        <3>2. i - Len(hist) \in 1..n /\ Len(hist) + (i - Len(hist)) = i
            BY <1>1, <3>1
        <3>3. g[Len(hist) + (i - Len(hist))].key = ops[i - Len(hist)].key
            BY <1>3, <3>2
        <3> QED BY <1>1, <3>1, <3>2, <3>3
    <2>4. \A i \in mine : Len(hist) + i \in News(hist, g, k)
        <3> TAKE i \in mine
        <3>1. i \in 1..n /\ ops[i].key = k
            BY <1>1
        <3>2. /\ Len(hist) + i \in DOMAIN g /\ g[Len(hist) + i].key = k /\ g[Len(hist) + i].applied = TRUE
              /\ Len(hist) + i > Len(hist)
            BY <1>1, <1>3, <3>1
        <3> QED BY <2>2, <3>2
    <2>5. CASE mine = {}
        <3>1. News(hist, g, k) = {}
            BY <2>3, <2>5
        <3>2. m[k] = memtable[k]
            BY <2>1, <2>5
        <3> QED BY <3>1, <3>2 DEF ReadsOn, Get, GetEntry
    <2>6. CASE mine # {}
        <3> DEFINE top == Max(mine)
                   last == Max(News(hist, g, k))
        <3>1. mine \in SUBSET Nat /\ mine \subseteq 1..n /\ \A i \in mine : i <= n
            BY <1>1
        <3>2. top \in mine /\ \A i \in mine : i <= top
            <4> HIDE DEF mine
            <4> QED BY <1>1, <2>6, <3>1, MaxExists
        <3>3. m[k] = TxEntry(ops, top) /\ top \in 1..n /\ ops[top].key = k
            BY <2>1, <2>6, <3>1, <3>2
        <3>4. News(hist, g, k) # {}
            BY <2>4, <2>6
        <3>5. last \in News(hist, g, k) /\ \A i \in News(hist, g, k) : i <= last
            BY <1>3, <3>4, NewsFacts
        <3> HIDE DEF top, last, mine, n
        <3>6. last = Len(hist) + top
            <4>1. Len(hist) + top \in News(hist, g, k) /\ last - Len(hist) \in mine
                BY <2>3, <2>4, <3>2, <3>5
            <4>2. Len(hist) + top <= last /\ last - Len(hist) <= top /\ last \in Nat /\ top \in Nat
                BY <1>1, <1>4, <2>2, <3>1, <3>2, <3>5, <4>1
            <4> QED BY <1>1, <4>2
        <3>7. g[last].op = ops[top].op /\ g[last].val = issued + top
            BY <1>3, <3>3, <3>6
        <3>8. m[k].op = ops[top].op /\ m[k].val = issued + top /\ m[k] # NoEntry
            <4>1. TxEntry(ops, top) \in Entry
                BY <1>1, <3>3, BatchFacts
            <4>2. TxEntry(ops, top) # NoEntry
                BY <4>1, ConstantsAssumption DEF Entry, Op
            <4> QED BY <3>3, <4>2 DEF TxEntry
        <3>9. Get(m, manifest, k) = Store!Visible(g[last])
            BY <3>7, <3>8 DEF Get, GetEntry, Store!Visible
        <3> QED BY <3>4, <3>9 DEF ReadsOn, last
    <2> QED BY <2>5, <2>6
<1>6. CASE n = 0
    <2>1. g = hist
        <3>1. Len(g) = Len(hist) /\ DOMAIN g = DOMAIN hist /\ \A i \in DOMAIN hist : g[i] = hist[i]
            BY <1>1, <1>3, <1>4, <1>6 DEF Extension
        <3> QED BY <1>1, <1>4, <3>1
    <2>2. \A k \in Keys : Get(m, manifest, k) = Get(memtable, manifest, k)
        <3> TAKE k \in Keys
        <3>1. m[k] = memtable[k]
            BY <1>1, <1>6 DEF InsertBatch
        <3> QED BY <3>1 DEF Get, GetEntry
    <2> HIDE DEF m
    <2>3. [k \in Keys |-> Get(memtable', manifest', k)] = [k \in Keys |-> Get(memtable, manifest, k)]
        BY <1>2, <2>2
    <2>4. durable' = durable \/ durable' \in (durable + 1)..Len(hist)
        BY <1>1, <1>2, <2>1
    <2> QED BY <1>2, <2>1, <2>3, <2>4 DEF Store!Harden, Store!vars
<1>7. CASE n # 0
    <2>1. Len(hist) < Len(g) /\ durable' \in durable..Len(g)
        BY <1>1, <1>2, <1>3, <1>7
    <2> HIDE DEF m
    <2> QED BY <1>2, <1>3, <1>5, <2>1, WriteRefines
<1> QED BY <1>6, <1>7
-----------------------------------------------------------------------------
(***************************************************************************)
(* The WAL holds the end of the history.                                   *)
(***************************************************************************)
\* WAL files w hold the end of history h.
HoldsEnd(w, cur, h) ==
    /\ WalOK(w, Len(h)) /\ LogOK(w, cur, Len(h))
    /\ EndsHistory(w, Len(h))
    /\ RecordsOf(w, h)

\* Logging the writes that g adds to h.
LEMMA HoldsLogged ==
    ASSUME NEW w, NEW h, NEW cur \in DOMAIN w, HoldsEnd(w, cur, h),
           NEW s \in Seq(Record), NEW v, Logged(w, v, cur, s), NEW g, Extension(h, g),
           Len(g) = Len(h) + Len(s), WalOK(v, Len(g)),
           \A i \in DOMAIN s : LET r == g[Len(h) + i] IN
              /\ s[i].entry.lsn = Len(h) + i /\ s[i].entry.val = Len(h) + i
              /\ r.key = s[i].key /\ r.op = s[i].entry.op /\ r.val = s[i].entry.val
    PROVE  HoldsEnd(v, cur, g)
<1>1. /\ Len(h) \in Nat /\ Len(g) \in Nat /\ Len(s) \in Nat /\ DOMAIN h = 1..Len(h) /\ DOMAIN g = 1..Len(g)
      /\ DOMAIN s = 1..Len(s)
      /\ \A i \in DOMAIN h : i \in DOMAIN g /\ g[i] = h[i]
    BY DEF Extension
<1>2. WalOK(w, Len(h)) /\ LogOK(w, cur, Len(h)) /\ EndsHistory(w, Len(h)) /\ RecordsOf(w, h)
    BY DEF HoldsEnd
<1>3. LogOK(v, cur, Len(h) + Len(s)) /\ EndsHistory(v, Len(h) + Len(s))
    BY <1>1, <1>2, LoggedOK, LoggedEnds
<1>4. RecordsOf(v, g)
    <2> SUFFICES ASSUME NEW n \in DOMAIN v, NEW i \in DOMAIN v[n].recs
                 PROVE  LET r == v[n].recs[i] IN
                        /\ r.entry.val \in DOMAIN g
                        /\ g[r.entry.val].key = r.key /\ g[r.entry.val].op = r.entry.op
                        /\ g[r.entry.val].val = r.entry.val
        BY DEF RecordsOf
    <2>1. /\ n \in DOMAIN w
          /\ \/ i \in DOMAIN w[n].recs /\ v[n].recs[i] = w[n].recs[i]
             \/ i - Len(w[cur].recs) \in DOMAIN s /\ v[n].recs[i] = s[i - Len(w[cur].recs)]
        BY <1>1, <1>2, LoggedAt
    <2>2. CASE i \in DOMAIN w[n].recs /\ v[n].recs[i] = w[n].recs[i]
        BY <1>1, <1>2, <2>1, <2>2 DEF RecordsOf
    <2>3. CASE i - Len(w[cur].recs) \in DOMAIN s /\ v[n].recs[i] = s[i - Len(w[cur].recs)]
        <3> DEFINE j == i - Len(w[cur].recs)
        <3>1. j \in DOMAIN s /\ v[n].recs[i] = s[j]
            BY <2>3
        <3> HIDE DEF j
        <3>2. Len(h) + j \in DOMAIN g
            BY <1>1, <3>1
        <3> QED BY <3>1, <3>2
    <2> QED BY <2>1, <2>2, <2>3
<1> QED BY <1>3, <1>4 DEF HoldsEnd

\* An fsync, a new file, and what finalize_flush leaves.
LEMMA HoldsSame ==
    ASSUME NEW w, NEW h \in Seq(HistEntry), NEW cur \in DOMAIN w, HoldsEnd(w, cur, h)
    PROVE  /\ HoldsEnd(Fsync(w, cur), cur, h) /\ DOMAIN Fsync(w, cur) = DOMAIN w
           /\ HoldsEnd(RetireOthers(w, cur), cur, h)
<1>1. Len(h) \in Nat
    OBVIOUS
<1>2. WalOK(w, Len(h)) /\ LogOK(w, cur, Len(h)) /\ EndsHistory(w, Len(h)) /\ RecordsOf(w, h)
    BY DEF HoldsEnd
<1>3. WalOK(Fsync(w, cur), Len(h)) /\ DOMAIN Fsync(w, cur) = DOMAIN w /\ SameRecords(w, Fsync(w, cur))
    BY <1>1, <1>2, FsyncOK, FsyncSame
<1>4. LogOK(Fsync(w, cur), cur, Len(h)) /\ EndsHistory(Fsync(w, cur), Len(h)) /\ RecordsOf(Fsync(w, cur), h)
    BY <1>2, <1>3, SameRecordsOK
<1>5. WalOK(RetireOthers(w, cur), Len(h))
    BY <1>1, <1>2, RetireOK
<1>6. /\ LogOK(RetireOthers(w, cur), cur, Len(h)) /\ EndsHistory(RetireOthers(w, cur), Len(h))
      /\ RecordsOf(RetireOthers(w, cur), h)
    BY <1>1, <1>2, RetireOrder
<1> QED BY <1>3, <1>4, <1>5, <1>6 DEF HoldsEnd

LEMMA HoldsCreate ==
    ASSUME NEW w, NEW h \in Seq(HistEntry), NEW cur, HoldsEnd(w, cur, h), Len(h) \notin DOMAIN w
    PROVE  /\ HoldsEnd(Create(w, Len(h)), Len(h), h)
           /\ DOMAIN Create(w, Len(h)) = DOMAIN w \cup {Len(h)}
<1> DEFINE c == Len(h)
<1>1. c \in Nat /\ c \in c..(c + 1)
    OBVIOUS
<1>2. WalOK(w, c) /\ LogOK(w, cur, c) /\ EndsHistory(w, c) /\ RecordsOf(w, h)
    BY DEF HoldsEnd
<1>a. c \notin DOMAIN w
    OBVIOUS
<1>b. HoldsEnd(Create(w, c), c, h) <=>
        WalOK(Create(w, c), c) /\ LogOK(Create(w, c), c, c) /\ EndsHistory(Create(w, c), c) /\ RecordsOf(Create(w, c), h)
    BY DEF HoldsEnd
<1> HIDE DEF c
<1>3. WalOK(Create(w, c), c) /\ DOMAIN Create(w, c) = DOMAIN w \cup {c}
    BY <1>1, <1>2, CreateOK
<1>4. LogOK(Create(w, c), c, c) /\ EndsHistory(Create(w, c), c) /\ RecordsOf(Create(w, c), h)
    BY <1>1, <1>2, <1>a, NewFileOK
<1> QED BY <1>3, <1>4, <1>b DEF c

\* The log after the first j writes of a batch.
LEMMA BatchHolds ==
    ASSUME IInv, InOrder, HoldsEnd(wal, current_wal, hist), Len(hist) = issued,
           NEW ops \in Batches, NEW j \in 0..Len(ops)
    PROVE  HoldsEnd(LogBatch(wal, current_wal, ops, j), current_wal, HistBatch(ops, j))
<1> DEFINE v == LogBatch(wal, current_wal, ops, j)
           s == Batch(ops, j)
           g == HistBatch(ops, j)
<1>1. /\ issued \in Nat /\ j \in Nat /\ lsn_counter = issued /\ current_wal \in DOMAIN wal
      /\ 1..j \subseteq DOMAIN ops
    BY BatchFacts, StateFacts DEF InOrder
<1>2. /\ Logged(wal, v, current_wal, s) /\ s \in Seq(Record) /\ Len(s) = j /\ DOMAIN s = 1..j
      /\ \A i \in 1..j : s[i].key = ops[i].key /\ s[i].entry = TxEntry(ops, i)
    BY LogBatchLogged
<1>3. \A i \in 1..j : /\ TxEntry(ops, i).lsn = issued + i /\ TxEntry(ops, i).val = issued + i
                      /\ TxEntry(ops, i).op = ops[i].op
    BY <1>1 DEF TxEntry
<1>4. /\ Extension(hist, g) /\ Len(g) = Len(hist) + j
      /\ \A i \in 1..j : LET r == g[Len(hist) + i] IN
            r.key = ops[i].key /\ r.op = ops[i].op /\ r.val = issued + i
    BY HistBatchFacts
<1>5. WalOK(v, Len(g))
    BY <1>1, <1>4, LogBatchOK
<1> HIDE DEF v, s, g
<1>6. \A i \in DOMAIN s : LET r == g[Len(hist) + i] IN
              /\ s[i].entry.lsn = Len(hist) + i /\ s[i].entry.val = Len(hist) + i
              /\ r.key = s[i].key /\ r.op = s[i].entry.op /\ r.val = s[i].entry.val
    BY <1>2, <1>3, <1>4
<1>7. HoldsEnd(v, current_wal, g)
    BY <1>1, <1>2, <1>4, <1>5, <1>6, HoldsLogged
<1> QED BY <1>7 DEF v, g

\* put, put_with_ttl and delete.
LEMMA WriteHolds ==
    ASSUME IInv, InOrder, HoldsEnd(wal, current_wal, hist), Len(hist) = issued,
           NEW k \in Keys, NEW op \in Op, NEW auto, WriteEntry(k, op, auto)
    PROVE  HoldsEnd(wal', current_wal', hist') /\ Len(hist') = issued'
<1> DEFINE e == [op |-> op, lsn |-> lsn_counter + 1, val |-> issued + 1]
           r(b) == HistRec(k, e, b, 0)
           h(b) == Append(hist, r(b))
           rec == [key |-> k, entry |-> e]
           c == issued + 1
           logged == Append1(wal, current_wal, k, e)
           synced == Fsync(logged, current_wal)
           new == Create(synced, c)
<1>1. /\ issued \in Nat /\ c \in Nat /\ lsn_counter = issued /\ NextWalPath(lsn_counter + 1) = c
      /\ hist \in Seq(HistEntry) /\ current_wal \in DOMAIN wal
    BY StateFacts DEF InOrder, NextWalPath
<1>2. e \in Entry /\ e.lsn = c /\ e.val = c /\ e.op = op /\ lsn_counter <= e.lsn
    BY <1>1 DEF Entry
<1>3. /\ issued' = c
      /\ \E b \in BOOLEAN :
         /\ hist' = h(b)
         /\ \/ (wal' = logged \/ wal' = RetireOthers(logged, current_wal)) /\ current_wal' = current_wal
            \/ c \notin DOMAIN wal /\ (wal' = new \/ wal' = RetireOthers(new, c)) /\ current_wal' = c
            \/ wal' = synced /\ current_wal' = current_wal
    <2>1. /\ issued' = c
          /\ \/ Apply(k, e, auto, logged, current_wal, durable)
             \/ c \notin DOMAIN wal /\ Apply(k, e, auto, new, c, Len(hist) + 1)
             \/ wal' = synced /\ hist' = h(FALSE) /\ current_wal' = current_wal
        BY <1>1 DEF WriteEntry
    <2> HIDE DEF h, e, c, logged, synced, new
    <2>2. ASSUME NEW w, NEW cur, NEW d, Apply(k, e, auto, w, cur, d)
          PROVE  hist' = h(TRUE) /\ current_wal' = cur /\ (wal' = w \/ wal' = RetireOthers(w, cur))
        BY <2>2 DEF Apply, FlushAll, h
    <2> QED BY <2>1, <2>2
<1>4. PICK b \in BOOLEAN :
         /\ hist' = h(b)
         /\ \/ (wal' = logged \/ wal' = RetireOthers(logged, current_wal)) /\ current_wal' = current_wal
            \/ c \notin DOMAIN wal /\ (wal' = new \/ wal' = RetireOthers(new, c)) /\ current_wal' = c
            \/ wal' = synced /\ current_wal' = current_wal
    BY <1>3
<1> DEFINE g == h(b)
<1>5. r(b) \in HistEntry /\ r(b).key = k /\ r(b).op = op /\ r(b).val = c
    BY <1>2 DEF HistRec, HistEntry, Entry
<1> HIDE DEF e, r, h
<1>6. Extension(hist, g) /\ Len(g) = c /\ g[c] = r(b) /\ g \in Seq(HistEntry)
    BY <1>1, <1>5, HistAppend DEF h, Extension
<1> HIDE DEF g
<1>7. WalOK(logged, c) /\ DOMAIN logged = DOMAIN wal
    BY <1>1, <1>2, StateFacts, Append1OK
<1>8. /\ Logged(wal, logged, current_wal, <<rec>>) /\ <<rec>> \in Seq(Record) /\ Len(<<rec>>) = 1
      /\ \A i \in DOMAIN <<rec>> : i = 1 /\ <<rec>>[i].entry = e /\ <<rec>>[i].key = k
    BY <1>1, <1>2, StateFacts, Append1Logged
<1> HIDE DEF logged, rec
<1>9. \A i \in DOMAIN <<rec>> : LET x == g[Len(hist) + i] IN
              /\ <<rec>>[i].entry.lsn = Len(hist) + i /\ <<rec>>[i].entry.val = Len(hist) + i
              /\ x.key = <<rec>>[i].key /\ x.op = <<rec>>[i].entry.op /\ x.val = <<rec>>[i].entry.val
    BY <1>2, <1>5, <1>6, <1>8
<1>10. HoldsEnd(logged, current_wal, g)
    BY <1>1, <1>6, <1>7, <1>8, <1>9, HoldsLogged
<1>11. /\ HoldsEnd(synced, current_wal, g) /\ DOMAIN synced = DOMAIN wal
       /\ HoldsEnd(RetireOthers(logged, current_wal), current_wal, g)
    BY <1>1, <1>6, <1>7, <1>10, HoldsSame
<1> HIDE DEF synced
<1>12. ASSUME c \notin DOMAIN wal PROVE HoldsEnd(new, c, g) /\ HoldsEnd(RetireOthers(new, c), c, g)
    <2>0. g \in Seq(HistEntry) /\ Len(g) = c /\ Len(g) \notin DOMAIN synced
        BY <1>6, <1>11, <1>12
    <2>1. HoldsEnd(new, c, g) /\ c \in DOMAIN new
        <3> HIDE DEF c
        <3>1. /\ HoldsEnd(Create(synced, Len(g)), Len(g), g)
              /\ DOMAIN Create(synced, Len(g)) = DOMAIN synced \cup {Len(g)}
            BY <1>11, <2>0, HoldsCreate, Zenon
        <3> QED BY <2>0, <3>1
    <2> HIDE DEF new
    <2> QED BY <1>6, <2>1, HoldsSame
<1>13. hist' = g /\ Len(hist') = issued'
    BY <1>3, <1>4, <1>6 DEF g
<1> HIDE DEF new, c
<1> QED BY <1>4, <1>10, <1>11, <1>12, <1>13
-----------------------------------------------------------------------------
(***************************************************************************)
(* The end of a session by a clean close or a kill.                        *)
(***************************************************************************)
\* No write is lost.
LEMMA RestartHist ==
    ASSUME NEW kind \in {"close", "kill"}, NEW l \in Nat, NEW w, WalOK(w, l), NEW cur \in DOMAIN w, NEW segs,
           NEW h \in Seq(HistEntry), NEW d \in 0..Len(h), Restart(kind, w, cur, segs, h, d)
    PROVE  hist' = h /\ durable' \in d..Len(h)
<1>1. PICK s \in Survivors(w, cur, kind) :
         /\ hist' = SubSeq(h, 1, Kept(h, d, w, s))
         /\ durable' = IF kind = "kill" THEN d ELSE Len(hist')
    BY DEF Restart
<1>2. SameRecords(w, s)
    BY SurvivorsSame
<1>3. Vals(s) = Vals(w)
    <2>1. \A c, x : Vals(s) = Vals(w)
        BY <1>2, SameRecordsOK
    <2> QED BY <2>1
<1>4. Kept(h, d, w, s) = Len(h)
    <2>1. {i \in DOMAIN h : h[i].val \in Vals(w) \ Vals(s)} = {}
        BY <1>3
    <2> QED BY <2>1, Zenon DEF Kept
<1>5. hist' = h
    <2>1. Len(h) \in 0..Len(h) /\ Len(h) \in Nat
        OBVIOUS
    <2>2. hist' = SubSeq(h, 1, Len(h))
        BY <1>1, <1>4
    <2>3. hist' \in Seq(HistEntry) /\ Len(hist') = Len(h) /\ \A i \in 1..Len(h) : hist'[i] = h[i]
        <3>1. \A i \in 1..Len(h) : h[i] \in HistEntry
            OBVIOUS
        <3> QED BY <2>1, <2>2, <3>1, SubSeqProperties
    <2> QED BY <2>3
<1>6. durable' = d \/ durable' = Len(h)
    BY <1>1, <1>5, Zenon
<1>7. Len(h) \in Nat /\ d \in d..Len(h) /\ Len(h) \in d..Len(h)
    OBVIOUS
<1> QED BY <1>5, <1>6, <1>7

\* Reads after the restart show the last write of each key, and the WAL still
\* holds the end of the history when nothing has been flushed.
LEMMA RestartRefines ==
    ASSUME NEW kind \in {"close", "kill"}, NEW w, NEW cur \in DOMAIN w, NEW segs,
           NEW h \in Seq(HistEntry), NEW d \in 0..Len(h), Restart(kind, w, cur, segs, h, d),
           HoldsEnd(w, cur, h),
           \A k \in Keys : ~HasRecord(w, k) => ValueOf(SegmentGet(segs, k)) \in Store!Outcomes(h, k),
           Extension(hist, h), durable \in Nat, durable <= d
    PROVE  /\ Store!Restart
           /\ hist' = h /\ manifest' = segs
           /\ \A k \in Keys : Get(memtable', manifest', k) \in Store!Outcomes(hist', k)
           /\ Len(h) \in Vals(w) \cup {0} => HoldsEnd(wal', current_wal', h)
<1>1. PICK s \in Survivors(w, cur, kind) : Open(s, segs)
    BY DEF Restart
<1>2. /\ Len(h) \in Nat /\ WalOK(w, Len(h)) /\ LogOK(w, cur, Len(h)) /\ EndsHistory(w, Len(h)) /\ RecordsOf(w, h)
    BY DEF HoldsEnd
<1>3. SameRecords(w, s) /\ WalOK(s, Len(h))
    BY <1>2, SurvivorsSame
<1>4. LogOK(s, cur, Len(h)) /\ EndsHistory(s, Len(h)) /\ RecordsOf(s, h) /\ Vals(s) = Vals(w)
    BY <1>2, <1>3, SameRecordsOK
<1>5. hist' = h /\ durable' \in d..Len(h)
    BY <1>2, RestartHist
<1>6. memtable' = Replay(s) /\ manifest' = segs
    BY <1>1 DEF Open
<1>7. \A k \in Keys : Get(memtable', manifest', k) \in Store!Outcomes(hist', k)
    <2> TAKE k \in Keys
    <2>1. ~HasRecord(s, k) => ValueOf(SegmentGet(segs, k)) \in Store!Outcomes(h, k)
        BY <1>3 DEF HasRecord, SameRecords
    <2>2. Get(Replay(s), segs, k) \in Store!Outcomes(h, k)
        BY <1>2, <1>3, <1>4, <2>1, KillGet
    <2> QED BY <1>5, <1>6, <2>2
<1>8. Store!Restart
    <2>1. /\ Len(hist') >= durable /\ durable' \in durable..Len(hist')
          /\ \A i \in DOMAIN hist \cap DOMAIN hist' : hist'[i] = hist[i]
        BY <1>2, <1>5 DEF Extension
    <2>2. \A k \in Keys : [x \in Keys |-> Get(memtable', manifest', x)][k] \in Store!Outcomes(hist', k)
        BY <1>7
    <2> QED BY <2>1, <2>2 DEF Store!Restart
<1>9. ASSUME Len(h) \in Vals(w) \cup {0} PROVE HoldsEnd(wal', current_wal', h)
    <2>1. WalOK(wal', Len(h))
        <3> DEFINE name == NextWalPath(RecoveredLsn(s) + 1)
        <3>1. RecoveredLsn(s) \in Nat /\ name \in Nat
            BY <1>2, <1>3, RecoveredOK DEF NextWalPath
        <3>2. wal' = s \/ wal' = Create(s, name)
            BY <1>1 DEF Open
        <3> HIDE DEF name
        <3>3. WalOK(Create(s, name), Len(h))
            BY <1>2, <1>3, <3>1, CreateOK
        <3> QED BY <1>3, <3>2, <3>3
    <2>2. /\ LogOK(wal', current_wal', Len(h))
          /\ EndsHistory(s, Len(h)) => EndsHistory(wal', Len(h))
          /\ RecordsOf(s, h) => RecordsOf(wal', h)
        BY <1>1, <1>2, <1>3, <1>4, <1>9, OpenLog
    <2> QED BY <1>4, <2>1, <2>2 DEF HoldsEnd
<1> QED BY <1>5, <1>6, <1>7, <1>8, <1>9
-----------------------------------------------------------------------------
(***************************************************************************)
(* The invariant of the blocking Engine.                                   *)
(***************************************************************************)
Faithful ==
    /\ Len(hist) = issued
    /\ HoldsEnd(wal, current_wal, hist)
    /\ \A k \in Keys : Get(memtable, manifest, k) \in Store!Outcomes(hist, k)

BInv == CInv /\ OrderInv /\ (Undisturbed => Faithful)

\* A key without records in the WAL is not in the memtable: reads find it in the
\* segments.
LEMMA ColdReads ==
    ASSUME WalCoversMemtable, NEW k \in Keys, ~HasRecord(wal, k)
    PROVE  Get(memtable, manifest, k) = ValueOf(SegmentGet(manifest, k))
<1>1. memtable[k] = NoEntry
    <2> SUFFICES ASSUME memtable[k] # NoEntry PROVE FALSE
        OBVIOUS
    <2>1. PICK n \in DOMAIN wal : \E i \in DOMAIN wal[n].recs :
             wal[n].recs[i] = [key |-> k, entry |-> memtable[k]]
        BY DEF WalCoversMemtable
    <2>2. PICK i \in DOMAIN wal[n].recs : wal[n].recs[i] = [key |-> k, entry |-> memtable[k]]
        BY <2>1
    <2>3. wal[n].recs[i].key = k
        BY <2>2
    <2> QED BY <2>3 DEF HasRecord
<1> QED BY <1>1 DEF Get, GetEntry, ValueOf

\* The session ends between two calls.
LEMMA ReopenRefines ==
    ASSUME CInv, InOrder, Faithful, NEW kind \in {"close", "kill"}, Reopen(kind)
    PROVE  /\ Store!Restart
           /\ \A k \in Keys : Get(memtable', manifest', k) \in Store!Outcomes(hist', k)
           /\ manifest' = <<>> => Len(hist') = issued' /\ HoldsEnd(wal', current_wal', hist')
<1>1. Restart(kind, wal, current_wal, manifest, hist, durable) /\ issued' = issued
    BY DEF Reopen
<1>2. /\ IInv /\ WalCoversMemtable /\ current_wal \in DOMAIN wal /\ hist \in Seq(HistEntry)
      /\ durable \in 0..Len(hist) /\ durable \in Nat /\ durable <= durable
    BY StateFacts DEF CInv
<1>3. HoldsEnd(wal, current_wal, hist) /\ Len(hist) = issued
    BY DEF Faithful
<1>4. \A k \in Keys : ~HasRecord(wal, k) => ValueOf(SegmentGet(manifest, k)) \in Store!Outcomes(hist, k)
    BY <1>2, ColdReads DEF Faithful
<1>5. Extension(hist, hist)
    BY <1>2 DEF Extension
<1>6. /\ Store!Restart
      /\ hist' = hist /\ manifest' = manifest
      /\ \A k \in Keys : Get(memtable', manifest', k) \in Store!Outcomes(hist', k)
      /\ Len(hist) \in Vals(wal) \cup {0} => HoldsEnd(wal', current_wal', hist)
    BY <1>1, <1>2, <1>3, <1>4, <1>5, RestartRefines
<1>7. manifest = <<>> => Len(hist) \in Vals(wal) \cup {0}
    BY <1>3 DEF InOrder
<1> QED BY <1>1, <1>3, <1>6, <1>7

\* The session ends inside a write or a commit.
LEMMA CrashInCommitRefines ==
    ASSUME CInv, InOrder, Faithful, NEW kind \in {"close", "kill"}, NEW ops \in Batches, NEW j \in DOMAIN ops,
           CrashInCommit(kind, ops, j)
    PROVE  /\ Store!Restart
           /\ \A k \in Keys : Get(memtable', manifest', k) \in Store!Outcomes(hist', k)
           /\ manifest' = <<>> => Len(hist') = issued' /\ HoldsEnd(wal', current_wal', hist')
<1> DEFINE w == LogBatch(wal, current_wal, ops, j)
           h == HistBatch(ops, j)
<1>1. Restart(kind, w, current_wal, manifest, h, durable) /\ issued' = issued + j
    BY DEF CrashInCommit
<1>2. /\ IInv /\ WalCoversMemtable /\ current_wal \in DOMAIN wal /\ hist \in Seq(HistEntry) /\ Len(hist) \in Nat
      /\ durable \in 0..Len(hist) /\ durable \in Nat /\ durable <= durable /\ issued \in Nat
    BY StateFacts DEF CInv
<1>3. j \in 0..Len(ops) /\ j \in Nat /\ 1..j \subseteq DOMAIN ops
    BY <1>2, BatchFacts
<1>4. HoldsEnd(w, current_wal, h) /\ Len(hist) = issued
    BY <1>2, <1>3, BatchHolds DEF Faithful
<1>5. /\ Extension(hist, h) /\ Len(h) = Len(hist) + j
      /\ \A i \in 1..j : h[Len(hist) + i].key = ops[i].key
    BY <1>2, <1>3, HistBatchFacts
<1>6. /\ Logged(wal, w, current_wal, Batch(ops, j)) /\ DOMAIN Batch(ops, j) = 1..j /\ Len(Batch(ops, j)) = j
      /\ \A i \in 1..j : Batch(ops, j)[i].key = ops[i].key
    BY <1>2, <1>3, LogBatchLogged
<1>7. /\ DOMAIN w = DOMAIN wal
      /\ manifest = <<>> => issued + j \in Vals(w) \cup {0}
    BY <1>2, <1>3, BatchOrder
<1> HIDE DEF w, h
<1>8. h \in Seq(HistEntry) /\ durable \in 0..Len(h) /\ DOMAIN h = 1..(Len(hist) + j)
    BY <1>2, <1>3, <1>5 DEF Extension
<1>9. ASSUME NEW k \in Keys, ~HasRecord(w, k)
      PROVE  ValueOf(SegmentGet(manifest, k)) \in Store!Outcomes(h, k)
    <2>1. \A n \in DOMAIN w : \A i \in DOMAIN w[n].recs : w[n].recs[i].key # k
        BY <1>9 DEF HasRecord
    <2>2. \A i \in 1..j : ops[i].key # k
        <3> TAKE i \in 1..j
        <3>1. wal[current_wal].recs \in Seq(Record)
            BY <1>2, StateFacts DEF TypeOK, WalFile
        <3>2. Len(wal[current_wal].recs) \in Nat
            BY <3>1
        <3>3. Len(wal[current_wal].recs) + i \in DOMAIN w[current_wal].recs
            BY <1>3, <1>6, <3>2 DEF Logged
        <3>4. w[current_wal].recs[Len(wal[current_wal].recs) + i] = Batch(ops, j)[i]
            BY <1>6 DEF Logged
        <3> QED BY <1>2, <1>6, <1>7, <2>1, <3>3, <3>4
    <2>3. ~HasRecord(wal, k)
        <3> SUFFICES ASSUME HasRecord(wal, k) PROVE FALSE
            OBVIOUS
        <3>1. PICK n \in DOMAIN wal : \E i \in DOMAIN wal[n].recs : wal[n].recs[i].key = k
            BY DEF HasRecord
        <3>2. PICK i \in DOMAIN wal[n].recs : wal[n].recs[i].key = k
            BY <3>1
        <3>3. n \in DOMAIN w /\ i \in DOMAIN w[n].recs /\ w[n].recs[i] = wal[n].recs[i]
            <4>1. CASE n # current_wal
                BY <1>6, <4>1 DEF Logged
            <4>2. CASE n = current_wal
                <5>1. wal[current_wal].recs \in Seq(Record)
                    BY <1>2, StateFacts DEF TypeOK, WalFile
                <5>2. i \in 1..(Len(wal[current_wal].recs) + Len(Batch(ops, j)))
                    BY <1>3, <1>6, <4>2, <5>1
                <5> QED BY <1>6, <4>2, <5>2 DEF Logged
            <4> QED BY <4>1, <4>2
        <3> QED BY <2>1, <3>2, <3>3
    <2>4. ValueOf(SegmentGet(manifest, k)) \in Store!Outcomes(hist, k)
        BY <1>2, <2>3, ColdReads DEF Faithful
    <2>5. News(hist, h, k) = {}
        <3> SUFFICES ASSUME NEW i \in News(hist, h, k) PROVE FALSE
            OBVIOUS
        <3>1. i \in DOMAIN h /\ h[i].key = k /\ i > Len(hist)
            BY <1>5, NewsFacts
        <3>2. i - Len(hist) \in 1..j /\ Len(hist) + (i - Len(hist)) = i
            BY <1>2, <1>3, <1>8, <3>1
        <3>3. h[Len(hist) + (i - Len(hist))].key = ops[i - Len(hist)].key
            BY <1>5, <3>2
        <3> QED BY <2>2, <3>1, <3>2, <3>3
    <2> QED BY <1>5, <2>4, <2>5, OutcomesKept
<1>10. /\ Store!Restart
       /\ hist' = h /\ manifest' = manifest
       /\ \A k \in Keys : Get(memtable', manifest', k) \in Store!Outcomes(hist', k)
       /\ Len(h) \in Vals(w) \cup {0} => HoldsEnd(wal', current_wal', h)
    <2>1. current_wal \in DOMAIN w
        BY <1>2, <1>7
    <2> QED BY <1>1, <1>2, <1>4, <1>5, <1>8, <1>9, <2>1, RestartRefines
<1> QED BY <1>1, <1>4, <1>5, <1>7, <1>10

\* The session ends in the middle of a flush, between the deletions of WAL files.
LEMMA CrashInFinalizeRefines ==
    ASSUME CInv, InOrder, Faithful, NEW kind \in {"close", "kill"}, NEW work \in FlushableWork,
           NEW cut \in DOMAIN wal, CrashInFinalize(kind, work, cut)
    PROVE  /\ Store!Restart
           /\ \A k \in Keys : Get(memtable', manifest', k) \in Store!Outcomes(hist', k)
           /\ manifest' # <<>>
<1> DEFINE D == {x \in DOMAIN wal : x = current_wal \/ x >= cut}
           left == [n \in D |-> wal[n]]
           g == Execute(work)
           segs == Append(manifest, g)
           d == Max({durable, work.upto})
<1>1. /\ IInv /\ flushes = {} /\ current_wal \in DOMAIN wal /\ DOMAIN wal \subseteq Nat
      /\ hist \in Seq(HistEntry) /\ Len(hist) \in Nat /\ durable \in 0..Len(hist) /\ durable \in Nat
      /\ manifest \in Seq(Segment) /\ lsn_counter = issued /\ issued \in Nat
    BY StateFacts DEF CInv, InOrder
<1>2. Live(memtable) # {} /\ work = PrepareFlush(memtable, next_segment_id, hist)
    BY <1>1 DEF FlushableWork
<1>3. work \in FlushWork /\ work.ents = memtable /\ work.upto = Len(hist)
    BY <1>1, <1>2, StateFacts, PrepareOK DEF PrepareFlush
<1>4. g \in Segment /\ g.ents = memtable
    BY <1>3 DEF Execute, Segment, FlushWork
<1>5. d = Len(hist)
    BY <1>1, <1>3, MaxOfTwo
<1>6. Restart(kind, left, current_wal, segs, hist, d)
    BY DEF CrashInFinalize
<1> HIDE DEF segs, g, d
<1>7. HoldsEnd(left, current_wal, hist)
    <2>1. HoldsEnd(wal, current_wal, hist) /\ Len(hist) = issued
        BY DEF Faithful
    <2>2. /\ WalOK(wal, Len(hist)) /\ LogOK(wal, current_wal, Len(hist)) /\ EndsHistory(wal, Len(hist))
          /\ RecordsOf(wal, hist)
        BY <2>1 DEF HoldsEnd
    <2>3. D \in SUBSET (DOMAIN wal)
        OBVIOUS
    <2>4. \A n \in DOMAIN wal \ D : \A m \in D : n <= current_wal => n < m
        BY <1>1
    <2>5. WalOK(left, Len(hist))
        BY <1>1, <2>2, SubWalOK
    <2> HIDE DEF D
    <2>6. LogOK(left, current_wal, Len(hist)) /\ EndsHistory(left, Len(hist)) /\ RecordsOf(left, hist)
        BY <1>1, <2>2, <2>3, <2>4, SomeFilesOK
    <2> QED BY <2>5, <2>6 DEF HoldsEnd
<1>8. current_wal \in DOMAIN left
    BY <1>1
<1> HIDE DEF left
<1>9. \A k \in Keys : ValueOf(SegmentGet(segs, k)) \in Store!Outcomes(hist, k)
    <2> TAKE k \in Keys
    <2>1. SegmentGet(segs, k) = GetEntry(memtable, manifest, k)
        BY <1>1, <1>4, SegmentGetAppend DEF GetEntry, segs
    <2>2. ValueOf(SegmentGet(segs, k)) = Get(memtable, manifest, k)
        BY <2>1 DEF Get, ValueOf
    <2> QED BY <2>2 DEF Faithful
<1>10. Extension(hist, hist)
    BY <1>1 DEF Extension
<1>11. /\ Store!Restart
       /\ hist' = hist /\ manifest' = segs
       /\ \A k \in Keys : Get(memtable', manifest', k) \in Store!Outcomes(hist', k)
    <2>1. d \in 0..Len(hist) /\ durable <= d
        BY <1>1, <1>5
    <2> QED BY <1>1, <1>6, <1>7, <1>8, <1>9, <1>10, <2>1, RestartRefines
<1>12. segs # <<>>
    BY <1>1, <1>4 DEF segs
<1> QED BY <1>11, <1>12

\* A step that is not a restart is a step of DurableStore or changes nothing it
\* can see: a flush changes no read.
LEMMA SessionRefines ==
    ASSUME MaxInFlight = 0, CInv, [Next]_vars, restarts' = restarts
    PROVE  Store!Write \/ Store!Harden \/ UNCHANGED Store!vars
<1>0. /\ IInv /\ flushes = {} /\ current_wal \in DOMAIN wal /\ WalOK(wal, lsn_counter) /\ lsn_counter \in Nat
      /\ hist \in Seq(HistEntry) /\ Len(hist) \in Nat /\ durable \in 0..Len(hist) /\ restarts \in Nat
      /\ MemOK(memtable, lsn_counter)
    BY StateFacts DEF CInv
<1>1. ASSUME hist' = hist, durable' = durable \/ durable' = Len(hist),
             \A k \in Keys : Get(memtable', manifest', k) = Get(memtable, manifest, k)
      PROVE  Store!Harden \/ UNCHANGED Store!vars
    <2>1. [k \in Keys |-> Get(memtable', manifest', k)] = [k \in Keys |-> Get(memtable, manifest, k)]
        BY <1>1
    <2>2. durable' = durable \/ durable' \in (durable + 1)..Len(hist)
        BY <1>0, <1>1
    <2> QED BY <1>1, <2>1, <2>2 DEF Store!Harden, Store!vars
<1>2. CASE UNCHANGED vars
    <2>1. UNCHANGED <<memtable, manifest, hist, durable>>
        BY <1>2 DEF vars, segVars, auxVars
    <2> QED BY <1>1, <2>1
<1>3. CASE \E k \in Keys : put(k) \/ put_with_ttl(k) \/ delete(k)
    <2>1. PICK k \in Keys, op \in Op, auto \in BOOLEAN : WriteEntry(k, op, auto)
        BY <1>3 DEF put, put_with_ttl, delete, Op
    <2> QED BY <1>0, <2>1, WriteEntryRefines
<1>4. CASE flush
    BY <1>1, <1>4 DEF flush, segVars
<1>5. CASE \E ops \in Batches : commit_transaction(ops)
    BY <1>0, <1>5, CommitRefines
<1>6. CASE flush_to_segments
    <2>1. /\ Live(memtable) # {} /\ FlushAll(memtable, wal, current_wal, hist)
          /\ flushes' = flushes /\ hist' = hist
        BY <1>6 DEF flush_to_segments
    <2>2. \A k \in Keys : Get(memtable', manifest', k) = Get(memtable, manifest, k)
        BY <1>0, <2>1, FlushReads, Zenon
    <2>3. durable' = Len(hist)
        BY <2>1 DEF FlushAll
    <2> QED BY <1>1, <2>1, <2>2, <2>3
<1>7. CASE begin_flush
    <2>1. Cardinality({}) < 0
        BY <1>0, <1>7 DEF begin_flush
    <2> QED BY <2>1, FS_EmptySet
<1>8. CASE \E work \in flushes : finalize_flush(work) \/ abort_flush(work)
    BY <1>0, <1>8
<1>9. CASE \/ \E kind \in CrashKinds : Reopen(kind)
           \/ \E kind \in CrashKinds \ {"close"}, ops \in Batches :
                 \E j \in DOMAIN ops : CrashInCommit(kind, ops, j)
           \/ \E kind \in CrashKinds \ {"close"} :
                 \E work \in FlushableWork, cut \in DOMAIN wal : CrashInFinalize(kind, work, cut)
    <2>1. restarts' = restarts + 1
        BY <1>9, Zenon DEF Reopen, CrashInCommit, CrashInFinalize, Restart
    <2> QED BY <1>0, <2>1
<1> QED BY <1>2, <1>3, <1>4, <1>5, <1>6, <1>7, <1>8, <1>9 DEF Next

\* A restart from a state where no restart has lost track is a Restart.
LEMMA CrashRefines ==
    ASSUME CInv, InOrder, Faithful, CrashKinds \subseteq {"close", "kill"}, [Next]_vars, restarts' # restarts
    PROVE  /\ Store!Restart
           /\ \A k \in Keys : Get(memtable', manifest', k) \in Store!Outcomes(hist', k)
           /\ manifest' = <<>> => Len(hist') = issued' /\ HoldsEnd(wal', current_wal', hist')
<1>1. CASE \E kind \in CrashKinds : Reopen(kind)
    BY <1>1, ReopenRefines
<1>2. CASE \E kind \in CrashKinds \ {"close"}, ops \in Batches :
              \E j \in DOMAIN ops : CrashInCommit(kind, ops, j)
    BY <1>2, CrashInCommitRefines
<1>3. CASE \E kind \in CrashKinds \ {"close"} :
              \E work \in FlushableWork, cut \in DOMAIN wal : CrashInFinalize(kind, work, cut)
    BY <1>3, CrashInFinalizeRefines
<1>4. CASE UNCHANGED vars
    BY <1>4 DEF vars
<1>5. CASE \E k \in Keys : put(k) \/ put_with_ttl(k) \/ delete(k)
    BY <1>5, Zenon DEF put, put_with_ttl, delete, WriteEntry
<1>6. CASE flush \/ (\E ops \in Batches : commit_transaction(ops)) \/ flush_to_segments \/ begin_flush
    BY <1>6, Zenon DEF flush, commit_transaction, flush_to_segments, begin_flush
<1>7. CASE \E work \in flushes : finalize_flush(work) \/ abort_flush(work)
    BY <1>7, Zenon DEF finalize_flush, abort_flush
<1> QED BY <1>1, <1>2, <1>3, <1>4, <1>5, <1>6, <1>7 DEF Next

\* A step is a restart, which the bound allows, or leaves their number alone.
LEMMA RestartsCounted ==
    ASSUME [Next]_vars
    PROVE  restarts' = restarts \/ (restarts' = restarts + 1 /\ restarts < MaxRestarts)
<1>1. CASE \/ \E kind \in CrashKinds : Reopen(kind)
           \/ \E kind \in CrashKinds \ {"close"}, ops \in Batches :
                 \E j \in DOMAIN ops : CrashInCommit(kind, ops, j)
           \/ \E kind \in CrashKinds \ {"close"} :
                 \E work \in FlushableWork, cut \in DOMAIN wal : CrashInFinalize(kind, work, cut)
    BY <1>1, Zenon DEF Reopen, CrashInCommit, CrashInFinalize, Restart
<1>2. CASE UNCHANGED vars
    BY <1>2 DEF vars
<1>3. CASE \E k \in Keys : put(k) \/ put_with_ttl(k) \/ delete(k)
    BY <1>3, Zenon DEF put, put_with_ttl, delete, WriteEntry
<1>4. CASE flush \/ (\E ops \in Batches : commit_transaction(ops)) \/ flush_to_segments \/ begin_flush
    BY <1>4, Zenon DEF flush, commit_transaction, flush_to_segments, begin_flush
<1>5. CASE \E work \in flushes : finalize_flush(work) \/ abort_flush(work)
    BY <1>5, Zenon DEF finalize_flush, abort_flush
<1> QED BY <1>1, <1>2, <1>3, <1>4, <1>5 DEF Next

\* A disturbed state stays so.
LEMMA UndisturbedBefore ==
    ASSUME IInv, [Next]_vars, Undisturbed'
    PROVE  /\ Undisturbed
           /\ restarts' # restarts => manifest' = <<>> /\ CrashKinds \subseteq {"close", "kill"}
<1>1. restarts' = restarts \/ restarts' = restarts + 1
    BY RestartsCounted
<1>2. manifest' = manifest \/ \E g : manifest' = Append(manifest, g)
    <2>1. CASE \E kind \in CrashKinds : Reopen(kind)
        BY <2>1, Zenon DEF Reopen, Restart, Open
    <2>2. CASE \E kind \in CrashKinds \ {"close"}, ops \in Batches :
                  \E j \in DOMAIN ops : CrashInCommit(kind, ops, j)
        BY <2>2, Zenon DEF CrashInCommit, Restart, Open
    <2>3. CASE \E kind \in CrashKinds \ {"close"} :
                  \E work \in FlushableWork, cut \in DOMAIN wal : CrashInFinalize(kind, work, cut)
        BY <2>3, Zenon DEF CrashInFinalize, Restart, Open
    <2>4. CASE UNCHANGED vars
        BY <2>4 DEF vars, segVars
    <2>5. CASE \E k \in Keys : put(k) \/ put_with_ttl(k) \/ delete(k)
        <3>1. PICK k \in Keys, op \in Op, auto \in BOOLEAN : WriteEntry(k, op, auto)
            BY <2>5 DEF put, put_with_ttl, delete, Op
        <3> QED BY <3>1, Zenon DEF WriteEntry, Apply, FlushAll
    <2>6. CASE flush \/ (\E ops \in Batches : commit_transaction(ops)) \/ begin_flush
        BY <2>6 DEF flush, commit_transaction, begin_flush, segVars
    <2>7. CASE flush_to_segments
        BY <2>7, Zenon DEF flush_to_segments, FlushAll
    <2>8. CASE \E work \in flushes : finalize_flush(work) \/ abort_flush(work)
        BY <2>8, Zenon DEF finalize_flush, abort_flush
    <2> QED BY <2>1, <2>2, <2>3, <2>4, <2>5, <2>6, <2>7, <2>8 DEF Next
<1>3. manifest' = <<>> => manifest = <<>>
    BY <1>2, StateFacts
<1> QED BY <1>1, <1>3, StateFacts DEF Undisturbed

\* A Write of DurableStore keeps what reads may return.
LEMMA WriteReads ==
    ASSUME IInv, IInv', Store!Write, \A k \in Keys : Get(memtable, manifest, k) \in Store!Outcomes(hist, k)
    PROVE  \A k \in Keys : Get(memtable', manifest', k) \in Store!Outcomes(hist', k)
<1>1. /\ hist \in Seq(HistEntry) /\ hist' \in Seq(HistEntry) /\ Len(hist) \in Nat /\ Len(hist') \in Nat
    BY DEF IInv, TypeOK
<1>2. /\ Len(hist') > Len(hist) /\ SubSeq(hist', 1, Len(hist)) = hist
      /\ [k \in Keys |-> Get(memtable', manifest', k)] =
         [k \in Keys |->
             LET new == {i \in Store!Applied(hist', k) : i > Len(hist)} IN
             IF new = {} THEN [x \in Keys |-> Get(memtable, manifest, x)][k] ELSE Store!Visible(hist'[Max(new)])]
    BY DEF Store!Write, Store!Max, Max
<1>3. Extension(hist, hist')
    <2>1. \A i \in 1..Len(hist) : hist'[i] \in HistEntry
        BY <1>1, <1>2
    <2>2. \A i \in 1..Len(hist) : SubSeq(hist', 1, Len(hist))[i] = hist'[i]
        BY <1>1, <2>1, SubSeqProperties
    <2> QED BY <1>1, <1>2, <2>2 DEF Extension
<1> TAKE k \in Keys
<1>4. Get(memtable', manifest', k) =
        IF News(hist, hist', k) = {} THEN Get(memtable, manifest, k)
        ELSE Store!Visible(hist'[Max(News(hist, hist', k))])
    <2>1. [x \in Keys |-> Get(memtable', manifest', x)][k] =
          LET new == {i \in Store!Applied(hist', k) : i > Len(hist)} IN
          IF new = {} THEN [x \in Keys |-> Get(memtable, manifest, x)][k] ELSE Store!Visible(hist'[Max(new)])
        BY <1>2
    <2> QED BY <2>1 DEF News
<1> QED BY <1>3, <1>4, ReadsOnKeeps DEF ReadsOn

\* What a step that is not a restart leaves in the WAL.
LEMMA SessionHolds ==
    ASSUME MaxInFlight = 0, CInv, InOrder, HoldsEnd(wal, current_wal, hist), Len(hist) = issued,
           [Next]_vars, restarts' = restarts
    PROVE  HoldsEnd(wal', current_wal', hist') /\ Len(hist') = issued'
<1>0. /\ IInv /\ flushes = {} /\ current_wal \in DOMAIN wal /\ hist \in Seq(HistEntry) /\ restarts \in Nat
      /\ lsn_counter = issued /\ issued \in Nat
    BY StateFacts DEF CInv, InOrder
<1>1. CASE UNCHANGED vars
    BY <1>1 DEF vars, walVars, auxVars
<1>2. CASE \E k \in Keys : put(k) \/ put_with_ttl(k) \/ delete(k)
    <2>1. PICK k \in Keys, op \in Op, auto \in BOOLEAN : WriteEntry(k, op, auto)
        BY <1>2 DEF put, put_with_ttl, delete, Op
    <2> QED BY <1>0, <2>1, WriteHolds
<1>3. CASE flush
    <2>1. wal' = Fsync(wal, current_wal) /\ UNCHANGED <<current_wal, hist, issued>>
        BY <1>3 DEF flush
    <2> QED BY <1>0, <2>1, HoldsSame
<1>4. CASE \E ops \in Batches : commit_transaction(ops)
    <2>1. PICK ops \in Batches : commit_transaction(ops)
        BY <1>4
    <2> DEFINE n == Len(ops)
               g == HistBatch(ops, n)
               logged == LogBatch(wal, current_wal, ops, n)
               synced == Fsync(logged, current_wal)
               name == NextWalPath(lsn_counter + n)
    <2>2. /\ issued' = issued + n /\ hist' = g
          /\ \/ wal' = synced /\ current_wal' = current_wal
             \/ name \notin DOMAIN wal /\ wal' = Create(synced, name) /\ current_wal' = name
        BY <2>1 DEF commit_transaction
    <2>3. n \in 0..Len(ops) /\ n \in Nat
        BY <1>0, BatchFacts
    <2>4. /\ HoldsEnd(logged, current_wal, g) /\ DOMAIN logged = DOMAIN wal
          /\ Len(g) = Len(hist) + n /\ g \in Seq(HistEntry)
        BY <1>0, <2>3, BatchHolds, LogBatchOK
    <2>5. name = Len(g)
        BY <1>0, <2>4 DEF NextWalPath
    <2> HIDE DEF logged, g, name
    <2>6. HoldsEnd(synced, current_wal, g) /\ DOMAIN synced = DOMAIN wal
        BY <1>0, <2>4, HoldsSame
    <2> HIDE DEF synced
    <2>7. Len(g) \notin DOMAIN synced => HoldsEnd(Create(synced, Len(g)), Len(g), g)
        BY <2>4, <2>6, HoldsCreate
    <2> QED BY <2>2, <2>4, <2>5, <2>6, <2>7
<1>5. CASE flush_to_segments
    <2>1. wal' = RetireOthers(wal, current_wal) /\ UNCHANGED <<current_wal, hist, issued>>
        BY <1>5, Zenon DEF flush_to_segments, FlushAll
    <2> QED BY <1>0, <2>1, HoldsSame
<1>6. CASE begin_flush
    <2>1. Cardinality({}) < 0
        BY <1>0, <1>6 DEF begin_flush
    <2> QED BY <2>1, FS_EmptySet
<1>7. CASE \E work \in flushes : finalize_flush(work) \/ abort_flush(work)
    BY <1>0, <1>7
<1>8. CASE \/ \E kind \in CrashKinds : Reopen(kind)
           \/ \E kind \in CrashKinds \ {"close"}, ops \in Batches :
                 \E j \in DOMAIN ops : CrashInCommit(kind, ops, j)
           \/ \E kind \in CrashKinds \ {"close"} :
                 \E work \in FlushableWork, cut \in DOMAIN wal : CrashInFinalize(kind, work, cut)
    <2>1. restarts' = restarts + 1
        BY <1>8, Zenon DEF Reopen, CrashInCommit, CrashInFinalize, Restart
    <2> QED BY <1>0, <2>1
<1> QED BY <1>1, <1>2, <1>3, <1>4, <1>5, <1>6, <1>7, <1>8 DEF Next

LEMMA NextBInv ==
    ASSUME MaxInFlight = 0
    PROVE  BInv /\ [Next]_vars => BInv'
<1> SUFFICES ASSUME BInv, [Next]_vars PROVE BInv'
    OBVIOUS
<1>1. CInv' /\ OrderInv' /\ IInv /\ IInv'
    BY NextCInv, NextOrder DEF BInv, CInv
<1> SUFFICES ASSUME Undisturbed' PROVE Faithful'
    BY <1>1 DEF BInv
<1>2. /\ Undisturbed
      /\ restarts' # restarts => manifest' = <<>> /\ CrashKinds \subseteq {"close", "kill"}
    BY <1>1, UndisturbedBefore
<1>3. CInv /\ InOrder /\ Faithful
    BY <1>2 DEF BInv, OrderInv
<1>4. CASE restarts' = restarts
    <2>1. HoldsEnd(wal', current_wal', hist') /\ Len(hist') = issued'
        BY <1>3, <1>4, SessionHolds DEF Faithful
    <2>2. \A k \in Keys : Get(memtable, manifest, k) \in Store!Outcomes(hist, k)
        BY <1>3 DEF Faithful
    <2>3. \A k \in Keys : Get(memtable', manifest', k) \in Store!Outcomes(hist', k)
        <3>1. Store!Write \/ Store!Harden \/ UNCHANGED Store!vars
            BY <1>3, <1>4, SessionRefines
        <3>2. CASE Store!Write
            BY <1>1, <2>2, <3>2, WriteReads
        <3>3. CASE Store!Harden \/ UNCHANGED Store!vars
            <4>1. /\ hist' = hist
                  /\ [k \in Keys |-> Get(memtable', manifest', k)] = [k \in Keys |-> Get(memtable, manifest, k)]
                BY <3>3 DEF Store!Harden, Store!vars
            <4> TAKE k \in Keys
            <4>2. [x \in Keys |-> Get(memtable', manifest', x)][k] = [x \in Keys |-> Get(memtable, manifest, x)][k]
                BY <4>1
            <4>3. Get(memtable', manifest', k) = Get(memtable, manifest, k)
                BY <4>2
            <4> QED BY <2>2, <4>1, <4>3
        <3> QED BY <3>1, <3>2, <3>3
    <2> QED BY <2>1, <2>3 DEF Faithful
<1>5. CASE restarts' # restarts
    BY <1>2, <1>3, <1>5, CrashRefines DEF Faithful
<1> QED BY <1>4, <1>5

LEMMA InitBInv == Init => BInv
<1> SUFFICES ASSUME Init PROVE BInv
    OBVIOUS
<1>1. OrderInv /\ IInv /\ InOrder
    BY InitOrder DEF OrderInv, Undisturbed, Init
<1>2. /\ \A k \in Keys : memtable[k] = NoEntry
      /\ flushes = {} /\ manifest = <<>> /\ hist = <<>> /\ issued = 0
      /\ DOMAIN wal = {0} /\ wal[0].recs = <<>> /\ lsn_counter = 0
    BY DEF Init, EmptyMem, NewWal
<1>3. CInv
    BY <1>1, <1>2 DEF CInv, WalCoversMemtable
<1>4. HoldsEnd(wal, current_wal, hist) /\ Len(hist) = issued
    <2>1. Len(hist) = 0
        BY <1>2
    <2>2. WalOK(wal, 0) /\ LogOK(wal, current_wal, 0)
        BY <1>1, <1>2, StateFacts DEF InOrder
    <2>3. \A v : v \notin Vals(wal)
        BY <1>2, ValsIff
    <2>4. EndsHistory(wal, 0)
        BY <2>3 DEF EndsHistory
    <2>5. RecordsOf(wal, hist)
        BY <1>2 DEF RecordsOf
    <2> QED BY <1>2, <2>1, <2>2, <2>4, <2>5 DEF HoldsEnd
<1>5. \A k \in Keys : Get(memtable, manifest, k) \in Store!Outcomes(hist, k)
    <2> TAKE k \in Keys
    <2>1. Get(memtable, manifest, k) = Absent
        BY <1>2 DEF Get, GetEntry, SegmentGet
    <2>2. LastOf(hist, k) = 0
        <3>1. hist \in Seq(HistEntry) /\ DOMAIN hist = {}
            BY <1>2
        <3> QED BY <3>1, LastFacts
    <2> QED BY <2>1, <2>2, OutcomesIff
<1> QED BY <1>1, <1>3, <1>4, <1>5 DEF BInv, Faithful
-----------------------------------------------------------------------------
(***************************************************************************)
(* The results.                                                            *)
(***************************************************************************)
\* If the blocking Engine were killed now, WAL replay and the manifest would show
\* each key as its last write left it: after any writes, transactions, rotations,
\* failed rotations and flushes of a session, and after restarts that precede the
\* first flush.
THEOREM KillSafe ==
    ASSUME MaxInFlight = 0
    PROVE  Spec => [](Undisturbed => KillLosesNothing)
<1>1. BInv => (Undisturbed => KillLosesNothing)
    <2> SUFFICES ASSUME BInv, Undisturbed, NEW k \in Keys
                 PROVE  Get(Replay(wal), manifest, k) \in Store!Outcomes(hist, k)
        BY DEF KillLosesNothing
    <2>1. /\ IInv /\ WalCoversMemtable /\ hist \in Seq(HistEntry) /\ Len(hist) \in Nat
          /\ WalOK(wal, Len(hist)) /\ LogOK(wal, current_wal, Len(hist))
          /\ EndsHistory(wal, Len(hist)) /\ RecordsOf(wal, hist)
          /\ Get(memtable, manifest, k) \in Store!Outcomes(hist, k)
        BY StateFacts DEF BInv, CInv, Faithful, HoldsEnd
    <2>2. ~HasRecord(wal, k) => ValueOf(SegmentGet(manifest, k)) \in Store!Outcomes(hist, k)
        BY <2>1, ColdReads
    <2> QED BY <2>1, <2>2, KillGet
<1>2. BInv /\ [Next]_vars => BInv'
    BY NextBInv
<1> QED BY InitBInv, <1>1, <1>2, PTL DEF Spec

\* Without segment ids nothing is ever flushed.
LEMMA NoSegments ==
    ASSUME MaxInFlight = 0, MaxSegments = 0, CInv, manifest = <<>>, [Next]_vars
    PROVE  manifest' = <<>>
<1>0. flushes = {} /\ next_segment_id \in Nat /\ ~(next_segment_id < MaxSegments)
    BY StateFacts DEF CInv
<1>1. CASE UNCHANGED vars
    BY <1>1 DEF vars, segVars
<1>2. CASE \E k \in Keys : put(k) \/ put_with_ttl(k) \/ delete(k)
    <2>1. PICK k \in Keys, op \in Op, auto \in BOOLEAN : WriteEntry(k, op, auto)
        BY <1>2 DEF put, put_with_ttl, delete, Op
    <2> QED BY <1>0, <2>1, Zenon DEF WriteEntry, Apply, FlushAll
<1>3. CASE flush \/ (\E ops \in Batches : commit_transaction(ops)) \/ begin_flush
    BY <1>3 DEF flush, commit_transaction, begin_flush, segVars
<1>4. CASE flush_to_segments
    BY <1>0, <1>4, Zenon DEF flush_to_segments, FlushAll
<1>5. CASE \E work \in flushes : finalize_flush(work) \/ abort_flush(work)
    BY <1>0, <1>5
<1>6. CASE \E kind \in CrashKinds : Reopen(kind)
    BY <1>6, Zenon DEF Reopen, Restart, Open
<1>7. CASE \E kind \in CrashKinds \ {"close"}, ops \in Batches :
              \E j \in DOMAIN ops : CrashInCommit(kind, ops, j)
    BY <1>7, Zenon DEF CrashInCommit, Restart, Open
<1>8. CASE \E kind \in CrashKinds \ {"close"} :
              \E work \in FlushableWork, cut \in DOMAIN wal : CrashInFinalize(kind, work, cut)
    <2>1. FlushableWork = {}
        BY <1>0 DEF FlushableWork
    <2> QED BY <1>8, <2>1
<1> QED BY <1>1, <1>2, <1>3, <1>4, <1>5, <1>6, <1>7, <1>8 DEF Next

\* The blocking Engine implements DurableStore under clean closes and kills, for
\* as long as no flush precedes a second restart: one restart whatever was
\* flushed, or any number of them without flushes.
THEOREM BlockingRefines ==
    ASSUME MaxInFlight = 0, CrashKinds \subseteq {"close", "kill"}, MaxRestarts <= 1 \/ MaxSegments = 0
    PROVE  Spec => RefinesDurableStore
<1> DEFINE RInv == BInv /\ (MaxSegments = 0 => manifest = <<>>)
<1>1. Init => RInv
    BY InitBInv DEF Init
<1>2. RInv /\ [Next]_vars => RInv'
    BY NextBInv, NoSegments DEF BInv
<1>3. Init => Store!Init
    <2> SUFFICES ASSUME Init PROVE Store!Init
        OBVIOUS
    <2>1. \A k \in Keys : Get(memtable, manifest, k) = Absent
        BY DEF Init, EmptyMem, Get, GetEntry, SegmentGet
    <2> QED BY <2>1 DEF Init, Store!Init
<1>4. RInv /\ [Next]_vars => [Store!Next]_(Store!vars)
    <2> SUFFICES ASSUME RInv, [Next]_vars PROVE [Store!Next]_(Store!vars)
        OBVIOUS
    <2>1. CInv /\ IInv /\ restarts \in Nat /\ MaxRestarts \in Nat
        BY StateFacts, ConstantsAssumption DEF BInv, CInv
    <2>2. CASE restarts' = restarts
        <3>1. Store!Write \/ Store!Harden \/ UNCHANGED Store!vars
            BY <2>1, <2>2, SessionRefines
        <3> QED BY <3>1 DEF Store!Next
    <2>3. CASE restarts' # restarts
        <3>1. restarts < MaxRestarts
            BY <2>3, RestartsCounted
        <3>2. Undisturbed
            BY <2>1, <3>1 DEF Undisturbed
        <3>3. InOrder /\ Faithful
            BY <3>2 DEF BInv, OrderInv
        <3>4. Store!Restart
            BY <2>1, <2>3, <3>3, CrashRefines
        <3> QED BY <3>4 DEF Store!Next
    <2> QED BY <2>2, <2>3
<1> HIDE DEF RInv
<1> QED BY <1>1, <1>2, <1>3, <1>4, PTL DEF Spec, RefinesDurableStore, Store!Spec
=============================================================================
