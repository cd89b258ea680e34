--------------------------- MODULE LogFilesProofs ---------------------------
(***************************************************************************)
(* Theorems about LogFiles, for every value of its constants: what an      *)
(* fsync of the WAL covered is found again after a power failure, recovery *)
(* finds a prefix of the records the engine had applied, and manifest.mf   *)
(* lists the flushed data that nobody has removed, wherever it is cut.     *)
(*                                                                         *)
(* A file is described by the sequence of records framed in it and by the  *)
(* cell where each frame starts; behind the last frame there may be the    *)
(* beginning of another one.                                               *)
(***************************************************************************)
EXTENDS LogFiles, ListProofs

USE LogFilesAssumption
-----------------------------------------------------------------------------
(***************************************************************************)
(* Downward recursion: a function on an interval whose value at p depends  *)
(* on those above p.                                                       *)
(***************************************************************************)
\* G computes the value at p of a function from its values above p.
Downward(lo, hi, S, G) ==
    /\ G \in [(lo..hi) \X [lo..hi -> S] -> S]
    /\ \A p \in lo..hi : \A f, g \in [lo..hi -> S] :
          (\A q \in lo..hi : q > p => f[q] = g[q]) => G[<<p, f>>] = G[<<p, g>>]

\* f takes the values that G computes.
Solves(f, lo, hi, S, G) == f \in [lo..hi -> S] /\ \A p \in lo..hi : f[p] = G[<<p, f>>]

LEMMA DownwardExists ==
    ASSUME NEW lo \in Nat, NEW hi \in Nat, NEW S, S # {}, NEW G, Downward(lo, hi, S, G)
    PROVE  \E f : Solves(f, lo, hi, S, G)
<1> DEFINE D == lo..hi
           Upto(m, f) == \A p \in D : p > hi - m => f[p] = G[<<p, f>>]
           Good == {m \in 0..(hi + 1) : \E f \in [D -> S] : Upto(m, f)}
<1>1. 0 \in Good
    <2>1. PICK x : x \in S
        OBVIOUS
    <2>2. [p \in D |-> x] \in [D -> S]
        BY <2>1
    <2>3. \A p \in D : ~(p > hi - 0)
        OBVIOUS
    <2>4. Upto(0, [p \in D |-> x])
        BY <2>3
    <2> HIDE DEF Upto, D
    <2> QED BY <2>2, <2>4
<1>2. ASSUME NEW m \in 1..(hi + 1), m - 1 \in Good PROVE m \in Good
    <2>1. PICK f \in [D -> S] : Upto(m - 1, f)
        BY <1>2
    <2> DEFINE q == hi - m + 1
    <2>2. CASE q \notin D
        <3>1. \A p \in D : p > hi - m => p > hi - (m - 1)
            BY <2>2
        <3>2. Upto(m, f)
            BY <2>1, <3>1
        <3> HIDE DEF Upto, D
        <3> QED BY <3>2
    <2>3. CASE q \in D
        <3> DEFINE g == [f EXCEPT ![q] = G[<<q, f>>]]
        <3>1. G[<<q, f>>] \in S
            BY <2>3 DEF Downward
        <3>2. g \in [D -> S]
            BY <3>1
        <3>3. \A p \in D : p # q => g[p] = f[p]
            OBVIOUS
        <3>4. g[q] = G[<<q, f>>]
            BY <2>3
        <3> HIDE DEF g
        <3>5. ASSUME NEW p \in D, p >= q PROVE G[<<p, g>>] = G[<<p, f>>]
            <4>1. \A r \in D : r > p => g[r] = f[r]
                BY <3>3, <3>5
            <4> QED BY <3>2, <4>1 DEF Downward
        <3>6. ASSUME NEW p \in D, p > hi - m PROVE g[p] = G[<<p, g>>]
            <4>1. p >= q
                BY <3>6
            <4>2. CASE p = q
                BY <3>4, <3>5, <4>1, <4>2
            <4>3. CASE p # q
                <5>1. p > hi - (m - 1)
                    BY <4>1, <4>3
                <5> QED BY <2>1, <3>3, <3>5, <4>1, <4>3, <5>1
            <4> QED BY <4>2, <4>3
        <3>7. Upto(m, g)
            BY <3>6
        <3> HIDE DEF Upto, D
        <3> QED BY <3>2, <3>7
    <2> QED BY <2>2, <2>3
<1>3. hi + 1 \in Good
    <2>1. hi + 1 \in Nat
        OBVIOUS
    <2> HIDE DEF Good
    <2> QED BY <1>1, <1>2, <2>1, Reaches
<1>4. PICK f \in [D -> S] : Upto(hi + 1, f)
    BY <1>3
<1>5. \A p \in lo..hi : f[p] = G[<<p, f>>]
    BY <1>4
<1> QED BY <1>4, <1>5 DEF Solves
-----------------------------------------------------------------------------
(***************************************************************************)
(* Frames and cells.                                                       *)
(***************************************************************************)
LEMMA FrameFacts ==
    ASSUME NEW rec \in Record, NEW len \in Nat
    PROVE  /\ Frame(rec, len) \in Seq(Cell) /\ Len(Frame(rec, len)) = len + 2
           /\ \A i \in 1..(len + 2) : Frame(rec, len)[i] = [rec |-> rec, pos |-> i, len |-> len]
<1>1. \A i \in 1..(len + 2) : [rec |-> rec, pos |-> i, len |-> len] \in Cell
    BY DEF Cell
<1> QED BY <1>1 DEF Frame

LEMMA HeaderFacts ==
    Header \in Seq(Cell) /\ Len(Header) = 2
<1>1. [op |-> "Header", n |-> 0, from |-> {}] \in Record
    BY DEF Record
<1>2. \A i \in 1..2 : [rec |-> [op |-> "Header", n |-> 0, from |-> {}], pos |-> i, len |-> 0] \in Cell
    BY <1>1 DEF Cell
<1> QED BY <1>2 DEF Header

LEMMA CellFacts ==
    ASSUME NEW d \in Seq(Cell), NEW p \in 1..Len(d)
    PROVE  /\ d[p] \in Cell /\ d[p].rec \in Record /\ d[p].pos \in Nat /\ d[p].len \in Nat
           /\ Len(d) \in Nat
<1>1. d[p] \in Cell
    OBVIOUS
<1> QED BY <1>1 DEF Cell

\* What SubSeq(d, 1, m) keeps.
LEMMA CutFacts ==
    ASSUME NEW S, NEW d \in Seq(S), NEW m \in 0..Len(d)
    PROVE  /\ SubSeq(d, 1, m) \in Seq(S) /\ Len(SubSeq(d, 1, m)) = m
           /\ \A i \in 1..m : SubSeq(d, 1, m)[i] = d[i]
OBVIOUS

\* e is d followed by u.
Joined(S, d, u, e) ==
    /\ e \in Seq(S) /\ Len(e) = Len(d) + Len(u)
    /\ \A i \in 1..Len(d) : e[i] = d[i]
    /\ \A i \in 1..Len(u) : e[Len(d) + i] = u[i]

LEMMA JoinFacts ==
    ASSUME NEW S, NEW d \in Seq(S), NEW u \in Seq(S)
    PROVE  Joined(S, d, u, d \o u)
BY DEF Joined

LEMMA CutCut ==
    ASSUME NEW S, NEW d \in Seq(S), NEW m \in 0..Len(d), NEW k \in 0..m
    PROVE  SubSeq(SubSeq(d, 1, m), 1, k) = SubSeq(d, 1, k)
<1> DEFINE a == SubSeq(d, 1, m)
           b == SubSeq(a, 1, k)
           c == SubSeq(d, 1, k)
<1>1. a \in Seq(S) /\ Len(a) = m /\ \A i \in 1..m : a[i] = d[i]
    OBVIOUS
<1>2. k \in 0..Len(d) /\ k \in 0..Len(a)
    BY <1>1
<1>3. c \in Seq(S) /\ Len(c) = k /\ \A i \in 1..k : c[i] = d[i]
    BY <1>2, CutFacts
<1> HIDE DEF a
<1>4. b \in Seq(S) /\ Len(b) = k /\ \A i \in 1..k : b[i] = a[i]
    BY <1>1, <1>2, CutFacts
<1> HIDE DEF b, c
<1>5. \A i \in 1..Len(b) : b[i] = c[i]
    BY <1>1, <1>3, <1>4
<1>6. b = c
    BY <1>3, <1>4, <1>5, SeqEqual
<1> QED BY <1>6 DEF a, b, c
-----------------------------------------------------------------------------
(***************************************************************************)
(* read_records.  Its table exists, and holds sequences of records.        *)
(***************************************************************************)
\* What the reader finds from cell p on, from a frame of length l or from any.
AfterFrame(d, F, p, l) ==
    IF p + 1 + l > Len(d) THEN {<<>>}
    ELSE IF IsFrame(d, p) /\ d[p].len = l
         THEN {<<d[p].rec>> \o s : s \in F[p + 2 + l]}
         ELSE F[p + 2 + l]
ReadStep(d, F, p) ==
    IF p + 1 > Len(d) THEN {<<>>} ELSE UNION {AfterFrame(d, F, p, l) : l \in LenAt(d, p + 1)}
ReadTable(d, F) == F = [p \in 3..(Len(d) + 2) |-> ReadStep(d, F, p)]

\* The places of a frame of l cells of payload in a file of n cells.
LEMMA RoomForFrame ==
    ASSUME NEW n \in Nat, NEW p \in 3..(n + 1), NEW l \in Nat, p + l + 1 <= n
    PROVE  p + 2 + l \in 3..(n + 1) /\ p + 2 + l > p
OBVIOUS

LEMMA FrameInside ==
    ASSUME NEW n \in Nat, NEW p \in 3..(n + 1), NEW l \in Nat, NEW q \in 3..(n + 1), q = p + 2 + l
    PROVE  ~(p + 1 > n) /\ ~(p + 1 + l > n)
OBVIOUS

LEMMA LengthsAreNat ==
    ASSUME NEW d \in Seq(Cell), NEW p \in 1..Len(d)
    PROVE  LenAt(d, p) \in SUBSET Nat
<1>1. d[p].len \in Nat /\ Len(d) \in Nat
    BY CellFacts
<1> QED BY <1>1 DEF LenAt

\* A step looks only at larger positions.
LEMMA ReadStepLocal ==
    ASSUME NEW d \in Seq(Cell), NEW p \in 3..(Len(d) + 2), NEW f, NEW g,
           \A q \in 3..(Len(d) + 2) : q > p => f[q] = g[q]
    PROVE  ReadStep(d, f, p) = ReadStep(d, g, p)
<1>1. CASE p + 1 > Len(d)
    BY <1>1 DEF ReadStep
<1>2. CASE ~(p + 1 > Len(d))
    <2>1. LenAt(d, p + 1) \in SUBSET Nat
        BY <1>2, LengthsAreNat
    <2>2. ASSUME NEW l \in LenAt(d, p + 1) PROVE AfterFrame(d, f, p, l) = AfterFrame(d, g, p, l)
        <3>1. l \in Nat
            BY <2>1
        <3>2. ~(p + 1 + l > Len(d)) => p + 2 + l \in 3..(Len(d) + 2) /\ p + 2 + l > p
            BY <3>1
        <3>3. ~(p + 1 + l > Len(d)) => f[p + 2 + l] = g[p + 2 + l]
            BY <3>2
        <3> QED BY <3>3 DEF AfterFrame
    <2>3. {AfterFrame(d, f, p, l) : l \in LenAt(d, p + 1)} = {AfterFrame(d, g, p, l) : l \in LenAt(d, p + 1)}
        BY <2>2
    <2> QED BY <2>3 DEF ReadStep
<1> QED BY <1>1, <1>2

LEMMA ReadStepTyped ==
    ASSUME NEW d \in Seq(Cell), NEW p \in 3..(Len(d) + 2), NEW f,
           \A q \in 3..(Len(d) + 2) : q > p => f[q] \in SUBSET Seq(Record)
    PROVE  ReadStep(d, f, p) \in SUBSET Seq(Record)
<1>0. <<>> \in Seq(Record)
    OBVIOUS
<1>1. CASE p + 1 > Len(d)
    BY <1>0, <1>1 DEF ReadStep
<1>2. CASE ~(p + 1 > Len(d))
    <2>1. LenAt(d, p + 1) \in SUBSET Nat
        BY <1>2, LengthsAreNat
    <2>2. ASSUME NEW l \in LenAt(d, p + 1) PROVE AfterFrame(d, f, p, l) \in SUBSET Seq(Record)
        <3>1. l \in Nat
            BY <2>1
        <3>2. ~(p + 1 + l > Len(d)) => p + 2 + l \in 3..(Len(d) + 2) /\ p + 2 + l > p
            BY <3>1
        <3>3. ~(p + 1 + l > Len(d)) => f[p + 2 + l] \in SUBSET Seq(Record)
            BY <3>2
        <3>4. d[p].rec \in Record
            BY <1>2, CellFacts
        <3>5. <<d[p].rec>> \in Seq(Record)
            BY <3>4
        <3>6. \A s \in Seq(Record) : <<d[p].rec>> \o s \in Seq(Record)
            BY <3>5
        <3> QED BY <1>0, <3>3, <3>6 DEF AfterFrame
    <2>3. ReadStep(d, f, p) = UNION {AfterFrame(d, f, p, l) : l \in LenAt(d, p + 1)}
        BY <1>2 DEF ReadStep
    <2> QED BY <2>2, <2>3
<1> QED BY <1>1, <1>2

LEMMA ReadTableExists ==
    ASSUME NEW d \in Seq(Cell)
    PROVE  \E F : ReadTable(d, F)
<1> DEFINE hi == Len(d) + 2
           P == 3..hi
           S == SUBSET Seq(Record)
           G == [x \in P \X [P -> S] |-> ReadStep(d, x[2], x[1])]
<1>0. hi \in Nat /\ 3 \in Nat /\ S # {}
    BY SMTT(30)
<1>1. G \in [P \X [P -> S] -> S]
    <2> SUFFICES ASSUME NEW p \in P, NEW f \in [P -> S] PROVE ReadStep(d, f, p) \in S
        OBVIOUS
    <2>1. \A q \in P : f[q] \in S
        OBVIOUS
    <2> QED BY <2>1, ReadStepTyped
<1>2. \A p \in P, f \in [P -> S] : G[<<p, f>>] = ReadStep(d, f, p)
    OBVIOUS
<1> HIDE DEF G
<1>3. ASSUME NEW p \in P, NEW f \in [P -> S], NEW g \in [P -> S],
             \A q \in P : q > p => f[q] = g[q]
      PROVE  G[<<p, f>>] = G[<<p, g>>]
    <2>1. ReadStep(d, f, p) = ReadStep(d, g, p)
        BY <1>3, ReadStepLocal
    <2> QED BY <1>2, <2>1
<1>4. Downward(3, hi, S, G)
    BY <1>1, <1>3 DEF Downward
<1>5. PICK F \in [P -> S] : \A p \in P : F[p] = G[<<p, F>>]
    <2> HIDE DEF S, hi
    <2>1. \E f : Solves(f, 3, hi, S, G)
        BY <1>0, <1>4, DownwardExists
    <2> QED BY <2>1 DEF Solves
<1>6. \A p \in P : F[p] = ReadStep(d, F, p)
    BY <1>2, <1>5
<1>7. F = [p \in P |-> F[p]]
    BY <1>5
<1> QED BY <1>6, <1>7 DEF ReadTable

LEMMA ReadRecordsFacts ==
    ASSUME NEW d \in Seq(Cell)
    PROVE  \E F : ReadTable(d, F) /\ ReadRecords(d) = F[3]
<1> DEFINE Run == CHOOSE F : ReadTable(d, F)
<1>1. ReadTable(d, Run)
    BY ReadTableExists, Zenon
<1>2. ReadRecords(d) = Run[3]
    BY DEF ReadRecords, ReadTable, ReadStep, AfterFrame
<1> QED BY <1>1, <1>2, Zenon

\* What the reader finds is made of records, whatever the file holds.
LEMMA ReadRecordsTyped ==
    ASSUME NEW d \in Seq(Cell), Len(d) >= 2
    PROVE  ReadRecords(d) \in SUBSET Seq(Record)
<1>1. PICK F : ReadTable(d, F) /\ ReadRecords(d) = F[3]
    BY ReadRecordsFacts
<1> DEFINE n == Len(d)
           Ok == {i \in Nat : \A q \in 3..(n + 2) : q >= n + 2 - i => F[q] \in SUBSET Seq(Record)}
<1>0. n \in Nat
    OBVIOUS
<1>2. \A p \in 3..(n + 2) : F[p] = ReadStep(d, F, p)
    BY <1>1 DEF ReadTable
<1>3. ASSUME NEW p \in 3..(n + 2), \A q \in 3..(n + 2) : q > p => F[q] \in SUBSET Seq(Record)
      PROVE  F[p] \in SUBSET Seq(Record)
    <2>1. ReadStep(d, F, p) \in SUBSET Seq(Record)
        BY <1>3, ReadStepTyped
    <2> QED BY <1>2, <2>1
<1> HIDE DEF n
<1>4. 0 \in Ok
    <2>1. ASSUME NEW p \in 3..(n + 2), p >= n + 2 - 0 PROVE F[p] \in SUBSET Seq(Record)
        <3>1. \A q \in 3..(n + 2) : ~(q > p)
            BY <1>0, <2>1
        <3> QED BY <1>3, <3>1
    <2> QED BY <2>1
<1>5. ASSUME NEW i \in 1..n, i - 1 \in Ok PROVE i \in Ok
    <2>1. ASSUME NEW p \in 3..(n + 2), p >= n + 2 - i PROVE F[p] \in SUBSET Seq(Record)
        <3>1. \A q \in 3..(n + 2) : q > p => q >= n + 2 - (i - 1)
            BY <1>0, <2>1
        <3>2. \A q \in 3..(n + 2) : q > p => F[q] \in SUBSET Seq(Record)
            BY <1>5, <3>1
        <3> QED BY <1>3, <3>2
    <2> QED BY <1>0, <2>1
<1>6. n \in Ok
    <2> HIDE DEF Ok
    <2> QED BY <1>0, <1>4, <1>5, Reaches
<1>7. 3 \in 3..(n + 2) /\ 3 >= n + 2 - n
    BY <1>0 DEF n
<1>8. F[3] \in SUBSET Seq(Record)
    BY <1>6, <1>7
<1> QED BY <1>1, <1>8
-----------------------------------------------------------------------------
(***************************************************************************)
(* Layouts: the frames of the records rs follow one another from the cells *)
(* b[0], b[1], ... on, and at most a part of a frame follows.              *)
(***************************************************************************)
FrameAt(d, p, r, l) ==
    /\ p + l + 1 <= Len(d)
    /\ \A i \in 1..(l + 2) : d[p + i - 1] = [rec |-> r, pos |-> i, len |-> l]

\* From cell p on, d has less than a frame.
Torn(d, p) == p + 1 <= Len(d) => d[p + 1].pos = 2 /\ p + 1 + d[p + 1].len > Len(d)

Layout(d, b, rs) ==
    /\ b \in [0..Len(rs) -> 3..(Len(d) + 1)]
    /\ b[0] = 3
    /\ \A i \in 1..Len(rs) : /\ b[i - 1] + 2 <= b[i]
                             /\ FrameAt(d, b[i - 1], rs[i], b[i] - b[i - 1] - 2)
    /\ Torn(d, b[Len(rs)])

\* The records of a file; one without a whole header counts as empty.
Holds(d, rs) ==
    /\ d \in Seq(Cell) /\ rs \in Seq(Record)
    /\ IF Len(d) >= 2 THEN \E b : Layout(d, b, rs) ELSE rs = <<>>

\* IsFrame recognises exactly the frames.
LEMMA FrameIsFrame ==
    ASSUME NEW d \in Seq(Cell), NEW p \in 1..Len(d), NEW r \in Record, NEW l \in Nat,
           FrameAt(d, p, r, l)
    PROVE  IsFrame(d, p) /\ d[p].rec = r /\ d[p].len = l /\ d[p + 1].pos = 2 /\ d[p + 1].len = l
<1>1. /\ p + l + 1 <= Len(d)
      /\ \A i \in 1..(l + 2) : d[p + i - 1] = [rec |-> r, pos |-> i, len |-> l]
    BY DEF FrameAt
<1>2. d[p] = [rec |-> r, pos |-> 1, len |-> l]
    <2>1. 1 \in 1..(l + 2) /\ p + 1 - 1 = p
        OBVIOUS
    <2> QED BY <1>1, <2>1
<1>3. d[p + 1] = [rec |-> r, pos |-> 2, len |-> l]
    <2>1. 2 \in 1..(l + 2) /\ p + 2 - 1 = p + 1
        OBVIOUS
    <2> QED BY <1>1, <2>1
<1> DEFINE t == SubSeq(d, p, p + l + 1)
           u == Frame(r, l)
<1>4. t \in Seq(Cell) /\ Len(t) = l + 2 /\ \A i \in 1..(l + 2) : t[i] = d[p + i - 1]
    BY <1>1, SMTT(30)
<1>5. u \in Seq(Cell) /\ Len(u) = l + 2
      /\ \A i \in 1..(l + 2) : u[i] = [rec |-> r, pos |-> i, len |-> l]
    BY FrameFacts
<1> HIDE DEF t, u
<1>6. t = u
    <2>1. Len(t) = Len(u) /\ \A i \in 1..Len(t) : t[i] = u[i]
        BY <1>1, <1>4, <1>5
    <2> QED BY <1>4, <1>5, <2>1, SeqEqual
<1>7. d[p].rec = r /\ d[p].len = l /\ d[p + 1].pos = 2 /\ d[p + 1].len = l
    BY <1>2, <1>3
<1> QED BY <1>1, <1>6, <1>7 DEF IsFrame, t, u

\* The rest of a frame that was cut is not taken for a frame.
LEMMA TornIsNoFrame ==
    ASSUME NEW d \in Seq(Cell), NEW p \in 1..Len(d), Torn(d, p)
    PROVE  ~IsFrame(d, p)
<1> SUFFICES ASSUME IsFrame(d, p) PROVE FALSE
    OBVIOUS
<1> DEFINE l == d[p].len
           r == d[p].rec
           t == SubSeq(d, p, p + l + 1)
<1>1. l \in Nat /\ r \in Record /\ Len(d) \in Nat
    BY CellFacts
<1>2. p + l + 1 <= Len(d) /\ t = Frame(r, l)
    BY DEF IsFrame
<1> HIDE DEF l, r
<1>3. t[2] = d[p + 1]
    BY <1>1, <1>2
<1>4. Frame(r, l)[2] = [rec |-> r, pos |-> 2, len |-> l]
    <2>1. 2 \in 1..(l + 2)
        BY <1>1
    <2> QED BY <1>1, <2>1, FrameFacts
<1> HIDE DEF t
<1>5. d[p + 1].len = l
    <2>1. d[p + 1] = [rec |-> r, pos |-> 2, len |-> l]
        BY <1>2, <1>3, <1>4
    <2> QED BY <2>1
<1>6. p + 1 <= Len(d)
    BY <1>1, <1>2
<1>7. p + 1 + l > Len(d)
    BY <1>5, <1>6 DEF Torn
<1> QED BY <1>1, <1>2, <1>7

\* What a layout says of the cell where a frame starts.
Starts(d, p, q, r) ==
    /\ p \in 3..(Len(d) + 1) /\ q \in 3..(Len(d) + 1) /\ p \in 1..Len(d)
    /\ r \in Record /\ q - p - 2 \in Nat
    /\ IsFrame(d, p) /\ d[p].rec = r /\ d[p].len = q - p - 2
    /\ LenAt(d, p + 1) = {q - p - 2}

LEMMA LayoutFrame ==
    ASSUME NEW d \in Seq(Cell), NEW rs \in Seq(Record), NEW b, Layout(d, b, rs),
           NEW i \in 1..Len(rs)
    PROVE  Starts(d, b[i - 1], b[i], rs[i])
<1> DEFINE p == b[i - 1]
           q == b[i]
<1>1. i \in 0..Len(rs) /\ i - 1 \in 0..Len(rs) /\ Len(d) \in Nat
    OBVIOUS
<1>2. p \in 3..(Len(d) + 1) /\ q \in 3..(Len(d) + 1)
    BY <1>1 DEF Layout
<1>3. p + 2 <= q /\ FrameAt(d, p, rs[i], q - p - 2) /\ rs[i] \in Record
    BY DEF Layout
<1> HIDE DEF p, q
<1>4. p \in 1..Len(d) /\ q - p - 2 \in Nat
    BY <1>1, <1>2, <1>3
<1>5. IsFrame(d, p) /\ d[p].rec = rs[i] /\ d[p].len = q - p - 2
      /\ d[p + 1].pos = 2 /\ d[p + 1].len = q - p - 2
    BY <1>3, <1>4, FrameIsFrame, SMTT(30)
<1>6. LenAt(d, p + 1) = {q - p - 2}
    BY <1>5 DEF LenAt
<1>7. Starts(d, p, q, rs[i])
    BY <1>2, <1>3, <1>4, <1>5, <1>6 DEF Starts
<1> QED BY <1>7 DEF p, q

\* The reader finds the records of a layout and stops behind them.
LEMMA LayoutRead ==
    ASSUME NEW d \in Seq(Cell), Len(d) >= 2, NEW rs \in Seq(Record), NEW b, Layout(d, b, rs)
    PROVE  ReadRecords(d) = {rs}
<1>1. PICK F : ReadTable(d, F) /\ ReadRecords(d) = F[3]
    BY ReadRecordsFacts
<1>2. \A p \in 3..(Len(d) + 2) : F[p] = ReadStep(d, F, p)
    BY <1>1 DEF ReadTable
<1> DEFINE n == Len(rs)
           Rest(i) == SubSeq(rs, i + 1, n)
           Ok == {j \in 0..n : F[b[n - j]] = {Rest(n - j)}}
<1>3. n \in Nat /\ Len(d) \in Nat
    OBVIOUS
<1>4. 0 \in Ok
    <2> DEFINE p == b[n]
    <2>1. p \in 3..(Len(d) + 1) /\ Torn(d, p)
        BY <1>3 DEF Layout
    <2>2. F[p] = ReadStep(d, F, p)
        BY <1>2, <1>3, <2>1
    <2> HIDE DEF p
    <2>3. ReadStep(d, F, p) = {<<>>}
        <3>1. CASE p + 1 > Len(d)
            BY <3>1 DEF ReadStep
        <3>2. CASE ~(p + 1 > Len(d))
            <4>1. p + 1 <= Len(d)
                BY <1>3, <2>1, <3>2
            <4>2. d[p + 1].pos = 2 /\ p + 1 + d[p + 1].len > Len(d)
                BY <2>1, <4>1 DEF Torn
            <4>3. LenAt(d, p + 1) = {d[p + 1].len}
                BY <4>2 DEF LenAt
            <4>4. AfterFrame(d, F, p, d[p + 1].len) = {<<>>}
                BY <4>2 DEF AfterFrame
            <4>5. UNION {AfterFrame(d, F, p, l) : l \in LenAt(d, p + 1)} = {<<>>}
                BY <4>3, <4>4
            <4> QED BY <3>2, <4>5 DEF ReadStep
        <3> QED BY <3>1, <3>2
    <2>4. Rest(n) = <<>>
        BY <1>3
    <2>5. n - 0 = n
        BY <1>3
    <2> HIDE DEF Rest
    <2> QED BY <1>3, <2>2, <2>3, <2>4, <2>5 DEF p
<1>5. ASSUME NEW j \in 1..n, j - 1 \in Ok PROVE j \in Ok
    <2> DEFINE i == n - j + 1
               p == b[i - 1]
               q == b[i]
               l == q - p - 2
    <2>1. i \in 1..n /\ n - (j - 1) = i /\ n - j = i - 1
        BY <1>3
    <2>2. F[b[i]] = {Rest(i)}
        BY <1>5, <2>1
    <2> HIDE DEF i
    <2>0. Starts(d, p, q, rs[i])
        BY <2>1, LayoutFrame
    <2> HIDE DEF p, q
    <2>3. /\ p \in 3..(Len(d) + 1) /\ q \in 3..(Len(d) + 1) /\ p \in 1..Len(d)
          /\ l \in Nat /\ IsFrame(d, p) /\ d[p].rec = rs[i] /\ d[p].len = l
          /\ LenAt(d, p + 1) = {l} /\ rs[i] \in Record
        BY <2>0 DEF Starts
    <2>4. q = p + 2 + l
        BY <2>3
    <2> HIDE DEF l
    <2>5. ~(p + 1 > Len(d)) /\ ~(p + 1 + l > Len(d))
        <3>1. Len(d) \in Nat
            OBVIOUS
        <3> QED BY <2>3, <2>4, <3>1, FrameInside, Zenon
    <2>6. AfterFrame(d, F, p, l) = {<<rs[i]>> \o s : s \in F[p + 2 + l]}
        BY <2>3, <2>5 DEF AfterFrame
    <2>7. {<<rs[i]>> \o s : s \in F[p + 2 + l]} = {<<rs[i]>> \o Rest(i)}
        <3>1. F[p + 2 + l] = {Rest(i)}
            BY <2>2, <2>4 DEF q
        <3> HIDE DEF Rest
        <3> QED BY <3>1
    <2>8. <<rs[i]>> \o Rest(i) = Rest(i - 1)
        <3>1. i \in 1..Len(rs) /\ n \in i..Len(rs) /\ i - 1 + 1 = i
            BY <1>3, <2>1
        <3> QED BY <3>1, SubSeqRecursiveFirst
    <2> HIDE DEF Rest
    <2>9. ReadStep(d, F, p) = {Rest(i - 1)}
        <3>1. UNION {AfterFrame(d, F, p, x) : x \in LenAt(d, p + 1)} = AfterFrame(d, F, p, l)
            BY <2>3
        <3> QED BY <2>5, <2>6, <2>7, <2>8, <3>1 DEF ReadStep
    <2>10. F[p] = {Rest(i - 1)}
        <3>1. p \in 3..(Len(d) + 2)
            BY <1>3, <2>3
        <3> QED BY <1>2, <2>9, <3>1
    <2>11. F[b[n - j]] = {Rest(n - j)}
        BY <2>1, <2>10 DEF p
    <2> QED BY <2>11
<1>6. n \in Ok
    <2> HIDE DEF Ok, n
    <2> QED BY <1>3, <1>4, <1>5, Reaches
<1>7. F[b[0]] = {Rest(0)}
    <2>1. n - n = 0
        BY <1>3
    <2> HIDE DEF Rest
    <2> QED BY <1>6, <2>1
<1>8. Rest(0) = rs /\ b[0] = 3
    BY <1>3 DEF Layout
<1> HIDE DEF Rest
<1> QED BY <1>1, <1>7, <1>8
-----------------------------------------------------------------------------
(***************************************************************************)
(* Whole.                                                                  *)
(***************************************************************************)
WholeStep(d, F, p) == p > Len(d) \/ (IsFrame(d, p) /\ F[p + 2 + d[p].len])
WholeTable(d, F) == F = [p \in 3..(Len(d) + 1) |-> WholeStep(d, F, p)]

LEMMA FrameEnds ==
    ASSUME NEW d \in Seq(Cell), NEW p \in 3..(Len(d) + 1), ~(p > Len(d)), IsFrame(d, p)
    PROVE  p + 2 + d[p].len \in 3..(Len(d) + 1) /\ p + 2 + d[p].len > p
<1>1. p \in 1..Len(d)
    OBVIOUS
<1>2. d[p].len \in Nat /\ Len(d) \in Nat
    BY <1>1, CellFacts
<1>3. p + d[p].len + 1 <= Len(d)
    BY DEF IsFrame
<1> QED BY <1>2, <1>3, RoomForFrame, Zenon

LEMMA WholeTableExists ==
    ASSUME NEW d \in Seq(Cell)
    PROVE  \E F : WholeTable(d, F)
<1> DEFINE hi == Len(d) + 1
           P == 3..hi
           S == BOOLEAN
           G == [x \in P \X [P -> S] |-> WholeStep(d, x[2], x[1])]
<1>0. hi \in Nat /\ 3 \in Nat /\ S # {}
    <2>1. TRUE \in BOOLEAN
        OBVIOUS
    <2>2. BOOLEAN # {}
        BY <2>1, Zenon
    <2> QED BY <2>2
<1>1. G \in [P \X [P -> S] -> S]
    <2> SUFFICES ASSUME NEW p \in P, NEW f \in [P -> S] PROVE WholeStep(d, f, p) \in S
        OBVIOUS
    <2> QED BY DEF WholeStep
<1>2. \A p \in P, f \in [P -> S] : G[<<p, f>>] = WholeStep(d, f, p)
    OBVIOUS
<1> HIDE DEF G
<1>3. ASSUME NEW p \in P, NEW f \in [P -> S], NEW g \in [P -> S],
             \A q \in P : q > p => f[q] = g[q]
      PROVE  G[<<p, f>>] = G[<<p, g>>]
    <2>1. ~(p > Len(d)) /\ IsFrame(d, p) => f[p + 2 + d[p].len] = g[p + 2 + d[p].len]
        BY <1>3, FrameEnds
    <2>2. WholeStep(d, f, p) = WholeStep(d, g, p)
        BY <2>1 DEF WholeStep
    <2> QED BY <1>2, <2>2
<1>4. Downward(3, hi, S, G)
    BY <1>1, <1>3 DEF Downward
<1>5. PICK F \in [P -> S] : \A p \in P : F[p] = G[<<p, F>>]
    <2> HIDE DEF S, hi
    <2>1. \E f : Solves(f, 3, hi, S, G)
        BY <1>0, <1>4, DownwardExists
    <2> QED BY <2>1 DEF Solves
<1>6. \A p \in P : F[p] = WholeStep(d, F, p)
    BY <1>2, <1>5
<1>7. F = [p \in P |-> F[p]]
    BY <1>5
<1> QED BY <1>6, <1>7 DEF WholeTable

\* In a whole file nothing follows the last frame.
LEMMA WholeHasNoTail ==
    ASSUME NEW d \in Seq(Cell), NEW rs \in Seq(Record), NEW b, Layout(d, b, rs), Whole(d)
    PROVE  b[Len(rs)] = Len(d) + 1
<1> DEFINE F == CHOOSE f : WholeTable(d, f)
           n == Len(rs)
           Ok == {i \in 0..n : F[b[i]]}
<1>0. n \in Nat /\ Len(d) \in Nat
    OBVIOUS
<1>1. WholeTable(d, F)
    BY WholeTableExists, Zenon
<1>2. F[3]
    BY DEF Whole, WholeTable, WholeStep
<1> HIDE DEF F
<1>3. \A p \in 3..(Len(d) + 1) : F[p] = WholeStep(d, F, p)
    BY <1>1 DEF WholeTable
<1>4. 0 \in Ok
    BY <1>0, <1>2 DEF Layout
<1>5. ASSUME NEW i \in 1..n, i - 1 \in Ok PROVE i \in Ok
    <2> DEFINE p == b[i - 1]
               q == b[i]
    <2>1. Starts(d, p, q, rs[i])
        BY LayoutFrame
    <2>2. F[p]
        BY <1>5
    <2> HIDE DEF p, q
    <2>3. p \in 3..(Len(d) + 1) /\ q \in 3..(Len(d) + 1) /\ p \in 1..Len(d) /\ d[p].len = q - p - 2
        BY <2>1 DEF Starts
    <2>4. ~(p > Len(d)) /\ p + 2 + d[p].len = q
        BY <1>0, <2>3
    <2>5. WholeStep(d, F, p)
        BY <1>3, <2>2, <2>3
    <2>6. F[q]
        BY <2>4, <2>5 DEF WholeStep
    <2> QED BY <2>6 DEF q
<1>6. F[b[n]]
    <2>1. n \in Ok
        <3> HIDE DEF Ok, n
        <3> QED BY <1>0, <1>4, <1>5, Reaches
    <2> QED BY <2>1
<1>7. b[n] \in 3..(Len(d) + 1) /\ Torn(d, b[n])
    BY <1>0 DEF Layout
<1>8. WholeStep(d, F, b[n])
    BY <1>3, <1>6, <1>7
<1>9. CASE b[n] \in 1..Len(d)
    <2>1. ~IsFrame(d, b[n])
        BY <1>7, <1>9, TornIsNoFrame
    <2> QED BY <1>0, <1>8, <1>9, <2>1 DEF WholeStep
<1>10. CASE b[n] \notin 1..Len(d)
    BY <1>0, <1>7, <1>10
<1> QED BY <1>9, <1>10
-----------------------------------------------------------------------------
(***************************************************************************)
(* What appending and cutting do to a layout.                              *)
(***************************************************************************)
\* A frame is in every file that has its cells.
LEMMA FrameKept ==
    ASSUME NEW d, NEW e, NEW p \in Nat, NEW r, NEW l \in Nat, FrameAt(d, p, r, l), p >= 1,
           NEW m \in Nat, m <= Len(e), p + l + 1 <= m, \A i \in 1..m : e[i] = d[i], Len(e) \in Nat
    PROVE  FrameAt(e, p, r, l)
<1>1. ASSUME NEW i \in 1..(l + 2) PROVE e[p + i - 1] = [rec |-> r, pos |-> i, len |-> l]
    <2>1. p + i - 1 \in 1..m
        BY SMTT(30)
    <2>2. d[p + i - 1] = [rec |-> r, pos |-> i, len |-> l]
        BY DEF FrameAt
    <2> QED BY <2>1, <2>2
<1>2. p + l + 1 <= Len(e)
    OBVIOUS
<1> QED BY <1>1, <1>2 DEF FrameAt

\* Frame i of a layout is in every file that has the cells up to its end.
LEMMA LayoutKept ==
    ASSUME NEW d \in Seq(Cell), NEW rs \in Seq(Record), NEW b, Layout(d, b, rs), NEW i \in 1..Len(rs),
           NEW e \in Seq(Cell), NEW m \in Nat, m <= Len(e), b[i] <= m + 1, \A j \in 1..m : e[j] = d[j]
    PROVE  b[i - 1] + 2 <= b[i] /\ FrameAt(e, b[i - 1], rs[i], b[i] - b[i - 1] - 2)
<1> DEFINE p == b[i - 1]
           q == b[i]
           l == q - p - 2
<1>1. Starts(d, p, q, rs[i])
    BY LayoutFrame
<1>2. p + 2 <= q /\ FrameAt(d, p, rs[i], l)
    BY DEF Layout
<1> HIDE DEF p
<1>3. p \in Nat /\ p >= 1 /\ q \in Nat /\ l \in Nat
    BY <1>1, SMTT(30) DEF Starts
<1>4. p + l + 1 <= m /\ Len(e) \in Nat
    <2>1. q <= m + 1
        OBVIOUS
    <2> HIDE DEF q
    <2>2. p + l + 1 = q - 1
        BY <1>3
    <2> QED BY <1>3, <2>1, <2>2
<1> HIDE DEF q, l
<1>5. FrameAt(e, p, rs[i], l)
    BY <1>2, <1>3, <1>4, FrameKept
<1> QED BY <1>2, <1>5 DEF p, q, l

\* d holds the records rs and nothing behind them.
Exactly(d, rs) ==
    /\ d \in Seq(Cell) /\ rs \in Seq(Record) /\ Len(d) >= 2
    /\ \E b : Layout(d, b, rs) /\ b[Len(rs)] = Len(d) + 1

LEMMA ExactlyHolds ==
    ASSUME NEW d, NEW rs
    PROVE  /\ Holds(d, rs) /\ Whole(d) => Exactly(d, rs)
           /\ Exactly(d, rs) => Holds(d, rs)
<1>1. ASSUME Holds(d, rs), Whole(d) PROVE Exactly(d, rs)
    <2>1. d \in Seq(Cell) /\ rs \in Seq(Record) /\ Len(d) >= 2
        BY <1>1 DEF Holds, Whole, ValidHeader
    <2>2. PICK b : Layout(d, b, rs)
        BY <1>1, <2>1 DEF Holds
    <2>3. b[Len(rs)] = Len(d) + 1
        BY <1>1, <2>1, <2>2, WholeHasNoTail
    <2> QED BY <2>1, <2>2, <2>3 DEF Exactly
<1>2. ASSUME Exactly(d, rs) PROVE Holds(d, rs)
    BY <1>2 DEF Exactly, Holds
<1> QED BY <1>1, <1>2

\* A frame behind whole frames is one record more; less than a frame is none.
LEMMA AppendFrame ==
    ASSUME NEW d, NEW rs, Exactly(d, rs), NEW r \in Record, NEW l \in Nat
    PROVE  Exactly(d \o Frame(r, l), Append(rs, r))
<1> DEFINE e == d \o Frame(r, l)
           n == Len(rs)
           ss == Append(rs, r)
<1>1. d \in Seq(Cell) /\ rs \in Seq(Record) /\ Len(d) >= 2 /\ n \in Nat /\ Len(d) \in Nat
    BY DEF Exactly
<1>2. PICK b : Layout(d, b, rs) /\ b[n] = Len(d) + 1
    BY DEF Exactly
<1>3. b[n] = Len(d) + 1
    BY <1>2
<1> DEFINE c == [i \in 0..(n + 1) |-> IF i = n + 1 THEN Len(d) + l + 3 ELSE b[i]]
<1>4. /\ e \in Seq(Cell) /\ Len(e) = Len(d) + l + 2
      /\ \A i \in 1..Len(d) : e[i] = d[i]
      /\ \A i \in 1..(l + 2) : e[Len(d) + i] = [rec |-> r, pos |-> i, len |-> l]
    <2>1. /\ Frame(r, l) \in Seq(Cell) /\ Len(Frame(r, l)) = l + 2
          /\ \A i \in 1..(l + 2) : Frame(r, l)[i] = [rec |-> r, pos |-> i, len |-> l]
        BY FrameFacts
    <2> DEFINE u == Frame(r, l)
    <2>2. Joined(Cell, d, u, e)
        BY <1>1, <2>1, JoinFacts
    <2> HIDE DEF u, e
    <2>3. Len(u) = l + 2 /\ \A i \in 1..(l + 2) : u[i] = [rec |-> r, pos |-> i, len |-> l]
        BY <2>1 DEF u
    <2>4. Len(e) = Len(d) + l + 2
        BY <1>1, <2>2, <2>3 DEF Joined
    <2> QED BY <2>2, <2>3, <2>4 DEF Joined
<1>5. ss \in Seq(Record) /\ Len(ss) = n + 1 /\ ss[n + 1] = r /\ \A i \in 1..n : ss[i] = rs[i]
    BY <1>1
<1> HIDE DEF e, ss
<1>6. b \in [0..n -> 3..(Len(d) + 1)] /\ b[0] = 3
    BY <1>2 DEF Layout
<1>7. c \in [0..(n + 1) -> 3..(Len(e) + 1)] /\ c[0] = 3
    <2>1. Len(d) + l + 3 \in 3..(Len(e) + 1) /\ 3..(Len(d) + 1) \in SUBSET (3..(Len(e) + 1))
        BY <1>1, <1>4, SMTT(30)
    <2>2. \A i \in 0..(n + 1) : i # n + 1 => i \in 0..n
        BY <1>1
    <2>3. \A i \in 0..(n + 1) : c[i] \in 3..(Len(e) + 1)
        BY <1>6, <2>1, <2>2
    <2>4. c[0] = b[0]
        BY <1>1
    <2> QED BY <1>6, <2>3, <2>4
<1>8. ASSUME NEW i \in 1..(n + 1)
      PROVE  c[i - 1] + 2 <= c[i] /\ FrameAt(e, c[i - 1], ss[i], c[i] - c[i - 1] - 2)
    <2>1. CASE i = n + 1
        <3>1. c[i - 1] = Len(d) + 1 /\ c[i] = Len(d) + l + 3
            BY <1>1, <1>3, <2>1
        <3>2. c[i] - c[i - 1] - 2 = l /\ c[i - 1] + 2 <= c[i]
            BY <1>1, <3>1, SMTT(30)
        <3>3. FrameAt(e, Len(d) + 1, r, l)
            <4>1. \A j \in 1..(l + 2) : Len(d) + 1 + j - 1 = Len(d) + j
                BY <1>1
            <4>2. Len(d) + 1 + l + 1 <= Len(e)
                BY <1>1, <1>4, SMTT(30)
            <4> QED BY <1>4, <4>1, <4>2 DEF FrameAt
        <3> QED BY <1>5, <2>1, <3>1, <3>2, <3>3
    <2>2. CASE i # n + 1
        <3>1. i \in 1..n /\ c[i - 1] = b[i - 1] /\ c[i] = b[i] /\ ss[i] = rs[i]
            BY <1>1, <1>5, <2>2
        <3> HIDE DEF c
        <3>2. b[i] <= Len(d) + 1 /\ Len(d) <= Len(e)
            BY <1>1, <1>4, <1>6, <3>1, SMTT(30)
        <3>3. b[i - 1] + 2 <= b[i] /\ FrameAt(e, b[i - 1], rs[i], b[i] - b[i - 1] - 2)
            BY <1>1, <1>2, <1>4, <3>1, <3>2, LayoutKept
        <3> QED BY <3>1, <3>3
    <2> QED BY <2>1, <2>2
<1>9. Torn(e, c[n + 1])
    BY <1>1, <1>4 DEF Torn
<1>10. Layout(e, c, ss)
    <2> HIDE DEF c
    <2> QED BY <1>5, <1>7, <1>8, <1>9 DEF Layout
<1>11. Len(e) >= 2
    BY <1>1, <1>4
<1>12. Exactly(e, ss)
    <2>1. c[Len(ss)] = Len(e) + 1
        BY <1>1, <1>4, <1>5
    <2> HIDE DEF c
    <2> QED BY <1>4, <1>5, <1>10, <1>11, <2>1 DEF Exactly
<1> QED BY <1>12 DEF e, ss

LEMMA AppendTorn ==
    ASSUME NEW d, NEW rs, Exactly(d, rs), NEW r \in Record, NEW l \in Nat, NEW k \in 0..(l + 1)
    PROVE  Holds(d \o SubSeq(Frame(r, l), 1, k), rs)
<1> DEFINE u == SubSeq(Frame(r, l), 1, k)
           e == d \o u
           n == Len(rs)
<1>1. d \in Seq(Cell) /\ rs \in Seq(Record) /\ Len(d) >= 2 /\ n \in Nat /\ Len(d) \in Nat
    BY DEF Exactly
<1>2. PICK b : Layout(d, b, rs) /\ b[n] = Len(d) + 1
    BY DEF Exactly
<1>3. b[n] = Len(d) + 1
    BY <1>2
<1>4. /\ u \in Seq(Cell) /\ Len(u) = k
      /\ \A i \in 1..k : u[i] = [rec |-> r, pos |-> i, len |-> l]
    <2>1. /\ Frame(r, l) \in Seq(Cell) /\ Len(Frame(r, l)) = l + 2
          /\ \A i \in 1..(l + 2) : Frame(r, l)[i] = [rec |-> r, pos |-> i, len |-> l]
        BY FrameFacts
    <2>2. k \in 0..Len(Frame(r, l)) /\ \A i \in 1..k : i \in 1..(l + 2)
        BY <2>1
    <2>3. u \in Seq(Cell) /\ Len(u) = k /\ \A i \in 1..k : u[i] = Frame(r, l)[i]
        BY <2>1, <2>2, CutFacts
    <2> QED BY <2>1, <2>2, <2>3
<1> HIDE DEF u
<1>5. /\ e \in Seq(Cell) /\ Len(e) = Len(d) + k
      /\ \A i \in 1..Len(d) : e[i] = d[i]
      /\ \A i \in 1..k : e[Len(d) + i] = [rec |-> r, pos |-> i, len |-> l]
    <2>1. Joined(Cell, d, u, e)
        BY <1>1, <1>4, JoinFacts
    <2> HIDE DEF e
    <2> QED BY <1>4, <2>1 DEF Joined
<1> HIDE DEF e
<1>6. b \in [0..n -> 3..(Len(e) + 1)] /\ b \in [0..n -> 3..(Len(d) + 1)] /\ b[0] = 3
    <2>1. b \in [0..n -> 3..(Len(d) + 1)] /\ b[0] = 3
        BY <1>2 DEF Layout
    <2>2. 3..(Len(d) + 1) \in SUBSET (3..(Len(e) + 1))
        BY <1>1, <1>5
    <2> QED BY <2>1, <2>2
<1>7. ASSUME NEW i \in 1..n
      PROVE  b[i - 1] + 2 <= b[i] /\ FrameAt(e, b[i - 1], rs[i], b[i] - b[i - 1] - 2)
    <2>1. i \in 0..n
        BY <1>1
    <2>2. b[i] <= Len(d) + 1 /\ Len(d) <= Len(e)
        BY <1>1, <1>5, <1>6, <2>1, SMTT(30)
    <2> QED BY <1>1, <1>2, <1>5, <2>2, LayoutKept
<1>8. Torn(e, b[n])
    <2> SUFFICES ASSUME Len(d) + 1 + 1 <= Len(e)
                 PROVE  e[Len(d) + 1 + 1].pos = 2 /\ Len(d) + 1 + 1 + e[Len(d) + 1 + 1].len > Len(e)
        BY <1>3 DEF Torn
    <2>1. 2 \in 1..k /\ Len(d) + 1 + 1 = Len(d) + 2
        BY <1>1, <1>5
    <2>2. e[Len(d) + 1 + 1] = [rec |-> r, pos |-> 2, len |-> l]
        BY <1>5, <2>1
    <2> QED BY <1>1, <1>5, <2>2
<1>9. Layout(e, b, rs)
    BY <1>6, <1>7, <1>8 DEF Layout
<1>10. Len(e) >= 2
    BY <1>1, <1>5
<1>11. Holds(e, rs)
    BY <1>1, <1>5, <1>9, <1>10 DEF Holds
<1> QED BY <1>11 DEF e, u

\* A file cut anywhere holds a prefix of its records.
LEMMA CutHolds ==
    ASSUME NEW d, NEW rs, Holds(d, rs), NEW m \in 0..Len(d)
    PROVE  \E k \in 0..Len(rs) : Holds(SubSeq(d, 1, m), SubSeq(rs, 1, k))
<1> DEFINE e == SubSeq(d, 1, m)
           n == Len(rs)
<1>1. d \in Seq(Cell) /\ rs \in Seq(Record) /\ n \in Nat /\ Len(d) \in Nat
    BY DEF Holds
<1>2. e \in Seq(Cell) /\ Len(e) = m /\ \A i \in 1..m : e[i] = d[i]
    BY <1>1, CutFacts
<1>3. CASE ~(m >= 2)
    <2>1. 0 \in 0..n /\ SubSeq(rs, 1, 0) = <<>> /\ <<>> \in Seq(Record)
        BY <1>1
    <2> HIDE DEF e
    <2>2. Holds(e, SubSeq(rs, 1, 0))
        BY <1>2, <1>3, <2>1 DEF Holds
    <2> QED BY <2>1, <2>2 DEF e
<1>4. CASE m >= 2
    <2> HIDE DEF e
    <2>1. PICK b : Layout(d, b, rs)
        BY <1>1, <1>4 DEF Holds
    <2>2. b \in [0..n -> 3..(Len(d) + 1)] /\ b[0] = 3 /\ Torn(d, b[n])
        BY <2>1 DEF Layout
    <2>3. \A i \in 0..n : b[i] \in Nat /\ b[i] >= 3
        BY <1>1, <2>2
    <2> DEFINE Over == {i \in 0..n : b[i] > m + 1}
    <2>4. PICK k \in 0..n : /\ \A i \in 0..k : b[i] <= m + 1
                            /\ k # n => b[k + 1] > m + 1
        <3>1. CASE Over = {}
            <4>1. \A i \in 0..n : b[i] <= m + 1
                BY <1>1, <2>3, <3>1
            <4> QED BY <1>1, <4>1
        <3>2. CASE Over # {}
            <4> DEFINE j == Min(Over)
            <4>1. j \in Over /\ \A y \in Over : j <= y
                <5>1. Over \in SUBSET Nat
                    BY <1>1
                <5> HIDE DEF Over
                <5> QED BY <3>2, <5>1, MinExists
            <4> HIDE DEF j
            <4>2. j \in 0..n /\ b[j] > m + 1
                BY <4>1
            <4>3. j # 0
                BY <1>4, <2>2, <4>2
            <4>4. j - 1 \in 0..n /\ j - 1 + 1 = j
                BY <1>1, <4>2, <4>3
            <4>5. ASSUME NEW i \in 0..(j - 1) PROVE b[i] <= m + 1
                <5>1. i \in 0..n /\ ~(j <= i)
                    BY <1>1, <4>2
                <5>2. i \notin Over
                    BY <4>1, <5>1
                <5> QED BY <2>3, <5>1, <5>2
            <4> QED BY <4>2, <4>4, <4>5
        <3> QED BY <3>1, <3>2
    <2> DEFINE ss == SubSeq(rs, 1, k)
               c == [i \in 0..k |-> b[i]]
    <2>5. ss \in Seq(Record) /\ Len(ss) = k /\ \A i \in 1..k : ss[i] = rs[i]
        BY <1>1, CutFacts
    <2> HIDE DEF ss
    <2>6. c \in [0..k -> 3..(Len(e) + 1)] /\ c[0] = 3 /\ c[k] = b[k]
        BY <1>1, <1>2, <1>4, <2>2, <2>3, <2>4
    <2>7. ASSUME NEW i \in 1..k
          PROVE  c[i - 1] + 2 <= c[i] /\ FrameAt(e, c[i - 1], ss[i], c[i] - c[i - 1] - 2)
        <3>1. i \in 1..n /\ i \in 0..k /\ c[i] = b[i] /\ c[i - 1] = b[i - 1] /\ m \in Nat /\ m <= Len(e)
            BY <1>1, <1>2, <2>4
        <3> HIDE DEF c
        <3>2. b[i] <= m + 1
            BY <2>4, <3>1
        <3>3. b[i - 1] + 2 <= b[i] /\ FrameAt(e, b[i - 1], rs[i], b[i] - b[i - 1] - 2)
            BY <1>1, <1>2, <2>1, <3>1, <3>2, LayoutKept
        <3> QED BY <2>5, <3>1, <3>3
    <2>8. Torn(e, b[k])
        <3> SUFFICES ASSUME b[k] + 1 <= m
                     PROVE  e[b[k] + 1].pos = 2 /\ b[k] + 1 + e[b[k] + 1].len > m
            BY <1>2 DEF Torn
        <3>0. b[k] \in Nat /\ b[k] + 1 \in 1..m
            BY <1>1, <2>3, <2>4
        <3>1. e[b[k] + 1] = d[b[k] + 1]
            BY <1>2, <3>0
        <3>2. CASE k = n
            <4>1. b[k] + 1 <= Len(d)
                BY <1>1, <3>0
            <4>2. d[b[k] + 1].pos = 2 /\ b[k] + 1 + d[b[k] + 1].len > Len(d)
                BY <2>2, <3>2, <4>1 DEF Torn
            <4>3. d[b[k] + 1].len \in Nat
                BY <1>1, <3>0, CellFacts
            <4> QED BY <1>1, <3>0, <3>1, <4>2, <4>3, SMTT(30)
        <3>3. CASE k # n
            <4> DEFINE p == b[k]
                       q == b[k + 1]
            <4>1. k + 1 \in 1..n /\ k + 1 - 1 = k /\ q > m + 1
                BY <1>1, <2>4, <3>3
            <4>2. Starts(d, p, q, rs[k + 1])
                BY <1>1, <2>1, <4>1, LayoutFrame, SMTT(30)
            <4>3. p + 2 <= q /\ FrameAt(d, p, rs[k + 1], q - p - 2)
                BY <2>1, <4>1 DEF Layout
            <4> HIDE DEF p, q
            <4>4. /\ p \in 1..Len(d) /\ rs[k + 1] \in Record /\ q - p - 2 \in Nat
                  /\ q \in Nat
                BY <4>2 DEF Starts
            <4>5. d[p + 1].pos = 2 /\ d[p + 1].len = q - p - 2
                <5> DEFINE r == rs[k + 1]
                           l == q - p - 2
                <5>1. r \in Record /\ l \in Nat /\ FrameAt(d, p, r, l) /\ p \in 1..Len(d)
                    BY <4>3, <4>4
                <5> HIDE DEF r, l
                <5>2. d[p + 1].pos = 2 /\ d[p + 1].len = l
                    BY <1>1, <5>1, FrameIsFrame
                <5> QED BY <5>2 DEF l
            <4>6. p + 1 + (q - p - 2) > m
                BY <4>1, <4>4
            <4> QED BY <3>1, <4>5, <4>6 DEF p
        <3> QED BY <3>2, <3>3
    <2>9. Layout(e, c, ss)
        <3> HIDE DEF c
        <3> QED BY <2>5, <2>6, <2>7, <2>8 DEF Layout
    <2>10. Holds(e, ss)
        <3> HIDE DEF c
        <3> QED BY <1>2, <1>4, <2>5, <2>9 DEF Holds
    <2> QED BY <2>10 DEF e, ss
<1> QED BY <1>3, <1>4

\* A file with nothing but its header, or less.
LEMMA EmptyHolds ==
    Holds(Header, <<>>) /\ Holds(<<>>, <<>>)
<1>1. Header \in Seq(Cell) /\ Len(Header) = 2 /\ <<>> \in Seq(Record) /\ <<>> \in Seq(Cell)
    BY HeaderFacts
<1> DEFINE d == Header
           b == [i \in 0..0 |-> 3]
<1> HIDE DEF d
<1>2. d \in Seq(Cell) /\ Len(d) = 2
    BY <1>1 DEF d
<1>3. b \in [0..0 -> 3..(Len(d) + 1)] /\ b[0] = 3
    BY <1>2
<1>4. Torn(d, 3)
    BY <1>2 DEF Torn
<1>5. Layout(d, b, <<>>)
    BY <1>3, <1>4 DEF Layout
<1>6. Holds(d, <<>>)
    <2> HIDE DEF b
    <2> QED BY <1>1, <1>2, <1>5 DEF Holds
<1>7. Holds(<<>>, <<>>)
    BY <1>1 DEF Holds
<1> QED BY <1>6, <1>7 DEF d

\* recover_from_wal finds the records of a file.
LEMMA HoldsRead ==
    ASSUME NEW f, NEW rs, Holds(f.data, rs)
    PROVE  FileRecords(f) = {rs}
<1>1. CASE Len(f.data) >= 2
    <2>1. PICK b : Layout(f.data, b, rs)
        BY <1>1 DEF Holds
    <2>2. ReadRecords(f.data) = {rs}
        BY <1>1, <2>1, LayoutRead DEF Holds
    <2> QED BY <1>1, <2>2 DEF FileRecords, ValidHeader
<1>2. CASE ~(Len(f.data) >= 2)
    BY <1>2 DEF Holds, FileRecords, ValidHeader
<1> QED BY <1>1, <1>2
-----------------------------------------------------------------------------
(***************************************************************************)
(* recover_from_wal over all files.                                        *)
(***************************************************************************)
Joins(T, U) == {s \o t : s \in T, t \in U}
FoundStep(ws, F, i) == IF i = 0 THEN {<<>>} ELSE Joins(F[i - 1], FileRecords(ws[i]))
FoundUpto(ws, F, n) == \A i \in 0..n : F[i] = FoundStep(ws, F, i)
SameUpto(ws, vs, n) == \A i \in 1..n : ws[i] = vs[i]
FoundTable(ws, F) == F = [i \in 0..Len(ws) |-> FoundStep(ws, F, i)]

LEMMA FileFacts ==
    ASSUME NEW f \in File
    PROVE  /\ f.data \in Seq(Cell) /\ f.synced \in Nat /\ Len(f.data) \in Nat
           /\ f = [data |-> f.data, synced |-> f.synced]
BY DEF File

LEMMA FileRecordsTyped ==
    ASSUME NEW f \in File
    PROVE  FileRecords(f) \in SUBSET Seq(Record)
<1>1. f.data \in Seq(Cell)
    BY FileFacts
<1>2. <<>> \in Seq(Record)
    OBVIOUS
<1>3. Len(f.data) >= 2 => ReadRecords(f.data) \in SUBSET Seq(Record)
    BY <1>1, ReadRecordsTyped
<1> QED BY <1>2, <1>3 DEF FileRecords, ValidHeader

LEMMA JoinsElement ==
    ASSUME NEW T, NEW U, NEW x, x \in Joins(T, U)
    PROVE  \E s \in T : \E t \in U : x = s \o t
BY DEF Joins

LEMMA JoinsMember ==
    ASSUME NEW V, NEW T \in SUBSET V, NEW U \in SUBSET V, \A s, t \in V : s \o t \in V,
           NEW x \in Joins(T, U)
    PROVE  x \in V
<1>1. PICK s \in T : \E t \in U : x = s \o t
    BY JoinsElement
<1>2. PICK t \in U : x = s \o t
    BY <1>1
<1> QED BY <1>2

LEMMA JoinsClosed ==
    ASSUME NEW V, NEW T \in SUBSET V, NEW U \in SUBSET V, \A s, t \in V : s \o t \in V
    PROVE  Joins(T, U) \in SUBSET V
BY JoinsMember

LEMMA JoinsTyped ==
    ASSUME NEW R, NEW T \in SUBSET Seq(R), NEW U \in SUBSET Seq(R)
    PROVE  Joins(T, U) \in SUBSET Seq(R)
<1>1. \A s, t \in Seq(R) : s \o t \in Seq(R)
    OBVIOUS
<1> QED BY <1>1, JoinsClosed

LEMMA JoinsSingle ==
    ASSUME NEW a, NEW b
    PROVE  Joins({a}, {b}) = {a \o b}
BY DEF Joins

LEMMA FoundTableExists ==
    ASSUME NEW ws \in Seq(File)
    PROVE  \E F \in [0..Len(ws) -> SUBSET Seq(Record)] : FoundTable(ws, F)
<1> DEFINE n == Len(ws)
           S == SUBSET Seq(Record)
           Then(T, i) == Joins(T, FileRecords(ws[i]))
           G == [i \in 1..n |-> [T \in S |-> Then(T, i)]]
<1>1. n \in Nat /\ {<<>>} \in S
    OBVIOUS
<1>2. ASSUME NEW i \in 1..n, NEW T \in S PROVE Then(T, i) \in S
    <2>1. FileRecords(ws[i]) \in SUBSET Seq(Record)
        BY FileRecordsTyped
    <2> QED BY <2>1, JoinsTyped
<1> HIDE DEF Then
<1>3. G \in [1..n -> [S -> S]]
    BY <1>2
<1>4. PICK F : Course(F, S, {<<>>}, n, G)
    <2> HIDE DEF S, G, n
    <2> QED BY <1>1, <1>3, IterationExists
<1>5. F \in [0..n -> S] /\ F[0] = {<<>>} /\ \A i \in 1..n : F[i] = G[i][F[i - 1]]
    BY <1>4 DEF Course
<1>6. ASSUME NEW i \in 0..n PROVE F[i] = FoundStep(ws, F, i)
    <2>1. CASE i = 0
        BY <1>5, <2>1 DEF FoundStep
    <2>2. CASE i # 0
        <3>1. i \in 1..n /\ i - 1 \in 0..n
            BY <1>1, <2>2
        <3>2. F[i] = Then(F[i - 1], i)
            BY <1>5, <3>1
        <3> QED BY <2>2, <3>2 DEF FoundStep, Then
    <2> QED BY <2>1, <2>2
<1>7. F = [i \in 0..n |-> F[i]]
    BY <1>5
<1> QED BY <1>5, <1>6, <1>7 DEF FoundTable

\* The table of recover_from_wal is the only one.
LEMMA FoundUnique ==
    ASSUME NEW ws, NEW vs, NEW n \in Nat, NEW F, NEW G,
           SameUpto(ws, vs, n), FoundUpto(ws, F, n), FoundUpto(vs, G, n)
    PROVE  F[n] = G[n]
<1> DEFINE Ok == {i \in 0..n : F[i] = G[i]}
<1>0. \A i \in 0..n : F[i] = FoundStep(ws, F, i) /\ G[i] = FoundStep(vs, G, i)
    BY DEF FoundUpto
<1>1. 0 \in Ok
    <2>1. 0 \in 0..n /\ FoundStep(ws, F, 0) = {<<>>} /\ FoundStep(vs, G, 0) = {<<>>}
        BY DEF FoundStep
    <2>2. F[0] = G[0]
        BY <1>0, <2>1
    <2> QED BY <2>1, <2>2
<1>2. ASSUME NEW i \in 1..n, i - 1 \in Ok PROVE i \in Ok
    <2>1. i \in 0..n /\ i # 0 /\ F[i - 1] = G[i - 1] /\ ws[i] = vs[i]
        BY <1>2 DEF SameUpto
    <2>2. FoundStep(ws, F, i) = FoundStep(vs, G, i)
        BY <2>1 DEF FoundStep
    <2>3. F[i] = G[i]
        BY <1>0, <2>1, <2>2
    <2> QED BY <2>1, <2>3
<1>3. n \in Ok
    <2> HIDE DEF Ok
    <2> QED BY <1>1, <1>2, Reaches
<1> QED BY <1>3

LEMMA RecoverFacts ==
    ASSUME NEW ws \in Seq(File)
    PROVE  \E F \in [0..Len(ws) -> SUBSET Seq(Record)] :
              FoundTable(ws, F) /\ RecoverFromWal(ws) = F[Len(ws)]
<1> DEFINE Run == CHOOSE F : FoundTable(ws, F)
<1>1. PICK F \in [0..Len(ws) -> SUBSET Seq(Record)] : FoundTable(ws, F)
    BY FoundTableExists
<1>2. FoundTable(ws, Run)
    BY <1>1, Zenon
<1>3. RecoverFromWal(ws) = Run[Len(ws)]
    BY DEF RecoverFromWal, FoundTable, FoundStep, Joins
<1> HIDE DEF Run
<1>4. FoundUpto(ws, F, Len(ws)) /\ FoundUpto(ws, Run, Len(ws)) /\ SameUpto(ws, ws, Len(ws))
    BY <1>1, <1>2 DEF FoundTable, FoundUpto, SameUpto
<1>5. Run[Len(ws)] = F[Len(ws)]
    <2>1. Len(ws) \in Nat
        OBVIOUS
    <2> QED BY <1>4, <2>1, FoundUnique
<1> QED BY <1>1, <1>3, <1>5

\* A WAL file more adds its records behind the others.
LEMMA RecoverAppend ==
    ASSUME NEW ws \in Seq(File), NEW f \in File
    PROVE  /\ RecoverFromWal(Append(ws, f)) = Joins(RecoverFromWal(ws), FileRecords(f))
           /\ RecoverFromWal(<<>>) = {<<>>}
           /\ RecoverFromWal(ws) \in SUBSET Seq(Record)
<1> DEFINE n == Len(ws)
           vs == Append(ws, f)
<1>0. n \in Nat
    OBVIOUS
<1>1. PICK F \in [0..n -> SUBSET Seq(Record)] : FoundTable(ws, F) /\ RecoverFromWal(ws) = F[n]
    BY RecoverFacts
<1>2. vs \in Seq(File) /\ Len(vs) = n + 1 /\ vs[n + 1] = f /\ \A i \in 1..n : ws[i] = vs[i]
    OBVIOUS
<1> HIDE DEF vs
<1>3. PICK G \in [0..Len(vs) -> SUBSET Seq(Record)] : FoundTable(vs, G) /\ RecoverFromWal(vs) = G[Len(vs)]
    BY <1>2, RecoverFacts
<1>4. \A i \in 0..n : F[i] = FoundStep(ws, F, i)
    BY <1>1 DEF FoundTable
<1>5. \A i \in 0..(n + 1) : G[i] = FoundStep(vs, G, i)
    BY <1>2, <1>3 DEF FoundTable
<1>6. F[n] = G[n]
    <2>1. \A i \in 0..n : i \in 0..(n + 1)
        BY <1>0
    <2>2. FoundUpto(vs, G, n) /\ FoundUpto(ws, F, n) /\ SameUpto(ws, vs, n)
        BY <1>2, <1>4, <1>5, <2>1 DEF FoundUpto, SameUpto
    <2> QED BY <1>0, <2>2, FoundUnique
<1>7. G[n + 1] = Joins(G[n], FileRecords(f))
    <2>1. n + 1 \in 0..(n + 1) /\ n + 1 # 0 /\ n + 1 - 1 = n
        BY <1>0
    <2>2. G[n + 1] = FoundStep(vs, G, n + 1)
        BY <1>5, <2>1
    <2> QED BY <1>2, <2>1, <2>2 DEF FoundStep
<1>8. RecoverFromWal(<<>>) = {<<>>}
    <2>1. <<>> \in Seq(File) /\ Len(<<>>) = 0
        OBVIOUS
    <2>2. PICK H : FoundTable(<<>>, H) /\ RecoverFromWal(<<>>) = H[Len(<<>>)]
        BY <2>1, RecoverFacts
    <2>3. H[0] = FoundStep(<<>>, H, 0)
        BY <2>2 DEF FoundTable
    <2> QED BY <2>1, <2>2, <2>3 DEF FoundStep
<1>9. RecoverFromWal(ws) \in SUBSET Seq(Record)
    BY <1>0, <1>1
<1>10. RecoverFromWal(vs) = Joins(RecoverFromWal(ws), FileRecords(f))
    BY <1>1, <1>2, <1>3, <1>6, <1>7
<1> QED BY <1>8, <1>9, <1>10 DEF vs
-----------------------------------------------------------------------------
(***************************************************************************)
(* Prefixes.                                                               *)
(***************************************************************************)
LEMMA PrefixFacts ==
    ASSUME NEW S, NEW s \in Seq(S), NEW t \in Seq(S)
    PROVE  IsPrefix(s, t) <=> Len(s) <= Len(t) /\ \A i \in 1..Len(s) : s[i] = t[i]
<1>1. ASSUME IsPrefix(s, t), NEW i \in 1..Len(s) PROVE s[i] = t[i]
    <2>1. Len(s) <= Len(t) /\ SubSeq(s, 1, Len(s)) = SubSeq(t, 1, Len(s)) /\ Len(s) \in 0..Len(t)
        BY <1>1 DEF IsPrefix
    <2>2. SubSeq(s, 1, Len(s))[i] = s[i] /\ SubSeq(t, 1, Len(s))[i] = t[i]
        BY <2>1
    <2> QED BY <2>1, <2>2
<1>2. ASSUME Len(s) <= Len(t), \A i \in 1..Len(s) : s[i] = t[i]
      PROVE  IsPrefix(s, t)
    <2> DEFINE u == SubSeq(t, 1, Len(s))
    <2>1. Len(s) \in 0..Len(t)
        BY <1>2
    <2>2. u \in Seq(S) /\ Len(u) = Len(s) /\ \A i \in 1..Len(s) : u[i] = t[i]
        BY <2>1, CutFacts
    <2> HIDE DEF u
    <2>3. \A i \in 1..Len(s) : s[i] = u[i]
        BY <1>2, <2>2
    <2>4. s = u
        BY <2>2, <2>3, SeqEqual
    <2>5. SubSeq(s, 1, Len(s)) = s
        OBVIOUS
    <2> QED BY <1>2, <2>4, <2>5 DEF IsPrefix, u
<1> QED BY <1>1, <1>2 DEF IsPrefix

LEMMA CutIsPrefix ==
    ASSUME NEW S, NEW s \in Seq(S), NEW k \in 0..Len(s)
    PROVE  IsPrefix(SubSeq(s, 1, k), s) /\ SubSeq(s, 1, k) \in Seq(S)
<1> DEFINE u == SubSeq(s, 1, k)
<1>1. u \in Seq(S) /\ Len(u) = k /\ \A i \in 1..k : u[i] = s[i]
    BY CutFacts
<1> HIDE DEF u
<1>2. Len(u) <= Len(s)
    BY <1>1
<1>3. IsPrefix(u, s)
    BY <1>1, <1>2, PrefixFacts
<1> QED BY <1>1, <1>3 DEF u

LEMMA PrefixTransitive ==
    ASSUME NEW S, NEW s \in Seq(S), NEW t \in Seq(S), NEW u \in Seq(S), IsPrefix(s, t), IsPrefix(t, u)
    PROVE  IsPrefix(s, u)
<1>1. Len(s) <= Len(t) /\ \A i \in 1..Len(s) : s[i] = t[i]
    BY PrefixFacts
<1>2. Len(t) <= Len(u) /\ \A i \in 1..Len(t) : t[i] = u[i]
    BY PrefixFacts
<1>3. Len(s) <= Len(u) /\ \A i \in 1..Len(s) : i \in 1..Len(t)
    BY <1>1, <1>2
<1>4. \A i \in 1..Len(s) : s[i] = u[i]
    BY <1>1, <1>2, <1>3
<1> QED BY <1>3, <1>4, PrefixFacts

LEMMA PrefixOfJoin ==
    ASSUME NEW S, NEW a \in Seq(S), NEW s \in Seq(S), NEW t \in Seq(S), IsPrefix(s, t)
    PROVE  IsPrefix(a \o s, a \o t) /\ Range(a \o s) \in SUBSET Range(a \o t)
<1> DEFINE u == a \o s
           v == a \o t
<1>1. Len(s) <= Len(t) /\ \A i \in 1..Len(s) : s[i] = t[i]
    BY PrefixFacts
<1>2. Joined(S, a, s, u) /\ Joined(S, a, t, v)
    BY JoinFacts
<1> HIDE DEF u, v
<1>3. u \in Seq(S) /\ v \in Seq(S) /\ Len(u) <= Len(v)
    BY <1>1, <1>2 DEF Joined
<1>4. ASSUME NEW i \in 1..Len(u) PROVE u[i] = v[i]
    <2>1. Len(u) = Len(a) + Len(s) /\ Len(a) \in Nat /\ Len(s) \in Nat
        BY <1>2 DEF Joined
    <2>2. CASE i <= Len(a)
        <3>1. i \in 1..Len(a)
            BY <2>1, <2>2
        <3> QED BY <1>2, <3>1 DEF Joined
    <2>3. CASE ~(i <= Len(a))
        <3>1. i - Len(a) \in 1..Len(s) /\ Len(a) + (i - Len(a)) = i
            BY <2>1, <2>3
        <3>2. i - Len(a) \in 1..Len(t)
            BY <1>1, <3>1
        <3>3. u[Len(a) + (i - Len(a))] = s[i - Len(a)]
            BY <1>2, <3>1 DEF Joined
        <3>4. v[Len(a) + (i - Len(a))] = t[i - Len(a)]
            BY <1>2, <3>2 DEF Joined
        <3> QED BY <1>1, <3>1, <3>3, <3>4
    <2> QED BY <2>2, <2>3
<1>5. IsPrefix(u, v)
    BY <1>3, <1>4, PrefixFacts
<1>6. Range(u) \in SUBSET Range(v)
    <2>1. \A i \in 1..Len(u) : i \in 1..Len(v)
        BY <1>3
    <2>2. DOMAIN u = 1..Len(u) /\ DOMAIN v = 1..Len(v)
        BY <1>3
    <2>3. ASSUME NEW x \in Range(u) PROVE x \in Range(v)
        <3>1. PICK i \in 1..Len(u) : x = u[i]
            BY <2>2 DEF Range
        <3>2. i \in 1..Len(v) /\ x = v[i]
            BY <1>4, <2>1, <3>1
        <3> QED BY <2>2, <3>2 DEF Range
    <2> QED BY <2>3
<1> QED BY <1>5, <1>6 DEF u, v
-----------------------------------------------------------------------------
(***************************************************************************)
(* The WAL files: the ones before the last are on disk and hold the        *)
(* records past; the last one holds last, and what is synced of it sure.   *)
(***************************************************************************)
WalHolds(front, f, past, last, sure) ==
    /\ front \in Seq(File) /\ f \in File
    /\ past \in Seq(Record) /\ last \in Seq(Record) /\ sure \in Seq(Record)
    /\ \A i \in 1..Len(front) : front[i].synced = Len(front[i].data)
    /\ RecoverFromWal(front) = {past}
    /\ Holds(f.data, last)
    /\ f.synced <= Len(f.data) /\ Holds(SubSeq(f.data, 1, f.synced), sure)

\* What is left of file f when it is cut behind m cells.
CutAt(f, m) == [data |-> SubSeq(f.data, 1, m), synced |-> m]

LEMMA HoldsUnique ==
    ASSUME NEW d, NEW rs, NEW ss, Holds(d, rs), Holds(d, ss)
    PROVE  rs = ss
<1> DEFINE f == [data |-> d, synced |-> 0]
<1>1. f.data = d
    OBVIOUS
<1> HIDE DEF f
<1>2. FileRecords(f) = {rs} /\ FileRecords(f) = {ss}
    BY <1>1, HoldsRead
<1> QED BY <1>2

LEMMA RecoverOne ==
    ASSUME NEW front, NEW f, NEW past, NEW last, NEW sure, WalHolds(front, f, past, last, sure),
           NEW all, all = past \o last
    PROVE  RecoverFromWal(Append(front, f)) = {all}
<1>1. FileRecords(f) = {last}
    BY HoldsRead DEF WalHolds
<1>2. RecoverFromWal(Append(front, f)) = Joins({past}, {last})
    BY <1>1, RecoverAppend DEF WalHolds
<1> QED BY <1>2, JoinsSingle

LEMMA SurviveOne ==
    ASSUME NEW front, NEW f, NEW past, NEW last, NEW sure, WalHolds(front, f, past, last, sure),
           NEW m \in f.synced..Len(f.data)
    PROVE  \E ls \in Seq(Record) : /\ WalHolds(front, CutAt(f, m), past, ls, ls)
                                   /\ IsPrefix(ls, last) /\ IsPrefix(sure, ls)
<1> DEFINE d == f.data
           e == SubSeq(d, 1, m)
<1>1. /\ f \in File /\ Holds(d, last) /\ Holds(SubSeq(d, 1, f.synced), sure) /\ sure \in Seq(Record)
      /\ last \in Seq(Record)
    BY DEF WalHolds
<1>2. d \in Seq(Cell) /\ f.synced \in Nat /\ Len(d) \in Nat
    BY <1>1, FileFacts
<1>3. m \in 0..Len(d) /\ f.synced \in 0..m
    BY <1>2
<1> HIDE DEF d
<1>4. PICK k \in 0..Len(last) : Holds(e, SubSeq(last, 1, k))
    BY <1>1, <1>3, CutHolds
<1> DEFINE ls == SubSeq(last, 1, k)
<1>5. ls \in Seq(Record) /\ IsPrefix(ls, last)
    BY <1>1, CutIsPrefix
<1>6. e \in Seq(Cell) /\ Len(e) = m /\ SubSeq(e, 1, f.synced) = SubSeq(d, 1, f.synced)
      /\ SubSeq(e, 1, m) = e
    <2>1. e \in Seq(Cell) /\ Len(e) = m
        BY <1>2, <1>3, CutFacts
    <2>2. SubSeq(e, 1, f.synced) = SubSeq(d, 1, f.synced)
        BY <1>2, <1>3, CutCut
    <2>3. m \in 0..m /\ SubSeq(e, 1, m) = e
        BY <1>2, <1>3, CutCut
    <2> QED BY <2>1, <2>2, <2>3
<1> HIDE DEF e, ls
<1>7. Holds(e, ls)
    BY <1>4 DEF ls
<1>8. IsPrefix(sure, ls)
    <2>1. f.synced \in 0..Len(e)
        BY <1>3, <1>6
    <2>2. PICK j \in 0..Len(ls) : Holds(SubSeq(e, 1, f.synced), SubSeq(ls, 1, j))
        BY <1>7, <2>1, CutHolds
    <2>3. Holds(SubSeq(d, 1, f.synced), SubSeq(ls, 1, j))
        BY <1>6, <2>2
    <2>4. sure = SubSeq(ls, 1, j)
        BY <1>1, <2>3, HoldsUnique
    <2> QED BY <1>5, <2>4, CutIsPrefix
<1> DEFINE g == CutAt(f, m)
<1>9. g \in File /\ g.data = e /\ g.synced = m
    BY <1>3, <1>6 DEF CutAt, File, e, d
<1> HIDE DEF g
<1>10. WalHolds(front, g, past, ls, ls)
    <2>1. g.synced <= Len(g.data) /\ Holds(SubSeq(g.data, 1, g.synced), ls)
        <3>1. m <= m
            BY <1>2, <1>3
        <3>2. SubSeq(g.data, 1, g.synced) = e
            BY <1>6, <1>9
        <3> QED BY <1>6, <1>7, <1>9, <3>1, <3>2
    <2> QED BY <1>5, <1>7, <1>9, <2>1 DEF WalHolds
<1> QED BY <1>5, <1>8, <1>10 DEF g

LEMMA SurvivorFacts ==
    ASSUME NEW f \in File, f.synced <= Len(f.data), NEW e \in Survivors(f)
    PROVE  /\ \E m \in f.synced..Len(f.data) : e = CutAt(f, m)
           /\ e \in File /\ e.synced = Len(e.data) /\ e.synced >= f.synced
           /\ f.synced = Len(f.data) => e = f
<1>0. f.data \in Seq(Cell) /\ f.synced \in Nat /\ Len(f.data) \in Nat
      /\ f = [data |-> f.data, synced |-> f.synced]
    BY FileFacts
<1>1. PICK m \in f.synced..Len(f.data) : e = [data |-> SubSeq(f.data, 1, m), synced |-> m]
    BY DEF Survivors
<1>2. e = CutAt(f, m)
    BY <1>1 DEF CutAt
<1>3. m \in 0..Len(f.data) /\ m >= f.synced
    BY <1>0
<1>4. SubSeq(f.data, 1, m) \in Seq(Cell) /\ Len(SubSeq(f.data, 1, m)) = m
    BY <1>0, <1>3, CutFacts
<1>5. e \in File /\ e.synced = Len(e.data) /\ e.synced >= f.synced
    BY <1>1, <1>3, <1>4 DEF File
<1>6. ASSUME f.synced = Len(f.data) PROVE e = f
    <2>1. m = Len(f.data) /\ m = f.synced
        BY <1>0, <1>3, <1>6
    <2>2. SubSeq(f.data, 1, m) = f.data
        BY <1>0, <2>1, SubSeqFull
    <2> QED BY <1>0, <1>1, <2>1, <2>2
<1> QED BY <1>2, <1>5, <1>6

\* A power failure can only shorten the last WAL file.
LEMMA SurvivingAppend ==
    ASSUME NEW front \in Seq(File), NEW f \in File, f.synced <= Len(f.data),
           \A i \in 1..Len(front) : front[i].synced = Len(front[i].data),
           NEW t \in SurvivingWals(Append(front, f))
    PROVE  \E m \in f.synced..Len(f.data) : t = Append(front, CutAt(f, m))
<1> DEFINE n == Len(front)
           w == Append(front, f)
<1>1. w \in Seq(File) /\ Len(w) = n + 1 /\ w[n + 1] = f /\ n \in Nat
      /\ (\A i \in 1..n : w[i] = front[i]) /\ DOMAIN w = 1..(n + 1)
    OBVIOUS
<1> HIDE DEF w
<1>2. t \in [1..(n + 1) -> UNION {Survivors(w[i]) : i \in DOMAIN w}]
      /\ \A i \in 1..(n + 1) : t[i] \in Survivors(w[i])
    BY <1>1 DEF SurvivingWals, w
<1>3. ASSUME NEW i \in 1..n PROVE t[i] = front[i] /\ front[i] \in File
    <2>1. front[i] \in File /\ front[i].synced = Len(front[i].data) /\ i \in 1..(n + 1)
        BY <1>1
    <2>2. t[i] \in Survivors(front[i])
        BY <1>1, <1>2, <2>1
    <2>3. front[i].synced <= Len(front[i].data)
        BY <2>1, FileFacts
    <2> QED BY <2>1, <2>2, <2>3, SurvivorFacts
<1>4. n + 1 \in 1..(n + 1) /\ t[n + 1] \in Survivors(f)
    BY <1>1, <1>2
<1>5. PICK m \in f.synced..Len(f.data) : t[n + 1] = CutAt(f, m) /\ t[n + 1] \in File
    BY <1>4, SurvivorFacts
<1> DEFINE v == Append(front, CutAt(f, m))
<1>6. CutAt(f, m) \in File
    BY <1>5
<1>7. v \in Seq(File) /\ Len(v) = n + 1 /\ v[n + 1] = CutAt(f, m) /\ \A i \in 1..n : v[i] = front[i]
    BY <1>6
<1>8. t \in Seq(File) /\ Len(t) = n + 1
    <2>1. \A i \in 1..(n + 1) : t[i] \in File
        <3> TAKE i \in 1..(n + 1)
        <3>1. i = n + 1 \/ i \in 1..n
            BY <1>1
        <3> QED BY <1>3, <1>5, <3>1
    <2>2. t = [i \in 1..(n + 1) |-> t[i]]
        BY <1>2
    <2>3. t \in [1..(n + 1) -> File]
        BY <2>1, <2>2
    <2> QED BY <1>1, <2>3, SMTT(30)
<1> HIDE DEF v
<1>9. ASSUME NEW i \in 1..Len(t) PROVE t[i] = v[i]
    <2>1. i = n + 1 \/ i \in 1..n
        BY <1>1, <1>8
    <2> QED BY <1>3, <1>5, <1>7, <2>1
<1>10. t = v
    BY <1>7, <1>8, <1>9, SeqEqual
<1> QED BY <1>10 DEF v
-----------------------------------------------------------------------------
(***************************************************************************)
(* The invariant of the WAL.  It is inductive, where AckedSurvive and      *)
(* ReplayIsPrefix are not: they say what recovery finds, and not that the  *)
(* engine appends behind whole frames and that older files are on disk.    *)
(***************************************************************************)
Applied(f, past, last) ==
    IF status = "up" THEN logged = past \o last /\ Len(f.data) >= 2
                     ELSE IsPrefix(past \o last, logged)

WalInv ==
    /\ logged \in Seq(Record)
    /\ \E front, f, past, last, sure :
          /\ WalHolds(front, f, past, last, sure)
          /\ wal = Append(front, f)
          /\ acked \subseteq Range(past \o sure)
          /\ Applied(f, past, last)

\* What a power failure leaves in the invariant's state.
LEMMA RecoverableFacts ==
    ASSUME WalInv, NEW s \in Recoverable
    PROVE  acked \subseteq Range(s) /\ IsPrefix(s, logged)
<1>1. PICK front, f, past, last, sure :
          /\ WalHolds(front, f, past, last, sure)
          /\ wal = Append(front, f)
          /\ acked \subseteq Range(past \o sure)
          /\ Applied(f, past, last)
    BY DEF WalInv
<1>2. PICK w \in SurvivingWals(wal) : s \in RecoverFromWal(w)
    BY DEF Recoverable
<1>3. PICK m \in f.synced..Len(f.data) : w = Append(front, CutAt(f, m))
    BY <1>1, <1>2, SurvivingAppend DEF WalHolds
<1>4. PICK ls \in Seq(Record) : /\ WalHolds(front, CutAt(f, m), past, ls, ls)
                                /\ IsPrefix(ls, last) /\ IsPrefix(sure, ls)
    BY <1>1, SurviveOne
<1>5. s = past \o ls
    <2> DEFINE g == CutAt(f, m)
    <2>1. WalHolds(front, g, past, ls, ls) /\ w = Append(front, g)
        BY <1>3, <1>4
    <2> HIDE DEF g
    <2> DEFINE all == past \o ls
    <2> HIDE DEF all
    <2>2. RecoverFromWal(Append(front, g)) = {all}
        BY <2>1, RecoverOne DEF all
    <2> QED BY <1>2, <2>1, <2>2 DEF all
<1>6. past \in Seq(Record) /\ last \in Seq(Record) /\ sure \in Seq(Record) /\ logged \in Seq(Record)
    BY <1>1 DEF WalHolds, WalInv
<1>7. IsPrefix(past \o ls, past \o last) /\ Range(past \o sure) \in SUBSET Range(past \o ls)
    BY <1>4, <1>6, PrefixOfJoin
<1>8. IsPrefix(past \o last, logged)
    <2>1. CASE status = "up"
        <3>1. logged = past \o last
            BY <1>1, <2>1 DEF Applied
        <3>2. IsPrefix(logged, logged)
            BY <1>6, PrefixFacts
        <3> QED BY <3>1, <3>2
    <2>2. CASE status # "up"
        BY <1>1, <2>2 DEF Applied
    <2> QED BY <2>1, <2>2
<1>9. past \o ls \in Seq(Record) /\ past \o last \in Seq(Record)
    BY <1>6
<1>10. IsPrefix(past \o ls, logged)
    BY <1>6, <1>7, <1>8, <1>9, PrefixTransitive
<1> QED BY <1>1, <1>5, <1>7, <1>10

LEMMA InitWalInv ==
    Init => WalInv
<1> SUFFICES ASSUME Init PROVE WalInv
    OBVIOUS
<1> DEFINE f == Create
<1>1. f \in File /\ f.data = Header /\ f.synced = 0 /\ Len(Header) = 2
    BY HeaderFacts DEF Create, File
<1> HIDE DEF f
<1>2. RecoverFromWal(<<>>) = {<<>>} /\ <<>> \in Seq(File) /\ <<>> \in Seq(Record)
    <2>1. <<>> \in Seq(File)
        OBVIOUS
    <2> QED BY <1>1, <2>1, RecoverAppend
<1>3. Holds(f.data, <<>>) /\ Holds(SubSeq(f.data, 1, f.synced), <<>>) /\ f.synced <= Len(f.data)
    <2>1. SubSeq(f.data, 1, f.synced) = <<>>
        BY <1>1, SubSeqEmpty
    <2>2. Holds(SubSeq(f.data, 1, f.synced), <<>>)
        BY <2>1, EmptyHolds
    <2>3. f.synced <= Len(f.data)
        BY <1>1
    <2> QED BY <1>1, <2>2, <2>3, EmptyHolds
<1>4. WalHolds(<<>>, f, <<>>, <<>>, <<>>)
    BY <1>1, <1>2, <1>3 DEF WalHolds
<1>5. wal = Append(<<>>, f)
    BY DEF Init, f
<1>6. logged \in Seq(Record) /\ logged = <<>> /\ acked = {} /\ status = "up"
    BY <1>2 DEF Init
<1>7. <<>> \o <<>> = <<>>
    OBVIOUS
<1>8. Applied(f, <<>>, <<>>)
    BY <1>1, <1>6, <1>7 DEF Applied
<1> QED BY <1>4, <1>5, <1>6, <1>8 DEF WalInv

\* A new file behind a synced one.
LEMMA NewFileHolds ==
    ASSUME NEW front, NEW f, NEW past, NEW last, NEW sure, WalHolds(front, f, past, last, sure),
           f.synced = Len(f.data), NEW g \in File, g.synced = 0, Holds(g.data, <<>>)
    PROVE  WalHolds(Append(front, f), g, past \o last, <<>>, <<>>)
<1> DEFINE v == Append(front, f)
           n == Len(front)
<1>1. front \in Seq(File) /\ f \in File /\ past \in Seq(Record) /\ last \in Seq(Record)
      /\ \A i \in 1..n : front[i].synced = Len(front[i].data)
    BY DEF WalHolds
<1>2. v \in Seq(File) /\ Len(v) = n + 1 /\ v[n + 1] = f /\ (\A i \in 1..n : v[i] = front[i]) /\ n \in Nat
    BY <1>1
<1>3. RecoverFromWal(v) = {past \o last}
    BY RecoverOne
<1> HIDE DEF v
<1>4. ASSUME NEW i \in 1..Len(v) PROVE v[i].synced = Len(v[i].data)
    <2>1. i = n + 1 \/ i \in 1..n
        BY <1>2
    <2> QED BY <1>1, <1>2, <2>1
<1>5. g.synced <= Len(g.data) /\ Holds(SubSeq(g.data, 1, g.synced), <<>>)
    <2>1. g.data \in Seq(Cell) /\ Len(g.data) \in Nat
        BY FileFacts
    <2>2. SubSeq(g.data, 1, g.synced) = <<>>
        BY SubSeqEmpty
    <2>3. Holds(SubSeq(g.data, 1, g.synced), <<>>)
        BY <2>2, EmptyHolds
    <2> QED BY <2>1, <2>3
<1>6. past \o last \in Seq(Record) /\ <<>> \in Seq(Record)
    BY <1>1
<1>7. WalHolds(v, g, past \o last, <<>>, <<>>)
    BY <1>2, <1>3, <1>4, <1>5, <1>6 DEF WalHolds
<1> QED BY <1>7 DEF v

\* A write behind the last file's frames leaves what was synced.
Longer(f, cells) == [f EXCEPT !.data = f.data \o cells]

LEMMA LongerFacts ==
    ASSUME NEW f \in File, NEW cells \in Seq(Cell)
    PROVE  /\ Longer(f, cells) \in File /\ Longer(f, cells).data = f.data \o cells
           /\ Longer(f, cells).synced = f.synced /\ f.data \o cells \in Seq(Cell)
<1>1. f.data \in Seq(Cell) /\ f.synced \in Nat
    BY FileFacts
<1> DEFINE e == f.data \o cells
<1>2. e \in Seq(Cell)
    BY <1>1
<1> HIDE DEF e
<1>3. [f EXCEPT !.data = e] \in File /\ [f EXCEPT !.data = e].data = e /\ [f EXCEPT !.data = e].synced = f.synced
    BY <1>1, <1>2 DEF File
<1> QED BY <1>2, <1>3 DEF Longer, e

LEMMA LongerHolds ==
    ASSUME NEW front, NEW f, NEW past, NEW last, NEW sure, WalHolds(front, f, past, last, sure),
           NEW cells \in Seq(Cell), NEW ls, Holds(f.data \o cells, ls)
    PROVE  /\ WalHolds(front, Longer(f, cells), past, ls, sure)
           /\ Longer(f, cells).data = f.data \o cells
           /\ Len(f.data \o cells) >= Len(f.data)
<1> DEFINE e == f.data \o cells
           g == Longer(f, cells)
<1>1. f \in File /\ f.synced <= Len(f.data) /\ Holds(SubSeq(f.data, 1, f.synced), sure)
    BY DEF WalHolds
<1>2. f.data \in Seq(Cell) /\ f.synced \in Nat /\ Len(f.data) \in Nat
    BY <1>1, FileFacts
<1>3. e \in Seq(Cell) /\ Len(e) >= Len(f.data) /\ SubSeq(e, 1, f.synced) = SubSeq(f.data, 1, f.synced)
    <2>1. Joined(Cell, f.data, cells, e)
        BY <1>2, JoinFacts
    <2> HIDE DEF e
    <2>2. e \in Seq(Cell) /\ Len(e) = Len(f.data) + Len(cells) /\ \A i \in 1..Len(f.data) : e[i] = f.data[i]
        BY <2>1 DEF Joined
    <2>3. Len(e) >= Len(f.data)
        BY <1>2, <2>2
    <2> DEFINE a == SubSeq(e, 1, f.synced)
               b == SubSeq(f.data, 1, f.synced)
    <2>4. f.synced \in 0..Len(e) /\ f.synced \in 0..Len(f.data)
        BY <1>1, <1>2, <2>2, <2>3
    <2>5. a \in Seq(Cell) /\ Len(a) = f.synced /\ \A i \in 1..f.synced : a[i] = e[i]
        BY <2>2, <2>4, CutFacts
    <2>6. b \in Seq(Cell) /\ Len(b) = f.synced /\ \A i \in 1..f.synced : b[i] = f.data[i]
        BY <1>2, <2>4, CutFacts
    <2> HIDE DEF a, b
    <2>7. \A i \in 1..Len(a) : a[i] = b[i]
        BY <1>1, <1>2, <2>2, <2>5, <2>6
    <2>8. a = b
        BY <2>5, <2>6, <2>7, SeqEqual
    <2> QED BY <2>2, <2>3, <2>8 DEF a, b
<1> HIDE DEF e
<1>4. g \in File /\ g.data = e /\ g.synced = f.synced
    BY <1>1, <1>3, LongerFacts DEF e
<1> HIDE DEF g
<1>5. ls \in Seq(Record) /\ Holds(e, ls)
    BY DEF Holds, e
<1>6. g.synced <= Len(g.data)
    BY <1>1, <1>2, <1>3, <1>4
<1>7. WalHolds(front, g, past, ls, sure)
    BY <1>1, <1>3, <1>4, <1>5, <1>6 DEF WalHolds
<1> QED BY <1>3, <1>4, <1>7 DEF e, g

\* fsync of the last file.
LEMMA SyncHolds ==
    ASSUME NEW front, NEW f, NEW past, NEW last, NEW sure, WalHolds(front, f, past, last, sure)
    PROVE  /\ WalHolds(front, SyncAll(f), past, last, last)
           /\ SyncAll(f).data = f.data /\ SyncAll(f).synced = Len(f.data)
<1> DEFINE g == SyncAll(f)
<1>1. f \in File /\ Holds(f.data, last) /\ last \in Seq(Record)
    BY DEF WalHolds
<1>2. f.data \in Seq(Cell) /\ Len(f.data) \in Nat
    BY <1>1, FileFacts
<1>3. g \in File /\ g.data = f.data /\ g.synced = Len(f.data)
    BY <1>1, <1>2 DEF SyncAll, File
<1> HIDE DEF g
<1>4. SubSeq(g.data, 1, g.synced) = f.data /\ g.synced <= Len(g.data)
    BY <1>2, <1>3, SubSeqFull
<1>5. WalHolds(front, g, past, last, last)
    BY <1>1, <1>3, <1>4 DEF WalHolds
<1> QED BY <1>3, <1>5 DEF g

LEMMA LastFile ==
    ASSUME NEW front \in Seq(File), NEW f \in File
    PROVE  /\ Append(front, f) \in Seq(File)
           /\ Len(Append(front, f)) = Len(front) + 1 /\ Len(front) \in Nat
           /\ Append(front, f)[Len(front) + 1] = f
           /\ \A g \in File : [Append(front, f) EXCEPT ![Len(front) + 1] = g] = Append(front, g)
<1>1. /\ Append(front, f) \in Seq(File)
      /\ Len(Append(front, f)) = Len(front) + 1 /\ Len(front) \in Nat
      /\ Append(front, f)[Len(front) + 1] = f
    OBVIOUS
<1>2. ASSUME NEW g \in File PROVE [Append(front, f) EXCEPT ![Len(front) + 1] = g] = Append(front, g)
    <2> DEFINE a == [Append(front, f) EXCEPT ![Len(front) + 1] = g]
               b == Append(front, g)
    <2>1. a \in Seq(File) /\ Len(a) = Len(front) + 1
        BY <1>1
    <2>2. b \in Seq(File) /\ Len(b) = Len(front) + 1
        OBVIOUS
    <2>3. ASSUME NEW i \in 1..(Len(front) + 1) PROVE a[i] = b[i]
        <3>1. CASE i = Len(front) + 1
            BY <1>1, <3>1
        <3>2. CASE i # Len(front) + 1
            <4>1. i \in 1..Len(front)
                BY <1>1, <3>2
            <4>2. Append(front, f)[i] = front[i] /\ b[i] = front[i]
                BY <4>1, AppendProperties
            <4> DEFINE w == Append(front, f)
            <4>3. w \in Seq(File) /\ Len(front) + 1 \in 1..Len(w) /\ i \in 1..Len(w)
                BY <1>1
            <4> HIDE DEF w
            <4>4. [w EXCEPT ![Len(front) + 1] = g][i] = w[i]
                BY <3>2, <4>3
            <4> QED BY <4>2, <4>4 DEF w
        <3> QED BY <3>1, <3>2
    <2> HIDE DEF a, b
    <2>4. a = b
        BY <2>1, <2>2, <2>3, SeqEqual
    <2> QED BY <2>4 DEF a, b
<1> QED BY <1>1, <1>2

\* rotate_wal_if_needed.
LEMMA RotateIs ==
    ASSUME NEW front \in Seq(File), NEW f \in File
    PROVE  Rotate(Append(front, f)) = Append(Append(front, SyncAll(f)), Create)
<1> DEFINE w == Append(front, f)
           g == SyncAll(f)
<1>1. f.data \in Seq(Cell) /\ Len(f.data) \in Nat
    BY FileFacts
<1>2. g \in File
    BY <1>1 DEF SyncAll, File
<1>3. Len(w) = Len(front) + 1 /\ w[Len(front) + 1] = f
      /\ [w EXCEPT ![Len(front) + 1] = g] = Append(front, g)
    BY <1>2, LastFile
<1> HIDE DEF w
<1>4. [w EXCEPT ![Len(w)] = SyncAll(@)] = [w EXCEPT ![Len(front) + 1] = g]
    BY <1>3
<1> HIDE DEF g
<1>5. Rotate(w) = Append(Append(front, g), Create)
    BY <1>3, <1>4 DEF Rotate
<1> QED BY <1>5 DEF w, g

\* A write of k cells of the next record's frame.
LEMMA AppendedIs ==
    ASSUME NEW front \in Seq(File), NEW f \in File, wal = Append(front, f), frames \in Nat,
           NEW len \in Nat, NEW k \in 0..(len + 2)
    PROVE  /\ NextRecord \in Record /\ SubSeq(Frame(NextRecord, len), 1, k) \in Seq(Cell)
           /\ wal[Cur] = f
           /\ Appended(len, k)
                = Append(front, Longer(f, SubSeq(Frame(NextRecord, len), 1, k)))
<1> DEFINE cells == SubSeq(Frame(NextRecord, len), 1, k)
           g == Longer(f, cells)
<1>1. NextRecord \in Record
    BY DEF NextRecord, Record
<1>2. cells \in Seq(Cell)
    <2>1. Frame(NextRecord, len) \in Seq(Cell) /\ Len(Frame(NextRecord, len)) = len + 2
        BY <1>1, FrameFacts
    <2> QED BY <2>1, CutFacts
<1> HIDE DEF cells
<1>3. f.data \in Seq(Cell) /\ Len(f.data) \in Nat /\ f.synced \in Nat
    BY FileFacts
<1>4. g \in File
    BY <1>2, <1>3, LongerFacts
<1>5. Written(f, Len(f.data), cells) = g
    <2>1. SubSeq(f.data, 1, Len(f.data)) = f.data
        BY <1>3, SubSeqFull
    <2>2. SubSeq(f.data, Len(f.data) + Len(cells) + 1, Len(f.data)) = <<>>
        <3>1. Len(cells) \in Nat
            BY <1>2
        <3> QED BY <1>3, <3>1, SubSeqEmpty
    <2>3. (f.data \o cells) \o <<>> = f.data \o cells
        BY <1>2, <1>3
    <2> QED BY <2>1, <2>2, <2>3 DEF Written, Longer
<1>6. Len(wal) = Len(front) + 1 /\ wal[Len(front) + 1] = f
      /\ [wal EXCEPT ![Len(front) + 1] = g] = Append(front, g)
    BY <1>4, LastFile
<1>7. [wal EXCEPT ![Cur] = Written(@, Len(@.data), cells)] = [wal EXCEPT ![Len(front) + 1] = g]
    <2> HIDE DEF g
    <2> QED BY <1>5, <1>6 DEF Cur
<1>8. Appended(len, k) = Append(front, g)
    BY <1>6, <1>7 DEF Appended, cells
<1> QED BY <1>1, <1>2, <1>6, <1>8 DEF cells, Cur

\* Without a splice, an append is behind whole frames.
LEMMA AppendingExactly ==
    ASSUME WalInv, Appending, WalSound', NEW front, NEW f, NEW past, NEW last, NEW sure,
           WalHolds(front, f, past, last, sure), wal = Append(front, f), frames \in Nat
    PROVE  Exactly(f.data, last)
<1>1. wal[Cur] = f
    <2>1. 0 \in Nat /\ 0 \in 0..(0 + 2) /\ front \in Seq(File) /\ f \in File
        BY DEF WalHolds
    <2> QED BY <2>1, AppendedIs
<1>2. "splice" \notin flaws'
    BY DEF WalSound
<1>3. Whole(f.data)
    BY <1>1, <1>2 DEF Appending, FlawIf
<1> QED BY <1>3, ExactlyHolds DEF WalHolds

\* A whole frame of the next record, and less than a frame.
LEMMA PutHolds ==
    ASSUME NEW front, NEW f, NEW past, NEW last, NEW sure, WalHolds(front, f, past, last, sure),
           Exactly(f.data, last), wal = Append(front, f), frames \in Nat, NEW len \in Nat
    PROVE  \E g \in File : /\ Appended(len, len + 2) = Append(front, g)
                           /\ WalHolds(front, g, past, Append(last, NextRecord), sure)
                           /\ Len(g.data) >= 2
<1>0. len + 2 \in 0..(len + 2) /\ front \in Seq(File) /\ f \in File
    BY DEF WalHolds
<1> DEFINE cells == SubSeq(Frame(NextRecord, len), 1, len + 2)
           g == Longer(f, cells)
<1>1. NextRecord \in Record /\ cells \in Seq(Cell) /\ Appended(len, len + 2) = Append(front, g)
    BY <1>0, AppendedIs
<1>2. cells = Frame(NextRecord, len)
    <2>1. Frame(NextRecord, len) \in Seq(Cell) /\ Len(Frame(NextRecord, len)) = len + 2
        BY <1>1, FrameFacts
    <2> QED BY <2>1, SubSeqFull
<1>3. Holds(f.data \o cells, Append(last, NextRecord))
    BY <1>1, <1>2, AppendFrame, ExactlyHolds
<1> DEFINE ls == Append(last, NextRecord)
<1> HIDE DEF cells, ls
<1>4. WalHolds(front, g, past, ls, sure) /\ g.data = f.data \o cells /\ Len(f.data \o cells) >= Len(f.data)
    BY <1>1, <1>3, LongerHolds DEF ls
<1> HIDE DEF g
<1>5. g \in File /\ Len(g.data) >= 2
    <2>1. Len(f.data) >= 2 /\ f.data \in Seq(Cell)
        BY DEF Exactly
    <2>2. g \in File
        BY <1>4 DEF WalHolds
    <2>3. Len(f.data) \in Nat /\ Len(g.data) \in Nat
        BY <2>1, <2>2, FileFacts
    <2> QED BY <1>4, <2>1, <2>2, <2>3
<1>6. WalHolds(front, g, past, Append(last, NextRecord), sure)
    BY <1>4 DEF ls
<1> QED BY <1>1, <1>5, <1>6

LEMMA PutFailsHolds ==
    ASSUME NEW front, NEW f, NEW past, NEW last, NEW sure, WalHolds(front, f, past, last, sure),
           Exactly(f.data, last), wal = Append(front, f), frames \in Nat, NEW len \in Nat,
           NEW k \in 0..(len + 1)
    PROVE  \E g \in File : /\ Appended(len, k) = Append(front, g)
                           /\ WalHolds(front, g, past, last, sure)
                           /\ Len(g.data) >= 2
<1>0. k \in 0..(len + 2) /\ front \in Seq(File) /\ f \in File
    BY DEF WalHolds
<1> DEFINE cells == SubSeq(Frame(NextRecord, len), 1, k)
           g == Longer(f, cells)
<1>1. NextRecord \in Record /\ cells \in Seq(Cell) /\ Appended(len, k) = Append(front, g)
    BY <1>0, AppendedIs
<1>3. Holds(f.data \o cells, last)
    BY <1>1, AppendTorn
<1> HIDE DEF cells
<1>4. WalHolds(front, g, past, last, sure) /\ g.data = f.data \o cells /\ Len(f.data \o cells) >= Len(f.data)
    BY <1>1, <1>3, LongerHolds
<1> HIDE DEF g
<1>5. g \in File /\ Len(g.data) >= 2
    <2>1. Len(f.data) >= 2 /\ f.data \in Seq(Cell)
        BY DEF Exactly
    <2>2. g \in File
        BY <1>4 DEF WalHolds
    <2>3. Len(f.data) \in Nat /\ Len(g.data) \in Nat
        BY <2>1, <2>2, FileFacts
    <2> QED BY <1>4, <2>1, <2>2, <2>3
<1> QED BY <1>1, <1>4, <1>5

\* A file more behind the frames of the last one.
LEMMA RotateHolds ==
    ASSUME NEW front, NEW f, NEW past, NEW last, NEW sure, WalHolds(front, f, past, last, sure),
           NEW g \in File, g.synced = 0, Holds(g.data, <<>>)
    PROVE  WalHolds(Append(front, SyncAll(f)), g, past \o last, <<>>, <<>>)
<1> DEFINE h == SyncAll(f)
<1>1. WalHolds(front, h, past, last, last) /\ h.data = f.data /\ h.synced = Len(f.data)
    BY SyncHolds
<1> HIDE DEF h
<1>2. WalHolds(Append(front, h), g, past \o last, <<>>, <<>>)
    BY <1>1, NewFileHolds
<1> QED BY <1>2 DEF h
-----------------------------------------------------------------------------
(***************************************************************************)
(* Every step keeps the invariant of the WAL, unless it is an exception.   *)
(***************************************************************************)
LEMMA WalInvParts ==
    ASSUME WalInv
    PROVE  \E front, f, past, last, sure :
              /\ WalHolds(front, f, past, last, sure)
              /\ wal = Append(front, f)
              /\ acked \subseteq Range(past \o sure)
              /\ Applied(f, past, last)
              /\ past \in Seq(Record) /\ last \in Seq(Record) /\ sure \in Seq(Record)
              /\ front \in Seq(File) /\ f \in File
BY ZenonT(30) DEF WalInv, WalHolds

\* What is synced is among what was applied.
LEMMA SureIsApplied ==
    ASSUME NEW front, NEW f, NEW past, NEW last, NEW sure, WalHolds(front, f, past, last, sure)
    PROVE  Range(past \o sure) \in SUBSET Range(past \o last)
<1>1. f \in File /\ f.synced <= Len(f.data) /\ past \in Seq(Record) /\ last \in Seq(Record)
      /\ sure \in Seq(Record) /\ Holds(f.data, last) /\ Holds(SubSeq(f.data, 1, f.synced), sure)
    BY DEF WalHolds
<1>2. f.synced \in 0..Len(f.data)
    BY <1>1, FileFacts
<1>3. PICK k \in 0..Len(last) : Holds(SubSeq(f.data, 1, f.synced), SubSeq(last, 1, k))
    BY <1>1, <1>2, CutHolds
<1>4. sure = SubSeq(last, 1, k)
    BY <1>1, <1>3, HoldsUnique
<1>5. IsPrefix(sure, last)
    BY <1>1, <1>4, CutIsPrefix
<1> QED BY <1>1, <1>5, PrefixOfJoin

LEMMA PrefixOfItself ==
    ASSUME NEW S, NEW s \in Seq(S)
    PROVE  IsPrefix(s, s)
BY PrefixFacts

\* While the engine is up and when it stops.
LEMMA AppliedIsPrefix ==
    ASSUME NEW f, NEW past \in Seq(Record), NEW last \in Seq(Record), Applied(f, past, last)
    PROVE  IsPrefix(past \o last, logged)
<1>1. past \o last \in Seq(Record)
    OBVIOUS
<1>2. CASE status = "up"
    <2>1. logged = past \o last
        BY <1>2 DEF Applied
    <2> QED BY <1>1, <2>1, PrefixOfItself
<1>3. CASE status # "up"
    BY <1>3 DEF Applied
<1> QED BY <1>2, <1>3

LEMMA WalIdle ==
    ASSUME WalInv, UNCHANGED walVars, status' = status \/ status' # "up"
    PROVE  WalInv'
<1>1. PICK front, f, past, last, sure :
              /\ WalHolds(front, f, past, last, sure)
              /\ wal = Append(front, f)
              /\ acked \subseteq Range(past \o sure)
              /\ Applied(f, past, last)
              /\ past \in Seq(Record) /\ last \in Seq(Record) /\ sure \in Seq(Record)
    BY WalInvParts
<1>2. wal' = wal /\ logged' = logged /\ acked' = acked
    BY DEF walVars
<1>3. IsPrefix(past \o last, logged)
    BY <1>1, AppliedIsPrefix
<1>4. Applied(f, past, last)'
    BY <1>1, <1>2, <1>3 DEF Applied
<1> QED BY <1>1, <1>2, <1>4 DEF WalInv

\* Appending to the second of two sequences.
Grown(S, a, b, r) ==
    /\ Append(a \o b, r) = a \o Append(b, r)
    /\ Append(b, r) \in Seq(S) /\ a \o Append(b, r) \in Seq(S)

LEMMA AppendToJoin ==
    ASSUME NEW S, NEW a \in Seq(S), NEW b \in Seq(S), NEW r \in S
    PROVE  Grown(S, a, b, r)
<1> DEFINE u == Append(a \o b, r)
           v == a \o Append(b, r)
           c == a \o b
           e == Append(b, r)
<1>1. c \in Seq(S) /\ Len(c) = Len(a) + Len(b) /\ (\A i \in 1..Len(a) : c[i] = a[i])
      /\ \A i \in 1..Len(b) : c[Len(a) + i] = b[i]
    BY JoinFacts DEF Joined
<1>2. e \in Seq(S) /\ Len(e) = Len(b) + 1 /\ (\A i \in 1..Len(b) : e[i] = b[i]) /\ e[Len(b) + 1] = r
    OBVIOUS
<1> HIDE DEF e
<1>3. v \in Seq(S) /\ Len(v) = Len(a) + Len(e) /\ (\A i \in 1..Len(a) : v[i] = a[i])
      /\ \A i \in 1..Len(e) : v[Len(a) + i] = e[i]
    BY <1>2, JoinFacts DEF Joined, e
<1> HIDE DEF c
<1>4. u \in Seq(S) /\ Len(u) = Len(c) + 1 /\ (\A i \in 1..Len(c) : u[i] = c[i]) /\ u[Len(c) + 1] = r
    BY <1>1 DEF c
<1>5. Len(a) \in Nat /\ Len(b) \in Nat
    OBVIOUS
<1> HIDE DEF u, v
<1>6. ASSUME NEW i \in 1..Len(u) PROVE u[i] = v[i]
    <2>1. CASE i \in 1..Len(a)
        BY <1>1, <1>3, <1>4, <1>5, <2>1
    <2>2. CASE i \in Len(a) + 1..Len(a) + Len(b)
        <3>1. i - Len(a) \in 1..Len(b) /\ i = Len(a) + (i - Len(a)) /\ i \in 1..Len(c)
            BY <1>1, <1>5, <2>2
        <3>2. i - Len(a) \in 1..Len(e)
            BY <1>2, <1>5, <3>1
        <3>3. u[i] = b[i - Len(a)]
            BY <1>1, <1>4, <3>1
        <3>4. v[i] = e[i - Len(a)]
            BY <1>3, <3>1, <3>2
        <3> QED BY <1>2, <3>1, <3>3, <3>4
    <2>3. CASE i = Len(a) + Len(b) + 1
        <3>1. i = Len(a) + Len(e) /\ Len(e) \in 1..Len(e) /\ i = Len(c) + 1
            BY <1>1, <1>2, <1>5, <2>3
        <3> QED BY <1>2, <1>3, <1>4, <3>1
    <2>4. i \in 1..(Len(a) + Len(b) + 1)
        BY <1>1, <1>4
    <2> QED BY <1>5, <2>1, <2>2, <2>3, <2>4, SMTT(30)
<1>7. Len(u) = Len(v)
    BY <1>1, <1>2, <1>3, <1>4, <1>5
<1>8. u = v
    BY <1>3, <1>4, <1>6, <1>7, SeqEqual
<1> QED BY <1>2, <1>3, <1>8 DEF Grown, u, v, c, e

LEMMA JoinEmpty ==
    ASSUME NEW S, NEW a \in Seq(S)
    PROVE  a \o <<>> = a
OBVIOUS

\* The record that is written is applied.
LEMMA AppliedUp ==
    ASSUME NEW f, NEW past, NEW last, NEW all, all = past \o last, logged' = all, status' = "up",
           Len(f.data) >= 2
    PROVE  Applied(f, past, last)'
BY DEF Applied

LEMMA AppliedDown ==
    ASSUME NEW f, NEW past, NEW last, NEW all, all = past \o last, IsPrefix(all, logged'),
           status' # "up"
    PROVE  Applied(f, past, last)'
BY DEF Applied

LEMMA WalInvNext ==
    ASSUME NEW front, NEW f, NEW past, NEW last, NEW sure, NEW all,
           WalHolds(front, f, past, last, sure), wal' = Append(front, f),
           all = past \o sure, acked' \subseteq Range(all), logged' \in Seq(Record),
           Applied(f, past, last)'
    PROVE  WalInv'
BY DEF WalInv

LEMMA PutWal ==
    ASSUME WalInv, WalSound', frames \in Nat, NEW len \in 1..MaxLen, put(len)
    PROVE  WalInv'
<1>1. PICK front, f, past, last, sure :
              /\ WalHolds(front, f, past, last, sure)
              /\ wal = Append(front, f)
              /\ acked \subseteq Range(past \o sure)
              /\ Applied(f, past, last)
              /\ past \in Seq(Record) /\ last \in Seq(Record) /\ sure \in Seq(Record)
              /\ front \in Seq(File) /\ f \in File
    BY WalInvParts
<1>2. Appending /\ status = "up" /\ status' = "up" /\ acked' = acked /\ len \in Nat
      /\ logged' = Append(logged, NextRecord)
    BY DEF put, Appending
<1>3. Exactly(f.data, last)
    BY <1>1, <1>2, AppendingExactly
<1> PICK r, ls : r = NextRecord /\ ls = Append(last, r)
    OBVIOUS
<1>4. PICK g \in File : /\ Appended(len, len + 2) = Append(front, g)
                        /\ WalHolds(front, g, past, ls, sure)
                        /\ Len(g.data) >= 2
    BY <1>1, <1>2, <1>3, PutHolds
<1>5. logged' = past \o ls /\ ls \in Seq(Record) /\ past \o ls \in Seq(Record)
    <2>1. r \in Record
        BY DEF NextRecord, Record
    <2>2. logged = past \o last
        BY <1>1, <1>2 DEF Applied
    <2>3. Grown(Record, past, last, r)
        BY <1>1, <2>1, AppendToJoin
    <2> QED BY <1>2, <2>2, <2>3 DEF Grown
<1>6. wal' = Append(front, g) \/ wal' = Rotate(Append(front, g))
    BY <1>4 DEF put
<1>7. CASE wal' = Append(front, g)
    <2>1. Applied(g, past, ls)'
        BY <1>2, <1>4, <1>5, AppliedUp
    <2> QED BY <1>1, <1>2, <1>4, <1>5, <1>7, <2>1, WalInvNext
<1>8. CASE wal' = Rotate(Append(front, g))
    <2> DEFINE h == Create
               all == past \o ls
               before == Append(front, SyncAll(g))
    <2>1. h \in File /\ h.synced = 0 /\ h.data = Header /\ Len(Header) = 2
        BY HeaderFacts DEF Create, File
    <2>2. wal' = Append(before, h)
        BY <1>1, <1>8, RotateIs
    <2> HIDE DEF h
    <2>3. Holds(h.data, <<>>)
        BY <2>1, EmptyHolds
    <2>4. WalHolds(before, h, all, <<>>, <<>>)
        BY <1>4, <2>1, <2>3, RotateHolds
    <2>5. acked' \subseteq Range(all)
        <3>1. Range(past \o sure) \in SUBSET Range(past \o ls)
            BY <1>4, SureIsApplied
        <3> QED BY <1>1, <1>2, <3>1
    <2>6. logged' = all /\ all \in Seq(Record)
        BY <1>5
    <2> HIDE DEF all, before
    <2>7. all = all \o <<>>
        BY <2>6, JoinEmpty
    <2>8. Len(h.data) >= 2
        BY <2>1
    <2>9. Applied(h, all, <<>>)'
        BY <1>2, <2>6, <2>7, <2>8, AppliedUp
    <2> QED BY <2>2, <2>4, <2>5, <2>6, <2>7, <2>9, WalInvNext
<1> QED BY <1>6, <1>7, <1>8

LEMMA PutFailsWal ==
    ASSUME WalInv, WalSound', frames \in Nat, NEW len \in 1..MaxLen, NEW k \in 0..(len + 1),
           put_fails(len, k)
    PROVE  WalInv'
<1>1. PICK front, f, past, last, sure :
              /\ WalHolds(front, f, past, last, sure)
              /\ wal = Append(front, f)
              /\ acked \subseteq Range(past \o sure)
              /\ Applied(f, past, last)
              /\ past \in Seq(Record) /\ last \in Seq(Record) /\ sure \in Seq(Record)
    BY WalInvParts
<1>2. Appending /\ status = "up" /\ status' = "up" /\ acked' = acked /\ logged' = logged
      /\ wal' = Appended(len, k) /\ len \in Nat
    BY DEF put_fails, Appending
<1>3. Exactly(f.data, last)
    BY <1>1, <1>2, AppendingExactly
<1>4. PICK g \in File : /\ Appended(len, k) = Append(front, g)
                        /\ WalHolds(front, g, past, last, sure)
                        /\ Len(g.data) >= 2
    BY <1>1, <1>2, <1>3, PutFailsHolds
<1>5. Applied(g, past, last)'
    BY <1>1, <1>2, <1>4 DEF Applied
<1>6. logged' \in Seq(Record)
    BY <1>2 DEF WalInv
<1> QED BY <1>1, <1>2, <1>4, <1>5, <1>6 DEF WalInv

LEMMA PutKilledWal ==
    ASSUME WalInv, WalSound', frames \in Nat, NEW len \in 1..MaxLen, put_killed(len)
    PROVE  WalInv'
<1>1. PICK front, f, past, last, sure :
              /\ WalHolds(front, f, past, last, sure)
              /\ wal = Append(front, f)
              /\ acked \subseteq Range(past \o sure)
              /\ Applied(f, past, last)
              /\ past \in Seq(Record) /\ last \in Seq(Record) /\ sure \in Seq(Record)
              /\ front \in Seq(File) /\ f \in File
    BY WalInvParts
<1>2. Appending /\ status = "up" /\ status' # "up" /\ acked' = acked /\ len \in Nat
      /\ logged' = Append(logged, NextRecord)
      /\ wal' = [Rotate(Appended(len, len + 2)) EXCEPT ![Cur + 1].data = <<>>]
    BY DEF put_killed, Appending
<1>3. Exactly(f.data, last)
    BY <1>1, <1>2, AppendingExactly
<1> PICK r, ls : r = NextRecord /\ ls = Append(last, r)
    OBVIOUS
<1>4. PICK g \in File : /\ Appended(len, len + 2) = Append(front, g)
                        /\ WalHolds(front, g, past, ls, sure)
                        /\ Len(g.data) >= 2
    BY <1>1, <1>2, <1>3, PutHolds
<1>5. logged' = past \o ls /\ ls \in Seq(Record) /\ past \o ls \in Seq(Record)
    <2>1. r \in Record
        BY DEF NextRecord, Record
    <2>2. logged = past \o last
        BY <1>1, <1>2 DEF Applied
    <2>3. Grown(Record, past, last, r)
        BY <1>1, <2>1, AppendToJoin
    <2> QED BY <1>2, <2>2, <2>3 DEF Grown
<1> DEFINE before == Append(front, SyncAll(g))
           h == [data |-> <<>>, synced |-> 0]
           all == past \o ls
<1>6. h \in File /\ h.data = <<>> /\ h.synced = 0 /\ Create \in File /\ [Create EXCEPT !.data = <<>>] = h
    <2>1. <<>> \in Seq(Cell)
        OBVIOUS
    <2> QED BY <2>1, HeaderFacts DEF File, Create
<1> HIDE DEF h
<1>7. WalHolds(before, h, all, <<>>, <<>>)
    <2>1. Holds(h.data, <<>>)
        BY <1>6, EmptyHolds
    <2> QED BY <1>4, <1>6, <2>1, RotateHolds
<1>8. wal' = Append(before, h)
    <2>1. Rotate(Appended(len, len + 2)) = Append(before, Create)
        BY <1>1, <1>4, RotateIs
    <2>2. before \in Seq(File) /\ Len(before) = Len(front) + 1 /\ Len(front) \in Nat
        <3>1. SyncAll(g) \in File
            BY <1>4, SyncHolds DEF WalHolds
        <3> QED BY <1>1, <3>1
    <2>3. Cur = Len(front) + 1
        BY <1>1, LastFile DEF Cur
    <2> HIDE DEF before
    <2> DEFINE w == Append(before, Create)
               n == Len(before) + 1
    <2>4. [w EXCEPT ![n] = h] = Append(before, h) /\ w[n] = Create
        BY <1>6, <2>2, LastFile
    <2> HIDE DEF w, n
    <2>5. [w EXCEPT ![n].data = <<>>] = [w EXCEPT ![n] = [w[n] EXCEPT !.data = <<>>]]
        OBVIOUS
    <2>6. [w EXCEPT ![n].data = <<>>] = Append(before, h)
        BY <1>6, <2>4, <2>5
    <2>7. n = Cur + 1
        BY <2>2, <2>3 DEF n
    <2> QED BY <1>2, <2>1, <2>6, <2>7 DEF w
<1>9. acked' \subseteq Range(all)
    <2>1. Range(past \o sure) \in SUBSET Range(past \o ls)
        BY <1>4, SureIsApplied
    <2> QED BY <1>1, <1>2, <2>1
<1>10. logged' = all /\ all \in Seq(Record)
    BY <1>5
<1> HIDE DEF before, all
<1>11. all = all \o <<>>
    BY <1>10, JoinEmpty
<1>12. IsPrefix(all, logged')
    BY <1>10, PrefixOfItself
<1>13. Applied(h, all, <<>>)'
    BY <1>2, <1>11, <1>12, AppliedDown
<1> QED BY <1>7, <1>8, <1>9, <1>10, <1>11, <1>13, WalInvNext

\* Engine::flush and Drop.
LEMMA FsyncWal ==
    ASSUME WalInv, status = "up", wal' = Fsync, acked' = Range(logged), logged' = logged
    PROVE  WalInv'
<1>1. PICK front, f, past, last, sure :
              /\ WalHolds(front, f, past, last, sure)
              /\ wal = Append(front, f)
              /\ acked \subseteq Range(past \o sure)
              /\ Applied(f, past, last)
              /\ past \in Seq(Record) /\ last \in Seq(Record) /\ sure \in Seq(Record)
              /\ front \in Seq(File) /\ f \in File
    BY WalInvParts
<1> DEFINE g == SyncAll(f)
<1>2. WalHolds(front, g, past, last, last) /\ g.data = f.data
    BY <1>1, SyncHolds
<1>3. wal' = Append(front, g)
    <2>1. g \in File
        BY <1>2 DEF WalHolds
    <2>2. Len(wal) = Len(front) + 1 /\ wal[Len(front) + 1] = f
          /\ [wal EXCEPT ![Len(front) + 1] = g] = Append(front, g)
        BY <1>1, <2>1, LastFile
    <2> QED BY <2>2 DEF Fsync, Cur
<1> HIDE DEF g
<1> PICK all : all = past \o last
    OBVIOUS
<1>4. logged' = all /\ all \in Seq(Record) /\ Len(g.data) >= 2 /\ acked' = Range(all)
    BY <1>1, <1>2 DEF Applied, WalInv
<1>5. Applied(g, past, last)'
    <2>1. CASE status' = "up"
        BY <1>4, <2>1, AppliedUp
    <2>2. CASE status' # "up"
        <3>1. IsPrefix(all, logged')
            BY <1>4, PrefixOfItself
        <3> QED BY <2>2, <3>1, AppliedDown
    <2> QED BY <2>1, <2>2
<1> QED BY <1>2, <1>3, <1>4, <1>5, WalInvNext

LEMMA PowerFailureWal ==
    ASSUME WalInv, power_failure
    PROVE  WalInv'
<1>1. PICK front, f, past, last, sure :
              /\ WalHolds(front, f, past, last, sure)
              /\ wal = Append(front, f)
              /\ acked \subseteq Range(past \o sure)
              /\ Applied(f, past, last)
              /\ past \in Seq(Record) /\ last \in Seq(Record) /\ sure \in Seq(Record)
              /\ front \in Seq(File) /\ f \in File
    BY WalInvParts
<1>2. /\ wal' \in SurvivingWals(wal) /\ acked' = acked /\ logged' = logged /\ status' # "up"
      /\ logged \in Seq(Record)
    BY DEF power_failure, Ending, WalInv
<1>3. PICK m \in f.synced..Len(f.data) : wal' = Append(front, CutAt(f, m))
    BY <1>1, <1>2, SurvivingAppend DEF WalHolds
<1>4. PICK ls \in Seq(Record) : /\ WalHolds(front, CutAt(f, m), past, ls, ls)
                                /\ IsPrefix(ls, last) /\ IsPrefix(sure, ls)
    BY <1>1, SurviveOne
<1>5. IsPrefix(past \o ls, past \o last) /\ Range(past \o sure) \in SUBSET Range(past \o ls)
    BY <1>1, <1>4, PrefixOfJoin
<1>6. IsPrefix(past \o last, logged)
    BY <1>1, AppliedIsPrefix
<1>7. past \o ls \in Seq(Record) /\ past \o last \in Seq(Record)
    BY <1>1
<1>8. IsPrefix(past \o ls, logged)
    BY <1>2, <1>5, <1>6, <1>7, PrefixTransitive
<1> PICK g, all : g = CutAt(f, m) /\ all = past \o ls
    OBVIOUS
<1>9. Applied(g, past, ls)'
    BY <1>2, <1>8, AppliedDown
<1>10. acked' \subseteq Range(all)
    BY <1>1, <1>2, <1>5
<1> QED BY <1>2, <1>3, <1>4, <1>9, <1>10, WalInvNext

\* Engine::open applies exactly what the files hold.
LEMMA OpenWal ==
    ASSUME WalInv, WalSound', open
    PROVE  WalInv'
<1>1. PICK front, f, past, last, sure :
              /\ WalHolds(front, f, past, last, sure)
              /\ wal = Append(front, f)
              /\ acked \subseteq Range(past \o sure)
              /\ Applied(f, past, last)
              /\ past \in Seq(Record) /\ last \in Seq(Record) /\ sure \in Seq(Record)
              /\ front \in Seq(File) /\ f \in File
    BY WalInvParts
<1> PICK all : all = past \o last
    OBVIOUS
<1>2. all \in Seq(Record)
    BY <1>1
<1>3. wal[Cur] = f
    BY <1>1, LastFile DEF Cur
<1>4. Len(f.data) >= 2 /\ logged' \in RecoverFromWal(wal) /\ status' = "up" /\ acked' = acked
    BY <1>3 DEF open, ValidHeader
<1>5. RecoverFromWal(Append(front, f)) = {all}
    BY <1>1, RecoverOne
<1>6. logged' = all
    BY <1>1, <1>4, <1>5
<1>7. CASE wal' = wal
    <2>1. Applied(f, past, last)'
        BY <1>4, <1>6, AppliedUp
    <2> QED BY <1>1, <1>2, <1>4, <1>6, <1>7, <2>1, WalInvNext
<1>8. CASE /\ wal' = Append(wal, Create)
           /\ flaws' = flaws \cup FlawIf(wal[Cur].synced < Len(wal[Cur].data), "unsynced")
    <2>1. f.synced = Len(f.data)
        <3>1. "unsynced" \notin flaws'
            BY DEF WalSound
        <3>2. ~(f.synced < Len(f.data))
            BY <1>3, <1>8, <3>1 DEF FlawIf
        <3>3. f.synced <= Len(f.data) /\ f.synced \in Nat /\ Len(f.data) \in Nat
            BY <1>1, FileFacts DEF WalHolds
        <3> QED BY <3>2, <3>3
    <2> PICK h : h = Create
        OBVIOUS
    <2>2. h \in File /\ h.synced = 0 /\ h.data = Header /\ Len(Header) = 2
        BY HeaderFacts DEF Create, File
    <2>3. Holds(h.data, <<>>)
        BY <2>2, EmptyHolds
    <2>4. WalHolds(wal, h, all, <<>>, <<>>)
        BY <1>1, <2>1, <2>2, <2>3, NewFileHolds
    <2>5. acked' \subseteq Range(all)
        <3>1. Range(past \o sure) \in SUBSET Range(past \o last)
            BY <1>1, SureIsApplied
        <3> QED BY <1>1, <1>4, <3>1
    <2>6. all = all \o <<>>
        BY <1>2, JoinEmpty
    <2>7. Len(h.data) >= 2
        BY <2>2
    <2>8. Applied(h, all, <<>>)'
        BY <1>4, <1>6, <2>6, <2>7, AppliedUp
    <2> PICK ws : ws = wal
        OBVIOUS
    <2> QED BY <1>2, <1>6, <1>8, <2>4, <2>5, <2>6, <2>8, WalInvNext
<1> QED BY <1>7, <1>8 DEF open
-----------------------------------------------------------------------------
(***************************************************************************)
(* Manifest::open: which Add entries the ones after them leave listed.     *)
(***************************************************************************)
\* What a list has after entry r.
After(L, r) == IF r.op = "Add" THEN L \cup {r} ELSE {g \in L : g.n # r.n}

LEMMA ListingFacts ==
    ASSUME NEW segs \in Seq(Record), NEW r \in Record
    PROVE  Listing(segs, r) \in Seq(Record) /\ Range(Listing(segs, r)) = After(Range(segs), r)
<1> DEFINE ls == Listing(segs, r)
           n == Len(segs)
<1>0. n \in Nat /\ DOMAIN segs = 1..n
    OBVIOUS
<1>1. CASE r.op = "Add"
    <2>1. ls = Append(segs, r)
        BY <1>1 DEF Listing
    <2>2. ls \in Seq(Record) /\ DOMAIN ls = 1..(n + 1) /\ ls[n + 1] = r /\ \A i \in 1..n : ls[i] = segs[i]
        BY <2>1
    <2> HIDE DEF ls
    <2>3. \A x : x \in Range(ls) <=> \E i \in 1..(n + 1) : x = ls[i]
        BY <2>2 DEF Range
    <2>4. \A x : x \in Range(segs) <=> \E i \in 1..n : x = segs[i]
        BY <1>0 DEF Range
    <2>5. ASSUME NEW x PROVE x \in Range(ls) <=> x \in Range(segs) \/ x = r
        <3>1. ASSUME x \in Range(ls) PROVE x \in Range(segs) \/ x = r
            <4>1. PICK i \in 1..(n + 1) : x = ls[i]
                BY <2>3, <3>1
            <4>2. i = n + 1 \/ i \in 1..n
                BY <1>0
            <4> QED BY <2>2, <2>4, <4>1, <4>2
        <3>2. ASSUME x \in Range(segs) PROVE x \in Range(ls)
            <4>1. PICK i \in 1..n : x = segs[i]
                BY <2>4, <3>2
            <4>2. i \in 1..(n + 1)
                BY <1>0
            <4> QED BY <2>2, <2>3, <4>1, <4>2
        <3>3. ASSUME x = r PROVE x \in Range(ls)
            <4>1. n + 1 \in 1..(n + 1)
                BY <1>0
            <4> QED BY <2>2, <2>3, <3>3, <4>1
        <3> QED BY <3>1, <3>2, <3>3
    <2>6. Range(ls) = After(Range(segs), r)
        BY <1>1, <2>5 DEF After
    <2> QED BY <2>2, <2>6 DEF ls
<1>2. CASE r.op # "Add"
    <2> DEFINE I == {j \in DOMAIN segs : segs[j].n # r.n}
    <2>1. ls = Retain(segs, I)
        BY <1>2 DEF Listing
    <2>2. I \in SUBSET DOMAIN segs
        OBVIOUS
    <2>3. /\ ls \in Seq(Record)
          /\ \A k \in DOMAIN ls : Nth(I, k) \in I /\ ls[k] = segs[Nth(I, k)]
          /\ \A i \in I : Rank(I, i) \in DOMAIN ls /\ Nth(I, Rank(I, i)) = i
        <3> HIDE DEF I, ls
        <3>1. /\ Retain(segs, I) \in Seq(Record)
              /\ \A k \in DOMAIN Retain(segs, I) : Nth(I, k) \in I /\ Retain(segs, I)[k] = segs[Nth(I, k)]
              /\ \A i \in I : Rank(I, i) \in DOMAIN Retain(segs, I) /\ Nth(I, Rank(I, i)) = i
            BY <2>2, RetainFacts
        <3> QED BY <2>1, <3>1
    <2> HIDE DEF ls
    <2>4. ASSUME NEW x PROVE x \in Range(ls) <=> x \in Range(segs) /\ x.n # r.n
        <3>1. ASSUME x \in Range(ls) PROVE x \in Range(segs) /\ x.n # r.n
            <4>1. PICK k \in DOMAIN ls : x = ls[k]
                BY <3>1 DEF Range
            <4>2. Nth(I, k) \in I /\ x = segs[Nth(I, k)]
                BY <2>3, <4>1
            <4> QED BY <4>2 DEF Range
        <3>2. ASSUME x \in Range(segs), x.n # r.n PROVE x \in Range(ls)
            <4>1. PICK i \in DOMAIN segs : x = segs[i]
                BY <3>2 DEF Range
            <4>2. i \in I
                BY <3>2, <4>1
            <4> HIDE DEF I
            <4>3. Rank(I, i) \in DOMAIN ls /\ ls[Rank(I, i)] = segs[i]
                BY <2>3, <4>2
            <4> QED BY <4>1, <4>3 DEF Range
        <3> QED BY <3>1, <3>2
    <2>5. Range(ls) = After(Range(segs), r)
        BY <1>2, <2>4 DEF After
    <2> QED BY <2>3, <2>5 DEF ls
<1> QED BY <1>1, <1>2

\* The table of Manifest::open.
ListStep(s, F, i) == IF i = 0 THEN <<>> ELSE Listing(F[i - 1], s[i])
ListTable(s, F) == F = [i \in 0..Len(s) |-> ListStep(s, F, i)]

LEMMA ListTableExists ==
    ASSUME NEW s \in Seq(Record)
    PROVE  \E F : ListTable(s, F)
<1> DEFINE n == Len(s)
           S == Seq(Record)
           G == [i \in 1..n |-> [l \in S |-> Listing(l, s[i])]]
<1>1. n \in Nat /\ <<>> \in S
    OBVIOUS
<1>2. ASSUME NEW i \in 1..n, NEW l \in S PROVE Listing(l, s[i]) \in S
    <2>1. s[i] \in Record
        OBVIOUS
    <2> QED BY <2>1, ListingFacts
<1>3. G \in [1..n -> [S -> S]]
    BY <1>2
<1>4. PICK F : Course(F, S, <<>>, n, G)
    <2> HIDE DEF S, G, n
    <2> QED BY <1>1, <1>3, IterationExists
<1>5. F \in [0..n -> S] /\ F[0] = <<>> /\ \A i \in 1..n : F[i] = G[i][F[i - 1]]
    BY <1>4 DEF Course
<1>6. ASSUME NEW i \in 0..n PROVE F[i] = ListStep(s, F, i)
    <2>1. CASE i = 0
        BY <1>5, <2>1 DEF ListStep
    <2>2. CASE i # 0
        <3>1. i \in 1..n /\ i - 1 \in 0..n
            BY <1>1, <2>2
        <3>2. F[i] = Listing(F[i - 1], s[i])
            BY <1>5, <3>1
        <3> QED BY <2>2, <3>2 DEF ListStep
    <2> QED BY <2>1, <2>2
<1>7. F = [i \in 0..n |-> F[i]]
    BY <1>5
<1> QED BY <1>6, <1>7 DEF ListTable

\* Entry j of s is an Add and none of the entries behind it up to i removes it.
Listed(s, j, i) ==
    s[j].op = "Add" /\ \A l \in (j + 1)..i : s[l].op = "Add" \/ s[l].n # s[j].n

LEMMA ReplayFacts ==
    ASSUME NEW s \in Seq(Record)
    PROVE  /\ Replay(s) \in Seq(Record)
           /\ \A x : x \in Range(Replay(s)) <=> \E j \in 1..Len(s) : x = s[j] /\ Listed(s, j, Len(s))
<1> DEFINE F == CHOOSE F : ListTable(s, F)
           n == Len(s)
           Says(i) == \A x : x \in Range(F[i]) <=> \E j \in 1..i : x = s[j] /\ Listed(s, j, i)
           Ok == {i \in 0..n : F[i] \in Seq(Record) /\ Says(i)}
<1>1. ListTable(s, F)
    BY ListTableExists, Zenon
<1>2. Replay(s) = F[n]
    BY DEF Replay, ListTable, ListStep
<1> HIDE DEF F
<1>3. n \in Nat /\ \A i \in 0..n : F[i] = ListStep(s, F, i)
    BY <1>1 DEF ListTable
<1>4. 0 \in Ok
    <2>1. F[0] = <<>> /\ 0 \in 0..n
        BY <1>3 DEF ListStep
    <2>2. Range(F[0]) = {}
        BY <2>1 DEF Range
    <2>3. F[0] \in Seq(Record)
        BY <2>1
    <2>4. \A j \in 1..0 : FALSE
        OBVIOUS
    <2>5. Says(0)
        BY <2>2, <2>4
    <2> HIDE DEF Says
    <2> QED BY <2>1, <2>3, <2>5
<1>5. ASSUME NEW i \in 1..n, i - 1 \in Ok PROVE i \in Ok
    <2>1. i \in 0..n /\ F[i - 1] \in Seq(Record) /\ Says(i - 1) /\ s[i] \in Record
        BY <1>5
    <2>2. F[i] = Listing(F[i - 1], s[i])
        BY <1>3, <2>1 DEF ListStep
    <2> DEFINE l == F[i - 1]
    <2>3. F[i] \in Seq(Record) /\ Range(F[i]) = After(Range(l), s[i])
        BY <2>1, <2>2, ListingFacts
    <2>4. \A x : x \in Range(l) <=> \E j \in 1..(i - 1) : x = s[j] /\ Listed(s, j, i - 1)
        BY <2>1
    <2> HIDE DEF l
    <2>5. ASSUME NEW x PROVE x \in Range(F[i]) <=> \E j \in 1..i : x = s[j] /\ Listed(s, j, i)
        <3>1. CASE s[i].op = "Add"
            <4>1. x \in Range(F[i]) <=> x \in Range(l) \/ x = s[i]
                BY <2>3, <3>1 DEF After
            <4>2. \A j \in 1..(i - 1) : Listed(s, j, i) <=> Listed(s, j, i - 1)
                BY <3>1 DEF Listed
            <4>3. Listed(s, i, i)
                BY <3>1 DEF Listed
            <4>4. \A j \in 1..i : j = i \/ j \in 1..(i - 1)
                OBVIOUS
            <4> QED BY <2>4, <4>1, <4>2, <4>3, <4>4
        <3>2. CASE s[i].op # "Add"
            <4>1. x \in Range(F[i]) <=> x \in Range(l) /\ x.n # s[i].n
                BY <2>3, <3>2 DEF After
            <4>2. \A j \in 1..(i - 1) : Listed(s, j, i) <=> Listed(s, j, i - 1) /\ s[j].n # s[i].n
                BY <3>2 DEF Listed
            <4>3. ~Listed(s, i, i)
                BY <3>2 DEF Listed
            <4>4. \A j \in 1..i : j = i \/ j \in 1..(i - 1)
                OBVIOUS
            <4> QED BY <2>4, <4>1, <4>2, <4>3, <4>4
        <3> QED BY <3>1, <3>2
    <2> QED BY <2>1, <2>3, <2>5
<1>6. n \in Ok
    <2> HIDE DEF Ok
    <2> QED BY <1>3, <1>4, <1>5, Reaches
<1> QED BY <1>2, <1>6

\* What the entries t leave of a list L and add to it.
Left(L, t) == {x \in L : \A i \in 1..Len(t) : t[i].op = "Add" \/ t[i].n # x.n}
Net(L, t) == Left(L, t) \cup {t[i] : i \in {j \in 1..Len(t) : Listed(t, j, Len(t))}}

LEMMA ReplayJoin ==
    ASSUME NEW s \in Seq(Record), NEW t \in Seq(Record)
    PROVE  Range(Replay(s \o t)) = Net(Range(Replay(s)), t)
<1> DEFINE u == s \o t
           m == Len(s)
           n == Len(t)
<1>1. Joined(Record, s, t, u)
    BY JoinFacts
<1> HIDE DEF u
<1>2. /\ u \in Seq(Record) /\ Len(u) = m + n /\ m \in Nat /\ n \in Nat
      /\ (\A i \in 1..m : u[i] = s[i]) /\ \A i \in 1..n : u[m + i] = t[i]
    BY <1>1 DEF Joined
<1>3. \A x : x \in Range(Replay(u)) <=> \E j \in 1..(m + n) : x = u[j] /\ Listed(u, j, m + n)
    <2>1. \A x : x \in Range(Replay(u)) <=> \E j \in 1..Len(u) : x = u[j] /\ Listed(u, j, Len(u))
        BY <1>2, ReplayFacts
    <2>2. Len(u) = m + n
        BY <1>2
    <2> HIDE DEF m, n
    <2> QED BY <2>1, <2>2
<1>4. \A x : x \in Range(Replay(s)) <=> \E j \in 1..m : x = s[j] /\ Listed(s, j, m)
    BY ReplayFacts
<1> DEFINE Kept(x) == \A i \in 1..n : t[i].op = "Add" \/ t[i].n # x.n
<1>5. ASSUME NEW j \in 1..m PROVE Listed(u, j, m + n) <=> Listed(s, j, m) /\ Kept(s[j])
    <2>1. u[j] = s[j]
        BY <1>2
    <2>2. ASSUME Listed(u, j, m + n) PROVE Listed(s, j, m) /\ Kept(s[j])
        <3>1. \A l \in (j + 1)..(m + n) : u[l].op = "Add" \/ u[l].n # s[j].n
            BY <2>1, <2>2 DEF Listed
        <3>2. ASSUME NEW l \in (j + 1)..m PROVE s[l].op = "Add" \/ s[l].n # s[j].n
            <4>1. l \in (j + 1)..(m + n) /\ l \in 1..m
                BY <1>2
            <4> QED BY <1>2, <3>1, <4>1
        <3>3. ASSUME NEW i \in 1..n PROVE t[i].op = "Add" \/ t[i].n # s[j].n
            <4>1. m + i \in (j + 1)..(m + n)
                BY <1>2
            <4> QED BY <1>2, <3>1, <4>1
        <3>4. s[j].op = "Add"
            BY <2>1, <2>2 DEF Listed
        <3> QED BY <3>2, <3>3, <3>4 DEF Listed
    <2>3. ASSUME Listed(s, j, m), Kept(s[j]) PROVE Listed(u, j, m + n)
        <3>1. ASSUME NEW l \in (j + 1)..(m + n) PROVE u[l].op = "Add" \/ u[l].n # u[j].n
            <4>1. CASE l \in (j + 1)..m
                <5>1. l \in 1..m
                    BY <4>1
                <5> QED BY <1>2, <2>1, <2>3, <4>1, <5>1 DEF Listed
            <4>2. CASE l \notin (j + 1)..m
                <5>1. l - m \in 1..n /\ l = m + (l - m)
                    BY <1>2, <4>2
                <5>2. u[l] = t[l - m]
                    BY <1>2, <5>1
                <5> QED BY <2>1, <2>3, <5>1, <5>2
            <4> QED BY <4>1, <4>2
        <3> QED BY <2>1, <2>3, <3>1 DEF Listed
    <2> QED BY <2>2, <2>3
<1>6. ASSUME NEW i \in 1..n PROVE Listed(u, m + i, m + n) <=> Listed(t, i, n)
    <2>1. u[m + i] = t[i]
        BY <1>2
    <2>2. ASSUME Listed(u, m + i, m + n) PROVE Listed(t, i, n)
        <3>1. ASSUME NEW l \in (i + 1)..n PROVE t[l].op = "Add" \/ t[l].n # t[i].n
            <4>1. m + l \in (m + i + 1)..(m + n) /\ l \in 1..n
                BY <1>2
            <4>2. u[m + l] = t[l]
                BY <1>2, <4>1
            <4> QED BY <2>1, <2>2, <4>1, <4>2 DEF Listed
        <3> QED BY <2>1, <2>2, <3>1 DEF Listed
    <2>3. ASSUME Listed(t, i, n) PROVE Listed(u, m + i, m + n)
        <3>1. ASSUME NEW l \in (m + i + 1)..(m + n) PROVE u[l].op = "Add" \/ u[l].n # u[m + i].n
            <4>1. l - m \in (i + 1)..n /\ l - m \in 1..n /\ l = m + (l - m)
                BY <1>2
            <4>2. u[l] = t[l - m]
                BY <1>2, <4>1
            <4> QED BY <2>1, <2>3, <4>1, <4>2 DEF Listed
        <3> QED BY <2>1, <2>3, <3>1 DEF Listed
    <2> QED BY <2>2, <2>3
<1>7. ASSUME NEW x PROVE x \in Range(Replay(u)) <=> x \in Net(Range(Replay(s)), t)
    <2>0. x \in Net(Range(Replay(s)), t) <=> \/ x \in Range(Replay(s)) /\ Kept(x)
                                            \/ \E i \in 1..n : x = t[i] /\ Listed(t, i, n)
        BY DEF Net, Left
    <2> HIDE DEF Kept
    <2>1. ASSUME x \in Range(Replay(u)) PROVE x \in Net(Range(Replay(s)), t)
        <3>1. PICK j \in 1..(m + n) : x = u[j] /\ Listed(u, j, m + n)
            BY <1>3, <2>1
        <3>2. CASE j \in 1..m
            BY <1>2, <1>4, <1>5, <2>0, <3>1, <3>2
        <3>3. CASE j \notin 1..m
            <4>1. j - m \in 1..n /\ j = m + (j - m)
                BY <1>2, <3>3
            <4> QED BY <1>2, <1>6, <2>0, <3>1, <4>1
        <3> QED BY <3>2, <3>3
    <2>2. ASSUME x \in Range(Replay(s)), Kept(x) PROVE x \in Range(Replay(u))
        <3>1. PICK j \in 1..m : x = s[j] /\ Listed(s, j, m)
            BY <1>4, <2>2
        <3>2. j \in 1..(m + n)
            BY <1>2
        <3> QED BY <1>2, <1>3, <1>5, <2>2, <3>1, <3>2
    <2>3. ASSUME NEW i \in 1..n, x = t[i], Listed(t, i, n) PROVE x \in Range(Replay(u))
        <3>1. m + i \in 1..(m + n)
            BY <1>2
        <3> QED BY <1>2, <1>3, <1>6, <2>3, <3>1
    <2> QED BY <2>0, <2>1, <2>2, <2>3
<1>8. Range(Replay(u)) = Net(Range(Replay(s)), t)
    BY <1>7
<1> QED BY <1>8 DEF u

\* A list of Add entries stands for itself.
LEMMA ReplayAdds ==
    ASSUME NEW s \in Seq(Record), \A i \in 1..Len(s) : s[i].op = "Add"
    PROVE  Range(Replay(s)) = Range(s)
<1>1. \A j \in 1..Len(s) : Listed(s, j, Len(s))
    BY DEF Listed
<1>2. \A x : x \in Range(s) <=> \E j \in 1..Len(s) : x = s[j]
    BY DEF Range
<1>3. \A x : x \in Range(Replay(s)) <=> \E j \in 1..Len(s) : x = s[j]
    BY <1>1, ReplayFacts
<1> QED BY <1>2, <1>3

LEMMA ReplayHasAdds ==
    ASSUME NEW s \in Seq(Record)
    PROVE  /\ \A i \in 1..Len(Replay(s)) : Replay(s)[i].op = "Add"
           /\ \A x \in Range(Replay(s)) : x \in Record /\ x.op = "Add"
<1>1. \A x \in Range(Replay(s)) : x \in Record /\ x.op = "Add"
    BY ReplayFacts DEF Listed
<1>2. \A i \in 1..Len(Replay(s)) : Replay(s)[i] \in Range(Replay(s))
    BY ReplayFacts DEF Range
<1> QED BY <1>1, <1>2
-----------------------------------------------------------------------------
(***************************************************************************)
(* The entries of a call and their cells.                                  *)
(***************************************************************************)
LEMMA SetToSeqFacts ==
    ASSUME NEW S, IsFiniteSet(S)
    PROVE  /\ SetToSeq(S) \in Seq(S)
           /\ \A x \in S : \E i \in 1..Len(SetToSeq(S)) : SetToSeq(S)[i] = x
<1> DEFINE s == SetToSeq(S)
           n == Cardinality(S)
<1>1. n \in Nat /\ ExistsBijection(1..n, S)
    BY FS_CardinalityType
<1>2. PICK b : b \in Bijection(1..n, S)
    BY <1>1 DEF ExistsBijection
<1>3. b \in [1..n -> S] /\ IsInjective(b)
    BY <1>2 DEF Bijection, Injection
<1>4. s \in [1..n -> S] /\ IsInjective(s)
    <2>1. s = CHOOSE f \in [1..n -> S] : IsInjective(f)
        BY Zenon DEF SetToSeq
    <2> HIDE DEF s, n
    <2> QED BY <2>1, <1>3, Zenon
<1> HIDE DEF s, n
<1>5. s \in Injection(1..n, S)
    BY <1>4 DEF Injection
<1>6. IsFiniteSet(1..n)
    BY <1>1, FS_Interval
<1>7. Cardinality(1..n) = n
    BY <1>1, CountTo, Zenon
<1>8. s \in Surjection(1..n, S)
    <2>1. IsFiniteSet(S) /\ Cardinality(1..n) = Cardinality(S)
        BY <1>7 DEF n
    <2> QED BY <2>1, <1>5, FS_Injection
<1>9. s \in Seq(S) /\ Len(s) = n
    BY <1>1, <1>4
<1>10. \A x \in S : \E i \in 1..n : s[i] = x
    BY <1>8 DEF Surjection
<1> QED BY <1>9, <1>10 DEF s

\* t removes the segments gs and does nothing else.
Removes(t, gs) ==
    /\ t \in Seq(Record)
    /\ \A i \in 1..Len(t) : t[i].op = "Remove" /\ t[i].from = {} /\ \E g \in gs : t[i].n = g.n
    /\ \A g \in gs : \E i \in 1..Len(t) : t[i].n = g.n

LEMMA RemoveEntriesFacts ==
    ASSUME NEW gs \in SUBSET Record, IsFiniteSet(gs)
    PROVE  Removes(RemoveEntries(gs), gs)
<1> DEFINE Entry(g) == [op |-> "Remove", n |-> g.n, from |-> {}]
           S == {Entry(g) : g \in gs}
           s == RemoveEntries(gs)
<1>1. s = SetToSeq(S)
    BY DEF RemoveEntries
<1>2. \A g \in gs : Entry(g) \in Record
    BY DEF Record
<1>3. IsFiniteSet(S)
    <2> DEFINE f == [g \in gs |-> Entry(g)]
    <2>1. IsFiniteSet({f[g] : g \in gs})
        BY FiniteImage
    <2>2. {f[g] : g \in gs} = S
        OBVIOUS
    <2> QED BY <2>1, <2>2
<1>4. S \in SUBSET Record
    BY <1>2
<1>5. \A x \in S : x.op = "Remove" /\ x.from = {} /\ \E g \in gs : x.n = g.n
    OBVIOUS
<1>6. \A g \in gs : Entry(g) \in S /\ Entry(g).n = g.n
    OBVIOUS
<1> HIDE DEF S, Entry, s
<1>7. s \in Seq(S) /\ \A x \in S : \E i \in 1..Len(s) : s[i] = x
    BY <1>1, <1>3, SetToSeqFacts
<1>8. \A i \in 1..Len(s) : s[i] \in S
    BY <1>7
<1>9. s \in Seq(Record)
    BY <1>4, <1>7, <1>8
<1>10. ASSUME NEW g \in gs PROVE \E i \in 1..Len(s) : s[i].n = g.n
    <2>1. PICK x \in S : x.n = g.n
        BY <1>6
    <2>2. PICK i \in 1..Len(s) : s[i] = x
        BY <1>7
    <2> QED BY <2>1, <2>2
<1> QED BY <1>5, <1>8, <1>9, <1>10 DEF Removes, s

\* The table of FlattenSeq.
FlatStep(q, F, i) == IF i = 1 THEN q[i] ELSE F[i - 1] \o q[i]
FlatTable(q, F) == F = [i \in 1..Len(q) |-> FlatStep(q, F, i)]

LEMMA FlatTableExists ==
    ASSUME NEW q \in Seq(Seq(Cell))
    PROVE  \E F : FlatTable(q, F)
<1> DEFINE n == Len(q)
           S == Seq(Cell)
           Then(l, i) == l \o q[i]
           G == [i \in 1..n |-> [l \in S |-> Then(l, i)]]
<1>1. n \in Nat /\ <<>> \in S
    OBVIOUS
<1>2. ASSUME NEW i \in 1..n, NEW l \in S PROVE Then(l, i) \in S
    <2>1. q[i] \in S
        OBVIOUS
    <2> QED BY <2>1
<1> HIDE DEF Then
<1>3. G \in [1..n -> [S -> S]]
    BY <1>2
<1>4. PICK E : Course(E, S, <<>>, n, G)
    <2> HIDE DEF S, G, n
    <2> QED BY <1>1, <1>3, IterationExists
<1>5. E \in [0..n -> S] /\ E[0] = <<>> /\ \A i \in 1..n : E[i] = Then(E[i - 1], i)
    <2>1. E \in [0..n -> S] /\ E[0] = <<>> /\ \A i \in 1..n : E[i] = G[i][E[i - 1]]
        BY <1>4 DEF Course
    <2>2. \A i \in 1..n : i - 1 \in 0..n
        BY <1>1
    <2> QED BY <2>1, <2>2
<1> DEFINE F == [i \in 1..n |-> E[i]]
<1>6. ASSUME NEW i \in 1..n PROVE E[i] = FlatStep(q, F, i)
    <2>1. CASE i = 1
        <3>1. E[i] = <<>> \o q[i]
            <4>1. i - 1 = 0 /\ E[i] = Then(E[i - 1], i)
                BY <1>5, <2>1
            <4>2. E[i] = Then(<<>>, i)
                BY <1>5, <4>1
            <4> QED BY <4>2 DEF Then
        <3>2. <<>> \o q[i] = q[i]
            <4>1. q[i] \in Seq(Cell)
                OBVIOUS
            <4> QED BY <4>1
        <3> QED BY <2>1, <3>1, <3>2 DEF FlatStep
    <2>2. CASE i # 1
        <3>1. i - 1 \in 1..n
            BY <1>1, <2>2
        <3>2. F[i - 1] = E[i - 1]
            BY <3>1
        <3> QED BY <1>5, <2>2, <3>2 DEF FlatStep, Then
    <2> QED BY <2>1, <2>2
<1>7. F = [i \in 1..n |-> FlatStep(q, F, i)]
    BY <1>6
<1> QED BY <1>7, Zenon DEF FlatTable

\* c has the cells of the entries es.
CellsOf(es, c) ==
    /\ c \in Seq(Cell) /\ Len(c) = 3 * Len(es)
    /\ \A i \in 1..Len(es) : \A j \in 1..3 :
          c[3 * (i - 1) + j] = [rec |-> es[i], pos |-> j, len |-> 1]

LEMMA CellsFacts ==
    ASSUME NEW es \in Seq(Record)
    PROVE  CellsOf(es, Cells(es))
<1> DEFINE n == Len(es)
           q == [i \in DOMAIN es |-> Frame(es[i], EntrySize - 2)]
<1>0. n \in Nat /\ DOMAIN es = 1..n /\ EntrySize - 2 = 1
    BY DEF EntrySize
<1>1. \A i \in 1..n : /\ Frame(es[i], 1) \in Seq(Cell) /\ Len(Frame(es[i], 1)) = 3
                      /\ \A j \in 1..3 : Frame(es[i], 1)[j] = [rec |-> es[i], pos |-> j, len |-> 1]
    <2> TAKE i \in 1..n
    <2>1. es[i] \in Record /\ 1 \in Nat /\ 1 + 2 = 3
        OBVIOUS
    <2> QED BY <2>1, FrameFacts
<1>2. q = [i \in 1..n |-> Frame(es[i], 1)]
    BY <1>0
<1>3. q \in Seq(Seq(Cell)) /\ Len(q) = n /\ \A i \in 1..n : q[i] = Frame(es[i], 1)
    <2> DEFINE X(i) == Frame(es[i], 1)
               S == Seq(Cell)
    <2>1. \A i \in 1..n : X(i) \in S
        BY <1>1
    <2>2. q = [i \in 1..n |-> X(i)]
        BY <1>2
    <2> HIDE DEF X, S, q, n
    <2>3. q \in [1..n -> S] /\ \A i \in 1..n : q[i] = X(i)
        BY <2>1, <2>2
    <2>4. q \in Seq(S) /\ Len(q) = n
        BY <1>0, <2>3
    <2> QED BY <2>3, <2>4 DEF X, S
<1> HIDE DEF q
<1>4. Cells(es) = FlattenSeq(q)
    BY DEF Cells, q
<1>5. CASE n = 0
    <2>1. Cells(es) = q /\ q = <<>>
        BY <1>3, <1>4, <1>5 DEF FlattenSeq
    <2>2. <<>> \in Seq(Cell) /\ Len(<<>>) = 0 /\ \A i \in 1..0 : FALSE
        OBVIOUS
    <2> QED BY <1>5, <2>1, <2>2 DEF CellsOf
<1>6. CASE n # 0
    <2> DEFINE F == CHOOSE F : FlatTable(q, F)
               Says(i) == /\ F[i] \in Seq(Cell) /\ Len(F[i]) = 3 * i
                          /\ \A a \in 1..i : \A j \in 1..3 :
                                F[i][3 * (a - 1) + j] = [rec |-> es[a], pos |-> j, len |-> 1]
               Ok == {i \in 0..n : i = 0 \/ Says(i)}
    <2>1. FlatTable(q, F)
        BY <1>3, FlatTableExists, Zenon
    <2>2. Cells(es) = F[n]
        BY <1>3, <1>4, <1>6 DEF FlattenSeq, FlatTable, FlatStep
    <2> HIDE DEF F
    <2>3. \A i \in 1..n : F[i] = FlatStep(q, F, i)
        BY <1>3, <2>1 DEF FlatTable
    <2>4. 0 \in Ok
        BY <1>0
    <2>5. ASSUME NEW i \in 1..n, i - 1 \in Ok PROVE i \in Ok
        <3> DEFINE u == Frame(es[i], 1)
        <3>1. u \in Seq(Cell) /\ Len(u) = 3 /\ \A j \in 1..3 : u[j] = [rec |-> es[i], pos |-> j, len |-> 1]
            BY <1>1
        <3>2. q[i] = u
            BY <1>3
        <3> HIDE DEF u
        <3>3. CASE i = 1
            <4>1. F[i] = u
                BY <2>3, <3>2, <3>3 DEF FlatStep
            <4>2. ASSUME NEW a \in 1..i, NEW j \in 1..3
                  PROVE  F[i][3 * (a - 1) + j] = [rec |-> es[a], pos |-> j, len |-> 1]
                <5>1. a = i /\ 3 * (a - 1) + j = j
                    BY <3>3
                <5> QED BY <3>1, <4>1, <5>1
            <4>3. F[i] \in Seq(Cell) /\ Len(F[i]) = 3 * i
                BY <3>1, <3>3, <4>1
            <4>4. Says(i)
                BY <4>2, <4>3
            <4> HIDE DEF Says
            <4> QED BY <4>4
        <3>4. CASE i # 1
            <4> DEFINE d == F[i - 1]
                       e == d \o u
            <4>1. F[i] = e
                BY <2>3, <3>2, <3>4 DEF FlatStep
            <4>2. Says(i - 1)
                BY <2>5, <3>4
            <4>3. d \in Seq(Cell) /\ Len(d) = 3 * (i - 1)
                  /\ \A a \in 1..(i - 1) : \A j \in 1..3 :
                        d[3 * (a - 1) + j] = [rec |-> es[a], pos |-> j, len |-> 1]
                BY <4>2
            <4> HIDE DEF d
            <4>4. Joined(Cell, d, u, e)
                BY <3>1, <4>3, JoinFacts
            <4> HIDE DEF e
            <4>5. e \in Seq(Cell) /\ Len(e) = 3 * i
                BY <3>1, <4>3, <4>4 DEF Joined
            <4>6. ASSUME NEW a \in 1..i, NEW j \in 1..3
                  PROVE  e[3 * (a - 1) + j] = [rec |-> es[a], pos |-> j, len |-> 1]
                <5>1. CASE a = i
                    <6>1. e[Len(d) + j] = u[j]
                        BY <3>1, <4>4 DEF Joined
                    <6> QED BY <3>1, <4>3, <5>1, <6>1
                <5>2. CASE a # i
                    <6>1. a \in 1..(i - 1) /\ 3 * (a - 1) + j \in 1..(3 * (i - 1))
                        BY <5>2
                    <6>2. e[3 * (a - 1) + j] = d[3 * (a - 1) + j]
                        BY <4>3, <4>4, <6>1 DEF Joined
                    <6> QED BY <4>3, <6>1, <6>2
                <5> QED BY <5>1, <5>2
            <4>7. Says(i)
                BY <4>1, <4>5, <4>6
            <4> HIDE DEF Says
            <4> QED BY <4>7
        <3> QED BY <3>3, <3>4
    <2>6. n \in Ok
        <3> HIDE DEF Ok, n
        <3> QED BY <1>0, <2>4, <2>5, Reaches
    <2>7. Says(n)
        BY <1>6, <2>6
    <2> QED BY <2>2, <2>7 DEF CellsOf
<1> QED BY <1>5, <1>6

\* What a write changes of the manifest file.
LEMMA WrittenFacts ==
    ASSUME NEW f \in File, NEW at \in 0..Len(f.data), NEW cells \in Seq(Cell)
    PROVE  /\ Written(f, at, cells) \in File /\ Written(f, at, cells).synced = f.synced
           /\ Len(Written(f, at, cells).data) >= Len(f.data)
           /\ Len(Written(f, at, cells).data) >= at + Len(cells)
           /\ at = Len(f.data) => Written(f, at, cells) = Longer(f, cells)
<1> DEFINE d == f.data
           a == SubSeq(d, 1, at)
           b == SubSeq(d, at + Len(cells) + 1, Len(d))
           e == (a \o cells) \o b
           w == Written(f, at, cells)
<1>1. d \in Seq(Cell) /\ Len(d) \in Nat /\ f.synced \in Nat /\ Len(cells) \in Nat
    BY FileFacts
<1>2. at \in Nat /\ at <= Len(d) /\ at \in 0..Len(d)
    BY <1>1
<1>3. a \in Seq(Cell) /\ Len(a) = at
    BY <1>1, <1>2, CutFacts
<1>4. b \in Seq(Cell) /\ Len(b) = IF at + Len(cells) + 1 <= Len(d) THEN Len(d) - at - Len(cells) ELSE 0
    <2>1. CASE at + Len(cells) + 1 <= Len(d)
        <3>1. at + Len(cells) + 1 \in 1..(Len(d) + 1) /\ Len(d) \in (at + Len(cells) + 1)-1..Len(d)
            BY <1>1, <1>2, <2>1
        <3> HIDE DEF d
        <3>2. b \in Seq(Cell) /\ Len(b) = Len(d) - (at + Len(cells) + 1) + 1
            BY <1>1, <3>1, SubSeqProperties
        <3> HIDE DEF b
        <3> QED BY <1>1, <1>2, <2>1, <3>2
    <2>2. CASE ~(at + Len(cells) + 1 <= Len(d))
        <3>1. b = <<>>
            BY <1>1, <1>2, <2>2, SubSeqEmpty
        <3>2. <<>> \in Seq(Cell) /\ Len(<<>>) = 0
            OBVIOUS
        <3> QED BY <2>2, <3>1, <3>2
    <2> QED BY <2>1, <2>2
<1> HIDE DEF a, b
<1>5. e \in Seq(Cell) /\ Len(e) = at + Len(cells) + Len(b) /\ Len(e) \in Nat
    <2>1. a \o cells \in Seq(Cell) /\ Len(a \o cells) = at + Len(cells)
        BY <1>1, <1>3
    <2> DEFINE h == a \o cells
    <2> HIDE DEF h
    <2>2. h \in Seq(Cell) /\ Len(h) = at + Len(cells) /\ b \in Seq(Cell)
        BY <1>4, <2>1 DEF h
    <2>3. Joined(Cell, h, b, h \o b)
        BY <2>2, JoinFacts
    <2>4. h \o b \in Seq(Cell) /\ Len(h \o b) = Len(h) + Len(b)
        BY <2>3 DEF Joined
    <2>5. Len(h \o b) \in Nat
        BY <2>4
    <2> QED BY <2>2, <2>4, <2>5 DEF h
<1>6. w = [f EXCEPT !.data = e]
    BY DEF Written, a, b
<1>7. ASSUME at = Len(d) PROVE w = Longer(f, cells)
    <2>1. a = d
        BY <1>1, <1>7, SubSeqFull DEF a
    <2>2. b = <<>>
        BY <1>1, <1>7, SubSeqEmpty DEF b
    <2>3. (d \o cells) \o <<>> = d \o cells
        BY <1>1
    <2> QED BY <1>6, <2>1, <2>2, <2>3 DEF Longer
<1> HIDE DEF e, w
<1>8. w \in File /\ w.synced = f.synced /\ w.data = e
    BY <1>1, <1>5, <1>6 DEF File
<1>9. Len(e) >= Len(d) /\ Len(e) >= at + Len(cells)
    <2>1. Len(b) \in Nat /\ Len(b) >= Len(d) - at - Len(cells)
        BY <1>1, <1>2, <1>4
    <2>2. Len(e) = at + Len(cells) + Len(b)
        BY <1>5
    <2> HIDE DEF d
    <2> QED BY <1>1, <1>2, <2>1, <2>2
<1> QED BY <1>7, <1>8, <1>9 DEF w, d

(***************************************************************************)
(* The calls on the manifest, by what they do to a list L of segments.     *)
(***************************************************************************)
NewEntry(from) == [op |-> "Add", n |-> frames + 1, from |-> from]

IsFinalize(c) == c.es = <<NewEntry({frames + 1})>> /\ c.gone = {} /\ c.risk = {}

IsRemoval(c, gs, L) ==
    /\ Removes(c.es, gs) /\ gs \in SUBSET L
    /\ c.gone = Carried(gs) \ Carried(L \ gs) /\ c.risk = {}

IsReplace(c, g, t, L) ==
    /\ Removes(t, {g}) /\ g \in L
    /\ c.es = t \o <<NewEntry(g.from)>> /\ c.gone = {} /\ c.risk = {"replace"}

IsMerge(c, gs, t, L) ==
    /\ Removes(t, gs) /\ gs \in SUBSET L
    /\ c.es = <<NewEntry(Carried(gs))>> \o t /\ c.gone = {} /\ c.risk = {}

ACall(c, L) ==
    \/ IsFinalize(c)
    \/ \E gs : IsRemoval(c, gs, L)
    \/ \E g, t : IsReplace(c, g, t, L)
    \/ \E gs, t : IsMerge(c, gs, t, L)

LEMMA ListIsFinite ==
    ASSUME NEW s \in Seq(Record)
    PROVE  IsFiniteSet(Range(s)) /\ Range(s) \in SUBSET Record
<1>1. Len(s) \in Nat /\ DOMAIN s = 1..Len(s)
    OBVIOUS
<1>2. IsFiniteSet(1..Len(s))
    BY <1>1, FS_Interval
<1>3. Range(s) = {s[i] : i \in 1..Len(s)}
    BY <1>1 DEF Range
<1>4. IsFiniteSet({s[i] : i \in 1..Len(s)})
    BY <1>2, FiniteImage
<1>5. Range(s) \in SUBSET Record
    BY <1>1 DEF Range
<1> QED BY <1>3, <1>4, <1>5

LEMMA StoreCallsFacts ==
    ASSUME segments \in Seq(Record), NEW c \in StoreCalls
    PROVE  ACall(c, Range(segments))
<1> DEFINE L == Range(segments)
<1>1. L \in SUBSET Record
    BY ListIsFinite
<1>2. \A g \in L : {g} \in SUBSET Record /\ IsFiniteSet({g})
    BY <1>1, FS_Singleton
<1>3. \A g \in L : Removes(RemoveEntries({g}), {g})
    BY <1>2, RemoveEntriesFacts
<1>4. CASE c = Call(finalize_segment, {}, {})
    BY <1>4 DEF Call, finalize_segment, AddEntry, NewEntry, IsFinalize, ACall
<1>5. ASSUME NEW g \in L, c = Call(remove_segment(g), Gone({g}, segments), {})
      PROVE  ACall(c, L)
    <2>1. c.es = RemoveEntries({g}) /\ c.gone = Carried({g}) \ Carried(L \ {g}) /\ c.risk = {}
        BY <1>5 DEF Call, remove_segment, Gone
    <2>2. IsRemoval(c, {g}, L)
        BY <1>3, <2>1 DEF IsRemoval
    <2> QED BY <2>2, Zenon DEF ACall
<1>6. ASSUME NEW g \in L, c = Call(replace_segment(g), {}, {"replace"})
      PROVE  ACall(c, L)
    <2>1. c.es = RemoveEntries({g}) \o <<NewEntry(g.from)>> /\ c.gone = {} /\ c.risk = {"replace"}
        BY <1>6 DEF Call, replace_segment, AddEntry, NewEntry
    <2>2. IsReplace(c, g, RemoveEntries({g}), L)
        BY <1>3, <2>1 DEF IsReplace
    <2> QED BY <2>2, Zenon DEF ACall
<1>7. \/ c = Call(finalize_segment, {}, {})
      \/ \E g \in L : c = Call(remove_segment(g), Gone({g}, segments), {})
      \/ \E g \in L : c = Call(replace_segment(g), {}, {"replace"})
    BY DEF StoreCalls
<1> QED BY <1>4, <1>5, <1>6, <1>7

LEMMA CompactCallsFacts ==
    ASSUME mf \in File, Len(mf.data) >= 2, NEW c \in CompactCalls
    PROVE  \E s \in ReadRecords(mf.data) : s \in Seq(Record) /\ ACall(c, Range(Replay(s)))
<1>1. ReadRecords(mf.data) \in SUBSET Seq(Record)
    BY FileFacts, ReadRecordsTyped
<1>2. PICK s \in ReadRecords(mf.data) : \E gs \in (SUBSET Range(Replay(s))) \ {{}} :
          c \in {Call(compact_partial_cohort(gs), {}, {}),
                Call(collect_expired_cohort(gs), Gone(gs, Replay(s)), {})}
    BY DEF CompactCalls
<1> DEFINE list == Replay(s)
           L == Range(list)
<1>3. PICK gs \in SUBSET L : \/ c = Call(compact_partial_cohort(gs), {}, {})
                            \/ c = Call(collect_expired_cohort(gs), Gone(gs, list), {})
    BY <1>2
<1>4. s \in Seq(Record) /\ list \in Seq(Record)
    BY <1>1, ReplayFacts
<1>5. IsFiniteSet(L) /\ L \in SUBSET Record
    <2> HIDE DEF list
    <2> QED BY <1>4, ListIsFinite
<1>6. IsFiniteSet(gs) /\ gs \in SUBSET Record
    BY <1>5, FS_Subset
<1>7. Removes(RemoveEntries(gs), gs)
    BY <1>6, RemoveEntriesFacts
<1>8. CASE c = Call(compact_partial_cohort(gs), {}, {})
    <2>1. c.es = <<NewEntry(Carried(gs))>> \o RemoveEntries(gs) /\ c.gone = {} /\ c.risk = {}
        BY <1>8 DEF Call, compact_partial_cohort, AddEntry, NewEntry
    <2>2. IsMerge(c, gs, RemoveEntries(gs), L)
        BY <1>7, <2>1 DEF IsMerge
    <2>3. ACall(c, L)
        BY <2>2, Zenon DEF ACall
    <2> QED BY <1>4, <2>3
<1>9. CASE c = Call(collect_expired_cohort(gs), Gone(gs, list), {})
    <2>1. c.es = RemoveEntries(gs) /\ c.gone = Carried(gs) \ Carried(L \ gs) /\ c.risk = {}
        BY <1>9 DEF Call, collect_expired_cohort, Gone
    <2>2. IsRemoval(c, gs, L)
        BY <1>7, <2>1 DEF IsRemoval
    <2>3. ACall(c, L)
        BY <2>2, Zenon DEF ACall
    <2> QED BY <1>4, <2>3
<1> QED BY <1>3, <1>8, <1>9

\* The entries of a call are records.
LEMMA CallTyped ==
    ASSUME frames \in Nat, NEW L \in SUBSET Record, NEW c, ACall(c, L)
    PROVE  c.es \in Seq(Record)
<1>1. ASSUME NEW from \in SUBSET Nat PROVE NewEntry(from) \in Record /\ <<NewEntry(from)>> \in Seq(Record)
    <2>1. NewEntry(from) \in Record
        BY DEF NewEntry, Record
    <2> QED BY <2>1
<1>2. CASE IsFinalize(c)
    <2>1. {frames + 1} \in SUBSET Nat
        OBVIOUS
    <2> QED BY <1>1, <1>2, <2>1 DEF IsFinalize
<1>3. ASSUME NEW gs, IsRemoval(c, gs, L) PROVE c.es \in Seq(Record)
    BY <1>3 DEF IsRemoval, Removes
<1>4. ASSUME NEW g, NEW t, IsReplace(c, g, t, L) PROVE c.es \in Seq(Record)
    <2>1. t \in Seq(Record) /\ g.from \in SUBSET Nat /\ c.es = t \o <<NewEntry(g.from)>>
        BY <1>4 DEF IsReplace, Removes, Record
    <2> DEFINE u == <<NewEntry(g.from)>>
    <2>2. u \in Seq(Record) /\ c.es = t \o u
        BY <1>1, <2>1
    <2> HIDE DEF u
    <2> QED BY <2>1, <2>2
<1>5. ASSUME NEW gs, NEW t, IsMerge(c, gs, t, L) PROVE c.es \in Seq(Record)
    <2>1. t \in Seq(Record) /\ Carried(gs) \in SUBSET Nat /\ c.es = <<NewEntry(Carried(gs))>> \o t
        <3>1. t \in Seq(Record) /\ c.es = <<NewEntry(Carried(gs))>> \o t /\ gs \in SUBSET Record
            BY <1>5 DEF IsMerge, Removes
        <3>2. \A g \in gs : g.from \in SUBSET Nat
            BY <3>1 DEF Record
        <3>3. Carried(gs) \in SUBSET Nat
            BY <3>2 DEF Carried
        <3> QED BY <3>1, <3>3
    <2> DEFINE u == <<NewEntry(Carried(gs))>>
    <2>2. u \in Seq(Record) /\ c.es = u \o t
        BY <1>1, <2>1
    <2>3. t \in Seq(Record)
        BY <2>1
    <2> HIDE DEF u
    <2> QED BY <2>2, <2>3
<1> QED BY <1>2, <1>3, <1>4, <1>5 DEF ACall
-----------------------------------------------------------------------------
(***************************************************************************)
(* The types of the manifest's state: the header is on disk, and the       *)
(* store's handle is not behind the end of the file.                       *)
(***************************************************************************)
Types ==
    /\ mf \in File /\ 2 <= mf.synced /\ mf.synced <= Len(mf.data)
    /\ segments \in Seq(Record) /\ (\A i \in 1..Len(segments) : segments[i].op = "Add")
    /\ mpos \in Nat /\ (status = "up" => mpos <= Len(mf.data))
    /\ frames \in Nat

LEMMA InitTypes ==
    Init => Types
<1> SUFFICES ASSUME Init PROVE Types
    OBVIOUS
<1>1. mf.data = Header /\ mf.synced = 2 /\ mf = [data |-> Header, synced |-> 2]
    BY DEF Init
<1>2. mf \in File /\ Len(mf.data) = 2
    BY <1>1, HeaderFacts DEF File
<1>3. segments = <<>> /\ mpos = 2 /\ frames = 0
    BY DEF Init
<1>4. segments \in Seq(Record) /\ \A i \in 1..Len(segments) : segments[i].op = "Add"
    BY <1>3
<1> QED BY <1>1, <1>2, <1>3, <1>4, SMTT(30) DEF Types

\* The cells that a call writes, and the file with them.
Portion(c, k) == SubSeq(Cells(c.es), 1, k)
Put(c, at, k) == Written(mf, at, Portion(c, k))

LEMMA WritingIs ==
    ASSUME NEW c, NEW at, NEW k, Writing(c, at, k)
    PROVE  /\ status = "up" /\ frames' = frames + Len(c.es)
           /\ mf' = IF k = Size(c) THEN SyncAll(Put(c, at, k)) ELSE Put(c, at, k)
           /\ kept' = (IF k = Size(c) THEN kept \cup Carried(Range(c.es)) ELSE kept) \ c.gone
           /\ dropped' = IF k = Size(c) THEN dropped \cup c.gone ELSE dropped
           /\ flaws' = flaws \cup FlawIf(~Whole(mf.data), "entry")
                             \cup FlawIf(at < Len(mf.data), "stale")
                             \cup IF EntrySize <= k /\ ~(k = Size(c)) THEN c.risk ELSE {}
           /\ UNCHANGED walVars
BY DEF Writing, Put, Portion

LEMMA PortionFacts ==
    ASSUME NEW c, c.es \in Seq(Record), NEW k \in 0..Size(c)
    PROVE  /\ Portion(c, k) \in Seq(Cell) /\ Len(Portion(c, k)) = k /\ k \in Nat
           /\ Size(c) = 3 * Len(c.es) /\ Size(c) \in Nat
<1>1. CellsOf(c.es, Cells(c.es))
    BY CellsFacts
<1>2. Size(c) = 3 * Len(c.es) /\ Len(c.es) \in Nat
    BY DEF Size, EntrySize
<1> DEFINE d == Cells(c.es)
<1>3. d \in Seq(Cell) /\ Len(d) = Size(c)
    BY <1>1, <1>2 DEF CellsOf
<1> HIDE DEF d
<1>4. SubSeq(d, 1, k) \in Seq(Cell) /\ Len(SubSeq(d, 1, k)) = k
    BY <1>3, CutFacts
<1> QED BY <1>2, <1>4 DEF Portion, d

LEMMA WritingTypes ==
    ASSUME Types, NEW L \in SUBSET Record, NEW c, ACall(c, L), NEW at \in 0..Len(mf.data),
           NEW k \in 0..Size(c), Writing(c, at, k)
    PROVE  /\ mf' \in File /\ 2 <= mf'.synced /\ mf'.synced <= Len(mf'.data)
           /\ Len(mf'.data) >= Len(mf.data) /\ Len(mf'.data) >= at + k
           /\ frames' \in Nat
<1>1. c.es \in Seq(Record) /\ mf \in File /\ frames \in Nat /\ 2 <= mf.synced /\ mf.synced <= Len(mf.data)
    BY CallTyped DEF Types
<1>2. Portion(c, k) \in Seq(Cell) /\ Len(Portion(c, k)) = k /\ k \in Nat
    BY <1>1, PortionFacts
<1> DEFINE f == Put(c, at, k)
<1>3. f \in File /\ f.synced = mf.synced /\ Len(f.data) >= Len(mf.data) /\ Len(f.data) >= at + k
    BY <1>1, <1>2, WrittenFacts DEF Put
<1>4. frames' = frames + Len(c.es) /\ mf' = IF k = Size(c) THEN SyncAll(f) ELSE f
    BY WritingIs
<1> HIDE DEF f
<1>5. f.data \in Seq(Cell) /\ Len(f.data) \in Nat /\ f.synced \in Nat /\ Len(mf.data) \in Nat
    BY <1>1, <1>3, FileFacts
<1>6. SyncAll(f) \in File /\ SyncAll(f).data = f.data /\ SyncAll(f).synced = Len(f.data)
    BY <1>3, <1>5 DEF SyncAll, File
<1>7. frames' \in Nat
    BY <1>1, <1>4
<1>8. CASE k = Size(c)
    <2>1. mf' = SyncAll(f)
        BY <1>4, <1>8
    <2>2. 2 <= Len(f.data) /\ Len(f.data) <= Len(f.data)
        BY <1>1, <1>3, <1>5
    <2> QED BY <1>3, <1>6, <1>7, <2>1, <2>2
<1>9. CASE k # Size(c)
    <2>1. mf' = f
        BY <1>4, <1>9
    <2>2. 2 <= f.synced /\ f.synced <= Len(f.data)
        BY <1>1, <1>3, <1>5
    <2> QED BY <1>3, <1>7, <2>1, <2>2
<1> QED BY <1>8, <1>9

LEMMA StoreCallTypes ==
    ASSUME Types, NEW c \in StoreCalls, NEW k \in 0..Size(c), Writing(c, mpos, k),
           mpos' = mpos + k, NEW t \in Seq(Record), segments' = Replay(segments \o t)
    PROVE  Types'
<1>1. ACall(c, Range(segments)) /\ Range(segments) \in SUBSET Record /\ c.es \in Seq(Record)
    BY StoreCallsFacts, ListIsFinite, CallTyped DEF Types
<1>2. mpos \in 0..Len(mf.data) /\ mpos \in Nat /\ Len(mf.data) \in Nat
    BY WritingIs, FileFacts DEF Types
<1>3. /\ mf' \in File /\ 2 <= mf'.synced /\ mf'.synced <= Len(mf'.data)
      /\ Len(mf'.data) >= mpos + k /\ frames' \in Nat
    BY <1>1, <1>2, WritingTypes
<1>4. k \in Nat
    BY <1>1, PortionFacts
<1>5. segments' \in Seq(Record) /\ \A i \in 1..Len(segments') : segments'[i].op = "Add"
    <2> DEFINE s == segments \o t
    <2>1. s \in Seq(Record)
        BY DEF Types
    <2> HIDE DEF s
    <2>2. Replay(s) \in Seq(Record) /\ \A i \in 1..Len(Replay(s)) : Replay(s)[i].op = "Add"
        BY <2>1, ReplayFacts, ReplayHasAdds
    <2> QED BY <2>2 DEF s
<1>6. mpos' \in Nat /\ mpos' <= Len(mf'.data)
    <2>1. Len(mf'.data) \in Nat
        BY <1>3, FileFacts
    <2> QED BY <1>2, <1>3, <1>4, <2>1
<1> QED BY <1>3, <1>5, <1>6 DEF Types

LEMMA CompactTypes ==
    ASSUME Types, NEW c \in CompactCalls, NEW k \in 0..Size(c), Writing(c, Len(mf.data), k),
           \/ /\ mpos' = Len(mf'.data)
              /\ \E s \in ReadRecords(mf'.data) : segments' = Replay(s)
           \/ UNCHANGED <<mpos, segments>>
    PROVE  Types'
<1>1. mf \in File /\ Len(mf.data) \in Nat /\ Len(mf.data) >= 2 /\ Len(mf.data) \in 0..Len(mf.data)
    BY FileFacts DEF Types
<1>2. PICK s \in Seq(Record) : ACall(c, Range(Replay(s)))
    BY <1>1, CompactCallsFacts
<1>3. Range(Replay(s)) \in SUBSET Record
    BY ReplayFacts, ListIsFinite
<1>4. /\ mf' \in File /\ 2 <= mf'.synced /\ mf'.synced <= Len(mf'.data)
      /\ Len(mf'.data) >= Len(mf.data) /\ frames' \in Nat
    BY <1>1, <1>2, <1>3, WritingTypes
<1>5. mf'.data \in Seq(Cell) /\ Len(mf'.data) \in Nat /\ Len(mf'.data) >= 2
    BY <1>1, <1>4, FileFacts
<1>6. CASE /\ mpos' = Len(mf'.data)
           /\ \E r \in ReadRecords(mf'.data) : segments' = Replay(r)
    <2>1. ReadRecords(mf'.data) \in SUBSET Seq(Record)
        BY <1>5, ReadRecordsTyped
    <2>2. PICK r \in Seq(Record) : segments' = Replay(r)
        BY <1>6, <2>1
    <2>3. segments' \in Seq(Record) /\ \A i \in 1..Len(segments') : segments'[i].op = "Add"
        BY <2>2, ReplayFacts, ReplayHasAdds
    <2>4. mpos' \in Nat /\ mpos' <= Len(mf'.data)
        BY <1>5, <1>6
    <2> QED BY <1>4, <2>3, <2>4 DEF Types
<1>7. CASE UNCHANGED <<mpos, segments>>
    <2>1. status = "up"
        BY WritingIs
    <2>2. mpos' \in Nat /\ mpos' <= Len(mf'.data)
        BY <1>1, <1>4, <1>5, <1>7, <2>1 DEF Types
    <2> QED BY <1>4, <1>7, <2>2 DEF Types
<1> QED BY <1>6, <1>7

LEMMA PowerFailureTypes ==
    ASSUME Types, power_failure
    PROVE  Types'
<1>1. mf' \in Survivors(mf) /\ UNCHANGED <<mpos, segments, frames>> /\ status' # "up"
    BY DEF power_failure, Ending
<1>2. mf' \in File /\ mf'.synced = Len(mf'.data) /\ mf'.synced >= mf.synced
    BY <1>1, SurvivorFacts DEF Types
<1>3. mf.synced \in Nat /\ mf'.synced \in Nat /\ 2 <= mf.synced
    BY <1>2, FileFacts DEF Types
<1>4. 2 <= mf'.synced /\ mf'.synced <= Len(mf'.data)
    BY <1>2, <1>3
<1> QED BY <1>1, <1>2, <1>4 DEF Types

LEMMA OpenTypes ==
    ASSUME Types, open
    PROVE  Types'
<1>1. mf' = mf /\ frames' = frames /\ mpos' = Len(mf.data)
      /\ \E s \in ReadRecords(mf.data) : segments' = Replay(s)
    BY DEF open
<1>2. mf.data \in Seq(Cell) /\ Len(mf.data) \in Nat /\ Len(mf.data) >= 2
    BY FileFacts DEF Types
<1>3. ReadRecords(mf.data) \in SUBSET Seq(Record)
    BY <1>2, ReadRecordsTyped
<1>4. PICK r \in Seq(Record) : segments' = Replay(r)
    BY <1>1, <1>3
<1>5. segments' \in Seq(Record) /\ \A i \in 1..Len(segments') : segments'[i].op = "Add"
    BY <1>4, ReplayFacts, ReplayHasAdds
<1>6. mpos' \in Nat /\ mpos' <= Len(mf'.data)
    BY <1>1, <1>2
<1> QED BY <1>1, <1>5, <1>6 DEF Types

LEMMA StoreCallCutTypes ==
    ASSUME Types, NEW c \in StoreCalls, NEW k \in 0..(Size(c) - 1), store_call_cut(c, k)
    PROVE  Types'
<1>1. c.es \in Seq(Record) /\ Range(segments) \in SUBSET Record
    BY StoreCallsFacts, ListIsFinite, CallTyped DEF Types
<1>2. Size(c) = 3 * Len(c.es) /\ Len(c.es) \in Nat
    BY <1>1 DEF Size, EntrySize
<1>3. k \in 0..Size(c) /\ k \div 3 \in 0..Len(c.es)
    BY <1>2
<1>4. SubSeq(c.es, 1, k \div EntrySize) \in Seq(Record)
    BY <1>1, <1>3, CutFacts DEF EntrySize
<1>5. Writing(c, mpos, k) /\ mpos' = mpos + k
      /\ segments' = Replay(segments \o SubSeq(c.es, 1, k \div EntrySize))
    BY DEF store_call_cut
<1> QED BY <1>3, <1>4, <1>5, StoreCallTypes

LEMMA StoreCallWholeTypes ==
    ASSUME Types, NEW c \in StoreCalls, store_call(c)
    PROVE  Types'
<1>1. c.es \in Seq(Record) /\ Range(segments) \in SUBSET Record
    BY StoreCallsFacts, ListIsFinite, CallTyped DEF Types
<1>2. Size(c) \in 0..Size(c)
    BY <1>1 DEF Size, EntrySize
<1>3. Writing(c, mpos, Size(c)) /\ mpos' = mpos + Size(c) /\ segments' = Replay(segments \o c.es)
    BY DEF store_call
<1> QED BY <1>1, <1>2, <1>3, StoreCallTypes

LEMMA CompactSize ==
    ASSUME Types, NEW c \in CompactCalls
    PROVE  Size(c) \in 0..Size(c)
<1>1. mf \in File /\ Len(mf.data) >= 2
    BY FileFacts DEF Types
<1>2. PICK s \in Seq(Record) : ACall(c, Range(Replay(s)))
    BY <1>1, CompactCallsFacts
<1>3. Range(Replay(s)) \in SUBSET Record
    BY ReplayFacts, ListIsFinite
<1>4. c.es \in Seq(Record)
    BY <1>2, <1>3, CallTyped DEF Types
<1> QED BY <1>4 DEF Size, EntrySize

LEMMA CompactWholeTypes ==
    ASSUME Types, NEW c \in CompactCalls, compact_once(c)
    PROVE  Types'
<1>1. Size(c) \in 0..Size(c)
    BY CompactSize
<1> QED BY <1>1, CompactTypes DEF compact_once

LEMMA TypesStep ==
    ASSUME Types, [Next]_vars
    PROVE  Types'
<1>1. ASSUME UNCHANGED <<mf, segments, mpos>>, frames' \in Nat, status' = status \/ status' # "up"
      PROVE  Types'
    BY <1>1 DEF Types
<1>2. ASSUME NEW len \in 1..MaxLen, put(len) PROVE Types'
    BY <1>1, <1>2 DEF put, Appending, mfVars, Types
<1>3. ASSUME NEW len \in 1..MaxLen, NEW k \in 0..(len + 1), put_fails(len, k) PROVE Types'
    BY <1>1, <1>3 DEF put_fails, Appending, mfVars, Types
<1>4. ASSUME NEW len \in 1..MaxLen, put_killed(len) PROVE Types'
    BY <1>1, <1>4 DEF put_killed, Appending, mfVars, Types
<1>5. CASE flush
    BY <1>1, <1>5 DEF flush, mfVars, Types
<1>6. ASSUME NEW c \in StoreCalls, store_call(c) PROVE Types'
    BY <1>6, StoreCallWholeTypes
<1>7. ASSUME NEW c \in StoreCalls, NEW k \in 0..(Size(c) - 1), store_call_cut(c, k) PROVE Types'
    BY <1>7, StoreCallCutTypes
<1>8. ASSUME NEW c \in CompactCalls, compact_once(c) PROVE Types'
    BY <1>8, CompactWholeTypes
<1>9. ASSUME NEW c \in CompactCalls, NEW k \in 0..Size(c), compact_once_fails(c, k) PROVE Types'
    BY <1>9, CompactTypes DEF compact_once_fails
<1>10. CASE close
    BY <1>1, <1>10 DEF close, Ending, Types
<1>11. CASE kill
    BY <1>1, <1>11 DEF kill, Ending, Types
<1>12. CASE power_failure
    BY <1>12, PowerFailureTypes
<1>13. CASE open
    BY <1>13, OpenTypes
<1>14. CASE open_fails
    BY <1>1, <1>14 DEF open_fails, mfVars, Types
<1>15. CASE UNCHANGED vars
    BY <1>1, <1>15 DEF vars, mfVars, Types
<1> QED BY <1>2, <1>3, <1>4, <1>5, <1>6, <1>7, <1>8, <1>9, <1>10, <1>11, <1>12, <1>13, <1>14, <1>15
        DEF Next
-----------------------------------------------------------------------------
(***************************************************************************)
(* What recovery finds in the WAL.                                         *)
(***************************************************************************)
LEMMA FlawsStay ==
    ASSUME [Next]_vars
    PROVE  flaws \subseteq flaws'
<1>1. ASSUME NEW c, NEW at, NEW k, Writing(c, at, k) PROVE flaws \subseteq flaws'
    BY <1>1, WritingIs
<1>2. ASSUME NEW len, put(len) \/ put_killed(len) PROVE flaws \subseteq flaws'
    BY <1>2 DEF put, put_killed, Appending
<1>3. ASSUME NEW len, NEW k, put_fails(len, k) PROVE flaws \subseteq flaws'
    BY <1>3 DEF put_fails, Appending
<1>4. CASE flush \/ open_fails \/ UNCHANGED vars
    BY <1>4 DEF flush, open_fails, vars
<1>5. CASE close \/ kill \/ power_failure
    BY <1>5 DEF close, kill, power_failure, Ending
<1>6. CASE open
    BY <1>6 DEF open
<1>7. ASSUME NEW c, store_call(c) \/ compact_once(c) PROVE flaws \subseteq flaws'
    BY <1>1, <1>7 DEF store_call, compact_once
<1>8. ASSUME NEW c, NEW k, store_call_cut(c, k) \/ compact_once_fails(c, k) PROVE flaws \subseteq flaws'
    BY <1>1, <1>8 DEF store_call_cut, compact_once_fails
<1> QED BY <1>2, <1>3, <1>4, <1>5, <1>6, <1>7, <1>8 DEF Next

LEMMA WalStep ==
    ASSUME Types, WalSound => WalInv, [Next]_vars, WalSound'
    PROVE  WalInv'
<1>0. WalInv /\ frames \in Nat
    BY FlawsStay DEF WalSound, Types
<1>1. ASSUME NEW len \in 1..MaxLen, put(len) PROVE WalInv'
    BY <1>0, <1>1, PutWal
<1>2. ASSUME NEW len \in 1..MaxLen, NEW k \in 0..(len + 1), put_fails(len, k) PROVE WalInv'
    BY <1>0, <1>2, PutFailsWal
<1>3. ASSUME NEW len \in 1..MaxLen, put_killed(len) PROVE WalInv'
    BY <1>0, <1>3, PutKilledWal
<1>4. CASE flush
    BY <1>0, <1>4, FsyncWal DEF flush
<1>5. ASSUME NEW c, store_call(c) PROVE WalInv'
    BY <1>0, <1>5, WritingIs, WalIdle DEF store_call
<1>6. ASSUME NEW c, NEW k, store_call_cut(c, k) PROVE WalInv'
    BY <1>0, <1>6, WritingIs, WalIdle DEF store_call_cut, ErrorOrKill
<1>7. ASSUME NEW c, compact_once(c) PROVE WalInv'
    BY <1>0, <1>7, WritingIs, WalIdle DEF compact_once
<1>8. ASSUME NEW c, NEW k, compact_once_fails(c, k) PROVE WalInv'
    BY <1>0, <1>8, WritingIs, WalIdle DEF compact_once_fails, ErrorOrKill
<1>9. CASE close
    BY <1>0, <1>9, FsyncWal DEF close, Ending
<1>10. CASE kill
    BY <1>0, <1>10, WalIdle DEF kill, Ending, walVars
<1>11. CASE power_failure
    BY <1>0, <1>11, PowerFailureWal
<1>12. CASE open
    BY <1>0, <1>12, OpenWal
<1>13. CASE open_fails
    BY <1>0, <1>13, WalIdle DEF open_fails
<1>14. CASE UNCHANGED vars
    BY <1>0, <1>14, WalIdle DEF vars
<1> QED BY <1>1, <1>2, <1>3, <1>4, <1>5, <1>6, <1>7, <1>8, <1>9, <1>10, <1>11, <1>12, <1>13, <1>14
        DEF Next

\* As long as no append went behind a torn frame and no Engine::open started a new
\* file behind an unsynced one, the WAL files hold a prefix of the applied records,
\* all of them while the engine is up, and an fsync's records in their synced part.
THEOREM WalInductive == Spec => [](Types /\ (WalSound => WalInv))
<1>1. Init => Types /\ (WalSound => WalInv)
    BY InitTypes, InitWalInv
<1>2. Types /\ (WalSound => WalInv) /\ [Next]_vars => (Types /\ (WalSound => WalInv))'
    BY TypesStep, WalStep
<1> QED BY <1>1, <1>2, PTL DEF Spec

\* Engine::flush and commit_transaction: every record that an fsync covered is found
\* again by recover_from_wal after a power failure, wherever it cuts the last file.
THEOREM SyncedRecordsSurvive == Spec => []AckedSurvive
<1>1. Types /\ (WalSound => WalInv) => AckedSurvive
    BY RecoverableFacts DEF AckedSurvive
<1> QED BY <1>1, WalInductive, PTL

\* recover_from_wal finds a prefix of the records the engine had applied: it never
\* has a record without those before it, across rotations, failed writes and restarts.
THEOREM RecoveryIsPrefix == Spec => []ReplayIsPrefix
<1>1. Types /\ (WalSound => WalInv) => ReplayIsPrefix
    BY RecoverableFacts DEF ReplayIsPrefix
<1> QED BY <1>1, WalInductive, PTL
-----------------------------------------------------------------------------
(***************************************************************************)
(* The manifest file after a part of a call.                               *)
(***************************************************************************)
\* j cells of the entries es behind whole frames are the first j \div 3 entries.
LEMMA AppendEntries ==
    ASSUME NEW d, NEW rs, Exactly(d, rs), NEW es \in Seq(Record), NEW a, CellsOf(es, a),
           NEW j \in 0..(3 * Len(es)), NEW q \in 0..Len(es), 3 * q <= j, j < 3 * q + 3
    PROVE  Holds(d \o SubSeq(a, 1, j), rs \o SubSeq(es, 1, q))
<1> DEFINE u == SubSeq(a, 1, j)
           e == d \o u
           v == SubSeq(es, 1, q)
           ss == rs \o v
           n == Len(rs)
           D == Len(d)
<1>1. d \in Seq(Cell) /\ rs \in Seq(Record) /\ D >= 2 /\ n \in Nat /\ D \in Nat /\ Len(es) \in Nat
    BY DEF Exactly
<1>2. PICK b : Layout(d, b, rs) /\ b[n] = D + 1
    BY DEF Exactly
<1>3. b[n] = D + 1 /\ j \in Nat /\ q \in Nat
    BY <1>1, <1>2
<1>4. u \in Seq(Cell) /\ Len(u) = j
      /\ \A i \in 1..Len(es) : \A p \in 1..3 :
            3 * (i - 1) + p <= j => u[3 * (i - 1) + p] = [rec |-> es[i], pos |-> p, len |-> 1]
    <2>1. a \in Seq(Cell) /\ Len(a) = 3 * Len(es)
          /\ \A i \in 1..Len(es) : \A p \in 1..3 :
                a[3 * (i - 1) + p] = [rec |-> es[i], pos |-> p, len |-> 1]
        BY DEF CellsOf
    <2>2. j \in 0..Len(a)
        BY <2>1
    <2>3. u \in Seq(Cell) /\ Len(u) = j /\ \A i \in 1..j : u[i] = a[i]
        BY <2>1, <2>2, CutFacts
    <2> HIDE DEF u
    <2>4. ASSUME NEW i \in 1..Len(es), NEW p \in 1..3, 3 * (i - 1) + p <= j
          PROVE  u[3 * (i - 1) + p] = [rec |-> es[i], pos |-> p, len |-> 1]
        <3>1. 3 * (i - 1) + p \in 1..j
            BY <1>1, <1>3, <2>4
        <3> QED BY <2>1, <2>3, <3>1
    <2> QED BY <2>3, <2>4
<1> HIDE DEF u
<1>5. /\ e \in Seq(Cell) /\ Len(e) = D + j
      /\ \A i \in 1..D : e[i] = d[i]
      /\ \A i \in 1..j : e[D + i] = u[i]
    <2>1. Joined(Cell, d, u, e)
        BY <1>1, <1>4, JoinFacts
    <2> HIDE DEF e
    <2> QED BY <1>4, <2>1 DEF Joined
<1>6. /\ ss \in Seq(Record) /\ Len(ss) = n + q
      /\ (\A i \in 1..n : ss[i] = rs[i]) /\ \A i \in 1..q : ss[n + i] = es[i]
    <2>1. v \in Seq(Record) /\ Len(v) = q /\ \A i \in 1..q : v[i] = es[i]
        BY <1>1, CutFacts
    <2> HIDE DEF v
    <2>2. Joined(Record, rs, v, ss)
        BY <1>1, <2>1, JoinFacts
    <2> HIDE DEF ss
    <2> QED BY <2>1, <2>2 DEF Joined
<1> HIDE DEF e, ss
<1> DEFINE c == [i \in 0..(n + q) |-> IF i <= n THEN b[i] ELSE D + 1 + 3 * (i - n)]
<1>7. b \in [0..n -> 3..(D + 1)] /\ b[0] = 3
    BY <1>2 DEF Layout
<1>8. c \in [0..(n + q) -> 3..(Len(e) + 1)] /\ c[0] = 3
    <2>1. ASSUME NEW i \in 0..(n + q)
          PROVE  (IF i <= n THEN b[i] ELSE D + 1 + 3 * (i - n)) \in 3..(Len(e) + 1)
        <3>1. CASE i <= n
            <4>1. b[i] \in 3..(D + 1)
                BY <1>1, <1>7, <3>1, SMTT(30)
            <4>2. 3..(D + 1) \in SUBSET (3..(Len(e) + 1))
                <5>1. \A x, y \in Nat : 3..(x + 1) \in SUBSET (3..(x + y + 1))
                    OBVIOUS
                <5>2. D \in Nat /\ j \in Nat
                    BY <1>1
                <5> QED BY <1>5, <5>1, <5>2, Zenon
            <4> QED BY <3>1, <4>1, <4>2
        <3>2. CASE ~(i <= n)
            <4> PICK x : x = i - n
                OBVIOUS
            <4>1. x \in 1..q
                BY <1>1, <1>3, <3>2
            <4>2. x \in Nat /\ x >= 1 /\ x <= q
                BY <1>1, <1>3, <4>1
            <4>3. 3 * x <= j
                BY <1>1, <1>3, <4>2
            <4>4. D + 1 + 3 * x \in 3..(D + j + 1)
                BY <1>1, <1>3, <4>2, <4>3, SMTT(30)
            <4> QED BY <1>5, <3>2, <4>4
        <3> QED BY <3>1, <3>2
    <2>2. 0 \in 0..(n + q) /\ 0 <= n
        BY <1>1, <1>3
    <2> QED BY <1>7, <2>1, <2>2
<1>9. /\ \A i \in 0..n : c[i] = b[i]
      /\ \A i \in 0..q : c[n + i] = D + 1 + 3 * i
    <2>1. ASSUME NEW i \in 0..n PROVE c[i] = b[i]
        BY <1>1, <1>3
    <2>2. ASSUME NEW i \in 0..q PROVE c[n + i] = D + 1 + 3 * i
        <3>1. CASE i = 0
            BY <1>1, <1>3, <3>1
        <3>2. CASE i # 0
            <4>1. n + i \in 0..(n + q) /\ ~(n + i <= n) /\ n + i - n = i
                BY <1>1, <1>3, <3>2
            <4> QED BY <4>1
        <3> QED BY <3>1, <3>2
    <2> QED BY <2>1, <2>2
<1> HIDE DEF c
<1>10. ASSUME NEW i \in 1..(n + q)
       PROVE  c[i - 1] + 2 <= c[i] /\ FrameAt(e, c[i - 1], ss[i], c[i] - c[i - 1] - 2)
    <2>1. CASE i \in 1..n
        <3>1. i - 1 \in 0..n /\ i \in 0..n
            BY <1>1, <2>1
        <3>2. c[i - 1] = b[i - 1] /\ c[i] = b[i] /\ ss[i] = rs[i]
            BY <1>6, <1>9, <2>1, <3>1
        <3>3. b[i] <= D + 1 /\ D <= Len(e)
            BY <1>1, <1>3, <1>5, <1>7, <3>1, SMTT(30)
        <3>4. b[i - 1] + 2 <= b[i] /\ FrameAt(e, b[i - 1], rs[i], b[i] - b[i - 1] - 2)
            BY <1>1, <1>2, <1>5, <2>1, <3>3, LayoutKept
        <3> QED BY <3>2, <3>4
    <2>2. CASE i \notin 1..n
        <3> DEFINE k == i - n
        <3>1. k \in 1..q /\ k - 1 \in 0..q /\ k \in 0..q /\ i = n + k /\ i - 1 = n + (k - 1)
            BY <1>1, <1>3, <2>2
        <3> HIDE DEF k
        <3>2. c[i] = D + 1 + 3 * k /\ c[i - 1] = D + 1 + 3 * (k - 1) /\ ss[i] = es[k]
            BY <1>6, <1>9, <3>1
        <3>3. c[i] - c[i - 1] - 2 = 1 /\ c[i - 1] + 2 <= c[i]
            <4>1. k \in Nat /\ D \in Nat
                BY <1>1, <3>1
            <4> HIDE DEF D
            <4>2. (D + 1 + 3 * k) - (D + 1 + 3 * (k - 1)) - 2 = 1 /\ D + 1 + 3 * (k - 1) + 2 <= D + 1 + 3 * k
                BY <4>1
            <4> QED BY <3>2, <4>2
        <3>4. FrameAt(e, D + 1 + 3 * (k - 1), es[k], 1)
            <4>1. D + 1 + 3 * (k - 1) + 1 + 1 <= Len(e)
                <5>1. k \in Nat /\ D \in Nat /\ k <= q /\ Len(e) = D + j /\ 3 * q <= j
                    BY <1>1, <1>3, <1>5, <3>1
                <5> HIDE DEF D
                <5> QED BY <1>3, <5>1
            <4>2. ASSUME NEW p \in 1..3
                  PROVE  e[D + 1 + 3 * (k - 1) + p - 1] = [rec |-> es[k], pos |-> p, len |-> 1]
                <5>1. D + 1 + 3 * (k - 1) + p - 1 = D + (3 * (k - 1) + p)
                    BY <1>1, <3>1
                <5>2. 3 * (k - 1) + p \in 1..j /\ 3 * (k - 1) + p <= j /\ k \in 1..Len(es)
                    BY <1>1, <1>3, <3>1
                <5>3. e[D + (3 * (k - 1) + p)] = u[3 * (k - 1) + p]
                    BY <1>5, <5>2
                <5>4. u[3 * (k - 1) + p] = [rec |-> es[k], pos |-> p, len |-> 1]
                    BY <1>4, <5>2
                <5> QED BY <5>1, <5>3, <5>4
            <4>3. 1 + 2 = 3
                OBVIOUS
            <4> QED BY <4>1, <4>2, <4>3 DEF FrameAt
        <3> QED BY <3>2, <3>3, <3>4
    <2> QED BY <2>1, <2>2
<1>11. Torn(e, c[n + q])
    <2>1. c[n + q] = D + 1 + 3 * q
        BY <1>3, <1>9
    <2> SUFFICES ASSUME D + 1 + 3 * q + 1 <= Len(e)
                 PROVE  /\ e[D + 1 + 3 * q + 1].pos = 2
                        /\ D + 1 + 3 * q + 1 + e[D + 1 + 3 * q + 1].len > Len(e)
        BY <2>1 DEF Torn
    <2>2. j = 3 * q + 2 /\ q + 1 \in 1..Len(es)
        BY <1>1, <1>3, <1>5
    <2>3. D + 1 + 3 * q + 1 = D + j /\ j \in 1..j /\ 3 * ((q + 1) - 1) + 2 = j
        BY <1>1, <1>3, <2>2
    <2>4. u[j] = [rec |-> es[q + 1], pos |-> 2, len |-> 1]
        <3>1. 3 * ((q + 1) - 1) + 2 <= j /\ 2 \in 1..3
            BY <1>3, <2>3
        <3>2. u[3 * ((q + 1) - 1) + 2] = [rec |-> es[q + 1], pos |-> 2, len |-> 1]
            BY <1>4, <2>2, <3>1
        <3> QED BY <2>3, <3>2
    <2>5. e[D + j] = [rec |-> es[q + 1], pos |-> 2, len |-> 1]
        BY <1>5, <2>3, <2>4
    <2> QED BY <1>1, <1>3, <1>5, <2>3, <2>5, SMTT(30)
<1>12. Layout(e, c, ss)
    <2>1. Len(ss) = n + q
        BY <1>6
    <2> QED BY <1>8, <1>10, <1>11, <2>1 DEF Layout
<1>13. Len(e) >= 2
    BY <1>1, <1>3, <1>5, SMTT(30)
<1>14. Holds(e, ss)
    BY <1>5, <1>6, <1>12, <1>13 DEF Holds
<1> QED BY <1>14 DEF e, ss, u

\* Cutting behind the first of two sequences.
LEMMA CutOfJoin ==
    ASSUME NEW S, NEW d \in Seq(S), NEW u \in Seq(S), NEW j \in 0..Len(u)
    PROVE  SubSeq(d \o u, 1, Len(d) + j) = d \o SubSeq(u, 1, j)
<1> DEFINE e == d \o u
           v == SubSeq(u, 1, j)
           x == SubSeq(e, 1, Len(d) + j)
           y == d \o v
           D == Len(d)
<1>0. D \in Nat /\ Len(u) \in Nat
    OBVIOUS
<1>1. Joined(S, d, u, e)
    BY JoinFacts
<1>2. v \in Seq(S) /\ Len(v) = j /\ \A i \in 1..j : v[i] = u[i]
    BY CutFacts
<1> HIDE DEF e, v
<1>3. Joined(S, d, v, y)
    BY <1>2, JoinFacts
<1>4. /\ e \in Seq(S) /\ Len(e) = D + Len(u)
      /\ (\A i \in 1..D : e[i] = d[i]) /\ \A i \in 1..Len(u) : e[D + i] = u[i]
    BY <1>1 DEF Joined
<1>5. Len(d) + j \in 0..Len(e)
    BY <1>0, <1>4
<1>6. x \in Seq(S) /\ Len(x) = D + j /\ \A i \in 1..(D + j) : x[i] = e[i]
    BY <1>4, <1>5, CutFacts
<1> HIDE DEF x, y
<1>7. /\ y \in Seq(S) /\ Len(y) = D + j
      /\ (\A i \in 1..D : y[i] = d[i]) /\ \A i \in 1..j : y[D + i] = v[i]
    BY <1>2, <1>3 DEF Joined
<1>8. ASSUME NEW i \in 1..Len(x) PROVE x[i] = y[i]
    <2>0. i \in 1..(D + j)
        BY <1>6
    <2>1. CASE i \in 1..D
        BY <1>4, <1>6, <1>7, <2>0, <2>1
    <2>2. CASE i \notin 1..D
        <3>1. i - D \in 1..j /\ i - D \in 1..Len(u) /\ i = D + (i - D)
            BY <1>0, <2>0, <2>2
        <3>2. x[i] = u[i - D]
            BY <1>4, <1>6, <2>0, <3>1
        <3>3. y[i] = v[i - D]
            BY <1>7, <3>1
        <3> QED BY <1>2, <3>1, <3>2, <3>3
    <2> QED BY <2>1, <2>2
<1>9. x = y
    <2>1. Len(x) = Len(y)
        BY <1>6, <1>7
    <2> QED BY <1>6, <1>7, <1>8, <2>1, SeqEqual
<1> QED BY <1>9 DEF x, y, e, v

LEMMA CutBefore ==
    ASSUME NEW S, NEW d \in Seq(S), NEW u \in Seq(S), NEW m \in 0..Len(d)
    PROVE  SubSeq(d \o u, 1, m) = SubSeq(d, 1, m)
<1>1. 0 \in 0..Len(u) /\ Len(d) \in Nat /\ Len(u) \in Nat
    OBVIOUS
<1> DEFINE e == d \o u
<1>2. SubSeq(e, 1, Len(d) + 0) = d \o SubSeq(u, 1, 0)
    BY <1>1, CutOfJoin
<1>3. SubSeq(u, 1, 0) = <<>>
    BY SubSeqEmpty
<1>4. d \o <<>> = d
    BY JoinEmpty
<1>5. SubSeq(e, 1, Len(d)) = d
    BY <1>1, <1>2, <1>3, <1>4
<1>7. Joined(S, d, u, e)
    BY JoinFacts
<1> HIDE DEF e
<1>8. e \in Seq(S) /\ Len(d) \in 0..Len(e)
    BY <1>1, <1>7 DEF Joined
<1>9. SubSeq(SubSeq(e, 1, Len(d)), 1, m) = SubSeq(e, 1, m)
    BY <1>8, CutCut
<1> QED BY <1>5, <1>9 DEF e
-----------------------------------------------------------------------------
(***************************************************************************)
(* What a part of a call does to the list of segments.                     *)
(***************************************************************************)
\* The ids and data of a list when F frames have been written.
Ids(L, F) ==
    /\ \A x \in L : x \in Record /\ x.n <= F /\ x.from \in SUBSET (0..F)
    /\ \A x, y \in L : x.n = y.n => x = y

\* L carries the data K and none of D.
Fine(L, K, D, F) == Ids(L, F) /\ K \subseteq Carried(L) /\ D \cap Carried(L) = {}

\* The entries u add a or remove some of gs.
EntriesOf(u, gs, a) ==
    /\ u \in Seq(Record)
    /\ \A i \in 1..Len(u) : IF u[i].op = "Add" THEN u[i] = a ELSE \E g \in gs : u[i].n = g.n

Adds(u, a) == \E i \in 1..Len(u) : u[i] = a /\ u[i].op = "Add"
AddsNone(u) == \A i \in 1..Len(u) : u[i].op # "Add"
RemovesAll(u, gs) == \A g \in gs : \E i \in 1..Len(u) : u[i].op # "Add" /\ u[i].n = g.n

\* What they leave of L.
Bounds(L, gs, a, u) ==
    /\ L \ gs \in SUBSET Net(L, u) /\ Net(L, u) \in SUBSET (L \cup {a})
    /\ Adds(u, a) => a \in Net(L, u)
    /\ AddsNone(u) => Net(L, u) \in SUBSET L
    /\ RemovesAll(u, gs) => Net(L, u) \cap gs = {}

LEMMA NetBounds ==
    ASSUME NEW L, NEW F \in Nat, Ids(L, F), NEW gs \in SUBSET L, NEW a, a.n = F + 1,
           NEW u, EntriesOf(u, gs, a)
    PROVE  Bounds(L, gs, a, u)
<1> DEFINE n == Len(u)
           Kept(x) == \A i \in 1..n : u[i].op = "Add" \/ u[i].n # x.n
<1>1. u \in Seq(Record) /\ n \in Nat
      /\ \A i \in 1..n : IF u[i].op = "Add" THEN u[i] = a ELSE \E g \in gs : u[i].n = g.n
    BY DEF EntriesOf
<1>2. \A x \in L : x.n \in Nat /\ x.n <= F /\ x.n # a.n
    BY DEF Ids, Record
<1>3. \A x : x \in Net(L, u) <=> (x \in L /\ Kept(x)) \/ \E i \in 1..n : x = u[i] /\ Listed(u, i, n)
    BY DEF Net, Left
<1>4. \A i \in 1..n : Listed(u, i, n) => u[i] = a /\ u[i].op = "Add"
    BY <1>1 DEF Listed
<1>5. ASSUME NEW x \in L \ gs PROVE x \in Net(L, u)
    <2>1. ASSUME NEW i \in 1..n, u[i].op # "Add" PROVE u[i].n # x.n
        <3>1. PICK g \in gs : u[i].n = g.n
            BY <1>1, <2>1
        <3> QED BY <3>1 DEF Ids
    <2>2. Kept(x)
        BY <2>1
    <2> HIDE DEF Kept
    <2> QED BY <1>3, <2>2
<1>6. ASSUME NEW i \in 1..n, u[i] = a, u[i].op = "Add" PROVE a \in Net(L, u)
    <2>1. ASSUME NEW l \in (i + 1)..n, u[l].op # "Add" PROVE u[l].n # u[i].n
        <3>1. l \in 1..n
            BY <1>1
        <3>2. PICK g \in gs : u[l].n = g.n
            BY <1>1, <2>1, <3>1
        <3> QED BY <1>2, <1>6, <3>2
    <2>2. Listed(u, i, n)
        BY <1>6, <2>1 DEF Listed
    <2> HIDE DEF Kept
    <2> QED BY <1>3, <1>6, <2>2
<1>7. ASSUME NEW x \in Net(L, u), x \notin L PROVE x = a /\ \E i \in 1..n : u[i].op = "Add"
    <2> HIDE DEF Kept
    <2> QED BY <1>3, <1>4, <1>7
<1>8. ASSUME NEW g \in gs, NEW i \in 1..n, u[i].op # "Add", u[i].n = g.n PROVE g \notin Net(L, u)
    <2>1. ~Kept(g)
        BY <1>8
    <2>2. g # a
        BY <1>2
    <2> HIDE DEF Kept
    <2> QED BY <1>3, <1>4, <2>1, <2>2
<1>9. L \ gs \in SUBSET Net(L, u) /\ Net(L, u) \in SUBSET (L \cup {a})
    BY <1>5, <1>7
<1>10. Adds(u, a) => a \in Net(L, u)
    BY <1>6 DEF Adds
<1>11. AddsNone(u) => Net(L, u) \in SUBSET L
    BY <1>7 DEF AddsNone
<1>12. RemovesAll(u, gs) => Net(L, u) \cap gs = {}
    BY <1>8 DEF RemovesAll
<1> QED BY <1>9, <1>10, <1>11, <1>12 DEF Bounds

LEMMA IdsFewer ==
    ASSUME NEW L, NEW F \in Nat, Ids(L, F), NEW N \in SUBSET L, NEW E \in Nat, E >= F
    PROVE  Ids(N, E)
<1>1. ASSUME NEW x \in N PROVE x \in Record /\ x.n <= E /\ x.from \in SUBSET (0..E)
    <2>1. x \in Record /\ x.n <= F /\ x.from \in SUBSET (0..F)
        BY DEF Ids
    <2>2. x.n \in Nat
        BY <2>1 DEF Record
    <2>3. 0..F \in SUBSET (0..E)
        OBVIOUS
    <2> QED BY <2>1, <2>2, <2>3
<1> QED BY <1>1 DEF Ids

LEMMA IdsMore ==
    ASSUME NEW L, NEW F \in Nat, Ids(L, F), NEW a \in Record, a.n = F + 1,
           NEW E \in Nat, E >= F + 1, a.from \in SUBSET (0..E), NEW N \in SUBSET (L \cup {a})
    PROVE  Ids(N, E)
<1>1. Ids(L, E)
    BY IdsFewer
<1>2. \A x \in L : x.n # a.n
    <2> TAKE x \in L
    <2>1. x.n \in Nat /\ x.n <= F
        BY DEF Ids, Record
    <2> QED BY <2>1
<1>3. ASSUME NEW x \in N PROVE x \in Record /\ x.n <= E /\ x.from \in SUBSET (0..E)
    <2>1. CASE x \in L
        BY <1>1, <2>1 DEF Ids
    <2>2. CASE x = a
        BY <2>2
    <2> QED BY <2>1, <2>2
<1>4. ASSUME NEW x \in N, NEW y \in N, x.n = y.n PROVE x = y
    BY <1>2, <1>4 DEF Ids
<1> QED BY <1>3, <1>4 DEF Ids

\* What was true before a call is true of what it leaves alone.
LEMMA FineLater ==
    ASSUME NEW L, NEW K, NEW D, NEW F \in Nat, Fine(L, K, D, F), NEW J \in SUBSET K,
           NEW E \in Nat, E >= F
    PROVE  Fine(L, J, D, E)
<1>1. Ids(L, E)
    BY IdsFewer DEF Fine
<1> QED BY <1>1 DEF Fine

LEMMA CarriedGrows ==
    ASSUME NEW L, NEW N, L \in SUBSET N
    PROVE  Carried(L) \in SUBSET Carried(N)
BY DEF Carried

LEMMA CarriedSplit ==
    ASSUME NEW L, NEW gs \in SUBSET L
    PROVE  Carried(L) = Carried(gs) \cup Carried(L \ gs)
BY DEF Carried

LEMMA CarriedPlus ==
    ASSUME NEW L, NEW a
    PROVE  Carried(L \cup {a}) = Carried(L) \cup a.from
BY DEF Carried

LEMMA CarriedOne ==
    ASSUME NEW N, NEW a \in N
    PROVE  a.from \in SUBSET Carried(N)
BY DEF Carried

\* finalize_segment.
LEMMA FinalizeFine ==
    ASSUME NEW L, NEW K, NEW D, NEW F \in Nat, Fine(L, K, D, F), D \in SUBSET (0..F),
           NEW a \in Record, a.n = F + 1, a.from = {F + 1}, NEW u, EntriesOf(u, {}, a),
           NEW E \in Nat, E >= F + 1
    PROVE  /\ Fine(Net(L, u), K, D, E)
           /\ Adds(u, a) => Fine(Net(L, u), K \cup a.from, D, E)
<1> DEFINE N == Net(L, u)
<1>0. Ids(L, F) /\ K \subseteq Carried(L) /\ D \cap Carried(L) = {} /\ {} \in SUBSET L /\ L \ {} = L
    BY DEF Fine
<1>1. /\ L \ {} \in SUBSET N /\ N \in SUBSET (L \cup {a})
      /\ Adds(u, a) => a \in N
    <2>1. Bounds(L, {}, a, u)
        BY <1>0, NetBounds
    <2> QED BY <2>1 DEF Bounds
<1> HIDE DEF N
<1>2. L \in SUBSET N
    BY <1>0, <1>1
<1>3. a.from \in SUBSET (0..E) /\ D \cap a.from = {}
    OBVIOUS
<1>4. Ids(N, E)
    BY <1>0, <1>1, <1>3, IdsMore
<1>5. Carried(L) \in SUBSET Carried(N) /\ Carried(N) \in SUBSET (Carried(L) \cup a.from)
    <2>1. Carried(N) \in SUBSET Carried(L \cup {a}) /\ Carried(L) \in SUBSET Carried(N)
        BY <1>1, <1>2, CarriedGrows
    <2>2. Carried(L \cup {a}) = Carried(L) \cup a.from
        BY CarriedPlus
    <2> QED BY <2>1, <2>2
<1>6. Fine(N, K, D, E)
    BY <1>0, <1>3, <1>4, <1>5 DEF Fine
<1>7. ASSUME Adds(u, a) PROVE Fine(N, K \cup a.from, D, E)
    <2>1. a.from \in SUBSET Carried(N)
        BY <1>1, <1>7, CarriedOne
    <2> QED BY <1>6, <2>1 DEF Fine
<1> QED BY <1>6, <1>7 DEF N

\* remove_segment and collect_expired_cohort.
LEMMA RemovalFine ==
    ASSUME NEW L, NEW K, NEW D, NEW F \in Nat, Fine(L, K, D, F), NEW gs \in SUBSET L,
           NEW a, a.n = F + 1, NEW u, EntriesOf(u, gs, a), AddsNone(u),
           NEW E \in Nat, E >= F, NEW gone, gone = Carried(gs) \ Carried(L \ gs)
    PROVE  /\ Fine(Net(L, u), K \ gone, D, E)
           /\ RemovesAll(u, gs)
                => Fine(Net(L, u), K \ gone, D \cup gone, E)
<1> DEFINE N == Net(L, u)
<1>0. Ids(L, F) /\ K \subseteq Carried(L) /\ D \cap Carried(L) = {}
    BY DEF Fine
<1>1. /\ L \ gs \in SUBSET N /\ N \in SUBSET L
      /\ RemovesAll(u, gs) => N \cap gs = {}
    BY <1>0, NetBounds DEF Bounds
<1> HIDE DEF N
<1>2. Ids(N, E)
    BY <1>0, <1>1, IdsFewer
<1>3. Carried(L \ gs) \in SUBSET Carried(N) /\ Carried(N) \in SUBSET Carried(L)
    BY <1>1, CarriedGrows
<1>4. Carried(L) = Carried(gs) \cup Carried(L \ gs)
    BY CarriedSplit
<1>5. K \ gone \subseteq Carried(N) /\ D \cap Carried(N) = {}
    BY <1>0, <1>3, <1>4
<1>6. ASSUME RemovesAll(u, gs)
      PROVE  (D \cup gone) \cap Carried(N) = {}
    <2>1. N \cap gs = {}
        BY <1>1, <1>6
    <2>2. N \in SUBSET (L \ gs)
        BY <1>1, <2>1
    <2>3. Carried(N) \in SUBSET Carried(L \ gs)
        BY <2>2, CarriedGrows
    <2> QED BY <1>5, <2>3
<1> QED BY <1>2, <1>5, <1>6 DEF Fine, N

\* replace_segment and compact_partial_cohort: the new segment carries what goes.
LEMMA MergeFine ==
    ASSUME NEW L, NEW K, NEW D, NEW F \in Nat, Fine(L, K, D, F), NEW gs \in SUBSET L,
           NEW a \in Record, a.n = F + 1, a.from = Carried(gs), NEW u, EntriesOf(u, gs, a),
           u = <<>> \/ Adds(u, a), NEW E \in Nat, E >= F + 1
    PROVE  Fine(Net(L, u), K \cup a.from, D, E)
<1> DEFINE N == Net(L, u)
<1>0. Ids(L, F) /\ K \subseteq Carried(L) /\ D \cap Carried(L) = {} /\ {} \in SUBSET L
    BY DEF Fine
<1>1. Carried(L) = Carried(gs) \cup Carried(L \ gs)
    BY CarriedSplit
<1>2. a.from \in SUBSET (0..E)
    <2>1. \A g \in gs : g.from \in SUBSET (0..F)
        BY <1>0 DEF Ids
    <2>2. Carried(gs) \in SUBSET (0..F)
        BY <2>1 DEF Carried
    <2>3. 0..F \in SUBSET (0..E)
        OBVIOUS
    <2> QED BY <2>2, <2>3
<1>3. N \in SUBSET (L \cup {a}) /\ L \ gs \in SUBSET N /\ (Adds(u, a) => a \in N)
    <2>1. Bounds(L, gs, a, u)
        BY <1>0, NetBounds
    <2> QED BY <2>1 DEF Bounds
<1>4. Ids(N, E)
    <2> HIDE DEF N
    <2> QED BY <1>0, <1>2, <1>3, IdsMore
<1>5. Carried(N) \in SUBSET Carried(L)
    <2>1. Carried(N) \in SUBSET Carried(L \cup {a})
        BY <1>3, CarriedGrows
    <2>2. Carried(L \cup {a}) = Carried(L) \cup a.from
        BY CarriedPlus
    <2> QED BY <1>1, <2>1, <2>2
<1>6. Carried(L) \in SUBSET Carried(N)
    <2>1. CASE u = <<>>
        <3>1. EntriesOf(u, {}, a)
            BY <2>1 DEF EntriesOf
        <3>2. Bounds(L, {}, a, u)
            BY <1>0, <3>1, NetBounds
        <3>3. L \in SUBSET N
            BY <3>2 DEF Bounds
        <3> QED BY <3>3, CarriedGrows
    <2>2. CASE Adds(u, a)
        <3> HIDE DEF N
        <3>1. a.from \in SUBSET Carried(N) /\ Carried(L \ gs) \in SUBSET Carried(N)
            BY <1>3, <2>2, CarriedGrows, CarriedOne
        <3> QED BY <1>1, <3>1
    <2> QED BY <2>1, <2>2
<1> HIDE DEF N
<1>7. Fine(N, K \cup a.from, D, E)
    BY <1>0, <1>1, <1>4, <1>5, <1>6 DEF Fine
<1> QED BY <1>7 DEF N

\* The three kinds of calls: new data, segments that go, and segments that are
\* replaced by one that carries their data.
Shape(es, gs, a) ==
    EntriesOf(es, gs, a) /\ \A i \in 1..Len(es) : es[i].op # "Add" => es[i].from = {}

Flushes(c, a, F) ==
    /\ Shape(c.es, {}, a) /\ Adds(c.es, a) /\ Len(c.es) >= 1
    /\ a \in Record /\ a.n = F + 1 /\ a.from = {F + 1} /\ c.gone = {}

Drops(c, L, gs, a, F) ==
    /\ Shape(c.es, gs, a) /\ AddsNone(c.es) /\ RemovesAll(c.es, gs)
    /\ gs \in SUBSET L /\ a.n = F + 1 /\ c.gone = Carried(gs) \ Carried(L \ gs)

Rewrites(c, L, gs, a, F) ==
    /\ Shape(c.es, gs, a) /\ Adds(c.es, a) /\ Len(c.es) >= 1
    /\ a.op = "Add" /\ (c.es[1] = a \/ c.risk # {})
    /\ gs \in SUBSET L /\ a \in Record /\ a.n = F + 1 /\ a.from = Carried(gs) /\ c.gone = {}

LEMMA NewEntryFacts ==
    ASSUME frames \in Nat, NEW from \in SUBSET Nat
    PROVE  /\ NewEntry(from) \in Record /\ NewEntry(from).op = "Add"
           /\ NewEntry(from).n = frames + 1 /\ NewEntry(from).from = from
BY DEF NewEntry, Record

LEMMA FinalizeKind ==
    ASSUME frames \in Nat, NEW c, IsFinalize(c)
    PROVE  \E a : Flushes(c, a, frames)
<1> DEFINE from == {frames + 1}
           a == NewEntry(from)
<1>1. from \in SUBSET Nat
    OBVIOUS
<1>2. a \in Record /\ a.op = "Add" /\ a.n = frames + 1 /\ a.from = from
    BY <1>1, NewEntryFacts
<1>3. c.es = <<a>> /\ c.gone = {}
    BY DEF IsFinalize
<1> HIDE DEF a
<1>4. c.es \in Seq(Record) /\ Len(c.es) = 1 /\ c.es[1] = a /\ \A i \in 1..1 : i = 1
    BY <1>2, <1>3
<1>5. Shape(c.es, {}, a) /\ Adds(c.es, a)
    BY <1>2, <1>4 DEF Shape, EntriesOf, Adds
<1>6. Flushes(c, a, frames)
    BY <1>2, <1>3, <1>4, <1>5 DEF Flushes
<1> QED BY <1>6

LEMMA RemovalKind ==
    ASSUME frames \in Nat, NEW c, NEW gs, NEW L, IsRemoval(c, gs, L)
    PROVE  \E a : Drops(c, L, gs, a, frames)
<1> DEFINE a == NewEntry({})
<1>1. a.n = frames + 1
    BY NewEntryFacts
<1> HIDE DEF a
<1> PICK es : es = c.es
    OBVIOUS
<1>2. Removes(es, gs) /\ gs \in SUBSET L /\ c.gone = Carried(gs) \ Carried(L \ gs)
    BY DEF IsRemoval
<1>3. Shape(es, gs, a) /\ AddsNone(es) /\ RemovesAll(es, gs)
    BY <1>2 DEF Removes, Shape, EntriesOf, AddsNone, RemovesAll
<1>4. Drops(c, L, gs, a, frames)
    BY <1>1, <1>2, <1>3 DEF Drops
<1> QED BY <1>4

\* An Add entry before or behind the removals.
LEMMA ShapeJoin ==
    ASSUME NEW t, NEW gs, Removes(t, gs), NEW a \in Record, a.op = "Add", NEW es,
           Joined(Record, t, <<a>>, es) \/ Joined(Record, <<a>>, t, es)
    PROVE  /\ Shape(es, gs, a) /\ Adds(es, a) /\ Len(es) >= 1
           /\ Joined(Record, <<a>>, t, es) => es[1] = a
<1> DEFINE b == <<a>>
<1>0. Len(b) = 1 /\ b[1] = a
    OBVIOUS
<1> HIDE DEF b
<1>1. t \in Seq(Record) /\ Len(t) \in Nat
      /\ (\A i \in 1..Len(t) : t[i].op = "Remove" /\ t[i].from = {} /\ \E g \in gs : t[i].n = g.n)
    BY DEF Removes
<1> DEFINE Ok(x) == x = a \/ (x.op = "Remove" /\ x.from = {} /\ \E g \in gs : x.n = g.n)
<1>5. ASSUME es \in Seq(Record), \A i \in 1..Len(es) : Ok(es[i]) PROVE Shape(es, gs, a)
    <2>1. ASSUME NEW i \in 1..Len(es)
          PROVE  /\ es[i].op = "Add" => es[i] = a
                 /\ es[i].op # "Add" => (\E g \in gs : es[i].n = g.n) /\ es[i].from = {}
        <3>1. Ok(es[i])
            BY <1>5
        <3> QED BY <3>1
    <2> HIDE DEF Ok
    <2> QED BY <1>5, <2>1 DEF Shape, EntriesOf
<1>2. ASSUME Joined(Record, t, b, es) PROVE Shape(es, gs, a) /\ Adds(es, a) /\ Len(es) >= 1
    <2>1. es \in Seq(Record) /\ Len(es) = Len(t) + 1 /\ (\A i \in 1..Len(t) : es[i] = t[i])
          /\ \A i \in 1..1 : es[Len(t) + i] = b[i]
        BY <1>0, <1>2 DEF Joined
    <2>2. es[Len(t) + 1] = a
        BY <1>0, <2>1
    <2>3. ASSUME NEW i \in 1..Len(es) PROVE Ok(es[i])
        <3>1. i = Len(t) + 1 \/ i \in 1..Len(t)
            BY <1>1, <2>1
        <3> QED BY <1>1, <2>1, <2>2, <3>1
    <2> HIDE DEF Ok
    <2>4. Len(t) + 1 \in 1..Len(es) /\ Len(es) >= 1
        BY <1>1, <2>1
    <2>5. Shape(es, gs, a)
        BY <1>5, <2>1, <2>3
    <2>6. Adds(es, a)
        BY <2>2, <2>4 DEF Adds
    <2> QED BY <2>4, <2>5, <2>6
<1>3. ASSUME Joined(Record, b, t, es) PROVE Shape(es, gs, a) /\ Adds(es, a) /\ Len(es) >= 1
    <2>1. es \in Seq(Record) /\ Len(es) = 1 + Len(t) /\ (\A i \in 1..1 : es[i] = b[i])
          /\ \A i \in 1..Len(t) : es[1 + i] = t[i]
        BY <1>0, <1>3 DEF Joined
    <2>2. es[1] = a
        BY <1>0, <2>1
    <2>3. ASSUME NEW i \in 1..Len(es) PROVE Ok(es[i])
        <3>1. CASE i = 1
            BY <2>2, <3>1
        <3>2. CASE i # 1
            <4>1. i - 1 \in 1..Len(t) /\ i = 1 + (i - 1)
                BY <1>1, <2>1, <3>2
            <4>2. es[i] = t[i - 1]
                BY <2>1, <4>1
            <4> QED BY <1>1, <4>1, <4>2
        <3> QED BY <3>1, <3>2
    <2> HIDE DEF Ok
    <2>4. 1 \in 1..Len(es) /\ Len(es) >= 1
        BY <1>1, <2>1
    <2>5. Shape(es, gs, a)
        BY <1>5, <2>1, <2>3
    <2>6. Adds(es, a)
        BY <2>2, <2>4 DEF Adds
    <2> QED BY <2>4, <2>5, <2>6
<1>4. ASSUME Joined(Record, b, t, es) PROVE es[1] = a
    <2>1. es[1] = b[1]
        BY <1>0, <1>4 DEF Joined
    <2> QED BY <1>0, <2>1
<1>6. Shape(es, gs, a) /\ Adds(es, a) /\ Len(es) >= 1
    BY <1>2, <1>3 DEF b
<1> QED BY <1>4, <1>6 DEF b

LEMMA ReplaceKind ==
    ASSUME frames \in Nat, NEW L \in SUBSET Record, NEW c, NEW g, NEW t, IsReplace(c, g, t, L)
    PROVE  \E a : Rewrites(c, L, {g}, a, frames)
<1> PICK a, es : a = NewEntry(g.from) /\ es = c.es
    OBVIOUS
<1>1. Removes(t, {g}) /\ g \in L /\ es = t \o <<a>> /\ c.gone = {} /\ c.risk # {}
    BY DEF IsReplace
<1>2. g.from \in SUBSET Nat /\ t \in Seq(Record)
    BY <1>1 DEF Removes, Record
<1>3. a \in Record /\ a.op = "Add" /\ a.n = frames + 1 /\ a.from = g.from
    BY <1>2, NewEntryFacts
<1>4. Joined(Record, t, <<a>>, es)
    <2> PICK b : b = <<a>>
        OBVIOUS
    <2>1. b \in Seq(Record)
        BY <1>3
    <2> QED BY <1>1, <1>2, <2>1, JoinFacts
<1>5. Shape(es, {g}, a) /\ Adds(es, a) /\ Len(es) >= 1
    BY <1>1, <1>3, <1>4, ShapeJoin
<1>6. Carried({g}) = g.from
    BY DEF Carried
<1>7. Rewrites(c, L, {g}, a, frames)
    BY <1>1, <1>3, <1>5, <1>6 DEF Rewrites
<1> QED BY <1>7

LEMMA MergeKind ==
    ASSUME frames \in Nat, NEW L \in SUBSET Record, NEW c, NEW gs, NEW t, IsMerge(c, gs, t, L)
    PROVE  \E a : Rewrites(c, L, gs, a, frames)
<1> PICK a, es : a = NewEntry(Carried(gs)) /\ es = c.es
    OBVIOUS
<1>1. Removes(t, gs) /\ gs \in SUBSET L /\ es = <<a>> \o t /\ c.gone = {}
    BY DEF IsMerge
<1>2. Carried(gs) \in SUBSET Nat /\ t \in Seq(Record)
    <2>1. \A g \in gs : g.from \in SUBSET Nat
        BY <1>1 DEF Record
    <2> QED BY <1>1, <2>1 DEF Removes, Carried
<1>3. a \in Record /\ a.op = "Add" /\ a.n = frames + 1 /\ a.from = Carried(gs)
    BY <1>2, NewEntryFacts
<1>4. Joined(Record, <<a>>, t, es)
    <2> PICK b : b = <<a>>
        OBVIOUS
    <2>1. b \in Seq(Record)
        BY <1>3
    <2> QED BY <1>1, <1>2, <2>1, JoinFacts
<1>5. Shape(es, gs, a) /\ Adds(es, a) /\ Len(es) >= 1 /\ es[1] = a
    BY <1>1, <1>3, <1>4, ShapeJoin
<1>6. Rewrites(c, L, gs, a, frames)
    BY <1>1, <1>3, <1>5 DEF Rewrites
<1> QED BY <1>6

LEMMA CallKinds ==
    ASSUME frames \in Nat, NEW L \in SUBSET Record, NEW c, ACall(c, L)
    PROVE  \/ \E a : Flushes(c, a, frames)
           \/ \E gs, a : Drops(c, L, gs, a, frames)
           \/ \E gs, a : Rewrites(c, L, gs, a, frames)
<1>1. CASE IsFinalize(c)
    BY <1>1, FinalizeKind
<1>2. ASSUME NEW gs, IsRemoval(c, gs, L) PROVE \E hs, a : Drops(c, L, hs, a, frames)
    BY <1>2, RemovalKind
<1>3. ASSUME NEW g, NEW t, IsReplace(c, g, t, L) PROVE \E hs, a : Rewrites(c, L, hs, a, frames)
    BY <1>3, ReplaceKind
<1>4. ASSUME NEW gs, NEW t, IsMerge(c, gs, t, L) PROVE \E hs, a : Rewrites(c, L, hs, a, frames)
    BY <1>4, MergeKind
<1> QED BY <1>1, <1>2, <1>3, <1>4 DEF ACall

\* The first entries of a call have its shape.
Cut(es, q, u) == q \in 0..Len(es) /\ u = SubSeq(es, 1, q)
PartOf(es, gs, a, q, u) ==
    /\ EntriesOf(u, gs, a) /\ (AddsNone(es) => AddsNone(u))
    /\ q >= 1 /\ es[1] = a /\ a.op = "Add" => Adds(u, a)
    /\ q = 0 => u = <<>>
    /\ q = Len(es) => u = es

LEMMA PartShape ==
    ASSUME NEW es, NEW gs, NEW a, Shape(es, gs, a), NEW q, NEW u, Cut(es, q, u)
    PROVE  PartOf(es, gs, a, q, u)
<1>0. q \in 0..Len(es) /\ u = SubSeq(es, 1, q)
    BY DEF Cut
<1>1. es \in Seq(Record) /\ Len(es) \in Nat
      /\ \A i \in 1..Len(es) : IF es[i].op = "Add" THEN es[i] = a ELSE \E g \in gs : es[i].n = g.n
    BY DEF Shape, EntriesOf
<1>2. u \in Seq(Record) /\ Len(u) = q /\ \A i \in 1..q : u[i] = es[i]
    BY <1>0, <1>1, CutFacts
<1>3. \A i \in 1..q : i \in 1..Len(es)
    BY <1>0, <1>1
<1>4. EntriesOf(u, gs, a) /\ (AddsNone(es) => AddsNone(u))
    BY <1>1, <1>2, <1>3 DEF EntriesOf, AddsNone
<1>5. ASSUME q >= 1, es[1] = a, a.op = "Add" PROVE Adds(u, a)
    <2>1. 1 \in 1..Len(u) /\ u[1] = a
        BY <1>0, <1>1, <1>2, <1>5
    <2> QED BY <1>5, <2>1 DEF Adds
<1>6. q = 0 => u = <<>>
    BY <1>2
<1>7. q = Len(es) => u = es
    BY <1>0, <1>1, SubSeqFull
<1> QED BY <1>4, <1>5, <1>6, <1>7 DEF PartOf

LEMMA ShapeCarries ==
    ASSUME NEW es, NEW gs, NEW a, Shape(es, gs, a)
    PROVE  /\ Carried(Range(es)) \in SUBSET a.from
           /\ AddsNone(es) => Carried(Range(es)) = {}
<1>1. es \in Seq(Record)
      /\ \A i \in 1..Len(es) : (es[i].op = "Add" => es[i] = a) /\ (es[i].op # "Add" => es[i].from = {})
    BY DEF Shape, EntriesOf
<1>2. \A g \in Range(es) : \E i \in 1..Len(es) : g = es[i]
    BY <1>1 DEF Range
<1>3. \A x \in Carried(Range(es)) : \E g \in Range(es) : x \in g.from
    BY DEF Carried
<1>4. ASSUME NEW x \in Carried(Range(es)) PROVE x \in a.from /\ ~AddsNone(es)
    <2>1. PICK i \in 1..Len(es) : x \in es[i].from
        BY <1>2, <1>3
    <2> QED BY <1>1, <2>1 DEF AddsNone
<1> QED BY <1>4

\* A part of a call leaves what is kept and brings back nothing; a call that has
\* returned has also added its data and dropped what goes.
LEMMA FlushFine ==
    ASSUME NEW L, NEW K, NEW D, NEW F \in Nat, Fine(L, K, D, F), D \in SUBSET (0..F),
           NEW c, NEW a, Flushes(c, a, F), NEW q \in 0..Len(c.es), NEW u, u = SubSeq(c.es, 1, q)
    PROVE  /\ Fine(Net(L, u), K \ c.gone, D, F + Len(c.es))
           /\ q = Len(c.es) => Fine(Net(L, u), (K \cup Carried(Range(c.es))) \ c.gone,
                                    D \cup c.gone, F + Len(c.es))
<1> PICK es, E : es = c.es /\ E = F + Len(es)
    OBVIOUS
<1>0. Cut(es, q, u)
    BY DEF Cut
<1>1. /\ Shape(es, {}, a) /\ Adds(es, a) /\ Len(es) >= 1
      /\ a \in Record /\ a.n = F + 1 /\ a.from = {F + 1} /\ c.gone = {}
    BY DEF Flushes
<1>2. Len(es) \in Nat /\ E \in Nat /\ E >= F + 1 /\ E >= E
    BY <1>1 DEF Shape, EntriesOf
<1>3. EntriesOf(u, {}, a) /\ (q = Len(es) => u = es)
    <2>1. PartOf(es, {}, a, q, u)
        BY <1>0, <1>1, PartShape, Zenon
    <2> QED BY <1>1, <2>1 DEF PartOf
<1>4. Fine(Net(L, u), K, D, E) /\ (Adds(u, a) => Fine(Net(L, u), K \cup a.from, D, E))
    BY <1>1, <1>2, <1>3, FinalizeFine
<1>5. K \ c.gone = K /\ D \cup c.gone = D
    BY <1>1
<1>6. ASSUME q = Len(es) PROVE Fine(Net(L, u), (K \cup Carried(Range(es))) \ c.gone, D, E)
    <2>1. Fine(Net(L, u), K \cup a.from, D, E)
        BY <1>1, <1>3, <1>4, <1>6
    <2>2. (K \cup Carried(Range(es))) \ c.gone \in SUBSET (K \cup a.from)
        BY <1>1, ShapeCarries
    <2> QED BY <1>2, <2>1, <2>2, FineLater
<1> QED BY <1>4, <1>5, <1>6

LEMMA DropFine ==
    ASSUME NEW L, NEW K, NEW D, NEW F \in Nat, Fine(L, K, D, F),
           NEW c, NEW gs, NEW a, Drops(c, L, gs, a, F), NEW q \in 0..Len(c.es),
           NEW u, u = SubSeq(c.es, 1, q)
    PROVE  /\ Fine(Net(L, u), K \ c.gone, D, F + Len(c.es))
           /\ q = Len(c.es) => Fine(Net(L, u), (K \cup Carried(Range(c.es))) \ c.gone,
                                    D \cup c.gone, F + Len(c.es))
<1> PICK es, E, gone : es = c.es /\ E = F + Len(es) /\ gone = c.gone
    OBVIOUS
<1>0. Cut(es, q, u)
    BY DEF Cut
<1>1. /\ Shape(es, gs, a) /\ AddsNone(es) /\ RemovesAll(es, gs)
      /\ gs \in SUBSET L /\ a.n = F + 1 /\ gone = Carried(gs) \ Carried(L \ gs)
    BY DEF Drops
<1>2. Len(es) \in Nat /\ E \in Nat /\ E >= F
    BY <1>1 DEF Shape, EntriesOf
<1>3. EntriesOf(u, gs, a) /\ AddsNone(u) /\ (q = Len(es) => u = es)
    <2>1. PartOf(es, gs, a, q, u)
        BY <1>0, <1>1, PartShape, Zenon
    <2> QED BY <1>1, <2>1 DEF PartOf
<1>4. /\ Fine(Net(L, u), K \ gone, D, E)
      /\ RemovesAll(u, gs) => Fine(Net(L, u), K \ gone, D \cup gone, E)
    BY <1>1, <1>2, <1>3, RemovalFine
<1>5. (K \cup Carried(Range(es))) \ gone = K \ gone
    BY <1>1, ShapeCarries
<1> QED BY <1>1, <1>3, <1>4, <1>5

LEMMA RewriteFine ==
    ASSUME NEW L, NEW K, NEW D, NEW F \in Nat, Fine(L, K, D, F),
           NEW c, NEW gs, NEW a, Rewrites(c, L, gs, a, F), NEW q \in 0..Len(c.es),
           c.risk = {} \/ q = 0 \/ q = Len(c.es), NEW u, u = SubSeq(c.es, 1, q)
    PROVE  /\ Fine(Net(L, u), K \ c.gone, D, F + Len(c.es))
           /\ q = Len(c.es) => Fine(Net(L, u), (K \cup Carried(Range(c.es))) \ c.gone,
                                    D \cup c.gone, F + Len(c.es))
<1> PICK es, E : es = c.es /\ E = F + Len(es)
    OBVIOUS
<1>0. Cut(es, q, u)
    BY DEF Cut
<1>1. /\ Shape(es, gs, a) /\ Adds(es, a) /\ Len(es) >= 1
      /\ a.op = "Add" /\ (es[1] = a \/ c.risk # {})
      /\ gs \in SUBSET L /\ a \in Record /\ a.n = F + 1 /\ a.from = Carried(gs) /\ c.gone = {}
    BY DEF Rewrites
<1>2. Len(es) \in Nat /\ E \in Nat /\ E >= F + 1 /\ E >= E
    BY <1>1 DEF Shape, EntriesOf
<1>3. /\ EntriesOf(u, gs, a) /\ (q = Len(es) => u = es) /\ (q = 0 => u = <<>>)
      /\ (q >= 1 /\ es[1] = a /\ a.op = "Add" => Adds(u, a))
    <2>1. PartOf(es, gs, a, q, u)
        BY <1>0, <1>1, PartShape, Zenon
    <2> QED BY <1>1, <2>1 DEF PartOf
<1>4. u = <<>> \/ Adds(u, a)
    <2>1. q = 0 \/ q >= 1
        BY <1>2
    <2> QED BY <1>1, <1>3, <2>1
<1>5. Fine(Net(L, u), K \cup a.from, D, E)
    BY <1>1, <1>2, <1>3, <1>4, MergeFine
<1>6. D \cup c.gone = D /\ K \ c.gone \in SUBSET (K \cup a.from)
      /\ (K \cup Carried(Range(es))) \ c.gone \in SUBSET (K \cup a.from)
    BY <1>1, ShapeCarries
<1>7. Fine(Net(L, u), K \ c.gone, D, E)
    BY <1>2, <1>5, <1>6, FineLater
<1>8. Fine(Net(L, u), (K \cup Carried(Range(es))) \ c.gone, D, E)
    BY <1>2, <1>5, <1>6, FineLater
<1> QED BY <1>6, <1>7, <1>8

LEMMA CallFine ==
    ASSUME frames \in Nat, NEW L \in SUBSET Record, NEW K, NEW D, Fine(L, K, D, frames),
           D \in SUBSET (0..frames), NEW c, ACall(c, L), NEW q \in 0..Len(c.es),
           c.risk = {} \/ q = 0 \/ q = Len(c.es), NEW u, u = SubSeq(c.es, 1, q)
    PROVE  /\ Fine(Net(L, u), K \ c.gone, D, frames + Len(c.es))
           /\ q = Len(c.es) => Fine(Net(L, u), (K \cup Carried(Range(c.es))) \ c.gone,
                                    D \cup c.gone, frames + Len(c.es))
<1> PICK F \in Nat : F = frames
    OBVIOUS
<1>1. ASSUME NEW a, Flushes(c, a, F)
      PROVE  /\ Fine(Net(L, u), K \ c.gone, D, F + Len(c.es))
             /\ q = Len(c.es) => Fine(Net(L, u), (K \cup Carried(Range(c.es))) \ c.gone,
                                    D \cup c.gone, F + Len(c.es))
    BY <1>1, FlushFine
<1>2. ASSUME NEW gs, NEW a, Drops(c, L, gs, a, F)
      PROVE  /\ Fine(Net(L, u), K \ c.gone, D, F + Len(c.es))
             /\ q = Len(c.es) => Fine(Net(L, u), (K \cup Carried(Range(c.es))) \ c.gone,
                                    D \cup c.gone, F + Len(c.es))
    BY <1>2, DropFine
<1>3. ASSUME NEW gs, NEW a, Rewrites(c, L, gs, a, F)
      PROVE  /\ Fine(Net(L, u), K \ c.gone, D, F + Len(c.es))
             /\ q = Len(c.es) => Fine(Net(L, u), (K \cup Carried(Range(c.es))) \ c.gone,
                                    D \cup c.gone, F + Len(c.es))
    BY <1>3, RewriteFine
<1>4. \/ \E a : Flushes(c, a, F)
      \/ \E gs, a : Drops(c, L, gs, a, F)
      \/ \E gs, a : Rewrites(c, L, gs, a, F)
    BY CallKinds
<1> QED BY <1>1, <1>2, <1>3, <1>4

\* What goes is data of the list.
LEMMA GoneIsOld ==
    ASSUME frames \in Nat, NEW L \in SUBSET Record, Ids(L, frames), NEW c, ACall(c, L)
    PROVE  c.gone \in SUBSET (0..frames)
<1>1. \A x \in Carried(L) : x \in 0..frames
    BY DEF Ids, Carried
<1>2. ASSUME NEW gs, gs \in SUBSET L PROVE Carried(gs) \in SUBSET (0..frames)
    BY <1>1, <1>2, CarriedGrows
<1>3. c.gone = {} \/ \E gs : gs \in SUBSET L /\ c.gone = Carried(gs) \ Carried(L \ gs)
    BY CallKinds DEF Flushes, Drops, Rewrites
<1> QED BY <1>2, <1>3
-----------------------------------------------------------------------------
(***************************************************************************)
(* The manifest's invariant: wherever a power failure cuts the file, it    *)
(* holds entries that list the kept data and none that was dropped; and a  *)
(* store whose handle is at the end of the file has the list of its        *)
(* entries in memory.                                                      *)
(***************************************************************************)
SafeCut(d, m, K, D, F) ==
    \E ss : Holds(SubSeq(d, 1, m), ss) /\ Fine(Range(Replay(ss)), K, D, F)

SafeCuts == \A m \in mf.synced..Len(mf.data) : SafeCut(mf.data, m, kept, dropped, frames)

InStep == \E ss : Holds(mf.data, ss) /\ Range(segments) = Range(Replay(ss))

ManInv ==
    /\ dropped \in SUBSET (0..frames)
    /\ SafeCuts
    /\ status = "up" /\ mpos = Len(mf.data) => InStep

LEMMA EntryCuts ==
    ASSUME NEW d, NEW rs, Exactly(d, rs), NEW es \in Seq(Record), NEW x, CellsOf(es, x),
           NEW k \in 0..(3 * Len(es)), NEW u, u = SubSeq(x, 1, k), NEW j \in 0..k,
           NEW q \in 0..Len(es), 3 * q <= j, j < 3 * q + 3
    PROVE  Holds(SubSeq(d \o u, 1, Len(d) + j), rs \o SubSeq(es, 1, q))
<1>1. d \in Seq(Cell) /\ x \in Seq(Cell) /\ Len(x) = 3 * Len(es)
    BY DEF Exactly, CellsOf
<1>2. k \in 0..Len(x) /\ j \in 0..(3 * Len(es))
    BY <1>1
<1>3. u \in Seq(Cell) /\ Len(u) = k
    BY <1>1, <1>2, CutFacts
<1>4. SubSeq(d \o u, 1, Len(d) + j) = d \o SubSeq(u, 1, j)
    <2>1. j \in 0..Len(u)
        BY <1>3
    <2>2. ASSUME NEW v \in Seq(Cell), NEW i \in 0..Len(v)
          PROVE  SubSeq(d \o v, 1, Len(d) + i) = d \o SubSeq(v, 1, i)
        BY <1>1, CutOfJoin
    <2> QED BY <1>3, <2>1, <2>2, Zenon
<1>5. SubSeq(u, 1, j) = SubSeq(x, 1, j)
    BY <1>1, <1>2, CutCut
<1>6. Holds(d \o SubSeq(x, 1, j), rs \o SubSeq(es, 1, q))
    BY <1>2, AppendEntries
<1> QED BY <1>4, <1>5, <1>6

LEMMA Thirds ==
    ASSUME NEW j \in Nat, NEW n \in Nat, j <= 3 * n
    PROVE  j \div 3 \in 0..n /\ 3 * (j \div 3) <= j /\ j < 3 * (j \div 3) + 3
OBVIOUS

LEMMA AllThirds ==
    ASSUME NEW n \in Nat, NEW q \in 0..n, NEW j, j = 3 * n, 3 * q <= j, j < 3 * q + 3
    PROVE  q = n
OBVIOUS

\* What the manifest holds as a whole, and that it is fine.
LEMMA SafeWhole ==
    ASSUME Types, SafeCuts, NEW rs, Holds(mf.data, rs)
    PROVE  Fine(Range(Replay(rs)), kept, dropped, frames)
<1>1. mf.data \in Seq(Cell) /\ Len(mf.data) \in mf.synced..Len(mf.data)
    BY FileFacts DEF Types
<1>2. PICK ss : /\ Holds(SubSeq(mf.data, 1, Len(mf.data)), ss)
                /\ Fine(Range(Replay(ss)), kept, dropped, frames)
    BY <1>1 DEF SafeCuts, SafeCut
<1>3. Holds(mf.data, ss)
    BY <1>1, <1>2, SubSeqFull
<1>4. ss = rs
    BY <1>3, HoldsUnique
<1> QED BY <1>2, <1>4

LEMMA SafeHolds ==
    ASSUME Types, SafeCuts
    PROVE  \E rs : Holds(mf.data, rs)
<1>1. mf.data \in Seq(Cell) /\ Len(mf.data) \in mf.synced..Len(mf.data)
    BY FileFacts DEF Types
<1>2. PICK ss : Holds(SubSeq(mf.data, 1, Len(mf.data)), ss)
    BY <1>1 DEF SafeCuts, SafeCut
<1>3. Holds(mf.data, ss)
    BY <1>1, <1>2, SubSeqFull
<1> QED BY <1>3

\* A call that writes behind the whole frames of the manifest.
Lands(c, k, rs) ==
    /\ Writing(c, Len(mf.data), k) /\ k \in 0..Size(c)
    /\ Holds(mf.data, rs) /\ Whole(mf.data) /\ ACall(c, Range(Replay(rs)))
    /\ c.risk = {} \/ k < 3 \/ k = Size(c)

LEMMA LandsFacts ==
    ASSUME Types, NEW c, NEW k, NEW rs, Lands(c, k, rs)
    PROVE  \E u, es : /\ es = c.es /\ es \in Seq(Record) /\ k \in 0..(3 * Len(es)) /\ u \in Seq(Cell)
                      /\ Len(u) = k /\ Size(c) = 3 * Len(es) /\ CellsOf(es, Cells(es))
                      /\ u = SubSeq(Cells(es), 1, k)
                      /\ mf'.data = mf.data \o u
                      /\ mf'.synced = IF k = 3 * Len(es) THEN Len(mf.data) + k ELSE mf.synced
<1> PICK es, u : es = c.es /\ u = Portion(c, k)
    OBVIOUS
<1>1. /\ Writing(c, Len(mf.data), k) /\ k \in 0..Size(c) /\ mf \in File /\ frames \in Nat
      /\ ACall(c, Range(Replay(rs))) /\ rs \in Seq(Record)
    BY DEF Lands, Types, Holds
<1>2. Range(Replay(rs)) \in SUBSET Record
    BY <1>1, ReplayFacts, ListIsFinite
<1>3. es \in Seq(Record)
    BY <1>1, <1>2, CallTyped
<1>4. u \in Seq(Cell) /\ Len(u) = k /\ k \in Nat /\ Size(c) = 3 * Len(es) /\ Size(c) \in Nat
    BY <1>1, <1>3, PortionFacts
<1>5. mf.data \in Seq(Cell) /\ Len(mf.data) \in Nat /\ mf.synced \in Nat
    BY <1>1, FileFacts
<1> DEFINE f == Longer(mf, u)
<1>6. Put(c, Len(mf.data), k) = f
    <2>1. Len(mf.data) \in 0..Len(mf.data)
        BY <1>5
    <2>2. Written(mf, Len(mf.data), u) = Longer(mf, u)
        BY <1>1, <1>4, <2>1, WrittenFacts
    <2> QED BY <2>2 DEF Put
<1>7. f.data = mf.data \o u /\ f.synced = mf.synced /\ f \in File
    BY <1>1, <1>4, LongerFacts
<1>8. mf' = IF k = Size(c) THEN SyncAll(f) ELSE f
    BY <1>1, <1>6, WritingIs
<1> HIDE DEF f
<1>9. SyncAll(f).data = f.data /\ SyncAll(f).synced = Len(f.data)
    BY <1>7 DEF SyncAll, File
<1>10. Len(f.data) = Len(mf.data) + k
    <2> PICK d : d = mf.data
        OBVIOUS
    <2>1. Joined(Cell, d, u, d \o u)
        BY <1>4, <1>5, JoinFacts
    <2>2. Len(d \o u) = Len(d) + Len(u)
        BY <2>1 DEF Joined
    <2> QED BY <1>4, <1>7, <2>2
<1>11. mf'.data = mf.data \o u /\ mf'.synced = IF k = Size(c) THEN Len(mf.data) + k ELSE mf.synced
    BY <1>7, <1>8, <1>9, <1>10
<1>12. CellsOf(es, Cells(es)) /\ u = SubSeq(Cells(es), 1, k)
    BY <1>3, CellsFacts DEF Portion
<1> QED BY <1>1, <1>3, <1>4, <1>11, <1>12

\* The manifest cut behind j cells of what the call writes.
LEMMA LandsCut ==
    ASSUME Types, SafeCuts, dropped \in SUBSET (0..frames), NEW c, NEW k, NEW rs, Lands(c, k, rs),
           NEW es, es = c.es, es \in Seq(Record), NEW u, u = SubSeq(Cells(es), 1, k),
           CellsOf(es, Cells(es)), k \in 0..(3 * Len(es)), Size(c) = 3 * Len(es),
           NEW j \in 0..k, j = k \/ k # 3 * Len(es), NEW q, q = j \div 3
    PROVE  \E ss : /\ Holds(SubSeq(mf.data \o u, 1, Len(mf.data) + j), ss)
                   /\ Fine(Range(Replay(ss)), kept \ c.gone, dropped, frames + Len(es))
                   /\ ss = rs \o SubSeq(es, 1, q)
                   /\ q = Len(es) => Fine(Range(Replay(ss)), (kept \cup Carried(Range(es))) \ c.gone,
                                          dropped \cup c.gone, frames + Len(es))
<1> PICK d, L, s, t : /\ d = mf.data /\ L = Range(Replay(rs)) /\ t = SubSeq(es, 1, q)
                      /\ s = rs \o t
    OBVIOUS
<1>1. /\ Holds(d, rs) /\ Whole(d) /\ ACall(c, L) /\ rs \in Seq(Record)
      /\ c.risk = {} \/ k < 3 \/ k = 3 * Len(es)
    BY DEF Lands, Holds
<1>2. Exactly(d, rs)
    BY <1>1, ExactlyHolds
<1>3. Fine(L, kept, dropped, frames) /\ L \in SUBSET Record /\ frames \in Nat
    BY <1>1, SafeWhole, ReplayFacts, ListIsFinite DEF Types
<1>4. j \in Nat /\ Len(es) \in Nat /\ k \in Nat /\ j <= k /\ j <= 3 * Len(es)
    OBVIOUS
<1>5. q \in 0..Len(es) /\ 3 * q <= j /\ j < 3 * q + 3
    BY <1>4, Thirds
<1>6. Holds(SubSeq(d \o u, 1, Len(d) + j), s)
    <2> PICK x : x = Cells(es)
        OBVIOUS
    <2> QED BY <1>2, <1>5, EntryCuts
<1>7. t \in Seq(Record)
    BY <1>5, CutFacts
<1>8. Range(Replay(s)) = Net(L, t)
    BY <1>1, <1>7, ReplayJoin
<1>9. c.risk = {} \/ q = 0 \/ q = Len(es)
    <2> PICK n : n = Len(es)
        OBVIOUS
    <2>1. n \in Nat /\ q \in 0..n /\ 3 * q <= j /\ j < 3 * q + 3 /\ (j = k \/ k # 3 * n)
        BY <1>4, <1>5
    <2>2. ASSUME k < 3 PROVE q = 0
        BY <1>4, <2>1, <2>2
    <2>3. ASSUME k = 3 * n PROVE q = n
        BY <2>1, <2>3, AllThirds
    <2> QED BY <1>1, <2>2, <2>3
<1>10. /\ Fine(Net(L, t), kept \ c.gone, dropped, frames + Len(es))
       /\ q = Len(es) => Fine(Net(L, t), (kept \cup Carried(Range(es))) \ c.gone,
                              dropped \cup c.gone, frames + Len(es))
    BY <1>1, <1>3, <1>5, <1>9, CallFine
<1> QED BY <1>6, <1>8, <1>10

LEMMA LandsHolds ==
    ASSUME Types, SafeCuts, dropped \in SUBSET (0..frames), NEW c, NEW k, NEW rs, Lands(c, k, rs)
    PROVE  /\ Len(mf'.data) = Len(mf.data) + k
           /\ Holds(mf'.data, rs \o SubSeq(c.es, 1, k \div 3))
           /\ c.es \in Seq(Record) /\ k \in 0..Size(c) /\ Size(c) = 3 * Len(c.es)
<1>1. PICK u, es : /\ es = c.es /\ es \in Seq(Record) /\ k \in 0..(3 * Len(es)) /\ u \in Seq(Cell)
                   /\ Len(u) = k /\ Size(c) = 3 * Len(es) /\ CellsOf(es, Cells(es))
                   /\ u = SubSeq(Cells(es), 1, k)
                   /\ mf'.data = mf.data \o u
                   /\ mf'.synced = IF k = 3 * Len(es) THEN Len(mf.data) + k ELSE mf.synced
    BY LandsFacts
<1> PICK d, e : d = mf.data /\ e = d \o u
    OBVIOUS
<1>2. d \in Seq(Cell)
    BY FileFacts DEF Types
<1>3. Joined(Cell, d, u, e)
    BY <1>1, <1>2, JoinFacts
<1>4. e \in Seq(Cell) /\ Len(e) = Len(d) + k
    BY <1>1, <1>3 DEF Joined
<1>5. k \in 0..k
    BY <1>1
<1>6. Holds(SubSeq(e, 1, Len(d) + k), rs \o SubSeq(es, 1, k \div 3))
    <2> PICK x, q : x = Cells(es) /\ q = k \div 3
        OBVIOUS
    <2>1. k \in Nat /\ Len(es) \in Nat /\ k <= 3 * Len(es)
        BY <1>1
    <2>2. q \in 0..Len(es) /\ 3 * q <= k /\ k < 3 * q + 3
        BY <2>1, Thirds
    <2>3. Exactly(d, rs)
        BY ExactlyHolds DEF Lands
    <2>4. Holds(SubSeq(d \o u, 1, Len(d) + k), rs \o SubSeq(es, 1, q))
        BY <1>1, <1>5, <2>2, <2>3, EntryCuts
    <2> QED BY <2>4
<1>7. SubSeq(e, 1, Len(e)) = e
    BY <1>4, SubSeqFull
<1> QED BY <1>1, <1>4, <1>6, <1>7

\* A call that goes through, or stops anywhere, keeps the cuts safe.
LEMMA LandsKeeps ==
    ASSUME Types, SafeCuts, dropped \in SUBSET (0..frames), NEW c, NEW k, NEW rs, Lands(c, k, rs)
    PROVE  dropped' \in SUBSET (0..frames') /\ SafeCuts'
<1>1. PICK u, es : /\ es = c.es /\ es \in Seq(Record) /\ k \in 0..(3 * Len(es)) /\ u \in Seq(Cell)
                   /\ Len(u) = k /\ Size(c) = 3 * Len(es) /\ CellsOf(es, Cells(es))
                   /\ u = SubSeq(Cells(es), 1, k)
                   /\ mf'.data = mf.data \o u
                   /\ mf'.synced = IF k = 3 * Len(es) THEN Len(mf.data) + k ELSE mf.synced
    BY LandsFacts
<1> PICK d, e, L, y : d = mf.data /\ e = d \o u /\ L = Range(Replay(rs)) /\ y = mf.synced
    OBVIOUS
<1>2. d \in Seq(Cell) /\ Len(d) \in Nat /\ y \in Nat /\ y <= Len(d) /\ frames \in Nat /\ Len(es) \in Nat
    BY <1>1, FileFacts, SMTT(30) DEF Types
<1>3. Joined(Cell, d, u, e)
    BY <1>1, <1>2, JoinFacts
<1>4. Len(e) = Len(d) + k
    BY <1>1, <1>3 DEF Joined
<1>5. /\ frames' = frames + Len(es)
      /\ kept' = (IF k = 3 * Len(es) THEN kept \cup Carried(Range(es)) ELSE kept) \ c.gone
      /\ dropped' = IF k = 3 * Len(es) THEN dropped \cup c.gone ELSE dropped
    BY <1>1, WritingIs DEF Lands
<1>6. /\ Holds(mf.data, rs) /\ ACall(c, L) /\ rs \in Seq(Record)
    BY DEF Lands, Holds
<1>7. Fine(L, kept, dropped, frames) /\ L \in SUBSET Record
    BY <1>6, SafeWhole, ReplayFacts, ListIsFinite
<1>8. c.gone \in SUBSET (0..frames)
    BY <1>2, <1>6, <1>7, GoneIsOld DEF Fine
<1>9. dropped' \in SUBSET (0..frames')
    <2>1. dropped' \in SUBSET (0..frames)
        BY <1>5, <1>8
    <2>2. 0..frames \in SUBSET (0..frames')
        BY <1>2, <1>5
    <2> QED BY <2>1, <2>2
<1> PICK lo : lo = mf'.synced
    OBVIOUS
<1>10. ASSUME NEW m \in lo..Len(e) PROVE SafeCut(e, m, kept', dropped', frames')
    <2> PICK l, n : l = Len(d) /\ n = Len(es)
        OBVIOUS
    <2>10. l \in Nat /\ n \in Nat /\ k \in Nat /\ lo = (IF k = 3 * n THEN l + k ELSE y)
           /\ m \in lo..(l + k)
        <3>1. l \in Nat /\ n \in Nat /\ k \in Nat
            BY <1>1, <1>2
        <3>2. lo = IF k = 3 * n THEN l + k ELSE y
            BY <1>1, Zenon
        <3>3. m \in lo..(l + k)
            BY <1>4, Zenon
        <3> QED BY <3>1, <3>2, <3>3
    <2>0. m \in Int /\ lo \in Nat /\ lo <= m /\ m <= l + k /\ (k = 3 * n => m = l + k)
        <3>1. lo \in Nat /\ (k = 3 * n => lo = l + k)
            <4>1. CASE k = 3 * n
                <5>1. lo = l + k
                    BY <2>10, <4>1
                <5> QED BY <2>10, <5>1
            <4>2. CASE k # 3 * n
                <5>1. lo = y
                    BY <2>10, <4>2
                <5> QED BY <1>2, <4>2, <5>1
            <4> QED BY <4>1, <4>2
        <3>2. m \in Int /\ lo <= m /\ m <= l + k
            BY <2>10, <3>1
        <3>3. k = 3 * n => m = l + k
            BY <2>10, <3>1, <3>2
        <3> QED BY <3>1, <3>2, <3>3
    <2>1. CASE k = 3 * Len(es)
        <3>1. m = l + k
            BY <2>0, <2>1
        <3>4. k \in Nat /\ n \in Nat /\ k = 3 * n
            BY <2>10, <2>1
        <3>3. k \in 0..k /\ k \div 3 = n
            BY <3>4
        <3>2. \E ss : /\ Holds(SubSeq(e, 1, Len(d) + k), ss)
                      /\ Fine(Range(Replay(ss)), (kept \cup Carried(Range(es))) \ c.gone,
                              dropped \cup c.gone, frames + Len(es))
            BY <1>1, <3>3, LandsCut
        <3> QED BY <1>5, <2>1, <3>1, <3>2 DEF SafeCut
    <2>2. CASE k # 3 * Len(es) /\ m > Len(d)
        <3> PICK j : j = m - Len(d)
            OBVIOUS
        <3>1. j \in 0..k /\ m = Len(d) + j
            <4>1. j = m - l /\ m > l
                BY <2>2
            <4>2. j \in 0..k /\ m = l + j
                BY <2>0, <2>10, <4>1
            <4> QED BY <4>2
        <3>2. \E ss : /\ Holds(SubSeq(e, 1, Len(d) + j), ss)
                      /\ Fine(Range(Replay(ss)), kept \ c.gone, dropped, frames + Len(es))
            BY <1>1, <2>2, <3>1, LandsCut
        <3> QED BY <1>5, <2>2, <3>1, <3>2 DEF SafeCut
    <2>3. CASE k # 3 * Len(es) /\ m <= Len(d)
        <3>1. m \in y..Len(d) /\ m \in 0..Len(d)
            BY <1>1, <1>2, <1>4, <2>3
        <3>2. SubSeq(e, 1, m) = SubSeq(d, 1, m)
            BY <1>1, <1>2, <3>1, CutBefore
        <3>3. PICK ss : Holds(SubSeq(d, 1, m), ss) /\ Fine(Range(Replay(ss)), kept, dropped, frames)
            BY <3>1 DEF SafeCuts, SafeCut
        <3>4. kept' \in SUBSET kept /\ dropped' = dropped /\ frames' \in Nat /\ frames' >= frames
            BY <1>2, <1>5, <2>3
        <3>5. Fine(Range(Replay(ss)), kept', dropped', frames')
            BY <1>2, <3>3, <3>4, FineLater
        <3> QED BY <3>2, <3>3, <3>5 DEF SafeCut
    <2>4. m > Len(d) \/ m <= Len(d)
        BY <1>1, <1>2, <1>4
    <2> QED BY <2>1, <2>2, <2>3, <2>4
<1>11. mf'.data = e
    BY <1>1
<1>12. SafeCuts'
    BY <1>10, <1>11 DEF SafeCuts
<1> QED BY <1>9, <1>12
-----------------------------------------------------------------------------
(***************************************************************************)
(* Every step keeps the manifest's invariant while its flaws do not occur. *)
(***************************************************************************)
LEMMA RiskIs ==
    ASSUME NEW L, NEW c, ACall(c, L)
    PROVE  c.risk = {} \/ c.risk = {"replace"}
BY DEF ACall, IsFinalize, IsRemoval, IsReplace, IsMerge

LEMMA SoundWriting ==
    ASSUME ManifestSound', NEW c, NEW L, ACall(c, L), NEW at \in 0..Len(mf.data), NEW k,
           Writing(c, at, k), Len(mf.data) \in Nat, k \in Nat
    PROVE  /\ Whole(mf.data) /\ at = Len(mf.data)
           /\ c.risk = {} \/ k < 3 \/ k = Size(c)
<1>1. flaws' = flaws \cup FlawIf(~Whole(mf.data), "entry")
                     \cup FlawIf(at < Len(mf.data), "stale")
                     \cup IF EntrySize <= k /\ ~(k = Size(c)) THEN c.risk ELSE {}
    BY WritingIs
<1>2. "entry" \notin flaws' /\ "stale" \notin flaws' /\ "replace" \notin flaws'
    BY DEF ManifestSound
<1>3. Whole(mf.data)
    BY <1>1, <1>2 DEF FlawIf
<1>4. ~(at < Len(mf.data))
    BY <1>1, <1>2 DEF FlawIf
<1>5. at = Len(mf.data)
    BY <1>4
<1>6. c.risk = {} \/ ~(EntrySize <= k) \/ k = Size(c)
    BY <1>1, <1>2, RiskIs
<1>7. ~(EntrySize <= k) => k < 3
    BY DEF EntrySize
<1> QED BY <1>3, <1>5, <1>6, <1>7

\* Nothing of the manifest changes, or nothing but the number of frames.
LEMMA ManIdle ==
    ASSUME Types, ManInv, UNCHANGED mfVars, frames' \in Nat, frames' >= frames,
           status' = status \/ status' # "up"
    PROVE  ManInv'
<1>1. mf' = mf /\ mpos' = mpos /\ segments' = segments /\ kept' = kept /\ dropped' = dropped
      /\ frames \in Nat
    BY DEF mfVars, Types
<1>2. dropped' \in SUBSET (0..frames')
    <2>1. 0..frames \in SUBSET (0..frames')
        BY <1>1
    <2> QED BY <1>1, <2>1 DEF ManInv
<1>3. ASSUME NEW m \in mf.synced..Len(mf.data) PROVE SafeCut(mf.data, m, kept, dropped, frames')
    <2>1. PICK ss : Holds(SubSeq(mf.data, 1, m), ss) /\ Fine(Range(Replay(ss)), kept, dropped, frames)
        BY <1>3 DEF ManInv, SafeCuts, SafeCut
    <2>2. Fine(Range(Replay(ss)), kept, dropped, frames')
        BY <1>1, <2>1, FineLater
    <2> QED BY <2>1, <2>2 DEF SafeCut
<1>4. SafeCuts'
    BY <1>1, <1>3 DEF SafeCuts
<1>5. status' = "up" /\ mpos' = Len(mf'.data) => InStep'
    BY <1>1 DEF ManInv, InStep
<1> QED BY <1>2, <1>4, <1>5 DEF ManInv

LEMMA InitMan ==
    Init => ManInv
<1> SUFFICES ASSUME Init PROVE ManInv
    OBVIOUS
<1>1. /\ mf.data = Header /\ mf.synced = 2 /\ segments = <<>> /\ kept = {} /\ dropped = {}
      /\ frames = 0
    BY DEF Init
<1> PICK e : e = <<>>
    OBVIOUS
<1>2. Holds(mf.data, e) /\ Len(mf.data) = 2 /\ mf.data \in Seq(Cell)
    BY <1>1, EmptyHolds, HeaderFacts
<1>3. e \in Seq(Record) /\ Len(e) = 0
    OBVIOUS
<1>4. Range(Replay(e)) = {}
    <2>1. \A x : x \in Range(Replay(e)) <=> \E j \in 1..Len(e) : x = e[j] /\ Listed(e, j, Len(e))
        BY <1>3, ReplayFacts
    <2>2. \A j \in 1..Len(e) : FALSE
        BY <1>3
    <2>3. \A x : x \notin Range(Replay(e))
        BY <2>1, <2>2, Zenon
    <2> QED BY <2>3, Zenon
<1>5. Range(segments) = {}
    BY <1>1 DEF Range
<1>6. Fine({}, {}, {}, 0)
    BY DEF Fine, Ids, Carried
<1>7. ASSUME NEW m \in 2..2 PROVE SafeCut(mf.data, m, {}, {}, 0)
    <2>1. m = Len(mf.data)
        BY <1>2
    <2>2. Holds(SubSeq(mf.data, 1, m), e)
        BY <1>2, <2>1, SubSeqFull
    <2> QED BY <1>4, <1>6, <2>2 DEF SafeCut
<1>8. SafeCuts
    BY <1>1, <1>2, <1>7 DEF SafeCuts
<1>9. InStep
    BY <1>2, <1>4, <1>5 DEF InStep
<1> QED BY <1>1, <1>8, <1>9 DEF ManInv

LEMMA StoreCallMan ==
    ASSUME Types, ManInv, ManifestSound', NEW c \in StoreCalls, NEW k \in 0..Size(c),
           Writing(c, mpos, k), NEW t, t = SubSeq(c.es, 1, k \div 3), segments' = Replay(segments \o t)
    PROVE  ManInv'
<1>1. ACall(c, Range(segments)) /\ Range(segments) \in SUBSET Record /\ c.es \in Seq(Record)
    BY StoreCallsFacts, ListIsFinite, CallTyped DEF Types
<1>2. mpos \in 0..Len(mf.data) /\ Len(mf.data) \in Nat /\ status = "up"
    BY WritingIs, FileFacts DEF Types
<1>3. k \in Nat
    BY <1>1, PortionFacts
<1>4. Whole(mf.data) /\ mpos = Len(mf.data) /\ (c.risk = {} \/ k < 3 \/ k = Size(c))
    BY <1>1, <1>2, <1>3, SoundWriting
<1>5. PICK rs : Holds(mf.data, rs) /\ Range(segments) = Range(Replay(rs))
    BY <1>2, <1>4 DEF ManInv, InStep
<1>6. Lands(c, k, rs)
    BY <1>1, <1>4, <1>5 DEF Lands
<1>7. SafeCuts /\ dropped \in SUBSET (0..frames)
    BY DEF ManInv
<1>8. dropped' \in SUBSET (0..frames') /\ SafeCuts'
    BY <1>6, <1>7, LandsKeeps
<1>9. Holds(mf'.data, rs \o t) /\ k \div 3 \in 0..Len(c.es)
    <2>1. Holds(mf'.data, rs \o SubSeq(c.es, 1, k \div 3)) /\ Size(c) = 3 * Len(c.es)
        BY <1>6, <1>7, LandsHolds
    <2>2. Len(c.es) \in Nat /\ k <= 3 * Len(c.es)
        BY <1>1, <2>1
    <2> QED BY <1>3, <2>1, <2>2, Thirds
<1>10. t \in Seq(Record) /\ rs \in Seq(Record) /\ segments \in Seq(Record)
    BY <1>1, <1>5, <1>9, CutFacts DEF Holds, Types
<1>11. Range(segments') = Range(Replay(rs \o t))
    <2>1. Range(Replay(segments \o t)) = Net(Range(Replay(segments)), t)
        BY <1>10, ReplayJoin
    <2>2. Range(Replay(rs \o t)) = Net(Range(Replay(rs)), t)
        BY <1>10, ReplayJoin
    <2>3. Range(Replay(segments)) = Range(segments)
        BY <1>10, ReplayAdds DEF Types
    <2> QED BY <1>5, <2>1, <2>2, <2>3
<1>12. InStep'
    <2> PICK s : s = rs \o t
        OBVIOUS
    <2>1. Holds(mf'.data, s) /\ Range(segments') = Range(Replay(s))
        BY <1>9, <1>11
    <2> QED BY <2>1 DEF InStep
<1> QED BY <1>8, <1>12 DEF ManInv

\* The manifest can be read in one way only.
LEMMA ReadOne ==
    ASSUME NEW f \in File, Len(f.data) >= 2, NEW rs, Holds(f.data, rs)
    PROVE  ReadRecords(f.data) = {rs}
BY HoldsRead DEF FileRecords, ValidHeader

LEMMA CompactMan ==
    ASSUME Types, ManInv, ManifestSound', NEW c \in CompactCalls, NEW k \in 0..Size(c),
           Writing(c, Len(mf.data), k),
           \/ /\ mpos' = Len(mf'.data)
              /\ \E s \in ReadRecords(mf'.data) : segments' = Replay(s)
           \/ UNCHANGED <<mpos, segments>>
    PROVE  ManInv'
<1>1. mf \in File /\ Len(mf.data) \in Nat /\ Len(mf.data) >= 2 /\ Len(mf.data) \in 0..Len(mf.data)
    BY FileFacts DEF Types
<1>2. SafeCuts /\ dropped \in SUBSET (0..frames) /\ status = "up"
    BY WritingIs DEF ManInv
<1>3. PICK rs : Holds(mf.data, rs)
    BY <1>2, SafeHolds
<1>4. ACall(c, Range(Replay(rs))) /\ rs \in Seq(Record)
    <2>1. PICK s \in ReadRecords(mf.data) : ACall(c, Range(Replay(s)))
        BY <1>1, CompactCallsFacts
    <2>2. ReadRecords(mf.data) = {rs}
        BY <1>1, <1>3, ReadOne
    <2>3. s = rs
        BY <2>1, <2>2
    <2> QED BY <1>3, <2>1, <2>3 DEF Holds
<1>5. Range(Replay(rs)) \in SUBSET Record
    BY <1>4, ReplayFacts, ListIsFinite
<1>6. c.es \in Seq(Record) /\ k \in Nat
    <2>1. c.es \in Seq(Record)
        BY <1>4, <1>5, CallTyped DEF Types
    <2> QED BY <2>1, PortionFacts
<1>7. Lands(c, k, rs)
    <2>1. Whole(mf.data) /\ (c.risk = {} \/ k < 3 \/ k = Size(c))
        BY <1>1, <1>4, <1>6, SoundWriting
    <2> QED BY <1>3, <1>4, <2>1 DEF Lands
<1>8. dropped' \in SUBSET (0..frames') /\ SafeCuts'
    BY <1>2, <1>7, LandsKeeps
<1> PICK s : s = rs \o SubSeq(c.es, 1, k \div 3)
    OBVIOUS
<1>9. Len(mf'.data) = Len(mf.data) + k /\ Holds(mf'.data, s)
    BY <1>2, <1>7, LandsHolds
<1>10. mf' \in File /\ Len(mf'.data) >= 2
    <2>1. mf' \in File
        BY <1>1, <1>4, <1>5, WritingTypes
    <2> QED BY <1>1, <1>6, <1>9, <2>1
<1>11. ASSUME NEW r \in ReadRecords(mf'.data), segments' = Replay(r) PROVE InStep'
    <2>1. ReadRecords(mf'.data) = {s}
        BY <1>9, <1>10, ReadOne
    <2>2. Holds(mf'.data, s) /\ Range(segments') = Range(Replay(s))
        BY <1>9, <1>11, <2>1
    <2> QED BY <2>2 DEF InStep
<1>12. ASSUME UNCHANGED <<mpos, segments>>, mpos' = Len(mf'.data) PROVE InStep'
    <2>1. mpos = Len(mf.data) + k /\ mpos <= Len(mf.data) /\ mpos \in Nat
        BY <1>2, <1>9, <1>12 DEF Types
    <2>2. k = 0 /\ mpos = Len(mf.data)
        BY <1>1, <1>6, <2>1
    <2>3. PICK ss : Holds(mf.data, ss) /\ Range(segments) = Range(Replay(ss))
        BY <1>2, <2>2 DEF ManInv, InStep
    <2>4. ss = rs
        BY <1>3, <2>3, HoldsUnique
    <2>5. s = rs
        <3>1. k \div 3 = 0
            BY <2>2
        <3>2. SubSeq(c.es, 1, 0) = <<>>
            BY <1>6
        <3>3. rs \o <<>> = rs
            BY <1>4, JoinEmpty
        <3> QED BY <3>1, <3>2, <3>3
    <2>6. Holds(mf'.data, s) /\ Range(segments') = Range(Replay(s))
        BY <1>9, <1>12, <2>3, <2>4, <2>5
    <2> QED BY <2>6 DEF InStep
<1>13. status' = "up" /\ mpos' = Len(mf'.data) => InStep'
    BY <1>11, <1>12
<1> QED BY <1>8, <1>13 DEF ManInv

LEMMA PowerFailureMan ==
    ASSUME Types, ManInv, power_failure
    PROVE  ManInv'
<1>1. mf' \in Survivors(mf) /\ UNCHANGED <<kept, dropped, frames>> /\ status' # "up"
    BY DEF power_failure, Ending
<1>2. PICK m \in mf.synced..Len(mf.data) : mf' = CutAt(mf, m)
    BY <1>1, SurvivorFacts DEF Types
<1> PICK d, e : d = mf.data /\ e = SubSeq(d, 1, m)
    OBVIOUS
<1>3. d \in Seq(Cell) /\ Len(d) \in Nat /\ mf.synced \in Nat
    BY FileFacts DEF Types
<1>4. m \in 0..Len(d) /\ m \in Nat
    BY <1>2, <1>3
<1>5. mf'.data = e /\ mf'.synced = m
    BY <1>2 DEF CutAt
<1>6. e \in Seq(Cell) /\ Len(e) = m
    BY <1>3, <1>4, CutFacts
<1>7. SubSeq(e, 1, m) = e
    BY <1>6, SubSeqFull
<1>8. PICK ss : Holds(e, ss) /\ Fine(Range(Replay(ss)), kept, dropped, frames)
    BY <1>2 DEF ManInv, SafeCuts, SafeCut
<1>9. SafeCut(e, m, kept, dropped, frames)
    BY <1>7, <1>8 DEF SafeCut
<1>10. \A i \in m..Len(e) : i = m
    BY <1>4, <1>6
<1>11. SafeCuts'
    BY <1>1, <1>5, <1>9, <1>10 DEF SafeCuts
<1> QED BY <1>1, <1>11 DEF ManInv

LEMMA OpenMan ==
    ASSUME Types, ManInv, open
    PROVE  ManInv'
<1>1. mf' = mf /\ frames' = frames /\ kept' = kept /\ dropped' = dropped
      /\ \E s \in ReadRecords(mf.data) : segments' = Replay(s)
    BY DEF open
<1>2. mf \in File /\ Len(mf.data) >= 2
    BY FileFacts DEF Types
<1>3. PICK rs : Holds(mf.data, rs)
    BY SafeHolds DEF ManInv
<1>4. ReadRecords(mf.data) = {rs}
    BY <1>2, <1>3, ReadOne
<1>5. Holds(mf'.data, rs) /\ Range(segments') = Range(Replay(rs))
    BY <1>1, <1>3, <1>4
<1>6. InStep'
    BY <1>5 DEF InStep
<1>7. SafeCuts' /\ dropped' \in SUBSET (0..frames')
    BY <1>1 DEF ManInv, SafeCuts
<1> QED BY <1>6, <1>7 DEF ManInv

LEMMA ManStep ==
    ASSUME Types, ManifestSound => ManInv, [Next]_vars, ManifestSound'
    PROVE  ManInv'
<1>0. ManInv /\ frames \in Nat
    BY FlawsStay DEF ManifestSound, Types
<1>1. frames + 1 \in Nat /\ frames + 1 >= frames /\ frames >= frames
    BY <1>0
<1>2. ASSUME NEW len \in 1..MaxLen, put(len) PROVE ManInv'
    BY <1>0, <1>1, <1>2, ManIdle DEF put, Appending
<1>3. ASSUME NEW len \in 1..MaxLen, NEW k \in 0..(len + 1), put_fails(len, k) PROVE ManInv'
    BY <1>0, <1>1, <1>3, ManIdle DEF put_fails, Appending
<1>4. ASSUME NEW len \in 1..MaxLen, put_killed(len) PROVE ManInv'
    BY <1>0, <1>1, <1>4, ManIdle DEF put_killed, Appending
<1>5. CASE flush
    BY <1>0, <1>1, <1>5, ManIdle DEF flush
<1>6. ASSUME NEW c \in StoreCalls, c.es \in Seq(Record), store_call(c) PROVE ManInv'
    <2> PICK k, t : k = Size(c) /\ t = SubSeq(c.es, 1, k \div 3)
        OBVIOUS
    <2>1. Size(c) = 3 * Len(c.es) /\ Len(c.es) \in Nat
        BY <1>6 DEF Size, EntrySize
    <2>2. k \in 0..Size(c) /\ k \div 3 = Len(c.es)
        <3>1. \A n \in Nat : 3 * n \in 0..(3 * n) /\ (3 * n) \div 3 = n
            OBVIOUS
        <3>2. k = 3 * Len(c.es)
            BY <2>1
        <3> QED BY <2>1, <3>1, <3>2, Zenon
    <2>3. t = c.es
        BY <1>6, <2>2, SubSeqFull
    <2>4. Writing(c, mpos, k) /\ segments' = Replay(segments \o t)
        BY <1>6, <2>3 DEF store_call
    <2> QED BY <1>0, <2>2, <2>4, StoreCallMan
<1>7. ASSUME NEW c \in StoreCalls, c.es \in Seq(Record), NEW k \in 0..(Size(c) - 1),
             store_call_cut(c, k)
      PROVE  ManInv'
    <2> PICK t : t = SubSeq(c.es, 1, k \div 3)
        OBVIOUS
    <2>1. Size(c) = 3 * Len(c.es) /\ Len(c.es) \in Nat
        BY <1>7 DEF Size, EntrySize
    <2>2. k \in 0..Size(c)
        BY <2>1
    <2>3. Writing(c, mpos, k) /\ segments' = Replay(segments \o t)
        BY <1>7 DEF store_call_cut, EntrySize
    <2> QED BY <1>0, <2>2, <2>3, StoreCallMan
<1>8. ASSUME NEW c \in StoreCalls PROVE c.es \in Seq(Record)
    BY StoreCallsFacts, ListIsFinite, CallTyped DEF Types
<1>9. ASSUME NEW c \in CompactCalls, compact_once(c) PROVE ManInv'
    <2>1. Size(c) \in 0..Size(c)
        BY <1>9, CompactSize
    <2> QED BY <1>0, <1>9, <2>1, CompactMan DEF compact_once
<1>10. ASSUME NEW c \in CompactCalls, NEW k \in 0..Size(c), compact_once_fails(c, k) PROVE ManInv'
    BY <1>0, <1>10, CompactMan DEF compact_once_fails
<1>11. CASE close \/ kill
    <2>1. UNCHANGED mfVars /\ frames' = frames /\ status' # "up"
        BY <1>11 DEF close, kill, Ending, mfVars
    <2> QED BY <1>0, <1>1, <2>1, ManIdle
<1>12. CASE power_failure
    BY <1>0, <1>12, PowerFailureMan
<1>13. CASE open
    BY <1>0, <1>13, OpenMan
<1>14. CASE open_fails
    BY <1>0, <1>1, <1>14, ManIdle DEF open_fails
<1>15. CASE UNCHANGED vars
    BY <1>0, <1>1, <1>15, ManIdle DEF vars
<1> QED BY <1>2, <1>3, <1>4, <1>5, <1>6, <1>7, <1>8, <1>9, <1>10, <1>11, <1>12, <1>13, <1>14, <1>15
        DEF Next

LEMMA ListableFacts ==
    ASSUME Types, ManInv, NEW l \in Listable
    PROVE  kept \subseteq Carried(Range(l)) /\ dropped \cap Carried(Range(l)) = {}
<1>1. PICK f \in Survivors(mf) : \E s \in ReadRecords(f.data) : l = Replay(s)
    BY DEF Listable
<1>2. mf \in File /\ mf.synced <= Len(mf.data) /\ 2 <= mf.synced
    BY DEF Types
<1>3. /\ \E m \in mf.synced..Len(mf.data) : f = CutAt(mf, m)
      /\ f \in File /\ f.synced = Len(f.data) /\ f.synced >= mf.synced
    BY <1>1, <1>2, SurvivorFacts
<1>4. PICK m \in mf.synced..Len(mf.data) : f = CutAt(mf, m)
    BY <1>3
<1>5. f.data = SubSeq(mf.data, 1, m)
    BY <1>4 DEF CutAt
<1>6. PICK ss : Holds(f.data, ss) /\ Fine(Range(Replay(ss)), kept, dropped, frames)
    BY <1>4, <1>5 DEF ManInv, SafeCuts, SafeCut
<1>7. Len(f.data) >= 2
    <2>1. mf.synced \in Nat /\ Len(f.data) \in Nat
        BY <1>2, <1>3, FileFacts
    <2> QED BY <1>2, <1>3, <2>1
<1>8. ReadRecords(f.data) = {ss}
    BY <1>3, <1>6, <1>7, ReadOne
<1>9. l = Replay(ss)
    BY <1>1, <1>8
<1> QED BY <1>6, <1>9 DEF Fine

\* While no entry went behind a torn one or over newer ones and replace_segment did
\* not stop half way, every cut of manifest.mf behind its synced part lists the kept
\* data and none that was dropped, and the store's list is that of the file.
THEOREM ManifestInductive == Spec => [](Types /\ (ManifestSound => ManInv))
<1>1. Init => Types /\ (ManifestSound => ManInv)
    BY InitTypes, InitMan
<1>2. Types /\ (ManifestSound => ManInv) /\ [Next]_vars => (Types /\ (ManifestSound => ManInv))'
    BY TypesStep, ManStep
<1> QED BY <1>1, <1>2, PTL DEF Spec

\* Manifest::open after a crash between any two cells: the data of every flush whose
\* add_segment returned is in a listed segment until it is removed, and does not come
\* back once remove_segments has returned.
THEOREM ManifestKeepsFlushedData == Spec => []ManifestKeepsData
<1>1. Types /\ (ManifestSound => ManInv) => ManifestKeepsData
    BY ListableFacts DEF ManifestKeepsData
<1> QED BY <1>1, ManifestInductive, PTL
=============================================================================
