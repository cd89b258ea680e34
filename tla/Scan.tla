-------------------------------- MODULE Scan --------------------------------
(***************************************************************************)
(* The read paths of edgestore over a memtable and a list of segments:     *)
(* point reads, range and prefix scans, snapshot and ImmutableEngine       *)
(* reads, and cursor pagination in both directions by a client whose pages *)
(* interleave with writes and flushes (every page takes the engine's read  *)
(* lock anew, AsyncEngine::range_page).                                    *)
(*                                                                         *)
(* Keys are positions in the encoded key order.  An entry is identified by *)
(* its LSN, which also names its value.  A segment is a sorted run of      *)
(* entries cut into blocks of BlockLen, with a sparse index of the first   *)
(* key of every block.                                                     *)
(*                                                                         *)
(* A definition placed right before another one with the same parameters   *)
(* is a variant with a plausible bug; no action uses it.                   *)
(***************************************************************************)
EXTENDS Integers, Sequences, FiniteSets, SequencesExt, SeqRetain

CONSTANTS
    MaxKey,      \* keys are 1..MaxKey
    BlockLen,    \* entries per block of a segment
    NoEntry,     \* "no entry for this key"
    MaxPage,     \* bound: largest page size asked for
    MaxWrites,   \* bound: writes
    MaxSegments  \* bound: segments

ASSUME ScanAssumption ==
    /\ {MaxKey, BlockLen, MaxPage} \subseteq Nat \ {0}
    /\ {MaxWrites, MaxSegments} \subseteq Nat
    /\ NoEntry \notin [op : {"Put", "Delete"}, lsn : Nat]

VARIABLES
    memtable,    \* key -> entry or NoEntry
    segs,        \* segments in registration order
    lsn,         \* lsn_counter
    flushing,    \* <<work>> between begin_flush and finalize_flush, else <<>>
    client       \* the pagination under way, or Idle

vars == <<memtable, segs, lsn, flushing, client>>

Keys    == 1..MaxKey
Entry   == [op : {"Put", "Delete"}, lsn : Nat]
Entries == [Keys -> Entry \cup {NoEntry}]
NoKey   == 0                  \* cursor = None
Unlimited == MaxKey + 1       \* max_items = None

Live(m) == {k \in Keys : m[k] # NoEntry}
Restricted(f, S) == [k \in S |-> f[k]]

\* The first n and the last n keys of a set, and a set of keys in either order.
Least(S, n) == {k \in S : Rank(S, k) <= n}
Greatest(S, n) == {k \in S : Cardinality({j \in S : j >= k}) <= n}
Ascending(S) == [i \in 1..Cardinality(S) |-> Nth(S, i)]
Descending(S) == [i \in 1..Cardinality(S) |-> Nth(S, Cardinality(S) + 1 - i)]
-----------------------------------------------------------------------------
(***************************************************************************)
(* One segment file: sparse index, blocks, point read and bounded cursor.  *)
(***************************************************************************)
\* The first key of every block.
Index(seg) ==
    [b \in {c \in 1..Cardinality(Live(seg)) : (c - 1) * BlockLen < Cardinality(Live(seg))} |->
        Nth(Live(seg), (b - 1) * BlockLen + 1)]

\* The last block whose first key is at or before the key.
FindBlock(index, k) ==
    LET pos == Cardinality({b \in DOMAIN index : index[b] <= k}) IN
    IF pos = 0 THEN 1 ELSE pos

\* What is read from a block to the end of the file.
ReadFrom(seg, b) == {k \in Live(seg) : Rank(Live(seg), k) > (b - 1) * BlockLen}

ReaderGet(seg, k) ==
    IF k \in ReadFrom(seg, FindBlock(Index(seg), k)) THEN seg[k] ELSE NoEntry

\* SegmentCursor: nothing when the segment's min_key and max_key miss [lo, hi).
OverlapsOpenEnd(seg, lo, hi) ==
    (\E k \in Live(seg) : hi > k) /\ (\E k \in Live(seg) : lo < k)
Overlaps(seg, lo, hi) ==
    (\E k \in Live(seg) : hi > k) /\ (\E k \in Live(seg) : lo <= k)

Cursor(seg, lo, hi) ==
    IF Overlaps(seg, lo, hi)
    THEN {k \in ReadFrom(seg, FindBlock(Index(seg), lo)) : lo <= k /\ k < hi}
    ELSE {}

\* SegmentReader::range_scan, whose bound test lets hi = min_key through.
RangeScan(seg, lo, hi) ==
    IF (\A k \in Live(seg) : hi < k) \/ (\A k \in Live(seg) : lo > k) THEN {}
    ELSE {k \in ReadFrom(seg, FindBlock(Index(seg), lo)) : lo <= k /\ k < hi}
-----------------------------------------------------------------------------
(***************************************************************************)
(* Merging: for every key the entry with the highest LSN wins.             *)
(***************************************************************************)
Highest(es) == CHOOSE e \in es : \A f \in es : f.lsn <= e.lsn

\* The k-way merge of the cursors over [lo, hi), tombstones included.
Merge(ss, lo, hi) ==
    [k \in UNION {Cursor(ss[i], lo, hi) : i \in DOMAIN ss} |->
        Highest({ss[i][k] : i \in {j \in DOMAIN ss : k \in Cursor(ss[j], lo, hi)}})]

Puts(w) == {k \in DOMAIN w : w[k].op = "Put"}

\* max live keys are out, and another key follows.
OverBudget(w, max) ==
    Cardinality(Puts(w)) >= max /\ \E k \in DOMAIN w : \A j \in Least(Puts(w), max) : j < k

\* The forward merge emits a live key when the next key turns up, and stops there
\* once max keys are out; the reverse one likewise, without telling its caller.
RangeScanBudgeted(ss, lo, hi, max) ==
    LET w == Merge(ss, lo, hi) IN
    [ents |-> Restricted(w, Least(Puts(w), max)), truncated |-> OverBudget(w, max)]

RangeScanRevBudgeted(ss, lo, hi, max) ==
    LET w == Merge(ss, lo, hi) IN Restricted(w, Greatest(Puts(w), max))

\* Memtable entries and segment entries of a window, the higher LSN for each key.
MergeSortedScans(seg, mem) ==
    [k \in DOMAIN seg \cup DOMAIN mem |->
        Highest((IF k \in DOMAIN seg THEN {seg[k]} ELSE {})
                \cup (IF k \in DOMAIN mem THEN {mem[k]} ELSE {}))]

MemRange(m, lo, hi) == Restricted(m, {k \in Live(m) : lo <= k /\ k < hi})

\* Keys with their values.
Items(w, ks) == [i \in DOMAIN ks |-> [key |-> ks[i], val |-> w[ks[i]].lsn]]

TruncatedAtBudget(w, max, segTruncated) == segTruncated
Truncated(w, max, segTruncated) == segTruncated \/ OverBudget(w, max)

DedupFilterScan(w, max, segTruncated) ==
    [items |-> Items(w, Ascending(Least(Puts(w), max))),
     truncated |-> Truncated(w, max, segTruncated)]

RangeCore(m, ss, lo, hi, max) ==
    LET seg == RangeScanBudgeted(ss, lo, hi, max) IN
    DedupFilterScan(MergeSortedScans(seg.ents, MemRange(m, lo, hi)), max, seg.truncated)

\* Prefix p stands for the keys 2p and 2p+1; 2p+2 is prefix_upper_bound(p).
HasPrefix(k, p) == k \div 2 = p

PrefixCore(m, ss, p, max) ==
    LET seg == RangeScanBudgeted(ss, 2 * p, 2 * p + 2, max)
        own == Restricted(seg.ents, {k \in DOMAIN seg.ents : HasPrefix(k, p)})
        mem == Restricted(m, {k \in Live(m) : HasPrefix(k, p)})
    IN DedupFilterScan(MergeSortedScans(own, mem), max, seg.truncated)

RangeItems(m, ss, lo, hi) == RangeCore(m, ss, lo, hi, Unlimited).items
PrefixItems(m, ss, p) == PrefixCore(m, ss, p, Unlimited).items
-----------------------------------------------------------------------------
(***************************************************************************)
(* Point reads: the engine takes the newest registration, a snapshot and   *)
(* an ImmutableEngine the highest LSN.                                     *)
(***************************************************************************)
SegmentGet(ss, k) ==
    LET hits == {i \in DOMAIN ss : ReaderGet(ss[i], k) # NoEntry} IN
    IF hits = {} THEN NoEntry ELSE ss[CHOOSE i \in hits : \A j \in hits : j <= i][k]

GetEntry(m, ss, k) == IF m[k] # NoEntry THEN m[k] ELSE SegmentGet(ss, k)

Visible(e) == IF e # NoEntry /\ e.op = "Put" THEN {e.lsn} ELSE {}

SnapshotGet(ss, k) ==
    LET es == {ReaderGet(ss[i], k) : i \in DOMAIN ss} \ {NoEntry} IN
    IF es = {} THEN NoEntry ELSE Highest(es)

SnapshotRange(ss, lo, hi) ==
    LET found(k) == {i \in DOMAIN ss : k \in RangeScan(ss[i], lo, hi)} IN
    {k \in Keys : found(k) # {} /\ Highest({ss[i][k] : i \in found(k)}).op = "Put"}

\* ImmutableEngine over InMemorySegmentReaders, whose index is rebuilt from the bytes.
InMemoryGet(seg, k) ==
    LET es == {seg[j] : j \in ReadFrom(seg, FindBlock(Index(seg), k)) \cap {k}} IN
    IF es = {} THEN NoEntry ELSE Highest(es)

InMemoryRangeScan(seg, lo, hi) ==
    IF (\A k \in Live(seg) : hi < k) \/ (\A k \in Live(seg) : lo > k) THEN {}
    ELSE {k \in ReadFrom(seg, FindBlock(Index(seg), lo)) : lo <= k /\ k < hi}

ImmutableGet(ss, k) ==
    LET es == {InMemoryGet(ss[i], k) : i \in DOMAIN ss} \ {NoEntry} IN
    IF es = {} THEN NoEntry ELSE Highest(es)

ImmutableRange(ss, lo, hi) ==
    LET found(k) == {i \in DOMAIN ss : k \in InMemoryRangeScan(ss[i], lo, hi)} IN
    {k \in Keys : found(k) # {} /\ Highest({ss[i][k] : i \in found(k)}).op = "Put"}

ImmutablePrefix(ss, p) == ImmutableRange(ss, 2 * p, 2 * p + 2)
-----------------------------------------------------------------------------
(***************************************************************************)
(* Pages.                                                                  *)
(***************************************************************************)
NextKey(scan) ==
    IF scan.truncated /\ scan.items # <<>> THEN Last(scan.items).key ELSE NoKey

PageStartInclusive(cursor, lo) == IF cursor = NoKey THEN lo ELSE cursor
PageStart(cursor, lo) == IF cursor = NoKey THEN lo ELSE cursor + 1

\* range_page; vector_page is the same call on the vector namespace.
RangePage(m, ss, lo, hi, cursor, n) ==
    IF n = 0 THEN [items |-> <<>>, next |-> NoKey]
    ELSE LET scan == RangeCore(m, ss, PageStart(cursor, lo), hi, n) IN
         [items |-> scan.items, next |-> NextKey(scan)]

RangeRevPage(m, ss, lo, hi, cursor, n) ==
    LET end == IF cursor = NoKey THEN hi ELSE cursor IN
    IF n = 0 \/ end <= lo THEN [items |-> <<>>, next |-> NoKey]
    ELSE LET w    == MergeSortedScans(RangeScanRevBudgeted(ss, lo, end, n), MemRange(m, lo, end))
             live == Descending(Greatest(Puts(w), n))
         IN [items |-> Items(w, live), next |-> IF Len(live) >= n THEN Last(live) ELSE NoKey]
-----------------------------------------------------------------------------
Idle == [dir |-> "none"]
\* A pagination that has ended waits for nothing: the client is done with it before
\* anything else happens.
Paged == client # Idle /\ client.done

Init ==
    /\ memtable = [k \in Keys |-> NoEntry]
    /\ segs = <<>>
    /\ lsn = 0
    /\ flushing = <<>>
    /\ client = Idle

\* put, put_with_ttl, delete: a new LSN and the memtable entry.  The client's
\* pagination, if any, no longer counts on the key's value.
write(k, op) ==
    /\ ~Paged
    /\ lsn < MaxWrites
    /\ lsn' = lsn + 1
    /\ memtable' = [memtable EXCEPT ![k] = [op |-> op, lsn |-> lsn']]
    /\ client' = IF client = Idle THEN Idle ELSE [client EXCEPT !.base = Restricted(@, DOMAIN @ \ {k})]
    /\ UNCHANGED <<segs, flushing>>

begin_flush ==
    /\ ~Paged
    /\ flushing = <<>>
    /\ Live(memtable) # {}
    /\ Len(segs) < MaxSegments
    /\ flushing' = <<[ents |-> memtable, max |-> lsn]>>
    /\ UNCHANGED <<memtable, segs, lsn, client>>

\* The segment is registered last; entries above the flushed LSN stay.
finalize_flush ==
    /\ ~Paged
    /\ flushing # <<>>
    /\ segs' = Append(segs, flushing[1].ents)
    /\ memtable' = [k \in Keys |->
          IF memtable[k] # NoEntry /\ memtable[k].lsn > flushing[1].max
          THEN memtable[k] ELSE NoEntry]
    /\ flushing' = <<>>
    /\ UNCHANGED <<lsn, client>>

\* A client starts to page through [lo, hi).  base: what it could read then,
\* of the keys it still counts on.
start_paging(dir, n, lo, hi) ==
    /\ client = Idle
    /\ client' = [dir |-> dir, n |-> n, lo |-> lo, hi |-> hi, cursor |-> NoKey,
                  items |-> <<>>, done |-> FALSE,
                  base |-> [k \in lo..(hi - 1) |-> Visible(GetEntry(memtable, segs, k))]]
    /\ UNCHANGED <<memtable, segs, lsn, flushing>>

\* A tombstone of the memtable hides a key of the range that is live in the segments;
\* the page may then end early.
Shadowing ==
    \E k \in client.lo..(client.hi - 1) :
        /\ memtable[k] # NoEntry /\ memtable[k].op = "Delete"
        /\ SegmentGet(segs, k) # NoEntry /\ SegmentGet(segs, k).op = "Put"

next_page ==
    /\ client # Idle /\ ~client.done
    /\ LET page == IF client.dir = "forward"
                   THEN RangePage(memtable, segs, client.lo, client.hi, client.cursor, client.n)
                   ELSE RangeRevPage(memtable, segs, client.lo, client.hi, client.cursor, client.n)
       IN client' = [client EXCEPT !.items = @ \o page.items, !.cursor = page.next,
                                   !.done = (page.next = NoKey),
                                   !.base = IF Shadowing THEN Restricted(@, {}) ELSE @]
    /\ UNCHANGED <<memtable, segs, lsn, flushing>>

end_paging ==
    /\ Paged
    /\ client' = Idle
    /\ UNCHANGED <<memtable, segs, lsn, flushing>>

Next ==
    \/ \E k \in Keys, op \in {"Put", "Delete"} : write(k, op)
    \/ begin_flush
    \/ finalize_flush
    \/ \E dir \in {"forward", "reverse"}, n \in 1..MaxPage : start_paging(dir, n, 1, MaxKey + 1)
    \/ next_page
    \/ end_paging

Spec == Init /\ [][Next]_vars
-----------------------------------------------------------------------------
(***************************************************************************)
(* Properties.                                                             *)
(***************************************************************************)
\* Helpers of the properties: pages as pairs, and what get answers for the keys of S.
ByKey(items) == {<<items[i].key, items[i].val>> : i \in DOMAIN items}
Expected(m, ss, S) == UNION {{<<k, v>> : v \in Visible(GetEntry(m, ss, k))} : k \in S}

\* Every read path gives the same answer: get (memtable, then the segment registered
\* last), range and prefix (highest LSN), and, for what is flushed, snapshots and
\* ImmutableEngine (highest LSN of any reader).  It does not depend on the client,
\* so it is evaluated where no pagination is under way.
ReadPathsAgree == client = Idle =>
    /\ \A lo, hi \in 1..(MaxKey + 1) :
          ByKey(RangeItems(memtable, segs, lo, hi))
             = Expected(memtable, segs, {k \in Keys : lo <= k /\ k < hi})
    /\ \A p \in 0..(MaxKey \div 2) :
          ByKey(PrefixItems(memtable, segs, p))
             = Expected(memtable, segs, {k \in Keys : HasPrefix(k, p)})
    /\ \A k \in Keys : SegmentGet(segs, k) = SnapshotGet(segs, k)
                     /\ SegmentGet(segs, k) = ImmutableGet(segs, k)
    /\ \A lo, hi \in 1..(MaxKey + 1) :
          LET flushed == {k \in Keys : lo <= k /\ k < hi /\ Visible(SegmentGet(segs, k)) # {}} IN
          SnapshotRange(segs, lo, hi) = flushed /\ ImmutableRange(segs, lo, hi) = flushed
    /\ \A p \in 0..(MaxKey \div 2) :
          ImmutablePrefix(segs, p)
             = {k \in Keys : HasPrefix(k, p) /\ Visible(SegmentGet(segs, k)) # {}}

\* Pages come in key order without repetition, whatever is written in between.
PagesOrdered ==
    client # Idle =>
        \A i, j \in DOMAIN client.items : i < j =>
            IF client.dir = "forward" THEN client.items[i].key < client.items[j].key
                                      ELSE client.items[i].key > client.items[j].key

Complete ==
    \A k \in DOMAIN client.base :
        {p \in ByKey(client.items) : p[1] = k} = {<<k, v>> : v \in client.base[k]}

\* When next_key = None ends a pagination, every key of the range that was not
\* written meanwhile was returned with its value, and no deleted key was: flushes
\* and other writes between pages neither hide nor repeat it.  This needs that no
\* page was read while the memtable held a tombstone over a live segment key; after
\* such a page the client counts on nothing.
PagesComplete ==
    Paged => Complete
=============================================================================
