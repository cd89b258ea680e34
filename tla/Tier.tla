-------------------------------- MODULE Tier --------------------------------
(***************************************************************************)
(* TieredEngine: a local engine whose segments are archived to a remote    *)
(* store, stripped of index records, pruned, and fetched back when a read  *)
(* misses; the LRU byte cache of range reads; and the lock-free fast paths *)
(* of AsyncTieredEngine.                                                   *)
(*                                                                         *)
(* Every call runs under the engine's write lock and is one action.  As in *)
(* Replication, a node that is opened again replays the WAL files a flush  *)
(* has left and takes its LSN counter from them, a segment's entries serve *)
(* as its hash, and all happens in one cohort window.  Every segment       *)
(* parses: none holds a block over MAX_BLOCK_DECOMPRESSED.  The caller     *)
(* prunes only segments that archived_segments() lists, and hands that     *)
(* list to register_archived after a restart.                              *)
(*                                                                         *)
(* A definition placed right before another one with the same parameters   *)
(* is a variant with a plausible bug; no action uses it.                   *)
(***************************************************************************)
EXTENDS Integers, Sequences, FiniteSets, SequencesExt, SeqRetain

CONSTANTS
    MaxKey,         \* keys are 1..MaxKey
    IndexKeys,      \* the keys in the namespaces strip_text_index and strip_vector_index remove
    NoEntry,        \* "no entry for this key"
    CacheMax,       \* segment_cache_max_bytes; a segment has a byte per record
    MaxWrites,      \* bound: writes
    MaxLsn,         \* bound: records logged, imported ones included
    MaxSegments,    \* bound: local segments
    MaxArchived,    \* bound: length of the archived list
    MaxRestarts,    \* bound: restarts
    MaxTogether     \* bound: writes, archived segments and restarts together

ASSUME TierAssumption ==
    /\ IndexKeys \subseteq 1..MaxKey
    /\ NoEntry \notin [op : {"Put", "Delete"}, ts : Nat, lsn : Nat]
    /\ {MaxKey, CacheMax, MaxWrites, MaxLsn, MaxSegments, MaxArchived} \subseteq Nat
    /\ {MaxRestarts, MaxTogether} \subseteq Nat

VARIABLES
    mem,        \* local memtable
    wal,        \* what a replay of the local WAL files gives
    segs,       \* local segments in registration order
    lsn,        \* lsn_counter
    archived,   \* archived: hashes in the order of the uploads
    fetched,    \* fetched
    remote,     \* hash -> "whole" or "torn", for what the remote store holds
    cache,      \* segment_cache, least recently used first
    bytes,      \* segment_cache_bytes
    newest,     \* auxiliary: key -> its last write
    hidden,     \* auxiliary: an import was registered over a newer local entry
    rewound,    \* auxiliary: a reopening lowered lsn_counter
    restarts    \* auxiliary: restarts so far

localVars   == <<mem, wal, segs, lsn>>
archiveVars == <<archived, fetched, remote>>
cacheVars   == <<cache, bytes>>
auxVars     == <<newest, hidden, rewound, restarts>>
vars == <<localVars, archiveVars, cacheVars, auxVars>>

Keys    == 1..MaxKey
Entry   == [op : {"Put", "Delete"}, ts : Nat, lsn : Nat]
Entries == [Keys -> Entry \cup {NoEntry}]
Empty   == [k \in Keys |-> NoEntry]

Live(m) == {k \in Keys : m[k] # NoEntry}
Size(h) == Cardinality(Live(h))
MinKey(h) == CHOOSE k \in Live(h) : \A j \in Live(h) : k <= j
MaxKeyOf(h) == CHOOSE k \in Live(h) : \A j \in Live(h) : j <= k
Visible(e) == IF e # NoEntry /\ e.op = "Put" THEN {e.ts} ELSE {}
Top(es) == {e \in es : \A f \in es : f.lsn <= e.lsn}
Highest(es) == CHOOSE e \in Top(es) : TRUE
-----------------------------------------------------------------------------
(***************************************************************************)
(* The local engine: get goes by registration order, range by LSN.         *)
(***************************************************************************)
SegmentGet(ss, k) ==
    LET hits == {i \in DOMAIN ss : ss[i].ents[k] # NoEntry} IN
    IF hits = {} THEN NoEntry ELSE ss[CHOOSE i \in hits : \A j \in hits : j <= i].ents[k]

Local(m, ss, k) == IF m[k] # NoEntry THEN m[k] ELSE SegmentGet(ss, k)

AllLocal(k) == ({mem[k]} \cup {segs[i].ents[k] : i \in DOMAIN segs}) \ {NoEntry}

LocalRange(k) == IF AllLocal(k) = {} THEN {} ELSE Visible(Highest(AllLocal(k)))

Hashes(ss) == {ss[i].ents : i \in DOMAIN ss}
Torn == {h \in DOMAIN remote : remote[h] = "torn"}

\* The elements of the archived list at the positions I, in order.
Archived(I) == Retain(archived, I)
-----------------------------------------------------------------------------
(***************************************************************************)
(* fetch_and_import of one hash, on a record of the state it changes.  A   *)
(* torn object fails with a hash mismatch and is not marked as fetched.    *)
(***************************************************************************)
Now == [mem |-> mem, wal |-> wal, segs |-> segs, lsn |-> lsn, fetched |-> fetched,
        hidden |-> hidden]

Wins(st, h, k) ==
    h[k] # NoEntry /\ (Local(st.mem, st.segs, k) = NoEntry
                       \/ h[k].ts > Local(st.mem, st.segs, k).ts)

ImportSegment(st, h) ==
    LET won == {k \in Keys : Wins(st, h, k)}
        logged(base) == [k \in Keys |->
            IF k \in won THEN [h[k] EXCEPT !.lsn = st.lsn + Rank(won, k)] ELSE base[k]]
    IN
    [st EXCEPT
        !.mem = logged(@),
        !.wal = logged(@),
        !.lsn = @ + Cardinality(won),
        !.segs = Append(@, [ents |-> h, imported |-> TRUE]),
        !.hidden = @ \/ \E k \in Keys : st.mem[k] = NoEntry /\ h[k] # NoEntry
                          /\ \E i \in DOMAIN st.segs : st.segs[i].ents[k] # NoEntry
                                                      /\ st.segs[i].ents[k].ts > h[k].ts]

FetchAndImport(st, h) ==
    IF h \in Hashes(st.segs) THEN [st EXCEPT !.fetched = @ \cup {h}]
    ELSE IF h \in Torn THEN st
    ELSE [ImportSegment(st, h) EXCEPT !.fetched = @ \cup {h}]

\* One after the other.
AfterFetching(hs) ==
    LET after[n \in 0..Len(hs)] == IF n = 0 THEN Now ELSE FetchAndImport(after[n - 1], hs[n])
    IN after[Len(hs)]

InBoundsAfterMin(h, k) == MinKey(h) < k /\ k <= MaxKeyOf(h)
InBounds(h, k) == MinKey(h) <= k /\ k <= MaxKeyOf(h)

\* get: what it fetches on a local miss; the downloads of the hashes in F fail.
ToFetch(k, F) == Archived({i \in DOMAIN archived :
    InBounds(archived[i], k) /\ archived[i] \notin fetched \cup F})

AfterGet(k, F) == AfterFetching(ToFetch(k, F))

LocalGet(k) == Visible(Local(mem, segs, k))

Get(k) == IF LocalGet(k) # {} THEN LocalGet(k)
          ELSE LET st == AfterGet(k, {}) IN Visible(Local(st.mem, st.segs, k))

\* get_needs_archived_fetch, and AsyncTieredEngine::get, which takes the write lock
\* only when it says so.
GetNeedsArchivedFetchAfterMin(k) == \E i \in DOMAIN archived :
    InBoundsAfterMin(archived[i], k) /\ archived[i] \notin fetched
GetNeedsArchivedFetch(k) == \E i \in DOMAIN archived :
    InBounds(archived[i], k) /\ archived[i] \notin fetched

AsyncGet(k) ==
    IF LocalGet(k) # {} \/ ~GetNeedsArchivedFetch(k) THEN LocalGet(k) ELSE Get(k)
-----------------------------------------------------------------------------
(***************************************************************************)
(* range and prefix: local results first, then an ephemeral ImmutableEngine *)
(* over the archived segments that overlap and were not fetched.           *)
(***************************************************************************)
OverlapsOpenEnd(h, lo, hi) == MaxKeyOf(h) > lo /\ MinKey(h) < hi
Overlaps(h, lo, hi) == MaxKeyOf(h) >= lo /\ MinKey(h) < hi

ToLoad(lo, hi) == Archived({i \in DOMAIN archived :
    Overlaps(archived[i], lo, hi) /\ archived[i] \notin fetched})

EphemeralGet(hs, k) ==
    LET es == {h[k] : h \in hs} \ {NoEntry} IN IF es = {} THEN {} ELSE Visible(Highest(es))

\* The value of k in the result of range(lo, hi) when every download succeeds.
MergeLocalWins(local, other) == IF local # {} THEN local ELSE other

RangeGet(lo, hi, k) ==
    MergeLocalWins(LocalRange(k), EphemeralGet(ToSet(ToLoad(lo, hi)), k))

RangeNeedsArchivedFetch(lo, hi) == \E i \in DOMAIN archived :
    Overlaps(archived[i], lo, hi) /\ archived[i] \notin fetched

AsyncRangeGet(lo, hi, k) ==
    IF RangeNeedsArchivedFetch(lo, hi) THEN RangeGet(lo, hi, k) ELSE LocalRange(k)

\* The bytes of the first i segments of s, for each i.
BytesOfFirst(s) ==
    LET sum[i \in 0..Len(s)] == IF i = 0 THEN 0 ELSE sum[i - 1] + Size(s[i])
    IN sum

\* cache_segment: evict the least recently used until the new one fits or none is left.
Evicted(c, incoming) ==
    LET left(i) == c.bytes - BytesOfFirst(c.items)[i]
        fits(i) == left(i) + incoming <= CacheMax
        n == CHOOSE i \in 0..Len(c.items) :
                (fits(i) \/ i = Len(c.items)) /\ \A j \in 0..(i - 1) : ~fits(j)
    IN [items |-> SubSeq(c.items, n + 1, Len(c.items)), bytes |-> left(n)]

CacheSegmentNoDebit(c, h) ==
    IF CacheMax = 0 THEN c
    ELSE [items |-> Append(Evicted(c, Size(h)).items, h), bytes |-> c.bytes + Size(h)]
CacheSegment(c, h) ==
    IF CacheMax = 0 THEN c
    ELSE LET e == Evicted(c, Size(h)) IN
         [items |-> Append(e.items, h), bytes |-> e.bytes + Size(h)]

Touch(c, h) ==
    LET at == CHOOSE i \in DOMAIN c.items : c.items[i] = h IN
    [c EXCEPT !.items = Append(RemoveAt(@, at), h)]

\* The downloads of the hashes in F fail.
Load(c, h, F) == IF h \in ToSet(c.items) THEN Touch(c, h)
                 ELSE IF h \in F THEN c ELSE CacheSegment(c, h)

AfterRange(lo, hi, F) ==
    LET hs == ToLoad(lo, hi)
        after[n \in 0..Len(hs)] ==
            IF n = 0 THEN [items |-> cache, bytes |-> bytes] ELSE Load(after[n - 1], hs[n], F)
    IN after[Len(hs)]
-----------------------------------------------------------------------------
Init ==
    /\ mem = Empty
    /\ wal = Empty
    /\ segs = <<>>
    /\ lsn = 0
    /\ archived = <<>>
    /\ fetched = {}
    /\ remote = [h \in {} |-> "whole"]
    /\ cache = <<>>
    /\ bytes = 0
    /\ newest = Empty
    /\ hidden = FALSE
    /\ rewound = FALSE
    /\ restarts = 0

Clock == CHOOSE t \in 0..MaxWrites :
    /\ \A k \in Keys : newest[k] # NoEntry => newest[k].ts <= t
    /\ t = 0 \/ \E k \in Keys : newest[k] # NoEntry /\ newest[k].ts = t

Within == Clock + Len(archived) + restarts < MaxTogether

\* put, put_with_ttl and delete go to the local engine only.
write(k, op) ==
    /\ Clock < MaxWrites /\ Within
    /\ lsn' = lsn + 1
    /\ mem' = [mem EXCEPT ![k] = [op |-> op, ts |-> Clock + 1, lsn |-> lsn']]
    /\ wal' = [wal EXCEPT ![k] = mem'[k]]
    /\ newest' = [newest EXCEPT ![k] = mem'[k]]
    /\ UNCHANGED <<segs, archiveVars, cacheVars, hidden, rewound, restarts>>

\* finalize_flush keeps only the current WAL file; it was begun by a rotation after LSN
\* cut, or by the first open.
flush_to_segments(cut) ==
    /\ Live(mem) # {}
    /\ cut = 0 \/ \E k \in Live(wal) : wal[k].lsn = cut
    /\ Len(segs) < MaxSegments
    /\ segs' = Append(segs, [ents |-> mem, imported |-> FALSE])
    /\ mem' = Empty
    /\ wal' = [k \in Keys |-> IF wal[k] # NoEntry /\ wal[k].lsn > cut THEN wal[k] ELSE NoEntry]
    /\ UNCHANGED <<lsn, archiveVars, cacheVars, auxVars>>

\* compact_partial_cohort keeps the entry with the highest LSN, and of equal ones that
\* of the segment registered first.
MergedLowest(ss, k) ==
    LET hits == {i \in DOMAIN ss : ~ss[i].imported /\ ss[i].ents[k] # NoEntry}
        top  == {i \in hits : \A j \in hits : ss[j].ents[k].lsn >= ss[i].ents[k].lsn}
    IN IF hits = {} THEN NoEntry ELSE ss[Min(top)].ents[k]
Merged(ss, k) ==
    LET hits == {i \in DOMAIN ss : ~ss[i].imported /\ ss[i].ents[k] # NoEntry}
        top  == {i \in hits : \A j \in hits : ss[j].ents[k].lsn <= ss[i].ents[k].lsn}
    IN IF hits = {} THEN NoEntry ELSE ss[Min(top)].ents[k]

\* Imported segments have death_time 0 and go; the others are merged and lose their
\* tombstones.
Compacted(ss) ==
    LET kept == [k \in Keys |->
                    IF Visible(Merged(ss, k)) # {} THEN Merged(ss, k) ELSE NoEntry]
    IN IF Live(kept) = {} THEN <<>> ELSE <<[ents |-> kept, imported |-> FALSE]>>

compact_once ==
    /\ segs # <<>>
    /\ segs' = Compacted(segs)
    /\ UNCHANGED <<mem, wal, lsn, archiveVars, cacheVars, auxVars>>

\* The records of the text and vector namespaces are left out.
Filtered(h) == [k \in Keys |-> IF k \in IndexKeys THEN NoEntry ELSE h[k]]

\* strip_text_index and strip_vector_index: the segment is rewritten without index
\* records and takes the last place (replace_segment); not when nothing would change
\* or nothing would be left.
Strip(ss, i) ==
    LET kept == Filtered(ss[i].ents) IN
    IF Live(kept) \in {{}, Live(ss[i].ents)} THEN ss
    ELSE Append(RemoveAt(ss, i), [ents |-> kept, imported |-> FALSE])

\* archive_segments of one segment: uploaded unless an object with this hash exists,
\* listed, stripped.
archive_segments(i, strip) ==
    /\ i \in DOMAIN segs
    /\ Len(archived) < MaxArchived /\ Within
    /\ LET h == segs[i].ents IN
       /\ remote' = [g \in DOMAIN remote \cup {h} |-> IF g \in DOMAIN remote THEN remote[g] ELSE "whole"]
       /\ archived' = Append(archived, h)
    /\ segs' = IF strip THEN Strip(segs, i) ELSE segs
    /\ UNCHANGED <<mem, wal, lsn, fetched, cacheVars, auxVars>>

\* The upload fails for good and the call returns the error: nothing is listed.  A
\* write error or a kill after create_new leaves a short file behind.
archive_failed(i) ==
    /\ i \in DOMAIN segs
    /\ segs[i].ents \notin DOMAIN remote
    /\ remote' = [g \in DOMAIN remote \cup {segs[i].ents} |->
                     IF g \in DOMAIN remote THEN remote[g] ELSE "torn"]
    /\ UNCHANGED <<localVars, archived, fetched, cacheVars, auxVars>>

prune_local_segment(i) ==
    /\ i \in DOMAIN segs
    /\ segs[i].ents \in ToSet(archived)
    /\ segs' = RemoveAt(segs, i)
    /\ UNCHANGED <<mem, wal, lsn, archiveVars, cacheVars, auxVars>>

Become(st) ==
    /\ mem' = st.mem /\ wal' = st.wal /\ segs' = st.segs /\ lsn' = st.lsn /\ fetched' = st.fetched
    /\ hidden' = st.hidden
    /\ Len(segs') <= MaxSegments /\ lsn' <= MaxLsn
    /\ UNCHANGED <<archived, remote, cacheVars, newest, rewound, restarts>>

\* A get that misses locally; F are the hashes whose download fails (logged, ignored).
get(k, F) ==
    /\ LocalGet(k) = {} /\ ToFetch(k, {}) # <<>>
    /\ Become(AfterGet(k, F))

\* fetch_segment fetches a single one, fetch_archived_overlapping all that overlap and
\* fetch_all_archived all that are not marked; the first n arrive, then one fails.
fetch(hs, n) ==
    /\ n \in 1..Len(hs)
    /\ \A i \in 1..n : hs[i] \notin Torn \ Hashes(segs)
    /\ Become(AfterFetching(SubSeq(hs, 1, n)))

\* range and prefix change the cache only.
range(lo, hi, F) ==
    /\ ToLoad(lo, hi) # <<>>
    /\ LET c == AfterRange(lo, hi, F) IN cache' = c.items /\ bytes' = c.bytes
    /\ UNCHANGED <<localVars, archiveVars, auxVars>>

LastLsn(w) == LET found == {w[k].lsn : k \in Live(w)} IN IF found = {} THEN 0 ELSE Max(found)

\* Killed and opened again: the WAL is replayed, and lsn_counter is the highest LSN in
\* it; register_archived drops duplicates.
restart ==
    /\ restarts < MaxRestarts /\ Within
    /\ restarts' = restarts + 1
    /\ mem' = wal
    /\ lsn' = LastLsn(wal)
    /\ rewound' = (rewound \/ lsn' < lsn)
    /\ archived' = Archived({i \in DOMAIN archived : archived[i] \notin {archived[j] : j \in 1..(i - 1)}})
    /\ fetched' = {}
    /\ cache' = <<>> /\ bytes' = 0
    /\ UNCHANGED <<wal, segs, remote, newest, hidden>>

Next ==
    \/ \E k \in Keys, op \in {"Put", "Delete"} : write(k, op)
    \/ \E cut \in 0..lsn : flush_to_segments(cut)
    \/ compact_once
    \/ \E i \in DOMAIN segs, strip \in BOOLEAN : archive_segments(i, strip)
    \/ \E i \in DOMAIN segs : archive_failed(i) \/ prune_local_segment(i)
    \/ \E k \in Keys : \E F \in SUBSET ToSet(ToFetch(k, {})) : get(k, F)
    \/ \E i \in DOMAIN archived : fetch(<<archived[i]>>, 1)
    \/ \E lo \in Keys : \E hi \in (lo + 1)..(MaxKey + 1), n \in DOMAIN archived :
          fetch(Archived({i \in DOMAIN archived : Overlaps(archived[i], lo, hi)}), n)
    \/ \E n \in DOMAIN archived : fetch(Archived({i \in DOMAIN archived : archived[i] \notin fetched}), n)
    \/ \E lo \in Keys : \E hi \in (lo + 1)..(MaxKey + 1) :
          \E F \in SUBSET (ToSet(ToLoad(lo, hi)) \ ToSet(cache)) : range(lo, hi, F)
    \/ restart

Spec == Init /\ [][Next]_vars
-----------------------------------------------------------------------------
(***************************************************************************)
(* Properties.                                                             *)
(***************************************************************************)
Same(e, f) == e # NoEntry /\ f # NoEntry /\ e.ts = f.ts

Survives(k) ==
    \/ \E e \in AllLocal(k) : Same(e, newest[k])
    \/ \E h \in ToSet(archived) \cap DOMAIN remote : remote[h] = "whole" /\ Same(h[k], newest[k])

\* Archiving, stripping, pruning, fetching and compacting never lose the newest value
\* of a key: it is in the memtable, in a local segment or in an intact archived object,
\* as long as no torn upload is taken for an archived segment, no import was registered
\* over a newer local entry, and no reopening lowered the LSN counter, after which a
\* compaction may prefer the older of two writes.
NewestSurvives ==
    ToSet(archived) \cap Torn = {} /\ ~hidden /\ ~rewound =>
        \A k \in Keys : Visible(newest[k]) # {} => Survives(k)

Unfetched == ToSet(archived) \ (fetched \cup Torn)

\* Read-through: a key without local entry whose newest write is in an archived segment
\* that was not fetched reads as that write, whatever else is imported with it and in
\* which order; and an import never overrides a newer value in the memtable, nor a
\* value that is found locally.
GetReadsThrough ==
    \A k \in Keys :
        \/ Same(mem[k], newest[k])
        \/ LocalGet(k) # {} /\ Same(Local(mem, segs, k), newest[k])
        \/ AllLocal(k) = {} /\ \E h \in Unfetched : Same(h[k], newest[k])
        => Get(k) = Visible(newest[k])

\* The same for range and prefix, which go by LSN, where the newest write has the
\* highest LSN.  An older write may have a higher one when an import logged it again or
\* a reopening lowered the counter; and a torn object makes the whole call fail.
RangeReadsThrough ==
    \A lo, hi \in 1..(MaxKey + 1) : \A k \in lo..(hi - 1) :
        LET loaded == ToSet(ToLoad(lo, hi)) IN
        /\ loaded \cap Torn = {}
        /\ \A h, g \in loaded :
              Same(g[k], newest[k]) /\ h[k] # NoEntry /\ ~Same(h[k], newest[k])
                  => h[k].lsn < g[k].lsn
        /\ \/ LocalRange(k) # {} /\ \A e \in Top(AllLocal(k)) : Same(e, newest[k])
           \/ AllLocal(k) = {} /\ \E h \in Unfetched : Same(h[k], newest[k])
        => RangeGet(lo, hi, k) = Visible(newest[k])

\* AsyncTieredEngine's fast paths, which decide under a read lock that no archived
\* segment can matter, give the answer of the full call.
FastPathsAgree ==
    /\ \A k \in Keys : AsyncGet(k) = Get(k)
    /\ \A lo, hi \in 1..(MaxKey + 1) : \A k \in lo..(hi - 1) :
          AsyncRangeGet(lo, hi, k) = RangeGet(lo, hi, k)

\* The cache's byte count follows its content, no hash is cached twice, and the limit
\* is exceeded only by a segment that is alone in the cache and larger than the limit.
CacheAccounting ==
    /\ bytes = BytesOfFirst(cache)[Len(cache)]
    /\ Cardinality(ToSet(cache)) = Len(cache)
    /\ bytes > CacheMax => Len(cache) = 1
=============================================================================
