------------------------------- MODULE Engine -------------------------------
(***************************************************************************)
(* The write path of edgestore's Engine: WAL files, memtable, LSN counter, *)
(* segments and the three-phase flush, transactions, and what Engine::open *)
(* rebuilds from disk after a clean close, a kill or a power failure.      *)
(*                                                                         *)
(* An action is one call made with the engine's exclusive borrow (the      *)
(* AsyncEngine's write lock), so calls do not interleave; phase 2 of a     *)
(* flush runs without the lock, which is why begin and finalize are        *)
(* separate actions.  A crash can hit in the middle of a call: the actions *)
(* named CrashIn... leave on disk what a prefix of the call has written.   *)
(*                                                                         *)
(* A definition placed right before another one with the same parameters   *)
(* is a variant with a plausible bug: the project's properties are tested  *)
(* by checking that they reject it.  No action uses it.                    *)
(***************************************************************************)
EXTENDS Integers, Sequences, FiniteSets, FiniteSetsExt

CONSTANTS
    Keys,           \* encoded (namespace, key) pairs
    NoEntry,        \* "no entry for this key" in a memtable or a segment
    Absent,         \* Ok(None), the result of get for a missing key
    ReadOnly,       \* EdgestoreConfig::readonly
    MemMax,         \* memtable entries that trigger the auto-flush of put
    MaxInFlight,    \* flush tasks between phase 1 and phase 3; 0: blocking Engine
    CrashKinds,     \* the ways a session may end: see Survivors
    MaxTx,          \* bound: records per transaction
    MaxWrites,      \* bound: records ever logged
    MaxSegments,    \* bound: segment ids ever reserved
    MaxRotations,   \* bound: inline WAL rotations
    MaxRestarts     \* bound: times the engine is opened again

ASSUME ConstantsAssumption ==
    /\ ReadOnly \in BOOLEAN
    /\ MemMax \in Nat \ {0}
    /\ {MaxInFlight, MaxTx, MaxWrites, MaxSegments, MaxRotations, MaxRestarts} \subseteq Nat
    /\ CrashKinds \subseteq {"close", "kill", "tail", "torn"}
    /\ NoEntry \notin [op : {"Put", "Delete"}, lsn : Nat, val : Nat]

VARIABLES
    up,              \* Engine::open has succeeded
    wal,             \* WAL files on disk, by the LSN in their name
    current_wal,     \* the file self.wal appends to
    memtable,        \* key -> entry or NoEntry
    lsn_counter,
    manifest,        \* segments in manifest order, which is reader order
    next_segment_id,
    flushes,         \* FlushWork packages between begin_flush and finalize_flush
    rotations, restarts,      \* what the bounds count
    issued,          \* auxiliary: writes logged so far; names each written value
    hist, durable    \* auxiliary: the history DurableStore speaks of

walVars  == <<wal, current_wal, lsn_counter>>
segVars  == <<manifest, next_segment_id, flushes>>
auxVars  == <<issued, hist, durable>>
vars == <<up, walVars, memtable, segVars, rotations, restarts, auxVars>>

Op      == {"Put", "Delete"}
Entry   == [op : Op, lsn : Nat, val : Nat]
Record  == [key : Keys, entry : Entry]
MemEntries == [Keys -> Entry \cup {NoEntry}]

\* synced: how many records an fsync has covered, -1 when not even the header;
\* hdr: FALSE when the header did not reach the disk.
WalFile == [recs : Seq(Record), synced : Int, hdr : BOOLEAN]
Segment == [id : Nat, ents : MemEntries]
FlushWork == [id : Nat, ents : MemEntries, flushed_max_lsn : Nat, upto : Nat]

EmptyMem == [k \in Keys |-> NoEntry]
NewWal   == [recs |-> <<>>, synced |-> -1, hdr |-> TRUE]
-----------------------------------------------------------------------------
(***************************************************************************)
(* WAL files.                                                              *)
(***************************************************************************)
Append1NoTombstone(w, cur, k, e) ==
    IF e.op = "Delete" THEN w ELSE [w EXCEPT ![cur].recs = Append(@, [key |-> k, entry |-> e])]
Append1(w, cur, k, e) == [w EXCEPT ![cur].recs = Append(@, [key |-> k, entry |-> e])]

FsyncNothing(w, cur) == w
Fsync(w, cur) == [w EXCEPT ![cur].synced = Len(w[cur].recs)]

\* wal-{lsn:016x}.log: zero-padded, so names sort as the LSNs do.
NextWalPathShort(lsn) == lsn % 3
NextWalPath(lsn) == lsn

Create(w, name) == [n \in DOMAIN w \cup {name} |-> IF n = name THEN NewWal ELSE w[n]]

\* finalize_flush deletes every WAL file but the one being written.
RetireCurrent(w, cur) == [n \in DOMAIN w \ {cur} |-> w[n]]
RetireOthers(w, cur) == [n \in {cur} |-> w[n]]

(***************************************************************************)
(* Replay: files in name order, records in file order, each record         *)
(* overwriting the entry of its key.  So a key ends up with its last       *)
(* record in that order, whatever the LSNs say.                            *)
(***************************************************************************)
Positions(w, k) == {p \in UNION {{<<n, i>> : i \in DOMAIN w[n].recs} : n \in DOMAIN w} :
                       w[p[1]].recs[p[2]].key = k}

Precedes(p, q) == p[1] < q[1] \/ (p[1] = q[1] /\ p[2] <= q[2])

IsFirst(w, k, p) == p \in Positions(w, k) /\ \A q \in Positions(w, k) : Precedes(p, q)
IsLast(w, k, p) == p \in Positions(w, k) /\ \A q \in Positions(w, k) : Precedes(q, p)

Replay(w) ==
    [k \in Keys |->
       IF \E p \in Positions(w, k) : IsLast(w, k, p)
       THEN LET p == CHOOSE q \in Positions(w, k) : IsLast(w, k, q) IN w[p[1]].recs[p[2]].entry
       ELSE NoEntry]

Lsns(w) == UNION {{w[n].recs[i].entry.lsn : i \in DOMAIN w[n].recs} : n \in DOMAIN w}

RecoveredLsnOfPuts(w) ==
    Max({r.lsn : r \in UNION {{w[n].recs[i].entry : i \in {j \in DOMAIN w[n].recs :
                                 w[n].recs[j].entry.op = "Put"}} : n \in DOMAIN w}} \cup {0})
RecoveredLsn(w) == Max(Lsns(w) \cup {0})
-----------------------------------------------------------------------------
(***************************************************************************)
(* Reads.                                                                  *)
(***************************************************************************)
\* SegmentStore::get: readers newest registration first, the first hit wins.
SegmentGetOldest(segs, k) ==
    LET hits == {i \in DOMAIN segs : segs[i].ents[k] # NoEntry} IN
    IF hits = {} THEN NoEntry ELSE segs[Min(hits)].ents[k]
SegmentGet(segs, k) ==
    LET hits == {i \in DOMAIN segs : segs[i].ents[k] # NoEntry} IN
    IF hits = {} THEN NoEntry ELSE segs[Max(hits)].ents[k]

GetEntry(m, segs, k) == IF m[k] # NoEntry THEN m[k] ELSE SegmentGet(segs, k)

Get(m, segs, k) ==
    LET e == GetEntry(m, segs, k) IN
    IF e = NoEntry \/ e.op = "Delete" THEN Absent ELSE e.val
-----------------------------------------------------------------------------
(***************************************************************************)
(* The memtable and the flush.                                             *)
(***************************************************************************)
Insert(m, k, e) == [m EXCEPT ![k] = e]

Live(m) == {k \in Keys : m[k] # NoEntry}

MaxLsnOf(m) == Max({m[k].lsn : k \in Live(m)})

\* Phase 1: the memtable as it is, its highest LSN and a fresh segment id.
PrepareFlush(m, id, h) ==
    [id |-> id, ents |-> m, flushed_max_lsn |-> MaxLsnOf(m), upto |-> Len(h)]

\* Phase 2: the segment files hold the entries of the work package.
Execute(work) == [id |-> work.id, ents |-> work.ents]

\* Phase 3: only what was written after the snapshot stays in the memtable.
RemainingNone(m, max) == EmptyMem
Remaining(m, max) == [k \in Keys |-> IF m[k] # NoEntry /\ m[k].lsn > max THEN m[k] ELSE NoEntry]
-----------------------------------------------------------------------------
(***************************************************************************)
(* Writes.                                                                 *)
(***************************************************************************)
Init ==
    /\ up = TRUE
    /\ wal = [n \in {0} |-> NewWal]
    /\ current_wal = 0
    /\ memtable = EmptyMem
    /\ lsn_counter = 0
    /\ manifest = <<>>
    /\ next_segment_id = 0
    /\ flushes = {}
    /\ rotations = 0 /\ restarts = 0
    /\ issued = 0
    /\ hist = <<>>
    /\ durable = 0

HistRec(k, e, applied, rest) ==
    [key |-> k, op |-> e.op, val |-> e.val, applied |-> applied, rest |-> rest]

\* begin_flush, execute and finalize_flush in one call, on memtable m and WAL w.
FlushAll(m, w, cur, h) ==
    /\ next_segment_id < MaxSegments
    /\ LET work == PrepareFlush(m, next_segment_id, h) IN
       /\ manifest' = Append(manifest, Execute(work))
       /\ next_segment_id' = next_segment_id + 1
       /\ memtable' = Remaining(m, work.flushed_max_lsn)
       /\ wal' = RetireOthers(w, cur)
       /\ durable' = Len(h)

\* The end of write_entry and of its caller: memtable insert, and for put the
\* auto-flush; d is the durable length the WAL work so far guarantees.
Apply(k, e, auto, w, cur, d) ==
    LET m == Insert(memtable, k, e)
        h == Append(hist, HistRec(k, e, TRUE, 0))
    IN /\ hist' = h
       /\ current_wal' = cur
       /\ IF auto /\ Cardinality(Live(m)) >= MemMax
          THEN FlushAll(m, w, cur, h)
          ELSE /\ memtable' = m
               /\ wal' = w
               /\ durable' = d
               /\ UNCHANGED <<manifest, next_segment_id>>

(***************************************************************************)
(* write_entry / delete_inner: take an LSN, append to the WAL, rotate when *)
(* the file is too large or too old, insert into the memtable.  Rotation   *)
(* names the new file after the LSN just taken; when a file of that name   *)
(* exists, create_new fails and the call returns the error with the record *)
(* already logged and synced and the memtable untouched.                   *)
(***************************************************************************)
WriteEntry(k, op, auto) ==
    /\ up /\ ~ReadOnly
    /\ issued < MaxWrites
    /\ issued' = issued + 1
    /\ lsn_counter' = lsn_counter + 1
    /\ LET e == [op |-> op, lsn |-> lsn_counter + 1, val |-> issued + 1]
           logged == Append1(wal, current_wal, k, e)
           synced == Fsync(logged, current_wal)
           name == NextWalPath(lsn_counter + 1)
       IN \/ /\ UNCHANGED rotations
             /\ Apply(k, e, auto, logged, current_wal, durable)
          \/ /\ rotations < MaxRotations
             /\ rotations' = rotations + 1
             /\ name \notin DOMAIN wal
             /\ Apply(k, e, auto, Create(synced, name), name, Len(hist) + 1)
          \/ /\ rotations < MaxRotations
             /\ rotations' = rotations + 1
             /\ name \in DOMAIN wal
             /\ wal' = synced
             /\ hist' = Append(hist, HistRec(k, e, FALSE, 0))
             /\ durable' = Len(hist')
             /\ UNCHANGED <<current_wal, memtable, manifest, next_segment_id>>
    /\ UNCHANGED <<up, flushes, restarts>>

put(k)          == WriteEntry(k, "Put", TRUE)
put_with_ttl(k) == WriteEntry(k, "Put", FALSE)
delete(k)       == WriteEntry(k, "Delete", FALSE)

\* Engine::flush: fsync of the current WAL file.
flush ==
    /\ up
    /\ wal[current_wal].synced < Len(wal[current_wal].recs)
    /\ wal' = Fsync(wal, current_wal)
    /\ durable' = Len(hist)
    /\ UNCHANGED <<up, current_wal, lsn_counter, memtable, segVars, rotations, restarts, issued, hist>>
-----------------------------------------------------------------------------
(***************************************************************************)
(* Transactions: the pending records of a Transaction, committed in order. *)
(***************************************************************************)
Batches == UNION {[1..n -> [key : Keys, op : Op]] : n \in 0..MaxTx}

TxEntry(ops, i) == [op |-> ops[i].op, lsn |-> lsn_counter + i, val |-> issued + i]

LogBatch(w, cur, ops, j) ==
    [w EXCEPT ![cur].recs = @ \o [i \in 1..j |-> [key |-> ops[i].key, entry |-> TxEntry(ops, i)]]]

HistBatch(ops, j) ==
    hist \o [i \in 1..j |-> HistRec(ops[i].key, TxEntry(ops, i), TRUE, Len(ops) - i)]

InsertBatch(m, ops) ==
    [k \in Keys |->
       LET mine == {i \in DOMAIN ops : ops[i].key = k} IN
       IF mine = {} THEN m[k] ELSE TxEntry(ops, Max(mine))]

\* commit_transaction: not guarded by readonly.  Every record is logged and
\* inserted, then one fsync, then the rotation check; a rotation that finds its
\* name taken makes the call fail with everything already applied.
commit_transaction(ops) ==
    /\ up
    /\ issued + Len(ops) <= MaxWrites
    /\ issued' = issued + Len(ops)
    /\ lsn_counter' = lsn_counter + Len(ops)
    /\ memtable' = InsertBatch(memtable, ops)
    /\ hist' = HistBatch(ops, Len(ops))
    /\ durable' = Len(hist')
    /\ LET synced == Fsync(LogBatch(wal, current_wal, ops, Len(ops)), current_wal)
           name == NextWalPath(lsn_counter + Len(ops))
       IN \/ /\ wal' = synced
             /\ UNCHANGED <<current_wal, rotations>>
          \/ /\ rotations < MaxRotations
             /\ rotations' = rotations + 1
             /\ name \notin DOMAIN wal
             /\ wal' = Create(synced, name)
             /\ current_wal' = name
          \/ /\ rotations < MaxRotations
             /\ rotations' = rotations + 1
             /\ name \in DOMAIN wal
             /\ wal' = synced
             /\ UNCHANGED current_wal
    /\ UNCHANGED <<up, segVars, restarts>>
-----------------------------------------------------------------------------
(***************************************************************************)
(* The flush to a segment: in one call on the blocking Engine, in three    *)
(* phases through AsyncEngine, where other calls run during phase 2.       *)
(***************************************************************************)
flush_to_segments ==
    /\ up
    /\ MaxInFlight = 0
    /\ Live(memtable) # {}
    /\ FlushAll(memtable, wal, current_wal, hist)
    /\ UNCHANGED <<up, current_wal, lsn_counter, flushes, rotations, restarts, issued, hist>>

begin_flush ==
    /\ up
    /\ Cardinality(flushes) < MaxInFlight
    /\ next_segment_id < MaxSegments
    /\ Live(memtable) # {}
    /\ flushes' = flushes \cup {PrepareFlush(memtable, next_segment_id, hist)}
    /\ next_segment_id' = next_segment_id + 1
    /\ UNCHANGED <<up, walVars, memtable, manifest, rotations, restarts, auxVars>>

finalize_flush(work) ==
    /\ up
    /\ manifest' = Append(manifest, Execute(work))
    /\ memtable' = Remaining(memtable, work.flushed_max_lsn)
    /\ wal' = RetireOthers(wal, current_wal)
    /\ flushes' = flushes \ {work}
    /\ durable' = Max({durable, work.upto})
    /\ UNCHANGED <<up, current_wal, lsn_counter, next_segment_id, rotations, restarts, issued, hist>>

\* Phase 2 fails, or the task running it is dropped: the reserved id is skipped.
abort_flush(work) ==
    /\ up
    /\ flushes' = flushes \ {work}
    /\ UNCHANGED <<up, walVars, memtable, manifest, next_segment_id, rotations, restarts, auxVars>>
-----------------------------------------------------------------------------
(***************************************************************************)
(* The end of a session and Engine::open.                                  *)
(***************************************************************************)
Truncate(f, n) == [recs |-> SubSeq(f.recs, 1, Max({n, 0})), synced |-> n, hdr |-> n >= 0]

\* What may be left of WAL files w: a clean close fsyncs the current file, a
\* kill leaves the page cache ("kill"), a power failure may drop records no
\* fsync covered ("tail") and the header of a file never fsynced ("torn").
Survivors(w, cur, kind) ==
    CASE kind = "close" -> {Fsync(w, cur)}
      [] kind = "kill"  -> {w}
      [] OTHER ->
           LET floor == IF kind = "torn" THEN -1 ELSE 0 IN
           {[n \in DOMAIN w |-> Truncate(w[n], keep[n])] :
              keep \in {c \in [DOMAIN w -> -1..MaxWrites] :
                          \A n \in DOMAIN w : c[n] \in Max({floor, w[n].synced})..Len(w[n].recs)}}

Vals(w) == UNION {{w[n].recs[i].entry.val : i \in DOMAIN w[n].recs} : n \in DOMAIN w}

\* How much of history h survives when WAL files w become s.
Kept(h, d, w, s) ==
    LET lost == {i \in DOMAIN h : h[i].val \in Vals(w) \ Vals(s)} IN
    IF lost = {} THEN Len(h) ELSE Max({d, Min(lost) - 1})

\* SegmentStore::open: one past the largest id the manifest lists.
NextIdReused(segs) == Max({segs[i].id : i \in DOMAIN segs} \cup {0})
NextId(segs) == Max({segs[i].id + 1 : i \in DOMAIN segs} \cup {0})

\* Engine::open on the files left: replay everything, then append to the file
\* with the largest name, or to a new one when that file is full.
Open(s, segs) ==
    LET last == Max(DOMAIN s)
        name == NextWalPath(RecoveredLsn(s) + 1)
    IN /\ memtable' = Replay(s)
       /\ lsn_counter' = RecoveredLsn(s)
       /\ manifest' = segs
       /\ next_segment_id' = NextId(segs)
       /\ flushes' = {}
       /\ \/ /\ up' = s[last].hdr
             /\ wal' = s
             /\ current_wal' = last
          \/ /\ s[last].recs # <<>>
             /\ up' = (name \notin DOMAIN s)
             /\ wal' = IF up' THEN Create(s, name) ELSE s
             /\ current_wal' = IF up' THEN name ELSE last

Restart(kind, w, cur, segs, h, d) ==
    /\ up
    /\ restarts < MaxRestarts
    /\ restarts' = restarts + 1
    /\ \E s \in Survivors(w, cur, kind) :
          /\ Open(s, segs)
          /\ hist' = SubSeq(h, 1, Kept(h, d, w, s))
          /\ durable' = IF kind = "kill" THEN d ELSE Len(hist')
    /\ UNCHANGED rotations

\* The session ends between two calls.
Reopen(kind) ==
    /\ Restart(kind, wal, current_wal, manifest, hist, durable)
    /\ UNCHANGED issued

\* The session ends after j records of a batch are logged, before the fsync
\* and before any rotation; with one record this is a crash inside put or delete.
CrashInCommit(kind, ops, j) ==
    /\ issued + Len(ops) <= MaxWrites
    /\ issued' = issued + j
    /\ Restart(kind, LogBatch(wal, current_wal, ops, j), current_wal, manifest,
               HistBatch(ops, j), durable)

\* The session ends in phase 3, after the manifest entry is fsynced and after
\* the WAL files named below cut have been deleted.
CrashInFinalize(kind, work, cut) ==
    LET left == [n \in {x \in DOMAIN wal : x = current_wal \/ x >= cut} |-> wal[n]] IN
    /\ Restart(kind, left, current_wal, Append(manifest, Execute(work)), hist,
               Max({durable, work.upto}))
    /\ UNCHANGED issued

\* The work package of a flush that is being finalized.
FlushableWork ==
    flushes \cup
    (IF MaxInFlight = 0 /\ Live(memtable) # {} /\ next_segment_id < MaxSegments
     THEN {PrepareFlush(memtable, next_segment_id, hist)} ELSE {})

Next ==
    \/ \E k \in Keys : put(k) \/ put_with_ttl(k) \/ delete(k)
    \/ flush
    \/ \E ops \in Batches : commit_transaction(ops)
    \/ flush_to_segments
    \/ begin_flush
    \/ \E work \in flushes : finalize_flush(work) \/ abort_flush(work)
    \/ \E kind \in CrashKinds : Reopen(kind)
    \/ \E kind \in CrashKinds \ {"close"}, ops \in Batches :
          \E j \in DOMAIN ops : CrashInCommit(kind, ops, j)
    \/ \E kind \in CrashKinds \ {"close"} :
          \E work \in FlushableWork, cut \in DOMAIN wal : CrashInFinalize(kind, work, cut)

Spec == Init /\ [][Next]_vars
-----------------------------------------------------------------------------
(***************************************************************************)
(* Properties.                                                             *)
(***************************************************************************)
HistEntry == [key : Keys, op : Op, val : Nat, applied : BOOLEAN, rest : Nat]

\* Every variable has the type of the field it models; the file being written
\* is one of the files on disk.
TypeOK ==
    /\ up \in BOOLEAN
    /\ DOMAIN wal \subseteq Nat
    /\ \A n \in DOMAIN wal : wal[n] \in WalFile
    /\ current_wal \in DOMAIN wal
    /\ memtable \in MemEntries
    /\ lsn_counter \in Nat
    /\ manifest \in Seq(Segment)
    /\ next_segment_id \in Nat
    /\ flushes \subseteq FlushWork
    /\ rotations \in Nat /\ restarts \in Nat
    /\ issued \in Nat
    /\ hist \in Seq(HistEntry)
    /\ durable \in Nat

\* The segment ids in the manifest and those reserved by flushes in flight are
\* pairwise distinct and below next_segment_id, so no flush overwrites the files
\* of another (the comment on prepare_flush).
SegmentIdsUnique ==
    /\ \A i, j \in DOMAIN manifest : manifest[i].id = manifest[j].id => i = j
    /\ \A i \in DOMAIN manifest : manifest[i].id < next_segment_id
    /\ \A w \in flushes : w.id < next_segment_id /\ \A i \in DOMAIN manifest : w.id # manifest[i].id
    /\ \A v, w \in flushes : v.id = w.id => v = w

\* Within a session an entry leaves the memtable only for a newer entry of its
\* key or because a registered segment holds exactly that entry
\* (finalize_flush: entries above flushed_max_lsn are retained).
FlushKeepsWrites ==
    [][restarts' = restarts =>
         \A k \in Keys :
            memtable[k] # NoEntry /\ memtable'[k] # memtable[k] =>
               \/ memtable'[k] # NoEntry /\ memtable'[k].lsn > memtable[k].lsn
               \/ \E i \in DOMAIN manifest' :
                     \/ manifest'[i].ents[k] = memtable[k]
                     \/ i > Len(manifest) /\ manifest'[i].ents[k] # NoEntry
                        /\ manifest'[i].ents[k].lsn > memtable[k].lsn]_vars

\* Every entry of the memtable is backed by its record in a WAL file on disk:
\* a WAL file is retired only when what it holds is in a segment.
WalCoversMemtable ==
    \A k \in Keys : memtable[k] # NoEntry =>
        \E n \in DOMAIN wal : \E i \in DOMAIN wal[n].recs :
            wal[n].recs[i] = [key |-> k, entry |-> memtable[k]]

Store == INSTANCE DurableStore WITH view <- [k \in Keys |-> Get(memtable, manifest, k)]

\* Reads, fsync, flushes, commits and restarts behave as DurableStore says: a
\* flush changes no read, a crash loses at most an undurable suffix.
RefinesDurableStore == Store!Spec

\* If the process were killed now, replay and the manifest would show each key
\* as its last write left it.
KillLosesNothing ==
    \A k \in Keys : Get(Replay(wal), manifest, k) \in Store!Outcomes(hist, k)

\* Replay order is write order: recovery.rs takes file-name order to be
\* chronological.
WalNamesChronological ==
    \A m, n \in DOMAIN wal : m < n =>
        \A i \in DOMAIN wal[m].recs, j \in DOMAIN wal[n].recs :
            wal[m].recs[i].entry.val < wal[n].recs[j].entry.val

\* No key is assigned a lower LSN than an earlier write of it, also by a session that
\* rebuilt its LSN counter from a WAL with all records, puts and deletes, of what was
\* flushed.  (Once a flush has retired files, the counter can come back lower and the
\* property fails.)
LsnMonotonic ==
    \A k \in Keys, i \in DOMAIN manifest :
        LET old == manifest[i].ents[k] IN
        memtable[k] # NoEntry /\ old # NoEntry /\ memtable[k].val > old.val
            => memtable[k].lsn > old.lsn
=============================================================================
