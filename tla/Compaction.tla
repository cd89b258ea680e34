----------------------------- MODULE Compaction -----------------------------
(***************************************************************************)
(* SegmentStore, Manifest, Compactor and Snapshot: segment files, the      *)
(* manifest that lists them, flushes that add one, compaction cycles that  *)
(* rewrite or drop them by deathtime cohort, and snapshots that pin them.  *)
(*                                                                         *)
(* compact_once holds the engine's exclusive borrow, yet phase 2 of a      *)
(* flush, snapshot reads and the drop of a snapshot go on beside it and a  *)
(* crash can hit between any two of its disk writes, so a cycle is one     *)
(* action per disk write.  The memtable and the WAL are module Engine's:   *)
(* here a flush brings a batch of fresh entries.                           *)
(*                                                                         *)
(* A definition placed right before another one with the same parameters   *)
(* is a variant with a plausible bug, used to test the properties.         *)
(***************************************************************************)
EXTENDS Integers, Sequences, FiniteSets, FiniteSetsExt, Functions, SeqRetain

CONSTANTS
    Keys,            \* encoded keys; positive, since a segment is sorted by key and they number LSNs
    NoEntry,         \* "no entry for this key"
    Absent,          \* Ok(None)
    IoError,         \* Err: a segment file is missing
    Ttls,            \* the ttl values clients use, in seconds
    CohortWindow,    \* cohort_window_secs
    WriteBudget,     \* compaction_write_budget_bytes, in output segments
    Serialized,      \* TRUE: the caller never compacts while a flush is in flight
    MaxInFlight,     \* flushes between phase 1 and phase 3
    MaxFlushes,      \* bound: flushes ever begun
    MaxCycles,       \* bound: compaction cycles
    MaxSnapshots,    \* bound: snapshots ever taken
    MaxTime,         \* bound: the clock
    MaxRestarts      \* bound: times the store is opened again

ASSUME ConstantsAssumption ==
    /\ Keys \subseteq Nat \ {0} /\ Keys # {} /\ IsFiniteSet(Keys)
    /\ Ttls \subseteq Nat
    /\ CohortWindow \in Nat \ {0}
    /\ Serialized \in BOOLEAN
    /\ {WriteBudget, MaxInFlight, MaxFlushes, MaxCycles, MaxSnapshots, MaxTime, MaxRestarts}
          \subseteq Nat
    /\ \A x \in {NoEntry, IoError} : x \notin [op : {"Put", "Delete"}, lsn : Nat, timestamp : Nat, ttl : Nat]
    /\ IoError # NoEntry

VARIABLES
    now,              \* wall clock, in seconds
    lsn_counter,
    files,            \* segment id -> entries: the segment files on disk
    manifest,         \* SegmentMeta of the live segments, in manifest order
    readers,          \* SegmentStore::readers: open segments, oldest first
    next_segment_id,
    flushes,          \* FlushWork between prepare_flush and finalize_segment
    snapshots,        \* live Snapshots
    comp,             \* the compaction cycle in progress
    counts,           \* what the bounds count
    latest            \* auxiliary: the entry of each key last flushed

segVars  == <<files, manifest, readers, next_segment_id>>
vars == <<now, lsn_counter, segVars, flushes, snapshots, comp, counts, latest>>

Entry   == [op : {"Put", "Delete"}, lsn : Nat, timestamp : Nat, ttl : Nat]
Entries == [Keys -> Entry \cup {NoEntry}]
Meta    == [id : Nat, bucket : Nat, death : Nat]
Reader  == [id : Nat, keys : SUBSET Keys]
Cohort  == [ids : Seq(Nat), death : Nat]
Work    == [id : Nat, ents : Entries, written : BOOLEAN]

Live(ents) == {k \in Keys : ents[k] # NoEntry}

SeqIds(metas) == {metas[i].id : i \in DOMAIN metas}
-----------------------------------------------------------------------------
(***************************************************************************)
(* Death times, cohorts and segment metadata.                              *)
(***************************************************************************)
\* A record without a ttl dies one cohort window after it was written.
DeathTimeForAligned(e) == e.timestamp + e.ttl - CohortWindow
DeathTimeFor(e) == e.timestamp + (IF e.ttl > 0 THEN e.ttl ELSE CohortWindow)

CohortBucketFor(e) == (e.timestamp + e.ttl) \div CohortWindow

\* SegmentWriter::flush: the bucket of the first key, the latest death time.
MetaOf(id, ents) ==
    [id |-> id,
     bucket |-> CohortBucketFor(ents[Min(Live(ents))]),
     death |-> Max({DeathTimeFor(ents[k]) : k \in Live(ents)})]

PutFile(fs, id, ents) == [i \in DOMAIN fs \cup {id} |-> IF i = id THEN ents ELSE fs[i]]

OpenReader(id, fs) == [id |-> id, keys |-> Live(fs[id])]

\* SegmentStore::open and Manifest::open.
OpenReaders(metas, fs) == [i \in DOMAIN metas |-> OpenReader(metas[i].id, fs)]

NextId(metas) == Max({metas[i].id + 1 : i \in DOMAIN metas} \cup {0})
-----------------------------------------------------------------------------
(***************************************************************************)
(* Reads.  A reader keeps the filter and index it loaded at open and reads *)
(* the data file again on every call.                                      *)
(***************************************************************************)
ReaderGet(r, fs, k) ==
    IF k \notin r.keys THEN NoEntry
    ELSE IF r.id \notin DOMAIN fs THEN IoError ELSE fs[r.id][k]

Visible(e) == IF e = IoError THEN IoError ELSE IF e = NoEntry \/ e.op = "Delete" THEN Absent ELSE e.lsn

\* SegmentStore::get: the last registered hit wins.
SegmentGet(rs, fs, k) ==
    LET hits == {i \in DOMAIN rs : ReaderGet(rs[i], fs, k) # NoEntry} IN
    IF hits = {} THEN NoEntry ELSE ReaderGet(rs[Max(hits)], fs, k)

\* Snapshot::get: the highest LSN wins; an error of any reader is returned.
\* Snapshot::range merges each key the same way.
SnapshotGet(rs, fs, k) ==
    LET found == {ReaderGet(rs[i], fs, k) : i \in DOMAIN rs} \ {NoEntry} IN
    IF found = {} THEN NoEntry
    ELSE IF IoError \in found THEN IoError
    ELSE CHOOSE e \in found : \A f \in found : f.lsn <= e.lsn

\* What get would return if the store were opened again now.
DiskGet(k) == SegmentGet(OpenReaders(manifest, files), files, k)
-----------------------------------------------------------------------------
Idle == [phase |-> "idle", todo |-> {}, ids |-> <<>>, out |-> {}, dead |-> <<>>,
         next |-> 0, written |-> 0, at |-> 0]

Init ==
    /\ now = 0
    /\ lsn_counter = 0
    /\ files = <<>>
    /\ manifest = <<>>
    /\ readers = <<>>
    /\ next_segment_id = 0
    /\ flushes = {}
    /\ snapshots = {}
    /\ comp = Idle
    /\ counts = [flushes |-> 0, cycles |-> 0, snapshots |-> 0, restarts |-> 0]
    /\ latest = [k \in Keys |-> NoEntry]

Unlocked == comp.phase = "idle"

\* A cycle reads the clock once, so time passing during it is as good as after it.
Tick ==
    /\ Unlocked
    /\ now < MaxTime
    /\ now' = now + 1
    /\ UNCHANGED <<lsn_counter, segVars, flushes, snapshots, comp, counts, latest>>

(***************************************************************************)
(* Flushes.                                                                *)
(***************************************************************************)
\* The writes in a memtable about to be flushed: for some keys a put or a delete.
Ops == {[op |-> "Put", ttl |-> t] : t \in Ttls} \cup {[op |-> "Delete", ttl |-> 0]}
Batches == UNION {[ks -> Ops] : ks \in (SUBSET Keys) \ {{}}}

BatchEntries(b) ==
    [k \in Keys |->
       IF k \in DOMAIN b
       THEN [op |-> b[k].op, lsn |-> lsn_counter + k, timestamp |-> now, ttl |-> b[k].ttl]
       ELSE NoEntry]

prepare_flush(b) ==
    /\ Unlocked
    /\ Cardinality(flushes) < MaxInFlight
    /\ counts.flushes < MaxFlushes
    /\ counts' = [counts EXCEPT !.flushes = @ + 1]
    /\ lsn_counter' = lsn_counter + Max(Keys)
    /\ flushes' = flushes \cup {[id |-> next_segment_id, ents |-> BatchEntries(b), written |-> FALSE]}
    /\ next_segment_id' = next_segment_id + 1
    /\ UNCHANGED <<now, files, manifest, readers, snapshots, comp, latest>>

\* FlushWork::execute, without any lock.  File::create truncates a file of that name.
execute(w) ==
    /\ ~w.written
    /\ flushes' = (flushes \ {w}) \cup {[w EXCEPT !.written = TRUE]}
    /\ files' = PutFile(files, w.id, w.ents)
    /\ UNCHANGED <<now, lsn_counter, manifest, readers, next_segment_id, snapshots, comp, counts, latest>>

\* The reader is opened from the files of that id, whatever they hold by now.
finalize_segment(w) ==
    /\ Unlocked
    /\ w.written
    /\ w.id \in DOMAIN files
    /\ flushes' = flushes \ {w}
    /\ manifest' = Append(manifest, MetaOf(w.id, w.ents))
    /\ readers' = Append(readers, OpenReader(w.id, files))
    /\ latest' = [k \in Keys |-> IF w.ents[k] # NoEntry THEN w.ents[k] ELSE latest[k]]
    /\ UNCHANGED <<now, lsn_counter, files, next_segment_id, snapshots, comp, counts>>

\* Phase 2 fails, before or after it wrote the files: they are left behind.
abort_flush(w) ==
    /\ flushes' = flushes \ {w}
    /\ UNCHANGED <<now, lsn_counter, segVars, snapshots, comp, counts, latest>>
-----------------------------------------------------------------------------
(***************************************************************************)
(* Snapshots.                                                              *)
(***************************************************************************)
snapshot ==
    /\ Unlocked
    /\ counts.snapshots < MaxSnapshots
    /\ counts' = [counts EXCEPT !.snapshots = @ + 1]
    /\ snapshots' = snapshots \cup
         {[id |-> counts.snapshots + 1, readers |-> readers,
           seen |-> [k \in Keys |-> Visible(SnapshotGet(readers, files, k))]]}
    /\ UNCHANGED <<now, lsn_counter, segVars, flushes, comp, latest>>

\* Drop for Snapshot takes the registry's lock only.
drop_snapshot(s) ==
    /\ snapshots' = snapshots \ {s}
    /\ UNCHANGED <<now, lsn_counter, segVars, flushes, comp, counts, latest>>

PinnedIds == UNION {SeqIds(s.readers) : s \in snapshots}
-----------------------------------------------------------------------------
(***************************************************************************)
(* Compaction.                                                             *)
(***************************************************************************)
\* The segments no live snapshot pins, grouped by bucket in manifest order.
IdentifyCohortsAll(metas, pinned) ==
    {[ids |-> [i \in DOMAIN g |-> g[i].id], death |-> Max({g[i].death : i \in DOMAIN g})] :
        g \in {Retain(metas, {i \in DOMAIN metas : metas[i].bucket = b}) :
                 b \in {metas[i].bucket : i \in DOMAIN metas}}}
IdentifyCohorts(metas, pinned) ==
    LET free == {i \in DOMAIN metas : metas[i].id \notin pinned}
        group(b) == Retain(metas, {i \in free : metas[i].bucket = b})
    IN {[ids |-> [i \in DOMAIN g |-> g[i].id], death |-> Max({g[i].death : i \in DOMAIN g})] :
          g \in {group(b) : b \in {metas[i].bucket : i \in free}}}

\* Dead cohorts are also the ones that die first, so the sort is by death time;
\* a tie falls in the order of a HashMap.
IsNextCohort(c, todo) == c \in todo /\ \A d \in todo : c.death <= d.death

\* The entry with the highest LSN of each key over the segments of a cohort.
Merged(ids, fs) ==
    [k \in Keys |->
       LET found == {fs[ids[i]][k] : i \in DOMAIN ids} \ {NoEntry} IN
       IF found = {} THEN NoEntry ELSE CHOOSE e \in found : \A f \in found : f.lsn <= e.lsn]

\* Every tombstone and every record past its death time is dropped.
Survivors(ids, fs, at) ==
    LET m == Merged(ids, fs) IN
    [k \in Keys |->
       IF m[k] # NoEntry /\ m[k].op = "Put" /\ DeathTimeFor(m[k]) > at THEN m[k] ELSE NoEntry]

CompactionIdStale(metas) == Max({metas[i].id : i \in DOMAIN metas} \cup {0})
CompactionId(metas) == Max({metas[i].id : i \in DOMAIN metas} \cup {0}) + 1

\* Old segments leave the manifest before their files are deleted.
PhaseOrderFilesFirst == <<"delete", "remove">>
PhaseOrder == <<"remove", "delete">>
FirstPhase == PhaseOrder[1]
After(phase) == IF phase = FirstPhase THEN PhaseOrder[2] ELSE "next"

compact_once ==
    /\ Unlocked
    /\ Serialized => flushes = {}
    /\ counts.cycles < MaxCycles
    /\ manifest # <<>>
    /\ counts' = [counts EXCEPT !.cycles = @ + 1]
    /\ comp' = [Idle EXCEPT !.phase = "next", !.todo = IdentifyCohorts(manifest, PinnedIds),
                            !.next = CompactionId(manifest), !.at = now]
    /\ UNCHANGED <<now, lsn_counter, segVars, flushes, snapshots, latest>>

\* The head of the cohort loop: an expired cohort, or one without survivors, goes
\* straight to removal; otherwise the survivors are written to a new segment.
take_cohort(c) ==
    /\ comp.phase = "next"
    /\ comp.written < WriteBudget
    /\ IsNextCohort(c, comp.todo)
    /\ LET s == Survivors(c.ids, files, comp.at)
           rest == [comp EXCEPT !.todo = @ \ {c}, !.ids = c.ids, !.dead = c.ids, !.out = {}]
       IN \/ /\ comp.at > c.death
             /\ comp' = [rest EXCEPT !.phase = FirstPhase]
             /\ UNCHANGED files
          \/ /\ comp.at <= c.death
             /\ Live(s) = {}
             /\ comp' = [rest EXCEPT !.phase = FirstPhase, !.next = @ + 1]
             /\ UNCHANGED files
          \/ /\ comp.at <= c.death
             /\ Live(s) # {}
             /\ files' = PutFile(files, comp.next, s)
             /\ comp' = [rest EXCEPT !.phase = "add", !.out = {comp.next}, !.next = @ + 1]
    /\ UNCHANGED <<now, lsn_counter, manifest, readers, next_segment_id, flushes, snapshots, counts, latest>>

\* manifest.add_segment of the output.
add_output ==
    /\ comp.phase = "add"
    /\ LET id == CHOOSE i \in comp.out : TRUE IN
       manifest' = Append(manifest, MetaOf(id, files[id]))
    /\ comp' = [comp EXCEPT !.phase = FirstPhase, !.written = @ + 1]
    /\ UNCHANGED <<now, lsn_counter, files, readers, next_segment_id, flushes, snapshots, counts, latest>>

\* manifest.remove_segments: one Remove frame after the other, oldest first.
NextRemovedNewest(ids) == ids[Len(ids)]
NextRemoved(ids) == Head(ids)

remove_old ==
    /\ comp.phase = "remove"
    /\ LET id == NextRemoved(comp.ids) IN
       /\ manifest' = Retain(manifest, {i \in DOMAIN manifest : manifest[i].id # id})
       /\ LET left == Retain(comp.ids, {i \in DOMAIN comp.ids : comp.ids[i] # id}) IN
          comp' = [comp EXCEPT !.ids = left, !.phase = IF left = <<>> THEN After(@) ELSE @]
    /\ UNCHANGED <<now, lsn_counter, files, readers, next_segment_id, flushes, snapshots, counts, latest>>

delete_files ==
    /\ comp.phase = "delete"
    /\ files' = [i \in DOMAIN files \ {Head(comp.dead)} |-> files[i]]
    /\ comp' = [comp EXCEPT !.dead = Tail(@), !.phase = IF Tail(comp.dead) = <<>> THEN After(@) ELSE @]
    /\ UNCHANGED <<now, lsn_counter, manifest, readers, next_segment_id, flushes, snapshots, counts, latest>>

\* compact_once_inner opens the segment store again.
finish_compaction ==
    /\ comp.phase = "next"
    /\ comp.todo = {} \/ comp.written >= WriteBudget
    /\ comp' = Idle
    /\ readers' = OpenReaders(manifest, files)
    /\ next_segment_id' = NextId(manifest)
    /\ UNCHANGED <<now, lsn_counter, files, manifest, flushes, snapshots, counts, latest>>

\* A kill or a power failure, then SegmentStore::open.
Crash ==
    /\ counts.restarts < MaxRestarts
    /\ counts' = [counts EXCEPT !.restarts = @ + 1]
    /\ SeqIds(manifest) \subseteq DOMAIN files
    /\ flushes' = {}
    /\ snapshots' = {}
    /\ comp' = Idle
    /\ readers' = OpenReaders(manifest, files)
    /\ next_segment_id' = NextId(manifest)
    /\ UNCHANGED <<now, lsn_counter, files, manifest, latest>>

Next ==
    \/ Tick
    \/ \E b \in Batches : prepare_flush(b)
    \/ \E w \in flushes : execute(w) \/ finalize_segment(w) \/ abort_flush(w)
    \/ snapshot
    \/ \E s \in snapshots : drop_snapshot(s)
    \/ compact_once
    \/ \E c \in comp.todo : take_cohort(c)
    \/ add_output
    \/ remove_old
    \/ delete_files
    \/ finish_compaction
    \/ Crash

Spec == Init /\ [][Next]_vars
-----------------------------------------------------------------------------
(***************************************************************************)
(* Properties.                                                             *)
(***************************************************************************)
\* Every variable has the type of the field it models.
TypeOK ==
    /\ now \in Nat /\ lsn_counter \in Nat /\ next_segment_id \in Nat
    /\ DOMAIN files \subseteq Nat
    /\ \A i \in DOMAIN files : files[i] \in Entries
    /\ manifest \in Seq(Meta)
    /\ readers \in Seq(Reader)
    /\ flushes \subseteq Work
    /\ \A s \in snapshots : s.id \in Nat /\ s.readers \in Seq(Reader)
    /\ comp.phase \in {"idle", "next", "add", "remove", "delete"}
    /\ comp.todo \subseteq Cohort
    /\ comp.ids \in Seq(Nat) /\ comp.dead \in Seq(Nat)
    /\ latest \in Entries

\* A live snapshot keeps answering as it did when it was taken, through flushes
\* and compaction (compact_once: pinned segments are never removed or rewritten).
SnapshotReadable ==
    \A s \in snapshots, k \in Keys : Visible(SnapshotGet(s.readers, files, k)) = s.seen[k]

\* Every segment the manifest lists has its files, between any two disk writes
\* of a cycle: SegmentStore::open succeeds after a crash anywhere
\* (collect_expired_cohort: manifest updated before file deletion).
ManifestHasFiles == SeqIds(manifest) \subseteq DOMAIN files

\* No two live segments and no live segment and flush in flight share an id
\* (prepare_flush: concurrent callers cannot reuse the same ID).
SegmentIdsDistinct ==
    /\ \A i, j \in DOMAIN manifest : manifest[i].id = manifest[j].id => i = j
    /\ \A w \in flushes : w.id \notin SeqIds(manifest) \cup comp.out

Holders(k) == {i \in DOMAIN manifest : files[manifest[i].id][k] # NoEntry}

\* Every version of k is in the cohort being compacted, whose segments hold
\* them in LSN order.
Confined(k) ==
    /\ \A i \in Holders(k) : manifest[i].id \in Range(comp.dead) \cup comp.out
    /\ \A i, j \in {x \in DOMAIN comp.dead : comp.dead[x] \in DOMAIN files} :
          LET e == files[comp.dead[i]][k]
              f == files[comp.dead[j]][k]
          IN i <= j /\ e # NoEntry /\ f # NoEntry => e.lsn <= f.lsn

Expired(e) == e \in Entry /\ DeathTimeFor(e) <= comp.at

\* No disk write of a cycle changes what get returns for a key whose versions
\* are all in the cohort being compacted, except that an expired record goes:
\* so a crash between any two of them changes no read either.
CompactionKeepsReads ==
    [][~Unlocked =>
         \A k \in Keys : Confined(k) =>
            \/ Visible(DiskGet(k))' = Visible(DiskGet(k))
            \/ Expired(DiskGet(k)) /\ Visible(DiskGet(k))' = Absent]_vars

\* A deleted key stays deleted whatever compaction removes.
TombstonesDurable ==
    \A k \in Keys : Unlocked /\ latest[k] # NoEntry /\ latest[k].op = "Delete"
        => Visible(DiskGet(k)) = Absent
=============================================================================
