# A TLA+ model of edgestore

edgestore is an embedded key-value store in Rust: a write-ahead log, a memtable,
immutable sorted segments, deathtime-cohort compaction, snapshots, replication
by segment exchange, a cold tier, and text and vector indexes on top of the KV
layer. This directory holds TLA+ modules of these parts, the TLC configurations that
check them on small instances, and TLAPS proofs about all of them but the vector index.
`PROJECT.json` maps every definition to the source lines it models and lists the
runs, the findings and the hazards.

## 1. Inventory

| Component | State | Operations | Hard part |
|---|---|---|---|
| `Engine` (`edgestore/src/engine/mod.rs`) | memtable, LSN counter, current WAL writer, segment store | put, put_with_ttl, delete, get, flush (fsync), flush_to_segments in three phases, commit_transaction, open, drop | phase 2 runs without the lock; a crash can hit inside any call |
| WAL and recovery (`wal.rs`, `recovery.rs`) | files named by LSN, records, what has been fsynced | create, append, fsync, rotate, retire, replay | name order against write order, unsynced tails, torn frames |
| Memtable (`memtable.rs`) | key to newest entry | insert, get, iterate | rebuilt while flushes are in flight |
| Segment store and manifest (`segment.rs`, `manifest.rs`) | manifest list, open readers, next id, files | prepare, execute, finalize, get, remove, open | registration order decides reads; ids reserved across unlocks |
| Compactor (`compactor.rs`) | none beyond the manifest | cohorts, rewrite, collect | many disk writes in a row, tombstones, expiry, the write budget |
| Snapshots (`snapshot.rs`) | pinned ids, cloned readers | register, get, range, release | files are read by path while compaction deletes them |
| Transactions (`transaction.rs`) | pending records | put, delete, commit, rollback | atomicity across a crash |
| `AsyncEngine` (`edgestore-tokio`) | a read/write lock around Engine | every call, the phased flush | interleaving of phases with other calls |
| Scans (`engine/mod.rs`, `segment.rs`) | none | range, prefix, pages forward and back | budgets, tombstones at page ends |
| Replication (`engine/replication.rs`, `edgestore-repl`) | peer cursors, imported segments, fencing token | import, diff, Merkle compare, pull loop, promotion | last-writer-wins against registration order, lost and repeated fetches |
| Tiering (`edgestore-tier`, `edgestore-tokio/src/tiered.rs`) | archived list, fetched set, byte cache | archive, strip, prune, fetch | partial failure, retries, cache accounting |
| Text and vector indexes (`edgestore-text`, `edgestore/src/vector`) | postings, HNSW graph, sidecars | index, delete, search, persist | index against data across crashes |
| CLI, storage backends, metrics, configuration | - | - | I/O and parsing only |

Calls go downward: AsyncEngine takes its lock and calls Engine; Engine owns WAL,
memtable and SegmentStore; `compact_once` opens a second Manifest handle, runs the
Compactor and reopens the SegmentStore; snapshots share segment files and the pin
registry with it. The indexes store their data as ordinary keys of the Engine.

What makes each part correct:

- Engine: reads return the last write; a flush changes no read; a crash loses at
  most an unacknowledged suffix; no write is lost between the phases of a flush.
- WAL: replay order is write order; a file goes only when its content is in a
  segment; what an fsync covered is found again wherever the file is cut.
- Segment store: ids are never shared; the manifest lists only what is on disk.
- Compactor: only expired data disappears, at every intermediate point as well.
- Snapshots: answers do not change while the snapshot lives.
- Scans: every read path agrees with `get`; pages lose and repeat nothing.
- Replication: a node never goes back to an older write; a replica converges;
  every failover has a larger token.
- Tiering: the newest value of a key is somewhere, and a read finds it there.
- Indexes: what they answer is what the records in the engine say.

## 2. Modules

| Module | Content |
|---|---|
| `DurableStore` | abstract specification: a history of writes, the durable prefix of it, and the view `get` shows |
| `Engine` | write path, WAL, memtable, flush phases, transactions, crashes and `Engine::open` |
| `EngineProofs` | theorems about `Engine`: types, ids, the flush phases, WAL coverage; the order of writes, file names and LSNs that recovery relies on; the blocking `Engine` implements `DurableStore` |
| `LogFiles` | WAL files and manifest.mf cell by cell: frames, torn writes, fsyncs, I/O errors |
| `LogFilesProofs` | theorems about `LogFiles`: what a power failure leaves of the WAL and of the manifest |
| `Compaction` | segment files, manifest, flush phases, compaction cycles by disk write, snapshots, crashes |
| `CompactionProofs` | theorems about `Compaction`: the store and its snapshots; what a cycle does to reads |
| `Scan` | point reads, range, prefix, snapshot and ImmutableEngine reads, pages in both directions |
| `ScanProofs` | theorems about `Scan` |
| `Replication` | several engines, the pull loop, import, compaction, failover and fencing tokens |
| `ReplicationProofs` | theorems about `Replication` |
| `Tier` | TieredEngine over a local engine and a remote store, its cache and the asynchronous fast paths |
| `TierProofs` | theorems about `Tier` |
| `TextIndex` | tokenizer, inverted index with its Bloom filter, sidecar, search and snippets |
| `TextIndexProofs` | theorems about `TextIndex` |
| `Hnsw`, `VectorIndex` | the graph algorithms; the sidecar, its stamp and cache, and vector_search |
| `SeqRetain` | Vec::retain, in a form the prover can reason about |
| `ListProofs` | lemmas about `Retain`, positions, maxima and sequences that the proof modules share |
| `MC...` | the modules on small instances |

The modules meet in the interfaces they share. Engine and Compaction take a log file
as a sequence of records, and LogFiles says when that is right. Replication and Tier
contain the engine's import_segment, flush and compaction as their own actions, with
the memtable and what a replay of the WAL gives as their state; that a kill loses no
more is what Engine shows. VectorIndex uses Hnsw.

History variables. Some properties hold only up to a known event. The module then
has an auxiliary variable that records that the event has happened, and the property
names it; the actions stay those of the code. Section 6 lists the events, and the
cases that are outside a module or its bounds instead.

### Engine

An action is a call made under the exclusive borrow of the engine, which is what
AsyncEngine's write lock gives; `begin_flush` and `finalize_flush` are separate
because phase 2 holds no lock. `MaxInFlight = 0` is the blocking `Engine`, whose
`flush_to_segments` does the three phases in one call.

State: `wal` maps the LSN in a file's name to its records and to `synced`, the number
of records an fsync has covered (-1: not even the header). `manifest` is the list
of segments in registration order, which is the order `SegmentStore::get` searches
from the back. `flushes` holds the FlushWork packages in flight. `hist`, `durable`
and `issued` are auxiliary: the history `DurableStore` speaks of, and a unique name
(`val`) for every written value.

Abstractions: a value is a number; namespace and key are one key; sizes and ages
that trigger an auto-flush or a rotation are a count (`MemMax`) and a free choice
bounded by `MaxRotations`. A session ends by `close` (drop fsyncs), `kill` (the page
cache survives), `tail` (a power failure drops records no fsync covered) or `torn`
(also an unsynced header); no run uses `torn`. `CrashInCommit` and `CrashInFinalize`
end the session inside a call. Reads, metrics and argument checks change no state
and are not actions; `Get` is the view the refinement maps to. Reads are in Scan.

### LogFiles

A WAL frame is a checksum, a length and payload cells, one cell each, and a file may end
after any cell. `ReadRecords` gives every sequence of records a reader may find: behind
a torn frame it takes a length from whatever cell is there, so the result is a
set. `put`, `put_fails` (write_all stops after any cell, the engine stays open),
`put_killed` (inside WalWriter::create), `flush`, `store_call` (finalize_segment,
remove_segment, replace_segment through the store's manifest handle) and
`store_call_cut`, `compact_once` (through a second handle; the store is reopened) and
`compact_once_fails` (the old handle stays at its offset), `close`, `kill`,
`power_failure` (any prefix that contains the fsynced part), `open` and `open_fails`.
A garbage checksum is taken to be wrong. `flaws` records five events: a WAL frame
behind a torn one (`splice`), Engine::open going on in a new file without an fsync of
the old one (`unsynced`), a manifest frame behind a torn one (`entry`) or over newer
ones (`stale`), and replace_segment cut between Remove and Add (`replace`). Without any
one of these exceptions TLC finds a violation of the property that names it.

### Compaction

A cycle is one action per disk write (`take_cohort` writes the output files,
`add_output` and `remove_old` append manifest frames, `delete_files` unlinks,
`finish_compaction` reopens the store), so that a crash, the drop of a snapshot or
phase 2 of a flush can come between any two. Clients wait for the lock meanwhile.
The four files of a segment are one unit. A reader keeps the keys its filter had
at open and reads the data file again on each call, as SegmentReader does; a missing
file gives `IoError`. The clock counts seconds; the budget counts output segments
(one 4 KiB block each at this size). Memtable and WAL are not in this module: a flush
brings a batch of fresh entries.

`Serialized = TRUE` restricts the environment: the caller never compacts while a
flush is in flight. The code does not enforce it (section 6).

### Scan

Keys are positions in the encoded key order; a segment is a sorted run cut into
blocks with a sparse index, so point reads and cursors meet block and range
edges. `RangeScanBudgeted`, `MergeSortedScans` and `DedupFilterScan` are the three
stages of Engine::range_core and keep its early stop at `max_items`. A client pages
through a range in either direction (`start_paging`, `next_page`, `end_paging`) while
writes and the two ends of a flush come between its pages, because
AsyncEngine::range_page takes the lock anew for each page. The client's record holds
what it could read at the start, without the keys written since, and nothing once a page
was read while a memtable tombstone lay over a live segment key (`Shadowing`).

### Replication

Per node: role, memtable, what a replay of its WAL gives, segments, LSN counter, the round of its anti-entropy loop,
the pending list of its cursor file, and the fencing token in memory and in WTOKEN.
A round is `probe`, `compare`, `list_missing`, then per hash `fetch_ok`,
`fetch_corrupt` or `fetch_failed`, `import_segment`, `record_outcome`, and
`finish_round`: one action for each stretch between two releases of the engine's lock
or two requests. `give_up` is a request that fails. An import ends as Applied, Skipped,
HashMismatch or Rejected: a segment with a put over MAX_BLOCK_DECOMPRESSED (`PutOversized`)
has the right hash and does not parse, nothing of it is applied, and its hash leaves
the pending list all the same. `compact_once` removes imported segments, whose death_time
is 0, and merges the others by LSN. `flush_to_segments` retires the WAL files but the
current one, which a rotation may have begun after any record (`cut`), and whoever is
opened again (`Reopen`, in `restart`, both crashes and `promote_to_primary`) replays the
files left and takes its LSN counter from them. `crash_in_import` logs the records of some
keys and does not register the segment; `crash_in_promote` leaves a truncated
WTOKEN; `promote_to_primary` makes the replica the primary, with or
without the old primary's token. Only promotions that leave at most one writer are
modelled: the old primary returns as a replica or not at all. Timestamps grow
globally, the clock assumption import_segment's comment states. History variables:
`dropped` (tombstones compaction removed, per node), `unheard` (one of them had not
reached the other node), `hidden` (an import was registered over a newer entry),
`rewound` (a reopening lowered the LSN counter; with `hidden`, `Confused`),
`blind` (a promotion did without the old token).

Left out: a WAL file whose name sorts below older ones after such a reset (its records
are replayed in the order they were written); which block of a segment is too large
(`Parses` is of the whole segment); what a compaction does on a node one of whose
own segments does not parse (it fails half-way); the `{hash}.dat` file a rejected
import leaves behind, which nothing reads.

### Tier

`archive_segments` uploads, lists and may strip one segment, `archive_failed` leaves
nothing or a short object, `prune_local_segment`, `get` and `fetch` import archived
segments with any subset of downloads failing, `range` fills the cache, `restart` is
a kill, after which the WAL files a flush has left are replayed and the LSN counter is
taken from them, and register_archived. Reads are operators: `Get` and `RangeGet` for the full
calls, `AsyncGet` and `AsyncRangeGet` for the paths of AsyncTieredEngine that stay
under the read lock when `GetNeedsArchivedFetch` or `RangeNeedsArchivedFetch` says so.
The cache is a sequence in LRU order with its byte count kept apart, as in the code.
One of the two keys belongs to an index namespace, so that a strip leaves the
other. `newest` is the last write of each key, `hidden` and `rewound` as in
Replication, `restarts` counts against its bound. All segments parse, no kill falls inside
a call, and the replay order after a reset is that of the writes, as in Replication.

### TextIndex

One namespace, of several the index has. Words are sequences of letters, so `Levenshtein` is the code's dynamic
programme and is checked against the definition of one edit. `index_document` and
`delete_document` change the cached index first and the engine afterwards, which may
fail; `search` only loads; `restart` drops the cache. `persist(written, ok)` is the loop over
the dirty namespaces seen from this one: its sidecar is written or not, and when the
call fails, here or at another namespace, all stay dirty. A facet or term length is
stored in a field of `LengthMod` values (u16 in the code) with all its bytes behind: an index
whose lengths do not fit (`Fits`) has a sidecar that does not load. The
Bloom filter may answer yes for any key (`falsePositive`). `Search` returns the numbers a
BM25 score is made of, not the score. `Stem` is external (rust-stemmers) and a constant.
History variables: `diverged`, `miscounted`, `reloaded`.

### Hnsw and VectorIndex

`Hnsw` holds Insert, Connect, PruneNeighbors, SelectNeighbors, SearchLayer and Search
as operators on an index record; layers are a parameter, since the code draws them at
random. Vectors are points on a line. `VectorIndex` stores them in a memtable and
segments, builds the index (`build_vector_index`, `build_failed`, `build_killed`: the sidecar
and then the stamp are written in place, and the build can fail at either or between
them), loads, caches and evicts it
(`get_vector_index`), and answers by index or flat scan. `past` holds earlier sets of
segments, to recognise one that has come back. Its LSN counter outlives a restart, so
that the effects of a counter that comes back lower are not in this module.

## 3. Runs

| Run | Expect | Instance | What it shows |
|---|---|---|---|
| `engineFlush` | pass | 2 keys, 4 writes, 2 segments, 1 flush in flight, 1 restart | ids stay distinct, the WAL covers the memtable, no write leaves the memtable unless a segment holds it, LSNs grow over a reopening whose WAL was never retired, Engine implements DurableStore, with kills and crashes inside calls |
| `engineBlocking` | pass | 2 keys, 4 writes, 3 segments, auto-flush at 2, 2 rotations, transactions of 2 | replay order, a kill at any time loses nothing, Engine implements DurableStore |
| `engineWal` | pass | 2 keys, 3 writes, 2 rotations, 2 restarts, no segments | power failures lose only a suffix nothing made durable |
| `engineWalRetired` | violation | 1 key, 2 writes, 1 rotation | phase 3 deletes the WAL file with the only record of a write made in phase 2 |
| `logFiles` | pass | records of up to 2 cells, 3 frames, 2 files, 2 restarts | what an fsync covered is found again, recovery finds a prefix, flushed data stays listed |
| `compaction` | pass | 2 keys, 2 flushes, 2 cycles, 1 snapshot, 1 restart | pinned segments stay readable, the manifest lists only existing files, ids are distinct, no disk write of a cycle changes a read within its cohort |
| `compactTombstone` | violation | 1 key, 2 flushes, 1 cycle | a deleted key comes back |
| `scan` | pass | 3 keys, blocks of 2, 4 writes, 2 segments, pages of 1 and 2 | all read paths agree; pages are ordered and complete |
| `replication` | pass | 2 nodes, 1 key, and a budget (below) of writes, compactions, kills and promotions | nothing reflected is forgotten, pending hashes stay until applied, equal roots mean equal reads, tokens grow, the replica converges |
| `tier` | pass | 2 keys, 2 writes, 2 local segments, 2 archived, 1 restart, cache of 2 records | the newest value survives, reads go through, fast paths agree, the cache keeps its books |
| `text` | pass | 2 documents, 4 writes, Bloom capacity 1 | the index, its statistics, search, snippets and sidecar agree with the stored documents |
| `vector` | pass | 4 keys, M = 2, up to 4 flushed vectors to start from, 2 writes, 2 builds | graphs are well formed, a served index agrees with the engine, small searches are exact |

The passing engine runs are restricted where the code is known to go wrong:
`engineFlush` has no rotation (engineWalRetired), no auto-flush and one flush in flight
(overlapping flushes), so that its restart meets a WAL that no flush has retired and
its LsnMonotonic says that the rebuilt counter goes on above the flushed LSNs, which
fails as soon as a flush has retired a file; `engineBlocking` has no restart (LSN
reset); transactions of
two records meet a crash only in `engineWal`, where DurableStore asks that a suffix is
lost. `compaction` is serialized and its read property speaks of keys whose versions
are in one cohort, in LSN order. The exceptions of Replication, Tier, TextIndex and VectorIndex are named in the
properties, by a history variable or by a predicate on the state (`Parses`,
`Fits`), and occur in the runs; what these modules leave out is said in section 2.

Properties. `RefinesDurableStore` is the refinement `Engine => DurableStore` with
`view` mapped to `Get`. `FlushKeepsWrites`, `CompactionKeepsReads`, `NeverForgets` and
`PendingUntilApplied` are action properties, `Converges` is a leads-to. `KillLosesNothing`
asks in every state what a reopened engine would show; `AckedSurvive`, `ReplayIsPrefix`
and `ManifestKeepsData` ask what every possible power failure would leave. `ReadPathsAgree`,
`SearchMatchesStore` and `SearchIsExact` compare an algorithm with a reference
definition in every reachable state.

Bounds. Two keys let one call touch a key and leave another alone, and let a
segment mix cohorts. Three or four writes with two or three segments give every order
of write, begin and finalize with a write after each; a restart is followed by further
writes. In `compaction` two flushes give a cohort of two segments and, by
tombstones, two cohorts; the second cycle compacts outputs of the first; the clock
reaches the point where everything has expired. In `logFiles` three frames are a torn
one, one behind it and one that a wrong length can swallow; longer files with one
restart (four frames of one cell) pass as well. In `scan` three keys in two
prefixes reach into a second block, and a page of one leaves a budget that ends on, before and
behind a tombstone. In `replication` a write costs 2, an oversized one 3, a compaction or
kill 1 and a promotion 2, out of a budget of 6 with at most two writes: this is an older and
a newer write with any two compactions or kills (put, flush, kill, put, flush, compaction, the
shortest way to lose a write to a lowered LSN counter, is one of them) or with a
promotion, an oversized write and another one with a kill or a compaction, one write with up to
four events, and two promotions with two kills. Longer chains of tokens are
covered by theorem `Fencing` only. In `tier` writes, archived segments and the
restart are four together (`MaxTogether`); two archived segments overlap in a key, and
a segment of two records next to another one exceeds the cache. In `text` the capacity of 1 makes the filter grow
at the second posting. In `vector` three neighbours exceed M, so that lists are pruned.

Keys are symmetric in Engine; elsewhere they are ordered or there are too few.
Deadlock is not checked: every behaviour ends when its bounds are used up.

Fairness. Only `Converges` needs it, and only of the replica: the thread started by
AntiEntropyLoop::start never returns and sleeps for a fixed interval between rounds, so
its local steps (those of the nodes that start as replicas) are weakly fair, `probe` included. Requests may fail any number of
times. Strong fairness of `list_missing` and of a fetch that brings something new says
that a request repeated for ever is answered sooner or later; without it
a network that fails every time refutes any convergence. Writes, flushes,
compactions, kills and promotions have no fairness. Nothing is claimed about flushes
and compactions happening, since the embedding program asks for them.

Every property of a passing run has a mutant in `PROJECT.json`: a variant of a
mapped definition, next to it in the module, that the property rejects.

## 4. Proofs

Every theorem holds for all values of the constants: any number of keys, writes,
flushes, cycles, snapshots, page sizes, nodes, failovers, archived segments and restarts. The assumptions are those
named in the component's module (bounds are naturals, key sets are finite, the model
values for "no entry" and "error" are not entries), and what is said below.

| Theorem | Statement |
|---|---|
| `EngineProofs!TypeCorrect` | `Spec => []TypeOK` |
| `EngineProofs!IdsUnique` | `Spec => []SegmentIdsUnique` |
| `EngineProofs!FlushesKeepWrites` | `Spec => FlushKeepsWrites` |
| `EngineProofs!BlockingWalCovers` | with `MaxInFlight = 0`: `Spec => []WalCoversMemtable` |
| `EngineProofs!NamesChronological` | `Spec => [](Undisturbed => WalNamesChronological)` |
| `EngineProofs!LsnsMonotonic` | `Spec => [](Undisturbed => LsnMonotonic)` |
| `EngineProofs!KillSafe` | with `MaxInFlight = 0`: `Spec => [](Undisturbed => KillLosesNothing)` |
| `EngineProofs!BlockingRefines` | with `MaxInFlight = 0`, closes and kills only, and `MaxRestarts <= 1` or `MaxSegments = 0`: `Spec => RefinesDurableStore` |
| `LogFilesProofs!WalInductive` | `Spec => [](Types /\ (WalSound => WalInv))` |
| `LogFilesProofs!SyncedRecordsSurvive` | `Spec => []AckedSurvive` |
| `LogFilesProofs!RecoveryIsPrefix` | `Spec => []ReplayIsPrefix` |
| `LogFilesProofs!ManifestInductive` | `Spec => [](Types /\ (ManifestSound => ManInv))` |
| `LogFilesProofs!ManifestKeepsFlushedData` | `Spec => []ManifestKeepsData` |
| `CompactionProofs!TypeCorrect` | if `Serialized`: `Spec => []TypeOK` |
| `CompactionProofs!StoreReopens` | if `Serialized`: `Spec => []ManifestHasFiles` |
| `CompactionProofs!IdsDistinct` | if `Serialized`: `Spec => []SegmentIdsDistinct` |
| `CompactionProofs!SnapshotsStable` | if `Serialized`: `Spec => []SnapshotReadable` |
| `CompactionProofs!CompactionReadsKept` | if `Serialized`: `Spec => CompactionKeepsReads` |
| `ScanProofs!AllReadsAgree` | `Spec => []ReadPathsAgree` |
| `ScanProofs!PagesInOrder` | `Spec => []PagesOrdered` |
| `ScanProofs!PagesMissNothing` | `Spec => []PagesComplete` |
| `ReplicationProofs!TypeCorrect` | `Spec => []TypeOK` |
| `ReplicationProofs!Fencing` | `Spec => []TokensGrow` |
| `ReplicationProofs!NothingForgotten` | `Spec => NeverForgets` |
| `ReplicationProofs!PendingKept` | `Spec => PendingUntilApplied` |
| `ReplicationProofs!RootsAgree` | `Spec => []InSyncAgree` |
| `TierProofs!NothingLost` | `Spec => []NewestSurvives` |
| `TierProofs!ReadThrough` | `Spec => []GetReadsThrough` |
| `TierProofs!RangeReadThrough` | `Spec => []RangeReadsThrough` |
| `TierProofs!FastPaths` | `Spec => []FastPathsAgree` |
| `TierProofs!CacheKept` | `Spec => []CacheAccounting` |
| `TextIndexProofs!IndexOfStore` | `Spec => []IndexMatchesStore` |
| `TextIndexProofs!FilterCoversPostings` | `Spec => []BloomCoversPostings` |
| `TextIndexProofs!CountsOfStore` | `Spec => []CountsMatch` |
| `TextIndexProofs!SidecarOfIndex` | `Spec => []SidecarCurrent` |
| `TextIndexProofs!SearchOfStore` | `Spec => []SearchMatchesStore` |
| `TextIndexProofs!RemovalNeverUnderflows` | `Spec => []RemovalAssertions` |

### Engine

The inductive invariant `IInv` adds to TypeOK and SegmentIdsUnique that the WAL files
have a largest name, that every LSN in the WAL and in the memtable is at most the
counter, that `durable` is a length of `hist`, and `SnapshotOK` for each flush in
flight: its `flushed_max_lsn` is at most the counter, and every memtable entry at or
below `flushed_max_lsn` is exactly the entry of its snapshot. It is needed because
finalize_flush decides by LSN alone which entries stay: nothing else is dropped only
because every later write, also of a key in the snapshot, takes an LSN above the
counter at begin_flush. `IdsUnique` needs that `NextId` after a restart is above all
manifest ids. `BlockingWalCovers` strengthens the invariant by coverage itself
(`CInv`): with the phases in one call, what a flush retires is exactly what it has put
in the segment, and replay yields only entries of records on disk.

The lemmas about `Max` rest on finiteness of the sets (FiniteSetTheorems), about
`Replay` on the existence of a last position, about batches on sequence facts
(SequenceTheorems). `IdsUnique` and `FlushesKeepWrites` cover overlapping flushes and
rotations, which the run `engineFlush` leaves out.

Recovery. `Undisturbed` says that there was no restart, or that nothing is flushed and
crashes are closes and kills. Outside it the statements are false of the code, not only
unproved (section 6): after a flush and a restart the LSN counter starts from what is
left in the WAL, and a power failure can drop records. `OrderInv` adds to `IInv`
that for as long the LSN of a write is its number: the counter is the number of writes,
records are in the order of their numbers and lie in files named no higher than the
current one and the counter (`LogOK`), and the entries of the memtable, of segments and
of snapshots in flight carry their numbers. It is inductive for any number of flushes
in flight, since retiring files, fsyncs and failed rotations drop or keep records
without reordering them, and since the last write is in the WAL as long as nothing is
flushed, so that recovery finds the counter again.

`KillSafe` and `BlockingRefines` rest on `BInv`: besides CInv and OrderInv, the WAL
holds the end of the history (`HoldsEnd`: the numbers in it have no gap up to the last
write and each record is the write of its number) and every read is an outcome of the
history. A read after replay is then either the last record of the key, which no later
write can follow, or, without records, what the segments say, which is what
`get` said before, because such a key is not in the memtable (WalCoversMemtable).
Failed writes are in the history as well: a rotation that fails after the append
leaves a record whose write returned an error, which is why `Outcomes` is a set.
`BlockingRefines` maps each action to a Write, Harden or Restart of DurableStore,
or to a stutter: a crash inside commit_transaction becomes a Restart that keeps a prefix of
the batch, and one between two deletions of finalize_flush leaves a WAL that
still holds the end of the history, since files are deleted in the order of their names.
The hypotheses are those under which the code keeps the promise: with asynchronous
flushes a record can be retired before its entry is in a segment (run
`engineWalRetired`), and after a flush a second restart can meet repeated LSNs.

### LogFiles

A file is described by the records framed in it: `Layout` gives the cell where each
frame starts, and behind the last frame there is less than a frame (`Torn`); `Holds`
says that such a layout exists, `Exactly` that nothing is behind the last frame. The
readers are recursive functions over the cells; their tables exist (`DownwardExists`)
and are followed frame by frame, so that a file that Holds records is read in exactly
one way (`HoldsRead`, `LayoutRead`). A write behind whole frames gives a file that
Holds, wherever it stops (`AppendFrame`, `AppendTorn`), and any cut of such a file
Holds a prefix of the records (`CutHolds`). Behind a torn frame nothing of this is true,
which is what `splice` and `entry` stand for.

`WalInv`: all files but the last are synced and hold the records `past`; the last one
holds `last` and its synced part `sure`; what was acknowledged is in `past` and `sure`,
and `past` and `last` are the applied records while the engine is up, a prefix of them
otherwise. The files before the last must be synced because a power failure may cut
each file on its own; a rotation fsyncs, an open may not (`unsynced`).

`ManInv`: every cut of manifest.mf between its synced length and its end holds entries
whose list carries the kept data and none that was dropped (`SafeCuts`), ids and data
in it are of frames already written, and a store whose handle is at the end has the
list of the file (`InStep`). All cuts are needed, and not only the whole file, since
a failed call leaves its entries unsynced and the next call goes on. What entries do to
a list is `Net`; the calls are of three kinds, data added, segments dropped, segments
rewritten (`CallKinds`), and a part of any of them is safe (`CallFine`): a flush adds an
id that is new, a removal takes only data that nobody keeps any more, and a
rewriting call adds the new segment before it removes the old ones, which is what the
mutant `compact_partial_cohortRemoveFirst` turns round and `replace_segment` does not do
(`replace`). InStep is needed because the store's calls are computed from its own
list; a failed compaction leaves its handle short of the end, and then the next write is
`stale`. The proofs cover any number of files, frames, payload lengths and restarts;
the run has three frames.

### Compaction

The theorems carry the hypothesis `Serialized`, the discipline of the run: without it
a cycle can take the id of a flush in flight (section 6) and all of them are false.

`CompactionInv`: every listed segment has its own id and a nonempty file
(`SegmentsOK`), a flush in flight has an id of its own (`FlushesOK`), the counter that
hands out the next id, the store's or during a cycle the cycle's, is above every live
id (`IdsBelow`), a pinned segment is live and in no cohort (`PinsOK`), the cohorts
to come are live and disjoint (`CohortsOK`), and each phase of a cycle knows what is
listed: the output not yet, the old segments until their last frame, none of them when
files are unlinked (`PhaseOK`). `StoreReopens` needs CohortsOK and PhaseOK, since
`delete_files` does not look at the manifest; `SnapshotsStable` needs PinsOK at
every phase, since the pins are read only when cohorts are formed.

`ReadsInv`, for reads: versions of a key differ in LSN and the next flush is above
them (`LsnsOK`), the death time of a segment or cohort is past that of its records
(`DeathsOK`), cohorts are in manifest order (`OrdersOK`), frames remove a prefix of the
cohort (`RemovalOK`), and the output is the newest entry of each key unless it is dead
or a tombstone, and the last of the manifest once it is listed (`OutputOK`). While
frames disappear one by one, either the output or the remaining last segments of the
cohort hold the newest version; this is why the order of removal matters, which
the mutant `NextRemovedNewest` turns round.

### Scan

Most of the argument is about the operators. Keys are ranked in their set, so that the
first and last n of them and the blocks of a segment are sets (`LeastFacts`,
`GreatestFacts`): the sparse index never leads past a key (`ReadFromCovers`), so every
cursor and range scan finds exactly the run's keys in its window. `LsnOrder` says that
segments are registered in LSN order and that the memtable is later than all of them,
which is why the newest registration, which `get` takes, is the highest LSN, which
merges and snapshots take (`NewestIsHighest`). `FlushPending` keeps it through
finalize_flush: what is registered is later than every segment and what stays in the
memtable is later still.

A page is right for the keys up to its cursor (`Answered`). `range_page` merges at most
n live segment keys with the memtable, and what the budget kept back lies behind the
last key it lists, since each of those n keys is either listed itself or hidden by a
tombstone of the memtable (`BudgetForward`, `BudgetReverse`). The second case is the one
`Unshadowed` excludes, and PagesComplete excepts it because the code then ends a
pagination early (section 6). For the client, `ClientInv` says that its items are in
order and not beyond its cursor, and that of the keys it counts on it has exactly what
`get` answers for those the cursor has passed. A flush keeps this because it changes
no answer of get (`FlushKeepsReads`), a page because its window is what the cursor has
not passed (`PagesJoin`).

### Replication

`ReplicationInv`: at most one primary, and it does not pull (`RolesOK`); tokens
grow and the primary holds the largest (`TokensOK`); every copy of a record in a
memtable, a segment or a list a round works on carries the time of a write that
happened (`TimesOK`); the WAL replays to the memtable where the memtable has an entry
(`Mirrors`); `SoundOK`, the core: a node that is not confused can be trusted, which has three
parts. `Sound`: it reads the newest entry it holds, its own segments alone
answer at least as new as all of them, and a read is no older than a dropped
tombstone. `Logged`: what a replay of its WAL would read is as new as what it reads.
`InOrder`: among the memtable and its own segments a higher LSN is never an older write.
Last, a segment whose import has returned is reflected (`AppliedOK`). The second part
of Sound makes compaction safe, which drops every imported segment: import_segment has
logged what was new in it. InOrder makes the merge by LSN safe, and is what a counter
that a reopening has lowered breaks; Logged is what keeps a kill from reading older. `PendingKept` needs AppliedOK because the cursor is written in a later
step than the import.

`RootsAgree` needs three facts more (`SyncInv`): copies with the same time are the same
operation (`OneOp`), every node knows of a dropped tombstone unless one went unheard
(`Heard`), and before the first failover the primary knows of every copy
(`PrimaryLeads`). The proof covers any number of replicas, keys and writes, the run
two nodes, one key and two writes.

### Tier

`TierInv` has, besides types (the WAL's among them), two parts. `CopiesOK`: every copy of a key, in the
memtable, a local segment or the archive, is no newer than the last write, and one
with the time of the last write has its operation and an LSN at least as high (an import
logs a record again). `HeldOK`, the core: unless an import hid a newer entry or a reopening lowered the counter, a
visible last write that no archived segment holds is itself in the memtable or, with no
memtable entry over it, in a segment of the node's own, and every other copy of the key
has a lower LSN. Both halves are needed for compaction, which drops imported segments
and merges by LSN: the value survives because it is neither in an imported segment only
nor beaten by a record that was logged again. Pruning asks that the segment is
archived, stripping follows archiving, so that neither touches a value that is held
here only.

The calls that fetch run a loop over an archived list of any length, written as a
recursive function. `IterationExists` and `Reaches` replace induction over data: the
states after each element exist, and what every element preserves holds after the last,
by the least counterexample among the finitely many positions. `ReadThrough` follows
what the memtable covers through this loop: an import never makes the memtable
older, and of a key without local entries every imported record is covered. With
CopiesOK the entry found is then neither older nor newer than the last write.
`RangeReadThrough` uses that copies of the last write have the highest LSN, `FastPaths`
that a loop over nothing changes nothing.

`CacheKept` is the same argument over the loop of loads, from a cache whose count is
the sum of its segments (`WellKept`). A suffix, a hit that moves to the end and an
appended segment are compared by sums over equal stretches of two lists
(`StretchBytes`). It also shows that the saturating subtraction in cache_segment never
saturates, since the count is at least the bytes evicted.

### TextIndex

An index is described by a content, the tokens and facets of some documents. `Listed`
says that each posting list has the postings of the documents that hold the term, each
once; `Counted` that the total length is the number of tokens and the number of
documents at least that of the content; `Exact` that it equals it. Removing a document
gives the index of the content without it (`RemoveMatching`), and so does leaving the
index alone when the document has no posting (`SkipMatching`), which is what makes the
Bloom filter's shortcut right. A document without tokens is the one case in which the
content changes and the counter does not: it breaks Exact and never Counted. The rebuild
from the engine is a recursive function over the stored documents in any order and
is followed with `Reaches`.

`IInv`: a cached index is well formed, covered by its filter and the index of some
content; of the stored one until `diverged`, exactly counted until `miscounted`; and a clean sidecar is what the index serializes to, which loads as that index when its lengths
fit. The existence of some content survives failed
writes, so the assertions of remove_document never fire (`RemovalNeverUnderflows`).

`SearchOfStore` follows from IInv in a state. The edit distance is characterised cell by
cell (`RowTells`): an entry of the table is 0 for equal prefixes and at most 1 for
prefixes that differ by one replaced, inserted or removed character. `EditStep` is
the recurrence for those two facts, and `EditIsNear` says that is_one_edit_away agrees with
the definition by edits. `TokenPlaces` relates the tokens of a text to its words, and
`ScoreFacts` and `SnippetFacts` read the answer off the postings. Two assumptions on
the constants are needed, `WordsAssumption`: queries are texts and terms are strings.

### Model-checked only

The refinement to DurableStore with asynchronous flushes (run `engineFlush`) and under
power failures (run `engineWal`), and everything in VectorIndex, whose graph search is a
RECURSIVE operator. Liveness (`Converges`) is beyond the prover.

## 5. Plan

1. Done: all modules of section 2.
2. Proofs left: the refinement for one asynchronous flush without rotation.
3. Snapshots under prune and strip, which need Compaction and Tier in one module.
4. Sidecar files of a segment that were not fsynced before the manifest entry.

## 6. Known disagreements and limits

Two disagreements have a run of their own (engineWalRetired, compactTombstone). The
others below were met while modelling. Each is outside the bounds of the passing runs, outside its module (so marked), or
named in the property, by a history variable or a predicate on the state.

Write path:

- Two flushes that overlap can register the older segment last, and `get` takes the
  last registered hit (segment.rs:907; edgestore.tla:12 states the opposite).
- After a flush and a restart the LSN counter starts from what is left in the WAL
  (engine/mod.rs:152): newer writes have lower LSNs, although edgestore.tla:14 says that no
  key gets a lower LSN than a previous write (`rewound` in Replication and Tier), and a
  new file's name can sort below an older one (outside
  Replication and Tier; `Undisturbed` in the theorems about Engine). Compaction,
  snapshots, ImmutableEngine and range merge by LSN and then take the older write.
- A crash inside commit_transaction leaves a prefix of the transaction, which
  replay applies (engine/mod.rs:1299). commit_transaction does not test `readonly`.
- A power failure after a flush can leave old WAL records that replay puts in
  front of newer segment entries: finalize_flush neither fsyncs nor truncates the
  current file.

Log files (`flaws`):

- WalWriter::open and Manifest::open append behind a torn frame, and the reader takes
  the torn frame's length, so fsynced records behind it can be lost (wal.rs:217,
  wal.rs:252).
- Engine::open can rotate away from a file without an fsync (engine/mod.rs:170).
- The WAL header is not fsynced; without it Engine::open returns an error.
- replace_segment writes Remove before Add (segment.rs:869).
- After a failed compaction the store writes through a stale manifest handle
  (engine/mod.rs:1339).

Compaction and scans:

- A record with ttl 0 gets a death time and expires (types.rs:133; prod.md:186 calls it
  permanent).
- A compaction can use the id a flush in flight has reserved (compactor.rs:286).
- A memtable tombstone over a live segment key can end a pagination early
  (engine/mod.rs:561; the comment at line 535 says otherwise).

Replication and tiering (`hidden`, `rewound`, `unheard`, `blind`, `Parses`):

- import_segment registers the imported segment last, so its older value hides a
  newer one in a local segment (engine/replication.rs:209 against the comment at 126),
  and a compaction can then drop the newest.
- A tombstone compacted away before the replica pulled it never reaches the replica.
- A promotion that does not reach the old primary can repeat a token.
- A value over MAX_BLOCK_DECOMPRESSED is accepted by put and flush and refused by every
  reader of its block, import_segment included. The replica drops the segment as
  permanently rejected (anti_entropy.rs:285) and lists it again in the next round.
- A torn upload is taken for an archived segment by the next attempt.
- A segment fetched while local and pruned afterwards is not fetched again.
- In a range, a local tombstone does not hide the archived value of its key; a record
  logged again by an import has a higher LSN than newer archived ones.

Text index (`diverged`, `miscounted`, `reloaded`, `Fits`):

- A document whose key is `__index__` collides with the sidecar (outside the module).
- A failed engine write leaves the index ahead of the store.
- A stale sidecar is not marked dirty after a restart that rebuilt the index.
- The length of a facet value is stored as a u16 and wraps, in the document's record and
  in the sidecar, where all bytes follow: such a sidecar is read out of step
  (text/index.rs:186, 277). Modelled as a sidecar that does not load, so that the
  index is rebuilt from the documents.
- A document without tokens is counted when added and not when removed.

Vector index (`past`):

- The stamp is a hash of the segment set; when a set comes back after a compaction, an
  older index is served (.planning/DECISIONS.md:150 excludes this).
- Unflushed writes do not change the stamp and are invisible to an index search.
- A torn sidecar makes vector_search return an error (engine/vector.rs:158).
- Pruning is one-sided: beyond M + 1 nodes a node can become unreachable.
- A graph of one node ignores k = 0, and an index ignores the metric asked for.

## 7. Not modelled

The command line, storage and FDP backends, metrics, configuration parsing and HTTP
framing are I/O without protocol state. Compression, block checksums and the hash
functions of filters are taken as correct; CRC32C and BLAKE3 have no collisions. Distances in
more than one dimension and ranking scores are floating point. The B-tree variants of
the memtable share its map semantics. RangeMerkleTree with its buckets is not on the
path the replication loop takes. The S3 client is an external service. `PROJECT.json`
gives the status of each component.
