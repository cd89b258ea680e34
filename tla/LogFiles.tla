------------------------------ MODULE LogFiles ------------------------------
(***************************************************************************)
(* The WAL files and manifest.mf byte by byte: framed records, the fsyncs  *)
(* that make them durable, writes that fail or are cut half way, power     *)
(* failures, and the readers of Engine::open that find the frames again.   *)
(*                                                                         *)
(* Engine and Compaction take these files as sequences of records.  Here a *)
(* file is a sequence of cells: the checksum, the length and each piece of *)
(* a payload are one cell each, and a file can end after any cell.         *)
(*                                                                         *)
(* A definition placed right before another one with the same parameters   *)
(* is a variant with a plausible bug, used to test the properties.         *)
(***************************************************************************)
EXTENDS SeqRetain, SequencesExt

CONSTANTS
    MaxLen,        \* bound: cells of a payload
    MaxFrames,     \* bound: frames ever written, WAL and manifest together
    MaxFiles,      \* bound: WAL files
    MaxRestarts    \* bound: times the database is opened again

ASSUME LogFilesAssumption ==
    /\ {MaxLen, MaxFiles} \subseteq Nat \ {0}
    /\ {MaxFrames, MaxRestarts} \subseteq Nat

VARIABLES
    wal,        \* the WAL files in name order; the last one is written
    mf,         \* manifest.mf
    mpos,       \* where the SegmentStore's manifest handle writes next
    segments,   \* Manifest::segments of the SegmentStore: its Add entries
    status,     \* "up", "down", or "failed": Engine::open returned an error
    frames,     \* frames written so far; numbers them
    restarts,
    logged,     \* auxiliary: the records the engine has applied, in order
    acked,      \* auxiliary: the records applied when an fsync last returned
    kept,       \* auxiliary: flushed data whose Add returned and nobody removes
    dropped,    \* auxiliary: flushed data whose removal returned
    flaws       \* auxiliary: which of the known exceptions have happened

walVars == <<wal, logged, acked>>
mfVars  == <<mf, mpos, segments, kept, dropped>>
vars    == <<walVars, mfVars, status, frames, restarts, flaws>>

\* "splice": a WAL frame was written behind a torn one.  "unsynced": Engine::open
\* went on in a new WAL file without an fsync of the old one.  "entry": a manifest
\* frame was written behind a torn one.  "stale": one was written over newer ones.
\* "replace": replace_segment stopped between its Remove and its Add.
-----------------------------------------------------------------------------
(***************************************************************************)
(* Frames.                                                                 *)
(***************************************************************************)
\* What a frame holds.  An Add names the flushes whose data its segment carries.
Record == [op : {"Header", "Put", "Add", "Remove"}, n : Nat, from : SUBSET Nat]
Cell   == [rec : Record, pos : Nat, len : Nat]
File   == [data : Seq(Cell), synced : Nat]

\* The 8-byte file header, two cells: magic and version.
Header == [i \in 1..2 |-> [rec |-> [op |-> "Header", n |-> 0, from |-> {}], pos |-> i, len |-> 0]]

\* {crc32c}{len}{payload}
Frame(rec, len) == [i \in 1..(len + 2) |-> [rec |-> rec, pos |-> i, len |-> len]]

\* Whether a whole frame starts at cell p: what CRC32C tells, up to collisions.
IsFrame(d, p) ==
    /\ p + d[p].len + 1 <= Len(d)
    /\ SubSeq(d, p, p + d[p].len + 1) = Frame(d[p].rec, d[p].len)

\* The length a reader takes from cell p, which is garbage unless that cell was
\* written as one; a length past the end of the file stops the reader.
LenAt(d, p) == IF d[p].pos = 2 THEN {d[p].len} ELSE 0..Len(d)

\* read_records: the sequences of records a reader may find in d.  A bad checksum
\* skips the frame the length announces, a short frame ends the file.
ReadRecords(d) ==
    LET From[p \in 3..(Len(d) + 2)] ==
          IF p + 1 > Len(d) THEN {<<>>}
          ELSE UNION {IF p + 1 + l > Len(d) THEN {<<>>}
                      ELSE IF IsFrame(d, p) /\ d[p].len = l
                           THEN {<<d[p].rec>> \o s : s \in From[p + 2 + l]}
                           ELSE From[p + 2 + l] : l \in LenAt(d, p + 1)}
    IN  From[3]

\* read_and_validate_header
ValidHeader(d) == Len(d) >= 2

\* Nothing but whole frames behind the header.
Whole(d) ==
    LET From[p \in 3..(Len(d) + 1)] ==
          p > Len(d) \/ (IsFrame(d, p) /\ From[p + 2 + d[p].len])
    IN  ValidHeader(d) /\ From[3]

\* recover_from_wal: all files in name order; one with a bad header is skipped.
FileRecords(f) == IF ValidHeader(f.data) THEN ReadRecords(f.data) ELSE {<<>>}
RecoverFromWalLastFirst(ws) ==
    LET Found[i \in 0..Len(ws)] ==
          IF i = 0 THEN {<<>>} ELSE {t \o s : s \in Found[i - 1], t \in FileRecords(ws[i])}
    IN  Found[Len(ws)]
RecoverFromWal(ws) ==
    LET Found[i \in 0..Len(ws)] ==
          IF i = 0 THEN {<<>>} ELSE {s \o t : s \in Found[i - 1], t \in FileRecords(ws[i])}
    IN  Found[Len(ws)]

\* Manifest::open: the Add entries that the ones after them leave listed, in order.
Listing(segs, r) ==
    IF r.op = "Add" THEN Append(segs, r)
    ELSE Retain(segs, {j \in DOMAIN segs : segs[j].n # r.n})
Replay(s) ==
    LET Segs[i \in 0..Len(s)] == IF i = 0 THEN <<>> ELSE Listing(Segs[i - 1], s[i])
    IN  Segs[Len(s)]

\* write_all at offset at.
Written(f, at, cells) ==
    [f EXCEPT !.data = SubSeq(@, 1, at) \o cells \o SubSeq(@, at + Len(cells) + 1, Len(@))]

SyncAll(f) == [f EXCEPT !.synced = Len(f.data)]

\* What a power failure may leave of a file.
Survivors(f) == {[data |-> SubSeq(f.data, 1, n), synced |-> n] : n \in f.synced..Len(f.data)}
SurvivingWals(ws) ==
    {t \in [DOMAIN ws -> UNION {Survivors(ws[i]) : i \in DOMAIN ws}] :
        \A i \in DOMAIN ws : t[i] \in Survivors(ws[i])}
-----------------------------------------------------------------------------
(***************************************************************************)
(* The WAL.                                                                *)
(***************************************************************************)
Cur == Len(wal)

\* WalWriter::create: the header is written and not fsynced.
Create == [data |-> Header, synced |-> 0]

\* Engine::open on an empty directory; Manifest::open fsyncs the header.
Init ==
    /\ wal = <<Create>>
    /\ mf = [data |-> Header, synced |-> 2]
    /\ mpos = 2
    /\ segments = <<>>
    /\ status = "up"
    /\ frames = 0 /\ restarts = 0
    /\ logged = <<>> /\ acked = {}
    /\ kept = {} /\ dropped = {}
    /\ flaws = {}

FlawIf(c, flaw) == IF c THEN {flaw} ELSE {}

\* rotate_wal_if_needed: by size or by age, so possibly after any append.
RotateUnsynced(w) == Append(w, Create)
Rotate(w) == Append([w EXCEPT ![Len(w)] = SyncAll(@)], Create)

\* A put of the next record of len cells, k of which reach the file.
NextRecord == [op |-> "Put", n |-> frames + 1, from |-> {}]
Appended(len, k) ==
    [wal EXCEPT ![Cur] = Written(@, Len(@.data), SubSeq(Frame(NextRecord, len), 1, k))]
Appending ==
    /\ status = "up" /\ frames < MaxFrames
    /\ frames' = frames + 1
    /\ flaws' = flaws \cup FlawIf(~Whole(wal[Cur].data), "splice")
    /\ UNCHANGED <<mfVars, acked>>

\* WalWriter::append and the rotation that may follow.
put(len) ==
    /\ Appending
    /\ logged' = Append(logged, NextRecord)
    /\ LET w == Appended(len, len + 2) IN
       wal' \in {w} \cup (IF Cur < MaxFiles THEN {Rotate(w)} ELSE {})
    /\ UNCHANGED <<status, restarts>>

\* write_all fails after k cells (a full disk): put returns the error, the engine
\* stays open and the torn frame stays in the file.
put_fails(len, k) ==
    /\ Appending
    /\ wal' = Appended(len, k)
    /\ UNCHANGED <<logged, status, restarts>>

\* A kill inside WalWriter::create, before the header is written.
put_killed(len) ==
    /\ Appending
    /\ Cur < MaxFiles /\ restarts < MaxRestarts
    /\ logged' = Append(logged, NextRecord)
    /\ wal' = [Rotate(Appended(len, len + 2)) EXCEPT ![Cur + 1].data = <<>>]
    /\ status' = "down" /\ restarts' = restarts + 1

\* Engine::flush and the end of commit_transaction: fsync of the current file.
Fsync == [wal EXCEPT ![Cur] = SyncAll(@)]
flush ==
    /\ status = "up"
    /\ wal' = Fsync
    /\ acked' = Range(logged)
    /\ UNCHANGED <<logged, mfVars, status, frames, restarts, flaws>>
-----------------------------------------------------------------------------
(***************************************************************************)
(* The manifest, through the SegmentStore's handle and through the one     *)
(* that compact_once opens.                                                *)
(***************************************************************************)
\* add_segment, one frame, and remove_segments, one frame for each id.
AddEntry(from) == <<[op |-> "Add", n |-> frames + 1, from |-> from]>>
RemoveEntries(gs) == SetToSeq({[op |-> "Remove", n |-> g.n, from |-> {}] : g \in gs})
Carried(gs) == UNION {g.from : g \in gs}

\* The data that goes with segments gs of a list.
Gone(gs, list) == Carried(gs) \ Carried(Range(list) \ gs)

\* finalize_segment, remove_segment and replace_segment.
finalize_segment == AddEntry({frames + 1})
remove_segment(g) == RemoveEntries({g})
replace_segment(g) == RemoveEntries({g}) \o AddEntry(g.from)

\* collect_expired_cohort and compact_partial_cohort.
collect_expired_cohort(gs) == RemoveEntries(gs)
compact_partial_cohortRemoveFirst(gs) == RemoveEntries(gs) \o AddEntry(Carried(gs))
compact_partial_cohort(gs) == AddEntry(Carried(gs)) \o RemoveEntries(gs)

\* write_framed_entry of each entry; the JSON payload is one cell.
EntrySize == 3
Cells(es) == FlattenSeq([i \in DOMAIN es |-> Frame(es[i], EntrySize - 2)])

\* k cells of the entries of call c written at offset at.  Every call ends in
\* sync_all; of one that stops before its end, nothing is taken as synced.
Call(es, gone, risk) == [es |-> es, gone |-> gone, risk |-> risk]
Size(c) == EntrySize * Len(c.es)
Writing(c, at, k) ==
    LET f == Written(mf, at, SubSeq(Cells(c.es), 1, k))
        done == k = Size(c)
    IN  /\ status = "up" /\ frames + Len(c.es) <= MaxFrames
        /\ frames' = frames + Len(c.es)
        /\ mf' = IF done THEN SyncAll(f) ELSE f
        /\ kept' = (IF done THEN kept \cup Carried(Range(c.es)) ELSE kept) \ c.gone
        /\ dropped' = IF done THEN dropped \cup c.gone ELSE dropped
        /\ flaws' = flaws \cup FlawIf(~Whole(mf.data), "entry")
                          \cup FlawIf(at < Len(mf.data), "stale")
                          \cup IF EntrySize <= k /\ ~done THEN c.risk ELSE {}
        /\ UNCHANGED walVars

StoreCalls ==
    {Call(finalize_segment, {}, {})}
    \cup {Call(remove_segment(g), Gone({g}, segments), {}) : g \in Range(segments)}
    \cup {Call(replace_segment(g), {}, {"replace"}) : g \in Range(segments)}

\* A call on the store's handle, which advances by what was written.
store_call(c) ==
    /\ Writing(c, mpos, Size(c))
    /\ mpos' = mpos + Size(c)
    /\ segments' = Replay(segments \o c.es)
    /\ UNCHANGED <<status, restarts>>

\* The same call stopped after k cells, by an I/O error or by a kill.
ErrorOrKill ==
    \/ UNCHANGED <<status, restarts>>
    \/ restarts < MaxRestarts /\ status' = "down" /\ restarts' = restarts + 1

store_call_cut(c, k) ==
    /\ Writing(c, mpos, k)
    /\ mpos' = mpos + k
    /\ segments' = Replay(segments \o SubSeq(c.es, 1, k \div EntrySize))
    /\ ErrorOrKill

\* The cohorts compact_cycle may take, from the list its own handle has read.
CompactCalls ==
    UNION {LET list == Replay(s) IN
           UNION {{Call(compact_partial_cohort(gs), {}, {}),
                   Call(collect_expired_cohort(gs), Gone(gs, list), {})} :
                     gs \in (SUBSET Range(list)) \ {{}}} : s \in ReadRecords(mf.data)}

\* compact_once: the store is opened again behind the last frame.
compact_once(c) ==
    /\ Writing(c, Len(mf.data), Size(c))
    /\ mpos' = Len(mf'.data)
    /\ \E s \in ReadRecords(mf'.data) : segments' = Replay(s)
    /\ UNCHANGED <<status, restarts>>

\* compact_once returns an error, when a frame does not fit on the disk or a file
\* cannot be deleted: the old store stays, and its handle where it was.
compact_once_fails(c, k) ==
    /\ Writing(c, Len(mf.data), k)
    /\ ErrorOrKill
    /\ UNCHANGED <<mpos, segments>>
-----------------------------------------------------------------------------
(***************************************************************************)
(* The end of a session and Engine::open.                                  *)
(***************************************************************************)
\* Drop fsyncs the current file, a kill leaves the page cache, a power failure any
\* prefix of a file that holds what was synced.
Ending ==
    /\ status = "up" /\ restarts < MaxRestarts
    /\ status' = "down" /\ restarts' = restarts + 1
    /\ UNCHANGED <<logged, mpos, segments, kept, dropped, frames, flaws>>

close ==
    /\ Ending
    /\ wal' = Fsync
    /\ acked' = Range(logged)
    /\ UNCHANGED mf

kill ==
    /\ Ending
    /\ UNCHANGED <<wal, acked, mf>>

power_failure ==
    /\ Ending
    /\ wal' \in SurvivingWals(wal)
    /\ mf' \in Survivors(mf)
    /\ UNCHANGED acked

\* Engine::open: replay the WAL, append to its last file or, when that is full, to a
\* new one, then read the manifest.
open ==
    /\ status = "down" /\ ValidHeader(wal[Cur].data)
    /\ status' = "up"
    /\ logged' \in RecoverFromWal(wal)
    /\ \E s \in ReadRecords(mf.data) : segments' = Replay(s)
    /\ mpos' = Len(mf.data)
    /\ \/ UNCHANGED <<wal, flaws>>
       \/ /\ Cur < MaxFiles
          /\ wal' = Append(wal, Create)
          /\ flaws' = flaws \cup FlawIf(wal[Cur].synced < Len(wal[Cur].data), "unsynced")
    /\ UNCHANGED <<acked, mf, kept, dropped, frames, restarts>>

\* WalWriter::open rejects a short header.
open_fails ==
    /\ status = "down" /\ ~ValidHeader(wal[Cur].data)
    /\ status' = "failed"
    /\ UNCHANGED <<walVars, mfVars, frames, restarts, flaws>>

Next ==
    \/ \E len \in 1..MaxLen : put(len)
    \/ \E len \in 1..MaxLen : \E k \in 0..(len + 1) : put_fails(len, k)
    \/ \E len \in 1..MaxLen : put_killed(len)
    \/ flush
    \/ \E c \in StoreCalls : store_call(c)
    \/ \E c \in StoreCalls : \E k \in 0..(Size(c) - 1) : store_call_cut(c, k)
    \/ \E c \in CompactCalls : compact_once(c)
    \/ \E c \in CompactCalls : \E k \in 0..Size(c) : compact_once_fails(c, k)
    \/ close
    \/ kill
    \/ power_failure
    \/ open
    \/ open_fails

Spec == Init /\ [][Next]_vars
-----------------------------------------------------------------------------
\* What a power failure now and the next Engine::open would recover.
Recoverable == UNION {RecoverFromWal(w) : w \in SurvivingWals(wal)}
Listable == UNION {{Replay(s) : s \in ReadRecords(f.data)} : f \in Survivors(mf)}

WalSound == flaws \cap {"splice", "unsynced"} = {}
ManifestSound == flaws \cap {"entry", "stale", "replace"} = {}

\* Every record that an fsync covered is found again after a power failure, wherever
\* it cuts the files and whatever writes failed before or after: also when the last
\* file has lost its header and Engine::open gives up.
AckedSurvive == WalSound => \A s \in Recoverable : acked \subseteq Range(s)

\* What recovery finds is a prefix of what the engine had applied: no later record
\* without the earlier ones, across rotations, failed writes and restarts.
ReplayIsPrefix == WalSound => \A s \in Recoverable : IsPrefix(s, logged)

\* The data of every flush whose manifest entry returned stays in a listed segment
\* through rewrites, failed calls and crashes between any two cells, until it is
\* removed, and does not come back once that has returned.
ManifestKeepsData ==
    ManifestSound => \A l \in Listable :
        /\ kept \subseteq Carried(Range(l))
        /\ dropped \cap Carried(Range(l)) = {}
=============================================================================
