----------------------------- MODULE Replication -----------------------------
(***************************************************************************)
(* Segment replication between edgestore nodes: export_manifest,           *)
(* missing_segments and import_segment of the engine with their            *)
(* last-writer-wins merge, the HTTP server that serves segments by hash,   *)
(* the pull-only anti-entropy loop of a replica with its durable pending,  *)
(* and failover with the fencing token in WTOKEN.                          *)
(*                                                                         *)
(* A node that is opened again replays the WAL files it still has and takes *)
(* its LSN counter from them.  A flush deletes all of them but the current *)
(* one, so the counter may come back below an LSN it has handed out.  The  *)
(* replay takes the files in the order they were written: a file whose     *)
(* name sorts wrong after such a reset is not modelled.                    *)
(* Two segments with the same entries, LSNs included, have the same BLAKE3 *)
(* hash, so the entries serve as the hash.  A timestamp names a write;     *)
(* timestamps are distinct and grow (the NTP assumption stated at          *)
(* import_segment).  Everything happens within one cohort window, so a     *)
(* node's own segments form one unexpired cohort.  The steps of a pull are *)
(* separate actions wherever the loop has released the engine's lock.      *)
(* A put whose value is larger than MAX_BLOCK_DECOMPRESSED is written to a *)
(* segment that no reader accepts; all keys of that segment are taken to   *)
(* share its block.                                                        *)
(*                                                                         *)
(* A definition placed right before another one with the same parameters   *)
(* is a variant with a plausible bug; no action uses it.                   *)
(***************************************************************************)
EXTENDS Integers, Sequences, FiniteSets, SequencesExt, SeqRetain

CONSTANTS
    Nodes,
    First,          \* the node opened with open_primary; the others are replicas
    Keys,
    NoEntry,        \* "no entry for this key"
    Corrupt,        \* bytes that do not have the hash they were fetched under
    Ops,            \* bound: kinds of write
    MaxWrites,      \* bound: writes
    Cost,           \* bound: what a write of each kind, and a "compact", "kill" or
                    \* "promote", takes from the budget
    Budget          \* bound: on the sum of these costs

ASSUME ReplicationAssumption ==
    /\ First \in Nodes
    /\ IsFiniteSet(Keys)
    /\ NoEntry \notin [op : {"Put", "PutOversized", "Delete"}, ts : Nat, lsn : Nat]
    /\ Ops \subseteq {"Put", "PutOversized", "Delete"}
    /\ {MaxWrites, Budget} \subseteq Nat

ASSUME CostAssumption ==
    /\ DOMAIN Cost = Ops \cup {"compact", "kill", "promote"}
    /\ \A kind \in DOMAIN Cost : Cost[kind] \in Nat

VARIABLES
    role,       \* node -> "primary" or "replica"
    mem,        \* node -> memtable
    wal,        \* node -> what a replay of its WAL files gives
    segs,       \* node -> segments in registration order
    lsn,        \* node -> lsn_counter
    clock,      \* timestamp of the last write anywhere
    spent,      \* auxiliary: how much of the budget is used up
    loop,       \* node -> where its anti-entropy round stands
    pending,    \* node -> segments_pending in the PeerCursor file
    wtoken,     \* node -> write_token in memory
    wfile,      \* node -> token in WTOKEN; 0 also for a short or missing file
    tokens,     \* auxiliary: tokens handed out by promotions, in order
    dropped,    \* auxiliary, per node and key: newest tombstone compaction removed
    hidden,     \* auxiliary, per node: an import took the place of a newer write
    rewound,    \* auxiliary, per node: a reopening lowered lsn_counter
    unheard,    \* auxiliary: compaction dropped a tombstone some node had not received
    blind       \* auxiliary: a promotion did without the old primary's token

nodeVars  == <<role, mem, wal, segs, lsn, clock>>
pullVars  == <<loop, pending>>
tokenVars == <<wtoken, wfile, tokens, blind>>
auxVars   == <<dropped, hidden, rewound, unheard>>
vars == <<nodeVars, pullVars, tokenVars, auxVars, spent>>

Entry   == [op : {"Put", "PutOversized", "Delete"}, ts : Nat, lsn : Nat]
Entries == [Keys -> Entry \cup {NoEntry}]
Segment == [ents : Entries, imported : BOOLEAN]
Empty   == [k \in Keys |-> NoEntry]
IdleLoop == [pc |-> "idle", peer_root |-> <<>>, todo |-> <<>>, data |-> Corrupt]
-----------------------------------------------------------------------------
(***************************************************************************)
(* Reading a node: memtable, then the segment registered last.             *)
(***************************************************************************)
Live(m) == {k \in Keys : m[k] # NoEntry}

SegmentGet(ss, k) ==
    LET hits == {i \in DOMAIN ss : ss[i].ents[k] # NoEntry} IN
    IF hits = {} THEN NoEntry ELSE ss[Max(hits)].ents[k]

Local(m, ss, k) == IF m[k] # NoEntry THEN m[k] ELSE SegmentGet(ss, k)
Seen(n, k) == Local(mem[n], segs[n], k)
Visible(e) == IF e # NoEntry /\ e.op # "Delete" THEN {e.ts} ELSE {}
Age(e) == IF e = NoEntry THEN 0 ELSE e.ts

\* read_block_at_offset and parse_dat_entries refuse a segment with an oversized put.
Parses(h) == \A k \in Live(h) : h[k].op # "PutOversized"

\* The newest write on k that node n reflects, a tombstone it has dropped included.
Known(n, k) ==
    IF Age(Seen(n, k)) > dropped[n][k] THEN Age(Seen(n, k)) ELSE dropped[n][k]

\* export_manifest and range_merkle_root: the content hashes; the root is a hash of
\* the sorted list, so it tells apart how often a hash occurs and no order.
Hashes(ss) == {ss[i].ents : i \in DOMAIN ss}
MerkleRootOfIds(ss) == DOMAIN ss
MerkleRoot(ss) == [h \in Hashes(ss) |-> Cardinality({i \in DOMAIN ss : ss[i].ents = h})]

\* missing_segments: the peer's order is kept.
MissingSegmentsSwapped(peer, own) ==
    Retain([i \in DOMAIN own |-> own[i].ents],
           {i \in DOMAIN own : own[i].ents \notin Hashes(peer)})
MissingSegments(peer, own) ==
    Retain([i \in DOMAIN peer |-> peer[i].ents],
           {i \in DOMAIN peer : peer[i].ents \notin Hashes(own)})
-----------------------------------------------------------------------------
(***************************************************************************)
(* import_segment: each record is applied when the node has no entry for   *)
(* its key or an older one; then the segment is registered, last.          *)
(***************************************************************************)
\* The local entry the import compares with: an error of the segment store counts as
\* no entry.
Found(m, ss, k) ==
    LET hits == {i \in DOMAIN ss : ss[i].ents[k] # NoEntry} IN
    IF m[k] = NoEntry /\ hits # {} /\ ~Parses(ss[Max(hits)].ents)
    THEN NoEntry ELSE Local(m, ss, k)

NewerAlways(in, local) == in # NoEntry
Newer(in, local) == in # NoEntry /\ (local = NoEntry \/ in.ts > local.ts)

\* The records of keys S that win; put_with_timestamp and delete_with_timestamp log
\* each with a new LSN of the importing node.
Winners(m, ss, h, S) == SetToSeq({k \in S : Newer(h[k], Found(m, ss, k))})

\* The memtable or the WAL, base, with the winners.
ApplyRecords(base, won, h, last) ==
    [k \in Keys |-> IF k \in ToSet(won)
                    THEN [h[k] EXCEPT !.lsn = last + (CHOOSE i \in DOMAIN won : won[i] = k)]
                    ELSE base[k]]

Register(ss, h) == Append(ss, [ents |-> h, imported |-> TRUE])

\* The registration, or the record itself, takes the place of a newer write that the
\* node has in a segment or had as a tombstone before compaction dropped it.
Hides(n, h) ==
    \E k \in Keys : mem[n][k] = NoEntry /\ h[k] # NoEntry /\ Age(h[k]) < Known(n, k)

Affordable(kind) == spent + Cost[kind] <= Budget
Spend(kind) == Affordable(kind) /\ spent' = spent + Cost[kind]
-----------------------------------------------------------------------------
Init ==
    /\ role = [n \in Nodes |-> IF n = First THEN "primary" ELSE "replica"]
    /\ mem = [n \in Nodes |-> Empty]
    /\ wal = [n \in Nodes |-> Empty]
    /\ segs = [n \in Nodes |-> <<>>]
    /\ lsn = [n \in Nodes |-> 0]
    /\ clock = 0
    /\ spent = 0
    /\ loop = [n \in Nodes |-> IdleLoop]
    /\ pending = [n \in Nodes |-> {}]
    /\ wtoken = [n \in Nodes |-> 0]
    /\ wfile = [n \in Nodes |-> 0]
    /\ tokens = <<>>
    /\ dropped = [n \in Nodes |-> [k \in Keys |-> 0]]
    /\ hidden = [n \in Nodes |-> FALSE]
    /\ rewound = [n \in Nodes |-> FALSE]
    /\ unheard = FALSE
    /\ blind = FALSE

\* put and delete on a writable engine; a replica's engine returns ReadOnly.
write(n, k, op) ==
    /\ role[n] = "primary"
    /\ clock < MaxWrites /\ Spend(op)
    /\ clock' = clock + 1
    /\ lsn' = [lsn EXCEPT ![n] = @ + 1]
    /\ LET e == [op |-> op, ts |-> clock', lsn |-> lsn'[n]] IN
       /\ mem' = [mem EXCEPT ![n][k] = e]
       /\ wal' = [wal EXCEPT ![n][k] = e]
    /\ UNCHANGED <<role, segs, pullVars, tokenVars, auxVars>>

\* flush_to_segments is not refused on a read-only engine.  finalize_flush keeps only
\* the current WAL file; it was begun by a rotation after LSN cut, or by the first open.
flush_to_segments(n, cut) ==
    /\ Live(mem[n]) # {}
    /\ cut = 0 \/ \E k \in Live(wal[n]) : wal[n][k].lsn = cut
    /\ segs' = [segs EXCEPT ![n] = Append(@, [ents |-> mem[n], imported |-> FALSE])]
    /\ mem' = [mem EXCEPT ![n] = Empty]
    /\ wal' = [wal EXCEPT ![n] =
          [k \in Keys |-> IF @[k] # NoEntry /\ @[k].lsn > cut THEN @[k] ELSE NoEntry]]
    /\ UNCHANGED <<role, lsn, clock, pullVars, tokenVars, auxVars, spent>>

\* compact_partial_cohort keeps the entry with the highest LSN, and of equal ones that
\* of the segment registered first.
Merged(ss, k) ==
    LET hits == {i \in DOMAIN ss : ~ss[i].imported /\ ss[i].ents[k] # NoEntry}
        top  == {i \in hits : \A j \in hits : ss[j].ents[k].lsn <= ss[i].ents[k].lsn}
    IN IF hits = {} THEN NoEntry ELSE ss[Min(top)].ents[k]

\* What a compaction leaves: imported segments have death_time 0 and are removed,
\* the others are merged, and tombstones are dropped.
Compacted(ss) ==
    LET kept == [k \in Keys |->
                    IF Visible(Merged(ss, k)) # {} THEN Merged(ss, k) ELSE NoEntry]
    IN IF Live(kept) = {} THEN <<>> ELSE <<[ents |-> kept, imported |-> FALSE]>>

\* An own segment that does not parse makes the merge fail; what the cycle has done to
\* imported segments by then is not modelled.
compact_once(n) ==
    /\ segs[n] # <<>>
    /\ \A i \in DOMAIN segs[n] : segs[n][i].imported \/ Parses(segs[n][i].ents)
    /\ Spend("compact")
    /\ segs' = [segs EXCEPT ![n] = Compacted(@)]
    /\ LET gone == {k \in Keys : \E i \in DOMAIN segs[n] :
                       segs[n][i].ents[k] # NoEntry /\ segs[n][i].ents[k].op = "Delete"}
           age(k) == Age(SegmentGet(segs[n], k))
       IN /\ dropped' = [dropped EXCEPT ![n] =
                 [k \in Keys |-> IF k \in gone /\ age(k) > @[k] THEN age(k) ELSE @[k]]]
          /\ unheard' = (unheard \/ \E k \in gone, o \in Nodes : Known(o, k) < age(k))
    /\ UNCHANGED <<role, mem, wal, lsn, clock, pullVars, tokenVars, hidden, rewound>>
-----------------------------------------------------------------------------
(***************************************************************************)
(* One round of the anti-entropy loop of replica n, pulling from p.        *)
(***************************************************************************)
At(n, pc) == role[n] = "replica" /\ loop[n].pc = pc
Goto(n, l) == loop' = [loop EXCEPT ![n] = l]
Serves(p, n) == p # n /\ role[p] = "primary"

\* The Merkle root.  (The watermark and the roots a cursor records are never read back.)
probe(n, p) ==
    /\ At(n, "idle") /\ Serves(p, n)
    /\ Goto(n, [IdleLoop EXCEPT !.pc = "compare", !.peer_root = MerkleRoot(segs[p])])
    /\ UNCHANGED <<nodeVars, pending, tokenVars, auxVars, spent>>

compare(n) ==
    /\ At(n, "compare")
    /\ Goto(n, IF MerkleRoot(segs[n]) = loop[n].peer_root
               THEN IdleLoop ELSE [IdleLoop EXCEPT !.pc = "list"])
    /\ UNCHANGED <<nodeVars, pending, tokenVars, auxVars, spent>>

list_missing(n, p) ==
    /\ At(n, "list") /\ Serves(p, n)
    /\ LET missing == MissingSegments(segs[p], segs[n]) IN
       /\ Goto(n, [loop[n] EXCEPT !.pc = "pull", !.todo = missing])
       /\ pending' = [pending EXCEPT ![n] = ToSet(missing)]
    /\ UNCHANGED <<nodeVars, tokenVars, auxVars, spent>>

\* A request that fails ends the round, before any segment is pulled.
give_up(n) ==
    /\ At(n, "list")
    /\ Goto(n, IdleLoop)
    /\ UNCHANGED <<nodeVars, pending, tokenVars, auxVars, spent>>

\* GET /segments/{hash}: the server has the segment, or had it when it listed it
\* (404 after a compaction), or serves a file that was replaced under that id.
fetch_ok(n, p) ==
    /\ At(n, "pull") /\ Serves(p, n) /\ loop[n].todo # <<>>
    /\ Head(loop[n].todo) \in Hashes(segs[p])
    /\ Goto(n, [loop[n] EXCEPT !.pc = "import", !.data = Head(loop[n].todo)])
    /\ UNCHANGED <<nodeVars, pending, tokenVars, auxVars, spent>>

fetch_corrupt(n) ==
    /\ At(n, "pull") /\ loop[n].todo # <<>>
    /\ Goto(n, [loop[n] EXCEPT !.pc = "import", !.data = Corrupt])
    /\ UNCHANGED <<nodeVars, pending, tokenVars, auxVars, spent>>

\* The round goes on with the next hash; this one stays in the durable pending list.
fetch_failed(n) ==
    /\ At(n, "pull") /\ loop[n].todo # <<>>
    /\ Goto(n, [loop[n] EXCEPT !.todo = Tail(@)])
    /\ UNCHANGED <<nodeVars, pending, tokenVars, auxVars, spent>>

Outcome(n) ==
    LET l == loop[n] IN
    IF Head(l.todo) \in Hashes(segs[n]) THEN "Skipped"
    ELSE IF l.data = Corrupt THEN "HashMismatch"
    ELSE IF Parses(Head(l.todo)) THEN "Applied" ELSE "Rejected"

NoLongerPendingAll(out) == TRUE
NoLongerPending(out) == out # "HashMismatch"

import_segment(n) ==
    /\ At(n, "import")
    /\ LET h   == Head(loop[n].todo)
           won == Winners(mem[n], segs[n], h, Keys)
       IN IF Outcome(n) = "Applied"
          THEN /\ mem' = [mem EXCEPT ![n] = ApplyRecords(@, won, h, lsn[n])]
               /\ wal' = [wal EXCEPT ![n] = ApplyRecords(@, won, h, lsn[n])]
               /\ lsn' = [lsn EXCEPT ![n] = @ + Len(won)]
               /\ segs' = [segs EXCEPT ![n] = Register(@, h)]
               /\ hidden' = [hidden EXCEPT ![n] = @ \/ Hides(n, h)]
          ELSE UNCHANGED <<mem, wal, lsn, segs, hidden>>
    /\ Goto(n, [loop[n] EXCEPT !.pc = "record", !.data = Outcome(n)])
    /\ UNCHANGED <<role, clock, pending, tokenVars, dropped, rewound, unheard, spent>>

\* The match on ImportResult: the hash leaves the pending list and the cursor is flushed.
record_outcome(n) ==
    /\ At(n, "record")
    /\ pending' = IF NoLongerPending(loop[n].data)
                  THEN [pending EXCEPT ![n] = @ \ {Head(loop[n].todo)}] ELSE pending
    /\ Goto(n, [loop[n] EXCEPT !.pc = "pull", !.todo = Tail(@), !.data = Corrupt])
    /\ UNCHANGED <<nodeVars, tokenVars, auxVars, spent>>

finish_round(n) ==
    /\ At(n, "pull") /\ loop[n].todo = <<>>
    /\ Goto(n, IdleLoop)
    /\ UNCHANGED <<nodeVars, pending, tokenVars, auxVars, spent>>
-----------------------------------------------------------------------------
(***************************************************************************)
(* Crashes and failover.                                                   *)
(***************************************************************************)
\* Engine::open of the databases of nodes R.
LastLsn(w) == LET found == {w[k].lsn : k \in Live(w)} IN IF found = {} THEN 0 ELSE Max(found)
Reopen(R) ==
    /\ mem' = [n \in Nodes |-> IF n \in R THEN wal'[n] ELSE mem[n]]
    /\ lsn' = [n \in Nodes |-> IF n \in R THEN LastLsn(wal'[n]) ELSE lsn[n]]
    /\ rewound' = [n \in Nodes |-> rewound[n] \/ (n \in R /\ LastLsn(wal'[n]) < lsn[n])]

\* The process is killed and started again: what is on disk survives, the WAL is
\* replayed and the token is read back from WTOKEN.
restart(n) ==
    /\ Spend("kill")
    /\ wal' = wal
    /\ Reopen({n})
    /\ Goto(n, IdleLoop)
    /\ wtoken' = [wtoken EXCEPT ![n] = wfile[n]]
    /\ UNCHANGED <<role, segs, clock, pending, wfile, tokens, blind, dropped, hidden, unheard>>

\* Killed inside import_segment: the records of some keys are logged, the segment
\* is not registered.
crash_in_import(n, S) ==
    /\ Spend("kill")
    /\ At(n, "import") /\ Outcome(n) = "Applied"
    /\ LET h == Head(loop[n].todo) IN
       /\ wal' = [wal EXCEPT ![n] =
             ApplyRecords(@, Winners(mem[n], segs[n], h, S), h, lsn[n])]
       /\ hidden' = [hidden EXCEPT ![n] =
             @ \/ Hides(n, [k \in Keys |-> IF k \in S THEN h[k] ELSE NoEntry])]
    /\ Reopen({n})
    /\ Goto(n, IdleLoop)
    /\ wtoken' = [wtoken EXCEPT ![n] = wfile[n]]
    /\ UNCHANGED <<role, segs, clock, pending, wfile, tokens, blind, dropped, unheard>>

NewTokenLocal(fetched, own) == own + 1
NewToken(fetched, own) == (IF fetched > own THEN fetched ELSE own) + 1

\* promote_to_primary opens the database of a replica.  reached: the old primary
\* answered /watermark.  The old primary is opened again as a replica or not at all.
promote_keeps_pulling(n, p, reached) ==
    /\ role[n] = "replica" /\ Serves(p, n)
    /\ Spend("promote")
    /\ LET t == NewToken(IF reached THEN wtoken[p] ELSE 0, wfile[n]) IN
       /\ wfile' = [wfile EXCEPT ![n] = t]
       /\ wtoken' = [wtoken EXCEPT ![n] = t]
       /\ tokens' = Append(tokens, t)
    /\ role' = [role EXCEPT ![n] = "primary", ![p] = "replica"]
    /\ blind' = (blind \/ ~reached)
    /\ wal' = wal
    /\ Reopen({n, p})
    /\ UNCHANGED <<segs, clock, pullVars, dropped, hidden, unheard>>
promote_to_primary(n, p, reached) ==
    /\ role[n] = "replica" /\ Serves(p, n)
    /\ Spend("promote")
    /\ LET t == NewToken(IF reached THEN wtoken[p] ELSE 0, wfile[n]) IN
       /\ wfile' = [wfile EXCEPT ![n] = t]
       /\ wtoken' = [wtoken EXCEPT ![n] = t]
       /\ tokens' = Append(tokens, t)
    /\ role' = [role EXCEPT ![n] = "primary", ![p] = "replica"]
    /\ blind' = (blind \/ ~reached)
    /\ wal' = wal
    /\ Reopen({n, p})
    /\ Goto(n, IdleLoop)
    /\ UNCHANGED <<segs, clock, pending, dropped, hidden, unheard>>

\* Killed inside set_write_token: std::fs::write has truncated WTOKEN, and a file of
\* the wrong length is read as token 0.
crash_in_promote(n) ==
    /\ Spend("kill")
    /\ role[n] = "replica"
    /\ wfile' = [wfile EXCEPT ![n] = 0]
    /\ wtoken' = [wtoken EXCEPT ![n] = 0]
    /\ wal' = wal
    /\ Reopen({n})
    /\ Goto(n, IdleLoop)
    /\ UNCHANGED <<role, segs, clock, pending, tokens, blind, dropped, hidden, unheard>>

Next ==
    \/ \E n \in Nodes :
          \/ \E k \in Keys, op \in Ops : write(n, k, op)
          \/ \E cut \in 0..lsn[n] : flush_to_segments(n, cut)
          \/ compact_once(n)
          \/ compare(n) \/ give_up(n) \/ fetch_corrupt(n) \/ fetch_failed(n)
          \/ import_segment(n) \/ record_outcome(n) \/ finish_round(n)
          \/ restart(n) \/ crash_in_promote(n)
          \/ \E S \in SUBSET Keys : crash_in_import(n, S)
          \/ \E p \in Nodes : probe(n, p) \/ list_missing(n, p) \/ fetch_ok(n, p)
          \/ \E p \in Nodes, reached \in BOOLEAN : promote_to_primary(n, p, reached)

\* A fetch that would bring something the replica does not have.
UsefulFetch(n, p) ==
    fetch_ok(n, p) /\ \E k \in Keys : Age(Head(loop[n].todo)[k]) > Known(n, k)

\* The loop thread runs on (start never returns), and a request that is repeated
\* for ever is answered again and again, if not every time.  (Convergence is claimed
\* only while First has not been replaced.)
Fairness ==
    \A n \in Nodes \ {First} :
        /\ WF_vars(\E p \in Nodes : probe(n, p))
        /\ WF_vars(compare(n) \/ import_segment(n) \/ record_outcome(n) \/ finish_round(n))
        /\ WF_vars(fetch_failed(n))
        /\ SF_vars(\E p \in Nodes : list_missing(n, p))
        /\ SF_vars(\E p \in Nodes : UsefulFetch(n, p))

Spec == Init /\ [][Next]_vars
FairSpec == Spec /\ Fairness
-----------------------------------------------------------------------------
(***************************************************************************)
(* Properties.                                                             *)
(***************************************************************************)
\* Types; a node that is not pulling has an idle loop and a primary never pulls.
TypeOK ==
    /\ role \in [Nodes -> {"primary", "replica"}]
    /\ \A n \in Nodes :
          /\ mem[n] \in Entries
          /\ \A i \in DOMAIN segs[n] : segs[n][i] \in Segment /\ Live(segs[n][i].ents) # {}
          /\ role[n] = "primary" => loop[n] = IdleLoop
          /\ loop[n].pc \in {"import", "record"} => loop[n].todo # <<>>
          /\ wtoken[n] = wfile[n]
    /\ Cardinality({n \in Nodes : role[n] = "primary"}) <= 1

Reads(n) == [k \in Keys |-> Visible(Seen(n, k))]

\* The two ways in which a node may take an older write for the newest: an import was
\* registered over a newer entry, or its LSN counter was lowered by a reopening, so
\* that a compaction prefers the older of two entries.
Confused(n) == hidden[n] \/ rewound[n]

\* compare_merkle's answer can be trusted: when the roots are equal and the primary
\* has flushed, the replica answers every get like the primary.  Not so once one of
\* them is confused, compaction dropped a tombstone the replica never received, or the
\* roles have changed.
InSyncAgree ==
    \A p, n \in Nodes :
        /\ Serves(p, n) /\ tokens = <<>> /\ ~unheard /\ ~Confused(p) /\ ~Confused(n)
        /\ mem[p] = Empty
        /\ MerkleRoot(segs[n]) = MerkleRoot(segs[p])
        => Reads(n) = Reads(p)

\* Last writer wins: no import, compaction, flush, crash, restart or failover makes a
\* node forget a write on some key that it has reflected, unless the node is confused.
NeverForgets ==
    [][\A n \in Nodes, k \in Keys : ~Confused(n)' => Known(n, k)' >= Known(n, k)]_vars

\* The hash of a segment that parses leaves the durable pending list within a round
\* only when the node reflects every record of it: a fetch that fails, a corrupt
\* transfer, a kill in the middle of the import or before the cursor is flushed leave
\* it there.  (Of one that does not parse nothing is ever applied.)
PendingUntilApplied ==
    [][\A n \in Nodes : loop[n].pc # "list" /\ ~Confused(n) =>
          \A h \in pending[n] \ pending'[n] :
              Parses(h) => \A k \in Keys : Age(h[k]) <= Known(n, k)]_vars

\* Fencing: every promotion that reached the old primary hands out a token above all
\* earlier ones, also after a crash truncated a WTOKEN file.
TokensGrow ==
    ~blind => \A i, j \in DOMAIN tokens : i < j => tokens[i] < tokens[j]

\* Once the primary has stopped writing and has flushed, the replica ends up with the
\* primary's view, whatever requests failed, whichever segments were compacted on
\* either side and wherever the replica was killed.  The exceptions of InSyncAgree
\* apply, and a segment of the primary that does not parse never arrives.
Converges ==
    \A n \in Nodes \ {First} :
        ((clock = MaxWrites \/ \A op \in Ops : ~Affordable(op)) /\ mem[First] = Empty)
            ~> \/ Reads(n) = Reads(First)
               \/ unheard \/ (\E o \in Nodes : Confused(o)) \/ tokens # <<>>
               \/ \E h \in Hashes(segs[First]) : ~Parses(h)
=============================================================================
