---------------------------- MODULE VectorIndex -----------------------------
(***************************************************************************)
(* Vectors of one namespace: the records in the engine's memtable and      *)
(* segments, the HNSW sidecar and its stamp, the cached index, and         *)
(* vector_search, which uses the index while the stamp equals the hash of  *)
(* the current segments and scans all records otherwise.                   *)
(*                                                                         *)
(* Calls run under the engine's lock and are one action each; readers that *)
(* share it only race for the same cache entry.  The memtable stands for   *)
(* its WAL, and the LSN counter outlives a restart: what a compaction does *)
(* once the counter was rebuilt lower is in Replication and Tier.  A       *)
(* segment's entries serve as its hash, and all segments are in one cohort.*)
(* The files of build_vector_index are written in place, and a failure     *)
(* leaves them torn.                                                       *)
(*                                                                         *)
(* A definition placed right before another one with the same parameters   *)
(* is a variant with a plausible bug; no action uses it.                   *)
(***************************************************************************)
EXTENDS Hnsw

CONSTANTS
    MaxKey,         \* keys are 1..MaxKey
    Vectors,        \* vectors stored or searched for
    Puts,           \* the puts clients make: a set of <<key, vector>>
    Deletes,        \* the keys clients delete
    Contents,       \* contents of the database when it is opened: [Keys -> Vectors or NoEntry]
    Absent, Torn,   \* no file; a file cut short
    Failed,         \* an error is returned
    NoEntry,        \* "no entry for this key"
    EfSearch,       \* beam width of a search
    Layerings,      \* the layers the random generator gives to the nodes of a build
    MaxRamNodes,    \* hnsw_max_ram_bytes, in nodes
    MaxWrites,      \* bound: puts and deletes
    MaxBuilds,      \* bound: calls of build_vector_index
    MaxPast         \* bound: sets of segments the engine went through

Keys == 1..MaxKey

ASSUME VectorAssumption ==
    /\ Contents \subseteq [Keys -> Vectors \cup {NoEntry}]
    /\ Puts \subseteq Keys \X Vectors /\ Deletes \subseteq Keys
    /\ Layerings \subseteq [Keys -> Nat]
    /\ {MaxKey, EfSearch, MaxRamNodes, MaxWrites, MaxBuilds, MaxPast} \subseteq Nat

VARIABLES
    mem,        \* memtable: key -> entry or NoEntry
    segs,       \* the segments, each key -> entry or NoEntry
    sidecar,    \* <slug>.hnsw
    stamp,      \* <slug>.stamp
    cached,     \* vector_indices[ns]
    writes,     \* auxiliary: number of writes, and the LSN of the last one
    builds,     \* auxiliary: number of builds
    past        \* auxiliary: the sets of segments before every change of segs

vars == <<mem, segs, sidecar, stamp, cached, writes, builds, past>>

-----------------------------------------------------------------------------
Entry == [op : {"Put", "Delete"}, vec : Vectors, lsn : Nat]

Live(m) == {k \in Keys : m[k] # NoEntry}
Newest(es) == CHOOSE e \in es : \A f \in es : f.lsn <= e.lsn

\* The entry a read finds: the memtable's, else the newest one flushed.
Current(k) ==
    LET flushed == {s[k] : s \in segs} \ {NoEntry}
    IN  IF mem[k] # NoEntry THEN mem[k]
        ELSE IF flushed # {} THEN Newest(flushed) ELSE NoEntry

\* The namespace as a prefix scan returns it: key -> vector.
Content ==
    [k \in {j \in Keys : Current(j) # NoEntry /\ Current(j).op = "Put"} |-> Current(k).vec]

\* range_merkle_root: a hash of the sorted segment hashes, zero without any.
MerkleRoot == segs

-----------------------------------------------------------------------------
\* An index is a graph, with the state it was built in as auxiliary fields.
BuildGraph(content, layers) ==
    LET keys == SetToSortSeq(DOMAIN content, <)
    IN  FoldLeft(LAMBDA ix, k : Insert(ix, k, content[k], layers[k]),
                 NewIndex(content[keys[1]].dims), keys)

IsIndexStale(file, st, root) == file = Absent \/ st # root

\* A file cut short is an error of the deserializer, before its stamp is looked at.
Deserialize(file) == IF file = Torn THEN Failed ELSE file

\* get_vector_index past the cache: what it returns, or Failed.  A torn file is
\* taken to be within hnsw_max_ram_bytes.
LoadedIndex ==
    IF sidecar = Absent THEN Absent
    ELSE IF Deserialize(sidecar) = Failed THEN Failed
    ELSE IF Len(sidecar.graph.nodes) > MaxRamNodes THEN Absent
    ELSE IF IsIndexStale(sidecar, stamp, MerkleRoot) THEN Absent
    ELSE sidecar

GetVectorIndexCacheOnly ==
    IF cached # Absent THEN cached ELSE LoadedIndex

GetVectorIndex ==
    IF cached # Absent /\ ~IsIndexStale(sidecar, stamp, MerkleRoot) THEN cached ELSE LoadedIndex

-----------------------------------------------------------------------------
\* The flat scan keeps the k best seen so far; one as far as the worst of
\* them is not taken.
FlatSearch(content, q, k, metric) ==
    LET Dist(i) == Distance(metric, q, content[i])
        Keep(heap, i) ==
            IF Cardinality(heap) < k THEN heap \cup {i}
            ELSE LET top == CHOOSE t \in heap : \A u \in heap : Dist(u) <= Dist(t)
                 IN  IF Dist(i) < Dist(top) THEN (heap \ {top}) \cup {i} ELSE heap
    IN  IF k = 0 THEN {}
        ELSE FoldLeft(Keep, {}, SetToSortSeq({i \in DOMAIN content : content[i].dims = q.dims}, <))

\* vector_search: the keys it returns, or Failed.  The index ignores the
\* metric asked for.
VectorSearch(q, k, metric) ==
    LET ix == GetVectorIndex
    IN  IF ix = Failed THEN Failed
        ELSE IF ix # Absent /\ ix.graph.dims = q.dims
             THEN ToSet(Search(ix.graph, q, k, EfSearch))
             ELSE FlatSearch(Content, q, k, metric)

-----------------------------------------------------------------------------
Init ==
    /\ mem = [k \in Keys |-> NoEntry]
    /\ \E c \in Contents :
         segs = {[k \in Keys |-> IF c[k] = NoEntry THEN NoEntry
                                 ELSE [op |-> "Put", vec |-> c[k], lsn |-> 0]]}
                \ {[k \in Keys |-> NoEntry]}
    /\ sidecar = Absent /\ stamp = Absent /\ cached = Absent
    /\ writes = 0 /\ builds = 0 /\ past = {}

Write(k, op, v) ==
    /\ writes < MaxWrites
    /\ writes' = writes + 1
    /\ mem' = [mem EXCEPT ![k] = [op |-> op, vec |-> v, lsn |-> writes']]
    /\ UNCHANGED <<segs, sidecar, stamp, cached, builds, past>>

vector_put(k, v) == Write(k, "Put", v)
vector_delete(k) == \E v \in {CHOOSE v \in Vectors : TRUE} : Write(k, "Delete", v)

flush_to_segments ==
    /\ Live(mem) # {} /\ Cardinality(past) < MaxPast
    /\ segs' = segs \cup {mem}
    /\ mem' = [k \in Keys |-> NoEntry]
    /\ past' = past \cup {segs}
    /\ UNCHANGED <<sidecar, stamp, cached, writes, builds>>

\* The newest entry of each key survives, unless it is a tombstone.
compact_once ==
    LET merged == [k \in Keys |->
                     LET es == {s[k] : s \in segs} \ {NoEntry}
                     IN  IF es # {} /\ Newest(es).op = "Put" THEN Newest(es) ELSE NoEntry]
    IN  /\ Cardinality(past) < MaxPast
        /\ segs' = IF Live(merged) = {} THEN {} ELSE {merged}
        /\ segs' # segs
        /\ past' = past \cup {segs}
        /\ UNCHANGED <<mem, sidecar, stamp, cached, writes, builds>>

\* Nothing is done for an empty namespace, and mixed dimensions are an error.
Buildable == Content # <<>> /\ \A i, j \in DOMAIN Content : Content[i].dims = Content[j].dims

\* The index a build makes, for any layers the random number generator draws.
Built ==
    {[graph |-> BuildGraph(Content, layers), asOf |-> writes] :
        layers \in IF Buildable /\ builds < MaxBuilds THEN Layerings ELSE {}}

build_vector_index(ix) ==
    /\ sidecar' = ix
    /\ stamp' = MerkleRoot
    /\ cached' = sidecar'
    /\ builds' = builds + 1
    /\ UNCHANGED <<mem, segs, writes, past>>

\* Writing the sidecar fails half way, hashing the segments for its stamp fails
\* after it, or writing the stamp.
build_failed(ix) ==
    /\ \/ sidecar' \in {Torn, ix} /\ UNCHANGED stamp
       \/ sidecar' = ix /\ stamp' = Torn
    /\ builds' = builds + 1
    /\ UNCHANGED <<mem, segs, cached, writes, past>>

\* The process is killed while the sidecar or the stamp is written, or
\* between the two, and the engine is opened again.
build_killed(ix) ==
    /\ \/ sidecar' = Torn /\ UNCHANGED stamp
       \/ sidecar' = ix /\ stamp' \in {stamp, Torn}
    /\ cached' = Absent
    /\ builds' = builds + 1
    /\ UNCHANGED <<mem, segs, writes, past>>

\* A search or preload: the cache is filled from the sidecar, or a stale
\* entry is evicted.
get_vector_index ==
    /\ cached' = IF GetVectorIndex = Failed THEN Absent ELSE GetVectorIndex
    /\ cached' # cached
    /\ UNCHANGED <<mem, segs, sidecar, stamp, writes, builds, past>>

restart ==
    /\ cached # Absent
    /\ cached' = Absent
    /\ UNCHANGED <<mem, segs, sidecar, stamp, writes, builds, past>>

Next ==
    \/ \E p \in Puts : vector_put(p[1], p[2])
    \/ \E k \in Deletes : vector_delete(k)
    \/ flush_to_segments
    \/ compact_once
    \/ \E ix \in Built :
         build_vector_index(ix) \/ build_failed(ix) \/ build_killed(ix)
    \/ get_vector_index
    \/ restart

Spec == Init /\ [][Next]_vars

-----------------------------------------------------------------------------
\* The HNSW graph is sound whatever the order of layers and distances:
\* degrees within M, layers nested, an entry point on the top layer.
GraphWellFormed ==
    \A ix \in {sidecar, cached} \ {Absent, Torn} : WellFormed(ix.graph)

VectorOf(ix) ==
    [k \in {ix.graph.nodes[i].key : i \in DOMAIN ix.graph.nodes} |->
       ix.graph.nodes[CHOOSE i \in DOMAIN ix.graph.nodes : ix.graph.nodes[i].key = k].vec]

WrittenSince(ix) == {k \in Keys : mem[k] # NoEntry /\ mem[k].lsn > ix.asOf}

Agrees(ix, ks) ==
    \A k \in ks : /\ k \in DOMAIN VectorOf(ix) <=> k \in DOMAIN Content
                  /\ k \in DOMAIN Content => VectorOf(ix)[k] = Content[k]

\* An index that a search uses holds, for every key not written since it was
\* built, what the engine holds, through failed and killed builds, restarts,
\* flushes and compactions, unless the segments are the same again as before
\* some change.
ServedIndexAgrees ==
    LET ix == GetVectorIndex IN
    ix \notin {Absent, Failed} /\ segs \notin past => Agrees(ix, Keys \ WrittenSince(ix))

IsNearest(found, content, q, k) ==
    LET like == {i \in DOMAIN content : content[i].dims = q.dims}
        Dist(i) == Distance("L2", q, content[i])
    IN  /\ found \subseteq like
        /\ Cardinality(found) = (IF Cardinality(like) < k THEN Cardinality(like) ELSE k)
        /\ \A i \in found, j \in like \ found : Dist(i) <= Dist(j)

\* A search by L2 distance returns the k nearest vectors: from the flat scan
\* always, and from an index of up to M + 1 vectors without writes since.
SearchIsExact ==
    LET ix == GetVectorIndex IN
    \A q \in Vectors, k \in 1..MaxKey :
        \/ ix = Failed
        \/ ix # Absent /\ ix.graph.dims = q.dims
             /\ (segs \in past \/ WrittenSince(ix) # {} \/ Len(ix.graph.nodes) > M + 1)
        \/ IsNearest(VectorSearch(q, k, "L2"), Content, q, k)
=============================================================================
