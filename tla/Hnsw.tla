-------------------------------- MODULE Hnsw --------------------------------
(***************************************************************************)
(* The HNSW graph: insertion, pruning, neighbour selection and the layered *)
(* beam search, as operators on an index record.                           *)
(*                                                                         *)
(* Nodes are numbered from 1; nbrs[l + 1] is a node's list on layer l.     *)
(* Equal distances are resolved by node number where the code leaves them  *)
(* in the order of a heap.  The layer of a node comes from a random number *)
(* generator and is a parameter here.                                      *)
(*                                                                         *)
(* A definition placed right before another one with the same parameters   *)
(* is a variant with a plausible bug; nothing uses it.                     *)
(***************************************************************************)
EXTENDS Integers, Sequences, FiniteSets, SequencesExt

CONSTANTS
    M,                \* most neighbours of a node on a layer
    EfConstruction    \* beam width of an insertion

ASSUME HnswAssumption == M \in Nat \ {0, 1} /\ EfConstruction \in Nat \ {0}

-----------------------------------------------------------------------------
\* Vectors: [dims, x], with one coordinate standing for all.

Abs(n) == IF n < 0 THEN -n ELSE n
Distance(metric, a, b) == IF metric = "L2" THEN Abs(a.x - b.x) ELSE -(a.x * b.x)

NewIndex(dims) == [nodes |-> <<>>, entry |-> 1, maxLayer |-> 0, dims |-> dims]

DistTo(ix, q, i) == Distance("L2", q, ix.nodes[i].vec)
Before(ix, q, i, j) ==
    \/ DistTo(ix, q, i) < DistTo(ix, q, j)
    \/ DistTo(ix, q, i) = DistTo(ix, q, j) /\ i <= j

\* The nodes of S by distance to q.
Sorted(ix, q, S) == SetToSortSeq(S, LAMBDA i, j : i # j /\ Before(ix, q, i, j))

ClosestOf(ix, q, S, n) ==
    LET s == Sorted(ix, q, S) IN {s[i] : i \in 1..(IF Len(s) < n THEN Len(s) ELSE n)}

LayersOf(ix, i) == Len(ix.nodes[i].nbrs)
Neighbors(ix, i, l) ==
    IF l < LayersOf(ix, i) THEN ToSet(ix.nodes[i].nbrs[l + 1]) ELSE {}

-----------------------------------------------------------------------------
(***************************************************************************)
(* Greedy beam search on one layer.  The candidate closest to the query is *)
(* expanded next; the search stops at one farther than the worst result.   *)
(***************************************************************************)
RECURSIVE Explore(_, _, _, _, _, _, _)
Explore(ix, q, ef, l, visited, candidates, results) ==
    IF candidates = {} THEN results
    ELSE LET c == Sorted(ix, q, candidates)[1]
             worst == Sorted(ix, q, results)[Cardinality(results)]
             new == Neighbors(ix, c, l) \ visited
         IN  IF DistTo(ix, q, c) > DistTo(ix, q, worst) THEN results
             ELSE Explore(ix, q, ef, l, visited \cup new, (candidates \ {c}) \cup new,
                          ClosestOf(ix, q, results \cup new, ef))

SearchLayer(ix, q, ep, ef, l) ==
    Sorted(ix, q, Explore(ix, q, ef, l, {ep}, {ep}, {ep}))

\* From the given node down the layers from..to, keeping the best of each.
Descend(ix, q, ep, ef, from, to) ==
    FoldLeft(LAMBDA c, l : SearchLayer(ix, q, c, ef, l)[1], ep,
             [i \in 1..(from - to + 1) |-> from - i + 1])

-----------------------------------------------------------------------------
\* Neighbours: a candidate is taken when it is no farther from the new node
\* than from any one taken before; the rest fill the free places.
SelectNeighbors(ix, q, candidates) ==
    LET Take(acc, c) ==
          IF Len(acc.taken) >= M THEN acc
          ELSE IF \A s \in ToSet(acc.taken) :
                    DistTo(ix, q, c) <= DistTo(ix, ix.nodes[c].vec, s)
               THEN [acc EXCEPT !.taken = Append(@, c)]
               ELSE [acc EXCEPT !.left = Append(@, c)]
        acc == FoldLeft(Take, [taken |-> <<>>, left |-> <<>>], candidates)
        all == acc.taken \o acc.left
    IN  SubSeq(all, 1, IF Len(all) < M THEN Len(all) ELSE M)

\* The M closest neighbours of a node, if it has more.
PruneNeighbors(ix, i, l) ==
    IF Len(ix.nodes[i].nbrs[l + 1]) <= M THEN ix
    ELSE [ix EXCEPT !.nodes[i].nbrs[l + 1] =
            SubSeq(Sorted(ix, ix.nodes[i].vec, ToSet(@) \ {i}), 1, M)]

ConnectUnpruned(ix, i, n, l) ==
    LET one == [ix EXCEPT !.nodes[i].nbrs[l + 1] = Append(@, n)]
    IN  IF l < LayersOf(ix, n) THEN [one EXCEPT !.nodes[n].nbrs[l + 1] = Append(@, i)] ELSE one

ConnectOneWay(ix, i, n, l) == [ix EXCEPT !.nodes[i].nbrs[l + 1] = Append(@, n)]

\* Both directions; the neighbour's list is cut back to M.
Connect(ix, i, n, l) ==
    LET one == [ix EXCEPT !.nodes[i].nbrs[l + 1] = Append(@, n)]
    IN  IF l < LayersOf(ix, n)
        THEN PruneNeighbors([one EXCEPT !.nodes[n].nbrs[l + 1] = Append(@, i)], n, l)
        ELSE one

\* The first node, or one on a new top layer, becomes the entry point.
Promote(ix, i, layer) ==
    IF i > 1 /\ layer <= ix.maxLayer THEN ix
    ELSE [ix EXCEPT !.entry = i, !.maxLayer = layer]

Insert(ix, key, vec, layer) ==
    LET i == Len(ix.nodes) + 1
        with == [ix EXCEPT !.nodes =
                   Append(@, [key |-> key, vec |-> vec, nbrs |-> [l \in 1..(layer + 1) |-> <<>>]])]
        low == IF layer < ix.maxLayer THEN layer ELSE ix.maxLayer
        \* one layer: search from where the layer above ended, then connect
        Layer(acc, l) ==
            LET knn == SearchLayer(acc.ix, vec, acc.at, EfConstruction, l)
            IN  [ix |-> FoldLeft(LAMBDA x, n : Connect(x, i, n, l), acc.ix,
                                 SelectNeighbors(acc.ix, vec, knn)),
                 at |-> knn[1]]
        start == [ix |-> with, at |-> Descend(with, vec, ix.entry, 1, ix.maxLayer, low + 1)]
        linked == FoldLeft(Layer, start, [k \in 1..(low + 1) |-> low + 1 - k]).ix
    IN  Promote(IF i = 1 THEN with ELSE linked, i, layer)

-----------------------------------------------------------------------------
\* The k keys closest to q that the search finds, in order.
Search(ix, q, k, ef) ==
    LET beam == IF ef < k THEN k ELSE ef
        curr == Descend(ix, q, ix.entry, beam, ix.maxLayer, 1)
        found == SearchLayer(ix, q, curr, beam, 0)
        hits == SubSeq(found, 1, IF Len(found) < k THEN Len(found) ELSE k)
    IN  IF Len(ix.nodes) = 0 THEN <<>>
        ELSE IF Len(ix.nodes) = 1 THEN <<ix.nodes[1].key>>
        ELSE [i \in DOMAIN hits |-> ix.nodes[hits[i]].key]

\* Every list is within M, without duplicates or the node itself, names only
\* nodes that exist on its layer, and the entry point reaches the top layer.
WellFormed(ix) ==
    /\ ix.nodes # <<>> => LayersOf(ix, ix.entry) = ix.maxLayer + 1
    /\ \A i \in DOMAIN ix.nodes :
         /\ LayersOf(ix, i) \in 1..(ix.maxLayer + 1)
         /\ \A l \in 0..(LayersOf(ix, i) - 1) :
              LET list == ix.nodes[i].nbrs[l + 1] IN
              /\ Len(list) <= M
              /\ Cardinality(ToSet(list)) = Len(list)
              /\ \A n \in ToSet(list) : n # i /\ n \in DOMAIN ix.nodes /\ l < LayersOf(ix, n)
=============================================================================
