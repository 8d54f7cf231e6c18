---------------------------- MODULE VectorIndex ----------------------------
(***************************************************************************)
(* A vector index of MemoryGraph: the adapter InMemANNAdapter (storage/src *)
(* /tp/vector_index) that keeps the maps between graph nodes and DiskANN   *)
(* slots, and the graph methods that build, fill, empty, drop and query it.*)
(*                                                                         *)
(* The index is not transactional: its methods read vertices through a     *)
(* transaction but change the index at once, and writes to the graph never *)
(* touch it.  `vec` is the committed vector property of every node.        *)
(***************************************************************************)
EXTENDS DiskAnn

CONSTANTS Nodes,         \* node ids
          Points,        \* vectors
          NoVector,      \* a node that is missing or has no vector property
          Layouts,       \* the graphs the index may be built over at first
          Writes,        \* the <<node, vector>> writes that come later
          Batches,       \* the node lists given to insert and delete
          SearchList,    \* l_value, max(100, limit) in the code
          ThresholdNum, ThresholdDen   \* SELECTIVITY_THRESHOLD, 1/10 in the code

ASSUME VectorIndexAssumption ==
    /\ Nodes \subseteq Nat /\ IsFiniteSet(Nodes)
    /\ Points \subseteq Int \X Int
    /\ SearchList \in Nat \ {0}
    /\ ThresholdNum \in Nat /\ ThresholdDen \in Nat \ {0}
    /\ Layouts \subseteq [Nodes -> Points \cup {NoVector}]
    /\ Writes \subseteq Nodes \X (Points \cup {NoVector})
    /\ Batches \subseteq Seq(Nodes)

VARIABLES vec,      \* the vector of every node, or NoVector
          index,    \* the adapter registered in vector_indices, or NoIndex
          indexed   \* history: the vector a node had when it was indexed

vars == <<vec, index, indexed>>

NoIndex == [inner |-> <<>>]

Exists == index # NoIndex

\* DashMap::remove and ShardedVectorMap::remove / soft_delete on a set of keys.
Without(f, keys) == [x \in DOMAIN f \ keys |-> f[x]]

\* DashMap::insert on every key of g.
Extended(f, g) == [x \in DOMAIN f \cup DOMAIN g |-> IF x \in DOMAIN g THEN g[x] ELSE f[x]]

Init == /\ vec \in Layouts
        /\ index = NoIndex
        /\ indexed = << >>

\* Any committed write to the property (or to the vertex itself).
SetVector(n, p) ==
    /\ vec' = [vec EXCEPT ![n] = p]
    /\ UNCHANGED <<index, indexed>>

-----------------------------------------------------------------------------
(* Building and changing the index.                                        *)

\* collect_vectors_for_index; build sorts by node id.
Sorted(S) == [i \in 1..Cardinality(S) |->
                 CHOOSE n \in S : Cardinality({m \in S : m < n}) = i - 1]

\* InMemANNAdapter::build: slot i - 1 goes to the i-th node.
build(nodes) ==
    [inner          |-> build_from_memory([i \in DOMAIN nodes |-> vec[nodes[i]]]),
     node_to_vector |-> [n \in ToSet(nodes) |-> CHOOSE i \in 0..(Len(nodes) - 1) :
                                                   nodes[i + 1] = n],
     vector_to_node |-> [i \in 0..(Len(nodes) - 1) |-> nodes[i + 1]],
     next_vector_id |-> Len(nodes)]

\* MemoryGraph::build_vector_index: an error leaves the index as it was, a
\* success replaces it.
build_vector_index ==
    LET nodes == Sorted({n \in Nodes : vec[n] # NoVector})
        built == build(nodes)
        ok    == Len(nodes) > 0 /\ ~IsFailed(built.inner)
    IN  /\ index' = IF ok THEN built ELSE index
        /\ indexed' = IF ok THEN [n \in ToSet(nodes) |-> vec[n]] ELSE indexed
        /\ UNCHANGED vec

\* insert, after its checks: the next ids and both maps (a node that the batch
\* names twice takes two ids and keeps the last) ...
Allocated(a, nodes) ==
    LET base == a.next_vector_id
    IN  [a EXCEPT
           !.next_vector_id = @ + Len(nodes),
           !.node_to_vector = Extended(@, [n \in ToSet(nodes) |->
               base + Max({i \in DOMAIN nodes : nodes[i] = n}) - 1]),
           !.vector_to_node = Extended(@, [i \in base..(base + Len(nodes) - 1) |->
               nodes[i - base + 1]])]

\* Slip: the ids are not given back: the next insert is numbered past DiskANN's slots.
RolledBackKeepsIds(a, nodes) ==
    [a EXCEPT
       !.node_to_vector = Without(@, ToSet(nodes)),
       !.vector_to_node = Without(@, (a.next_vector_id - Len(nodes))..(a.next_vector_id - 1))]

\* ... which are taken back when DiskANN refuses the vectors.
RolledBack(a, nodes) ==
    [a EXCEPT
       !.next_vector_id = @ - Len(nodes),
       !.node_to_vector = Without(@, ToSet(nodes)),
       !.vector_to_node = Without(@, (a.next_vector_id - Len(nodes))..(a.next_vector_id - 1))]

\* MemoryGraph::insert_into_vector_index: nodes without a vector are skipped;
\* an emptied index and a node that is already indexed are errors.
insert_into_vector_index(batch) ==
    LET kept  == Sorted({i \in DOMAIN batch : vec[batch[i]] # NoVector})
        nodes == [i \in DOMAIN kept |-> batch[kept[i]]]
        a     == Allocated(index, nodes)
        inner == insert_from_memory(a.inner, [i \in DOMAIN nodes |-> vec[nodes[i]]])
    IN  /\ Exists
        /\ Len(nodes) > 0
        /\ DOMAIN index.node_to_vector # {}
        /\ ToSet(nodes) \cap DOMAIN index.node_to_vector = {}
        /\ IF IsFailed(inner)
           THEN /\ index' = RolledBack(a, nodes)
                /\ UNCHANGED indexed
           ELSE /\ index' = [a EXCEPT !.inner = inner]
                /\ indexed' = Extended(indexed, [n \in ToSet(nodes) |-> vec[n]])
        /\ UNCHANGED vec

\* MemoryGraph::delete_from_vector_index: all or none of the nodes.
delete_from_vector_index(batch) ==
    LET ids == {index.node_to_vector[n] : n \in ToSet(batch)}
    IN  /\ Exists
        /\ batch # <<>>
        /\ ToSet(batch) \subseteq DOMAIN index.node_to_vector
        /\ ids \subseteq DOMAIN index.vector_to_node
        /\ index' = [index EXCEPT
                        !.inner = soft_delete(@, ids),
                        !.node_to_vector =
                            Without(@, {index.vector_to_node[i] : i \in ids}),
                        !.vector_to_node = Without(@, ids)]
        /\ indexed' = Without(indexed, ToSet(batch))
        /\ UNCHANGED vec

delete_vector_index ==
    /\ Exists
    /\ index' = NoIndex
    /\ indexed' = << >>
    /\ UNCHANGED vec

Next == \/ \E w \in Writes : SetVector(w[1], w[2])
        \/ build_vector_index
        \/ \E b \in Batches : insert_into_vector_index(b)
        \/ \E b \in Batches : delete_from_vector_index(b)
        \/ delete_vector_index

Spec == Init /\ [][Next]_vars

-----------------------------------------------------------------------------
(* Queries.  A result is a sequence of [node, distance] records.           *)

\* The results whose slot still belongs to a node.
Named(a, hits) ==
    LET live == SelectSeq(hits, LAMBDA h : /\ h.id \in DOMAIN a.vector_to_node
                                           /\ a.vector_to_node[h.id]
                                                \in DOMAIN a.node_to_vector)
    IN  [i \in DOMAIN live |-> [node |-> a.vector_to_node[live[i].id],
                                distance |-> live[i].distance]]

\* ann_search: the first `count` entries of the buffer DiskANN filled.
ann_search(a, q, k, mask, pre) ==
    LET effective_k == Min({k, Cardinality(DOMAIN a.node_to_vector)})
        result      == search(a.inner, q, effective_k, SearchList, mask, pre)
    IN  IF effective_k = 0 THEN <<>>
        ELSE Named(a, SubSeq(result.buffer, 1, Min({effective_k, result.count})))

\* brute_force_search: a heap of the k nearest candidates, filled in the order
\* of the slots.
brute_force_search(a, q, k, mask) ==
    LET Farthest(heap) == CHOOSE x \in heap :
            \A y \in heap \ {x} : Nearer(a.inner, q, y, x)
        Push(heap, i) ==
            IF Cardinality(heap) < k THEN heap \cup {i}
            ELSE IF Dist(q, a.inner.data[i]) < Dist(q, a.inner.data[Farthest(heap)])
            THEN (heap \ {Farthest(heap)}) \cup {i}
            ELSE heap
        heap   == FoldLeft(Push, {}, Sorted(mask))
        ranked == ByDistance(a.inner, q, heap)
    IN  IF k = 0 THEN <<>>
        ELSE Named(a, [i \in DOMAIN ranked |->
                         [id |-> ranked[i],
                          distance |-> Dist(q, a.inner.data[ranked[i]])]])

\* bitmap_to_vector_ids and FilterMask::new: the mask is as long as its last
\* candidate requires.
Mask(a, filter) ==
    {a.node_to_vector[n] : n \in filter \cap DOMAIN a.node_to_vector}

selectivity_below_threshold(mask) ==
    Cardinality(mask) * ThresholdDen < ThresholdNum * (Max(mask) + 1)

\* MemoryGraph::vector_search with a filter over node ids.
vector_search(a, q, k, filter, pre) ==
    LET mask == Mask(a, filter)
    IN  IF mask = {} THEN <<>>
        ELSE IF selectivity_below_threshold(mask)
        THEN brute_force_search(a, q, k, mask)
        ELSE ann_search(a, q, k, mask, pre)

\* MemoryGraph::vector_search without a filter.
vector_search_all(a, q, k) == ann_search(a, q, k, DOMAIN a.inner.data, FALSE)

-----------------------------------------------------------------------------
(* Properties.                                                             *)

\* The k nearest of a set of indexed nodes, by the vectors they were indexed
\* with, as distances: which of two equally distant nodes comes first is left
\* open.
Distances(q, S) ==
    LET Rank(n) == Cardinality({m \in S : \/ Dist(q, indexed[m]) < Dist(q, indexed[n])
                                          \/ /\ Dist(q, indexed[m]) = Dist(q, indexed[n])
                                             /\ m < n})
    IN  [i \in 1..Cardinality(S) |->
            Dist(q, indexed[CHOOSE n \in S : Rank(n) = i - 1])]

FirstK(s, k) == SubSeq(s, 1, Min({k, Len(s)}))

\* r is what an exact search over the nodes of S returns.
ExactAnswer(r, q, k, S) ==
    /\ [i \in DOMAIN r |-> r[i].distance] = FirstK(Distances(q, S), k)
    /\ \A i \in DOMAIN r : /\ r[i].node \in S
                           /\ r[i].distance = Dist(q, indexed[r[i].node])
    /\ \A i, j \in DOMAIN r : r[i].node = r[j].node => i = j

\* The adapter numbers vectors by itself, DiskANN by appending to its dataset.
\* However inserts fail and deletes intervene, the two agree: the maps are
\* inverse to each other, and the slot of a node holds the vector the node had
\* when it was indexed (InMemANNAdapter::insert, soft_delete).
SlotsAgree ==
    Exists =>
        /\ DOMAIN index.node_to_vector = DOMAIN indexed
        /\ \A n \in DOMAIN indexed :
              /\ index.node_to_vector[n] \in DOMAIN index.vector_to_node
              /\ index.vector_to_node[index.node_to_vector[n]] = n
              /\ index.inner.data[index.node_to_vector[n]] = indexed[n]
        /\ \A i \in DOMAIN index.vector_to_node :
              index.node_to_vector[index.vector_to_node[i]] = i
        /\ index.next_vector_id = Cardinality(DOMAIN index.inner.data)

\* A filtered search of low selectivity (brute_force_search) is exact.  So is an
\* unfiltered one for fewer neighbours than there are slots, while the search
\* list can hold every vector and no neighbour list can overflow (max_degree + 1
\* vectors): neither occlusion nor a deleted vertex on the way nor a deleted
\* entry point cuts a live vector off (greedy_search, robust_prune, inter_insert).
SearchExact ==
    Exists =>
        LET slots == Cardinality(DOMAIN index.inner.data)
        IN  /\ \A q \in Points, k \in 1..Cardinality(Nodes), filter \in SUBSET Nodes :
                 LET mask == Mask(index, filter)
                 IN  (mask # {} /\ selectivity_below_threshold(mask)) =>
                        ExactAnswer(vector_search(index, q, k, filter, FALSE),
                                    q, k, filter \cap DOMAIN indexed)
            /\ slots <= Min({SearchList, BuildList, MaxDegree + 1}) =>
                 \A q \in Points, k \in 1..(slots - 1) :
                    ExactAnswer(vector_search_all(index, q, k), q, k, DOMAIN indexed)
=============================================================================
