------------------------------ MODULE DiskAnn ------------------------------
(***************************************************************************)
(* The in-memory DiskANN index of storage/diskann-rs, as operators on one  *)
(* record: the vectors by slot, the Vamana graph over the slots, the       *)
(* entry point of searches, the preallocated capacity and the set of       *)
(* softly deleted slots.                                                   *)
(*                                                                         *)
(* A vector is a pair of integers, so that squared L2 distances are exact. *)
(* Neighbour lists are sets, because no step of the code depends on the    *)
(* order in which a list is stored.  The build runs with one thread        *)
(* (create_vector_index_config), so vertices enter the graph in the order  *)
(* of their slots.                                                         *)
(***************************************************************************)
EXTENDS Integers, Sequences, FiniteSets, FiniteSetsExt, SequencesExt

CONSTANTS MaxDegree,    \* index_write_parameter.max_degree, 64 in the code
          BuildList,    \* search_list_size of the build, 100 in the code
          Growth        \* growth_potential, 2 in the code

ASSUME DiskAnnAssumption ==
    /\ MaxDegree \in Nat \ {0}
    /\ BuildList \in Nat \ {0}
    /\ Growth \in Nat \ {0}

Failed == [failed |-> TRUE]
IsFailed(ix) == "failed" \in DOMAIN ix

\* distance_l2_vector_f32 returns the squared distance.
Dist(a, b) == (a[1] - b[1]) * (a[1] - b[1]) + (a[2] - b[2]) * (a[2] - b[2])

\* Neighbor::lt: by distance, then by id.
Nearer(ix, q, a, b) ==
    \/ Dist(q, ix.data[a]) < Dist(q, ix.data[b])
    \/ Dist(q, ix.data[a]) = Dist(q, ix.data[b]) /\ a < b

Closest(ix, q, S) == CHOOSE a \in S : \A b \in S \ {a} : Nearer(ix, q, a, b)

\* SortedNeighborVector::new.
ByDistance(ix, q, S) ==
    [i \in 1..Cardinality(S) |->
        CHOOSE a \in S : Cardinality({b \in S : Nearer(ix, q, b, a)}) = i - 1]

\* NeighborPriorityQueue: after any number of inserts it holds the `capacity`
\* nearest of what was put in.
Queue(ix, q, S, capacity) ==
    {a \in S : Cardinality({b \in S : Nearer(ix, q, b, a)}) < capacity}

-----------------------------------------------------------------------------
(* Search.                                                                 *)

\* The body of greedy_search's loop: the nearest candidate that was not expanded
\* yet, if there is one, is replaced by its neighbours.  `cmps` counts the vectors
\* compared with the query; the entry points, compared by init_graph_for_point,
\* are not among them.
expand(ix, q, L, allowed, s) ==
    LET closest == Closest(ix, q, s.best \ s.visited)
        fresh   == ix.graph[closest] \ s.seen
        scratch == fresh \cap allowed
    IN  IF s.best \ s.visited = {} THEN s
        ELSE [best    |-> Queue(ix, q, s.best \cup scratch, L),
              seen    |-> s.seen \cup fresh,
              visited |-> s.visited \cup {closest},
              cmps    |-> s.cmps + Cardinality(scratch)]

\* greedy_search ends when no candidate is left to expand; no slot is expanded twice.
greedy_search(ix, q, L, allowed, init) ==
    LET slots == Cardinality(DOMAIN ix.graph)
        expanded[n \in 0 .. slots] ==
            IF n = 0 THEN [best |-> init, seen |-> init, visited |-> {}, cmps |-> 0]
            ELSE expand(ix, q, L, allowed, expanded[n - 1])
    IN  expanded[slots]

\* get_init_ids: the entry point and, for a pre-filtered search whose entry
\* point the filter refuses, the first slot that passes the filter.
get_init_ids(ix, mask, pre) ==
    IF pre /\ ix.start \notin mask /\ mask # {}
    THEN {ix.start, Min(mask)} ELSE {ix.start}

\* search_for_point: the vertices expanded on the way to the vertex at slot v.
search_for_point(ix, v) ==
    greedy_search(ix, ix.data[v], BuildList, DOMAIN ix.graph, {ix.start}).visited \ {v}

\* Slip: the deleted vertices are not taken out of the candidates.
search_with_deleted(ix, q, k, L, mask, pre) ==
    LET init  == get_init_ids(ix, mask, pre)
        found == greedy_search(ix, q, L, IF pre THEN mask ELSE DOMAIN ix.graph,
                               init)
        hits  == ByDistance(ix, q, found.best \cap mask)
    IN  [buffer |-> [i \in 1..k |->
                        IF i <= Len(hits)
                        THEN [id |-> hits[i], distance |-> Dist(q, ix.data[hits[i]])]
                        ELSE [id |-> 0, distance |-> 0]],
         count  |-> found.cmps]

\* InmemIndex::search: the k best candidates that are neither deleted nor
\* filtered out, written to the front of a buffer of k zeros.  The number
\* returned is that of the comparisons made.
search(ix, q, k, L, mask, pre) ==
    LET init  == get_init_ids(ix, mask, pre)
        found == greedy_search(ix, q, L, IF pre THEN mask ELSE DOMAIN ix.graph,
                               init)
        hits  == ByDistance(ix, q, (found.best \ ix.delete_set) \cap mask)
    IN  [buffer |-> [i \in 1..k |->
                        IF i <= Len(hits)
                        THEN [id |-> hits[i], distance |-> Dist(q, ix.data[hits[i]])]
                        ELSE [id |-> 0, distance |-> 0]],
         count  |-> found.cmps]

-----------------------------------------------------------------------------
(* Graph construction.                                                     *)

\* occlude_list on candidate i: it is kept unless the list is full or a nearer
\* one that was kept is closer to it, by the factor num/den, than the vertex
\* itself is.
keep(ix, v, num, den, kept, i) ==
    LET Occludes(c) ==
            \/ Dist(ix.data[c], ix.data[i]) = 0
            \/ den * Dist(ix.data[v], ix.data[i]) > num * Dist(ix.data[c], ix.data[i])
    IN  IF \/ Cardinality(kept) >= MaxDegree
           \/ \E c \in kept : /\ c # i
                              /\ Nearer(ix, ix.data[v], c, i)
                              /\ Occludes(c)
        THEN kept ELSE kept \cup {i}

\* One round of occlude_list over the candidates in their order.
Round(ix, v, order, num, den, kept0) ==
    LET kept[j \in 0 .. Len(order)] ==
            IF j = 0 THEN kept0 ELSE keep(ix, v, num, den, kept[j - 1], order[j])
    IN  kept[Len(order)]

\* robust_prune with alpha = 1.2: a round at 1.0, then one at 1.2.
prune_neighbors(ix, v, pool) ==
    LET order == ByDistance(ix, ix.data[v], pool)
    IN  Round(ix, v, order, 6, 5, Round(ix, v, order, 1, 1, {}))

\* GRAPH_SLACK_FACTOR * range.
Slack == (13 * MaxDegree) \div 10

\* inter_insert on one neighbour n of the new vertex v: append v, or prune the
\* list with v when it is full.
Linked(ix, n, v) ==
    IF v \in ix.graph[n] THEN ix.graph[n]
    ELSE IF Cardinality(ix.graph[n]) < Slack THEN ix.graph[n] \cup {v}
    ELSE prune_neighbors(ix, n, (ix.graph[n] \cup {v}) \ {n})

\* insert_vertex_id: link the vertex at slot v to what a search for it expands,
\* and those back to it.  A vertex that finds no neighbour is an error.
insert_vertex_id(ix, v) ==
    LET pruned == prune_neighbors(ix, v, search_for_point(ix, v))
        ix1    == [ix EXCEPT !.graph[v] = pruned]
    IN  IF pruned = {} THEN Failed
        ELSE [ix1 EXCEPT !.graph =
                 [n \in DOMAIN @ |-> IF n \in pruned THEN Linked(ix1, n, v) ELSE @[n]]]

\* execute_with_rayon with one thread stops at the first error.
insert_next(ix, v) == IF IsFailed(ix) THEN ix ELSE insert_vertex_id(ix, v)

insert_all(ix, from, to) ==
    LET after[j \in 0 .. (to - from)] ==
            IF j = 0 THEN ix ELSE insert_next(after[j - 1], from + j - 1)
    IN  after[to - from]

\* cleanup_graph: lists that kept more than max_degree neighbours are pruned.
cleanup_graph(ix) ==
    IF IsFailed(ix) THEN ix
    ELSE [ix EXCEPT !.graph =
             [v \in DOMAIN @ |-> IF Cardinality(@[v]) > MaxDegree
                                 THEN prune_neighbors(ix, v, @[v]) ELSE @[v]]]

\* calculate_medoid_point_id: the sum of the vectors, n times their centroid ...
plus(a, b) == <<a[1] + b[1], a[2] + b[2]>>

vector_sum(points) ==
    LET total[i \in 0 .. Len(points)] ==
            IF i = 0 THEN <<0, 0>> ELSE plus(total[i - 1], points[i])
    IN  total[Len(points)]

\* ... and the first of the slots nearest to it.
calculate_medoid_point_id(points) ==
    LET n      == Len(points)
        Off(i) == Dist(vector_sum(points), <<n * points[i][1], n * points[i][2]>>)
    IN  Min({i \in 1..n : \A j \in 1..n : Off(i) <= Off(j)}) - 1

\* new and build_from_memory: slot i holds the i-th vector.
build_from_memory(points) ==
    LET n  == Len(points)
        ix == [data       |-> [i \in 0..(n - 1) |-> points[i + 1]],
               graph      |-> [i \in 0..(n - 1) |-> {}],
               start      |-> calculate_medoid_point_id(points),
               capacity   |-> n * Growth,
               delete_set |-> {}]
    IN  cleanup_graph(insert_all(ix, 0, n))

\* insert_from_memory: refused, without effect, beyond the capacity; otherwise
\* the vectors take the next slots.
insert_from_memory(ix, points) ==
    LET old == Cardinality(DOMAIN ix.data)
        new == old + Len(points)
        ix1 == [ix EXCEPT
                  !.data  = [i \in 0..(new - 1) |->
                                IF i < old THEN @[i] ELSE points[i - old + 1]],
                  !.graph = [i \in 0..(new - 1) |-> IF i < old THEN @[i] ELSE {}]]
    IN  IF new > ix.capacity THEN Failed
        ELSE cleanup_graph(insert_all(ix1, old, new))

\* soft_delete: the vertices stay in the graph, searches walk through them.
soft_delete(ix, ids) == [ix EXCEPT !.delete_set = @ \cup ids]

=============================================================================
