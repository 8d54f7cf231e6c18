------------------------------ MODULE QueryExec ------------------------------
(***************************************************************************)
(* Plans of executors over a small graph.  The executor builder turns a    *)
(* plan bottom-up into a stack of executors; here a plan grows one         *)
(* executor at a time on top of a vertex scan with its property, and the   *)
(* stream that the stack yields is known after every step.  The properties *)
(* compare the rows that count in the stream below an executor with those  *)
(* above it, for every stream that some plan produces: with filters that   *)
(* were not applied yet, with several chunks and with nulls.               *)
(***************************************************************************)
EXTENDS Factorized

CONSTANTS Stores,       \* the graphs: functions from vertex ids to lists of properties
          Adj,          \* Adj[v]: the <<edge, neighbour>> list of a vertex
          ScanBatch, ExpandBatch, SortChunk,    \* batch and chunk sizes
          MaxDepth,     \* executors on top of the scan, three more once factorized
          MaxRows,      \* rows of a stream a plan may still sort or join, and chunks to join
          NoFact        \* the plan is not in the factorized part

VARIABLES store,     \* the graph: vertex -> list of its properties
          stream,    \* what the executors so far yield
          cols,      \* the number of columns of its rows
          fact,      \* the stream of result sets, once transferred
          op,        \* the executor added last
          depth

vars == <<store, stream, cols, fact, op, depth>>

\* The edges between vertices that exist.
Graph == [v \in DOMAIN store |-> SelectSeq(Adj[v], LAMBDA e : e[2] \in DOMAIN store)]

Scan == scan_vertex_property(scan_vertex(DOMAIN store, ScanBatch), 1, <<1>>, store)

Init == /\ store \in Stores
        /\ stream = Scan
        /\ cols = 2
        /\ fact = NoFact
        /\ op = <<"scan">>
        /\ depth = 0

Col(i) == <<"col", i>>
Const(v) == <<"const", v>>
NoOuts == <<>>

Predicates == {<<"gt", Col(2), Const(0)>>,                     \* x > 0
               <<"ne", Col(1), Const(2)>>,                     \* v <> 2
               <<"gt", <<"div", Const(2), Col(2)>>, Const(0)>>,\* 2 / x > 0
               <<"or", <<"lt", Col(2), Const(1)>>, <<"not", <<"eq", Col(1), Const(1)>> >> >>,
               <<"eq", Const(1), Const(1)>>}                   \* a constant condition

Projections == {<<Col(1), <<"add", Col(2), Const(2)>> >>,
                <<Col(1), <<"neg", Col(2)>> >>,
                <<Col(1), Const(1)>>}

SortSpecs == {<<[key |-> Col(2), descending |-> d, nulls_first |-> n]>> : d, n \in BOOLEAN}
             \cup {<<[key |-> Col(2), descending |-> FALSE, nulls_first |-> FALSE],
                     [key |-> Col(1), descending |-> TRUE, nulls_first |-> FALSE]>>}

AllSpecs == <<[func |-> "count", distinct |-> FALSE, expr |-> NoExpr],
              [func |-> "count_expr", distinct |-> FALSE, expr |-> Col(2)],
              [func |-> "count_expr", distinct |-> TRUE, expr |-> Col(2)],
              [func |-> "sum", distinct |-> FALSE, expr |-> Col(2)],
              [func |-> "avg", distinct |-> FALSE, expr |-> Col(2)],
              [func |-> "min", distinct |-> FALSE, expr |-> Col(2)],
              [func |-> "max", distinct |-> FALSE, expr |-> Col(2)]>>

Grows(name) == /\ depth < MaxDepth
               /\ fact = NoFact
               /\ stream.end = "done"
               /\ depth' = depth + 1
               /\ op' = name
               /\ UNCHANGED <<store, fact>>

Filter(p) == /\ Grows(<<"filter", p>>)
             /\ stream' = filter(stream, p)
             /\ UNCHANGED cols

Project(es) == /\ Grows(<<"project", es>>)
               /\ stream' = project(stream, es)
               /\ cols' = 2

Limit(n) == /\ Grows(<<"limit", n>>)
            /\ stream' = limit(stream, n)
            /\ UNCHANGED cols

Offset(n) == /\ Grows(<<"offset", n>>)
             /\ stream' = offset(stream, n)
             /\ UNCHANGED cols

Sort(specs) == /\ Grows(<<"sort", specs>>)
               /\ Len(Live(stream)) =< MaxRows
               /\ stream' \in sort(stream, specs, SortChunk)
               /\ UNCHANGED cols

\* PhysicalExpand is built as an expand and the flatten of its two columns.
Expand == /\ Grows(<<"expand", 1>>)
          /\ stream' = flatten(expand(stream, 1, Graph, ExpandBatch), cols + 2)
          /\ cols' = cols + 2

\* An expand whose neighbour list is filtered before it is flattened; the edge
\* list is filtered with the same flags.
ExpandFiltered(keep) ==
    /\ Grows(<<"expand_filtered", keep>>)
    /\ LET s == expand(stream, 1, [v \in DOMAIN Graph |->
                                      [k \in DOMAIN Graph[v] |-> <<Graph[v][k][2], Graph[v][k][2]>>]],
                       ExpandBatch)
       IN  stream' = flatten(factorized_filter(factorized_filter(s, keep, cols + 1), keep, cols + 2),
                             cols + 2)
    /\ cols' = cols + 2

FetchProperty == /\ Grows(<<"property", 1>>)
                 /\ stream' = scan_vertex_property(stream, 1, <<1>>, store)
                 /\ cols' = cols + 1

\* A join with the scan, on the vertex; scanRight says on which side the scan is.
Join(scanRight) ==
    /\ Grows(<<"join", scanRight>>)
    /\ Len(Live(stream)) =< MaxRows
    /\ LET l == IF scanRight THEN stream ELSE Scan
           r == IF scanRight THEN Scan ELSE stream
       IN  /\ Len(l.chunks) + Len(r.chunks) =< MaxRows
           /\ \E order \in [DOMAIN r.chunks -> Orders(DOMAIN l.chunks)] :
                 stream' = join(l, r, Col(1), Col(1), order)
    /\ cols' = cols + 2

\* An aggregate ends the plan here: its columns are not those of a scan.
Aggregate(outs) ==
    /\ Grows(<<"aggregate", outs>>)
    /\ stream' = [aggregate(stream, AllSpecs, outs) EXCEPT !.end = IF @ = "done" THEN "last" ELSE @]
    /\ cols' = IF outs = NoOuts THEN Len(AllSpecs) ELSE Len(outs)

AggregateBy(key) ==
    /\ Grows(<<"aggregate_by", key>>)
    /\ \E s \in aggregate_by(stream, <<Col(key)>>, AllSpecs, NoOuts) :
           stream' = [s EXCEPT !.end = IF @ = "done" THEN "last" ELSE @]
    /\ cols' = Len(AllSpecs) + 1

-----------------------------------------------------------------------------

(***************************************************************************)
(* The factorized part: a transferred stream and, next to it, the stream   *)
(* of the flat executors that do the same.                                 *)
(***************************************************************************)
Transfer == /\ depth < MaxDepth
            /\ fact = NoFact /\ stream.end = "done"
            /\ fact' = factorized_transfer(stream)
            /\ op' = <<"transfer">>
            /\ depth' = depth + 1
            /\ UNCHANGED <<store, stream, cols>>

FGrows(name) == /\ depth < MaxDepth + 3
                /\ fact # NoFact
                /\ fact.end = "done" /\ stream.end = "done"
                /\ op[1] # "fproject"
                /\ depth' = depth + 1
                /\ op' = name
                /\ UNCHANGED store

\* The planner knows which chunk is flat: it is so in every result set.  The column is
\* the vertex of the scan or the neighbour of a first expansion.
FExpand(pos, col) ==
                /\ FGrows(<<"fexpand", pos>>)
                /\ \A k \in DOMAIN fact.sets : pos \in FlatAt(fact.sets[k])
                /\ col = 4 =>
                     /\ pos = 1
                     /\ \A k \in DOMAIN fact.sets : Len(fact.sets[k].chunks[1].rows[1]) = 4
                     /\ \A n \in DOMAIN Live(stream) : Live(stream)[n][4] \in DOMAIN store
                /\ fact' = factorized_expand(fact, pos, col, Graph)
                /\ stream' = flatten(expand(stream, col, Graph, ExpandBatch), cols + 2)
                /\ cols' = cols + 2

FFlatten(pos) == /\ FGrows(<<"fflatten", pos>>)
                 /\ fact' = factorized_flatten(fact, pos)
                 /\ UNCHANGED <<stream, cols>>

FProject(l, r) == /\ FGrows(<<"fproject", l, r>>)
                  /\ fact' = factorized_project(fact, "add", l, r)
                  /\ UNCHANGED <<stream, cols>>

Next == \/ \E p \in Predicates : Filter(p)
        \/ \E es \in Projections : Project(es)
        \/ \E n \in 0..3 : Limit(n) \/ Offset(n)
        \/ \E specs \in SortSpecs : Sort(specs)
        \/ Expand
        \/ \E keep \in {{2}, {1, 3}} : ExpandFiltered(keep)
        \/ FetchProperty
        \/ \E side \in BOOLEAN : Join(side)
        \/ \E outs \in {NoOuts, << <<"add", Col(1), Col(2)>> >>} : Aggregate(outs)
        \/ \E key \in 1..2 : AggregateBy(key)
        \/ Transfer
        \/ \E pos \in 1..3 : (\E col \in {1, 4} : FExpand(pos, col)) \/ FFlatten(pos)
        \/ \E l, r \in {<<1, 1>>, <<2, 1>>, <<2, 2>>} : FProject(l, r)

Spec == Init /\ [][Next]_vars

-----------------------------------------------------------------------------
(* Properties. *)

Unfiltered(s) == \A k \in DOMAIN s.chunks : s.chunks[k].filter = Compact

Occurs(x, list) == Len(SelectSeq(list, LAMBDA y : y = x))

SameBag(s, t) == Len(s) = Len(t) /\ \A i \in DOMAIN s : Occurs(s[i], s) = Occurs(s[i], t)

\* The value of an expression for one row, as the row semantics defines it.
ValueOf(e, row) == evaluate(e, new(<<row>>))

Done == stream.end = "done" /\ stream'.end \in {"done", "last"}

\* Filter and Project act on exactly the rows that count: what a filter keeps are the
\* counting rows whose predicate is true (not null), in their order, also when the chunk
\* carries the filter of an earlier executor (filter.rs combines both); a projection maps
\* those rows one by one; and a row that cannot be evaluated never disappears silently.
FilterProjectExact ==
    [][/\ op'[1] = "filter" /\ Done =>
             Live(stream') = SelectSeq(Live(stream), LAMBDA r : ValueOf(op'[2], r).array[1] = TRUE)
       /\ op'[1] = "project" /\ Done =>
             Live(stream') = [n \in DOMAIN Live(stream) |->
                                [q \in 1..2 |-> ValueOf(op'[2][q], Live(stream)[n]).array[1]]]
       /\ op'[1] \in {"filter", "project"} /\ op' # op =>
             ((\E n \in DOMAIN Live(stream) :
                  \E e \in (IF op'[1] = "filter" THEN {op'[2]} ELSE Range(op'[2])) :
                     ~ValueOf(e, Live(stream)[n]).ok) => stream'.end # "done")]_vars

\* Limit yields a prefix and Offset a suffix of the counting rows, Limit never more than
\* asked, and when no chunk carries a filter both cut at exactly the n-th row, wherever
\* the chunk boundaries are (limit.rs and offset.rs count across chunks).
LimitOffsetCut ==
    [][/\ op'[1] = "limit" /\ Done =>
             /\ IsPrefix(Live(stream'), Live(stream))
             /\ Len(Live(stream')) =< op'[2]
             /\ Unfiltered(stream) =>
                  Len(Live(stream')) = (IF Len(Live(stream)) < op'[2] THEN Len(Live(stream)) ELSE op'[2])
       /\ op'[1] = "offset" /\ Done =>
             /\ IsSuffix(Live(stream'), Live(stream))
             /\ Unfiltered(stream) =>
                  Len(Live(stream')) = (IF Len(Live(stream)) < op'[2] THEN 0
                                        ELSE Len(Live(stream)) - op'[2])]_vars

\* Whether x may stand before y in the order a key asks for.
MayPrecede(spec, x, y) ==
    IF x = Null \/ y = Null THEN x = y \/ (x = Null) = spec.nulls_first
    ELSE IF spec.descending THEN x >= y ELSE x =< y

\* Sort yields the counting rows, none lost or repeated over the slices, in the order of
\* the first key that differs, with the nulls where the options of the key put them.
SortExact ==
    [][op'[1] = "sort" /\ Done =>
          LET before == Live(stream)
              after  == Live(stream')
              specs  == op'[2]
              key(q, n) == ValueOf(specs[q].key, after[n]).array[1]
          IN  /\ SameBag(before, after)
              /\ Unfiltered(stream')
              /\ \A k \in DOMAIN stream'.chunks : len(stream'.chunks[k]) \in 1..SortChunk
              /\ \A n \in 1..(Len(after) - 1) : \A q \in DOMAIN specs :
                     (\A p \in 1..(q-1) : key(p, n) = key(p, n+1)) =>
                         MayPrecede(specs[q], key(q, n), key(q, n+1))
      ]_vars

\* Expanding and flattening yields, for every counting row in order, one row per edge of
\* its vertex in the order of the edges, whatever the batches of the source, and no row
\* for a vertex that an earlier filter excluded (expand.rs compacts first); the filtered
\* variant yields the subset its list filter keeps.
ExpandExact ==
    [][op'[1] \in {"expand", "expand_filtered"} /\ Done =>
          Live(stream') = FlattenSeq([n \in DOMAIN Live(stream) |->
              LET row == Live(stream)[n]
                  es  == SelectSeq(Graph[row[1]],
                             LAMBDA e : op'[1] = "expand" \/ e[2] \in op'[2])
              IN  [m \in DOMAIN es |->
                     row \o <<IF op'[1] = "expand" THEN es[m][1] ELSE es[m][2], es[m][2]>>]])]_vars

\* The hash join yields every pair of a counting left row and a right row with the same
\* key exactly once, when the right input carries no filter; a left row excluded by a
\* filter never comes back although the hash table holds it (join.rs, concat).
JoinExact ==
    [][op'[1] = "join" /\ Done =>
          LET l == IF op'[2] THEN Live(stream) ELSE Live(Scan)
              r == IF op'[2] THEN Live(Scan) ELSE Live(stream)
              rightFiltered == ~op'[2] /\ ~Unfiltered(stream)
              pairs == FlattenSeq([n \in DOMAIN r |->
                          [m \in DOMAIN SelectSeq(l, LAMBDA x : x[1] = r[n][1]) |->
                              SelectSeq(l, LAMBDA x : x[1] = r[n][1])[m] \o r[n]]])
          IN  /\ \A i \in DOMAIN pairs : Occurs(pairs[i], Live(stream')) >= Occurs(pairs[i], pairs)
              /\ ~rightFiltered => SameBag(Live(stream'), pairs)]_vars

\* Reference values of the aggregates of a list of values.
NonNull(list) == SelectSeq(list, LAMBDA v : v # Null)

Total(list) == LET t[n \in 0..Len(list)] == IF n = 0 THEN 0 ELSE t[n-1] + list[n] IN t[Len(list)]

Expected(list) ==
    LET vs == NonNull(list)
    IN  [count |-> Len(list), count_expr |-> Len(vs), distinct |-> Cardinality(Range(vs)),
         sum |-> Total(vs), some |-> vs # <<>>, range |-> Range(vs)]

Agrees(got, e) ==
    /\ got[1] = e.count /\ got[2] = e.count_expr /\ got[3] = e.distinct
    /\ e.sum \in MinInt..MaxInt => got[4] = (IF e.some THEN e.sum ELSE Null)
    /\ got[5] = (IF e.some THEN <<e.sum, e.count_expr>> ELSE Null)
    /\ IF e.some THEN /\ got[6] \in e.range /\ \A v \in e.range : got[6] =< v
                      /\ got[7] \in e.range /\ \A v \in e.range : got[7] >= v
       ELSE got[6] = Null /\ got[7] = Null

\* Aggregation sees every counting row once and no other row, over all chunks: COUNT,
\* COUNT(x), COUNT(DISTINCT x), SUM, AVG, MIN and MAX have their values on the rows that
\* count, null values ignored; a sum that fits the integer type is exact although partial
\* sums may have wrapped; grouping yields one row per key with the values of its rows, and
\* without rows the plain aggregate still yields one row and the grouped one none.
AggregateExact ==
    [][/\ op' = <<"aggregate", NoOuts>> /\ Done =>
             /\ Len(Live(stream')) = 1
             /\ Agrees(Live(stream')[1], Expected([n \in DOMAIN Live(stream) |-> Live(stream)[n][2]]))
       /\ op'[1] = "aggregate_by" /\ Done =>
             LET out == Live(stream')
                 key == op'[2]
                 of(g) == SelectSeq(Live(stream), LAMBDA r : r[key] = g)
             IN  /\ {out[n][1] : n \in DOMAIN out} = {Live(stream)[n][key] : n \in DOMAIN Live(stream)}
                 /\ \A n, m \in DOMAIN out : n # m => out[n][1] # out[m][1]
                 /\ \A n \in DOMAIN out :
                       Agrees(Tail(out[n]), Expected([i \in DOMAIN of(out[n][1]) |-> of(out[n][1])[i][2]]))
      ]_vars

\* The tuples a result set stands for, each as the bag of its values.
BagOf(t) == [v \in Range(t) |-> Occurs(v, t)]

Tuples(rs) ==
    LET here(p) == IF rs.chunks[p].cur = Unflat THEN rs.chunks[p].rows
                   ELSE <<rs.chunks[p].rows[rs.chunks[p].cur]>>
        t[p \in 0..Len(rs.chunks)] ==
            IF p = 0 THEN << <<>> >>
            ELSE FlattenSeq([n \in DOMAIN t[p-1] |->
                    [m \in DOMAIN here(p) |-> t[p-1][n] \o here(p)[m]]])
        all == t[Len(rs.chunks)]
    IN  [n \in DOMAIN all |-> BagOf(all[n])]

\* Factorized execution agrees with the flat executors wherever every vertex has a
\* neighbour: result sets stand for exactly the rows of the flat plan, also after chunks
\* were merged and removed by swapping (factorized_flatten.rs), COUNT and SUM over them
\* are those of the flat rows, and a projection makes up for the chunks it drops with
\* its factor (factorized_project.rs).
FactorizedAgrees ==
    (/\ fact # NoFact /\ (fact # NoFact => fact.end = "done") /\ stream.end = "done"
     /\ \A v \in DOMAIN store : Graph[v] # <<>>) =>
        /\ factorized_count(fact) = Len(Live(stream))
        /\ op[1] # "fproject" =>
              /\ SameBag(FlattenSeq([k \in DOMAIN fact.sets |-> Tuples(fact.sets[k])]),
                         [n \in DOMAIN Live(stream) |-> BagOf(Live(stream)[n])])
              /\ \A pos \in 1..2 :
                    (\A k \in DOMAIN fact.sets : pos \in FlatAt(fact.sets[k])) =>
                       factorized_aggregate(fact, AllSpecs[4], pos, 2) = Results(<<AllSpecs[4]>>, Live(stream))[1]
=============================================================================
