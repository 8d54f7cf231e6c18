----------------------------- MODULE Factorized -----------------------------
(***************************************************************************)
(* Factorized execution.  A result set stands for the product of its       *)
(* chunks: a flat chunk contributes the row under its cursor, an unflat    *)
(* one all its rows, and the whole is repeated factor times.  A stream is  *)
(* a sequence of result sets with the end of Executors.                    *)
(***************************************************************************)
EXTENDS Aggregates

CONSTANT Unflat    \* the cursor of an unflat chunk (None)

FlatChunk(list, cur) == [rows |-> list, cur |-> cur]

ResultSet(chunks, factor) == [chunks |-> chunks, factor |-> factor]

FStream(sets, end) == [sets |-> sets, end |-> end]

FlatAt(rs) == {p \in DOMAIN rs.chunks : rs.chunks[p].cur # Unflat}

Product(seq) == LET f[n \in 0..Len(seq)] == IF n = 0 THEN 1 ELSE f[n-1] * seq[n]
                IN  f[Len(seq)]

\* Only unflat chunks contribute to the number of tuples.
get_num_tuples_without_factor(rs, scope) ==
    Product([p \in DOMAIN rs.chunks |->
                IF p \in scope /\ rs.chunks[p].cur = Unflat THEN Len(rs.chunks[p].rows) ELSE 1])

get_num_tuples(rs, scope) == get_num_tuples_without_factor(rs, scope) * rs.factor

\* remove_chunk is a swap_remove: the last chunk takes the place of the removed one.
remove_chunk(chunks, p) == SubSeq([chunks EXCEPT ![p] = chunks[Len(chunks)]], 1, Len(chunks) - 1)

\* Slip: in ascending order.
remove_in_order(chunks, p, q) ==
    IF p > q THEN remove_chunk(remove_chunk(chunks, q), p)
    ELSE remove_chunk(remove_chunk(chunks, p), q)

\* In descending order, so that no position is shifted before it is used.
remove_multiple_chunks(chunks, p, q) ==
    IF p > q THEN remove_chunk(remove_chunk(chunks, p), q)
    ELSE remove_chunk(remove_chunk(chunks, q), p)

\* One result set per live row, all with the same chunk and another cursor.
factorized_transfer(s) ==
    FStream(FlattenSeq([k \in DOMAIN s.chunks |->
                LET c == compact(s.chunks[k])
                IN  [i \in 1..len(c) |-> ResultSet(<<FlatChunk(c.rows, i)>>, 1)]]), s.end)

\* The loop of an executor over result sets, as Loop of Executors.
FLoop(f, steps) == LET s == Loop([chunks |-> f.sets, end |-> f.end], steps)
                   IN  FStream(s.chunks, s.end)

\* A vertex without neighbours leaves its result set as it is: no chunk is pushed.
factorized_expand(f, pos, col, adj) ==
    FLoop(f, [k \in DOMAIN f.sets |->
        LET rs == f.sets[k]
            c  == rs.chunks[pos]
            v  == c.rows[c.cur][col]
        IN  IF c.cur = Unflat THEN Stops(<<>>, "panic")
            ELSE IF \E i \in DOMAIN c.rows : c.rows[i][col] = Null THEN Stops(<<>>, "panic")
            ELSE IF v \notin DOMAIN adj THEN Goes(<<rs>>)
            ELSE IF adj[v] = <<>> THEN Goes(<<rs>>)
            ELSE Goes(<<[rs EXCEPT !.chunks = Append(@, FlatChunk(adj[v], Unflat))]>>)])

(***************************************************************************)
(* Flatten merges an unflat chunk with the (first) flat one: the row under *)
(* the cursor is repeated for each of its rows, both chunks leave and the  *)
(* merged one is pushed with the cursor on each row in turn.               *)
(***************************************************************************)
factorized_flatten(f, pos) ==
    FLoop(f, [k \in DOMAIN f.sets |->
        LET rs   == f.sets[k]
            at   == CHOOSE p \in FlatAt(rs) : \A q \in FlatAt(rs) : p =< q
            here == rs.chunks[at].rows[rs.chunks[at].cur]
            list == [i \in DOMAIN rs.chunks[pos].rows |-> here \o rs.chunks[pos].rows[i]]
            rest == remove_multiple_chunks(rs.chunks, at, pos)
        IN  IF pos \notin DOMAIN rs.chunks THEN Stops(<<>>, "panic")
            ELSE IF rs.chunks[pos].cur # Unflat \/ FlatAt(rs) = {} THEN Stops(<<>>, "panic")
            ELSE Goes([i \in DOMAIN list |->
                          [rs EXCEPT !.chunks = Append(rest, FlatChunk(list, i))]])])

-----------------------------------------------------------------------------

\* A factorized expression evaluates to a datum with a cursor.
FDatum(d, cur) == [d |-> d, cur |-> cur]

ref(rs, pos, col) ==
    FDatum(Datum([i \in DOMAIN rs.chunks[pos].rows |-> rs.chunks[pos].rows[i][col]], FALSE),
           rs.chunks[pos].cur)

Under(x) == Datum(<<x.d.array[x.cur]>>, TRUE)    \* the value under the cursor

(***************************************************************************)
(* FactorizedBinary of two column references l and r (each <<pos, col>>):  *)
(* a flat operand is a scalar; two unflat columns are combined row by row  *)
(* in one chunk, in a cartesian product across two.                        *)
(***************************************************************************)
factorized_binary(op, rs, l, r) ==
    LET x == ref(rs, l[1], l[2])
        y == ref(rs, r[1], r[2])
        cross == [i \in DOMAIN x.d.array |-> binary(op, Datum(<<x.d.array[i]>>, TRUE), y.d)]
    IN  IF x.cur # Unflat /\ y.cur # Unflat
        THEN FDatum(binary(op, [Under(x) EXCEPT !.is_scalar = FALSE],
                               [Under(y) EXCEPT !.is_scalar = FALSE]), 1)
        ELSE IF x.cur # Unflat THEN FDatum(binary(op, Under(x), y.d), Unflat)
        ELSE IF y.cur # Unflat THEN FDatum(binary(op, x.d, Under(y)), Unflat)
        ELSE IF l[1] = r[1] THEN FDatum(binary(op, x.d, y.d), Unflat)
        ELSE FDatum(IF \E i \in DOMAIN cross : ~cross[i].ok THEN Failed
                    ELSE Datum(FlattenSeq([i \in DOMAIN cross |-> cross[i].array]), FALSE), Unflat)

\* Project one expression (columns l and r combined by op); the factor makes up for
\* the chunks that are gone.  An empty unflat result divides by zero.
factorized_project(f, op, l, r) ==
    FLoop(f, [k \in DOMAIN f.sets |->
        LET rs    == f.sets[k]
            x     == factorized_binary(op, rs, l, r)
            out   == <<FlatChunk([i \in DOMAIN x.d.array |-> <<x.d.array[i]>>], x.cur)>>
            one   == ResultSet(out, 1)
            n     == get_num_tuples_without_factor(one, {1})
            total == get_num_tuples(rs, DOMAIN rs.chunks)
        IN  IF ~({l[1], r[1]} \subseteq DOMAIN rs.chunks) THEN Stops(<<>>, "panic")
            ELSE IF ~x.d.ok THEN Stops(<<>>, "error")
            ELSE IF n = 0 THEN Stops(<<>>, "panic")
            ELSE Goes(<<[one EXCEPT !.factor = total \div n]>>)])

-----------------------------------------------------------------------------

\* The values an aggregate of column col of chunk pos sees of a result set, each
\* repeated for the tuples the other chunks and the factor stand for.
process_aggregate(rs, pos, col) ==
    LET c    == rs.chunks[pos]
        times == get_num_tuples(rs, DOMAIN rs.chunks \ {pos})
        seen == IF c.cur = Unflat THEN [i \in DOMAIN c.rows |-> c.rows[i][col]]
                ELSE <<c.rows[c.cur][col]>>
    IN  FlattenSeq([i \in DOMAIN seen |->
                       IF seen[i] = Null THEN <<>> ELSE [n \in 1..times |-> seen[i]]])

\* COUNT of all tuples, and the values of a column, over a whole stream.
factorized_count(f) ==
    LET n[k \in 0..Len(f.sets)] ==
            IF k = 0 THEN 0
            ELSE n[k-1] + (IF f.sets[k].chunks = <<>> THEN 0
                           ELSE get_num_tuples(f.sets[k], DOMAIN f.sets[k].chunks))
    IN  n[Len(f.sets)]

factorized_values(f, pos, col) ==
    FlattenSeq([k \in DOMAIN f.sets |-> process_aggregate(f.sets[k], pos, col)])

factorized_aggregate(f, spec, pos, col) ==
    LET list == IF spec.func = "count" THEN [n \in 1..factorized_count(f) |-> 1]
                ELSE factorized_values(f, pos, col)
        st[n \in 0..Len(list)] == IF n = 0 THEN NewState(spec) ELSE update(st[n-1], list[n])
    IN  IF f.sets = <<>> THEN Defaults(<<spec>>)[1] ELSE finalize(st[Len(list)])
=============================================================================
