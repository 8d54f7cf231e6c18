------------------------------ MODULE Executors ------------------------------
(***************************************************************************)
(* The pull-based executors, each as a function from the stream of its     *)
(* child to the stream it yields.  A stream is what next_chunk returns     *)
(* until it ends: the chunks, then "done", or "error" where an error was   *)
(* yielded (gen_try! yields it and returns), or "panic" where an assertion *)
(* of the code fails.                                                      *)
(***************************************************************************)
EXTENDS Evaluator

Stream(chunks, end) == [chunks |-> chunks, end |-> end]

\* All rows of a stream that still count, in order.
Live(s) == FlattenSeq([k \in DOMAIN s.chunks |-> rows(s.chunks[k])])

(***************************************************************************)
(* What one chunk contributes: chunks to yield, whether the loop goes on,  *)
(* ends ("done": break), yields an error or panics.                        *)
(***************************************************************************)
Goes(chunks)   == [out |-> chunks, next |-> "on"]
Stops(chunks, why) == [out |-> chunks, next |-> why]

\* The first chunk at which the loop does not go on, or past the last one.
StopAt(steps) == LET at == {k \in DOMAIN steps : steps[k].next # "on"}
                 IN  IF at = {} THEN Len(steps) + 1 ELSE CHOOSE k \in at : \A j \in at : k =< j

\* for chunk in child: every chunk is pulled only if the loop went on before it.
Loop(s, steps) ==
    LET k   == StopAt(steps)
        n   == IF k > Len(steps) THEN Len(steps) ELSE k
    IN  Stream(FlattenSeq([j \in 1..n |-> steps[j].out]),
               IF k > Len(steps) THEN s.end ELSE steps[k].next)

-----------------------------------------------------------------------------

(***************************************************************************)
(* Filter: the predicate is evaluated on the whole chunk and combined with *)
(* the filter the chunk already has; boolean::and is null where one side   *)
(* is.  A predicate without a column is an array of length one, which does *)
(* not fit a longer chunk.                                                 *)
(***************************************************************************)
and_(f, g) == [i \in DOMAIN f |-> IF f[i] = Null \/ g[i] = Null THEN Null ELSE f[i] /\ g[i]]

\* Slip: the earlier filter is replaced.
CombinedForgets(c, f) == f

\* The filter of a chunk combined with the values of a predicate.
Combined(c, f) == IF c.filter = Compact THEN f ELSE and_(c.filter, f)

filter(s, p) ==
    Loop(s, [k \in DOMAIN s.chunks |->
        LET c == s.chunks[k]
            d == evaluate(p, c)
            f == Combined(c, d.array)
            trues == Len(SelectSeq(f, LAMBDA b : b = TRUE))
        IN  IF ~d.ok THEN Stops(<<>>, "error")
            ELSE IF c.filter # Compact /\ Len(d.array) # len(c) THEN Stops(<<>>, "error")
            ELSE IF trues = 0 THEN Goes(<<>>)
            ELSE IF trues = len(c) THEN Goes(<<unfiltered(c)>>)
            ELSE IF Len(f) # len(c) THEN Stops(<<>>, "panic")
            ELSE Goes(<<with_filter(c, f)>>)])

\* Project: one new column per expression; the filter of the chunk is kept.
project(s, es) ==
    Loop(s, [k \in DOMAIN s.chunks |->
        LET c == s.chunks[k]
            d == [j \in DOMAIN es |-> evaluate(es[j], c)]
            n == Len(d[1].array)
        IN  IF \E j \in DOMAIN es : ~d[j].ok THEN Stops(<<>>, "error")
            ELSE IF \E j \in DOMAIN es : Len(d[j].array) # n THEN Stops(<<>>, "panic")
            ELSE IF c.filter # Compact /\ n # len(c) THEN Stops(<<>>, "panic")
            ELSE Goes(<<with_filter(new([i \in 1..n |-> [j \in DOMAIN es |-> d[j].array[i]]]),
                                    c.filter)>>)])

(***************************************************************************)
(* Limit and Offset count len(), the rows of the chunk with those its      *)
(* filter excludes.  Limit looks at its count after it pulled a chunk.     *)
(***************************************************************************)
\* Slip: every chunk is counted from zero.
BeforeNone(s, k) == 0

Before(s, k) == LET n[j \in 0..Len(s.chunks)] ==
                        IF j = 0 THEN 0 ELSE n[j-1] + len(s.chunks[j])
                IN  n[k-1]

limit(s, n) ==
    Loop(s, [k \in DOMAIN s.chunks |->
        LET count == Before(s, k)
            c     == s.chunks[k]
        IN  IF count >= n THEN Stops(<<>>, "done")
            ELSE IF len(c) =< n - count THEN Goes(<<c>>)
            ELSE Stops(<<slice(c, 0, n - count)>>, "done")])

offset(s, n) ==
    Loop(s, [k \in DOMAIN s.chunks |->
        LET skipped == Before(s, k)
            c       == s.chunks[k]
        IN  IF skipped >= n THEN Goes(<<c>>)
            ELSE IF len(c) =< n - skipped THEN Goes(<<>>)
            ELSE Goes(<<slice(c, n - skipped, len(c) - (n - skipped))>>)])

(***************************************************************************)
(* Sort collects the whole input with DataChunk::concat, which asserts     *)
(* that there is at least one chunk (an input that fails at once panics    *)
(* too: the error is looked at after the concatenation).  The sort is not  *)
(* stable, so rows with equal keys may come out in any order: the value is *)
(* the set of possible streams.  spec: key, descending, nulls_first.       *)
(***************************************************************************)
\* Slip: nulls are the smallest values, whatever the options say.
KeyBeforeNullsSmall(spec, x, y) ==
    IF x = Null \/ y = Null THEN x # y /\ (x = Null) # spec.descending
    ELSE IF spec.descending THEN x > y ELSE x < y

KeyBefore(spec, x, y) ==
    IF x = Null \/ y = Null THEN x # y /\ (x = Null) = spec.nulls_first
    ELSE IF spec.descending THEN x > y ELSE x < y

RowBefore(specs, keys, i, j) ==
    \E q \in DOMAIN specs :
        /\ KeyBefore(specs[q], keys[q].array[i], keys[q].array[j])
        /\ \A p \in 1..(q-1) : keys[p].array[i] = keys[p].array[j]

\* All orders of a set.
RECURSIVE Orders(_)
Orders(S) == IF S = {} THEN {<<>>} ELSE UNION {{<<x>> \o t : t \in Orders(S \ {x})} : x \in S}

RECURSIVE Sorted(_, _, _)
Sorted(specs, keys, S) ==
    IF S = {} THEN {<<>>}
    ELSE UNION {{<<i>> \o t : t \in Sorted(specs, keys, S \ {i})} :
                i \in {j \in S : \A h \in S : ~RowBefore(specs, keys, h, j)}}

InSlices(c, size) ==
    [k \in 1..((len(c) + size - 1) \div size) |->
        slice(c, (k-1) * size,
              IF size < len(c) - (k-1) * size THEN size ELSE len(c) - (k-1) * size)]

sort(s, specs, max_chunk_size) ==
    IF s.end = "panic" \/ s.chunks = <<>> THEN {Stream(<<>>, "panic")}
    ELSE IF s.end = "error" THEN {Stream(<<>>, "error")}
    ELSE LET c    == concat(s.chunks)
             keys == [q \in DOMAIN specs |-> evaluate(specs[q].key, c)]
         IN  IF len(c) = 0 THEN {Stream(<<>>, "done")}
             ELSE IF \E q \in DOMAIN specs : ~keys[q].ok THEN {Stream(<<>>, "error")}
             ELSE {Stream(InSlices(take(c, indices), max_chunk_size), "done") :
                   indices \in Sorted(specs, keys, 1..Len(keys[1].array))}

(***************************************************************************)
(* Hash join: the left side is read completely, then each right chunk      *)
(* yields the pairs it matches, grouped by left chunk in the order of a    *)
(* hash map (order[k] for right chunk k).  A taken left row keeps its      *)
(* filter, so a filtered-out left row leaves in concat; the filter of the  *)
(* right chunk is not looked at.  Null keys are equal to null keys.        *)
(***************************************************************************)
join(l, r, lkey, rkey, order) ==
    LET lkeys == [j \in DOMAIN l.chunks |-> evaluate(lkey, l.chunks[j])]
        bucket(v, j)   == SelectSeq([i \in 1..len(l.chunks[j]) |-> i],
                                    LAMBDA i : lkeys[j].array[i] = v)
        pairs(c, d, j) == FlattenSeq([i \in 1..len(c) |->
                              LET b == bucket(d.array[i], j) IN [n \in DOMAIN b |-> <<i, b[n]>>]])
        joined(c, d, j) ==
            LET ps == pairs(c, d, j)
            IN  append_columns(take(l.chunks[j], [n \in DOMAIN ps |-> ps[n][2]]),
                               [n \in DOMAIN ps |-> c.rows[ps[n][1]]])
    IN  IF \E j \in DOMAIN lkeys : ~lkeys[j].ok THEN Stream(<<>>, "error")
        ELSE IF l.end # "done" THEN Stream(<<>>, l.end)
        ELSE Loop(r, [k \in DOMAIN r.chunks |->
                LET c == r.chunks[k]
                    d == evaluate(rkey, c)
                    groups == SelectSeq(order[k], LAMBDA j : pairs(c, d, j) # <<>>)
                IN  IF ~d.ok THEN Stops(<<>>, "error")
                    ELSE IF groups = <<>> THEN Goes(<<>>)
                    ELSE Goes(<<concat([n \in DOMAIN groups |-> joined(c, d, groups[n])])>>)])

-----------------------------------------------------------------------------

(***************************************************************************)
(* Expand: every live row is expanded on its own, to one chunk per batch   *)
(* of neighbours; adj[v] is the list of <<edge, neighbour>> of a vertex    *)
(* and a vertex outside its domain does not exist.  The two new columns    *)
(* hold lists, which Flatten turns into rows.                              *)
(***************************************************************************)
Batches(list, size) ==
    [k \in 1..((Len(list) + size - 1) \div size) |->
        SubSeq(list, (k-1) * size + 1, IF k * size < Len(list) THEN k * size ELSE Len(list))]

expand(s, col, adj, batch_size) ==
    Loop(s, [k \in DOMAIN s.chunks |->
        LET c == compact(s.chunks[k])
            from(i) == LET v == c.rows[i][col]
                           b == Batches(adj[v], batch_size)
                       IN  IF v \notin DOMAIN adj THEN <<>>
                           ELSE [n \in DOMAIN b |->
                                   append_columns(slice(c, i - 1, 1),
                                       << << [m \in DOMAIN b[n] |-> b[n][m][1]],
                                             [m \in DOMAIN b[n] |-> b[n][m][2]] >> >>)]
        IN  IF \E i \in 1..len(c) : c.rows[i][col] = Null THEN Stops(<<>>, "panic")
            ELSE Goes(FlattenSeq([i \in 1..len(c) |-> from(i)]))])

\* Flatten of the two list columns at the end of a row.
flatten(s, width) ==
    Loop(s, [k \in DOMAIN s.chunks |->
        LET c == compact(s.chunks[k])
            flat(row) == [m \in DOMAIN row[width - 1] |->
                             SubSeq(row, 1, width - 2) \o <<row[width - 1][m], row[width][m]>>]
        IN  IF len(c) = 0 THEN Stops(<<>>, "error")
            ELSE IF \E i \in 1..len(c) : Len(c.rows[i][width-1]) # Len(c.rows[i][width])
            THEN Stops(<<>>, "panic")
            ELSE Goes(<<new(FlattenSeq([i \in 1..len(c) |-> flat(c.rows[i])]))>>)])

\* FactorizedFilter: filters the lists of a column; the rows all stay.
factorized_filter(s, keep, col) ==
    Loop(s, [k \in DOMAIN s.chunks |->
        LET c == s.chunks[k]
        IN  Goes(<<factorized_compact(c,
                     [i \in 1..len(c) |-> [m \in DOMAIN c.rows[i][col] |-> c.rows[i][col][m] \in keep]],
                     col)>>)])

\* The property columns of the live rows; a vertex that cannot be read is an error.
scan_vertex_property(s, col, properties, store) ==
    Loop(s, [k \in DOMAIN s.chunks |->
        LET c   == compact(s.chunks[k])
            ids == IF properties # <<>> THEN properties
                   ELSE [n \in DOMAIN store[c.rows[1][col]] |-> n]
            value(v, n) == IF n \in DOMAIN store[v] THEN store[v][n] ELSE Null
        IN  IF len(c) = 0 THEN Goes(<<>>)
            ELSE IF \E i \in 1..len(c) : c.rows[i][col] \notin DOMAIN store
            THEN Stops(<<>>, "error")
            ELSE Goes(<<append_columns(c, [i \in 1..len(c) |->
                          [n \in DOMAIN ids |-> value(c.rows[i][col], ids[n])]])>>)])

\* The scan of the vertices of a graph, in batches, in the order of their ids.
scan_vertex(ids, batch_size) ==
    LET b == Batches(SetToSortSeq(ids, <), batch_size)
    IN  Stream([k \in DOMAIN b |-> new([i \in DOMAIN b[k] |-> <<b[k][i]>>])], "done")
=============================================================================
