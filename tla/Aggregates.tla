----------------------------- MODULE Aggregates -----------------------------
(***************************************************************************)
(* The aggregate executor and the state it keeps per aggregate function.   *)
(* Sums are kept in a 64-bit integer (MinInt..MaxInt here) and wrap; an    *)
(* average is the exact quotient <<sum, count>> of what the code divides   *)
(* in floating point.                                                      *)
(*   spec: func, distinct, expr (NoExpr for COUNT of all rows).            *)
(***************************************************************************)
EXTENDS Executors

CONSTANT NoExpr

Functions == {"count", "count_expr", "sum", "avg", "min", "max"}

\* AggregateState::new: every field; a function looks at the ones it needs.
NewState(spec) == [func |-> spec.func, distinct |-> spec.distinct, count |-> 0,
                   seen |-> {}, acc |-> Null]

Wrap(x) == ((x - MinInt) % (MaxInt - MinInt + 1)) + MinInt

\* The three update functions, on a non-null value; an average keeps the sum and the count.
update_sum_aggregate(st, v) ==
    IF st.func = "sum" THEN [st EXCEPT !.acc = IF @ = Null THEN v ELSE Wrap(@ + v)]
    ELSE [st EXCEPT !.acc = IF @ = Null THEN v ELSE @ + v, !.count = @ + 1]

update_min_aggregate(st, v) == [st EXCEPT !.acc = IF @ = Null \/ v < @ THEN v ELSE @]

update_max_aggregate(st, v) == [st EXCEPT !.acc = IF @ = Null \/ v > @ THEN v ELSE @]

is_null_value(v) == v = Null

Accumulate(st, v) == CASE st.func = "count_expr" -> [st EXCEPT !.count = @ + 1]
                       [] st.func \in {"sum", "avg"} -> update_sum_aggregate(st, v)
                       [] st.func = "min" -> update_min_aggregate(st, v)
                       [] st.func = "max" -> update_max_aggregate(st, v)

\* MIN and MAX have no distinct form.
Distinct(st) == st.distinct /\ st.func \notin {"min", "max"}

\* Slip: COUNT(x) counts the nulls too.
updateCountsNulls(st, v) ==
    IF st.func \in {"count", "count_expr"} /\ ~st.distinct THEN [st EXCEPT !.count = @ + 1]
    ELSE IF v = Null THEN st
    ELSE IF Distinct(st) THEN [st EXCEPT !.seen = @ \cup {v}]
    ELSE Accumulate(st, v)

\* update: a distinct aggregate only remembers the value.
update(st, v) ==
    IF st.func = "count" THEN [st EXCEPT !.count = @ + 1]
    ELSE IF is_null_value(v) THEN st
    ELSE IF Distinct(st) THEN [st EXCEPT !.seen = @ \cup {v}]
    ELSE Accumulate(st, v)

finalize(st) ==
    LET n == IF Distinct(st) THEN Cardinality(st.seen) ELSE st.count
    IN  CASE st.func = "count" -> st.count
          [] st.func = "count_expr" -> n
          [] st.func = "avg" -> IF n > 0 THEN <<IF st.acc = Null THEN 0 ELSE st.acc, n>> ELSE Null
          [] OTHER -> st.acc

-----------------------------------------------------------------------------

\* The value an aggregate takes from a row, evaluated on a chunk of that row alone.
Argument(spec, row) == IF spec.expr = NoExpr THEN Datum(<<1>>, FALSE)
                       ELSE evaluate(spec.expr, new(<<row>>))

Fails(specs, keys, row) ==
    \/ \E q \in DOMAIN keys : ~evaluate(keys[q], new(<<row>>)).ok
    \/ \E q \in DOMAIN specs : ~Argument(specs[q], row).ok

\* The states after the rows have been seen one after the other.
States(specs, list) ==
    LET st[n \in 0..Len(list)] ==
            IF n = 0 THEN [q \in DOMAIN specs |-> NewState(specs[q])]
            ELSE [q \in DOMAIN specs |->
                     update(st[n-1][q], Argument(specs[q], list[n]).array[1])]
    IN  st[Len(list)]

Results(specs, list) ==
    LET st == States(specs, list) IN [q \in DOMAIN specs |-> finalize(st[q])]

HasData(s) == \E k \in DOMAIN s.chunks : len(s.chunks[k]) > 0

Defaults(specs) == [q \in DOMAIN specs |->
                       IF specs[q].func \in {"count", "count_expr"} THEN 0 ELSE Null]

\* The output expressions, evaluated on the chunk of the results.
Outputs(c, outs) == IF outs = <<>> THEN Stream(<<c>>, "done") ELSE project(Stream(<<c>>, "done"), outs)

(***************************************************************************)
(* Without GROUP BY one row comes out, whatever comes in; when no chunk    *)
(* had a row it holds the defaults and the output expressions are skipped. *)
(***************************************************************************)
aggregate(s, specs, outs) ==
    IF \E n \in DOMAIN Live(s) : Fails(specs, <<>>, Live(s)[n]) THEN Stream(<<>>, "error")
    ELSE IF s.end # "done" THEN Stream(<<>>, s.end)
    ELSE IF ~HasData(s) THEN Stream(<<new(<<Defaults(specs)>>)>>, "done")
    ELSE Outputs(new(<<Results(specs, Live(s))>>), outs)

(***************************************************************************)
(* With GROUP BY one row per group; the groups come out in the order of a  *)
(* hash map (any), null keys form a group of their own.                    *)
(***************************************************************************)
GroupKey(keys, row) == [q \in DOMAIN keys |-> evaluate(keys[q], new(<<row>>)).array[1]]

aggregate_by(s, keys, specs, outs) ==
    LET list   == Live(s)
        groups == {GroupKey(keys, list[n]) : n \in DOMAIN list}
        row(g) == g \o Results(specs, SelectSeq(list, LAMBDA r : GroupKey(keys, r) = g))
    IN  IF \E n \in DOMAIN list : Fails(specs, keys, list[n]) THEN {Stream(<<>>, "error")}
        ELSE IF s.end # "done" THEN {Stream(<<>>, s.end)}
        ELSE IF list = <<>> THEN {Stream(<<>>, "done")}
        ELSE {Outputs(new([n \in DOMAIN o |-> row(o[n])]), outs) : o \in Orders(groups)}
=============================================================================
