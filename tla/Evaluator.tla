------------------------------ MODULE Evaluator ------------------------------
(***************************************************************************)
(* Expression evaluation.  An evaluator turns a whole chunk into a datum:  *)
(* an array with one value per row, the rows its filter excludes included, *)
(* or an array of length one that is marked scalar and stands for every    *)
(* row.  One failing row makes the whole evaluation an error.              *)
(*   Expressions: <<"col", i>>, <<"const", v>>, <<op, e>>, <<op, l, r>>,   *)
(*   <<"vertex", i, cols>>, <<"distance", l, r>>.                          *)
(***************************************************************************)
EXTENDS DataChunk

CONSTANTS MinInt, MaxInt    \* the range of the integer column type

Datum(array, is_scalar) == [ok |-> TRUE, array |-> array, is_scalar |-> is_scalar]

Failed == [ok |-> FALSE, array |-> <<>>, is_scalar |-> FALSE]

Unknown == Null \* the third truth value

Numeric == {"add", "sub", "mul", "div", "rem"}
Compare == {"eq", "ne", "gt", "ge", "lt", "le"}
Boolean == {"and", "or"}

\* Truncating division, as Rust divides.
Quot(x, y) == LET q == (IF x < 0 THEN -x ELSE x) \div (IF y < 0 THEN -y ELSE y)
              IN  IF (x < 0) = (y < 0) THEN q ELSE -q

Calc(op, x, y) == CASE op = "add" -> x + y
                    [] op = "sub" -> x - y
                    [] op = "mul" -> x * y
                    [] op = "div" -> Quot(x, y)
                    [] op = "rem" -> x - y * Quot(x, y)

Order(op, x, y) == CASE op = "eq" -> x = y
                     [] op = "ne" -> x # y
                     [] op = "gt" -> x > y
                     [] op = "ge" -> x >= y
                     [] op = "lt" -> x < y
                     [] op = "le" -> x =< y

\* and_kleene and or_kleene: a decided operand decides.
Kleene(op, x, y) ==
    LET decisive == (op = "or")
    IN  IF x = decisive \/ y = decisive THEN decisive
        ELSE IF x = Unknown \/ y = Unknown THEN Unknown
        ELSE ~decisive

\* A pair of values the checked Arrow kernels refuse.
Overflows(op, x, y) ==
    /\ op \in Numeric
    /\ x # Null /\ y # Null
    /\ \/ op \in {"div", "rem"} /\ y = 0
       \/ ~(op \in {"div", "rem"} /\ y = 0) /\ Calc(op, x, y) \notin MinInt..MaxInt

Apply(op, x, y) == IF op \in Boolean THEN Kleene(op, x, y)
                   ELSE IF x = Null \/ y = Null THEN Null
                   ELSE IF op \in Compare THEN Order(op, x, y)
                   ELSE Calc(op, x, y)

(***************************************************************************)
(* Binary: the numeric and comparison kernels broadcast a scalar operand;  *)
(* and_kleene and or_kleene are given the bare arrays and refuse arrays of *)
(* different lengths.                                                      *)
(***************************************************************************)
binary(op, l, r) ==
    LET broadcast == op \notin Boolean
        n    == IF broadcast /\ l.is_scalar THEN Len(r.array) ELSE Len(l.array)
        x(i) == IF broadcast /\ l.is_scalar THEN l.array[1] ELSE l.array[i]
        y(i) == IF broadcast /\ r.is_scalar THEN r.array[1] ELSE r.array[i]
    IN  IF ~l.ok \/ ~r.ok THEN Failed
        ELSE IF ~(broadcast /\ (l.is_scalar \/ r.is_scalar)) /\ Len(l.array) # Len(r.array)
        THEN Failed
        ELSE IF \E i \in 1..n : Overflows(op, x(i), y(i)) THEN Failed
        ELSE Datum([i \in 1..n |-> Apply(op, x(i), y(i))], l.is_scalar /\ r.is_scalar)

unary(op, d) ==
    IF ~d.ok THEN Failed
    ELSE IF op = "neg" /\ \E i \in DOMAIN d.array : d.array[i] = MinInt THEN Failed
    ELSE Datum([i \in DOMAIN d.array |->
                   IF d.array[i] = Null THEN Null
                   ELSE IF op = "neg" THEN -d.array[i] ELSE ~d.array[i]], d.is_scalar)

\* The vertex value of a row: its id and the columns of its properties.
vertex_constructor(c, vid, props) ==
    Datum([i \in 1..len(c) |->
              [vid |-> c.rows[i][vid], props |-> [k \in DOMAIN props |-> c.rows[i][props[k]]]]],
          FALSE)

\* VECTOR_DISTANCE row by row over the chunk, a scalar operand standing for every row;
\* vectors are points of a line.
vector_distance(l, r, n) ==
    LET x(d, i)  == IF d.is_scalar THEN d.array[1] ELSE d.array[i]
        dist(a, b) == IF a = Null \/ b = Null THEN Null ELSE IF a < b THEN b - a ELSE a - b
    IN  IF \/ ~l.ok \/ ~r.ok
           \/ ~l.is_scalar /\ Len(l.array) # n
           \/ ~r.is_scalar /\ Len(r.array) # n THEN Failed
        ELSE Datum([i \in 1..n |-> dist(x(l, i), x(r, i))], l.is_scalar /\ r.is_scalar /\ n =< 1)

ColumnRef(c, index) == Datum([i \in 1..len(c) |-> c.rows[i][index]], FALSE)

Constant(value) == Datum(<<value>>, TRUE)

RECURSIVE evaluate(_, _)
evaluate(e, c) ==
    CASE e[1] = "col"    -> ColumnRef(c, e[2])
      [] e[1] = "const"  -> Constant(e[2])
      [] e[1] = "vertex" -> vertex_constructor(c, e[2], e[3])
      [] e[1] = "distance" -> vector_distance(evaluate(e[2], c), evaluate(e[3], c), len(c))
      [] e[1] \in {"neg", "not"} -> unary(e[1], evaluate(e[2], c))
      [] OTHER -> binary(e[1], evaluate(e[2], c), evaluate(e[3], c))
=============================================================================
