------------------------------ MODULE DataChunk ------------------------------
(***************************************************************************)
(* The unit of data the executors exchange: a batch of rows with an        *)
(* optional filter that marks which of them still count.  The columns of   *)
(* the code are kept row by row here (DataChunk::new and append_columns    *)
(* assert that all columns have the same length); a value is Null, an      *)
(* integer or, after an expansion, a list.  The filter is Compact (None)   *)
(* or one of TRUE, FALSE and Null per row, as an Arrow boolean array.      *)
(***************************************************************************)
EXTENDS Integers, Sequences, SequencesExt

CONSTANTS Null,      \* the null of an Arrow array
          Compact    \* the filter of a chunk that has none

new(rows) == [rows |-> rows, filter |-> Compact]

with_filter(c, f) == [c EXCEPT !.filter = f]

unfiltered(c) == [c EXCEPT !.filter = Compact]

\* The value of the filter for row i; a missing filter lets every row pass.
Passes(c, i) == IF c.filter = Compact THEN TRUE ELSE c.filter[i] = TRUE

len(c) == Len(c.rows)

\* The positions that RowIndexIter visits: a null in the filter counts as false.
RowIndices(c) == SelectSeq([i \in 1..len(c) |-> i], LAMBDA i : Passes(c, i))

\* rows() of a chunk: the rows that pass, in order.
rows(c) == IF c.filter = Compact THEN c.rows
           ELSE LET idx == RowIndices(c) IN [k \in 1..Len(idx) |-> c.rows[idx[k]]]

\* Slip: the filter is dropped without being applied.
compactDropsFilter(c) == new(c.rows)

compact(c) == new(rows(c))

\* slice and take keep the filter of the rows they keep.
slice(c, offset, length) ==
    [rows   |-> SubSeq(c.rows, offset + 1, offset + length),
     filter |-> IF c.filter = Compact THEN Compact
                ELSE SubSeq(c.filter, offset + 1, offset + length)]

\* Slip: take loses the filter.
takeUnfiltered(c, indices) == new([k \in DOMAIN indices |-> c.rows[indices[k]]])

take(c, indices) ==
    [rows   |-> [k \in DOMAIN indices |-> c.rows[indices[k]]],
     filter |-> IF c.filter = Compact THEN Compact
                ELSE [k \in DOMAIN indices |-> c.filter[indices[k]]]]

\* Appends to row k the values cols[k]; the filter stays.
append_columns(c, cols) ==
    [c EXCEPT !.rows = [k \in DOMAIN @ |-> @[k] \o cols[k]]]

\* Defined for a non-empty sequence of chunks: the code asserts it.
concat(chunks) == new(FlattenSeq([k \in DOMAIN chunks |-> rows(chunks[k])]))

(***************************************************************************)
(* factorized_compact: filters the lists of column col by a list of flags  *)
(* per row; the values and the flags are flattened, filtered together and  *)
(* cut again where the flags of each row end.                              *)
(***************************************************************************)
factorized_compact(c, flags, col) ==
    LET flatValues == FlattenSeq([k \in 1..len(c) |-> c.rows[k][col]])
        flatFlags  == FlattenSeq(flags)
        kept       == LET idx == SelectSeq([i \in DOMAIN flatFlags |-> i], LAMBDA i : flatFlags[i] = TRUE)
                      IN  [k \in 1..Len(idx) |-> flatValues[idx[k]]]
        trues(k)   == Len(SelectSeq(flags[k], LAMBDA b : b = TRUE))
        offset[k \in 0..len(c)] == IF k = 0 THEN 0 ELSE offset[k-1] + trues(k)
    IN  [c EXCEPT !.rows = [k \in DOMAIN @ |->
            [@[k] EXCEPT ![col] = SubSeq(kept, offset[k-1] + 1, offset[k])]]]
=============================================================================
