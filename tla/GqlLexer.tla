------------------------------ MODULE GqlLexer ------------------------------
(***************************************************************************)
(* The token kinds of GQL and the classes the parser dispatches on.  A     *)
(* token is its kind: keywords and symbols are written as in the language, *)
(* tokens that carry text are "name", "dquoted", "squoted", "aquoted",     *)
(* "param" ($x), "sparam" ($$x), "dec", "oct", "hex", "bin" and "float".   *)
(***************************************************************************)
EXTENDS Naturals, Sequences, SequencesExt

is_prefix_of_unsigned_integer == {"dec", "oct", "hex", "bin"}

is_prefix_of_numeric_literal == is_prefix_of_unsigned_integer \cup {"float"}

\* Keywords that may also be used as identifiers (the ones of no rule are left out).
is_non_reserved_word ==
    {"ACYCLIC", "BINDING", "BINDINGS", "CONNECTING", "DIFFERENT", "DIRECTED", "EDGE", "EDGES",
     "ELEMENT", "ELEMENTS", "FIRST", "GRAPH", "GROUPS", "KEEP", "LABEL", "LABELS", "LAST", "NODE",
     "ONLY", "PROPERTY", "READ", "RELATIONSHIP", "RELATIONSHIPS", "REPEATABLE", "SHORTEST",
     "SIMPLE", "TABLE", "TO", "TRAIL", "TRANSACTION", "TYPE", "UNDIRECTED", "VERTEX", "WALK",
     "WRITE", "ZONE"}

is_prefix_of_regular_identifier == {"name"} \cup is_non_reserved_word

is_prefix_of_general_set_function ==
    {"AVG", "COUNT", "MAX", "MIN", "SUM", "COLLECT_LIST", "STDDEV_SAMP", "STDDEV_POP"}

is_prefix_of_binary_set_function == {"PERCENTILE_CONT", "PERCENTILE_DISC"}

is_prefix_of_aggregate_function == is_prefix_of_general_set_function \cup is_prefix_of_binary_set_function

is_prefix_of_verbose_exact_numeric_type ==
    {"INTEGER8", "INTEGER16", "INTEGER32", "INTEGER64", "INTEGER128", "INTEGER256", "SMALL",
     "INTEGER", "BIG"}

is_prefix_of_signed_exact_numeric_type ==
    {"INT8", "INT16", "INT32", "INT64", "INT128", "INT256", "SMALLINT", "INT", "BIGINT", "SIGNED"}
    \cup is_prefix_of_verbose_exact_numeric_type

is_prefix_of_unsigned_exact_numeric_type ==
    {"UINT8", "UINT16", "UINT32", "UINT64", "UINT128", "UINT256", "USMALLINT", "UINT", "UBIGINT",
     "UNSIGNED"}

is_prefix_of_temporal_type == {"DURATION", "ZONED", "TIMESTAMP", "LOCAL", "DATE", "TIME"}

is_prefix_of_predefined_type ==
    {"BOOL", "BOOLEAN", "STRING", "CHAR", "VARCHAR", "BYTES", "BINARY", "VARBINARY", "DECIMAL",
     "DEC", "NULL", "NOTHING", "VECTOR"}
    \cup is_prefix_of_signed_exact_numeric_type \cup is_prefix_of_unsigned_exact_numeric_type
    \cup is_prefix_of_temporal_type

is_prefix_of_result_statement == {"RETURN", "FINISH"}

is_prefix_of_simple_query_statement ==
    {"MATCH", "OPTIONAL", "LET", "FOR", "FILTER", "ORDER", "LIMIT", "OFFSET", "SKIP", "CALL"}

is_prefix_of_ambient_linear_query_statement ==
    {"RETURN", "FINISH", "{", "OPTIONAL", "CALL", "MATCH", "LET", "FOR", "FILTER", "ORDER", "LIMIT",
     "OFFSET", "SKIP"}

is_prefix_of_abbreviated_edge_pattern == {"<-", "~", "->", "<~", "~>", "<->", "-"}

is_prefix_of_full_edge_pattern == {"<-[", "~[", "-[", "<~["}

is_prefix_of_edge_pattern == is_prefix_of_abbreviated_edge_pattern \cup is_prefix_of_full_edge_pattern

is_prefix_of_trigonometric_function ==
    {"SIN", "COS", "TAN", "COT", "SINH", "COSH", "TANH", "ASIN", "ACOS", "ATAN", "DEGREES", "RADIANS"}

is_prefix_of_numeric_value_function ==
    {"CHAR_LENGTH", "CHARACTER_LENGTH", "BYTE_LENGTH", "OCTET_LENGTH", "PATH_LENGTH", "CARDINALITY",
     "SIZE", "ABS", "MOD", "LOG", "LOG10", "LN", "EXP", "POWER", "SQRT", "FLOOR", "CEIL", "CEILING"}
    \cup is_prefix_of_trigonometric_function

is_prefix_of_value_function ==
    is_prefix_of_regular_identifier \cup is_prefix_of_numeric_value_function \cup {"VECTOR_DISTANCE"}
=============================================================================
