---------------------------- MODULE MCGqlParser ----------------------------
EXTENDS GqlParser

CasesC ==
   [\* operators of every power, prefix, infix and suffix
    operators |-> [rule |-> value_expression_rule, max |-> 6,
        words |-> {"name", "NOT", "-", "+", "*", "AND", "OR", "=", "IS", "TRUE"}],
    functions |-> [rule |-> value_expression_rule, max |-> 7,
        words |-> {"name", "(", ")", ",", ".", "dec", "COUNT", "*", "DISTINCT", "PERCENTILE_CONT", "ABS"}],
    nullif |-> [rule |-> value_expression_rule, max |-> 8, words |-> {"NULLIF", "(", ")", "dec"}],
    literals |-> [rule |-> value_expression_rule, max |-> 7,
        words |-> {"VECTOR", "[", "]", ",", "-", "dec", "PATH", "VECTOR_DISTANCE", "(", ")", "name", "COALESCE"}],
    labels |-> [rule |-> label_expression_rule, max |-> 6, words |-> {"name", "!", "&", "|", "(", ")", "%"}],
    \* paths to catalog objects
    schema |-> [rule |-> schema_reference, max |-> 7, words |-> {"name", "/", "..", ".", "HOME_SCHEMA", "sparam"}],
    graph |-> [rule |-> graph_expression, max |-> 7,
        words |-> {"name", "/", "..", ".", "dquoted", "CURRENT_GRAPH", "sparam"}],
    \* path patterns, quantifiers, path searches
    pattern |-> [rule |-> graph_pattern, max |-> 6,
        words |-> {"(", ")", "name", ":", "=", "-[", "]->", "]-", "<-[", "->", "|", "|+|", "?", "*", "{", "}", ",", "dec"}],
    search |-> [rule |-> graph_pattern, max |-> 6,
        words |-> {"(", ")", "ALL", "SHORTEST", "GROUP", "dec", "TRAIL", "PATH", "name", "=", "KEEP", "REPEATABLE",
                   "ELEMENT", "ELEMENTS", "DIFFERENT", "EDGE", "BINDINGS"}],
    filler |-> [rule |-> node_pattern, max |-> 8,
        words |-> {"(", ")", "name", "IS", ":", "WHERE", "{", "}", ",", "TRUE", "&", "LABEL"}],
    \* value types and element types
    types |-> [rule |-> value_type, max |-> 8,
        words |-> {"STRING", "BYTES", "DEC", "INT", "SIGNED", "SMALL", "INTEGER", "UINT", "VECTOR", "NULL", "NOT",
                   "NOTHING", "PATH", "DATE", "BOOL", "(", ")", ",", "dec", "CHAR"}],
    node |-> [rule |-> element_type_specification, max |-> 7,
        words |-> {"NODE", "TYPE", "name", "(", ")", "LABEL", "LABELS", ":", "&", "=>", "{", "}", "INT", "::", "AS"}],
    edge |-> [rule |-> element_type_specification, max |-> 9,
        words |-> {"DIRECTED", "UNDIRECTED", "EDGE", "name", "(", ")", "-[", "]->", "~[", "]~", "<-[", "]-", ":",
                   "CONNECTING", "TO"}],
    \* statements and programs
    catalog |-> [rule |-> gql_program, max |-> 8,
        words |-> {"CREATE", "DROP", "OR", "REPLACE", "PROPERTY", "GRAPH", "TYPE", "IF", "NOT", "EXISTS", "name", "ANY",
                   "AS", "COPY", "OF", "LIKE", "CURRENT_GRAPH", "{", "}", "(", ")", ":", "::"}],
    index |-> [rule |-> gql_program, max |-> 18,
        words |-> {"CREATE", "DROP", "VECTOR", "INDEX", "IF", "NOT", "EXISTS", "FOR", "ON", "(", ")", ":", ".", "name"}],
    session |-> [rule |-> gql_program, max |-> 6,
        words |-> {"SESSION", "SET", "RESET", "CLOSE", "ALL", "PARAMETERS", "SCHEMA", "PROPERTY", "GRAPH", "TIME", "ZONE",
                   "squoted", "param", "PARAMETER", "START", "TRANSACTION", "READ", "ONLY", "WRITE", ",", "COMMIT",
                   "HOME_SCHEMA", "CURRENT_GRAPH"}],
    query |-> [rule |-> gql_program, max |-> 7,
        words |-> {"MATCH", "OPTIONAL", "(", ")", "RETURN", "*", "name", "SKIP", "dec", "LIMIT", "FINISH", "USE",
                   "CURRENT_GRAPH", "UNION", "CALL", "EXPLAIN", "NEXT", "COMMIT", "AT", "/"}],
    order |-> [rule |-> gql_program, max |-> 8,
        words |-> {"RETURN", "name", "AS", "ORDER", "BY", "ASC", "NULLS", "FIRST", "OFFSET", "LIMIT", "dec", "GROUP",
                   "FINISH", "{", "}", ",", "OTHERWISE", "YIELD", "CALL", "(", ")", "CREATE", "SCHEMA", "/"}]]
=============================================================================
