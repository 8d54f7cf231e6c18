--------------------------- MODULE GqlExpressions ---------------------------
(***************************************************************************)
(* The rules of the GQL parser for names, values, references to catalog    *)
(* objects and graph patterns, one definition per parser function, as      *)
(* parser expressions.  A rule that is used before it can be defined is    *)
(* referred to by its name (R) and found in Grammar of GqlGrammar.         *)
(***************************************************************************)
EXTENDS GqlLexer

OneOf(S)   == <<"tok", S>>                  \* any of the tokens of S
T(k)       == <<"tok", {k}>>
Chain(ps)  == <<"seq", ps>>                 \* tuple, preceded, delimited, terminated, seq!
Alt(ps)    == <<"alt", ps>>                 \* the first alternative that succeeds
Opt(p)     == <<"opt", p>>
Many(p)    == <<"many", p>>                 \* repeat(0..)
Many1(p)   == Chain(<<p, Many(p)>>)           \* repeat(1..)
Sep(p, s)  == Chain(<<p, Many(Chain(<<s, p>>))>>)   \* separated(1..)
Sep0(p, s) == Opt(Sep(p, s))                \* separated(0..)
Peek(p)    == <<"peek", p>>
R(name)    == <<"ref", name>>
Fail       == Alt(<<>>)

\* dispatch! on the kinds of the next tokens: the first arm whose guards match is taken,
\* whatever becomes of it.  An arm is <<guards, parser>>, one set of tokens per token that
\* is looked at; an empty set matches every token.
Arms(arms) == <<"arms", arms>>
Else       == {}

\* precedence(): operand, prefix, suffix and infix parsers; the powers are in Power.
Pratt(operand, prefix, suffix, infix) == <<"pratt", operand, prefix, suffix, infix>>

-----------------------------------------------------------------------------
(* lexical.rs *)

regular_identifier == R("regular_identifier")

regular_identifier_rule == OneOf(is_prefix_of_regular_identifier)

delimited_identifier == OneOf({"aquoted", "dquoted"})

identifier == R("identifier")

identifier_rule == Arms(<< << <<{"name"} \cup is_non_reserved_word>>, regular_identifier>>,
                           << <<{"aquoted", "dquoted"}>>, delimited_identifier>> >>)

boolean_literal == OneOf({"TRUE", "FALSE", "UNKNOWN"})

unsigned_integer == OneOf(is_prefix_of_unsigned_integer)

unsigned_numeric_literal == Arms(<< << <<is_prefix_of_unsigned_integer>>, unsigned_integer>>,
                                    << <<{"float"}>>, T("float")>> >>)

general_parameter_reference == T("param")

substituted_parameter_reference == T("sparam")

character_string_literal == OneOf({"squoted", "dquoted"})

node_synonym == OneOf({"NODE", "VERTEX"})

edge_synonym == OneOf({"EDGE", "RELATIONSHIP"})

edges_synonym == OneOf({"EDGES", "RELATIONSHIPS"})

implies == OneOf({"IMPLIES", "=>"})

-----------------------------------------------------------------------------
(* value_expr.rs *)

value_expression_prefix == OneOf({"NOT", "+", "-"})

value_expression_suffix == Arms(<< << <<{"IS"}, {"NOT"}>>, Chain(<<T("IS"), T("NOT"), boolean_literal>>)>>,
                                   << <<{"IS"}, Else>>, Chain(<<T("IS"), boolean_literal>>)>> >>)

value_expression_infix == OneOf({"OR", "XOR", "AND", "<", "<=", ">", ">=", "=", "<>", "||", "+", "-", "*", "/"})

\* The binding power of an operator, of the value and of the label expressions.
Power(kind, op) ==
    CASE op \in {"OR", "XOR"} -> 1
      [] op = "AND" -> 2
      [] op = "IS" -> 3
      [] op = "NOT" -> 4
      [] op \in {"<", "<=", ">", ">=", "=", "<>"} -> 5
      [] op = "||" -> 6
      [] op \in {"+", "-"} -> IF kind = "prefix" THEN 9 ELSE 7
      [] op \in {"*", "/"} -> 8
      [] op = "|" -> 1
      [] op = "&" -> 2
      [] op = "!" -> 3

value_expression == R("value_expression")

Parens(p) == Chain(<<T("("), p, T(")")>>)

parenthesized_value_expression == Parens(value_expression)

set_quantifier == OneOf({"DISTINCT", "ALL"})

signed_numeric_literal_expression == Chain(<<Opt(OneOf({"+", "-"})), unsigned_numeric_literal>>)

vector_literal == Chain(<<T("VECTOR"), T("["), Sep0(signed_numeric_literal_expression, T(",")), T("]")>>)

unsigned_literal == Arms(<< << <<{"TRUE", "FALSE", "UNKNOWN"}>>, boolean_literal>>,
                            << <<{"NULL"}>>, T("NULL")>>,
                            << <<{"dquoted", "squoted"}>>, character_string_literal>>,
                            << <<is_prefix_of_numeric_literal>>, unsigned_numeric_literal>>,
                            << <<{"VECTOR"}>>, vector_literal>> >>)

unsigned_value_specification == Arms(<< << <<{"SESSION_USER"}>>, T("SESSION_USER")>>,
                                        << <<{"param"}>>, general_parameter_reference>>,
                                        << <<Else>>, unsigned_literal>> >>)

non_negative_integer_specification ==
    Arms(<< << <<is_prefix_of_unsigned_integer>>, unsigned_integer>>,
            << <<{"param"}>>, general_parameter_reference>> >>)

value_expression_primary == R("value_expression_primary")

path_element_list_step == Chain(<<T(","), value_expression_primary, T(","), value_expression_primary>>)

path_element_list == Chain(<<value_expression_primary, Many(path_element_list_step)>>)

path_value_constructor == Chain(<<T("PATH"), T("["), path_element_list, T("]")>>)

\* NULLIF takes its two arguments without a comma.
case_abbreviation == Arms(<< << <<{"NULLIF"}>>, Chain(<<T("NULLIF"), Parens(Chain(<<value_expression, value_expression>>))>>)>>,
                             << <<{"COALESCE"}>>, Chain(<<T("COALESCE"), Parens(Sep(value_expression, T(",")))>>)>> >>)

case_expression == Arms(<< << <<{"NULLIF", "COALESCE"}>>, case_abbreviation>> >>)

general_set_function == Chain(<<OneOf(is_prefix_of_general_set_function), T("("), Opt(set_quantifier),
                              value_expression, T(")")>>)

\* Its arguments are not in parentheses.
binary_set_function == Chain(<<OneOf(is_prefix_of_binary_set_function), Opt(set_quantifier), value_expression,
                             T(","), value_expression>>)

aggregate_function ==
    Arms(<< << <<is_prefix_of_general_set_function>>,
               Alt(<<Chain(<<T("COUNT"), T("("), T("*"), T(")")>>), general_set_function>>)>>,
            << <<is_prefix_of_binary_set_function>>, binary_set_function>> >>)

value_expression_primary_inner ==
    Arms(<< << <<{"PATH"}>>, path_value_constructor>>,
            << <<{"CASE", "COALESCE", "NULLIF"}>>, case_expression>>,
            << <<is_prefix_of_aggregate_function>>, aggregate_function>>,
            << <<Else>>, unsigned_value_specification>> >>)

value_expression_primary_rule ==
    Chain(<<Arms(<< << <<{"("}>>, parenthesized_value_expression>>,
                  << <<is_prefix_of_regular_identifier>>, regular_identifier>>,
                  << <<Else>>, value_expression_primary_inner>> >>),
          Many(Chain(<<T("."), identifier>>))>>)

generic_value_function == Chain(<<regular_identifier, T("("), Sep0(value_expression, T(",")), T(")")>>)

\* Of the tokens that begin a numeric function only these have a rule.
numeric_value_function ==
    Chain(<<OneOf({"CHAR_LENGTH", "CHARACTER_LENGTH", "BYTE_LENGTH", "OCTET_LENGTH", "PATH_LENGTH", "ABS"}),
          Parens(value_expression)>>)

vector_distance_function == Chain(<<T("VECTOR_DISTANCE"), T("("), value_expression, T(","), value_expression,
                                  Opt(Chain(<<T(","), regular_identifier>>)), T(")")>>)

value_function == Arms(<< << <<is_prefix_of_regular_identifier>>, generic_value_function>>,
                          << <<is_prefix_of_numeric_value_function>>, numeric_value_function>>,
                          << <<{"VECTOR_DISTANCE"}>>, vector_distance_function>> >>)

\* The second token is looked at only if there is one.
value_expression_operand == Arms(<< << <<is_prefix_of_value_function, {"("}>>, value_function>>,
                                    << <<Else>>, value_expression_primary>> >>)

value_expression_rule == Pratt(value_expression_operand, value_expression_prefix,
                               value_expression_suffix, value_expression_infix)

-----------------------------------------------------------------------------
(* object_ref.rs, object_expr.rs *)

\* Slip: the greedy form is used everywhere.
directory_path_greedy(greedy) == Many1(Chain(<<identifier, T("/")>>))

\* A directory is followed by one more directory and its slash unless greedy.
simple_directory_path(greedy) ==
    IF greedy THEN Many1(Chain(<<identifier, T("/")>>))
    ELSE Many1(Chain(<<identifier, T("/"), Peek(Chain(<<identifier, T("/")>>))>>))

relative_directory_path(greedy) ==
    Chain(<<Many1(Chain(<<T(".."), T("/")>>)), Opt(simple_directory_path(greedy))>>)

absolute_directory_path(greedy) == Chain(<<T("/"), Opt(simple_directory_path(greedy))>>)

predefined_schema_reference == OneOf({"HOME_SCHEMA", "CURRENT_SCHEMA", "."})

relative_catalog_schema_reference(greedy) ==
    Alt(<<predefined_schema_reference, Chain(<<relative_directory_path(greedy), identifier>>)>>)

absolute_catalog_schema_reference(greedy) == Chain(<<absolute_directory_path(greedy), identifier>>)

catalog_schema_parent_and_name == Chain(<<absolute_directory_path(TRUE), identifier>>)

root_schema_reference == T("/")

non_root_schema_reference(greedy) ==
    Arms(<< << <<{"/"}>>, absolute_catalog_schema_reference(greedy)>>,
            << <<{"..", "HOME_SCHEMA", "CURRENT_SCHEMA", "."}>>, relative_catalog_schema_reference(greedy)>>,
            << <<{"sparam"}>>, substituted_parameter_reference>> >>)

schema_reference == Alt(<<non_root_schema_reference(TRUE), root_schema_reference>>)

catalog_object_parent_reference ==
    LET objects == Many(Chain(<<identifier, T(".")>>))
    IN  Arms(<< << <<{"/", "..", "HOME_SCHEMA", "CURRENT_SCHEMA", ".", "sparam"}>>,
                   Alt(<<Chain(<<non_root_schema_reference(FALSE), T("/"), objects>>),
                         Chain(<<root_schema_reference, objects>>)>>)>>,
                << <<Else>>, Many1(Chain(<<identifier, T(".")>>))>> >>)

catalog_object_parent_and_name == R("catalog_object_parent_and_name")

catalog_object_parent_and_name_rule == Chain(<<Opt(catalog_object_parent_reference), identifier>>)

graph_reference ==
    Arms(<< << <<{"HOME_GRAPH"}>>, OneOf({"HOME_PROPERTY_GRAPH", "HOME_GRAPH"})>>,
            << <<{"dquoted", "aquoted"}>>, delimited_identifier>>,
            << <<Else>>, Alt(<<Chain(<<catalog_object_parent_reference, identifier>>),
                               substituted_parameter_reference>>)>> >>)

graph_type_reference == Alt(<<catalog_object_parent_and_name, substituted_parameter_reference>>)

procedure_reference == Alt(<<catalog_object_parent_and_name, substituted_parameter_reference>>)

object_expression_primary == Arms(<< << <<{"VARIABLE"}>>, Chain(<<T("VARIABLE"), value_expression_primary>>)>>,
                                     << <<{"("}>>, parenthesized_value_expression>> >>)

graph_expression == R("graph_expression")

graph_expression_rule ==
    Arms(<< << <<{"CURRENT_PROPERTY_GRAPH", "CURRENT_GRAPH"}>>, OneOf({"CURRENT_PROPERTY_GRAPH", "CURRENT_GRAPH"})>>,
            << <<Else>>, Alt(<<graph_reference, object_expression_primary, regular_identifier>>)>> >>)

-----------------------------------------------------------------------------
(* common.rs *)

use_graph_clause == Chain(<<T("USE"), graph_expression>>)

at_schema_clause == Chain(<<T("AT"), schema_reference>>)

yield_item == Chain(<<identifier, Opt(Chain(<<T("AS"), regular_identifier>>))>>)

yield_clause == Chain(<<T("YIELD"), Sep(yield_item, T(","))>>)

is_or_colon == OneOf({"IS", ":"})

label_expression == R("label_expression")

label_expression_primary == Arms(<< << <<{"("}>>, Parens(label_expression)>>,
                                    << <<{"%"}>>, T("%")>>,
                                    << <<Else>>, identifier>> >>)

label_expression_rule == Pratt(label_expression_primary, T("!"), Fail, OneOf({"&", "|"}))

is_label_expression == Chain(<<is_or_colon, label_expression>>)

property_key_value_pair == Chain(<<identifier, T(":"), value_expression>>)

element_property_specification == Chain(<<T("{"), Sep(property_key_value_pair, T(",")), T("}")>>)

element_pattern_predicate == Arms(<< << <<{"WHERE"}>>, Chain(<<T("WHERE"), value_expression>>)>>,
                                     << <<{"{"}>>, element_property_specification>> >>)

element_pattern_filler == Chain(<<Opt(regular_identifier), Opt(is_label_expression), Opt(element_pattern_predicate)>>)

node_pattern == Parens(element_pattern_filler)

\* Opening and closing brackets that fit: <, undirected, >, <undirected, undirected>, <> and any.
full_edge_pattern ==
    LET edge(l, r) == Chain(<<T(l), element_pattern_filler, T(r)>>)
    IN  Alt(<<edge("<-[", "]-"), edge("~[", "]~"), edge("-[", "]->"), edge("<~[", "]~"),
              edge("~[", "]~>"), edge("<-[", "]->"), edge("-[", "]-")>>)

abbreviated_edge_pattern == OneOf(is_prefix_of_abbreviated_edge_pattern)

edge_pattern == Arms(<< << <<is_prefix_of_full_edge_pattern>>, full_edge_pattern>>,
                        << <<is_prefix_of_abbreviated_edge_pattern>>, abbreviated_edge_pattern>> >>)

element_pattern == Arms(<< << <<{"("}>>, node_pattern>>, << <<is_prefix_of_edge_pattern>>, edge_pattern>> >>)

fixed_quantifier == Chain(<<T("{"), unsigned_integer, T("}")>>)

general_quantifier == Chain(<<T("{"), Opt(unsigned_integer), T(","), Opt(unsigned_integer), T("}")>>)

\* {n} is told from {n,m} by the third token, from {,} by the second not being a comma.
graph_pattern_quantifier ==
    Arms(<< << <<{"*"}>>, T("*")>>,
            << <<{"+"}>>, T("+")>>,
            << <<{"{"}>>, Arms(<< << <<{"{"}, {","}, {"}"}>>, general_quantifier>>,
                                  << <<{"{"}, Else, {"}"}>>, fixed_quantifier>>,
                                  << <<Else>>, general_quantifier>> >>)>> >>)

path_pattern_expression == R("path_pattern_expression")

path_mode == OneOf({"WALK", "TRAIL", "SIMPLE", "ACYCLIC"})

path_or_paths == OneOf({"PATH", "PATHS"})

path_mode_prefix == Chain(<<path_mode, Opt(path_or_paths)>>)

graph_pattern_where_clause == Chain(<<T("WHERE"), value_expression>>)

parenthesized_path_pattern_expression ==
    Chain(<<T("("), Opt(Chain(<<regular_identifier, T("=")>>)), Opt(path_mode_prefix), path_pattern_expression,
          Opt(graph_pattern_where_clause), T(")")>>)

path_primary == Arms(<< << <<{"("}>>, Alt(<<parenthesized_path_pattern_expression, element_pattern>>)>>,
                        << <<is_prefix_of_edge_pattern>>, element_pattern>> >>)

\* A quantifier that begins must be complete.
path_factor ==
    Chain(<<path_primary,
          Arms(<< << <<{"?"}>>, T("?")>>, << <<{"*", "+", "{"}>>, graph_pattern_quantifier>>,
                  << <<>>, Chain(<<>>)>> >>)>>)

path_term == Many1(path_factor)

path_pattern_expression_rule ==
    Chain(<<path_term,
          Arms(<< << <<{"|+|"}>>, Many1(Chain(<<T("|+|"), path_term>>))>>,
                  << <<{"|"}>>, Many1(Chain(<<T("|"), path_term>>))>>,
                  << <<>>, Chain(<<>>)>> >>)>>)

all_path_search == Chain(<<T("ALL"), Opt(path_mode), Opt(path_or_paths)>>)

\* The keyword ANY itself is not consumed.
any_path_search == Chain(<<Opt(non_negative_integer_specification), Opt(path_mode), Opt(path_or_paths)>>)

all_shortest_path_search == Chain(<<T("ALL"), T("SHORTEST"), Opt(path_mode), Opt(path_or_paths)>>)

any_shortest_path_search == Chain(<<T("ANY"), T("SHORTEST"), Opt(path_mode), Opt(path_or_paths)>>)

\* SHORTEST needs a number unless GROUP follows.
counted_shortest_path_search ==
    LET rest == Chain(<<Opt(path_mode), Opt(path_or_paths)>>)
        groups == OneOf({"GROUP", "GROUPS"})
    IN  Chain(<<T("SHORTEST"),
              Alt(<<Chain(<<non_negative_integer_specification, rest, Opt(groups)>>),
                    Chain(<<rest, groups>>)>>)>>)

shortest_path_search == Arms(<< << <<{"ALL"}, {"SHORTEST"}>>, all_shortest_path_search>>,
                                << <<{"ANY"}, {"SHORTEST"}>>, any_shortest_path_search>>,
                                << <<{"SHORTEST"}, Else>>, counted_shortest_path_search>> >>)

path_search_prefix == Arms(<< << <<{"ALL", "ANY"}, {"SHORTEST"}>>, shortest_path_search>>,
                              << <<{"SHORTEST"}>>, shortest_path_search>>,
                              << <<{"ALL"}>>, all_path_search>>,
                              << <<{"ANY"}>>, any_path_search>> >>)

path_pattern_prefix == R("path_pattern_prefix")

path_pattern_prefix_rule == Arms(<< << <<{"WALK", "TRAIL", "SIMPLE", "ACYCLIC"}>>, path_mode_prefix>>,
                                    << <<{"ALL", "ANY", "SHORTEST"}>>, path_search_prefix>> >>)

path_pattern == Chain(<<Opt(Chain(<<regular_identifier, T("=")>>)), Opt(path_pattern_prefix), path_pattern_expression>>)

match_mode == Alt(<<Chain(<<T("REPEATABLE"), Alt(<<Chain(<<T("ELEMENT"), Opt(T("BINDINGS"))>>), T("ELEMENTS")>>)>>),
                    Chain(<<T("DIFFERENT"), Alt(<<Chain(<<edge_synonym, Opt(T("BINDINGS"))>>), edges_synonym>>)>>)>>)

keep_clause == Chain(<<T("KEEP"), path_pattern_prefix>>)

graph_pattern == Chain(<<Opt(match_mode), Sep(path_pattern, T(",")), Opt(keep_clause), Opt(graph_pattern_where_clause)>>)

graph_pattern_binding_table == Chain(<<graph_pattern, Opt(Chain(<<T("YIELD"), Sep(regular_identifier, T(","))>>))>>)

ordering_specification == OneOf({"ASC", "ASCENDING", "DESC", "DESCENDING"})

null_ordering == Chain(<<T("NULLS"), OneOf({"FIRST", "LAST"})>>)

sort_specification == Chain(<<value_expression, Opt(ordering_specification), Opt(null_ordering)>>)

order_by_clause == Chain(<<T("ORDER"), T("BY"), Sep(sort_specification, T(","))>>)

limit_clause == Chain(<<T("LIMIT"), Opt(T("APPROXIMATE")), non_negative_integer_specification>>)

offset_clause == Chain(<<OneOf({"OFFSET", "SKIP"}), non_negative_integer_specification>>)
=============================================================================
