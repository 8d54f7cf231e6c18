----------------------------- MODULE GqlGrammar -----------------------------
(***************************************************************************)
(* The rules of the GQL parser for queries, types, catalog statements,     *)
(* sessions and programs, and the rules that are referred to by name.      *)
(***************************************************************************)
EXTENDS GqlExpressions

-----------------------------------------------------------------------------
(* query.rs, procedure_call.rs *)

named_procedure_call == Chain(<<procedure_reference, T("("), Sep0(value_expression, T(",")), T(")"), Opt(yield_clause)>>)

\* Inline procedure calls are not implemented.
procedure_call == Arms(<< << <<{"(", "{"}>>, Fail>>, << <<Else>>, named_procedure_call>> >>)

call_procedure_statement == R("call_procedure_statement")

call_procedure_statement_rule == Chain(<<Opt(T("OPTIONAL")), T("CALL"), procedure_call>>)

order_by_and_page_statement ==
    Arms(<< << <<{"ORDER"}>>, Chain(<<order_by_clause, Opt(offset_clause), Opt(limit_clause)>>)>>,
            << <<{"OFFSET", "SKIP"}>>, Chain(<<offset_clause, Opt(limit_clause)>>)>>,
            << <<{"LIMIT"}>>, limit_clause>> >>)

return_item == Chain(<<value_expression, Opt(Chain(<<T("AS"), identifier>>))>>)

grouping_element_list == Arms(<< << <<{"("}>>, Chain(<<T("("), T(")")>>)>>,
                                 << <<Else>>, Sep(regular_identifier, T(","))>> >>)

group_by_clause == Chain(<<T("GROUP"), T("BY"), grouping_element_list>>)

return_statement ==
    Chain(<<T("RETURN"), Opt(set_quantifier),
          Arms(<< << <<{"*"}>>, T("*")>>, << <<Else>>, Sep(return_item, T(","))>> >>), Opt(group_by_clause)>>)

primitive_result_statement ==
    Arms(<< << <<{"RETURN"}>>, Chain(<<return_statement, Opt(order_by_and_page_statement)>>)>>,
            << <<{"FINISH"}>>, T("FINISH")>> >>)

match_statement == R("match_statement")

simple_match_statement == Chain(<<T("MATCH"), graph_pattern_binding_table>>)

optional_match_statement ==
    Chain(<<T("OPTIONAL"), Arms(<< << <<{"MATCH"}>>, simple_match_statement>>,
                                 << <<{"{"}>>, Chain(<<T("{"), Many1(match_statement), T("}")>>)>>,
                                 << <<{"("}>>, Parens(Many1(match_statement))>> >>)>>)

match_statement_rule == Arms(<< << <<{"MATCH"}>>, simple_match_statement>>,
                                << <<{"OPTIONAL"}>>, optional_match_statement>> >>)

\* LET, FOR and FILTER are not implemented.
simple_query_statement == R("simple_query_statement")

simple_query_statement_rule ==
    Arms(<< << <<{"MATCH"}, Else>>, match_statement>>,
            << <<{"OPTIONAL"}, {"MATCH", "{", "("}>>, match_statement>>,
            << <<{"ORDER"}, {"BY"}>>, order_by_and_page_statement>>,
            << <<{"OFFSET", "LIMIT", "SKIP"}, Else>>, order_by_and_page_statement>>,
            << <<{"CALL"}, Else>>, call_procedure_statement>>,
            << <<{"OPTIONAL"}, {"CALL"}>>, call_procedure_statement>> >>)

procedure_body == R("procedure_body")

nested_procedure_specification == Chain(<<T("{"), procedure_body, T("}")>>)

ambient_linear_query_statement ==
    Arms(<< << <<{"{"}>>, nested_procedure_specification>>,
            << <<is_prefix_of_simple_query_statement \cup is_prefix_of_result_statement>>,
               Chain(<<Many(simple_query_statement), primitive_result_statement>>)>> >>)

focused_linear_query_statement_part == Chain(<<use_graph_clause, Many1(simple_query_statement)>>)

\* SELECT is not implemented.
focused_linear_query_statement ==
    Alt(<<Chain(<<Many1(focused_linear_query_statement_part), primitive_result_statement>>),
          Chain(<<use_graph_clause, primitive_result_statement>>),
          Chain(<<use_graph_clause, nested_procedure_specification>>)>>)

linear_query_statement ==
    Arms(<< << <<{"USE", "SELECT"}>>, focused_linear_query_statement>>,
            << <<is_prefix_of_ambient_linear_query_statement>>, ambient_linear_query_statement>> >>)

set_operator == Chain(<<OneOf({"UNION", "EXCEPT", "INTERSECT"}), Opt(set_quantifier)>>)

query_conjunction == Arms(<< << <<{"UNION", "EXCEPT", "INTERSECT"}>>, set_operator>>,
                             << <<{"OTHERWISE"}>>, T("OTHERWISE")>> >>)

composite_query_statement == Sep(linear_query_statement, query_conjunction)

-----------------------------------------------------------------------------
(* type_element.rs *)

typed == OneOf({"TYPED", "::"})

not_null == Chain(<<T("NOT"), T("NULL")>>)

Nullable(p) == Chain(<<p, Opt(not_null)>>)

Length(p) == Opt(Parens(p))

path_value_type == Nullable(T("PATH"))

vector_type == Nullable(Chain(<<T("VECTOR"), Parens(unsigned_integer)>>))

temporal_type == Nullable(T("DATE"))

\* NULL NOT NULL is tried before NULL.
immaterial_type == Alt(<<Chain(<<T("NULL"), not_null>>), T("NOTHING"), T("NULL")>>)

boolean_type == Nullable(OneOf({"BOOL", "BOOLEAN"}))

MinMax == Length(Chain(<<Opt(Chain(<<unsigned_integer, T(",")>>)), unsigned_integer>>))

character_string_type ==
    Nullable(Alt(<<Chain(<<T("STRING"), MinMax>>), Chain(<<OneOf({"CHAR", "VARCHAR"}), Length(unsigned_integer)>>)>>))

byte_string_type ==
    Nullable(Alt(<<Chain(<<T("BYTES"), MinMax>>), Chain(<<OneOf({"BINARY", "VARBINARY"}), Length(unsigned_integer)>>)>>))

decimal_numeric_type ==
    Nullable(Chain(<<OneOf({"DECIMAL", "DEC"}),
                   Length(Chain(<<unsigned_integer, Opt(Chain(<<T(","), unsigned_integer>>))>>))>>))

verbose_numeric_type_kind ==
    Alt(<<OneOf({"INTEGER8", "INTEGER16", "INTEGER32", "INTEGER64", "INTEGER128", "INTEGER256"}),
          Chain(<<OneOf({"SMALL", "BIG"}), T("INTEGER")>>),
          Chain(<<T("INTEGER"), Length(unsigned_integer)>>)>>)

signed_numeric_type_kind ==
    Alt(<<OneOf({"INT8", "INT16", "INT32", "INT64", "INT128", "INT256", "SMALLINT", "BIGINT"}),
          Chain(<<T("INT"), Length(unsigned_integer)>>),
          Chain(<<T("SIGNED"), verbose_numeric_type_kind>>),
          verbose_numeric_type_kind>>)

unsigned_numeric_type_kind ==
    Alt(<<OneOf({"UINT8", "UINT16", "UINT32", "UINT64", "UINT128", "UINT256", "USMALLINT", "UBIGINT"}),
          Chain(<<T("UINT"), Length(unsigned_integer)>>),
          Chain(<<T("UNSIGNED"), verbose_numeric_type_kind>>)>>)

signed_binary_exact_numeric_type == Nullable(signed_numeric_type_kind)

unsigned_binary_exact_numeric_type == Nullable(unsigned_numeric_type_kind)

predefined_type ==
    Arms(<< << <<{"BOOL", "BOOLEAN"}>>, boolean_type>>,
            << <<{"STRING", "CHAR", "VARCHAR"}>>, character_string_type>>,
            << <<{"BYTES", "BINARY", "VARBINARY"}>>, byte_string_type>>,
            << <<{"DECIMAL", "DEC"}>>, decimal_numeric_type>>,
            << <<{"NULL", "NOTHING"}>>, immaterial_type>>,
            << <<{"VECTOR"}>>, vector_type>>,
            << <<is_prefix_of_signed_exact_numeric_type>>, signed_binary_exact_numeric_type>>,
            << <<is_prefix_of_unsigned_exact_numeric_type>>, unsigned_binary_exact_numeric_type>>,
            << <<is_prefix_of_temporal_type>>, temporal_type>> >>)

value_type == Arms(<< << <<{"PATH"}>>, path_value_type>>, << <<is_prefix_of_predefined_type>>, predefined_type>> >>)

property_type == Chain(<<identifier, Opt(typed), value_type>>)

property_types_specification == R("property_types_specification")

property_types_specification_rule == Chain(<<T("{"), Sep0(property_type, T(",")), T("}")>>)

label_set_specification == Sep(identifier, T("&"))

label_set_phrase == R("label_set_phrase")

label_set_phrase_rule == Arms(<< << <<{"LABEL"}>>, Chain(<<T("LABEL"), identifier>>)>>,
                                 << <<{"LABELS"}>>, Chain(<<T("LABELS"), label_set_specification>>)>>,
                                 << <<{"IS", ":"}>>, Chain(<<is_or_colon, label_set_specification>>)>> >>)

node_type_implied_content == Alt(<<Chain(<<label_set_phrase, Opt(property_types_specification)>>),
                                   property_types_specification>>)

node_type_key_label_set == Chain(<<Opt(label_set_phrase), implies>>)

node_type_filler == R("node_type_filler")

node_type_filler_rule == Alt(<<Chain(<<node_type_key_label_set, Opt(node_type_implied_content)>>),
                               node_type_implied_content>>)

node_type_phrase_filler == Alt(<<Chain(<<identifier, Opt(node_type_filler)>>), node_type_filler>>)

node_type_pattern ==
    Chain(<<Opt(Chain(<<node_synonym, Opt(T("TYPE")), identifier>>)), T("("), Opt(regular_identifier),
          Opt(node_type_filler), T(")")>>)

node_type_phrase == Chain(<<node_synonym, Opt(T("TYPE")), node_type_phrase_filler,
                          Opt(Chain(<<T("AS"), regular_identifier>>))>>)

node_type_specification == Arms(<< << <<{"("}>>, node_type_pattern>>,
                                   << <<{"NODE", "VERTEX"}>>, Alt(<<node_type_pattern, node_type_phrase>>)>> >>)

node_type_reference == Parens(Alt(<<regular_identifier, Opt(node_type_filler)>>))

arc_type_pointing_right == Chain(<<T("-["), node_type_filler, T("]->")>>)

arc_type_pointing_left == Chain(<<T("<-["), node_type_filler, T("]-")>>)

arc_type_undirected == Chain(<<T("~["), node_type_filler, T("]~")>>)

edge_type_pattern_directed ==
    Chain(<<node_type_reference,
          Arms(<< << <<{"-["}>>, arc_type_pointing_right>>, << <<{"<-["}>>, arc_type_pointing_left>> >>),
          node_type_reference>>)

edge_type_pattern_undirected == Chain(<<node_type_reference, arc_type_undirected, node_type_reference>>)

edge_type_pattern ==
    LET prefix(kind) == Chain(<<kind, edge_synonym, Opt(T("TYPE")), identifier>>)
    IN  Alt(<<Chain(<<prefix(T("DIRECTED")), edge_type_pattern_directed>>),
              Chain(<<prefix(T("UNDIRECTED")), edge_type_pattern_undirected>>),
              Chain(<<Opt(prefix(Chain(<<>>))), Alt(<<edge_type_pattern_directed, edge_type_pattern_undirected>>)>>)>>)

endpoint_pair_directed == Parens(Chain(<<regular_identifier, OneOf({"TO", "->", "<-"}), regular_identifier>>))

endpoint_pair_undirected == Parens(Chain(<<regular_identifier, OneOf({"TO", "~"}), regular_identifier>>))

edge_type_phrase ==
    LET phrase(kind, pair) == Chain(<<T(kind), edge_synonym, Opt(T("TYPE")), node_type_phrase_filler,
                                    T("CONNECTING"), pair>>)
    IN  Alt(<<phrase("DIRECTED", endpoint_pair_directed), phrase("UNDIRECTED", endpoint_pair_undirected)>>)

edge_type_specification == Arms(<< << <<{"EDGE", "RELATIONSHIP", "("}>>, edge_type_pattern>>,
                                   << <<{"DIRECTED", "UNDIRECTED"}>>, Alt(<<edge_type_pattern, edge_type_phrase>>)>> >>)

element_type_specification == R("element_type_specification")

element_type_specification_rule ==
    Arms(<< << <<{"NODE", "VERTEX"}>>, node_type_specification>>,
            << <<{"DIRECTED", "UNDIRECTED", "EDGE", "RELATIONSHIP"}>>, edge_type_specification>>,
            << <<Else>>, Alt(<<edge_type_specification, node_type_specification>>)>> >>)

nested_graph_type_specification == Chain(<<T("{"), Sep(element_type_specification, T(",")), T("}")>>)

-----------------------------------------------------------------------------
(* catalog.rs *)

if_not_exists == Opt(Chain(<<T("IF"), T("NOT"), T("EXISTS")>>))

if_exists == Opt(Chain(<<T("IF"), T("EXISTS")>>))

create_schema_statement == Chain(<<T("CREATE"), T("SCHEMA"), if_not_exists, catalog_schema_parent_and_name>>)

drop_schema_statement == Chain(<<T("DROP"), T("SCHEMA"), if_exists, catalog_schema_parent_and_name>>)

PropertyGraph == Chain(<<Opt(T("PROPERTY")), T("GRAPH")>>)

open_graph_type == Chain(<<Opt(typed), T("ANY"), Opt(PropertyGraph)>>)

graph_type_like_graph == Chain(<<T("LIKE"), graph_expression>>)

of_graph_type ==
    Arms(<< << <<{"LIKE"}>>, graph_type_like_graph>>,
            << <<Else>>, Chain(<<Opt(typed), Alt(<<graph_type_reference,
                                                 Chain(<<Opt(PropertyGraph), nested_graph_type_specification>>)>>)>>)>> >>)

graph_source == Chain(<<T("AS"), T("COPY"), T("OF"), graph_expression>>)

create_graph_statement_kind ==
    Chain(<<T("CREATE"), Alt(<<Chain(<<PropertyGraph, if_not_exists>>),
                             Chain(<<T("OR"), T("REPLACE"), PropertyGraph>>)>>)>>)

create_graph_statement == Chain(<<create_graph_statement_kind, catalog_object_parent_and_name,
                                Alt(<<open_graph_type, of_graph_type>>), Opt(graph_source)>>)

create_vector_index_statement ==
    Chain(<<T("CREATE"), T("VECTOR"), T("INDEX"), identifier, if_not_exists, T("FOR"), T("("), regular_identifier,
          T(":"), identifier, T(")"), T("ON"), T("("), regular_identifier, T("."), identifier, T(")")>>)

drop_vector_index_statement == Chain(<<T("DROP"), T("VECTOR"), T("INDEX"), identifier, if_exists>>)

drop_graph_statement == Chain(<<T("DROP"), PropertyGraph, if_exists, catalog_object_parent_and_name>>)

create_graph_type_statement_kind ==
    Chain(<<T("CREATE"), Alt(<<Chain(<<PropertyGraph, T("TYPE"), if_not_exists>>),
                             Chain(<<T("OR"), T("REPLACE"), PropertyGraph, T("TYPE")>>)>>)>>)

copy_of_graph_type == Chain(<<T("COPY"), T("OF"), graph_type_reference>>)

graph_type_source ==
    Arms(<< << <<{"AS"}, {"COPY"}>>, Chain(<<T("AS"), copy_of_graph_type>>)>>,
            << <<{"COPY"}, {"OF"}>>, copy_of_graph_type>>,
            << <<{"LIKE"}, Else>>, graph_type_like_graph>>,
            << <<{"AS"}, {"{"}>>, Chain(<<T("AS"), nested_graph_type_specification>>)>>,
            << <<{"{"}, Else>>, nested_graph_type_specification>> >>)

create_graph_type_statement == Chain(<<create_graph_type_statement_kind, catalog_object_parent_and_name, graph_type_source>>)

drop_graph_type_statement == Chain(<<T("DROP"), PropertyGraph, T("TYPE"), if_exists, catalog_object_parent_and_name>>)

primitive_catalog_modifying_statement ==
    Arms(<< << <<{"CREATE"}, {"SCHEMA"}>>, create_schema_statement>>,
            << <<{"DROP"}, {"SCHEMA"}>>, drop_schema_statement>>,
            << <<{"DROP"}, {"VECTOR"}>>, drop_vector_index_statement>>,
            << <<{"CREATE"}, {"VECTOR"}>>, create_vector_index_statement>>,
            << <<{"CREATE"}, {"PROPERTY", "GRAPH", "OR"}>>, Alt(<<create_graph_type_statement, create_graph_statement>>)>>,
            << <<{"DROP"}, {"PROPERTY", "GRAPH"}>>, Alt(<<drop_graph_type_statement, drop_graph_statement>>)>> >>)

simple_catalog_modifying_statement == Arms(<< << <<{"CREATE", "DROP"}>>, primitive_catalog_modifying_statement>>,
                                              << <<{"OPTIONAL", "CALL"}>>, call_procedure_statement>> >>)

-----------------------------------------------------------------------------
(* procedure_spec.rs, session.rs, transaction.rs, program.rs *)

statement == R("statement")

explain_statement == Chain(<<T("EXPLAIN"), statement>>)

\* Data-modifying statements are not implemented.
statement_rule == Alt(<<composite_query_statement, Many1(simple_catalog_modifying_statement), explain_statement>>)

next_statement == Chain(<<T("NEXT"), Opt(yield_clause), statement>>)

\* Variable definitions are not implemented.
procedure_body_rule == Chain(<<Opt(at_schema_clause), statement, Many(next_statement)>>)

session_set_command ==
    Chain(<<T("SESSION"), T("SET"),
          Arms(<< << <<{"SCHEMA"}>>, Chain(<<T("SCHEMA"), schema_reference>>)>>,
                  << <<{"TIME"}>>, Chain(<<T("TIME"), T("ZONE"), character_string_literal>>)>>,
                  << <<{"PROPERTY", "GRAPH"}>>, Chain(<<PropertyGraph, graph_expression>>)>> >>)>>)

session_reset_arguments ==
    Arms(<< << <<{"ALL", "PARAMETERS", "CHARACTERISTICS"}>>, Chain(<<Opt(T("ALL")), OneOf({"PARAMETERS", "CHARACTERISTICS"})>>)>>,
            << <<{"SCHEMA"}>>, T("SCHEMA")>>,
            << <<{"PROPERTY", "GRAPH"}>>, PropertyGraph>>,
            << <<{"TIME"}>>, Chain(<<T("TIME"), T("ZONE")>>)>>,
            << <<{"PARAMETER", "param"}>>, Chain(<<Opt(T("PARAMETER")), general_parameter_reference>>)>> >>)

session_reset_command == Chain(<<T("SESSION"), T("RESET"), Opt(session_reset_arguments)>>)

session_close_command == Chain(<<T("SESSION"), T("CLOSE")>>)

start_transaction_command ==
    Chain(<<T("START"), T("TRANSACTION"), Sep0(Chain(<<T("READ"), OneOf({"ONLY", "WRITE"})>>), T(","))>>)

end_transaction_command == OneOf({"ROLLBACK", "COMMIT"})

session_activity == Arms(<< << <<{"SESSION"}, {"SET"}>>, Chain(<<Many1(session_set_command), Many(session_reset_command)>>)>>,
                            << <<{"SESSION"}, {"RESET"}>>, Many1(session_reset_command)>> >>)

transaction_activity ==
    LET work == Chain(<<procedure_body, Opt(end_transaction_command)>>)
    IN  Arms(<< << <<{"START"}>>, Chain(<<start_transaction_command, Opt(work)>>)>>,
                << <<{"COMMIT", "ROLLBACK"}>>, end_transaction_command>>,
                << <<Else>>, work>> >>)

program_activity == Arms(<< << <<{"SESSION"}>>, session_activity>>, << <<Else>>, transaction_activity>> >>)

gql_program == Alt(<<Chain(<<program_activity, Opt(session_close_command)>>), session_close_command>>)

Grammar == [value_expression               |-> value_expression_rule,
            value_expression_primary       |-> value_expression_primary_rule,
            label_expression               |-> label_expression_rule,
            path_pattern_expression        |-> path_pattern_expression_rule,
            match_statement                |-> match_statement_rule,
            procedure_body                 |-> procedure_body_rule,
            statement                      |-> statement_rule,
            identifier                     |-> identifier_rule,
            regular_identifier             |-> regular_identifier_rule,
            property_types_specification   |-> property_types_specification_rule,
            label_set_phrase               |-> label_set_phrase_rule,
            node_type_filler               |-> node_type_filler_rule,
            element_type_specification     |-> element_type_specification_rule,
            graph_expression               |-> graph_expression_rule,
            catalog_object_parent_and_name |-> catalog_object_parent_and_name_rule,
            path_pattern_prefix            |-> path_pattern_prefix_rule,
            simple_query_statement         |-> simple_query_statement_rule,
            call_procedure_statement       |-> call_procedure_statement_rule]
=============================================================================
