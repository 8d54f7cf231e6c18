------------------------------- MODULE Planner -------------------------------
(***************************************************************************)
(* A query on its way from the syntax tree to its rows: the binder gives   *)
(* every name a type, the logical planner stacks plan nodes, the optimizer *)
(* rewrites vector searches and picks physical nodes, and the executor     *)
(* builder looks every column up by name in the schema of the node below.  *)
(* Nothing ties that schema to the columns the executors really yield.     *)
(*                                                                         *)
(* A name is the sequence of its words, as underscores part them: the      *)
(* variable a is <<"a">>, a_x is <<"a", "x">>.  The column of property p   *)
(* of variable v is called v_p, here v \o p, and may be a name the query   *)
(* already has.  <<kind, n>> is a generated name (__n0, __e1), which no    *)
(* query uses.  A label specification is a sequence (or) of sets (and) of  *)
(* label ids; the empty set stands for any label.                          *)
(***************************************************************************)
EXTENDS Executors, FiniteSets, TLC

CONSTANTS
    None,          \* an absent part of a query
    Graphs,        \* name -> [ids, types, label, store, out, indexes]
    CurrentGraph,  \* the graph of the session
    Procedures,    \* name -> [parameters, schema, rows]
    Variables,     \* the variables of the queries, in alphabetical order
    Queries,       \* the queries
    Batch          \* the rows of a batch

VARIABLES query, bound, plan, answers

vars == <<query, bound, plan, answers>>

Field(name, ty) == [name |-> name, ty |-> ty]

\* get_field_index_by_name: the first field of that name; 0 when there is none.
Position(schema, name) ==
    LET at == {i \in DOMAIN schema : schema[i].name = name}
    IN  IF at = {} THEN 0 ELSE CHOOSE i \in at : \A j \in at : i =< j

WithField(schema, name, ty) ==
    IF Position(schema, name) # 0 THEN schema ELSE Append(schema, Field(name, ty))

-----------------------------------------------------------------------------
(***************************************************************************)
(* The binder.  Its state is the active schema with the labels of the      *)
(* variables, and the bound path.  "rejected" is a bind or plan error,     *)
(* "panic" an unreachable!() that is reached.                              *)
(***************************************************************************)
RECURSIVE LabelNames(_)
LabelNames(e) == CASE e[1] = "any" -> {}
                   [] e[1] = "label" -> {e[2]}
                   [] e[1] = "not" -> LabelNames(e[2])
                   [] OTHER -> LabelNames(e[2]) \cup LabelNames(e[3])

RECURSIVE HasNegation(_)
HasNegation(e) == \/ e[1] = "not"
                  \/ e[1] \in {"or", "and"} /\ (HasNegation(e[2]) \/ HasNegation(e[3]))

\* Slip: of a disjunction only the first route is kept.
RECURSIVE lower_first_route(_, _)
lower_first_route(ids, e) ==
    CASE e[1] = "any"   -> <<{}>>
      [] e[1] = "label" -> <<{ids[e[2]]}>>
      [] e[1] = "or"    -> lower_first_route(ids, e[2])
      [] e[1] = "and"   -> <<lower_first_route(ids, e[2])[1] \cup lower_first_route(ids, e[3])[1]>>

RECURSIVE lower_label_expr_to_specs(_, _)
lower_label_expr_to_specs(ids, e) ==
    CASE e[1] = "any"   -> <<{}>>
      [] e[1] = "label" -> <<{ids[e[2]]}>>
      [] e[1] = "or"    -> lower_label_expr_to_specs(ids, e[2]) \o lower_label_expr_to_specs(ids, e[3])
      [] e[1] = "and"   ->
            LET l == lower_label_expr_to_specs(ids, e[2])
                r == lower_label_expr_to_specs(ids, e[3])
            IN  [n \in 1..(Len(l) * Len(r)) |->
                    l[((n - 1) \div Len(r)) + 1] \cup r[((n - 1) % Len(r)) + 1]]

\* The properties of the vertex type with exactly these labels; none when there is no such type.
PropertiesOf(g, labels) ==
    IF Cardinality(labels) = 1 /\ labels \subseteq DOMAIN g.types
    THEN g.types[CHOOSE l \in labels : TRUE] ELSE <<>>

Names(props) == [i \in DOMAIN props |-> props[i].name]

Unbound == [status |-> "ok", active |-> FALSE, schema |-> <<>>, labels |-> <<>>, path |-> <<>>]

\* bind_element_pattern with the filler, register_variable and register_variable_labels.
bind_element_pattern(g, b, el) ==
    LET var  == IF el.var = None THEN <<el.kind, Len(b.schema)>> ELSE el.var
        spec == IF el.label = None THEN <<{}>> ELSE lower_label_expr_to_specs(g.ids, el.label)
        ty   == IF el.kind = "edge" THEN <<"Edge">>
                ELSE <<"Vertex", Names(PropertiesOf(g, spec[1]))>>
        at   == Position(b.schema, var)
    IN  IF b.status # "ok" THEN b
        ELSE IF \/ ~el.supported
                \/ el.kind = "edge" /\ el.dir # "right"
                \/ el.label # None /\ ~(LabelNames(el.label) \subseteq DOMAIN g.ids)
        THEN [b EXCEPT !.status = "rejected"]
        ELSE IF el.label # None /\ HasNegation(el.label) THEN [b EXCEPT !.status = "panic"]
        ELSE IF at # 0 /\ b.schema[at].ty # ty THEN [b EXCEPT !.status = "rejected"]
        ELSE [b EXCEPT !.active = TRUE, !.schema = WithField(@, var, ty),
                       !.labels = (var :> spec) @@ @,
                       !.path = Append(@, [kind |-> el.kind, var |-> var, spec |-> spec])]

\* The YIELD names must be columns; they have no other effect on the plan.
bind_graph_pattern_binding_table(g, q) ==
    LET to[n \in 0..Len(q.match)] ==
            IF n = 0 THEN Unbound ELSE bind_element_pattern(g, to[n-1], q.match[n])
        b == to[Len(q.match)]
    IN  IF b.status = "ok" /\ (\E k \in DOMAIN q.yield : Position(b.schema, q.yield[k]) = 0)
        THEN [b EXCEPT !.status = "rejected"] ELSE b

\* The argument types are those of the parameters; YIELD renames every column, in order.
bind_named_procedure_call(call) ==
    LET p == Procedures[call.name]
        renamed == [k \in DOMAIN p.schema |-> Field(call.yield[k].alias, p.schema[k].ty)]
    IN  IF \/ call.name \notin DOMAIN Procedures
           \/ call.args # p.parameters
           \/ p.schema = None
           \/ call.yield # None /\ Names(call.yield) # [k \in DOMAIN p.schema |-> p.schema[k].name]
        THEN [Unbound EXCEPT !.status = "rejected"]
        ELSE [Unbound EXCEPT !.active = TRUE, !.schema = IF call.yield = None THEN p.schema ELSE renamed]

Expr(kind, binding, property, label, pid, ty) ==
    [kind |-> kind, binding |-> binding, property |-> property, label |-> label, pid |-> pid, ty |-> ty]

NoExprBound == Expr("rejected", <<>>, None, 0, 0, <<>>)

\* A property of a variable that is bound with exactly one label.
bind_property_expression(g, b, kind, v, p) ==
    LET spec  == b.labels[v]
        label == CHOOSE l \in spec[1] : TRUE
        pid   == CHOOSE i \in DOMAIN g.types[label] : g.types[label][i].name = p
    IN  IF \/ Position(b.schema, v) = 0
           \/ v \notin DOMAIN b.labels
           \/ Len(spec) # 1 \/ Cardinality(spec[1]) # 1
           \/ label \notin DOMAIN g.types
           \/ \A i \in DOMAIN g.types[label] : g.types[label][i].name # p
        THEN NoExprBound
        ELSE Expr(kind, v, p, label, pid, g.types[label][pid].ty)

\* bind_value_expression: variables, properties, literals and VECTOR_DISTANCE(literal, v.p).
bind_value_expression(g, b, e) ==
    CASE e[1] = "var" ->
            LET at == Position(b.schema, e[2])
            IN  IF at = 0 THEN NoExprBound
                ELSE Expr("var", e[2], None, 0, 0, b.schema[at].ty)
      [] e[1] = "prop" -> bind_property_expression(g, b, "prop", e[2], e[3])
      [] e[1] = "distance" ->
            LET x == bind_property_expression(g, b, "distance", e[2], e[3])
            IN  IF x.ty = <<"Vector">> THEN [x EXCEPT !.ty = <<"Float32">>] ELSE NoExprBound
      [] e[1] = "value" -> Expr("value", <<>>, None, 0, 0, <<"Int8">>)
      [] OTHER -> NoExprBound

\* The name of an output column without an alias: how the expression is displayed.
Display(x) == CASE x.kind = "var" -> x.binding
                [] x.kind = "prop" -> x.binding \o <<".">> \o x.property
                [] OTHER -> <<x.kind>> \o x.binding

\* bind_return: the labels of a returned vertex variable stay known under its own name.
bind_return(g, b, items) ==
    LET exprs == [k \in DOMAIN items |-> bind_value_expression(g, b, items[k].expr)]
        kept  == {exprs[k].binding : k \in {j \in DOMAIN exprs :
                     exprs[j].kind = "var" /\ exprs[j].ty[1] = "Vertex"}} \cap DOMAIN b.labels
    IN  IF items = None THEN [b EXCEPT !.status = IF b.active THEN "ok" ELSE "rejected"]
        ELSE IF \E k \in DOMAIN exprs : exprs[k].kind = "rejected"
        THEN [b EXCEPT !.status = "rejected"]
        ELSE [b EXCEPT !.active = TRUE,
                       !.schema = [k \in DOMAIN items |->
                           Field(IF items[k].alias = None THEN Display(exprs[k]) ELSE items[k].alias,
                                 exprs[k].ty)],
                       !.labels = [v \in kept |-> b.labels[v]]]

\* A query is bound against the graph it names or the current one, the sort keys against
\* the columns of RETURN.
bind_linear_query_statement(q) ==
    LET g  == Graphs[IF q.use = None THEN CurrentGraph ELSE q.use]
        b  == IF q.call # None THEN bind_named_procedure_call(q.call)
              ELSE IF q.match # <<>> THEN bind_graph_pattern_binding_table(g, q) ELSE Unbound
        r  == bind_return(g, b, q.items)
        keys == [k \in DOMAIN q.order |-> bind_value_expression(g, r, q.order[k].expr)]
    IN  IF b.status # "ok" THEN [status |-> b.status]
        ELSE IF q.where \/ r.status # "ok" \/ \E k \in DOMAIN keys : keys[k].kind = "rejected"
        THEN [status |-> "rejected"]
        ELSE [status |-> "ok", input |-> b,
              exprs |-> IF q.items = None THEN None
                        ELSE [k \in DOMAIN q.items |-> bind_value_expression(g, b, q.items[k].expr)],
              output |-> r, keys |-> keys]

-----------------------------------------------------------------------------
(***************************************************************************)
(* Plan nodes, one constructor each (gql/planner/src/plan): what the       *)
(* executor needs, and the schema PlanBase keeps.                          *)
(***************************************************************************)
LogicalMatch(path, schema) == [op |-> "match", path |-> path, schema |-> schema]

Call(name, schema) == [op |-> "call", name |-> name, schema |-> schema]

OneRow == [op |-> "one_row", schema |-> <<Field(<<"one_row">>, <<"Int32">>)>>]

Project(child, exprs, schema, labels) ==
    [op |-> "project", exprs |-> exprs, schema |-> schema, labels |-> labels, child |-> child]

Sort(child, specs) == [op |-> "sort", specs |-> specs, schema |-> child.schema, child |-> child]

Offset(child, n) == [op |-> "offset", n |-> n, schema |-> child.schema, child |-> child]

Limit(child, n, approximate) ==
    [op |-> "limit", n |-> n, approximate |-> approximate, schema |-> child.schema, child |-> child]

NodeIdScan(var, spec) ==
    [op |-> "scan", var |-> var, spec |-> spec, schema |-> <<Field(var, <<"Int64">>)>>]

Expand(child, edge, target) ==
    [op |-> "expand", edge |-> edge, target |-> target, child |-> child,
     schema |-> WithField(WithField(child.schema, edge.var, <<"Edge">>), target.var, <<"Int64">>)]

VertexPropertyFetch(child, binding, outputs) ==
    [op |-> "fetch", binding |-> binding, outputs |-> outputs, child |-> child,
     schema |-> child.schema \o [k \in DOMAIN outputs |->
                    Field(binding \o outputs[k].name, outputs[k].ty)]]

VectorIndexScan(child, binding, index, n) ==
    [op |-> "vector_scan", binding |-> binding, index |-> index, n |-> n, child |-> child,
     schema |-> <<Field(binding, <<"UInt64">>), Field(<<"distance">>, <<"Float32">>)>>]

HashJoin(left, right, binding) ==
    [op |-> "join", binding |-> binding, left |-> left, right |-> right,
     schema |-> left.schema \o right.schema]

\* plan_order_by_and_page_statement: sort, offset, limit, from the bottom up.
plan_order_by_and_page_statement(q, keys, input) ==
    LET sorted  == IF q.order = <<>> THEN input
                   ELSE Sort(input, [k \in DOMAIN q.order |->
                             [key |-> keys[k], descending |-> q.order[k].descending,
                              nulls_first |-> q.order[k].nulls_first]])
        skipped == IF q.offset = None THEN sorted ELSE Offset(sorted, q.offset)
    IN  IF q.limit = None THEN skipped ELSE Limit(skipped, q.limit, q.approximate)

\* plan_linear_query_statement: the input, the projection of RETURN, the page.
plan_linear_query_statement(q, b) ==
    LET input == IF q.call # None THEN Call(q.call.name, b.input.schema)
                 ELSE IF q.match # <<>> THEN LogicalMatch(b.input.path, b.input.schema)
                 ELSE OneRow
        proj  == IF b.exprs = None THEN input
                 ELSE Project(input, b.exprs, b.output.schema, b.output.labels)
    IN  plan_order_by_and_page_statement(q, b.keys, proj)

\* Slip: the property under a VECTOR_DISTANCE is not collected.
collect_property_only(x) == x.kind = "prop"

\* The expressions whose property the projection must have as a column.
collect_property_refs(x) == x.kind \in {"prop", "distance"}

\* One fetch per variable, in the order of the names, for the columns that are not there yet,
\* whatever a column of that name holds.
ensure_project_property_fetch(child, exprs) ==
    LET wanted(v) == {exprs[k] : k \in {j \in DOMAIN exprs :
                         collect_property_refs(exprs[j]) /\ exprs[j].binding = v}}
        outputs(v, p) ==
            LET new_ == {x \in wanted(v) : Position(p.schema, v \o x.property) = 0}
                pids == SelectSeq([i \in 1..Max({0} \cup {x.pid : x \in new_}) |-> i], LAMBDA i : \E x \in new_ : x.pid = i)
            IN  [k \in DOMAIN pids |->
                    LET x == CHOOSE y \in new_ : y.pid = pids[k]
                    IN  [pid |-> x.pid, name |-> x.property,
                         ty |-> IF x.kind = "distance" THEN <<"Vector">> ELSE x.ty]]
        to[n \in 0..Len(Variables)] ==
            IF n = 0 THEN child
            ELSE IF outputs(Variables[n], to[n-1]) = <<>> THEN to[n-1]
            ELSE VertexPropertyFetch(to[n-1], Variables[n], outputs(Variables[n], to[n-1]))
    IN  to[Len(Variables)]

\* A sort key that names a projected column stands for the expression of that column.
resolve_sort_key(key, proj) ==
    LET at == Position(proj.schema, key.binding)
    IN  IF key.kind = "var" /\ at # 0 THEN proj.exprs[at] ELSE key

\* Limit APPROXIMATE over Sort by one VECTOR_DISTANCE over Project.
IsVectorLimit(p) ==
    /\ p.op = "limit" /\ p.approximate
    /\ p.child.op = "sort" /\ Len(p.child.specs) = 1
    /\ p.child.child.op = "project"
    /\ resolve_sort_key(p.child.specs[1].key, p.child.child).kind = "distance"

\* The nearest vertices from the index joined with the matched rows; the sort is gone.
try_rewrite_vector_limit(p) ==
    LET proj == p.child.child
        key  == resolve_sort_key(p.child.specs[1].key, proj)
        base == proj.child
    IN  Project(HashJoin(VectorIndexScan(base, key.binding, <<key.label, key.pid>>, p.n),
                         ensure_project_property_fetch(base, proj.exprs), key.binding),
                proj.exprs, proj.schema, proj.labels)

\* A node over a new child: its constructor again, which takes the schema from the child.
Over(p, child) ==
    CASE p.op = "project" -> Project(child, p.exprs, p.schema, p.labels)
      [] p.op = "sort"    -> Sort(child, p.specs)
      [] p.op = "offset"  -> Offset(child, p.n)
      [] p.op = "limit"   -> Limit(child, p.n, p.approximate)
      [] p.op = "fetch"   -> VertexPropertyFetch(child, p.binding, p.outputs)
      [] p.op = "vector_scan" -> VectorIndexScan(child, p.binding, p.index, p.n)

RECURSIVE rewrite_node(_)
rewrite_node(p) ==
    IF IsVectorLimit(p) THEN try_rewrite_vector_limit(p)
    ELSE IF p.op = "project"
    THEN Over(p, ensure_project_property_fetch(rewrite_node(p.child), p.exprs))
    ELSE IF p.op \in {"sort", "limit", "offset"} THEN Over(p, rewrite_node(p.child))
    ELSE p

\* The physical form of a path: a scan of the first vertex and one expand per edge, each
\* from column 0.
PhysicalMatch(path) ==
    LET vertices == SelectSeq(path, LAMBDA x : x.kind = "node")
        edges    == SelectSeq(path, LAMBDA x : x.kind = "edge")
        to[n \in 0..Len(edges)] ==
            IF n = 0 THEN NodeIdScan(vertices[1].var, vertices[1].spec)
            ELSE Expand(to[n-1], edges[n], vertices[n+1])
    IN  to[IF Len(edges) < Len(vertices) THEN Len(edges) ELSE Len(vertices) - 1]

RECURSIVE create_physical_plan_impl(_)
create_physical_plan_impl(p) ==
    CASE p.op = "match" -> PhysicalMatch(p.path)
      [] p.op = "join"  -> HashJoin(create_physical_plan_impl(p.left),
                                    create_physical_plan_impl(p.right), p.binding)
      [] p.op \in {"call", "one_row"} -> p
      [] OTHER -> Over(p, create_physical_plan_impl(p.child))

-----------------------------------------------------------------------------
(***************************************************************************)
(* Execution.  The executors read the graph of the session, whichever      *)
(* graph the query named.                                                  *)
(***************************************************************************)
G == Graphs[CurrentGraph]

\* vertex_has_all_labels, and the same test in expand_from_vertex: one label of a set is enough.
LabelMatches(spec, label) == \E k \in DOMAIN spec : spec[k] = {} \/ label \in spec[k]

\* expand_from_vertex: the label of the edge is looked for in all sets together, so a
\* specification of any label lets no edge pass.
Neighbours(edge, target) ==
    [v \in DOMAIN G.label |->
        LET kept == SelectSeq(G.out[v], LAMBDA e :
                       /\ \E k \in DOMAIN edge : e[3] \in edge[k]
                       /\ LabelMatches(target, G.label[e[2]]))
        IN  [k \in DOMAIN kept |-> <<kept[k][1], kept[k][2]>>]]

\* build_evaluator: <<"missing">> where a column is not found, <<"not_vector">> where
\* VECTOR_DISTANCE would be taken of a column that holds no vectors.
build_evaluator(x, schema) ==
    LET column(name) == IF Position(schema, name) = 0 THEN <<"missing">>
                        ELSE <<"col", Position(schema, name)>>
        present == SelectSeq(x.ty[2], LAMBDA p : Position(schema, x.binding \o p) # 0)
        at == Position(schema, x.binding \o x.property)
    IN  CASE x.kind = "value" -> <<"const", 1>>
          [] x.kind = "prop"  -> column(x.binding \o x.property)
          [] x.kind = "distance" ->
                IF at = 0 THEN <<"missing">>
                ELSE IF schema[at].ty # <<"Vector">> THEN <<"not_vector">>
                ELSE <<"distance", <<"const", 0>>, <<"col", at>>>>
          [] x.ty[1] = "Vertex" /\ column(x.binding) # <<"missing">> ->
                <<"vertex", Position(schema, x.binding),
                  [k \in DOMAIN present |-> Position(schema, x.binding \o present[k])]>>
          [] OTHER -> column(x.binding)

Panics == {Stream(<<>>, "panic")}

\* The k vertices nearest to the query among the candidates, nearest first.
Nearest(candidates, index, k) ==
    LET pool == {v \in candidates : G.label[v] = index[1] /\ G.store[v][index[2]] # Null}
        before(u, v) == \/ G.store[u][index[2]] < G.store[v][index[2]]
                        \/ G.store[u][index[2]] = G.store[v][index[2]] /\ u < v
        rank(v) == Cardinality({u \in pool : before(u, v)}) + 1
    IN  [i \in 1..(IF k < Cardinality(pool) THEN k ELSE Cardinality(pool)) |->
            CHOOSE v \in pool : rank(v) = i]

\* One chunk of vertices and distances; the index is only looked up when there are candidates.
vector_index_scan(s, p, col) ==
    LET candidates == UNION {{c.rows[i][col] : i \in 1..len(c)} : c \in Range(s.chunks)}
        near == Nearest(candidates, p.index, p.n)
    IN  IF s.end # "done" THEN Stream(<<>>, s.end)
        ELSE IF p.n = 0 \/ candidates = {} THEN Stream(<<new(<<>>)>>, "done")
        ELSE IF p.index \notin G.indexes THEN Stream(<<>>, "error")
        ELSE Stream(<<new([i \in DOMAIN near |-> <<near[i], G.store[near[i]][p.index[2]]>>])>>, "done")

(***************************************************************************)
(* The projection of a whole vertex first fetches the properties of its    *)
(* type, unless its column is not an Int64 id; without a type all          *)
(* properties are fetched but none is named in the schema.                 *)
(***************************************************************************)
Augmented(p, streams) ==
    LET below == p.child.schema
        props(v) == IF v \in DOMAIN p.labels THEN PropertiesOf(G, p.labels[v][1]) ELSE <<>>
        fetches(x) == /\ x.kind = "var" /\ x.ty[1] = "Vertex"
                      /\ below[Position(below, x.binding)].ty = <<"Int64">>
        to[n \in 0..Len(p.exprs)] ==
            LET x == p.exprs[n]
            IN  IF n = 0 THEN [streams |-> streams, schema |-> below]
                ELSE IF ~fetches(x) THEN to[n-1]
                ELSE [streams |-> {scan_vertex_property(s, Position(below, x.binding),
                                       [i \in DOMAIN props(x.binding) |-> i], G.store) :
                                   s \in to[n-1].streams},
                      schema |-> to[n-1].schema \o [i \in DOMAIN props(x.binding) |->
                          Field(x.binding \o props(x.binding)[i].name, <<"String">>)]]
    IN  to[Len(p.exprs)]

\* The streams a plan may yield.
RECURSIVE build_executor(_)
build_executor(p) ==
    CASE p.op = "one_row" -> {Stream(<<new(<< <<0>> >>)>>, "done")}
      [] p.op = "call"    -> {Stream(<<new(Procedures[p.name].rows)>>, "done")}
      [] p.op = "scan"    -> {scan_vertex({v \in DOMAIN G.label : LabelMatches(p.spec, G.label[v])}, Batch)}
      [] p.op = "expand"  ->
            LET width == Len(p.child.schema) + 2
                s     == CHOOSE t \in build_executor(p.child) : TRUE
                e     == expand(s, 1, Neighbours(p.edge.spec, p.target.spec), Batch)
            IN  IF \E c \in Range(e.chunks) : Len(c.rows[1]) # width THEN Panics
                ELSE {flatten(e, width)}
      [] p.op = "fetch"   ->
            LET col == Position(p.child.schema, p.binding)
            IN  IF col = 0 THEN Panics
                ELSE {scan_vertex_property(s, col, [k \in DOMAIN p.outputs |-> p.outputs[k].pid], G.store) :
                      s \in build_executor(p.child)}
      [] p.op = "vector_scan" ->
            LET col == Position(p.child.schema, p.binding)
            IN  IF col = 0 THEN Panics
                ELSE {vector_index_scan(s, p, col) : s \in build_executor(p.child)}
      [] p.op = "join"    ->
            LET l == Position(p.left.schema, p.binding)
                r == Position(p.right.schema, p.binding)
            IN  {join(s, t, <<"col", l>>, <<"col", r>>, [k \in DOMAIN t.chunks |-> <<1>>]) :
                 s \in build_executor(p.left), t \in build_executor(p.right)}
      [] p.op = "project" ->
            LET a  == Augmented(p, build_executor(p.child))
                es == [k \in DOMAIN p.exprs |-> build_evaluator(p.exprs[k], a.schema)]
            IN  IF \E k \in DOMAIN es : es[k] = <<"missing">> THEN Panics
                ELSE {IF s.chunks # <<>> /\ <<"not_vector">> \in Range(es) THEN Stream(<<>>, "panic")
                      ELSE project(s, es) : s \in a.streams}
      [] p.op = "sort"    ->
            LET keys == [k \in DOMAIN p.specs |->
                            [p.specs[k] EXCEPT !.key = build_evaluator(p.specs[k].key, p.child.schema)]]
            IN  IF \E k \in DOMAIN keys : keys[k].key \in {<<"missing">>, <<"not_vector">>} THEN Panics
                ELSE UNION {sort(s, keys, Batch) : s \in build_executor(p.child)}
      [] p.op = "offset"  -> {offset(s, p.n) : s \in build_executor(p.child)}
      [] p.op = "limit"   -> {limit(s, p.n) : s \in build_executor(p.child)}

-----------------------------------------------------------------------------
Init == /\ query \in Queries
        /\ bound = None /\ plan = None /\ answers = None

Bind == /\ bound = None
        /\ bound' = bind_linear_query_statement(query)
        /\ UNCHANGED <<query, plan, answers>>

create_logical_plan ==
    /\ bound # None /\ (bound # None => bound.status = "ok") /\ plan = None
    /\ plan' = [phase |-> "logical", root |-> plan_linear_query_statement(query, bound)]
    /\ UNCHANGED <<query, bound, answers>>

run_logical_rewrite_passes ==
    /\ plan # None /\ (plan # None => plan.phase = "logical")
    /\ plan' = [phase |-> "rewritten", root |-> rewrite_node(plan.root)]
    /\ UNCHANGED <<query, bound, answers>>

create_physical_plan ==
    /\ plan # None /\ (plan # None => plan.phase = "rewritten")
    /\ plan' = [phase |-> "physical", root |-> create_physical_plan_impl(plan.root)]
    /\ UNCHANGED <<query, bound, answers>>

build ==
    /\ plan # None /\ (plan # None => plan.phase = "physical") /\ answers = None
    /\ answers' = build_executor(plan.root)
    /\ UNCHANGED <<query, bound, plan>>

Next == Bind \/ create_logical_plan \/ run_logical_rewrite_passes \/ create_physical_plan \/ build

Spec == Init /\ [][Next]_vars

-----------------------------------------------------------------------------
(***************************************************************************)
(* What a query means, from its text alone: the assignments of vertices    *)
(* and edges of the current graph to the elements of its path.             *)
(***************************************************************************)
RECURSIVE Satisfies(_, _)
Satisfies(label, e) == CASE e[1] = "any" -> TRUE
                         [] e[1] = "label" -> label = G.ids[e[2]]
                         [] e[1] = "or"  -> Satisfies(label, e[2]) \/ Satisfies(label, e[3])
                         [] e[1] = "and" -> Satisfies(label, e[2]) /\ Satisfies(label, e[3])

Edges == UNION {{<<v, e>> : e \in Range(G.out[v])} : v \in DOMAIN G.label}

\* A match of a path of one vertex, or of two vertices and the edge between them.
Matches(path) ==
    LET fits(el, label) == el.label = None \/ Satisfies(label, el.label)
    IN  IF Len(path) = 1 THEN {<<v>> : v \in {u \in DOMAIN G.label : fits(path[1], G.label[u])}}
        ELSE {<<x[1], x[2][1], x[2][2]>> : x \in {y \in Edges :
                /\ fits(path[1], G.label[y[1]]) /\ fits(path[3], G.label[y[2][2]])
                /\ fits(path[2], y[2][3])}}

At(path, v) == CHOOSE k \in DOMAIN path : path[k].var = v

\* The value of a RETURN item under a match.
ValueOf(path, m, e) ==
    LET v == m[At(path, e[2])]
        value(p) == LET props == G.types[G.label[v]]
                    IN  G.store[v][CHOOSE i \in DOMAIN props : props[i].name = p]
    IN  CASE e[1] = "var" /\ path[At(path, e[2])].kind = "edge" -> v
          [] e[1] = "var" -> [vid |-> v, props |-> G.store[v]]
          [] OTHER -> value(e[3])    \* a property; VECTOR_DISTANCE is taken from the origin

RowOf(q, m) == [k \in DOMAIN q.items |-> ValueOf(q.match, m, q.items[k].expr)]

OneLabel(el) == el.label # None /\ (el.label # None => el.label[1] = "label")

RECURSIVE Plain(_)
Plain(e) == \/ e[1] = "label"
            \/ e[1] = "or" /\ Plain(e[2]) /\ Plain(e[3])

(***************************************************************************)
(* No property column the query needs has the name of a variable of its    *)
(* path or of another such column (a.b_x and a_b.x are both a_b_x).        *)
(***************************************************************************)
NamesDistinct(q) ==
    LET props(el) == G.types[G.ids[el.label[2]]]
        needs(e)  == LET el == q.match[At(q.match, e[2])]
                     IN  IF e[1] # "var" THEN {<<e[2], e[3]>>}
                         ELSE IF el.kind = "edge" THEN {}
                         ELSE {<<e[2], props(el)[i].name>> : i \in DOMAIN props(el)}
        needed == UNION {needs(q.items[k].expr) : k \in DOMAIN q.items}
    IN  \A c \in needed :
            /\ \A k \in DOMAIN q.match : q.match[k].var # c[1] \o c[2]
            /\ \A d \in needed : d[1] \o d[2] = c[1] \o c[2] => d = c

(***************************************************************************)
(* The queries the engine is meant to answer: a path of at most one edge   *)
(* with different variables, an edge that names its labels, whole vertices *)
(* returned only where their label is known, sorting by returned columns,  *)
(* and names that do not clash.                                            *)
(***************************************************************************)
Answerable(q) ==
    /\ q.use \in {None, CurrentGraph} /\ q.call = None /\ Len(q.match) \in {1, 3} /\ q.items # None
    /\ \A j, k \in DOMAIN q.match : j # k /\ q.match[j].var # None => q.match[j].var # q.match[k].var
    /\ \A k \in DOMAIN q.match :
          /\ q.match[k].kind = (IF k = 2 THEN "edge" ELSE "node")
          /\ k = 2 => q.match[k].label # None
          /\ q.match[k].label # None => Plain(q.match[k].label)
    /\ \A k \in DOMAIN q.items :
          /\ q.items[k].expr[1] # "value"
          /\ LET el == q.match[At(q.match, q.items[k].expr[2])]
             IN  q.items[k].expr[1] = "var" /\ el.kind = "node" => OneLabel(el)
    /\ q.order # <<>> => Matches(q.match) # {} /\ \A k \in DOMAIN q.order : q.order[k].expr[1] = "var"
    /\ NamesDistinct(q)

Clamp(n, low, high) == IF n < low THEN low ELSE IF n > high THEN high ELSE n

Occurrences(x, S, f) == Cardinality({m \in S : f[m] = x})

\* Every answerable query that the binder accepts is answered exactly: each row is a match,
\* each match is a row once, whichever labels, expansions, property fetches and vertex
\* constructions its plan holds (columns are found by name in schemas that are kept apart
\* from the data: plan/expand.rs, builder.rs); with ORDER BY the rows are in order and no
\* row that was left out belongs before a row that was kept, and OFFSET and LIMIT cut as
\* many rows as they say.
AnswersExact ==
    (answers # None /\ Answerable(query) /\ ~(query.approximate /\ query.order # <<>>)) =>
        \A s \in answers :
            LET out   == Live(s)
                all   == Matches(query.match)
                row   == [m \in all |-> RowOf(query, m)]
                skip  == IF query.offset = None THEN 0 ELSE query.offset
                rest  == Clamp(Cardinality(all) - skip, 0, Cardinality(all))
                key   == Position(bound.output.schema, query.order[1].expr[2])
                ordered(x, y) == LET o == query.order[1]
                                 IN  ~KeyBefore([descending |-> o.descending, nulls_first |-> o.nulls_first],
                                                y[key], x[key])
            IN  /\ s.end = "done"
                /\ Len(out) = IF query.limit = None THEN rest ELSE Clamp(query.limit, 0, rest)
                /\ \A n \in DOMAIN out :
                      Cardinality({j \in DOMAIN out : out[j] = out[n]}) =< Occurrences(out[n], all, row)
                /\ query.order # <<>> =>
                      /\ \A i, j \in DOMAIN out : i < j => ordered(out[i], out[j])
                      /\ skip = 0 =>
                            \A m \in all : \A j \in DOMAIN out :
                                \/ ordered(out[j], row[m])
                                \/ \E i \in DOMAIN out : out[i] = row[m]

\* A search that the optimizer turned into an index scan (vector_index_scan_rewrite.rs)
\* returns the rows of exactly those matches whose vertex is among the nearest the index
\* has, all their columns filled from the right vertex: the join finds every matched row
\* again although it only has the vertex id to find it by.
RewriteAgrees ==
    (/\ answers # None /\ plan # None
     /\ (plan # None => plan.root.op = "project" /\ plan.root.child.op = "join")
     /\ Answerable(query)
     /\ \A k \in DOMAIN query.items : query.items[k].expr[1] # "var") =>
        \A s \in answers :
            LET out  == Live(s)
                scan == plan.root.child.left
                at   == At(query.match, scan.binding)
                all  == Matches(query.match)
                near == Range(Nearest({m[at] : m \in all}, scan.index, scan.n))
                kept == {m \in all : m[at] \in near}
                row  == [m \in all |-> RowOf(query, m)]
            IN  scan.index \in G.indexes =>
                  /\ s.end = "done"
                  /\ Len(out) = Cardinality(kept)
                  /\ \A m \in kept : Occurrences(row[m], kept, row)
                                         = Cardinality({j \in DOMAIN out : out[j] = row[m]})
=============================================================================
