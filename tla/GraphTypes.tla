---------------------------- MODULE GraphTypes -----------------------------
(***************************************************************************)
(* The type of a graph (MemoryGraphTypeCatalog, catalog/src/memory/        *)
(* graph_type.rs), the two ways the program makes one - CREATE GRAPH with  *)
(* a nested type (binder/type_element.rs, executor/catalog_modify.rs) and  *)
(* the manifest of an import - and the exchange of a whole graph with a    *)
(* directory of CSV files (core/src/procedures).                           *)
(*                                                                         *)
(* A property is a triple <<name, type, nullable>>.  Values are abstracted *)
(* to Null, Empty (the empty string) and any other value; a CSV field of   *)
(* the empty string is written Empty too.  A call that panics or returns   *)
(* an error gives Failed.  A row of a file is a record, or Failed where    *)
(* the bytes are no row.                                                   *)
(***************************************************************************)
EXTENDS Integers, Sequences, FiniteSets, SequencesExt, Functions

CONSTANTS Null, Empty, Failed,
          string_to_label_id   \* the hash of a label name, a function

VectorTypes == {"Vector104", "Vector105"}   \* LogicalType::Vector(dimension)

-----------------------------------------------------------------------------
(* The catalog of one graph type.                                          *)

NewType == [label_map |-> << >>, vertex_type_map |-> << >>, edge_type_map |-> << >>]

\* Entry::Vacant(e) => e.insert(v), Entry::Occupied(_) => nothing.
Vacant(f, k, v) == [x \in DOMAIN f \cup {k} |-> IF x \in DOMAIN f THEN f[x] ELSE v]

\* Labels are never removed, so next_label_id is one more than their number.
add_label(gt, name) ==
    [gt EXCEPT !.label_map = Vacant(@, name, Cardinality(DOMAIN @) + 1)]

add_vertex_type(gt, labels, props) ==
    [gt EXCEPT !.vertex_type_map = Vacant(@, labels, props)]

add_edge_type(gt, labels, src, dst, props) ==
    [gt EXCEPT !.edge_type_map =
        Vacant(@, labels, [src |-> src, dst |-> dst, props |-> props])]

\* PropertiesProvider::get_property: ids are positions, counted from 0.
get_property(props, name) ==
    {i \in 0..(Len(props) - 1) : /\ props[i + 1][1] = name
                                 /\ \A j \in 1..i : props[j][1] # name}

-----------------------------------------------------------------------------
(* CREATE GRAPH: an element is a node or an edge type with an optional     *)
(* name (Null without), its label names and its properties; the ends of an *)
(* edge are [alias |-> name], [labels |-> ..., props |-> ...] or EmptyRef.  *)

\* bind_node_or_edge_filler: label names become hashes, not catalog ids.
bind_labels(names) == {string_to_label_id[l] : l \in names}

EmptyRef == [labels |-> {}]

IsAlias(ref) == "alias" \in DOMAIN ref

\* First pass: only type names and aliases become labels.
register_labels(gt, e) ==
    LET named(t, n) == IF n = Null THEN t ELSE add_label(t, n)
        ofRef(t, r) == IF IsAlias(r) THEN add_label(t, r.alias) ELSE t
        own         == named(gt, e.name)
    IN  IF e.kind = "node" THEN own ELSE ofRef(ofRef(own, e.left), e.right)

\* Slip: the vertex type of an end point is not entered.
resolve_without_adding(gt, ref) ==
    IF IsAlias(ref) THEN <<gt, {gt.label_map[ref.alias]}>>
    ELSE IF ref.labels = {} THEN <<Failed, {}>>
         ELSE <<gt, bind_labels(ref.labels)>>

\* resolve_vertex_type_from_node_ref: an alias gets a placeholder without
\* properties, a filler the type registered for its labels or a new one.
\* The result is <<graph type, label set of the vertex type>>.
resolve_vertex_type(gt, ref) ==
    IF IsAlias(ref)
    THEN LET ls == {gt.label_map[ref.alias]}
         IN  <<add_vertex_type(gt, ls, << >>), ls>>
    ELSE IF ref.labels = {}
         THEN <<Failed, {}>>
         ELSE LET ls == bind_labels(ref.labels)
              IN  <<add_vertex_type(gt, ls, ref.props), ls>>

add_edge_type_to_catalog(gt, e) ==
    LET src == resolve_vertex_type(gt, e.left)
        dst == resolve_vertex_type(src[1], e.right)
    IN  IF src[1] = Failed THEN Failed
        ELSE IF dst[1] = Failed THEN Failed
        ELSE add_edge_type(dst[1], bind_labels(e.labels), src[2], dst[2], e.props)

\* add_vertex_type_to_catalog and add_edge_type_to_catalog.
add_type(gt, e) ==
    IF gt = Failed \/ e.labels = {} THEN Failed
    ELSE IF e.kind = "node" THEN add_vertex_type(gt, bind_labels(e.labels), e.props)
         ELSE add_edge_type_to_catalog(gt, e)

\* The two loops over the elements, after i of them.
registered(elements) ==
    LET f[i \in 0 .. Len(elements)] ==
          IF i = 0 THEN NewType ELSE register_labels(f[i - 1], elements[i])
    IN  f

added(elements) ==
    LET f[i \in 0 .. Len(elements)] ==
          IF i = 0 THEN registered(elements)[Len(elements)] ELSE add_type(f[i - 1], elements[i])
    IN  f

populate_graph_type(elements) == added(elements)[Len(elements)]

\* The labels of a manifest in the order of their ids: first the vertices'.
manifest_labels(m) ==
    [i \in DOMAIN m.vertices |-> m.vertices[i].label] \o [i \in DOMAIN m.edges |-> m.edges[i].label]

\* The expects of get_graph_type_from_manifest: no label comes twice, and the
\* ends of an edge type are vertex labels.
manifest_ok(m) ==
    /\ IsInjective(manifest_labels(m))
    /\ \A i \in DOMAIN m.edges :
         {m.edges[i].src_label, m.edges[i].dst_label} \subseteq
            {m.vertices[j].label : j \in DOMAIN m.vertices}

\* get_graph_type_from_manifest, once it does not panic.
type_from_manifest(m) ==
    LET names == manifest_labels(m)
        id(l) == CHOOSE i \in DOMAIN names : names[i] = l
    IN  [label_map       |-> [l \in ToSet(names) |-> id(l)],
         vertex_type_map |-> [ls \in {{i} : i \in DOMAIN m.vertices} |->
                                m.vertices[CHOOSE i \in ls : TRUE].props],
         edge_type_map   |-> [ls \in {{Len(m.vertices) + i} : i \in DOMAIN m.edges} |->
                                LET es == m.edges[(CHOOSE i \in ls : TRUE) - Len(m.vertices)]
                                IN  [src |-> {id(es.src_label)}, dst |-> {id(es.dst_label)},
                                     props |-> es.props]]]

-----------------------------------------------------------------------------
(* create_test_graph_data: three vertex and three edge types, and data for *)
(* about n vertices.                                                       *)

test_types ==
    type_from_manifest(
      [vertices |-> <<[label |-> "PERSON", props |-> <<<<"name", "String", FALSE>>,
                         <<"age", "Int8", FALSE>>, <<"embedding", "Vector104", FALSE>>>>],
                      [label |-> "COMPANY", props |-> <<<<"name", "String", FALSE>>,
                         <<"revenue", "Int64", FALSE>>>>],
                      [label |-> "CITY", props |-> <<<<"name", "String", FALSE>>,
                         <<"population", "Int32", FALSE>>, <<"embedding105", "Vector105", FALSE>>>>]>>,
       edges    |-> <<[label |-> "FRIEND", src_label |-> "PERSON", dst_label |-> "PERSON",
                       props |-> <<<<"distance", "Int32", FALSE>>>>],
                      [label |-> "WORKS_AT", src_label |-> "PERSON", dst_label |-> "COMPANY",
                       props |-> <<<<"since", "Int32", FALSE>>>>],
                      [label |-> "LOCATED_IN", src_label |-> "COMPANY", dst_label |-> "CITY",
                       props |-> <<<<"address", "String", FALSE>>>>]>>])

AtLeastOne(n, k) == IF n = 0 THEN 0 ELSE IF n \div k = 0 THEN 1 ELSE n \div k

\* Vertex ids are the persons', then the companies', then the cities'; edges
\* all pairs of persons, three persons in five at a company, the companies'
\* cities.  Property values are abstracted to "v" and "vector".
test_data(n) ==
    LET persons   == AtLeastOne(n, 2)
        companies == AtLeastOne(n, 4)
        cities    == AtLeastOne(n, 4)
        employed  == IF persons = 0 THEN 0 ELSE AtLeastOne(persons * 3, 5)
        friends   == persons * persons
        edge(l, s, d) == [label |-> l, src |-> s, dst |-> d, props |-> <<"v">>]
    IN  [vertices |-> [v \in 0..(persons + companies + cities - 1) |->
            IF v < persons THEN [label |-> 1, props |-> <<"v", "v", "vector">>]
            ELSE IF v < persons + companies THEN [label |-> 2, props |-> <<"v", "v">>]
            ELSE [label |-> 3, props |-> <<"v", "v", "vector">>]],
         edges |-> [e \in 0..(friends + employed + companies - 1) |->
            IF e < friends THEN edge(4, e \div persons, e % persons)
            ELSE IF e < friends + employed
                 THEN edge(5, e - friends, persons + ((e - friends) % companies))
                 ELSE edge(6, persons + e - friends - employed,
                           persons + companies + ((e - friends - employed) % cities))]]

-----------------------------------------------------------------------------
(* Export: one file per label, and the manifest.                           *)

\* The orders in which a HashMap may yield its keys.
HashOrders(S) == {s \in [1..Cardinality(S) -> S] : IsInjective(s)}

\* ScalarValue::to_string().unwrap_or_default(); vectors cannot be written.
field(v) == IF v \in {Null, "vector"} THEN Empty ELSE v

fields(props) == [i \in DOMAIN props |-> field(props[i])]

\* The records of one label, in the order of their ids (BTreeMap).
Rows(ids, row(_)) ==
    [i \in 1..Cardinality(ids) |->
        row(CHOOSE x \in ids : Cardinality({y \in ids : y < x}) = i - 1)]

vertex_rows(data, l) ==
    Rows({v \in DOMAIN data.vertices : data.vertices[v].label = l},
         LAMBDA v : [id |-> v, fields |-> fields(data.vertices[v].props)])

edge_rows(data, l) ==
    Rows({e \in DOMAIN data.edges : data.edges[e].label = l},
         LAMBDA e : [id |-> e, src |-> data.edges[e].src, dst |-> data.edges[e].dst,
                     fields |-> fields(data.edges[e].props)])

\* SchemaMetadata::from_schema: a label without an edge type is a vertex label.
vertex_labels(gt) == {l \in DOMAIN gt.label_map :
                        {gt.label_map[l]} \notin DOMAIN gt.edge_type_map}
edge_labels(gt) == DOMAIN gt.label_map \ vertex_labels(gt)

LabelOf(gt, id) == CHOOSE l \in DOMAIN gt.label_map : gt.label_map[l] = id

\* The expects of from_schema: the ends of an edge are single vertex labels ...
HasMetadata(gt) ==
    \A l \in edge_labels(gt) :
        LET et == gt.edge_type_map[{gt.label_map[l]}]
        IN  {et.src, et.dst} \subseteq {{gt.label_map[m]} : m \in vertex_labels(gt)}

\* ... and of Manifest::from_schema: every vertex label has a vertex type.
HasManifest(gt) ==
    \A l \in vertex_labels(gt) : {gt.label_map[l]} \in DOMAIN gt.vertex_type_map

vertex_spec(gt, l) == [label |-> l, props |-> gt.vertex_type_map[{gt.label_map[l]}]]

edge_spec(gt, l) ==
    LET et == gt.edge_type_map[{gt.label_map[l]}]
        name(ls) == LabelOf(gt, CHOOSE id \in ls : TRUE)
    IN  [label |-> l, src_label |-> name(et.src), dst_label |-> name(et.dst),
         props |-> et.props]

data_files(gt, data) ==
    [l \in DOMAIN gt.label_map |->
        IF l \in vertex_labels(gt) THEN vertex_rows(data, gt.label_map[l])
                                   ELSE edge_rows(data, gt.label_map[l])]

\* The manifests an export may write: the specs come in hash order.
manifests(gt) ==
    {[vertices |-> [i \in DOMAIN vs |-> vertex_spec(gt, vs[i])],
      edges    |-> [i \in DOMAIN es |-> edge_spec(gt, es[i])]]
     : vs \in HashOrders(vertex_labels(gt)), es \in HashOrders(edge_labels(gt))}

\* A writer puts its rows from+1 .. to at their places in a file that it had cut to
\* nothing when it opened it, whatever another export has done to the file since.
written(file, rows, from, to) ==
    [i \in 1 .. (IF Len(file) < to THEN to ELSE Len(file)) |->
        IF i \in (from + 1) .. to THEN rows[i] ELSE IF i \in DOMAIN file THEN file[i] ELSE Failed]

-----------------------------------------------------------------------------
(* Import.                                                                 *)

\* property_to_scalar_value: the empty field is null where that is allowed,
\* the empty string for a string, and no number; vectors are not implemented.
parse(prop, f) ==
    IF prop[2] \in VectorTypes THEN Failed
    ELSE IF f # Empty THEN f
    ELSE IF prop[3] THEN Null
    ELSE IF prop[2] = "String" THEN Empty ELSE Failed

build_properties(props, fs) == [i \in DOMAIN props |-> parse(props[i], fs[i])]

\* The records of one file, each with its spec.
file_records(spec, rows) == [j \in DOMAIN rows |-> [spec |-> spec, row |-> rows[j]]]

\* Slip: a counter that starts again in every file.
vid_mapping_restarts(vs) ==
    [old \in {vs[i].row.id : i \in DOMAIN vs} |->
        LET k == CHOOSE i \in DOMAIN vs : vs[i].row.id = old
        IN  Cardinality({i \in 1..k : vs[i].spec.label = vs[k].spec.label})]

\* vid_mapping: a repeated vertex id keeps the last new id.
vid_mapping(vs) ==
    [old \in {vs[i].row.id : i \in DOMAIN vs} |->
        CHOOSE i \in DOMAIN vs : /\ vs[i].row.id = old
                                 /\ \A j \in DOMAIN vs : vs[j].row.id = old => j <= i]

\* What a record must be for the loops of import_internal to take it: its spec's fields,
\* and each can be parsed; the ends of an edge are vertices that were read.
vertex_ok(r) ==
    /\ r.row # Failed
    /\ r.row # Failed => /\ DOMAIN r.row = {"id", "fields"}
                         /\ Len(r.row.fields) = Len(r.spec.props)
                         /\ Failed \notin Range(build_properties(r.spec.props, r.row.fields))

edge_ok(r, vid) ==
    /\ r.row # Failed
    /\ r.row # Failed => /\ DOMAIN r.row = {"id", "src", "dst", "fields"}
                         /\ Len(r.row.fields) = Len(r.spec.props)
                         /\ Failed \notin Range(build_properties(r.spec.props, r.row.fields))
                         /\ {r.row.src, r.row.dst} \subseteq DOMAIN vid

\* The graph that import_internal has made of a manifest's records.
imported(m, vs, es) ==
    LET gt  == type_from_manifest(m)
        vid == vid_mapping(vs)
        obj(r) == [label |-> gt.label_map[r.spec.label],
                   props |-> build_properties(r.spec.props, r.row.fields)]
    IN  [vertices |-> [i \in DOMAIN vs |-> obj(vs[i])],
         edges    |-> [i \in DOMAIN es |->
            [label |-> obj(es[i]).label, props |-> obj(es[i]).props,
             src   |-> vid[es[i].row.src], dst |-> vid[es[i].row.dst]]]]

-----------------------------------------------------------------------------
(* What a directory of files means: the graph it describes, with label     *)
(* names for ids, and equality of graphs up to the numbering of vertices.  *)

\* The rows of the files as records; a nullable empty string reads as null.
Meaning(m, files) ==
    LET all(specs) == FlattenSeq([i \in DOMAIN specs |->
                          file_records(specs[i], files[specs[i].label])])
        vs == all(m.vertices)
        es == all(m.edges)
    IN  [vertices |-> [v \in {vs[i].row.id : i \in DOMAIN vs} |->
                         LET r == vs[CHOOSE i \in DOMAIN vs : vs[i].row.id = v]
                         IN  <<r.spec.label, build_properties(r.spec.props, r.row.fields)>>],
         edges    |-> [i \in DOMAIN es |->
                         <<es[i].spec.label, es[i].row.src, es[i].row.dst,
                           build_properties(es[i].spec.props, es[i].row.fields)>>]]

Named(gt, data) ==
    [vertices |-> [v \in DOMAIN data.vertices |->
                     <<LabelOf(gt, data.vertices[v].label), data.vertices[v].props>>],
     edges    |-> [e \in DOMAIN data.edges |->
                     <<LabelOf(gt, data.edges[e].label), data.edges[e].src,
                       data.edges[e].dst, data.edges[e].props>>]]

\* How often an edge occurs, its ends renamed by f.
EdgeCount(g, f, x) ==
    Cardinality({e \in DOMAIN g.edges :
        <<g.edges[e][1], f[g.edges[e][2]], f[g.edges[e][3]], g.edges[e][4]>> = x})

Isomorphic(g, h) ==
    LET V == DOMAIN g.vertices
        W == DOMAIN h.vertices
        same == [w \in W |-> w]
    IN  /\ Cardinality(V) = Cardinality(W)
        /\ Cardinality(DOMAIN g.edges) = Cardinality(DOMAIN h.edges)
        /\ \E f \in [V -> W] :
             /\ IsInjective(f)
             /\ \A v \in V : g.vertices[v] = h.vertices[f[v]]
             /\ \A e \in DOMAIN h.edges :
                  EdgeCount(g, f, h.edges[e]) = EdgeCount(h, same, h.edges[e])
=============================================================================
