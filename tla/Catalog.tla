------------------------------ MODULE Catalog ------------------------------
(***************************************************************************)
(* The catalog and the sessions that change it: the graphs of a schema     *)
(* (catalog/src/memory/schema.rs), the vector indexes of a graph (context/ *)
(* src/graph.rs), and the statements and procedures of a session that      *)
(* create, drop, index, import and export graphs.  A session runs one      *)
(* statement at a time, but plans it first and executes it later, and the  *)
(* steps of different sessions interleave wherever no lock is held.        *)
(*                                                                         *)
(* There is one schema, the default one: CREATE SCHEMA is not implemented, *)
(* so SESSION SET SCHEMA and RESET SCHEMA change nothing.                  *)
(* Graphs are heap objects, because sessions keep an Arc to the graph they *)
(* selected whatever happens to its name.                                  *)
(***************************************************************************)
EXTENDS GraphTypes

CONSTANTS Sessions,
          Statements,     \* what a session may ask for
          GraphNames,
          MaxStatements,  \* bound on the statements started
          None,
          Buffer,         \* the rows that fill the buffer of a csv writer
          Dumps           \* directory -> [manifest, files] at the start

StatementKinds ==
    {"set", "reset", "create_graph", "drop_graph", "create_test_graph", "create_test_graph_data",
     "import", "export", "create_index", "drop_index"}

ASSUME CatalogAssumption ==
    /\ MaxStatements \in Nat /\ Buffer \in Nat \ {0}
    /\ None \notin Sessions
    /\ \A q \in Statements : /\ q.stmt \in StatementKinds
                             /\ q.stmt = "set" => /\ DOMAIN q = {"stmt", "graphs"}
                                                  /\ q.graphs \in Seq(GraphNames) \ {<< >>}
                             /\ q.stmt = "create_graph" => q.elements \in Seq(Range(q.elements))
                             /\ q.stmt \in {"import", "export"} =>
                                   q.name \in GraphNames /\ q.dir \in DOMAIN Dumps
    /\ \A d \in DOMAIN Dumps : Dumps[d].manifest # None =>
          LET m == Dumps[d].manifest
          IN  \A specs \in {m.vertices, m.edges} : specs \in Seq(Range(specs))

VARIABLES graph_map,   \* name -> object or None
          heap,        \* object -> graph container, for the objects made
          session,     \* session -> [graph, closed]: current_graph, closed
          job,         \* session -> the statement in progress, or Idle
          disk,        \* directory -> manifest (or None) and files
          started      \* number of statements started

vars == <<graph_map, heap, session, job, disk, started>>

Idle == [at |-> "idle"]

\* GraphContainer::new.  `origin` is a history field: what the files say that
\* the graph was first imported from, None for a graph made otherwise or read
\* from a directory that an export was writing.
Container(type, data, origin) ==
    [type |-> type, data |-> data, origin |-> origin,
     entries |-> << >>, name_to_index |-> << >>, vector_indices |-> {}, index_op_lock |-> None]

\* History fields of a directory: what its files say, None unless one export
\* wrote them from beginning to end, and the number of exports to it so far.
Directory(m, files) ==
    [manifest |-> m, files |-> files, exports |-> 0,
     origin |-> IF m = None THEN None ELSE Meaning(m, files)]

NoData == [vertices |-> << >>, edges |-> << >>]

Init ==
    /\ graph_map = [n \in GraphNames |-> None]
    /\ heap = << >>
    /\ session = [s \in Sessions |-> [graph |-> None, closed |-> FALSE]]
    /\ job = [s \in Sessions |-> Idle]
    /\ disk = [d \in DOMAIN Dumps |-> Directory(Dumps[d].manifest, Dumps[d].files)]
    /\ started = 0

\* An Arc::new of a container: the next object.
New == Len(heap) + 1

\* The end of a statement, with or without an error.
Done(s) == job' = [job EXCEPT ![s] = Idle]

-----------------------------------------------------------------------------
(* Session::query: a closed session refuses; otherwise the statement is    *)
(* dispatched.                                                             *)

query(s, q) ==
    /\ job[s] = Idle
    /\ ~session[s].closed
    /\ started < MaxStatements
    /\ started' = started + 1
    /\ job' = [job EXCEPT ![s] = [at |-> q.stmt, q |-> q]]
    /\ UNCHANGED <<graph_map, heap, session, disk>>

\* handle_session_activity: the sets one after the other, the first error ends
\* the statement and keeps what was set before it.
session_set_graph(s) ==
    LET names == job[s].q.graphs
        o     == graph_map[Head(names)]
        ok    == o # None
    IN  /\ job[s].at = "set"
        /\ session' = IF ok THEN [session EXCEPT ![s].graph = o] ELSE session
        /\ job' = [job EXCEPT ![s] = IF ok /\ Len(names) > 1
                                     THEN [@ EXCEPT !.q.graphs = Tail(names)] ELSE Idle]
        /\ UNCHANGED <<graph_map, heap, disk, started>>

\* SESSION RESET GRAPH: home_graph is never set; a program that ends
\* in SESSION CLOSE closes the session.
session_reset(s) ==
    /\ job[s].at = "reset"
    /\ session' = [session EXCEPT ![s] =
                     [graph |-> None, closed |-> job[s].q.close]]
    /\ Done(s)
    /\ UNCHANGED <<graph_map, heap, disk, started>>

-----------------------------------------------------------------------------
(* Graphs.                                                                 *)

\* MemorySchemaCatalog::create_graph with the executor's container, built
\* before the lock is taken; a type that cannot be built changes nothing.
create_graph(s) ==
    LET q  == job[s].q
        gt == populate_graph_type(q.elements)
    IN  /\ job[s].at = "create_graph"
        /\ IF gt = Failed \/ (graph_map[q.name] # None /\ q.kind # "CreateOrReplace")
           THEN UNCHANGED <<graph_map, heap>>
           ELSE /\ heap' = Append(heap, Container(gt, NoData, None))
                /\ graph_map' = [graph_map EXCEPT ![q.name] = New]
        /\ Done(s)
        /\ UNCHANGED <<session, disk, started>>

drop_graph(s) ==
    /\ job[s].at = "drop_graph"
    /\ graph_map' = [graph_map EXCEPT ![job[s].q.name] = None]
    /\ Done(s)
    /\ UNCHANGED <<heap, session, disk, started>>

\* Slip: an entry in the way is replaced.
add_graph_unchecked(name, c, next) ==
    /\ heap' = Append(heap, c)
    /\ graph_map' = [graph_map EXCEPT ![name] = New]
    /\ job' = [job EXCEPT ![next[1]] = next[2]]

\* MemorySchemaCatalog::add_graph: never replaces.
add_graph(name, c, next) ==
    IF graph_map[name] # None
    THEN /\ UNCHANGED <<graph_map, heap>>
         /\ job' = [job EXCEPT ![next[1]] = Idle]
    ELSE /\ heap' = Append(heap, c)
         /\ graph_map' = [graph_map EXCEPT ![name] = New]
         /\ job' = [job EXCEPT ![next[1]] = next[2]]

\* The procedure create_test_graph.
create_test_graph(s) ==
    /\ job[s].at = "create_test_graph"
    /\ add_graph(job[s].q.name, Container(NewType, NoData, None), <<s, Idle>>)
    /\ UNCHANGED <<session, disk, started>>

\* create_test_graph_data registers the graph before it has any data ...
create_test_graph_data(s) ==
    /\ job[s].at = "create_test_graph_data"
    /\ add_graph(job[s].q.name, Container(test_types, NoData, None),
                 <<s, [at |-> "load", o |-> New, n |-> job[s].q.n]>>)
    /\ UNCHANGED <<session, disk, started>>

\* ... and loads it in one transaction.
load_test_data(s) ==
    /\ job[s].at = "load"
    /\ heap' = [heap EXCEPT ![job[s].o].data = test_data(job[s].n)]
    /\ Done(s)
    /\ UNCHANGED <<graph_map, session, disk, started>>

\* import: check the name, read the files, add the graph; no lock is held.
import_check(s) ==
    /\ job[s].at = "import"
    /\ job' = [job EXCEPT ![s] = IF graph_map[@.q.name] # None THEN Idle
                                 ELSE [@ EXCEPT !.at = "read"]]
    /\ UNCHANGED <<graph_map, heap, session, disk, started>>

\* import_internal goes on with the next file, and is done after the last.
Reading(j) ==
    LET d == disk[j.dir]
    IN  IF j.read < Len(j.m.vertices) + Len(j.m.edges) THEN j
        ELSE [at |-> "add", name |-> j.name,
              c |-> Container(type_from_manifest(j.m), imported(j.m, j.vs, j.es),
                              IF d.exports = j.exports THEN j.origin ELSE None)]

\* First build_manifest and get_graph_type_from_manifest ...
import_manifest(s) ==
    LET q == job[s].q
        d == disk[q.dir]
        ok == d.manifest # None /\ (d.manifest # None => manifest_ok(d.manifest))
    IN  /\ job[s].at = "read"
        /\ job' = [job EXCEPT ![s] =
                     IF ~ok THEN Idle
                     ELSE Reading([at |-> "files", name |-> q.name, dir |-> q.dir, m |-> d.manifest,
                                   read |-> 0, vs |-> << >>, es |-> << >>,
                                   origin |-> d.origin, exports |-> d.exports])]
        /\ UNCHANGED <<graph_map, heap, session, disk, started>>

\* ... then one file after the other, the vertices' first.
import_file(s) ==
    LET j     == job[s]
        nv    == Len(j.m.vertices)
        edges == j.read >= nv
        spec  == IF edges THEN j.m.edges[j.read - nv + 1] ELSE j.m.vertices[j.read + 1]
        files == disk[j.dir].files
        new_  == file_records(spec, files[spec.label])
        ok    == \A i \in DOMAIN new_ :
                    IF edges THEN edge_ok(new_[i], vid_mapping(j.vs)) ELSE vertex_ok(new_[i])
    IN  /\ job[s].at = "files"
        /\ job' = [job EXCEPT ![s] =
                     IF spec.label \notin DOMAIN files THEN Idle
                     ELSE IF ~ok THEN Idle
                     ELSE IF edges THEN Reading([j EXCEPT !.read = @ + 1, !.es = @ \o new_])
                     ELSE Reading([j EXCEPT !.read = @ + 1, !.vs = @ \o new_])]
        /\ UNCHANGED <<graph_map, heap, session, disk, started>>

import_add(s) ==
    /\ job[s].at = "add"
    /\ add_graph(job[s].name, job[s].c, <<s, Idle>>)
    /\ UNCHANGED <<session, disk, started>>

Exporting(t, dir) ==
    /\ job[t].at \in {"export_files", "export_manifest", "export_drop"}
    /\ job[t].at # "idle" => job[t].dir = dir

\* The procedure export: a snapshot of the graph; the vertices' and the edges' builder
\* will each open a file for every label.
export(s) ==
    LET q == job[s].q
        o == graph_map[q.name]
        c == heap[o]
    IN  /\ job[s].at = "export"
        /\ IF o = None \/ (o # None /\ ~HasMetadata(c.type)) THEN Done(s) /\ UNCHANGED disk
           ELSE /\ disk' = [disk EXCEPT ![q.dir].origin = None, ![q.dir].exports = @ + 1]
                /\ job' = [job EXCEPT ![s] =
                      [at |-> "export_files", dir |-> q.dir, type |-> c.type,
                       rows |-> data_files(c.type, c.data),
                       open |-> {"vertices", "edges"} \X DOMAIN c.type.label_map,
                       done |-> [l \in DOMAIN c.type.label_map |-> 0],
                       origin |-> c.origin, exports |-> disk[q.dir].exports + 1,
                       alone |-> \A t \in Sessions \ {s} : ~Exporting(t, q.dir)]]
        /\ UNCHANGED <<graph_map, heap, session, started>>

\* VerticesBuilder::new and EdgesBuilder::new open the files in hash order and empty them.
export_open(s) ==
    LET j == job[s]
    IN  /\ j.at = "export_files"
        /\ \E x \in j.open :
              /\ x[1] = "edges" => \A y \in j.open : y[1] = "edges"
              /\ disk' = [disk EXCEPT ![j.dir].files = (x[2] :> << >>) @@ @]
              /\ job' = [job EXCEPT ![s].open = @ \ {x}]
        /\ UNCHANGED <<graph_map, heap, session, started>>

\* The writer of label l passes on its buffered rows up to the n-th.
Flush(s, l, n) ==
    LET j == job[s]
    IN  /\ disk' = [disk EXCEPT ![j.dir].files = (l :> written(@[l], j.rows[l], j.done[l], n)) @@ @]
        /\ job' = [job EXCEPT ![s].done[l] = n]

\* The labels whose writer has a full buffer left to write, the vertices' first.
Full(j) ==
    LET full == {l \in DOMAIN j.rows : j.done[l] + Buffer =< Len(j.rows[l])}
        vertices == full \cap vertex_labels(j.type)
    IN  IF vertices # {} THEN vertices ELSE full

\* The two dumps hand the rows to the writers, which flush when their buffer is full.
export_dump(s) ==
    LET j == job[s]
    IN  /\ j.at = "export_files" /\ j.open = {}
        /\ \E l \in Full(j) : Flush(s, l, j.done[l] + Buffer)
        /\ UNCHANGED <<graph_map, heap, session, started>>

\* Manifest::from_schema may panic; otherwise fs::write empties the manifest ...
export_manifest(s) ==
    LET j == job[s]
    IN  /\ j.at = "export_files" /\ j.open = {} /\ Full(j) = {}
        /\ IF HasManifest(j.type)
           THEN /\ disk' = [disk EXCEPT ![j.dir].manifest = None]
                /\ job' = [job EXCEPT ![s].at = "export_manifest"]
           ELSE /\ job' = [job EXCEPT ![s].at = "export_drop", ![s].alone = FALSE]
                /\ UNCHANGED disk
        /\ UNCHANGED <<graph_map, heap, session, started>>

\* ... and writes it.
export_describe(s) ==
    LET j == job[s]
    IN  /\ j.at = "export_manifest"
        /\ \E m \in manifests(j.type) : disk' = [disk EXCEPT ![j.dir].manifest = m]
        /\ job' = [job EXCEPT ![s].at = "export_drop"]
        /\ UNCHANGED <<graph_map, heap, session, started>>

\* At the end, or when a panic unwinds, the builders are dropped, the edges' first, and
\* their writers flush what is left.
export_drop(s) ==
    LET j    == job[s]
        left == {l \in DOMAIN j.rows : j.done[l] < Len(j.rows[l])}
        edge == left \ vertex_labels(j.type)
    IN  /\ j.at = "export_drop"
        /\ IF left # {}
           THEN \E l \in (IF edge # {} THEN edge ELSE left) : Flush(s, l, Len(j.rows[l]))
           ELSE /\ disk' = [disk EXCEPT ![j.dir].origin =
                              IF j.alone /\ disk[j.dir].exports = j.exports THEN j.origin ELSE @]
                /\ Done(s)
        /\ UNCHANGED <<graph_map, heap, session, started>>

-----------------------------------------------------------------------------
(* Vector indexes of the session's current graph.                          *)

Unregistered(f, k) == [x \in DOMAIN f \ {k} |-> f[x]]

Registered(f, k, v) == [x \in DOMAIN f \cup {k} |-> IF x = k THEN v ELSE f[x]]

\* index_op_lock is taken by a session, or released.
Locked(c, by) == [c EXCEPT !.index_op_lock = by]

\* MemoryGraphIndexCatalog::insert_vector_index / remove_vector_index.
insert_vector_index(c, name, key) ==
    IF key \in DOMAIN c.entries THEN c
    ELSE [c EXCEPT !.entries = Registered(@, key, name),
                   !.name_to_index = Registered(@, name, key)]

\* Slip: the name stays.
remove_keeps_name(c, key) == [c EXCEPT !.entries = Unregistered(@, key)]

remove_vector_index(c, key) ==
    IF key \notin DOMAIN c.entries THEN c
    ELSE [c EXCEPT !.name_to_index = Unregistered(@, c.entries[key]),
                   !.entries = Unregistered(@, key)]

\* bind_create_vector_index_statement: the keys the statement can mean, at
\* most one: label and property exist, and the property is a vector.
index_keys(gt, q) ==
    IF q.label \notin DOMAIN gt.label_map THEN {}
    ELSE LET ls == {gt.label_map[q.label]}
         IN  IF ls \notin DOMAIN gt.vertex_type_map THEN {}
             ELSE {<<gt.label_map[q.label], i>> :
                     i \in {j \in get_property(gt.vertex_type_map[ls], q.property) :
                              gt.vertex_type_map[ls][j + 1][2] \in VectorTypes}}

\* The binder: an error or IF NOT EXISTS on an index that is there ends the
\* statement; otherwise the executor runs with the key found now.
bind_create_index(s) ==
    LET q == job[s].q
        o == session[s].graph
        c == heap[o]
        bound == IF o = None THEN {}
                 ELSE {k \in index_keys(c.type, q) :
                         /\ q.name \in DOMAIN c.name_to_index => c.name_to_index[q.name] = k
                         /\ k \notin DOMAIN c.entries}
    IN  /\ job[s].at = "create_index"
        /\ job' = [job EXCEPT ![s] =
                     IF bound = {} THEN Idle
                     ELSE [at |-> "create_index_exec", o |-> o, name |-> q.name,
                           key |-> CHOOSE k \in bound : TRUE]]
        /\ UNCHANGED <<graph_map, heap, session, disk, started>>

\* GraphContainer::create_vector_index, up to the call that builds the index:
\* takes index_op_lock; gives up if the key or the name is taken by now.
create_index_insert(s) ==
    LET j == job[s]
        c == heap[j.o]
        taken == j.key \in DOMAIN c.entries \/ j.name \in DOMAIN c.name_to_index
    IN  /\ j.at = "create_index_exec"
        /\ c.index_op_lock = None
        /\ IF taken
           THEN Done(s) /\ UNCHANGED heap
           ELSE /\ heap' = [heap EXCEPT ![j.o] = Locked(insert_vector_index(c, j.name, j.key), s)]
                /\ job' = [job EXCEPT ![s].at = "build"]
        /\ UNCHANGED <<graph_map, session, disk, started>>

\* build_vector_index fails without vectors and for unsupported dimensions;
\* otherwise DiskANN may fail or not (see VectorIndex).
CanBuild(c, key) ==
    /\ \E v \in DOMAIN c.data.vertices : c.data.vertices[v].label = key[1]
    /\ c.type.vertex_type_map[{key[1]}][key[2] + 1][2] = "Vector104"

\* The rest of create_vector_index: a failed build takes the entry back.
create_index_build(s) ==
    LET j == job[s]
        c == heap[j.o]
    IN  /\ j.at = "build"
        /\ \/ /\ CanBuild(c, j.key)
              /\ heap' = [heap EXCEPT ![j.o] =
                            Locked([c EXCEPT !.vector_indices = @ \cup {j.key}], None)]
           \/ heap' = [heap EXCEPT ![j.o] = Locked(remove_vector_index(c, j.key), None)]
        /\ Done(s)
        /\ UNCHANGED <<graph_map, session, disk, started>>

\* bind_drop_vector_index_statement: the name is resolved to a key now.
bind_drop_index(s) ==
    LET q == job[s].q
        o == session[s].graph
    IN  /\ job[s].at = "drop_index"
        /\ job' = [job EXCEPT ![s] =
                     IF o = None \/ (o # None /\ q.name \notin DOMAIN heap[o].name_to_index)
                     THEN Idle
                     ELSE [at |-> "drop_index_exec", o |-> o,
                           key |-> heap[o].name_to_index[q.name]]]
        /\ UNCHANGED <<graph_map, heap, session, disk, started>>

\* GraphContainer::drop_vector_index: first the entry of that key ...
drop_index_remove(s) ==
    LET j == job[s]
        c == heap[j.o]
    IN  /\ j.at = "drop_index_exec"
        /\ c.index_op_lock = None
        /\ IF j.key \notin DOMAIN c.entries
           THEN Done(s) /\ UNCHANGED heap
           ELSE /\ heap' = [heap EXCEPT ![j.o] = Locked(remove_vector_index(c, j.key), s)]
                /\ job' = [job EXCEPT ![s].at = "delete"]
        /\ UNCHANGED <<graph_map, session, disk, started>>

\* ... then the index; delete_vector_index cannot fail.
drop_index_delete(s) ==
    LET j == job[s]
        c == heap[j.o]
    IN  /\ j.at = "delete"
        /\ heap' = [heap EXCEPT ![j.o] =
                      Locked([c EXCEPT !.vector_indices = @ \ {j.key}], None)]
        /\ Done(s)
        /\ UNCHANGED <<graph_map, session, disk, started>>

-----------------------------------------------------------------------------
Step(s) ==
    \/ session_set_graph(s) \/ session_reset(s)
    \/ create_graph(s) \/ drop_graph(s) \/ create_test_graph(s)
    \/ create_test_graph_data(s) \/ load_test_data(s)
    \/ import_check(s) \/ import_manifest(s) \/ import_file(s) \/ import_add(s)
    \/ export(s) \/ export_open(s) \/ export_dump(s) \/ export_manifest(s)
    \/ export_describe(s) \/ export_drop(s)
    \/ bind_create_index(s) \/ create_index_insert(s) \/ create_index_build(s)
    \/ bind_drop_index(s) \/ drop_index_remove(s) \/ drop_index_delete(s)

Next == \E s \in Sessions : Step(s) \/ \E q \in Statements : query(s, q)

Spec == Init /\ [][Next]_vars

-----------------------------------------------------------------------------
(* Properties.                                                             *)

Live == DOMAIN heap

\* In every graph, entries and name_to_index are inverse to each other, and
\* unless a session is inside create_vector_index or drop_vector_index the
\* catalog lists exactly the indexes storage has: a build that fails and a
\* drop that overtakes another session's statement leave no half index.
IndexesAgree ==
    \A o \in Live :
        LET c == heap[o]
        IN  /\ \A k \in DOMAIN c.entries : /\ c.entries[k] \in DOMAIN c.name_to_index
                                           /\ c.name_to_index[c.entries[k]] = k
            /\ \A n \in DOMAIN c.name_to_index : c.name_to_index[n] \in DOMAIN c.entries
            /\ c.index_op_lock = None => DOMAIN c.entries = c.vector_indices

\* A graph leaves its name only when some session runs DROP GRAPH or CREATE OR
\* REPLACE GRAPH for that name: an import that checked the name, read its files
\* and finds the name taken by another session meanwhile must give up.
GraphsNotLost ==
    [][\A n \in GraphNames :
         graph_map[n] # None /\ graph_map'[n] # graph_map[n] =>
           \E s \in Sessions :
             /\ job[s] # Idle /\ job'[s] = Idle
             /\ \/ job[s].at = "drop_graph" /\ job[s].q.name = n
                \/ /\ job[s].at = "create_graph" /\ job[s].q.name = n
                   /\ job[s].q.kind = "CreateOrReplace"]_vars

\* Whatever number of imports and exports lie between a graph and the files it
\* first came from, it is the graph those files describe up to the numbering of
\* vertices and edges, in whatever order the manifest lists the labels and the
\* writers flush their rows - provided that each directory on the way was written
\* by one export alone (export_graph.rs) and by none while an import read it.
CopiesIsomorphic ==
    [][\A o \in DOMAIN heap' \ Live : heap'[o].origin # None =>
         Isomorphic(heap'[o].origin, Named(heap'[o].type, heap'[o].data))]_vars

\* The end points of every edge type are vertex types of the same graph, with
\* CREATE GRAPH and with an import: the export relies on it.
EndpointsDeclared ==
    \A o \in Live :
        \A ls \in DOMAIN heap[o].type.edge_type_map :
            LET et == heap[o].type.edge_type_map[ls]
            IN  {et.src, et.dst} \subseteq DOMAIN heap[o].type.vertex_type_map
=============================================================================
