----------------------------- MODULE MCCatalog -----------------------------
(***************************************************************************)
(* Small instances of Catalog.  Two sessions, five statements in all, from  *)
(* an empty catalog and a directory with one dump of three vertices whose  *)
(* ids are neither dense nor in label order, one that is empty and one     *)
(* with a manifest no import can read.  Statements that only differ        *)
(* in their names are given once: two sessions race for the same graph     *)
(* name, index name and index key, and for two index names with one key.   *)
(***************************************************************************)
EXTENDS Catalog

Symmetry == Permutations(Sessions)

Hash == [l \in {"P", "Q", "E"} |-> CASE l = "P" -> 901 [] l = "Q" -> 902 [] l = "E" -> 903]

Str(nullable) == <<"s", "String", nullable>>

\* 7 -E-> 3 -E-> 9 -E-> 7, labels P = {7, 9} and Q = {3}, an empty field in a
\* nullable and in a mandatory string.
Manifest ==
    [vertices |-> <<[label |-> "Q", props |-> <<Str(FALSE)>>],
                    [label |-> "P", props |-> <<Str(TRUE), <<"i", "Int32", FALSE>>>>]>>,
     edges    |-> <<[label |-> "E", src_label |-> "P", dst_label |-> "Q",
                     props |-> << >>]>>]
Files == [l \in {"P", "Q", "E"} |->
         CASE l = "P" -> <<[id |-> 7, fields |-> <<Empty, "v">>],
                           [id |-> 9, fields |-> <<"v", "v">>]>>
           [] l = "Q" -> <<[id |-> 3, fields |-> <<Empty>>]>>
           [] l = "E" -> <<[id |-> 1, src |-> 7, dst |-> 3, fields |-> << >>],
                           [id |-> 2, src |-> 3, dst |-> 9, fields |-> << >>],
                           [id |-> 5, src |-> 9, dst |-> 7, fields |-> << >>]>>]

\* The same files, but the end of an edge is a label without vertices.
NoEnd == [Manifest EXCEPT !.edges[1].dst_label = "E"]

DumpsC == [d \in {"d", "e", "f"} |->
            CASE d = "d" -> [manifest |-> Manifest, files |-> Files]
              [] d = "e" -> [manifest |-> None, files |-> << >>]
              [] d = "f" -> [manifest |-> NoEnd, files |-> Files]]

Node(name, labels) == [kind |-> "node", name |-> name, labels |-> labels, props |-> << >>]
Edge(l, r) == [kind |-> "edge", name |-> Null, labels |-> {"E"}, props |-> << >>,
               left |-> l, right |-> r]

\* An alias and a filler as end points, before the node types; an end that is
\* empty; a node type, which no export can write; a node without a label.
Good == <<Edge([alias |-> "p"], [labels |-> {"Q"}, props |-> << >>]), Node("p", {"P"})>>
BadEnd == <<Edge([alias |-> "p"], EmptyRef)>>
BadNode == <<Node("p", {})>>
Plain == <<Node("p", {"P"})>>

StatementsC ==
    {[stmt |-> "set", graphs |-> <<"g">>], [stmt |-> "set", graphs |-> <<"g", "h">>],
     [stmt |-> "reset", close |-> TRUE],
     [stmt |-> "create_test_graph_data", name |-> "g", n |-> 1],
     [stmt |-> "create_test_graph", name |-> "g"],
     [stmt |-> "create_graph", name |-> "g", kind |-> "CreateOrReplace", elements |-> Good],
     [stmt |-> "create_graph", name |-> "g", kind |-> "CreateOrReplace", elements |-> BadEnd],
     [stmt |-> "create_graph", name |-> "g", kind |-> "Create", elements |-> BadNode],
     [stmt |-> "create_graph", name |-> "h", kind |-> "CreateOrReplace", elements |-> Plain],
     [stmt |-> "drop_graph", name |-> "g"],
     [stmt |-> "import", name |-> "h", dir |-> "d"],
     [stmt |-> "import", name |-> "g", dir |-> "e"],
     [stmt |-> "import", name |-> "h", dir |-> "f"],
     [stmt |-> "export", name |-> "h", dir |-> "e"],
     [stmt |-> "create_index", name |-> "i", label |-> "PERSON", property |-> "embedding"],
     [stmt |-> "create_index", name |-> "j", label |-> "PERSON", property |-> "embedding"],
     [stmt |-> "create_index", name |-> "i", label |-> "CITY", property |-> "embedding105"],
     [stmt |-> "drop_index", name |-> "i"]}
=============================================================================
