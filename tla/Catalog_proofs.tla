--------------------------- MODULE Catalog_proofs ---------------------------
(***************************************************************************)
(* For any number of sessions, statements, graphs and names: the index     *)
(* catalog of a graph and its storage agree whenever no session is inside  *)
(* create_vector_index or drop_vector_index, no graph loses its name       *)
(* unless a session asked for it, and the end points of every edge type    *)
(* are vertex types of its graph.                                          *)
(***************************************************************************)
EXTENDS Catalog, TLAPS, FiniteSetTheorems, SequenceTheorems, WellFoundedInduction

-----------------------------------------------------------------------------
(* The inductive invariant.                                                *)

Fields == {"type", "data", "origin", "entries", "name_to_index", "vector_indices", "index_op_lock"}

\* entries and name_to_index are inverse to each other.  IndexesAgree does not
\* say that a name leads back to itself; without it, removing a key could leave
\* a second name of the key behind.
Mutual(c) ==
    /\ \A k \in DOMAIN c.entries : /\ c.entries[k] \in DOMAIN c.name_to_index
                                   /\ c.name_to_index[c.entries[k]] = k
    /\ \A n \in DOMAIN c.name_to_index : /\ c.name_to_index[n] \in DOMAIN c.entries
                                         /\ c.entries[c.name_to_index[n]] = n

ContainerOK(c) ==
    /\ DOMAIN c = Fields
    /\ Mutual(c)
    /\ c.index_op_lock = None => DOMAIN c.entries = c.vector_indices

\* A container that no one has seen yet.
Fresh(c) ==
    /\ DOMAIN c = Fields
    /\ DOMAIN c.entries = {} /\ DOMAIN c.name_to_index = {} /\ c.vector_indices = {}

\* Inside create_vector_index the catalog is one entry ahead of the storage,
\* inside drop_vector_index it is one behind.
Building(c, k) == k \notin c.vector_indices /\ DOMAIN c.entries = c.vector_indices \cup {k}
Deleting(c, k) == DOMAIN c.entries = c.vector_indices \ {k}

\* An import between two files, and an export at work on its directory.
ReadFields == {"at", "name", "dir", "m", "read", "vs", "es", "origin", "exports"}
WriteFields == {"at", "dir", "type", "rows", "open", "done", "origin", "exports", "alone"}
Phases == {"export_files", "export_manifest", "export_drop"}

JobOK(j, s, h) ==
    /\ "at" \in DOMAIN j
    /\ j.at = "files" => DOMAIN j = ReadFields
    /\ j.at \in Phases => DOMAIN j = WriteFields
    /\ j.at = "set" => /\ DOMAIN j = {"at", "q"} /\ DOMAIN j.q = {"stmt", "graphs"}
                       /\ j.q.graphs \in Seq(GraphNames) \ {<< >>}
    /\ j.at = "add" => Fresh(j.c)
    /\ j.at = "create_index_exec" => DOMAIN j = {"at", "o", "name", "key"} /\ j.o \in DOMAIN h
    /\ j.at = "drop_index_exec" => DOMAIN j = {"at", "o", "key"} /\ j.o \in DOMAIN h
    /\ j.at = "build" => /\ j.o \in DOMAIN h /\ h[j.o].index_op_lock = s
                         /\ Building(h[j.o], j.key)
    /\ j.at = "delete" => /\ j.o \in DOMAIN h /\ h[j.o].index_op_lock = s
                          /\ Deleting(h[j.o], j.key)

HeapOK == heap \in Seq(Range(heap)) /\ \A o \in Live : ContainerOK(heap[o])
NamesOK ==
    /\ DOMAIN graph_map = GraphNames
    /\ \A n \in GraphNames : graph_map[n] \in Live \cup {None}
SessionsOK ==
    /\ DOMAIN session = Sessions
    /\ \A s \in Sessions : /\ DOMAIN session[s] = {"graph", "closed"}
                           /\ session[s].graph \in Live \cup {None}

CInv ==
    /\ HeapOK /\ NamesOK /\ SessionsOK
    /\ DOMAIN job = Sessions
    /\ \A s \in Sessions : JobOK(job[s], s, heap)

-----------------------------------------------------------------------------
(* The heap.                                                               *)

LEMMA OverRange ==
  ASSUME NEW T, NEW f \in Seq(T)
  PROVE  f \in Seq(Range(f))
<1>1. DOMAIN f = 1..Len(f) /\ Len(f) \in Nat /\ \A i \in 1..Len(f) : f[i] \in T
  OBVIOUS
<1>2. \A i \in 1..Len(f) : f[i] \in Range(f)
  BY <1>1 DEF Range
<1> HIDE DEF Range
<1>3. f \in Seq(Range(f))
  BY <1>1, <1>2, SMT
<1> QED BY <1>3

LEMMA Appended ==
  ASSUME NEW T, NEW s \in Seq(T), NEW x
  PROVE  /\ Append(s, x) \in Seq(Range(Append(s, x)))
         /\ DOMAIN Append(s, x) = DOMAIN s \cup {Len(s) + 1} /\ Len(s) + 1 \notin DOMAIN s
         /\ Append(s, x)[Len(s) + 1] = x
         /\ \A i \in DOMAIN s : Append(s, x)[i] = s[i]
<1>1. s \in Seq(T \cup {x}) /\ x \in T \cup {x} /\ DOMAIN s = 1..Len(s) /\ Len(s) \in Nat
  OBVIOUS
<1>2. /\ Append(s, x) \in Seq(T \cup {x}) /\ DOMAIN Append(s, x) = 1..(Len(s) + 1)
      /\ Append(s, x)[Len(s) + 1] = x
      /\ \A i \in 1..Len(s) : Append(s, x)[i] = s[i]
  BY <1>1
<1>3. Append(s, x) \in Seq(Range(Append(s, x)))
  BY <1>2, OverRange
<1>4. 1..(Len(s) + 1) = 1..Len(s) \cup {Len(s) + 1} /\ Len(s) + 1 \notin 1..Len(s)
  BY <1>1
<1> QED BY <1>1, <1>2, <1>3, <1>4

LEMMA Replaced ==
  ASSUME NEW T, NEW s \in Seq(T), NEW o, NEW x
  PROVE  [s EXCEPT ![o] = x] \in Seq(Range([s EXCEPT ![o] = x]))
<1>1. [s EXCEPT ![o] = x] \in Seq(T \cup {x})
  <2>1. DOMAIN s = 1..Len(s) /\ Len(s) \in Nat /\ \A i \in 1..Len(s) : s[i] \in T
    OBVIOUS
  <2> DEFINE t == [i \in 1..Len(s) |-> IF i = o THEN x ELSE s[i]]
  <2>2. [s EXCEPT ![o] = x] = t
    BY <2>1
  <2>3. t \in Seq(T \cup {x})
    BY <2>1
  <2> HIDE DEF t
  <2> QED BY <2>2, <2>3
<1> QED BY <1>1, OverRange

LEMMA FreshContainer ==
  ASSUME NEW type, NEW data, NEW origin
  PROVE  Fresh(Container(type, data, origin))
  BY DEF Fresh, Container, Fields

LEMMA FreshOK == \A c : Fresh(c) => ContainerOK(c)
  BY DEF Fresh, ContainerOK, Mutual

-----------------------------------------------------------------------------
(* What a step of one session has to show: the other sessions only rely on *)
(* the graphs they have locked.                                            *)

SameIndexes(c, d) ==
    /\ d.index_op_lock = c.index_op_lock /\ d.entries = c.entries
    /\ d.vector_indices = c.vector_indices

LEMMA SessionStep ==
  ASSUME CInv, NEW s \in Sessions, NEW j, job' = [job EXCEPT ![s] = j], JobOK(j, s, heap'),
         HeapOK', NamesOK', SessionsOK', Live \subseteq Live',
         \A o \in Live : heap[o].index_op_lock \in Sessions \ {s} => SameIndexes(heap[o], heap'[o])
  PROVE  CInv'
<1>1. ASSUME NEW t \in Sessions PROVE JobOK(job'[t], t, heap')
  <2>1. CASE t = s
    BY <2>1 DEF CInv
  <2>2. CASE t # s
    <3> DEFINE i == job[t]
    <3>1. job'[t] = i /\ JobOK(i, t, heap)
      BY <2>2 DEF CInv
    <3> HIDE DEF i
    <3>2. \A o \in Live : o \in DOMAIN heap'
      BY DEF Live
    <3>3. i.at \in {"build", "delete"} => i.o \in Live /\ SameIndexes(heap[i.o], heap'[i.o])
      BY <2>2, <3>1 DEF JobOK, Live
    <3>4. JobOK(i, t, heap')
      BY <3>1, <3>2, <3>3 DEF JobOK, SameIndexes, Building, Deleting, Live
    <3> QED BY <3>1, <3>4
  <2> QED BY <2>1, <2>2
<1>2. DOMAIN job' = Sessions
  BY DEF CInv
<1> QED BY <1>1, <1>2 DEF CInv

\* A step that leaves the graphs and the sessions alone.
LEMMA QuietStep ==
  ASSUME CInv, NEW s \in Sessions, NEW j, job' = [job EXCEPT ![s] = j], JobOK(j, s, heap),
         UNCHANGED <<graph_map, heap, session>>
  PROVE  CInv'
<1>1. HeapOK' /\ NamesOK' /\ SessionsOK' /\ Live' = Live
  BY DEF CInv, HeapOK, NamesOK, SessionsOK, Live, Range, ContainerOK, Mutual
<1>2. \A o \in Live : SameIndexes(heap[o], heap'[o])
  BY DEF SameIndexes
<1> QED BY <1>1, <1>2, SessionStep

LEMMA IdleOK == \A s, h : JobOK(Idle, s, h)
  BY DEF JobOK, Phases, Idle

\* A step that registers a graph under a name, or under none.
LEMMA AddStep ==
  ASSUME CInv, NEW s \in Sessions, NEW j, job' = [job EXCEPT ![s] = j], NEW c, Fresh(c),
         heap' = Append(heap, c), NEW name, graph_map' = [graph_map EXCEPT ![name] = New],
         UNCHANGED session, JobOK(j, s, heap')
  PROVE  CInv'
<1>1. heap \in Seq(Range(heap)) /\ \A o \in Live : ContainerOK(heap[o])
  BY DEF CInv, HeapOK
<1>2. /\ heap' \in Seq(Range(heap')) /\ Live' = Live \cup {New} /\ heap'[New] = c
      /\ New \notin Live /\ \A o \in Live : heap'[o] = heap[o]
  BY <1>1, Appended DEF Live, New
<1>3. HeapOK'
  <2>1. \A o \in Live' : ContainerOK(heap'[o])
    BY <1>1, <1>2, FreshOK
  <2>2. heap' \in Seq(Range(heap)')
    BY <1>2 DEF Range
  <2> QED BY <2>1, <2>2 DEF HeapOK
<1>4. NamesOK' /\ SessionsOK'
  BY <1>2 DEF CInv, NamesOK, SessionsOK
<1>5. \A o \in Live : SameIndexes(heap[o], heap'[o])
  BY <1>2 DEF SameIndexes
<1> QED BY <1>2, <1>3, <1>4, <1>5, SessionStep

LEMMA AddGraphStep ==
  ASSUME CInv, NEW s \in Sessions, NEW j, NEW c, Fresh(c), NEW name, add_graph(name, c, <<s, j>>),
         UNCHANGED session, JobOK(j, s, Append(heap, c))
  PROVE  CInv'
<1>1. <<s, j>>[1] = s /\ <<s, j>>[2] = j
  OBVIOUS
<1>2. CASE graph_map[name] # None
  <2>1. job' = [job EXCEPT ![s] = Idle] /\ UNCHANGED <<graph_map, heap, session>>
    BY <1>1, <1>2 DEF add_graph
  <2> QED BY <2>1, QuietStep, IdleOK
<1>3. CASE graph_map[name] = None
  <2>1. /\ heap' = Append(heap, c) /\ graph_map' = [graph_map EXCEPT ![name] = New]
        /\ job' = [job EXCEPT ![s] = j]
    BY <1>1, <1>3 DEF add_graph
  <2> QED BY <2>1, AddStep
<1> QED BY <1>2, <1>3

\* A job of import_internal: at another file, or done.
LEMMA ReadingJob ==
  ASSUME NEW j, DOMAIN j = ReadFields, j.at = "files"
  PROVE  \/ Reading(j) = j
         \/ \E data, o : Reading(j) = [at |-> "add", name |-> j.name,
                                      c |-> Container(type_from_manifest(j.m), data, o)]
  BY Zenon DEF Reading

\* The two reading steps of an import: the statement ends, or a job of import_internal
\* goes on.
LEMMA ReadSteps ==
  ASSUME CInv, NEW s \in Sessions, import_manifest(s) \/ import_file(s)
  PROVE  /\ UNCHANGED <<graph_map, heap, session, disk>>
         /\ \/ job' = [job EXCEPT ![s] = Idle]
            \/ \E j : /\ job' = [job EXCEPT ![s] = Reading(j)] /\ DOMAIN j = ReadFields
                     /\ j.at = "files"
                     /\ \/ /\ job[s].at = "read" /\ j.m = disk[job[s].q.dir].manifest
                           /\ j.m # None /\ manifest_ok(j.m)
                        \/ job[s].at = "files" /\ j.m = job[s].m
<1>0. JobOK(job[s], s, heap)
  BY DEF CInv
<1>1. CASE import_manifest(s)
  <2> DEFINE q == job[s].q
             d == disk[q.dir]
             j == [at |-> "files", name |-> q.name, dir |-> q.dir, m |-> d.manifest,
                   read |-> 0, vs |-> << >>, es |-> << >>,
                   origin |-> d.origin, exports |-> d.exports]
  <2>1. /\ job[s].at = "read" /\ UNCHANGED <<graph_map, heap, session, disk>>
        /\ \/ job' = [job EXCEPT ![s] = Idle]
           \/ /\ job' = [job EXCEPT ![s] = Reading(j)]
              /\ d.manifest # None /\ manifest_ok(d.manifest)
    BY <1>1, Zenon DEF import_manifest
  <2>2. DOMAIN j = ReadFields /\ j.at = "files" /\ j.m = d.manifest
    BY DEF ReadFields
  <2> HIDE DEF j, d
  <2>3. d = disk[job[s].q.dir]
    BY DEF d
  <2> QED BY <2>1, <2>2, <2>3
<1>2. CASE import_file(s)
  <2> DEFINE i == job[s]
  <2>1. /\ i.at = "files" /\ UNCHANGED <<graph_map, heap, session, disk>>
        /\ \/ job' = [job EXCEPT ![s] = Idle]
           \/ \E new_ : job' = [job EXCEPT ![s] = Reading([i EXCEPT !.read = i.read + 1, !.es = i.es \o new_])]
           \/ \E new_ : job' = [job EXCEPT ![s] = Reading([i EXCEPT !.read = i.read + 1, !.vs = i.vs \o new_])]
    BY <1>2, Zenon DEF import_file
  <2>2. DOMAIN i = ReadFields
    BY <1>0, <2>1 DEF JobOK
  <2>3. ASSUME NEW n, NEW x
        PROVE  LET e == [i EXCEPT !.read = n, !.es = x]
                   v == [i EXCEPT !.read = n, !.vs = x]
               IN  /\ DOMAIN e = ReadFields /\ e.at = "files" /\ e.m = i.m
                   /\ DOMAIN v = ReadFields /\ v.at = "files" /\ v.m = i.m
    <3> HIDE DEF i
    <3> QED BY <2>1, <2>2 DEF ReadFields
  <2>4. CASE job' = [job EXCEPT ![s] = Idle]
    BY <2>1, <2>4
  <2>5. CASE \E new_ : job' = [job EXCEPT ![s] = Reading([i EXCEPT !.read = i.read + 1, !.es = i.es \o new_])]
    <3>1. PICK new_ : job' = [job EXCEPT ![s] = Reading([i EXCEPT !.read = i.read + 1, !.es = i.es \o new_])]
      BY <2>5
    <3>2. PICK j : j = [i EXCEPT !.read = i.read + 1, !.es = i.es \o new_]
      OBVIOUS
    <3>3. DOMAIN j = ReadFields /\ j.at = "files" /\ j.m = i.m
      BY <2>3, <3>2
    <3> QED BY <2>1, <3>1, <3>2, <3>3
  <2>6. CASE \E new_ : job' = [job EXCEPT ![s] = Reading([i EXCEPT !.read = i.read + 1, !.vs = i.vs \o new_])]
    <3>1. PICK new_ : job' = [job EXCEPT ![s] = Reading([i EXCEPT !.read = i.read + 1, !.vs = i.vs \o new_])]
      BY <2>6
    <3>2. PICK j : j = [i EXCEPT !.read = i.read + 1, !.vs = i.vs \o new_]
      OBVIOUS
    <3>3. DOMAIN j = ReadFields /\ j.at = "files" /\ j.m = i.m
      BY <2>3, <3>2
    <3> QED BY <2>1, <3>1, <3>2, <3>3
  <2> QED BY <2>1, <2>4, <2>5, <2>6, Zenon
<1> QED BY <1>1, <1>2

\* An export starts work on its directory, or ends at once.
LEMMA ExportStart ==
  ASSUME NEW s \in Sessions, export(s)
  PROVE  LET q == job[s].q
             c == heap[graph_map[q.name]]
         IN  /\ UNCHANGED <<graph_map, heap, session>> /\ job[s].at = "export"
             /\ \/ disk' = disk /\ job' = [job EXCEPT ![s] = Idle]
                \/ /\ graph_map[q.name] # None
                   /\ disk' = [disk EXCEPT ![q.dir].origin = None, ![q.dir].exports = @ + 1]
                   /\ \E j : /\ job' = [job EXCEPT ![s] = j] /\ DOMAIN j = WriteFields
                            /\ j.at = "export_files" /\ j.type = c.type
<1> DEFINE q == job[s].q
           c == heap[graph_map[q.name]]
           labels == DOMAIN c.type.label_map
           j == [at |-> "export_files", dir |-> q.dir, type |-> c.type,
                 rows |-> data_files(c.type, c.data), open |-> {"vertices", "edges"} \X labels,
                 done |-> [l \in labels |-> 0],
                 origin |-> c.origin, exports |-> disk[q.dir].exports + 1,
                 alone |-> \A t \in Sessions \ {s} : ~Exporting(t, q.dir)]
<1>1. /\ UNCHANGED <<graph_map, heap, session>> /\ job[s].at = "export"
      /\ \/ disk' = disk /\ job' = [job EXCEPT ![s] = Idle]
         \/ /\ graph_map[q.name] # None
            /\ disk' = [disk EXCEPT ![q.dir].origin = None, ![q.dir].exports = @ + 1]
            /\ job' = [job EXCEPT ![s] = j]
  BY Zenon DEF export, Done
<1>2. DOMAIN j = WriteFields /\ j.at = "export_files" /\ j.type = c.type
  <2> HIDE DEF c, q, labels
  <2> QED BY DEF WriteFields
<1> HIDE DEF j
<1> QED BY <1>1, <1>2

\* An export at work keeps its fields and the type it found.
LEMMA WriteSteps ==
  ASSUME CInv, NEW s \in Sessions,
         \/ export_open(s) \/ export_dump(s) \/ export_manifest(s)
         \/ export_describe(s) \/ export_drop(s)
  PROVE  /\ UNCHANGED <<graph_map, heap, session>>
         /\ job[s].at \in Phases /\ DOMAIN job[s] = WriteFields
         /\ \/ job' = [job EXCEPT ![s] = Idle]
            \/ \E j : /\ job' = [job EXCEPT ![s] = j] /\ DOMAIN j = WriteFields
                     /\ j.at \in Phases /\ j.type = job[s].type
<1> DEFINE i == job[s]
           At(at, x) == [i EXCEPT !.at = at, !.alone = x]
<1>1. UNCHANGED <<graph_map, heap, session>> /\ i.at \in Phases
  BY Zenon DEF export_open, export_dump, export_manifest, export_describe, export_drop, Phases
<1>2. DOMAIN i = WriteFields
  BY <1>1 DEF CInv, JobOK
<1>3. \/ job' = [job EXCEPT ![s] = Idle]
      \/ \E x : job' = [job EXCEPT ![s] = [i EXCEPT !.open = x]]
      \/ \E x : job' = [job EXCEPT ![s] = [i EXCEPT !.done = x]]
      \/ \E at \in Phases : job' = [job EXCEPT ![s] = [i EXCEPT !.at = at]]
      \/ \E x : \E at \in Phases : job' = [job EXCEPT ![s] = At(at, x)]
  <2>1. CASE export_open(s)
    BY <2>1 DEF export_open
  <2>2. ASSUME NEW l, NEW n, Flush(s, l, n)
        PROVE  \E x : job' = [job EXCEPT ![s] = [i EXCEPT !.done = x]]
    <3>1. job' = [job EXCEPT ![s].done[l] = n]
      BY <2>2, Zenon DEF Flush
    <3>2. job' = [job EXCEPT ![s] = [i EXCEPT !.done = [i.done EXCEPT ![l] = n]]]
      BY <3>1
    <3> QED BY <3>2
  <2>3. CASE export_dump(s)
    BY <2>2, <2>3, Zenon DEF export_dump
  <2>4. CASE export_manifest(s)
    <3>1. \/ job' = [job EXCEPT ![s].at = "export_manifest"]
          \/ job' = [job EXCEPT ![s].at = "export_drop", ![s].alone = FALSE]
      BY <2>4, Zenon DEF export_manifest
    <3>2. \/ job' = [job EXCEPT ![s] = [i EXCEPT !.at = "export_manifest"]]
          \/ job' = [job EXCEPT ![s] = At("export_drop", FALSE)]
      BY <3>1 DEF CInv
    <3> QED BY <3>2 DEF Phases
  <2>5. CASE export_describe(s)
    <3>1. job' = [job EXCEPT ![s].at = "export_drop"]
      BY <2>5, Zenon DEF export_describe
    <3> QED BY <3>1 DEF Phases
  <2>6. CASE export_drop(s)
    BY <2>2, <2>6, Zenon DEF export_drop, Done
  <2> QED BY <2>1, <2>3, <2>4, <2>5, <2>6
<1>4. ASSUME NEW x, NEW at \in Phases
      PROVE  \A j \in {[i EXCEPT !.open = x], [i EXCEPT !.done = x], [i EXCEPT !.at = at], At(at, x)} :
                DOMAIN j = WriteFields /\ j.at \in Phases /\ j.type = i.type
  <2> HIDE DEF i
  <2> QED BY <1>1, <1>2 DEF WriteFields
<1> HIDE DEF At
<1> QED BY <1>1, <1>2, <1>3, <1>4

\* Jobs without an obligation to the graphs.
LEMMA PlainJobOK ==
  ASSUME NEW j, NEW s, NEW h,
         \/ DOMAIN j = ReadFields /\ j.at = "files"
         \/ DOMAIN j = WriteFields /\ j.at \in Phases
  PROVE  JobOK(j, s, h)
  BY DEF JobOK, ReadFields, WriteFields, Phases

\* Steps that only change the session's own statement and the disk.
LEMMA OwnSteps ==
  ASSUME CInv, NEW s \in Sessions,
         \/ \E q \in Statements : query(s, q)
         \/ import_check(s) \/ import_manifest(s) \/ import_file(s)
         \/ export(s) \/ export_open(s) \/ export_dump(s) \/ export_manifest(s)
         \/ export_describe(s) \/ export_drop(s)
         \/ bind_create_index(s) \/ bind_drop_index(s)
  PROVE  CInv'
<1>0. DOMAIN job = Sessions /\ JobOK(job[s], s, heap) /\ session[s].graph \in Live \cup {None}
  BY DEF CInv, SessionsOK
<1>1. ASSUME NEW q \in Statements, query(s, q) PROVE CInv'
  <2> DEFINE j == [at |-> q.stmt, q |-> q]
  <2>1. job' = [job EXCEPT ![s] = j] /\ UNCHANGED <<graph_map, heap, session>>
    BY <1>1 DEF query
  <2>2. JobOK(j, s, heap)
    BY CatalogAssumption DEF JobOK, StatementKinds, Phases
  <2> HIDE DEF j
  <2> QED BY <2>1, <2>2, QuietStep
<1>2. CASE import_check(s)
  <2> DEFINE j == IF graph_map[job[s].q.name] # None THEN Idle ELSE [job[s] EXCEPT !.at = "read"]
  <2>1. job' = [job EXCEPT ![s] = j] /\ UNCHANGED <<graph_map, heap, session>>
    BY <1>2 DEF import_check
  <2>2. JobOK(j, s, heap)
    <3>1. [job[s] EXCEPT !.at = "read"].at = "read" /\ "at" \in DOMAIN [job[s] EXCEPT !.at = "read"]
      BY <1>0 DEF JobOK
    <3>2. JobOK([job[s] EXCEPT !.at = "read"], s, heap)
      BY <3>1 DEF JobOK, Phases
    <3> QED BY <3>2, IdleOK
  <2> HIDE DEF j
  <2> QED BY <2>1, <2>2, QuietStep
<1>3. CASE import_manifest(s) \/ import_file(s)
  <2>1. UNCHANGED <<graph_map, heap, session>>
    BY <1>3, ReadSteps
  <2>2. CASE job' = [job EXCEPT ![s] = Idle]
    BY <2>1, <2>2, QuietStep, IdleOK
  <2>3. CASE job' # [job EXCEPT ![s] = Idle]
    <3>1. PICK j : job' = [job EXCEPT ![s] = Reading(j)] /\ DOMAIN j = ReadFields /\ j.at = "files"
      BY <1>3, <2>3, ReadSteps
    <3>2. \A c : Fresh(c) => JobOK([at |-> "add", name |-> j.name, c |-> c], s, heap)
      BY DEF JobOK, Phases
    <3>3. JobOK(Reading(j), s, heap)
      BY <3>1, <3>2, ReadingJob, PlainJobOK, FreshContainer
    <3> QED BY <2>1, <3>1, <3>3, QuietStep
  <2> QED BY <2>2, <2>3
<1>4. CASE export(s)
  <2>1. UNCHANGED <<graph_map, heap, session>>
    BY <1>4, ExportStart
  <2>2. PICK j : job' = [job EXCEPT ![s] = j] /\ JobOK(j, s, heap)
    BY <1>4, ExportStart, IdleOK, PlainJobOK DEF Phases
  <2> QED BY <2>1, <2>2, QuietStep
<1>7. CASE \/ export_open(s) \/ export_dump(s) \/ export_manifest(s)
           \/ export_describe(s) \/ export_drop(s)
  <2>1. UNCHANGED <<graph_map, heap, session>>
    BY <1>7, WriteSteps
  <2>2. PICK j : job' = [job EXCEPT ![s] = j] /\ JobOK(j, s, heap)
    BY <1>7, WriteSteps, IdleOK, PlainJobOK
  <2> QED BY <2>1, <2>2, QuietStep
<1>5. CASE bind_create_index(s)
  <2> DEFINE q == job[s].q
             o == session[s].graph
             bound == IF o = None THEN {}
                      ELSE {k \in index_keys(heap[o].type, q) :
                              /\ q.name \in DOMAIN heap[o].name_to_index => heap[o].name_to_index[q.name] = k
                              /\ k \notin DOMAIN heap[o].entries}
             e == [at |-> "create_index_exec", o |-> o, name |-> q.name, key |-> CHOOSE k \in bound : TRUE]
             j == IF bound = {} THEN Idle ELSE e
  <2>1. job' = [job EXCEPT ![s] = j] /\ UNCHANGED <<graph_map, heap, session>>
    BY <1>5 DEF bind_create_index
  <2>2. bound # {} => o \in DOMAIN heap
    BY <1>0 DEF Live
  <2> HIDE DEF bound, q, o
  <2>3. bound # {} => JobOK(e, s, heap)
    BY <2>2 DEF JobOK, Phases
  <2>4. JobOK(j, s, heap)
    BY <2>3, IdleOK
  <2> HIDE DEF j
  <2> QED BY <2>1, <2>4, QuietStep
<1>6. CASE bind_drop_index(s)
  <2> DEFINE q == job[s].q
             o == session[s].graph
             e == [at |-> "drop_index_exec", o |-> o, key |-> heap[o].name_to_index[q.name]]
             none == o = None \/ (o # None /\ q.name \notin DOMAIN heap[o].name_to_index)
             j == IF none THEN Idle ELSE e
  <2>1. job' = [job EXCEPT ![s] = j] /\ UNCHANGED <<graph_map, heap, session>>
    BY <1>6 DEF bind_drop_index
  <2>2. ~none => o \in DOMAIN heap
    BY <1>0 DEF Live
  <2> HIDE DEF none, q, o
  <2>3. ~none => JobOK(e, s, heap)
    BY <2>2 DEF JobOK, Phases
  <2>4. JobOK(j, s, heap)
    BY <2>3, IdleOK
  <2> HIDE DEF j
  <2> QED BY <2>1, <2>4, QuietStep
<1> QED BY <1>1, <1>2, <1>3, <1>4, <1>5, <1>6, <1>7

\* SESSION SET and SESSION RESET.
LEMMA SessionSteps ==
  ASSUME CInv, NEW s \in Sessions, session_set_graph(s) \/ session_reset(s)
  PROVE  CInv'
<1>0. DOMAIN job = Sessions /\ JobOK(job[s], s, heap) /\ SessionsOK /\ NamesOK /\ HeapOK
  BY DEF CInv
<1>1. ASSUME UNCHANGED <<graph_map, heap>>
      PROVE  HeapOK' /\ NamesOK' /\ Live' = Live /\ \A o \in Live : SameIndexes(heap[o], heap'[o])
  BY <1>0, <1>1 DEF HeapOK, NamesOK, Live, Range, ContainerOK, Mutual, SameIndexes
<1>2. CASE session_set_graph(s)
  <2> DEFINE names == job[s].q.graphs
             o == graph_map[Head(names)]
             rest == [job[s] EXCEPT !.q.graphs = Tail(names)]
             j == IF o # None /\ Len(names) > 1 THEN rest ELSE Idle
  <2>1. /\ job[s].at = "set" /\ session' = IF o # None THEN [session EXCEPT ![s].graph = o] ELSE session
        /\ job' = [job EXCEPT ![s] = j] /\ UNCHANGED <<graph_map, heap>>
    BY <1>2 DEF session_set_graph
  <2>2. /\ DOMAIN job[s] = {"at", "q"} /\ DOMAIN job[s].q = {"stmt", "graphs"}
        /\ names \in Seq(GraphNames) /\ names # << >>
    BY <1>0, <2>1 DEF JobOK
  <2>3. Head(names) \in GraphNames /\ Tail(names) \in Seq(GraphNames) /\ (Len(names) > 1 => Tail(names) # << >>)
    <3> HIDE DEF names
    <3>1. Head(names) \in GraphNames /\ Tail(names) \in Seq(GraphNames) /\ Len(Tail(names)) = Len(names) - 1
      BY <2>2
    <3>2. Len(names) \in Nat /\ Len(<< >>) = 0
      BY <2>2
    <3> QED BY <3>1, <3>2
  <2>4. o \in Live \cup {None}
    BY <1>0, <2>3 DEF NamesOK
  <2> HIDE DEF names, o
  <2>5. Len(names) > 1 => JobOK(rest, s, heap)
    <3>1. /\ DOMAIN rest = {"at", "q"} /\ rest.at = "set" /\ DOMAIN rest.q = {"stmt", "graphs"}
          /\ rest.q.graphs = Tail(names)
      BY <2>1, <2>2
    <3> HIDE DEF rest
    <3> QED BY <2>3, <3>1 DEF JobOK, Phases
  <2>6. JobOK(j, s, heap')
    BY <2>1, <2>5, IdleOK
  <2>7. SessionsOK'
    <3>1. Live' = Live
      BY <1>1, <2>1
    <3> QED BY <1>0, <2>1, <2>4, <3>1 DEF SessionsOK
  <2> HIDE DEF j
  <2> QED BY <1>1, <2>1, <2>6, <2>7, SessionStep
<1>3. CASE session_reset(s)
  <2>1. /\ session' = [session EXCEPT ![s] = [graph |-> None, closed |-> job[s].q.close]]
        /\ job' = [job EXCEPT ![s] = Idle] /\ UNCHANGED <<graph_map, heap>>
    BY <1>3 DEF session_reset, Done
  <2>2. SessionsOK'
    <3>1. Live' = Live
      BY <1>1, <2>1
    <3> QED BY <1>0, <2>1, <3>1 DEF SessionsOK
  <2> QED BY <1>1, <2>1, <2>2, IdleOK, SessionStep
<1> QED BY <1>2, <1>3

\* Graphs come and go.
LEMMA GraphSteps ==
  ASSUME CInv, NEW s \in Sessions,
         \/ create_graph(s) \/ drop_graph(s) \/ create_test_graph(s) \/ create_test_graph_data(s)
         \/ load_test_data(s) \/ import_add(s)
  PROVE  CInv'
<1>0. DOMAIN job = Sessions /\ JobOK(job[s], s, heap) /\ SessionsOK /\ NamesOK /\ HeapOK
  BY DEF CInv
<1>1. CASE create_graph(s)
  <2> DEFINE gt == populate_graph_type(job[s].q.elements)
             refused == gt = Failed \/ (graph_map[job[s].q.name] # None /\ job[s].q.kind # "CreateOrReplace")
  <2>1. job' = [job EXCEPT ![s] = Idle] /\ UNCHANGED session
    BY <1>1 DEF create_graph, Done
  <2>2. CASE refused
    <3>1. UNCHANGED <<graph_map, heap, session>>
      BY <1>1, <2>2 DEF create_graph
    <3> QED BY <2>1, <3>1, QuietStep, IdleOK
  <2>3. CASE ~refused
    <3>1. /\ heap' = Append(heap, Container(gt, NoData, None))
          /\ graph_map' = [graph_map EXCEPT ![job[s].q.name] = New]
      BY <1>1, <2>3 DEF create_graph
    <3> HIDE DEF gt
    <3> QED BY <2>1, <3>1, AddStep, FreshContainer, IdleOK
  <2> QED BY <2>2, <2>3
<1>2. CASE drop_graph(s)
  <2>1. /\ graph_map' = [graph_map EXCEPT ![job[s].q.name] = None]
        /\ job' = [job EXCEPT ![s] = Idle] /\ UNCHANGED <<heap, session>>
    BY <1>2 DEF drop_graph, Done
  <2>2. /\ HeapOK' /\ SessionsOK' /\ Live' = Live /\ \A o \in Live : SameIndexes(heap[o], heap'[o])
    BY <1>0, <2>1 DEF HeapOK, SessionsOK, Live, Range, ContainerOK, Mutual, SameIndexes
  <2>3. NamesOK'
    BY <1>0, <2>1, <2>2 DEF NamesOK
  <2> QED BY <2>1, <2>2, <2>3, IdleOK, SessionStep
<1>3. CASE create_test_graph(s)
  <2>1. /\ add_graph(job[s].q.name, Container(NewType, NoData, None), <<s, Idle>>)
        /\ UNCHANGED session
    BY <1>3 DEF create_test_graph
  <2> QED BY <2>1, AddGraphStep, FreshContainer, IdleOK
<1>4. CASE create_test_graph_data(s)
  <2> DEFINE j == [at |-> "load", o |-> New, n |-> job[s].q.n]
  <2>1. /\ add_graph(job[s].q.name, Container(test_types, NoData, None), <<s, j>>)
        /\ UNCHANGED session
    BY <1>4 DEF create_test_graph_data
  <2>2. JobOK(j, s, Append(heap, Container(test_types, NoData, None)))
    BY DEF JobOK, Phases
  <2> HIDE DEF j
  <2> QED BY <2>1, <2>2, AddGraphStep, FreshContainer
<1>5. CASE import_add(s)
  <2>1. job[s].at = "add" /\ add_graph(job[s].name, job[s].c, <<s, Idle>>) /\ UNCHANGED session
    BY <1>5 DEF import_add
  <2>2. Fresh(job[s].c)
    BY <1>0, <2>1 DEF JobOK
  <2> QED BY <2>1, <2>2, AddGraphStep, IdleOK
<1>6. CASE load_test_data(s)
  <2> DEFINE o == job[s].o
             d == [heap[o] EXCEPT !.data = test_data(job[s].n)]
  <2>1. heap' = [heap EXCEPT ![o] = d] /\ job' = [job EXCEPT ![s] = Idle] /\ UNCHANGED <<graph_map, session>>
    BY <1>6 DEF load_test_data, Done
  <2>2. heap \in Seq(Range(heap)) /\ \A x \in Live : ContainerOK(heap[x])
    BY <1>0 DEF HeapOK
  <2>3. o \in Live => ContainerOK(d) /\ SameIndexes(heap[o], d)
    <3> SUFFICES ASSUME o \in Live PROVE ContainerOK(d) /\ SameIndexes(heap[o], d)
      OBVIOUS
    <3>1. ContainerOK(heap[o])
      BY <2>2
    <3> DEFINE c == heap[o]
    <3> HIDE DEF c
    <3>2. d = [c EXCEPT !.data = test_data(job[s].n)] /\ ContainerOK(c)
      BY <3>1 DEF c
    <3> HIDE DEF d
    <3>3. /\ DOMAIN d = Fields /\ d.entries = c.entries /\ d.name_to_index = c.name_to_index
          /\ d.vector_indices = c.vector_indices /\ d.index_op_lock = c.index_op_lock
      BY <3>2 DEF ContainerOK, Fields
    <3> QED BY <3>2, <3>3 DEF ContainerOK, Mutual, SameIndexes, c
  <2> HIDE DEF d, o
  <2>4. /\ heap' \in Seq(Range(heap')) /\ Live' = Live
        /\ \A x \in Live : heap'[x] = IF x = o THEN d ELSE heap[x]
    BY <2>1, <2>2, Replaced DEF Live
  <2>5. HeapOK'
    <3>1. \A x \in Live' : ContainerOK(heap'[x])
      BY <2>2, <2>3, <2>4
    <3>2. heap' \in Seq(Range(heap)')
      BY <2>4 DEF Range
    <3> QED BY <3>1, <3>2 DEF HeapOK
  <2>6. NamesOK' /\ SessionsOK'
    BY <1>0, <2>1, <2>4 DEF NamesOK, SessionsOK
  <2>7. \A x \in Live : SameIndexes(heap[x], heap'[x])
    BY <2>3, <2>4 DEF SameIndexes
  <2> QED BY <2>1, <2>4, <2>5, <2>6, <2>7, IdleOK, SessionStep
<1> QED BY <1>1, <1>2, <1>3, <1>4, <1>5, <1>6

-----------------------------------------------------------------------------
(* Indexes.                                                                *)

LEMMA LockedFields ==
  ASSUME NEW c, NEW d, NEW by, DOMAIN c = Fields, d = Locked(c, by)
  PROVE  /\ DOMAIN d = Fields /\ d.index_op_lock = by /\ d.entries = c.entries
         /\ d.name_to_index = c.name_to_index /\ d.vector_indices = c.vector_indices
  BY DEF Locked, Fields

LEMMA Inserted ==
  ASSUME NEW c, ContainerOK(c), NEW name, NEW key,
         key \notin DOMAIN c.entries, name \notin DOMAIN c.name_to_index
  PROVE  LET d == insert_vector_index(c, name, key)
         IN  /\ DOMAIN d = Fields /\ Mutual(d)
             /\ DOMAIN d.entries = DOMAIN c.entries \cup {key} /\ d.vector_indices = c.vector_indices
<1> DEFINE d == insert_vector_index(c, name, key)
<1>1. d = [c EXCEPT !.entries = Registered(c.entries, key, name),
                    !.name_to_index = Registered(c.name_to_index, name, key)]
  BY DEF insert_vector_index
<1>2. DOMAIN c = Fields /\ Mutual(c)
  BY DEF ContainerOK
<1> HIDE DEF d
<1>3. /\ DOMAIN d = Fields /\ d.entries = Registered(c.entries, key, name)
      /\ d.name_to_index = Registered(c.name_to_index, name, key) /\ d.vector_indices = c.vector_indices
  BY <1>1, <1>2 DEF Fields
<1>4. /\ DOMAIN d.entries = DOMAIN c.entries \cup {key} /\ d.entries[key] = name
      /\ \A k \in DOMAIN c.entries : d.entries[k] = c.entries[k]
      /\ DOMAIN d.name_to_index = DOMAIN c.name_to_index \cup {name} /\ d.name_to_index[name] = key
      /\ \A n \in DOMAIN c.name_to_index : d.name_to_index[n] = c.name_to_index[n]
  BY <1>3 DEF Registered
<1>5. Mutual(d)
  BY <1>2, <1>4 DEF Mutual
<1> QED BY <1>3, <1>4, <1>5 DEF d

LEMMA Removed ==
  ASSUME NEW c, DOMAIN c = Fields, Mutual(c), NEW key, key \in DOMAIN c.entries
  PROVE  LET d == remove_vector_index(c, key)
         IN  /\ DOMAIN d = Fields /\ Mutual(d)
             /\ DOMAIN d.entries = DOMAIN c.entries \ {key} /\ d.vector_indices = c.vector_indices
<1> DEFINE d == remove_vector_index(c, key)
           name == c.entries[key]
<1>1. d = [c EXCEPT !.name_to_index = Unregistered(c.name_to_index, name),
                    !.entries = Unregistered(c.entries, key)]
  BY DEF remove_vector_index
<1> HIDE DEF d, name
<1>2. /\ DOMAIN d = Fields /\ d.entries = Unregistered(c.entries, key)
      /\ d.name_to_index = Unregistered(c.name_to_index, name) /\ d.vector_indices = c.vector_indices
  BY <1>1 DEF Fields
<1>3. /\ DOMAIN d.entries = DOMAIN c.entries \ {key}
      /\ \A k \in DOMAIN c.entries \ {key} : d.entries[k] = c.entries[k]
      /\ DOMAIN d.name_to_index = DOMAIN c.name_to_index \ {name}
      /\ \A n \in DOMAIN c.name_to_index \ {name} : d.name_to_index[n] = c.name_to_index[n]
  BY <1>2 DEF Unregistered
<1>4. Mutual(d)
  BY <1>3 DEF Mutual, name
<1> QED BY <1>2, <1>3, <1>4 DEF d

\* A session that holds the lock of a graph, or finds it free, replaces the
\* graph's container.
LEMMA IndexUpdate ==
  ASSUME CInv, NEW s \in Sessions, NEW o \in Live, NEW d, heap' = [heap EXCEPT ![o] = d],
         ContainerOK(d), heap[o].index_op_lock \in {None, s},
         NEW j, job' = [job EXCEPT ![s] = j], JobOK(j, s, heap'), UNCHANGED <<graph_map, session>>
  PROVE  CInv'
<1>1. heap \in Seq(Range(heap)) /\ \A x \in Live : ContainerOK(heap[x])
  BY DEF CInv, HeapOK
<1>2. /\ heap' \in Seq(Range(heap')) /\ Live' = Live
      /\ \A x \in Live : heap'[x] = IF x = o THEN d ELSE heap[x]
  BY <1>1, Replaced DEF Live
<1>3. HeapOK'
  <2>1. \A x \in Live' : ContainerOK(heap'[x])
    BY <1>1, <1>2
  <2>2. heap' \in Seq(Range(heap)')
    BY <1>2 DEF Range
  <2> QED BY <2>1, <2>2 DEF HeapOK
<1>4. NamesOK' /\ SessionsOK'
  BY <1>2 DEF CInv, NamesOK, SessionsOK
<1>5. \A x \in Live : heap[x].index_op_lock \in Sessions \ {s} => SameIndexes(heap[x], heap'[x])
  BY <1>2, CatalogAssumption DEF SameIndexes
<1> QED BY <1>2, <1>3, <1>4, <1>5, SessionStep

LEMMA CreateIndexSteps ==
  ASSUME CInv, NEW s \in Sessions, create_index_insert(s) \/ create_index_build(s)
  PROVE  CInv'
<1> DEFINE j == job[s]
           c == heap[j.o]
<1>0. DOMAIN job = Sessions /\ JobOK(j, s, heap) /\ \A o \in Live : ContainerOK(heap[o])
  BY DEF CInv, HeapOK
<1>1. CASE create_index_insert(s)
  <2>1. j.at = "create_index_exec" /\ c.index_op_lock = None /\ UNCHANGED <<graph_map, session>>
    BY <1>1 DEF create_index_insert
  <2>2. DOMAIN j = {"at", "o", "name", "key"} /\ j.o \in Live /\ ContainerOK(c)
    BY <1>0, <2>1 DEF JobOK, Live
  <2>3. CASE j.key \in DOMAIN c.entries \/ j.name \in DOMAIN c.name_to_index
    <3>1. job' = [job EXCEPT ![s] = Idle] /\ UNCHANGED <<graph_map, heap, session>>
      BY <1>1, <2>3 DEF create_index_insert, Done
    <3> QED BY <3>1, QuietStep, IdleOK
  <2>4. CASE ~(j.key \in DOMAIN c.entries \/ j.name \in DOMAIN c.name_to_index)
    <3> DEFINE e == insert_vector_index(c, j.name, j.key)
               d == Locked(e, s)
               i == [j EXCEPT !.at = "build"]
    <3>1. heap' = [heap EXCEPT ![j.o] = d] /\ job' = [job EXCEPT ![s] = i]
      BY <1>1, <2>4 DEF create_index_insert
    <3>2. i.at = "build" /\ i.o = j.o /\ i.key = j.key /\ "at" \in DOMAIN i
      BY <2>2
    <3>3. /\ DOMAIN e = Fields /\ Mutual(e)
          /\ DOMAIN e.entries = DOMAIN c.entries \cup {j.key} /\ e.vector_indices = c.vector_indices
      <4> HIDE DEF j, c
      <4> QED BY <2>2, <2>4, Inserted
    <3> HIDE DEF e, i
    <3>4. /\ DOMAIN d = Fields /\ d.index_op_lock = s /\ d.entries = e.entries
          /\ d.name_to_index = e.name_to_index /\ d.vector_indices = e.vector_indices
      BY <3>3, LockedFields
    <3> HIDE DEF d, c, j
    <3>5. ContainerOK(d) /\ Building(d, j.key)
      BY <2>1, <2>2, <2>4, <3>3, <3>4, CatalogAssumption DEF ContainerOK, Building, Mutual
    <3>6. heap'[j.o] = d /\ j.o \in DOMAIN heap'
      BY <2>2, <3>1 DEF Live
    <3>7. JobOK(i, s, heap')
      BY <3>2, <3>4, <3>5, <3>6 DEF JobOK, Phases
    <3>8. heap[j.o].index_op_lock \in {None, s}
      BY <2>1 DEF c
    <3> QED BY <2>1, <2>2, <3>1, <3>5, <3>7, <3>8, IndexUpdate
  <2> QED BY <2>3, <2>4
<1>2. CASE create_index_build(s)
  <2>1. j.at = "build" /\ job' = [job EXCEPT ![s] = Idle] /\ UNCHANGED <<graph_map, session>>
    BY <1>2 DEF create_index_build, Done
  <2>2. j.o \in Live /\ ContainerOK(c) /\ c.index_op_lock = s /\ Building(c, j.key)
    BY <1>0, <2>1 DEF JobOK, Live
  <2> DEFINE e == [c EXCEPT !.vector_indices = c.vector_indices \cup {j.key}]
             f == remove_vector_index(c, j.key)
  <2>3. \/ heap' = [heap EXCEPT ![j.o] = Locked(e, None)]
        \/ heap' = [heap EXCEPT ![j.o] = Locked(f, None)]
    BY <1>2 DEF create_index_build
  <2>8. heap[j.o].index_op_lock \in {None, s}
    BY <2>2
  <2> HIDE DEF j, c
  <2>4. ContainerOK(Locked(e, None))
    <3>1. /\ DOMAIN e = Fields /\ e.entries = c.entries /\ e.name_to_index = c.name_to_index
          /\ e.vector_indices = c.vector_indices \cup {j.key}
      BY <2>2 DEF ContainerOK, Fields
    <3> DEFINE d == Locked(e, None)
    <3> HIDE DEF e
    <3>2. /\ DOMAIN d = Fields /\ d.entries = e.entries
          /\ d.name_to_index = e.name_to_index /\ d.vector_indices = e.vector_indices
      BY <3>1, LockedFields
    <3> HIDE DEF d
    <3>3. ContainerOK(d)
      BY <2>2, <3>1, <3>2 DEF ContainerOK, Building, Mutual
    <3> QED BY <3>3 DEF d
  <2>5. ContainerOK(Locked(f, None))
    <3>1. /\ DOMAIN f = Fields /\ Mutual(f)
          /\ DOMAIN f.entries = DOMAIN c.entries \ {j.key} /\ f.vector_indices = c.vector_indices
      BY <2>2, Removed DEF ContainerOK, Building
    <3> DEFINE d == Locked(f, None)
    <3> HIDE DEF f
    <3>2. /\ DOMAIN d = Fields /\ d.entries = f.entries
          /\ d.name_to_index = f.name_to_index /\ d.vector_indices = f.vector_indices
      BY <3>1, LockedFields
    <3> HIDE DEF d
    <3>3. ContainerOK(d)
      BY <2>2, <3>1, <3>2 DEF ContainerOK, Building, Mutual
    <3> QED BY <3>3 DEF d
  <2> HIDE DEF e, f
  <2> QED BY <2>1, <2>2, <2>3, <2>4, <2>5, <2>8, IdleOK, IndexUpdate
<1> QED BY <1>1, <1>2

LEMMA DropIndexSteps ==
  ASSUME CInv, NEW s \in Sessions, drop_index_remove(s) \/ drop_index_delete(s)
  PROVE  CInv'
<1> DEFINE j == job[s]
           c == heap[j.o]
<1>0. DOMAIN job = Sessions /\ JobOK(j, s, heap) /\ \A o \in Live : ContainerOK(heap[o])
  BY DEF CInv, HeapOK
<1>1. CASE drop_index_remove(s)
  <2>1. j.at = "drop_index_exec" /\ c.index_op_lock = None /\ UNCHANGED <<graph_map, session>>
    BY <1>1 DEF drop_index_remove
  <2>2. DOMAIN j = {"at", "o", "key"} /\ j.o \in Live /\ ContainerOK(c)
    BY <1>0, <2>1 DEF JobOK, Live
  <2>3. CASE j.key \notin DOMAIN c.entries
    <3>1. job' = [job EXCEPT ![s] = Idle] /\ UNCHANGED <<graph_map, heap, session>>
      BY <1>1, <2>3 DEF drop_index_remove, Done
    <3> QED BY <3>1, QuietStep, IdleOK
  <2>4. CASE j.key \in DOMAIN c.entries
    <3> DEFINE e == remove_vector_index(c, j.key)
               d == Locked(e, s)
               i == [j EXCEPT !.at = "delete"]
    <3>1. heap' = [heap EXCEPT ![j.o] = d] /\ job' = [job EXCEPT ![s] = i]
      BY <1>1, <2>4 DEF drop_index_remove
    <3>2. i.at = "delete" /\ i.o = j.o /\ i.key = j.key /\ "at" \in DOMAIN i
      BY <2>2
    <3>3. /\ DOMAIN e = Fields /\ Mutual(e)
          /\ DOMAIN e.entries = DOMAIN c.entries \ {j.key} /\ e.vector_indices = c.vector_indices
      <4> HIDE DEF j, c
      <4> QED BY <2>2, <2>4, Removed DEF ContainerOK
    <3> HIDE DEF e, i
    <3>4. /\ DOMAIN d = Fields /\ d.index_op_lock = s /\ d.entries = e.entries
          /\ d.name_to_index = e.name_to_index /\ d.vector_indices = e.vector_indices
      BY <3>3, LockedFields
    <3> HIDE DEF d, c, j
    <3>5. ContainerOK(d) /\ Deleting(d, j.key)
      BY <2>1, <2>2, <3>3, <3>4, CatalogAssumption DEF ContainerOK, Deleting, Mutual
    <3>6. heap'[j.o] = d /\ j.o \in DOMAIN heap'
      BY <2>2, <3>1 DEF Live
    <3>7. JobOK(i, s, heap')
      BY <3>2, <3>4, <3>5, <3>6 DEF JobOK, Phases
    <3>8. heap[j.o].index_op_lock \in {None, s}
      BY <2>1 DEF c
    <3> QED BY <2>1, <2>2, <3>1, <3>5, <3>7, <3>8, IndexUpdate
  <2> QED BY <2>3, <2>4
<1>2. CASE drop_index_delete(s)
  <2> DEFINE e == [c EXCEPT !.vector_indices = c.vector_indices \ {j.key}]
             d == Locked(e, None)
  <2>1. /\ j.at = "delete" /\ heap' = [heap EXCEPT ![j.o] = d]
        /\ job' = [job EXCEPT ![s] = Idle] /\ UNCHANGED <<graph_map, session>>
    BY <1>2 DEF drop_index_delete, Done
  <2>2. j.o \in Live /\ ContainerOK(c) /\ c.index_op_lock = s /\ Deleting(c, j.key)
    BY <1>0, <2>1 DEF JobOK, Live
  <2>3. heap[j.o].index_op_lock \in {None, s}
    BY <2>2
  <2> HIDE DEF j, c
  <2>4. /\ DOMAIN e = Fields /\ e.entries = c.entries /\ e.name_to_index = c.name_to_index
        /\ e.vector_indices = c.vector_indices \ {j.key}
    BY <2>2 DEF ContainerOK, Fields
  <2> HIDE DEF e
  <2>5. /\ DOMAIN d = Fields /\ d.entries = e.entries
        /\ d.name_to_index = e.name_to_index /\ d.vector_indices = e.vector_indices
    BY <2>4, LockedFields
  <2> HIDE DEF d
  <2>6. ContainerOK(d)
    BY <2>2, <2>4, <2>5 DEF ContainerOK, Deleting, Mutual
  <2> QED BY <2>1, <2>2, <2>3, <2>6, IdleOK, IndexUpdate
<1> QED BY <1>1, <1>2

-----------------------------------------------------------------------------
(* The theorems.                                                           *)

LEMMA InitCInv == Init => CInv
<1> SUFFICES ASSUME Init PROVE CInv
  OBVIOUS
<1>1. heap = << >> /\ << >> \in Seq(Range(<< >>)) /\ DOMAIN << >> = {}
  BY DEF Init
<1>2. HeapOK
  BY <1>1 DEF HeapOK, Live
<1>3. NamesOK /\ SessionsOK
  BY DEF Init, NamesOK, SessionsOK
<1>4. DOMAIN job = Sessions /\ \A s \in Sessions : JobOK(job[s], s, heap)
  BY IdleOK DEF Init
<1> QED BY <1>2, <1>3, <1>4 DEF CInv

LEMMA NextCInv == CInv /\ [Next]_vars => CInv'
<1> SUFFICES ASSUME CInv, [Next]_vars PROVE CInv'
  OBVIOUS
<1>1. CASE UNCHANGED vars
  <2>1. UNCHANGED <<graph_map, heap, session, job>>
    BY <1>1 DEF vars
  <2>2. HeapOK' /\ NamesOK' /\ SessionsOK'
    BY <2>1 DEF CInv, HeapOK, NamesOK, SessionsOK, Live, Range
  <2> QED BY <2>1, <2>2 DEF CInv
<1>2. ASSUME NEW s \in Sessions, Step(s) PROVE CInv'
  BY <1>2, OwnSteps, SessionSteps, GraphSteps, CreateIndexSteps, DropIndexSteps DEF Step
<1>3. ASSUME NEW s \in Sessions, NEW q \in Statements, query(s, q) PROVE CInv'
  BY <1>3, OwnSteps
<1> QED BY <1>1, <1>2, <1>3 DEF Next

\* create_vector_index and drop_vector_index leave no half index, whatever the
\* number of sessions and the outcome of a build.
THEOREM NoHalfIndex == Spec => []IndexesAgree
<1>1. CInv => IndexesAgree
  BY DEF CInv, HeapOK, ContainerOK, Mutual, IndexesAgree
<1> QED BY <1>1, InitCInv, NextCInv, PTL DEF Spec

\* A graph keeps its name until a session runs DROP GRAPH or CREATE OR REPLACE
\* GRAPH for it: MemorySchemaCatalog::add_graph never replaces, so an import or a
\* test graph whose check of the name is stale gives up.
THEOREM NamesKept == Spec => GraphsNotLost
<1> DEFINE Asked(n) ==
       \E s \in Sessions :
         /\ job[s] # Idle /\ job'[s] = Idle
         /\ \/ job[s].at = "drop_graph" /\ job[s].q.name = n
            \/ /\ job[s].at = "create_graph" /\ job[s].q.name = n
               /\ job[s].q.kind = "CreateOrReplace"
<1>1. CInv /\ [Next]_vars =>
        [\A n \in GraphNames : graph_map[n] # None /\ graph_map'[n] # graph_map[n] => Asked(n)]_vars
  <2> SUFFICES ASSUME CInv, Next, NEW n \in GraphNames, graph_map[n] # None, graph_map'[n] # graph_map[n]
               PROVE  Asked(n)
    OBVIOUS
  <2>0. DOMAIN graph_map = GraphNames /\ DOMAIN job = Sessions
    BY DEF CInv, NamesOK
  <2>1. PICK s \in Sessions : Step(s) \/ \E q \in Statements : query(s, q)
    BY DEF Next
  <2>2. \A name, c, next : ~ add_graph(name, c, next)
    BY <2>0 DEF add_graph
  <2>3. drop_graph(s) \/ create_graph(s)
    BY <2>1, <2>2 DEF Step, query, session_set_graph, session_reset, create_test_graph,
       create_test_graph_data, load_test_data, import_check, import_manifest, import_file,
       import_add, export, export_open, export_dump, export_manifest, export_describe, export_drop,
       bind_create_index, create_index_insert, create_index_build, bind_drop_index,
       drop_index_remove, drop_index_delete
  <2>4. CASE drop_graph(s)
    BY <2>0, <2>4 DEF drop_graph, Done, Idle
  <2>5. CASE create_graph(s)
    BY <2>0, <2>5 DEF create_graph, Done, Idle
  <2> QED BY <2>3, <2>4, <2>5
<1> QED BY <1>1, InitCInv, NextCInv, PTL DEF Spec, GraphsNotLost
-----------------------------------------------------------------------------
(* Graph types: what is added to one keeps the end points of its edge types *)
(* declared.                                                               *)

Declared(gt) ==
    \A ls \in DOMAIN gt.edge_type_map :
        /\ gt.edge_type_map[ls].src \in DOMAIN gt.vertex_type_map
        /\ gt.edge_type_map[ls].dst \in DOMAIN gt.vertex_type_map

TypeOK(gt) ==
    /\ DOMAIN gt = {"label_map", "vertex_type_map", "edge_type_map"}
    /\ IsFiniteSet(DOMAIN gt.label_map)
    /\ Declared(gt)

\* The result of a call that may fail.
TypeOrFailed(gt) == gt = Failed \/ TypeOK(gt)

LEMMA VacantEntry ==
  ASSUME NEW f, NEW k, NEW v
  PROVE  /\ DOMAIN Vacant(f, k, v) = DOMAIN f \cup {k}
         /\ \A x \in DOMAIN f : Vacant(f, k, v)[x] = f[x]
         /\ k \notin DOMAIN f => Vacant(f, k, v)[k] = v
  BY DEF Vacant

LEMMA NewTypeOK == TypeOK(NewType)
<1>1. DOMAIN << >> = {}
  OBVIOUS
<1>2. IsFiniteSet({})
  BY FS_EmptySet
<1>3. /\ DOMAIN NewType = {"label_map", "vertex_type_map", "edge_type_map"}
      /\ NewType.label_map = << >> /\ NewType.edge_type_map = << >>
  BY DEF NewType
<1> QED BY <1>1, <1>2, <1>3 DEF TypeOK, Declared

LEMMA AddLabelOK ==
  ASSUME NEW gt, TypeOK(gt), NEW name
  PROVE  TypeOK(add_label(gt, name))
<1> DEFINE v == Cardinality(DOMAIN gt.label_map) + 1
           m == Vacant(gt.label_map, name, v)
           r == [gt EXCEPT !.label_map = m]
<1>1. add_label(gt, name) = r
  BY DEF add_label
<1>2. DOMAIN m = DOMAIN gt.label_map \cup {name}
  BY VacantEntry
<1>3. IsFiniteSet(DOMAIN m)
  <2> HIDE DEF m
  <2> QED BY <1>2, FS_AddElement DEF TypeOK
<1> HIDE DEF m
<1>4. /\ DOMAIN r = {"label_map", "vertex_type_map", "edge_type_map"} /\ r.label_map = m
      /\ r.vertex_type_map = gt.vertex_type_map /\ r.edge_type_map = gt.edge_type_map
  BY DEF TypeOK
<1> HIDE DEF r
<1>5. TypeOK(r)
  BY <1>3, <1>4 DEF TypeOK, Declared
<1> QED BY <1>1, <1>5

LEMMA AddVertexTypeOK ==
  ASSUME NEW gt, TypeOK(gt), NEW labels, NEW props
  PROVE  /\ TypeOK(add_vertex_type(gt, labels, props))
         /\ DOMAIN add_vertex_type(gt, labels, props).vertex_type_map
               = DOMAIN gt.vertex_type_map \cup {labels}
<1> DEFINE m == Vacant(gt.vertex_type_map, labels, props)
           r == [gt EXCEPT !.vertex_type_map = m]
<1>1. add_vertex_type(gt, labels, props) = r
  BY DEF add_vertex_type
<1>2. DOMAIN m = DOMAIN gt.vertex_type_map \cup {labels}
  BY VacantEntry
<1> HIDE DEF m
<1>3. /\ DOMAIN r = {"label_map", "vertex_type_map", "edge_type_map"} /\ r.vertex_type_map = m
      /\ r.label_map = gt.label_map /\ r.edge_type_map = gt.edge_type_map
  BY DEF TypeOK
<1> HIDE DEF r
<1>4. TypeOK(r)
  BY <1>2, <1>3 DEF TypeOK, Declared
<1> QED BY <1>1, <1>2, <1>3, <1>4

LEMMA AddEdgeTypeOK ==
  ASSUME NEW gt, TypeOK(gt), NEW labels, NEW props,
         NEW src \in DOMAIN gt.vertex_type_map, NEW dst \in DOMAIN gt.vertex_type_map
  PROVE  TypeOK(add_edge_type(gt, labels, src, dst, props))
<1> DEFINE e == [src |-> src, dst |-> dst, props |-> props]
           m == Vacant(gt.edge_type_map, labels, e)
           r == [gt EXCEPT !.edge_type_map = m]
<1>1. add_edge_type(gt, labels, src, dst, props) = r
  BY DEF add_edge_type
<1>2. e.src = src /\ e.dst = dst
  OBVIOUS
<1> HIDE DEF e
<1>3. /\ DOMAIN m = DOMAIN gt.edge_type_map \cup {labels}
      /\ \A x \in DOMAIN gt.edge_type_map : m[x] = gt.edge_type_map[x]
      /\ labels \notin DOMAIN gt.edge_type_map => m[labels] = e
  BY VacantEntry
<1> HIDE DEF m
<1>4. /\ DOMAIN r = {"label_map", "vertex_type_map", "edge_type_map"} /\ r.edge_type_map = m
      /\ r.label_map = gt.label_map /\ r.vertex_type_map = gt.vertex_type_map
  BY DEF TypeOK
<1> HIDE DEF r
<1>5. ASSUME NEW ls \in DOMAIN m
      PROVE  m[ls].src \in DOMAIN gt.vertex_type_map /\ m[ls].dst \in DOMAIN gt.vertex_type_map
  <2>1. CASE ls \in DOMAIN gt.edge_type_map
    BY <1>3, <2>1 DEF TypeOK, Declared
  <2>2. CASE ls \notin DOMAIN gt.edge_type_map
    BY <1>2, <1>3, <2>2
  <2> QED BY <2>1, <2>2
<1>6. TypeOK(r)
  BY <1>4, <1>5 DEF TypeOK, Declared
<1> QED BY <1>1, <1>6

LEMMA ResolveOK ==
  ASSUME NEW gt, TypeOK(gt), NEW ref, NEW r, r = resolve_vertex_type(gt, ref), r[1] # Failed
  PROVE  /\ TypeOK(r[1]) /\ r[2] \in DOMAIN r[1].vertex_type_map
         /\ DOMAIN gt.vertex_type_map \subseteq DOMAIN r[1].vertex_type_map
<1>1. PICK ls, props : r = <<add_vertex_type(gt, ls, props), ls>>
  <2>1. CASE IsAlias(ref)
    BY <2>1 DEF resolve_vertex_type
  <2>2. CASE ~IsAlias(ref)
    BY <2>2 DEF resolve_vertex_type
  <2> QED BY <2>1, <2>2
<1>2. r[1] = add_vertex_type(gt, ls, props) /\ r[2] = ls
  BY <1>1
<1> QED BY <1>2, AddVertexTypeOK

LEMMA AddTypeOK ==
  ASSUME NEW gt, TypeOrFailed(gt), NEW e
  PROVE  TypeOrFailed(add_type(gt, e))
<1> SUFFICES ASSUME gt # Failed, e.labels # {} PROVE TypeOrFailed(add_type(gt, e))
  BY DEF add_type, TypeOrFailed
<1>0. TypeOK(gt)
  BY DEF TypeOrFailed
<1>1. CASE e.kind = "node"
  <2>1. add_type(gt, e) = add_vertex_type(gt, bind_labels(e.labels), e.props)
    BY <1>1 DEF add_type
  <2> QED BY <1>0, <2>1, AddVertexTypeOK DEF TypeOrFailed
<1>2. CASE e.kind # "node"
  <2> DEFINE src == resolve_vertex_type(gt, e.left)
             dst == resolve_vertex_type(src[1], e.right)
  <2>1. add_type(gt, e) = add_edge_type_to_catalog(gt, e)
    BY <1>2 DEF add_type
  <2>2. CASE src[1] = Failed \/ dst[1] = Failed
    <3>1. add_edge_type_to_catalog(gt, e) = Failed
      BY <2>2 DEF add_edge_type_to_catalog
    <3> QED BY <2>1, <3>1 DEF TypeOrFailed
  <2>3. CASE src[1] # Failed /\ dst[1] # Failed
    <3>1. add_edge_type_to_catalog(gt, e)
            = add_edge_type(dst[1], bind_labels(e.labels), src[2], dst[2], e.props)
      BY <2>3 DEF add_edge_type_to_catalog
    <3>2. TypeOK(src[1]) /\ src[2] \in DOMAIN src[1].vertex_type_map
      BY <1>0, <2>3, ResolveOK
    <3>3. /\ TypeOK(dst[1]) /\ dst[2] \in DOMAIN dst[1].vertex_type_map
          /\ DOMAIN src[1].vertex_type_map \subseteq DOMAIN dst[1].vertex_type_map
      BY <2>3, <3>2, ResolveOK
    <3>4. TypeOK(add_edge_type(dst[1], bind_labels(e.labels), src[2], dst[2], e.props))
      <4> HIDE DEF src, dst
      <4> QED BY <3>2, <3>3, AddEdgeTypeOK
    <3> QED BY <2>1, <3>1, <3>4 DEF TypeOrFailed
  <2> QED BY <2>2, <2>3
<1> QED BY <1>1, <1>2

LEMMA RegisterLabelsOK ==
  ASSUME NEW gt, TypeOK(gt), NEW e
  PROVE  TypeOK(register_labels(gt, e))
<1> DEFINE own == IF e.name = Null THEN gt ELSE add_label(gt, e.name)
           left == IF IsAlias(e.left) THEN add_label(own, e.left.alias) ELSE own
           both == IF IsAlias(e.right) THEN add_label(left, e.right.alias) ELSE left
<1>1. register_labels(gt, e) = IF e.kind = "node" THEN own ELSE both
  BY DEF register_labels
<1>2. TypeOK(own)
  BY AddLabelOK
<1>3. TypeOK(left)
  <2> HIDE DEF own
  <2> QED BY <1>2, AddLabelOK
<1>4. TypeOK(both)
  <2> HIDE DEF own, left
  <2> QED BY <1>3, AddLabelOK
<1> QED BY <1>1, <1>2, <1>4
-----------------------------------------------------------------------------
(* The loops of populate_graph_type, by induction over the elements.       *)

LEMMA SetInduction ==
  ASSUME NEW S, 0 \in S, \A m \in Nat : m \in S => m + 1 \in S
  PROVE  Nat \subseteq S
<1> SUFFICES ASSUME Nat \ S # {} PROVE FALSE
  OBVIOUS
<1>1. PICK x \in Nat \ S : \A y \in Nat \ S : ~ (<<y, x>> \in OpToRel(<, Nat))
  <2>1. Nat \ S \subseteq Nat
    OBVIOUS
  <2> QED BY <2>1, WFMin, NatLessThanWellFounded, Zenon
<1>2. x # 0 /\ x - 1 \in Nat
  OBVIOUS
<1>3. x - 1 \in Nat \ S
  BY <1>2
<1>4. <<x - 1, x>> \in Nat \X Nat /\ <<x - 1, x>>[1] < <<x - 1, x>>[2]
  BY <1>2
<1>5. <<x - 1, x>> \in OpToRel(<, Nat)
  BY <1>4, Zenon DEF OpToRel
<1> QED BY <1>1, <1>3, <1>5, Zenon

LEMMA RegisteredRecursion ==
  ASSUME NEW es, es \in Seq(Range(es))
  PROVE  registered(es) = [i \in 0 .. Len(es) |->
            IF i = 0 THEN NewType ELSE register_labels(registered(es)[i - 1], es[i])]
<1> DEFINE Start == NewType
           step(f, i) == IF i = 0 THEN Start ELSE register_labels(f[i - 1], es[i])
           Defined == {n \in Nat : \E f : f = [i \in 0 .. n |-> step(f, i)]}
<1>0. Len(es) \in Nat
  BY LenProperties
<1> HIDE DEF Start
<1>1. 0 \in Defined
  <2> DEFINE f == [i \in 0 .. 0 |-> Start]
  <2>1. \A i \in 0 .. 0 : step(f, i) = Start
    OBVIOUS
  <2>2. f = [i \in 0 .. 0 |-> step(f, i)]
    <3> HIDE DEF step
    <3> QED BY <2>1
  <2> HIDE DEF f
  <2> QED BY <2>2
<1>2. ASSUME NEW n \in Nat, n \in Defined PROVE n + 1 \in Defined
  <2>1. PICK f : f = [i \in 0 .. n |-> step(f, i)]
    BY <1>2
  <2> DEFINE g == [i \in 0 .. n + 1 |-> IF i <= n THEN f[i] ELSE step(f, i)]
  <2>2. \A i \in 0 .. n + 1 : g[i] = step(g, i)
    <3> TAKE i \in 0 .. n + 1
    <3>1. i # 0 => i - 1 \in 0 .. n /\ g[i - 1] = f[i - 1]
      OBVIOUS
    <3>2. step(g, i) = step(f, i)
      BY <3>1
    <3> HIDE DEF step
    <3>3. i <= n => i \in 0 .. n
      OBVIOUS
    <3>4. i <= n => f[i] = step(f, i)
      BY <2>1, <3>3, Zenon
    <3> QED BY <3>2, <3>4
  <2>3. g = [i \in 0 .. n + 1 |-> step(g, i)]
    <3> HIDE DEF step
    <3> QED BY <2>2
  <2>4. \E h : h = [i \in 0 .. n + 1 |-> step(h, i)]
    <3> HIDE DEF g, step
    <3> QED BY <2>3
  <2> HIDE DEF step
  <2> QED BY <2>4
<1>3. Len(es) \in Defined
  <2> HIDE DEF Defined
  <2> QED BY <1>0, <1>1, <1>2, SetInduction
<1>4. \E f : f = [i \in 0 .. Len(es) |-> step(f, i)]
  BY <1>3
<1>5. registered(es) = CHOOSE f : f = [i \in 0 .. Len(es) |-> step(f, i)]
  BY DEF registered, Start
<1>6. registered(es) = [i \in 0 .. Len(es) |-> step(registered(es), i)]
  <2> HIDE DEF step
  <2> QED BY <1>4, <1>5, Zenon
<1> QED BY <1>6, Zenon DEF Start

LEMMA AddedRecursion ==
  ASSUME NEW es, es \in Seq(Range(es))
  PROVE  added(es) = [i \in 0 .. Len(es) |->
            IF i = 0 THEN registered(es)[Len(es)] ELSE add_type(added(es)[i - 1], es[i])]
<1> DEFINE Start == registered(es)[Len(es)]
           step(f, i) == IF i = 0 THEN Start ELSE add_type(f[i - 1], es[i])
           Defined == {n \in Nat : \E f : f = [i \in 0 .. n |-> step(f, i)]}
<1>0. Len(es) \in Nat
  BY LenProperties
<1> HIDE DEF Start
<1>1. 0 \in Defined
  <2> DEFINE f == [i \in 0 .. 0 |-> Start]
  <2>1. \A i \in 0 .. 0 : step(f, i) = Start
    OBVIOUS
  <2>2. f = [i \in 0 .. 0 |-> step(f, i)]
    <3> HIDE DEF step
    <3> QED BY <2>1
  <2> HIDE DEF f
  <2> QED BY <2>2
<1>2. ASSUME NEW n \in Nat, n \in Defined PROVE n + 1 \in Defined
  <2>1. PICK f : f = [i \in 0 .. n |-> step(f, i)]
    BY <1>2
  <2> DEFINE g == [i \in 0 .. n + 1 |-> IF i <= n THEN f[i] ELSE step(f, i)]
  <2>2. \A i \in 0 .. n + 1 : g[i] = step(g, i)
    <3> TAKE i \in 0 .. n + 1
    <3>1. i # 0 => i - 1 \in 0 .. n /\ g[i - 1] = f[i - 1]
      OBVIOUS
    <3>2. step(g, i) = step(f, i)
      BY <3>1
    <3> HIDE DEF step
    <3>3. i <= n => i \in 0 .. n
      OBVIOUS
    <3>4. i <= n => f[i] = step(f, i)
      BY <2>1, <3>3, Zenon
    <3> QED BY <3>2, <3>4
  <2>3. g = [i \in 0 .. n + 1 |-> step(g, i)]
    <3> HIDE DEF step
    <3> QED BY <2>2
  <2>4. \E h : h = [i \in 0 .. n + 1 |-> step(h, i)]
    <3> HIDE DEF g, step
    <3> QED BY <2>3
  <2> HIDE DEF step
  <2> QED BY <2>4
<1>3. Len(es) \in Defined
  <2> HIDE DEF Defined
  <2> QED BY <1>0, <1>1, <1>2, SetInduction
<1>4. \E f : f = [i \in 0 .. Len(es) |-> step(f, i)]
  BY <1>3
<1>5. added(es) = CHOOSE f : f = [i \in 0 .. Len(es) |-> step(f, i)]
  BY DEF added, Start
<1>6. added(es) = [i \in 0 .. Len(es) |-> step(added(es), i)]
  <2> HIDE DEF step
  <2> QED BY <1>4, <1>5, Zenon
<1> QED BY <1>6, Zenon DEF Start

LEMMA RegisteredOK ==
  ASSUME NEW es, es \in Seq(Range(es))
  PROVE  TypeOK(registered(es)[Len(es)])
<1> DEFINE f == registered(es)
           Good == {n \in Nat : n <= Len(es) => TypeOK(f[n])}
<1>0. Len(es) \in Nat
  BY LenProperties
<1>1. \A i \in 0 .. Len(es) : f[i] = IF i = 0 THEN NewType ELSE register_labels(f[i - 1], es[i])
  BY RegisteredRecursion, Zenon
<1> HIDE DEF f
<1>2. 0 \in Good
  BY <1>0, <1>1, NewTypeOK
<1>3. ASSUME NEW n \in Nat, n \in Good PROVE n + 1 \in Good
  <2> SUFFICES ASSUME n + 1 <= Len(es) PROVE TypeOK(f[n + 1])
    OBVIOUS
  <2>1. TypeOK(f[n])
    BY <1>0, <1>3
  <2>2. f[n + 1] = register_labels(f[n], es[n + 1])
    BY <1>0, <1>1
  <2> QED BY <2>1, <2>2, RegisterLabelsOK
<1>4. Nat \subseteq Good
  <2> HIDE DEF Good
  <2> QED BY <1>2, <1>3, SetInduction
<1>5. TypeOK(f[Len(es)])
  BY <1>0, <1>4
<1> QED BY <1>5 DEF f

LEMMA PopulateOK ==
  ASSUME NEW es, es \in Seq(Range(es))
  PROVE  TypeOrFailed(populate_graph_type(es))
<1> DEFINE f == added(es)
           Good == {n \in Nat : n <= Len(es) => TypeOrFailed(f[n])}
           z == registered(es)[Len(es)]
<1>0. Len(es) \in Nat
  BY LenProperties
<1>1. \A i \in 0 .. Len(es) : f[i] = IF i = 0 THEN z ELSE add_type(f[i - 1], es[i])
  BY AddedRecursion, Zenon
<1>2. TypeOK(z)
  BY RegisteredOK
<1> HIDE DEF f, z
<1>3. 0 \in Good
  BY <1>0, <1>1, <1>2 DEF TypeOrFailed
<1>4. ASSUME NEW n \in Nat, n \in Good PROVE n + 1 \in Good
  <2> SUFFICES ASSUME n + 1 <= Len(es) PROVE TypeOrFailed(f[n + 1])
    OBVIOUS
  <2>1. TypeOrFailed(f[n])
    BY <1>0, <1>4
  <2>2. f[n + 1] = add_type(f[n], es[n + 1])
    BY <1>0, <1>1
  <2> QED BY <2>1, <2>2, AddTypeOK
<1>5. Nat \subseteq Good
  <2> HIDE DEF Good
  <2> QED BY <1>3, <1>4, SetInduction
<1>6. TypeOrFailed(f[Len(es)])
  BY <1>0, <1>5
<1> QED BY <1>6 DEF f, populate_graph_type

-----------------------------------------------------------------------------
(* The type of a manifest.                                                 *)

Specs(m) == m.vertices \in Seq(Range(m.vertices)) /\ m.edges \in Seq(Range(m.edges))

LEMMA ManifestLabels ==
  ASSUME NEW m, Specs(m)
  PROVE  /\ Len(m.vertices) \in Nat /\ Len(m.edges) \in Nat
         /\ DOMAIN m.vertices = 1 .. Len(m.vertices) /\ DOMAIN m.edges = 1 .. Len(m.edges)
         /\ DOMAIN manifest_labels(m) = 1 .. (Len(m.vertices) + Len(m.edges))
         /\ \A i \in DOMAIN m.vertices : manifest_labels(m)[i] = m.vertices[i].label
<1> DEFINE V == Len(m.vertices)
           E == Len(m.edges)
           vs == [i \in 1 .. V |-> m.vertices[i].label]
           es == [i \in 1 .. E |-> m.edges[i].label]
<1>1. V \in Nat /\ E \in Nat /\ DOMAIN m.vertices = 1 .. V /\ DOMAIN m.edges = 1 .. E
  BY LenProperties DEF Specs
<1>2. manifest_labels(m) = vs \o es
  BY <1>1 DEF manifest_labels
<1> DEFINE All == {vs[i] : i \in 1 .. V} \cup {es[i] : i \in 1 .. E}
<1>3. (\A i \in 1 .. V : vs[i] \in All) /\ (\A i \in 1 .. E : es[i] \in All)
  BY Zenon
<1>4. vs \in [1 .. V -> All] /\ es \in [1 .. E -> All]
  <2> HIDE DEF All
  <2> QED BY <1>3
<1> HIDE DEF All
<1>5. \A i \in 1 .. V : vs[i] = m.vertices[i].label
  OBVIOUS
<1> HIDE DEF vs, es, V, E
<1>6. vs \in Seq(All) /\ es \in Seq(All) /\ Len(vs) = V /\ Len(es) = E
  BY <1>1, <1>4
<1>7. DOMAIN (vs \o es) = 1 .. (V + E) /\ \A i \in 1 .. V : (vs \o es)[i] = vs[i]
  <2>1. /\ vs \o es \in Seq(All) /\ Len(vs \o es) = V + E
        /\ \A i \in 1 .. Len(vs) + Len(es) :
              (vs \o es)[i] = IF i <= Len(vs) THEN vs[i] ELSE es[i - Len(vs)]
    BY <1>6, ConcatProperties
  <2>2. \A i \in 1 .. V : i \in 1 .. V + E /\ i <= V
    BY <1>1
  <2> QED BY <1>6, <2>1, <2>2, LenProperties
<1> QED BY <1>1, <1>2, <1>5, <1>7 DEF V, E

LEMMA FiniteLabels ==
  ASSUME NEW f, NEW n \in Nat, DOMAIN f = 1 .. n
  PROVE  IsFiniteSet(ToSet(f))
<1> DEFINE T == ToSet(f)
           g == [i \in 1 .. n |-> f[i]]
<1>1. \A i \in 1 .. n : f[i] \in T
  BY DEF ToSet
<1>2. \A y \in T : \E i \in 1 .. n : f[i] = y
  BY DEF ToSet
<1> HIDE DEF T
<1>3. g \in Surjection(1 .. n, T)
  BY <1>1, <1>2 DEF Surjection
<1>4. IsFiniteSet(1 .. n)
  BY FS_Interval
<1>5. IsFiniteSet(T)
  BY <1>3, <1>4, FS_Surjection DEF ExistsSurjection
<1> QED BY <1>5 DEF T

LEMMA ManifestTypeOK ==
  ASSUME NEW m, Specs(m), manifest_ok(m)
  PROVE  TypeOK(type_from_manifest(m))
<1> DEFINE V == Len(m.vertices)
           E == Len(m.edges)
           names == manifest_labels(m)
           id(l) == CHOOSE i \in DOMAIN names : names[i] = l
           gt == type_from_manifest(m)
           end(ls) == m.edges[(CHOOSE i \in ls : TRUE) - V]
<1>1. /\ V \in Nat /\ E \in Nat /\ DOMAIN m.vertices = 1 .. V /\ DOMAIN m.edges = 1 .. E
      /\ DOMAIN names = 1 .. (V + E) /\ \A i \in 1 .. V : names[i] = m.vertices[i].label
  BY ManifestLabels
<1>2. /\ DOMAIN gt = {"label_map", "vertex_type_map", "edge_type_map"}
      /\ DOMAIN gt.label_map = ToSet(names)
      /\ DOMAIN gt.vertex_type_map = {{i} : i \in 1 .. V}
      /\ DOMAIN gt.edge_type_map = {{V + i} : i \in 1 .. E}
      /\ \A ls \in DOMAIN gt.edge_type_map :
            /\ gt.edge_type_map[ls].src = {id(end(ls).src_label)}
            /\ gt.edge_type_map[ls].dst = {id(end(ls).dst_label)}
  BY <1>1 DEF type_from_manifest
<1>3. ASSUME NEW l \in {m.vertices[j].label : j \in 1 .. V} PROVE id(l) \in 1 .. V
  <2>1. PICK j \in 1 .. V : m.vertices[j].label = l
    OBVIOUS
  <2>2. j \in DOMAIN names /\ names[j] = l
    <3> HIDE DEF names, V, E
    <3>1. j \in 1 .. V + E
      BY <1>1
    <3> QED BY <1>1, <2>1, <3>1
  <2>3. id(l) \in DOMAIN names /\ names[id(l)] = l
    BY <2>2
  <2>4. id(l) = j
    <3> HIDE DEF id
    <3> QED BY <2>2, <2>3 DEF manifest_ok, IsInjective
  <2> QED BY <2>4
<1>4. ASSUME NEW ls \in DOMAIN gt.edge_type_map
      PROVE  end(ls).src_label \in {m.vertices[j].label : j \in 1 .. V}
             /\ end(ls).dst_label \in {m.vertices[j].label : j \in 1 .. V}
  <2>1. PICK i \in 1 .. E : ls = {V + i}
    BY <1>2
  <2> DEFINE k == CHOOSE k \in ls : TRUE
  <2>2. k = V + i
    BY <2>1
  <2> HIDE DEF k
  <2>3. k - V = i
    <3> HIDE DEF V, E
    <3> QED BY <1>1, <2>2
  <2>4. end(ls) = m.edges[k - V]
    BY DEF k
  <2>5. end(ls) = m.edges[i]
    BY <2>3, <2>4
  <2> QED BY <1>1, <2>5 DEF manifest_ok
<1>5. IsFiniteSet(ToSet(names))
  <2> HIDE DEF names
  <2> QED BY <1>1, FiniteLabels
<1> HIDE DEF gt, id, end, V, names
<1>6. Declared(gt)
  BY <1>2, <1>3, <1>4 DEF Declared
<1> QED BY <1>2, <1>5, <1>6 DEF TypeOK, gt
-----------------------------------------------------------------------------
(* The end points of edge types: the graphs, the graphs that are about to  *)
(* be added, and what an import will find on disk.                         *)

HeapTyped == \A o \in Live : TypeOK(heap[o].type)

DirectoryOK(x) ==
    /\ DOMAIN x = {"manifest", "files", "exports", "origin"}
    /\ x.manifest # None => Specs(x.manifest)

DiskTyped ==
    /\ DOMAIN disk = DOMAIN Dumps
    /\ \A d \in DOMAIN disk : DirectoryOK(disk[d])

JobTyped(j) ==
    /\ j.at = "create_graph" => j.q.elements \in Seq(Range(j.q.elements))
    /\ j.at \in {"import", "export", "read"} => j.q.dir \in DOMAIN Dumps
    /\ j.at = "export" => j.q.name \in GraphNames
    /\ j.at = "import" => DOMAIN j = {"at", "q"}
    /\ j.at = "files" => Specs(j.m) /\ manifest_ok(j.m)
    /\ j.at \in Phases => TypeOK(j.type)
    /\ j.at = "add" => TypeOK(j.c.type)

EInv ==
    /\ HeapTyped /\ DiskTyped
    /\ \A s \in Sessions : JobTyped(job[s])

LEMMA IdleTyped == JobTyped(Idle)
  BY DEF JobTyped, Idle, Phases

LEMMA TypedStep ==
  ASSUME CInv, EInv, NEW s \in Sessions, NEW j, job' = [job EXCEPT ![s] = j], JobTyped(j),
         HeapTyped', DiskTyped'
  PROVE  EInv'
<1>1. \A t \in Sessions : job'[t] = IF t = s THEN j ELSE job[t]
  BY DEF CInv
<1> QED BY <1>1 DEF EInv

LEMMA SameHeapTyped == EInv /\ heap' = heap => HeapTyped'
  BY DEF EInv, HeapTyped, Live

LEMMA SameDiskTyped == EInv /\ disk' = disk => DiskTyped'
  BY DEF EInv, DiskTyped

\* A new graph: CREATE GRAPH or add_graph.
LEMMA NewGraphTyped ==
  ASSUME CInv, EInv, NEW c, heap' = Append(heap, c), TypeOK(c.type)
  PROVE  HeapTyped'
<1>1. heap \in Seq(Range(heap))
  BY DEF CInv, HeapOK
<1>2. /\ DOMAIN heap' = DOMAIN heap \cup {Len(heap) + 1} /\ heap'[Len(heap) + 1] = c
      /\ \A i \in DOMAIN heap : heap'[i] = heap[i]
  <2> HIDE DEF Range
  <2> QED BY <1>1, Appended
<1> QED BY <1>2 DEF EInv, HeapTyped, Live

LEMMA AddGraphTyped ==
  ASSUME CInv, EInv, NEW name, NEW c, NEW s \in Sessions, NEW j, add_graph(name, c, <<s, j>>),
         TypeOK(c.type), JobTyped(j), UNCHANGED disk
  PROVE  EInv'
<1>1. CASE graph_map[name] # None
  <2>1. heap' = heap /\ job' = [job EXCEPT ![s] = Idle]
    BY <1>1 DEF add_graph
  <2> QED BY <2>1, IdleTyped, TypedStep, SameHeapTyped, SameDiskTyped
<1>2. CASE graph_map[name] = None
  <2>1. heap' = Append(heap, c) /\ job' = [job EXCEPT ![s] = j]
    BY <1>2 DEF add_graph
  <2>2. HeapTyped'
    BY <2>1, NewGraphTyped
  <2> QED BY <2>1, <2>2, TypedStep, SameDiskTyped
<1> QED BY <1>1, <1>2

\* The graph of object o changes, but not its type.
LEMMA SameTypeTyped ==
  ASSUME CInv, EInv, NEW o, NEW c, heap' = [heap EXCEPT ![o] = c],
         o \in Live => c.type = heap[o].type
  PROVE  HeapTyped'
<1>1. DOMAIN heap' = DOMAIN heap
  OBVIOUS
<1>2. \A i \in DOMAIN heap : heap'[i].type = heap[i].type
  BY DEF Live
<1> QED BY <1>1, <1>2 DEF EInv, HeapTyped, Live

LEMMA IndexKeepsType ==
  ASSUME NEW c, "type" \in DOMAIN c
  PROVE  /\ \A n, k, by : Locked(insert_vector_index(c, n, k), by).type = c.type
         /\ \A k, by : Locked(remove_vector_index(c, k), by).type = c.type
         /\ \A S, by : Locked([c EXCEPT !.vector_indices = S], by).type = c.type
         /\ \A S : [c EXCEPT !.data = S].type = c.type
<1>1. \A n, k : /\ insert_vector_index(c, n, k).type = c.type
                /\ "type" \in DOMAIN insert_vector_index(c, n, k)
  BY DEF insert_vector_index
<1>2. \A k : /\ remove_vector_index(c, k).type = c.type
             /\ "type" \in DOMAIN remove_vector_index(c, k)
  BY DEF remove_vector_index
<1>3. \A S : /\ [c EXCEPT !.vector_indices = S].type = c.type
             /\ "type" \in DOMAIN [c EXCEPT !.vector_indices = S]
  OBVIOUS
<1>4. \A d, by : "type" \in DOMAIN d => Locked(d, by).type = d.type
  BY DEF Locked
<1>5. \A S : [c EXCEPT !.data = S].type = c.type
  OBVIOUS
<1> QED BY <1>1, <1>2, <1>3, <1>4, <1>5

LEMMA TestTypesOK == TypeOK(test_types)
<1> DEFINE vs == <<[label |-> "PERSON", props |-> <<<<"name", "String", FALSE>>,
                      <<"age", "Int8", FALSE>>, <<"embedding", "Vector104", FALSE>>>>],
                   [label |-> "COMPANY", props |-> <<<<"name", "String", FALSE>>,
                      <<"revenue", "Int64", FALSE>>>>],
                   [label |-> "CITY", props |-> <<<<"name", "String", FALSE>>,
                      <<"population", "Int32", FALSE>>, <<"embedding105", "Vector105", FALSE>>>>]>>
           es == <<[label |-> "FRIEND", src_label |-> "PERSON", dst_label |-> "PERSON",
                    props |-> <<<<"distance", "Int32", FALSE>>>>],
                   [label |-> "WORKS_AT", src_label |-> "PERSON", dst_label |-> "COMPANY",
                    props |-> <<<<"since", "Int32", FALSE>>>>],
                   [label |-> "LOCATED_IN", src_label |-> "COMPANY", dst_label |-> "CITY",
                    props |-> <<<<"address", "String", FALSE>>>>]>>
           m == [vertices |-> vs, edges |-> es]
<1>1. test_types = type_from_manifest(m)
  BY DEF test_types
<1>2. DOMAIN m = {"vertices", "edges"} /\ m.vertices = vs /\ m.edges = es
  OBVIOUS
<1>3. /\ DOMAIN vs = 1 .. 3 /\ Len(vs) = 3
      /\ vs[1].label = "PERSON" /\ vs[2].label = "COMPANY" /\ vs[3].label = "CITY"
  OBVIOUS
<1>4. /\ DOMAIN es = 1 .. 3 /\ Len(es) = 3
      /\ es[1].label = "FRIEND" /\ es[1].src_label = "PERSON" /\ es[1].dst_label = "PERSON"
      /\ es[2].label = "WORKS_AT" /\ es[2].src_label = "PERSON" /\ es[2].dst_label = "COMPANY"
      /\ es[3].label = "LOCATED_IN" /\ es[3].src_label = "COMPANY" /\ es[3].dst_label = "CITY"
  OBVIOUS
<1>5. vs \in Seq({vs[1], vs[2], vs[3]}) /\ es \in Seq({es[1], es[2], es[3]})
  OBVIOUS
<1> HIDE DEF vs, es, m
<1>6. Specs(m)
  BY <1>2, <1>5, OverRange DEF Specs
<1>7. manifest_ok(m)
  <2> DEFINE a == [i \in 1 .. 3 |-> vs[i].label]
             b == [i \in 1 .. 3 |-> es[i].label]
  <2>1. manifest_labels(m) = a \o b
    BY <1>2, <1>3, <1>4 DEF manifest_labels
  <2>2. /\ a = <<"PERSON", "COMPANY", "CITY">> /\ b = <<"FRIEND", "WORKS_AT", "LOCATED_IN">>
    BY <1>3, <1>4
  <2> DEFINE T == {"PERSON", "COMPANY", "CITY", "FRIEND", "WORKS_AT", "LOCATED_IN"}
  <2>9. a \in Seq(T) /\ b \in Seq(T)
    BY <2>2
  <2> HIDE DEF a, b, T
  <2>3. /\ Len(a) = 3 /\ Len(b) = 3
        /\ a[1] = "PERSON" /\ a[2] = "COMPANY" /\ a[3] = "CITY"
        /\ b[1] = "FRIEND" /\ b[2] = "WORKS_AT" /\ b[3] = "LOCATED_IN"
    BY <2>2
  <2> DEFINE c == a \o b
  <2>4. DOMAIN c = 1 .. 6 /\ \A i \in 1 .. 6 : c[i] = IF i <= 3 THEN a[i] ELSE b[i - 3]
    <3>1. c \in Seq(T) /\ Len(c) = Len(a) + Len(b)
      BY <2>9, ConcatProperties
    <3>2. \A i \in 1 .. Len(a) + Len(b) : c[i] = IF i <= Len(a) THEN a[i] ELSE b[i - Len(a)]
      BY <2>9, ConcatProperties
    <3> HIDE DEF c
    <3>3. DOMAIN c = 1 .. 6
      BY <2>3, <3>1, LenProperties
    <3> QED BY <2>3, <3>2, <3>3
  <2> HIDE DEF c
  <2>6. /\ c[1] = "PERSON" /\ c[2] = "COMPANY" /\ c[3] = "CITY"
        /\ c[4] = "FRIEND" /\ c[5] = "WORKS_AT" /\ c[6] = "LOCATED_IN"
    BY <2>3, <2>4
  <2>7. \A i, j \in 1 .. 6 : c[i] = c[j] => i = j
    BY <2>6
  <2>8. IsInjective(manifest_labels(m))
    BY <2>1, <2>4, <2>7 DEF IsInjective, c
  <2>5. ASSUME NEW i \in 1 .. 3
        PROVE {es[i].src_label, es[i].dst_label} \subseteq {vs[j].label : j \in 1 .. 3}
    BY <1>3, <1>4
  <2> QED BY <1>2, <1>3, <1>4, <2>5, <2>8 DEF manifest_ok
<1> QED BY <1>1, <1>6, <1>7, ManifestTypeOK

\* What an export writes has a manifest with two lists.
LEMMA ExportSpecs ==
  ASSUME NEW gt, TypeOK(gt), NEW d \in manifests(gt)
  PROVE  Specs(d)
<1> DEFINE V == vertex_labels(gt)
           E == edge_labels(gt)
<1>1. PICK vs \in HashOrders(V), es \in HashOrders(E) :
         d = [vertices |-> [i \in DOMAIN vs |-> vertex_spec(gt, vs[i])],
              edges    |-> [i \in DOMAIN es |-> edge_spec(gt, es[i])]]
  BY DEF manifests
<1> DEFINE x == [i \in DOMAIN vs |-> vertex_spec(gt, vs[i])]
           y == [i \in DOMAIN es |-> edge_spec(gt, es[i])]
<1>2. Cardinality(V) \in Nat /\ Cardinality(E) \in Nat
  <2>1. V \in SUBSET DOMAIN gt.label_map /\ E \in SUBSET DOMAIN gt.label_map
    BY DEF vertex_labels, edge_labels
  <2>2. IsFiniteSet(V) /\ IsFiniteSet(E)
    <3> HIDE DEF V, E
    <3> QED BY <2>1, FS_Subset DEF TypeOK
  <2> HIDE DEF V, E
  <2> QED BY <2>2, FS_CardinalityType
<1>3. DOMAIN vs = 1 .. Cardinality(V) /\ DOMAIN es = 1 .. Cardinality(E)
  BY DEF HashOrders
<1>4. \A f, n : n \in Nat /\ f = [i \in 1 .. n |-> f[i]] => f \in Seq(Range(f))
  <2> TAKE f, n
  <2> HAVE n \in Nat /\ f = [i \in 1 .. n |-> f[i]]
  <2>1. \A i \in 1 .. n : f[i] \in Range(f)
    BY DEF Range
  <2> HIDE DEF Range
  <2>2. [i \in 1 .. n |-> f[i]] \in Seq(Range(f))
    BY <2>1
  <2> QED BY <2>2
<1>5. x \in Seq(Range(x)) /\ y \in Seq(Range(y))
  <2>1. x = [i \in 1 .. Cardinality(V) |-> x[i]] /\ y = [i \in 1 .. Cardinality(E) |-> y[i]]
    BY <1>3
  <2> HIDE DEF x, y, V, E
  <2> QED BY <1>2, <1>4, <2>1
<1>6. d.vertices = x /\ d.edges = y
  <2> HIDE DEF V, E
  <2> QED BY <1>1
<1> HIDE DEF x, y
<1> QED BY <1>5, <1>6 DEF Specs

LEMMA ExportedGraph ==
  ASSUME CInv, HeapTyped, NEW n \in GraphNames, graph_map[n] # None
  PROVE  TypeOK(heap[graph_map[n]].type)
  BY DEF CInv, NamesOK, HeapTyped

LEMMA ContainerHasType ==
  ASSUME CInv, NEW o \in Live
  PROVE  "type" \in DOMAIN heap[o]
  BY DEF CInv, HeapOK, ContainerOK, Fields

\* Steps that change neither a graph nor the disk.
LEMMA QuietTyped ==
  ASSUME CInv, EInv, NEW s \in Sessions, NEW j, job' = [job EXCEPT ![s] = j], JobTyped(j),
         UNCHANGED <<heap, disk>>
  PROVE  EInv'
  BY TypedStep, SameHeapTyped, SameDiskTyped

LEMMA StatementTyped ==
  ASSUME CInv, EInv, NEW s \in Sessions, NEW q \in Statements, query(s, q)
  PROVE  EInv'
<1> DEFINE j == [at |-> q.stmt, q |-> q]
<1>1. job' = [job EXCEPT ![s] = j] /\ UNCHANGED <<heap, disk>>
  BY DEF query
<1>2. j.at = q.stmt /\ j.q = q /\ DOMAIN j = {"at", "q"}
  OBVIOUS
<1>3. /\ q.stmt \in StatementKinds
      /\ q.stmt = "create_graph" => q.elements \in Seq(Range(q.elements))
      /\ q.stmt \in {"import", "export"} => q.name \in GraphNames /\ q.dir \in DOMAIN Dumps
  BY CatalogAssumption
<1> HIDE DEF j
<1>4. JobTyped(j)
  BY <1>2, <1>3 DEF JobTyped, StatementKinds, Phases
<1> QED BY <1>1, <1>4, QuietTyped

\* The steps that make a graph.
LEMMA NewGraphSteps ==
  ASSUME CInv, EInv, NEW s \in Sessions,
         create_graph(s) \/ create_test_graph(s) \/ create_test_graph_data(s) \/ import_add(s)
  PROVE  EInv'
<1>0. JobTyped(job[s]) /\ \A type, data, origin : Container(type, data, origin).type = type
  BY DEF EInv, Container
<1>1. CASE create_graph(s)
  <2> DEFINE q == job[s].q
             gt == populate_graph_type(q.elements)
  <2>1. job[s].at = "create_graph" /\ job' = [job EXCEPT ![s] = Idle] /\ disk' = disk
    BY <1>1 DEF create_graph, Done
  <2>2. heap' = heap \/ (gt # Failed /\ heap' = Append(heap, Container(gt, NoData, None)))
    BY <1>1 DEF create_graph
  <2>3. TypeOrFailed(gt)
    BY <1>0, <2>1, PopulateOK DEF JobTyped
  <2>4. HeapTyped'
    <3>1. CASE heap' = heap
      BY <3>1, SameHeapTyped
    <3>2. CASE heap' # heap
      BY <1>0, <2>2, <2>3, <3>2, NewGraphTyped DEF TypeOrFailed
    <3> QED BY <3>1, <3>2
  <2> QED BY <2>1, <2>4, IdleTyped, TypedStep, SameDiskTyped
<1>2. CASE create_test_graph(s)
  <2>1. /\ add_graph(job[s].q.name, Container(NewType, NoData, None), <<s, Idle>>)
        /\ UNCHANGED disk
    BY <1>2 DEF create_test_graph
  <2> QED BY <1>0, <2>1, NewTypeOK, IdleTyped, AddGraphTyped
<1>3. CASE create_test_graph_data(s)
  <2> DEFINE j == [at |-> "load", o |-> New, n |-> job[s].q.n]
  <2>1. /\ add_graph(job[s].q.name, Container(test_types, NoData, None), <<s, j>>)
        /\ UNCHANGED disk
    BY <1>3 DEF create_test_graph_data
  <2>2. JobTyped(j)
    BY DEF JobTyped, Phases
  <2> HIDE DEF j
  <2> QED BY <1>0, <2>1, <2>2, TestTypesOK, AddGraphTyped
<1>4. CASE import_add(s)
  <2>1. add_graph(job[s].name, job[s].c, <<s, Idle>>) /\ UNCHANGED disk /\ job[s].at = "add"
    BY <1>4 DEF import_add
  <2>2. TypeOK(job[s].c.type)
    BY <1>0, <2>1 DEF JobTyped
  <2> QED BY <2>1, <2>2, IdleTyped, AddGraphTyped
<1> QED BY <1>1, <1>2, <1>3, <1>4

\* Reading a directory, and writing one.
LEMMA ImportSteps ==
  ASSUME CInv, EInv, NEW s \in Sessions, import_check(s) \/ import_manifest(s) \/ import_file(s)
  PROVE  EInv'
<1>0. JobTyped(job[s]) /\ "at" \in DOMAIN job[s]
  BY DEF EInv, CInv, JobOK
<1>1. CASE import_check(s)
  <2> DEFINE j == IF graph_map[job[s].q.name] # None THEN Idle ELSE [job[s] EXCEPT !.at = "read"]
  <2>1. job[s].at = "import" /\ job' = [job EXCEPT ![s] = j] /\ UNCHANGED <<heap, disk>>
    BY <1>1 DEF import_check
  <2>2. JobTyped(j)
    BY <1>0, <2>1, IdleTyped DEF JobTyped, Phases
  <2> HIDE DEF j
  <2> QED BY <2>1, <2>2, QuietTyped
<1>2. CASE import_manifest(s) \/ import_file(s)
  <2>1. UNCHANGED <<heap, disk>>
    BY <1>2, ReadSteps
  <2>2. CASE job' = [job EXCEPT ![s] = Idle]
    BY <2>1, <2>2, IdleTyped, QuietTyped
  <2>3. CASE job' # [job EXCEPT ![s] = Idle]
    <3>1. PICK j : /\ job' = [job EXCEPT ![s] = Reading(j)] /\ DOMAIN j = ReadFields
                   /\ j.at = "files"
                   /\ \/ /\ job[s].at = "read" /\ j.m = disk[job[s].q.dir].manifest
                         /\ j.m # None /\ manifest_ok(j.m)
                      \/ job[s].at = "files" /\ j.m = job[s].m
      BY <1>2, <2>3, ReadSteps
    <3>2. Specs(j.m) /\ manifest_ok(j.m)
      <4>1. CASE job[s].at = "read"
        <5>1. job[s].q.dir \in DOMAIN disk /\ DirectoryOK(disk[job[s].q.dir])
          BY <1>0, <4>1 DEF EInv, DiskTyped, JobTyped
        <5>2. j.m = disk[job[s].q.dir].manifest /\ j.m # None /\ manifest_ok(j.m)
          BY <3>1, <4>1
        <5> QED BY <5>1, <5>2 DEF DirectoryOK
      <4>2. CASE job[s].at = "files"
        BY <1>0, <3>1, <4>2 DEF JobTyped
      <4> QED BY <3>1, <4>1, <4>2
    <3>3. TypeOK(type_from_manifest(j.m))
      BY <3>2, ManifestTypeOK
    <3>4. \A data, o : JobTyped([at |-> "add", name |-> j.name,
                                 c |-> Container(type_from_manifest(j.m), data, o)])
      BY <3>3 DEF JobTyped, Phases, Container
    <3>5. JobTyped(j)
      BY <3>1, <3>2 DEF JobTyped, Phases
    <3>6. JobTyped(Reading(j))
      BY <3>1, <3>4, <3>5, ReadingJob
    <3> QED BY <2>1, <3>1, <3>6, QuietTyped
  <2> QED BY <2>2, <2>3
<1> QED BY <1>1, <1>2

\* A change of a directory leaves it a manifest that an import can use, or none.
LEMMA DirectoryUpdate ==
  ASSUME EInv, NEW d, NEW x, disk' = [disk EXCEPT ![d] = x],
         d \in DOMAIN disk => DirectoryOK(x)
  PROVE  DiskTyped'
  BY DEF EInv, DiskTyped

LEMMA FieldUpdate ==
  ASSUME NEW d, DirectoryOK(d), NEW x
  PROVE  /\ DirectoryOK([d EXCEPT !.files = x]) /\ DirectoryOK([d EXCEPT !.origin = x])
         /\ x = None \/ Specs(x) => DirectoryOK([d EXCEPT !.manifest = x])
         /\ \A n : DirectoryOK([d EXCEPT !.origin = x, !.exports = n])
<1>1. /\ DOMAIN [d EXCEPT !.files = x] = DOMAIN d /\ [d EXCEPT !.files = x].manifest = d.manifest
      /\ DOMAIN [d EXCEPT !.origin = x] = DOMAIN d /\ [d EXCEPT !.origin = x].manifest = d.manifest
  BY DEF DirectoryOK
<1>2. DOMAIN [d EXCEPT !.manifest = x] = DOMAIN d /\ [d EXCEPT !.manifest = x].manifest = x
  BY DEF DirectoryOK
<1>3. \A n : /\ DOMAIN [d EXCEPT !.origin = x, !.exports = n] = DOMAIN d
             /\ [d EXCEPT !.origin = x, !.exports = n].manifest = d.manifest
  BY DEF DirectoryOK
<1> QED BY <1>1, <1>2, <1>3 DEF DirectoryOK

LEMMA ExportSteps ==
  ASSUME CInv, EInv, NEW s \in Sessions,
         \/ export(s) \/ export_open(s) \/ export_dump(s) \/ export_manifest(s)
         \/ export_describe(s) \/ export_drop(s)
  PROVE  EInv'
<1>0. JobTyped(job[s]) /\ \A d \in DOMAIN disk : DirectoryOK(disk[d])
  BY DEF EInv, DiskTyped
<1>1. CASE export(s)
  <2> DEFINE q == job[s].q
             c == heap[graph_map[q.name]]
             d == [disk[q.dir] EXCEPT !.origin = None, !.exports = disk[q.dir].exports + 1]
  <2>1. job[s].at = "export" /\ heap' = heap
    BY <1>1, ExportStart
  <2>2. \/ disk' = disk /\ job' = [job EXCEPT ![s] = Idle]
        \/ /\ graph_map[q.name] # None
           /\ disk' = [disk EXCEPT ![q.dir].origin = None, ![q.dir].exports = @ + 1]
           /\ \E j : /\ job' = [job EXCEPT ![s] = j] /\ DOMAIN j = WriteFields
                    /\ j.at = "export_files" /\ j.type = c.type
    BY <1>1, ExportStart
  <2>3. CASE disk' = disk /\ job' = [job EXCEPT ![s] = Idle]
    BY <2>1, <2>3, IdleTyped, QuietTyped
  <2>4. CASE disk' # disk \/ job' # [job EXCEPT ![s] = Idle]
    <3>1. TypeOK(c.type)
      <4>1. graph_map[q.name] # None /\ q.name \in GraphNames
        BY <1>0, <2>1, <2>2, <2>4 DEF JobTyped
      <4> QED BY <4>1, ExportedGraph DEF EInv
    <3>2. disk' = [disk EXCEPT ![q.dir] = d]
      <4>1. disk' = [disk EXCEPT ![q.dir].origin = None, ![q.dir].exports = @ + 1]
        BY <2>2, <2>4
      <4> QED BY <4>1
    <3>3. DiskTyped'
      BY <1>0, <3>2, FieldUpdate, DirectoryUpdate
    <3>4. PICK j : job' = [job EXCEPT ![s] = j] /\ j.at = "export_files" /\ j.type = c.type
      BY <2>2, <2>4
    <3> HIDE DEF c, q
    <3>5. JobTyped(j)
      BY <3>1, <3>4 DEF JobTyped, Phases
    <3> QED BY <2>1, <3>3, <3>4, <3>5, SameHeapTyped, TypedStep
  <2> QED BY <2>3, <2>4
<1>2. CASE \/ export_open(s) \/ export_dump(s) \/ export_manifest(s)
           \/ export_describe(s) \/ export_drop(s)
  <2> DEFINE i == job[s]
             d == disk[i.dir]
  <2>1. heap' = heap /\ TypeOK(i.type)
    BY <1>0, <1>2, WriteSteps DEF JobTyped
  <2>2. PICK j : job' = [job EXCEPT ![s] = j] /\ JobTyped(j)
    <3>1. \A j : j.at \in Phases /\ j.type = i.type => JobTyped(j)
      <4> HIDE DEF i
      <4> QED BY <2>1 DEF JobTyped, Phases
    <3> QED BY <1>2, <3>1, WriteSteps, IdleTyped
  <2>3. \/ disk' = disk
        \/ \E x : disk' = [disk EXCEPT ![i.dir] = [d EXCEPT !.files = x]]
        \/ \E x : disk' = [disk EXCEPT ![i.dir] = [d EXCEPT !.origin = x]]
        \/ \E x : /\ x = None \/ Specs(x)
                 /\ disk' = [disk EXCEPT ![i.dir] = [d EXCEPT !.manifest = x]]
    <3>1. ASSUME NEW l, NEW n, Flush(s, l, n)
          PROVE  \E x : disk' = [disk EXCEPT ![i.dir] = [d EXCEPT !.files = x]]
      BY <3>1, Zenon DEF Flush
    <3>2. CASE export_open(s)
      BY <3>2, Zenon DEF export_open
    <3>3. CASE export_dump(s)
      BY <3>1, <3>3, Zenon DEF export_dump
    <3>4. CASE export_manifest(s)
      BY <3>4, Zenon DEF export_manifest
    <3>5. CASE export_describe(s)
      <4>1. PICK m \in manifests(i.type) : disk' = [disk EXCEPT ![i.dir].manifest = m]
        BY <3>5, Zenon DEF export_describe
      <4>2. Specs(m)
        BY <2>1, ExportSpecs
      <4> QED BY <4>1, <4>2
    <3>6. CASE export_drop(s)
      BY <3>1, <3>6, Zenon DEF export_drop
    <3> QED BY <1>2, <3>2, <3>3, <3>4, <3>5, <3>6
  <2>4. DiskTyped'
    <3>1. CASE disk' = disk
      BY <3>1, SameDiskTyped
    <3>2. CASE disk' # disk
      <4>1. PICK x : /\ disk' = [disk EXCEPT ![i.dir] = x]
                     /\ i.dir \in DOMAIN disk => DirectoryOK(x)
        BY <1>0, <2>3, <3>2, FieldUpdate
      <4> QED BY <4>1, DirectoryUpdate
    <3> QED BY <3>1, <3>2
  <2> QED BY <2>1, <2>2, <2>4, SameHeapTyped, TypedStep
<1> QED BY <1>1, <1>2

\* Everything else keeps the types of the graphs and the directories.
LEMMA OtherSteps ==
  ASSUME CInv, EInv, NEW s \in Sessions,
         \/ session_set_graph(s) \/ session_reset(s) \/ drop_graph(s) \/ load_test_data(s)
         \/ bind_create_index(s) \/ create_index_insert(s) \/ create_index_build(s)
         \/ bind_drop_index(s) \/ drop_index_remove(s) \/ drop_index_delete(s)
  PROVE  EInv'
<1> DEFINE j == job[s]
           c == heap[j.o]
<1>0. JobTyped(j) /\ "at" \in DOMAIN j /\ JobOK(j, s, heap)
  BY DEF EInv, CInv, JobOK
<1>1. CASE session_set_graph(s)
  <2> DEFINE i == [j EXCEPT !.q.graphs = Tail(j.q.graphs)]
  <2>1. /\ j.at = "set" /\ UNCHANGED <<heap, disk>>
        /\ job' = [job EXCEPT ![s] = i] \/ job' = [job EXCEPT ![s] = Idle]
    BY <1>1, Zenon DEF session_set_graph
  <2>2. i.at = "set"
    BY <1>0, <2>1 DEF JobOK
  <2>3. JobTyped(i)
    BY <2>2 DEF JobTyped, Phases
  <2> HIDE DEF i
  <2> QED BY <2>1, <2>3, IdleTyped, QuietTyped
<1>2. CASE session_reset(s) \/ drop_graph(s)
  <2>1. job' = [job EXCEPT ![s] = Idle] /\ UNCHANGED <<heap, disk>>
    BY <1>2, Zenon DEF session_reset, drop_graph, Done
  <2>2. UNCHANGED <<heap, disk>>
    BY <2>1
  <2> QED BY <2>1, <2>2, IdleTyped, QuietTyped
<1>3. CASE bind_create_index(s)
  <2>1. /\ \E o, name, key :
              job' = [job EXCEPT ![s] = [at |-> "create_index_exec", o |-> o, name |-> name, key |-> key]]
           \/ job' = [job EXCEPT ![s] = Idle]
        /\ UNCHANGED <<heap, disk>>
    BY <1>3, Zenon DEF bind_create_index
  <2>2. \A o, name, key :
           JobTyped([at |-> "create_index_exec", o |-> o, name |-> name, key |-> key])
    BY DEF JobTyped, Phases
  <2>3. PICK i : job' = [job EXCEPT ![s] = i] /\ JobTyped(i)
    BY <2>1, <2>2, IdleTyped
  <2>4. UNCHANGED <<heap, disk>>
    BY <2>1
  <2> QED BY <2>3, <2>4, QuietTyped
<1>4. CASE bind_drop_index(s)
  <2>1. PICK i : /\ i = Idle \/ i.at = "drop_index_exec"
                 /\ job' = [job EXCEPT ![s] = i] /\ UNCHANGED <<heap, disk>>
    BY <1>4 DEF bind_drop_index
  <2>2. JobTyped(i)
    BY <2>1, IdleTyped DEF JobTyped, Phases
  <2> QED BY <2>1, <2>2, QuietTyped
<1>5. ASSUME NEW at, at \in {"build", "delete"}, j.at \in {"create_index_exec", "drop_index_exec"}
      PROVE  JobTyped([j EXCEPT !.at = at])
  BY <1>0, <1>5 DEF JobTyped, Phases
<1>6. CASE load_test_data(s) \/ create_index_insert(s) \/ create_index_build(s)
           \/ drop_index_remove(s) \/ drop_index_delete(s)
  <2>1. \/ heap' = heap
        \/ heap' = [heap EXCEPT ![j.o].data = test_data(j.n)]
        \/ heap' = [heap EXCEPT ![j.o] = Locked(insert_vector_index(c, j.name, j.key), s)]
        \/ heap' = [heap EXCEPT ![j.o] = Locked(remove_vector_index(c, j.key), s)]
        \/ heap' = [heap EXCEPT ![j.o] = Locked(remove_vector_index(c, j.key), None)]
        \/ heap' = [heap EXCEPT ![j.o] =
                      Locked([c EXCEPT !.vector_indices = c.vector_indices \cup {j.key}], None)]
        \/ heap' = [heap EXCEPT ![j.o] =
                      Locked([c EXCEPT !.vector_indices = c.vector_indices \ {j.key}], None)]
    BY <1>6, Zenon DEF load_test_data, create_index_insert, create_index_build, drop_index_remove,
       drop_index_delete
  <2>2. /\ disk' = disk
        /\ \/ job' = [job EXCEPT ![s] = Idle]
           \/ /\ j.at = "create_index_exec" /\ job' = [job EXCEPT ![s].at = "build"]
           \/ /\ j.at = "drop_index_exec" /\ job' = [job EXCEPT ![s].at = "delete"]
    BY <1>6, Zenon DEF load_test_data, create_index_insert, create_index_build, drop_index_remove,
       drop_index_delete, Done
  <2>3. HeapTyped'
    <3>1. j.o \in Live => "type" \in DOMAIN c
      BY ContainerHasType
    <3>2. CASE heap' = heap
      BY <3>2, SameHeapTyped
    <3>3. CASE heap' # heap
      <4>1. PICK d : heap' = [heap EXCEPT ![j.o] = d] /\ (j.o \in Live => d.type = c.type)
        <5> HIDE DEF c, j
        <5>1. CASE heap' = [heap EXCEPT ![j.o].data = test_data(j.n)]
          BY <3>1, <5>1, IndexKeepsType DEF c
        <5>2. CASE heap' = [heap EXCEPT ![j.o] = Locked(insert_vector_index(c, j.name, j.key), s)]
          <6>1. j.o \in Live => Locked(insert_vector_index(c, j.name, j.key), s).type = c.type
            BY <3>1, IndexKeepsType
          <6> QED BY <5>2, <6>1
        <5>3. ASSUME NEW by, heap' = [heap EXCEPT ![j.o] = Locked(remove_vector_index(c, j.key), by)]
              PROVE  \E d : heap' = [heap EXCEPT ![j.o] = d] /\ (j.o \in Live => d.type = c.type)
          <6>1. j.o \in Live => Locked(remove_vector_index(c, j.key), by).type = c.type
            BY <3>1, IndexKeepsType
          <6> QED BY <5>3, <6>1
        <5>4. ASSUME NEW S, heap' = [heap EXCEPT ![j.o] = Locked([c EXCEPT !.vector_indices = S], None)]
              PROVE  \E d : heap' = [heap EXCEPT ![j.o] = d] /\ (j.o \in Live => d.type = c.type)
          <6>1. j.o \in Live => Locked([c EXCEPT !.vector_indices = S], None).type = c.type
            BY <3>1, IndexKeepsType
          <6> QED BY <5>4, <6>1
        <5> QED BY <2>1, <3>3, <5>1, <5>2, <5>3, <5>4
      <4> QED BY <4>1, SameTypeTyped
    <3> QED BY <3>2, <3>3
  <2>4. PICK i : job' = [job EXCEPT ![s] = i] /\ JobTyped(i)
    BY <1>5, <2>2, IdleTyped
  <2> QED BY <2>2, <2>3, <2>4, TypedStep, SameDiskTyped
<1> QED BY <1>1, <1>2, <1>3, <1>4, <1>6

LEMMA InitEInv == Init => EInv
<1> SUFFICES ASSUME Init PROVE EInv
  OBVIOUS
<1>1. HeapTyped
  BY DEF Init, HeapTyped, Live
<1>2. DiskTyped
  <2>1. \A d \in DOMAIN Dumps : Dumps[d].manifest # None => Specs(Dumps[d].manifest)
    BY CatalogAssumption DEF Specs
  <2>2. \A m, files : /\ DOMAIN Directory(m, files) = {"manifest", "files", "exports", "origin"}
                      /\ Directory(m, files).manifest = m
    BY DEF Directory
  <2> QED BY <2>1, <2>2 DEF Init, DiskTyped, DirectoryOK
<1>3. \A s \in Sessions : JobTyped(job[s])
  BY IdleTyped DEF Init
<1> QED BY <1>1, <1>2, <1>3 DEF EInv

LEMMA NextEInv == CInv /\ EInv /\ [Next]_vars => EInv'
<1> SUFFICES ASSUME CInv, EInv, [Next]_vars PROVE EInv'
  OBVIOUS
<1>1. CASE UNCHANGED vars
  <2>1. UNCHANGED <<heap, disk, job>>
    BY <1>1 DEF vars
  <2> QED BY <2>1, SameHeapTyped, SameDiskTyped DEF EInv
<1>2. ASSUME NEW s \in Sessions, Step(s) PROVE EInv'
  BY <1>2, NewGraphSteps, ImportSteps, ExportSteps, OtherSteps DEF Step
<1>3. ASSUME NEW s \in Sessions, NEW q \in Statements, query(s, q) PROVE EInv'
  BY <1>3, StatementTyped
<1> QED BY <1>1, <1>2, <1>3 DEF Next

\* The end points of every edge type are vertex types of the same graph, for
\* every nested type of CREATE GRAPH and every manifest: the placeholder of
\* resolve_vertex_type_from_node_ref is there before the edge type that needs
\* it, and an import whose manifest names an unknown end gives no graph.
THEOREM EndpointsAreDeclared == Spec => []EndpointsDeclared
<1>1. EInv => EndpointsDeclared
  BY DEF EInv, HeapTyped, TypeOK, Declared, EndpointsDeclared
<1> QED BY <1>1, InitCInv, NextCInv, InitEInv, NextEInv, PTL DEF Spec
=============================================================================
