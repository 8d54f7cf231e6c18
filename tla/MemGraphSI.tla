----------------------------- MODULE MemGraphSI -----------------------------
(***************************************************************************)
(* The version store implements snapshot isolation for clients whose calls *)
(* do not overlap in time: the refinement mapping from MemGraph's heads,   *)
(* chains and write intents to SnapshotIsolation's committed graph and     *)
(* private views.  Nothing is added to the state of MemGraph.              *)
(***************************************************************************)
EXTENDS MemGraph

\* A deleted record is a deleted record, whatever data its tombstone keeps.
Plain(img) == IF img.tomb THEN NoImage ELSE img

\* The transaction whose unfinished write a head shows, if any.
Writers(r) == {t \in Txns : \/ head[r].cts = TxnId(t)
                            \/ pc[t] = "promote" /\ head[r].cts = cts[t]}

\* The image below the entries of the writer on top of the chain.
Beneath(r, t) ==
    LET n == Len(chain[r])
    IN  Replay(ImageOf(head[r]), chain[r],
               Min({n + 1} \cup {i \in 1 .. n : \A j \in i .. n : chain[r][j].own = t}))

Committed(r) ==
    IF r \notin present THEN NoImage
    ELSE IF Writers(r) = {} THEN Plain(ImageOf(head[r]))
    ELSE Plain(Beneath(r, CHOOSE t \in Writers(r) : TRUE))

\* While a commit gives its records their timestamp, what it wrote is the head.
View(t, r) ==
    IF pc[t] = "promote" /\ r \in present /\ head[r].cts = cts[t] THEN Plain(ImageOf(head[r]))
    ELSE Plain(Read(t, r))

Open(t) == pc[t] \in {"ts", "run", "create", "delete", "commit", "apply", "promote"}
Stale(t) == UNION {wrote[u] : u \in {x \in Txns \ {t} : cts[x] > start[t]}}

SI == INSTANCE SnapshotIsolation WITH
    Keys <- Records,
    Image <- Image,
    db <- [r \in Records |-> Committed(r)],
    phase <- [t \in Txns |-> CASE pc[t] \in {"new", "id"} -> "new"
                               [] Open(t) -> "open"
                               [] pc[t] = "committed" -> "committed"
                               [] OTHER -> "aborted"],
    view <- [t \in Txns |-> IF Open(t) THEN [r \in Records |-> View(t, r)] ELSE <<>>],
    dirty <- [t \in Txns |-> IF Open(t) THEN Touched(t) ELSE {}],
    stale <- [t \in Txns |-> IF Open(t) THEN Stale(t) ELSE {}]

(* Every behaviour of the store, seen through the mapping, is one of         *)
(* SnapshotIsolation: reads come from the snapshot taken at begin or from    *)
(* the transaction's own writes, commits are atomic and first-committer-     *)
(* wins, aborts and garbage collection change nothing anyone can see.        *)
ImplementsSnapshotIsolation == SI!Spec
=============================================================================
