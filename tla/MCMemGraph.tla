----------------------------- MODULE MCMemGraph -----------------------------
(* Values for the constants of MemGraph.                                     *)
EXTENDS MemGraphSI

CONSTANTS v1, v2, e1

AllPessimistic == [t \in Txns |-> "Pessimistic"]
AllOptimistic == [t \in Txns |-> "Optimistic"]
Mixed == [t \in Txns |-> IF t % 2 = 1 THEN "Pessimistic" ELSE "Optimistic"]
FirstPessimistic == [t \in Txns |-> IF t = 1 THEN "Pessimistic" ELSE "Optimistic"]
AllSnapshot == [t \in Txns |-> "Snapshot"]
AllSerializable == [t \in Txns |-> "Serializable"]

\* The one edge runs from v1 to v2.
SrcV1 == [e \in Edges |-> v1]
DstV2 == [e \in Edges |-> v2]
=============================================================================
