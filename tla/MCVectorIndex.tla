--------------------------- MODULE MCVectorIndex ---------------------------
(***************************************************************************)
(* Small instances of VectorIndex: graphs of up to four nodes with at      *)
(* least two vectors, some of them equal, so that the medoid is the first  *)
(* slot in some (the build fails) and not in others; batches of one and    *)
(* two nodes, so that the capacity (twice the vectors built over) is hit   *)
(* by a batch that would partly fit.                                       *)
(***************************************************************************)
EXTENDS VectorIndex

NodesC == 1..4
PointsC == {<<0, 0>>, <<1, 0>>, <<3, 1>>}
BatchesC == {<<1>>, <<2>>, <<4>>, <<4, 3>>}
LayoutsC == {f \in [NodesC -> PointsC \cup {NoVector}] :
                /\ f[1] \in {<<0, 0>>, <<1, 0>>} /\ f[2] = <<1, 0>>
                /\ f[3] # <<0, 0>> /\ f[4] = NoVector}
WritesC == {<<1, NoVector>>, <<4, <<3, 1>>>>}
=============================================================================
