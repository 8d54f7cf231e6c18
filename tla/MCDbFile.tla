------------------------------ MODULE MCDbFile ------------------------------
(* Instances of DbFile for TLC: a checkpoint of one block and one of two. *)
EXTENDS DbFile

CONSTANTS c1, c2, none
SizeC == [c \in Snapshots |-> IF c = c1 THEN 1 ELSE 2]
=============================================================================
