---------------------------- MODULE MCOlapGraph ----------------------------
(* Instances of OlapReaders for TLC. *)
EXTENDS OlapReaders
=============================================================================
