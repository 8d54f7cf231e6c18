---------------------------- MODULE MCTimestamps ----------------------------
(* Two threads on both generators, with a ten-value u64.                     *)
EXTENDS Timestamps
=============================================================================
