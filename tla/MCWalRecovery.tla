--------------------------- MODULE MCWalRecovery ---------------------------
(* Instances of WalRecovery for TLC. *)
EXTENDS WalRecovery

CONSTANTS a, b
=============================================================================
