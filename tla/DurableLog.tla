---------------------------- MODULE DurableLog ----------------------------
(***************************************************************************)
(* What the persistence layer promises (tp/persistence.rs,                 *)
(* PersistenceProvider): a snapshot and a log of entries behind it that    *)
(* survive crashes.  There is no crash in this module: it changes nothing. *)
(***************************************************************************)
EXTENDS Integers, Sequences, Functions

CONSTANTS
    Snapshots,  \* checkpoints
    NoSnapshot, \* the database has no checkpoint yet
    Lsns        \* log sequence numbers

VARIABLES
    snap,   \* the last checkpoint written
    log     \* LSNs of the entries behind it, as appended

vars == <<snap, log>>

Init == snap = NoSnapshot /\ log = <<>>

append_wal(n) == log' = Append(log, n) /\ UNCHANGED snap

write_checkpoint(c) == snap' = c /\ log' = <<>>

\* new holds the entries of old from n on, in the order of their LSNs.
Truncation(old, new, n) ==
    /\ Range(new) = {m \in Range(old) : m >= n}
    /\ \A i, j \in DOMAIN new : i < j => new[i] < new[j]

truncate_wal_until(n) == Truncation(log, log', n) /\ UNCHANGED snap

Next ==
    \/ \E n \in Lsns : append_wal(n) \/ truncate_wal_until(n)
    \/ \E c \in Snapshots : write_checkpoint(c)

Spec == Init /\ [][Next]_vars
=============================================================================
