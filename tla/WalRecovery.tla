---------------------------- MODULE WalRecovery ----------------------------
(***************************************************************************)
(* The write-ahead log, the checkpoint and recovery of MemoryGraph:        *)
(* tp/memory_graph.rs (recover, apply_wal_entries, create_checkpoint),     *)
(* tp/checkpoint.rs (GraphCheckpoint), the parts of tp/transaction.rs and  *)
(* tp/txn_manager.rs that write the log, and db_file_persistence.rs.       *)
(*                                                                         *)
(* A record is a cell: its current data and commit_ts, which is the id of  *)
(* the writing transaction while it is uncommitted, and the version under  *)
(* it.  A transaction writes a record at most once (MemGraph has the rest  *)
(* of the version chain).  An append of the log is durable when it returns *)
(* and a checkpoint is written in one step: DbFile opens these two.  A     *)
(* crash loses everything but disk; the generators of timestamps and ids   *)
(* are globals of the process and start again.                             *)
(***************************************************************************)
EXTENDS Integers, Sequences, FiniteSetsExt, SequencesExt

CONSTANTS
    MaxTxn,         \* bound on the transactions clients run, numbered as they begin
    Keys,           \* vertex ids
    Vals,           \* property values
    Stored,         \* records that exist at first
    TXN_ID_START,   \* from here on a timestamp is a transaction id
    wal_threshold,  \* CheckpointConfig: log entries between automatic checkpoints
    MaxWrites,      \* bound on the writes of a transaction
    MaxCrashes,     \* bound on crashes
    Overlap,        \* may a transaction begin while another one runs?
    BlindWrites     \* may a client write a record that it cannot see?

ASSUME RecoveryAssumption ==
    /\ MaxTxn \in Nat /\ TXN_ID_START \in Nat /\ wal_threshold \in Nat /\ MaxWrites \in Nat /\ MaxCrashes \in Nat
    /\ TXN_ID_START > 2 * MaxTxn
    /\ {Overlap, BlindWrites} \subseteq BOOLEAN /\ Stored \subseteq Keys /\ {"none", "tomb"} \cap Vals = {}
    /\ Stored # {} => Vals # {}

NONE == 0
Txns == 1 .. MaxTxn
Data == Vals \cup {"none", "tomb"}
is_txn_id(ts) == ts >= TXN_ID_START

VARIABLES
    up,         \* "up", "down", or "failed": recovery returned an error
    crashes,
    disk,       \* the database file: checkpoint and log
    cells,      \* MemoryGraph::vertices
    active,     \* MemTxnManager::active_txns: ids
    clock,      \* the next timestamp of global_timestamp_generator
    nextId,     \* the next id of global_transaction_id_generator
    nextLsn,    \* the next LSN
    latest,     \* latest_commit_ts
    count,      \* wal_entries_since_checkpoint
    lock,       \* the owner of commit_lock
    ckptLock,   \* the writer of checkpoint_lock
    tx,         \* per transaction: where it is, its ids and its redo buffer
    promise     \* the data that the commits on the log have promised

vars == <<up, crashes, disk, cells, active, clock, nextId, nextLsn, latest, count, lock, ckptLock,
          tx, promise>>
memVars == <<cells, active, clock, nextId, nextLsn, latest, count>>

NoBase == [data |-> "none", cts |-> 0]
Cell(d, ts, base) == [data |-> d, cts |-> ts, base |-> base]
NoTx == [pc |-> "idle", id |-> 0, start |-> 0, cts |-> 0, lsn |-> 0, redo |-> <<>>, pos |-> 0]

Over == [NoTx EXCEPT !.pc = "done"]

\* What a transaction that starts now reads of a cell.
Shown(d) == IF d = "tomb" THEN "none" ELSE d
Visible(c) == Shown(IF is_txn_id(c.cts) THEN c.base.data ELSE c.data)

Init ==
    /\ up = "up" /\ crashes = 0
    /\ cells = [k \in Keys |-> IF k \in Stored THEN Cell(CHOOSE v \in Vals : TRUE, 0, NoBase)
                               ELSE Cell("none", 0, NoBase)]
    /\ disk = [ckpt |-> [lsn |-> 0, latest |-> 0, cells |-> cells], wal |-> <<>>]
    /\ active = {} /\ clock = 1 /\ nextId = TXN_ID_START + 1 /\ nextLsn = 1
    /\ latest = 0 /\ count = 0 /\ lock = NONE /\ ckptLock = NONE
    /\ tx = [t \in Txns |-> NoTx]
    /\ promise = [k \in Keys |-> Visible(cells[k])]

At(t, pc) == up = "up" /\ tx[t].pc = pc
Running(t) == tx[t].pc \notin {"idle", "done"}

-----------------------------------------------------------------------------
(* Writes in memory, live and during replay.                                 *)

check_write_conflict(c, id, start) ==
    IF is_txn_id(c.cts) THEN c.cts # id ELSE c.cts > start

\* The calls create_vertex, set_vertex_property and delete_vertex that succeed.
Accepts(c, op, id, start) ==
    IF op.name = "create" THEN c.data = "none"
    ELSE c.data # "none" /\ ~check_write_conflict(c, id, start)

Written(c, op, id) ==
    Cell(CASE op.name = "create" -> op.val
           [] op.name = "set" -> IF c.data = "tomb" THEN "tomb" ELSE op.val
           [] op.name = "del" -> "tomb",
         id, IF c.cts = id THEN c.base ELSE [data |-> c.data, cts |-> c.cts])

\* commit_pessimistic: every record of the transaction gets the commit timestamp.
Promoted(cs, id, ts) == [k \in Keys |-> IF cs[k].cts = id THEN [cs[k] EXCEPT !.cts = ts] ELSE cs[k]]

\* Slip: the old data is not restored.
RestoredKeepsData(cs, id) ==
    [k \in Keys |-> IF cs[k].cts # id THEN cs[k] ELSE Cell(cs[k].data, cs[k].base.cts, NoBase)]
\* abort_at: every record goes back to its base; an insert leaves a tombstone.
Restored(cs, id) ==
    [k \in Keys |-> IF cs[k].cts # id THEN cs[k]
                    ELSE Cell(IF cs[k].base.data = "none" THEN "tomb" ELSE cs[k].base.data,
                              cs[k].base.cts, NoBase)]

-----------------------------------------------------------------------------
(* The life of a transaction.                                                *)

\* begin_transaction_at: id and start timestamp.
BeginDraw(t) ==
    /\ At(t, "idle") /\ \A u \in 1 .. t - 1 : tx[u].pc # "idle"
    /\ ~Overlap => \A u \in Txns : ~Running(u)
    /\ tx' = [tx EXCEPT ![t].pc = "begin", ![t].id = nextId, ![t].start = clock]
    /\ nextId' = nextId + 1 /\ clock' = clock + 1
    /\ UNCHANGED <<up, crashes, disk, cells, active, nextLsn, latest, count, lock, ckptLock, promise>>

\* Under the read side of checkpoint_lock, until the entry is on the log.
BeginRegister(t) ==
    /\ At(t, "begin") /\ ckptLock = NONE
    /\ active' = active \cup {tx[t].id}
    /\ tx' = [tx EXCEPT ![t].pc = "log", ![t].lsn = nextLsn]
    /\ nextLsn' = nextLsn + 1
    /\ UNCHANGED <<up, crashes, disk, cells, clock, nextId, latest, count, lock, ckptLock, promise>>

Entry(t, lsn, op) == [lsn |-> lsn, id |-> tx[t].id, op |-> op]
\* DbFile::read_wal_entries: sorted by LSN, equal ones in the order of the file.
Before(wal, i) == {j \in DOMAIN wal : wal[j].lsn < wal[i].lsn \/ (wal[j].lsn = wal[i].lsn /\ j < i)}
SortedByLsn(wal) ==
    [n \in DOMAIN wal |-> wal[CHOOSE i \in DOMAIN wal : Cardinality(Before(wal, i)) = n - 1]]
\* DbFilePersistence::append_wal.
append_wal(e) == disk' = [disk EXCEPT !.wal = Append(@, e)]

BeginLog(t) ==
    /\ At(t, "log")
    /\ append_wal(Entry(t, tx[t].lsn, [name |-> "Begin", ts |-> tx[t].start]))
    /\ tx' = [tx EXCEPT ![t].pc = "run"]
    /\ UNCHANGED <<up, crashes, memVars, lock, ckptLock, promise>>

Write(t, op) ==
    LET c == cells[op.key]
    IN  /\ At(t, "run") /\ Len(tx[t].redo) < MaxWrites
        /\ c.cts # tx[t].id
        /\ Accepts(c, op, tx[t].id, tx[t].start)
        /\ op.name = "create" \/ c.data # "tomb" \/ BlindWrites
        /\ cells' = [cells EXCEPT ![op.key] = Written(c, op, tx[t].id)]
        /\ tx' = [tx EXCEPT ![t].redo = Append(@, op)]
        /\ UNCHANGED <<up, crashes, disk, active, clock, nextId, nextLsn, latest, count, lock,
                       ckptLock, promise>>

CommitDrawTs(t) ==
    /\ At(t, "run")
    /\ tx' = [tx EXCEPT ![t].pc = "commit", ![t].cts = clock]
    /\ clock' = clock + 1
    /\ UNCHANGED <<up, crashes, disk, cells, active, nextId, nextLsn, latest, count, lock, ckptLock,
                   promise>>

\* commit_lock, and commit_pessimistic up to the log.
CommitPromote(t) ==
    /\ At(t, "commit") /\ lock = NONE
    /\ lock' = t
    /\ cells' = Promoted(cells, tx[t].id, tx[t].cts)
    /\ tx' = [tx EXCEPT ![t].pc = "assign", ![t].pos = 1]
    /\ UNCHANGED <<up, crashes, disk, active, clock, nextId, nextLsn, latest, count, ckptLock, promise>>

\* flush_redo_and_commit_wal: LSNs for the whole redo buffer, then one append
\* per entry, then the commit entry.
AssignLsn(t) ==
    /\ At(t, "assign")
    /\ IF tx[t].pos <= Len(tx[t].redo)
       THEN /\ tx' = [tx EXCEPT ![t].redo[tx[t].pos].lsn = nextLsn, ![t].pos = @ + 1]
            /\ nextLsn' = nextLsn + 1
       ELSE /\ tx' = [tx EXCEPT ![t].pc = "flush", ![t].pos = 1]
            /\ UNCHANGED nextLsn
    /\ UNCHANGED <<up, crashes, disk, cells, active, clock, nextId, latest, count, lock, ckptLock, promise>>

AppendDelta(t) ==
    /\ At(t, "flush") /\ tx[t].pos <= Len(tx[t].redo)
    /\ LET op == tx[t].redo[tx[t].pos] IN append_wal(Entry(t, op.lsn, op))
    /\ tx' = [tx EXCEPT ![t].pos = @ + 1]
    /\ UNCHANGED <<up, crashes, memVars, lock, ckptLock, promise>>

CommitDrawLsn(t) ==
    /\ At(t, "flush") /\ tx[t].pos > Len(tx[t].redo)
    /\ tx' = [tx EXCEPT ![t].pc = "mark", ![t].lsn = nextLsn]
    /\ nextLsn' = nextLsn + 1
    /\ UNCHANGED <<up, crashes, disk, cells, active, clock, nextId, latest, count, lock, ckptLock, promise>>

\* The commit point: the data the transaction has written is promised.
Promise(p, redo) ==
    [k \in Keys |->
        LET mine == {i \in DOMAIN redo : redo[i].key = k}
            op == redo[Max(mine)]
        IN  CASE mine = {} -> p[k]
              [] mine # {} /\ op.name = "create" -> op.val
              [] mine # {} /\ op.name = "set" -> IF p[k] = "none" THEN "none" ELSE op.val
              [] mine # {} /\ op.name = "del" -> "none"]

AppendCommit(t) ==
    /\ At(t, "mark")
    /\ append_wal(Entry(t, tx[t].lsn, [name |-> "Commit", ts |-> tx[t].cts]))
    /\ promise' = Promise(promise, tx[t].redo)
    /\ count' = count + Len(tx[t].redo) + 2
    /\ tx' = [tx EXCEPT ![t].pc = "finish"]
    /\ UNCHANGED <<up, crashes, cells, active, clock, nextId, nextLsn, latest, lock, ckptLock>>

\* finalize_commit_common: publish, finish, and check_auto_checkpoint.
CheckpointDue == wal_threshold # 0 /\ count >= wal_threshold

CommitFinish(t) ==
    /\ At(t, "finish")
    /\ latest' = tx[t].cts
    /\ active' = active \ {tx[t].id}
    /\ tx' = [tx EXCEPT ![t] = IF CheckpointDue THEN [@ EXCEPT !.pc = "due"] ELSE Over]
    /\ lock' = IF CheckpointDue THEN t ELSE NONE
    /\ UNCHANGED <<up, crashes, disk, cells, clock, nextId, nextLsn, count, ckptLock, promise>>

\* abort_at: the records, then the log, then the manager.  No lock is taken.
AbortRestore(t) ==
    /\ At(t, "run")
    /\ cells' = Restored(cells, tx[t].id)
    /\ tx' = [tx EXCEPT ![t].pc = "abort", ![t].lsn = nextLsn]
    /\ nextLsn' = nextLsn + 1
    /\ UNCHANGED <<up, crashes, disk, active, clock, nextId, latest, count, lock, ckptLock, promise>>

AbortLog(t) ==
    /\ At(t, "abort")
    /\ append_wal(Entry(t, tx[t].lsn, [name |-> "Abort", ts |-> 0]))
    /\ tx' = [tx EXCEPT ![t].pc = "leave"]
    /\ UNCHANGED <<up, crashes, memVars, lock, ckptLock, promise>>

AbortFinish(t) ==
    /\ At(t, "leave")
    /\ active' = active \ {tx[t].id}
    /\ tx' = [tx EXCEPT ![t] = Over]
    /\ UNCHANGED <<up, crashes, disk, cells, clock, nextId, nextLsn, latest, count, lock, ckptLock,
                   promise>>

-----------------------------------------------------------------------------
(* create_checkpoint, called by the committing transaction under commit_lock. *)

CheckpointLock(t) ==
    /\ At(t, "due") /\ ckptLock = NONE
    /\ \A u \in Txns : tx[u].pc # "log"
    /\ ckptLock' = t
    /\ tx' = [tx EXCEPT ![t].pc = "drain"]
    /\ UNCHANGED <<up, crashes, disk, memVars, lock, promise>>

\* The loop that waits for active transactions has ended.
Drained == active = {}

\* GraphCheckpoint::new: the current version of every record, without its undo.
GraphCheckpoint ==
    [lsn |-> nextLsn, latest |-> latest, cells |-> [k \in Keys |-> [cells[k] EXCEPT !.base = NoBase]]]

\* Slip: the entries the checkpoint covers stay on the log until it is truncated.
WriteCheckpointKeepsLog(t) ==
    /\ At(t, "drain") /\ Drained
    /\ disk' = [disk EXCEPT !.ckpt = GraphCheckpoint]
    /\ tx' = [tx EXCEPT ![t].pc = "truncate"]
    /\ UNCHANGED <<up, crashes, memVars, lock, ckptLock, promise>>
\* DbFile::write_checkpoint starts the log anew behind the checkpoint.
WriteCheckpoint(t) ==
    /\ At(t, "drain") /\ Drained
    /\ disk' = [ckpt |-> GraphCheckpoint, wal |-> <<>>]
    /\ tx' = [tx EXCEPT ![t].pc = "truncate"]
    /\ UNCHANGED <<up, crashes, memVars, lock, ckptLock, promise>>

\* DbFile::truncate_wal_until returns early when it has nothing to remove, and
\* else writes what it keeps again, sorted.
truncate_wal_until(wal, lsn) ==
    IF \A i \in DOMAIN wal : wal[i].lsn >= lsn THEN wal
    ELSE SelectSeq(SortedByLsn(wal), LAMBDA e : e.lsn >= lsn)

\* The log, the counter, and both locks released.
TruncateWal(t) ==
    /\ At(t, "truncate")
    /\ disk' = [disk EXCEPT !.wal = truncate_wal_until(@, disk.ckpt.lsn)]
    /\ count' = 0
    /\ lock' = NONE /\ ckptLock' = NONE
    /\ tx' = [tx EXCEPT ![t] = Over]
    /\ UNCHANGED <<up, crashes, cells, active, clock, nextId, nextLsn, latest, promise>>

-----------------------------------------------------------------------------
(* Crash and recovery.                                                       *)

Crash ==
    /\ up = "up" /\ crashes < MaxCrashes
    /\ up' = "down" /\ crashes' = crashes + 1
    /\ tx' = [t \in Txns |-> IF Running(t) THEN Over ELSE tx[t]]
    /\ cells' = [k \in Keys |-> Cell("none", 0, NoBase)]
    /\ active' = {} /\ clock' = 1 /\ nextId' = TXN_ID_START + 1 /\ nextLsn' = 0
    /\ latest' = 0 /\ count' = 0 /\ lock' = NONE /\ ckptLock' = NONE
    /\ UNCHANGED <<disk, promise>>

\* Slip: LSNs start again behind a checkpoint.
restoreForgetsLsn(ckpt) ==
    [ok |-> TRUE, cells |-> ckpt.cells, active |-> {}, clock |-> 1, nextId |-> TXN_ID_START + 1,
     latest |-> ckpt.latest, lsn |-> 1, cur |-> 0, start |-> 0]
\* GraphCheckpoint::restore into an empty graph, with no current transaction.
restore(ckpt) ==
    [ok |-> TRUE, cells |-> ckpt.cells, active |-> {}, clock |-> 1, nextId |-> TXN_ID_START + 1,
     latest |-> ckpt.latest, lsn |-> ckpt.lsn + 1, cur |-> 0, start |-> 0]

AtLeast(n, m) == IF n > m THEN n ELSE m

\* One entry of apply_wal_entries.  A Begin takes the place of the current
\* transaction, whoever that was; Commit, Abort and deltas go to the current
\* one, and are skipped when there is none.
ReplayEntry(s, e) ==
    LET next == [s EXCEPT !.lsn = e.lsn + 1]
        none == [next EXCEPT !.cur = 0]
    IN  CASE ~s.ok -> s
          [] s.ok /\ e.op.name = "Begin" ->
                [next EXCEPT !.cur = e.id, !.start = e.op.ts, !.active = @ \cup {e.id},
                             !.nextId = AtLeast(e.id + 1, @), !.clock = AtLeast(e.op.ts + 1, @)]
          [] s.ok /\ e.op.name # "Begin" /\ s.cur = 0 -> none
          [] s.ok /\ e.op.name = "Commit" /\ s.cur # 0 ->
                [none EXCEPT !.cells = Promoted(s.cells, s.cur, e.op.ts), !.active = @ \ {s.cur},
                             !.clock = AtLeast(e.op.ts + 1, @), !.latest = e.op.ts]
          [] s.ok /\ e.op.name = "Abort" /\ s.cur # 0 ->
                [none EXCEPT !.cells = Restored(s.cells, s.cur), !.active = @ \ {s.cur}]
          [] s.ok /\ e.op.name \in {"create", "set", "del"} /\ s.cur # 0 ->
                IF Accepts(s.cells[e.op.key], e.op, s.cur, s.start)
                THEN [next EXCEPT !.cells[e.op.key] = Written(@, e.op, s.cur)]
                ELSE [next EXCEPT !.ok = FALSE]

\* MemoryGraph::recover: the checkpoint and the first entries of the log.
Replayed(ckpt, wal) ==
    LET replayed[i \in 0 .. Len(wal)] ==
            IF i = 0 THEN restore(ckpt) ELSE ReplayEntry(replayed[i - 1], wal[i])
    IN  replayed
Recovery(d) == Replayed(d.ckpt, SortedByLsn(d.wal))[Len(d.wal)]

Recover ==
    /\ up = "down"
    /\ LET r == Recovery(disk)
       IN  /\ up' = IF r.ok THEN "up" ELSE "failed"
           /\ cells' = r.cells /\ active' = r.active /\ clock' = r.clock /\ nextId' = r.nextId
           /\ nextLsn' = r.lsn /\ latest' = r.latest
    /\ UNCHANGED <<crashes, disk, count, lock, ckptLock, tx, promise>>

Ops == [name : {"create", "set"}, key : Keys, val : Vals, lsn : {0}]
       \cup [name : {"del"}, key : Keys, val : {CHOOSE v \in Vals : TRUE}, lsn : {0}]

\* The steps the code takes by itself once a call is made.
Step(t) ==
    \/ BeginRegister(t) \/ BeginLog(t) \/ CommitPromote(t) \/ AssignLsn(t) \/ AppendDelta(t)
    \/ CommitDrawLsn(t) \/ AppendCommit(t) \/ CommitFinish(t) \/ AbortLog(t) \/ AbortFinish(t)
    \/ CheckpointLock(t) \/ WriteCheckpoint(t) \/ TruncateWal(t)

\* The calls a client makes.
Call(t) == BeginDraw(t) \/ CommitDrawTs(t) \/ AbortRestore(t) \/ \E op \in Ops : Write(t, op)

Next == (\E t \in Txns : Step(t) \/ Call(t)) \/ Crash \/ Recover

Spec == Init /\ [][Next]_vars

-----------------------------------------------------------------------------
(* Properties.                                                               *)

\* If the process crashed now, recovery would succeed and show exactly what the
\* commits on the log have promised: nothing lost, nothing of a transaction
\* that did not reach its commit entry (MemoryGraph::recover).
CrashSafe ==
    LET r == Recovery(disk) IN r.ok /\ \A k \in Keys : Visible(r.cells[k]) = promise[k]

\* While no transaction is between promoting its records and logging its
\* commit, the graph in memory shows what the log promises
\* (commit_pessimistic promotes before flush_redo_and_commit_wal).
MemoryIsLogged ==
    up = "up" /\ (\A t \in Txns : tx[t].pc \notin {"assign", "flush", "mark"})
        => \A k \in Keys : Visible(cells[k]) = promise[k]

\* No two entries of the log share an LSN, and no entry is older than the
\* checkpoint in front of it, also after restarts (set_next_lsn, current_lsn).
LsnsFresh ==
    /\ \A i, j \in DOMAIN disk.wal : i # j => disk.wal[i].lsn # disk.wal[j].lsn
    /\ \A i \in DOMAIN disk.wal : disk.wal[i].lsn >= disk.ckpt.lsn
=============================================================================
