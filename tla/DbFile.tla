------------------------------- MODULE DbFile -------------------------------
(***************************************************************************)
(* The single database file (db_file/core.rs, header.rs,                   *)
(* single_file_manager.rs): a header, the checkpoint region behind it and  *)
(* the log region behind that.  The file is an array of blocks that reach  *)
(* the disk one by one: block 0 is the header, a log entry is one block, a *)
(* checkpoint is Size blocks.  cache is what the process and a restarted   *)
(* process see of the file while the machine runs; disk is what has been   *)
(* synced, and pend holds the values written to a block since then, any of *)
(* which the operating system may have written back when a crash comes.    *)
(* A checksum stands for "read back what was written": a block of another  *)
(* record fails it.  The header is read and written as one block.          *)
(***************************************************************************)
EXTENDS Integers, Sequences, FiniteSetsExt, Functions

CONSTANTS
    Snapshots,      \* checkpoints
    NoSnapshot,
    Size,           \* Snapshots -> blocks it takes
    MaxLsn,         \* bound on LSNs
    MaxBlock,       \* bound on the file's length
    CrashIn         \* the operations a crash may interrupt

ASSUME FileAssumption ==
    /\ Size \in [Snapshots -> Nat \ {0}] /\ NoSnapshot \notin Snapshots
    /\ MaxLsn \in Nat /\ MaxBlock \in Nat \ {0}
    /\ CrashIn \subseteq {"idle", "append", "checkpoint", "truncate"}

HEADER_SIZE == 1
Lsns == 1 .. MaxLsn
Blocks == 0 .. MaxBlock

\* Contents of a block: nothing (beyond the end of the file), a header, part i
\* of a checkpoint, a log entry.
Eof == [kind |-> "eof"]
HeaderBlock(h) == [kind |-> "header", h |-> h]
CkptBlock(c, i) == [kind |-> "ckpt", c |-> c, i |-> i]
WalBlock(n) == [kind |-> "wal", lsn |-> n]

VARIABLES
    disk, pend, \* durable blocks, and the values written since the last sync
    header,     \* DbFile::header, the copy in memory
    up,         \* "up", "down", or "failed": open returned an error
    op,         \* the operation under way
    used        \* LSNs that have been appended or skipped

vars == <<disk, pend, header, up, op, used>>

\* DbFileHeader::new.
NewHeader == [has_ckpt |-> FALSE, has_wal |-> FALSE, ckpt_len |-> 0, wal_off |-> HEADER_SIZE,
              wal_len |-> 0, last_lsn |-> 0]
NoContents == [ok |-> TRUE, snap |-> NoSnapshot, log |-> <<>>]
Idle == [kind |-> "idle", pc |-> "", rest |-> <<>>, snap |-> NoSnapshot, before |-> NoContents]

\* DbFile::create, up to its sync.
Init ==
    /\ disk = [b \in Blocks |-> IF b = 0 THEN HeaderBlock(NewHeader) ELSE Eof]
    /\ pend = [b \in Blocks |-> <<>>]
    /\ header = NewHeader /\ up = "up" /\ op = Idle /\ used = {}

-----------------------------------------------------------------------------
(* Reading.  d is an image of the file.                                      *)

Cached == [b \in Blocks |-> IF pend[b] = <<>> THEN disk[b] ELSE pend[b][Len(pend[b])]]

\* The file ends behind its last written block; a block that was skipped reads
\* as zeroes, which no record decodes from.
End(d) == Max({b \in Blocks : d[b] # Eof})

\* read_checkpoint: the length and the checksum stand in the region itself.
read_checkpoint(d, h) ==
    LET first == d[HEADER_SIZE]
        valid == /\ first.kind = "ckpt" /\ first.i = 1
                 /\ \A i \in 1 .. Size[first.c] : d[HEADER_SIZE + i - 1] = CkptBlock(first.c, i)
    IN  IF ~h.has_ckpt \/ h.ckpt_len = 0 THEN [ok |-> TRUE, snap |-> NoSnapshot]
        ELSE IF valid THEN [ok |-> TRUE, snap |-> first.c]
        ELSE [ok |-> FALSE, snap |-> NoSnapshot]

\* read_wal_entries: an end of file at the start of an entry ends the log, any
\* other unreadable entry is an error.
read_wal_entries(d, h) ==
    LET last == Min({h.wal_off + h.wal_len - 1, End(d)})
        region == h.wal_off .. last
    IN  IF ~h.has_wal \/ h.wal_len = 0 THEN [ok |-> TRUE, log |-> <<>>]
        ELSE IF \E b \in region : d[b].kind # "wal" THEN [ok |-> FALSE, log |-> <<>>]
        ELSE [ok |-> TRUE,
              log |-> [i \in 1 .. last - h.wal_off + 1 |-> d[h.wal_off + i - 1].lsn]]

\* What a process that opens the image finds: open, read_checkpoint, read_wal_entries.
Contents(d) ==
    LET h == d[0].h
        c == read_checkpoint(d, h)
        w == read_wal_entries(d, h)
    IN  IF c.ok /\ w.ok THEN [ok |-> TRUE, snap |-> c.snap, log |-> w.log]
        ELSE [ok |-> FALSE, snap |-> NoSnapshot, log |-> <<>>]

-----------------------------------------------------------------------------
(* Writing.                                                                  *)

\* write_all to some blocks: S maps them to their new values.
Written(p, S) == [b \in Blocks |-> IF b \in DOMAIN S THEN Append(p[b], S[b]) ELSE p[b]]
One(b, v) == [x \in {b} |-> v]

\* write_header.
WriteHeader(h) == header' = h /\ pend' = Written(pend, One(0, HeaderBlock(h)))

\* sync_data, sync_all.
SyncFile == disk' = Cached /\ pend' = [b \in Blocks |-> <<>>]

\* Threads draw LSNs before they append: the next one or the one after it may
\* come first.
NextLsn == Max(used \cup {0}) + 1

\* append_wal: the entry, a sync, the header that counts it, a sync.
EntryBlock == header.wal_off + header.wal_len
AppendEntry(n) ==
    /\ EntryBlock <= MaxBlock
    /\ pend' = Written(pend, One(EntryBlock, WalBlock(n)))
    /\ UNCHANGED header

append_wal(n) ==
    /\ up = "up" /\ op.kind = "idle"
    /\ n \notin used /\ n <= NextLsn + 1
    /\ used' = used \cup {n}
    /\ AppendEntry(n)
    /\ op' = [Idle EXCEPT !.kind = "append", !.pc = "sync entry", !.rest = <<n>>]
    /\ UNCHANGED <<disk, up>>

\* Slip: the header is written before the entry is known to be on the disk.
SkipSyncEntry ==
    /\ up = "up" /\ op.pc = "sync entry"
    /\ op' = [op EXCEPT !.pc = "count"]
    /\ UNCHANGED <<disk, pend, header, up, used>>
SyncEntry ==
    /\ up = "up" /\ op.pc = "sync entry"
    /\ SyncFile
    /\ op' = [op EXCEPT !.pc = "count"]
    /\ UNCHANGED <<header, up, used>>

CountEntry ==
    /\ up = "up" /\ op.pc = "count"
    /\ WriteHeader([header EXCEPT !.wal_len = @ + 1, !.has_wal = TRUE, !.last_lsn = Head(op.rest)])
    /\ op' = [op EXCEPT !.pc = "sync count"]
    /\ UNCHANGED <<disk, up, used>>

\* The call returns, or truncate_wal_until goes on to the next entry to keep.
SyncCount ==
    /\ up = "up" /\ op.pc = "sync count"
    /\ SyncFile
    /\ op' = CASE op.kind = "append" -> Idle
               [] op.kind = "truncate" /\ Len(op.rest) = 1 -> [op EXCEPT !.pc = "sync"]
               [] op.kind = "truncate" /\ Len(op.rest) > 1 -> [op EXCEPT !.pc = "rewrite", !.rest = Tail(@)]
    /\ UNCHANGED <<header, up, used>>

\* write_checkpoint: the region in place, then the header, then one sync.
write_checkpoint(c) ==
    /\ up = "up" /\ op.kind = "idle" /\ HEADER_SIZE + Size[c] - 1 <= MaxBlock /\ NextLsn <= MaxLsn
    /\ pend' = Written(pend, [b \in HEADER_SIZE .. HEADER_SIZE + Size[c] - 1 |-> CkptBlock(c, b - HEADER_SIZE + 1)])
    /\ op' = [Idle EXCEPT !.kind = "checkpoint", !.pc = "header", !.snap = c,
                          !.before = Contents(disk)]
    /\ UNCHANGED <<disk, header, up, used>>

CkptHeader(c) ==
    [header EXCEPT !.ckpt_len = Size[c], !.has_ckpt = TRUE, !.wal_off = HEADER_SIZE + Size[c],
                   !.wal_len = 0, !.has_wal = FALSE, !.last_lsn = NextLsn]

CheckpointHeader ==
    /\ up = "up" /\ op.kind = "checkpoint" /\ op.pc = "header"
    /\ WriteHeader(CkptHeader(op.snap))
    /\ op' = [op EXCEPT !.pc = "sync"]
    /\ UNCHANGED <<disk, up, used>>

\* The sync_all that ends write_checkpoint and truncate_wal_until.
LastSync ==
    /\ up = "up" /\ op.pc = "sync"
    /\ SyncFile
    /\ op' = Idle
    /\ UNCHANGED <<header, up, used>>

\* The entries to keep, as read_wal_entries sorts them: for each LSN from n on,
\* in order, whether the log has it.
KeptUpTo(log, n) ==
    LET kept[m \in 0 .. MaxLsn] ==
            IF m = 0 THEN <<>>
            ELSE IF m >= n /\ m \in Range(log) THEN Append(kept[m - 1], m)
            ELSE kept[m - 1]
    IN  kept
Kept(log, n) == KeptUpTo(log, n)[MaxLsn]

\* truncate_wal_until: nothing when nothing is removed; else an empty log, then
\* the entries to keep are appended again, in the order of their LSNs.
truncate_wal_until(n) ==
    LET all == read_wal_entries(Cached, header).log
        retained == Kept(all, n)
    IN  /\ up = "up" /\ op.kind = "idle" /\ Len(retained) < Len(all)
        /\ WriteHeader([header EXCEPT !.wal_len = 0, !.has_wal = @ /\ retained # <<>>])
        /\ op' = [Idle EXCEPT !.kind = "truncate", !.rest = retained, !.before = Contents(disk),
                              !.pc = IF retained = <<>> THEN "sync" ELSE "rewrite"]
        /\ UNCHANGED <<disk, up, used>>

RewriteEntry ==
    /\ up = "up" /\ op.pc = "rewrite"
    /\ AppendEntry(Head(op.rest))
    /\ op' = [op EXCEPT !.pc = "sync entry"]
    /\ UNCHANGED <<disk, up, used>>

\* A crash: of every block, one of the values written since the last sync or
\* the synced one is on the disk.
Crash ==
    /\ up = "up" /\ op.kind \in CrashIn
    /\ \E f \in [{b \in Blocks : pend[b] # <<>>} -> 0 .. 2] :
          /\ \A b \in DOMAIN f : f[b] <= Len(pend[b])
          /\ disk' = [b \in Blocks |-> IF b \in DOMAIN f /\ f[b] # 0 THEN pend[b][f[b]] ELSE disk[b]]
    /\ pend' = [b \in Blocks |-> <<>>]
    /\ up' = "down" /\ op' = Idle
    /\ UNCHANGED <<header, used>>

\* DbFile::open and what recovery reads; the next LSN follows the last one read.
Open ==
    /\ up = "down"
    /\ up' = IF Contents(disk).ok THEN "up" ELSE "failed"
    /\ header' = disk[0].h
    /\ used' = 1 .. Max({disk[0].h.last_lsn} \cup Range(Contents(disk).log))
    /\ UNCHANGED <<disk, pend, op>>

Next ==
    \/ \E n \in Lsns : append_wal(n) \/ truncate_wal_until(n)
    \/ \E c \in Snapshots : write_checkpoint(c)
    \/ SyncEntry \/ CountEntry \/ SyncCount \/ CheckpointHeader \/ RewriteEntry \/ LastSync
    \/ Crash \/ Open

Spec == Init /\ [][Next]_vars

-----------------------------------------------------------------------------
(* Properties.                                                               *)

\* Every header that may be on the disk counts only log entries that are on the
\* disk already: append_wal, "the header will NEVER point to WAL data that
\* hasn't been durably written, even if the OS reorders page flushes".
HeadersOnDisk == {disk[0].h} \cup {pend[0][i].h : i \in DOMAIN pend[0]}
HeaderNeverAhead ==
    op.kind \in {"idle", "append"} =>
    \A h \in HeadersOnDisk : \A b \in h.wal_off .. h.wal_off + h.wal_len - 1 :
        disk[b].kind = "wal" /\ pend[b] = <<>>

\* The file as a durable log.  While a checkpoint or a truncation is under way
\* that no crash interrupts, the durable contents are those before it.
Durable == IF op.kind \in {"checkpoint", "truncate"} THEN op.before ELSE Contents(disk)
DL == INSTANCE DurableLog WITH snap <- Durable.snap, log <- Durable.log
\* Whatever a crash leaves behind, the file reads as the snapshot and the log
\* before the interrupted append or after it, and calls that have returned are
\* never undone (PersistenceProvider).
ImplementsDurableLog == DL!Spec
=============================================================================
