---------------------------- MODULE VersionChain ----------------------------
(***************************************************************************)
(* The version chain of one vertex or edge (tp/memory_graph.rs,            *)
(* VersionedVertex and VersionedEdge; transaction/src/lib.rs, UndoEntry):  *)
(* a current version updated in place and, hanging from undo_ptr, the undo *)
(* entries that lead back to older versions.                               *)
(*                                                                         *)
(* An image is [props, tomb]; a head is an image with a commit_ts that is  *)
(* either a commit timestamp or the transaction id of the writer that owns *)
(* the record.  A chain is a sequence of undo entries, the newest last; an *)
(* entry restores the properties in idx from img, and ts is the commit_ts  *)
(* the head had before the entry's write.  The pointers between entries    *)
(* are Weak: an entry whose owner's undo buffer is gone ends the chain.    *)
(* Vertices and edges run the same code and share this module.             *)
(***************************************************************************)
EXTENDS Integers, Sequences, FiniteSetsExt

CONSTANTS
    Props,          \* property slots of a record
    TXN_ID_START    \* 2^63: from here on a timestamp is a transaction id

is_txn_id(ts) == ts >= TXN_ID_START
is_commit_ts(ts) == ts < TXN_ID_START
TxnId(t) == TXN_ID_START + t

\* Data that no transaction has written.
NoProps == [p \in Props |-> 0]
NoImage == [props |-> NoProps, tomb |-> TRUE]
ImageOf(head) == [props |-> head.props, tomb |-> head.tomb]
HeadOf(img, ts) == [props |-> img.props, tomb |-> img.tomb, cts |-> ts]

\* Vertex::set_props and Edge::set_props.
set_props(props, idx, new) == [p \in Props |-> IF p \in idx THEN new[p] ELSE props[p]]

\* The three DeltaOps an undo entry can hold, named as in the code for the
\* write that would redo the old state.
CreateDelta(t, img, ts) == [own |-> t, op |-> "Create", idx |-> Props, img |-> img, ts |-> ts]
SetDelta(t, idx, img, ts) == [own |-> t, op |-> "SetProps", idx |-> idx, img |-> img, ts |-> ts]
\* Slip: the sentinel for "no committed base" one too low.
DelDeltaBelowZero(t, ts) == [own |-> t, op |-> "Del", idx |-> {}, img |-> NoImage, ts |-> ts - 1]
DelDelta(t, ts) == [own |-> t, op |-> "Del", idx |-> {}, img |-> NoImage, ts |-> ts]

-----------------------------------------------------------------------------
(* Reading an old version.                                                   *)

\* The image the entries chain[k], ..., chain[Len(chain)] lead back to from
\* img: the oldest entry that touches a slot decides it.
Replay(img, chain, k) ==
    LET deltas == {i \in 1 .. Len(chain) : i >= k}
        Oldest(S) == chain[Min(S)].img
        \* entries that restore slot p, and entries that restore the tombstone flag
        For(p) == {i \in deltas : p \in chain[i].idx}
        Whole == {i \in deltas : chain[i].op # "SetProps"}
    IN  [props |-> [p \in Props |-> IF For(p) = {} THEN img.props[p]
                                    ELSE Oldest(For(p)).props[p]],
         tomb |-> IF Whole = {} THEN img.tomb ELSE Oldest(Whole).tomb]

\* The last entry visited when the walk stops at the first entry that Stop
\* accepts, at a dead Weak pointer, or at the end.  Len(chain) + 1: no entry.
WalkEnd(chain, gone, Stop(_)) ==
    LET n == Len(chain)
        live(i) == \A j \in i .. n : chain[j].own \notin gone
        going(i) == \A j \in (i + 1) .. n : ~Stop(chain[j])
    IN  Min({n + 1} \cup {i \in 1 .. n : live(i) /\ going(i)})

\* MemTransaction::apply_deltas_for_read.
apply_deltas_for_read(img, chain, gone, start) ==
    Replay(img, chain, WalkEnd(chain, gone, LAMBDA e : e.ts < start))

\* Slip: an uncommitted head taken for a committed one.
NewerThanCommitted(cts, t, start) == is_commit_ts(cts) /\ cts > start

\* The head is not this transaction's snapshot: written by another running
\* transaction, or committed after it started.
NewerThan(cts, t, start) ==
    \/ is_txn_id(cts) /\ cts # TxnId(t)
    \/ is_commit_ts(cts) /\ cts > start

\* Steps 2 of get_vertex and get_edge: the version transaction t reads.
VisibleImage(head, chain, gone, t, start) ==
    IF NewerThan(head.cts, t, start)
    THEN apply_deltas_for_read(ImageOf(head), chain, gone, start)
    ELSE ImageOf(head)

\* snapshot_vertex_with_guard and snapshot_edge_with_guard: the visible image,
\* the commit timestamp it had, and whether the call succeeds.
snapshot_with_guard(head, chain, gone, t, start) ==
    LET n == Len(chain)
        k == WalkEnd(chain, gone, LAMBDA e : e.ts <= start)
        newer == NewerThan(head.cts, t, start)
        img == IF newer THEN Replay(ImageOf(head), chain, k) ELSE ImageOf(head)
        guard == IF newer /\ k <= n THEN chain[k].ts ELSE head.cts
    IN  [img |-> img, guard |-> guard,
         ok |-> /\ ~(is_txn_id(head.cts) /\ head.cts # TxnId(t))
                /\ newer => guard <= start
                /\ ~img.tomb]

-----------------------------------------------------------------------------
(* Writing.                                                                  *)

\* Slips: the first-committer check dropped, the lock check dropped.
check_lock_only(cts, t, start) == is_txn_id(cts) => cts = TxnId(t)
check_version_only(cts, t, start) == is_commit_ts(cts) => cts <= start

\* check_write_conflict accepts the head for a write by transaction t.
check_write_conflict(cts, t, start) ==
    /\ is_txn_id(cts) => cts = TxnId(t)
    /\ is_commit_ts(cts) => cts <= start

\* Slips: the old properties not restored, the lock not released.
RollbackKeepsProps(head, e) ==
    [head EXCEPT !.tomb = (e.op = "Del") \/ (e.op = "SetProps" /\ @), !.cts = e.ts]
RollbackKeepsLock(head, e) ==
    [props |-> set_props(head.props, e.idx, e.img.props),
     tomb |-> e.op = "Del" \/ (e.op = "SetProps" /\ head.tomb),
     cts |-> head.cts]

\* abort_at: what one undo entry does to the head it still owns.  A deleted
\* record always comes back as a live one, whatever the saved image says.
Rollback(head, e) ==
    [props |-> set_props(head.props, e.idx, e.img.props),
     tomb |-> CASE e.op = "Create" -> FALSE
                [] e.op = "SetProps" -> head.tomb
                [] e.op = "Del" -> TRUE,
     cts |-> e.ts]

\* compute_prop_delta: the slots an optimistic update changes.
ChangedProps(before, after) == {p \in Props : before.props[p] # after.props[p]}
=============================================================================
