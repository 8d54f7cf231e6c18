------------------------------ MODULE MemGraph ------------------------------
(***************************************************************************)
(* The transactional graph store of minigu-storage: MemoryGraph            *)
(* (tp/memory_graph.rs), MemTransaction (tp/transaction.rs) and            *)
(* MemTxnManager (tp/txn_manager.rs).                                      *)
(*                                                                         *)
(* A transaction is a thread that calls begin, then create, set, delete    *)
(* and read operations, then commit or abort.  A call that holds one       *)
(* record lock throughout is one action; begin, create, commit and abort   *)
(* are several, because other threads run between them.  commit_lock       *)
(* serialises commits, nothing serialises the rest.                        *)
(*                                                                         *)
(* Vertices and edges are records; an edge has fixed end points.  Data is  *)
(* abstracted to the number of the transaction that wrote it (0: before    *)
(* the first one): the code only copies property values.                   *)
(***************************************************************************)
EXTENDS VersionChain, FiniteSets, SequencesExt

CONSTANTS
    Vertices, Edges,
    Src, Dst,       \* end points of an edge
    Stored,         \* records that exist and are committed at the start
    MaxTxn,         \* number of transactions
    Strategy,       \* LockStrategy of each transaction
    Isolation,      \* IsolationLevel of each transaction
    GcThreshold,    \* GC_TRIGGER_THRESHOLD
    Calls,          \* the calls clients make, out of AllCalls
    MaxCalls,       \* bound: create, set, delete and read calls of a transaction
    MaxWrites,      \* bound: such calls of a transaction that reach the same record
    Serialized      \* whether clients run one call at a time

AllCalls == {"create", "set", "delete", "read", "abort"}
Records == Vertices \cup Edges
Txns == 1 .. MaxTxn

ASSUME GraphAssumption ==
    /\ Vertices \cap Edges = {}
    /\ Src \in [Edges -> Vertices] /\ Dst \in [Edges -> Vertices]
    /\ Stored \subseteq Records
    /\ \A e \in Stored \cap Edges : {Src[e], Dst[e]} \subseteq Stored
    /\ MaxTxn \in Nat
    /\ Strategy \in [Txns -> {"Pessimistic", "Optimistic"}]
    /\ Isolation \in [Txns -> {"Snapshot", "Serializable"}]
    /\ Calls \subseteq AllCalls
    /\ Serialized \in BOOLEAN
    /\ IsFiniteSet(Edges) /\ GcThreshold \in Nat
    /\ TXN_ID_START \in Nat /\ TXN_ID_START > 2 * MaxTxn + 3

VARIABLES
    clock,      \* GlobalTimestampGenerator: the next timestamp
    begun,      \* TransactionIdGenerator: the number of ids handed out
    present,    \* keys of the vertices and edges maps
    head,       \* record -> current version
    chain,      \* record -> undo entries reachable from undo_ptr
    adj,        \* edges in the adjacency lists of their end points
    pc,         \* transaction -> where its thread is
    start, cts, \* transaction -> start_ts, commit_ts (0: not drawn)
    undo,       \* transaction -> undo_buffer
    wset,       \* transaction -> vertex_writes and edge_writes (optimistic)
    rset,       \* transaction -> vertex_reads and edge_reads (Serializable)
    pos,        \* transaction -> entries done by the running commit or abort
    left,       \* transaction -> records left to the running optimistic phase
    target,     \* transaction -> records left to the running create or delete call
    calls,      \* transaction -> records of its calls so far, for the bounds
    lock,       \* holder of commit_lock, 0 when free
    active,     \* active_txns
    kept,       \* committed_txns
    latest,     \* latest_commit_ts
    watermark,
    wrote,      \* history: records a committed transaction wrote
    seen        \* history: records a transaction looked up, found or not

graphVars == <<present, head, chain, adj>>
txnVars == <<undo, wset, rset, seen, calls>>
mgrVars == <<active, kept, latest, watermark, wrote>>
vars == <<clock, begun, graphVars, pc, start, cts, txnVars, pos, left, target, lock, mgrVars>>

NoIntent == [kind |-> "None", guard |-> 0, before |-> NoImage, after |-> NoImage]

\* A fresh head as it stands for a record that is not in the map.
NoHead == HeadOf(NoImage, 0)

\* The graph after a loading transaction (start 1, commit 2) that created the
\* stored records was committed and collected.
Init ==
    /\ clock = 3 /\ begun = 0
    /\ present = Stored
    /\ head = [r \in Records |->
                 IF r \in Stored THEN [props |-> NoProps, tomb |-> FALSE, cts |-> 2] ELSE NoHead]
    /\ chain = [r \in Records |-> <<>>]
    /\ adj = Stored \cap Edges
    /\ pc = [t \in Txns |-> "new"]
    /\ start = [t \in Txns |-> 0] /\ cts = [t \in Txns |-> 0]
    /\ undo = [t \in Txns |-> <<>>]
    /\ wset = [t \in Txns |-> [r \in Records |-> NoIntent]]
    /\ rset = [t \in Txns |-> {}]
    /\ pos = [t \in Txns |-> 0]
    /\ left = [t \in Txns |-> {}]
    /\ target = [t \in Txns |-> <<>>]
    /\ calls = [t \in Txns |-> <<>>]
    /\ lock = 0
    /\ active = {} /\ kept = {}
    /\ latest = 2 /\ watermark = 2
    /\ wrote = [t \in Txns |-> {}]
    /\ seen = [t \in Txns |-> {}]

\* The thread of t is inside a call.
InCall(t) == pc[t] \notin {"new", "run", "committed", "aborted"}

\* The thread of t may take a step: with serialised clients, no other thread is
\* inside a call.
Turn(t) == Serialized => \A u \in Txns \ {t} : ~InCall(u)

Goto(t, where) == pc' = [pc EXCEPT ![t] = where]

\* The records a call may write.
Reached(call, r) == {r} \cup {e \in Edges : call = "delete" /\ r \in {Src[e], Dst[e]}}

\* A call within the bounds of the model; Called counts it.
MayCall(t, call, r) ==
    /\ Turn(t) /\ pc[t] = "run"
    /\ call \in Calls
    /\ Len(calls[t]) < MaxCalls
    /\ Cardinality({i \in 1 .. Len(calls[t]) : calls[t][i] \in Reached(call, r)}) < MaxWrites
Called(t, r) == calls' = [calls EXCEPT ![t] = Append(@, r)]

\* Transactions whose undo entries have been dropped: drained by abort, or gone with
\* the Arc of a collected transaction.
Gone == {t \in Txns : pc[t] = "aborted" \/ (pc[t] = "committed" /\ t \notin kept)}

-----------------------------------------------------------------------------
(* begin_transaction_at.                                                     *)

BeginDrawId(t) ==
    /\ Turn(t) /\ pc[t] = "new"
    /\ t = begun + 1
    /\ begun' = t
    /\ Goto(t, "id")
    /\ UNCHANGED <<clock, graphVars, start, cts, txnVars, pos, left, target, lock, mgrVars>>

BeginDrawTs(t) ==
    /\ Turn(t) /\ pc[t] = "id"
    /\ start' = [start EXCEPT ![t] = clock]
    /\ clock' = clock + 1
    /\ Goto(t, "ts")
    /\ UNCHANGED <<begun, graphVars, cts, txnVars, pos, left, target, lock, mgrVars>>

\* Slip: the last commit taken even while transactions are active.
WatermarkFromLatest(act, lat) == Max({watermark, lat})

\* update_watermark: the start of the first active transaction, by id, or the
\* last commit; never less than before.
NewWatermark(act, lat) ==
    Max({watermark, IF act = {} THEN lat ELSE start[Min(act)]})

BeginRegister(t) ==
    /\ Turn(t) /\ pc[t] = "ts"
    /\ active' = active \cup {t}
    /\ watermark' = NewWatermark(active', latest)
    /\ Goto(t, "run")
    /\ UNCHANGED <<clock, begun, graphVars, start, cts, txnVars, pos, left, target, lock, kept,
                   latest, wrote>>

-----------------------------------------------------------------------------
(* Reads.                                                                    *)

\* get_vertex, get_edge: own write intents first, then the version chain.  The
\* result is a tombstone image when the call returns NotFound.
Read(t, r) ==
    CASE wset[t][r].kind = "Delete" -> NoImage
      [] wset[t][r].kind \in {"Insert", "Update"} -> wset[t][r].after
      [] OTHER -> IF r \notin present THEN NoImage
                  ELSE VisibleImage(head[r], chain[r], Gone, t, start[t])
Sees(t, r) == ~Read(t, r).tomb

\* The read set after reading the records R: only reads that reach a record in
\* the map are noted.
NoteReads(t, R) ==
    /\ rset' = IF Isolation[t] = "Serializable"
               THEN [rset EXCEPT ![t] = @ \cup {r \in R \cap present : wset[t][r].kind = "None"}]
               ELSE rset
    /\ seen' = [seen EXCEPT ![t] = @ \cup R]

Get(t, r) ==
    /\ MayCall(t, "read", r)
    /\ NoteReads(t, {r})
    /\ Called(t, r)
    /\ UNCHANGED <<clock, begun, graphVars, pc, start, cts, undo, wset, pos, left, target, lock,
                   mgrVars>>

-----------------------------------------------------------------------------
(* Writes, pessimistic: in place, with an undo entry.                        *)

\* Push an undo entry for record r on t's buffer and on the record's chain.
UndoRecord(r, e, next) == [rec |-> r, e |-> e, next |-> next]
PushUndo(t, r, e) ==
    /\ undo' = [undo EXCEPT ![t] = Append(@, UndoRecord(r, e, chain[r]))]
    /\ chain' = [chain EXCEPT ![r] = Append(@, e)]

\* No other thread is inside a delete call that holds the lock of record r.
Unlocked(t, r) ==
    \A u \in Txns \ {t} : pc[u] = "delete" => target[u][Len(target[u])] # r

Writable(t, r) == r \in present /\ check_write_conflict(head[r].cts, t, start[t])

\* update_properties!: set_vertex_property and set_edge_property.
SetPessimistic(t, r, p) ==
    /\ MayCall(t, "set", r) /\ Strategy[t] = "Pessimistic"
    /\ Writable(t, r) /\ Unlocked(t, r)
    /\ PushUndo(t, r, SetDelta(t, {p}, ImageOf(head[r]), head[r].cts))
    /\ head' = [head EXCEPT ![r].props[p] = t, ![r].cts = TxnId(t)]
    /\ Called(t, r)
    /\ UNCHANGED <<clock, begun, present, adj, pc, start, cts, wset, rset, seen, pos, left, target, lock,
                   mgrVars>>

\* create_vertex and create_edge, the checks: the end points are visible, the id
\* is not a tombstone and not visible.
CreateCheck(t, r) ==
    LET ends == IF r \in Edges THEN {Src[r], Dst[r]} ELSE {}
    IN  /\ MayCall(t, "create", r)
        /\ \A v \in ends : Sees(t, v)
        /\ ~(r \in present /\ head[r].tomb)
        /\ ~Sees(t, r)
        /\ NoteReads(t, ends \cup {r})
        /\ target' = [target EXCEPT ![t] = <<r>>]
        /\ Called(t, r)
        /\ Goto(t, "create")
        /\ UNCHANGED <<clock, begun, graphVars, start, cts, undo, wset, pos, left, lock, mgrVars>>

\* create_vertex and create_edge, pessimistic: entry().or_insert_with() and the
\* undo entry.  A record that appeared since the checks is kept as it is.
CreatePessimistic(t, r) ==
    LET new == r \notin present
        cur == IF new THEN [props |-> [p \in Props |-> t], tomb |-> FALSE, cts |-> TxnId(t)]
               ELSE head[r]
        \* an insert remembers "no committed base"; create_edge does not
        ts == IF r \in Vertices /\ cur.cts = TxnId(t) THEN 0 ELSE cur.cts
    IN  /\ Turn(t) /\ pc[t] = "create" /\ target[t] = <<r>> /\ Strategy[t] = "Pessimistic"
        /\ r \in Edges => Unlocked(t, Src[r]) /\ Unlocked(t, Dst[r])
        /\ IF new \/ Writable(t, r)
           THEN /\ PushUndo(t, r, DelDelta(t, ts))
                /\ present' = present \cup {r}
                /\ head' = [head EXCEPT ![r] = cur]
                /\ adj' = adj \cup ({r} \cap Edges)
           ELSE UNCHANGED <<undo, graphVars>>
        /\ target' = [target EXCEPT ![t] = <<>>]
        /\ Goto(t, "run")
        /\ UNCHANGED <<clock, begun, start, cts, wset, rset, seen, calls, pos, left, lock, mgrVars>>

\* The incident edges of a vertex in the order delete_vertex meets them.
Incoming(v) == SetToSeq({e \in adj : Dst[e] = v})
Outgoing(v) == SetToSeq({e \in adj : Src[e] = v})
Cascade(r) == IF r \in Edges THEN <<r>> ELSE Incoming(r) \o Outgoing(r) \o <<r>>

\* delete_vertex and delete_edge: the conflict check on the record itself, whose
\* lock is then held to the end of the call.
DeleteCheck(t, r) ==
    /\ MayCall(t, "delete", r) /\ Strategy[t] = "Pessimistic"
    /\ Writable(t, r) /\ Unlocked(t, r)
    /\ target' = [target EXCEPT ![t] = Cascade(r)]
    /\ Called(t, r)
    /\ Goto(t, "delete")
    /\ UNCHANGED <<clock, begun, graphVars, start, cts, undo, wset, rset, seen, pos, left, lock, mgrVars>>

\* One record of the cascade: tombstoned, whether it was one already or not; a
\* conflict on an edge ends the call with what has been deleted so far.
DeleteRecord(t) ==
    LET r == Head(target[t])
        rest == IF Writable(t, r) \/ r \notin present THEN Tail(target[t]) ELSE <<>>
    IN  /\ Turn(t) /\ pc[t] = "delete"
        /\ IF Writable(t, r)
           THEN /\ PushUndo(t, r, CreateDelta(t, ImageOf(head[r]), head[r].cts))
                /\ head' = [head EXCEPT ![r].tomb = TRUE, ![r].cts = TxnId(t)]
           ELSE UNCHANGED <<undo, chain, head>>
        /\ target' = [target EXCEPT ![t] = rest]
        /\ Goto(t, IF rest = <<>> THEN "run" ELSE "delete")
        /\ UNCHANGED <<clock, begun, present, adj, start, cts, wset, rset, seen, calls, pos, left, lock,
                       mgrVars>>

-----------------------------------------------------------------------------
(* Writes, optimistic: a write intent with the timestamp of its base.        *)

Snapshot(t, r) == snapshot_with_guard(head[r], chain[r], Gone, t, start[t])

\* set_vertex_property and set_edge_property; a pending delete is a conflict.
SetOptimistic(t, r, p) ==
    LET w == wset[t][r]
        s == Snapshot(t, r)
        staged == w.kind \in {"Insert", "Update"}
        fresh == w.kind = "None" /\ r \in present /\ s.ok
        base == IF staged THEN w ELSE [kind |-> "Update", guard |-> s.guard, before |-> s.img,
                                       after |-> s.img]
    IN  /\ MayCall(t, "set", r) /\ Strategy[t] = "Optimistic"
        /\ staged \/ fresh
        /\ wset' = [wset EXCEPT ![t][r] = [base EXCEPT !.after.props[p] = t]]
        /\ Called(t, r)
        /\ UNCHANGED <<clock, begun, graphVars, pc, start, cts, undo, rset, seen, pos, left, target, lock,
                       mgrVars>>

\* create_vertex and create_edge, optimistic; a staged delete becomes an insert
\* and keeps its guard.
CreateOptimistic(t, r) ==
    LET img == [props |-> [p \in Props |-> t], tomb |-> FALSE]
    IN  /\ Turn(t) /\ pc[t] = "create" /\ target[t] = <<r>> /\ Strategy[t] = "Optimistic"
        /\ wset' = [wset EXCEPT ![t][r] = [kind |-> "Insert", guard |-> @.guard,
                                           before |-> NoImage, after |-> img]]
        /\ target' = [target EXCEPT ![t] = <<>>]
        /\ Goto(t, "run")
        /\ UNCHANGED <<clock, begun, graphVars, start, cts, undo, rset, seen, calls, pos, left, lock,
                       mgrVars>>

\* record_vertex_delete, record_edge_delete.
Deletable(t, r) == wset[t][r].kind # "None" \/ (r \in present /\ Snapshot(t, r).ok)
DeleteIntent(t, r) ==
    LET w == wset[t][r]
        s == Snapshot(t, r)
    IN  CASE w.kind = "None" -> [kind |-> "Delete", guard |-> s.guard, before |-> s.img,
                                 after |-> NoImage]
          [] w.kind = "Insert" -> [w EXCEPT !.kind = "Delete", !.before = w.after, !.after = NoImage]
          [] OTHER -> [w EXCEPT !.kind = "Delete", !.after = NoImage]

\* delete_vertex and delete_edge: the record, the staged edges that touch it, and
\* the edges of its adjacency list up to the first that is not visible.
DeleteOptimistic(t, r) ==
    LET staged == {e \in Edges : wset[t][e].kind # "None" /\ r \in {Src[e], Dst[e]}}
        listed == IF r \in Edges THEN <<>> ELSE Incoming(r) \o Outgoing(r)
        reached == {listed[i] : i \in {j \in DOMAIN listed :
                                         \A k \in 1 .. j : Deletable(t, listed[k])}}
    IN  /\ MayCall(t, "delete", r) /\ Strategy[t] = "Optimistic"
        /\ Deletable(t, r)
        /\ wset' = [wset EXCEPT ![t] = [x \in Records |->
                       IF x \in {r} \cup staged \cup reached THEN DeleteIntent(t, x) ELSE @[x]]]
        /\ Called(t, r)
        /\ UNCHANGED <<clock, begun, graphVars, pc, start, cts, undo, rset, seen, pos, left, target, lock,
                       mgrVars>>

-----------------------------------------------------------------------------
(* commit_at.                                                                *)

\* The commit timestamp is drawn before commit_lock is taken.
CommitDrawTs(t) ==
    /\ Turn(t) /\ pc[t] = "run"
    /\ cts' = [cts EXCEPT ![t] = clock]
    /\ clock' = clock + 1
    /\ Goto(t, "commit")
    /\ UNCHANGED <<begun, graphVars, start, txnVars, pos, left, target, lock, mgrVars>>

\* Slip: only running writers invalidate a read.
ReadsUnlocked(t) ==
    \A r \in rset[t] : r \in present /\ (is_txn_id(head[r].cts) => head[r].cts = TxnId(t))

\* validate_read_sets.
ReadsValid(t) ==
    \A r \in rset[t] : r \in present /\ (head[r].cts = TxnId(t) \/ head[r].cts <= start[t])

\* Slip: the base version is not compared with the guard.
IntentUnlocked(t, r) == r \in present /\ is_txn_id(head[r].cts) => head[r].cts = TxnId(t)

\* commit_optimistic, phase 1, for one intent.
IntentValid(t, r) ==
    LET w == wset[t][r]
        ts == head[r].cts
    IN  CASE w.kind = "None" -> TRUE
          [] w.kind = "Insert" -> r \in present => ts = TxnId(t)
          [] OTHER -> IF r \in present THEN ts \in {TxnId(t), w.guard}
                      ELSE w.kind = "Delete" /\ w.guard = 0
Intents(t) == {r \in Records : wset[t][r].kind # "None"}

\* commit_lock, then validation; a conflict aborts the transaction.
CommitLock(t) ==
    LET valid == /\ Isolation[t] = "Serializable" => ReadsValid(t)
                 /\ \A r \in Intents(t) : IntentValid(t, r)
    IN  /\ Turn(t) /\ pc[t] = "commit"
        /\ lock = 0
        /\ lock' = t
        /\ left' = [left EXCEPT ![t] = Intents(t)]
        /\ Goto(t, IF ~valid THEN "abort"
                   ELSE IF Intents(t) # {} THEN "apply" ELSE "promote")
        /\ UNCHANGED <<clock, begun, graphVars, start, cts, txnVars, pos, target, mgrVars>>

\* commit_pessimistic: the next entry of the undo buffer gives its record the
\* commit timestamp, whoever owns it now; a record that is gone is a panic.
Promote(t) ==
    LET r == undo[t][pos[t] + 1].rec
    IN  /\ Turn(t) /\ pc[t] = "promote" /\ Strategy[t] = "Pessimistic"
        /\ pos[t] < Len(undo[t])
        /\ pos' = [pos EXCEPT ![t] = @ + 1]
        /\ IF r \in present
           THEN head' = [head EXCEPT ![r].cts = cts[t]] /\ UNCHANGED pc
           ELSE Goto(t, "panicked") /\ UNCHANGED head
        /\ UNCHANGED <<clock, begun, present, chain, adj, start, cts, txnVars, left, target, lock,
                       mgrVars>>

\* commit_optimistic, phase 2: one intent, vertices before edges.
ApplyIntent(t, r) ==
    LET w == wset[t][r]
        cur == IF r \in present THEN head[r] ELSE NoHead
        delta == CASE w.kind = "Insert" -> DelDelta(t, cur.cts)
                   [] w.kind = "Update" -> SetDelta(t, ChangedProps(w.before, w.after), w.before,
                                                    cur.cts)
                   [] w.kind = "Delete" -> CreateDelta(t, w.before, cur.cts)
        img == IF w.kind # "Delete" THEN w.after
               ELSE [props |-> IF r \in present THEN cur.props ELSE w.before.props, tomb |-> TRUE]
    IN  /\ Turn(t) /\ pc[t] = "apply" /\ r \in left[t]
        /\ r \in Edges => left[t] \cap Vertices = {}
        /\ PushUndo(t, r, delta)
        /\ present' = present \cup {r}
        /\ head' = [head EXCEPT ![r] = HeadOf(img, TxnId(t))]
        /\ adj' = CASE w.kind = "Insert" -> adj \cup ({r} \cap Edges)
                    [] w.kind = "Update" -> adj
                    [] w.kind = "Delete" -> adj \ {r}
        /\ left' = [left EXCEPT ![t] = IF @ = {r} THEN Intents(t) ELSE @ \ {r}]
        /\ Goto(t, IF left[t] = {r} THEN "promote" ELSE "apply")
        /\ UNCHANGED <<clock, begun, start, cts, wset, rset, seen, calls, pos, target, lock, mgrVars>>

\* commit_optimistic, phase 3: one record.
PromoteIntent(t, r) ==
    /\ Turn(t) /\ pc[t] = "promote" /\ r \in left[t]
    /\ r \in Edges => left[t] \cap Vertices = {}
    /\ head' = [head EXCEPT ![r].cts = IF r \in present /\ @ = TxnId(t) THEN cts[t] ELSE @]
    /\ left' = [left EXCEPT ![t] = @ \ {r}]
    /\ UNCHANGED <<clock, begun, present, chain, adj, pc, start, cts, txnVars, pos, target, lock,
                   mgrVars>>

-----------------------------------------------------------------------------
(* finish_transaction and garbage_collect.                                   *)

\* cleanup_graph_data: the edges whose last expired undo entry says that they
\* were deleted.  Expired entries are visited in commit order.
DeletedEdges(expired, bufs) ==
    LET entries == UNION {{<<cts[u], i, bufs[u][i].rec, bufs[u][i].e.op>> : i \in DOMAIN bufs[u]} :
                          u \in expired}
        after(a, b) == a[1] > b[1] \/ (a[1] = b[1] /\ a[2] > b[2])
    IN  {e \in Edges : \E a \in entries : /\ a[3] = e /\ a[4] = "Create"
                                         /\ \A b \in entries : b[3] = e /\ b[4] = "Del" => after(a, b)}

\* cleanup_expired_edge: of a deleted edge, the edge and its end points go if their
\* current version is a tombstone, whoever wrote it.
isTombstone(r) == r \in present /\ head[r].tomb
cleanup_expired_edge(e) == {r \in {e, Src[e], Dst[e]} : isTombstone(r)}

\* remove_vertex_and_adjacencies, remove_edge_from_adjacency.
AdjacencyWithout(removed) == {e \in adj : {e, Src[e], Dst[e]} \cap removed = {}}

\* finish_transaction: leave active_txns, move the watermark and, when enough
\* committed transactions have piled up, collect those at or below it.
Finish(t, committed, lat) ==
    LET done == IF committed THEN kept \cup {t} ELSE kept
        bufs == IF committed THEN undo ELSE [undo EXCEPT ![t] = <<>>]
        expired == IF Cardinality(done) >= GcThreshold
                   THEN {u \in done : cts[u] <= watermark'} ELSE {}
        removed == UNION {cleanup_expired_edge(e) : e \in DeletedEdges(expired, bufs)}
    IN  /\ active' = active \ {t}
        /\ latest' = lat
        /\ watermark' = NewWatermark(active', lat)
        /\ kept' = done \ expired
        /\ present' = present \ removed
        /\ head' = [r \in Records |-> IF r \in removed THEN NoHead ELSE head[r]]
        /\ chain' = [r \in Records |-> IF r \in removed THEN <<>> ELSE chain[r]]
        /\ adj' = AdjacencyWithout(removed)
        /\ undo' = [u \in Txns |-> IF u \in expired THEN <<>> ELSE bufs[u]]
        /\ wset' = [wset EXCEPT ![t] = [r \in Records |-> NoIntent]]
        /\ rset' = [rset EXCEPT ![t] = {}]
        /\ pos' = [pos EXCEPT ![t] = 0]
        /\ calls' = [calls EXCEPT ![t] = <<>>]
        /\ lock' = IF lock = t THEN 0 ELSE lock

\* finalize_commit_common: publish latest_commit_ts, finish, unlock.
CommitFinish(t) ==
    /\ Turn(t) /\ pc[t] = "promote"
    /\ left[t] = {}
    /\ Strategy[t] = "Pessimistic" => pos[t] = Len(undo[t])
    /\ Finish(t, TRUE, cts[t])
    /\ wrote' = [wrote EXCEPT ![t] = {undo[t][i].rec : i \in DOMAIN undo[t]}]
    /\ Goto(t, "committed")
    /\ UNCHANGED <<clock, begun, start, cts, left, target, seen>>

-----------------------------------------------------------------------------
(* abort_at, called by the client, by a failing commit or by Drop.           *)

Abort(t) ==
    /\ Turn(t) /\ pc[t] = "run" /\ "abort" \in Calls
    /\ Goto(t, "abort")
    /\ UNCHANGED <<clock, begun, graphVars, start, cts, txnVars, pos, left, target, lock, mgrVars>>

\* The next entry of the drained undo buffer, oldest first.
AbortEntry(t) ==
    LET u == undo[t][pos[t] + 1]
        r == u.rec
    IN  /\ Turn(t) /\ pc[t] = "abort" /\ pos[t] < Len(undo[t])
        /\ pos' = [pos EXCEPT ![t] = @ + 1]
        /\ IF r \in present /\ head[r].cts = TxnId(t)
           THEN /\ head' = [head EXCEPT ![r] = Rollback(@, u.e)]
                /\ chain' = [chain EXCEPT ![r] = u.next]
           ELSE UNCHANGED <<head, chain>>
        /\ UNCHANGED <<clock, begun, present, adj, pc, start, cts, txnVars, left, target, lock,
                       mgrVars>>

AbortFinish(t) ==
    /\ Turn(t) /\ pc[t] = "abort" /\ pos[t] = Len(undo[t])
    /\ Finish(t, FALSE, latest)
    /\ left' = [left EXCEPT ![t] = {}]
    /\ Goto(t, "aborted")
    /\ UNCHANGED <<clock, begun, start, cts, target, wrote, seen>>

-----------------------------------------------------------------------------
Begin(t) == BeginDrawId(t) \/ BeginDrawTs(t) \/ BeginRegister(t)

Operation(t) ==
    \/ DeleteRecord(t)
    \/ \E r \in Records :
          \/ Get(t, r)
          \/ CreateCheck(t, r)
          \/ CreatePessimistic(t, r)
          \/ CreateOptimistic(t, r)
          \/ DeleteCheck(t, r)
          \/ DeleteOptimistic(t, r)
          \/ \E p \in Props : SetPessimistic(t, r, p) \/ SetOptimistic(t, r, p)

Commit(t) ==
    \/ CommitDrawTs(t) \/ CommitLock(t) \/ Promote(t) \/ CommitFinish(t)
    \/ \E r \in Records : ApplyIntent(t, r) \/ PromoteIntent(t, r)

Rollbacks(t) == Abort(t) \/ AbortEntry(t) \/ AbortFinish(t)

Next == \E t \in Txns : Begin(t) \/ Operation(t) \/ Commit(t) \/ Rollbacks(t)

Spec == Init /\ [][Next]_vars

-----------------------------------------------------------------------------
Finished(t) == pc[t] \in {"committed", "aborted"}
Image == [props : [Props -> 0 .. MaxTxn], tomb : BOOLEAN]
Ts == Nat
Version == [props : [Props -> 0 .. MaxTxn], tomb : BOOLEAN, cts : Ts]
Delta == [own : Txns, op : {"Create", "SetProps", "Del"}, idx : SUBSET Props, img : Image, ts : Ts]
UndoEntry == [rec : Records, e : Delta, next : Seq(Delta)]
Intent == [kind : {"None", "Insert", "Update", "Delete"}, guard : Ts, before : Image, after : Image]
Places == {"new", "id", "ts", "run", "create", "delete", "commit", "apply", "promote", "abort",
           "committed", "aborted", "panicked"}

TypeOK ==
    /\ clock \in Ts /\ begun \in 0 .. MaxTxn
    /\ present \subseteq Records /\ adj \subseteq Edges
    /\ head \in [Records -> Version]
    /\ chain \in [Records -> Seq(Delta)]
    /\ pc \in [Txns -> Places]
    /\ start \in [Txns -> Ts] /\ cts \in [Txns -> Ts]
    /\ undo \in [Txns -> Seq(UndoEntry)]
    /\ wset \in [Txns -> [Records -> Intent]]
    /\ rset \in [Txns -> SUBSET Records] /\ seen \in [Txns -> SUBSET Records]
    /\ pos \in [Txns -> Nat]
    /\ left \in [Txns -> SUBSET Records]
    /\ target \in [Txns -> Seq(Records)] /\ calls \in [Txns -> Seq(Records)]
    /\ lock \in 0 .. MaxTxn
    /\ active \subseteq Txns /\ kept \subseteq Txns
    /\ latest \in Ts /\ watermark \in Ts
    /\ wrote \in [Txns -> SUBSET Records]

\* Records t has written or staged.
Touched(t) == {undo[t][i].rec : i \in 1 .. Len(undo[t])} \cup Intents(t)

(* No transaction ever writes over the uncommitted version of another, and   *)
(* the versions of a record are committed in timestamp order, although       *)
(* commit timestamps are drawn before commit_lock is taken: walking back     *)
(* from the head, commit timestamps only decrease, and an entry that saved a *)
(* transaction id saved its own owner's.                                     *)
VersionsOrdered ==
    \A r \in present :
        LET ts == [i \in 1 .. Len(chain[r]) |-> chain[r][i].ts] \o <<head[r].cts>>
        IN  /\ \A i, j \in 1 .. Len(ts) :
                  i < j /\ is_commit_ts(ts[i]) /\ is_commit_ts(ts[j]) => ts[i] < ts[j]
            /\ \A i \in 1 .. Len(chain[r]) :
                  is_txn_id(ts[i]) => ts[i] = TxnId(chain[r][i].own)

(* First committer wins: two committed transactions that wrote the same      *)
(* record did not overlap, whichever of check_write_conflict and the guard   *)
(* of commit_optimistic protected them.                                      *)
FirstCommitterWins ==
    \A t, u \in Txns :
        t # u /\ wrote[t] \cap wrote[u] # {} => cts[t] < start[u] \/ cts[u] < start[t]

(* A vertex marked with a transaction id belongs to a transaction that is    *)
(* still running: the mark is the record's lock, and nobody can write past   *)
(* one that is left behind.  (An edge keeps the mark of an aborted insert,   *)
(* whose undo entry saves the transaction id as the timestamp to restore.)   *)
NoLockLeftBehind ==
    \A v \in present \cap Vertices, t \in Txns : head[v].cts = TxnId(t) => ~Finished(t)

(* A running transaction holds the mark of every record it has written, from *)
(* the write to the end of its commit or abort.                              *)
WriterHoldsLock ==
    \A t \in Txns : pc[t] \in {"run", "create", "delete", "commit"} =>
        \A i \in 1 .. Len(undo[t]) : head[undo[t][i].rec].cts = TxnId(t)

(* What a transaction reads was written by itself or by a transaction whose  *)
(* commit timestamp precedes its start and whose commit will not be undone.  *)
NoDirtyRead ==
    \A t \in active, r \in Records, p \in Props :
        pc[t] \in {"run", "create", "delete"} /\ Sees(t, r) =>
            LET w == Read(t, r).props[p]
            IN  \/ w \in {0, t}
                \/ pc[w] \in {"promote", "committed"} /\ cts[w] < start[t]

(* An aborted transaction leaves none of its data in a committed version.    *)
AbortLeavesNoData ==
    \A r \in present, p \in Props :
        is_commit_ts(head[r].cts) /\ ~head[r].tomb =>
            head[r].props[p] = 0 \/ pc[head[r].props[p]] # "aborted"

(* The watermark never passes the start of an active transaction, so garbage *)
(* collection drops no version one of them may still have to read.           *)
WatermarkSafe == \A t \in active : watermark <= start[t]

(* Serializable: a stored record that a committed transaction looked up was  *)
(* not written by another one that committed between its start and its own   *)
(* commit, so the transactions have the effect of their commit order.        *)
SerializableReads ==
    \A t, u \in Txns : t # u /\ pc[t] = "committed" /\ Isolation[t] = "Serializable" =>
        \A r \in seen[t] \cap wrote[u] \cap Stored : ~(start[t] < cts[u] /\ cts[u] < cts[t])

(* Graph integrity: a committed edge never has a committed deletion at one   *)
(* of its end points, although create_edge only reads them.  For two         *)
(* pessimistic transactions: the rollback of a third one revives an edge     *)
(* that was deleted with its end point and then once more.                   *)
NoDanglingEdge ==
    \A e \in Edges \cap present :
        is_commit_ts(head[e].cts) /\ ~head[e].tomb =>
            \A v \in {Src[e], Dst[e]} :
                v \in present /\ (is_commit_ts(head[v].cts) => ~head[v].tomb)

=============================================================================
