----------------------------- MODULE OlapGraph -----------------------------
(***************************************************************************)
(* The analytical storage (storage/src/ap): vertices in an array, the      *)
(* edges of a vertex in a chain of blocks of BLOCK_CAPACITY slots, kept in *)
(* the order of their targets, one column of property versions, and        *)
(* transactions that stamp an edge with their id until they commit.        *)
(*                                                                         *)
(* All edges have label 1 and one property, whose column exists from the   *)
(* start; offsets and block numbers count from 1 and 0 is "none".  What a  *)
(* call does under the edges lock is one step.  Before they take it,       *)
(* set_edge_property_in_txn, delete_edge_in_txn and both point reads look  *)
(* at edge_id_map, and commit_at draws its timestamp: the writers' look    *)
(* and the draw are steps of their own here, the reads' look and the scans *)
(* that give the lock back between two edges are in OlapReaders.           *)
(* The calls without a transaction are the loader's and come first: they   *)
(* stamp with timestamp 0, which every reader sees.                        *)
(***************************************************************************)
EXTENDS Integers, Sequences, FiniteSetsExt, TLC

CONSTANTS
    Vertices,       \* vertex ids of the sources
    Dsts,           \* vertex ids of the targets
    MaxTxn,         \* bound on the transactions
    MaxEdges,       \* bound on the edges created
    MaxLoad,        \* bound on the loader's calls
    MaxWrites,      \* bound on the writes of a transaction
    BLOCK_CAPACITY,
    TXN_ID_START,   \* from here on a timestamp is a transaction id
    Bare,           \* transactions that create edges without the property
    ClientLocks     \* do clients keep off edges that another transaction writes?

ASSUME OlapAssumption ==
    /\ Dsts \subseteq Nat \ {0} /\ BLOCK_CAPACITY \in Nat \ {0} /\ ClientLocks \in BOOLEAN
    /\ {MaxTxn, MaxEdges, MaxLoad, MaxWrites, TXN_ID_START} \subseteq Nat

NONE == 0
Txns == 1 .. MaxTxn
Eids == 1 .. MaxEdges
Slots == 1 .. BLOCK_CAPACITY
TOMBSTONE_DST_ID == 1
max_commit_ts == TXN_ID_START - 1
is_txn_id(ts) == ts >= TXN_ID_START
txn_id(t) == TXN_ID_START + t

VARIABLES
    phase,      \* "load", "run", "packed" after compaction, "poisoned" after a panic
    loads,      \* the loader's calls so far
    vmap,       \* dense_id_map: vertex id -> index in vertices
    vertices,   \* the vertex array: vertex id, last block, property
    logical,    \* logic_id_counter
    blocks,     \* the edge blocks, with the block of the property column
    eids,       \* edge_id_counter - 1
    loc,        \* edge_id_map: edge id -> block and offset
    clock,      \* global_timestamp_generator
    tx,         \* the transactions
    log         \* per edge, what was written to it and when, in order

vars == <<phase, loads, vmap, vertices, logical, blocks, eids, loc, clock, tx, log>>
store == <<vmap, vertices, logical>>

\* OlapStorageEdge::default, PropertyVersion, EdgeBlock.
NullEdge == [eid |-> 0, dst |-> TOMBSTONE_DST_ID, ts |-> 0]
Version(ts, v) == [ts |-> ts, val |-> v]
NewBlock(pre, src, min) ==
    [pre |-> pre, dead |-> FALSE, src |-> src, min |-> min, n |-> 0,
     e |-> [i \in Slots |-> NullEdge], p |-> [i \in Slots |-> <<>>]]
NoLoc == [b |-> NONE, o |-> NONE]
NoLook == [op |-> "none", eid |-> NONE, loc |-> NoLoc]
\* MemTransaction::new.
NewTx(st, start) == [st |-> st, start |-> start, commit |-> NONE, undo |-> <<>>, snap |-> [e \in Eids |-> NONE],
                     look |-> NoLook]

Init ==
    /\ phase = "load" /\ loads = 0
    /\ vmap = [v \in Vertices |-> NONE] /\ vertices = <<>> /\ logical = 0
    /\ blocks = <<>> /\ eids = 0 /\ loc = [e \in Eids |-> NoLoc]
    /\ clock = 0 /\ tx = [t \in Txns |-> NewTx("idle", 0)]
    /\ log = [e \in Eids |-> <<>>]

-----------------------------------------------------------------------------
(* Slots.                                                                    *)

\* Does the slot at l hold edge e?
Holds(bs, l, e) == l.b \in DOMAIN bs /\ l.o \in 1 .. bs[l.b].n /\ bs[l.b].e[l.o].eid = e
\* Slip: the location is not looked up again under the lock.
ResolveSeen(e, seen) == IF Holds(blocks, seen, e) THEN seen ELSE NoLoc
\* resolve_edge_location: the location seen before the lock, the one in the map
\* now, or a scan of all blocks.
resolve_edge_location(e, seen) ==
    IF Holds(blocks, seen, e) THEN seen
    ELSE IF Holds(blocks, loc[e], e) THEN loc[e]
    ELSE LET at == {l \in [b : DOMAIN blocks, o : Slots] : Holds(blocks, l, e)}
         IN  IF at = {} THEN NoLoc ELSE CHOOSE l \in at : TRUE

\* binary_search_by_key: where the target is or belongs.  Tombstones break the
\* order; the search may then end anywhere.
InsertAt(b, dst) ==
    LET k == [i \in 1 .. b.n |-> b.e[i].dst]
        equal == {i \in 1 .. b.n : k[i] = dst}
    IN  IF \E i \in 2 .. b.n : k[i] < k[i - 1] THEN 1 .. b.n + 1
        ELSE IF equal # {} THEN equal
        ELSE {1 + Cardinality({i \in 1 .. b.n : k[i] < dst})}

\* The slots from pos on move up.  The version list at pos is cloned, not moved:
\* the new edge's version is pushed onto it.
Inserted(b, pos, slot, ver) ==
    [b EXCEPT !.n = @ + 1,
        !.min = IF is_txn_id(ver.ts) THEN Min({@, ver.ts}) ELSE @,
        !.e = [i \in Slots |-> IF i = pos THEN slot ELSE IF i > pos /\ i <= b.n + 1 THEN b.e[i - 1] ELSE b.e[i]],
        !.p = [i \in Slots |-> IF i = pos THEN Append(b.p[i], ver)
                               ELSE IF i > pos /\ i <= b.n + 1 THEN b.p[i - 1] ELSE b.p[i]]]
\* The slots behind pos move down and the last one is cleared.
Removed(b, pos) ==
    [b EXCEPT !.n = @ - 1,
        !.e = [i \in Slots |-> IF i = b.n THEN NullEdge ELSE IF i >= pos /\ i < b.n THEN b.e[i + 1] ELSE b.e[i]],
        !.p = [i \in Slots |-> IF i = b.n THEN <<>> ELSE IF i >= pos /\ i < b.n THEN b.p[i + 1] ELSE b.p[i]]]
\* The moved edges of block i are entered in the map again.
Remapped(m, bs, i) ==
    [e \in Eids |-> IF \E o \in 1 .. bs[i].n : bs[i].e[o].eid = e
                    THEN [b |-> i, o |-> CHOOSE o \in 1 .. bs[i].n : bs[i].e[o].eid = e] ELSE m[e]]

\* The body of create_edge and create_edge_in_txn: a block for the vertex, a
\* fresh edge id, the slot and its property version.  min is the min_ts of a new block.
InsertEdge(src, dst, val, ts, min) ==
    LET i == vmap[src]
        last == vertices[i].block
        fresh == last = NONE \/ blocks[last].n >= BLOCK_CAPACITY
        bi == IF fresh THEN Len(blocks) + 1 ELSE last
        bs == IF fresh THEN Append(blocks, NewBlock(last, src, min)) ELSE blocks
        e == eids + 1
    IN  /\ eids < MaxEdges /\ i \in DOMAIN vertices
        /\ vertices' = [vertices EXCEPT ![i].block = bi]
        /\ eids' = e
        /\ \E pos \in InsertAt(bs[bi], dst) :
              blocks' = [bs EXCEPT ![bi] = Inserted(@, pos, [eid |-> e, dst |-> dst, ts |-> ts], Version(ts, val))]
        /\ loc' = Remapped(loc, blocks', bi)
        /\ log' = [log EXCEPT ![e] = <<Version(ts, val)>>]

-----------------------------------------------------------------------------
(* The loader.                                                               *)

Load == phase = "load" /\ loads < MaxLoad /\ loads' = loads + 1 /\ UNCHANGED <<clock, tx>>
Panic == phase' = "poisoned" /\ UNCHANGED <<vmap, vertices, logical, blocks, eids, loc, log>>

OlapVertex(v) == [vid |-> v, block |-> NONE, val |-> NONE]

create_vertex(v) ==
    /\ Load /\ vmap[v] = NONE /\ \A u \in Vertices : u < v => vmap[u] # NONE   \* in order
    /\ logical' = logical + 1
    /\ vmap' = [vmap EXCEPT ![v] = logical + 1]
    /\ IF logical > Len(vertices)      \* Vec::insert beyond the end
       THEN phase' = "poisoned" /\ UNCHANGED vertices
       ELSE vertices' = Append(vertices, OlapVertex(v)) /\ UNCHANGED phase
    /\ UNCHANGED <<blocks, eids, loc, log>>

create_edge(src, dst, val) ==
    /\ Load /\ vmap[src] # NONE
    /\ InsertEdge(src, dst, val, 0, max_commit_ts)
    /\ UNCHANGED <<phase, vmap, logical>>

\* The only edge of a block: the block is marked and the slot stays as it is.
delete_edge(e) ==
    LET l == loc[e] IN
    /\ Load /\ Holds(blocks, l, e)
    /\ blocks' = [blocks EXCEPT ![l.b] = IF @.n = 1 THEN [@ EXCEPT !.n = 0, !.dead = TRUE] ELSE Removed(@, l.o)]
    /\ loc' = [Remapped(loc, blocks', l.b) EXCEPT ![e] = NoLoc]
    /\ log' = [log EXCEPT ![e] = <<>>]
    /\ UNCHANGED <<phase, store, eids>>

set_edge_property(e, val) ==
    LET l == loc[e] IN
    /\ Load /\ Holds(blocks, l, e) /\ ~blocks[l.b].dead
    /\ blocks' = [blocks EXCEPT ![l.b].p[l.o] = Append(@, Version(0, val))]
    /\ log' = [log EXCEPT ![e] = Append(@, Version(0, val))]
    /\ UNCHANGED <<phase, store, eids, loc>>

set_vertex_property(v, val) ==
    /\ Load /\ vmap[v] # NONE
    /\ IF vmap[v] \in DOMAIN vertices
       THEN /\ vertices' = [vertices EXCEPT ![vmap[v]].val = val]
            /\ UNCHANGED <<phase, vmap, logical, blocks, eids, loc, log>>
       ELSE Panic

\* The chain of blocks that ends in block b.
Chains == LET chain[i \in 0 .. Len(blocks)] == IF i = NONE THEN <<>> ELSE <<i>> \o chain[blocks[i].pre]
          IN  chain
Chain(b) == Chains[b]

\* The position at which an iteration over the vertices finds one of them.
VertexIter(v) == {i \in DOMAIN vertices : vertices[i].vid = v}

\* VertexIter finds the vertex; the later ones move down, dense_id_map stays.
\* A vertex without edges has no block to index: panic.
delete_vertex(v) ==
    \E i \in VertexIter(v) :
        /\ Load
        /\ vertices' = [j \in 1 .. Len(vertices) - 1 |-> IF j < i THEN vertices[j] ELSE vertices[j + 1]]
        /\ phase' = IF vertices[i].block = NONE THEN "poisoned" ELSE phase
        /\ blocks' = [b \in DOMAIN blocks |->
                        IF \E k \in DOMAIN Chain(vertices[i].block) : Chain(vertices[i].block)[k] = b
                        THEN [blocks[b] EXCEPT !.dead = TRUE] ELSE blocks[b]]
        /\ UNCHANGED <<vmap, logical, eids, loc, log>>

EndLoad == phase = "load" /\ phase' = "run" /\ loads' = 0
           /\ UNCHANGED <<store, blocks, eids, loc, clock, tx, log>>

-----------------------------------------------------------------------------
(* Reads.                                                                    *)

None == [found |-> FALSE, dst |-> NONE, val |-> NONE]
Found(dst, val) == [found |-> TRUE, dst |-> dst, val |-> val]

Sees(t, ts) == IF is_txn_id(ts) THEN ts = txn_id(t) ELSE ts <= tx[t].start
LastValue(vs, I) == IF I = {} THEN NONE ELSE vs[Max(I)].val
\* The last version in list order that the transaction sees.
prop_value_visible_at(vs, t) == LastValue(vs, {i \in DOMAIN vs : Sees(t, vs[i].ts)})
latest_committed_prop_value(vs) == LastValue(vs, {i \in DOMAIN vs : ~is_txn_id(vs[i].ts)})

IsTombstone(s) == s.dst = TOMBSTONE_DST_ID
\* The block-level timestamp filter.
TooNew(b, t) == ~is_txn_id(b.min) /\ tx[t].start < b.min

\* The edge at l, where edge_id_map had it: no one looks it up again.
get_edge_at_ts(t, e, l) ==
    LET b == blocks[l.b]
    IN  IF /\ Holds(blocks, l, e) /\ ~b.dead /\ ~TooNew(b, t)
           /\ ~IsTombstone(b.e[l.o]) /\ Sees(t, b.e[l.o].ts)
        THEN Found(b.e[l.o].dst, prop_value_visible_at(b.p[l.o], t))
        ELSE None

\* get_edge: the same without a look at min_ts and the edge's commit_ts.
get_edge(t, e, l) ==
    LET b == blocks[l.b]
    IN  IF Holds(blocks, l, e) /\ ~b.dead /\ ~IsTombstone(b.e[l.o])
        THEN Found(b.e[l.o].dst, prop_value_visible_at(b.p[l.o], t)) ELSE None

\* The offsets a scan of a block looks at: up to the first slot that ends it.
Until(stop) == {o \in Slots : \A i \in 1 .. o : ~stop[i]}
\* An empty slot or a tombstone ends the block for all iterators but EdgeIterAtTs.
AdjacencyStop(b) == [o \in Slots |-> IsTombstone(b.e[o])]
\* EdgeIter: every slot up to the first empty one or tombstone, committed or not.
iter_edges ==
    UNION {LET b == blocks[i] IN
           IF b.dead THEN {}
           ELSE {<<b.e[o].eid, Found(b.e[o].dst, latest_committed_prop_value(b.p[o]))>>
                    : o \in Until(AdjacencyStop(b))}
           : i \in DOMAIN blocks}

\* get_vertex goes by dense_id_map, also after a deletion has moved the vertices.
get_vertex(v) == vertices[vmap[v]]

\* AdjacencyIterator along the chain of the vertex.
iter_adjacency(v) ==
    LET chain == Chain(get_vertex(v).block) IN
    UNION {LET b == blocks[chain[k]] IN
           IF b.dead THEN {} ELSE {b.e[o].eid : o \in Until(AdjacencyStop(b))} : k \in DOMAIN chain}

-----------------------------------------------------------------------------
(* Transactions.                                                             *)

\* Vec::retain: what is left without the versions of the transaction.
Without(vs, t) ==
    LET kept[n \in 0 .. Len(vs)] ==
          IF n = 0 THEN <<>>
          ELSE IF vs[n].ts = txn_id(t) THEN kept[n - 1] ELSE Append(kept[n - 1], vs[n])
    IN  kept[Len(vs)]

Active(t) == phase = "run" /\ tx[t].st = "active" /\ UNCHANGED <<phase, loads, vmap, logical>>
push_undo(t, op, e, ts) == [tx[t] EXCEPT !.undo = Append(@, [op |-> op, eid |-> e, ts |-> ts]), !.look = NoLook]
\* The transaction is in none of its calls.
AtRest(t) == tx[t].look = NoLook /\ tx[t].commit = NONE
CanWrite(t) == AtRest(t) /\ Len(tx[t].undo) < MaxWrites

Begin(t) ==
    /\ phase = "run" /\ tx[t].st = "idle" /\ \A u \in 1 .. t - 1 : tx[u].st # "idle"
    /\ tx' = [tx EXCEPT ![t] = NewTx("active", clock)]
    /\ UNCHANGED <<phase, loads, store, blocks, eids, loc, clock, log>>

create_edge_in_txn(t, src, dst, val) ==
    /\ Active(t) /\ CanWrite(t) /\ vmap[src] # NONE
    /\ InsertEdge(src, dst, val, txn_id(t), txn_id(t))
    /\ tx' = [tx EXCEPT ![t] = push_undo(t, "create", eids + 1, txn_id(t))]
    /\ UNCHANGED clock

\* The look at edge_id_map before the edges lock is taken.
LookUp(t, op, e) ==
    /\ Active(t) /\ CanWrite(t) /\ loc[e] # NoLoc
    /\ ClientLocks => /\ get_edge_at_ts(t, e, loc[e]).found \/ blocks[loc[e].b].dead
                      /\ \A u \in Txns : tx[u].look.eid # e
    /\ tx' = [tx EXCEPT ![t].look = [op |-> op, eid |-> e, loc |-> loc[e]]]
    /\ UNCHANGED <<vertices, blocks, eids, loc, clock, log>>

Located(t) == resolve_edge_location(tx[t].look.eid, tx[t].look.loc)

\* EdgeNotFound.
LookedInVain(t) ==
    /\ Active(t) /\ tx[t].look # NoLook
    /\ Located(t) # NoLoc => blocks[Located(t).b].dead
    /\ tx' = [tx EXCEPT ![t].look = NoLook]
    /\ UNCHANGED <<vertices, blocks, eids, loc, clock, log>>

\* A slot of the block with another edge record, version list and block min_ts.
Rewritten(b, o, slot, vs, min) == [b EXCEPT !.e[o] = slot, !.p[o] = vs, !.min = min]

Apply(t, op, NewDst, val, vs) ==
    LET e == tx[t].look.eid
        l == Located(t)
        b == blocks[l.b]
        old == b.e[l.o]
        new == [old EXCEPT !.ts = txn_id(t), !.dst = IF NewDst = NONE THEN @ ELSE NewDst]
    IN  /\ Active(t) /\ tx[t].look.op = op /\ l # NoLoc /\ ~b.dead
        /\ blocks' = [blocks EXCEPT ![l.b] = Rewritten(b, l.o, new, b.p[l.o] \o vs, Min({b.min, txn_id(t)}))]
        /\ loc' = [loc EXCEPT ![e] = l]
        /\ tx' = [tx EXCEPT ![t] = [push_undo(t, op, e, old.ts)
                                    EXCEPT !.snap[e] = IF NewDst = NONE THEN @ ELSE old.dst]]
        /\ log' = [log EXCEPT ![e] = Append(@, Version(txn_id(t), val))]
        /\ UNCHANGED <<vertices, eids, clock>>

set_edge_property_in_txn(t, val) == Apply(t, "set", NONE, val, <<Version(txn_id(t), val)>>)
\* The slot becomes a tombstone; the target is kept for a rollback.
delete_edge_in_txn(t) == Apply(t, "del", TOMBSTONE_DST_ID, NONE, <<>>)

\* The edges of the transaction, found through edge_id_map.
Mine(t) == {e \in Eids : /\ \E i \in DOMAIN tx[t].undo : tx[t].undo[i].eid = e
                         /\ Holds(blocks, loc[e], e) /\ blocks[loc[e].b].e[loc[e].o].ts = txn_id(t)}
FirstOp(t, e) == LET I == {i \in DOMAIN tx[t].undo : tx[t].undo[i].eid = e} IN tx[t].undo[Min(I)].op
\* Slip: property versions keep the transaction's id.
PromoteNothing(vs, t, ts) == vs
\* The last version of a slot, if it is the transaction's, is stamped.
PromoteLast(vs, t, ts) == IF vs # <<>> /\ vs[Len(vs)].ts = txn_id(t) THEN [vs EXCEPT ![Len(vs)].ts = ts] ELSE vs
\* Block-level min_ts after a commit.
LowerMin(min, ts) == IF is_txn_id(min) THEN ts ELSE Min({min, ts})

\* commit_at draws its timestamp before it waits for the edges lock.
DrawCommit(t) ==
    /\ Active(t) /\ AtRest(t)
    /\ clock' = clock + 1
    /\ tx' = [tx EXCEPT ![t].commit = clock + 1]
    /\ UNCHANGED <<vertices, blocks, eids, loc, log>>

\* The rest of commit_at.
commit_at(t) ==
    LET ts == tx[t].commit
        at(i, o) == blocks[i].e[o].eid \in Mine(t) /\ loc[blocks[i].e[o].eid] = [b |-> i, o |-> o]
    IN  /\ Active(t) /\ ts # NONE
        /\ blocks' = [i \in DOMAIN blocks |->
              [blocks[i] EXCEPT
                 !.e = [o \in Slots |-> IF at(i, o) THEN [@[o] EXCEPT !.ts = ts] ELSE @[o]],
                 !.p = [o \in Slots |-> IF at(i, o) /\ FirstOp(t, blocks[i].e[o].eid) # "del"
                                        THEN PromoteLast(@[o], t, ts) ELSE @[o]],
                 !.min = IF \E o \in Slots : at(i, o) THEN LowerMin(@, ts) ELSE @]]
        /\ tx' = [tx EXCEPT ![t] = NewTx("committed", tx[t].start)]
        /\ log' = [e \in Eids |-> [i \in DOMAIN log[e] |->
                      IF log[e][i].ts = txn_id(t) THEN [log[e][i] EXCEPT !.ts = ts] ELSE log[e][i]]]
        /\ UNCHANGED <<vertices, eids, loc, clock>>

\* One undo entry taken back; s holds the blocks and the map.
Undone(s, t, u) ==
    LET l == s.loc[u.eid]
        b == s.blocks[l.b]
        slot == b.e[l.o]
        with(c) == [s.blocks EXCEPT ![l.b] = c]
        less == with(Removed(b, l.o))
    IN  IF ~Holds(s.blocks, l, u.eid) THEN s
        ELSE CASE u.op = "create" /\ slot.ts = txn_id(t) ->
                    [blocks |-> less, loc |-> [Remapped(s.loc, less, l.b) EXCEPT ![u.eid] = NoLoc]]
               [] u.op = "del" ->
                    [s EXCEPT !.blocks = with(Rewritten(b, l.o, [slot EXCEPT !.ts = u.ts, !.dst = tx[t].snap[u.eid]],
                                                        b.p[l.o], b.min))]
               [] u.op = "set" ->
                    [s EXCEPT !.blocks = with(Rewritten(b, l.o, [slot EXCEPT !.ts = u.ts],
                                                        Without(b.p[l.o], t), b.min))]
               [] OTHER -> s

\* The entries in reverse order: the store once n of them are taken back.
TakenBack(t) ==
    LET undo == tx[t].undo
        back[n \in 0 .. Len(undo)] ==
            IF n = 0 THEN [blocks |-> blocks, loc |-> loc]
            ELSE Undone(back[n - 1], t, undo[Len(undo) + 1 - n])
    IN  back
RolledBack(t) == TakenBack(t)[Len(tx[t].undo)]

abort(t) ==
    /\ Active(t) /\ AtRest(t)
    /\ blocks' = RolledBack(t).blocks /\ loc' = RolledBack(t).loc
    /\ tx' = [tx EXCEPT ![t] = NewTx("aborted", tx[t].start)]
    /\ log' = [e \in Eids |-> Without(log[e], t)]
    /\ UNCHANGED <<vertices, eids, clock>>

-----------------------------------------------------------------------------
(* Compaction, the last thing that happens, between transactions: the arrays *)
(* it empties are not looked at again.  A timestamp marks every compressed   *)
(* block and column.                                                         *)

Quiet == phase = "run" /\ \A t \in Txns : tx[t].st # "active"

Word == 16          \* stands for 2^64
\* Slip: one bit too few.
widthLess(delta) == CHOOSE w \in 1 .. 5 : 2 ^ (w + 1) > delta /\ (w = 1 \/ 2 ^ w <= delta)
width(delta) == CHOOSE w \in 1 .. 5 : 2 ^ w > delta /\ (w = 1 \/ 2 ^ (w - 1) <= delta)
Delta(b, o) == (b.e[o].dst - b.e[o - 1].dst) % Word
Backwards(b) == \E o \in 2 .. b.n : b.e[o].dst < b.e[o - 1].dst
\* One block: the widest difference up to the first tombstone decides how many
\* bits of every difference are kept.
CompressedEdges(b) ==
    LET seen == {o \in 2 .. BLOCK_CAPACITY : \A i \in 2 .. o : ~IsTombstone(b.e[i])}
        w == width(Max({0} \cup {Delta(b, o) : o \in seen}))
    IN  [first |-> b.e[1].dst, n |-> b.n, bits |-> [o \in 2 .. b.n |-> Delta(b, o) % 2 ^ w]]

\* An empty block, and in a debug build a difference below zero, is a panic.
compress_edge ==
    /\ Quiet
    /\ \/ phase' = "poisoned" /\ \E i \in DOMAIN blocks : blocks[i].n = 0 \/ Backwards(blocks[i])
       \/ phase' = "packed" /\ \A i \in DOMAIN blocks : blocks[i].n # 0
    /\ clock' = clock + Len(blocks)
    /\ UNCHANGED <<loads, store, blocks, eids, loc, tx, log>>

\* One column: which slots have a committed value, and those values.
CompressedProps(b) ==
    LET value(o) == latest_committed_prop_value(b.p[o])
    IN  [bitmap |-> {o \in Slots : value(o) # NONE},
         values |-> SelectSeq([o \in Slots |-> value(o)], LAMBDA v : v # NONE)]

compress_property ==
    /\ Quiet /\ phase' = "packed" /\ clock' = clock + 1
    /\ UNCHANGED <<loads, store, blocks, eids, loc, tx, log>>

\* Every write has a value of its own.
NewValue == 1 + Max({0} \cup UNION {{log[e][i].val : i \in DOMAIN log[e]} : e \in Eids})

Next ==
    \/ \E v \in Vertices : create_vertex(v) \/ delete_vertex(v) \/ set_vertex_property(v, 1)
    \/ \E v \in Vertices, d \in Dsts : create_edge(v, d, NewValue)
    \/ \E e \in Eids : delete_edge(e) \/ set_edge_property(e, NewValue)
    \/ EndLoad \/ compress_edge \/ compress_property
    \/ \E t \in Txns :
          \/ Begin(t) \/ LookedInVain(t) \/ delete_edge_in_txn(t)
          \/ DrawCommit(t) \/ commit_at(t) \/ abort(t)
          \/ \E v \in Vertices, d \in Dsts : create_edge_in_txn(t, v, d, IF t \in Bare THEN NONE ELSE NewValue)
          \/ \E op \in {"set", "del"}, e \in Eids : LookUp(t, op, e)
          \/ set_edge_property_in_txn(t, NewValue)

Spec == Init /\ [][Next]_vars

-----------------------------------------------------------------------------
(* Properties.                                                               *)

Running == phase = "run"
Last(e) == log[e][Len(log[e])]
InDeadBlock(e) == loc[e] # NoLoc /\ blocks[loc[e].b].dead
\* What the transaction should read of the edge: its own last write, or the last
\* commit of its snapshot.
Expected(t, e) == LastValue(log[e], {i \in DOMAIN log[e] : Sees(t, log[e][i].ts)})

Deleted(b) == \E o \in 1 .. b.n : IsTombstone(b.e[o])
NoneDeleted == ~\E b \in DOMAIN blocks : Deleted(blocks[b])
AdjacencyOf(v) == {e \in 1 .. eids : loc[e] # NoLoc /\ \E k \in DOMAIN Chain(get_vertex(v).block) :
                                        Chain(get_vertex(v).block)[k] = loc[e].b}
LastCommitted(e) == Found(blocks[loc[e].b].e[loc[e].o].dst, Last(e).val)

\* A write that saw the edge's location before it took the lock still finds the
\* edge, although other calls have moved it meanwhile.
StaleLookupRepaired ==
    \A t \in Txns : (tx[t].look # NoLook /\ loc[tx[t].look.eid] # NoLoc) =>
        Holds(blocks, Located(t), tx[t].look.eid)

Target(c) == LET dst[o \in 1 .. c.n] == IF o = 1 THEN c.first ELSE dst[o - 1] + c.bits[o] IN dst
Rank(c, o) == Cardinality({i \in c.bitmap : i <= o})
Committed(e) == {i \in DOMAIN log[e] : ~is_txn_id(log[e][i].ts) /\ log[e][i].val # NONE}

\* What compress_edge keeps of a block whose targets are in order and of which
\* no edge is deleted.
TargetsKept(b) ==
    b.n # 0 /\ ~Deleted(b) /\ ~Backwards(b) => Target(CompressedEdges(b)) = [o \in 1 .. b.n |-> b.e[o].dst]
\* What compress_property keeps of a committed edge.
ValuesKept(b) ==
    LET c == CompressedProps(b)
    IN  \A o \in c.bitmap \cap (1 .. b.n) :
          LET e == b.e[o].eid
          IN  log[e] # <<>> /\ ~is_txn_id(log[e][1].ts) =>
                c.values[Rank(c, o)] = LastValue(log[e], Committed(e))
\* What EdgeIter and AdjacencyIterator find while no block holds a deleted edge.
LatestScans ==
    LET live == {e \in Eids : loc[e] # NoLoc /\ ~InDeadBlock(e)}
    IN  /\ iter_edges = {<<e, LastCommitted(e)>> : e \in live}
        /\ \A v \in Vertices : vmap[v] \in DOMAIN vertices =>
              iter_adjacency(v) = AdjacencyOf(v) \cap live

\* What ignores snapshots keeps to what is committed.  compress_edge keeps the
\* targets and compress_property the last committed values, whatever running
\* transactions have written over them; between transactions EdgeIter and
\* AdjacencyIterator show every edge once with its last committed value.
LatestFaithful ==
    /\ \A i \in DOMAIN blocks : TargetsKept(blocks[i]) /\ ValuesKept(blocks[i])
    /\ Quiet /\ NoneDeleted => LatestScans
=============================================================================
