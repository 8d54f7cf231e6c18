----------------------------- MODULE OlapReaders ----------------------------
(***************************************************************************)
(* A reader of the analytical storage beside the writers of OlapGraph.     *)
(* get_edge_at_ts and get_edge look at edge_id_map and then take the edges *)
(* lock; EdgeIterAtTs takes the lock in each next() and keeps a block and  *)
(* an offset between them, AdjacencyIteratorAtTs takes it for each slot.   *)
(* A writer that comes between two steps may have moved the edge, or the   *)
(* slots on either side of the cursor.  A reader changes nothing in the    *)
(* store, so readers do not meet and one of them stands for all.           *)
(*                                                                         *)
(* A transaction is used by one thread: in a point read it does nothing    *)
(* else, during a scan it may write between two calls of next(), and it    *)
(* drops the iterator before it commits or aborts.                         *)
(***************************************************************************)
EXTENDS OlapGraph

CONSTANT Readers    \* the transactions that read

VARIABLES
    call,       \* the reader's call: what, for whom, of which edge, and where it is
    steady,     \* the edges that the scan could have read in their place at all times
    given       \* how often it has returned each of them

readerVars == <<call, steady, given>>
allVars == <<vars, readerVars>>

NoCall == [op |-> "none", t |-> NONE, eid |-> NONE, at |-> NoLoc]
Call(op, t, e, l) == [op |-> op, t |-> t, eid |-> e, at |-> l]
NoneGiven == [e \in Eids |-> 0]

ReadInit == Init /\ call = NoCall /\ steady = {} /\ given = NoneGiven

-----------------------------------------------------------------------------
(* Point reads.                                                              *)

MayRead(t) == phase = "run" /\ tx[t].st = "active" /\ AtRest(t) /\ call = NoCall
Reading(op) == phase = "run" /\ call.op = op /\ AtRest(call.t)

\* edge_id_map is read; an edge that is not in it is not found.
LookFor(t, e) ==
    /\ MayRead(t) /\ loc[e] # NoLoc
    /\ call' = Call("get", t, e, loc[e])
    /\ UNCHANGED <<steady, given>>

\* get_edge_at_ts and get_edge return under the lock what is at that place now.
Looked == Reading("get") /\ call' = NoCall /\ UNCHANGED <<steady, given>>

-----------------------------------------------------------------------------
(* Scans.                                                                    *)

\* The transaction finds the edge, and for AdjacencyIteratorAtTs no deleted one
\* is in front of it in its block.
Readable(op, t, e) ==
    /\ get_edge_at_ts(t, e, loc[e]).found
    /\ op = "adjacent" => \A o \in 1 .. loc[e].o : ~IsTombstone(blocks[loc[e].b].e[o])

\* The new scan, and which edges it has to return.
Scan(op, t, l, among) ==
    /\ MayRead(t)
    /\ call' = Call(op, t, NONE, l)
    /\ steady' = {e \in among : Readable(op, t, e)}
    /\ given' = NoneGiven

iter_edges_at_ts(t) == Scan("edges", t, [b |-> 1, o |-> 1], Eids)
iter_adjacency_at_ts(t, v) ==
    /\ vmap[v] \in DOMAIN vertices
    /\ Scan("adjacent", t, [b |-> get_vertex(v).block, o |-> 1], AdjacencyOf(v))

\* The scan moves its cursor to m, without or with an edge that it returns.
Skip(m) == call' = [call EXCEPT !.at = m] /\ UNCHANGED <<steady, given>>
Return(e, m) ==
    /\ call' = [call EXCEPT !.at = m]
    /\ given' = IF e \in steady THEN [given EXCEPT ![e] = @ + 1] ELSE given
    /\ UNCHANGED steady
\* next() returns None and the iterator is dropped.
EndScan == call' = NoCall /\ steady' = {} /\ given' = NoneGiven

\* Slip: a tombstone ends the block.
ScanStopsAtTombstone(b) == [o \in Slots |-> IsTombstone(b.e[o])]
\* EdgeIterAtTs: edge id 0 ends the block, tombstones are passed over.
ScanStop(b) == [o \in Slots |-> b.e[o].eid = 0]

\* The place is behind the cursor, which goes from block to block.
Behind(l, c) == l.b < c.b \/ (l.b = c.b /\ l.o < c.o)
\* A scan at c that has come to l returns the edge in it.
Shown(t, c, l) ==
    LET b == blocks[l.b] IN
    /\ ~Behind(l, c) /\ ~b.dead /\ ~TooNew(b, t)
    /\ \A i \in (IF l.b = c.b THEN c.o ELSE 1) .. l.o : ~ScanStop(b)[i]
    /\ ~IsTombstone(b.e[l.o]) /\ Sees(t, b.e[l.o].ts)

\* EdgeIterAtTs::next, under one lock: on to the first edge to be shown.
edge_next ==
    LET shown == {l \in [b : DOMAIN blocks, o : Slots] : Shown(call.t, call.at, l)} IN
    /\ Reading("edges")
    /\ \/ shown = {} /\ EndScan
       \/ \E l \in shown : /\ \A m \in shown : ~Behind(m, l)
                           /\ Return(blocks[l.b].e[l.o].eid, [l EXCEPT !.o = @ + 1])

\* AdjacencyIteratorAtTs::next, one turn of its loop: the lock is taken in each.
adjacency_next ==
    LET l == call.at
        b == blocks[l.b]
    IN  /\ Reading("adjacent")
        /\ IF l.b = NONE THEN EndScan
           ELSE IF b.dead THEN Skip([l EXCEPT !.b = b.pre])
           ELSE IF TooNew(b, call.t) \/ l.o > BLOCK_CAPACITY \/ IsTombstone(b.e[l.o])
           THEN Skip([b |-> b.pre, o |-> 1])
           ELSE IF Sees(call.t, b.e[l.o].ts) THEN Return(b.e[l.o].eid, [l EXCEPT !.o = @ + 1])
           ELSE Skip([l EXCEPT !.o = @ + 1])

ReaderNext ==
    \/ \E t \in Txns \cap Readers :
          \/ iter_edges_at_ts(t) \/ \E e \in Eids : LookFor(t, e)
          \/ \E v \in Vertices : iter_adjacency_at_ts(t, v)
    \/ Looked \/ edge_next \/ adjacency_next

\* The thread of the reader's transaction.
OneThread ==
    /\ call.op = "get" => tx'[call.t] = tx[call.t]
    /\ call # NoCall => tx'[call.t].st = "active" /\ tx'[call.t].commit = NONE

\* A step of a writer: an edge it moves or hides is steady no more.
StorageNext ==
    /\ Next /\ OneThread
    /\ UNCHANGED call
    /\ steady' = {e \in steady : loc'[e] = loc[e] /\ Readable(call.op, call.t, e)'}
    /\ given' = [e \in Eids |-> IF e \in steady' THEN given[e] ELSE 0]

ReadNext == StorageNext \/ (ReaderNext /\ UNCHANGED vars)
ReadSpec == ReadInit /\ [][ReadNext]_allVars

-----------------------------------------------------------------------------
(* Properties.                                                               *)

\* A point read between its look at edge_id_map and the lock will give the
\* transaction its own write or the last commit of its snapshot, never another
\* edge's value, and get_edge agrees.  It may only miss an edge that has moved
\* since the look, that someone else has written since the snapshot, that is
\* deleted or in a deleted vertex's block, and, in a block whose min_ts is later
\* than the snapshot, an edge of its own or one that the loader wrote.
SnapshotReads ==
    call.op = "get" /\ Running =>
        LET t == call.t
            e == call.eid
            r == get_edge_at_ts(t, e, call.at)
        IN  \/ r.found /\ Sees(t, log[e][1].ts) /\ r.val = Expected(t, e) /\ get_edge(t, e, call.at) = r
            \/ ~r.found /\ \/ loc[e] # call.at \/ InDeadBlock(e)
                           \/ ~Sees(t, Last(e).ts) \/ Last(e).val = NONE
                           \/ Last(e).ts \in {0, txn_id(t)} /\ TooNew(blocks[loc[e].b], t)

\* However writers shift the slots between two calls of next(), a scan that ends
\* has returned every edge that kept its place and stayed readable, and once.
ScansReturnSteady ==
    [][call.op \in {"edges", "adjacent"} /\ call' = NoCall => \A e \in steady : given[e] = 1]_allVars
=============================================================================
