-------------------------- MODULE SnapshotIsolation --------------------------
(***************************************************************************)
(* What minigu-storage promises a client of IsolationLevel::Snapshot: a    *)
(* transaction works on a private copy of the committed graph taken when   *)
(* it begins; commit installs the records it wrote, atomically, and only   *)
(* if nobody else installed one of them in the meantime; abort leaves no   *)
(* trace.                                                                  *)
(***************************************************************************)
CONSTANTS Txns, Keys, Image

VARIABLES
    db,     \* the committed graph
    phase,  \* transaction -> new, open, committed or aborted
    view,   \* open transaction -> what it reads
    dirty,  \* open transaction -> keys it wrote
    stale   \* open transaction -> keys installed by others since it began

vars == <<db, phase, view, dirty, stale>>
NoView == <<>>

Init ==
    /\ db \in [Keys -> Image]
    /\ phase = [t \in Txns |-> "new"]
    /\ view = [t \in Txns |-> NoView]
    /\ dirty = [t \in Txns |-> {}]
    /\ stale = [t \in Txns |-> {}]

Begin(t) ==
    /\ phase[t] = "new"
    /\ phase' = [phase EXCEPT ![t] = "open"]
    /\ view' = [view EXCEPT ![t] = db]
    /\ UNCHANGED <<db, dirty, stale>>

\* One call may write several keys: deleting a vertex deletes its edges.
Write(t) ==
    /\ phase[t] = "open"
    /\ \E K \in SUBSET Keys :
          /\ dirty' = [dirty EXCEPT ![t] = @ \cup K]
          /\ \E new \in [K -> Image] :
                view' = [view EXCEPT ![t] = [k \in Keys |-> IF k \in K THEN new[k] ELSE @[k]]]
    /\ UNCHANGED <<db, phase, stale>>

\* t is over: it keeps neither a view nor a write set.
Close(t, how) ==
    /\ phase' = [phase EXCEPT ![t] = how]
    /\ view' = [view EXCEPT ![t] = NoView]
    /\ dirty' = [dirty EXCEPT ![t] = {}]

Commit(t) ==
    /\ phase[t] = "open"
    /\ dirty[t] \cap stale[t] = {}
    /\ db' = [k \in Keys |-> IF k \in dirty[t] THEN view[t][k] ELSE db[k]]
    /\ stale' = [u \in Txns |-> IF u = t THEN {}
                                ELSE IF phase[u] = "open" THEN stale[u] \cup dirty[t]
                                ELSE stale[u]]
    /\ Close(t, "committed")

Abort(t) ==
    /\ phase[t] = "open"
    /\ stale' = [stale EXCEPT ![t] = {}]
    /\ Close(t, "aborted")
    /\ UNCHANGED db

Next == \E t \in Txns : Begin(t) \/ Write(t) \/ Commit(t) \/ Abort(t)

Spec == Init /\ [][Next]_vars
=============================================================================
