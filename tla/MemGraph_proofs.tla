-------------------------- MODULE MemGraph_proofs --------------------------
(***************************************************************************)
(* The watermark of the transaction manager, for any number of             *)
(* transactions, records and calls: while clients run one call at a time,  *)
(* it never passes the start of an active transaction.  Then the type      *)
(* invariant of MemGraph, for any interleaving of the calls.               *)
(***************************************************************************)
EXTENDS MemGraph, TLAPS, WellFoundedInduction, FiniteSetTheorems, SequenceTheorems

\* Where a transaction is that has not yet registered.
Unregistered == {"new", "id", "ts"}

\* Types of the variables the watermark depends on.
ManagerTypes ==
    /\ clock \in Nat /\ begun \in Nat
    /\ pc \in [Txns -> Places]
    /\ start \in [Txns -> Nat] /\ cts \in [Txns -> Nat]
    /\ active \subseteq Txns
    /\ latest \in Nat /\ watermark \in Nat

\* At most one thread is inside a call.
OneCall == \A t, u \in Txns : InCall(t) /\ InCall(u) => t = u

\* Every timestamp in use was drawn from the clock.
Drawn ==
    /\ latest < clock /\ watermark < clock
    /\ \A t \in Txns : start[t] < clock /\ cts[t] < clock

\* Ids are handed out in order, and only registered transactions are active.
IdsInOrder ==
    /\ \A t \in Txns : pc[t] = "new" <=> t > begun
    /\ \A t \in Txns : pc[t] \in {"id", "ts"} => t = begun
    /\ \A t \in active : pc[t] \notin Unregistered

\* Active transactions are ordered by start timestamp as they are by id, which
\* is what makes the first one by id the oldest.
StartsInOrder == \A t, u \in active : t < u => start[t] < start[u]

\* A transaction about to register is younger than everything else.
PendingIsYoungest ==
    \A t \in Txns : pc[t] = "ts" =>
        /\ watermark <= start[t] /\ latest <= start[t]
        /\ \A u \in active : start[u] < start[t]

IInv ==
    /\ Serialized
    /\ ManagerTypes
    /\ OneCall
    /\ Drawn
    /\ IdsInOrder
    /\ StartsInOrder
    /\ PendingIsYoungest
    /\ WatermarkSafe

-----------------------------------------------------------------------------
(* Min and Max.                                                              *)

LEMMA MinExists ==
  ASSUME NEW S \in SUBSET Nat, S # {}
  PROVE  Min(S) \in S /\ \A y \in S : Min(S) <= y
<1>1. PICK x \in S : \A y \in S : ~ (<<y, x>> \in OpToRel(<, Nat))
  BY WFMin, NatLessThanWellFounded, Zenon
<1>2. ASSUME NEW y \in S, y < x PROVE FALSE
  <2>1. <<y, x>> \in Nat \X Nat
    OBVIOUS
  <2>2. <<y, x>>[1] < <<y, x>>[2]
    BY <1>2
  <2>3. <<y, x>> \in OpToRel(<, Nat)
    BY <2>1, <2>2, Zenon DEF OpToRel
  <2> QED BY <1>1, <2>3, Zenon
<1>3. x \in Nat /\ \A y \in S : y \in Nat
  OBVIOUS
<1>4. \A y \in S : x <= y
  BY <1>2, <1>3
<1> QED BY <1>4 DEF Min

LEMMA MaxOfTwo ==
  ASSUME NEW a \in Nat, NEW b \in Nat
  PROVE  /\ Max({a, b}) \in {a, b}
         /\ a <= Max({a, b}) /\ b <= Max({a, b})
<1>1. \E x \in {a, b} : \A y \in {a, b} : x >= y
  BY a >= b \/ b >= a
<1> QED BY <1>1 DEF Max

-----------------------------------------------------------------------------
LEMMA InitIInv == Init /\ Serialized => IInv
<1> SUFFICES ASSUME Init, Serialized PROVE IInv
  OBVIOUS
<1>1. ManagerTypes
  BY DEF Init, ManagerTypes, Places
<1>2. OneCall
  BY DEF Init, OneCall, InCall
<1>3. Drawn /\ StartsInOrder /\ WatermarkSafe
  BY DEF Init, Drawn, StartsInOrder, WatermarkSafe
<1>4. IdsInOrder
  BY GraphAssumption DEF Init, IdsInOrder, Unregistered, Txns
<1>5. PendingIsYoungest
  BY DEF Init, PendingIsYoungest
<1> QED BY <1>1, <1>2, <1>3, <1>4, <1>5 DEF IInv

\* A step of a registered transaction's thread that the manager does not notice.
Quiet(t) ==
    /\ Turn(t) /\ pc[t] \notin Unregistered
    /\ \E where \in Places \ Unregistered : pc' = [pc EXCEPT ![t] = where]
    /\ UNCHANGED <<clock, begun, start, cts, active, latest, watermark>>

\* All but the steps of begin, the draw of a commit timestamp and the end of a
\* commit or an abort are quiet.
LEMMA QuietSteps ==
  ASSUME ManagerTypes, NEW t \in Txns,
         \/ Operation(t)
         \/ CommitLock(t) \/ Promote(t)
         \/ \E r \in Records : ApplyIntent(t, r) \/ PromoteIntent(t, r)
         \/ Abort(t) \/ AbortEntry(t)
  PROVE  Quiet(t)
<1> USE DEF Quiet, Unregistered, Goto, mgrVars, graphVars, txnVars
<1>0. pc \in [Txns -> Places] /\ (pc' = pc => pc' = [pc EXCEPT ![t] = pc[t]])
  BY DEF ManagerTypes
<1>1. CASE DeleteRecord(t)
  BY <1>0, <1>1 DEF DeleteRecord, Places
<1>2. ASSUME NEW r \in Records, Get(t, r) PROVE Quiet(t)
  BY <1>0, <1>2 DEF Get, MayCall, Places
<1>3. ASSUME NEW r \in Records, CreateCheck(t, r) PROVE Quiet(t)
  BY <1>0, <1>3 DEF CreateCheck, MayCall, Places
<1>4. ASSUME NEW r \in Records, CreatePessimistic(t, r) PROVE Quiet(t)
  BY <1>0, <1>4 DEF CreatePessimistic, Places
<1>5. ASSUME NEW r \in Records, CreateOptimistic(t, r) PROVE Quiet(t)
  BY <1>0, <1>5 DEF CreateOptimistic, Places
<1>6. ASSUME NEW r \in Records, DeleteCheck(t, r) PROVE Quiet(t)
  BY <1>0, <1>6 DEF DeleteCheck, MayCall, Places
<1>7. ASSUME NEW r \in Records, DeleteOptimistic(t, r) PROVE Quiet(t)
  BY <1>0, <1>7 DEF DeleteOptimistic, MayCall, Places
<1>8. ASSUME NEW r \in Records, NEW p \in Props, SetPessimistic(t, r, p) PROVE Quiet(t)
  BY <1>0, <1>8 DEF SetPessimistic, MayCall, Places
<1>9. ASSUME NEW r \in Records, NEW p \in Props, SetOptimistic(t, r, p) PROVE Quiet(t)
  BY <1>0, <1>9 DEF SetOptimistic, MayCall, Places
<1>10. CASE CommitLock(t)
  BY <1>0, <1>10 DEF CommitLock, Places
<1>11. CASE Promote(t)
  BY <1>0, <1>11 DEF Promote, Places
<1>12. ASSUME NEW r \in Records, ApplyIntent(t, r) PROVE Quiet(t)
  BY <1>0, <1>12 DEF ApplyIntent, Places
<1>13. ASSUME NEW r \in Records, PromoteIntent(t, r) PROVE Quiet(t)
  BY <1>0, <1>13 DEF PromoteIntent, Places
<1>14. CASE Abort(t)
  BY <1>0, <1>14 DEF Abort, Places
<1>15. CASE AbortEntry(t)
  BY <1>0, <1>15 DEF AbortEntry, Places
<1> QED
  BY <1>1, <1>2, <1>3, <1>4, <1>5, <1>6, <1>7, <1>8, <1>9, <1>10, <1>11, <1>12, <1>13, <1>14,
     <1>15 DEF Operation

LEMMA QuietIInv ==
  ASSUME IInv, NEW t \in Txns, Quiet(t)
  PROVE  IInv'
<1> USE DEF IInv
<1>1. PICK where \in Places \ Unregistered : pc' = [pc EXCEPT ![t] = where]
  BY DEF Quiet
<1>2. /\ pc' \in [Txns -> Places]
      /\ \A u \in Txns : u # t => pc'[u] = pc[u]
      /\ pc[t] \notin Unregistered /\ pc'[t] \notin Unregistered
  BY <1>1 DEF ManagerTypes, Quiet
<1>3. UNCHANGED <<clock, begun, start, cts, active, latest, watermark>>
  BY DEF Quiet
<1>4. \A u \in Txns : u # t => ~InCall(u) /\ ~InCall(u)'
  BY <1>2 DEF Quiet, Turn, InCall
<1>5. ManagerTypes' /\ Drawn' /\ StartsInOrder' /\ WatermarkSafe'
  BY <1>2, <1>3 DEF ManagerTypes, Drawn, StartsInOrder, WatermarkSafe
<1>6. OneCall'
  BY <1>4 DEF OneCall
<1>7. IdsInOrder'
  BY <1>2, <1>3 DEF IdsInOrder, Unregistered, ManagerTypes
<1>8. PendingIsYoungest'
  BY <1>2, <1>3 DEF PendingIsYoungest, Unregistered
<1> QED BY <1>5, <1>6, <1>7, <1>8

\* What every step of thread t does to pc, and what being alone in a call gives.
LEMMA AloneInCall ==
  ASSUME IInv, NEW t \in Txns, Turn(t), NEW where \in Places, pc' = [pc EXCEPT ![t] = where]
  PROVE  /\ pc' \in [Txns -> Places] /\ pc'[t] = where
         /\ \A u \in Txns : u # t => pc'[u] = pc[u] /\ pc[u] \notin {"id", "ts"}
         /\ OneCall'
<1>1. /\ pc' \in [Txns -> Places] /\ pc'[t] = where
      /\ \A u \in Txns : u # t => pc'[u] = pc[u]
  BY DEF IInv, ManagerTypes
<1>2. \A u \in Txns : u # t => ~InCall(u) /\ ~InCall(u)'
  BY <1>1 DEF IInv, Turn, InCall
<1>3. \A u \in Txns : u # t => pc[u] \notin {"id", "ts"}
  BY <1>2 DEF InCall
<1>4. OneCall'
  BY <1>2 DEF OneCall
<1> QED BY <1>1, <1>3, <1>4

LEMMA DrawIdIInv ==
  ASSUME IInv, NEW t \in Txns, BeginDrawId(t)
  PROVE  IInv'
<1> USE DEF IInv
<1>1. /\ Turn(t) /\ pc[t] = "new" /\ t = begun + 1 /\ begun' = t
      /\ pc' = [pc EXCEPT ![t] = "id"]
      /\ UNCHANGED <<clock, start, cts, active, latest, watermark>>
  BY DEF BeginDrawId, Goto, mgrVars
<1>2. /\ pc' \in [Txns -> Places] /\ pc'[t] = "id"
      /\ \A u \in Txns : u # t => pc'[u] = pc[u] /\ pc[u] \notin {"id", "ts"}
      /\ OneCall'
  BY <1>1, AloneInCall DEF Places
<1>3. ManagerTypes' /\ Drawn' /\ StartsInOrder' /\ WatermarkSafe'
  BY <1>1, <1>2 DEF ManagerTypes, Drawn, StartsInOrder, WatermarkSafe
<1>4. IdsInOrder'
  <2>1. t \in Nat /\ begun \in Nat /\ \A u \in Txns : u \in Nat
    BY GraphAssumption DEF ManagerTypes, Txns
  <2>2. \A u \in Txns : pc'[u] = "new" <=> u > begun'
    BY <1>1, <1>2, <2>1 DEF IdsInOrder
  <2> QED BY <1>1, <1>2, <2>2 DEF IdsInOrder, Unregistered, ManagerTypes
<1>5. PendingIsYoungest'
  BY <1>1, <1>2 DEF PendingIsYoungest
<1> QED BY <1>2, <1>3, <1>4, <1>5

LEMMA DrawTsIInv ==
  ASSUME IInv, NEW t \in Txns, BeginDrawTs(t)
  PROVE  IInv'
<1> USE DEF IInv
<1>1. /\ Turn(t) /\ pc[t] = "id"
      /\ start' = [start EXCEPT ![t] = clock] /\ clock' = clock + 1
      /\ pc' = [pc EXCEPT ![t] = "ts"]
      /\ UNCHANGED <<begun, cts, active, latest, watermark>>
  BY DEF BeginDrawTs, Goto, mgrVars
<1>2. /\ pc' \in [Txns -> Places] /\ pc'[t] = "ts"
      /\ \A u \in Txns : u # t => pc'[u] = pc[u] /\ pc[u] \notin {"id", "ts"}
      /\ OneCall'
  BY <1>1, AloneInCall DEF Places
<1>3. start' \in [Txns -> Nat] /\ start'[t] = clock /\ t \notin active
      /\ \A u \in Txns : u # t => start'[u] = start[u]
  BY <1>1 DEF ManagerTypes, IdsInOrder, Unregistered
<1>4. ManagerTypes' /\ Drawn'
  BY <1>1, <1>2, <1>3 DEF ManagerTypes, Drawn
<1>5. \A u \in active : u \in Txns /\ u # t /\ start'[u] = start[u]
  BY <1>3 DEF ManagerTypes
<1>6. StartsInOrder' /\ WatermarkSafe'
  BY <1>1, <1>5 DEF StartsInOrder, WatermarkSafe
<1>7. IdsInOrder'
  BY <1>1, <1>2, <1>3 DEF IdsInOrder, Unregistered, ManagerTypes
<1>8. PendingIsYoungest'
  BY <1>1, <1>2, <1>3, <1>5 DEF PendingIsYoungest, Drawn, ManagerTypes
<1> QED BY <1>2, <1>4, <1>6, <1>7, <1>8

\* update_watermark with a set of active transactions that are in start order.
LEMMA NewWatermarkBound ==
  ASSUME IInv, NEW act \in SUBSET Txns, NEW lat \in Nat, lat < clock,
         \A t, u \in act : t < u => start[t] < start[u]
  PROVE  /\ NewWatermark(act, lat) \in Nat /\ NewWatermark(act, lat) < clock
         /\ (\A t \in act : watermark <= start[t]) =>
               \A t \in act : NewWatermark(act, lat) <= start[t]
<1> DEFINE new == IF act = {} THEN lat ELSE start[Min(act)]
<1>1. /\ watermark \in Nat /\ watermark < clock /\ clock \in Nat
      /\ \A t \in Txns : start[t] \in Nat /\ start[t] < clock
  BY DEF IInv, ManagerTypes, Drawn
<1>2. \A t \in Txns : t \in Nat
  BY GraphAssumption DEF Txns
<1>3. act # {} => Min(act) \in act /\ \A t \in act : start[Min(act)] <= start[t]
  <2> SUFFICES ASSUME act # {}
               PROVE  Min(act) \in act /\ \A t \in act : start[Min(act)] <= start[t]
    OBVIOUS
  <2>1. act \in SUBSET Nat
    BY <1>2
  <2>2. Min(act) \in act /\ \A t \in act : Min(act) <= t
    BY <2>1, MinExists
  <2>3. PICK m \in act : m = Min(act)
    BY <2>2
  <2>4. \A t \in act : m = t \/ m < t
    BY <2>1, <2>2, <2>3
  <2>5. \A t \in act : start[m] <= start[t]
    BY <1>1, <2>4
  <2> QED BY <2>3, <2>5
<1>4. new \in Nat /\ new < clock /\ \A t \in act : new <= start[t]
  BY <1>1, <1>3
<1> HIDE DEF new
<1>5. NewWatermark(act, lat) \in {watermark, new}
  BY <1>1, <1>4, MaxOfTwo DEF NewWatermark, new
<1> QED BY <1>1, <1>4, <1>5

LEMMA RegisterIInv ==
  ASSUME IInv, NEW t \in Txns, BeginRegister(t)
  PROVE  IInv'
<1> USE DEF IInv
<1>1. /\ Turn(t) /\ pc[t] = "ts"
      /\ active' = active \cup {t} /\ watermark' = NewWatermark(active', latest)
      /\ pc' = [pc EXCEPT ![t] = "run"]
      /\ UNCHANGED <<clock, begun, start, cts, latest>>
  BY DEF BeginRegister, Goto
<1>2. /\ pc' \in [Txns -> Places] /\ pc'[t] = "run"
      /\ \A u \in Txns : u # t => pc'[u] = pc[u] /\ pc[u] \notin {"id", "ts"}
      /\ OneCall'
  BY <1>1, AloneInCall DEF Places
<1>3. \A u \in active' : u \in Txns /\ u \in Nat /\ watermark <= start[u]
  BY <1>1, GraphAssumption DEF ManagerTypes, WatermarkSafe, PendingIsYoungest, Txns
<1>4. \A u \in active : u < t /\ start[u] < start[t]
  <2>1. t = begun /\ \A u \in active : ~(u > begun) /\ u # t /\ start[u] < start[t]
    BY <1>1 DEF IdsInOrder, Unregistered, PendingIsYoungest, ManagerTypes
  <2> QED BY <1>1, <1>3, <2>1 DEF ManagerTypes
<1>5. \A u, v \in active' : u < v => start[u] < start[v]
  <2> SUFFICES ASSUME NEW u \in active', NEW v \in active', u < v PROVE start[u] < start[v]
    OBVIOUS
  <2>1. u \in Nat /\ v \in Nat
    BY <1>3
  <2>2. CASE u \in active /\ v \in active
    BY <2>2 DEF StartsInOrder
  <2>3. CASE u \in active /\ v = t
    BY <1>4, <2>3
  <2>4. CASE u = t
    BY <1>1, <1>4, <2>1, <2>4
  <2> QED BY <1>1, <2>2, <2>3, <2>4
<1>6. watermark' \in Nat /\ watermark' < clock /\ \A u \in active' : watermark' <= start[u]
  <2>1. active' \in SUBSET Txns /\ latest \in Nat /\ latest < clock
    BY <1>3 DEF ManagerTypes, Drawn
  <2> QED BY <1>1, <1>3, <1>5, <2>1, NewWatermarkBound
<1>7. ManagerTypes' /\ Drawn' /\ StartsInOrder' /\ WatermarkSafe'
  BY <1>1, <1>2, <1>3, <1>5, <1>6 DEF ManagerTypes, Drawn, StartsInOrder, WatermarkSafe
<1>8. IdsInOrder'
  BY <1>1, <1>2 DEF IdsInOrder, Unregistered, ManagerTypes
<1>9. PendingIsYoungest'
  BY <1>1, <1>2 DEF PendingIsYoungest
<1> QED BY <1>1, <1>2, <1>7, <1>8, <1>9

LEMMA CommitDrawTsIInv ==
  ASSUME IInv, NEW t \in Txns, CommitDrawTs(t)
  PROVE  IInv'
<1> USE DEF IInv
<1>1. /\ Turn(t) /\ pc[t] = "run"
      /\ cts' = [cts EXCEPT ![t] = clock] /\ clock' = clock + 1
      /\ pc' = [pc EXCEPT ![t] = "commit"]
      /\ UNCHANGED <<begun, start, active, latest, watermark>>
  BY DEF CommitDrawTs, Goto, mgrVars
<1>2. /\ pc' \in [Txns -> Places] /\ pc'[t] = "commit"
      /\ \A u \in Txns : u # t => pc'[u] = pc[u] /\ pc[u] \notin {"id", "ts"}
      /\ OneCall'
  BY <1>1, AloneInCall DEF Places
<1>3. ManagerTypes' /\ Drawn'
  BY <1>1, <1>2 DEF ManagerTypes, Drawn
<1>4. StartsInOrder' /\ WatermarkSafe'
  BY <1>1 DEF StartsInOrder, WatermarkSafe
<1>5. IdsInOrder'
  BY <1>1, <1>2 DEF IdsInOrder, Unregistered, ManagerTypes
<1>6. PendingIsYoungest'
  BY <1>1, <1>2 DEF PendingIsYoungest
<1> QED BY <1>2, <1>3, <1>4, <1>5, <1>6

\* The end of a commit (lat is its timestamp) or of an abort.
LEMMA FinishIInv ==
  ASSUME IInv, NEW t \in Txns, CommitFinish(t) \/ AbortFinish(t)
  PROVE  IInv'
<1> USE DEF IInv
<1>1. PICK lat \in Nat, where \in {"committed", "aborted"} :
         /\ lat < clock /\ latest' = lat /\ active' = active \ {t}
         /\ watermark' = NewWatermark(active', lat)
         /\ pc' = [pc EXCEPT ![t] = where]
  <2>1. CASE CommitFinish(t)
    BY <2>1 DEF CommitFinish, Finish, Goto, ManagerTypes, Drawn
  <2>2. CASE AbortFinish(t)
    BY <2>2 DEF AbortFinish, Finish, Goto, ManagerTypes, Drawn
  <2> QED BY <2>1, <2>2
<1>2. Turn(t) /\ pc[t] \in {"promote", "abort"} /\ UNCHANGED <<clock, begun, start, cts>>
  BY DEF CommitFinish, AbortFinish
<1>3. /\ pc' \in [Txns -> Places] /\ pc'[t] = where
      /\ \A u \in Txns : u # t => pc'[u] = pc[u] /\ pc[u] \notin {"id", "ts"}
      /\ OneCall'
  BY <1>1, <1>2, AloneInCall DEF Places
<1>4. active' \in SUBSET Txns /\ \A u \in active' : u \in active /\ watermark <= start[u]
  BY <1>1 DEF ManagerTypes, WatermarkSafe
<1>5. \A u, v \in active' : u < v => start[u] < start[v]
  BY <1>4 DEF StartsInOrder
<1>6. watermark' \in Nat /\ watermark' < clock /\ \A u \in active' : watermark' <= start[u]
  BY <1>1, <1>4, <1>5, NewWatermarkBound
<1>7. ManagerTypes' /\ Drawn' /\ StartsInOrder' /\ WatermarkSafe'
  BY <1>1, <1>2, <1>3, <1>4, <1>5, <1>6 DEF ManagerTypes, Drawn, StartsInOrder, WatermarkSafe
<1>8. IdsInOrder'
  BY <1>1, <1>2, <1>3, <1>4 DEF IdsInOrder, Unregistered, ManagerTypes
<1>9. PendingIsYoungest'
  BY <1>1, <1>2, <1>3 DEF PendingIsYoungest
<1> QED BY <1>3, <1>7, <1>8, <1>9

LEMMA StepIInv == IInv /\ [Next]_vars => IInv'
<1> SUFFICES ASSUME IInv, [Next]_vars PROVE IInv'
  OBVIOUS
<1>1. CASE UNCHANGED vars
  BY <1>1 DEF IInv, ManagerTypes, OneCall, InCall, Drawn, IdsInOrder, StartsInOrder,
     PendingIsYoungest, WatermarkSafe, vars, mgrVars
<1>2. ASSUME NEW t \in Txns, Begin(t) PROVE IInv'
  BY <1>2, DrawIdIInv, DrawTsIInv, RegisterIInv DEF Begin
<1>3. ASSUME NEW t \in Txns, Operation(t) PROVE IInv'
  <2>1. Quiet(t)
    BY <1>3, QuietSteps DEF IInv
  <2> QED BY <2>1, QuietIInv
<1>4. ASSUME NEW t \in Txns, Commit(t) PROVE IInv'
  <2>1. CASE CommitDrawTs(t)
    BY <2>1, CommitDrawTsIInv
  <2>2. CASE CommitFinish(t)
    BY <2>2, FinishIInv
  <2>3. CASE \/ CommitLock(t) \/ Promote(t)
             \/ \E r \in Records : ApplyIntent(t, r) \/ PromoteIntent(t, r)
    <3>1. Quiet(t)
      BY <2>3, QuietSteps DEF IInv
    <3> QED BY <3>1, QuietIInv
  <2> QED BY <1>4, <2>1, <2>2, <2>3 DEF Commit
<1>5. ASSUME NEW t \in Txns, Rollbacks(t) PROVE IInv'
  <2>1. CASE AbortFinish(t)
    BY <2>1, FinishIInv
  <2>2. CASE Abort(t) \/ AbortEntry(t)
    <3>1. Quiet(t)
      BY <2>2, QuietSteps DEF IInv
    <3> QED BY <3>1, QuietIInv
  <2> QED BY <1>5, <2>1, <2>2 DEF Rollbacks
<1> QED BY <1>1, <1>2, <1>3, <1>4, <1>5 DEF Next

(* While clients run one call at a time, the manager's view is consistent:   *)
(* ids and start timestamps are in the same order, and the watermark and     *)
(* every timestamp in use were drawn before the next one.                    *)
THEOREM ManagerInvariant == Serialized /\ Spec => []IInv
  BY InitIInv, StepIInv, PTL DEF Spec

(* While clients run one call at a time, the watermark computed by           *)
(* update_watermark from the first active transaction by id is at or below   *)
(* the start of every active one, so garbage_collect drops no undo entry an  *)
(* active transaction still needs.                                           *)
THEOREM WatermarkHolds == Serialized /\ Spec => []WatermarkSafe
<1>1. IInv => WatermarkSafe
  BY DEF IInv
<1> QED BY <1>1, ManagerInvariant, PTL

-----------------------------------------------------------------------------
(* The type invariant, whether or not clients run one call at a time.        *)

\* A delete call has a record left to visit.
Targeted == \A t \in Txns : pc[t] = "delete" => target[t] # <<>>

\* Phase 2 of an optimistic commit visits records that have an intent.
Applying == \A t \in Txns : pc[t] = "apply" => left[t] \subseteq Intents(t)

TInv == TypeOK /\ Targeted /\ Applying

-----------------------------------------------------------------------------
(* What the operators of VersionChain and MemGraph return.                   *)

LEMMA TxnsAreNat ==
  ASSUME NEW t \in Txns
  PROVE  t \in Nat /\ t \in 0 .. MaxTxn /\ TxnId(t) \in Nat
BY GraphAssumption DEF Txns, TxnId

LEMMA EndPoints ==
  ASSUME NEW e \in Edges
  PROVE  Src[e] \in Records /\ Dst[e] \in Records
BY GraphAssumption DEF Records

LEMMA NothingTyped == NoImage \in Image /\ NoIntent \in Intent /\ NoHead \in Version
<1>1. NoProps \in [Props -> 0 .. MaxTxn]
  BY GraphAssumption DEF NoProps
<1>2. NoImage \in Image
  BY <1>1 DEF NoImage, Image
<1>3. NoHead \in Version
  BY <1>1, <1>2 DEF NoHead, HeadOf, NoImage, Version, Ts
<1> QED BY <1>2, <1>3 DEF NoIntent, Intent, Ts

LEMMA VersionTyped ==
  ASSUME NEW v \in Version
  PROVE  ImageOf(v) \in Image /\ v.cts \in Nat
BY DEF Version, ImageOf, Image, Ts

LEMMA HeadTyped ==
  ASSUME NEW img \in Image, NEW ts \in Nat
  PROVE  HeadOf(img, ts) \in Version
BY DEF HeadOf, Image, Version, Ts

LEMMA DeltaTyped ==
  ASSUME NEW t \in Txns, NEW img \in Image, NEW ts \in Nat, NEW idx \in SUBSET Props
  PROVE  /\ CreateDelta(t, img, ts) \in Delta
         /\ SetDelta(t, idx, img, ts) \in Delta
         /\ DelDelta(t, ts) \in Delta
<1>1. NoImage \in Image
  BY NothingTyped
<1> QED BY <1>1 DEF CreateDelta, SetDelta, DelDelta, Delta, Ts

LEMMA RollbackTyped ==
  ASSUME NEW v \in Version, NEW e \in Delta
  PROVE  Rollback(v, e) \in Version
<1>1. set_props(v.props, e.idx, e.img.props) \in [Props -> 0 .. MaxTxn]
  BY DEF set_props, Version, Delta, Image
<1> QED BY <1>1 DEF Rollback, Version, Delta

\* Replaying undo entries gives an image.
LEMMA ReplayTyped ==
  ASSUME NEW img \in Image, NEW c \in Seq(Delta), NEW k
  PROVE  Replay(img, c, k) \in Image
<1> DEFINE deltas == {i \in 1 .. Len(c) : i >= k}
           For(p) == {i \in deltas : p \in c[i].idx}
           Whole == {i \in deltas : c[i].op # "SetProps"}
           props == [p \in Props |-> IF For(p) = {} THEN img.props[p]
                                     ELSE c[Min(For(p))].img.props[p]]
           tomb == IF Whole = {} THEN img.tomb ELSE c[Min(Whole)].img.tomb
<1>1. Replay(img, c, k) = [props |-> props, tomb |-> tomb]
  BY DEF Replay
<1>2. ASSUME NEW S \in SUBSET deltas, S # {} PROVE c[Min(S)].img \in Image
  <2>1. S \in SUBSET Nat /\ S \subseteq 1 .. Len(c)
    OBVIOUS
  <2>2. Min(S) \in S
    BY <1>2, <2>1, MinExists
  <2>3. PICK m \in S : m = Min(S)
    BY <2>2
  <2>4. c[m] \in Delta
    BY <2>1
  <2> QED BY <2>3, <2>4 DEF Delta
<1>3. tomb \in BOOLEAN
  <2>1. Whole \in SUBSET deltas
    OBVIOUS
  <2> HIDE DEF Whole, deltas
  <2> QED BY <1>2, <2>1 DEF Image
<1>4. props \in [Props -> 0 .. MaxTxn]
  <2> SUFFICES ASSUME NEW p \in Props PROVE props[p] \in 0 .. MaxTxn
    BY DEF Image
  <2>1. For(p) \in SUBSET deltas
    OBVIOUS
  <2> HIDE DEF For, deltas
  <2> QED BY <1>2, <2>1 DEF Image
<1> HIDE DEF props, tomb
<1> QED BY <1>1, <1>3, <1>4 DEF Image

LEMMA SnapshotTyped ==
  ASSUME NEW v \in Version, NEW c \in Seq(Delta), NEW gone, NEW t, NEW st
  PROVE  /\ snapshot_with_guard(v, c, gone, t, st).img \in Image
         /\ snapshot_with_guard(v, c, gone, t, st).guard \in Nat
<1> DEFINE k == WalkEnd(c, gone, LAMBDA e : e.ts <= st)
           newer == NewerThan(v.cts, t, st)
           img == IF newer THEN Replay(ImageOf(v), c, k) ELSE ImageOf(v)
           guard == IF newer /\ k <= Len(c) THEN c[k].ts ELSE v.cts
           s == snapshot_with_guard(v, c, gone, t, st)
<1>1. s.img = img /\ s.guard = guard
  BY DEF snapshot_with_guard
<1>2. ImageOf(v) \in Image /\ v.cts \in Nat
  BY VersionTyped
<1>3. k \in 1 .. Len(c) + 1
  <2> DEFINE S == {Len(c) + 1} \cup
                  {i \in 1 .. Len(c) : /\ \A j \in i .. Len(c) : c[j].own \notin gone
                                       /\ \A j \in (i + 1) .. Len(c) : ~(c[j].ts <= st)}
  <2>1. k = Min(S)
    BY DEF WalkEnd
  <2>2. S \in SUBSET (1 .. Len(c) + 1) /\ S # {} /\ S \in SUBSET Nat
    OBVIOUS
  <2> HIDE DEF S, k
  <2>3. Min(S) \in S
    BY <2>2, MinExists
  <2> QED BY <2>1, <2>2, <2>3, Zenon
<1> HIDE DEF k, newer
<1>4. img \in Image
  BY <1>2, ReplayTyped
<1>5. k <= Len(c) => c[k].ts \in Nat
  <2>1. PICK i \in 1 .. Len(c) + 1 : i = k
    BY <1>3
  <2>2. i <= Len(c) => c[i] \in Delta
    OBVIOUS
  <2> QED BY <2>1, <2>2 DEF Delta, Ts
<1>6. guard \in Nat
  BY <1>2, <1>5
<1> QED BY <1>1, <1>4, <1>6

\* update_watermark.
LEMMA WatermarkTyped ==
  ASSUME TypeOK, NEW act \in SUBSET Txns, NEW lat \in Nat
  PROVE  NewWatermark(act, lat) \in Nat
<1> DEFINE new == IF act = {} THEN lat ELSE start[Min(act)]
<1>1. new \in Nat
  <2>1. act \in SUBSET Nat
    BY TxnsAreNat
  <2>2. act # {} => Min(act) \in act
    BY <2>1, MinExists
  <2> QED BY <2>2 DEF TypeOK, Ts
<1> HIDE DEF new
<1>2. NewWatermark(act, lat) \in {watermark, new}
  BY <1>1, MaxOfTwo DEF NewWatermark, new, TypeOK, Ts
<1> QED BY <1>1, <1>2 DEF TypeOK, Ts

\* The sequence of the elements of a finite set.
LEMMA SetToSeqTyped ==
  ASSUME NEW S, IsFiniteSet(S)
  PROVE  SetToSeq(S) \in Seq(S)
<1>1. PICK n \in Nat : ExistsBijection(1 .. n, S)
  BY FS_NatBijection
<1>2. Cardinality(S) = n
  BY <1>1, FS_CountingElements
<1>3. \E f \in [1 .. Cardinality(S) -> S] : IsInjective(f)
  BY <1>1, <1>2 DEF ExistsBijection, Bijection, Injection
<1>4. SetToSeq(S) \in [1 .. Cardinality(S) -> S]
  BY <1>3 DEF SetToSeq
<1> QED BY <1>2, <1>4

LEMMA CascadeTyped ==
  ASSUME TypeOK, NEW r \in Records
  PROVE  /\ Incoming(r) \o Outgoing(r) \in Seq(Records)
         /\ Cascade(r) \in Seq(Records) /\ Cascade(r) # <<>>
<1>1. ASSUME NEW S \in SUBSET adj PROVE SetToSeq(S) \in Seq(Records)
  <2>1. S \in SUBSET Edges /\ S \subseteq Records
    BY DEF TypeOK, Records
  <2>2. IsFiniteSet(S)
    BY <2>1, GraphAssumption, FS_Subset
  <2>3. SetToSeq(S) \in Seq(S)
    BY <2>2, SetToSeqTyped
  <2> QED BY <2>1, <2>3, SeqMonotonic
<1>2. Incoming(r) \in Seq(Records) /\ Outgoing(r) \in Seq(Records)
  BY <1>1 DEF Incoming, Outgoing
<1>3. Incoming(r) \o Outgoing(r) \in Seq(Records)
  BY <1>2, ConcatProperties
<1>4. <<r>> \in Seq(Records) /\ Len(<<r>>) = 1
  OBVIOUS
<1>5. /\ (Incoming(r) \o Outgoing(r)) \o <<r>> \in Seq(Records)
      /\ Len((Incoming(r) \o Outgoing(r)) \o <<r>>) = Len(Incoming(r) \o Outgoing(r)) + 1
  BY <1>3, <1>4, ConcatProperties
<1>6. (Incoming(r) \o Outgoing(r)) \o <<r>> # <<>>
  BY <1>3, <1>5
<1> QED BY <1>3, <1>4, <1>5, <1>6 DEF Cascade

-----------------------------------------------------------------------------
(* The steps.                                                                *)

LEMMA InitTInv == Init => TInv
<1> SUFFICES ASSUME Init PROVE TInv
  OBVIOUS
<1>1. NoHead \in Version /\ NoIntent \in Intent /\ NoImage \in Image
  BY NothingTyped
<1>2. head \in [Records -> Version]
  <2>1. [props |-> NoProps, tomb |-> FALSE, cts |-> 2] \in Version
    BY GraphAssumption DEF NoProps, Version, Ts
  <2> QED BY <1>1, <2>1 DEF Init
<1>3. /\ clock \in Ts /\ begun \in 0 .. MaxTxn /\ lock \in 0 .. MaxTxn
      /\ latest \in Ts /\ watermark \in Ts
      /\ present \subseteq Records /\ adj \subseteq Edges
      /\ active \subseteq Txns /\ kept \subseteq Txns
  BY GraphAssumption DEF Init, Ts
<1>4. /\ pc \in [Txns -> Places]
      /\ start \in [Txns -> Ts] /\ cts \in [Txns -> Ts] /\ pos \in [Txns -> Nat]
      /\ wset \in [Txns -> [Records -> Intent]]
      /\ rset \in [Txns -> SUBSET Records] /\ seen \in [Txns -> SUBSET Records]
      /\ left \in [Txns -> SUBSET Records] /\ wrote \in [Txns -> SUBSET Records]
  BY <1>1 DEF Init, Places, Ts
<1>5. /\ chain \in [Records -> Seq(Delta)] /\ undo \in [Txns -> Seq(UndoEntry)]
      /\ target \in [Txns -> Seq(Records)] /\ calls \in [Txns -> Seq(Records)]
  BY DEF Init
<1>6. TypeOK
  BY <1>2, <1>3, <1>4, <1>5 DEF TypeOK
<1>7. Targeted /\ Applying
  BY DEF Init, Targeted, Applying
<1> QED BY <1>6, <1>7 DEF TInv

\* An undo entry is pushed on the buffer and on the chain.
LEMMA PushTyped ==
  ASSUME TypeOK, NEW t \in Txns, NEW r \in Records, NEW e \in Delta, PushUndo(t, r, e)
  PROVE  undo' \in [Txns -> Seq(UndoEntry)] /\ chain' \in [Records -> Seq(Delta)]
<1>1. chain[r] \in Seq(Delta) /\ undo[t] \in Seq(UndoEntry)
  BY DEF TypeOK
<1>2. UndoRecord(r, e, chain[r]) \in UndoEntry
  BY <1>1 DEF UndoRecord, UndoEntry
<1>3. /\ Append(undo[t], UndoRecord(r, e, chain[r])) \in Seq(UndoEntry)
      /\ Append(chain[r], e) \in Seq(Delta)
  BY <1>1, <1>2, AppendProperties
<1> QED BY <1>3 DEF PushUndo, TypeOK

\* The call is counted.
LEMMA CalledTyped ==
  ASSUME TypeOK, NEW t \in Txns, NEW r \in Records, Called(t, r)
  PROVE  calls' \in [Txns -> Seq(Records)]
<1>1. Append(calls[t], r) \in Seq(Records)
  BY AppendProperties DEF TypeOK
<1> QED BY <1>1 DEF Called, TypeOK

LEMMA ReadsTyped ==
  ASSUME TypeOK, NEW t \in Txns, NEW R \in SUBSET Records, NoteReads(t, R)
  PROVE  rset' \in [Txns -> SUBSET Records] /\ seen' \in [Txns -> SUBSET Records]
BY DEF NoteReads, TypeOK

\* A step of thread t, which other threads do not notice, keeps Targeted and
\* Applying when it establishes them for t.
LEMMA PlaceKept ==
  ASSUME TInv, NEW t \in Txns, NEW where \in Places, pc' = [pc EXCEPT ![t] = where],
         \A u \in Txns \ {t} : target'[u] = target[u] /\ left'[u] = left[u] /\ wset'[u] = wset[u],
         where = "delete" => target'[t] # <<>>,
         where = "apply" => left'[t] \subseteq Intents(t)'
  PROVE  Targeted' /\ Applying' /\ pc' \in [Txns -> Places]
<1>1. pc' \in [Txns -> Places] /\ pc'[t] = where /\ \A u \in Txns \ {t} : pc'[u] = pc[u]
  BY DEF TInv, TypeOK
<1>2. \A u \in Txns \ {t} : Intents(u)' = Intents(u)
  BY DEF Intents
<1>3. Targeted'
  BY <1>1 DEF TInv, Targeted
<1>4. Applying'
  BY <1>1, <1>2 DEF TInv, Applying
<1> QED BY <1>1, <1>3, <1>4

LEMMA BeginTInv ==
  ASSUME TInv, NEW t \in Txns, Begin(t)
  PROVE  TInv'
<1> USE DEF TInv, graphVars, txnVars, mgrVars, Goto
<1>1. CASE BeginDrawId(t)
  <2>1. pc' = [pc EXCEPT ![t] = "id"] /\ UNCHANGED <<target, left, wset>>
    BY <1>1 DEF BeginDrawId
  <2>2. Targeted' /\ Applying' /\ pc' \in [Txns -> Places]
    BY <2>1, PlaceKept DEF Places
  <2>3. begun' \in 0 .. MaxTxn
    BY <1>1, TxnsAreNat DEF BeginDrawId
  <2> QED BY <1>1, <2>2, <2>3 DEF BeginDrawId, TypeOK
<1>2. CASE BeginDrawTs(t)
  <2>1. pc' = [pc EXCEPT ![t] = "ts"] /\ UNCHANGED <<target, left, wset>>
    BY <1>2 DEF BeginDrawTs
  <2>2. Targeted' /\ Applying' /\ pc' \in [Txns -> Places]
    BY <2>1, PlaceKept DEF Places
  <2> QED BY <1>2, <2>2 DEF BeginDrawTs, TypeOK, Ts
<1>3. CASE BeginRegister(t)
  <2>1. pc' = [pc EXCEPT ![t] = "run"] /\ UNCHANGED <<target, left, wset>>
    BY <1>3 DEF BeginRegister
  <2>2. Targeted' /\ Applying' /\ pc' \in [Txns -> Places]
    BY <2>1, PlaceKept DEF Places
  <2>3. active' \in SUBSET Txns /\ watermark' = NewWatermark(active', latest)
    BY <1>3 DEF BeginRegister, TypeOK
  <2>4. watermark' \in Nat
    BY <2>3, WatermarkTyped DEF TypeOK, Ts
  <2> QED BY <1>3, <2>2, <2>3, <2>4 DEF BeginRegister, TypeOK, Ts
<1> QED BY <1>1, <1>2, <1>3 DEF Begin

\* The calls that change the graph in place.
LEMMA PessimisticTInv ==
  ASSUME TInv, NEW t \in Txns, NEW r \in Records,
         \/ \E p \in Props : SetPessimistic(t, r, p)
         \/ CreatePessimistic(t, r)
         \/ DeleteCheck(t, r)
  PROVE  TInv'
<1> USE DEF TInv, graphVars, txnVars, mgrVars, Goto
<1>0. /\ head[r] \in Version /\ ImageOf(head[r]) \in Image /\ head[r].cts \in Nat
      /\ TxnId(t) \in Nat /\ t \in 0 .. MaxTxn
  BY TxnsAreNat, VersionTyped DEF TypeOK
<1>1. ASSUME NEW p \in Props, SetPessimistic(t, r, p) PROVE TInv'
  <2>1. SetDelta(t, {p}, ImageOf(head[r]), head[r].cts) \in Delta
    BY <1>0, DeltaTyped
  <2>2. undo' \in [Txns -> Seq(UndoEntry)] /\ chain' \in [Records -> Seq(Delta)]
    BY <1>1, <2>1, PushTyped DEF SetPessimistic
  <2>3. head' \in [Records -> Version]
    <3>1. [head[r] EXCEPT !.props[p] = t, !.cts = TxnId(t)] \in Version
      BY <1>0 DEF Version, Ts
    <3>2. head' = [head EXCEPT ![r] = [head[r] EXCEPT !.props[p] = t, !.cts = TxnId(t)]]
      BY <1>1 DEF SetPessimistic, TypeOK
    <3> QED BY <3>1, <3>2 DEF TypeOK
  <2>4. calls' \in [Txns -> Seq(Records)]
    BY <1>1, CalledTyped DEF SetPessimistic
  <2>5. Targeted' /\ Applying'
    BY <1>1 DEF SetPessimistic, Targeted, Applying, Intents
  <2> QED BY <1>1, <2>2, <2>3, <2>4, <2>5 DEF SetPessimistic, TypeOK
<1>2. CASE CreatePessimistic(t, r)
  <2> DEFINE new == [props |-> [p \in Props |-> t], tomb |-> FALSE, cts |-> TxnId(t)]
             cur == IF r \notin present THEN new ELSE head[r]
             ts == IF r \in Vertices /\ cur.cts = TxnId(t) THEN 0 ELSE cur.cts
  <2>1. cur \in Version /\ ts \in Nat
    <3>1. new \in Version /\ new.cts \in Nat
      BY <1>0 DEF Version, Ts
    <3> HIDE DEF new
    <3> QED BY <1>0, <3>1
  <2> HIDE DEF cur, ts
  <2>2. DelDelta(t, ts) \in Delta
    BY <2>1, DeltaTyped, NothingTyped
  <2>3. \/ /\ PushUndo(t, r, DelDelta(t, ts))
           /\ present' = present \cup {r}
           /\ head' = [head EXCEPT ![r] = cur]
           /\ adj' = adj \cup ({r} \cap Edges)
        \/ UNCHANGED <<undo, graphVars>>
    BY <1>2 DEF CreatePessimistic, cur, ts
  <2>4. /\ undo' \in [Txns -> Seq(UndoEntry)] /\ chain' \in [Records -> Seq(Delta)]
        /\ head' \in [Records -> Version]
        /\ present' \subseteq Records /\ adj' \subseteq Edges
    <3>1. CASE /\ PushUndo(t, r, DelDelta(t, ts))
               /\ present' = present \cup {r}
               /\ head' = [head EXCEPT ![r] = cur]
               /\ adj' = adj \cup ({r} \cap Edges)
      <4>1. undo' \in [Txns -> Seq(UndoEntry)] /\ chain' \in [Records -> Seq(Delta)]
        BY <2>2, <3>1, PushTyped
      <4>2. head' \in [Records -> Version]
        BY <2>1, <3>1 DEF TypeOK
      <4>3. present' \subseteq Records /\ adj' \subseteq Edges
        BY <3>1 DEF TypeOK
      <4> QED BY <4>1, <4>2, <4>3
    <3>2. CASE UNCHANGED <<undo, graphVars>>
      BY <3>2 DEF TypeOK
    <3> QED BY <2>3, <3>1, <3>2
  <2>5. /\ pc' = [pc EXCEPT ![t] = "run"] /\ target' = [target EXCEPT ![t] = <<>>]
        /\ UNCHANGED <<left, wset>>
    BY <1>2 DEF CreatePessimistic
  <2>6. target' \in [Txns -> Seq(Records)] /\ \A u \in Txns \ {t} : target'[u] = target[u]
    BY <2>5 DEF TypeOK
  <2>7. Targeted' /\ Applying' /\ pc' \in [Txns -> Places]
    BY <2>5, <2>6, PlaceKept DEF Places
  <2> QED BY <1>2, <2>4, <2>6, <2>7 DEF CreatePessimistic, TypeOK
<1>3. CASE DeleteCheck(t, r)
  <2>1. Cascade(r) \in Seq(Records) /\ Cascade(r) # <<>>
    BY CascadeTyped
  <2>2. /\ pc' = [pc EXCEPT ![t] = "delete"] /\ target' = [target EXCEPT ![t] = Cascade(r)]
        /\ UNCHANGED <<left, wset>>
    BY <1>3 DEF DeleteCheck
  <2>3. /\ target' \in [Txns -> Seq(Records)] /\ target'[t] # <<>>
        /\ \A u \in Txns \ {t} : target'[u] = target[u]
    BY <2>1, <2>2 DEF TypeOK
  <2>4. Targeted' /\ Applying' /\ pc' \in [Txns -> Places]
    BY <2>2, <2>3, PlaceKept DEF Places
  <2>5. calls' \in [Txns -> Seq(Records)]
    BY <1>3, CalledTyped DEF DeleteCheck
  <2> QED BY <1>3, <2>3, <2>4, <2>5 DEF DeleteCheck, TypeOK
<1> QED BY <1>1, <1>2, <1>3

LEMMA DeleteRecordTInv ==
  ASSUME TInv, NEW t \in Txns, DeleteRecord(t)
  PROVE  TInv'
<1> USE DEF TInv, graphVars, txnVars, mgrVars, Goto
<1> DEFINE r == Head(target[t])
           rest == IF Writable(t, r) \/ r \notin present THEN Tail(target[t]) ELSE <<>>
           delta == CreateDelta(t, ImageOf(head[r]), head[r].cts)
<1>1. target[t] \in Seq(Records) /\ target[t] # <<>>
  BY DEF DeleteRecord, Targeted, TypeOK
<1>2. r \in Records /\ Tail(target[t]) \in Seq(Records)
  BY <1>1, HeadTailProperties
<1>3. rest \in Seq(Records)
  BY <1>2
<1>4. /\ \/ /\ PushUndo(t, r, delta)
            /\ head' = [head EXCEPT ![r].tomb = TRUE, ![r].cts = TxnId(t)]
         \/ UNCHANGED <<undo, chain, head>>
      /\ target' = [target EXCEPT ![t] = rest]
      /\ pc' = [pc EXCEPT ![t] = IF rest = <<>> THEN "run" ELSE "delete"]
      /\ UNCHANGED <<left, wset>>
  BY DEF DeleteRecord
<1> HIDE DEF r, rest
<1>5. /\ head[r] \in Version /\ ImageOf(head[r]) \in Image /\ head[r].cts \in Nat
      /\ TxnId(t) \in Nat
  BY <1>2, TxnsAreNat, VersionTyped DEF TypeOK
<1>6. delta \in Delta
  BY <1>5, DeltaTyped
<1> HIDE DEF delta
<1>7. /\ undo' \in [Txns -> Seq(UndoEntry)] /\ chain' \in [Records -> Seq(Delta)]
      /\ head' \in [Records -> Version]
  <2>1. CASE UNCHANGED <<undo, chain, head>>
    BY <2>1 DEF TypeOK
  <2>2. CASE /\ PushUndo(t, r, delta)
             /\ head' = [head EXCEPT ![r].tomb = TRUE, ![r].cts = TxnId(t)]
    <3>1. undo' \in [Txns -> Seq(UndoEntry)] /\ chain' \in [Records -> Seq(Delta)]
      BY <1>2, <1>6, <2>2, PushTyped
    <3>2. [head[r] EXCEPT !.tomb = TRUE, !.cts = TxnId(t)] \in Version
      BY <1>5 DEF Version, Ts
    <3>3. head' = [head EXCEPT ![r] = [head[r] EXCEPT !.tomb = TRUE, !.cts = TxnId(t)]]
      BY <1>2, <2>2 DEF TypeOK
    <3> QED BY <1>2, <3>1, <3>2, <3>3 DEF TypeOK
  <2> QED BY <1>4, <2>1, <2>2
<1>8. /\ target' \in [Txns -> Seq(Records)] /\ target'[t] = rest
      /\ \A u \in Txns \ {t} : target'[u] = target[u]
  BY <1>3, <1>4 DEF TypeOK
<1>9. Targeted' /\ Applying' /\ pc' \in [Txns -> Places]
  <2> DEFINE where == IF rest = <<>> THEN "run" ELSE "delete"
  <2>1. where \in Places /\ where # "apply" /\ (where = "delete" => rest # <<>>)
    BY DEF Places
  <2>2. pc' = [pc EXCEPT ![t] = where] /\ UNCHANGED <<left, wset>>
    BY <1>4
  <2> HIDE DEF where
  <2> QED BY <1>8, <2>1, <2>2, PlaceKept
<1> QED BY <1>7, <1>8, <1>9 DEF DeleteRecord, TypeOK

LEMMA ReadTInv ==
  ASSUME TInv, NEW t \in Txns, NEW r \in Records, Get(t, r) \/ CreateCheck(t, r)
  PROVE  TInv'
<1> USE DEF TInv, graphVars, txnVars, mgrVars, Goto
<1>1. CASE Get(t, r)
  <2>1. rset' \in [Txns -> SUBSET Records] /\ seen' \in [Txns -> SUBSET Records]
    BY <1>1, ReadsTyped DEF Get
  <2>2. calls' \in [Txns -> Seq(Records)]
    BY <1>1, CalledTyped DEF Get
  <2>3. Targeted' /\ Applying'
    BY <1>1 DEF Get, Targeted, Applying, Intents
  <2> QED BY <1>1, <2>1, <2>2, <2>3 DEF Get, TypeOK
<1>2. CASE CreateCheck(t, r)
  <2> DEFINE ends == IF r \in Edges THEN {Src[r], Dst[r]} ELSE {}
  <2>1. ends \cup {r} \in SUBSET Records
    BY EndPoints
  <2>2. /\ NoteReads(t, ends \cup {r}) /\ Called(t, r)
        /\ pc' = [pc EXCEPT ![t] = "create"] /\ target' = [target EXCEPT ![t] = <<r>>]
        /\ UNCHANGED <<left, wset>>
    BY <1>2 DEF CreateCheck
  <2> HIDE DEF ends
  <2>3. rset' \in [Txns -> SUBSET Records] /\ seen' \in [Txns -> SUBSET Records]
    BY <2>1, <2>2, ReadsTyped
  <2>4. calls' \in [Txns -> Seq(Records)]
    BY <2>2, CalledTyped
  <2>5. <<r>> \in Seq(Records)
    OBVIOUS
  <2>6. target' \in [Txns -> Seq(Records)] /\ \A u \in Txns \ {t} : target'[u] = target[u]
    BY <2>2, <2>5 DEF TypeOK
  <2>7. Targeted' /\ Applying' /\ pc' \in [Txns -> Places]
    BY <2>2, <2>6, PlaceKept DEF Places
  <2> QED BY <1>2, <2>3, <2>4, <2>6, <2>7 DEF CreateCheck, TypeOK
<1> QED BY <1>1, <1>2

\* What an optimistic call may stage for a record.
LEMMA IntentTyped ==
  ASSUME TypeOK, NEW t \in Txns, NEW r \in Records
  PROVE  /\ Snapshot(t, r).img \in Image /\ Snapshot(t, r).guard \in Nat
         /\ DeleteIntent(t, r) \in Intent
<1>1. Snapshot(t, r).img \in Image /\ Snapshot(t, r).guard \in Nat
  <2>1. head[r] \in Version /\ chain[r] \in Seq(Delta)
    BY DEF TypeOK
  <2> QED BY <2>1, SnapshotTyped DEF Snapshot
<1>2. wset[t][r] \in Intent /\ NoImage \in Image
  BY NothingTyped DEF TypeOK
<1>3. PICK w \in Intent, img \in Image, guard \in Nat :
        w = wset[t][r] /\ img = Snapshot(t, r).img /\ guard = Snapshot(t, r).guard
  BY <1>1, <1>2
<1>4. DeleteIntent(t, r) =
        CASE w.kind = "None" -> [kind |-> "Delete", guard |-> guard, before |-> img,
                                 after |-> NoImage]
          [] w.kind = "Insert" -> [w EXCEPT !.kind = "Delete", !.before = w.after, !.after = NoImage]
          [] OTHER -> [w EXCEPT !.kind = "Delete", !.after = NoImage]
  BY <1>3 DEF DeleteIntent
<1>5. DeleteIntent(t, r) \in Intent
  <2>1. [kind |-> "Delete", guard |-> guard, before |-> img, after |-> NoImage] \in Intent
    BY <1>2 DEF Intent, Ts
  <2>2. [w EXCEPT !.kind = "Delete", !.before = w.after, !.after = NoImage] \in Intent
    BY <1>2 DEF Intent
  <2>3. [w EXCEPT !.kind = "Delete", !.after = NoImage] \in Intent
    BY <1>2 DEF Intent
  <2> QED BY <1>4, <2>1, <2>2, <2>3
<1> QED BY <1>1, <1>5

\* The calls that stage write intents.
LEMMA OptimisticTInv ==
  ASSUME TInv, NEW t \in Txns, NEW r \in Records,
         \/ \E p \in Props : SetOptimistic(t, r, p)
         \/ CreateOptimistic(t, r)
         \/ DeleteOptimistic(t, r)
  PROVE  TInv'
<1> USE DEF TInv, graphVars, txnVars, mgrVars, Goto
<1>0. /\ wset[t][r] \in Intent /\ wset[t] \in [Records -> Intent]
      /\ NoImage \in Image /\ t \in 0 .. MaxTxn
  BY TxnsAreNat, NothingTyped DEF TypeOK
<1>1. ASSUME NEW p \in Props, SetOptimistic(t, r, p) PROVE TInv'
  <2> DEFINE s == Snapshot(t, r)
             staged == wset[t][r].kind \in {"Insert", "Update"}
             base == IF staged THEN wset[t][r]
                     ELSE [kind |-> "Update", guard |-> s.guard, before |-> s.img,
                           after |-> s.img]
  <2>1. base \in Intent
    <3>1. s.img \in Image /\ s.guard \in Nat
      BY IntentTyped
    <3> HIDE DEF s
    <3> QED BY <1>0, <3>1 DEF Intent, Ts
  <2>2. wset' = [wset EXCEPT ![t][r] = [base EXCEPT !.after.props[p] = t]]
    BY <1>1 DEF SetOptimistic
  <2> HIDE DEF base
  <2>3. [base EXCEPT !.after.props[p] = t] \in Intent
    BY <1>0, <2>1 DEF Intent, Image
  <2>4. wset' \in [Txns -> [Records -> Intent]] /\ \A u \in Txns \ {t} : wset'[u] = wset[u]
    BY <2>2, <2>3 DEF TypeOK
  <2>5. calls' \in [Txns -> Seq(Records)]
    BY <1>1, CalledTyped DEF SetOptimistic
  <2>6. pc' = [pc EXCEPT ![t] = "run"] /\ UNCHANGED <<target, left>>
    BY <1>1 DEF SetOptimistic, MayCall, TypeOK
  <2>7. Targeted' /\ Applying' /\ pc' \in [Txns -> Places]
    BY <2>4, <2>6, PlaceKept DEF Places
  <2> QED BY <1>1, <2>4, <2>5, <2>7 DEF SetOptimistic, TypeOK
<1>2. CASE CreateOptimistic(t, r)
  <2> DEFINE img == [props |-> [p \in Props |-> t], tomb |-> FALSE]
             new == [kind |-> "Insert", guard |-> wset[t][r].guard, before |-> NoImage,
                     after |-> img]
  <2>1. new \in Intent
    <3>1. img \in Image
      BY <1>0 DEF Image
    <3> HIDE DEF img
    <3> QED BY <1>0, <3>1 DEF Intent
  <2>2. /\ wset' = [wset EXCEPT ![t][r] = new] /\ target' = [target EXCEPT ![t] = <<>>]
        /\ pc' = [pc EXCEPT ![t] = "run"] /\ UNCHANGED left
    BY <1>2 DEF CreateOptimistic, TypeOK
  <2> HIDE DEF new
  <2>3. /\ wset' \in [Txns -> [Records -> Intent]] /\ target' \in [Txns -> Seq(Records)]
        /\ \A u \in Txns \ {t} : wset'[u] = wset[u] /\ target'[u] = target[u]
    BY <2>1, <2>2 DEF TypeOK
  <2>4. Targeted' /\ Applying' /\ pc' \in [Txns -> Places]
    BY <2>2, <2>3, PlaceKept DEF Places
  <2> QED BY <1>2, <2>3, <2>4 DEF CreateOptimistic, TypeOK
<1>3. CASE DeleteOptimistic(t, r)
  <2>1. PICK X : wset' = [wset EXCEPT ![t] = [x \in Records |->
                   IF x \in X THEN DeleteIntent(t, x) ELSE wset[t][x]]]
    BY <1>3, Zenon DEF DeleteOptimistic
  <2>2. [x \in Records |-> IF x \in X THEN DeleteIntent(t, x) ELSE wset[t][x]]
          \in [Records -> Intent]
    BY <1>0, IntentTyped
  <2>3. wset' \in [Txns -> [Records -> Intent]] /\ \A u \in Txns \ {t} : wset'[u] = wset[u]
    BY <2>1, <2>2 DEF TypeOK
  <2>4. calls' \in [Txns -> Seq(Records)]
    BY <1>3, CalledTyped DEF DeleteOptimistic
  <2>5. pc' = [pc EXCEPT ![t] = "run"] /\ UNCHANGED <<target, left>>
    BY <1>3 DEF DeleteOptimistic, MayCall, TypeOK
  <2>6. Targeted' /\ Applying' /\ pc' \in [Txns -> Places]
    BY <2>3, <2>5, PlaceKept DEF Places
  <2> QED BY <1>3, <2>3, <2>4, <2>6 DEF DeleteOptimistic, TypeOK
<1> QED BY <1>1, <1>2, <1>3

\* The steps of commit up to its end.
LEMMA CommitStepTInv ==
  ASSUME TInv, NEW t \in Txns, CommitDrawTs(t) \/ CommitLock(t) \/ Promote(t)
  PROVE  TInv'
<1> USE DEF TInv, graphVars, txnVars, mgrVars, Goto
<1>1. CASE CommitDrawTs(t)
  <2>1. pc' = [pc EXCEPT ![t] = "commit"] /\ UNCHANGED <<target, left, wset>>
    BY <1>1 DEF CommitDrawTs
  <2>2. Targeted' /\ Applying' /\ pc' \in [Txns -> Places]
    BY <2>1, PlaceKept DEF Places
  <2> QED BY <1>1, <2>2 DEF CommitDrawTs, TypeOK, Ts
<1>2. CASE CommitLock(t)
  <2>1. PICK where \in {"abort", "apply", "promote"} : pc' = [pc EXCEPT ![t] = where]
    BY <1>2 DEF CommitLock
  <2>2. left' = [left EXCEPT ![t] = Intents(t)] /\ UNCHANGED <<target, wset>> /\ lock' = t
    BY <1>2 DEF CommitLock
  <2>3. Intents(t)' = Intents(t) /\ Intents(t) \subseteq Records
    BY <2>2 DEF Intents
  <2>4. /\ left' \in [Txns -> SUBSET Records] /\ left'[t] = Intents(t)'
        /\ \A u \in Txns \ {t} : left'[u] = left[u]
    BY <2>2, <2>3 DEF TypeOK
  <2>5. Targeted' /\ Applying' /\ pc' \in [Txns -> Places]
    BY <2>1, <2>2, <2>4, PlaceKept DEF Places
  <2>6. lock' \in 0 .. MaxTxn
    BY <2>2, TxnsAreNat
  <2> QED BY <1>2, <2>4, <2>5, <2>6 DEF CommitLock, TypeOK
<1>3. CASE Promote(t)
  <2>1. undo[t] \in Seq(UndoEntry) /\ pos[t] \in Nat /\ pos[t] < Len(undo[t])
    BY <1>3 DEF Promote, TypeOK
  <2>2. PICK r \in Records : r = undo[t][pos[t] + 1].rec
    <3>1. pos[t] + 1 \in 1 .. Len(undo[t])
      BY <2>1
    <3>2. undo[t][pos[t] + 1] \in UndoEntry
      BY <2>1, <3>1, ElementOfSeq
    <3> QED BY <3>2 DEF UndoEntry
  <2>3. \/ head' = [head EXCEPT ![r].cts = cts[t]] /\ UNCHANGED pc
        \/ pc' = [pc EXCEPT ![t] = "panicked"] /\ UNCHANGED head
    BY <1>3, <2>2 DEF Promote
  <2>4. head' \in [Records -> Version]
    <3>0. head[r] \in Version /\ cts[t] \in Ts
      BY DEF TypeOK
    <3>1. [head[r] EXCEPT !.cts = cts[t]] \in Version
      BY <3>0 DEF Version
    <3>2. \/ head' = [head EXCEPT ![r] = [head[r] EXCEPT !.cts = cts[t]]]
          \/ UNCHANGED head
      BY <2>3 DEF TypeOK
    <3> QED BY <3>1, <3>2 DEF TypeOK
  <2>5. PICK where \in {"promote", "panicked"} : pc' = [pc EXCEPT ![t] = where]
    BY <1>3, <2>3 DEF Promote, TypeOK
  <2>6. UNCHANGED <<target, left, wset>>
    BY <1>3 DEF Promote
  <2>7. Targeted' /\ Applying' /\ pc' \in [Txns -> Places]
    BY <2>5, <2>6, PlaceKept DEF Places
  <2>8. pos' \in [Txns -> Nat]
    BY <1>3, <2>1 DEF Promote, TypeOK
  <2> QED BY <1>3, <2>4, <2>7, <2>8 DEF Promote, TypeOK
<1> QED BY <1>1, <1>2, <1>3

\* Phases 2 and 3 of an optimistic commit.
LEMMA IntentStepTInv ==
  ASSUME TInv, NEW t \in Txns, NEW r \in Records, ApplyIntent(t, r) \/ PromoteIntent(t, r)
  PROVE  TInv'
<1> USE DEF TInv, graphVars, txnVars, mgrVars, Goto
<1>0. /\ head[r] \in Version /\ head[r].cts \in Nat /\ cts[t] \in Nat /\ TxnId(t) \in Nat
      /\ NoHead \in Version
  BY TxnsAreNat, VersionTyped, NothingTyped DEF TypeOK, Ts
<1>1. CASE ApplyIntent(t, r)
  <2> DEFINE w == wset[t][r]
             cur == IF r \in present THEN head[r] ELSE NoHead
             delta == CASE w.kind = "Insert" -> DelDelta(t, cur.cts)
                        [] w.kind = "Update" -> SetDelta(t, ChangedProps(w.before, w.after),
                                                         w.before, cur.cts)
                        [] w.kind = "Delete" -> CreateDelta(t, w.before, cur.cts)
             img == IF w.kind # "Delete" THEN w.after
                    ELSE [props |-> IF r \in present THEN cur.props ELSE w.before.props,
                          tomb |-> TRUE]
  <2>1. /\ PushUndo(t, r, delta) /\ head' = [head EXCEPT ![r] = HeadOf(img, TxnId(t))]
        /\ present' = present \cup {r} /\ r \in left[t] /\ pc[t] = "apply"
        /\ left' = [left EXCEPT ![t] = IF @ = {r} THEN Intents(t) ELSE @ \ {r}]
        /\ pc' = [pc EXCEPT ![t] = IF left[t] = {r} THEN "promote" ELSE "apply"]
        /\ UNCHANGED <<target, wset>>
    BY <1>1 DEF ApplyIntent
  <2>2. w \in Intent /\ w.kind # "None"
    BY <2>1 DEF Applying, Intents, TypeOK
  <2>3. cur \in Version /\ cur.cts \in Nat
    BY <1>0, VersionTyped
  <2> HIDE DEF w, cur
  <2>4. /\ w.before \in Image /\ w.after \in Image
        /\ w.kind \in {"Insert", "Update", "Delete"}
        /\ ChangedProps(w.before, w.after) \in SUBSET Props
    BY <2>2 DEF Intent, ChangedProps
  <2>5. delta \in Delta
    BY <2>3, <2>4, DeltaTyped
  <2>6. img \in Image
    BY <2>3, <2>4 DEF Image, Version
  <2> HIDE DEF delta, img
  <2>7. undo' \in [Txns -> Seq(UndoEntry)] /\ chain' \in [Records -> Seq(Delta)]
    BY <2>1, <2>5, PushTyped
  <2>8. head' \in [Records -> Version]
    BY <1>0, <2>1, <2>6, HeadTyped DEF TypeOK
  <2>9. present' \subseteq Records
    BY <2>1 DEF TypeOK
  <2>10. adj' \subseteq Edges
    <3>1. adj' = CASE w.kind = "Insert" -> adj \cup ({r} \cap Edges)
                   [] w.kind = "Update" -> adj
                   [] w.kind = "Delete" -> adj \ {r}
      BY <1>1 DEF ApplyIntent, w
    <3> QED BY <2>4, <3>1 DEF TypeOK
  <2>11. Intents(t)' = Intents(t) /\ Intents(t) \subseteq Records /\ left[t] \subseteq Intents(t)
    BY <2>1 DEF Intents, Applying
  <2>12. /\ left' \in [Txns -> SUBSET Records] /\ left'[t] \subseteq Intents(t)'
         /\ \A u \in Txns \ {t} : left'[u] = left[u]
    BY <2>1, <2>11 DEF TypeOK
  <2>13. PICK where \in {"promote", "apply"} : pc' = [pc EXCEPT ![t] = where]
    BY <2>1
  <2>14. Targeted' /\ Applying' /\ pc' \in [Txns -> Places]
    BY <2>1, <2>12, <2>13, PlaceKept DEF Places
  <2> QED BY <1>1, <2>7, <2>8, <2>9, <2>10, <2>12, <2>14 DEF ApplyIntent, TypeOK
<1>2. CASE PromoteIntent(t, r)
  <2>1. head' \in [Records -> Version]
    <3> DEFINE ts == IF r \in present /\ head[r].cts = TxnId(t) THEN cts[t] ELSE head[r].cts
    <3>1. head' = [head EXCEPT ![r] = [head[r] EXCEPT !.cts = ts]]
      BY <1>2 DEF PromoteIntent, TypeOK
    <3>2. ts \in Nat
      BY <1>0
    <3> HIDE DEF ts
    <3>3. [head[r] EXCEPT !.cts = ts] \in Version
      BY <1>0, <3>2 DEF Version, Ts
    <3> QED BY <3>1, <3>3 DEF TypeOK
  <2>2. /\ left' \in [Txns -> SUBSET Records] /\ \A u \in Txns \ {t} : left'[u] = left[u]
        /\ pc' = [pc EXCEPT ![t] = "promote"] /\ UNCHANGED <<target, wset>>
    BY <1>2 DEF PromoteIntent, TypeOK
  <2>3. Targeted' /\ Applying' /\ pc' \in [Txns -> Places]
    BY <2>2, PlaceKept DEF Places
  <2> QED BY <1>2, <2>1, <2>2, <2>3 DEF PromoteIntent, TypeOK
<1> QED BY <1>1, <1>2

\* finish_transaction leaves every table of the graph and the manager typed.
LEMMA FinishTyped ==
  ASSUME TypeOK, NEW t \in Txns, NEW committed \in BOOLEAN, NEW lat \in Nat,
         Finish(t, committed, lat)
  PROVE  /\ present' \subseteq Records /\ adj' \subseteq Edges
         /\ head' \in [Records -> Version] /\ chain' \in [Records -> Seq(Delta)]
         /\ undo' \in [Txns -> Seq(UndoEntry)]
         /\ wset' \in [Txns -> [Records -> Intent]]
         /\ rset' \in [Txns -> SUBSET Records] /\ pos' \in [Txns -> Nat]
         /\ calls' \in [Txns -> Seq(Records)] /\ lock' \in 0 .. MaxTxn
         /\ active' \subseteq Txns /\ kept' \subseteq Txns
         /\ latest' \in Ts /\ watermark' \in Ts
<1> DEFINE done == IF committed THEN kept \cup {t} ELSE kept
           bufs == IF committed THEN undo ELSE [undo EXCEPT ![t] = <<>>]
           expired == IF Cardinality(done) >= GcThreshold
                      THEN {u \in done : cts[u] <= watermark'} ELSE {}
           removed == UNION {cleanup_expired_edge(e) : e \in DeletedEdges(expired, bufs)}
<1>1. /\ active' = active \ {t} /\ latest' = lat /\ watermark' = NewWatermark(active', lat)
      /\ kept' = done \ expired
      /\ present' = present \ removed
      /\ head' = [r \in Records |-> IF r \in removed THEN NoHead ELSE head[r]]
      /\ chain' = [r \in Records |-> IF r \in removed THEN <<>> ELSE chain[r]]
      /\ adj' = AdjacencyWithout(removed)
      /\ undo' = [u \in Txns |-> IF u \in expired THEN <<>> ELSE bufs[u]]
      /\ wset' = [wset EXCEPT ![t] = [r \in Records |-> NoIntent]]
      /\ rset' = [rset EXCEPT ![t] = {}]
      /\ pos' = [pos EXCEPT ![t] = 0]
      /\ calls' = [calls EXCEPT ![t] = <<>>]
      /\ lock' = IF lock = t THEN 0 ELSE lock
  BY DEF Finish
<1>2. done \subseteq Txns
  BY DEF TypeOK
<1>3. \A u \in Txns : bufs[u] \in Seq(UndoEntry)
  BY DEF TypeOK
<1> HIDE DEF done, bufs, expired, removed
<1>4. present' \subseteq Records /\ adj' \subseteq Edges /\ active' \subseteq Txns /\ kept' \subseteq Txns
  BY <1>1, <1>2 DEF TypeOK, AdjacencyWithout
<1>5. head' \in [Records -> Version] /\ wset' \in [Txns -> [Records -> Intent]]
  BY <1>1, NothingTyped DEF TypeOK
<1>6. chain' \in [Records -> Seq(Delta)]
  <2>1. <<>> \in Seq(Delta) /\ \A r \in Records : chain[r] \in Seq(Delta)
    BY DEF TypeOK
  <2> QED BY <1>1, <2>1
<1>7. undo' \in [Txns -> Seq(UndoEntry)]
  <2>1. <<>> \in Seq(UndoEntry)
    OBVIOUS
  <2> QED BY <1>1, <1>3, <2>1
<1>8. /\ rset' \in [Txns -> SUBSET Records] /\ pos' \in [Txns -> Nat]
      /\ calls' \in [Txns -> Seq(Records)]
  BY <1>1 DEF TypeOK
<1>9. lock' \in 0 .. MaxTxn
  BY <1>1, GraphAssumption DEF TypeOK
<1>10. watermark' \in Nat /\ latest' \in Nat
  BY <1>1, <1>4, WatermarkTyped
<1> QED BY <1>4, <1>5, <1>6, <1>7, <1>8, <1>9, <1>10 DEF Ts

LEMMA FinishTInv ==
  ASSUME TInv, NEW t \in Txns, CommitFinish(t) \/ AbortFinish(t)
  PROVE  TInv'
<1> USE DEF TInv, Goto
<1>0. cts[t] \in Nat /\ latest \in Nat /\ undo[t] \in Seq(UndoEntry)
  BY DEF TypeOK, Ts
<1>1. PICK committed \in BOOLEAN, lat \in Nat : Finish(t, committed, lat)
  BY <1>0 DEF CommitFinish, AbortFinish
<1>2. \A u \in Txns \ {t} : wset'[u] = wset[u]
  BY <1>1 DEF Finish, TypeOK
<1>3. CASE CommitFinish(t)
  <2>1. {undo[t][i].rec : i \in DOMAIN undo[t]} \subseteq Records
    <3>1. ASSUME NEW i \in DOMAIN undo[t] PROVE undo[t][i].rec \in Records
      <4>1. undo[t][i] \in UndoEntry
        BY <1>0, ElementOfSeq
      <4> QED BY <4>1 DEF UndoEntry
    <3> QED BY <3>1
  <2>2. wrote' \in [Txns -> SUBSET Records]
    BY <1>3, <2>1 DEF CommitFinish, TypeOK
  <2>3. pc' = [pc EXCEPT ![t] = "committed"] /\ UNCHANGED <<target, left>>
    BY <1>3 DEF CommitFinish
  <2>4. Targeted' /\ Applying' /\ pc' \in [Txns -> Places]
    BY <1>2, <2>3, PlaceKept DEF Places
  <2>5. UNCHANGED <<clock, begun, start, cts, left, target, seen>>
    BY <1>3 DEF CommitFinish
  <2> QED BY <1>1, <2>2, <2>4, <2>5, FinishTyped DEF TypeOK
<1>4. CASE AbortFinish(t)
  <2>1. /\ left' \in [Txns -> SUBSET Records] /\ \A u \in Txns \ {t} : left'[u] = left[u]
    BY <1>4 DEF AbortFinish, TypeOK
  <2>2. pc' = [pc EXCEPT ![t] = "aborted"] /\ UNCHANGED target
    BY <1>4 DEF AbortFinish
  <2>3. Targeted' /\ Applying' /\ pc' \in [Txns -> Places]
    BY <1>2, <2>1, <2>2, PlaceKept DEF Places
  <2>4. UNCHANGED <<clock, begun, start, cts, target, wrote, seen>>
    BY <1>4 DEF AbortFinish
  <2> QED BY <1>1, <2>1, <2>3, <2>4, FinishTyped DEF TypeOK
<1> QED BY <1>3, <1>4

LEMMA AbortTInv ==
  ASSUME TInv, NEW t \in Txns, Abort(t) \/ AbortEntry(t)
  PROVE  TInv'
<1> USE DEF TInv, graphVars, txnVars, mgrVars, Goto
<1>1. CASE Abort(t)
  <2>1. pc' = [pc EXCEPT ![t] = "abort"] /\ UNCHANGED <<target, left, wset>>
    BY <1>1 DEF Abort
  <2>2. Targeted' /\ Applying' /\ pc' \in [Txns -> Places]
    BY <2>1, PlaceKept DEF Places
  <2> QED BY <1>1, <2>2 DEF Abort, TypeOK
<1>2. CASE AbortEntry(t)
  <2>1. undo[t] \in Seq(UndoEntry) /\ pos[t] \in Nat /\ pos[t] < Len(undo[t])
    BY <1>2 DEF AbortEntry, TypeOK
  <2>2. PICK u \in UndoEntry : u = undo[t][pos[t] + 1]
    <3>1. pos[t] + 1 \in 1 .. Len(undo[t])
      BY <2>1
    <3> QED BY <2>1, <3>1, ElementOfSeq
  <2>3. u.rec \in Records /\ u.e \in Delta /\ u.next \in Seq(Delta)
    BY DEF UndoEntry
  <2>4. \/ /\ head' = [head EXCEPT ![u.rec] = Rollback(@, u.e)]
           /\ chain' = [chain EXCEPT ![u.rec] = u.next]
        \/ UNCHANGED <<head, chain>>
    BY <1>2, <2>2 DEF AbortEntry
  <2>5. Rollback(head[u.rec], u.e) \in Version
    BY <2>3, RollbackTyped DEF TypeOK
  <2>6. head' \in [Records -> Version] /\ chain' \in [Records -> Seq(Delta)]
    <3>1. PICK r \in Records, new \in Version, next \in Seq(Delta) :
            r = u.rec /\ new = Rollback(head[u.rec], u.e) /\ next = u.next
      BY <2>3, <2>5
    <3>2. \/ head' = [head EXCEPT ![r] = new] /\ chain' = [chain EXCEPT ![r] = next]
          \/ UNCHANGED <<head, chain>>
      BY <2>4, <3>1
    <3> QED BY <3>2 DEF TypeOK
  <2>7. pos' \in [Txns -> Nat]
    BY <1>2, <2>1 DEF AbortEntry, TypeOK
  <2>8. Targeted' /\ Applying'
    BY <1>2 DEF AbortEntry, Targeted, Applying, Intents
  <2> QED BY <1>2, <2>6, <2>7, <2>8 DEF AbortEntry, TypeOK
<1> QED BY <1>1, <1>2

LEMMA StepTInv == TInv /\ [Next]_vars => TInv'
<1> SUFFICES ASSUME TInv, [Next]_vars PROVE TInv'
  OBVIOUS
<1>1. CASE UNCHANGED vars
  BY <1>1 DEF TInv, TypeOK, Targeted, Applying, Intents, vars, graphVars, txnVars, mgrVars
<1>2. ASSUME NEW t \in Txns, Begin(t) PROVE TInv'
  BY <1>2, BeginTInv
<1>3. ASSUME NEW t \in Txns, Operation(t) PROVE TInv'
  BY <1>3, DeleteRecordTInv, ReadTInv, PessimisticTInv, OptimisticTInv DEF Operation
<1>4. ASSUME NEW t \in Txns, Commit(t) PROVE TInv'
  BY <1>4, CommitStepTInv, IntentStepTInv, FinishTInv DEF Commit
<1>5. ASSUME NEW t \in Txns, Rollbacks(t) PROVE TInv'
  BY <1>5, AbortTInv, FinishTInv DEF Rollbacks
<1> QED BY <1>1, <1>2, <1>3, <1>4, <1>5 DEF Next

(* Every reachable state of the store is well formed: undo entries, write    *)
(* intents and versions keep their shape through every call, commit, abort   *)
(* and collection; a delete call in progress has a record to visit, and      *)
(* phase 2 of an optimistic commit meets only records with an intent.        *)
THEOREM TypeInvariant == Spec => []TInv
  BY InitTInv, StepTInv, PTL DEF Spec

(* TypeOK holds in every reachable state, whatever the interleaving.         *)
THEOREM TypesHold == Spec => []TypeOK
<1>1. TInv => TypeOK
  BY DEF TInv
<1> QED BY <1>1, TypeInvariant, PTL

-----------------------------------------------------------------------------
(***************************************************************************)
(* Write locks, version order and first-committer-wins, for any number of  *)
(* transactions, records and calls, pessimistic and optimistic ones        *)
(* together: while clients run one call at a time and garbage collection   *)
(* removes no record.                                                      *)
(***************************************************************************)

\* cleanup_graph_data only looks at edges, and only once GcThreshold
\* transactions have committed.  (A collection may take away a tombstone that
\* a running transaction owns, and its lock with it.)
NothingRemoved == Edges = {} \/ GcThreshold > MaxTxn

-----------------------------------------------------------------------------
(* What a transaction is doing.                                              *)

\* The places before the records are given their commit timestamp.
Writing == {"run", "create", "delete", "commit", "apply"}
Unfinished(t) == pc[t] \in Writing \cup {"promote", "abort"}

\* A pessimistic transaction has no intents and an optimistic one no undo entries
\* before phase 2; the counter of the promote and abort loops starts at 0.
StrategyOK(t) ==
    /\ Strategy[t] = "Pessimistic" => Intents(t) = {} /\ left[t] = {} /\ pc[t] # "apply"
    /\ Strategy[t] = "Optimistic" /\ pc[t] \notin {"apply", "promote", "committed"} => undo[t] = <<>>
    /\ Strategy[t] = "Optimistic" => pc[t] # "delete"
    /\ pc[t] \in Unregistered => undo[t] = <<>>
    /\ pc[t] \notin {"promote", "abort"} \/ Strategy[t] = "Optimistic" => pos[t] = 0
    /\ pc[t] # "panicked"
Strategies == \A t \in Txns : StrategyOK(t)

\* Timestamps stay below the transaction ids: two are drawn for a transaction.
Started == {t \in Txns : pc[t] \notin {"new", "id"}}
Stamped == {t \in Txns : cts[t] # 0}
ClockBound ==
    /\ clock = 3 + Cardinality(Started) + Cardinality(Stamped)
    /\ \A t \in Txns : pc[t] \in Unregistered \cup {"run", "create", "delete"} => cts[t] = 0
    /\ \A t \in Txns : pc[t] \in {"commit", "apply", "promote", "committed"} => start[t] < cts[t]
    /\ \A t, u \in Txns : cts[t] # 0 => cts[t] # start[u]

\* The base of a staged write is in the snapshot of the transaction.
GuardsOld == \A t \in Txns, r \in Records : wset[t][r].guard <= start[t]

\* Nothing happens between the checks of a create call and its insertion.
OpenFor(t) ==
    Strategy[t] = "Pessimistic" =>
        \A r \in present : target[t] = <<r>> => ~check_write_conflict(head[r].cts, t, start[t])
CreateOpen == \A t \in Txns : pc[t] = "create" => OpenFor(t)

\* The intents that phase 2 has still to apply have been validated.
ValidFor(t) ==
    /\ \A r \in left[t] : r \in present => is_commit_ts(head[r].cts) /\ head[r].cts <= start[t]
    /\ \A i \in DOMAIN undo[t] : undo[t][i].rec \in Intents(t)
Validated == \A t \in Txns : pc[t] = "apply" => ValidFor(t)

\* Only committed transactions wait for collection.
KeptCommitted == \A t \in kept : pc[t] = "committed"

\* A record that is not in the map has no version.
Absent == \A r \in Records \ present : head[r] = NoHead /\ chain[r] = <<>>

-----------------------------------------------------------------------------
(* Locks.                                                                    *)

\* What t has written, it holds; from validation to the end of the commit its
\* records carry its id or already its commit timestamp.
Held ==
    \A t \in Txns : \A i \in DOMAIN undo[t] :
        LET r == undo[t][i].rec IN
        /\ Unfinished(t) => r \in present
        /\ pc[t] \in Writing => head[r].cts = TxnId(t)
        /\ pc[t] = "promote" => head[r].cts \in {TxnId(t), cts[t]}

\* The entries that the promote loops have not reached yet.
Pending(t, r) ==
    IF Strategy[t] = "Optimistic" THEN r \in left[t]
    ELSE \E i \in DOMAIN undo[t] : i > pos[t] /\ undo[t][i].rec = r

\* A mark belongs to a transaction that will take it away, an edge apart that an
\* abort has left marked.
MarkOf(t, r) ==
    /\ pc[t] \notin Unregistered /\ pc[t] # "committed"
    /\ pc[t] \in Writing \cup {"promote"} => \E i \in DOMAIN undo[t] : undo[t][i].rec = r
    /\ pc[t] = "promote" => Pending(t, r)
    /\ pc[t] = "abort" /\ r \in Vertices =>
          /\ \E i \in DOMAIN undo[t] : undo[t][i].rec = r
          /\ \A i \in DOMAIN undo[t] : undo[t][i].rec = r => i > pos[t]
    /\ pc[t] = "aborted" => r \in Edges
Marked == \A t \in Txns, r \in Records : head[r].cts = TxnId(t) => MarkOf(t, r)

\* The oldest entry of a vertex saves a commit timestamp.
FirstSaves ==
    \A t \in Txns : Unfinished(t) => \A i \in DOMAIN undo[t] :
        /\ undo[t][i].rec \in Vertices
        /\ \A j \in DOMAIN undo[t] : j < i => undo[t][j].rec # undo[t][i].rec
        => is_commit_ts(undo[t][i].e.ts)

-----------------------------------------------------------------------------
(* Versions.                                                                 *)

\* The commit timestamps of chain c increase and stay below a head with
\* timestamp ts, or within the snapshot of the transaction whose mark ts is.
Ordered(c, ts, starts) ==
    /\ \A i, j \in DOMAIN c :
          i < j /\ is_commit_ts(c[i].ts) /\ is_commit_ts(c[j].ts) => c[i].ts < c[j].ts
    /\ \A i \in DOMAIN c : is_txn_id(c[i].ts) => c[i].ts = TxnId(c[i].own)
    /\ \A i \in DOMAIN c : is_commit_ts(c[i].ts) =>
          /\ is_commit_ts(ts) => c[i].ts < ts
          /\ \A u \in Txns : ts = TxnId(u) => c[i].ts <= starts[u]
ChainsOrdered == \A r \in Records : Ordered(chain[r], head[r].cts, start)
\* What an abort puts back.
SavedOrdered ==
    \A t \in Txns : Unfinished(t) => \A i \in DOMAIN undo[t] :
        LET e == undo[t][i].e IN
        /\ Ordered(undo[t][i].next, e.ts, start)
        /\ is_txn_id(e.ts) => e.ts = TxnId(t)
        /\ is_commit_ts(e.ts) => e.ts <= start[t]

-----------------------------------------------------------------------------
(* Committed writes.                                                         *)

\* The head of a record is not older than a commit that wrote the record, and a
\* transaction that has marked it since began after that commit.
Superseded ==
    \A w \in Txns : \A r \in wrote[w] :
        /\ pc[w] = "committed" /\ r \in present
        /\ is_commit_ts(head[r].cts) => cts[w] <= head[r].cts
        /\ \A u \in Txns : head[r].cts = TxnId(u) => cts[w] < start[u]

\* The same for what a running transaction has written and will put back.
Succeeds ==
    \A t \in Txns : Unfinished(t) => \A i \in DOMAIN undo[t], w \in Txns :
        undo[t][i].rec \in wrote[w] =>
            /\ cts[w] < start[t]
            /\ is_commit_ts(undo[t][i].e.ts) => cts[w] <= undo[t][i].e.ts

Locks ==
    /\ Absent
    /\ Held /\ Marked /\ FirstSaves
    /\ ChainsOrdered /\ SavedOrdered
    /\ Superseded /\ Succeeds /\ FirstCommitterWins

Stages ==
    Strategies /\ ClockBound /\ GuardsOld /\ CreateOpen /\ Validated /\ KeptCommitted

LInv == NothingRemoved /\ IInv /\ TInv /\ Stages /\ Locks

-----------------------------------------------------------------------------
(* Transaction ids, commit timestamps and the clock.                         *)

LEMMA IdFacts ==
  /\ \A t \in Txns : TxnId(t) \in Nat /\ is_txn_id(TxnId(t))
  /\ \A t, u \in Txns : TxnId(t) = TxnId(u) => t = u
  /\ \A ts \in Nat : is_commit_ts(ts) <=> ~is_txn_id(ts)
  /\ is_commit_ts(0)
BY GraphAssumption DEF Txns, TxnId, is_txn_id, is_commit_ts

LEMMA TxnsFinite ==
  ASSUME NEW S \in SUBSET Txns
  PROVE  IsFiniteSet(S) /\ Cardinality(S) \in Nat /\ Cardinality(S) <= MaxTxn
<1>1. IsFiniteSet(Txns) /\ Cardinality(Txns) = MaxTxn
  BY GraphAssumption, FS_Interval DEF Txns
<1> QED BY <1>1, FS_Subset, FS_CardinalityType

\* A timestamp that has been drawn is not a transaction id.
LEMMA ClockFacts ==
  ASSUME IInv, ClockBound
  PROVE  \A t \in Txns : /\ start[t] \in Nat /\ cts[t] \in Nat
                         /\ is_commit_ts(start[t]) /\ is_commit_ts(cts[t])
<1>1. Started \in SUBSET Txns /\ Stamped \in SUBSET Txns
  BY DEF Started, Stamped
<1>2. clock <= TXN_ID_START
  BY <1>1, TxnsFinite, GraphAssumption DEF ClockBound
<1>3. clock \in Nat /\ \A t \in Txns : start[t] \in Nat /\ cts[t] \in Nat /\ start[t] < clock /\ cts[t] < clock
  BY DEF IInv, Drawn, ManagerTypes
<1> QED BY <1>2, <1>3, GraphAssumption DEF is_commit_ts

\* While t takes a step, every other transaction is between two calls.
LEMMA OthersWait ==
  ASSUME IInv, NEW t \in Txns, Turn(t)
  PROVE  \A u \in Txns : u # t => pc[u] \in {"new", "run", "committed", "aborted"}
BY DEF IInv, Turn, InCall

\* An undo entry of a typed state.
LEMMA EntryFacts ==
  ASSUME TypeOK
  PROVE  \A t \in Txns : \A i \in DOMAIN undo[t] :
            /\ i \in Nat /\ i >= 1 /\ i <= Len(undo[t])
            /\ undo[t][i].rec \in Records
            /\ undo[t][i].e.ts \in Nat
            /\ undo[t][i].next \in Seq(Delta)
<1> SUFFICES ASSUME NEW t \in Txns, NEW i \in DOMAIN undo[t]
             PROVE  /\ i \in Nat /\ i >= 1 /\ i <= Len(undo[t])
                    /\ undo[t][i].rec \in Records
                    /\ undo[t][i].e.ts \in Nat
                    /\ undo[t][i].next \in Seq(Delta)
  OBVIOUS
<1>1. undo[t] \in Seq(UndoEntry)
  BY DEF TypeOK
<1>2. undo[t][i] \in UndoEntry /\ i \in 1 .. Len(undo[t]) /\ Len(undo[t]) \in Nat
  BY <1>1
<1> QED BY <1>2 DEF UndoEntry, Delta, Ts

LEMMA HeadFacts ==
  ASSUME TypeOK
  PROVE  \A r \in Records : head[r] \in Version /\ head[r].cts \in Nat /\ chain[r] \in Seq(Delta)
BY DEF TypeOK, Version, Ts

-----------------------------------------------------------------------------
(* Version order along a chain.                                              *)

LEMMA OrderedEmpty ==
  ASSUME NEW ts, NEW s
  PROVE  Ordered(<<>>, ts, s)
BY DEF Ordered

\* A new entry and the writer's mark on the head.
LEMMA OrderedPush ==
  ASSUME NEW c \in Seq(Delta), NEW e \in Delta, NEW t \in Txns, NEW s \in [Txns -> Nat],
         Ordered(c, e.ts, s), e.own = t,
         is_commit_ts(e.ts) => e.ts <= s[t],
         is_txn_id(e.ts) => e.ts = TxnId(t)
  PROVE  Ordered(Append(c, e), TxnId(t), s)
<1> DEFINE d == Append(c, e)
           n == Len(c)
<1>1. n \in Nat /\ e.ts \in Nat /\ s[t] \in Nat
  BY DEF Delta, Ts
<1>2. DOMAIN d = 1 .. n + 1 /\ DOMAIN c = 1 .. n
  OBVIOUS
<1>3. d[n + 1] = e /\ \A i \in 1 .. n : d[i] = c[i]
  OBVIOUS
<1>4. \A i \in 1 .. n : c[i].ts \in Nat
  <2> TAKE i \in 1 .. n
  <2>1. c[i] \in Delta
    OBVIOUS
  <2> QED BY <2>1 DEF Delta, Ts
<1> HIDE DEF d, n
<1>5. \A i, j \in DOMAIN d :
         i < j /\ is_commit_ts(d[i].ts) /\ is_commit_ts(d[j].ts) => d[i].ts < d[j].ts
  <2> SUFFICES ASSUME NEW i \in 1 .. n + 1, NEW j \in 1 .. n + 1, i < j,
                      is_commit_ts(d[i].ts), is_commit_ts(d[j].ts)
               PROVE  d[i].ts < d[j].ts
    BY <1>2
  <2>1. i \in 1 .. n
    BY <1>1
  <2>2. CASE j \in 1 .. n
    BY <1>2, <1>3, <2>1, <2>2 DEF Ordered
  <2>3. CASE j = n + 1
    BY <1>2, <1>3, <2>1, <2>3 DEF Ordered
  <2> QED BY <2>2, <2>3, <1>1
<1>6. \A i \in DOMAIN d : is_txn_id(d[i].ts) => d[i].ts = TxnId(d[i].own)
  <2> SUFFICES ASSUME NEW i \in 1 .. n + 1, is_txn_id(d[i].ts) PROVE d[i].ts = TxnId(d[i].own)
    BY <1>2
  <2>1. CASE i \in 1 .. n
    BY <1>2, <1>3, <2>1 DEF Ordered
  <2>2. CASE i = n + 1
    BY <1>3, <2>2
  <2> QED BY <2>1, <2>2, <1>1
<1>7. \A i \in DOMAIN d : is_commit_ts(d[i].ts) => d[i].ts <= s[t]
  <2> SUFFICES ASSUME NEW i \in 1 .. n + 1, is_commit_ts(d[i].ts) PROVE d[i].ts <= s[t]
    BY <1>2
  <2>1. CASE i \in 1 .. n
    <3>1. is_commit_ts(e.ts) => c[i].ts < e.ts
      BY <1>2, <1>3, <2>1 DEF Ordered
    <3>2. e.ts = TxnId(t) => c[i].ts <= s[t]
      BY <1>2, <1>3, <2>1 DEF Ordered
    <3>3. is_commit_ts(e.ts) \/ e.ts = TxnId(t)
      BY <1>1, IdFacts
    <3> QED BY <3>1, <3>2, <3>3, <1>1, <1>3, <1>4, <2>1
  <2>2. CASE i = n + 1
    BY <1>3, <2>2
  <2> QED BY <2>1, <2>2, <1>1
<1>8. ~is_commit_ts(TxnId(t)) /\ \A u \in Txns : TxnId(t) = TxnId(u) => u = t
  BY IdFacts
<1> QED BY <1>5, <1>6, <1>7, <1>8 DEF Ordered, d

\* The mark is replaced by a later commit timestamp.
LEMMA OrderedPromote ==
  ASSUME NEW c \in Seq(Delta), NEW t \in Txns, NEW s \in [Txns -> Nat], NEW ts \in Nat,
         Ordered(c, TxnId(t), s), s[t] < ts, is_commit_ts(ts)
  PROVE  Ordered(c, ts, s)
<1>1. \A i \in DOMAIN c : c[i].ts \in Nat
  <2> TAKE i \in DOMAIN c
  <2>1. c[i] \in Delta
    OBVIOUS
  <2> QED BY <2>1 DEF Delta, Ts
<1>2. \A i \in DOMAIN c : is_commit_ts(c[i].ts) => c[i].ts <= s[t]
  BY DEF Ordered
<1>3. \A u \in Txns : ts # TxnId(u)
  BY IdFacts
<1> QED BY <1>1, <1>2, <1>3 DEF Ordered

\* A transaction that has marked nothing draws its start timestamp.
LEMMA OrderedStart ==
  ASSUME NEW c, NEW ts, NEW t \in Txns, NEW s \in [Txns -> Nat], NEW x \in Nat,
         Ordered(c, ts, s), ts # TxnId(t)
  PROVE  Ordered(c, ts, [s EXCEPT ![t] = x])
BY DEF Ordered

-----------------------------------------------------------------------------
(* Steps that leave versions, undo buffers and timestamps alone.             *)

LEMMA LocksKept ==
  ASSUME LInv, NEW t \in Txns, NEW x, pc' = [pc EXCEPT ![t] = x],
         UNCHANGED <<present, head, chain, start, cts, undo, wrote, pos>>,
         \A u \in Txns : u # t => left'[u] = left[u],
         \/ pc[t] \in Unregistered /\ x \in Unregistered \cup {"run"}
         \/ pc[t] \in Writing /\ x \in Writing
         \/ pc[t] \in {"run", "commit"} /\ x = "abort"
         \/ pc[t] = "commit" /\ x = "promote"
  PROVE  Locks'
<1>1. /\ TypeOK /\ Strategies /\ Absent /\ Held /\ Marked /\ FirstSaves /\ ChainsOrdered /\ SavedOrdered
      /\ Superseded /\ Succeeds /\ FirstCommitterWins
  BY DEF LInv, Locks, Stages, TInv
<1>2. pc'[t] = x /\ \A u \in Txns : u # t => pc'[u] = pc[u]
  BY <1>1 DEF TypeOK
<1>3. pc[t] \in Unregistered \cup Writing /\ x \in Unregistered \cup Writing \cup {"promote", "abort"}
  BY DEF Writing
<1>4. \A u \in Txns : Unfinished(u)' => Unfinished(u) \/ undo[u] = <<>>
  BY <1>1, <1>2, <1>3 DEF Unfinished, Writing, Unregistered, Strategies, StrategyOK
<1>5. pc[t] \in Unregistered => undo[t] = <<>>
  BY <1>1 DEF Strategies, StrategyOK
<1>6. Absent'
  BY <1>1 DEF Absent
<1>7. Held'
  <2> SUFFICES ASSUME NEW u \in Txns, NEW i \in DOMAIN undo[u]
               PROVE  /\ Unfinished(u)' => undo[u][i].rec \in present
                      /\ pc'[u] \in Writing => head[undo[u][i].rec].cts = TxnId(u)
                      /\ pc'[u] = "promote" => head[undo[u][i].rec].cts \in {TxnId(u), cts[u]}
    BY DEF Held
  <2>1. CASE u # t
    BY <1>1, <1>2, <2>1 DEF Held, Unfinished
  <2>2. CASE u = t
    <3>1. pc[t] \in Writing
      BY <1>3, <1>5, <2>2
    <3> QED BY <1>1, <2>2, <3>1 DEF Held, Unfinished
  <2> QED BY <2>1, <2>2
<1>8. Marked'
  <2> SUFFICES ASSUME NEW u \in Txns, NEW r \in Records, head[r].cts = TxnId(u)
               PROVE  MarkOf(u, r)'
    BY DEF Marked
  <2>0. MarkOf(u, r)
    BY <1>1 DEF Marked
  <2>1. CASE u # t
    <3>1. pc'[u] = pc[u]
      BY <1>2, <2>1
    <3> QED BY <2>0, <2>1, <3>1 DEF MarkOf, Pending
  <2>2. CASE u = t
    <3>1. pc[t] \in Writing /\ \E i \in DOMAIN undo[t] : undo[t][i].rec = r
      BY <1>3, <2>0, <2>2 DEF MarkOf
    <3>2. x # "committed" /\ x \notin Unregistered /\ x # "aborted"
      BY <3>1 DEF Unregistered, Writing
    <3>3. x \in {"promote", "abort"} => Strategy[t] = "Pessimistic" /\ pos[t] = 0
      <4>1. x \in {"promote", "abort"} => pc[t] \in {"run", "commit"}
        BY DEF Writing, Unregistered
      <4>2. x \in {"promote", "abort"} => Strategy[t] # "Optimistic"
        BY <1>1, <3>1, <4>1 DEF Strategies, StrategyOK
      <4> QED BY <1>1, <4>1, <4>2, GraphAssumption DEF Strategies, StrategyOK
    <3>4. \A i \in DOMAIN undo[t] : i > 0
      BY <1>1, EntryFacts
    <3> QED BY <1>2, <2>2, <3>1, <3>2, <3>3, <3>4 DEF MarkOf, Pending
  <2> QED BY <2>1, <2>2
<1>9. FirstSaves'
  BY <1>1, <1>4 DEF FirstSaves
<1>10. ChainsOrdered'
  BY <1>1 DEF ChainsOrdered
<1>11. SavedOrdered'
  BY <1>1, <1>4 DEF SavedOrdered
<1>12. Superseded'
  BY <1>1, <1>2, <1>3 DEF Superseded, Unregistered, Writing
<1>13. Succeeds'
  BY <1>1, <1>4 DEF Succeeds
<1>14. FirstCommitterWins'
  BY <1>1 DEF FirstCommitterWins
<1> QED BY <1>6, <1>7, <1>8, <1>9, <1>10, <1>11, <1>12, <1>13, <1>14 DEF Locks

-----------------------------------------------------------------------------
(* Writes.                                                                   *)

\* What check_write_conflict and validation leave as the base of a write.
WriteBase(t, r, ts) ==
    \/ r \in present /\ check_write_conflict(head[r].cts, t, start[t]) /\ ts = head[r].cts
    \/ r \notin present /\ ts \in {0, TxnId(t)} /\ (r \in Vertices => ts = 0)

LEMMA BaseFacts ==
  ASSUME LInv, NEW t \in Txns, Turn(t), pc[t] \in Writing, NEW r \in Records, NEW ts \in Nat,
         WriteBase(t, r, ts)
  PROVE  /\ is_commit_ts(ts) => ts <= start[t]
         /\ is_txn_id(ts) => ts = TxnId(t)
         /\ Ordered(chain[r], ts, start)
         /\ \A u \in Txns : Unfinished(u) /\ u # t => \A i \in DOMAIN undo[u] : undo[u][i].rec # r
         /\ \A w \in Txns : r \in wrote[w] => /\ cts[w] < start[t]
                                              /\ is_commit_ts(ts) => cts[w] <= ts
         /\ r \in Vertices /\ (\A i \in DOMAIN undo[t] : undo[t][i].rec # r) => is_commit_ts(ts)
<1>1. /\ TypeOK /\ Absent /\ Held /\ Marked /\ ChainsOrdered /\ Superseded
      /\ IInv /\ ClockBound
  BY DEF LInv, Locks, Stages, TInv
<1>2. start[t] \in Nat /\ head[r].cts \in Nat
  BY <1>1, ClockFacts, HeadFacts
<1>3. \A u \in Txns : u # t => pc[u] \in {"new", "run", "committed", "aborted"}
  BY <1>1, OthersWait
<1>4. CASE r \in present
  <2>1. check_write_conflict(head[r].cts, t, start[t]) /\ ts = head[r].cts
    BY <1>4 DEF WriteBase
  <2>2. /\ is_txn_id(head[r].cts) => head[r].cts = TxnId(t)
        /\ is_commit_ts(head[r].cts) => head[r].cts <= start[t]
    BY <2>1 DEF check_write_conflict
  <2>3. Ordered(chain[r], ts, start)
    BY <1>1, <2>1 DEF ChainsOrdered
  <2>4. ASSUME NEW u \in Txns, Unfinished(u), u # t, NEW i \in DOMAIN undo[u], undo[u][i].rec = r PROVE FALSE
    <3>1. pc[u] \in Writing
      BY <1>3, <2>4 DEF Unfinished, Writing
    <3>2. head[r].cts = TxnId(u)
      BY <1>1, <2>4, <3>1 DEF Held
    <3> QED BY <2>2, <2>4, <3>2, IdFacts
  <2>5. ASSUME NEW w \in Txns, r \in wrote[w]
        PROVE  /\ cts[w] < start[t]
               /\ is_commit_ts(ts) => cts[w] <= ts
    <3>1. /\ pc[w] = "committed" /\ is_commit_ts(head[r].cts) => cts[w] <= head[r].cts
          /\ head[r].cts = TxnId(t) => cts[w] < start[t]
      BY <1>1, <2>5 DEF Superseded
    <3>2. cts[w] \in Nat /\ start[w] \in Nat
      BY <1>1, ClockFacts
    <3>3. cts[w] # 0 /\ cts[w] # start[t]
      <4>1. start[w] < cts[w]
        BY <1>1, <3>1, <2>5 DEF ClockBound, Superseded
      <4> QED BY <1>1, <3>2, <4>1 DEF ClockBound
    <3>4. CASE head[r].cts = TxnId(t)
      BY <2>1, <3>1, <3>4, IdFacts
    <3>5. CASE is_commit_ts(head[r].cts)
      <4>1. cts[w] <= head[r].cts /\ head[r].cts <= start[t]
        BY <1>1, <2>2, <2>5, <3>5 DEF Superseded
      <4> QED BY <1>2, <2>1, <3>2, <3>3, <4>1
    <3> QED BY <1>2, <2>2, <3>4, <3>5, IdFacts
  <2>6. r \in Vertices /\ (\A i \in DOMAIN undo[t] : undo[t][i].rec # r) => is_commit_ts(ts)
    <3>1. head[r].cts = TxnId(t) => \E i \in DOMAIN undo[t] : undo[t][i].rec = r
      BY <1>1 DEF Marked, MarkOf
    <3> QED BY <1>2, <2>1, <2>2, <3>1, IdFacts
  <2> QED BY <2>1, <2>2, <2>3, <2>4, <2>5, <2>6
<1>5. CASE r \notin present
  <2>1. ts \in {0, TxnId(t)} /\ (r \in Vertices => ts = 0)
    BY <1>5 DEF WriteBase
  <2>2. Ordered(chain[r], ts, start)
    BY <1>1, <1>5, OrderedEmpty DEF Absent
  <2>3. \A u \in Txns : Unfinished(u) => \A i \in DOMAIN undo[u] : undo[u][i].rec # r
    BY <1>1, <1>5 DEF Held
  <2>4. \A w \in Txns : r \notin wrote[w]
    BY <1>1, <1>5 DEF Superseded
  <2>5. /\ is_commit_ts(ts) => ts <= start[t]
        /\ is_txn_id(ts) => ts = TxnId(t)
        /\ r \in Vertices => is_commit_ts(ts)
    BY <1>2, <2>1, IdFacts
  <2> QED BY <2>2, <2>3, <2>4, <2>5
<1> QED BY <1>4, <1>5

LEMMA LocksWrite ==
  ASSUME LInv, NEW t \in Txns, Turn(t), pc[t] \in Writing, NEW x, pc' = [pc EXCEPT ![t] = x],
         NEW r \in Records, NEW e \in Delta, e.own = t, WriteBase(t, r, e.ts),
         PushUndo(t, r, e),
         present' = present \cup {r}, head'[r].cts = TxnId(t),
         \A y \in Records : y # r => head'[y] = head[y],
         UNCHANGED <<start, cts, wrote, pos>>,
         \A u \in Txns : u # t => left'[u] = left[u],
         \/ x \in Writing
         \/ /\ x = "promote" /\ Strategy[t] = "Optimistic"
            /\ \A i \in DOMAIN undo'[t] : undo'[t][i].rec \in left'[t]
  PROVE  Locks'
<1>1. /\ TypeOK /\ Absent /\ Held /\ Marked /\ FirstSaves /\ ChainsOrdered /\ SavedOrdered
      /\ Superseded /\ Succeeds /\ FirstCommitterWins /\ IInv /\ ClockBound
  BY DEF LInv, Locks, Stages, TInv
<1>2. pc'[t] = x /\ \A u \in Txns : u # t => pc'[u] = pc[u]
  BY <1>1 DEF TypeOK
<1>3. Unfinished(t) /\ pc[t] \notin {"committed", "promote", "abort", "aborted"}
  BY DEF Unfinished, Writing
<1>4. e.ts \in Nat /\ start[t] \in Nat
  BY <1>1, ClockFacts DEF Delta, Ts
<1>5. /\ is_commit_ts(e.ts) => e.ts <= start[t]
      /\ is_txn_id(e.ts) => e.ts = TxnId(t)
      /\ Ordered(chain[r], e.ts, start)
  BY <1>4, BaseFacts
<1>6. \A u \in Txns : Unfinished(u) /\ u # t => \A i \in DOMAIN undo[u] : undo[u][i].rec # r
  BY <1>4, BaseFacts
<1>7. \A w \in Txns : r \in wrote[w] => /\ cts[w] < start[t]
                                        /\ is_commit_ts(e.ts) => cts[w] <= e.ts
  BY <1>4, BaseFacts
<1>8. r \in Vertices /\ (\A i \in DOMAIN undo[t] : undo[t][i].rec # r) => is_commit_ts(e.ts)
  BY <1>4, BaseFacts
<1> DEFINE n == Len(undo[t])
<1>9. n \in Nat /\ DOMAIN undo[t] = 1 .. n
  BY <1>1 DEF TypeOK
<1>10. /\ \A u \in Txns : u # t => undo'[u] = undo[u]
       /\ undo'[t] = Append(undo[t], UndoRecord(r, e, chain[r]))
  BY <1>1 DEF TypeOK, PushUndo
<1>11. /\ DOMAIN undo'[t] = 1 .. n + 1
       /\ \A i \in 1 .. n : undo'[t][i] = undo[t][i]
       /\ undo'[t][n + 1] = UndoRecord(r, e, chain[r])
  BY <1>1, <1>10 DEF TypeOK
<1>12. /\ undo'[t][n + 1].rec = r /\ undo'[t][n + 1].e = e /\ undo'[t][n + 1].next = chain[r]
  BY <1>11 DEF UndoRecord
<1>13. \A u \in Txns : u # t => (Unfinished(u)' <=> Unfinished(u))
  BY <1>2 DEF Unfinished
<1> HIDE DEF n
<1>14. \A i \in DOMAIN undo'[t] : i \in DOMAIN undo[t] \/ i = n + 1
  BY <1>9, <1>11
<1>15. \A y \in Records, u \in Txns : u # t /\ head'[y].cts = TxnId(u) => y # r /\ head[y].cts = TxnId(u)
  BY IdFacts
<1>16. Absent'
  <2>1. \A y \in Records \ present' : y # r /\ y \notin present
    OBVIOUS
  <2>2. \A y \in Records : y # r => chain'[y] = chain[y]
    BY <1>1 DEF PushUndo, TypeOK
  <2> QED BY <1>1, <2>1, <2>2 DEF Absent
<1>17. Held'
  <2> SUFFICES ASSUME NEW u \in Txns, NEW i \in DOMAIN undo'[u]
               PROVE  /\ Unfinished(u)' => undo'[u][i].rec \in present'
                      /\ pc'[u] \in Writing => head'[undo'[u][i].rec].cts = TxnId(u)
                      /\ pc'[u] = "promote" => head'[undo'[u][i].rec].cts \in {TxnId(u), cts[u]}
    BY DEF Held
  <2>1. CASE u # t
    <3>1. /\ undo'[u] = undo[u] /\ pc'[u] = pc[u] /\ undo[u][i].rec \in Records
      BY <1>1, <1>2, <1>10, <2>1, EntryFacts
    <3>2. Unfinished(u) => head'[undo[u][i].rec] = head[undo[u][i].rec]
      BY <1>6, <2>1, <3>1
    <3> QED BY <1>1, <1>13, <2>1, <3>1, <3>2 DEF Held, Unfinished
  <2>2. CASE u = t
    <3>1. CASE i = n + 1
      BY <1>12, <2>2, <3>1
    <3>2. CASE i \in DOMAIN undo[t]
      <4>1. undo'[t][i].rec = undo[t][i].rec /\ undo[t][i].rec \in Records
        BY <1>1, <1>9, <1>11, <3>2, EntryFacts
      <4>2. undo[t][i].rec \in present /\ head[undo[t][i].rec].cts = TxnId(t)
        BY <1>1, <1>3, <3>2 DEF Held
      <4> QED BY <2>2, <4>1, <4>2
    <3> QED BY <1>14, <2>2, <3>1, <3>2
  <2> QED BY <2>1, <2>2
<1>18. Marked'
  <2> SUFFICES ASSUME NEW u \in Txns, NEW y \in Records, head'[y].cts = TxnId(u)
               PROVE  MarkOf(u, y)'
    BY DEF Marked
  <2>1. CASE u # t
    <3>1. MarkOf(u, y)
      BY <1>1, <1>15, <2>1 DEF Marked
    <3> QED BY <1>2, <1>10, <2>1, <3>1 DEF MarkOf, Pending
  <2>2. CASE u = t
    <3>1. \E i \in DOMAIN undo'[t] : undo'[t][i].rec = y
      <4>1. CASE y = r
        BY <1>9, <1>11, <1>12, <4>1
      <4>2. CASE y # r
        <5>1. \E i \in DOMAIN undo[t] : undo[t][i].rec = y
          BY <1>1, <2>2, <4>2 DEF Marked, MarkOf
        <5> QED BY <1>9, <1>11, <5>1
      <4> QED BY <4>1, <4>2
    <3>2. x \in Writing \cup {"promote"} /\ x \notin Unregistered \cup {"committed", "abort", "aborted"}
      BY DEF Writing, Unregistered
    <3>3. x = "promote" => Strategy[t] = "Optimistic" /\ y \in left'[t]
      BY <3>1 DEF Writing
    <3> QED BY <1>2, <2>2, <3>1, <3>2, <3>3 DEF MarkOf, Pending
  <2> QED BY <2>1, <2>2
<1>19. FirstSaves'
  <2> SUFFICES ASSUME NEW u \in Txns, Unfinished(u)', NEW i \in DOMAIN undo'[u],
                      undo'[u][i].rec \in Vertices,
                      \A j \in DOMAIN undo'[u] : j < i => undo'[u][j].rec # undo'[u][i].rec
               PROVE  is_commit_ts(undo'[u][i].e.ts)
    BY DEF FirstSaves
  <2>1. CASE u # t
    BY <1>1, <1>10, <1>13, <2>1 DEF FirstSaves
  <2>2. CASE u = t /\ i = n + 1
    <3>1. \A j \in DOMAIN undo[t] : undo[t][j].rec # r
      BY <1>9, <1>11, <1>12, <2>2
    <3> QED BY <1>8, <1>12, <2>2, <3>1
  <2>3. CASE u = t /\ i \in DOMAIN undo[t]
    <3>1. undo'[t][i] = undo[t][i]
      BY <1>9, <1>11, <2>3
    <3>2. \A j \in DOMAIN undo[t] : j < i => undo[t][j].rec # undo[t][i].rec
      BY <1>9, <1>11, <2>3
    <3> QED BY <1>1, <1>3, <2>3, <3>1, <3>2 DEF FirstSaves
  <2> QED BY <1>14, <2>1, <2>2, <2>3
<1>20. ChainsOrdered'
  <2> SUFFICES ASSUME NEW y \in Records PROVE Ordered(chain'[y], head'[y].cts, start)
    BY DEF ChainsOrdered
  <2>1. CASE y # r
    <3>1. chain'[y] = chain[y] /\ head'[y] = head[y]
      BY <1>1, <2>1 DEF PushUndo, TypeOK
    <3> QED BY <1>1, <3>1 DEF ChainsOrdered
  <2>2. CASE y = r
    <3>1. chain'[r] = Append(chain[r], e) /\ chain[r] \in Seq(Delta) /\ start \in [Txns -> Nat]
      BY <1>1 DEF PushUndo, TypeOK, Ts
    <3>2. Ordered(Append(chain[r], e), TxnId(t), start)
      BY <1>5, <3>1, OrderedPush
    <3> QED BY <2>2, <3>1, <3>2
  <2> QED BY <2>1, <2>2
<1>21. SavedOrdered'
  <2> SUFFICES ASSUME NEW u \in Txns, Unfinished(u)', NEW i \in DOMAIN undo'[u]
               PROVE  /\ Ordered(undo'[u][i].next, undo'[u][i].e.ts, start)
                      /\ is_txn_id(undo'[u][i].e.ts) => undo'[u][i].e.ts = TxnId(u)
                      /\ is_commit_ts(undo'[u][i].e.ts) => undo'[u][i].e.ts <= start[u]
    BY DEF SavedOrdered
  <2>1. CASE u # t
    BY <1>1, <1>10, <1>13, <2>1 DEF SavedOrdered
  <2>2. CASE u = t /\ i = n + 1
    BY <1>5, <1>12, <2>2
  <2>3. CASE u = t /\ i \in DOMAIN undo[t]
    <3>1. undo'[t][i] = undo[t][i]
      BY <1>9, <1>11, <2>3
    <3> QED BY <1>1, <1>3, <2>3, <3>1 DEF SavedOrdered
  <2> QED BY <1>14, <2>1, <2>2, <2>3
<1>22. Superseded'
  <2> SUFFICES ASSUME NEW w \in Txns, NEW y \in wrote[w]
               PROVE  /\ pc'[w] = "committed" /\ y \in present'
                      /\ is_commit_ts(head'[y].cts) => cts[w] <= head'[y].cts
                      /\ \A u \in Txns : head'[y].cts = TxnId(u) => cts[w] < start[u]
    BY DEF Superseded
  <2>1. pc[w] = "committed" /\ y \in present
    BY <1>1 DEF Superseded
  <2>2. pc'[w] = "committed"
    BY <1>2, <1>3, <2>1
  <2>3. CASE y = r
    BY <1>7, <2>1, <2>2, <2>3, IdFacts
  <2>4. CASE y # r
    <3>1. y \in Records
      BY <1>1, <2>1 DEF TypeOK
    <3> QED BY <1>1, <2>1, <2>2, <2>4, <3>1 DEF Superseded
  <2> QED BY <2>3, <2>4
<1>23. Succeeds'
  <2> SUFFICES ASSUME NEW u \in Txns, Unfinished(u)', NEW i \in DOMAIN undo'[u], NEW w \in Txns,
                      undo'[u][i].rec \in wrote[w]
               PROVE  /\ cts[w] < start[u]
                      /\ is_commit_ts(undo'[u][i].e.ts) => cts[w] <= undo'[u][i].e.ts
    BY DEF Succeeds
  <2>1. CASE u # t
    BY <1>1, <1>10, <1>13, <2>1 DEF Succeeds
  <2>2. CASE u = t /\ i = n + 1
    BY <1>7, <1>12, <2>2
  <2>3. CASE u = t /\ i \in DOMAIN undo[t]
    <3>1. undo'[t][i] = undo[t][i]
      BY <1>9, <1>11, <2>3
    <3> QED BY <1>1, <1>3, <2>3, <3>1 DEF Succeeds
  <2> QED BY <1>14, <2>1, <2>2, <2>3
<1>24. FirstCommitterWins'
  BY <1>1 DEF FirstCommitterWins
<1> QED BY <1>16, <1>17, <1>18, <1>19, <1>20, <1>21, <1>22, <1>23, <1>24 DEF Locks

-----------------------------------------------------------------------------
(* Timestamps.                                                               *)

\* The start timestamp of a transaction that has written nothing.
LEMMA LocksDrawStart ==
  ASSUME LInv, NEW t \in Txns, BeginDrawTs(t)
  PROVE  Locks'
<1>1. /\ TypeOK /\ Absent /\ Held /\ Marked /\ FirstSaves /\ ChainsOrdered /\ SavedOrdered
      /\ Superseded /\ Succeeds /\ FirstCommitterWins
  BY DEF LInv, Locks, Stages, TInv
<1>2. /\ pc[t] = "id" /\ start' = [start EXCEPT ![t] = clock] /\ pc' = [pc EXCEPT ![t] = "ts"]
      /\ present' = present /\ head' = head /\ chain' = chain /\ undo' = undo /\ cts' = cts
      /\ wrote' = wrote /\ left' = left /\ pos' = pos
  BY DEF BeginDrawTs, Goto, graphVars, txnVars, mgrVars
<1>3. pc'[t] = "ts" /\ \A u \in Txns : u # t => pc'[u] = pc[u]
  BY <1>1, <1>2 DEF TypeOK
<1>4. start \in [Txns -> Nat] /\ clock \in Nat /\ \A u \in Txns : u # t => start'[u] = start[u]
  BY <1>1, <1>2 DEF TypeOK, Ts
<1>5. \A r \in Records : head[r].cts # TxnId(t)
  BY <1>1, <1>2 DEF Marked, MarkOf, Unregistered
<1>6. \A u \in Txns : Unfinished(u)' <=> Unfinished(u) /\ u # t
  BY <1>2, <1>3 DEF Unfinished, Writing
<1>7. wrote[t] = {}
  BY <1>1, <1>2 DEF Superseded, TypeOK
<1>8. Absent' /\ FirstSaves'
  BY <1>1, <1>2, <1>6 DEF Absent, FirstSaves
<1>9. Held'
  BY <1>1, <1>2, <1>3, <1>6 DEF Held, Writing
<1>10. Marked'
  BY <1>1, <1>2, <1>3, <1>5 DEF Marked, MarkOf, Pending
<1>11. ChainsOrdered'
  <2> SUFFICES ASSUME NEW r \in Records PROVE Ordered(chain[r], head[r].cts, [start EXCEPT ![t] = clock])
    BY <1>2 DEF ChainsOrdered
  <2> QED BY <1>1, <1>4, <1>5, OrderedStart DEF ChainsOrdered
<1>12. SavedOrdered'
  <2> SUFFICES ASSUME NEW u \in Txns, Unfinished(u), u # t, NEW i \in DOMAIN undo[u]
               PROVE  /\ Ordered(undo[u][i].next, undo[u][i].e.ts, start')
                      /\ is_txn_id(undo[u][i].e.ts) => undo[u][i].e.ts = TxnId(u)
                      /\ is_commit_ts(undo[u][i].e.ts) => undo[u][i].e.ts <= start'[u]
    BY <1>2, <1>6 DEF SavedOrdered
  <2>1. /\ Ordered(undo[u][i].next, undo[u][i].e.ts, start)
        /\ is_txn_id(undo[u][i].e.ts) => undo[u][i].e.ts = TxnId(u)
        /\ is_commit_ts(undo[u][i].e.ts) => undo[u][i].e.ts <= start[u]
    BY <1>1 DEF SavedOrdered
  <2>2. undo[u][i].e.ts \in Nat
    BY <1>1, EntryFacts
  <2>3. undo[u][i].e.ts # TxnId(t)
    BY <2>1, <2>2, IdFacts
  <2>4. Ordered(undo[u][i].next, undo[u][i].e.ts, [start EXCEPT ![t] = clock])
    BY <1>4, <2>1, <2>3, OrderedStart
  <2> QED BY <1>2, <1>4, <2>1, <2>4
<1>13. Superseded'
  <2> SUFFICES ASSUME NEW w \in Txns, NEW r \in wrote[w]
               PROVE  /\ pc'[w] = "committed" /\ r \in present
                      /\ is_commit_ts(head[r].cts) => cts[w] <= head[r].cts
                      /\ \A u \in Txns : head[r].cts = TxnId(u) => cts[w] < start'[u]
    BY <1>2 DEF Superseded
  <2>1. w # t /\ r \in Records
    BY <1>1, <1>7 DEF TypeOK
  <2> QED BY <1>1, <1>3, <1>4, <1>5, <2>1 DEF Superseded
<1>14. Succeeds'
  BY <1>1, <1>2, <1>4, <1>6 DEF Succeeds
<1>15. FirstCommitterWins'
  BY <1>1, <1>2, <1>4, <1>7 DEF FirstCommitterWins
<1> QED BY <1>8, <1>9, <1>10, <1>11, <1>12, <1>13, <1>14, <1>15 DEF Locks

\* The commit timestamp, drawn before commit_lock is taken.
LEMMA LocksDrawCommit ==
  ASSUME LInv, NEW t \in Txns, CommitDrawTs(t)
  PROVE  Locks'
<1>1. /\ TypeOK /\ Absent /\ Held /\ Marked /\ FirstSaves /\ ChainsOrdered /\ SavedOrdered
      /\ Superseded /\ Succeeds /\ FirstCommitterWins
  BY DEF LInv, Locks, Stages, TInv
<1>2. /\ pc[t] = "run" /\ cts' = [cts EXCEPT ![t] = clock] /\ pc' = [pc EXCEPT ![t] = "commit"]
      /\ present' = present /\ head' = head /\ chain' = chain /\ undo' = undo /\ start' = start
      /\ wrote' = wrote /\ left' = left /\ pos' = pos
  BY DEF CommitDrawTs, Goto, graphVars, txnVars, mgrVars
<1>3. pc'[t] = "commit" /\ \A u \in Txns : u # t => pc'[u] = pc[u] /\ cts'[u] = cts[u]
  BY <1>1, <1>2 DEF TypeOK
<1>4. \A u \in Txns : Unfinished(u)' <=> Unfinished(u)
  BY <1>2, <1>3 DEF Unfinished, Writing
<1>5. wrote[t] = {}
  BY <1>1, <1>2 DEF Superseded, TypeOK
<1>6. Absent' /\ FirstSaves' /\ ChainsOrdered' /\ SavedOrdered'
  BY <1>1, <1>2, <1>4 DEF Absent, FirstSaves, ChainsOrdered, SavedOrdered
<1>7. Held'
  BY <1>1, <1>2, <1>3, <1>4 DEF Held, Writing
<1>8. Marked'
  BY <1>1, <1>2, <1>3 DEF Marked, MarkOf, Pending, Writing, Unregistered
<1>9. Superseded'
  BY <1>1, <1>2, <1>3, <1>5 DEF Superseded
<1>10. Succeeds'
  BY <1>1, <1>2, <1>3, <1>4, <1>5 DEF Succeeds
<1>11. FirstCommitterWins'
  BY <1>1, <1>2, <1>3, <1>5 DEF FirstCommitterWins
<1> QED BY <1>6, <1>7, <1>8, <1>9, <1>10, <1>11 DEF Locks

-----------------------------------------------------------------------------
(* Commit: one record of a promote loop.                                     *)

LEMMA LocksPromote ==
  ASSUME LInv, NEW t \in Txns, Turn(t), pc[t] = "promote", NEW r \in Records,
         \E i \in DOMAIN undo[t] : undo[t][i].rec = r,
         head' \in [Records -> Version], head'[r].cts = cts[t],
         \A y \in Records : y # r => head'[y] = head[y],
         \A y \in Records : y # r /\ Pending(t, y) => Pending(t, y)',
         UNCHANGED <<present, chain, pc, undo, start, cts, wrote>>,
         \A u \in Txns : u # t => left'[u] = left[u] /\ pos'[u] = pos[u]
  PROVE  Locks'
<1>1. /\ TypeOK /\ Absent /\ Held /\ Marked /\ FirstSaves /\ ChainsOrdered /\ SavedOrdered
      /\ Superseded /\ Succeeds /\ FirstCommitterWins /\ IInv /\ ClockBound
  BY DEF LInv, Locks, Stages, TInv
<1>2. PICK k \in DOMAIN undo[t] : undo[t][k].rec = r
  OBVIOUS
<1>3. Unfinished(t)
  BY DEF Unfinished
<1>4. r \in present /\ head[r].cts \in {TxnId(t), cts[t]}
  BY <1>1, <1>2, <1>3 DEF Held
<1>5. start[t] < cts[t] /\ is_commit_ts(cts[t]) /\ \A u \in Txns : start[u] \in Nat /\ cts[u] \in Nat
  BY <1>1, ClockFacts DEF ClockBound
<1>6. \A u \in Txns : u # t => pc[u] \in {"new", "run", "committed", "aborted"}
  BY <1>1, OthersWait
<1>7. \A u \in Txns : head'[r].cts # TxnId(u)
  BY <1>5, IdFacts
<1>8. \A u \in Txns : u # t /\ Unfinished(u) => \A i \in DOMAIN undo[u] : undo[u][i].rec # r
  <2> SUFFICES ASSUME NEW u \in Txns, u # t, Unfinished(u), NEW i \in DOMAIN undo[u], undo[u][i].rec = r
               PROVE  FALSE
    OBVIOUS
  <2>1. pc[u] \in Writing
    BY <1>6 DEF Unfinished, Writing
  <2>2. head[r].cts = TxnId(u)
    BY <1>1, <2>1 DEF Held
  <2> QED BY <1>4, <1>5, <2>2, IdFacts
<1>9. Absent'
  BY <1>1, <1>4 DEF Absent
<1>10. Held'
  <2> SUFFICES ASSUME NEW u \in Txns, NEW i \in DOMAIN undo[u]
               PROVE  /\ Unfinished(u) => undo[u][i].rec \in present
                      /\ pc[u] \in Writing => head'[undo[u][i].rec].cts = TxnId(u)
                      /\ pc[u] = "promote" => head'[undo[u][i].rec].cts \in {TxnId(u), cts[u]}
    BY DEF Held, Unfinished
  <2>1. undo[u][i].rec \in Records
    BY <1>1, EntryFacts
  <2>2. CASE u # t
    BY <1>1, <1>8, <2>1, <2>2 DEF Held, Unfinished
  <2>3. CASE u = t
    BY <1>1, <2>1, <2>3 DEF Held, Writing
  <2> QED BY <2>2, <2>3
<1>11. Marked'
  <2> SUFFICES ASSUME NEW u \in Txns, NEW y \in Records, head'[y].cts = TxnId(u)
               PROVE  MarkOf(u, y)'
    BY DEF Marked
  <2>1. y # r
    BY <1>7
  <2>2. MarkOf(u, y)
    BY <1>1, <2>1 DEF Marked
  <2>3. CASE u # t
    BY <2>2, <2>3 DEF MarkOf, Pending
  <2>4. CASE u = t
    <3>1. Pending(t, y)'
      BY <2>1, <2>2, <2>4 DEF MarkOf
    <3> QED BY <2>2, <2>4, <3>1 DEF MarkOf, Writing
  <2> QED BY <2>3, <2>4
<1>12. FirstSaves' /\ SavedOrdered' /\ Succeeds' /\ FirstCommitterWins'
  BY <1>1 DEF FirstSaves, SavedOrdered, Succeeds, FirstCommitterWins, Unfinished
<1>13. ChainsOrdered'
  <2> SUFFICES ASSUME NEW y \in Records PROVE Ordered(chain[y], head'[y].cts, start)
    BY DEF ChainsOrdered
  <2>1. Ordered(chain[y], head[y].cts, start)
    BY <1>1 DEF ChainsOrdered
  <2>2. CASE y = r /\ head[r].cts = TxnId(t)
    <3>1. chain[r] \in Seq(Delta) /\ start \in [Txns -> Nat]
      BY <1>1 DEF TypeOK, Ts
    <3>2. Ordered(chain[r], cts[t], start)
      BY <1>5, <2>1, <2>2, <3>1, OrderedPromote
    <3> QED BY <2>2, <3>2
  <2> QED BY <1>4, <2>1, <2>2
<1>14. Superseded'
  <2> SUFFICES ASSUME NEW w \in Txns, NEW y \in wrote[w]
               PROVE  /\ pc[w] = "committed" /\ y \in present
                      /\ is_commit_ts(head'[y].cts) => cts[w] <= head'[y].cts
                      /\ \A u \in Txns : head'[y].cts = TxnId(u) => cts[w] < start[u]
    BY DEF Superseded
  <2>1. CASE y = r
    <3>1. cts[w] < start[t]
      BY <1>1, <1>2, <1>3, <2>1 DEF Succeeds
    <3>2. cts[w] <= cts[t]
      BY <1>5, <3>1
    <3> QED BY <1>1, <1>7, <2>1, <3>2 DEF Superseded
  <2>2. CASE y # r
    <3>1. y \in Records
      BY <1>1 DEF TypeOK
    <3> QED BY <1>1, <2>2, <3>1 DEF Superseded
  <2> QED BY <2>1, <2>2
<1> QED BY <1>9, <1>10, <1>11, <1>12, <1>13, <1>14 DEF Locks

\* A record of phase 3 whose mark is gone already.
LEMMA LocksPassed ==
  ASSUME LInv, NEW t \in Txns, pc[t] = "promote", NEW r \in Records, head[r].cts # TxnId(t),
         \A y \in Records : y # r /\ Pending(t, y) => Pending(t, y)',
         UNCHANGED <<present, head, chain, pc, undo, start, cts, wrote>>,
         \A u \in Txns : u # t => left'[u] = left[u] /\ pos'[u] = pos[u]
  PROVE  Locks'
<1>1. /\ Absent /\ Held /\ Marked /\ FirstSaves /\ ChainsOrdered /\ SavedOrdered
      /\ Superseded /\ Succeeds /\ FirstCommitterWins
  BY DEF LInv, Locks
<1>2. Marked'
  <2> SUFFICES ASSUME NEW u \in Txns, NEW y \in Records, head[y].cts = TxnId(u)
               PROVE  MarkOf(u, y)'
    BY DEF Marked
  <2>1. MarkOf(u, y)
    BY <1>1 DEF Marked
  <2>2. CASE u # t
    BY <2>1, <2>2 DEF MarkOf, Pending
  <2>3. CASE u = t
    <3>1. Pending(t, y)'
      BY <2>1, <2>3 DEF MarkOf
    <3> QED BY <2>1, <2>3, <3>1 DEF MarkOf, Writing
  <2> QED BY <2>2, <2>3
<1>3. Absent' /\ Held' /\ FirstSaves' /\ ChainsOrdered' /\ SavedOrdered'
  BY <1>1 DEF Absent, Held, FirstSaves, ChainsOrdered, SavedOrdered, Unfinished
<1>4. Superseded' /\ Succeeds' /\ FirstCommitterWins'
  BY <1>1 DEF Superseded, Succeeds, FirstCommitterWins, Unfinished
<1> QED BY <1>2, <1>3, <1>4 DEF Locks

-----------------------------------------------------------------------------
(* Abort: one entry of the undo buffer, oldest first.                        *)

LEMMA LocksAbortEntry ==
  ASSUME LInv, TypeOK', NEW t \in Txns, AbortEntry(t)
  PROVE  Locks'
<1> DEFINE k == pos[t] + 1
           r == undo[t][k].rec
           e == undo[t][k].e
           owned == r \in present /\ head[r].cts = TxnId(t)
<1>1. /\ TypeOK /\ Absent /\ Held /\ Marked /\ FirstSaves /\ ChainsOrdered /\ SavedOrdered
      /\ Superseded /\ Succeeds /\ FirstCommitterWins /\ IInv /\ ClockBound
  BY DEF LInv, Locks, Stages, TInv
<1>2. /\ Turn(t) /\ pc[t] = "abort" /\ pos[t] < Len(undo[t]) /\ pos' = [pos EXCEPT ![t] = k]
      /\ present' = present /\ pc' = pc /\ start' = start /\ cts' = cts /\ undo' = undo
      /\ wrote' = wrote /\ left' = left
  BY DEF AbortEntry, txnVars, mgrVars
<1>3. IF owned THEN /\ head' = [head EXCEPT ![r] = Rollback(@, e)]
                    /\ chain' = [chain EXCEPT ![r] = undo[t][k].next]
      ELSE head' = head /\ chain' = chain
  BY DEF AbortEntry
<1>4. pos[t] \in Nat /\ k \in DOMAIN undo[t] /\ pos'[t] = k /\ \A u \in Txns : u # t => pos'[u] = pos[u]
  <2>1. pos \in [Txns -> Nat] /\ undo[t] \in Seq(UndoEntry)
    BY <1>1 DEF TypeOK
  <2> QED BY <1>2, <2>1
<1>5. r \in Records /\ e.ts \in Nat /\ Unfinished(t)
  BY <1>1, <1>2, <1>4, EntryFacts DEF Unfinished
<1> HIDE DEF k, r, e
<1>6. r \in present /\ k = pos[t] + 1
  BY <1>1, <1>4, <1>5 DEF Held, r, k
<1>7. \A i \in DOMAIN undo[t] : i \in Nat /\ (i > pos[t] => i > k \/ i = k)
  BY <1>1, <1>4, <1>6, EntryFacts
<1>8. CASE ~owned
  <2>1. head' = head /\ chain' = chain /\ head[r].cts # TxnId(t)
    BY <1>3, <1>6, <1>8
  <2>2. Marked'
    <3> SUFFICES ASSUME NEW u \in Txns, NEW y \in Records, head[y].cts = TxnId(u)
                 PROVE  MarkOf(u, y)'
      BY <2>1 DEF Marked
    <3>1. MarkOf(u, y)
      BY <1>1 DEF Marked
    <3>2. CASE u # t
      BY <1>2, <1>4, <3>1, <3>2 DEF MarkOf, Pending
    <3>3. CASE u = t
      <4>1. y # r
        BY <2>1, <3>3
      <4>2. \A i \in DOMAIN undo[t] : undo[t][i].rec = y /\ i > pos[t] => i > k
        BY <1>7, <4>1 DEF r
      <4> QED BY <1>2, <1>4, <3>1, <3>3, <4>2 DEF MarkOf, Writing
    <3> QED BY <3>2, <3>3
  <2>3. Absent' /\ Held' /\ FirstSaves' /\ ChainsOrdered' /\ SavedOrdered'
    BY <1>1, <1>2, <2>1 DEF Absent, Held, FirstSaves, ChainsOrdered, SavedOrdered, Unfinished
  <2>4. Superseded' /\ Succeeds' /\ FirstCommitterWins'
    BY <1>1, <1>2, <2>1 DEF Superseded, Succeeds, FirstCommitterWins, Unfinished
  <2> QED BY <2>2, <2>3, <2>4 DEF Locks
<1>9. CASE owned
  <2>1. /\ head'[r].cts = e.ts /\ chain'[r] = undo[t][k].next
        /\ \A y \in Records : y # r => head'[y] = head[y] /\ chain'[y] = chain[y]
    BY <1>1, <1>3, <1>5, <1>9 DEF TypeOK, Rollback
  <2>2. /\ Ordered(undo[t][k].next, e.ts, start)
        /\ is_txn_id(e.ts) => e.ts = TxnId(t)
    BY <1>1, <1>4, <1>5 DEF SavedOrdered, e
  <2>3. \A u \in Txns : e.ts = TxnId(u) => u = t
    BY <1>5, <2>2, IdFacts
  <2>4. \A u \in Txns : u # t /\ Unfinished(u) => \A i \in DOMAIN undo[u] : undo[u][i].rec # r
    <3> SUFFICES ASSUME NEW u \in Txns, u # t, Unfinished(u), NEW i \in DOMAIN undo[u], undo[u][i].rec = r
                 PROVE  FALSE
      OBVIOUS
    <3>1. pc[u] \in Writing
      BY <1>1, <1>2, OthersWait DEF Unfinished, Writing
    <3>2. head[r].cts = TxnId(u)
      BY <1>1, <3>1 DEF Held
    <3> QED BY <1>9, <3>2, IdFacts
  <2>5. Absent'
    BY <1>1, <1>2, <1>6, <2>1 DEF Absent
  <2>6. Held'
    <3> SUFFICES ASSUME NEW u \in Txns, NEW i \in DOMAIN undo[u]
                 PROVE  /\ Unfinished(u) => undo[u][i].rec \in present
                        /\ pc[u] \in Writing => head'[undo[u][i].rec].cts = TxnId(u)
                        /\ pc[u] = "promote" => head'[undo[u][i].rec].cts \in {TxnId(u), cts[u]}
      BY <1>2 DEF Held, Unfinished
    <3>1. undo[u][i].rec \in Records
      BY <1>1, EntryFacts
    <3>2. CASE u # t
      BY <1>1, <2>1, <2>4, <3>1, <3>2 DEF Held, Unfinished
    <3>3. CASE u = t
      BY <1>1, <1>2, <1>5, <3>3 DEF Held, Writing
    <3> QED BY <3>2, <3>3
  <2>7. Marked'
    <3> SUFFICES ASSUME NEW u \in Txns, NEW y \in Records, head'[y].cts = TxnId(u)
                 PROVE  MarkOf(u, y)'
      BY DEF Marked
    <3>1. CASE y = r
      <4>1. u = t
        BY <2>1, <2>3, <3>1
      <4>2. r \notin Vertices
        <5> SUFFICES ASSUME r \in Vertices PROVE FALSE
          OBVIOUS
        <5>1. \A i \in DOMAIN undo[t] : undo[t][i].rec = r => i > pos[t]
          BY <1>1, <1>2, <1>5, <1>9 DEF Marked, MarkOf
        <5>2. \A j \in DOMAIN undo[t] : j < k => undo[t][j].rec # undo[t][k].rec
          BY <1>4, <1>6, <1>7, <5>1 DEF r
        <5>3. is_commit_ts(e.ts)
          BY <1>1, <1>4, <1>5, <5>2 DEF FirstSaves, e, r
        <5> QED BY <1>5, <2>1, <3>1, <5>3, IdFacts
      <4> QED BY <1>2, <3>1, <4>1, <4>2 DEF MarkOf, Writing, Unregistered
    <3>2. CASE y # r
      <4>1. MarkOf(u, y)
        BY <1>1, <2>1, <3>2 DEF Marked
      <4>2. CASE u # t
        BY <1>2, <1>4, <4>1, <4>2 DEF MarkOf, Pending
      <4>3. CASE u = t
        <5>1. \A i \in DOMAIN undo[t] : undo[t][i].rec = y /\ i > pos[t] => i > k
          BY <1>7, <3>2 DEF r
        <5> QED BY <1>2, <1>4, <4>1, <4>3, <5>1 DEF MarkOf, Writing
      <4> QED BY <4>2, <4>3
    <3> QED BY <3>1, <3>2
  <2>8. FirstSaves' /\ SavedOrdered' /\ Succeeds' /\ FirstCommitterWins'
    BY <1>1, <1>2 DEF FirstSaves, SavedOrdered, Succeeds, FirstCommitterWins, Unfinished
  <2>9. ChainsOrdered'
    <3> SUFFICES ASSUME NEW y \in Records PROVE Ordered(chain'[y], head'[y].cts, start)
      BY <1>2 DEF ChainsOrdered
    <3>1. CASE y = r
      BY <2>1, <2>2, <3>1
    <3>2. CASE y # r
      BY <1>1, <2>1, <3>2 DEF ChainsOrdered
    <3> QED BY <3>1, <3>2
  <2>10. Superseded'
    <3> SUFFICES ASSUME NEW w \in Txns, NEW y \in wrote[w]
                 PROVE  /\ pc[w] = "committed" /\ y \in present
                        /\ is_commit_ts(head'[y].cts) => cts[w] <= head'[y].cts
                        /\ \A u \in Txns : head'[y].cts = TxnId(u) => cts[w] < start[u]
      BY <1>2 DEF Superseded
    <3>1. CASE y = r
      <4>1. cts[w] < start[t] /\ (is_commit_ts(e.ts) => cts[w] <= e.ts)
        BY <1>1, <1>4, <1>5, <3>1 DEF Succeeds, r, e
      <4> QED BY <1>1, <2>1, <2>3, <3>1, <4>1 DEF Superseded
    <3>2. CASE y # r
      <4>1. y \in Records
        BY <1>1 DEF TypeOK
      <4> QED BY <1>1, <2>1, <3>2, <4>1 DEF Superseded
    <3> QED BY <3>1, <3>2
  <2> QED BY <2>5, <2>6, <2>7, <2>8, <2>9, <2>10 DEF Locks
<1> QED BY <1>8, <1>9

-----------------------------------------------------------------------------
(* finish_transaction.                                                       *)

\* A collection that looks at no edge, or has nothing to collect, removes nothing.
LEMMA FinishKeeps ==
  ASSUME LInv, NEW t \in Txns, NEW committed \in BOOLEAN, NEW lat, Finish(t, committed, lat)
  PROVE  /\ present' = present /\ head' = head /\ chain' = chain
         /\ kept' \subseteq kept \cup {t} /\ (~committed => kept' \subseteq kept)
         /\ \A u \in Txns : u \notin kept \cup {t} => undo'[u] = undo[u]
         /\ ~committed => undo'[t] = <<>>
         /\ pos' = [pos EXCEPT ![t] = 0]
         /\ wset' = [wset EXCEPT ![t] = [r \in Records |-> NoIntent]]
<1> DEFINE done == IF committed THEN kept \cup {t} ELSE kept
           bufs == IF committed THEN undo ELSE [undo EXCEPT ![t] = <<>>]
           expired == IF Cardinality(done) >= GcThreshold
                      THEN {u \in done : cts[u] <= watermark'} ELSE {}
           removed == UNION {cleanup_expired_edge(e) : e \in DeletedEdges(expired, bufs)}
<1>1. TypeOK /\ NothingRemoved
  BY DEF LInv, TInv
<1>2. /\ kept' = done \ expired
      /\ present' = present \ removed
      /\ head' = [r \in Records |-> IF r \in removed THEN NoHead ELSE head[r]]
      /\ chain' = [r \in Records |-> IF r \in removed THEN <<>> ELSE chain[r]]
      /\ undo' = [u \in Txns |-> IF u \in expired THEN <<>> ELSE bufs[u]]
      /\ pos' = [pos EXCEPT ![t] = 0]
      /\ wset' = [wset EXCEPT ![t] = [r \in Records |-> NoIntent]]
  BY DEF Finish
<1>3. done \in SUBSET Txns /\ done \subseteq kept \cup {t} /\ (~committed => done = kept)
  BY <1>1 DEF TypeOK
<1>4. expired \subseteq done
  OBVIOUS
<1>5. DeletedEdges(expired, bufs) = {}
  <2>1. CASE Edges = {}
    BY <2>1 DEF DeletedEdges
  <2>2. CASE GcThreshold > MaxTxn
    <3>1. ~(Cardinality(done) >= GcThreshold)
      BY <1>3, <2>2, TxnsFinite, GraphAssumption
    <3>2. expired = {}
      BY <3>1
    <3> HIDE DEF expired, bufs
    <3> QED BY <3>2 DEF DeletedEdges
  <2> QED BY <1>1, <2>1, <2>2 DEF NothingRemoved
<1>6. removed = {}
  BY <1>5
<1>7. head \in [Records -> Version] /\ chain \in [Records -> Seq(Delta)] /\ undo \in [Txns -> Seq(UndoEntry)]
  BY <1>1 DEF TypeOK
<1> HIDE DEF removed, expired, done
<1>8. present' = present /\ head' = head /\ chain' = chain
  BY <1>2, <1>6, <1>7
<1>9. ASSUME NEW u \in Txns, u \notin kept \cup {t} PROVE undo'[u] = undo[u]
  <2>1. u \notin expired
    BY <1>3, <1>4, <1>9
  <2> QED BY <1>2, <1>7, <1>9, <2>1
<1>10. ~committed => undo'[t] = <<>>
  BY <1>2, <1>7
<1> QED BY <1>2, <1>3, <1>4, <1>8, <1>9, <1>10

\* Every record of a transaction that ends its promote loop has its commit timestamp.
LEMMA AllPromoted ==
  ASSUME LInv, NEW t \in Txns, CommitFinish(t)
  PROVE  /\ \A r \in Records : head[r].cts # TxnId(t)
         /\ \A i \in DOMAIN undo[t] : head[undo[t][i].rec].cts = cts[t]
<1>1. /\ TypeOK /\ Held /\ Marked
  BY DEF LInv, Locks, Stages, TInv
<1>2. pc[t] = "promote" /\ left[t] = {} /\ (Strategy[t] = "Pessimistic" => pos[t] = Len(undo[t]))
  BY DEF CommitFinish
<1>3. \A r \in Records : ~Pending(t, r)
  BY <1>1, <1>2, GraphAssumption, EntryFacts DEF Pending
<1>4. \A r \in Records : head[r].cts # TxnId(t)
  BY <1>1, <1>2, <1>3 DEF Marked, MarkOf
<1>5. \A i \in DOMAIN undo[t] : undo[t][i].rec \in Records /\ head[undo[t][i].rec].cts \in {TxnId(t), cts[t]}
  BY <1>1, <1>2, EntryFacts DEF Held
<1> QED BY <1>4, <1>5

LEMMA LocksCommitFinish ==
  ASSUME LInv, NEW t \in Txns, CommitFinish(t)
  PROVE  Locks'
<1>1. /\ TypeOK /\ Absent /\ Held /\ Marked /\ FirstSaves /\ ChainsOrdered /\ SavedOrdered
      /\ Superseded /\ Succeeds /\ FirstCommitterWins /\ IInv /\ ClockBound /\ KeptCommitted
  BY DEF LInv, Locks, Stages, TInv
<1>2. /\ Turn(t) /\ pc[t] = "promote" /\ pc' = [pc EXCEPT ![t] = "committed"]
      /\ start' = start /\ cts' = cts /\ left' = left /\ Finish(t, TRUE, cts[t])
      /\ wrote' = [wrote EXCEPT ![t] = {undo[t][i].rec : i \in DOMAIN undo[t]}]
  BY DEF CommitFinish, Goto
<1>3. /\ present' = present /\ head' = head /\ chain' = chain /\ pos' = [pos EXCEPT ![t] = 0]
      /\ \A u \in Txns : u \notin kept \cup {t} => undo'[u] = undo[u]
  BY <1>2, FinishKeeps
<1>4. pc'[t] = "committed" /\ \A u \in Txns : u # t => pc'[u] = pc[u] /\ pos'[u] = pos[u]
  BY <1>1, <1>2, <1>3 DEF TypeOK
<1>5. wrote'[t] = {undo[t][i].rec : i \in DOMAIN undo[t]} /\ \A u \in Txns : u # t => wrote'[u] = wrote[u]
  BY <1>1, <1>2 DEF TypeOK
<1>6. /\ \A r \in Records : head[r].cts # TxnId(t)
      /\ \A i \in DOMAIN undo[t] : head[undo[t][i].rec].cts = cts[t]
  BY AllPromoted
<1>7. \A u \in Txns : u # t /\ pc[u] # "committed" => undo'[u] = undo[u]
  BY <1>1, <1>3 DEF KeptCommitted
<1>8. \A u \in Txns : Unfinished(u)' => u # t /\ pc[u] # "committed" /\ Unfinished(u)
  BY <1>4 DEF Unfinished, Writing
<1>9. is_commit_ts(cts[t]) /\ \A u \in Txns : cts[u] \in Nat /\ start[u] \in Nat
  BY <1>1, ClockFacts
<1>10. wrote[t] = {} /\ Unfinished(t)
  BY <1>1, <1>2 DEF Superseded, TypeOK, Unfinished
<1>11. Absent' /\ ChainsOrdered'
  BY <1>1, <1>2, <1>3 DEF Absent, ChainsOrdered
<1>12. Held'
  <2> SUFFICES ASSUME NEW u \in Txns, NEW i \in DOMAIN undo'[u], Unfinished(u)'
               PROVE  /\ undo'[u][i].rec \in present
                      /\ pc'[u] \in Writing => head[undo'[u][i].rec].cts = TxnId(u)
                      /\ pc'[u] = "promote" => head[undo'[u][i].rec].cts \in {TxnId(u), cts[u]}
    BY <1>2, <1>3 DEF Held, Unfinished
  <2>1. u # t /\ undo'[u] = undo[u] /\ pc'[u] = pc[u] /\ Unfinished(u)
    BY <1>4, <1>7, <1>8
  <2> QED BY <1>1, <2>1 DEF Held
<1>13. Marked'
  <2> SUFFICES ASSUME NEW u \in Txns, NEW r \in Records, head[r].cts = TxnId(u)
               PROVE  MarkOf(u, r)'
    BY <1>3 DEF Marked
  <2>1. MarkOf(u, r) /\ u # t
    BY <1>1, <1>6 DEF Marked
  <2>2. undo'[u] = undo[u] /\ pc'[u] = pc[u] /\ pos'[u] = pos[u] /\ left'[u] = left[u]
    BY <1>2, <1>4, <1>7, <2>1 DEF MarkOf
  <2> QED BY <2>1, <2>2 DEF MarkOf, Pending
<1>14. FirstSaves'
  BY <1>1, <1>7, <1>8 DEF FirstSaves
<1>15. SavedOrdered'
  BY <1>1, <1>2, <1>7, <1>8 DEF SavedOrdered
<1>16. Superseded'
  <2> SUFFICES ASSUME NEW w \in Txns, NEW r \in wrote'[w]
               PROVE  /\ pc'[w] = "committed" /\ r \in present
                      /\ is_commit_ts(head[r].cts) => cts[w] <= head[r].cts
                      /\ \A u \in Txns : head[r].cts = TxnId(u) => cts[w] < start[u]
    BY <1>2, <1>3 DEF Superseded
  <2>1. CASE w # t
    BY <1>1, <1>4, <1>5, <2>1 DEF Superseded
  <2>2. CASE w = t
    <3>1. PICK i \in DOMAIN undo[t] : undo[t][i].rec = r
      BY <1>5, <2>2
    <3>2. r \in present /\ head[r].cts = cts[t]
      BY <1>1, <1>6, <1>10, <3>1 DEF Held
    <3>3. \A u \in Txns : head[r].cts # TxnId(u)
      BY <1>9, <3>2, IdFacts
    <3> QED BY <1>4, <1>9, <2>2, <3>2, <3>3
  <2> QED BY <2>1, <2>2
<1>17. Succeeds'
  <2> SUFFICES ASSUME NEW u \in Txns, Unfinished(u)', NEW i \in DOMAIN undo'[u], NEW w \in Txns,
                      undo'[u][i].rec \in wrote'[w]
               PROVE  /\ cts[w] < start[u]
                      /\ is_commit_ts(undo'[u][i].e.ts) => cts[w] <= undo'[u][i].e.ts
    BY <1>2 DEF Succeeds
  <2>1. u # t /\ undo'[u] = undo[u] /\ Unfinished(u)
    BY <1>7, <1>8
  <2>2. CASE w # t
    BY <1>1, <1>5, <2>1, <2>2 DEF Succeeds
  <2>3. CASE w = t
    <3>1. PICK j \in DOMAIN undo[t] : undo[t][j].rec = undo[u][i].rec
      BY <1>5, <2>1, <2>3
    <3>2. pc[u] \in Writing
      BY <1>1, <1>2, <2>1, OthersWait DEF Unfinished, Writing
    <3>3. head[undo[u][i].rec].cts = TxnId(u)
      BY <1>1, <2>1, <3>2 DEF Held
    <3>4. head[undo[u][i].rec].cts = cts[t]
      BY <1>6, <3>1
    <3> QED BY <1>9, <3>3, <3>4, IdFacts
  <2> QED BY <2>2, <2>3
<1>18. FirstCommitterWins'
  <2>1. \A w \in Txns : w # t /\ wrote'[t] \cap wrote[w] # {} => cts[w] < start[t]
    <3> SUFFICES ASSUME NEW w \in Txns, w # t, NEW r, r \in wrote'[t], r \in wrote[w] PROVE cts[w] < start[t]
      OBVIOUS
    <3>1. PICK i \in DOMAIN undo[t] : undo[t][i].rec = r
      BY <1>5
    <3> QED BY <1>1, <1>10, <3>1 DEF Succeeds
  <2> SUFFICES ASSUME NEW u \in Txns, NEW w \in Txns, u # w, wrote'[u] \cap wrote'[w] # {}
               PROVE  cts[u] < start[w] \/ cts[w] < start[u]
    BY <1>2 DEF FirstCommitterWins
  <2>2. CASE u # t /\ w # t
    BY <1>1, <1>5, <2>2 DEF FirstCommitterWins
  <2>3. CASE u = t
    BY <1>5, <2>1, <2>3
  <2>4. CASE w = t
    <3>1. wrote'[t] \cap wrote[u] # {}
      BY <1>5, <2>4
    <3> QED BY <2>1, <2>4, <3>1
  <2> QED BY <2>2, <2>3, <2>4
<1> QED BY <1>11, <1>12, <1>13, <1>14, <1>15, <1>16, <1>17, <1>18 DEF Locks

LEMMA LocksAbortFinish ==
  ASSUME LInv, NEW t \in Txns, AbortFinish(t)
  PROVE  Locks'
<1>1. /\ TypeOK /\ Absent /\ Held /\ Marked /\ FirstSaves /\ ChainsOrdered /\ SavedOrdered
      /\ Superseded /\ Succeeds /\ FirstCommitterWins /\ KeptCommitted
  BY DEF LInv, Locks, Stages, TInv
<1>2. /\ pc[t] = "abort" /\ pc' = [pc EXCEPT ![t] = "aborted"] /\ pos[t] = Len(undo[t])
      /\ start' = start /\ cts' = cts /\ wrote' = wrote /\ left' = [left EXCEPT ![t] = {}]
      /\ Finish(t, FALSE, latest)
  BY DEF AbortFinish, Goto
<1>3. /\ present' = present /\ head' = head /\ chain' = chain /\ pos' = [pos EXCEPT ![t] = 0]
      /\ \A u \in Txns : u \notin kept \cup {t} => undo'[u] = undo[u]
  BY <1>2, FinishKeeps
<1>4. pc'[t] = "aborted" /\ \A u \in Txns : u # t => pc'[u] = pc[u] /\ pos'[u] = pos[u] /\ left'[u] = left[u]
  BY <1>1, <1>2, <1>3 DEF TypeOK
<1>5. \A u \in Txns : u # t /\ pc[u] # "committed" => undo'[u] = undo[u]
  BY <1>1, <1>3 DEF KeptCommitted
<1>6. \A u \in Txns : Unfinished(u)' => u # t /\ pc[u] # "committed" /\ Unfinished(u)
  BY <1>4 DEF Unfinished, Writing
<1>7. Absent' /\ ChainsOrdered' /\ FirstCommitterWins'
  BY <1>1, <1>2, <1>3 DEF Absent, ChainsOrdered, FirstCommitterWins
<1>8. Held'
  <2> SUFFICES ASSUME NEW u \in Txns, NEW i \in DOMAIN undo'[u], Unfinished(u)'
               PROVE  /\ undo'[u][i].rec \in present
                      /\ pc'[u] \in Writing => head[undo'[u][i].rec].cts = TxnId(u)
                      /\ pc'[u] = "promote" => head[undo'[u][i].rec].cts \in {TxnId(u), cts[u]}
    BY <1>2, <1>3 DEF Held, Unfinished
  <2>1. u # t /\ undo'[u] = undo[u] /\ pc'[u] = pc[u] /\ Unfinished(u)
    BY <1>4, <1>5, <1>6
  <2> QED BY <1>1, <2>1 DEF Held
<1>9. Marked'
  <2> SUFFICES ASSUME NEW u \in Txns, NEW r \in Records, head[r].cts = TxnId(u)
               PROVE  MarkOf(u, r)'
    BY <1>3 DEF Marked
  <2>1. MarkOf(u, r)
    BY <1>1 DEF Marked
  <2>2. CASE u # t
    <3>1. undo'[u] = undo[u] /\ pc'[u] = pc[u] /\ pos'[u] = pos[u] /\ left'[u] = left[u]
      BY <1>4, <1>5, <2>1, <2>2 DEF MarkOf
    <3> QED BY <2>1, <3>1 DEF MarkOf, Pending
  <2>3. CASE u = t
    <3>1. r \notin Vertices
      BY <1>1, <1>2, <2>1, <2>3, EntryFacts DEF MarkOf
    <3>2. r \in Edges
      BY <3>1 DEF Records
    <3> QED BY <1>4, <2>3, <3>2 DEF MarkOf, Writing, Unregistered
  <2> QED BY <2>2, <2>3
<1>10. FirstSaves'
  BY <1>1, <1>5, <1>6 DEF FirstSaves
<1>11. SavedOrdered'
  BY <1>1, <1>2, <1>5, <1>6 DEF SavedOrdered
<1>12. Superseded'
  BY <1>1, <1>2, <1>3, <1>4 DEF Superseded
<1>13. Succeeds'
  BY <1>1, <1>2, <1>5, <1>6 DEF Succeeds
<1> QED BY <1>7, <1>8, <1>9, <1>10, <1>11, <1>12, <1>13 DEF Locks

-----------------------------------------------------------------------------
(* The stages of a transaction.                                              *)

\* Places at which a commit timestamp has not been drawn, and those at which it has.
Undrawn == Unregistered \cup {"run", "create", "delete"}
Committing == {"commit", "apply", "promote", "committed"}

\* A step of t that draws no timestamp.
LEMMA StagesKept ==
  ASSUME LInv, NEW t \in Txns, Turn(t), NEW x, pc' = [pc EXCEPT ![t] = x], pc[t] # "committed",
         UNCHANGED <<clock, start, cts>>,
         x \in {"new", "id"} <=> pc[t] \in {"new", "id"},
         x \in Undrawn => pc[t] \in Undrawn,
         x \in Committing => pc[t] \in Committing,
         \A u \in kept' : u \in kept \/ (u = t /\ x = "committed"),
         \A u \in Txns : u # t => /\ wset'[u] = wset[u] /\ left'[u] = left[u] /\ pos'[u] = pos[u]
                                  /\ pc[u] # "committed" => undo'[u] = undo[u],
         StrategyOK(t)',
         \A r \in Records : wset'[t][r].guard <= start[t],
         x = "create" => OpenFor(t)', x = "apply" => ValidFor(t)'
  PROVE  Stages'
<1>1. /\ TypeOK /\ Strategies /\ ClockBound /\ GuardsOld /\ KeptCommitted /\ IInv
  BY DEF LInv, Stages, TInv
<1>2. pc'[t] = x /\ \A u \in Txns : u # t => pc'[u] = pc[u]
  BY <1>1 DEF TypeOK
<1>3. \A u \in Txns : u # t => pc[u] \in {"new", "run", "committed", "aborted"}
  BY <1>1, OthersWait
<1>4. Strategies'
  <2> SUFFICES ASSUME NEW u \in Txns, u # t PROVE StrategyOK(u)'
    BY DEF Strategies
  <2>1. Intents(u)' = Intents(u)
    BY DEF Intents
  <2> QED BY <1>1, <1>2, <2>1 DEF Strategies, StrategyOK, Unregistered
<1>5. ClockBound'
  <2>1. Started' = Started /\ Stamped' = Stamped
    BY <1>2 DEF Started, Stamped
  <2>2. clock' = 3 + Cardinality(Started)' + Cardinality(Stamped)'
    BY <1>1, <2>1 DEF ClockBound
  <2>3. \A u \in Txns : /\ pc'[u] \in Undrawn => pc[u] \in Undrawn
                        /\ pc'[u] \in Committing => pc[u] \in Committing
    BY <1>2
  <2> QED BY <1>1, <2>2, <2>3 DEF ClockBound, Undrawn, Committing
<1>6. GuardsOld'
  BY <1>1 DEF GuardsOld
<1>7. CreateOpen' /\ Validated'
  BY <1>2, <1>3 DEF CreateOpen, Validated
<1>8. KeptCommitted'
  BY <1>1, <1>2 DEF KeptCommitted, TypeOK
<1> QED BY <1>4, <1>5, <1>6, <1>7, <1>8 DEF Stages

\* A step of t that draws a timestamp: everything but the clock is as above.
LEMMA StagesDrawn ==
  ASSUME LInv, NEW t \in Txns, BeginDrawTs(t) \/ CommitDrawTs(t)
  PROVE  Stages'
<1>1. /\ TypeOK /\ Strategies /\ ClockBound /\ GuardsOld /\ KeptCommitted /\ IInv
  BY DEF LInv, Stages, TInv
<1>2. /\ Turn(t) /\ clock' = clock + 1 /\ wset' = wset /\ left' = left /\ pos' = pos /\ undo' = undo
      /\ kept' = kept
  BY DEF BeginDrawTs, CommitDrawTs, txnVars, mgrVars
<1>3. \/ /\ pc[t] = "id" /\ pc' = [pc EXCEPT ![t] = "ts"]
         /\ start' = [start EXCEPT ![t] = clock] /\ cts' = cts
      \/ /\ pc[t] = "run" /\ pc' = [pc EXCEPT ![t] = "commit"]
         /\ cts' = [cts EXCEPT ![t] = clock] /\ start' = start
  BY DEF BeginDrawTs, CommitDrawTs, Goto
<1>4. PICK x \in {"ts", "commit"} : pc' = [pc EXCEPT ![t] = x]
  BY <1>3
<1>5. pc'[t] = x /\ \A u \in Txns : u # t => pc'[u] = pc[u]
  BY <1>1, <1>4 DEF TypeOK
<1>6. \A u \in Txns : u # t => pc[u] \in {"new", "run", "committed", "aborted"}
  BY <1>1, <1>2, OthersWait
<1>7. /\ start \in [Txns -> Nat] /\ cts \in [Txns -> Nat] /\ clock \in Nat /\ clock > 0
      /\ \A u \in Txns : start[u] < clock /\ cts[u] < clock
  BY <1>1 DEF TypeOK, Ts, IInv, Drawn
<1>8. Strategies'
  <2> SUFFICES ASSUME NEW u \in Txns PROVE StrategyOK(u)'
    BY DEF Strategies
  <2>1. Intents(u)' = Intents(u)
    BY <1>2 DEF Intents
  <2>2. StrategyOK(u)
    BY <1>1 DEF Strategies
  <2>3. CASE u # t
    BY <1>2, <1>5, <2>1, <2>2, <2>3 DEF StrategyOK
  <2>4. CASE u = t
    <3>1. (pc[t] = "id" /\ pc'[t] = "ts") \/ (pc[t] = "run" /\ pc'[t] = "commit")
      BY <1>1, <1>3 DEF TypeOK
    <3>2. undo'[t] = undo[t] /\ left'[t] = left[t] /\ pos'[t] = pos[t]
      BY <1>2
    <3> QED BY <2>1, <2>2, <2>4, <3>1, <3>2 DEF StrategyOK, Unregistered
  <2> QED BY <2>3, <2>4
<1>9. ClockBound'
  <2>1. Started \in SUBSET Txns /\ Stamped \in SUBSET Txns
    BY DEF Started, Stamped
  <2>2. /\ IsFiniteSet(Started) /\ Cardinality(Started) \in Nat
        /\ IsFiniteSet(Stamped) /\ Cardinality(Stamped) \in Nat
    BY <2>1, TxnsFinite
  <2>3. CASE BeginDrawTs(t)
    <3>1. /\ pc[t] = "id" /\ pc' = [pc EXCEPT ![t] = "ts"]
          /\ start' = [start EXCEPT ![t] = clock] /\ cts' = cts
      BY <2>3 DEF BeginDrawTs, Goto
    <3>2. pc'[t] = "ts" /\ \A u \in Txns : u # t => pc'[u] = pc[u] /\ start'[u] = start[u]
      BY <1>1, <3>1 DEF TypeOK
    <3>3. Started' = Started \cup {t} /\ t \notin Started /\ Stamped' = Stamped
      BY <3>1, <3>2 DEF Started, Stamped
    <3>4. Cardinality(Started') = Cardinality(Started) + 1
      BY <2>2, <3>3, FS_AddElement
    <3>5. clock' = 3 + Cardinality(Started)' + Cardinality(Stamped)'
      BY <1>1, <1>2, <2>2, <3>3, <3>4 DEF ClockBound
    <3>6. \A u \in Txns : pc'[u] \in Undrawn => cts'[u] = 0
      BY <1>1, <3>1, <3>2 DEF ClockBound, Undrawn, Unregistered
    <3>7. \A u \in Txns : pc'[u] \in Committing => start'[u] < cts'[u]
      BY <1>1, <3>1, <3>2 DEF ClockBound, Committing
    <3>8. \A u, w \in Txns : cts'[u] # 0 => cts'[u] # start'[w]
      <4> SUFFICES ASSUME NEW u \in Txns, NEW w \in Txns, cts[u] # 0 PROVE cts[u] # start'[w]
        BY <3>1
      <4>1. CASE w = t
        BY <1>7, <3>1, <4>1
      <4>2. CASE w # t
        BY <1>1, <3>2, <4>2 DEF ClockBound
      <4> QED BY <4>1, <4>2
    <3> QED BY <3>5, <3>6, <3>7, <3>8 DEF ClockBound, Undrawn, Committing
  <2>4. CASE CommitDrawTs(t)
    <3>1. /\ pc[t] = "run" /\ pc' = [pc EXCEPT ![t] = "commit"]
          /\ cts' = [cts EXCEPT ![t] = clock] /\ start' = start
      BY <2>4 DEF CommitDrawTs, Goto
    <3>2. /\ pc'[t] = "commit" /\ cts'[t] = clock
          /\ \A u \in Txns : u # t => pc'[u] = pc[u] /\ cts'[u] = cts[u]
      BY <1>1, <3>1 DEF TypeOK
    <3>3. Started' = Started
      BY <3>1, <3>2 DEF Started
    <3>4. Stamped' = Stamped \cup {t} /\ t \notin Stamped
      <4>1. cts[t] = 0
        BY <1>1, <3>1 DEF ClockBound
      <4> QED BY <1>7, <3>2, <4>1 DEF Stamped
    <3>5. Cardinality(Stamped') = Cardinality(Stamped) + 1
      BY <2>2, <3>4, FS_AddElement
    <3>6. clock' = 3 + Cardinality(Started)' + Cardinality(Stamped)'
      BY <1>1, <1>2, <2>2, <3>3, <3>5 DEF ClockBound
    <3>7. \A u \in Txns : pc'[u] \in Undrawn => cts'[u] = 0
      BY <1>1, <3>1, <3>2 DEF ClockBound, Undrawn, Unregistered
    <3>8. \A u \in Txns : pc'[u] \in Committing => start'[u] < cts'[u]
      BY <1>1, <1>7, <3>1, <3>2 DEF ClockBound, Committing
    <3>9. \A u, w \in Txns : cts'[u] # 0 => cts'[u] # start'[w]
      <4> SUFFICES ASSUME NEW u \in Txns, NEW w \in Txns, cts'[u] # 0 PROVE cts'[u] # start[w]
        BY <3>1
      <4>1. CASE u = t
        BY <1>7, <3>2, <4>1
      <4>2. CASE u # t
        BY <1>1, <3>2, <4>2 DEF ClockBound
      <4> QED BY <4>1, <4>2
    <3> QED BY <3>6, <3>7, <3>8, <3>9 DEF ClockBound, Undrawn, Committing
  <2> QED BY <2>3, <2>4
<1>10. GuardsOld'
  <2> SUFFICES ASSUME NEW u \in Txns, NEW r \in Records PROVE wset[u][r].guard <= start'[u]
    BY <1>2 DEF GuardsOld
  <2>1. wset[u][r].guard <= start[u] /\ wset[u][r].guard \in Nat
    BY <1>1 DEF GuardsOld, TypeOK, Intent, Ts
  <2>2. start'[u] \in Nat /\ start[u] \in Nat /\ start[u] <= start'[u]
    BY <1>3, <1>7
  <2> QED BY <2>1, <2>2
<1>11. CreateOpen' /\ Validated'
  BY <1>5, <1>6 DEF CreateOpen, Validated
<1>12. KeptCommitted'
  BY <1>1, <1>2, <1>3, <1>5 DEF KeptCommitted, TypeOK
<1> QED BY <1>8, <1>9, <1>10, <1>11, <1>12 DEF Stages

-----------------------------------------------------------------------------
(* The steps.                                                                *)

Good == Stages /\ Locks

LEMMA BeginGood ==
  ASSUME LInv, NEW t \in Txns, Begin(t)
  PROVE  Good'
<1>1. TypeOK /\ StrategyOK(t) /\ GuardsOld
  BY DEF LInv, Stages, TInv, Strategies
<1>2. CASE BeginDrawTs(t)
  BY <1>2, StagesDrawn, LocksDrawStart DEF Good
<1>3. CASE BeginDrawId(t) \/ BeginRegister(t)
  <2>1. /\ Turn(t) /\ clock' = clock /\ start' = start /\ cts' = cts /\ present' = present
        /\ head' = head /\ chain' = chain /\ undo' = undo /\ wrote' = wrote /\ wset' = wset
        /\ pos' = pos /\ left' = left /\ kept' = kept
    BY <1>3 DEF BeginDrawId, BeginRegister, graphVars, txnVars, mgrVars
  <2>2. PICK x \in {"id", "run"} : /\ pc' = [pc EXCEPT ![t] = x]
                                   /\ (pc[t] = "new" /\ x = "id") \/ (pc[t] = "ts" /\ x = "run")
    BY <1>3 DEF BeginDrawId, BeginRegister, Goto
  <2>3. pc'[t] = x
    BY <1>1, <2>2 DEF TypeOK
  <2>4. StrategyOK(t)'
    <3>1. Intents(t)' = Intents(t)
      BY <2>1 DEF Intents
    <3> QED BY <1>1, <2>1, <2>2, <2>3, <3>1 DEF StrategyOK, Unregistered
  <2>5. Stages'
    <3>1. \A r \in Records : wset'[t][r].guard <= start[t]
      BY <1>1, <2>1 DEF GuardsOld
    <3>2. /\ x \in {"new", "id"} <=> pc[t] \in {"new", "id"}
          /\ x \in Undrawn => pc[t] \in Undrawn
          /\ x \in Committing => pc[t] \in Committing
          /\ pc[t] # "committed" /\ x # "create" /\ x # "apply"
      BY <2>2 DEF Undrawn, Committing, Unregistered
    <3> QED BY <2>1, <2>2, <2>4, <3>1, <3>2, StagesKept
  <2>6. Locks'
    BY <2>1, <2>2, LocksKept DEF Unregistered
  <2> QED BY <2>5, <2>6 DEF Good
<1> QED BY <1>2, <1>3 DEF Begin

\* A call of t that writes no record.
LEMMA CallGood ==
  ASSUME LInv, NEW t \in Txns, Turn(t), NEW x, pc' = [pc EXCEPT ![t] = x],
         pc[t] \in {"run", "create", "delete"}, x \in {"run", "create", "delete"},
         x = "delete" => Strategy[t] # "Optimistic",
         UNCHANGED <<clock, start, cts, present, head, chain, undo, wrote, pos, left, kept>>,
         \A u \in Txns : u # t => wset'[u] = wset[u],
         wset'[t] = wset[t] \/ Strategy[t] # "Pessimistic",
         \A r \in Records : wset'[t][r].guard <= start[t],
         x = "create" => OpenFor(t)'
  PROVE  Good'
<1>1. TypeOK /\ StrategyOK(t)
  BY DEF LInv, Stages, TInv, Strategies
<1>2. pc'[t] = x
  BY <1>1 DEF TypeOK
<1>3. StrategyOK(t)'
  <2>1. Strategy[t] = "Pessimistic" => Intents(t)' = Intents(t)
    BY DEF Intents
  <2> QED BY <1>1, <1>2, <2>1 DEF StrategyOK, Unregistered
<1>4. /\ x \in {"new", "id"} <=> pc[t] \in {"new", "id"}
      /\ x \in Undrawn => pc[t] \in Undrawn
      /\ x \in Committing => pc[t] \in Committing
      /\ pc[t] # "committed" /\ x # "apply"
  BY DEF Undrawn, Committing, Unregistered
<1>5. Stages'
  BY <1>3, <1>4, StagesKept
<1>6. Locks'
  BY LocksKept DEF Writing
<1> QED BY <1>5, <1>6 DEF Good

\* A call of t that writes record r.
LEMMA WriteGood ==
  ASSUME LInv, NEW t \in Txns, Turn(t), NEW x, pc' = [pc EXCEPT ![t] = x],
         pc[t] \in {"run", "create", "delete"}, x \in {"run", "delete"}, Strategy[t] = "Pessimistic",
         NEW r \in Records, NEW e \in Delta, e.own = t, WriteBase(t, r, e.ts),
         PushUndo(t, r, e),
         present' = present \cup {r}, head'[r].cts = TxnId(t),
         \A y \in Records : y # r => head'[y] = head[y],
         UNCHANGED <<clock, start, cts, wrote, wset, pos, left, kept>>
  PROVE  Good'
<1>1. TypeOK /\ StrategyOK(t) /\ GuardsOld
  BY DEF LInv, Stages, TInv, Strategies
<1>2. pc'[t] = x
  BY <1>1 DEF TypeOK
<1>3. StrategyOK(t)'
  <2>1. Intents(t)' = Intents(t)
    BY DEF Intents
  <2> QED BY <1>1, <1>2, <2>1 DEF StrategyOK, Unregistered
<1>4. /\ x \in {"new", "id"} <=> pc[t] \in {"new", "id"}
      /\ x \in Undrawn => pc[t] \in Undrawn
      /\ x \in Committing => pc[t] \in Committing
      /\ pc[t] # "committed" /\ x # "apply" /\ x # "create"
      /\ pc[t] \in Writing /\ x \in Writing
  BY DEF Undrawn, Committing, Unregistered, Writing
<1>5. \A r2 \in Records : wset'[t][r2].guard <= start[t]
  BY <1>1 DEF GuardsOld
<1>6. \A u \in Txns : u # t => undo'[u] = undo[u]
  BY <1>1 DEF TypeOK, PushUndo
<1>7. Stages'
  BY <1>3, <1>4, <1>5, <1>6, StagesKept
<1>8. Locks'
  BY <1>4, LocksWrite
<1> QED BY <1>7, <1>8 DEF Good

-----------------------------------------------------------------------------
(* Calls.                                                                    *)

\* The base of an optimistic write is in the snapshot.
LEMMA SnapshotGuard ==
  ASSUME LInv, NEW t \in Txns, Strategy[t] = "Optimistic", pc[t] = "run", NEW r \in Records,
         Snapshot(t, r).ok
  PROVE  Snapshot(t, r).guard <= start[t]
<1>1. TypeOK /\ StrategyOK(t) /\ Marked
  BY DEF LInv, Stages, TInv, Strategies, Locks
<1>2. undo[t] = <<>>
  BY <1>1 DEF StrategyOK
<1>3. head[r].cts # TxnId(t)
  BY <1>1, <1>2 DEF Marked, MarkOf, Writing
<1>4. head[r].cts \in Nat /\ start[t] \in Nat
  BY <1>1, HeadFacts DEF TypeOK, Ts
<1> DEFINE newer == NewerThan(head[r].cts, t, start[t])
           s == Snapshot(t, r)
<1>5. newer => s.guard <= start[t]
  BY DEF Snapshot, snapshot_with_guard
<1>6. ~newer => s.guard = head[r].cts
  BY DEF Snapshot, snapshot_with_guard
<1>7. ~newer => head[r].cts <= start[t]
  BY <1>3, <1>4, IdFacts DEF NewerThan
<1> HIDE DEF newer, s
<1>8. s.guard <= start[t]
  BY <1>5, <1>6, <1>7
<1> QED BY <1>8 DEF s

\* The checks of a create call leave no record that could be written over.
LEMMA CheckOpens ==
  ASSUME LInv, NEW t \in Txns, NEW r \in Records, CreateCheck(t, r), Strategy[t] = "Pessimistic",
         r \in present
  PROVE  ~check_write_conflict(head[r].cts, t, start[t])
<1>1. TypeOK /\ StrategyOK(t)
  BY DEF LInv, Stages, TInv, Strategies
<1>2. wset[t][r].kind = "None"
  BY <1>1 DEF StrategyOK, Intents
<1>3. ~head[r].tomb /\ Read(t, r).tomb
  BY DEF CreateCheck, Sees
<1>4. Read(t, r) = VisibleImage(head[r], chain[r], Gone, t, start[t])
  BY <1>2 DEF Read
<1>5. head[r].cts \in Nat /\ start[t] \in Nat /\ TxnId(t) \in Nat
  BY <1>1, HeadFacts, IdFacts DEF TypeOK, Ts
<1>6. ASSUME ~NewerThan(head[r].cts, t, start[t]) PROVE FALSE
  <2>1. Read(t, r) = ImageOf(head[r])
    BY <1>4, <1>6 DEF VisibleImage
  <2> QED BY <1>3, <2>1 DEF ImageOf
<1> QED BY <1>5, <1>6, IdFacts DEF NewerThan, check_write_conflict

LEMMA ReadCallGood ==
  ASSUME LInv, NEW t \in Txns, NEW r \in Records,
         Get(t, r) \/ CreateCheck(t, r) \/ DeleteCheck(t, r)
  PROVE  Good'
<1>1. TypeOK /\ GuardsOld /\ Strategies
  BY DEF LInv, Stages, TInv
<1>2. /\ Turn(t) /\ pc[t] = "run"
      /\ clock' = clock /\ start' = start /\ cts' = cts /\ present' = present
      /\ head' = head /\ chain' = chain /\ undo' = undo /\ wrote' = wrote /\ wset' = wset
      /\ pos' = pos /\ left' = left /\ kept' = kept
  BY DEF Get, CreateCheck, DeleteCheck, MayCall, graphVars, mgrVars
<1>3. \A y \in Records : wset'[t][y].guard <= start[t]
  BY <1>1, <1>2 DEF GuardsOld
<1>4. CASE Get(t, r)
  <2>1. pc' = [pc EXCEPT ![t] = "run"]
    BY <1>1, <1>2, <1>4 DEF Get, TypeOK
  <2> QED BY <1>2, <1>3, <2>1, CallGood
<1>5. CASE CreateCheck(t, r)
  <2>1. pc' = [pc EXCEPT ![t] = "create"] /\ target' = [target EXCEPT ![t] = <<r>>]
    BY <1>5 DEF CreateCheck, Goto
  <2>2. target'[t] = <<r>>
    BY <1>1, <2>1 DEF TypeOK
  <2>3. OpenFor(t)'
    <3> SUFFICES ASSUME Strategy[t] = "Pessimistic", NEW y \in present, target'[t] = <<y>>
                 PROVE  ~check_write_conflict(head[y].cts, t, start[t])
      BY <1>2 DEF OpenFor
    <3>1. y = r
      BY <2>2
    <3> QED BY <1>5, <3>1, CheckOpens
  <2> QED BY <1>2, <1>3, <2>1, <2>3, CallGood
<1>6. CASE DeleteCheck(t, r)
  <2>1. pc' = [pc EXCEPT ![t] = "delete"] /\ Strategy[t] = "Pessimistic"
    BY <1>6 DEF DeleteCheck, Goto
  <2> QED BY <1>2, <1>3, <2>1, CallGood
<1> QED BY <1>4, <1>5, <1>6

\* The calls that stage write intents.
LEMMA StageCallGood ==
  ASSUME LInv, NEW t \in Txns, NEW r \in Records,
         \/ \E p \in Props : SetOptimistic(t, r, p)
         \/ CreateOptimistic(t, r)
         \/ DeleteOptimistic(t, r)
  PROVE  Good'
<1>1. TypeOK /\ GuardsOld
  BY DEF LInv, Stages, TInv
<1>2. /\ Turn(t) /\ pc[t] \in {"run", "create"} /\ Strategy[t] = "Optimistic"
      /\ clock' = clock /\ start' = start /\ cts' = cts /\ present' = present
      /\ head' = head /\ chain' = chain /\ undo' = undo /\ wrote' = wrote
      /\ pos' = pos /\ left' = left /\ kept' = kept
  BY DEF SetOptimistic, CreateOptimistic, DeleteOptimistic, MayCall, graphVars, mgrVars
<1>3. wset[t] \in [Records -> Intent] /\ \A y \in Records : wset[t][y].guard <= start[t]
  BY <1>1 DEF GuardsOld, TypeOK
<1>4. ASSUME NEW p \in Props, SetOptimistic(t, r, p) PROVE Good'
  <2> DEFINE staged == wset[t][r].kind \in {"Insert", "Update"}
             base == IF staged THEN wset[t][r]
                     ELSE [kind |-> "Update", guard |-> Snapshot(t, r).guard, before |-> Snapshot(t, r).img,
                           after |-> Snapshot(t, r).img]
  <2>1. /\ pc[t] = "run" /\ pc' = pc
        /\ staged \/ Snapshot(t, r).ok
        /\ wset' = [wset EXCEPT ![t][r] = [base EXCEPT !.after.props[p] = t]]
    BY <1>4 DEF SetOptimistic, MayCall
  <2>2. pc' = [pc EXCEPT ![t] = "run"]
    BY <1>1, <2>1 DEF TypeOK
  <2>3. base.guard <= start[t]
    <3>1. CASE staged
      BY <1>3, <3>1
    <3>2. CASE ~staged
      <4>1. Snapshot(t, r).guard <= start[t]
        BY <1>2, <2>1, <3>2, SnapshotGuard
      <4> QED BY <3>2, <4>1
    <3> QED BY <3>1, <3>2
  <2>4. base \in Intent
    <3>1. Snapshot(t, r).img \in Image /\ Snapshot(t, r).guard \in Nat
      BY <1>1, IntentTyped
    <3> QED BY <1>3, <3>1 DEF Intent, Ts
  <2> HIDE DEF base, staged
  <2>5. [base EXCEPT !.after.props[p] = t].guard = base.guard
    BY <2>4 DEF Intent
  <2> DEFINE new == [base EXCEPT !.after.props[p] = t]
  <2>6. wset' = [wset EXCEPT ![t][r] = new] /\ new.guard <= start[t]
    BY <2>1, <2>3, <2>5
  <2> HIDE DEF new
  <2>7. /\ \A u \in Txns : u # t => wset'[u] = wset[u]
        /\ \A y \in Records : wset'[t][y] = IF y = r THEN new ELSE wset[t][y]
    BY <1>1, <2>6 DEF TypeOK
  <2>8. \A y \in Records : wset'[t][y].guard <= start[t]
    BY <1>3, <2>6, <2>7
  <2> QED BY <1>2, <2>2, <2>7, <2>8, CallGood
<1>5. CASE CreateOptimistic(t, r)
  <2> DEFINE new == [kind |-> "Insert", guard |-> wset[t][r].guard, before |-> NoImage,
                     after |-> [props |-> [p \in Props |-> t], tomb |-> FALSE]]
  <2>1. pc' = [pc EXCEPT ![t] = "run"] /\ wset' = [wset EXCEPT ![t][r] = new]
    BY <1>5 DEF CreateOptimistic, Goto
  <2>2. new.guard = wset[t][r].guard
    OBVIOUS
  <2> HIDE DEF new
  <2>3. /\ \A u \in Txns : u # t => wset'[u] = wset[u]
        /\ \A y \in Records : wset'[t][y] = IF y = r THEN new ELSE wset[t][y]
    BY <1>1, <2>1 DEF TypeOK
  <2>4. \A y \in Records : wset'[t][y].guard <= start[t]
    BY <1>3, <2>2, <2>3
  <2> QED BY <1>2, <2>1, <2>3, <2>4, CallGood
<1>6. CASE DeleteOptimistic(t, r)
  <2> DEFINE staged == {e \in Edges : wset[t][e].kind # "None" /\ r \in {Src[e], Dst[e]}}
             listed == IF r \in Edges THEN <<>> ELSE Incoming(r) \o Outgoing(r)
             reached == {listed[i] : i \in {j \in DOMAIN listed :
                                              \A k \in 1 .. j : Deletable(t, listed[k])}}
             X == {r} \cup staged \cup reached
  <2>1. /\ pc[t] = "run" /\ pc' = pc /\ Deletable(t, r)
        /\ wset' = [wset EXCEPT ![t] = [x \in Records |->
                       IF x \in X THEN DeleteIntent(t, x) ELSE wset[t][x]]]
    BY <1>6 DEF DeleteOptimistic, MayCall
  <2>2. pc' = [pc EXCEPT ![t] = "run"]
    BY <1>1, <2>1 DEF TypeOK
  <2>3. \A x \in X : Deletable(t, x)
    <3>1. \A x \in staged : Deletable(t, x)
      BY DEF Deletable
    <3>2. listed \in Seq(Records)
      BY <1>1, CascadeTyped
    <3> HIDE DEF listed
    <3>3. ASSUME NEW x \in reached PROVE Deletable(t, x)
      <4>1. PICK i \in DOMAIN listed : x = listed[i] /\ \A k \in 1 .. i : Deletable(t, listed[k])
        BY <3>3
      <4>2. i \in 1 .. i
        BY <3>2
      <4> QED BY <4>1, <4>2
    <3> QED BY <2>1, <3>1, <3>3
  <2> HIDE DEF X
  <2>4. /\ \A u \in Txns : u # t => wset'[u] = wset[u]
        /\ \A y \in Records : wset'[t][y] = IF y \in X THEN DeleteIntent(t, y) ELSE wset[t][y]
    BY <1>1, <2>1 DEF TypeOK
  <2>5. ASSUME NEW y \in Records, Deletable(t, y) PROVE DeleteIntent(t, y).guard <= start[t]
    <3>1. wset[t][y] \in Intent /\ wset[t][y].guard <= start[t]
      BY <1>3
    <3>2. CASE wset[t][y].kind = "None"
      <4>1. Snapshot(t, y).guard <= start[t]
        BY <1>2, <2>1, <2>5, <3>2, SnapshotGuard DEF Deletable
      <4> QED BY <3>2, <4>1 DEF DeleteIntent
    <3>3. CASE wset[t][y].kind # "None"
      <4>1. DeleteIntent(t, y).guard = wset[t][y].guard
        BY <3>1, <3>3 DEF DeleteIntent, Intent
      <4> QED BY <3>1, <4>1
    <3> QED BY <3>2, <3>3
  <2>6. \A y \in Records : wset'[t][y].guard <= start[t]
    BY <1>3, <2>3, <2>4, <2>5
  <2> QED BY <1>2, <2>2, <2>4, <2>6, CallGood
<1> QED BY <1>4, <1>5, <1>6

\* The pessimistic writes.
LEMMA WriteCallGood ==
  ASSUME LInv, NEW t \in Txns,
         \/ DeleteRecord(t)
         \/ \E r \in Records : CreatePessimistic(t, r) \/ \E p \in Props : SetPessimistic(t, r, p)
  PROVE  Good'
<1>1. TypeOK /\ GuardsOld /\ StrategyOK(t) /\ CreateOpen /\ Absent /\ Targeted
  BY DEF LInv, Stages, TInv, Strategies, Locks
<1>2. /\ Turn(t)
      /\ clock' = clock /\ start' = start /\ cts' = cts /\ wrote' = wrote /\ wset' = wset
      /\ pos' = pos /\ left' = left /\ kept' = kept
  BY DEF DeleteRecord, CreatePessimistic, SetPessimistic, MayCall, graphVars, mgrVars
<1>3. \A y \in Records : wset'[t][y].guard <= start[t]
  BY <1>1, <1>2 DEF GuardsOld
<1>4. ASSUME NEW r \in Records, NEW p \in Props, SetPessimistic(t, r, p) PROVE Good'
  <2> DEFINE e == SetDelta(t, {p}, ImageOf(head[r]), head[r].cts)
  <2>1. /\ pc[t] = "run" /\ pc' = pc /\ Strategy[t] = "Pessimistic" /\ Writable(t, r)
        /\ PushUndo(t, r, e) /\ present' = present
        /\ head' = [head EXCEPT ![r].props[p] = t, ![r].cts = TxnId(t)]
    BY <1>4 DEF SetPessimistic, MayCall
  <2>2. pc' = [pc EXCEPT ![t] = "run"]
    BY <1>1, <2>1 DEF TypeOK
  <2>3. head[r] \in Version /\ head[r].cts \in Nat /\ ImageOf(head[r]) \in Image
    BY <1>1, HeadFacts, VersionTyped
  <2>4. e \in Delta /\ e.own = t /\ e.ts = head[r].cts
    <3>1. {p} \in SUBSET Props
      OBVIOUS
    <3>2. e \in Delta
      BY <2>3, <3>1, DeltaTyped
    <3> QED BY <3>2 DEF SetDelta
  <2>5. head'[r].cts = TxnId(t) /\ \A y \in Records : y # r => head'[y] = head[y]
    BY <1>1, <2>1, <2>3 DEF TypeOK, Version
  <2>6. present' = present \cup {r} /\ WriteBase(t, r, e.ts)
    BY <2>1, <2>4 DEF Writable, WriteBase
  <2> HIDE DEF e
  <2> QED BY <1>2, <2>1, <2>2, <2>4, <2>5, <2>6, WriteGood
<1>5. ASSUME NEW r \in Records, CreatePessimistic(t, r) PROVE Good'
  <2> DEFINE new == r \notin present
             cur == IF new THEN [props |-> [p \in Props |-> t], tomb |-> FALSE, cts |-> TxnId(t)]
                    ELSE head[r]
             ts == IF r \in Vertices /\ cur.cts = TxnId(t) THEN 0 ELSE cur.cts
             e == DelDelta(t, ts)
  <2>1. /\ pc[t] = "create" /\ pc' = [pc EXCEPT ![t] = "run"] /\ Strategy[t] = "Pessimistic"
        /\ target[t] = <<r>>
        /\ IF new \/ Writable(t, r)
           THEN /\ PushUndo(t, r, e) /\ present' = present \cup {r}
                /\ head' = [head EXCEPT ![r] = cur]
           ELSE undo' = undo /\ present' = present /\ head' = head /\ chain' = chain
    BY <1>5 DEF CreatePessimistic, Goto, graphVars
  <2>2. CASE new
    <3>1. cur.cts = TxnId(t) /\ ts \in {0, TxnId(t)} /\ (r \in Vertices => ts = 0)
      BY <2>2
    <3>2. ts \in Nat
      BY <3>1, IdFacts
    <3>3. /\ PushUndo(t, r, e) /\ present' = present \cup {r}
          /\ head' = [head EXCEPT ![r] = cur]
      BY <2>1, <2>2
    <3> HIDE DEF cur, ts
    <3>4. e \in Delta /\ e.own = t /\ e.ts = ts
      <4>1. NoImage \in Image /\ {} \in SUBSET Props
        BY NothingTyped
      <4>2. e \in Delta
        BY <3>2, <4>1, DeltaTyped
      <4> QED BY <4>2 DEF DelDelta
    <3>5. head'[r].cts = TxnId(t) /\ \A y \in Records : y # r => head'[y] = head[y]
      BY <1>1, <3>1, <3>3 DEF TypeOK
    <3>6. WriteBase(t, r, e.ts)
      BY <2>2, <3>1, <3>4 DEF WriteBase
    <3> HIDE DEF e
    <3> QED BY <1>2, <2>1, <3>3, <3>4, <3>5, <3>6, WriteGood
  <2>3. CASE ~new
    <3>1. ~Writable(t, r)
      BY <1>1, <2>1, <2>3 DEF CreateOpen, OpenFor, Writable
    <3>2. undo' = undo /\ present' = present /\ head' = head /\ chain' = chain
      BY <2>1, <2>3, <3>1
    <3> QED BY <1>2, <1>3, <2>1, <3>2, CallGood
  <2> QED BY <2>2, <2>3
<1>6. CASE DeleteRecord(t)
  <2> DEFINE r == Head(target[t])
             e == CreateDelta(t, ImageOf(head[r]), head[r].cts)
  <2>1. /\ pc[t] = "delete" /\ present' = present
        /\ IF Writable(t, r)
           THEN PushUndo(t, r, e) /\ head' = [head EXCEPT ![r].tomb = TRUE, ![r].cts = TxnId(t)]
           ELSE undo' = undo /\ chain' = chain /\ head' = head
    BY <1>6 DEF DeleteRecord
  <2>2. PICK x \in {"run", "delete"} : pc' = [pc EXCEPT ![t] = x]
    BY <1>6 DEF DeleteRecord, Goto
  <2>3. Strategy[t] = "Pessimistic"
    BY <1>1, <2>1, GraphAssumption DEF StrategyOK
  <2>4. r \in Records
    <3>1. target[t] \in Seq(Records) /\ target[t] # <<>>
      BY <1>1, <2>1 DEF TypeOK, Targeted
    <3> QED BY <3>1
  <2> HIDE DEF r
  <2>5. CASE Writable(t, r)
    <3>1. head[r] \in Version /\ head[r].cts \in Nat /\ ImageOf(head[r]) \in Image
      BY <1>1, <2>4, HeadFacts, VersionTyped
    <3>2. e \in Delta /\ e.own = t /\ e.ts = head[r].cts
      <4>1. {} \in SUBSET Props
        OBVIOUS
      <4>2. e \in Delta
        BY <3>1, <4>1, DeltaTyped
      <4> QED BY <4>2 DEF CreateDelta
    <3>3. PushUndo(t, r, e) /\ head' = [head EXCEPT ![r].tomb = TRUE, ![r].cts = TxnId(t)]
      BY <2>1, <2>5
    <3>4. head'[r].cts = TxnId(t) /\ \A y \in Records : y # r => head'[y] = head[y]
      BY <1>1, <2>4, <3>1, <3>3 DEF TypeOK, Version
    <3>5. present' = present \cup {r} /\ WriteBase(t, r, e.ts)
      BY <2>1, <2>5, <3>2 DEF Writable, WriteBase
    <3> HIDE DEF e
    <3> QED BY <1>2, <2>1, <2>2, <2>3, <2>4, <3>2, <3>3, <3>4, <3>5, WriteGood
  <2>6. CASE ~Writable(t, r)
    <3>1. undo' = undo /\ chain' = chain /\ head' = head
      BY <2>1, <2>6
    <3> QED BY <1>2, <1>3, <2>1, <2>2, <2>3, <3>1, CallGood
  <2> QED BY <2>5, <2>6
<1> QED BY <1>4, <1>5, <1>6

-----------------------------------------------------------------------------
(* Commit and abort.                                                         *)

LEMMA CommitLockGood ==
  ASSUME LInv, NEW t \in Txns, CommitLock(t)
  PROVE  Good'
<1>1. TypeOK /\ GuardsOld /\ StrategyOK(t) /\ Marked /\ ClockBound /\ IInv
  BY DEF LInv, Stages, TInv, Strategies, Locks
<1>2. /\ Turn(t) /\ pc[t] = "commit"
      /\ clock' = clock /\ start' = start /\ cts' = cts /\ present' = present
      /\ head' = head /\ chain' = chain /\ undo' = undo /\ wrote' = wrote /\ wset' = wset
      /\ pos' = pos /\ left' = [left EXCEPT ![t] = Intents(t)] /\ kept' = kept
  BY DEF CommitLock, graphVars, txnVars, mgrVars
<1>3. PICK x \in {"abort", "apply", "promote"} :
        /\ pc' = [pc EXCEPT ![t] = x]
        /\ x = "apply" => Intents(t) # {} /\ \A r \in Intents(t) : IntentValid(t, r)
        /\ x = "promote" => Intents(t) = {}
  BY DEF CommitLock, Goto
<1>4. pc'[t] = x /\ left'[t] = Intents(t) /\ \A u \in Txns : u # t => left'[u] = left[u]
  BY <1>1, <1>2, <1>3 DEF TypeOK
<1>5. Intents(t)' = Intents(t)
  BY <1>2 DEF Intents
<1>6. StrategyOK(t)'
  <2>1. undo'[t] = undo[t] /\ pos'[t] = pos[t]
    BY <1>2
  <2> QED BY <1>1, <1>2, <1>3, <1>4, <1>5, <2>1 DEF StrategyOK, Unregistered
<1>7. x = "apply" => ValidFor(t)'
  <2> SUFFICES ASSUME x = "apply" PROVE ValidFor(t)'
    OBVIOUS
  <2>1. Strategy[t] = "Optimistic" /\ undo[t] = <<>>
    BY <1>1, <1>2, <1>3, GraphAssumption DEF StrategyOK
  <2>2. ASSUME NEW r \in Intents(t), r \in present
        PROVE  is_commit_ts(head[r].cts) /\ head[r].cts <= start[t]
    <3>1. r \in Records /\ wset[t][r].kind # "None" /\ wset[t][r] \in Intent
      BY <1>1 DEF Intents, TypeOK
    <3>2. head[r].cts # TxnId(t)
      BY <1>1, <1>2, <2>1, <3>1 DEF Marked, MarkOf, Writing
    <3>3. head[r].cts = wset[t][r].guard
      BY <1>3, <2>2, <3>1, <3>2 DEF IntentValid
    <3>4. wset[t][r].guard <= start[t] /\ wset[t][r].guard \in Nat
      BY <1>1, <3>1 DEF GuardsOld, Intent, Ts
    <3>5. start[t] \in Nat /\ is_commit_ts(start[t])
      BY <1>1, ClockFacts
    <3> QED BY <3>3, <3>4, <3>5, GraphAssumption DEF is_commit_ts
  <2> QED BY <1>2, <1>4, <2>1, <2>2 DEF ValidFor
<1>8. Stages'
  <2>1. \A r \in Records : wset'[t][r].guard <= start[t]
    BY <1>1, <1>2 DEF GuardsOld
  <2>2. /\ x \in {"new", "id"} <=> pc[t] \in {"new", "id"}
        /\ x \in Undrawn => pc[t] \in Undrawn
        /\ x \in Committing => pc[t] \in Committing
        /\ pc[t] # "committed" /\ x # "create"
    BY <1>2, <1>3 DEF Undrawn, Committing, Unregistered
  <2> QED BY <1>2, <1>3, <1>4, <1>6, <1>7, <2>1, <2>2, StagesKept
<1>9. Locks'
  <2>1. \/ pc[t] \in Writing /\ x \in Writing
        \/ pc[t] \in {"run", "commit"} /\ x = "abort"
        \/ pc[t] = "commit" /\ x = "promote"
    BY <1>2, <1>3 DEF Writing
  <2> QED BY <1>2, <1>3, <1>4, <2>1, LocksKept
<1> QED BY <1>8, <1>9 DEF Good

LEMMA AbortGood ==
  ASSUME LInv, NEW t \in Txns, Abort(t)
  PROVE  Good'
<1>1. TypeOK /\ GuardsOld /\ StrategyOK(t)
  BY DEF LInv, Stages, TInv, Strategies
<1>2. /\ Turn(t) /\ pc[t] = "run" /\ pc' = [pc EXCEPT ![t] = "abort"]
      /\ clock' = clock /\ start' = start /\ cts' = cts /\ present' = present
      /\ head' = head /\ chain' = chain /\ undo' = undo /\ wrote' = wrote /\ wset' = wset
      /\ pos' = pos /\ left' = left /\ kept' = kept
  BY DEF Abort, Goto, graphVars, txnVars, mgrVars
<1>3. pc'[t] = "abort" /\ Intents(t)' = Intents(t)
  BY <1>1, <1>2 DEF TypeOK, Intents
<1>4. StrategyOK(t)'
  BY <1>1, <1>2, <1>3 DEF StrategyOK, Unregistered
<1>5. Stages'
  <2>1. \A r \in Records : wset'[t][r].guard <= start[t]
    BY <1>1, <1>2 DEF GuardsOld
  <2>2. "abort" \notin Undrawn \cup Committing
    BY DEF Undrawn, Committing, Unregistered
  <2> QED BY <1>2, <1>4, <2>1, <2>2, StagesKept
<1>6. Locks'
  BY <1>2, LocksKept
<1> QED BY <1>5, <1>6 DEF Good

\* The promote loops.
LEMMA PromoteGood ==
  ASSUME LInv, TypeOK', NEW t \in Txns, Promote(t)
  PROVE  Good'
<1> DEFINE k == pos[t] + 1
           r == undo[t][k].rec
<1>1. TypeOK /\ GuardsOld /\ StrategyOK(t) /\ Held
  BY DEF LInv, Stages, TInv, Strategies, Locks
<1>2. /\ Turn(t) /\ pc[t] = "promote" /\ Strategy[t] = "Pessimistic" /\ pos[t] < Len(undo[t])
      /\ pos' = [pos EXCEPT ![t] = k]
      /\ clock' = clock /\ start' = start /\ cts' = cts /\ present' = present
      /\ chain' = chain /\ undo' = undo /\ wrote' = wrote /\ wset' = wset
      /\ left' = left /\ kept' = kept
      /\ r \in present => head' = [head EXCEPT ![r].cts = cts[t]] /\ pc' = pc
  BY DEF Promote, txnVars, mgrVars
<1>3. pos[t] \in Nat /\ k \in DOMAIN undo[t] /\ pos'[t] = k /\ \A u \in Txns : u # t => pos'[u] = pos[u]
  <2>1. pos \in [Txns -> Nat] /\ undo[t] \in Seq(UndoEntry)
    BY <1>1 DEF TypeOK
  <2> QED BY <1>2, <2>1
<1>4. r \in Records /\ r \in present
  BY <1>1, <1>2, <1>3, EntryFacts DEF Held, Unfinished
<1>5. k = pos[t] + 1 /\ \E i \in DOMAIN undo[t] : undo[t][i].rec = r
  BY <1>3
<1>6. \A y \in Records : y # r /\ Pending(t, y) => Pending(t, y)'
  <2> SUFFICES ASSUME NEW y \in Records, y # r, NEW i \in DOMAIN undo[t], i > pos[t], undo[t][i].rec = y
               PROVE  i > k
    BY <1>2, <1>3 DEF Pending
  <2>1. i # k /\ i \in Nat
    BY <1>1, EntryFacts
  <2> QED BY <1>3, <2>1
<1>7. /\ head'[r].cts = cts[t] /\ \A y \in Records : y # r => head'[y] = head[y]
      /\ pc' = pc /\ head' \in [Records -> Version]
  BY <1>1, <1>2, <1>4 DEF TypeOK, Version
<1> HIDE DEF k, r
<1>8. Locks'
  BY <1>2, <1>3, <1>4, <1>5, <1>6, <1>7, LocksPromote
<1>9. StrategyOK(t)'
  <2>1. Intents(t)' = Intents(t)
    BY <1>2 DEF Intents
  <2> QED BY <1>1, <1>2, <1>7, <2>1 DEF StrategyOK, Unregistered
<1>10. Stages'
  <2>1. pc' = [pc EXCEPT ![t] = "promote"]
    BY <1>1, <1>2, <1>7 DEF TypeOK
  <2>2. \A y \in Records : wset'[t][y].guard <= start[t]
    BY <1>1, <1>2 DEF GuardsOld
  <2> QED BY <1>2, <1>3, <1>9, <2>1, <2>2, StagesKept
<1> QED BY <1>8, <1>10 DEF Good

LEMMA PromoteIntentGood ==
  ASSUME LInv, TypeOK', NEW t \in Txns, NEW r \in Records, PromoteIntent(t, r)
  PROVE  Good'
<1>1. TypeOK /\ GuardsOld /\ StrategyOK(t) /\ Marked /\ Absent
  BY DEF LInv, Stages, TInv, Strategies, Locks
<1>2. /\ Turn(t) /\ pc[t] = "promote" /\ r \in left[t] /\ left' = [left EXCEPT ![t] = @ \ {r}]
      /\ head' = [head EXCEPT ![r].cts = IF r \in present /\ head[r].cts = TxnId(t) THEN cts[t] ELSE head[r].cts]
      /\ clock' = clock /\ start' = start /\ cts' = cts /\ present' = present
      /\ chain' = chain /\ undo' = undo /\ wrote' = wrote /\ wset' = wset
      /\ pos' = pos /\ kept' = kept /\ pc' = pc
  BY DEF PromoteIntent, txnVars, mgrVars
<1>3. Strategy[t] = "Optimistic"
  BY <1>1, <1>2, GraphAssumption DEF StrategyOK
<1>4. left'[t] = left[t] \ {r} /\ \A u \in Txns : u # t => left'[u] = left[u]
  BY <1>1, <1>2 DEF TypeOK
<1>5. \A y \in Records : y # r /\ Pending(t, y) => Pending(t, y)'
  BY <1>3, <1>4 DEF Pending
<1>6. Locks'
  <2>1. CASE head[r].cts = TxnId(t)
    <3>1. r \in present
      <4>1. r \notin present => head[r].cts = 0
        BY <1>1 DEF Absent, NoHead, HeadOf
      <4>2. TxnId(t) # 0
        BY IdFacts
      <4> QED BY <2>1, <4>1, <4>2
    <3>2. /\ head'[r].cts = cts[t] /\ \A y \in Records : y # r => head'[y] = head[y]
          /\ head' \in [Records -> Version]
      <4>1. head' = [head EXCEPT ![r].cts = cts[t]]
        BY <1>2, <2>1, <3>1
      <4>2. head \in [Records -> Version] /\ head' \in [Records -> Version] /\ head[r] \in Version
        BY <1>1 DEF TypeOK
      <4>3. head'[r] = [head[r] EXCEPT !.cts = cts[t]] /\ \A y \in Records : y # r => head'[y] = head[y]
        BY <4>1, <4>2
      <4>4. [head[r] EXCEPT !.cts = cts[t]].cts = cts[t]
        BY <4>2 DEF Version
      <4> QED BY <4>2, <4>3, <4>4
    <3>3. \E i \in DOMAIN undo[t] : undo[t][i].rec = r
      BY <1>1, <1>2, <2>1 DEF Marked, MarkOf
    <3> QED BY <1>2, <1>4, <1>5, <3>2, <3>3, LocksPromote
  <2>2. CASE head[r].cts # TxnId(t)
    <3>1. head' = [head EXCEPT ![r].cts = head[r].cts]
      BY <1>2, <2>2
    <3>2. head' = head
      <4>1. head \in [Records -> Version] /\ head[r] \in Version
        BY <1>1 DEF TypeOK
      <4>2. [head[r] EXCEPT !.cts = head[r].cts] = head[r]
        BY <4>1 DEF Version
      <4> QED BY <3>1, <4>1, <4>2
    <3> QED BY <1>2, <1>4, <1>5, <2>2, <3>2, LocksPassed
  <2> QED BY <2>1, <2>2
<1>7. StrategyOK(t)'
  <2>1. Intents(t)' = Intents(t)
    BY <1>2 DEF Intents
  <2> QED BY <1>1, <1>2, <1>3, <2>1 DEF StrategyOK, Unregistered
<1>8. Stages'
  <2>1. pc' = [pc EXCEPT ![t] = "promote"]
    BY <1>1, <1>2 DEF TypeOK
  <2>2. \A y \in Records : wset'[t][y].guard <= start[t]
    BY <1>1, <1>2 DEF GuardsOld
  <2> QED BY <1>2, <1>4, <1>7, <2>1, <2>2, StagesKept
<1> QED BY <1>6, <1>8 DEF Good

\* Phase 2: one intent.
LEMMA ApplyGood ==
  ASSUME LInv, NEW t \in Txns, NEW r \in Records, ApplyIntent(t, r)
  PROVE  Good'
<1> DEFINE w == wset[t][r]
           cur == IF r \in present THEN head[r] ELSE NoHead
           delta == CASE w.kind = "Insert" -> DelDelta(t, cur.cts)
                      [] w.kind = "Update" -> SetDelta(t, ChangedProps(w.before, w.after), w.before, cur.cts)
                      [] w.kind = "Delete" -> CreateDelta(t, w.before, cur.cts)
           img == IF w.kind # "Delete" THEN w.after
                  ELSE [props |-> IF r \in present THEN cur.props ELSE w.before.props, tomb |-> TRUE]
<1>1. TypeOK /\ GuardsOld /\ StrategyOK(t) /\ Validated /\ Applying
  BY DEF LInv, Stages, TInv, Strategies
<1>2. /\ Turn(t) /\ pc[t] = "apply" /\ r \in left[t]
      /\ PushUndo(t, r, delta) /\ present' = present \cup {r}
      /\ head' = [head EXCEPT ![r] = HeadOf(img, TxnId(t))]
      /\ left' = [left EXCEPT ![t] = IF @ = {r} THEN Intents(t) ELSE @ \ {r}]
      /\ pc' = [pc EXCEPT ![t] = IF left[t] = {r} THEN "promote" ELSE "apply"]
      /\ clock' = clock /\ start' = start /\ cts' = cts /\ wset' = wset /\ wrote' = wrote
      /\ pos' = pos /\ kept' = kept
  BY DEF ApplyIntent, Goto, mgrVars
<1>3. w \in Intent /\ w.kind # "None" /\ r \in Intents(t) /\ Intents(t)' = Intents(t)
  BY <1>1, <1>2 DEF Applying, Intents, TypeOK
<1>4. cur \in Version /\ cur.cts \in Nat
  BY <1>1, VersionTyped, NothingTyped DEF TypeOK
<1>5. WriteBase(t, r, cur.cts)
  <2>1. CASE r \in present
    <3>1. is_commit_ts(head[r].cts) /\ head[r].cts <= start[t] /\ head[r].cts \in Nat
      BY <1>1, <1>2, <2>1, HeadFacts DEF Validated, ValidFor
    <3> QED BY <2>1, <3>1, IdFacts DEF WriteBase, check_write_conflict
  <2>2. CASE r \notin present
    BY <2>2 DEF WriteBase, NoHead, HeadOf
  <2> QED BY <2>1, <2>2
<1>6. head'[r].cts = TxnId(t) /\ \A y \in Records : y # r => head'[y] = head[y]
  BY <1>1, <1>2 DEF TypeOK, HeadOf
<1> HIDE DEF w, cur, img
<1>7. /\ w.before \in Image /\ w.after \in Image
      /\ w.kind \in {"Insert", "Update", "Delete"}
      /\ ChangedProps(w.before, w.after) \in SUBSET Props
  BY <1>3 DEF Intent, ChangedProps
<1>8. delta \in Delta
  BY <1>4, <1>7, DeltaTyped
<1>9. delta.own = t /\ delta.ts = cur.cts
  BY <1>7 DEF DelDelta, SetDelta, CreateDelta
<1> HIDE DEF delta
<1>10. Strategy[t] = "Optimistic"
  BY <1>1, <1>2, GraphAssumption DEF StrategyOK
<1>11. PICK x \in {"promote", "apply"} : /\ pc' = [pc EXCEPT ![t] = x]
                                         /\ x = "promote" => left[t] = {r}
                                         /\ x = "apply" => left[t] # {r}
  BY <1>2
<1>12. /\ pc'[t] = x /\ left'[t] = (IF x = "promote" THEN Intents(t) ELSE left[t] \ {r})
       /\ \A u \in Txns : u # t => left'[u] = left[u] /\ undo'[u] = undo[u]
       /\ undo'[t] = Append(undo[t], UndoRecord(r, delta, chain[r]))
  BY <1>1, <1>2, <1>11 DEF TypeOK, PushUndo
<1>13. \A i \in DOMAIN undo'[t] : undo'[t][i].rec \in Intents(t)
  <2> SUFFICES ASSUME NEW i \in DOMAIN undo'[t] PROVE undo'[t][i].rec \in Intents(t)
    OBVIOUS
  <2>1. undo[t] \in Seq(UndoEntry)
    BY <1>1 DEF TypeOK
  <2>2. (i \in DOMAIN undo[t] /\ undo'[t][i] = undo[t][i]) \/ undo'[t][i] = UndoRecord(r, delta, chain[r])
    BY <1>12, <2>1
  <2>3. UndoRecord(r, delta, chain[r]).rec = r
    BY DEF UndoRecord
  <2>4. \A j \in DOMAIN undo[t] : undo[t][j].rec \in Intents(t)
    BY <1>1, <1>2 DEF Validated, ValidFor
  <2> QED BY <1>3, <2>2, <2>3, <2>4
<1>14. Locks'
  <2>1. pc[t] \in Writing
    BY <1>2 DEF Writing
  <2>2. \/ x \in Writing
        \/ /\ x = "promote" /\ Strategy[t] = "Optimistic"
           /\ \A i \in DOMAIN undo'[t] : undo'[t][i].rec \in left'[t]
    BY <1>10, <1>11, <1>12, <1>13 DEF Writing
  <2>3. WriteBase(t, r, delta.ts)
    BY <1>5, <1>9
  <2>4. /\ Turn(t) /\ PushUndo(t, r, delta) /\ present' = present \cup {r}
        /\ UNCHANGED <<start, cts, wrote, pos>>
    BY <1>2
  <2>5. /\ pc' = [pc EXCEPT ![t] = x] /\ delta.own = t
        /\ \A u \in Txns : u # t => left'[u] = left[u]
    BY <1>9, <1>11, <1>12
  <2> QED BY <1>6, <1>8, <2>1, <2>2, <2>3, <2>4, <2>5, LocksWrite
<1>15. StrategyOK(t)'
  <2>1. pos'[t] = 0
    BY <1>1, <1>2, <1>10 DEF StrategyOK
  <2>2. pc'[t] \in {"promote", "apply"}
    BY <1>12
  <2> QED BY <1>10, <2>1, <2>2 DEF StrategyOK, Unregistered
<1>16. x = "apply" => ValidFor(t)'
  <2> SUFFICES ASSUME x = "apply" PROVE ValidFor(t)'
    OBVIOUS
  <2>1. \A y \in left'[t] : y \in left[t] /\ y # r /\ y \in Records
    BY <1>1, <1>12 DEF TypeOK
  <2>2. \A y \in left[t] : y \in present => is_commit_ts(head[y].cts) /\ head[y].cts <= start[t]
    BY <1>1, <1>2 DEF Validated, ValidFor
  <2>3. \A y \in left'[t] : y \in present' => is_commit_ts(head'[y].cts) /\ head'[y].cts <= start'[t]
    BY <1>2, <1>6, <2>1, <2>2
  <2> QED BY <1>3, <1>13, <2>3 DEF ValidFor
<1>17. Stages'
  <2>1. \A y \in Records : wset'[t][y].guard <= start[t]
    BY <1>1, <1>2 DEF GuardsOld
  <2>2. /\ x \in {"new", "id"} <=> pc[t] \in {"new", "id"}
        /\ x \in Undrawn => pc[t] \in Undrawn
        /\ x \in Committing => pc[t] \in Committing
        /\ pc[t] # "committed" /\ x # "create"
    BY <1>2 DEF Undrawn, Committing, Unregistered
  <2> QED BY <1>2, <1>11, <1>12, <1>15, <1>16, <2>1, <2>2, StagesKept
<1> QED BY <1>14, <1>17 DEF Good

LEMMA AbortEntryGood ==
  ASSUME LInv, TypeOK', NEW t \in Txns, AbortEntry(t)
  PROVE  Good'
<1>1. TypeOK /\ GuardsOld /\ StrategyOK(t)
  BY DEF LInv, Stages, TInv, Strategies
<1>2. /\ Turn(t) /\ pc[t] = "abort" /\ pos[t] < Len(undo[t]) /\ pos' = [pos EXCEPT ![t] = @ + 1]
      /\ clock' = clock /\ start' = start /\ cts' = cts /\ undo' = undo /\ wset' = wset
      /\ left' = left /\ kept' = kept /\ pc' = pc
  BY DEF AbortEntry, txnVars, mgrVars
<1>3. pc' = [pc EXCEPT ![t] = "abort"] /\ \A u \in Txns : u # t => pos'[u] = pos[u]
  BY <1>1, <1>2 DEF TypeOK
<1>4. StrategyOK(t)'
  <2>1. Intents(t)' = Intents(t)
    BY <1>2 DEF Intents
  <2>2. Strategy[t] # "Optimistic"
    <3>1. undo[t] = <<>> => Len(undo[t]) = 0
      OBVIOUS
    <3>2. undo[t] # <<>>
      BY <1>1, <1>2, <3>1 DEF TypeOK
    <3> QED BY <1>1, <1>2, <3>2 DEF StrategyOK
  <2> QED BY <1>1, <1>2, <2>1, <2>2 DEF StrategyOK
<1>5. Stages'
  <2>1. \A y \in Records : wset'[t][y].guard <= start[t]
    BY <1>1, <1>2 DEF GuardsOld
  <2> QED BY <1>2, <1>3, <1>4, <2>1, StagesKept
<1> QED BY <1>5, LocksAbortEntry DEF Good

LEMMA FinishGood ==
  ASSUME LInv, NEW t \in Txns, CommitFinish(t) \/ AbortFinish(t)
  PROVE  Good'
<1>1. TypeOK /\ GuardsOld /\ StrategyOK(t) /\ KeptCommitted
  BY DEF LInv, Stages, TInv, Strategies
<1>2. Turn(t) /\ clock' = clock /\ start' = start /\ cts' = cts
  BY DEF CommitFinish, AbortFinish
<1>3. PICK committed \in BOOLEAN, x \in {"committed", "aborted"} :
        /\ pc' = [pc EXCEPT ![t] = x]
        /\ \E lat : Finish(t, committed, lat)
        /\ committed => x = "committed" /\ pc[t] = "promote" /\ left' = left /\ left[t] = {}
        /\ ~committed => x = "aborted" /\ pc[t] = "abort" /\ left' = [left EXCEPT ![t] = {}]
  <2>1. CASE CommitFinish(t)
    <3>1. /\ pc' = [pc EXCEPT ![t] = "committed"] /\ Finish(t, TRUE, cts[t])
          /\ pc[t] = "promote" /\ left' = left /\ left[t] = {}
      BY <2>1 DEF CommitFinish, Goto
    <3> QED BY <3>1
  <2>2. CASE AbortFinish(t)
    <3>1. /\ pc' = [pc EXCEPT ![t] = "aborted"] /\ Finish(t, FALSE, latest)
          /\ pc[t] = "abort" /\ left' = [left EXCEPT ![t] = {}]
      BY <2>2 DEF AbortFinish, Goto
    <3> QED BY <3>1
  <2> QED BY <2>1, <2>2
<1>4. PICK lat : Finish(t, committed, lat)
  BY <1>3
<1>5. /\ kept' \subseteq kept \cup {t} /\ (~committed => kept' \subseteq kept)
      /\ \A u \in Txns : u \notin kept \cup {t} => undo'[u] = undo[u]
      /\ ~committed => undo'[t] = <<>>
      /\ pos' = [pos EXCEPT ![t] = 0]
      /\ wset' = [wset EXCEPT ![t] = [r \in Records |-> NoIntent]]
  BY <1>4, FinishKeeps
<1>6. /\ pc'[t] = x /\ pos'[t] = 0 /\ left'[t] = {} /\ wset'[t] = [r \in Records |-> NoIntent]
      /\ \A u \in Txns : u # t => pos'[u] = pos[u] /\ left'[u] = left[u] /\ wset'[u] = wset[u]
  BY <1>1, <1>3, <1>5 DEF TypeOK
<1>7. \A u \in Txns : u # t /\ pc[u] # "committed" => undo'[u] = undo[u]
  BY <1>1, <1>5 DEF KeptCommitted
<1>8. \A r \in Records : wset'[t][r] = NoIntent
  BY <1>6
<1>9. Intents(t)' = {}
  BY <1>8 DEF Intents, NoIntent
<1>10. StrategyOK(t)'
  BY <1>3, <1>5, <1>6, <1>9 DEF StrategyOK, Unregistered
<1>11. \A r \in Records : wset'[t][r].guard <= start[t]
  <2>1. start[t] \in Nat
    BY <1>1 DEF TypeOK, Ts
  <2> QED BY <1>8, <2>1 DEF NoIntent
<1>12. Stages'
  <2>1. /\ x \in {"new", "id"} <=> pc[t] \in {"new", "id"}
        /\ x \in Undrawn => pc[t] \in Undrawn
        /\ x \in Committing => pc[t] \in Committing
        /\ pc[t] # "committed" /\ x # "create" /\ x # "apply"
    BY <1>3 DEF Undrawn, Committing, Unregistered
  <2>2. \A u \in kept' : u \in kept \/ (u = t /\ x = "committed")
    BY <1>3, <1>5
  <2> QED BY <1>2, <1>3, <1>6, <1>7, <1>10, <1>11, <2>1, <2>2, StagesKept
<1> QED BY <1>12, LocksCommitFinish, LocksAbortFinish DEF Good

-----------------------------------------------------------------------------
(* The invariant.                                                            *)

LEMMA InitGood == Init => Good
<1> SUFFICES ASSUME Init PROVE Good
  OBVIOUS
<1>1. /\ clock = 3 /\ present = Stored /\ kept = {}
      /\ head = [r \in Records |->
                   IF r \in Stored THEN [props |-> NoProps, tomb |-> FALSE, cts |-> 2] ELSE NoHead]
      /\ chain = [r \in Records |-> <<>>] /\ pc = [t \in Txns |-> "new"]
      /\ start = [t \in Txns |-> 0] /\ cts = [t \in Txns |-> 0] /\ undo = [t \in Txns |-> <<>>]
      /\ wset = [t \in Txns |-> [r \in Records |-> NoIntent]]
      /\ pos = [t \in Txns |-> 0] /\ left = [t \in Txns |-> {}] /\ wrote = [t \in Txns |-> {}]
  BY DEF Init
<1>2. /\ \A t \in Txns : /\ pc[t] = "new" /\ start[t] = 0 /\ cts[t] = 0 /\ undo[t] = <<>> /\ pos[t] = 0
                         /\ left[t] = {} /\ wrote[t] = {} /\ \A r \in Records : wset[t][r] = NoIntent
      /\ \A r \in Records : chain[r] = <<>> /\ head[r].cts \in {0, 2}
  BY <1>1 DEF NoHead, HeadOf
<1>3. \A t \in Txns : ~Unfinished(t) /\ pc[t] \notin Writing /\ DOMAIN undo[t] = {}
  BY <1>2 DEF Unfinished, Writing
<1>4. \A t \in Txns : Intents(t) = {}
  BY <1>2 DEF Intents, NoIntent
<1>5. Strategies
  BY <1>2, <1>4 DEF Strategies, StrategyOK
<1>6. ClockBound
  <2>1. Started = {} /\ Stamped = {}
    BY <1>2 DEF Started, Stamped
  <2>2. Cardinality({}) = 0
    BY FS_EmptySet
  <2> QED BY <1>1, <1>2, <2>1, <2>2 DEF ClockBound
<1>7. GuardsOld /\ CreateOpen /\ Validated /\ KeptCommitted
  BY <1>1, <1>2 DEF GuardsOld, CreateOpen, Validated, KeptCommitted, NoIntent
<1>8. Absent
  BY <1>1 DEF Absent
<1>9. Held /\ FirstSaves /\ SavedOrdered /\ Superseded /\ Succeeds /\ FirstCommitterWins
  BY <1>2, <1>3 DEF Held, FirstSaves, SavedOrdered, Superseded, Succeeds, FirstCommitterWins
<1>10. Marked
  <2>1. \A t \in Txns : TxnId(t) # 0 /\ TxnId(t) # 2
    BY GraphAssumption DEF TxnId, Txns
  <2> QED BY <1>2, <2>1 DEF Marked
<1>11. ChainsOrdered
  BY <1>2, OrderedEmpty DEF ChainsOrdered
<1> QED BY <1>5, <1>6, <1>7, <1>8, <1>9, <1>10, <1>11 DEF Good, Stages, Locks

LEMMA StepGood ==
  ASSUME LInv, TInv', NEW t \in Txns, Begin(t) \/ Operation(t) \/ Commit(t) \/ Rollbacks(t)
  PROVE  Good'
<1>1. TypeOK'
  BY DEF TInv
<1>2. CASE Operation(t)
  BY <1>2, ReadCallGood, StageCallGood, WriteCallGood DEF Operation
<1>3. CASE Commit(t)
  <2>1. CASE CommitDrawTs(t)
    BY <2>1, StagesDrawn, LocksDrawCommit DEF Good
  <2> QED BY <1>1, <1>3, <2>1, CommitLockGood, PromoteGood, FinishGood, ApplyGood, PromoteIntentGood DEF Commit
<1>4. CASE Rollbacks(t)
  BY <1>1, <1>4, AbortGood, AbortEntryGood, FinishGood DEF Rollbacks
<1> QED BY <1>2, <1>3, <1>4, BeginGood

LEMMA StepLInv == LInv /\ [Next]_vars => LInv'
<1> SUFFICES ASSUME LInv, [Next]_vars PROVE LInv'
  OBVIOUS
<1>1. IInv' /\ TInv' /\ NothingRemoved'
  BY StepIInv, StepTInv DEF LInv, NothingRemoved
<1>2. CASE Next
  <2>1. PICK t \in Txns : Begin(t) \/ Operation(t) \/ Commit(t) \/ Rollbacks(t)
    BY <1>2 DEF Next
  <2>2. Good'
    BY <1>1, <2>1, StepGood
  <2> QED BY <1>1, <2>2 DEF LInv, Good
<1>3. CASE UNCHANGED vars
  <2>1. UNCHANGED <<clock, present, head, chain, pc, start, cts, undo, wset, pos, left, target, kept, wrote>>
    BY <1>3 DEF vars, graphVars, txnVars, mgrVars
  <2>2. Stages'
    <3>1. Strategies' /\ GuardsOld' /\ CreateOpen' /\ Validated' /\ KeptCommitted'
      BY <2>1 DEF LInv, Stages, Strategies, StrategyOK, GuardsOld, CreateOpen, OpenFor, Validated, ValidFor,
                  KeptCommitted, Intents
    <3>2. ClockBound'
      <4>1. Started' = Started /\ Stamped' = Stamped
        BY <2>1 DEF Started, Stamped
      <4> QED BY <2>1, <4>1 DEF LInv, Stages, ClockBound
    <3> QED BY <3>1, <3>2 DEF Stages
  <2>3. Locks'
    <3>1. Absent' /\ Held' /\ Marked' /\ FirstSaves'
      BY <2>1 DEF LInv, Locks, Absent, Held, Marked, MarkOf, Pending, FirstSaves, Unfinished
    <3>2. ChainsOrdered' /\ SavedOrdered' /\ Superseded' /\ Succeeds' /\ FirstCommitterWins'
      BY <2>1 DEF LInv, Locks, ChainsOrdered, SavedOrdered, Superseded, Succeeds, FirstCommitterWins, Unfinished
    <3> QED BY <3>1, <3>2 DEF Locks
  <2> QED BY <1>1, <2>2, <2>3 DEF LInv
<1> QED BY <1>2, <1>3

(* While clients run one call at a time and nothing is removed by garbage     *)
(* collection, every mark on a record belongs to the transaction that wrote   *)
(* it, the versions behind it are in commit order, and what an abort would    *)
(* put back is still newer than every commit before it.                       *)
THEOREM LockInvariant == Serialized /\ NothingRemoved /\ Spec => []LInv
<1>1. Serialized /\ NothingRemoved /\ Init => LInv
  BY InitIInv, InitTInv, InitGood DEF LInv, Good
<1> QED BY <1>1, StepLInv, PTL DEF Spec

(* First committer wins: check_write_conflict and the guards of               *)
(* commit_optimistic let no two overlapping transactions commit a write to    *)
(* the same record, whichever strategies they use.                            *)
THEOREM FirstWins == Serialized /\ NothingRemoved /\ Spec => []FirstCommitterWins
<1>1. LInv => FirstCommitterWins
  BY DEF LInv, Locks
<1> QED BY <1>1, LockInvariant, PTL

(* A transaction holds the mark of every record it has written until its      *)
(* commit or abort.                                                           *)
THEOREM WritersHoldLocks == Serialized /\ NothingRemoved /\ Spec => []WriterHoldsLock
<1>1. LInv => WriterHoldsLock
  <2> SUFFICES ASSUME LInv, NEW t \in Txns, pc[t] \in {"run", "create", "delete", "commit"},
                      NEW i \in 1 .. Len(undo[t])
               PROVE  head[undo[t][i].rec].cts = TxnId(t)
    BY DEF WriterHoldsLock
  <2>1. i \in DOMAIN undo[t]
    BY DEF LInv, TInv, TypeOK
  <2> QED BY <2>1 DEF LInv, Locks, Held, Writing
<1> QED BY <1>1, LockInvariant, PTL

(* No vertex keeps the mark of a transaction that has committed or aborted.   *)
THEOREM LocksReleased == Serialized /\ NothingRemoved /\ Spec => []NoLockLeftBehind
<1>1. LInv => NoLockLeftBehind
  <2> SUFFICES ASSUME LInv, NEW v \in present \cap Vertices, NEW t \in Txns, head[v].cts = TxnId(t), Finished(t)
               PROVE  FALSE
    BY DEF NoLockLeftBehind
  <2>1. v \in Records /\ v \notin Edges
    BY GraphAssumption DEF Records
  <2> QED BY <2>1 DEF LInv, Locks, Marked, MarkOf, Finished
<1> QED BY <1>1, LockInvariant, PTL

(* The versions of a record are in commit order, although commit timestamps   *)
(* are drawn before commit_lock is taken.                                     *)
THEOREM VersionsInOrder == Serialized /\ NothingRemoved /\ Spec => []VersionsOrdered
<1>1. LInv => VersionsOrdered
  <2> SUFFICES ASSUME LInv, NEW r \in present
               PROVE  LET ts == [i \in 1 .. Len(chain[r]) |-> chain[r][i].ts] \o <<head[r].cts>>
                      IN  /\ \A i, j \in 1 .. Len(ts) :
                                i < j /\ is_commit_ts(ts[i]) /\ is_commit_ts(ts[j]) => ts[i] < ts[j]
                          /\ \A i \in 1 .. Len(chain[r]) : is_txn_id(ts[i]) => ts[i] = TxnId(chain[r][i].own)
    BY DEF VersionsOrdered
  <2> DEFINE n == Len(chain[r])
             f == [i \in 1 .. n |-> chain[r][i].ts]
             ts == f \o <<head[r].cts>>
  <2>1. r \in Records /\ chain[r] \in Seq(Delta) /\ n \in Nat /\ DOMAIN chain[r] = 1 .. n
    BY DEF LInv, TInv, TypeOK
  <2>2. Ordered(chain[r], head[r].cts, start)
    BY <2>1 DEF LInv, Locks, ChainsOrdered
  <2>3. f \in Seq(Nat) /\ Len(f) = n /\ head[r].cts \in Nat
    <3>1. ASSUME NEW i \in 1 .. n PROVE chain[r][i].ts \in Nat
      <4>1. chain[r][i] \in Delta
        BY <2>1
      <4> QED BY <4>1 DEF Delta, Ts
    <3>2. f \in [1 .. n -> Nat] /\ n \in Nat
      BY <2>1, <3>1
    <3> HIDE DEF f, n
    <3>3. f \in Seq(Nat) /\ Len(f) = n
      BY <3>2
    <3> QED BY <2>1, <3>3, HeadFacts DEF LInv, TInv
  <2>4. /\ Len(ts) = n + 1 /\ ts[n + 1] = head[r].cts
        /\ \A i \in 1 .. n : ts[i] = chain[r][i].ts
    <3>1. \A i \in 1 .. n : f[i] = chain[r][i].ts
      OBVIOUS
    <3> HIDE DEF f, n
    <3> QED BY <2>1, <2>3, <3>1
  <2> HIDE DEF ts, n
  <2>5. ASSUME NEW i \in 1 .. Len(ts), NEW j \in 1 .. Len(ts), i < j, is_commit_ts(ts[i]), is_commit_ts(ts[j])
        PROVE  ts[i] < ts[j]
    <3>1. i \in 1 .. n
      BY <2>1, <2>4, <2>5
    <3>2. CASE j \in 1 .. n
      BY <2>1, <2>2, <2>4, <2>5, <3>1, <3>2 DEF Ordered
    <3>3. CASE j = n + 1
      BY <2>1, <2>2, <2>4, <2>5, <3>1, <3>3 DEF Ordered
    <3> QED BY <2>1, <2>4, <3>2, <3>3
  <2>6. \A i \in 1 .. n : is_txn_id(ts[i]) => ts[i] = TxnId(chain[r][i].own)
    BY <2>1, <2>2, <2>4 DEF Ordered
  <2> QED BY <2>5, <2>6 DEF ts, n
<1> QED BY <1>1, LockInvariant, PTL

-----------------------------------------------------------------------------
(* Serializable reads.                                                       *)

\* A look-up of a stored record is in the read set, or the transaction has staged
\* a write to the record before.
NotedFor(t) ==
    Isolation[t] = "Serializable" /\ ~Finished(t) => seen[t] \cap Stored \subseteq rset[t] \cup Intents(t)

\* Once t has passed validate_read_sets, nobody has written since its start what
\* it has read or staged.
OldFor(t) ==
    Isolation[t] = "Serializable" /\ pc[t] \in {"apply", "promote"} =>
        \A r \in rset[t] \cup Intents(t), u \in Txns : u # t /\ r \in wrote[u] => cts[u] <= start[t]

\* Transactions finish their commits in the order of their timestamps.
InOrderFor(u) ==
    pc[u] \in {"commit", "apply", "promote"} => \A t \in Txns : pc[t] = "committed" => cts[t] < cts[u]

ReadsInv ==
    /\ Stored \subseteq present
    /\ \A t \in Txns : NotedFor(t) /\ OldFor(t) /\ InOrderFor(t)
    /\ SerializableReads

\* A step of a transaction that does not end it.
LEMMA ReadsKept ==
  ASSUME LInv, ReadsInv, NEW t \in Txns, NEW where, Turn(t), ~Finished(t),
         where # "committed", pc' = [pc EXCEPT ![t] = where],
         wrote' = wrote, Stored \subseteq present',
         \A u \in Txns : u # t => /\ start'[u] = start[u] /\ cts'[u] = cts[u] /\ rset'[u] = rset[u]
                                  /\ seen'[u] = seen[u] /\ wset'[u] = wset[u],
         NotedFor(t)', OldFor(t)', InOrderFor(t)'
  PROVE  ReadsInv'
<1>1. /\ \A u \in Txns : u # t => pc'[u] = pc[u] /\ pc[u] \in {"new", "run", "committed", "aborted"}
      /\ pc'[t] = where
  BY OthersWait DEF LInv, TInv, TypeOK
<1>2. \A u \in Txns : u # t => NotedFor(u)' /\ OldFor(u)' /\ InOrderFor(u)'
  <2> SUFFICES ASSUME NEW u \in Txns, u # t PROVE NotedFor(u)' /\ OldFor(u)' /\ InOrderFor(u)'
    OBVIOUS
  <2>1. pc'[u] \notin {"commit", "apply", "promote"}
    BY <1>1
  <2>2. Intents(u)' = Intents(u) /\ (Finished(u)' <=> Finished(u))
    BY <1>1 DEF Intents, Finished
  <2> QED BY <2>1, <2>2 DEF ReadsInv, NotedFor, OldFor, InOrderFor
<1>3. wrote[t] = {}
  BY DEF LInv, Locks, Superseded, Finished
<1>4. SerializableReads'
  <2> SUFFICES ASSUME NEW a \in Txns, NEW b \in Txns, a # b, pc'[a] = "committed",
                      Isolation[a] = "Serializable", NEW r \in seen'[a] \cap wrote'[b] \cap Stored
               PROVE  ~(start'[a] < cts'[b] /\ cts'[b] < cts'[a])
    BY DEF SerializableReads
  <2>1. a # t /\ b # t /\ pc[a] = "committed"
    BY <1>1, <1>3
  <2> QED BY <2>1 DEF ReadsInv, SerializableReads
<1> QED BY <1>2, <1>4 DEF ReadsInv

\* ... and neither reads nor stages anything, nor draws a timestamp.
LEMMA ReadsQuiet ==
  ASSUME LInv, ReadsInv, NEW t \in Txns, NEW where, Turn(t), ~Finished(t),
         where \notin {"committed", "aborted"}, pc' = [pc EXCEPT ![t] = where],
         where \in {"apply", "promote"} => pc[t] \in {"apply", "promote"},
         where = "commit" => pc[t] = "commit",
         start' = start, cts' = cts, rset' = rset, seen' = seen, wset' = wset, wrote' = wrote,
         present \subseteq present'
  PROVE  ReadsInv'
<1>1. pc'[t] = where /\ \A u \in Txns : u # t => pc'[u] = pc[u]
  BY DEF LInv, TInv, TypeOK
<1>2. Intents(t)' = Intents(t)
  BY DEF Intents
<1>3. NotedFor(t)'
  BY <1>1, <1>2 DEF ReadsInv, NotedFor, Finished
<1>4. OldFor(t)'
  BY <1>1, <1>2 DEF ReadsInv, OldFor
<1>5. InOrderFor(t)'
  BY <1>1 DEF ReadsInv, InOrderFor
<1>6. Stored \subseteq present'
  BY DEF ReadsInv
<1> QED BY <1>3, <1>4, <1>5, <1>6, ReadsKept

\* Looking up records of the map notes them.
LEMMA NoteReadsNoted ==
  ASSUME LInv, ReadsInv, NEW t \in Txns, NEW R \in SUBSET Records, ~Finished(t), NoteReads(t, R), wset' = wset
  PROVE  /\ Isolation[t] = "Serializable" => seen'[t] \cap Stored \subseteq rset'[t] \cup Intents(t)'
         /\ \A u \in Txns : u # t => rset'[u] = rset[u] /\ seen'[u] = seen[u]
<1>1. TypeOK /\ Stored \subseteq present /\ NotedFor(t)
  BY DEF LInv, TInv, ReadsInv
<1>2. Intents(t)' = Intents(t)
  BY DEF Intents
<1>3. seen'[t] = seen[t] \cup R /\ \A u \in Txns : u # t => seen'[u] = seen[u]
  BY <1>1 DEF NoteReads, TypeOK
<1>4. \A u \in Txns : u # t => rset'[u] = rset[u]
  BY <1>1 DEF NoteReads, TypeOK
<1>5. Isolation[t] = "Serializable" =>
         rset'[t] = rset[t] \cup {r \in R \cap present : wset[t][r].kind = "None"}
  BY <1>1 DEF NoteReads, TypeOK
<1>6. ASSUME Isolation[t] = "Serializable", NEW r \in seen'[t] \cap Stored
      PROVE  r \in rset'[t] \cup Intents(t)
  <2>1. r \in Records /\ r \in present
    BY <1>1 DEF TypeOK
  <2>2. CASE r \in seen[t]
    BY <1>1, <1>5, <1>6, <2>2 DEF NotedFor
  <2>3. CASE r \in R
    BY <1>5, <1>6, <2>1, <2>3 DEF Intents
  <2> QED BY <1>3, <1>6, <2>2, <2>3
<1> QED BY <1>2, <1>3, <1>4, <1>6

LEMMA ReadCallReads ==
  ASSUME LInv, ReadsInv, NEW t \in Txns, NEW r \in Records, Get(t, r) \/ CreateCheck(t, r)
  PROVE  ReadsInv'
<1>1. /\ Turn(t) /\ pc[t] = "run" /\ start' = start /\ cts' = cts /\ wset' = wset /\ wrote' = wrote
      /\ present' = present
  BY DEF Get, CreateCheck, MayCall, graphVars, mgrVars
<1>2. PICK where \in {"run", "create"} : pc' = [pc EXCEPT ![t] = where]
  BY <1>1 DEF Get, CreateCheck, Goto, LInv, TInv, TypeOK
<1>3. PICK R \in SUBSET Records : NoteReads(t, R)
  <2>1. CASE Get(t, r)
    BY <2>1 DEF Get
  <2>2. CASE CreateCheck(t, r)
    <3>1. (IF r \in Edges THEN {Src[r], Dst[r]} ELSE {}) \cup {r} \in SUBSET Records
      BY EndPoints
    <3> QED BY <2>2, <3>1 DEF CreateCheck
  <2> QED BY <2>1, <2>2
<1>4. ~Finished(t)
  BY <1>1 DEF Finished
<1>5. /\ Isolation[t] = "Serializable" => seen'[t] \cap Stored \subseteq rset'[t] \cup Intents(t)'
      /\ \A u \in Txns : u # t => rset'[u] = rset[u] /\ seen'[u] = seen[u]
  BY <1>1, <1>3, <1>4, NoteReadsNoted
<1>6. pc'[t] = where
  BY <1>2 DEF LInv, TInv, TypeOK
<1>7. NotedFor(t)' /\ OldFor(t)' /\ InOrderFor(t)'
  BY <1>5, <1>6 DEF NotedFor, OldFor, InOrderFor
<1>8. Stored \subseteq present'
  BY <1>1 DEF ReadsInv
<1>9. \A u \in Txns : u # t => /\ start'[u] = start[u] /\ cts'[u] = cts[u] /\ rset'[u] = rset[u]
                               /\ seen'[u] = seen[u] /\ wset'[u] = wset[u]
  BY <1>1, <1>5
<1> QED BY <1>1, <1>2, <1>4, <1>7, <1>8, <1>9, ReadsKept

\* Staging a write leaves the records staged before staged.
LEMMA StageCallReads ==
  ASSUME LInv, ReadsInv, NEW t \in Txns, NEW r \in Records,
         \/ \E p \in Props : SetOptimistic(t, r, p)
         \/ CreateOptimistic(t, r)
         \/ DeleteOptimistic(t, r)
  PROVE  ReadsInv'
<1>1. /\ Turn(t) /\ pc[t] \in {"run", "create"} /\ start' = start /\ cts' = cts /\ wrote' = wrote
      /\ present' = present /\ rset' = rset /\ seen' = seen
  BY DEF SetOptimistic, CreateOptimistic, DeleteOptimistic, MayCall, graphVars, mgrVars
<1>2. TypeOK /\ wset[t] \in [Records -> Intent] /\ NotedFor(t)
  BY DEF LInv, TInv, TypeOK, ReadsInv
<1>3. pc' = [pc EXCEPT ![t] = "run"]
  BY <1>1, <1>2 DEF SetOptimistic, CreateOptimistic, DeleteOptimistic, MayCall, Goto, TypeOK
<1>4. /\ \A u \in Txns : u # t => wset'[u] = wset[u]
      /\ \A y \in Records : wset[t][y].kind # "None" => wset'[t][y].kind # "None"
  <2>1. ASSUME NEW p \in Props, SetOptimistic(t, r, p)
        PROVE  /\ \A u \in Txns : u # t => wset'[u] = wset[u]
               /\ \A y \in Records : wset[t][y].kind # "None" => wset'[t][y].kind # "None"
    <3> DEFINE staged == wset[t][r].kind \in {"Insert", "Update"}
               base == IF staged THEN wset[t][r]
                       ELSE [kind |-> "Update", guard |-> Snapshot(t, r).guard, before |-> Snapshot(t, r).img,
                             after |-> Snapshot(t, r).img]
    <3>1. /\ staged \/ Snapshot(t, r).ok
          /\ wset' = [wset EXCEPT ![t][r] = [base EXCEPT !.after.props[p] = t]]
      BY <2>1 DEF SetOptimistic, MayCall
    <3>2. base \in Intent /\ base.kind # "None"
      <4>1. Snapshot(t, r).img \in Image /\ Snapshot(t, r).guard \in Nat
        BY <1>2, IntentTyped
      <4> QED BY <1>2, <4>1 DEF Intent, Ts
    <3> HIDE DEF base, staged
    <3>3. [base EXCEPT !.after.props[p] = t].kind # "None"
      BY <3>2 DEF Intent
    <3> DEFINE new == [base EXCEPT !.after.props[p] = t]
    <3>4. wset' = [wset EXCEPT ![t][r] = new] /\ new.kind # "None"
      BY <3>1, <3>3
    <3> HIDE DEF new
    <3> QED BY <1>2, <3>4 DEF TypeOK
  <2>2. CASE CreateOptimistic(t, r)
    <3> DEFINE new == [kind |-> "Insert", guard |-> wset[t][r].guard, before |-> NoImage,
                       after |-> [props |-> [p \in Props |-> t], tomb |-> FALSE]]
    <3>1. wset' = [wset EXCEPT ![t][r] = new] /\ new.kind # "None"
      BY <2>2 DEF CreateOptimistic
    <3> HIDE DEF new
    <3> QED BY <1>2, <3>1 DEF TypeOK
  <2>3. CASE DeleteOptimistic(t, r)
    <3>1. PICK X : wset' = [wset EXCEPT ![t] = [x \in Records |->
                              IF x \in X THEN DeleteIntent(t, x) ELSE wset[t][x]]]
      BY <2>3 DEF DeleteOptimistic
    <3>2. ASSUME NEW y \in Records PROVE DeleteIntent(t, y).kind = "Delete"
      <4>1. wset[t][y] \in Intent
        BY <1>2
      <4> QED BY <4>1 DEF DeleteIntent, Intent
    <3>3. /\ \A u \in Txns : u # t => wset'[u] = wset[u]
          /\ \A y \in Records : wset'[t][y] = IF y \in X THEN DeleteIntent(t, y) ELSE wset[t][y]
      BY <1>2, <3>1 DEF TypeOK
    <3> QED BY <3>2, <3>3
  <2> QED BY <2>1, <2>2, <2>3
<1>5. Intents(t) \subseteq Intents(t)'
  BY <1>4 DEF Intents
<1>6. pc'[t] = "run" /\ ~Finished(t)
  BY <1>1, <1>2, <1>3 DEF TypeOK, Finished
<1>7. NotedFor(t)' /\ OldFor(t)' /\ InOrderFor(t)'
  BY <1>1, <1>2, <1>5, <1>6 DEF NotedFor, OldFor, InOrderFor
<1>8. Stored \subseteq present'
  BY <1>1 DEF ReadsInv
<1>9. \A u \in Txns : u # t => /\ start'[u] = start[u] /\ cts'[u] = cts[u] /\ rset'[u] = rset[u]
                               /\ seen'[u] = seen[u] /\ wset'[u] = wset[u]
  BY <1>1, <1>4
<1> QED BY <1>1, <1>3, <1>6, <1>7, <1>8, <1>9, ReadsKept

LEMMA BeginReads ==
  ASSUME LInv, ReadsInv, NEW t \in Txns, Begin(t)
  PROVE  ReadsInv'
<1>1. TypeOK
  BY DEF LInv, TInv
<1>2. CASE BeginDrawId(t)
  <2>1. /\ Turn(t) /\ pc[t] = "new" /\ pc' = [pc EXCEPT ![t] = "id"]
        /\ start' = start /\ cts' = cts /\ rset' = rset /\ seen' = seen /\ wset' = wset /\ wrote' = wrote
        /\ present' = present
    BY <1>2 DEF BeginDrawId, Goto, graphVars, txnVars, mgrVars
  <2> QED BY <2>1, ReadsQuiet DEF Finished
<1>3. CASE BeginRegister(t)
  <2>1. /\ Turn(t) /\ pc[t] = "ts" /\ pc' = [pc EXCEPT ![t] = "run"]
        /\ start' = start /\ cts' = cts /\ rset' = rset /\ seen' = seen /\ wset' = wset /\ wrote' = wrote
        /\ present' = present
    BY <1>3 DEF BeginRegister, Goto, graphVars, txnVars
  <2> QED BY <2>1, ReadsQuiet DEF Finished
<1>4. CASE BeginDrawTs(t)
  <2>1. /\ Turn(t) /\ pc[t] = "id" /\ pc' = [pc EXCEPT ![t] = "ts"] /\ start' = [start EXCEPT ![t] = clock]
        /\ cts' = cts /\ rset' = rset /\ seen' = seen /\ wset' = wset /\ wrote' = wrote
        /\ present' = present
    BY <1>4 DEF BeginDrawTs, Goto, graphVars, txnVars, mgrVars
  <2>2. pc'[t] = "ts" /\ ~Finished(t) /\ Intents(t)' = Intents(t)
    BY <1>1, <2>1 DEF TypeOK, Finished, Intents
  <2>3. NotedFor(t)' /\ OldFor(t)' /\ InOrderFor(t)'
    BY <2>1, <2>2 DEF ReadsInv, NotedFor, OldFor, InOrderFor, Finished
  <2>4. Stored \subseteq present'
    BY <2>1 DEF ReadsInv
  <2>5. \A u \in Txns : u # t => /\ start'[u] = start[u] /\ cts'[u] = cts[u] /\ rset'[u] = rset[u]
                                 /\ seen'[u] = seen[u] /\ wset'[u] = wset[u]
    BY <1>1, <2>1 DEF TypeOK
  <2> QED BY <2>1, <2>2, <2>3, <2>4, <2>5, ReadsKept
<1> QED BY <1>2, <1>3, <1>4 DEF Begin

\* The timestamp of a commit is drawn after every finished one: no other commit
\* is under way.
LEMMA CommitDrawReads ==
  ASSUME LInv, ReadsInv, NEW t \in Txns, CommitDrawTs(t)
  PROVE  ReadsInv'
<1>1. TypeOK /\ \A u \in Txns : cts[u] < clock
  BY DEF LInv, TInv, IInv, Drawn
<1>2. /\ Turn(t) /\ pc[t] = "run" /\ pc' = [pc EXCEPT ![t] = "commit"] /\ cts' = [cts EXCEPT ![t] = clock]
      /\ start' = start /\ rset' = rset /\ seen' = seen /\ wset' = wset /\ wrote' = wrote
      /\ present' = present
  BY DEF CommitDrawTs, Goto, graphVars, txnVars, mgrVars
<1>3. /\ pc'[t] = "commit" /\ ~Finished(t) /\ Intents(t)' = Intents(t) /\ cts'[t] = clock
      /\ \A u \in Txns : u # t => pc'[u] = pc[u] /\ cts'[u] = cts[u]
  BY <1>1, <1>2 DEF TypeOK, Finished, Intents
<1>4. NotedFor(t)' /\ OldFor(t)'
  BY <1>2, <1>3 DEF ReadsInv, NotedFor, OldFor, Finished
<1>5. InOrderFor(t)'
  BY <1>1, <1>3 DEF InOrderFor
<1>6. Stored \subseteq present'
  BY <1>2 DEF ReadsInv
<1>7. \A u \in Txns : u # t => /\ start'[u] = start[u] /\ cts'[u] = cts[u] /\ rset'[u] = rset[u]
                               /\ seen'[u] = seen[u] /\ wset'[u] = wset[u]
  BY <1>2, <1>3
<1> QED BY <1>2, <1>3, <1>4, <1>5, <1>6, <1>7, ReadsKept

\* A validated record has no version newer than the start of the transaction.
LEMMA ValidatedOld ==
  ASSUME LInv, NEW t \in Txns, ReadsValid(t), \A r \in Intents(t) : IntentValid(t, r)
  PROVE  \A r \in rset[t] \cup Intents(t), u \in Txns : r \in wrote[u] => cts[u] <= start[t]
<1> SUFFICES ASSUME NEW r \in rset[t] \cup Intents(t), NEW u \in Txns, r \in wrote[u]
             PROVE  cts[u] <= start[t]
  OBVIOUS
<1>1. TypeOK /\ Superseded /\ GuardsOld
  BY DEF LInv, TInv, Locks, Stages
<1>2. r \in Records /\ r \in present /\ head[r].cts \in Nat
  BY <1>1, HeadFacts DEF Superseded, TypeOK
<1>3. /\ is_commit_ts(head[r].cts) => cts[u] <= head[r].cts
      /\ head[r].cts = TxnId(t) => cts[u] < start[t]
  BY <1>1 DEF Superseded
<1>4. start[t] \in Nat /\ cts[u] \in Nat /\ is_commit_ts(start[t])
  BY ClockFacts DEF LInv, Stages
<1>5. head[r].cts = TxnId(t) \/ head[r].cts <= start[t]
  <2>1. CASE r \in rset[t]
    BY <2>1 DEF ReadsValid
  <2>2. CASE r \in Intents(t)
    <3>1. IntentValid(t, r) /\ wset[t][r].kind # "None" /\ wset[t][r].guard <= start[t]
      BY <1>1, <1>2, <2>2 DEF Intents, GuardsOld
    <3> QED BY <1>2, <3>1 DEF IntentValid
  <2> QED BY <2>1, <2>2
<1>6. CASE head[r].cts = TxnId(t)
  BY <1>3, <1>4, <1>6
<1>7. CASE head[r].cts <= start[t]
  BY <1>2, <1>3, <1>4, <1>7, GraphAssumption DEF is_commit_ts
<1> QED BY <1>5, <1>6, <1>7

LEMMA CommitLockReads ==
  ASSUME LInv, ReadsInv, NEW t \in Txns, CommitLock(t)
  PROVE  ReadsInv'
<1>1. TypeOK /\ NotedFor(t) /\ InOrderFor(t)
  BY DEF LInv, TInv, ReadsInv
<1>2. /\ Turn(t) /\ pc[t] = "commit" /\ cts' = cts
      /\ start' = start /\ rset' = rset /\ seen' = seen /\ wset' = wset /\ wrote' = wrote
      /\ present' = present
  BY DEF CommitLock, graphVars, txnVars, mgrVars
<1>3. PICK where \in {"abort", "apply", "promote"} :
         /\ pc' = [pc EXCEPT ![t] = where]
         /\ where # "abort" => /\ Isolation[t] = "Serializable" => ReadsValid(t)
                               /\ \A r \in Intents(t) : IntentValid(t, r)
  <2> DEFINE valid == /\ Isolation[t] = "Serializable" => ReadsValid(t)
                      /\ \A r \in Intents(t) : IntentValid(t, r)
  <2>1. pc' = [pc EXCEPT ![t] = IF ~valid THEN "abort"
                                ELSE IF Intents(t) # {} THEN "apply" ELSE "promote"]
    BY DEF CommitLock, Goto
  <2>2. CASE ~valid
    <3>1. pc' = [pc EXCEPT ![t] = "abort"]
      BY <2>1, <2>2
    <3> QED BY <3>1
  <2>3. CASE valid
    <3>1. pc' = [pc EXCEPT ![t] = "apply"] \/ pc' = [pc EXCEPT ![t] = "promote"]
      BY <2>1, <2>3
    <3> QED BY <2>3, <3>1
  <2> QED BY <2>2, <2>3
<1>4. /\ pc'[t] = where /\ ~Finished(t) /\ Intents(t)' = Intents(t)
      /\ \A u \in Txns : u # t => pc'[u] = pc[u]
  BY <1>1, <1>2, <1>3 DEF TypeOK, Finished, Intents
<1>5. NotedFor(t)' /\ InOrderFor(t)'
  BY <1>1, <1>2, <1>4 DEF NotedFor, InOrderFor, Finished
<1>6. OldFor(t)'
  <2> SUFFICES ASSUME Isolation[t] = "Serializable", where # "abort",
                      NEW r \in rset[t] \cup Intents(t), NEW u \in Txns, r \in wrote[u]
               PROVE  cts[u] <= start[t]
    BY <1>2, <1>4 DEF OldFor
  <2> QED BY <1>3, ValidatedOld
<1>7. Stored \subseteq present'
  BY <1>2 DEF ReadsInv
<1> QED BY <1>2, <1>3, <1>4, <1>5, <1>6, <1>7, ReadsKept

\* The steps that leave the reads, the intents and the timestamps alone.
LEMMA OtherReads ==
  ASSUME LInv, ReadsInv, NEW t \in Txns,
         \/ DeleteRecord(t) \/ Promote(t) \/ Abort(t) \/ AbortEntry(t)
         \/ \E r \in Records : \/ CreatePessimistic(t, r) \/ DeleteCheck(t, r)
                               \/ ApplyIntent(t, r) \/ PromoteIntent(t, r)
                               \/ \E p \in Props : SetPessimistic(t, r, p)
  PROVE  ReadsInv'
<1>1. pc \in [Txns -> Places] /\ present \subseteq Records
  BY DEF LInv, TInv, TypeOK
<1> DEFINE Leaves == /\ Turn(t) /\ ~Finished(t) /\ present \subseteq present'
                     /\ start' = start /\ cts' = cts /\ rset' = rset /\ seen' = seen
                     /\ wset' = wset /\ wrote' = wrote
<1>2. Leaves
  <2> USE DEF Finished, graphVars, txnVars, mgrVars
  <2>1. CASE DeleteRecord(t)
    BY <2>1 DEF DeleteRecord
  <2>2. CASE Promote(t)
    BY <2>2 DEF Promote
  <2>3. CASE Abort(t) \/ AbortEntry(t)
    BY <2>3 DEF Abort, AbortEntry
  <2>4. ASSUME NEW r \in Records, CreatePessimistic(t, r) PROVE Leaves
    BY <2>4 DEF CreatePessimistic
  <2>5. ASSUME NEW r \in Records, DeleteCheck(t, r) PROVE Leaves
    BY <2>5 DEF DeleteCheck, MayCall
  <2>6. ASSUME NEW r \in Records, ApplyIntent(t, r) PROVE Leaves
    BY <2>6 DEF ApplyIntent
  <2>7. ASSUME NEW r \in Records, PromoteIntent(t, r) PROVE Leaves
    BY <2>7 DEF PromoteIntent
  <2>8. ASSUME NEW r \in Records, NEW p \in Props, SetPessimistic(t, r, p) PROVE Leaves
    BY <2>8 DEF SetPessimistic, MayCall
  <2> HIDE DEF Leaves
  <2> QED BY <2>1, <2>2, <2>3, <2>4, <2>5, <2>6, <2>7, <2>8
<1>3. \E where : /\ where \notin {"committed", "aborted"} /\ pc' = [pc EXCEPT ![t] = where]
                 /\ where \in {"apply", "promote"} => pc[t] \in {"apply", "promote"}
                 /\ where = "commit" => pc[t] = "commit"
  <2>1. CASE pc' = pc
    <3>1. pc' = [pc EXCEPT ![t] = pc[t]]
      BY <1>1, <2>1
    <3> QED BY <1>2, <3>1 DEF Finished
  <2>2. CASE DeleteRecord(t)
    <3>1. pc' = [pc EXCEPT ![t] = "run"] \/ pc' = [pc EXCEPT ![t] = "delete"]
      BY <2>2 DEF DeleteRecord, Goto
    <3> QED BY <3>1
  <2>3. CASE Promote(t)
    <3>1. pc' = pc \/ pc' = [pc EXCEPT ![t] = "panicked"]
      BY <2>3 DEF Promote, Goto
    <3> QED BY <2>1, <3>1
  <2>4. CASE Abort(t)
    <3>1. pc' = [pc EXCEPT ![t] = "abort"]
      BY <2>4 DEF Abort, Goto
    <3> WITNESS "abort"
    <3> QED BY <3>1
  <2>5. ASSUME NEW r \in Records, CreatePessimistic(t, r) PROVE pc' = [pc EXCEPT ![t] = "run"]
    BY <2>5 DEF CreatePessimistic, Goto
  <2>6. ASSUME NEW r \in Records, DeleteCheck(t, r) PROVE pc' = [pc EXCEPT ![t] = "delete"]
    BY <2>6 DEF DeleteCheck, Goto
  <2>7. ASSUME NEW r \in Records, ApplyIntent(t, r)
        PROVE  /\ pc' = [pc EXCEPT ![t] = "promote"] \/ pc' = [pc EXCEPT ![t] = "apply"]
               /\ pc[t] = "apply"
    BY <2>7 DEF ApplyIntent, Goto
  <2>8. AbortEntry(t) \/ (\E r \in Records : PromoteIntent(t, r) \/ \E p \in Props : SetPessimistic(t, r, p))
        => pc' = pc
    BY DEF AbortEntry, PromoteIntent, SetPessimistic
  <2> QED BY <2>1, <2>2, <2>3, <2>4, <2>5, <2>6, <2>7, <2>8
<1>4. PICK where : /\ where \notin {"committed", "aborted"} /\ pc' = [pc EXCEPT ![t] = where]
                   /\ where \in {"apply", "promote"} => pc[t] \in {"apply", "promote"}
                   /\ where = "commit" => pc[t] = "commit"
  BY <1>3
<1> QED BY <1>2, <1>4, ReadsQuiet

\* The end of a commit: what the transaction read is as old as its snapshot, and
\* what it wrote carries the newest timestamp.
LEMMA CommitFinishReads ==
  ASSUME LInv, ReadsInv, NEW t \in Txns, CommitFinish(t)
  PROVE  ReadsInv'
<1>1. TypeOK /\ NotedFor(t) /\ OldFor(t) /\ InOrderFor(t) /\ SerializableReads
  BY DEF LInv, TInv, ReadsInv
<1>2. /\ Turn(t) /\ pc[t] = "promote" /\ Finish(t, TRUE, cts[t]) /\ pc' = [pc EXCEPT ![t] = "committed"]
      /\ start' = start /\ cts' = cts /\ seen' = seen
      /\ wrote' = [wrote EXCEPT ![t] = {undo[t][i].rec : i \in DOMAIN undo[t]}]
  BY DEF CommitFinish, Goto
<1>3. present' = present /\ wset' = [wset EXCEPT ![t] = [r \in Records |-> NoIntent]]
  BY <1>2, FinishKeeps
<1>4. rset' = [rset EXCEPT ![t] = {}]
  BY <1>2 DEF Finish
<1>5. /\ pc'[t] = "committed"
      /\ \A u \in Txns : u # t => /\ pc'[u] = pc[u] /\ wset'[u] = wset[u] /\ rset'[u] = rset[u]
                                  /\ wrote'[u] = wrote[u]
                                  /\ pc[u] \in {"new", "run", "committed", "aborted"}
  BY <1>1, <1>2, <1>3, <1>4, OthersWait DEF TypeOK, LInv
<1>6. \A u \in Txns : NotedFor(u)' /\ OldFor(u)' /\ InOrderFor(u)'
  <2> SUFFICES ASSUME NEW u \in Txns PROVE NotedFor(u)' /\ OldFor(u)' /\ InOrderFor(u)'
    OBVIOUS
  <2>1. pc'[u] \notin {"commit", "apply", "promote"}
    BY <1>5
  <2>2. CASE u = t
    BY <1>5, <2>1, <2>2 DEF NotedFor, OldFor, InOrderFor, Finished
  <2>3. CASE u # t
    <3>1. Intents(u)' = Intents(u) /\ (Finished(u)' <=> Finished(u))
      BY <1>5, <2>3 DEF Intents, Finished
    <3> QED BY <1>2, <1>5, <2>1, <2>3, <3>1 DEF ReadsInv, NotedFor, OldFor, InOrderFor
  <2> QED BY <2>2, <2>3
<1>7. SerializableReads'
  <2> SUFFICES ASSUME NEW a \in Txns, NEW b \in Txns, a # b, pc'[a] = "committed",
                      Isolation[a] = "Serializable", NEW r \in seen[a] \cap wrote'[b] \cap Stored,
                      start[a] < cts[b], cts[b] < cts[a]
               PROVE  FALSE
    BY <1>2 DEF SerializableReads
  <2>1. start[a] \in Nat /\ cts[a] \in Nat /\ cts[b] \in Nat
    BY <1>1 DEF TypeOK, Ts
  <2>2. CASE a = t
    <3>1. r \in wrote[b] /\ r \in rset[a] \cup Intents(a)
      BY <1>1, <1>2, <1>5, <2>2 DEF NotedFor, Finished
    <3>2. cts[b] <= start[a]
      BY <1>1, <1>2, <2>2, <3>1 DEF OldFor
    <3> QED BY <2>1, <3>2
  <2>3. CASE b = t
    <3>1. cts[a] < cts[b]
      BY <1>1, <1>2, <1>5, <2>3 DEF InOrderFor
    <3> QED BY <2>1, <3>1
  <2>4. CASE a # t /\ b # t
    BY <1>1, <1>5, <2>4 DEF SerializableReads
  <2> QED BY <2>2, <2>3, <2>4
<1> QED BY <1>3, <1>6, <1>7 DEF ReadsInv

LEMMA AbortFinishReads ==
  ASSUME LInv, ReadsInv, NEW t \in Txns, AbortFinish(t)
  PROVE  ReadsInv'
<1>1. TypeOK
  BY DEF LInv, TInv
<1>2. /\ Turn(t) /\ pc[t] = "abort" /\ Finish(t, FALSE, latest) /\ pc' = [pc EXCEPT ![t] = "aborted"]
      /\ start' = start /\ cts' = cts /\ seen' = seen /\ wrote' = wrote
  BY DEF AbortFinish, Goto
<1>3. present' = present /\ wset' = [wset EXCEPT ![t] = [r \in Records |-> NoIntent]]
  BY <1>2, FinishKeeps
<1>4. rset' = [rset EXCEPT ![t] = {}]
  BY <1>2 DEF Finish
<1>5. pc'[t] = "aborted" /\ ~Finished(t) /\ Stored \subseteq present'
  BY <1>1, <1>2, <1>3 DEF TypeOK, Finished, ReadsInv
<1>6. NotedFor(t)' /\ OldFor(t)' /\ InOrderFor(t)'
  BY <1>5 DEF NotedFor, OldFor, InOrderFor, Finished
<1>7. \A u \in Txns : u # t => /\ start'[u] = start[u] /\ cts'[u] = cts[u] /\ rset'[u] = rset[u]
                               /\ seen'[u] = seen[u] /\ wset'[u] = wset[u]
  BY <1>1, <1>2, <1>3, <1>4 DEF TypeOK
<1> QED BY <1>2, <1>5, <1>6, <1>7, ReadsKept

LEMMA InitReads == Init => ReadsInv
BY DEF Init, ReadsInv, NotedFor, OldFor, InOrderFor, SerializableReads

LEMMA StepReads == LInv /\ ReadsInv /\ [Next]_vars => ReadsInv'
<1> SUFFICES ASSUME LInv, ReadsInv, [Next]_vars PROVE ReadsInv'
  OBVIOUS
<1>1. CASE UNCHANGED vars
  <2>1. UNCHANGED <<present, pc, start, cts, wset, rset, seen, wrote>>
    BY <1>1 DEF vars, graphVars, txnVars, mgrVars
  <2> QED BY <2>1 DEF ReadsInv, NotedFor, OldFor, InOrderFor, SerializableReads, Intents, Finished
<1>2. ASSUME NEW t \in Txns, Begin(t) \/ Operation(t) \/ Commit(t) \/ Rollbacks(t) PROVE ReadsInv'
  <2>1. CASE Begin(t)
    BY <2>1, BeginReads
  <2>2. CASE Operation(t)
    BY <2>2, ReadCallReads, StageCallReads, OtherReads DEF Operation
  <2>3. CASE Commit(t)
    BY <2>3, CommitDrawReads, CommitLockReads, CommitFinishReads, OtherReads DEF Commit
  <2>4. CASE Rollbacks(t)
    BY <2>4, AbortFinishReads, OtherReads DEF Rollbacks
  <2> QED BY <1>2, <2>1, <2>2, <2>3, <2>4
<1> QED BY <1>1, <1>2 DEF Next

(* Serializable: what a committed transaction looked up was not written by    *)
(* another one that committed between its start and its own commit, because   *)
(* validate_read_sets finds every such write and the commits run in the order *)
(* of their timestamps.                                                       *)
THEOREM ReadsSerializable == Serialized /\ NothingRemoved /\ Spec => []SerializableReads
<1>1. Init => ReadsInv
  BY InitReads
<1>2. ReadsInv => SerializableReads
  BY DEF ReadsInv
<1> QED BY <1>1, <1>2, StepReads, LockInvariant, PTL DEF Spec
=============================================================================
