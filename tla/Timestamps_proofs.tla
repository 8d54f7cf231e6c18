------------------------- MODULE Timestamps_proofs -------------------------
(***************************************************************************)
(* Theorems about the timestamp and transaction-id generators, for any     *)
(* number of threads and any width of the counters.                        *)
(***************************************************************************)
EXTENDS Timestamps, TLAPS

\* Everything handed out or reserved so far is below the counter: the fact the
\* freshness of the next exchange rests on.
HistoryBelow ==
    \A g \in Gens : /\ \A i \in 1 .. Len(issued[g]) : issued[g][i] < counter[g]
                    /\ \A x \in reserved[g] : x < counter[g]

IInv == TypeOK /\ DomainsDisjoint /\ HistoryBelow

LEMMA InitIInv == Init => IInv
  BY DomainAssumption
  DEF Init, IInv, TypeOK, DomainsDisjoint, HistoryBelow, Gens, Timestamp, Idle,
      InDomain, Limit, is_commit_ts, is_txn_id, max_commit_ts, u64_MAX

\* One exchange of next() on generator g with result v.
LEMMA ExchangeStep ==
  ASSUME IInv, NEW p \in Threads, NextExchange(p)
  PROVE  IInv'
<1> DEFINE g == cur[p].gen
           v == cur[p].val
<1>1. /\ g \in Gens /\ v = counter[g] /\ v \in Timestamp /\ v < Limit(g)
      /\ counter' = [counter EXCEPT ![g] = v + 1]
      /\ issued' = [issued EXCEPT ![g] = Append(issued[g], v)]
      /\ cur' = [cur EXCEPT ![p] = Idle] /\ reserved' = reserved
  BY DEF IInv, TypeOK, NextExchange, CasSucceeds
<1>2. v + 1 \in Timestamp /\ v + 1 <= Limit(g) /\ InDomain(g, v) /\ InDomain(g, v + 1)
  BY <1>1, DomainAssumption
  DEF IInv, DomainsDisjoint, Gens, Timestamp, InDomain, Limit, is_commit_ts, is_txn_id,
      max_commit_ts, u64_MAX
<1> HIDE DEF g, v
<1>3. TypeOK'
  BY <1>1, <1>2 DEF IInv, TypeOK, Idle, Gens
<1>4. \A h \in Gens : issued[h] \in Seq(Timestamp) /\ issued'[h] \in Seq(Timestamp)
  BY <1>3 DEF IInv, TypeOK
<1>5. /\ Len(issued'[g]) = Len(issued[g]) + 1
      /\ \A i \in 1 .. Len(issued[g]) : issued'[g][i] = issued[g][i]
      /\ issued'[g][Len(issued[g]) + 1] = v
  BY <1>1, <1>4 DEF IInv, TypeOK
<1>6. \A h \in Gens : h # g => issued'[h] = issued[h] /\ counter'[h] = counter[h]
  BY <1>1 DEF IInv, TypeOK
<1>7. counter'[g] = v + 1
  BY <1>1 DEF IInv, TypeOK
<1>8. DomainsDisjoint'
  <2> SUFFICES ASSUME NEW h \in Gens
               PROVE  /\ InDomain(h, counter'[h]) /\ counter'[h] <= Limit(h)
                      /\ \A i \in 1 .. Len(issued'[h]) :
                            InDomain(h, issued'[h][i]) /\ issued'[h][i] < Limit(h)
    BY DEF DomainsDisjoint, InDomain, Limit, is_commit_ts, is_txn_id
  <2>1. CASE h = g
    BY <1>1, <1>2, <1>4, <1>5, <1>7, <2>1 DEF IInv, DomainsDisjoint
  <2>2. CASE h # g
    BY <1>6, <2>2 DEF IInv, DomainsDisjoint
  <2> QED BY <2>1, <2>2
<1>9. HistoryBelow'
  <2> SUFFICES ASSUME NEW h \in Gens
               PROVE  /\ \A i \in 1 .. Len(issued'[h]) : issued'[h][i] < counter'[h]
                      /\ \A x \in reserved[h] : x < counter'[h]
    BY <1>1 DEF HistoryBelow
  <2>1. CASE h = g
    <3>1. \A i \in 1 .. Len(issued[g]) : issued[g][i] \in Timestamp /\ issued[g][i] < v
      BY <1>1, <1>4 DEF IInv, HistoryBelow
    <3>2. \A x \in reserved[g] : x \in Timestamp /\ x < v
      BY <1>1 DEF IInv, HistoryBelow, TypeOK
    <3> QED BY <1>1, <1>4, <1>5, <1>7, <2>1, <3>1, <3>2 DEF Timestamp
  <2>2. CASE h # g
    BY <1>6, <2>2 DEF IInv, HistoryBelow
  <2> QED BY <2>1, <2>2
<1> QED BY <1>3, <1>8, <1>9 DEF IInv

\* One accepted update_if_greater().
LEMMA UpdateStep ==
  ASSUME IInv, NEW g \in Gens, NEW x \in Timestamp, UpdateIfGreater(g, x)
  PROVE  IInv'
<1>1. x + 1 \in Timestamp /\ x + 1 <= Limit(g) /\ InDomain(g, x + 1)
  BY DomainAssumption
  DEF UpdateIfGreater, Gens, Timestamp, InDomain, Limit, is_commit_ts, is_txn_id,
      max_commit_ts, u64_MAX
<1>2. /\ counter'[g] \in {x + 1, counter[g]}
      /\ counter'[g] >= counter[g] /\ counter'[g] >= x + 1
      /\ \A h \in Gens : h # g => counter'[h] = counter[h] /\ reserved'[h] = reserved[h]
      /\ reserved'[g] = reserved[g] \cup {x}
      /\ issued' = issued /\ cur' = cur
  BY DEF UpdateIfGreater, IInv, TypeOK, Timestamp
<1>3. TypeOK'
  BY <1>1 DEF UpdateIfGreater, IInv, TypeOK
<1>4. DomainsDisjoint'
  BY <1>1, <1>2 DEF IInv, DomainsDisjoint, InDomain, Limit, is_commit_ts, is_txn_id
<1>5. HistoryBelow'
  <2> SUFFICES ASSUME NEW h \in Gens
               PROVE  /\ \A i \in 1 .. Len(issued[h]) : issued[h][i] < counter'[h]
                      /\ \A y \in reserved'[h] : y < counter'[h]
    BY <1>2 DEF HistoryBelow
  <2>1. CASE h = g
    <3>1. \A i \in 1 .. Len(issued[g]) : issued[g][i] \in Timestamp /\ issued[g][i] < counter[g]
      BY DEF IInv, HistoryBelow, TypeOK
    <3>2. \A y \in reserved[g] : y \in Timestamp /\ y < counter[g]
      BY DEF IInv, HistoryBelow, TypeOK
    <3>3. counter[g] \in Timestamp /\ counter'[g] \in Timestamp
      BY <1>3 DEF IInv, TypeOK
    <3> QED BY <1>2, <2>1, <3>1, <3>2, <3>3 DEF Timestamp
  <2>2. CASE h # g
    BY <1>2, <2>2 DEF IInv, HistoryBelow
  <2> QED BY <2>1, <2>2
<1> QED BY <1>3, <1>4, <1>5 DEF IInv

LEMMA StepIInv == IInv /\ [Next]_vars => IInv'
<1> SUFFICES ASSUME IInv, [Next]_vars PROVE IInv'
  OBVIOUS
<1>1. ASSUME cur' \in [Threads -> [gen : Gens, val : Timestamp \cup {-1}]],
             UNCHANGED <<counter, issued, reserved>>
      PROVE  IInv'
  BY <1>1 DEF IInv, TypeOK, DomainsDisjoint, HistoryBelow, InDomain, Limit, is_commit_ts,
              is_txn_id
<1>2. ASSUME NEW p \in Threads, NEW g \in Gens, NextLoad(p, g) PROVE IInv'
  BY <1>1, <1>2 DEF NextLoad, IInv, TypeOK
<1>3. ASSUME NEW p \in Threads, NextOverflow(p) PROVE IInv'
  BY <1>1, <1>3 DEF NextOverflow, IInv, TypeOK, Idle, Gens
<1>4. ASSUME NEW p \in Threads, NextExchange(p) PROVE IInv'
  BY <1>4, ExchangeStep
<1>5. ASSUME NEW p \in Threads, NextRetry(p) PROVE IInv'
  BY <1>1, <1>5 DEF NextRetry, IInv, TypeOK
<1>6. ASSUME NEW g \in Gens, NEW x \in Timestamp, UpdateIfGreater(g, x) PROVE IInv'
  BY <1>6, UpdateStep
<1>7. CASE UNCHANGED vars
  BY <1>1, <1>7 DEF vars, IInv, TypeOK
<1> QED BY <1>2, <1>3, <1>4, <1>5, <1>6, <1>7 DEF Next

\* The inductive invariant holds throughout.
THEOREM InvariantHolds == Spec => []IInv
  BY InitIInv, StepIInv, PTL DEF Spec

(* next() and update_if_greater() keep both counters, and every value they   *)
(* return, in their own half of u64 and below the overflow limit, whatever   *)
(* the number of threads and the width.                                      *)
THEOREM DomainsStayDisjoint == Spec => [](TypeOK /\ DomainsDisjoint)
  BY InvariantHolds, PTL DEF IInv

LEMMA FreshFromInv == IInv /\ [Next]_vars => [FreshStep]_vars
<1> SUFFICES ASSUME IInv, Next, NEW g \in Gens, Len(issued'[g]) > Len(issued[g])
             PROVE  /\ \A i \in 1 .. Len(issued[g]) :
                          issued[g][i] < issued'[g][Len(issued[g]) + 1]
                    /\ \A x \in reserved[g] : x < issued'[g][Len(issued[g]) + 1]
  BY DEF FreshStep
<1>1. issued[g] \in Seq(Timestamp) /\ Len(issued[g]) \in Nat
  BY DEF IInv, TypeOK
<1>2. PICK p \in Threads : NextExchange(p)
  <2> SUFFICES ASSUME issued' = issued PROVE FALSE
    BY DEF Next, NextLoad, NextOverflow, NextRetry, UpdateIfGreater
  <2> QED BY <1>1
<1>3. /\ cur[p].gen \in Gens /\ cur[p].val = counter[cur[p].gen]
      /\ issued' = [issued EXCEPT ![cur[p].gen] = Append(issued[cur[p].gen], cur[p].val)]
  BY <1>2 DEF NextExchange, CasSucceeds, IInv, TypeOK
<1>4. cur[p].gen = g
  BY <1>1, <1>3 DEF IInv, TypeOK
<1>5. issued'[g][Len(issued[g]) + 1] = counter[g]
  BY <1>1, <1>3, <1>4 DEF IInv, TypeOK
<1> QED BY <1>5 DEF IInv, HistoryBelow

(* No two calls of next() ever return the same timestamp, and none returns   *)
(* one that a completed update_if_greater() reserved: the compare-and-swap   *)
(* loop is enough, with any number of threads.                               *)
THEOREM TimestampsAreFresh == Spec => FreshTimestamps
  BY InvariantHolds, FreshFromInv, PTL DEF FreshTimestamps, Spec
=============================================================================
