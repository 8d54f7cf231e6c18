----------------------------- MODULE Timestamps -----------------------------
(***************************************************************************)
(* The two process-wide counters of minigu-transaction                     *)
(* (transaction/src/timestamp.rs): the GlobalTimestampGenerator, which     *)
(* hands out start and commit timestamps, and the TransactionIdGenerator,  *)
(* whose values live in the upper half of u64 so that a version's          *)
(* timestamp tells a commit from the lock of a running transaction.        *)
(*                                                                         *)
(* next() is a compare-and-swap loop, so a call is a load followed by any  *)
(* number of failed exchanges and one successful one; between them other   *)
(* threads run.  update_if_greater() is a check and one atomic fetch_max.  *)
(***************************************************************************)
EXTENDS Integers, Sequences

CONSTANTS
    Threads,        \* callers of the generators
    TXN_ID_START,   \* 2^63 in the code; a timestamp is below 2 * TXN_ID_START
    StartTs         \* first value of the timestamp counter (new, with_start)

ASSUME DomainAssumption ==
    /\ TXN_ID_START \in Nat
    /\ TXN_ID_START > 1
    /\ StartTs \in 0 .. (TXN_ID_START - 1)

Gens == {"ts", "id"}
Timestamp == 0 .. (2 * TXN_ID_START - 1)

max_commit_ts == TXN_ID_START - 1
u64_MAX == 2 * TXN_ID_START - 1
is_txn_id(x) == x >= TXN_ID_START
is_commit_ts(x) == x < TXN_ID_START

\* Slip: the boundary of both generators off by one.
LimitOffByOne(g) == IF g = "ts" THEN max_commit_ts + 1 ELSE u64_MAX + 1

\* The value at which generator g refuses to go on.
Limit(g) == IF g = "ts" THEN max_commit_ts ELSE u64_MAX
InDomain(g, x) == IF g = "ts" THEN is_commit_ts(x) ELSE is_txn_id(x)

VARIABLES
    counter,    \* the two atomics
    cur,        \* the local variable of a thread inside next(); Idle outside
    issued,     \* history: what next() returned, in the order of the exchanges
    reserved    \* history: the arguments update_if_greater() accepted

vars == <<counter, cur, issued, reserved>>

\* A thread that is not inside a call of next().
Idle == [gen |-> "ts", val |-> -1]
Calling(p) == cur[p] # Idle

Init ==
    /\ counter = [g \in Gens |-> IF g = "ts" THEN StartTs ELSE TXN_ID_START + 1]
    /\ cur = [p \in Threads |-> Idle]
    /\ issued = [g \in Gens |-> <<>>]
    /\ reserved = [g \in Gens |-> {}]

\* next(): the initial load of the counter.
NextLoad(p, g) ==
    /\ ~Calling(p)
    /\ cur' = [cur EXCEPT ![p] = [gen |-> g, val |-> counter[g]]]
    /\ UNCHANGED <<counter, issued, reserved>>

\* next(): Err(CommitTsOverflow) or Err(TxnIdOverflow).
NextOverflow(p) ==
    /\ Calling(p)
    /\ cur[p].val >= Limit(cur[p].gen)
    /\ cur' = [cur EXCEPT ![p] = Idle]
    /\ UNCHANGED <<counter, issued, reserved>>

\* Slip: the exchange as a plain store, which never fails.
StoreSucceeds(g, v) == TRUE

\* compare_exchange finds the value the thread loaded.
CasSucceeds(g, v) == counter[g] = v

\* next(): the exchange succeeds and the old value is the result.
NextExchange(p) ==
    LET g == cur[p].gen
        v == cur[p].val
    IN  /\ Calling(p)
        /\ v < Limit(g)
        /\ CasSucceeds(g, v)
        /\ counter' = [counter EXCEPT ![g] = v + 1]
        /\ issued' = [issued EXCEPT ![g] = Append(@, v)]
        /\ cur' = [cur EXCEPT ![p] = Idle]
        /\ UNCHANGED reserved

\* Slip: the failed exchange does not say what it saw.
NextRetryStale(p) ==
    /\ Calling(p)
    /\ cur[p].val < Limit(cur[p].gen)
    /\ UNCHANGED vars

\* next(): the exchange fails, because another thread moved the counter or
\* spuriously (compare_exchange_weak), and the loop retries with what it saw.
NextRetry(p) ==
    LET g == cur[p].gen
    IN  /\ Calling(p)
        /\ cur[p].val < Limit(g)
        /\ cur' = [cur EXCEPT ![p] = [gen |-> g, val |-> counter[g]]]
        /\ UNCHANGED <<counter, issued, reserved>>

\* update_if_greater(x): rejected outside the generator's domain and at its
\* limit, otherwise one fetch_max.
UpdateIfGreater(g, x) ==
    /\ InDomain(g, x)
    /\ x < Limit(g)
    /\ counter' = [counter EXCEPT ![g] = IF x + 1 > @ THEN x + 1 ELSE @]
    /\ reserved' = [reserved EXCEPT ![g] = @ \cup {x}]
    /\ UNCHANGED <<cur, issued>>

Next ==
    \/ \E p \in Threads : \/ \E g \in Gens : NextLoad(p, g)
                          \/ NextOverflow(p)
                          \/ NextExchange(p)
                          \/ NextRetry(p)
    \/ \E g \in Gens, x \in Timestamp : UpdateIfGreater(g, x)

Spec == Init /\ [][Next]_vars

\* A thread inside next() is scheduled, and compare_exchange_weak does not fail
\* spuriously for ever.  Nobody has to call.
Fairness ==
    \A p \in Threads : /\ WF_vars(NextOverflow(p) \/ NextExchange(p) \/ NextRetry(p))
                       /\ SF_vars(NextExchange(p))

FairSpec == Spec /\ Fairness

-----------------------------------------------------------------------------
TypeOK ==
    /\ counter \in [Gens -> Timestamp]
    /\ cur \in [Threads -> [gen : Gens, val : Timestamp \cup {-1}]]
    /\ issued \in [Gens -> Seq(Timestamp)]
    /\ reserved \in [Gens -> SUBSET Timestamp]

(* The two domains never meet, up to the last value: next() returns commit   *)
(* timestamps strictly below max_commit_ts and transaction ids strictly      *)
(* below u64::MAX, however the calls and the explicit updates of recovery    *)
(* interleave, so a version's commit_ts field is never ambiguous.            *)
DomainsDisjoint ==
    \A g \in Gens : /\ InDomain(g, counter[g])
                    /\ counter[g] <= Limit(g)
                    /\ \A i \in 1 .. Len(issued[g]) :
                          InDomain(g, issued[g][i]) /\ issued[g][i] < Limit(g)

(* A timestamp next() returns is larger than every one it returned before    *)
(* and than every one a completed update_if_greater() reserved.  A start     *)
(* timestamp or transaction id can thus not collide with one of a replayed   *)
(* transaction.                                                              *)
FreshStep ==
    \A g \in Gens :
        Len(issued'[g]) > Len(issued[g]) =>
            LET new == issued'[g][Len(issued[g]) + 1]
            IN  /\ \A i \in 1 .. Len(issued[g]) : issued[g][i] < new
                /\ \A x \in reserved[g] : x < new

FreshTimestamps == [][FreshStep]_vars

(* Every call of next() returns, with a value or with the overflow error,    *)
(* whatever the other threads do to the counter between its load and its     *)
(* exchange: a failed exchange hands the loop the value it has to try next.  *)
NextReturns == \A p \in Threads : Calling(p) ~> ~Calling(p)
=============================================================================
