-------------------------- MODULE WalRecovery_proofs --------------------------
(***************************************************************************)
(* The log sequence numbers of the write-ahead log, for any number of      *)
(* transactions, records, crashes and automatic checkpoints, and for       *)
(* transactions that overlap: an LSN is never on the log twice and no      *)
(* entry is older than the checkpoint in front of it, although LSNs are    *)
(* drawn before they are written, entries reach the log out of order, and  *)
(* a restart finds its next LSN from the checkpoint and the log alone.     *)
(* Second, crash safety for transactions that do not overlap and whose     *)
(* clients write only what they see: wherever the process stops, recovery  *)
(* succeeds and shows what the commits on the log have promised.           *)
(***************************************************************************)
EXTENDS WalRecovery, TLAPS, FiniteSetTheorems, SequenceTheorems, WellFoundedInduction

-----------------------------------------------------------------------------
(* The inductive invariant.                                                  *)

RedoOps == [name : {"create", "set", "del"}, key : Keys, val : Vals \cup {CHOOSE v \in Vals : TRUE}, lsn : Nat]
Marks == [name : {"Begin", "Commit", "Abort"}, ts : Nat]
Entries == [lsn : Nat, id : Nat, op : RedoOps \cup Marks]

\* Places in a transaction: registered with the manager.
Joined == {"log", "run", "commit", "assign", "flush", "mark", "finish", "abort", "leave"}
Places == Joined \cup {"idle", "begin", "due", "drain", "truncate", "done"}
TxRecords == [pc : Places, id : Nat, start : Nat, cts : Nat, lsn : Nat, redo : Seq(RedoOps), pos : Nat]

\* The LSNs a transaction has drawn and not yet written: 0 stands for that of
\* its Begin, Commit or Abort entry, i for that of its i-th redo entry.
Holding(x) == IF x.pc \in {"log", "abort", "mark"} THEN {0}
              ELSE IF x.pc = "assign" THEN 1 .. x.pos - 1
              ELSE IF x.pc = "flush" THEN x.pos .. Len(x.redo)
              ELSE {}
LsnAt(x, i) == IF i = 0 THEN x.lsn ELSE x.redo[i].lsn
Held(x) == [i \in Holding(x) |-> LsnAt(x, i)]
held == [t \in Txns |-> Held(tx[t])]

LogOK(d) == DOMAIN d = {"ckpt", "wal"} /\ d.ckpt.lsn \in Nat /\ d.wal \in Seq(Entries)

\* No LSN is on the log twice, and none is older than the checkpoint.
Once(d) == \A i, j \in DOMAIN d.wal : i # j => d.wal[i].lsn # d.wal[j].lsn
NotCovered(d) == \A i \in DOMAIN d.wal : d.wal[i].lsn >= d.ckpt.lsn
\* The next LSN is behind everything written or held, and what is held is
\* neither on the log nor in other hands.
Behind(d, n) == n \in Nat /\ d.ckpt.lsn <= n /\ \A i \in DOMAIN d.wal : d.wal[i].lsn < n
Reserved(d, n, h) ==
    \A t \in Txns : \A i \in DOMAIN h[t] :
        h[t][i] \in d.ckpt.lsn .. n - 1 /\ \A k \in DOMAIN d.wal : d.wal[k].lsn # h[t][i]
Unshared(h) ==
    \A t, u \in Txns : \A i \in DOMAIN h[t], j \in DOMAIN h[u] : h[t][i] = h[u][j] => t = u /\ i = j
Fresh(d, n, h) == Once(d) /\ NotCovered(d) /\ Behind(d, n) /\ Reserved(d, n, h) /\ Unshared(h)

\* Ids are drawn once in the life of the process, so a transaction that leaves
\* the manager takes no other one with it.
Registered == \A t \in Txns : tx[t].pc \in Joined => tx[t].id \in active
IdsDistinct ==
    /\ \A t \in Txns : Running(t) => tx[t].id < nextId
    /\ \A t, u \in Txns : Running(t) /\ Running(u) /\ tx[t].id = tx[u].id => t = u

WInv ==
    /\ tx \in [Txns -> TxRecords] /\ clock \in Nat /\ nextId \in Nat
    /\ \A t \in Txns : tx[t].pc \in {"assign", "flush"} => tx[t].pos \in 1 .. Len(tx[t].redo) + 1
    /\ LogOK(disk)
    /\ Once(disk) /\ NotCovered(disk)
    /\ up = "up" => Fresh(disk, nextLsn, held) /\ Registered /\ IdsDistinct
    /\ up # "up" => \A t \in Txns : ~Running(t)

(* Constants and induction.                                                  *)

LEMMA ConstantFacts ==
  MaxTxn \in Nat /\ TXN_ID_START \in Nat
  BY RecoveryAssumption

LEMMA SetInduction ==
  ASSUME NEW S, 0 \in S, \A m \in Nat : m \in S => m + 1 \in S
  PROVE  Nat \subseteq S
<1> SUFFICES ASSUME Nat \ S # {} PROVE FALSE
  OBVIOUS
<1>1. PICK x \in Nat \ S : \A y \in Nat \ S : ~ (<<y, x>> \in OpToRel(<, Nat))
  BY WFMin, NatLessThanWellFounded, Zenon
<1>2. x \in Nat /\ x # 0 /\ x \notin S
  OBVIOUS
<1>3. x - 1 \in Nat /\ x - 1 < x /\ (x - 1) + 1 = x
  BY <1>2
<1>4. <<x - 1, x>> \in OpToRel(<, Nat)
  <2>1. <<x - 1, x>> \in Nat \X Nat /\ <<x - 1, x>>[1] < <<x - 1, x>>[2]
    BY <1>2, <1>3
  <2> QED BY <2>1, Zenon DEF OpToRel
<1>5. x - 1 \in S
  BY <1>1, <1>3, <1>4, Zenon
<1> QED BY <1>2, <1>3, <1>5

-----------------------------------------------------------------------------
(* LSNs drawn, written, and left behind.                                     *)

\* Fewer LSNs are held.
LEMMA FreshShrink ==
  ASSUME NEW d, NEW n, NEW h, Fresh(d, n, h), NEW g,
         \A t \in Txns : \A i \in DOMAIN g[t] : i \in DOMAIN h[t] /\ g[t][i] = h[t][i]
  PROVE  Fresh(d, n, g)
<1>1. Reserved(d, n, g)
  BY DEF Fresh, Reserved
<1>2. Unshared(g)
  BY DEF Fresh, Unshared
<1> QED BY <1>1, <1>2 DEF Fresh

\* The next LSN is drawn by t0 for its place p.
LEMMA FreshDraw ==
  ASSUME NEW d, LogOK(d), NEW n, NEW h, Fresh(d, n, h), NEW g, NEW t0 \in Txns, NEW p,
         \A t \in Txns : \A i \in DOMAIN g[t] :
            \/ t = t0 /\ i = p /\ g[t][i] = n
            \/ i \in DOMAIN h[t] /\ g[t][i] = h[t][i]
  PROVE  Fresh(d, n + 1, g)
<1>1. n \in Nat /\ d.ckpt.lsn \in Nat /\ d.ckpt.lsn <= n /\ \A k \in DOMAIN d.wal : d.wal[k].lsn < n /\ d.wal[k].lsn \in Nat
  <2>1. d.wal \in Seq(Entries) /\ d.ckpt.lsn \in Nat
    BY DEF LogOK
  <2>2. \A k \in DOMAIN d.wal : d.wal[k] \in Entries
    BY <2>1
  <2>3. \A k \in DOMAIN d.wal : d.wal[k].lsn \in Nat
    BY <2>2 DEF Entries
  <2> QED BY <2>1, <2>3 DEF Fresh, Behind
<1>2. Behind(d, n + 1)
  BY <1>1 DEF Behind
<1>3. \A t \in Txns : \A i \in DOMAIN h[t] : h[t][i] \in d.ckpt.lsn .. n - 1 /\ \A k \in DOMAIN d.wal : d.wal[k].lsn # h[t][i]
  BY DEF Fresh, Reserved
<1>4. Reserved(d, n + 1, g)
  <2> SUFFICES ASSUME NEW t \in Txns, NEW i \in DOMAIN g[t]
               PROVE  g[t][i] \in d.ckpt.lsn .. (n + 1) - 1 /\ \A k \in DOMAIN d.wal : d.wal[k].lsn # g[t][i]
    BY DEF Reserved
  <2>1. CASE g[t][i] = n
    BY <1>1, <2>1
  <2>2. CASE i \in DOMAIN h[t] /\ g[t][i] = h[t][i]
    BY <1>1, <1>3, <2>2
  <2> QED BY <2>1, <2>2
<1>5. Unshared(g)
  <2> SUFFICES ASSUME NEW t \in Txns, NEW u \in Txns, NEW i \in DOMAIN g[t], NEW j \in DOMAIN g[u], g[t][i] = g[u][j]
               PROVE  t = u /\ i = j
    BY DEF Unshared
  <2>1. \A v \in Txns : \A k \in DOMAIN h[v] : h[v][k] # n
    BY <1>1, <1>3
  <2>2. CASE g[t][i] = n
    BY <2>1, <2>2
  <2>3. CASE g[t][i] # n
    <3>1. i \in DOMAIN h[t] /\ j \in DOMAIN h[u] /\ h[t][i] = h[u][j]
      BY <2>3
    <3> QED BY <3>1 DEF Fresh, Unshared
  <2> QED BY <2>2, <2>3
<1> QED BY <1>2, <1>4, <1>5 DEF Fresh

\* t0 writes the entry whose LSN it holds at p.
LEMMA FreshAppend ==
  ASSUME NEW d, LogOK(d), NEW n, NEW h, Fresh(d, n, h), NEW g, NEW t0 \in Txns, NEW p \in DOMAIN h[t0],
         NEW e \in Entries, e.lsn = h[t0][p],
         \A t \in Txns : \A i \in DOMAIN g[t] : i \in DOMAIN h[t] /\ g[t][i] = h[t][i] /\ ~(t = t0 /\ i = p)
  PROVE  LogOK([d EXCEPT !.wal = Append(@, e)]) /\ Fresh([d EXCEPT !.wal = Append(@, e)], n, g)
<1> DEFINE w == Append(d.wal, e)
           c == [d EXCEPT !.wal = w]
           N == Len(d.wal)
<1>1. DOMAIN d = {"ckpt", "wal"} /\ d.wal \in Seq(Entries) /\ d.ckpt.lsn \in Nat /\ N \in Nat /\ DOMAIN d.wal = 1 .. N
  BY DEF LogOK
<1>2. /\ w \in Seq(Entries) /\ Len(w) = N + 1 /\ DOMAIN w = 1 .. N + 1 /\ w[N + 1] = e
      /\ \A i \in 1 .. N : w[i] = d.wal[i]
  BY <1>1
<1>3. DOMAIN c = {"ckpt", "wal"} /\ c.ckpt = d.ckpt /\ c.wal = w
  BY <1>1
<1> HIDE DEF w, c, N
<1>4. LogOK(c)
  BY <1>1, <1>2, <1>3 DEF LogOK
<1>5. e.lsn \in d.ckpt.lsn .. n - 1 /\ \A k \in 1 .. N : d.wal[k].lsn # e.lsn
  BY <1>1 DEF Fresh, Reserved
<1>6. n \in Nat /\ d.ckpt.lsn <= n /\ e.lsn \in Nat /\ e.lsn < n /\ e.lsn >= d.ckpt.lsn
  BY <1>1, <1>5 DEF Fresh, Behind, Entries
<1>7. \A i \in 1 .. N + 1 : (i \in 1 .. N /\ w[i] = d.wal[i]) \/ (i = N + 1 /\ w[i] = e)
  BY <1>1, <1>2
<1>8. Once(c)
  <2> SUFFICES ASSUME NEW i \in 1 .. N + 1, NEW j \in 1 .. N + 1, i # j PROVE w[i].lsn # w[j].lsn
    BY <1>2, <1>3 DEF Once
  <2>1. \A k, l \in 1 .. N : k # l => d.wal[k].lsn # d.wal[l].lsn
    BY <1>1 DEF Fresh, Once
  <2> QED BY <1>5, <1>7, <2>1
<1>9. NotCovered(c)
  BY <1>1, <1>2, <1>3, <1>6, <1>7 DEF NotCovered, Fresh
<1>10. Behind(c, n)
  BY <1>1, <1>2, <1>3, <1>6, <1>7 DEF Behind, Fresh
<1>11. Reserved(c, n, g)
  <2> SUFFICES ASSUME NEW t \in Txns, NEW i \in DOMAIN g[t]
               PROVE  g[t][i] \in d.ckpt.lsn .. n - 1 /\ \A k \in 1 .. N + 1 : w[k].lsn # g[t][i]
    BY <1>2, <1>3 DEF Reserved
  <2>1. i \in DOMAIN h[t] /\ g[t][i] = h[t][i] /\ ~(t = t0 /\ i = p)
    OBVIOUS
  <2>2. h[t][i] \in d.ckpt.lsn .. n - 1 /\ \A k \in 1 .. N : d.wal[k].lsn # h[t][i]
    BY <1>1, <2>1 DEF Fresh, Reserved
  <2>3. h[t][i] # e.lsn
    BY <2>1 DEF Fresh, Unshared
  <2> QED BY <1>7, <2>1, <2>2, <2>3
<1>12. Unshared(g)
  BY DEF Fresh, Unshared
<1>13. Fresh(c, n, g)
  BY <1>8, <1>9, <1>10, <1>11, <1>12 DEF Fresh
<1> QED BY <1>4, <1>13 DEF c, w

\* A checkpoint while nothing is held covers the whole log.
LEMMA FreshCheckpoint ==
  ASSUME NEW d, LogOK(d), NEW n, NEW h, Fresh(d, n, h), \A t \in Txns : DOMAIN h[t] = {},
         NEW c, DOMAIN c = {"ckpt", "wal"}, c.ckpt.lsn = n, c.wal = <<>>
  PROVE  LogOK(c) /\ Fresh(c, n, h)
<1>1. n \in Nat
  BY DEF Fresh, Behind
<1>2. c.wal \in Seq(Entries) /\ DOMAIN c.wal = {}
  OBVIOUS
<1>3. LogOK(c)
  BY <1>1, <1>2 DEF LogOK
<1>4. Once(c) /\ NotCovered(c) /\ Behind(c, n)
  BY <1>1, <1>2 DEF Once, NotCovered, Behind
<1>5. Reserved(c, n, h) /\ Unshared(h)
  BY DEF Reserved, Unshared
<1> QED BY <1>3, <1>4, <1>5 DEF Fresh

-----------------------------------------------------------------------------
(* read_wal_entries sorts the log.                                           *)

LEMMA BeforeSize ==
  ASSUME NEW N \in Nat, NEW w, DOMAIN w = 1 .. N, \A i \in 1 .. N : w[i].lsn \in Nat, NEW i \in 1 .. N
  PROVE  /\ Before(w, i) \subseteq (1 .. N) \ {i}
         /\ IsFiniteSet(Before(w, i)) /\ Cardinality(Before(w, i)) \in 0 .. N - 1
         /\ Cardinality(Before(w, i)) = N - 1 => Before(w, i) = (1 .. N) \ {i}
<1> DEFINE B == Before(w, i)
           R == (1 .. N) \ {i}
<1>1. B \subseteq R
  BY DEF Before
<1>2. IsFiniteSet(R) /\ Cardinality(R) = N - 1
  <2>1. IsFiniteSet(1 .. N) /\ Cardinality(1 .. N) = N
    BY FS_Interval
  <2> QED BY <2>1, FS_RemoveElement
<1> HIDE DEF B, R
<1>3. IsFiniteSet(B) /\ Cardinality(B) <= Cardinality(R) /\ (Cardinality(R) = Cardinality(B) => R = B)
  BY <1>1, <1>2, FS_Subset
<1>4. Cardinality(B) \in Nat
  BY <1>3, FS_CardinalityType
<1> QED BY <1>1, <1>2, <1>3, <1>4 DEF B, R

LEMMA BeforeGrows ==
  ASSUME NEW N \in Nat, NEW w, DOMAIN w = 1 .. N, \A i \in 1 .. N : w[i].lsn \in Nat,
         NEW i \in 1 .. N, NEW j \in 1 .. N, i # j
  PROVE  Cardinality(Before(w, i)) # Cardinality(Before(w, j))
<1>1. ASSUME NEW k \in 1 .. N, NEW l \in 1 .. N, k \in Before(w, l)
      PROVE  Cardinality(Before(w, k)) # Cardinality(Before(w, l))
  <2> DEFINE B == Before(w, k)
             C == Before(w, l)
  <2>1. B \subseteq C
    <3> SUFFICES ASSUME NEW x \in B PROVE x \in C
      OBVIOUS
    <3>1. x \in 1 .. N /\ (w[x].lsn < w[k].lsn \/ (w[x].lsn = w[k].lsn /\ x < k))
      BY DEF Before
    <3>2. w[k].lsn < w[l].lsn \/ (w[k].lsn = w[l].lsn /\ k < l)
      BY <1>1 DEF Before
    <3>3. w[x].lsn \in Nat /\ w[k].lsn \in Nat /\ w[l].lsn \in Nat
      BY <3>1
    <3>4. w[x].lsn < w[l].lsn \/ (w[x].lsn = w[l].lsn /\ x < l)
      BY <3>1, <3>2, <3>3
    <3> QED BY <3>1, <3>4 DEF Before
  <2>2. k \notin B /\ k \in C
    BY <1>1 DEF Before
  <2>3. IsFiniteSet(C)
    BY BeforeSize
  <2> HIDE DEF B, C
  <2>4. Cardinality(C) = Cardinality(B) => C = B
    BY <2>1, <2>3, FS_Subset
  <2> QED BY <2>2, <2>4 DEF B, C
<1>2. i \in Before(w, j) \/ j \in Before(w, i)
  BY DEF Before
<1> QED BY <1>1, <1>2

LEMMA RanksHit ==
  ASSUME NEW N \in Nat, NEW w, DOMAIN w = 1 .. N, \A i \in 1 .. N : w[i].lsn \in Nat, NEW n \in 1 .. N
  PROVE  \E i \in 1 .. N : Cardinality(Before(w, i)) = n - 1
<1> DEFINE D == 1 .. N
           rank == [i \in D |-> Cardinality(Before(w, i)) + 1]
<1>1. \A i \in D : Cardinality(Before(w, i)) \in 0 .. N - 1
  BY BeforeSize
<1>2. rank \in [D -> D]
  BY <1>1
<1>3. \A i, j \in D : rank[i] = rank[j] => i = j
  BY <1>1, BeforeGrows
<1> HIDE DEF rank
<1>4. rank \in Injection(D, D)
  BY <1>2, <1>3 DEF Injection, IsInjective
<1>5. IsFiniteSet(D)
  BY FS_Interval
<1>6. rank \in Surjection(D, D)
  <2> HIDE DEF D
  <2> QED BY <1>4, <1>5, FS_Injection
<1>7. PICK i \in D : rank[i] = n
  BY <1>6 DEF Surjection
<1>8. Cardinality(Before(w, i)) \in Int /\ rank[i] = Cardinality(Before(w, i)) + 1
  BY <1>1 DEF rank
<1>9. Cardinality(Before(w, i)) = n - 1
  <2> DEFINE c == Cardinality(Before(w, i))
  <2> HIDE DEF c
  <2>1. c \in Int /\ c + 1 = n
    BY <1>7, <1>8 DEF c
  <2>2. c = n - 1
    BY <2>1
  <2> QED BY <2>2 DEF c
<1> QED BY <1>9

\* The sorted log holds entries of the log, and its last one has the largest LSN.
LEMMA Sorted ==
  ASSUME NEW w \in Seq(Entries)
  PROVE  /\ SortedByLsn(w) \in Seq(Entries) /\ Len(SortedByLsn(w)) = Len(w)
         /\ \A i \in DOMAIN w : w[i].lsn <= SortedByLsn(w)[Len(w)].lsn
<1> DEFINE N == Len(w)
           at(n) == CHOOSE i \in DOMAIN w : Cardinality(Before(w, i)) = n - 1
           s == SortedByLsn(w)
<1>1. N \in Nat /\ DOMAIN w = 1 .. N /\ \A i \in 1 .. N : w[i] \in Entries
  OBVIOUS
<1>2. \A i \in 1 .. N : w[i].lsn \in Nat
  BY <1>1 DEF Entries
<1>3. s = [n \in 1 .. N |-> w[at(n)]]
  BY <1>1 DEF SortedByLsn
<1> HIDE DEF N, s
<1>4. ASSUME NEW n \in 1 .. N PROVE at(n) \in 1 .. N /\ Cardinality(Before(w, at(n))) = n - 1
  <2>1. \E i \in 1 .. N : Cardinality(Before(w, i)) = n - 1
    <3> HIDE DEF at
    <3> QED BY <1>1, <1>2, RanksHit, Zenon
  <2> QED BY <1>1, <2>1, Zenon
<1> HIDE DEF at
<1>5. s \in [1 .. N -> Entries]
  BY <1>1, <1>3, <1>4
<1>6. s \in Seq(Entries) /\ Len(s) = N
  BY <1>1, <1>5
<1>7. ASSUME NEW i \in 1 .. N PROVE w[i].lsn <= s[N].lsn
  <2> DEFINE m == at(N)
  <2>1. N \in 1 .. N
    BY <1>1
  <2>2. m \in 1 .. N /\ Cardinality(Before(w, m)) = N - 1 /\ s[N] = w[m]
    BY <1>3, <1>4, <2>1
  <2> HIDE DEF m
  <2>3. Before(w, m) = (1 .. N) \ {m}
    BY <1>1, <1>2, <2>2, BeforeSize
  <2>4. CASE i = m
    BY <1>2, <2>2, <2>4
  <2>5. CASE i # m
    <3>1. i \in Before(w, m)
      BY <2>3, <2>5
    <3> QED BY <1>2, <2>2, <3>1 DEF Before
  <2> QED BY <2>4, <2>5
<1> QED BY <1>1, <1>6, <1>7 DEF s, N

-----------------------------------------------------------------------------
(* Replay.                                                                   *)

StateFields == {"ok", "cells", "active", "clock", "nextId", "latest", "lsn", "cur", "start"}
ReplayState(s) == DOMAIN s = StateFields /\ s.ok \in BOOLEAN /\ s.clock \in Nat /\ s.nextId \in Nat

LEMMA AtLeastTyped ==
  ASSUME NEW n \in Nat, NEW m \in Nat
  PROVE  AtLeast(n, m) \in Nat
  BY DEF AtLeast

LEMMA ReplayEntryOK ==
  ASSUME NEW s, ReplayState(s), NEW e \in Entries
  PROVE  /\ ReplayState(ReplayEntry(s, e))
         /\ ReplayEntry(s, e).ok => ReplayEntry(s, e).lsn = e.lsn + 1
<1> DEFINE next == [s EXCEPT !.lsn = e.lsn + 1]
           none == [next EXCEPT !.cur = 0]
           begun == [next EXCEPT !.cur = e.id, !.start = e.op.ts, !.active = @ \cup {e.id},
                                 !.nextId = AtLeast(e.id + 1, @), !.clock = AtLeast(e.op.ts + 1, @)]
           committed == [none EXCEPT !.cells = Promoted(s.cells, s.cur, e.op.ts), !.active = @ \ {s.cur},
                                     !.clock = AtLeast(e.op.ts + 1, @), !.latest = e.op.ts]
           aborted == [none EXCEPT !.cells = Restored(s.cells, s.cur), !.active = @ \ {s.cur}]
           written == [next EXCEPT !.cells[e.op.key] = Written(@, e.op, s.cur)]
           failed == [next EXCEPT !.ok = FALSE]
           OK(r) == ReplayState(r) /\ (r.ok => r.lsn = e.lsn + 1)
           name == e.op.name
<1>1. e.id \in Nat /\ e.op \in RedoOps \cup Marks
  BY DEF Entries
<1>2. /\ name \in {"Begin", "Commit", "Abort", "create", "set", "del"}
      /\ name \in {"Begin", "Commit"} => e.op.ts \in Nat
  BY <1>1 DEF RedoOps, Marks
<1>3. /\ DOMAIN s = StateFields /\ s.ok \in BOOLEAN /\ s.clock \in Nat /\ s.nextId \in Nat
  BY DEF ReplayState
<1>4. OK(next) /\ OK(none) /\ OK(aborted) /\ OK(written) /\ OK(failed)
  BY <1>3 DEF ReplayState, StateFields
<1>5. name = "Begin" => OK(begun)
  <2> SUFFICES ASSUME name = "Begin" PROVE OK(begun)
    OBVIOUS
  <2>0. e.op.ts \in Nat
    BY <1>2
  <2>9. e.id + 1 \in Nat /\ e.op.ts + 1 \in Nat
    BY <1>1, <2>0
  <2>1. AtLeast(e.id + 1, s.nextId) \in Nat /\ AtLeast(e.op.ts + 1, s.clock) \in Nat
    BY <1>3, <2>9, AtLeastTyped, Zenon
  <2> QED BY <1>3, <2>1 DEF ReplayState, StateFields
<1>6. name = "Commit" => OK(committed)
  <2> SUFFICES ASSUME name = "Commit" PROVE OK(committed)
    OBVIOUS
  <2>0. e.op.ts \in Nat
    BY <1>2
  <2>9. e.op.ts + 1 \in Nat
    BY <2>0
  <2>1. AtLeast(e.op.ts + 1, s.clock) \in Nat
    BY <1>3, <2>9, AtLeastTyped, Zenon
  <2> QED BY <1>3, <2>1 DEF ReplayState, StateFields
<1>7. CASE ~s.ok
  <2>1. ReplayEntry(s, e) = s
    BY <1>7 DEF ReplayEntry
  <2> QED BY <1>7, <2>1
<1>8. CASE s.ok
  <2> HIDE DEF next, none, begun, committed, aborted, written, failed
  <2>0. ReplayEntry(s, e) =
          CASE ~s.ok -> s
            [] s.ok /\ name = "Begin" -> begun
            [] s.ok /\ name # "Begin" /\ s.cur = 0 -> none
            [] s.ok /\ name = "Commit" /\ s.cur # 0 -> committed
            [] s.ok /\ name = "Abort" /\ s.cur # 0 -> aborted
            [] s.ok /\ name \in {"create", "set", "del"} /\ s.cur # 0 ->
                  IF Accepts(s.cells[e.op.key], e.op, s.cur, s.start) THEN written ELSE failed
    BY Zenon DEF ReplayEntry, next, none, begun, committed, aborted, written, failed
  <2> HIDE DEF name
  <2>1. CASE name = "Begin"
    <3>1. ReplayEntry(s, e) = begun
      BY <1>8, <2>0, <2>1
    <3> QED BY <1>5, <2>1, <3>1
  <2>2. CASE name # "Begin" /\ s.cur = 0
    <3>1. ReplayEntry(s, e) = none
      BY <1>8, <2>0, <2>2
    <3> QED BY <1>4, <3>1
  <2>3. CASE name = "Commit" /\ s.cur # 0
    <3>1. ReplayEntry(s, e) = committed
      BY <1>8, <2>0, <2>3
    <3> QED BY <1>6, <2>3, <3>1
  <2>4. CASE name = "Abort" /\ s.cur # 0
    <3>1. ReplayEntry(s, e) = aborted
      BY <1>8, <2>0, <2>4
    <3> QED BY <1>4, <3>1
  <2>5. CASE name \in {"create", "set", "del"} /\ s.cur # 0
    <3>1. ReplayEntry(s, e) = written \/ ReplayEntry(s, e) = failed
      BY <1>8, <2>0, <2>5
    <3> QED BY <1>4, <3>1
  <2> QED BY <1>2, <2>1, <2>2, <2>3, <2>4, <2>5
<1> QED BY <1>3, <1>7, <1>8

\* Replayed satisfies its recursion.
LEMMA ReplayedSteps ==
  ASSUME NEW w, NEW c, Len(w) \in Nat
  PROVE  /\ Replayed(c, w)[0] = restore(c)
         /\ \A n \in 1 .. Len(w) : Replayed(c, w)[n] = ReplayEntry(Replayed(c, w)[n - 1], w[n])
<1> DEFINE N == Len(w)
           body(f, n) == IF n = 0 THEN restore(c) ELSE ReplayEntry(f[n - 1], w[n])
           Is(k) == \E f : f = [n \in 0 .. k |-> body(f, n)]
           Defined == {k \in Nat : Is(k)}
<1>1. 0 \in Defined
  <2> DEFINE z == [n \in 0 .. 0 |-> restore(c)]
  <2>1. \A n \in 0 .. 0 : n = 0
    OBVIOUS
  <2>2. \A n \in 0 .. 0 : body(z, n) = restore(c)
    BY <2>1, Zenon
  <2>3. z = [n \in 0 .. 0 |-> body(z, n)]
    <3> HIDE DEF body
    <3> QED BY <2>2
  <2>4. Is(0)
    <3> HIDE DEF z, body
    <3> QED BY <2>3
  <2> HIDE DEF Is
  <2> QED BY <2>4
<1>2. ASSUME NEW k \in Nat, k \in Defined PROVE k + 1 \in Defined
  <2>1. PICK f : f = [n \in 0 .. k |-> body(f, n)]
    <3> HIDE DEF body
    <3> QED BY <1>2
  <2> DEFINE g == [n \in 0 .. k + 1 |-> IF n <= k THEN f[n] ELSE body(f, n)]
  <2>2. ASSUME NEW n \in 0 .. k + 1 PROVE g[n] = body(g, n)
    <3>1. n # 0 => g[n - 1] = f[n - 1]
      <4> HIDE DEF body
      <4> QED OBVIOUS
    <3>2. body(g, n) = body(f, n)
      <4> HIDE DEF g
      <4> QED BY <3>1, Zenon
    <3>3. CASE n <= k
      <4> HIDE DEF body
      <4>0. n \in 0 .. k
        BY <3>3
      <4>1. f[n] = body(f, n)
        BY <2>1, <4>0, Zenon
      <4> QED BY <3>2, <3>3, <4>1
    <3>4. CASE ~(n <= k)
      <4> HIDE DEF body
      <4> QED BY <3>2, <3>4
    <3> QED BY <3>3, <3>4
  <2>3. g = [n \in 0 .. k + 1 |-> body(g, n)]
    <3> HIDE DEF body
    <3> QED BY <2>2
  <2>4. Is(k + 1)
    <3> HIDE DEF g, body
    <3> QED BY <2>3
  <2> HIDE DEF Is
  <2> QED BY <2>4
<1>3. N \in Defined
  <2> HIDE DEF Defined, N
  <2> QED BY <1>1, <1>2, SetInduction DEF N
<1>4. Is(N)
  <2> HIDE DEF Is
  <2> QED BY <1>3
<1>5. Replayed(c, w) = CHOOSE f : f = [n \in 0 .. N |-> body(f, n)]
  BY DEF Replayed
<1> DEFINE q == Replayed(c, w)
<1> HIDE DEF body
<1>6. q = [n \in 0 .. N |-> body(q, n)]
  BY <1>4, <1>5
<1> HIDE DEF q
<1>7. \A n \in 0 .. N : q[n] = body(q, n)
  BY <1>6, Zenon
<1>8. N \in Nat
  OBVIOUS
<1> HIDE DEF N
<1>9. q[0] = body(q, 0) /\ \A n \in 1 .. N : n # 0 /\ q[n] = body(q, n)
  BY <1>7, <1>8
<1>10. /\ q[0] = restore(c)
       /\ \A n \in 1 .. N : q[n] = ReplayEntry(q[n - 1], w[n])
  BY <1>9, Zenon DEF body
<1> QED BY <1>10, Zenon DEF q, N

\* Recovery finds an LSN behind the checkpoint and behind every entry of the log.
LEMMA RecoveredLsn ==
  ASSUME NEW d, LogOK(d), NotCovered(d), NEW r, r = Recovery(d)
  PROVE  r.clock \in Nat /\ r.nextId \in Nat /\ (r.ok => Behind(d, r.lsn))
<1> DEFINE w == SortedByLsn(d.wal)
           N == Len(d.wal)
           s == Replayed(d.ckpt, w)
           Good(n) == /\ ReplayState(s[n])
                      /\ s[n].ok => s[n].lsn = IF n = 0 THEN d.ckpt.lsn + 1 ELSE w[n].lsn + 1
           Reached == {n \in Nat : n <= N => Good(n)}
<1>1. d.wal \in Seq(Entries) /\ d.ckpt.lsn \in Nat /\ N \in Nat /\ DOMAIN d.wal = 1 .. N
  BY DEF LogOK
<1>2. w \in Seq(Entries) /\ Len(w) = N /\ \A i \in 1 .. N : d.wal[i].lsn <= w[N].lsn
  BY <1>1, Sorted
<1>3. \A i \in 1 .. N : w[i] \in Entries /\ w[i].lsn \in Nat /\ d.wal[i] \in Entries /\ d.wal[i].lsn \in Nat
  <2> HIDE DEF w, N
  <2>1. \A i \in 1 .. N : w[i] \in Entries /\ d.wal[i] \in Entries
    BY <1>1, <1>2
  <2> QED BY <2>1 DEF Entries
<1>4. r = s[N]
  BY DEF Recovery
<1>5. s[0] = restore(d.ckpt) /\ \A n \in 1 .. N : s[n] = ReplayEntry(s[n - 1], w[n])
  <2> HIDE DEF w
  <2> QED BY <1>1, <1>2, ReplayedSteps
<1> HIDE DEF w, N, s
<1>6. 0 \in Reached
  <2>1. restore(d.ckpt).lsn = d.ckpt.lsn + 1 /\ ReplayState(restore(d.ckpt))
    BY ConstantFacts DEF restore, ReplayState, StateFields
  <2> QED BY <1>5, <2>1
<1>7. ASSUME NEW n \in Nat, n \in Reached PROVE n + 1 \in Reached
  <2> SUFFICES ASSUME n + 1 <= N PROVE Good(n + 1)
    OBVIOUS
  <2>1. n + 1 \in 1 .. N /\ (n + 1) - 1 = n /\ n <= N
    BY <1>1
  <2>2. ReplayState(s[n])
    BY <1>7, <2>1
  <2>3. s[n + 1] = ReplayEntry(s[n], w[n + 1])
    BY <1>5, <2>1
  <2>4. w[n + 1] \in Entries
    BY <1>3, <2>1
  <2>5. ReplayState(s[n + 1]) /\ (s[n + 1].ok => s[n + 1].lsn = w[n + 1].lsn + 1)
    BY <2>2, <2>3, <2>4, ReplayEntryOK
  <2> QED BY <2>5
<1>8. Good(N)
  <2>1. N \in Reached
    <3> HIDE DEF Reached
    <3>1. Nat \subseteq Reached
      BY <1>6, <1>7, SetInduction
    <3> QED BY <1>1, <3>1
  <2> HIDE DEF Good
  <2> QED BY <1>1, <2>1
<1>9. r.clock \in Nat /\ r.nextId \in Nat
  BY <1>4, <1>8 DEF ReplayState
<1>10. ASSUME r.ok PROVE Behind(d, r.lsn)
  <2>1. CASE N = 0
    <3>1. r.lsn = d.ckpt.lsn + 1 /\ DOMAIN d.wal = {}
      BY <1>1, <1>4, <1>8, <1>10, <2>1
    <3> QED BY <1>1, <3>1 DEF Behind
  <2>2. CASE N # 0
    <3>1. N \in 1 .. N /\ r.lsn = w[N].lsn + 1
      BY <1>1, <1>4, <1>8, <1>10, <2>2
    <3>2. w[N].lsn \in Nat /\ \A i \in 1 .. N : d.wal[i].lsn \in Nat /\ d.wal[i].lsn < r.lsn
      BY <1>2, <1>3, <3>1
    <3>3. d.wal[N].lsn >= d.ckpt.lsn
      BY <1>1, <3>1 DEF NotCovered
    <3>4. r.lsn \in Nat /\ d.ckpt.lsn <= r.lsn
      <4> DEFINE m == d.wal[N].lsn
                 c == d.ckpt.lsn
                 l == r.lsn
      <4>1. m \in Nat /\ c \in Nat /\ m < l /\ m >= c
        BY <1>1, <3>1, <3>2, <3>3
      <4>2. l \in Nat
        BY <3>1, <3>2
      <4> HIDE DEF m, c, l
      <4>3. c <= l
        BY <4>1, <4>2
      <4> QED BY <4>2, <4>3 DEF c, l
    <3> QED BY <1>1, <3>2, <3>4 DEF Behind
  <2> QED BY <2>1, <2>2
<1> QED BY <1>9, <1>10

-----------------------------------------------------------------------------
(* Steps of one transaction.                                                 *)

OnlyTx(t) == tx' \in [Txns -> TxRecords] /\ \A u \in Txns : u # t => tx'[u] = tx[u]
PosOK(x) == x.pc \in {"assign", "flush"} => x.pos \in 1 .. Len(x.redo) + 1

LEMMA HeldEach ==
  /\ \A t \in Txns : held[t] = Held(tx[t])
  /\ \A t \in Txns : held'[t] = Held(tx'[t])
  /\ \A x : DOMAIN Held(x) = Holding(x) /\ \A i \in Holding(x) : Held(x)[i] = LsnAt(x, i)
<1>1. \A t \in Txns : held[t] = Held(tx[t])
  <2> HIDE DEF Held
  <2> QED BY DEF held
<1>2. \A t \in Txns : held'[t] = Held(tx'[t])
  <2>1. held' = [t \in Txns |-> Held(tx'[t])]
    BY DEF held, Held, Holding, LsnAt
  <2> HIDE DEF Held
  <2> QED BY <2>1
<1>3. ASSUME NEW x PROVE DOMAIN Held(x) = Holding(x) /\ \A i \in Holding(x) : Held(x)[i] = LsnAt(x, i)
  BY DEF Held
<1> QED BY <1>1, <1>2, <1>3

LEMMA OneStep ==
  ASSUME WInv, up = "up", up' = "up", NEW t \in Txns, OnlyTx(t), PosOK(tx'[t]),
         clock' \in Nat, nextId' \in Nat, nextId' >= nextId,
         LogOK(disk'), Fresh(disk', nextLsn', held'),
         tx'[t].pc \in Joined => tx'[t].id \in active',
         \A u \in Txns : u # t /\ tx[u].pc \in Joined => tx[u].id \in active',
         tx'[t].pc \notin {"idle", "done"} =>
            \/ Running(t) /\ tx'[t].id = tx[t].id
            \/ tx'[t].id = nextId /\ nextId' = nextId + 1
  PROVE  WInv'
<1>1. /\ tx \in [Txns -> TxRecords] /\ nextId \in Nat /\ IdsDistinct
      /\ \A u \in Txns : PosOK(tx[u])
  BY DEF WInv, PosOK
<1>2. tx' \in [Txns -> TxRecords] /\ \A u \in Txns : u # t => tx'[u] = tx[u]
  BY DEF OnlyTx
<1>3. \A u \in Txns : tx[u].id \in Nat
  BY <1>1 DEF TxRecords
<1>4. \A u \in Txns : PosOK(tx'[u])
  BY <1>1, <1>2
<1>5. Registered'
  BY <1>2 DEF Registered
<1>6. IdsDistinct'
  <2>1. ASSUME NEW u \in Txns, Running(u)' PROVE tx'[u].id < nextId'
    BY <1>1, <1>2, <1>3, <2>1 DEF Running, IdsDistinct
  <2>2. ASSUME NEW u \in Txns, NEW v \in Txns, Running(u)', Running(v)', tx'[u].id = tx'[v].id
        PROVE  u = v
    <3>1. CASE u # t /\ v # t
      BY <1>1, <1>2, <2>2, <3>1 DEF Running, IdsDistinct
    <3>2. ASSUME NEW w \in Txns, w # t, Running(w)', Running(t)' PROVE tx'[w].id # tx'[t].id
      <4>1. Running(w) /\ tx'[w].id = tx[w].id /\ tx[w].id < nextId /\ tx[w].id \in Nat
        BY <1>1, <1>2, <1>3, <3>2 DEF Running, IdsDistinct
      <4>2. CASE Running(t) /\ tx'[t].id = tx[t].id
        BY <1>1, <3>2, <4>1, <4>2 DEF IdsDistinct
      <4>3. CASE tx'[t].id = nextId
        BY <1>1, <4>1, <4>3
      <4> QED BY <3>2, <4>2, <4>3 DEF Running
    <3> QED BY <2>2, <3>1, <3>2
  <2> QED BY <2>1, <2>2 DEF IdsDistinct
<1>7. Once(disk') /\ NotCovered(disk')
  BY DEF Fresh
<1> QED BY <1>2, <1>4, <1>5, <1>6, <1>7 DEF WInv, PosOK, LogOK, Once, NotCovered, Fresh, Behind, Reserved, Unshared

\* The transaction keeps its id and its place in the manager.
LEMMA Stays ==
  ASSUME WInv, up = "up", up' = "up", NEW t \in Txns, OnlyTx(t), PosOK(tx'[t]),
         clock' \in Nat, nextId' = nextId, active' = active,
         LogOK(disk'), Fresh(disk', nextLsn', held'),
         Running(t), tx'[t].id = tx[t].id \/ tx'[t].pc = "done",
         tx[t].pc \in Joined \/ tx'[t].pc \notin Joined
  PROVE  WInv'
<1>1. nextId \in Nat /\ \A u \in Txns : tx[u].pc \in Joined => tx[u].id \in active
  BY DEF WInv, Registered
<1>2. tx'[t].pc \in Joined => tx'[t].id \in active'
  BY <1>1 DEF Joined
<1> QED BY <1>1, <1>2, OneStep

\* The LSNs held after a step of t alone.
LEMMA HeldOthers ==
  ASSUME NEW t \in Txns, OnlyTx(t)
  PROVE  \A u \in Txns : u # t => held'[u] = held[u]
  BY HeldEach DEF OnlyTx

\* A step that draws no LSN and writes nothing.
LEMMA KeepsLsns ==
  ASSUME WInv, up = "up", NEW t \in Txns, OnlyTx(t), disk' = disk, nextLsn' = nextLsn,
         \A i \in Holding(tx'[t]) : i \in Holding(tx[t]) /\ LsnAt(tx'[t], i) = LsnAt(tx[t], i)
  PROVE  LogOK(disk') /\ Fresh(disk', nextLsn', held')
<1>1. LogOK(disk) /\ Fresh(disk, nextLsn, held)
  BY DEF WInv
<1>2. \A u \in Txns : \A i \in DOMAIN held'[u] : i \in DOMAIN held[u] /\ held'[u][i] = held[u][i]
  <2> SUFFICES ASSUME NEW u \in Txns, NEW i \in DOMAIN held'[u]
               PROVE  i \in DOMAIN held[u] /\ held'[u][i] = held[u][i]
    OBVIOUS
  <2>1. CASE u = t
    BY <2>1, HeldEach
  <2>2. CASE u # t
    BY <2>2, HeldOthers
  <2> QED BY <2>1, <2>2
<1> DEFINE g == held'
<1>3. \A u \in Txns : \A i \in DOMAIN g[u] : i \in DOMAIN held[u] /\ g[u][i] = held[u][i]
  BY <1>2
<1> HIDE DEF g
<1>4. Fresh(disk, nextLsn, g)
  BY <1>1, <1>3, FreshShrink
<1> QED BY <1>1, <1>4 DEF g

\* A step that draws the next LSN for place p.
LEMMA DrawsLsn ==
  ASSUME WInv, up = "up", NEW t \in Txns, OnlyTx(t), disk' = disk, nextLsn' = nextLsn + 1, NEW p,
         \A i \in Holding(tx'[t]) :
            \/ i = p /\ LsnAt(tx'[t], i) = nextLsn
            \/ i \in Holding(tx[t]) /\ LsnAt(tx'[t], i) = LsnAt(tx[t], i)
  PROVE  LogOK(disk') /\ Fresh(disk', nextLsn', held')
<1>1. LogOK(disk) /\ Fresh(disk, nextLsn, held)
  BY DEF WInv
<1> DEFINE g == held'
<1>2. \A u \in Txns : \A i \in DOMAIN g[u] :
         \/ u = t /\ i = p /\ g[u][i] = nextLsn
         \/ i \in DOMAIN held[u] /\ g[u][i] = held[u][i]
  <2> SUFFICES ASSUME NEW u \in Txns, NEW i \in DOMAIN held'[u]
               PROVE  \/ u = t /\ i = p /\ held'[u][i] = nextLsn
                      \/ i \in DOMAIN held[u] /\ held'[u][i] = held[u][i]
    OBVIOUS
  <2>1. CASE u = t
    BY <2>1, HeldEach
  <2>2. CASE u # t
    BY <2>2, HeldOthers
  <2> QED BY <2>1, <2>2
<1> HIDE DEF g
<1>3. Fresh(disk, nextLsn + 1, g)
  BY <1>1, <1>2, FreshDraw
<1> QED BY <1>1, <1>3 DEF g

\* A step that writes the entry whose LSN is held at place p.
LEMMA WritesEntry ==
  ASSUME WInv, up = "up", NEW t \in Txns, OnlyTx(t), NEW p \in Holding(tx[t]),
         NEW e \in Entries, e.lsn = LsnAt(tx[t], p), append_wal(e), nextLsn' = nextLsn,
         \A i \in Holding(tx'[t]) : i # p /\ i \in Holding(tx[t]) /\ LsnAt(tx'[t], i) = LsnAt(tx[t], i)
  PROVE  LogOK(disk') /\ Fresh(disk', nextLsn', held')
<1>1. LogOK(disk) /\ Fresh(disk, nextLsn, held)
  BY DEF WInv
<1> DEFINE g == held'
<1>2. \A u \in Txns : \A i \in DOMAIN g[u] : i \in DOMAIN held[u] /\ g[u][i] = held[u][i] /\ ~(u = t /\ i = p)
  <2> SUFFICES ASSUME NEW u \in Txns, NEW i \in DOMAIN held'[u]
               PROVE  i \in DOMAIN held[u] /\ held'[u][i] = held[u][i] /\ ~(u = t /\ i = p)
    OBVIOUS
  <2>1. CASE u = t
    BY <2>1, HeldEach
  <2>2. CASE u # t
    BY <2>2, HeldOthers
  <2> QED BY <2>1, <2>2
<1>3. p \in DOMAIN held[t] /\ e.lsn = held[t][p]
  BY HeldEach
<1> HIDE DEF g
<1>4. LogOK([disk EXCEPT !.wal = Append(@, e)]) /\ Fresh([disk EXCEPT !.wal = Append(@, e)], nextLsn, g)
  BY <1>1, <1>2, <1>3, FreshAppend
<1> QED BY <1>4 DEF g, append_wal

-----------------------------------------------------------------------------
(* One lemma per action.                                                     *)

LEMMA SetsTx ==
  ASSUME WInv, NEW t \in Txns, NEW y \in TxRecords, tx' = [tx EXCEPT ![t] = y]
  PROVE  OnlyTx(t) /\ tx'[t] = y
<1>1. tx \in [Txns -> TxRecords]
  BY DEF WInv
<1> QED BY <1>1 DEF OnlyTx

LEMMA TxTyped ==
  ASSUME WInv, NEW t \in Txns
  PROVE  /\ tx[t] \in TxRecords /\ PosOK(tx[t])
         /\ clock \in Nat /\ nextId \in Nat /\ (up = "up" => nextLsn \in Nat)
         /\ tx[t].pc \in Places /\ tx[t].id \in Nat /\ tx[t].start \in Nat /\ tx[t].cts \in Nat
         /\ tx[t].lsn \in Nat /\ tx[t].redo \in Seq(RedoOps) /\ tx[t].pos \in Nat
<1>1. tx[t] \in TxRecords /\ PosOK(tx[t]) /\ clock \in Nat /\ nextId \in Nat /\ (up = "up" => nextLsn \in Nat)
  BY DEF WInv, PosOK, Fresh, Behind
<1> QED BY <1>1 DEF TxRecords

LEMMA CommitDrawTsOK ==
  ASSUME WInv, NEW t \in Txns, CommitDrawTs(t)
  PROVE  WInv'
<1> DEFINE y == [tx[t] EXCEPT !.pc = "commit", !.cts = clock]
<1>1. /\ up = "up" /\ up' = "up" /\ tx[t].pc = "run" /\ tx' = [tx EXCEPT ![t] = y]
      /\ disk' = disk /\ nextLsn' = nextLsn /\ clock' = clock + 1 /\ nextId' = nextId /\ active' = active
  BY DEF CommitDrawTs, At
<1>2. y \in TxRecords /\ y.pc = "commit" /\ y.id = tx[t].id
  BY TxTyped DEF TxRecords, Places, Joined
<1> HIDE DEF y
<1>3. OnlyTx(t) /\ tx'[t] = y
  BY <1>1, <1>2, SetsTx
<1>4. Holding(tx'[t]) = {} /\ PosOK(tx'[t])
  BY <1>2, <1>3 DEF Holding, PosOK
<1>5. LogOK(disk') /\ Fresh(disk', nextLsn', held')
  BY <1>1, <1>3, <1>4, KeepsLsns
<1> QED BY <1>1, <1>2, <1>3, <1>4, <1>5, TxTyped, Stays DEF Running, Joined

LEMMA BeginDrawOK ==
  ASSUME WInv, NEW t \in Txns, BeginDraw(t)
  PROVE  WInv'
<1> DEFINE y == [tx[t] EXCEPT !.pc = "begin", !.id = nextId, !.start = clock]
<1>1. /\ up = "up" /\ up' = "up" /\ tx[t].pc = "idle" /\ tx' = [tx EXCEPT ![t] = y]
      /\ disk' = disk /\ nextLsn' = nextLsn /\ clock' = clock + 1 /\ nextId' = nextId + 1 /\ active' = active
  BY DEF BeginDraw, At
<1>2. y \in TxRecords /\ y.pc = "begin" /\ y.id = nextId
  BY TxTyped DEF TxRecords, Places, Joined
<1> HIDE DEF y
<1>3. OnlyTx(t) /\ tx'[t] = y
  BY <1>1, <1>2, SetsTx
<1>4. Holding(tx'[t]) = {} /\ PosOK(tx'[t])
  BY <1>2, <1>3 DEF Holding, PosOK
<1>5. LogOK(disk') /\ Fresh(disk', nextLsn', held')
  BY <1>1, <1>3, <1>4, KeepsLsns
<1>6. \A u \in Txns : tx[u].pc \in Joined => tx[u].id \in active
  BY <1>1 DEF WInv, Registered
<1>7. clock' \in Nat /\ nextId' \in Nat /\ nextId' >= nextId
  BY <1>1, TxTyped
<1> QED BY <1>1, <1>2, <1>3, <1>4, <1>5, <1>6, <1>7, OneStep DEF Joined

LEMMA CommitPromoteOK ==
  ASSUME WInv, NEW t \in Txns, CommitPromote(t)
  PROVE  WInv'
<1> DEFINE y == [tx[t] EXCEPT !.pc = "assign", !.pos = 1]
<1>1. /\ up = "up" /\ up' = "up" /\ tx[t].pc = "commit" /\ tx' = [tx EXCEPT ![t] = y]
      /\ disk' = disk /\ nextLsn' = nextLsn /\ clock' = clock /\ nextId' = nextId /\ active' = active
  BY DEF CommitPromote, At
<1>2. y \in TxRecords /\ y.pc = "assign" /\ y.pos = 1 /\ y.id = tx[t].id /\ y.redo \in Seq(RedoOps)
  BY TxTyped DEF TxRecords, Places, Joined
<1> HIDE DEF y
<1>3. OnlyTx(t) /\ tx'[t] = y
  BY <1>1, <1>2, SetsTx
<1>4. Holding(tx'[t]) = {} /\ PosOK(tx'[t])
  BY <1>2, <1>3 DEF Holding, PosOK
<1>5. LogOK(disk') /\ Fresh(disk', nextLsn', held')
  BY <1>1, <1>3, <1>4, KeepsLsns
<1> QED BY <1>1, <1>2, <1>3, <1>4, <1>5, TxTyped, Stays DEF Running, Joined

LEMMA CheckpointLockOK ==
  ASSUME WInv, NEW t \in Txns, CheckpointLock(t)
  PROVE  WInv'
<1> DEFINE y == [tx[t] EXCEPT !.pc = "drain"]
<1>1. /\ up = "up" /\ up' = "up" /\ tx[t].pc = "due" /\ tx' = [tx EXCEPT ![t] = y]
      /\ disk' = disk /\ nextLsn' = nextLsn /\ clock' = clock /\ nextId' = nextId /\ active' = active
  BY DEF CheckpointLock, At, memVars
<1>2. y \in TxRecords /\ y.pc = "drain" /\ y.id = tx[t].id
  BY TxTyped DEF TxRecords, Places, Joined
<1> HIDE DEF y
<1>3. OnlyTx(t) /\ tx'[t] = y
  BY <1>1, <1>2, SetsTx
<1>4. Holding(tx'[t]) = {} /\ PosOK(tx'[t])
  BY <1>2, <1>3 DEF Holding, PosOK
<1>5. LogOK(disk') /\ Fresh(disk', nextLsn', held')
  BY <1>1, <1>3, <1>4, KeepsLsns
<1> QED BY <1>1, <1>2, <1>3, <1>4, <1>5, TxTyped, Stays DEF Running, Joined

LEMMA WriteOK ==
  ASSUME WInv, NEW t \in Txns, NEW op \in Ops, Write(t, op)
  PROVE  WInv'
<1> DEFINE y == [tx[t] EXCEPT !.redo = Append(tx[t].redo, op)]
<1>1. /\ up = "up" /\ up' = "up" /\ tx[t].pc = "run" /\ tx' = [tx EXCEPT ![t] = y]
      /\ disk' = disk /\ nextLsn' = nextLsn /\ clock' = clock /\ nextId' = nextId /\ active' = active
  BY DEF Write, At
<1>2. y \in TxRecords /\ y.pc = "run" /\ y.id = tx[t].id
  <2>1. op \in RedoOps
    BY DEF Ops, RedoOps
  <2>2. Append(tx[t].redo, op) \in Seq(RedoOps)
    BY <2>1, TxTyped
  <2> QED BY <1>1, <2>2, TxTyped DEF TxRecords
<1> HIDE DEF y
<1>3. OnlyTx(t) /\ tx'[t] = y
  BY <1>1, <1>2, SetsTx
<1>4. Holding(tx'[t]) = {} /\ PosOK(tx'[t])
  BY <1>2, <1>3 DEF Holding, PosOK
<1>5. LogOK(disk') /\ Fresh(disk', nextLsn', held')
  BY <1>1, <1>3, <1>4, KeepsLsns
<1> QED BY <1>1, <1>2, <1>3, <1>4, <1>5, TxTyped, Stays DEF Running, Joined

\* A transaction that leaves the manager leaves the others there.
LEMMA Leaves ==
  ASSUME WInv, up = "up", NEW t \in Txns, tx[t].pc \in Joined, active' = active \ {tx[t].id}
  PROVE  \A u \in Txns : u # t /\ tx[u].pc \in Joined => tx[u].id \in active'
<1>1. Registered /\ IdsDistinct
  BY DEF WInv
<1>2. \A u \in Txns : tx[u].pc \in Joined => Running(u)
  BY DEF Running, Joined
<1> QED BY <1>1, <1>2 DEF Registered, IdsDistinct

LEMMA OverTyped ==
  Over \in TxRecords /\ Over.pc = "done" /\ Holding(Over) = {} /\ PosOK(Over)
<1>1. Over \in TxRecords /\ Over.pc = "done"
  <2>1. NoTx \in TxRecords
    BY DEF NoTx, TxRecords, Places
  <2> HIDE DEF NoTx
  <2> QED BY <2>1 DEF Over, TxRecords, Places
<1> QED BY <1>1 DEF Holding, PosOK

LEMMA CommitFinishOK ==
  ASSUME WInv, NEW t \in Txns, CommitFinish(t)
  PROVE  WInv'
<1> DEFINE y == IF CheckpointDue THEN [tx[t] EXCEPT !.pc = "due"] ELSE Over
<1>1. /\ up = "up" /\ up' = "up" /\ tx[t].pc = "finish" /\ tx' = [tx EXCEPT ![t] = y]
      /\ disk' = disk /\ nextLsn' = nextLsn /\ clock' = clock /\ nextId' = nextId
      /\ active' = active \ {tx[t].id}
  BY DEF CommitFinish, At
<1>2. y \in TxRecords /\ (y.pc = "done" \/ (y.pc = "due" /\ y.id = tx[t].id))
  <2>1. [tx[t] EXCEPT !.pc = "due"] \in TxRecords /\ [tx[t] EXCEPT !.pc = "due"].pc = "due"
        /\ [tx[t] EXCEPT !.pc = "due"].id = tx[t].id
    BY TxTyped DEF TxRecords, Places
  <2>2. Over \in TxRecords /\ Over.pc = "done"
    BY OverTyped
  <2> QED BY <2>1, <2>2
<1> HIDE DEF y
<1>3. OnlyTx(t) /\ tx'[t] = y
  BY <1>1, <1>2, SetsTx
<1>4. Holding(tx'[t]) = {} /\ PosOK(tx'[t])
  BY <1>2, <1>3 DEF Holding, PosOK
<1>5. LogOK(disk') /\ Fresh(disk', nextLsn', held')
  BY <1>1, <1>3, <1>4, KeepsLsns
<1>6. \A u \in Txns : u # t /\ tx[u].pc \in Joined => tx[u].id \in active'
  BY <1>1, Leaves DEF Joined
<1>7. clock' \in Nat /\ nextId' \in Nat /\ nextId' >= nextId
  BY <1>1, TxTyped
<1> QED BY <1>1, <1>2, <1>3, <1>4, <1>5, <1>6, <1>7, OneStep DEF Running, Joined

LEMMA AbortFinishOK ==
  ASSUME WInv, NEW t \in Txns, AbortFinish(t)
  PROVE  WInv'
<1>1. /\ up = "up" /\ up' = "up" /\ tx[t].pc = "leave" /\ tx' = [tx EXCEPT ![t] = Over]
      /\ disk' = disk /\ nextLsn' = nextLsn /\ clock' = clock /\ nextId' = nextId
      /\ active' = active \ {tx[t].id}
  BY DEF AbortFinish, At
<1>3. OnlyTx(t) /\ tx'[t] = Over
  BY <1>1, OverTyped, SetsTx
<1>4. Holding(tx'[t]) = {} /\ PosOK(tx'[t]) /\ tx'[t].pc = "done"
  BY <1>3, OverTyped
<1>5. LogOK(disk') /\ Fresh(disk', nextLsn', held')
  BY <1>1, <1>3, <1>4, KeepsLsns
<1>6. \A u \in Txns : u # t /\ tx[u].pc \in Joined => tx[u].id \in active'
  BY <1>1, Leaves DEF Joined
<1>7. clock' \in Nat /\ nextId' \in Nat /\ nextId' >= nextId
  BY <1>1, TxTyped
<1> QED BY <1>1, <1>4, <1>3, <1>5, <1>6, <1>7, OneStep DEF Joined

LEMMA BeginRegisterOK ==
  ASSUME WInv, NEW t \in Txns, BeginRegister(t)
  PROVE  WInv'
<1> DEFINE y == [tx[t] EXCEPT !.pc = "log", !.lsn = nextLsn]
<1>1. /\ up = "up" /\ up' = "up" /\ tx[t].pc = "begin" /\ tx' = [tx EXCEPT ![t] = y]
      /\ disk' = disk /\ nextLsn' = nextLsn + 1 /\ clock' = clock /\ nextId' = nextId
      /\ active' = active \cup {tx[t].id}
  BY DEF BeginRegister, At
<1>2. y \in TxRecords /\ y.pc = "log" /\ y.id = tx[t].id /\ y.lsn = nextLsn
  BY <1>1, TxTyped DEF TxRecords, Places, Joined
<1> HIDE DEF y
<1>3. OnlyTx(t) /\ tx'[t] = y
  BY <1>1, <1>2, SetsTx
<1>4. Holding(tx'[t]) = {0} /\ LsnAt(tx'[t], 0) = nextLsn /\ PosOK(tx'[t])
  BY <1>2, <1>3 DEF Holding, PosOK, LsnAt
<1>5. LogOK(disk') /\ Fresh(disk', nextLsn', held')
  BY <1>1, <1>3, <1>4, DrawsLsn
<1>6. \A u \in Txns : tx[u].pc \in Joined => tx[u].id \in active'
  BY <1>1 DEF WInv, Registered
<1>7. clock' \in Nat /\ nextId' \in Nat /\ nextId' >= nextId /\ tx'[t].id \in active'
  BY <1>1, <1>2, <1>3, TxTyped
<1> QED BY <1>1, <1>2, <1>3, <1>4, <1>5, <1>6, <1>7, OneStep DEF Running

LEMMA AbortRestoreOK ==
  ASSUME WInv, NEW t \in Txns, AbortRestore(t)
  PROVE  WInv'
<1> DEFINE y == [tx[t] EXCEPT !.pc = "abort", !.lsn = nextLsn]
<1>1. /\ up = "up" /\ up' = "up" /\ tx[t].pc = "run" /\ tx' = [tx EXCEPT ![t] = y]
      /\ disk' = disk /\ nextLsn' = nextLsn + 1 /\ clock' = clock /\ nextId' = nextId /\ active' = active
  BY DEF AbortRestore, At
<1>2. y \in TxRecords /\ y.pc = "abort" /\ y.id = tx[t].id /\ y.lsn = nextLsn
  BY <1>1, TxTyped DEF TxRecords, Places, Joined
<1> HIDE DEF y
<1>3. OnlyTx(t) /\ tx'[t] = y
  BY <1>1, <1>2, SetsTx
<1>4. Holding(tx'[t]) = {0} /\ LsnAt(tx'[t], 0) = nextLsn /\ PosOK(tx'[t])
  BY <1>2, <1>3 DEF Holding, PosOK, LsnAt
<1>5. LogOK(disk') /\ Fresh(disk', nextLsn', held')
  BY <1>1, <1>3, <1>4, DrawsLsn
<1> QED BY <1>1, <1>2, <1>3, <1>4, <1>5, TxTyped, Stays DEF Running, Joined

LEMMA CommitDrawLsnOK ==
  ASSUME WInv, NEW t \in Txns, CommitDrawLsn(t)
  PROVE  WInv'
<1> DEFINE y == [tx[t] EXCEPT !.pc = "mark", !.lsn = nextLsn]
<1>1. /\ up = "up" /\ up' = "up" /\ tx[t].pc = "flush" /\ tx' = [tx EXCEPT ![t] = y]
      /\ disk' = disk /\ nextLsn' = nextLsn + 1 /\ clock' = clock /\ nextId' = nextId /\ active' = active
  BY DEF CommitDrawLsn, At
<1>2. y \in TxRecords /\ y.pc = "mark" /\ y.id = tx[t].id /\ y.lsn = nextLsn
  BY <1>1, TxTyped DEF TxRecords, Places, Joined
<1> HIDE DEF y
<1>3. OnlyTx(t) /\ tx'[t] = y
  BY <1>1, <1>2, SetsTx
<1>4. Holding(tx'[t]) = {0} /\ LsnAt(tx'[t], 0) = nextLsn /\ PosOK(tx'[t])
  BY <1>2, <1>3 DEF Holding, PosOK, LsnAt
<1>5. LogOK(disk') /\ Fresh(disk', nextLsn', held')
  BY <1>1, <1>3, <1>4, DrawsLsn
<1> QED BY <1>1, <1>2, <1>3, <1>4, <1>5, TxTyped, Stays DEF Running, Joined

LEMMA AssignLsnOK ==
  ASSUME WInv, NEW t \in Txns, AssignLsn(t)
  PROVE  WInv'
<1> DEFINE p == tx[t].pos
           o == [tx[t].redo[p] EXCEPT !.lsn = nextLsn]
           r == [tx[t].redo EXCEPT ![p] = o]
<1>1. /\ up = "up" /\ up' = "up" /\ tx[t].pc = "assign"
      /\ disk' = disk /\ clock' = clock /\ nextId' = nextId /\ active' = active
  BY DEF AssignLsn, At
<1>2. p \in Nat /\ p \in 1 .. Len(tx[t].redo) + 1 /\ tx[t].redo \in Seq(RedoOps) /\ nextLsn \in Nat
  BY <1>1, TxTyped DEF PosOK
<1>3. CASE p <= Len(tx[t].redo)
  <2> DEFINE y == [tx[t] EXCEPT !.redo = r, !.pos = p + 1]
  <2>1. tx' = [tx EXCEPT ![t] = y] /\ nextLsn' = nextLsn + 1
    <3>1. tx' = [tx EXCEPT ![t].redo[tx[t].pos].lsn = nextLsn, ![t].pos = @ + 1] /\ nextLsn' = nextLsn + 1
      BY <1>3 DEF AssignLsn
    <3>2. tx \in [Txns -> TxRecords]
      BY DEF WInv
    <3> QED BY <3>1, <3>2
  <2>2. r \in Seq(RedoOps) /\ Len(r) = Len(tx[t].redo) /\ r[p].lsn = nextLsn
        /\ \A i \in 1 .. Len(tx[t].redo) : i # p => r[i] = tx[t].redo[i]
    <3>1. tx[t].redo[p] \in RedoOps /\ p \in 1 .. Len(tx[t].redo) /\ p \in DOMAIN tx[t].redo
      BY <1>2, <1>3
    <3>2. o \in RedoOps /\ o.lsn = nextLsn
      BY <1>2, <3>1 DEF RedoOps
    <3> HIDE DEF o
    <3> QED BY <1>2, <3>1, <3>2
  <2> HIDE DEF r
  <2>3. y \in TxRecords /\ y.pc = "assign" /\ y.id = tx[t].id /\ y.lsn = tx[t].lsn /\ y.redo = r /\ y.pos = p + 1
    <3>1. p + 1 \in Nat
      BY <1>2
    <3> HIDE DEF p
    <3> QED BY <1>1, <2>2, <3>1, TxTyped DEF TxRecords
  <2> HIDE DEF y
  <2>4. OnlyTx(t) /\ tx'[t] = y
    BY <2>1, <2>3, SetsTx
  <2>5. Holding(tx'[t]) = 1 .. p /\ Holding(tx[t]) = 1 .. p - 1 /\ PosOK(tx'[t])
    <3>1. (p + 1) - 1 = p /\ p + 1 \in 1 .. Len(r) + 1
      <4>1. Len(r) = Len(tx[t].redo) /\ Len(tx[t].redo) \in Nat
        BY <1>2, <2>2
      <4>2. p + 1 \in 1 .. Len(tx[t].redo) + 1
        BY <1>2, <1>3, <4>1
      <4> QED BY <1>2, <4>1, <4>2
    <3>2. Holding(tx[t]) = 1 .. p - 1
      BY <1>1 DEF Holding
    <3> HIDE DEF p
    <3>3. Holding(y) = 1 .. (p + 1) - 1 /\ PosOK(y)
      BY <2>3, <3>1 DEF Holding, PosOK
    <3> QED BY <2>4, <3>1, <3>2, <3>3
  <2>6. \A i \in Holding(tx'[t]) :
           \/ i = p /\ LsnAt(tx'[t], i) = nextLsn
           \/ i \in Holding(tx[t]) /\ LsnAt(tx'[t], i) = LsnAt(tx[t], i)
    <3> SUFFICES ASSUME NEW i \in 1 .. p
                 PROVE  \/ i = p /\ LsnAt(y, i) = nextLsn
                        \/ i \in 1 .. p - 1 /\ LsnAt(y, i) = LsnAt(tx[t], i)
      BY <2>4, <2>5
    <3>1. LsnAt(y, i) = r[i].lsn /\ LsnAt(tx[t], i) = tx[t].redo[i].lsn
      BY <1>2, <2>3 DEF LsnAt
    <3> QED BY <1>2, <1>3, <2>2, <3>1
  <2>7. LogOK(disk') /\ Fresh(disk', nextLsn', held')
    BY <1>1, <2>1, <2>4, <2>6, DrawsLsn
  <2> QED BY <1>1, <2>3, <2>4, <2>5, <2>7, TxTyped, Stays DEF Running, Joined
<1>4. CASE ~ (p <= Len(tx[t].redo))
  <2> DEFINE y == [tx[t] EXCEPT !.pc = "flush", !.pos = 1]
  <2>1. tx' = [tx EXCEPT ![t] = y] /\ nextLsn' = nextLsn
    BY <1>4 DEF AssignLsn
  <2>2. y \in TxRecords /\ y.pc = "flush" /\ y.id = tx[t].id /\ y.redo = tx[t].redo /\ y.pos = 1
    BY TxTyped DEF TxRecords, Places, Joined
  <2> HIDE DEF y
  <2>3. OnlyTx(t) /\ tx'[t] = y
    BY <2>1, <2>2, SetsTx
  <2>4. p = Len(tx[t].redo) + 1 /\ Len(tx[t].redo) \in Nat
    BY <1>2, <1>4
  <2>5. Holding(tx'[t]) = 1 .. Len(tx[t].redo) /\ Holding(tx[t]) = 1 .. Len(tx[t].redo) /\ PosOK(tx'[t])
    BY <1>1, <2>2, <2>3, <2>4 DEF Holding, PosOK
  <2>6. \A i \in Holding(tx'[t]) : i \in Holding(tx[t]) /\ LsnAt(tx'[t], i) = LsnAt(tx[t], i)
    BY <2>2, <2>3, <2>4, <2>5 DEF LsnAt
  <2>7. LogOK(disk') /\ Fresh(disk', nextLsn', held')
    BY <1>1, <2>1, <2>3, <2>6, KeepsLsns
  <2> QED BY <1>1, <2>2, <2>3, <2>5, <2>7, TxTyped, Stays DEF Running, Joined
<1> QED BY <1>3, <1>4

LEMMA BeginLogOK ==
  ASSUME WInv, NEW t \in Txns, BeginLog(t)
  PROVE  WInv'
<1> DEFINE y == [tx[t] EXCEPT !.pc = "run"]
           e == Entry(t, tx[t].lsn, [name |-> "Begin", ts |-> tx[t].start])
<1>1. /\ up = "up" /\ up' = "up" /\ tx[t].pc = "log" /\ tx' = [tx EXCEPT ![t] = y] /\ append_wal(e)
      /\ nextLsn' = nextLsn /\ clock' = clock /\ nextId' = nextId /\ active' = active
  BY DEF BeginLog, At, memVars
<1>2. y \in TxRecords /\ y.pc = "run" /\ y.id = tx[t].id
  BY TxTyped DEF TxRecords, Places, Joined
<1>3. e \in Entries /\ e.lsn = tx[t].lsn
  BY TxTyped DEF Entry, Entries, Marks
<1> HIDE DEF y, e
<1>4. OnlyTx(t) /\ tx'[t] = y
  BY <1>1, <1>2, SetsTx
<1>5. Holding(tx'[t]) = {} /\ PosOK(tx'[t]) /\ 0 \in Holding(tx[t]) /\ LsnAt(tx[t], 0) = tx[t].lsn
  BY <1>1, <1>2, <1>4 DEF Holding, PosOK, LsnAt
<1>6. LogOK(disk') /\ Fresh(disk', nextLsn', held')
  BY <1>1, <1>3, <1>4, <1>5, WritesEntry
<1> QED BY <1>1, <1>2, <1>4, <1>5, <1>6, TxTyped, Stays DEF Running, Joined

LEMMA AppendDeltaOK ==
  ASSUME WInv, NEW t \in Txns, AppendDelta(t)
  PROVE  WInv'
<1> DEFINE p == tx[t].pos
           o == tx[t].redo[p]
           y == [tx[t] EXCEPT !.pos = p + 1]
           e == Entry(t, o.lsn, o)
<1>1. /\ up = "up" /\ up' = "up" /\ tx[t].pc = "flush" /\ tx' = [tx EXCEPT ![t] = y] /\ append_wal(e)
      /\ nextLsn' = nextLsn /\ clock' = clock /\ nextId' = nextId /\ active' = active /\ p <= Len(tx[t].redo)
  BY DEF AppendDelta, At, memVars
<1>2. p \in Nat /\ p \in 1 .. Len(tx[t].redo) /\ tx[t].redo \in Seq(RedoOps) /\ Len(tx[t].redo) \in Nat
  BY <1>1, TxTyped DEF PosOK
<1>3. y \in TxRecords /\ y.pc = "flush" /\ y.id = tx[t].id /\ y.redo = tx[t].redo /\ y.pos = p + 1
  <2>1. p + 1 \in Nat
    BY <1>2
  <2> HIDE DEF p
  <2> QED BY <1>1, <2>1, TxTyped DEF TxRecords
<1>4. e \in Entries /\ e.lsn = o.lsn
  <2>1. o \in RedoOps
    BY <1>2
  <2> HIDE DEF o
  <2>2. o.lsn \in Nat
    BY <2>1 DEF RedoOps
  <2> QED BY <2>1, <2>2, TxTyped DEF Entry, Entries
<1> HIDE DEF y, e
<1>5. OnlyTx(t) /\ tx'[t] = y
  BY <1>1, <1>3, SetsTx
<1>6. Holding(tx'[t]) = p + 1 .. Len(tx[t].redo) /\ Holding(tx[t]) = p .. Len(tx[t].redo) /\ PosOK(tx'[t])
  <2>1. p + 1 \in 1 .. Len(tx[t].redo) + 1
    BY <1>2
  <2>2. Holding(tx[t]) = p .. Len(tx[t].redo)
    BY <1>1 DEF Holding
  <2> HIDE DEF p
  <2>3. Holding(y) = p + 1 .. Len(tx[t].redo) /\ PosOK(y)
    BY <1>3, <2>1 DEF Holding, PosOK
  <2> QED BY <1>5, <2>2, <2>3
<1>7. p \in Holding(tx[t]) /\ LsnAt(tx[t], p) = e.lsn
  BY <1>2, <1>4, <1>6 DEF LsnAt
<1>8. \A i \in Holding(tx'[t]) : i # p /\ i \in Holding(tx[t]) /\ LsnAt(tx'[t], i) = LsnAt(tx[t], i)
  <2>1. \A i \in p + 1 .. Len(tx[t].redo) : i # p /\ i \in p .. Len(tx[t].redo) /\ i # 0
    BY <1>2
  <2>2. \A i : i # 0 => LsnAt(y, i) = LsnAt(tx[t], i)
    BY <1>3 DEF LsnAt
  <2> QED BY <1>5, <1>6, <2>1, <2>2
<1>9. LogOK(disk') /\ Fresh(disk', nextLsn', held')
  BY <1>1, <1>4, <1>5, <1>7, <1>8, WritesEntry
<1> QED BY <1>1, <1>3, <1>5, <1>6, <1>9, TxTyped, Stays DEF Running, Joined

LEMMA AppendCommitOK ==
  ASSUME WInv, NEW t \in Txns, AppendCommit(t)
  PROVE  WInv'
<1> DEFINE y == [tx[t] EXCEPT !.pc = "finish"]
           e == Entry(t, tx[t].lsn, [name |-> "Commit", ts |-> tx[t].cts])
<1>1. /\ up = "up" /\ up' = "up" /\ tx[t].pc = "mark" /\ tx' = [tx EXCEPT ![t] = y] /\ append_wal(e)
      /\ nextLsn' = nextLsn /\ clock' = clock /\ nextId' = nextId /\ active' = active
  BY DEF AppendCommit, At
<1>2. y \in TxRecords /\ y.pc = "finish" /\ y.id = tx[t].id
  BY TxTyped DEF TxRecords, Places, Joined
<1>3. e \in Entries /\ e.lsn = tx[t].lsn
  BY TxTyped DEF Entry, Entries, Marks
<1> HIDE DEF y, e
<1>4. OnlyTx(t) /\ tx'[t] = y
  BY <1>1, <1>2, SetsTx
<1>5. Holding(tx'[t]) = {} /\ PosOK(tx'[t]) /\ 0 \in Holding(tx[t]) /\ LsnAt(tx[t], 0) = tx[t].lsn
  BY <1>1, <1>2, <1>4 DEF Holding, PosOK, LsnAt
<1>6. LogOK(disk') /\ Fresh(disk', nextLsn', held')
  BY <1>1, <1>3, <1>4, <1>5, WritesEntry
<1> QED BY <1>1, <1>2, <1>4, <1>5, <1>6, TxTyped, Stays DEF Running, Joined

LEMMA AbortLogOK ==
  ASSUME WInv, NEW t \in Txns, AbortLog(t)
  PROVE  WInv'
<1> DEFINE y == [tx[t] EXCEPT !.pc = "leave"]
           e == Entry(t, tx[t].lsn, [name |-> "Abort", ts |-> 0])
<1>1. /\ up = "up" /\ up' = "up" /\ tx[t].pc = "abort" /\ tx' = [tx EXCEPT ![t] = y] /\ append_wal(e)
      /\ nextLsn' = nextLsn /\ clock' = clock /\ nextId' = nextId /\ active' = active
  BY DEF AbortLog, At, memVars
<1>2. y \in TxRecords /\ y.pc = "leave" /\ y.id = tx[t].id
  BY TxTyped DEF TxRecords, Places, Joined
<1>3. e \in Entries /\ e.lsn = tx[t].lsn
  BY TxTyped DEF Entry, Entries, Marks
<1> HIDE DEF y, e
<1>4. OnlyTx(t) /\ tx'[t] = y
  BY <1>1, <1>2, SetsTx
<1>5. Holding(tx'[t]) = {} /\ PosOK(tx'[t]) /\ 0 \in Holding(tx[t]) /\ LsnAt(tx[t], 0) = tx[t].lsn
  BY <1>1, <1>2, <1>4 DEF Holding, PosOK, LsnAt
<1>6. LogOK(disk') /\ Fresh(disk', nextLsn', held')
  BY <1>1, <1>3, <1>4, <1>5, WritesEntry
<1> QED BY <1>1, <1>2, <1>4, <1>5, <1>6, TxTyped, Stays DEF Running, Joined

\* The manager is empty, so nobody holds an LSN: the checkpoint is behind all.
LEMMA WriteCheckpointOK ==
  ASSUME WInv, NEW t \in Txns, WriteCheckpoint(t)
  PROVE  WInv'
<1> DEFINE y == [tx[t] EXCEPT !.pc = "truncate"]
<1>1. /\ up = "up" /\ up' = "up" /\ tx[t].pc = "drain" /\ tx' = [tx EXCEPT ![t] = y] /\ active = {}
      /\ nextLsn' = nextLsn /\ clock' = clock /\ nextId' = nextId /\ active' = active
      /\ disk' = [ckpt |-> GraphCheckpoint, wal |-> <<>>]
  BY DEF WriteCheckpoint, At, memVars, Drained
<1>2. y \in TxRecords /\ y.pc = "truncate" /\ y.id = tx[t].id
  BY TxTyped DEF TxRecords, Places, Joined
<1> HIDE DEF y
<1>3. OnlyTx(t) /\ tx'[t] = y
  BY <1>1, <1>2, SetsTx
<1>4. PosOK(tx'[t]) /\ Holding(tx'[t]) = {}
  BY <1>2, <1>3 DEF PosOK, Holding
<1>5. \A u \in Txns : tx[u].pc \notin Joined
  BY <1>1 DEF WInv, Registered
<1>6. \A u \in Txns : Holding(tx[u]) = {}
  BY <1>5 DEF Holding, Joined
<1>7. \A u \in Txns : DOMAIN held'[u] = {}
  <2> SUFFICES ASSUME NEW u \in Txns PROVE DOMAIN held'[u] = {}
    OBVIOUS
  <2>1. CASE u = t
    BY <1>4, <2>1, HeldEach
  <2>2. CASE u # t
    BY <1>3, <1>6, <2>2, HeldEach, HeldOthers
  <2> QED BY <2>1, <2>2
<1> DEFINE g == held'
           c == [ckpt |-> GraphCheckpoint, wal |-> <<>>]
<1>8. DOMAIN c = {"ckpt", "wal"} /\ c.ckpt.lsn = nextLsn /\ c.wal = <<>>
  BY DEF GraphCheckpoint
<1>9. \A u \in Txns : \A i \in DOMAIN g[u] : i \in DOMAIN held[u] /\ g[u][i] = held[u][i]
  BY <1>7
<1>10. \A u \in Txns : DOMAIN g[u] = {}
  BY <1>7
<1> HIDE DEF g, c
<1>11. LogOK(disk) /\ Fresh(disk, nextLsn, held)
  BY <1>1 DEF WInv
<1>12. Fresh(disk, nextLsn, g)
  BY <1>9, <1>11, FreshShrink
<1>13. LogOK(c) /\ Fresh(c, nextLsn, g)
  BY <1>8, <1>10, <1>11, <1>12, FreshCheckpoint
<1>14. LogOK(disk') /\ Fresh(disk', nextLsn', held')
  BY <1>1, <1>13 DEF c, g
<1> QED BY <1>1, <1>2, <1>3, <1>4, <1>14, TxTyped, Stays DEF Running, Joined

\* A checkpoint has started the log anew, so there is nothing to truncate.
LEMMA TruncateWalOK ==
  ASSUME WInv, NEW t \in Txns, TruncateWal(t)
  PROVE  WInv'
<1>1. /\ up = "up" /\ up' = "up" /\ tx[t].pc = "truncate" /\ tx' = [tx EXCEPT ![t] = Over]
      /\ nextLsn' = nextLsn /\ clock' = clock /\ nextId' = nextId /\ active' = active
      /\ disk' = [disk EXCEPT !.wal = truncate_wal_until(disk.wal, disk.ckpt.lsn)]
  BY DEF TruncateWal, At
<1>2. LogOK(disk) /\ NotCovered(disk) /\ Fresh(disk, nextLsn, held)
  BY <1>1 DEF WInv
<1>3. truncate_wal_until(disk.wal, disk.ckpt.lsn) = disk.wal
  BY <1>2 DEF NotCovered, truncate_wal_until
<1> DEFINE c == disk'
<1>4. c.ckpt = disk.ckpt /\ c.wal = disk.wal /\ DOMAIN c = DOMAIN disk
  BY <1>1, <1>2, <1>3 DEF LogOK
<1>5. OnlyTx(t) /\ tx'[t] = Over
  BY <1>1, OverTyped, SetsTx
<1>6. Holding(tx'[t]) = {} /\ PosOK(tx'[t]) /\ tx'[t].pc = "done"
  BY <1>5, OverTyped
<1> DEFINE g == held'
<1>7. \A u \in Txns : \A i \in DOMAIN g[u] : i \in DOMAIN held[u] /\ g[u][i] = held[u][i]
  <2> SUFFICES ASSUME NEW u \in Txns, NEW i \in DOMAIN held'[u]
               PROVE  i \in DOMAIN held[u] /\ held'[u][i] = held[u][i]
    OBVIOUS
  <2>1. CASE u = t
    BY <1>6, <2>1, HeldEach
  <2>2. CASE u # t
    BY <1>5, <2>2, HeldOthers
  <2> QED BY <2>1, <2>2
<1> HIDE DEF g, c
<1>8. Fresh(disk, nextLsn, g)
  BY <1>2, <1>7, FreshShrink
<1>9. LogOK(c) /\ Fresh(c, nextLsn, g)
  BY <1>2, <1>4, <1>8 DEF LogOK, Fresh, Once, NotCovered, Behind, Reserved, Unshared
<1>10. LogOK(disk') /\ Fresh(disk', nextLsn', held')
  BY <1>1, <1>9 DEF c, g
<1> QED BY <1>1, <1>5, <1>6, <1>10, TxTyped, Stays DEF Running, Joined

\* A crash leaves nobody running; the file is untouched.
LEMMA CrashOK ==
  ASSUME WInv, Crash
  PROVE  WInv'
<1>1. /\ up' = "down" /\ clock' = 1 /\ nextId' = TXN_ID_START + 1 /\ disk' = disk
      /\ tx' = [t \in Txns |-> IF Running(t) THEN Over ELSE tx[t]]
  BY DEF Crash
<1>2. tx \in [Txns -> TxRecords] /\ LogOK(disk) /\ Once(disk) /\ NotCovered(disk)
  BY DEF WInv
<1>3. clock' \in Nat /\ nextId' \in Nat
  BY <1>1, ConstantFacts
<1>4. tx' \in [Txns -> TxRecords] /\ \A t \in Txns : tx'[t].pc \in {"idle", "done"}
  <2>1. \A t \in Txns : tx'[t] \in TxRecords /\ tx'[t].pc \in {"idle", "done"}
    <3> SUFFICES ASSUME NEW t \in Txns PROVE tx'[t] \in TxRecords /\ tx'[t].pc \in {"idle", "done"}
      OBVIOUS
    <3>1. CASE Running(t)
      BY <1>1, <3>1, OverTyped
    <3>2. CASE ~Running(t)
      BY <1>1, <1>2, <3>2 DEF Running
    <3> QED BY <3>1, <3>2
  <2>2. tx' = [t \in Txns |-> tx'[t]]
    BY <1>1
  <2> QED BY <2>1, <2>2
<1>5. LogOK(disk') /\ Once(disk') /\ NotCovered(disk')
  BY <1>1, <1>2
<1>6. \A t \in Txns : ~Running(t)'
  BY <1>4 DEF Running
<1> QED BY <1>1, <1>3, <1>4, <1>5, <1>6 DEF WInv, LogOK, Once, NotCovered

\* Recovery finds the next LSN from the file alone.
LEMMA RecoverOK ==
  ASSUME WInv, Recover
  PROVE  WInv'
<1> DEFINE r == Recovery(disk)
<1>1. /\ up = "down" /\ up' = (IF r.ok THEN "up" ELSE "failed") /\ clock' = r.clock /\ nextId' = r.nextId
      /\ nextLsn' = r.lsn /\ disk' = disk /\ tx' = tx
  BY DEF Recover
<1>2. tx \in [Txns -> TxRecords] /\ LogOK(disk) /\ Once(disk) /\ NotCovered(disk) /\ \A t \in Txns : ~Running(t)
  BY <1>1 DEF WInv
<1>3. r.clock \in Nat /\ r.nextId \in Nat /\ (r.ok => Behind(disk, r.lsn))
  BY <1>2, RecoveredLsn
<1> HIDE DEF r
<1>4. \A t \in Txns : tx'[t].pc \in {"idle", "done"} /\ ~Running(t)'
  BY <1>1, <1>2 DEF Running
<1>5. \A t \in Txns : Holding(tx'[t]) = {}
  BY <1>4 DEF Holding
<1>6. \A t \in Txns : DOMAIN held'[t] = {}
  BY <1>5, HeldEach
<1> DEFINE g == held'
<1>7. \A t \in Txns : DOMAIN g[t] = {}
  BY <1>6
<1> HIDE DEF g
<1>8. ASSUME r.ok PROVE Fresh(disk, r.lsn, g)
  BY <1>2, <1>3, <1>7, <1>8 DEF Fresh, Reserved, Unshared
<1>9. up' = "up" => Fresh(disk', nextLsn', held')
  BY <1>1, <1>8 DEF g
<1>10. Registered' /\ IdsDistinct'
  BY <1>4 DEF Registered, IdsDistinct, Joined, Running
<1>11. LogOK(disk') /\ Once(disk') /\ NotCovered(disk') /\ clock' \in Nat /\ nextId' \in Nat /\ tx' \in [Txns -> TxRecords]
  BY <1>1, <1>2, <1>3
<1> QED BY <1>4, <1>9, <1>10, <1>11 DEF WInv, LogOK, Once, NotCovered, Fresh, Behind, Reserved, Unshared

LEMMA WInvInit ==
  Init => WInv
<1> SUFFICES ASSUME Init PROVE WInv
  OBVIOUS
<1>1. /\ up = "up" /\ clock = 1 /\ nextId = TXN_ID_START + 1 /\ nextLsn = 1 /\ tx = [t \in Txns |-> NoTx]
      /\ disk = [ckpt |-> [lsn |-> 0, latest |-> 0, cells |-> cells], wal |-> <<>>]
  BY DEF Init
<1>2. NoTx \in TxRecords /\ NoTx.pc = "idle"
  BY DEF NoTx, TxRecords, Places
<1>3. tx \in [Txns -> TxRecords] /\ \A t \in Txns : tx[t].pc = "idle"
  BY <1>1, <1>2
<1>4. clock \in Nat /\ nextId \in Nat /\ nextLsn \in Nat
  BY <1>1, ConstantFacts
<1>5. LogOK(disk) /\ Once(disk) /\ NotCovered(disk) /\ Behind(disk, nextLsn)
  BY <1>1, <1>4 DEF LogOK, Once, NotCovered, Behind
<1>6. \A t \in Txns : Holding(tx[t]) = {}
  BY <1>3 DEF Holding
<1>7. \A t \in Txns : DOMAIN held[t] = {}
  BY <1>6, HeldEach
<1>8. Fresh(disk, nextLsn, held)
  BY <1>5, <1>7 DEF Fresh, Reserved, Unshared
<1>9. Registered /\ IdsDistinct
  BY <1>3 DEF Registered, IdsDistinct, Joined, Running
<1> QED BY <1>1, <1>3, <1>4, <1>5, <1>8, <1>9 DEF WInv

LEMMA WInvStep ==
  WInv /\ [Next]_vars => WInv'
<1> SUFFICES ASSUME WInv, [Next]_vars PROVE WInv'
  OBVIOUS
<1>1. ASSUME NEW t \in Txns, Step(t) PROVE WInv'
  BY <1>1, BeginRegisterOK, BeginLogOK, CommitPromoteOK, AssignLsnOK, AppendDeltaOK, CommitDrawLsnOK,
     AppendCommitOK, CommitFinishOK, AbortLogOK, AbortFinishOK, CheckpointLockOK, WriteCheckpointOK,
     TruncateWalOK DEF Step
<1>2. ASSUME NEW t \in Txns, Call(t) PROVE WInv'
  BY <1>2, BeginDrawOK, CommitDrawTsOK, AbortRestoreOK, WriteOK DEF Call
<1>3. CASE UNCHANGED vars
  <2>1. up' = up /\ disk' = disk /\ tx' = tx /\ clock' = clock /\ nextId' = nextId /\ nextLsn' = nextLsn /\ active' = active
    BY <1>3 DEF vars
  <2>2. held' = held
    BY <2>1 DEF held, Held, Holding, LsnAt
  <2>3. up' = "up" => Fresh(disk', nextLsn', held')
    BY <2>1, <2>2 DEF WInv
  <2>4. up' = "up" => Registered' /\ IdsDistinct'
    BY <2>1 DEF WInv, Registered, IdsDistinct, Running
  <2>5. LogOK(disk') /\ Once(disk') /\ NotCovered(disk')
    BY <2>1 DEF WInv
  <2>6. up' # "up" => \A t \in Txns : ~Running(t)'
    BY <2>1 DEF WInv, Running
  <2>7. /\ tx' \in [Txns -> TxRecords] /\ clock' \in Nat /\ nextId' \in Nat
        /\ \A t \in Txns : tx'[t].pc \in {"assign", "flush"} => tx'[t].pos \in 1 .. Len(tx'[t].redo) + 1
    BY <2>1 DEF WInv
  <2> QED BY <2>3, <2>4, <2>5, <2>6, <2>7 DEF WInv, LogOK, Once, NotCovered, Fresh, Behind, Reserved, Unshared
<1> QED BY <1>1, <1>2, <1>3, CrashOK, RecoverOK DEF Next

-----------------------------------------------------------------------------
(* The theorems.                                                             *)

\* Between drawing an LSN and writing its entry nobody else writes that LSN,
\* a checkpoint finds none of them in flight, and a restart draws behind
\* everything the file holds (next_lsn, set_next_lsn, create_checkpoint).
THEOREM LsnsReserved == Spec => []WInv
  BY WInvInit, WInvStep, PTL DEF Spec

\* For every number of transactions, crashes and checkpoints: no two entries
\* of the log share an LSN, and none is older than the checkpoint in front of
\* it (append_wal, truncate_wal_until, MemoryGraph::recover).
THEOREM LsnsNeverReused == Spec => []LsnsFresh
<1>1. WInv => LsnsFresh
  BY DEF WInv, Once, NotCovered, LsnsFresh
<1> QED BY <1>1, LsnsReserved, PTL

-----------------------------------------------------------------------------
(* Crash safety, for clients that do not overlap and do not write records    *)
(* they cannot see.                                                          *)

\* What recovery would find now.
Rec == Recovery(disk)

CellRecords == [data : Data, cts : Nat, base : [data : Data, cts : Nat]]
KeysOf(x) == {x.redo[i].key : i \in DOMAIN x.redo}

\* Places from the first write to the commit entry: the records carry the id of
\* the transaction, and then its commit timestamp.
Unpromoted == {"run", "commit"}
Promoting == {"assign", "flush", "mark"}
Writing == Unpromoted \cup Promoting
\* Redo entries that are not on the log yet.
Pending(x) == IF x.pc = "mark" THEN {}
              ELSE IF x.pc = "flush" THEN x.pos .. Len(x.redo)
              ELSE DOMAIN x.redo
\* The records that the running transaction has written.
Mine(x) == IF x.pc \in Writing THEN KeysOf(x) ELSE {}

\* A record in memory and the one recovery finds; a create that was rolled back
\* in memory has never been on the log.
Agree(c, d) ==
    /\ c.cts = d.cts
    /\ c.data = d.data \/ (c.data = "tomb" /\ d.data = "none")
    /\ is_txn_id(c.cts) => c.base = d.base

\* A logged write will be accepted when it is replayed on c.
Replayable(op, c, id, start) == ~is_txn_id(c.cts) /\ c.data # "tomb" /\ Accepts(c, op, id, start)
\* The write as it stands in memory, over what was promised before.
Effect(op, c, p) ==
    /\ op.name \in {"create", "set"} => c.data = op.val /\ op.val \in Vals
    /\ op.name = "set" => p # "none"
    /\ op.name = "del" => c.data = "tomb"

\* A record marked with an id belongs to a registered transaction.
MarksIn(cs, act, n) ==
    \A k \in Keys : is_txn_id(cs[k].cts) => cs[k].cts \in act /\ cs[k].cts < n /\ cs[k].data # "none"

\* Recovery succeeds and shows what was promised.
RecOK(r, pr) ==
    /\ ReplayState(r) /\ r.ok /\ r.cells \in [Keys -> CellRecords]
    /\ \A k \in Keys : Visible(r.cells[k]) = pr[k]
    /\ MarksIn(r.cells, r.active, r.nextId)
    /\ r.nextId > TXN_ID_START
    /\ r.cur # 0 => r.cur \in r.active /\ r.cur < r.nextId

\* The i-th write of x, in memory and on the log.
WriteKept(x, i, r, cs, pr) ==
    LET op == x.redo[i]
        c == cs[op.key]
        d == r.cells[op.key]
    IN  /\ Effect(op, c, pr[op.key])
        /\ c.cts = IF x.pc \in Unpromoted THEN x.id ELSE x.cts
        /\ x.pc \in Unpromoted => c.base = [data |-> d.data, cts |-> d.cts]
        /\ i \in Pending(x) => Replayable(op, d, x.id, x.start)
        /\ i \notin Pending(x) => d.cts = x.id /\ d.data = c.data
Apart(x) == \A i, j \in DOMAIN x.redo : i # j => x.redo[i].key # x.redo[j].key
RedoOK(x, r, cs, pr) == Apart(x) /\ \A i \in DOMAIN x.redo : WriteKept(x, i, r, cs, pr)

\* Replay is in the transaction that runs.
Current(x, r) ==
    /\ x.pc \notin {"idle", "done"} =>
         x.id > TXN_ID_START /\ \A k \in Keys \ Mine(x) : r.cells[k].cts # x.id
    /\ x.pc \in Writing \cup {"abort"} => r.cur = x.id
    /\ x.pc \in Writing => r.start = x.start
    /\ x.pc \in Promoting => ~is_txn_id(x.cts)
    /\ x.pc \in {"begin", "log"} => x.redo = <<>>

\* Memory is what recovery finds, but for the writes of the running transaction x.
Consistent(x, r, cs, pr, act, n) ==
    /\ RecOK(r, pr)
    /\ cs \in [Keys -> CellRecords] /\ MarksIn(cs, act, n) /\ n \in Nat /\ r.nextId <= n
    /\ Current(x, r)
    /\ x.pc \in Writing => RedoOK(x, r, cs, pr)
    /\ \A k \in Keys \ Mine(x) : Agree(cs[k], r.cells[k])

RunnerIn(X) ==
    IF \A t \in Txns : X[t].pc \in {"idle", "done"} THEN Over
    ELSE X[CHOOSE t \in Txns : X[t].pc \notin {"idle", "done"}]
Runner == RunnerIn(tx)

\* Timestamps stay below the transaction ids: two for every transaction.
Early(n) == \A u \in Txns : tx[u].pc = "idle" => n <= 2 * u - 1
InTime(t) ==
    /\ tx[t].start < clock
    /\ tx[t].pc \in {"begin", "log", "run"} => clock <= 2 * t
    /\ tx[t].pc = "commit" \/ tx[t].pc \in Promoting => tx[t].cts < clock /\ ~is_txn_id(tx[t].cts)

\* Without overlap the log is written in the order of the LSNs.
Rising(wal) == \A i, j \in DOMAIN wal : i < j => wal[i].lsn < wal[j].lsn
Ahead(x, wal) ==
    /\ \A i \in Holding(x) : \A j \in DOMAIN wal : wal[j].lsn < LsnAt(x, i)
    /\ \A i, j \in Holding(x) : i < j => LsnAt(x, i) < LsnAt(x, j)

OneByOne ==
    /\ \A t, u \in Txns : Running(t) /\ Running(u) => t = u
    /\ \A t, u \in Txns : tx[t].pc # "idle" /\ tx[u].pc = "idle" => t < u
    /\ \A t \in Txns : tx[t].pc = "idle" => tx[t].redo = <<>>

CInv ==
    /\ RecOK(Rec, promise) /\ Early(Rec.clock)
    /\ Rising(disk.wal)
    /\ OneByOne
    /\ up = "up" => /\ Consistent(Runner, Rec, cells, promise, active, nextId)
                    /\ Early(clock)
                    /\ \A t \in Txns : Running(t) => InTime(t) /\ Ahead(tx[t], disk.wal)

-----------------------------------------------------------------------------
(* Recovery of a log that has grown by one entry.                            *)

LEMMA SortedAsWritten ==
  ASSUME NEW w \in Seq(Entries), Rising(w)
  PROVE  SortedByLsn(w) = w
<1> DEFINE N == Len(w)
<1>1. N \in Nat /\ DOMAIN w = 1 .. N /\ \A i \in 1 .. N : w[i] \in Entries
  OBVIOUS
<1>2. \A i \in 1 .. N : w[i].lsn \in Nat
  BY <1>1 DEF Entries
<1>3. ASSUME NEW i \in 1 .. N PROVE Before(w, i) = 1 .. i - 1
  <2>1. \A j \in 1 .. N : j < i => w[j].lsn < w[i].lsn
    BY <1>1 DEF Rising
  <2>2. \A j \in 1 .. N : i < j => w[i].lsn < w[j].lsn
    BY <1>1 DEF Rising
  <2>3. \A j \in 1 .. N : (w[j].lsn < w[i].lsn \/ (w[j].lsn = w[i].lsn /\ j < i)) <=> j < i
    BY <1>1, <1>2, <2>1, <2>2
  <2>4. Before(w, i) = {j \in 1 .. N : j < i}
    BY <1>1, <2>3 DEF Before
  <2> HIDE DEF N
  <2> QED BY <1>1, <2>4
<1>4. ASSUME NEW i \in 1 .. N PROVE Cardinality(Before(w, i)) = i - 1
  <2>1. i - 1 \in Nat
    BY <1>1
  <2>2. Cardinality(1 .. i - 1) = i - 1
    BY <2>1, FS_Interval
  <2> QED BY <1>3, <2>2
<1>5. ASSUME NEW n \in 1 .. N PROVE SortedByLsn(w)[n] = w[n]
  <2> DEFINE P(i) == i \in 1 .. N /\ Cardinality(Before(w, i)) = n - 1
             m == CHOOSE i \in 1 .. N : Cardinality(Before(w, i)) = n - 1
  <2>1. \A i \in 1 .. N : Cardinality(Before(w, i)) = n - 1 => i = n
    BY <1>1, <1>4
  <2>2. n \in 1 .. N /\ Cardinality(Before(w, n)) = n - 1
    BY <1>4
  <2>3. m = n
    BY <2>1, <2>2
  <2>4. SortedByLsn(w)[n] = w[m]
    BY <1>1 DEF SortedByLsn
  <2> QED BY <2>3, <2>4
<1>6. DOMAIN SortedByLsn(w) = 1 .. N /\ SortedByLsn(w) = [n \in 1 .. N |-> SortedByLsn(w)[n]]
  BY <1>1 DEF SortedByLsn
<1>7. w = [n \in 1 .. N |-> w[n]]
  BY <1>1
<1> QED BY <1>5, <1>6, <1>7

\* The first entries of a longer log are replayed as before.
LEMMA ReplayedFirst ==
  ASSUME NEW w \in Seq(Entries), NEW c, NEW e \in Entries
  PROVE  Replayed(c, Append(w, e))[Len(w) + 1] = ReplayEntry(Replayed(c, w)[Len(w)], e)
<1> DEFINE N == Len(w)
           v == Append(w, e)
           p == Replayed(c, w)
           q == Replayed(c, v)
           Same == {n \in Nat : n <= N => q[n] = p[n]}
<1>1. N \in Nat /\ Len(v) = N + 1 /\ v[N + 1] = e /\ \A n \in 1 .. N : v[n] = w[n]
  OBVIOUS
<1>2. p[0] = restore(c) /\ \A n \in 1 .. N : p[n] = ReplayEntry(p[n - 1], w[n])
  BY <1>1, ReplayedSteps
<1>3. q[0] = restore(c) /\ \A n \in 1 .. N + 1 : q[n] = ReplayEntry(q[n - 1], v[n])
  <2> HIDE DEF v
  <2> QED BY <1>1, ReplayedSteps
<1> HIDE DEF p, q, N, v
<1>4. 0 \in Same
  BY <1>2, <1>3
<1>5. ASSUME NEW n \in Nat, n \in Same PROVE n + 1 \in Same
  <2> SUFFICES ASSUME n + 1 <= N PROVE q[n + 1] = p[n + 1]
    OBVIOUS
  <2>1. n + 1 \in 1 .. N /\ n + 1 \in 1 .. N + 1 /\ (n + 1) - 1 = n /\ n <= N
    BY <1>1
  <2>2. q[n] = p[n] /\ v[n + 1] = w[n + 1]
    BY <1>1, <1>5, <2>1
  <2>3. q[n + 1] = ReplayEntry(q[n], v[n + 1]) /\ p[n + 1] = ReplayEntry(p[n], w[n + 1])
    BY <1>2, <1>3, <2>1
  <2> QED BY <2>2, <2>3
<1>6. Nat \subseteq Same
  <2> HIDE DEF Same
  <2> QED BY <1>4, <1>5, SetInduction
<1>7. q[N] = p[N]
  BY <1>1, <1>6
<1>8. N + 1 \in 1 .. N + 1 /\ (N + 1) - 1 = N
  BY <1>1
<1>9. q[N + 1] = ReplayEntry(q[N], v[N + 1])
  BY <1>3, <1>8
<1>10. q[N + 1] = ReplayEntry(p[N], e)
  BY <1>1, <1>7, <1>9
<1> QED BY <1>10 DEF p, q, N, v

LEMMA RecoveryAppends ==
  ASSUME NEW d, LogOK(d), Rising(d.wal), NEW e \in Entries, \A j \in DOMAIN d.wal : d.wal[j].lsn < e.lsn,
         NEW c, c.ckpt = d.ckpt, c.wal = Append(d.wal, e)
  PROVE  Recovery(c) = ReplayEntry(Recovery(d), e) /\ Rising(c.wal)
<1> DEFINE w == d.wal
           v == Append(w, e)
<1>1. w \in Seq(Entries)
  BY DEF LogOK
<1>2. v \in Seq(Entries) /\ Len(v) = Len(w) + 1 /\ Len(w) \in Nat
  BY <1>1
<1>3. Rising(v)
  <2> SUFFICES ASSUME NEW i \in DOMAIN v, NEW j \in DOMAIN v, i < j PROVE v[i].lsn < v[j].lsn
    BY DEF Rising
  <2>1. DOMAIN v = 1 .. Len(w) + 1 /\ v[Len(w) + 1] = e /\ DOMAIN w = 1 .. Len(w) /\ \A n \in 1 .. Len(w) : v[n] = w[n]
    BY <1>1
  <2>2. i \in 1 .. Len(w) /\ v[i] = w[i]
    BY <1>2, <2>1
  <2>3. CASE j = Len(w) + 1
    BY <2>1, <2>2, <2>3
  <2>4. CASE j # Len(w) + 1
    <3>1. j \in 1 .. Len(w) /\ v[j] = w[j]
      BY <1>2, <2>1, <2>4
    <3> QED BY <2>1, <2>2, <3>1 DEF Rising
  <2> QED BY <2>3, <2>4
<1>4. SortedByLsn(w) = w /\ SortedByLsn(v) = v
  BY <1>1, <1>2, <1>3, SortedAsWritten
<1>5. Recovery(d) = Replayed(d.ckpt, w)[Len(w)] /\ Recovery(c) = Replayed(d.ckpt, v)[Len(w) + 1]
  BY <1>2, <1>4 DEF Recovery
<1> QED BY <1>1, <1>3, <1>5, ReplayedFirst

LEMMA RecoveryRestores ==
  ASSUME NEW c, c.wal = <<>>
  PROVE  Recovery(c) = restore(c.ckpt) /\ Rising(c.wal)
<1>1. <<>> \in Seq(Entries) /\ Len(<<>>) = 0 /\ Rising(<<>>)
  BY DEF Rising
<1>2. SortedByLsn(c.wal) = <<>>
  BY <1>1, SortedAsWritten
<1>3. Recovery(c) = Replayed(c.ckpt, <<>>)[0]
  BY <1>1, <1>2 DEF Recovery
<1>4. Replayed(c.ckpt, <<>>)[0] = restore(c.ckpt)
  BY <1>1, ReplayedSteps
<1> QED BY <1>1, <1>3, <1>4

-----------------------------------------------------------------------------
(* One entry replayed.                                                       *)

LEMMA ReplaysBegin ==
  ASSUME NEW s, ReplayState(s), s.ok, NEW e \in Entries, e.op.name = "Begin", NEW r, r = ReplayEntry(s, e)
  PROVE  /\ ReplayState(r) /\ r.ok /\ r.cells = s.cells /\ r.cur = e.id /\ r.start = e.op.ts
         /\ r.active = s.active \cup {e.id}
         /\ r.nextId = AtLeast(e.id + 1, s.nextId) /\ r.clock = AtLeast(e.op.ts + 1, s.clock)
<1> DEFINE next == [s EXCEPT !.lsn = e.lsn + 1]
           begun == [next EXCEPT !.cur = e.id, !.start = e.op.ts, !.active = @ \cup {e.id},
                                 !.nextId = AtLeast(e.id + 1, @), !.clock = AtLeast(e.op.ts + 1, @)]
<1>1. r = begun
  BY DEF ReplayEntry
<1>2. ReplayState(r)
  BY ReplayEntryOK
<1>3. DOMAIN s = StateFields
  BY DEF ReplayState
<1> QED BY <1>1, <1>2, <1>3 DEF StateFields

LEMMA ReplaysCommit ==
  ASSUME NEW s, ReplayState(s), s.ok, s.cur # 0, NEW e \in Entries, e.op.name = "Commit",
         NEW r, r = ReplayEntry(s, e)
  PROVE  /\ ReplayState(r) /\ r.ok /\ r.cells = Promoted(s.cells, s.cur, e.op.ts) /\ r.cur = 0
         /\ r.active = s.active \ {s.cur}
         /\ r.nextId = s.nextId /\ r.clock = AtLeast(e.op.ts + 1, s.clock)
<1> DEFINE next == [s EXCEPT !.lsn = e.lsn + 1]
           none == [next EXCEPT !.cur = 0]
           committed == [none EXCEPT !.cells = Promoted(s.cells, s.cur, e.op.ts), !.active = @ \ {s.cur},
                                     !.clock = AtLeast(e.op.ts + 1, @), !.latest = e.op.ts]
<1>1. r = committed
  BY DEF ReplayEntry
<1>2. ReplayState(r)
  BY ReplayEntryOK
<1>3. DOMAIN s = StateFields
  BY DEF ReplayState
<1> QED BY <1>1, <1>2, <1>3 DEF StateFields

LEMMA ReplaysAbort ==
  ASSUME NEW s, ReplayState(s), s.ok, s.cur # 0, NEW e \in Entries, e.op.name = "Abort",
         NEW r, r = ReplayEntry(s, e)
  PROVE  /\ ReplayState(r) /\ r.ok /\ r.cells = Restored(s.cells, s.cur) /\ r.cur = 0
         /\ r.active = s.active \ {s.cur}
         /\ r.nextId = s.nextId /\ r.clock = s.clock
<1> DEFINE next == [s EXCEPT !.lsn = e.lsn + 1]
           none == [next EXCEPT !.cur = 0]
           aborted == [none EXCEPT !.cells = Restored(s.cells, s.cur), !.active = @ \ {s.cur}]
<1>1. r = aborted
  BY DEF ReplayEntry
<1>2. ReplayState(r)
  BY ReplayEntryOK
<1>3. DOMAIN s = StateFields
  BY DEF ReplayState
<1> QED BY <1>1, <1>2, <1>3 DEF StateFields

LEMMA ReplaysWrite ==
  ASSUME NEW s, ReplayState(s), s.ok, s.cur # 0, NEW e \in Entries, e.op.name \in {"create", "set", "del"},
         Accepts(s.cells[e.op.key], e.op, s.cur, s.start), NEW r, r = ReplayEntry(s, e)
  PROVE  /\ ReplayState(r) /\ r.ok /\ r.cur = s.cur /\ r.start = s.start /\ r.active = s.active
         /\ r.cells = [s.cells EXCEPT ![e.op.key] = Written(s.cells[e.op.key], e.op, s.cur)]
         /\ r.nextId = s.nextId /\ r.clock = s.clock
<1> DEFINE next == [s EXCEPT !.lsn = e.lsn + 1]
           written == [next EXCEPT !.cells[e.op.key] = Written(@, e.op, s.cur)]
<1>1. r = written
  BY DEF ReplayEntry
<1>2. ReplayState(r)
  BY ReplayEntryOK
<1>3. DOMAIN s = StateFields
  BY DEF ReplayState
<1> QED BY <1>1, <1>2, <1>3 DEF StateFields

-----------------------------------------------------------------------------
(* Memory and log, step by step.                                             *)

LEMMA TokensDistinct ==
  "none" \notin Vals /\ "tomb" \notin Vals /\ TXN_ID_START \in Nat /\ MaxTxn \in Nat /\ TXN_ID_START > 2 * MaxTxn
  BY RecoveryAssumption

LEMMA CellTyped ==
  ASSUME NEW c \in CellRecords
  PROVE  c.data \in Data /\ c.cts \in Nat /\ c.base \in [data : Data, cts : Nat] /\ c.base.data \in Data /\ c.base.cts \in Nat
  BY DEF CellRecords

LEMMA AgreeShows ==
  ASSUME NEW c, NEW d, Agree(c, d)
  PROVE  Visible(c) = Visible(d)
  BY DEF Agree, Visible, Shown

\* A transaction begins when nobody runs.
LEMMA BeginsConsistent ==
  ASSUME NEW x, NEW r, NEW cs, NEW pr, NEW act, NEW n, Consistent(x, r, cs, pr, act, n), x.pc \in {"idle", "done"},
         NEW y, y.pc = "begin", y.id = n, y.redo = <<>>
  PROVE  Consistent(y, r, cs, pr, act, n + 1)
<1>1. Mine(x) = {} /\ Mine(y) = {}
  BY DEF Mine, Writing, Unpromoted, Promoting
<1>2. n \in Nat /\ r.nextId \in Nat /\ r.nextId <= n /\ r.nextId > TXN_ID_START /\ TXN_ID_START \in Nat
  BY TokensDistinct DEF Consistent, RecOK, ReplayState
<1>3. r.cells \in [Keys -> CellRecords] /\ cs \in [Keys -> CellRecords]
      /\ MarksIn(r.cells, r.active, r.nextId) /\ MarksIn(cs, act, n)
  BY DEF Consistent, RecOK
<1>4. ASSUME NEW k \in Keys PROVE r.cells[k].cts # n
  <2>1. r.cells[k].cts \in Nat
    BY <1>3, CellTyped
  <2> QED BY <1>2, <1>3, <2>1 DEF MarksIn, is_txn_id
<1>5. MarksIn(cs, act, n + 1)
  <2> SUFFICES ASSUME NEW k \in Keys, is_txn_id(cs[k].cts)
               PROVE  cs[k].cts \in act /\ cs[k].cts < n + 1 /\ cs[k].data # "none"
    BY DEF MarksIn
  <2>1. cs[k].cts \in Nat
    BY <1>3, CellTyped
  <2> QED BY <1>2, <1>3, <2>1 DEF MarksIn
<1>6. Current(y, r)
  BY <1>2, <1>4 DEF Current, Writing, Unpromoted, Promoting
<1>7. n + 1 \in Nat /\ r.nextId <= n + 1
  BY <1>2
<1> QED BY <1>1, <1>3, <1>5, <1>6, <1>7 DEF Consistent, Writing, Unpromoted, Promoting

\* A step outside the writing part that changes the manager at most.
LEMMA QuietConsistent ==
  ASSUME NEW x, NEW r, NEW cs, NEW pr, NEW act, NEW n, Consistent(x, r, cs, pr, act, n), x.pc \notin Writing,
         NEW y, y.pc \notin Writing \cup {"abort"},
         y.pc \in {"begin", "log"} => x.pc \in {"begin", "log"} /\ y.redo = x.redo,
         y.pc \notin {"idle", "done"} => x.pc \notin {"idle", "done"} /\ y.id = x.id,
         NEW a2, MarksIn(cs, a2, n)
  PROVE  Consistent(y, r, cs, pr, a2, n)
<1>1. Mine(x) = {} /\ Mine(y) = {}
  BY DEF Mine
<1>2. Current(y, r)
  BY <1>1 DEF Consistent, Current, Writing, Unpromoted, Promoting
<1> QED BY <1>1, <1>2 DEF Consistent

\* The transaction x has left its marks behind.
LEMMA NoMarksOf ==
  ASSUME NEW x, NEW r, NEW cs, NEW pr, NEW act, NEW n, Consistent(x, r, cs, pr, act, n),
         x.pc \notin Writing \cup {"idle", "done"}
  PROVE  MarksIn(cs, act \ {x.id}, n)
<1>1. Mine(x) = {}
  BY DEF Mine
<1>2. \A k \in Keys : cs[k].cts # x.id
  BY <1>1 DEF Consistent, Current, Agree
<1> QED BY <1>2 DEF Consistent, MarksIn

\* The Begin entry is on the log.
LEMMA LogsBeginConsistent ==
  ASSUME NEW x, NEW r, NEW cs, NEW pr, NEW act, NEW n, Consistent(x, r, cs, pr, act, n), x.pc = "log",
         x.id \in Nat, x.id < n,
         NEW e \in Entries, e.op.name = "Begin", e.id = x.id, e.op.ts = x.start,
         NEW s, s = ReplayEntry(r, e), NEW y, y.pc = "run", y.id = x.id, y.start = x.start, y.redo = x.redo
  PROVE  Consistent(y, s, cs, pr, act, n) /\ s.clock = AtLeast(x.start + 1, r.clock)
<1>1. ReplayState(r) /\ r.ok /\ r.nextId \in Nat /\ n \in Nat /\ r.nextId <= n /\ r.nextId > TXN_ID_START
      /\ TXN_ID_START \in Nat /\ x.id > TXN_ID_START /\ x.redo = <<>>
      /\ r.cells \in [Keys -> CellRecords]
  BY TokensDistinct DEF Consistent, RecOK, ReplayState, Current
<1>2. /\ ReplayState(s) /\ s.ok /\ s.cells = r.cells /\ s.cur = x.id /\ s.start = x.start
      /\ s.active = r.active \cup {x.id} /\ s.nextId = AtLeast(x.id + 1, r.nextId)
      /\ s.clock = AtLeast(x.start + 1, r.clock)
  BY <1>1, ReplaysBegin
<1>3. s.nextId \in Nat /\ s.nextId >= r.nextId /\ s.nextId > x.id /\ s.nextId <= n
  BY <1>1, <1>2 DEF AtLeast
<1>4. Mine(x) = {} /\ Mine(y) = {} /\ KeysOf(y) = {} /\ DOMAIN y.redo = {}
  BY <1>1 DEF Mine, Writing, Unpromoted, Promoting, KeysOf
<1>5. MarksIn(s.cells, s.active, s.nextId)
  <2> SUFFICES ASSUME NEW k \in Keys, is_txn_id(r.cells[k].cts)
               PROVE  r.cells[k].cts \in s.active /\ r.cells[k].cts < s.nextId /\ r.cells[k].data # "none"
    BY <1>2 DEF MarksIn
  <2>1. r.cells[k].cts \in Nat
    BY <1>1, CellTyped
  <2>2. r.cells[k].cts \in r.active /\ r.cells[k].cts < r.nextId /\ r.cells[k].data # "none"
    BY DEF Consistent, RecOK, MarksIn
  <2> QED BY <1>1, <1>2, <1>3, <2>1, <2>2
<1>6. RecOK(s, pr)
  <2>1. \A k \in Keys : Visible(s.cells[k]) = pr[k]
    BY <1>2 DEF Consistent, RecOK
  <2>2. s.nextId > TXN_ID_START
    BY <1>1, <1>3
  <2> QED BY <1>1, <1>2, <1>3, <1>5, <2>1, <2>2 DEF RecOK
<1>7. Current(y, s)
  BY <1>1, <1>2, <1>4 DEF Consistent, Current, Writing, Unpromoted, Promoting
<1>8. RedoOK(y, s, cs, pr)
  BY <1>4 DEF RedoOK, Apart
<1>9. \A k \in Keys \ Mine(y) : Agree(cs[k], s.cells[k])
  BY <1>2, <1>4 DEF Consistent
<1> QED BY <1>1, <1>2, <1>3, <1>6, <1>7, <1>8, <1>9 DEF Consistent

\* What a write that is accepted in memory meets on the log.
LEMMA WriteMeets ==
  ASSUME NEW op \in Ops, NEW c \in CellRecords, NEW d \in CellRecords, Agree(c, d), NEW id, NEW start,
         c.cts # id, Accepts(c, op, id, start), op.name = "create" \/ c.data # "tomb",
         is_txn_id(c.cts) => c.data # "none", NEW v, v = Written(c, op, id)
  PROVE  /\ Replayable(op, d, id, start) /\ Effect(op, v, Visible(d))
         /\ v.cts = id /\ v.base = [data |-> d.data, cts |-> d.cts] /\ v.data \in Data /\ v.data # "none"
         /\ (id \in Nat => v \in CellRecords)
<1>1. /\ op.name \in {"create", "set", "del"} /\ (op.name # "del" => op.val \in Vals)
  BY DEF Ops
<1>2. ~is_txn_id(c.cts) /\ c.data = d.data /\ c.cts = d.cts
  <2>1. CASE op.name = "create"
    BY <2>1 DEF Accepts, Agree
  <2>2. CASE op.name # "create"
    BY <2>2 DEF Accepts, Agree, check_write_conflict
  <2> QED BY <2>1, <2>2
<1>3. d.data # "tomb"
  <2>1. CASE op.name = "create"
    BY <1>2, <2>1 DEF Accepts
  <2>2. CASE op.name # "create"
    BY <1>2, <2>2
  <2> QED BY <2>1, <2>2
<1>4. Replayable(op, d, id, start)
  <2>1. Accepts(d, op, id, start)
    BY <1>2 DEF Accepts, check_write_conflict
  <2> QED BY <1>2, <1>3, <2>1 DEF Replayable
<1>5. Visible(d) = d.data
  BY <1>2, <1>3 DEF Visible, Shown
<1>6. /\ v.cts = id /\ v.base = [data |-> c.data, cts |-> c.cts]
      /\ (op.name = "create" => v.data = op.val) /\ (op.name = "set" => v.data = op.val) /\ (op.name = "del" => v.data = "tomb")
      /\ v = [data |-> v.data, cts |-> v.cts, base |-> v.base]
  <2>1. c.data # "tomb"
    BY <1>2, <1>3
  <2> QED BY <1>1, <2>1 DEF Written, Cell
<1>7. op.name = "set" => d.data # "none"
  BY <1>2 DEF Accepts
<1>8. Effect(op, v, Visible(d))
  BY <1>1, <1>5, <1>6, <1>7 DEF Effect
<1>9. v.data \in Data /\ v.data # "none"
  BY <1>1, <1>6, TokensDistinct DEF Data
<1>10. v.base \in [data : Data, cts : Nat]
  BY <1>6, CellTyped
<1>11. id \in Nat => v \in CellRecords
  BY <1>6, <1>9, <1>10 DEF CellRecords
<1> QED BY <1>2, <1>4, <1>6, <1>8, <1>9, <1>11

\* A record is written in memory and entered in the redo buffer.
LEMMA WritesConsistent ==
  ASSUME NEW x \in TxRecords, NEW r, NEW cs, NEW pr, NEW act, NEW n, Consistent(x, r, cs, pr, act, n), x.pc = "run",
         x.id \in act, x.id < n, NEW op \in Ops, cs[op.key].cts # x.id, Accepts(cs[op.key], op, x.id, x.start),
         op.name = "create" \/ cs[op.key].data # "tomb",
         NEW y, y.pc = "run", y.id = x.id, y.start = x.start, y.redo = Append(x.redo, op),
         NEW cs2, cs2 = [cs EXCEPT ![op.key] = Written(cs[op.key], op, x.id)]
  PROVE  Consistent(y, r, cs2, pr, act, n)
<1> DEFINE key == op.key
           N == Len(x.redo)
           v == Written(cs[key], op, x.id)
<1>1. /\ RecOK(r, pr) /\ cs \in [Keys -> CellRecords] /\ r.cells \in [Keys -> CellRecords] /\ MarksIn(cs, act, n)
      /\ n \in Nat /\ r.nextId <= n /\ RedoOK(x, r, cs, pr) /\ Current(x, r)
      /\ \A k \in Keys \ Mine(x) : Agree(cs[k], r.cells[k])
  BY DEF Consistent, RecOK, Writing, Unpromoted
<1>2. key \in Keys /\ x.redo \in Seq(RedoOps) /\ N \in Nat /\ DOMAIN x.redo = 1 .. N /\ x.id \in Nat
  BY DEF Ops, TxRecords
<1>3. /\ DOMAIN y.redo = 1 .. N + 1 /\ y.redo[N + 1] = op /\ \A i \in 1 .. N : y.redo[i] = x.redo[i]
      /\ N + 1 \in 1 .. N + 1 /\ \A i \in 1 .. N + 1 : i = N + 1 \/ i \in 1 .. N
  BY <1>2
<1>4. \A i \in 1 .. N : WriteKept(x, i, r, cs, pr) /\ i \in Pending(x)
  BY <1>1, <1>2 DEF RedoOK, Pending
<1>5. \A i \in 1 .. N : cs[x.redo[i].key].cts = x.id
  BY <1>4 DEF WriteKept, Unpromoted
<1>6. \A i \in 1 .. N : x.redo[i].key # key
  BY <1>5
<1>7. Mine(x) = KeysOf(x) /\ Mine(y) = KeysOf(y)
  BY DEF Mine, Writing, Unpromoted
<1>8. key \notin Mine(x) /\ Mine(y) = Mine(x) \cup {key}
  <2> HIDE DEF key, N
  <2>1. key \notin KeysOf(x)
    BY <1>2, <1>6 DEF KeysOf
  <2>2. \A k \in KeysOf(y) : k \in KeysOf(x) \cup {key}
    BY <1>2, <1>3 DEF KeysOf, key
  <2>3. \A k \in KeysOf(x) \cup {key} : k \in KeysOf(y)
    <3>1. key \in KeysOf(y)
      BY <1>3 DEF KeysOf, key
    <3>2. ASSUME NEW k \in KeysOf(x) PROVE k \in KeysOf(y)
      <4>1. PICK i \in 1 .. N : k = x.redo[i].key
        BY <1>2, <3>2 DEF KeysOf
      <4>2. i \in 1 .. N + 1 /\ y.redo[i].key = k
        BY <1>2, <1>3, <4>1
      <4> QED BY <1>3, <4>2 DEF KeysOf
    <3> QED BY <3>1, <3>2
  <2> QED BY <1>7, <2>1, <2>2, <2>3
<1>9. cs[key] \in CellRecords /\ r.cells[key] \in CellRecords /\ Agree(cs[key], r.cells[key])
      /\ (is_txn_id(cs[key].cts) => cs[key].data # "none") /\ Visible(r.cells[key]) = pr[key]
  BY <1>1, <1>2, <1>8 DEF MarksIn, RecOK
<1>10. /\ Replayable(op, r.cells[key], x.id, x.start) /\ Effect(op, v, pr[key])
       /\ v.cts = x.id /\ v.base = [data |-> r.cells[key].data, cts |-> r.cells[key].cts]
       /\ v.data # "none" /\ v \in CellRecords
  <2> HIDE DEF key
  <2>1. v = Written(cs[key], op, x.id) /\ cs[key].cts # x.id /\ Accepts(cs[key], op, x.id, x.start)
        /\ (op.name = "create" \/ cs[key].data # "tomb")
    BY DEF key
  <2> HIDE DEF v
  <2> QED BY <1>2, <1>9, <2>1, WriteMeets
<1> HIDE DEF v
<1>11. cs2[key] = v /\ cs2 \in [Keys -> CellRecords] /\ \A k \in Keys : k # key => cs2[k] = cs[k]
  BY <1>1, <1>2, <1>10 DEF v
<1> HIDE DEF key, N
<1>12. MarksIn(cs2, act, n)
  BY <1>1, <1>2, <1>10, <1>11 DEF MarksIn
<1>13. r.cells[key].cts # x.id
  BY <1>1, <1>2, <1>8 DEF Current
<1>14. Current(y, r)
  <2>1. \A k \in Keys \ Mine(y) : r.cells[k].cts # y.id
    BY <1>1, <1>8 DEF Current
  <2> QED BY <1>1, <2>1 DEF Current, Writing, Unpromoted, Promoting
<1>15. Apart(y)
  <2> SUFFICES ASSUME NEW i \in 1 .. N + 1, NEW j \in 1 .. N + 1, i # j PROVE y.redo[i].key # y.redo[j].key
    BY <1>3 DEF Apart
  <2>1. CASE i \in 1 .. N /\ j \in 1 .. N
    BY <1>1, <1>2, <1>3, <2>1 DEF RedoOK, Apart
  <2>2. CASE i = N + 1 /\ j \in 1 .. N
    BY <1>3, <1>6, <2>2 DEF key
  <2>3. CASE j = N + 1 /\ i \in 1 .. N
    BY <1>3, <1>6, <2>3 DEF key
  <2> QED BY <1>3, <2>1, <2>2, <2>3
<1>16. ASSUME NEW i \in 1 .. N + 1 PROVE WriteKept(y, i, r, cs2, pr)
  <2>0. i \in Pending(y) /\ y.pc \in Unpromoted /\ x.pc \in Unpromoted
    BY <1>3 DEF Pending, Unpromoted
  <2>1. CASE i \in 1 .. N
    <3>0. y.redo[i] = x.redo[i] /\ x.redo[i].key # key
      BY <1>3, <1>6, <2>1
    <3>1. x.redo[i].key \in Keys
      <4>1. x.redo[i] \in RedoOps
        BY <1>2, <2>1
      <4> QED BY <4>1 DEF RedoOps
    <3>2. cs2[x.redo[i].key] = cs[x.redo[i].key]
      BY <1>11, <3>0, <3>1
    <3>3. WriteKept(x, i, r, cs, pr) /\ i \in Pending(x)
      BY <1>4, <2>1
    <3> QED BY <2>0, <3>0, <3>2, <3>3 DEF WriteKept
  <2>2. CASE i = N + 1
    <3>1. y.redo[i] = op /\ op.key = key
      BY <1>3, <2>2 DEF key
    <3> QED BY <1>10, <1>11, <2>0, <3>1 DEF WriteKept
  <2> QED BY <1>3, <2>1, <2>2
<1>17. RedoOK(y, r, cs2, pr)
  BY <1>3, <1>15, <1>16 DEF RedoOK
<1>18. \A k \in Keys \ Mine(y) : Agree(cs2[k], r.cells[k])
  BY <1>1, <1>8, <1>11
<1> QED BY <1>1, <1>11, <1>12, <1>14, <1>17, <1>18 DEF Consistent

\* The redo buffers of x and y hold the same writes.
SameWrites(x, y) ==
    /\ DOMAIN y.redo = DOMAIN x.redo
    /\ \A i \in DOMAIN x.redo : /\ y.redo[i].name = x.redo[i].name /\ y.redo[i].key = x.redo[i].key
                                /\ y.redo[i].val = x.redo[i].val

LEMMA SameKeys ==
  ASSUME NEW x, NEW y, SameWrites(x, y), x.pc \in Writing, y.pc \in Writing
  PROVE  Mine(y) = Mine(x)
<1>1. KeysOf(y) = KeysOf(x)
  BY DEF KeysOf, SameWrites
<1> QED BY <1>1 DEF Mine

\* The transaction goes on, with nothing written in memory or on the log.
LEMMA GoesOnConsistent ==
  ASSUME NEW x, NEW r, NEW cs, NEW pr, NEW act, NEW n, Consistent(x, r, cs, pr, act, n), x.pc \in Writing,
         NEW y, y.pc \in Writing, y.pc \in Unpromoted <=> x.pc \in Unpromoted, y.id = x.id, y.start = x.start,
         y.pc \in Promoting => y.cts = x.cts, SameWrites(x, y), Pending(y) = Pending(x)
  PROVE  Consistent(y, r, cs, pr, act, n)
<1>1. Mine(y) = Mine(x)
  BY SameKeys
<1>2. x.pc \notin {"idle", "done", "begin", "log"} /\ y.pc \notin {"idle", "done", "begin", "log"}
      /\ (y.pc \in Promoting => x.pc \in Promoting)
  BY DEF Writing, Unpromoted, Promoting
<1>3. Current(x, r) /\ RedoOK(x, r, cs, pr)
  BY DEF Consistent
<1>4. Current(y, r)
  BY <1>1, <1>2, <1>3 DEF Current
<1>5. Apart(y)
  BY <1>3 DEF RedoOK, Apart, SameWrites
<1>6. ASSUME NEW i \in DOMAIN y.redo PROVE WriteKept(y, i, r, cs, pr)
  <2> DEFINE o == x.redo[i]
             q == y.redo[i]
  <2>1. q.name = o.name /\ q.key = o.key /\ q.val = o.val
    BY DEF SameWrites
  <2>2. WriteKept(x, i, r, cs, pr)
    BY <1>3 DEF RedoOK, SameWrites
  <2>3. y.pc \notin Unpromoted => y.cts = x.cts
    BY DEF Writing
  <2>4. Effect(q, cs[q.key], pr[q.key]) = Effect(o, cs[q.key], pr[q.key])
    BY <2>1 DEF Effect
  <2>5. Replayable(q, r.cells[q.key], x.id, x.start) = Replayable(o, r.cells[q.key], x.id, x.start)
    BY <2>1 DEF Replayable, Accepts
  <2> QED BY <2>1, <2>2, <2>3, <2>4, <2>5 DEF WriteKept
<1>7. RedoOK(y, r, cs, pr)
  BY <1>5, <1>6 DEF RedoOK
<1> QED BY <1>1, <1>4, <1>7 DEF Consistent

LEMMA PromotedCell ==
  ASSUME NEW cs \in [Keys -> CellRecords], NEW id, NEW ts \in Nat, NEW k \in Keys, NEW v, v = Promoted(cs, id, ts)[k]
  PROVE  /\ v \in CellRecords
         /\ cs[k].cts # id => v = cs[k]
         /\ cs[k].cts = id => v.cts = ts /\ v.data = cs[k].data /\ v.base = cs[k].base
<1>1. cs[k] \in CellRecords
  OBVIOUS
<1>2. v = IF cs[k].cts = id THEN [cs[k] EXCEPT !.cts = ts] ELSE cs[k]
  BY DEF Promoted
<1> QED BY <1>1, <1>2 DEF CellRecords

LEMMA RestoredCell ==
  ASSUME NEW cs \in [Keys -> CellRecords], NEW id, NEW k \in Keys, NEW v, v = Restored(cs, id)[k]
  PROVE  /\ v \in CellRecords
         /\ cs[k].cts # id => v = cs[k]
         /\ cs[k].cts = id => /\ v.cts = cs[k].base.cts
                              /\ v.data = IF cs[k].base.data = "none" THEN "tomb" ELSE cs[k].base.data
<1>1. cs[k] \in CellRecords
  OBVIOUS
<1>2. v = IF cs[k].cts # id THEN cs[k]
          ELSE Cell(IF cs[k].base.data = "none" THEN "tomb" ELSE cs[k].base.data, cs[k].base.cts, NoBase)
  BY DEF Restored
<1>3. cs[k].base.data \in Data /\ cs[k].base.cts \in Nat
  BY <1>1, CellTyped
<1> QED BY <1>1, <1>2, <1>3 DEF CellRecords, Cell, NoBase, Data

\* A key of x is the key of one of its writes.
LEMMA WriteOf ==
  ASSUME NEW x, NEW k \in Mine(x)
  PROVE  \E i \in DOMAIN x.redo : k = x.redo[i].key
  BY DEF Mine, KeysOf

\* Records get the commit timestamp in memory.
LEMMA PromoteConsistent ==
  ASSUME NEW x \in TxRecords, NEW r, NEW cs, NEW pr, NEW act, NEW n, Consistent(x, r, cs, pr, act, n), x.pc = "commit",
         ~is_txn_id(x.cts),
         NEW y, y.pc = "assign", y.id = x.id, y.start = x.start, y.redo = x.redo, y.cts = x.cts,
         NEW cs2, cs2 = Promoted(cs, x.id, x.cts)
  PROVE  Consistent(y, r, cs2, pr, act, n)
<1>1. /\ cs \in [Keys -> CellRecords] /\ r.cells \in [Keys -> CellRecords] /\ MarksIn(cs, act, n)
      /\ RedoOK(x, r, cs, pr) /\ Current(x, r) /\ x.cts \in Nat
      /\ \A k \in Keys \ Mine(x) : Agree(cs[k], r.cells[k])
  BY DEF Consistent, RecOK, Writing, Unpromoted, TxRecords
<1>2. cs2 = [k \in Keys |-> cs2[k]]
  BY DEF Promoted
<1>3. ASSUME NEW k \in Keys
      PROVE  /\ cs2[k] \in CellRecords
             /\ cs[k].cts # x.id => cs2[k] = cs[k]
             /\ cs[k].cts = x.id => cs2[k].cts = x.cts /\ cs2[k].data = cs[k].data
  BY <1>1, PromotedCell
<1>4. cs2 \in [Keys -> CellRecords]
  BY <1>2, <1>3
<1>5. MarksIn(cs2, act, n)
  BY <1>1, <1>3 DEF MarksIn
<1>6. Mine(y) = Mine(x)
  BY DEF Mine, Writing, Unpromoted, Promoting, KeysOf
<1>7. \A k \in Keys \ Mine(x) : Agree(cs2[k], r.cells[k])
  BY <1>1, <1>3 DEF Agree, Current
<1>8. Current(y, r)
  BY <1>1, <1>6 DEF Current, Writing, Unpromoted, Promoting
<1>9. ASSUME NEW i \in DOMAIN x.redo PROVE WriteKept(y, i, r, cs2, pr)
  <2> DEFINE o == x.redo[i]
  <2>1. WriteKept(x, i, r, cs, pr) /\ i \in Pending(x) /\ i \in Pending(y)
    BY <1>1 DEF RedoOK, Pending
  <2>2. o.key \in Keys
    <3>1. o \in RedoOps
      BY DEF TxRecords
    <3> QED BY <3>1 DEF RedoOps
  <2>3. cs[o.key].cts = x.id
    BY <2>1 DEF WriteKept, Unpromoted
  <2>4. cs2[o.key].cts = x.cts /\ cs2[o.key].data = cs[o.key].data
    BY <1>3, <2>2, <2>3
  <2>5. Effect(o, cs2[o.key], pr[o.key])
    BY <2>1, <2>4 DEF WriteKept, Effect
  <2>6. Replayable(o, r.cells[o.key], x.id, x.start)
    BY <2>1 DEF WriteKept
  <2> HIDE DEF o
  <2> QED BY <2>1, <2>4, <2>5, <2>6 DEF WriteKept, Unpromoted, o
<1>10. RedoOK(y, r, cs2, pr)
  BY <1>1, <1>9 DEF RedoOK, Apart
<1> QED BY <1>1, <1>4, <1>5, <1>6, <1>7, <1>8, <1>10 DEF Consistent

\* Records are rolled back in memory.
LEMMA AbortConsistent ==
  ASSUME NEW x \in TxRecords, NEW r, NEW cs, NEW pr, NEW act, NEW n, Consistent(x, r, cs, pr, act, n), x.pc = "run",
         NEW y, y.pc = "abort", y.id = x.id, NEW cs2, cs2 = Restored(cs, x.id)
  PROVE  Consistent(y, r, cs2, pr, act, n)
<1>1. /\ cs \in [Keys -> CellRecords] /\ r.cells \in [Keys -> CellRecords] /\ MarksIn(cs, act, n)
      /\ RedoOK(x, r, cs, pr) /\ Current(x, r) /\ x.id \in Nat
      /\ \A k \in Keys \ Mine(x) : Agree(cs[k], r.cells[k])
  BY DEF Consistent, RecOK, Writing, Unpromoted, TxRecords
<1>2. cs2 = [k \in Keys |-> cs2[k]]
  BY DEF Restored
<1>3. ASSUME NEW k \in Keys
      PROVE  /\ cs2[k] \in CellRecords
             /\ cs[k].cts # x.id => cs2[k] = cs[k]
             /\ cs[k].cts = x.id => /\ cs2[k].cts = cs[k].base.cts
                                    /\ cs2[k].data = IF cs[k].base.data = "none" THEN "tomb" ELSE cs[k].base.data
  BY <1>1, RestoredCell
<1>4. cs2 \in [Keys -> CellRecords]
  BY <1>2, <1>3
<1>5. ASSUME NEW k \in Keys, k \in Mine(x)
      PROVE  ~is_txn_id(cs2[k].cts) /\ cs2[k].cts = r.cells[k].cts /\ Agree(cs2[k], r.cells[k])
  <2>1. PICK i \in DOMAIN x.redo : k = x.redo[i].key
    BY <1>5, WriteOf
  <2>2. WriteKept(x, i, r, cs, pr) /\ i \in Pending(x)
    BY <1>1 DEF RedoOK, Pending
  <2>3. /\ cs[k].cts = x.id /\ cs[k].base = [data |-> r.cells[k].data, cts |-> r.cells[k].cts]
        /\ ~is_txn_id(r.cells[k].cts)
    BY <2>1, <2>2 DEF WriteKept, Unpromoted, Replayable
  <2>4. cs[k].base.data = r.cells[k].data /\ cs[k].base.cts = r.cells[k].cts
    BY <2>3
  <2> QED BY <1>3, <2>3, <2>4 DEF Agree
<1>6. ASSUME NEW k \in Keys, k \notin Mine(x)
      PROVE  cs2[k] = cs[k] /\ Agree(cs2[k], r.cells[k]) /\ r.cells[k].cts # x.id
  BY <1>1, <1>3, <1>6 DEF Agree, Current
<1>7. MarksIn(cs2, act, n)
  BY <1>1, <1>5, <1>6 DEF MarksIn
<1>8. Mine(y) = {}
  BY DEF Mine, Writing, Unpromoted, Promoting
<1>9. x.id > TXN_ID_START /\ r.cur = x.id /\ is_txn_id(x.id)
  BY <1>1, TokensDistinct DEF Current, Writing, Unpromoted, is_txn_id
<1>10. \A k \in Keys : r.cells[k].cts # x.id /\ Agree(cs2[k], r.cells[k])
  BY <1>5, <1>6, <1>9
<1>11. Current(y, r)
  BY <1>8, <1>9, <1>10 DEF Current, Writing, Unpromoted, Promoting
<1> QED BY <1>1, <1>4, <1>7, <1>8, <1>10, <1>11 DEF Consistent, Writing, Unpromoted, Promoting

\* A redo entry is replayed: the record recovery finds is the one in memory.
LEMMA DeltaMeets ==
  ASSUME NEW op \in RedoOps, NEW c \in CellRecords, NEW d \in CellRecords, NEW id \in Nat, is_txn_id(id), NEW start, NEW p,
         Replayable(op, d, id, start), Effect(op, c, p), NEW v, v = Written(d, op, id)
  PROVE  v \in CellRecords /\ v.cts = id /\ v.data = c.data /\ v.data # "none" /\ Visible(v) = Visible(d)
<1>1. op.name \in {"create", "set", "del"}
  BY DEF RedoOps
<1>2. ~is_txn_id(d.cts) /\ d.data # "tomb" /\ d.cts # id
  BY DEF Replayable
<1>3. /\ v.cts = id /\ v.base = [data |-> d.data, cts |-> d.cts]
      /\ (op.name \in {"create", "set"} => v.data = op.val) /\ (op.name = "del" => v.data = "tomb")
      /\ v = [data |-> v.data, cts |-> v.cts, base |-> v.base]
  BY <1>1, <1>2 DEF Written, Cell
<1>4. v.data = c.data /\ v.data \in Data /\ v.data # "none"
  BY <1>1, <1>3, CellTyped, TokensDistinct DEF Effect
<1>5. v.base \in [data : Data, cts : Nat] /\ v.base.data = d.data
  BY <1>3, CellTyped
<1>6. v \in CellRecords
  BY <1>3, <1>4, <1>5 DEF CellRecords
<1>7. Visible(v) = Visible(d)
  BY <1>2, <1>3, <1>5 DEF Visible
<1> QED BY <1>3, <1>4, <1>6, <1>7

\* A redo entry is on the log.
LEMMA DeltaConsistent ==
  ASSUME NEW x \in TxRecords, NEW r, NEW cs, NEW pr, NEW act, NEW n, Consistent(x, r, cs, pr, act, n), x.pc = "flush",
         x.pos \in DOMAIN x.redo, NEW e \in Entries, e.op = x.redo[x.pos], NEW s, s = ReplayEntry(r, e),
         NEW y, y.pc = "flush", y.id = x.id, y.start = x.start, y.redo = x.redo, y.cts = x.cts, y.pos = x.pos + 1
  PROVE  Consistent(y, s, cs, pr, act, n) /\ s.clock = r.clock
<1> DEFINE o == x.redo[x.pos]
           key == o.key
           v == Written(r.cells[key], o, x.id)
<1>1. /\ cs \in [Keys -> CellRecords] /\ r.cells \in [Keys -> CellRecords] /\ MarksIn(cs, act, n)
      /\ RedoOK(x, r, cs, pr) /\ Current(x, r) /\ x.id \in Nat /\ ReplayState(r) /\ r.ok
      /\ MarksIn(r.cells, r.active, r.nextId) /\ n \in Nat /\ r.nextId <= n /\ r.nextId > TXN_ID_START
      /\ (\A k \in Keys \ Mine(x) : Agree(cs[k], r.cells[k])) /\ \A k \in Keys : Visible(r.cells[k]) = pr[k]
  BY DEF Consistent, RecOK, Writing, Promoting, TxRecords
<1>2. x.id > TXN_ID_START /\ x.id # 0 /\ is_txn_id(x.id) /\ r.cur = x.id /\ r.start = x.start
  BY <1>1, TokensDistinct DEF Current, Writing, Promoting, is_txn_id
<1>3. x.id \in r.active /\ x.id < r.nextId
  BY <1>2 DEF Consistent, RecOK
<1>4. x.redo \in Seq(RedoOps) /\ DOMAIN x.redo = 1 .. Len(x.redo) /\ Len(x.redo) \in Nat /\ x.pos \in Nat
      /\ \A i \in DOMAIN x.redo : x.redo[i] \in RedoOps /\ x.redo[i].key \in Keys
  <2>1. x.redo \in Seq(RedoOps) /\ x.pos \in Nat
    BY DEF TxRecords
  <2>2. \A i \in DOMAIN x.redo : x.redo[i] \in RedoOps
    BY <2>1
  <2> QED BY <2>1, <2>2 DEF RedoOps
<1>5. o \in RedoOps /\ key \in Keys /\ o.name \in {"create", "set", "del"}
  BY <1>4 DEF RedoOps
<1>6. WriteKept(x, x.pos, r, cs, pr) /\ x.pos \in Pending(x)
  BY <1>1, <1>4 DEF RedoOK, Pending
<1>7. Replayable(o, r.cells[key], x.id, x.start) /\ Effect(o, cs[key], pr[key])
  BY <1>6 DEF WriteKept
<1>8. v \in CellRecords /\ v.cts = x.id /\ v.data = cs[key].data /\ v.data # "none" /\ Visible(v) = Visible(r.cells[key])
  <2> HIDE DEF o, key
  <2>1. cs[key] \in CellRecords /\ r.cells[key] \in CellRecords
    BY <1>1, <1>5
  <2> QED BY <1>1, <1>2, <1>5, <1>7, <2>1, DeltaMeets
<1>9. /\ ReplayState(s) /\ s.ok /\ s.cur = r.cur /\ s.start = r.start /\ s.active = r.active
      /\ s.cells = [r.cells EXCEPT ![key] = v] /\ s.nextId = r.nextId /\ s.clock = r.clock
  <2>1. e.op.name \in {"create", "set", "del"} /\ Accepts(r.cells[e.op.key], e.op, r.cur, r.start)
    BY <1>2, <1>5, <1>7 DEF Replayable
  <2>2. r.cur # 0
    BY <1>2
  <2>3. v = Written(r.cells[e.op.key], e.op, r.cur) /\ key = e.op.key
    BY <1>2
  <2> HIDE DEF v, key
  <2> QED BY <1>1, <2>1, <2>2, <2>3, ReplaysWrite
<1> HIDE DEF v
<1>10. s.cells[key] = v /\ s.cells \in [Keys -> CellRecords] /\ \A k \in Keys : k # key => s.cells[k] = r.cells[k]
  BY <1>1, <1>5, <1>8, <1>9
<1> HIDE DEF key, o
<1>11. MarksIn(s.cells, s.active, s.nextId)
  BY <1>1, <1>3, <1>8, <1>9, <1>10 DEF MarksIn
<1>12. \A k \in Keys : Visible(s.cells[k]) = pr[k]
  BY <1>1, <1>5, <1>8, <1>10
<1>13. RecOK(s, pr)
  BY <1>1, <1>2, <1>3, <1>9, <1>10, <1>11, <1>12 DEF RecOK
<1>14. Mine(y) = Mine(x) /\ key \in Mine(x)
  <2>1. Mine(y) = Mine(x)
    BY DEF Mine, Writing, Promoting, KeysOf
  <2>2. key \in KeysOf(x)
    BY DEF KeysOf, key, o
  <2> QED BY <2>1, <2>2 DEF Mine, Writing, Promoting
<1>15. \A k \in Keys \ Mine(x) : s.cells[k] = r.cells[k]
  BY <1>10, <1>14
<1>16. Current(y, s)
  <2>1. \A k \in Keys \ Mine(y) : s.cells[k].cts # y.id
    BY <1>1, <1>14, <1>15 DEF Current
  <2> QED BY <1>1, <1>2, <1>9, <2>1 DEF Current, Writing, Promoting, Unpromoted
<1>17. ASSUME NEW i \in DOMAIN x.redo PROVE WriteKept(y, i, s, cs, pr)
  <2>0. WriteKept(x, i, r, cs, pr) /\ x.pc \notin Unpromoted /\ y.pc \notin Unpromoted
    BY <1>1 DEF RedoOK, Unpromoted
  <2>1. CASE i = x.pos
    <3>1. i \notin Pending(y)
      BY <1>4, <2>1 DEF Pending
    <3>2. x.redo[i].key = key
      BY <2>1 DEF key, o
    <3> QED BY <1>8, <1>10, <2>0, <3>1, <3>2 DEF WriteKept
  <2>2. CASE i # x.pos
    <3>1. i \in Pending(y) <=> i \in Pending(x)
      BY <1>4, <2>2 DEF Pending
    <3>2. x.redo[i].key # key
      BY <1>1, <2>2 DEF RedoOK, Apart, key, o
    <3>3. s.cells[x.redo[i].key] = r.cells[x.redo[i].key]
      BY <1>4, <1>10, <3>2
    <3> QED BY <2>0, <3>1, <3>3 DEF WriteKept
  <2> QED BY <2>1, <2>2
<1>18. RedoOK(y, s, cs, pr)
  BY <1>1, <1>17 DEF RedoOK, Apart
<1>19. \A k \in Keys \ Mine(y) : Agree(cs[k], s.cells[k])
  BY <1>1, <1>14, <1>15
<1> QED BY <1>1, <1>9, <1>13, <1>16, <1>18, <1>19 DEF Consistent

LEMMA MaxOfOne ==
  ASSUME NEW i \in Nat
  PROVE  Max({i}) = i
<1>1. i >= i
  OBVIOUS
<1> QED BY <1>1 DEF Max

\* The commit of x promises the record as it stands in memory.
LEMMA PromiseOf ==
  ASSUME NEW x \in TxRecords, Apart(x), NEW pr, NEW k \in Keys, NEW q, q = Promise(pr, x.redo)[k]
  PROVE  /\ k \notin KeysOf(x) => q = pr[k]
         /\ \A i \in DOMAIN x.redo : \A c : k = x.redo[i].key /\ Effect(x.redo[i], c, pr[k]) => q = Shown(c.data)
<1> DEFINE mine == {i \in DOMAIN x.redo : x.redo[i].key = k}
           op == x.redo[Max(mine)]
<1>1. q = CASE mine = {} -> pr[k]
            [] mine # {} /\ op.name = "create" -> op.val
            [] mine # {} /\ op.name = "set" -> IF pr[k] = "none" THEN "none" ELSE op.val
            [] mine # {} /\ op.name = "del" -> "none"
  BY DEF Promise
<1>2. k \notin KeysOf(x) => mine = {}
  BY DEF KeysOf
<1>3. ASSUME NEW i \in DOMAIN x.redo, NEW c, k = x.redo[i].key, Effect(x.redo[i], c, pr[k]) PROVE q = Shown(c.data)
  <2>1. mine = {i}
    BY <1>3 DEF Apart
  <2>2. i \in Nat /\ x.redo[i] \in RedoOps
    <3>1. x.redo \in Seq(RedoOps)
      BY DEF TxRecords
    <3> QED BY <3>1
  <2>3. op = x.redo[i]
    BY <2>1, <2>2, MaxOfOne
  <2>4. op.name \in {"create", "set", "del"}
    BY <2>2, <2>3 DEF RedoOps
  <2>5. mine # {}
    BY <2>1
  <2> HIDE DEF mine, op
  <2>6. CASE op.name \in {"create", "set"}
    <3>1. c.data = op.val /\ op.val \in Vals /\ (op.name = "set" => pr[k] # "none")
      BY <1>3, <2>3, <2>6 DEF Effect
    <3> QED BY <1>1, <2>5, <2>6, <3>1, TokensDistinct DEF Shown
  <2>7. CASE op.name = "del"
    <3>1. c.data = "tomb"
      BY <1>3, <2>3, <2>7 DEF Effect
    <3> QED BY <1>1, <2>5, <2>7, <3>1 DEF Shown
  <2> QED BY <2>4, <2>6, <2>7
<1>4. k \notin KeysOf(x) => q = pr[k]
  <2> HIDE DEF op
  <2> QED BY <1>1, <1>2
<1> HIDE DEF mine, op
<1> QED BY <1>3, <1>4

\* The commit entry is on the log.
LEMMA CommitConsistent ==
  ASSUME NEW x \in TxRecords, NEW r, NEW cs, NEW pr, NEW act, NEW n, Consistent(x, r, cs, pr, act, n), x.pc = "mark",
         NEW e \in Entries, e.op.name = "Commit", e.op.ts = x.cts, NEW s, s = ReplayEntry(r, e),
         NEW y, y.pc = "finish", y.id = x.id, NEW p2, p2 = Promise(pr, x.redo)
  PROVE  Consistent(y, s, cs, p2, act, n) /\ s.clock = AtLeast(x.cts + 1, r.clock)
<1>1. /\ cs \in [Keys -> CellRecords] /\ r.cells \in [Keys -> CellRecords] /\ MarksIn(cs, act, n)
      /\ RedoOK(x, r, cs, pr) /\ Current(x, r) /\ x.id \in Nat /\ x.cts \in Nat /\ ReplayState(r) /\ r.ok
      /\ MarksIn(r.cells, r.active, r.nextId) /\ n \in Nat /\ r.nextId <= n /\ r.nextId > TXN_ID_START
      /\ (\A k \in Keys \ Mine(x) : Agree(cs[k], r.cells[k])) /\ \A k \in Keys : Visible(r.cells[k]) = pr[k]
  BY DEF Consistent, RecOK, Writing, Promoting, TxRecords
<1>2. x.id > TXN_ID_START /\ x.id # 0 /\ is_txn_id(x.id) /\ r.cur = x.id /\ ~is_txn_id(x.cts) /\ x.cts # x.id
  BY <1>1, TokensDistinct DEF Current, Writing, Promoting, is_txn_id
<1>3. /\ ReplayState(s) /\ s.ok /\ s.cells = Promoted(r.cells, x.id, x.cts) /\ s.cur = 0
      /\ s.active = r.active \ {x.id} /\ s.nextId = r.nextId /\ s.clock = AtLeast(x.cts + 1, r.clock)
  <2>1. r.cur # 0
    BY <1>2
  <2> QED BY <1>1, <1>2, <2>1, ReplaysCommit
<1>4. s.cells = [k \in Keys |-> s.cells[k]]
  BY <1>3 DEF Promoted
<1>5. ASSUME NEW k \in Keys
      PROVE  /\ s.cells[k] \in CellRecords
             /\ r.cells[k].cts # x.id => s.cells[k] = r.cells[k]
             /\ r.cells[k].cts = x.id => s.cells[k].cts = x.cts /\ s.cells[k].data = r.cells[k].data
  BY <1>1, <1>3, PromotedCell
<1>6. s.cells \in [Keys -> CellRecords]
  BY <1>4, <1>5
<1>7. Mine(x) = KeysOf(x) /\ Mine(y) = {}
  BY DEF Mine, Writing, Unpromoted, Promoting
<1>8. Apart(x)
  BY <1>1 DEF RedoOK
<1>9. ASSUME NEW k \in Keys, k \in Mine(x)
      PROVE  s.cells[k].cts = x.cts /\ Agree(cs[k], s.cells[k]) /\ Visible(s.cells[k]) = p2[k]
  <2>1. PICK i \in DOMAIN x.redo : k = x.redo[i].key
    BY <1>9, WriteOf
  <2>2. WriteKept(x, i, r, cs, pr) /\ i \notin Pending(x)
    BY <1>1 DEF RedoOK, Pending
  <2>3. /\ cs[k].cts = x.cts /\ r.cells[k].cts = x.id /\ r.cells[k].data = cs[k].data
        /\ Effect(x.redo[i], cs[k], pr[k])
    BY <2>1, <2>2 DEF WriteKept, Unpromoted
  <2>4. s.cells[k].cts = x.cts /\ s.cells[k].data = cs[k].data
    BY <1>5, <2>3
  <2>5. p2[k] = Shown(cs[k].data)
    BY <1>8, <2>1, <2>3, PromiseOf
  <2>6. Visible(s.cells[k]) = Shown(cs[k].data)
    BY <1>2, <2>4 DEF Visible
  <2> QED BY <1>2, <2>3, <2>4, <2>5, <2>6 DEF Agree
<1>10. ASSUME NEW k \in Keys, k \notin Mine(x)
       PROVE  r.cells[k].cts # x.id /\ s.cells[k] = r.cells[k] /\ Agree(cs[k], s.cells[k]) /\ Visible(s.cells[k]) = p2[k]
  <2>1. r.cells[k].cts # x.id
    BY <1>1, <1>10 DEF Current
  <2>2. s.cells[k] = r.cells[k]
    BY <1>5, <2>1
  <2>3. p2[k] = pr[k]
    BY <1>7, <1>8, <1>10, PromiseOf
  <2> QED BY <1>1, <1>10, <2>1, <2>2, <2>3
<1>11. \A k \in Keys : s.cells[k].cts # x.id /\ Agree(cs[k], s.cells[k]) /\ Visible(s.cells[k]) = p2[k]
  BY <1>2, <1>9, <1>10
<1>12. MarksIn(s.cells, s.active, s.nextId)
  BY <1>1, <1>2, <1>3, <1>9, <1>10 DEF MarksIn
<1>13. RecOK(s, p2)
  BY <1>1, <1>3, <1>6, <1>11, <1>12 DEF RecOK
<1>14. Current(y, s)
  BY <1>2, <1>11 DEF Current, Writing, Promoting, Unpromoted
<1> QED BY <1>1, <1>3, <1>7, <1>11, <1>13, <1>14 DEF Consistent, Writing, Promoting, Unpromoted

\* The abort entry is on the log: recovery has nothing to restore.
LEMMA LogsAbortConsistent ==
  ASSUME NEW x \in TxRecords, NEW r, NEW cs, NEW pr, NEW act, NEW n, Consistent(x, r, cs, pr, act, n), x.pc = "abort",
         NEW e \in Entries, e.op.name = "Abort", NEW s, s = ReplayEntry(r, e), NEW y, y.pc = "leave", y.id = x.id
  PROVE  Consistent(y, s, cs, pr, act, n) /\ s.clock = r.clock
<1>1. /\ cs \in [Keys -> CellRecords] /\ r.cells \in [Keys -> CellRecords] /\ MarksIn(cs, act, n)
      /\ Current(x, r) /\ x.id \in Nat /\ ReplayState(r) /\ r.ok
      /\ MarksIn(r.cells, r.active, r.nextId) /\ n \in Nat /\ r.nextId <= n /\ r.nextId > TXN_ID_START
      /\ (\A k \in Keys \ Mine(x) : Agree(cs[k], r.cells[k])) /\ \A k \in Keys : Visible(r.cells[k]) = pr[k]
  BY DEF Consistent, RecOK, TxRecords
<1>2. x.id > TXN_ID_START /\ x.id # 0 /\ r.cur = x.id
  BY <1>1, TokensDistinct DEF Current
<1>3. Mine(x) = {} /\ Mine(y) = {}
  BY DEF Mine, Writing, Unpromoted, Promoting
<1>4. /\ ReplayState(s) /\ s.ok /\ s.cells = Restored(r.cells, x.id) /\ s.cur = 0
      /\ s.active = r.active \ {x.id} /\ s.nextId = r.nextId /\ s.clock = r.clock
  <2>1. r.cur # 0
    BY <1>2
  <2> QED BY <1>1, <1>2, <2>1, ReplaysAbort
<1>5. \A k \in Keys : r.cells[k].cts # x.id
  BY <1>1, <1>3 DEF Current
<1>6. s.cells = r.cells
  BY <1>1, <1>4, <1>5 DEF Restored
<1>7. MarksIn(s.cells, s.active, s.nextId)
  BY <1>1, <1>4, <1>5, <1>6 DEF MarksIn
<1>8. RecOK(s, pr)
  BY <1>1, <1>4, <1>6, <1>7 DEF RecOK
<1>9. Current(y, s)
  BY <1>2, <1>5, <1>6 DEF Current, Writing, Promoting, Unpromoted
<1> QED BY <1>1, <1>3, <1>4, <1>6, <1>8, <1>9 DEF Consistent, Writing, Promoting, Unpromoted

\* The checkpoint takes the place of the log; nobody is registered.
LEMMA CheckpointConsistent ==
  ASSUME NEW x, NEW r, NEW cs, NEW pr, NEW n, Consistent(x, r, cs, pr, {}, n), x.pc = "drain",
         NEW ck, ck.cells = [k \in Keys |-> [cs[k] EXCEPT !.base = NoBase]], NEW s, s = restore(ck),
         NEW y, y.pc = "truncate", y.id = x.id
  PROVE  Consistent(y, s, cs, pr, {}, n) /\ s.clock = 1
<1>1. /\ cs \in [Keys -> CellRecords] /\ MarksIn(cs, {}, n)
      /\ Current(x, r) /\ r.nextId \in Nat /\ n \in Nat /\ r.nextId <= n /\ r.nextId > TXN_ID_START
      /\ (\A k \in Keys \ Mine(x) : Agree(cs[k], r.cells[k])) /\ \A k \in Keys : Visible(r.cells[k]) = pr[k]
  BY DEF Consistent, RecOK, ReplayState
<1>2. Mine(x) = {} /\ Mine(y) = {}
  BY DEF Mine, Writing, Unpromoted, Promoting
<1>3. /\ DOMAIN s = StateFields /\ s.ok /\ s.cells = ck.cells /\ s.active = {} /\ s.clock = 1
      /\ s.nextId = TXN_ID_START + 1 /\ s.cur = 0
  BY DEF restore, StateFields
<1>4. ASSUME NEW k \in Keys
      PROVE  /\ ~is_txn_id(cs[k].cts) /\ s.cells[k] \in CellRecords
             /\ s.cells[k].cts = cs[k].cts /\ s.cells[k].data = cs[k].data
  <2>1. s.cells[k] = [cs[k] EXCEPT !.base = NoBase] /\ cs[k] \in CellRecords
    BY <1>1, <1>3
  <2>2. ~is_txn_id(cs[k].cts)
    BY <1>1 DEF MarksIn
  <2> QED BY <2>1, <2>2 DEF CellRecords, NoBase, Data
<1>5. s.cells \in [Keys -> CellRecords]
  BY <1>3, <1>4
<1>6. \A k \in Keys : Agree(cs[k], s.cells[k]) /\ Visible(s.cells[k]) = pr[k]
  <2>1. ASSUME NEW k \in Keys PROVE Agree(cs[k], s.cells[k]) /\ Visible(s.cells[k]) = pr[k]
    <3>1. Agree(cs[k], s.cells[k])
      BY <1>4 DEF Agree
    <3>2. Visible(s.cells[k]) = Visible(cs[k])
      BY <3>1, AgreeShows
    <3>3. Visible(cs[k]) = Visible(r.cells[k])
      BY <1>1, <1>2, AgreeShows
    <3> QED BY <1>1, <3>1, <3>2, <3>3
  <2> QED BY <2>1
<1>7. MarksIn(s.cells, s.active, s.nextId)
  BY <1>4 DEF MarksIn
<1>8. s.nextId \in Nat /\ s.nextId > TXN_ID_START /\ s.nextId <= n
  BY <1>1, <1>3, TokensDistinct
<1>9. RecOK(s, pr)
  BY <1>3, <1>5, <1>6, <1>7, <1>8 DEF RecOK, ReplayState
<1>10. \A k \in Keys : s.cells[k].cts # x.id
  <2>1. x.id > TXN_ID_START
    BY <1>1 DEF Current
  <2> QED BY <1>4, <1>5, <2>1, TokensDistinct, CellTyped DEF is_txn_id
<1>11. Current(y, s)
  BY <1>1, <1>10 DEF Current, Writing, Promoting, Unpromoted
<1> QED BY <1>1, <1>2, <1>3, <1>6, <1>8, <1>9, <1>11 DEF Consistent, Writing, Promoting, Unpromoted

-----------------------------------------------------------------------------
(* One step of the transaction that runs.                                    *)

LEMMA RunnerIs ==
  ASSUME NEW X, NEW t \in Txns, X[t].pc \notin {"idle", "done"},
         \A u \in Txns : u # t => X[u].pc \in {"idle", "done"}
  PROVE  RunnerIn(X) = X[t]
<1> DEFINE u == CHOOSE v \in Txns : X[v].pc \notin {"idle", "done"}
<1>1. u \in Txns /\ X[u].pc \notin {"idle", "done"}
  OBVIOUS
<1>2. u = t
  BY <1>1
<1> QED BY <1>2 DEF RunnerIn

LEMMA NobodyIs ==
  ASSUME NEW X, \A t \in Txns : X[t].pc \in {"idle", "done"}
  PROVE  RunnerIn(X) = Over
  BY DEF RunnerIn

LEMMA RunsIn ==
  ASSUME WInv, CInv, up = "up", NEW t \in Txns, Running(t)
  PROVE  /\ Consistent(tx[t], Rec, cells, promise, active, nextId) /\ InTime(t) /\ Ahead(tx[t], disk.wal)
         /\ Early(clock) /\ Early(Rec.clock) /\ Rising(disk.wal) /\ LogOK(disk) /\ OneByOne
         /\ Rec.clock \in Nat /\ tx[t].id < nextId
         /\ tx[t].pc \in Joined => tx[t].id \in active
<1>1. OneByOne /\ Consistent(Runner, Rec, cells, promise, active, nextId)
  BY DEF CInv
<1>2. Runner = tx[t]
  BY <1>1, RunnerIs DEF OneByOne, Running, Runner
<1>3. Rec.clock \in Nat
  BY DEF CInv, RecOK, ReplayState
<1>4. LogOK(disk) /\ tx[t].id < nextId /\ (tx[t].pc \in Joined => tx[t].id \in active)
  BY DEF WInv, Registered, IdsDistinct
<1> QED BY <1>1, <1>2, <1>3, <1>4 DEF CInv

LEMMA StepsOn ==
  ASSUME WInv, CInv, up = "up", up' = "up", NEW t \in Txns, Running(t), OnlyTx(t), tx'[t].pc # "idle",
         tx'[t].pc = "done" => tx'[t] = Over,
         NEW s, Recovery(disk') = s, Rising(disk'.wal),
         Consistent(tx'[t], s, cells', promise', active', nextId'),
         Early(s.clock), Early(clock'),
         tx'[t].pc # "done" => InTime(t)' /\ Ahead(tx'[t], disk'.wal)
  PROVE  CInv'
<1>1. OneByOne /\ \A u \in Txns : u # t => tx'[u] = tx[u] /\ ~Running(u) /\ ~Running(u)'
  BY DEF CInv, OneByOne, OnlyTx, Running
<1>2. \A u \in Txns : tx'[u].pc = "idle" => tx[u].pc = "idle" /\ u # t /\ tx'[u] = tx[u]
  BY <1>1
<1>3. OneByOne'
  <2>1. \A u, v \in Txns : Running(u)' /\ Running(v)' => u = v
    BY <1>1
  <2>2. \A u, v \in Txns : tx'[u].pc # "idle" /\ tx'[v].pc = "idle" => u < v
    <3> SUFFICES ASSUME NEW u \in Txns, NEW v \in Txns, tx'[u].pc # "idle", tx'[v].pc = "idle" PROVE u < v
      OBVIOUS
    <3>1. tx[v].pc = "idle"
      BY <1>2
    <3>2. tx[u].pc # "idle"
      BY <1>1 DEF Running
    <3> QED BY <1>1, <3>1, <3>2 DEF OneByOne
  <2>3. \A u \in Txns : tx'[u].pc = "idle" => tx'[u].redo = <<>>
    BY <1>1, <1>2 DEF OneByOne
  <2> QED BY <2>1, <2>2, <2>3 DEF OneByOne
<1>4. Runner' = tx'[t]
  <2> DEFINE X == tx'
  <2>1. \A u \in Txns : u # t => X[u].pc \in {"idle", "done"}
    BY <1>1 DEF Running
  <2>2. X[t].pc = "done" => X[t] = Over
    OBVIOUS
  <2>3. X[t].pc # "idle"
    OBVIOUS
  <2>4. Runner' = RunnerIn(X)
    BY DEF Runner
  <2> HIDE DEF X
  <2>5. RunnerIn(X) = X[t]
    BY <2>1, <2>2, <2>3, RunnerIs, NobodyIs
  <2> QED BY <2>4, <2>5 DEF X
<1>5. Rec' = s
  BY DEF Rec
<1>6. Early(Rec.clock)'
  BY <1>2, <1>5 DEF Early
<1>7. Early(clock)'
  BY <1>2 DEF Early
<1>8. Consistent(Runner', Rec', cells', promise', active', nextId')
  BY <1>4, <1>5
<1>9. RecOK(Rec', promise')
  BY <1>8 DEF Consistent
<1>10. ASSUME NEW u \in Txns, Running(u)' PROVE InTime(u)' /\ Ahead(tx'[u], disk'.wal)
  <2>1. u = t /\ tx'[t].pc # "done"
    BY <1>1, <1>10 DEF Running
  <2> QED BY <2>1
<1> QED BY <1>3, <1>6, <1>7, <1>8, <1>9, <1>10 DEF CInv

\* A step that leaves the log alone.
LEMMA SameLog ==
  ASSUME WInv, CInv, up = "up", up' = "up", NEW t \in Txns, Running(t), OnlyTx(t), tx'[t].pc # "idle",
         tx'[t].pc = "done" => tx'[t] = Over, disk' = disk,
         Consistent(tx'[t], Rec, cells', promise', active', nextId'), Early(clock'),
         tx'[t].pc # "done" => InTime(t)' /\ Ahead(tx'[t], disk.wal)
  PROVE  CInv'
<1>1. Recovery(disk') = Rec /\ Rising(disk'.wal) /\ Early(Rec.clock)
  BY RunsIn DEF Rec
<1> QED BY <1>1, StepsOn

\* The timestamps of a transaction that draws none.
LEMMA StaysInTime ==
  ASSUME NEW t \in Txns, InTime(t), clock' = clock, tx'[t].start = tx[t].start,
         tx'[t].pc \in {"begin", "log", "run"} => tx[t].pc \in {"begin", "log", "run"},
         tx'[t].pc \in {"commit"} \cup Promoting => tx[t].pc \in {"commit"} \cup Promoting /\ tx'[t].cts = tx[t].cts
  PROVE  InTime(t)'
  BY DEF InTime

LEMMA AheadEmpty ==
  ASSUME NEW x, Holding(x) = {}, NEW w
  PROVE  Ahead(x, w)
  BY DEF Ahead

\* A step that draws the next LSN for place p, behind all others.
LEMMA AheadDraw ==
  ASSUME WInv, up = "up", NEW t \in Txns, Ahead(tx[t], disk.wal), NEW y, NEW p \in Nat,
         \A i \in Holding(y) : \/ i = p /\ LsnAt(y, i) = nextLsn
                               \/ i < p /\ i \in Holding(tx[t]) /\ LsnAt(y, i) = LsnAt(tx[t], i),
         Holding(y) \subseteq Nat
  PROVE  Ahead(y, disk.wal)
<1>1. Behind(disk, nextLsn) /\ Reserved(disk, nextLsn, held)
  BY DEF WInv, Fresh
<1>2. ASSUME NEW i \in Holding(tx[t]) PROVE LsnAt(tx[t], i) < nextLsn
  <2>1. i \in DOMAIN held[t] /\ held[t][i] = LsnAt(tx[t], i)
    BY HeldEach
  <2>2. held[t][i] \in disk.ckpt.lsn .. nextLsn - 1
    BY <1>1, <2>1 DEF Reserved
  <2>3. nextLsn \in Nat /\ disk.ckpt.lsn \in Nat
    BY <1>1 DEF Behind, WInv, LogOK
  <2> DEFINE h == held[t][i]
             a == disk.ckpt.lsn
  <2>4. h \in a .. nextLsn - 1 /\ a \in Nat
    BY <2>2, <2>3
  <2> HIDE DEF h, a
  <2>5. h < nextLsn
    BY <2>3, <2>4
  <2> QED BY <2>1, <2>5 DEF h
<1>3. \A i \in Holding(y) : \A j \in DOMAIN disk.wal : disk.wal[j].lsn < LsnAt(y, i)
  BY <1>1 DEF Behind, Ahead
<1>4. ASSUME NEW i \in Holding(y), NEW j \in Holding(y), i < j PROVE LsnAt(y, i) < LsnAt(y, j)
  <2>1. i \in Nat /\ j \in Nat
    OBVIOUS
  <2>2. i # p /\ i \in Holding(tx[t]) /\ LsnAt(y, i) = LsnAt(tx[t], i)
    BY <1>4, <2>1
  <2>3. CASE j = p
    BY <1>2, <2>2, <2>3
  <2>4. CASE j # p
    BY <1>4, <2>2, <2>4 DEF Ahead
  <2> QED BY <2>3, <2>4
<1> QED BY <1>3, <1>4 DEF Ahead

\* A step that writes the entry held at place p, before all others.
LEMMA LogGrows ==
  ASSUME WInv, CInv, up = "up", NEW t \in Txns, Running(t), NEW p \in Holding(tx[t]),
         NEW e \in Entries, e.lsn = LsnAt(tx[t], p), append_wal(e), NEW y,
         \A i \in Holding(y) : p < i /\ i \in Holding(tx[t]) /\ LsnAt(y, i) = LsnAt(tx[t], i)
  PROVE  Recovery(disk') = ReplayEntry(Rec, e) /\ Rising(disk'.wal) /\ Ahead(y, disk'.wal)
<1>1. LogOK(disk) /\ Rising(disk.wal) /\ Ahead(tx[t], disk.wal)
  BY RunsIn
<1> DEFINE c == [disk EXCEPT !.wal = Append(@, e)]
<1>2. c.ckpt = disk.ckpt /\ c.wal = Append(disk.wal, e) /\ disk' = c
  BY <1>1 DEF LogOK, append_wal
<1> HIDE DEF c
<1>3. \A j \in DOMAIN disk.wal : disk.wal[j].lsn < e.lsn
  BY <1>1 DEF Ahead
<1>4. Recovery(c) = ReplayEntry(Rec, e) /\ Rising(c.wal)
  BY <1>1, <1>2, <1>3, RecoveryAppends DEF Rec
<1>5. disk.wal \in Seq(Entries)
  BY <1>1 DEF LogOK
<1>6. \A j \in DOMAIN c.wal : c.wal[j] = e \/ (j \in DOMAIN disk.wal /\ c.wal[j] = disk.wal[j])
  BY <1>2, <1>5
<1>7. Ahead(y, c.wal)
  <2>1. ASSUME NEW i \in Holding(y), NEW j \in DOMAIN c.wal PROVE c.wal[j].lsn < LsnAt(y, i)
    <3>1. e.lsn < LsnAt(y, i)
      BY <1>1 DEF Ahead
    <3>2. j \in DOMAIN disk.wal => disk.wal[j].lsn < LsnAt(y, i)
      BY <1>1 DEF Ahead
    <3> QED BY <1>6, <3>1, <3>2
  <2>2. \A i, j \in Holding(y) : i < j => LsnAt(y, i) < LsnAt(y, j)
    BY <1>1 DEF Ahead
  <2> QED BY <2>1, <2>2 DEF Ahead
<1> QED BY <1>2, <1>4, <1>7

-----------------------------------------------------------------------------
(* The crash invariant, one lemma per action.                                *)

LEMMA BeginDrawKeeps ==
  ASSUME WInv, CInv, ~Overlap, NEW t \in Txns, BeginDraw(t)
  PROVE  CInv'
<1> DEFINE y == [tx[t] EXCEPT !.pc = "begin", !.id = nextId, !.start = clock]
<1>1. /\ up = "up" /\ up' = "up" /\ tx[t].pc = "idle" /\ tx' = [tx EXCEPT ![t] = y]
      /\ disk' = disk /\ cells' = cells /\ promise' = promise
      /\ clock' = clock + 1 /\ nextId' = nextId + 1 /\ active' = active
      /\ \A u \in 1 .. t - 1 : tx[u].pc # "idle"
      /\ \A u \in Txns : ~Running(u)
  BY DEF BeginDraw, At
<1>2. y \in TxRecords /\ y.pc = "begin" /\ y.id = nextId /\ y.start = clock /\ y.redo = tx[t].redo
  BY TxTyped DEF TxRecords, Places, Joined
<1> HIDE DEF y
<1>3. OnlyTx(t) /\ tx'[t] = y
  BY <1>1, <1>2, SetsTx
<1>4. t \in Nat /\ t >= 1 /\ clock \in Nat /\ \A u \in Txns : u \in Nat /\ u >= 1
  BY TxTyped, TokensDistinct DEF Txns
<1>5. OneByOne /\ Early(clock) /\ RecOK(Rec, promise) /\ Early(Rec.clock) /\ Rising(disk.wal)
      /\ Consistent(Runner, Rec, cells, promise, active, nextId)
  BY <1>1 DEF CInv
<1>6. Runner = Over
  BY <1>1, NobodyIs DEF Runner, Running
<1>7. Consistent(y, Rec, cells, promise, active, nextId + 1)
  <2>1. y.redo = <<>>
    BY <1>1, <1>2, <1>5 DEF OneByOne
  <2> QED BY <1>2, <1>5, <1>6, <2>1, OverTyped, BeginsConsistent
<1>8. \A u \in Txns : tx'[u].pc = "idle" => tx[u].pc = "idle" /\ u # t /\ tx'[u] = tx[u] /\ t < u
  <2> SUFFICES ASSUME NEW u \in Txns, tx'[u].pc = "idle" PROVE tx[u].pc = "idle" /\ u # t /\ tx'[u] = tx[u] /\ t < u
    OBVIOUS
  <2>1. u # t /\ tx'[u] = tx[u]
    BY <1>2, <1>3 DEF OnlyTx
  <2>2. u \notin 1 .. t - 1
    BY <1>1, <2>1
  <2> QED BY <1>4, <2>1, <2>2
<1>9. \A u \in Txns : u # t => tx'[u].pc \in {"idle", "done"} /\ tx'[u] = tx[u]
  BY <1>1, <1>3 DEF OnlyTx, Running
<1>10. OneByOne'
  <2>1. \A u, v \in Txns : Running(u)' /\ Running(v)' => u = v
    BY <1>9 DEF Running
  <2>2. \A u, v \in Txns : tx'[u].pc # "idle" /\ tx'[v].pc = "idle" => u < v
    <3> SUFFICES ASSUME NEW u \in Txns, NEW v \in Txns, tx'[u].pc # "idle", tx'[v].pc = "idle" PROVE u < v
      OBVIOUS
    <3>1. CASE u = t
      BY <1>8, <3>1
    <3>2. CASE u # t
      BY <1>5, <1>8, <1>9, <3>2 DEF OneByOne
    <3> QED BY <3>1, <3>2
  <2>3. \A u \in Txns : tx'[u].pc = "idle" => tx'[u].redo = <<>>
    BY <1>5, <1>8 DEF OneByOne
  <2> QED BY <2>1, <2>2, <2>3 DEF OneByOne
<1>11. Rec' = Rec
  BY <1>1 DEF Rec
<1>12. Early(Rec.clock)'
  BY <1>5, <1>8, <1>11 DEF Early
<1>13. clock <= 2 * t - 1
  BY <1>1, <1>5 DEF Early
<1>14. Early(clock)'
  <2> SUFFICES ASSUME NEW u \in Txns, tx'[u].pc = "idle" PROVE clock + 1 <= 2 * u - 1
    BY <1>1 DEF Early
  <2>1. t < u /\ u \in Nat
    BY <1>4, <1>8
  <2> QED BY <1>4, <1>13, <2>1
<1>15. Runner' = y
  <2> DEFINE X == tx'
  <2>1. X[t] = y /\ X[t].pc \notin {"idle", "done"} /\ \A u \in Txns : u # t => X[u].pc \in {"idle", "done"}
    BY <1>2, <1>3, <1>9
  <2>2. Runner' = RunnerIn(X)
    BY DEF Runner
  <2> HIDE DEF X
  <2> QED BY <2>1, <2>2, RunnerIs
<1>16. InTime(t)' /\ Ahead(tx'[t], disk'.wal)
  <2>1. Holding(y) = {}
    BY <1>2 DEF Holding
  <2>2. Ahead(y, disk'.wal)
    BY <2>1, AheadEmpty
  <2>3. clock < clock + 1 /\ clock + 1 <= 2 * t
    BY <1>4, <1>13
  <2>4. InTime(t)'
    BY <1>1, <1>2, <1>3, <2>3 DEF InTime, Promoting
  <2> QED BY <1>3, <2>2, <2>4
<1>17. \A u \in Txns : Running(u)' => u = t
  BY <1>9 DEF Running
<1>18. RecOK(Rec', promise') /\ Rising(disk'.wal) /\ Consistent(Runner', Rec', cells', promise', active', nextId')
  BY <1>1, <1>5, <1>7, <1>11, <1>15
<1> QED BY <1>10, <1>12, <1>14, <1>16, <1>17, <1>18 DEF CInv

LEMMA BeginRegisterKeeps ==
  ASSUME WInv, CInv, NEW t \in Txns, BeginRegister(t)
  PROVE  CInv'
<1> DEFINE y == [tx[t] EXCEPT !.pc = "log", !.lsn = nextLsn]
<1>1. /\ up = "up" /\ up' = "up" /\ tx[t].pc = "begin" /\ tx' = [tx EXCEPT ![t] = y]
      /\ disk' = disk /\ cells' = cells /\ promise' = promise /\ clock' = clock /\ nextId' = nextId
      /\ active' = active \cup {tx[t].id}
  BY DEF BeginRegister, At
<1>2. y \in TxRecords /\ y.pc = "log" /\ y.id = tx[t].id /\ y.lsn = nextLsn /\ y.start = tx[t].start /\ y.redo = tx[t].redo
  BY <1>1, TxTyped DEF TxRecords, Places, Joined
<1> HIDE DEF y
<1>3. OnlyTx(t) /\ tx'[t] = y /\ Running(t)
  BY <1>1, <1>2, SetsTx DEF Running
<1>4. Consistent(tx[t], Rec, cells, promise, active, nextId) /\ InTime(t) /\ Ahead(tx[t], disk.wal) /\ Early(clock)
  BY <1>1, <1>3, RunsIn
<1>5. MarksIn(cells, active \cup {tx[t].id}, nextId)
  BY <1>4 DEF Consistent, MarksIn
<1>6. Consistent(y, Rec, cells, promise, active \cup {tx[t].id}, nextId)
  BY <1>1, <1>2, <1>4, <1>5, QuietConsistent DEF Writing, Unpromoted, Promoting
<1>7. Ahead(y, disk.wal)
  <2>1. Holding(y) = {0} /\ LsnAt(y, 0) = nextLsn
    BY <1>2 DEF Holding, LsnAt
  <2> QED BY <1>1, <1>4, <2>1, AheadDraw
<1>8. InTime(t)'
  BY <1>1, <1>2, <1>3, <1>4, StaysInTime DEF Promoting
<1> QED BY <1>1, <1>2, <1>3, <1>4, <1>6, <1>7, <1>8, SameLog

LEMMA WriteKeeps ==
  ASSUME WInv, CInv, ~BlindWrites, NEW t \in Txns, NEW op \in Ops, Write(t, op)
  PROVE  CInv'
<1> DEFINE y == [tx[t] EXCEPT !.redo = Append(tx[t].redo, op)]
<1>1. /\ up = "up" /\ up' = "up" /\ tx[t].pc = "run" /\ tx' = [tx EXCEPT ![t] = y]
      /\ disk' = disk /\ promise' = promise /\ clock' = clock /\ nextId' = nextId /\ active' = active
  BY DEF Write, At
<1>2. /\ cells[op.key].cts # tx[t].id /\ Accepts(cells[op.key], op, tx[t].id, tx[t].start)
      /\ op.name = "create" \/ cells[op.key].data # "tomb"
      /\ cells' = [cells EXCEPT ![op.key] = Written(cells[op.key], op, tx[t].id)]
  BY DEF Write
<1>3. /\ y \in TxRecords /\ y.pc = "run" /\ y.id = tx[t].id /\ y.start = tx[t].start
      /\ y.redo = Append(tx[t].redo, op)
  <2>1. op \in RedoOps
    BY DEF Ops, RedoOps
  <2>2. Append(tx[t].redo, op) \in Seq(RedoOps)
    BY <2>1, TxTyped
  <2> QED BY <1>1, <2>2, TxTyped DEF TxRecords
<1> HIDE DEF y
<1>4. OnlyTx(t) /\ tx'[t] = y /\ Running(t)
  BY <1>1, <1>3, SetsTx DEF Running
<1>5. /\ Consistent(tx[t], Rec, cells, promise, active, nextId) /\ InTime(t) /\ Early(clock)
      /\ tx[t].id < nextId /\ tx[t].id \in active /\ tx[t] \in TxRecords
  BY <1>1, <1>4, RunsIn, TxTyped DEF Joined
<1> DEFINE c == cells'
<1>6. c = [cells EXCEPT ![op.key] = Written(cells[op.key], op, tx[t].id)]
  BY <1>2
<1> HIDE DEF c
<1>7. Consistent(y, Rec, c, promise, active, nextId)
  BY <1>1, <1>2, <1>3, <1>5, <1>6, WritesConsistent
<1>8. Holding(y) = {}
  BY <1>3 DEF Holding
<1>9. Ahead(y, disk.wal)
  BY <1>8, AheadEmpty
<1>10. InTime(t)'
  BY <1>1, <1>3, <1>4, <1>5, StaysInTime DEF Promoting
<1>11. Consistent(tx'[t], Rec, cells', promise', active', nextId')
  BY <1>1, <1>4, <1>7 DEF c
<1> QED BY <1>1, <1>3, <1>4, <1>5, <1>9, <1>10, <1>11, SameLog

LEMMA CommitDrawTsKeeps ==
  ASSUME WInv, CInv, NEW t \in Txns, CommitDrawTs(t)
  PROVE  CInv'
<1> DEFINE y == [tx[t] EXCEPT !.pc = "commit", !.cts = clock]
<1>1. /\ up = "up" /\ up' = "up" /\ tx[t].pc = "run" /\ tx' = [tx EXCEPT ![t] = y] /\ clock' = clock + 1
      /\ disk' = disk /\ cells' = cells /\ promise' = promise /\ nextId' = nextId /\ active' = active
  BY DEF CommitDrawTs, At
<1>2. /\ y \in TxRecords /\ y.pc = "commit" /\ y.id = tx[t].id /\ y.start = tx[t].start /\ y.cts = clock
      /\ y.redo = tx[t].redo
  BY TxTyped DEF TxRecords, Places, Joined
<1> HIDE DEF y
<1>3. OnlyTx(t) /\ tx'[t] = y /\ Running(t)
  BY <1>1, <1>2, SetsTx DEF Running
<1>4. Consistent(tx[t], Rec, cells, promise, active, nextId) /\ InTime(t) /\ Early(clock) /\ OneByOne
  BY <1>1, <1>3, RunsIn
<1>5. Consistent(y, Rec, cells, promise, active, nextId)
  <2>1. SameWrites(tx[t], y) /\ Pending(y) = Pending(tx[t])
    BY <1>1, <1>2 DEF SameWrites, Pending
  <2> QED BY <1>1, <1>2, <1>4, <2>1, GoesOnConsistent DEF Writing, Unpromoted, Promoting
<1>6. Holding(y) = {}
  BY <1>2 DEF Holding
<1>7. Ahead(y, disk.wal)
  BY <1>6, AheadEmpty
<1>8. clock \in Nat /\ t \in 1 .. MaxTxn /\ clock <= 2 * t /\ tx[t].start < clock /\ tx[t].start \in Nat
  BY <1>1, <1>4, TxTyped DEF Txns, InTime
<1>9. ~is_txn_id(clock) /\ clock < clock + 1 /\ tx[t].start < clock + 1
  BY <1>8, TokensDistinct DEF is_txn_id
<1>10. InTime(t)'
  BY <1>1, <1>2, <1>3, <1>9 DEF InTime
<1>11. Early(clock')
  <2> SUFFICES ASSUME NEW u \in Txns, tx[u].pc = "idle" PROVE clock + 1 <= 2 * u - 1
    BY <1>1 DEF Early
  <2>1. t < u /\ u \in Nat
    BY <1>1, <1>4, TokensDistinct DEF OneByOne, Txns
  <2> QED BY <1>8, <2>1
<1>12. Consistent(tx'[t], Rec, cells', promise', active', nextId')
  BY <1>1, <1>3, <1>5
<1> QED BY <1>1, <1>2, <1>3, <1>7, <1>10, <1>11, <1>12, SameLog

LEMMA CommitPromoteKeeps ==
  ASSUME WInv, CInv, NEW t \in Txns, CommitPromote(t)
  PROVE  CInv'
<1> DEFINE y == [tx[t] EXCEPT !.pc = "assign", !.pos = 1]
<1>1. /\ up = "up" /\ up' = "up" /\ tx[t].pc = "commit" /\ tx' = [tx EXCEPT ![t] = y] /\ clock' = clock
      /\ disk' = disk /\ promise' = promise /\ nextId' = nextId /\ active' = active
      /\ cells' = Promoted(cells, tx[t].id, tx[t].cts)
  BY DEF CommitPromote, At
<1>2. /\ y \in TxRecords /\ y.pc = "assign" /\ y.id = tx[t].id /\ y.start = tx[t].start /\ y.cts = tx[t].cts
      /\ y.redo = tx[t].redo /\ y.pos = 1
  BY TxTyped DEF TxRecords, Places, Joined
<1> HIDE DEF y
<1>3. OnlyTx(t) /\ tx'[t] = y /\ Running(t)
  BY <1>1, <1>2, SetsTx DEF Running
<1>4. /\ Consistent(tx[t], Rec, cells, promise, active, nextId) /\ InTime(t) /\ Early(clock) /\ tx[t] \in TxRecords
      /\ ~is_txn_id(tx[t].cts)
  BY <1>1, <1>3, RunsIn, TxTyped DEF InTime
<1> DEFINE c == cells'
<1>5. c = Promoted(cells, tx[t].id, tx[t].cts)
  BY <1>1
<1> HIDE DEF c
<1>6. Consistent(y, Rec, c, promise, active, nextId)
  BY <1>1, <1>2, <1>4, <1>5, PromoteConsistent
<1>7. Holding(y) = {}
  BY <1>2 DEF Holding
<1>8. Ahead(y, disk.wal)
  BY <1>7, AheadEmpty
<1>9. InTime(t)'
  BY <1>1, <1>2, <1>3, <1>4, StaysInTime
<1>10. Consistent(tx'[t], Rec, cells', promise', active', nextId')
  BY <1>1, <1>3, <1>6 DEF c
<1> QED BY <1>1, <1>2, <1>3, <1>4, <1>8, <1>9, <1>10, SameLog

LEMMA AssignLsnKeeps ==
  ASSUME WInv, CInv, NEW t \in Txns, AssignLsn(t)
  PROVE  CInv'
<1> DEFINE p == tx[t].pos
           o == [tx[t].redo[p] EXCEPT !.lsn = nextLsn]
           r == [tx[t].redo EXCEPT ![p] = o]
<1>1. /\ up = "up" /\ up' = "up" /\ tx[t].pc = "assign" /\ cells' = cells /\ promise' = promise
      /\ disk' = disk /\ clock' = clock /\ nextId' = nextId /\ active' = active
  BY DEF AssignLsn, At
<1>2. p \in Nat /\ p \in 1 .. Len(tx[t].redo) + 1 /\ tx[t].redo \in Seq(RedoOps) /\ nextLsn \in Nat
  BY <1>1, TxTyped DEF PosOK
<1>3. Running(t)
  BY <1>1 DEF Running
<1>4. Consistent(tx[t], Rec, cells, promise, active, nextId) /\ InTime(t) /\ Early(clock) /\ Ahead(tx[t], disk.wal)
  BY <1>1, <1>3, RunsIn
<1>5. CASE p <= Len(tx[t].redo)
  <2> DEFINE y == [tx[t] EXCEPT !.redo = r, !.pos = p + 1]
  <2>1. tx' = [tx EXCEPT ![t] = y] /\ nextLsn' = nextLsn + 1
    <3>1. tx' = [tx EXCEPT ![t].redo[tx[t].pos].lsn = nextLsn, ![t].pos = @ + 1] /\ nextLsn' = nextLsn + 1
      BY <1>5 DEF AssignLsn
    <3>2. tx \in [Txns -> TxRecords]
      BY DEF WInv
    <3> QED BY <3>1, <3>2
  <2>2. /\ r \in Seq(RedoOps) /\ Len(r) = Len(tx[t].redo) /\ r[p].lsn = nextLsn
        /\ r[p].name = tx[t].redo[p].name /\ r[p].key = tx[t].redo[p].key /\ r[p].val = tx[t].redo[p].val
        /\ \A i \in 1 .. Len(tx[t].redo) : i # p => r[i] = tx[t].redo[i]
    <3>1. tx[t].redo[p] \in RedoOps /\ p \in 1 .. Len(tx[t].redo) /\ p \in DOMAIN tx[t].redo
      BY <1>2, <1>5
    <3>2. /\ o \in RedoOps /\ o.lsn = nextLsn
          /\ o.name = tx[t].redo[p].name /\ o.key = tx[t].redo[p].key /\ o.val = tx[t].redo[p].val
      BY <1>2, <3>1 DEF RedoOps
    <3> HIDE DEF o
    <3> QED BY <1>2, <3>1, <3>2
  <2> HIDE DEF r
  <2>3. /\ y \in TxRecords /\ y.pc = "assign" /\ y.id = tx[t].id /\ y.start = tx[t].start /\ y.cts = tx[t].cts
        /\ y.redo = r /\ y.pos = p + 1
    <3>1. p + 1 \in Nat
      BY <1>2
    <3> HIDE DEF p
    <3> QED BY <1>1, <2>2, <3>1, TxTyped DEF TxRecords
  <2> HIDE DEF y
  <2>4. OnlyTx(t) /\ tx'[t] = y
    BY <2>1, <2>3, SetsTx
  <2>5. SameWrites(tx[t], y) /\ Pending(y) = Pending(tx[t])
    <3>1. DOMAIN tx[t].redo = 1 .. Len(tx[t].redo) /\ DOMAIN r = 1 .. Len(tx[t].redo)
      BY <1>2, <2>2
    <3>2. \A i \in 1 .. Len(tx[t].redo) :
             r[i].name = tx[t].redo[i].name /\ r[i].key = tx[t].redo[i].key /\ r[i].val = tx[t].redo[i].val
      BY <2>2
    <3> QED BY <1>1, <2>3, <3>1, <3>2 DEF SameWrites, Pending
  <2>6. Consistent(y, Rec, cells, promise, active, nextId)
    BY <1>1, <1>4, <2>3, <2>5, GoesOnConsistent DEF Writing, Unpromoted, Promoting
  <2>7. Ahead(y, disk.wal)
    <3>1. (p + 1) - 1 = p
      BY <1>2
    <3>2. Holding(tx[t]) = 1 .. p - 1
      BY <1>1 DEF Holding
    <3>3. Holding(y) = 1 .. p
      <4> HIDE DEF p
      <4> QED BY <2>3, <3>1 DEF Holding
    <3>4. ASSUME NEW i \in 1 .. p
          PROVE  \/ i = p /\ LsnAt(y, i) = nextLsn
                 \/ i < p /\ i \in 1 .. p - 1 /\ LsnAt(y, i) = LsnAt(tx[t], i)
      <4>1. LsnAt(y, i) = r[i].lsn /\ LsnAt(tx[t], i) = tx[t].redo[i].lsn
        BY <1>2, <2>3 DEF LsnAt
      <4> QED BY <1>2, <1>5, <2>2, <4>1
    <3>5. 1 .. p \subseteq Nat
      BY <1>2
    <3> HIDE DEF p
    <3> QED BY <1>1, <1>2, <1>4, <3>2, <3>3, <3>4, <3>5, AheadDraw
  <2>8. InTime(t)'
    BY <1>1, <1>4, <2>3, <2>4, StaysInTime DEF Promoting
  <2>9. Consistent(tx'[t], Rec, cells', promise', active', nextId')
    BY <1>1, <2>4, <2>6
  <2> QED BY <1>1, <1>3, <1>4, <2>3, <2>4, <2>7, <2>8, <2>9, SameLog
<1>6. CASE ~ (p <= Len(tx[t].redo))
  <2> DEFINE y == [tx[t] EXCEPT !.pc = "flush", !.pos = 1]
  <2>1. tx' = [tx EXCEPT ![t] = y] /\ nextLsn' = nextLsn
    BY <1>6 DEF AssignLsn
  <2>2. /\ y \in TxRecords /\ y.pc = "flush" /\ y.id = tx[t].id /\ y.redo = tx[t].redo /\ y.pos = 1
        /\ y.start = tx[t].start /\ y.cts = tx[t].cts
    BY TxTyped DEF TxRecords, Places, Joined
  <2> HIDE DEF y
  <2>3. OnlyTx(t) /\ tx'[t] = y
    BY <2>1, <2>2, SetsTx
  <2>4. p = Len(tx[t].redo) + 1 /\ Len(tx[t].redo) \in Nat /\ DOMAIN tx[t].redo = 1 .. Len(tx[t].redo)
    BY <1>2, <1>6
  <2>5. Holding(y) = 1 .. Len(tx[t].redo) /\ Holding(tx[t]) = 1 .. Len(tx[t].redo)
    BY <1>1, <2>2, <2>4 DEF Holding
  <2>6. \A i \in Holding(y) : i \in Holding(tx[t]) /\ LsnAt(y, i) = LsnAt(tx[t], i)
    BY <2>2, <2>4, <2>5 DEF LsnAt
  <2>7. Ahead(y, disk.wal)
    BY <1>4, <2>6 DEF Ahead
  <2>8. SameWrites(tx[t], y) /\ Pending(y) = Pending(tx[t])
    BY <1>1, <2>2, <2>4 DEF SameWrites, Pending
  <2>9. Consistent(y, Rec, cells, promise, active, nextId)
    BY <1>1, <1>4, <2>2, <2>8, GoesOnConsistent DEF Writing, Unpromoted, Promoting
  <2>10. InTime(t)'
    BY <1>1, <1>4, <2>2, <2>3, StaysInTime DEF Promoting
  <2>11. Consistent(tx'[t], Rec, cells', promise', active', nextId')
    BY <1>1, <2>3, <2>9
  <2> QED BY <1>1, <1>3, <1>4, <2>2, <2>3, <2>7, <2>10, <2>11, SameLog
<1> QED BY <1>5, <1>6

LEMMA CommitDrawLsnKeeps ==
  ASSUME WInv, CInv, NEW t \in Txns, CommitDrawLsn(t)
  PROVE  CInv'
<1> DEFINE y == [tx[t] EXCEPT !.pc = "mark", !.lsn = nextLsn]
<1>1. /\ up = "up" /\ up' = "up" /\ tx[t].pc = "flush" /\ tx' = [tx EXCEPT ![t] = y] /\ clock' = clock
      /\ disk' = disk /\ cells' = cells /\ promise' = promise /\ nextId' = nextId /\ active' = active
      /\ tx[t].pos > Len(tx[t].redo)
  BY DEF CommitDrawLsn, At
<1>2. /\ y \in TxRecords /\ y.pc = "mark" /\ y.id = tx[t].id /\ y.start = tx[t].start /\ y.cts = tx[t].cts
      /\ y.redo = tx[t].redo /\ y.lsn = nextLsn
  BY <1>1, TxTyped DEF TxRecords, Places, Joined
<1> HIDE DEF y
<1>3. OnlyTx(t) /\ tx'[t] = y /\ Running(t)
  BY <1>1, <1>2, SetsTx DEF Running
<1>4. Consistent(tx[t], Rec, cells, promise, active, nextId) /\ InTime(t) /\ Early(clock) /\ Ahead(tx[t], disk.wal)
  BY <1>1, <1>3, RunsIn
<1>5. SameWrites(tx[t], y) /\ Pending(y) = Pending(tx[t])
  <2>1. tx[t].pos .. Len(tx[t].redo) = {}
    <3>1. tx[t].pos \in Nat /\ Len(tx[t].redo) \in Nat
      BY TxTyped
    <3> DEFINE a == tx[t].pos
               b == Len(tx[t].redo)
    <3>2. a \in Nat /\ b \in Nat /\ a > b
      BY <1>1, <3>1
    <3> HIDE DEF a, b
    <3>3. a .. b = {}
      BY <3>2
    <3> QED BY <3>3 DEF a, b
  <2> QED BY <1>1, <1>2, <2>1 DEF SameWrites, Pending
<1>6. Consistent(y, Rec, cells, promise, active, nextId)
  BY <1>1, <1>2, <1>4, <1>5, GoesOnConsistent DEF Writing, Unpromoted, Promoting
<1>7. Ahead(y, disk.wal)
  <2>1. Holding(y) = {0} /\ LsnAt(y, 0) = nextLsn
    BY <1>2 DEF Holding, LsnAt
  <2> QED BY <1>1, <1>4, <2>1, AheadDraw
<1>8. InTime(t)'
  BY <1>1, <1>2, <1>3, <1>4, StaysInTime DEF Promoting
<1>9. Consistent(tx'[t], Rec, cells', promise', active', nextId')
  BY <1>1, <1>3, <1>6
<1> QED BY <1>1, <1>2, <1>3, <1>4, <1>7, <1>8, <1>9, SameLog

LEMMA AbortRestoreKeeps ==
  ASSUME WInv, CInv, NEW t \in Txns, AbortRestore(t)
  PROVE  CInv'
<1> DEFINE y == [tx[t] EXCEPT !.pc = "abort", !.lsn = nextLsn]
<1>1. /\ up = "up" /\ up' = "up" /\ tx[t].pc = "run" /\ tx' = [tx EXCEPT ![t] = y] /\ clock' = clock
      /\ disk' = disk /\ promise' = promise /\ nextId' = nextId /\ active' = active
      /\ cells' = Restored(cells, tx[t].id)
  BY DEF AbortRestore, At
<1>2. y \in TxRecords /\ y.pc = "abort" /\ y.id = tx[t].id /\ y.start = tx[t].start /\ y.lsn = nextLsn
  BY <1>1, TxTyped DEF TxRecords, Places, Joined
<1> HIDE DEF y
<1>3. OnlyTx(t) /\ tx'[t] = y /\ Running(t)
  BY <1>1, <1>2, SetsTx DEF Running
<1>4. /\ Consistent(tx[t], Rec, cells, promise, active, nextId) /\ InTime(t) /\ Early(clock) /\ Ahead(tx[t], disk.wal)
      /\ tx[t] \in TxRecords
  BY <1>1, <1>3, RunsIn, TxTyped
<1> DEFINE c == cells'
<1>5. c = Restored(cells, tx[t].id)
  BY <1>1
<1> HIDE DEF c
<1>6. Consistent(y, Rec, c, promise, active, nextId)
  BY <1>1, <1>2, <1>4, <1>5, AbortConsistent
<1>7. Ahead(y, disk.wal)
  <2>1. Holding(y) = {0} /\ LsnAt(y, 0) = nextLsn
    BY <1>2 DEF Holding, LsnAt
  <2> QED BY <1>1, <1>4, <2>1, AheadDraw
<1>8. InTime(t)'
  BY <1>1, <1>2, <1>3, <1>4, StaysInTime DEF Promoting
<1>9. Consistent(tx'[t], Rec, cells', promise', active', nextId')
  BY <1>1, <1>3, <1>6 DEF c
<1> QED BY <1>1, <1>2, <1>3, <1>4, <1>7, <1>8, <1>9, SameLog

LEMMA CheckpointLockKeeps ==
  ASSUME WInv, CInv, NEW t \in Txns, CheckpointLock(t)
  PROVE  CInv'
<1> DEFINE y == [tx[t] EXCEPT !.pc = "drain"]
<1>1. /\ up = "up" /\ up' = "up" /\ tx[t].pc = "due" /\ tx' = [tx EXCEPT ![t] = y] /\ clock' = clock
      /\ disk' = disk /\ cells' = cells /\ promise' = promise /\ nextId' = nextId /\ active' = active
  BY DEF CheckpointLock, At, memVars
<1>2. y \in TxRecords /\ y.pc = "drain" /\ y.id = tx[t].id /\ y.start = tx[t].start
  BY TxTyped DEF TxRecords, Places, Joined
<1> HIDE DEF y
<1>3. OnlyTx(t) /\ tx'[t] = y /\ Running(t)
  BY <1>1, <1>2, SetsTx DEF Running
<1>4. Consistent(tx[t], Rec, cells, promise, active, nextId) /\ InTime(t) /\ Early(clock) /\ MarksIn(cells, active, nextId)
  BY <1>1, <1>3, RunsIn DEF Consistent
<1>5. Consistent(y, Rec, cells, promise, active, nextId)
  BY <1>1, <1>2, <1>4, QuietConsistent DEF Writing, Unpromoted, Promoting
<1>6. Holding(y) = {}
  BY <1>2 DEF Holding
<1>7. Ahead(y, disk.wal)
  BY <1>6, AheadEmpty
<1>8. InTime(t)'
  BY <1>1, <1>2, <1>3, <1>4, StaysInTime DEF Promoting
<1>9. Consistent(tx'[t], Rec, cells', promise', active', nextId')
  BY <1>1, <1>3, <1>5
<1> QED BY <1>1, <1>2, <1>3, <1>4, <1>7, <1>8, <1>9, SameLog

LEMMA CommitFinishKeeps ==
  ASSUME WInv, CInv, NEW t \in Txns, CommitFinish(t)
  PROVE  CInv'
<1> DEFINE y == IF CheckpointDue THEN [tx[t] EXCEPT !.pc = "due"] ELSE Over
<1>1. /\ up = "up" /\ up' = "up" /\ tx[t].pc = "finish" /\ tx' = [tx EXCEPT ![t] = y] /\ clock' = clock
      /\ disk' = disk /\ cells' = cells /\ promise' = promise /\ nextId' = nextId
      /\ active' = active \ {tx[t].id}
  BY DEF CommitFinish, At
<1>2. y \in TxRecords /\ (y = Over \/ (y.pc = "due" /\ y.id = tx[t].id /\ y.start = tx[t].start))
  <2>1. [tx[t] EXCEPT !.pc = "due"] \in TxRecords /\ [tx[t] EXCEPT !.pc = "due"].pc = "due"
        /\ [tx[t] EXCEPT !.pc = "due"].id = tx[t].id /\ [tx[t] EXCEPT !.pc = "due"].start = tx[t].start
    BY TxTyped DEF TxRecords, Places
  <2>2. Over \in TxRecords
    BY OverTyped
  <2> QED BY <2>1, <2>2
<1>3. y.pc \in {"done", "due"} /\ (y.pc = "done" => y = Over)
      /\ (y.pc # "done" => y.pc = "due" /\ y.id = tx[t].id /\ y.start = tx[t].start)
  BY <1>2, OverTyped
<1> HIDE DEF y
<1>4. OnlyTx(t) /\ tx'[t] = y /\ Running(t)
  BY <1>1, <1>2, SetsTx DEF Running
<1>5. Consistent(tx[t], Rec, cells, promise, active, nextId) /\ InTime(t) /\ Early(clock)
  BY <1>1, <1>4, RunsIn
<1>6. MarksIn(cells, active \ {tx[t].id}, nextId)
  BY <1>1, <1>5, NoMarksOf DEF Writing, Unpromoted, Promoting
<1>7. Consistent(y, Rec, cells, promise, active \ {tx[t].id}, nextId)
  BY <1>1, <1>3, <1>5, <1>6, QuietConsistent DEF Writing, Unpromoted, Promoting
<1>8. Holding(y) = {}
  BY <1>3 DEF Holding
<1>9. Ahead(y, disk.wal)
  BY <1>8, AheadEmpty
<1>10. tx'[t].pc # "done" => InTime(t)'
  BY <1>1, <1>3, <1>4, <1>5, StaysInTime DEF Promoting
<1>11. Consistent(tx'[t], Rec, cells', promise', active', nextId')
  BY <1>1, <1>4, <1>7
<1> QED BY <1>1, <1>3, <1>4, <1>5, <1>9, <1>10, <1>11, SameLog

LEMMA AbortFinishKeeps ==
  ASSUME WInv, CInv, NEW t \in Txns, AbortFinish(t)
  PROVE  CInv'
<1>1. /\ up = "up" /\ up' = "up" /\ tx[t].pc = "leave" /\ tx' = [tx EXCEPT ![t] = Over] /\ clock' = clock
      /\ disk' = disk /\ cells' = cells /\ promise' = promise /\ nextId' = nextId
      /\ active' = active \ {tx[t].id}
  BY DEF AbortFinish, At
<1>2. OnlyTx(t) /\ tx'[t] = Over /\ Running(t) /\ Over.pc = "done"
  BY <1>1, OverTyped, SetsTx DEF Running
<1>3. Consistent(tx[t], Rec, cells, promise, active, nextId) /\ Early(clock)
  BY <1>1, <1>2, RunsIn
<1>4. MarksIn(cells, active \ {tx[t].id}, nextId)
  BY <1>1, <1>3, NoMarksOf DEF Writing, Unpromoted, Promoting
<1>5. Consistent(Over, Rec, cells, promise, active \ {tx[t].id}, nextId)
  BY <1>1, <1>2, <1>3, <1>4, QuietConsistent DEF Writing, Unpromoted, Promoting
<1>6. Consistent(tx'[t], Rec, cells', promise', active', nextId')
  BY <1>1, <1>2, <1>5
<1>7. tx'[t].pc = "done"
  BY <1>2
<1> QED BY <1>1, <1>2, <1>3, <1>6, <1>7, SameLog

\* A checkpoint has started the log anew, so there is nothing to truncate.
LEMMA TruncateWalKeeps ==
  ASSUME WInv, CInv, NEW t \in Txns, TruncateWal(t)
  PROVE  CInv'
<1>1. /\ up = "up" /\ up' = "up" /\ tx[t].pc = "truncate" /\ tx' = [tx EXCEPT ![t] = Over] /\ clock' = clock
      /\ cells' = cells /\ promise' = promise /\ nextId' = nextId /\ active' = active
      /\ disk' = [disk EXCEPT !.wal = truncate_wal_until(disk.wal, disk.ckpt.lsn)]
  BY DEF TruncateWal, At
<1>2. LogOK(disk) /\ NotCovered(disk)
  BY DEF WInv
<1>3. truncate_wal_until(disk.wal, disk.ckpt.lsn) = disk.wal
  BY <1>2 DEF NotCovered, truncate_wal_until
<1> DEFINE c == disk'
<1>4. c.ckpt = disk.ckpt /\ c.wal = disk.wal
  BY <1>1, <1>2, <1>3 DEF LogOK
<1> HIDE DEF c
<1>5. Recovery(c) = Recovery(disk)
  BY <1>4 DEF Recovery
<1>6. OnlyTx(t) /\ tx'[t] = Over /\ Running(t) /\ Over.pc = "done"
  BY <1>1, OverTyped, SetsTx DEF Running
<1>7. Consistent(tx[t], Rec, cells, promise, active, nextId) /\ Early(clock) /\ Early(Rec.clock) /\ Rising(disk.wal)
      /\ MarksIn(cells, active, nextId)
  BY <1>1, <1>6, RunsIn DEF Consistent
<1>8. Consistent(Over, Rec, cells, promise, active, nextId)
  BY <1>1, <1>6, <1>7, QuietConsistent DEF Writing, Unpromoted, Promoting
<1>9. Recovery(disk') = Rec /\ Rising(disk'.wal)
  BY <1>4, <1>5, <1>7 DEF c, Rec
<1>10. Consistent(tx'[t], Rec, cells', promise', active', nextId')
  BY <1>1, <1>6, <1>8
<1>11. tx'[t].pc = "done"
  BY <1>6
<1> QED BY <1>1, <1>6, <1>7, <1>9, <1>10, <1>11, StepsOn

LEMMA EarlyLater ==
  ASSUME NEW a \in Nat, NEW b \in Nat, NEW n \in Nat, n < a, Early(a), Early(b)
  PROVE  Early(AtLeast(n + 1, b))
<1>1. \A u \in Txns : u \in Nat
  BY TokensDistinct DEF Txns
<1> QED BY <1>1 DEF Early, AtLeast

LEMMA BeginLogKeeps ==
  ASSUME WInv, CInv, NEW t \in Txns, BeginLog(t)
  PROVE  CInv'
<1> DEFINE y == [tx[t] EXCEPT !.pc = "run"]
           e == Entry(t, tx[t].lsn, [name |-> "Begin", ts |-> tx[t].start])
<1>1. /\ up = "up" /\ up' = "up" /\ tx[t].pc = "log" /\ tx' = [tx EXCEPT ![t] = y] /\ append_wal(e)
      /\ cells' = cells /\ promise' = promise /\ clock' = clock /\ nextId' = nextId /\ active' = active
  BY DEF BeginLog, At, memVars
<1>2. y \in TxRecords /\ y.pc = "run" /\ y.id = tx[t].id /\ y.start = tx[t].start /\ y.redo = tx[t].redo
  BY TxTyped DEF TxRecords, Places, Joined
<1>3. e \in Entries /\ e.lsn = tx[t].lsn /\ e.id = tx[t].id /\ e.op.name = "Begin" /\ e.op.ts = tx[t].start
  BY TxTyped DEF Entry, Entries, Marks
<1> HIDE DEF y, e
<1>4. OnlyTx(t) /\ tx'[t] = y /\ Running(t)
  BY <1>1, <1>2, SetsTx DEF Running
<1>5. /\ Consistent(tx[t], Rec, cells, promise, active, nextId) /\ InTime(t) /\ Early(clock) /\ Early(Rec.clock)
      /\ tx[t].id < nextId /\ tx[t].id \in Nat /\ tx[t].start \in Nat /\ clock \in Nat /\ Rec.clock \in Nat
  BY <1>1, <1>4, RunsIn, TxTyped
<1>6. Holding(y) = {} /\ 0 \in Holding(tx[t]) /\ LsnAt(tx[t], 0) = e.lsn
  BY <1>1, <1>2, <1>3 DEF Holding, LsnAt
<1>7. Recovery(disk') = ReplayEntry(Rec, e) /\ Rising(disk'.wal) /\ Ahead(y, disk'.wal)
  BY <1>1, <1>3, <1>4, <1>6, LogGrows
<1> DEFINE s == ReplayEntry(Rec, e)
<1>8. s = ReplayEntry(Rec, e)
  OBVIOUS
<1> HIDE DEF s
<1>9. Consistent(y, s, cells, promise, active, nextId) /\ s.clock = AtLeast(tx[t].start + 1, Rec.clock)
  BY <1>1, <1>2, <1>3, <1>5, <1>8, LogsBeginConsistent
<1>10. Early(s.clock)
  <2>1. tx[t].start < clock
    BY <1>5 DEF InTime
  <2> QED BY <1>5, <1>9, <2>1, EarlyLater
<1>11. InTime(t)'
  BY <1>1, <1>2, <1>4, <1>5, StaysInTime DEF Promoting
<1>12. Consistent(tx'[t], s, cells', promise', active', nextId')
  BY <1>1, <1>4, <1>9
<1> QED BY <1>1, <1>2, <1>4, <1>5, <1>7, <1>8, <1>10, <1>11, <1>12, StepsOn

LEMMA AppendDeltaKeeps ==
  ASSUME WInv, CInv, NEW t \in Txns, AppendDelta(t)
  PROVE  CInv'
<1> DEFINE p == tx[t].pos
           o == tx[t].redo[p]
           y == [tx[t] EXCEPT !.pos = p + 1]
           e == Entry(t, o.lsn, o)
<1>1. /\ up = "up" /\ up' = "up" /\ tx[t].pc = "flush" /\ tx' = [tx EXCEPT ![t] = y] /\ append_wal(e)
      /\ cells' = cells /\ promise' = promise /\ clock' = clock /\ nextId' = nextId /\ active' = active
      /\ p <= Len(tx[t].redo)
  BY DEF AppendDelta, At, memVars
<1>2. p \in Nat /\ p \in 1 .. Len(tx[t].redo) /\ tx[t].redo \in Seq(RedoOps) /\ Len(tx[t].redo) \in Nat
      /\ p \in DOMAIN tx[t].redo
  BY <1>1, TxTyped DEF PosOK
<1>3. /\ y \in TxRecords /\ y.pc = "flush" /\ y.id = tx[t].id /\ y.redo = tx[t].redo /\ y.pos = p + 1
      /\ y.start = tx[t].start /\ y.cts = tx[t].cts
  <2>1. p + 1 \in Nat
    BY <1>2
  <2> HIDE DEF p
  <2> QED BY <1>1, <2>1, TxTyped DEF TxRecords
<1>4. e \in Entries /\ e.lsn = o.lsn /\ e.op = o
  <2>1. o \in RedoOps
    BY <1>2
  <2> HIDE DEF o
  <2>2. o.lsn \in Nat
    BY <2>1 DEF RedoOps
  <2> QED BY <2>1, <2>2, TxTyped DEF Entry, Entries
<1> HIDE DEF y, e
<1>5. OnlyTx(t) /\ tx'[t] = y /\ Running(t)
  BY <1>1, <1>3, SetsTx DEF Running
<1>6. Holding(y) = p + 1 .. Len(tx[t].redo) /\ Holding(tx[t]) = p .. Len(tx[t].redo)
  <2>1. Holding(tx[t]) = p .. Len(tx[t].redo)
    BY <1>1 DEF Holding
  <2> HIDE DEF p
  <2> QED BY <1>3, <2>1 DEF Holding
<1>7. p \in Holding(tx[t]) /\ LsnAt(tx[t], p) = e.lsn
  BY <1>2, <1>4, <1>6 DEF LsnAt
<1>8. \A i \in Holding(y) : p < i /\ i \in Holding(tx[t]) /\ LsnAt(y, i) = LsnAt(tx[t], i)
  <2>1. \A i \in p + 1 .. Len(tx[t].redo) : p < i /\ i \in p .. Len(tx[t].redo) /\ i # 0
    BY <1>2
  <2>2. \A i : i # 0 => LsnAt(y, i) = LsnAt(tx[t], i)
    BY <1>3 DEF LsnAt
  <2> QED BY <1>6, <2>1, <2>2
<1>9. /\ Consistent(tx[t], Rec, cells, promise, active, nextId) /\ InTime(t) /\ Early(clock) /\ Early(Rec.clock)
      /\ tx[t] \in TxRecords
  BY <1>1, <1>5, RunsIn, TxTyped
<1>10. Recovery(disk') = ReplayEntry(Rec, e) /\ Rising(disk'.wal) /\ Ahead(y, disk'.wal)
  BY <1>1, <1>4, <1>5, <1>7, <1>8, LogGrows
<1> DEFINE s == ReplayEntry(Rec, e)
<1>11. s = ReplayEntry(Rec, e)
  OBVIOUS
<1> HIDE DEF s
<1>12. Consistent(y, s, cells, promise, active, nextId) /\ s.clock = Rec.clock
  BY <1>1, <1>2, <1>3, <1>4, <1>9, <1>11, DeltaConsistent
<1>13. InTime(t)'
  BY <1>1, <1>3, <1>5, <1>9, StaysInTime DEF Promoting
<1>14. Consistent(tx'[t], s, cells', promise', active', nextId')
  BY <1>1, <1>5, <1>12
<1> QED BY <1>1, <1>3, <1>5, <1>9, <1>10, <1>11, <1>12, <1>13, <1>14, StepsOn

LEMMA AppendCommitKeeps ==
  ASSUME WInv, CInv, NEW t \in Txns, AppendCommit(t)
  PROVE  CInv'
<1> DEFINE y == [tx[t] EXCEPT !.pc = "finish"]
           e == Entry(t, tx[t].lsn, [name |-> "Commit", ts |-> tx[t].cts])
<1>1. /\ up = "up" /\ up' = "up" /\ tx[t].pc = "mark" /\ tx' = [tx EXCEPT ![t] = y] /\ append_wal(e)
      /\ cells' = cells /\ promise' = Promise(promise, tx[t].redo)
      /\ clock' = clock /\ nextId' = nextId /\ active' = active
  BY DEF AppendCommit, At
<1>2. y \in TxRecords /\ y.pc = "finish" /\ y.id = tx[t].id /\ y.start = tx[t].start
  BY TxTyped DEF TxRecords, Places, Joined
<1>3. e \in Entries /\ e.lsn = tx[t].lsn /\ e.op.name = "Commit" /\ e.op.ts = tx[t].cts
  BY TxTyped DEF Entry, Entries, Marks
<1> HIDE DEF y, e
<1>4. OnlyTx(t) /\ tx'[t] = y /\ Running(t)
  BY <1>1, <1>2, SetsTx DEF Running
<1>5. /\ Consistent(tx[t], Rec, cells, promise, active, nextId) /\ InTime(t) /\ Early(clock) /\ Early(Rec.clock)
      /\ tx[t] \in TxRecords /\ tx[t].cts \in Nat /\ clock \in Nat /\ Rec.clock \in Nat
  BY <1>1, <1>4, RunsIn, TxTyped
<1>6. Holding(y) = {} /\ 0 \in Holding(tx[t]) /\ LsnAt(tx[t], 0) = e.lsn
  BY <1>1, <1>2, <1>3 DEF Holding, LsnAt
<1>7. Recovery(disk') = ReplayEntry(Rec, e) /\ Rising(disk'.wal) /\ Ahead(y, disk'.wal)
  BY <1>1, <1>3, <1>4, <1>6, LogGrows
<1> DEFINE s == ReplayEntry(Rec, e)
           q == Promise(promise, tx[t].redo)
<1>8. s = ReplayEntry(Rec, e) /\ q = Promise(promise, tx[t].redo) /\ promise' = q
  BY <1>1
<1> HIDE DEF s, q
<1>9. Consistent(y, s, cells, q, active, nextId) /\ s.clock = AtLeast(tx[t].cts + 1, Rec.clock)
  BY <1>1, <1>2, <1>3, <1>5, <1>8, CommitConsistent
<1>10. Early(s.clock)
  <2>1. tx[t].cts < clock
    BY <1>1, <1>5 DEF InTime, Promoting
  <2> QED BY <1>5, <1>9, <2>1, EarlyLater
<1>11. InTime(t)'
  BY <1>1, <1>2, <1>4, <1>5, StaysInTime DEF Promoting
<1>12. Consistent(tx'[t], s, cells', promise', active', nextId')
  BY <1>1, <1>4, <1>8, <1>9
<1> QED BY <1>1, <1>2, <1>4, <1>5, <1>7, <1>8, <1>10, <1>11, <1>12, StepsOn

LEMMA AbortLogKeeps ==
  ASSUME WInv, CInv, NEW t \in Txns, AbortLog(t)
  PROVE  CInv'
<1> DEFINE y == [tx[t] EXCEPT !.pc = "leave"]
           e == Entry(t, tx[t].lsn, [name |-> "Abort", ts |-> 0])
<1>1. /\ up = "up" /\ up' = "up" /\ tx[t].pc = "abort" /\ tx' = [tx EXCEPT ![t] = y] /\ append_wal(e)
      /\ cells' = cells /\ promise' = promise /\ clock' = clock /\ nextId' = nextId /\ active' = active
  BY DEF AbortLog, At, memVars
<1>2. y \in TxRecords /\ y.pc = "leave" /\ y.id = tx[t].id /\ y.start = tx[t].start
  BY TxTyped DEF TxRecords, Places, Joined
<1>3. e \in Entries /\ e.lsn = tx[t].lsn /\ e.op.name = "Abort"
  BY TxTyped DEF Entry, Entries, Marks
<1> HIDE DEF y, e
<1>4. OnlyTx(t) /\ tx'[t] = y /\ Running(t)
  BY <1>1, <1>2, SetsTx DEF Running
<1>5. /\ Consistent(tx[t], Rec, cells, promise, active, nextId) /\ InTime(t) /\ Early(clock) /\ Early(Rec.clock)
      /\ tx[t] \in TxRecords
  BY <1>1, <1>4, RunsIn, TxTyped
<1>6. Holding(y) = {} /\ 0 \in Holding(tx[t]) /\ LsnAt(tx[t], 0) = e.lsn
  BY <1>1, <1>2, <1>3 DEF Holding, LsnAt
<1>7. Recovery(disk') = ReplayEntry(Rec, e) /\ Rising(disk'.wal) /\ Ahead(y, disk'.wal)
  BY <1>1, <1>3, <1>4, <1>6, LogGrows
<1> DEFINE s == ReplayEntry(Rec, e)
<1>8. s = ReplayEntry(Rec, e)
  OBVIOUS
<1> HIDE DEF s
<1>9. Consistent(y, s, cells, promise, active, nextId) /\ s.clock = Rec.clock
  BY <1>1, <1>2, <1>3, <1>5, <1>8, LogsAbortConsistent
<1>10. InTime(t)'
  BY <1>1, <1>2, <1>4, <1>5, StaysInTime DEF Promoting
<1>11. Consistent(tx'[t], s, cells', promise', active', nextId')
  BY <1>1, <1>4, <1>9
<1> QED BY <1>1, <1>2, <1>4, <1>5, <1>7, <1>8, <1>9, <1>10, <1>11, StepsOn

LEMMA WriteCheckpointKeeps ==
  ASSUME WInv, CInv, NEW t \in Txns, WriteCheckpoint(t)
  PROVE  CInv'
<1> DEFINE y == [tx[t] EXCEPT !.pc = "truncate"]
<1>1. /\ up = "up" /\ up' = "up" /\ tx[t].pc = "drain" /\ tx' = [tx EXCEPT ![t] = y] /\ active = {}
      /\ cells' = cells /\ promise' = promise /\ clock' = clock /\ nextId' = nextId /\ active' = active
      /\ disk' = [ckpt |-> GraphCheckpoint, wal |-> <<>>]
  BY DEF WriteCheckpoint, At, memVars, Drained
<1>2. y \in TxRecords /\ y.pc = "truncate" /\ y.id = tx[t].id /\ y.start = tx[t].start
  BY TxTyped DEF TxRecords, Places, Joined
<1> HIDE DEF y
<1>3. OnlyTx(t) /\ tx'[t] = y /\ Running(t)
  BY <1>1, <1>2, SetsTx DEF Running
<1>4. Consistent(tx[t], Rec, cells, promise, {}, nextId) /\ InTime(t) /\ Early(clock)
  BY <1>1, <1>3, RunsIn
<1> DEFINE g == GraphCheckpoint
           c == [ckpt |-> g, wal |-> <<>>]
           s == restore(g)
<1>5. g.cells = [k \in Keys |-> [cells[k] EXCEPT !.base = NoBase]]
  BY DEF GraphCheckpoint
<1>6. c.wal = <<>> /\ c.ckpt = g /\ disk' = c
  BY <1>1
<1>7. s = restore(g)
  OBVIOUS
<1> HIDE DEF g, c, s
<1>8. Recovery(c) = s /\ Rising(c.wal)
  BY <1>6, <1>7, RecoveryRestores
<1>9. Consistent(y, s, cells, promise, {}, nextId) /\ s.clock = 1
  BY <1>1, <1>2, <1>4, <1>5, <1>7, CheckpointConsistent
<1>10. Early(s.clock)
  <2>1. \A u \in Txns : u \in Nat /\ u >= 1
    BY TokensDistinct DEF Txns
  <2> QED BY <1>9, <2>1 DEF Early
<1>11. Holding(y) = {}
  BY <1>2 DEF Holding
<1>12. Ahead(y, disk'.wal)
  BY <1>11, AheadEmpty
<1>13. InTime(t)'
  BY <1>1, <1>2, <1>3, <1>4, StaysInTime DEF Promoting
<1>14. Consistent(tx'[t], s, cells', promise', active', nextId')
  BY <1>1, <1>3, <1>9
<1>15. Recovery(disk') = s /\ Rising(disk'.wal)
  BY <1>6, <1>8
<1> QED BY <1>1, <1>2, <1>3, <1>4, <1>10, <1>12, <1>13, <1>14, <1>15, StepsOn

\* The file is untouched, and those that run are gone.
LEMMA CrashKeeps ==
  ASSUME WInv, CInv, Crash
  PROVE  CInv'
<1>1. /\ up' = "down" /\ disk' = disk /\ promise' = promise
      /\ tx' = [t \in Txns |-> IF Running(t) THEN Over ELSE tx[t]]
  BY DEF Crash
<1>2. \A t \in Txns : tx'[t].pc \in {"idle", "done"} /\ (tx'[t].pc = "idle" <=> tx[t].pc = "idle")
                      /\ (tx[t].pc = "idle" => tx'[t] = tx[t])
  BY <1>1, OverTyped DEF Running
<1>3. OneByOne
  BY DEF CInv
<1>4. OneByOne'
  BY <1>2, <1>3 DEF OneByOne, Running
<1>5. Rec' = Rec
  BY <1>1 DEF Rec
<1>6. Early(Rec.clock)'
  BY <1>2, <1>5 DEF CInv, Early
<1>7. RecOK(Rec', promise') /\ Rising(disk'.wal)
  BY <1>1, <1>5 DEF CInv
<1> QED BY <1>1, <1>4, <1>6, <1>7 DEF CInv

\* Memory is what recovery has found.
LEMMA RecoverKeeps ==
  ASSUME WInv, CInv, Recover
  PROVE  CInv'
<1>1. /\ up = "down" /\ disk' = disk /\ tx' = tx /\ promise' = promise
      /\ cells' = Rec.cells /\ active' = Rec.active /\ clock' = Rec.clock /\ nextId' = Rec.nextId
  BY DEF Recover, Rec
<1>2. \A t \in Txns : tx[t].pc \in {"idle", "done"}
  BY <1>1 DEF WInv, Running
<1>3. OneByOne /\ RecOK(Rec, promise) /\ Early(Rec.clock) /\ Rising(disk.wal)
  BY DEF CInv
<1> DEFINE r == Rec
<1>4. RecOK(r, promise)
  BY <1>3
<1> HIDE DEF r
<1>5. Consistent(Over, r, r.cells, promise, r.active, r.nextId)
  <2>1. Over.pc = "done"
    BY OverTyped
  <2>2. Current(Over, r)
    BY <2>1 DEF Current, Writing, Unpromoted, Promoting
  <2>3. r.nextId \in Nat /\ r.nextId <= r.nextId
    BY <1>4 DEF RecOK, ReplayState
  <2>4. \A k \in Keys : Agree(r.cells[k], r.cells[k])
    BY DEF Agree
  <2> QED BY <1>4, <2>1, <2>2, <2>3, <2>4 DEF Consistent, RecOK, Writing, Unpromoted, Promoting
<1>6. Rec' = Rec
  BY <1>1 DEF Rec
<1>7. Runner' = Over
  <2>1. Runner' = RunnerIn(tx)
    BY <1>1 DEF Runner
  <2> QED BY <1>2, <2>1, NobodyIs
<1>8. Consistent(Runner', Rec', cells', promise', active', nextId')
  BY <1>1, <1>5, <1>6, <1>7 DEF r
<1>9. OneByOne'
  BY <1>1, <1>3 DEF OneByOne, Running
<1>10. Early(Rec.clock)' /\ Early(clock)'
  BY <1>1, <1>3, <1>6 DEF Early
<1>11. \A t \in Txns : ~Running(t)'
  BY <1>1, <1>2 DEF Running
<1>12. RecOK(Rec', promise') /\ Rising(disk'.wal)
  BY <1>1, <1>3, <1>6
<1> QED BY <1>8, <1>9, <1>10, <1>11, <1>12 DEF CInv

LEMMA CInvInit ==
  Init => CInv
<1> SUFFICES ASSUME Init PROVE CInv
  OBVIOUS
<1>1. /\ clock = 1 /\ active = {} /\ nextId = TXN_ID_START + 1 /\ tx = [t \in Txns |-> NoTx]
      /\ disk = [ckpt |-> [lsn |-> 0, latest |-> 0, cells |-> cells], wal |-> <<>>]
      /\ promise = [k \in Keys |-> Visible(cells[k])]
      /\ cells = [k \in Keys |-> IF k \in Stored THEN Cell(CHOOSE v \in Vals : TRUE, 0, NoBase)
                                 ELSE Cell("none", 0, NoBase)]
  BY DEF Init
<1>2. NoTx.pc = "idle" /\ NoTx.redo = <<>>
  BY DEF NoTx
<1>3. \A t \in Txns : tx[t].pc = "idle" /\ tx[t].redo = <<>>
  BY <1>1, <1>2
<1>4. cells \in [Keys -> CellRecords] /\ \A k \in Keys : ~is_txn_id(cells[k].cts)
  <2>1. ASSUME NEW k \in Keys PROVE cells[k] \in CellRecords /\ ~is_txn_id(cells[k].cts)
    <3>1. ~is_txn_id(0)
      BY TokensDistinct DEF is_txn_id
    <3>2. CASE k \in Stored
      <4>1. (CHOOSE v \in Vals : TRUE) \in Data
        BY <3>2, RecoveryAssumption DEF Data
      <4> QED BY <1>1, <3>1, <3>2, <4>1 DEF Cell, CellRecords, NoBase, Data
    <3>3. CASE k \notin Stored
      BY <1>1, <3>1, <3>3 DEF Cell, CellRecords, NoBase, Data
    <3> QED BY <3>2, <3>3
  <2>2. cells = [k \in Keys |-> cells[k]]
    BY <1>1
  <2> HIDE DEF CellRecords
  <2> QED BY <2>1, <2>2
<1> DEFINE r == Rec
<1>5. r = restore(disk.ckpt) /\ Rising(disk.wal)
  BY <1>1, RecoveryRestores DEF Rec
<1>6. /\ DOMAIN r = StateFields /\ r.ok /\ r.cells = cells /\ r.active = {} /\ r.clock = 1
      /\ r.nextId = TXN_ID_START + 1 /\ r.cur = 0
  <2>1. disk.ckpt.cells = cells
    BY <1>1
  <2> HIDE DEF r
  <2> QED BY <1>5, <2>1 DEF restore, StateFields
<1> HIDE DEF r
<1>7. r.nextId \in Nat /\ r.nextId > TXN_ID_START /\ r.nextId <= nextId /\ nextId \in Nat
  BY <1>1, <1>6, TokensDistinct
<1>8. MarksIn(cells, {}, nextId) /\ MarksIn(r.cells, r.active, r.nextId)
  BY <1>4, <1>6 DEF MarksIn
<1>9. RecOK(r, promise)
  BY <1>1, <1>4, <1>6, <1>7, <1>8 DEF RecOK, ReplayState
<1>10. Early(1)
  <2>1. \A u \in Txns : u \in Nat /\ u >= 1
    BY TokensDistinct DEF Txns
  <2> QED BY <2>1 DEF Early
<1>11. OneByOne /\ \A t \in Txns : ~Running(t)
  BY <1>3 DEF OneByOne, Running
<1>12. Consistent(Runner, r, cells, promise, active, nextId)
  <2>1. Runner = Over /\ Over.pc = "done"
    BY <1>3, NobodyIs, OverTyped DEF Runner
  <2>2. Current(Over, r)
    BY <2>1 DEF Current, Writing, Unpromoted, Promoting
  <2>3. \A k \in Keys : Agree(cells[k], r.cells[k])
    BY <1>6 DEF Agree
  <2> QED BY <1>1, <1>4, <1>7, <1>8, <1>9, <2>1, <2>2, <2>3 DEF Consistent, Writing, Unpromoted, Promoting
<1>13. RecOK(Rec, promise) /\ Early(Rec.clock) /\ Consistent(Runner, Rec, cells, promise, active, nextId)
  BY <1>6, <1>9, <1>10, <1>12 DEF r
<1> QED BY <1>1, <1>5, <1>10, <1>11, <1>13 DEF CInv

LEMMA CInvStep ==
  ~Overlap /\ ~BlindWrites /\ WInv /\ CInv /\ [Next]_vars => CInv'
<1> SUFFICES ASSUME ~Overlap, ~BlindWrites, WInv, CInv, [Next]_vars PROVE CInv'
  OBVIOUS
<1>1. ASSUME NEW t \in Txns, Step(t) PROVE CInv'
  BY <1>1, BeginRegisterKeeps, BeginLogKeeps, CommitPromoteKeeps, AssignLsnKeeps, AppendDeltaKeeps,
     CommitDrawLsnKeeps, AppendCommitKeeps, CommitFinishKeeps, AbortLogKeeps, AbortFinishKeeps,
     CheckpointLockKeeps, WriteCheckpointKeeps, TruncateWalKeeps DEF Step
<1>2. ASSUME NEW t \in Txns, Call(t) PROVE CInv'
  BY <1>2, BeginDrawKeeps, CommitDrawTsKeeps, AbortRestoreKeeps, WriteKeeps DEF Call
<1>3. CASE UNCHANGED vars
  <2>1. /\ up' = up /\ disk' = disk /\ tx' = tx /\ clock' = clock /\ nextId' = nextId /\ active' = active
        /\ cells' = cells /\ promise' = promise
    BY <1>3 DEF vars
  <2>2. Rec' = Rec /\ Runner' = Runner
    BY <2>1 DEF Rec, Runner
  <2>3. Early(Rec.clock)' /\ (up' = "up" => Early(clock)')
    BY <2>1, <2>2 DEF CInv, Early
  <2>4. OneByOne'
    BY <2>1 DEF CInv, OneByOne, Running
  <2>5. up' = "up" => \A t \in Txns : Running(t)' => InTime(t)' /\ Ahead(tx'[t], disk'.wal)
    BY <2>1 DEF CInv, Running, InTime
  <2>6. RecOK(Rec', promise') /\ Rising(disk'.wal)
    BY <2>1, <2>2 DEF CInv
  <2>7. up' = "up" => Consistent(Runner', Rec', cells', promise', active', nextId')
    BY <2>1, <2>2 DEF CInv
  <2> QED BY <2>3, <2>4, <2>5, <2>6, <2>7 DEF CInv
<1> QED BY <1>1, <1>2, <1>3, CrashKeeps, RecoverKeeps DEF Next

-----------------------------------------------------------------------------
(* Crash safety.                                                             *)

\* Transactions one at a time, and no writes to records their client cannot
\* see: at every point of every commit, abort, checkpoint and restart, memory
\* is what recovery would find but for the writes of the running transaction.
THEOREM MemoryFollowsLog ==
  ~Overlap /\ ~BlindWrites /\ Spec => []CInv
<1> SUFFICES ASSUME ~Overlap, ~BlindWrites PROVE Spec => []CInv
  OBVIOUS
<1>1. WInv /\ CInv /\ [Next]_vars => CInv'
  BY CInvStep
<1> QED BY <1>1, CInvInit, LsnsReserved, PTL DEF Spec

\* For every number of transactions, records, writes, crashes and checkpoints:
\* a process that stops now recovers, and shows exactly what the commits on the
\* log have promised (flush_redo_and_commit_wal, MemoryGraph::recover).
THEOREM RecoveryKeepsPromises ==
  ~Overlap /\ ~BlindWrites /\ Spec => []CrashSafe
<1>1. CInv => CrashSafe
  BY DEF CInv, RecOK, Rec, CrashSafe
<1> QED BY <1>1, MemoryFollowsLog, PTL

\* Between commits the graph in memory shows what the log promises, also after
\* aborts and recoveries (commit_pessimistic, abort_at, apply_wal_entries).
THEOREM MemoryShowsPromises ==
  ~Overlap /\ ~BlindWrites /\ Spec => []MemoryIsLogged
<1>1. ASSUME NEW x, NEW r, NEW cs, NEW pr, NEW act, NEW n, Consistent(x, r, cs, pr, act, n), x.pc \notin Promoting,
             x.pc \notin {"idle", "done"} => x.id \in Nat, NEW k \in Keys
      PROVE  Visible(cs[k]) = pr[k]
  <2>1. Visible(r.cells[k]) = pr[k]
    BY <1>1 DEF Consistent, RecOK
  <2>2. CASE k \notin Mine(x)
    BY <1>1, <2>1, <2>2, AgreeShows DEF Consistent
  <2>3. CASE k \in Mine(x)
    <3>1. x.pc \in Unpromoted /\ x.pc \in Writing
      BY <1>1, <2>3 DEF Mine, Writing
    <3>2. PICK i \in DOMAIN x.redo : k = x.redo[i].key
      BY <2>3, WriteOf
    <3>3. WriteKept(x, i, r, cs, pr) /\ i \in Pending(x)
      BY <1>1, <3>1 DEF Consistent, RedoOK, Pending, Unpromoted
    <3>4. /\ cs[k].cts = x.id /\ cs[k].base = [data |-> r.cells[k].data, cts |-> r.cells[k].cts]
          /\ ~is_txn_id(r.cells[k].cts)
      BY <3>1, <3>2, <3>3 DEF WriteKept, Replayable
    <3>5. is_txn_id(x.id)
      BY <1>1, <3>1, TokensDistinct DEF Consistent, Current, Unpromoted, is_txn_id
    <3>6. Visible(cs[k]) = Visible(r.cells[k])
      BY <3>4, <3>5 DEF Visible
    <3> QED BY <2>1, <3>6
  <2> QED BY <2>2, <2>3
<1>2. WInv /\ CInv => MemoryIsLogged
  <2> SUFFICES ASSUME WInv, CInv, up = "up", \A t \in Txns : tx[t].pc \notin Promoting
               PROVE  \A k \in Keys : Visible(cells[k]) = promise[k]
    BY DEF MemoryIsLogged, Promoting
  <2>1. Runner.pc \notin Promoting /\ (Runner.pc \notin {"idle", "done"} => Runner.id \in Nat)
    <3>1. CASE \A t \in Txns : tx[t].pc \in {"idle", "done"}
      BY <3>1, NobodyIs, OverTyped DEF Runner, Promoting
    <3>2. ASSUME NEW t \in Txns, tx[t].pc \notin {"idle", "done"}
          PROVE  Runner.pc \notin Promoting /\ Runner.id \in Nat
      <4>1. Runner = tx[t]
        BY <3>2, RunnerIs DEF Runner, CInv, OneByOne, Running
      <4> QED BY <4>1, TxTyped
    <3> QED BY <3>1, <3>2
  <2>2. Consistent(Runner, Rec, cells, promise, active, nextId)
    BY DEF CInv
  <2> QED BY <1>1, <2>1, <2>2
<1> QED BY <1>2, LsnsReserved, MemoryFollowsLog, PTL
=============================================================================
