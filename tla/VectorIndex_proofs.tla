------------------------ MODULE VectorIndex_proofs ------------------------
(***************************************************************************)
(* The numbering of a vector index, for any nodes, vectors, batches and    *)
(* index parameters.                                                       *)
(***************************************************************************)
EXTENDS VectorIndex, TLAPS, FiniteSetTheorems, SequenceTheorems, WellFoundedInduction

-----------------------------------------------------------------------------
(* Numbers and sets.                                                       *)

LEMMA LeastElement ==
  ASSUME NEW S \in SUBSET Nat, S # {}
  PROVE  \E x \in S : \A y \in S : x <= y
<1>1. PICK x \in S : \A y \in S : ~ (<<y, x>> \in OpToRel(<, Nat))
  BY WFMin, NatLessThanWellFounded, Zenon
<1>2. ASSUME NEW y \in S, y < x PROVE FALSE
  <2>1. <<y, x>> \in Nat \X Nat /\ <<y, x>>[1] < <<y, x>>[2]
    BY <1>2
  <2>2. <<y, x>> \in OpToRel(<, Nat)
    BY <2>1, Zenon DEF OpToRel
  <2> QED BY <1>1, <2>2, Zenon
<1> QED BY <1>2

LEMMA SetInduction ==
  ASSUME NEW S, 0 \in S, \A m \in Nat : m \in S => m + 1 \in S
  PROVE  Nat \subseteq S
<1> SUFFICES ASSUME Nat \ S # {} PROVE FALSE
  OBVIOUS
<1>1. PICK x \in Nat \ S : \A y \in Nat \ S : x <= y
  BY LeastElement
<1>2. x # 0 /\ x - 1 \in Nat /\ (x - 1) + 1 = x /\ ~ (x <= x - 1)
  OBVIOUS
<1> QED BY <1>1, <1>2

\* Sorted lists every element of a finite set of numbers at one position.
LEMMA SortedOK ==
  ASSUME NEW S \in SUBSET Nat, IsFiniteSet(S)
  PROVE  /\ Cardinality(S) \in Nat
         /\ Sorted(S) \in Seq(S) /\ Len(Sorted(S)) = Cardinality(S)
         /\ DOMAIN Sorted(S) = 1 .. Cardinality(S)
         /\ \A i, j \in DOMAIN Sorted(S) : Sorted(S)[i] = Sorted(S)[j] => i = j
<1> DEFINE k == Cardinality(S)
           below(n) == {m \in S : m < n}
           rank == [n \in S |-> Cardinality(below(n))]
<1>1. k \in Nat
  BY FS_CardinalityType
<1>2. ASSUME NEW n \in S PROVE IsFiniteSet(below(n)) /\ Cardinality(below(n)) \in 0 .. (k - 1)
  <2>1. below(n) \in SUBSET (S \ {n})
    OBVIOUS
  <2>2. IsFiniteSet(S \ {n}) /\ Cardinality(S \ {n}) = k - 1
    BY FS_RemoveElement
  <2>3. IsFiniteSet(below(n)) /\ Cardinality(below(n)) <= k - 1
    <3> HIDE DEF below, k
    <3> QED BY <2>1, <2>2, FS_Subset
  <2>4. Cardinality(below(n)) \in Nat
    <3> HIDE DEF below
    <3> QED BY <2>3, FS_CardinalityType
  <2> HIDE DEF below, k
  <2> QED BY <1>1, <2>3, <2>4
<1>3. ASSUME NEW m \in S, NEW n \in S, m < n PROVE rank[m] < rank[n]
  <2>1. below(m) \cup {m} \in SUBSET below(n) /\ m \notin below(m)
    <3>1. \A x \in S : x \in Nat
      OBVIOUS
    <3>2. \A x \in S : x < m => x < n
      BY <1>3, <3>1
    <3>3. ~ (m < m)
      BY <3>1
    <3> QED BY <1>3, <3>2, <3>3
  <2> HIDE DEF below, k
  <2>2. Cardinality(below(m) \cup {m}) = Cardinality(below(m)) + 1
    BY <1>2, <2>1, FS_AddElement
  <2>3. Cardinality(below(m) \cup {m}) <= Cardinality(below(n))
    BY <1>2, <2>1, FS_Subset
  <2>4. Cardinality(below(m)) \in Int /\ Cardinality(below(n)) \in Int
    BY <1>2
  <2> QED BY <2>2, <2>3, <2>4
<1>4. rank \in [S -> 0 .. (k - 1)]
  <2> HIDE DEF below, k
  <2> QED BY <1>2
<1> HIDE DEF rank, k
<1>5. \A m, n \in S : rank[m] = rank[n] => m = n
  <2> TAKE m, n \in S
  <2>1. m \in Nat /\ n \in Nat
    OBVIOUS
  <2>2. rank[m] \in Int /\ rank[n] \in Int
    BY <1>1, <1>4
  <2> QED BY <1>3, <2>1, <2>2
<1>6. rank \in Injection(S, 0 .. (k - 1))
  <2>1. DOMAIN rank = S
    BY <1>4
  <2> QED BY <1>4, <1>5, <2>1 DEF Injection, IsInjective
<1>7. IsFiniteSet(0 .. (k - 1)) /\ Cardinality(0 .. (k - 1)) = k
  BY <1>1, FS_Interval
<1>8. rank \in Surjection(S, 0 .. (k - 1))
  BY <1>6, <1>7, FS_Injection DEF k
<1>9. \A i \in 1 .. k : Sorted(S)[i] \in S /\ rank[Sorted(S)[i]] = i - 1
  <2> TAKE i \in 1 .. k
  <2>1. i - 1 \in 0 .. (k - 1)
    BY <1>1
  <2>2. \E n \in S : rank[n] = i - 1
    BY <1>8, <2>1 DEF Surjection
  <2>3. \E n \in S : Cardinality({m \in S : m < n}) = i - 1
    BY <2>2 DEF rank
  <2>4. Sorted(S)[i] = CHOOSE n \in S : Cardinality({m \in S : m < n}) = i - 1
    BY DEF Sorted, k
  <2>5. Sorted(S)[i] \in S /\ Cardinality({m \in S : m < Sorted(S)[i]}) = i - 1
    BY <2>3, <2>4
  <2> QED BY <2>5 DEF rank
<1>10. Sorted(S) = [i \in 1 .. k |-> Sorted(S)[i]]
  <2> DEFINE c(i) == CHOOSE n \in S : Cardinality({m \in S : m < n}) = i - 1
  <2>1. Sorted(S) = [i \in 1 .. k |-> c(i)]
    BY DEF Sorted, k
  <2> HIDE DEF c
  <2> QED BY <2>1
<1>11. Sorted(S) \in [1 .. k -> S]
  BY <1>9, <1>10
<1>12. Sorted(S) \in Seq(S) /\ Len(Sorted(S)) = k
  BY <1>1, <1>11
<1>13. \A i, j \in 1 .. k : Sorted(S)[i] = Sorted(S)[j] => i = j
  <2> TAKE i, j \in 1 .. k
  <2>1. Sorted(S)[i] = Sorted(S)[j] => i - 1 = j - 1
    BY <1>9
  <2> QED BY <1>1, <2>1
<1> QED BY <1>1, <1>11, <1>12, <1>13 DEF k

-----------------------------------------------------------------------------
(* The loops of DiskANN, as the values they go through.                    *)

\* f holds the values the loop of an operator goes through.
InsertAllRun(f, ix, from, to) ==
    /\ f[0] = ix
    /\ \A i \in 1 .. (to - from) : f[i] = insert_next(f[i - 1], from + i - 1)
    /\ insert_all(ix, from, to) = f[to - from]

GreedySearchRun(f, ix, q, L, allowed, init) ==
    /\ f[0] = [best |-> init, seen |-> init, visited |-> {}, cmps |-> 0]
    /\ \A i \in 1 .. Cardinality(DOMAIN ix.graph) : f[i] = expand(ix, q, L, allowed, f[i - 1])
    /\ greedy_search(ix, q, L, allowed, init) = f[Cardinality(DOMAIN ix.graph)]

VectorSumRun(f, points) ==
    /\ f[0] = <<0, 0>>
    /\ \A i \in 1 .. Len(points) : f[i] = plus(f[i - 1], points[i])
    /\ vector_sum(points) = f[Len(points)]

RoundRun(f, ix, v, order, num, den, kept) ==
    /\ f[0] = kept
    /\ \A i \in 1 .. Len(order) : f[i] = keep(ix, v, num, den, f[i - 1], order[i])
    /\ Round(ix, v, order, num, den, kept) = f[Len(order)]

LEMMA InsertAllLoop ==
  ASSUME NEW ix, NEW from \in Nat, NEW to \in Nat, from <= to
  PROVE  \E f : InsertAllRun(f, ix, from, to)
<1> DEFINE N == (to - from)
           Start == ix
           Nxt(s, i) == insert_next(s, from + i - 1)
           step(f, i) == IF i = 0 THEN Start ELSE Nxt(f[i - 1], i)
           Defined == {n \in Nat : \E f : f = [i \in 0 .. n |-> step(f, i)]}
<1>0. N \in Nat
  OBVIOUS
<1> HIDE DEF N, Start, Nxt
<1>1. 0 \in Defined
  <2> DEFINE f == [i \in 0 .. 0 |-> Start]
  <2>1. \A i \in 0 .. 0 : step(f, i) = Start
    OBVIOUS
  <2>2. f = [i \in 0 .. 0 |-> step(f, i)]
    <3> HIDE DEF step
    <3> QED BY <2>1
  <2> HIDE DEF f
  <2> QED BY <2>2
<1>2. ASSUME NEW n \in Nat, n \in Defined PROVE n + 1 \in Defined
  <2>1. PICK f : f = [i \in 0 .. n |-> step(f, i)]
    BY <1>2
  <2> DEFINE g == [i \in 0 .. n + 1 |-> IF i <= n THEN f[i] ELSE step(f, i)]
  <2>2. \A i \in 0 .. n + 1 : g[i] = step(g, i)
    <3> TAKE i \in 0 .. n + 1
    <3>1. i # 0 => i - 1 \in 0 .. n /\ g[i - 1] = f[i - 1]
      OBVIOUS
    <3>2. step(g, i) = step(f, i)
      BY <3>1
    <3> HIDE DEF step
    <3>3. i <= n => i \in 0 .. n
      OBVIOUS
    <3>4. i <= n => f[i] = step(f, i)
      BY <2>1, <3>3, Zenon
    <3> QED BY <3>2, <3>4
  <2>3. g = [i \in 0 .. n + 1 |-> step(g, i)]
    <3> HIDE DEF step
    <3> QED BY <2>2
  <2>4. \E h : h = [i \in 0 .. n + 1 |-> step(h, i)]
    <3> HIDE DEF g, step
    <3> QED BY <2>3
  <2> HIDE DEF step
  <2> QED BY <2>4
<1>3. N \in Defined
  <2> HIDE DEF Defined
  <2> QED BY <1>0, <1>1, <1>2, SetInduction
<1> DEFINE F == CHOOSE f : f = [i \in 0 .. N |-> step(f, i)]
<1>4. F = [i \in 0 .. N |-> step(F, i)]
  <2>1. \E f : f = [i \in 0 .. N |-> step(f, i)]
    BY <1>3
  <2> HIDE DEF step
  <2> QED BY <2>1, Zenon
<1>5. insert_all(ix, from, to) = F[to - from]
  BY DEF insert_all, F, N, Start, Nxt
<1> HIDE DEF F
<1>6. F[0] = Start /\ \A i \in 1 .. N : F[i] = Nxt(F[i - 1], i)
  <2>1. \A i \in 0 .. N : F[i] = step(F, i)
    <3> HIDE DEF step
    <3> QED BY <1>4, Zenon
  <2> QED BY <1>0, <2>1
<1>7. InsertAllRun(F, ix, from, to)
  BY <1>5, <1>6 DEF InsertAllRun, N, Start, Nxt
<1> QED BY <1>7

LEMMA GreedySearchLoop ==
  ASSUME NEW ix, NEW q, NEW L, NEW allowed, NEW init, Cardinality(DOMAIN ix.graph) \in Nat
  PROVE  \E f : GreedySearchRun(f, ix, q, L, allowed, init)
<1> DEFINE N == Cardinality(DOMAIN ix.graph)
           Start == [best |-> init, seen |-> init, visited |-> {}, cmps |-> 0]
           Nxt(s, i) == expand(ix, q, L, allowed, s)
           step(f, i) == IF i = 0 THEN Start ELSE Nxt(f[i - 1], i)
           Defined == {n \in Nat : \E f : f = [i \in 0 .. n |-> step(f, i)]}
<1>0. N \in Nat
  OBVIOUS
<1> HIDE DEF N, Start, Nxt
<1>1. 0 \in Defined
  <2> DEFINE f == [i \in 0 .. 0 |-> Start]
  <2>1. \A i \in 0 .. 0 : step(f, i) = Start
    OBVIOUS
  <2>2. f = [i \in 0 .. 0 |-> step(f, i)]
    <3> HIDE DEF step
    <3> QED BY <2>1
  <2> HIDE DEF f
  <2> QED BY <2>2
<1>2. ASSUME NEW n \in Nat, n \in Defined PROVE n + 1 \in Defined
  <2>1. PICK f : f = [i \in 0 .. n |-> step(f, i)]
    BY <1>2
  <2> DEFINE g == [i \in 0 .. n + 1 |-> IF i <= n THEN f[i] ELSE step(f, i)]
  <2>2. \A i \in 0 .. n + 1 : g[i] = step(g, i)
    <3> TAKE i \in 0 .. n + 1
    <3>1. i # 0 => i - 1 \in 0 .. n /\ g[i - 1] = f[i - 1]
      OBVIOUS
    <3>2. step(g, i) = step(f, i)
      BY <3>1
    <3> HIDE DEF step
    <3>3. i <= n => i \in 0 .. n
      OBVIOUS
    <3>4. i <= n => f[i] = step(f, i)
      BY <2>1, <3>3, Zenon
    <3> QED BY <3>2, <3>4
  <2>3. g = [i \in 0 .. n + 1 |-> step(g, i)]
    <3> HIDE DEF step
    <3> QED BY <2>2
  <2>4. \E h : h = [i \in 0 .. n + 1 |-> step(h, i)]
    <3> HIDE DEF g, step
    <3> QED BY <2>3
  <2> HIDE DEF step
  <2> QED BY <2>4
<1>3. N \in Defined
  <2> HIDE DEF Defined
  <2> QED BY <1>0, <1>1, <1>2, SetInduction
<1> DEFINE F == CHOOSE f : f = [i \in 0 .. N |-> step(f, i)]
<1>4. F = [i \in 0 .. N |-> step(F, i)]
  <2>1. \E f : f = [i \in 0 .. N |-> step(f, i)]
    BY <1>3
  <2> HIDE DEF step
  <2> QED BY <2>1, Zenon
<1>5. greedy_search(ix, q, L, allowed, init) = F[Cardinality(DOMAIN ix.graph)]
  BY DEF greedy_search, F, N, Start, Nxt
<1> HIDE DEF F
<1>6. F[0] = Start /\ \A i \in 1 .. N : F[i] = Nxt(F[i - 1], i)
  <2>1. \A i \in 0 .. N : F[i] = step(F, i)
    <3> HIDE DEF step
    <3> QED BY <1>4, Zenon
  <2> QED BY <1>0, <2>1
<1>7. GreedySearchRun(F, ix, q, L, allowed, init)
  BY <1>5, <1>6 DEF GreedySearchRun, N, Start, Nxt
<1> QED BY <1>7

LEMMA RoundLoop ==
  ASSUME NEW ix, NEW v, NEW order, NEW num, NEW den, NEW kept, Len(order) \in Nat
  PROVE  \E f : RoundRun(f, ix, v, order, num, den, kept)
<1> DEFINE N == Len(order)
           Start == kept
           Nxt(s, i) == keep(ix, v, num, den, s, order[i])
           step(f, i) == IF i = 0 THEN Start ELSE Nxt(f[i - 1], i)
           Defined == {n \in Nat : \E f : f = [i \in 0 .. n |-> step(f, i)]}
<1>0. N \in Nat
  OBVIOUS
<1> HIDE DEF N, Start, Nxt
<1>1. 0 \in Defined
  <2> DEFINE f == [i \in 0 .. 0 |-> Start]
  <2>1. \A i \in 0 .. 0 : step(f, i) = Start
    OBVIOUS
  <2>2. f = [i \in 0 .. 0 |-> step(f, i)]
    <3> HIDE DEF step
    <3> QED BY <2>1
  <2> HIDE DEF f
  <2> QED BY <2>2
<1>2. ASSUME NEW n \in Nat, n \in Defined PROVE n + 1 \in Defined
  <2>1. PICK f : f = [i \in 0 .. n |-> step(f, i)]
    BY <1>2
  <2> DEFINE g == [i \in 0 .. n + 1 |-> IF i <= n THEN f[i] ELSE step(f, i)]
  <2>2. \A i \in 0 .. n + 1 : g[i] = step(g, i)
    <3> TAKE i \in 0 .. n + 1
    <3>1. i # 0 => i - 1 \in 0 .. n /\ g[i - 1] = f[i - 1]
      OBVIOUS
    <3>2. step(g, i) = step(f, i)
      BY <3>1
    <3> HIDE DEF step
    <3>3. i <= n => i \in 0 .. n
      OBVIOUS
    <3>4. i <= n => f[i] = step(f, i)
      BY <2>1, <3>3, Zenon
    <3> QED BY <3>2, <3>4
  <2>3. g = [i \in 0 .. n + 1 |-> step(g, i)]
    <3> HIDE DEF step
    <3> QED BY <2>2
  <2>4. \E h : h = [i \in 0 .. n + 1 |-> step(h, i)]
    <3> HIDE DEF g, step
    <3> QED BY <2>3
  <2> HIDE DEF step
  <2> QED BY <2>4
<1>3. N \in Defined
  <2> HIDE DEF Defined
  <2> QED BY <1>0, <1>1, <1>2, SetInduction
<1> DEFINE F == CHOOSE f : f = [i \in 0 .. N |-> step(f, i)]
<1>4. F = [i \in 0 .. N |-> step(F, i)]
  <2>1. \E f : f = [i \in 0 .. N |-> step(f, i)]
    BY <1>3
  <2> HIDE DEF step
  <2> QED BY <2>1, Zenon
<1>5. Round(ix, v, order, num, den, kept) = F[Len(order)]
  BY DEF Round, F, N, Start, Nxt
<1> HIDE DEF F
<1>6. F[0] = Start /\ \A i \in 1 .. N : F[i] = Nxt(F[i - 1], i)
  <2>1. \A i \in 0 .. N : F[i] = step(F, i)
    <3> HIDE DEF step
    <3> QED BY <1>4, Zenon
  <2> QED BY <1>0, <2>1
<1>7. RoundRun(F, ix, v, order, num, den, kept)
  BY <1>5, <1>6 DEF RoundRun, N, Start, Nxt
<1> QED BY <1>7

LEMMA VectorSumLoop ==
  ASSUME NEW points, Len(points) \in Nat
  PROVE  \E f : VectorSumRun(f, points)
<1> DEFINE N == Len(points)
           Start == <<0, 0>>
           Nxt(s, i) == plus(s, points[i])
           step(f, i) == IF i = 0 THEN Start ELSE Nxt(f[i - 1], i)
           Defined == {n \in Nat : \E f : f = [i \in 0 .. n |-> step(f, i)]}
<1>0. N \in Nat
  OBVIOUS
<1> HIDE DEF N, Start, Nxt
<1>1. 0 \in Defined
  <2> DEFINE f == [i \in 0 .. 0 |-> Start]
  <2>1. \A i \in 0 .. 0 : step(f, i) = Start
    OBVIOUS
  <2>2. f = [i \in 0 .. 0 |-> step(f, i)]
    <3> HIDE DEF step
    <3> QED BY <2>1
  <2> HIDE DEF f
  <2> QED BY <2>2
<1>2. ASSUME NEW n \in Nat, n \in Defined PROVE n + 1 \in Defined
  <2>1. PICK f : f = [i \in 0 .. n |-> step(f, i)]
    BY <1>2
  <2> DEFINE g == [i \in 0 .. n + 1 |-> IF i <= n THEN f[i] ELSE step(f, i)]
  <2>2. \A i \in 0 .. n + 1 : g[i] = step(g, i)
    <3> TAKE i \in 0 .. n + 1
    <3>1. i # 0 => i - 1 \in 0 .. n /\ g[i - 1] = f[i - 1]
      OBVIOUS
    <3>2. step(g, i) = step(f, i)
      BY <3>1
    <3> HIDE DEF step
    <3>3. i <= n => i \in 0 .. n
      OBVIOUS
    <3>4. i <= n => f[i] = step(f, i)
      BY <2>1, <3>3, Zenon
    <3> QED BY <3>2, <3>4
  <2>3. g = [i \in 0 .. n + 1 |-> step(g, i)]
    <3> HIDE DEF step
    <3> QED BY <2>2
  <2>4. \E h : h = [i \in 0 .. n + 1 |-> step(h, i)]
    <3> HIDE DEF g, step
    <3> QED BY <2>3
  <2> HIDE DEF step
  <2> QED BY <2>4
<1>3. N \in Defined
  <2> HIDE DEF Defined
  <2> QED BY <1>0, <1>1, <1>2, SetInduction
<1> DEFINE F == CHOOSE f : f = [i \in 0 .. N |-> step(f, i)]
<1>4. F = [i \in 0 .. N |-> step(F, i)]
  <2>1. \E f : f = [i \in 0 .. N |-> step(f, i)]
    BY <1>3
  <2> HIDE DEF step
  <2> QED BY <2>1, Zenon
<1>5. vector_sum(points) = F[Len(points)]
  BY DEF vector_sum, F, N, Start, Nxt
<1> HIDE DEF F
<1>6. F[0] = Start /\ \A i \in 1 .. N : F[i] = Nxt(F[i - 1], i)
  <2>1. \A i \in 0 .. N : F[i] = step(F, i)
    <3> HIDE DEF step
    <3> QED BY <1>4, Zenon
  <2> QED BY <1>0, <2>1
<1>7. VectorSumRun(F, points)
  BY <1>5, <1>6 DEF VectorSumRun, N, Start, Nxt
<1> QED BY <1>7

-----------------------------------------------------------------------------
(* What the operations of DiskANN keep of an index.                        *)

\* An index over n slots.
Shape(ix, n) ==
    /\ ix = [data |-> ix.data, graph |-> ix.graph, start |-> ix.start,
             capacity |-> ix.capacity, delete_set |-> ix.delete_set]
    /\ DOMAIN ix.data = 0 .. (n - 1) /\ DOMAIN ix.graph = 0 .. (n - 1)

SameData(ix, jx) == jx.data = ix.data /\ jx.start = ix.start

LEMMA ShapeIsNotFailed ==
  ASSUME NEW ix, NEW n, Shape(ix, n)
  PROVE  ~ IsFailed(ix)
<1>1. DOMAIN ix = {"data", "graph", "start", "capacity", "delete_set"}
  BY DEF Shape
<1> QED BY <1>1 DEF IsFailed

\* A round of occlude_list takes nothing back, and keeps the first candidate
\* when it starts with an empty list.
LEMMA RoundKeeps ==
  ASSUME NEW ix, NEW v, NEW order, NEW num, NEW den, NEW kept, Len(order) \in Nat
  PROVE  /\ kept \subseteq Round(ix, v, order, num, den, kept)
         /\ kept = {} /\ Len(order) > 0 => Round(ix, v, order, num, den, kept) # {}
<1>0. PICK f : RoundRun(f, ix, v, order, num, den, kept)
  BY RoundLoop
<1>1. /\ f[0] = kept
      /\ \A i \in 1 .. Len(order) : f[i] = keep(ix, v, num, den, f[i - 1], order[i])
      /\ Round(ix, v, order, num, den, kept) = f[Len(order)]
  BY <1>0 DEF RoundRun
<1>2. \A i \in 1 .. Len(order) : f[i - 1] \subseteq f[i]
  BY <1>1 DEF keep
<1> DEFINE S == {m \in Nat : m <= Len(order) => f[0] \subseteq f[m]}
           T == {m \in Nat : m + 1 <= Len(order) => f[1] \subseteq f[m + 1]}
<1>3. Nat \subseteq S
  <2>1. ASSUME NEW m \in Nat, m \in S PROVE m + 1 \in S
    <3>1. CASE m + 1 <= Len(order)
      <4>1. m + 1 \in 1 .. Len(order) /\ (m + 1) - 1 = m /\ m <= Len(order)
        BY <3>1
      <4> QED BY <2>1, <1>2, <4>1
    <3> QED BY <3>1
  <2>2. 0 \in S
    OBVIOUS
  <2> HIDE DEF S
  <2> QED BY <2>1, <2>2, SetInduction
<1>4. Nat \subseteq T
  <2>1. ASSUME NEW m \in Nat, m \in T PROVE m + 1 \in T
    <3>1. CASE (m + 1) + 1 <= Len(order)
      <4>1. (m + 1) + 1 \in 1 .. Len(order) /\ ((m + 1) + 1) - 1 = m + 1 /\ m + 1 <= Len(order)
        BY <3>1
      <4>2. f[m + 1] \subseteq f[(m + 1) + 1]
        BY <1>2, <4>1
      <4> QED BY <2>1, <4>1, <4>2
    <3> QED BY <3>1
  <2>2. 0 \in T
    OBVIOUS
  <2> HIDE DEF T
  <2> QED BY <2>1, <2>2, SetInduction
<1>5. f[0] \subseteq f[Len(order)]
  BY <1>3
<1>6. ASSUME kept = {}, Len(order) > 0 PROVE f[Len(order)] # {}
  <2>0. 1 \in 1 .. Len(order) /\ 1 - 1 = 0
    BY <1>6
  <2>1. f[1] = keep(ix, v, num, den, {}, order[1])
    BY <1>1, <1>6, <2>0
  <2>2. ~ (Cardinality({}) >= MaxDegree)
    BY FS_EmptySet, DiskAnnAssumption
  <2>3. f[1] = {order[1]}
    BY <2>1, <2>2 DEF keep
  <2>4. Len(order) - 1 \in Nat /\ (Len(order) - 1) + 1 = Len(order)
    BY <1>6
  <2>5. f[1] \subseteq f[(Len(order) - 1) + 1]
    BY <1>4, <2>4
  <2> QED BY <2>3, <2>4, <2>5
<1> QED BY <1>1, <1>5, <1>6

\* robust_prune leaves a neighbour whenever it is given one.
LEMMA PruneKeepsOne ==
  ASSUME NEW ix, NEW v, NEW pool, IsFiniteSet(pool), pool # {}
  PROVE  prune_neighbors(ix, v, pool) # {}
<1> DEFINE c(i) == CHOOSE a \in pool :
                      Cardinality({b \in pool : Nearer(ix, ix.data[v], b, a)}) = i - 1
           order == ByDistance(ix, ix.data[v], pool)
           first == Round(ix, v, order, 1, 1, {})
<1>1. Cardinality(pool) \in Nat /\ Cardinality(pool) # 0
  BY FS_CardinalityType, FS_EmptySet
<1>2. order = [i \in 1 .. Cardinality(pool) |-> c(i)]
  BY DEF ByDistance
<1>3. Len(order) = Cardinality(pool)
  <2> HIDE DEF c, order
  <2> QED BY <1>1, <1>2
<1>4. Len(order) \in Nat /\ Len(order) > 0
  BY <1>1, <1>3
<1> HIDE DEF order
<1>5. first # {}
  BY <1>4, RoundKeeps
<1>6. first \subseteq Round(ix, v, order, 6, 5, first)
  <2> HIDE DEF first
  <2> QED BY <1>4, RoundKeeps
<1>7. prune_neighbors(ix, v, pool) = Round(ix, v, order, 6, 5, first)
  BY DEF prune_neighbors, order
<1> HIDE DEF first
<1> QED BY <1>5, <1>6, <1>7

\* A search expands its entry point first.
LEMMA SearchExpandsStart ==
  ASSUME NEW ix, NEW q, NEW L, NEW allowed, NEW start,
         Cardinality(DOMAIN ix.graph) \in Nat, Cardinality(DOMAIN ix.graph) > 0
  PROVE  /\ start \in greedy_search(ix, q, L, allowed, {start}).visited
         /\ IsFiniteSet(greedy_search(ix, q, L, allowed, {start}).visited)
<1> DEFINE N == Cardinality(DOMAIN ix.graph)
<1>10. PICK f : GreedySearchRun(f, ix, q, L, allowed, {start})
  BY GreedySearchLoop
<1>1. /\ f[0] = [best |-> {start}, seen |-> {start}, visited |-> {}, cmps |-> 0]
      /\ \A i \in 1 .. N : f[i] = expand(ix, q, L, allowed, f[i - 1])
      /\ greedy_search(ix, q, L, allowed, {start}) = f[N]
  BY <1>10 DEF GreedySearchRun
<1> HIDE DEF N
<1>0. N \in Nat /\ N > 0
  BY DEF N
<1>2. ASSUME NEW s PROVE LET t == expand(ix, q, L, allowed, s)
                         IN  \/ t = s
                             \/ t.visited = s.visited \cup {Closest(ix, q, s.best \ s.visited)}
  BY DEF expand
<1>3. f[1].visited = {start}
  <2>1. f[1] = expand(ix, q, L, allowed, f[0])
    BY <1>0, <1>1
  <2>2. f[0].best \ f[0].visited = {start} /\ f[0].visited = {}
    BY <1>1
  <2>3. Closest(ix, q, {start}) = start
    BY DEF Closest
  <2>4. f[1].visited = f[0].visited \cup {Closest(ix, q, f[0].best \ f[0].visited)}
    <3> HIDE DEF Closest
    <3> QED BY <2>1, <2>2 DEF expand
  <2> QED BY <2>2, <2>3, <2>4
<1> DEFINE S == {m \in Nat : m + 1 <= N =>
                    start \in f[m + 1].visited /\ IsFiniteSet(f[m + 1].visited)}
<1>4. 0 \in S
  <2>1. IsFiniteSet({start})
    BY FS_Singleton
  <2>2. start \in f[0 + 1].visited /\ IsFiniteSet(f[0 + 1].visited)
    BY <1>3, <2>1
  <2> QED BY <2>2
<1>5. ASSUME NEW m \in Nat, m \in S PROVE m + 1 \in S
  <2> SUFFICES ASSUME (m + 1) + 1 <= N
               PROVE  start \in f[(m + 1) + 1].visited /\ IsFiniteSet(f[(m + 1) + 1].visited)
    OBVIOUS
  <2>1. (m + 1) + 1 \in 1 .. N /\ ((m + 1) + 1) - 1 = m + 1 /\ m + 1 <= N
    BY <1>0
  <2>2. start \in f[m + 1].visited /\ IsFiniteSet(f[m + 1].visited)
    BY <1>5, <2>1
  <2>3. f[(m + 1) + 1] = expand(ix, q, L, allowed, f[m + 1])
    BY <1>1, <2>1
  <2>4. \/ f[(m + 1) + 1] = f[m + 1]
        \/ f[(m + 1) + 1].visited
             = f[m + 1].visited \cup {Closest(ix, q, f[m + 1].best \ f[m + 1].visited)}
    BY <1>2, <2>3
  <2> QED BY <2>2, <2>4, FS_AddElement
<1>6. Nat \subseteq S
  <2> HIDE DEF S
  <2> QED BY <1>4, <1>5, SetInduction
<1>7. N - 1 \in S /\ (N - 1) + 1 = N
  <2> HIDE DEF S
  <2> QED BY <1>0, <1>6
<1>8. start \in f[N].visited /\ IsFiniteSet(f[N].visited)
  BY <1>7
<1> QED BY <1>1, <1>8

\* insert_vertex_id leaves the vectors and the entry point alone; it fails for
\* the entry point only.
LEMMA InsertVertexKeeps ==
  ASSUME NEW n \in Nat, NEW ix, Shape(ix, n), NEW v \in 0 .. (n - 1)
  PROVE  LET jx == insert_vertex_id(ix, v)
         IN  /\ jx = Failed \/ (Shape(jx, n) /\ SameData(ix, jx))
             /\ v # ix.start => jx # Failed
<1> DEFINE pool == search_for_point(ix, v)
           pruned == prune_neighbors(ix, v, pool)
           linked(n0) == Linked([ix EXCEPT !.graph[v] = pruned], n0, v)
<1>1. v # ix.start => pruned # {}
  <2>1. Cardinality(DOMAIN ix.graph) = n /\ n > 0
    <3>1. n - 1 \in Int /\ 0 \in Int /\ n > 0
      OBVIOUS
    <3>2. Cardinality(0 .. (n - 1)) = n
      BY <3>1, FS_Interval
    <3> QED BY <3>1, <3>2 DEF Shape
  <2>2. IsFiniteSet(pool) /\ (v # ix.start => pool # {})
    <3> DEFINE visited == greedy_search(ix, ix.data[v], BuildList, DOMAIN ix.graph, {ix.start}).visited
    <3>1. ix.start \in visited /\ IsFiniteSet(visited)
      BY <2>1, SearchExpandsStart
    <3>2. pool = visited \ {v}
      BY DEF search_for_point
    <3> HIDE DEF visited, pool
    <3> QED BY <3>1, <3>2, FS_RemoveElement
  <2> HIDE DEF pool
  <2> QED BY <2>2, PruneKeepsOne
<1>2. insert_vertex_id(ix, v) =
        IF pruned = {} THEN Failed
        ELSE [[ix EXCEPT !.graph[v] = pruned] EXCEPT !.graph =
                 [m \in DOMAIN @ |-> IF m \in pruned THEN linked(m) ELSE @[m]]]
  BY DEF insert_vertex_id
<1> HIDE DEF pruned, linked
<1>3. DOMAIN ix = {"data", "graph", "start", "capacity", "delete_set"}
  BY DEF Shape
<1>4. ASSUME pruned # {}
      PROVE  Shape(insert_vertex_id(ix, v), n) /\ SameData(ix, insert_vertex_id(ix, v))
  <2> DEFINE one == [ix EXCEPT !.graph[v] = pruned]
             g == [m \in DOMAIN one.graph |-> IF m \in pruned THEN linked(m) ELSE one.graph[m]]
  <2>1. one = [data |-> ix.data, graph |-> one.graph, start |-> ix.start,
               capacity |-> ix.capacity, delete_set |-> ix.delete_set]
        /\ DOMAIN one.graph = 0 .. (n - 1)
    BY DEF Shape
  <2>2. insert_vertex_id(ix, v) = [one EXCEPT !.graph = g]
    BY <1>2, <1>4
  <2>3. DOMAIN g = 0 .. (n - 1)
    BY <2>1
  <2> HIDE DEF one, g
  <2>4. insert_vertex_id(ix, v) = [data |-> ix.data, graph |-> g, start |-> ix.start,
                                   capacity |-> ix.capacity, delete_set |-> ix.delete_set]
    BY <2>1, <2>2
  <2> HIDE DEF insert_vertex_id
  <2> QED BY <2>3, <2>4 DEF Shape, SameData
<1>5. Shape(Failed, n) => FALSE
  <2>1. DOMAIN Failed = {"failed"}
    BY DEF Failed
  <2> QED BY <2>1, ShapeIsNotFailed DEF IsFailed
<1> QED BY <1>1, <1>2, <1>4, <1>5

LEMMA InsertAllKeeps ==
  ASSUME NEW n \in Nat, NEW ix, Shape(ix, n), NEW from \in 0 .. n
  PROVE  LET jx == insert_all(ix, from, n)
         IN  /\ jx = Failed \/ (Shape(jx, n) /\ SameData(ix, jx))
             /\ ix.start < from /\ ix.start \in Nat => jx # Failed
<1> DEFINE N == n - from
<1>10. PICK f : InsertAllRun(f, ix, from, n)
  <2>1. from \in Nat /\ from <= n
    OBVIOUS
  <2> QED BY <2>1, InsertAllLoop
<1>1. /\ f[0] = ix
      /\ \A i \in 1 .. N : f[i] = insert_next(f[i - 1], from + i - 1)
      /\ insert_all(ix, from, n) = f[N]
  BY <1>10 DEF InsertAllRun
<1>2. IsFailed(Failed) /\ ~ Shape(Failed, n)
  <2>1. DOMAIN Failed = {"failed"}
    BY DEF Failed
  <2> QED BY <2>1, ShapeIsNotFailed DEF IsFailed
<1> DEFINE Good(jx) == /\ jx = Failed \/ (Shape(jx, n) /\ SameData(ix, jx))
                       /\ ix.start < from /\ ix.start \in Nat => jx # Failed
           S == {m \in Nat : m <= N => Good(f[m])}
<1>3. 0 \in S
  <2>1. Good(f[0])
    BY <1>1, <1>2 DEF SameData
  <2> HIDE DEF Good
  <2> QED BY <2>1
<1>4. ASSUME NEW m \in Nat, m \in S PROVE m + 1 \in S
  <2> SUFFICES ASSUME m + 1 <= N PROVE Good(f[m + 1])
    OBVIOUS
  <2>1. m + 1 \in 1 .. N /\ (m + 1) - 1 = m /\ m <= N /\ (from + (m + 1)) - 1 = from + m
        /\ from + m \in 0 .. (n - 1)
    OBVIOUS
  <2>2. f[m + 1] = insert_next(f[m], from + m)
    BY <1>1, <2>1
  <2>3. Good(f[m])
    <3> HIDE DEF Good
    <3> QED BY <1>4, <2>1
  <2>4. CASE f[m] = Failed
    BY <1>2, <2>2, <2>3, <2>4 DEF insert_next
  <2>5. CASE f[m] # Failed
    <3>1. Shape(f[m], n) /\ SameData(ix, f[m])
      BY <2>3, <2>5
    <3>2. f[m + 1] = insert_vertex_id(f[m], from + m)
      BY <2>2, <3>1, ShapeIsNotFailed DEF insert_next
    <3>3. /\ f[m + 1] = Failed \/ (Shape(f[m + 1], n) /\ SameData(f[m], f[m + 1]))
          /\ from + m # f[m].start => f[m + 1] # Failed
      BY <2>1, <3>1, <3>2, InsertVertexKeeps
    <3>4. f[m].start = ix.start
      BY <3>1 DEF SameData
    <3>5. ix.start < from /\ ix.start \in Nat => from + m # ix.start
      OBVIOUS
    <3>6. f[m + 1] = Failed \/ (Shape(f[m + 1], n) /\ SameData(ix, f[m + 1]))
      BY <3>1, <3>3 DEF SameData
    <3> QED BY <3>3, <3>4, <3>5, <3>6
  <2> QED BY <2>4, <2>5
<1>5. Nat \subseteq S
  <2> HIDE DEF S
  <2> QED BY <1>3, <1>4, SetInduction
<1>6. Good(f[N])
  <2> HIDE DEF Good
  <2> QED BY <1>5
<1> QED BY <1>1, <1>6

LEMMA CleanupKeeps ==
  ASSUME NEW n \in Nat, NEW ix, ix = Failed \/ Shape(ix, n)
  PROVE  /\ ix = Failed => cleanup_graph(ix) = Failed
         /\ Shape(ix, n) => /\ Shape(cleanup_graph(ix), n) /\ SameData(ix, cleanup_graph(ix))
                            /\ cleanup_graph(ix) # Failed
<1>1. IsFailed(Failed) /\ ~ Shape(Failed, n)
  <2>1. DOMAIN Failed = {"failed"}
    BY DEF Failed
  <2> QED BY <2>1, ShapeIsNotFailed DEF IsFailed
<1>2. ix = Failed => cleanup_graph(ix) = Failed
  BY <1>1 DEF cleanup_graph
<1>3. ASSUME Shape(ix, n)
      PROVE  Shape(cleanup_graph(ix), n) /\ SameData(ix, cleanup_graph(ix))
  <2> DEFINE p(v) == prune_neighbors(ix, v, ix.graph[v])
             g == [v \in DOMAIN ix.graph |-> IF Cardinality(ix.graph[v]) > MaxDegree
                                             THEN p(v) ELSE ix.graph[v]]
  <2>1. cleanup_graph(ix) = [ix EXCEPT !.graph = g]
    BY <1>3, ShapeIsNotFailed DEF cleanup_graph
  <2>2. DOMAIN g = 0 .. (n - 1)
    <3> HIDE DEF p
    <3> QED BY <1>3 DEF Shape
  <2> HIDE DEF g
  <2>3. cleanup_graph(ix) = [data |-> ix.data, graph |-> g, start |-> ix.start,
                             capacity |-> ix.capacity, delete_set |-> ix.delete_set]
    BY <1>3, <2>1 DEF Shape
  <2> HIDE DEF cleanup_graph
  <2> QED BY <1>3, <2>2, <2>3 DEF Shape, SameData
<1> QED BY <1>1, <1>2, <1>3

\* The entry point is one of the slots.
LEMMA SumIsVector ==
  ASSUME NEW points \in Seq(Int \X Int)
  PROVE  vector_sum(points) \in Int \X Int
<1>0. PICK f : VectorSumRun(f, points)
  BY VectorSumLoop
<1>1. /\ f[0] = <<0, 0>>
      /\ \A i \in 1 .. Len(points) : f[i] = plus(f[i - 1], points[i])
      /\ vector_sum(points) = f[Len(points)]
  BY <1>0 DEF VectorSumRun
<1> DEFINE S == {m \in Nat : m <= Len(points) => f[m] \in Int \X Int}
<1>2. 0 \in S
  <2>1. <<0, 0>> \in Int \X Int
    OBVIOUS
  <2> QED BY <1>1, <2>1
<1>3. ASSUME NEW m \in Nat, m \in S PROVE m + 1 \in S
  <2> SUFFICES ASSUME m + 1 <= Len(points) PROVE f[m + 1] \in Int \X Int
    OBVIOUS
  <2>1. m + 1 \in 1 .. Len(points) /\ (m + 1) - 1 = m /\ m <= Len(points)
    OBVIOUS
  <2>2. points[m + 1] \in Int \X Int /\ f[m] \in Int \X Int
    BY <1>3, <2>1
  <2>3. f[m + 1] = plus(f[m], points[m + 1])
    BY <1>1, <2>1
  <2> QED BY <2>2, <2>3 DEF plus
<1>4. Nat \subseteq S
  <2> HIDE DEF S
  <2> QED BY <1>2, <1>3, SetInduction
<1> QED BY <1>1, <1>4

LEMMA MedoidIsSlot ==
  ASSUME NEW points \in Seq(Int \X Int), Len(points) > 0
  PROVE  calculate_medoid_point_id(points) \in 0 .. (Len(points) - 1)
<1> DEFINE n == Len(points)
           off(i) == Dist(vector_sum(points), <<n * points[i][1], n * points[i][2]>>)
           nearest == {i \in 1 .. n : \A j \in 1 .. n : off(i) <= off(j)}
<1>0. n \in Nat /\ n > 0
  OBVIOUS
<1>1. \A i \in 1 .. n : off(i) \in Int
  <2> TAKE i \in 1 .. n
  <2>1. points[i] \in Int \X Int /\ vector_sum(points) \in Int \X Int
    BY SumIsVector
  <2>2. points[i][1] \in Int /\ points[i][2] \in Int
        /\ vector_sum(points)[1] \in Int /\ vector_sum(points)[2] \in Int
    BY <2>1
  <2>3. n * points[i][1] \in Int /\ n * points[i][2] \in Int
    BY <1>0, <2>2
  <2> DEFINE a == vector_sum(points)[1]
             b == vector_sum(points)[2]
             c == n * points[i][1]
             d == n * points[i][2]
  <2>4. off(i) = (a - c) * (a - c) + (b - d) * (b - d)
    BY DEF Dist
  <2>5. a \in Int /\ b \in Int /\ c \in Int /\ d \in Int
    BY <2>2, <2>3
  <2> HIDE DEF a, b, c, d, n, off
  <2> QED BY <2>4, <2>5
<1>2. calculate_medoid_point_id(points) = Min(nearest) - 1
  BY DEF calculate_medoid_point_id
<1> HIDE DEF n, off
<1>3. nearest # {}
  <2> DEFINE S == {m \in Nat : m + 1 <= n =>
                      \E i \in 1 .. (m + 1) : \A j \in 1 .. (m + 1) : off(i) <= off(j)}
  <2>1. 0 \in S
    <3>1. 1 \in 1 .. (0 + 1) /\ (\A j \in 1 .. (0 + 1) : j = 1) /\ off(1) <= off(1)
      BY <1>0, <1>1
    <3> QED BY <3>1
  <2>2. ASSUME NEW m \in Nat, m \in S PROVE m + 1 \in S
    <3> SUFFICES ASSUME (m + 1) + 1 <= n
                 PROVE  \E i \in 1 .. ((m + 1) + 1) : \A j \in 1 .. ((m + 1) + 1) : off(i) <= off(j)
      OBVIOUS
    <3>1. m + 1 <= n
      BY <1>0
    <3>2. PICK i \in 1 .. (m + 1) : \A j \in 1 .. (m + 1) : off(i) <= off(j)
      BY <2>2, <3>1
    <3> DEFINE k == (m + 1) + 1
    <3>3. /\ i \in 1 .. n /\ k \in 1 .. n /\ i \in 1 .. k /\ k \in 1 .. k
          /\ \A j \in 1 .. k : j \in 1 .. n /\ (j \in 1 .. (m + 1) \/ j = k)
      BY <1>0
    <3> HIDE DEF k
    <3>4. CASE off(i) <= off(k)
      <4>1. \A j \in 1 .. k : off(i) <= off(j)
        BY <3>2, <3>3, <3>4
      <4> QED BY <3>3, <4>1 DEF k
    <3>5. CASE ~ (off(i) <= off(k))
      <4>1. \A j \in 1 .. k : off(k) <= off(j)
        <5> TAKE j \in 1 .. k
        <5>1. off(i) \in Int /\ off(k) \in Int /\ off(j) \in Int
          BY <1>1, <3>3
        <5>2. off(i) <= off(j) \/ j = k
          BY <3>2, <3>3
        <5> QED BY <3>5, <5>1, <5>2
      <4> QED BY <3>3, <4>1 DEF k
    <3> QED BY <3>4, <3>5
  <2>3. Nat \subseteq S
    <3> HIDE DEF S
    <3> QED BY <2>1, <2>2, SetInduction
  <2>4. n - 1 \in S /\ (n - 1) + 1 = n
    <3> HIDE DEF S
    <3> QED BY <1>0, <2>3
  <2>5. \E i \in 1 .. n : \A j \in 1 .. n : off(i) <= off(j)
    BY <2>4
  <2> QED BY <2>5
<1>4. nearest \in SUBSET Nat /\ nearest \subseteq 1 .. n
  BY <1>0
<1> HIDE DEF nearest
<1>5. \E x \in nearest : \A y \in nearest : x <= y
  BY <1>3, <1>4, LeastElement
<1>6. Min(nearest) \in nearest
  BY <1>5 DEF Min
<1>7. Min(nearest) \in 1 .. n
  BY <1>4, <1>6
<1> QED BY <1>0, <1>2, <1>7 DEF n

\* build_from_memory numbers the vectors in their order.
LEMMA BuildNumbers ==
  ASSUME NEW points \in Seq(Int \X Int), Len(points) > 0
  PROVE  LET ix == build_from_memory(points)
         IN  \/ ix = Failed
             \/ /\ Shape(ix, Len(points)) /\ ix.start \in 0 .. (Len(points) - 1)
                /\ \A i \in 0 .. (Len(points) - 1) : ix.data[i] = points[i + 1]
<1> DEFINE n == Len(points)
           new == [data       |-> [i \in 0 .. (n - 1) |-> points[i + 1]],
                   graph      |-> [i \in 0 .. (n - 1) |-> {}],
                   start      |-> calculate_medoid_point_id(points),
                   capacity   |-> n * Growth,
                   delete_set |-> {}]
           all == insert_all(new, 0, n)
<1>1. n \in Nat /\ 0 \in 0 .. n
  OBVIOUS
<1>2. Shape(new, n) /\ new.start \in 0 .. (n - 1) /\ new.data = [i \in 0 .. (n - 1) |-> points[i + 1]]
  BY MedoidIsSlot DEF Shape
<1>3. build_from_memory(points) = cleanup_graph(all)
  BY DEF build_from_memory
<1> HIDE DEF new
<1>4. all = Failed \/ (Shape(all, n) /\ SameData(new, all))
  BY <1>1, <1>2, InsertAllKeeps
<1> HIDE DEF all
<1>5. /\ all = Failed => cleanup_graph(all) = Failed
      /\ Shape(all, n) => Shape(cleanup_graph(all), n) /\ SameData(all, cleanup_graph(all))
  BY <1>1, <1>4, CleanupKeeps
<1> QED BY <1>2, <1>3, <1>4, <1>5 DEF SameData

\* k vectors were appended to an index over n slots.
Appended(ix, n, points, k, jx) ==
    /\ Shape(jx, n + k) /\ jx.start = ix.start
    /\ \A i \in 0 .. (n - 1) : jx.data[i] = ix.data[i]
    /\ \A i \in 1 .. k : jx.data[n + i - 1] = points[i]

\* insert_from_memory appends the vectors.  Once they are appended nothing fails
\* any more: only a full index refuses a batch, and it does so before the first
\* vector is stored, so that the rollback of the adapter finds DiskANN unchanged.
LEMMA InsertNumbers ==
  ASSUME NEW n \in Nat, NEW ix, Shape(ix, n), ix.start \in 0 .. (n - 1),
         NEW points, NEW k \in Nat, Len(points) = k
  PROVE  LET jx == insert_from_memory(ix, points)
         IN  /\ jx = Failed <=> n + k > ix.capacity
             /\ jx # Failed => Appended(ix, n, points, k, jx)
<1> DEFINE D(o, w) == [i \in 0 .. (w - 1) |-> IF i < o THEN ix.data[i] ELSE points[i - o + 1]]
           G(o, w) == [i \in 0 .. (w - 1) |-> IF i < o THEN ix.graph[i] ELSE {}]
           New(o, w) == [ix EXCEPT !.data = D(o, w), !.graph = G(o, w)]
           Result(o, w) == IF w > ix.capacity THEN Failed ELSE cleanup_graph(insert_all(New(o, w), o, w))
           new == New(n, n + k)
           all == insert_all(new, n, n + k)
<1>1. Cardinality(DOMAIN ix.data) = n
  <2>1. Cardinality(0 .. (n - 1)) = n
    BY FS_Interval
  <2> QED BY <2>1 DEF Shape
<1>2. insert_from_memory(ix, points) = IF n + k > ix.capacity THEN Failed ELSE cleanup_graph(all)
  <2>1. insert_from_memory(ix, points)
          = Result(Cardinality(DOMAIN ix.data), Cardinality(DOMAIN ix.data) + Len(points))
    BY DEF insert_from_memory
  <2>2. Result(n, n + k) = IF n + k > ix.capacity THEN Failed ELSE cleanup_graph(all)
    OBVIOUS
  <2> HIDE DEF Result
  <2> QED BY <1>1, <2>1, <2>2
<1>3. new = [data |-> D(n, n + k), graph |-> G(n, n + k),
             start |-> ix.start, capacity |-> ix.capacity, delete_set |-> ix.delete_set]
  <2> DEFINE d == D(n, n + k)
             g == G(n, n + k)
  <2>1. new = [ix EXCEPT !.data = d, !.graph = g]
    BY Zenon
  <2>2. ix = [data |-> ix.data, graph |-> ix.graph, start |-> ix.start,
              capacity |-> ix.capacity, delete_set |-> ix.delete_set]
    BY DEF Shape
  <2> HIDE DEF d, g, new
  <2>3. new = [data |-> d, graph |-> g, start |-> ix.start,
               capacity |-> ix.capacity, delete_set |-> ix.delete_set]
    BY <2>1, <2>2
  <2> QED BY <2>3 DEF d, g
<1> HIDE DEF new
<1>4. /\ Shape(new, n + k) /\ new.start = ix.start
      /\ new.data = [i \in 0 .. (n + k - 1) |-> IF i < n THEN ix.data[i] ELSE points[i - n + 1]]
  BY <1>3 DEF Shape
<1>5. n + k \in Nat /\ n \in 0 .. (n + k) /\ new.start < n /\ new.start \in Nat
  BY <1>4
<1>6. Shape(all, n + k) /\ SameData(new, all)
  BY <1>4, <1>5, InsertAllKeeps
<1> HIDE DEF all
<1>7. Shape(cleanup_graph(all), n + k) /\ SameData(all, cleanup_graph(all)) /\ cleanup_graph(all) # Failed
  BY <1>5, <1>6, CleanupKeeps
<1>8. cleanup_graph(all).data = new.data /\ cleanup_graph(all).start = ix.start
  BY <1>4, <1>6, <1>7 DEF SameData
<1>9. \A i \in 0 .. (n - 1) : cleanup_graph(all).data[i] = ix.data[i]
  BY <1>4, <1>8
<1>10. \A i \in 1 .. k : cleanup_graph(all).data[n + i - 1] = points[i]
  <2> TAKE i \in 1 .. k
  <2>1. n + i - 1 \in 0 .. (n + k - 1) /\ ~ (n + i - 1 < n) /\ (n + i - 1) - n + 1 = i
    OBVIOUS
  <2> QED BY <1>4, <1>8, <2>1
<1>11. Appended(ix, n, points, k, cleanup_graph(all))
  BY <1>7, <1>8, <1>9, <1>10 DEF Appended
<1> QED BY <1>2, <1>7, <1>11

-----------------------------------------------------------------------------
(* The maps of the adapter.                                                *)

\* SlotsAgree is inductive with the shape of the index: the slots are 0 to
\* next_vector_id - 1, so that the next ids are free in both maps and are the
\* slots DiskANN will append at.
Numbered(a, history) ==
    /\ a = [inner |-> a.inner, node_to_vector |-> a.node_to_vector,
            vector_to_node |-> a.vector_to_node, next_vector_id |-> a.next_vector_id]
    /\ a.next_vector_id \in Nat
    /\ Shape(a.inner, a.next_vector_id)
    /\ a.inner.start \in 0 .. (a.next_vector_id - 1)
    /\ DOMAIN a.vector_to_node \subseteq 0 .. (a.next_vector_id - 1)
    /\ DOMAIN a.node_to_vector = DOMAIN history
    /\ \A n \in DOMAIN history :
          /\ a.node_to_vector[n] \in DOMAIN a.vector_to_node
          /\ a.vector_to_node[a.node_to_vector[n]] = n
          /\ a.inner.data[a.node_to_vector[n]] = history[n]
    /\ \A i \in DOMAIN a.vector_to_node :
          /\ a.vector_to_node[i] \in DOMAIN history
          /\ a.node_to_vector[a.vector_to_node[i]] = i

\* No list of nodes given to an insert names a node twice: build refuses such a
\* list, insert only compares it with what is there.
DistinctBatches == \A b \in Batches : IsInjective(b)

VInv == /\ vec \in [Nodes -> Points \cup {NoVector}]
        /\ Exists => Numbered(index, indexed)

LEMMA NumberedAgrees ==
  ASSUME VInv
  PROVE  SlotsAgree
<1> SUFFICES ASSUME Exists PROVE SlotsAgree
  BY DEF SlotsAgree
<1>1. Numbered(index, indexed)
  BY DEF VInv
<1>2. Cardinality(0 .. (index.next_vector_id - 1)) = index.next_vector_id
  <2>1. index.next_vector_id \in Nat
    BY <1>1 DEF Numbered
  <2>2. \A n \in Nat : Cardinality(0 .. (n - 1)) = n
    BY FS_Interval
  <2> QED BY <2>1, <2>2
<1>3. Cardinality(DOMAIN index.inner.data) = index.next_vector_id
  BY <1>1, <1>2 DEF Numbered, Shape
<1> QED BY <1>1, <1>3 DEF Numbered, SlotsAgree

\* A list of distinct nodes and the vectors it is stored with.
LEMMA PointsOf ==
  ASSUME NEW nodes, NEW k \in Nat, DOMAIN nodes = 1 .. k, NEW T,
         \A i \in 1 .. k : vec[nodes[i]] \in T
  PROVE  LET points == [i \in DOMAIN nodes |-> vec[nodes[i]]]
         IN  points \in Seq(T) /\ Len(points) = k /\ \A i \in 1 .. k : points[i] = vec[nodes[i]]
<1> DEFINE points == [i \in DOMAIN nodes |-> vec[nodes[i]]]
<1>1. points \in [1 .. k -> T] /\ \A i \in 1 .. k : points[i] = vec[nodes[i]]
  OBVIOUS
<1> HIDE DEF points
<1>2. points \in Seq(T) /\ Len(points) = k
  BY <1>1
<1> QED BY <1>1, <1>2 DEF points

LEMMA BuildStep ==
  ASSUME VInv, build_vector_index
  PROVE  VInv'
<1> DEFINE S == {n \in Nodes : vec[n] # NoVector}
           nodes == Sorted(S)
           k == Len(nodes)
           points == [i \in DOMAIN nodes |-> vec[nodes[i]]]
           slot(n) == CHOOSE i \in 0 .. (k - 1) : nodes[i + 1] = n
           a == build(nodes)
           h == [n \in ToSet(nodes) |-> vec[n]]
<1>1. vec' = vec /\ vec \in [Nodes -> Points \cup {NoVector}]
  BY DEF VInv, build_vector_index
<1>2. CASE ~ (k > 0 /\ ~ IsFailed(a.inner))
  <2>1. index' = index /\ indexed' = indexed
    BY <1>2 DEF build_vector_index
  <2> QED BY <1>1, <2>1 DEF VInv, Exists, Numbered, Shape
<1>3. CASE k > 0 /\ ~ IsFailed(a.inner)
  <2>1. index' = a /\ indexed' = h
    BY <1>3 DEF build_vector_index
  <2>2. S \in SUBSET Nat /\ IsFiniteSet(S)
    BY VectorIndexAssumption, FS_Subset
  <2> HIDE DEF S
  <2>3. /\ nodes \in Seq(S) /\ k \in Nat /\ DOMAIN nodes = 1 .. k
        /\ \A i, j \in 1 .. k : nodes[i] = nodes[j] => i = j
    BY <2>2, SortedOK
  <2> HIDE DEF nodes, k
  <2>4. \A i \in 1 .. k : vec[nodes[i]] \in Int \X Int
    <3> TAKE i \in 1 .. k
    <3>1. nodes[i] \in S
      BY <2>3 DEF k
    <3>2. vec[nodes[i]] \in Points
      BY <1>1, <3>1 DEF S
    <3> QED BY <3>2, VectorIndexAssumption
  <2>5. points \in Seq(Int \X Int) /\ Len(points) = k /\ \A i \in 1 .. k : points[i] = vec[nodes[i]]
    BY <2>3, <2>4, PointsOf
  <2>6. a = [inner |-> build_from_memory(points), node_to_vector |-> [n \in ToSet(nodes) |-> slot(n)],
             vector_to_node |-> [i \in 0 .. (k - 1) |-> nodes[i + 1]], next_vector_id |-> k]
    BY DEF build, k
  <2> HIDE DEF a, points
  <2>7. build_from_memory(points) # Failed
    <3>1. IsFailed(Failed)
      BY DEF Failed, IsFailed
    <3> QED BY <1>3, <2>6, <3>1
  <2>8. /\ Shape(a.inner, k) /\ a.inner.start \in 0 .. (k - 1)
        /\ \A i \in 0 .. (k - 1) : a.inner.data[i] = points[i + 1]
    BY <1>3, <2>5, <2>6, <2>7, BuildNumbers
  <2>9. ASSUME NEW n \in ToSet(nodes) PROVE slot(n) \in 0 .. (k - 1) /\ nodes[slot(n) + 1] = n
    <3>1. PICK i \in 1 .. k : nodes[i] = n
      BY <2>3 DEF ToSet
    <3>2. i - 1 \in 0 .. (k - 1) /\ (i - 1) + 1 = i
      BY <2>3
    <3>3. \E j \in 0 .. (k - 1) : nodes[j + 1] = n
      BY <3>1, <3>2
    <3> QED BY <3>3
  <2>10. DOMAIN h = ToSet(nodes) /\ \A n \in ToSet(nodes) : h[n] = vec[n]
    OBVIOUS
  <2> HIDE DEF h, slot
  <2>11. ASSUME NEW n \in ToSet(nodes)
         PROVE  /\ a.node_to_vector[n] \in DOMAIN a.vector_to_node
                /\ a.vector_to_node[a.node_to_vector[n]] = n
                /\ a.inner.data[a.node_to_vector[n]] = h[n]
    <3>1. a.node_to_vector[n] = slot(n) /\ a.vector_to_node[slot(n)] = n
      BY <2>6, <2>9
    <3>2. slot(n) + 1 \in 1 .. k
      BY <2>3, <2>9
    <3>3. a.inner.data[slot(n)] = vec[n]
      BY <2>5, <2>8, <2>9, <3>2
    <3> QED BY <2>6, <2>9, <2>10, <3>1, <3>3
  <2>12. ASSUME NEW i \in 0 .. (k - 1)
         PROVE  nodes[i + 1] \in ToSet(nodes) /\ slot(nodes[i + 1]) = i
    <3>1. i + 1 \in 1 .. k
      BY <2>3
    <3>2. nodes[i + 1] \in ToSet(nodes)
      BY <2>3, <3>1 DEF ToSet
    <3>3. slot(nodes[i + 1]) \in 0 .. (k - 1) /\ nodes[slot(nodes[i + 1]) + 1] = nodes[i + 1]
      BY <2>9, <3>2
    <3>4. slot(nodes[i + 1]) + 1 \in 1 .. k
      BY <2>3, <3>3
    <3>5. slot(nodes[i + 1]) + 1 = i + 1
      BY <2>3, <3>1, <3>3, <3>4
    <3> QED BY <2>3, <3>2, <3>3, <3>5
  <2>13. Numbered(a, h)
    <3>1. DOMAIN a.node_to_vector = ToSet(nodes) /\ DOMAIN a.vector_to_node = 0 .. (k - 1)
          /\ a.next_vector_id = k
      BY <2>6
    <3>2. \A i \in 0 .. (k - 1) : /\ a.vector_to_node[i] \in ToSet(nodes)
                                  /\ a.node_to_vector[a.vector_to_node[i]] = i
      BY <2>6, <2>12
    <3>3. a = [inner |-> a.inner, node_to_vector |-> a.node_to_vector,
               vector_to_node |-> a.vector_to_node, next_vector_id |-> a.next_vector_id]
      BY <2>6
    <3> QED BY <2>3, <2>8, <2>10, <2>11, <3>1, <3>2, <3>3 DEF Numbered
  <2> QED BY <1>1, <2>1, <2>13 DEF VInv
<1> QED BY <1>2, <1>3

\* The nodes an insert or a delete goes through.
LEMMA BatchNodes ==
  ASSUME NEW batch \in Seq(Nodes), IsInjective(batch)
  PROVE  LET kept  == Sorted({i \in DOMAIN batch : vec[batch[i]] # NoVector})
             nodes == [i \in DOMAIN kept |-> batch[kept[i]]]
         IN  \E k \in Nat : /\ nodes \in Seq(Nodes) /\ Len(nodes) = k /\ DOMAIN nodes = 1 .. k
                            /\ \A i, j \in 1 .. k : nodes[i] = nodes[j] => i = j
<1> DEFINE P == {i \in DOMAIN batch : vec[batch[i]] # NoVector}
           kept == Sorted(P)
           nodes == [i \in DOMAIN kept |-> batch[kept[i]]]
           k == Cardinality(P)
<1>1. DOMAIN batch = 1 .. Len(batch) /\ Len(batch) \in Nat /\ \A i \in 1 .. Len(batch) : batch[i] \in Nodes
  OBVIOUS
<1>2. P \in SUBSET (1 .. Len(batch)) /\ P \in SUBSET Nat
  BY <1>1
<1>3. IsFiniteSet(1 .. Len(batch))
  BY <1>1, FS_Interval
<1> HIDE DEF P
<1>4. IsFiniteSet(P)
  BY <1>2, <1>3, FS_Subset
<1>5. /\ k \in Nat /\ kept \in Seq(P) /\ Len(kept) = k /\ DOMAIN kept = 1 .. k
      /\ \A i, j \in 1 .. k : kept[i] = kept[j] => i = j
  BY <1>2, <1>4, SortedOK
<1> HIDE DEF kept, k
<1>6. \A i \in 1 .. k : kept[i] \in P
  BY <1>5
<1>7. \A i \in 1 .. k : kept[i] \in DOMAIN batch /\ batch[kept[i]] \in Nodes
  BY <1>1, <1>2, <1>6
<1>8. nodes \in [1 .. k -> Nodes] /\ \A i \in 1 .. k : nodes[i] = batch[kept[i]]
  BY <1>5, <1>7
<1> HIDE DEF nodes
<1>9. nodes \in Seq(Nodes) /\ Len(nodes) = k /\ DOMAIN nodes = 1 .. k
  BY <1>5, <1>8
<1>10. \A i, j \in 1 .. k : nodes[i] = nodes[j] => i = j
  BY <1>5, <1>7, <1>8 DEF IsInjective
<1>11. \E n \in Nat : /\ nodes \in Seq(Nodes) /\ Len(nodes) = n /\ DOMAIN nodes = 1 .. n
                      /\ \A i, j \in 1 .. n : nodes[i] = nodes[j] => i = j
  BY <1>5, <1>9, <1>10
<1> QED BY <1>11 DEF nodes, kept, P

\* insert gives the nodes of a batch the ids after the last one.
Fresh(a, b, nodes, k, c) ==
    /\ c.inner = a.inner /\ c.next_vector_id = b + k
    /\ c = [inner |-> c.inner, node_to_vector |-> c.node_to_vector,
            vector_to_node |-> c.vector_to_node, next_vector_id |-> c.next_vector_id]
    /\ DOMAIN c.node_to_vector = DOMAIN a.node_to_vector \cup ToSet(nodes)
    /\ DOMAIN c.vector_to_node = DOMAIN a.vector_to_node \cup (b .. (b + k - 1))
    /\ \A n \in DOMAIN a.node_to_vector : c.node_to_vector[n] = a.node_to_vector[n]
    /\ \A i \in DOMAIN a.vector_to_node : c.vector_to_node[i] = a.vector_to_node[i]
    /\ \A i \in 1 .. k : /\ c.node_to_vector[nodes[i]] = b + i - 1
                         /\ c.vector_to_node[b + i - 1] = nodes[i]

LEMMA AllocatedFresh ==
  ASSUME NEW a, NEW h, Numbered(a, h),
         NEW nodes, NEW k \in Nat, Len(nodes) = k, DOMAIN nodes = 1 .. k,
         \A i, j \in 1 .. k : nodes[i] = nodes[j] => i = j,
         ToSet(nodes) \cap DOMAIN a.node_to_vector = {}
  PROVE  Fresh(a, a.next_vector_id, nodes, k, Allocated(a, nodes))
<1> DEFINE b == a.next_vector_id
           pos(n) == Max({i \in DOMAIN nodes : nodes[i] = n})
           N == [n \in ToSet(nodes) |-> b + pos(n) - 1]
           V == [i \in b .. (b + k - 1) |-> nodes[i - b + 1]]
           n2v == Extended(a.node_to_vector, N)
           v2n == Extended(a.vector_to_node, V)
           c == Allocated(a, nodes)
<1>1. b \in Nat /\ DOMAIN a.vector_to_node \subseteq 0 .. (b - 1)
  BY DEF Numbered
<1>2. c = [inner |-> a.inner, node_to_vector |-> n2v, vector_to_node |-> v2n, next_vector_id |-> b + k]
  <2>1. c = [a EXCEPT !.next_vector_id = b + k, !.node_to_vector = n2v, !.vector_to_node = v2n]
    BY DEF Allocated
  <2>2. a = [inner |-> a.inner, node_to_vector |-> a.node_to_vector,
             vector_to_node |-> a.vector_to_node, next_vector_id |-> b]
    BY DEF Numbered
  <2> HIDE DEF n2v, v2n, c, b
  <2> QED BY <2>1, <2>2
<1>3. \A i \in 1 .. k : nodes[i] \in ToSet(nodes) /\ pos(nodes[i]) = i
  <2> TAKE i \in 1 .. k
  <2>1. {j \in DOMAIN nodes : nodes[j] = nodes[i]} = {i}
    OBVIOUS
  <2>2. Max({i}) = i
    <3>1. \E x \in {i} : \A y \in {i} : x >= y
      OBVIOUS
    <3> QED BY <3>1 DEF Max
  <2> QED BY <2>1, <2>2 DEF ToSet
<1> HIDE DEF pos, c, b
<1>4. DOMAIN n2v = DOMAIN a.node_to_vector \cup ToSet(nodes)
      /\ \A n \in DOMAIN a.node_to_vector : n2v[n] = a.node_to_vector[n]
  BY DEF Extended
<1>5. DOMAIN v2n = DOMAIN a.vector_to_node \cup (b .. (b + k - 1))
      /\ \A i \in DOMAIN a.vector_to_node : v2n[i] = a.vector_to_node[i]
  <2>1. \A i \in DOMAIN a.vector_to_node : i \notin b .. (b + k - 1)
    BY <1>1
  <2> QED BY <2>1 DEF Extended
<1>6. \A i \in 1 .. k : n2v[nodes[i]] = b + i - 1 /\ v2n[b + i - 1] = nodes[i]
  <2> TAKE i \in 1 .. k
  <2>1. nodes[i] \in ToSet(nodes) /\ N[nodes[i]] = b + i - 1
    BY <1>3
  <2>2. b + i - 1 \in b .. (b + k - 1) /\ (b + i - 1) - b + 1 = i
    BY <1>1
  <2>3. V[b + i - 1] = nodes[i]
    BY <2>2
  <2>4. DOMAIN N = ToSet(nodes) /\ DOMAIN V = b .. (b + k - 1)
    OBVIOUS
  <2> HIDE DEF N, V
  <2> QED BY <2>1, <2>2, <2>3, <2>4 DEF Extended
<1> HIDE DEF n2v, v2n
<1> QED BY <1>2, <1>4, <1>5, <1>6 DEF Fresh, c, b

\* Taking the ids back restores both maps and the counter.
LEMMA RollbackRestores ==
  ASSUME NEW a, NEW h, Numbered(a, h), NEW nodes, NEW k \in Nat, Len(nodes) = k,
         DOMAIN nodes = 1 .. k, NEW c, Fresh(a, a.next_vector_id, nodes, k, c),
         ToSet(nodes) \cap DOMAIN a.node_to_vector = {}
  PROVE  Numbered(RolledBack(c, nodes), h)
<1> DEFINE b == a.next_vector_id
           ids == (c.next_vector_id - Len(nodes)) .. (c.next_vector_id - 1)
           n2v == Without(c.node_to_vector, ToSet(nodes))
           v2n == Without(c.vector_to_node, ids)
           d == RolledBack(c, nodes)
<1>1. b \in Nat /\ DOMAIN a.vector_to_node \subseteq 0 .. (b - 1)
  BY DEF Numbered
<1>2. d = [inner |-> a.inner, node_to_vector |-> n2v, vector_to_node |-> v2n, next_vector_id |-> b]
  <2>1. d = [c EXCEPT !.next_vector_id = c.next_vector_id - k, !.node_to_vector = n2v,
                      !.vector_to_node = v2n]
    BY DEF RolledBack
  <2>2. /\ c = [inner |-> a.inner, node_to_vector |-> c.node_to_vector,
                vector_to_node |-> c.vector_to_node, next_vector_id |-> b + k]
        /\ c.next_vector_id - k = b
    BY <1>1 DEF Fresh
  <2>3. d = [c EXCEPT !.next_vector_id = b, !.node_to_vector = n2v, !.vector_to_node = v2n]
    BY <2>1, <2>2, Zenon
  <2> HIDE DEF n2v, v2n, d, b
  <2>4. PICK f, g, n : c = [inner |-> a.inner, node_to_vector |-> f, vector_to_node |-> g,
                            next_vector_id |-> n]
    BY <2>2
  <2> QED BY <2>3, <2>4
<1>3. ids = b .. (b + k - 1)
  <2>1. c.next_vector_id = b + k /\ (b + k) - k = b
    BY <1>1 DEF Fresh
  <2>2. c.next_vector_id - Len(nodes) = b
    BY <2>1
  <2> HIDE DEF b
  <2> QED BY <1>1, <2>1, <2>2
<1>4. DOMAIN n2v = DOMAIN a.node_to_vector
      /\ \A n \in DOMAIN a.node_to_vector : n2v[n] = a.node_to_vector[n]
  BY DEF Without, Fresh
<1> HIDE DEF ids
<1>5. DOMAIN v2n = DOMAIN a.vector_to_node
      /\ \A i \in DOMAIN a.vector_to_node : v2n[i] = a.vector_to_node[i]
  <2>1. DOMAIN c.vector_to_node = DOMAIN a.vector_to_node \cup ids
    BY <1>3 DEF Fresh
  <2>2. DOMAIN a.vector_to_node \cap ids = {}
    BY <1>1, <1>3
  <2>3. DOMAIN v2n = DOMAIN a.vector_to_node
    BY <2>1, <2>2 DEF Without
  <2> QED BY <2>1, <2>2, <2>3 DEF Without, Fresh
<1> HIDE DEF n2v, v2n, d
<1> QED BY <1>2, <1>4, <1>5 DEF Numbered, d

\* What a successful insert leaves: the new DiskANN index under the new maps, and
\* the vectors of the batch in the history.
Stored(c, inner) == [c EXCEPT !.inner = inner]
Remembered(h, nodes, value) == Extended(h, [n \in ToSet(nodes) |-> value[n]])
VectorsOf(points, nodes, k, value) == \A i \in 1 .. k : points[i] = value[nodes[i]]

\* The slots DiskANN appends at are the ids the adapter has given.
LEMMA AppendAgrees ==
  ASSUME NEW a, NEW h, Numbered(a, h), NEW nodes, NEW k \in Nat,
         DOMAIN nodes = 1 .. k, NEW c, Fresh(a, a.next_vector_id, nodes, k, c),
         ToSet(nodes) \cap DOMAIN a.node_to_vector = {},
         NEW inner, NEW points, Appended(a.inner, a.next_vector_id, points, k, inner),
         NEW value, VectorsOf(points, nodes, k, value)
  PROVE  Numbered(Stored(c, inner), Remembered(h, nodes, value))
<1> DEFINE b == a.next_vector_id
           d == Stored(c, inner)
           g == Remembered(h, nodes, value)
<1>1. /\ b \in Nat /\ DOMAIN a.vector_to_node \subseteq 0 .. (b - 1) /\ a.inner.start \in 0 .. (b - 1)
      /\ DOMAIN a.node_to_vector = DOMAIN h
  BY DEF Numbered
<1>2. d = [inner |-> inner, node_to_vector |-> c.node_to_vector,
           vector_to_node |-> c.vector_to_node, next_vector_id |-> b + k]
  BY DEF Fresh, Stored
<1>3. /\ DOMAIN g = DOMAIN h \cup ToSet(nodes)
      /\ \A n \in DOMAIN h : g[n] = h[n]
      /\ \A n \in ToSet(nodes) : g[n] = value[n]
  BY <1>1 DEF Extended, Remembered
<1>4. \A n \in ToSet(nodes) : \E i \in 1 .. k : nodes[i] = n
  BY DEF ToSet
<1>5. \A i \in 1 .. k : nodes[i] \in ToSet(nodes)
  BY DEF ToSet
<1> HIDE DEF d, b, g
<1>6. ASSUME NEW n \in DOMAIN h
      PROVE  /\ d.node_to_vector[n] \in DOMAIN d.vector_to_node
             /\ d.vector_to_node[d.node_to_vector[n]] = n
             /\ d.inner.data[d.node_to_vector[n]] = g[n]
  <2>1. /\ a.node_to_vector[n] \in DOMAIN a.vector_to_node
        /\ a.vector_to_node[a.node_to_vector[n]] = n
        /\ a.inner.data[a.node_to_vector[n]] = h[n]
    BY DEF Numbered
  <2>2. a.node_to_vector[n] \in 0 .. (b - 1)
    BY <1>1, <2>1
  <2>3. c.node_to_vector[n] = a.node_to_vector[n] /\ DOMAIN a.vector_to_node \subseteq DOMAIN c.vector_to_node
        /\ c.vector_to_node[a.node_to_vector[n]] = n
    BY <1>1, <2>1 DEF Fresh
  <2>4. inner.data[a.node_to_vector[n]] = h[n]
    BY <2>1, <2>2 DEF b, Appended
  <2> QED BY <1>2, <1>3, <2>1, <2>3, <2>4
<1>7. ASSUME NEW n \in ToSet(nodes)
      PROVE  /\ d.node_to_vector[n] \in DOMAIN d.vector_to_node
             /\ d.vector_to_node[d.node_to_vector[n]] = n
             /\ d.inner.data[d.node_to_vector[n]] = g[n]
  <2>1. PICK i \in 1 .. k : nodes[i] = n
    BY <1>4
  <2>2. c.node_to_vector[n] = b + i - 1 /\ c.vector_to_node[b + i - 1] = n
    BY <2>1 DEF Fresh, b
  <2>3. b + i - 1 \in b .. (b + k - 1)
    BY <1>1
  <2>4. b + i - 1 \in DOMAIN c.vector_to_node
    BY <2>3 DEF Fresh, b
  <2>5. inner.data[b + i - 1] = value[n]
    BY <2>1 DEF b, Appended, VectorsOf
  <2> QED BY <1>2, <1>3, <2>2, <2>4, <2>5
<1>8. ASSUME NEW i \in DOMAIN c.vector_to_node
      PROVE  c.vector_to_node[i] \in DOMAIN g /\ c.node_to_vector[c.vector_to_node[i]] = i
  <2>1. CASE i \in DOMAIN a.vector_to_node
    <3>1. /\ c.vector_to_node[i] = a.vector_to_node[i] /\ a.vector_to_node[i] \in DOMAIN h
          /\ a.node_to_vector[a.vector_to_node[i]] = i
      BY <2>1 DEF Fresh, Numbered
    <3> QED BY <1>1, <1>3, <3>1 DEF Fresh
  <2>2. CASE i \in b .. (b + k - 1)
    <3>1. i - b + 1 \in 1 .. k /\ b + (i - b + 1) - 1 = i
      BY <1>1, <2>2
    <3>2. c.vector_to_node[i] = nodes[i - b + 1] /\ c.node_to_vector[nodes[i - b + 1]] = i
      BY <3>1 DEF Fresh, b
    <3> QED BY <1>3, <1>5, <3>1, <3>2
  <2> QED BY <2>1, <2>2 DEF Fresh, b
<1>9. DOMAIN c.vector_to_node \subseteq 0 .. (b + k - 1)
  BY <1>1 DEF Fresh, b
<1>10. DOMAIN c.node_to_vector = DOMAIN g
  BY <1>1, <1>3 DEF Fresh
<1>11. b + k \in Nat /\ inner.start \in 0 .. (b + k - 1) /\ Shape(inner, b + k)
  BY <1>1 DEF b, Appended
<1>12. /\ d.inner = inner /\ d.node_to_vector = c.node_to_vector
       /\ d.vector_to_node = c.vector_to_node /\ d.next_vector_id = b + k
       /\ d = [inner |-> d.inner, node_to_vector |-> d.node_to_vector,
               vector_to_node |-> d.vector_to_node, next_vector_id |-> d.next_vector_id]
  BY <1>2
<1>13. \A n \in DOMAIN g : /\ d.node_to_vector[n] \in DOMAIN d.vector_to_node
                           /\ d.vector_to_node[d.node_to_vector[n]] = n
                           /\ d.inner.data[d.node_to_vector[n]] = g[n]
  BY <1>3, <1>6, <1>7
<1>14. \A i \in DOMAIN d.vector_to_node : /\ d.vector_to_node[i] \in DOMAIN g
                                          /\ d.node_to_vector[d.vector_to_node[i]] = i
  BY <1>8, <1>12, Zenon
<1>15. /\ d.next_vector_id \in Nat /\ Shape(d.inner, d.next_vector_id)
       /\ d.inner.start \in 0 .. (d.next_vector_id - 1)
       /\ DOMAIN d.vector_to_node \subseteq 0 .. (d.next_vector_id - 1)
       /\ DOMAIN d.node_to_vector = DOMAIN g
  <2>1. d.next_vector_id = b + k /\ d.inner = inner
    BY <1>12
  <2>2. DOMAIN d.node_to_vector = DOMAIN g /\ DOMAIN d.vector_to_node = DOMAIN c.vector_to_node
    BY <1>10, <1>12
  <2>3. d.next_vector_id \in Nat /\ Shape(d.inner, d.next_vector_id)
    BY <1>11, <2>1, Zenon
  <2>4. d.inner.start \in 0 .. (d.next_vector_id - 1)
    BY <1>1, <1>11, <2>1
  <2>5. DOMAIN d.vector_to_node \subseteq 0 .. (d.next_vector_id - 1)
    BY <1>1, <1>9, <2>1, <2>2
  <2> QED BY <2>2, <2>3, <2>4, <2>5
<1>16. d = [inner |-> d.inner, node_to_vector |-> d.node_to_vector,
            vector_to_node |-> d.vector_to_node, next_vector_id |-> d.next_vector_id]
  BY <1>12
<1>17. Numbered(d, g)
  BY <1>13, <1>14, <1>15, <1>16, Zenon DEF Numbered
<1> QED BY <1>17 DEF d, g

LEMMA InsertStep ==
  ASSUME VInv, DistinctBatches, NEW batch \in Batches, insert_into_vector_index(batch)
  PROVE  VInv'
<1> DEFINE kept == Sorted({i \in DOMAIN batch : vec[batch[i]] # NoVector})
           nodes == [i \in DOMAIN kept |-> batch[kept[i]]]
           b == index.next_vector_id
           c == Allocated(index, nodes)
           points == [i \in DOMAIN nodes |-> vec[nodes[i]]]
           inner == insert_from_memory(c.inner, points)
<1>1. batch \in Seq(Nodes) /\ IsInjective(batch)
  BY VectorIndexAssumption DEF DistinctBatches
<1>2. \E k \in Nat : /\ nodes \in Seq(Nodes) /\ Len(nodes) = k /\ DOMAIN nodes = 1 .. k
                     /\ \A i, j \in 1 .. k : nodes[i] = nodes[j] => i = j
  BY <1>1, BatchNodes
<1>3. /\ Exists /\ ToSet(nodes) \cap DOMAIN index.node_to_vector = {}
      /\ \/ IsFailed(inner) /\ index' = RolledBack(c, nodes) /\ indexed' = indexed
         \/ /\ ~ IsFailed(inner) /\ index' = [c EXCEPT !.inner = inner]
            /\ indexed' = Extended(indexed, [n \in ToSet(nodes) |-> vec[n]])
      /\ vec' = vec
  BY DEF insert_into_vector_index
<1> HIDE DEF nodes
<1>4. PICK k \in Nat : /\ nodes \in Seq(Nodes) /\ Len(nodes) = k /\ DOMAIN nodes = 1 .. k
                       /\ \A i, j \in 1 .. k : nodes[i] = nodes[j] => i = j
  BY <1>2
<1>5. Numbered(index, indexed) /\ vec \in [Nodes -> Points \cup {NoVector}]
  BY <1>3 DEF VInv
<1>6. Fresh(index, b, nodes, k, c)
  BY <1>3, <1>4, <1>5, AllocatedFresh
<1>7. Len(points) = k /\ \A i \in 1 .. k : points[i] = vec[nodes[i]]
  <2>1. \A i \in 1 .. k : vec[nodes[i]] \in Points \cup {NoVector}
    BY <1>4, <1>5
  <2> QED BY <1>4, <2>1, PointsOf
<1>8. /\ b \in Nat /\ Shape(index.inner, b) /\ index.inner.start \in 0 .. (b - 1)
      /\ c.inner = index.inner
  BY <1>5, <1>6 DEF Numbered, Fresh
<1> HIDE DEF b, c, points
<1>9. inner # Failed => Appended(index.inner, b, points, k, inner)
  <2>1. inner = insert_from_memory(index.inner, points)
    BY <1>8, Zenon
  <2> HIDE DEF inner
  <2> QED BY <1>7, <1>8, <2>1, InsertNumbers
<1>10. ~ IsFailed(inner) => inner # Failed
  <2>1. IsFailed(Failed)
    BY DEF Failed, IsFailed
  <2> HIDE DEF inner
  <2> QED BY <2>1
<1> HIDE DEF inner
<1>11. CASE IsFailed(inner)
  <2>1. index' = RolledBack(c, nodes) /\ indexed' = indexed /\ vec' = vec
    BY <1>3, <1>11
  <2>2. Numbered(RolledBack(c, nodes), indexed)
    BY <1>3, <1>4, <1>5, <1>6, RollbackRestores DEF b
  <2> QED BY <1>5, <2>1, <2>2 DEF VInv
<1>12. CASE ~ IsFailed(inner)
  <2>1. /\ index' = [c EXCEPT !.inner = inner] /\ vec' = vec
        /\ indexed' = Extended(indexed, [n \in ToSet(nodes) |-> vec[n]])
    BY <1>3, <1>12
  <2>2. Appended(index.inner, index.next_vector_id, points, k, inner)
    BY <1>9, <1>10, <1>12 DEF b
  <2>3. Numbered(index', indexed')
    <3>1. Fresh(index, index.next_vector_id, nodes, k, c)
      BY <1>6 DEF b
    <3>2. ToSet(nodes) \cap DOMAIN index.node_to_vector = {} /\ Numbered(index, indexed)
          /\ k \in Nat /\ DOMAIN nodes = 1 .. k /\ VectorsOf(points, nodes, k, vec)
      BY <1>3, <1>4, <1>5, <1>7 DEF VectorsOf
    <3>3. index' = Stored(c, inner) /\ indexed' = Remembered(indexed, nodes, vec)
      BY <2>1 DEF Stored, Remembered
    <3>4. Numbered(Stored(c, inner), Remembered(indexed, nodes, vec))
      BY <2>2, <3>1, <3>2, AppendAgrees
    <3> QED BY <3>3, <3>4
  <2> QED BY <1>5, <2>1, <2>3 DEF VInv
<1> QED BY <1>11, <1>12

LEMMA DeleteStep ==
  ASSUME VInv, NEW batch \in Batches, delete_from_vector_index(batch)
  PROVE  VInv'
<1> DEFINE gone == ToSet(batch)
           ids == {index.node_to_vector[n] : n \in gone}
           names == {index.vector_to_node[i] : i \in ids}
           inner == soft_delete(index.inner, ids)
           n2v == Without(index.node_to_vector, names)
           v2n == Without(index.vector_to_node, ids)
<1>1. /\ Exists /\ gone \subseteq DOMAIN index.node_to_vector /\ vec' = vec
      /\ index' = [index EXCEPT !.inner = inner, !.node_to_vector = n2v, !.vector_to_node = v2n]
      /\ indexed' = Without(indexed, gone)
  BY DEF delete_from_vector_index
<1>2. Numbered(index, indexed) /\ vec \in [Nodes -> Points \cup {NoVector}]
  BY <1>1 DEF VInv
<1> HIDE DEF gone
<1>3. names = gone
  BY <1>1, <1>2 DEF Numbered
<1>4. Shape(inner, index.next_vector_id) /\ inner.data = index.inner.data /\ inner.start = index.inner.start
  <2> DEFINE more == index.inner.delete_set \cup ids
  <2>1. inner = [index.inner EXCEPT !.delete_set = more]
    BY DEF soft_delete
  <2> HIDE DEF inner, more
  <2>2. Shape(index.inner, index.next_vector_id)
    BY <1>2 DEF Numbered
  <2>3. inner = [data |-> index.inner.data, graph |-> index.inner.graph, start |-> index.inner.start,
                 capacity |-> index.inner.capacity, delete_set |-> more]
    BY <2>1, <2>2 DEF Shape
  <2> QED BY <2>2, <2>3 DEF Shape
<1> DEFINE d == [inner |-> inner, node_to_vector |-> n2v, vector_to_node |-> v2n,
                 next_vector_id |-> index.next_vector_id]
<1>5. index' = d
  <2>1. index = [inner |-> index.inner, node_to_vector |-> index.node_to_vector,
                 vector_to_node |-> index.vector_to_node, next_vector_id |-> index.next_vector_id]
    BY <1>2 DEF Numbered
  <2> HIDE DEF inner, n2v, v2n
  <2> QED BY <1>1, <2>1
<1>6. /\ DOMAIN indexed' = DOMAIN indexed \ gone
      /\ \A n \in DOMAIN indexed \ gone : indexed'[n] = indexed[n]
  BY <1>1 DEF Without
<1>7. DOMAIN n2v = DOMAIN index.node_to_vector \ gone
      /\ \A n \in DOMAIN index.node_to_vector \ gone : n2v[n] = index.node_to_vector[n]
  BY <1>3 DEF Without
<1>8. DOMAIN v2n = DOMAIN index.vector_to_node \ ids
      /\ \A i \in DOMAIN index.vector_to_node \ ids : v2n[i] = index.vector_to_node[i]
  BY DEF Without
<1> HIDE DEF n2v, v2n, inner, names
<1>9. \A n \in DOMAIN indexed \ gone : /\ n2v[n] \in DOMAIN v2n /\ v2n[n2v[n]] = n
                                       /\ inner.data[n2v[n]] = indexed[n]
  <2> TAKE n \in DOMAIN indexed \ gone
  <2>1. /\ n \in DOMAIN index.node_to_vector /\ index.node_to_vector[n] \in DOMAIN index.vector_to_node
        /\ index.vector_to_node[index.node_to_vector[n]] = n
        /\ index.inner.data[index.node_to_vector[n]] = indexed[n]
    BY <1>2 DEF Numbered
  <2>2. index.node_to_vector[n] \notin ids
    <3> SUFFICES ASSUME NEW m \in gone, index.node_to_vector[m] = index.node_to_vector[n] PROVE FALSE
      OBVIOUS
    <3>1. index.vector_to_node[index.node_to_vector[m]] = m
      BY <1>1, <1>2 DEF Numbered
    <3> QED BY <2>1, <3>1
  <2> HIDE DEF ids
  <2> QED BY <1>4, <1>7, <1>8, <2>1, <2>2
<1>10. \A i \in DOMAIN v2n : v2n[i] \in DOMAIN indexed \ gone /\ n2v[v2n[i]] = i
  <2> TAKE i \in DOMAIN v2n
  <2>1. /\ i \in DOMAIN index.vector_to_node /\ i \notin ids /\ v2n[i] = index.vector_to_node[i]
        /\ v2n[i] \in DOMAIN indexed /\ index.node_to_vector[v2n[i]] = i
    BY <1>2, <1>8 DEF Numbered
  <2>2. v2n[i] \notin gone
    BY <2>1
  <2>3. v2n[i] \in DOMAIN index.node_to_vector
    BY <1>2, <2>1 DEF Numbered
  <2> HIDE DEF ids
  <2> QED BY <1>7, <2>1, <2>2, <2>3
<1> HIDE DEF ids
<1>11. /\ DOMAIN v2n \subseteq 0 .. (index.next_vector_id - 1) /\ DOMAIN n2v = DOMAIN indexed \ gone
       /\ index.next_vector_id \in Nat /\ inner.start \in 0 .. (index.next_vector_id - 1)
  BY <1>2, <1>4, <1>7, <1>8 DEF Numbered
<1>12. Numbered(d, indexed')
  BY <1>4, <1>6, <1>9, <1>10, <1>11 DEF Numbered
<1> QED BY <1>1, <1>2, <1>5, <1>12 DEF VInv

LEMMA SetVectorStep ==
  ASSUME VInv, NEW w \in Writes, SetVector(w[1], w[2])
  PROVE  VInv'
<1>1. w[1] \in Nodes /\ w[2] \in Points \cup {NoVector}
  BY VectorIndexAssumption
<1>2. vec' = [vec EXCEPT ![w[1]] = w[2]] /\ index' = index /\ indexed' = indexed
  BY DEF SetVector
<1>3. vec' \in [Nodes -> Points \cup {NoVector}]
  BY <1>1, <1>2 DEF VInv
<1> QED BY <1>2, <1>3 DEF VInv, Exists

\* The index keeps its invariant through every operation.
LEMMA IndexInvariant == DistinctBatches /\ Spec => []VInv
<1>1. Init => VInv
  BY VectorIndexAssumption DEF Init, VInv, Exists
<1>0. SUFFICES ASSUME DistinctBatches PROVE Spec => []VInv
  OBVIOUS
<1>2. VInv /\ [Next]_vars => VInv'
  <2> SUFFICES ASSUME VInv, [Next]_vars PROVE VInv'
    OBVIOUS
  <2>1. CASE \E w \in Writes : SetVector(w[1], w[2])
    BY <2>1, SetVectorStep
  <2>2. CASE build_vector_index
    BY <2>2, BuildStep
  <2>3. CASE \E b \in Batches : insert_into_vector_index(b)
    BY <1>0, <2>3, InsertStep
  <2>4. CASE \E b \in Batches : delete_from_vector_index(b)
    BY <2>4, DeleteStep
  <2>5. CASE delete_vector_index
    BY <2>5 DEF delete_vector_index, VInv, Exists
  <2>6. CASE UNCHANGED vars
    BY <2>6 DEF vars, VInv, Exists
  <2> QED BY <2>1, <2>2, <2>3, <2>4, <2>5, <2>6 DEF Next
<1> QED BY <1>1, <1>2, PTL DEF Spec

\* However builds, inserts that fail, deletes and drops follow each other, if no
\* insert names a node twice, the numbers of the adapter (in_mem_diskann.rs) and the slots of DiskANN agree: the
\* two maps are inverse to each other and the slot of a node holds the vector it
\* was indexed with.
THEOREM NumberingAgrees == DistinctBatches /\ Spec => []SlotsAgree
<1>1. VInv => SlotsAgree
  BY NumberedAgrees
<1> QED BY <1>1, IndexInvariant, PTL

=============================================================================
