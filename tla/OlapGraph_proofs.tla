-------------------------- MODULE OlapGraph_proofs --------------------------
(***************************************************************************)
(* edge_id_map and the edge blocks of the analytical storage, for any      *)
(* number of vertices, edges and transactions, any block capacity, and     *)
(* clients that keep off each other's edges or not: the map holds the      *)
(* place of every edge and nothing else, so a writer that saw a location   *)
(* before it took the lock still finds its edge, and a scan that gives the *)
(* lock back between two edges returns each edge that kept its place once. *)
(* With clients that do keep off each other's edges, a point read finds    *)
(* what the snapshot holds, or nothing if the edge has moved.              *)
(***************************************************************************)
EXTENDS OlapReaders, TLAPS, FiniteSetTheorems, SequenceTheorems, WellFoundedInduction

-----------------------------------------------------------------------------
(* The inductive invariant.                                                  *)

Slot == [eid : Nat, dst : Nat, ts : Nat]
BlockFields == {"pre", "dead", "src", "min", "n", "e", "p"}

\* A block is chained to an earlier one; the slots behind its last edge are
\* clear, unless the block has been given up.
BlockOK(b, i) ==
    /\ DOMAIN b = BlockFields
    /\ b.pre \in 0 .. i - 1
    /\ b.n \in 0 .. BLOCK_CAPACITY
    /\ b.e \in [Slots -> Slot]
    /\ ~b.dead => \A o \in Slots : o > b.n => b.e[o] = NullEdge
BlocksOK(bs) == bs \in Seq(Range(bs)) /\ \A i \in DOMAIN bs : BlockOK(bs[i], i)

\* edge_id_map and the slots of the blocks are inverse to each other.
Place(i, o) == [b |-> i, o |-> o]
Places == [b : Nat, o : Nat]
Mapped(bs, m) == m \in [Eids -> Places] /\ \A e \in Eids : m[e] # NoLoc => Holds(bs, m[e], e)
Entered(bs, m, last) ==
    \A i \in DOMAIN bs : \A o \in 1 .. bs[i].n :
        bs[i].e[o].eid \in 1 .. last /\ m[bs[i].e[o].eid] = Place(i, o)
Exact(bs, m, last) == BlocksOK(bs) /\ Mapped(bs, m) /\ Entered(bs, m, last)

UndoRecords == [op : {"create", "set", "del"}, eid : Eids, ts : Nat]
Looks == [op : {"set", "del"}, eid : Eids, loc : Places]
TxRecords == [st : {"idle", "active", "committed", "aborted"}, start : Nat, commit : Nat,
              undo : Seq(UndoRecords), snap : [Eids -> Nat], look : Looks \cup {NoLook}]
VertexRecords == [vid : Vertices, block : Nat, val : Nat]

VerticesIn(vs, bs) == vs \in Seq(VertexRecords) /\ \A i \in DOMAIN vs : vs[i].block <= Len(bs)

OInv ==
    /\ eids \in 0 .. MaxEdges /\ clock \in Nat /\ logical \in Nat /\ vmap \in [Vertices -> Nat]
    /\ VerticesIn(vertices, blocks)
    /\ tx \in [Txns -> TxRecords]
    /\ Exact(blocks, loc, eids)

-----------------------------------------------------------------------------
(* Constants, numbers and sequences.                                         *)

LEMMA ConstantFacts ==
  /\ BLOCK_CAPACITY \in Nat /\ BLOCK_CAPACITY >= 1 /\ MaxEdges \in Nat /\ TXN_ID_START \in Nat
  /\ MaxTxn \in Nat /\ \A d \in Dsts : d \in Nat
  BY OlapAssumption

LEMMA SetInduction ==
  ASSUME NEW S, 0 \in S, \A m \in Nat : m \in S => m + 1 \in S
  PROVE  Nat \subseteq S
<1> SUFFICES ASSUME Nat \ S # {} PROVE FALSE
  OBVIOUS
<1>1. PICK x \in Nat \ S : \A y \in Nat \ S : ~ (<<y, x>> \in OpToRel(<, Nat))
  BY WFMin, NatLessThanWellFounded, Zenon
<1>2. x \in Nat /\ x # 0 /\ x \notin S
  OBVIOUS
<1>3. x - 1 \in Nat /\ x - 1 < x /\ (x - 1) + 1 = x
  BY <1>2
<1>4. <<x - 1, x>> \in OpToRel(<, Nat)
  <2>1. <<x - 1, x>> \in Nat \X Nat /\ <<x - 1, x>>[1] < <<x - 1, x>>[2]
    BY <1>2, <1>3
  <2> QED BY <2>1, Zenon DEF OpToRel
<1>5. x - 1 \in S
  BY <1>1, <1>3, <1>4, Zenon
<1> QED BY <1>2, <1>3, <1>5

LEMMA OverRange ==
  ASSUME NEW T, NEW f \in Seq(T)
  PROVE  f \in Seq(Range(f))
<1>1. DOMAIN f = 1 .. Len(f) /\ Len(f) \in Nat /\ \A i \in 1 .. Len(f) : f[i] \in T
  OBVIOUS
<1>2. \A i \in 1 .. Len(f) : f[i] \in Range(f)
  BY <1>1 DEF Range
<1> HIDE DEF Range
<1> QED BY <1>1, <1>2, SMT

\* A function over the positions of a sequence is a sequence of the same length.
LEMMA OverDomain ==
  ASSUME NEW n \in Nat, NEW f, f = [i \in 1 .. n |-> f[i]]
  PROVE  f \in Seq(Range(f)) /\ Len(f) = n /\ DOMAIN f = 1 .. n
<1>1. DOMAIN f = 1 .. n
  BY Zenon
<1>2. \A i \in 1 .. n : f[i] \in Range(f)
  BY <1>1 DEF Range
<1>3. f \in [1 .. n -> Range(f)]
  <2> HIDE DEF Range
  <2> QED BY <1>2, Zenon
<1> HIDE DEF Range
<1> QED BY <1>1, <1>3

-----------------------------------------------------------------------------
(* Blocks.                                                                   *)

LEMMA BlocksShape ==
  ASSUME NEW bs, BlocksOK(bs)
  PROVE  DOMAIN bs = 1 .. Len(bs) /\ Len(bs) \in Nat
<1> HIDE DEF Range
<1> QED BY DEF BlocksOK

LEMMA BlocksEach ==
  ASSUME NEW bs, BlocksOK(bs), NEW f, f = [i \in DOMAIN bs |-> f[i]],
         \A i \in DOMAIN bs : BlockOK(f[i], i)
  PROVE  BlocksOK(f) /\ Len(f) = Len(bs) /\ DOMAIN f = DOMAIN bs
<1>1. DOMAIN bs = 1 .. Len(bs) /\ Len(bs) \in Nat
  BY BlocksShape
<1>2. f = [i \in 1 .. Len(bs) |-> f[i]]
  BY <1>1
<1>3. f \in Seq(Range(f)) /\ Len(f) = Len(bs) /\ DOMAIN f = 1 .. Len(bs)
  BY <1>1, <1>2, OverDomain
<1> QED BY <1>1, <1>3 DEF BlocksOK

LEMMA BlocksReplace ==
  ASSUME NEW bs, BlocksOK(bs), NEW i \in DOMAIN bs, NEW b, BlockOK(b, i)
  PROVE  /\ BlocksOK([bs EXCEPT ![i] = b]) /\ Len([bs EXCEPT ![i] = b]) = Len(bs)
         /\ DOMAIN [bs EXCEPT ![i] = b] = DOMAIN bs
         /\ [bs EXCEPT ![i] = b][i] = b
         /\ \A j \in DOMAIN bs : j # i => [bs EXCEPT ![i] = b][j] = bs[j]
<1> DEFINE f == [bs EXCEPT ![i] = b]
<1>1. f[i] = b /\ \A j \in DOMAIN bs : j # i => f[j] = bs[j]
  OBVIOUS
<1>2. f = [j \in DOMAIN bs |-> f[j]]
  OBVIOUS
<1>3. \A j \in DOMAIN bs : BlockOK(f[j], j)
  BY <1>1 DEF BlocksOK
<1> HIDE DEF f
<1>4. BlocksOK(f) /\ Len(f) = Len(bs) /\ DOMAIN f = DOMAIN bs
  BY <1>2, <1>3, BlocksEach
<1> QED BY <1>1, <1>4 DEF f

LEMMA BlocksAppend ==
  ASSUME NEW bs, BlocksOK(bs), NEW b, BlockOK(b, Len(bs) + 1)
  PROVE  /\ BlocksOK(Append(bs, b)) /\ Len(Append(bs, b)) = Len(bs) + 1
         /\ DOMAIN Append(bs, b) = DOMAIN bs \cup {Len(bs) + 1}
         /\ Append(bs, b)[Len(bs) + 1] = b
         /\ \A j \in DOMAIN bs : Append(bs, b)[j] = bs[j]
<1> DEFINE f == Append(bs, b)
<1>1. DOMAIN bs = 1 .. Len(bs) /\ Len(bs) \in Nat
  BY BlocksShape
<1>2. bs \in Seq(Range(bs) \cup {b}) /\ b \in Range(bs) \cup {b}
  <2>1. bs \in Seq(Range(bs))
    BY DEF BlocksOK
  <2> HIDE DEF Range
  <2> QED BY <2>1
<1>3. /\ f \in Seq(Range(bs) \cup {b}) /\ Len(f) = Len(bs) + 1 /\ DOMAIN f = 1 .. Len(bs) + 1
      /\ f[Len(bs) + 1] = b /\ \A j \in 1 .. Len(bs) : f[j] = bs[j]
  <2> HIDE DEF Range
  <2> QED BY <1>1, <1>2
<1> HIDE DEF f
<1>4. f \in Seq(Range(f))
  BY <1>3, OverRange
<1>5. DOMAIN f = DOMAIN bs \cup {Len(bs) + 1}
  BY <1>1, <1>3
<1>6. \A j \in DOMAIN f : BlockOK(f[j], j)
  BY <1>1, <1>3, <1>5 DEF BlocksOK
<1> QED BY <1>1, <1>3, <1>4, <1>5, <1>6 DEF BlocksOK, f

-----------------------------------------------------------------------------
(* The map and the blocks.                                                   *)

\* A change that leaves every edge in its slot.
LEMMA SameSlots ==
  ASSUME NEW bs, NEW m, NEW last, Exact(bs, m, last), NEW cs, BlocksOK(cs), DOMAIN cs = DOMAIN bs,
         \A i \in DOMAIN bs : cs[i].n = bs[i].n /\ \A o \in Slots : cs[i].e[o].eid = bs[i].e[o].eid
  PROVE  Exact(cs, m, last)
<1>1. \A i \in DOMAIN bs : bs[i].n \in 0 .. BLOCK_CAPACITY
  BY DEF Exact, BlocksOK, BlockOK
<1>2. \A i \in DOMAIN bs : \A o \in 1 .. bs[i].n : o \in Slots
  BY <1>1, ConstantFacts DEF Slots
<1>3. Mapped(cs, m)
  BY <1>2 DEF Exact, Mapped, Holds
<1>4. Entered(cs, m, last)
  BY <1>2 DEF Exact, Entered
<1> QED BY <1>3, <1>4 DEF Exact

\* The edges of block b are in block c, each once, but for an edge x that may go
\* and a new one that may come.
Reordered(b, c, last, new, x) ==
    /\ \A o \in 1 .. c.n :
          /\ c.e[o].eid \in 1 .. new /\ c.e[o].eid # x
          /\ c.e[o].eid > last \/ \E q \in 1 .. b.n : b.e[q].eid = c.e[o].eid
          /\ \A q \in 1 .. c.n : c.e[q].eid = c.e[o].eid => q = o
    /\ \A q \in 1 .. b.n : b.e[q].eid = x \/ \E o \in 1 .. c.n : c.e[o].eid = b.e[q].eid

\* The moved edges are entered again, and x is taken out.
MapAfter(m, cs, i, x, m2) ==
    /\ m2 \in [Eids -> Places] /\ (x \in Eids => m2[x] = NoLoc)
    /\ \A e \in Eids : e # x => m2[e] = Remapped(m, cs, i)[e]
OnlyBlock(bs, cs, i) == DOMAIN cs = DOMAIN bs /\ \A j \in DOMAIN cs : j # i => cs[j] = bs[j]

LEMMA Moved ==
  ASSUME NEW bs, NEW m, NEW last \in Nat, Exact(bs, m, last),
         NEW cs, BlocksOK(cs), NEW i \in DOMAIN bs, OnlyBlock(bs, cs, i),
         NEW new \in Nat, last <= new, new <= MaxEdges,
         NEW x, x = 0 \/ \E q \in 1 .. bs[i].n : bs[i].e[q].eid = x,
         Reordered(bs[i], cs[i], last, new, x),
         NEW m2, MapAfter(m, cs, i, x, m2)
  PROVE  Exact(cs, m2, new)
<1>1. /\ BlocksOK(bs) /\ Mapped(bs, m) /\ Entered(bs, m, last)
      /\ \A k \in 1 .. new : k \in Eids
  BY ConstantFacts DEF Exact, Eids
<1>0. /\ \A o \in 1 .. cs[i].n :
            /\ cs[i].e[o].eid \in 1 .. new /\ cs[i].e[o].eid # x
            /\ cs[i].e[o].eid > last \/ \E q \in 1 .. bs[i].n : bs[i].e[q].eid = cs[i].e[o].eid
            /\ \A q \in 1 .. cs[i].n : cs[i].e[q].eid = cs[i].e[o].eid => q = o
      /\ \A q \in 1 .. bs[i].n :
            bs[i].e[q].eid = x \/ \E o \in 1 .. cs[i].n : cs[i].e[o].eid = bs[i].e[q].eid
      /\ DOMAIN cs = DOMAIN bs /\ \A j \in DOMAIN cs : j # i => cs[j] = bs[j]
      /\ m2 \in [Eids -> Places] /\ (x \in Eids => m2[x] = NoLoc)
      /\ \A e \in Eids : e # x => m2[e] = Remapped(m, cs, i)[e]
  BY DEF Reordered, OnlyBlock, MapAfter
<1> USE <1>0
<1>2. ASSUME NEW o \in 1 .. cs[i].n PROVE m2[cs[i].e[o].eid] = Place(i, o)
  <2> DEFINE e == cs[i].e[o].eid
  <2>1. e \in Eids /\ e # x
    BY <1>1
  <2>2. Remapped(m, cs, i)[e] = Place(i, CHOOSE q \in 1 .. cs[i].n : cs[i].e[q].eid = e)
    BY <2>1 DEF Remapped, Place
  <2>3. (CHOOSE q \in 1 .. cs[i].n : cs[i].e[q].eid = e) = o
    OBVIOUS
  <2> QED BY <2>1, <2>2, <2>3
<1>3. ASSUME NEW e \in Eids, e # x, ~\E o \in 1 .. cs[i].n : cs[i].e[o].eid = e
      PROVE  m2[e] = m[e]
  BY <1>3 DEF Remapped
<1>4. ASSUME NEW j \in DOMAIN cs, j # i, NEW o \in 1 .. cs[j].n
      PROVE  cs[j].e[o].eid \in 1 .. last /\ m2[cs[j].e[o].eid] = Place(j, o)
  <2> DEFINE e == cs[j].e[o].eid
  <2>1. j \in DOMAIN bs /\ cs[j] = bs[j]
    BY <1>4
  <2>2. e \in 1 .. last /\ m[e] = Place(j, o)
    BY <1>1, <2>1 DEF Entered
  <2>3. e \in Eids
    BY <2>2, ConstantFacts DEF Eids
  <2>4. Place(j, o) # NoLoc
    <3>1. DOMAIN bs = 1 .. Len(bs) /\ Len(bs) \in Nat
      BY <1>1, BlocksShape
    <3> QED BY <2>1, <3>1 DEF Place, NoLoc, NONE
  <2>5. ASSUME NEW q \in 1 .. bs[i].n, bs[i].e[q].eid = e PROVE FALSE
    <3>1. m[e] = Place(i, q)
      BY <1>1, <2>5 DEF Entered
    <3> QED BY <1>4, <2>2, <3>1 DEF Place
  <2>6. ~\E p \in 1 .. cs[i].n : cs[i].e[p].eid = e
    BY <2>2, <2>5
  <2>7. CASE e # x
    BY <1>3, <2>2, <2>3, <2>6, <2>7
  <2>8. CASE e = x
    BY <2>2, <2>5, <2>8
  <2> QED BY <2>2, <2>7, <2>8
<1>5. Entered(cs, m2, new)
  <2> SUFFICES ASSUME NEW j \in DOMAIN cs, NEW o \in 1 .. cs[j].n
               PROVE  cs[j].e[o].eid \in 1 .. new /\ m2[cs[j].e[o].eid] = Place(j, o)
    BY DEF Entered
  <2>1. CASE j = i
    BY <1>2, <2>1
  <2>2. CASE j # i
    BY <1>4, <2>2
  <2> QED BY <2>1, <2>2
<1>6. ASSUME NEW e \in Eids, m2[e] # NoLoc PROVE Holds(cs, m2[e], e)
  <2>1. e # x
    BY <1>6
  <2>2. CASE \E o \in 1 .. cs[i].n : cs[i].e[o].eid = e
    <3>1. PICK o \in 1 .. cs[i].n : cs[i].e[o].eid = e
      BY <2>2
    <3>2. m2[e] = Place(i, o)
      BY <1>2, <3>1
    <3> QED BY <3>1, <3>2 DEF Holds, Place
  <2>3. CASE ~\E o \in 1 .. cs[i].n : cs[i].e[o].eid = e
    <3>1. m2[e] = m[e]
      BY <1>3, <2>1, <2>3
    <3>2. Holds(bs, m[e], e)
      BY <1>1, <1>6, <3>1 DEF Mapped
    <3>3. m[e].b # i
      BY <2>1, <2>3, <3>2 DEF Holds
    <3> QED BY <3>1, <3>2, <3>3 DEF Holds
  <2> QED BY <2>2, <2>3
<1> QED BY <1>5, <1>6 DEF Exact, Mapped

-----------------------------------------------------------------------------
(* Slots of one block.                                                       *)

LEMMA NullEdgeTyped == NullEdge \in Slot
  BY DEF NullEdge, Slot, TOMBSTONE_DST_ID

LEMMA NewBlockOK ==
  ASSUME NEW i \in Nat, NEW pre \in 0 .. i - 1, NEW src, NEW min
  PROVE  BlockOK(NewBlock(pre, src, min), i) /\ NewBlock(pre, src, min).n = 0
  BY NullEdgeTyped, ConstantFacts DEF BlockOK, NewBlock, BlockFields

LEMMA InsertAtRange ==
  ASSUME NEW b, b.n \in 0 .. BLOCK_CAPACITY, NEW dst, NEW pos \in InsertAt(b, dst)
  PROVE  pos \in 1 .. b.n + 1
<1> DEFINE k == [i \in 1 .. b.n |-> b.e[i].dst]
           below == {i \in 1 .. b.n : k[i] < dst}
<1>1. b.n \in Nat
  BY ConstantFacts
<1>2. IsFiniteSet(1 .. b.n) /\ Cardinality(1 .. b.n) = b.n
  BY <1>1, FS_Interval
<1>3. below \subseteq 1 .. b.n
  OBVIOUS
<1> HIDE DEF below
<1>4. Cardinality(below) \in Nat /\ Cardinality(below) <= b.n
  BY <1>2, <1>3, FS_Subset, FS_CardinalityType
<1>5. 1 + Cardinality(below) \in 1 .. b.n + 1
  BY <1>1, <1>4
<1>6. \/ pos \in 1 .. b.n + 1
      \/ pos \in {i \in 1 .. b.n : k[i] = dst}
      \/ pos = 1 + Cardinality(below)
  BY DEF InsertAt, below
<1> HIDE DEF k
<1> QED BY <1>1, <1>5, <1>6

\* Block c is block b with the edge x put in, or taken out, at pos.
Gained(b, c, pos, x) ==
    /\ c.n = b.n + 1
    /\ \A o \in 1 .. b.n + 1 :
          c.e[o].eid = IF o < pos THEN b.e[o].eid ELSE IF o = pos THEN x ELSE b.e[o - 1].eid
Lost(b, c, pos) ==
    /\ c.n = b.n - 1
    /\ \A o \in 1 .. b.n - 1 : c.e[o].eid = IF o < pos THEN b.e[o].eid ELSE b.e[o + 1].eid

Replaces(bs, cs, i, c) == cs = [bs EXCEPT ![i] = c]

LEMMA InsertedOK ==
  ASSUME NEW i \in Nat, NEW b, BlockOK(b, i), b.n < BLOCK_CAPACITY, NEW pos \in 1 .. b.n + 1,
         NEW slot \in Slot, NEW ver, NEW c, c = Inserted(b, pos, slot, ver)
  PROVE  BlockOK(c, i) /\ Gained(b, c, pos, slot.eid)
<1> DEFINE es == [j \in Slots |-> IF j = pos THEN slot ELSE IF j > pos /\ j <= b.n + 1 THEN b.e[j - 1] ELSE b.e[j]]
           ps == [j \in Slots |-> IF j = pos THEN Append(b.p[j], ver)
                                  ELSE IF j > pos /\ j <= b.n + 1 THEN b.p[j - 1] ELSE b.p[j]]
           mn == IF is_txn_id(ver.ts) THEN Min({b.min, ver.ts}) ELSE b.min
<1>1. /\ DOMAIN b = BlockFields /\ b.n \in Nat /\ b.e \in [Slots -> Slot] /\ b.pre \in 0 .. i - 1
      /\ ~b.dead => \A o \in Slots : o > b.n => b.e[o] = NullEdge
  BY ConstantFacts DEF BlockOK
<1>2. c = [b EXCEPT !.n = @ + 1, !.min = mn, !.e = es, !.p = ps]
  BY Zenon DEF Inserted
<1> HIDE DEF es, ps, mn
<1>3. /\ DOMAIN c = BlockFields /\ c.n = b.n + 1 /\ c.e = es /\ c.dead = b.dead /\ c.pre = b.pre
  BY <1>1, <1>2 DEF BlockFields
<1>4. \A j \in Slots : es[j] = IF j = pos THEN slot ELSE IF j > pos /\ j <= b.n + 1 THEN b.e[j - 1] ELSE b.e[j]
  BY DEF es
<1>5. es \in [Slots -> Slot]
  <2>1. DOMAIN es = Slots /\ es = [j \in Slots |-> es[j]]
    BY DEF es
  <2>2. \A j \in Slots : es[j] \in Slot
    <3> TAKE j \in Slots
    <3>1. j > pos => j - 1 \in Slots
      BY <1>1, ConstantFacts DEF Slots
    <3> QED BY <1>1, <1>4, <3>1
  <2> QED BY <2>1, <2>2, Zenon
<1>6. ~b.dead => \A o \in Slots : o > b.n + 1 => es[o] = NullEdge
  <2> SUFFICES ASSUME ~b.dead, NEW o \in Slots, o > b.n + 1 PROVE es[o] = NullEdge
    OBVIOUS
  <2>1. o # pos /\ ~(o <= b.n + 1) /\ o > b.n
    BY <1>1, ConstantFacts DEF Slots
  <2> QED BY <1>1, <1>4, <2>1
<1>7. b.n + 1 \in 0 .. BLOCK_CAPACITY
  BY <1>1, ConstantFacts
<1>8. ASSUME NEW o \in 1 .. b.n + 1
      PROVE  es[o] = IF o < pos THEN b.e[o] ELSE IF o = pos THEN slot ELSE b.e[o - 1]
  <2>1. o \in Slots
    BY <1>1, ConstantFacts DEF Slots
  <2> QED BY <1>1, <1>4, <2>1
<1>9. BlockOK(c, i)
  BY <1>1, <1>3, <1>5, <1>6, <1>7 DEF BlockOK
<1>10. Gained(b, c, pos, slot.eid)
  BY <1>3, <1>8 DEF Gained
<1> QED BY <1>9, <1>10

LEMMA RemovedOK ==
  ASSUME NEW i \in Nat, NEW b, BlockOK(b, i), NEW pos \in 1 .. b.n, NEW c, c = Removed(b, pos)
  PROVE  BlockOK(c, i) /\ Lost(b, c, pos)
<1> DEFINE es == [j \in Slots |-> IF j = b.n THEN NullEdge ELSE IF j >= pos /\ j < b.n THEN b.e[j + 1] ELSE b.e[j]]
           ps == [j \in Slots |-> IF j = b.n THEN <<>> ELSE IF j >= pos /\ j < b.n THEN b.p[j + 1] ELSE b.p[j]]
<1>1. /\ DOMAIN b = BlockFields /\ b.n \in Nat /\ b.n <= BLOCK_CAPACITY
      /\ b.e \in [Slots -> Slot] /\ b.pre \in 0 .. i - 1
      /\ ~b.dead => \A o \in Slots : o > b.n => b.e[o] = NullEdge
  BY ConstantFacts DEF BlockOK
<1>2. c = [b EXCEPT !.n = @ - 1, !.e = es, !.p = ps]
  BY Zenon DEF Removed
<1> HIDE DEF es, ps
<1>3. /\ DOMAIN c = BlockFields /\ c.n = b.n - 1 /\ c.e = es /\ c.dead = b.dead /\ c.pre = b.pre
  BY <1>1, <1>2 DEF BlockFields
<1>4. \A j \in Slots : es[j] = IF j = b.n THEN NullEdge ELSE IF j >= pos /\ j < b.n THEN b.e[j + 1] ELSE b.e[j]
  BY DEF es
<1>5. es \in [Slots -> Slot]
  <2>1. DOMAIN es = Slots /\ es = [j \in Slots |-> es[j]]
    BY DEF es
  <2>2. \A j \in Slots : es[j] \in Slot
    <3> TAKE j \in Slots
    <3>1. j < b.n => j + 1 \in Slots
      BY <1>1, ConstantFacts DEF Slots
    <3> QED BY <1>1, <1>4, <3>1, NullEdgeTyped
  <2> QED BY <2>1, <2>2, Zenon
<1>6. ~b.dead => \A o \in Slots : o > b.n - 1 => es[o] = NullEdge
  <2> SUFFICES ASSUME ~b.dead, NEW o \in Slots, o > b.n - 1 PROVE es[o] = NullEdge
    OBVIOUS
  <2>1. o = b.n \/ (o > b.n /\ o # b.n /\ ~(o < b.n))
    BY <1>1, ConstantFacts DEF Slots
  <2> QED BY <1>1, <1>4, <2>1
<1>7. b.n - 1 \in 0 .. BLOCK_CAPACITY
  BY <1>1, ConstantFacts
<1>8. ASSUME NEW o \in 1 .. b.n - 1
      PROVE  es[o] = IF o < pos THEN b.e[o] ELSE b.e[o + 1]
  <2>1. o \in Slots /\ o # b.n /\ o < b.n
    BY <1>1, ConstantFacts DEF Slots
  <2> QED BY <1>1, <1>4, <2>1
<1>9. BlockOK(c, i)
  BY <1>1, <1>3, <1>5, <1>6, <1>7 DEF BlockOK
<1>10. Lost(b, c, pos)
  BY <1>3, <1>8 DEF Lost
<1> QED BY <1>9, <1>10

-----------------------------------------------------------------------------
(* Edges that come and go.                                                   *)

LEMMA RemappedTyped ==
  ASSUME NEW m \in [Eids -> Places], NEW cs, NEW i \in Nat, cs[i].n \in Nat
  PROVE  Remapped(m, cs, i) \in [Eids -> Places]
<1> SUFFICES ASSUME NEW e \in Eids
             PROVE  (IF \E o \in 1 .. cs[i].n : cs[i].e[o].eid = e
                     THEN [b |-> i, o |-> CHOOSE o \in 1 .. cs[i].n : cs[i].e[o].eid = e] ELSE m[e]) \in Places
  BY Zenon DEF Remapped
<1>1. CASE \E o \in 1 .. cs[i].n : cs[i].e[o].eid = e
  <2>1. (CHOOSE o \in 1 .. cs[i].n : cs[i].e[o].eid = e) \in 1 .. cs[i].n
    BY <1>1
  <2>2. \A o \in 1 .. cs[i].n : o \in Nat
    OBVIOUS
  <2> QED BY <1>1, <2>1, <2>2 DEF Places
<1>2. CASE ~\E o \in 1 .. cs[i].n : cs[i].e[o].eid = e
  BY <1>2
<1> QED BY <1>1, <1>2

\* No edge is in two slots.
LEMMA Distinct ==
  ASSUME NEW bs, NEW m, NEW last, Exact(bs, m, last), NEW i \in DOMAIN bs,
         NEW o \in 1 .. bs[i].n, NEW q \in 1 .. bs[i].n, bs[i].e[o].eid = bs[i].e[q].eid
  PROVE  o = q
<1>1. m[bs[i].e[o].eid] = Place(i, o) /\ m[bs[i].e[q].eid] = Place(i, q)
  BY DEF Exact, Entered
<1> QED BY <1>1 DEF Place

LEMMA EdgeRemoved ==
  ASSUME NEW bs, NEW m, NEW last \in 0 .. MaxEdges, Exact(bs, m, last),
         NEW i \in DOMAIN bs, NEW pos \in 1 .. bs[i].n, NEW e \in Eids, bs[i].e[pos].eid = e,
         NEW c, BlockOK(c, i), Lost(bs[i], c, pos),
         NEW cs, Replaces(bs, cs, i, c),
         NEW m2, Replaces(Remapped(m, cs, i), m2, e, NoLoc)
  PROVE  Exact(cs, m2, last) /\ Len(cs) = Len(bs)
<1> DEFINE n == bs[i].n
<1> USE DEF Lost
<1>1. BlocksOK(bs) /\ DOMAIN bs = 1 .. Len(bs) /\ Len(bs) \in Nat /\ m \in [Eids -> Places]
  BY BlocksShape DEF Exact, Mapped
<1>2. n \in Nat /\ i \in Nat
  BY <1>1, ConstantFacts DEF BlocksOK, BlockOK
<1>3. /\ BlocksOK(cs) /\ Len(cs) = Len(bs) /\ DOMAIN cs = DOMAIN bs /\ cs[i] = c
      /\ \A j \in DOMAIN bs : j # i => cs[j] = bs[j]
  BY <1>1, BlocksReplace DEF Replaces
<1>4. Remapped(m, cs, i) \in [Eids -> Places]
  <2>1. cs[i].n \in Nat
    BY <1>2, <1>3
  <2> QED BY <1>1, <1>2, <2>1, RemappedTyped
<1>5. NoLoc \in Places
  BY DEF NoLoc, Places, NONE
<1>6. m2 \in [Eids -> Places] /\ m2[e] = NoLoc /\ \A x \in Eids : x # e => m2[x] = Remapped(m, cs, i)[x]
  <2> HIDE DEF Remapped
  <2> QED BY <1>4, <1>5 DEF Replaces
<1>7. \A o \in 1 .. n : bs[i].e[o].eid \in 1 .. last
  BY DEF Exact, Entered
<1>8. ASSUME NEW o \in 1 .. c.n
      PROVE  /\ c.e[o].eid \in 1 .. last /\ c.e[o].eid # e
             /\ \E q \in 1 .. n : bs[i].e[q].eid = c.e[o].eid
             /\ \A q \in 1 .. c.n : c.e[q].eid = c.e[o].eid => q = o
  <2> DEFINE at(q) == IF q < pos THEN q ELSE q + 1
  <2>1. \A q \in 1 .. n - 1 : at(q) \in 1 .. n /\ at(q) # pos /\ c.e[q].eid = bs[i].e[at(q)].eid
    BY <1>2
  <2>2. \A q, p \in 1 .. n - 1 : at(q) = at(p) => q = p
    BY <1>2
  <2>3. 1 .. c.n = 1 .. n - 1
    OBVIOUS
  <2> HIDE DEF at
  <2>4. c.e[o].eid # e
    BY <2>1, <2>3, Distinct
  <2>5. ASSUME NEW q \in 1 .. c.n, c.e[q].eid = c.e[o].eid PROVE q = o
    <3>1. at(q) = at(o)
      <4>1. at(q) \in 1 .. n /\ at(o) \in 1 .. n /\ bs[i].e[at(q)].eid = bs[i].e[at(o)].eid
        BY <2>1, <2>3, <2>5
      <4> QED BY <4>1, Distinct
    <3> QED BY <2>2, <2>3, <3>1
  <2> QED BY <1>7, <2>1, <2>3, <2>4, <2>5
<1>9. ASSUME NEW q \in 1 .. n, bs[i].e[q].eid # e PROVE \E o \in 1 .. c.n : c.e[o].eid = bs[i].e[q].eid
  <2>1. CASE q < pos
    <3>1. q \in 1 .. n - 1
      BY <1>2, <2>1
    <3> QED BY <2>1, <3>1
  <2>2. CASE q > pos
    <3>1. q - 1 \in 1 .. n - 1 /\ ~(q - 1 < pos) /\ (q - 1) + 1 = q
      BY <1>2, <2>2
    <3> QED BY <3>1
  <2>3. q # pos
    BY <1>9
  <2> QED BY <1>2, <2>1, <2>2, <2>3
<1>10. last \in Nat /\ last <= MaxEdges /\ e # 0
  BY ConstantFacts DEF Eids
<1> HIDE DEF Remapped, Place, Lost
<1>11. Exact(cs, m2, last)
  <2>1. Reordered(bs[i], c, last, last, e)
    BY <1>8, <1>9 DEF Reordered
  <2>2. last <= last
    BY <1>10
  <2>3. BlocksOK(cs) /\ OnlyBlock(bs, cs, i) /\ Reordered(bs[i], cs[i], last, last, e)
    BY <1>3, <2>1 DEF OnlyBlock
  <2>4. MapAfter(m, cs, i, e, m2)
    BY <1>6 DEF MapAfter
  <2> QED BY <1>10, <2>2, <2>3, <2>4, Moved
<1> QED BY <1>3, <1>11

LEMMA EdgeInserted ==
  ASSUME NEW bs, NEW m, NEW last \in 0 .. MaxEdges, last < MaxEdges, Exact(bs, m, last),
         NEW i \in DOMAIN bs, NEW pos \in 1 .. bs[i].n + 1,
         NEW c, BlockOK(c, i), Gained(bs[i], c, pos, last + 1),
         NEW cs, Replaces(bs, cs, i, c),
         NEW m2, m2 = Remapped(m, cs, i)
  PROVE  Exact(cs, m2, last + 1) /\ Len(cs) = Len(bs)
<1> DEFINE n == bs[i].n
<1> USE DEF Gained
<1>1. BlocksOK(bs) /\ DOMAIN bs = 1 .. Len(bs) /\ Len(bs) \in Nat /\ m \in [Eids -> Places]
  BY BlocksShape DEF Exact, Mapped
<1>2. n \in Nat /\ i \in Nat /\ last \in Nat /\ last + 1 \in Nat /\ last + 1 <= MaxEdges /\ last <= last + 1
  BY <1>1, ConstantFacts DEF BlocksOK, BlockOK
<1>3. /\ BlocksOK(cs) /\ Len(cs) = Len(bs) /\ DOMAIN cs = DOMAIN bs /\ cs[i] = c
      /\ \A j \in DOMAIN bs : j # i => cs[j] = bs[j]
  BY <1>1, BlocksReplace DEF Replaces
<1>4. Remapped(m, cs, i) \in [Eids -> Places]
  <2>1. cs[i].n \in Nat
    BY <1>2, <1>3
  <2> QED BY <1>1, <1>2, <2>1, RemappedTyped
<1>5. \A o \in 1 .. n : bs[i].e[o].eid \in 1 .. last
  BY DEF Exact, Entered
<1>6. ASSUME NEW o \in 1 .. c.n
      PROVE  /\ c.e[o].eid \in 1 .. last + 1 /\ c.e[o].eid # 0
             /\ c.e[o].eid > last \/ \E q \in 1 .. n : bs[i].e[q].eid = c.e[o].eid
             /\ \A q \in 1 .. c.n : c.e[q].eid = c.e[o].eid => q = o
  <2> DEFINE at(q) == IF q < pos THEN q ELSE q - 1
  <2>1. \A q \in 1 .. n + 1 : q # pos => at(q) \in 1 .. n /\ c.e[q].eid = bs[i].e[at(q)].eid
    BY <1>2
  <2>2. \A q, p \in 1 .. n + 1 : q # pos /\ p # pos /\ at(q) = at(p) => q = p
    BY <1>2
  <2>3. 1 .. c.n = 1 .. n + 1
    OBVIOUS
  <2>4. c.e[pos].eid = last + 1
    BY <1>2
  <2> HIDE DEF at
  <2>5. \A q \in 1 .. n + 1 : q # pos => c.e[q].eid \in 1 .. last
    BY <1>5, <2>1
  <2>6. ASSUME NEW q \in 1 .. c.n, c.e[q].eid = c.e[o].eid PROVE q = o
    <3>1. CASE q = pos \/ o = pos
      BY <1>2, <2>3, <2>4, <2>5, <2>6, <3>1
    <3>2. CASE q # pos /\ o # pos
      <4>1. at(q) \in 1 .. n /\ at(o) \in 1 .. n /\ bs[i].e[at(q)].eid = bs[i].e[at(o)].eid
        BY <2>1, <2>3, <2>6, <3>2
      <4>2. at(q) = at(o)
        BY <4>1, Distinct
      <4> QED BY <2>2, <2>3, <3>2, <4>2
    <3> QED BY <3>1, <3>2
  <2>7. CASE o = pos
    BY <1>2, <2>4, <2>6, <2>7
  <2>8. CASE o # pos
    <3>1. at(o) \in 1 .. n /\ c.e[o].eid = bs[i].e[at(o)].eid /\ c.e[o].eid \in 1 .. last
      BY <2>1, <2>3, <2>5, <2>8
    <3> QED BY <1>2, <2>6, <3>1
  <2> QED BY <2>7, <2>8
<1>7. ASSUME NEW q \in 1 .. n PROVE \E o \in 1 .. c.n : c.e[o].eid = bs[i].e[q].eid
  <2>1. CASE q < pos
    <3>1. q \in 1 .. n + 1
      BY <1>2
    <3> QED BY <2>1, <3>1
  <2>2. CASE ~(q < pos)
    <3>1. q + 1 \in 1 .. n + 1 /\ ~(q + 1 < pos) /\ q + 1 # pos /\ (q + 1) - 1 = q
      BY <1>2, <2>2
    <3> QED BY <3>1
  <2> QED BY <2>1, <2>2
<1> HIDE DEF Remapped, Place, Gained
<1>8. 0 \notin Eids
  BY DEF Eids
<1>9. Exact(cs, m2, last + 1)
  <2>1. Reordered(bs[i], c, last, last + 1, 0)
    BY <1>6, <1>7 DEF Reordered
  <2>2. BlocksOK(cs) /\ OnlyBlock(bs, cs, i) /\ Reordered(bs[i], cs[i], last, last + 1, 0)
    BY <1>3, <2>1 DEF OnlyBlock
  <2>3. MapAfter(m, cs, i, 0, m2)
    BY <1>4, <1>8 DEF MapAfter
  <2> QED BY <1>2, <2>2, <2>3, Moved
<1> QED BY <1>3, <1>9

\* An empty block at the end.
LEMMA BlockAdded ==
  ASSUME NEW bs, NEW m, NEW last, Exact(bs, m, last), NEW b, BlockOK(b, Len(bs) + 1), b.n = 0
  PROVE  Exact(Append(bs, b), m, last)
<1> DEFINE cs == Append(bs, b)
<1>1. BlocksOK(bs) /\ DOMAIN bs = 1 .. Len(bs) /\ Len(bs) \in Nat
  BY BlocksShape DEF Exact
<1>2. /\ BlocksOK(cs) /\ DOMAIN cs = DOMAIN bs \cup {Len(bs) + 1} /\ cs[Len(bs) + 1] = b
      /\ \A j \in DOMAIN bs : cs[j] = bs[j]
  BY <1>1, BlocksAppend
<1> HIDE DEF cs
<1>3. Mapped(cs, m)
  BY <1>2 DEF Exact, Mapped, Holds
<1>4. Entered(cs, m, last)
  <2> SUFFICES ASSUME NEW i \in DOMAIN cs, NEW o \in 1 .. cs[i].n
               PROVE  cs[i].e[o].eid \in 1 .. last /\ m[cs[i].e[o].eid] = Place(i, o)
    BY DEF Entered
  <2>1. i \in DOMAIN bs
    BY <1>2
  <2> QED BY <1>2, <2>1 DEF Exact, Entered
<1> QED BY <1>2, <1>3, <1>4 DEF Exact, cs

\* The slot goes to position pos of block bi, which may be a new one.
MaybeGrown(bs, min) ==
    \/ bs = blocks
    \/ \E pre \in Nat : \E src : /\ bs = Append(blocks, NewBlock(pre, src, min))
                                /\ BlockOK(NewBlock(pre, src, min), Len(blocks) + 1)
Enters(bs, bi, pos, slot, ver, min) ==
    /\ MaybeGrown(bs, min)
    /\ Exact(bs, loc, eids) /\ bi \in DOMAIN bs /\ bs[bi].n < BLOCK_CAPACITY /\ pos \in 1 .. bs[bi].n + 1
    /\ Replaces(bs, blocks', bi, Inserted(bs[bi], pos, slot, ver))

\* The body of create_edge and create_edge_in_txn.
LEMMA InsertEdgeOK ==
  ASSUME OInv, NEW src \in Vertices, NEW dst \in Nat, NEW val, NEW ts \in Nat, NEW min,
         InsertEdge(src, dst, val, ts, min)
  PROVE  /\ Exact(blocks', loc', eids') /\ eids' \in 0 .. MaxEdges /\ VerticesIn(vertices', blocks')
         /\ \E bs, bi, pos : Enters(bs, bi, pos, [eid |-> eids + 1, dst |-> dst, ts |-> ts], Version(ts, val), min)
<1> DEFINE i == vmap[src]
           last == vertices[i].block
           fresh == last = NONE \/ blocks[last].n >= BLOCK_CAPACITY
           bi == IF fresh THEN Len(blocks) + 1 ELSE last
           bs == IF fresh THEN Append(blocks, NewBlock(last, src, min)) ELSE blocks
           slot == [eid |-> eids + 1, dst |-> dst, ts |-> ts]
           ver == Version(ts, val)
<1>1. /\ eids < MaxEdges /\ i \in DOMAIN vertices /\ eids' = eids + 1
      /\ vertices' = [vertices EXCEPT ![i].block = bi]
      /\ loc' = Remapped(loc, blocks', bi)
      /\ \E pos \in InsertAt(bs[bi], dst) : blocks' = [bs EXCEPT ![bi] = Inserted(@, pos, slot, ver)]
  BY DEF InsertEdge
<1>2. /\ eids \in 0 .. MaxEdges /\ Exact(blocks, loc, eids) /\ BlocksOK(blocks)
      /\ vertices \in Seq(VertexRecords) /\ \A j \in DOMAIN vertices : vertices[j].block <= Len(blocks)
      /\ DOMAIN blocks = 1 .. Len(blocks) /\ Len(blocks) \in Nat
  BY BlocksShape DEF OInv, Exact, VerticesIn
<1>3. vertices[i] \in VertexRecords /\ last \in 0 .. Len(blocks)
  <2>0. i \in DOMAIN vertices
    BY <1>1
  <2> HIDE DEF i
  <2>1. vertices[i] \in VertexRecords
    BY <1>2, <2>0
  <2>2. last \in Nat
    BY <2>1 DEF VertexRecords
  <2> QED BY <1>2, <2>0, <2>1, <2>2
<1>4. /\ Exact(bs, loc, eids) /\ bi \in DOMAIN bs /\ bs[bi].n < BLOCK_CAPACITY
      /\ Len(blocks) <= Len(bs) /\ bi <= Len(bs) /\ bi \in Nat /\ Len(bs) \in Nat
      /\ MaybeGrown(bs, min)
  <2>1. CASE fresh
    <3> DEFINE nb == NewBlock(last, src, min)
    <3>1. last \in 0 .. (Len(blocks) + 1) - 1 /\ Len(blocks) + 1 \in Nat
      BY <1>2, <1>3
    <3> HIDE DEF last
    <3>2. BlockOK(nb, Len(blocks) + 1) /\ nb.n = 0
      BY <3>1, NewBlockOK
    <3>3. bs = Append(blocks, nb) /\ bi = Len(blocks) + 1
      BY <2>1
    <3> HIDE DEF nb, bs, bi
    <3>4. Exact(bs, loc, eids)
      BY <1>2, <3>2, <3>3, BlockAdded
    <3>5. Len(bs) = Len(blocks) + 1 /\ DOMAIN bs = DOMAIN blocks \cup {Len(blocks) + 1} /\ bs[Len(blocks) + 1] = nb
      BY <1>2, <3>2, <3>3, BlocksAppend
    <3>6. MaybeGrown(bs, min)
      BY <3>1, <3>2, <3>3 DEF nb, MaybeGrown
    <3> QED BY <1>2, <3>1, <3>2, <3>3, <3>4, <3>5, <3>6, ConstantFacts
  <2>2. CASE ~fresh
    <3>1. bs = blocks /\ bi = last /\ last # 0 /\ ~(blocks[last].n >= BLOCK_CAPACITY)
      BY <2>2 DEF NONE
    <3> HIDE DEF bs, bi, last
    <3>2. last \in DOMAIN blocks
      BY <1>2, <1>3, <3>1
    <3>3. blocks[last].n \in 0 .. BLOCK_CAPACITY
      BY <1>2, <3>2 DEF BlocksOK, BlockOK
    <3>4. MaybeGrown(bs, min)
      BY <3>1 DEF MaybeGrown
    <3> QED BY <1>2, <1>3, <3>1, <3>2, <3>3, <3>4, ConstantFacts
  <2> QED BY <2>1, <2>2
<1>5. slot \in Slot /\ slot.eid = eids + 1
  BY <1>2, ConstantFacts DEF Slot
<1>6. VerticesIn(vertices', blocks') \/ Len(blocks') # Len(bs)
  <2> HIDE DEF bi, bs, i
  <2>1. vertices' \in Seq(VertexRecords) /\ DOMAIN vertices' = DOMAIN vertices
    <3>1. [vertices[i] EXCEPT !.block = bi] \in VertexRecords
      BY <1>3, <1>4 DEF VertexRecords
    <3>2. vertices' = [vertices EXCEPT ![i] = [vertices[i] EXCEPT !.block = bi]]
      BY <1>1
    <3> QED BY <1>1, <1>2, <3>1, <3>2
  <2>2. \A j \in DOMAIN vertices : vertices'[j].block <= Len(bs)
    <3> TAKE j \in DOMAIN vertices
    <3>1. CASE j = i
      <4>1. vertices'[i] = [vertices[i] EXCEPT !.block = bi]
        BY <1>1, <1>2
      <4>2. vertices'[i].block = bi
        BY <1>3, <4>1 DEF VertexRecords
      <4> QED BY <1>4, <3>1, <4>2
    <3>2. CASE j # i
      <4>1. vertices'[j] = vertices[j] /\ vertices[j] \in VertexRecords
        BY <1>1, <1>2, <3>2
      <4>2. vertices[j].block \in Nat
        BY <4>1 DEF VertexRecords
      <4> QED BY <1>2, <1>4, <4>1, <4>2
    <3> QED BY <3>1, <3>2
  <2> QED BY <2>1, <2>2 DEF VerticesIn
<1> HIDE DEF slot, ver, bs, bi, i
<1>7. PICK pos \in InsertAt(bs[bi], dst) : blocks' = [bs EXCEPT ![bi] = Inserted(@, pos, slot, ver)]
  BY <1>1
<1> DEFINE c == Inserted(bs[bi], pos, slot, ver)
<1>8. Replaces(bs, blocks', bi, c)
  BY <1>7 DEF Replaces
<1>9. BlockOK(bs[bi], bi)
  BY <1>4 DEF Exact, BlocksOK
<1>10. pos \in 1 .. bs[bi].n + 1
  BY <1>9, InsertAtRange DEF BlockOK
<1>11. BlockOK(c, bi) /\ Gained(bs[bi], c, pos, eids + 1)
  BY <1>4, <1>5, <1>9, <1>10, InsertedOK
<1> HIDE DEF c
<1>12. Exact(blocks', loc', eids + 1) /\ Len(blocks') = Len(bs)
  <2>1. eids < MaxEdges /\ loc' = Remapped(loc, blocks', bi) /\ eids \in 0 .. MaxEdges
    BY <1>1, <1>2
  <2>2. Exact(bs, loc, eids) /\ bi \in DOMAIN bs
    BY <1>4
  <2> QED BY <1>8, <1>10, <1>11, <2>1, <2>2, EdgeInserted
<1>13. eids + 1 \in 0 .. MaxEdges
  BY <1>1, <1>2, ConstantFacts
<1>14. Enters(bs, bi, pos, slot, ver, min)
  BY <1>4, <1>8, <1>10 DEF Enters, c
<1> QED BY <1>1, <1>6, <1>12, <1>13, <1>14 DEF slot, ver

-----------------------------------------------------------------------------
(* Changes that leave every edge in its slot.                                *)

Restamped(b, c, i) ==
    BlockOK(c, i) /\ c.n = b.n /\ \A o \in Slots : c.e[o].eid = b.e[o].eid

LEMMA SlotRestamped ==
  ASSUME NEW b, NEW i, BlockOK(b, i), NEW o \in 1 .. b.n,
         NEW c, DOMAIN c = BlockFields, c.n = b.n, c.pre = b.pre, c.dead = b.dead, c.e \in [Slots -> Slot],
         c.e[o].eid = b.e[o].eid, \A q \in Slots : q # o => c.e[q] = b.e[q]
  PROVE  Restamped(b, c, i)
<1>1. b.n \in Nat
  BY ConstantFacts DEF BlockOK
<1>2. ~c.dead => \A q \in Slots : q > c.n => c.e[q] = NullEdge
  <2> SUFFICES ASSUME ~c.dead, NEW q \in Slots, q > c.n PROVE c.e[q] = NullEdge
    OBVIOUS
  <2>1. q # o
    BY <1>1 DEF Slots
  <2> QED BY <2>1 DEF BlockOK
<1>3. BlockOK(c, i)
  BY <1>2 DEF BlockOK
<1> QED BY <1>3 DEF Restamped

LEMMA RewrittenOK ==
  ASSUME NEW b, NEW i, BlockOK(b, i), NEW o \in 1 .. b.n, NEW slot \in Slot, slot.eid = b.e[o].eid,
         NEW vs, NEW min
  PROVE  Restamped(b, Rewritten(b, o, slot, vs, min), i)
<1> DEFINE es == [b.e EXCEPT ![o] = slot]
           ps == [b.p EXCEPT ![o] = vs]
           c == [b EXCEPT !.e = es, !.p = ps, !.min = min]
<1>1. Rewritten(b, o, slot, vs, min) = c
  BY DEF Rewritten
<1>2. b.e \in [Slots -> Slot] /\ o \in Slots
  BY ConstantFacts DEF BlockOK, Slots
<1>3. es \in [Slots -> Slot] /\ es[o] = slot /\ \A q \in Slots : q # o => es[q] = b.e[q]
  BY <1>2
<1> HIDE DEF es, ps
<1>4. DOMAIN c = BlockFields /\ c.n = b.n /\ c.pre = b.pre /\ c.dead = b.dead /\ c.e = es
  BY DEF BlockOK, BlockFields
<1> HIDE DEF c
<1>5. Restamped(b, c, i)
  BY <1>3, <1>4, SlotRestamped
<1> QED BY <1>1, <1>5

LEMMA OneRestamped ==
  ASSUME NEW bs, NEW m, NEW last, Exact(bs, m, last), NEW i \in DOMAIN bs, NEW c, Restamped(bs[i], c, i),
         NEW cs, Replaces(bs, cs, i, c)
  PROVE  Exact(cs, m, last) /\ Len(cs) = Len(bs)
<1>1. BlocksOK(bs) /\ BlockOK(c, i)
  BY DEF Exact, Restamped
<1>2. /\ BlocksOK(cs) /\ Len(cs) = Len(bs) /\ DOMAIN cs = DOMAIN bs /\ cs[i] = c
      /\ \A j \in DOMAIN bs : j # i => cs[j] = bs[j]
  BY <1>1, BlocksReplace DEF Replaces
<1>3. \A j \in DOMAIN bs : cs[j].n = bs[j].n /\ \A o \in Slots : cs[j].e[o].eid = bs[j].e[o].eid
  BY <1>2 DEF Restamped
<1> QED BY <1>2, <1>3, SameSlots

LEMMA EachRestamped ==
  ASSUME NEW bs, NEW m, NEW last, Exact(bs, m, last), NEW cs, cs = [i \in DOMAIN bs |-> cs[i]],
         \A i \in DOMAIN bs : Restamped(bs[i], cs[i], i)
  PROVE  Exact(cs, m, last) /\ Len(cs) = Len(bs)
<1>1. BlocksOK(bs) /\ \A i \in DOMAIN bs : BlockOK(cs[i], i)
  BY DEF Exact, Restamped
<1>2. BlocksOK(cs) /\ Len(cs) = Len(bs) /\ DOMAIN cs = DOMAIN bs
  BY <1>1, BlocksEach
<1>3. \A j \in DOMAIN bs : cs[j].n = bs[j].n /\ \A o \in Slots : cs[j].e[o].eid = bs[j].e[o].eid
  BY DEF Restamped
<1> QED BY <1>2, <1>3, SameSlots

LEMMA SameLength ==
  ASSUME OInv, vertices' = vertices, Len(blocks') = Len(blocks)
  PROVE  VerticesIn(vertices', blocks')
  BY DEF OInv, VerticesIn

-----------------------------------------------------------------------------
(* The loader.                                                               *)

LEMMA InitOInv == Init => OInv
<1> SUFFICES ASSUME Init PROVE OInv
  OBVIOUS
<1>1. /\ vmap = [v \in Vertices |-> 0] /\ vertices = <<>> /\ logical = 0 /\ blocks = <<>> /\ eids = 0
      /\ loc = [e \in Eids |-> NoLoc] /\ clock = 0 /\ tx = [t \in Txns |-> NewTx("idle", 0)]
  BY DEF Init, NONE
<1>2. NewTx("idle", 0) \in TxRecords
  BY DEF NewTx, TxRecords, NONE
<1>3. VerticesIn(vertices, blocks)
  BY <1>1 DEF VerticesIn
<1>4. Exact(blocks, loc, eids)
  <2>1. BlocksOK(blocks)
    <3>1. DOMAIN blocks = {} /\ blocks \in Seq(Range(blocks))
      BY <1>1
    <3> QED BY <3>1 DEF BlocksOK
  <2>2. Mapped(blocks, loc)
    BY <1>1 DEF Mapped, NoLoc, Places, NONE
  <2>3. Entered(blocks, loc, eids)
    BY <1>1 DEF Entered
  <2> QED BY <2>1, <2>2, <2>3 DEF Exact
<1>5. tx \in [Txns -> TxRecords]
  BY <1>1, <1>2
<1> QED BY <1>1, <1>3, <1>4, <1>5, ConstantFacts DEF OInv

LEMMA CreateVertexStep ==
  ASSUME OInv, NEW v \in Vertices, create_vertex(v)
  PROVE  OInv'
<1>1. /\ logical' = logical + 1 /\ vmap' = [vmap EXCEPT ![v] = logical + 1]
      /\ vertices' = vertices \/ vertices' = Append(vertices, OlapVertex(v))
      /\ blocks' = blocks /\ eids' = eids /\ loc' = loc /\ clock' = clock /\ tx' = tx
  BY DEF create_vertex, Load
<1>2. OlapVertex(v) \in VertexRecords /\ OlapVertex(v).block = 0
  BY DEF OlapVertex, VertexRecords, NONE
<1>3. BlocksOK(blocks) /\ Len(blocks) \in Nat /\ vertices \in Seq(VertexRecords)
  BY BlocksShape DEF OInv, Exact, VerticesIn
<1>4. VerticesIn(vertices', blocks')
  <2>1. CASE vertices' = vertices
    BY <1>1, <2>1 DEF OInv, VerticesIn
  <2>2. CASE vertices' = Append(vertices, OlapVertex(v))
    <3> DEFINE x == OlapVertex(v)
    <3> HIDE DEF x
    <3>1. /\ vertices' \in Seq(VertexRecords) /\ DOMAIN vertices' = 1 .. Len(vertices) + 1
          /\ vertices'[Len(vertices) + 1] = x /\ \A i \in 1 .. Len(vertices) : vertices'[i] = vertices[i]
          /\ DOMAIN vertices = 1 .. Len(vertices) /\ Len(vertices) \in Nat
      BY <1>2, <1>3, <2>2 DEF x
    <3>2. \A i \in DOMAIN vertices' : vertices'[i].block <= Len(blocks)
      BY <1>2, <1>3, <3>1 DEF OInv, VerticesIn, x
    <3> QED BY <1>1, <3>1, <3>2 DEF VerticesIn
  <2> QED BY <1>1, <2>1, <2>2
<1>5. vmap' \in [Vertices -> Nat] /\ logical' \in Nat
  BY <1>1 DEF OInv
<1> QED BY <1>1, <1>4, <1>5 DEF OInv

LEMMA SetVertexPropertyStep ==
  ASSUME OInv, NEW v \in Vertices, set_vertex_property(v, 1)
  PROVE  OInv'
<1>1. /\ vmap' = vmap /\ logical' = logical /\ blocks' = blocks /\ eids' = eids /\ loc' = loc
      /\ clock' = clock /\ tx' = tx
      /\ vertices' = vertices \/ (vmap[v] \in DOMAIN vertices /\ vertices' = [vertices EXCEPT ![vmap[v]].val = 1])
  BY DEF set_vertex_property, Load, Panic
<1>2. VerticesIn(vertices', blocks')
  <2>1. CASE vertices' = vertices
    BY <1>1, <2>1 DEF OInv, VerticesIn
  <2>2. CASE vmap[v] \in DOMAIN vertices /\ vertices' = [vertices EXCEPT ![vmap[v]].val = 1]
    <3> DEFINE k == vmap[v]
               x == [vertices[k] EXCEPT !.val = 1]
    <3>1. vertices \in Seq(VertexRecords) /\ vertices[k] \in VertexRecords
      BY <2>2 DEF OInv, VerticesIn
    <3>2. x \in VertexRecords /\ x.block = vertices[k].block
      BY <3>1 DEF VertexRecords
    <3>3. k \in DOMAIN vertices /\ vertices' = [vertices EXCEPT ![k] = x]
      BY <2>2
    <3> HIDE DEF k, x
    <3>4. /\ vertices' \in Seq(VertexRecords) /\ DOMAIN vertices' = DOMAIN vertices
          /\ \A i \in DOMAIN vertices : vertices'[i].block = vertices[i].block
      BY <3>1, <3>2, <3>3
    <3> QED BY <1>1, <3>4 DEF OInv, VerticesIn
  <2> QED BY <1>1, <2>1, <2>2
<1> QED BY <1>1, <1>2 DEF OInv

LEMMA CreateEdgeStep ==
  ASSUME OInv, NEW v \in Vertices, NEW d \in Dsts, NEW val, create_edge(v, d, val)
  PROVE  OInv'
<1>1. /\ InsertEdge(v, d, val, 0, max_commit_ts)
      /\ clock' = clock /\ tx' = tx /\ vmap' = vmap /\ logical' = logical
  BY DEF create_edge, Load
<1>2. Exact(blocks', loc', eids') /\ eids' \in 0 .. MaxEdges /\ VerticesIn(vertices', blocks')
  BY <1>1, ConstantFacts, InsertEdgeOK
<1> QED BY <1>1, <1>2 DEF OInv

LEMMA DeleteEdgeStep ==
  ASSUME OInv, NEW e \in Eids, delete_edge(e)
  PROVE  OInv'
<1> DEFINE i == loc[e].b
           o == loc[e].o
           c == IF blocks[i].n = 1 THEN [blocks[i] EXCEPT !.n = 0, !.dead = TRUE] ELSE Removed(blocks[i], o)
<1>1. /\ Holds(blocks, loc[e], e) /\ blocks' = [blocks EXCEPT ![i] = c]
      /\ loc' = [Remapped(loc, blocks', i) EXCEPT ![e] = NoLoc]
      /\ eids' = eids /\ vmap' = vmap /\ vertices' = vertices /\ logical' = logical
      /\ clock' = clock /\ tx' = tx
  BY DEF delete_edge, Load, store
<1>2. i \in DOMAIN blocks /\ o \in 1 .. blocks[i].n /\ blocks[i].e[o].eid = e
  BY <1>1 DEF Holds
<1>3. /\ Exact(blocks, loc, eids) /\ BlockOK(blocks[i], i) /\ i \in Nat /\ eids \in 0 .. MaxEdges
      /\ blocks[i].n \in Nat
  <2>1. BlocksOK(blocks) /\ DOMAIN blocks = 1 .. Len(blocks) /\ Exact(blocks, loc, eids)
    BY BlocksShape DEF OInv, Exact
  <2>2. BlockOK(blocks[i], i)
    BY <1>2, <2>1 DEF BlocksOK
  <2> QED BY <1>2, <2>1, <2>2, ConstantFacts DEF OInv, BlockOK
<1>4. BlockOK(c, i) /\ Lost(blocks[i], c, o)
  <2>1. CASE blocks[i].n = 1
    <3>1. c = [blocks[i] EXCEPT !.n = 0, !.dead = TRUE]
      BY <2>1
    <3> HIDE DEF c
    <3>2. DOMAIN c = BlockFields /\ c.n = 0 /\ c.dead = TRUE /\ c.pre = blocks[i].pre /\ c.e = blocks[i].e
      BY <1>3, <3>1 DEF BlockOK, BlockFields
    <3> QED BY <1>3, <2>1, <3>2, ConstantFacts DEF BlockOK, Lost
  <2>2. CASE blocks[i].n # 1
    <3>1. c = Removed(blocks[i], o)
      BY <2>2
    <3> HIDE DEF c
    <3> QED BY <1>2, <1>3, <3>1, RemovedOK
  <2> QED BY <2>1, <2>2
<1>5. Replaces(blocks, blocks', i, c)
  BY <1>1 DEF Replaces
<1>6. Replaces(Remapped(loc, blocks', i), loc', e, NoLoc)
  BY <1>1 DEF Replaces
<1> HIDE DEF i, o, c
<1>7. Exact(blocks', loc', eids) /\ Len(blocks') = Len(blocks)
  BY <1>2, <1>3, <1>4, <1>5, <1>6, EdgeRemoved, SMTT(40)
<1>8. VerticesIn(vertices', blocks')
  BY <1>1, <1>7, SameLength
<1> QED BY <1>1, <1>7, <1>8 DEF OInv

LEMMA SetEdgePropertyStep ==
  ASSUME OInv, NEW e \in Eids, NEW val, set_edge_property(e, val)
  PROVE  OInv'
<1> DEFINE i == loc[e].b
           o == loc[e].o
           ps == [blocks[i].p EXCEPT ![o] = Append(@, Version(0, val))]
           c == [blocks[i] EXCEPT !.p = ps]
<1>1. /\ Holds(blocks, loc[e], e) /\ blocks' = [blocks EXCEPT ![i].p[o] = Append(@, Version(0, val))]
      /\ eids' = eids /\ vmap' = vmap /\ vertices' = vertices /\ logical' = logical
      /\ clock' = clock /\ tx' = tx /\ loc' = loc
  BY DEF set_edge_property, Load, store
<1>2. i \in DOMAIN blocks /\ o \in 1 .. blocks[i].n
  BY <1>1 DEF Holds
<1>3. Exact(blocks, loc, eids) /\ BlockOK(blocks[i], i)
  BY <1>2 DEF OInv, Exact, BlocksOK
<1>4. Replaces(blocks, blocks', i, c)
  BY <1>1, Zenon DEF Replaces
<1> HIDE DEF ps
<1>5. DOMAIN c = BlockFields /\ c.n = blocks[i].n /\ c.dead = blocks[i].dead /\ c.pre = blocks[i].pre /\ c.e = blocks[i].e
  BY <1>3 DEF BlockOK, BlockFields
<1> HIDE DEF c, i, o
<1>6. Restamped(blocks[i], c, i)
  BY <1>3, <1>5 DEF Restamped, BlockOK
<1>7. Exact(blocks', loc, eids) /\ Len(blocks') = Len(blocks)
  BY <1>2, <1>3, <1>4, <1>6, OneRestamped
<1>8. VerticesIn(vertices', blocks')
  BY <1>1, <1>7, SameLength
<1> QED BY <1>1, <1>7, <1>8 DEF OInv

LEMMA DeleteVertexStep ==
  ASSUME OInv, NEW v \in Vertices, delete_vertex(v)
  PROVE  OInv'
<1>1. PICK i \in VertexIter(v) :
        /\ vertices' = [j \in 1 .. Len(vertices) - 1 |-> IF j < i THEN vertices[j] ELSE vertices[j + 1]]
        /\ blocks' = [b \in DOMAIN blocks |->
                        IF \E k \in DOMAIN Chain(vertices[i].block) : Chain(vertices[i].block)[k] = b
                        THEN [blocks[b] EXCEPT !.dead = TRUE] ELSE blocks[b]]
        /\ eids' = eids /\ vmap' = vmap /\ logical' = logical /\ clock' = clock /\ tx' = tx /\ loc' = loc
  BY DEF delete_vertex, Load
<1>2. i \in DOMAIN vertices /\ vertices \in Seq(VertexRecords)
  BY DEF VertexIter, OInv, VerticesIn
<1>3. Exact(blocks, loc, eids) /\ \A b \in DOMAIN blocks : BlockOK(blocks[b], b)
  BY DEF OInv, Exact, BlocksOK
<1>4. blocks' = [b \in DOMAIN blocks |-> blocks'[b]]
  BY <1>1, Zenon
<1>5. \A b \in DOMAIN blocks : blocks'[b] = blocks[b] \/ blocks'[b] = [blocks[b] EXCEPT !.dead = TRUE]
  BY <1>1, Zenon
<1>6. ASSUME NEW b \in DOMAIN blocks PROVE Restamped(blocks[b], blocks'[b], b)
  <2>1. CASE blocks'[b] = blocks[b]
    BY <1>3, <2>1 DEF Restamped
  <2>2. CASE blocks'[b] = [blocks[b] EXCEPT !.dead = TRUE]
    <3> DEFINE c == blocks'[b]
    <3>1. c = [blocks[b] EXCEPT !.dead = TRUE] /\ BlockOK(blocks[b], b)
      BY <1>3, <2>2
    <3> HIDE DEF c
    <3>2. DOMAIN c = BlockFields /\ c.n = blocks[b].n /\ c.dead = TRUE /\ c.pre = blocks[b].pre /\ c.e = blocks[b].e
      BY <3>1 DEF BlockOK, BlockFields
    <3>3. Restamped(blocks[b], c, b)
      BY <3>1, <3>2 DEF Restamped, BlockOK
    <3> QED BY <3>3 DEF c
  <2> QED BY <1>5, <2>1, <2>2
<1>7. Exact(blocks', loc, eids) /\ Len(blocks') = Len(blocks)
  BY <1>3, <1>4, <1>6, EachRestamped
<1>8. VerticesIn(vertices', blocks')
  <2> DEFINE n == Len(vertices) - 1
  <2>1. DOMAIN vertices = 1 .. Len(vertices) /\ Len(vertices) \in Nat /\ n \in Nat /\ i \in 1 .. Len(vertices)
    BY <1>2
  <2>2. ASSUME NEW j \in 1 .. n
        PROVE  /\ (IF j < i THEN vertices[j] ELSE vertices[j + 1]) \in VertexRecords
               /\ (IF j < i THEN vertices[j] ELSE vertices[j + 1]).block <= Len(blocks)
    <3>1. j \in 1 .. Len(vertices) /\ j + 1 \in 1 .. Len(vertices)
      BY <2>1
    <3>2. \A k \in 1 .. Len(vertices) : vertices[k] \in VertexRecords /\ vertices[k].block <= Len(blocks)
      BY <1>2, <2>1 DEF OInv, VerticesIn
    <3> QED BY <3>1, <3>2
  <2>3. vertices' = [j \in 1 .. n |-> IF j < i THEN vertices[j] ELSE vertices[j + 1]]
    BY <1>1
  <2> HIDE DEF n
  <2>4. vertices' \in [1 .. n -> VertexRecords]
    BY <2>2, <2>3
  <2>5. vertices' \in Seq(VertexRecords) /\ DOMAIN vertices' = 1 .. n
    BY <2>1, <2>4
  <2>6. \A j \in 1 .. n : vertices'[j].block <= Len(blocks)
    BY <2>2, <2>3
  <2> QED BY <1>7, <2>5, <2>6 DEF VerticesIn
<1> QED BY <1>1, <1>7, <1>8 DEF OInv

\* compress_edge and compress_property take timestamps; the rest leaves the
\* store alone.
LEMMA OtherSteps ==
  ASSUME OInv, EndLoad \/ compress_edge \/ compress_property
  PROVE  OInv'
<1>1. /\ vmap' = vmap /\ vertices' = vertices /\ logical' = logical /\ blocks' = blocks /\ eids' = eids
      /\ loc' = loc /\ tx' = tx
      /\ clock' \in {clock, clock + 1, clock + Len(blocks)}
  BY DEF EndLoad, compress_edge, compress_property, store
<1>2. BlocksOK(blocks) /\ Len(blocks) \in Nat /\ clock \in Nat
  BY BlocksShape DEF OInv, Exact
<1>3. clock' \in Nat
  BY <1>1, <1>2
<1> QED BY <1>1, <1>3 DEF OInv

-----------------------------------------------------------------------------
(* Transactions.                                                             *)

LEMMA NewTxTyped ==
  ASSUME NEW st \in {"idle", "active", "committed", "aborted"}, NEW start \in Nat
  PROVE  NewTx(st, start) \in TxRecords
  BY DEF NewTx, TxRecords, NONE

LEMMA PushUndoTyped ==
  ASSUME OInv, NEW t \in Txns, NEW op \in {"create", "set", "del"}, NEW e \in Eids, NEW ts \in Nat
  PROVE  push_undo(t, op, e, ts) \in TxRecords
<1> DEFINE r == tx[t]
           u == [op |-> op, eid |-> e, ts |-> ts]
<1>1. r \in TxRecords /\ u \in UndoRecords
  BY DEF OInv, UndoRecords
<1> HIDE DEF u
<1>2. r.undo \in Seq(UndoRecords)
  BY <1>1 DEF TxRecords
<1>3. Append(r.undo, u) \in Seq(UndoRecords)
  BY <1>1, <1>2
<1>4. [r EXCEPT !.undo = Append(r.undo, u), !.look = NoLook] \in TxRecords
  <2> HIDE DEF r
  <2> QED BY <1>1, <1>3 DEF TxRecords
<1> QED BY <1>4 DEF push_undo, u

LEMMA TxIdFacts ==
  ASSUME NEW t \in Txns
  PROVE  txn_id(t) \in Nat
  BY ConstantFacts DEF txn_id, Txns

LEMMA BeginStep ==
  ASSUME OInv, NEW t \in Txns, Begin(t)
  PROVE  OInv'
<1>1. /\ tx' = [tx EXCEPT ![t] = NewTx("active", clock)]
      /\ vmap' = vmap /\ vertices' = vertices /\ logical' = logical /\ blocks' = blocks /\ eids' = eids
      /\ loc' = loc /\ clock' = clock
  BY DEF Begin, store
<1>2. NewTx("active", clock) \in TxRecords
  BY NewTxTyped DEF OInv
<1>3. tx' \in [Txns -> TxRecords]
  BY <1>1, <1>2 DEF OInv
<1> QED BY <1>1, <1>3 DEF OInv

\* What the map holds is in a block, so it is a place.
LEMMA LookStep ==
  ASSUME OInv, NEW t \in Txns,
         LookedInVain(t) \/ \E op \in {"set", "del"}, e \in Eids : LookUp(t, op, e)
  PROVE  OInv'
<1>1. PICK look \in Looks \cup {NoLook} : tx' = [tx EXCEPT ![t].look = look]
  <2>1. CASE LookedInVain(t)
    BY <2>1 DEF LookedInVain
  <2>2. ASSUME NEW op \in {"set", "del"}, NEW e \in Eids, LookUp(t, op, e)
        PROVE  \E look \in Looks \cup {NoLook} : tx' = [tx EXCEPT ![t].look = look]
    <3> DEFINE look == [op |-> op, eid |-> e, loc |-> loc[e]]
    <3>1. loc[e] \in Places
      BY DEF OInv, Exact, Mapped
    <3>2. look \in Looks
      BY <3>1 DEF Looks
    <3>3. tx' = [tx EXCEPT ![t].look = look]
      BY <2>2 DEF LookUp
    <3> QED BY <3>2, <3>3
  <2> QED BY <2>1, <2>2
<1>2. /\ vmap' = vmap /\ vertices' = vertices /\ logical' = logical /\ blocks' = blocks /\ eids' = eids
      /\ loc' = loc /\ clock' = clock
  BY DEF LookedInVain, LookUp, Active
<1>3. tx' \in [Txns -> TxRecords]
  <2>1. tx[t] \in TxRecords
    BY DEF OInv
  <2>2. [tx[t] EXCEPT !.look = look] \in TxRecords
    BY <2>1 DEF TxRecords
  <2>3. tx' = [tx EXCEPT ![t] = [tx[t] EXCEPT !.look = look]]
    BY <1>1
  <2> QED BY <2>2, <2>3 DEF OInv
<1> QED BY <1>2, <1>3 DEF OInv

LEMMA CreateEdgeInTxnStep ==
  ASSUME OInv, NEW t \in Txns, NEW v \in Vertices, NEW d \in Dsts, NEW val, create_edge_in_txn(t, v, d, val)
  PROVE  OInv'
<1>1. /\ InsertEdge(v, d, val, txn_id(t), txn_id(t))
      /\ tx' = [tx EXCEPT ![t] = push_undo(t, "create", eids + 1, txn_id(t))]
      /\ clock' = clock /\ vmap' = vmap /\ logical' = logical
  BY DEF create_edge_in_txn, Active
<1>2. Exact(blocks', loc', eids') /\ eids' \in 0 .. MaxEdges /\ VerticesIn(vertices', blocks')
  BY <1>1, ConstantFacts, TxIdFacts, InsertEdgeOK
<1>3. eids + 1 \in Eids
  <2>1. eids' = eids + 1
    BY <1>1, Zenon DEF InsertEdge
  <2>2. eids \in Nat
    BY ConstantFacts DEF OInv
  <2> QED BY <1>2, <2>1, <2>2, ConstantFacts DEF Eids
<1>4. push_undo(t, "create", eids + 1, txn_id(t)) \in TxRecords
  BY <1>3, TxIdFacts, PushUndoTyped
<1>5. tx' \in [Txns -> TxRecords]
  BY <1>1, <1>4 DEF OInv
<1> QED BY <1>1, <1>2, <1>5 DEF OInv

\* A location that resolve_edge_location returns holds the edge.
LEMMA ResolvedHolds ==
  ASSUME OInv, NEW e \in Eids, NEW seen \in Places, NEW l, l = resolve_edge_location(e, seen), l # NoLoc
  PROVE  l \in Places /\ Holds(blocks, l, e)
<1> DEFINE at == {x \in [b : DOMAIN blocks, o : Slots] : Holds(blocks, x, e)}
<1>1. CASE Holds(blocks, seen, e)
  BY <1>1 DEF resolve_edge_location
<1>2. CASE ~Holds(blocks, seen, e) /\ Holds(blocks, loc[e], e)
  BY <1>2 DEF resolve_edge_location, OInv, Exact, Mapped
<1>3. CASE ~Holds(blocks, seen, e) /\ ~Holds(blocks, loc[e], e)
  <2>1. l = IF at = {} THEN NoLoc ELSE CHOOSE x \in at : TRUE
    BY <1>3, Zenon DEF resolve_edge_location
  <2>2. DOMAIN blocks = 1 .. Len(blocks) /\ Len(blocks) \in Nat
    BY BlocksShape DEF OInv, Exact
  <2>3. \A x \in at : x \in Places /\ Holds(blocks, x, e)
    BY <2>2, ConstantFacts DEF Places, Slots
  <2> HIDE DEF at, Holds
  <2>4. at # {} /\ l = CHOOSE x \in at : TRUE
    BY <2>1
  <2>5. (CHOOSE x \in at : TRUE) \in at
    BY <2>4
  <2> QED BY <2>3, <2>4, <2>5
<1> QED BY <1>1, <1>2, <1>3

\* It is where the map says: a writer never acts on another place.
LEMMA HeldIsMapped ==
  ASSUME OInv, NEW e \in Eids, NEW l \in Places, Holds(blocks, l, e)
  PROVE  loc[e] = l
<1>1. l.b \in DOMAIN blocks /\ l.o \in 1 .. blocks[l.b].n /\ blocks[l.b].e[l.o].eid = e
  BY DEF Holds
<1>2. loc[e] = Place(l.b, l.o)
  BY <1>1 DEF OInv, Exact, Entered
<1> QED BY <1>2 DEF Place, Places

LEMMA SnapReplaced ==
  ASSUME NEW u \in TxRecords, NEW w \in [Eids -> Nat]
  PROVE  [u EXCEPT !.snap = w] \in TxRecords
  BY DEF TxRecords

\* set_edge_property_in_txn and delete_edge_in_txn: the edge stays in its slot.
LEMMA ApplyStep ==
  ASSUME OInv, NEW t \in Txns, NEW op \in {"set", "del"}, NEW nd \in Nat, NEW val, NEW vs,
         Apply(t, op, nd, val, vs)
  PROVE  OInv'
<1> DEFINE e == tx[t].look.eid
           l == Located(t)
           b == blocks[l.b]
           old == b.e[l.o]
           new == [old EXCEPT !.ts = txn_id(t), !.dst = IF nd = NONE THEN @ ELSE nd]
           c == Rewritten(b, l.o, new, b.p[l.o] \o vs, Min({b.min, txn_id(t)}))
           r == [push_undo(t, op, e, old.ts) EXCEPT !.snap[e] = IF nd = NONE THEN @ ELSE old.dst]
<1>1. /\ tx[t].look.op = op /\ l # NoLoc /\ vmap' = vmap /\ logical' = logical
      /\ vertices' = vertices /\ eids' = eids /\ clock' = clock
      /\ loc' = [loc EXCEPT ![e] = l] /\ tx' = [tx EXCEPT ![t] = r]
  <2>1. /\ tx[t].look.op = op /\ l # NoLoc /\ vmap' = vmap /\ logical' = logical
        /\ vertices' = vertices /\ eids' = eids /\ clock' = clock
        /\ loc' = [loc EXCEPT ![e] = l]
    BY Zenon DEF Apply, Active
  <2>2. tx' = [tx EXCEPT ![t] = r]
    BY Zenon DEF Apply
  <2> QED BY <2>1, <2>2, Zenon
<1>2. blocks' = [blocks EXCEPT ![l.b] = c]
  BY Zenon DEF Apply
<1>3. tx[t] \in TxRecords /\ tx[t].look \in Looks
  <2>1. tx[t] \in TxRecords
    BY DEF OInv
  <2>2. tx[t].look \in Looks \cup {NoLook}
    BY <2>1, Zenon DEF TxRecords
  <2>3. tx[t].look # NoLook
    <3>1. NoLook.op = "none"
      BY DEF NoLook
    <3>2. tx[t].look.op # "none"
      <4>1. op # "none"
        OBVIOUS
      <4> QED BY <1>1, <4>1, Zenon
    <3> QED BY <3>1, <3>2, Zenon
  <2> QED BY <2>1, <2>2, <2>3, Zenon
<1>4. e \in Eids /\ l \in Places /\ Holds(blocks, l, e)
  <2>1. e \in Eids /\ tx[t].look.loc \in Places
    BY <1>3 DEF Looks
  <2> QED BY <1>1, <2>1, ResolvedHolds DEF Located
<1>5. loc' = loc
  <2>1. loc[e] = l /\ loc \in [Eids -> Places]
    BY <1>4, HeldIsMapped DEF OInv, Exact, Mapped
  <2> QED BY <1>1, <2>1
<1> HIDE DEF e, l
<1>6. l.b \in DOMAIN blocks /\ l.o \in 1 .. b.n
  BY <1>4 DEF Holds
<1>7. Exact(blocks, loc, eids) /\ BlockOK(b, l.b) /\ l.o \in Slots /\ b.e \in [Slots -> Slot] /\ old \in Slot
  <2>1. Exact(blocks, loc, eids) /\ BlockOK(b, l.b)
    BY <1>6 DEF OInv, Exact, BlocksOK
  <2>2. b.n \in 0 .. BLOCK_CAPACITY /\ b.e \in [Slots -> Slot]
    BY <2>1 DEF BlockOK
  <2>3. l.o \in Slots
    BY <1>6, <2>2, ConstantFacts DEF Slots
  <2> QED BY <2>1, <2>2, <2>3
<1>8. new \in Slot /\ new.eid = old.eid
  BY <1>7, TxIdFacts DEF Slot
<1>9. Replaces(blocks, blocks', l.b, c)
  BY <1>2, Zenon DEF Replaces
<1>10. Restamped(b, c, l.b)
  <2> HIDE DEF b, new
  <2>1. new.eid = b.e[l.o].eid
    BY <1>8
  <2> QED BY <1>6, <1>7, <1>8, <2>1, RewrittenOK
<1> HIDE DEF c, new
<1>13. Exact(blocks', loc, eids) /\ Len(blocks') = Len(blocks)
  BY <1>6, <1>7, <1>9, <1>10, OneRestamped
<1>14. VerticesIn(vertices', blocks')
  BY <1>1, <1>13, SameLength
<1>15. tx' \in [Txns -> TxRecords]
  <2>1. old.ts \in Nat /\ old.dst \in Nat
    BY <1>7 DEF Slot
  <2>2. push_undo(t, op, e, old.ts) \in TxRecords
    BY <1>4, <2>1, PushUndoTyped
  <2>3. r \in TxRecords
    <3> DEFINE u == push_undo(t, op, e, old.ts)
    <3>1. u \in TxRecords /\ u.snap \in [Eids -> Nat]
      BY <2>2 DEF TxRecords
    <3> HIDE DEF u
    <3>2. [u.snap EXCEPT ![e] = IF nd = NONE THEN @ ELSE old.dst] \in [Eids -> Nat]
      BY <1>4, <2>1, <3>1
    <3> DEFINE w == [u.snap EXCEPT ![e] = IF nd = NONE THEN @ ELSE old.dst]
    <3>3. r = [u EXCEPT !.snap = w]
      BY DEF u
    <3> HIDE DEF w, r
    <3>4. w \in [Eids -> Nat]
      BY <3>2 DEF w
    <3> QED BY <3>1, <3>3, <3>4, SnapReplaced
  <2> HIDE DEF r
  <2> QED BY <1>1, <2>3 DEF OInv
<1> QED BY <1>1, <1>5, <1>13, <1>14, <1>15 DEF OInv

LEMMA DrawStep ==
  ASSUME OInv, NEW t \in Txns, DrawCommit(t)
  PROVE  OInv'
<1>1. /\ tx' = [tx EXCEPT ![t].commit = clock + 1] /\ clock' = clock + 1
      /\ vmap' = vmap /\ vertices' = vertices /\ logical' = logical /\ blocks' = blocks /\ eids' = eids
      /\ loc' = loc
  BY DEF DrawCommit, Active
<1>2. clock' \in Nat /\ clock + 1 \in Nat
  BY <1>1 DEF OInv
<1>3. tx' \in [Txns -> TxRecords]
  <2>1. tx[t] \in TxRecords
    BY DEF OInv
  <2>2. [tx[t] EXCEPT !.commit = clock + 1] \in TxRecords
    BY <1>2, <2>1 DEF TxRecords
  <2>3. tx' = [tx EXCEPT ![t] = [tx[t] EXCEPT !.commit = clock + 1]]
    BY <1>1
  <2> QED BY <2>2, <2>3 DEF OInv
<1> QED BY <1>1, <1>2, <1>3 DEF OInv

LEMMA CommitStep ==
  ASSUME OInv, NEW t \in Txns, commit_at(t)
  PROVE  OInv'
<1> DEFINE ts == tx[t].commit
           at(i, o) == blocks[i].e[o].eid \in Mine(t) /\ loc[blocks[i].e[o].eid] = [b |-> i, o |-> o]
           es(i) == [o \in Slots |-> IF at(i, o) THEN [blocks[i].e[o] EXCEPT !.ts = ts] ELSE blocks[i].e[o]]
           ps(i) == [o \in Slots |-> IF at(i, o) /\ FirstOp(t, blocks[i].e[o].eid) # "del"
                                     THEN PromoteLast(blocks[i].p[o], t, ts) ELSE blocks[i].p[o]]
           mn(i) == IF \E o \in Slots : at(i, o) THEN LowerMin(blocks[i].min, ts) ELSE blocks[i].min
           c(i) == [blocks[i] EXCEPT !.e = es(i), !.p = ps(i), !.min = mn(i)]
<1>1. /\ clock' = clock /\ tx' = [tx EXCEPT ![t] = NewTx("committed", tx[t].start)]
      /\ vmap' = vmap /\ logical' = logical /\ vertices' = vertices /\ eids' = eids /\ loc' = loc
  BY DEF commit_at, Active
<1>2. blocks' = [i \in DOMAIN blocks |-> c(i)]
  BY Zenon DEF commit_at
<1>3. /\ Exact(blocks, loc, eids) /\ clock \in Nat /\ ts \in Nat
      /\ \A i \in DOMAIN blocks : BlockOK(blocks[i], i)
  <2>1. tx[t] \in TxRecords
    BY DEF OInv
  <2> QED BY <2>1 DEF OInv, Exact, BlocksOK, TxRecords
<1>4. ASSUME NEW i \in DOMAIN blocks PROVE Restamped(blocks[i], c(i), i)
  <2> DEFINE b == blocks[i]
  <2>1. BlockOK(b, i) /\ b.e \in [Slots -> Slot] /\ DOMAIN b = BlockFields
    BY <1>3 DEF BlockOK
  <2>2. es(i) \in [Slots -> Slot] /\ \A o \in Slots : es(i)[o].eid = b.e[o].eid
    <3>1. ASSUME NEW o \in Slots
          PROVE  /\ es(i)[o] \in {b.e[o], [b.e[o] EXCEPT !.ts = ts]}
                 /\ b.e[o] \in Slot /\ [b.e[o] EXCEPT !.ts = ts] \in Slot
                 /\ [b.e[o] EXCEPT !.ts = ts].eid = b.e[o].eid
      <4>1. b.e[o] \in Slot
        BY <2>1
      <4>2. [b.e[o] EXCEPT !.ts = ts] \in Slot /\ [b.e[o] EXCEPT !.ts = ts].eid = b.e[o].eid
        BY <1>3, <4>1 DEF Slot
      <4>3. es(i)[o] \in {b.e[o], [b.e[o] EXCEPT !.ts = ts]}
        <5> HIDE DEF at
        <5> QED OBVIOUS
      <4> QED BY <4>1, <4>2, <4>3
    <3>2. es(i) = [o \in Slots |-> es(i)[o]]
      OBVIOUS
    <3> HIDE DEF es
    <3> QED BY <3>1, <3>2
  <2>3. \A o \in Slots : o > b.n => es(i)[o] = b.e[o]
    <3> SUFFICES ASSUME NEW o \in Slots, o > b.n PROVE ~at(i, o)
      OBVIOUS
    <3>1. b.n \in Nat /\ o \notin 1 .. b.n
      BY <2>1, ConstantFacts DEF BlockOK, Slots
    <3> SUFFICES ASSUME at(i, o) PROVE FALSE
      OBVIOUS
    <3>2. Holds(blocks, loc[b.e[o].eid], b.e[o].eid)
      BY DEF Mine
    <3>3. loc[b.e[o].eid].b = i /\ loc[b.e[o].eid].o = o
      OBVIOUS
    <3> QED BY <3>1, <3>2, <3>3 DEF Holds
  <2> HIDE DEF es, ps, mn
  <2>4. /\ DOMAIN c(i) = BlockFields /\ c(i).n = b.n /\ c(i).pre = b.pre /\ c(i).dead = b.dead
        /\ c(i).e = es(i)
    BY <2>1 DEF BlockFields
  <2> HIDE DEF c
  <2>5. BlockOK(c(i), i)
    BY <2>1, <2>2, <2>3, <2>4 DEF BlockOK
  <2> QED BY <2>2, <2>4, <2>5 DEF Restamped
<1> HIDE DEF c
<1>5. blocks' = [i \in DOMAIN blocks |-> blocks'[i]] /\ \A i \in DOMAIN blocks : Restamped(blocks[i], blocks'[i], i)
  BY <1>2, <1>4
<1>6. Exact(blocks', loc, eids) /\ Len(blocks') = Len(blocks)
  BY <1>3, <1>5, EachRestamped
<1>7. VerticesIn(vertices', blocks')
  BY <1>1, <1>6, SameLength
<1>8. tx' \in [Txns -> TxRecords]
  <2>1. tx[t] \in TxRecords
    BY DEF OInv
  <2>2. tx[t].start \in Nat
    BY <2>1 DEF TxRecords
  <2>3. NewTx("committed", tx[t].start) \in TxRecords
    BY <2>2, NewTxTyped
  <2> QED BY <1>1, <2>3 DEF OInv
<1> QED BY <1>1, <1>3, <1>6, <1>7, <1>8 DEF OInv

\* The store while a transaction is rolled back.
Store(s, last, len) == DOMAIN s = {"blocks", "loc"} /\ Exact(s.blocks, s.loc, last) /\ Len(s.blocks) = len

LEMMA UndoneOK ==
  ASSUME OInv, NEW t \in Txns, NEW u \in UndoRecords, NEW len, NEW s, Store(s, eids, len)
  PROVE  Store(Undone(s, t, u), eids, len)
<1> DEFINE e == u.eid
           l == s.loc[e]
           b == s.blocks[l.b]
           slot == b.e[l.o]
           with(c) == [s.blocks EXCEPT ![l.b] = c]
           less == with(Removed(b, l.o))
           kept == Without(b.p[l.o], t)
           created == [blocks |-> less, loc |-> [Remapped(s.loc, less, l.b) EXCEPT ![e] = NoLoc]]
           back == [slot EXCEPT !.ts = u.ts, !.dst = tx[t].snap[e]]
           old == [slot EXCEPT !.ts = u.ts]
           deleted == with(Rewritten(b, l.o, back, b.p[l.o], b.min))
           set == with(Rewritten(b, l.o, old, kept, b.min))
<1>1. CASE ~Holds(s.blocks, l, e)
  BY <1>1 DEF Undone
<1>2. CASE Holds(s.blocks, l, e)
  <2>1. \/ Undone(s, t, u) = created
        \/ Undone(s, t, u) = [s EXCEPT !.blocks = deleted]
        \/ Undone(s, t, u) = [s EXCEPT !.blocks = set]
        \/ Undone(s, t, u) = s
    <3> HIDE DEF created, deleted, set
    <3>1. Undone(s, t, u) = CASE u.op = "create" /\ slot.ts = txn_id(t) -> created
                              [] u.op = "del" -> [s EXCEPT !.blocks = deleted]
                              [] u.op = "set" -> [s EXCEPT !.blocks = set]
                              [] OTHER -> s
      BY <1>2, Zenon DEF Undone, created, deleted, set
    <3> HIDE DEF slot
    <3> QED BY <3>1
  <2>2. /\ e \in Eids /\ u.ts \in Nat /\ eids \in 0 .. MaxEdges /\ DOMAIN s = {"blocks", "loc"}
        /\ Exact(s.blocks, s.loc, eids) /\ Len(s.blocks) = len
    BY DEF UndoRecords, OInv, Store
  <2>3. tx[t].snap[e] \in Nat
    <3>1. tx[t] \in TxRecords
      BY DEF OInv
    <3> QED BY <2>2, <3>1 DEF TxRecords
  <2>4. l.b \in DOMAIN s.blocks /\ l.o \in 1 .. b.n /\ slot.eid = e
    BY <1>2 DEF Holds
  <2>5. BlockOK(b, l.b) /\ l.b \in Nat
    BY <2>2, <2>4, BlocksShape DEF Exact, BlocksOK
  <2>6. slot \in Slot
    <3> HIDE DEF b, l
    <3>1. b.e \in [Slots -> Slot] /\ b.n \in 0 .. BLOCK_CAPACITY
      BY <2>5 DEF BlockOK
    <3>2. l.o \in Slots
      BY <2>4, <3>1, ConstantFacts DEF Slots
    <3> QED BY <3>1, <3>2
  <2>7. back \in Slot /\ back.eid = b.e[l.o].eid /\ old \in Slot /\ old.eid = b.e[l.o].eid
    <3> HIDE DEF b
    <3> QED BY <2>2, <2>3, <2>6 DEF Slot
  <2> HIDE DEF e, l, back, old
  <2>8. ASSUME NEW new \in Slot, new.eid = b.e[l.o].eid, NEW vs
        PROVE  /\ Exact(with(Rewritten(b, l.o, new, vs, b.min)), s.loc, eids)
               /\ Len(with(Rewritten(b, l.o, new, vs, b.min))) = len
    <3> DEFINE c == Rewritten(b, l.o, new, vs, b.min)
    <3>1. Restamped(b, c, l.b)
      <4> HIDE DEF b
      <4> QED BY <2>4, <2>5, <2>8, RewrittenOK
    <3> HIDE DEF c
    <3>2. Replaces(s.blocks, with(c), l.b, c)
      BY DEF Replaces
    <3> HIDE DEF with
    <3>3. Exact(with(c), s.loc, eids) /\ Len(with(c)) = Len(s.blocks)
      BY <2>2, <2>4, <3>1, <3>2, OneRestamped
    <3> QED BY <2>2, <3>3 DEF c
  <2>9. Store(created, eids, len)
    <3> DEFINE c == Removed(b, l.o)
               m2 == [Remapped(s.loc, less, l.b) EXCEPT ![e] = NoLoc]
    <3>1. BlockOK(c, l.b) /\ Lost(b, c, l.o)
      <4> HIDE DEF b
      <4> QED BY <2>4, <2>5, RemovedOK
    <3> HIDE DEF c
    <3>2. Replaces(s.blocks, less, l.b, c)
      BY DEF Replaces, c
    <3>3. Replaces(Remapped(s.loc, less, l.b), m2, e, NoLoc)
      BY DEF Replaces
    <3>4. created = [blocks |-> less, loc |-> m2]
      BY Zenon
    <3> HIDE DEF m2, less, created
    <3>5. Exact(less, m2, eids) /\ Len(less) = Len(s.blocks)
      <4> DEFINE bs == s.blocks
                 m == s.loc
                 i == l.b
                 pos == l.o
      <4>1. /\ eids \in 0 .. MaxEdges /\ Exact(bs, m, eids) /\ i \in DOMAIN bs /\ pos \in 1 .. bs[i].n
            /\ e \in Eids /\ bs[i].e[pos].eid = e /\ BlockOK(c, i) /\ Lost(bs[i], c, pos)
        BY <2>2, <2>4, <3>1
      <4>2. Replaces(bs, less, i, c) /\ Replaces(Remapped(m, less, i), m2, e, NoLoc)
        BY <3>2, <3>3
      <4> HIDE DEF bs, m, i, pos
      <4>3. Exact(less, m2, eids) /\ Len(less) = Len(bs)
        BY <4>1, <4>2, EdgeRemoved, SMTT(90)
      <4> QED BY <4>3 DEF bs
    <3>6. DOMAIN created = {"blocks", "loc"} /\ created.blocks = less /\ created.loc = m2
      BY <3>4
    <3> QED BY <2>2, <3>5, <3>6 DEF Store
  <2>10. ASSUME NEW bs, Exact(bs, s.loc, eids), Len(bs) = len
         PROVE  Store([s EXCEPT !.blocks = bs], eids, len)
    <3> DEFINE r == [s EXCEPT !.blocks = bs]
    <3>1. DOMAIN r = {"blocks", "loc"} /\ r.blocks = bs /\ r.loc = s.loc
      BY <2>2
    <3> HIDE DEF r
    <3>2. Store(r, eids, len)
      BY <2>10, <3>1 DEF Store
    <3> QED BY <3>2 DEF r
  <2>11. Store([s EXCEPT !.blocks = deleted], eids, len) /\ Store([s EXCEPT !.blocks = set], eids, len)
    <3>1. Exact(deleted, s.loc, eids) /\ Len(deleted) = len
      <4> HIDE DEF b, with
      <4> QED BY <2>7, <2>8
    <3>2. Exact(set, s.loc, eids) /\ Len(set) = len
      <4> HIDE DEF b, with, kept
      <4> QED BY <2>7, <2>8
    <3> HIDE DEF deleted, set
    <3> QED BY <2>10, <3>1, <3>2
  <2> HIDE DEF created, deleted, set
  <2> QED BY <2>1, <2>9, <2>11
<1> QED BY <1>1, <1>2

\* TakenBack satisfies its recursion.
LEMMA TakenBackSteps ==
  ASSUME NEW t, tx[t].undo \in Seq(UndoRecords)
  PROVE  /\ TakenBack(t)[0] = [blocks |-> blocks, loc |-> loc]
         /\ \A n \in 1 .. Len(tx[t].undo) :
              TakenBack(t)[n] = Undone(TakenBack(t)[n - 1], t, tx[t].undo[Len(tx[t].undo) + 1 - n])
<1> DEFINE undo == tx[t].undo
           N == Len(undo)
           body(f, n) == IF n = 0 THEN [blocks |-> blocks, loc |-> loc]
                         ELSE Undone(f[n - 1], t, undo[N + 1 - n])
           Defined == {k \in Nat : \E f : f = [n \in 0 .. k |-> body(f, n)]}
<1>0. N \in Nat
  OBVIOUS
<1>1. 0 \in Defined
  <2> DEFINE z == [n \in 0 .. 0 |-> [blocks |-> blocks, loc |-> loc]]
  <2>1. \A n \in 0 .. 0 : n = 0
    OBVIOUS
  <2>2. z = [n \in 0 .. 0 |-> body(z, n)]
    <3>1. \A n \in 0 .. 0 : body(z, n) = [blocks |-> blocks, loc |-> loc]
      BY <2>1, Zenon
    <3> HIDE DEF body
    <3> QED BY <3>1
  <2> HIDE DEF z, body
  <2> QED BY <2>2
<1>2. ASSUME NEW k \in Nat, k \in Defined PROVE k + 1 \in Defined
  <2>1. PICK f : f = [n \in 0 .. k |-> body(f, n)]
    BY <1>2
  <2> DEFINE g == [n \in 0 .. k + 1 |-> IF n <= k THEN f[n] ELSE body(f, n)]
  <2>2. \A n \in 0 .. k + 1 : g[n] = body(g, n)
    <3> TAKE n \in 0 .. k + 1
    <3>1. n # 0 => g[n - 1] = f[n - 1]
      <4> HIDE DEF body
      <4> QED OBVIOUS
    <3>2. body(g, n) = body(f, n)
      <4> HIDE DEF g
      <4> QED BY <3>1, Zenon
    <3>3. CASE n <= k
      <4> HIDE DEF body
      <4>0. n \in 0 .. k
        BY <3>3
      <4>1. f[n] = body(f, n)
        BY <2>1, <4>0, Zenon
      <4> QED BY <3>2, <3>3, <4>1
    <3>4. CASE ~(n <= k)
      <4> HIDE DEF body
      <4> QED BY <3>2, <3>4
    <3> QED BY <3>3, <3>4
  <2>3. g = [n \in 0 .. k + 1 |-> body(g, n)]
    <3> HIDE DEF body
    <3> QED BY <2>2
  <2>4. \E h : h = [n \in 0 .. k + 1 |-> body(h, n)]
    <3> HIDE DEF g, body
    <3> QED BY <2>3
  <2> HIDE DEF body
  <2> QED BY <2>4
<1>3. N \in Defined
  <2> HIDE DEF Defined, N
  <2> QED BY <1>0, <1>1, <1>2, SetInduction
<1>4. \E f : f = [n \in 0 .. N |-> body(f, n)]
  BY <1>3
<1>5. TakenBack(t) = CHOOSE f : f = [n \in 0 .. N |-> body(f, n)]
  BY DEF TakenBack
<1> HIDE DEF body
<1>6. TakenBack(t) = [n \in 0 .. N |-> body(TakenBack(t), n)]
  BY <1>4, <1>5
<1> DEFINE k == TakenBack(t)
<1>7. k = [n \in 0 .. N |-> body(k, n)]
  BY <1>6
<1> HIDE DEF k
<1>8. \A n \in 0 .. N : k[n] = body(k, n)
  BY <1>7, Zenon
<1> HIDE DEF N
<1>9. k[0] = body(k, 0) /\ \A n \in 1 .. N : n # 0 /\ k[n] = body(k, n)
  BY <1>0, <1>8
<1>10. k[0] = [blocks |-> blocks, loc |-> loc] /\ \A n \in 1 .. N : k[n] = Undone(k[n - 1], t, undo[N + 1 - n])
  BY <1>9, Zenon DEF body
<1> QED BY <1>10, Zenon DEF k, N

\* abort: the entries are taken back one by one.
LEMMA AbortStep ==
  ASSUME OInv, NEW t \in Txns, abort(t)
  PROVE  OInv'
<1> DEFINE undo == tx[t].undo
           len == Len(blocks)
           Good == {n \in Nat : n <= Len(undo) => Store(TakenBack(t)[n], eids, len)}
<1>1. /\ blocks' = RolledBack(t).blocks /\ loc' = RolledBack(t).loc
      /\ tx' = [tx EXCEPT ![t] = NewTx("aborted", tx[t].start)]
      /\ vmap' = vmap /\ logical' = logical /\ vertices' = vertices /\ eids' = eids /\ clock' = clock
  BY DEF abort, Active
<1>2. tx[t] \in TxRecords
  BY DEF OInv
<1>3. undo \in Seq(UndoRecords) /\ tx[t].start \in Nat
  BY <1>2 DEF TxRecords
<1>4. 0 \in Good
  <2> DEFINE z == [blocks |-> blocks, loc |-> loc]
  <2>1. DOMAIN z = {"blocks", "loc"} /\ z.blocks = blocks /\ z.loc = loc
    OBVIOUS
  <2> HIDE DEF z
  <2>2. Store(z, eids, len)
    BY <2>1 DEF Store, OInv
  <2>3. TakenBack(t)[0] = z
    BY <1>3, TakenBackSteps DEF z
  <2> QED BY <2>2, <2>3
<1>5. ASSUME NEW n \in Nat, n \in Good PROVE n + 1 \in Good
  <2> SUFFICES ASSUME n + 1 <= Len(undo) PROVE Store(TakenBack(t)[n + 1], eids, len)
    OBVIOUS
  <2> DEFINE s == TakenBack(t)[n]
             u == undo[Len(undo) + 1 - (n + 1)]
  <2>1. Len(undo) \in Nat /\ n + 1 \in 1 .. Len(undo) /\ (n + 1) - 1 = n
    BY <1>3
  <2>2. Store(s, eids, len)
    BY <1>5, <2>1
  <2>3. u \in UndoRecords
    BY <1>3, <2>1
  <2>4. TakenBack(t)[n + 1] = Undone(TakenBack(t)[(n + 1) - 1], t, u)
    BY <1>3, <2>1, TakenBackSteps, Zenon
  <2>5. TakenBack(t)[n + 1] = Undone(s, t, u)
    BY <2>1, <2>4
  <2> HIDE DEF s, u, len
  <2>6. Store(Undone(s, t, u), eids, len)
    BY <2>2, <2>3, UndoneOK
  <2> QED BY <2>5, <2>6
<1>6. Store(RolledBack(t), eids, len)
  <2>1. Len(undo) \in Good /\ Len(undo) \in Nat
    <3> HIDE DEF Good
    <3>1. Nat \subseteq Good
      BY <1>4, <1>5, SetInduction
    <3> QED BY <1>3, <3>1
  <2> QED BY <2>1 DEF RolledBack
<1>7. Exact(blocks', loc', eids) /\ Len(blocks') = Len(blocks)
  BY <1>1, <1>6 DEF Store
<1>8. VerticesIn(vertices', blocks')
  BY <1>1, <1>7, SameLength
<1>9. tx' \in [Txns -> TxRecords]
  <2>1. NewTx("aborted", tx[t].start) \in TxRecords
    BY <1>3, NewTxTyped
  <2> QED BY <1>1, <2>1 DEF OInv
<1> QED BY <1>1, <1>7, <1>8, <1>9 DEF OInv

-----------------------------------------------------------------------------
(* The invariant holds, and a location seen before the lock is repaired.     *)

LEMMA StepOInv ==
  ASSUME OInv, [Next]_vars
  PROVE  OInv'
<1>1. CASE UNCHANGED vars
  BY <1>1 DEF vars, OInv, VerticesIn, Exact, BlocksOK, Mapped, Entered, Holds
<1>2. CASE \E v \in Vertices : create_vertex(v) \/ delete_vertex(v) \/ set_vertex_property(v, 1)
  BY <1>2, CreateVertexStep, DeleteVertexStep, SetVertexPropertyStep
<1>3. CASE \E v \in Vertices, d \in Dsts : create_edge(v, d, NewValue)
  <2> HIDE DEF NewValue
  <2> QED BY <1>3, CreateEdgeStep
<1>4. CASE \E e \in Eids : delete_edge(e) \/ set_edge_property(e, NewValue)
  <2> HIDE DEF NewValue
  <2> QED BY <1>4, DeleteEdgeStep, SetEdgePropertyStep
<1>5. CASE EndLoad \/ compress_edge \/ compress_property
  BY <1>5, OtherSteps
<1>6. CASE \E t \in Txns : Begin(t) \/ LookedInVain(t) \/ DrawCommit(t) \/ commit_at(t) \/ abort(t)
  BY <1>6, BeginStep, LookStep, DrawStep, CommitStep, AbortStep
<1>7. CASE \E t \in Txns, op \in {"set", "del"}, e \in Eids : LookUp(t, op, e)
  BY <1>7, LookStep
<1>8. CASE \E t \in Txns, v \in Vertices, d \in Dsts :
              create_edge_in_txn(t, v, d, IF t \in Bare THEN NONE ELSE NewValue)
  <2> HIDE DEF NewValue
  <2> QED BY <1>8, CreateEdgeInTxnStep
<1>9. CASE \E t \in Txns : set_edge_property_in_txn(t, NewValue) \/ delete_edge_in_txn(t)
  <2>1. PICK t \in Txns : set_edge_property_in_txn(t, NewValue) \/ delete_edge_in_txn(t)
    BY <1>9
  <2>2. NONE \in Nat /\ TOMBSTONE_DST_ID \in Nat
    BY DEF NONE, TOMBSTONE_DST_ID
  <2>3. CASE set_edge_property_in_txn(t, NewValue)
    <3>1. Apply(t, "set", NONE, NewValue, <<Version(txn_id(t), NewValue)>>)
      BY <2>3 DEF set_edge_property_in_txn
    <3> QED BY <2>2, <3>1, ApplyStep
  <2>4. CASE delete_edge_in_txn(t)
    <3>1. Apply(t, "del", TOMBSTONE_DST_ID, NONE, <<>>)
      BY <2>4 DEF delete_edge_in_txn
    <3> QED BY <2>2, <3>1, ApplyStep
  <2> QED BY <2>1, <2>3, <2>4
<1> QED BY <1>1, <1>2, <1>3, <1>4, <1>5, <1>6, <1>7, <1>8, <1>9, Zenon DEF Next

\* edge_id_map is exact in every state: it holds the place of every edge in a
\* block, and no place else, through insertions and removals that shift the
\* slots, rollbacks and compaction.
THEOREM MapIsExact == Spec => []OInv
<1> QED BY InitOInv, StepOInv, PTL DEF Spec

LEMMA RepairedInState == OInv => StaleLookupRepaired
<1> SUFFICES ASSUME OInv, NEW t \in Txns, tx[t].look # NoLook, loc[tx[t].look.eid] # NoLoc
             PROVE  Holds(blocks, Located(t), tx[t].look.eid)
  BY DEF StaleLookupRepaired
<1> DEFINE e == tx[t].look.eid
<1>1. tx[t] \in TxRecords
  BY DEF OInv
<1>2. tx[t].look \in Looks
  <2>1. tx[t].look \in Looks \cup {NoLook}
    BY <1>1, Zenon DEF TxRecords
  <2> QED BY <2>1, Zenon
<1>3. e \in Eids
  BY <1>2 DEF Looks
<1>4. Holds(blocks, loc[e], e)
  BY <1>3 DEF OInv, Exact, Mapped
<1> QED BY <1>4, Zenon DEF Located, resolve_edge_location

\* resolve_edge_location finds the edge of every waiting set_edge_property_in_txn
\* or delete_edge_in_txn, whatever has moved or rolled back slots since the
\* location was read without the lock, unless the edge is gone.
THEOREM LookupsRepaired == Spec => []StaleLookupRepaired
<1> QED BY MapIsExact, RepairedInState, PTL

-----------------------------------------------------------------------------
(* The chain of blocks of a vertex.                                          *)

\* Chains satisfies its recursion: a block is chained to an earlier one.
LEMMA ChainsSteps ==
  ASSUME OInv
  PROVE  /\ Chains[0] = <<>>
         /\ \A n \in 1 .. Len(blocks) : Chains[n] = <<n>> \o Chains[blocks[n].pre]
<1> DEFINE N == Len(blocks)
           body(f, n) == IF n = NONE THEN <<>> ELSE <<n>> \o f[blocks[n].pre]
           Is(k) == \E f : f = [n \in 0 .. k |-> body(f, n)]
           Defined == {k \in Nat : k <= N => Is(k)}
<1>0. N \in Nat /\ \A n \in 1 .. N : blocks[n].pre \in 0 .. n - 1
  BY BlocksShape DEF OInv, Exact, BlocksOK, BlockOK
<1>1. 0 \in Defined
  <2> DEFINE z == [n \in 0 .. 0 |-> <<>>]
  <2>1. \A n \in 0 .. 0 : body(z, n) = <<>>
    BY DEF NONE
  <2>2. z = [n \in 0 .. 0 |-> body(z, n)]
    <3> HIDE DEF body
    <3> QED BY <2>1
  <2>3. Is(0)
    <3> HIDE DEF z, body
    <3> QED BY <2>2
  <2> HIDE DEF Is
  <2> QED BY <2>3
<1>2. ASSUME NEW k \in Nat, k \in Defined PROVE k + 1 \in Defined
  <2> SUFFICES ASSUME k + 1 <= N PROVE Is(k + 1)
    <3> HIDE DEF Is
    <3> QED OBVIOUS
  <2>1. PICK f : f = [n \in 0 .. k |-> body(f, n)]
    <3>1. Is(k)
      <4> HIDE DEF Is
      <4> QED BY <1>0, <1>2
    <3> HIDE DEF body
    <3> QED BY <3>1
  <2> DEFINE g == [n \in 0 .. k + 1 |-> IF n <= k THEN f[n] ELSE body(f, n)]
  <2>2. ASSUME NEW n \in 0 .. k + 1 PROVE g[n] = body(g, n)
    <3>1. n # NONE => g[blocks[n].pre] = f[blocks[n].pre]
      <4> SUFFICES ASSUME n # NONE PROVE g[blocks[n].pre] = f[blocks[n].pre]
        OBVIOUS
      <4>1. n \in 1 .. N
        BY <1>0 DEF NONE
      <4>2. blocks[n].pre \in 0 .. n - 1
        BY <1>0, <4>1
      <4> DEFINE p == blocks[n].pre
      <4> HIDE DEF body, p
      <4>3. p \in 0 .. k + 1 /\ p <= k
        BY <4>2 DEF p
      <4>4. g[p] = f[p]
        BY <4>3
      <4> QED BY <4>4 DEF p
    <3>2. body(g, n) = body(f, n)
      <4> HIDE DEF g
      <4> QED BY <3>1, Zenon
    <3>3. CASE n <= k
      <4> HIDE DEF body
      <4>0. n \in 0 .. k
        BY <3>3
      <4>1. f[n] = body(f, n)
        BY <2>1, <4>0, Zenon
      <4> QED BY <3>2, <3>3, <4>1
    <3>4. CASE ~(n <= k)
      <4> HIDE DEF body
      <4> QED BY <3>2, <3>4
    <3> QED BY <3>3, <3>4
  <2>3. g = [n \in 0 .. k + 1 |-> body(g, n)]
    <3> HIDE DEF body
    <3> QED BY <2>2
  <2> HIDE DEF g, body
  <2> QED BY <2>3
<1>3. N \in Defined
  <2> HIDE DEF Defined, N
  <2> QED BY <1>0, <1>1, <1>2, SetInduction
<1>4. Is(N)
  <2> HIDE DEF Is
  <2> QED BY <1>0, <1>3
<1>5. Chains = CHOOSE f : f = [n \in 0 .. N |-> body(f, n)]
  BY DEF Chains
<1> HIDE DEF body
<1>6. Chains = [n \in 0 .. N |-> body(Chains, n)]
  BY <1>4, <1>5
<1> DEFINE k == Chains
<1>7. k = [n \in 0 .. N |-> body(k, n)]
  BY <1>6
<1> HIDE DEF k
<1>8. \A n \in 0 .. N : k[n] = body(k, n)
  BY <1>7, Zenon
<1> HIDE DEF N
<1>9. k[0] = body(k, 0) /\ \A n \in 1 .. N : n # NONE /\ k[n] = body(k, n)
  BY <1>0, <1>8 DEF NONE
<1>10. k[0] = <<>> /\ \A n \in 1 .. N : k[n] = <<n>> \o k[blocks[n].pre]
  BY <1>9, Zenon DEF body, NONE
<1> QED BY <1>10, Zenon DEF k, N

\* A chain is made of blocks.
LEMMA ChainInBlocks ==
  ASSUME OInv, NEW b \in 0 .. Len(blocks)
  PROVE  Chain(b) \in Seq(DOMAIN blocks)
<1> DEFINE D == DOMAIN blocks
           Typed == {k \in Nat : \A n \in 0 .. k : n <= Len(blocks) => Chains[n] \in Seq(D)}
<1>0. D = 1 .. Len(blocks) /\ Len(blocks) \in Nat /\ \A n \in 1 .. Len(blocks) : blocks[n].pre \in 0 .. n - 1
  BY BlocksShape DEF OInv, Exact, BlocksOK, BlockOK
<1>1. 0 \in Typed
  <2>1. Chains[0] \in Seq(D)
    <3>1. Chains[0] = <<>>
      BY ChainsSteps
    <3> QED BY <3>1
  <2>2. \A n \in 0 .. 0 : n = 0
    OBVIOUS
  <2> QED BY <2>1, <2>2
<1>2. ASSUME NEW k \in Nat, k \in Typed PROVE k + 1 \in Typed
  <2> SUFFICES ASSUME NEW n \in 0 .. k + 1, n <= Len(blocks) PROVE Chains[n] \in Seq(D)
    OBVIOUS
  <2>1. CASE n \in 0 .. k
    BY <1>2, <2>1
  <2>2. CASE n = k + 1
    <3>1. n \in 1 .. Len(blocks) /\ n \in D
      BY <1>0, <2>2
    <3>2. blocks[n].pre \in 0 .. k /\ blocks[n].pre <= Len(blocks)
      BY <1>0, <2>2, <3>1
    <3>3. Chains[blocks[n].pre] \in Seq(D)
      BY <1>2, <3>2
    <3>4. Chains[n] = <<n>> \o Chains[blocks[n].pre]
      BY <3>1, ChainsSteps
    <3> HIDE DEF D
    <3>5. <<n>> \in Seq(D)
      BY <3>1
    <3> QED BY <3>3, <3>4, <3>5
  <2> QED BY <2>1, <2>2
<1>3. b \in Typed
  <2> HIDE DEF Typed
  <2>1. Nat \subseteq Typed
    BY <1>1, <1>2, SetInduction
  <2> QED BY <1>0, <2>1
<1> QED BY <1>0, <1>3 DEF Chain

-----------------------------------------------------------------------------
(* What a snapshot reads.  Clients keep off each other's edges, vertex 1, the *)
(* target id of a tombstone, is no target, and timestamps stay below the      *)
(* transaction ids.                                                           *)

KeepOff == ClientLocks /\ TOMBSTONE_DST_ID \notin Dsts /\ MaxTxn < TXN_ID_START

Versions == [ts : Nat, val : Nat]
VersionsIn(bs) == \A i \in DOMAIN bs : bs[i].min \in Nat /\ bs[i].p \in [Slots -> Seq(Versions)]

\* What the store keeps of an edge, wherever its slot is.
Cell(bs, m, e) ==
    LET b == bs[m[e].b] IN [slot |-> b.e[m[e].o], vs |-> b.p[m[e].o], min |-> b.min, dead |-> b.dead]

\* v ends the list, or would without the versions of t.
EndsIn(vs, v) == vs # <<>> /\ vs[Len(vs)] = v
EndsUnder(vs, v, t) ==
    /\ v.ts # txn_id(t)
    /\ \E j \in DOMAIN vs : vs[j] = v /\ \A i \in DOMAIN vs : i > j => vs[i].ts = txn_id(t)
\* The filter on min_ts does not hide a commit of ts from a snapshot that has it.
Unhidden(min, ts) == ts > 0 => ~is_txn_id(min) /\ min <= ts

\* The slot tells of the last write g of the edge: who, when and, unless the
\* edge is deleted, what.
Shows(x, g) == x.slot.ts = g.ts /\ IF IsTombstone(x.slot) THEN g.val = NONE ELSE EndsIn(x.vs, g)
\* The slot holds a commit, which no other write is later than.
Settled(x, g, now) ==
    /\ x.slot.ts <= now /\ Unhidden(x.min, x.slot.ts)
    /\ \A i \in DOMAIN g : g[i].ts <= x.slot.ts

Written(t, e) == {i \in DOMAIN tx[t].undo : tx[t].undo[i].eid = e}
Wrote(t, e, op) == \E i \in Written(t, e) : tx[t].undo[i].op = op

EdgeInv(e) ==
    LET x == Cell(blocks, loc, e)
        g == log[e]
    IN  IF loc[e] = NoLoc THEN g = <<>>
        ELSE /\ g # <<>> /\ Shows(x, g[Len(g)])
             /\ IF is_txn_id(x.slot.ts) THEN \E t \in Txns : x.slot.ts = txn_id(t) /\ Written(t, e) # {}
                ELSE Settled(x, g, clock)

\* The first of t's writes to e: the later ones found its own mark.
FirstWrite(t, e, i) ==
    \A j \in Written(t, e) : j # i => j > i /\ tx[t].undo[j].op # "create" /\ tx[t].undo[j].ts = txn_id(t)
\* Under the writes of t, which may have set the property, is the commit c of its
\* snapshot, which its undo buffer leads back to.
Underneath(t, x, g, c, start, set) ==
    /\ c <= start /\ Unhidden(x.min, c)
    /\ \A i \in DOMAIN g : g[i].ts = txn_id(t) \/ g[i].ts <= c
    /\ \E v \in Versions : /\ v.ts = c /\ EndsUnder(x.vs, v, t) /\ EndsUnder(g, v, t)
                           /\ ~set => EndsIn(x.vs, v)
OwnerInv(t, e) ==
    LET x == Cell(blocks, loc, e)
        g == log[e]
        u == tx[t].undo
    IN  Written(t, e) # {} =>
        /\ loc[e] # NoLoc /\ x.slot.ts = txn_id(t)
        /\ \E i \in Written(t, e) :
              /\ FirstWrite(t, e, i)
              /\ IF u[i].op = "create" THEN \A n \in DOMAIN g : g[n].ts = txn_id(t)
                 ELSE Underneath(t, x, g, u[i].ts, tx[t].start, Wrote(t, e, "set"))
        /\ IsTombstone(x.slot) <=> Wrote(t, e, "del")
        /\ Wrote(t, e, "del") => tx[t].snap[e] # TOMBSTONE_DST_ID

\* A writer that waits for the lock sees what it is about to write, and no one
\* else waits to write it.
WaitInv(t) ==
    LET e == tx[t].look.eid
        x == Cell(blocks, loc, e)
    IN  tx[t].look # NoLook =>
        /\ tx[t].st = "active" /\ e \in 1 .. eids
        /\ loc[e] # NoLoc => x.dead \/ (~IsTombstone(x.slot) /\ Sees(t, x.slot.ts))
        /\ \A u \in Txns : u # t => tx[u].look.eid # e
\* A commit has drawn a timestamp later than its snapshot and not the clock's next.
TxInv(t) ==
    /\ tx[t].st # "active" => tx[t].undo = <<>> /\ tx[t].commit = NONE
    /\ tx[t].start <= clock
    /\ tx[t].commit # NONE => tx[t].start < tx[t].commit /\ tx[t].commit <= clock

\* The transactions that have drawn a commit timestamp.
Ended == {t \in Txns : tx[t].st = "committed" \/ tx[t].commit # NONE}
NoneGone == \A e \in Eids : loc[e] # NoLoc => ~IsTombstone(Cell(blocks, loc, e).slot)
SInv ==
    phase \in {"load", "run"} =>
    /\ VersionsIn(blocks) /\ log \in [Eids -> Seq(Versions)]
    /\ \A e \in Eids : EdgeInv(e)
    /\ \A t \in Txns : TxInv(t) /\ WaitInv(t) /\ \A e \in Eids : OwnerInv(t, e)
    /\ clock <= Cardinality(Ended)
    /\ phase = "load" => (\A t \in Txns : tx[t].st = "idle") /\ NoneGone

-----------------------------------------------------------------------------
(* Numbers and lists of versions.                                            *)

LEMMA MinOfTwo ==
  ASSUME NEW a \in Nat, NEW b \in Nat
  PROVE  Min({a, b}) = IF a <= b THEN a ELSE b
<1>1. CASE a <= b
  <2>1. a \in {a, b} /\ \A y \in {a, b} : a <= y
    BY <1>1
  <2>2. \A x \in {a, b} : (\A y \in {a, b} : x <= y) => x = a
    BY <1>1
  <2> QED BY <1>1, <2>1, <2>2 DEF Min
<1>2. CASE ~(a <= b)
  <2>1. b \in {a, b} /\ \A y \in {a, b} : b <= y
    BY <1>2
  <2>2. \A x \in {a, b} : (\A y \in {a, b} : x <= y) => x = b
    BY <1>2
  <2> QED BY <1>2, <2>1, <2>2 DEF Min
<1> QED BY <1>1, <1>2

\* The smallest member of a set of numbers is a member.
LEMMA MinIsMember ==
  ASSUME NEW S, S \subseteq Nat, S # {}
  PROVE  Min(S) \in S
<1>1. PICK x \in S : \A y \in S : ~ (<<y, x>> \in OpToRel(<, Nat))
  BY WFMin, NatLessThanWellFounded, Zenon
<1>2. ASSUME NEW y \in S PROVE x <= y
  <2>1. x \in Nat /\ y \in Nat
    OBVIOUS
  <2>2. CASE y < x
    <3>1. <<y, x>> \in Nat \X Nat /\ <<y, x>>[1] < <<y, x>>[2]
      BY <2>1, <2>2
    <3>2. <<y, x>> \in OpToRel(<, Nat)
      BY <3>1, Zenon DEF OpToRel
    <3> QED BY <1>1, <3>2, Zenon
  <2> QED BY <2>1, <2>2
<1>3. \E z \in S : \A y \in S : z <= y
  BY <1>2
<1> QED BY <1>3, Zenon DEF Min

\* The largest member of a finite set of numbers.
LEMMA MaxIsMember ==
  ASSUME NEW S, IsFiniteSet(S), S \subseteq Nat, S # {}
  PROVE  Max(S) \in S /\ \A y \in S : y <= Max(S)
<1> DEFINE Good == {n \in Nat : \A T : IsFiniteSet(T) /\ T \subseteq Nat /\ Cardinality(T) = n /\ T # {} =>
                                  \E x \in T : \A y \in T : y <= x}
<1>1. 0 \in Good
  BY FS_EmptySet
<1>2. ASSUME NEW n \in Nat, n \in Good PROVE n + 1 \in Good
  <2> SUFFICES ASSUME NEW T, IsFiniteSet(T), T \subseteq Nat, Cardinality(T) = n + 1, T # {}
               PROVE  \E x \in T : \A y \in T : y <= x
    OBVIOUS
  <2>1. PICK a : a \in T
    OBVIOUS
  <2> DEFINE R == T \ {a}
  <2>2. IsFiniteSet(R) /\ Cardinality(R) = n /\ R \subseteq Nat
    <3>1. IsFiniteSet(R) /\ Cardinality(R) = Cardinality(T) - 1
      BY <2>1, FS_RemoveElement, Zenon
    <3>2. R \subseteq Nat
      OBVIOUS
    <3> HIDE DEF R
    <3> QED BY <3>1, <3>2
  <2>3. CASE R = {}
    <3>1. \A y \in T : y <= a
      BY <2>1, <2>3
    <3> QED BY <2>1, <3>1
  <2>4. CASE R # {}
    <3>1. PICK x \in R : \A y \in R : y <= x
      <4> HIDE DEF R
      <4> QED BY <1>2, <2>2, <2>4
    <3>2. x \in Nat /\ a \in Nat /\ x \in T
      BY <2>1
    <3>3. \A y \in T : y = a \/ y \in R
      OBVIOUS
    <3>4. CASE a <= x
      BY <3>1, <3>2, <3>3, <3>4
    <3>5. CASE ~(a <= x)
      <4>1. \A y \in T : y <= a
        <5> TAKE y \in T
        <5>1. y \in Nat /\ (y = a \/ y <= x)
          BY <3>1, <3>3
        <5> QED BY <3>2, <3>5, <5>1
      <4> QED BY <2>1, <4>1
    <3> QED BY <3>4, <3>5
  <2> QED BY <2>3, <2>4
<1>3. Cardinality(S) \in Good
  <2> HIDE DEF Good
  <2> QED BY <1>1, <1>2, SetInduction, FS_CardinalityType
<1>4. \E x \in S : \A y \in S : y <= x
  BY <1>3
<1>5. \E x \in S : \A y \in S : x >= y
  <2>1. \A x, y \in S : y <= x => x >= y
    OBVIOUS
  <2> QED BY <1>4, <2>1
<1>6. Max(S) \in S /\ \A y \in S : Max(S) >= y
  BY <1>5, Zenon DEF Max
<1> QED BY <1>6

\* The value of the last version in the list that counts, where that is the last one.
LEMMA LastCounts ==
  ASSUME NEW vs \in Seq(Versions), vs # <<>>, NEW I, I \subseteq DOMAIN vs, Len(vs) \in I
  PROVE  LastValue(vs, I) = vs[Len(vs)].val
<1>1. DOMAIN vs = 1 .. Len(vs) /\ Len(vs) \in Nat
  OBVIOUS
<1>2. Len(vs) \in I /\ \A y \in I : y <= Len(vs) /\ y \in Nat
  BY <1>1
<1>3. \A x \in I : (\A y \in I : x >= y) => x = Len(vs)
  BY <1>1, <1>2
<1>4. \A y \in I : Len(vs) >= y
  BY <1>1, <1>2
<1>5. Max(I) = Len(vs)
  BY <1>2, <1>3, <1>4, Zenon DEF Max
<1> QED BY <1>2, <1>5 DEF LastValue

\* Without satisfies its recursion.
LEMMA WithoutSteps ==
  ASSUME NEW vs \in Seq(Versions), NEW t
  PROVE  \E k : /\ Without(vs, t) = k[Len(vs)] /\ k[0] = <<>>
                /\ \A n \in 1 .. Len(vs) :
                     k[n] = IF vs[n].ts = txn_id(t) THEN k[n - 1] ELSE Append(k[n - 1], vs[n])
<1> DEFINE N == Len(vs)
           body(f, n) == IF n = 0 THEN <<>>
                         ELSE IF vs[n].ts = txn_id(t) THEN f[n - 1] ELSE Append(f[n - 1], vs[n])
           Defined == {k \in Nat : \E f : f = [n \in 0 .. k |-> body(f, n)]}
<1>0. N \in Nat
  OBVIOUS
<1>1. 0 \in Defined
  <2> DEFINE z == [n \in 0 .. 0 |-> <<>>]
  <2>1. \A n \in 0 .. 0 : n = 0
    OBVIOUS
  <2>2. z = [n \in 0 .. 0 |-> body(z, n)]
    <3>1. \A n \in 0 .. 0 : body(z, n) = <<>>
      BY <2>1, Zenon
    <3> HIDE DEF body
    <3> QED BY <3>1
  <2> HIDE DEF z, body
  <2> QED BY <2>2
<1>2. ASSUME NEW k \in Nat, k \in Defined PROVE k + 1 \in Defined
  <2>1. PICK f : f = [n \in 0 .. k |-> body(f, n)]
    BY <1>2
  <2> DEFINE g == [n \in 0 .. k + 1 |-> IF n <= k THEN f[n] ELSE body(f, n)]
  <2>2. \A n \in 0 .. k + 1 : g[n] = body(g, n)
    <3> TAKE n \in 0 .. k + 1
    <3>1. n # 0 => g[n - 1] = f[n - 1]
      <4> HIDE DEF body
      <4> QED OBVIOUS
    <3>2. body(g, n) = body(f, n)
      <4> HIDE DEF g
      <4> QED BY <3>1, Zenon
    <3>3. CASE n <= k
      <4> HIDE DEF body
      <4>0. n \in 0 .. k
        BY <3>3
      <4>1. f[n] = body(f, n)
        BY <2>1, <4>0, Zenon
      <4> QED BY <3>2, <3>3, <4>1
    <3>4. CASE ~(n <= k)
      <4> HIDE DEF body
      <4> QED BY <3>2, <3>4
    <3> QED BY <3>3, <3>4
  <2>3. g = [n \in 0 .. k + 1 |-> body(g, n)]
    <3> HIDE DEF body
    <3> QED BY <2>2
  <2>4. \E h : h = [n \in 0 .. k + 1 |-> body(h, n)]
    <3> HIDE DEF g, body
    <3> QED BY <2>3
  <2> HIDE DEF body
  <2> QED BY <2>4
<1>3. N \in Defined
  <2> HIDE DEF Defined, N
  <2> QED BY <1>0, <1>1, <1>2, SetInduction
<1>4. \E f : f = [n \in 0 .. N |-> body(f, n)]
  BY <1>3
<1> DEFINE k == CHOOSE f : f = [n \in 0 .. N |-> body(f, n)]
<1>5. Without(vs, t) = k[N]
  BY DEF Without
<1>6. k = [n \in 0 .. N |-> body(k, n)]
  <2> HIDE DEF body
  <2> QED BY <1>4
<1> HIDE DEF k
<1>7. \A n \in 0 .. N : k[n] = body(k, n)
  <2> HIDE DEF body
  <2> QED BY <1>6, Zenon
<1> HIDE DEF N, body
<1>8. k[0] = body(k, 0) /\ \A n \in 1 .. N : n # 0 /\ k[n] = body(k, n)
  BY <1>0, <1>7
<1>9. k[0] = <<>> /\ \A n \in 1 .. N : k[n] = IF vs[n].ts = txn_id(t) THEN k[n - 1] ELSE Append(k[n - 1], vs[n])
  BY <1>8, Zenon DEF body
<1> QED BY <1>5, <1>9, Zenon DEF N

\* What a rollback leaves of a list of versions.
LEMMA WithoutFacts ==
  ASSUME NEW vs \in Seq(Versions), NEW t
  PROVE  /\ Without(vs, t) \in Seq(Versions)
         /\ \A m \in DOMAIN Without(vs, t) :
              \E i \in DOMAIN vs : Without(vs, t)[m] = vs[i] /\ vs[i].ts # txn_id(t)
         /\ (\A i \in DOMAIN vs : vs[i].ts = txn_id(t)) => Without(vs, t) = <<>>
         /\ (\A i \in DOMAIN vs : vs[i].ts # txn_id(t)) => Without(vs, t) = vs
         /\ \A v \in Versions : EndsUnder(vs, v, t) => EndsIn(Without(vs, t), v)
<1> DEFINE N == Len(vs)
<1>1. PICK k : /\ Without(vs, t) = k[N] /\ k[0] = <<>>
               /\ \A n \in 1 .. N : k[n] = IF vs[n].ts = txn_id(t) THEN k[n - 1] ELSE Append(k[n - 1], vs[n])
  BY WithoutSteps
<1>2. N \in Nat /\ DOMAIN vs = 1 .. N /\ \A i \in 1 .. N : vs[i] \in Versions
  OBVIOUS
<1> DEFINE mine(i) == vs[i].ts = txn_id(t)
           Q(n) == /\ k[n] \in Seq(Versions)
                   /\ \A m \in DOMAIN k[n] : \E i \in 1 .. n : k[n][m] = vs[i] /\ ~mine(i)
                   /\ (\A i \in 1 .. n : mine(i)) => k[n] = <<>>
                   /\ (\A i \in 1 .. n : ~mine(i)) => Len(k[n]) = n /\ \A i \in 1 .. n : k[n][i] = vs[i]
                   /\ \A j \in 1 .. n : ~mine(j) /\ (\A i \in 1 .. n : i > j => mine(i)) =>
                         Len(k[n]) >= 1 /\ k[n][Len(k[n])] = vs[j]
           Good == {n \in Nat : n <= N => Q(n)}
<1>3. 0 \in Good
  <2>1. k[0] = <<>> /\ k[0] \in Seq(Versions) /\ DOMAIN k[0] = {} /\ Len(k[0]) = 0
    BY <1>1
  <2>2. 1 .. 0 = {}
    OBVIOUS
  <2>3. Q(0)
    BY <2>1, <2>2, Zenon
  <2> HIDE DEF Q
  <2> QED BY <2>3
<1>4. ASSUME NEW n \in Nat, n \in Good PROVE n + 1 \in Good
  <2> SUFFICES ASSUME n + 1 <= N PROVE Q(n + 1)
    <3> HIDE DEF Q
    <3> QED OBVIOUS
  <2>1. n + 1 \in 1 .. N /\ (n + 1) - 1 = n /\ vs[n + 1] \in Versions
    BY <1>2
  <2>2. k[n + 1] = IF mine(n + 1) THEN k[n] ELSE Append(k[n], vs[n + 1])
    BY <1>1, <2>1
  <2>3. Q(n)
    BY <1>2, <1>4
  <2>4. \A i \in 1 .. n + 1 : i = n + 1 \/ i \in 1 .. n
    OBVIOUS
  <2>5. \A i \in 1 .. n : i \in 1 .. n + 1 /\ n + 1 > i
    OBVIOUS
  <2> DEFINE w == vs[n + 1]
             a == k[n]
  <2> HIDE DEF N
  <2>6. CASE mine(n + 1)
    <3> DEFINE own(i) == mine(i)
    <3>0. own(n + 1)
      BY <2>6
    <3>1. k[n + 1] = k[n]
      BY <2>2, <2>6
    <3> HIDE DEF own
    <3>2. /\ \A m \in DOMAIN k[n] : \E i \in 1 .. n : k[n][m] = vs[i] /\ ~own(i)
          /\ (\A i \in 1 .. n : own(i)) => k[n] = <<>>
          /\ \A j \in 1 .. n : ~own(j) /\ (\A i \in 1 .. n : i > j => own(i)) =>
                         Len(k[n]) >= 1 /\ k[n][Len(k[n])] = vs[j]
      BY <2>3 DEF own
    <3>3. \A m \in DOMAIN k[n] : \E i \in 1 .. n + 1 : k[n][m] = vs[i] /\ ~own(i)
      BY <2>5, <3>2
    <3>4. (\A i \in 1 .. n + 1 : own(i)) => k[n] = <<>>
      BY <2>5, <3>2
    <3>5. ~(\A i \in 1 .. n + 1 : ~own(i))
      BY <2>1, <3>0
    <3>6. \A j \in 1 .. n + 1 : ~own(j) /\ (\A i \in 1 .. n + 1 : i > j => own(i)) =>
                         Len(k[n]) >= 1 /\ k[n][Len(k[n])] = vs[j]
      BY <2>4, <2>5, <3>0, <3>2
    <3> QED BY <2>3, <3>1, <3>3, <3>4, <3>5, <3>6 DEF own
  <2>7. CASE ~mine(n + 1)
    <3> DEFINE own(i) == mine(i)
    <3>0. ~own(n + 1)
      BY <2>7
    <3>1. k[n + 1] = Append(a, w) /\ a \in Seq(Versions) /\ w \in Versions
      BY <2>1, <2>2, <2>3, <2>7
    <3>2. /\ \A m \in DOMAIN a : \E i \in 1 .. n : a[m] = vs[i] /\ ~own(i)
          /\ (\A i \in 1 .. n : ~own(i)) => Len(a) = n /\ \A i \in 1 .. n : a[i] = vs[i]
      BY <2>3 DEF own
    <3> DEFINE c == k[n + 1]
    <3> HIDE DEF own, a, c
    <3>3. /\ c \in Seq(Versions) /\ Len(c) = Len(a) + 1 /\ c[Len(a) + 1] = w /\ Len(a) \in Nat
          /\ DOMAIN c = 1 .. Len(a) + 1 /\ DOMAIN a = 1 .. Len(a) /\ \A i \in 1 .. Len(a) : c[i] = a[i]
      BY <3>1 DEF c
    <3>4. \A m \in DOMAIN c : \E i \in 1 .. n + 1 : c[m] = vs[i] /\ ~own(i)
      <4> TAKE m \in DOMAIN c
      <4>1. CASE m = Len(a) + 1
        BY <2>1, <3>0, <3>3, <4>1
      <4>2. CASE m # Len(a) + 1
        <5>1. m \in DOMAIN a /\ c[m] = a[m]
          BY <3>3, <4>2
        <5> QED BY <2>5, <3>2, <5>1
      <4> QED BY <4>1, <4>2
    <3>5. ~(\A i \in 1 .. n + 1 : own(i))
      BY <2>1, <3>0
    <3>6. (\A i \in 1 .. n + 1 : ~own(i)) => Len(c) = n + 1 /\ \A i \in 1 .. n + 1 : c[i] = vs[i]
      <4> SUFFICES ASSUME \A i \in 1 .. n + 1 : ~own(i)
                   PROVE  Len(c) = n + 1 /\ \A i \in 1 .. n + 1 : c[i] = vs[i]
        OBVIOUS
      <4>1. Len(a) = n /\ \A i \in 1 .. n : a[i] = vs[i]
        BY <2>5, <3>2
      <4> QED BY <2>4, <3>3, <4>1
    <3>7. \A j \in 1 .. n + 1 : ~own(j) /\ (\A i \in 1 .. n + 1 : i > j => own(i)) =>
                         Len(c) >= 1 /\ c[Len(c)] = vs[j]
      <4> SUFFICES ASSUME NEW j \in 1 .. n + 1, ~own(j), \A i \in 1 .. n + 1 : i > j => own(i)
                   PROVE  Len(c) >= 1 /\ c[Len(c)] = vs[j]
        OBVIOUS
      <4>1. j = n + 1
        BY <2>1, <3>0
      <4> QED BY <3>3, <4>1
    <3> QED BY <3>3, <3>4, <3>5, <3>6, <3>7 DEF own, c
  <2> QED BY <2>6, <2>7
<1>5. Q(N)
  <2>1. N \in Good
    <3> HIDE DEF Good, N
    <3> QED BY <1>2, <1>3, <1>4, SetInduction
  <2> HIDE DEF Q
  <2> QED BY <1>2, <2>1
<1> DEFINE r == Without(vs, t)
<1>6. r = k[N]
  BY <1>1
<1> HIDE DEF r
<1>7. (\A i \in DOMAIN vs : vs[i].ts # txn_id(t)) => r = vs
  <2> SUFFICES ASSUME \A i \in 1 .. N : ~mine(i) PROVE r = vs
    BY <1>2
  <2>1. r \in Seq(Versions) /\ Len(r) = N /\ \A i \in 1 .. N : r[i] = vs[i]
    BY <1>5, <1>6
  <2> QED BY <2>1
<1>8. ASSUME NEW v \in Versions, EndsUnder(vs, v, t) PROVE EndsIn(r, v)
  <2>1. PICK j \in 1 .. N : vs[j] = v /\ v.ts # txn_id(t) /\ \A i \in 1 .. N : i > j => vs[i].ts = txn_id(t)
    BY <1>2, <1>8 DEF EndsUnder
  <2>2. Len(r) >= 1 /\ r[Len(r)] = vs[j]
    BY <1>5, <1>6, <2>1
  <2>3. r # <<>>
    BY <2>2
  <2> QED BY <2>1, <2>2, <2>3 DEF EndsIn
<1>9. /\ r \in Seq(Versions)
      /\ \A m \in DOMAIN r : \E i \in DOMAIN vs : r[m] = vs[i] /\ vs[i].ts # txn_id(t)
      /\ (\A i \in DOMAIN vs : vs[i].ts = txn_id(t)) => r = <<>>
  BY <1>2, <1>5, <1>6
<1> QED BY <1>7, <1>8, <1>9 DEF r

\* Every written value is a number, and NewValue a new one.
LEMMA NewValueTyped ==
  ASSUME log \in [Eids -> Seq(Versions)]
  PROVE  NewValue \in Nat
<1> DEFINE vals(e) == {log[e][i].val : i \in DOMAIN log[e]}
           S == {0} \cup UNION {vals(e) : e \in Eids}
<1>1. ASSUME NEW e \in Eids PROVE IsFiniteSet(vals(e)) /\ vals(e) \subseteq Nat
  <2> DEFINE f == [i \in DOMAIN log[e] |-> log[e][i].val]
  <2>1. log[e] \in Seq(Versions) /\ DOMAIN log[e] = 1 .. Len(log[e]) /\ Len(log[e]) \in Nat
    OBVIOUS
  <2>2. IsFiniteSet(DOMAIN log[e])
    BY <2>1, FS_Interval
  <2>3. IsFiniteSet({log[e][i].val : i \in DOMAIN log[e]})
    <3>1. vals(e) = {f[i] : i \in DOMAIN log[e]}
      OBVIOUS
    <3>2. f \in [DOMAIN log[e] -> vals(e)] /\ \A y \in vals(e) : \E i \in DOMAIN log[e] : f[i] = y
      OBVIOUS
    <3> HIDE DEF f, vals
    <3>3. f \in Surjection(DOMAIN log[e], vals(e))
      BY <3>2, Zenon DEF Surjection
    <3>4. IsFiniteSet(vals(e))
      BY <2>2, <3>3, FS_Surjection, Zenon
    <3> QED BY <3>4 DEF vals
  <2>4. \A i \in DOMAIN log[e] : log[e][i].val \in Nat
    <3>1. \A i \in DOMAIN log[e] : log[e][i] \in Versions
      BY <2>1
    <3> QED BY <3>1 DEF Versions
  <2> QED BY <2>3, <2>4
<1>2. IsFiniteSet(UNION {vals(e) : e \in Eids})
  <2> DEFINE T == {vals(e) : e \in Eids}
             h == [e \in Eids |-> vals(e)]
  <2>1. IsFiniteSet(Eids)
    BY ConstantFacts, FS_Interval DEF Eids
  <2> HIDE DEF vals
  <2>2. h \in [Eids -> T] /\ \A y \in T : \E e \in Eids : h[e] = y
    BY Zenon
  <2>3. h \in Surjection(Eids, T)
    BY <2>2, Zenon DEF Surjection
  <2>4. \A x \in T : IsFiniteSet(x)
    BY <1>1
  <2> HIDE DEF h, T
  <2>5. IsFiniteSet(T)
    BY <2>1, <2>3, FS_Surjection, Zenon
  <2>6. IsFiniteSet(UNION T)
    BY <2>4, <2>5, FS_UNION, Zenon
  <2> QED BY <2>6 DEF T
<1>3. IsFiniteSet(S) /\ S \subseteq Nat /\ S # {}
  <2> HIDE DEF vals
  <2>1. UNION {vals(e) : e \in Eids} \subseteq Nat
    BY <1>1
  <2>2. IsFiniteSet({0})
    BY FS_Singleton
  <2>3. IsFiniteSet({0} \cup UNION {vals(e) : e \in Eids})
    BY <1>2, <2>2, FS_Union, Zenon
  <2> QED BY <2>1, <2>3
<1>4. NewValue = 1 + Max(S)
  BY Zenon DEF NewValue
<1> HIDE DEF S
<1>5. Max(S) \in S
  BY <1>3, MaxIsMember
<1> DEFINE n == Max(S)
<1>6. n \in Nat /\ NewValue = 1 + n
  BY <1>3, <1>4, <1>5
<1> HIDE DEF n, NewValue
<1> QED BY <1>6

-----------------------------------------------------------------------------
(* Reads of a state.                                                         *)

LEMMA TxnIds ==
  ASSUME NEW t \in Txns
  PROVE  txn_id(t) \in Nat /\ is_txn_id(txn_id(t)) /\ \A u \in Txns : txn_id(u) = txn_id(t) => u = t
  BY ConstantFacts DEF txn_id, is_txn_id, Txns

\* What a placed edge has in the store.
LEMMA CellTyped ==
  ASSUME NEW bs, NEW m, NEW last, Exact(bs, m, last), VersionsIn(bs), NEW e \in Eids, m[e] # NoLoc
  PROVE  /\ m[e].b \in DOMAIN bs /\ m[e].o \in 1 .. bs[m[e].b].n /\ m[e].o \in Slots /\ Holds(bs, m[e], e)
         /\ Cell(bs, m, e).slot \in Slot /\ Cell(bs, m, e).vs \in Seq(Versions) /\ Cell(bs, m, e).min \in Nat
         /\ Cell(bs, m, e).slot.eid = e /\ e \in 1 .. last /\ m[e] = Place(m[e].b, m[e].o)
         /\ Cell(bs, m, e).slot = bs[m[e].b].e[m[e].o] /\ Cell(bs, m, e).vs = bs[m[e].b].p[m[e].o]
         /\ Cell(bs, m, e).min = bs[m[e].b].min /\ Cell(bs, m, e).dead = bs[m[e].b].dead
<1> DEFINE i == m[e].b
           o == m[e].o
<1>1. Holds(bs, m[e], e) /\ i \in DOMAIN bs /\ o \in 1 .. bs[i].n /\ bs[i].e[o].eid = e
  BY DEF Exact, Mapped, Holds
<1>2. BlockOK(bs[i], i)
  BY <1>1 DEF Exact, BlocksOK
<1>3. o \in Slots
  BY <1>1, <1>2, ConstantFacts DEF BlockOK, Slots
<1>4. bs[i].e[o] \in Slot /\ bs[i].p[o] \in Seq(Versions) /\ bs[i].min \in Nat
  BY <1>1, <1>2, <1>3 DEF BlockOK, VersionsIn
<1>5. e \in 1 .. last /\ m[e] = Place(i, o)
  BY <1>1 DEF Exact, Entered
<1> QED BY <1>1, <1>3, <1>4, <1>5 DEF Cell

\* A commit is no transaction id.
LEMMA ClockBound ==
  ASSUME KeepOff, OInv, clock <= Cardinality(Ended)
  PROVE  /\ clock < TXN_ID_START
         /\ \A t \in Txns : t \notin Ended => clock + 1 < TXN_ID_START
<1>1. IsFiniteSet(Txns) /\ Cardinality(Txns) = MaxTxn /\ MaxTxn \in Nat /\ clock \in Nat
  BY ConstantFacts, FS_Interval DEF Txns, OInv
<1>2. Ended \subseteq Txns
  BY DEF Ended
<1>3. Cardinality(Ended) <= MaxTxn /\ Cardinality(Ended) \in Nat
  BY <1>1, <1>2, FS_Subset, FS_CardinalityType
<1>4. MaxTxn < TXN_ID_START /\ TXN_ID_START \in Nat
  BY ConstantFacts DEF KeepOff
<1>5. ASSUME NEW t \in Txns, t \notin Ended PROVE clock + 1 < TXN_ID_START
  <2>1. Ended \subseteq Txns \ {t}
    BY <1>2, <1>5
  <2>2. IsFiniteSet(Txns \ {t}) /\ Cardinality(Txns \ {t}) = MaxTxn - 1
    BY <1>1, FS_RemoveElement
  <2>3. Cardinality(Ended) <= MaxTxn - 1
    BY <2>1, <2>2, FS_Subset
  <2> QED BY <1>1, <1>3, <1>4, <2>3
<1> QED BY <1>1, <1>3, <1>4, <1>5

\* A read of an edge where it is.
LEMMA ReadInPlace ==
  ASSUME KeepOff, OInv, SInv, Running, NEW t \in Txns, NEW e \in 1 .. eids, log[e] # <<>>, ~InDeadBlock(e)
  PROVE  LET r == get_edge_at_ts(t, e, loc[e]) IN
         \/ r.found /\ Sees(t, log[e][1].ts) /\ r.val = Expected(t, e) /\ get_edge(t, e, loc[e]) = r
         \/ ~r.found /\ \/ ~Sees(t, Last(e).ts) \/ Last(e).val = NONE
                        \/ Last(e).ts \in {0, txn_id(t)} /\ TooNew(blocks[loc[e].b], t)
<1> DEFINE x == Cell(blocks, loc, e)
           g == log[e]
           b == blocks[loc[e].b]
<1>1. e \in Eids /\ Exact(blocks, loc, eids)
  BY ConstantFacts DEF OInv, Eids
<1>2. /\ VersionsIn(blocks) /\ log \in [Eids -> Seq(Versions)] /\ EdgeInv(e) /\ TxInv(t)
      /\ clock <= Cardinality(Ended) /\ \A u \in Txns : OwnerInv(u, e)
  BY <1>1 DEF SInv, Running
<1>3. loc[e] # NoLoc
  BY <1>2 DEF EdgeInv
<1>4. /\ Holds(blocks, loc[e], e) /\ x.slot \in Slot /\ x.vs \in Seq(Versions) /\ x.min \in Nat
      /\ x.slot = b.e[loc[e].o] /\ x.vs = b.p[loc[e].o] /\ x.min = b.min /\ x.dead = b.dead
  BY <1>1, <1>2, <1>3, CellTyped
<1>5. ~b.dead
  BY <1>3 DEF InDeadBlock
<1>6. /\ g \in Seq(Versions) /\ g # <<>> /\ Last(e) = g[Len(g)] /\ Shows(x, g[Len(g)])
      /\ IF is_txn_id(x.slot.ts) THEN \E u \in Txns : x.slot.ts = txn_id(u) /\ Written(u, e) # {}
         ELSE Settled(x, g, clock)
  BY <1>1, <1>2, <1>3 DEF EdgeInv, Last
<1>7. Len(g) \in DOMAIN g /\ 1 \in DOMAIN g /\ \A i \in DOMAIN g : g[i].ts \in Nat
  <2>1. Len(g) \in Nat /\ DOMAIN g = 1 .. Len(g) /\ Len(g) # 0 /\ \A i \in DOMAIN g : g[i] \in Versions
    BY <1>6
  <2> QED BY <2>1 DEF Versions
<1> HIDE DEF x, g, b
<1>8. get_edge_at_ts(t, e, loc[e]) = IF ~TooNew(b, t) /\ ~IsTombstone(x.slot) /\ Sees(t, x.slot.ts)
                             THEN Found(x.slot.dst, prop_value_visible_at(x.vs, t)) ELSE None
  BY <1>4, <1>5 DEF get_edge_at_ts, b
<1>9. clock < TXN_ID_START /\ clock \in Nat /\ tx[t].start <= clock /\ tx[t].start \in Nat
  <2>1. clock < TXN_ID_START
    BY <1>2, ClockBound
  <2>2. tx[t].start \in Nat
    <3>1. tx[t] \in TxRecords
      BY DEF OInv
    <3> QED BY <3>1 DEF TxRecords
  <2> QED BY <1>2, <2>1, <2>2 DEF OInv, TxInv
<1>10. CASE ~TooNew(b, t) /\ ~IsTombstone(x.slot) /\ Sees(t, x.slot.ts)
  <2>1. get_edge_at_ts(t, e, loc[e]) = Found(x.slot.dst, prop_value_visible_at(x.vs, t))
    BY <1>8, <1>10
  <2>2. get_edge(t, e, loc[e]) = Found(x.slot.dst, prop_value_visible_at(x.vs, t))
    BY <1>4, <1>5, <1>10 DEF get_edge, b
  <2>3. x.vs # <<>> /\ x.vs[Len(x.vs)] = g[Len(g)] /\ x.slot.ts = g[Len(g)].ts
    BY <1>6, <1>10 DEF Shows, EndsIn
  <2>4. prop_value_visible_at(x.vs, t) = g[Len(g)].val
    <3> DEFINE I == {i \in DOMAIN x.vs : Sees(t, x.vs[i].ts)}
    <3>1. Len(x.vs) \in DOMAIN x.vs
      BY <1>4, <2>3
    <3>2. I \subseteq DOMAIN x.vs /\ Len(x.vs) \in I
      BY <1>10, <2>3, <3>1
    <3> HIDE DEF I
    <3>3. LastValue(x.vs, I) = x.vs[Len(x.vs)].val
      BY <1>4, <2>3, <3>2, LastCounts
    <3> QED BY <2>3, <3>3 DEF prop_value_visible_at, I
  <2>5. Expected(t, e) = g[Len(g)].val
    <3> DEFINE I == {i \in DOMAIN g : Sees(t, g[i].ts)}
    <3>1. I \subseteq DOMAIN g /\ Len(g) \in I
      BY <1>7, <1>10, <2>3
    <3> HIDE DEF I
    <3>2. LastValue(g, I) = g[Len(g)].val
      BY <1>6, <3>1, LastCounts
    <3> QED BY <3>2 DEF Expected, g, I
  <2>6. Sees(t, g[1].ts)
    <3>1. CASE ~is_txn_id(x.slot.ts)
      <4>1. g[1].ts <= x.slot.ts /\ x.slot.ts <= tx[t].start /\ x.slot.ts \in Nat
        BY <1>4, <1>6, <1>7, <1>10, <3>1 DEF Settled, Sees, Slot
      <4> QED BY <1>7, <1>9, <4>1, ConstantFacts DEF Sees, is_txn_id
    <3>2. CASE is_txn_id(x.slot.ts)
      <4>1. x.slot.ts = txn_id(t)
        BY <1>10, <3>2 DEF Sees
      <4>2. Written(t, e) # {}
        BY <1>6, <3>2, <4>1, TxnIds
      <4>3. \E c \in Nat : c <= tx[t].start /\ (g[1].ts = txn_id(t) \/ g[1].ts <= c)
        <5>1. OwnerInv(t, e)
          BY <1>2
        <5>2. PICK i \in Written(t, e) :
                 IF tx[t].undo[i].op = "create" THEN \A n \in DOMAIN g : g[n].ts = txn_id(t)
                 ELSE Underneath(t, x, g, tx[t].undo[i].ts, tx[t].start, Wrote(t, e, "set"))
          BY <4>2, <5>1 DEF OwnerInv, x, g
        <5>3. tx[t].undo[i].ts \in Nat
          <6>1. tx[t] \in TxRecords
            BY DEF OInv
          <6>2. tx[t].undo \in Seq(UndoRecords)
            BY <6>1 DEF TxRecords
          <6>3. tx[t].undo[i] \in UndoRecords
            BY <6>2 DEF Written
          <6> QED BY <6>3 DEF UndoRecords
        <5>4. CASE tx[t].undo[i].op = "create"
          <6>1. g[1].ts = txn_id(t) /\ 0 <= tx[t].start /\ 0 \in Nat
            BY <1>7, <1>9, <5>2, <5>4
          <6> QED BY <6>1
        <5>5. CASE tx[t].undo[i].op # "create"
          <6>1. /\ tx[t].undo[i].ts <= tx[t].start
                /\ g[1].ts = txn_id(t) \/ g[1].ts <= tx[t].undo[i].ts
            BY <1>7, <5>2, <5>5 DEF Underneath
          <6> QED BY <5>3, <6>1
        <5> QED BY <5>4, <5>5
      <4>4. is_txn_id(txn_id(t)) /\ txn_id(t) \in Nat
        BY TxnIds
      <4>5. g[1].ts = txn_id(t) \/ g[1].ts <= tx[t].start
        BY <1>7, <1>9, <4>3
      <4> QED BY <1>7, <1>9, <4>4, <4>5, ConstantFacts DEF Sees, is_txn_id
    <3> QED BY <3>1, <3>2
  <2> QED BY <2>1, <2>2, <2>4, <2>5, <2>6 DEF Found, g
<1>11. CASE ~(~TooNew(b, t) /\ ~IsTombstone(x.slot) /\ Sees(t, x.slot.ts))
  <2>1. get_edge_at_ts(t, e, loc[e]) = None
    BY <1>8, <1>11
  <2>2. ~get_edge_at_ts(t, e, loc[e]).found
    BY <2>1 DEF None
  <2>3. IsTombstone(x.slot) => Last(e).val = NONE
    BY <1>6 DEF Shows
  <2>4. x.slot.ts = Last(e).ts
    BY <1>6 DEF Shows
  <2>5. CASE TooNew(b, t) /\ Sees(t, x.slot.ts)
    <3>1. CASE is_txn_id(x.slot.ts)
      BY <2>2, <2>4, <2>5, <3>1 DEF Sees, b
    <3>2. CASE ~is_txn_id(x.slot.ts)
      <4>1. x.slot.ts \in Nat /\ (x.slot.ts > 0 => ~is_txn_id(x.min) /\ x.min <= x.slot.ts)
        BY <1>4, <1>6, <3>2 DEF Settled, Unhidden, Slot
      <4>2. x.slot.ts <= tx[t].start /\ tx[t].start < x.min
        BY <1>4, <2>5, <3>2 DEF Sees, TooNew
      <4>3. x.slot.ts = 0
        BY <1>4, <1>9, <4>1, <4>2
      <4> QED BY <2>2, <2>4, <2>5, <4>3 DEF b
    <3> QED BY <3>1, <3>2
  <2> QED BY <1>11, <2>2, <2>3, <2>4, <2>5
<1> QED BY <1>10, <1>11

-----------------------------------------------------------------------------
(* Slots move, cells do not.                                                 *)

\* Edge e has the same cell in another store, but for min_ts.
SameCell(bs, m, cs, m2, e) ==
    /\ m2[e] # NoLoc
    /\ Cell(cs, m2, e).slot = Cell(bs, m, e).slot /\ Cell(cs, m2, e).vs = Cell(bs, m, e).vs
    /\ Cell(cs, m2, e).dead = Cell(bs, m, e).dead
MinAfter(bs, m, cs, m2, e, i) ==
    Cell(cs, m2, e).min = IF m[e].b = i THEN cs[i].min ELSE Cell(bs, m, e).min

\* Block c has the slots and versions of block b, but for those of edge x, and
\* no others but those of edge y.
Carries(b, c, x, y) ==
    /\ \A o \in 1 .. b.n : b.e[o].eid # x =>
          c.dead = b.dead /\ \E q \in 1 .. c.n : c.e[q] = b.e[o] /\ c.p[q] = b.p[o]
    /\ \A q \in 1 .. c.n : c.e[q].eid = y \/ \E o \in 1 .. b.n : b.e[o].eid = c.e[q].eid

\* A call puts block i in order again: edge x goes or changes, edge y comes.
Moves(bs, m, cs, m2, i, x, y) ==
    /\ (\E last : Exact(bs, m, last)) /\ (\E last : Exact(cs, m2, last))
    /\ i \in DOMAIN bs /\ OnlyBlock(bs, cs, i) /\ Carries(bs[i], cs[i], x, y)

LEMMA CellsKept ==
  ASSUME NEW bs, NEW m, NEW cs, NEW m2, NEW i, NEW x, NEW y, Moves(bs, m, cs, m2, i, x, y)
  PROVE  \A e \in Eids :
            /\ (e # x /\ m[e] # NoLoc) => SameCell(bs, m, cs, m2, e) /\ MinAfter(bs, m, cs, m2, e, i)
            /\ (e # y /\ m2[e] # NoLoc) => m[e] # NoLoc
<1> TAKE e \in Eids
<1>a. PICK last : Exact(bs, m, last)
  BY DEF Moves
<1>b. PICK new : Exact(cs, m2, new)
  BY DEF Moves
<1>c. i \in DOMAIN bs /\ OnlyBlock(bs, cs, i) /\ Carries(bs[i], cs[i], x, y)
  BY DEF Moves
<1>0. /\ DOMAIN cs = DOMAIN bs /\ \A j \in DOMAIN bs : j # i => cs[j] = bs[j]
      /\ \A j \in DOMAIN bs : j \in Nat /\ j # 0
  <2>1. DOMAIN bs = 1 .. Len(bs) /\ Len(bs) \in Nat
    BY <1>a, BlocksShape DEF Exact
  <2> QED BY <1>c, <2>1 DEF OnlyBlock
<1>1. \A j \in DOMAIN bs : \A o : Place(j, o) # NoLoc /\ Place(j, o).b = j /\ Place(j, o).o = o
  BY <1>0 DEF Place, NoLoc, NONE
<1>2. ASSUME e # x, m[e] # NoLoc PROVE SameCell(bs, m, cs, m2, e) /\ MinAfter(bs, m, cs, m2, e, i)
  <2> DEFINE j == m[e].b
             o == m[e].o
  <2>1. j \in DOMAIN bs /\ o \in 1 .. bs[j].n /\ bs[j].e[o].eid = e
    BY <1>2, <1>a DEF Exact, Mapped, Holds
  <2> HIDE DEF j, o
  <2>2. PICK q \in 1 .. cs[j].n : cs[j].e[q] = bs[j].e[o] /\ cs[j].p[q] = bs[j].p[o] /\ cs[j].dead = bs[j].dead
    <3>1. CASE j = i
      BY <1>2, <1>c, <2>1, <3>1 DEF Carries
    <3>2. CASE j # i
      BY <1>0, <2>1, <3>2
    <3> QED BY <3>1, <3>2
  <2>3. m2[e] = Place(j, q)
    <3>1. m2[cs[j].e[q].eid] = Place(j, q)
      BY <1>0, <1>b, <2>1, <2>2 DEF Exact, Entered
    <3> QED BY <2>1, <2>2, <3>1
  <2>4. m2[e] # NoLoc /\ m2[e].b = j /\ m2[e].o = q
    BY <1>1, <2>1, <2>3
  <2>5. SameCell(bs, m, cs, m2, e)
    BY <2>2, <2>4 DEF SameCell, Cell, j, o
  <2>6. Cell(cs, m2, e).min = cs[j].min /\ Cell(bs, m, e).min = bs[j].min
    BY <2>4 DEF Cell, j
  <2>7. j # i => cs[j] = bs[j]
    BY <1>0, <2>1
  <2> QED BY <2>5, <2>6, <2>7 DEF MinAfter, j
<1>3. ASSUME e # y, m2[e] # NoLoc PROVE m[e] # NoLoc
  <2> DEFINE j == m2[e].b
             q == m2[e].o
  <2>1. j \in DOMAIN bs /\ q \in 1 .. cs[j].n /\ cs[j].e[q].eid = e
    BY <1>0, <1>3, <1>b DEF Exact, Mapped, Holds
  <2> HIDE DEF j, q
  <2>2. \E o \in 1 .. bs[j].n : bs[j].e[o].eid = e
    <3>1. CASE j = i
      BY <1>3, <1>c, <2>1, <3>1 DEF Carries
    <3>2. CASE j # i
      BY <1>0, <2>1, <3>2
    <3> QED BY <3>1, <3>2
  <2>3. PICK o \in 1 .. bs[j].n : bs[j].e[o].eid = e
    BY <2>2
  <2>4. m[bs[j].e[o].eid] = Place(j, o)
    BY <1>a, <2>1, <2>3 DEF Exact, Entered
  <2> QED BY <1>1, <2>1, <2>3, <2>4
<1> QED BY <1>2, <1>3

\* Block b, which is block i, has room for a slot at pos.
HasRoom(b, i, pos, ver) ==
    /\ BlockOK(b, i) /\ b.n < BLOCK_CAPACITY /\ pos \in 1 .. b.n + 1
    /\ b.p \in [Slots -> Seq(Versions)] /\ ver \in Versions
\* Slot pos of block b, which is block i, holds an edge that no other slot holds.
Occupied(b, i, pos) ==
    /\ BlockOK(b, i) /\ pos \in 1 .. b.n /\ b.p \in [Slots -> Seq(Versions)]
    /\ \A q \in 1 .. b.n : b.e[q].eid = b.e[pos].eid => q = pos
GrownBy(b, c, pos, slot, ver) ==
    /\ Carries(b, c, 0, slot.eid) /\ c.dead = b.dead
    /\ c.e[pos] = slot /\ c.p[pos] = Append(b.p[pos], ver) /\ pos \in 1 .. c.n
    /\ c.min = (IF is_txn_id(ver.ts) THEN Min({b.min, ver.ts}) ELSE b.min)
    /\ c.p \in [Slots -> Seq(Versions)]

ShrunkAt(b, c, pos) ==
    Carries(b, c, b.e[pos].eid, 0) /\ c.dead = b.dead /\ c.min = b.min /\ c.p \in [Slots -> Seq(Versions)]
ChangedAt(b, c, pos, slot, vs, min) ==
    /\ Carries(b, c, slot.eid, 0) /\ c.dead = b.dead /\ c.min = min /\ c.p \in [Slots -> Seq(Versions)]
    /\ c.e[pos] = slot /\ c.p[pos] = vs

LEMMA InsertedCarries ==
  ASSUME NEW b, NEW i, NEW pos, NEW ver, HasRoom(b, i, pos, ver), NEW slot
  PROVE  GrownBy(b, Inserted(b, pos, slot, ver), pos, slot, ver)
<1> DEFINE es == [j \in Slots |-> IF j = pos THEN slot ELSE IF j > pos /\ j <= b.n + 1 THEN b.e[j - 1] ELSE b.e[j]]
           ps == [j \in Slots |-> IF j = pos THEN Append(b.p[j], ver)
                                  ELSE IF j > pos /\ j <= b.n + 1 THEN b.p[j - 1] ELSE b.p[j]]
           mn == IF is_txn_id(ver.ts) THEN Min({b.min, ver.ts}) ELSE b.min
           c == Inserted(b, pos, slot, ver)
<1>0. /\ BlockOK(b, i) /\ b.n < BLOCK_CAPACITY /\ pos \in 1 .. b.n + 1
      /\ b.p \in [Slots -> Seq(Versions)] /\ ver \in Versions
  BY DEF HasRoom
<1>1. DOMAIN b = BlockFields /\ b.n \in Nat /\ b.n + 1 <= BLOCK_CAPACITY
  BY <1>0, ConstantFacts DEF BlockOK
<1>2. c = [b EXCEPT !.n = @ + 1, !.min = mn, !.e = es, !.p = ps]
  BY DEF Inserted, c, es, ps, mn
<1> HIDE DEF es, ps, mn, c
<1>3. c.n = b.n + 1 /\ c.e = es /\ c.p = ps /\ c.dead = b.dead /\ c.min = mn
  BY <1>1, <1>2 DEF BlockFields
<1>4. \A j \in Slots : /\ es[j] = IF j = pos THEN slot ELSE IF j > pos /\ j <= b.n + 1 THEN b.e[j - 1] ELSE b.e[j]
                       /\ ps[j] = IF j = pos THEN Append(b.p[j], ver)
                                  ELSE IF j > pos /\ j <= b.n + 1 THEN b.p[j - 1] ELSE b.p[j]
  BY DEF es, ps
<1>5. pos \in Slots /\ \A o \in 1 .. b.n + 1 : o \in Slots
  BY <1>0, <1>1, ConstantFacts DEF Slots
<1>6. ASSUME NEW o \in 1 .. b.n PROVE \E q \in 1 .. c.n : c.e[q] = b.e[o] /\ c.p[q] = b.p[o]
  <2>1. CASE o < pos
    <3>1. o \in 1 .. b.n + 1 /\ o # pos /\ ~(o > pos)
      BY <1>0, <1>1, <2>1
    <3> QED BY <1>3, <1>4, <1>5, <3>1
  <2>2. CASE ~(o < pos)
    <3>1. o + 1 \in 1 .. b.n + 1 /\ o + 1 # pos /\ o + 1 > pos /\ o + 1 <= b.n + 1 /\ (o + 1) - 1 = o
      BY <1>0, <1>1, <2>2
    <3>2. o + 1 \in Slots
      BY <1>5, <3>1
    <3>3. es[o + 1] = b.e[o] /\ ps[o + 1] = b.p[o]
      BY <1>4, <3>1, <3>2
    <3> QED BY <1>3, <3>1, <3>3
  <2> QED BY <2>1, <2>2
<1>7. ASSUME NEW q \in 1 .. c.n PROVE c.e[q].eid = slot.eid \/ \E o \in 1 .. b.n : b.e[o].eid = c.e[q].eid
  <2>1. q \in Slots /\ q \in 1 .. b.n + 1
    BY <1>3, <1>5
  <2>2. CASE q = pos
    BY <1>3, <1>4, <2>1, <2>2
  <2>3. CASE q < pos
    <3>1. q \in 1 .. b.n /\ q # pos /\ ~(q > pos)
      BY <1>0, <1>1, <2>1, <2>3
    <3> QED BY <1>3, <1>4, <2>1, <3>1
  <2>4. CASE q > pos
    <3>1. q - 1 \in 1 .. b.n /\ q # pos /\ q <= b.n + 1
      BY <1>0, <1>1, <2>1, <2>4
    <3> QED BY <1>3, <1>4, <2>1, <2>4, <3>1
  <2> QED BY <1>0, <1>1, <2>1, <2>2, <2>3, <2>4
<1>8. ps \in [Slots -> Seq(Versions)]
  <2>1. ps = [j \in Slots |-> ps[j]]
    BY DEF ps
  <2>2. \A j \in Slots : ps[j] \in Seq(Versions)
    <3> TAKE j \in Slots
    <3>1. j > pos => j - 1 \in Slots
      BY <1>0, <1>1, ConstantFacts DEF Slots
    <3>2. b.p[j] \in Seq(Versions) /\ (j > pos => b.p[j - 1] \in Seq(Versions))
      BY <1>0, <3>1
    <3>3. Append(b.p[j], ver) \in Seq(Versions)
      BY <1>0, <3>2
    <3> QED BY <1>4, <3>2, <3>3
  <2> QED BY <2>1, <2>2
<1>9. GrownBy(b, c, pos, slot, ver)
  BY <1>0, <1>3, <1>4, <1>5, <1>6, <1>7, <1>8 DEF Carries, mn, GrownBy
<1> QED BY <1>9 DEF c

LEMMA RemovedCarries ==
  ASSUME NEW b, NEW i, NEW pos, Occupied(b, i, pos)
  PROVE  ShrunkAt(b, Removed(b, pos), pos)
<1> DEFINE es == [j \in Slots |-> IF j = b.n THEN NullEdge ELSE IF j >= pos /\ j < b.n THEN b.e[j + 1] ELSE b.e[j]]
           ps == [j \in Slots |-> IF j = b.n THEN <<>> ELSE IF j >= pos /\ j < b.n THEN b.p[j + 1] ELSE b.p[j]]
           c == Removed(b, pos)
<1>0. BlockOK(b, i) /\ pos \in 1 .. b.n /\ b.p \in [Slots -> Seq(Versions)]
  BY DEF Occupied
<1>1. DOMAIN b = BlockFields /\ b.n \in Nat /\ b.n <= BLOCK_CAPACITY
  BY <1>0, ConstantFacts DEF BlockOK
<1>2. c = [b EXCEPT !.n = @ - 1, !.e = es, !.p = ps]
  BY DEF Removed, c, es, ps
<1> HIDE DEF es, ps, c
<1>3. c.n = b.n - 1 /\ c.e = es /\ c.p = ps /\ c.dead = b.dead /\ c.min = b.min
  BY <1>1, <1>2 DEF BlockFields
<1>4. \A j \in Slots : /\ es[j] = IF j = b.n THEN NullEdge ELSE IF j >= pos /\ j < b.n THEN b.e[j + 1] ELSE b.e[j]
                       /\ ps[j] = IF j = b.n THEN <<>> ELSE IF j >= pos /\ j < b.n THEN b.p[j + 1] ELSE b.p[j]
  BY DEF es, ps
<1>5. \A o \in 1 .. b.n : o \in Slots
  BY <1>1, ConstantFacts DEF Slots
<1>6. ASSUME NEW o \in 1 .. b.n, b.e[o].eid # b.e[pos].eid
      PROVE  \E q \in 1 .. c.n : c.e[q] = b.e[o] /\ c.p[q] = b.p[o]
  <2>0. o # pos
    BY <1>6
  <2>1. CASE o < pos
    <3>1. o \in 1 .. b.n - 1 /\ o # b.n /\ ~(o >= pos) /\ o \in Slots
      BY <1>0, <1>1, <1>5, <2>1
    <3> QED BY <1>3, <1>4, <3>1
  <2>2. CASE ~(o < pos)
    <3>1. /\ o - 1 \in 1 .. b.n - 1 /\ o - 1 # b.n /\ o - 1 >= pos /\ o - 1 < b.n /\ (o - 1) + 1 = o
          /\ o - 1 \in 1 .. b.n
      BY <1>0, <1>1, <2>0, <2>2
    <3>2. o - 1 \in Slots
      BY <1>5, <3>1
    <3>3. es[o - 1] = b.e[o] /\ ps[o - 1] = b.p[o]
      BY <1>4, <3>1, <3>2
    <3> QED BY <1>3, <3>1, <3>3
  <2> QED BY <2>1, <2>2
<1>7. ASSUME NEW q \in 1 .. c.n PROVE \E o \in 1 .. b.n : b.e[o].eid = c.e[q].eid
  <2>0. q \in 1 .. b.n - 1
    BY <1>3
  <2>1. q \in Slots /\ q \in 1 .. b.n /\ q # b.n /\ q < b.n /\ q + 1 \in 1 .. b.n
    BY <1>0, <1>1, <1>5, <2>0
  <2> QED BY <1>3, <1>4, <2>1
<1>8. ps \in [Slots -> Seq(Versions)]
  <2>1. ps = [j \in Slots |-> ps[j]]
    BY DEF ps
  <2>2. \A j \in Slots : ps[j] \in Seq(Versions)
    <3> TAKE j \in Slots
    <3>1. j < b.n => j + 1 \in Slots
      BY <1>1, ConstantFacts DEF Slots
    <3>2. b.p[j] \in Seq(Versions) /\ (j < b.n => b.p[j + 1] \in Seq(Versions))
      BY <1>0, <3>1
    <3>3. <<>> \in Seq(Versions)
      OBVIOUS
    <3> QED BY <1>4, <3>2, <3>3
  <2> QED BY <2>1, <2>2
<1>9. ShrunkAt(b, c, pos)
  BY <1>3, <1>6, <1>7, <1>8 DEF Carries, ShrunkAt
<1> QED BY <1>9 DEF c

LEMMA RewrittenCarries ==
  ASSUME NEW b, NEW i, NEW o, Occupied(b, i, o), NEW slot, slot.eid = b.e[o].eid, NEW vs \in Seq(Versions), NEW min
  PROVE  ChangedAt(b, Rewritten(b, o, slot, vs, min), o, slot, vs, min)
<1> DEFINE es == [b.e EXCEPT ![o] = slot]
           ps == [b.p EXCEPT ![o] = vs]
           c == Rewritten(b, o, slot, vs, min)
<1>0. /\ BlockOK(b, i) /\ o \in 1 .. b.n /\ b.p \in [Slots -> Seq(Versions)]
      /\ \A q \in 1 .. b.n : b.e[q].eid = b.e[o].eid => q = o
  BY DEF Occupied
<1>1. b.e \in [Slots -> Slot] /\ b.n \in Nat /\ b.n <= BLOCK_CAPACITY /\ DOMAIN b = BlockFields
  BY <1>0, ConstantFacts DEF BlockOK
<1>2. \A q \in 1 .. b.n : q \in Slots
  BY <1>1, ConstantFacts DEF Slots
<1>3. es[o] = slot /\ \A q \in Slots : q # o => es[q] = b.e[q]
  BY <1>0, <1>1, <1>2
<1>4. ps \in [Slots -> Seq(Versions)] /\ ps[o] = vs /\ \A q \in Slots : q # o => ps[q] = b.p[q]
  BY <1>0, <1>2
<1>5. c = [b EXCEPT !.e = es, !.p = ps, !.min = min]
  BY DEF Rewritten, c, es, ps
<1> HIDE DEF es, ps, c
<1>6. c.n = b.n /\ c.dead = b.dead /\ c.e = es /\ c.p = ps /\ c.min = min
  BY <1>1, <1>5 DEF BlockFields
<1>7. ASSUME NEW q \in 1 .. b.n, b.e[q].eid # slot.eid PROVE c.e[q] = b.e[q] /\ c.p[q] = b.p[q]
  BY <1>0, <1>2, <1>3, <1>4, <1>6, <1>7
<1>8. ASSUME NEW q \in 1 .. c.n PROVE \E r \in 1 .. b.n : b.e[r].eid = c.e[q].eid
  BY <1>0, <1>2, <1>3, <1>6
<1>9. ChangedAt(b, c, o, slot, vs, min)
  BY <1>3, <1>4, <1>6, <1>7, <1>8 DEF Carries, ChangedAt
<1> QED BY <1>9 DEF c

-----------------------------------------------------------------------------
(* What a step leaves alone.                                                 *)

\* A min_ts that hides no more than before.
Lower(a, b) == \A c \in Nat : Unhidden(a, c) => Unhidden(b, c)
\* A step does not touch edge e, but may move it and lower its block's min_ts.
Untouched(e) ==
    /\ log'[e] = log[e] /\ (loc'[e] # NoLoc => loc[e] # NoLoc)
    /\ loc[e] # NoLoc => /\ SameCell(blocks, loc, blocks', loc', e)
                         /\ Lower(Cell(blocks, loc, e).min, Cell(blocks', loc', e).min)
\* A step does not touch what t knows of edge e.
SameWrites(t, e) ==
    /\ Written(t, e)' = Written(t, e) /\ \A i \in Written(t, e) : tx'[t].undo[i] = tx[t].undo[i]
    /\ tx'[t].snap[e] = tx[t].snap[e] /\ tx'[t].start = tx[t].start
StillWritten(e) == \A t \in Txns : Written(t, e) # {} => Written(t, e)' # {}

LEMMA LowerFacts ==
  ASSUME NEW a \in Nat
  PROVE  Lower(a, a) /\ (\A d \in Nat : is_txn_id(d) => Lower(a, Min({a, d})))
         /\ \A d \in Nat : Lower(a, LowerMin(a, d)) /\ (d < TXN_ID_START => Unhidden(LowerMin(a, d), d))
<1>1. Lower(a, a)
  BY DEF Lower
<1>2. ASSUME NEW d \in Nat PROVE Min({a, d}) = IF a <= d THEN a ELSE d
  BY MinOfTwo
<1>3. ASSUME NEW d \in Nat, is_txn_id(d) PROVE Lower(a, Min({a, d}))
  BY <1>2, <1>3, ConstantFacts DEF Lower, Unhidden, is_txn_id
<1>4. ASSUME NEW d \in Nat PROVE Lower(a, LowerMin(a, d))
  BY <1>2, ConstantFacts DEF Lower, Unhidden, is_txn_id, LowerMin
<1>5. ASSUME NEW d \in Nat, d < TXN_ID_START PROVE Unhidden(LowerMin(a, d), d)
  BY <1>2, <1>5, ConstantFacts DEF Unhidden, is_txn_id, LowerMin
<1> QED BY <1>1, <1>3, <1>4, <1>5

LEMMA EdgeFrom ==
  ASSUME NEW e, loc'[e] # NoLoc, NEW y, y = Cell(blocks', loc', e), NEW g, g = log'[e],
         g # <<>>, Shows(y, g[Len(g)]),
         IF is_txn_id(y.slot.ts) THEN \E t \in Txns : y.slot.ts = txn_id(t) /\ Written(t, e)' # {}
         ELSE Settled(y, g, clock')
  PROVE  EdgeInv(e)'
  BY DEF EdgeInv

LEMMA EdgeUntouched ==
  ASSUME OInv, VersionsIn(blocks), NEW e \in Eids, EdgeInv(e), Untouched(e), StillWritten(e),
         clock' \in Nat, clock <= clock'
  PROVE  EdgeInv(e)'
<1> DEFINE x == Cell(blocks, loc, e)
           y == Cell(blocks', loc', e)
           g == log[e]
<1>1. CASE loc[e] = NoLoc
  BY <1>1 DEF EdgeInv, Untouched
<1>2. CASE loc[e] # NoLoc
  <2>1. /\ loc'[e] # NoLoc /\ log'[e] = g /\ y.slot = x.slot /\ y.vs = x.vs /\ Lower(x.min, y.min)
    BY <1>2 DEF Untouched, SameCell
  <2>2. x.slot.ts \in Nat
    <3>1. x.slot \in Slot
      BY <1>2, CellTyped DEF OInv
    <3> QED BY <3>1 DEF Slot
  <2>3. /\ g # <<>> /\ Shows(x, g[Len(g)])
        /\ IF is_txn_id(x.slot.ts) THEN \E t \in Txns : x.slot.ts = txn_id(t) /\ Written(t, e) # {}
           ELSE Settled(x, g, clock)
    BY <1>2 DEF EdgeInv
  <2>4. y = Cell(blocks', loc', e)
    OBVIOUS
  <2> HIDE DEF x, y, g
  <2>5. Shows(y, g[Len(g)])
    BY <2>1, <2>3 DEF Shows
  <2>6. CASE is_txn_id(x.slot.ts)
    <3>1. \E t \in Txns : y.slot.ts = txn_id(t) /\ Written(t, e)' # {}
      BY <2>1, <2>3, <2>6 DEF StillWritten
    <3> QED BY <2>1, <2>3, <2>4, <2>5, <2>6, <3>1, EdgeFrom
  <2>7. CASE ~is_txn_id(x.slot.ts)
    <3>1. x.slot.ts <= clock /\ Unhidden(x.min, x.slot.ts) /\ \A i \in DOMAIN g : g[i].ts <= x.slot.ts
      BY <2>3, <2>7 DEF Settled
    <3>2. Unhidden(y.min, x.slot.ts)
      BY <2>1, <2>2, <3>1 DEF Lower
    <3>3. x.slot.ts <= clock'
      BY <2>2, <3>1 DEF OInv
    <3>5. Settled(y, log'[e], clock')
      BY <2>1, <3>1, <3>2, <3>3 DEF Settled
    <3> QED BY <2>1, <2>3, <2>4, <2>5, <2>7, <3>5, EdgeFrom
  <2> QED BY <2>6, <2>7
<1> QED BY <1>1, <1>2

LEMMA OwnerUntouched ==
  ASSUME OInv, NEW t \in Txns, NEW e \in Eids, OwnerInv(t, e), Untouched(e), SameWrites(t, e)
  PROVE  OwnerInv(t, e)'
<1> DEFINE x == Cell(blocks, loc, e)
           y == Cell(blocks', loc', e)
           g == log[e]
           u == tx[t].undo
           u2 == tx'[t].undo
<1> SUFFICES ASSUME Written(t, e) # {} PROVE OwnerInv(t, e)'
  BY DEF OwnerInv, SameWrites
<1>1. /\ loc[e] # NoLoc /\ x.slot.ts = txn_id(t)
      /\ IsTombstone(x.slot) <=> Wrote(t, e, "del")
      /\ Wrote(t, e, "del") => tx[t].snap[e] # TOMBSTONE_DST_ID
  BY DEF OwnerInv
<1>2. PICK i \in Written(t, e) :
        /\ FirstWrite(t, e, i)
        /\ IF u[i].op = "create" THEN \A n \in DOMAIN g : g[n].ts = txn_id(t)
           ELSE Underneath(t, x, g, u[i].ts, tx[t].start, Wrote(t, e, "set"))
  BY DEF OwnerInv
<1>3. /\ loc'[e] # NoLoc /\ log'[e] = g /\ y.slot = x.slot /\ y.vs = x.vs /\ Lower(x.min, y.min)
  BY <1>1 DEF Untouched, SameCell
<1>4. /\ Written(t, e)' = Written(t, e) /\ \A j \in Written(t, e) : u2[j] = u[j]
      /\ tx'[t].snap[e] = tx[t].snap[e] /\ tx'[t].start = tx[t].start
  BY DEF SameWrites
<1>5. /\ Wrote(t, e, "del")' <=> Wrote(t, e, "del")
      /\ Wrote(t, e, "set")' <=> Wrote(t, e, "set")
      /\ FirstWrite(t, e, i)'
  <2>1. FirstWrite(t, e, i)'
    BY <1>2, <1>4 DEF FirstWrite
  <2> QED BY <1>4, <2>1 DEF Wrote
<1>6. u[i].ts \in Nat
  <2>1. tx[t] \in TxRecords
    BY DEF OInv
  <2>2. u \in Seq(UndoRecords)
    BY <2>1 DEF TxRecords
  <2>3. u[i] \in UndoRecords
    BY <2>2 DEF Written
  <2> QED BY <2>3 DEF UndoRecords
<1> HIDE DEF x, y, g, u, u2
<1>7. Underneath(t, x, g, u[i].ts, tx[t].start, Wrote(t, e, "set"))
        => Underneath(t, y, log'[e], u2[i].ts, tx'[t].start, Wrote(t, e, "set")')
  <2> SUFFICES ASSUME Underneath(t, x, g, u[i].ts, tx[t].start, Wrote(t, e, "set"))
               PROVE  Underneath(t, y, log'[e], u2[i].ts, tx'[t].start, Wrote(t, e, "set")')
    OBVIOUS
  <2>1. u2[i] = u[i]
    BY <1>4
  <2>2. Unhidden(y.min, u[i].ts)
    BY <1>3, <1>6 DEF Underneath, Lower
  <2> QED BY <1>3, <1>4, <1>5, <2>1, <2>2 DEF Underneath
<1>8. IF u2[i].op = "create" THEN \A n \in DOMAIN log'[e] : log'[e][n].ts = txn_id(t)
      ELSE Underneath(t, y, log'[e], u2[i].ts, tx'[t].start, Wrote(t, e, "set")')
  BY <1>2, <1>3, <1>4, <1>7
<1>9. /\ loc'[e] # NoLoc /\ y.slot.ts = txn_id(t)
      /\ IsTombstone(y.slot) <=> Wrote(t, e, "del")'
      /\ Wrote(t, e, "del")' => tx'[t].snap[e] # TOMBSTONE_DST_ID
  BY <1>1, <1>3, <1>4, <1>5
<1>10. i \in Written(t, e)'
  BY <1>4
<1> QED BY <1>5, <1>8, <1>9, <1>10 DEF OwnerInv, y, u2

LEMMA OwnerFrom ==
  ASSUME NEW t, NEW e, loc'[e] # NoLoc, NEW y, y = Cell(blocks', loc', e), NEW g, g = log'[e],
         y.slot.ts = txn_id(t), NEW i, i \in Written(t, e)', FirstWrite(t, e, i)',
         IF tx'[t].undo[i].op = "create" THEN \A n \in DOMAIN g : g[n].ts = txn_id(t)
         ELSE Underneath(t, y, g, tx'[t].undo[i].ts, tx'[t].start, Wrote(t, e, "set")'),
         IsTombstone(y.slot) <=> Wrote(t, e, "del")',
         Wrote(t, e, "del")' => tx'[t].snap[e] # TOMBSTONE_DST_ID
  PROVE  OwnerInv(t, e)'
  BY DEF OwnerInv

\* What a waiting writer has seen stays, moves with its slot, or goes.
StillThere(e) ==
    LET x == Cell(blocks, loc, e)
        y == Cell(blocks', loc', e)
    IN  loc'[e] # NoLoc => loc[e] # NoLoc /\ (x.dead => y.dead) /\ (y.dead \/ y.slot = x.slot)

LEMMA UntouchedThere ==
  ASSUME NEW e, Untouched(e)
  PROVE  StillThere(e)
  BY DEF Untouched, SameCell, StillThere

LEMMA WaitKept ==
  ASSUME NEW t \in Txns, WaitInv(t), tx'[t].look = tx[t].look, tx'[t].st = tx[t].st, tx'[t].start = tx[t].start,
         eids \in Nat, eids' \in Nat, eids <= eids',
         \A u \in Txns : tx'[u].look.eid = tx[u].look.eid \/ tx'[u].look = NoLook,
         tx[t].look # NoLook => StillThere(tx[t].look.eid)
  PROVE  WaitInv(t)'
<1> SUFFICES ASSUME tx[t].look # NoLook PROVE WaitInv(t)'
  BY DEF WaitInv
<1> DEFINE e == tx[t].look.eid
           x == Cell(blocks, loc, e)
           y == Cell(blocks', loc', e)
<1>1. /\ tx[t].st = "active" /\ e \in 1 .. eids
      /\ loc[e] # NoLoc => x.dead \/ (~IsTombstone(x.slot) /\ Sees(t, x.slot.ts))
      /\ \A u \in Txns : u # t => tx[u].look.eid # e
  BY DEF WaitInv
<1>2. loc'[e] # NoLoc => loc[e] # NoLoc /\ (x.dead => y.dead) /\ (y.dead \/ y.slot = x.slot)
  BY DEF StillThere
<1>3. tx'[t].look.eid = e
  OBVIOUS
<1>4. e \in 1 .. eids' /\ e # 0 /\ NoLook.eid = 0
  BY <1>1 DEF NoLook, NONE
<1>5. \A u \in Txns : u # t => tx'[u].look.eid # e
  BY <1>1, <1>4
<1> HIDE DEF e
<1>7. loc'[e] # NoLoc => y.dead \/ (~IsTombstone(y.slot) /\ (IF is_txn_id(y.slot.ts) THEN y.slot.ts = txn_id(t)
                                                            ELSE y.slot.ts <= tx'[t].start))
  <2> HIDE DEF x, y
  <2> QED BY <1>1, <1>2 DEF Sees
<1> QED BY <1>1, <1>3, <1>4, <1>5, <1>7 DEF WaitInv, Sees

\* Steps that leave the edges alone.
LEMMA StoreSame ==
  ASSUME OInv, SInv, blocks' = blocks, loc' = loc, eids' = eids, log' = log, tx' = tx, clock' = clock,
         phase' \in {"load", "run"} => phase' = phase \/ (phase = "load" /\ phase' = "run")
  PROVE  SInv'
<1> SUFFICES ASSUME phase' \in {"load", "run"} PROVE SInv'
  BY DEF SInv
<1>1. phase \in {"load", "run"}
  OBVIOUS
<1>2. /\ VersionsIn(blocks) /\ log \in [Eids -> Seq(Versions)]
      /\ \A e \in Eids : EdgeInv(e)
      /\ \A t \in Txns : TxInv(t) /\ WaitInv(t) /\ \A e \in Eids : OwnerInv(t, e)
      /\ clock <= Cardinality(Ended)
      /\ phase = "load" => (\A t \in Txns : tx[t].st = "idle") /\ NoneGone
  BY <1>1 DEF SInv
<1>3. VersionsIn(blocks)' /\ (log \in [Eids -> Seq(Versions)])' /\ (clock <= Cardinality(Ended))'
  BY <1>2 DEF VersionsIn, Ended
<1>4. \A e \in Eids : EdgeInv(e)'
  BY <1>2 DEF EdgeInv, Written
<1>5. \A t \in Txns : TxInv(t)' /\ WaitInv(t)'
  BY <1>2 DEF TxInv, WaitInv, Sees
<1>6. \A t \in Txns : \A e \in Eids : OwnerInv(t, e)'
  <2>1. \A e \in Eids : Untouched(e)
    BY DEF Untouched, SameCell, Lower
  <2>2. \A t \in Txns : \A e \in Eids : SameWrites(t, e)
    BY DEF SameWrites, Written
  <2> QED BY <1>2, <2>1, <2>2, OwnerUntouched
<1>7. (phase = "load")' => ((\A t \in Txns : tx[t].st = "idle") /\ NoneGone)'
  BY <1>2 DEF NoneGone
<1> QED BY <1>3, <1>4, <1>5, <1>6, <1>7 DEF SInv

LEMMA TxTyped ==
  ASSUME OInv, NEW t \in Txns
  PROVE  /\ tx[t] \in TxRecords /\ tx[t].undo \in Seq(UndoRecords) /\ tx[t].start \in Nat /\ tx[t].commit \in Nat
         /\ tx[t].snap \in [Eids -> Nat] /\ tx[t].look \in Looks \cup {NoLook}
         /\ DOMAIN tx[t].undo = 1 .. Len(tx[t].undo) /\ Len(tx[t].undo) \in Nat
         /\ \A i \in DOMAIN tx[t].undo :
              tx[t].undo[i] \in UndoRecords /\ tx[t].undo[i].ts \in Nat /\ tx[t].undo[i].eid \in Eids
<1>1. tx[t] \in TxRecords
  BY DEF OInv
<1>2. /\ tx[t].undo \in Seq(UndoRecords) /\ tx[t].start \in Nat /\ tx[t].commit \in Nat
      /\ tx[t].snap \in [Eids -> Nat]
  BY <1>1 DEF TxRecords
<1>3. tx[t].look \in Looks \cup {NoLook}
  BY <1>1, Zenon DEF TxRecords
<1>4. DOMAIN tx[t].undo = 1 .. Len(tx[t].undo) /\ Len(tx[t].undo) \in Nat
  BY <1>2
<1>5. \A i \in DOMAIN tx[t].undo : tx[t].undo[i] \in UndoRecords
  BY <1>2
<1> QED BY <1>1, <1>2, <1>3, <1>4, <1>5 DEF UndoRecords

-----------------------------------------------------------------------------
(* The loader writes with timestamp 0.                                       *)

LoadedEdge(x, g) ==
    /\ g # <<>> /\ x.slot.ts = 0 /\ ~IsTombstone(x.slot) /\ Shows(x, g[Len(g)])
    /\ \A i \in DOMAIN g : g[i].ts = 0

LEMMA LoadState ==
  ASSUME KeepOff, OInv, SInv, phase = "load"
  PROVE  /\ clock = 0 /\ VersionsIn(blocks) /\ log \in [Eids -> Seq(Versions)]
         /\ \A t \in Txns : /\ tx[t].undo = <<>> /\ tx[t].look = NoLook /\ tx[t].st = "idle" /\ tx[t].start = 0
                            /\ tx[t].commit = NONE /\ \A e : Written(t, e) = {}
         /\ \A e \in Eids : IF loc[e] = NoLoc THEN log[e] = <<>> ELSE LoadedEdge(Cell(blocks, loc, e), log[e])
<1>1. /\ VersionsIn(blocks) /\ log \in [Eids -> Seq(Versions)]
      /\ \A e \in Eids : EdgeInv(e)
      /\ \A t \in Txns : TxInv(t) /\ WaitInv(t)
      /\ clock <= Cardinality(Ended)
      /\ (\A t \in Txns : tx[t].st = "idle") /\ NoneGone
  BY DEF SInv
<1>2. clock = 0
  <2>1. Ended = {}
    BY <1>1 DEF Ended, TxInv
  <2>2. Cardinality(Ended) = 0
    BY <2>1, FS_EmptySet
  <2> QED BY <1>1, <2>2 DEF OInv
<1>3. ASSUME NEW t \in Txns
      PROVE  /\ tx[t].undo = <<>> /\ tx[t].look = NoLook /\ tx[t].st = "idle" /\ tx[t].start = 0
             /\ tx[t].commit = NONE /\ \A e : Written(t, e) = {}
  <2>1. tx[t].undo = <<>> /\ tx[t].look = NoLook /\ tx[t].st = "idle" /\ tx[t].start <= 0
        /\ tx[t].commit = NONE
    BY <1>1, <1>2 DEF TxInv, WaitInv
  <2>2. tx[t].start \in Nat
    BY TxTyped
  <2>3. DOMAIN tx[t].undo = {}
    BY <2>1
  <2> QED BY <2>1, <2>2, <2>3 DEF Written
<1>4. ASSUME NEW e \in Eids, loc[e] # NoLoc PROVE LoadedEdge(Cell(blocks, loc, e), log[e])
  <2> DEFINE x == Cell(blocks, loc, e)
             g == log[e]
  <2>1. /\ g # <<>> /\ Shows(x, g[Len(g)])
        /\ IF is_txn_id(x.slot.ts) THEN \E t \in Txns : x.slot.ts = txn_id(t) /\ Written(t, e) # {}
           ELSE Settled(x, g, clock)
    BY <1>1, <1>4 DEF EdgeInv
  <2>2. Settled(x, g, 0)
    BY <1>2, <1>3, <2>1
  <2>3. x.slot \in Slot /\ g \in Seq(Versions)
    BY <1>1, <1>4, CellTyped DEF OInv
  <2> HIDE DEF x, g
  <2>4. x.slot.ts \in Nat /\ \A i \in DOMAIN g : g[i].ts \in Nat
    <3>1. \A i \in DOMAIN g : g[i] \in Versions
      BY <2>3
    <3> QED BY <2>3, <3>1 DEF Slot, Versions
  <2>5. x.slot.ts = 0 /\ \A i \in DOMAIN g : g[i].ts = 0
    BY <2>2, <2>4 DEF Settled
  <2>6. ~IsTombstone(x.slot)
    BY <1>1, <1>4 DEF NoneGone, x
  <2> QED BY <2>1, <2>5, <2>6 DEF LoadedEdge, x, g
<1>5. \A e \in Eids : loc[e] = NoLoc => log[e] = <<>>
  BY <1>1 DEF EdgeInv
<1> QED BY <1>1, <1>2, <1>3, <1>4, <1>5

LEMMA LoadStep ==
  ASSUME KeepOff, OInv, SInv, phase = "load", tx' = tx, clock' = clock, phase' \in {"load", "poisoned"},
         VersionsIn(blocks'), log' \in [Eids -> Seq(Versions)],
         \A e \in Eids : IF loc'[e] = NoLoc THEN log'[e] = <<>> ELSE LoadedEdge(Cell(blocks', loc', e), log'[e])
  PROVE  SInv'
<1>1. /\ clock = 0 /\ clock <= Cardinality(Ended)
      /\ \A t \in Txns : /\ tx[t].undo = <<>> /\ tx[t].look = NoLook /\ tx[t].st = "idle" /\ tx[t].start = 0
                         /\ tx[t].commit = NONE /\ \A e : Written(t, e) = {}
  BY LoadState DEF SInv
<1>2. (clock <= Cardinality(Ended))' /\ \A t \in Txns : tx'[t].st = "idle"
  BY <1>1 DEF Ended
<1>3. ASSUME NEW t \in Txns PROVE TxInv(t)' /\ WaitInv(t)' /\ \A e \in Eids : OwnerInv(t, e)'
  <2>1. TxInv(t)' /\ WaitInv(t)'
    BY <1>1 DEF TxInv, WaitInv
  <2>2. \A e : Written(t, e)' = {}
    BY <1>1 DEF Written
  <2> QED BY <2>1, <2>2 DEF OwnerInv
<1>4. ASSUME NEW e \in Eids PROVE EdgeInv(e)'
  <2>1. CASE loc'[e] = NoLoc
    BY <2>1 DEF EdgeInv
  <2>2. CASE loc'[e] # NoLoc
    <3> DEFINE y == Cell(blocks', loc', e)
               g == log'[e]
    <3>1. g # <<>> /\ y.slot.ts = 0 /\ Shows(y, g[Len(g)]) /\ \A i \in DOMAIN g : g[i].ts = 0
      BY <2>2 DEF LoadedEdge
    <3>2. ~is_txn_id(0)
      BY ConstantFacts DEF KeepOff, is_txn_id
    <3> HIDE DEF y, g
    <3>3. Settled(y, g, clock')
      BY <1>1, <3>1 DEF Settled, Unhidden
    <3> QED BY <2>2, <3>1, <3>2, <3>3, EdgeFrom DEF y, g
  <2> QED BY <2>1, <2>2
<1>5. VersionsIn(blocks)' /\ (log \in [Eids -> Seq(Versions)])'
  BY DEF VersionsIn
<1>6. NoneGone'
  BY DEF NoneGone, LoadedEdge
<1> QED BY <1>2, <1>3, <1>4, <1>5, <1>6 DEF SInv

-----------------------------------------------------------------------------
(* An edge comes.                                                            *)

LEMMA VersionsReplaced ==
  ASSUME NEW bs, BlocksOK(bs), VersionsIn(bs), NEW i \in DOMAIN bs, NEW c, BlockOK(c, i),
         c.min \in Nat, c.p \in [Slots -> Seq(Versions)], NEW cs, Replaces(bs, cs, i, c)
  PROVE  VersionsIn(cs) /\ OnlyBlock(bs, cs, i) /\ cs[i] = c /\ DOMAIN cs = DOMAIN bs
<1>1. DOMAIN cs = DOMAIN bs /\ cs[i] = c /\ \A j \in DOMAIN bs : j # i => cs[j] = bs[j]
  BY BlocksReplace DEF Replaces
<1> QED BY <1>1 DEF VersionsIn, OnlyBlock

LEMMA InsertCells ==
  ASSUME OInv, OInv', VersionsIn(blocks), log \in [Eids -> Seq(Versions)],
         NEW src \in Vertices, NEW dst \in Nat, NEW val \in Nat, NEW ts \in Nat, NEW min \in Nat,
         InsertEdge(src, dst, val, ts, min)
  PROVE  LET n == eids + 1
             y == Cell(blocks', loc', n)
         IN  /\ n \in Eids /\ loc[n] = NoLoc /\ loc'[n] # NoLoc /\ eids' = n
             /\ VersionsIn(blocks') /\ log' \in [Eids -> Seq(Versions)] /\ log'[n] = <<Version(ts, val)>>
             /\ y.slot = [eid |-> n, dst |-> dst, ts |-> ts] /\ EndsIn(y.vs, Version(ts, val))
             /\ \A e \in Eids : e # n => Untouched(e)
<1> DEFINE n == eids + 1
           slot == [eid |-> n, dst |-> dst, ts |-> ts]
           ver == Version(ts, val)
<1>1. /\ eids' = n /\ n \in Eids /\ log' = [log EXCEPT ![n] = <<ver>>]
      /\ Exact(blocks, loc, eids) /\ Exact(blocks', loc', n) /\ eids \in Nat
  <2>1. eids' = n /\ eids < MaxEdges /\ log' = [log EXCEPT ![n] = <<ver>>]
    BY Zenon DEF InsertEdge
  <2>2. eids \in Nat /\ Exact(blocks, loc, eids) /\ Exact(blocks', loc', eids')
    BY ConstantFacts DEF OInv
  <2>3. n \in Eids
    BY <2>1, <2>2, ConstantFacts DEF Eids
  <2> QED BY <2>1, <2>2, <2>3
<1>2. PICK bs, bi, pos : Enters(bs, bi, pos, slot, ver, min)
  BY InsertEdgeOK
<1>3. ver \in Versions /\ ver.ts = ts /\ slot.eid = n /\ slot \in Slot
  BY <1>1 DEF Version, Versions, Slot
<1>4. /\ Exact(bs, loc, eids) /\ bi \in DOMAIN bs /\ bs[bi].n < BLOCK_CAPACITY /\ pos \in 1 .. bs[bi].n + 1
      /\ Replaces(bs, blocks', bi, Inserted(bs[bi], pos, slot, ver))
  BY <1>2 DEF Enters
<1> HIDE DEF slot, ver
<1>5. /\ \A j \in DOMAIN blocks : j \in DOMAIN bs /\ bs[j] = blocks[j]
      /\ VersionsIn(bs)
  <2>1. CASE bs = blocks
    BY <2>1
  <2>2. CASE bs # blocks
    <3>1. PICK pre, s : /\ pre \in Nat /\ bs = Append(blocks, NewBlock(pre, s, min))
                        /\ BlockOK(NewBlock(pre, s, min), Len(blocks) + 1)
      BY <1>2, <2>2 DEF Enters, MaybeGrown
    <3> DEFINE nb == NewBlock(pre, s, min)
    <3>2. nb.min = min /\ nb.p = [i \in Slots |-> <<>>]
      BY DEF NewBlock
    <3>3. nb.p \in [Slots -> Seq(Versions)]
      BY <3>2
    <3>0. bs = Append(blocks, nb) /\ BlockOK(nb, Len(blocks) + 1)
      BY <3>1
    <3> HIDE DEF nb
    <3>4. /\ DOMAIN bs = DOMAIN blocks \cup {Len(blocks) + 1} /\ bs[Len(blocks) + 1] = nb
          /\ \A j \in DOMAIN blocks : bs[j] = blocks[j]
      BY <1>1, <3>0, BlocksAppend DEF Exact
    <3> QED BY <3>2, <3>3, <3>4 DEF VersionsIn
  <2> QED BY <2>1, <2>2
<1> DEFINE b == bs[bi]
           c == Inserted(b, pos, slot, ver)
<1>6. BlockOK(b, bi) /\ b.p \in [Slots -> Seq(Versions)] /\ b.min \in Nat /\ bi \in Nat /\ BlocksOK(bs)
  BY <1>4, <1>5, BlocksShape DEF Exact, BlocksOK, VersionsIn
<1>7. BlockOK(c, bi)
  BY <1>3, <1>4, <1>6, InsertedOK
<1>8. /\ Carries(b, c, 0, n) /\ c.e[pos] = slot /\ c.p[pos] = Append(b.p[pos], ver) /\ pos \in 1 .. c.n
      /\ c.min = (IF is_txn_id(ts) THEN Min({b.min, ts}) ELSE b.min)
      /\ c.p \in [Slots -> Seq(Versions)]
  <2>1. HasRoom(b, bi, pos, ver)
    BY <1>3, <1>4, <1>6 DEF HasRoom, b
  <2> HIDE DEF b
  <2>2. GrownBy(b, c, pos, slot, ver)
    BY <2>1, InsertedCarries
  <2> HIDE DEF c
  <2> QED BY <1>3, <2>2 DEF GrownBy
<1> HIDE DEF b, c
<1>9. c.min \in Nat /\ Lower(b.min, c.min)
  <2>1. CASE is_txn_id(ts)
    <3>1. c.min = Min({b.min, ts}) /\ Lower(b.min, Min({b.min, ts}))
      BY <1>6, <1>8, <2>1, LowerFacts
    <3>2. Min({b.min, ts}) \in Nat
      BY <1>6, MinOfTwo
    <3> QED BY <3>1, <3>2
  <2>2. CASE ~is_txn_id(ts)
    BY <1>6, <1>8, <2>2, LowerFacts
  <2> QED BY <2>1, <2>2
<1>10. VersionsIn(blocks') /\ OnlyBlock(bs, blocks', bi) /\ blocks'[bi] = c /\ DOMAIN blocks' = DOMAIN bs
  BY <1>4, <1>5, <1>6, <1>7, <1>8, <1>9, VersionsReplaced DEF b, c
<1>11. loc[n] = NoLoc
  <2> SUFFICES ASSUME loc[n] # NoLoc PROVE FALSE
    OBVIOUS
  <2>1. n \in 1 .. eids
    BY <1>1, CellTyped
  <2> QED BY <1>1, <2>1
<1>12. loc'[n] = Place(bi, pos)
  <2>1. loc'[blocks'[bi].e[pos].eid] = Place(bi, pos)
    BY <1>1, <1>4, <1>8, <1>10 DEF Exact, Entered
  <2> QED BY <1>3, <1>8, <1>10, <2>1
<1>13. loc'[n] # NoLoc /\ Cell(blocks', loc', n).slot = slot /\ EndsIn(Cell(blocks', loc', n).vs, ver)
  <2>1. loc'[n] # NoLoc /\ loc'[n].b = bi /\ loc'[n].o = pos
    <3>1. bi # 0
      BY <1>4, <1>6, BlocksShape
    <3> QED BY <1>12, <3>1 DEF Place, NoLoc, NONE
  <2>2. Cell(blocks', loc', n).slot = slot /\ Cell(blocks', loc', n).vs = Append(b.p[pos], ver)
    BY <1>8, <1>10, <2>1 DEF Cell
  <2>3. pos \in Slots
    BY <1>4, <1>6, ConstantFacts DEF Slots, BlockOK, b
  <2>4. b.p[pos] \in Seq(Versions)
    BY <1>6, <2>3
  <2> DEFINE q == b.p[pos]
  <2> HIDE DEF q
  <2>5. EndsIn(Append(q, ver), ver)
    <3>1. q \in Seq(Versions)
      BY <2>4 DEF q
    <3> QED BY <1>3, <3>1 DEF EndsIn
  <2> QED BY <2>1, <2>2, <2>5 DEF q
<1>14. log' \in [Eids -> Seq(Versions)] /\ log'[n] = <<ver>> /\ \A e \in Eids : e # n => log'[e] = log[e]
  <2>1. <<ver>> \in Seq(Versions)
    BY <1>3
  <2> QED BY <1>1, <2>1
<1>15. ASSUME NEW e \in Eids, e # n PROVE Untouched(e)
  <2>1. /\ loc[e] # NoLoc => SameCell(bs, loc, blocks', loc', e) /\ MinAfter(bs, loc, blocks', loc', e, bi)
        /\ loc'[e] # NoLoc => loc[e] # NoLoc
    <3>1. e # 0 /\ Carries(bs[bi], blocks'[bi], 0, n)
      BY <1>8, <1>10 DEF Eids, b
    <3>2. Exact(bs, loc, eids) /\ Exact(blocks', loc', n) /\ bi \in DOMAIN bs /\ OnlyBlock(bs, blocks', bi)
      BY <1>1, <1>4, <1>10
    <3>3. Moves(bs, loc, blocks', loc', bi, 0, n)
      BY <3>1, <3>2 DEF Moves
    <3> HIDE DEF n
    <3> QED BY <1>15, <3>1, <3>3, CellsKept
  <2>2. ASSUME loc[e] # NoLoc
        PROVE  /\ SameCell(blocks, loc, blocks', loc', e)
               /\ Lower(Cell(blocks, loc, e).min, Cell(blocks', loc', e).min)
    <3>1. Cell(bs, loc, e) = Cell(blocks, loc, e) /\ Cell(blocks, loc, e).min \in Nat
      <4>1. loc[e].b \in DOMAIN blocks /\ Cell(blocks, loc, e).min \in Nat
        BY <1>1, <2>2, CellTyped
      <4> QED BY <1>5, <4>1 DEF Cell
    <3>2. SameCell(blocks, loc, blocks', loc', e)
      BY <2>1, <2>2, <3>1 DEF SameCell
    <3>3. CASE loc[e].b = bi
      <4>1. Cell(blocks', loc', e).min = c.min /\ Cell(bs, loc, e).min = b.min
        BY <1>10, <2>1, <2>2, <3>3 DEF MinAfter, Cell, b
      <4> QED BY <1>9, <3>1, <3>2, <4>1
    <3>4. CASE loc[e].b # bi
      <4>1. Cell(blocks', loc', e).min = Cell(blocks, loc, e).min
        BY <2>1, <2>2, <3>1, <3>4 DEF MinAfter
      <4> QED BY <3>1, <3>2, <4>1, LowerFacts
    <3> QED BY <3>3, <3>4
  <2> QED BY <1>14, <1>15, <2>1, <2>2 DEF Untouched
<1> QED BY <1>1, <1>10, <1>11, <1>13, <1>14, <1>15 DEF slot, ver

LEMMA CreateEdgeSInv ==
  ASSUME KeepOff, OInv, OInv', SInv, NEW v \in Vertices, NEW d \in Dsts, NEW val \in Nat, create_edge(v, d, val)
  PROVE  SInv'
<1> DEFINE n == eids + 1
           y == Cell(blocks', loc', n)
<1>1. /\ InsertEdge(v, d, val, 0, max_commit_ts) /\ phase = "load" /\ phase' = phase
      /\ clock' = clock /\ tx' = tx
  BY DEF create_edge, Load
<1>2. /\ VersionsIn(blocks) /\ log \in [Eids -> Seq(Versions)]
      /\ \A e \in Eids : IF loc[e] = NoLoc THEN log[e] = <<>> ELSE LoadedEdge(Cell(blocks, loc, e), log[e])
  BY <1>1, LoadState
<1>3. d \in Nat /\ d # TOMBSTONE_DST_ID /\ max_commit_ts \in Nat
  BY ConstantFacts DEF KeepOff, max_commit_ts
<1>4. /\ n \in Eids /\ loc'[n] # NoLoc
      /\ VersionsIn(blocks') /\ log' \in [Eids -> Seq(Versions)] /\ log'[n] = <<Version(0, val)>>
      /\ y.slot = [eid |-> n, dst |-> d, ts |-> 0] /\ EndsIn(y.vs, Version(0, val))
      /\ \A e \in Eids : e # n => Untouched(e)
  BY <1>1, <1>2, <1>3, InsertCells
<1>5. LoadedEdge(y, log'[n])
  <2> DEFINE g == log'[n]
             w == Version(0, val)
  <2>1. w.ts = 0
    BY DEF Version
  <2> HIDE DEF w, y
  <2>2. g # <<>> /\ g[Len(g)] = w /\ \A i \in DOMAIN g : g[i] = w
    BY <1>4 DEF w
  <2>3. y.slot.ts = 0 /\ ~IsTombstone(y.slot) /\ EndsIn(y.vs, w)
    BY <1>3, <1>4 DEF IsTombstone, w
  <2> QED BY <2>1, <2>2, <2>3 DEF LoadedEdge, Shows
<1>6. ASSUME NEW e \in Eids
      PROVE  IF loc'[e] = NoLoc THEN log'[e] = <<>> ELSE LoadedEdge(Cell(blocks', loc', e), log'[e])
  <2>1. CASE e = n
    BY <1>4, <1>5, <2>1
  <2>2. CASE e # n
    <3>1. Untouched(e)
      BY <1>4, <2>2
    <3>2. CASE loc[e] = NoLoc
      BY <1>2, <3>1, <3>2 DEF Untouched
    <3>3. CASE loc[e] # NoLoc
      <4>1. LoadedEdge(Cell(blocks, loc, e), log[e])
        BY <1>2, <3>3
      <4> QED BY <3>1, <3>3, <4>1 DEF Untouched, SameCell, LoadedEdge, Shows
    <3> QED BY <3>2, <3>3
  <2> QED BY <2>1, <2>2
<1> QED BY <1>1, <1>4, <1>6, LoadStep

-----------------------------------------------------------------------------
(* An edge goes or changes.                                                  *)

\* Edge f keeps its cell, wherever it is, and its block's min_ts hides no more.
Kept(bs, m, cs, m2, f) ==
    /\ m2[f] # NoLoc => m[f] # NoLoc
    /\ m[f] # NoLoc => SameCell(bs, m, cs, m2, f) /\ Lower(Cell(bs, m, f).min, Cell(cs, m2, f).min)

LEMMA OccupiedAt ==
  ASSUME NEW bs, NEW m, NEW last, Exact(bs, m, last), VersionsIn(bs), NEW e \in Eids, m[e] # NoLoc
  PROVE  /\ m[e].b \in DOMAIN bs /\ Occupied(bs[m[e].b], m[e].b, m[e].o) /\ bs[m[e].b].e[m[e].o].eid = e
         /\ m[e].b \in Nat \ {0}
<1> DEFINE i == m[e].b
           o == m[e].o
<1>1. i \in DOMAIN bs /\ o \in 1 .. bs[i].n /\ bs[i].e[o].eid = e
  BY CellTyped DEF Holds
<1>2. BlockOK(bs[i], i) /\ bs[i].p \in [Slots -> Seq(Versions)]
  BY <1>1 DEF Exact, BlocksOK, VersionsIn
<1>3. i \in Nat \ {0}
  BY <1>1, BlocksShape DEF Exact
<1>4. \A q \in 1 .. bs[i].n : bs[i].e[q].eid = bs[i].e[o].eid => q = o
  BY <1>1, Distinct
<1> QED BY <1>1, <1>2, <1>3, <1>4 DEF Occupied

\* Block i changes in edge e only.
LEMMA OthersKept ==
  ASSUME NEW bs, NEW m, NEW cs, NEW m2, NEW e \in Eids, NEW i, Moves(bs, m, cs, m2, i, e, 0), VersionsIn(bs),
         cs[i].p \in [Slots -> Seq(Versions)], cs[i].min \in Nat, Lower(bs[i].min, cs[i].min)
  PROVE  VersionsIn(cs) /\ \A f \in Eids : f # e => Kept(bs, m, cs, m2, f)
<1>1. i \in DOMAIN bs /\ DOMAIN cs = DOMAIN bs /\ \A j \in DOMAIN bs : j # i => cs[j] = bs[j]
  BY DEF Moves, OnlyBlock
<1>2. VersionsIn(cs)
  BY <1>1 DEF VersionsIn
<1>3. PICK last : Exact(bs, m, last)
  BY DEF Moves
<1>4. ASSUME NEW f \in Eids, f # e PROVE Kept(bs, m, cs, m2, f)
  <2>1. /\ m[f] # NoLoc => SameCell(bs, m, cs, m2, f) /\ MinAfter(bs, m, cs, m2, f, i)
        /\ m2[f] # NoLoc => m[f] # NoLoc
    <3>1. f # 0
      BY DEF Eids
    <3> QED BY <1>4, <3>1, CellsKept
  <2>2. ASSUME m[f] # NoLoc PROVE Lower(Cell(bs, m, f).min, Cell(cs, m2, f).min)
    <3>1. Cell(bs, m, f).min \in Nat /\ Cell(bs, m, f).min = bs[m[f].b].min
      BY <1>3, <2>2, CellTyped
    <3>2. Cell(cs, m2, f).min = IF m[f].b = i THEN cs[i].min ELSE Cell(bs, m, f).min
      BY <2>1, <2>2 DEF MinAfter
    <3> QED BY <3>1, <3>2, LowerFacts
  <2> QED BY <2>1, <2>2 DEF Kept
<1> QED BY <1>2, <1>4

\* The slot of edge e is written, or its versions are.
RewritesIn(bs, m, cs, e, slot, vs, min) ==
    /\ \E last : Exact(bs, m, last) /\ Exact(cs, m, last)
    /\ m[e] # NoLoc /\ slot.eid = e /\ min \in Nat /\ Lower(Cell(bs, m, e).min, min)
    /\ OnlyBlock(bs, cs, m[e].b) /\ ChangedAt(bs[m[e].b], cs[m[e].b], m[e].o, slot, vs, min)

LEMMA RewriteCells ==
  ASSUME NEW bs, NEW m, NEW cs, NEW e \in Eids, NEW slot, NEW vs, NEW min,
         RewritesIn(bs, m, cs, e, slot, vs, min), VersionsIn(bs)
  PROVE  /\ VersionsIn(cs) /\ \A f \in Eids : f # e => Kept(bs, m, cs, m, f)
         /\ Cell(cs, m, e) = [slot |-> slot, vs |-> vs, min |-> min, dead |-> Cell(bs, m, e).dead]
<1> DEFINE i == m[e].b
           o == m[e].o
<1>a. PICK last : Exact(bs, m, last) /\ Exact(cs, m, last)
  BY DEF RewritesIn
<1>b. m[e] # NoLoc /\ slot.eid = e /\ min \in Nat /\ Lower(Cell(bs, m, e).min, min)
  BY DEF RewritesIn
<1>1. i \in DOMAIN bs /\ Occupied(bs[i], i, o) /\ bs[i].e[o].eid = e
  BY <1>a, <1>b, OccupiedAt
<1>2. Cell(bs, m, e).min = bs[i].min /\ Cell(bs, m, e).dead = bs[i].dead
  BY DEF Cell
<1>4. ChangedAt(bs[i], cs[i], o, slot, vs, min) /\ OnlyBlock(bs, cs, i)
  BY DEF RewritesIn
<1>5. Cell(cs, m, e) = [slot |-> slot, vs |-> vs, min |-> min, dead |-> Cell(bs, m, e).dead]
  BY <1>2, <1>4 DEF Cell, ChangedAt
<1> HIDE DEF i, o
<1>7. Moves(bs, m, cs, m, i, e, 0)
  BY <1>a, <1>b, <1>1, <1>4 DEF Moves, ChangedAt
<1>8. cs[i].p \in [Slots -> Seq(Versions)] /\ cs[i].min \in Nat /\ Lower(bs[i].min, cs[i].min)
  BY <1>b, <1>2, <1>4 DEF ChangedAt
<1> QED BY <1>5, <1>7, <1>8, OthersKept

\* In the loading phase an edge that keeps its cell is as before.
LEMMA LoadedKept ==
  ASSUME NEW bs, NEW m, NEW cs, NEW m2, NEW f, Kept(bs, m, cs, m2, f), NEW g,
         IF m[f] = NoLoc THEN g = <<>> ELSE LoadedEdge(Cell(bs, m, f), g)
  PROVE  IF m2[f] = NoLoc THEN g = <<>> ELSE LoadedEdge(Cell(cs, m2, f), g)
  BY DEF Kept, SameCell, LoadedEdge, Shows

LEMMA Appended ==
  ASSUME NEW g \in Seq(Versions), NEW w \in Versions
  PROVE  /\ Append(g, w) \in Seq(Versions) /\ Append(g, w)[Len(Append(g, w))] = w /\ Append(g, w) # <<>>
         /\ Len(Append(g, w)) = Len(g) + 1 /\ Len(g) \in Nat /\ DOMAIN g = 1 .. Len(g)
         /\ DOMAIN Append(g, w) = 1 .. Len(g) + 1 /\ \A k \in DOMAIN g : Append(g, w)[k] = g[k]
         /\ \A k \in DOMAIN Append(g, w) : Append(g, w)[k] = w \/ (k \in DOMAIN g /\ Append(g, w)[k] = g[k])
<1>1. /\ Append(g, w) \in Seq(Versions) /\ Len(Append(g, w)) = Len(g) + 1 /\ Len(g) \in Nat /\ DOMAIN g = 1 .. Len(g)
      /\ DOMAIN Append(g, w) = 1 .. Len(g) + 1
  OBVIOUS
<1>2. Append(g, w)[Len(g) + 1] = w /\ \A k \in 1 .. Len(g) : Append(g, w)[k] = g[k]
  OBVIOUS
<1>3. \A k \in 1 .. Len(g) + 1 : k = Len(g) + 1 \/ k \in 1 .. Len(g)
  BY <1>1
<1> DEFINE h == Append(g, w)
<1> HIDE DEF h
<1>4. h # <<>>
  BY <1>1 DEF h
<1> QED BY <1>1, <1>2, <1>3, <1>4 DEF h

LEMMA DeleteEdgeSInv ==
  ASSUME KeepOff, OInv, OInv', SInv, NEW e \in Eids, delete_edge(e)
  PROVE  SInv'
<1> DEFINE i == loc[e].b
           o == loc[e].o
           c == IF blocks[i].n = 1 THEN [blocks[i] EXCEPT !.n = 0, !.dead = TRUE] ELSE Removed(blocks[i], o)
<1>1. /\ Holds(blocks, loc[e], e) /\ blocks' = [blocks EXCEPT ![i] = c]
      /\ loc' = [Remapped(loc, blocks', i) EXCEPT ![e] = NoLoc] /\ log' = [log EXCEPT ![e] = <<>>]
      /\ phase = "load" /\ phase' = phase /\ clock' = clock /\ tx' = tx /\ eids' = eids
  BY DEF delete_edge, Load
<1>2. /\ VersionsIn(blocks) /\ log \in [Eids -> Seq(Versions)]
      /\ \A f \in Eids : IF loc[f] = NoLoc THEN log[f] = <<>> ELSE LoadedEdge(Cell(blocks, loc, f), log[f])
  BY <1>1, LoadState
<1>3. Exact(blocks, loc, eids) /\ Exact(blocks', loc', eids)
  BY <1>1 DEF OInv
<1>4. loc[e] # NoLoc
  <2>1. i \in DOMAIN blocks
    BY <1>1 DEF Holds
  <2>2. i # 0
    BY <1>3, <2>1, BlocksShape DEF Exact
  <2> QED BY <2>2 DEF NoLoc, NONE
<1>5. i \in DOMAIN blocks /\ Occupied(blocks[i], i, o) /\ blocks[i].e[o].eid = e /\ i \in Nat
  BY <1>2, <1>3, <1>4, OccupiedAt
<1>6. /\ loc'[e] = NoLoc /\ log' \in [Eids -> Seq(Versions)] /\ log'[e] = <<>>
      /\ \A f \in Eids : f # e => log'[f] = log[f]
  <2>1. loc'[e] = NoLoc
    <3>1. Remapped(loc, blocks', i) = [f \in Eids |-> Remapped(loc, blocks', i)[f]]
      BY Zenon DEF Remapped
    <3> DEFINE m == Remapped(loc, blocks', i)
    <3>2. loc' = [m EXCEPT ![e] = NoLoc] /\ m = [f \in Eids |-> m[f]]
      BY <1>1, <3>1
    <3> HIDE DEF m
    <3> QED BY <3>2
  <2>2. <<>> \in Seq(Versions)
    OBVIOUS
  <2> QED BY <1>1, <1>2, <2>1, <2>2
<1>7. blocks[i].min \in Nat /\ BlockOK(blocks[i], i) /\ o \in 1 .. blocks[i].n /\ blocks[i].p \in [Slots -> Seq(Versions)]
  BY <1>2, <1>5 DEF VersionsIn, Occupied
<1>8. Carries(blocks[i], c, e, 0) /\ c.min = blocks[i].min /\ c.p \in [Slots -> Seq(Versions)] /\ BlockOK(c, i)
  <2> DEFINE b == blocks[i]
  <2>1. CASE b.n = 1
    <3>1. c = [b EXCEPT !.n = 0, !.dead = TRUE]
      BY <2>1
    <3> HIDE DEF c, b
    <3>2. DOMAIN b = BlockFields /\ BlockOK(b, i)
      BY <1>7 DEF BlockOK, b
    <3>3. c.n = 0 /\ c.e = b.e /\ c.p = b.p /\ c.min = b.min /\ DOMAIN c = BlockFields /\ c.dead = TRUE /\ c.pre = b.pre
      BY <3>1, <3>2 DEF BlockFields
    <3>4. BlockOK(c, i)
      BY <3>2, <3>3, ConstantFacts DEF BlockOK
    <3>5. o = 1 /\ b.e[o].eid = e
      BY <1>5, <1>7, <2>1 DEF b
    <3>6. Carries(b, c, e, 0)
      BY <2>1, <3>3, <3>5 DEF Carries
    <3> QED BY <1>7, <3>3, <3>4, <3>6 DEF b
  <2>2. CASE b.n # 1
    <3>1. c = Removed(b, o)
      BY <2>2
    <3>2. ShrunkAt(b, c, o)
      BY <1>5, <3>1, RemovedCarries
    <3> HIDE DEF c
    <3>3. BlockOK(c, i)
      BY <1>5, <1>7, <3>1, RemovedOK
    <3> QED BY <1>5, <3>2, <3>3 DEF ShrunkAt
  <2> QED BY <2>1, <2>2
<1> HIDE DEF i, o, c
<1>9. DOMAIN blocks' = DOMAIN blocks /\ OnlyBlock(blocks, blocks', i) /\ blocks'[i] = c
  <2>1. Replaces(blocks, blocks', i, c) /\ BlocksOK(blocks)
    BY <1>1, <1>3 DEF Replaces, Exact
  <2> QED BY <1>2, <1>5, <1>7, <1>8, <2>1, VersionsReplaced
<1>10. Moves(blocks, loc, blocks', loc', i, e, 0)
  BY <1>3, <1>5, <1>8, <1>9 DEF Moves
<1>11. VersionsIn(blocks') /\ \A f \in Eids : f # e => Kept(blocks, loc, blocks', loc', f)
  BY <1>2, <1>7, <1>8, <1>9, <1>10, LowerFacts, OthersKept
<1>12. ASSUME NEW f \in Eids
       PROVE  IF loc'[f] = NoLoc THEN log'[f] = <<>> ELSE LoadedEdge(Cell(blocks', loc', f), log'[f])
  <2>1. CASE f = e
    BY <1>6, <2>1
  <2>2. CASE f # e
    <3>1. Kept(blocks, loc, blocks', loc', f) /\ log'[f] = log[f]
      BY <1>6, <1>11, <2>2
    <3>2. IF loc[f] = NoLoc THEN log[f] = <<>> ELSE LoadedEdge(Cell(blocks, loc, f), log[f])
      BY <1>2
    <3> QED BY <3>1, <3>2, LoadedKept
  <2> QED BY <2>1, <2>2
<1> QED BY <1>1, <1>6, <1>11, <1>12, LoadStep

LEMMA SetEdgePropertySInv ==
  ASSUME KeepOff, OInv, OInv', SInv, NEW e \in Eids, NEW val \in Nat, set_edge_property(e, val)
  PROVE  SInv'
<1> DEFINE i == loc[e].b
           o == loc[e].o
           b == blocks[i]
           w == Version(0, val)
           vs == Append(b.p[o], w)
           x == Cell(blocks, loc, e)
           y == Cell(blocks', loc', e)
<1>1. /\ Holds(blocks, loc[e], e) /\ blocks' = [blocks EXCEPT ![i].p[o] = Append(@, Version(0, val))]
      /\ loc' = loc /\ log' = [log EXCEPT ![e] = Append(@, Version(0, val))]
      /\ phase = "load" /\ phase' = phase /\ clock' = clock /\ tx' = tx /\ eids' = eids
  BY DEF set_edge_property, Load
<1>2. /\ VersionsIn(blocks) /\ log \in [Eids -> Seq(Versions)]
      /\ \A f \in Eids : IF loc[f] = NoLoc THEN log[f] = <<>> ELSE LoadedEdge(Cell(blocks, loc, f), log[f])
  BY <1>1, LoadState
<1>3. Exact(blocks, loc, eids) /\ Exact(blocks', loc, eids)
  BY <1>1 DEF OInv
<1>4. loc[e] # NoLoc
  <2>1. i \in DOMAIN blocks
    BY <1>1 DEF Holds
  <2>2. i # 0
    BY <1>3, <2>1, BlocksShape DEF Exact
  <2> QED BY <2>2 DEF NoLoc, NONE
<1>5. i \in DOMAIN blocks /\ Occupied(b, i, o) /\ b.e[o].eid = e
  BY <1>2, <1>3, <1>4, OccupiedAt
<1>6. w \in Versions /\ w.ts = 0
  BY DEF Version, Versions
<1>7. /\ BlockOK(b, i) /\ o \in Slots /\ b.p \in [Slots -> Seq(Versions)] /\ b.e \in [Slots -> Slot] /\ b.min \in Nat
      /\ DOMAIN b = BlockFields
  BY <1>2, <1>3, <1>4, <1>5, CellTyped DEF Occupied, BlockOK, VersionsIn
<1>8. vs \in Seq(Versions) /\ b.p[o] \in Seq(Versions)
  <2>1. b.p[o] \in Seq(Versions)
    BY <1>7
  <2> DEFINE q == b.p[o]
  <2> HIDE DEF q, w
  <2>2. q \in Seq(Versions)
    BY <2>1 DEF q
  <2>3. Append(q, w) \in Seq(Versions)
    BY <1>6, <2>2
  <2> QED BY <2>1, <2>3 DEF q
<1> DEFINE ps == [b.p EXCEPT ![o] = vs]
           c == [b EXCEPT !.p = ps]
<1>9. blocks' = [blocks EXCEPT ![i] = c]
  BY <1>1, Zenon
<1>10. OnlyBlock(blocks, blocks', i) /\ ChangedAt(b, blocks'[i], o, b.e[o], vs, b.min)
  <2>1. ps \in [Slots -> Seq(Versions)] /\ ps[o] = vs /\ \A q \in Slots : q # o => ps[q] = b.p[q]
    <3> HIDE DEF vs
    <3> QED BY <1>7, <1>8
  <2>2. o \in 1 .. b.n /\ (\A q \in 1 .. b.n : q \in Slots) /\ \A q \in 1 .. b.n : b.e[q].eid = b.e[o].eid => q = o
    <3>1. b.n \in 0 .. BLOCK_CAPACITY
      BY <1>7 DEF BlockOK
    <3>2. o \in 1 .. b.n /\ \A q \in 1 .. b.n : b.e[q].eid = b.e[o].eid => q = o
      <4>1. Occupied(b, i, o)
        BY <1>5
      <4> HIDE DEF b, i, o
      <4> QED BY <4>1 DEF Occupied
    <3> HIDE DEF b, i, o
    <3>3. \A q \in 1 .. b.n : q \in Slots
      BY <3>1, ConstantFacts DEF Slots
    <3> QED BY <3>2, <3>3
  <2> HIDE DEF ps, b, i, o, vs
  <2>3. c.n = b.n /\ c.e = b.e /\ c.p = ps /\ c.min = b.min /\ c.dead = b.dead
    BY <1>7 DEF BlockFields
  <2> HIDE DEF c
  <2>4. DOMAIN blocks' = DOMAIN blocks /\ blocks'[i] = c /\ \A j \in DOMAIN blocks : j # i => blocks'[j] = blocks[j]
    BY <1>5, <1>9
  <2>5. Carries(b, c, b.e[o].eid, 0)
    BY <2>1, <2>2, <2>3 DEF Carries
  <2>6. ChangedAt(b, c, o, b.e[o], vs, b.min)
    BY <2>1, <2>3, <2>5 DEF ChangedAt
  <2> QED BY <2>4, <2>6 DEF OnlyBlock
<1> HIDE DEF ps, c
<1>11. /\ VersionsIn(blocks') /\ \A f \in Eids : f # e => Kept(blocks, loc, blocks', loc, f)
       /\ Cell(blocks', loc, e) = [slot |-> b.e[o], vs |-> vs, min |-> b.min, dead |-> x.dead]
  <2>1. Lower(x.min, b.min)
    BY <1>7, LowerFacts DEF Cell
  <2> DEFINE sl == b.e[o]
             mi == b.min
  <2>3. /\ sl.eid = e /\ mi \in Nat /\ Lower(Cell(blocks, loc, e).min, mi) /\ OnlyBlock(blocks, blocks', loc[e].b)
        /\ ChangedAt(blocks[loc[e].b], blocks'[loc[e].b], loc[e].o, sl, vs, mi)
    BY <1>5, <1>7, <1>10, <2>1
  <2>2. RewritesIn(blocks, loc, blocks', e, sl, vs, mi)
    <3> HIDE DEF sl, mi, vs
    <3> QED BY <1>3, <1>4, <2>3 DEF RewritesIn
  <2> HIDE DEF sl, mi, vs
  <2>4. /\ VersionsIn(blocks') /\ \A f \in Eids : f # e => Kept(blocks, loc, blocks', loc, f)
        /\ Cell(blocks', loc, e) = [slot |-> sl, vs |-> vs, min |-> mi, dead |-> Cell(blocks, loc, e).dead]
    BY <1>2, <2>2, RewriteCells
  <2> QED BY <2>4 DEF sl, mi
<1>12. LoadedEdge(y, log'[e]) /\ log' \in [Eids -> Seq(Versions)] /\ \A f \in Eids : f # e => log'[f] = log[f]
  <2> DEFINE g == log[e]
  <2>1. LoadedEdge(x, g) /\ g \in Seq(Versions)
    BY <1>2, <1>4
  <2>2. x.slot = b.e[o]
    BY DEF Cell
  <2>3. y.slot = x.slot /\ y.vs = vs
    <3> HIDE DEF x, vs, b, o
    <3>1. loc' = loc
      BY <1>1
    <3> QED BY <1>11, <2>2, <3>1
  <2>4. log' = [log EXCEPT ![e] = Append(g, w)]
    BY <1>1
  <2>5. EndsIn(vs, w)
    <3> DEFINE q == b.p[o]
    <3> HIDE DEF q, w
    <3>1. q \in Seq(Versions)
      BY <1>8 DEF q
    <3>2. EndsIn(Append(q, w), w)
      BY <1>6, <3>1 DEF EndsIn
    <3> QED BY <3>2 DEF q
  <2> HIDE DEF w, vs, x, y, g
  <2>6. /\ Append(g, w) \in Seq(Versions) /\ Append(g, w)[Len(Append(g, w))] = w
        /\ Append(g, w) # <<>> /\ \A k \in DOMAIN Append(g, w) : Append(g, w)[k] = w \/ (k \in DOMAIN g /\ Append(g, w)[k] = g[k])
    BY <1>6, <2>1, Appended
  <2>7. log' \in [Eids -> Seq(Versions)] /\ log'[e] = Append(g, w) /\ \A f \in Eids : f # e => log'[f] = log[f]
    BY <1>2, <2>4, <2>6
  <2>8. ~IsTombstone(x.slot)
    BY <2>1 DEF LoadedEdge
  <2> QED BY <1>6, <2>1, <2>3, <2>5, <2>6, <2>7, <2>8 DEF LoadedEdge, Shows
<1>a. loc' = loc /\ phase = "load" /\ phase' = phase /\ clock' = clock /\ tx' = tx
  BY <1>1
<1> HIDE DEF b, vs, w, x, y
<1>13. ASSUME NEW f \in Eids
       PROVE  IF loc'[f] = NoLoc THEN log'[f] = <<>> ELSE LoadedEdge(Cell(blocks', loc', f), log'[f])
  <2>1. CASE f = e
    BY <1>a, <1>4, <1>12, <2>1 DEF y
  <2>2. CASE f # e
    <3>1. Kept(blocks, loc, blocks', loc', f) /\ log'[f] = log[f]
      BY <1>a, <1>11, <1>12, <2>2
    <3>2. IF loc[f] = NoLoc THEN log[f] = <<>> ELSE LoadedEdge(Cell(blocks, loc, f), log[f])
      BY <1>2
    <3> QED BY <3>1, <3>2, LoadedKept
  <2> QED BY <2>1, <2>2
<1> QED BY <1>a, <1>11, <1>12, <1>13, LoadStep

LEMMA DeleteVertexSInv ==
  ASSUME KeepOff, OInv, OInv', SInv, NEW v \in Vertices, delete_vertex(v)
  PROVE  SInv'
<1>1. /\ phase = "load" /\ (phase' = phase \/ phase' = "poisoned")
      /\ loc' = loc /\ log' = log /\ clock' = clock /\ tx' = tx
  BY DEF delete_vertex, Load
<1>2. DOMAIN blocks' = DOMAIN blocks
      /\ \A b \in DOMAIN blocks : blocks'[b] = blocks[b] \/ blocks'[b] = [blocks[b] EXCEPT !.dead = TRUE]
  <2>1. PICK i \in VertexIter(v) :
          blocks' = [b \in DOMAIN blocks |->
                        IF \E k \in DOMAIN Chain(vertices[i].block) : Chain(vertices[i].block)[k] = b
                        THEN [blocks[b] EXCEPT !.dead = TRUE] ELSE blocks[b]]
    BY DEF delete_vertex
  <2> QED BY <2>1, Zenon
<1>3. /\ VersionsIn(blocks) /\ log \in [Eids -> Seq(Versions)]
      /\ \A f \in Eids : IF loc[f] = NoLoc THEN log[f] = <<>> ELSE LoadedEdge(Cell(blocks, loc, f), log[f])
  BY <1>1, LoadState
<1>4. \A b \in DOMAIN blocks : DOMAIN blocks[b] = BlockFields
  BY DEF OInv, Exact, BlocksOK, BlockOK
<1>5. ASSUME NEW b \in DOMAIN blocks
      PROVE  blocks'[b].min = blocks[b].min /\ blocks'[b].p = blocks[b].p /\ blocks'[b].e = blocks[b].e
  <2> DEFINE x == blocks[b]
             y == blocks'[b]
  <2>1. DOMAIN x = BlockFields /\ (y = x \/ y = [x EXCEPT !.dead = TRUE])
    BY <1>2, <1>4
  <2> HIDE DEF x, y
  <2>2. y.min = x.min /\ y.p = x.p /\ y.e = x.e
    BY <2>1 DEF BlockFields
  <2> QED BY <2>2 DEF x, y
<1>6. VersionsIn(blocks')
  BY <1>2, <1>3, <1>5 DEF VersionsIn
<1>7. ASSUME NEW f \in Eids
      PROVE  IF loc'[f] = NoLoc THEN log'[f] = <<>> ELSE LoadedEdge(Cell(blocks', loc', f), log'[f])
  <2>1. CASE loc[f] = NoLoc
    BY <1>1, <1>3, <2>1
  <2>2. CASE loc[f] # NoLoc
    <3>1. LoadedEdge(Cell(blocks, loc, f), log[f])
      BY <1>3, <2>2
    <3>2. loc[f].b \in DOMAIN blocks
      BY <1>3, <2>2, CellTyped DEF OInv
    <3>3. Cell(blocks', loc', f).slot = Cell(blocks, loc, f).slot /\ Cell(blocks', loc', f).vs = Cell(blocks, loc, f).vs
      BY <1>1, <1>5, <3>2 DEF Cell
    <3> QED BY <1>1, <2>2, <3>1, <3>3 DEF LoadedEdge, Shows
  <2> QED BY <2>1, <2>2
<1> QED BY <1>1, <1>3, <1>6, <1>7, LoadStep

LEMMA VertexSInv ==
  ASSUME KeepOff, OInv, SInv, NEW v \in Vertices, create_vertex(v) \/ set_vertex_property(v, 1)
  PROVE  SInv'
<1>1. /\ blocks' = blocks /\ loc' = loc /\ eids' = eids /\ log' = log /\ clock' = clock /\ tx' = tx
      /\ phase' \in {phase, "poisoned"}
  <2>1. CASE create_vertex(v)
    BY <2>1 DEF create_vertex, Load
  <2>2. CASE set_vertex_property(v, 1)
    BY <2>2 DEF set_vertex_property, Load, Panic
  <2> QED BY <2>1, <2>2
<1>2. phase' \in {"load", "run"} => phase' = phase
  BY <1>1
<1> QED BY <1>1, <1>2, StoreSame

LEMMA OtherSInv ==
  ASSUME KeepOff, OInv, SInv, EndLoad \/ compress_edge \/ compress_property \/ UNCHANGED vars
  PROVE  SInv'
<1>1. CASE compress_edge \/ compress_property
  BY <1>1 DEF compress_edge, compress_property, SInv
<1>2. CASE EndLoad \/ UNCHANGED vars
  <2>1. /\ blocks' = blocks /\ loc' = loc /\ eids' = eids /\ log' = log /\ clock' = clock /\ tx' = tx
        /\ phase' \in {"load", "run"} => phase' = phase \/ (phase = "load" /\ phase' = "run")
    BY <1>2 DEF EndLoad, vars, store
  <2> QED BY <2>1, StoreSame
<1> QED BY <1>1, <1>2

LEMMA InitSInv == Init => SInv
<1> SUFFICES ASSUME Init PROVE SInv
  OBVIOUS
<1>1. /\ blocks = <<>> /\ eids = 0 /\ loc = [e \in Eids |-> NoLoc] /\ phase = "load"
      /\ clock = 0 /\ tx = [t \in Txns |-> NewTx("idle", 0)] /\ log = [e \in Eids |-> <<>>]
  BY DEF Init
<1>2. VersionsIn(blocks) /\ log \in [Eids -> Seq(Versions)]
  BY <1>1 DEF VersionsIn
<1>3. \A e \in Eids : EdgeInv(e)
  BY <1>1 DEF EdgeInv
<1>4. \A t \in Txns : tx[t].st = "idle" /\ tx[t].undo = <<>> /\ tx[t].look = NoLook /\ tx[t].start = 0
                       /\ tx[t].commit = NONE
  BY <1>1 DEF NewTx
<1>5. \A t \in Txns : TxInv(t) /\ WaitInv(t)
  BY <1>1, <1>4 DEF TxInv, WaitInv
<1>6. \A t \in Txns : \A e : Written(t, e) = {}
  BY <1>4 DEF Written
<1>7. \A t \in Txns : \A e \in Eids : OwnerInv(t, e)
  BY <1>6 DEF OwnerInv
<1>8. clock <= Cardinality(Ended)
  <2>1. Ended = {}
    BY <1>4 DEF Ended
  <2> QED BY <1>1, <2>1, FS_EmptySet
<1>9. NoneGone
  BY <1>1 DEF NoneGone
<1> QED BY <1>2, <1>3, <1>4, <1>5, <1>7, <1>8, <1>9 DEF SInv

-----------------------------------------------------------------------------
(* Transactions begin and look.                                              *)

\* What holds while transactions run.
RunInv ==
    /\ VersionsIn(blocks) /\ log \in [Eids -> Seq(Versions)]
    /\ \A e \in Eids : EdgeInv(e)
    /\ \A t \in Txns : TxInv(t) /\ WaitInv(t) /\ \A e \in Eids : OwnerInv(t, e)
    /\ clock <= Cardinality(Ended)

LEMMA RunState ==
  /\ SInv /\ phase = "run" => RunInv
  /\ RunInv' /\ phase' = "run" => SInv'
<1>1. SInv /\ phase = "run" => RunInv
  BY DEF SInv, RunInv
<1>2. RunInv' /\ phase' = "run" => SInv'
  BY DEF SInv, RunInv
<1> QED BY <1>1, <1>2

\* A transaction that has written something is at work, and no one else's
\* records change with its own.
LEMMA OneRecord ==
  ASSUME OInv, NEW t \in Txns, NEW r, tx' = [tx EXCEPT ![t] = r]
  PROVE  /\ tx'[t] = r /\ \A u \in Txns : u # t => tx'[u] = tx[u]
         /\ \A u \in Txns : u # t => \A e : Written(u, e)' = Written(u, e) /\ SameWrites(u, e)
<1>1. tx \in [Txns -> TxRecords]
  BY DEF OInv
<1>2. tx'[t] = r /\ \A u \in Txns : u # t => tx'[u] = tx[u]
  BY <1>1
<1>3. \A u \in Txns : u # t => \A e : Written(u, e)' = Written(u, e) /\ SameWrites(u, e)
  BY <1>2 DEF Written, SameWrites
<1> QED BY <1>2, <1>3

LEMMA RecordStep ==
  ASSUME OInv, RunInv, blocks' = blocks, loc' = loc, log' = log, clock' = clock,
         NEW t \in Txns, NEW r, tx' = [tx EXCEPT ![t] = r], r.undo = tx[t].undo, r.st = "active",
         r.commit = tx[t].commit, tx[t].st \in {"idle", "active"}, r.start \in Nat, r.start <= clock,
         r.commit # NONE => r.start = tx[t].start, r.undo # <<>> => r.snap = tx[t].snap /\ r.start = tx[t].start,
         \A u \in Txns : WaitInv(u)'
  PROVE  RunInv'
<1>1. /\ tx'[t] = r /\ \A u \in Txns : u # t => tx'[u] = tx[u]
      /\ \A u \in Txns : u # t => \A e : Written(u, e)' = Written(u, e) /\ SameWrites(u, e)
  BY OneRecord
<1>2. \A e : Written(t, e)' = Written(t, e)
  BY <1>1 DEF Written
<1>3. ASSUME NEW e \in Eids PROVE Untouched(e) /\ StillWritten(e)
  <2>1. Untouched(e)
    BY DEF Untouched, SameCell, Lower
  <2>2. StillWritten(e)
    BY <1>1, <1>2 DEF StillWritten
  <2> QED BY <2>1, <2>2
<1>4. \A e \in Eids : EdgeInv(e)'
  <2>1. clock \in Nat
    BY DEF OInv
  <2> QED BY <1>3, <2>1, EdgeUntouched DEF RunInv
<1>5. ASSUME NEW e \in Eids, NEW u \in Txns PROVE OwnerInv(u, e)'
  <2>1. CASE u = t /\ r.undo = <<>>
    <3>1. Written(t, e)' = {}
      BY <1>1, <2>1 DEF Written
    <3> QED BY <2>1, <3>1 DEF OwnerInv
  <2>2. CASE u # t \/ r.undo # <<>>
    <3>1. SameWrites(u, e)
      BY <1>1, <1>2, <2>2 DEF SameWrites
    <3> QED BY <1>3, <3>1, OwnerUntouched DEF RunInv
  <2> QED BY <2>1, <2>2
<1>6. \A u \in Txns : TxInv(u)'
  BY <1>1 DEF RunInv, TxInv
<1>7. (clock <= Cardinality(Ended))'
  <2>1. Ended' = Ended
    BY <1>1 DEF Ended
  <2> QED BY <2>1 DEF RunInv
<1>8. VersionsIn(blocks)' /\ (log \in [Eids -> Seq(Versions)])'
  BY DEF RunInv, VersionsIn
<1> QED BY <1>4, <1>5, <1>6, <1>7, <1>8 DEF RunInv

\* The waits of the others, when the store is as before.
LEMMA WaitsKept ==
  ASSUME OInv, RunInv, blocks' = blocks, loc' = loc, eids' = eids,
         NEW t \in Txns, NEW r, tx' = [tx EXCEPT ![t] = r], r.look = NoLook
  PROVE  \A u \in Txns : WaitInv(u)'
<1>1. tx'[t] = r /\ \A u \in Txns : u # t => tx'[u] = tx[u]
  BY OneRecord
<1>2. WaitInv(t)'
  BY <1>1 DEF WaitInv
<1>3. ASSUME NEW u \in Txns, u # t PROVE WaitInv(u)'
  <2>1. tx'[u] = tx[u] /\ eids \in Nat /\ WaitInv(u)
    BY <1>1, <1>3, ConstantFacts DEF OInv, RunInv
  <2>2. \A w \in Txns : tx'[w].look.eid = tx[w].look.eid \/ tx'[w].look = NoLook
    BY <1>1
  <2>3. \A e : StillThere(e)
    BY DEF StillThere
  <2> QED BY <2>1, <2>2, <2>3, WaitKept
<1> QED BY <1>2, <1>3

LEMMA BeginSInv ==
  ASSUME KeepOff, OInv, SInv, NEW t \in Txns, Begin(t)
  PROVE  SInv'
<1> DEFINE r == NewTx("active", clock)
<1>1. /\ phase = "run" /\ phase' = "run" /\ tx[t].st = "idle" /\ tx' = [tx EXCEPT ![t] = r]
      /\ blocks' = blocks /\ loc' = loc /\ eids' = eids /\ log' = log /\ clock' = clock
  BY DEF Begin
<1>2. RunInv
  BY <1>1, RunState
<1>3. r.undo = <<>> /\ r.st = "active" /\ r.start = clock /\ r.look = NoLook /\ r.commit = NONE
  BY DEF NewTx
<1>4. tx[t].undo = <<>> /\ tx[t].commit = NONE /\ clock \in Nat
  BY <1>1, <1>2 DEF RunInv, TxInv, OInv
<1> HIDE DEF r
<1>5. \A u \in Txns : WaitInv(u)'
  BY <1>1, <1>2, <1>3, WaitsKept
<1>6. RunInv'
  <2>1. /\ r.undo = tx[t].undo /\ r.start \in Nat /\ r.start <= clock /\ tx[t].st \in {"idle", "active"}
        /\ r.commit = tx[t].commit /\ r.commit = NONE
        /\ r.undo # <<>> => r.snap = tx[t].snap /\ r.start = tx[t].start
    BY <1>1, <1>3, <1>4
  <2> QED BY <1>1, <1>2, <1>3, <1>5, <2>1, RecordStep
<1> QED BY <1>1, <1>6, RunState

LEMMA LookedInVainSInv ==
  ASSUME KeepOff, OInv, SInv, NEW t \in Txns, LookedInVain(t)
  PROVE  SInv'
<1> DEFINE r == [tx[t] EXCEPT !.look = NoLook]
<1>1. /\ phase = "run" /\ phase' = "run" /\ tx[t].st = "active" /\ tx' = [tx EXCEPT ![t] = r]
      /\ blocks' = blocks /\ loc' = loc /\ eids' = eids /\ log' = log /\ clock' = clock
  BY DEF LookedInVain, Active
<1>2. RunInv
  BY <1>1, RunState
<1>3. tx[t] \in TxRecords /\ tx[t].start \in Nat /\ tx[t].start <= clock
  BY <1>2, TxTyped DEF RunInv, TxInv
<1>4. /\ r.undo = tx[t].undo /\ r.st = "active" /\ r.start = tx[t].start /\ r.look = NoLook /\ r.snap = tx[t].snap
      /\ r.commit = tx[t].commit
  BY <1>1, <1>3 DEF TxRecords
<1> HIDE DEF r
<1>5. \A u \in Txns : WaitInv(u)'
  BY <1>1, <1>2, <1>4, WaitsKept
<1>6. RunInv'
  BY <1>1, <1>2, <1>3, <1>4, <1>5, RecordStep
<1> QED BY <1>1, <1>6, RunState

LEMMA LookUpSInv ==
  ASSUME KeepOff, OInv, SInv, NEW t \in Txns, NEW op \in {"set", "del"}, NEW e \in Eids, LookUp(t, op, e)
  PROVE  SInv'
<1> DEFINE k == [op |-> op, eid |-> e, loc |-> loc[e]]
           r == [tx[t] EXCEPT !.look = k]
           x == Cell(blocks, loc, e)
<1>1. /\ phase = "run" /\ phase' = "run" /\ tx[t].st = "active" /\ tx' = [tx EXCEPT ![t] = r]
      /\ blocks' = blocks /\ loc' = loc /\ eids' = eids /\ log' = log /\ clock' = clock /\ loc[e] # NoLoc
  BY DEF LookUp, Active
<1>2. /\ get_edge_at_ts(t, e, loc[e]).found \/ blocks[loc[e].b].dead
      /\ \A u \in Txns : tx[u].look.eid # e
  BY DEF LookUp, KeepOff
<1>3. RunInv
  BY <1>1, RunState
<1>4. tx[t] \in TxRecords /\ tx[t].start \in Nat /\ tx[t].start <= clock
  BY <1>3, TxTyped DEF RunInv, TxInv
<1>5. /\ r.undo = tx[t].undo /\ r.st = "active" /\ r.start = tx[t].start /\ r.look = k /\ r.snap = tx[t].snap
      /\ r.commit = tx[t].commit
  <2> HIDE DEF k
  <2> QED BY <1>1, <1>4 DEF TxRecords
<1>6. e \in 1 .. eids /\ x.slot = blocks[loc[e].b].e[loc[e].o] /\ x.dead = blocks[loc[e].b].dead
  BY <1>1, <1>3, CellTyped DEF OInv, RunInv
<1>7. x.dead \/ (~IsTombstone(x.slot) /\ Sees(t, x.slot.ts))
  <2>1. CASE blocks[loc[e].b].dead
    BY <1>6, <2>1
  <2>2. CASE get_edge_at_ts(t, e, loc[e]).found
    <3>1. None.found = FALSE
      BY DEF None
    <3>2. ~IsTombstone(blocks[loc[e].b].e[loc[e].o]) /\ Sees(t, blocks[loc[e].b].e[loc[e].o].ts)
      BY <2>2, <3>1, Zenon DEF get_edge_at_ts
    <3> QED BY <1>6, <3>2
  <2> QED BY <1>2, <2>1, <2>2
<1>8. /\ tx'[t] = r /\ \A u \in Txns : u # t => tx'[u] = tx[u]
  BY <1>1, OneRecord
<1>9. k.eid = e
  OBVIOUS
<1> HIDE DEF k, r, x
<1>10. WaitInv(t)'
  <2>1. Sees(t, x.slot.ts)' <=> Sees(t, x.slot.ts)
    BY <1>1, <1>5, <1>8 DEF Sees, x
  <2>2. tx'[t].look.eid = e /\ tx'[t].st = "active"
    BY <1>5, <1>8, <1>9
  <2>3. \A u \in Txns : u # t => tx'[u].look.eid # e
    BY <1>2, <1>8
  <2> QED BY <1>1, <1>6, <1>7, <2>1, <2>2, <2>3 DEF WaitInv, x
<1>11. ASSUME NEW u \in Txns, u # t PROVE WaitInv(u)'
  <2>1. tx'[u] = tx[u] /\ WaitInv(u)
    BY <1>3, <1>8, <1>11 DEF RunInv
  <2> SUFFICES ASSUME tx[u].look # NoLook PROVE WaitInv(u)'
    BY <2>1 DEF WaitInv
  <2>2. \A w \in Txns : w # u => tx'[w].look.eid # tx[u].look.eid
    <3>1. tx'[t].look.eid # tx[u].look.eid
      BY <1>2, <1>5, <1>8, <1>9
    <3>2. \A w \in Txns : w # u /\ w # t => tx'[w].look.eid # tx[u].look.eid
      BY <1>8, <2>1 DEF WaitInv
    <3> QED BY <3>1, <3>2
  <2>3. \A ts : Sees(u, ts)' <=> Sees(u, ts)
    BY <2>1 DEF Sees
  <2> QED BY <1>1, <2>1, <2>2, <2>3 DEF WaitInv
<1>12. RunInv'
  <2>1. \A u \in Txns : WaitInv(u)'
    BY <1>10, <1>11
  <2> QED BY <1>1, <1>3, <1>4, <1>5, <2>1, RecordStep
<1> QED BY <1>1, <1>12, RunState

-----------------------------------------------------------------------------
(* Writes of a transaction.                                                  *)

\* Entry k of t's undo buffer is new: rec, a write to edge n.
PushedOne(t, rec, k, n) ==
    /\ Written(t, n)' = Written(t, n) \cup {k} /\ tx'[t].undo[k] = rec
    /\ \A f : f # n => Written(t, f)' = Written(t, f)
    /\ \A f : \A i \in Written(t, f) : tx'[t].undo[i] = tx[t].undo[i] /\ i < k /\ i \in Nat
    /\ k \in Nat

LEMMA Pushed ==
  ASSUME OInv, NEW t \in Txns, NEW rec \in UndoRecords, tx'[t].undo = Append(tx[t].undo, rec),
         NEW k, k = Len(tx[t].undo) + 1, NEW n, n = rec.eid
  PROVE  PushedOne(t, rec, k, n)
<1> DEFINE u == tx[t].undo
<1>0. k = Len(u) + 1
  OBVIOUS
<1>1. u \in Seq(UndoRecords) /\ DOMAIN u = 1 .. Len(u) /\ Len(u) \in Nat
  BY TxTyped
<1>2. tx'[t].undo = Append(u, rec)
  OBVIOUS
<1> DEFINE w == tx'[t].undo
<1>3. DOMAIN w = 1 .. k /\ w[k] = rec /\ \A i \in 1 .. Len(u) : w[i] = u[i]
  <2> HIDE DEF u
  <2> QED BY <1>0, <1>1, <1>2
<1>4. \A f : Written(t, f) = {i \in DOMAIN u : u[i].eid = f} /\ Written(t, f)' = {i \in DOMAIN w : w[i].eid = f}
  BY DEF Written
<1> HIDE DEF u, w
<1>5. k \in Nat /\ 1 .. k = (1 .. Len(u)) \cup {k} /\ \A i \in 1 .. Len(u) : i < k /\ i \in Nat
  BY <1>0, <1>1
<1>6. ASSUME NEW f PROVE \A i \in Written(t, f) : w[i] = u[i] /\ i < k /\ i \in Nat
  BY <1>1, <1>3, <1>4, <1>5
<1>7. Written(t, n)' = Written(t, n) \cup {k}
  BY <1>1, <1>3, <1>4, <1>5
<1>8. ASSUME NEW f, f # n PROVE Written(t, f)' = Written(t, f)
  <2>1. \A i \in 1 .. k : w[i].eid = f <=> i \in 1 .. Len(u) /\ u[i].eid = f
    BY <1>3, <1>5, <1>8
  <2>2. Written(t, f)' = {i \in 1 .. k : w[i].eid = f} /\ Written(t, f) = {i \in 1 .. Len(u) : u[i].eid = f}
    BY <1>1, <1>3, <1>4, Zenon
  <2>3. \A i : i \in 1 .. Len(u) => i \in 1 .. k
    BY <1>5
  <2> QED BY <2>1, <2>2, <2>3, Zenon
<1> QED BY <1>3, <1>5, <1>6, <1>7, <1>8 DEF u, w, PushedOne

\* One edge is written by one transaction: what is left to show is about that edge.
LEMMA WriteStep ==
  ASSUME KeepOff, OInv, OInv', RunInv, VersionsIn(blocks'), log' \in [Eids -> Seq(Versions)], clock' = clock,
         eids <= eids', NEW t \in Txns, NEW r, tx' = [tx EXCEPT ![t] = r], r.st = "active", r.look = NoLook,
         tx[t].st = "active", r.start = tx[t].start, r.commit = tx[t].commit, NEW e \in Eids,
         \A f \in Eids : f # e => Untouched(f) /\ SameWrites(t, f),
         Written(t, e)' # {}, EdgeInv(e)', OwnerInv(t, e)',
         \A u \in Txns : u # t => Written(u, e) = {} /\ tx[u].look.eid # e
  PROVE  RunInv'
<1>1. /\ tx'[t] = r /\ \A u \in Txns : u # t => tx'[u] = tx[u]
      /\ \A u \in Txns : u # t => \A f : Written(u, f)' = Written(u, f) /\ SameWrites(u, f)
  BY OneRecord
<1>2. ASSUME NEW f \in Eids PROVE EdgeInv(f)'
  <2>1. CASE f = e
    BY <2>1
  <2>2. CASE f # e
    <3>1. Untouched(f) /\ StillWritten(f)
      <4>1. Written(t, f)' = Written(t, f)
        BY <2>2 DEF SameWrites
      <4> QED BY <1>1, <2>2, <4>1 DEF StillWritten
    <3>2. clock' \in Nat /\ clock <= clock'
      BY DEF OInv
    <3> QED BY <3>1, <3>2, EdgeUntouched DEF RunInv
  <2> QED BY <2>1, <2>2
<1>3. ASSUME NEW u \in Txns, NEW f \in Eids PROVE OwnerInv(u, f)'
  <2>1. CASE f = e /\ u = t
    BY <2>1
  <2>2. CASE f = e /\ u # t
    <3>1. Written(u, e)' = {}
      BY <1>1, <2>2
    <3> QED BY <2>2, <3>1 DEF OwnerInv
  <2>3. CASE f # e
    <3>1. SameWrites(u, f) /\ Untouched(f)
      BY <1>1, <2>3
    <3> QED BY <3>1, OwnerUntouched DEF RunInv
  <2> QED BY <2>1, <2>2, <2>3
<1>4. ASSUME NEW u \in Txns PROVE WaitInv(u)'
  <2>1. CASE u = t
    BY <1>1, <2>1 DEF WaitInv
  <2>2. CASE u # t
    <3>1. tx'[u] = tx[u] /\ eids \in Nat /\ eids' \in Nat /\ WaitInv(u)
      BY <1>1, <2>2, ConstantFacts DEF OInv, RunInv
    <3>2. \A w \in Txns : tx'[w].look.eid = tx[w].look.eid \/ tx'[w].look = NoLook
      BY <1>1
    <3>3. ASSUME tx[u].look # NoLook PROVE StillThere(tx[u].look.eid)
      <4>1. tx[u].look.eid \in Eids /\ tx[u].look.eid # e
        <5>1. tx[u].look.eid \in 1 .. eids
          BY <3>1, <3>3 DEF WaitInv
        <5> QED BY <2>2, <5>1, ConstantFacts DEF OInv, Eids
      <4> QED BY <4>1, UntouchedThere
    <3> QED BY <3>1, <3>2, <3>3, WaitKept
  <2> QED BY <2>1, <2>2
<1>5. \A u \in Txns : TxInv(u)'
  BY <1>1 DEF RunInv, TxInv
<1>6. (clock <= Cardinality(Ended))'
  <2>1. Ended' = Ended
    BY <1>1 DEF Ended
  <2> QED BY <2>1 DEF RunInv
<1>7. VersionsIn(blocks)'
  BY DEF VersionsIn
<1> QED BY <1>2, <1>3, <1>4, <1>5, <1>6, <1>7 DEF RunInv

LEMMA CreateEdgeInTxnSInv ==
  ASSUME KeepOff, OInv, OInv', SInv, NEW t \in Txns, NEW v \in Vertices, NEW d \in Dsts, NEW val \in Nat,
         create_edge_in_txn(t, v, d, val)
  PROVE  SInv'
<1>a. PICK n : n = eids + 1
  OBVIOUS
<1>b. PICK k : k = Len(tx[t].undo) + 1
  OBVIOUS
<1> DEFINE y == Cell(blocks', loc', n)
           id == txn_id(t)
           ver == Version(id, val)
<1>c. PICK rec : rec = [op |-> "create", eid |-> n, ts |-> id]
  OBVIOUS
<1>d. PICK r : r = push_undo(t, "create", n, id)
  OBVIOUS
<1>1. /\ phase = "run" /\ phase' = "run" /\ tx[t].st = "active" /\ tx[t].look = NoLook
      /\ InsertEdge(v, d, val, id, id) /\ tx' = [tx EXCEPT ![t] = r] /\ clock' = clock
  BY <1>a, <1>d DEF create_edge_in_txn, Active, CanWrite, AtRest
<1>2. RunInv
  BY <1>1, RunState
<1>3. id \in Nat /\ is_txn_id(id) /\ d \in Nat /\ d # TOMBSTONE_DST_ID
  BY TxnIds, ConstantFacts DEF KeepOff
<1>4. /\ n \in Eids /\ loc[n] = NoLoc /\ loc'[n] # NoLoc /\ eids' = n
      /\ VersionsIn(blocks') /\ log' \in [Eids -> Seq(Versions)] /\ log'[n] = <<ver>>
      /\ y.slot = [eid |-> n, dst |-> d, ts |-> id] /\ EndsIn(y.vs, ver)
      /\ \A e \in Eids : e # n => Untouched(e)
  BY <1>1, <1>2, <1>3, <1>a, InsertCells DEF RunInv
<1>5. tx[t] \in TxRecords /\ rec \in UndoRecords /\ eids \in Nat
  BY <1>3, <1>4, <1>c, TxTyped, ConstantFacts DEF UndoRecords, OInv
<1>6. /\ r.undo = Append(tx[t].undo, rec) /\ r.st = "active" /\ r.look = NoLook /\ r.start = tx[t].start
      /\ r.snap = tx[t].snap /\ r.commit = tx[t].commit
  <2>1. r = [tx[t] EXCEPT !.undo = Append(tx[t].undo, rec), !.look = NoLook]
    BY <1>c, <1>d DEF push_undo
  <2> QED BY <1>1, <1>5, <2>1 DEF TxRecords
<1>7. tx'[t] = r
  BY <1>1, OneRecord
<1>8. rec.op = "create" /\ rec.eid = n /\ rec.ts = id
  BY <1>c
<1>9. /\ Written(t, n)' = Written(t, n) \cup {k} /\ tx'[t].undo[k] = rec
      /\ \A f : f # n => Written(t, f)' = Written(t, f)
      /\ \A f : \A i \in Written(t, f) : tx'[t].undo[i] = tx[t].undo[i]
  <2>1. tx'[t].undo = Append(tx[t].undo, rec)
    BY <1>6, <1>7
  <2>2. rec \in UndoRecords /\ n = rec.eid
    BY <1>5, <1>8
  <2>3. PushedOne(t, rec, k, n)
    BY <1>b, <2>1, <2>2, Pushed
  <2> QED BY <2>3 DEF PushedOne
<1>10. \A u \in Txns : Written(u, n) = {}
  BY <1>2, <1>4 DEF RunInv, OwnerInv
<1>11. \A f \in Eids : f # n => Untouched(f) /\ SameWrites(t, f)
  BY <1>4, <1>6, <1>7, <1>9 DEF SameWrites
<1>12. /\ ver.ts = id /\ y.slot.ts = id /\ ~IsTombstone(y.slot) /\ log'[n] # <<>> /\ log'[n][Len(log'[n])] = ver
       /\ \A i \in DOMAIN log'[n] : log'[n][i].ts = id
  <2>1. ver.ts = id
    BY DEF Version
  <2>2. y.slot.ts = id /\ y.slot.dst = d
    BY <1>4
  <2> HIDE DEF ver, y
  <2>3. log'[n] # <<>> /\ log'[n][Len(log'[n])] = ver /\ \A i \in DOMAIN log'[n] : log'[n][i] = ver
    BY <1>4
  <2> QED BY <1>3, <2>1, <2>2, <2>3 DEF IsTombstone
<1>13. EdgeInv(n)'
  <2>1. Shows(y, log'[n][Len(log'[n])])
    BY <1>4, <1>12 DEF Shows
  <2>2. \E u \in Txns : y.slot.ts = txn_id(u) /\ Written(u, n)' # {}
    BY <1>9, <1>12
  <2> QED BY <1>3, <1>4, <1>12, <2>1, <2>2, EdgeFrom
<1>14. OwnerInv(t, n)'
  <2>1. Written(t, n)' = {k} /\ tx'[t].undo[k].op = "create"
    BY <1>8, <1>9, <1>10
  <2>2. FirstWrite(t, n, k)' /\ k \in Written(t, n)'
    BY <2>1 DEF FirstWrite
  <2>3. ~Wrote(t, n, "del")'
    BY <2>1 DEF Wrote
  <2> HIDE DEF y
  <2> QED BY <1>4, <1>12, <2>1, <2>2, <2>3, OwnerFrom DEF y
<1>15. \A u \in Txns : u # t => tx[u].look.eid # n
  <2> SUFFICES ASSUME NEW u \in Txns, tx[u].look.eid = n PROVE FALSE
    OBVIOUS
  <2>1. NoLook.eid = 0 /\ n # 0
    BY <1>5, <1>a DEF NoLook, NONE
  <2>2. tx[u].look.eid \in 1 .. eids
    BY <1>2, <2>1 DEF RunInv, WaitInv
  <2> QED BY <1>5, <1>a, <2>2
<1>16. Written(t, n)' # {} /\ eids <= eids'
  BY <1>4, <1>5, <1>9, <1>a
<1>17. RunInv'
  BY <1>1, <1>2, <1>4, <1>6, <1>10, <1>11, <1>13, <1>14, <1>15, <1>16, WriteStep
<1> QED BY <1>1, <1>17, RunState

LEMMA EndsUnderAppend ==
  ASSUME NEW g \in Seq(Versions), NEW w \in Versions, NEW t, w.ts = txn_id(t), NEW v, EndsUnder(g, v, t)
  PROVE  EndsUnder(Append(g, w), v, t)
<1>1. PICK j \in DOMAIN g : g[j] = v /\ \A i \in DOMAIN g : i > j => g[i].ts = txn_id(t)
  BY DEF EndsUnder
<1> DEFINE h == Append(g, w)
<1>2. /\ DOMAIN g = 1 .. Len(g) /\ Len(g) \in Nat /\ DOMAIN h = 1 .. Len(g) + 1
      /\ \A i \in DOMAIN g : h[i] = g[i]
      /\ \A i \in DOMAIN h : h[i] = w \/ (i \in DOMAIN g /\ h[i] = g[i])
  BY Appended
<1> HIDE DEF h
<1>3. j \in DOMAIN h /\ h[j] = v
  BY <1>1, <1>2
<1>4. \A i \in DOMAIN h : i > j => h[i].ts = txn_id(t)
  BY <1>1, <1>2
<1>5. EndsUnder(h, v, t)
  BY <1>3, <1>4 DEF EndsUnder
<1> QED BY <1>5 DEF h

LEMMA EndsInUnder ==
  ASSUME NEW g \in Seq(Versions), NEW t, NEW v, EndsIn(g, v), v.ts # txn_id(t)
  PROVE  EndsUnder(g, v, t)
<1>1. DOMAIN g = 1 .. Len(g) /\ Len(g) \in Nat /\ g # <<>> /\ g[Len(g)] = v
  BY DEF EndsIn
<1>2. Len(g) \in DOMAIN g /\ \A i \in DOMAIN g : ~(i > Len(g))
  BY <1>1
<1> QED BY <1>1, <1>2 DEF EndsUnder

\* set_edge_property_in_txn or delete_edge_in_txn: entry k of t's undo buffer.
Rewrites(t, e, op, w, k) ==
    LET x == Cell(blocks, loc, e)
        y == Cell(blocks', loc', e)
    IN  /\ loc[e] # NoLoc /\ loc'[e] = loc[e] /\ ~IsTombstone(x.slot) /\ Sees(t, x.slot.ts)
        /\ y.slot.ts = txn_id(t) /\ (IsTombstone(y.slot) <=> op = "del") /\ Lower(x.min, y.min)
        /\ y.vs = (IF op = "del" THEN x.vs ELSE Append(x.vs, w))
        /\ log'[e] = Append(log[e], w)
        /\ PushedOne(t, [op |-> op, eid |-> e, ts |-> x.slot.ts], k, e)
        /\ tx'[t].start = tx[t].start /\ (op = "del" => tx'[t].snap[e] = x.slot.dst)

\* The write that is about to happen finds t's own mark, or a commit of its snapshot.
LEMMA FoundMark ==
  ASSUME KeepOff, OInv, RunInv, NEW t \in Txns, NEW e \in Eids, loc[e] # NoLoc, Sees(t, Cell(blocks, loc, e).slot.ts)
  PROVE  LET x == Cell(blocks, loc, e)
         IN  /\ x.slot \in Slot /\ x.slot.ts \in Nat /\ x.vs \in Seq(Versions) /\ x.min \in Nat
             /\ log[e] \in Seq(Versions) /\ log[e] # <<>> /\ Shows(x, log[e][Len(log[e])])
             /\ \A u \in Txns : u # t => Written(u, e) = {}
             /\ IF is_txn_id(x.slot.ts) THEN x.slot.ts = txn_id(t) /\ Written(t, e) # {}
                ELSE x.slot.ts <= tx[t].start /\ Settled(x, log[e], clock) /\ Written(t, e) = {}
<1> DEFINE x == Cell(blocks, loc, e)
<1>1. x.slot \in Slot /\ x.vs \in Seq(Versions) /\ x.min \in Nat /\ log[e] \in Seq(Versions)
  BY CellTyped DEF OInv, RunInv
<1>2. /\ log[e] # <<>> /\ Shows(x, log[e][Len(log[e])])
      /\ IF is_txn_id(x.slot.ts) THEN \E u \in Txns : x.slot.ts = txn_id(u) /\ Written(u, e) # {}
         ELSE Settled(x, log[e], clock)
  BY DEF RunInv, EdgeInv
<1>3. IF is_txn_id(x.slot.ts) THEN x.slot.ts = txn_id(t) ELSE x.slot.ts <= tx[t].start
  BY DEF Sees
<1>4. \A u \in Txns : Written(u, e) # {} => x.slot.ts = txn_id(u)
  BY DEF RunInv, OwnerInv
<1> HIDE DEF x
<1>5. x.slot.ts \in Nat
  BY <1>1 DEF Slot
<1>6. \A u \in Txns : u # t => Written(u, e) = {}
  <2> SUFFICES ASSUME NEW u \in Txns, u # t, Written(u, e) # {} PROVE FALSE
    OBVIOUS
  <2>1. x.slot.ts = txn_id(u) /\ is_txn_id(txn_id(u))
    BY <1>4, TxnIds
  <2>2. txn_id(u) = txn_id(t)
    BY <1>3, <2>1
  <2> QED BY <2>2, TxnIds
<1>7. CASE is_txn_id(x.slot.ts)
  <2>1. PICK u \in Txns : x.slot.ts = txn_id(u) /\ Written(u, e) # {}
    BY <1>2, <1>7
  <2>2. u = t
    BY <1>3, <1>7, <2>1, TxnIds
  <2> QED BY <1>1, <1>2, <1>3, <1>5, <1>6, <1>7, <2>1, <2>2 DEF x
<1>8. CASE ~is_txn_id(x.slot.ts)
  <2>1. Written(t, e) = {}
    BY <1>4, <1>8, TxnIds
  <2> QED BY <1>1, <1>2, <1>3, <1>5, <1>6, <1>8, <2>1 DEF x
<1> QED BY <1>7, <1>8

LEMMA WriterEdge ==
  ASSUME KeepOff, OInv, RunInv, NEW t \in Txns, NEW e \in Eids, NEW op \in {"set", "del"}, NEW k,
         NEW w \in Versions, w.ts = txn_id(t), op = "del" => w.val = NONE, Rewrites(t, e, op, w, k)
  PROVE  EdgeInv(e)' /\ Written(t, e)' # {}
<1> DEFINE x == Cell(blocks, loc, e)
           y == Cell(blocks', loc', e)
           g == log[e]
<1>1. /\ loc[e] # NoLoc /\ loc'[e] # NoLoc /\ Sees(t, x.slot.ts) /\ y.slot.ts = txn_id(t)
      /\ (IsTombstone(y.slot) <=> op = "del") /\ y.vs = (IF op = "del" THEN x.vs ELSE Append(x.vs, w))
      /\ log'[e] = Append(g, w)
  BY DEF Rewrites
<1>2. Written(t, e)' # {}
  BY DEF Rewrites, PushedOne
<1>3. x.vs \in Seq(Versions) /\ g \in Seq(Versions)
  BY <1>1, FoundMark
<1> HIDE DEF x, g
<1>4. Append(g, w) # <<>> /\ Append(g, w)[Len(Append(g, w))] = w
  BY <1>3, Appended
<1>5. EndsIn(Append(x.vs, w), w)
  BY <1>3, Appended DEF EndsIn
<1>6. Shows(y, w)
  <2> HIDE DEF y
  <2> QED BY <1>1, <1>5 DEF Shows
<1>7. \E u \in Txns : y.slot.ts = txn_id(u) /\ Written(u, e)' # {}
  BY <1>1, <1>2
<1>8. is_txn_id(y.slot.ts)
  BY <1>1, TxnIds
<1>9. EdgeInv(e)'
  <2> HIDE DEF y
  <2> QED BY <1>1, <1>4, <1>6, <1>7, <1>8, EdgeFrom DEF y
<1> QED BY <1>2, <1>9

LEMMA WriterOwner ==
  ASSUME KeepOff, OInv, RunInv, NEW t \in Txns, NEW e \in Eids, NEW op \in {"set", "del"}, NEW k,
         NEW w \in Versions, w.ts = txn_id(t), Rewrites(t, e, op, w, k)
  PROVE  OwnerInv(t, e)'
<1> DEFINE x == Cell(blocks, loc, e)
           y == Cell(blocks', loc', e)
           g == log[e]
           h == log'[e]
           id == txn_id(t)
           rec == [op |-> op, eid |-> e, ts |-> x.slot.ts]
<1>1. /\ loc[e] # NoLoc /\ loc'[e] # NoLoc /\ Sees(t, x.slot.ts) /\ y.slot.ts = id
      /\ (IsTombstone(y.slot) <=> op = "del") /\ y.vs = (IF op = "del" THEN x.vs ELSE Append(x.vs, w))
      /\ h = Append(g, w) /\ Lower(x.min, y.min) /\ ~IsTombstone(x.slot)
      /\ tx'[t].start = tx[t].start /\ (op = "del" => tx'[t].snap[e] = x.slot.dst)
  BY DEF Rewrites
<1>2. /\ Written(t, e)' = Written(t, e) \cup {k} /\ tx'[t].undo[k] = rec
      /\ \A i \in Written(t, e) : tx'[t].undo[i] = tx[t].undo[i] /\ i < k /\ i \in Nat
      /\ k \in Nat
  BY DEF Rewrites, PushedOne
<1>3. rec.op = op /\ rec.ts = x.slot.ts
  OBVIOUS
<1>4. /\ x.slot \in Slot /\ x.slot.ts \in Nat /\ x.vs \in Seq(Versions) /\ x.min \in Nat
      /\ g \in Seq(Versions) /\ g # <<>> /\ Shows(x, g[Len(g)])
      /\ IF is_txn_id(x.slot.ts) THEN x.slot.ts = id /\ Written(t, e) # {}
         ELSE x.slot.ts <= tx[t].start /\ Settled(x, g, clock) /\ Written(t, e) = {}
  BY <1>1, FoundMark
<1>5. op = "del" => tx'[t].snap[e] # TOMBSTONE_DST_ID
  BY <1>1 DEF IsTombstone
<1>6. id \in Nat /\ is_txn_id(id)
  BY TxnIds
<1>7. OwnerInv(t, e)
  BY DEF RunInv
<1>8. /\ Wrote(t, e, "set")' <=> (Wrote(t, e, "set") \/ op = "set")
      /\ Wrote(t, e, "del")' <=> (Wrote(t, e, "del") \/ op = "del")
  <2> HIDE DEF rec
  <2> QED BY <1>2, <1>3 DEF Wrote
<1>9. y = Cell(blocks', loc', e) /\ h = log'[e]
  OBVIOUS
<1>10. IF is_txn_id(x.slot.ts) THEN ~Wrote(t, e, "del") ELSE ~Wrote(t, e, "del") /\ ~Wrote(t, e, "set")
  <2>1. CASE is_txn_id(x.slot.ts)
    BY <1>1, <1>4, <1>7, <2>1 DEF OwnerInv
  <2>2. CASE ~is_txn_id(x.slot.ts)
    BY <1>4, <2>2 DEF Wrote
  <2> QED BY <2>1, <2>2
<1>11. /\ IsTombstone(y.slot) <=> Wrote(t, e, "del")'
       /\ Wrote(t, e, "del")' => tx'[t].snap[e] # TOMBSTONE_DST_ID
  BY <1>1, <1>5, <1>8, <1>10
<1>12. \A i \in DOMAIN h : h[i].ts = id \/ \E j \in DOMAIN g : h[i] = g[j]
  <2> HIDE DEF g, h
  <2> QED BY <1>1, <1>4, Appended
<1>13. \A v : EndsUnder(x.vs, v, t) => EndsUnder(y.vs, v, t)
  <2> SUFFICES ASSUME NEW v, EndsUnder(x.vs, v, t) PROVE EndsUnder(y.vs, v, t)
    OBVIOUS
  <2> HIDE DEF x, y
  <2>1. CASE op = "del"
    BY <1>1, <2>1
  <2>2. CASE op # "del"
    BY <1>1, <1>4, <2>2, EndsUnderAppend
  <2> QED BY <2>1, <2>2
<1>14. \A v : EndsUnder(g, v, t) => EndsUnder(h, v, t)
  <2> HIDE DEF g, h
  <2> QED BY <1>1, <1>4, EndsUnderAppend
<1>15. op # "set" => y.vs = x.vs
  BY <1>1
<1>16. tx[t].start \in Nat
  BY TxTyped
<1> HIDE DEF x, y, g, h, id, rec
<1>17. CASE is_txn_id(x.slot.ts)
  <2>1. PICK i \in Written(t, e) :
          /\ FirstWrite(t, e, i)
          /\ IF tx[t].undo[i].op = "create" THEN \A n \in DOMAIN g : g[n].ts = txn_id(t)
             ELSE Underneath(t, x, g, tx[t].undo[i].ts, tx[t].start, Wrote(t, e, "set"))
    BY <1>4, <1>7, <1>17 DEF OwnerInv, x, g
  <2>2. tx'[t].undo[i] = tx[t].undo[i] /\ i \in Written(t, e)' /\ i < k /\ i \in Nat
    BY <1>2
  <2>3. FirstWrite(t, e, i)'
    <3>1. tx'[t].undo[k].op # "create" /\ tx'[t].undo[k].ts = txn_id(t) /\ k > i
      BY <1>2, <1>3, <1>4, <1>17, <2>2 DEF id
    <3>2. \A j \in Written(t, e) : j # i => j > i /\ tx'[t].undo[j].op # "create" /\ tx'[t].undo[j].ts = txn_id(t)
      BY <1>2, <2>1 DEF FirstWrite
    <3> QED BY <1>2, <3>1, <3>2 DEF FirstWrite
  <2>4. CASE tx[t].undo[i].op = "create"
    <3>1. \A n \in DOMAIN h : h[n].ts = txn_id(t)
      BY <1>12, <2>1, <2>4 DEF id
    <3> QED BY <1>1, <1>9, <1>11, <2>2, <2>3, <2>4, <3>1, OwnerFrom DEF id
  <2>5. CASE tx[t].undo[i].op # "create"
    <3> DEFINE c == tx[t].undo[i].ts
    <3>1. Underneath(t, x, g, c, tx[t].start, Wrote(t, e, "set")) /\ c \in Nat
      <4>1. i \in DOMAIN tx[t].undo
        BY DEF Written
      <4> QED BY <2>1, <2>5, <4>1, TxTyped
    <3> HIDE DEF c
    <3>2. PICK v \in Versions : /\ v.ts = c /\ EndsUnder(x.vs, v, t) /\ EndsUnder(g, v, t)
                                /\ ~Wrote(t, e, "set") => EndsIn(x.vs, v)
      BY <3>1 DEF Underneath
    <3>3. ~Wrote(t, e, "set")' => EndsIn(y.vs, v)
      BY <1>8, <1>15, <3>2
    <3>4. Unhidden(y.min, c)
      BY <1>1, <3>1 DEF Underneath, Lower
    <3>5. \A n \in DOMAIN h : h[n].ts = txn_id(t) \/ h[n].ts <= c
      BY <1>12, <3>1 DEF Underneath, id
    <3>6. EndsUnder(y.vs, v, t) /\ EndsUnder(h, v, t)
      BY <1>13, <1>14, <3>2
    <3>7. Underneath(t, y, h, c, tx'[t].start, Wrote(t, e, "set")')
      BY <1>1, <3>1, <3>2, <3>3, <3>4, <3>5, <3>6 DEF Underneath
    <3>8. tx'[t].undo[i].ts = c /\ tx'[t].undo[i].op # "create"
      BY <2>2, <2>5 DEF c
    <3> QED BY <1>1, <1>9, <1>11, <2>2, <2>3, <3>7, <3>8, OwnerFrom DEF id
  <2> QED BY <2>4, <2>5
<1>18. CASE ~is_txn_id(x.slot.ts)
  <2> DEFINE c == x.slot.ts
             v == g[Len(g)]
  <2>1. /\ c <= tx[t].start /\ Written(t, e) = {} /\ Unhidden(x.min, c) /\ c \in Nat
        /\ \A i \in DOMAIN g : g[i].ts <= c
    BY <1>4, <1>18 DEF Settled
  <2>2. v \in Versions /\ v.ts = c /\ EndsIn(x.vs, v) /\ EndsIn(g, v)
    <3>1. Len(g) \in DOMAIN g
      BY <1>4
    <3>2. v \in Versions
      BY <1>4, <3>1
    <3> QED BY <1>1, <1>4, <3>2 DEF Shows, EndsIn
  <2>3. v.ts # txn_id(t)
    BY <1>6, <1>18, <2>2 DEF id
  <2> HIDE DEF c, v
  <2>4. EndsUnder(x.vs, v, t) /\ EndsUnder(g, v, t)
    BY <1>4, <2>2, <2>3, EndsInUnder
  <2>5. EndsUnder(y.vs, v, t) /\ EndsUnder(h, v, t)
    BY <1>13, <1>14, <2>4
  <2>6. ~Wrote(t, e, "set")' => EndsIn(y.vs, v)
    BY <1>8, <1>15, <2>2
  <2>7. Unhidden(y.min, c)
    BY <1>1, <2>1 DEF Lower
  <2>8. \A n \in DOMAIN h : h[n].ts = txn_id(t) \/ h[n].ts <= c
    BY <1>12, <2>1 DEF id
  <2>9. Underneath(t, y, h, c, tx'[t].start, Wrote(t, e, "set")')
    BY <1>1, <2>1, <2>2, <2>5, <2>6, <2>7, <2>8 DEF Underneath
  <2>10. Written(t, e)' = {k} /\ tx'[t].undo[k].ts = c /\ tx'[t].undo[k].op # "create"
    BY <1>2, <1>3, <2>1 DEF c
  <2>11. FirstWrite(t, e, k)' /\ k \in Written(t, e)'
    BY <2>10 DEF FirstWrite
  <2> QED BY <1>1, <1>9, <1>11, <2>9, <2>10, <2>11, OwnerFrom DEF id
<1> QED BY <1>17, <1>18

LEMMA Concatenated ==
  ASSUME NEW g \in Seq(Versions), NEW w \in Versions
  PROVE  g \o <<>> = g /\ g \o <<w>> = Append(g, w)
  OBVIOUS

LEMMA ApplySInv ==
  ASSUME KeepOff, OInv, OInv', SInv, NEW t \in Txns, NEW op \in {"set", "del"}, NEW nd, NEW val \in Nat, NEW vn,
         \/ op = "set" /\ nd = NONE /\ vn = <<Version(txn_id(t), val)>>
         \/ op = "del" /\ nd = TOMBSTONE_DST_ID /\ val = NONE /\ vn = <<>>,
         Apply(t, op, nd, val, vn)
  PROVE  SInv'
<1>a. PICK e : e = tx[t].look.eid
  OBVIOUS
<1>b. PICK k : k = Len(tx[t].undo) + 1
  OBVIOUS
<1>c. PICK w : w = Version(txn_id(t), val)
  OBVIOUS
<1>d. PICK l : l = Located(t)
  OBVIOUS
<1> DEFINE x == Cell(blocks, loc, e)
           y == Cell(blocks', loc', e)
           id == txn_id(t)
<1>e. PICK b : b = blocks[l.b]
  OBVIOUS
<1>f. PICK old : old = b.e[l.o]
  OBVIOUS
<1>g. PICK new : new = [old EXCEPT !.ts = id, !.dst = IF nd = NONE THEN @ ELSE nd]
  OBVIOUS
<1>h. PICK r : r = [push_undo(t, op, e, old.ts) EXCEPT !.snap[e] = IF nd = NONE THEN @ ELSE old.dst]
  OBVIOUS
<1>1. /\ phase = "run" /\ phase' = "run" /\ tx[t].st = "active" /\ tx[t].look.op = op /\ l # NoLoc /\ ~b.dead
      /\ eids' = eids /\ clock' = clock /\ loc' = [loc EXCEPT ![e] = l]
  BY <1>a, <1>d, <1>e, Zenon DEF Apply, Active
<1>2. blocks' = [blocks EXCEPT ![l.b] = Rewritten(b, l.o, new, b.p[l.o] \o vn, Min({b.min, id}))]
  BY <1>a, <1>d, <1>e, <1>f, <1>g, Zenon DEF Apply
<1>3. tx' = [tx EXCEPT ![t] = r]
  BY <1>a, <1>d, <1>e, <1>f, <1>h, Zenon DEF Apply
<1>4. log' = [log EXCEPT ![e] = Append(@, w)]
  BY <1>a, <1>c, Zenon DEF Apply
<1>5. RunInv
  BY <1>1, RunState
<1>6. tx[t].look # NoLook /\ tx[t].look \in Looks
  <2>1. NoLook.op # op
    BY DEF NoLook
  <2>2. tx[t].look # NoLook
    BY <1>1, <2>1, Zenon
  <2>3. tx[t].look \in Looks \cup {NoLook}
    BY TxTyped
  <2> QED BY <2>2, <2>3
<1>7. e \in Eids /\ l \in Places /\ Holds(blocks, l, e) /\ loc[e] = l
  <2>1. e \in Eids /\ tx[t].look.loc \in Places
    BY <1>6, <1>a DEF Looks
  <2>2. l \in Places /\ Holds(blocks, l, e)
    BY <1>1, <1>a, <1>d, <2>1, ResolvedHolds DEF Located
  <2> QED BY <2>1, <2>2, HeldIsMapped
<1>8. loc' = loc /\ loc[e] # NoLoc /\ Exact(blocks, loc, eids) /\ Exact(blocks', loc, eids)
  <2>1. loc \in [Eids -> Places]
    BY DEF OInv, Exact, Mapped
  <2>2. loc' = loc
    BY <1>1, <1>7, <2>1
  <2> QED BY <1>1, <1>7, <2>2 DEF OInv
<1>9. /\ x.slot = old /\ x.vs = b.p[l.o] /\ x.min = b.min /\ x.dead = b.dead
      /\ old \in Slot /\ old.eid = e /\ x.vs \in Seq(Versions) /\ b.min \in Nat
  BY <1>5, <1>7, <1>8, <1>e, <1>f, CellTyped DEF RunInv
<1>10. ~IsTombstone(old) /\ Sees(t, old.ts) /\ \A u \in Txns : u # t => tx[u].look.eid # e
  BY <1>1, <1>5, <1>6, <1>8, <1>9, <1>a DEF RunInv, WaitInv
<1>11. /\ id \in Nat /\ is_txn_id(id) /\ w \in Versions /\ w.ts = id /\ w.val = val /\ old.ts \in Nat /\ old.dst \in Nat
       /\ log[e] \in Seq(Versions) /\ (op = "del" => w.val = NONE)
  BY <1>5, <1>7, <1>9, <1>c, TxnIds DEF Version, Versions, Slot, RunInv
<1>12. new.eid = e /\ new.ts = id /\ (IsTombstone(new) <=> op = "del")
  <2>1. new.eid = e /\ new.ts = id /\ new.dst = IF nd = NONE THEN old.dst ELSE nd
    BY <1>9, <1>g DEF Slot
  <2>2. TOMBSTONE_DST_ID # NONE
    BY DEF TOMBSTONE_DST_ID, NONE
  <2> QED BY <1>10, <2>1, <2>2 DEF IsTombstone
<1>13. b.p[l.o] \o vn = (IF op = "del" THEN x.vs ELSE Append(x.vs, w)) /\ b.p[l.o] \o vn \in Seq(Versions)
  <2> DEFINE q == b.p[l.o]
  <2>1. q \in Seq(Versions) /\ x.vs = q
    BY <1>9
  <2>2. (op = "set" /\ vn = <<w>>) \/ (op = "del" /\ vn = <<>>)
    BY <1>c
  <2> HIDE DEF q, x
  <2>3. q \o <<>> = q /\ q \o <<w>> = Append(q, w) /\ Append(q, w) \in Seq(Versions)
    BY <1>11, <2>1, Concatenated, Appended
  <2>4. q \o vn = (IF op = "del" THEN x.vs ELSE Append(x.vs, w)) /\ q \o vn \in Seq(Versions)
    BY <2>1, <2>2, <2>3
  <2> QED BY <2>4 DEF q
<1>14. Min({b.min, id}) \in Nat /\ Lower(b.min, Min({b.min, id}))
  BY <1>9, <1>11, LowerFacts, MinOfTwo
<1>15. PICK vs, mn : vs = b.p[l.o] \o vn /\ mn = Min({b.min, id})
  OBVIOUS
<1>16. RewritesIn(blocks, loc, blocks', e, new, vs, mn)
  <2>1. l.b \in DOMAIN blocks /\ Occupied(b, l.b, l.o) /\ b.e[l.o].eid = e
    BY <1>5, <1>7, <1>8, <1>e, OccupiedAt DEF RunInv
  <2>2. ChangedAt(b, Rewritten(b, l.o, new, vs, mn), l.o, new, vs, mn)
    BY <1>12, <1>13, <1>15, <2>1, RewrittenCarries
  <2> DEFINE c == Rewritten(b, l.o, new, vs, mn)
  <2>3. blocks' = [blocks EXCEPT ![l.b] = c]
    BY <1>2, <1>15
  <2> HIDE DEF c
  <2>4. DOMAIN blocks' = DOMAIN blocks /\ blocks'[l.b] = c /\ \A j \in DOMAIN blocks : j # l.b => blocks'[j] = blocks[j]
    BY <2>1, <2>3
  <2>5. OnlyBlock(blocks, blocks', l.b) /\ ChangedAt(b, blocks'[l.b], l.o, new, vs, mn)
    BY <2>2, <2>4 DEF OnlyBlock, c
  <2>6. Lower(x.min, mn) /\ mn \in Nat
    BY <1>9, <1>14, <1>15
  <2> QED BY <1>7, <1>8, <1>12, <1>e, <2>5, <2>6 DEF RewritesIn
<1>17. /\ VersionsIn(blocks') /\ \A f \in Eids : f # e => Kept(blocks, loc, blocks', loc, f)
       /\ Cell(blocks', loc, e) = [slot |-> new, vs |-> vs, min |-> mn, dead |-> x.dead]
  <2>1. VersionsIn(blocks) /\ e \in Eids
    BY <1>5, <1>7 DEF RunInv
  <2> QED BY <1>16, <2>1, RewriteCells
<1>18. y.slot = new /\ y.vs = vs /\ y.min = mn
  BY <1>8, <1>17
<1>19. /\ log' \in [Eids -> Seq(Versions)] /\ log'[e] = Append(log[e], w)
       /\ \A f \in Eids : f # e => log'[f] = log[f]
  <2>1. Append(log[e], w) \in Seq(Versions)
    BY <1>11, Appended
  <2>2. log \in [Eids -> Seq(Versions)]
    BY <1>5 DEF RunInv
  <2> QED BY <1>4, <1>7, <2>1, <2>2
<1>20. PICK rec : rec = [op |-> op, eid |-> e, ts |-> old.ts]
  OBVIOUS
<1>21. tx[t] \in TxRecords /\ rec \in UndoRecords /\ e = rec.eid
  BY <1>7, <1>11, <1>20, TxTyped DEF UndoRecords
<1>22. /\ r.undo = Append(tx[t].undo, rec) /\ r.st = "active" /\ r.look = NoLook /\ r.start = tx[t].start
       /\ r.commit = tx[t].commit
       /\ \A f \in Eids : f # e => r.snap[f] = tx[t].snap[f]
       /\ op = "del" => r.snap[e] = old.dst
  <2>1. PICK pu : pu = [tx[t] EXCEPT !.undo = Append(tx[t].undo, rec), !.look = NoLook]
    OBVIOUS
  <2>2. pu = push_undo(t, op, e, old.ts)
    BY <1>20, <2>1 DEF push_undo
  <2>3. r = [pu EXCEPT !.snap = [pu.snap EXCEPT ![e] = IF nd = NONE THEN @ ELSE old.dst]]
    BY <1>h, <2>2
  <2>4. /\ pu.undo = Append(tx[t].undo, rec) /\ pu.st = "active" /\ pu.look = NoLook /\ pu.start = tx[t].start
        /\ pu.snap = tx[t].snap /\ pu.commit = tx[t].commit /\ pu \in TxRecords
    <3>1. pu.undo = Append(tx[t].undo, rec) /\ pu.st = "active" /\ pu.look = NoLook /\ pu.start = tx[t].start
          /\ pu.snap = tx[t].snap /\ pu.commit = tx[t].commit
      BY <1>1, <1>21, <2>1 DEF TxRecords
    <3> QED BY <1>7, <1>11, <2>2, <3>1, PushUndoTyped
  <2>5. PICK sn : sn = [pu.snap EXCEPT ![e] = IF nd = NONE THEN @ ELSE old.dst]
    OBVIOUS
  <2>6. tx[t].snap \in [Eids -> Nat] /\ TOMBSTONE_DST_ID # NONE
    BY TxTyped DEF TOMBSTONE_DST_ID, NONE
  <2>7. (\A f \in Eids : f # e => sn[f] = tx[t].snap[f]) /\ (op = "del" => sn[e] = old.dst)
    BY <1>7, <2>4, <2>5, <2>6
  <2>8. r = [pu EXCEPT !.snap = sn]
    BY <2>3, <2>5
  <2>9. /\ r.undo = pu.undo /\ r.st = pu.st /\ r.look = pu.look /\ r.start = pu.start /\ r.snap = sn
        /\ r.commit = pu.commit
    BY <2>4, <2>8 DEF TxRecords
  <2> QED BY <2>4, <2>7, <2>9
<1>23. tx'[t] = r
  BY <1>3, OneRecord
<1>24. PushedOne(t, rec, k, e)
  <2>1. tx'[t].undo = Append(tx[t].undo, rec)
    BY <1>22, <1>23
  <2> QED BY <1>b, <1>21, <2>1, Pushed
<1>25. Rewrites(t, e, op, w, k)
  <2>1. PushedOne(t, [op |-> op, eid |-> e, ts |-> x.slot.ts], k, e)
    BY <1>9, <1>20, <1>24
  <2>2. /\ loc[e] # NoLoc /\ loc'[e] = loc[e] /\ ~IsTombstone(x.slot) /\ Sees(t, x.slot.ts)
        /\ y.slot.ts = txn_id(t) /\ (IsTombstone(y.slot) <=> op = "del") /\ Lower(x.min, y.min)
        /\ y.vs = (IF op = "del" THEN x.vs ELSE Append(x.vs, w))
    <3> HIDE DEF x, y
    <3> QED BY <1>8, <1>9, <1>10, <1>12, <1>13, <1>14, <1>15, <1>18
  <2>3. tx'[t].start = tx[t].start /\ (op = "del" => tx'[t].snap[e] = x.slot.dst)
    BY <1>9, <1>22, <1>23
  <2> QED BY <1>19, <2>1, <2>2, <2>3 DEF Rewrites
<1>26. EdgeInv(e)' /\ Written(t, e)' # {} /\ OwnerInv(t, e)'
  BY <1>5, <1>7, <1>11, <1>25, WriterEdge, WriterOwner
<1>27. \A u \in Txns : u # t => Written(u, e) = {} /\ tx[u].look.eid # e
  <2>1. Sees(t, x.slot.ts)
    BY <1>9, <1>10
  <2> QED BY <1>5, <1>7, <1>8, <1>10, <2>1, FoundMark
<1>28. \A f \in Eids : f # e => Untouched(f) /\ SameWrites(t, f)
  <2> SUFFICES ASSUME NEW f \in Eids, f # e PROVE Untouched(f) /\ SameWrites(t, f)
    OBVIOUS
  <2>1. Untouched(f)
    BY <1>8, <1>17, <1>19 DEF Untouched, Kept
  <2>2. SameWrites(t, f)
    BY <1>22, <1>23, <1>24 DEF SameWrites, PushedOne
  <2> QED BY <2>1, <2>2
<1>29. eids <= eids'
  BY <1>1, ConstantFacts DEF OInv
<1> HIDE DEF x, y
<1>30. RunInv'
  BY <1>1, <1>3, <1>5, <1>7, <1>17, <1>19, <1>22, <1>26, <1>27, <1>28, <1>29, WriteStep
<1> QED BY <1>1, <1>30, RunState

-----------------------------------------------------------------------------
(* Commits.                                                                  *)

LEMMA Promoted ==
  ASSUME NEW vs \in Seq(Versions), NEW t, NEW ts \in Nat
  PROVE  /\ PromoteLast(vs, t, ts) \in Seq(Versions)
         /\ \A v \in Versions : EndsIn(vs, v) /\ v.ts = txn_id(t) => EndsIn(PromoteLast(vs, t, ts), Version(ts, v.val))
<1> DEFINE n == Len(vs)
           z == vs[n]
<1>1. n \in Nat /\ DOMAIN vs = 1 .. n /\ (vs # <<>> => n \in DOMAIN vs)
  OBVIOUS
<1>2. CASE vs # <<>> /\ z.ts = txn_id(t)
  <2>1. z \in Versions /\ n \in 1 .. n
    BY <1>1, <1>2
  <2>2. PromoteLast(vs, t, ts) = [vs EXCEPT ![n] = [z EXCEPT !.ts = ts]]
    BY <1>2 DEF PromoteLast
  <2> DEFINE q == [z EXCEPT !.ts = ts]
             h == [vs EXCEPT ![n] = q]
  <2>3. q \in Versions /\ q = Version(ts, z.val)
    <3> HIDE DEF z
    <3> QED BY <2>1 DEF Versions, Version
  <2> HIDE DEF q, z
  <2>4. h \in Seq(Versions) /\ Len(h) = n /\ h[n] = q /\ h # <<>>
    BY <1>1, <2>1, <2>3
  <2>5. PromoteLast(vs, t, ts) = h
    BY <2>2 DEF q
  <2> HIDE DEF h
  <2> QED BY <2>3, <2>4, <2>5 DEF EndsIn, z
<1>3. CASE ~(vs # <<>> /\ z.ts = txn_id(t))
  <2>1. PromoteLast(vs, t, ts) = vs
    BY <1>3 DEF PromoteLast
  <2> QED BY <1>3, <2>1 DEF EndsIn
<1> QED BY <1>2, <1>3

LEMMA CommitCells ==
  ASSUME OInv, RunInv, NEW t \in Txns, commit_at(t), NEW ts, ts = tx[t].commit, NEW e \in Eids, loc[e] # NoLoc
  PROVE  LET x == Cell(blocks, loc, e)
             y == Cell(blocks', loc', e)
         IN  /\ y.dead = x.dead /\ (y.min = x.min \/ y.min = LowerMin(x.min, ts))
             /\ Written(t, e) = {} => y.slot = x.slot /\ y.vs = x.vs
             /\ Written(t, e) # {} =>
                  /\ y.slot = [x.slot EXCEPT !.ts = ts] /\ y.min = LowerMin(x.min, ts)
                  /\ y.vs = IF FirstOp(t, e) # "del" THEN PromoteLast(x.vs, t, ts) ELSE x.vs
<1> DEFINE at(i, o) == blocks[i].e[o].eid \in Mine(t) /\ loc[blocks[i].e[o].eid] = [b |-> i, o |-> o]
           es(i) == [o \in Slots |-> IF at(i, o) THEN [blocks[i].e[o] EXCEPT !.ts = ts] ELSE blocks[i].e[o]]
           ps(i) == [o \in Slots |-> IF at(i, o) /\ FirstOp(t, blocks[i].e[o].eid) # "del"
                                     THEN PromoteLast(blocks[i].p[o], t, ts) ELSE blocks[i].p[o]]
           mn(i) == IF \E o \in Slots : at(i, o) THEN LowerMin(blocks[i].min, ts) ELSE blocks[i].min
           c(i) == [blocks[i] EXCEPT !.e = es(i), !.p = ps(i), !.min = mn(i)]
<1>a. PICK i, o : i = loc[e].b /\ o = loc[e].o
  OBVIOUS
<1>1. blocks' = [j \in DOMAIN blocks |-> c(j)] /\ loc' = loc
  BY Zenon DEF commit_at
<1>2. /\ i \in DOMAIN blocks /\ o \in Slots /\ Holds(blocks, loc[e], e) /\ loc[e] = [b |-> i, o |-> o]
      /\ Cell(blocks, loc, e).slot = blocks[i].e[o] /\ Cell(blocks, loc, e).vs = blocks[i].p[o]
      /\ Cell(blocks, loc, e).min = blocks[i].min /\ Cell(blocks, loc, e).dead = blocks[i].dead
      /\ blocks[i].e[o].eid = e
  <2>1. Exact(blocks, loc, eids) /\ VersionsIn(blocks)
    BY DEF OInv, RunInv
  <2>2. /\ loc[e].b \in DOMAIN blocks /\ loc[e].o \in Slots /\ Holds(blocks, loc[e], e)
        /\ loc[e] = Place(loc[e].b, loc[e].o) /\ Cell(blocks, loc, e).slot.eid = e
    BY <2>1, CellTyped
  <2>3. /\ Cell(blocks, loc, e).slot = blocks[i].e[o] /\ Cell(blocks, loc, e).vs = blocks[i].p[o]
        /\ Cell(blocks, loc, e).min = blocks[i].min /\ Cell(blocks, loc, e).dead = blocks[i].dead
    BY <1>a DEF Cell
  <2> QED BY <1>a, <2>2, <2>3 DEF Place
<1>3. DOMAIN blocks[i] = BlockFields
  BY <1>2 DEF OInv, Exact, BlocksOK, BlockOK
<1>4. at(i, o) <=> Written(t, e) # {}
  <2>1. e \in Mine(t) <=> Written(t, e) # {} /\ blocks[i].e[o].ts = txn_id(t)
    BY <1>2, <1>a DEF Mine, Written
  <2>2. Written(t, e) # {} => blocks[i].e[o].ts = txn_id(t)
    BY <1>2 DEF RunInv, OwnerInv
  <2> QED BY <1>2, <2>1, <2>2
<1> HIDE DEF at
<1>5. /\ es(i)[o] = IF at(i, o) THEN [blocks[i].e[o] EXCEPT !.ts = ts] ELSE blocks[i].e[o]
      /\ ps(i)[o] = IF at(i, o) /\ FirstOp(t, e) # "del" THEN PromoteLast(blocks[i].p[o], t, ts) ELSE blocks[i].p[o]
      /\ mn(i) \in {LowerMin(blocks[i].min, ts), blocks[i].min}
      /\ at(i, o) => mn(i) = LowerMin(blocks[i].min, ts)
  BY <1>2
<1> HIDE DEF es, ps, mn
<1>6. c(i).e = es(i) /\ c(i).p = ps(i) /\ c(i).min = mn(i) /\ c(i).dead = blocks[i].dead
  BY <1>3 DEF BlockFields
<1> HIDE DEF c
<1>7. blocks'[i] = c(i)
  BY <1>1, <1>2
<1>8. /\ Cell(blocks', loc', e).slot = es(i)[o] /\ Cell(blocks', loc', e).vs = ps(i)[o]
      /\ Cell(blocks', loc', e).min = mn(i) /\ Cell(blocks', loc', e).dead = blocks[i].dead
  BY <1>1, <1>6, <1>7, <1>a DEF Cell
<1> QED BY <1>2, <1>4, <1>5, <1>8

LEMMA CommitVersions ==
  ASSUME OInv, RunInv, NEW t \in Txns, commit_at(t)
  PROVE  VersionsIn(blocks')
<1>a. PICK ts : ts = tx[t].commit
  OBVIOUS
<1>0. ts \in Nat
  BY <1>a, TxTyped
<1> DEFINE at(i, o) == blocks[i].e[o].eid \in Mine(t) /\ loc[blocks[i].e[o].eid] = [b |-> i, o |-> o]
           es(i) == [o \in Slots |-> IF at(i, o) THEN [blocks[i].e[o] EXCEPT !.ts = ts] ELSE blocks[i].e[o]]
           ps(i) == [o \in Slots |-> IF at(i, o) /\ FirstOp(t, blocks[i].e[o].eid) # "del"
                                     THEN PromoteLast(blocks[i].p[o], t, ts) ELSE blocks[i].p[o]]
           mn(i) == IF \E o \in Slots : at(i, o) THEN LowerMin(blocks[i].min, ts) ELSE blocks[i].min
           c(i) == [blocks[i] EXCEPT !.e = es(i), !.p = ps(i), !.min = mn(i)]
<1>1. blocks' = [j \in DOMAIN blocks |-> c(j)]
  BY <1>a, Zenon DEF commit_at
<1> HIDE DEF at
<1>2. ASSUME NEW i \in DOMAIN blocks PROVE c(i).min \in Nat /\ c(i).p \in [Slots -> Seq(Versions)]
  <2>1. DOMAIN blocks[i] = BlockFields /\ blocks[i].min \in Nat /\ blocks[i].p \in [Slots -> Seq(Versions)]
    BY DEF OInv, Exact, BlocksOK, BlockOK, RunInv, VersionsIn
  <2>2. LowerMin(blocks[i].min, ts) \in Nat
    BY <1>0, <2>1, MinOfTwo DEF LowerMin
  <2>3. mn(i) \in Nat
    BY <2>1, <2>2
  <2>4. ps(i) \in [Slots -> Seq(Versions)]
    <3>1. ASSUME NEW o \in Slots PROVE ps(i)[o] \in Seq(Versions)
      <4>1. blocks[i].p[o] \in Seq(Versions)
        BY <2>1
      <4>2. PromoteLast(blocks[i].p[o], t, ts) \in Seq(Versions)
        BY <1>0, <4>1, Promoted
      <4> QED BY <4>1, <4>2
    <3>2. ps(i) = [o \in Slots |-> ps(i)[o]]
      OBVIOUS
    <3> HIDE DEF ps
    <3> QED BY <3>1, <3>2
  <2> HIDE DEF es, ps, mn
  <2>5. c(i).p = ps(i) /\ c(i).min = mn(i)
    BY <2>1 DEF BlockFields
  <2> QED BY <2>3, <2>4, <2>5
<1> HIDE DEF c
<1> QED BY <1>1, <1>2 DEF VersionsIn

\* No other edge has a write of t in its log.
LEMMA NotMine ==
  ASSUME KeepOff, OInv, RunInv, NEW t \in Txns, NEW e \in Eids, Written(t, e) = {}
  PROVE  \A i \in DOMAIN log[e] : log[e][i].ts # txn_id(t)
<1> DEFINE x == Cell(blocks, loc, e)
           g == log[e]
<1> SUFFICES ASSUME NEW i \in DOMAIN g, g[i].ts = txn_id(t) PROVE FALSE
  OBVIOUS
<1>1. loc[e] # NoLoc
  <2> SUFFICES ASSUME loc[e] = NoLoc PROVE FALSE
    OBVIOUS
  <2>1. g = <<>>
    BY DEF RunInv, EdgeInv
  <2> QED BY <2>1
<1>2. IF is_txn_id(x.slot.ts) THEN \E u \in Txns : x.slot.ts = txn_id(u) /\ Written(u, e) # {} ELSE Settled(x, g, clock)
  BY <1>1 DEF RunInv, EdgeInv
<1>3. clock < TXN_ID_START /\ clock \in Nat /\ TXN_ID_START \in Nat
  BY ClockBound, ConstantFacts DEF RunInv, OInv
<1>4. txn_id(t) \in Nat /\ is_txn_id(txn_id(t)) /\ \A u \in Txns : txn_id(u) = txn_id(t) => u = t
  BY TxnIds
<1>5. x.slot.ts \in Nat
  <2>1. x.slot \in Slot
    BY <1>1, CellTyped DEF OInv, RunInv
  <2> QED BY <2>1 DEF Slot
<1>6. CASE is_txn_id(x.slot.ts)
  <2>1. PICK u \in Txns : Written(u, e) # {}
    BY <1>2, <1>6
  <2>2. PICK j \in Written(u, e) :
          IF tx[u].undo[j].op = "create" THEN \A n \in DOMAIN g : g[n].ts = txn_id(u)
          ELSE Underneath(u, x, g, tx[u].undo[j].ts, tx[u].start, Wrote(u, e, "set"))
    BY <2>1 DEF RunInv, OwnerInv
  <2>3. u # t
    BY <2>1
  <2>4. g[i].ts = txn_id(u) \/ (g[i].ts <= tx[u].undo[j].ts /\ tx[u].undo[j].ts <= tx[u].start)
    BY <2>2 DEF Underneath
  <2>5. tx[u].undo[j].ts \in Nat /\ tx[u].start \in Nat /\ tx[u].start <= clock
    BY TxTyped DEF RunInv, TxInv, Written
  <2>6. g[i].ts = txn_id(u)
    BY <1>3, <1>4, <2>4, <2>5 DEF is_txn_id
  <2> QED BY <1>4, <2>3, <2>6
<1>7. CASE ~is_txn_id(x.slot.ts)
  <2>1. g[i].ts <= x.slot.ts
    BY <1>2, <1>7 DEF Settled
  <2> QED BY <1>3, <1>4, <1>5, <1>7, <2>1 DEF is_txn_id
<1> QED BY <1>6, <1>7

\* A commit timestamp is drawn.
LEMMA DrawSInv ==
  ASSUME KeepOff, OInv, SInv, NEW t \in Txns, DrawCommit(t)
  PROVE  SInv'
<1>a. PICK r : r = [tx[t] EXCEPT !.commit = clock + 1]
  OBVIOUS
<1>1. /\ phase = "run" /\ phase' = "run" /\ tx[t].st = "active" /\ tx[t].commit = NONE /\ tx[t].look = NoLook
      /\ tx' = [tx EXCEPT ![t] = r]
      /\ blocks' = blocks /\ loc' = loc /\ eids' = eids /\ log' = log /\ clock' = clock + 1
  BY <1>a DEF DrawCommit, Active, AtRest
<1>2. RunInv
  BY <1>1, RunState
<1>3. tx[t] \in TxRecords /\ tx[t].start \in Nat /\ clock \in Nat
  BY TxTyped DEF OInv
<1>4. /\ r.undo = tx[t].undo /\ r.st = "active" /\ r.start = tx[t].start /\ r.look = NoLook /\ r.snap = tx[t].snap
      /\ r.commit = clock + 1
  BY <1>1, <1>3, <1>a DEF TxRecords
<1>5. /\ tx'[t] = r /\ \A u \in Txns : u # t => tx'[u] = tx[u]
      /\ \A u \in Txns : u # t => \A e : Written(u, e)' = Written(u, e) /\ SameWrites(u, e)
  BY <1>1, OneRecord
<1>6. \A e : Written(t, e)' = Written(t, e) /\ SameWrites(t, e)
  BY <1>4, <1>5 DEF Written, SameWrites
<1>7. ASSUME NEW e \in Eids PROVE Untouched(e) /\ StillWritten(e)
  <2>1. Untouched(e)
    BY <1>1 DEF Untouched, SameCell, Lower
  <2>2. StillWritten(e)
    BY <1>5, <1>6 DEF StillWritten
  <2> QED BY <2>1, <2>2
<1>8. \A e \in Eids : EdgeInv(e)'
  <2>1. clock' \in Nat /\ clock <= clock' /\ clock \in Nat
    BY <1>1, <1>3
  <2> QED BY <1>2, <1>7, <2>1, EdgeUntouched DEF RunInv
<1>9. \A u \in Txns : \A e \in Eids : OwnerInv(u, e)'
  BY <1>2, <1>5, <1>6, <1>7, OwnerUntouched DEF RunInv
<1>10. \A u \in Txns : WaitInv(u)'
  BY <1>1, <1>2, <1>4, WaitsKept
<1>11. ASSUME NEW u \in Txns PROVE TxInv(u)'
  <2>1. TxInv(u) /\ TxInv(t) /\ tx[u].start \in Nat /\ tx[u].commit \in Nat
    BY <1>2, TxTyped DEF RunInv
  <2>2. CASE u = t
    BY <1>1, <1>3, <1>4, <1>5, <2>1, <2>2 DEF TxInv
  <2>3. CASE u # t
    BY <1>1, <1>3, <1>5, <2>1, <2>3 DEF TxInv
  <2> QED BY <2>2, <2>3
<1>12. (clock <= Cardinality(Ended))'
  <2>1. Ended' = Ended \cup {t} /\ t \notin Ended
    <3>1. clock + 1 # NONE
      BY <1>3 DEF NONE
    <3> QED BY <1>1, <1>4, <1>5, <3>1 DEF Ended
  <2>2. IsFiniteSet(Ended)
    <3>1. IsFiniteSet(Txns) /\ Ended \subseteq Txns
      BY ConstantFacts, FS_Interval DEF Txns, Ended
    <3> QED BY <3>1, FS_Subset
  <2>3. Cardinality(Ended') = Cardinality(Ended) + 1 /\ Cardinality(Ended) \in Nat
    BY <2>1, <2>2, FS_AddElement, FS_CardinalityType
  <2> QED BY <1>1, <1>2, <1>3, <2>3 DEF RunInv
<1>13. VersionsIn(blocks)' /\ (log \in [Eids -> Seq(Versions)])'
  BY <1>1, <1>2 DEF RunInv, VersionsIn
<1>14. RunInv'
  BY <1>8, <1>9, <1>10, <1>11, <1>12, <1>13 DEF RunInv
<1> QED BY <1>1, <1>14, RunState

LEMMA CommitSInv ==
  ASSUME KeepOff, OInv, OInv', SInv, NEW t \in Txns, commit_at(t)
  PROVE  SInv'
<1>a. PICK ts : ts = tx[t].commit
  OBVIOUS
<1>b. PICK r : r = NewTx("committed", tx[t].start)
  OBVIOUS
<1>1. /\ phase = "run" /\ phase' = "run" /\ tx[t].st = "active" /\ ts # NONE
      /\ clock' = clock /\ loc' = loc /\ eids' = eids /\ tx' = [tx EXCEPT ![t] = r]
  BY <1>a, <1>b, Zenon DEF commit_at, Active
<1>2. log' = [e \in Eids |-> [i \in DOMAIN log[e] |->
                IF log[e][i].ts = txn_id(t) THEN [log[e][i] EXCEPT !.ts = ts] ELSE log[e][i]]]
  BY <1>a, Zenon DEF commit_at
<1>3. RunInv
  BY <1>1, RunState
<1>4. /\ tx'[t] = r /\ \A u \in Txns : u # t => tx'[u] = tx[u]
      /\ \A u \in Txns : u # t => \A e : Written(u, e)' = Written(u, e) /\ SameWrites(u, e)
  BY <1>1, OneRecord
<1>5. r.st = "committed" /\ r.start = tx[t].start /\ r.undo = <<>> /\ r.look = NoLook /\ r.commit = NONE
  BY <1>b DEF NewTx
<1>6. \A e : Written(t, e)' = {}
  BY <1>4, <1>5 DEF Written
<1>7. /\ clock \in Nat /\ ts \in Nat /\ ts <= clock /\ tx[t].start < ts /\ ts < TXN_ID_START /\ TXN_ID_START \in Nat
      /\ ~is_txn_id(ts) /\ clock <= clock' /\ clock' \in Nat
  <2>1. clock \in Nat /\ clock <= Cardinality(Ended)
    BY <1>3 DEF OInv, RunInv
  <2>2. clock < TXN_ID_START
    BY <1>1, <2>1, ClockBound
  <2>3. ts \in Nat
    BY <1>a, TxTyped
  <2>4. tx[t].start < ts /\ ts <= clock
    BY <1>1, <1>3, <1>a DEF RunInv, TxInv
  <2> QED BY <1>1, <2>1, <2>2, <2>3, <2>4, ConstantFacts DEF is_txn_id
<1>8. txn_id(t) \in Nat /\ is_txn_id(txn_id(t))
  BY TxnIds
<1>9. ASSUME NEW e \in Eids
      PROVE  /\ log[e] \in Seq(Versions) /\ DOMAIN log'[e] = DOMAIN log[e] /\ log'[e] \in Seq(Versions)
             /\ Len(log'[e]) = Len(log[e])
             /\ \A i \in DOMAIN log[e] :
                  log'[e][i] = IF log[e][i].ts = txn_id(t) THEN Version(ts, log[e][i].val) ELSE log[e][i]
  <2> DEFINE g == log[e]
  <2>1. g \in Seq(Versions)
    BY <1>3 DEF RunInv
  <2>2. log'[e] = [i \in DOMAIN g |-> IF g[i].ts = txn_id(t) THEN [g[i] EXCEPT !.ts = ts] ELSE g[i]]
    BY <1>2
  <2> HIDE DEF g
  <2>3. DOMAIN g = 1 .. Len(g) /\ Len(g) \in Nat /\ \A i \in DOMAIN g : g[i] \in Versions
    BY <2>1
  <2>4. \A v \in Versions : [v EXCEPT !.ts = ts] = Version(ts, v.val) /\ Version(ts, v.val) \in Versions
    BY <1>7 DEF Versions, Version
  <2>5. log'[e] = [i \in 1 .. Len(g) |-> IF g[i].ts = txn_id(t) THEN Version(ts, g[i].val) ELSE g[i]]
    BY <2>2, <2>3, <2>4
  <2> DEFINE h == log'[e]
  <2> HIDE DEF h
  <2>6. h = [i \in 1 .. Len(g) |-> IF g[i].ts = txn_id(t) THEN Version(ts, g[i].val) ELSE g[i]]
    BY <2>5 DEF h
  <2>7. DOMAIN h = 1 .. Len(g) /\ \A i \in 1 .. Len(g) : h[i] = IF g[i].ts = txn_id(t) THEN Version(ts, g[i].val) ELSE g[i]
    BY <2>6
  <2>8. \A i \in 1 .. Len(g) : h[i] \in Versions
    BY <2>3, <2>4, <2>7
  <2>9. h = [i \in 1 .. Len(g) |-> h[i]]
    BY <2>6
  <2>10. h \in [1 .. Len(g) -> Versions]
    BY <2>8, <2>9
  <2>11. h \in Seq(Versions) /\ Len(h) = Len(g)
    BY <2>3, <2>10
  <2> QED BY <2>1, <2>3, <2>7, <2>11 DEF g, h
<1>10. log' \in [Eids -> Seq(Versions)]
  <2>1. log' = [e \in Eids |-> log'[e]]
    BY <1>2
  <2> QED BY <1>9, <2>1
<1>11. ASSUME NEW e \in Eids, Written(t, e) = {} PROVE Untouched(e) /\ StillWritten(e)
  <2>1. log'[e] = log[e]
    <3>1. \A i \in DOMAIN log[e] : log'[e][i] = log[e][i]
      BY <1>3, <1>9, <1>11, NotMine
    <3>2. log[e] \in Seq(Versions) /\ log'[e] \in Seq(Versions) /\ Len(log'[e]) = Len(log[e]) /\ DOMAIN log[e] = 1 .. Len(log[e])
      BY <1>9
    <3> QED BY <3>1, <3>2, SeqEqual
  <2>2. ASSUME loc[e] # NoLoc
        PROVE  SameCell(blocks, loc, blocks', loc', e) /\ Lower(Cell(blocks, loc, e).min, Cell(blocks', loc', e).min)
    <3> DEFINE x == Cell(blocks, loc, e)
               y == Cell(blocks', loc', e)
    <3>1. y.dead = x.dead /\ (y.min = x.min \/ y.min = LowerMin(x.min, ts)) /\ y.slot = x.slot /\ y.vs = x.vs
      BY <1>3, <1>11, <1>a, <2>2, CommitCells
    <3>2. x.min \in Nat
      BY <1>3, <2>2, CellTyped DEF OInv, RunInv
    <3>3. Lower(x.min, y.min)
      BY <1>7, <3>1, <3>2, LowerFacts
    <3> QED BY <1>1, <2>2, <3>1, <3>3 DEF SameCell
  <2>3. StillWritten(e)
    BY <1>4, <1>11 DEF StillWritten
  <2> QED BY <1>1, <2>1, <2>2, <2>3 DEF Untouched
<1>12. ASSUME NEW e \in Eids PROVE EdgeInv(e)'
  <2>1. CASE Written(t, e) = {}
    BY <1>3, <1>7, <1>11, <2>1, EdgeUntouched DEF RunInv
  <2>2. CASE Written(t, e) # {}
    <3> DEFINE x == Cell(blocks, loc, e)
               y == Cell(blocks', loc', e)
               g == log[e]
               h == log'[e]
               v == g[Len(g)]
    <3>1. loc[e] # NoLoc /\ x.slot.ts = txn_id(t) /\ (IsTombstone(x.slot) <=> Wrote(t, e, "del"))
      BY <1>3, <2>2 DEF RunInv, OwnerInv
    <3>2. g # <<>> /\ Shows(x, v)
      BY <1>3, <3>1 DEF RunInv, EdgeInv
    <3>3. /\ y.slot = [x.slot EXCEPT !.ts = ts] /\ y.min = LowerMin(x.min, ts)
          /\ y.vs = IF FirstOp(t, e) # "del" THEN PromoteLast(x.vs, t, ts) ELSE x.vs
      BY <1>3, <1>a, <2>2, <3>1, CommitCells
    <3>4. x.slot \in Slot /\ x.vs \in Seq(Versions) /\ x.min \in Nat
      BY <1>3, <3>1, CellTyped DEF OInv, RunInv
    <3>5. PICK j \in Written(t, e) :
            IF tx[t].undo[j].op = "create" THEN \A n \in DOMAIN g : g[n].ts = txn_id(t)
            ELSE Underneath(t, x, g, tx[t].undo[j].ts, tx[t].start, Wrote(t, e, "set"))
      BY <1>3, <2>2 DEF RunInv, OwnerInv
    <3>6. ~Wrote(t, e, "del") => FirstOp(t, e) # "del"
      <4>1. Written(t, e) \subseteq Nat
        BY TxTyped DEF Written
      <4>2. Min(Written(t, e)) \in Written(t, e)
        BY <2>2, <4>1, MinIsMember
      <4>3. FirstOp(t, e) = tx[t].undo[Min(Written(t, e))].op
        BY Zenon DEF FirstOp, Written
      <4> QED BY <4>2, <4>3 DEF Wrote
    <3>7. tx[t].undo[j].ts \in Nat /\ tx[t].start \in Nat /\ tx[t].start <= clock
      BY <1>3, TxTyped DEF RunInv, TxInv, Written
    <3>8. /\ g \in Seq(Versions) /\ DOMAIN h = DOMAIN g /\ Len(h) = Len(g) /\ h \in Seq(Versions)
          /\ \A i \in DOMAIN g : h[i] = IF g[i].ts = txn_id(t) THEN Version(ts, g[i].val) ELSE g[i]
      BY <1>9
    <3>9. y = Cell(blocks', loc', e) /\ h = log'[e] /\ loc'[e] # NoLoc
      BY <1>1, <3>1
    <3> HIDE DEF x, y, g, h
    <3>10. Len(g) \in DOMAIN g /\ v \in Versions /\ h # <<>> /\ Len(g) \in Nat
      <4>1. DOMAIN g = 1 .. Len(g) /\ Len(g) \in Nat /\ Len(g) # 0
        BY <3>2, <3>8
      <4> QED BY <3>8, <4>1
    <3>11. v.ts = txn_id(t) /\ h[Len(h)] = Version(ts, v.val)
      BY <3>1, <3>2, <3>8, <3>10 DEF Shows
    <3> HIDE DEF v
    <3>12. y.slot.ts = ts /\ (IsTombstone(y.slot) <=> IsTombstone(x.slot))
      BY <3>3, <3>4 DEF Slot, IsTombstone
    <3>13. Shows(y, Version(ts, v.val))
      <4>1. Version(ts, v.val).ts = ts /\ Version(ts, v.val).val = v.val
        BY DEF Version
      <4>2. CASE IsTombstone(x.slot)
        BY <3>2, <3>12, <4>1, <4>2 DEF Shows
      <4>3. CASE ~IsTombstone(x.slot)
        <5>1. EndsIn(x.vs, v) /\ y.vs = PromoteLast(x.vs, t, ts)
          BY <3>1, <3>2, <3>3, <3>6, <4>3 DEF Shows
        <5>2. EndsIn(y.vs, Version(ts, v.val))
          BY <1>7, <3>4, <3>10, <3>11, <5>1, Promoted
        <5> QED BY <3>12, <4>1, <4>3, <5>2 DEF Shows
      <4> QED BY <4>2, <4>3
    <3>14. Settled(y, h, clock')
      <4>1. Unhidden(y.min, ts)
        BY <1>7, <3>3, <3>4, LowerFacts
      <4>2. ASSUME NEW i \in DOMAIN h PROVE h[i].ts <= ts
        <5>1. CASE g[i].ts = txn_id(t)
          BY <1>7, <3>8, <5>1 DEF Version
        <5>2. CASE g[i].ts # txn_id(t)
          <6>1. i \in DOMAIN g /\ g[i].ts \in Nat /\ h[i] = g[i]
            <7>1. i \in DOMAIN g /\ g[i] \in Versions
              BY <3>8
            <7> QED BY <3>8, <5>2, <7>1 DEF Versions
          <6>2. g[i].ts <= tx[t].undo[j].ts /\ tx[t].undo[j].ts <= tx[t].start
            BY <3>5, <5>2, <6>1 DEF Underneath
          <6> QED BY <1>7, <3>7, <6>1, <6>2
        <5> QED BY <5>1, <5>2
      <4> QED BY <1>1, <1>7, <3>12, <4>1, <4>2 DEF Settled
    <3> QED BY <1>7, <3>9, <3>10, <3>11, <3>12, <3>13, <3>14, EdgeFrom
  <2> QED BY <2>1, <2>2
<1>13. ASSUME NEW u \in Txns, NEW e \in Eids PROVE OwnerInv(u, e)'
  <2>1. CASE u = t
    BY <1>6, <2>1 DEF OwnerInv
  <2>2. CASE u # t /\ Written(u, e) = {}
    <3>1. Written(u, e)' = {}
      BY <1>4, <2>2
    <3> QED BY <3>1 DEF OwnerInv
  <2>3. CASE u # t /\ Written(u, e) # {}
    <3>1. Written(t, e) = {}
      <4> SUFFICES ASSUME Written(t, e) # {} PROVE FALSE
        OBVIOUS
      <4>1. txn_id(u) = txn_id(t)
        BY <1>3, <2>3 DEF RunInv, OwnerInv
      <4> QED BY <2>3, <4>1, TxnIds
    <3> QED BY <1>3, <1>4, <1>11, <2>3, <3>1, OwnerUntouched DEF RunInv
  <2> QED BY <2>1, <2>2, <2>3
<1>14. ASSUME NEW u \in Txns PROVE WaitInv(u)'
  <2>1. CASE u = t
    BY <1>4, <1>5, <2>1 DEF WaitInv
  <2>2. CASE u # t
    <3>1. tx'[u] = tx[u] /\ eids \in Nat /\ WaitInv(u)
      BY <1>3, <1>4, <2>2, ConstantFacts DEF OInv, RunInv
    <3>2. \A w \in Txns : tx'[w].look.eid = tx[w].look.eid \/ tx'[w].look = NoLook
      BY <1>4, <1>5
    <3>3. ASSUME tx[u].look # NoLook PROVE StillThere(tx[u].look.eid)
      <4>a. PICK e : e = tx[u].look.eid
        OBVIOUS
      <4>1. e \in Eids
        <5>1. e \in 1 .. eids
          BY <3>1, <3>3, <4>a DEF WaitInv
        <5> QED BY <5>1, ConstantFacts DEF OInv, Eids
      <4>2. CASE Written(t, e) = {}
        BY <1>11, <4>1, <4>2, <4>a, UntouchedThere
      <4>3. CASE Written(t, e) # {}
        <5> DEFINE x == Cell(blocks, loc, e)
        <5>1. loc[e] # NoLoc /\ x.slot.ts = txn_id(t)
          BY <1>3, <4>1, <4>3 DEF RunInv, OwnerInv
        <5>2. x.dead \/ Sees(u, x.slot.ts)
          BY <3>1, <3>3, <4>a, <5>1 DEF WaitInv
        <5>3. ~Sees(u, txn_id(t))
          <6>1. txn_id(u) # txn_id(t)
            BY <2>2, TxnIds
          <6> QED BY <1>8, <6>1 DEF Sees
        <5>4. x.dead
          BY <5>1, <5>2, <5>3
        <5>5. Cell(blocks', loc', e).dead = x.dead
          BY <1>3, <1>a, <4>1, <5>1, CommitCells
        <5> QED BY <4>a, <5>1, <5>4, <5>5 DEF StillThere
      <4> QED BY <4>2, <4>3
    <3>4. eids' \in Nat /\ eids <= eids'
      BY <1>1, <3>1
    <3> QED BY <3>1, <3>2, <3>3, <3>4, WaitKept
  <2> QED BY <2>1, <2>2
<1>15. ASSUME NEW u \in Txns PROVE TxInv(u)'
  <2>1. tx'[u].start = tx[u].start /\ (u # t => tx'[u] = tx[u]) /\ tx[u].start \in Nat /\ TxInv(u)
    BY <1>3, <1>4, <1>5, TxTyped DEF RunInv
  <2>2. tx'[u].start <= clock' /\ (u # t => tx'[u].commit = tx[u].commit) /\ tx'[t].commit = NONE
    BY <1>4, <1>5, <1>7, <2>1 DEF TxInv
  <2>3. tx'[u].st # "active" => tx'[u].undo = <<>> /\ tx'[u].commit = NONE
    BY <1>4, <1>5, <2>1 DEF TxInv
  <2> QED BY <1>1, <2>1, <2>2, <2>3 DEF TxInv
<1>16. (clock <= Cardinality(Ended))'
  <2>1. Ended' = Ended
    BY <1>1, <1>4, <1>5, <1>a DEF Ended
  <2> QED BY <1>1, <1>3, <2>1 DEF RunInv
<1>17. VersionsIn(blocks)'
  BY <1>3, CommitVersions DEF VersionsIn
<1>18. RunInv'
  BY <1>10, <1>12, <1>13, <1>14, <1>15, <1>16, <1>17 DEF RunInv
<1> QED BY <1>1, <1>18, RunState

-----------------------------------------------------------------------------
(* Rollbacks.                                                                *)

\* Entry u of t is taken back in store s, which gives store z.
TookBack(s, z, t, u) ==
    LET e == u.eid
        x == Cell(s.blocks, s.loc, e)
        y == Cell(z.blocks, z.loc, e)
    IN  /\ VersionsIn(z.blocks)
        /\ \A f \in Eids : f # e => Kept(s.blocks, s.loc, z.blocks, z.loc, f)
        /\ (s.loc[e] # NoLoc /\ u.op = "create" /\ x.slot.ts = txn_id(t)) => z.loc[e] = NoLoc
        /\ (s.loc[e] # NoLoc /\ u.op # "create") =>
              /\ z.loc[e] # NoLoc /\ y.slot.ts = u.ts /\ y.min = x.min /\ y.dead = x.dead
              /\ y.slot.dst = IF u.op = "del" THEN tx[t].snap[e] ELSE x.slot.dst
              /\ y.vs = IF u.op = "set" THEN Without(x.vs, t) ELSE x.vs

LEMMA KeptSame ==
  ASSUME NEW bs, NEW m, NEW last, Exact(bs, m, last), VersionsIn(bs), NEW f \in Eids
  PROVE  Kept(bs, m, bs, m, f)
<1>1. ASSUME m[f] # NoLoc PROVE Cell(bs, m, f).min \in Nat
  BY <1>1, CellTyped
<1> QED BY <1>1, LowerFacts DEF Kept, SameCell

\* The slot at l is rewritten, or removed.
RewrittenAt(bs, l, cs, new, vs) == cs = [bs EXCEPT ![l.b] = Rewritten(bs[l.b], l.o, new, vs, bs[l.b].min)]
RemovedAt(bs, m, e, cs, m2) ==
    /\ cs = [bs EXCEPT ![m[e].b] = Removed(bs[m[e].b], m[e].o)]
    /\ m2 = [Remapped(m, cs, m[e].b) EXCEPT ![e] = NoLoc]

LEMMA SlotBack ==
  ASSUME NEW bs, NEW m, NEW last, Exact(bs, m, last), VersionsIn(bs), NEW e \in Eids, m[e] # NoLoc,
         NEW new, new.eid = e, NEW vs \in Seq(Versions),
         NEW cs, Exact(cs, m, last), RewrittenAt(bs, m[e], cs, new, vs)
  PROVE  /\ VersionsIn(cs) /\ \A f \in Eids : f # e => Kept(bs, m, cs, m, f)
         /\ Cell(cs, m, e) = [slot |-> new, vs |-> vs, min |-> Cell(bs, m, e).min, dead |-> Cell(bs, m, e).dead]
<1>a. PICK l : l = m[e]
  OBVIOUS
<1>b. PICK b : b = bs[l.b]
  OBVIOUS
<1>c. PICK mn : mn = b.min
  OBVIOUS
<1>d. PICK c : c = Rewritten(b, l.o, new, vs, mn)
  OBVIOUS
<1>1. cs = [bs EXCEPT ![l.b] = c]
  BY <1>a, <1>b, <1>c, <1>d DEF RewrittenAt
<1>2. l.b \in DOMAIN bs /\ Occupied(b, l.b, l.o) /\ b.e[l.o].eid = e
  BY <1>a, <1>b, OccupiedAt
<1>3. Cell(bs, m, e).min = mn /\ mn \in Nat
  BY <1>a, <1>b, <1>c, CellTyped
<1>4. ChangedAt(b, c, l.o, new, vs, mn)
  BY <1>2, <1>d, RewrittenCarries
<1>5. OnlyBlock(bs, cs, l.b) /\ cs[l.b] = c
  BY <1>1, <1>2 DEF OnlyBlock
<1>6. RewritesIn(bs, m, cs, e, new, vs, mn)
  BY <1>3, <1>4, <1>5, <1>a, <1>b, LowerFacts DEF RewritesIn
<1> QED BY <1>3, <1>6, RewriteCells

LEMMA SlotGone ==
  ASSUME NEW bs, NEW m, NEW last, Exact(bs, m, last), VersionsIn(bs), NEW e \in Eids, m[e] # NoLoc,
         NEW cs, NEW m2, Exact(cs, m2, last), RemovedAt(bs, m, e, cs, m2)
  PROVE  VersionsIn(cs) /\ m2[e] = NoLoc /\ \A f \in Eids : f # e => Kept(bs, m, cs, m2, f)
<1>a. PICK l : l = m[e]
  OBVIOUS
<1>b. PICK b : b = bs[l.b]
  OBVIOUS
<1>c. PICK c : c = Removed(b, l.o)
  OBVIOUS
<1>d. PICK r : r = Remapped(m, cs, l.b)
  OBVIOUS
<1>e. PICK i : i = l.b
  OBVIOUS
<1>1. cs = [bs EXCEPT ![i] = c] /\ m2 = [r EXCEPT ![e] = NoLoc]
  BY <1>a, <1>b, <1>c, <1>d, <1>e DEF RemovedAt
<1>2. i \in DOMAIN bs /\ Occupied(b, i, l.o) /\ b.e[l.o].eid = e
  BY <1>a, <1>b, <1>e, OccupiedAt
<1>3. ShrunkAt(b, c, l.o)
  BY <1>2, <1>c, RemovedCarries
<1>4. OnlyBlock(bs, cs, i) /\ cs[i] = c
  BY <1>1, <1>2 DEF OnlyBlock
<1>5. b.min \in Nat
  BY <1>2, <1>b, <1>e DEF VersionsIn
<1>6. /\ Carries(b, c, e, 0) /\ cs[i].p \in [Slots -> Seq(Versions)] /\ cs[i].min \in Nat
      /\ Lower(bs[i].min, cs[i].min)
  BY <1>2, <1>3, <1>4, <1>5, <1>b, <1>e, LowerFacts DEF ShrunkAt
<1>7. Moves(bs, m, cs, m2, i, e, 0)
  BY <1>2, <1>4, <1>6, <1>b, <1>e DEF Moves
<1>8. VersionsIn(cs) /\ \A f \in Eids : f # e => Kept(bs, m, cs, m2, f)
  BY <1>6, <1>7, OthersKept
<1>9. m2[e] = NoLoc
  <2>1. r = [f \in Eids |-> r[f]]
    BY <1>d, Zenon DEF Remapped
  <2> QED BY <1>1, <2>1
<1> QED BY <1>8, <1>9

LEMMA UndoneCells ==
  ASSUME OInv, NEW t \in Txns, NEW u \in UndoRecords, NEW len, NEW s, Store(s, eids, len), VersionsIn(s.blocks)
  PROVE  TookBack(s, Undone(s, t, u), t, u)
<1>a1. PICK e : e = u.eid
  OBVIOUS
<1>a2. PICK l : l = s.loc[e]
  OBVIOUS
<1>b. PICK b : b = s.blocks[l.b]
  OBVIOUS
<1>c1. PICK slot : slot = b.e[l.o]
  OBVIOUS
<1>c2. PICK z : z = Undone(s, t, u)
  OBVIOUS
<1> DEFINE less == [s.blocks EXCEPT ![l.b] = Removed(b, l.o)]
           created == [blocks |-> less, loc |-> [Remapped(s.loc, less, l.b) EXCEPT ![e] = NoLoc]]
           back == [slot EXCEPT !.ts = u.ts, !.dst = tx[t].snap[e]]
           old == [slot EXCEPT !.ts = u.ts]
           kept == Without(b.p[l.o], t)
           deleted == [s.blocks EXCEPT ![l.b] = Rewritten(b, l.o, back, b.p[l.o], b.min)]
           set == [s.blocks EXCEPT ![l.b] = Rewritten(b, l.o, old, kept, b.min)]
<1>1. /\ e \in Eids /\ u.op \in {"create", "set", "del"} /\ DOMAIN s = {"blocks", "loc"} /\ u.ts \in Nat
      /\ Exact(s.blocks, s.loc, eids) /\ Store(z, eids, len)
  BY <1>a1, <1>a2, <1>c1, <1>c2, UndoneOK DEF UndoRecords, Store
<1>2. Exact(z.blocks, z.loc, eids)
  BY <1>1 DEF Store
<1>3. s.loc[e] # NoLoc => Holds(s.blocks, l, e)
  BY <1>1, <1>a1, <1>a2 DEF Exact, Mapped
<1>4. ~Holds(s.blocks, l, e) => z = s
  BY <1>a1, <1>a2, <1>c1, <1>c2, Zenon DEF Undone
<1>5. Holds(s.blocks, l, e) =>
        z = CASE u.op = "create" /\ slot.ts = txn_id(t) -> created
              [] u.op = "del" -> [s EXCEPT !.blocks = deleted]
              [] u.op = "set" -> [s EXCEPT !.blocks = set]
              [] OTHER -> s
  BY <1>a1, <1>a2, <1>b, <1>c1, <1>c2, Zenon DEF Undone
<1> HIDE DEF created, deleted, set
<1>6. Cell(s.blocks, s.loc, e).slot = slot
  BY <1>a1, <1>a2, <1>b, <1>c1, <1>c2 DEF Cell
<1>7. CASE z = s /\ (s.loc[e] = NoLoc \/ (u.op = "create" /\ slot.ts # txn_id(t)))
  <2>1. \A f \in Eids : Kept(s.blocks, s.loc, s.blocks, s.loc, f)
    BY <1>1, KeptSame
  <2>2. TookBack(s, s, t, u)
    BY <1>6, <1>7, <1>a1, <1>a2, <2>1 DEF TookBack
  <2> QED BY <1>7, <1>c1, <1>c2, <2>2
<1>8. ASSUME s.loc[e] # NoLoc
      PROVE  /\ slot \in Slot /\ slot.eid = e /\ b.p[l.o] \in Seq(Versions)
             /\ kept \in Seq(Versions) /\ tx[t].snap[e] \in Nat
  <2>1. slot \in Slot /\ slot.eid = e /\ b.p[l.o] \in Seq(Versions)
    <3>1. LET x == Cell(s.blocks, s.loc, e)
          IN  /\ x.slot \in Slot /\ x.slot.eid = e /\ x.vs \in Seq(Versions)
              /\ x.vs = s.blocks[s.loc[e].b].p[s.loc[e].o]
      BY <1>1, <1>8, CellTyped
    <3>2. s.blocks[s.loc[e].b].p[s.loc[e].o] = b.p[l.o]
      BY <1>a2, <1>b
    <3> QED BY <1>6, <3>1, <3>2
  <2>2. tx[t].snap[e] \in Nat
    BY <1>1, TxTyped
  <2> QED BY <2>1, <2>2, WithoutFacts
<1>9. CASE s.loc[e] # NoLoc /\ u.op = "create" /\ slot.ts = txn_id(t)
  <2>1. z = created
    BY <1>3, <1>5, <1>9
  <2>2. z.blocks = less /\ z.loc = [Remapped(s.loc, less, l.b) EXCEPT ![e] = NoLoc]
    BY <2>1 DEF created
  <2>3. RemovedAt(s.blocks, s.loc, e, z.blocks, z.loc)
    BY <2>2, <1>a2, <1>b, Zenon DEF RemovedAt
  <2> HIDE DEF less
  <2>4. /\ VersionsIn(z.blocks) /\ z.loc[e] = NoLoc
        /\ \A f \in Eids : f # e => Kept(s.blocks, s.loc, z.blocks, z.loc, f)
    BY <1>1, <1>2, <1>9, <2>3, SlotGone
  <2>5. TookBack(s, z, t, u)
    BY <1>9, <1>a1, <2>4 DEF TookBack
  <2> QED BY <1>c2, <2>5
<1>10. ASSUME s.loc[e] # NoLoc, u.op # "create", NEW new, new.eid = e, NEW vs \in Seq(Versions),
              z.loc = s.loc, RewrittenAt(s.blocks, l, z.blocks, new, vs), new.ts = u.ts,
              new.dst = (IF u.op = "del" THEN tx[t].snap[e] ELSE slot.dst),
              vs = (IF u.op = "set" THEN Without(b.p[l.o], t) ELSE b.p[l.o])
       PROVE  TookBack(s, z, t, u)
  <2>0. PICK bs : bs = z.blocks
    OBVIOUS
  <2>1. Exact(bs, s.loc, eids) /\ RewrittenAt(s.blocks, s.loc[e], bs, new, vs)
    BY <1>2, <1>10, <1>a2, <2>0
  <2>2. /\ VersionsIn(bs) /\ \A f \in Eids : f # e => Kept(s.blocks, s.loc, bs, s.loc, f)
        /\ Cell(bs, s.loc, e) = [slot |-> new, vs |-> vs, min |-> Cell(s.blocks, s.loc, e).min,
                                 dead |-> Cell(s.blocks, s.loc, e).dead]
    BY <1>1, <1>10, <2>1, SlotBack
  <2>3. Cell(s.blocks, s.loc, e).vs = b.p[l.o]
    BY <1>a2, <1>b DEF Cell
  <2>4. PICK x : x = Cell(s.blocks, s.loc, e)
    OBVIOUS
  <2>5. PICK y : y = Cell(bs, s.loc, e)
    OBVIOUS
  <2>6. y.slot = new /\ y.vs = vs /\ y.min = x.min /\ y.dead = x.dead
    BY <2>2, <2>4, <2>5
  <2> QED BY <1>6, <1>10, <1>a1, <2>0, <2>2, <2>3, <2>4, <2>5, <2>6 DEF TookBack
<1>11. CASE s.loc[e] # NoLoc /\ u.op = "del"
  <2>1. z = [s EXCEPT !.blocks = deleted]
    BY <1>3, <1>5, <1>11
  <2>2. z.blocks = deleted /\ z.loc = s.loc
    BY <1>1, <2>1
  <2>3. back.eid = e /\ back.ts = u.ts /\ back.dst = tx[t].snap[e]
    BY <1>8, <1>11 DEF Slot
  <2>4. RewrittenAt(s.blocks, l, z.blocks, back, b.p[l.o])
    BY <2>2, <1>b, Zenon DEF RewrittenAt, deleted
  <2> HIDE DEF back
  <2>5. TookBack(s, z, t, u)
    BY <1>8, <1>10, <1>11, <2>2, <2>3, <2>4
  <2> QED BY <1>c2, <2>5
<1>14. CASE s.loc[e] # NoLoc /\ u.op = "set"
  <2>1. z = [s EXCEPT !.blocks = set]
    BY <1>3, <1>5, <1>14
  <2>2. z.blocks = set /\ z.loc = s.loc
    BY <1>1, <2>1
  <2>3. old.eid = e /\ old.ts = u.ts /\ old.dst = slot.dst
    BY <1>8, <1>14 DEF Slot
  <2>4. RewrittenAt(s.blocks, l, z.blocks, old, kept)
    BY <2>2, <1>b, Zenon DEF RewrittenAt, set
  <2> HIDE DEF old
  <2>5. TookBack(s, z, t, u)
    BY <1>8, <1>10, <1>14, <2>2, <2>3, <2>4
  <2> QED BY <1>c2, <2>5
<1>12. s.loc[e] = NoLoc => ~Holds(s.blocks, l, e)
  <2> SUFFICES ASSUME s.loc[e] = NoLoc, Holds(s.blocks, l, e) PROVE FALSE
    OBVIOUS
  <2>1. l.b \in DOMAIN s.blocks /\ l.b = NONE
    <3>1. l.b \in DOMAIN s.blocks
      BY DEF Holds
    <3>2. NoLoc.b = NONE
      BY DEF NoLoc
    <3> QED BY <1>a2, <3>1, <3>2
  <2> QED BY <1>1, <2>1, BlocksShape DEF Exact, NONE
<1>13. CASE s.loc[e] # NoLoc /\ u.op = "create" /\ slot.ts # txn_id(t)
  <2>1. z = s
    BY <1>3, <1>5, <1>13
  <2> QED BY <1>7, <1>13, <2>1
<1> QED BY <1>1, <1>4, <1>7, <1>9, <1>11, <1>12, <1>13, <1>14

LEMMA KeptOn ==
  ASSUME NEW bs, NEW m, NEW cs, NEW m2, NEW ds, NEW m3, NEW f, Kept(bs, m, cs, m2, f), Kept(cs, m2, ds, m3, f)
  PROVE  Kept(bs, m, ds, m3, f)
  BY DEF Kept, SameCell, Lower

\* Of t's writes to f, the first k entries of the undo buffer hold one of kind op.
Left(t, f, k, op) == \E j \in Written(t, f) : j <= k /\ tx[t].undo[j].op = op
\* Edge f, which t created with entry i, when the entries after k are taken back.
CreateBack(t, f, i, k, s) ==
    IF i <= k THEN s.loc[f] # NoLoc /\ Cell(s.blocks, s.loc, f).slot.ts = txn_id(t) ELSE s.loc[f] = NoLoc
\* Edge f, which t wrote first with entry i, with version v under its writes.
WriteBack(t, f, i, v, k, s) ==
    LET x == Cell(blocks, loc, f)
        y == Cell(s.blocks, s.loc, f)
    IN  /\ s.loc[f] # NoLoc /\ y.dead = x.dead /\ Lower(x.min, y.min)
        /\ y.slot.ts = (IF i <= k THEN txn_id(t) ELSE tx[t].undo[i].ts)
        /\ IsTombstone(y.slot) => Left(t, f, k, "del")
        /\ EndsUnder(y.vs, v, t) /\ (~Left(t, f, k, "set") => EndsIn(y.vs, v))

\* The entry that is taken back is one of f's, or f keeps its cell.
LEMMA CreateBackStep ==
  ASSUME OInv, NEW t \in Txns, NEW f \in Eids, NEW i \in Written(t, f), FirstWrite(t, f, i), tx[t].undo[i].op = "create",
         NEW k \in DOMAIN tx[t].undo, NEW s, NEW z, TookBack(s, z, t, tx[t].undo[k]), CreateBack(t, f, i, k, s)
  PROVE  CreateBack(t, f, i, k - 1, z)
<1>a. PICK u : u = tx[t].undo[k]
  OBVIOUS
<1>0. i \in Nat /\ k \in Nat /\ k >= 1 /\ i \in DOMAIN tx[t].undo
  BY TxTyped DEF Written
<1>1. CASE u.eid # f
  <2>1. Kept(s.blocks, s.loc, z.blocks, z.loc, f)
    BY <1>1, <1>a DEF TookBack
  <2>2. i # k
    BY <1>1, <1>a DEF Written
  <2>3. i <= k <=> i <= k - 1
    BY <1>0, <2>2
  <2> QED BY <2>1, <2>3 DEF CreateBack, Kept, SameCell
<1>2. CASE u.eid = f /\ k = i
  <2>1. s.loc[f] # NoLoc /\ Cell(s.blocks, s.loc, f).slot.ts = txn_id(t) /\ u.op = "create"
    BY <1>0, <1>2, <1>a DEF CreateBack
  <2>2. z.loc[f] = NoLoc
    BY <1>2, <1>a, <2>1 DEF TookBack
  <2>3. ~(i <= k - 1)
    BY <1>0, <1>2
  <2> QED BY <2>2, <2>3 DEF CreateBack
<1>3. CASE u.eid = f /\ k # i
  <2>1. k \in Written(t, f)
    BY <1>3, <1>a DEF Written
  <2>2. k > i /\ u.op # "create" /\ u.ts = txn_id(t)
    BY <1>3, <1>a, <2>1 DEF FirstWrite
  <2>3. i <= k /\ i <= k - 1
    BY <1>0, <2>2
  <2>4. s.loc[f] # NoLoc
    BY <2>3 DEF CreateBack
  <2>5. z.loc[f] # NoLoc /\ Cell(z.blocks, z.loc, f).slot.ts = u.ts
    BY <1>3, <1>a, <2>2, <2>4 DEF TookBack
  <2> QED BY <2>2, <2>3, <2>5 DEF CreateBack
<1> QED BY <1>1, <1>2, <1>3

LEMMA WriteBackStep ==
  ASSUME OInv, NEW t \in Txns, NEW f \in Eids, NEW i \in Written(t, f), FirstWrite(t, f, i), tx[t].undo[i].op # "create",
         tx[t].snap[f] = TOMBSTONE_DST_ID => ~Wrote(t, f, "del"),
         NEW v \in Versions, v.ts # txn_id(t),
         NEW k \in DOMAIN tx[t].undo, NEW s, NEW z, Exact(s.blocks, s.loc, eids), VersionsIn(s.blocks),
         TookBack(s, z, t, tx[t].undo[k]), WriteBack(t, f, i, v, k, s)
  PROVE  WriteBack(t, f, i, v, k - 1, z)
<1>a. PICK u : u = tx[t].undo[k]
  OBVIOUS
<1>b. PICK x : x = Cell(blocks, loc, f)
  OBVIOUS
<1>c. PICK y : y = Cell(s.blocks, s.loc, f)
  OBVIOUS
<1>d. PICK q : q = Cell(z.blocks, z.loc, f)
  OBVIOUS
<1>0. i \in Nat /\ k \in Nat /\ k >= 1 /\ i \in DOMAIN tx[t].undo /\ \A j \in Written(t, f) : j \in Nat
  BY TxTyped DEF Written
<1>1. /\ s.loc[f] # NoLoc /\ y.dead = x.dead /\ Lower(x.min, y.min)
      /\ y.slot.ts = (IF i <= k THEN txn_id(t) ELSE tx[t].undo[i].ts)
      /\ IsTombstone(y.slot) => Left(t, f, k, "del")
      /\ EndsUnder(y.vs, v, t) /\ (~Left(t, f, k, "set") => EndsIn(y.vs, v))
  BY <1>b, <1>c DEF WriteBack
<1>2. SUFFICES /\ z.loc[f] # NoLoc /\ q.dead = x.dead /\ Lower(x.min, q.min)
               /\ q.slot.ts = (IF i <= k - 1 THEN txn_id(t) ELSE tx[t].undo[i].ts)
               /\ IsTombstone(q.slot) => Left(t, f, k - 1, "del")
               /\ EndsUnder(q.vs, v, t) /\ (~Left(t, f, k - 1, "set") => EndsIn(q.vs, v))
  BY <1>b, <1>d DEF WriteBack
<1>3. \A op : Left(t, f, k, op) /\ ~(u.eid = f /\ u.op = op) => Left(t, f, k - 1, op)
  <2> SUFFICES ASSUME NEW op, Left(t, f, k, op), ~(u.eid = f /\ u.op = op) PROVE Left(t, f, k - 1, op)
    OBVIOUS
  <2>1. PICK j \in Written(t, f) : j <= k /\ tx[t].undo[j].op = op
    BY DEF Left
  <2>2. j # k
    BY <1>a, <2>1 DEF Written
  <2>3. j <= k - 1
    BY <1>0, <2>1, <2>2
  <2> QED BY <2>1, <2>3 DEF Left
<1>4. CASE u.eid # f
  <2>1. Kept(s.blocks, s.loc, z.blocks, z.loc, f)
    BY <1>4, <1>a DEF TookBack
  <2>2. z.loc[f] # NoLoc /\ q.slot = y.slot /\ q.vs = y.vs /\ q.dead = y.dead /\ Lower(y.min, q.min)
    BY <1>1, <1>c, <1>d, <2>1 DEF Kept, SameCell
  <2>3. i # k
    BY <1>4, <1>a DEF Written
  <2>4. i <= k <=> i <= k - 1
    BY <1>0, <2>3
  <2>5. Lower(x.min, q.min)
    BY <1>1, <2>2 DEF Lower
  <2> QED BY <1>1, <1>3, <1>4, <2>2, <2>4, <2>5
<1>5. CASE u.eid = f
  <2>1. k \in Written(t, f)
    BY <1>5, <1>a DEF Written
  <2>2. u.op # "create" /\ u.op \in {"create", "set", "del"} /\ u.ts = (IF k = i THEN tx[t].undo[i].ts ELSE txn_id(t)) /\ k >= i
    <3>1. u \in UndoRecords
      BY <1>a, TxTyped
    <3>2. k = i \/ (k > i /\ u.op # "create" /\ u.ts = txn_id(t))
      BY <1>a, <2>1 DEF FirstWrite
    <3>3. k >= i
      BY <1>0, <3>2
    <3>4. u.op # "create"
      BY <1>a, <3>2
    <3>5. k # i => u.ts = txn_id(t)
      BY <3>2
    <3> QED BY <1>a, <3>1, <3>3, <3>4, <3>5 DEF UndoRecords
  <2>3. i <= k - 1 <=> k # i
    BY <1>0, <2>2
  <2>4. /\ z.loc[f] # NoLoc /\ q.slot.ts = u.ts /\ q.min = y.min /\ q.dead = y.dead
        /\ q.slot.dst = (IF u.op = "del" THEN tx[t].snap[f] ELSE y.slot.dst)
        /\ q.vs = (IF u.op = "set" THEN Without(y.vs, t) ELSE y.vs)
    BY <1>1, <1>5, <1>a, <1>c, <1>d, <2>2 DEF TookBack
  <2>5. q.slot.ts = (IF i <= k - 1 THEN txn_id(t) ELSE tx[t].undo[i].ts)
    BY <2>2, <2>3, <2>4
  <2>6. IsTombstone(q.slot) => Left(t, f, k - 1, "del")
    <3>1. CASE u.op = "del"
      <4>1. Wrote(t, f, "del")
        BY <1>a, <2>1, <3>1 DEF Wrote
      <4> QED BY <2>4, <3>1, <4>1 DEF IsTombstone
    <3>2. CASE u.op # "del"
      BY <1>1, <1>3, <2>4, <3>2 DEF IsTombstone
    <3> QED BY <3>1, <3>2
  <2>7. EndsUnder(q.vs, v, t) /\ (~Left(t, f, k - 1, "set") => EndsIn(q.vs, v))
    <3>0. y.vs \in Seq(Versions)
      BY <1>1, <1>c, CellTyped
    <3>1. CASE u.op = "set"
      <4>1. q.vs \in Seq(Versions) /\ EndsIn(q.vs, v)
        BY <1>1, <2>4, <3>0, <3>1, WithoutFacts
      <4> QED BY <4>1, EndsInUnder
    <3>2. CASE u.op # "set"
      BY <1>1, <1>3, <2>4, <3>2
    <3> QED BY <3>1, <3>2
  <2> QED BY <1>1, <2>4, <2>5, <2>6, <2>7
<1> QED BY <1>4, <1>5

\* Version v is the commit of f's that t found with entry i, in the log under its own writes.
Beneath(t, f, i, v) ==
    LET c == tx[t].undo[i].ts
    IN  /\ c <= tx[t].start /\ Unhidden(Cell(blocks, loc, f).min, c)
        /\ \A n \in DOMAIN log[f] : log[f][n].ts = txn_id(t) \/ log[f][n].ts <= c
        /\ v.ts = c /\ v.ts # txn_id(t) /\ EndsUnder(log[f], v, t)
EdgeBack(t, f, k, s) ==
    IF Written(t, f) = {} THEN Kept(blocks, loc, s.blocks, s.loc, f)
    ELSE \E i \in Written(t, f) :
            /\ FirstWrite(t, f, i)
            /\ IF tx[t].undo[i].op = "create" THEN CreateBack(t, f, i, k, s)
               ELSE \E v \in Versions : Beneath(t, f, i, v) /\ WriteBack(t, f, i, v, k, s)
\* The store once the entries of t after k are taken back.
RolledTo(t, k, s) ==
    Store(s, eids, Len(blocks)) /\ VersionsIn(s.blocks) /\ \A f \in Eids : EdgeBack(t, f, k, s)

LEMMA RollStart ==
  ASSUME OInv, RunInv, NEW t \in Txns, NEW s, s = [blocks |-> blocks, loc |-> loc], NEW k, k = Len(tx[t].undo)
  PROVE  RolledTo(t, k, s)
<1>1. DOMAIN s = {"blocks", "loc"} /\ s.blocks = blocks /\ s.loc = loc
  OBVIOUS
<1>2. Store(s, eids, Len(blocks)) /\ VersionsIn(s.blocks)
  BY <1>1 DEF Store, OInv, RunInv
<1>3. ASSUME NEW f \in Eids PROVE EdgeBack(t, f, k, s)
  <2>1. CASE Written(t, f) = {}
    <3>1. Kept(blocks, loc, blocks, loc, f)
      BY KeptSame DEF OInv, RunInv
    <3> QED BY <1>1, <2>1, <3>1 DEF EdgeBack
  <2>2. CASE Written(t, f) # {}
    <3>a. PICK x : x = Cell(blocks, loc, f)
      OBVIOUS
    <3>1. /\ loc[f] # NoLoc /\ x.slot.ts = txn_id(t) /\ (IsTombstone(x.slot) <=> Wrote(t, f, "del"))
      BY <2>2, <3>a DEF RunInv, OwnerInv
    <3>2. PICK i \in Written(t, f) :
            /\ FirstWrite(t, f, i)
            /\ IF tx[t].undo[i].op = "create" THEN \A n \in DOMAIN log[f] : log[f][n].ts = txn_id(t)
               ELSE Underneath(t, x, log[f], tx[t].undo[i].ts, tx[t].start, Wrote(t, f, "set"))
      BY <2>2, <3>a DEF RunInv, OwnerInv
    <3>3. \A j \in Written(t, f) : j <= k
      BY TxTyped DEF Written
    <3>4. \A op : Left(t, f, k, op) <=> Wrote(t, f, op)
      BY <3>3 DEF Left, Wrote
    <3>5. CASE tx[t].undo[i].op = "create"
      <4>1. CreateBack(t, f, i, k, s)
        BY <1>1, <3>1, <3>3, <3>a DEF CreateBack
      <4> QED BY <2>2, <3>2, <3>5, <4>1 DEF EdgeBack
    <3>6. CASE tx[t].undo[i].op # "create"
      <4>1. Underneath(t, x, log[f], tx[t].undo[i].ts, tx[t].start, Wrote(t, f, "set"))
        BY <3>2, <3>6
      <4>2. PICK v \in Versions : /\ v.ts = tx[t].undo[i].ts /\ EndsUnder(x.vs, v, t) /\ EndsUnder(log[f], v, t)
                                  /\ ~Wrote(t, f, "set") => EndsIn(x.vs, v)
        BY <4>1 DEF Underneath
      <4>3. v.ts # txn_id(t)
        BY <4>2 DEF EndsUnder
      <4>4. Beneath(t, f, i, v)
        BY <3>a, <4>1, <4>2, <4>3 DEF Beneath, Underneath
      <4>5. Lower(x.min, x.min)
        BY DEF Lower
      <4>6. WriteBack(t, f, i, v, k, s)
        BY <1>1, <3>1, <3>3, <3>4, <3>a, <4>2, <4>5 DEF WriteBack
      <4> QED BY <2>2, <3>2, <3>6, <4>4, <4>6 DEF EdgeBack
    <3> QED BY <3>5, <3>6
  <2> QED BY <2>1, <2>2
<1> QED BY <1>2, <1>3 DEF RolledTo

LEMMA RollStep ==
  ASSUME OInv, RunInv, NEW t \in Txns, NEW k \in DOMAIN tx[t].undo, NEW s, RolledTo(t, k, s),
         NEW z, z = Undone(s, t, tx[t].undo[k])
  PROVE  RolledTo(t, k - 1, z)
<1>a. PICK u : u = tx[t].undo[k]
  OBVIOUS
<1>b. PICK len : len = Len(blocks)
  OBVIOUS
<1>1. u \in UndoRecords /\ Store(s, eids, len) /\ VersionsIn(s.blocks) /\ \A f \in Eids : EdgeBack(t, f, k, s)
  BY <1>a, <1>b, TxTyped DEF RolledTo
<1>2. Store(z, eids, len)
  BY <1>1, <1>a, UndoneOK
<1>3. TookBack(s, z, t, u)
  BY <1>1, <1>a, UndoneCells
<1>4. VersionsIn(z.blocks) /\ Exact(s.blocks, s.loc, eids)
  BY <1>1, <1>3 DEF TookBack, Store
<1>5. ASSUME NEW f \in Eids PROVE EdgeBack(t, f, k - 1, z)
  <2>1. CASE Written(t, f) = {}
    <3>1. u.eid # f
      BY <1>a, <2>1 DEF Written
    <3>2. Kept(blocks, loc, s.blocks, s.loc, f) /\ Kept(s.blocks, s.loc, z.blocks, z.loc, f)
      BY <1>1, <1>3, <2>1, <3>1 DEF EdgeBack, TookBack
    <3>3. Kept(blocks, loc, z.blocks, z.loc, f)
      BY <3>2, KeptOn
    <3> QED BY <2>1, <3>3 DEF EdgeBack
  <2>2. CASE Written(t, f) # {}
    <3>1. PICK i \in Written(t, f) :
            /\ FirstWrite(t, f, i)
            /\ IF tx[t].undo[i].op = "create" THEN CreateBack(t, f, i, k, s)
               ELSE \E v \in Versions : Beneath(t, f, i, v) /\ WriteBack(t, f, i, v, k, s)
      BY <1>1, <2>2 DEF EdgeBack
    <3>2. CASE tx[t].undo[i].op = "create"
      <4>1. CreateBack(t, f, i, k - 1, z)
        BY <1>3, <1>a, <3>1, <3>2, CreateBackStep
      <4> QED BY <2>2, <3>1, <3>2, <4>1 DEF EdgeBack
    <3>3. CASE tx[t].undo[i].op # "create"
      <4>1. PICK v \in Versions : Beneath(t, f, i, v) /\ WriteBack(t, f, i, v, k, s)
        BY <3>1, <3>3
      <4>2. v.ts # txn_id(t)
        BY <4>1 DEF Beneath
      <4>3. tx[t].snap[f] = TOMBSTONE_DST_ID => ~Wrote(t, f, "del")
        BY <2>2 DEF RunInv, OwnerInv
      <4>4. WriteBack(t, f, i, v, k - 1, z)
        BY <1>1, <1>3, <1>4, <1>a, <3>1, <3>3, <4>1, <4>2, <4>3, WriteBackStep
      <4> QED BY <2>2, <3>1, <3>3, <4>1, <4>4 DEF EdgeBack
    <3> QED BY <3>2, <3>3
  <2> QED BY <2>1, <2>2
<1> QED BY <1>2, <1>4, <1>5, <1>b DEF RolledTo

LEMMA AllRolledBack ==
  ASSUME OInv, RunInv, NEW t \in Txns
  PROVE  RolledTo(t, 0, RolledBack(t))
<1>a. PICK N : N = Len(tx[t].undo)
  OBVIOUS
<1>b. PICK T : T = TakenBack(t)
  OBVIOUS
<1> DEFINE Good == {n \in Nat : n <= N => RolledTo(t, N - n, T[n])}
<1>1. N \in Nat /\ DOMAIN tx[t].undo = 1 .. N /\ tx[t].undo \in Seq(UndoRecords)
  BY <1>a, TxTyped
<1>2. /\ T[0] = [blocks |-> blocks, loc |-> loc]
      /\ \A n \in 1 .. N : T[n] = Undone(T[n - 1], t, tx[t].undo[N + 1 - n])
  BY <1>1, <1>a, <1>b, TakenBackSteps
<1>3. 0 \in Good
  <2>1. RolledTo(t, N, T[0])
    BY <1>2, <1>a, RollStart
  <2>2. N - 0 = N
    BY <1>1
  <2> QED BY <2>1, <2>2
<1>4. ASSUME NEW n \in Nat, n \in Good PROVE n + 1 \in Good
  <2> SUFFICES ASSUME n + 1 <= N PROVE RolledTo(t, N - (n + 1), T[n + 1])
    OBVIOUS
  <2>1. n + 1 \in 1 .. N /\ (n + 1) - 1 = n /\ N + 1 - (n + 1) = N - n /\ (N - n) - 1 = N - (n + 1)
        /\ N - n \in 1 .. N /\ n <= N
    BY <1>1
  <2>2. PICK k : k = N - n
    OBVIOUS
  <2>3. PICK s : s = T[n]
    OBVIOUS
  <2>4. PICK z : z = T[n + 1]
    OBVIOUS
  <2>5. RolledTo(t, k, s)
    BY <1>4, <2>1, <2>2, <2>3
  <2>6. z = Undone(T[(n + 1) - 1], t, tx[t].undo[N + 1 - (n + 1)])
    BY <1>2, <2>1, <2>4, Zenon
  <2>7. z = Undone(s, t, tx[t].undo[k])
    BY <2>1, <2>2, <2>3, <2>6
  <2>8. k \in DOMAIN tx[t].undo
    BY <1>1, <2>1, <2>2
  <2>9. RolledTo(t, k - 1, z)
    BY <2>5, <2>7, <2>8, RollStep
  <2> QED BY <2>1, <2>2, <2>4, <2>9
<1>5. N \in Good
  <2> HIDE DEF Good
  <2>1. Nat \subseteq Good
    BY <1>3, <1>4, SetInduction
  <2> QED BY <1>1, <2>1
<1>6. RolledTo(t, 0, T[N])
  <2>1. N - N = 0 /\ N <= N
    BY <1>1
  <2> QED BY <1>5, <2>1
<1>7. RolledBack(t) = T[N]
  BY <1>a, <1>b DEF RolledBack
<1> QED BY <1>6, <1>7

\* What the store has of an edge after the rollback.
LEMMA AfterAbort ==
  ASSUME KeepOff, OInv, RunInv, NEW t \in Txns, NEW f \in Eids, Written(t, f) # {},
         blocks' = RolledBack(t).blocks, loc' = RolledBack(t).loc
  PROVE  \/ loc'[f] = NoLoc /\ \A n \in DOMAIN log[f] : log[f][n].ts = txn_id(t)
         \/ /\ loc'[f] # NoLoc /\ Cell(blocks', loc', f).dead = Cell(blocks, loc, f).dead
            /\ \E c \in Nat, v \in Versions :
                 LET y == Cell(blocks', loc', f)
                 IN  /\ c <= tx[t].start /\ Unhidden(y.min, c) /\ y.slot.ts = c /\ v.ts = c
                     /\ \A n \in DOMAIN log[f] : log[f][n].ts = txn_id(t) \/ log[f][n].ts <= c
                     /\ ~IsTombstone(y.slot) /\ EndsIn(y.vs, v) /\ EndsUnder(log[f], v, t)
<1>a. PICK s : s = RolledBack(t)
  OBVIOUS
<1>b. PICK y : y = Cell(s.blocks, s.loc, f)
  OBVIOUS
<1>1. EdgeBack(t, f, 0, s)
  BY <1>a, AllRolledBack DEF RolledTo
<1>2. s.blocks = blocks' /\ s.loc = loc'
  BY <1>a
<1>3. PICK i \in Written(t, f) :
        /\ FirstWrite(t, f, i)
        /\ IF tx[t].undo[i].op = "create" THEN CreateBack(t, f, i, 0, s)
           ELSE \E v \in Versions : Beneath(t, f, i, v) /\ WriteBack(t, f, i, v, 0, s)
  BY <1>1 DEF EdgeBack
<1>4. i \in Nat /\ i > 0 /\ tx[t].undo[i].ts \in Nat /\ \A j \in Written(t, f) : ~(j <= 0)
  BY TxTyped DEF Written
<1>5. CASE tx[t].undo[i].op = "create"
  <2>1. loc'[f] = NoLoc
    BY <1>2, <1>3, <1>4, <1>5 DEF CreateBack
  <2>2. PICK j \in Written(t, f) :
          /\ FirstWrite(t, f, j)
          /\ tx[t].undo[j].op = "create" => \A n \in DOMAIN log[f] : log[f][n].ts = txn_id(t)
    BY DEF RunInv, OwnerInv
  <2>3. i = j
    <3>1. j \in Nat
      BY TxTyped DEF Written
    <3>2. i # j => j > i /\ i > j
      BY <1>3, <2>2 DEF FirstWrite
    <3> QED BY <1>4, <3>1, <3>2
  <2> QED BY <1>5, <2>1, <2>2, <2>3
<1>6. CASE tx[t].undo[i].op # "create"
  <2>1. PICK v \in Versions : Beneath(t, f, i, v) /\ WriteBack(t, f, i, v, 0, s)
    BY <1>3, <1>6
  <2>2. PICK c : c = tx[t].undo[i].ts
    OBVIOUS
  <2>3. PICK x : x = Cell(blocks, loc, f)
    OBVIOUS
  <2>4. \A op : ~Left(t, f, 0, op)
    BY <1>4 DEF Left
  <2>5. /\ s.loc[f] # NoLoc /\ y.dead = x.dead /\ Lower(x.min, y.min) /\ y.slot.ts = c
        /\ ~IsTombstone(y.slot) /\ EndsIn(y.vs, v)
    BY <1>4, <1>b, <2>1, <2>2, <2>3, <2>4 DEF WriteBack
  <2>6. /\ c <= tx[t].start /\ Unhidden(x.min, c) /\ v.ts = c /\ EndsUnder(log[f], v, t) /\ c \in Nat
        /\ \A n \in DOMAIN log[f] : log[f][n].ts = txn_id(t) \/ log[f][n].ts <= c
    BY <1>4, <2>1, <2>2, <2>3 DEF Beneath
  <2>7. Unhidden(y.min, c)
    BY <2>5, <2>6 DEF Lower
  <2>8. y = Cell(blocks', loc', f)
    BY <1>2, <1>b
  <2> QED BY <1>2, <2>3, <2>5, <2>6, <2>7, <2>8
<1> QED BY <1>5, <1>6

LEMMA AbortSInv ==
  ASSUME KeepOff, OInv, OInv', SInv, NEW t \in Txns, abort(t)
  PROVE  SInv'
<1>b. PICK r : r = NewTx("aborted", tx[t].start)
  OBVIOUS
<1>1. /\ phase = "run" /\ phase' = "run" /\ tx[t].st = "active" /\ tx[t].commit = NONE
      /\ clock' = clock /\ eids' = eids /\ tx' = [tx EXCEPT ![t] = r]
      /\ blocks' = RolledBack(t).blocks /\ loc' = RolledBack(t).loc
      /\ log' = [e \in Eids |-> Without(log[e], t)]
  BY <1>b, Zenon DEF abort, Active, AtRest
<1>2. \A e \in Eids : log'[e] = Without(log[e], t)
  BY <1>1
<1>3. RunInv
  BY <1>1, RunState
<1>4. /\ tx'[t] = r /\ \A u \in Txns : u # t => tx'[u] = tx[u]
      /\ \A u \in Txns : u # t => \A e : Written(u, e)' = Written(u, e) /\ SameWrites(u, e)
  BY <1>1, OneRecord
<1>5. r.st = "aborted" /\ r.start = tx[t].start /\ r.undo = <<>> /\ r.look = NoLook /\ r.commit = NONE
  BY <1>b DEF NewTx
<1>6. \A e : Written(t, e)' = {}
  BY <1>4, <1>5 DEF Written
<1>7. clock \in Nat /\ clock' = clock /\ clock < TXN_ID_START /\ TXN_ID_START \in Nat
  BY <1>1, <1>3, ClockBound, ConstantFacts DEF OInv, RunInv
<1>8. txn_id(t) \in Nat /\ is_txn_id(txn_id(t))
  BY TxnIds
<1>9. \A e \in Eids : log[e] \in Seq(Versions) /\ log'[e] \in Seq(Versions)
  <2> TAKE e \in Eids
  <2>1. log[e] \in Seq(Versions)
    BY <1>3 DEF RunInv
  <2> QED BY <1>2, <2>1, WithoutFacts
<1>10. log' \in [Eids -> Seq(Versions)]
  <2>1. log' = [e \in Eids |-> log'[e]]
    BY <1>1
  <2> QED BY <1>9, <2>1
<1>r. RolledTo(t, 0, RolledBack(t))
  BY <1>3, AllRolledBack
<1>17. VersionsIn(blocks)'
  <2>1. VersionsIn(RolledBack(t).blocks)
    BY <1>r DEF RolledTo
  <2> QED BY <1>1, <2>1 DEF VersionsIn
<1>11. ASSUME NEW e \in Eids, Written(t, e) = {} PROVE Untouched(e) /\ StillWritten(e)
  <2>1. log'[e] = log[e]
    BY <1>2, <1>3, <1>9, <1>11, NotMine, WithoutFacts
  <2>2. Kept(blocks, loc, blocks', loc', e)
    BY <1>1, <1>11, <1>r DEF RolledTo, EdgeBack
  <2>3. StillWritten(e)
    BY <1>4, <1>11 DEF StillWritten
  <2> QED BY <2>1, <2>2, <2>3 DEF Untouched, Kept
<1>12. ASSUME NEW e \in Eids PROVE EdgeInv(e)'
  <2>1. CASE Written(t, e) = {}
    <3>1. clock' \in Nat /\ clock <= clock'
      BY <1>7
    <3> QED BY <1>3, <1>11, <2>1, <3>1, EdgeUntouched DEF RunInv
  <2>2. CASE Written(t, e) # {}
    <3> DEFINE g == log[e]
               h == log'[e]
    <3>a. PICK y : y = Cell(blocks', loc', e)
      OBVIOUS
    <3>1. CASE loc'[e] = NoLoc /\ \A n \in DOMAIN g : g[n].ts = txn_id(t)
      <4>1. log'[e] = <<>>
        BY <1>2, <1>9, <3>1, WithoutFacts
      <4> QED BY <3>1, <4>1 DEF EdgeInv
    <3>2. CASE /\ loc'[e] # NoLoc
               /\ \E c \in Nat, v \in Versions :
                    /\ c <= tx[t].start /\ Unhidden(y.min, c) /\ y.slot.ts = c /\ v.ts = c
                    /\ \A n \in DOMAIN g : g[n].ts = txn_id(t) \/ g[n].ts <= c
                    /\ ~IsTombstone(y.slot) /\ EndsIn(y.vs, v) /\ EndsUnder(g, v, t)
      <4>1. PICK c \in Nat, v \in Versions :
                    /\ c <= tx[t].start /\ Unhidden(y.min, c) /\ y.slot.ts = c /\ v.ts = c
                    /\ \A n \in DOMAIN g : g[n].ts = txn_id(t) \/ g[n].ts <= c
                    /\ ~IsTombstone(y.slot) /\ EndsIn(y.vs, v) /\ EndsUnder(g, v, t)
        BY <3>2
      <4>2. tx[t].start \in Nat /\ tx[t].start <= clock
        BY <1>3, TxTyped DEF RunInv, TxInv
      <4>3. c <= clock' /\ ~is_txn_id(c)
        BY <1>7, <4>1, <4>2 DEF is_txn_id
      <4>4. /\ h \in Seq(Versions) /\ EndsIn(h, v)
            /\ \A n \in DOMAIN h : \E j \in DOMAIN g : h[n] = g[j] /\ g[j].ts # txn_id(t)
        <5>1. g \in Seq(Versions) /\ h = Without(g, t)
          BY <1>2, <1>9
        <5> HIDE DEF g, h
        <5>2. /\ Without(g, t) \in Seq(Versions) /\ EndsIn(Without(g, t), v)
              /\ \A n \in DOMAIN Without(g, t) : \E j \in DOMAIN g : Without(g, t)[n] = g[j] /\ g[j].ts # txn_id(t)
          BY <4>1, <5>1, WithoutFacts
        <5> QED BY <5>1, <5>2
      <4> HIDE DEF g, h
      <4>5. h # <<>> /\ h[Len(h)] = v
        BY <4>4 DEF EndsIn
      <4>6. Shows(y, h[Len(h)])
        BY <4>1, <4>5 DEF Shows
      <4>7. \A n \in DOMAIN h : h[n].ts <= y.slot.ts
        BY <4>1, <4>4
      <4>8. Settled(y, h, clock')
        BY <4>1, <4>3, <4>7 DEF Settled
      <4>9. ~is_txn_id(y.slot.ts) /\ h = log'[e] /\ loc'[e] # NoLoc
        BY <3>2, <4>1, <4>3 DEF h
      <4> QED BY <3>a, <4>5, <4>6, <4>8, <4>9, EdgeFrom
    <3> HIDE DEF h
    <3> QED BY <1>1, <1>3, <2>2, <3>1, <3>2, <3>a, AfterAbort
  <2> QED BY <2>1, <2>2
<1>13. ASSUME NEW u \in Txns, NEW e \in Eids PROVE OwnerInv(u, e)'
  <2>1. CASE u = t
    BY <1>6, <2>1 DEF OwnerInv
  <2>2. CASE u # t /\ Written(u, e) = {}
    <3>1. Written(u, e)' = {}
      BY <1>4, <2>2
    <3> QED BY <3>1 DEF OwnerInv
  <2>3. CASE u # t /\ Written(u, e) # {}
    <3>1. Written(t, e) = {}
      <4> SUFFICES ASSUME Written(t, e) # {} PROVE FALSE
        OBVIOUS
      <4>1. txn_id(u) = txn_id(t)
        BY <1>3, <2>3 DEF RunInv, OwnerInv
      <4> QED BY <2>3, <4>1, TxnIds
    <3> QED BY <1>3, <1>4, <1>11, <2>3, <3>1, OwnerUntouched DEF RunInv
  <2> QED BY <2>1, <2>2, <2>3
<1>14. ASSUME NEW u \in Txns PROVE WaitInv(u)'
  <2>1. CASE u = t
    BY <1>4, <1>5, <2>1 DEF WaitInv
  <2>2. CASE u # t
    <3>1. tx'[u] = tx[u] /\ eids \in Nat /\ WaitInv(u)
      BY <1>3, <1>4, <2>2, ConstantFacts DEF OInv, RunInv
    <3>2. \A w \in Txns : tx'[w].look.eid = tx[w].look.eid \/ tx'[w].look = NoLook
      BY <1>4, <1>5
    <3>3. ASSUME tx[u].look # NoLook PROVE StillThere(tx[u].look.eid)
      <4>a. PICK e : e = tx[u].look.eid
        OBVIOUS
      <4>1. e \in Eids
        <5>1. e \in 1 .. eids
          BY <3>1, <3>3, <4>a DEF WaitInv
        <5> QED BY <5>1, ConstantFacts DEF OInv, Eids
      <4>2. CASE Written(t, e) = {}
        BY <1>11, <4>1, <4>2, <4>a, UntouchedThere
      <4>3. CASE Written(t, e) # {}
        <5> DEFINE x == Cell(blocks, loc, e)
        <5>1. loc[e] # NoLoc /\ x.slot.ts = txn_id(t)
          BY <1>3, <4>1, <4>3 DEF RunInv, OwnerInv
        <5>2. x.dead \/ Sees(u, x.slot.ts)
          BY <3>1, <3>3, <4>a, <5>1 DEF WaitInv
        <5>3. ~Sees(u, txn_id(t))
          <6>1. txn_id(u) # txn_id(t)
            BY <2>2, TxnIds
          <6> QED BY <1>8, <6>1 DEF Sees
        <5>4. x.dead
          BY <5>1, <5>2, <5>3
        <5>5. loc'[e] # NoLoc => Cell(blocks', loc', e).dead = x.dead
          BY <1>1, <1>3, <4>1, <4>3, AfterAbort
        <5> QED BY <4>a, <5>1, <5>4, <5>5 DEF StillThere
      <4> QED BY <4>2, <4>3
    <3>4. eids' \in Nat /\ eids <= eids'
      BY <1>1, <3>1
    <3> QED BY <3>1, <3>2, <3>3, <3>4, WaitKept
  <2> QED BY <2>1, <2>2
<1>15. ASSUME NEW u \in Txns PROVE TxInv(u)'
  <2>1. tx'[u].start = tx[u].start /\ (u # t => tx'[u] = tx[u]) /\ tx[u].start \in Nat /\ TxInv(u)
    BY <1>3, <1>4, <1>5, TxTyped DEF RunInv
  <2>2. tx'[u].start <= clock' /\ (u # t => tx'[u].commit = tx[u].commit) /\ tx'[t].commit = NONE
    BY <1>4, <1>5, <1>7, <2>1 DEF TxInv
  <2>3. tx'[u].st # "active" => tx'[u].undo = <<>> /\ tx'[u].commit = NONE
    BY <1>4, <1>5, <2>1 DEF TxInv
  <2> QED BY <1>1, <2>1, <2>2, <2>3 DEF TxInv
<1>16. (clock <= Cardinality(Ended))'
  <2>1. Ended' = Ended
    BY <1>1, <1>4, <1>5 DEF Ended
  <2> QED BY <1>3, <1>7, <2>1 DEF RunInv
<1>18. RunInv'
  BY <1>10, <1>12, <1>13, <1>14, <1>15, <1>16, <1>17 DEF RunInv
<1> QED BY <1>1, <1>18, RunState

-----------------------------------------------------------------------------
(* Every step keeps the invariant.                                           *)

LEMMA StepSInv ==
  ASSUME KeepOff, OInv, SInv, [Next]_vars
  PROVE  SInv'
<1>0. OInv'
  BY StepOInv
<1>1. CASE UNCHANGED vars
  BY <1>1, OtherSInv
<1>a. Dsts \subseteq Nat /\ NONE \in Nat
  BY OlapAssumption DEF NONE
<1>b. ASSUME phase \in {"load", "run"} PROVE NewValue \in Nat
  BY <1>b, NewValueTyped DEF SInv
<1> HIDE DEF NewValue
<1>2. CASE \E v \in Vertices : create_vertex(v) \/ delete_vertex(v) \/ set_vertex_property(v, 1)
  BY <1>0, <1>2, VertexSInv, DeleteVertexSInv
<1>3. ASSUME NEW v \in Vertices, NEW d \in Dsts, create_edge(v, d, NewValue) PROVE SInv'
  <2>1. phase = "load"
    BY <1>3, Zenon DEF create_edge, Load
  <2> QED BY <1>0, <1>3, <1>b, <2>1, CreateEdgeSInv
<1>4. ASSUME NEW e \in Eids, delete_edge(e) PROVE SInv'
  BY <1>0, <1>4, DeleteEdgeSInv
<1>5. ASSUME NEW e \in Eids, set_edge_property(e, NewValue) PROVE SInv'
  <2>1. phase = "load"
    BY <1>5, Zenon DEF set_edge_property, Load
  <2> QED BY <1>0, <1>5, <1>b, <2>1, SetEdgePropertySInv
<1>6. CASE EndLoad \/ compress_edge \/ compress_property
  BY <1>6, OtherSInv
<1>7. ASSUME NEW t \in Txns,
             \/ Begin(t) \/ LookedInVain(t) \/ delete_edge_in_txn(t) \/ DrawCommit(t) \/ commit_at(t) \/ abort(t)
             \/ \E v \in Vertices, d \in Dsts : create_edge_in_txn(t, v, d, IF t \in Bare THEN NONE ELSE NewValue)
             \/ \E op \in {"set", "del"}, e \in Eids : LookUp(t, op, e)
             \/ set_edge_property_in_txn(t, NewValue)
      PROVE  SInv'
  <2>1. CASE Begin(t)
    BY <2>1, BeginSInv
  <2>2. CASE LookedInVain(t)
    BY <2>2, LookedInVainSInv
  <2>3. CASE delete_edge_in_txn(t)
    <3>1. Apply(t, "del", TOMBSTONE_DST_ID, NONE, <<>>)
      BY <2>3, Zenon DEF delete_edge_in_txn
    <3>2. PICK op, nd, val, vn : op = "del" /\ nd = TOMBSTONE_DST_ID /\ val = NONE /\ vn = <<>>
      OBVIOUS
    <3>3. Apply(t, op, nd, val, vn) /\ op \in {"set", "del"} /\ val \in Nat
      BY <1>a, <3>1, <3>2
    <3> QED BY <1>0, <3>2, <3>3, ApplySInv
  <2>4. CASE DrawCommit(t)
    BY <2>4, DrawSInv
  <2>9. CASE commit_at(t)
    BY <1>0, <2>9, CommitSInv
  <2>5. CASE abort(t)
    BY <1>0, <2>5, AbortSInv
  <2>6. ASSUME NEW v \in Vertices, NEW d \in Dsts,
               create_edge_in_txn(t, v, d, IF t \in Bare THEN NONE ELSE NewValue)
        PROVE  SInv'
    <3>1. phase = "run"
      BY <2>6, Zenon DEF create_edge_in_txn, Active
    <3>2. PICK val : val = IF t \in Bare THEN NONE ELSE NewValue
      OBVIOUS
    <3>3. val \in Nat /\ create_edge_in_txn(t, v, d, val)
      BY <1>a, <1>b, <2>6, <3>1, <3>2
    <3> QED BY <1>0, <3>3, CreateEdgeInTxnSInv
  <2>7. ASSUME NEW op \in {"set", "del"}, NEW e \in Eids, LookUp(t, op, e) PROVE SInv'
    BY <2>7, LookUpSInv
  <2>8. CASE set_edge_property_in_txn(t, NewValue)
    <3>1. Apply(t, "set", NONE, NewValue, <<Version(txn_id(t), NewValue)>>)
      BY <2>8, Zenon DEF set_edge_property_in_txn
    <3>2. phase = "run"
      BY <3>1, Zenon DEF Apply, Active
    <3>3. PICK val : val = NewValue
      OBVIOUS
    <3>4. PICK vn : vn = <<Version(txn_id(t), val)>>
      OBVIOUS
    <3>5. PICK op : op = "set"
      OBVIOUS
    <3>6. PICK nd : nd = NONE
      OBVIOUS
    <3>7. Apply(t, op, nd, val, vn) /\ op \in {"set", "del"} /\ val \in Nat
      BY <1>b, <3>1, <3>2, <3>3, <3>4, <3>5, <3>6
    <3> QED BY <1>0, <3>4, <3>5, <3>6, <3>7, ApplySInv
  <2> QED BY <1>7, <2>1, <2>2, <2>3, <2>4, <2>5, <2>6, <2>7, <2>8, <2>9
<1> QED BY <1>1, <1>2, <1>3, <1>4, <1>5, <1>6, <1>7 DEF Next

-----------------------------------------------------------------------------
(* Blocks while transactions run: none is given up, and none is chained to   *)
(* another one than before.                                                  *)

Grown(bs, cs) ==
    DOMAIN bs \subseteq DOMAIN cs /\ \A i \in DOMAIN bs : cs[i].pre = bs[i].pre /\ cs[i].dead = bs[i].dead
\* The block is still chained and used in the same way.
SameChaining(b, c) == DOMAIN c = BlockFields /\ c.pre = b.pre /\ c.dead = b.dead

LEMMA BlockChaining ==
  ASSUME NEW b, DOMAIN b = BlockFields, NEW pos
  PROVE  /\ SameChaining(b, Removed(b, pos))
         /\ \A slot, ver : SameChaining(b, Inserted(b, pos, slot, ver))
         /\ \A slot, vs, min : SameChaining(b, Rewritten(b, pos, slot, vs, min))
<1>1. \A x, y, z : SameChaining(b, [b EXCEPT !.n = x, !.e = y, !.p = z])
  BY DEF SameChaining, BlockFields
<1>2. \A x, y, z, w : SameChaining(b, [b EXCEPT !.n = x, !.min = w, !.e = y, !.p = z])
  BY DEF SameChaining, BlockFields
<1>4. SameChaining(b, Removed(b, pos))
  BY <1>1, Zenon DEF Removed
<1>5. ASSUME NEW slot, NEW ver PROVE SameChaining(b, Inserted(b, pos, slot, ver))
  BY <1>2, Zenon DEF Inserted
<1>6. ASSUME NEW slot, NEW vs, NEW min PROVE SameChaining(b, Rewritten(b, pos, slot, vs, min))
  <2>1. PICK y, z : y = [b.e EXCEPT ![pos] = slot] /\ z = [b.p EXCEPT ![pos] = vs]
    OBVIOUS
  <2>2. Rewritten(b, pos, slot, vs, min) = [b EXCEPT !.e = y, !.p = z, !.min = min]
    BY <2>1 DEF Rewritten
  <2> QED BY <2>2 DEF SameChaining, BlockFields
<1> QED BY <1>4, <1>5, <1>6

LEMMA OneGrown ==
  ASSUME NEW bs, NEW i, NEW c, SameChaining(bs[i], c)
  PROVE  Grown(bs, [bs EXCEPT ![i] = c])
  BY DEF Grown, SameChaining

\* One undo entry.
Chained(bs, cs) == DOMAIN cs = DOMAIN bs /\ \A i \in DOMAIN bs : SameChaining(bs[i], cs[i])

LEMMA UndoneChained ==
  ASSUME NEW bs, NEW s, DOMAIN s = {"blocks", "loc"}, Chained(bs, s.blocks), NEW t, NEW u
  PROVE  LET z == Undone(s, t, u) IN DOMAIN z = {"blocks", "loc"} /\ Chained(bs, z.blocks)
<1> DEFINE e == u.eid
           l == s.loc[e]
           b == s.blocks[l.b]
           slot == b.e[l.o]
           with(c) == [s.blocks EXCEPT ![l.b] = c]
           less == with(Removed(b, l.o))
           created == [blocks |-> less, loc |-> [Remapped(s.loc, less, l.b) EXCEPT ![e] = NoLoc]]
           deleted == with(Rewritten(b, l.o, [slot EXCEPT !.ts = u.ts, !.dst = tx[t].snap[e]], b.p[l.o], b.min))
           set == with(Rewritten(b, l.o, [slot EXCEPT !.ts = u.ts], Without(b.p[l.o], t), b.min))
<1>1. CASE ~Holds(s.blocks, l, e)
  BY <1>1 DEF Undone
<1>2. CASE Holds(s.blocks, l, e)
  <2>1. \/ Undone(s, t, u) = created
        \/ Undone(s, t, u) = [s EXCEPT !.blocks = deleted]
        \/ Undone(s, t, u) = [s EXCEPT !.blocks = set]
        \/ Undone(s, t, u) = s
    <3> HIDE DEF created, deleted, set
    <3>1. Undone(s, t, u) = CASE u.op = "create" /\ slot.ts = txn_id(t) -> created
                              [] u.op = "del" -> [s EXCEPT !.blocks = deleted]
                              [] u.op = "set" -> [s EXCEPT !.blocks = set]
                              [] OTHER -> s
      BY <1>2, Zenon DEF Undone, created, deleted, set
    <3> HIDE DEF slot
    <3> QED BY <3>1
  <2>2. l.b \in DOMAIN s.blocks
    BY <1>2 DEF Holds
  <2> HIDE DEF l, b
  <2>3. ASSUME NEW c, SameChaining(b, c) PROVE Chained(bs, with(c))
    <3>1. b = s.blocks[l.b]
      BY DEF b
    <3> QED BY <2>2, <2>3, <3>1 DEF Chained, SameChaining
  <2>4. DOMAIN b = BlockFields
    BY <2>2 DEF Chained, SameChaining, b
  <2> HIDE DEF with
  <2>5. Chained(bs, less) /\ Chained(bs, deleted) /\ Chained(bs, set)
    BY <2>3, <2>4, BlockChaining
  <2> HIDE DEF less, deleted, set
  <2>6. DOMAIN created = {"blocks", "loc"} /\ created.blocks = less
    OBVIOUS
  <2>7. \A x : DOMAIN [s EXCEPT !.blocks = x] = {"blocks", "loc"} /\ [s EXCEPT !.blocks = x].blocks = x
    OBVIOUS
  <2> HIDE DEF created
  <2> QED BY <2>1, <2>5, <2>6, <2>7
<1> QED BY <1>1, <1>2

LEMMA RolledBackChained ==
  ASSUME OInv, NEW t \in Txns
  PROVE  Chained(blocks, RolledBack(t).blocks)
<1>a. PICK N : N = Len(tx[t].undo)
  OBVIOUS
<1>b. PICK T : T = TakenBack(t)
  OBVIOUS
<1> DEFINE Good == {n \in Nat : n <= N => DOMAIN T[n] = {"blocks", "loc"} /\ Chained(blocks, T[n].blocks)}
<1>1. N \in Nat /\ tx[t].undo \in Seq(UndoRecords)
  BY <1>a, TxTyped
<1>2. /\ T[0] = [blocks |-> blocks, loc |-> loc]
      /\ \A n \in 1 .. N : T[n] = Undone(T[n - 1], t, tx[t].undo[N + 1 - n])
  BY <1>1, <1>a, <1>b, TakenBackSteps
<1>3. 0 \in Good
  <2>1. DOMAIN T[0] = {"blocks", "loc"} /\ T[0].blocks = blocks
    BY <1>2
  <2>2. Chained(blocks, blocks)
    BY DEF Chained, SameChaining, OInv, Exact, BlocksOK, BlockOK
  <2> QED BY <2>1, <2>2
<1>4. ASSUME NEW n \in Nat, n \in Good PROVE n + 1 \in Good
  <2> SUFFICES ASSUME n + 1 <= N PROVE DOMAIN T[n + 1] = {"blocks", "loc"} /\ Chained(blocks, T[n + 1].blocks)
    OBVIOUS
  <2>1. n + 1 \in 1 .. N /\ (n + 1) - 1 = n /\ n <= N
    BY <1>1
  <2>2. PICK u : u = tx[t].undo[N + 1 - (n + 1)]
    OBVIOUS
  <2>3. T[n + 1] = Undone(T[(n + 1) - 1], t, u)
    BY <1>2, <2>1, <2>2, Zenon
  <2>4. T[n + 1] = Undone(T[n], t, u)
    BY <2>1, <2>3
  <2>5. DOMAIN T[n] = {"blocks", "loc"} /\ Chained(blocks, T[n].blocks)
    BY <1>4, <2>1
  <2>6. PICK s : s = T[n]
    OBVIOUS
  <2>7. LET z == Undone(s, t, u) IN DOMAIN z = {"blocks", "loc"} /\ Chained(blocks, z.blocks)
    BY <2>5, <2>6, UndoneChained
  <2> QED BY <2>4, <2>6, <2>7
<1>5. N \in Good
  <2> HIDE DEF Good
  <2>1. Nat \subseteq Good
    BY <1>3, <1>4, SetInduction
  <2> QED BY <1>1, <2>1
<1>6. RolledBack(t) = T[N]
  BY <1>a, <1>b DEF RolledBack
<1> QED BY <1>1, <1>5, <1>6

LEMMA InsertGrows ==
  ASSUME OInv, NEW src \in Vertices, NEW dst \in Nat, NEW val, NEW ts \in Nat, NEW min,
         InsertEdge(src, dst, val, ts, min)
  PROVE  Grown(blocks, blocks')
<1> DEFINE i == vmap[src]
           last == vertices[i].block
           fresh == last = NONE \/ blocks[last].n >= BLOCK_CAPACITY
           bi == IF fresh THEN Len(blocks) + 1 ELSE last
           bs == IF fresh THEN Append(blocks, NewBlock(last, src, min)) ELSE blocks
           slot == [eid |-> eids + 1, dst |-> dst, ts |-> ts]
<1>1. \E pos \in InsertAt(bs[bi], dst) : blocks' = [bs EXCEPT ![bi] = Inserted(bs[bi], pos, slot, Version(ts, val))]
  BY DEF InsertEdge
<1>2. BlocksOK(blocks) /\ DOMAIN blocks = 1 .. Len(blocks) /\ Len(blocks) \in Nat
  BY BlocksShape DEF OInv, Exact
<1>3. /\ DOMAIN blocks \subseteq DOMAIN bs /\ \A j \in DOMAIN blocks : bs[j] = blocks[j]
      /\ bi \in DOMAIN blocks => DOMAIN bs[bi] = BlockFields
  <2>1. CASE fresh
    <3>1. bs = Append(blocks, NewBlock(last, src, min)) /\ bi = Len(blocks) + 1
      BY <2>1
    <3> HIDE DEF bs, bi
    <3>2. blocks \in Seq(Range(blocks))
      BY <1>2 DEF BlocksOK
    <3>3. PICK S, nb : S = Range(blocks) /\ nb = NewBlock(last, src, min)
      OBVIOUS
    <3>4. bs = Append(blocks, nb) /\ blocks \in Seq(S \cup {nb})
      BY <3>1, <3>2, <3>3
    <3> QED BY <1>2, <3>1, <3>4
  <2>2. CASE ~fresh
    <3>1. bs = blocks
      BY <2>2
    <3>2. \A j \in DOMAIN blocks : DOMAIN blocks[j] = BlockFields
      BY <1>2 DEF BlocksOK, BlockOK
    <3> HIDE DEF bs, bi
    <3> QED BY <3>1, <3>2
  <2> QED BY <2>1, <2>2
<1>4. PICK pos : blocks' = [bs EXCEPT ![bi] = Inserted(bs[bi], pos, slot, Version(ts, val))]
  BY <1>1
<1>5. PICK c : c = Inserted(bs[bi], pos, slot, Version(ts, val))
  OBVIOUS
<1> HIDE DEF bs, bi, slot
<1>6. blocks' = [bs EXCEPT ![bi] = c]
  BY <1>4, <1>5
<1>7. bi \in DOMAIN blocks => SameChaining(bs[bi], c)
  BY <1>3, <1>5, BlockChaining
<1> QED BY <1>3, <1>6, <1>7 DEF Grown, SameChaining

LEMMA RunGrows ==
  ASSUME OInv, phase = "run", Next
  PROVE  Grown(blocks, blocks')
<1>0. blocks' = blocks => Grown(blocks, blocks')
  BY DEF Grown
<1>a. \A i \in DOMAIN blocks : DOMAIN blocks[i] = BlockFields
  BY DEF OInv, Exact, BlocksOK, BlockOK
<1>1. CASE \/ \E v \in Vertices : create_vertex(v) \/ delete_vertex(v) \/ set_vertex_property(v, 1)
           \/ \E v \in Vertices, d \in Dsts : create_edge(v, d, NewValue)
           \/ \E e \in Eids : delete_edge(e) \/ set_edge_property(e, NewValue)
           \/ EndLoad
  <2>1. ~Load /\ ~EndLoad
    BY DEF Load, EndLoad
  <2> QED BY <1>1, <2>1, Zenon DEF create_vertex, delete_vertex, set_vertex_property, create_edge, delete_edge,
                                   set_edge_property
<1>2. CASE compress_edge \/ compress_property
  BY <1>0, <1>2 DEF compress_edge, compress_property
<1>3. ASSUME NEW t \in Txns, Begin(t) \/ LookedInVain(t) \/ DrawCommit(t) PROVE Grown(blocks, blocks')
  BY <1>0, <1>3 DEF Begin, LookedInVain, DrawCommit
<1>4. ASSUME NEW t \in Txns, NEW op, NEW e, LookUp(t, op, e) PROVE Grown(blocks, blocks')
  BY <1>0, <1>4 DEF LookUp
<1>5. ASSUME NEW t \in Txns, NEW op, NEW nd, NEW val, NEW vs, Apply(t, op, nd, val, vs) PROVE Grown(blocks, blocks')
  <2>1. PICK i, o, slot, vn, mn : blocks' = [blocks EXCEPT ![i] = Rewritten(blocks[i], o, slot, vn, mn)]
    BY <1>5, Zenon DEF Apply
  <2>2. i \in DOMAIN blocks => SameChaining(blocks[i], Rewritten(blocks[i], o, slot, vn, mn))
    BY <1>a, BlockChaining
  <2>3. PICK c : c = Rewritten(blocks[i], o, slot, vn, mn)
    OBVIOUS
  <2>4. blocks' = [blocks EXCEPT ![i] = c] /\ (i \in DOMAIN blocks => SameChaining(blocks[i], c))
    BY <2>1, <2>2, <2>3
  <2> QED BY <2>4 DEF Grown, SameChaining
<1>6. ASSUME NEW t \in Txns, commit_at(t) PROVE Grown(blocks, blocks')
  <2> DEFINE ts == tx[t].commit
             at(i, o) == blocks[i].e[o].eid \in Mine(t) /\ loc[blocks[i].e[o].eid] = [b |-> i, o |-> o]
             es(i) == [o \in Slots |-> IF at(i, o) THEN [blocks[i].e[o] EXCEPT !.ts = ts] ELSE blocks[i].e[o]]
             ps(i) == [o \in Slots |-> IF at(i, o) /\ FirstOp(t, blocks[i].e[o].eid) # "del"
                                       THEN PromoteLast(blocks[i].p[o], t, ts) ELSE blocks[i].p[o]]
             mn(i) == IF \E o \in Slots : at(i, o) THEN LowerMin(blocks[i].min, ts) ELSE blocks[i].min
             c(i) == [blocks[i] EXCEPT !.e = es(i), !.p = ps(i), !.min = mn(i)]
  <2>1. blocks' = [i \in DOMAIN blocks |-> c(i)]
    BY <1>6, Zenon DEF commit_at
  <2> HIDE DEF es, ps, mn
  <2>2. \A i \in DOMAIN blocks : c(i).pre = blocks[i].pre /\ c(i).dead = blocks[i].dead
    BY <1>a DEF BlockFields
  <2> HIDE DEF c
  <2> QED BY <2>1, <2>2 DEF Grown
<1>7. ASSUME NEW t \in Txns, abort(t) PROVE Grown(blocks, blocks')
  <2>1. blocks' = RolledBack(t).blocks
    BY <1>7 DEF abort
  <2>2. Chained(blocks, RolledBack(t).blocks)
    BY RolledBackChained
  <2> QED BY <2>1, <2>2 DEF Grown, Chained, SameChaining
<1>8. ASSUME NEW t \in Txns, NEW v \in Vertices, NEW d \in Dsts, NEW val, create_edge_in_txn(t, v, d, val)
      PROVE  Grown(blocks, blocks')
  <2>1. InsertEdge(v, d, val, txn_id(t), txn_id(t))
    BY <1>8, Zenon DEF create_edge_in_txn
  <2>2. d \in Nat /\ txn_id(t) \in Nat
    BY ConstantFacts, TxnIds
  <2> QED BY <2>1, <2>2, InsertGrows
<1> HIDE DEF NewValue
<1>9. ASSUME NEW t \in Txns, set_edge_property_in_txn(t, NewValue) \/ delete_edge_in_txn(t) PROVE Grown(blocks, blocks')
  <2>1. \E op, nd, val, vs : Apply(t, op, nd, val, vs)
    BY <1>9, Zenon DEF set_edge_property_in_txn, delete_edge_in_txn
  <2> QED BY <1>5, <2>1
<1> QED BY <1>1, <1>2, <1>3, <1>4, <1>6, <1>7, <1>8, <1>9, Zenon DEF Next

-----------------------------------------------------------------------------
(* The way along a chain.                                                    *)

Closed(S) == \A i \in S : i \in DOMAIN blocks => blocks[i].pre \in S
\* Whoever goes from block b along the chain comes to x.
Reaches(b, x) == \A S \in SUBSET (0 .. Len(blocks)) : b \in S /\ Closed(S) => x \in S

LEMMA ChainReaches ==
  ASSUME OInv, NEW b \in 0 .. Len(blocks), NEW k \in DOMAIN Chain(b)
  PROVE  Reaches(b, Chain(b)[k])
<1> SUFFICES ASSUME NEW S, b \in S, Closed(S) PROVE \A i \in DOMAIN Chains[b] : Chains[b][i] \in S
  BY DEF Reaches, Chain
<1> DEFINE In(n) == n \in S => \A i \in DOMAIN Chains[n] : Chains[n][i] \in S
           Good == {m \in Nat : \A n \in 0 .. m : n <= Len(blocks) => In(n)}
<1>0. DOMAIN blocks = 1 .. Len(blocks) /\ Len(blocks) \in Nat /\ \A n \in 1 .. Len(blocks) : blocks[n].pre \in 0 .. n - 1
  BY BlocksShape DEF OInv, Exact, BlocksOK, BlockOK
<1>1. 0 \in Good
  <2>1. Chains[0] = <<>>
    BY ChainsSteps
  <2>2. In(0)
    BY <2>1
  <2> HIDE DEF In
  <2>3. \A n \in 0 .. 0 : n = 0
    OBVIOUS
  <2> QED BY <2>2, <2>3
<1>2. ASSUME NEW m \in Nat, m \in Good PROVE m + 1 \in Good
  <2> HIDE DEF In
  <2> SUFFICES ASSUME NEW n \in 0 .. m + 1, n <= Len(blocks) PROVE In(n)
    OBVIOUS
  <2>1. CASE n \in 0 .. m
    BY <1>2, <2>1
  <2>2. CASE n = m + 1
    <3>1. n \in 1 .. Len(blocks) /\ n \in DOMAIN blocks /\ n \in Nat
      BY <1>0, <2>2
    <3>2. PICK p : p = blocks[n].pre
      OBVIOUS
    <3>3. p \in 0 .. m /\ p <= Len(blocks) /\ p \in 0 .. Len(blocks)
      BY <1>0, <2>2, <3>1, <3>2
    <3>4. In(p)
      BY <1>2, <3>3
    <3>5. Chains[n] = <<n>> \o Chains[p]
      BY <3>1, <3>2, ChainsSteps
    <3>6. Chains[p] \in Seq(DOMAIN blocks)
      BY <3>3, ChainInBlocks DEF Chain
    <3>7. ASSUME n \in S PROVE p \in S
      BY <3>1, <3>2, <3>7 DEF Closed
    <3>8. PICK q : q = Chains[p]
      OBVIOUS
    <3>9. PICK w : w = Chains[n]
      OBVIOUS
    <3>10. /\ q \in Seq(DOMAIN blocks) /\ w = <<n>> \o q /\ (n \in S => \A i \in DOMAIN q : q[i] \in S)
      BY <3>4, <3>5, <3>6, <3>7, <3>8, <3>9 DEF In
    <3>11. \A i \in DOMAIN w : w[i] = n \/ (i - 1 \in DOMAIN q /\ w[i] = q[i - 1])
      BY <3>1, <3>10
    <3>12. n \in S => \A i \in DOMAIN w : w[i] \in S
      BY <3>10, <3>11
    <3> QED BY <3>9, <3>12 DEF In
  <2> QED BY <2>1, <2>2
<1>3. b \in Good
  <2> HIDE DEF Good
  <2>1. Nat \subseteq Good
    BY <1>1, <1>2, SetInduction
  <2> QED BY <1>0, <2>1
<1>4. In(b)
  <2> HIDE DEF In
  <2> QED BY <1>0, <1>3
<1> QED BY <1>4

LEMMA ReachesFacts ==
  ASSUME OInv, NEW b \in 0 .. Len(blocks), NEW x, Reaches(b, x)
  PROVE  /\ x \in 0 .. b
         /\ b # 0 /\ x # b => blocks[b].pre \in 0 .. b - 1 /\ Reaches(blocks[b].pre, x)
<1>0. DOMAIN blocks = 1 .. Len(blocks) /\ Len(blocks) \in Nat /\ \A n \in 1 .. Len(blocks) : blocks[n].pre \in 0 .. n - 1
  BY BlocksShape DEF OInv, Exact, BlocksOK, BlockOK
<1>1. x \in 0 .. b
  <2>1. b \in 0 .. b /\ 0 .. b \in SUBSET (0 .. Len(blocks)) /\ Closed(0 .. b)
    BY <1>0 DEF Closed
  <2> QED BY <2>1 DEF Reaches
<1>2. ASSUME b # 0, x # b PROVE Reaches(blocks[b].pre, x)
  <2> SUFFICES ASSUME NEW S \in SUBSET (0 .. Len(blocks)), blocks[b].pre \in S, Closed(S) PROVE x \in S
    BY DEF Reaches
  <2>1. S \cup {b} \in SUBSET (0 .. Len(blocks)) /\ Closed(S \cup {b})
    BY DEF Closed
  <2>2. x \in S \cup {b}
    BY <2>1 DEF Reaches
  <2> QED BY <1>2, <2>2
<1>3. b # 0 => blocks[b].pre \in 0 .. b - 1
  BY <1>0
<1> QED BY <1>1, <1>2, <1>3

LEMMA ReachesKept ==
  ASSUME OInv, OInv', Grown(blocks, blocks'), NEW b \in 0 .. Len(blocks), NEW x, Reaches(b, x)
  PROVE  Reaches(b, x)' /\ b \in 0 .. Len(blocks')
<1>0. DOMAIN blocks = 1 .. Len(blocks) /\ Len(blocks) \in Nat /\ \A n \in 1 .. Len(blocks) : blocks[n].pre \in 0 .. n - 1
  BY BlocksShape DEF OInv, Exact, BlocksOK, BlockOK
<1>1. DOMAIN blocks' = 1 .. Len(blocks') /\ Len(blocks') \in Nat
  BY BlocksShape DEF OInv, Exact
<1>2. Len(blocks) <= Len(blocks')
  <2>1. Len(blocks) = 0 \/ Len(blocks) \in DOMAIN blocks'
    BY <1>0 DEF Grown
  <2> QED BY <1>0, <1>1, <2>1
<1>3. ASSUME NEW S \in SUBSET (0 .. Len(blocks')), b \in S, Closed(S)' PROVE x \in S
  <2>1. PICK R : R = S \cap (0 .. Len(blocks))
    OBVIOUS
  <2>2. R \in SUBSET (0 .. Len(blocks)) /\ b \in R
    BY <1>3, <2>1
  <2>3. Closed(R)
    <3> SUFFICES ASSUME NEW i \in R, i \in DOMAIN blocks PROVE blocks[i].pre \in R
      BY DEF Closed
    <3>1. i \in S /\ i \in DOMAIN blocks' /\ blocks'[i].pre = blocks[i].pre
      BY <2>1 DEF Grown
    <3>2. blocks'[i].pre \in S
      BY <1>3, <3>1 DEF Closed
    <3>3. blocks[i].pre \in 0 .. Len(blocks)
      BY <1>0
    <3> QED BY <2>1, <3>1, <3>2, <3>3
  <2> QED BY <2>1, <2>2, <2>3 DEF Reaches
<1> QED BY <1>0, <1>1, <1>2, <1>3 DEF Reaches

-----------------------------------------------------------------------------
(* The reader.                                                               *)

Calls == [op : {"get", "edges", "adjacent"}, t : Txns, eid : Eids \cup {NONE}, at : Places]
\* The transaction of a call is at work all the time.
CallInv ==
    call = NoCall \/ /\ call \in Calls /\ phase = "run" /\ tx[call.t].st = "active"
                     /\ call.op = "get" => call.eid \in Eids /\ call.at # NoLoc

\* A place that the way along the chain has left behind.
Passed(l, c) == l.b > c.b \/ (l.b = c.b /\ l.o < c.o)
\* The scan c has returned the edges of st that are behind it, and the others
\* are on its way.
EdgesScanned(c, st, gv) == \A e \in st : gv[e] = IF Behind(loc[e], c.at) THEN 1 ELSE 0
ChainScanned(c, st, gv) ==
    /\ c.at.b \in 0 .. Len(blocks)
    /\ c.at.b # 0 /\ blocks[c.at.b].dead => c.at.o = 1
    /\ \A e \in st : /\ gv[e] = IF Passed(loc[e], c.at) THEN 1 ELSE 0
                     /\ Passed(loc[e], c.at) \/ Reaches(c.at.b, loc[e].b)
Scanned(c, st, gv) ==
    /\ st \subseteq Eids /\ gv \in [Eids -> Nat]
    /\ c.op \in {"edges", "adjacent"} => c.at.o >= 1 /\ \A e \in st : Readable(c.op, c.t, e)
    /\ c.op = "edges" => EdgesScanned(c, st, gv)
    /\ c.op = "adjacent" => ChainScanned(c, st, gv)
ScanInv == Scanned(call, steady, given)

LEMMA NoCallFacts == NoCall.op = "none" /\ \A c \in Calls : c # NoCall
  BY DEF NoCall, Calls

LEMMA NothingScanned ==
  ASSUME NEW c, c.op \notin {"edges", "adjacent"}, NEW st, st \subseteq Eids, NEW gv \in [Eids -> Nat]
  PROVE  Scanned(c, st, gv)
  BY DEF Scanned

\* What an edge that is readable has in the store.
LEMMA ReadableFacts ==
  ASSUME OInv, NEW op, NEW t, NEW e \in Eids, Readable(op, t, e)
  PROVE  LET l == loc[e]
             b == blocks[l.b]
         IN  /\ l.b \in DOMAIN blocks /\ l.o \in 1 .. b.n /\ b.e[l.o].eid = e /\ l \in [b : DOMAIN blocks, o : Slots]
             /\ l.b \in Nat /\ l.b >= 1 /\ l.o \in Nat /\ l.o >= 1 /\ l.o <= BLOCK_CAPACITY
             /\ ~b.dead /\ ~TooNew(b, t) /\ ~IsTombstone(b.e[l.o]) /\ Sees(t, b.e[l.o].ts)
             /\ op = "adjacent" => \A o \in 1 .. l.o : ~IsTombstone(b.e[o])
<1> DEFINE l == loc[e]
           b == blocks[l.b]
<1>1. get_edge_at_ts(t, e, loc[e]).found /\ (op = "adjacent" => \A o \in 1 .. l.o : ~IsTombstone(b.e[o]))
  BY DEF Readable
<1>2. None.found = FALSE
  BY DEF None
<1>3. get_edge_at_ts(t, e, loc[e]) # None
  BY <1>1, <1>2, Zenon
<1>4. /\ Holds(blocks, l, e) /\ ~b.dead /\ ~TooNew(b, t) /\ ~IsTombstone(b.e[l.o]) /\ Sees(t, b.e[l.o].ts)
  BY <1>3, Zenon DEF get_edge_at_ts
<1>5. l.b \in DOMAIN blocks /\ l.o \in 1 .. b.n /\ b.e[l.o].eid = e
  BY <1>4 DEF Holds
<1>6. DOMAIN blocks = 1 .. Len(blocks) /\ Len(blocks) \in Nat
  BY BlocksShape DEF OInv, Exact
<1>7. b.n \in 0 .. BLOCK_CAPACITY /\ l \in Places
  BY <1>5 DEF OInv, Exact, BlocksOK, BlockOK, Mapped
<1>8. l.b \in Nat /\ l.b >= 1 /\ l.o \in Nat /\ l.o >= 1 /\ l.o <= BLOCK_CAPACITY /\ l.o \in Slots
  BY <1>5, <1>6, <1>7, ConstantFacts DEF Slots
<1>9. l \in [b : DOMAIN blocks, o : Slots]
  BY <1>5, <1>7, <1>8 DEF Places
<1> QED BY <1>1, <1>4, <1>5, <1>8, <1>9

LEMMA ReadableSame ==
  ASSUME UNCHANGED vars, NEW op, NEW t, NEW e
  PROVE  Readable(op, t, e)' <=> Readable(op, t, e)
  BY DEF Readable, get_edge_at_ts, Holds, TooNew, IsTombstone, Sees, Found, None, prop_value_visible_at, LastValue, vars

LEMMA ScannedSame ==
  ASSUME UNCHANGED vars, Scanned(call', steady', given')
  PROVE  ScanInv'
<1>1. blocks' = blocks /\ loc' = loc
  BY DEF vars
<1>2. \A b, x : Reaches(b, x)' <=> Reaches(b, x)
  BY <1>1 DEF Reaches, Closed
<1>3. \A op, t, e : Readable(op, t, e)' <=> Readable(op, t, e)
  BY ReadableSame
<1>4. EdgesScanned(call, steady, given)' <=> EdgesScanned(call', steady', given')
  BY <1>1 DEF EdgesScanned
<1>5. ChainScanned(call, steady, given)' <=> ChainScanned(call', steady', given')
  BY <1>1, <1>2 DEF ChainScanned
<1> QED BY <1>3, <1>4, <1>5 DEF ScanInv, Scanned

\* The edge in a slot that is neither empty nor deleted is where the map says.
LEMMA SlotIsMapped ==
  ASSUME OInv, NEW l, l.b \in DOMAIN blocks, l.o \in Slots, ~blocks[l.b].dead, ~IsTombstone(blocks[l.b].e[l.o])
  PROVE  /\ blocks[l.b].e[l.o].eid \in Eids /\ loc[blocks[l.b].e[l.o].eid] = Place(l.b, l.o)
         /\ l.o \in 1 .. blocks[l.b].n
<1>1. BlockOK(blocks[l.b], l.b)
  BY DEF OInv, Exact, BlocksOK
<1>2. IsTombstone(NullEdge)
  BY DEF IsTombstone, NullEdge
<1>3. l.o \in 1 .. blocks[l.b].n
  BY <1>1, <1>2, ConstantFacts DEF BlockOK, Slots
<1>4. blocks[l.b].e[l.o].eid \in 1 .. eids /\ loc[blocks[l.b].e[l.o].eid] = Place(l.b, l.o)
  BY <1>3 DEF OInv, Exact, Entered
<1> QED BY <1>3, <1>4, ConstantFacts DEF OInv, Eids

\* The reader begins.
LEMMA LookForKeeps ==
  ASSUME OInv, ScanInv, vars' = vars, NEW t \in Txns, NEW e \in Eids, LookFor(t, e)
  PROVE  CallInv' /\ Scanned(call', steady', given')
<1>1. /\ phase = "run" /\ tx[t].st = "active" /\ loc[e] # NoLoc /\ call' = Call("get", t, e, loc[e])
      /\ steady' = steady /\ given' = given
  BY DEF LookFor, MayRead
<1>2. loc[e] \in Places
  BY DEF OInv, Exact, Mapped
<1>3. call' \in Calls /\ call'.op = "get" /\ call'.t = t /\ call'.eid = e /\ call'.at = loc[e]
  BY <1>1, <1>2 DEF Call, Calls
<1>4. CallInv'
  BY <1>1, <1>3 DEF CallInv, vars
<1>5. Scanned(call', steady', given')
  BY <1>1, <1>3, NothingScanned DEF ScanInv, Scanned
<1> QED BY <1>4, <1>5

LEMMA LookedKeeps ==
  ASSUME ScanInv, Looked
  PROVE  CallInv' /\ Scanned(call', steady', given')
<1>1. call' = NoCall /\ steady' = steady /\ given' = given
  BY DEF Looked
<1>2. Scanned(call', steady', given')
  BY <1>1, NothingScanned, NoCallFacts DEF ScanInv, Scanned
<1> QED BY <1>1, <1>2 DEF CallInv

LEMMA EndScanKeeps ==
  ASSUME EndScan
  PROVE  CallInv' /\ Scanned(call', steady', given')
<1>1. call' = NoCall /\ steady' = {} /\ given' = NoneGiven
  BY DEF EndScan
<1>2. NoneGiven \in [Eids -> Nat]
  BY DEF NoneGiven
<1>3. Scanned(call', steady', given')
  BY <1>1, <1>2, NothingScanned, NoCallFacts
<1> QED BY <1>1, <1>3 DEF CallInv

LEMMA ScanBegins ==
  ASSUME OInv, NEW t \in Txns, vars' = vars, NEW l \in Places, l.o = 1, NEW among, among \subseteq Eids,
         NEW op \in {"edges", "adjacent"}, Scan(op, t, l, among),
         op = "edges" => l.b = 1,
         op = "adjacent" => l.b \in 0 .. Len(blocks) /\ \A e \in among : Reaches(l.b, loc[e].b)
  PROVE  CallInv' /\ Scanned(call', steady', given')
<1>1. /\ phase = "run" /\ tx[t].st = "active" /\ call' = Call(op, t, NONE, l) /\ given' = NoneGiven
      /\ steady' = {e \in among : Readable(op, t, e)}
  BY DEF Scan, MayRead
<1>2. call' \in Calls /\ call'.op = op /\ call'.t = t /\ call'.at = l
  BY <1>1 DEF Call, Calls
<1>3. CallInv'
  BY <1>1, <1>2 DEF CallInv, vars
<1>4. PICK st : st = steady'
  OBVIOUS
<1>5. PICK gv : gv = given'
  OBVIOUS
<1>6. PICK c : c = call'
  OBVIOUS
<1>7. st \subseteq Eids /\ (\A e \in st : e \in Eids /\ Readable(op, t, e)) /\ gv \in [Eids -> Nat] /\ \A e \in Eids : gv[e] = 0
  BY <1>1, <1>4, <1>5 DEF NoneGiven
<1>8. \A e \in st : loc[e].b \in Nat /\ loc[e].b >= 1 /\ loc[e].o \in Nat /\ loc[e].o >= 1
  BY <1>7, ReadableFacts
<1>9. op = "edges" => EdgesScanned(c, st, gv)
  BY <1>2, <1>6, <1>7, <1>8 DEF EdgesScanned, Behind, Places
<1>10. op = "adjacent" => ChainScanned(c, st, gv)
  <2> SUFFICES ASSUME op = "adjacent" PROVE ChainScanned(c, st, gv)
    OBVIOUS
  <2>1. \A e \in st : Reaches(l.b, loc[e].b) /\ loc[e].b \in 0 .. l.b
    BY <1>1, <1>4, ReachesFacts
  <2>2. \A e \in st : ~Passed(loc[e], l)
    BY <1>8, <2>1 DEF Passed, Places
  <2> QED BY <1>2, <1>6, <1>7, <2>1, <2>2 DEF ChainScanned
<1>11. Scanned(c, st, gv)
  BY <1>2, <1>6, <1>7, <1>9, <1>10 DEF Scanned
<1> QED BY <1>3, <1>4, <1>5, <1>6, <1>11

\* A scan that goes on from c to m, with or without an edge that it returns.
LEMMA ScanGoesOn ==
  ASSUME CallInv, vars' = vars, call.op \in {"edges", "adjacent"}, NEW m \in Places, call' = [call EXCEPT !.at = m]
  PROVE  /\ CallInv' /\ call'.op = call.op /\ call'.t = call.t /\ call'.at = m /\ call' # NoCall
         /\ call.t \in Txns /\ call.at \in Places
<1>1. call \in Calls /\ phase = "run" /\ tx[call.t].st = "active"
  BY NoCallFacts DEF CallInv
<1>2. call' \in Calls /\ call'.op = call.op /\ call'.t = call.t /\ call'.at = m
  BY <1>1 DEF Calls
<1>3. CallInv'
  BY <1>1, <1>2 DEF CallInv, vars
<1> QED BY <1>1, <1>2, <1>3, NoCallFacts DEF Calls

LEMMA CountedOnce ==
  ASSUME NEW st, st \subseteq Eids, NEW gv \in [Eids -> Nat], NEW x,
         NEW hv, hv = IF x \in st THEN [gv EXCEPT ![x] = @ + 1] ELSE gv
  PROVE  hv \in [Eids -> Nat] /\ \A e \in st : hv[e] = IF e = x THEN gv[e] + 1 ELSE gv[e]
  OBVIOUS

\* The edges that the scan still has to return are shown to it.
LEMMA AheadIsShown ==
  ASSUME OInv, NEW t, NEW e \in Eids, Readable("edges", t, e), NEW c, ~Behind(loc[e], c), c.o \in Nat, c.o >= 1
  PROVE  Shown(t, c, loc[e]) /\ loc[e] \in [b : DOMAIN blocks, o : Slots]
<1>a. PICK l : l = loc[e]
  OBVIOUS
<1>b. PICK b : b = blocks[l.b]
  OBVIOUS
<1>1. /\ l.b \in DOMAIN blocks /\ l.o \in 1 .. b.n /\ l \in [b : DOMAIN blocks, o : Slots]
      /\ ~b.dead /\ ~TooNew(b, t) /\ ~IsTombstone(b.e[l.o]) /\ Sees(t, b.e[l.o].ts)
  BY <1>a, <1>b, ReadableFacts
<1>2. b.n \in 0 .. BLOCK_CAPACITY /\ \A i \in 1 .. b.n : b.e[i].eid \in 1 .. eids
  BY <1>1, <1>b DEF OInv, Exact, BlocksOK, BlockOK, Entered
<1>3. \A i \in 1 .. b.n : i \in Slots /\ b.e[i].eid # 0
  BY <1>2, ConstantFacts DEF Slots
<1>4. PICK from : from = IF l.b = c.b THEN c.o ELSE 1
  OBVIOUS
<1>5. from \in Nat /\ from >= 1
  BY <1>4
<1>6. \A i \in from .. l.o : i \in 1 .. b.n
  BY <1>1, <1>2, <1>5
<1>7. \A i \in from .. l.o : ~ScanStop(b)[i]
  BY <1>3, <1>6 DEF ScanStop
<1> QED BY <1>1, <1>4, <1>7, <1>a, <1>b DEF Shown

LEMMA EdgeNextKeeps ==
  ASSUME OInv, CallInv, ScanInv, vars' = vars, edge_next
  PROVE  /\ CallInv' /\ Scanned(call', steady', given')
         /\ call' = NoCall => \A e \in steady : given[e] = 1
<1>a. PICK t, at, st, gv : t = call.t /\ at = call.at /\ st = steady /\ gv = given
  OBVIOUS
<1>b. PICK shown : shown = {l \in [b : DOMAIN blocks, o : Slots] : Shown(t, at, l)}
  OBVIOUS
<1>1. /\ call.op = "edges"
      /\ \/ shown = {} /\ EndScan
         \/ \E l \in shown : /\ \A m \in shown : ~Behind(m, l)
                             /\ Return(blocks[l.b].e[l.o].eid, [l EXCEPT !.o = @ + 1])
  BY <1>a, <1>b DEF edge_next, Reading
<1>2. call \in Calls /\ at \in Places /\ at.b \in Nat /\ at.o \in Nat /\ t \in Txns
  BY <1>1, <1>a, NoCallFacts DEF CallInv, Calls, Places
<1>3. /\ st \subseteq Eids /\ gv \in [Eids -> Nat] /\ at.o >= 1
      /\ \A e \in st : Readable("edges", t, e) /\ gv[e] = IF Behind(loc[e], at) THEN 1 ELSE 0
  BY <1>1, <1>a DEF ScanInv, Scanned, EdgesScanned
<1>4. \A e \in st : ~Behind(loc[e], at) => loc[e] \in shown
  BY <1>2, <1>3, <1>b, AheadIsShown
<1>5. CASE shown = {} /\ EndScan
  BY <1>3, <1>4, <1>5, <1>a, EndScanKeeps
<1>6. ASSUME NEW l \in shown, \A m \in shown : ~Behind(m, l), Return(blocks[l.b].e[l.o].eid, [l EXCEPT !.o = @ + 1])
      PROVE  CallInv' /\ Scanned(call', steady', given') /\ call' # NoCall
  <2>a. PICK x : x = blocks[l.b].e[l.o].eid
    OBVIOUS
  <2>b. PICK n : n = [l EXCEPT !.o = @ + 1]
    OBVIOUS
  <2>1. /\ call' = [call EXCEPT !.at = n] /\ steady' = st
        /\ given' = IF x \in st THEN [gv EXCEPT ![x] = @ + 1] ELSE gv
    BY <1>6, <1>a, <2>a, <2>b DEF Return
  <2>2. l \in [b : DOMAIN blocks, o : Slots] /\ Shown(t, at, l)
    BY <1>b
  <2>3. l.b \in DOMAIN blocks /\ l.o \in Slots /\ l.b \in Nat /\ l.o \in Nat
    BY <2>2, BlocksShape, ConstantFacts DEF OInv, Exact, Slots
  <2>4. n \in Places /\ n.b = l.b /\ n.o = l.o + 1
    BY <2>2, <2>3, <2>b DEF Places
  <2>5. ~Behind(l, at) /\ ~blocks[l.b].dead /\ ~IsTombstone(blocks[l.b].e[l.o])
    BY <2>2 DEF Shown
  <2>6. x \in Eids /\ loc[x] = Place(l.b, l.o) /\ loc[x].b = l.b /\ loc[x].o = l.o
    BY <2>3, <2>5, <2>a, SlotIsMapped DEF Place
  <2>7. PICK hv : hv = given'
    OBVIOUS
  <2>8. hv \in [Eids -> Nat] /\ \A e \in st : hv[e] = IF e = x THEN gv[e] + 1 ELSE gv[e]
    BY <1>3, <2>1, <2>7, CountedOnce
  <2>9. ASSUME NEW e \in st PROVE hv[e] = IF Behind(loc[e], n) THEN 1 ELSE 0
    <3>1. /\ loc[e].b \in Nat /\ loc[e].o \in Nat /\ e \in Eids
          /\ blocks[loc[e].b].e[loc[e].o].eid = e
      BY <1>3, ReadableFacts
    <3>2. CASE Behind(loc[e], at)
      <4>1. e # x
        BY <2>5, <2>6, <3>2 DEF Behind
      <4>2. Behind(loc[e], n)
        BY <1>2, <2>3, <2>4, <2>5, <3>1, <3>2 DEF Behind
      <4> QED BY <1>3, <2>8, <3>2, <4>1, <4>2
    <3>3. CASE ~Behind(loc[e], at) /\ e = x
      <4>1. Behind(loc[e], n)
        BY <2>3, <2>4, <2>6, <3>3 DEF Behind
      <4>2. gv[e] = 0
        BY <1>3, <3>3
      <4> QED BY <2>8, <3>3, <4>1, <4>2
    <3>4. CASE ~Behind(loc[e], at) /\ e # x
      <4>1. ~Behind(loc[e], l)
        BY <1>4, <1>6, <3>4
      <4>2. ~(loc[e].b = l.b /\ loc[e].o = l.o)
        BY <2>a, <3>1, <3>4
      <4>3. ~Behind(loc[e], n)
        BY <2>3, <2>4, <3>1, <4>1, <4>2 DEF Behind
      <4> QED BY <1>3, <2>8, <3>4, <4>3
    <3> QED BY <3>2, <3>3, <3>4
  <2>10. CallInv' /\ call'.op = "edges" /\ call'.t = t /\ call'.at = n /\ call' # NoCall
    BY <1>1, <1>a, <2>1, <2>4, ScanGoesOn
  <2>11. PICK c : c = call'
    OBVIOUS
  <2>12. Scanned(c, st, hv)
    BY <1>3, <2>3, <2>4, <2>8, <2>9, <2>10, <2>11 DEF Scanned, EdgesScanned
  <2> QED BY <2>1, <2>7, <2>10, <2>11, <2>12
<1> QED BY <1>1, <1>5, <1>6

LEMMA AdjacencyNextKeeps ==
  ASSUME OInv, CallInv, ScanInv, vars' = vars, adjacency_next
  PROVE  /\ CallInv' /\ Scanned(call', steady', given')
         /\ call' = NoCall => \A e \in steady : given[e] = 1
<1>a. PICK t, l, st, gv : t = call.t /\ l = call.at /\ st = steady /\ gv = given
  OBVIOUS
<1>b. PICK b : b = blocks[l.b]
  OBVIOUS
<1>c. PICK stop : stop <=> (TooNew(b, t) \/ l.o > BLOCK_CAPACITY \/ IsTombstone(b.e[l.o]))
  OBVIOUS
<1>1. /\ call.op = "adjacent"
      /\ IF l.b = NONE THEN EndScan
         ELSE IF b.dead THEN Skip([l EXCEPT !.b = b.pre])
         ELSE IF stop THEN Skip([b |-> b.pre, o |-> 1])
         ELSE IF Sees(t, b.e[l.o].ts) THEN Return(b.e[l.o].eid, [l EXCEPT !.o = @ + 1])
         ELSE Skip([l EXCEPT !.o = @ + 1])
  BY <1>a, <1>b, <1>c, Zenon DEF adjacency_next, Reading
<1>2. call \in Calls /\ l \in Places /\ l.b \in Nat /\ l.o \in Nat /\ t \in Txns
  BY <1>1, <1>a, NoCallFacts DEF CallInv, Calls, Places
<1>3. /\ st \subseteq Eids /\ gv \in [Eids -> Nat] /\ l.o >= 1
      /\ \A e \in st : Readable("adjacent", t, e) /\ gv[e] = IF Passed(loc[e], l) THEN 1 ELSE 0
      /\ \A e \in st : Passed(loc[e], l) \/ Reaches(l.b, loc[e].b)
      /\ l.b \in 0 .. Len(blocks) /\ (l.b # 0 /\ b.dead => l.o = 1)
  BY <1>1, <1>a, <1>b DEF ScanInv, Scanned, ChainScanned
<1>4. ASSUME NEW e \in st
      PROVE  /\ loc[e].b \in Nat /\ loc[e].b >= 1 /\ loc[e].o \in Nat /\ loc[e].o >= 1 /\ loc[e].o <= BLOCK_CAPACITY
             /\ loc[e].b \in DOMAIN blocks /\ blocks[loc[e].b].e[loc[e].o].eid = e /\ e \in Eids
             /\ ~blocks[loc[e].b].dead /\ ~TooNew(blocks[loc[e].b], t)
             /\ Sees(t, blocks[loc[e].b].e[loc[e].o].ts)
             /\ \A o \in 1 .. loc[e].o : ~IsTombstone(blocks[loc[e].b].e[o])
  BY <1>3, ReadableFacts
<1>5. DOMAIN blocks = 1 .. Len(blocks) /\ Len(blocks) \in Nat
  BY BlocksShape DEF OInv, Exact
<1>6. CASE l.b = NONE
  <2>1. EndScan
    BY <1>1, <1>6
  <2>2. ASSUME NEW e \in st PROVE gv[e] = 1
    <3>1. ~Reaches(l.b, loc[e].b)
      <4> SUFFICES ASSUME Reaches(l.b, loc[e].b) PROVE FALSE
        OBVIOUS
      <4>1. loc[e].b \in 0 .. l.b
        BY <1>3, ReachesFacts
      <4> QED BY <1>4, <1>6, <4>1 DEF NONE
    <3> QED BY <1>3, <3>1
  <2> QED BY <1>a, <2>1, <2>2, EndScanKeeps
<1>7. ASSUME l.b # NONE, NEW m \in Places, m.b = b.pre, m.o = 1, Skip(m),
             \A e \in st : loc[e].b = l.b => Passed(loc[e], l)
      PROVE  CallInv' /\ Scanned(call', steady', given') /\ call' # NoCall
  <2>1. call' = [call EXCEPT !.at = m] /\ steady' = st /\ given' = gv
    BY <1>7, <1>a DEF Skip
  <2>2. CallInv' /\ call'.op = "adjacent" /\ call'.t = t /\ call'.at = m /\ call' # NoCall
    BY <1>1, <1>7, <1>a, <2>1, ScanGoesOn
  <2>3. b.pre \in 0 .. l.b - 1
    BY <1>3, <1>5, <1>7, <1>b DEF OInv, Exact, BlocksOK, BlockOK, NONE
  <2>4. ASSUME NEW e \in st
        PROVE  /\ Passed(loc[e], m) <=> Passed(loc[e], l)
               /\ Passed(loc[e], m) \/ Reaches(b.pre, loc[e].b)
    <3>1. CASE Passed(loc[e], l)
      <4>1. Passed(loc[e], m)
        BY <1>2, <1>4, <1>7, <2>3, <3>1 DEF Passed
      <4> QED BY <3>1, <4>1
    <3>2. CASE ~Passed(loc[e], l)
      <4>1. Reaches(l.b, loc[e].b) /\ loc[e].b # l.b
        BY <1>3, <1>7, <3>2
      <4>2. Reaches(b.pre, loc[e].b)
        BY <1>3, <1>7, <1>b, <4>1, ReachesFacts DEF NONE
      <4>3. b.pre \in 0 .. Len(blocks)
        BY <1>3, <1>5, <2>3
      <4>4. loc[e].b \in 0 .. b.pre
        BY <4>2, <4>3, ReachesFacts
      <4>5. ~Passed(loc[e], m)
        BY <1>4, <1>7, <2>3, <4>4 DEF Passed
      <4> QED BY <3>2, <4>2, <4>5
    <3> QED BY <3>1, <3>2
  <2>5. PICK c : c = call'
    OBVIOUS
  <2>6. ChainScanned(c, st, gv)
    <3>1. m.b \in 0 .. Len(blocks)
      BY <1>3, <1>5, <1>7, <2>3
    <3> QED BY <1>3, <1>7, <2>2, <2>4, <2>5, <3>1 DEF ChainScanned
  <2>7. Scanned(c, st, gv)
    BY <1>3, <1>7, <2>2, <2>5, <2>6 DEF Scanned
  <2> QED BY <2>1, <2>2, <2>5, <2>7
<1>8. CASE l.b # NONE /\ b.dead
  <2>1. PICK m : m = [l EXCEPT !.b = b.pre]
    OBVIOUS
  <2>2. Skip(m)
    BY <1>1, <1>8, <2>1
  <2>3. b.pre \in Nat
    BY <1>3, <1>5, <1>8, <1>b DEF OInv, Exact, BlocksOK, BlockOK, NONE
  <2>4. m \in Places /\ m.b = b.pre /\ m.o = 1
    BY <1>2, <1>3, <1>8, <2>1, <2>3 DEF Places, NONE
  <2>5. \A e \in st : loc[e].b # l.b
    BY <1>4, <1>8, <1>b
  <2> QED BY <1>7, <1>8, <2>2, <2>4, <2>5
<1>9. CASE l.b # NONE /\ ~b.dead /\ stop
  <2>1. PICK m : m = [b |-> b.pre, o |-> 1]
    OBVIOUS
  <2>2. Skip(m)
    BY <1>1, <1>9, <2>1
  <2>3. b.pre \in Nat
    BY <1>3, <1>5, <1>9, <1>b DEF OInv, Exact, BlocksOK, BlockOK, NONE
  <2>4. m \in Places /\ m.b = b.pre /\ m.o = 1
    BY <2>1, <2>3 DEF Places
  <2>5. ASSUME NEW e \in st, loc[e].b = l.b, ~Passed(loc[e], l) PROVE FALSE
    <3>1. l.o <= loc[e].o
      BY <1>2, <1>4, <2>5 DEF Passed
    <3>2. ~TooNew(b, t)
      BY <1>4, <1>b, <2>5
    <3>3. ~(l.o > BLOCK_CAPACITY)
      BY <1>2, <1>4, <3>1, ConstantFacts
    <3>4. l.o \in 1 .. loc[e].o
      BY <1>2, <1>3, <1>4, <3>1
    <3>5. ~IsTombstone(b.e[l.o])
      BY <1>4, <1>b, <2>5, <3>4
    <3> QED BY <1>9, <1>c, <3>2, <3>3, <3>5
  <2> QED BY <1>7, <1>9, <2>2, <2>4, <2>5
<1>10. CASE l.b # NONE /\ ~b.dead /\ ~stop
  <2>a. PICK m : m = [l EXCEPT !.o = @ + 1]
    OBVIOUS
  <2>b. PICK x : x = b.e[l.o].eid
    OBVIOUS
  <2>1. m \in Places /\ m.b = l.b /\ m.o = l.o + 1
    BY <1>2, <2>a DEF Places
  <2>2. ~(l.o > BLOCK_CAPACITY) /\ ~IsTombstone(b.e[l.o])
    BY <1>10, <1>c
  <2>3. l.b \in DOMAIN blocks /\ l.o \in Slots
    BY <1>2, <1>3, <1>5, <1>10, <2>2, ConstantFacts DEF Slots, NONE
  <2>4. x \in Eids /\ loc[x].b = l.b /\ loc[x].o = l.o
    <3>1. ~blocks[l.b].dead /\ ~IsTombstone(blocks[l.b].e[l.o]) /\ x = blocks[l.b].e[l.o].eid
      BY <1>10, <1>b, <2>2, <2>b
    <3>2. x \in Eids /\ loc[x] = Place(l.b, l.o)
      BY <2>3, <3>1, SlotIsMapped
    <3> QED BY <3>2 DEF Place
  <2>5. \A e \in st : loc[e].b = l.b /\ loc[e].o = l.o => e = x /\ Sees(t, b.e[l.o].ts)
    BY <1>4, <1>b, <2>b
  <2>6. /\ Sees(t, b.e[l.o].ts) => Return(x, m)
        /\ ~Sees(t, b.e[l.o].ts) => Skip(m)
    BY <1>1, <1>10, <2>a, <2>b
  <2>7. PICK hv : hv = given'
    OBVIOUS
  <2>8. /\ call' = [call EXCEPT !.at = m] /\ steady' = st /\ hv \in [Eids -> Nat]
        /\ \A e \in st : hv[e] = IF e = x THEN gv[e] + 1 ELSE gv[e]
    <3>1. CASE Sees(t, b.e[l.o].ts)
      <4>1. /\ call' = [call EXCEPT !.at = m] /\ steady' = st
            /\ hv = IF x \in st THEN [gv EXCEPT ![x] = @ + 1] ELSE gv
        BY <1>a, <2>6, <2>7, <3>1 DEF Return
      <4> QED BY <1>3, <4>1, CountedOnce
    <3>2. CASE ~Sees(t, b.e[l.o].ts)
      <4>1. call' = [call EXCEPT !.at = m] /\ steady' = st /\ hv = gv
        BY <1>a, <2>6, <2>7, <3>2 DEF Skip
      <4>2. \A e \in st : e # x
        BY <2>4, <2>5, <3>2
      <4> QED BY <1>3, <4>1, <4>2
    <3> QED BY <3>1, <3>2
  <2>9. CallInv' /\ call'.op = "adjacent" /\ call'.t = t /\ call'.at = m /\ call' # NoCall
    BY <1>1, <1>a, <2>1, <2>8, ScanGoesOn
  <2>10. ASSUME NEW e \in st
         PROVE  /\ hv[e] = IF Passed(loc[e], m) THEN 1 ELSE 0
                /\ Passed(loc[e], m) \/ Reaches(l.b, loc[e].b)
    <3>1. CASE Passed(loc[e], l)
      <4>1. Passed(loc[e], m) /\ e # x
        BY <1>2, <1>4, <2>1, <2>4, <3>1 DEF Passed
      <4> QED BY <1>3, <2>8, <3>1, <4>1
    <3>2. CASE ~Passed(loc[e], l) /\ e = x
      <4>1. Passed(loc[e], m) /\ gv[e] = 0
        BY <1>2, <1>3, <2>1, <2>4, <3>2 DEF Passed
      <4> QED BY <2>8, <3>2, <4>1
    <3>3. CASE ~Passed(loc[e], l) /\ e # x
      <4>1. ~(loc[e].b = l.b /\ loc[e].o = l.o)
        BY <2>5, <3>3
      <4>2. ~Passed(loc[e], m)
        BY <1>2, <1>4, <2>1, <3>3, <4>1 DEF Passed
      <4> QED BY <1>3, <2>8, <3>3, <4>2
    <3> QED BY <3>1, <3>2, <3>3
  <2>11. PICK c : c = call'
    OBVIOUS
  <2>12. ChainScanned(c, st, hv)
    BY <1>3, <1>10, <1>b, <2>1, <2>9, <2>10, <2>11 DEF ChainScanned
  <2>13. Scanned(c, st, hv)
    BY <1>2, <1>3, <2>1, <2>8, <2>9, <2>11, <2>12 DEF Scanned
  <2> QED BY <2>7, <2>8, <2>9, <2>11, <2>13
<1> QED BY <1>6, <1>8, <1>9, <1>10

\* The store changes.
LEMMA StorageKeeps ==
  ASSUME OInv, OInv', CallInv, ScanInv, StorageNext
  PROVE  CallInv' /\ ScanInv'
<1>1. /\ Next /\ OneThread /\ call' = call
      /\ steady' = {e \in steady : loc'[e] = loc[e] /\ Readable(call.op, call.t, e)'}
      /\ given' = [e \in Eids |-> IF e \in steady' THEN given[e] ELSE 0]
  BY DEF StorageNext
<1>2. steady \subseteq Eids /\ given \in [Eids -> Nat]
  BY DEF ScanInv, Scanned
<1>3. /\ steady' \subseteq Eids /\ given' \in [Eids -> Nat]
      /\ \A e \in steady' : e \in steady /\ given'[e] = given[e] /\ loc'[e] = loc[e] /\ Readable(call.op, call.t, e)'
  BY <1>1, <1>2
<1>4. CASE call = NoCall
  <2>1. CallInv'
    BY <1>1, <1>4 DEF CallInv
  <2>2. ScanInv'
    BY <1>1, <1>3, <1>4, NoCallFacts DEF ScanInv, Scanned
  <2> QED BY <2>1, <2>2
<1>5. CASE call # NoCall
  <2>1. /\ call \in Calls /\ phase = "run" /\ call.t \in Txns /\ tx[call.t].st = "active" /\ tx'[call.t].st = "active"
        /\ call.op = "get" => call.eid \in Eids /\ call.at # NoLoc
    BY <1>1, <1>5 DEF CallInv, Calls, OneThread
  <2>2. phase' = "run"
    <3>1. ~Quiet /\ ~Load /\ ~EndLoad
      BY <2>1 DEF Quiet, Load, EndLoad
    <3>2. ~compress_edge /\ ~compress_property
      BY <3>1 DEF compress_edge, compress_property
    <3>3. \/ \E t \in Txns : \/ Begin(t) \/ LookedInVain(t) \/ delete_edge_in_txn(t)
                             \/ DrawCommit(t) \/ commit_at(t) \/ abort(t)
                             \/ \E v \in Vertices, d \in Dsts :
                                   create_edge_in_txn(t, v, d, IF t \in Bare THEN NONE ELSE NewValue)
                             \/ \E op \in {"set", "del"}, e \in Eids : LookUp(t, op, e)
                             \/ set_edge_property_in_txn(t, NewValue)
      <4> HIDE DEF NewValue
      <4>1. \A v, d, e, n : /\ ~create_vertex(v) /\ ~delete_vertex(v) /\ ~set_vertex_property(v, n)
                            /\ ~create_edge(v, d, n) /\ ~delete_edge(e) /\ ~set_edge_property(e, n)
        BY <3>1, Zenon DEF create_vertex, delete_vertex, set_vertex_property, create_edge, delete_edge, set_edge_property
      <4> QED BY <1>1, <3>1, <3>2, <4>1, Zenon DEF Next
    <3>4. phase' = phase
      <4> HIDE DEF NewValue
      <4> QED BY <3>3, Zenon DEF Begin, LookedInVain, delete_edge_in_txn, DrawCommit, commit_at, abort,
                                 create_edge_in_txn, LookUp, set_edge_property_in_txn, Apply, Active
    <3> QED BY <2>1, <3>4
  <2>3. CallInv'
    BY <1>1, <2>1, <2>2 DEF CallInv
  <2>4. Grown(blocks, blocks')
    BY <1>1, <2>1, RunGrows
  <2>5. call.op = "edges" => EdgesScanned(call, steady, given)'
    BY <1>1, <1>3 DEF EdgesScanned, ScanInv, Scanned
  <2>6. ASSUME call.op = "adjacent" PROVE ChainScanned(call, steady, given)'
    <3>a. PICK l : l = call.at
      OBVIOUS
    <3>1. /\ l.b \in 0 .. Len(blocks) /\ (l.b # 0 /\ blocks[l.b].dead => l.o = 1)
          /\ \A e \in steady : /\ given[e] = IF Passed(loc[e], l) THEN 1 ELSE 0
                               /\ Passed(loc[e], l) \/ Reaches(l.b, loc[e].b)
      BY <2>6, <3>a DEF ScanInv, Scanned, ChainScanned
    <3>2. l.b # 0 => blocks'[l.b].dead = blocks[l.b].dead
      BY <2>4, <3>1, BlocksShape DEF Grown, OInv, Exact
    <3>3. l.b \in 0 .. Len(blocks')
      <4>1. DOMAIN blocks = 1 .. Len(blocks) /\ Len(blocks) \in Nat /\ DOMAIN blocks' = 1 .. Len(blocks') /\ Len(blocks') \in Nat
        BY BlocksShape DEF OInv, Exact
      <4> QED BY <2>4, <3>1, <4>1 DEF Grown
    <3>4. ASSUME NEW e \in steady' PROVE Passed(loc'[e], l) \/ Reaches(l.b, loc[e].b)'
      <4>1. e \in steady /\ loc'[e] = loc[e]
        BY <1>3
      <4>2. ASSUME NEW x, Reaches(l.b, x) PROVE Reaches(l.b, x)'
        BY <2>4, <3>1, <4>2, ReachesKept
      <4>3. PICK x, y : x = loc[e].b /\ y = l.b
        OBVIOUS
      <4>4. Reaches(y, x) => Reaches(y, x)'
        BY <4>2, <4>3
      <4>5. Reaches(y, x)' => Reaches(l.b, loc[e].b)'
        BY <4>1, <4>3 DEF Reaches
      <4> QED BY <3>1, <4>1, <4>3, <4>4, <4>5
    <3>5. \A e \in steady' : given'[e] = IF Passed(loc'[e], l) THEN 1 ELSE 0
      BY <1>3, <3>1
    <3> QED BY <1>1, <3>1, <3>2, <3>3, <3>4, <3>5, <3>a DEF ChainScanned
  <2>7. call.op \in {"edges", "adjacent"} => call.at.o >= 1
    BY DEF ScanInv, Scanned
  <2>8. ScanInv'
    BY <1>1, <1>3, <2>5, <2>6, <2>7 DEF ScanInv, Scanned
  <2> QED BY <2>3, <2>8
<1> QED BY <1>4, <1>5

LEMMA AdjacencyBegins ==
  ASSUME OInv, vars' = vars, NEW t \in Txns, NEW v \in Vertices, iter_adjacency_at_ts(t, v)
  PROVE  CallInv' /\ Scanned(call', steady', given')
<1>a. PICK n : n = get_vertex(v).block
  OBVIOUS
<1>b. PICK l : l = [b |-> n, o |-> 1]
  OBVIOUS
<1>1. vmap[v] \in DOMAIN vertices /\ Scan("adjacent", t, l, AdjacencyOf(v))
  BY <1>a, <1>b, Zenon DEF iter_adjacency_at_ts
<1>2. n \in 0 .. Len(blocks)
  <2>1. Len(blocks) \in Nat
    BY BlocksShape DEF OInv, Exact
  <2>2. vertices[vmap[v]] \in VertexRecords /\ vertices[vmap[v]].block <= Len(blocks)
    BY <1>1 DEF OInv, VerticesIn
  <2>3. vertices[vmap[v]].block \in Nat
    BY <2>2 DEF VertexRecords
  <2> QED BY <1>a, <2>1, <2>2, <2>3 DEF get_vertex
<1>3. l \in Places /\ l.b = n /\ l.o = 1
  BY <1>2, <1>b DEF Places
<1>4. AdjacencyOf(v) \subseteq Eids
  BY ConstantFacts DEF AdjacencyOf, OInv, Eids
<1>5. ASSUME NEW e \in AdjacencyOf(v) PROVE Reaches(n, loc[e].b)
  <2>1. PICK k \in DOMAIN Chain(n) : Chain(n)[k] = loc[e].b
    BY <1>a DEF AdjacencyOf
  <2>2. Reaches(n, Chain(n)[k])
    BY <1>2, ChainReaches
  <2> QED BY <2>1, <2>2
<1>6. PICK among, op : among = AdjacencyOf(v) /\ op = "adjacent"
  OBVIOUS
<1> QED BY <1>1, <1>2, <1>3, <1>4, <1>5, <1>6, ScanBegins

LEMMA EdgesBegin ==
  ASSUME OInv, vars' = vars, NEW t \in Txns, iter_edges_at_ts(t)
  PROVE  CallInv' /\ Scanned(call', steady', given')
<1>1. PICK l : l = [b |-> 1, o |-> 1]
  OBVIOUS
<1>2. Scan("edges", t, l, Eids) /\ l \in Places /\ l.b = 1 /\ l.o = 1
  BY <1>1 DEF iter_edges_at_ts, Places
<1>3. PICK op : op = "edges"
  OBVIOUS
<1>4. Scan(op, t, l, Eids) /\ op \in {"edges", "adjacent"} /\ op # "adjacent"
  BY <1>2, <1>3
<1> QED BY <1>2, <1>4, ScanBegins

\* What the end of a scan has to show for it.
AllGiven == call.op \in {"edges", "adjacent"} /\ call' = NoCall => \A e \in steady : given[e] = 1

LEMMA ReadStep ==
  ASSUME OInv, OInv', CallInv, ScanInv, [ReadNext]_allVars
  PROVE  CallInv' /\ ScanInv' /\ AllGiven
<1>0. call.op \in {"edges", "adjacent"} => call # NoCall
  BY NoCallFacts
<1>1. CASE StorageNext
  <2>1. call' = call
    BY <1>1 DEF StorageNext
  <2> QED BY <1>0, <1>1, <2>1, StorageKeeps DEF AllGiven
<1>2. CASE UNCHANGED allVars
  <2>1. vars' = vars /\ call' = call /\ steady' = steady /\ given' = given
    BY <1>2 DEF allVars, readerVars
  <2>2. ScanInv'
    BY <2>1, ScannedSame DEF ScanInv
  <2>3. CallInv'
    BY <2>1 DEF CallInv, vars
  <2> QED BY <1>0, <2>1, <2>2, <2>3 DEF AllGiven
<1>3. CASE ReaderNext /\ UNCHANGED vars
  <2>0. vars' = vars
    BY <1>3
  <2>1. SUFFICES CallInv' /\ Scanned(call', steady', given') /\ AllGiven
    BY <2>0, ScannedSame
  <2>2. ASSUME NEW t \in Txns, iter_edges_at_ts(t) PROVE CallInv' /\ Scanned(call', steady', given') /\ AllGiven
    <3>1. call = NoCall
      BY <2>2 DEF iter_edges_at_ts, Scan, MayRead
    <3> QED BY <1>0, <2>0, <2>2, <3>1, EdgesBegin DEF AllGiven
  <2>3. ASSUME NEW t \in Txns, NEW v \in Vertices, iter_adjacency_at_ts(t, v)
        PROVE  CallInv' /\ Scanned(call', steady', given') /\ AllGiven
    <3>1. call = NoCall
      BY <2>3, Zenon DEF iter_adjacency_at_ts, Scan, MayRead
    <3> QED BY <1>0, <2>0, <2>3, <3>1, AdjacencyBegins DEF AllGiven
  <2>4. ASSUME NEW t \in Txns, NEW e \in Eids, LookFor(t, e) PROVE CallInv' /\ Scanned(call', steady', given') /\ AllGiven
    <3>1. call = NoCall
      BY <2>4 DEF LookFor, MayRead
    <3> QED BY <1>0, <2>0, <2>4, <3>1, LookForKeeps DEF AllGiven
  <2>5. CASE Looked
    <3>1. call.op = "get"
      BY <2>5 DEF Looked, Reading
    <3> QED BY <2>5, <3>1, LookedKeeps DEF AllGiven
  <2>6. CASE edge_next
    BY <2>0, <2>6, EdgeNextKeeps DEF AllGiven
  <2>7. CASE adjacency_next
    BY <2>0, <2>7, AdjacencyNextKeeps DEF AllGiven
  <2> QED BY <1>3, <2>2, <2>3, <2>4, <2>5, <2>6, <2>7, Zenon DEF ReaderNext
<1> QED BY <1>1, <1>2, <1>3 DEF ReadNext

LEMMA ReadInitInv == ReadInit => OInv /\ SInv /\ CallInv /\ ScanInv
<1> SUFFICES ASSUME ReadInit PROVE OInv /\ SInv /\ CallInv /\ ScanInv
  OBVIOUS
<1>1. Init /\ call = NoCall /\ steady = {} /\ given = NoneGiven
  BY DEF ReadInit
<1>2. NoneGiven \in [Eids -> Nat]
  BY DEF NoneGiven
<1>3. ScanInv
  BY <1>1, <1>2, NothingScanned, NoCallFacts DEF ScanInv
<1> QED BY <1>1, <1>3, InitOInv, InitSInv DEF CallInv

LEMMA ReadStepIsStep == [ReadNext]_allVars => [Next]_vars
  BY DEF ReadNext, StorageNext, allVars

\* iter_edges_at_ts and iter_adjacency_at_ts, which give the lock back between
\* two edges and keep only a block and an offset, return exactly once every edge
\* that keeps its place and stays readable while they run, however the
\* transactions beside them insert, delete, shift, commit and roll back.
THEOREM SnapshotScansComplete == ReadSpec => ScansReturnSteady
<1>1. ReadInit => OInv /\ CallInv /\ ScanInv
  BY ReadInitInv
<1>2. OInv /\ CallInv /\ ScanInv /\ [ReadNext]_allVars => OInv' /\ CallInv' /\ ScanInv'
  BY StepOInv, ReadStep, ReadStepIsStep
<1>3. OInv /\ CallInv /\ ScanInv /\ [ReadNext]_allVars => AllGiven
  BY StepOInv, ReadStep, ReadStepIsStep
<1>4. AllGiven => [call.op \in {"edges", "adjacent"} /\ call' = NoCall => \A e \in steady : given[e] = 1]_allVars
  BY DEF AllGiven
<1> QED BY <1>1, <1>2, <1>3, <1>4, PTL DEF ReadSpec, ScansReturnSteady

LEMMA ReadsInState ==
  ASSUME KeepOff, OInv, SInv, CallInv
  PROVE  SnapshotReads
<1> SUFFICES ASSUME call.op = "get", Running
             PROVE  LET t == call.t
                        e == call.eid
                        r == get_edge_at_ts(t, e, call.at)
                    IN  \/ r.found /\ Sees(t, log[e][1].ts) /\ r.val = Expected(t, e) /\ get_edge(t, e, call.at) = r
                        \/ ~r.found /\ \/ loc[e] # call.at \/ InDeadBlock(e)
                                       \/ ~Sees(t, Last(e).ts) \/ Last(e).val = NONE
                                       \/ Last(e).ts \in {0, txn_id(t)} /\ TooNew(blocks[loc[e].b], t)
  BY Zenon DEF SnapshotReads
<1>a. PICK t, e, l : t = call.t /\ e = call.eid /\ l = call.at
  OBVIOUS
<1>b. PICK r : r = get_edge_at_ts(t, e, l)
  OBVIOUS
<1>1. t \in Txns /\ e \in Eids /\ l \in Places /\ l # NoLoc
  BY <1>a, NoCallFacts DEF CallInv, Calls
<1>2. None.found = FALSE /\ (r = None \/ (Holds(blocks, l, e) /\ ~blocks[l.b].dead))
  BY <1>b, Zenon DEF get_edge_at_ts, None
<1>3. EdgeInv(e) /\ Exact(blocks, loc, eids) /\ VersionsIn(blocks)
  BY <1>1 DEF SInv, OInv, Running
<1>4. CASE loc[e] = l /\ ~InDeadBlock(e)
  <2>1. log[e] # <<>>
    BY <1>1, <1>3, <1>4 DEF EdgeInv
  <2>2. e \in 1 .. eids
    BY <1>1, <1>3, <1>4, CellTyped
  <2>3. LET r2 == get_edge_at_ts(t, e, loc[e]) IN
        \/ r2.found /\ Sees(t, log[e][1].ts) /\ r2.val = Expected(t, e) /\ get_edge(t, e, loc[e]) = r2
        \/ ~r2.found /\ \/ ~Sees(t, Last(e).ts) \/ Last(e).val = NONE
                        \/ Last(e).ts \in {0, txn_id(t)} /\ TooNew(blocks[loc[e].b], t)
    BY <1>1, <1>4, <2>1, <2>2, ReadInPlace
  <2> QED BY <1>4, <1>a, <2>3
<1>5. CASE loc[e] # l
  <2>1. ~Holds(blocks, l, e)
    BY <1>1, <1>5, HeldIsMapped
  <2>2. ~r.found
    BY <1>2, <2>1
  <2> QED BY <1>5, <1>a, <1>b, <2>2
<1>6. CASE loc[e] = l /\ InDeadBlock(e)
  <2>1. blocks[l.b].dead
    BY <1>6 DEF InDeadBlock
  <2>2. ~r.found
    BY <1>2, <2>1
  <2> QED BY <1>6, <1>a, <1>b, <2>2
<1> QED BY <1>4, <1>5, <1>6

\* get_edge_at_ts and get_edge, which look at edge_id_map and only then take the
\* lock, give a running transaction its own last write or the last commit of its
\* snapshot and never another edge's value, whatever the others create, set,
\* delete, commit and roll back in between; an edge that has not moved and that
\* the transaction should see is missed only where the block's min_ts hides it.
\* Clients keep off edges that another transaction is writing, no edge leads to
\* vertex 1, whose id marks a tombstone, and there are fewer transactions than
\* timestamps below the ids.
THEOREM ReadsAreSnapshots == KeepOff /\ ReadSpec => []SnapshotReads
<1>1. ReadInit => OInv /\ SInv /\ CallInv /\ ScanInv
  BY ReadInitInv
<1>2. KeepOff /\ OInv /\ SInv /\ CallInv /\ ScanInv /\ [ReadNext]_allVars => OInv' /\ SInv' /\ CallInv' /\ ScanInv'
  BY StepOInv, StepSInv, ReadStep, ReadStepIsStep
<1>3. KeepOff /\ OInv /\ SInv /\ CallInv => SnapshotReads
  BY ReadsInState
<1>4. KeepOff => []KeepOff
  <2>1. KeepOff => KeepOff'
    BY DEF KeepOff, TOMBSTONE_DST_ID
  <2> QED BY <2>1, PTL
<1> QED BY <1>1, <1>2, <1>3, <1>4, PTL DEF ReadSpec
=============================================================================
