------------------------- MODULE MemGraphSI_proofs -------------------------
(***************************************************************************)
(* What transactions read from MemGraph, for any number of transactions,   *)
(* records and calls, pessimistic and optimistic ones together: committed  *)
(* data of their snapshot, and the refinement of SnapshotIsolation.        *)
(***************************************************************************)
EXTENDS MemGraph_proofs, MemGraphSI

\* Pessimistic transactions are not rolled back: their clients do not call abort,
\* and a Snapshot commit has no read set that could make it fail.
NoRollback ==
    \A t \in Txns : Strategy[t] = "Pessimistic" => "abort" \notin Calls /\ Isolation[t] = "Snapshot"

\* Or they may be, and then every transaction writes a record once and deletes
\* nothing: abort_at leaves a record that was written twice at the first write,
\* and revives one that was deleted before.
WriteOnce == MaxWrites = 1 /\ "delete" \notin Calls

\* A client of optimistic transactions does not delete what it has inserted.
NoInsertDelete ==
    (\A t \in Txns : Strategy[t] = "Pessimistic") \/ ~({"create", "delete"} \subseteq Calls)

\* What the theorems below ask of the clients.
CarefulClients == Serialized /\ NothingRemoved /\ (WriteOnce \/ (NoRollback /\ NoInsertDelete))

-----------------------------------------------------------------------------
(* Versions of a record: version k is what the entries k, k + 1, ... of the   *)
(* chain lead back to, and the last one is the head.                          *)

Versions(c) == 1 .. Len(c) + 1
VersionTs(h, c, k) == IF k <= Len(c) THEN c[k].ts ELSE h.cts
VersionImage(h, c, k) == Replay(ImageOf(h), c, k)

\* Commits that give or have given their records their timestamp.
Past(w) == pc[w] \in {"promote", "committed"}
Origin(ts) == ts \in {0, 2} \/ \E w \in Txns : Past(w) /\ ts = cts[w]
Clean(w, ts) == w = 0 \/ (w \in Txns /\ Past(w) /\ cts[w] <= ts)

\* A live committed version holds data of commits that are not newer than it.
Dated(r) ==
    \A k \in Versions(chain[r]) :
        LET ts == VersionTs(head[r], chain[r], k)
            img == VersionImage(head[r], chain[r], k)
        IN  is_commit_ts(ts) => /\ Origin(ts)
                                /\ ~img.tomb => \A p \in Props : Clean(img.props[p], ts)

\* A live version that is not committed yet adds the writer's own data.
MarkedClean(r) ==
    \A u \in Txns : head[r].cts = TxnId(u) /\ ~head[r].tomb =>
        \A p \in Props : head[r].props[p] = u \/ Clean(head[r].props[p], start[u])

\* The oldest version is older than every transaction, or the record is not there.
Based(r) == VersionTs(head[r], chain[r], 1) <= 2 \/ VersionImage(head[r], chain[r], 1).tomb

\* u has written record r and not taken the write back.
Busy(u, r) ==
    \/ pc[u] \in Writing \cup {"promote"}
    \/ pc[u] = "abort" /\ \E i \in DOMAIN undo[u] : i > pos[u] /\ undo[u][i].rec = r

\* The entries of a chain belong to commits that are still kept or older than
\* every active transaction, or to the writer of the head.
Retained(w) == w \in kept \/ cts[w] <= watermark
OwnedBy(w, r, i) ==
    \/ /\ pc[w] = "committed" /\ Retained(w)
       /\ head[r].cts = cts[w] \/ \E j \in DOMAIN chain[r] : j > i /\ chain[r][j].ts = cts[w]
    \/ Busy(w, r) /\ head[r].cts = TxnId(w)
    \/ pc[w] = "promote" /\ head[r].cts = cts[w]
Owned(r) == \A i \in DOMAIN chain[r] : OwnedBy(chain[r][i].own, r, i)

\* Entries of one writer are next to each other.
Runs(r) ==
    \A i \in DOMAIN chain[r] : i > 1 =>
        IF chain[r][i].own = chain[r][i - 1].own THEN chain[r][i].ts = TxnId(chain[r][i].own)
        ELSE is_commit_ts(chain[r][i].ts)
Topped(r) ==
    \A u \in Txns : head[r].cts = TxnId(u) =>
        IF Busy(u, r) THEN chain[r] # <<>> /\ chain[r][Len(chain[r])].own = u
        ELSE chain[r] = <<>> /\ head[r].tomb

\* Every mark is a transaction's.
Known(r) == is_commit_ts(head[r].cts) \/ \E u \in Txns : head[r].cts = TxnId(u)

RecordOK(r) ==
    Dated(r) /\ MarkedClean(r) /\ Based(r) /\ Owned(r) /\ Runs(r) /\ Topped(r) /\ Known(r)

-----------------------------------------------------------------------------
(* Transactions.                                                             *)

\* Timestamps are drawn in the order of events, and unfinished transactions are
\* registered.
Timed(t) ==
    /\ t \in Started => start[t] >= 3
    /\ pc[t] \in {"commit", "apply", "promote"} =>
          \A u \in Started : u # t => start[u] < cts[t]
    /\ Unfinished(t) => t \in active

\* What carries the timestamp of a commit under way is in its undo buffer, and an
\* optimistic one has the records of its intents there, with the staged data.
Buffered(t) ==
    /\ pc[t] = "promote" =>
          \A r \in Records : head[r].cts = cts[t] => \E i \in DOMAIN undo[t] : undo[t][i].rec = r
    /\ Strategy[t] = "Optimistic" /\ pc[t] \in {"apply", "promote"} =>
          /\ \A i \in DOMAIN undo[t] : undo[t][i].rec \in Intents(t)
          /\ \A r \in Intents(t) : \/ pc[t] = "apply" /\ r \in left[t]
                                   \/ \E i \in DOMAIN undo[t] : undo[t][i].rec = r
          /\ \A r \in Records : head[r].cts = TxnId(t) =>
                IF wset[t][r].kind = "Delete" THEN head[r].tomb
                ELSE wset[t][r].kind # "None" /\ ImageOf(head[r]) = wset[t][r].after

\* What phase 1 has validated holds until phase 2 gets to it.
Confirmed(t) == pc[t] = "apply" => \A r \in left[t] : IntentValid(t, r)

\* The calls a transaction is in are calls that clients make.
Calling(t) ==
    /\ pc[t] = "create" => "create" \in Calls /\ \E j \in DOMAIN calls[t] : target[t] = <<calls[t][j]>>
    /\ pc[t] = "delete" => "delete" \in Calls
    /\ pc[t] \in Unregistered => Intents(t) = {}

\* An abort finds every record with this transaction's only entry on top.
Undoable(t) ==
    IF WriteOnce
    THEN pc[t] \in {"run", "create", "commit", "abort"} => \A i \in DOMAIN undo[t] :
            LET u == undo[t][i] IN
            /\ \E j \in DOMAIN calls[t] : calls[t][j] = u.rec
            /\ \A j \in DOMAIN undo[t] : j # i => undo[t][j].rec # u.rec
            /\ pc[t] # "abort" \/ i > pos[t] =>
                  /\ head[u.rec].cts = TxnId(t)
                  /\ chain[u.rec] = Append(u.next, u.e)
                  /\ u.e.own = t /\ u.e.op # "Create" /\ (u.e.op = "Del" => u.e.img.tomb)
                  /\ \A j \in DOMAIN u.next : u.next[j].own # t
    ELSE Strategy[t] = "Pessimistic" => pc[t] \notin {"abort", "aborted"}

\* The base of a staged write is the version its guard names, if the record has it.
IntentOK(t, r) ==
    LET w == wset[t][r] IN
    /\ w.kind \in {"Update", "Delete"} =>
          /\ is_commit_ts(w.guard)
          /\ \A k \in Versions(chain[r]) :
                VersionTs(head[r], chain[r], k) = w.guard =>
                    VersionImage(head[r], chain[r], k) = w.before
          /\ r \in present
    /\ w.kind = "Update" => w.before.tomb = w.after.tomb
    /\ w.kind \in {"Insert", "Update"} =>
          \A p \in Props : w.after.props[p] = t \/ Clean(w.after.props[p], start[t])
    /\ w.kind = "Insert" => "create" \in Calls
    /\ w.kind = "Delete" => "delete" \in Calls
Staged(t) ==
    Strategy[t] = "Optimistic" /\ pc[t] \notin {"promote", "committed"} =>
        \A r \in Records : (pc[t] = "apply" => r \in left[t]) => IntentOK(t, r)

TxnOK(t) == Timed(t) /\ Buffered(t) /\ Confirmed(t) /\ Calling(t) /\ Undoable(t) /\ Staged(t)

VInv == /\ \A r \in Records : RecordOK(r)
        /\ \A t \in Txns : TxnOK(t)

-----------------------------------------------------------------------------
(* Replaying a chain.                                                        *)

LEMMA MinBelow ==
  ASSUME NEW S \in SUBSET Nat, S # {}, NEW m \in Nat, \A x \in S : x < m
  PROVE  Min(S \cup {m}) = Min(S)
<1>1. Min(S) \in S /\ \A y \in S : Min(S) <= y
  BY MinExists
<1>2. S \cup {m} \in SUBSET Nat /\ S \cup {m} # {}
  OBVIOUS
<1>3. Min(S \cup {m}) \in S \cup {m} /\ \A y \in S \cup {m} : Min(S \cup {m}) <= y
  BY <1>2, MinExists
<1> DEFINE a == Min(S)
           b == Min(S \cup {m})
<1>4. a \in S /\ (\A y \in S : a <= y) /\ b \in S \cup {m} /\ \A y \in S \cup {m} : b <= y
  BY <1>1, <1>3
<1> HIDE DEF a, b
<1>5. a = b
  BY <1>4
<1> QED BY <1>5 DEF a, b

LEMMA MinSingle ==
  ASSUME NEW m \in Nat
  PROVE  Min({m}) = m
<1>1. {m} \in SUBSET Nat /\ {m} # {}
  OBVIOUS
<1> QED BY <1>1, MinExists

\* What entry e restores of an image.
Undone(img, e) ==
    [props |-> set_props(img.props, e.idx, e.img.props),
     tomb |-> IF e.op = "SetProps" THEN img.tomb ELSE e.img.tomb]

\* The entries of chain c from k on that restore slot p, and the ones that restore
\* the tombstone flag.
SlotEntries(c, k, p) == {i \in 1 .. Len(c) : i >= k /\ p \in c[i].idx}
FlagEntries(c, k) == {i \in 1 .. Len(c) : i >= k /\ c[i].op # "SetProps"}

LEMMA ReplayIs ==
  ASSUME NEW img, NEW c, NEW k
  PROVE  Replay(img, c, k) =
           [props |-> [p \in Props |-> IF SlotEntries(c, k, p) = {} THEN img.props[p]
                                       ELSE c[Min(SlotEntries(c, k, p))].img.props[p]],
            tomb |-> IF FlagEntries(c, k) = {} THEN img.tomb ELSE c[Min(FlagEntries(c, k))].img.tomb]
<1>1. \A p \in Props : SlotEntries(c, k, p) = {i \in {j \in 1 .. Len(c) : j >= k} : p \in c[i].idx}
  BY DEF SlotEntries
<1>2. FlagEntries(c, k) = {i \in {j \in 1 .. Len(c) : j >= k} : c[i].op # "SetProps"}
  BY DEF FlagEntries
<1> QED BY <1>1, <1>2, Zenon DEF Replay

\* Beyond the last entry there is the head.
LEMMA ReplayHead ==
  ASSUME NEW img \in Image, NEW c \in Seq(Delta), NEW k \in Nat, k > Len(c)
  PROVE  Replay(img, c, k) = img
<1>1. /\ \A p \in Props : SlotEntries(c, k, p) = {}
      /\ FlagEntries(c, k) = {}
  BY DEF SlotEntries, FlagEntries
<1>2. Replay(img, c, k) = [props |-> [p \in Props |-> img.props[p]], tomb |-> img.tomb]
  BY <1>1, ReplayIs
<1> QED BY <1>2 DEF Image

\* The newest entry first, then the others.
LEMMA ReplayPush ==
  ASSUME NEW img \in Image, NEW c \in Seq(Delta), NEW e \in Delta, NEW k \in 1 .. Len(c) + 1
  PROVE  Replay(img, Append(c, e), k) = Replay(Undone(img, e), c, k)
<1> DEFINE n == Len(c)
           d == Append(c, e)
           u == Undone(img, e)
<1>1. /\ n \in Nat /\ Len(d) = n + 1 /\ d[n + 1] = e
      /\ \A i \in 1 .. n : d[i] = c[i]
  OBVIOUS
<1>2. /\ \A p \in Props : u.props[p] = IF p \in e.idx THEN e.img.props[p] ELSE img.props[p]
      /\ u.tomb = IF e.op = "SetProps" THEN img.tomb ELSE e.img.tomb
  BY DEF Undone, set_props
<1> HIDE DEF n, d, u
<1>3. ASSUME NEW p \in Props
      PROVE  (IF SlotEntries(d, k, p) = {} THEN img.props[p] ELSE d[Min(SlotEntries(d, k, p))].img.props[p])
             = (IF SlotEntries(c, k, p) = {} THEN u.props[p] ELSE c[Min(SlotEntries(c, k, p))].img.props[p])
  <2> DEFINE S == SlotEntries(c, k, p)
             T == SlotEntries(d, k, p)
  <2>1. /\ S \in SUBSET Nat /\ S \subseteq 1 .. n /\ n + 1 \in Nat /\ \A x \in S : x < n + 1
        /\ T = IF p \in e.idx THEN S \cup {n + 1} ELSE S
    BY <1>1 DEF SlotEntries, n
  <2> HIDE DEF S, T
  <2>2. CASE S = {}
    <3>1. CASE p \in e.idx
      <4>1. T = {n + 1}
        BY <2>1, <2>2, <3>1
      <4> QED BY <1>1, <1>2, <2>1, <2>2, <3>1, <4>1, MinSingle DEF S, T
    <3>2. CASE p \notin e.idx
      BY <1>2, <2>1, <2>2, <3>2 DEF S, T
    <3> QED BY <3>1, <3>2
  <2>3. CASE S # {}
    <3>1. Min(T) = Min(S)
      BY <2>1, <2>3, MinBelow
    <3>2. Min(S) \in 1 .. n
      BY <2>1, <2>3, MinExists
    <3>3. T # {}
      BY <2>1, <2>3
    <3> QED BY <1>1, <2>3, <3>1, <3>2, <3>3 DEF S, T
  <2> QED BY <2>2, <2>3
<1>4. (IF FlagEntries(d, k) = {} THEN img.tomb ELSE d[Min(FlagEntries(d, k))].img.tomb)
      = (IF FlagEntries(c, k) = {} THEN u.tomb ELSE c[Min(FlagEntries(c, k))].img.tomb)
  <2> DEFINE S == FlagEntries(c, k)
             T == FlagEntries(d, k)
  <2>1. /\ S \in SUBSET Nat /\ S \subseteq 1 .. n /\ n + 1 \in Nat /\ \A x \in S : x < n + 1
        /\ T = IF e.op # "SetProps" THEN S \cup {n + 1} ELSE S
    BY <1>1 DEF FlagEntries, n
  <2> HIDE DEF S, T
  <2>2. CASE S = {}
    <3>1. CASE e.op # "SetProps"
      <4>1. T = {n + 1}
        BY <2>1, <2>2, <3>1
      <4> QED BY <1>1, <1>2, <2>1, <2>2, <3>1, <4>1, MinSingle DEF S, T
    <3>2. CASE e.op = "SetProps"
      BY <1>2, <2>1, <2>2, <3>2 DEF S, T
    <3> QED BY <3>1, <3>2
  <2>3. CASE S # {}
    <3>1. Min(T) = Min(S)
      BY <2>1, <2>3, MinBelow
    <3>2. Min(S) \in 1 .. n
      BY <2>1, <2>3, MinExists
    <3>3. T # {}
      BY <2>1, <2>3
    <3> QED BY <1>1, <2>3, <3>1, <3>2, <3>3 DEF S, T
  <2> QED BY <2>2, <2>3
<1> QED BY <1>3, <1>4, ReplayIs DEF d, u

LEMMA UndoneTyped ==
  ASSUME NEW img \in Image, NEW e \in Delta
  PROVE  Undone(img, e) \in Image
BY DEF Undone, set_props, Image, Delta

-----------------------------------------------------------------------------
(* Walking a chain.                                                          *)

\* Where the walk over chain c ends that stops at the entries S.
LiveFrom(c, gone, i) == \A j \in i .. Len(c) : c[j].own \notin gone
GoingTo(c, S, i) == \A j \in (i + 1) .. Len(c) : j \notin S
Reach(c, gone, S) == {i \in 1 .. Len(c) : LiveFrom(c, gone, i) /\ GoingTo(c, S, i)}
Walk(c, gone, S) == Min({Len(c) + 1} \cup Reach(c, gone, S))
Older(c, s) == {i \in DOMAIN c : c[i].ts < s}

LEMMA WalkTyped ==
  ASSUME NEW c \in Seq(Delta), NEW gone, NEW S
  PROVE  /\ Walk(c, gone, S) \in Versions(c)
         /\ Walk(c, gone, S) = Len(c) + 1 \/ Walk(c, gone, S) \in Reach(c, gone, S)
         /\ \A i \in Reach(c, gone, S) : Walk(c, gone, S) <= i
<1>1. {Len(c) + 1} \cup Reach(c, gone, S) \in SUBSET Nat /\ Reach(c, gone, S) \subseteq 1 .. Len(c)
  BY DEF Reach
<1>2. /\ Walk(c, gone, S) \in {Len(c) + 1} \cup Reach(c, gone, S)
      /\ \A y \in {Len(c) + 1} \cup Reach(c, gone, S) : Walk(c, gone, S) <= y
  BY <1>1, MinExists DEF Walk
<1> QED BY <1>1, <1>2 DEF Versions

LEMMA VisibleIs ==
  ASSUME NEW h, NEW c \in Seq(Delta), NEW gone, NEW t, NEW s \in Nat
  PROVE  VisibleImage(h, c, gone, t, s) =
           IF NewerThan(h.cts, t, s) THEN VersionImage(h, c, Walk(c, gone, Older(c, s))) ELSE ImageOf(h)
<1> DEFINE A == {i \in 1 .. Len(c) : (\A j \in i .. Len(c) : c[j].own \notin gone)
                                     /\ (\A j \in (i + 1) .. Len(c) : ~(c[j].ts < s))}
<1>1. A = Reach(c, gone, Older(c, s))
  <2>1. ASSUME NEW i \in 1 .. Len(c)
        PROVE  (\A j \in (i + 1) .. Len(c) : ~(c[j].ts < s)) <=> GoingTo(c, Older(c, s), i)
    <3>1. \A j \in (i + 1) .. Len(c) : j \in DOMAIN c
      OBVIOUS
    <3> QED BY <3>1 DEF GoingTo, Older
  <2> QED BY <2>1 DEF Reach, LiveFrom
<1>2. apply_deltas_for_read(ImageOf(h), c, gone, s) = Replay(ImageOf(h), c, Min({Len(c) + 1} \cup A))
  BY Zenon DEF apply_deltas_for_read, WalkEnd
<1> HIDE DEF A
<1> QED BY <1>1, <1>2, Zenon DEF VisibleImage, VersionImage, Walk

\* A new entry of a transaction that is not gone: the walk ends at it if the entry
\* is old enough, and where it ended before otherwise.
LEMMA WalkPush ==
  ASSUME NEW c \in Seq(Delta), NEW e \in Delta, NEW gone, e.own \notin gone, NEW s \in Nat
  PROVE  Walk(Append(c, e), gone, Older(Append(c, e), s)) =
           IF e.ts < s THEN Len(c) + 1 ELSE Walk(c, gone, Older(c, s))
<1> DEFINE n == Len(c)
           d == Append(c, e)
           S == Older(c, s)
           T == Older(d, s)
<1>1. /\ n \in Nat /\ Len(d) = n + 1 /\ d[n + 1] = e /\ d \in Seq(Delta)
      /\ DOMAIN c = 1 .. n /\ DOMAIN d = 1 .. n + 1
      /\ \A i \in 1 .. n : d[i] = c[i]
  OBVIOUS
<1>2. /\ n + 1 \in T <=> e.ts < s
      /\ \A i \in 1 .. n : i \in T <=> i \in S
  BY <1>1 DEF Older
<1> HIDE DEF d, S, T
<1>3. n + 1 \in Reach(d, gone, T)
  BY <1>1 DEF Reach, LiveFrom, GoingTo
<1>4. ASSUME NEW i \in 1 .. n
      PROVE  i \in Reach(d, gone, T) <=> i \in Reach(c, gone, S) /\ ~(e.ts < s)
  <2>1. LiveFrom(d, gone, i) <=> LiveFrom(c, gone, i)
    <3>1. ASSUME NEW j \in i .. n + 1, j \notin i .. n PROVE d[j].own \notin gone
      BY <1>1, <3>1
    <3>2. \A j \in i .. n : d[j] = c[j] /\ j \in i .. n + 1
      BY <1>1
    <3> QED BY <1>1, <3>1, <3>2 DEF LiveFrom, n
  <2>2. GoingTo(d, T, i) <=> GoingTo(c, S, i) /\ n + 1 \notin T
    <3>1. \A j \in (i + 1) .. n : (j \in T <=> j \in S) /\ j \in (i + 1) .. n + 1
      BY <1>2
    <3>2. \A j \in (i + 1) .. n + 1 : j = n + 1 \/ j \in (i + 1) .. n
      OBVIOUS
    <3>3. n + 1 \in (i + 1) .. n + 1
      BY <1>1
    <3> QED BY <1>1, <3>1, <3>2, <3>3 DEF GoingTo, n
  <2> QED BY <1>1, <1>2, <2>1, <2>2 DEF Reach, n
<1> DEFINE W == Walk(d, gone, T)
<1>5. /\ W \in 1 .. n + 2
      /\ W = n + 2 \/ W \in Reach(d, gone, T)
      /\ \A i \in Reach(d, gone, T) : W <= i
  BY <1>1, WalkTyped DEF Versions
<1> HIDE DEF W
<1>6. W \in 1 .. n + 1
  BY <1>1, <1>3, <1>5
<1>7. CASE e.ts < s
  <2>1. W = n + 1
    BY <1>1, <1>4, <1>5, <1>6, <1>7
  <2> QED BY <1>7, <2>1 DEF W, d, T, n
<1>8. CASE ~(e.ts < s)
  <2> DEFINE V == Walk(c, gone, S)
  <2>1. /\ V \in 1 .. n + 1
        /\ V = n + 1 \/ V \in Reach(c, gone, S)
        /\ \A i \in Reach(c, gone, S) : V <= i
    BY WalkTyped DEF Versions, n
  <2>2. \A i \in Reach(c, gone, S) : i \in 1 .. n
    BY DEF Reach, n
  <2> HIDE DEF V
  <2>3. W <= V
    BY <1>1, <1>3, <1>4, <1>5, <1>8, <2>1, <2>2
  <2>4. V <= W
    BY <1>1, <1>4, <1>5, <1>6, <1>8, <2>1
  <2>5. W = V
    BY <1>1, <1>6, <2>1, <2>3, <2>4
  <2> QED BY <1>8, <2>5 DEF W, V, d, S, T
<1> QED BY <1>7, <1>8

\* Nobody's walk meets an entry that is dropped if a later entry is old enough.
LEMMA WalkDropped ==
  ASSUME NEW c \in Seq(Delta), NEW gone, NEW more, NEW S, gone \subseteq more,
         \A i \in DOMAIN c : c[i].own \in more \ gone => \E j \in DOMAIN c : j > i /\ j \in S
  PROVE  Walk(c, more, S) = Walk(c, gone, S)
<1>1. Reach(c, more, S) \subseteq Reach(c, gone, S)
  BY DEF Reach, LiveFrom
<1>2. ASSUME NEW i \in Reach(c, gone, S) PROVE i \in Reach(c, more, S)
  <2>1. i \in 1 .. Len(c) /\ LiveFrom(c, gone, i) /\ GoingTo(c, S, i)
    BY DEF Reach
  <2>2. ASSUME NEW j \in i .. Len(c), c[j].own \in more PROVE FALSE
    <3>1. j \in DOMAIN c /\ c[j].own \notin gone
      BY <2>1 DEF LiveFrom
    <3>2. PICK l \in DOMAIN c : l > j /\ l \in S
      BY <2>2, <3>1
    <3>3. l \in (i + 1) .. Len(c)
      BY <2>1, <3>2
    <3> QED BY <2>1, <3>2, <3>3 DEF GoingTo
  <2> QED BY <2>1, <2>2 DEF Reach, LiveFrom
<1>3. Reach(c, more, S) = Reach(c, gone, S)
  BY <1>1, <1>2
<1> QED BY <1>3 DEF Walk

\* If only entries behind an old enough one have been dropped, the walk ends at an
\* old enough entry or at the beginning.
LEMMA WalkArrives ==
  ASSUME NEW c \in Seq(Delta), NEW gone, NEW S,
         \A i \in DOMAIN c : c[i].own \in gone => \E j \in DOMAIN c : j > i /\ j \in S
  PROVE  \/ Walk(c, gone, S) = 1
         \/ Walk(c, gone, S) \in DOMAIN c /\ Walk(c, gone, S) \in S
<1> DEFINE W == Walk(c, gone, S)
           n == Len(c)
<1>1. Walk(c, {}, S) = W
  <2>1. \A i \in DOMAIN c : c[i].own \in gone \ {} => \E j \in DOMAIN c : j > i /\ j \in S
    OBVIOUS
  <2> QED BY <2>1, WalkDropped
<1>2. /\ n \in Nat /\ W \in 1 .. n + 1
      /\ W = n + 1 \/ W \in Reach(c, {}, S)
      /\ \A i \in Reach(c, {}, S) : W <= i
  BY <1>1, WalkTyped DEF Versions
<1>3. \A i \in 1 .. n : GoingTo(c, S, i) => i \in Reach(c, {}, S)
  BY DEF Reach, LiveFrom
<1> HIDE DEF W
<1> SUFFICES ASSUME W # 1 PROVE W \in DOMAIN c /\ W \in S
  BY DEF W
<1>4. W - 1 \in 1 .. n /\ W - 1 \notin Reach(c, {}, S)
  BY <1>2
<1>5. PICK j \in (W - 1 + 1) .. n : j \in S
  BY <1>3, <1>4 DEF GoingTo
<1>6. W \in Reach(c, {}, S)
  BY <1>2, <1>5
<1>7. j = W
  BY <1>2, <1>5, <1>6 DEF Reach, GoingTo
<1> QED BY <1>5, <1>6, <1>7 DEF Reach

-----------------------------------------------------------------------------
(* Writing a version, or taking it back, is invisible to the others.         *)

\* Entry e leads from head h2 back to head h with chain c.
LeadsBack(h2, e, h) == Undone(ImageOf(h2), e) = ImageOf(h) /\ e.ts = h.cts
\* Entry e leads back to a record that is not there.
LeadsNowhere(e, h, c) == c = <<>> /\ h.tomb /\ e.op = "Del" /\ e.img.tomb

LEMMA VersionsPush ==
  ASSUME NEW h \in Version, NEW h2 \in Version, NEW c \in Seq(Delta), NEW e \in Delta, LeadsBack(h2, e, h)
  PROVE  /\ \A k \in Versions(c) : /\ VersionTs(h2, Append(c, e), k) = VersionTs(h, c, k)
                                   /\ VersionImage(h2, Append(c, e), k) = VersionImage(h, c, k)
         /\ \A k \in Versions(Append(c, e)) : k \in Versions(c) \/ k = Len(c) + 2
         /\ VersionTs(h2, Append(c, e), Len(c) + 2) = h2.cts
         /\ VersionImage(h2, Append(c, e), Len(c) + 2) = ImageOf(h2)
<1> DEFINE n == Len(c)
           d == Append(c, e)
<1>1. /\ n \in Nat /\ Len(d) = n + 1 /\ d[n + 1] = e /\ d \in Seq(Delta)
      /\ \A i \in 1 .. n : d[i] = c[i]
  OBVIOUS
<1>2. ImageOf(h2) \in Image
  BY VersionTyped
<1> HIDE DEF d
<1>3. \A k \in 1 .. n + 1 : VersionTs(h2, d, k) = VersionTs(h, c, k)
  BY <1>1 DEF VersionTs, LeadsBack
<1>4. \A k \in 1 .. n + 1 : VersionImage(h2, d, k) = VersionImage(h, c, k)
  BY <1>2, ReplayPush DEF VersionImage, LeadsBack, d
<1>5. VersionTs(h2, d, n + 2) = h2.cts /\ VersionImage(h2, d, n + 2) = ImageOf(h2)
  BY <1>1, <1>2, ReplayHead DEF VersionTs, VersionImage
<1>6. \A k \in Versions(d) : k \in Versions(c) \/ k = n + 2
  BY <1>1 DEF Versions
<1> QED BY <1>3, <1>4, <1>5, <1>6 DEF Versions, d

LEMMA HeadIsLast ==
  ASSUME NEW h \in Version, NEW c \in Seq(Delta)
  PROVE  /\ VersionImage(h, c, Len(c) + 1) = ImageOf(h)
         /\ VersionTs(h, c, Len(c) + 1) = h.cts
         /\ Len(c) + 1 \in Versions(c) /\ 1 \in Versions(c)
<1>1. ImageOf(h) \in Image
  BY VersionTyped
<1> QED BY <1>1, ReplayHead DEF VersionImage, VersionTs, Versions

\* Transaction t, which began at s, does not notice the write of w.
LEMMA PushInvisible ==
  ASSUME NEW h \in Version, NEW h2 \in Version, NEW c \in Seq(Delta), NEW e \in Delta,
         NEW t \in Txns, NEW w \in Txns, w # t, h2.cts = TxnId(w), e.own = w,
         NEW gone, w \notin gone, NEW s \in Nat, is_commit_ts(s),
         \/ LeadsBack(h2, e, h) /\ h.cts # s /\ (is_commit_ts(h.cts) \/ h.cts = TxnId(w))
         \/ LeadsNowhere(e, h, c)
  PROVE  Plain(VisibleImage(h2, Append(c, e), gone, t, s)) = Plain(VisibleImage(h, c, gone, t, s))
<1> DEFINE n == Len(c)
           d == Append(c, e)
           W == Walk(d, gone, Older(d, s))
           V == Walk(c, gone, Older(c, s))
<1>0. /\ ImageOf(h) \in Image /\ ImageOf(h2) \in Image /\ h.cts \in Nat /\ h2.cts \in Nat /\ e.ts \in Nat
      /\ d \in Seq(Delta) /\ n \in Nat
  BY VersionTyped DEF Delta, Ts
<1>1. W = IF e.ts < s THEN n + 1 ELSE V
  BY WalkPush
<1>2. NewerThan(h2.cts, t, s)
  BY IdFacts DEF NewerThan
<1>3. VisibleImage(h2, d, gone, t, s) = VersionImage(h2, d, W)
  BY <1>0, <1>2, VisibleIs
<1>4. VisibleImage(h, c, gone, t, s) = IF NewerThan(h.cts, t, s) THEN VersionImage(h, c, V) ELSE ImageOf(h)
  BY VisibleIs
<1>5. V \in Versions(c)
  BY WalkTyped
<1> HIDE DEF d, W, V
<1>6. CASE LeadsBack(h2, e, h) /\ h.cts # s /\ (is_commit_ts(h.cts) \/ h.cts = TxnId(w))
  <2>1. CASE h.cts < s
    <3>1. ~NewerThan(h.cts, t, s)
      <4>1. TXN_ID_START \in Nat /\ h.cts \in Nat /\ s < TXN_ID_START
        BY <1>0, GraphAssumption DEF is_commit_ts
      <4> QED BY <2>1, <4>1 DEF NewerThan, is_commit_ts, is_txn_id
    <3>2. W = n + 1
      BY <1>1, <1>6, <2>1 DEF LeadsBack
    <3>3. VersionImage(h2, d, W) = ImageOf(h)
      BY <1>0, <1>6, <3>2, VersionsPush, HeadIsLast DEF d
    <3> QED BY <1>3, <1>4, <3>1, <3>3 DEF d
  <2>2. CASE ~(h.cts < s)
    <3>1. NewerThan(h.cts, t, s)
      BY <1>0, <1>6, <2>2, IdFacts DEF NewerThan
    <3>2. W = V
      BY <1>1, <1>6, <2>2 DEF LeadsBack
    <3>3. VersionImage(h2, d, W) = VersionImage(h, c, V)
      BY <1>5, <1>6, <3>2, VersionsPush DEF d
    <3> QED BY <1>3, <1>4, <3>1, <3>3 DEF d
  <2> QED BY <2>1, <2>2
<1>7. CASE LeadsNowhere(e, h, c)
  <2>1. n = 0 /\ V = 1 /\ W = 1
    BY <1>1, <1>5, <1>7 DEF LeadsNowhere, Versions
  <2>2. VersionImage(h2, d, 1) = Undone(ImageOf(h2), e)
    <3> DEFINE u == Undone(ImageOf(h2), e)
               i2 == ImageOf(h2)
    <3>0. u \in Image /\ i2 \in Image
      BY <1>0, UndoneTyped
    <3>3. 1 \in 1 .. Len(c) + 1 /\ 1 > Len(c) /\ 1 \in Nat
      BY <2>1
    <3>4. u = Undone(i2, e)
      OBVIOUS
    <3> HIDE DEF u, i2
    <3>1. Replay(i2, d, 1) = Replay(u, c, 1)
      BY <3>0, <3>3, <3>4, ReplayPush DEF d
    <3>2. Replay(u, c, 1) = u
      BY <3>0, <3>3, ReplayHead
    <3> QED BY <3>1, <3>2 DEF VersionImage, u, i2
  <2>3. VersionImage(h2, d, 1).tomb
    BY <1>7, <2>2 DEF LeadsNowhere, Undone
  <2>4. VersionImage(h, c, V) = ImageOf(h)
    <3>1. V = Len(c) + 1
      BY <2>1
    <3> QED BY <3>1, HeadIsLast
  <2>5. ImageOf(h).tomb
    BY <1>7 DEF LeadsNowhere, ImageOf
  <2> QED BY <1>3, <1>4, <2>1, <2>3, <2>4, <2>5 DEF Plain, d
<1> QED BY <1>6, <1>7

-----------------------------------------------------------------------------
(* The committed version below a write.                                      *)

Mine(c, w) == {i \in 1 .. Len(c) : \A j \in i .. Len(c) : c[j].own = w}
Bottom(c, w) == Min({Len(c) + 1} \cup Mine(c, w))

LEMMA BottomTyped ==
  ASSUME NEW c \in Seq(Delta), NEW w
  PROVE  /\ Bottom(c, w) \in Versions(c)
         /\ Bottom(c, w) = Len(c) + 1 \/ Bottom(c, w) \in Mine(c, w)
         /\ \A i \in Mine(c, w) : Bottom(c, w) <= i
<1>1. {Len(c) + 1} \cup Mine(c, w) \in SUBSET Nat /\ Mine(c, w) \subseteq 1 .. Len(c)
  BY DEF Mine
<1>2. /\ Bottom(c, w) \in {Len(c) + 1} \cup Mine(c, w)
      /\ \A y \in {Len(c) + 1} \cup Mine(c, w) : Bottom(c, w) <= y
  BY <1>1, MinExists DEF Bottom
<1> QED BY <1>1, <1>2 DEF Versions

LEMMA BeneathIs ==
  ASSUME NEW r, NEW w
  PROVE  Beneath(r, w) = VersionImage(head[r], chain[r], Bottom(chain[r], w))
BY DEF Beneath, VersionImage, Bottom, Mine

LEMMA BottomPush ==
  ASSUME NEW c \in Seq(Delta), NEW e \in Delta
  PROVE  Bottom(Append(c, e), e.own) = Bottom(c, e.own)
<1> DEFINE n == Len(c)
           d == Append(c, e)
           w == e.own
           A == Bottom(c, w)
           B == Bottom(d, w)
<1>1. /\ n \in Nat /\ Len(d) = n + 1 /\ d[n + 1] = e /\ d \in Seq(Delta)
      /\ \A i \in 1 .. n : d[i] = c[i]
  OBVIOUS
<1>2. /\ A \in 1 .. n + 1 /\ (A = n + 1 \/ A \in Mine(c, w)) /\ \A i \in Mine(c, w) : A <= i
  BY BottomTyped DEF Versions
<1> HIDE DEF d
<1>3. /\ B \in 1 .. n + 2 /\ (B = n + 2 \/ B \in Mine(d, w)) /\ \A i \in Mine(d, w) : B <= i
  <2>1. B \in Versions(d) /\ (B = Len(d) + 1 \/ B \in Mine(d, w)) /\ \A i \in Mine(d, w) : B <= i
    BY <1>1, BottomTyped
  <2> QED BY <1>1, <2>1 DEF Versions
<1>4. n + 1 \in Mine(d, w)
  BY <1>1 DEF Mine
<1>5. ASSUME NEW i \in 1 .. n PROVE i \in Mine(d, w) <=> i \in Mine(c, w)
  <2>1. \A j \in i .. n : d[j] = c[j] /\ j \in i .. n + 1
    BY <1>1
  <2>2. \A j \in i .. n + 1 : j = n + 1 \/ j \in i .. n
    OBVIOUS
  <2> QED BY <1>1, <2>1, <2>2 DEF Mine
<1>6. \A i \in Mine(c, w) : i \in 1 .. n
  BY DEF Mine
<1> HIDE DEF A, B, n
<1>7. B <= A
  BY <1>1, <1>2, <1>3, <1>4, <1>5, <1>6
<1>8. A <= B
  BY <1>1, <1>2, <1>3, <1>4, <1>5
<1>9. A = B
  BY <1>1, <1>2, <1>3, <1>7, <1>8
<1> QED BY <1>9 DEF A, B, d

\* A chain without an entry of w on top.
LEMMA BottomNone ==
  ASSUME NEW c \in Seq(Delta), NEW w, c = <<>> \/ c[Len(c)].own # w
  PROVE  Bottom(c, w) = Len(c) + 1
<1>1. Mine(c, w) = {}
  BY DEF Mine
<1> QED BY <1>1, BottomTyped

\* The walk of a new transaction passes the entries of the writer on top and ends
\* at the first of them.
LEMMA BottomWalk ==
  ASSUME NEW c \in Seq(Delta), NEW w, NEW gone, w \notin gone, NEW s \in Nat,
         c # <<>>, c[Len(c)].own = w,
         \A i \in DOMAIN c : i > 1 => IF c[i].own = c[i - 1].own THEN ~(c[i].ts < s) ELSE c[i].ts < s
  PROVE  Walk(c, gone, Older(c, s)) = Bottom(c, w)
<1> DEFINE n == Len(c)
           B == Bottom(c, w)
           S == Older(c, s)
           W == Walk(c, gone, S)
<1>1. n \in Nat /\ n >= 1 /\ n \in Mine(c, w) /\ DOMAIN c = 1 .. n
  BY DEF Mine
<1>2. /\ B \in 1 .. n + 1 /\ (B = n + 1 \/ B \in Mine(c, w)) /\ \A i \in Mine(c, w) : B <= i
  BY BottomTyped DEF Versions
<1>3. /\ W \in 1 .. n + 1 /\ (W = n + 1 \/ W \in Reach(c, gone, S)) /\ \A i \in Reach(c, gone, S) : W <= i
  BY WalkTyped DEF Versions
<1> HIDE DEF B, W
<1>4. B \in Mine(c, w) /\ B \in 1 .. n
  BY <1>1, <1>2 DEF Mine
<1>5. \A j \in B .. n : c[j].own = w
  BY <1>4 DEF Mine
<1>6. B \in Reach(c, gone, S)
  <2>1. LiveFrom(c, gone, B)
    BY <1>5 DEF LiveFrom
  <2>2. ASSUME NEW j \in (B + 1) .. n PROVE j \notin S
    <3>1. j \in DOMAIN c /\ j > 1 /\ j \in B .. n /\ j - 1 \in B .. n
      BY <1>1, <1>4
    <3>2. c[j].own = c[j - 1].own
      BY <1>5, <3>1
    <3> QED BY <3>1, <3>2 DEF Older
  <2> QED BY <1>4, <2>1, <2>2 DEF Reach, GoingTo
<1>7. ASSUME NEW i \in Reach(c, gone, S), i < B PROVE FALSE
  <2>1. i \in 1 .. n /\ GoingTo(c, S, i)
    BY DEF Reach
  <2>2. B > 1 /\ B - 1 \in 1 .. n
    BY <1>4, <1>7, <2>1
  <2>3. c[B - 1].own # w
    <3> SUFFICES ASSUME c[B - 1].own = w PROVE FALSE
      OBVIOUS
    <3>1. \A j \in (B - 1) .. n : j = B - 1 \/ j \in B .. n
      BY <1>4
    <3>2. B - 1 \in Mine(c, w)
      BY <1>5, <2>2, <3>1 DEF Mine
    <3> QED BY <1>2, <1>4, <3>2
  <2>4. B \in DOMAIN c /\ c[B].own = w
    BY <1>1, <1>4, <1>5
  <2>5. B \in S
    BY <2>2, <2>3, <2>4 DEF Older
  <2>6. B \in (i + 1) .. n
    BY <1>4, <1>7, <2>1
  <2> QED BY <2>1, <2>5, <2>6 DEF GoingTo
<1>8. W = B
  <2>1. W <= B
    BY <1>3, <1>6
  <2>2. W \in Reach(c, gone, S)
    BY <1>3, <1>4, <2>1
  <2>3. ~(W < B)
    BY <1>7, <2>2
  <2> QED BY <1>3, <1>4, <2>1, <2>3
<1> QED BY <1>8 DEF B, W

-----------------------------------------------------------------------------
(* What holds in every state.                                                *)

SInv == CarefulClients /\ LInv /\ ReadsInv /\ VInv

LEMMA StateFacts ==
  ASSUME SInv
  PROVE  /\ TypeOK /\ IInv /\ Strategies /\ ClockBound /\ GuardsOld /\ CreateOpen /\ Validated
         /\ KeptCommitted /\ Absent /\ Held /\ Marked /\ ChainsOrdered /\ SavedOrdered /\ Superseded
         /\ Succeeds /\ Targeted /\ Applying
         /\ \A r \in Records : RecordOK(r)
         /\ \A t \in Txns : TxnOK(t) /\ InOrderFor(t)
BY DEF SInv, LInv, Stages, Locks, TInv, VInv, ReadsInv

\* A commit timestamp that records carry is not the start of a transaction, nor
\* the timestamp of a commit that has not come to its records.
LEMMA OriginFacts ==
  ASSUME SInv, NEW ts \in Nat, Origin(ts)
  PROVE  /\ ts < clock
         /\ \A u \in Started : ts # start[u]
         /\ \A t \in Txns : pc[t] \in {"commit", "apply"} => ts # cts[t]
<1>1. /\ IInv /\ ClockBound /\ \A t \in Txns : Timed(t) /\ InOrderFor(t)
  BY StateFacts DEF TxnOK
<1>2. clock \in Nat /\ clock >= 3 /\ \A t \in Txns : cts[t] \in Nat /\ start[t] \in Nat /\ cts[t] < clock
  <2>1. Started \in SUBSET Txns /\ Stamped \in SUBSET Txns
    BY DEF Started, Stamped
  <2>2. clock >= 3 /\ clock \in Nat
    BY <1>1, <2>1, TxnsFinite DEF ClockBound
  <2> QED BY <1>1, <2>2, ClockFacts DEF IInv, Drawn
<1>3. ASSUME NEW w \in Txns, Past(w)
      PROVE  cts[w] # 0 /\ \A u \in Txns : cts[w] # start[u]
  <2>1. start[w] < cts[w]
    BY <1>1, <1>3 DEF ClockBound, Past
  <2>2. cts[w] # 0
    BY <1>2, <2>1
  <2> QED BY <1>1, <2>2 DEF ClockBound
<1>4. \A u \in Started : u \in Txns /\ start[u] >= 3
  BY <1>1 DEF Started, Timed
<1>5. ASSUME NEW t \in Txns, pc[t] \in {"commit", "apply"} PROVE ts # cts[t]
  <2>1. start[t] >= 3 /\ start[t] < cts[t]
    BY <1>1, <1>4, <1>5 DEF Started, ClockBound
  <2>2. CASE ts \in {0, 2}
    BY <1>2, <2>1, <2>2
  <2>3. ASSUME NEW w \in Txns, Past(w), ts = cts[w] PROVE ts # cts[t]
    <3>1. CASE pc[w] = "committed"
      <4>1. cts[w] < cts[t]
        BY <1>1, <1>5, <3>1 DEF InOrderFor
      <4> QED BY <1>2, <2>3, <4>1
    <3>2. CASE pc[w] = "promote"
      <4>1. InCall(w) /\ InCall(t)
        BY <1>5, <3>2 DEF InCall
      <4> QED BY <1>1, <1>5, <3>2, <4>1 DEF IInv, OneCall
    <3> QED BY <2>3, <3>1, <3>2 DEF Past
  <2> QED BY <2>2, <2>3 DEF Origin
<1>6. ts < clock
  BY <1>2 DEF Origin
<1>7. \A u \in Started : ts # start[u]
  <2> SUFFICES ASSUME NEW u \in Started PROVE ts # start[u]
    OBVIOUS
  <2>1. CASE ts \in {0, 2}
    BY <1>2, <1>4, <2>1
  <2>2. CASE \E w \in Txns : Past(w) /\ ts = cts[w]
    BY <1>3, <1>4, <2>2
  <2> QED BY <2>1, <2>2 DEF Origin
<1> QED BY <1>5, <1>6, <1>7

\* The head as the last version.
LEMMA HeadDated ==
  ASSUME SInv, NEW r \in Records, is_commit_ts(head[r].cts)
  PROVE  /\ Origin(head[r].cts)
         /\ ~head[r].tomb => \A p \in Props : Clean(head[r].props[p], head[r].cts)
<1>1. head[r] \in Version /\ chain[r] \in Seq(Delta) /\ Dated(r)
  BY StateFacts, HeadFacts DEF RecordOK
<1> DEFINE k == Len(chain[r]) + 1
<1>2. /\ VersionImage(head[r], chain[r], k) = ImageOf(head[r])
      /\ VersionTs(head[r], chain[r], k) = head[r].cts
      /\ k \in Versions(chain[r])
  BY <1>1, HeadIsLast
<1>3. ImageOf(head[r]).tomb = head[r].tomb /\ ImageOf(head[r]).props = head[r].props
  BY DEF ImageOf
<1> HIDE DEF k
<1>4. /\ Origin(head[r].cts)
      /\ ~ImageOf(head[r]).tomb => \A p \in Props : Clean(ImageOf(head[r]).props[p], head[r].cts)
  BY <1>1, <1>2 DEF Dated
<1> QED BY <1>3, <1>4

LEMMA DeltaFacts ==
  ASSUME NEW c \in Seq(Delta)
  PROVE  \A i \in DOMAIN c : c[i] \in Delta /\ c[i].own \in Txns /\ c[i].ts \in Nat
<1> SUFFICES ASSUME NEW i \in DOMAIN c PROVE c[i] \in Delta /\ c[i].own \in Txns /\ c[i].ts \in Nat
  OBVIOUS
<1>1. c[i] \in Delta
  OBVIOUS
<1> QED BY <1>1 DEF Delta, Ts

LEMMA CleanUp ==
  ASSUME SInv, NEW w, NEW a \in Nat, NEW b \in Nat, a <= b, Clean(w, a)
  PROVE  Clean(w, b)
<1>1. \A u \in Txns : cts[u] \in Nat
  BY StateFacts, ClockFacts
<1> QED BY <1>1 DEF Clean

-----------------------------------------------------------------------------
(* What a step does to a record.                                             *)

\* Commits stay commits.
Grows == \A w \in Txns : Past(w) => Past(w)' /\ cts'[w] = cts[w]

\* The owners of the entries of record r, and the writer of its head, go on.
KeepsOwners(r) ==
    \A w \in Txns :
        /\ pc[w] = "committed" /\ Retained(w) =>
              pc'[w] = "committed" /\ Retained(w)' /\ cts'[w] = cts[w]
        /\ pc[w] = "promote" /\ head[r].cts = cts[w] =>
              cts'[w] = cts[w] /\ (pc'[w] = "promote" \/ (pc'[w] = "committed" /\ Retained(w)'))
KeepsWriter(r) ==
    \A u \in Txns : head[r].cts = TxnId(u) => start'[u] = start[u] /\ (Busy(u, r)' <=> Busy(u, r))

LEMMA CleanGrows ==
  ASSUME Grows
  PROVE  /\ \A w, ts : Clean(w, ts) => Clean(w, ts)'
         /\ \A ts : Origin(ts) => Origin(ts)'
BY DEF Grows, Clean, Origin

LEMMA RecordKept ==
  ASSUME SInv, NEW r \in Records, Grows, head'[r] = head[r], chain'[r] = chain[r],
         KeepsOwners(r), KeepsWriter(r)
  PROVE  RecordOK(r)'
<1>1. chain[r] \in Seq(Delta) /\ RecordOK(r)
  BY StateFacts, HeadFacts
<1>2. \A i \in DOMAIN chain[r] : chain[r][i].own \in Txns
  BY <1>1, DeltaFacts
<1>3. Dated(r)'
  BY <1>1, CleanGrows DEF RecordOK, Dated
<1>4. MarkedClean(r)'
  BY <1>1, CleanGrows DEF RecordOK, MarkedClean, KeepsWriter
<1>5. Based(r)'
  BY <1>1 DEF RecordOK, Based
<1>6. Owned(r)'
  <2> SUFFICES ASSUME NEW i \in DOMAIN chain[r] PROVE OwnedBy(chain[r][i].own, r, i)'
    BY DEF Owned
  <2>1. PICK w \in Txns : w = chain[r][i].own /\ w = chain'[r][i].own
    BY <1>2
  <2>2. OwnedBy(w, r, i)
    BY <1>1, <2>1 DEF RecordOK, Owned
  <2>3. OwnedBy(w, r, i)'
    BY <2>2 DEF OwnedBy, KeepsOwners, KeepsWriter
  <2> QED BY <2>1, <2>3
<1>7. Runs(r)'
  BY <1>1 DEF RecordOK, Runs
<1>8. Topped(r)'
  BY <1>1 DEF RecordOK, Topped, KeepsWriter
<1>9. Known(r)'
  BY <1>1 DEF RecordOK, Known
<1> QED BY <1>3, <1>4, <1>5, <1>6, <1>7, <1>8, <1>9 DEF RecordOK

-----------------------------------------------------------------------------
(* A write.                                                                  *)

\* t pushes entry e on record r, which it may write, and sets the head to a version
\* that e leads back from.
Pushed(t, r, e) ==
    /\ e.own = t /\ WriteBase(t, r, e.ts)
    /\ chain'[r] = Append(chain[r], e)
    /\ head'[r] \in Version /\ head'[r].cts = TxnId(t)
    /\ IF r \in present THEN LeadsBack(head'[r], e, head[r]) ELSE LeadsNowhere(e, head[r], chain[r])
    /\ ~head'[r].tomb => \A p \in Props : head'[r].props[p] = t \/ Clean(head'[r].props[p], start[t])
PushStep(t, x, r, e) ==
    /\ Turn(t) /\ pc[t] \in Writing /\ x \in Writing \cup {"promote"}
    /\ pc' = [pc EXCEPT ![t] = x]
    /\ Pushed(t, r, e)
    /\ present' = present \cup {r}
    /\ undo' = [undo EXCEPT ![t] = Append(@, UndoRecord(r, e, chain[r]))]
    /\ \A y \in Records : y # r => head'[y] = head[y] /\ chain'[y] = chain[y]
    /\ UNCHANGED <<start, cts, wset, pos, kept, active, watermark, wrote>>
    /\ \A u \in Txns : u # t => left'[u] = left[u] /\ calls'[u] = calls[u] /\ target'[u] = target[u]

LEMMA PushPlaces ==
  ASSUME SInv, NEW t \in Txns, NEW x, NEW r \in Records, NEW e \in Delta, PushStep(t, x, r, e)
  PROVE  /\ pc'[t] = x
         /\ \A u \in Txns : u # t => pc'[u] = pc[u] /\ pc[u] \in {"new", "run", "committed", "aborted"}
         /\ Grows
<1>1. TypeOK /\ IInv
  BY StateFacts
<1>2. pc'[t] = x /\ \A u \in Txns : u # t => pc'[u] = pc[u]
  BY <1>1 DEF TypeOK, PushStep
<1>3. \A u \in Txns : u # t => pc[u] \in {"new", "run", "committed", "aborted"}
  BY <1>1, OthersWait DEF PushStep
<1>4. ~Past(t)
  BY DEF PushStep, Past, Writing
<1>5. Grows
  BY <1>2, <1>4 DEF Grows, Past, PushStep
<1> QED BY <1>2, <1>3, <1>5

\* The writer of the head before, and what t's entries on top of the chain mean.
LEMMA PushBase ==
  ASSUME SInv, NEW t \in Txns, NEW x, NEW r \in Records, NEW e \in Delta, PushStep(t, x, r, e)
  PROVE  /\ e.ts = TxnId(t) \/ is_commit_ts(e.ts)
         /\ r \in present => e.ts = head[r].cts
         /\ r \notin present => head[r] = NoHead /\ chain[r] = <<>> /\ e.ts \in {0, TxnId(t)}
         /\ \A i \in DOMAIN chain[r] : chain[r][i].own = t => r \in present /\ head[r].cts = TxnId(t)
         /\ chain[r] # <<>> /\ e.ts = TxnId(t) => chain[r][Len(chain[r])].own = t
<1>1. TypeOK /\ Absent /\ RecordOK(r) /\ chain[r] \in Seq(Delta) /\ head[r].cts \in Nat
  BY StateFacts, HeadFacts
<1>2. pc[t] \in Writing /\ WriteBase(t, r, e.ts) /\ pc[t] \notin {"committed", "promote", "abort"}
  BY DEF PushStep, Pushed, Writing
<1>3. CASE r \in present
  <2>1. check_write_conflict(head[r].cts, t, start[t]) /\ e.ts = head[r].cts
    BY <1>2, <1>3 DEF WriteBase
  <2>2. e.ts = TxnId(t) \/ is_commit_ts(e.ts)
    BY <1>1, <2>1, IdFacts DEF check_write_conflict
  <2>3. \A i \in DOMAIN chain[r] : chain[r][i].own = t => head[r].cts = TxnId(t)
    <3> SUFFICES ASSUME NEW i \in DOMAIN chain[r], chain[r][i].own = t PROVE head[r].cts = TxnId(t)
      OBVIOUS
    <3>1. OwnedBy(t, r, i)
      BY <1>1 DEF RecordOK, Owned
    <3> QED BY <1>2, <3>1 DEF OwnedBy
  <2>4. chain[r] # <<>> /\ e.ts = TxnId(t) => chain[r][Len(chain[r])].own = t
    <3>1. Busy(t, r)
      BY <1>2 DEF Busy
    <3> QED BY <1>1, <2>1, <3>1 DEF RecordOK, Topped
  <2> QED BY <1>3, <2>1, <2>2, <2>3, <2>4
<1>4. CASE r \notin present
  <2>1. head[r] = NoHead /\ chain[r] = <<>>
    BY <1>1, <1>4 DEF Absent
  <2>2. e.ts \in {0, TxnId(t)}
    BY <1>2, <1>4 DEF WriteBase
  <2>3. DOMAIN chain[r] = {}
    BY <2>1
  <2> QED BY <1>4, <2>1, <2>2, <2>3, IdFacts
<1> QED BY <1>3, <1>4

\* The versions after a write: those before it, as they were, and the new head.
LEMMA PushVersions ==
  ASSUME SInv, NEW t \in Txns, NEW x, NEW r \in Records, NEW e \in Delta, PushStep(t, x, r, e)
  PROVE  /\ \A k \in Versions(chain'[r]) :
               \/ /\ r \in present /\ k \in Versions(chain[r])
                  /\ VersionTs(head'[r], chain'[r], k) = VersionTs(head[r], chain[r], k)
                  /\ VersionImage(head'[r], chain'[r], k) = VersionImage(head[r], chain[r], k)
               \/ VersionTs(head'[r], chain'[r], k) = TxnId(t)
               \/ /\ r \notin present /\ VersionTs(head'[r], chain'[r], k) \in {0, TxnId(t)}
                  /\ VersionImage(head'[r], chain'[r], k).tomb
         /\ \/ r \in present /\ VersionTs(head'[r], chain'[r], 1) = VersionTs(head[r], chain[r], 1)
               /\ VersionImage(head'[r], chain'[r], 1) = VersionImage(head[r], chain[r], 1)
            \/ VersionImage(head'[r], chain'[r], 1).tomb
<1> DEFINE h == head[r]
           h2 == head'[r]
           c == chain[r]
           d == chain'[r]
<1>1. h \in Version /\ c \in Seq(Delta) /\ Len(c) \in Nat
  BY StateFacts, HeadFacts
<1>2. h2 \in Version /\ h2.cts = TxnId(t) /\ d = Append(c, e)
  BY DEF PushStep, Pushed
<1>3. IF r \in present THEN LeadsBack(h2, e, h) ELSE LeadsNowhere(e, h, c)
  BY DEF PushStep, Pushed
<1>4. r \notin present => e.ts \in {0, TxnId(t)}
  BY PushBase
<1> HIDE DEF h, h2, c, d
<1>5. CASE r \in present
  <2>1. LeadsBack(h2, e, h)
    BY <1>3, <1>5
  <2>2. /\ \A k \in Versions(c) : /\ VersionTs(h2, d, k) = VersionTs(h, c, k)
                                  /\ VersionImage(h2, d, k) = VersionImage(h, c, k)
        /\ \A k \in Versions(d) : k \in Versions(c) \/ k = Len(c) + 2
        /\ VersionTs(h2, d, Len(c) + 2) = h2.cts
    BY <1>1, <1>2, <2>1, VersionsPush
  <2>3. 1 \in Versions(c)
    BY <1>1, HeadIsLast
  <2> QED BY <1>2, <1>5, <2>2, <2>3 DEF h, h2, c, d
<1>6. CASE r \notin present
  <2>1. c = <<>> /\ e.op = "Del" /\ e.img.tomb
    BY <1>3, <1>6 DEF LeadsNowhere
  <2>2. Len(c) = 0 /\ Len(d) = 1 /\ d[1] = e
    BY <1>1, <1>2, <2>1
  <2>3. \A k \in Versions(d) : k = 1 \/ k = 2
    BY <2>2 DEF Versions
  <2>4. VersionTs(h2, d, 1) = e.ts /\ VersionTs(h2, d, 2) = h2.cts
    BY <2>2 DEF VersionTs
  <2>5. VersionImage(h2, d, 1).tomb
    <3> DEFINE i2 == ImageOf(h2)
               u == Undone(i2, e)
    <3>1. i2 \in Image
      BY <1>2, VersionTyped
    <3>2. u \in Image
      BY <3>1, UndoneTyped
    <3>3. u.tomb
      BY <2>1 DEF Undone
    <3>4. 1 \in 1 .. Len(c) + 1 /\ 1 > Len(c) /\ 1 \in Nat
      BY <2>2
    <3> HIDE DEF i2
    <3>5. Replay(i2, d, 1) = Replay(u, c, 1)
      BY <1>1, <1>2, <3>1, <3>4, ReplayPush
    <3> HIDE DEF u
    <3>6. Replay(u, c, 1) = u
      BY <1>1, <3>2, <3>4, ReplayHead
    <3> QED BY <3>3, <3>5, <3>6 DEF VersionImage, i2
  <2> QED BY <1>2, <1>4, <1>6, <2>3, <2>4, <2>5 DEF h, h2, c, d
<1> QED BY <1>5, <1>6

LEMMA RecordPushed ==
  ASSUME SInv, NEW t \in Txns, NEW x, NEW r \in Records, NEW e \in Delta, PushStep(t, x, r, e)
  PROVE  RecordOK(r)'
<1>1. TypeOK /\ RecordOK(r) /\ chain[r] \in Seq(Delta) /\ head[r].cts \in Nat /\ e.ts \in Nat
  BY StateFacts, HeadFacts DEF Delta, Ts
<1>2. /\ pc'[t] = x /\ Grows
      /\ \A u \in Txns : u # t => pc'[u] = pc[u] /\ pc[u] \in {"new", "run", "committed", "aborted"}
  BY PushPlaces
<1>3. /\ pc[t] \in Writing /\ pc[t] \notin {"committed", "promote", "abort"}
      /\ x \in Writing \cup {"promote"} /\ e.own = t
      /\ start' = start /\ cts' = cts /\ pos' = pos /\ kept' = kept /\ watermark' = watermark
      /\ chain'[r] = Append(chain[r], e) /\ head'[r].cts = TxnId(t)
  BY DEF PushStep, Pushed, Writing
<1>4. /\ e.ts = TxnId(t) \/ is_commit_ts(e.ts)
      /\ r \in present => e.ts = head[r].cts
      /\ r \notin present => head[r] = NoHead /\ chain[r] = <<>> /\ e.ts \in {0, TxnId(t)}
      /\ \A i \in DOMAIN chain[r] : chain[r][i].own = t => r \in present /\ head[r].cts = TxnId(t)
      /\ chain[r] # <<>> /\ e.ts = TxnId(t) => chain[r][Len(chain[r])].own = t
  BY PushBase
<1> DEFINE n == Len(chain[r])
           d == chain'[r]
<1>5. /\ n \in Nat /\ DOMAIN chain[r] = 1 .. n /\ DOMAIN d = 1 .. n + 1 /\ Len(d) = n + 1
      /\ d[n + 1] = e /\ d \in Seq(Delta) /\ d # <<>>
      /\ \A i \in 1 .. n : d[i] = chain[r][i]
  BY <1>1, <1>3
<1>6. \A u \in Txns : TxnId(t) = TxnId(u) => u = t
  BY IdFacts
<1>7. ~is_commit_ts(TxnId(t)) /\ is_commit_ts(0)
  BY IdFacts
<1>8. Busy(t, r)'
  BY <1>2, <1>3 DEF Busy
<1>9. Dated(r)'
  <2> SUFFICES ASSUME NEW k \in Versions(chain'[r]), is_commit_ts(VersionTs(head'[r], chain'[r], k))
               PROVE  (/\ Origin(VersionTs(head[r], chain[r], k))
                       /\ ~VersionImage(head[r], chain[r], k).tomb =>
                             \A p \in Props : Clean(VersionImage(head[r], chain[r], k).props[p],
                                                    VersionTs(head[r], chain[r], k)))'
    BY DEF Dated
  <2>1. \/ /\ k \in Versions(chain[r])
           /\ VersionTs(head'[r], chain'[r], k) = VersionTs(head[r], chain[r], k)
           /\ VersionImage(head'[r], chain'[r], k) = VersionImage(head[r], chain[r], k)
        \/ /\ VersionTs(head'[r], chain'[r], k) = 0
           /\ VersionImage(head'[r], chain'[r], k).tomb
    BY <1>7, PushVersions
  <2>2. CASE /\ k \in Versions(chain[r])
             /\ VersionTs(head'[r], chain'[r], k) = VersionTs(head[r], chain[r], k)
             /\ VersionImage(head'[r], chain'[r], k) = VersionImage(head[r], chain[r], k)
    <3>1. PICK ts : ts = VersionTs(head[r], chain[r], k)
      OBVIOUS
    <3>2. PICK img : img = VersionImage(head[r], chain[r], k)
      OBVIOUS
    <3>3. is_commit_ts(ts) /\ ts = VersionTs(head'[r], chain'[r], k) /\ img = VersionImage(head'[r], chain'[r], k)
      BY <2>2, <3>1, <3>2
    <3>4. Origin(ts) /\ (~img.tomb => \A p \in Props : Clean(img.props[p], ts))
      BY <1>1, <2>2, <3>1, <3>2, <3>3 DEF RecordOK, Dated
    <3>5. Origin(ts)' /\ (~img.tomb => \A p \in Props : Clean(img.props[p], ts)')
      BY <1>2, <3>4, CleanGrows
    <3> QED BY <3>3, <3>5
  <2>3. CASE VersionTs(head'[r], chain'[r], k) = 0 /\ VersionImage(head'[r], chain'[r], k).tomb
    BY <2>3 DEF Origin
  <2> QED BY <2>1, <2>2, <2>3
<1>10. MarkedClean(r)'
  <2> SUFFICES ASSUME NEW u \in Txns, head'[r].cts = TxnId(u), ~head'[r].tomb, NEW p \in Props
               PROVE  (head[r].props[p] = u \/ Clean(head[r].props[p], start[u]))'
    BY DEF MarkedClean
  <2>1. u = t
    BY <1>3, <1>6
  <2>2. PICK v : v = head'[r].props[p]
    OBVIOUS
  <2>3. v = t \/ Clean(v, start[t])
    BY <2>2 DEF PushStep, Pushed
  <2>4. v = t \/ Clean(v, start[t])'
    <3>1. PICK s : s = start[t] /\ s = start'[t]
      BY <1>3
    <3>2. v = t \/ Clean(v, s)
      BY <2>3, <3>1
    <3>3. v = t \/ Clean(v, s)'
      BY <1>2, <3>2, CleanGrows
    <3> QED BY <3>1, <3>3
  <2> QED BY <2>1, <2>2, <2>4
<1>11. Based(r)'
  <2>1. \/ VersionTs(head'[r], chain'[r], 1) = VersionTs(head[r], chain[r], 1)
           /\ VersionImage(head'[r], chain'[r], 1) = VersionImage(head[r], chain[r], 1)
        \/ VersionImage(head'[r], chain'[r], 1).tomb
    BY PushVersions
  <2> QED BY <1>1, <2>1 DEF RecordOK, Based
<1>12. Owned(r)'
  <2> SUFFICES ASSUME NEW i \in DOMAIN d PROVE OwnedBy(chain[r][i].own, r, i)'
    BY DEF Owned
  <2>1. CASE i = n + 1
    <3>1. OwnedBy(t, r, i)'
      BY <1>3, <1>8 DEF OwnedBy
    <3> QED BY <1>3, <1>5, <2>1, <3>1
  <2>2. CASE i \in 1 .. n
    <3>1. PICK w \in Txns : w = chain[r][i].own /\ w = d[i].own
      BY <1>1, <1>5, <2>2, DeltaFacts
    <3>2. OwnedBy(w, r, i) /\ i \in DOMAIN chain[r]
      BY <1>1, <1>5, <2>2, <3>1 DEF RecordOK, Owned
    <3>3. r \in present
      BY <1>4, <3>2
    <3>4. CASE w = t
      <4>1. OwnedBy(t, r, i)'
        BY <1>3, <1>8 DEF OwnedBy
      <4> QED BY <3>1, <3>4, <4>1
    <3>5. CASE w # t
      <4>1. pc[w] # "promote" /\ pc'[w] = pc[w]
        BY <1>2, <3>5
      <4>2. head[r].cts # TxnId(w)
        <5>1. TxnId(w) # TxnId(t) /\ ~is_commit_ts(TxnId(w))
          BY <3>5, IdFacts
        <5> QED BY <1>4, <3>3, <5>1
      <4>3. /\ pc[w] = "committed" /\ Retained(w)
            /\ head[r].cts = cts[w] \/ \E j \in DOMAIN chain[r] : j > i /\ chain[r][j].ts = cts[w]
        BY <3>2, <4>1, <4>2 DEF OwnedBy
      <4>4. \E j \in DOMAIN d : j > i /\ d[j].ts = cts[w]
        <5>1. CASE head[r].cts = cts[w]
          <6>1. n + 1 \in DOMAIN d /\ n + 1 > i /\ d[n + 1].ts = cts[w]
            BY <1>4, <1>5, <2>2, <3>3, <5>1
          <6> QED BY <6>1
        <5>2. ASSUME NEW j \in DOMAIN chain[r], j > i, chain[r][j].ts = cts[w]
              PROVE  \E jj \in DOMAIN d : jj > i /\ d[jj].ts = cts[w]
          <6>1. j \in DOMAIN d /\ d[j] = chain[r][j]
            BY <1>5
          <6> QED BY <5>2, <6>1
        <5> QED BY <4>3, <5>1, <5>2
      <4>5. Retained(w)' /\ pc'[w] = "committed" /\ cts'[w] = cts[w]
        BY <1>3, <4>1, <4>3 DEF Retained
      <4>6. OwnedBy(w, r, i)'
        BY <4>4, <4>5 DEF OwnedBy
      <4> QED BY <3>1, <4>6
    <3> QED BY <3>4, <3>5
  <2> QED BY <1>5, <2>1, <2>2
<1>13. Runs(r)'
  <2> SUFFICES ASSUME NEW i \in DOMAIN d, i > 1
               PROVE  IF d[i].own = d[i - 1].own THEN d[i].ts = TxnId(d[i].own) ELSE is_commit_ts(d[i].ts)
    BY DEF Runs
  <2>1. CASE i \in 1 .. n
    <3>1. i - 1 \in 1 .. n /\ i \in DOMAIN chain[r] /\ d[i] = chain[r][i] /\ d[i - 1] = chain[r][i - 1]
      BY <1>5, <2>1
    <3> QED BY <1>1, <3>1 DEF RecordOK, Runs
  <2>2. CASE i = n + 1
    <3>1. /\ i - 1 = n /\ n \in DOMAIN chain[r] /\ d[i] = e /\ d[i - 1] = chain[r][n] /\ chain[r] # <<>>
      BY <1>5, <2>2
    <3>2. CASE chain[r][n].own = t
      BY <1>3, <1>4, <3>1, <3>2
    <3>3. CASE chain[r][n].own # t
      <4>1. is_commit_ts(e.ts)
        BY <1>4, <3>1, <3>3
      <4> QED BY <1>3, <3>1, <3>3, <4>1
    <3> QED BY <3>2, <3>3
  <2>3. i \in 1 .. n \/ i = n + 1
    BY <1>5
  <2> QED BY <2>1, <2>2, <2>3
<1>14. Topped(r)'
  <2> SUFFICES ASSUME NEW u \in Txns, head'[r].cts = TxnId(u)
               PROVE  Busy(u, r)' /\ chain'[r] # <<>> /\ chain'[r][Len(chain'[r])].own = u
    BY DEF Topped
  <2>1. u = t
    BY <1>3, <1>6
  <2>2. d[Len(d)].own = t
    BY <1>3, <1>5
  <2> QED BY <1>5, <1>8, <2>1, <2>2
<1>15. Known(r)'
  BY <1>3 DEF Known
<1> QED BY <1>9, <1>10, <1>11, <1>12, <1>13, <1>14, <1>15 DEF RecordOK

-----------------------------------------------------------------------------
(* A commit gives a record its timestamp.                                    *)

PromoteStep(t, r) ==
    /\ Turn(t) /\ pc[t] = "promote" /\ pc' = pc
    /\ \/ head[r].cts = TxnId(t) /\ head' = [head EXCEPT ![r].cts = cts[t]]
       \/ head' = head
    /\ UNCHANGED <<present, chain, undo, start, cts, wset, calls, target, kept, active, watermark, wrote>>
    /\ \A u \in Txns : u # t => left'[u] = left[u] /\ pos'[u] = pos[u]

\* Only the timestamp of the last version changes.
LEMMA PromoteVersions ==
  ASSUME SInv, NEW t \in Txns, NEW r \in Records, PromoteStep(t, r), head[r].cts = TxnId(t),
         head' = [head EXCEPT ![r].cts = cts[t]]
  PROVE  /\ head'[r] \in Version /\ head'[r].cts = cts[t] /\ ImageOf(head'[r]) = ImageOf(head[r])
         /\ \A y \in Records : y # r => head'[y] = head[y]
         /\ \A k \in Versions(chain[r]) :
               /\ VersionImage(head'[r], chain[r], k) = VersionImage(head[r], chain[r], k)
               /\ \/ k \in DOMAIN chain[r] /\ VersionTs(head'[r], chain[r], k) = VersionTs(head[r], chain[r], k)
                  \/ VersionTs(head'[r], chain[r], k) = cts[t] /\ VersionTs(head[r], chain[r], k) = TxnId(t)
<1>1. TypeOK /\ head[r] \in Version /\ chain[r] \in Seq(Delta) /\ cts[t] \in Nat
  BY StateFacts, HeadFacts, ClockFacts
<1>2. head'[r] = [head[r] EXCEPT !.cts = cts[t]] /\ \A y \in Records : y # r => head'[y] = head[y]
  BY <1>1 DEF TypeOK
<1>3. head'[r] \in Version /\ head'[r].cts = cts[t] /\ head'[r].props = head[r].props /\ head'[r].tomb = head[r].tomb
  BY <1>1, <1>2 DEF Version, Ts
<1>4. ImageOf(head'[r]) = ImageOf(head[r])
  BY <1>3 DEF ImageOf
<1>5. \A k \in Versions(chain[r]) : VersionImage(head'[r], chain[r], k) = VersionImage(head[r], chain[r], k)
  BY <1>4 DEF VersionImage
<1>6. \A k \in Versions(chain[r]) :
         \/ k \in DOMAIN chain[r] /\ VersionTs(head'[r], chain[r], k) = VersionTs(head[r], chain[r], k)
         \/ VersionTs(head'[r], chain[r], k) = cts[t] /\ VersionTs(head[r], chain[r], k) = TxnId(t)
  BY <1>1, <1>3 DEF VersionTs, Versions
<1> QED BY <1>2, <1>3, <1>4, <1>5, <1>6

LEMMA RecordPromoted ==
  ASSUME SInv, NEW t \in Txns, NEW r \in Records, PromoteStep(t, r), head[r].cts = TxnId(t),
         head' = [head EXCEPT ![r].cts = cts[t]]
  PROVE  RecordOK(r)'
<1>1. /\ TypeOK /\ RecordOK(r) /\ head[r] \in Version /\ chain[r] \in Seq(Delta) /\ cts[t] \in Nat /\ start[t] \in Nat
      /\ is_commit_ts(cts[t]) /\ start[t] < cts[t]
  BY StateFacts, HeadFacts, ClockFacts DEF PromoteStep, ClockBound
<1>2. /\ pc' = pc /\ start' = start /\ cts' = cts /\ kept' = kept /\ watermark' = watermark
      /\ undo' = undo /\ chain' = chain /\ pc[t] = "promote"
  BY DEF PromoteStep
<1>3. /\ head'[r].cts = cts[t] /\ ImageOf(head'[r]) = ImageOf(head[r])
      /\ \A k \in Versions(chain[r]) :
           /\ VersionImage(head'[r], chain[r], k) = VersionImage(head[r], chain[r], k)
           /\ \/ k \in DOMAIN chain[r] /\ VersionTs(head'[r], chain[r], k) = VersionTs(head[r], chain[r], k)
              \/ VersionTs(head'[r], chain[r], k) = cts[t] /\ VersionTs(head[r], chain[r], k) = TxnId(t)
  BY PromoteVersions
<1>4. Grows /\ Past(t)'
  BY <1>2 DEF Grows, Past
<1>5. \A u \in Txns : cts[t] # TxnId(u)
  BY <1>1, IdFacts
<1>6. Busy(t, r) /\ chain[r] # <<>> /\ chain[r][Len(chain[r])].own = t
  <2>1. Busy(t, r)
    BY <1>2 DEF Busy
  <2> QED BY <1>1, <2>1 DEF RecordOK, Topped
<1>7. Dated(r)'
  <2> SUFFICES ASSUME NEW k \in Versions(chain[r]), is_commit_ts(VersionTs(head'[r], chain'[r], k))
               PROVE  (/\ Origin(VersionTs(head[r], chain[r], k))
                       /\ ~VersionImage(head[r], chain[r], k).tomb =>
                             \A p \in Props : Clean(VersionImage(head[r], chain[r], k).props[p],
                                                    VersionTs(head[r], chain[r], k)))'
    BY <1>2 DEF Dated
  <2>1. PICK img : img = VersionImage(head[r], chain[r], k) /\ img = VersionImage(head'[r], chain'[r], k)
    BY <1>2, <1>3
  <2>2. PICK ts : ts = VersionTs(head'[r], chain'[r], k)
    OBVIOUS
  <2>3. Origin(ts)' /\ (~img.tomb => \A p \in Props : Clean(img.props[p], ts)')
    <3>1. CASE ts = VersionTs(head[r], chain[r], k)
      <4>1. Origin(ts) /\ (~img.tomb => \A p \in Props : Clean(img.props[p], ts))
        BY <1>1, <2>1, <2>2, <3>1 DEF RecordOK, Dated
      <4> QED BY <1>4, <4>1, CleanGrows
    <3>2. CASE ts = cts[t] /\ VersionTs(head[r], chain[r], k) = TxnId(t) /\ k \notin DOMAIN chain[r]
      <4>1. Origin(ts)'
        BY <1>2, <1>4, <3>2 DEF Origin
      <4>2. k = Len(chain[r]) + 1
        BY <1>1, <3>2 DEF Versions
      <4>3. img = ImageOf(head[r])
        BY <1>1, <2>1, <4>2, HeadIsLast
      <4>4. ASSUME ~img.tomb, NEW p \in Props PROVE Clean(img.props[p], ts)'
        <5>1. ~head[r].tomb /\ img.props = head[r].props
          BY <4>3, <4>4 DEF ImageOf
        <5>2. PICK v : v = img.props[p]
          OBVIOUS
        <5>3. v = t \/ Clean(v, start[t])
          BY <1>1, <5>1, <5>2 DEF RecordOK, MarkedClean
        <5>4. v = t \/ Clean(v, cts[t])
          BY <1>1, <5>3, CleanUp
        <5>5. Clean(v, ts)
          BY <1>1, <1>2, <3>2, <5>4 DEF Clean, Past
        <5> QED BY <1>4, <5>2, <5>5, CleanGrows
      <4> QED BY <4>1, <4>4
    <3>3. \/ ts = VersionTs(head[r], chain[r], k)
          \/ ts = cts[t] /\ VersionTs(head[r], chain[r], k) = TxnId(t)
      BY <1>2, <1>3, <2>2
    <3>4. k \in DOMAIN chain[r] => ts = VersionTs(head[r], chain[r], k)
      BY <1>1, <1>2, <2>2 DEF VersionTs
    <3> QED BY <3>1, <3>2, <3>3, <3>4
  <2> QED BY <2>1, <2>2, <2>3
<1>8. MarkedClean(r)'
  BY <1>3, <1>5 DEF MarkedClean
<1>9. Based(r)'
  <2>1. 1 \in Versions(chain[r]) /\ 1 \in DOMAIN chain[r]
    BY <1>1, <1>6 DEF Versions
  <2>2. VersionTs(head'[r], chain[r], 1) = VersionTs(head[r], chain[r], 1)
    BY <1>1, <2>1 DEF VersionTs
  <2> QED BY <1>1, <1>2, <1>3, <2>1, <2>2 DEF RecordOK, Based
<1>10. Owned(r)'
  <2> SUFFICES ASSUME NEW i \in DOMAIN chain[r] PROVE OwnedBy(chain[r][i].own, r, i)'
    BY <1>2 DEF Owned
  <2>1. PICK w \in Txns : w = chain[r][i].own /\ w = chain'[r][i].own
    BY <1>1, <1>2, DeltaFacts
  <2>2. OwnedBy(w, r, i)
    BY <1>1, <2>1 DEF RecordOK, Owned
  <2>3. \A u \in Txns : head[r].cts # cts[u]
    <3>1. \A u \in Txns : cts[u] \in Nat /\ is_commit_ts(cts[u])
      BY StateFacts, ClockFacts
    <3> QED BY <3>1, IdFacts
  <2>4. CASE w = t
    <3>1. OwnedBy(w, r, i)'
      BY <1>2, <1>3, <2>4 DEF OwnedBy
    <3> QED BY <2>1, <3>1
  <2>5. CASE w # t
    <3>1. head[r].cts # TxnId(w)
      BY <2>5, IdFacts
    <3>2. pc[w] = "committed" /\ Retained(w) /\ \E j \in DOMAIN chain[r] : j > i /\ chain[r][j].ts = cts[w]
      BY <2>2, <2>3, <3>1 DEF OwnedBy
    <3>3. OwnedBy(w, r, i)'
      BY <1>2, <3>2 DEF OwnedBy, Retained
    <3> QED BY <2>1, <3>3
  <2> QED BY <2>4, <2>5
<1>11. Runs(r)'
  BY <1>1, <1>2 DEF RecordOK, Runs
<1>12. Topped(r)'
  BY <1>3, <1>5 DEF Topped
<1>13. Known(r)'
  BY <1>1, <1>3 DEF Known
<1> QED BY <1>7, <1>8, <1>9, <1>10, <1>11, <1>12, <1>13 DEF RecordOK

-----------------------------------------------------------------------------
(* An abort takes a write back.                                              *)

PopStep(t, r, e, c) ==
    /\ Turn(t) /\ pc[t] = "abort" /\ pc' = pc
    /\ r \in present /\ head[r].cts = TxnId(t) /\ chain[r] = Append(c, e) /\ e.own = t
    /\ head'[r] \in Version /\ chain'[r] = c /\ LeadsBack(head[r], e, head'[r])
    /\ \A j \in DOMAIN c : c[j].own # t
    /\ \A i \in DOMAIN undo[t] : undo[t][i].rec = r => ~(i > pos'[t])
    /\ \A y \in Records : y # r =>
          /\ head'[y] = head[y] /\ chain'[y] = chain[y]
          /\ \A i \in DOMAIN undo[t] : undo[t][i].rec = y => (i > pos'[t] <=> i > pos[t])
    /\ UNCHANGED <<present, undo, start, cts, wset, left, calls, target, kept, active, watermark, wrote>>
    /\ \A u \in Txns : u # t => pos'[u] = pos[u]

LEMMA RecordPopped ==
  ASSUME SInv, NEW t \in Txns, NEW r \in Records, NEW e \in Delta, NEW c \in Seq(Delta), PopStep(t, r, e, c)
  PROVE  RecordOK(r)'
<1>1. /\ TypeOK /\ RecordOK(r) /\ head[r] \in Version /\ head'[r] \in Version /\ e.ts \in Nat
      /\ chain[r] = Append(c, e) /\ chain'[r] = c /\ LeadsBack(head[r], e, head'[r]) /\ head[r].cts = TxnId(t)
      /\ \A j \in DOMAIN c : c[j].own # t
      /\ e.own = t
  BY StateFacts, HeadFacts DEF PopStep, Delta, Ts
<1>2. /\ pc' = pc /\ start' = start /\ cts' = cts /\ kept' = kept /\ watermark' = watermark
      /\ undo' = undo /\ pc[t] = "abort"
  BY DEF PopStep
<1>3. Grows
  BY <1>2 DEF Grows, Past
<1>4. head'[r].cts = e.ts
  BY <1>1 DEF LeadsBack
<1>5. /\ \A k \in Versions(c) : /\ VersionTs(head[r], chain[r], k) = VersionTs(head'[r], c, k)
                                /\ VersionImage(head[r], chain[r], k) = VersionImage(head'[r], c, k)
  BY <1>1, VersionsPush
<1> DEFINE n == Len(c)
<1>6. /\ n \in Nat /\ DOMAIN c = 1 .. n /\ DOMAIN chain[r] = 1 .. n + 1 /\ Len(chain[r]) = n + 1
      /\ chain[r][n + 1] = e /\ \A i \in 1 .. n : chain[r][i] = c[i]
      /\ Versions(c) \subseteq Versions(chain[r]) /\ 1 \in Versions(c)
  BY <1>1 DEF Versions
<1>7. e.ts = TxnId(t) \/ is_commit_ts(e.ts)
  <2>1. Ordered(chain[r], head[r].cts, start) /\ n + 1 \in DOMAIN chain[r]
    BY <1>6, StateFacts DEF ChainsOrdered
  <2> QED BY <1>1, <1>6, <2>1, IdFacts DEF Ordered
<1>8. e.ts = TxnId(t) => c = <<>> /\ head'[r].tomb
  <2> SUFFICES ASSUME e.ts = TxnId(t) PROVE c = <<>> /\ head'[r].tomb
    OBVIOUS
  <2>1. ~is_commit_ts(e.ts) /\ ~(e.ts <= 2)
    BY GraphAssumption, IdFacts DEF TxnId, is_commit_ts, Txns
  <2>2. c = <<>>
    <3> SUFFICES ASSUME n >= 1 PROVE FALSE
      BY <1>6
    <3>1. n + 1 \in DOMAIN chain[r] /\ n + 1 > 1 /\ chain[r][n + 1 - 1] = c[n] /\ n \in DOMAIN c
      BY <1>6
    <3>2. chain[r][n + 1].own # chain[r][n + 1 - 1].own
      BY <1>1, <1>6, <3>1
    <3>3. is_commit_ts(chain[r][n + 1].ts)
      BY <1>1, <3>1, <3>2 DEF RecordOK, Runs
    <3> QED BY <1>6, <2>1, <3>3
  <2>3. n = 0
    BY <2>2
  <2>4. VersionTs(head'[r], c, 1) = e.ts /\ VersionImage(head'[r], c, 1) = ImageOf(head'[r])
    <3>1. PICK h \in Version : h = head'[r]
      BY <1>1
    <3>2. VersionTs(h, c, Len(c) + 1) = h.cts /\ VersionImage(h, c, Len(c) + 1) = ImageOf(h)
      BY HeadIsLast
    <3>3. Len(c) + 1 = 1
      BY <2>3
    <3> QED BY <1>4, <3>1, <3>2, <3>3
  <2>5. VersionImage(head[r], chain[r], 1).tomb
    BY <1>1, <1>5, <1>6, <2>1, <2>4 DEF RecordOK, Based
  <2>6. ImageOf(head'[r]).tomb
    BY <1>5, <1>6, <2>4, <2>5
  <2> QED BY <2>2, <2>6 DEF ImageOf
<1>9. Dated(r)'
  <2> SUFFICES ASSUME NEW k \in Versions(c), is_commit_ts(VersionTs(head'[r], chain'[r], k))
               PROVE  (/\ Origin(VersionTs(head[r], chain[r], k))
                       /\ ~VersionImage(head[r], chain[r], k).tomb =>
                             \A p \in Props : Clean(VersionImage(head[r], chain[r], k).props[p],
                                                    VersionTs(head[r], chain[r], k)))'
    BY <1>1 DEF Dated
  <2>1. PICK img : img = VersionImage(head[r], chain[r], k) /\ img = VersionImage(head'[r], chain'[r], k)
    BY <1>1, <1>5
  <2>2. PICK ts : ts = VersionTs(head[r], chain[r], k) /\ ts = VersionTs(head'[r], chain'[r], k)
    BY <1>1, <1>5
  <2>3. Origin(ts) /\ (~img.tomb => \A p \in Props : Clean(img.props[p], ts))
    BY <1>1, <1>6, <2>1, <2>2 DEF RecordOK, Dated
  <2>4. Origin(ts)' /\ (~img.tomb => \A p \in Props : Clean(img.props[p], ts)')
    BY <1>3, <2>3, CleanGrows
  <2> QED BY <2>1, <2>2, <2>4
<1>10. MarkedClean(r)'
  <2>1. ASSUME NEW u \in Txns, head'[r].cts = TxnId(u) PROVE head'[r].tomb
    BY <1>4, <1>7, <1>8, <2>1, IdFacts
  <2> QED BY <2>1 DEF MarkedClean
<1>11. Based(r)'
  BY <1>1, <1>5, <1>6 DEF RecordOK, Based
<1>12. Owned(r)'
  <2> SUFFICES ASSUME NEW i \in DOMAIN c PROVE OwnedBy(chain[r][i].own, r, i)'
    BY <1>1 DEF Owned
  <2>1. PICK w \in Txns : w = chain[r][i].own /\ w = chain'[r][i].own
    BY <1>1, <1>6, DeltaFacts
  <2>2. OwnedBy(w, r, i) /\ w # t
    BY <1>1, <1>6, <2>1 DEF RecordOK, Owned
  <2>3. head[r].cts # cts[w] /\ head[r].cts # TxnId(w)
    <3>1. cts[w] \in Nat /\ is_commit_ts(cts[w])
      BY StateFacts, ClockFacts
    <3> QED BY <1>1, <2>2, <3>1, IdFacts
  <2>4. pc[w] = "committed" /\ Retained(w) /\ \E j \in DOMAIN chain[r] : j > i /\ chain[r][j].ts = cts[w]
    BY <2>2, <2>3 DEF OwnedBy
  <2>5. head'[r].cts = cts[w] \/ \E j \in DOMAIN c : j > i /\ c[j].ts = cts[w]
    <3>1. PICK j \in DOMAIN chain[r] : j > i /\ chain[r][j].ts = cts[w]
      BY <2>4
    <3>2. CASE j = n + 1
      BY <1>4, <1>6, <3>1, <3>2
    <3>3. CASE j \in 1 .. n
      BY <1>6, <3>1, <3>3
    <3> QED BY <1>6, <3>2, <3>3
  <2>6. OwnedBy(w, r, i)'
    BY <1>1, <1>2, <2>4, <2>5 DEF OwnedBy, Retained
  <2> QED BY <2>1, <2>6
<1>13. Runs(r)'
  <2> SUFFICES ASSUME NEW i \in DOMAIN c, i > 1
               PROVE  IF c[i].own = c[i - 1].own THEN c[i].ts = TxnId(c[i].own) ELSE is_commit_ts(c[i].ts)
    BY <1>1 DEF Runs
  <2>1. i - 1 \in 1 .. n /\ i \in DOMAIN chain[r] /\ c[i] = chain[r][i] /\ c[i - 1] = chain[r][i - 1]
    BY <1>6
  <2> QED BY <1>1, <2>1 DEF RecordOK, Runs
<1>14. Topped(r)'
  <2> SUFFICES ASSUME NEW u \in Txns, head'[r].cts = TxnId(u)
               PROVE  ~Busy(u, r)' /\ chain'[r] = <<>> /\ head'[r].tomb
    BY DEF Topped
  <2>1. u = t /\ e.ts = TxnId(t)
    BY <1>4, <1>7, IdFacts
  <2>2. ~Busy(t, r)'
    <3>1. pc'[t] = "abort" /\ \A i \in DOMAIN undo'[t] : undo'[t][i].rec = r => ~(i > pos'[t])
      BY <1>2 DEF PopStep
    <3> QED BY <3>1 DEF Busy, Writing
  <2> QED BY <1>1, <1>8, <2>1, <2>2
<1>15. Known(r)'
  BY <1>4, <1>7 DEF Known
<1> QED BY <1>9, <1>10, <1>11, <1>12, <1>13, <1>14, <1>15 DEF RecordOK

-----------------------------------------------------------------------------
(* Transactions that are between two calls.                                  *)

\* The versions of record r that are not newer than s are still there.
KeepsOld(r, s) ==
    \A k \in Versions(chain'[r]) : VersionTs(head'[r], chain'[r], k) <= s =>
        /\ k \in Versions(chain[r])
        /\ VersionTs(head'[r], chain'[r], k) = VersionTs(head[r], chain[r], k)
        /\ VersionImage(head'[r], chain'[r], k) = VersionImage(head[r], chain[r], k)

\* The records u has written are still the way it left them.
KeepsWrites(u) ==
    /\ undo'[u] = undo[u]
    /\ \A i \in DOMAIN undo[u] : /\ head'[undo[u][i].rec].cts = head[undo[u][i].rec].cts
                                 /\ chain'[undo[u][i].rec] = chain[undo[u][i].rec]

LEMMA IntentKept ==
  ASSUME SInv, NEW u \in Txns, NEW r \in Records, IntentOK(u, r), Grows, present \subseteq present',
         start'[u] = start[u], wset'[u][r] = wset[u][r], r \in present => KeepsOld(r, start[u])
  PROVE  IntentOK(u, r)'
<1>1. TypeOK /\ GuardsOld
  BY StateFacts
<1>2. PICK w \in Intent : w = wset[u][r] /\ w = wset'[u][r]
  BY <1>1 DEF TypeOK
<1>3. w.guard <= start[u]
  BY <1>1, <1>2 DEF GuardsOld
<1>4. PICK s : s = start[u] /\ s = start'[u]
  OBVIOUS
<1>5. ASSUME w.kind \in {"Update", "Delete"}
      PROVE  /\ is_commit_ts(w.guard)
             /\ \A k \in Versions(chain'[r]) :
                   VersionTs(head'[r], chain'[r], k) = w.guard => VersionImage(head'[r], chain'[r], k) = w.before
             /\ r \in present'
  <2>1. /\ is_commit_ts(w.guard) /\ r \in present
        /\ \A k \in Versions(chain[r]) :
              VersionTs(head[r], chain[r], k) = w.guard => VersionImage(head[r], chain[r], k) = w.before
    BY <1>2, <1>5 DEF IntentOK
  <2> QED BY <1>3, <2>1 DEF KeepsOld
<1>6. ASSUME w.kind \in {"Insert", "Update"}, NEW p \in Props
      PROVE  w.after.props[p] = u \/ Clean(w.after.props[p], s)'
  <2>1. w.after.props[p] = u \/ Clean(w.after.props[p], s)
    BY <1>2, <1>4, <1>6 DEF IntentOK
  <2> QED BY <2>1, CleanGrows
<1>7. /\ w.kind = "Update" => w.before.tomb = w.after.tomb
      /\ w.kind = "Insert" => "create" \in Calls
      /\ w.kind = "Delete" => "delete" \in Calls
  BY <1>2 DEF IntentOK
<1> QED BY <1>2, <1>4, <1>5, <1>6, <1>7 DEF IntentOK

LEMMA OtherKept ==
  ASSUME SInv, NEW u \in Txns, pc[u] \in {"new", "run", "committed", "aborted"}, pc'[u] = pc[u],
         start'[u] = start[u], wset'[u] = wset[u], calls'[u] = calls[u],
         Grows, present \subseteq present', u \in active => u \in active',
         pc[u] = "run" => KeepsWrites(u),
         pc[u] # "new" => \A r \in present : KeepsOld(r, start[u])
  PROVE  TxnOK(u)'
<1>1. TxnOK(u) /\ TypeOK
  BY StateFacts
<1>2. Timed(u)'
  BY <1>1 DEF TxnOK, Timed, Started, Unfinished, Writing
<1>3. Buffered(u)' /\ Confirmed(u)'
  BY DEF Buffered, Confirmed
<1>4. Calling(u)'
  BY <1>1 DEF TxnOK, Calling, Unregistered, Intents
<1>5. Undoable(u)'
  <2>1. CASE WriteOnce
    <3> SUFFICES ASSUME pc[u] = "run", NEW i \in DOMAIN undo'[u]
                 PROVE  /\ \E j \in DOMAIN calls'[u] : calls'[u][j] = undo'[u][i].rec
                        /\ \A j \in DOMAIN undo'[u] : j # i => undo'[u][j].rec # undo'[u][i].rec
                        /\ head'[undo'[u][i].rec].cts = TxnId(u)
                        /\ chain'[undo'[u][i].rec] = Append(undo'[u][i].next, undo'[u][i].e)
                        /\ undo'[u][i].e.own = u /\ undo'[u][i].e.op # "Create"
                        /\ undo'[u][i].e.op = "Del" => undo'[u][i].e.img.tomb
                        /\ \A j \in DOMAIN undo'[u][i].next : undo'[u][i].next[j].own # u
      BY <2>1 DEF Undoable
    <3>1. undo'[u] = undo[u] /\ i \in DOMAIN undo[u] /\ KeepsWrites(u)
      BY DEF KeepsWrites
    <3>2. PICK e : e = undo[u][i]
      OBVIOUS
    <3>3. /\ \E j \in DOMAIN calls[u] : calls[u][j] = e.rec
          /\ \A j \in DOMAIN undo[u] : j # i => undo[u][j].rec # e.rec
          /\ head[e.rec].cts = TxnId(u)
          /\ chain[e.rec] = Append(e.next, e.e)
          /\ e.e.own = u /\ e.e.op # "Create"
          /\ e.e.op = "Del" => e.e.img.tomb
          /\ \A j \in DOMAIN e.next : e.next[j].own # u
      BY <1>1, <2>1, <3>1, <3>2 DEF TxnOK, Undoable
    <3>4. head'[e.rec].cts = TxnId(u) /\ chain'[e.rec] = Append(e.next, e.e)
      BY <3>1, <3>2, <3>3 DEF KeepsWrites
    <3> QED BY ZenonT(60), <3>1, <3>2, <3>3, <3>4
  <2>2. CASE ~WriteOnce
    BY <1>1, <2>2 DEF TxnOK, Undoable
  <2> QED BY <2>1, <2>2
<1>6. Staged(u)'
  <2> SUFFICES ASSUME Strategy[u] = "Optimistic", pc[u] # "committed", NEW r \in Records
               PROVE  IntentOK(u, r)'
    BY DEF Staged
  <2>1. IntentOK(u, r)
    BY <1>1 DEF TxnOK, Staged
  <2>2. CASE pc[u] # "new"
    BY <2>1, <2>2, IntentKept
  <2>3. CASE pc[u] = "new"
    <3>1. wset'[u][r].kind = "None"
      BY <1>4, <2>3 DEF Calling, Unregistered, Intents
    <3> QED BY <3>1 DEF IntentOK
  <2> QED BY <2>2, <2>3
<1> QED BY <1>2, <1>3, <1>4, <1>5, <1>6 DEF TxnOK

-----------------------------------------------------------------------------
(* Steps, as far as the other records and transactions are concerned.        *)

LEMMA SteadyOld ==
  ASSUME NEW r, NEW s, head'[r] = head[r], chain'[r] = chain[r]
  PROVE  KeepsOld(r, s)
BY DEF KeepsOld

LEMMA PushInv ==
  ASSUME SInv, NEW t \in Txns, NEW x, NEW r \in Records, NEW e \in Delta, PushStep(t, x, r, e), TxnOK(t)'
  PROVE  VInv'
<1>1. TypeOK /\ LInv /\ IInv /\ ClockBound
  BY StateFacts DEF SInv
<1>2. /\ pc'[t] = x /\ Grows
      /\ \A u \in Txns : u # t => pc'[u] = pc[u] /\ pc[u] \in {"new", "run", "committed", "aborted"}
  BY PushPlaces
<1>3. /\ Turn(t) /\ pc[t] \in Writing /\ x \in Writing \cup {"promote"} /\ WriteBase(t, r, e.ts)
      /\ present' = present \cup {r} /\ start' = start /\ cts' = cts /\ wset' = wset /\ pos' = pos
      /\ kept' = kept /\ active' = active /\ watermark' = watermark
      /\ \A y \in Records : y # r => head'[y] = head[y] /\ chain'[y] = chain[y]
      /\ \A u \in Txns : u # t => calls'[u] = calls[u]
  BY DEF PushStep, Pushed
<1>4. \A u \in Txns : u # t => undo'[u] = undo[u]
  BY <1>1 DEF PushStep, TypeOK
<1>5. ASSUME NEW y \in Records PROVE RecordOK(y)'
  <2>1. CASE y = r
    BY <2>1, RecordPushed
  <2>2. CASE y # r
    <3>1. head'[y] = head[y] /\ chain'[y] = chain[y]
      BY <1>3, <2>2
    <3>2. KeepsOwners(y)
      BY <1>2, <1>3 DEF KeepsOwners, Retained, Writing
    <3>3. KeepsWriter(y)
      <4> SUFFICES ASSUME NEW u \in Txns PROVE start'[u] = start[u] /\ (Busy(u, y)' <=> Busy(u, y))
        BY DEF KeepsWriter
      <4>1. CASE u = t
        BY <1>2, <1>3, <4>1 DEF Busy
      <4>2. CASE u # t
        BY <1>2, <1>3, <1>4, <4>2 DEF Busy
      <4> QED BY <4>1, <4>2
    <3> QED BY <1>2, <3>1, <3>2, <3>3, RecordKept
  <2> QED BY <2>1, <2>2
<1>6. ASSUME NEW u \in Txns PROVE TxnOK(u)'
  <2>1. CASE u = t
    BY <2>1
  <2>2. CASE u # t
    <3>1. ASSUME pc[u] = "run" PROVE KeepsWrites(u)
      <4>1. \A i \in DOMAIN undo[u] : undo[u][i].rec # r
        <5>1. e.ts \in Nat
          BY DEF Delta, Ts
        <5>2. Unfinished(u)
          BY <3>1 DEF Unfinished, Writing
        <5> QED BY <1>1, <1>3, <2>2, <5>1, <5>2, BaseFacts
      <4>2. \A i \in DOMAIN undo[u] : undo[u][i].rec \in Records
        BY <1>1, EntryFacts
      <4> QED BY <1>3, <1>4, <2>2, <4>1, <4>2 DEF KeepsWrites
    <3>2. ASSUME NEW y \in present PROVE KeepsOld(y, start[u])
      <4>1. CASE y = r
        <5>1. ~(TxnId(t) <= start[u])
          <6>1. is_commit_ts(start[u]) /\ start[u] \in Nat
            BY <1>1, ClockFacts
          <6> QED BY <6>1, GraphAssumption DEF is_commit_ts, TxnId, Txns
        <5>2. \A k \in Versions(chain'[r]) :
                 \/ /\ k \in Versions(chain[r])
                    /\ VersionTs(head'[r], chain'[r], k) = VersionTs(head[r], chain[r], k)
                    /\ VersionImage(head'[r], chain'[r], k) = VersionImage(head[r], chain[r], k)
                 \/ VersionTs(head'[r], chain'[r], k) = TxnId(t)
          BY <3>2, <4>1, PushVersions
        <5> QED BY <4>1, <5>1, <5>2 DEF KeepsOld
      <4>2. CASE y # r
        BY <1>1, <1>3, <4>2, SteadyOld DEF TypeOK
      <4> QED BY <4>1, <4>2
    <3> QED BY <1>2, <1>3, <2>2, <3>1, <3>2, OtherKept
  <2> QED BY <2>1, <2>2
<1> QED BY <1>5, <1>6 DEF VInv

LEMMA PromoteInv ==
  ASSUME SInv, NEW t \in Txns, NEW r \in Records, PromoteStep(t, r), TxnOK(t)'
  PROVE  VInv'
<1>1. TypeOK /\ IInv /\ ClockBound /\ Timed(t) /\ Held
  BY StateFacts DEF TxnOK
<1>2. /\ Turn(t) /\ pc[t] = "promote" /\ pc' = pc
      /\ \/ head[r].cts = TxnId(t) /\ head' = [head EXCEPT ![r].cts = cts[t]]
         \/ head' = head
      /\ present' = present /\ chain' = chain /\ undo' = undo /\ start' = start /\ cts' = cts /\ wset' = wset
      /\ calls' = calls /\ kept' = kept /\ active' = active /\ watermark' = watermark
      /\ \A u \in Txns : u # t => pos'[u] = pos[u]
  BY DEF PromoteStep
<1>3. \A u \in Txns : u # t => pc[u] \in {"new", "run", "committed", "aborted"}
  BY <1>1, <1>2, OthersWait
<1>4. Grows
  BY <1>2 DEF Grows, Past
<1>5. ASSUME NEW y \in Records, head'[y] = head[y] PROVE RecordOK(y)'
  <2>1. KeepsOwners(y)
    BY <1>2 DEF KeepsOwners, Retained
  <2>2. KeepsWriter(y)
    <3> SUFFICES ASSUME NEW u \in Txns PROVE Busy(u, y)' <=> Busy(u, y)
      BY <1>2 DEF KeepsWriter
    <3>1. CASE u = t
      BY <1>2, <3>1 DEF Busy
    <3>2. CASE u # t
      BY <1>2, <3>2 DEF Busy
    <3> QED BY <3>1, <3>2
  <2> QED BY <1>2, <1>4, <1>5, <2>1, <2>2, RecordKept
<1>6. CASE head' = head
  <2>1. \A y \in Records : RecordOK(y)'
    BY <1>5, <1>6
  <2>2. ASSUME NEW u \in Txns, u # t PROVE TxnOK(u)'
    <3>1. KeepsWrites(u)
      BY <1>2, <1>6 DEF KeepsWrites
    <3>2. \A y \in present : KeepsOld(y, start[u])
      BY <1>2, <1>6, SteadyOld
    <3> QED BY <1>2, <1>3, <1>4, <2>2, <3>1, <3>2, OtherKept
  <2> QED BY <2>1, <2>2 DEF VInv
<1>7. CASE head[r].cts = TxnId(t) /\ head' = [head EXCEPT ![r].cts = cts[t]]
  <2>1. /\ \A y \in Records : y # r => head'[y] = head[y]
        /\ \A k \in Versions(chain[r]) :
             /\ VersionImage(head'[r], chain[r], k) = VersionImage(head[r], chain[r], k)
             /\ \/ k \in DOMAIN chain[r] /\ VersionTs(head'[r], chain[r], k) = VersionTs(head[r], chain[r], k)
                \/ VersionTs(head'[r], chain[r], k) = cts[t] /\ VersionTs(head[r], chain[r], k) = TxnId(t)
    BY <1>7, PromoteVersions
  <2>2. \A y \in Records : RecordOK(y)'
    BY <1>5, <1>7, <2>1, RecordPromoted
  <2>3. ASSUME NEW u \in Txns, u # t PROVE TxnOK(u)'
    <3>1. ASSUME pc[u] = "run" PROVE KeepsWrites(u)
      <4>1. ASSUME NEW i \in DOMAIN undo[u] PROVE undo[u][i].rec \in Records /\ undo[u][i].rec # r
        <5>1. head[undo[u][i].rec].cts = TxnId(u)
          BY <1>1, <3>1 DEF Held, Writing
        <5>2. TxnId(u) # TxnId(t)
          BY <2>3, IdFacts
        <5> QED BY <1>1, <1>7, <5>1, <5>2, EntryFacts
      <4> QED BY <1>2, <2>1, <4>1 DEF KeepsWrites
    <3>2. ASSUME pc[u] # "new", NEW y \in present PROVE KeepsOld(y, start[u])
      <4>1. CASE y = r
        <5>1. ~(cts[t] <= start[u])
          <6>1. start[u] < cts[t]
            BY <1>1, <1>2, <1>3, <2>3, <3>2 DEF Timed, Started
          <6> QED BY <1>1, <6>1, ClockFacts
        <5> QED BY <1>2, <2>1, <4>1, <5>1 DEF KeepsOld
      <4>2. CASE y # r
        BY <1>1, <1>2, <2>1, <4>2, SteadyOld DEF TypeOK
      <4> QED BY <4>1, <4>2
    <3> QED BY <1>2, <1>3, <1>4, <2>3, <3>1, <3>2, OtherKept
  <2> QED BY <2>2, <2>3 DEF VInv
<1> QED BY <1>2, <1>6, <1>7

LEMMA PopInv ==
  ASSUME SInv, NEW t \in Txns, NEW r \in Records, NEW e \in Delta, NEW c \in Seq(Delta), PopStep(t, r, e, c),
         TxnOK(t)'
  PROVE  VInv'
<1>1. TypeOK /\ IInv /\ Held
  BY StateFacts
<1>2. /\ Turn(t) /\ pc[t] = "abort" /\ pc' = pc /\ head[r].cts = TxnId(t) /\ e.own = t
      /\ chain[r] = Append(c, e) /\ chain'[r] = c
      /\ head'[r] \in Version /\ LeadsBack(head[r], e, head'[r])
      /\ \A y \in Records : y # r =>
            /\ head'[y] = head[y] /\ chain'[y] = chain[y]
            /\ \A i \in DOMAIN undo[t] : undo[t][i].rec = y => (i > pos'[t] <=> i > pos[t])
      /\ present' = present /\ undo' = undo /\ start' = start /\ cts' = cts /\ wset' = wset
      /\ calls' = calls /\ kept' = kept /\ active' = active /\ watermark' = watermark
      /\ \A u \in Txns : u # t => pos'[u] = pos[u]
  BY DEF PopStep
<1>3. \A u \in Txns : u # t => pc[u] \in {"new", "run", "committed", "aborted"}
  BY <1>1, <1>2, OthersWait
<1>4. Grows
  BY <1>2 DEF Grows, Past
<1>5. ASSUME NEW y \in Records PROVE RecordOK(y)'
  <2>1. CASE y = r
    BY <2>1, RecordPopped
  <2>2. CASE y # r
    <3>1. KeepsOwners(y)
      BY <1>2 DEF KeepsOwners, Retained
    <3>2. KeepsWriter(y)
      <4> SUFFICES ASSUME NEW u \in Txns PROVE Busy(u, y)' <=> Busy(u, y)
        BY <1>2 DEF KeepsWriter
      <4>1. CASE u = t
        BY <1>2, <2>2, <4>1 DEF Busy
      <4>2. CASE u # t
        BY <1>2, <4>2 DEF Busy
      <4> QED BY <4>1, <4>2
    <3> QED BY <1>2, <1>4, <2>2, <3>1, <3>2, RecordKept
  <2> QED BY <2>1, <2>2
<1>6. ASSUME NEW u \in Txns, u # t PROVE TxnOK(u)'
  <2>1. ASSUME pc[u] = "run" PROVE KeepsWrites(u)
    <3>1. ASSUME NEW i \in DOMAIN undo[u] PROVE undo[u][i].rec \in Records /\ undo[u][i].rec # r
      <4>1. head[undo[u][i].rec].cts = TxnId(u)
        BY <1>1, <2>1 DEF Held, Writing
      <4>2. TxnId(u) # TxnId(t)
        BY <1>6, IdFacts
      <4> QED BY <1>1, <1>2, <4>1, <4>2, EntryFacts
    <3> QED BY <1>2, <3>1 DEF KeepsWrites
  <2>2. ASSUME NEW y \in present PROVE KeepsOld(y, start[u])
    <3>1. CASE y = r
      <4>1. PICK h \in Version : h = head'[r]
        BY <1>2
      <4>2. PICK h2 \in Version : h2 = head[r]
        BY <1>1, HeadFacts
      <4>3. \A k \in Versions(c) : /\ VersionTs(h2, Append(c, e), k) = VersionTs(h, c, k)
                                   /\ VersionImage(h2, Append(c, e), k) = VersionImage(h, c, k)
        BY <1>2, <4>1, <4>2, VersionsPush
      <4>4. Versions(c) \subseteq Versions(Append(c, e))
        BY DEF Versions
      <4> QED BY <1>2, <3>1, <4>1, <4>2, <4>3, <4>4 DEF KeepsOld
    <3>2. CASE y # r
      BY <1>1, <1>2, <3>2, SteadyOld DEF TypeOK
    <3> QED BY <3>1, <3>2
  <2> QED BY <1>2, <1>3, <1>4, <1>6, <2>1, <2>2, OtherKept
<1> QED BY <1>5, <1>6 DEF VInv

\* A step that writes no version.
CalmStep(t, x) ==
    /\ Turn(t) /\ pc' = [pc EXCEPT ![t] = x]
    /\ \/ pc[t] \in Unregistered /\ x \in Unregistered \cup {"run"} /\ cts'[t] = cts[t]
       \/ pc[t] \in Writing /\ x \in Writing \cup {"promote"} /\ start'[t] = start[t]
       \/ pc[t] \in {"run", "commit"} /\ x = "abort" /\ start'[t] = start[t] /\ cts'[t] = cts[t]
    /\ UNCHANGED <<present, head, chain, undo, pos, kept, wrote>>
    /\ watermark <= watermark' /\ watermark' \in Nat /\ active \subseteq active'
    /\ \A u \in Txns : u # t => /\ start'[u] = start[u] /\ cts'[u] = cts[u] /\ wset'[u] = wset[u]
                                /\ left'[u] = left[u] /\ calls'[u] = calls[u] /\ target'[u] = target[u]

LEMMA CalmPlaces ==
  ASSUME SInv, NEW t \in Txns, NEW x, CalmStep(t, x)
  PROVE  /\ pc'[t] = x /\ Grows
         /\ \A u \in Txns : u # t => pc'[u] = pc[u] /\ pc[u] \in {"new", "run", "committed", "aborted"}
<1>1. TypeOK /\ IInv
  BY StateFacts
<1>2. pc'[t] = x /\ \A u \in Txns : u # t => pc'[u] = pc[u]
  BY <1>1 DEF TypeOK, CalmStep
<1>3. \A u \in Txns : u # t => pc[u] \in {"new", "run", "committed", "aborted"}
  BY <1>1, OthersWait DEF CalmStep
<1>4. ~Past(t)
  BY DEF CalmStep, Past, Writing, Unregistered
<1>5. Grows
  BY <1>2, <1>4 DEF Grows, Past, CalmStep
<1> QED BY <1>2, <1>3, <1>5

LEMMA CalmInv ==
  ASSUME SInv, NEW t \in Txns, NEW x, CalmStep(t, x), TxnOK(t)'
  PROVE  VInv'
<1>1. TypeOK /\ IInv /\ Marked /\ StrategyOK(t) /\ watermark \in Nat /\ \A w \in Txns : cts[w] \in Nat
  BY StateFacts, ClockFacts DEF Strategies, TypeOK, Ts
<1>2. /\ pc'[t] = x /\ Grows
      /\ \A u \in Txns : u # t => pc'[u] = pc[u] /\ pc[u] \in {"new", "run", "committed", "aborted"}
  BY CalmPlaces
<1>3. /\ present' = present /\ head' = head /\ chain' = chain /\ undo' = undo /\ pos' = pos /\ kept' = kept
      /\ watermark <= watermark' /\ watermark' \in Nat /\ active \subseteq active'
      /\ \A u \in Txns : u # t => /\ start'[u] = start[u] /\ cts'[u] = cts[u] /\ wset'[u] = wset[u]
                                  /\ calls'[u] = calls[u]
      /\ \/ pc[t] \in Unregistered
         \/ pc[t] \in Writing /\ x \in Writing \cup {"promote"} /\ start'[t] = start[t]
         \/ pc[t] \in {"run", "commit"} /\ x = "abort" /\ start'[t] = start[t]
  BY DEF CalmStep
<1>4. pc[t] \notin {"committed", "promote", "abort"}
  BY <1>3 DEF Unregistered, Writing
<1>5. ASSUME NEW y \in Records PROVE RecordOK(y)'
  <2>1. KeepsOwners(y)
    <3> SUFFICES ASSUME NEW w \in Txns, pc[w] \in {"committed", "promote"}
                 PROVE  pc'[w] = pc[w] /\ cts'[w] = cts[w] /\ (Retained(w) => Retained(w)')
      BY DEF KeepsOwners
    <3>1. w # t
      BY <1>4
    <3> QED BY <1>1, <1>2, <1>3, <3>1 DEF Retained
  <2>2. KeepsWriter(y)
    <3> SUFFICES ASSUME NEW u \in Txns, head[y].cts = TxnId(u)
                 PROVE  start'[u] = start[u] /\ (Busy(u, y)' <=> Busy(u, y))
      BY DEF KeepsWriter
    <3>1. CASE u # t
      BY <1>2, <1>3, <3>1 DEF Busy
    <3>2. CASE u = t
      <4>1. MarkOf(t, y)
        BY <1>1, <3>2 DEF Marked
      <4>2. pc[t] \notin Unregistered
        BY <4>1 DEF MarkOf
      <4>3. CASE x \in Writing \cup {"promote"} /\ pc[t] \in Writing /\ start'[t] = start[t]
        BY <1>2, <3>2, <4>3 DEF Busy
      <4>4. CASE x = "abort" /\ pc[t] \in {"run", "commit"} /\ start'[t] = start[t]
        <5>1. \E i \in DOMAIN undo[t] : undo[t][i].rec = y
          BY <4>1, <4>4 DEF MarkOf, Writing
        <5>2. pos[t] = 0
          BY <1>1, <4>4 DEF StrategyOK
        <5>3. \A i \in DOMAIN undo[t] : i > 0
          BY <1>1, EntryFacts
        <5>4. Busy(t, y)'
          BY <1>2, <1>3, <4>4, <5>1, <5>2, <5>3 DEF Busy
        <5>5. Busy(t, y)
          BY <4>4 DEF Busy, Writing
        <5> QED BY <3>2, <4>4, <5>4, <5>5
      <4> QED BY <1>3, <4>2, <4>3, <4>4
    <3> QED BY <3>1, <3>2
  <2> QED BY <1>2, <1>3, <2>1, <2>2, RecordKept
<1>6. ASSUME NEW u \in Txns, u # t PROVE TxnOK(u)'
  <2>1. KeepsWrites(u)
    BY <1>3 DEF KeepsWrites
  <2>2. \A y \in present : KeepsOld(y, start[u])
    BY <1>3, SteadyOld
  <2> QED BY <1>2, <1>3, <1>6, <2>1, <2>2, OtherKept
<1> QED BY <1>5, <1>6 DEF VInv

\* The end of a commit or of an abort.
FinishStep(t, x) ==
    /\ Turn(t) /\ pc' = [pc EXCEPT ![t] = x]
    /\ \/ pc[t] = "promote" /\ x = "committed" /\ Retained(t)' /\ \A r \in Records : head[r].cts # TxnId(t)
       \/ pc[t] = "abort" /\ x = "aborted" /\ pos[t] = Len(undo[t])
    /\ UNCHANGED <<present, head, chain, start, cts, target>>
    /\ active' = active \ {t}
    /\ watermark' \in Nat /\ watermark <= watermark'
    /\ kept' \subseteq kept \cup {t} /\ \A u \in kept : u \in kept' \/ cts[u] <= watermark'
    /\ \A u \in Txns : u # t => /\ wset'[u] = wset[u] /\ left'[u] = left[u] /\ calls'[u] = calls[u]
                                /\ pos'[u] = pos[u] /\ (pc[u] # "committed" => undo'[u] = undo[u])
    /\ \A r \in Records : wset'[t][r] = NoIntent

LEMMA FinishSteps ==
  ASSUME SInv, NEW t \in Txns
  PROVE  /\ CommitFinish(t) => FinishStep(t, "committed")
         /\ AbortFinish(t) => FinishStep(t, "aborted")
<1>1. TypeOK /\ IInv /\ KeptCommitted /\ LInv /\ watermark \in Nat /\ latest \in Nat /\ cts[t] \in Nat
  BY StateFacts DEF SInv, TypeOK, Ts
<1>2. ASSUME NEW committed \in BOOLEAN, NEW lat \in Nat, Finish(t, committed, lat), UNCHANGED <<start, cts>>
      PROVE  /\ present' = present /\ head' = head /\ chain' = chain
             /\ active' = active \ {t}
             /\ watermark' \in Nat /\ watermark <= watermark'
             /\ kept' \subseteq kept \cup {t} /\ \A u \in kept : u \in kept' \/ cts[u] <= watermark'
             /\ committed => t \in kept' \/ cts[t] <= watermark'
             /\ \A u \in Txns : u # t => /\ wset'[u] = wset[u] /\ calls'[u] = calls[u]
                                         /\ pos'[u] = pos[u] /\ (pc[u] # "committed" => undo'[u] = undo[u])
             /\ \A r \in Records : wset'[t][r] = NoIntent
  <2>1. /\ present' = present /\ head' = head /\ chain' = chain /\ kept' \subseteq kept \cup {t}
        /\ \A u \in Txns : u \notin kept \cup {t} => undo'[u] = undo[u]
        /\ pos' = [pos EXCEPT ![t] = 0]
        /\ wset' = [wset EXCEPT ![t] = [r \in Records |-> NoIntent]]
    BY <1>1, <1>2, FinishKeeps
  <2>2. active' = active \ {t} /\ watermark' = NewWatermark(active', lat) /\ calls' = [calls EXCEPT ![t] = <<>>]
    BY <1>2 DEF Finish
  <2>3. watermark' \in Nat /\ watermark <= watermark'
    <3> DEFINE new == IF active' = {} THEN lat ELSE start[Min(active')]
    <3>1. new \in Nat
      <4>1. active' \in SUBSET Txns /\ active' \in SUBSET Nat
        BY <1>1, <2>2, TxnsAreNat DEF TypeOK
      <4>2. active' # {} => Min(active') \in active'
        BY <4>1, MinExists
      <4> QED BY <1>1, <4>1, <4>2 DEF TypeOK, Ts
    <3>2. watermark' = Max({watermark, new})
      BY <2>2 DEF NewWatermark
    <3> HIDE DEF new
    <3> QED BY <1>1, <3>1, <3>2, MaxOfTwo
  <2>4. \E done, expired : /\ kept' = done \ expired /\ kept \subseteq done /\ (committed => t \in done)
                           /\ \A u \in expired : cts[u] <= watermark'
    <3> DEFINE done == IF committed THEN kept \cup {t} ELSE kept
               expired == IF Cardinality(done) >= GcThreshold
                          THEN {u \in done : cts[u] <= watermark'} ELSE {}
    <3>1. kept' = done \ expired
      BY <1>2 DEF Finish
    <3>2. kept \subseteq done /\ (committed => t \in done)
      OBVIOUS
    <3>3. \A u \in expired : cts[u] <= watermark'
      OBVIOUS
    <3> HIDE DEF done, expired
    <3> QED BY <3>1, <3>2, <3>3
  <2>5. \A u \in Txns : u # t => wset'[u] = wset[u] /\ calls'[u] = calls[u] /\ pos'[u] = pos[u]
    BY <1>1, <2>1, <2>2 DEF TypeOK
  <2>6. \A r \in Records : wset'[t][r] = NoIntent
    BY <1>1, <2>1 DEF TypeOK
  <2>7. \A u \in Txns : u # t /\ pc[u] # "committed" => undo'[u] = undo[u]
    BY <1>1, <2>1 DEF KeptCommitted
  <2>8. (\A u \in kept : u \in kept' \/ cts[u] <= watermark') /\ (committed => t \in kept' \/ cts[t] <= watermark')
    BY <2>4
  <2> QED BY <2>1, <2>2, <2>3, <2>5, <2>6, <2>7, <2>8
<1>3. ASSUME CommitFinish(t) PROVE FinishStep(t, "committed")
  <2>1. /\ Turn(t) /\ pc[t] = "promote" /\ Finish(t, TRUE, cts[t]) /\ pc' = [pc EXCEPT ![t] = "committed"]
        /\ UNCHANGED <<start, cts, target, left>>
    BY <1>3 DEF CommitFinish, Goto
  <2>2. \A r \in Records : head[r].cts # TxnId(t)
    BY <1>1, <1>3, AllPromoted
  <2> QED BY <1>1, <1>2, <2>1, <2>2 DEF FinishStep, Retained
<1>4. ASSUME AbortFinish(t) PROVE FinishStep(t, "aborted")
  <2>1. /\ Turn(t) /\ pc[t] = "abort" /\ Finish(t, FALSE, latest) /\ pc' = [pc EXCEPT ![t] = "aborted"]
        /\ UNCHANGED <<start, cts, target>> /\ left' = [left EXCEPT ![t] = {}] /\ pos[t] = Len(undo[t])
    BY <1>4 DEF AbortFinish, Goto
  <2>2. \A u \in Txns : u # t => left'[u] = left[u]
    BY <1>1, <2>1 DEF TypeOK
  <2> QED BY <1>1, <1>2, <2>1, <2>2 DEF FinishStep
<1> QED BY <1>3, <1>4

LEMMA FinishInv ==
  ASSUME SInv, NEW t \in Txns, NEW x, FinishStep(t, x)
  PROVE  VInv'
<1>1. /\ TypeOK /\ IInv /\ Marked /\ TxnOK(t) /\ t \notin kept
      /\ watermark \in Nat /\ \A w \in Txns : cts[w] \in Nat
  BY StateFacts, ClockFacts DEF TypeOK, Ts, FinishStep, KeptCommitted
<1>2. /\ Turn(t) /\ pc' = [pc EXCEPT ![t] = x]
      /\ \/ pc[t] = "promote" /\ x = "committed" /\ Retained(t)' /\ \A r \in Records : head[r].cts # TxnId(t)
         \/ pc[t] = "abort" /\ x = "aborted" /\ pos[t] = Len(undo[t])
      /\ present' = present /\ head' = head /\ chain' = chain /\ start' = start /\ cts' = cts
      /\ active' = active \ {t} /\ watermark' \in Nat /\ watermark <= watermark'
      /\ \A u \in kept : u \in kept' \/ cts[u] <= watermark'
      /\ \A u \in Txns : u # t => /\ wset'[u] = wset[u] /\ calls'[u] = calls[u] /\ pos'[u] = pos[u]
                                  /\ (pc[u] # "committed" => undo'[u] = undo[u])
      /\ \A r \in Records : wset'[t][r] = NoIntent
  BY DEF FinishStep
<1>3. pc'[t] = x /\ \A u \in Txns : u # t => pc'[u] = pc[u] /\ pc[u] \in {"new", "run", "committed", "aborted"}
  BY <1>1, <1>2, OthersWait DEF TypeOK
<1>4. Grows
  BY <1>2, <1>3 DEF Grows, Past
<1>5. ASSUME NEW y \in Records PROVE RecordOK(y)'
  <2>1. KeepsOwners(y)
    <3> SUFFICES ASSUME NEW w \in Txns
                 PROVE  /\ pc[w] = "committed" /\ Retained(w) => pc'[w] = "committed" /\ Retained(w)'
                        /\ pc[w] = "promote" => pc'[w] = "committed" /\ Retained(w)'
      BY <1>2 DEF KeepsOwners
    <3>1. CASE w = t
      BY <1>2, <1>3, <3>1
    <3>2. CASE w # t
      <4>1. pc'[w] = pc[w] /\ pc[w] # "promote"
        BY <1>3, <3>2
      <4>2. Retained(w) => Retained(w)'
        BY <1>1, <1>2 DEF Retained
      <4> QED BY <4>1, <4>2
    <3> QED BY <3>1, <3>2
  <2>2. KeepsWriter(y)
    <3> SUFFICES ASSUME NEW u \in Txns, head[y].cts = TxnId(u) PROVE Busy(u, y)' <=> Busy(u, y)
      BY <1>2 DEF KeepsWriter
    <3>1. CASE u # t
      <4>1. pc[u] # "committed"
        BY <1>1 DEF Marked, MarkOf
      <4> QED BY <1>2, <1>3, <3>1, <4>1 DEF Busy
    <3>2. CASE u = t
      <4>1. pc[t] = "abort" /\ x = "aborted" /\ pos[t] = Len(undo[t])
        BY <1>2, <3>2
      <4>2. \A i \in DOMAIN undo[t] : ~(i > pos[t])
        BY <1>1, <4>1, EntryFacts DEF TypeOK
      <4>3. ~Busy(t, y) /\ ~Busy(t, y)'
        BY <1>3, <4>1, <4>2 DEF Busy, Writing
      <4> QED BY <3>2, <4>3
    <3> QED BY <3>1, <3>2
  <2> QED BY <1>2, <1>4, <2>1, <2>2, RecordKept
<1>6. ASSUME NEW u \in Txns, u # t PROVE TxnOK(u)'
  <2>1. pc[u] = "run" => KeepsWrites(u)
    BY <1>2, <1>6 DEF KeepsWrites
  <2>2. \A y \in present : KeepsOld(y, start[u])
    BY <1>2, SteadyOld
  <2> QED BY <1>2, <1>3, <1>4, <1>6, <2>1, <2>2, OtherKept
<1>7. TxnOK(t)'
  <2>1. x \in {"committed", "aborted"}
    BY <1>2
  <2>2. Timed(t)'
    BY <1>1, <1>2, <1>3, <2>1 DEF TxnOK, Timed, Started, Unfinished, Writing
  <2>3. Buffered(t)' /\ Confirmed(t)' /\ Calling(t)'
    BY <1>3, <2>1 DEF Buffered, Confirmed, Calling, Unregistered
  <2>4. Undoable(t)'
    BY <1>1, <1>2, <1>3, <2>1 DEF TxnOK, Undoable
  <2>5. Staged(t)'
    <3>1. \A r \in Records : wset'[t][r].kind = "None"
      BY <1>2 DEF NoIntent
    <3> QED BY <3>1 DEF Staged, IntentOK
  <2> QED BY <2>2, <2>3, <2>4, <2>5 DEF TxnOK
<1> QED BY <1>5, <1>6, <1>7 DEF VInv

-----------------------------------------------------------------------------
(* Begin, and calls that write no version.                                   *)

LEMMA WatermarkGrows ==
  ASSUME TypeOK, NEW act \in SUBSET Txns, NEW lat \in Nat
  PROVE  NewWatermark(act, lat) \in Nat /\ watermark <= NewWatermark(act, lat)
<1> DEFINE new == IF act = {} THEN lat ELSE start[Min(act)]
<1>1. watermark \in Nat
  BY DEF TypeOK, Ts
<1>2. new \in Nat
  <2>1. act \in SUBSET Nat
    BY TxnsAreNat
  <2>2. act # {} => Min(act) \in act
    BY <2>1, MinExists
  <2> QED BY <2>2 DEF TypeOK, Ts
<1>3. NewWatermark(act, lat) = Max({watermark, new})
  BY DEF NewWatermark
<1> HIDE DEF new
<1> QED BY <1>1, <1>2, <1>3, MaxOfTwo

LEMMA BeginVInv ==
  ASSUME SInv, NEW t \in Txns, Begin(t)
  PROVE  VInv'
<1>1. TypeOK /\ IInv /\ ClockBound /\ StrategyOK(t) /\ TxnOK(t) /\ clock \in Nat /\ clock >= 3
  <2>1. TypeOK /\ IInv /\ ClockBound /\ StrategyOK(t) /\ TxnOK(t)
    BY StateFacts DEF Strategies
  <2>2. Started \in SUBSET Txns /\ Stamped \in SUBSET Txns
    BY DEF Started, Stamped
  <2> QED BY <2>1, <2>2, TxnsFinite DEF ClockBound
<1>2. /\ Turn(t) /\ pc[t] \in Unregistered /\ cts' = cts
      /\ present' = present /\ head' = head /\ chain' = chain /\ undo' = undo /\ wset' = wset
      /\ pos' = pos /\ left' = left /\ target' = target /\ calls' = calls /\ kept' = kept /\ wrote' = wrote
  BY DEF Begin, BeginDrawId, BeginDrawTs, BeginRegister, Unregistered, graphVars, txnVars, mgrVars
<1>3. undo[t] = <<>> /\ Intents(t) = {} /\ Intents(t)' = {}
  BY <1>1, <1>2 DEF StrategyOK, TxnOK, Calling, Intents
<1>4. PICK x \in {"id", "ts", "run"} :
        /\ pc' = [pc EXCEPT ![t] = x]
        /\ x = "ts" => start' = [start EXCEPT ![t] = clock]
        /\ x # "ts" => start' = start
        /\ x = "run" => pc[t] = "ts" /\ active' = active \cup {t} /\ watermark' = NewWatermark(active', latest)
        /\ x # "run" => active' = active /\ watermark' = watermark
  <2>1. CASE BeginDrawId(t)
    <3>1. pc' = [pc EXCEPT ![t] = "id"] /\ start' = start /\ active' = active /\ watermark' = watermark
      BY <2>1 DEF BeginDrawId, Goto, mgrVars
    <3> QED BY <3>1
  <2>2. CASE BeginDrawTs(t)
    <3>1. /\ pc' = [pc EXCEPT ![t] = "ts"] /\ start' = [start EXCEPT ![t] = clock]
          /\ active' = active /\ watermark' = watermark
      BY <2>2 DEF BeginDrawTs, Goto, mgrVars
    <3> QED BY <3>1
  <2>3. CASE BeginRegister(t)
    <3>1. /\ pc' = [pc EXCEPT ![t] = "run"] /\ start' = start /\ pc[t] = "ts"
          /\ active' = active \cup {t} /\ watermark' = NewWatermark(active', latest)
      BY <2>3 DEF BeginRegister, Goto
    <3> QED BY <3>1
  <2> QED BY <2>1, <2>2, <2>3 DEF Begin
<1>5. watermark <= watermark' /\ watermark' \in Nat /\ active \subseteq active'
  <2>1. CASE x = "run"
    <3>1. active' \in SUBSET Txns /\ latest \in Nat
      BY <1>1, <1>4, <2>1 DEF TypeOK, Ts
    <3> QED BY <1>1, <1>4, <2>1, <3>1, WatermarkGrows
  <2>2. CASE x # "run"
    BY <1>1, <1>4, <2>2 DEF TypeOK, Ts
  <2> QED BY <2>1, <2>2
<1>6. CalmStep(t, x)
  <2>1. \A u \in Txns : u # t => start'[u] = start[u]
    BY <1>1, <1>4 DEF TypeOK
  <2>2. x \in Unregistered \cup {"run"}
    BY DEF Unregistered
  <2> QED BY <1>2, <1>4, <1>5, <2>1, <2>2 DEF CalmStep
<1>7. pc'[t] = x
  BY <1>1, <1>4 DEF TypeOK
<1>8. Timed(t)'
  <2>1. x = "ts" => start'[t] = clock
    BY <1>1, <1>4 DEF TypeOK
  <2>2. x = "run" => start[t] >= 3 /\ t \in active'
    BY <1>1, <1>4 DEF TxnOK, Timed, Started
  <2>3. (t \in Started)' => x \in {"ts", "run"}
    BY <1>7 DEF Started
  <2>4. Unfinished(t)' => x = "run"
    BY <1>7 DEF Unfinished, Writing
  <2>5. (t \in Started)' => start'[t] >= 3
    BY <1>1, <1>4, <2>1, <2>2, <2>3
  <2> QED BY <1>7, <2>2, <2>4, <2>5 DEF Timed
<1>9. Buffered(t)' /\ Confirmed(t)' /\ Calling(t)'
  BY <1>3, <1>7 DEF Buffered, Confirmed, Calling
<1>10. Undoable(t)'
  BY <1>2, <1>3, <1>7 DEF Undoable
<1>11. Staged(t)'
  <2>1. \A r \in Records : wset'[t][r].kind = "None"
    BY <1>3 DEF Intents
  <2> QED BY <2>1 DEF Staged, IntentOK
<1> QED BY <1>6, <1>8, <1>9, <1>10, <1>11, CalmInv DEF TxnOK

\* A step between begin and validation that writes no version.
LEMMA CallVInv ==
  ASSUME SInv, NEW t \in Txns, NEW x \in {"run", "create", "delete", "commit"},
         Turn(t), pc[t] \in {"run", "create", "delete"}, pc' = [pc EXCEPT ![t] = x],
         UNCHANGED <<present, head, chain, start, undo, pos, left, kept, wrote, watermark, active>>,
         \A u \in Txns : u # t => /\ cts'[u] = cts[u] /\ wset'[u] = wset[u] /\ calls'[u] = calls[u]
                                  /\ target'[u] = target[u],
         \A i \in DOMAIN calls[t] : \E j \in DOMAIN calls'[t] : calls'[t][j] = calls[t][i],
         x = "create" => "create" \in Calls /\ \E j \in DOMAIN calls'[t] : target'[t] = <<calls'[t][j]>>,
         x = "delete" => "delete" \in Calls,
         x = "commit" => \A u \in Txns : start[u] < cts'[t],
         Strategy[t] = "Optimistic" => \A r \in Records : wset'[t][r] = wset[t][r] \/ IntentOK(t, r)'
  PROVE  VInv'
<1>1. TypeOK /\ TxnOK(t) /\ watermark \in Nat
  BY StateFacts DEF TypeOK, Ts
<1>2. CalmStep(t, x)
  BY <1>1 DEF CalmStep, Writing
<1>3. pc'[t] = x /\ Grows /\ \A u \in Txns : u # t => pc'[u] = pc[u]
  BY <1>2, CalmPlaces
<1>4. Timed(t)'
  <2>1. start[t] >= 3 /\ t \in active
    BY <1>1 DEF TxnOK, Timed, Started, Unfinished, Writing
  <2> QED BY <1>3, <2>1 DEF Timed, Started
<1>5. Buffered(t)' /\ Confirmed(t)' /\ Calling(t)'
  BY <1>3 DEF Buffered, Confirmed, Calling, Unregistered
<1>6. Undoable(t)'
  <2>1. CASE WriteOnce
    <3>1. pc[t] \in {"run", "create"}
      BY <1>1, <2>1 DEF TxnOK, Calling, WriteOnce
    <3> SUFFICES ASSUME NEW i \in DOMAIN undo[t]
                 PROVE  /\ \E j \in DOMAIN calls'[t] : calls'[t][j] = undo[t][i].rec
                        /\ \A j \in DOMAIN undo[t] : j # i => undo[t][j].rec # undo[t][i].rec
                        /\ head[undo[t][i].rec].cts = TxnId(t)
                        /\ chain[undo[t][i].rec] = Append(undo[t][i].next, undo[t][i].e)
                        /\ undo[t][i].e.own = t /\ undo[t][i].e.op # "Create"
                        /\ undo[t][i].e.op = "Del" => undo[t][i].e.img.tomb
                        /\ \A j \in DOMAIN undo[t][i].next : undo[t][i].next[j].own # t
      BY <1>3, <2>1 DEF Undoable
    <3>2. PICK e : e = undo[t][i]
      OBVIOUS
    <3>3. /\ \E j \in DOMAIN calls[t] : calls[t][j] = e.rec
          /\ \A j \in DOMAIN undo[t] : j # i => undo[t][j].rec # e.rec
          /\ head[e.rec].cts = TxnId(t)
          /\ chain[e.rec] = Append(e.next, e.e)
          /\ e.e.own = t /\ e.e.op # "Create"
          /\ e.e.op = "Del" => e.e.img.tomb
          /\ \A j \in DOMAIN e.next : e.next[j].own # t
      BY <1>1, <2>1, <3>1, <3>2 DEF TxnOK, Undoable
    <3> QED BY <3>2, <3>3
  <2>2. CASE ~WriteOnce
    BY <1>3, <2>2 DEF Undoable
  <2> QED BY <2>1, <2>2
<1>7. Staged(t)'
  <2> SUFFICES ASSUME Strategy[t] = "Optimistic", NEW r \in Records PROVE IntentOK(t, r)'
    BY DEF Staged
  <2>1. CASE wset'[t][r] = wset[t][r]
    <3>1. IntentOK(t, r)
      BY <1>1 DEF TxnOK, Staged
    <3> QED BY <1>3, <2>1, <3>1, IntentKept, SteadyOld
  <2>2. CASE wset'[t][r] # wset[t][r]
    BY <2>2
  <2> QED BY <2>1, <2>2
<1> QED BY <1>2, <1>4, <1>5, <1>6, <1>7, CalmInv DEF TxnOK

LEMMA CalledOnce ==
  ASSUME TypeOK, NEW t \in Txns, NEW r \in Records, Called(t, r)
  PROVE  /\ \A u \in Txns : u # t => calls'[u] = calls[u]
         /\ \A i \in DOMAIN calls[t] : \E j \in DOMAIN calls'[t] : calls'[t][j] = calls[t][i]
         /\ \E j \in DOMAIN calls'[t] : calls'[t][j] = r
<1>1. calls \in [Txns -> Seq(Records)] /\ calls[t] \in Seq(Records)
  BY DEF TypeOK
<1>2. calls'[t] = Append(calls[t], r) /\ \A u \in Txns : u # t => calls'[u] = calls[u]
  BY <1>1 DEF Called
<1>3. PICK c \in Seq(Records) : c = calls[t]
  BY <1>1
<1>4. /\ \A i \in DOMAIN c : i \in DOMAIN Append(c, r) /\ Append(c, r)[i] = c[i]
      /\ Len(c) + 1 \in DOMAIN Append(c, r) /\ Append(c, r)[Len(c) + 1] = r
  OBVIOUS
<1> QED BY <1>2, <1>3, <1>4

LEMMA ReadCallVInv ==
  ASSUME SInv, NEW t \in Txns, NEW r \in Records,
         Get(t, r) \/ CreateCheck(t, r) \/ DeleteCheck(t, r)
  PROVE  VInv'
<1>1. TypeOK
  BY StateFacts
<1>2. /\ Turn(t) /\ pc[t] = "run" /\ Called(t, r)
      /\ start' = start /\ cts' = cts /\ present' = present
      /\ head' = head /\ chain' = chain /\ undo' = undo /\ wrote' = wrote /\ wset' = wset
      /\ pos' = pos /\ left' = left /\ kept' = kept /\ active' = active /\ watermark' = watermark
  BY DEF Get, CreateCheck, DeleteCheck, MayCall, graphVars, mgrVars
<1>3. /\ \A u \in Txns : u # t => calls'[u] = calls[u]
      /\ \A i \in DOMAIN calls[t] : \E j \in DOMAIN calls'[t] : calls'[t][j] = calls[t][i]
      /\ \E j \in DOMAIN calls'[t] : calls'[t][j] = r
  BY <1>1, <1>2, CalledOnce
<1>4. CASE Get(t, r)
  <2>1. pc' = [pc EXCEPT ![t] = "run"] /\ target' = target
    BY <1>1, <1>2, <1>4 DEF Get, TypeOK
  <2> QED BY <1>2, <1>3, <2>1, CallVInv
<1>5. CASE CreateCheck(t, r)
  <2>1. pc' = [pc EXCEPT ![t] = "create"] /\ target' = [target EXCEPT ![t] = <<r>>] /\ "create" \in Calls
    BY <1>5 DEF CreateCheck, Goto, MayCall
  <2>2. target'[t] = <<r>> /\ \A u \in Txns : u # t => target'[u] = target[u]
    BY <1>1, <2>1 DEF TypeOK
  <2>3. \E j \in DOMAIN calls'[t] : target'[t] = <<calls'[t][j]>>
    BY <1>3, <2>2
  <2> QED BY <1>2, <1>3, <2>1, <2>2, <2>3, CallVInv
<1>6. CASE DeleteCheck(t, r)
  <2>1. pc' = [pc EXCEPT ![t] = "delete"] /\ target' = [target EXCEPT ![t] = Cascade(r)] /\ "delete" \in Calls
    BY <1>6 DEF DeleteCheck, Goto, MayCall
  <2>2. \A u \in Txns : u # t => target'[u] = target[u]
    BY <1>1, <2>1 DEF TypeOK
  <2> QED BY <1>2, <1>3, <2>1, <2>2, CallVInv
<1> QED BY <1>4, <1>5, <1>6

LEMMA CommitDrawVInv ==
  ASSUME SInv, NEW t \in Txns, CommitDrawTs(t)
  PROVE  VInv'
<1>1. TypeOK /\ IInv
  BY StateFacts
<1>2. /\ Turn(t) /\ pc[t] = "run" /\ pc' = [pc EXCEPT ![t] = "commit"] /\ cts' = [cts EXCEPT ![t] = clock]
      /\ start' = start /\ present' = present /\ target' = target /\ calls' = calls
      /\ head' = head /\ chain' = chain /\ undo' = undo /\ wrote' = wrote /\ wset' = wset
      /\ pos' = pos /\ left' = left /\ kept' = kept /\ active' = active /\ watermark' = watermark
  BY DEF CommitDrawTs, Goto, graphVars, mgrVars, txnVars
<1>3. cts'[t] = clock /\ \A u \in Txns : u # t => cts'[u] = cts[u]
  BY <1>1, <1>2 DEF TypeOK
<1>4. \A u \in Txns : start[u] < cts'[t]
  BY <1>1, <1>3 DEF IInv, Drawn
<1> QED BY <1>2, <1>3, <1>4, CallVInv

-----------------------------------------------------------------------------
(* Calls that stage an intent.                                               *)

\* A record has one version of a commit timestamp.
LEMMA OneVersion ==
  ASSUME SInv, NEW r \in Records, NEW k \in Versions(chain[r]), NEW l \in Versions(chain[r]),
         VersionTs(head[r], chain[r], k) = VersionTs(head[r], chain[r], l),
         is_commit_ts(VersionTs(head[r], chain[r], k))
  PROVE  k = l
<1>1. TypeOK /\ ChainsOrdered
  BY StateFacts
<1>2. PICK c \in Seq(Delta) : c = chain[r]
  BY <1>1, HeadFacts
<1>3. PICK ts \in Nat : ts = head[r].cts
  BY <1>1, HeadFacts
<1>4. /\ \A i, j \in DOMAIN c : i < j /\ is_commit_ts(c[i].ts) /\ is_commit_ts(c[j].ts) => c[i].ts < c[j].ts
      /\ \A i \in DOMAIN c : is_commit_ts(c[i].ts) /\ is_commit_ts(ts) => c[i].ts < ts
  BY <1>1, <1>2, <1>3 DEF ChainsOrdered, Ordered
<1>5. \A i \in DOMAIN c : c[i].ts \in Nat
  BY DeltaFacts
<1>6. k \in 1 .. Len(c) + 1 /\ l \in 1 .. Len(c) + 1 /\ Len(c) \in Nat /\ DOMAIN c = 1 .. Len(c)
  BY <1>2 DEF Versions
<1>7. /\ VersionTs(head[r], chain[r], k) = IF k \in DOMAIN c THEN c[k].ts ELSE ts
      /\ VersionTs(head[r], chain[r], l) = IF l \in DOMAIN c THEN c[l].ts ELSE ts
  BY <1>2, <1>3, <1>6 DEF VersionTs
<1>8. CASE k \in DOMAIN c /\ l \in DOMAIN c
  <2>1. c[k].ts = c[l].ts /\ is_commit_ts(c[k].ts) /\ c[k].ts \in Nat
    BY <1>5, <1>7, <1>8
  <2>2. ~(k < l) /\ ~(l < k)
    BY <1>4, <1>8, <2>1
  <2> QED BY <1>6, <2>2
<1>9. CASE k \in DOMAIN c /\ l \notin DOMAIN c
  <2>1. c[k].ts = ts /\ is_commit_ts(c[k].ts)
    BY <1>7, <1>9
  <2> QED BY <1>4, <1>9, <2>1
<1>10. CASE k \notin DOMAIN c /\ l \in DOMAIN c
  <2>1. c[l].ts = ts /\ is_commit_ts(c[l].ts)
    BY <1>7, <1>10
  <2> QED BY <1>4, <1>10, <2>1
<1>11. CASE k \notin DOMAIN c /\ l \notin DOMAIN c
  BY <1>6, <1>11
<1> QED BY <1>8, <1>9, <1>10, <1>11

\* What IntentOK says of an intent w.
StagedOK(w, t, r) ==
    /\ w.kind \in {"Update", "Delete"} =>
          /\ is_commit_ts(w.guard)
          /\ \A k \in Versions(chain[r]) :
                VersionTs(head[r], chain[r], k) = w.guard =>
                    VersionImage(head[r], chain[r], k) = w.before
          /\ r \in present
    /\ w.kind = "Update" => w.before.tomb = w.after.tomb
    /\ w.kind \in {"Insert", "Update"} =>
          \A p \in Props : w.after.props[p] = t \/ Clean(w.after.props[p], start[t])
    /\ w.kind = "Insert" => "create" \in Calls
    /\ w.kind = "Delete" => "delete" \in Calls

LEMMA StageKept ==
  ASSUME NEW t \in Txns, NEW r \in Records, NEW w, w = wset'[t][r], StagedOK(w, t, r),
         UNCHANGED <<present, head, chain, start>>, Grows
  PROVE  IntentOK(t, r)'
<1>1. PICK s : s = start[t] /\ s = start'[t]
  OBVIOUS
<1>2. ASSUME w.kind \in {"Insert", "Update"}, NEW p \in Props
      PROVE  w.after.props[p] = t \/ Clean(w.after.props[p], s)'
  <2>1. w.after.props[p] = t \/ Clean(w.after.props[p], s)
    BY <1>1, <1>2 DEF StagedOK
  <2> QED BY <2>1, CleanGrows
<1>3. /\ w.kind \in {"Update", "Delete"} =>
            /\ is_commit_ts(w.guard)
            /\ \A k \in Versions(chain'[r]) :
                  VersionTs(head'[r], chain'[r], k) = w.guard => VersionImage(head'[r], chain'[r], k) = w.before
            /\ r \in present'
      /\ w.kind = "Update" => w.before.tomb = w.after.tomb
      /\ w.kind = "Insert" => "create" \in Calls
      /\ w.kind = "Delete" => "delete" \in Calls
  BY DEF StagedOK
<1> QED BY <1>1, <1>2, <1>3 DEF IntentOK

\* snapshot_vertex_with_guard and snapshot_edge_with_guard return the version that
\* the guard names.
LEMMA SnapshotIs ==
  ASSUME SInv, NEW t \in Txns, Strategy[t] = "Optimistic", pc[t] = "run", NEW r \in Records,
         Snapshot(t, r).ok
  PROVE  /\ is_commit_ts(Snapshot(t, r).guard) /\ ~Snapshot(t, r).img.tomb
         /\ \A k \in Versions(chain[r]) : VersionTs(head[r], chain[r], k) = Snapshot(t, r).guard =>
               VersionImage(head[r], chain[r], k) = Snapshot(t, r).img
         /\ \A p \in Props : Clean(Snapshot(t, r).img.props[p], start[t])
<1>1. /\ TypeOK /\ LInv /\ IInv /\ ClockBound /\ StrategyOK(t) /\ Marked /\ Dated(r)
      /\ head[r] \in Version /\ chain[r] \in Seq(Delta) /\ head[r].cts \in Nat
      /\ start[t] \in Nat /\ is_commit_ts(start[t])
  BY StateFacts, ClockFacts, HeadFacts DEF SInv, Strategies, RecordOK
<1> DEFINE c == chain[r]
           h == head[r]
           s == Snapshot(t, r)
           k0 == WalkEnd(c, Gone, LAMBDA e : e.ts <= start[t])
           newer == NewerThan(h.cts, t, start[t])
           l == IF newer THEN k0 ELSE Len(c) + 1
<1>2. s.guard \in Nat /\ s.guard <= start[t]
  BY <1>1, SnapshotGuard, IntentTyped
<1>3. is_commit_ts(s.guard)
  BY <1>1, <1>2, GraphAssumption DEF is_commit_ts
<1>4. k0 \in Versions(c)
  <2> DEFINE S == {Len(c) + 1} \cup
                  {i \in 1 .. Len(c) : /\ \A j \in i .. Len(c) : c[j].own \notin Gone
                                       /\ \A j \in (i + 1) .. Len(c) : ~(c[j].ts <= start[t])}
  <2>1. k0 = Min(S)
    BY DEF WalkEnd
  <2>2. S \in SUBSET (1 .. Len(c) + 1) /\ S # {} /\ S \in SUBSET Nat
    BY <1>1
  <2> HIDE DEF S, k0
  <2>3. Min(S) \in S
    BY <2>2, MinExists
  <2> QED BY <2>1, <2>2, <2>3, Zenon DEF Versions
<1>5. /\ s.img = IF newer THEN Replay(ImageOf(h), c, k0) ELSE ImageOf(h)
      /\ s.guard = IF newer /\ k0 <= Len(c) THEN c[k0].ts ELSE h.cts
      /\ ~s.img.tomb
  BY DEF Snapshot, snapshot_with_guard
<1> HIDE DEF s, k0, newer
<1>6. l \in Versions(c) /\ s.img = VersionImage(h, c, l) /\ s.guard = VersionTs(h, c, l)
  <2>1. CASE newer
    BY <1>4, <1>5, <2>1 DEF VersionImage, VersionTs
  <2>2. CASE ~newer
    <3>1. s.img = ImageOf(h) /\ s.guard = h.cts
      BY <1>5, <2>2
    <3>2. /\ VersionImage(h, c, Len(c) + 1) = ImageOf(h)
          /\ VersionTs(h, c, Len(c) + 1) = h.cts /\ Len(c) + 1 \in Versions(c)
      BY <1>1, HeadIsLast
    <3> QED BY <2>2, <3>1, <3>2
  <2> QED BY <2>1, <2>2
<1> HIDE DEF l
<1>7. ASSUME NEW k \in Versions(c), VersionTs(h, c, k) = s.guard PROVE VersionImage(h, c, k) = s.img
  <2>1. k = l
    BY <1>3, <1>6, <1>7, OneVersion
  <2> QED BY <1>6, <2>1
<1>8. ASSUME NEW p \in Props PROVE Clean(s.img.props[p], start[t])
  <2>1. Clean(s.img.props[p], s.guard)
    BY <1>1, <1>3, <1>5, <1>6 DEF Dated
  <2> QED BY <1>1, <1>2, <2>1, CleanUp
<1> QED BY <1>3, <1>5, <1>7, <1>8 DEF s

\* Clients of optimistic transactions do not mix inserts and deletes.
LEMMA NotBoth ==
  ASSUME SInv, NEW t \in Txns, Strategy[t] = "Optimistic"
  PROVE  "delete" \in Calls => "create" \notin Calls
<1>1. CarefulClients
  BY DEF SInv
<1> QED BY <1>1 DEF CarefulClients, WriteOnce, NoInsertDelete

SetBase(t, r) ==
    IF wset[t][r].kind \in {"Insert", "Update"} THEN wset[t][r]
    ELSE [kind |-> "Update", guard |-> Snapshot(t, r).guard, before |-> Snapshot(t, r).img,
          after |-> Snapshot(t, r).img]

LEMMA SetOptimisticDoes ==
  ASSUME NEW t \in Txns, NEW r \in Records, NEW p \in Props, SetOptimistic(t, r, p)
  PROVE  /\ pc[t] = "run" /\ pc' = pc /\ Called(t, r) /\ target' = target
         /\ wset[t][r].kind \in {"Insert", "Update"} \/ (r \in present /\ Snapshot(t, r).ok)
         /\ wset' = [wset EXCEPT ![t][r] = [SetBase(t, r) EXCEPT !.after.props[p] = t]]
<1>1. MayCall(t, "set", r) /\ Called(t, r) /\ pc' = pc /\ target' = target
  BY DEF SetOptimistic
<1>2. pc[t] = "run"
  BY <1>1 DEF MayCall
<1>3. wset[t][r].kind \in {"Insert", "Update"} \/ (r \in present /\ Snapshot(t, r).ok)
  BY DEF SetOptimistic
<1>4. wset' = [wset EXCEPT ![t][r] = [SetBase(t, r) EXCEPT !.after.props[p] = t]]
  BY DEF SetOptimistic, SetBase
<1> QED BY <1>1, <1>2, <1>3, <1>4

LEMMA StageVInv ==
  ASSUME SInv, NEW t \in Txns, NEW r \in Records,
         \/ \E p \in Props : SetOptimistic(t, r, p)
         \/ CreateOptimistic(t, r)
         \/ DeleteOptimistic(t, r)
  PROVE  VInv'
<1>1. TypeOK /\ TxnOK(t) /\ IInv
  BY StateFacts
<1>2. /\ Turn(t) /\ pc[t] \in {"run", "create"} /\ Strategy[t] = "Optimistic"
      /\ start' = start /\ cts' = cts /\ present' = present
      /\ head' = head /\ chain' = chain /\ undo' = undo /\ wrote' = wrote
      /\ pos' = pos /\ left' = left /\ kept' = kept /\ watermark' = watermark /\ active' = active
  BY ZenonT(60) DEF SetOptimistic, CreateOptimistic, DeleteOptimistic, MayCall, graphVars, mgrVars
<1>3. wset[t] \in [Records -> Intent] /\ \A y \in Records : IntentOK(t, y) /\ StagedOK(wset[t][y], t, y)
  <2>1. \A y \in Records : IntentOK(t, y)
    BY <1>1, <1>2 DEF TxnOK, Staged
  <2> QED BY <1>1, <2>1 DEF TypeOK, IntentOK, StagedOK
<1>4. ASSUME NEW p \in Props, SetOptimistic(t, r, p) PROVE VInv'
  <2> DEFINE staged == wset[t][r].kind \in {"Insert", "Update"}
             base == IF staged THEN wset[t][r]
                     ELSE [kind |-> "Update", guard |-> Snapshot(t, r).guard, before |-> Snapshot(t, r).img,
                           after |-> Snapshot(t, r).img]
  <2>1. /\ pc[t] = "run" /\ pc' = pc /\ Called(t, r) /\ target' = target
        /\ staged \/ (r \in present /\ Snapshot(t, r).ok)
        /\ wset' = [wset EXCEPT ![t][r] = [base EXCEPT !.after.props[p] = t]]
    BY <1>4, SetOptimisticDoes DEF SetBase
  <2>2. pc' = [pc EXCEPT ![t] = "run"] /\ Grows
    BY <1>1, <1>2, <2>1 DEF TypeOK, Grows, Past
  <2>3. StagedOK(base, t, r) /\ base \in Intent
    <3>1. CASE staged
      BY <1>3, <3>1
    <3>2. CASE ~staged
      <4>1. PICK s \in Image, g \in Nat : s = Snapshot(t, r).img /\ g = Snapshot(t, r).guard
        BY <1>1, IntentTyped
      <4>2. /\ is_commit_ts(g) /\ r \in present
            /\ \A k \in Versions(chain[r]) : VersionTs(head[r], chain[r], k) = g =>
                  VersionImage(head[r], chain[r], k) = s
            /\ \A q \in Props : Clean(s.props[q], start[t])
        BY <1>2, <2>1, <3>2, <4>1, SnapshotIs
      <4>3. base = [kind |-> "Update", guard |-> g, before |-> s, after |-> s]
        BY <3>2, <4>1
      <4> HIDE DEF base, staged
      <4> QED BY <4>2, <4>3 DEF StagedOK, Intent, Ts
    <3> QED BY <3>1, <3>2
  <2> DEFINE new == [base EXCEPT !.after.props[p] = t]
  <2>4. base.kind \in {"Insert", "Update"}
    OBVIOUS
  <2> HIDE DEF base, staged
  <2>5. /\ new.kind = base.kind /\ new.guard = base.guard /\ new.before = base.before
        /\ new.after.tomb = base.after.tomb
        /\ \A q \in Props : new.after.props[q] = t \/ new.after.props[q] = base.after.props[q]
    BY <2>3 DEF Intent, Image
  <2>6. wset' = [wset EXCEPT ![t][r] = new]
    BY <2>1
  <2> HIDE DEF new
  <2>7. /\ \A u \in Txns : u # t => wset'[u] = wset[u]
        /\ \A y \in Records : wset'[t][y] = IF y = r THEN new ELSE wset[t][y]
    BY <1>1, <2>6 DEF TypeOK
  <2>8. StagedOK(new, t, r)
    BY <2>3, <2>4, <2>5 DEF StagedOK
  <2>9. \A y \in Records : wset'[t][y] = wset[t][y] \/ IntentOK(t, y)'
    <3>1. IntentOK(t, r)'
      BY <1>2, <2>2, <2>7, <2>8, StageKept
    <3> QED BY <2>7, <3>1
  <2>10. /\ \A u \in Txns : u # t => calls'[u] = calls[u]
         /\ \A i \in DOMAIN calls[t] : \E j \in DOMAIN calls'[t] : calls'[t][j] = calls[t][i]
    BY <1>1, <2>1, CalledOnce
  <2>11. pc[t] = "run" /\ target' = target /\ \A u \in Txns : u # t => wset'[u] = wset[u]
    BY <2>1, <2>7
  <2> QED BY <1>2, <2>2, <2>9, <2>10, <2>11, CallVInv
<1>5. CASE CreateOptimistic(t, r)
  <2> DEFINE new == [kind |-> "Insert", guard |-> wset[t][r].guard, before |-> NoImage,
                     after |-> [props |-> [p \in Props |-> t], tomb |-> FALSE]]
  <2>1. /\ pc' = [pc EXCEPT ![t] = "run"] /\ wset' = [wset EXCEPT ![t][r] = new] /\ pc[t] = "create"
        /\ calls' = calls /\ target' = [target EXCEPT ![t] = <<>>]
    BY <1>5 DEF CreateOptimistic, Goto
  <2>2. new.kind = "Insert" /\ \A q \in Props : new.after.props[q] = t
    OBVIOUS
  <2> HIDE DEF new
  <2>3. /\ \A u \in Txns : u # t => wset'[u] = wset[u] /\ target'[u] = target[u]
        /\ \A y \in Records : wset'[t][y] = IF y = r THEN new ELSE wset[t][y]
    BY <1>1, <2>1 DEF TypeOK
  <2>4. "create" \in Calls
    BY <1>1, <2>1 DEF TxnOK, Calling
  <2>5. StagedOK(new, t, r)
    BY <2>2, <2>4 DEF StagedOK
  <2>6. Grows
    BY <1>1, <1>2, <2>1 DEF TypeOK, Grows, Past
  <2>7. \A y \in Records : wset'[t][y] = wset[t][y] \/ IntentOK(t, y)'
    <3>1. IntentOK(t, r)'
      BY <1>2, <2>3, <2>5, <2>6, StageKept
    <3> QED BY <2>3, <3>1
  <2> QED BY <1>2, <2>1, <2>3, <2>7, CallVInv
<1>6. CASE DeleteOptimistic(t, r)
  <2> DEFINE staged == {e \in Edges : wset[t][e].kind # "None" /\ r \in {Src[e], Dst[e]}}
             listed == IF r \in Edges THEN <<>> ELSE Incoming(r) \o Outgoing(r)
             reached == {listed[i] : i \in {j \in DOMAIN listed :
                                              \A k \in 1 .. j : Deletable(t, listed[k])}}
             X == {r} \cup staged \cup reached
  <2>1. /\ pc[t] = "run" /\ pc' = pc /\ Deletable(t, r) /\ Called(t, r) /\ target' = target
        /\ "delete" \in Calls
        /\ wset' = [wset EXCEPT ![t] = [x \in Records |->
                       IF x \in X THEN DeleteIntent(t, x) ELSE wset[t][x]]]
    BY <1>6 DEF DeleteOptimistic, MayCall
  <2>2. pc' = [pc EXCEPT ![t] = "run"] /\ Grows
    BY <1>1, <1>2, <2>1 DEF TypeOK, Grows, Past
  <2>3. \A x \in X : Deletable(t, x)
    <3>1. \A x \in staged : Deletable(t, x)
      BY DEF Deletable
    <3>2. listed \in Seq(Records)
      BY <1>1, CascadeTyped
    <3> HIDE DEF listed
    <3>3. ASSUME NEW x \in reached PROVE Deletable(t, x)
      <4>1. PICK i \in DOMAIN listed : x = listed[i] /\ \A k \in 1 .. i : Deletable(t, listed[k])
        BY <3>3
      <4>2. i \in 1 .. i
        BY <3>2
      <4> QED BY <4>1, <4>2
    <3> QED BY <2>1, <3>1, <3>3
  <2> HIDE DEF X
  <2>4. /\ \A u \in Txns : u # t => wset'[u] = wset[u]
        /\ \A y \in Records : wset'[t][y] = IF y \in X THEN DeleteIntent(t, y) ELSE wset[t][y]
    BY <1>1, <2>1 DEF TypeOK
  <2>5. ASSUME NEW y \in Records, Deletable(t, y) PROVE StagedOK(DeleteIntent(t, y), t, y)
    <3>1. PICK w \in Intent : w = wset[t][y]
      BY <1>3
    <3>2. StagedOK(w, t, y)
      BY <1>3, <3>1
    <3>3. CASE w.kind = "None"
      <4>1. PICK s \in Image, g \in Nat : s = Snapshot(t, y).img /\ g = Snapshot(t, y).guard
        BY <1>1, IntentTyped
      <4>2. Snapshot(t, y).ok /\ y \in present
        BY <2>5, <3>1, <3>3 DEF Deletable
      <4>3. /\ is_commit_ts(g)
            /\ \A k \in Versions(chain[y]) : VersionTs(head[y], chain[y], k) = g =>
                  VersionImage(head[y], chain[y], k) = s
        BY <1>2, <2>1, <4>1, <4>2, SnapshotIs
      <4>4. DeleteIntent(t, y) = [kind |-> "Delete", guard |-> g, before |-> s, after |-> NoImage]
        BY <3>1, <3>3, <4>1 DEF DeleteIntent
      <4> QED BY <2>1, <4>2, <4>3, <4>4 DEF StagedOK
    <3>4. CASE w.kind \in {"Update", "Delete"}
      <4>1. DeleteIntent(t, y) = [w EXCEPT !.kind = "Delete", !.after = NoImage]
        BY <3>1, <3>4 DEF DeleteIntent
      <4>2. PICK d : d = DeleteIntent(t, y)
        OBVIOUS
      <4>3. d.kind = "Delete" /\ d.guard = w.guard /\ d.before = w.before
        BY <4>1, <4>2 DEF Intent
      <4>4. StagedOK(d, t, y)
        BY <2>1, <3>2, <3>4, <4>3 DEF StagedOK
      <4> QED BY <4>2, <4>4
    <3>5. CASE w.kind = "Insert"
      <4>1. "create" \in Calls
        BY <3>2, <3>5 DEF StagedOK
      <4> QED BY <1>2, <2>1, <4>1, NotBoth
    <3> QED BY <3>3, <3>4, <3>5 DEF Intent
  <2>6. ASSUME NEW y \in Records PROVE wset'[t][y] = wset[t][y] \/ IntentOK(t, y)'
    <3>1. CASE y \in X
      <4>1. PICK d : d = DeleteIntent(t, y) /\ d = wset'[t][y]
        BY <2>4, <3>1
      <4>2. StagedOK(d, t, y)
        BY <2>3, <2>5, <3>1, <4>1
      <4> QED BY <1>2, <2>2, <4>1, <4>2, StageKept
    <3>2. CASE y \notin X
      BY <2>4, <3>2
    <3> QED BY <3>1, <3>2
  <2>7. /\ \A u \in Txns : u # t => calls'[u] = calls[u]
        /\ \A i \in DOMAIN calls[t] : \E j \in DOMAIN calls'[t] : calls'[t][j] = calls[t][i]
    BY <1>1, <2>1, CalledOnce
  <2> QED BY <1>2, <2>1, <2>2, <2>4, <2>6, <2>7, CallVInv
<1> QED BY <1>4, <1>5, <1>6

-----------------------------------------------------------------------------
(* Pessimistic writes.                                                       *)

\* The data of a record that t may write is committed in its snapshot or its own.
LEMMA WritableClean ==
  ASSUME SInv, NEW t \in Txns, NEW r \in Records, Writable(t, r), ~head[r].tomb, NEW p \in Props
  PROVE  head[r].props[p] = t \/ Clean(head[r].props[p], start[t])
<1>1. /\ TypeOK /\ IInv /\ ClockBound /\ MarkedClean(r) /\ head[r].cts \in Nat /\ start[t] \in Nat
  BY StateFacts, HeadFacts, ClockFacts DEF RecordOK
<1>2. check_write_conflict(head[r].cts, t, start[t])
  BY DEF Writable
<1>3. CASE is_txn_id(head[r].cts)
  BY <1>1, <1>2, <1>3 DEF check_write_conflict, MarkedClean
<1>4. CASE is_commit_ts(head[r].cts)
  <2>1. Clean(head[r].props[p], head[r].cts) /\ head[r].cts <= start[t]
    BY <1>2, <1>4, HeadDated DEF check_write_conflict
  <2> QED BY <1>1, <2>1, CleanUp
<1> QED BY <1>1, <1>3, <1>4, IdFacts

LEMMA SetPushes ==
  ASSUME SInv, NEW t \in Txns, NEW r \in Records, NEW p \in Props, SetPessimistic(t, r, p)
  PROVE  \E e \in Delta : PushStep(t, "run", r, e) /\ e.op = "SetProps"
<1> DEFINE e == SetDelta(t, {p}, ImageOf(head[r]), head[r].cts)
<1>1. TypeOK
  BY StateFacts
<1>2. /\ Turn(t) /\ pc[t] = "run" /\ pc' = pc /\ Writable(t, r) /\ r \in present
      /\ PushUndo(t, r, e) /\ present' = present /\ Called(t, r)
      /\ head' = [head EXCEPT ![r].props[p] = t, ![r].cts = TxnId(t)]
      /\ UNCHANGED <<start, cts, wset, pos, kept, active, watermark, wrote, left, target>>
  BY DEF SetPessimistic, MayCall, Writable, mgrVars
<1>3. PICK h \in Version : h = head[r]
  BY <1>1, HeadFacts
<1>4. ImageOf(h) \in Image /\ h.cts \in Nat
  BY VersionTyped
<1>5. e \in Delta /\ e.own = t /\ e.ts = h.cts /\ e.op = "SetProps" /\ e.idx = {p} /\ e.img = ImageOf(h)
  <2>1. {p} \in SUBSET Props
    OBVIOUS
  <2>2. e \in Delta
    BY <1>3, <1>4, <2>1, DeltaTyped
  <2> QED BY <1>3, <2>2 DEF SetDelta
<1> DEFINE h2 == [h EXCEPT !.props[p] = t, !.cts = TxnId(t)]
<1>6. head' = [head EXCEPT ![r] = h2]
  BY <1>1, <1>2, <1>3 DEF TypeOK
<1>7. h2 \in Version
  <2>1. TxnId(t) \in Nat /\ t \in 0 .. MaxTxn
    BY IdFacts, TxnsAreNat
  <2> QED BY <2>1 DEF Version, Ts
<1>8. /\ h2.cts = TxnId(t) /\ h2.tomb = h.tomb
      /\ h2.props = [q \in Props |-> IF q = p THEN t ELSE h.props[q]]
  BY DEF Version
<1> HIDE DEF h2, e
<1>9. head'[r] = h2 /\ \A y \in Records : y # r => head'[y] = head[y]
  BY <1>1, <1>6 DEF TypeOK
<1>10. LeadsBack(h2, e, h)
  <2>1. h.props \in [Props -> 0 .. MaxTxn]
    BY DEF Version
  <2>2. set_props(h2.props, {p}, h.props) = h.props
    BY <1>8, <2>1 DEF set_props
  <2> QED BY <1>5, <1>8, <2>2 DEF LeadsBack, Undone, ImageOf
<1>11. ~h2.tomb => \A q \in Props : h2.props[q] = t \/ Clean(h2.props[q], start[t])
  <2> SUFFICES ASSUME ~h2.tomb, NEW q \in Props PROVE h2.props[q] = t \/ Clean(h2.props[q], start[t])
    OBVIOUS
  <2>1. h.props[q] = t \/ Clean(h.props[q], start[t])
    BY <1>2, <1>3, <1>8, WritableClean
  <2> QED BY <1>8, <2>1
<1>12. WriteBase(t, r, e.ts)
  BY <1>2, <1>3, <1>5 DEF Writable, WriteBase
<1>13. /\ undo' = [undo EXCEPT ![t] = Append(@, UndoRecord(r, e, chain[r]))]
       /\ chain'[r] = Append(chain[r], e) /\ \A y \in Records : y # r => chain'[y] = chain[y]
  BY <1>1, <1>2 DEF PushUndo, TypeOK
<1>14. Pushed(t, r, e)
  BY <1>2, <1>3, <1>5, <1>7, <1>8, <1>9, <1>10, <1>11, <1>12, <1>13 DEF Pushed
<1>15. /\ pc' = [pc EXCEPT ![t] = "run"] /\ present' = present \cup {r} /\ pc[t] \in Writing /\ "run" \in Writing
       /\ \A u \in Txns : u # t => left'[u] = left[u] /\ calls'[u] = calls[u] /\ target'[u] = target[u]
  BY <1>1, <1>2, CalledOnce DEF TypeOK, Writing
<1>16. PushStep(t, "run", r, e)
  BY <1>2, <1>9, <1>13, <1>14, <1>15 DEF PushStep
<1> QED BY <1>5, <1>16

LEMMA CreatePushes ==
  ASSUME SInv, NEW t \in Txns, NEW r \in Records, CreatePessimistic(t, r)
  PROVE  /\ target[t] = <<r>> /\ pc[t] = "create"
         /\ calls' = calls
         /\ \/ /\ r \notin present
               /\ \E e \in Delta : PushStep(t, "run", r, e) /\ e.op = "Del" /\ e.img.tomb
            \/ UNCHANGED <<present, head, chain, undo>>
<1> DEFINE new == r \notin present
           cur == IF new THEN [props |-> [p \in Props |-> t], tomb |-> FALSE, cts |-> TxnId(t)]
                  ELSE head[r]
           ts == IF r \in Vertices /\ cur.cts = TxnId(t) THEN 0 ELSE cur.cts
           e == DelDelta(t, ts)
<1>1. TypeOK /\ CreateOpen /\ Absent
  BY StateFacts
<1>2. /\ Turn(t) /\ pc[t] = "create" /\ pc' = [pc EXCEPT ![t] = "run"] /\ Strategy[t] = "Pessimistic"
      /\ target[t] = <<r>> /\ calls' = calls /\ target' = [target EXCEPT ![t] = <<>>]
      /\ UNCHANGED <<start, cts, wset, pos, kept, active, watermark, wrote, left>>
      /\ IF new \/ Writable(t, r)
         THEN /\ PushUndo(t, r, e) /\ present' = present \cup {r}
              /\ head' = [head EXCEPT ![r] = cur]
         ELSE undo' = undo /\ present' = present /\ head' = head /\ chain' = chain
  BY DEF CreatePessimistic, Goto, graphVars, mgrVars
<1>3. CASE new
  <2>1. /\ cur = [props |-> [p \in Props |-> t], tomb |-> FALSE, cts |-> TxnId(t)] /\ cur.cts = TxnId(t)
        /\ \A p \in Props : cur.props[p] = t
        /\ ts \in {0, TxnId(t)} /\ (r \in Vertices => ts = 0)
    BY <1>3
  <2>2. ts \in Nat /\ cur \in Version
    <3>1. TxnId(t) \in Nat /\ t \in 0 .. MaxTxn
      BY IdFacts, TxnsAreNat
    <3>2. [props |-> [p \in Props |-> t], tomb |-> FALSE, cts |-> TxnId(t)] \in Version
      BY <3>1 DEF Version, Ts
    <3> HIDE DEF cur, ts
    <3> QED BY <2>1, <3>1, <3>2
  <2>3. PushUndo(t, r, e) /\ present' = present \cup {r} /\ head' = [head EXCEPT ![r] = cur]
    BY <1>2, <1>3
  <2> HIDE DEF cur, ts
  <2>4. e \in Delta /\ e.own = t /\ e.ts = ts /\ e.op = "Del" /\ e.img.tomb
    <3>1. NoImage \in Image /\ {} \in SUBSET Props /\ NoImage.tomb
      BY NothingTyped DEF NoImage
    <3>2. e \in Delta
      BY <2>2, <3>1, DeltaTyped
    <3> QED BY <3>1, <3>2 DEF DelDelta
  <2> HIDE DEF e
  <2>5. head'[r] = cur /\ \A y \in Records : y # r => head'[y] = head[y]
    BY <1>1, <2>3 DEF TypeOK
  <2>6. /\ undo' = [undo EXCEPT ![t] = Append(@, UndoRecord(r, e, chain[r]))]
        /\ chain'[r] = Append(chain[r], e) /\ \A y \in Records : y # r => chain'[y] = chain[y]
    BY <1>1, <2>3 DEF PushUndo, TypeOK
  <2>7. WriteBase(t, r, e.ts)
    BY <1>3, <2>1, <2>4 DEF WriteBase
  <2>8. LeadsNowhere(e, head[r], chain[r])
    BY <1>1, <1>3, <2>4 DEF LeadsNowhere, Absent, NoHead, HeadOf, NoImage
  <2>9. Pushed(t, r, e)
    BY <1>3, <2>1, <2>2, <2>4, <2>5, <2>6, <2>7, <2>8 DEF Pushed
  <2>10. /\ pc[t] \in Writing /\ "run" \in Writing
         /\ \A u \in Txns : u # t => left'[u] = left[u] /\ calls'[u] = calls[u] /\ target'[u] = target[u]
    BY <1>1, <1>2 DEF TypeOK, Writing
  <2>11. PushStep(t, "run", r, e)
    BY <1>2, <2>3, <2>5, <2>6, <2>9, <2>10 DEF PushStep
  <2> QED BY <1>2, <1>3, <2>4, <2>11
<1>4. CASE ~new
  <2>1. ~Writable(t, r)
    BY <1>1, <1>2, <1>4 DEF CreateOpen, OpenFor, Writable
  <2>2. undo' = undo /\ present' = present /\ head' = head /\ chain' = chain
    BY <1>2, <1>4, <2>1
  <2> QED BY <1>2, <2>2
<1> QED BY <1>3, <1>4

LEMMA DeletePushes ==
  ASSUME SInv, NEW t \in Txns, DeleteRecord(t)
  PROVE  \E x \in {"run", "delete"} :
            /\ pc' = [pc EXCEPT ![t] = x] /\ Strategy[t] = "Pessimistic"
            /\ \/ \E r \in Records, e \in Delta : PushStep(t, x, r, e)
               \/ UNCHANGED <<present, head, chain, undo>>
<1> DEFINE r == Head(target[t])
           e == CreateDelta(t, ImageOf(head[r]), head[r].cts)
<1>1. TypeOK /\ StrategyOK(t) /\ Targeted
  BY StateFacts DEF Strategies
<1>2. /\ Turn(t) /\ pc[t] = "delete" /\ present' = present /\ calls' = calls
      /\ UNCHANGED <<start, cts, wset, pos, kept, active, watermark, wrote, left>>
      /\ IF Writable(t, r)
         THEN PushUndo(t, r, e) /\ head' = [head EXCEPT ![r].tomb = TRUE, ![r].cts = TxnId(t)]
         ELSE undo' = undo /\ chain' = chain /\ head' = head
  BY DEF DeleteRecord, mgrVars
<1>3. PICK x \in {"run", "delete"} : pc' = [pc EXCEPT ![t] = x]
  BY DEF DeleteRecord, Goto
<1>4. \A u \in Txns : u # t => target'[u] = target[u]
  <2>1. PICK rest : target' = [target EXCEPT ![t] = rest]
    BY DEF DeleteRecord
  <2> QED BY <1>1, <2>1 DEF TypeOK
<1>5. Strategy[t] = "Pessimistic"
  BY <1>1, <1>2, GraphAssumption DEF StrategyOK
<1>6. r \in Records
  <2>1. target[t] \in Seq(Records) /\ target[t] # <<>>
    BY <1>1, <1>2 DEF TypeOK, Targeted
  <2> QED BY <2>1
<1> HIDE DEF r
<1>7. CASE Writable(t, r)
  <2>1. PICK h \in Version : h = head[r]
    BY <1>1, <1>6, HeadFacts
  <2>2. ImageOf(h) \in Image /\ h.cts \in Nat
    BY VersionTyped
  <2>3. e \in Delta /\ e.own = t /\ e.ts = h.cts /\ e.op = "Create" /\ e.idx = Props /\ e.img = ImageOf(h)
    <3>1. {} \in SUBSET Props
      OBVIOUS
    <3>2. e \in Delta
      BY <2>1, <2>2, <3>1, DeltaTyped
    <3> QED BY <2>1, <3>2 DEF CreateDelta
  <2> DEFINE h2 == [h EXCEPT !.tomb = TRUE, !.cts = TxnId(t)]
  <2>4. PushUndo(t, r, e) /\ head' = [head EXCEPT ![r] = h2]
    BY <1>1, <1>2, <1>6, <1>7, <2>1 DEF TypeOK
  <2>5. h2 \in Version /\ h2.cts = TxnId(t) /\ h2.tomb /\ h2.props = h.props
    BY IdFacts DEF Version, Ts
  <2> HIDE DEF h2, e
  <2>6. head'[r] = h2 /\ \A y \in Records : y # r => head'[y] = head[y]
    BY <1>1, <1>6, <2>4 DEF TypeOK
  <2>7. /\ undo' = [undo EXCEPT ![t] = Append(@, UndoRecord(r, e, chain[r]))]
        /\ chain'[r] = Append(chain[r], e) /\ \A y \in Records : y # r => chain'[y] = chain[y]
    BY <1>1, <1>6, <2>4 DEF PushUndo, TypeOK
  <2>8. LeadsBack(h2, e, h)
    <3>1. h.props \in [Props -> 0 .. MaxTxn]
      BY DEF Version
    <3>2. set_props(h2.props, Props, h.props) = h.props
      BY <2>5, <3>1 DEF set_props
    <3> QED BY <2>3, <2>5, <3>2 DEF LeadsBack, Undone, ImageOf
  <2>9. WriteBase(t, r, e.ts) /\ r \in present
    BY <1>7, <2>1, <2>3 DEF Writable, WriteBase
  <2>10. Pushed(t, r, e)
    BY <2>1, <2>3, <2>5, <2>6, <2>7, <2>8, <2>9 DEF Pushed
  <2>11. pc[t] \in Writing /\ x \in Writing /\ present' = present \cup {r}
    BY <1>2, <2>9 DEF Writing
  <2>12. PushStep(t, x, r, e)
    BY <1>2, <1>3, <1>4, <1>6, <2>6, <2>7, <2>10, <2>11 DEF PushStep
  <2> QED BY <1>3, <1>5, <1>6, <2>3, <2>12
<1>8. CASE ~Writable(t, r)
  BY <1>2, <1>3, <1>5, <1>8
<1> QED BY <1>7, <1>8

LEMMA WriteVInv ==
  ASSUME SInv, NEW t \in Txns, NEW x \in {"run", "delete"}, NEW r \in Records, NEW e \in Delta,
         Strategy[t] = "Pessimistic", PushStep(t, x, r, e), x = "delete" => "delete" \in Calls,
         WriteOnce => /\ pc[t] \in {"run", "create"}
                      /\ \E j \in DOMAIN calls'[t] : calls'[t][j] = r
                      /\ \A i \in DOMAIN calls[t] : \E j \in DOMAIN calls'[t] : calls'[t][j] = calls[t][i]
                      /\ \A i \in DOMAIN undo[t] : undo[t][i].rec # r
                      /\ e.op # "Create" /\ (e.op = "Del" => e.img.tomb)
  PROVE  VInv'
<1>1. TypeOK /\ TxnOK(t) /\ Marked /\ undo[t] \in Seq(UndoEntry) /\ chain[r] \in Seq(Delta)
  BY StateFacts DEF TypeOK
<1>2. pc'[t] = x
  BY PushPlaces
<1>3. /\ pc[t] \in Writing /\ start' = start /\ active' = active /\ e.own = t
      /\ chain'[r] = Append(chain[r], e) /\ head'[r].cts = TxnId(t)
      /\ undo' = [undo EXCEPT ![t] = Append(@, UndoRecord(r, e, chain[r]))]
      /\ \A y \in Records : y # r => head'[y] = head[y] /\ chain'[y] = chain[y]
  BY DEF PushStep, Pushed
<1>4. Timed(t)'
  <2>1. start[t] >= 3 /\ t \in active
    BY <1>1, <1>3 DEF TxnOK, Timed, Started, Unfinished, Writing
  <2> QED BY <1>2, <1>3, <2>1 DEF Timed
<1>5. Buffered(t)' /\ Confirmed(t)' /\ Calling(t)' /\ Staged(t)'
  BY <1>2 DEF Buffered, Confirmed, Calling, Unregistered, Staged
<1>6. Undoable(t)'
  <2>1. CASE WriteOnce
    <3>1. PICK d \in Seq(UndoEntry) : d = undo[t]
      BY <1>1
    <3>2. PICK n \in UndoEntry : n = UndoRecord(r, e, chain[r])
      BY <1>1 DEF UndoRecord, UndoEntry
    <3>3. n.rec = r /\ n.e = e /\ n.next = chain[r]
      BY <3>2 DEF UndoRecord
    <3>4. undo'[t] = Append(d, n)
      BY <1>1, <1>3, <3>1, <3>2 DEF TypeOK
    <3>5. \A i \in DOMAIN Append(d, n) : \/ i \in DOMAIN d /\ Append(d, n)[i] = d[i]
                                         \/ i = Len(d) + 1 /\ Append(d, n)[i] = n
      OBVIOUS
    <3>6. \A i \in DOMAIN d : d[i].rec # r
      BY <2>1, <3>1
    <3> SUFFICES ASSUME NEW i \in DOMAIN Append(d, n)
                 PROVE  LET u == Append(d, n)[i] IN
                        /\ \E j \in DOMAIN calls'[t] : calls'[t][j] = u.rec
                        /\ \A j \in DOMAIN Append(d, n) : j # i => Append(d, n)[j].rec # u.rec
                        /\ head'[u.rec].cts = TxnId(t)
                        /\ chain'[u.rec] = Append(u.next, u.e)
                        /\ u.e.own = t /\ u.e.op # "Create" /\ (u.e.op = "Del" => u.e.img.tomb)
                        /\ \A j \in DOMAIN u.next : u.next[j].own # t
      BY <2>1, <3>4 DEF Undoable
    <3>7. CASE i \in DOMAIN d /\ Append(d, n)[i] = d[i]
      <4>1. PICK u \in UndoEntry : u = d[i]
        BY <3>7
      <4>2. u.rec \in Records /\ u.rec # r
        BY <3>6, <3>7, <4>1 DEF UndoEntry
      <4>3. /\ \E j \in DOMAIN calls[t] : calls[t][j] = u.rec
            /\ \A j \in DOMAIN d : j # i => d[j].rec # u.rec
            /\ head[u.rec].cts = TxnId(t)
            /\ chain[u.rec] = Append(u.next, u.e)
            /\ u.e.own = t /\ u.e.op # "Create" /\ (u.e.op = "Del" => u.e.img.tomb)
            /\ \A j \in DOMAIN u.next : u.next[j].own # t
        BY SMTT(30), <1>1, <2>1, <3>1, <3>7, <4>1 DEF TxnOK, Undoable
      <4>4. head'[u.rec].cts = TxnId(t) /\ chain'[u.rec] = Append(u.next, u.e)
        BY <1>3, <4>2, <4>3
      <4>5. \E j \in DOMAIN calls'[t] : calls'[t][j] = u.rec
        BY <2>1, <4>3
      <4>6. \A j \in DOMAIN Append(d, n) : j # i => Append(d, n)[j].rec # u.rec
        BY <3>3, <3>5, <4>2, <4>3
      <4> QED BY <3>7, <4>1, <4>3, <4>4, <4>5, <4>6
    <3>8. CASE i = Len(d) + 1 /\ Append(d, n)[i] = n
      <4>1. \A j \in DOMAIN Append(d, n) : j # i => Append(d, n)[j].rec # r
        BY <3>5, <3>6, <3>8
      <4>2. \A j \in DOMAIN chain[r] : chain[r][j].own # t
        <5>1. head[r].cts # TxnId(t)
          BY <1>1, <1>3, <3>1, <3>6 DEF Marked, MarkOf
        <5> QED BY <5>1, PushBase
      <4>3. \E j \in DOMAIN calls'[t] : calls'[t][j] = r
        BY <2>1
      <4>4. e.op # "Create" /\ (e.op = "Del" => e.img.tomb)
        BY <2>1
      <4> QED BY SMTT(30), <1>3, <3>3, <3>8, <4>1, <4>2, <4>3, <4>4
    <3> QED BY <3>5, <3>7, <3>8
  <2>2. CASE ~WriteOnce
    BY <1>2, <2>2 DEF Undoable
  <2> QED BY <2>1, <2>2
<1> QED BY <1>4, <1>5, <1>6, PushInv DEF TxnOK

\* A client that writes a record once has not written it before.
LEMMA NotCalled ==
  ASSUME SInv, NEW t \in Txns, NEW r \in Records, WriteOnce, MayCall(t, "set", r)
  PROVE  \A i \in DOMAIN undo[t] : undo[t][i].rec # r
<1>1. TypeOK /\ TxnOK(t)
  BY StateFacts
<1>2. PICK c \in Seq(Records) : c = calls[t]
  BY <1>1 DEF TypeOK
<1> DEFINE S == {i \in 1 .. Len(c) : c[i] \in Reached("set", r)}
<1>3. Cardinality(S) < 1 /\ pc[t] = "run"
  BY <1>2 DEF MayCall, WriteOnce
<1>4. IsFiniteSet(S)
  <2>1. IsFiniteSet(1 .. Len(c))
    BY FS_Interval
  <2> QED BY <2>1, FS_Subset
<1>5. S = {}
  <2> HIDE DEF S
  <2>1. Cardinality(S) \in Nat /\ (Cardinality(S) = 0 <=> S = {})
    BY <1>4, FS_CardinalityType, FS_EmptySet
  <2> QED BY <1>3, <2>1
<1>6. \A i \in DOMAIN c : c[i] # r
  BY <1>5 DEF Reached
<1>7. \A i \in DOMAIN undo[t] : \E j \in DOMAIN c : c[j] = undo[t][i].rec
  BY <1>1, <1>2, <1>3 DEF TxnOK, Undoable
<1> QED BY <1>6, <1>7

LEMMA WriteCallVInv ==
  ASSUME SInv, NEW t \in Txns,
         \/ DeleteRecord(t)
         \/ \E r \in Records : CreatePessimistic(t, r) \/ \E p \in Props : SetPessimistic(t, r, p)
  PROVE  VInv'
<1>1. TypeOK /\ TxnOK(t) /\ Held
  BY StateFacts
<1>2. ASSUME NEW r \in Records, NEW p \in Props, SetPessimistic(t, r, p) PROVE VInv'
  <2>1. PICK e \in Delta : PushStep(t, "run", r, e) /\ e.op = "SetProps"
    BY <1>2, SetPushes
  <2>2. MayCall(t, "set", r) /\ Strategy[t] = "Pessimistic" /\ Called(t, r)
    BY <1>2 DEF SetPessimistic
  <2>3. pc[t] = "run"
    BY <2>2 DEF MayCall
  <2>4. WriteOnce => \A i \in DOMAIN undo[t] : undo[t][i].rec # r
    BY <2>2, NotCalled
  <2>5. /\ \A i \in DOMAIN calls[t] : \E j \in DOMAIN calls'[t] : calls'[t][j] = calls[t][i]
        /\ \E j \in DOMAIN calls'[t] : calls'[t][j] = r
    BY <1>1, <2>2, CalledOnce
  <2> QED BY <2>1, <2>2, <2>3, <2>4, <2>5, WriteVInv
<1>3. ASSUME NEW r \in Records, CreatePessimistic(t, r) PROVE VInv'
  <2>1. target[t] = <<r>> /\ pc[t] = "create" /\ calls' = calls
    BY <1>3, CreatePushes
  <2>2. Strategy[t] = "Pessimistic"
    BY <1>3 DEF CreatePessimistic
  <2>3. ASSUME r \notin present, NEW e \in Delta, PushStep(t, "run", r, e), e.op = "Del", e.img.tomb
        PROVE  VInv'
    <3>1. \A i \in DOMAIN undo[t] : undo[t][i].rec # r
      BY <1>1, <2>1, <2>3 DEF Held, Unfinished, Writing
    <3>2. \E j \in DOMAIN calls'[t] : calls'[t][j] = r
      <4>1. PICK j \in DOMAIN calls[t] : target[t] = <<calls[t][j]>>
        BY <1>1, <2>1 DEF TxnOK, Calling
      <4>2. calls[t][j] = r
        BY <2>1, <4>1
      <4> QED BY <2>1, <4>2
    <3> QED BY <2>1, <2>2, <2>3, <3>1, <3>2, WriteVInv
  <2>4. CASE UNCHANGED <<present, head, chain, undo>>
    <3>1. /\ Turn(t) /\ pc' = [pc EXCEPT ![t] = "run"] /\ target' = [target EXCEPT ![t] = <<>>]
          /\ UNCHANGED <<start, cts, wset, pos, kept, active, watermark, wrote, left>>
      BY <1>3 DEF CreatePessimistic, Goto, mgrVars
    <3>2. \A u \in Txns : u # t => target'[u] = target[u]
      BY <1>1, <3>1 DEF TypeOK
    <3> QED BY <2>1, <2>4, <3>1, <3>2, CallVInv
  <2> QED BY <1>3, <2>3, <2>4, CreatePushes
<1>4. CASE DeleteRecord(t)
  <2>1. PICK x \in {"run", "delete"} :
            /\ pc' = [pc EXCEPT ![t] = x] /\ Strategy[t] = "Pessimistic"
            /\ \/ \E r \in Records, e \in Delta : PushStep(t, x, r, e)
               \/ UNCHANGED <<present, head, chain, undo>>
    BY <1>4, DeletePushes
  <2>2. Turn(t) /\ pc[t] = "delete" /\ "delete" \in Calls /\ ~WriteOnce
    <3>1. Turn(t) /\ pc[t] = "delete"
      BY <1>4 DEF DeleteRecord
    <3> QED BY <1>1, <3>1 DEF TxnOK, Calling, WriteOnce
  <2>3. ASSUME NEW r \in Records, NEW e \in Delta, PushStep(t, x, r, e) PROVE VInv'
    BY <2>1, <2>2, <2>3, WriteVInv
  <2>4. CASE UNCHANGED <<present, head, chain, undo>>
    <3>1. UNCHANGED <<start, cts, wset, pos, kept, active, watermark, wrote, left, calls>>
      BY <1>4 DEF DeleteRecord, mgrVars
    <3>2. \A u \in Txns : u # t => target'[u] = target[u]
      <4>1. PICK rest : target' = [target EXCEPT ![t] = rest]
        BY <1>4 DEF DeleteRecord
      <4> QED BY <1>1, <4>1 DEF TypeOK
    <3> QED BY <2>1, <2>2, <2>4, <3>1, <3>2, CallVInv
  <2> QED BY <2>1, <2>3, <2>4
<1> QED BY <1>2, <1>3, <1>4

-----------------------------------------------------------------------------
(* Commit and abort.                                                         *)

LEMMA TurnAbort ==
  ASSUME SInv, NEW t \in Txns, Turn(t), pc[t] \in {"run", "commit"}, pc' = [pc EXCEPT ![t] = "abort"],
         UNCHANGED <<present, head, chain, undo, pos, kept, wrote, watermark, active, start, cts, wset,
                     calls, target>>,
         \A u \in Txns : u # t => left'[u] = left[u],
         WriteOnce \/ Strategy[t] = "Optimistic"
  PROVE  VInv'
<1>1. TypeOK /\ TxnOK(t) /\ StrategyOK(t) /\ watermark \in Nat
  BY StateFacts DEF TypeOK, Ts, Strategies
<1>2. CalmStep(t, "abort")
  BY <1>1 DEF CalmStep
<1>3. pc'[t] = "abort" /\ Grows
  BY <1>2, CalmPlaces
<1>4. Timed(t)'
  <2>1. start[t] >= 3 /\ t \in active
    BY <1>1 DEF TxnOK, Timed, Started, Unfinished, Writing
  <2> QED BY <1>3, <2>1 DEF Timed
<1>5. Buffered(t)' /\ Confirmed(t)' /\ Calling(t)'
  BY <1>3 DEF Buffered, Confirmed, Calling, Unregistered
<1>6. Undoable(t)'
  <2>1. CASE WriteOnce
    BY <1>1, <1>3, <2>1 DEF TxnOK, Undoable
  <2>2. CASE ~WriteOnce
    BY <2>2 DEF Undoable
  <2> QED BY <2>1, <2>2
<1>7. Staged(t)'
  <2> SUFFICES ASSUME Strategy[t] = "Optimistic", NEW r \in Records PROVE IntentOK(t, r)'
    BY DEF Staged
  <2>1. IntentOK(t, r)
    BY <1>1 DEF TxnOK, Staged
  <2> QED BY <1>3, <2>1, IntentKept, SteadyOld
<1> QED BY <1>2, <1>4, <1>5, <1>6, <1>7, CalmInv DEF TxnOK

LEMMA AbortVInv ==
  ASSUME SInv, NEW t \in Txns, Abort(t)
  PROVE  VInv'
<1>1. /\ Turn(t) /\ pc[t] = "run" /\ "abort" \in Calls /\ pc' = [pc EXCEPT ![t] = "abort"]
      /\ UNCHANGED <<present, head, chain, undo, pos, kept, wrote, watermark, active, start, cts, wset,
                     calls, target, left>>
  BY DEF Abort, Goto, graphVars, txnVars, mgrVars
<1>2. CarefulClients
  BY DEF SInv
<1>3. WriteOnce \/ Strategy[t] = "Optimistic"
  BY <1>1, <1>2, GraphAssumption DEF CarefulClients, NoRollback
<1> QED BY <1>1, <1>3, TurnAbort

LEMMA CommitLockVInv ==
  ASSUME SInv, NEW t \in Txns, CommitLock(t)
  PROVE  VInv'
<1>1. /\ TypeOK /\ TxnOK(t) /\ StrategyOK(t) /\ Marked /\ watermark \in Nat /\ IInv /\ ClockBound
      /\ cts[t] \in Nat /\ is_commit_ts(cts[t])
  BY StateFacts, ClockFacts DEF TypeOK, Ts, Strategies
<1>2. /\ Turn(t) /\ pc[t] = "commit" /\ left' = [left EXCEPT ![t] = Intents(t)]
      /\ UNCHANGED <<present, head, chain, undo, pos, kept, wrote, watermark, active, start, cts, wset,
                     calls, target>>
  BY DEF CommitLock, graphVars, txnVars, mgrVars
<1>3. PICK x \in {"abort", "apply", "promote"} :
        /\ pc' = [pc EXCEPT ![t] = x]
        /\ x = "abort" => ~(/\ Isolation[t] = "Serializable" => ReadsValid(t)
                            /\ \A r \in Intents(t) : IntentValid(t, r))
        /\ x = "apply" => Intents(t) # {} /\ \A r \in Intents(t) : IntentValid(t, r)
        /\ x = "promote" => Intents(t) = {}
  BY DEF CommitLock, Goto
<1>4. left'[t] = Intents(t) /\ \A u \in Txns : u # t => left'[u] = left[u]
  BY <1>1, <1>2 DEF TypeOK
<1>5. CASE x = "abort"
  <2>1. WriteOnce \/ Strategy[t] = "Optimistic"
    <3> SUFFICES ASSUME Strategy[t] = "Pessimistic", ~WriteOnce PROVE FALSE
      BY GraphAssumption
    <3>1. Isolation[t] = "Snapshot"
      BY DEF SInv, CarefulClients, NoRollback
    <3>2. Intents(t) = {}
      BY <1>1 DEF StrategyOK
    <3> QED BY <1>3, <1>5, <3>1, <3>2
  <2> QED BY <1>2, <1>3, <1>4, <1>5, <2>1, TurnAbort
<1>6. CASE x \in {"apply", "promote"}
  <2>1. CalmStep(t, x)
    BY <1>1, <1>2, <1>3, <1>4, <1>6 DEF CalmStep, Writing
  <2>2. pc'[t] = x /\ Grows /\ \A u \in Txns : u # t => pc'[u] = pc[u]
    BY <2>1, CalmPlaces
  <2>3. Timed(t)'
    <3>1. /\ start[t] >= 3 /\ t \in active
          /\ \A u \in Started : u # t => start[u] < cts[t]
      BY <1>1, <1>2 DEF TxnOK, Timed, Started, Unfinished, Writing
    <3>2. \A u \in Txns : u # t /\ (u \in Started)' => u \in Started
      BY <2>2 DEF Started
    <3>3. \A u \in Started' : u \in Txns
      BY DEF Started
    <3>4. \A u \in Started' : u # t => start'[u] < cts'[t]
      BY <1>2, <3>1, <3>2, <3>3
    <3> QED BY <1>2, <3>1, <3>4 DEF Timed
  <2>4. Buffered(t)'
    <3>1. ASSUME NEW r \in Records, head[r].cts = cts[t] PROVE FALSE
      <4>1. Origin(cts[t])
        BY <1>1, <3>1, HeadDated
      <4> QED BY <1>1, <1>2, <4>1, OriginFacts
    <3>2. Strategy[t] = "Optimistic" => undo[t] = <<>>
      BY <1>1, <1>2 DEF StrategyOK
    <3>3. Strategy[t] = "Optimistic" => \A r \in Records : head[r].cts # TxnId(t)
      BY <1>1, <1>2, <3>2 DEF Marked, MarkOf, Writing
    <3>4. Intents(t)' = Intents(t)
      BY <1>2 DEF Intents
    <3> QED BY <1>2, <1>3, <1>4, <1>6, <2>2, <3>1, <3>2, <3>3, <3>4 DEF Buffered
  <2>5. Confirmed(t)'
    <3> SUFFICES ASSUME x = "apply", NEW r \in Intents(t) PROVE IntentValid(t, r)'
      BY <1>4, <2>2 DEF Confirmed
    <3>1. IntentValid(t, r)
      BY <1>3
    <3> QED BY <1>2, <3>1 DEF IntentValid
  <2>6. Calling(t)'
    BY <1>6, <2>2 DEF Calling, Unregistered
  <2>7. Undoable(t)'
    BY <1>6, <2>2 DEF Undoable
  <2>8. Staged(t)'
    <3> SUFFICES ASSUME Strategy[t] = "Optimistic", NEW r \in Records PROVE IntentOK(t, r)'
      BY DEF Staged
    <3>1. IntentOK(t, r)
      BY <1>1, <1>2 DEF TxnOK, Staged
    <3> QED BY <1>2, <2>2, <3>1, IntentKept, SteadyOld
  <2> QED BY <2>1, <2>3, <2>4, <2>5, <2>6, <2>7, <2>8, CalmInv DEF TxnOK
<1> QED BY <1>5, <1>6

LEMMA Promotes ==
  ASSUME SInv, NEW t \in Txns
  PROVE  /\ Promote(t) => \E r \in Records : PromoteStep(t, r)
         /\ \A r \in Records : PromoteIntent(t, r) => PromoteStep(t, r)
<1>1. TypeOK /\ Held /\ Absent /\ cts[t] \in Nat
  BY StateFacts DEF TypeOK, Ts
<1>2. ASSUME Promote(t) PROVE \E r \in Records : PromoteStep(t, r)
  <2> DEFINE k == pos[t] + 1
             r == undo[t][k].rec
  <2>1. /\ Turn(t) /\ pc[t] = "promote" /\ pos[t] < Len(undo[t]) /\ pos' = [pos EXCEPT ![t] = k]
        /\ UNCHANGED <<present, chain, undo, start, cts, wset, calls, target, kept, active, watermark, wrote, left>>
        /\ IF r \in present
           THEN head' = [head EXCEPT ![r].cts = cts[t]] /\ pc' = pc
           ELSE pc' = [pc EXCEPT ![t] = "panicked"] /\ head' = head
    BY <1>2 DEF Promote, Goto, txnVars, mgrVars
  <2>2. k \in DOMAIN undo[t]
    <3>1. undo[t] \in Seq(UndoEntry) /\ pos[t] \in Nat
      BY <1>1 DEF TypeOK
    <3> QED BY <2>1, <3>1
  <2>3. r \in Records /\ r \in present /\ head[r].cts \in {TxnId(t), cts[t]}
    BY <1>1, <2>1, <2>2, EntryFacts DEF Held, Unfinished
  <2> HIDE DEF r
  <2>4. head' = [head EXCEPT ![r].cts = cts[t]] /\ pc' = pc
    BY <2>1, <2>3
  <2>5. head[r].cts = TxnId(t) \/ head' = head
    <3> SUFFICES ASSUME head[r].cts = cts[t] PROVE head' = head
      BY <2>3
    <3>1. head \in [Records -> Version] /\ head[r] \in Version
      BY <1>1, <2>3 DEF TypeOK
    <3>2. [head[r] EXCEPT !.cts = cts[t]] = head[r]
      BY <3>1 DEF Version
    <3> QED BY <2>4, <3>1, <3>2
  <2>6. \A u \in Txns : u # t => left'[u] = left[u] /\ pos'[u] = pos[u]
    BY <1>1, <2>1 DEF TypeOK
  <2>7. PromoteStep(t, r)
    BY <2>1, <2>4, <2>5, <2>6 DEF PromoteStep
  <2> QED BY <2>3, <2>7
<1>3. ASSUME NEW r \in Records, PromoteIntent(t, r) PROVE PromoteStep(t, r)
  <2>1. /\ Turn(t) /\ pc[t] = "promote" /\ left' = [left EXCEPT ![t] = @ \ {r}] /\ pc' = pc
        /\ head' = [head EXCEPT ![r].cts = IF r \in present /\ head[r].cts = TxnId(t) THEN cts[t] ELSE head[r].cts]
        /\ UNCHANGED <<present, chain, undo, start, cts, wset, calls, target, kept, active, watermark, wrote, pos>>
    BY <1>3 DEF PromoteIntent, txnVars, mgrVars
  <2>2. \A u \in Txns : u # t => left'[u] = left[u] /\ pos'[u] = pos[u]
    BY <1>1, <2>1 DEF TypeOK
  <2>3. CASE head[r].cts = TxnId(t)
    <3>1. r \in present
      <4>1. r \notin present => head[r].cts = 0
        BY <1>1 DEF Absent, NoHead, HeadOf
      <4>2. TxnId(t) # 0
        BY IdFacts
      <4> QED BY <2>3, <4>1, <4>2
    <3>2. head' = [head EXCEPT ![r].cts = cts[t]]
      BY <2>1, <2>3, <3>1
    <3> QED BY <2>1, <2>2, <2>3, <3>2 DEF PromoteStep
  <2>4. CASE head[r].cts # TxnId(t)
    <3>1. head' = [head EXCEPT ![r].cts = head[r].cts]
      BY <2>1, <2>4
    <3>2. head' = head
      <4>1. head \in [Records -> Version] /\ head[r] \in Version
        BY <1>1 DEF TypeOK
      <4>2. [head[r] EXCEPT !.cts = head[r].cts] = head[r]
        BY <4>1 DEF Version
      <4> QED BY <3>1, <4>1, <4>2
    <3> QED BY <2>1, <2>2, <3>2 DEF PromoteStep
  <2> QED BY <2>3, <2>4
<1> QED BY <1>2, <1>3

LEMMA PromoteStepVInv ==
  ASSUME SInv, NEW t \in Txns, NEW r \in Records, PromoteStep(t, r)
  PROVE  VInv'
<1>1. TypeOK /\ TxnOK(t) /\ Marked /\ cts[t] \in Nat /\ is_commit_ts(cts[t])
  BY StateFacts, ClockFacts DEF TypeOK, Ts
<1>2. /\ pc[t] = "promote" /\ pc' = pc
      /\ \/ head[r].cts = TxnId(t) /\ head' = [head EXCEPT ![r].cts = cts[t]]
         \/ head' = head
      /\ UNCHANGED <<present, chain, undo, start, cts, wset, active>>
  BY DEF PromoteStep
<1>3. Timed(t)'
  BY <1>1, <1>2 DEF TxnOK, Timed, Started, Unfinished
<1>4. Buffered(t)'
  <2>1. ASSUME NEW y \in Records
        PROVE  \/ head'[y] = head[y]
               \/ head[y].cts = TxnId(t) /\ head'[y].cts = cts[t]
    <3>1. CASE head' = head
      BY <3>1
    <3>2. CASE head[r].cts = TxnId(t) /\ head' = [head EXCEPT ![r].cts = cts[t]]
      <4>1. head \in [Records -> Version] /\ head[y] \in Version
        BY <1>1 DEF TypeOK
      <4>2. [head[y] EXCEPT !.cts = cts[t]].cts = cts[t]
        BY <4>1 DEF Version
      <4>3. y = r => head'[y] = [head[y] EXCEPT !.cts = cts[t]]
        BY <3>2, <4>1
      <4>4. y # r => head'[y] = head[y]
        BY <3>2, <4>1
      <4> QED BY <3>2, <4>2, <4>3, <4>4
    <3> QED BY <1>2, <3>1, <3>2
  <2>2. cts[t] # TxnId(t)
    BY <1>1, IdFacts
  <2>3. \A y \in Records : head[y].cts = TxnId(t) => \E i \in DOMAIN undo[t] : undo[t][i].rec = y
    BY <1>1, <1>2 DEF Marked, MarkOf
  <2>4. \A y \in Records : head'[y].cts = cts[t] => \E i \in DOMAIN undo[t] : undo[t][i].rec = y
    BY <1>1, <1>2, <2>1, <2>3 DEF TxnOK, Buffered
  <2>5. ASSUME Strategy[t] = "Optimistic", NEW y \in Records, head'[y].cts = TxnId(t)
        PROVE  IF wset[t][y].kind = "Delete" THEN head'[y].tomb
               ELSE wset[t][y].kind # "None" /\ ImageOf(head'[y]) = wset[t][y].after
    <3>1. head'[y] = head[y]
      BY <2>1, <2>2, <2>5
    <3> QED BY <1>1, <1>2, <2>5, <3>1 DEF TxnOK, Buffered
  <2>6. Strategy[t] = "Optimistic" =>
          /\ \A i \in DOMAIN undo[t] : undo[t][i].rec \in Intents(t)
          /\ \A y \in Intents(t) : \E i \in DOMAIN undo[t] : undo[t][i].rec = y
    BY <1>1, <1>2 DEF TxnOK, Buffered
  <2>7. Intents(t)' = Intents(t)
    BY <1>2 DEF Intents
  <2> QED BY <1>2, <2>4, <2>5, <2>6, <2>7 DEF Buffered
<1>5. Confirmed(t)' /\ Calling(t)' /\ Undoable(t)' /\ Staged(t)'
  BY <1>2 DEF Confirmed, Calling, Unregistered, Undoable, Staged
<1> QED BY <1>3, <1>4, <1>5, PromoteInv DEF TxnOK

\* An intent that has been validated writes over the version it was staged on.
LEMMA ApplyPushes ==
  ASSUME SInv, NEW t \in Txns, NEW r \in Records, ApplyIntent(t, r)
  PROVE  \E x \in {"promote", "apply"}, e \in Delta :
            /\ PushStep(t, x, r, e)
            /\ left'[t] = IF x = "promote" THEN Intents(t) ELSE left[t] \ {r}
            /\ x = "promote" => left[t] = {r}
            /\ wset[t][r].kind = "Delete" => head'[r].tomb
            /\ wset[t][r].kind \in {"Insert", "Update"} => ImageOf(head'[r]) = wset[t][r].after
            /\ wset[t][r].kind # "None"
<1> DEFINE w == wset[t][r]
           cur == IF r \in present THEN head[r] ELSE NoHead
           delta == CASE w.kind = "Insert" -> DelDelta(t, cur.cts)
                      [] w.kind = "Update" -> SetDelta(t, ChangedProps(w.before, w.after), w.before, cur.cts)
                      [] w.kind = "Delete" -> CreateDelta(t, w.before, cur.cts)
           img == IF w.kind # "Delete" THEN w.after
                  ELSE [props |-> IF r \in present THEN cur.props ELSE w.before.props, tomb |-> TRUE]
<1>1. TypeOK /\ StrategyOK(t) /\ Validated /\ Applying /\ Absent /\ TxnOK(t)
  BY StateFacts DEF Strategies
<1>2. /\ Turn(t) /\ pc[t] = "apply" /\ r \in left[t]
      /\ PushUndo(t, r, delta) /\ present' = present \cup {r}
      /\ head' = [head EXCEPT ![r] = HeadOf(img, TxnId(t))]
      /\ left' = [left EXCEPT ![t] = IF @ = {r} THEN Intents(t) ELSE @ \ {r}]
      /\ pc' = [pc EXCEPT ![t] = IF left[t] = {r} THEN "promote" ELSE "apply"]
      /\ UNCHANGED <<start, cts, wset, pos, kept, active, watermark, wrote, calls, target>>
  BY DEF ApplyIntent, Goto, mgrVars
<1>3. w \in Intent /\ w.kind # "None" /\ IntentValid(t, r) /\ IntentOK(t, r) /\ Strategy[t] = "Optimistic"
  <2>1. Strategy[t] = "Optimistic"
    BY <1>1, <1>2, GraphAssumption DEF StrategyOK
  <2>2. w \in Intent /\ w.kind # "None"
    BY <1>1, <1>2 DEF Applying, Intents, TypeOK
  <2>3. IntentValid(t, r) /\ IntentOK(t, r)
    BY <1>1, <1>2, <2>1 DEF TxnOK, Confirmed, Staged
  <2> QED BY <2>1, <2>2, <2>3
<1>4. w.kind \in {"Insert", "Update", "Delete"} /\ w.before \in Image /\ w.after \in Image
  BY <1>3 DEF Intent
<1>5. r \in present => is_commit_ts(head[r].cts) /\ head[r].cts <= start[t]
  BY <1>1, <1>2 DEF Validated, ValidFor
<1>6. PICK h \in Version : h = head[r] /\ h.cts \in Nat
  BY <1>1, HeadFacts
<1>7. r \in present => h.cts # TxnId(t)
  BY <1>5, <1>6, IdFacts
<1>8. w.kind = "Insert" <=> r \notin present
  <2>1. w.kind = "Insert" => r \notin present
    BY <1>3, <1>6, <1>7 DEF IntentValid
  <2>2. w.kind # "Insert" => r \in present
    BY <1>3, <1>4 DEF IntentOK
  <2> QED BY <2>1, <2>2
<1>9. r \in present => w.before = ImageOf(h)
  <2> SUFFICES ASSUME r \in present PROVE w.before = ImageOf(h)
    OBVIOUS
  <2>1. h.cts = w.guard
    BY <1>3, <1>4, <1>6, <1>7, <1>8 DEF IntentValid
  <2>2. chain[r] \in Seq(Delta)
    BY <1>1, HeadFacts
  <2> DEFINE l == Len(chain[r]) + 1
  <2>3. VersionImage(h, chain[r], l) = ImageOf(h) /\ VersionTs(h, chain[r], l) = h.cts /\ l \in Versions(chain[r])
    BY <2>2, HeadIsLast
  <2> HIDE DEF l
  <2> QED BY <1>3, <1>4, <1>6, <1>8, <2>1, <2>3 DEF IntentOK
<1>10. cur = (IF r \in present THEN h ELSE NoHead) /\ cur.cts \in Nat /\ (r \notin present => cur.cts = 0)
  BY <1>6 DEF NoHead, HeadOf
<1> HIDE DEF w, cur
<1>11. img \in Image /\ (w.kind # "Delete" => img = w.after) /\ (w.kind = "Delete" => img.tomb)
  <2>1. CASE w.kind # "Delete"
    BY <1>4, <2>1
  <2>2. CASE w.kind = "Delete"
    <3>1. r \in present
      BY <1>8, <2>2
    <3> QED BY <1>10, <2>2, <3>1 DEF Image, Version
  <2> QED BY <2>1, <2>2
<1>12. PICK e \in Delta :
          /\ e = delta /\ e.own = t /\ e.ts = cur.cts
          /\ w.kind = "Insert" => e.op = "Del" /\ e.img.tomb
          /\ w.kind = "Update" => e.op = "SetProps" /\ e.idx = ChangedProps(w.before, w.after) /\ e.img = w.before
          /\ w.kind = "Delete" => e.op = "Create" /\ e.idx = Props /\ e.img = w.before
  <2>1. ChangedProps(w.before, w.after) \in SUBSET Props
    BY DEF ChangedProps
  <2>2. delta \in Delta
    BY <1>4, <1>10, <2>1, DeltaTyped
  <2>3. NoImage.tomb
    BY DEF NoImage
  <2>4. CASE w.kind = "Insert"
    <3>1. delta = DelDelta(t, cur.cts)
      BY <2>4
    <3> HIDE DEF delta
    <3> QED BY <2>2, <2>3, <2>4, <3>1 DEF DelDelta
  <2>5. CASE w.kind = "Update"
    <3>1. delta = SetDelta(t, ChangedProps(w.before, w.after), w.before, cur.cts)
      BY <2>5
    <3> HIDE DEF delta
    <3> QED BY <2>2, <2>5, <3>1 DEF SetDelta
  <2>6. CASE w.kind = "Delete"
    <3>1. delta = CreateDelta(t, w.before, cur.cts)
      BY <2>6
    <3> HIDE DEF delta
    <3> QED BY <2>2, <2>6, <3>1 DEF CreateDelta
  <2> QED BY <1>4, <2>4, <2>5, <2>6
<1>13. PushUndo(t, r, e)
  BY <1>2, <1>12
<1> HIDE DEF delta, img
<1>14. PICK i \in Image : i = img
  BY <1>11
<1>15. PICK h2 \in Version : h2 = HeadOf(i, TxnId(t))
  BY HeadTyped, IdFacts
<1>16. h2.props = i.props /\ h2.tomb = i.tomb /\ h2.cts = TxnId(t) /\ ImageOf(h2) = i
  BY <1>15 DEF HeadOf, ImageOf, Image
<1>17. head'[r] = h2 /\ \A y \in Records : y # r => head'[y] = head[y]
  BY <1>1, <1>2, <1>14, <1>15 DEF TypeOK
<1>18. IF r \in present THEN LeadsBack(h2, e, h) ELSE LeadsNowhere(e, h, chain[r])
  <2>1. CASE r \notin present
    BY <1>1, <1>6, <1>8, <1>12, <2>1 DEF LeadsNowhere, Absent, NoHead, HeadOf, NoImage
  <2>2. CASE r \in present /\ w.kind = "Update"
    <3>1. w.before = ImageOf(h) /\ i = w.after /\ w.before.tomb = w.after.tomb
      BY <1>3, <1>9, <1>11, <1>14, <2>2 DEF IntentOK, w
    <3>2. w.before.props \in [Props -> 0 .. MaxTxn] /\ w.after.props \in [Props -> 0 .. MaxTxn]
      BY <1>4 DEF Image
    <3>3. set_props(w.after.props, ChangedProps(w.before, w.after), w.before.props) = w.before.props
      BY <3>2 DEF set_props, ChangedProps
    <3>4. Undone(i, e) = [props |-> w.before.props, tomb |-> w.after.tomb]
      BY <1>12, <2>2, <3>1, <3>3 DEF Undone
    <3>5. Undone(i, e) = ImageOf(h)
      BY <3>1, <3>4 DEF ImageOf
    <3> QED BY <1>10, <1>12, <1>16, <2>2, <3>5 DEF LeadsBack
  <2>3. CASE r \in present /\ w.kind = "Delete"
    <3>1. w.before = ImageOf(h) /\ w.before.props \in [Props -> 0 .. MaxTxn]
      BY <1>4, <1>9, <2>3 DEF Image
    <3>2. set_props(i.props, Props, w.before.props) = w.before.props
      BY <3>1 DEF set_props
    <3>3. Undone(i, e) = [props |-> w.before.props, tomb |-> w.before.tomb]
      BY <1>12, <2>3, <3>2 DEF Undone
    <3>4. Undone(i, e) = ImageOf(h)
      BY <3>1, <3>3 DEF ImageOf
    <3> QED BY <1>10, <1>12, <1>16, <2>3, <3>4 DEF LeadsBack
  <2> QED BY <1>4, <1>8, <2>1, <2>2, <2>3
<1>19. ~h2.tomb => \A p \in Props : h2.props[p] = t \/ Clean(h2.props[p], start[t])
  <2> SUFFICES ASSUME ~h2.tomb, NEW p \in Props PROVE h2.props[p] = t \/ Clean(h2.props[p], start[t])
    OBVIOUS
  <2>1. w.kind \in {"Insert", "Update"} /\ i = w.after
    BY <1>4, <1>11, <1>14, <1>16
  <2>2. w.after.props[p] = t \/ Clean(w.after.props[p], start[t])
    BY <1>3, <2>1 DEF IntentOK, w
  <2> QED BY <1>16, <2>1, <2>2
<1>20. WriteBase(t, r, e.ts)
  <2>1. CASE r \in present
    <3>1. check_write_conflict(head[r].cts, t, start[t])
      BY <1>5, <1>6, <2>1, IdFacts DEF check_write_conflict
    <3> QED BY <1>6, <1>10, <1>12, <2>1, <3>1 DEF WriteBase
  <2>2. CASE r \notin present
    BY <1>10, <1>12, <2>2 DEF WriteBase
  <2> QED BY <2>1, <2>2
<1>21. /\ undo' = [undo EXCEPT ![t] = Append(@, UndoRecord(r, e, chain[r]))]
       /\ chain'[r] = Append(chain[r], e) /\ \A y \in Records : y # r => chain'[y] = chain[y]
  BY <1>1, <1>13 DEF PushUndo, TypeOK
<1>22. Pushed(t, r, e)
  BY <1>6, <1>12, <1>16, <1>17, <1>18, <1>19, <1>20, <1>21 DEF Pushed
<1>23. PICK x \in {"promote", "apply"} : /\ pc' = [pc EXCEPT ![t] = x]
                                         /\ x = "promote" => left[t] = {r}
                                         /\ x = "apply" => left[t] # {r}
  BY <1>2
<1>24. /\ left'[t] = (IF x = "promote" THEN Intents(t) ELSE left[t] \ {r})
       /\ \A u \in Txns : u # t => left'[u] = left[u]
  BY <1>1, <1>2, <1>23 DEF TypeOK
<1>25. pc[t] \in Writing /\ x \in Writing \cup {"promote"}
  BY <1>2 DEF Writing
<1>26. PushStep(t, x, r, e)
  BY <1>2, <1>17, <1>21, <1>22, <1>23, <1>24, <1>25 DEF PushStep
<1>27. /\ w.kind = "Delete" => head'[r].tomb
       /\ w.kind \in {"Insert", "Update"} => ImageOf(head'[r]) = w.after
  BY <1>11, <1>14, <1>16, <1>17
<1> QED BY <1>3, <1>23, <1>24, <1>26, <1>27 DEF w

LEMMA ApplyVInv ==
  ASSUME SInv, NEW t \in Txns, NEW r \in Records, ApplyIntent(t, r)
  PROVE  VInv'
<1>1. /\ TypeOK /\ TxnOK(t) /\ StrategyOK(t) /\ Validated /\ IInv /\ ClockBound /\ Applying
      /\ cts[t] \in Nat /\ is_commit_ts(cts[t])
  BY StateFacts, ClockFacts DEF Strategies, TypeOK, Ts
<1>2. PICK x \in {"promote", "apply"}, e \in Delta :
            /\ PushStep(t, x, r, e)
            /\ left'[t] = IF x = "promote" THEN Intents(t) ELSE left[t] \ {r}
            /\ x = "promote" => left[t] = {r}
            /\ wset[t][r].kind = "Delete" => head'[r].tomb
            /\ wset[t][r].kind \in {"Insert", "Update"} => ImageOf(head'[r]) = wset[t][r].after
            /\ wset[t][r].kind # "None"
  BY ApplyPushes
<1>3. pc[t] = "apply" /\ r \in left[t] /\ Strategy[t] = "Optimistic"
  <2>1. pc[t] = "apply" /\ r \in left[t]
    BY DEF ApplyIntent
  <2> QED BY <1>1, <2>1, GraphAssumption DEF StrategyOK
<1>4. pc'[t] = x /\ Grows /\ \A u \in Txns : u # t => pc'[u] = pc[u]
  BY <1>2, PushPlaces
<1>5. /\ start' = start /\ active' = active /\ cts' = cts /\ wset' = wset /\ head'[r].cts = TxnId(t)
      /\ present' = present \cup {r}
      /\ undo' = [undo EXCEPT ![t] = Append(@, UndoRecord(r, e, chain[r]))]
      /\ \A y \in Records : y # r => head'[y] = head[y] /\ chain'[y] = chain[y]
  BY <1>2 DEF PushStep, Pushed
<1>6. Intents(t)' = Intents(t)
  BY <1>5 DEF Intents
<1>7. /\ \A i \in DOMAIN undo'[t] : \/ i \in DOMAIN undo[t] /\ undo'[t][i] = undo[t][i]
                                    \/ undo'[t][i].rec = r
      /\ \A i \in DOMAIN undo[t] : i \in DOMAIN undo'[t] /\ undo'[t][i] = undo[t][i]
      /\ \E i \in DOMAIN undo'[t] : undo'[t][i].rec = r
  <2>1. PICK d \in Seq(UndoEntry) : d = undo[t]
    BY <1>1 DEF TypeOK
  <2> DEFINE n == UndoRecord(r, e, chain[r])
  <2>2. n.rec = r
    BY DEF UndoRecord
  <2> HIDE DEF n
  <2>3. undo'[t] = Append(d, n)
    BY <1>1, <1>5, <2>1 DEF TypeOK, n
  <2>4. /\ \A i \in DOMAIN Append(d, n) : \/ i \in DOMAIN d /\ Append(d, n)[i] = d[i]
                                          \/ Append(d, n)[i] = n
        /\ \A i \in DOMAIN d : i \in DOMAIN Append(d, n) /\ Append(d, n)[i] = d[i]
        /\ Len(d) + 1 \in DOMAIN Append(d, n) /\ Append(d, n)[Len(d) + 1] = n
    OBVIOUS
  <2> QED BY <2>1, <2>2, <2>3, <2>4
<1>8. Timed(t)'
  <2>1. /\ start[t] >= 3 /\ t \in active
        /\ \A u \in Started : u # t => start[u] < cts[t]
    BY <1>1, <1>3 DEF TxnOK, Timed, Started, Unfinished, Writing
  <2>2. \A u \in Txns : u # t /\ (u \in Started)' => u \in Started
    BY <1>4 DEF Started
  <2>3. \A u \in Started' : u \in Txns
    BY DEF Started
  <2>4. \A u \in Started' : u # t => start'[u] < cts'[t]
    BY <1>5, <2>1, <2>2, <2>3
  <2> QED BY <1>5, <2>1, <2>4 DEF Timed
<1>9. Buffered(t)'
  <2>1. ASSUME NEW y \in Records PROVE head'[y].cts # cts[t]
    <3>1. CASE y = r
      BY <1>1, <1>5, <3>1, IdFacts
    <3>2. CASE y # r
      <4>1. ASSUME head[y].cts = cts[t] PROVE FALSE
        <5>1. Origin(cts[t])
          BY <1>1, <4>1, HeadDated
        <5> QED BY <1>1, <1>3, <5>1, OriginFacts
      <4> QED BY <1>5, <3>2, <4>1
    <3> QED BY <3>1, <3>2
  <2>2. r \in Intents(t) /\ Intents(t) \subseteq Records
    BY <1>2 DEF Intents
  <2>3. \A i \in DOMAIN undo'[t] : undo'[t][i].rec \in Intents(t)
    <3>1. \A i \in DOMAIN undo[t] : undo[t][i].rec \in Intents(t)
      BY <1>1, <1>3 DEF Validated, ValidFor
    <3> QED BY <1>7, <2>2, <3>1
  <2>4. ASSUME NEW y \in Intents(t)
        PROVE  (x = "apply" /\ y \in left'[t]) \/ \E i \in DOMAIN undo'[t] : undo'[t][i].rec = y
    <3>1. y \in left[t] \/ \E i \in DOMAIN undo[t] : undo[t][i].rec = y
      BY <1>1, <1>3 DEF TxnOK, Buffered
    <3>2. CASE y = r
      BY <1>7, <3>2
    <3>3. CASE y # r /\ y \in left[t]
      BY <1>2, <3>3
    <3>4. CASE \E i \in DOMAIN undo[t] : undo[t][i].rec = y
      BY <1>7, <3>4
    <3> QED BY <3>1, <3>2, <3>3, <3>4
  <2>5. ASSUME NEW y \in Records, head'[y].cts = TxnId(t)
        PROVE  IF wset[t][y].kind = "Delete" THEN head'[y].tomb
               ELSE wset[t][y].kind # "None" /\ ImageOf(head'[y]) = wset[t][y].after
    <3>1. CASE y = r
      <4>1. PICK w \in Intent : w = wset[t][r]
        BY <1>1 DEF TypeOK
      <4>2. w.kind \in {"None", "Insert", "Update", "Delete"}
        BY DEF Intent
      <4> QED BY <1>2, <3>1, <4>1, <4>2
    <3>2. CASE y # r
      <4>1. head'[y] = head[y]
        BY <1>5, <3>2
      <4> QED BY <1>1, <1>3, <2>5, <4>1 DEF TxnOK, Buffered
    <3> QED BY <3>1, <3>2
  <2> QED BY <1>4, <1>5, <1>6, <2>1, <2>3, <2>4, <2>5 DEF Buffered
<1>10. Confirmed(t)'
  <2> SUFFICES ASSUME x = "apply", NEW y \in left'[t] PROVE IntentValid(t, y)'
    BY <1>4 DEF Confirmed
  <2>1. y \in left[t] /\ y # r /\ y \in Records
    BY <1>1, <1>2 DEF TypeOK
  <2>2. IntentValid(t, y)
    BY <1>1, <1>3, <2>1 DEF TxnOK, Confirmed
  <2>3. head'[y] = head[y] /\ (y \in present' <=> y \in present) /\ wset' = wset
    BY <1>5, <2>1
  <2> QED BY <2>2, <2>3 DEF IntentValid
<1>11. Calling(t)' /\ Undoable(t)'
  BY <1>4 DEF Calling, Unregistered, Undoable
<1>12. Staged(t)'
  <2> SUFFICES ASSUME x = "apply", NEW y \in Records, y \in left'[t] PROVE IntentOK(t, y)'
    BY <1>4 DEF Staged
  <2>1. y \in left[t] /\ y # r
    BY <1>2
  <2>2. IntentOK(t, y)
    BY <1>1, <1>3, <2>1 DEF TxnOK, Staged
  <2>3. KeepsOld(y, start[t])
    BY <1>5, <2>1, SteadyOld
  <2> QED BY <1>4, <1>5, <2>2, <2>3, IntentKept
<1> QED BY <1>2, <1>8, <1>9, <1>10, <1>11, <1>12, PushInv DEF TxnOK

\* Only clients that write each record once roll back, and every entry finds its
\* record as it left it.
LEMMA AbortPops ==
  ASSUME SInv, NEW t \in Txns, AbortEntry(t)
  PROVE  /\ WriteOnce /\ pos'[t] = pos[t] + 1 /\ pos'[t] \in DOMAIN undo[t]
         /\ LET u == undo[t][pos[t] + 1]
            IN  u.e \in Delta /\ u.next \in Seq(Delta) /\ u.rec \in Records /\ PopStep(t, u.rec, u.e, u.next)
<1> DEFINE k == pos[t] + 1
<1>1. TypeOK /\ TxnOK(t) /\ StrategyOK(t) /\ Held /\ pos[t] \in Nat /\ undo[t] \in Seq(UndoEntry)
  BY StateFacts DEF Strategies, TypeOK
<1>2. /\ Turn(t) /\ pc[t] = "abort" /\ pos[t] < Len(undo[t]) /\ pos' = [pos EXCEPT ![t] = k]
      /\ UNCHANGED <<pc, present, undo, start, cts, wset, left, calls, target, kept, active, watermark, wrote>>
  BY DEF AbortEntry, txnVars, mgrVars
<1>3. k \in DOMAIN undo[t] /\ k > pos[t] /\ pos'[t] = k /\ \A u \in Txns : u # t => pos'[u] = pos[u]
  BY <1>1, <1>2 DEF TypeOK
<1>4. WriteOnce
  <2> SUFFICES ASSUME ~WriteOnce PROVE FALSE
    OBVIOUS
  <2>1. Strategy[t] = "Optimistic"
    BY <1>1, <1>2, GraphAssumption DEF TxnOK, Undoable
  <2>2. undo[t] = <<>>
    BY <1>1, <1>2, <2>1 DEF StrategyOK
  <2> QED BY <1>1, <1>2, <2>2
<1>5. PICK u \in UndoEntry : u = undo[t][k]
  BY <1>1, <1>3
<1>6. u.rec \in Records /\ u.e \in Delta /\ u.next \in Seq(Delta)
  BY DEF UndoEntry
<1>7. /\ \A j \in DOMAIN undo[t] : j # k => undo[t][j].rec # u.rec
      /\ head[u.rec].cts = TxnId(t) /\ chain[u.rec] = Append(u.next, u.e)
      /\ u.e.own = t /\ u.e.op # "Create" /\ (u.e.op = "Del" => u.e.img.tomb)
      /\ \A j \in DOMAIN u.next : u.next[j].own # t
  BY ZenonT(60), <1>1, <1>2, <1>3, <1>4, <1>5 DEF TxnOK, Undoable
<1>8. u.rec \in present
  BY <1>1, <1>2, <1>3, <1>5 DEF Held, Unfinished
<1>9. PICK r \in Records, e \in Delta : r = u.rec /\ e = u.e
  BY <1>6
<1>10. head' = [head EXCEPT ![r] = Rollback(head[r], e)] /\ chain' = [chain EXCEPT ![r] = u.next]
  BY ZenonT(60), <1>5, <1>7, <1>8, <1>9 DEF AbortEntry
<1>11. PICK h \in Version : h = head[r]
  BY <1>1, <1>9, HeadFacts
<1>12. PICK h2 \in Version : h2 = Rollback(h, e)
  BY RollbackTyped
<1>13. /\ head'[r] = h2 /\ chain'[r] = u.next
       /\ \A y \in Records : y # r => head'[y] = head[y] /\ chain'[y] = chain[y]
  BY <1>1, <1>9, <1>10, <1>11, <1>12 DEF TypeOK
<1>14. LeadsBack(h, e, h2)
  <2>1. e.op \in {"SetProps", "Del"}
    BY <1>7, <1>9 DEF Delta
  <2>2. h2.props = set_props(h.props, e.idx, e.img.props) /\ h2.cts = e.ts
    BY <1>12 DEF Rollback
  <2>3. h2.tomb = IF e.op = "SetProps" THEN h.tomb ELSE e.img.tomb
    <3>1. CASE e.op = "SetProps"
      BY <1>12, <3>1 DEF Rollback
    <3>2. CASE e.op = "Del"
      <4>1. h2.tomb = TRUE
        BY <1>12, <3>2 DEF Rollback
      <4>2. e.img.tomb = TRUE
        <5>1. e.img.tomb \in BOOLEAN
          BY DEF Delta, Image
        <5> QED BY <1>7, <1>9, <3>2, <5>1
      <4> QED BY <3>2, <4>1, <4>2
    <3> QED BY <2>1, <3>1, <3>2
  <2> QED BY <2>2, <2>3 DEF LeadsBack, Undone, ImageOf
<1>15. \A i \in DOMAIN undo[t] : undo[t][i].rec = r => ~(i > k)
  BY <1>1, <1>7, <1>9
<1>16. \A i \in DOMAIN undo[t] : undo[t][i].rec # r => (i > k <=> i > pos[t])
  <2>1. \A i \in DOMAIN undo[t] : i \in Nat /\ (undo[t][i].rec # r => i # k)
    BY <1>1, <1>5, <1>9
  <2> QED BY <1>1, <2>1
<1>17. PopStep(t, r, e, u.next)
  BY <1>2, <1>3, <1>7, <1>8, <1>9, <1>11, <1>13, <1>14, <1>15, <1>16 DEF PopStep
<1> QED BY <1>3, <1>4, <1>5, <1>6, <1>9, <1>17

LEMMA AbortEntryVInv ==
  ASSUME SInv, NEW t \in Txns, AbortEntry(t)
  PROVE  VInv'
<1>1. TypeOK /\ TxnOK(t) /\ StrategyOK(t) /\ undo[t] \in Seq(UndoEntry) /\ pos[t] \in Nat
  BY StateFacts DEF Strategies, TypeOK
<1>2. PICK u \in UndoEntry : u = undo[t][pos[t] + 1]
  <2>1. pos[t] + 1 \in DOMAIN undo[t]
    BY AbortPops
  <2> QED BY <1>1, <2>1
<1>3. PICK r \in Records, e \in Delta, c \in Seq(Delta) :
        r = u.rec /\ e = u.e /\ c = u.next /\ PopStep(t, r, e, c)
  BY <1>2, AbortPops
<1>4. /\ WriteOnce /\ pos'[t] = pos[t] + 1 /\ pos'[t] \in DOMAIN undo[t]
  BY AbortPops
<1>5. /\ pc[t] = "abort" /\ pc' = pc /\ UNCHANGED <<undo, start, active, calls>>
      /\ \A i \in DOMAIN undo[t] : undo[t][i].rec = r => ~(i > pos'[t])
      /\ \A y \in Records : y # r => head'[y] = head[y] /\ chain'[y] = chain[y]
  BY <1>3 DEF PopStep
<1>6. Timed(t)'
  BY <1>1, <1>5 DEF TxnOK, Timed, Started, Unfinished
<1>7. Buffered(t)' /\ Confirmed(t)' /\ Calling(t)'
  BY <1>5 DEF Buffered, Confirmed, Calling, Unregistered
<1>8. Staged(t)'
  <2>1. undo[t] # <<>>
    BY <1>4
  <2>2. Strategy[t] # "Optimistic"
    BY <1>1, <1>5, <2>1 DEF StrategyOK
  <2> QED BY <2>2 DEF Staged
<1>9. Undoable(t)'
  <2> SUFFICES ASSUME NEW i \in DOMAIN undo[t]
               PROVE  /\ \E j \in DOMAIN calls[t] : calls[t][j] = undo[t][i].rec
                      /\ \A j \in DOMAIN undo[t] : j # i => undo[t][j].rec # undo[t][i].rec
                      /\ i > pos'[t] =>
                            /\ head'[undo[t][i].rec].cts = TxnId(t)
                            /\ chain'[undo[t][i].rec] = Append(undo[t][i].next, undo[t][i].e)
                            /\ undo[t][i].e.own = t /\ undo[t][i].e.op # "Create"
                            /\ undo[t][i].e.op = "Del" => undo[t][i].e.img.tomb
                            /\ \A j \in DOMAIN undo[t][i].next : undo[t][i].next[j].own # t
    BY <1>4, <1>5 DEF Undoable
  <2>1. PICK d \in UndoEntry : d = undo[t][i]
    BY <1>1
  <2>2. /\ \E j \in DOMAIN calls[t] : calls[t][j] = d.rec
        /\ \A j \in DOMAIN undo[t] : j # i => undo[t][j].rec # d.rec
        /\ i > pos[t] =>
              /\ head[d.rec].cts = TxnId(t) /\ chain[d.rec] = Append(d.next, d.e)
              /\ d.e.own = t /\ d.e.op # "Create"
              /\ d.e.op = "Del" => d.e.img.tomb
              /\ \A j \in DOMAIN d.next : d.next[j].own # t
    BY <1>1, <1>4, <1>5, <2>1 DEF TxnOK, Undoable
  <2>3. ASSUME i > pos'[t] PROVE i > pos[t] /\ head'[d.rec] = head[d.rec] /\ chain'[d.rec] = chain[d.rec]
    <3>1. d.rec \in Records /\ d.rec # r
      BY <1>5, <2>1, <2>3 DEF UndoEntry
    <3>2. i > pos[t]
      <4>1. i \in Nat
        BY <1>1
      <4> QED BY <1>1, <1>4, <2>3, <4>1
    <3> QED BY <1>5, <3>1, <3>2
  <2> QED BY <2>1, <2>2, <2>3
<1> QED BY <1>3, <1>6, <1>7, <1>8, <1>9, PopInv DEF TxnOK

-----------------------------------------------------------------------------
(* The invariant.                                                            *)

LEMMA InitVInv ==
  ASSUME Init
  PROVE  VInv
<1>1. ASSUME NEW r \in Records PROVE RecordOK(r)
  <2>1. chain[r] = <<>> /\ DOMAIN chain[r] = {} /\ Len(chain[r]) = 0 /\ chain[r] \in Seq(Delta)
    BY DEF Init
  <2>2. /\ head[r].cts \in {0, 2} /\ head[r] \in Version
        /\ head[r].tomb \/ head[r].props = NoProps
        /\ head[r].cts = 2 \/ head[r].tomb
    <3>1. head[r] = [props |-> NoProps, tomb |-> FALSE, cts |-> 2] \/ head[r] = NoHead
      BY DEF Init
    <3>2. NoProps \in [Props -> 0 .. MaxTxn]
      BY GraphAssumption DEF NoProps
    <3>3. NoHead = [props |-> NoProps, tomb |-> TRUE, cts |-> 0]
      BY DEF NoHead, HeadOf, NoImage
    <3>4. CASE head[r] = [props |-> NoProps, tomb |-> FALSE, cts |-> 2]
      BY <3>2, <3>4 DEF Version, Ts
    <3>5. CASE head[r] = [props |-> NoProps, tomb |-> TRUE, cts |-> 0]
      BY <3>2, <3>5 DEF Version, Ts
    <3> QED BY <3>1, <3>3, <3>4, <3>5
  <2>3. is_commit_ts(head[r].cts) /\ \A u \in Txns : head[r].cts # TxnId(u)
    BY <2>2, GraphAssumption DEF is_commit_ts, TxnId, Txns
  <2>4. \A k \in Versions(chain[r]) : /\ VersionTs(head[r], chain[r], k) = head[r].cts
                                      /\ VersionImage(head[r], chain[r], k) = ImageOf(head[r])
    <3>1. \A k \in Versions(chain[r]) : k = Len(chain[r]) + 1
      BY <2>1 DEF Versions
    <3> QED BY <2>1, <2>2, <3>1, HeadIsLast
  <2>5. Dated(r)
    <3>1. Origin(head[r].cts)
      BY <2>2 DEF Origin
    <3>2. ~ImageOf(head[r]).tomb => \A p \in Props : Clean(ImageOf(head[r]).props[p], head[r].cts)
      BY <2>2 DEF ImageOf, NoProps, Clean
    <3> QED BY <2>4, <3>1, <3>2 DEF Dated
  <2>6. Based(r)
    <3>1. 1 \in Versions(chain[r])
      BY <2>1 DEF Versions
    <3> QED BY <2>2, <2>4, <3>1 DEF Based
  <2> QED BY <2>1, <2>3, <2>5, <2>6 DEF RecordOK, MarkedClean, Owned, Runs, Topped, Known
<1>2. ASSUME NEW t \in Txns PROVE TxnOK(t)
  <2>1. /\ pc[t] = "new" /\ undo[t] = <<>> /\ DOMAIN undo[t] = {}
        /\ \A r \in Records : wset[t][r] = NoIntent /\ wset[t][r].kind = "None"
        /\ Intents(t) = {}
    BY DEF Init, NoIntent, Intents
  <2>2. Timed(t) /\ Buffered(t) /\ Confirmed(t) /\ Calling(t) /\ Undoable(t)
    BY <2>1 DEF Timed, Started, Unfinished, Writing, Buffered, Confirmed, Calling, Undoable
  <2>3. Staged(t)
    BY <2>1 DEF Staged, IntentOK
  <2> QED BY <2>2, <2>3 DEF TxnOK
<1> QED BY <1>1, <1>2 DEF VInv

LEMMA IdleVInv ==
  ASSUME SInv, UNCHANGED vars
  PROVE  VInv'
<1>1. UNCHANGED <<present, head, chain, pc, start, cts, undo, wset, pos, left, target, calls, active, kept,
                  watermark, wrote>>
  BY DEF vars, graphVars, txnVars, mgrVars
<1>2. Grows
  BY <1>1 DEF Grows, Past
<1>3. ASSUME NEW r \in Records PROVE RecordOK(r)'
  <2>1. KeepsOwners(r) /\ KeepsWriter(r)
    BY <1>1 DEF KeepsOwners, KeepsWriter, Retained, Busy
  <2> QED BY <1>1, <1>2, <2>1, RecordKept
<1>4. ASSUME NEW t \in Txns PROVE TxnOK(t)'
  <2>1. Timed(t) /\ Buffered(t) /\ Confirmed(t) /\ Calling(t) /\ Undoable(t) /\ Staged(t)
    BY StateFacts DEF TxnOK
  <2>2. Timed(t)' /\ Confirmed(t)' /\ Calling(t)'
    BY <1>1, <2>1 DEF Timed, Started, Unfinished, Confirmed, IntentValid, Calling, Intents
  <2>3. Buffered(t)'
    BY <1>1, <2>1 DEF Buffered, Intents
  <2>4. Undoable(t)'
    BY <1>1, <2>1 DEF Undoable
  <2>5. Staged(t)'
    <3> SUFFICES ASSUME Strategy[t] = "Optimistic", pc[t] \notin {"promote", "committed"}, NEW r \in Records,
                        pc[t] = "apply" => r \in left[t]
                 PROVE  IntentOK(t, r)'
      BY <1>1 DEF Staged
    <3>1. IntentOK(t, r)
      BY <2>1 DEF Staged
    <3> QED BY <1>1, <1>2, <3>1, IntentKept, SteadyOld
  <2> QED BY <2>2, <2>3, <2>4, <2>5 DEF TxnOK
<1> QED BY <1>3, <1>4 DEF VInv

LEMMA ActVInv ==
  ASSUME SInv, NEW t \in Txns, Begin(t) \/ Operation(t) \/ Commit(t) \/ Rollbacks(t)
  PROVE  VInv'
<1>1. CASE Begin(t)
  BY <1>1, BeginVInv
<1>2. CASE Operation(t)
  BY <1>2, ReadCallVInv, StageVInv, WriteCallVInv DEF Operation
<1>3. CASE Commit(t)
  <2>1. CASE CommitDrawTs(t)
    BY <2>1, CommitDrawVInv
  <2>2. CASE CommitLock(t)
    BY <2>2, CommitLockVInv
  <2>3. CASE Promote(t) \/ \E r \in Records : PromoteIntent(t, r)
    BY <2>3, Promotes, PromoteStepVInv
  <2>4. CASE CommitFinish(t)
    BY <2>4, FinishSteps, FinishInv
  <2>5. CASE \E r \in Records : ApplyIntent(t, r)
    BY <2>5, ApplyVInv
  <2> QED BY <1>3, <2>1, <2>2, <2>3, <2>4, <2>5 DEF Commit
<1>4. CASE Rollbacks(t)
  <2>1. CASE AbortFinish(t)
    BY <2>1, FinishSteps, FinishInv
  <2> QED BY <1>4, <2>1, AbortVInv, AbortEntryVInv DEF Rollbacks
<1> QED BY <1>1, <1>2, <1>3, <1>4

LEMMA StepSInv == SInv /\ [Next]_vars => SInv'
<1> SUFFICES ASSUME SInv, [Next]_vars PROVE SInv'
  OBVIOUS
<1>1. LInv' /\ ReadsInv'
  BY StepLInv, StepReads DEF SInv
<1>2. VInv'
  BY ActVInv, IdleVInv DEF Next
<1>3. CarefulClients'
  BY DEF SInv, CarefulClients, NothingRemoved, WriteOnce, NoRollback, NoInsertDelete
<1> QED BY <1>1, <1>2, <1>3 DEF SInv

(* For careful clients, every version of a record, the head, the one an undo  *)
(* entry leads back to and the one a rollback restores alike, holds what was  *)
(* committed up to its timestamp, and the entries that older transactions     *)
(* still need are there.                                                      *)
THEOREM SnapshotInvariant == CarefulClients /\ Spec => []SInv
<1>1. CarefulClients /\ Init => SInv
  <2>1. CarefulClients => Serialized /\ NothingRemoved
    BY DEF CarefulClients
  <2> QED BY <2>1, InitIInv, InitTInv, InitGood, InitReads, InitVInv DEF SInv, LInv, Good
<1> QED BY <1>1, StepSInv, PTL DEF Spec

-----------------------------------------------------------------------------
(* Reads.                                                                    *)

LEMMA CleanBefore ==
  ASSUME SInv, NEW t \in Txns, NEW w, Clean(w, start[t])
  PROVE  w = 0 \/ (w \in Txns /\ Past(w) /\ cts[w] < start[t])
<1>1. ClockBound /\ IInv /\ \A u \in Txns : cts[u] \in Nat /\ start[u] \in Nat
  BY StateFacts, ClockFacts
<1> SUFFICES ASSUME w \in Txns, Past(w), cts[w] <= start[t] PROVE cts[w] < start[t]
  BY DEF Clean
<1>2. start[w] < cts[w]
  BY <1>1 DEF ClockBound, Past
<1>3. cts[w] # 0
  BY <1>1, <1>2
<1>4. cts[w] # start[t]
  BY <1>1, <1>3 DEF ClockBound
<1> QED BY <1>1, <1>4

\* Only what every reader with a snapshot after s has passed has been dropped.
LEMMA DroppedBehind ==
  ASSUME SInv, NEW r \in Records, NEW s \in Nat, ~(head[r].cts < s),
         \A w \in Txns : pc[w] = "committed" /\ cts[w] <= watermark => cts[w] < s
  PROVE  \A i \in DOMAIN chain[r] : chain[r][i].own \in Gone =>
            \E j \in DOMAIN chain[r] : j > i /\ j \in Older(chain[r], s)
<1> SUFFICES ASSUME NEW i \in DOMAIN chain[r], chain[r][i].own \in Gone
             PROVE  \E j \in DOMAIN chain[r] : j > i /\ j \in Older(chain[r], s)
  OBVIOUS
<1>1. chain[r] \in Seq(Delta) /\ Owned(r)
  BY StateFacts, HeadFacts DEF RecordOK
<1>2. PICK w \in Txns : w = chain[r][i].own
  BY <1>1, DeltaFacts
<1>3. OwnedBy(w, r, i)
  BY <1>1, <1>2 DEF Owned
<1>4. w \in Gone /\ pc[w] \notin Writing \cup {"promote", "abort"} /\ w \notin kept
  <2>1. KeptCommitted
    BY StateFacts
  <2> QED BY <1>2, <2>1 DEF Gone, KeptCommitted, Writing
<1>5. pc[w] = "committed" /\ cts[w] <= watermark
  BY <1>3, <1>4 DEF OwnedBy, Busy, Retained
<1>6. cts[w] < s
  BY <1>5
<1> QED BY <1>3, <1>4, <1>6 DEF OwnedBy, Busy, Older

\* What a transaction that began at s finds behind a head that is newer.
LEMMA WalkFinds ==
  ASSUME SInv, NEW r \in Records, NEW s \in Nat, s >= 3, ~(head[r].cts < s), is_commit_ts(s),
         \A w \in Txns : pc[w] = "committed" /\ cts[w] <= watermark => cts[w] < s,
         NEW k, k = Walk(chain[r], Gone, Older(chain[r], s))
  PROVE  /\ k \in Versions(chain[r])
         /\ ~VersionImage(head[r], chain[r], k).tomb =>
               \A p \in Props : Clean(VersionImage(head[r], chain[r], k).props[p], s)
<1>1. chain[r] \in Seq(Delta) /\ Dated(r) /\ Based(r) /\ head[r].cts \in Nat /\ TXN_ID_START \in Nat
  BY StateFacts, HeadFacts, GraphAssumption DEF RecordOK
<1>2. k = 1 \/ (k \in DOMAIN chain[r] /\ k \in Older(chain[r], s))
  BY <1>1, DroppedBehind, WalkArrives
<1>3. k \in Versions(chain[r])
  BY <1>1, WalkTyped
<1> SUFFICES ASSUME ~VersionImage(head[r], chain[r], k).tomb, NEW p \in Props
             PROVE  Clean(VersionImage(head[r], chain[r], k).props[p], s)
  BY <1>3
<1>4. /\ VersionTs(head[r], chain[r], k) \in Nat
      /\ VersionTs(head[r], chain[r], k) <= s /\ is_commit_ts(VersionTs(head[r], chain[r], k))
  <2>0. \A i \in DOMAIN chain[r] : chain[r][i].ts \in Nat
    BY <1>1, DeltaFacts
  <2>1. VersionTs(head[r], chain[r], k) \in Nat
    BY <1>1, <1>3, <2>0 DEF VersionTs, Versions
  <2>2. VersionTs(head[r], chain[r], k) <= s
    <3>1. CASE k = 1
      BY <1>1, <2>1, <3>1 DEF Based
    <3>2. CASE k \in DOMAIN chain[r] /\ k \in Older(chain[r], s)
      <4>1. VersionTs(head[r], chain[r], k) = chain[r][k].ts
        BY <1>1, <3>2 DEF VersionTs
      <4>2. chain[r][k].ts \in Nat /\ chain[r][k].ts < s
        BY <2>0, <3>2 DEF Older
      <4> QED BY <4>1, <4>2
    <3> QED BY <1>2, <3>1, <3>2
  <2> QED BY <1>1, <2>1, <2>2 DEF is_commit_ts
<1>5. Clean(VersionImage(head[r], chain[r], k).props[p], VersionTs(head[r], chain[r], k))
  BY <1>1, <1>3, <1>4 DEF Dated
<1> QED BY <1>4, <1>5, CleanUp

\* What a running transaction finds in the version chain of a record.
LEMMA VisibleClean ==
  ASSUME SInv, NEW t \in active, NEW r \in Records, NEW img,
         img = VisibleImage(head[r], chain[r], Gone, t, start[t]), ~img.tomb, NEW p \in Props
  PROVE  img.props[p] = t \/ Clean(img.props[p], start[t])
<1>1. /\ t \in Txns /\ TypeOK /\ IInv /\ ClockBound /\ RecordOK(r) /\ Timed(t)
      /\ head[r].cts \in Nat /\ chain[r] \in Seq(Delta)
      /\ start[t] \in Nat /\ is_commit_ts(start[t])
  <2>1. t \in Txns /\ TypeOK
    BY StateFacts DEF TypeOK
  <2> QED BY <2>1, StateFacts, HeadFacts, ClockFacts DEF TxnOK
<1>2. start[t] >= 3 /\ watermark <= start[t] /\ watermark \in Nat
  BY <1>1 DEF Timed, Started, IInv, IdsInOrder, Unregistered, WatermarkSafe, TypeOK, Ts
<1>3. \A w \in Txns : pc[w] = "committed" /\ cts[w] <= watermark => cts[w] < start[t]
  <2> SUFFICES ASSUME NEW w \in Txns, pc[w] = "committed", cts[w] <= watermark PROVE cts[w] < start[t]
    OBVIOUS
  <2>1. cts[w] \in Nat
    BY <1>1, ClockFacts
  <2>2. Clean(w, start[t])
    BY <1>2, <1>1, <2>1 DEF Clean, Past
  <2>3. w # 0
    BY DEF Txns
  <2> QED BY <1>1, <2>2, <2>3, CleanBefore
<1> DEFINE k == Walk(chain[r], Gone, Older(chain[r], start[t]))
<1>4. img = IF NewerThan(head[r].cts, t, start[t]) THEN VersionImage(head[r], chain[r], k) ELSE ImageOf(head[r])
  BY <1>1, VisibleIs
<1> HIDE DEF k
<1>5. CASE NewerThan(head[r].cts, t, start[t])
  <2>1. ~(head[r].cts < start[t])
    BY <1>1, <1>5, GraphAssumption DEF NewerThan, is_txn_id, is_commit_ts
  <2> QED BY <1>1, <1>2, <1>3, <1>4, <1>5, <2>1, WalkFinds DEF k
<1>6. CASE ~NewerThan(head[r].cts, t, start[t])
  <2>1. ImageOf(head[r]).tomb = head[r].tomb /\ ImageOf(head[r]).props = head[r].props
    BY DEF ImageOf
  <2>2. CASE head[r].cts = TxnId(t)
    BY <1>1, <1>4, <1>6, <2>1, <2>2 DEF RecordOK, MarkedClean
  <2>3. CASE is_commit_ts(head[r].cts) /\ head[r].cts <= start[t]
    <3>1. Clean(head[r].props[p], head[r].cts)
      BY <1>4, <1>6, <2>1, <2>3, HeadDated
    <3> QED BY <1>1, <1>4, <1>6, <2>1, <2>3, <3>1, CleanUp
  <2> QED BY <1>1, <1>6, <2>2, <2>3, IdFacts DEF NewerThan
<1> QED BY <1>5, <1>6

(* No dirty read: whatever a transaction of a careful client sees was there   *)
(* from the start, or written by itself, or by a transaction that committed   *)
(* before it began, although writers change records in place, commits give    *)
(* them their timestamp one by one and collection drops old versions.         *)
THEOREM ReadsAreClean == CarefulClients /\ Spec => []NoDirtyRead
<1>1. SInv => NoDirtyRead
  <2> SUFFICES ASSUME SInv, NEW t \in active, NEW r \in Records, NEW p \in Props,
                      pc[t] \in {"run", "create", "delete"}, Sees(t, r), NEW w, w = Read(t, r).props[p]
               PROVE  w \in {0, t} \/ (pc[w] \in {"promote", "committed"} /\ cts[w] < start[t])
    BY DEF NoDirtyRead
  <2>1. t \in Txns /\ StrategyOK(t) /\ Staged(t) /\ wset[t][r] \in Intent
    BY StateFacts DEF TypeOK, Strategies, TxnOK
  <2>2. w = t \/ Clean(w, start[t])
    <3>1. CASE wset[t][r].kind \in {"Insert", "Update"}
      <4>1. Strategy[t] = "Optimistic"
        <5>1. r \in Intents(t)
          BY <3>1 DEF Intents
        <5>2. Strategy[t] \in {"Pessimistic", "Optimistic"}
          BY <2>1, GraphAssumption
        <5> QED BY <2>1, <5>1, <5>2 DEF StrategyOK
      <4>2. IntentOK(t, r)
        BY <2>1, <4>1 DEF Staged
      <4>3. Read(t, r) = wset[t][r].after
        BY <3>1 DEF Read
      <4> QED BY <3>1, <4>2, <4>3 DEF IntentOK
    <3>2. CASE wset[t][r].kind = "Delete"
      BY <3>2 DEF Sees, Read, NoImage
    <3>3. CASE wset[t][r].kind = "None"
      <4>1. Read(t, r) = IF r \notin present THEN NoImage ELSE VisibleImage(head[r], chain[r], Gone, t, start[t])
        BY <3>3 DEF Read
      <4>2. r \in present /\ ~VisibleImage(head[r], chain[r], Gone, t, start[t]).tomb
        BY <4>1 DEF Sees, NoImage
      <4> QED BY <4>1, <4>2, VisibleClean
    <3> QED BY <2>1, <3>1, <3>2, <3>3 DEF Intent
  <2>3. w = t \/ w = 0 \/ (w \in Txns /\ Past(w) /\ cts[w] < start[t])
    BY <2>1, <2>2, CleanBefore
  <2> QED BY <2>3 DEF Past
<1> QED BY <1>1, SnapshotInvariant, PTL

(* An aborted transaction leaves none of its data in a committed version:     *)
(* abort_at finds its own undo entry on top of every record it has written,   *)
(* and puts back the version below.                                           *)
THEOREM AbortsLeaveNothing == CarefulClients /\ Spec => []AbortLeavesNoData
<1>1. SInv => AbortLeavesNoData
  <2> SUFFICES ASSUME SInv, NEW r \in present, NEW p \in Props, is_commit_ts(head[r].cts), ~head[r].tomb
               PROVE  head[r].props[p] = 0 \/ pc[head[r].props[p]] # "aborted"
    BY DEF AbortLeavesNoData
  <2>1. r \in Records
    BY StateFacts DEF TypeOK
  <2>2. Clean(head[r].props[p], head[r].cts)
    BY <2>1, HeadDated
  <2> QED BY <2>2 DEF Clean, Past
<1> QED BY <1>1, SnapshotInvariant, PTL

-----------------------------------------------------------------------------
(* The steps of SnapshotIsolation, seen through the refinement mapping.      *)

Phase(t) == CASE pc[t] \in {"new", "id"} -> "new"
              [] Open(t) -> "open"
              [] pc[t] = "committed" -> "committed"
              [] OTHER -> "aborted"
Views(t) == IF Open(t) THEN [r \in Records |-> View(t, r)] ELSE <<>>
Dirty(t) == IF Open(t) THEN Touched(t) ELSE {}
Behind(t) == IF Open(t) THEN Stale(t) ELSE {}

\* What SnapshotIsolation keeps of transaction u.
Same(u) == Phase(u)' = Phase(u) /\ Views(u)' = Views(u) /\ Dirty(u)' = Dirty(u)

\* The mapping in terms of these operators.
Mapped ==
    <<[r \in Records |-> Committed(r)], [t \in Txns |-> Phase(t)], [t \in Txns |-> Views(t)],
      [t \in Txns |-> Dirty(t)], [t \in Txns |-> Behind(t)]>>

LEMMA MapsStutter ==
  ASSUME \A r \in Records : Committed(r)' = Committed(r),
         \A u \in Txns : Same(u) /\ Behind(u)' = Behind(u)
  PROVE  UNCHANGED SI!vars
<1>1. Mapped' = Mapped
  BY DEF Same, Mapped
<1> QED BY <1>1 DEF Mapped, Phase, Views, Dirty, Behind, SI!vars

LEMMA MapsBegin ==
  ASSUME NEW t \in Txns, \A r \in Records : Committed(r)' = Committed(r),
         \A u \in Txns \ {t} : Same(u) /\ Behind(u)' = Behind(u),
         Phase(t) = "new", Phase(t)' = "open", Dirty(t)' = Dirty(t), Behind(t)' = Behind(t),
         Views(t)' = [r \in Records |-> Committed(r)]
  PROVE  SI!Begin(t)
<1>1. /\ [r \in Records |-> Committed(r)]' = [r \in Records |-> Committed(r)]
      /\ [u \in Txns |-> Phase(u)][t] = "new"
      /\ [u \in Txns |-> Phase(u)]' = [[u \in Txns |-> Phase(u)] EXCEPT ![t] = "open"]
      /\ [u \in Txns |-> Views(u)]' = [[u \in Txns |-> Views(u)] EXCEPT ![t] = [r \in Records |-> Committed(r)]]
      /\ [u \in Txns |-> Dirty(u)]' = [u \in Txns |-> Dirty(u)]
      /\ [u \in Txns |-> Behind(u)]' = [u \in Txns |-> Behind(u)]
  BY DEF Same
<1> QED BY <1>1, Zenon DEF Phase, Views, Dirty, Behind, SI!Begin

LEMMA MapsWrite ==
  ASSUME NEW t \in Txns, NEW K \in SUBSET Records, \A r \in Records : Committed(r)' = Committed(r),
         \A u \in Txns \ {t} : Same(u) /\ Behind(u)' = Behind(u),
         Open(t), Open(t)', Phase(t) = "open", Phase(t)' = "open", Behind(t)' = Behind(t),
         Touched(t)' = Touched(t) \cup K,
         \A r \in Records : IF r \in K THEN View(t, r)' \in Image ELSE View(t, r)' = View(t, r)
  PROVE  SI!Write(t)
<1> DEFINE new == [r \in K |-> View(t, r)']
<1>1. new \in [K -> Image]
  OBVIOUS
<1>2. Views(t)' = [r \in Records |-> IF r \in K THEN new[r] ELSE Views(t)[r]]
  BY DEF Views
<1> HIDE DEF new
<1>3. /\ [r \in Records |-> Committed(r)]' = [r \in Records |-> Committed(r)]
      /\ [u \in Txns |-> Phase(u)][t] = "open"
      /\ [u \in Txns |-> Phase(u)]' = [u \in Txns |-> Phase(u)]
      /\ [u \in Txns |-> Dirty(u)]' = [[u \in Txns |-> Dirty(u)] EXCEPT ![t] = @ \cup K]
      /\ [u \in Txns |-> Views(u)]' = [[u \in Txns |-> Views(u)] EXCEPT ![t] =
                                         [r \in Records |-> IF r \in K THEN new[r] ELSE @[r]]]
      /\ [u \in Txns |-> Behind(u)]' = [u \in Txns |-> Behind(u)]
  BY <1>2 DEF Same, Dirty
<1>4. \E n \in [K -> Image] :
         [u \in Txns |-> Views(u)]' = [[u \in Txns |-> Views(u)] EXCEPT ![t] =
                                         [r \in Records |-> IF r \in K THEN n[r] ELSE @[r]]]
  BY <1>1, <1>3
<1> QED BY <1>3, <1>4, Zenon DEF Phase, Views, Dirty, Behind, SI!Write

LEMMA MapsAbort ==
  ASSUME NEW t \in Txns, \A r \in Records : Committed(r)' = Committed(r),
         \A u \in Txns \ {t} : Same(u) /\ Behind(u)' = Behind(u),
         Phase(t) = "open", Phase(t)' = "aborted", ~Open(t)'
  PROVE  SI!Abort(t)
<1>1. Views(t)' = <<>> /\ Dirty(t)' = {} /\ Behind(t)' = {}
  BY DEF Views, Dirty, Behind
<1>2. /\ [r \in Records |-> Committed(r)]' = [r \in Records |-> Committed(r)]
      /\ [u \in Txns |-> Phase(u)][t] = "open"
      /\ [u \in Txns |-> Phase(u)]' = [[u \in Txns |-> Phase(u)] EXCEPT ![t] = "aborted"]
      /\ [u \in Txns |-> Views(u)]' = [[u \in Txns |-> Views(u)] EXCEPT ![t] = <<>>]
      /\ [u \in Txns |-> Dirty(u)]' = [[u \in Txns |-> Dirty(u)] EXCEPT ![t] = {}]
      /\ [u \in Txns |-> Behind(u)]' = [[u \in Txns |-> Behind(u)] EXCEPT ![t] = {}]
  BY <1>1 DEF Same
<1> QED BY <1>2, Zenon DEF Phase, Views, Dirty, Behind, SI!Abort, SI!Close, SI!NoView

LEMMA MapsCommit ==
  ASSUME NEW t \in Txns, Open(t), Phase(t) = "open", Phase(t)' = "committed", ~Open(t)',
         Touched(t) \cap Stale(t) = {},
         \A r \in Records : Committed(r)' = IF r \in Touched(t) THEN View(t, r) ELSE Committed(r),
         \A u \in Txns \ {t} :
            Same(u) /\ Behind(u)' = IF Phase(u) = "open" THEN Behind(u) \cup Touched(t) ELSE Behind(u)
  PROVE  SI!Commit(t)
<1>1. Views(t)' = <<>> /\ Dirty(t)' = {} /\ Behind(t)' = {} /\ Dirty(t) = Touched(t) /\ Behind(t) = Stale(t)
  BY DEF Views, Dirty, Behind
<1> DEFINE db == [r \in Records |-> Committed(r)]
           phase == [u \in Txns |-> Phase(u)]
           view == [u \in Txns |-> Views(u)]
           dirty == [u \in Txns |-> Dirty(u)]
           stale == [u \in Txns |-> Behind(u)]
<1>2. phase[t] = "open" /\ dirty[t] \cap stale[t] = {}
  BY <1>1
<1>3. db' = [r \in Records |-> IF r \in dirty[t] THEN view[t][r] ELSE db[r]]
  BY <1>1 DEF Views
<1>4. stale' = [u \in Txns |-> IF u = t THEN {} ELSE IF phase[u] = "open" THEN stale[u] \cup dirty[t] ELSE stale[u]]
  BY <1>1
<1>5. /\ phase' = [phase EXCEPT ![t] = "committed"]
      /\ view' = [view EXCEPT ![t] = <<>>]
      /\ dirty' = [dirty EXCEPT ![t] = {}]
  BY <1>1 DEF Same
<1> QED BY <1>2, <1>3, <1>4, <1>5, Zenon DEF Phase, Views, Dirty, Behind, SI!Commit, SI!Close, SI!NoView

-----------------------------------------------------------------------------
(* The committed graph.                                                      *)

\* w is the writer of the head of record r.
Writes(w, r) == head[r].cts = TxnId(w) \/ (pc[w] = "promote" /\ head[r].cts = cts[w])
CommittedIs(r) ==
    /\ r \notin present => Committed(r) = NoImage
    /\ r \in present => \A w \in Txns : Writes(w, r) =>
          Committed(r) = Plain(VersionImage(head[r], chain[r], Bottom(chain[r], w)))
    /\ r \in present /\ (\A w \in Txns : ~Writes(w, r)) => Committed(r) = Plain(ImageOf(head[r]))
CommittedGraph == \A r \in Records : CommittedIs(r)

LEMMA OneWriter ==
  ASSUME SInv, NEW r \in Records, NEW w \in Txns, NEW u \in Txns, Writes(w, r), Writes(u, r)
  PROVE  w = u
<1>1. IInv /\ ClockBound
  BY StateFacts
<1>2. \A x \in Txns : is_commit_ts(cts[x]) /\ cts[x] \in Nat
  BY <1>1, ClockFacts
<1>3. \A x, y \in Txns : cts[x] # TxnId(y)
  BY <1>2, IdFacts
<1>4. CASE head[r].cts = TxnId(w)
  BY <1>3, <1>4, IdFacts DEF Writes
<1>5. CASE pc[w] = "promote" /\ head[r].cts = cts[w]
  <2>1. pc[u] = "promote"
    BY <1>3, <1>5 DEF Writes
  <2>2. InCall(w) /\ InCall(u)
    BY <1>5, <2>1 DEF InCall
  <2> QED BY <1>1, <2>2 DEF IInv, OneCall
<1> QED BY <1>4, <1>5 DEF Writes

LEMMA CommittedKnown == SInv => CommittedGraph
<1> SUFFICES ASSUME SInv, NEW r \in Records PROVE CommittedIs(r)
  BY DEF CommittedGraph
<1>1. Writers(r) = {w \in Txns : Writes(w, r)}
  BY DEF Writers, Writes
<1>2. CASE r \notin present
  BY <1>2 DEF CommittedIs, Committed
<1>3. CASE r \in present
  <2>1. ASSUME \A w \in Txns : ~Writes(w, r) PROVE Committed(r) = Plain(ImageOf(head[r]))
    <3>1. Writers(r) = {}
      BY <1>1, <2>1
    <3> QED BY <1>3, <3>1 DEF Committed
  <2>2. ASSUME NEW w \in Txns, Writes(w, r)
        PROVE  Committed(r) = Plain(VersionImage(head[r], chain[r], Bottom(chain[r], w)))
    <3>1. Writers(r) = {w}
      BY <1>1, <2>2, OneWriter
    <3>2. (CHOOSE t \in {w} : TRUE) = w
      OBVIOUS
    <3>3. Committed(r) = Plain(Beneath(r, w))
      BY <1>3, <3>1, <3>2 DEF Committed
    <3> QED BY <3>3, BeneathIs
  <2> QED BY <1>3, <2>1, <2>2 DEF CommittedIs
<1> QED BY <1>2, <1>3

LEMMA CommittedNext == SInv' => CommittedGraph'
BY CommittedKnown, PTL

-----------------------------------------------------------------------------
(* Transactions between two calls.                                           *)

\* What the version chain of record r shows transaction u.
Visible(u, r) == IF r \notin present THEN NoImage ELSE Plain(VisibleImage(head[r], chain[r], Gone, u, start[u]))

LEMMA ViewIs ==
  ASSUME NEW u, NEW r
  PROVE  /\ Plain(NoImage) = NoImage
         /\ wset[u][r].kind = "None" => Plain(Read(u, r)) = Visible(u, r)
         /\ wset[u][r].kind = "Delete" => Plain(Read(u, r)) = NoImage
         /\ wset[u][r].kind \in {"Insert", "Update"} => Plain(Read(u, r)) = Plain(wset[u][r].after)
<1>1. Plain(NoImage) = NoImage
  BY DEF Plain, NoImage
<1> QED BY <1>1 DEF Read, Visible

LEMMA ReadKept ==
  ASSUME TypeOK, NEW u \in Txns, NEW r \in Records, wset'[u][r] = wset[u][r], Visible(u, r)' = Visible(u, r)
  PROVE  (Plain(Read(u, r)))' = Plain(Read(u, r))
<1>1. wset[u][r] \in Intent
  BY DEF TypeOK
<1>2. /\ wset[u][r].kind = "None" => Plain(Read(u, r)) = Visible(u, r)
      /\ wset[u][r].kind = "Delete" => Plain(Read(u, r)) = NoImage
      /\ wset[u][r].kind \in {"Insert", "Update"} => Plain(Read(u, r)) = Plain(wset[u][r].after)
  BY ViewIs
<1>3. /\ wset'[u][r].kind = "None" => (Plain(Read(u, r)))' = Visible(u, r)'
      /\ wset'[u][r].kind = "Delete" => (Plain(Read(u, r)))' = NoImage
      /\ wset'[u][r].kind \in {"Insert", "Update"} => (Plain(Read(u, r)))' = Plain(wset'[u][r].after)
  <2>1. Plain(NoImage) = NoImage
    BY ViewIs
  <2> QED BY <2>1 DEF Read, Visible, Plain
<1> QED BY <1>1, <1>2, <1>3 DEF Intent

LEMMA OthersSame ==
  ASSUME TypeOK, NEW u \in Txns, pc[u] \in {"new", "run", "committed", "aborted"}, pc'[u] = pc[u],
         wset'[u] = wset[u], pc[u] = "run" => undo'[u] = undo[u],
         pc[u] = "run" => \A r \in Records : Visible(u, r)' = Visible(u, r)
  PROVE  Same(u)
<1>1. Phase(u)' = Phase(u) /\ (Open(u)' <=> Open(u)) /\ (Open(u) => pc[u] = "run")
  BY DEF Phase, Open
<1>2. Dirty(u)' = Dirty(u)
  BY <1>1 DEF Dirty, Touched, Intents
<1>3. ASSUME pc[u] = "run", NEW r \in Records PROVE View(u, r)' = View(u, r)
  <2>1. View(u, r) = Plain(Read(u, r)) /\ View(u, r)' = (Plain(Read(u, r)))'
    BY <1>3 DEF View
  <2> QED BY <1>3, <2>1, ReadKept
<1>4. Views(u)' = Views(u)
  BY <1>1, <1>3 DEF Views
<1> QED BY <1>1, <1>2, <1>4 DEF Same

\* Transactions that have not committed have not made a snapshot stale.
LEMMA StaleSame ==
  ASSUME SInv, NEW u \in Txns, wrote' = wrote, start'[u] = start[u], Open(u)' <=> Open(u),
         \A x \in Txns : pc[x] = "committed" => cts'[x] = cts[x]
  PROVE  Behind(u)' = Behind(u)
<1>1. Superseded /\ TypeOK
  BY StateFacts
<1>2. \A x \in Txns : wrote[x] = {} \/ pc[x] = "committed"
  BY <1>1 DEF Superseded, TypeOK
<1>3. Stale(u)' = Stale(u)
  BY <1>2 DEF Stale
<1> QED BY <1>3 DEF Behind

-----------------------------------------------------------------------------
(* Steps that write no version.                                              *)

LEMMA NotYet ==
  ASSUME SInv, NEW t \in Txns, pc[t] \in {"commit", "apply"}, NEW r \in Records
  PROVE  head[r].cts # cts[t]
<1>1. IInv /\ ClockBound /\ TypeOK
  BY StateFacts
<1>2. is_commit_ts(cts[t]) /\ head[r].cts \in Nat
  BY <1>1, ClockFacts, HeadFacts
<1>3. CASE is_commit_ts(head[r].cts)
  BY <1>2, <1>3, HeadDated, OriginFacts
<1> QED BY <1>2, <1>3

LEMMA CommittedSame ==
  ASSUME SInv, SInv', NEW r \in Records, head'[r] = head[r], chain'[r] = chain[r], r \in present' <=> r \in present,
         \A w \in Txns : Writes(w, r)' <=> Writes(w, r)
  PROVE  Committed(r)' = Committed(r)
<1>1. CommittedIs(r) /\ CommittedIs(r)'
  BY CommittedKnown, CommittedNext DEF CommittedGraph
<1>2. CASE r \notin present
  BY <1>1, <1>2 DEF CommittedIs
<1>3. ASSUME r \in present, NEW w \in Txns, Writes(w, r) PROVE Committed(r)' = Committed(r)
  BY <1>1, <1>3 DEF CommittedIs
<1>4. CASE r \in present /\ \A w \in Txns : ~Writes(w, r)
  BY <1>1, <1>4 DEF CommittedIs
<1> QED BY <1>2, <1>3, <1>4

CalmMove(t, x) ==
    /\ Turn(t) /\ pc' = [pc EXCEPT ![t] = x] /\ x \notin {"committed", "aborted"}
    /\ pc[t] \notin {"committed", "aborted", "promote"}
    /\ x = "promote" => pc[t] = "commit" /\ cts'[t] = cts[t]
    /\ UNCHANGED <<present, head, chain, kept, wrote>>
    /\ \A u \in Txns : u # t => /\ start'[u] = start[u] /\ cts'[u] = cts[u]
                                /\ wset'[u] = wset[u] /\ undo'[u] = undo[u]

LEMMA CalmOthers ==
  ASSUME SInv, SInv', NEW t \in Txns, NEW x, CalmMove(t, x)
  PROVE  /\ \A r \in Records : Committed(r)' = Committed(r)
         /\ \A u \in Txns \ {t} : Same(u) /\ Behind(u)' = Behind(u)
         /\ Gone' = Gone /\ pc'[t] = x
<1>1. TypeOK /\ IInv
  BY StateFacts
<1>2. pc'[t] = x /\ \A u \in Txns : u # t => pc'[u] = pc[u] /\ pc[u] \in {"new", "run", "committed", "aborted"}
  BY <1>1, OthersWait DEF CalmMove, TypeOK
<1>3. Gone' = Gone
  <2>1. \A u \in Txns : u \in Gone' <=> u \in Gone
    BY <1>2 DEF Gone, CalmMove
  <2> QED BY <2>1 DEF Gone
<1>4. ASSUME NEW r \in Records, NEW w \in Txns PROVE Writes(w, r)' <=> Writes(w, r)
  <2>1. CASE w # t
    BY <1>2, <2>1 DEF Writes, CalmMove
  <2>2. CASE w = t
    <3>1. pc'[t] = "promote" => head[r].cts # cts'[t]
      BY <1>2, NotYet DEF CalmMove
    <3> QED BY <1>2, <2>2, <3>1 DEF Writes, CalmMove
  <2> QED BY <2>1, <2>2
<1>5. \A r \in Records : Committed(r)' = Committed(r)
  BY <1>4, CommittedSame DEF CalmMove
<1>6. ASSUME NEW u \in Txns \ {t} PROVE Same(u) /\ Behind(u)' = Behind(u)
  <2>1. u \in Txns /\ u # t /\ wset'[u] = wset[u] /\ undo'[u] = undo[u] /\ start'[u] = start[u] /\ wrote' = wrote
    BY DEF CalmMove
  <2>2. \A r \in Records : Visible(u, r)' = Visible(u, r)
    BY <1>3, <2>1 DEF Visible, CalmMove
  <2>3. Same(u)
    BY <1>1, <1>2, <2>1, <2>2, OthersSame
  <2>4. Open(u)' <=> Open(u)
    BY <1>2, <2>1 DEF Open
  <2>5. \A y \in Txns : pc[y] = "committed" => cts'[y] = cts[y]
    BY DEF CalmMove
  <2> QED BY <2>1, <2>3, <2>4, <2>5, StaleSame
<1> QED BY <1>2, <1>3, <1>5, <1>6

\* The transaction itself goes on with what it has read and written.
LEMMA CalmMaps ==
  ASSUME SInv, SInv', NEW t \in Txns, NEW x, CalmMove(t, x), start'[t] = start[t] \/ ~Open(t),
         wset'[t] = wset[t], undo'[t] = undo[t],
         \/ {pc[t], x} \subseteq {"new", "id"}
         \/ {pc[t], x} \subseteq {"ts", "run", "create", "delete", "commit", "apply", "promote"}
  PROVE  UNCHANGED SI!vars
<1>1. /\ \A r \in Records : Committed(r)' = Committed(r)
      /\ \A u \in Txns \ {t} : Same(u) /\ Behind(u)' = Behind(u)
      /\ Gone' = Gone /\ pc'[t] = x
  BY CalmOthers
<1>2. Phase(t)' = Phase(t) /\ (Open(t)' <=> Open(t))
  BY <1>1 DEF Phase, Open
<1>3. ASSUME Open(t), NEW r \in Records PROVE View(t, r)' = View(t, r)
  <2>1. start'[t] = start[t] /\ TypeOK /\ r \in Records
    BY <1>3, StateFacts
  <2>2. Visible(t, r)' = Visible(t, r)
    BY <1>1, <2>1 DEF Visible, CalmMove
  <2>3. (Plain(Read(t, r)))' = Plain(Read(t, r))
    BY <2>1, <2>2, ReadKept
  <2>4. View(t, r) = Plain(Read(t, r))
    BY DEF View, CalmMove
  <2>5. pc'[t] = "promote" => head'[r].cts # cts'[t]
    BY <1>1, NotYet DEF CalmMove
  <2>6. View(t, r)' = (Plain(Read(t, r)))'
    BY <2>5 DEF View
  <2> QED BY <2>3, <2>4, <2>6
<1>4. Views(t)' = Views(t)
  BY <1>2, <1>3 DEF Views
<1>5. Dirty(t)' = Dirty(t)
  BY <1>2 DEF Dirty, Touched, Intents
<1>6. Behind(t)' = Behind(t)
  <2>1. CASE Open(t)
    BY <1>2, <2>1, StaleSame DEF CalmMove
  <2>2. CASE ~Open(t)
    BY <1>2, <2>2 DEF Behind
  <2> QED BY <2>1, <2>2
<1> QED BY <1>1, <1>2, <1>4, <1>5, <1>6, MapsStutter DEF Same

LEMMA NextTyped ==
  ASSUME SInv'
  PROVE  TypeOK' /\ IInv' /\ WatermarkSafe'
BY DEF SInv, LInv, TInv, IInv

LEMMA PlainTyped ==
  ASSUME NEW img \in Image
  PROVE  Plain(img) \in Image /\ NoImage \in Image
BY NothingTyped DEF Plain

LEMMA StillCalls ==
  ASSUME SInv, SInv', NEW t \in Txns,
         \/ BeginDrawId(t) \/ BeginRegister(t) \/ CommitDrawTs(t)
         \/ \E r \in Records : Get(t, r) \/ CreateCheck(t, r) \/ DeleteCheck(t, r)
  PROVE  UNCHANGED SI!vars
<1>0. TypeOK
  BY StateFacts
<1>1. CASE BeginDrawId(t)
  <2>1. CalmMove(t, "id") /\ pc[t] = "new" /\ start' = start /\ wset' = wset /\ undo' = undo
    BY <1>1 DEF BeginDrawId, CalmMove, Goto, graphVars, txnVars, mgrVars
  <2> QED BY <2>1, CalmMaps
<1>2. CASE BeginRegister(t)
  <2>1. CalmMove(t, "run") /\ pc[t] = "ts" /\ start' = start /\ wset' = wset /\ undo' = undo
    BY <1>2 DEF BeginRegister, CalmMove, Goto, graphVars, txnVars
  <2> QED BY <2>1, CalmMaps
<1>3. CASE CommitDrawTs(t)
  <2>1. \A u \in Txns : u # t => cts'[u] = cts[u]
    BY <1>0, <1>3 DEF CommitDrawTs, TypeOK
  <2>2. CalmMove(t, "commit") /\ pc[t] = "run" /\ start' = start /\ wset' = wset /\ undo' = undo
    BY <1>3, <2>1 DEF CommitDrawTs, CalmMove, Goto, graphVars, txnVars, mgrVars
  <2> QED BY <2>2, CalmMaps
<1>4. ASSUME NEW r \in Records, Get(t, r) PROVE UNCHANGED SI!vars
  <2>1. pc[t] = "run" /\ Turn(t) /\ pc' = pc
    BY <1>4 DEF Get, MayCall
  <2>2. pc' = [pc EXCEPT ![t] = "run"]
    BY <1>0, <2>1 DEF TypeOK
  <2>3. CalmMove(t, "run") /\ start' = start /\ wset' = wset /\ undo' = undo
    BY <1>4, <2>1, <2>2 DEF Get, CalmMove, graphVars, mgrVars
  <2> QED BY <2>1, <2>3, CalmMaps
<1>5. ASSUME NEW r \in Records, CreateCheck(t, r) PROVE UNCHANGED SI!vars
  <2>1. CalmMove(t, "create") /\ pc[t] = "run" /\ start' = start /\ wset' = wset /\ undo' = undo
    BY <1>5 DEF CreateCheck, MayCall, CalmMove, Goto, graphVars, mgrVars
  <2> QED BY <2>1, CalmMaps
<1>6. ASSUME NEW r \in Records, DeleteCheck(t, r) PROVE UNCHANGED SI!vars
  <2>1. CalmMove(t, "delete") /\ pc[t] = "run" /\ start' = start /\ wset' = wset /\ undo' = undo
    BY <1>6 DEF DeleteCheck, MayCall, CalmMove, Goto, graphVars, mgrVars
  <2> QED BY <2>1, CalmMaps
<1> QED BY <1>1, <1>2, <1>3, <1>4, <1>5, <1>6

\* A client or a failing validation turns to the rollback.
LEMMA TurnsBack ==
  ASSUME SInv, SInv', NEW t \in Txns, CalmMove(t, "abort"), pc[t] \in {"run", "commit"}
  PROVE  SI!Abort(t)
<1>1. /\ \A r \in Records : Committed(r)' = Committed(r)
      /\ \A u \in Txns \ {t} : Same(u) /\ Behind(u)' = Behind(u)
      /\ pc'[t] = "abort"
  BY CalmOthers
<1>2. Phase(t) = "open" /\ Phase(t)' = "aborted" /\ ~Open(t)'
  BY <1>1 DEF Phase, Open
<1> QED BY <1>1, <1>2, MapsAbort

LEMMA LockOrAbort ==
  ASSUME SInv, SInv', NEW t \in Txns, CommitLock(t) \/ Abort(t)
  PROVE  UNCHANGED SI!vars \/ SI!Abort(t)
<1>1. CASE Abort(t)
  <2>1. CalmMove(t, "abort") /\ pc[t] = "run"
    BY <1>1 DEF Abort, CalmMove, Goto, graphVars, txnVars, mgrVars
  <2> QED BY <2>1, TurnsBack
<1>2. CASE CommitLock(t)
  <2>1. /\ pc[t] = "commit" /\ Turn(t)
        /\ \E x \in {"abort", "apply", "promote"} : pc' = [pc EXCEPT ![t] = x]
        /\ UNCHANGED <<present, head, chain, kept, wrote, start, cts, wset, undo>>
    BY <1>2 DEF CommitLock, Goto, graphVars, txnVars, mgrVars
  <2>2. PICK x \in {"abort", "apply", "promote"} : pc' = [pc EXCEPT ![t] = x]
    BY <2>1
  <2>3. CalmMove(t, x)
    BY <2>1, <2>2 DEF CalmMove
  <2>4. CASE x = "abort"
    BY <2>1, <2>3, <2>4, TurnsBack
  <2>5. CASE x # "abort"
    BY <2>1, <2>3, <2>5, CalmMaps
  <2> QED BY <2>4, <2>5
<1> QED BY <1>1, <1>2

\* What an optimistic call stages.
LEMMA StagesOneIntent ==
  ASSUME SInv, NEW t \in Txns, NEW r \in Records,
         \/ \E p \in Props : SetOptimistic(t, r, p)
         \/ CreateOptimistic(t, r)
         \/ DeleteOptimistic(t, r)
  PROVE  /\ \A y \in Records : wset'[t][y] = wset[t][y] \/ wset'[t][y].kind # "None"
         /\ \A u \in Txns : u # t => wset'[u] = wset[u]
<1>1. TypeOK
  BY StateFacts
<1>2. ASSUME NEW p \in Props, SetOptimistic(t, r, p)
      PROVE  /\ \A y \in Records : wset'[t][y] = wset[t][y] \/ wset'[t][y].kind # "None"
             /\ \A u \in Txns : u # t => wset'[u] = wset[u]
  <2> DEFINE b == SetBase(t, r)
             new == [b EXCEPT !.after.props[p] = t]
  <2>1. wset' = [wset EXCEPT ![t][r] = new]
    BY <1>2, SetOptimisticDoes
  <2>2. b.kind # "None" /\ new.kind = b.kind
    <3>1. b.kind # "None"
      BY DEF SetBase
    <3>2. DOMAIN b = {"kind", "guard", "before", "after"}
      <4>1. wset[t][r] \in Intent
        BY <1>1 DEF TypeOK
      <4> QED BY <4>1 DEF SetBase, Intent
    <3> HIDE DEF b
    <3> QED BY <3>1, <3>2
  <2> HIDE DEF new
  <2> QED BY <1>1, <2>1, <2>2 DEF TypeOK
<1>3. CASE CreateOptimistic(t, r)
  <2> DEFINE new == [kind |-> "Insert", guard |-> wset[t][r].guard, before |-> NoImage,
                     after |-> [props |-> [p \in Props |-> t], tomb |-> FALSE]]
  <2>1. wset' = [wset EXCEPT ![t][r] = new]
    BY <1>3 DEF CreateOptimistic
  <2>2. new.kind # "None"
    OBVIOUS
  <2> HIDE DEF new
  <2> QED BY <1>1, <2>1, <2>2 DEF TypeOK
<1>4. CASE DeleteOptimistic(t, r)
  <2>1. \E X : wset' = [wset EXCEPT ![t] = [x \in Records |-> IF x \in X THEN DeleteIntent(t, x) ELSE wset[t][x]]]
    BY <1>4 DEF DeleteOptimistic
  <2>2. PICK X : wset' = [wset EXCEPT ![t] = [x \in Records |-> IF x \in X THEN DeleteIntent(t, x) ELSE wset[t][x]]]
    BY <2>1
  <2>3. ASSUME NEW y \in Records PROVE DeleteIntent(t, y).kind # "None"
    <3>1. PICK w \in Intent : w = wset[t][y]
      BY <1>1 DEF TypeOK
    <3>2. CASE w.kind = "None"
      BY <3>1, <3>2 DEF DeleteIntent
    <3>3. CASE w.kind = "Insert"
      BY <3>1, <3>3 DEF DeleteIntent, Intent
    <3>4. CASE w.kind \in {"Update", "Delete"}
      BY <3>1, <3>4 DEF DeleteIntent, Intent
    <3> QED BY <3>2, <3>3, <3>4 DEF Intent
  <2> QED BY <1>1, <2>2, <2>3 DEF TypeOK
<1> QED BY <1>2, <1>3, <1>4

LEMMA StageMaps ==
  ASSUME SInv, SInv', NEW t \in Txns, NEW r \in Records,
         \/ \E p \in Props : SetOptimistic(t, r, p)
         \/ CreateOptimistic(t, r)
         \/ DeleteOptimistic(t, r)
  PROVE  SI!Write(t)
<1>1. TypeOK /\ TypeOK'
  BY StateFacts, NextTyped
<1>2. /\ Turn(t) /\ pc[t] \in {"run", "create"} /\ pc' = [pc EXCEPT ![t] = "run"]
      /\ start' = start /\ cts' = cts /\ present' = present
      /\ head' = head /\ chain' = chain /\ undo' = undo /\ wrote' = wrote /\ kept' = kept
  <2>1. CASE CreateOptimistic(t, r)
    BY <2>1 DEF CreateOptimistic, Goto, graphVars, mgrVars
  <2>2. ASSUME NEW p \in Props, SetOptimistic(t, r, p) PROVE pc' = pc /\ pc[t] = "run"
    BY <2>2, SetOptimisticDoes
  <2>3. CASE DeleteOptimistic(t, r)
    BY <1>1, <2>3 DEF DeleteOptimistic, MayCall, graphVars, mgrVars, TypeOK
  <2>4. /\ Turn(t) /\ start' = start /\ cts' = cts /\ present' = present
        /\ head' = head /\ chain' = chain /\ undo' = undo /\ wrote' = wrote /\ kept' = kept
    BY ZenonT(60) DEF SetOptimistic, CreateOptimistic, DeleteOptimistic, MayCall, graphVars, mgrVars
  <2>5. pc' = pc /\ pc[t] = "run" => pc' = [pc EXCEPT ![t] = "run"]
    BY <1>1 DEF TypeOK
  <2> QED BY <2>1, <2>2, <2>3, <2>4, <2>5
<1>3. /\ \A y \in Records : wset'[t][y] = wset[t][y] \/ wset'[t][y].kind # "None"
      /\ \A u \in Txns : u # t => wset'[u] = wset[u]
  BY StagesOneIntent
<1>4. CalmMove(t, "run")
  BY <1>2, <1>3 DEF CalmMove
<1>5. /\ \A y \in Records : Committed(y)' = Committed(y)
      /\ \A u \in Txns \ {t} : Same(u) /\ Behind(u)' = Behind(u)
      /\ Gone' = Gone /\ pc'[t] = "run"
  BY <1>4, CalmOthers
<1>6. Open(t) /\ Open(t)' /\ Phase(t) = "open" /\ Phase(t)' = "open"
  BY <1>2, <1>5 DEF Open, Phase
<1>7. Behind(t)' = Behind(t)
  BY <1>2, <1>6, StaleSame
<1>8. PICK K \in SUBSET Records : K = Intents(t)'
  BY DEF Intents
<1>9. Touched(t)' = Touched(t) \cup K
  <2>1. Intents(t) \subseteq Intents(t)'
    BY <1>3 DEF Intents
  <2> QED BY <1>2, <1>8, <2>1 DEF Touched
<1>10. ASSUME NEW y \in Records PROVE IF y \in K THEN View(t, y)' \in Image ELSE View(t, y)' = View(t, y)
  <2>1. View(t, y) = Plain(Read(t, y)) /\ View(t, y)' = (Plain(Read(t, y)))'
    BY <1>2, <1>5 DEF View
  <2>2. CASE y \in K
    <3>1. PICK w \in Intent : w = wset'[t][y]
      BY SMTT(30), <1>1 DEF TypeOK
    <3>2. w.kind # "None" /\ w.after \in Image
      BY <1>8, <2>2, <3>1 DEF Intents, Intent
    <3>3. (Plain(Read(t, y)))' = IF w.kind = "Delete" THEN Plain(NoImage) ELSE Plain(w.after)
      BY <3>1, <3>2 DEF Read, Intent, Plain
    <3>4. NoImage \in Image
      BY <3>2, PlainTyped
    <3> QED BY <2>1, <2>2, <3>2, <3>3, <3>4, PlainTyped
  <2>3. CASE y \notin K
    <3>1. wset'[t][y] = wset[t][y]
      BY <1>3, <1>8, <2>3 DEF Intents
    <3>2. Visible(t, y)' = Visible(t, y)
      BY <1>2, <1>5 DEF Visible
    <3> QED BY <1>1, <2>1, <2>3, <3>1, <3>2, ReadKept
  <2> QED BY <2>2, <2>3
<1> QED BY <1>5, <1>6, <1>7, <1>9, <1>10, MapsWrite

-----------------------------------------------------------------------------
(* Begin takes the snapshot.                                                 *)

LEMMA ClockLow ==
  ASSUME SInv
  PROVE  clock \in Nat /\ clock <= TXN_ID_START /\ \A t \in Txns : cts[t] \in Nat /\ cts[t] < clock
<1>1. IInv /\ ClockBound
  BY StateFacts
<1>2. Started \in SUBSET Txns /\ Stamped \in SUBSET Txns
  BY DEF Started, Stamped
<1>3. clock <= TXN_ID_START
  BY <1>1, <1>2, TxnsFinite, GraphAssumption DEF ClockBound
<1> QED BY <1>1, <1>3 DEF IInv, Drawn, ManagerTypes

\* The snapshot at the current time is the committed graph.
LEMMA SnapshotNow ==
  ASSUME SInv, NEW t \in Txns, pc[t] = "id", NEW r \in Records, r \in present
  PROVE  Plain(VisibleImage(head[r], chain[r], Gone, t, clock)) = Committed(r)
<1> DEFINE c == chain[r]
           h == head[r]
           k == Walk(c, Gone, Older(c, clock))
<1>1. /\ TypeOK /\ IInv /\ Marked /\ RecordOK(r) /\ CommittedIs(r)
      /\ h \in Version /\ h.cts \in Nat /\ c \in Seq(Delta)
  BY StateFacts, HeadFacts, CommittedKnown DEF CommittedGraph
<1>2. clock \in Nat /\ clock <= TXN_ID_START /\ TXN_ID_START \in Nat
  BY ClockLow, GraphAssumption
<1>3. VisibleImage(h, c, Gone, t, clock) = IF NewerThan(h.cts, t, clock) THEN VersionImage(h, c, k) ELSE ImageOf(h)
  BY <1>1, <1>2, VisibleIs
<1>4. \A u \in Txns : pc[u] # "promote"
  <2> SUFFICES ASSUME NEW u \in Txns, pc[u] = "promote" PROVE FALSE
    OBVIOUS
  <2>1. InCall(u) /\ InCall(t)
    BY DEF InCall
  <2> QED BY <1>1, <2>1 DEF IInv, OneCall
<1> HIDE DEF c, h, k
<1>5. CASE is_commit_ts(h.cts)
  <2>1. h.cts < clock
    BY <1>1, <1>5, HeadDated, OriginFacts DEF h
  <2>2. ~NewerThan(h.cts, t, clock)
    BY <1>1, <1>2, <1>5, <2>1, IdFacts DEF NewerThan
  <2>3. \A w \in Txns : ~Writes(w, r)
    BY <1>1, <1>4, <1>5, IdFacts DEF Writes, h
  <2>4. Committed(r) = Plain(ImageOf(h))
    BY <1>1, <2>3 DEF CommittedIs, h
  <2> QED BY <1>3, <2>2, <2>4 DEF h, c
<1>6. ASSUME NEW w \in Txns, h.cts = TxnId(w)
      PROVE  Plain(VisibleImage(h, c, Gone, t, clock)) = Committed(r)
  <2>1. w # t
    BY <1>1, <1>6 DEF Marked, MarkOf, Unregistered, h
  <2>2. NewerThan(h.cts, t, clock)
    BY <1>6, <2>1, IdFacts DEF NewerThan
  <2>3. Committed(r) = Plain(VersionImage(h, c, Bottom(c, w)))
    <3>1. Writes(w, r)
      BY <1>6 DEF Writes, h
    <3> QED BY <1>1, <3>1 DEF CommittedIs, h, c
  <2>4. k = Bottom(c, w)
    <3>1. CASE Busy(w, r)
      <4>1. c # <<>> /\ c[Len(c)].own = w
        BY <1>1, <1>6, <3>1 DEF RecordOK, Topped, h, c
      <4>2. w \notin Gone
        BY <3>1 DEF Busy, Gone, Writing
      <4>3. ASSUME NEW i \in DOMAIN c, i > 1
            PROVE  IF c[i].own = c[i - 1].own THEN ~(c[i].ts < clock) ELSE c[i].ts < clock
        <5>1. c[i].own \in Txns /\ c[i].ts \in Nat
          BY <1>1, DeltaFacts
        <5>2. IF c[i].own = c[i - 1].own THEN c[i].ts = TxnId(c[i].own) ELSE is_commit_ts(c[i].ts)
          BY <1>1, <4>3 DEF RecordOK, Runs, c
        <5>3. CASE c[i].own = c[i - 1].own
          BY <1>2, <5>1, <5>2, <5>3, IdFacts DEF is_txn_id
        <5>4. CASE c[i].own # c[i - 1].own
          <6>1. i \in Versions(c) /\ VersionTs(h, c, i) = c[i].ts
            BY <1>1 DEF Versions, VersionTs
          <6>2. Origin(c[i].ts)
            BY <1>1, <5>2, <5>4, <6>1 DEF RecordOK, Dated, h, c
          <6> QED BY <5>1, <5>4, <6>2, OriginFacts
        <5> QED BY <5>3, <5>4
      <4> QED BY <1>1, <1>2, <4>1, <4>2, <4>3, BottomWalk DEF k
    <3>2. CASE ~Busy(w, r)
      <4>1. c = <<>>
        BY <1>1, <1>6, <3>2 DEF RecordOK, Topped, h, c
      <4>2. k \in Versions(c) /\ Bottom(c, w) \in Versions(c)
        BY <1>1, WalkTyped, BottomTyped DEF k
      <4> QED BY <4>1, <4>2 DEF Versions
    <3> QED BY <3>1, <3>2
  <2> QED BY <1>3, <2>2, <2>3, <2>4
<1> QED BY <1>1, <1>5, <1>6 DEF RecordOK, Known, h, c

LEMMA BeginMaps ==
  ASSUME SInv, SInv', NEW t \in Txns, BeginDrawTs(t)
  PROVE  SI!Begin(t)
<1>1. TypeOK /\ StrategyOK(t) /\ Calling(t)
  BY StateFacts DEF Strategies, TxnOK
<1>2. /\ pc[t] = "id" /\ Turn(t) /\ pc' = [pc EXCEPT ![t] = "ts"] /\ start' = [start EXCEPT ![t] = clock]
      /\ UNCHANGED <<present, head, chain, kept, wrote, cts, wset, undo>>
  BY DEF BeginDrawTs, Goto, graphVars, txnVars, mgrVars
<1>3. start'[t] = clock /\ \A u \in Txns : u # t => start'[u] = start[u]
  BY <1>1, <1>2 DEF TypeOK
<1>4. CalmMove(t, "ts")
  BY <1>2, <1>3 DEF CalmMove
<1>5. /\ \A r \in Records : Committed(r)' = Committed(r)
      /\ \A u \in Txns \ {t} : Same(u) /\ Behind(u)' = Behind(u)
      /\ Gone' = Gone /\ pc'[t] = "ts"
  BY <1>4, CalmOthers
<1>6. Phase(t) = "new" /\ Phase(t)' = "open" /\ ~Open(t) /\ Open(t)'
  BY <1>2, <1>5 DEF Phase, Open
<1>7. undo[t] = <<>> /\ Intents(t) = {}
  BY <1>1, <1>2 DEF StrategyOK, Calling, Unregistered
<1>8. Dirty(t)' = Dirty(t)
  <2>1. Intents(t)' = {}
    BY <1>2, <1>7 DEF Intents
  <2>2. Touched(t)' = {}
    BY <1>2, <1>7, <2>1 DEF Touched
  <2> QED BY <1>6, <2>2 DEF Dirty
<1>9. Behind(t)' = Behind(t)
  <2>1. \A x \in Txns : ~(cts'[x] > start'[t])
    BY <1>2, <1>3, ClockLow
  <2>2. Stale(t)' = {}
    BY <2>1 DEF Stale
  <2> QED BY <1>6, <2>2 DEF Behind
<1>10. ASSUME NEW r \in Records PROVE View(t, r)' = Committed(r)
  <2>1. wset'[t][r].kind = "None"
    BY <1>2, <1>7 DEF Intents
  <2>2. View(t, r)' = Visible(t, r)'
    <3>1. Plain(NoImage) = NoImage
      BY ViewIs
    <3> QED BY <1>5, <2>1, <3>1 DEF View, Read, Visible, Plain
  <2>3. Visible(t, r)' = IF r \notin present THEN NoImage
                         ELSE Plain(VisibleImage(head[r], chain[r], Gone, t, clock))
    BY <1>2, <1>3, <1>5 DEF Visible
  <2>4. CASE r \notin present
    BY <2>2, <2>3, <2>4, CommittedKnown DEF CommittedGraph, CommittedIs
  <2>5. CASE r \in present
    BY <1>2, <2>2, <2>3, <2>5, SnapshotNow
  <2> QED BY <2>4, <2>5
<1>11. Views(t)' = [r \in Records |-> Committed(r)]
  BY <1>6, <1>10 DEF Views
<1> QED BY <1>5, <1>6, <1>8, <1>9, <1>11, MapsBegin

-----------------------------------------------------------------------------
(* A write, seen by the others and by the writer.                            *)

LEMMA VersionImageTyped ==
  ASSUME NEW h \in Version, NEW c \in Seq(Delta), NEW k \in Versions(c)
  PROVE  VersionImage(h, c, k) \in Image
BY VersionTyped, ReplayTyped DEF VersionImage, Versions

ViewsTyped == \A t \in Txns, r \in Records : View(t, r) \in Image

LEMMA ViewTyped == SInv => ViewsTyped
<1> SUFFICES ASSUME SInv, NEW t \in Txns, NEW r \in Records PROVE View(t, r) \in Image
  BY DEF ViewsTyped
<1>0. TypeOK
  BY StateFacts
<1>1. TypeOK /\ head[r] \in Version /\ chain[r] \in Seq(Delta) /\ wset[t][r] \in Intent /\ start[t] \in Nat
  BY <1>0 DEF TypeOK, Ts
<1>2. ImageOf(head[r]) \in Image /\ NoImage \in Image
  BY <1>1, VersionTyped, NothingTyped
<1>3. VisibleImage(head[r], chain[r], Gone, t, start[t]) \in Image
  <2> DEFINE k == Walk(chain[r], Gone, Older(chain[r], start[t]))
  <2>1. VisibleImage(head[r], chain[r], Gone, t, start[t]) =
          IF NewerThan(head[r].cts, t, start[t]) THEN VersionImage(head[r], chain[r], k) ELSE ImageOf(head[r])
    BY <1>1, VisibleIs
  <2>2. k \in Versions(chain[r])
    BY <1>1, WalkTyped
  <2> HIDE DEF k
  <2> QED BY <1>1, <1>2, <2>1, <2>2, VersionImageTyped
<1>4. Read(t, r) \in Image
  BY <1>1, <1>2, <1>3 DEF Read, Intent
<1> QED BY <1>2, <1>4, PlainTyped DEF View

LEMMA ViewTypedNext == SInv' => ViewsTyped'
BY ViewTyped, PTL

LEMMA PushCommitted ==
  ASSUME SInv, SInv', NEW t \in Txns, NEW x, NEW r \in Records, NEW e \in Delta, PushStep(t, x, r, e)
  PROVE  Committed(r)' = Committed(r)
<1> DEFINE h == head[r]
           h2 == head'[r]
           c == chain[r]
           d == chain'[r]
           b == Bottom(c, t)
<1>1. /\ h \in Version /\ h.cts \in Nat /\ c \in Seq(Delta) /\ CommittedIs(r) /\ CommittedIs(r)'
  BY StateFacts, HeadFacts, CommittedKnown, CommittedNext DEF CommittedGraph
<1>2. h2 \in Version /\ h2.cts = TxnId(t) /\ d = Append(c, e) /\ e.own = t /\ r \in present'
  BY DEF PushStep, Pushed
<1>3. b \in Versions(c) /\ Bottom(d, t) = b
  BY <1>1, <1>2, BottomPush, BottomTyped
<1>4. Committed(r)' = Plain(VersionImage(h2, d, b))
  <2>1. Writes(t, r)'
    BY <1>2 DEF Writes
  <2>2. (Committed(r))' = Plain(VersionImage(head'[r], chain'[r], Bottom(chain'[r], t)))
    BY <1>1, <1>2, <2>1 DEF CommittedIs
  <2> QED BY <1>3, <2>2
<1>5. /\ e.ts = TxnId(t) \/ is_commit_ts(e.ts)
      /\ r \in present => e.ts = head[r].cts
      /\ \A i \in DOMAIN chain[r] : chain[r][i].own = t => r \in present /\ head[r].cts = TxnId(t)
      /\ r \notin present => chain[r] = <<>>
  BY PushBase
<1>6. CASE r \in present
  <2>1. LeadsBack(h2, e, h)
    BY <1>6 DEF PushStep, Pushed
  <2>2. VersionImage(h2, d, b) = VersionImage(h, c, b)
    BY <1>1, <1>2, <1>3, <2>1, VersionsPush
  <2>3. CASE head[r].cts = TxnId(t)
    <3>1. Writes(t, r)
      BY <2>3 DEF Writes
    <3>2. Committed(r) = Plain(VersionImage(h, c, b))
      BY <1>1, <1>6, <3>1 DEF CommittedIs
    <3> QED BY <1>4, <2>2, <3>2
  <2>4. CASE is_commit_ts(head[r].cts)
    <3>1. \A w \in Txns : pc[w] # "promote"
      <4>1. \A w \in Txns : w # t => pc[w] \in {"new", "run", "committed", "aborted"}
        BY PushPlaces
      <4> QED BY <4>1 DEF PushStep, Writing
    <3>2. \A w \in Txns : ~Writes(w, r)
      BY <1>1, <2>4, <3>1, IdFacts DEF Writes
    <3>3. Committed(r) = Plain(ImageOf(h))
      BY <1>1, <1>6, <3>2 DEF CommittedIs
    <3>4. c = <<>> \/ c[Len(c)].own # t
      <4> SUFFICES ASSUME c # <<>>, c[Len(c)].own = t PROVE FALSE
        OBVIOUS
      <4>1. Len(c) \in DOMAIN c
        BY <1>1
      <4> QED BY <1>5, <2>4, <4>1, IdFacts
    <3>5. b = Len(c) + 1
      BY <1>1, <3>4, BottomNone
    <3>6. VersionImage(h, c, b) = ImageOf(h)
      BY <1>1, <3>5, HeadIsLast
    <3> QED BY <1>4, <2>2, <3>3, <3>6
  <2> QED BY <1>5, <1>6, <2>3, <2>4
<1>7. CASE r \notin present
  <2>1. b = 1
    BY <1>3, <1>5, <1>7 DEF Versions
  <2>2. VersionImage(h2, d, 1).tomb
    BY <1>7, PushVersions
  <2>3. Committed(r) = NoImage
    BY <1>1, <1>7 DEF CommittedIs
  <2> QED BY <1>4, <2>1, <2>2, <2>3 DEF Plain
<1> QED BY <1>6, <1>7

LEMMA PushUnseen ==
  ASSUME SInv, NEW t \in Txns, NEW x, NEW r \in Records, NEW e \in Delta, PushStep(t, x, r, e), Gone' = Gone,
         NEW u \in Txns, u # t, pc[u] = "run"
  PROVE  Visible(u, r)' = Visible(u, r)
<1> DEFINE h == head[r]
           h2 == head'[r]
           c == chain[r]
           d == chain'[r]
           s == start[u]
<1>1. /\ h \in Version /\ h.cts \in Nat /\ c \in Seq(Delta) /\ s \in Nat /\ is_commit_ts(s) /\ TypeOK /\ Absent
  BY StateFacts, HeadFacts, ClockFacts
<1>2. /\ h2 \in Version /\ h2.cts = TxnId(t) /\ d = Append(c, e) /\ e.own = t /\ r \in present'
      /\ start' = start /\ pc[t] \in Writing
  BY DEF PushStep, Pushed
<1>3. t \notin Gone
  BY <1>2 DEF Gone, Writing
<1>4. Visible(u, r)' = Plain(VisibleImage(h2, d, Gone, u, s))
  BY <1>2 DEF Visible
<1>5. CASE r \in present
  <2>1. LeadsBack(h2, e, h) /\ Visible(u, r) = Plain(VisibleImage(h, c, Gone, u, s))
    BY <1>5 DEF PushStep, Pushed, Visible
  <2>2. h.cts = TxnId(t) \/ is_commit_ts(h.cts)
    BY <1>5, PushBase
  <2>3. h.cts # s
    <3>1. CASE is_commit_ts(h.cts)
      <4>1. u \in Started
        BY DEF Started
      <4> QED BY <1>1, <3>1, <4>1, HeadDated, OriginFacts
    <3>2. CASE h.cts = TxnId(t)
      BY <1>1, <3>2, IdFacts
    <3> QED BY <2>2, <3>1, <3>2
  <2> HIDE DEF h, h2, c, d, s
  <2>4. Plain(VisibleImage(h2, d, Gone, u, s)) = Plain(VisibleImage(h, c, Gone, u, s))
    BY <1>1, <1>2, <1>3, <2>1, <2>2, <2>3, PushInvisible
  <2> QED BY <1>4, <2>1, <2>4
<1>6. CASE r \notin present
  <2>1. LeadsNowhere(e, h, c) /\ Visible(u, r) = NoImage
    BY <1>6 DEF PushStep, Pushed, Visible
  <2>2. c = <<>> /\ h.tomb
    BY <2>1 DEF LeadsNowhere
  <2> HIDE DEF h, h2, c, d, s
  <2>3. Plain(VisibleImage(h2, d, Gone, u, s)) = Plain(VisibleImage(h, c, Gone, u, s))
    BY <1>1, <1>2, <1>3, <2>1, PushInvisible
  <2>4. VisibleImage(h, c, Gone, u, s) = ImageOf(h)
    <3> DEFINE k == Walk(c, Gone, Older(c, s))
    <3>1. k \in Versions(c)
      BY <1>1, WalkTyped
    <3>2. k = Len(c) + 1
      BY <2>2, <3>1 DEF Versions
    <3>3. VisibleImage(h, c, Gone, u, s) = IF NewerThan(h.cts, u, s) THEN VersionImage(h, c, k) ELSE ImageOf(h)
      BY <1>1, VisibleIs
    <3> HIDE DEF k
    <3> QED BY <1>1, <3>2, <3>3, HeadIsLast
  <2>5. Plain(ImageOf(h)) = NoImage
    BY <2>2 DEF Plain, ImageOf
  <2> QED BY <1>4, <2>1, <2>3, <2>4, <2>5
<1> QED BY <1>5, <1>6

LEMMA PushMaps ==
  ASSUME SInv, SInv', NEW t \in Txns, NEW x, NEW r \in Records, NEW e \in Delta, PushStep(t, x, r, e),
         x = "promote" => pc[t] = "apply"
  PROVE  SI!Write(t)
<1>1. /\ pc'[t] = x /\ TypeOK /\ IInv /\ ClockBound
      /\ \A u \in Txns : u # t => pc'[u] = pc[u] /\ pc[u] \in {"new", "run", "committed", "aborted"}
  BY PushPlaces, StateFacts
<1>2. /\ pc[t] \in Writing /\ x \in Writing \cup {"promote"} /\ present' = present \cup {r}
      /\ undo' = [undo EXCEPT ![t] = Append(@, UndoRecord(r, e, chain[r]))]
      /\ \A y \in Records : y # r => head'[y] = head[y] /\ chain'[y] = chain[y]
      /\ start' = start /\ cts' = cts /\ wset' = wset /\ kept' = kept /\ wrote' = wrote
      /\ head'[r].cts = TxnId(t)
  BY DEF PushStep, Pushed
<1>3. Gone' = Gone
  <2>1. \A u \in Txns : u \in Gone' <=> u \in Gone
    BY <1>1, <1>2 DEF Gone, Writing
  <2> QED BY <2>1 DEF Gone
<1>4. ASSUME NEW y \in Records, y # r PROVE pc'[t] = "promote" => head[y].cts # cts[t]
  BY <1>1, NotYet
<1>5. ASSUME NEW y \in Records PROVE Committed(y)' = Committed(y)
  <2>1. CASE y = r
    BY <2>1, PushCommitted
  <2>2. CASE y # r
    <3>1. \A w \in Txns : Writes(w, y)' <=> Writes(w, y)
      <4>1. \A w \in Txns : w # t => (Writes(w, y)' <=> Writes(w, y))
        BY <1>1, <1>2, <2>2 DEF Writes
      <4>2. Writes(t, y)' <=> Writes(t, y)
        BY <1>1, <1>2, <1>4, <2>2 DEF Writes, Writing
      <4> QED BY <4>1, <4>2
    <3> QED BY <1>2, <2>2, <3>1, CommittedSame
  <2> QED BY <2>1, <2>2
<1>6. ASSUME NEW u \in Txns, NEW y \in Records, y # r PROVE Visible(u, y)' = Visible(u, y)
  BY <1>2, <1>3, <1>6 DEF Visible
<1>7. ASSUME NEW u \in Txns \ {t} PROVE Same(u) /\ Behind(u)' = Behind(u)
  <2>1. u # t /\ pc'[u] = pc[u] /\ undo'[u] = undo[u]
    BY <1>1, <1>2 DEF TypeOK
  <2>2. pc[u] = "run" => \A y \in Records : Visible(u, y)' = Visible(u, y)
    BY <1>3, <1>6, <2>1, PushUnseen
  <2>3. Same(u)
    BY <1>1, <1>2, <2>1, <2>2, OthersSame
  <2>4. Open(u)' <=> Open(u)
    BY <2>1 DEF Open
  <2> QED BY <1>2, <2>3, <2>4, StaleSame
<1>8. Open(t) /\ Open(t)' /\ Phase(t) = "open" /\ Phase(t)' = "open"
  BY <1>1, <1>2 DEF Open, Phase, Writing
<1>9. Behind(t)' = Behind(t)
  BY <1>2, <1>8, StaleSame
<1>10. Touched(t)' = Touched(t) \cup {r}
  <2> DEFINE n == Len(undo[t])
             v == UndoRecord(r, e, chain[r])
  <2>1. undo[t] \in Seq(UndoEntry) /\ n \in Nat /\ undo'[t] = Append(undo[t], v) /\ v.rec = r
    BY <1>1, <1>2 DEF TypeOK, UndoRecord
  <2> HIDE DEF v
  <2>2. Len(undo'[t]) = n + 1 /\ undo'[t][n + 1] = v /\ \A i \in 1 .. n : undo'[t][i] = undo[t][i]
    BY <2>1
  <2>3. {undo'[t][i].rec : i \in 1 .. n + 1} = {undo[t][i].rec : i \in 1 .. n} \cup {r}
    <3>1. 1 .. n + 1 = (1 .. n) \cup {n + 1}
      BY <2>1
    <3> QED BY <2>1, <2>2, <3>1
  <2>4. Intents(t)' = Intents(t)
    BY <1>2 DEF Intents
  <2> QED BY <2>2, <2>3, <2>4 DEF Touched
<1>11. ASSUME NEW y \in Records PROVE IF y \in {r} THEN View(t, y)' \in Image ELSE View(t, y)' = View(t, y)
  <2>1. View(t, y)' \in Image
    BY ViewTypedNext DEF ViewsTyped
  <2>2. CASE y # r
    <3>1. View(t, y) = Plain(Read(t, y))
      BY <1>2 DEF View, Writing
    <3>2. View(t, y)' = (Plain(Read(t, y)))'
      BY <1>2, <1>4, <2>2 DEF View
    <3>3. (Plain(Read(t, y)))' = Plain(Read(t, y))
      BY <1>1, <1>2, <1>6, <2>2, ReadKept
    <3> QED BY <2>2, <3>1, <3>2, <3>3
  <2> QED BY <2>1, <2>2
<1>12. PICK K \in SUBSET Records : K = {r}
  OBVIOUS
<1> QED BY <1>5, <1>7, <1>8, <1>9, <1>10, <1>11, <1>12, MapsWrite

\* A step that touches nothing the mapping looks at.
LEMMA StillMaps ==
  ASSUME UNCHANGED <<present, head, chain, pc, start, cts, undo, wset, kept, wrote>>
  PROVE  UNCHANGED SI!vars
<1>1. Gone' = Gone
  BY DEF Gone
<1>2. \A r \in Records : Committed(r)' = Committed(r)
  <2> SUFFICES ASSUME NEW r \in Records PROVE Committed(r)' = Committed(r)
    OBVIOUS
  <2>1. PICK W : W = Writers(r) /\ W = Writers(r)'
    BY DEF Writers
  <2>2. PICK w : w = CHOOSE t \in W : TRUE
    OBVIOUS
  <2>3. Beneath(r, w)' = Beneath(r, w)
    BY DEF Beneath
  <2>4. Committed(r) = IF r \notin present THEN NoImage ELSE IF W = {} THEN Plain(ImageOf(head[r]))
                       ELSE Plain(Beneath(r, w))
    BY <2>1, <2>2 DEF Committed
  <2>5. Committed(r)' = IF r \notin present THEN NoImage ELSE IF W = {} THEN Plain(ImageOf(head[r]))
                        ELSE Plain(Beneath(r, w)')
    BY <2>1, <2>2 DEF Committed, Plain
  <2> QED BY <2>3, <2>4, <2>5
<1>3. \A u \in Txns : Phase(u)' = Phase(u) /\ (Open(u)' <=> Open(u))
  BY DEF Phase, Open
<1>4. \A u \in Txns, r \in Records : View(u, r)' = View(u, r)
  BY <1>1 DEF View, Read
<1>5. \A u \in Txns : Touched(u)' = Touched(u) /\ Stale(u)' = Stale(u)
  BY DEF Touched, Stale, Intents
<1>6. \A u \in Txns : Same(u) /\ Behind(u)' = Behind(u)
  BY <1>3, <1>4, <1>5 DEF Same, Views, Dirty, Behind
<1> QED BY <1>2, <1>6, MapsStutter

-----------------------------------------------------------------------------
(* Promotion and rollback change nothing anyone sees.                        *)

LEMMA PromoteMaps ==
  ASSUME SInv, SInv', NEW t \in Txns, NEW r \in Records, PromoteStep(t, r)
  PROVE  UNCHANGED SI!vars \/ SI!Write(t)
<1>1. /\ TypeOK /\ IInv /\ ClockBound /\ Marked /\ Absent /\ Timed(t)
      /\ head[r] \in Version /\ head[r].cts \in Nat /\ chain[r] \in Seq(Delta)
  BY StateFacts, HeadFacts DEF TxnOK
<1>2. /\ Turn(t) /\ pc[t] = "promote" /\ pc' = pc
      /\ UNCHANGED <<present, chain, undo, start, cts, wset, kept, wrote>>
  BY DEF PromoteStep
<1>3. CASE head' = head
  BY <1>2, <1>3, StillMaps
<1>4. CASE head[r].cts = TxnId(t) /\ head' = [head EXCEPT ![r].cts = cts[t]]
  <2>1. /\ head'[r] \in Version /\ head'[r].cts = cts[t]
        /\ \A y \in Records : y # r => head'[y] = head[y]
        /\ \A k \in Versions(chain[r]) : VersionImage(head'[r], chain[r], k) = VersionImage(head[r], chain[r], k)
    BY <1>4, PromoteVersions
  <2>2. Gone' = Gone
    BY <1>2 DEF Gone
  <2>3. \A u \in Txns : u # t => pc[u] \in {"new", "run", "committed", "aborted"}
    BY <1>1, <1>2, OthersWait
  <2>4. r \in present
    <3> SUFFICES ASSUME r \notin present PROVE FALSE
      OBVIOUS
    <3>1. head[r].cts = 0
      BY <1>1 DEF Absent, NoHead, HeadOf
    <3> QED BY <1>4, <3>1, IdFacts
  <2>5. Committed(r)' = Committed(r)
    <3>1. CommittedIs(r) /\ CommittedIs(r)'
      BY CommittedKnown, CommittedNext DEF CommittedGraph
    <3>2. Writes(t, r) /\ Writes(t, r)'
      BY <1>2, <1>4, <2>1 DEF Writes
    <3>3. Committed(r) = Plain(VersionImage(head[r], chain[r], Bottom(chain[r], t)))
      BY <2>4, <3>1, <3>2 DEF CommittedIs
    <3>4. Committed(r)' = Plain(VersionImage(head'[r], chain'[r], Bottom(chain'[r], t)))
      BY <1>2, <2>4, <3>1, <3>2 DEF CommittedIs
    <3>5. Bottom(chain[r], t) \in Versions(chain[r])
      BY <1>1, BottomTyped
    <3> QED BY <1>2, <2>1, <3>3, <3>4, <3>5
  <2>6. ASSUME NEW y \in Records PROVE Committed(y)' = Committed(y)
    <3>1. CASE y # r
      <4>1. \A w \in Txns : Writes(w, y)' <=> Writes(w, y)
        BY <1>2, <2>1, <3>1 DEF Writes
      <4> QED BY <1>2, <2>1, <3>1, <4>1, CommittedSame
    <3> QED BY <2>5, <3>1
  <2>7. ASSUME NEW u \in Txns, NEW y \in Records, y # r PROVE Visible(u, y)' = Visible(u, y)
    BY <1>2, <2>1, <2>2, <2>7 DEF Visible
  <2>8. ASSUME NEW u \in Txns, u # t, pc[u] = "run" PROVE Visible(u, r)' = Visible(u, r)
    <3> DEFINE k == Walk(chain[r], Gone, Older(chain[r], start[u]))
    <3>1. k \in Versions(chain[r]) /\ start[u] \in Nat /\ cts[t] \in Nat /\ is_commit_ts(cts[t])
      BY <1>1, WalkTyped, ClockFacts
    <3>2. start[u] < cts[t]
      <4>1. u \in Started
        BY <2>8 DEF Started
      <4> QED BY <1>1, <1>2, <2>8, <4>1 DEF Timed
    <3>3. NewerThan(head[r].cts, u, start[u]) /\ NewerThan(head'[r].cts, u, start[u])
      BY <1>4, <2>1, <2>8, <3>1, <3>2, IdFacts DEF NewerThan
    <3> HIDE DEF k
    <3>4. VisibleImage(head[r], chain[r], Gone, u, start[u]) = VersionImage(head[r], chain[r], k)
      BY <1>1, <3>1, <3>3, VisibleIs DEF k
    <3>5. VisibleImage(head'[r], chain[r], Gone, u, start[u]) = VersionImage(head'[r], chain[r], k)
      BY <1>1, <3>1, <3>3, VisibleIs DEF k
    <3>6. VisibleImage(head'[r], chain[r], Gone, u, start[u]) = VisibleImage(head[r], chain[r], Gone, u, start[u])
      BY <2>1, <3>1, <3>4, <3>5
    <3> QED BY <1>2, <2>2, <3>6 DEF Visible
  <2>9. ASSUME NEW u \in Txns \ {t} PROVE Same(u) /\ Behind(u)' = Behind(u)
    <3>1. u # t
      OBVIOUS
    <3>2. pc[u] = "run" => \A y \in Records : Visible(u, y)' = Visible(u, y)
      BY <2>7, <2>8, <3>1
    <3>3. Same(u)
      BY <1>1, <1>2, <2>3, <3>1, <3>2, OthersSame
    <3>4. Open(u)' <=> Open(u)
      BY <1>2 DEF Open
    <3> QED BY <1>2, <3>3, <3>4, StaleSame
  <2>10. Open(t) /\ Open(t)' /\ Phase(t) = "open" /\ Phase(t)' = "open"
    BY <1>2 DEF Open, Phase
  <2>11. Behind(t)' = Behind(t)
    BY <1>2, <2>10, StaleSame
  <2>12. Touched(t)' = Touched(t) \cup {r}
    <3>1. PICK i \in DOMAIN undo[t] : undo[t][i].rec = r
      BY <1>1, <1>2, <1>4 DEF Marked, MarkOf
    <3>2. i \in 1 .. Len(undo[t])
      BY <1>1, EntryFacts
    <3>3. r \in Touched(t)
      BY <3>1, <3>2 DEF Touched
    <3>4. Touched(t)' = Touched(t)
      BY <1>2 DEF Touched, Intents
    <3> QED BY <3>3, <3>4
  <2>13. ASSUME NEW y \in Records PROVE IF y \in {r} THEN View(t, y)' \in Image ELSE View(t, y)' = View(t, y)
    <3>1. View(t, y)' \in Image
      BY ViewTypedNext DEF ViewsTyped
    <3>2. CASE y # r
      <4>1. (Plain(Read(t, y)))' = Plain(Read(t, y))
        BY <1>1, <1>2, <2>7, <3>2, ReadKept
      <4>2. View(t, y) = IF y \in present /\ head[y].cts = cts[t] THEN Plain(ImageOf(head[y])) ELSE Plain(Read(t, y))
        BY <1>2 DEF View
      <4>3. View(t, y)' = IF y \in present /\ head[y].cts = cts[t] THEN Plain(ImageOf(head[y]))
                          ELSE (Plain(Read(t, y)))'
        BY <1>2, <2>1, <3>2 DEF View
      <4> QED BY <3>2, <4>1, <4>2, <4>3
    <3> QED BY <3>1, <3>2
  <2>14. PICK K \in SUBSET Records : K = {r}
    OBVIOUS
  <2> QED BY <2>6, <2>9, <2>10, <2>11, <2>12, <2>13, <2>14, MapsWrite
<1> QED BY <1>3, <1>4 DEF PromoteStep

LEMMA PopMaps ==
  ASSUME SInv, SInv', NEW t \in Txns, NEW r \in Records, NEW e \in Delta, NEW c \in Seq(Delta), PopStep(t, r, e, c)
  PROVE  UNCHANGED SI!vars
<1> DEFINE h == head'[r]
           h2 == head[r]
           d == chain[r]
<1>1. /\ TypeOK /\ IInv /\ ClockBound /\ ChainsOrdered /\ RecordOK(r)
      /\ h2 \in Version /\ h2.cts \in Nat /\ d \in Seq(Delta) /\ e.ts \in Nat /\ e.own \in Txns
  BY StateFacts, HeadFacts DEF Delta, Ts
<1>2. /\ Turn(t) /\ pc[t] = "abort" /\ pc' = pc /\ r \in present
      /\ h2.cts = TxnId(t) /\ d = Append(c, e) /\ e.own = t
      /\ h \in Version /\ chain'[r] = c /\ LeadsBack(h2, e, h)
      /\ \A j \in DOMAIN c : c[j].own # t
      /\ \A y \in Records : y # r => head'[y] = head[y] /\ chain'[y] = chain[y]
      /\ UNCHANGED <<present, undo, start, cts, wset, kept, wrote>>
  BY DEF PopStep
<1>3. \A u \in Txns : u # t => pc[u] \in {"new", "run", "committed", "aborted"}
  BY <1>1, <1>2, OthersWait
<1>4. h.cts = e.ts /\ h.cts \in Nat
  BY <1>1, <1>2 DEF LeadsBack
<1>5. Len(c) \in Nat /\ Len(d) = Len(c) + 1 /\ d[Len(c) + 1] = e /\ Len(c) + 1 \in DOMAIN d
  BY <1>2
<1>6. e.ts = TxnId(t) \/ (is_commit_ts(e.ts) /\ Origin(e.ts))
  <2>1. CASE is_txn_id(e.ts)
    BY <1>1, <1>2, <1>5, <2>1 DEF ChainsOrdered, Ordered
  <2>2. CASE is_commit_ts(e.ts)
    <3> DEFINE k == Len(c) + 1
    <3>1. k \in Versions(d) /\ VersionTs(h2, d, k) = e.ts
      BY <1>5 DEF Versions, VersionTs
    <3> HIDE DEF k
    <3> QED BY <1>1, <2>2, <3>1 DEF RecordOK, Dated
  <2> QED BY <1>1, <2>1, <2>2, IdFacts
<1>7. Gone' = Gone
  BY <1>2 DEF Gone
<1>8. Committed(r)' = Committed(r)
  <2>1. CommittedIs(r) /\ CommittedIs(r)'
    BY CommittedKnown, CommittedNext DEF CommittedGraph
  <2>2. Bottom(c, t) = Len(c) + 1 /\ Bottom(d, t) = Len(c) + 1
    <3>1. c = <<>> \/ c[Len(c)].own # t
      <4>1. c # <<>> => Len(c) \in DOMAIN c
        OBVIOUS
      <4> QED BY <1>2, <4>1
    <3>2. Bottom(c, t) = Len(c) + 1
      BY <3>1, BottomNone
    <3> QED BY <1>2, <3>2, BottomPush
  <2>3. VersionImage(h2, d, Len(c) + 1) = ImageOf(h) /\ VersionImage(h, c, Len(c) + 1) = ImageOf(h)
    <3>1. VersionImage(h, c, Len(c) + 1) = ImageOf(h) /\ Len(c) + 1 \in Versions(c)
      BY <1>2, HeadIsLast
    <3>2. \A k \in Versions(c) : VersionImage(h2, d, k) = VersionImage(h, c, k)
      BY <1>1, <1>2, VersionsPush
    <3> QED BY <3>1, <3>2
  <2>4. Committed(r) = Plain(ImageOf(h))
    <3>1. Writes(t, r)
      BY <1>2 DEF Writes
    <3>2. Committed(r) = Plain(VersionImage(h2, d, Bottom(d, t)))
      BY <1>2, <2>1, <3>1 DEF CommittedIs
    <3> QED BY <2>2, <2>3, <3>2
  <2>5. Committed(r)' = Plain(ImageOf(h))
    <3>1. CASE e.ts = TxnId(t)
      <4>1. Writes(t, r)'
        BY <1>4, <3>1 DEF Writes
      <4>2. Committed(r)' = Plain(VersionImage(head'[r], chain'[r], Bottom(chain'[r], t)))
        BY <1>2, <2>1, <4>1 DEF CommittedIs
      <4> QED BY <1>2, <2>2, <2>3, <4>2
    <3>2. CASE is_commit_ts(e.ts)
      <4>1. \A w \in Txns : pc'[w] # "promote"
        BY <1>2, <1>3
      <4>2. \A w \in Txns : ~Writes(w, r)'
        BY <1>4, <3>2, <4>1, IdFacts DEF Writes
      <4> QED BY <1>2, <2>1, <4>2 DEF CommittedIs
    <3> QED BY <1>6, <3>1, <3>2
  <2> QED BY <2>4, <2>5
<1>9. ASSUME NEW y \in Records PROVE Committed(y)' = Committed(y)
  <2>1. CASE y # r
    <3>1. \A w \in Txns : Writes(w, y)' <=> Writes(w, y)
      BY <1>2, <2>1 DEF Writes
    <3> QED BY <1>2, <2>1, <3>1, CommittedSame
  <2> QED BY <1>8, <2>1
<1>10. ASSUME NEW u \in Txns, u # t, pc[u] = "run", NEW y \in Records PROVE Visible(u, y)' = Visible(u, y)
  <2>1. CASE y # r
    BY <1>2, <1>7, <2>1 DEF Visible
  <2>2. CASE y = r
    <3> DEFINE s == start[u]
    <3>1. s \in Nat /\ is_commit_ts(s) /\ u \in Started /\ t \notin Gone
      BY <1>1, <1>2, <1>10, ClockFacts DEF Started, Gone
    <3>2. h.cts # s /\ (is_commit_ts(h.cts) \/ h.cts = TxnId(t))
      BY <1>1, <1>4, <1>6, <3>1, IdFacts, OriginFacts
    <3>3. Visible(u, r) = Plain(VisibleImage(h2, d, Gone, u, s)) /\ Visible(u, r)' = Plain(VisibleImage(h, c, Gone, u, s))
      BY <1>2, <1>7 DEF Visible
    <3> HIDE DEF h, h2, d, s
    <3>4. Plain(VisibleImage(h2, d, Gone, u, s)) = Plain(VisibleImage(h, c, Gone, u, s))
      BY <1>1, <1>2, <1>10, <3>1, <3>2, PushInvisible
    <3> QED BY <2>2, <3>3, <3>4
  <2> QED BY <2>1, <2>2
<1>11. ASSUME NEW u \in Txns PROVE Same(u) /\ Behind(u)' = Behind(u)
  <2>1. Open(u)' <=> Open(u)
    BY <1>2 DEF Open
  <2>2. Behind(u)' = Behind(u)
    BY <1>2, <2>1, StaleSame
  <2>3. CASE u # t
    BY <1>1, <1>2, <1>3, <1>10, <2>2, <2>3, OthersSame
  <2>4. CASE u = t
    <3>1. ~Open(t) /\ Phase(t)' = Phase(t)
      BY <1>2 DEF Open, Phase
    <3> QED BY <2>1, <2>2, <2>4, <3>1 DEF Same, Views, Dirty
  <2> QED BY <2>3, <2>4
<1> QED BY <1>9, <1>11, MapsStutter

-----------------------------------------------------------------------------
(* The end of a transaction.                                                 *)

\* Collection drops nothing that a running transaction still reads.
LEMMA FinishUnseen ==
  ASSUME SInv, SInv', NEW t \in Txns, NEW x, FinishStep(t, x), NEW u \in Txns, u # t, pc[u] = "run",
         NEW r \in Records
  PROVE  Visible(u, r)' = Visible(u, r)
<1> DEFINE h == head[r]
           c == chain[r]
           s == start[u]
           S == Older(c, s)
<1>1. /\ TypeOK /\ IInv /\ ClockBound /\ KeptCommitted /\ RecordOK(r) /\ Timed(t) /\ Timed(u)
      /\ h \in Version /\ h.cts \in Nat /\ c \in Seq(Delta) /\ s \in Nat /\ is_commit_ts(s)
      /\ \A w \in Txns : cts[w] \in Nat /\ is_commit_ts(cts[w])
      /\ watermark \in Nat
  BY StateFacts, HeadFacts, ClockFacts DEF TxnOK, TypeOK, Ts
<1>2. /\ Turn(t) /\ pc' = [pc EXCEPT ![t] = x] /\ pc[t] \in {"promote", "abort"} /\ x \in {"committed", "aborted"}
      /\ x = "committed" <=> pc[t] = "promote"
      /\ pc[t] = "promote" => h.cts # TxnId(t)
      /\ pc[t] = "abort" => pos[t] = Len(undo[t])
      /\ UNCHANGED <<present, head, chain, start, cts>> /\ active' = active \ {t}
      /\ watermark' \in Nat /\ watermark <= watermark'
      /\ kept' \subseteq kept \cup {t} /\ \A w \in kept : w \in kept' \/ cts[w] <= watermark'
  BY DEF FinishStep
<1>3. pc'[t] = x /\ \A w \in Txns : w # t => pc'[w] = pc[w] /\ pc[w] \in {"new", "run", "committed", "aborted"}
  BY <1>1, <1>2, OthersWait DEF TypeOK
<1>4. watermark' <= s
  <2>1. u \in active'
    BY <1>1, <1>2 DEF Timed, Unfinished, Writing
  <2>2. WatermarkSafe'
    BY NextTyped
  <2> QED BY <1>2, <2>1, <2>2 DEF WatermarkSafe
<1>5. Gone \subseteq Gone'
  <2> SUFFICES ASSUME NEW w \in Gone PROVE w \in Gone'
    OBVIOUS
  <2>1. w \in Txns /\ (pc[w] = "aborted" \/ (pc[w] = "committed" /\ w \notin kept)) /\ w # t
    BY <1>2 DEF Gone
  <2> QED BY <1>2, <1>3, <2>1 DEF Gone
<1>6. CASE ~NewerThan(h.cts, u, s)
  <2>1. VisibleImage(h, c, Gone, u, s) = ImageOf(h)
    BY <1>6 DEF VisibleImage
  <2>2. VisibleImage(h, c, Gone', u, s) = ImageOf(h)
    BY <1>6 DEF VisibleImage
  <2> QED BY <1>2, <2>1, <2>2 DEF Visible
<1>7. CASE NewerThan(h.cts, u, s)
  <2>1. ~(h.cts < s)
    BY <1>1, <1>7, GraphAssumption DEF NewerThan, is_txn_id, is_commit_ts
  <2>2. ASSUME NEW i \in DOMAIN c, c[i].own \in Gone' \ Gone PROVE \E j \in DOMAIN c : j > i /\ j \in S
    <3>1. PICK w \in Txns : w = c[i].own
      BY <1>1, DeltaFacts
    <3>2. OwnedBy(w, r, i)
      BY <1>1, <3>1 DEF RecordOK, Owned
    <3>3. w \in Gone' /\ w \notin Gone
      BY <2>2, <3>1
    <3>4. CASE w = t
      <4>1. CASE pc[t] = "promote"
        <5>1. head[r].cts = cts[t]
          BY <1>2, <3>2, <3>4, <4>1 DEF OwnedBy
        <5>2. t \notin kept'
          BY <1>2, <1>3, <3>3, <3>4, <4>1 DEF Gone
        <5>3. cts[t] <= watermark'
          BY <1>2, <4>1, <5>2 DEF FinishStep, Retained
        <5>4. s < cts[t]
          <6>1. u \in Started
            BY DEF Started
          <6> QED BY <1>1, <4>1, <6>1 DEF Timed
        <5> QED BY <1>1, <1>2, <1>4, <5>3, <5>4
      <4>2. CASE pc[t] = "abort"
        <5>1. \A l \in DOMAIN undo[t] : ~(l > pos[t])
          BY <1>1, <1>2, <4>2, EntryFacts DEF TypeOK
        <5> QED BY <3>2, <3>4, <4>2, <5>1 DEF OwnedBy, Busy, Writing
      <4> QED BY <1>2, <4>1, <4>2
    <3>5. CASE w # t
      <4>1. pc[w] = "committed" /\ w \notin kept'
        BY <1>2, <1>3, <3>3, <3>5 DEF Gone
      <4>2. Retained(w)
        BY <3>2, <4>1 DEF OwnedBy, Busy, Writing
      <4>3. cts[w] <= s
        BY <1>1, <1>2, <1>4, <4>1, <4>2 DEF Retained
      <4>4. cts[w] < s
        <5>1. Clean(w, s) /\ w # 0
          BY <4>1, <4>3 DEF Clean, Past, Txns
        <5> QED BY <5>1, CleanBefore
      <4>5. head[r].cts # cts[w]
        BY <2>1, <4>4
      <4> QED BY <3>2, <4>1, <4>4, <4>5 DEF OwnedBy, Busy, Writing, Older
    <3> QED BY <3>4, <3>5
  <2>3. PICK more : more = Gone'
    OBVIOUS
  <2>4. Walk(c, more, S) = Walk(c, Gone, S)
    BY <1>1, <1>5, <2>2, <2>3, WalkDropped
  <2>5. VisibleImage(h, c, Gone, u, s) = VersionImage(h, c, Walk(c, Gone, S))
    BY <1>1, <1>7, VisibleIs
  <2>6. VisibleImage(h, c, more, u, s) = VersionImage(h, c, Walk(c, more, S))
    BY <1>1, <1>7, VisibleIs
  <2> QED BY <1>2, <2>3, <2>4, <2>5, <2>6 DEF Visible
<1> QED BY <1>6, <1>7

LEMMA FinishOthers ==
  ASSUME SInv, SInv', NEW t \in Txns, NEW x, FinishStep(t, x)
  PROVE  /\ pc'[t] = x /\ UNCHANGED <<present, head, chain, start, cts>>
         /\ \A u \in Txns : u # t => pc'[u] = pc[u] /\ pc[u] \in {"new", "run", "committed", "aborted"}
         /\ \A u \in Txns \ {t} : Same(u)
         /\ \A r \in Records : pc[t] = "abort" \/ head[r].cts # cts[t] => Committed(r)' = Committed(r)
<1>1. TypeOK /\ IInv /\ KeptCommitted
  BY StateFacts
<1>2. /\ Turn(t) /\ pc' = [pc EXCEPT ![t] = x] /\ pc[t] \in {"promote", "abort"} /\ x \in {"committed", "aborted"}
      /\ UNCHANGED <<present, head, chain, start, cts>>
      /\ \A u \in Txns : u # t => wset'[u] = wset[u] /\ (pc[u] # "committed" => undo'[u] = undo[u])
  BY DEF FinishStep
<1>3. pc'[t] = x /\ \A u \in Txns : u # t => pc'[u] = pc[u] /\ pc[u] \in {"new", "run", "committed", "aborted"}
  BY <1>1, <1>2, OthersWait DEF TypeOK
<1>4. ASSUME NEW u \in Txns \ {t} PROVE Same(u)
  <2>1. u # t
    OBVIOUS
  <2>2. pc[u] = "run" => \A r \in Records : Visible(u, r)' = Visible(u, r)
    BY <2>1, FinishUnseen
  <2>3. pc[u] = "run" => undo'[u] = undo[u]
    BY <1>2, <2>1
  <2> QED BY <1>1, <1>2, <1>3, <2>1, <2>2, <2>3, OthersSame
<1>5. ASSUME NEW r \in Records, pc[t] = "abort" \/ head[r].cts # cts[t] PROVE Committed(r)' = Committed(r)
  <2>1. \A w \in Txns : Writes(w, r)' <=> Writes(w, r)
    <3>1. \A w \in Txns : w # t => (Writes(w, r)' <=> Writes(w, r))
      BY <1>2, <1>3 DEF Writes
    <3>2. Writes(t, r)' <=> Writes(t, r)
      BY <1>2, <1>3, <1>5 DEF Writes
    <3> QED BY <3>1, <3>2
  <2> QED BY <1>2, <2>1, CommittedSame
<1> QED BY <1>2, <1>3, <1>4, <1>5

LEMMA AbortFinishMaps ==
  ASSUME SInv, SInv', NEW t \in Txns, AbortFinish(t)
  PROVE  UNCHANGED SI!vars
<1>1. pc[t] = "abort" /\ wrote' = wrote
  BY DEF AbortFinish
<1>2. /\ pc'[t] = "aborted" /\ UNCHANGED <<start, cts>>
      /\ \A u \in Txns : u # t => pc'[u] = pc[u]
      /\ \A u \in Txns \ {t} : Same(u)
      /\ \A r \in Records : Committed(r)' = Committed(r)
  BY <1>1, FinishSteps, FinishOthers
<1>3. ~Open(t) /\ ~Open(t)' /\ Phase(t) = "aborted" /\ Phase(t)' = "aborted"
  BY <1>1, <1>2 DEF Open, Phase
<1>4. Same(t) /\ Behind(t)' = Behind(t)
  BY <1>3 DEF Same, Views, Dirty, Behind
<1>5. ASSUME NEW u \in Txns \ {t} PROVE Behind(u)' = Behind(u)
  <2>1. Open(u)' <=> Open(u)
    BY <1>2 DEF Open
  <2> QED BY <1>1, <1>2, <2>1, StaleSame
<1> QED BY <1>2, <1>4, <1>5, MapsStutter

\* What a commit installs: the records it has touched carry its timestamp.
LEMMA InstalledIs ==
  ASSUME SInv, NEW t \in Txns, CommitFinish(t), NEW r \in Records
  PROVE  /\ r \in Touched(t) <=> \E i \in DOMAIN undo[t] : undo[t][i].rec = r
         /\ r \in Touched(t) <=> head[r].cts = cts[t]
<1>1. TypeOK /\ Held /\ StrategyOK(t) /\ Buffered(t) /\ LInv
  BY StateFacts DEF Strategies, TxnOK, SInv
<1>2. pc[t] = "promote"
  BY DEF CommitFinish
<1>3. head[r].cts # TxnId(t)
  BY <1>1, AllPromoted
<1>4. DOMAIN undo[t] = 1 .. Len(undo[t])
  BY <1>1 DEF TypeOK
<1>5. r \in Intents(t) => \E i \in DOMAIN undo[t] : undo[t][i].rec = r
  <2> SUFFICES ASSUME r \in Intents(t) PROVE \E i \in DOMAIN undo[t] : undo[t][i].rec = r
    OBVIOUS
  <2>1. Strategy[t] = "Optimistic"
    BY <1>1, GraphAssumption DEF StrategyOK
  <2> QED BY <1>1, <1>2, <2>1 DEF Buffered
<1>6. r \in Touched(t) <=> \E i \in DOMAIN undo[t] : undo[t][i].rec = r
  BY <1>4, <1>5 DEF Touched
<1>7. (\E i \in DOMAIN undo[t] : undo[t][i].rec = r) => head[r].cts = cts[t]
  BY <1>1, <1>2, <1>3 DEF Held
<1>8. head[r].cts = cts[t] => \E i \in DOMAIN undo[t] : undo[t][i].rec = r
  BY <1>1, <1>2 DEF Buffered
<1> QED BY <1>6, <1>7, <1>8

LEMMA CommitFinishMaps ==
  ASSUME SInv, SInv', NEW t \in Txns, CommitFinish(t)
  PROVE  SI!Commit(t)
<1>1. /\ TypeOK /\ IInv /\ ClockBound /\ Timed(t) /\ Succeeds /\ Superseded /\ Absent
      /\ \A u \in Txns : start[u] \in Nat /\ cts[u] \in Nat
  BY StateFacts, ClockFacts DEF TxnOK
<1>2. /\ pc[t] = "promote"
      /\ wrote' = [wrote EXCEPT ![t] = {undo[t][i].rec : i \in DOMAIN undo[t]}]
  BY DEF CommitFinish
<1>3. /\ pc'[t] = "committed" /\ UNCHANGED <<present, head, chain, start, cts>>
      /\ \A u \in Txns : u # t => pc'[u] = pc[u] /\ pc[u] \in {"new", "run", "committed", "aborted"}
      /\ \A u \in Txns \ {t} : Same(u)
      /\ \A r \in Records : head[r].cts # cts[t] => Committed(r)' = Committed(r)
  BY <1>2, FinishSteps, FinishOthers
<1>4. Open(t) /\ Phase(t) = "open" /\ Phase(t)' = "committed" /\ ~Open(t)'
  BY <1>2, <1>3 DEF Open, Phase
<1>5. Touched(t) \subseteq Records
  BY <1>1, EntryFacts DEF Touched, Intents, TypeOK
<1>6. wrote'[t] = Touched(t) /\ \A u \in Txns : u # t => wrote'[u] = wrote[u]
  <2>1. \A r \in Records : r \in Touched(t) <=> \E i \in DOMAIN undo[t] : undo[t][i].rec = r
    BY InstalledIs
  <2>2. \A i \in DOMAIN undo[t] : undo[t][i].rec \in Records
    BY <1>1, EntryFacts
  <2>3. {undo[t][i].rec : i \in DOMAIN undo[t]} = Touched(t)
    BY <1>5, <2>1, <2>2
  <2> QED BY <1>1, <1>2, <2>3 DEF TypeOK
<1>7. Touched(t) \cap Stale(t) = {}
  <2> SUFFICES ASSUME NEW r \in Touched(t), r \in Stale(t) PROVE FALSE
    OBVIOUS
  <2>1. PICK u \in Txns : u # t /\ cts[u] > start[t] /\ r \in wrote[u]
    BY DEF Stale
  <2>2. PICK i \in DOMAIN undo[t] : undo[t][i].rec = r
    BY <1>5, InstalledIs
  <2>3. cts[u] < start[t]
    BY <1>1, <1>2, <2>1, <2>2 DEF Succeeds, Unfinished
  <2> QED BY <1>1, <2>1, <2>3
<1>8. ASSUME NEW r \in Records PROVE Committed(r)' = IF r \in Touched(t) THEN View(t, r) ELSE Committed(r)
  <2>1. CASE r \notin Touched(t)
    BY <1>3, <2>1, InstalledIs
  <2>2. CASE r \in Touched(t)
    <3>1. head[r].cts = cts[t] /\ is_commit_ts(cts[t])
      BY <1>1, <2>2, InstalledIs, ClockFacts
    <3>2. r \in present
      <4> SUFFICES ASSUME r \notin present PROVE FALSE
        OBVIOUS
      <4>1. head[r].cts = 0
        BY <1>1 DEF Absent, NoHead, HeadOf
      <4>2. start[t] < cts[t]
        BY <1>1, <1>2 DEF ClockBound
      <4> QED BY <1>1, <3>1, <4>1, <4>2
    <3>3. View(t, r) = Plain(ImageOf(head[r]))
      BY <1>2, <3>1, <3>2 DEF View
    <3>4. CommittedIs(r)'
      BY CommittedNext DEF CommittedGraph
    <3>5. \A w \in Txns : ~Writes(w, r)'
      <4>1. \A w \in Txns : pc'[w] # "promote"
        BY <1>3
      <4> QED BY <1>1, <1>3, <3>1, <4>1, IdFacts DEF Writes
    <3>6. Committed(r)' = Plain(ImageOf(head[r]))
      BY <1>3, <3>2, <3>4, <3>5 DEF CommittedIs
    <3> QED BY <2>2, <3>3, <3>6
  <2> QED BY <2>1, <2>2
<1>9. ASSUME NEW u \in Txns \ {t}
      PROVE  Behind(u)' = IF Phase(u) = "open" THEN Behind(u) \cup Touched(t) ELSE Behind(u)
  <2>1. u # t /\ pc'[u] = pc[u] /\ (Open(u)' <=> Open(u))
    BY <1>3 DEF Open
  <2>2. CASE ~Open(u)
    <3>1. Phase(u) # "open"
      BY <2>2 DEF Phase
    <3> QED BY <2>1, <2>2, <3>1 DEF Behind
  <2>3. CASE Open(u)
    <3>1. u \in Started /\ Phase(u) = "open"
      BY <2>3 DEF Started, Open, Phase
    <3>2. start[u] < cts[t]
      BY <1>1, <1>2, <2>1, <3>1 DEF Timed
    <3>3. wrote[t] = {}
      BY <1>1, <1>2 DEF Superseded, TypeOK
    <3>4. Stale(u)' = UNION {wrote'[w] : w \in {y \in Txns \ {u} : cts[y] > start[u]}}
      BY <1>3 DEF Stale
    <3>5. Stale(u)' = Stale(u) \cup Touched(t)
      <4>1. t \in {y \in Txns \ {u} : cts[y] > start[u]}
        BY <1>1, <2>1, <3>2
      <4>2. ASSUME NEW r PROVE r \in Stale(u)' <=> r \in Stale(u) \cup Touched(t)
        <5>1. r \in Stale(u)' <=> \E w \in {y \in Txns \ {u} : cts[y] > start[u]} : r \in wrote'[w]
          BY <3>4
        <5>2. r \in Stale(u) <=> \E w \in {y \in Txns \ {u} : cts[y] > start[u]} : r \in wrote[w]
          BY DEF Stale
        <5> QED BY <1>6, <3>3, <4>1, <5>1, <5>2
      <4> QED BY <4>2
    <3> QED BY <2>1, <2>3, <3>1, <3>5 DEF Behind
  <2> QED BY <2>2, <2>3
<1> QED BY <1>3, <1>4, <1>7, <1>8, <1>9, MapsCommit

-----------------------------------------------------------------------------
(* Every step.                                                               *)

LEMMA WriteMaps ==
  ASSUME SInv, SInv', NEW t \in Txns,
         \/ DeleteRecord(t)
         \/ \E r \in Records : CreatePessimistic(t, r) \/ \E p \in Props : SetPessimistic(t, r, p)
  PROVE  UNCHANGED SI!vars \/ SI!Write(t)
<1>1. ASSUME NEW r \in Records, NEW p \in Props, SetPessimistic(t, r, p) PROVE SI!Write(t)
  <2>1. PICK e \in Delta : PushStep(t, "run", r, e)
    BY <1>1, SetPushes
  <2> QED BY <2>1, PushMaps
<1>2. ASSUME NEW r \in Records, CreatePessimistic(t, r) PROVE UNCHANGED SI!vars \/ SI!Write(t)
  <2>1. CASE UNCHANGED <<present, head, chain, undo>>
    <3>1. CalmMove(t, "run") /\ pc[t] = "create" /\ start' = start /\ wset' = wset /\ undo' = undo
      BY <1>2, <2>1 DEF CreatePessimistic, Goto, CalmMove, mgrVars
    <3> QED BY <3>1, CalmMaps
  <2>2. ASSUME NEW e \in Delta, PushStep(t, "run", r, e) PROVE SI!Write(t)
    BY <2>2, PushMaps
  <2> QED BY <1>2, <2>1, <2>2, CreatePushes
<1>3. ASSUME DeleteRecord(t) PROVE UNCHANGED SI!vars \/ SI!Write(t)
  <2>1. PICK x \in {"run", "delete"} :
             /\ pc' = [pc EXCEPT ![t] = x]
             /\ \/ \E r \in Records, e \in Delta : PushStep(t, x, r, e)
                \/ UNCHANGED <<present, head, chain, undo>>
    BY <1>3, DeletePushes
  <2>2. CASE UNCHANGED <<present, head, chain, undo>>
    <3>1. Turn(t) /\ pc[t] = "delete" /\ start' = start /\ cts' = cts /\ wset' = wset /\ kept' = kept /\ wrote' = wrote
      BY <1>3 DEF DeleteRecord, mgrVars
    <3>2. CalmMove(t, x)
      BY <2>1, <2>2, <3>1 DEF CalmMove
    <3> QED BY <2>2, <3>1, <3>2, CalmMaps
  <2>3. ASSUME NEW r \in Records, NEW e \in Delta, PushStep(t, x, r, e) PROVE SI!Write(t)
    BY <2>3, PushMaps
  <2> QED BY <2>1, <2>2, <2>3
<1> QED BY <1>1, <1>2, <1>3

LEMMA ActMaps ==
  ASSUME SInv, SInv', NEW t \in Txns, Begin(t) \/ Operation(t) \/ Commit(t) \/ Rollbacks(t)
  PROVE  UNCHANGED SI!vars \/ SI!Begin(t) \/ SI!Write(t) \/ SI!Commit(t) \/ SI!Abort(t)
<1>1. CASE Begin(t)
  BY <1>1, StillCalls, BeginMaps DEF Begin
<1>2. CASE Operation(t)
  BY <1>2, StillCalls, StageMaps, WriteMaps DEF Operation
<1>3. CASE Commit(t)
  <2>1. CASE CommitDrawTs(t)
    BY <2>1, StillCalls
  <2>2. CASE CommitLock(t)
    BY <2>2, LockOrAbort
  <2>3. CASE Promote(t) \/ \E r \in Records : PromoteIntent(t, r)
    BY <2>3, Promotes, PromoteMaps
  <2>4. CASE CommitFinish(t)
    BY <2>4, CommitFinishMaps
  <2>5. ASSUME NEW r \in Records, ApplyIntent(t, r) PROVE SI!Write(t)
    <3>1. PICK x \in {"promote", "apply"}, e \in Delta : PushStep(t, x, r, e)
      BY <2>5, ApplyPushes
    <3>2. pc[t] = "apply"
      BY <2>5 DEF ApplyIntent
    <3> QED BY <3>1, <3>2, PushMaps
  <2> QED BY <1>3, <2>1, <2>2, <2>3, <2>4, <2>5 DEF Commit
<1>4. CASE Rollbacks(t)
  <2>1. CASE AbortEntry(t)
    <3>1. PICK r \in Records, e \in Delta, c \in Seq(Delta) : PopStep(t, r, e, c)
      BY <2>1, AbortPops
    <3> QED BY <3>1, PopMaps
  <2>2. CASE Abort(t)
    BY <2>2, LockOrAbort
  <2>3. CASE AbortFinish(t)
    BY <2>3, AbortFinishMaps
  <2> QED BY <1>4, <2>1, <2>2, <2>3 DEF Rollbacks
<1> QED BY <1>1, <1>2, <1>3, <1>4

LEMMA NextMaps == SInv /\ [Next]_vars => [SI!Next]_(SI!vars)
<1> SUFFICES ASSUME SInv, [Next]_vars PROVE SI!Next \/ UNCHANGED SI!vars
  OBVIOUS
<1>1. SInv'
  BY StepSInv
<1>2. CASE UNCHANGED vars
  <2>1. UNCHANGED <<present, head, chain, pc, start, cts, undo, wset, kept, wrote>>
    BY <1>2 DEF vars, graphVars, txnVars, mgrVars
  <2> QED BY <2>1, StillMaps
<1>3. ASSUME NEW t \in Txns, Begin(t) \/ Operation(t) \/ Commit(t) \/ Rollbacks(t)
      PROVE  SI!Next \/ UNCHANGED SI!vars
  <2>1. UNCHANGED SI!vars \/ SI!Begin(t) \/ SI!Write(t) \/ SI!Commit(t) \/ SI!Abort(t)
    BY <1>1, <1>3, ActMaps
  <2> QED BY <2>1 DEF SI!Next
<1> QED BY <1>2, <1>3 DEF Next

LEMMA InitMaps ==
  ASSUME SInv, Init
  PROVE  SI!Init
<1>1. \A t \in Txns : pc[t] = "new"
  BY DEF Init
<1>2. \A t \in Txns : Phase(t) = "new" /\ ~Open(t)
  BY <1>1 DEF Phase, Open
<1>3. ASSUME NEW r \in Records PROVE Committed(r) \in Image
  <2>1. CommittedIs(r) /\ head[r] \in Version /\ head[r].cts \in {0, 2}
    BY CommittedKnown, StateFacts, HeadFacts DEF CommittedGraph, Init, NoHead, HeadOf
  <2>2. \A w \in Txns : ~Writes(w, r)
    BY <1>1, <2>1, GraphAssumption DEF Writes, TxnId, Txns
  <2>3. Committed(r) = NoImage \/ Committed(r) = Plain(ImageOf(head[r]))
    BY <2>1, <2>2 DEF CommittedIs
  <2> QED BY <2>1, <2>3, NothingTyped, VersionTyped, PlainTyped
<1>4. /\ [r \in Records |-> Committed(r)] \in [Records -> Image]
      /\ [t \in Txns |-> Phase(t)] = [t \in Txns |-> "new"]
      /\ [t \in Txns |-> Views(t)] = [t \in Txns |-> <<>>]
      /\ [t \in Txns |-> Dirty(t)] = [t \in Txns |-> {}]
      /\ [t \in Txns |-> Behind(t)] = [t \in Txns |-> {}]
  BY <1>2, <1>3 DEF Views, Dirty, Behind
<1> QED BY <1>4, Zenon DEF Phase, Views, Dirty, Behind, SI!Init, SI!NoView

(* The version store is snapshot isolation for careful clients, however many  *)
(* transactions, pessimistic and optimistic, are open at a time: what a       *)
(* transaction reads is the graph committed when it began with its own writes *)
(* on top, commit_at installs its writes at once, at finalize_commit_common,  *)
(* and only if nobody installed one of the records in between, and neither    *)
(* abort_at nor garbage collection changes anything a transaction can see.    *)
THEOREM StoreIsSnapshotIsolation == CarefulClients /\ Spec => ImplementsSnapshotIsolation
<1>1. SInv /\ Init => SI!Init
  BY InitMaps
<1> QED BY <1>1, NextMaps, SnapshotInvariant, PTL DEF Spec, ImplementsSnapshotIsolation, SI!Spec

=============================================================================
