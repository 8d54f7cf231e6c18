--------------------------- MODULE DbFile_proofs ---------------------------
(***************************************************************************)
(* The database file is a durable log, for every set of checkpoints, every *)
(* number of entries and every length of the file, as long as a crash      *)
(* comes between two calls or inside append_wal.  A crash inside           *)
(* write_checkpoint or truncate_wal_until breaks the promise, so the       *)
(* theorems assume that none comes there (TornAppendsOnly).                *)
(***************************************************************************)
EXTENDS DbFile, TLAPS, WellFoundedInduction, SequenceTheorems

TornAppendsOnly == CrashIn \subseteq {"idle", "append"}

-----------------------------------------------------------------------------
(* The inductive invariant.                                                  *)

Headers == [has_ckpt : BOOLEAN, has_wal : BOOLEAN, ckpt_len : Nat, wal_off : Nat \ {0},
            wal_len : Nat, last_lsn : 0 .. MaxLsn]
HeaderBlocks == [kind : {"header"}, h : Headers]
CkptBlocks == [kind : {"ckpt"}, c : Snapshots, i : Nat]
WalBlocks == [kind : {"wal"}, lsn : Lsns]
BlockValues == {Eof} \cup HeaderBlocks \cup CkptBlocks \cup WalBlocks

AnyContents == [ok : BOOLEAN, snap : Snapshots \cup {NoSnapshot}, log : Seq(Lsns)]
Operations == [kind : {"idle", "append", "checkpoint", "truncate"}, 
               pc : {"", "sync entry", "count", "sync count", "header", "sync", "rewrite"},
               rest : Seq(Lsns), snap : Snapshots \cup {NoSnapshot}, before : AnyContents]

Types ==
    /\ disk \in [Blocks -> BlockValues]
    /\ pend \in [Blocks -> Seq(BlockValues)]
    /\ header \in Headers
    /\ up \in {"up", "down"}
    /\ op \in Operations
    /\ used \subseteq Lsns

\* The image d holds the checkpoint that the header h describes ...
CkptOn(d, h, c) ==
    /\ h.ckpt_len = Size[c] /\ h.wal_off = HEADER_SIZE + Size[c] /\ Size[c] <= MaxBlock
    /\ \A i \in 1 .. Size[c] : d[i] = CkptBlock(c, i)
RegionOn(d, h) ==
    /\ h.has_ckpt => \E c \in Snapshots : CkptOn(d, h, c)
    /\ ~h.has_ckpt => h.wal_off = HEADER_SIZE
\* ... and the log behind it.
WalOn(d, h) ==
    /\ h.wal_off + h.wal_len - 1 <= MaxBlock
    /\ h.wal_len > 0 => h.has_wal
    /\ \A b \in h.wal_off .. h.wal_off + h.wal_len - 1 : d[b] \in WalBlocks
Described(d, h) == RegionOn(d, h) /\ WalOn(d, h)

SnapOf(d, h) == IF h.has_ckpt THEN d[HEADER_SIZE].c ELSE NoSnapshot
LogOf(d, h) == [i \in 1 .. h.wal_len |-> d[h.wal_off + i - 1].lsn]

NothingPending == [b \in Blocks |-> <<>>]
Counted(h, n) == [h EXCEPT !.wal_len = @ + 1, !.has_wal = TRUE, !.last_lsn = n]

\* append_wal, with the LSN n: the entry is pending, then synced but not
\* counted, then the header that counts it is pending.
Appending(n) ==
    LET h == disk[0].h
        end == h.wal_off + h.wal_len
    IN  /\ end <= MaxBlock
        /\ op.pc \in {"sync entry", "count", "sync count"}
        /\ op.pc = "sync entry" => header = h /\ pend = Written(NothingPending, One(end, WalBlock(n)))
        /\ op.pc = "count" => header = h /\ pend = NothingPending /\ disk[end] = WalBlock(n)
        /\ op.pc = "sync count" =>
              /\ header = Counted(h, n) /\ disk[end] = WalBlock(n)
              /\ pend = Written(NothingPending, One(0, HeaderBlock(header)))

\* write_checkpoint: the region is written, then the header too.
Checkpointing ==
    /\ op.snap \in Snapshots
    /\ op.pc \in {"header", "sync"}
    /\ Size[op.snap] <= MaxBlock
    /\ \A i \in 1 .. Size[op.snap] : Cached[i] = CkptBlock(op.snap, i)
    /\ op.pc = "header" => NextLsn <= MaxLsn
    /\ op.pc = "sync" => /\ header.has_ckpt /\ ~header.has_wal /\ header.wal_len = 0
                         /\ CkptOn(Cached, header, op.snap)

\* truncate_wal_until(n): the entries that are in the log again and those that
\* are left make up what is to be kept.
Truncating(n) ==
    /\ Described(Cached, header)
    /\ op.before.snap = SnapOf(Cached, header)
    /\ op.pc \in {"rewrite", "sync entry", "count", "sync count", "sync"}
    /\ op.pc # "sync" => op.rest # <<>>
    /\ op.pc \in {"rewrite", "sync entry", "count"} =>
          DL!Truncation(op.before.log, LogOf(Cached, header) \o op.rest, n)
    /\ op.pc \in {"sync entry", "count"} =>
          /\ header.wal_off + header.wal_len <= MaxBlock
          /\ Cached[header.wal_off + header.wal_len] = WalBlock(Head(op.rest))
    /\ op.pc = "sync count" => DL!Truncation(op.before.log, LogOf(Cached, header) \o Tail(op.rest), n)
    /\ op.pc = "sync" => DL!Truncation(op.before.log, LogOf(Cached, header), n)

IInv ==
    /\ TornAppendsOnly
    /\ Types
    /\ disk[0] \in HeaderBlocks
    /\ up = "up" => Cached[0] = HeaderBlock(header)
    /\ up = "down" => op.kind = "idle"
    /\ op.kind = "idle" => op = Idle /\ pend = NothingPending /\ Described(disk, disk[0].h)
    /\ op.kind = "append" =>
          /\ Described(disk, disk[0].h)
          /\ \E n \in Lsns : op.rest = <<n>> /\ Appending(n)
    /\ op.kind = "checkpoint" => Checkpointing
    /\ op.kind = "truncate" => \E n \in Lsns : Truncating(n)

-----------------------------------------------------------------------------
(* Natural numbers: least elements, greatest elements of bounded sets, and   *)
(* induction with the induction hypothesis as a set.                         *)

LEMMA LeastElement ==
  ASSUME NEW S \in SUBSET Nat, S # {}
  PROVE  \E x \in S : \A y \in S : x <= y
<1>1. PICK x \in S : \A y \in S : ~ (<<y, x>> \in OpToRel(<, Nat))
  BY WFMin, NatLessThanWellFounded, Zenon
<1>2. ASSUME NEW y \in S, y < x PROVE FALSE
  <2>1. <<y, x>> \in Nat \X Nat
    OBVIOUS
  <2>2. <<y, x>>[1] < <<y, x>>[2]
    BY <1>2
  <2>3. <<y, x>> \in OpToRel(<, Nat)
    BY <2>1, <2>2, Zenon DEF OpToRel
  <2> QED BY <1>1, <2>3, Zenon
<1>3. \A y \in S : x <= y
  BY <1>2
<1> QED BY <1>3

LEMMA SetInduction ==
  ASSUME NEW S, 0 \in S, \A m \in Nat : m \in S => m + 1 \in S
  PROVE  Nat \subseteq S
<1> SUFFICES ASSUME Nat \ S # {} PROVE FALSE
  OBVIOUS
<1>1. PICK x \in Nat \ S : \A y \in Nat \ S : x <= y
  BY LeastElement
<1>2. x - 1 \in Nat /\ x - 1 \in S
  BY <1>1
<1> QED BY <1>1, <1>2

LEMMA MaxExists ==
  ASSUME NEW N \in Nat, NEW S \in SUBSET (0 .. N), S # {}
  PROVE  Max(S) \in S /\ \A y \in S : y <= Max(S)
<1> DEFINE T == {N - x : x \in S}
<1>1. T \in SUBSET Nat
  OBVIOUS
<1>0. T # {}
  <2>1. PICK x \in S : TRUE
    OBVIOUS
  <2>2. N - x \in T
    OBVIOUS
  <2> QED BY <2>2
<1>2. PICK t \in T : \A u \in T : t <= u
  <2> HIDE DEF T
  <2> QED BY <1>0, <1>1, LeastElement
<1>3. PICK x \in S : t = N - x
  OBVIOUS
<1>4. \A y \in S : x >= y
  BY <1>2, <1>3
<1> QED BY <1>4 DEF Max

-----------------------------------------------------------------------------
(* Kept: what a truncation keeps is increasing and complete.                 *)

LEMMA KeptRecursion ==
  ASSUME NEW log, NEW n
  PROVE  KeptUpTo(log, n) =
            [m \in 0 .. MaxLsn |->
                IF m = 0 THEN <<>>
                ELSE IF m >= n /\ m \in Range(log) THEN Append(KeptUpTo(log, n)[m - 1], m)
                ELSE KeptUpTo(log, n)[m - 1]]
<1> DEFINE body(f, m) == IF m = 0 THEN <<>>
                         ELSE IF m >= n /\ m \in Range(log) THEN Append(f[m - 1], m)
                         ELSE f[m - 1]
           Defined == {k \in Nat : \E f : f = [m \in 0 .. k |-> body(f, m)]}
<1>1. 0 \in Defined
  <2>1. [m \in 0 .. 0 |-> <<>>] = [m \in 0 .. 0 |-> body([j \in 0 .. 0 |-> <<>>], m)]
    OBVIOUS
  <2> QED BY <2>1
<1>2. ASSUME NEW k \in Nat, k \in Defined PROVE k + 1 \in Defined
  <2>1. PICK f : f = [m \in 0 .. k |-> body(f, m)]
    BY <1>2
  <2> DEFINE g == [m \in 0 .. k + 1 |-> IF m <= k THEN f[m] ELSE body(f, m)]
  <2>2. \A m \in 0 .. k + 1 : g[m] = body(g, m)
    <3> TAKE m \in 0 .. k + 1
    <3>1. m # 0 => m - 1 \in 0 .. k /\ g[m - 1] = f[m - 1]
      OBVIOUS
    <3>2. body(g, m) = body(f, m)
      BY <3>1
    <3>3. CASE m <= k
      <4> HIDE DEF body
      <4>0. m \in 0 .. k
        BY <3>3
      <4>1. f[m] = body(f, m)
        BY <2>1, <4>0, Zenon
      <4> QED BY <3>2, <3>3, <4>1
    <3>4. CASE ~(m <= k)
      <4> HIDE DEF body
      <4> QED BY <3>2, <3>4
    <3> QED BY <3>3, <3>4
  <2>3. g = [m \in 0 .. k + 1 |-> body(g, m)]
    <3> HIDE DEF body
    <3> QED BY <2>2
  <2>4. \E h : h = [m \in 0 .. k + 1 |-> body(h, m)]
    <3> HIDE DEF g, body
    <3> QED BY <2>3
  <2> HIDE DEF body
  <2> QED BY <2>4
<1>3. MaxLsn \in Defined
  <2> HIDE DEF Defined
  <2> QED BY <1>1, <1>2, SetInduction, FileAssumption
<1>4. \E f : f = [m \in 0 .. MaxLsn |-> body(f, m)]
  BY <1>3
<1>5. KeptUpTo(log, n) = CHOOSE f : f = [m \in 0 .. MaxLsn |-> body(f, m)]
  BY DEF KeptUpTo
<1> HIDE DEF body
<1>6. KeptUpTo(log, n) = [m \in 0 .. MaxLsn |-> body(KeptUpTo(log, n), m)]
  BY <1>4, <1>5
<1> USE DEF body
<1> QED BY <1>6

LEMMA KeptSteps ==
  ASSUME NEW log, NEW n
  PROVE  /\ KeptUpTo(log, n)[0] = <<>>
         /\ \A m \in Nat : m + 1 <= MaxLsn =>
              KeptUpTo(log, n)[m + 1] = IF m + 1 >= n /\ m + 1 \in Range(log)
                                        THEN Append(KeptUpTo(log, n)[m], m + 1)
                                        ELSE KeptUpTo(log, n)[m]
<1> DEFINE k == KeptUpTo(log, n)
           body(m) == IF m = 0 THEN <<>>
                      ELSE IF m >= n /\ m \in Range(log) THEN Append(k[m - 1], m)
                      ELSE k[m - 1]
<1>1. k = [m \in 0 .. MaxLsn |-> body(m)]
  BY KeptRecursion, Zenon
<1> HIDE DEF k
<1>2. \A m \in 0 .. MaxLsn : k[m] = body(m)
  <2> HIDE DEF body
  <2> QED BY <1>1, Zenon
<1>3. k[0] = body(0)
  BY <1>2, FileAssumption
<1>4. ASSUME NEW m \in Nat, m + 1 <= MaxLsn
      PROVE  k[m + 1] = IF m + 1 >= n /\ m + 1 \in Range(log) THEN Append(k[m], m + 1) ELSE k[m]
  <2>1. m + 1 \in 0 .. MaxLsn /\ m + 1 # 0 /\ (m + 1) - 1 = m
    BY <1>4, FileAssumption
  <2>2. k[m + 1] = body(m + 1)
    BY <1>2, <2>1, Zenon
  <2> QED BY <2>1, <2>2, Zenon
<1> QED BY <1>3, <1>4 DEF k

Increasing(s) == \A i, j \in DOMAIN s : i < j => s[i] < s[j]

LEMMA AppendLarger ==
  ASSUME NEW s \in Seq(Lsns), NEW m \in Lsns, Increasing(s), \A x \in Range(s) : x < m
  PROVE  /\ Append(s, m) \in Seq(Lsns) /\ Increasing(Append(s, m))
         /\ Range(Append(s, m)) = Range(s) \cup {m}
<1>1. /\ Append(s, m) \in Seq(Lsns) /\ DOMAIN Append(s, m) = 1 .. Len(s) + 1
      /\ Append(s, m)[Len(s) + 1] = m /\ DOMAIN s = 1 .. Len(s) /\ Len(s) \in Nat
      /\ \A i \in 1 .. Len(s) : Append(s, m)[i] = s[i] /\ s[i] \in Lsns /\ s[i] \in Range(s)
  BY DEF Range
<1>2. Increasing(Append(s, m))
  BY <1>1 DEF Increasing, Lsns
<1>3. Range(Append(s, m)) = Range(s) \cup {m}
  BY <1>1 DEF Range
<1> QED BY <1>1, <1>2, <1>3

\* A truncation keeps exactly the entries from n on, in the order of their LSNs.
LEMMA KeptSorted ==
  ASSUME NEW log \in Seq(Lsns), NEW n \in Lsns
  PROVE  Kept(log, n) \in Seq(Lsns) /\ DL!Truncation(log, Kept(log, n), n)
<1> DEFINE k == KeptUpTo(log, n)
           Good(m) == /\ k[m] \in Seq(Lsns) /\ Increasing(k[m])
                      /\ Range(k[m]) = {x \in Range(log) : x >= n /\ x <= m}
           S == {m \in Nat : m <= MaxLsn => Good(m)}
<1>0. n \in Nat /\ \A x \in Range(log) : x \in Nat /\ x \in Lsns
  BY FileAssumption DEF Range, Lsns
<1>1. /\ k[0] = <<>>
      /\ \A m \in Nat : m + 1 <= MaxLsn =>
           k[m + 1] = IF m + 1 >= n /\ m + 1 \in Range(log) THEN Append(k[m], m + 1) ELSE k[m]
  BY KeptSteps, Zenon
<1> HIDE DEF k
<1>2. 0 \in S
  <2>1. k[0] = <<>>
    BY <1>1
  <2>2. {x \in Range(log) : x >= n /\ x <= 0} = {}
    BY <1>0 DEF Lsns
  <2>3. k[0] \in Seq(Lsns) /\ Increasing(k[0]) /\ Range(k[0]) = {}
    BY <2>1 DEF Increasing, Range
  <2> QED BY <2>2, <2>3
<1>3. ASSUME NEW m \in Nat, m \in S PROVE m + 1 \in S
  <2> SUFFICES ASSUME m + 1 <= MaxLsn PROVE Good(m + 1)
    OBVIOUS
  <2>1. Good(m)
    BY <1>3, FileAssumption
  <2>2. CASE m + 1 >= n /\ m + 1 \in Range(log)
    <3>1. k[m + 1] = Append(k[m], m + 1)
      BY <1>1, <2>2
    <3>2. {x \in Range(log) : x >= n /\ x <= m + 1} =
             {x \in Range(log) : x >= n /\ x <= m} \cup {m + 1}
      BY <1>0, <2>2
    <3>3. m + 1 \in Lsns /\ \A x \in Range(k[m]) : x < m + 1
      BY <1>0, <2>1, <2>2
    <3> QED BY <2>1, <3>1, <3>2, <3>3, AppendLarger
  <2>3. CASE ~(m + 1 >= n /\ m + 1 \in Range(log))
    <3>1. k[m + 1] = k[m]
      BY <1>1, <2>3
    <3>2. {x \in Range(log) : x >= n /\ x <= m + 1} = {x \in Range(log) : x >= n /\ x <= m}
      BY <1>0, <2>3
    <3> QED BY <2>1, <3>1, <3>2
  <2> QED BY <2>2, <2>3
<1>4. MaxLsn \in S
  <2> HIDE DEF S
  <2> QED BY <1>2, <1>3, SetInduction, FileAssumption
<1>5. Good(MaxLsn)
  BY <1>4, FileAssumption
<1>6. {x \in Range(log) : x >= n /\ x <= MaxLsn} = {x \in Range(log) : x >= n}
  BY <1>0, FileAssumption DEF Lsns
<1>7. Kept(log, n) = k[MaxLsn]
  BY DEF Kept, k
<1>8. Range(Kept(log, n)) = {x \in Range(log) : x >= n} /\ Increasing(Kept(log, n))
      /\ Kept(log, n) \in Seq(Lsns)
  BY <1>5, <1>6, <1>7
<1> QED BY <1>8 DEF DL!Truncation, DL!Range, Range, Increasing

-----------------------------------------------------------------------------
(* What is read back of a described image.                                   *)

LEMMA EndOfFile ==
  ASSUME NEW d \in [Blocks -> BlockValues], NEW b \in Blocks, d[b] # Eof
  PROVE  End(d) \in Blocks /\ b <= End(d)
<1> DEFINE S == {x \in Blocks : d[x] # Eof}
<1>1. S \in SUBSET (0 .. MaxBlock) /\ b \in S
  BY DEF Blocks
<1>2. Max(S) \in S /\ \A y \in S : y <= Max(S)
  <2> HIDE DEF S
  <2> QED BY <1>1, MaxExists, FileAssumption
<1> QED BY <1>1, <1>2 DEF End

LEMMA ReadBack ==
  ASSUME NEW d \in [Blocks -> BlockValues], NEW h \in Headers, d[0] = HeaderBlock(h),
         Described(d, h)
  PROVE  /\ Contents(d) = [ok |-> TRUE, snap |-> SnapOf(d, h), log |-> LogOf(d, h)]
         /\ SnapOf(d, h) \in Snapshots \cup {NoSnapshot} /\ LogOf(d, h) \in Seq(Lsns)
         /\ read_wal_entries(d, h).log = LogOf(d, h)
<1>0. h.wal_len \in Nat /\ h.wal_off \in Nat \ {0} /\ h.has_ckpt \in BOOLEAN /\ h.has_wal \in BOOLEAN
  BY DEF Headers
<1>1. read_checkpoint(d, h) = [ok |-> TRUE, snap |-> SnapOf(d, h)]
      /\ SnapOf(d, h) \in Snapshots \cup {NoSnapshot}
  <2>1. CASE ~h.has_ckpt
    BY <2>1 DEF read_checkpoint, SnapOf
  <2>2. CASE h.has_ckpt
    <3>1. PICK c \in Snapshots : CkptOn(d, h, c)
      BY <2>2 DEF Described, RegionOn
    <3>2. Size[c] \in Nat \ {0} /\ h.ckpt_len # 0 /\ d[1] = CkptBlock(c, 1)
      BY <3>1, FileAssumption DEF CkptOn
    <3>3. d[1].kind = "ckpt" /\ d[1].i = 1 /\ d[1].c = c
      BY <3>2 DEF CkptBlock
    <3>4. \A i \in 1 .. Size[c] : d[1 + i - 1] = CkptBlock(c, i)
      BY <3>1, <3>2 DEF CkptOn
    <3> QED BY <2>2, <3>2, <3>3, <3>4 DEF read_checkpoint, SnapOf, HEADER_SIZE
  <2> QED BY <2>1, <2>2, <1>0
<1>2. read_wal_entries(d, h) = [ok |-> TRUE, log |-> LogOf(d, h)] /\ LogOf(d, h) \in Seq(Lsns)
  <2>1. CASE h.wal_len = 0
    <3>1. LogOf(d, h) = <<>>
      BY <2>1 DEF LogOf
    <3> QED BY <2>1, <3>1 DEF read_wal_entries
  <2>2. CASE h.wal_len > 0
    <3> DEFINE last == h.wal_off + h.wal_len - 1
    <3>1. last \in Blocks /\ h.has_wal /\ \A b \in h.wal_off .. last : d[b] \in WalBlocks
      BY <1>0, <2>2 DEF Described, WalOn, Blocks
    <3>2. \A b \in h.wal_off .. last : d[b].kind = "wal" /\ d[b].lsn \in Lsns
      BY <3>1 DEF WalBlocks
    <3>3. d[last] # Eof
      BY <3>2, <1>0, <2>2 DEF Eof
    <3>4. End(d) \in Blocks /\ last <= End(d)
      BY <3>1, <3>3, EndOfFile
    <3>5. Min({last, End(d)}) = last
      <4>1. last \in Int /\ End(d) \in Int
        BY <3>1, <3>4 DEF Blocks
      <4> HIDE DEF last
      <4> QED BY <3>4, <4>1 DEF Min
    <3>6. last - h.wal_off + 1 = h.wal_len
      BY <1>0
    <3>7. read_wal_entries(d, h) = [ok |-> TRUE, log |-> [i \in 1 .. last - h.wal_off + 1 |->
                                                               d[h.wal_off + i - 1].lsn]]
      <4>1. ~(~h.has_wal \/ h.wal_len = 0) /\ ~\E b \in h.wal_off .. last : d[b].kind # "wal"
        BY <2>2, <3>1, <3>2, <1>0
      <4> HIDE DEF last
      <4> QED BY <3>5, <4>1 DEF read_wal_entries, last
    <3>8. \A i \in 1 .. h.wal_len : h.wal_off + i - 1 \in h.wal_off .. last
      BY <1>0
    <3>9. \A i \in 1 .. h.wal_len : d[h.wal_off + i - 1].lsn \in Lsns
      BY <3>2, <3>8
    <3>10. LogOf(d, h) \in Seq(Lsns)
      BY <3>9, <1>0 DEF LogOf
    <3>11. LogOf(d, h) = [i \in 1 .. last - h.wal_off + 1 |-> d[h.wal_off + i - 1].lsn]
      BY <3>6 DEF LogOf
    <3> QED BY <3>7, <3>10, <3>11
  <2> QED BY <2>1, <2>2, <1>0
<1>3. d[0].h = h
  BY DEF HeaderBlock
<1>4. /\ read_checkpoint(d, h).ok /\ read_checkpoint(d, h).snap = SnapOf(d, h)
      /\ read_wal_entries(d, h).ok /\ read_wal_entries(d, h).log = LogOf(d, h)
  BY <1>1, <1>2
<1>5. Contents(d) = [ok |-> TRUE, snap |-> SnapOf(d, h), log |-> LogOf(d, h)]
  BY <1>3, <1>4 DEF Contents
<1> QED BY <1>1, <1>2, <1>4, <1>5

-----------------------------------------------------------------------------
(* Images that agree on what a header describes.                             *)

LEMMA SameRegions ==
  ASSUME NEW d, NEW e, NEW h \in Headers, Described(d, h),
         \A b \in 1 .. h.wal_off + h.wal_len - 1 : e[b] = d[b]
  PROVE  Described(e, h) /\ SnapOf(e, h) = SnapOf(d, h) /\ LogOf(e, h) = LogOf(d, h)
<1>0. h.wal_len \in Nat /\ h.wal_off \in Nat \ {0} /\ h.has_ckpt \in BOOLEAN /\ h.has_wal \in BOOLEAN
  BY DEF Headers
<1>1. WalOn(e, h)
  <2>1. \A b \in h.wal_off .. h.wal_off + h.wal_len - 1 : e[b] = d[b]
    BY <1>0
  <2> QED BY <2>1 DEF Described, WalOn
<1>2. ASSUME h.has_ckpt
      PROVE  (\E c \in Snapshots : CkptOn(e, h, c)) /\ e[HEADER_SIZE] = d[HEADER_SIZE]
  <2>1. PICK c \in Snapshots : CkptOn(d, h, c)
    BY <1>2 DEF Described, RegionOn
  <2>2. Size[c] \in Nat \ {0} /\ h.wal_off = 1 + Size[c]
    BY <2>1, FileAssumption DEF CkptOn, HEADER_SIZE
  <2>3. \A i \in 1 .. Size[c] : i \in 1 .. h.wal_off + h.wal_len - 1
    BY <1>0, <2>2
  <2>4. CkptOn(e, h, c) /\ e[1] = d[1]
    BY <2>1, <2>2, <2>3 DEF CkptOn
  <2> QED BY <2>4 DEF HEADER_SIZE
<1>3. RegionOn(e, h) /\ SnapOf(e, h) = SnapOf(d, h)
  BY <1>2 DEF Described, RegionOn, SnapOf
<1>4. LogOf(e, h) = LogOf(d, h)
  <2>1. \A i \in 1 .. h.wal_len : e[h.wal_off + i - 1] = d[h.wal_off + i - 1]
    BY <1>0
  <2> QED BY <2>1 DEF LogOf
<1> QED BY <1>1, <1>3, <1>4 DEF Described

LEMMA AppendFunction ==
  ASSUME NEW T, NEW s \in Seq(T), NEW x
  PROVE  Append(s, x) = [i \in 1 .. Len(s) + 1 |-> IF i <= Len(s) THEN s[i] ELSE x]
<1>1. s \in Seq(T \cup {x}) /\ x \in T \cup {x}
  OBVIOUS
<1>2. /\ DOMAIN Append(s, x) = 1 .. Len(s) + 1 /\ Len(s) \in Nat
      /\ \A i \in 1 .. Len(s) + 1 : Append(s, x)[i] = IF i <= Len(s) THEN s[i] ELSE x
      /\ Append(s, x) \in Seq(T \cup {x})
  BY <1>1
<1> DEFINE a == Append(s, x)
<1>3. a = [i \in DOMAIN a |-> a[i]]
  <2> HIDE DEF a
  <2>1. a \in Seq(T \cup {x})
    BY <1>2 DEF a
  <2> QED BY <2>1
<1> QED BY <1>2, <1>3

\* Counting one more entry that is on the image appends it to the log.
LEMMA CountedEntry ==
  ASSUME NEW d, NEW h \in Headers, NEW g \in Headers, NEW n \in Lsns, Described(d, h),
         g = Counted(h, n),
         h.wal_off + h.wal_len <= MaxBlock, d[h.wal_off + h.wal_len] = WalBlock(n)
  PROVE  /\ Described(d, g) /\ SnapOf(d, g) = SnapOf(d, h)
         /\ LogOf(d, h) \in Seq(Lsns) /\ LogOf(d, g) = Append(LogOf(d, h), n)
<1>0. /\ h.wal_len \in Nat /\ h.wal_off \in Nat \ {0} /\ h.has_ckpt \in BOOLEAN /\ h.has_wal \in BOOLEAN
      /\ g.wal_len = h.wal_len + 1 /\ g.wal_off = h.wal_off /\ g.has_ckpt = h.has_ckpt
      /\ g.ckpt_len = h.ckpt_len /\ g.has_wal = TRUE
  BY DEF Headers, Counted
<1>1. RegionOn(d, g) /\ SnapOf(d, g) = SnapOf(d, h)
  BY <1>0 DEF Described, RegionOn, SnapOf, CkptOn
<1>2. d[h.wal_off + h.wal_len] \in WalBlocks /\ d[h.wal_off + h.wal_len].lsn = n
  BY DEF WalBlock, WalBlocks
<1>3. \A b \in h.wal_off .. h.wal_off + h.wal_len - 1 : d[b] \in WalBlocks
  BY DEF Described, WalOn
<1>4. WalOn(d, g)
  <2>1. \A b \in g.wal_off .. g.wal_off + g.wal_len - 1 :
           b \in h.wal_off .. h.wal_off + h.wal_len - 1 \/ b = h.wal_off + h.wal_len
    BY <1>0
  <2>2. \A b \in g.wal_off .. g.wal_off + g.wal_len - 1 : d[b] \in WalBlocks
    BY <1>2, <1>3, <2>1
  <2> QED BY <1>0, <2>2 DEF WalOn
<1>5. LogOf(d, h) \in Seq(Lsns) /\ Len(LogOf(d, h)) = h.wal_len
  <2>1. \A i \in 1 .. h.wal_len : h.wal_off + i - 1 \in h.wal_off .. h.wal_off + h.wal_len - 1
    BY <1>0
  <2>2. \A i \in 1 .. h.wal_len : d[h.wal_off + i - 1].lsn \in Lsns
    BY <1>3, <2>1 DEF WalBlocks
  <2>3. LogOf(d, h) \in Seq(Lsns)
    BY <1>0, <2>2 DEF LogOf
  <2>4. Len(LogOf(d, h)) = h.wal_len
    BY <1>0 DEF LogOf
  <2> QED BY <2>3, <2>4
<1>6. LogOf(d, g) = Append(LogOf(d, h), n)
  <2>1. \A i \in 1 .. h.wal_len + 1 :
           d[h.wal_off + i - 1].lsn = IF i <= h.wal_len THEN LogOf(d, h)[i] ELSE n
    <3> TAKE i \in 1 .. h.wal_len + 1
    <3>1. CASE i <= h.wal_len
      BY <3>1, <1>0 DEF LogOf
    <3>2. CASE ~(i <= h.wal_len)
      <4>1. h.wal_off + i - 1 = h.wal_off + h.wal_len
        BY <3>2, <1>0
      <4> QED BY <3>2, <4>1, <1>2
    <3> QED BY <3>1, <3>2
  <2>2. LogOf(d, g) = [i \in 1 .. h.wal_len + 1 |-> IF i <= h.wal_len THEN LogOf(d, h)[i] ELSE n]
    BY <1>0, <2>1 DEF LogOf
  <2>3. Append(LogOf(d, h), n) =
           [i \in 1 .. h.wal_len + 1 |-> IF i <= h.wal_len THEN LogOf(d, h)[i] ELSE n]
    BY <1>0, <1>5, AppendFunction
  <2> QED BY <2>2, <2>3
<1> QED BY <1>1, <1>4, <1>5, <1>6 DEF Described

-----------------------------------------------------------------------------
(* The cache.                                                                *)

LEMMA CachedType ==
  ASSUME Types
  PROVE  /\ Cached \in [Blocks -> BlockValues]
         /\ pend = NothingPending => Cached = disk
<1>1. \A b \in Blocks : pend[b] # <<>> => pend[b][Len(pend[b])] \in BlockValues
  <2> TAKE b \in Blocks
  <2>1. pend[b] \in Seq(BlockValues)
    BY DEF Types
  <2> QED BY <2>1
<1>2. Cached \in [Blocks -> BlockValues]
  BY <1>1 DEF Types, Cached
<1>3. ASSUME pend = NothingPending PROVE Cached = disk
  <2>1. \A b \in Blocks : pend[b] = <<>>
    BY <1>3 DEF NothingPending
  <2> QED BY <2>1 DEF Cached, Types
<1> QED BY <1>2, <1>3

LEMMA CachedWrite ==
  ASSUME Types, NEW S, \A b \in Blocks : b \in DOMAIN S => S[b] \in BlockValues,
         disk' = disk, pend' = Written(pend, S)
  PROVE  /\ pend' \in [Blocks -> Seq(BlockValues)]
         /\ Cached' = [b \in Blocks |-> IF b \in DOMAIN S THEN S[b] ELSE Cached[b]]
<1>1. \A b \in Blocks : pend[b] \in Seq(BlockValues)
  BY DEF Types
<1>2. \A b \in Blocks : /\ pend'[b] = IF b \in DOMAIN S THEN Append(pend[b], S[b]) ELSE pend[b]
  BY DEF Written
<1>3. \A b \in Blocks : pend'[b] \in Seq(BlockValues)
  <2> TAKE b \in Blocks
  <2>1. CASE b \in DOMAIN S
    <3>1. pend[b] \in Seq(BlockValues) /\ S[b] \in BlockValues /\ pend'[b] = Append(pend[b], S[b])
      BY <1>1, <1>2, <2>1
    <3> QED BY <3>1
  <2> QED BY <1>1, <1>2, <2>1
<1>4. pend' \in [Blocks -> Seq(BlockValues)]
  BY <1>3 DEF Written
<1>5. ASSUME NEW b \in Blocks, b \in DOMAIN S
      PROVE  pend'[b] # <<>> /\ pend'[b][Len(pend'[b])] = S[b]
  <2>1. pend[b] \in Seq(BlockValues) /\ S[b] \in BlockValues /\ pend'[b] = Append(pend[b], S[b])
    BY <1>1, <1>2, <1>5
  <2> QED BY <2>1
<1>6. \A b \in Blocks : b \notin DOMAIN S => pend'[b] = pend[b]
  BY <1>2
<1>7. Cached' = [b \in Blocks |-> IF pend'[b] = <<>> THEN disk'[b] ELSE pend'[b][Len(pend'[b])]]
  BY DEF Cached
<1> QED BY <1>4, <1>5, <1>6, <1>7 DEF Cached

LEMMA CachedOne ==
  ASSUME Types, NEW x, NEW v \in BlockValues, disk' = disk, pend' = Written(pend, One(x, v))
  PROVE  /\ pend' \in [Blocks -> Seq(BlockValues)]
         /\ Cached' = [b \in Blocks |-> IF b = x THEN v ELSE Cached[b]]
<1>1. DOMAIN One(x, v) = {x} /\ One(x, v)[x] = v
  BY DEF One
<1>2. \A b \in Blocks : b \in DOMAIN One(x, v) => One(x, v)[b] \in BlockValues
  BY <1>1
<1>3. /\ pend' \in [Blocks -> Seq(BlockValues)]
      /\ Cached' = [b \in Blocks |-> IF b \in DOMAIN One(x, v) THEN One(x, v)[b] ELSE Cached[b]]
  BY <1>2, CachedWrite
<1> QED BY <1>1, <1>3

LEMMA CachedSync ==
  ASSUME Types, SyncFile
  PROVE  /\ disk' = Cached /\ pend' = NothingPending /\ Cached' = Cached
         /\ disk' \in [Blocks -> BlockValues] /\ pend' \in [Blocks -> Seq(BlockValues)]
<1>1. disk' = Cached /\ pend' = NothingPending /\ \A b \in Blocks : pend'[b] = <<>>
  BY DEF SyncFile, NothingPending
<1>2. Cached' = [b \in Blocks |-> IF pend'[b] = <<>> THEN disk'[b] ELSE pend'[b][Len(pend'[b])]]
  BY DEF Cached
<1>3. Cached' = [b \in Blocks |-> Cached[b]]
  BY <1>1, <1>2
<1>4. Cached \in [Blocks -> BlockValues] /\ NothingPending \in [Blocks -> Seq(BlockValues)]
  BY CachedType DEF NothingPending
<1> QED BY <1>1, <1>3, <1>4

\* One write has been made since the last sync.
LEMMA CachedOnePending ==
  ASSUME NEW x, NEW v, pend = Written(NothingPending, One(x, v))
  PROVE  /\ \A b \in Blocks : pend[b] = IF b = x THEN <<v>> ELSE <<>>
         /\ Cached = [b \in Blocks |-> IF b = x THEN v ELSE disk[b]]
<1>1. DOMAIN One(x, v) = {x} /\ One(x, v)[x] = v
  BY DEF One
<1>2. \A b \in Blocks : NothingPending[b] = <<>>
  BY DEF NothingPending
<1>3. \A b \in Blocks : pend[b] = IF b \in {x} THEN Append(<<>>, v) ELSE <<>>
  BY <1>1, <1>2 DEF Written
<1>4. Append(<<>>, v) = <<v>>
  <2>1. <<>> \in Seq({v})
    OBVIOUS
  <2> QED BY <2>1
<1>5. \A b \in Blocks : pend[b] = IF b = x THEN <<v>> ELSE <<>>
  BY <1>3, <1>4
<1>6. <<v>> # <<>> /\ Len(<<v>>) = 1 /\ <<v>>[1] = v
  OBVIOUS
<1>7. \A b \in Blocks : (IF pend[b] = <<>> THEN disk[b] ELSE pend[b][Len(pend[b])])
                          = IF b = x THEN v ELSE disk[b]
  <2> TAKE b \in Blocks
  <2>1. CASE b = x
    <3>1. pend[b] = <<v>>
      BY <1>5, <2>1
    <3> QED BY <1>6, <2>1, <3>1
  <2>2. CASE b # x
    <3>1. pend[b] = <<>>
      BY <1>5, <2>2
    <3> QED BY <2>2, <3>1
  <2> QED BY <2>1, <2>2
<1> QED BY <1>5, <1>7 DEF Cached

-----------------------------------------------------------------------------
(* The steps.  Each keeps the invariant and is a step of DurableLog or none. *)

LEMMA IdleType == Idle \in Operations /\ Idle.kind = "idle" /\ Idle.rest = <<>>
  BY DEF Idle, Operations, NoContents, AnyContents

LEMMA HeaderInBlock ==
  ASSUME NEW h
  PROVE  /\ HeaderBlock(h).h = h /\ HeaderBlock(h).kind = "header"
         /\ h \in Headers => HeaderBlock(h) \in HeaderBlocks
  BY DEF HeaderBlock, HeaderBlocks

LEMMA WalBlockType == \A n \in Lsns : WalBlock(n) \in WalBlocks /\ WalBlock(n) \in BlockValues
  BY DEF WalBlock, WalBlocks, BlockValues

LEMMA InitIInv == TornAppendsOnly /\ Init => IInv
<1> SUFFICES ASSUME TornAppendsOnly, Init PROVE IInv
  OBVIOUS
<1>1. NewHeader \in Headers
  BY FileAssumption DEF NewHeader, Headers, HEADER_SIZE
<1>2. 0 \in Blocks /\ disk[0] = HeaderBlock(NewHeader) /\ disk[0].h = NewHeader
      /\ disk[0] \in HeaderBlocks
  BY <1>1, HeaderInBlock, FileAssumption DEF Init, Blocks
<1>3. Types
  <2>1. HeaderBlock(NewHeader) \in BlockValues /\ Eof \in BlockValues
    BY <1>1, HeaderInBlock DEF BlockValues
  <2>2. disk \in [Blocks -> BlockValues] /\ pend \in [Blocks -> Seq(BlockValues)]
    BY <2>1 DEF Init
  <2> QED BY <1>1, <2>2, IdleType DEF Types, Init
<1>4. Described(disk, NewHeader)
  BY FileAssumption DEF Described, RegionOn, WalOn, NewHeader, HEADER_SIZE
<1>5. pend = NothingPending /\ Cached = disk
  BY <1>3, CachedType DEF Init, NothingPending
<1> QED BY <1>2, <1>3, <1>4, <1>5, IdleType DEF IInv, Init

\* Between two calls the header in memory is the one on the disk.
LEMMA IdleHeader ==
  ASSUME IInv, op.kind = "idle", up = "up"
  PROVE  /\ header = disk[0].h /\ disk[0] = HeaderBlock(header) /\ Cached = disk
         /\ header \in Headers /\ Described(disk, header)
         /\ header.wal_off \in Nat \ {0} /\ header.wal_len \in Nat
<1>1. Cached = disk /\ disk[0] = HeaderBlock(header)
  BY CachedType DEF IInv
<1>2. disk[0].h = header
  BY <1>1, HeaderInBlock
<1>3. header \in Headers
  BY DEF IInv, Types
<1> QED BY <1>1, <1>2, <1>3 DEF IInv, Headers

LEMMA AppendWalStep ==
  ASSUME IInv, NEW n \in Lsns, append_wal(n)
  PROVE  IInv' /\ Durable' = Durable
<1> DEFINE end == header.wal_off + header.wal_len
<1>1. /\ up = "up" /\ op = Idle /\ pend = NothingPending /\ disk' = disk /\ header' = header
      /\ up' = up /\ end <= MaxBlock /\ pend' = Written(pend, One(end, WalBlock(n)))
      /\ used' = used \cup {n}
      /\ op' = [Idle EXCEPT !.kind = "append", !.pc = "sync entry", !.rest = <<n>>]
  BY DEF append_wal, AppendEntry, EntryBlock, IInv
<1>2. /\ header = disk[0].h /\ disk[0] = HeaderBlock(header) /\ Cached = disk
      /\ Described(disk, header) /\ header.wal_off \in Nat \ {0} /\ header.wal_len \in Nat
  BY <1>1, IdleHeader, IdleType
<1>3. end \in Blocks /\ end # 0 /\ 0 \in Blocks
  BY <1>1, <1>2, FileAssumption DEF Blocks
<1>4. op'.kind = "append" /\ op'.pc = "sync entry" /\ op'.rest = <<n>> /\ op' \in Operations
  <2>1. <<n>> \in Seq(Lsns)
    OBVIOUS
  <2> QED BY <1>1, <2>1, IdleType DEF Idle, Operations
<1>5. /\ pend' \in [Blocks -> Seq(BlockValues)]
      /\ Cached' = [b \in Blocks |-> IF b = end THEN WalBlock(n) ELSE Cached[b]]
  <2> HIDE DEF end
  <2> QED BY <1>1, WalBlockType, CachedOne DEF IInv
<1>6. Types' /\ Cached'[0] = HeaderBlock(header)'
  BY <1>1, <1>2, <1>3, <1>4, <1>5 DEF IInv, Types
<1>7. Appending(n)'
  BY <1>1, <1>2, <1>4 DEF Appending
<1>8. IInv'
  BY <1>1, <1>2, <1>4, <1>6, <1>7 DEF IInv
<1>9. Durable' = Durable
  BY <1>1, <1>4, IdleType DEF Durable, Contents, read_checkpoint, read_wal_entries, End
<1> QED BY <1>8, <1>9

\* Inside append_wal.
LEMMA AppendingFacts ==
  ASSUME IInv, op.kind = "append", NEW n \in Lsns, Appending(n)
  PROVE  LET h == disk[0].h
             end == h.wal_off + h.wal_len
         IN  /\ h \in Headers /\ disk[0] = HeaderBlock(h) /\ Described(disk, h)
             /\ h.wal_off \in Nat \ {0} /\ h.wal_len \in Nat
             /\ end \in Blocks /\ end # 0 /\ 0 \in Blocks
             /\ \A b \in 1 .. h.wal_off + h.wal_len - 1 : b \in Blocks /\ b # end /\ b # 0
<1> DEFINE h == disk[0].h
<1>1. h \in Headers /\ disk[0] = HeaderBlock(h)
  BY DEF IInv, HeaderBlocks, HeaderBlock
<1>2. Described(disk, h) /\ h.wal_off \in Nat \ {0} /\ h.wal_len \in Nat
  BY <1>1 DEF IInv, Headers
<1>3. h.wal_off + h.wal_len <= MaxBlock
  BY DEF Appending
<1> HIDE DEF h
<1>4. /\ h.wal_off + h.wal_len \in Blocks /\ h.wal_off + h.wal_len # 0 /\ 0 \in Blocks
      /\ \A b \in 1 .. h.wal_off + h.wal_len - 1 : b \in Blocks /\ b # h.wal_off + h.wal_len /\ b # 0
  BY <1>2, <1>3, FileAssumption DEF Blocks
<1> QED BY <1>1, <1>2, <1>4 DEF h

\* Writing the entry behind the log that the header counts changes nothing that
\* can be read.
LEMMA EntryUnread ==
  ASSUME NEW d \in [Blocks -> BlockValues], NEW e \in [Blocks -> BlockValues], NEW h \in Headers,
         d[0] = HeaderBlock(h), Described(d, h), h.wal_off + h.wal_len \in Blocks,
         \A b \in Blocks : b # h.wal_off + h.wal_len => e[b] = d[b]
  PROVE  Described(e, h) /\ Contents(e) = Contents(d)
<1>0. h.wal_len \in Nat /\ h.wal_off \in Nat \ {0}
  BY DEF Headers
<1>1. \A b \in 1 .. h.wal_off + h.wal_len - 1 : b \in Blocks /\ b # h.wal_off + h.wal_len
  BY <1>0, FileAssumption DEF Blocks
<1>2. 0 \in Blocks /\ 0 # h.wal_off + h.wal_len
  BY <1>0, FileAssumption DEF Blocks
<1>3. e[0] = HeaderBlock(h) /\ \A b \in 1 .. h.wal_off + h.wal_len - 1 : e[b] = d[b]
  BY <1>1, <1>2
<1>4. Described(e, h) /\ SnapOf(e, h) = SnapOf(d, h) /\ LogOf(e, h) = LogOf(d, h)
  BY <1>3, SameRegions
<1> QED BY <1>3, <1>4, ReadBack

\* Only append_wal, called by a client or by truncate_wal_until, waits in these places.
LEMMA AppendOrTruncate ==
  ASSUME IInv, op.pc \in {"sync entry", "count", "sync count"}
  PROVE  op.kind \in {"append", "truncate"}
<1>1. op.kind \in {"idle", "append", "checkpoint", "truncate"}
  BY DEF IInv, Types, Operations
<1>2. op.kind # "idle"
  <2>1. op.kind = "idle" => op = Idle
    BY DEF IInv
  <2>2. Idle.pc = ""
    BY DEF Idle
  <2> QED BY <2>1, <2>2
<1>3. op.kind # "checkpoint"
  <2>1. op.kind = "checkpoint" => op.pc \in {"header", "sync"}
    BY DEF IInv, Checkpointing
  <2> QED BY <2>1
<1> QED BY <1>1, <1>2, <1>3

LEMMA SyncEntryStep ==
  ASSUME IInv, SyncEntry
  PROVE  IInv' /\ Durable' = Durable
<1>1. /\ up = "up" /\ op.pc = "sync entry" /\ SyncFile /\ op' = [op EXCEPT !.pc = "count"]
      /\ header' = header /\ up' = up /\ used' = used
  BY DEF SyncEntry
<1>2. /\ disk' = Cached /\ pend' = NothingPending /\ Cached' = Cached
      /\ disk' \in [Blocks -> BlockValues] /\ pend' \in [Blocks -> Seq(BlockValues)]
  BY <1>1, CachedSync DEF IInv
<1>3. /\ op' \in Operations /\ op'.kind = op.kind /\ op'.pc = "count" /\ op'.rest = op.rest
      /\ op'.before = op.before /\ op \in Operations
  BY <1>1 DEF IInv, Types, Operations
<1>4. Types' /\ Cached'[0] = HeaderBlock(header') /\ disk'[0] \in HeaderBlocks
  BY <1>1, <1>2, <1>3, HeaderInBlock DEF IInv, Types
<1>5. CASE op.kind = "append"
  <2>1. PICK n \in Lsns : op.rest = <<n>> /\ Appending(n)
    BY <1>5 DEF IInv
  <2> DEFINE h == disk[0].h
             end == h.wal_off + h.wal_len
  <2>2. /\ h \in Headers /\ disk[0] = HeaderBlock(h) /\ Described(disk, h)
        /\ end \in Blocks /\ end # 0 /\ 0 \in Blocks
    BY <1>5, <2>1, AppendingFacts
  <2>3. header = h /\ pend = Written(NothingPending, One(end, WalBlock(n))) /\ end <= MaxBlock
    BY <1>1, <2>1 DEF Appending
  <2> HIDE DEF end, h
  <2>4. Cached = [b \in Blocks |-> IF b = end THEN WalBlock(n) ELSE disk[b]]
    BY <2>3, CachedOnePending DEF IInv, Types
  <2>5. Described(disk', h) /\ Contents(disk') = Contents(disk) /\ disk'[0] = disk[0]
    <3>1. \A b \in Blocks : b # end => disk'[b] = disk[b]
      BY <1>2, <2>4
    <3>2. disk \in [Blocks -> BlockValues]
      BY DEF IInv, Types
    <3> QED BY <1>2, <2>2, <3>1, <3>2, EntryUnread DEF end
  <2>6. disk'[0].h = h /\ disk'[end] = WalBlock(n)
    BY <1>2, <2>2, <2>4, <2>5 DEF h
  <2>7. Appending(n)'
    BY <1>1, <1>2, <1>3, <2>3, <2>6 DEF Appending, end
  <2>8. IInv'
    BY <1>1, <1>3, <1>4, <1>5, <2>1, <2>5, <2>6, <2>7 DEF IInv
  <2> QED BY <1>3, <1>5, <2>5, <2>8 DEF Durable, Contents, read_checkpoint, read_wal_entries, End
<1>6. CASE op.kind = "truncate"
  <2>1. PICK n \in Lsns : Truncating(n)
    BY <1>6 DEF IInv
  <2>2. Truncating(n)'
    BY <1>1, <1>2, <1>3, <2>1 DEF Truncating
  <2> QED BY <1>1, <1>3, <1>4, <1>6, <2>2 DEF IInv, Durable
<1>7. op.kind \in {"append", "truncate"}
  BY <1>1, AppendOrTruncate
<1> QED BY <1>5, <1>6, <1>7

LEMMA NonEmptySeq ==
  ASSUME NEW T, NEW s \in Seq(T), s # <<>>
  PROVE  /\ Head(s) \in T /\ Tail(s) \in Seq(T) /\ Len(s) \in Nat \ {0}
         /\ Len(s) = 1 => Tail(s) = <<>>
         /\ Len(s) > 1 => Tail(s) # <<>>
<1>1. Len(s) \in Nat \ {0} /\ Head(s) \in T /\ Tail(s) \in Seq(T) /\ Len(Tail(s)) = Len(s) - 1
  OBVIOUS
<1>2. Tail(s) = <<>> <=> Len(Tail(s)) = 0
  BY <1>1, EmptySeq
<1> DEFINE k == Len(s)
<1>3. /\ Head(s) \in T /\ Tail(s) \in Seq(T) /\ k \in Nat \ {0}
      /\ Tail(s) = <<>> <=> k - 1 = 0
  BY <1>1, <1>2
<1> HIDE DEF k
<1>4. (k = 1 => Tail(s) = <<>>) /\ (k > 1 => Tail(s) # <<>>)
  BY <1>3
<1> QED BY <1>3, <1>4 DEF k

LEMMA HeadMoved ==
  ASSUME NEW T, NEW s \in Seq(T), NEW r \in Seq(T), r # <<>>
  PROVE  Append(s, Head(r)) \o Tail(r) = s \o r
<1>1. /\ Len(r) \in Nat \ {0} /\ Len(s) \in Nat /\ Head(r) = r[1] /\ Head(r) \in T
      /\ Tail(r) \in Seq(T) /\ Len(Tail(r)) = Len(r) - 1
      /\ \A i \in 1 .. Len(r) - 1 : Tail(r)[i] = r[i + 1]
  OBVIOUS
<1> DEFINE a == Append(s, Head(r))
<1>2. /\ a \in Seq(T) /\ Len(a) = Len(s) + 1 /\ a[Len(s) + 1] = Head(r)
      /\ \A i \in 1 .. Len(s) : a[i] = s[i]
  BY <1>1
<1> HIDE DEF a
<1>3. /\ a \o Tail(r) \in Seq(T) /\ s \o r \in Seq(T)
      /\ Len(a \o Tail(r)) = Len(s) + Len(r) /\ Len(s \o r) = Len(s) + Len(r)
  BY <1>1, <1>2
<1>4. \A i \in 1 .. Len(s) + Len(r) :
         /\ (a \o Tail(r))[i] = IF i <= Len(a) THEN a[i] ELSE Tail(r)[i - Len(a)]
         /\ (s \o r)[i] = IF i <= Len(s) THEN s[i] ELSE r[i - Len(s)]
  BY <1>1, <1>2
<1>5. \A i \in 1 .. Len(s) + Len(r) : (a \o Tail(r))[i] = (s \o r)[i]
  <2> TAKE i \in 1 .. Len(s) + Len(r)
  <2>1. CASE i <= Len(s)
    BY <1>1, <1>2, <1>4, <2>1
  <2>2. CASE i = Len(s) + 1
    BY <1>1, <1>2, <1>4, <2>2
  <2>3. CASE i > Len(s) + 1
    <3>1. Tail(r)[i - Len(a)] = r[i - Len(s)]
      BY <1>1, <1>2, <2>3
    <3> QED BY <1>1, <1>2, <1>4, <2>3, <3>1
  <2>4. i <= Len(s) \/ i = Len(s) + 1 \/ i > Len(s) + 1
    BY <1>1
  <2> QED BY <2>1, <2>2, <2>3, <2>4, Zenon
<1> QED BY <1>3, <1>5, SeqEqual DEF a

\* Inside truncate_wal_until a header that is written over the cache leaves the
\* regions alone.
LEMMA HeaderWritten ==
  ASSUME IInv, NEW h \in Headers, header' = h, disk' = disk,
         pend' = Written(pend, One(0, HeaderBlock(h))), Described(Cached, h)
  PROVE  /\ pend' \in [Blocks -> Seq(BlockValues)] /\ Cached'[0] = HeaderBlock(h)
         /\ Described(Cached', h) /\ SnapOf(Cached', h) = SnapOf(Cached, h)
         /\ LogOf(Cached', h) = LogOf(Cached, h)
<1>1. HeaderBlock(h) \in BlockValues
  BY HeaderInBlock DEF BlockValues
<1>2. /\ pend' \in [Blocks -> Seq(BlockValues)]
      /\ Cached' = [b \in Blocks |-> IF b = 0 THEN HeaderBlock(h) ELSE Cached[b]]
  BY <1>1, CachedOne DEF IInv
<1>3. 0 \in Blocks /\ \A b \in 1 .. h.wal_off + h.wal_len - 1 : b \in Blocks /\ b # 0
  <2>1. h.wal_off + h.wal_len - 1 <= MaxBlock /\ h.wal_off \in Nat /\ h.wal_len \in Nat
    BY DEF Described, WalOn, Headers
  <2> QED BY <2>1, FileAssumption DEF Blocks
<1>4. Cached'[0] = HeaderBlock(h) /\ \A b \in 1 .. h.wal_off + h.wal_len - 1 : Cached'[b] = Cached[b]
  BY <1>2, <1>3
<1>5. Described(Cached', h) /\ SnapOf(Cached', h) = SnapOf(Cached, h)
      /\ LogOf(Cached', h) = LogOf(Cached, h)
  BY <1>4, SameRegions, Zenon
<1> QED BY <1>2, <1>4, <1>5

LEMMA CountedType ==
  ASSUME NEW h \in Headers, NEW n \in Lsns
  PROVE  Counted(h, n) \in Headers
<1>1. n \in 0 .. MaxLsn /\ h.wal_len + 1 \in Nat
  BY FileAssumption DEF Lsns, Headers
<1> QED BY <1>1 DEF Headers, Counted

LEMMA CountEntryStep ==
  ASSUME IInv, CountEntry
  PROVE  IInv' /\ Durable' = Durable
<1> DEFINE n == Head(op.rest)
           h == Counted(header, n)
<1>1. /\ up = "up" /\ op.pc = "count" /\ op' = [op EXCEPT !.pc = "sync count"]
      /\ header' = h /\ pend' = Written(pend, One(0, HeaderBlock(h)))
      /\ disk' = disk /\ up' = up /\ used' = used
  BY DEF CountEntry, WriteHeader, Counted
<1>2. /\ op' \in Operations /\ op'.kind = op.kind /\ op'.pc = "sync count" /\ op'.rest = op.rest
      /\ op'.before = op.before /\ op \in Operations /\ op.rest \in Seq(Lsns)
  BY <1>1 DEF IInv, Types, Operations
<1>3. op.kind \in {"append", "truncate"}
  BY <1>1, AppendOrTruncate
<1>4. op.rest # <<>> /\ n \in Lsns
  <2>1. op.rest # <<>>
    <3>1. CASE op.kind = "append"
      <4>1. PICK m \in Lsns : op.rest = <<m>>
        BY <3>1 DEF IInv
      <4>2. <<m>> # <<>>
        OBVIOUS
      <4> QED BY <4>1, <4>2
    <3>2. CASE op.kind = "truncate"
      BY <1>1, <3>2 DEF IInv, Truncating
    <3> QED BY <1>3, <3>1, <3>2
  <2>2. Head(op.rest) \in Lsns
    BY <1>2, <2>1, NonEmptySeq
  <2> QED BY <2>1, <2>2
<1>5. header \in Headers /\ h \in Headers
  <2>1. header \in Headers
    BY DEF IInv, Types
  <2> HIDE DEF n
  <2> QED BY <1>4, <2>1, CountedType
<1> HIDE DEF n, h
<1>6. disk'[0] \in HeaderBlocks /\ TornAppendsOnly
  BY <1>1 DEF IInv
<1>7. CASE op.kind = "append"
  <2>1. PICK m \in Lsns : op.rest = <<m>> /\ Appending(m)
    BY <1>7 DEF IInv
  <2>2. n = m
    BY <2>1 DEF n
  <2>3. header = disk[0].h /\ pend = NothingPending
    BY <1>1, <2>1 DEF Appending
  <2>4. Appending(m)'
    BY <1>1, <1>2, <2>1, <2>2, <2>3 DEF Appending, h
  <2>5. Described(disk, disk[0].h)
    BY <1>7 DEF IInv
  <2>6. pend' \in [Blocks -> Seq(BlockValues)] /\ Cached'[0] = HeaderBlock(header')
    <3>1. HeaderBlock(h) \in BlockValues
      BY <1>5, HeaderInBlock DEF BlockValues
    <3>2. /\ pend' \in [Blocks -> Seq(BlockValues)]
          /\ Cached' = [b \in Blocks |-> IF b = 0 THEN HeaderBlock(h) ELSE Cached[b]]
      BY <1>1, <3>1, CachedOne DEF IInv
    <3>3. 0 \in Blocks
      BY FileAssumption DEF Blocks
    <3> QED BY <1>1, <3>2, <3>3
  <2>7. Types'
    BY <1>1, <1>2, <1>5, <2>6 DEF IInv, Types
  <2>8. IInv'
    BY <1>1, <1>2, <1>6, <1>7, <2>1, <2>4, <2>5, <2>6, <2>7 DEF IInv
  <2> QED BY <1>1, <1>2, <1>7, <2>8 DEF Durable, Contents, read_checkpoint, read_wal_entries, End
<1>8. CASE op.kind = "truncate"
  <2>1. PICK m \in Lsns : Truncating(m)
    BY <1>8 DEF IInv
  <2>2. /\ Described(Cached, header) /\ header.wal_off + header.wal_len <= MaxBlock
        /\ Cached[header.wal_off + header.wal_len] = WalBlock(n)
        /\ op.before.snap = SnapOf(Cached, header)
        /\ DL!Truncation(op.before.log, LogOf(Cached, header) \o op.rest, m)
    BY <1>1, <2>1 DEF Truncating, n
  <2>3. /\ Described(Cached, h) /\ SnapOf(Cached, h) = SnapOf(Cached, header)
        /\ LogOf(Cached, header) \in Seq(Lsns) /\ LogOf(Cached, h) = Append(LogOf(Cached, header), n)
    BY <1>4, <1>5, <2>2, CountedEntry DEF h
  <2>4. /\ pend' \in [Blocks -> Seq(BlockValues)] /\ Cached'[0] = HeaderBlock(h)
        /\ Described(Cached', h) /\ SnapOf(Cached', h) = SnapOf(Cached, h)
        /\ LogOf(Cached', h) = LogOf(Cached, h)
    BY <1>1, <1>5, <2>3, HeaderWritten
  <2>5. LogOf(Cached, h) \o Tail(op.rest) = LogOf(Cached, header) \o op.rest
    BY <1>2, <1>4, <2>3, HeadMoved DEF n
  <2>6. Truncating(m)'
    <3>1. DL!Truncation(op'.before.log, LogOf(Cached', header') \o Tail(op'.rest), m)
      BY <1>1, <1>2, <2>2, <2>4, <2>5
    <3> QED BY <1>1, <1>2, <1>4, <2>2, <2>3, <2>4, <3>1 DEF Truncating
  <2>7. Types'
    BY <1>1, <1>2, <1>5, <2>4 DEF IInv, Types
  <2>8. IInv'
    BY <1>1, <1>2, <1>6, <1>8, <2>4, <2>6, <2>7 DEF IInv
  <2> QED BY <1>1, <1>2, <1>8, <2>8 DEF Durable
<1> QED BY <1>3, <1>7, <1>8

\* An image whose header counts one entry more.
LEMMA CountedImage ==
  ASSUME NEW d \in [Blocks -> BlockValues], NEW e, NEW h \in Headers, NEW n \in Lsns,
         d[0] = HeaderBlock(h), Described(d, h), h.wal_off + h.wal_len <= MaxBlock,
         d[h.wal_off + h.wal_len] = WalBlock(n),
         e = [b \in Blocks |-> IF b = 0 THEN HeaderBlock(Counted(h, n)) ELSE d[b]]
  PROVE  /\ e[0] = HeaderBlock(Counted(h, n)) /\ Described(e, Counted(h, n))
         /\ Contents(e).snap = Contents(d).snap
         /\ Contents(e).log = Append(Contents(d).log, n)
<1> DEFINE g == Counted(h, n)
<1>1. g \in Headers
  BY CountedType
<1>2. /\ Described(d, g) /\ SnapOf(d, g) = SnapOf(d, h) /\ LogOf(d, g) = Append(LogOf(d, h), n)
  BY <1>1, CountedEntry
<1> HIDE DEF g
<1>3. 0 \in Blocks /\ \A b \in 1 .. g.wal_off + g.wal_len - 1 : b \in Blocks /\ b # 0
  <2>1. g.wal_off + g.wal_len - 1 <= MaxBlock /\ g.wal_off \in Nat /\ g.wal_len \in Nat
    BY <1>1, <1>2 DEF Described, WalOn, Headers
  <2> QED BY <2>1, FileAssumption DEF Blocks
<1>4. e[0] = HeaderBlock(g) /\ \A b \in 1 .. g.wal_off + g.wal_len - 1 : e[b] = d[b]
  BY <1>3 DEF g
<1>5. Described(e, g) /\ SnapOf(e, g) = SnapOf(d, g) /\ LogOf(e, g) = LogOf(d, g)
  BY <1>1, <1>2, <1>4, SameRegions
<1>6. e \in [Blocks -> BlockValues]
  <2>1. HeaderBlock(g) \in BlockValues
    BY <1>1, HeaderInBlock DEF BlockValues
  <2> QED BY <2>1 DEF g
<1>7. Contents(e) = [ok |-> TRUE, snap |-> SnapOf(e, g), log |-> LogOf(e, g)]
  BY <1>1, <1>4, <1>5, <1>6, ReadBack
<1>8. Contents(d) = [ok |-> TRUE, snap |-> SnapOf(d, h), log |-> LogOf(d, h)]
  BY ReadBack
<1>9. Contents(e).snap = Contents(d).snap /\ Contents(e).log = Append(Contents(d).log, n)
  BY <1>2, <1>5, <1>7, <1>8
<1> QED BY <1>4, <1>5, <1>9 DEF g

LEMMA SyncCountStep ==
  ASSUME IInv, SyncCount
  PROVE  IInv' /\ (Durable' = Durable \/ \E n \in Lsns : DL!append_wal(n))
<1>1. /\ up = "up" /\ op.pc = "sync count" /\ SyncFile
      /\ header' = header /\ up' = up /\ used' = used
  BY DEF SyncCount
<1>2. /\ disk' = Cached /\ pend' = NothingPending /\ Cached' = Cached
      /\ disk' \in [Blocks -> BlockValues] /\ pend' \in [Blocks -> Seq(BlockValues)]
  BY <1>1, CachedSync DEF IInv
<1>3. op.kind \in {"append", "truncate"} /\ op \in Operations /\ op.rest \in Seq(Lsns)
  BY <1>1, AppendOrTruncate DEF IInv, Types, Operations
<1>4. /\ Cached'[0] = HeaderBlock(header') /\ disk'[0] \in HeaderBlocks /\ disk'[0].h = header
      /\ TornAppendsOnly
  BY <1>1, <1>2, HeaderInBlock DEF IInv, Types
<1>5. CASE op.kind = "append"
  <2>1. PICK n \in Lsns : op.rest = <<n>> /\ Appending(n)
    BY <1>5 DEF IInv
  <2> DEFINE h == disk[0].h
  <2>2. /\ h \in Headers /\ disk[0] = HeaderBlock(h) /\ Described(disk, h)
    BY <1>5, <2>1, AppendingFacts
  <2>3. /\ header = Counted(h, n) /\ disk[h.wal_off + h.wal_len] = WalBlock(n)
        /\ pend = Written(NothingPending, One(0, HeaderBlock(header)))
        /\ h.wal_off + h.wal_len <= MaxBlock
    BY <1>1, <2>1 DEF Appending
  <2> HIDE DEF h
  <2>4. disk' = [b \in Blocks |-> IF b = 0 THEN HeaderBlock(Counted(h, n)) ELSE disk[b]]
    BY <1>2, <2>3, CachedOnePending
  <2>5. /\ Described(disk', header) /\ Contents(disk').snap = Contents(disk).snap
        /\ Contents(disk').log = Append(Contents(disk).log, n)
    <3>1. disk \in [Blocks -> BlockValues]
      BY DEF IInv, Types
    <3> QED BY <2>2, <2>3, <2>4, <3>1, CountedImage
  <2>6. op' = Idle
    BY <1>5 DEF SyncCount
  <2>7. Types'
    BY <1>1, <1>2, <2>6, IdleType DEF IInv, Types
  <2>8. IInv'
    BY <1>1, <1>2, <1>4, <2>5, <2>6, <2>7, IdleType DEF IInv
  <2>9. Durable = Contents(disk) /\ Durable' = Contents(disk')
    BY <1>5, <2>6, IdleType DEF Durable, Contents, read_checkpoint, read_wal_entries, End
  <2>10. DL!append_wal(n)
    BY <2>5, <2>9 DEF DL!append_wal
  <2> QED BY <2>8, <2>10
<1>6. CASE op.kind = "truncate"
  <2>1. PICK n \in Lsns : Truncating(n)
    BY <1>6 DEF IInv
  <2>2. /\ Described(Cached, header) /\ op.rest # <<>> /\ op.before.snap = SnapOf(Cached, header)
        /\ DL!Truncation(op.before.log, LogOf(Cached, header) \o Tail(op.rest), n)
    BY <1>1, <2>1 DEF Truncating
  <2>3. /\ Tail(op.rest) \in Seq(Lsns) /\ Len(op.rest) \in Nat \ {0}
        /\ Len(op.rest) = 1 => Tail(op.rest) = <<>>
        /\ Len(op.rest) > 1 => Tail(op.rest) # <<>>
    BY <1>3, <2>2, NonEmptySeq
  <2> DEFINE k == Len(op.rest)
  <2>4. op' = CASE op.kind = "append" -> Idle
                [] op.kind = "truncate" /\ k = 1 -> [op EXCEPT !.pc = "sync"]
                [] op.kind = "truncate" /\ k > 1 -> [op EXCEPT !.pc = "rewrite", !.rest = Tail(op.rest)]
    BY DEF SyncCount
  <2> HIDE DEF k
  <2>5. CASE k = 1
    <3>1. op' = [op EXCEPT !.pc = "sync"]
      BY <1>6, <2>4, <2>5
    <3>2. /\ op' \in Operations /\ op'.kind = "truncate" /\ op'.pc = "sync"
          /\ op'.before = op.before
      BY <1>3, <1>6, <3>1 DEF Operations
    <3>3. LogOf(Cached, header) \o Tail(op.rest) = LogOf(Cached, header)
      <4>1. LogOf(Cached, header) \in Seq(Lsns)
        <5>1. Cached \in [Blocks -> BlockValues] /\ header \in Headers /\ Cached[0] = HeaderBlock(header)
          BY <1>1, <1>2 DEF IInv, Types
        <5> QED BY <2>2, <5>1, ReadBack
      <4>2. Tail(op.rest) = <<>>
        BY <2>3, <2>5 DEF k
      <4> QED BY <4>1, <4>2, ConcatEmptySeq
    <3>4. Truncating(n)'
      BY <1>1, <1>2, <2>2, <3>2, <3>3 DEF Truncating
    <3>5. Types'
      BY <1>1, <1>2, <3>2 DEF IInv, Types
    <3> QED BY <1>1, <1>4, <1>6, <3>2, <3>4, <3>5 DEF IInv, Durable
  <2>6. CASE k > 1
    <3>1. op' = [op EXCEPT !.pc = "rewrite", !.rest = Tail(op.rest)]
      BY <1>6, <2>4, <2>6
    <3>2. /\ op' \in Operations /\ op'.kind = "truncate" /\ op'.pc = "rewrite"
          /\ op'.before = op.before /\ op'.rest = Tail(op.rest)
      BY <1>3, <1>6, <2>3, <3>1 DEF Operations
    <3>3. Truncating(n)'
      BY <1>1, <1>2, <2>2, <2>3, <2>6, <3>2 DEF Truncating, k
    <3>4. Types'
      BY <1>1, <1>2, <3>2 DEF IInv, Types
    <3> QED BY <1>1, <1>4, <1>6, <3>2, <3>3, <3>4 DEF IInv, Durable
  <2>7. k \in Nat \ {0}
    BY <2>3 DEF k
  <2> QED BY <2>5, <2>6, <2>7
<1> QED BY <1>3, <1>5, <1>6

\* Between two calls the file reads as what its header describes.
LEMMA IdleContents ==
  ASSUME IInv, op.kind = "idle"
  PROVE  /\ Contents(disk) = [ok |-> TRUE, snap |-> SnapOf(disk, disk[0].h), log |-> LogOf(disk, disk[0].h)]
         /\ Contents(disk) \in AnyContents /\ Contents(disk).ok
         /\ LogOf(disk, disk[0].h) \in Seq(Lsns)
         /\ read_wal_entries(disk, disk[0].h).log = LogOf(disk, disk[0].h)
         /\ disk[0].h \in Headers
<1> DEFINE h == disk[0].h
<1>1. disk \in [Blocks -> BlockValues] /\ h \in Headers /\ disk[0] = HeaderBlock(h) /\ Described(disk, h)
  BY DEF IInv, Types, HeaderBlocks, HeaderBlock
<1> HIDE DEF h
<1>2. /\ Contents(disk) = [ok |-> TRUE, snap |-> SnapOf(disk, h), log |-> LogOf(disk, h)]
      /\ SnapOf(disk, h) \in Snapshots \cup {NoSnapshot} /\ LogOf(disk, h) \in Seq(Lsns)
      /\ read_wal_entries(disk, h).log = LogOf(disk, h)
  BY <1>1, ReadBack
<1>3. Contents(disk) \in AnyContents /\ Contents(disk).ok
  BY <1>2 DEF AnyContents
<1> QED BY <1>1, <1>2, <1>3 DEF h

LEMMA WriteCheckpointStep ==
  ASSUME IInv, NEW c \in Snapshots, write_checkpoint(c)
  PROVE  IInv' /\ Durable' = Durable
<1> DEFINE S == [b \in HEADER_SIZE .. HEADER_SIZE + Size[c] - 1 |-> CkptBlock(c, b - HEADER_SIZE + 1)]
<1>1. /\ up = "up" /\ op.kind = "idle" /\ HEADER_SIZE + Size[c] - 1 <= MaxBlock /\ NextLsn <= MaxLsn
      /\ pend' = Written(pend, S)
      /\ op' = [Idle EXCEPT !.kind = "checkpoint", !.pc = "header", !.snap = c, !.before = Contents(disk)]
      /\ disk' = disk /\ header' = header /\ up' = up /\ used' = used
  BY DEF write_checkpoint
<1>2. Size[c] \in Nat \ {0} /\ HEADER_SIZE = 1 /\ MaxBlock \in Nat
  BY FileAssumption DEF HEADER_SIZE
<1>3. DOMAIN S = 1 .. Size[c] /\ Size[c] <= MaxBlock /\ \A i \in 1 .. Size[c] : S[i] = CkptBlock(c, i)
  BY <1>1, <1>2
<1>4. \A i \in 1 .. Size[c] : i \in Blocks /\ CkptBlock(c, i) \in BlockValues
  BY <1>1, <1>2 DEF Blocks, CkptBlock, CkptBlocks, BlockValues
<1> HIDE DEF S
<1>5. \A b \in Blocks : b \in DOMAIN S => S[b] \in BlockValues
  BY <1>3, <1>4
<1>6. /\ pend' \in [Blocks -> Seq(BlockValues)]
      /\ Cached' = [b \in Blocks |-> IF b \in DOMAIN S THEN S[b] ELSE Cached[b]]
  BY <1>1, <1>5, CachedWrite DEF IInv
<1>7. 0 \in Blocks /\ 0 \notin 1 .. Size[c]
  BY <1>2, FileAssumption DEF Blocks
<1>8. Cached'[0] = Cached[0] /\ \A i \in 1 .. Size[c] : Cached'[i] = CkptBlock(c, i)
  BY <1>3, <1>4, <1>6, <1>7
<1>9. Contents(disk) \in AnyContents
  BY <1>1, IdleContents
<1>10. /\ op' \in Operations /\ op'.kind = "checkpoint" /\ op'.pc = "header" /\ op'.snap = c
       /\ op'.before = Contents(disk)
  BY <1>1, <1>9, IdleType DEF Idle, Operations
<1>11. Types'
  BY <1>1, <1>6, <1>10 DEF IInv, Types
<1>12. NextLsn' = NextLsn
  BY <1>1 DEF NextLsn, Max
<1>13. Checkpointing'
  BY <1>1, <1>3, <1>8, <1>10, <1>12 DEF Checkpointing
<1>14. IInv'
  BY <1>1, <1>8, <1>10, <1>11, <1>13 DEF IInv
<1>15. Durable' = Durable
  BY <1>1, <1>10 DEF Durable
<1> QED BY <1>14, <1>15

LEMMA NextLsnType ==
  ASSUME Types
  PROVE  NextLsn \in Nat
<1>1. used \cup {0} \in SUBSET (0 .. MaxLsn) /\ used \cup {0} # {}
  BY FileAssumption DEF Types, Lsns
<1>2. Max(used \cup {0}) \in used \cup {0}
  BY <1>1, MaxExists, FileAssumption
<1>3. Max(used \cup {0}) \in 0 .. MaxLsn
  BY <1>1, <1>2
<1> QED BY <1>3, FileAssumption DEF NextLsn

LEMMA CheckpointHeaderStep ==
  ASSUME IInv, CheckpointHeader
  PROVE  IInv' /\ Durable' = Durable
<1> DEFINE c == op.snap
           h == CkptHeader(c)
<1>1. /\ up = "up" /\ op.kind = "checkpoint" /\ op.pc = "header"
      /\ header' = h /\ pend' = Written(pend, One(0, HeaderBlock(h)))
      /\ op' = [op EXCEPT !.pc = "sync"] /\ disk' = disk /\ up' = up /\ used' = used
  BY DEF CheckpointHeader, WriteHeader
<1>2. /\ c \in Snapshots /\ Size[c] <= MaxBlock /\ NextLsn <= MaxLsn
      /\ \A i \in 1 .. Size[c] : Cached[i] = CkptBlock(c, i)
  BY <1>1 DEF IInv, Checkpointing
<1>3. Size[c] \in Nat \ {0} /\ HEADER_SIZE = 1 /\ MaxBlock \in Nat /\ MaxLsn \in Nat
  BY <1>2, FileAssumption DEF HEADER_SIZE
<1>4. NextLsn \in 0 .. MaxLsn /\ header \in Headers
  BY <1>2, <1>3, NextLsnType DEF IInv, Types
<1>5. /\ h \in Headers /\ h.has_ckpt = TRUE /\ h.has_wal = FALSE /\ h.wal_len = 0
      /\ h.ckpt_len = Size[c] /\ h.wal_off = HEADER_SIZE + Size[c]
  <2> HIDE DEF c
  <2>1. HEADER_SIZE + Size[c] \in Nat \ {0} /\ Size[c] \in Nat /\ 0 \in Nat
    BY <1>3
  <2>2. h = [header EXCEPT !.ckpt_len = Size[c], !.has_ckpt = TRUE, !.wal_off = HEADER_SIZE + Size[c],
                           !.wal_len = 0, !.has_wal = FALSE, !.last_lsn = NextLsn]
    BY DEF CkptHeader
  <2> HIDE DEF h
  <2> QED BY <1>4, <2>1, <2>2 DEF Headers
<1>6. op' \in Operations /\ op'.kind = "checkpoint" /\ op'.pc = "sync" /\ op'.snap = c
      /\ op'.before = op.before
  BY <1>1 DEF IInv, Types, Operations
<1> HIDE DEF h, c
<1>7. HeaderBlock(h) \in BlockValues
  BY <1>5, HeaderInBlock DEF BlockValues
<1>8. /\ pend' \in [Blocks -> Seq(BlockValues)]
      /\ Cached' = [b \in Blocks |-> IF b = 0 THEN HeaderBlock(h) ELSE Cached[b]]
  BY <1>1, <1>7, CachedOne DEF IInv
<1>9. 0 \in Blocks /\ \A i \in 1 .. Size[c] : i \in Blocks /\ i # 0
  BY <1>2, <1>3 DEF Blocks
<1>10. Cached'[0] = HeaderBlock(h) /\ \A i \in 1 .. Size[c] : Cached'[i] = CkptBlock(c, i)
  BY <1>2, <1>8, <1>9
<1>11. Checkpointing'
  BY <1>1, <1>2, <1>5, <1>6, <1>10 DEF Checkpointing, CkptOn
<1>12. Types'
  BY <1>1, <1>5, <1>6, <1>8 DEF IInv, Types
<1>13. IInv'
  BY <1>1, <1>6, <1>10, <1>11, <1>12 DEF IInv
<1>14. Durable' = Durable
  BY <1>1, <1>6 DEF Durable
<1> QED BY <1>13, <1>14

LEMMA LastSyncStep ==
  ASSUME IInv, LastSync
  PROVE  IInv' /\ (\/ \E c \in Snapshots : DL!write_checkpoint(c)
                   \/ \E n \in Lsns : DL!truncate_wal_until(n))
<1>1. /\ up = "up" /\ op.pc = "sync" /\ SyncFile /\ op' = Idle
      /\ header' = header /\ up' = up /\ used' = used
  BY DEF LastSync
<1>2. /\ disk' = Cached /\ pend' = NothingPending /\ Cached' = Cached
      /\ disk' \in [Blocks -> BlockValues] /\ pend' \in [Blocks -> Seq(BlockValues)]
  BY <1>1, CachedSync DEF IInv
<1>3. /\ Cached'[0] = HeaderBlock(header') /\ disk'[0] \in HeaderBlocks /\ disk'[0].h = header
      /\ disk'[0] = HeaderBlock(header) /\ header \in Headers
      /\ TornAppendsOnly
  BY <1>1, <1>2, HeaderInBlock DEF IInv, Types
<1>4. Types'
  BY <1>1, <1>2, IdleType DEF IInv, Types
<1>5. ASSUME Described(disk', header)
      PROVE  /\ IInv' /\ Durable' = Contents(disk')
             /\ Contents(disk').snap = SnapOf(disk', header) /\ Contents(disk').log = LogOf(disk', header)
  <2>1. IInv'
    BY <1>1, <1>2, <1>3, <1>4, <1>5, IdleType DEF IInv
  <2>2. Durable' = Contents(disk')
    BY <1>1, IdleType DEF Durable, Contents, read_checkpoint, read_wal_entries, End
  <2>3. Contents(disk') = [ok |-> TRUE, snap |-> SnapOf(disk', header), log |-> LogOf(disk', header)]
    BY <1>2, <1>3, <1>5, ReadBack
  <2> QED BY <2>1, <2>2, <2>3
<1>6. CASE op.kind = "checkpoint"
  <2> DEFINE c == op.snap
  <2>1. /\ c \in Snapshots /\ header.has_ckpt /\ header.wal_len = 0 /\ CkptOn(Cached, header, c)
    BY <1>1, <1>6 DEF IInv, Checkpointing
  <2> HIDE DEF c
  <2>2. /\ Size[c] \in Nat \ {0} /\ header.wal_off = 1 + Size[c] /\ Size[c] <= MaxBlock
        /\ disk'[1] = CkptBlock(c, 1)
    BY <1>2, <2>1, FileAssumption DEF CkptOn, HEADER_SIZE
  <2>3. Described(disk', header)
    BY <1>2, <2>1, <2>2, FileAssumption DEF Described, RegionOn, WalOn
  <2>4. SnapOf(disk', header) = c
    BY <2>1, <2>2 DEF SnapOf, HEADER_SIZE, CkptBlock
  <2>5. LogOf(disk', header) = <<>>
    BY <2>1 DEF LogOf
  <2>6. IInv' /\ Durable'.snap = c /\ Durable'.log = <<>>
    BY <1>5, <2>3, <2>4, <2>5
  <2>7. DL!write_checkpoint(c)
    BY <2>6 DEF DL!write_checkpoint
  <2> QED BY <2>1, <2>6, <2>7
<1>7. CASE op.kind = "truncate"
  <2>1. PICK n \in Lsns : Truncating(n)
    BY <1>7 DEF IInv
  <2>2. /\ Described(Cached, header) /\ op.before.snap = SnapOf(Cached, header)
        /\ DL!Truncation(op.before.log, LogOf(Cached, header), n)
    BY <1>1, <2>1 DEF Truncating
  <2>3. IInv' /\ Durable'.snap = SnapOf(Cached, header) /\ Durable'.log = LogOf(Cached, header)
    BY <1>2, <1>5, <2>2
  <2>4. Durable = op.before
    BY <1>7 DEF Durable
  <2>5. DL!truncate_wal_until(n)
    BY <2>2, <2>3, <2>4 DEF DL!truncate_wal_until
  <2> QED BY <2>3, <2>5
<1>8. op.kind \in {"checkpoint", "truncate"}
  <2>1. op.kind \in {"idle", "append", "checkpoint", "truncate"}
    BY DEF IInv, Types, Operations
  <2>2. op.kind # "idle"
    <3>1. op.kind = "idle" => op = Idle
      BY DEF IInv
    <3>2. Idle.pc = ""
      BY DEF Idle
    <3> QED BY <1>1, <3>1, <3>2
  <2>3. op.kind = "append" => op.pc \in {"sync entry", "count", "sync count"}
    BY DEF IInv, Appending
  <2> QED BY <1>1, <2>1, <2>2, <2>3
<1> QED BY <1>6, <1>7, <1>8

LEMMA TruncateStep ==
  ASSUME IInv, NEW n \in Lsns, truncate_wal_until(n)
  PROVE  IInv' /\ Durable' = Durable
<1> DEFINE all == read_wal_entries(Cached, header).log
           retained == Kept(all, n)
           g == [header EXCEPT !.wal_len = 0, !.has_wal = header.has_wal /\ retained # <<>>]
<1>1. /\ up = "up" /\ op.kind = "idle"
      /\ header' = g /\ pend' = Written(pend, One(0, HeaderBlock(g)))
      /\ op' = [Idle EXCEPT !.kind = "truncate", !.rest = retained, !.before = Contents(disk),
                            !.pc = IF retained = <<>> THEN "sync" ELSE "rewrite"]
      /\ disk' = disk /\ up' = up /\ used' = used
  BY DEF truncate_wal_until, WriteHeader
<1>2. /\ header = disk[0].h /\ Cached = disk /\ header \in Headers /\ Described(disk, header)
      /\ header.wal_off \in Nat \ {0} /\ header.wal_len \in Nat
  BY <1>1, IdleHeader
<1>3. /\ Contents(disk) = [ok |-> TRUE, snap |-> SnapOf(disk, header), log |-> LogOf(disk, header)]
      /\ Contents(disk) \in AnyContents /\ LogOf(disk, header) \in Seq(Lsns)
      /\ all = LogOf(disk, header)
  BY <1>1, <1>2, IdleContents
<1>4. retained \in Seq(Lsns) /\ DL!Truncation(all, retained, n)
  <2> HIDE DEF all
  <2> QED BY <1>3, KeptSorted
<1> HIDE DEF all, retained
<1>5. /\ g \in Headers /\ g.wal_len = 0 /\ g.wal_off = header.wal_off /\ g.has_ckpt = header.has_ckpt
      /\ g.ckpt_len = header.ckpt_len
  BY <1>2 DEF Headers
<1> HIDE DEF g
<1>6. Described(Cached, g) /\ SnapOf(Cached, g) = SnapOf(disk, header) /\ LogOf(Cached, g) = <<>>
  <2>1. RegionOn(disk, g) /\ SnapOf(disk, g) = SnapOf(disk, header)
    BY <1>2, <1>5 DEF Described, RegionOn, CkptOn, SnapOf
  <2>2. WalOn(disk, g)
    <3>1. header.wal_off + header.wal_len - 1 <= MaxBlock
      BY <1>2 DEF Described, WalOn
    <3> QED BY <1>2, <1>5, <3>1, FileAssumption DEF WalOn
  <2>3. LogOf(disk, g) = <<>>
    BY <1>5 DEF LogOf
  <2> QED BY <1>2, <2>1, <2>2, <2>3 DEF Described
<1>7. /\ pend' \in [Blocks -> Seq(BlockValues)] /\ Cached'[0] = HeaderBlock(g)
      /\ Described(Cached', g) /\ SnapOf(Cached', g) = SnapOf(Cached, g)
      /\ LogOf(Cached', g) = LogOf(Cached, g)
  BY <1>1, <1>5, <1>6, HeaderWritten
<1>8. /\ op' \in Operations /\ op'.kind = "truncate" /\ op'.rest = retained
      /\ op'.before = Contents(disk) /\ op'.pc = IF retained = <<>> THEN "sync" ELSE "rewrite"
  BY <1>1, <1>3, <1>4, IdleType DEF Idle, Operations
<1>9. op'.before.snap = SnapOf(disk, header) /\ op'.before.log = all
  BY <1>3, <1>8
<1>10. Truncating(n)'
  <2>1. LogOf(Cached', header') = <<>> /\ <<>> \o retained = retained
    BY <1>1, <1>4, <1>6, <1>7, ConcatEmptySeq
  <2>2. CASE retained = <<>>
    BY <1>1, <1>4, <1>6, <1>7, <1>8, <1>9, <2>1, <2>2 DEF Truncating
  <2>3. CASE retained # <<>>
    <3>1. DL!Truncation(op'.before.log, LogOf(Cached', header') \o op'.rest, n)
      BY <1>4, <1>8, <1>9, <2>1
    <3> QED BY <1>1, <1>6, <1>7, <1>8, <1>9, <2>3, <3>1 DEF Truncating
  <2> QED BY <2>2, <2>3
<1>11. Types'
  BY <1>1, <1>5, <1>7, <1>8 DEF IInv, Types
<1>12. IInv'
  BY <1>1, <1>7, <1>8, <1>10, <1>11 DEF IInv
<1>13. Durable' = Durable
  BY <1>1, <1>8 DEF Durable
<1> QED BY <1>12, <1>13

LEMMA RewriteEntryStep ==
  ASSUME IInv, RewriteEntry
  PROVE  IInv' /\ Durable' = Durable
<1> DEFINE m == Head(op.rest)
           end == header.wal_off + header.wal_len
<1>1. /\ up = "up" /\ op.pc = "rewrite" /\ op' = [op EXCEPT !.pc = "sync entry"]
      /\ end <= MaxBlock /\ pend' = Written(pend, One(end, WalBlock(m)))
      /\ header' = header /\ disk' = disk /\ up' = up /\ used' = used
  BY DEF RewriteEntry, AppendEntry, EntryBlock
<1>2. op.kind = "truncate"
  <2>1. op.kind \in {"idle", "append", "checkpoint", "truncate"}
    BY DEF IInv, Types, Operations
  <2>2. op.kind # "idle"
    <3>1. op.kind = "idle" => op = Idle
      BY DEF IInv
    <3>2. Idle.pc = ""
      BY DEF Idle
    <3> QED BY <1>1, <3>1, <3>2
  <2>3. op.kind = "append" => op.pc \in {"sync entry", "count", "sync count"}
    BY DEF IInv, Appending
  <2>4. op.kind = "checkpoint" => op.pc \in {"header", "sync"}
    BY DEF IInv, Checkpointing
  <2> QED BY <1>1, <2>1, <2>2, <2>3, <2>4
<1>3. PICK n \in Lsns : Truncating(n)
  BY <1>2 DEF IInv
<1>4. /\ Described(Cached, header) /\ op.before.snap = SnapOf(Cached, header) /\ op.rest # <<>>
      /\ DL!Truncation(op.before.log, LogOf(Cached, header) \o op.rest, n)
  BY <1>1, <1>3 DEF Truncating
<1>5. /\ op' \in Operations /\ op'.kind = "truncate" /\ op'.pc = "sync entry" /\ op'.rest = op.rest
      /\ op'.before = op.before /\ op.rest \in Seq(Lsns)
  BY <1>1, <1>2 DEF IInv, Types, Operations
<1>6. WalBlock(m) \in BlockValues
  <2>1. m \in Lsns
    BY <1>4, <1>5, NonEmptySeq
  <2> QED BY <2>1, WalBlockType
<1>7. header \in Headers /\ header.wal_off \in Nat \ {0} /\ header.wal_len \in Nat
  BY DEF IInv, Types, Headers
<1>8. /\ 0 \in Blocks /\ 0 # end /\ end \in Blocks
      /\ \A b \in 1 .. header.wal_off + header.wal_len - 1 : b \in Blocks /\ b # end
  <2>1. end <= MaxBlock
    BY <1>1
  <2> QED BY <1>7, <2>1, FileAssumption DEF Blocks
<1> HIDE DEF m, end
<1>9. /\ pend' \in [Blocks -> Seq(BlockValues)]
      /\ Cached' = [b \in Blocks |-> IF b = end THEN WalBlock(m) ELSE Cached[b]]
  <2>1. Types /\ disk' = disk /\ pend' = Written(pend, One(end, WalBlock(m)))
    BY <1>1 DEF IInv
  <2> QED BY <1>6, <2>1, CachedOne
<1>10. /\ Cached'[0] = Cached[0] /\ Cached'[end] = WalBlock(m)
       /\ \A b \in 1 .. header.wal_off + header.wal_len - 1 : Cached'[b] = Cached[b]
  BY <1>8, <1>9
<1>11. /\ Described(Cached', header) /\ SnapOf(Cached', header) = SnapOf(Cached, header)
       /\ LogOf(Cached', header) = LogOf(Cached, header)
  <2>1. header \in Headers /\ Described(Cached, header)
    BY <1>4, <1>7
  <2>2. \A b \in 1 .. header.wal_off + header.wal_len - 1 : Cached'[b] = Cached[b]
    BY <1>10
  <2> QED BY <2>1, <2>2, SameRegions, Zenon
<1>12. Truncating(n)'
  <2>1. DL!Truncation(op'.before.log, LogOf(Cached', header') \o op'.rest, n)
    BY <1>1, <1>4, <1>5, <1>11
  <2>2. Cached'[header'.wal_off + header'.wal_len] = WalBlock(Head(op'.rest))
    BY <1>1, <1>5, <1>10 DEF end, m
  <2> QED BY <1>1, <1>4, <1>5, <1>11, <2>1, <2>2 DEF Truncating, end
<1>13. Types'
  BY <1>1, <1>5, <1>9 DEF IInv, Types
<1>14. IInv'
  BY <1>1, <1>5, <1>10, <1>12, <1>13 DEF IInv
<1>15. Durable' = Durable
  BY <1>1, <1>2, <1>5 DEF Durable
<1> QED BY <1>14, <1>15

\* What a crash leaves: nothing was written, or one block was.
LEMMA CrashImage ==
  ASSUME Crash, disk \in [Blocks -> BlockValues]
  PROVE  /\ pend = NothingPending => disk' = disk
         /\ \A x \in Blocks : \A v : pend = Written(NothingPending, One(x, v)) =>
               disk' = disk \/ disk' = [b \in Blocks |-> IF b = x THEN v ELSE disk[b]]
<1>1. PICK f \in [{b \in Blocks : pend[b] # <<>>} -> 0 .. 2] :
         /\ \A b \in DOMAIN f : f[b] <= Len(pend[b])
         /\ disk' = [b \in Blocks |-> IF b \in DOMAIN f /\ f[b] # 0 THEN pend[b][f[b]] ELSE disk[b]]
  BY DEF Crash
<1>2. DOMAIN f = {b \in Blocks : pend[b] # <<>>}
  BY <1>1
<1>3. ASSUME pend = NothingPending PROVE disk' = disk
  <2>1. \A b \in Blocks : b \notin DOMAIN f
    BY <1>2, <1>3 DEF NothingPending
  <2>2. disk' = [b \in Blocks |-> disk[b]]
    BY <1>1, <2>1
  <2> QED BY <2>2
<1>4. ASSUME NEW x \in Blocks, NEW v, pend = Written(NothingPending, One(x, v))
      PROVE  disk' = disk \/ disk' = [b \in Blocks |-> IF b = x THEN v ELSE disk[b]]
  <2>1. \A b \in Blocks : pend[b] = IF b = x THEN <<v>> ELSE <<>>
    BY <1>4, CachedOnePending
  <2>2. <<v>> # <<>> /\ Len(<<v>>) = 1 /\ <<v>>[1] = v
    OBVIOUS
  <2>3. pend[x] = <<v>> /\ x \in DOMAIN f /\ \A b \in Blocks : b # x => b \notin DOMAIN f
    BY <1>2, <2>1, <2>2
  <2>4. f[x] \in 0 .. 2 /\ f[x] <= 1
    BY <1>1, <1>2, <2>2, <2>3
  <2>5. f[x] = 0 \/ f[x] = 1
    BY <2>4
  <2>6. CASE f[x] = 0
    <3>1. \A b \in Blocks : disk'[b] = disk[b]
      BY <1>1, <2>3, <2>6
    <3>2. disk' = [b \in Blocks |-> disk'[b]]
      BY <1>1
    <3> QED BY <3>1, <3>2
  <2>7. CASE f[x] = 1
    <3>1. disk'[x] = v
      BY <1>1, <2>2, <2>3, <2>7
    <3>2. \A b \in Blocks : b # x => disk'[b] = disk[b]
      BY <1>1, <2>3
    <3>3. disk' = [b \in Blocks |-> disk'[b]]
      BY <1>1
    <3> QED BY <3>1, <3>2, <3>3
  <2> QED BY <2>5, <2>6, <2>7
<1> QED BY <1>3, <1>4

LEMMA CrashStep ==
  ASSUME IInv, Crash
  PROVE  IInv' /\ (Durable' = Durable \/ \E n \in Lsns : DL!append_wal(n))
<1>1. /\ op.kind \in {"idle", "append"} /\ pend' = NothingPending /\ up' = "down" /\ op' = Idle
      /\ header' = header /\ used' = used /\ TornAppendsOnly
  BY DEF Crash, NothingPending, IInv, TornAppendsOnly
<1>2. disk \in [Blocks -> BlockValues] /\ pend' \in [Blocks -> Seq(BlockValues)]
  BY <1>1 DEF IInv, Types, NothingPending
<1>3. ASSUME disk' \in [Blocks -> BlockValues], disk'[0] \in HeaderBlocks, Described(disk', disk'[0].h)
      PROVE  IInv'
  <2>1. Types'
    BY <1>1, <1>2, <1>3, IdleType DEF IInv, Types
  <2> QED BY <1>1, <1>3, <2>1, IdleType DEF IInv
<1>4. Durable = Contents(disk) /\ Durable' = Contents(disk')
  BY <1>1, IdleType DEF Durable, Contents, read_checkpoint, read_wal_entries, End
<1>5. Described(disk, disk[0].h) /\ disk[0] \in HeaderBlocks
  BY <1>1 DEF IInv
<1>6. CASE disk' = disk
  <2>1. Durable' = Durable
    BY <1>4, <1>6
  <2> QED BY <1>2, <1>3, <1>5, <1>6, <2>1
<1>7. CASE op.kind = "idle"
  <2>1. disk' = disk
    BY <1>2, <1>7, CrashImage DEF IInv
  <2> QED BY <1>6, <2>1
<1>8. CASE op.kind = "append"
  <2>1. PICK n \in Lsns : op.rest = <<n>> /\ Appending(n)
    BY <1>8 DEF IInv
  <2> DEFINE h == disk[0].h
             end == h.wal_off + h.wal_len
  <2>2. /\ h \in Headers /\ disk[0] = HeaderBlock(h) /\ Described(disk, h)
        /\ end \in Blocks /\ end # 0 /\ 0 \in Blocks
    BY <1>8, <2>1, AppendingFacts
  <2>3. end <= MaxBlock /\ op.pc \in {"sync entry", "count", "sync count"}
    BY <2>1 DEF Appending
  <2>4. CASE op.pc = "sync entry"
    <3>1. pend = Written(NothingPending, One(end, WalBlock(n)))
      BY <2>1, <2>4 DEF Appending
    <3> HIDE DEF end, h
    <3>2. disk' = disk \/ disk' = [b \in Blocks |-> IF b = end THEN WalBlock(n) ELSE disk[b]]
      BY <1>2, <2>2, <3>1, CrashImage
    <3>3. CASE disk' = [b \in Blocks |-> IF b = end THEN WalBlock(n) ELSE disk[b]]
      <4>1. disk' \in [Blocks -> BlockValues] /\ \A b \in Blocks : b # end => disk'[b] = disk[b]
        BY <1>2, <3>3, WalBlockType
      <4>2. Described(disk', h) /\ Contents(disk') = Contents(disk)
        BY <1>2, <2>2, <4>1, EntryUnread DEF end
      <4>3. disk'[0] = disk[0]
        BY <2>2, <4>1
      <4>4. Described(disk', disk'[0].h) /\ disk'[0] \in HeaderBlocks
        BY <1>5, <4>2, <4>3 DEF h
      <4> QED BY <1>3, <1>4, <4>1, <4>2, <4>4
    <3> QED BY <1>6, <3>2, <3>3
  <2>5. CASE op.pc = "count"
    <3>1. pend = NothingPending
      BY <2>1, <2>5 DEF Appending
    <3>2. disk' = disk
      BY <1>2, <3>1, CrashImage
    <3> QED BY <1>6, <3>2
  <2>6. CASE op.pc = "sync count"
    <3>1. /\ pend = Written(NothingPending, One(0, HeaderBlock(Counted(h, n))))
          /\ disk[h.wal_off + h.wal_len] = WalBlock(n)
      BY <2>1, <2>6 DEF Appending
    <3> HIDE DEF h
    <3>2. disk' = disk \/ disk' = [b \in Blocks |-> IF b = 0 THEN HeaderBlock(Counted(h, n)) ELSE disk[b]]
      BY <1>2, <2>2, <3>1, CrashImage
    <3>3. CASE disk' = [b \in Blocks |-> IF b = 0 THEN HeaderBlock(Counted(h, n)) ELSE disk[b]]
      <4>1. /\ disk'[0] = HeaderBlock(Counted(h, n)) /\ Described(disk', Counted(h, n))
            /\ Contents(disk').snap = Contents(disk).snap
            /\ Contents(disk').log = Append(Contents(disk).log, n)
        BY <1>2, <2>2, <2>3, <3>1, <3>3, CountedImage
      <4>2. Counted(h, n) \in Headers
        BY <2>2, CountedType
      <4>3. HeaderBlock(Counted(h, n)) \in HeaderBlocks /\ HeaderBlock(Counted(h, n)).h = Counted(h, n)
            /\ HeaderBlock(Counted(h, n)) \in BlockValues
        BY <4>2, HeaderInBlock DEF BlockValues
      <4>4. disk' \in [Blocks -> BlockValues]
        BY <1>2, <3>3, <4>3
      <4>5. Described(disk', disk'[0].h) /\ disk'[0] \in HeaderBlocks
        BY <4>1, <4>3
      <4>6. DL!append_wal(n)
        BY <1>4, <4>1 DEF DL!append_wal
      <4> QED BY <1>3, <4>4, <4>5, <4>6
    <3> QED BY <1>6, <3>2, <3>3
  <2> QED BY <2>3, <2>4, <2>5, <2>6
<1> QED BY <1>1, <1>7, <1>8

LEMMA OpenStep ==
  ASSUME IInv, Open
  PROVE  IInv' /\ Durable' = Durable
<1> DEFINE S == {disk[0].h.last_lsn} \cup Range(Contents(disk).log)
<1>1. /\ up = "down" /\ up' = IF Contents(disk).ok THEN "up" ELSE "failed"
      /\ header' = disk[0].h /\ used' = 1 .. Max(S)
      /\ disk' = disk /\ pend' = pend /\ op' = op
  BY DEF Open
<1>2. op.kind = "idle" /\ pend = NothingPending /\ Described(disk, disk[0].h) /\ op = Idle
  BY <1>1 DEF IInv
<1>3. /\ Contents(disk).ok /\ Contents(disk).log \in Seq(Lsns) /\ disk[0].h \in Headers
  BY <1>2, IdleContents DEF AnyContents
<1>4. S \in SUBSET (0 .. MaxLsn) /\ S # {}
  <2>1. \A x \in Range(Contents(disk).log) : x \in Lsns
    BY <1>3 DEF Range
  <2>2. disk[0].h.last_lsn \in 0 .. MaxLsn
    BY <1>3 DEF Headers
  <2> QED BY <2>1, <2>2, FileAssumption DEF Lsns
<1> HIDE DEF S
<1>5. Max(S) \in 0 .. MaxLsn
  BY <1>4, MaxExists, FileAssumption
<1>6. used' \subseteq Lsns
  BY <1>1, <1>5, FileAssumption DEF Lsns
<1>7. up' = "up"
  BY <1>1, <1>3
<1>8. Types'
  BY <1>1, <1>3, <1>6, <1>7 DEF IInv, Types
<1>9. Cached'[0] = HeaderBlock(header')
  <2>1. Cached = disk /\ Cached' = Cached
    BY <1>1, <1>2, CachedType DEF IInv, Cached
  <2>2. disk[0] = HeaderBlock(disk[0].h)
    BY DEF IInv, HeaderBlocks, HeaderBlock
  <2> QED BY <1>1, <2>1, <2>2
<1>10. IInv'
  BY <1>1, <1>2, <1>7, <1>8, <1>9 DEF IInv
<1>11. Durable' = Durable
  BY <1>1 DEF Durable, Contents, read_checkpoint, read_wal_entries, End
<1> QED BY <1>10, <1>11

-----------------------------------------------------------------------------
(* The theorems.                                                             *)

\* A step of the file keeps the invariant, and the file's contents change as
\* those of a durable log do, or not at all.
LEMMA NextStep ==
  ASSUME IInv, [Next]_vars
  PROVE  IInv' /\ (Durable' = Durable \/ DL!Next)
<1>1. CASE UNCHANGED vars
  <2>1. Durable' = Durable
    BY <1>1 DEF vars, Durable, Contents, read_checkpoint, read_wal_entries, End
  <2>2. /\ disk' = disk /\ pend' = pend /\ header' = header /\ up' = up /\ op' = op /\ used' = used
        /\ Cached' = Cached /\ NextLsn' = NextLsn
    BY <1>1 DEF vars, Cached, NextLsn, Max
  <2>3. Types' /\ (Checkpointing' <=> Checkpointing)
    BY <2>2 DEF IInv, Types, Checkpointing
  <2>4. \A n \in Lsns : (Appending(n)' <=> Appending(n)) /\ (Truncating(n)' <=> Truncating(n))
    BY <2>2 DEF Appending, Truncating
  <2>5. IInv'
    BY <2>2, <2>3, <2>4 DEF IInv
  <2> QED BY <2>1, <2>5
<1>2. ASSUME NEW n \in Lsns, append_wal(n) PROVE IInv' /\ Durable' = Durable
  BY <1>2, AppendWalStep
<1>3. ASSUME NEW n \in Lsns, truncate_wal_until(n) PROVE IInv' /\ Durable' = Durable
  BY <1>3, TruncateStep
<1>4. ASSUME NEW c \in Snapshots, write_checkpoint(c) PROVE IInv' /\ Durable' = Durable
  BY <1>4, WriteCheckpointStep
<1>5. CASE SyncEntry
  BY <1>5, SyncEntryStep
<1>6. CASE CountEntry
  BY <1>6, CountEntryStep
<1>7. CASE SyncCount
  BY <1>7, SyncCountStep DEF DL!Next
<1>8. CASE CheckpointHeader
  BY <1>8, CheckpointHeaderStep
<1>9. CASE RewriteEntry
  BY <1>9, RewriteEntryStep
<1>10. CASE LastSync
  BY <1>10, LastSyncStep DEF DL!Next
<1>11. CASE Crash
  BY <1>11, CrashStep DEF DL!Next
<1>12. CASE Open
  BY <1>12, OpenStep
<1>13. Next \/ UNCHANGED vars
  OBVIOUS
<1> QED BY <1>1, <1>2, <1>3, <1>4, <1>5, <1>6, <1>7, <1>8, <1>9, <1>10, <1>11, <1>12, <1>13 DEF Next

\* The invariant says of every header on the disk that its log is there too.
LEMMA InvariantHeaders == IInv => HeaderNeverAhead
<1> SUFFICES ASSUME IInv, op.kind \in {"idle", "append"},
                    NEW g \in HeadersOnDisk, NEW b \in g.wal_off .. g.wal_off + g.wal_len - 1
             PROVE  disk[b].kind = "wal" /\ pend[b] = <<>>
  BY DEF HeaderNeverAhead
<1> DEFINE h == disk[0].h
<1>1. /\ h \in Headers /\ disk[0] = HeaderBlock(h) /\ Described(disk, h)
      /\ h.wal_off \in Nat \ {0} /\ h.wal_len \in Nat
  BY DEF IInv, HeaderBlocks, HeaderBlock, Headers
<1> HIDE DEF h
<1>2. /\ \A x \in h.wal_off .. h.wal_off + h.wal_len - 1 : disk[x].kind = "wal" /\ x \in Blocks
      /\ 0 \in Blocks
  BY <1>1, FileAssumption DEF Described, WalOn, WalBlocks, Blocks
<1>3. ASSUME pend = NothingPending PROVE disk[b].kind = "wal" /\ pend[b] = <<>>
  <2>1. \A x \in Blocks : pend[x] = <<>>
    BY <1>3 DEF NothingPending
  <2>2. g = h
    BY <1>2, <2>1 DEF HeadersOnDisk, h
  <2> QED BY <1>2, <2>1, <2>2
<1>4. CASE op.kind = "idle"
  BY <1>3, <1>4 DEF IInv
<1>5. CASE op.kind = "append"
  <2>1. PICK n \in Lsns : op.rest = <<n>> /\ Appending(n)
    BY <1>5 DEF IInv
  <2> DEFINE end == h.wal_off + h.wal_len
  <2>2. /\ end <= MaxBlock /\ end \in Blocks /\ end # 0
        /\ op.pc \in {"sync entry", "count", "sync count"}
    <3>1. h.wal_off + h.wal_len <= MaxBlock /\ op.pc \in {"sync entry", "count", "sync count"}
      BY <2>1 DEF Appending, h
    <3>2. end \in Blocks /\ end # 0
      BY <1>5, <2>1, AppendingFacts DEF h
    <3> QED BY <3>1, <3>2
  <2>3. CASE op.pc = "sync entry"
    <3>1. pend = Written(NothingPending, One(end, WalBlock(n)))
      BY <2>1, <2>3 DEF Appending, h
    <3>2. \A x \in Blocks : x # end => pend[x] = <<>>
      <4> HIDE DEF end
      <4> QED BY <3>1, CachedOnePending
    <3>3. g = h
      <4>1. pend[0] = <<>>
        BY <1>2, <2>2, <3>2
      <4> QED BY <4>1 DEF HeadersOnDisk, h
    <3>4. b \in Blocks /\ b # end
      BY <1>1, <1>2, <3>3
    <3> QED BY <1>2, <3>2, <3>3, <3>4
  <2>4. CASE op.pc = "count"
    BY <1>3, <2>1, <2>4 DEF Appending
  <2>5. CASE op.pc = "sync count"
    <3>1. /\ pend = Written(NothingPending, One(0, HeaderBlock(Counted(h, n))))
          /\ disk[end] = WalBlock(n)
      BY <2>1, <2>5 DEF Appending, h
    <3>2. \A x \in Blocks : pend[x] = IF x = 0 THEN <<HeaderBlock(Counted(h, n))>> ELSE <<>>
      BY <3>1, CachedOnePending
    <3>3. g = h \/ g = Counted(h, n)
      <4>1. pend[0] = <<HeaderBlock(Counted(h, n))>>
        BY <1>2, <3>2
      <4>2. \A i \in DOMAIN pend[0] : pend[0][i].h = Counted(h, n)
        BY <4>1, HeaderInBlock
      <4> QED BY <4>2 DEF HeadersOnDisk, h
    <3>4. Counted(h, n).wal_off = h.wal_off /\ Counted(h, n).wal_len = h.wal_len + 1
      BY <1>1 DEF Counted, Headers
    <3>5. b \in h.wal_off .. h.wal_off + h.wal_len - 1 \/ b = end
      BY <1>1, <3>3, <3>4
    <3>6. b \in Blocks /\ b # 0 /\ disk[b].kind = "wal"
      <4>1. CASE b = end
        <5>1. disk[b] = WalBlock(n) /\ WalBlock(n).kind = "wal"
          BY <3>1, <4>1 DEF WalBlock
        <5> HIDE DEF end
        <5> QED BY <2>2, <4>1, <5>1
      <4>2. CASE b \in h.wal_off .. h.wal_off + h.wal_len - 1
        BY <1>1, <1>2, <4>2
      <4> QED BY <3>5, <4>1, <4>2
    <3> QED BY <3>2, <3>6
  <2> QED BY <2>2, <2>3, <2>4, <2>5
<1> QED BY <1>4, <1>5

\* Whatever the file's length, the number of its entries and the sizes of its
\* checkpoints: a described image is all that is ever on the disk (DbFile::open
\* always finds a readable file).
THEOREM FileDescribed == TornAppendsOnly /\ Spec => []IInv
<1>1. TornAppendsOnly /\ Init => IInv
  BY InitIInv
<1>2. IInv /\ [Next]_vars => IInv'
  BY NextStep
<1> QED BY <1>1, <1>2, PTL DEF Spec

\* append_wal: "the header will NEVER point to WAL data that hasn't been durably
\* written, even if the OS reorders page flushes".
THEOREM HeaderHolds == TornAppendsOnly /\ Spec => []HeaderNeverAhead
<1>1. IInv => HeaderNeverAhead
  BY InvariantHeaders
<1> QED BY <1>1, FileDescribed, PTL

\* The database file implements the durable log: append_wal, write_checkpoint
\* and truncate_wal_until each take effect at one point, and a crash or an open
\* changes nothing that had been returned.
THEOREM FileIsDurableLog == TornAppendsOnly /\ Spec => ImplementsDurableLog
<1>1. TornAppendsOnly /\ Init => DL!Init
  <2> SUFFICES ASSUME TornAppendsOnly, Init PROVE DL!Init
    OBVIOUS
  <2>1. IInv
    BY InitIInv
  <2>2. op.kind = "idle" /\ disk[0].h = NewHeader
    BY HeaderInBlock, IdleType, FileAssumption DEF Init, Blocks
  <2>3. Contents(disk).snap = NoSnapshot /\ Contents(disk).log = <<>>
    BY <2>1, <2>2, IdleContents DEF SnapOf, LogOf, NewHeader
  <2> QED BY <2>2, <2>3 DEF DL!Init, Durable
<1>2. IInv /\ [Next]_vars => [DL!Next]_(DL!vars)
  <2> SUFFICES ASSUME IInv, [Next]_vars PROVE DL!Next \/ UNCHANGED DL!vars
    OBVIOUS
  <2>1. Durable' = Durable \/ DL!Next
    BY NextStep
  <2> QED BY <2>1 DEF DL!vars
<1> QED BY <1>1, <1>2, FileDescribed, PTL DEF Spec, ImplementsDurableLog, DL!Spec
=============================================================================
