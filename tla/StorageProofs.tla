--------------------------- MODULE StorageProofs ---------------------------
(***************************************************************************)
(* Proofs about the storage and caching labs: what a read answers of the    *)
(* LSM tree, of a snapshot, of a replica and of a cache, for any number of  *)
(* keys, writes, rounds, threads and periods.                              *)
(***************************************************************************)
EXTENDS MCStorage, Counting

-----------------------------------------------------------------------------
(***************************************************************************)
(* The row and its versions.  The transactions that update it commit one   *)
(* after the other, so the version of transaction n ends where that of     *)
(* n + 1 begins: one version is what a snapshot sees, and a snapshot that  *)
(* is open holds the horizon back, so VACUUM leaves that version alone.    *)
(***************************************************************************)
VersionAt(n, last) == [xmin |-> n, xmax |-> IF n = last THEN 0 ELSE n + 1, balance |-> n]

HeapInv ==
    /\ xid \in Nat
    /\ versions \subseteq {VersionAt(n, xid) : n \in 0..xid} /\ VersionAt(xid, xid) \in versions
    /\ snapshot \in [Readers -> -1..xid] /\ firstRead \in [Readers -> -1..xid]
    /\ \A c \in Readers : snapshot[c] # -1 => VersionAt(snapshot[c], xid) \in versions
    /\ \A c \in Readers : firstRead[c] # -1 => firstRead[c] = snapshot[c]
    /\ rereads = {}

\* A snapshot sees the version of its own transaction and no other.
LEMMA VersionSeen ==
    ASSUME HeapInv, NEW s \in 0..xid, VersionAt(s, xid) \in versions
    PROVE  {v \in versions : Engine!Visible(v, s)} = {VersionAt(s, xid)} /\ Engine!Balance(s) = s
  <1>1. ASSUME NEW v \in versions
        PROVE  Engine!Visible(v, s) <=> v = VersionAt(s, xid)
    <2>1. PICK n \in 0..xid : v = VersionAt(n, xid)
      BY DEF HeapInv
    <2>2. v.xmin = n /\ v.xmax = IF n = xid THEN 0 ELSE n + 1
      BY <2>1 DEF VersionAt
    <2>3. Engine!Visible(v, s) <=> n = s
      BY <2>2 DEF Engine!Visible, HeapInv
    <2>4. VersionAt(n, xid) = VersionAt(s, xid) => n = s
      BY DEF VersionAt
    <2> QED
      BY <2>1, <2>3, <2>4
  <1>2. Engine!Balance(s) = VersionAt(s, xid).balance
    BY <1>1 DEF Engine!Balance
  <1> QED
    BY <1>1, <1>2 DEF VersionAt

LEMMA HeapInvInit ==
    ASSUME Engine!HeapInit
    PROVE  HeapInv
  <1>1. VersionAt(0, xid) = [xmin |-> 0, xmax |-> 0, balance |-> 0] /\ xid = 0 /\ 0..xid = {0}
    BY DEF Engine!HeapInit, VersionAt
  <1> QED
    BY <1>1 DEF Engine!HeapInit, HeapInv

\* The horizon is at or before every open snapshot.
LEMMA HorizonIsFirst ==
    ASSUME HeapInv
    PROVE  /\ Engine!Horizon \in 0..xid
           /\ \A c \in Readers : snapshot[c] # -1 => Engine!Horizon <= snapshot[c]
  <1> DEFINE open == {snapshot[c] : c \in {d \in Readers : snapshot[d] # -1}}
  <1>1. open \subseteq 0..xid /\ \A c \in Readers : snapshot[c] # -1 => snapshot[c] \in open
    BY DEF HeapInv
  <1>2. Engine!Horizon = IF open = {} THEN xid ELSE CHOOSE s \in open : \A t \in open : s <= t
    BY DEF Engine!Horizon
  <1> HIDE DEF open
  <1>3. CASE open = {}
    BY <1>1, <1>2, <1>3 DEF HeapInv
  <1>4. CASE open # {}
    <2>1. open \in SUBSET Nat
      BY <1>1 DEF HeapInv
    <2>2. \E s \in open : \A t \in open : s <= t
      BY <1>4, <2>1, LeastExists
    <2> QED
      BY <1>1, <1>2, <1>4, <2>2
  <1> QED
    BY <1>3, <1>4

LEMMA UpdateStep ==
    ASSUME HeapInv, Engine!Update
    PROVE  HeapInv'
  <1>1. /\ xid' = xid + 1 /\ xid \in Nat /\ UNCHANGED <<snapshot, firstRead, rereads>>
        /\ versions' = {IF v.xmax = 0 THEN [v EXCEPT !.xmax = xid + 1] ELSE v : v \in versions}
                       \cup {[xmin |-> xid + 1, xmax |-> 0, balance |-> xid + 1]}
    BY DEF Engine!Update, HeapInv
  <1>2. ASSUME NEW n \in 0..xid
        PROVE  VersionAt(n, xid') = IF VersionAt(n, xid).xmax = 0
                                      THEN [VersionAt(n, xid) EXCEPT !.xmax = xid + 1]
                                      ELSE VersionAt(n, xid)
    BY <1>1 DEF VersionAt
  <1>3. VersionAt(xid + 1, xid + 1) = [xmin |-> xid + 1, xmax |-> 0, balance |-> xid + 1]
    BY <1>1 DEF VersionAt
  <1>4. \A n \in 0..xid : VersionAt(n, xid) \in versions => VersionAt(n, xid') \in versions'
    BY <1>1, <1>2
  <1>5. VersionAt(xid', xid') \in versions'
    BY <1>1, <1>3
  <1>6. ASSUME NEW w \in versions'
        PROVE  \E n \in 0..xid' : w = VersionAt(n, xid')
    <2>1. CASE w = [xmin |-> xid + 1, xmax |-> 0, balance |-> xid + 1]
      BY <1>1, <1>3, <2>1
    <2>2. CASE \E v \in versions : w = IF v.xmax = 0 THEN [v EXCEPT !.xmax = xid + 1] ELSE v
      BY <1>1, <1>2, <2>2 DEF HeapInv
    <2> QED
      BY <1>1, <2>1, <2>2
  <1>7. snapshot' \in [Readers -> -1..xid'] /\ firstRead' \in [Readers -> -1..xid']
    <2>1. \A s \in -1..xid : s \in -1..xid'
      BY <1>1
    <2> QED
      BY <1>1, <2>1 DEF HeapInv
  <1>8. \A c \in Readers : snapshot'[c] # -1 => VersionAt(snapshot'[c], xid') \in versions'
    <2> SUFFICES ASSUME NEW c \in Readers, snapshot[c] # -1
                 PROVE  VersionAt(snapshot[c], xid') \in versions'
      BY <1>1
    <2>1. snapshot[c] \in 0..xid /\ VersionAt(snapshot[c], xid) \in versions
      BY DEF HeapInv
    <2> QED
      BY <1>4, <2>1
  <1>9. versions' \subseteq {VersionAt(n, xid') : n \in 0..xid'}
    BY <1>6
  <1>10. /\ xid' \in Nat /\ rereads' = {}
         /\ \A c \in Readers : firstRead'[c] # -1 => firstRead'[c] = snapshot'[c]
    BY <1>1 DEF HeapInv
  <1> QED
    BY <1>5, <1>7, <1>8, <1>9, <1>10 DEF HeapInv

LEMMA VacuumStep ==
    ASSUME HeapInv, Engine!Vacuum
    PROVE  HeapInv'
  <1>1. /\ versions' = {v \in versions : ~(Engine!Dead(v) /\ v.xmax <= Engine!Horizon)}
        /\ UNCHANGED <<xid, snapshot, firstRead, rereads>>
    BY DEF Engine!Vacuum
  <1>2. xid' = xid
    BY <1>1
  <1>3. ASSUME NEW n \in 0..xid, VersionAt(n, xid) \in versions, n = xid \/ Engine!Horizon <= n
        PROVE  VersionAt(n, xid) \in versions'
    BY <1>1, <1>3, HorizonIsFirst DEF VersionAt, Engine!Dead, HeapInv
  <1>4. VersionAt(xid, xid) \in versions'
    BY <1>3 DEF HeapInv
  <1>5. \A c \in Readers : snapshot[c] # -1 => VersionAt(snapshot[c], xid) \in versions'
    BY <1>3, HorizonIsFirst DEF HeapInv
  <1> QED
    BY <1>1, <1>2, <1>4, <1>5 DEF HeapInv

LEMMA HeapInvStep ==
    ASSUME HeapInv, Engine!HeapNext \/ UNCHANGED heapVars
    PROVE  HeapInv'
  <1>1. ASSUME NEW c \in Readers, NEW r \in BOOLEAN, Engine!Begin(c, r)
        PROVE  HeapInv'
    <2>1. Engine!Balance(xid) = xid
      BY VersionSeen DEF HeapInv
    <2> QED
      BY <1>1, <2>1 DEF Engine!Begin, HeapInv
  <1>2. ASSUME NEW c \in Readers, Engine!Select(c)
        PROVE  HeapInv'
    <2>1. snapshot[c] \in 0..xid /\ VersionAt(snapshot[c], xid) \in versions
      BY <1>2 DEF Engine!Select, HeapInv
    <2>2. Engine!Balance(snapshot[c]) = snapshot[c]
      BY <2>1, VersionSeen
    <2> QED
      BY <1>2, <2>1, <2>2 DEF Engine!Select, HeapInv
  <1>3. ASSUME NEW c \in Readers, Engine!End(c)
        PROVE  HeapInv'
    BY <1>3 DEF Engine!End, HeapInv
  <1>4. CASE UNCHANGED heapVars
    BY <1>4 DEF heapVars, HeapInv
  <1> QED
    BY <1>1, <1>2, <1>3, <1>4, UpdateStep, VacuumStep DEF Engine!HeapNext

LEMMA HeapInvStable ==
    ASSUME HeapInv
    PROVE  Engine!SnapshotIsStable
  <1>1. \A T : Engine!Cardinality(T) = Cardinality(T)
    BY DEF Engine!Cardinality, Cardinality
  <1>2. ASSUME NEW c \in Readers, snapshot[c] # -1
        PROVE  Cardinality({v \in versions : Engine!Visible(v, snapshot[c])}) = 1
    <2>1. snapshot[c] \in 0..xid /\ VersionAt(snapshot[c], xid) \in versions
      BY <1>2 DEF HeapInv
    <2> QED
      BY <2>1, VersionSeen, FS_Singleton
  <1>3. Cardinality({v \in versions : ~Engine!Dead(v)}) = 1
    <2>1. \A v \in versions : ~Engine!Dead(v) <=> v = VersionAt(xid, xid)
      BY DEF HeapInv, VersionAt, Engine!Dead
    <2>2. {v \in versions : ~Engine!Dead(v)} = {VersionAt(xid, xid)}
      BY <2>1 DEF HeapInv
    <2> QED
      BY <2>2, FS_Singleton
  <1> QED
    BY <1>1, <1>2, <1>3 DEF Engine!SnapshotIsStable, HeapInv

-----------------------------------------------------------------------------
(***************************************************************************)
(* The tables of the tree.  What a read finds in a list of tables is the   *)
(* entry of the first one that has the key; a flush puts a table before    *)
(* them, and a compaction replaces the tables of level 0 by one that says  *)
(* the same of every key that is not deleted.                              *)
(***************************************************************************)
LsmEntries == UNION {[D -> LsmValues \cup {Engine!Tombstone}] : D \in SUBSET LsmKeys}
Tables == [level : {0, 1}, data : LsmEntries, bloom : SUBSET LsmKeys]

Lookup(tables, k) ==
    IF Engine!Holding(tables, k) = {} THEN Engine!Tombstone
    ELSE tables[Engine!First(Engine!Holding(tables, k))].data[k]

Sorted(tables) ==
    \A i, j \in 1..Len(tables) : i < j => tables[i].level <= tables[j].level

LevelAt(tables, l) == {i \in DOMAIN tables : tables[i].level = l}

LEMMA EntriesOf ==
    ASSUME NEW f
    PROVE  f \in LsmEntries <=>
               f \in [DOMAIN f -> LsmValues \cup {Engine!Tombstone}] /\ DOMAIN f \in SUBSET LsmKeys
  BY DEF LsmEntries

LEMMA FirstIs ==
    ASSUME NEW S \in SUBSET Nat, NEW m \in S, \A j \in S : m <= j
    PROVE  Engine!First(S) = m
  <1>1. Engine!First(S) \in S /\ \A j \in S : Engine!First(S) <= j
    BY DEF Engine!First
  <1>2. Engine!First(S) \in Nat /\ m \in Nat /\ Engine!First(S) <= m /\ m <= Engine!First(S)
    BY <1>1
  <1> QED
    BY <1>2

LEMMA FirstOf ==
    ASSUME NEW S \in SUBSET Nat, S # {}
    PROVE  Engine!First(S) \in S /\ \A j \in S : Engine!First(S) <= j
  BY LeastExists DEF Engine!First

LEMMA HoldingIs ==
    ASSUME NEW s \in Seq(Tables), NEW k
    PROVE  /\ Engine!Holding(s, k) = {i \in 1..Len(s) : k \in DOMAIN s[i].data}
           /\ Engine!Holding(s, k) \in SUBSET Nat
           /\ k \in Engine!KeysOf(s) <=> Engine!Holding(s, k) # {}
  BY DEF Engine!Holding, Engine!KeysOf

LEMMA Prepended ==
    ASSUME NEW s \in Seq(Tables), NEW t \in Tables
    PROVE  /\ <<t>> \o s \in Seq(Tables) /\ Len(<<t>> \o s) = Len(s) + 1 /\ Len(s) \in Nat
           /\ (<<t>> \o s)[1] = t
           /\ \A i \in 1..Len(s) : (<<t>> \o s)[i + 1] = s[i]
  OBVIOUS

LEMMA PrependedLookup ==
    ASSUME NEW s \in Seq(Tables), NEW t \in Tables, NEW k
    PROVE  Lookup(<<t>> \o s, k) = IF k \in DOMAIN t.data THEN t.data[k] ELSE Lookup(s, k)
  <1> DEFINE f == <<t>> \o s
  <1>1. /\ f \in Seq(Tables) /\ Len(f) = Len(s) + 1 /\ Len(s) \in Nat /\ f[1] = t
        /\ \A i \in 1..Len(s) : f[i + 1] = s[i]
    BY Prepended
  <1> HIDE DEF f
  <1>2. /\ Engine!Holding(f, k) = {i \in 1..Len(s) + 1 : k \in DOMAIN f[i].data}
        /\ Engine!Holding(s, k) = {i \in 1..Len(s) : k \in DOMAIN s[i].data}
        /\ Engine!Holding(f, k) \in SUBSET Nat /\ Engine!Holding(s, k) \in SUBSET Nat
    BY <1>1, HoldingIs
  <1>3. CASE k \in DOMAIN t.data
    <2>1. 1 \in Engine!Holding(f, k) /\ \A j \in Engine!Holding(f, k) : 1 <= j
      BY <1>1, <1>2, <1>3
    <2>2. Engine!First(Engine!Holding(f, k)) = 1
      BY <1>2, <2>1, FirstIs
    <2> QED
      BY <1>1, <1>3, <2>1, <2>2 DEF Lookup, f
  <1>4. CASE k \notin DOMAIN t.data
    <2>1. ASSUME NEW i \in Engine!Holding(s, k)
          PROVE  i + 1 \in Engine!Holding(f, k)
      BY <1>1, <1>2
    <2>2. ASSUME NEW i \in Engine!Holding(f, k)
          PROVE  i - 1 \in Engine!Holding(s, k) /\ i \in Nat
      <3>1. i \in 1..Len(s) + 1 /\ k \in DOMAIN f[i].data /\ i # 1
        BY <1>1, <1>2, <1>4
      <3>2. i - 1 \in 1..Len(s) /\ (i - 1) + 1 = i
        BY <1>1, <3>1
      <3> QED
        BY <1>1, <1>2, <3>1, <3>2
    <2>3. CASE Engine!Holding(s, k) = {}
      <3>1. Engine!Holding(f, k) = {}
        BY <2>2, <2>3
      <3> QED
        BY <1>4, <2>3, <3>1 DEF Lookup, f
    <2>4. CASE Engine!Holding(s, k) # {}
      <3> DEFINE m == Engine!First(Engine!Holding(s, k))
      <3>1. m \in Engine!Holding(s, k) /\ \A j \in Engine!Holding(s, k) : m <= j
        BY <1>2, <2>4, FirstOf
      <3> HIDE DEF m
      <3>2. m \in 1..Len(s) /\ m + 1 \in Engine!Holding(f, k)
        BY <1>2, <2>1, <3>1
      <3>3. \A j \in Engine!Holding(f, k) : m + 1 <= j
        BY <1>1, <2>2, <3>1, <3>2
      <3>4. Engine!First(Engine!Holding(f, k)) = m + 1
        BY <1>2, <3>2, <3>3, FirstIs
      <3>5. f[m + 1] = s[m]
        BY <1>1, <3>2
      <3> QED
        BY <1>4, <2>4, <3>2, <3>4, <3>5 DEF Lookup, m, f
    <2> QED
      BY <2>3, <2>4
  <1> QED
    BY <1>3, <1>4

\* In a sorted list the tables of level 0 come first.
LEMMA LevelsApart ==
    ASSUME NEW s \in Seq(Tables), Sorted(s)
    PROVE  \E n \in 0..Len(s) :
              /\ LevelAt(s, 0) = 0 + 1..n /\ LevelAt(s, 1) = n + 1..Len(s)
              /\ Cardinality(LevelAt(s, 0)) = n
  <1>1. Len(s) \in Nat /\ DOMAIN s = 1..Len(s) /\ \A i \in 1..Len(s) : s[i].level \in {0, 1}
    <2>1. \A t \in Tables : t.level \in {0, 1}
      BY DEF Tables
    <2>2. Len(s) \in Nat /\ DOMAIN s = 1..Len(s) /\ \A i \in 1..Len(s) : s[i] \in Tables
      OBVIOUS
    <2> QED
      BY <2>1, <2>2
  <1>2. LevelAt(s, 0) \in SUBSET (1..Len(s))
    BY <1>1 DEF LevelAt
  <1>3. ASSUME NEW n \in 0..Len(s), LevelAt(s, 0) = 0 + 1..n
        PROVE  LevelAt(s, 1) = n + 1..Len(s) /\ Cardinality(LevelAt(s, 0)) = n
    <2>1. Cardinality(0 + 1..n) = n - 0
      <3>1. n \in Nat /\ 0 \in Nat /\ 0 <= n
        BY <1>1
      <3> QED
        BY <3>1, NthOfStretch
    <2>2. \A i \in 1..Len(s) : i \in LevelAt(s, 0) <=> i <= n
      BY <1>1, <1>3
    <2>3. \A i \in 1..Len(s) : i \in LevelAt(s, 1) <=> i \notin LevelAt(s, 0)
      BY <1>1 DEF LevelAt
    <2>4. LevelAt(s, 1) \subseteq 1..Len(s)
      BY <1>1 DEF LevelAt
    <2>5. \A i \in n + 1..Len(s) : i \in 1..Len(s) /\ ~(i <= n)
      BY <1>1
    <2>6. \A i \in 1..Len(s) : i \in n + 1..Len(s) <=> ~(i <= n)
      BY <1>1
    <2>7. LevelAt(s, 1) = n + 1..Len(s)
      BY <2>2, <2>3, <2>4, <2>5, <2>6
    <2> QED
      BY <1>1, <1>3, <2>1, <2>7
  <1>4. CASE LevelAt(s, 0) = {}
    <2>1. 0 + 1..0 = {} /\ 0 \in 0..Len(s)
      BY <1>1
    <2> QED
      BY <1>3, <1>4, <2>1
  <1>5. CASE LevelAt(s, 0) # {}
    <2>1. PICK m \in LevelAt(s, 0) : \A k \in LevelAt(s, 0) : k <= m
      BY <1>1, <1>2, <1>5, TopExists
    <2>2. m \in 1..Len(s) /\ s[m].level = 0
      BY <1>2, <2>1 DEF LevelAt
    <2>3. ASSUME NEW i \in 1..m
          PROVE  i \in LevelAt(s, 0)
      <3>1. i \in 1..Len(s) /\ (i = m \/ i < m)
        BY <1>1, <2>2
      <3>2. i < m => s[i].level <= s[m].level
        BY <2>2, <3>1 DEF Sorted
      <3>3. s[i].level = 0
        BY <1>1, <2>2, <3>1, <3>2
      <3> QED
        BY <1>1, <3>1, <3>3 DEF LevelAt
    <2>4. LevelAt(s, 0) = 0 + 1..m
      <3>1. 0 + 1..m = 1..m /\ 1..m \subseteq LevelAt(s, 0)
        BY <2>3
      <3>2. \A k \in LevelAt(s, 0) : k \in 1..Len(s) /\ k <= m
        BY <1>2, <2>1
      <3>3. LevelAt(s, 0) \subseteq 1..m
        <4> SUFFICES ASSUME NEW k \in LevelAt(s, 0)
                     PROVE  k \in 1..m
          OBVIOUS
        <4>1. k \in Nat /\ m \in Nat /\ 1 <= k /\ k <= m
          BY <1>1, <2>2, <3>2
        <4> QED
          BY <4>1
      <3> QED
        BY <3>1, <3>3
    <2>5. m \in 0..Len(s)
      BY <1>1, <2>2
    <2> QED
      BY <1>3, <2>4, <2>5
  <1> QED
    BY <1>4, <1>5

\* The tables of a level are a stretch of a sorted list.
LEMMA LevelLists ==
    ASSUME NEW s \in Seq(Tables), Sorted(s), NEW n \in 0..Len(s),
           LevelAt(s, 0) = 0 + 1..n, LevelAt(s, 1) = n + 1..Len(s)
    PROVE  /\ Engine!Level(s, 0) \in Seq(Tables) /\ Len(Engine!Level(s, 0)) = n
           /\ Engine!Level(s, 1) \in Seq(Tables) /\ Len(Engine!Level(s, 1)) = Len(s) - n
           /\ \A i \in 1..n : Engine!Level(s, 0)[i] = s[i]
           /\ \A i \in 1..Len(s) - n : Engine!Level(s, 1)[i] = s[n + i]
  <1>1. \A T : Engine!Cardinality(T) = Cardinality(T)
    BY DEF Engine!Cardinality, Cardinality
  <1>2. ASSUME NEW l \in {0, 1}
        PROVE  Engine!Level(s, l) = [i \in 1..Cardinality(LevelAt(s, l)) |-> s[Nth(LevelAt(s, l), i)]]
    <2> DEFINE I == LevelAt(s, l)
               W(i) == CHOOSE k \in I : Engine!Cardinality({j \in I : j <= k}) = i
    <2>1. Engine!Level(s, l) = [i \in 1..Engine!Cardinality(I) |-> s[W(i)]]
      BY DEF Engine!Level, LevelAt
    <2>2. \A i \in 1..Cardinality(I) : W(i) = Nth(I, i)
      BY <1>1 DEF Nth
    <2> HIDE DEF W
    <2> QED
      BY <1>1, <2>1, <2>2
  <1>3. Len(s) \in Nat /\ n \in Nat /\ 0 \in Nat /\ 0 <= n /\ n <= Len(s)
    OBVIOUS
  <1>4. /\ Cardinality(LevelAt(s, 0)) = n /\ \A i \in 1..n : Nth(LevelAt(s, 0), i) = i
        /\ Cardinality(LevelAt(s, 1)) = Len(s) - n
        /\ \A i \in 1..Len(s) - n : Nth(LevelAt(s, 1), i) = n + i
    <2>1. Cardinality(0 + 1..n) = n - 0 /\ \A i \in 1..n - 0 : Nth(0 + 1..n, i) = 0 + i
      BY <1>3, NthOfStretch
    <2>2. /\ Cardinality(n + 1..Len(s)) = Len(s) - n
          /\ \A i \in 1..Len(s) - n : Nth(n + 1..Len(s), i) = n + i
      BY <1>3, NthOfStretch
    <2>3. n - 0 = n /\ \A i \in 1..n : 0 + i = i
      OBVIOUS
    <2> QED
      BY <2>1, <2>2, <2>3
  <1>5. Engine!Level(s, 0) = [i \in 1..n |-> s[i]]
    BY <1>2, <1>4
  <1>6. Engine!Level(s, 1) = [i \in 1..Len(s) - n |-> s[n + i]]
    BY <1>2, <1>4
  <1>7. \A i \in 1..n : s[i] \in Tables
    BY <1>3
  <1>8. \A i \in 1..Len(s) - n : s[n + i] \in Tables
    <2> SUFFICES ASSUME NEW i \in 1..Len(s) - n
                 PROVE  s[n + i] \in Tables
      OBVIOUS
    <2>1. n + i \in 1..Len(s)
      BY <1>3
    <2> QED
      BY <2>1
  <1>9. Len(s) - n \in Nat
    BY <1>3
  <1>10. /\ [i \in 1..n |-> s[i]] \in Seq(Tables) /\ Len([i \in 1..n |-> s[i]]) = n
    BY <1>3, <1>7
  <1>11. /\ [i \in 1..Len(s) - n |-> s[n + i]] \in Seq(Tables)
         /\ Len([i \in 1..Len(s) - n |-> s[n + i]]) = Len(s) - n
    BY <1>8, <1>9
  <1> QED
    BY <1>5, <1>6, <1>10, <1>11

\* Merging level 0 and reading level 1 after it finds what a read of the list finds.
LEMMA LevelsLookup ==
    ASSUME NEW s \in Seq(Tables), Sorted(s), NEW k
    PROVE  Lookup(s, k) =
               IF k \in Engine!KeysOf(Engine!Level(s, 0)) THEN Engine!Merge(Engine!Level(s, 0))[k]
               ELSE Lookup(Engine!Level(s, 1), k)
  <1>1. PICK n \in 0..Len(s) : LevelAt(s, 0) = 0 + 1..n /\ LevelAt(s, 1) = n + 1..Len(s)
    BY LevelsApart
  <1> DEFINE l0 == Engine!Level(s, 0)
             l1 == Engine!Level(s, 1)
  <1>2. /\ l0 \in Seq(Tables) /\ Len(l0) = n /\ l1 \in Seq(Tables) /\ Len(l1) = Len(s) - n
        /\ \A i \in 1..n : l0[i] = s[i]
        /\ \A i \in 1..Len(s) - n : l1[i] = s[n + i]
    BY <1>1, LevelLists
  <1>3. Len(s) \in Nat /\ n \in Nat /\ n <= Len(s)
    OBVIOUS
  <1>4. k \in Engine!KeysOf(l0) => Engine!Merge(l0)[k] = l0[Engine!First(Engine!Holding(l0, k))].data[k]
    BY DEF Engine!Merge
  <1> HIDE DEF l0, l1
  <1>5. /\ Engine!Holding(s, k) = {i \in 1..Len(s) : k \in DOMAIN s[i].data}
        /\ Engine!Holding(l0, k) = {i \in 1..n : k \in DOMAIN l0[i].data}
        /\ Engine!Holding(l1, k) = {i \in 1..Len(s) - n : k \in DOMAIN l1[i].data}
        /\ k \in Engine!KeysOf(l0) <=> Engine!Holding(l0, k) # {}
    BY <1>2, HoldingIs
  <1>6. \A i \in 1..n : i \in Engine!Holding(l0, k) <=> i \in Engine!Holding(s, k)
    BY <1>2, <1>3, <1>5
  <1>7. \A i \in 1..Len(s) - n : i \in Engine!Holding(l1, k) <=> n + i \in Engine!Holding(s, k)
    BY <1>2, <1>3, <1>5
  <1>8. /\ Engine!Holding(s, k) \in SUBSET Nat /\ Engine!Holding(l0, k) \in SUBSET Nat
        /\ Engine!Holding(l1, k) \in SUBSET Nat
    BY <1>3, <1>5
  <1>9. CASE Engine!Holding(l0, k) # {}
    <2> DEFINE m == Engine!First(Engine!Holding(l0, k))
    <2>1. m \in Engine!Holding(l0, k) /\ \A j \in Engine!Holding(l0, k) : m <= j
      BY <1>8, <1>9, FirstOf
    <2> HIDE DEF m
    <2>2. m \in 1..n /\ m \in Engine!Holding(s, k)
      BY <1>5, <1>6, <2>1
    <2>3. ASSUME NEW j \in Engine!Holding(s, k)
          PROVE  m <= j
      <3>1. j \in 1..Len(s) /\ (j \in 1..n \/ n < j)
        BY <1>3, <1>5
      <3> QED
        BY <1>3, <1>6, <2>1, <2>2, <3>1
    <2>4. Engine!First(Engine!Holding(s, k)) = m
      BY <1>8, <2>2, <2>3, FirstIs
    <2>5. Lookup(s, k) = s[m].data[k]
      BY <2>2, <2>4 DEF Lookup
    <2>6. l0[m] = s[m]
      BY <1>2, <2>2
    <2> QED
      BY <1>4, <1>5, <1>9, <2>5, <2>6 DEF m, l0
  <1>10. CASE Engine!Holding(l0, k) = {}
    <2>1. ASSUME NEW j \in Engine!Holding(s, k)
          PROVE  j - n \in Engine!Holding(l1, k) /\ j \in Nat
      <3>1. j \in 1..Len(s) /\ j \notin 1..n
        BY <1>5, <1>6, <1>10
      <3>2. j - n \in 1..Len(s) - n /\ n + (j - n) = j
        BY <1>3, <3>1
      <3> QED
        BY <1>7, <3>1, <3>2
    <2>2. CASE Engine!Holding(l1, k) = {}
      <3>1. Engine!Holding(s, k) = {}
        BY <2>1, <2>2
      <3> QED
        BY <1>5, <1>10, <2>2, <3>1 DEF Lookup, l0, l1
    <2>3. CASE Engine!Holding(l1, k) # {}
      <3> DEFINE m == Engine!First(Engine!Holding(l1, k))
      <3>1. m \in Engine!Holding(l1, k) /\ \A j \in Engine!Holding(l1, k) : m <= j
        BY <1>8, <2>3, FirstOf
      <3> HIDE DEF m
      <3>2. m \in 1..Len(s) - n /\ n + m \in Engine!Holding(s, k)
        BY <1>5, <1>7, <3>1
      <3>3. \A j \in Engine!Holding(s, k) : n + m <= j
        BY <1>3, <2>1, <3>1, <3>2
      <3>4. Engine!First(Engine!Holding(s, k)) = n + m
        BY <1>8, <3>2, <3>3, FirstIs
      <3>5. l1[m] = s[n + m] /\ Lookup(s, k) = s[n + m].data[k] /\ Lookup(l1, k) = l1[m].data[k]
        BY <1>2, <2>3, <3>2, <3>4 DEF Lookup, m
      <3> QED
        BY <1>5, <1>10, <3>5 DEF l0, l1
    <2> QED
      BY <2>2, <2>3
  <1> QED
    BY <1>9, <1>10

\* A compaction keeps every key whose first entry is a value.
LEMMA CompactedLookup ==
    ASSUME NEW s \in Seq(Tables), Sorted(s), NEW wrong \in SUBSET LsmKeys
    PROVE  /\ Engine!SSTable(1, Engine!Live(Engine!Merge(Engine!Level(s, 0))), wrong) \in Tables
           /\ Engine!CompactLevel0(s, wrong) \in Seq(Tables)
           /\ \A i \in 1..Len(Engine!CompactLevel0(s, wrong)) :
                 /\ Engine!CompactLevel0(s, wrong)[i].level = 1
                 /\ \A k \in DOMAIN Engine!CompactLevel0(s, wrong)[i].data :
                       k \in Engine!KeysOf(s)
           /\ \A k : Lookup(s, k) # Engine!Tombstone =>
                     Lookup(Engine!CompactLevel0(s, wrong), k) = Lookup(s, k)
           /\ DOMAIN Engine!CompactLevel0(s, wrong)[1].data \subseteq
                  Engine!KeysOf(Engine!Level(s, 0))
  <1>1. PICK n \in 0..Len(s) : LevelAt(s, 0) = 0 + 1..n /\ LevelAt(s, 1) = n + 1..Len(s)
    BY LevelsApart
  <1> DEFINE l0 == Engine!Level(s, 0)
             l1 == Engine!Level(s, 1)
             kept == Engine!Live(Engine!Merge(l0))
             t == Engine!SSTable(1, kept, wrong)
  <1>2. /\ l0 \in Seq(Tables) /\ Len(l0) = n /\ l1 \in Seq(Tables) /\ Len(l1) = Len(s) - n
        /\ \A i \in 1..n : l0[i] = s[i]
        /\ \A i \in 1..Len(s) - n : l1[i] = s[n + i]
    BY <1>1, LevelLists
  <1>3. \A k : Lookup(s, k) = IF k \in Engine!KeysOf(l0) THEN Engine!Merge(l0)[k] ELSE Lookup(l1, k)
    BY LevelsLookup
  <1>4. Engine!CompactLevel0(s, wrong) = <<t>> \o l1
    BY DEF Engine!CompactLevel0
  <1>5. DOMAIN kept = {k \in Engine!KeysOf(l0) : Engine!Merge(l0)[k] # Engine!Tombstone}
    BY DEF Engine!Live, Engine!Merge, Engine!Restrict
  <1>6. \A k \in DOMAIN kept : kept[k] = Engine!Merge(l0)[k]
    BY DEF Engine!Live, Engine!Merge, Engine!Restrict
  <1>7. ASSUME NEW k \in Engine!KeysOf(l0)
        PROVE  Engine!Merge(l0)[k] \in LsmValues \cup {Engine!Tombstone} /\ k \in LsmKeys
    <2>1. Engine!Merge(l0)[k] = l0[Engine!First(Engine!Holding(l0, k))].data[k]
      BY DEF Engine!Merge
    <2> HIDE DEF l0
    <2>2. Engine!Holding(l0, k) # {} /\ Engine!Holding(l0, k) \in SUBSET Nat
      <3>1. k \in Engine!KeysOf(l0) <=> Engine!Holding(l0, k) # {}
        BY <1>2, HoldingIs
      <3>2. Engine!Holding(l0, k) \in SUBSET Nat
        BY <1>2, HoldingIs
      <3>3. k \in Engine!KeysOf(l0)
        BY DEF l0
      <3> QED
        BY <3>1, <3>2, <3>3
    <2>3. Engine!First(Engine!Holding(l0, k)) \in Engine!Holding(l0, k)
      BY <2>2, FirstOf
    <2>4. PICK i \in 1..n : i = Engine!First(Engine!Holding(l0, k)) /\ k \in DOMAIN l0[i].data
      <3>1. Engine!Holding(l0, k) = {i \in 1..n : k \in DOMAIN l0[i].data}
        BY <1>2, HoldingIs
      <3> QED
        BY <2>3, <3>1
    <2>5. l0[i].data \in LsmEntries
      <3>1. l0[i] \in Tables
        BY <1>2
      <3> QED
        BY <3>1 DEF Tables
    <2> QED
      BY <2>1, <2>4, <2>5, EntriesOf
  <1>8. kept \in LsmEntries
    <2>1. kept = [k \in DOMAIN kept |-> kept[k]]
      BY DEF Engine!Live, Engine!Merge, Engine!Restrict
    <2>2. \A k \in DOMAIN kept : kept[k] \in LsmValues \cup {Engine!Tombstone} /\ k \in LsmKeys
      BY <1>5, <1>6, <1>7
    <2> HIDE DEF kept
    <2> QED
      BY <2>1, <2>2, EntriesOf
  <1> HIDE DEF l0, l1, kept
  <1>9. t \in Tables /\ t.data = kept /\ t.level = 1
    <2>1. DOMAIN kept \in SUBSET LsmKeys
      BY <1>8, EntriesOf
    <2> QED
      BY <1>8, <2>1 DEF Engine!SSTable, Tables
  <1>10. DOMAIN kept \subseteq Engine!KeysOf(s)
    <2> SUFFICES ASSUME NEW k \in Engine!KeysOf(l0)
                 PROVE  k \in Engine!KeysOf(s)
      BY <1>5
    <2>1. PICK i \in 1..n : k \in DOMAIN l0[i].data
      BY <1>2 DEF Engine!KeysOf
    <2>2. i \in 1..Len(s) /\ l0[i] = s[i]
      BY <1>2
    <2> QED
      BY <2>1, <2>2 DEF Engine!KeysOf
  <1>11. ASSUME NEW i \in 1..Len(l1)
         PROVE  l1[i].level = 1 /\ \A k \in DOMAIN l1[i].data : k \in Engine!KeysOf(s)
    <2>1. n + i \in 1..Len(s) /\ n + i \in n + 1..Len(s) /\ l1[i] = s[n + i]
      BY <1>2
    <2> QED
      BY <1>1, <2>1 DEF LevelAt, Engine!KeysOf
  <1> HIDE DEF t
  <1>12. /\ <<t>> \o l1 \in Seq(Tables) /\ Len(<<t>> \o l1) = Len(l1) + 1 /\ Len(l1) \in Nat
         /\ (<<t>> \o l1)[1] = t
         /\ \A i \in 1..Len(l1) : (<<t>> \o l1)[i + 1] = l1[i]
    BY <1>2, <1>9, Prepended
  <1>13. ASSUME NEW i \in 1..Len(<<t>> \o l1)
         PROVE  /\ (<<t>> \o l1)[i].level = 1
                /\ \A k \in DOMAIN (<<t>> \o l1)[i].data : k \in Engine!KeysOf(s)
    <2>1. CASE i = 1
      BY <1>9, <1>10, <1>12, <2>1
    <2>2. CASE i # 1
      <3>1. i - 1 \in 1..Len(l1) /\ (i - 1) + 1 = i
        BY <1>12, <2>2
      <3>2. (<<t>> \o l1)[i] = l1[i - 1]
        BY <1>12, <3>1
      <3> QED
        BY <1>11, <3>1, <3>2
    <2> QED
      BY <2>1, <2>2
  <1>14. ASSUME NEW k, Lookup(s, k) # Engine!Tombstone
         PROVE  Lookup(<<t>> \o l1, k) = Lookup(s, k)
    <2>1. Lookup(<<t>> \o l1, k) = IF k \in DOMAIN kept THEN kept[k] ELSE Lookup(l1, k)
      BY <1>2, <1>9, PrependedLookup
    <2> QED
      BY <1>3, <1>5, <1>6, <1>14, <2>1
  <1>15. DOMAIN (<<t>> \o l1)[1].data \subseteq Engine!KeysOf(l0)
    BY <1>5, <1>9, <1>12
  <1> QED
    BY <1>4, <1>9, <1>12, <1>13, <1>14, <1>15 DEF l0, l1, kept, t

\* The filter of a table has all its keys, the merged table's too.
LEMMA CompactedBlooms ==
    ASSUME NEW s \in Seq(Tables), Sorted(s), NEW wrong \in SUBSET LsmKeys,
           \A i \in 1..Len(s) : DOMAIN s[i].data \subseteq s[i].bloom
    PROVE  \A i \in 1..Len(Engine!CompactLevel0(s, wrong)) :
              DOMAIN Engine!CompactLevel0(s, wrong)[i].data
                  \subseteq Engine!CompactLevel0(s, wrong)[i].bloom
  <1>1. PICK n \in 0..Len(s) : LevelAt(s, 0) = 0 + 1..n /\ LevelAt(s, 1) = n + 1..Len(s)
    BY LevelsApart
  <1> DEFINE l1 == Engine!Level(s, 1)
             t == Engine!SSTable(1, Engine!Live(Engine!Merge(Engine!Level(s, 0))), wrong)
             c == <<t>> \o l1
  <1>2. /\ l1 \in Seq(Tables) /\ Len(l1) = Len(s) - n
        /\ \A i \in 1..Len(s) - n : l1[i] = s[n + i]
    BY <1>1, LevelLists
  <1>3. t \in Tables /\ Engine!CompactLevel0(s, wrong) = c
    BY CompactedLookup DEF Engine!CompactLevel0
  <1>4. DOMAIN t.data \subseteq t.bloom
    BY DEF Engine!SSTable
  <1> HIDE DEF l1, t
  <1>5. /\ Len(c) = Len(l1) + 1 /\ Len(l1) \in Nat /\ c[1] = t
        /\ \A i \in 1..Len(l1) : c[i + 1] = l1[i]
    BY <1>2, <1>3, Prepended
  <1> HIDE DEF c
  <1>6. ASSUME NEW i \in 1..Len(c)
        PROVE  DOMAIN c[i].data \subseteq c[i].bloom
    <2>1. CASE i = 1
      BY <1>4, <1>5, <2>1
    <2>2. CASE i # 1
      <3>1. i - 1 \in 1..Len(l1) /\ (i - 1) + 1 = i /\ n + (i - 1) \in 1..Len(s)
        BY <1>2, <1>5, <2>2
      <3>2. c[i] = l1[i - 1] /\ l1[i - 1] = s[n + (i - 1)]
        BY <1>2, <1>5, <3>1
      <3> QED
        BY <3>1, <3>2
    <2> QED
      BY <2>1, <2>2
  <1> QED
    BY <1>3, <1>6

\* What level 0 holds, a table told by how many were there before it.
Filed(tables) ==
    {p \in Nat \X LsmKeys : \E i \in 1..Len(tables) :
        /\ p[1] = Len(tables) - i /\ tables[i].level = 0
        /\ p[2] \in DOMAIN tables[i].data}

\* What the memtable m, the tables s, what was written last and the two counters have to
\* do with each other.  No entry of the memtable or of level 0 has been written to disk more
\* than once: the flush and the compaction that are to come are paid for.
LsmAt(m, s, last, logical, physical) ==
    /\ m \in LsmEntries /\ last \in LsmEntries /\ DOMAIN m \subseteq DOMAIN last
    /\ s \in Seq(Tables) /\ Sorted(s)
    /\ \A i \in 1..Len(s) : /\ DOMAIN s[i].data \subseteq s[i].bloom
                            /\ DOMAIN s[i].data \subseteq DOMAIN last
    /\ \A k \in DOMAIN last : last[k] # Engine!Tombstone =>
         last[k] = IF k \in DOMAIN m THEN m[k] ELSE Lookup(s, k)
    /\ Cardinality(LevelAt(s, 0)) < L0Threshold
    /\ logical \in Nat /\ physical \in Nat
    /\ physical + 2 * Cardinality(DOMAIN m) + Cardinality(Filed(s)) <= 2 * logical

LsmInv == LsmAt(memtable, sstables, latest, logicalWrites, physicalWrites)

LEMMA FiledFinite ==
    ASSUME NEW s \in Seq(Tables)
    PROVE  IsFiniteSet(Filed(s)) /\ Cardinality(Filed(s)) \in Nat
  <1>1. IsFiniteSet(0..Len(s)) /\ IsFiniteSet(LsmKeys)
    <2>1. Len(s) \in Int /\ 0 \in Int
      OBVIOUS
    <2>2. Engine!IsFiniteSet(LsmKeys) <=> IsFiniteSet(LsmKeys)
      BY DEF Engine!IsFiniteSet, IsFiniteSet
    <2> QED
      BY <2>1, FS_Interval, MCAssumption DEF LsmAssumed
  <1>2. IsFiniteSet((0..Len(s)) \X LsmKeys)
    BY <1>1, FS_Product
  <1>3. Filed(s) \in SUBSET ((0..Len(s)) \X LsmKeys)
    <2> SUFFICES ASSUME NEW p \in Filed(s)
                 PROVE  p \in (0..Len(s)) \X LsmKeys
      OBVIOUS
    <2>1. PICK i \in 1..Len(s) : p[1] = Len(s) - i
      BY DEF Filed
    <2>2. p \in Nat \X LsmKeys /\ p[1] \in 0..Len(s)
      BY <2>1 DEF Filed
    <2> QED
      BY <2>2
  <1> QED
    BY <1>2, <1>3, FS_Subset, FS_CardinalityType

\* A table of level 0 files its entries beside those of the tables before it.
LEMMA FiledMore ==
    ASSUME NEW s \in Seq(Tables), NEW t \in Tables, t.level = 0, IsFiniteSet(DOMAIN t.data)
    PROVE  Cardinality(Filed(<<t>> \o s)) = Cardinality(DOMAIN t.data) + Cardinality(Filed(s))
  <1> DEFINE f == <<t>> \o s
             new == {Len(s)} \X DOMAIN t.data
  <1>1. /\ f \in Seq(Tables) /\ Len(f) = Len(s) + 1 /\ Len(s) \in Nat /\ f[1] = t
        /\ \A i \in 1..Len(s) : f[i + 1] = s[i]
    BY Prepended
  <1> HIDE DEF f
  <1>2. DOMAIN t.data \in SUBSET LsmKeys
    BY EntriesOf DEF Tables
  <1>3. ASSUME NEW p \in Filed(f)
        PROVE  p \in new \/ p \in Filed(s)
    <2>1. PICK i \in 1..Len(f) :
             p[1] = Len(f) - i /\ f[i].level = 0 /\ p[2] \in DOMAIN f[i].data
      BY DEF Filed
    <2>2. p \in Nat \X LsmKeys
      BY DEF Filed
    <2>3. CASE i = 1
      BY <1>1, <2>1, <2>2, <2>3
    <2>4. CASE i # 1
      <3>1. i - 1 \in 1..Len(s) /\ (i - 1) + 1 = i /\ Len(f) - i = Len(s) - (i - 1)
        BY <1>1, <2>4
      <3>2. f[i] = s[i - 1]
        BY <1>1, <3>1
      <3> QED
        BY <2>1, <2>2, <3>1, <3>2 DEF Filed
    <2> QED
      BY <2>3, <2>4
  <1>4. ASSUME NEW p \in new
        PROVE  p \in Filed(f)
    <2>1. p \in Nat \X LsmKeys /\ p[1] = Len(s) /\ p[2] \in DOMAIN t.data
      BY <1>1, <1>2
    <2>2. 1 \in 1..Len(f) /\ p[1] = Len(f) - 1
      BY <1>1, <2>1
    <2> QED
      BY <1>1, <2>1, <2>2 DEF Filed
  <1>5. ASSUME NEW p \in Filed(s)
        PROVE  p \in Filed(f) /\ p \notin new
    <2>1. PICK i \in 1..Len(s) :
             p[1] = Len(s) - i /\ s[i].level = 0 /\ p[2] \in DOMAIN s[i].data
      BY DEF Filed
    <2>2. p \in Nat \X LsmKeys
      BY DEF Filed
    <2>3. i + 1 \in 1..Len(f) /\ Len(f) - (i + 1) = Len(s) - i /\ Len(s) - i # Len(s)
      BY <1>1
    <2> QED
      BY <1>1, <2>1, <2>2, <2>3 DEF Filed
  <1>6. Filed(f) = new \cup Filed(s) /\ new \cap Filed(s) = {}
    BY <1>3, <1>4, <1>5
  <1>7. IsFiniteSet(new) /\ Cardinality(new) = Cardinality(DOMAIN t.data)
    <2>1. IsFiniteSet({Len(s)}) /\ Cardinality({Len(s)}) = 1
      BY FS_Singleton
    <2>2. Cardinality(DOMAIN t.data) \in Nat
      BY FS_CardinalityType
    <2>3. IsFiniteSet(new) /\ Cardinality(new) = Cardinality({Len(s)}) * Cardinality(DOMAIN t.data)
      BY <2>1, FS_Product
    <2> QED
      BY <2>1, <2>2, <2>3
  <1> HIDE DEF new
  <1>8. Cardinality(Filed(f)) = Cardinality(new) + Cardinality(Filed(s))
    BY <1>6, <1>7, FiledFinite, CountingApart
  <1> QED
    BY <1>7, <1>8 DEF f

\* The merged table has no more entries than level 0.
LEMMA MergedIsSmaller ==
    ASSUME NEW s \in Seq(Tables), Sorted(s)
    PROVE  /\ IsFiniteSet(Engine!KeysOf(Engine!Level(s, 0)))
           /\ Cardinality(Engine!KeysOf(Engine!Level(s, 0))) <= Cardinality(Filed(s))
  <1> DEFINE l0 == Engine!Level(s, 0)
             key(p) == p[2]
             S == Filed(s)
             image == {key(p) : p \in S}
  <1>1. PICK n \in 0..Len(s) : LevelAt(s, 0) = 0 + 1..n /\ LevelAt(s, 1) = n + 1..Len(s)
    BY LevelsApart
  <1>2. l0 \in Seq(Tables) /\ Len(l0) = n /\ \A i \in 1..n : l0[i] = s[i]
    BY <1>1, LevelLists
  <1> HIDE DEF l0
  <1>3. ASSUME NEW k \in Engine!KeysOf(l0)
        PROVE  k \in image
    <2>1. PICK i \in 1..n : k \in DOMAIN l0[i].data
      BY <1>2 DEF Engine!KeysOf
    <2>2. i \in 1..Len(s) /\ l0[i] = s[i] /\ Len(s) - i \in Nat /\ i \in 0 + 1..n
      BY <1>2
    <2>3. s[i].level = 0 /\ s[i] \in Tables
      BY <1>1, <2>2 DEF LevelAt
    <2>4. k \in LsmKeys
      BY <2>1, <2>2, <2>3, EntriesOf DEF Tables
    <2>5. <<Len(s) - i, k>> \in S /\ key(<<Len(s) - i, k>>) = k
      BY <2>1, <2>2, <2>3, <2>4 DEF Filed
    <2> QED
      BY <2>5
  <1>4. IsFiniteSet(S) /\ Cardinality(S) \in Nat
    BY FiledFinite
  <1>5. IsFiniteSet(image) /\ Cardinality(image) <= Cardinality(S) /\ Cardinality(image) \in Nat
    <2> DEFINE g == [p \in S |-> p[2]]
    <2>1. g \in Surjection(S, image)
      BY DEF Surjection
    <2> HIDE DEF g, S, image
    <2> QED
      BY <1>4, <2>1, FS_Surjection, FS_CardinalityType
  <1>6. Engine!KeysOf(l0) \in SUBSET image
    BY <1>3
  <1> HIDE DEF image, S
  <1>7. /\ IsFiniteSet(Engine!KeysOf(l0)) /\ Cardinality(Engine!KeysOf(l0)) <= Cardinality(image)
        /\ Cardinality(Engine!KeysOf(l0)) \in Nat
    BY <1>5, <1>6, FS_Subset, FS_CardinalityType
  <1> QED
    BY <1>4, <1>5, <1>7 DEF l0, S

LEMMA EngineCardinality == \A T : Engine!Cardinality(T) = Cardinality(T)
  BY DEF Engine!Cardinality, Cardinality

LEMMA NoEntries == <<>> \in LsmEntries /\ DOMAIN <<>> = {}
  <1>1. DOMAIN <<>> = {} /\ <<>> \in [DOMAIN <<>> -> LsmValues \cup {Engine!Tombstone}]
    OBVIOUS
  <1> QED
    BY <1>1, EntriesOf

LEMMA EntriesFinite ==
    ASSUME NEW m \in LsmEntries
    PROVE  IsFiniteSet(DOMAIN m) /\ Cardinality(DOMAIN m) \in Nat
  <1>1. Engine!IsFiniteSet(LsmKeys) <=> IsFiniteSet(LsmKeys)
    BY DEF Engine!IsFiniteSet, IsFiniteSet
  <1>2. DOMAIN m \in SUBSET LsmKeys
    BY EntriesOf
  <1> QED
    BY <1>1, <1>2, MCAssumption, FS_Subset, FS_CardinalityType DEF LsmAssumed

Over(m, k, v) == Engine!Overwrite(m, [x \in {k} |-> v])

LEMMA WrittenOver ==
    ASSUME NEW m \in LsmEntries, NEW k \in LsmKeys, NEW v \in LsmValues \cup {Engine!Tombstone}
    PROVE  /\ Over(m, k, v) \in LsmEntries /\ DOMAIN Over(m, k, v) = DOMAIN m \cup {k} /\ Over(m, k, v)[k] = v
           /\ \A j \in DOMAIN m : j # k => Over(m, k, v)[j] = m[j]
           /\ Cardinality(DOMAIN Over(m, k, v)) <= Cardinality(DOMAIN m) + 1
  <1> DEFINE w == Over(m, k, v)
  <1>1. w = [j \in DOMAIN m \cup {k} |-> IF j = k THEN v ELSE m[j]]
    BY DEF Over, Engine!Overwrite
  <1> HIDE DEF w
  <1>2. m \in [DOMAIN m -> LsmValues \cup {Engine!Tombstone}] /\ DOMAIN m \in SUBSET LsmKeys
    BY EntriesOf
  <1>3. DOMAIN w = DOMAIN m \cup {k} /\ w \in [DOMAIN w -> LsmValues \cup {Engine!Tombstone}]
    BY <1>1, <1>2
  <1>4. w \in LsmEntries
    BY <1>2, <1>3, EntriesOf
  <1>5. Cardinality(DOMAIN w) <= Cardinality(DOMAIN m) + 1
    <2> DEFINE D == DOMAIN m
    <2>1. IsFiniteSet(D) /\ Cardinality(D) \in Nat
      <3>1. IsFiniteSet(DOMAIN m) /\ Cardinality(DOMAIN m) \in Nat
        BY ONLY m \in LsmEntries, EntriesFinite
      <3> QED
        BY <3>1
    <2> HIDE DEF D
    <2>2. Cardinality(D \cup {k}) = IF k \in D THEN Cardinality(D) ELSE Cardinality(D) + 1
      BY <2>1, FS_AddElement
    <2>3. Cardinality(D \cup {k}) <= Cardinality(D) + 1
      BY <2>1, <2>2
    <2> QED
      BY <1>3, <2>3 DEF D
  <1> QED
    BY <1>1, <1>3, <1>4, <1>5 DEF w

\* A flush, with the compaction it may trigger, of a memtable that fits the tables.
LEMMA FlushKeeps ==
    ASSUME NEW m, NEW last, NEW logical, LsmAt(m, sstables, last, logical, physicalWrites),
           NEW wrong \in SUBSET LsmKeys, Engine!Flush(m, wrong)
    PROVE  LsmAt(memtable', sstables', last, logical, physicalWrites')
  <1> DEFINE t == Engine!SSTable(0, m, wrong)
             f == <<t>> \o sstables
             c == Engine!CompactLevel0(f, wrong)
             full == Len(Engine!Level(f, 0)) >= L0Threshold
             new == IF full THEN Cardinality(DOMAIN c[1].data) ELSE 0
  <1>1. /\ m \in LsmEntries /\ last \in LsmEntries /\ DOMAIN m \subseteq DOMAIN last
        /\ sstables \in Seq(Tables) /\ Sorted(sstables)
        /\ \A i \in 1..Len(sstables) : /\ DOMAIN sstables[i].data \subseteq sstables[i].bloom
                                       /\ DOMAIN sstables[i].data \subseteq DOMAIN last
        /\ \A k \in DOMAIN last : last[k] # Engine!Tombstone =>
             last[k] = IF k \in DOMAIN m THEN m[k] ELSE Lookup(sstables, k)
        /\ logical \in Nat /\ physicalWrites \in Nat
        /\ physicalWrites + 2 * Cardinality(DOMAIN m) + Cardinality(Filed(sstables)) <= 2 * logical
    BY DEF LsmAt
  <1>2. /\ memtable' = <<>> /\ sstables' = IF full THEN c ELSE f
        /\ physicalWrites' = physicalWrites + Cardinality(DOMAIN m) + new
    BY EngineCardinality DEF Engine!Flush
  <1>3. t \in Tables /\ t.data = m /\ t.level = 0 /\ DOMAIN m \subseteq t.bloom
    <2>1. DOMAIN m \in SUBSET LsmKeys
      BY <1>1, EntriesOf
    <2> QED
      BY <1>1, <2>1 DEF Engine!SSTable, Tables
  <1>4. IsFiniteSet(DOMAIN m) /\ Cardinality(DOMAIN m) \in Nat
    BY <1>1, EntriesFinite
  <1>5. Cardinality(Filed(f)) = Cardinality(DOMAIN m) + Cardinality(Filed(sstables))
    BY <1>1, <1>3, <1>4, FiledMore
  <1>6. \A k : Lookup(f, k) = IF k \in DOMAIN m THEN m[k] ELSE Lookup(sstables, k)
    BY <1>1, <1>3, PrependedLookup
  <1>7. /\ f \in Seq(Tables) /\ Len(f) = Len(sstables) + 1 /\ Len(sstables) \in Nat /\ f[1] = t
        /\ \A i \in 1..Len(sstables) : f[i + 1] = sstables[i]
    BY <1>1, <1>3, Prepended
  <1> HIDE DEF t, f
  <1>8. \A i \in 1..Len(f) : i # 1 => i - 1 \in 1..Len(sstables) /\ f[i] = sstables[i - 1]
    <2> SUFFICES ASSUME NEW i \in 1..Len(f), i # 1
                 PROVE  i - 1 \in 1..Len(sstables) /\ f[i] = sstables[i - 1]
      OBVIOUS
    <2>1. i - 1 \in 1..Len(sstables) /\ (i - 1) + 1 = i
      BY <1>7
    <2> QED
      BY <1>7, <2>1
  <1>9. \A i \in 1..Len(f) : /\ DOMAIN f[i].data \subseteq f[i].bloom
                             /\ DOMAIN f[i].data \subseteq DOMAIN last
    <2> SUFFICES ASSUME NEW i \in 1..Len(f)
                 PROVE  /\ DOMAIN f[i].data \subseteq f[i].bloom
                        /\ DOMAIN f[i].data \subseteq DOMAIN last
      OBVIOUS
    <2> QED
      BY <1>1, <1>3, <1>7, <1>8
  <1>10. Sorted(f)
    <2> SUFFICES ASSUME NEW i \in 1..Len(f), NEW j \in 1..Len(f), i < j
                 PROVE  f[i].level <= f[j].level
      BY DEF Sorted
    <2>1. f[j] \in Tables
      BY <1>7
    <2>2. f[j].level \in {0, 1} /\ j # 1
      BY <2>1 DEF Tables
    <2>3. CASE i = 1
      BY <1>3, <1>7, <2>2, <2>3
    <2>4. CASE i # 1
      <3>1. i - 1 < j - 1
        BY <1>7
      <3> QED
        BY <1>1, <1>8, <2>2, <2>4, <3>1 DEF Sorted
    <2> QED
      BY <2>3, <2>4
  <1>11. memtable' \in LsmEntries /\ DOMAIN memtable' = {} /\ Cardinality(DOMAIN memtable') = 0
    BY <1>2, NoEntries, FS_EmptySet
  <1>12. Cardinality(Filed(sstables)) \in Nat
    BY <1>1, FiledFinite
  <1>13. \A k \in DOMAIN last : last[k] # Engine!Tombstone => Lookup(f, k) = last[k]
    BY <1>1, <1>6
  <1>14. CASE ~full
    <2>1. PICK n \in 0..Len(f) :
             /\ LevelAt(f, 0) = 0 + 1..n /\ LevelAt(f, 1) = n + 1..Len(f)
             /\ Cardinality(LevelAt(f, 0)) = n
      BY <1>7, <1>10, LevelsApart
    <2>2. Len(Engine!Level(f, 0)) = n
      BY <1>7, <1>10, <2>1, LevelLists
    <2>3. Cardinality(LevelAt(f, 0)) < L0Threshold
      BY <1>14, <2>1, <2>2, MCAssumption DEF LsmAssumed
    <2>4. sstables' = f /\ physicalWrites' = physicalWrites + Cardinality(DOMAIN m)
      BY <1>1, <1>2, <1>4, <1>14
    <2>5. /\ physicalWrites' \in Nat
          /\ physicalWrites' + 2 * Cardinality(DOMAIN memtable') + Cardinality(Filed(f)) <= 2 * logical
      BY <1>1, <1>4, <1>5, <1>11, <1>12, <2>4
    <2>6. \A k \in DOMAIN last : last[k] # Engine!Tombstone =>
            last[k] = IF k \in DOMAIN memtable' THEN memtable'[k] ELSE Lookup(f, k)
      BY <1>11, <1>13
    <2> QED
      BY <1>1, <1>7, <1>9, <1>10, <1>11, <2>3, <2>4, <2>5, <2>6 DEF LsmAt
  <1>15. CASE full
    <2>1. /\ c \in Seq(Tables)
          /\ \A i \in 1..Len(c) : /\ c[i].level = 1
                                  /\ \A k \in DOMAIN c[i].data : k \in Engine!KeysOf(f)
          /\ \A k : Lookup(f, k) # Engine!Tombstone => Lookup(c, k) = Lookup(f, k)
          /\ DOMAIN c[1].data \subseteq Engine!KeysOf(Engine!Level(f, 0))
          /\ \A i \in 1..Len(c) : DOMAIN c[i].data \subseteq c[i].bloom
      <3>1. /\ c \in Seq(Tables)
            /\ \A i \in 1..Len(c) : /\ c[i].level = 1
                                    /\ \A k \in DOMAIN c[i].data : k \in Engine!KeysOf(f)
            /\ \A k : Lookup(f, k) # Engine!Tombstone => Lookup(c, k) = Lookup(f, k)
            /\ DOMAIN c[1].data \subseteq Engine!KeysOf(Engine!Level(f, 0))
        BY <1>7, <1>10, CompactedLookup
      <3>2. \A i \in 1..Len(c) : DOMAIN c[i].data \subseteq c[i].bloom
        BY <1>7, <1>9, <1>10, CompactedBlooms
      <3> QED
        BY <3>1, <3>2
    <2> HIDE DEF c
    <2>2. \A i \in 1..Len(c) : DOMAIN c[i].data \subseteq DOMAIN last
      <3>1. \A k \in Engine!KeysOf(f) : k \in DOMAIN last
        BY <1>7, <1>9 DEF Engine!KeysOf
      <3> QED
        BY <2>1, <3>1
    <2>3. Sorted(c)
      BY <2>1 DEF Sorted
    <2>4. LevelAt(c, 0) = {} /\ Filed(c) = {}
      BY <2>1 DEF LevelAt, Filed
    <2>5. Cardinality(LevelAt(c, 0)) = 0 /\ Cardinality(Filed(c)) = 0
      BY <2>4, FS_EmptySet
    <2>6. /\ Cardinality(DOMAIN c[1].data) \in Nat
          /\ Cardinality(DOMAIN c[1].data) <= Cardinality(Filed(f))
      <3>1. /\ IsFiniteSet(Engine!KeysOf(Engine!Level(f, 0)))
            /\ Cardinality(Engine!KeysOf(Engine!Level(f, 0))) <= Cardinality(Filed(f))
        BY <1>7, <1>10, MergedIsSmaller
      <3>2. /\ IsFiniteSet(DOMAIN c[1].data)
            /\ Cardinality(DOMAIN c[1].data) <= Cardinality(Engine!KeysOf(Engine!Level(f, 0)))
        BY <2>1, <3>1, FS_Subset
      <3>3. /\ Cardinality(DOMAIN c[1].data) \in Nat
            /\ Cardinality(Engine!KeysOf(Engine!Level(f, 0))) \in Nat
            /\ Cardinality(Filed(f)) \in Nat
        BY <1>7, <3>1, <3>2, FS_CardinalityType, FiledFinite
      <3> QED
        BY <3>1, <3>2, <3>3
    <2>7. /\ sstables' = c
          /\ physicalWrites' = physicalWrites + Cardinality(DOMAIN m) + Cardinality(DOMAIN c[1].data)
      BY <1>2, <1>15
    <2>8. /\ physicalWrites' \in Nat
          /\ physicalWrites' + 2 * Cardinality(DOMAIN memtable') + Cardinality(Filed(c)) <= 2 * logical
      BY <1>1, <1>4, <1>5, <1>11, <1>12, <2>5, <2>6, <2>7
    <2>9. \A k \in DOMAIN last : last[k] # Engine!Tombstone =>
            last[k] = IF k \in DOMAIN memtable' THEN memtable'[k] ELSE Lookup(c, k)
      BY <1>11, <1>13, <2>1
    <2>10. Cardinality(LevelAt(c, 0)) < L0Threshold
      BY <2>5, MCAssumption DEF LsmAssumed
    <2> QED
      BY <1>1, <1>11, <2>1, <2>2, <2>3, <2>7, <2>8, <2>9, <2>10 DEF LsmAt
  <1> QED
    BY <1>14, <1>15

LEMMA LsmInvInit ==
    ASSUME Engine!TreeInit
    PROVE  LsmInv
  <1>1. /\ memtable = <<>> /\ sstables = <<>> /\ latest = <<>>
        /\ logicalWrites = 0 /\ physicalWrites = 0
    BY DEF Engine!TreeInit, Engine!NewTree
  <1>2. LevelAt(sstables, 0) = {} /\ Filed(sstables) = {} /\ Len(sstables) = 0
    BY <1>1 DEF LevelAt, Filed
  <1>3. Cardinality({}) = 0
    BY FS_EmptySet
  <1>4. sstables \in Seq(Tables) /\ Sorted(sstables)
    BY <1>1 DEF Sorted
  <1>5. MemtableSize \in Nat \ {0} /\ L0Threshold \in Nat \ {0}
    BY MCAssumption DEF LsmAssumed
  <1>6. /\ memtable \in LsmEntries /\ latest \in LsmEntries
        /\ DOMAIN memtable = {} /\ DOMAIN latest = {}
    BY <1>1, NoEntries
  <1>7. /\ Cardinality(LevelAt(sstables, 0)) < L0Threshold
        /\ physicalWrites + 2 * Cardinality(DOMAIN memtable) + Cardinality(Filed(sstables))
             <= 2 * logicalWrites
        /\ logicalWrites \in Nat /\ physicalWrites \in Nat
    <2>1. Cardinality(LevelAt(sstables, 0)) = 0 /\ Cardinality(Filed(sstables)) = 0
      BY <1>2, <1>3
    <2>2. Cardinality(DOMAIN memtable) = 0
      BY <1>6, <1>3
    <2>3. logicalWrites = 0 /\ physicalWrites = 0
      BY <1>1
    <2> QED
      BY <1>5, <2>1, <2>2, <2>3
  <1>8. 1..Len(sstables) = {}
    BY <1>2
  <1> QED
    BY <1>4, <1>6, <1>7, <1>8 DEF LsmInv, LsmAt

LEMMA WriteStep ==
    ASSUME LsmInv, NEW k \in LsmKeys, NEW v \in LsmValues \cup {Engine!Tombstone},
           Engine!Write(k, v)
    PROVE  LsmInv'
  <1> DEFINE m == Over(memtable, k, v)
             last == Over(latest, k, v)
  <1>1. /\ logicalWrites' = logicalWrites + 1 /\ latest' = last
        /\ \/ \E wrong \in SUBSET LsmKeys : Engine!Flush(m, wrong)
           \/ memtable' = m /\ UNCHANGED <<sstables, physicalWrites>>
    BY DEF Engine!Write, Over
  <1>2. memtable \in LsmEntries /\ latest \in LsmEntries
    BY DEF LsmInv, LsmAt
  <1> HIDE DEF m, last
  <1>3. /\ m \in LsmEntries /\ DOMAIN m = DOMAIN memtable \cup {k} /\ m[k] = v
        /\ \A j \in DOMAIN memtable : j # k => m[j] = memtable[j]
        /\ Cardinality(DOMAIN m) <= Cardinality(DOMAIN memtable) + 1
    BY <1>2, WrittenOver DEF m
  <1>4. /\ last \in LsmEntries /\ DOMAIN last = DOMAIN latest \cup {k} /\ last[k] = v
        /\ \A j \in DOMAIN latest : j # k => last[j] = latest[j]
    BY <1>2, WrittenOver DEF last
  <1>5. LsmAt(m, sstables, last, logicalWrites + 1, physicalWrites)
    <2>1. ASSUME NEW j \in DOMAIN last, last[j] # Engine!Tombstone
          PROVE  last[j] = IF j \in DOMAIN m THEN m[j] ELSE Lookup(sstables, j)
      <3>1. CASE j = k
        BY <1>3, <1>4, <3>1
      <3>2. CASE j # k
        <4>1. j \in DOMAIN latest /\ last[j] = latest[j] /\ (j \in DOMAIN m <=> j \in DOMAIN memtable)
          BY <1>3, <1>4, <3>2
        <4>2. latest[j] = IF j \in DOMAIN memtable THEN memtable[j] ELSE Lookup(sstables, j)
          BY <2>1, <4>1 DEF LsmInv, LsmAt
        <4> QED
          BY <1>3, <3>2, <4>1, <4>2
      <3> QED
        BY <3>1, <3>2
    <2>2. /\ Cardinality(DOMAIN m) \in Nat /\ Cardinality(DOMAIN memtable) \in Nat
          /\ Cardinality(Filed(sstables)) \in Nat
      BY <1>2, <1>3, EntriesFinite, FiledFinite DEF LsmInv, LsmAt
    <2>3. /\ logicalWrites \in Nat /\ physicalWrites \in Nat
          /\ physicalWrites + 2 * Cardinality(DOMAIN memtable) + Cardinality(Filed(sstables))
               <= 2 * logicalWrites
      BY DEF LsmInv, LsmAt
    <2>4. physicalWrites + 2 * Cardinality(DOMAIN m) + Cardinality(Filed(sstables))
            <= 2 * (logicalWrites + 1)
      BY <1>3, <2>2, <2>3
    <2>5. /\ sstables \in Seq(Tables) /\ Sorted(sstables)
          /\ \A i \in 1..Len(sstables) : /\ DOMAIN sstables[i].data \subseteq sstables[i].bloom
                                         /\ DOMAIN sstables[i].data \subseteq DOMAIN last
          /\ Cardinality(LevelAt(sstables, 0)) < L0Threshold
          /\ DOMAIN m \subseteq DOMAIN last
      BY <1>3, <1>4 DEF LsmInv, LsmAt
    <2> QED
      BY <1>3, <1>4, <2>1, <2>3, <2>4, <2>5 DEF LsmAt
  <1> QED
    BY <1>1, <1>5, FlushKeeps DEF LsmInv

LEMMA LsmInvStep ==
    ASSUME LsmInv, Engine!TreeNext \/ UNCHANGED treeVars
    PROVE  LsmInv'
  <1>1. ASSUME NEW k \in LsmKeys, Engine!Delete(k)
        PROVE  LsmInv'
    BY <1>1, WriteStep DEF Engine!Delete
  <1>2. ASSUME NEW k \in LsmKeys, NEW v \in LsmValues, Engine!Put(k, v)
        PROVE  LsmInv'
    BY <1>2, WriteStep DEF Engine!Put
  <1>3. CASE Engine!FlushRest
    BY <1>3, FlushKeeps DEF Engine!FlushRest, LsmInv
  <1>4. CASE UNCHANGED treeVars
    BY <1>4 DEF treeVars, LsmInv
  <1> QED
    BY <1>1, <1>2, <1>3, <1>4 DEF Engine!TreeNext, Engine!LsmDone, Engine!treeVars, treeVars

LEMMA LsmInvReads ==
    ASSUME LsmInv
    PROVE  Engine!ReadsLatestPut
  <1>1. /\ sstables \in Seq(Tables) /\ Sorted(sstables)
        /\ \A i \in 1..Len(sstables) : /\ DOMAIN sstables[i].data \subseteq sstables[i].bloom
                                       /\ DOMAIN sstables[i].data \subseteq DOMAIN latest
        /\ DOMAIN memtable \subseteq DOMAIN latest /\ memtable \in LsmEntries
        /\ \A k \in DOMAIN latest : latest[k] # Engine!Tombstone =>
             latest[k] = IF k \in DOMAIN memtable THEN memtable[k] ELSE Lookup(sstables, k)
    BY DEF LsmInv, LsmAt
  <1>2. ASSUME NEW k
        PROVE  Engine!Read(k) = IF k \in DOMAIN memtable THEN memtable[k] ELSE Lookup(sstables, k)
    <2>1. {i \in DOMAIN sstables : Engine!Found(sstables[i], k)} = Engine!Holding(sstables, k)
      BY <1>1 DEF Engine!Found, Engine!Holding
    <2> QED
      BY <2>1 DEF Engine!Read, Lookup
  <1>3. ASSUME NEW k \in LsmKeys \ DOMAIN latest
        PROVE  Engine!Read(k) = Engine!Tombstone
    <2>1. Engine!Holding(sstables, k) = {}
      BY <1>1, HoldingIs
    <2> QED
      BY <1>1, <1>2, <2>1 DEF Lookup
  <1>4. Len(Engine!Level(sstables, 0)) < L0Threshold
    <2>1. PICK n \in 0..Len(sstables) :
             /\ LevelAt(sstables, 0) = 0 + 1..n /\ LevelAt(sstables, 1) = n + 1..Len(sstables)
             /\ Cardinality(LevelAt(sstables, 0)) = n
      BY <1>1, LevelsApart
    <2>2. Len(Engine!Level(sstables, 0)) = n
      BY <1>1, <2>1, LevelLists
    <2> QED
      BY <2>1, <2>2 DEF LsmInv, LsmAt
  <1>5. physicalWrites <= 2 * logicalWrites
    <2>1. Cardinality(DOMAIN memtable) \in Nat /\ Cardinality(Filed(sstables)) \in Nat
      BY <1>1, EntriesFinite, FiledFinite
    <2> QED
      BY <2>1 DEF LsmInv, LsmAt
  <1> QED
    BY <1>1, <1>2, <1>3, <1>4, <1>5 DEF Engine!ReadsLatestPut, Sorted

(***************************************************************************)
(* The scripts of the replication lab. A script never sets a key below what  *)
(* one of its rounds has set it to, and sets the reply after the post.       *)
(***************************************************************************)
ScriptKeys == {"", "counter", "eventual", "wait1", "wait2", "user42", "user99", "mono", "post",
               "reply", "balance"}
ScriptCommands ==
    [op : {"set", "get", "wait", "waitIfSeen", "probe"}, on : {"master", "r1", "r2"},
     key : ScriptKeys, val : Nat, n : Nat]

Sets(s, q, key) == s[q].op = "set" /\ s[q].key = key

Climbs(s) ==
    \A p, q \in 1..Len(s) : \A key \in ScriptKeys :
        p < q /\ Sets(s, p, key) /\ Sets(s, q, key) /\ s[p].val \in 1..Trials
            => s[q].val \in s[p].val..Trials

RepliesLast(s) ==
    \A q \in 1..Len(s) : Sets(s, q, "reply") /\ s[q].val # Replica!Nil =>
        /\ \E p \in 1..Len(s) : p < q /\ Sets(s, p, "post") /\ s[p].val \in 1..Trials
        /\ \A p \in 1..Len(s) : s[p].op # "probe"

Scripted(s) == s \in Seq(ScriptCommands) /\ Climbs(s) /\ RepliesLast(s)

LEMMA CommandsAre ==
    /\ \A key \in ScriptKeys : \A val \in Nat : Replica!Set(key, val) \in ScriptCommands
    /\ \A on \in {"master", "r1", "r2"} : \A key \in ScriptKeys :
         Replica!Get(on, key) \in ScriptCommands /\ Replica!Probe(on, key) \in ScriptCommands
    /\ \A n \in Nat : Replica!Wait(n) \in ScriptCommands /\ Replica!WaitIfSeen(n) \in ScriptCommands
  BY DEF Replica!Set, Replica!Get, Replica!Probe, Replica!Wait, Replica!WaitIfSeen,
         Replica!Nil, ScriptCommands, ScriptKeys

\* What the commands of a script say.
LEMMA CommandsSay ==
    /\ \A key, val : /\ Replica!Set(key, val).op = "set" /\ Replica!Set(key, val).key = key
                     /\ Replica!Set(key, val).val = val
    /\ \A on, key : Replica!Get(on, key).op = "get" /\ Replica!Probe(on, key).op = "probe"
    /\ \A n : Replica!Wait(n).op = "wait" /\ Replica!WaitIfSeen(n).op = "waitIfSeen"
  BY DEF Replica!Set, Replica!Get, Replica!Probe, Replica!Wait, Replica!WaitIfSeen

LEMMA WaitScript == Scripted(Replica!WaitLatency)
  <1> DEFINE s == Replica!WaitLatency
  <1>1. /\ Len(s) = 8 /\ s[1] = Replica!Set("eventual", 1) /\ s[2] = Replica!Get("r1", "eventual")
        /\ s[3] = Replica!Set("wait1", 1) /\ s[4] = Replica!Wait(1)
        /\ s[5] = Replica!Get("r1", "wait1") /\ s[6] = Replica!Set("wait2", 1)
        /\ s[7] = Replica!Wait(2) /\ s[8] = Replica!Get("r1", "wait2")
    BY DEF Replica!WaitLatency
  <1>2. s \in Seq(ScriptCommands)
    <2>1. /\ Replica!Set("eventual", 1) \in ScriptCommands
          /\ Replica!Get("r1", "eventual") \in ScriptCommands
          /\ Replica!Set("wait1", 1) \in ScriptCommands /\ Replica!Wait(1) \in ScriptCommands
          /\ Replica!Get("r1", "wait1") \in ScriptCommands
          /\ Replica!Set("wait2", 1) \in ScriptCommands /\ Replica!Wait(2) \in ScriptCommands
          /\ Replica!Get("r1", "wait2") \in ScriptCommands
      BY CommandsAre DEF ScriptKeys
    <2> QED
      BY <2>1 DEF Replica!WaitLatency
  <1> HIDE DEF s
  <1>3. \A q \in 1..8 : s[q].op = "set" =>
          /\ s[q].val = 1
          /\ \/ q = 1 /\ s[q].key = "eventual"
             \/ q = 3 /\ s[q].key = "wait1"
             \/ q = 6 /\ s[q].key = "wait2"
    BY <1>1, CommandsSay
  <1>4. Climbs(s)
    BY <1>1, <1>3 DEF Climbs, Sets
  <1>5. RepliesLast(s)
    BY <1>1, <1>3 DEF RepliesLast, Sets
  <1> QED
    BY <1>2, <1>4, <1>5 DEF Scripted, s

LEMMA CausalScript == Scripted(Replica!CausalConsistency)
  <1> DEFINE s == Replica!CausalConsistency
  <1>1. /\ Len(s) = 9 /\ s[1] = Replica!Set("post", 0) /\ s[2] = Replica!Set("reply", 0)
        /\ s[3] = Replica!Wait(2) /\ s[4] = Replica!Set("post", 1)
        /\ s[5] = Replica!Get("r1", "post") /\ s[6] = Replica!Set("reply", 1)
        /\ s[7] = Replica!WaitIfSeen(1) /\ s[8] = Replica!Get("r2", "post")
        /\ s[9] = Replica!Get("r2", "reply")
    BY DEF Replica!CausalConsistency, Replica!Nil
  <1>2. s \in Seq(ScriptCommands)
    <2>1. /\ Replica!Set("post", 0) \in ScriptCommands /\ Replica!Set("reply", 0) \in ScriptCommands
          /\ Replica!Wait(2) \in ScriptCommands /\ Replica!Set("post", 1) \in ScriptCommands
          /\ Replica!Get("r1", "post") \in ScriptCommands
          /\ Replica!Set("reply", 1) \in ScriptCommands
          /\ Replica!WaitIfSeen(1) \in ScriptCommands
          /\ Replica!Get("r2", "post") \in ScriptCommands
          /\ Replica!Get("r2", "reply") \in ScriptCommands
      BY CommandsAre DEF ScriptKeys
    <2> QED
      BY <2>1 DEF Replica!CausalConsistency, Replica!Nil
  <1> HIDE DEF s
  <1>3. \A q \in 1..9 :
          /\ s[q].op # "probe"
          /\ s[q].op = "set" =>
               \/ q = 1 /\ s[q].key = "post" /\ s[q].val = 0
               \/ q = 2 /\ s[q].key = "reply" /\ s[q].val = 0
               \/ q = 4 /\ s[q].key = "post" /\ s[q].val = 1
               \/ q = 6 /\ s[q].key = "reply" /\ s[q].val = 1
    BY <1>1, CommandsSay
  <1>4. Climbs(s)
    BY <1>1, <1>3 DEF Climbs, Sets
  <1>5. s[4].op = "set" /\ s[4].key = "post" /\ s[4].val \in 1..Trials
    BY <1>1, CommandsSay, MCAssumption DEF ReplicasAssumed
  <1>6. RepliesLast(s)
    BY <1>1, <1>3, <1>5 DEF RepliesLast, Sets, Replica!Nil
  <1> QED
    BY <1>2, <1>4, <1>6 DEF Scripted, s

\* A loop counts up from 1, and reads.
LEMMA RoundsAre ==
    ASSUME NEW key \in ScriptKeys, NEW read \in ScriptCommands
    PROVE  LET r == Replica!Rounds(key, read)
           IN  /\ r \in Seq(ScriptCommands) /\ Len(r) = 2 * Trials
               /\ \A n \in 1..2 * Trials : \/ r[n] = read
                                           \/ r[n] = Replica!Set(key, (n + 1) \div 2)
  <1> DEFINE r == Replica!Rounds(key, read)
  <1>1. Trials \in Nat \ {0} /\ 2 * Trials \in Nat
    BY MCAssumption DEF ReplicasAssumed
  <1>2. r = [n \in 1..2 * Trials |-> IF n % 2 = 1 THEN Replica!Set(key, (n + 1) \div 2) ELSE read]
    BY DEF Replica!Rounds
  <1> HIDE DEF r
  <1>3. \A n \in 1..2 * Trials : Replica!Set(key, (n + 1) \div 2) \in ScriptCommands
    BY <1>1, CommandsAre
  <1>4. r \in [1..2 * Trials -> ScriptCommands]
    BY <1>2, <1>3
  <1>5. r \in Seq(ScriptCommands) /\ Len(r) = 2 * Trials
    BY <1>1, <1>4
  <1> QED
    BY <1>2, <1>5 DEF r

\* A lead-in and a loop, of a key that the lead-in has not counted in.
LEMMA LoopScript ==
    ASSUME NEW lead \in Seq(ScriptCommands), NEW key \in ScriptKeys \ {"reply"},
           NEW read \in ScriptCommands, read.op # "set", Climbs(lead),
           \A p \in 1..Len(lead) : lead[p].op = "set" =>
               /\ lead[p].key = key => lead[p].val \notin 1..Trials
               /\ lead[p].key # "reply"
    PROVE  Scripted(lead \o Replica!Rounds(key, read))
  <1> DEFINE r == Replica!Rounds(key, read)
             s == lead \o r
             k == Len(lead)
  <1>1. /\ r \in Seq(ScriptCommands) /\ Len(r) = 2 * Trials
        /\ \A n \in 1..2 * Trials : \/ r[n] = read
                                    \/ r[n] = Replica!Set(key, (n + 1) \div 2)
    BY RoundsAre
  <1>2. Trials \in Nat \ {0}
    BY MCAssumption DEF ReplicasAssumed
  <1> HIDE DEF r
  <1>3. /\ s \in Seq(ScriptCommands) /\ Len(s) = k + 2 * Trials /\ k \in Nat
        /\ \A p \in 1..Len(s) : s[p] = IF p <= k THEN lead[p] ELSE r[p - k]
    <2>1. s \in Seq(ScriptCommands) /\ Len(s) = k + Len(r) /\ k \in Nat
      BY <1>1
    <2>2. \A p \in 1..Len(s) : s[p] = IF p <= k THEN lead[p] ELSE r[p - k]
      BY <1>1, <2>1
    <2> QED
      BY <1>1, <2>1, <2>2
  <1> HIDE DEF s, k
  <1>4. ASSUME NEW p \in 1..Len(s), p > k, s[p].op = "set"
        PROVE  s[p].key = key /\ s[p].val = (p - k + 1) \div 2
    <2>1. p - k \in 1..2 * Trials /\ s[p] = r[p - k]
      BY <1>2, <1>3, <1>4
    <2>2. s[p] = Replica!Set(key, (p - k + 1) \div 2)
      BY <1>1, <1>4, <2>1
    <2> QED
      BY <2>2, CommandsSay
  <1>5. ASSUME NEW p \in 1..Len(s), p <= k
        PROVE  s[p] = lead[p] /\ p \in 1..Len(lead)
    BY <1>3, <1>5 DEF k
  <1>6. Climbs(s)
    <2> SUFFICES ASSUME NEW p \in 1..Len(s), NEW q \in 1..Len(s), NEW x \in ScriptKeys,
                        p < q, Sets(s, p, x), Sets(s, q, x), s[p].val \in 1..Trials
                 PROVE  s[q].val \in s[p].val..Trials
      BY DEF Climbs
    <2>1. CASE q <= k
      <3>1. p <= k
        BY <1>3, <2>1
      <3> QED
        BY <1>5, <2>1, <3>1 DEF Climbs, Sets
    <2>2. CASE q > k /\ p <= k
      BY <1>4, <1>5, <2>2 DEF Sets
    <2>3. CASE q > k /\ p > k
      <3>1. s[p].val = (p - k + 1) \div 2 /\ s[q].val = (q - k + 1) \div 2
        BY <1>4, <2>3 DEF Sets
      <3>2. q - k <= 2 * Trials
        BY <1>2, <1>3
      <3> QED
        BY <1>2, <1>3, <3>1, <3>2
    <2> QED
      BY <1>3, <2>1, <2>2, <2>3
  <1>7. \A p \in 1..Len(s) : ~Sets(s, p, "reply")
    BY <1>3, <1>4, <1>5 DEF Sets
  <1>8. RepliesLast(s)
    BY <1>7 DEF RepliesLast
  <1> QED
    BY <1>3, <1>6, <1>8 DEF Scripted, s, r

LEMMA EveryScript == \A phi \in DOMAIN Replica!Phases : Scripted(Replica!Phases[phi])
  <1>1. Scripted(Replica!EventualConsistency)
    <2> DEFINE lead == <<Replica!Set("counter", Replica!Start), Replica!Wait(2)>>
    <2>1. Replica!Start \in Nat /\ Replica!Start \notin 1..Trials
      BY MCAssumption DEF ReplicasAssumed, Replica!Start
    <2>2. /\ Len(lead) = 2 /\ lead[1] = Replica!Set("counter", Replica!Start)
          /\ lead[2] = Replica!Wait(2)
      OBVIOUS
    <2>3. /\ lead \in Seq(ScriptCommands)
          /\ Replica!Get("r1", "counter") \in ScriptCommands
          /\ Replica!Get("r1", "counter").op # "set"
      <3>1. /\ Replica!Set("counter", Replica!Start) \in ScriptCommands
            /\ Replica!Wait(2) \in ScriptCommands
            /\ Replica!Get("r1", "counter") \in ScriptCommands
        BY <2>1, CommandsAre DEF ScriptKeys
      <3> QED
        BY <3>1, CommandsSay
    <2> HIDE DEF lead
    <2>4. \A p \in 1..2 : lead[p].op = "set" =>
            p = 1 /\ lead[p].key = "counter" /\ lead[p].val \notin 1..Trials
      BY <2>1, <2>2, CommandsSay
    <2>5. Climbs(lead)
      BY <2>2, <2>4 DEF Climbs, Sets
    <2>6. Scripted(lead \o Replica!Rounds("counter", Replica!Get("r1", "counter")))
      BY <2>2, <2>3, <2>4, <2>5, LoopScript DEF ScriptKeys
    <2> QED
      BY <2>6 DEF Replica!EventualConsistency, lead
  <1>2. Scripted(Replica!ReadYourWrites)
    <2> DEFINE lead == <<Replica!Set("user42", 1), Replica!Wait(2), Replica!Get("r1", "user42"),
                         Replica!Get("r2", "user42")>>
    <2>1. /\ Len(lead) = 4 /\ lead[1] = Replica!Set("user42", 1) /\ lead[2] = Replica!Wait(2)
          /\ lead[3] = Replica!Get("r1", "user42") /\ lead[4] = Replica!Get("r2", "user42")
      OBVIOUS
    <2>2. /\ lead \in Seq(ScriptCommands)
          /\ Replica!Probe("r2", "user99") \in ScriptCommands
          /\ Replica!Probe("r2", "user99").op # "set"
      <3>1. /\ Replica!Set("user42", 1) \in ScriptCommands /\ Replica!Wait(2) \in ScriptCommands
            /\ Replica!Get("r1", "user42") \in ScriptCommands
            /\ Replica!Get("r2", "user42") \in ScriptCommands
            /\ Replica!Probe("r2", "user99") \in ScriptCommands
        BY CommandsAre DEF ScriptKeys
      <3> QED
        BY <3>1, CommandsSay
    <2> HIDE DEF lead
    <2>3. \A p \in 1..4 : lead[p].op = "set" => p = 1 /\ lead[p].key = "user42"
      BY <2>1, CommandsSay
    <2>4. Climbs(lead)
      BY <2>1, <2>3 DEF Climbs, Sets
    <2>5. Scripted(lead \o Replica!Rounds("user99", Replica!Probe("r2", "user99")))
      BY <2>1, <2>2, <2>3, <2>4, LoopScript DEF ScriptKeys
    <2> QED
      BY <2>5 DEF Replica!ReadYourWrites, lead
  <1>3. Scripted(Replica!MonotonicReads)
    <2> DEFINE s == Replica!MonotonicReads
    <2>1. /\ Len(s) = 2 /\ s[1] = Replica!Set("mono", Replica!Start) /\ s[2] = Replica!Wait(2)
      BY DEF Replica!MonotonicReads
    <2>2. Replica!Start \in Nat
      BY MCAssumption DEF ReplicasAssumed, Replica!Start
    <2>3. s \in Seq(ScriptCommands)
      <3>1. /\ Replica!Set("mono", Replica!Start) \in ScriptCommands
            /\ Replica!Wait(2) \in ScriptCommands
        BY <2>2, CommandsAre DEF ScriptKeys
      <3> QED
        BY <3>1 DEF Replica!MonotonicReads
    <2> HIDE DEF s
    <2>4. \A p \in 1..2 : s[p].op = "set" => p = 1 /\ s[p].key = "mono"
      BY <2>1, CommandsSay
    <2> QED
      BY <2>1, <2>3, <2>4 DEF Scripted, Climbs, RepliesLast, Sets, s
  <1>4. Scripted(Replica!Linearizability)
    <2> DEFINE s == Replica!Linearizability
    <2>1. /\ Len(s) = 3 /\ s[1] = Replica!Set("balance", 1) /\ s[2] = Replica!Wait(2)
          /\ s[3] = Replica!Get("master", "balance")
      BY DEF Replica!Linearizability
    <2>2. s \in Seq(ScriptCommands)
      <3>1. /\ Replica!Set("balance", 1) \in ScriptCommands /\ Replica!Wait(2) \in ScriptCommands
            /\ Replica!Get("master", "balance") \in ScriptCommands
        BY CommandsAre DEF ScriptKeys
      <3> QED
        BY <3>1 DEF Replica!Linearizability
    <2> HIDE DEF s
    <2>3. \A p \in 1..3 : s[p].op = "set" => p = 1 /\ s[p].key = "balance"
      BY <2>1, CommandsSay
    <2> QED
      BY <2>1, <2>2, <2>3 DEF Scripted, Climbs, RepliesLast, Sets, s
  <1> QED
    BY <1>1, <1>2, <1>3, <1>4, WaitScript, CausalScript DEF Replica!Phases

(***************************************************************************)
(* The stream and what a node that has a prefix of it answers.              *)
(***************************************************************************)
Entries == [key : ScriptKeys, val : Nat]

ValueIn(s, key, p) ==
    LET writes == {i \in 1..p : s[i].key = key}
    IN  IF writes = {} THEN Replica!Nil ELSE s[Replica!Max(writes)].val

Climbing(s) ==
    \A m, n \in 1..Len(s) :
        m < n /\ s[m].key = s[n].key /\ s[m].val \in 1..Trials => s[n].val \in s[m].val..Trials

PostsFirst(s) ==
    \A n \in 1..Len(s) : s[n].key = "reply" /\ s[n].val # Replica!Nil =>
        \E m \in 1..Len(s) : m < n /\ s[m].key = "post" /\ s[m].val \in 1..Trials

LEMMA EntryAt ==
    ASSUME NEW s \in Seq(Entries), NEW i \in 1..Len(s)
    PROVE  s[i].key \in ScriptKeys /\ s[i].val \in Nat
  <1>1. s[i] \in Entries
    OBVIOUS
  <1> QED
    BY <1>1 DEF Entries

\* The value is that of the last write of the key, if there is one.
LEMMA LastWrite ==
    ASSUME NEW s \in Seq(Entries), NEW key, NEW p \in 0..Len(s)
    PROVE  \/ /\ \A i \in 1..p : s[i].key # key
              /\ ValueIn(s, key, p) = Replica!Nil
           \/ \E m \in 1..p : /\ s[m].key = key /\ ValueIn(s, key, p) = s[m].val
                              /\ \A i \in 1..p : s[i].key = key => i <= m
  <1> DEFINE W == {i \in 1..p : s[i].key = key}
  <1>1. CASE W = {}
    BY <1>1 DEF ValueIn
  <1>2. CASE W # {}
    <2>1. p \in Nat /\ W \in SUBSET (1..p)
      OBVIOUS
    <2>2. PICK m \in W : \A k \in W : k <= m
      BY <1>2, <2>1, TopExists
    <2>3. Replica!Max(W) = m
      <3>1. \A x \in W : (\A y \in W : x >= y) => x = m
        BY <2>1, <2>2
      <3>2. \A y \in W : m >= y
        BY <2>1, <2>2
      <3> QED
        BY <2>2, <3>1, <3>2 DEF Replica!Max
    <2>4. ValueIn(s, key, p) = s[m].val
      BY <1>2, <2>3 DEF ValueIn
    <2> QED
      BY <2>2, <2>4
  <1> QED
    BY <1>1, <1>2

LEMMA ValuesTyped ==
    ASSUME NEW s \in Seq(Entries), NEW key, NEW p \in 0..Len(s)
    PROVE  ValueIn(s, key, p) \in Nat
  <1>1. \A m \in 1..p : s[m].val \in Nat
    BY EntryAt
  <1> QED
    BY <1>1, LastWrite DEF Replica!Nil

\* More of the stream never takes a count back.
LEMMA CountsClimb ==
    ASSUME NEW s \in Seq(Entries), Climbing(s), NEW key, NEW p \in 0..Len(s),
           NEW q \in p..Len(s), ValueIn(s, key, p) \in 1..Trials
    PROVE  ValueIn(s, key, q) \in ValueIn(s, key, p)..Trials
  <1>1. Trials \in Nat /\ \A i \in 1..Len(s) : s[i].val \in Nat
    BY EntryAt, MCAssumption DEF ReplicasAssumed
  <1>2. PICK m \in 1..p : s[m].key = key /\ ValueIn(s, key, p) = s[m].val
    BY LastWrite DEF Replica!Nil
  <1>3. m \in 1..q /\ q \in 0..Len(s)
    OBVIOUS
  <1>4. PICK n \in 1..q : /\ s[n].key = key /\ ValueIn(s, key, q) = s[n].val
                          /\ \A i \in 1..q : s[i].key = key => i <= n
    BY <1>2, <1>3, LastWrite
  <1>5. m <= n /\ m \in 1..Len(s) /\ n \in 1..Len(s)
    BY <1>2, <1>3, <1>4
  <1>6. CASE m = n
    BY <1>1, <1>2, <1>4, <1>5, <1>6
  <1>7. CASE m < n
    BY <1>2, <1>4, <1>5, <1>7 DEF Climbing
  <1> QED
    BY <1>5, <1>6, <1>7

\* Whoever has the reply has the post.
LEMMA ReplyBringsPost ==
    ASSUME NEW s \in Seq(Entries), Climbing(s), PostsFirst(s), NEW p \in 0..Len(s),
           ValueIn(s, "reply", p) # Replica!Nil
    PROVE  ValueIn(s, "post", p) # Replica!Nil
  <1>1. Trials \in Nat /\ \A i \in 1..Len(s) : s[i].val \in Nat
    BY EntryAt, MCAssumption DEF ReplicasAssumed
  <1>2. PICK n \in 1..p : s[n].key = "reply" /\ ValueIn(s, "reply", p) = s[n].val
    BY LastWrite
  <1>3. PICK m \in 1..Len(s) : m < n /\ s[m].key = "post" /\ s[m].val \in 1..Trials
    BY <1>2 DEF PostsFirst
  <1>4. m \in 1..p
    BY <1>3
  <1>5. PICK k \in 1..p : /\ s[k].key = "post" /\ ValueIn(s, "post", p) = s[k].val
                          /\ \A i \in 1..p : s[i].key = "post" => i <= k
    BY <1>3, <1>4, LastWrite
  <1>6. m <= k /\ k \in 1..Len(s)
    BY <1>3, <1>4, <1>5
  <1>7. s[k].val >= 1
    <2>1. CASE m = k
      BY <1>3, <2>1
    <2>2. CASE m < k
      BY <1>1, <1>3, <1>5, <1>6, <2>2 DEF Climbing
    <2> QED
      BY <1>6, <2>1, <2>2
  <1> QED
    BY <1>1, <1>5, <1>6, <1>7 DEF Replica!Nil

\* A longer stream answers a prefix as before.
LEMMA ValueKept ==
    ASSUME NEW s \in Seq(Entries), NEW t \in Seq(Entries), NEW key, NEW p \in 0..Len(s),
           Len(t) >= Len(s), \A i \in 1..Len(s) : t[i] = s[i]
    PROVE  ValueIn(t, key, p) = ValueIn(s, key, p)
  <1>1. p \in 0..Len(t) /\ \A i \in 1..p : t[i] = s[i]
    OBVIOUS
  <1>2. CASE \A i \in 1..p : s[i].key # key
    BY <1>1, <1>2, LastWrite
  <1>3. CASE ~\A i \in 1..p : s[i].key # key
    <2>1. PICK m \in 1..p : /\ s[m].key = key /\ ValueIn(s, key, p) = s[m].val
                            /\ \A i \in 1..p : s[i].key = key => i <= m
      BY <1>3, LastWrite
    <2>2. PICK n \in 1..p : /\ t[n].key = key /\ ValueIn(t, key, p) = t[n].val
                            /\ \A i \in 1..p : t[i].key = key => i <= n
      BY <1>1, <1>3, LastWrite
    <2>3. m = n
      BY <1>1, <2>1, <2>2
    <2> QED
      BY <1>1, <2>1, <2>2, <2>3
  <1> QED
    BY <1>2, <1>3

(***************************************************************************)
(* The lab's states: the stream is what the script has set so far, in its    *)
(* order, and an answer that counts is still below what its node has.        *)
(***************************************************************************)
ReplicaNodes == {"master", "r1", "r2"}
Gets == [on : ReplicaNodes, key : ScriptKeys, val : Nat, wrote : Nat, acks : Nat, post : Nat]

Script == Replica!Phases[phase]
Has(s, done, node) == IF node = "master" THEN Len(s) ELSE done[node]

ReplicaShapes ==
    /\ stream \in Seq(Entries) /\ gets \in Seq(Gets) /\ acks \in Nat
    /\ applied \in [{"r1", "r2"} -> Nat] /\ acked \in [{"r1", "r2"} -> Nat]
    /\ \A r \in {"r1", "r2"} : acked[r] <= applied[r] /\ applied[r] <= Len(stream)
    /\ phase \in DOMAIN Replica!Phases /\ pos \in 0..Len(Script)

\* Every entry was set by a command that is done.
FromScript ==
    \A n \in 1..Len(stream) : \E q \in 1..pos :
        Sets(Script, q, stream[n].key) /\ Script[q].val = stream[n].val

\* Every command that is done, and sets, has its entry, unless a probe may end the script.
InStream ==
    (\A q \in 1..Len(Script) : Script[q].op # "probe") =>
        \A q \in 1..pos : Script[q].op = "set" =>
            \E n \in 1..Len(stream) : /\ stream[n].key = Script[q].key
                                      /\ stream[n].val = Script[q].val

StreamInv == FromScript /\ InStream /\ Climbing(stream) /\ PostsFirst(stream)

EveryoneAcked == acks = Cardinality({"r1", "r2"}) => \A r \in {"r1", "r2"} : acked[r] = Len(stream)

StillThere ==
    \A i \in 1..Len(gets) : gets[i].val \in 1..Trials =>
        ValueIn(stream, gets[i].key, Has(stream, applied, gets[i].on)) \in gets[i].val..Trials

AnswersInv ==
    /\ EveryoneAcked /\ StillThere
    /\ \A i \in 1..Len(gets) :
         /\ gets[i].acks = Cardinality({"r1", "r2"}) => gets[i].val = gets[i].wrote
         /\ gets[i].key = "reply" /\ gets[i].val # Replica!Nil => gets[i].post # Replica!Nil
    /\ \A i, j \in 1..Len(gets) :
         i < j /\ gets[i].on = gets[j].on /\ gets[i].key = gets[j].key /\ gets[i].val \in 1..Trials
            => gets[i].val <= gets[j].val

ReplicaInv == ReplicaShapes /\ StreamInv /\ AnswersInv

LEMMA TwoReplicas ==
    /\ Replicas = {"r1", "r2"} /\ Trials \in Nat \ {0}
    /\ IsFiniteSet({"r1", "r2"}) /\ Cardinality({"r1", "r2"}) \in Nat \ {0}
  <1>1. Replicas = {"r1", "r2"} /\ Trials \in Nat \ {0}
    BY MCAssumption DEF ReplicasAssumed
  <1>2. IsFiniteSet({"r2"})
    BY FS_Singleton
  <1>3. IsFiniteSet({"r1"} \cup {"r2"})
    BY <1>2, FS_Singleton, FS_Union
  <1>4. {"r1"} \cup {"r2"} = {"r1", "r2"}
    OBVIOUS
  <1>5. IsFiniteSet({"r1", "r2"}) /\ {"r1", "r2"} # {}
    BY <1>3, <1>4
  <1> QED
    BY <1>1, <1>5, FS_CardinalityType, FS_EmptySet

LEMMA HasPrefix ==
    ASSUME ReplicaShapes, NEW node \in ReplicaNodes
    PROVE  Has(stream, applied, node) \in 0..Len(stream)
  BY DEF ReplicaShapes, ReplicaNodes, Has

LEMMA ReplicaInvInit ==
    ASSUME Replica!Init
    PROVE  ReplicaInv
  <1>1. /\ stream = <<>> /\ gets = <<>> /\ acks = 0 /\ pos = 0
        /\ applied = [r \in Replicas |-> 0] /\ acked = [r \in Replicas |-> 0]
        /\ phase \in DOMAIN Replica!Phases
    BY DEF Replica!Init
  <1>2. Scripted(Script)
    BY <1>1, EveryScript DEF Script
  <1>3. ReplicaShapes
    BY <1>1, <1>2, TwoReplicas DEF ReplicaShapes, Scripted
  <1>4. Len(stream) = 0 /\ Len(gets) = 0
    BY <1>1
  <1>5. StreamInv
    BY <1>1, <1>4 DEF StreamInv, FromScript, InStream, Climbing, PostsFirst
  <1>6. AnswersInv
    BY <1>1, <1>4, TwoReplicas DEF AnswersInv, EveryoneAcked, StillThere
  <1> QED
    BY <1>3, <1>5, <1>6 DEF ReplicaInv

\* Whatever grows, an answer that counts stays below what its node has.
LEMMA StillThereGrows ==
    ASSUME ReplicaShapes, ReplicaShapes', StillThere, Climbing(stream'), gets' = gets,
           Len(stream') >= Len(stream), \A i \in 1..Len(stream) : stream'[i] = stream[i],
           \A node \in ReplicaNodes : Has(stream', applied', node) >= Has(stream, applied, node)
    PROVE  StillThere'
  <1> SUFFICES ASSUME NEW i \in 1..Len(gets), gets[i].val \in 1..Trials
               PROVE  ValueIn(stream', gets[i].key, Has(stream', applied', gets[i].on)) \in gets[i].val..Trials
    BY DEF StillThere
  <1>1. stream \in Seq(Entries) /\ stream' \in Seq(Entries) /\ gets \in Seq(Gets)
    BY DEF ReplicaShapes
  <1> DEFINE p == Has(stream, applied, gets[i].on)
             q == Has(stream', applied', gets[i].on)
             v == ValueIn(stream, gets[i].key, p)
  <1>2. gets[i].on \in ReplicaNodes /\ gets[i].val \in Nat
    <2>1. gets[i] \in Gets
      BY <1>1
    <2> QED
      BY <2>1 DEF Gets
  <1>3. p \in 0..Len(stream) /\ q \in 0..Len(stream') /\ p <= q
    <2>1. p \in 0..Len(stream)
      BY <1>2, HasPrefix
    <2>2. q \in 0..Len(stream')
      <3>1. /\ applied' \in [{"r1", "r2"} -> Nat] /\ Len(stream') \in Nat
            /\ \A r \in {"r1", "r2"} : applied'[r] <= Len(stream')
        BY <1>1 DEF ReplicaShapes
      <3> QED
        BY <1>2, <3>1 DEF ReplicaNodes, Has
    <2> QED
      BY <1>2, <2>1, <2>2
  <1>4. v \in gets[i].val..Trials
    BY DEF StillThere
  <1> HIDE DEF p, q
  <1>5. ValueIn(stream', gets[i].key, p) = v /\ p \in 0..Len(stream') /\ q \in p..Len(stream')
    <2>1. Len(stream) \in Nat /\ Len(stream') \in Nat
      BY <1>1
    <2>2. p \in 0..Len(stream') /\ q \in p..Len(stream')
      BY <1>3, <2>1
    <2>3. ValueIn(stream', gets[i].key, p) = ValueIn(stream, gets[i].key, p)
      BY <1>1, <1>3, ValueKept
    <2> QED
      BY <2>2, <2>3 DEF p
  <1>6. v \in 1..Trials
    BY <1>2, <1>4, TwoReplicas
  <1>7. ValueIn(stream', gets[i].key, q) \in v..Trials
    BY <1>1, <1>5, <1>6, CountsClimb
  <1> QED
    BY <1>2, <1>4, <1>7, TwoReplicas DEF q

\* The command that is next.
LEMMA NextCommand ==
    ASSUME ReplicaShapes, Replica!Running
    PROVE  /\ pos + 1 \in 1..Len(Script) /\ Script[pos + 1] = Replica!Command
           /\ Replica!Command \in ScriptCommands /\ Scripted(Script) /\ pos \in Nat
  <1>1. /\ pos \in 0..Len(Script) /\ phase \in DOMAIN Replica!Phases /\ pos < Len(Script)
        /\ Script[pos + 1] = Replica!Command
    BY DEF ReplicaShapes, Replica!Running, Replica!Command, Script
  <1>2. Scripted(Script)
    BY <1>1, EveryScript DEF Script
  <1>3. Script \in Seq(ScriptCommands)
    BY <1>2 DEF Scripted
  <1>4. pos + 1 \in 1..Len(Script) /\ pos \in Nat
    BY <1>1, <1>3
  <1>5. Script[pos + 1] \in ScriptCommands
    BY <1>3, <1>4
  <1> QED
    BY <1>1, <1>2, <1>4, <1>5

LEMMA SetStep ==
    ASSUME ReplicaInv, Replica!DoSet
    PROVE  ReplicaInv'
  <1> DEFINE c == Replica!Command
             e == [key |-> c.key, val |-> c.val]
             n == Len(stream)
  <1>1. /\ c.op = "set" /\ stream' = Append(stream, e) /\ acks' = 0 /\ pos' = pos + 1
        /\ UNCHANGED <<applied, acked, phase, gets>>
    BY DEF Replica!DoSet
  <1>2. /\ pos + 1 \in 1..Len(Script) /\ Script[pos + 1] = c /\ c \in ScriptCommands
        /\ Scripted(Script) /\ pos \in Nat
    BY NextCommand DEF ReplicaInv, Replica!DoSet
  <1>3. c.key \in ScriptKeys /\ c.val \in Nat /\ e \in Entries /\ e.key = c.key /\ e.val = c.val
    BY <1>2 DEF ScriptCommands, Entries
  <1>4. stream \in Seq(Entries) /\ n \in Nat
    BY DEF ReplicaInv, ReplicaShapes
  <1> HIDE DEF c, e, n
  <1>5. /\ stream' \in Seq(Entries) /\ Len(stream') = n + 1 /\ stream'[n + 1] = e
        /\ \A i \in 1..n : stream'[i] = stream[i]
    BY <1>1, <1>3, <1>4 DEF n
  <1>6. Script' = Script
    BY <1>1 DEF Script
  <1>7. ReplicaShapes'
    <2>1. \A r \in {"r1", "r2"} : acked[r] <= applied[r] /\ applied[r] <= n + 1
      BY <1>4 DEF ReplicaInv, ReplicaShapes, n
    <2> QED
      BY <1>1, <1>2, <1>5, <1>6, <2>1 DEF ReplicaInv, ReplicaShapes
  <1>8. FromScript'
    <2>1. \A i \in 1..n : \E q \in 1..pos :
            Sets(Script, q, stream[i].key) /\ Script[q].val = stream[i].val
      BY DEF ReplicaInv, StreamInv, FromScript, n
    <2>2. ASSUME NEW i \in 1..n + 1
          PROVE  \E q \in 1..pos + 1 :
                   Sets(Script, q, stream'[i].key) /\ Script[q].val = stream'[i].val
      <3>1. CASE i = n + 1
        BY <1>1, <1>2, <1>3, <1>5, <3>1 DEF Sets
      <3>2. CASE i # n + 1
        <4>1. i \in 1..n
          BY <1>4, <3>2
        <4>2. PICK q \in 1..pos : Sets(Script, q, stream[i].key) /\ Script[q].val = stream[i].val
          BY <2>1, <4>1
        <4>3. q \in 1..pos + 1
          BY <1>2
        <4> QED
          BY <1>5, <4>1, <4>2, <4>3
      <3> QED
        BY <3>1, <3>2
    <2> QED
      BY <1>1, <1>5, <1>6, <2>2 DEF FromScript
  <1>9. InStream'
    <2> SUFFICES ASSUME \A q \in 1..Len(Script) : Script[q].op # "probe",
                        NEW q \in 1..pos + 1, Script[q].op = "set"
                 PROVE  \E i \in 1..n + 1 : /\ stream'[i].key = Script[q].key
                                            /\ stream'[i].val = Script[q].val
      BY <1>1, <1>5, <1>6 DEF InStream
    <2>1. CASE q = pos + 1
      BY <1>2, <1>3, <1>4, <1>5, <2>1
    <2>2. CASE q # pos + 1
      <3>1. q \in 1..pos
        BY <1>2, <2>2
      <3>2. PICK i \in 1..n : stream[i].key = Script[q].key /\ stream[i].val = Script[q].val
        BY <3>1 DEF ReplicaInv, StreamInv, InStream, n
      <3>3. i \in 1..n + 1
        BY <1>4
      <3> QED
        BY <1>5, <3>2, <3>3
    <2> QED
      BY <2>1, <2>2
  <1>10. Climbing(stream')
    <2> SUFFICES ASSUME NEW i \in 1..n + 1, NEW j \in 1..n + 1, i < j,
                        stream'[i].key = stream'[j].key, stream'[i].val \in 1..Trials
                 PROVE  stream'[j].val \in stream'[i].val..Trials
      BY <1>5 DEF Climbing
    <2>1. i \in 1..n
      BY <1>4
    <2>2. CASE j # n + 1
      <3>1. j \in 1..n
        BY <1>4, <2>2
      <3> QED
        BY <1>5, <2>1, <3>1 DEF ReplicaInv, StreamInv, Climbing, n
    <2>3. CASE j = n + 1
      <3>1. PICK q \in 1..pos : Sets(Script, q, stream[i].key) /\ Script[q].val = stream[i].val
        BY <2>1 DEF ReplicaInv, StreamInv, FromScript, n
      <3>2. /\ q \in 1..Len(Script) /\ q < pos + 1
            /\ Sets(Script, pos + 1, c.key) /\ stream[i].key = c.key
            /\ Script[q].val \in 1..Trials
        BY <1>1, <1>2, <1>3, <1>5, <2>1, <2>3, <3>1 DEF Sets
      <3>3. Script[pos + 1].val \in Script[q].val..Trials
        BY <1>2, <1>3, <3>1, <3>2 DEF Scripted, Climbs
      <3> QED
        BY <1>2, <1>3, <1>5, <2>1, <2>3, <3>1, <3>3
    <2> QED
      BY <2>2, <2>3
  <1>11. PostsFirst(stream')
    <2> SUFFICES ASSUME NEW j \in 1..n + 1, stream'[j].key = "reply",
                        stream'[j].val # Replica!Nil
                 PROVE  \E m \in 1..n + 1 :
                          m < j /\ stream'[m].key = "post" /\ stream'[m].val \in 1..Trials
      BY <1>5 DEF PostsFirst
    <2>1. CASE j # n + 1
      <3>1. j \in 1..n
        BY <1>4, <2>1
      <3>2. PICK m \in 1..n : m < j /\ stream[m].key = "post" /\ stream[m].val \in 1..Trials
        BY <1>5, <3>1 DEF ReplicaInv, StreamInv, PostsFirst, n
      <3>3. m \in 1..n + 1
        BY <1>4
      <3> QED
        BY <1>5, <3>2, <3>3
    <2>2. CASE j = n + 1
      <3>1. Sets(Script, pos + 1, "reply") /\ Script[pos + 1].val # Replica!Nil
        BY <1>1, <1>2, <1>3, <1>5, <2>2 DEF Sets
      <3>2. /\ \E p \in 1..Len(Script) :
                 p < pos + 1 /\ Sets(Script, p, "post") /\ Script[p].val \in 1..Trials
            /\ \A p \in 1..Len(Script) : Script[p].op # "probe"
        BY <1>2, <3>1 DEF Scripted, RepliesLast
      <3>3. PICK p \in 1..Len(Script) :
              p < pos + 1 /\ Sets(Script, p, "post") /\ Script[p].val \in 1..Trials
        BY <3>2
      <3>4. p \in 1..pos /\ Script[p].op = "set" /\ Script[p].key = "post"
        BY <1>2, <3>3 DEF Sets
      <3>5. PICK m \in 1..n : stream[m].key = Script[p].key /\ stream[m].val = Script[p].val
        BY <3>2, <3>4 DEF ReplicaInv, StreamInv, InStream, n
      <3>6. m \in 1..n + 1 /\ m < j
        BY <1>4, <2>2
      <3> QED
        BY <1>5, <3>3, <3>4, <3>5, <3>6
    <2> QED
      BY <2>1, <2>2
  <1>12. StillThere'
    <2>1. \A node \in ReplicaNodes : Has(stream', applied', node) >= Has(stream, applied, node)
      <3> TAKE node \in ReplicaNodes
      <3>1. Has(stream, applied, node) \in Nat
        BY HasPrefix, <1>4 DEF ReplicaInv
      <3>2. Has(stream', applied', node) = IF node = "master" THEN n + 1 ELSE Has(stream, applied, node)
        BY <1>1, <1>5 DEF Has
      <3>3. node = "master" => Has(stream, applied, node) = n
        BY DEF Has, n
      <3> QED
        BY <1>4, <3>1, <3>2, <3>3
    <2>2. Len(stream') >= Len(stream) /\ \A i \in 1..Len(stream) : stream'[i] = stream[i]
      BY <1>4, <1>5 DEF n
    <2> QED
      BY <1>1, <1>7, <1>10, <2>1, <2>2, StillThereGrows DEF ReplicaInv, AnswersInv
  <1>13. AnswersInv'
    <2>1. EveryoneAcked'
      BY <1>1, TwoReplicas DEF EveryoneAcked
    <2> QED
      BY <1>1, <1>12, <2>1 DEF ReplicaInv, AnswersInv
  <1> QED
    BY <1>7, <1>8, <1>9, <1>10, <1>11, <1>13 DEF ReplicaInv, StreamInv

\* A step of the script, or of a replica, that leaves the stream alone.
LEMMA StreamInvStays ==
    ASSUME ReplicaInv, UNCHANGED <<stream, phase>>,
           \/ pos' = pos
           \/ /\ pos' = pos + 1 /\ Replica!Running /\ Replica!Command.op # "set"
           \/ /\ pos' = Len(Script) /\ Replica!Running /\ Replica!Command.op = "probe"
    PROVE  /\ StreamInv' /\ Script' = Script /\ pos' \in 0..Len(Script)
  <1>1. Script' = Script /\ pos \in 0..Len(Script)
    BY DEF Script, ReplicaInv, ReplicaShapes
  <1>2. Climbing(stream') /\ PostsFirst(stream')
    BY DEF ReplicaInv, StreamInv
  <1>3. Scripted(Script) /\ Script \in Seq(ScriptCommands)
    BY EveryScript DEF ReplicaInv, ReplicaShapes, Script, Scripted
  <1>4. /\ pos \in Nat /\ Len(Script) \in Nat /\ pos' \in 0..Len(Script) /\ pos <= pos'
        /\ Replica!Running => pos + 1 \in 1..Len(Script) /\ Script[pos + 1] = Replica!Command
    <2>1. Replica!Running => pos + 1 \in 1..Len(Script) /\ Script[pos + 1] = Replica!Command
      BY NextCommand DEF ReplicaInv
    <2> QED
      BY <1>1, <1>3, <2>1
  <1>5. FromScript'
    <2> SUFFICES ASSUME NEW n \in 1..Len(stream)
                 PROVE  \E q \in 1..pos' :
                          Sets(Script, q, stream[n].key) /\ Script[q].val = stream[n].val
      BY <1>1 DEF FromScript
    <2>1. PICK q \in 1..pos : Sets(Script, q, stream[n].key) /\ Script[q].val = stream[n].val
      BY DEF ReplicaInv, StreamInv, FromScript
    <2>2. q \in 1..pos'
      BY <1>4
    <2> QED
      BY <2>1, <2>2
  <1>6. InStream'
    <2> SUFFICES ASSUME \A q \in 1..Len(Script) : Script[q].op # "probe",
                        NEW q \in 1..pos', Script[q].op = "set"
                 PROVE  \E n \in 1..Len(stream) : /\ stream[n].key = Script[q].key
                                                  /\ stream[n].val = Script[q].val
      BY <1>1 DEF InStream
    <2>1. q \in 1..pos
      <3>1. CASE pos' = pos
        BY <3>1
      <3>2. CASE Replica!Running /\ Replica!Command.op = "probe"
        BY <1>4, <3>2
      <3>3. CASE pos' = pos + 1 /\ Replica!Running /\ Replica!Command.op # "set"
        <4>1. q # pos + 1
          BY <1>4, <3>3
        <4> QED
          BY <1>4, <3>3, <4>1
      <3> QED
        BY <3>1, <3>2, <3>3
    <2> QED
      BY <2>1 DEF ReplicaInv, StreamInv, InStream
  <1> QED
    BY <1>1, <1>2, <1>4, <1>5, <1>6 DEF StreamInv

LEMMA ReadsAreValues ==
    \A node, key : Replica!ReadAt(node, key) = ValueIn(stream, key, Has(stream, applied, node))
  BY DEF Replica!ReadAt, Replica!ValueAt, Replica!Prefix, ValueIn, Has

LEMMA GetStep ==
    ASSUME ReplicaInv, Replica!DoGet
    PROVE  ReplicaInv'
  <1> DEFINE c == Replica!Command
             a == Replica!Answer
             k == Len(gets)
             p == Has(stream, applied, c.on)
  <1>1. /\ c.op \in {"get", "probe"} /\ gets' = Append(gets, a)
        /\ UNCHANGED <<stream, applied, acked, phase, acks>>
        /\ \/ pos' = pos + 1
           \/ c.op = "probe" /\ pos' = Len(Script)
    BY DEF Replica!DoGet, Script
  <1>2. Replica!Running /\ c \in ScriptCommands
    BY NextCommand DEF ReplicaInv, Replica!DoGet
  <1>3. StreamInv' /\ Script' = Script /\ pos' \in 0..Len(Script)
    BY <1>1, <1>2, StreamInvStays
  <1>4. c.on \in ReplicaNodes /\ c.key \in ScriptKeys
    BY <1>2 DEF ScriptCommands, ReplicaNodes
  <1>5. stream \in Seq(Entries) /\ gets \in Seq(Gets) /\ k \in Nat /\ acks \in Nat
    BY DEF ReplicaInv, ReplicaShapes
  <1>6. /\ a.on = c.on /\ a.key = c.key /\ a.acks = acks
        /\ a.val = ValueIn(stream, c.key, p) /\ a.wrote = ValueIn(stream, c.key, Len(stream))
        /\ a.post = ValueIn(stream, "post", p)
    <2>1. Replica!ValueAt(c.key, Len(stream)) = ValueIn(stream, c.key, Len(stream))
      BY DEF Replica!ValueAt, ValueIn
    <2> QED
      BY <2>1, ReadsAreValues DEF Replica!Answer
  <1>7. p \in 0..Len(stream) /\ Len(stream) \in 0..Len(stream)
    BY <1>4, <1>5, HasPrefix DEF ReplicaInv
  <1>8. a \in Gets
    <2>1. a = [on |-> a.on, key |-> a.key, val |-> a.val, wrote |-> a.wrote, acks |-> a.acks,
               post |-> a.post]
      BY DEF Replica!Answer
    <2>2. a.val \in Nat /\ a.wrote \in Nat /\ a.post \in Nat
      BY <1>5, <1>6, <1>7, ValuesTyped
    <2> HIDE DEF a
    <2> QED
      BY <1>4, <1>5, <1>6, <2>1, <2>2 DEF Gets
  <1> HIDE DEF a, c, k
  <1>9. /\ gets' \in Seq(Gets) /\ Len(gets') = k + 1 /\ gets'[k + 1] = a
        /\ \A i \in 1..k : gets'[i] = gets[i]
    BY <1>1, <1>5, <1>8 DEF k
  <1>10. ReplicaShapes'
    BY <1>1, <1>3, <1>9 DEF ReplicaInv, ReplicaShapes
  <1>11. EveryoneAcked' /\ EveryoneAcked
    BY <1>1 DEF ReplicaInv, AnswersInv, EveryoneAcked
  <1>12. StillThere'
    <2> SUFFICES ASSUME NEW i \in 1..k + 1, gets'[i].val \in 1..Trials
                 PROVE  ValueIn(stream, gets'[i].key, Has(stream, applied, gets'[i].on))
                          \in gets'[i].val..Trials
      BY <1>1, <1>9 DEF StillThere
    <2>1. CASE i = k + 1
      BY <1>6, <1>9, <2>1, TwoReplicas
    <2>2. CASE i # k + 1
      <3>1. i \in 1..k
        BY <1>5, <2>2
      <3> QED
        BY <1>9, <3>1 DEF ReplicaInv, AnswersInv, StillThere, k
    <2> QED
      BY <2>1, <2>2
  <1>13. a.acks = Cardinality({"r1", "r2"}) => a.val = a.wrote
    <2> SUFFICES ASSUME acks = Cardinality({"r1", "r2"})
                 PROVE  p = Len(stream)
      BY <1>6
    <2>1. \A r \in {"r1", "r2"} : applied[r] = Len(stream)
      <3>1. \A r \in {"r1", "r2"} : /\ acked[r] <= applied[r] /\ applied[r] <= Len(stream)
                                    /\ acked[r] \in Nat /\ applied[r] \in Nat
        BY DEF ReplicaInv, ReplicaShapes
      <3>2. \A r \in {"r1", "r2"} : acked[r] = Len(stream)
        BY <1>11 DEF EveryoneAcked
      <3> QED
        BY <1>5, <3>1, <3>2
    <2> QED
      BY <1>4, <2>1 DEF ReplicaNodes, Has
  <1>14. a.key = "reply" /\ a.val # Replica!Nil => a.post # Replica!Nil
    BY <1>5, <1>6, <1>7, ReplyBringsPost DEF ReplicaInv, StreamInv
  <1>15. \A i \in 1..k : gets[i].on = a.on /\ gets[i].key = a.key /\ gets[i].val \in 1..Trials
            => gets[i].val <= a.val
    <2> SUFFICES ASSUME NEW i \in 1..k, gets[i].on = a.on, gets[i].key = a.key,
                        gets[i].val \in 1..Trials
                 PROVE  gets[i].val <= a.val
      OBVIOUS
    <2>1. a.val \in gets[i].val..Trials
      BY <1>6 DEF ReplicaInv, AnswersInv, StillThere, k
    <2> QED
      BY <2>1, TwoReplicas
  <1>16. AnswersInv'
    <2>1. ASSUME NEW i \in 1..k + 1
          PROVE  /\ gets'[i].acks = Cardinality({"r1", "r2"}) => gets'[i].val = gets'[i].wrote
                 /\ gets'[i].key = "reply" /\ gets'[i].val # Replica!Nil
                      => gets'[i].post # Replica!Nil
      <3>1. CASE i = k + 1
        BY <1>9, <1>13, <1>14, <3>1
      <3>2. CASE i # k + 1
        <4>1. i \in 1..k
          BY <1>5, <3>2
        <4> QED
          BY <1>9, <4>1 DEF ReplicaInv, AnswersInv, k
      <3> QED
        BY <3>1, <3>2
    <2>2. ASSUME NEW i \in 1..k + 1, NEW j \in 1..k + 1, i < j, gets'[i].on = gets'[j].on,
                 gets'[i].key = gets'[j].key, gets'[i].val \in 1..Trials
          PROVE  gets'[i].val <= gets'[j].val
      <3>1. i \in 1..k
        BY <1>5, <2>2
      <3>2. CASE j = k + 1
        BY <1>9, <1>15, <2>2, <3>1, <3>2
      <3>3. CASE j # k + 1
        <4>1. j \in 1..k
          BY <1>5, <3>3
        <4>2. /\ gets'[i] = gets[i] /\ gets'[j] = gets[j]
          BY <1>9, <3>1, <4>1
        <4> QED
          BY <2>2, <3>1, <4>1, <4>2 DEF ReplicaInv, AnswersInv, k
      <3> QED
        BY <3>2, <3>3
    <2> QED
      BY <1>1, <1>9, <1>11, <1>12, <2>1, <2>2 DEF AnswersInv
  <1> QED
    BY <1>3, <1>10, <1>16 DEF ReplicaInv

LEMMA WaitStep ==
    ASSUME ReplicaInv, Replica!DoWait
    PROVE  ReplicaInv'
  <1>1. /\ Replica!Running /\ Replica!Command.op \in {"wait", "waitIfSeen"}
        /\ acks' = Replica!Cardinality(Replica!Acknowledged) /\ pos' = pos + 1
        /\ UNCHANGED <<stream, applied, acked, phase, gets>>
    BY DEF Replica!DoWait
  <1>2. Replica!Acknowledged \subseteq {"r1", "r2"}
    BY TwoReplicas DEF Replica!Acknowledged
  <1>3. /\ acks' = Cardinality(Replica!Acknowledged) /\ acks' \in Nat
        /\ acks' = Cardinality({"r1", "r2"}) => Replica!Acknowledged = {"r1", "r2"}
    <2>1. acks' = Cardinality(Replica!Acknowledged)
      BY <1>1 DEF Replica!Cardinality, Cardinality
    <2> QED
      BY <1>2, <2>1, TwoReplicas, FS_Subset, FS_CardinalityType
  <1>4. StreamInv' /\ Script' = Script /\ pos' \in 0..Len(Script)
    BY <1>1, StreamInvStays
  <1>5. ReplicaShapes'
    BY <1>1, <1>3, <1>4 DEF ReplicaInv, ReplicaShapes
  <1>6. EveryoneAcked'
    BY <1>1, <1>3 DEF EveryoneAcked, Replica!Acknowledged
  <1>7. StillThere'
    BY <1>1 DEF ReplicaInv, AnswersInv, StillThere
  <1> QED
    BY <1>1, <1>4, <1>5, <1>6, <1>7 DEF ReplicaInv, AnswersInv

LEMMA SkipStep ==
    ASSUME ReplicaInv, Replica!SkipWait
    PROVE  ReplicaInv'
  <1>1. /\ Replica!Running /\ Replica!Command.op = "waitIfSeen" /\ pos' = pos + 1
        /\ UNCHANGED <<stream, applied, acked, phase, acks, gets>>
    BY DEF Replica!SkipWait
  <1>2. StreamInv' /\ Script' = Script /\ pos' \in 0..Len(Script)
    BY <1>1, StreamInvStays
  <1>3. ReplicaShapes'
    BY <1>1, <1>2 DEF ReplicaInv, ReplicaShapes
  <1>4. AnswersInv'
    BY <1>1 DEF ReplicaInv, AnswersInv, EveryoneAcked, StillThere
  <1> QED
    BY <1>2, <1>3, <1>4 DEF ReplicaInv

LEMMA ApplyStep ==
    ASSUME ReplicaInv, NEW r \in Replicas, Replica!Apply(r)
    PROVE  ReplicaInv'
  <1>1. /\ r \in {"r1", "r2"} /\ applied[r] < Len(stream)
        /\ applied' = [applied EXCEPT ![r] = @ + 1]
        /\ UNCHANGED <<stream, acked, phase, pos, acks, gets>>
    BY TwoReplicas DEF Replica!Apply
  <1>2. /\ applied \in [{"r1", "r2"} -> Nat] /\ acked \in [{"r1", "r2"} -> Nat]
        /\ stream \in Seq(Entries) /\ Len(stream) \in Nat
        /\ \A s \in {"r1", "r2"} : acked[s] <= applied[s] /\ applied[s] <= Len(stream)
    BY DEF ReplicaInv, ReplicaShapes
  <1>3. StreamInv' /\ Script' = Script /\ pos' \in 0..Len(Script)
    BY <1>1, StreamInvStays
  <1>4. /\ applied' \in [{"r1", "r2"} -> Nat]
        /\ \A s \in {"r1", "r2"} : /\ acked[s] <= applied'[s] /\ applied'[s] <= Len(stream)
                                   /\ applied[s] <= applied'[s]
    BY <1>1, <1>2
  <1>5. ReplicaShapes'
    BY <1>1, <1>3, <1>4 DEF ReplicaInv, ReplicaShapes
  <1>6. StillThere'
    <2>1. \A node \in ReplicaNodes : Has(stream', applied', node) >= Has(stream, applied, node)
      BY <1>1, <1>2, <1>4 DEF Has, ReplicaNodes
    <2>2. Len(stream') >= Len(stream) /\ \A i \in 1..Len(stream) : stream'[i] = stream[i]
      BY <1>1, <1>2
    <2>3. ReplicaShapes /\ StillThere /\ Climbing(stream')
      BY <1>3 DEF ReplicaInv, AnswersInv, StreamInv
    <2> QED
      BY <1>1, <1>5, <2>1, <2>2, <2>3, StillThereGrows
  <1>7. AnswersInv'
    BY <1>1, <1>6 DEF ReplicaInv, AnswersInv, EveryoneAcked
  <1> QED
    BY <1>3, <1>5, <1>7 DEF ReplicaInv

LEMMA ReportStep ==
    ASSUME ReplicaInv, NEW r \in Replicas, Replica!Report(r)
    PROVE  ReplicaInv'
  <1>1. /\ r \in {"r1", "r2"} /\ acked[r] < applied[r]
        /\ acked' = [acked EXCEPT ![r] = applied[r]]
        /\ UNCHANGED <<stream, applied, phase, pos, acks, gets>>
    BY TwoReplicas DEF Replica!Report
  <1>2. /\ applied \in [{"r1", "r2"} -> Nat] /\ acked \in [{"r1", "r2"} -> Nat]
        /\ Len(stream) \in Nat
        /\ \A s \in {"r1", "r2"} : acked[s] <= applied[s] /\ applied[s] <= Len(stream)
    BY DEF ReplicaInv, ReplicaShapes
  <1>3. StreamInv' /\ Script' = Script /\ pos' \in 0..Len(Script)
    BY <1>1, StreamInvStays
  <1>4. /\ acked' \in [{"r1", "r2"} -> Nat]
        /\ \A s \in {"r1", "r2"} : acked'[s] <= applied[s]
    BY <1>1, <1>2
  <1>5. ReplicaShapes'
    BY <1>1, <1>2, <1>3, <1>4 DEF ReplicaInv, ReplicaShapes
  <1>6. EveryoneAcked'
    BY <1>1, <1>2 DEF ReplicaInv, AnswersInv, EveryoneAcked
  <1>7. AnswersInv'
    BY <1>1, <1>6 DEF ReplicaInv, AnswersInv, StillThere
  <1> QED
    BY <1>3, <1>5, <1>7 DEF ReplicaInv

LEMMA ReplicaInvStep ==
    ASSUME ReplicaInv, Replica!Next \/ UNCHANGED replicaVars
    PROVE  ReplicaInv'
  <1>1. CASE UNCHANGED replicaVars
    <2>1. UNCHANGED <<stream, applied, acked, phase, pos, acks, gets>>
      BY <1>1 DEF replicaVars
    <2>2. StreamInv' /\ Script' = Script
      BY <2>1, StreamInvStays
    <2>3. ReplicaShapes'
      BY <2>1, <2>2 DEF ReplicaInv, ReplicaShapes
    <2>4. AnswersInv'
      BY <2>1 DEF ReplicaInv, AnswersInv, EveryoneAcked, StillThere
    <2> QED
      BY <2>2, <2>3, <2>4 DEF ReplicaInv
  <1>2. Replica!End => UNCHANGED replicaVars
    BY DEF Replica!End, Replica!vars, replicaVars
  <1> QED
    BY <1>1, <1>2, SetStep, GetStep, WaitStep, SkipStep, ApplyStep, ReportStep DEF Replica!Next

\* What the three phases ask of a replica.
LEMMA ReplicaInvHonest ==
    ASSUME ReplicaInv
    PROVE  Replica!ReplicasAreHonest
  <1>1. DOMAIN gets = 1..Len(gets)
    BY DEF ReplicaInv, ReplicaShapes
  <1>2. Replica!Cardinality(Replicas) = Cardinality({"r1", "r2"})
    BY TwoReplicas DEF Replica!Cardinality, Cardinality
  <1>3. Replica!AckedReadsAreFresh
    BY <1>1, <1>2 DEF ReplicaInv, AnswersInv, Replica!AckedReadsAreFresh
  <1>4. Replica!ReadsAreMonotonic
    BY <1>1 DEF ReplicaInv, AnswersInv, Replica!ReadsAreMonotonic
  <1>5. Replica!RepliesFollowPosts
    BY <1>1 DEF ReplicaInv, AnswersInv, Replica!RepliesFollowPosts
  <1> QED
    BY <1>3, <1>4, <1>5 DEF Replica!ReplicasAreHonest

(***************************************************************************)
(* The partition. One commit of the synchronous write at most, which the    *)
(* replica has written before it is reported; the session's position is its  *)
(* own write's, and never hidden behind the commit that waits.               *)
(***************************************************************************)
Before == {"setup", "lag", "poll", "stop", "ap", "configure"}
After == {"start", "reset", "heal", "write", "check", "readReplica", "end"}

CapShapes ==
    /\ wal \in Seq(Nat)
    /\ replayed <= receivedLsn /\ receivedLsn <= Len(wal)
    /\ replayed \in Nat /\ receivedLsn \in Nat
    /\ main \in Before \cup {"join"} \cup After
    /\ syncWrite \in {"none", "started", "waiting", "committed"}
    /\ session \in [lsn : Nat, read : Nat]
    /\ report \in [sync : {"", "success", "timedOut"},
                   heal : {"", "none", "polling", "caught up", "catching up"}]

\* The commits of the synchronous write.
Commits(w) == {i \in 1..Len(w) : w[i] = Replica!Cp}

CapSync ==
    /\ \A i, j \in Commits(wal) : i = j
    /\ syncWrite \in {"none", "started"} => Commits(wal) = {}
    /\ syncWrite \in {"waiting", "committed"} => Commits(wal) # {}
    /\ main \in Before => syncWrite = "none" /\ report.sync = ""
    /\ main = "setup" => wal = <<>>
    /\ main = "join" => syncNames = TRUE /\ report.sync = ""
    /\ main = "join" /\ syncWrite = "committed" => \A i \in Commits(wal) : i <= receivedLsn
    /\ report.sync = "success" =>
         syncWrite = "committed" /\ \A i \in Commits(wal) : i <= receivedLsn

CapSession ==
    /\ session.read <= Len(wal)
    /\ main # "end" => session.read = 0
    /\ session.read # 0 => \E i \in 1..session.read : wal[i] = Replica!Ryw
    /\ main \in {"check", "readReplica"} =>
         session.lsn \in 1..Len(wal) /\ wal[session.lsn] = Replica!Ryw
    /\ main = "check" /\ syncWrite = "waiting" => session.lsn < Len(wal)
    /\ main = "readReplica" => session.lsn <= replayed

CapInv == CapShapes /\ CapSync /\ CapSession

LEMMA CapInvInit ==
    ASSUME Replica!CapInit
    PROVE  CapInv
  <1>1. /\ wal = <<>> /\ receivedLsn = 0 /\ replayed = 0 /\ syncWrite = "none" /\ main = "setup"
        /\ session = [lsn |-> 0, read |-> 0] /\ report = [sync |-> "", heal |-> ""]
    BY DEF Replica!CapInit
  <1>2. wal \in Seq(Nat) /\ Len(wal) = 0 /\ Commits(wal) = {}
    <2>0. wal = <<>>
      BY DEF Replica!CapInit
    <2>1. wal \in Seq(Nat) /\ Len(wal) = 0
      BY <2>0
    <2>2. \A i : i \notin 1..Len(wal)
      BY <2>1
    <2> QED
      BY <2>1, <2>2 DEF Commits
  <1>3. CapShapes
    <2>1. session \in [lsn : Nat, read : Nat]
      BY <1>1
    <2>2. report \in [sync : {"", "success", "timedOut"},
                     heal : {"", "none", "polling", "caught up", "catching up"}]
      BY <1>1
    <2>3. main \in Before /\ syncWrite \in {"none", "started", "waiting", "committed"}
      BY <1>1 DEF Before
    <2>4. /\ replayed <= receivedLsn /\ receivedLsn <= Len(wal)
          /\ replayed \in Nat /\ receivedLsn \in Nat
      <3>1. replayed = 0 /\ receivedLsn = 0
        BY DEF Replica!CapInit
      <3> QED
        BY <1>2, <3>1
    <2> QED
      BY <1>2, <2>1, <2>2, <2>3, <2>4 DEF CapShapes
  <1>4. CapSync
    <2>1. report.sync = "" /\ Commits(wal) = {} /\ syncWrite = "none" /\ main # "join"
          /\ wal = <<>>
      BY <1>1, <1>2
    <2> QED
      BY <2>1 DEF CapSync
  <1>5. CapSession
    <2>1. session.read = 0 /\ main \notin {"check", "readReplica"}
      BY <1>1
    <2> QED
      BY <1>2, <2>1 DEF CapSession
  <1> QED
    BY <1>3, <1>4, <1>5 DEF CapInv

\* The primary appends a balance.
LEMMA WalAppended ==
    ASSUME NEW w \in Seq(Nat), NEW b \in Nat
    PROVE  LET a == Append(w, b)
           IN  /\ a \in Seq(Nat) /\ Len(w) \in Nat /\ Len(a) = Len(w) + 1 /\ a[Len(w) + 1] = b
               /\ \A i \in 1..Len(w) : a[i] = w[i]
               /\ b # Replica!Cp => Commits(a) = Commits(w)
               /\ b = Replica!Cp => Commits(a) = Commits(w) \cup {Len(w) + 1}
  <1> DEFINE a == Append(w, b)
  <1>1. /\ a \in Seq(Nat) /\ Len(w) \in Nat /\ Len(a) = Len(w) + 1 /\ a[Len(w) + 1] = b
        /\ \A i \in 1..Len(w) : a[i] = w[i]
    OBVIOUS
  <1> HIDE DEF a
  <1>2. \A i : i \in 1..Len(a) <=> i \in 1..Len(w) \/ i = Len(w) + 1
    BY <1>1
  <1>3. b # Replica!Cp => Commits(a) = Commits(w)
    BY <1>1, <1>2 DEF Commits
  <1>4. b = Replica!Cp => Commits(a) = Commits(w) \cup {Len(w) + 1}
    BY <1>1, <1>2 DEF Commits
  <1> QED
    BY <1>1, <1>3, <1>4 DEF a

\* A write of the script.
LEMMA WriteInv ==
    ASSUME CapInv, NEW b \in {Replica!Lag, Replica!Ap, Replica!Ryw}, Replica!WriteAccount(b),
           \/ main \in {"lag", "ap"} /\ main' \in Before \ {"setup"}
           \/ main = "write" /\ main' = "check" /\ b = Replica!Ryw,
           UNCHANGED <<receivedLsn, replayed, syncNames, syncWrite, report>>
    PROVE  CapInv'
  <1>0. /\ syncWrite # "waiting" /\ wal' = Append(wal, b)
        /\ session' = [session EXCEPT !.lsn = Len(wal')]
    BY DEF Replica!WriteAccount
  <1>1. b \in Nat /\ b # Replica!Cp
    BY DEF Replica!Lag, Replica!Ap, Replica!Ryw, Replica!Cp
  <1>2. /\ wal \in Seq(Nat)
        /\ replayed <= receivedLsn /\ receivedLsn <= Len(wal)
        /\ replayed \in Nat /\ receivedLsn \in Nat /\ session \in [lsn : Nat, read : Nat]
    BY DEF CapInv, CapShapes
  <1>3. /\ wal' \in Seq(Nat) /\ Len(wal) \in Nat /\ Len(wal') = Len(wal) + 1
        /\ wal'[Len(wal) + 1] = b
        /\ \A i \in 1..Len(wal) : wal'[i] = wal[i]
        /\ Commits(wal') = Commits(wal)
    BY <1>0, <1>1, <1>2, WalAppended
  <1>4. /\ session' \in [lsn : Nat, read : Nat] /\ session'.read = session.read
        /\ session'.lsn = Len(wal) + 1
    <2>1. session' = [session EXCEPT !.lsn = Len(wal) + 1] /\ session \in [lsn : Nat, read : Nat]
      BY <1>0, <1>2, <1>3
    <2> QED
      BY <1>3, <2>1
  <1>5. CapShapes'
    <2>1. /\ receivedLsn <= Len(wal') /\ main' \in Before \cup {"join"} \cup After
      BY <1>2, <1>3 DEF Before, After
    <2> QED
      BY <1>3, <1>4, <2>1 DEF CapInv, CapShapes
  <1>6. CapSync'
    <2>1. main' # "setup" /\ main' # "join" /\ (main' \in Before => main \in Before)
      BY DEF Before
    <2> QED
      BY <1>3, <2>1 DEF CapInv, CapSync
  <1>7. CapSession'
    <2>1. session'.read = 0 /\ main' \notin {"end", "readReplica"}
      BY <1>4 DEF CapInv, CapSession, Before
    <2>2. main' = "check" => main = "write" /\ b = Replica!Ryw
      BY DEF Before
    <2> QED
      BY <1>0, <1>2, <1>3, <1>4, <2>1, <2>2 DEF CapSession
  <1> QED
    BY <1>5, <1>6, <1>7 DEF CapInv

\* A step that leaves the log and the position of the replica alone.

\* What the steps that leave the log alone are about.
LEMMA CapRecords ==
    ASSUME CapInv
    PROVE  /\ session \in [lsn : Nat, read : Nat]
           /\ report \in [sync : {"", "success", "timedOut"},
                          heal : {"", "none", "polling", "caught up", "catching up"}]
  BY DEF CapInv, CapShapes

LEMMA CapFacts ==
    ASSUME CapInv
    PROVE  /\ wal \in Seq(Nat) /\ Len(wal) \in Nat /\ replayed \in Nat /\ receivedLsn \in Nat
           /\ replayed <= receivedLsn /\ receivedLsn <= Len(wal)
           /\ session.lsn \in Nat /\ session.read \in Nat
           /\ \A i \in Commits(wal) : i \in Nat /\ i <= Len(wal)
           /\ Commits(wal) # {} => Replica!SyncPosition \in Commits(wal)
  <1>1. /\ wal \in Seq(Nat) /\ replayed \in Nat /\ receivedLsn \in Nat
        /\ replayed <= receivedLsn /\ receivedLsn <= Len(wal)
    BY DEF CapInv, CapShapes
  <1>2. DOMAIN wal = 1..Len(wal) /\ Len(wal) \in Nat
    <2>1. wal \in Seq(Nat)
      BY <1>1
    <2> QED
      BY ONLY <2>1
  <1>3. Commits(wal) # {} => Replica!SyncPosition \in Commits(wal)
    BY <1>2 DEF Commits, Replica!SyncPosition
  <1>4. \A i \in Commits(wal) : i \in Nat /\ i <= Len(wal)
    BY <1>2 DEF Commits
  <1>5. session.lsn \in Nat /\ session.read \in Nat
    BY CapRecords
  <1> QED
    BY <1>1, <1>2, <1>3, <1>4, <1>5

\* The script goes on, and touches neither the log nor the replica.
LEMMA ScriptGoesOn ==
    ASSUME CapInv, UNCHANGED <<wal, receivedLsn, replayed, session>>,
           syncWrite' \in {syncWrite, "started"}, syncWrite' # syncWrite => syncWrite = "none",
           main' \in Before \cup {"join"} \cup After,
           main' \in Before => main \in Before /\ syncWrite' = syncWrite,
           main' = "join" => syncNames' = TRUE /\ main \in Before,
           main' # "setup", main' = "check" => main = "check",
           main' = "readReplica" => main = "check" /\ session.lsn <= replayed,
           main = "end" => main' = "end",
           report' \in [sync : {report.sync},
                        heal : {"", "none", "polling", "caught up", "catching up"}]
    PROVE  CapInv'
  <1>1. CapShapes'
    <2>1. /\ syncWrite' \in {"none", "started", "waiting", "committed"}
          /\ report.sync \in {"", "success", "timedOut"}
      BY DEF CapInv, CapShapes
    <2>2. report' \in [sync : {"", "success", "timedOut"},
                       heal : {"", "none", "polling", "caught up", "catching up"}]
      BY <2>1
    <2> QED
      BY <2>1, <2>2 DEF CapInv, CapShapes
  <1>2. report'.sync = report.sync
    OBVIOUS
  <1>3. "check" \notin Before /\ "readReplica" \notin Before /\ "join" \notin Before
    BY DEF Before
  <1>4. CapSync'
    <2>1. syncWrite' = syncWrite \/ (syncWrite' = "started" /\ syncWrite = "none")
      OBVIOUS
    <2>2. report.sync = "success" => syncWrite' = syncWrite
      BY <2>1 DEF CapInv, CapSync
    <2>3. main' \in Before => syncWrite' = "none" /\ report'.sync = ""
      BY <1>2 DEF CapInv, CapSync
    <2>4. main' = "join" => /\ syncNames' = TRUE /\ report'.sync = ""
                            /\ syncWrite' # "committed"
      BY <1>2, <2>1 DEF CapInv, CapSync
    <2>5. /\ \A i, j \in Commits(wal') : i = j
          /\ syncWrite' \in {"none", "started"} => Commits(wal') = {}
          /\ syncWrite' \in {"waiting", "committed"} => Commits(wal') # {}
      BY <2>1 DEF CapInv, CapSync
    <2>6. report'.sync = "success" =>
            syncWrite' = "committed" /\ \A i \in Commits(wal') : i <= receivedLsn'
      BY <1>2, <2>2 DEF CapInv, CapSync
    <2> QED
      BY <2>3, <2>4, <2>5, <2>6 DEF CapSync
  <1>5. CapSession'
    <2>1. main' = "check" /\ syncWrite' = "waiting" => main = "check" /\ syncWrite = "waiting"
      OBVIOUS
    <2> QED
      BY <2>1 DEF CapInv, CapSession
  <1> QED
    BY <1>1, <1>4, <1>5 DEF CapInv

LEMMA ReplicaSteps ==
    ASSUME CapInv, Replica!StartReplica \/ Replica!StreamWal \/ Replica!ReplayWal
    PROVE  CapInv'
  <1>1. /\ wal' = wal /\ syncNames' = syncNames /\ syncWrite' = syncWrite /\ main' = main
        /\ session' = session /\ report' = report
        /\ receivedLsn' \in receivedLsn..Len(wal) /\ replayed' \in replayed..receivedLsn'
    <2>0. /\ Len(wal) \in Nat /\ replayed \in Nat /\ receivedLsn \in Nat
          /\ replayed <= receivedLsn /\ receivedLsn <= Len(wal)
      BY CapFacts
    <2>1. CASE Replica!StartReplica
      BY <2>0, <2>1 DEF Replica!StartReplica
    <2>2. CASE Replica!StreamWal
      BY <2>0, <2>2 DEF Replica!StreamWal
    <2>3. CASE Replica!ReplayWal
      BY <2>0, <2>3 DEF Replica!ReplayWal
    <2> QED
      BY <2>1, <2>2, <2>3
  <1>2. /\ replayed \in Nat /\ receivedLsn \in Nat /\ Len(wal) \in Nat
        /\ \A i \in Commits(wal) : i \in Nat
    BY CapFacts
  <1>3. /\ receivedLsn' \in Nat /\ replayed' \in Nat /\ replayed' <= receivedLsn'
        /\ receivedLsn' <= Len(wal) /\ receivedLsn <= receivedLsn' /\ replayed <= replayed'
    BY <1>1, <1>2
  <1>4. CapShapes'
    BY <1>1, <1>3 DEF CapInv, CapShapes
  <1>5. CapSync'
    <2>1. ASSUME \A i \in Commits(wal) : i <= receivedLsn
          PROVE  \A i \in Commits(wal) : i <= receivedLsn'
      BY <1>2, <1>3, <2>1
    <2> QED
      BY <1>1, <2>1 DEF CapInv, CapSync
  <1>6. CapSession'
    <2>1. session.lsn <= replayed => session.lsn <= replayed'
      <3>1. session.lsn \in Nat
        BY CapFacts
      <3> QED
        BY <1>2, <1>3, <3>1
    <2> QED
      BY <1>1, <2>1 DEF CapInv, CapSession
  <1> QED
    BY <1>4, <1>5, <1>6 DEF CapInv

\* The primary tells the writer that its commit is done.
LEMMA CommitsStep ==
    ASSUME CapInv, Replica!SyncCommits
    PROVE  CapInv'
  <1>1. /\ ~syncNames \/ receivedLsn >= Replica!SyncPosition
        /\ syncWrite' = "committed"
        /\ UNCHANGED <<wal, receivedLsn, replayed, syncNames, main, session, report>>
    BY DEF Replica!SyncCommits, Replica!Released, Replica!replicaVars
  <1>2. syncWrite = "waiting"
    BY DEF Replica!SyncCommits, Replica!Released
  <1>3. CapShapes'
    BY <1>1 DEF CapInv, CapShapes
  <1>4. CapSync'
    <2>1. main = "join" => \A i \in Commits(wal) : i <= receivedLsn
      <3> SUFFICES ASSUME main = "join", NEW i \in Commits(wal)
                   PROVE  i <= receivedLsn
        OBVIOUS
      <3>1. syncNames = TRUE
        BY DEF CapInv, CapSync
      <3>2. i = Replica!SyncPosition /\ i \in Nat /\ receivedLsn \in Nat
        BY CapFacts DEF CapInv, CapSync
      <3> QED
        BY <1>1, <3>1, <3>2
    <2> QED
      BY <1>1, <1>2, <2>1 DEF CapInv, CapSync
  <1>5. CapSession'
    BY <1>1 DEF CapInv, CapSession
  <1> QED
    BY <1>3, <1>4, <1>5 DEF CapInv

\* The commit record is in the log before its wait.
LEMMA AttemptStep ==
    ASSUME CapInv, Replica!AttemptSyncWrite
    PROVE  CapInv'
  <1>1. /\ syncWrite = "started" /\ syncWrite' = "waiting" /\ wal' = Append(wal, Replica!Cp)
        /\ UNCHANGED <<receivedLsn, replayed, syncNames, main, session, report>>
    BY DEF Replica!AttemptSyncWrite, Replica!replicaVars
  <1>2. /\ wal \in Seq(Nat) /\ receivedLsn \in Nat /\ receivedLsn <= Len(wal) /\ Len(wal) \in Nat
    BY CapFacts
  <1>3. Replica!Cp \in Nat
    BY DEF Replica!Cp
  <1>4. /\ wal' \in Seq(Nat) /\ Len(wal') = Len(wal) + 1
        /\ \A i \in 1..Len(wal) : wal'[i] = wal[i]
        /\ Commits(wal') = Commits(wal) \cup {Len(wal) + 1}
    BY <1>1, <1>2, <1>3, WalAppended
  <1>5. Commits(wal) = {} /\ main \notin Before /\ report.sync # "success" /\ main # "setup"
    BY <1>1 DEF CapInv, CapSync, Before
  <1>6. CapShapes'
    <2>1. receivedLsn <= Len(wal')
      BY <1>2, <1>4
    <2> QED
      BY <1>1, <1>4, <2>1 DEF CapInv, CapShapes
  <1>7. CapSync'
    BY <1>1, <1>4, <1>5 DEF CapInv, CapSync
  <1>8. CapSession'
    <2>1. session.lsn \in Nat /\ session.read \in Nat
      BY CapFacts
    <2>2. /\ session.read <= Len(wal')
          /\ session.lsn \in 1..Len(wal) => session.lsn \in 1..Len(wal') /\ session.lsn < Len(wal')
          /\ session.lsn \in 1..Len(wal) => wal'[session.lsn] = wal[session.lsn]
      BY <1>2, <1>4, <2>1 DEF CapInv, CapSession
    <2>3. session.read # 0 => \E i \in 1..session.read : wal'[i] = Replica!Ryw
      <3> SUFFICES ASSUME session.read # 0
                   PROVE  \E i \in 1..session.read : wal'[i] = Replica!Ryw
        OBVIOUS
      <3>1. PICK i \in 1..session.read : wal[i] = Replica!Ryw
        BY DEF CapInv, CapSession
      <3>2. i \in 1..Len(wal)
        BY <1>2, <2>1, <3>1 DEF CapInv, CapSession
      <3> QED
        BY <1>4, <3>1, <3>2
    <2> QED
      BY <1>1, <2>2, <2>3 DEF CapInv, CapSession
  <1> QED
    BY <1>6, <1>7, <1>8 DEF CapInv

\* The session is answered, by the replica that has its write or by the primary.
LEMMA SessionStep ==
    ASSUME CapInv, Replica!ReadSession
    PROVE  CapInv'
  <1>1. PICK p : /\ session' = [session EXCEPT !.read = p] /\ main' = "end"
                 /\ \/ main = "readReplica" /\ p = replayed
                    \/ main = "check" /\ p = Replica!Shown
                 /\ UNCHANGED <<wal, receivedLsn, replayed, syncNames, syncWrite, report>>
    BY DEF Replica!ReadSession, Replica!Go, Replica!Answered, Replica!replicaVars
  <1>2. /\ Len(wal) \in Nat /\ replayed \in Nat /\ receivedLsn \in Nat /\ replayed <= Len(wal)
        /\ session \in [lsn : Nat, read : Nat]
    <2>1. /\ Len(wal) \in Nat /\ replayed \in Nat /\ receivedLsn \in Nat
          /\ replayed <= receivedLsn /\ receivedLsn <= Len(wal)
      BY CapFacts
    <2>2. session \in [lsn : Nat, read : Nat]
      BY CapRecords
    <2> QED
      BY <2>1, <2>2
  <1>3. session.lsn \in 1..Len(wal) /\ wal[session.lsn] = Replica!Ryw
    BY <1>1 DEF CapInv, CapSession
  <1>4. p \in Nat /\ session.lsn <= p /\ p <= Len(wal)
    <2>1. CASE main = "readReplica" /\ p = replayed
      BY <1>2, <2>1 DEF CapInv, CapSession
    <2>2. CASE main = "check" /\ p = Replica!Shown
      <3>1. syncWrite = "waiting" => session.lsn < Len(wal)
        BY <2>2 DEF CapInv, CapSession
      <3>2. p = IF syncWrite = "waiting" THEN Len(wal) - 1 ELSE Len(wal)
        BY <2>2 DEF Replica!Shown
      <3> QED
        BY <1>2, <1>3, <3>1, <3>2
    <2> QED
      BY <1>1, <2>1, <2>2
  <1>5. session' \in [lsn : Nat, read : Nat] /\ session'.read = p /\ session'.lsn = session.lsn
    BY <1>1, <1>2, <1>4
  <1>6. CapShapes'
    BY <1>1, <1>5 DEF CapInv, CapShapes, After
  <1>7. CapSync'
    BY <1>1 DEF CapInv, CapSync, Before
  <1>8. session.lsn \in 1..p
    BY <1>2, <1>3, <1>4
  <1>9. CapSession'
    BY <1>1, <1>3, <1>4, <1>5, <1>8 DEF CapSession
  <1> QED
    BY <1>6, <1>7, <1>9 DEF CapInv

LEMMA CapInvStep ==
    ASSUME CapInv, Replica!CapNext \/ UNCHANGED capVars
    PROVE  CapInv'
  <1>1. CASE Replica!SetupTable
    <2>1. /\ main = "setup" /\ main' \in {"lag", "stop"} /\ wal' = <<Replica!Seed>>
          /\ UNCHANGED <<receivedLsn, replayed, syncNames, syncWrite, session, report>>
      BY <1>1 DEF Replica!SetupTable, Replica!Go, Replica!replicaVars
    <2>2. wal = <<>>
      BY <2>1 DEF CapInv, CapSync
    <2>3. /\ wal' = Append(wal, Replica!Seed) /\ wal \in Seq(Nat)
          /\ Replica!Seed \in Nat /\ Replica!Seed # Replica!Cp
      BY <2>1, <2>2 DEF Replica!Seed, Replica!Cp
    <2>4. /\ wal' \in Seq(Nat) /\ Len(wal) \in Nat /\ Len(wal') = Len(wal) + 1
          /\ Commits(wal') = Commits(wal)
      BY <2>3, WalAppended
    <2>5. /\ receivedLsn \in Nat /\ receivedLsn <= Len(wal) /\ session.read \in Nat
          /\ session.read = 0
      BY <2>1, CapFacts DEF CapInv, CapSession
    <2>6. receivedLsn <= Len(wal') /\ session.read <= Len(wal')
      BY <2>4, <2>5
    <2>7. main' \in Before /\ main \in Before /\ main' # "setup" /\ main' # "join"
      BY <2>1 DEF Before
    <2>8. CapShapes'
      BY <2>1, <2>4, <2>6, <2>7 DEF CapInv, CapShapes
    <2>9. CapSync'
      BY <2>1, <2>4, <2>7 DEF CapInv, CapSync
    <2>10. CapSession'
      BY <2>1, <2>5, <2>6 DEF CapSession
    <2> QED
      BY <2>8, <2>9, <2>10 DEF CapInv
  <1>2. CASE Replica!MeasureLag
    <2>1. Replica!WriteAccount(Replica!Lag) /\ main \in {"lag", "ap"} /\ main' \in Before \ {"setup"}
      BY <1>2 DEF Replica!MeasureLag, Replica!Go, Before
    <2>2. UNCHANGED <<receivedLsn, replayed, syncNames, syncWrite, report>>
      BY <1>2 DEF Replica!MeasureLag, Replica!replicaVars
    <2> QED
      BY <2>1, <2>2, WriteInv
  <1>3. CASE Replica!WriteAp
    <2>1. Replica!WriteAccount(Replica!Ap) /\ main \in {"lag", "ap"} /\ main' \in Before \ {"setup"}
      BY <1>3 DEF Replica!WriteAp, Replica!Go, Before
    <2>2. UNCHANGED <<receivedLsn, replayed, syncNames, syncWrite, report>>
      BY <1>3 DEF Replica!WriteAp, Replica!replicaVars
    <2> QED
      BY <2>1, <2>2, WriteInv
  <1>4. CASE Replica!WriteInSession
    <2>1. Replica!WriteAccount(Replica!Ryw) /\ main = "write" /\ main' = "check"
      BY <1>4 DEF Replica!WriteInSession, Replica!Go
    <2>2. UNCHANGED <<receivedLsn, replayed, syncNames, syncWrite, report>>
      BY <1>4 DEF Replica!WriteInSession, Replica!replicaVars
    <2> QED
      BY <2>1, <2>2, WriteInv
  <1>5. CASE \/ Replica!EndPoll \/ Replica!StopReplica \/ Replica!ConfigureSync
             \/ Replica!ConfigureFails \/ Replica!ResetSync \/ Replica!CheckReplica
    <2>1. report' = report /\ UNCHANGED <<wal, receivedLsn, replayed, session>>
      BY <1>5 DEF Replica!EndPoll, Replica!StopReplica, Replica!ConfigureSync,
           Replica!ConfigureFails, Replica!ResetSync, Replica!CheckReplica, Replica!replicaVars
    <2>2. report' \in [sync : {report.sync},
                       heal : {"", "none", "polling", "caught up", "catching up"}]
      BY <2>1, CapRecords
    <2>3. /\ main' \in Before \cup {"join"} \cup After
          /\ main' \in Before => main \in Before
          /\ main' = "join" => main \in Before /\ Replica!ConfigureSync
          /\ main' = "check" => main = "check"
          /\ main' = "readReplica" => main = "check" /\ Replica!ReplicaHasCaughtUp
          /\ main # "end" /\ main' # "setup"
      BY <1>5 DEF Before, After, Replica!EndPoll, Replica!StopReplica, Replica!ConfigureSync,
           Replica!ConfigureFails, Replica!ResetSync, Replica!CheckReplica, Replica!Go
    <2>4. \/ syncWrite' = syncWrite
          \/ syncWrite' = "started" /\ main = "configure" /\ main' = "join" /\ syncNames' = TRUE
      BY <1>5 DEF Replica!EndPoll, Replica!StopReplica, Replica!ConfigureSync,
           Replica!ConfigureFails, Replica!ResetSync, Replica!CheckReplica, Replica!Go
    <2>5. main = "configure" => syncWrite = "none"
      BY DEF CapInv, CapSync, Before
    <2>6. Replica!ConfigureSync => syncNames' = TRUE
      BY DEF Replica!ConfigureSync
    <2>7. Replica!ReplicaHasCaughtUp => session.lsn <= replayed
      <3>1. session.lsn \in Nat /\ replayed \in Nat
        BY CapFacts
      <3> QED
        BY <3>1 DEF Replica!ReplicaHasCaughtUp
    <2>8. "join" \notin Before
      BY DEF Before
    <2> QED
      BY <2>1, <2>2, <2>3, <2>4, <2>5, <2>6, <2>7, <2>8, ScriptGoesOn
  <1>6. CASE Replica!WaitForReplica \/ Replica!HealPartition
    <2>1. /\ UNCHANGED <<wal, receivedLsn, replayed, session, syncNames, syncWrite>>
          /\ main' \in {"reset", "write"} /\ main \in {"start", "heal"}
      BY <1>6 DEF Replica!WaitForReplica, Replica!HealPartition, Replica!Go, Replica!replicaVars
    <2>2. PICK h \in {"none", "polling", "caught up", "catching up"} :
            report' = [report EXCEPT !.heal = h]
      BY <1>6 DEF Replica!WaitForReplica, Replica!HealPartition
    <2>3. report' \in [sync : {report.sync},
                       heal : {"", "none", "polling", "caught up", "catching up"}]
      BY <2>2, CapRecords
    <2>4. main' \in After /\ main' \notin Before /\ main' # "setup"
      BY <2>1 DEF Before, After
    <2> QED
      BY <2>1, <2>3, <2>4, ScriptGoesOn
  <1>7. CASE Replica!Join
    <2>1. /\ main = "join" /\ main' = "start"
          /\ report' = [report EXCEPT !.sync =
                          IF syncWrite = "committed" THEN "success" ELSE "timedOut"]
          /\ UNCHANGED <<wal, receivedLsn, replayed, syncNames, syncWrite, session>>
      BY <1>7 DEF Replica!Join, Replica!Go, Replica!replicaVars
    <2>2. /\ report'.sync = IF syncWrite = "committed" THEN "success" ELSE "timedOut"
          /\ report' \in [sync : {"", "success", "timedOut"},
                          heal : {"", "none", "polling", "caught up", "catching up"}]
      BY <2>1, CapRecords
    <2>3. main' \in After /\ main' \notin Before /\ main' # "setup"
      BY <2>1 DEF Before, After
    <2>4. CapShapes'
      BY <2>1, <2>2, <2>3 DEF CapInv, CapShapes
    <2>5. CapSync'
      BY <2>1, <2>2, <2>3 DEF CapInv, CapSync
    <2>6. CapSession'
      BY <2>1 DEF CapInv, CapSession
    <2> QED
      BY <2>4, <2>5, <2>6 DEF CapInv
  <1>8. CASE UNCHANGED capVars
    <2>1. UNCHANGED <<wal, receivedLsn, replayed, syncNames, syncWrite, main, session, report>>
      BY <1>8 DEF capVars
    <2>2. CapShapes'
      BY <2>1 DEF CapInv, CapShapes
    <2>3. CapSync'
      BY <2>1 DEF CapInv, CapSync
    <2>4. CapSession'
      BY <2>1 DEF CapInv, CapSession
    <2> QED
      BY <2>2, <2>3, <2>4 DEF CapInv
  <1>9. Replica!LabEnds => UNCHANGED capVars
    BY DEF Replica!LabEnds, Replica!capVars, capVars
  <1> QED
    BY <1>1, <1>2, <1>3, <1>4, <1>5, <1>6, <1>7, <1>8, <1>9,
       ReplicaSteps, CommitsStep, AttemptStep, SessionStep DEF Replica!CapNext

\* What the lab promises with the LSN and with the synchronous commit.
LEMMA CapInvSurvived ==
    ASSUME CapInv
    PROVE  Replica!PartitionIsSurvived
  <1>1. Replica!SessionReadsItsWrite
    BY DEF CapInv, CapSession, Replica!SessionReadsItsWrite
  <1>2. report.sync = "success" => receivedLsn >= Replica!SyncPosition
    <2> SUFFICES ASSUME report.sync = "success"
                 PROVE  receivedLsn >= Replica!SyncPosition
      OBVIOUS
    <2>1. Commits(wal) # {} /\ \A i \in Commits(wal) : i <= receivedLsn
      BY DEF CapInv, CapSync
    <2>2. Replica!SyncPosition \in Nat /\ Replica!SyncPosition <= receivedLsn
      BY <2>1, CapFacts
    <2>3. receivedLsn \in Nat
      BY CapFacts
    <2> QED
      BY <2>2, <2>3
  <1> QED
    BY <1>1, <1>2 DEF Replica!PartitionIsSurvived, Replica!ConfirmedIsReplicated

(***************************************************************************)
(* The cached row. What the cache and a thread hold is a version the row    *)
(* has had; when it is not the last one a delete is still to come, or has    *)
(* come since it was read. The local copy was fetched no earlier than its    *)
(* stamp says.                                                             *)
(***************************************************************************)
Seen == [at : {"look", "queried", "served"}, value : Int, deletes : Int]

\* A version that may be shown: the row's, or one that a delete does away with.
Excused(value, seen) ==
    /\ value \in Nat /\ value <= row /\ seen \in Nat /\ seen <= deletes
    /\ value < row => writer = "updated" \/ seen < deletes

Longest(value) == IF value = 0 THEN NullTtl ELSE BaseTtl + Jitter

AsideShapes ==
    /\ row \in Nat /\ deletes \in Nat /\ cacheClock \in Nat /\ writer \in {"idle", "updated"}
    /\ entry \in [value : Int, until : Int, deletes : Int]
    /\ reader \in [CacheReaders -> Seen]

HotInv ==
    /\ cacheClock \in Nat /\ local \in Int /\ fetched \in Int
    /\ hot \in [HotThreads -> Int]
    /\ \A h \in HotThreads : hot[h] <= cacheClock
    /\ local # -1 => local <= fetched

AsideInv ==
    /\ AsideShapes
    /\ Caches!Cached =>
         /\ Excused(entry.value, entry.deletes)
         /\ entry.until > cacheClock /\ entry.until <= cacheClock + Longest(entry.value)
    /\ \A t \in CacheReaders :
         reader[t].at # "look" => Excused(reader[t].value, reader[t].deletes)

LEMMA AsideInvInit ==
    ASSUME Caches!CacheAsideInit
    PROVE  AsideInv /\ HotInv
  <1>1. /\ row \in {0, 1} /\ entry = Caches!NoEntry /\ deletes = 0 /\ writer = "idle"
        /\ reader = [t \in CacheReaders |-> Caches!Looking]
        /\ local = -1 /\ hot = [h \in HotThreads |-> -1] /\ fetched = -1 /\ cacheClock = 0
    BY DEF Caches!CacheAsideInit
  <1>2. AsideShapes
    BY <1>1 DEF AsideShapes, Seen, Caches!NoEntry, Caches!Looking
  <1>3. HotInv
    BY <1>1 DEF HotInv
  <1>4. ~Caches!Cached /\ \A t \in CacheReaders : reader[t].at = "look"
    BY <1>1 DEF Caches!Cached, Caches!Looking
  <1> QED
    BY <1>2, <1>3, <1>4 DEF AsideInv

\* An expiry that r.setex is called with.
LEMMA ExpiriesBounded ==
    ASSUME NEW value \in Int,
           NEW ttl \in IF value = 0 THEN {NullTtl} ELSE Caches!Jittered
    PROVE  ttl \in Int /\ ttl > 0 /\ ttl <= Longest(value)
  <1>1. NullTtl \in Nat \ {0} /\ BaseTtl \in Nat \ {0} /\ Jitter \in Nat
    BY MCAssumption DEF AsideAssumed
  <1>2. CASE value = 0
    BY <1>1, <1>2 DEF Longest
  <1>3. CASE value # 0
    <2>1. PICK t \in (BaseTtl - Jitter)..(BaseTtl + Jitter) : ttl = IF t < 1 THEN 1 ELSE t
      BY <1>3 DEF Caches!Jittered
    <2> QED
      BY <1>1, <1>3, <2>1 DEF Longest
  <1> QED
    BY <1>2, <1>3

\* A thread's step that leaves the row, its writer and the deletes alone.
LEMMA ReaderStep ==
    ASSUME AsideInv, NEW t \in CacheReaders,
           UNCHANGED <<row, deletes, writer, cacheClock>>,
           NEW r \in Seen, reader' = [reader EXCEPT ![t] = r],
           r.at # "look" => Excused(r.value, r.deletes),
           entry' \in [value : Int, until : Int, deletes : Int],
           \/ entry' = entry
           \/ /\ Excused(entry'.value, entry'.deletes)
              /\ entry'.until > cacheClock /\ entry'.until <= cacheClock + Longest(entry'.value)
    PROVE  AsideInv'
  <1>1. /\ AsideShapes'
        /\ reader'[t] = r /\ \A u \in CacheReaders \ {t} : reader'[u] = reader[u]
    BY DEF AsideInv, AsideShapes
  <1>2. \A value, seen : Excused(value, seen)' <=> Excused(value, seen)
    BY DEF Excused
  <1>3. Caches!Cached' =>
          /\ Excused(entry'.value, entry'.deletes)
          /\ entry'.until > cacheClock' /\ entry'.until <= cacheClock' + Longest(entry'.value)
    BY DEF AsideInv, Caches!Cached
  <1>4. \A u \in CacheReaders :
          reader'[u].at # "look" => Excused(reader'[u].value, reader'[u].deletes)
    BY <1>1 DEF AsideInv
  <1> QED
    BY <1>1, <1>3, <1>4 DEF AsideInv, Excused, Longest

LEMMA AsideInvStep ==
    ASSUME AsideInv, Caches!CacheAsideNext \/ UNCHANGED asideVars
    PROVE  AsideInv'
  <1>1. /\ row \in Nat /\ deletes \in Nat /\ cacheClock \in Nat /\ writer \in {"idle", "updated"}
        /\ entry \in [value : Int, until : Int, deletes : Int]
        /\ reader \in [CacheReaders -> Seen]
    BY DEF AsideInv, AsideShapes
  <1>2. /\ Caches!Cached =>
             /\ Excused(entry.value, entry.deletes)
             /\ entry.until > cacheClock /\ entry.until <= cacheClock + Longest(entry.value)
        /\ \A t \in CacheReaders :
             reader[t].at # "look" => Excused(reader[t].value, reader[t].deletes)
    BY DEF AsideInv
  <1>3. ASSUME NEW t \in CacheReaders, Caches!Hit(t)
        PROVE  AsideInv'
    <2> DEFINE r == [at |-> "served", value |-> entry.value, deletes |-> entry.deletes]
    <2>1. /\ Caches!Cached /\ UNCHANGED <<row, deletes, writer, cacheClock>> /\ entry' = entry
          /\ reader' = [reader EXCEPT ![t] = r]
      BY <1>3 DEF Caches!Hit, Caches!hotKey
    <2>2. r \in Seen /\ Excused(r.value, r.deletes)
      BY <1>1, <1>2, <2>1 DEF Seen
    <2> HIDE DEF r
    <2> QED
      BY <1>1, <2>1, <2>2, ReaderStep
  <1>4. ASSUME NEW t \in CacheReaders, Caches!QueryDb(t)
        PROVE  AsideInv'
    <2> DEFINE r == [at |-> "queried", value |-> row, deletes |-> deletes]
    <2>1. /\ UNCHANGED <<row, deletes, writer, cacheClock>> /\ entry' = entry
          /\ reader' = [reader EXCEPT ![t] = r]
      BY <1>4 DEF Caches!QueryDb, Caches!hotKey
    <2>2. r \in Seen /\ Excused(r.value, r.deletes)
      BY <1>1 DEF Seen, Excused
    <2> HIDE DEF r
    <2> QED
      BY <1>1, <2>1, <2>2, ReaderStep
  <1>5. ASSUME NEW t \in CacheReaders, Caches!SetEx(t)
        PROVE  AsideInv'
    <2> DEFINE r == [reader[t] EXCEPT !.at = "served"]
    <2>1. /\ reader[t].at = "queried" /\ UNCHANGED <<row, deletes, writer, cacheClock>>
          /\ reader' = [reader EXCEPT ![t] = r]
      BY <1>5 DEF Caches!SetEx, Caches!hotKey
    <2>2. reader[t] \in Seen /\ Excused(reader[t].value, reader[t].deletes)
      BY <1>1, <1>2, <2>1
    <2>3. r \in Seen /\ Excused(r.value, r.deletes)
      BY <2>2 DEF Seen
    <2>4. PICK ttl \in IF reader[t].value = 0 THEN {NullTtl} ELSE Caches!Jittered :
            entry' = [value |-> reader[t].value, until |-> cacheClock + ttl,
                      deletes |-> reader[t].deletes]
      BY <1>5 DEF Caches!SetEx
    <2>5. ttl \in Int /\ ttl > 0 /\ ttl <= Longest(reader[t].value)
      BY <2>2, <2>4, ExpiriesBounded DEF Seen
    <2>6. /\ entry'.value = reader[t].value /\ entry'.deletes = reader[t].deletes
          /\ entry'.until = cacheClock + ttl
          /\ entry' \in [value : Int, until : Int, deletes : Int]
      BY <1>1, <2>2, <2>4, <2>5 DEF Seen
    <2>7. Longest(reader[t].value) \in Int
      BY MCAssumption DEF AsideAssumed, Longest
    <2>8. /\ Excused(entry'.value, entry'.deletes)
          /\ entry'.until > cacheClock /\ entry'.until <= cacheClock + Longest(entry'.value)
      BY <1>1, <2>2, <2>5, <2>6, <2>7
    <2> HIDE DEF r
    <2> QED
      BY <2>1, <2>3, <2>6, <2>8, ReaderStep
  <1>6. ASSUME NEW t \in CacheReaders, Caches!Again(t)
        PROVE  AsideInv'
    <2> DEFINE r == Caches!Looking
    <2>1. /\ UNCHANGED <<row, deletes, writer, cacheClock>> /\ entry' = entry
          /\ reader' = [reader EXCEPT ![t] = r]
      BY <1>6 DEF Caches!Again, Caches!hotKey
    <2>2. r \in Seen /\ r.at = "look"
      BY DEF Seen, Caches!Looking
    <2> HIDE DEF r
    <2> QED
      BY <1>1, <2>1, <2>2, ReaderStep
  <1>7. CASE Caches!UpdateRow
    <2>1. /\ row' = row + 1 /\ writer' = "updated"
          /\ UNCHANGED <<entry, deletes, reader, cacheClock>>
      BY <1>7 DEF Caches!UpdateRow, Caches!hotKey
    <2>2. \A value, seen : Excused(value, seen) => Excused(value, seen)'
      BY <1>1, <2>1 DEF Excused
    <2>3. AsideShapes' /\ (Caches!Cached' => Caches!Cached)
      BY <1>1, <2>1 DEF AsideShapes, Caches!Cached
    <2>4. Caches!Cached' =>
            /\ Excused(entry.value, entry.deletes)'
            /\ entry'.until > cacheClock'
            /\ entry'.until <= cacheClock' + Longest(entry'.value)
      <3>1. Caches!Cached' => Excused(entry.value, entry.deletes)'
        BY <1>1, <1>2, <2>1, <2>3 DEF Excused
      <3> QED
        BY <1>2, <2>1, <2>3, <3>1 DEF Longest
    <2>5. \A t \in CacheReaders : reader'[t].at # "look" =>
            Excused(reader[t].value, reader[t].deletes)'
      BY <1>1, <1>2, <2>1 DEF Excused
    <2> QED
      BY <2>3, <2>4, <2>5 DEF AsideInv, Longest
  <1>8. CASE Caches!DeleteKey
    <2>1. /\ entry' = Caches!NoEntry /\ deletes' = deletes + 1 /\ writer' = "idle"
          /\ UNCHANGED <<row, reader, cacheClock>>
      BY <1>8 DEF Caches!DeleteKey, Caches!hotKey
    <2>2. AsideShapes' /\ ~Caches!Cached'
      BY <1>1, <2>1 DEF AsideShapes, Caches!Cached, Caches!NoEntry
    <2>3. \A t \in CacheReaders : reader'[t].at # "look" =>
            Excused(reader[t].value, reader[t].deletes)'
      BY <1>1, <1>2, <2>1 DEF Excused
    <2> QED
      BY <2>2, <2>3 DEF AsideInv
  <1>9. CASE Caches!CacheAsideTick
    <2>1. /\ cacheClock' = cacheClock + 1
          /\ entry' = IF Caches!Cached /\ entry.until <= cacheClock' THEN Caches!NoEntry ELSE entry
          /\ UNCHANGED <<row, deletes, writer, reader>>
      BY <1>9 DEF Caches!CacheAsideTick, Caches!hotKey
    <2>2. AsideShapes'
      BY <1>1, <2>1 DEF AsideShapes, Caches!NoEntry
    <2>3. Caches!Cached' => Caches!Cached /\ entry' = entry /\ entry.until > cacheClock'
      BY <1>1, <2>1 DEF Caches!Cached
    <2>4. Longest(entry.value) \in Int
      BY MCAssumption DEF AsideAssumed, Longest
    <2>5. Caches!Cached' =>
            /\ Excused(entry.value, entry.deletes)'
            /\ entry'.until > cacheClock'
            /\ entry'.until <= cacheClock' + Longest(entry'.value)
      BY <1>1, <1>2, <2>1, <2>3, <2>4 DEF Excused
    <2>6. \A t \in CacheReaders : reader'[t].at # "look" =>
            Excused(reader[t].value, reader[t].deletes)'
      BY <1>1, <1>2, <2>1 DEF Excused
    <2> QED
      BY <2>2, <2>5, <2>6 DEF AsideInv, Longest
  <1>10. CASE UNCHANGED <<row, entry, deletes, writer, reader, cacheClock>>
    BY <1>10 DEF AsideInv, AsideShapes, Excused, Longest, Caches!Cached
  <1>11. ASSUME NEW h \in HotThreads, Caches!LookLocal(h) \/ Caches!FillLocal(h)
         PROVE  AsideInv'
    BY <1>11, <1>10 DEF Caches!LookLocal, Caches!FillLocal, Caches!aside
  <1>12. CASE UNCHANGED asideVars
    BY <1>10, <1>12 DEF asideVars
  <1> QED
    BY <1>3, <1>4, <1>5, <1>6, <1>7, <1>8, <1>9, <1>11, <1>12
       DEF Caches!CacheAsideNext, Caches!AsideNext, Caches!HotNext

LEMMA HotInvStep ==
    ASSUME HotInv, Caches!CacheAsideNext \/ UNCHANGED asideVars
    PROVE  HotInv'
  <1>1. ASSUME NEW h \in HotThreads, Caches!LookLocal(h)
        PROVE  HotInv'
    BY <1>1 DEF HotInv, Caches!LookLocal
  <1>2. ASSUME NEW h \in HotThreads, Caches!FillLocal(h)
        PROVE  HotInv'
    BY <1>2 DEF HotInv, Caches!FillLocal
  <1>3. CASE Caches!CacheAsideTick
    BY <1>3 DEF HotInv, Caches!CacheAsideTick, Caches!hotKey
  <1>4. CASE UNCHANGED <<local, hot, fetched, cacheClock>>
    BY <1>4 DEF HotInv
  <1>5. CASE Caches!AsideNext
    BY <1>4, <1>5 DEF Caches!AsideNext, Caches!Hit, Caches!QueryDb, Caches!SetEx, Caches!Again,
                      Caches!UpdateRow, Caches!DeleteKey, Caches!hotKey
  <1> QED
    BY <1>1, <1>2, <1>3, <1>4, <1>5 DEF Caches!CacheAsideNext, Caches!HotNext, asideVars

\* The cache shows an old version only where the race with a write explains it.
LEMMA AsideInvStale ==
    ASSUME AsideInv, HotInv
    PROVE  Caches!StaleOnlyByRace
  <1>1. /\ row \in Nat /\ deletes \in Nat /\ cacheClock \in Nat
        /\ local \in Int /\ fetched \in Int /\ LocalTtl \in Nat
        /\ local # -1 => local <= fetched
    BY MCAssumption DEF AsideInv, AsideShapes, HotInv, AsideAssumed
  <1>2. Caches!Cached =>
          /\ Excused(entry.value, entry.deletes)
          /\ entry.until > cacheClock /\ entry.until <= cacheClock + Longest(entry.value)
    BY DEF AsideInv
  <1>3. \A t \in CacheReaders :
          reader[t].at # "look" => Excused(reader[t].value, reader[t].deletes)
    BY DEF AsideInv
  <1>4. local # -1 /\ cacheClock - local < LocalTtl => cacheClock - fetched < LocalTtl
    BY <1>1
  <1> QED
    BY <1>2, <1>3, <1>4 DEF Caches!StaleOnlyByRace, Excused, Longest

(***************************************************************************)
(* The stampede. Who is inside and within the expiry of a Redis lock owns    *)
(* it, to the tick its lease ends; who is inside a lock of the process owns  *)
(* it for good, and stores only a key that is not there.                     *)
(***************************************************************************)
Places == Caches!Inside \cup {"look", "lock", "poll", "served", "failed", "emptyhanded"}

\* The lock is a thread's, until its own lease ends, or until the program does.
Leased(t) == lockRow = [owner |-> t, until |-> since[t] + LockTtl]
Kept(t) == lockRow = [owner |-> t, until |-> MaxTicks + 1]

StampedeShapes ==
    /\ cached \in Nat /\ stores \in Nat /\ expiries \in Nat /\ ticks \in Nat
    /\ overrun \in BOOLEAN
    /\ strategy \in {"none", "mutex06", "mutex08", "lua", "local", "per"}
    /\ at \in [Fetchers -> Places] /\ since \in [Fetchers -> Nat]
    /\ lockRow \in [owner : Fetchers \cup {Caches!Free.owner}, until : Nat]

Leases ==
    /\ strategy = "lua" => \A t \in Caches!Holders : Caches!WithinTtl(t) => Leased(t)
    /\ Caches!InRedis /\ ~overrun => \A t \in Caches!Holders : Caches!WithinTtl(t) /\ Leased(t)
    /\ Caches!InProcess => \A t \in Caches!Holders : Kept(t)

\* One store more than the key's expiries, at most, and none while it is there.
Allowed == IF strategy = "local" THEN 1 ELSE 0
Counts ==
    Caches!InProcess =>
        /\ stores <= expiries + Allowed
        /\ cached = 0 => stores < expiries + Allowed
        /\ \A t \in Fetchers : at[t] \in {"query", "store"} => cached = 0

Losers ==
    \A t \in Fetchers :
        /\ at[t] = "lock" => strategy # "none"
        /\ at[t] = "poll" => strategy \in {"mutex06", "mutex08"}
        /\ at[t] = "emptyhanded" => strategy = "mutex08"

StampedeInv == StampedeShapes /\ Leases /\ Counts /\ Losers

LEMMA StampedeInvInit ==
    ASSUME Caches!StampedeInit
    PROVE  StampedeInv
  <1>1. /\ strategy \in {"none", "mutex06", "mutex08", "lua", "local", "per"}
        /\ cached = (IF strategy = "per" THEN KeyTtl ELSE 0)
        /\ lockRow = Caches!Free
        /\ at = [t \in Fetchers |-> "look"] /\ since = [t \in Fetchers |-> 0]
        /\ stores = 0 /\ expiries = 0 /\ overrun = FALSE /\ ticks = 0
    BY DEF Caches!StampedeInit
  <1>2. KeyTtl \in Nat \ {0}
    BY MCAssumption DEF StampedeAssumed
  <1>3. StampedeShapes
    BY <1>1, <1>2 DEF StampedeShapes, Places, Caches!Free
  <1>4. Caches!Holders = {}
    BY <1>1 DEF Caches!Holders, Caches!Inside
  <1>5. Counts
    BY <1>1, <1>2 DEF Counts, Allowed, Caches!InProcess
  <1>6. Losers
    BY <1>1 DEF Losers
  <1> QED
    BY <1>3, <1>4, <1>5, <1>6 DEF StampedeInv, Leases

\* A free lock is nobody's, and one that is kept or leased is that thread's alone.
LEMMA OneOwner ==
    /\ \A t \in Fetchers : Leased(t) \/ Kept(t) => lockRow # Caches!Free /\ lockRow.owner = t
    /\ \A t, u \in Fetchers : (Leased(t) \/ Kept(t)) /\ (Leased(u) \/ Kept(u)) => t = u
  <1>1. \A t \in Fetchers : t # Caches!Free.owner
    BY MCAssumption DEF StampedeAssumed
  <1>2. ASSUME NEW t \in Fetchers, Leased(t) \/ Kept(t)
        PROVE  lockRow.owner = t
    BY <1>2 DEF Leased, Kept
  <1> QED
    BY <1>1, <1>2

\* A thread moves on, the lock and the key stay.
LEMMA MoveStep ==
    ASSUME StampedeInv, NEW t \in Fetchers, NEW w \in Places,
           UNCHANGED <<strategy, cached, lockRow, since, stores, expiries, overrun, ticks>>,
           at' = [at EXCEPT ![t] = w],
           w \in Caches!Inside => at[t] \in Caches!Inside \/ strategy = "none",
           Caches!InProcess /\ w \in {"query", "store"} => cached = 0,
           w = "lock" => strategy # "none",
           w = "poll" => strategy \in {"mutex06", "mutex08"},
           w = "emptyhanded" => strategy = "mutex08"
    PROVE  StampedeInv'
  <1>1. /\ at \in [Fetchers -> Places] /\ at' \in [Fetchers -> Places]
        /\ at'[t] = w /\ \A u \in Fetchers : u # t => at'[u] = at[u]
    BY DEF StampedeInv, StampedeShapes
  <1>2. StampedeShapes'
    BY <1>1 DEF StampedeInv, StampedeShapes
  <1>3. strategy # "none" => \A u \in Caches!Holders' : u \in Caches!Holders
    BY <1>1 DEF Caches!Holders, Caches!Inside
  <1>4. Leases'
    BY <1>3 DEF StampedeInv, Leases, Leased, Kept, Caches!WithinTtl, Caches!InRedis,
                Caches!InProcess
  <1>5. Counts'
    BY <1>1 DEF StampedeInv, Counts, Allowed, Caches!InProcess
  <1>6. Losers'
    BY <1>1 DEF StampedeInv, Losers
  <1> QED
    BY <1>2, <1>4, <1>5, <1>6 DEF StampedeInv

\* The lock is taken, from nobody.
LEMMA AcquireStep ==
    ASSUME StampedeInv, NEW t \in Fetchers, Caches!TryAcquire(t)
    PROVE  StampedeInv'
  <1>1. /\ cached \in Nat /\ stores \in Nat /\ expiries \in Nat /\ ticks \in Nat
        /\ overrun \in BOOLEAN
        /\ strategy \in {"none", "mutex06", "mutex08", "lua", "local", "per"}
        /\ at \in [Fetchers -> Places] /\ since \in [Fetchers -> Nat]
        /\ lockRow \in [owner : Fetchers \cup {Caches!Free.owner}, until : Nat]
        /\ LockTtl \in Nat \ {0} /\ MaxTicks \in Nat
    BY MCAssumption DEF StampedeInv, StampedeShapes, StampedeAssumed
  <1>2. /\ at[t] = "lock" /\ strategy # "none"
        /\ UNCHANGED <<strategy, cached, stores, expiries, overrun, ticks>>
    BY DEF Caches!TryAcquire, StampedeInv, Losers
  <1>3. CASE lockRow # Caches!Free
    <2> DEFINE w == IF strategy = "lua" THEN "lock" ELSE "poll"
    <2>1. /\ at' = [at EXCEPT ![t] = w] /\ UNCHANGED <<lockRow, since>> /\ ~Caches!InProcess
      BY <1>3 DEF Caches!TryAcquire, Caches!Go
    <2>2. /\ w \in Places /\ w \notin Caches!Inside /\ w \notin {"query", "store"}
          /\ w # "emptyhanded"
      BY DEF Places, Caches!Inside
    <2>3. w = "poll" => strategy \in {"mutex06", "mutex08"}
      BY <1>1, <1>2, <2>1 DEF Caches!InProcess
    <2> HIDE DEF w
    <2> QED
      BY <1>2, <2>1, <2>2, <2>3, MoveStep
  <1>4. CASE lockRow = Caches!Free
    <2>1. /\ lockRow' = [owner |-> t,
                         until |-> IF Caches!InProcess THEN MaxTicks + 1 ELSE ticks + LockTtl]
          /\ since' = [since EXCEPT ![t] = ticks]
          /\ at' = [at EXCEPT ![t] = IF Caches!InProcess THEN "recheck" ELSE "query"]
      BY <1>4 DEF Caches!TryAcquire, Caches!Go
    <2>2. /\ \A u \in Fetchers : ~Leased(u) /\ ~Kept(u)
      BY <1>4, OneOwner
    <2>3. StampedeShapes'
      BY <1>1, <1>2, <2>1 DEF StampedeShapes, Places, Caches!Inside
    <2>4. /\ at'[t] = (IF Caches!InProcess THEN "recheck" ELSE "query") /\ since'[t] = ticks
          /\ \A u \in Fetchers : u # t => at'[u] = at[u] /\ since'[u] = since[u]
      BY <1>1, <2>1
    <2>5. \A u \in Caches!Holders' : u # t => u \in Caches!Holders
      BY <2>4 DEF Caches!Holders
    <2>6. Caches!InProcess => Kept(t)'
      BY <2>1 DEF Kept
    <2>7. ~Caches!InProcess => Leased(t)' /\ Caches!WithinTtl(t)'
      BY <1>1, <1>2, <2>1, <2>4 DEF Leased, Caches!WithinTtl
    <2>8. \A u \in Fetchers : u # t => (Caches!WithinTtl(u)' <=> Caches!WithinTtl(u))
      BY <1>2, <2>4 DEF Caches!WithinTtl
    <2>9. Leases'
      <3>1. /\ strategy' = strategy /\ overrun' = overrun
            /\ Caches!InProcess' = Caches!InProcess /\ Caches!InRedis' = Caches!InRedis
            /\ strategy = "lua" => ~Caches!InProcess /\ Caches!InRedis
            /\ Caches!InRedis => ~Caches!InProcess
        BY <1>2 DEF Caches!InProcess, Caches!InRedis
      <3>2. \A u \in Caches!Holders : u \in Fetchers
        BY DEF Caches!Holders
      <3>3. /\ strategy = "lua" => \A u \in Caches!Holders : ~Caches!WithinTtl(u)
            /\ Caches!InRedis /\ ~overrun => \A u \in Caches!Holders : FALSE
            /\ Caches!InProcess => \A u \in Caches!Holders : FALSE
        BY <2>2, <3>2 DEF StampedeInv, Leases
      <3>4. \A u \in Caches!Holders' : u \in Fetchers
        BY DEF Caches!Holders
      <3>5. strategy' = "lua" => \A u \in Caches!Holders' : Caches!WithinTtl(u)' => Leased(u)'
        BY <2>5, <2>7, <2>8, <3>1, <3>3, <3>4
      <3>6. Caches!InRedis' /\ ~overrun' =>
              \A u \in Caches!Holders' : Caches!WithinTtl(u)' /\ Leased(u)'
        BY <2>5, <2>7, <3>1, <3>3
      <3>7. Caches!InProcess' => \A u \in Caches!Holders' : Kept(u)'
        BY <2>5, <2>6, <3>1, <3>3
      <3> QED
        BY <3>5, <3>6, <3>7 DEF Leases
    <2>10. Counts' /\ Losers'
      BY <1>2, <2>4 DEF StampedeInv, Counts, Losers, Allowed, Caches!InProcess
    <2> QED
      BY <2>3, <2>9, <2>10 DEF StampedeInv
  <1> QED
    BY <1>3, <1>4

\* The lock is let go: by its owner, or with the lock gone to another by none within its lease.
LEMMA ReleaseStep ==
    ASSUME StampedeInv, NEW t \in Fetchers, Caches!TryRelease(t)
    PROVE  StampedeInv'
  <1>1. /\ at \in [Fetchers -> Places] /\ at[t] = "unlock" /\ t \in Caches!Holders
        /\ lockRow' = IF strategy = "lua" /\ lockRow.owner # t THEN lockRow ELSE Caches!Free
        /\ at' = [at EXCEPT ![t] = "served"]
        /\ UNCHANGED <<strategy, cached, since, stores, expiries, overrun, ticks>>
    BY DEF StampedeInv, StampedeShapes, Caches!TryRelease, Caches!Go, Caches!Holders,
           Caches!Inside
  <1>2. /\ at'[t] = "served" /\ \A u \in Fetchers : u # t => at'[u] = at[u]
    BY <1>1
  <1>3. StampedeShapes'
    BY <1>1 DEF StampedeInv, StampedeShapes, Places, Caches!Free
  <1>4. /\ Caches!Holders' \subseteq Caches!Holders /\ t \notin Caches!Holders'
        /\ \A u \in Caches!Holders : u \in Fetchers
    BY <1>2 DEF Caches!Holders, Caches!Inside
  <1>5. /\ strategy' = strategy /\ overrun' = overrun
        /\ Caches!InProcess' = Caches!InProcess /\ Caches!InRedis' = Caches!InRedis
        /\ \A u : Caches!WithinTtl(u)' <=> Caches!WithinTtl(u)
        /\ Caches!InProcess => strategy # "lua"
    BY <1>1 DEF Caches!InProcess, Caches!InRedis, Caches!WithinTtl
  <1>6. lockRow' = lockRow => \A u : (Leased(u)' <=> Leased(u)) /\ (Kept(u)' <=> Kept(u))
    BY <1>1 DEF Leased, Kept
  <1>7. strategy' = "lua" => \A u \in Caches!Holders' : Caches!WithinTtl(u)' => Leased(u)'
    <2> SUFFICES ASSUME strategy = "lua", NEW u \in Caches!Holders', Caches!WithinTtl(u)
                 PROVE  Leased(u)'
      BY <1>5
    <2>1. u \in Fetchers /\ u # t /\ Leased(u)
      BY <1>4 DEF StampedeInv, Leases
    <2>2. lockRow.owner = u
      BY <2>1, OneOwner
    <2> QED
      BY <1>1, <1>6, <2>1, <2>2
  <1>8. Caches!InRedis' /\ ~overrun' =>
          \A u \in Caches!Holders' : Caches!WithinTtl(u)' /\ Leased(u)'
    <2> SUFFICES ASSUME Caches!InRedis, ~overrun, NEW u \in Caches!Holders'
                 PROVE  FALSE
      BY <1>5
    <2>1. u \in Fetchers /\ u # t /\ Leased(u) /\ Leased(t)
      BY <1>1, <1>4 DEF StampedeInv, Leases
    <2> QED
      BY <2>1, OneOwner
  <1>9. Caches!InProcess' => \A u \in Caches!Holders' : Kept(u)'
    <2> SUFFICES ASSUME Caches!InProcess, NEW u \in Caches!Holders'
                 PROVE  FALSE
      BY <1>5
    <2>1. u \in Fetchers /\ u # t /\ Kept(u) /\ Kept(t)
      BY <1>1, <1>4 DEF StampedeInv, Leases
    <2> QED
      BY <2>1, OneOwner
  <1>10. Counts' /\ Losers'
    BY <1>1, <1>2 DEF StampedeInv, Counts, Losers, Allowed, Caches!InProcess
  <1> QED
    BY <1>3, <1>7, <1>8, <1>9, <1>10 DEF StampedeInv, Leases

\* The key is stored, by the one thread that may.
LEMMA StoreStep ==
    ASSUME StampedeInv, NEW t \in Fetchers, Caches!StoreKey(t)
    PROVE  StampedeInv'
  <1>1. /\ cached \in Nat /\ stores \in Nat /\ expiries \in Nat /\ ticks \in Nat
        /\ at \in [Fetchers -> Places] /\ at[t] = "store" /\ KeyTtl \in Nat \ {0}
        /\ cached' = ticks + KeyTtl /\ stores' = stores + 1
        /\ at' = [at EXCEPT ![t] = IF strategy = "none" THEN "served" ELSE "unlock"]
        /\ UNCHANGED <<strategy, lockRow, since, expiries, overrun, ticks>>
    BY MCAssumption DEF StampedeInv, StampedeShapes, StampedeAssumed, Caches!StoreKey, Caches!Go
  <1>2. /\ at'[t] = (IF strategy = "none" THEN "served" ELSE "unlock")
        /\ \A u \in Fetchers : u # t => at'[u] = at[u]
    BY <1>1
  <1>3. StampedeShapes'
    BY <1>1 DEF StampedeInv, StampedeShapes, Places, Caches!Inside
  <1>4. Caches!Holders' \subseteq Caches!Holders /\ t \in Caches!Holders
    BY <1>1, <1>2 DEF Caches!Holders, Caches!Inside
  <1>5. Leases'
    BY <1>1, <1>4 DEF StampedeInv, Leases, Leased, Kept, Caches!WithinTtl, Caches!InRedis,
                      Caches!InProcess
  <1>6. Losers'
    BY <1>1, <1>2 DEF StampedeInv, Losers
  <1>7. Counts'
    <2> SUFFICES ASSUME Caches!InProcess
                 PROVE  Counts'
      BY <1>1 DEF Counts, Caches!InProcess
    <2>1. cached' # 0 /\ cached = 0 /\ stores < expiries + Allowed
      BY <1>1 DEF StampedeInv, Counts
    <2>2. stores' <= expiries' + Allowed'
      BY <1>1, <2>1 DEF Allowed
    <2>3. ASSUME NEW u \in Fetchers, at'[u] \in {"query", "store"}
          PROVE  FALSE
      <3>1. u # t /\ at'[u] = at[u]
        BY <1>2, <2>3
      <3>2. u \in Caches!Holders /\ t \in Caches!Holders
        BY <1>4, <2>3, <3>1 DEF Caches!Holders, Caches!Inside
      <3>3. Kept(u) /\ Kept(t)
        BY <3>2 DEF StampedeInv, Leases
      <3> QED
        BY <3>1, <3>3, OneOwner
    <2> QED
      BY <2>1, <2>2, <2>3 DEF Counts
  <1> QED
    BY <1>3, <1>5, <1>6, <1>7 DEF StampedeInv

\* The clock takes the key and the lock away when their time has come.
LEMMA TickStep ==
    ASSUME StampedeInv, Caches!StampedeTick
    PROVE  StampedeInv'
  <1>1. /\ cached \in Nat /\ stores \in Nat /\ expiries \in Nat /\ ticks \in Nat
        /\ overrun \in BOOLEAN /\ since \in [Fetchers -> Nat]
        /\ lockRow \in [owner : Fetchers \cup {Caches!Free.owner}, until : Nat]
        /\ LockTtl \in Nat \ {0} /\ MaxTicks \in Nat
    BY MCAssumption DEF StampedeInv, StampedeShapes, StampedeAssumed
  <1>2. /\ ticks < MaxTicks /\ ticks' = ticks + 1
        /\ cached' = IF cached <= ticks' THEN 0 ELSE cached
        /\ expiries' = IF cached # 0 /\ cached <= ticks' THEN expiries + 1 ELSE expiries
        /\ lockRow' = IF lockRow.until <= ticks' THEN Caches!Free ELSE lockRow
        /\ overrun' = (overrun \/ (Caches!InRedis
                                   /\ \E t \in Caches!Holders : ticks' >= since[t] + LockTtl))
        /\ UNCHANGED <<strategy, at, since, stores>>
    BY DEF Caches!StampedeTick
  <1>3. StampedeShapes'
    <2>1. cached' \in Nat /\ stores' \in Nat /\ expiries' \in Nat /\ ticks' \in Nat
      BY <1>1, <1>2
    <2>2. lockRow' \in [owner : Fetchers \cup {Caches!Free.owner}, until : Nat]
      BY <1>1, <1>2 DEF Caches!Free
    <2>3. overrun' \in BOOLEAN
      BY <1>2
    <2> QED
      BY <1>2, <2>1, <2>2, <2>3 DEF StampedeInv, StampedeShapes
  <1>4. /\ Caches!Holders' = Caches!Holders /\ \A t \in Caches!Holders : t \in Fetchers
        /\ Caches!InProcess' = Caches!InProcess /\ Caches!InRedis' = Caches!InRedis
    BY <1>2 DEF Caches!Holders, Caches!InProcess, Caches!InRedis
  <1>5. \A t \in Fetchers : Caches!WithinTtl(t)' => Caches!WithinTtl(t)
    BY <1>1, <1>2 DEF Caches!WithinTtl
  <1>6. \A t \in Fetchers : Leased(t) /\ Caches!WithinTtl(t)' => Leased(t)'
    BY <1>1, <1>2 DEF Leased, Caches!WithinTtl
  <1>7. \A t \in Fetchers : Kept(t) => Kept(t)'
    BY <1>1, <1>2 DEF Kept
  <1>8. Caches!InRedis /\ ~overrun' =>
          ~overrun /\ \A t \in Caches!Holders : Caches!WithinTtl(t)'
    <2> SUFFICES ASSUME Caches!InRedis, ~overrun', NEW t \in Caches!Holders
                 PROVE  ~overrun /\ Caches!WithinTtl(t)'
      BY <1>2
    <2>1. ~overrun /\ ~(ticks' >= since[t] + LockTtl)
      BY <1>2
    <2>2. ticks' < since'[t] + LockTtl
      BY <1>1, <1>2, <1>4, <2>1
    <2> QED
      BY <2>1, <2>2 DEF Caches!WithinTtl
  <1>9. Leases'
    BY <1>2, <1>4, <1>5, <1>6, <1>7, <1>8 DEF StampedeInv, Leases
  <1>10. Counts'
    <2> SUFFICES ASSUME Caches!InProcess
                 PROVE  Counts'
      BY <1>4 DEF Counts
    <2>1. /\ Allowed' = Allowed /\ Allowed \in Nat /\ stores <= expiries + Allowed
          /\ cached = 0 => stores < expiries + Allowed
          /\ \A t \in Fetchers : at[t] \in {"query", "store"} => cached = 0
      BY <1>2 DEF StampedeInv, Counts, Allowed
    <2>2. stores' <= expiries' + Allowed' /\ (cached' = 0 => stores' < expiries' + Allowed')
      BY <1>1, <1>2, <2>1
    <2>3. cached = 0 => cached' = 0
      BY <1>1, <1>2
    <2> QED
      BY <1>2, <2>1, <2>2, <2>3 DEF Counts
  <1>11. Losers'
    BY <1>2 DEF StampedeInv, Losers
  <1> QED
    BY <1>3, <1>9, <1>10, <1>11 DEF StampedeInv

LEMMA StampedeInvStep ==
    ASSUME StampedeInv, Caches!StampedeNext \/ UNCHANGED stampedeVars
    PROVE  StampedeInv'
  <1>1. ASSUME NEW t \in Fetchers, Caches!Look(t)
        PROVE  StampedeInv'
    <2>1. /\ at[t] = "look"
          /\ UNCHANGED <<strategy, cached, lockRow, since, stores, expiries, overrun, ticks>>
      BY <1>1 DEF Caches!Look
    <2>2. PICK w \in {"served", "lock", "query"} :
            /\ at' = [at EXCEPT ![t] = w]
            /\ w = "lock" => strategy # "none"
            /\ w = "query" => strategy = "none"
      BY <1>1 DEF Caches!Look, Caches!Go
    <2>3. w \in Places /\ (w \in Caches!Inside => strategy = "none")
      BY <2>2 DEF Places, Caches!Inside
    <2> QED
      BY <2>1, <2>2, <2>3, MoveStep DEF Caches!InProcess
  <1>2. ASSUME NEW t \in Fetchers, Caches!Recheck(t)
        PROVE  StampedeInv'
    <2> DEFINE w == IF cached # 0 THEN "unlock" ELSE "query"
    <2>1. /\ at[t] \in Caches!Inside /\ at' = [at EXCEPT ![t] = w]
          /\ UNCHANGED <<strategy, cached, lockRow, since, stores, expiries, overrun, ticks>>
      BY <1>2 DEF Caches!Recheck, Caches!Go, Caches!Inside
    <2>2. /\ w \in Places /\ w \notin {"lock", "poll", "emptyhanded"}
          /\ w \in {"query", "store"} => cached = 0
      BY DEF Places, Caches!Inside
    <2> HIDE DEF w
    <2> QED
      BY <2>1, <2>2, MoveStep
  <1>3. ASSUME NEW t \in Fetchers, Caches!DbFetch(t)
        PROVE  StampedeInv'
    <2>1. /\ at[t] = "query" /\ at[t] \in Caches!Inside
          /\ UNCHANGED <<strategy, cached, lockRow, since, stores, expiries, overrun, ticks>>
      BY <1>3 DEF Caches!DbFetch, Caches!Inside
    <2>2. PICK w \in {"store", "unlock", "failed"} : at' = [at EXCEPT ![t] = w]
      BY <1>3 DEF Caches!DbFetch, Caches!Go
    <2>3. w \in Places /\ w \notin {"lock", "poll", "emptyhanded"}
      BY <2>2 DEF Places, Caches!Inside
    <2>4. Caches!InProcess => cached = 0
      BY <2>1 DEF StampedeInv, Counts
    <2> QED
      BY <2>1, <2>2, <2>3, <2>4, MoveStep
  <1>4. ASSUME NEW t \in Fetchers, Caches!Poll(t)
        PROVE  StampedeInv'
    <2>1. /\ at[t] = "poll" /\ at[t] \in Places /\ strategy \in {"mutex06", "mutex08"}
          /\ UNCHANGED <<strategy, cached, lockRow, since, stores, expiries, overrun, ticks>>
      BY <1>4 DEF Caches!Poll, StampedeInv, Losers, Places
    <2>2. at \in [Fetchers -> Places]
      BY DEF StampedeInv, StampedeShapes
    <2>3. PICK w \in {"served", "poll", "emptyhanded"} :
            /\ at' = [at EXCEPT ![t] = w]
            /\ w = "emptyhanded" => strategy # "mutex06"
      <3>1. CASE UNCHANGED at
        BY <2>1, <2>2, <3>1
      <3>2. CASE ~UNCHANGED at
        BY <1>4, <3>2 DEF Caches!Poll, Caches!Go
      <3> QED
        BY <3>1, <3>2
    <2>4. w \in Places /\ w \notin Caches!Inside /\ w \notin {"query", "store", "lock"}
      BY <2>3 DEF Places, Caches!Inside
    <2>5. w = "emptyhanded" => strategy = "mutex08"
      BY <2>1, <2>3
    <2> QED
      BY <2>1, <2>3, <2>4, <2>5, MoveStep
  <1>5. CASE UNCHANGED stampedeVars
    BY <1>5 DEF stampedeVars, StampedeInv, StampedeShapes, Leases, Counts, Losers, Allowed,
                Leased, Kept, Caches!WithinTtl, Caches!InRedis, Caches!InProcess, Caches!Holders
  <1> QED
    BY <1>1, <1>2, <1>3, <1>4, <1>5, AcquireStep, ReleaseStep, StoreStep, TickStep
       DEF Caches!StampedeNext, Caches!AllSettled, Caches!stampedeVars, stampedeVars

\* Threads that are all the same are one at most.
LEMMA OneAtMost ==
    ASSUME NEW S, \A x, y \in S : x = y
    PROVE  Caches!Cardinality(S) <= 1
  <1>1. Caches!Cardinality(S) = Cardinality(S)
    BY DEF Caches!Cardinality, Cardinality
  <1>2. CASE S = {}
    BY <1>1, <1>2, FS_EmptySet
  <1>3. CASE S # {}
    <2>1. PICK x \in S : TRUE
      BY <1>3
    <2>2. S = {x}
      BY <2>1
    <2>3. Cardinality(S) = 1
      BY <2>2, FS_Singleton
    <2> QED
      BY <1>1, <2>3
  <1> QED
    BY <1>2, <1>3

\* One thread is inside, unless a lease ran out while its thread was.
LEMMA StampedeInvHeld ==
    ASSUME StampedeInv
    PROVE  Caches!StampedeIsHeld
  <1>1. Caches!Holders \subseteq Fetchers
    BY DEF Caches!Holders
  <1>2. strategy = "lua" =>
          \A t, u \in Caches!Holders : Caches!WithinTtl(t) /\ Caches!WithinTtl(u) => t = u
    BY <1>1, OneOwner DEF StampedeInv, Leases
  <1>3. Caches!InRedis /\ ~overrun => Caches!Cardinality(Caches!Holders) <= 1
    <2> SUFFICES ASSUME Caches!InRedis, ~overrun
                 PROVE  Caches!Cardinality(Caches!Holders) <= 1
      OBVIOUS
    <2>1. \A t, u \in Caches!Holders : t = u
      BY <1>1, OneOwner DEF StampedeInv, Leases
    <2> QED
      BY <2>1, OneAtMost
  <1>4. Caches!InProcess => Caches!Cardinality(Caches!Holders) <= 1
    <2> SUFFICES ASSUME Caches!InProcess
                 PROVE  Caches!Cardinality(Caches!Holders) <= 1
      OBVIOUS
    <2>1. \A t, u \in Caches!Holders : t = u
      BY <1>1, OneOwner DEF StampedeInv, Leases
    <2> QED
      BY <2>1, OneAtMost
  <1>5. Caches!InProcess => stores <= expiries + (IF strategy = "local" THEN 1 ELSE 0)
    BY DEF StampedeInv, Counts, Allowed
  <1>6. (\E t \in Fetchers : at[t] = "emptyhanded") => strategy = "mutex08"
    BY DEF StampedeInv, Losers
  <1> QED
    BY <1>2, <1>3, <1>4, <1>5, <1>6 DEF Caches!StampedeIsHeld

(***************************************************************************)
(* The drive. A row of chunks is written after its object, and stays: what  *)
(* an upload has been through is stored, so a version that is saved is       *)
(* whole. What a client holds is judged by the rows and objects there are.  *)
(***************************************************************************)
ClientStates ==
    [op : {"idle", "upload", "resume", "save", "saving"},
     name : FileNames \cup Uploaders \cup {""}, content : Seq(Hashes),
     next : Nat, seen : BOOLEAN, base : Nat]

StoredIn(content, rows) == \A i \in 1..Len(content) : content[i] \in rows

\* The chunks before the next one are stored, the next one's object is there once it was
\* put; a resumed upload has stored the chunks in its Redis set.
Carries(c, got, rows, objs) ==
    IF c.op = "resume"
    THEN \A i \in got : i \in 1..Len(c.content) => c.content[i] \in rows
    ELSE /\ \A i \in 1..Len(c.content) : i < c.next => c.content[i] \in rows
         /\ c.seen /\ c.next \in 1..Len(c.content) => c.content[c.next] \in objs

\* A file's versions are stored, and its row names the last of them.
FileKept(hash, file, rows) ==
    /\ file \in Seq(Seq(Hashes)) /\ file # <<>>
    /\ \A i \in 1..Len(file) : StoredIn(file[i], rows)
    /\ hash = file[Len(file)]

DriveInv ==
    /\ objects \subseteq Hashes /\ DOMAIN chunkRows \subseteq objects
    /\ client \in [Uploaders -> ClientStates] /\ received \in [Uploaders -> SUBSET Nat]
    /\ DOMAIN fileHash = DOMAIN fileVersions
    /\ \A n \in DOMAIN fileVersions : FileKept(fileHash[n], fileVersions[n], DOMAIN chunkRows)
    /\ \A u \in Uploaders : Carries(client[u], received[u], DOMAIN chunkRows, objects)

LEMMA CarriesOn ==
    ASSUME NEW c \in ClientStates, NEW got \in SUBSET Nat, NEW rows, NEW objs, NEW more, NEW put,
           Carries(c, got, rows, objs), rows \subseteq more, objs \subseteq put
    PROVE  Carries(c, got, more, put)
  BY DEF Carries

LEMMA FileStays ==
    ASSUME NEW hash, NEW file, NEW rows, NEW more, FileKept(hash, file, rows), rows \subseteq more
    PROVE  FileKept(hash, file, more)
  BY DEF FileKept, StoredIn

\* What a step of one client may do: add rows after their objects, and save a version that
\* is stored.
LEMMA DriveKept ==
    ASSUME DriveInv, NEW u \in Uploaders, NEW c \in ClientStates, NEW got \in SUBSET Nat,
           client' = [client EXCEPT ![u] = c], received' = [received EXCEPT ![u] = got],
           DOMAIN chunkRows \subseteq DOMAIN chunkRows', objects \subseteq objects',
           objects' \subseteq Hashes, DOMAIN chunkRows' \subseteq objects',
           Carries(c, got, DOMAIN chunkRows', objects'),
           DOMAIN fileHash' = DOMAIN fileVersions',
           \A n \in DOMAIN fileVersions' :
             \/ FileKept(fileHash'[n], fileVersions'[n], DOMAIN chunkRows')
             \/ /\ n \in DOMAIN fileVersions
                /\ fileHash'[n] = fileHash[n] /\ fileVersions'[n] = fileVersions[n]
    PROVE  DriveInv'
  <1>1. client' \in [Uploaders -> ClientStates] /\ received' \in [Uploaders -> SUBSET Nat]
    BY DEF DriveInv
  <1>2. ASSUME NEW n \in DOMAIN fileVersions'
        PROVE  FileKept(fileHash'[n], fileVersions'[n], DOMAIN chunkRows')
    BY FileStays DEF DriveInv
  <1>3. ASSUME NEW v \in Uploaders
        PROVE  Carries(client'[v], received'[v], DOMAIN chunkRows', objects')
    <2>1. CASE v = u
      BY <2>1 DEF DriveInv
    <2>2. CASE v # u
      <3>1. client'[v] = client[v] /\ received'[v] = received[v]
        BY <2>2 DEF DriveInv
      <3>2. /\ client[v] \in ClientStates /\ received[v] \in SUBSET Nat
            /\ Carries(client[v], received[v], DOMAIN chunkRows, objects)
        BY DEF DriveInv
      <3> QED
        BY <3>1, <3>2, CarriesOn
    <2> QED
      BY <2>1, <2>2
  <1> QED
    BY <1>1, <1>2, <1>3 DEF DriveInv

LEMMA DriveInvInit ==
    ASSUME Drive!Init
    PROVE  DriveInv
  <1>1. /\ chunkRows = <<>> /\ fileHash = <<>> /\ fileVersions = <<>> /\ objects = {}
        /\ received = [u \in Uploaders |-> {}] /\ client = [u \in Uploaders |-> Drive!Idle]
    BY DEF Drive!Init, Drive!InitDb, Drive!EnsureBucket
  <1>2. DOMAIN chunkRows = {} /\ DOMAIN fileHash = {} /\ DOMAIN fileVersions = {}
    BY <1>1
  <1>3. Drive!Idle \in ClientStates /\ Drive!Idle.op = "idle" /\ Drive!Idle.content = <<>>
    BY DEF Drive!Idle, ClientStates
  <1>4. Carries(Drive!Idle, {}, DOMAIN chunkRows, objects)
    BY <1>3 DEF Carries
  <1> QED
    BY <1>1, <1>2, <1>3, <1>4 DEF DriveInv

LEMMA SaveKeeps ==
    ASSUME DriveInv, NEW n, NEW content \in Seq(Hashes), StoredIn(content, DOMAIN chunkRows),
           Drive!Save(n, content), chunkRows' = chunkRows
    PROVE  /\ DOMAIN fileHash' = DOMAIN fileVersions'
           /\ \A m \in DOMAIN fileVersions' :
                \/ FileKept(fileHash'[m], fileVersions'[m], DOMAIN chunkRows')
                \/ /\ m \in DOMAIN fileVersions
                   /\ fileHash'[m] = fileHash[m] /\ fileVersions'[m] = fileVersions[m]
  <1> DEFINE before == Drive!Versions(n)
             file == Append(before, content)
  <1>1. /\ before \in Seq(Seq(Hashes))
        /\ \A i \in 1..Len(before) : StoredIn(before[i], DOMAIN chunkRows)
    <2>1. CASE n \in DOMAIN fileVersions
      <3>1. before = fileVersions[n] /\ FileKept(fileHash[n], fileVersions[n], DOMAIN chunkRows)
        BY <2>1 DEF DriveInv, Drive!Versions
      <3> QED
        BY <3>1 DEF FileKept
    <2>2. CASE n \notin DOMAIN fileVersions
      BY <2>2 DEF Drive!Versions
    <2> QED
      BY <2>1, <2>2
  <1>2. /\ fileHash' = Drive!With(fileHash, n, content)
        /\ fileVersions' = Drive!With(fileVersions, n, file)
    BY DEF Drive!Save
  <1> HIDE DEF before
  <1>3. /\ file \in Seq(Seq(Hashes)) /\ Len(file) = Len(before) + 1 /\ file[Len(file)] = content
        /\ \A i \in 1..Len(file) : file[i] = IF i = Len(file) THEN content ELSE before[i]
    BY <1>1
  <1>4. file # <<>>
    BY <1>1, <1>3
  <1> HIDE DEF file
  <1>5. \A i \in 1..Len(file) : StoredIn(file[i], DOMAIN chunkRows)
    <2>1. \A i \in 1..Len(file) : i # Len(file) => i \in 1..Len(before)
      BY <1>1, <1>3
    <2> QED
      BY <1>1, <1>3, <2>1
  <1>6. FileKept(content, file, DOMAIN chunkRows')
    BY <1>3, <1>4, <1>5 DEF FileKept
  <1>7. /\ DOMAIN fileHash' = DOMAIN fileHash \cup {n}
        /\ DOMAIN fileVersions' = DOMAIN fileVersions \cup {n}
        /\ fileHash'[n] = content /\ fileVersions'[n] = file
        /\ \A m \in DOMAIN fileVersions : m # n => fileVersions'[m] = fileVersions[m]
        /\ \A m \in DOMAIN fileHash : m # n => fileHash'[m] = fileHash[m]
    BY <1>2 DEF Drive!With
  <1>8. DOMAIN fileHash = DOMAIN fileVersions
    BY DEF DriveInv
  <1>9. ASSUME NEW m \in DOMAIN fileVersions', m # n
        PROVE  /\ m \in DOMAIN fileVersions
               /\ fileHash'[m] = fileHash[m] /\ fileVersions'[m] = fileVersions[m]
    BY <1>7, <1>8, <1>9
  <1> QED
    BY <1>6, <1>7, <1>8, <1>9

LEMMA BeginStep ==
    ASSUME DriveInv, NEW u \in Uploaders, NEW op \in {"upload", "resume", "save"},
           NEW n \in FileNames \cup {u}, NEW content \in Contents,
           Drive!Begin(u, op, n, content)
    PROVE  DriveInv'
  <1>1. PICK base \in 0..Len(Drive!Versions(n)) :
          Drive!Set(u, [op |-> op, name |-> n, content |-> content, next |-> 1,
                        seen |-> FALSE, base |-> base])
    BY DEF Drive!Begin
  <1> DEFINE c == [op |-> op, name |-> n, content |-> content, next |-> 1,
                   seen |-> FALSE, base |-> base]
  <1>2. base \in Nat
    <2>1. Drive!Versions(n) \in Seq(Seq(Hashes))
      BY DEF Drive!Versions, DriveInv, FileKept
    <2> QED
      BY <2>1
  <1>3. content \in Seq(Hashes)
    BY MCAssumption DEF DriveAssumed
  <1>4. c \in ClientStates
    BY <1>2, <1>3 DEF ClientStates
  <1>5. client' = [client EXCEPT ![u] = c]
    BY <1>1 DEF Drive!Set
  <1>6. /\ c.op = op /\ c.content = content /\ c.next = 1 /\ c.seen = FALSE
    OBVIOUS
  <1> HIDE DEF c
  <1>7. /\ received' = [received EXCEPT ![u] = {}] /\ chunkRows' = chunkRows /\ objects' = objects
        /\ fileHash' = fileHash /\ fileVersions' = fileVersions
    BY DEF Drive!Begin
  <1>8. Carries(c, {}, DOMAIN chunkRows', objects')
    BY <1>3, <1>6 DEF Carries
  <1>9. /\ DOMAIN chunkRows \subseteq DOMAIN chunkRows' /\ objects \subseteq objects'
        /\ objects' \subseteq Hashes /\ DOMAIN chunkRows' \subseteq objects'
        /\ DOMAIN fileHash' = DOMAIN fileVersions' /\ {} \in SUBSET Nat
    BY <1>7 DEF DriveInv
  <1> QED
    BY <1>4, <1>5, <1>7, <1>8, <1>9, DriveKept

\* What stands still while a client only goes on, with what it carries.
LEMMA ClientGoesOn ==
    ASSUME DriveInv, NEW u \in Uploaders, NEW c \in ClientStates, client' = [client EXCEPT ![u] = c],
           received' = received, chunkRows' = chunkRows, objects' = objects,
           fileHash' = fileHash, fileVersions' = fileVersions,
           Carries(c, received[u], DOMAIN chunkRows, objects)
    PROVE  DriveInv'
  <1>1. received' = [received EXCEPT ![u] = received[u]] /\ received[u] \in SUBSET Nat
    BY DEF DriveInv
  <1>2. /\ DOMAIN chunkRows \subseteq DOMAIN chunkRows' /\ objects \subseteq objects'
        /\ objects' \subseteq Hashes /\ DOMAIN chunkRows' \subseteq objects'
        /\ DOMAIN fileHash' = DOMAIN fileVersions'
    BY DEF DriveInv
  <1> QED
    BY <1>1, <1>2, DriveKept

LEMMA IdleCarries ==
    /\ Drive!Idle \in ClientStates
    /\ \A got, rows, objs : Carries(Drive!Idle, got, rows, objs)
  BY DEF Drive!Idle, ClientStates, Carries

LEMMA DiesStep ==
    ASSUME DriveInv, NEW u \in Uploaders, Drive!Dies(u)
    PROVE  DriveInv'
  BY IdleCarries, ClientGoesOn DEF Drive!Dies, Drive!Set

LEMMA CheckBaseStep ==
    ASSUME DriveInv, NEW u \in Uploaders, Drive!CheckBase(u, u)
    PROVE  DriveInv'
  <1>1. client[u] \in ClientStates /\ Carries(client[u], received[u], DOMAIN chunkRows, objects)
    BY DEF DriveInv
  <1>2. PICK c \in {[client[u] EXCEPT !.op = "saving"],
                    [client[u] EXCEPT !.op = "upload", !.name = u]} :
          client' = [client EXCEPT ![u] = c]
    BY DEF Drive!CheckBase, Drive!Set
  <1>3. /\ c \in ClientStates /\ c.op # "resume" /\ c.content = client[u].content
        /\ c.next = client[u].next /\ c.seen = client[u].seen
    BY <1>1, <1>2 DEF ClientStates
  <1>4. client[u].op = "save"
    BY DEF Drive!CheckBase
  <1>5. Carries(c, received[u], DOMAIN chunkRows, objects)
    BY <1>1, <1>3, <1>4 DEF Carries
  <1> QED
    BY <1>2, <1>3, <1>5, ClientGoesOn DEF Drive!CheckBase

LEMMA UploadingHolds ==
    ASSUME DriveInv, NEW u \in Uploaders, Drive!Uploading(client[u])
    PROVE  /\ client[u] \in ClientStates /\ client[u].op # "resume"
           /\ client[u].next \in 1..Len(client[u].content) /\ Drive!Chunk(client[u]) \in Hashes
           /\ \A i \in 1..Len(client[u].content) :
                i < client[u].next => client[u].content[i] \in DOMAIN chunkRows
           /\ client[u].seen => Drive!Chunk(client[u]) \in objects
  <1>1. client[u] \in ClientStates /\ Carries(client[u], received[u], DOMAIN chunkRows, objects)
    BY DEF DriveInv
  <1>2. /\ client[u].op # "resume" /\ client[u].next \in DOMAIN client[u].content
        /\ client[u].content \in Seq(Hashes)
    BY <1>1 DEF Drive!Uploading, ClientStates
  <1> QED
    BY <1>1, <1>2 DEF Carries, Drive!Chunk

\* The next chunk is stored, and the upload goes on to the one after it.
LEMMA NextChunk ==
    ASSUME DriveInv, NEW u \in Uploaders, Drive!Uploading(client[u]), NEW rows, NEW objs,
           DOMAIN chunkRows \subseteq rows, Drive!Chunk(client[u]) \in rows,
           NEW c, c \in {[client[u] EXCEPT !.next = @ + 1],
                         [client[u] EXCEPT !.next = @ + 1, !.seen = FALSE]},
           ~client[u].seen \/ ~c.seen
    PROVE  c \in ClientStates /\ Carries(c, received[u], rows, objs)
  <1>1. /\ client[u] \in ClientStates /\ client[u].op # "resume"
        /\ client[u].next \in 1..Len(client[u].content)
        /\ \A i \in 1..Len(client[u].content) :
             i < client[u].next => client[u].content[i] \in DOMAIN chunkRows
    BY UploadingHolds
  <1>2. /\ c \in ClientStates /\ c.op = client[u].op /\ c.content = client[u].content
        /\ c.next = client[u].next + 1 /\ ~c.seen
    <2>0. client[u].next \in Nat
      BY <1>1 DEF ClientStates
    <2>1. client[u].next \in Nat /\ client[u].next + 1 \in Nat
      BY <2>0
    <2>2. CASE c = [client[u] EXCEPT !.next = @ + 1]
      <3>1. c = [client[u] EXCEPT !.next = client[u].next + 1] /\ ~client[u].seen
        BY <1>1, <2>2 DEF ClientStates
      <3> QED
        BY <1>1, <2>1, <3>1 DEF ClientStates
    <2>3. CASE c = [client[u] EXCEPT !.next = @ + 1, !.seen = FALSE]
      BY <1>1, <2>1, <2>3 DEF ClientStates
    <2> QED
      BY <2>2, <2>3
  <1>3. client[u].content \in Seq(Hashes) /\ client[u].next \in Nat
    BY <1>1 DEF ClientStates
  <1>4. \A i \in 1..Len(c.content) : i < c.next => c.content[i] \in rows
    <2>1. ASSUME NEW i \in 1..Len(c.content), i < c.next
          PROVE  c.content[i] \in rows
      <3>1. i < client[u].next \/ i = client[u].next
        BY <1>2, <1>3, <2>1
      <3> QED
        BY <1>1, <1>2, <2>1, <3>1 DEF Drive!Chunk
    <2> QED
      BY <2>1
  <1> QED
    BY <1>1, <1>2, <1>4 DEF Carries

LEMMA LookUpStep ==
    ASSUME DriveInv, NEW u \in Uploaders, Drive!LookUp(u)
    PROVE  DriveInv'
  <1> DEFINE h == Drive!Chunk(client[u])
  <1>1. /\ Drive!Uploading(client[u]) /\ ~client[u].seen
        /\ fileHash' = fileHash /\ fileVersions' = fileVersions /\ received' = received
    BY DEF Drive!LookUp
  <1>2. received' = [received EXCEPT ![u] = received[u]] /\ received[u] \in SUBSET Nat
    BY <1>1 DEF DriveInv
  <1>3. CASE h \in DOMAIN chunkRows
    <2>1. /\ client' = [client EXCEPT ![u] = [client[u] EXCEPT !.next = @ + 1]]
          /\ DOMAIN chunkRows' = DOMAIN chunkRows /\ objects' = objects
      BY <1>3 DEF Drive!LookUp, Drive!Set
    <2> DEFINE c == [client[u] EXCEPT !.next = @ + 1]
    <2>2. c \in ClientStates /\ Carries(c, received[u], DOMAIN chunkRows, objects)
      BY <1>1, <1>3, NextChunk
    <2> HIDE DEF c
    <2>3. /\ DOMAIN chunkRows \subseteq DOMAIN chunkRows' /\ objects \subseteq objects'
          /\ objects' \subseteq Hashes /\ DOMAIN chunkRows' \subseteq objects'
          /\ DOMAIN fileHash' = DOMAIN fileVersions'
          /\ Carries(c, received[u], DOMAIN chunkRows', objects')
      BY <1>1, <2>1, <2>2 DEF DriveInv
    <2>4. client' = [client EXCEPT ![u] = c]
      BY <2>1 DEF c
    <2> QED
      BY <1>1, <1>2, <2>2, <2>3, <2>4, DriveKept
  <1>4. CASE h \notin DOMAIN chunkRows
    <2> DEFINE c == [client[u] EXCEPT !.seen = TRUE]
    <2>1. /\ client' = [client EXCEPT ![u] = c]
          /\ chunkRows' = chunkRows /\ objects' = objects \cup {h}
      BY <1>4 DEF Drive!LookUp, Drive!Set
    <2>2. /\ client[u] \in ClientStates /\ client[u].op # "resume" /\ h \in Hashes
          /\ \A i \in 1..Len(client[u].content) :
               i < client[u].next => client[u].content[i] \in DOMAIN chunkRows
      BY <1>1, UploadingHolds
    <2>3. /\ c \in ClientStates /\ c.op = client[u].op /\ c.content = client[u].content
          /\ c.next = client[u].next
      BY <2>2 DEF ClientStates
    <2> HIDE DEF c
    <2>4. Carries(c, received[u], DOMAIN chunkRows', objects')
      BY <2>1, <2>2, <2>3 DEF Carries, Drive!Chunk
    <2>5. /\ DOMAIN chunkRows \subseteq DOMAIN chunkRows' /\ objects \subseteq objects'
          /\ objects' \subseteq Hashes /\ DOMAIN chunkRows' \subseteq objects'
          /\ DOMAIN fileHash' = DOMAIN fileVersions'
      BY <1>1, <2>1, <2>2 DEF DriveInv
    <2> QED
      BY <1>1, <1>2, <2>1, <2>3, <2>4, <2>5, DriveKept
  <1> QED
    BY <1>3, <1>4

LEMMA InsertChunkStep ==
    ASSUME DriveInv, NEW u \in Uploaders, Drive!InsertChunk(u)
    PROVE  DriveInv'
  <1> DEFINE h == Drive!Chunk(client[u])
             c == [client[u] EXCEPT !.next = @ + 1, !.seen = FALSE]
  <1>1. /\ Drive!Uploading(client[u]) /\ client[u].seen
        /\ chunkRows' = Drive!With(chunkRows, h, Drive!Refs(chunkRows, h) + 1)
        /\ client' = [client EXCEPT ![u] = c] /\ objects' = objects
        /\ fileHash' = fileHash /\ fileVersions' = fileVersions /\ received' = received
    BY DEF Drive!InsertChunk, Drive!Set
  <1>2. received' = [received EXCEPT ![u] = received[u]] /\ received[u] \in SUBSET Nat
    BY <1>1 DEF DriveInv
  <1>3. DOMAIN chunkRows' = DOMAIN chunkRows \cup {h}
    BY <1>1 DEF Drive!With
  <1>4. h \in objects /\ client[u] \in ClientStates
    BY <1>1, UploadingHolds
  <1>5. ~c.seen
    BY <1>4 DEF ClientStates
  <1>6. c \in ClientStates /\ Carries(c, received[u], DOMAIN chunkRows', objects')
    BY <1>1, <1>3, <1>5, NextChunk
  <1> HIDE DEF c
  <1>7. /\ DOMAIN chunkRows \subseteq DOMAIN chunkRows' /\ objects \subseteq objects'
        /\ objects' \subseteq Hashes /\ DOMAIN chunkRows' \subseteq objects'
        /\ DOMAIN fileHash' = DOMAIN fileVersions'
    BY <1>1, <1>3, <1>4 DEF DriveInv
  <1> QED
    BY <1>1, <1>2, <1>6, <1>7, DriveKept

LEMMA ResumePutStep ==
    ASSUME DriveInv, NEW u \in Uploaders, Drive!ResumePut(u)
    PROVE  DriveInv'
  <1>1. client[u] \in ClientStates /\ Carries(client[u], received[u], DOMAIN chunkRows, objects)
    BY DEF DriveInv
  <1>2. /\ client[u].op = "resume" /\ client[u].content \in Seq(Hashes)
        /\ fileHash' = fileHash /\ fileVersions' = fileVersions
    BY <1>1 DEF Drive!ResumePut, ClientStates
  <1>3. PICK i \in DOMAIN client[u].content \ received[u] :
          /\ objects' = objects \cup {client[u].content[i]}
          /\ chunkRows' = Drive!With(chunkRows, client[u].content[i],
                                     Drive!Refs(chunkRows, client[u].content[i]) + 1)
          /\ \/ received' = [received EXCEPT ![u] = @ \cup {i}]
             \/ received' = received
          /\ client' = [client EXCEPT ![u] = [client[u] EXCEPT !.next = i + 1]]
    BY DEF Drive!ResumePut, Drive!Set
  <1> DEFINE h == client[u].content[i]
             c == [client[u] EXCEPT !.next = i + 1]
  <1>4. i \in Nat /\ h \in Hashes
    BY <1>2
  <1>5. PICK got \in {received[u], received[u] \cup {i}} :
          received' = [received EXCEPT ![u] = got]
    BY <1>3 DEF DriveInv
  <1>6. got \in SUBSET Nat
    BY <1>4 DEF DriveInv
  <1>7. DOMAIN chunkRows' = DOMAIN chunkRows \cup {h}
    BY <1>3 DEF Drive!With
  <1>8. /\ c \in ClientStates /\ c.op = "resume" /\ c.content = client[u].content
    <2>1. i + 1 \in Nat
      BY <1>4
    <2> QED
      BY <1>1, <1>2, <2>1 DEF ClientStates
  <1>9. client' = [client EXCEPT ![u] = c]
    BY <1>3
  <1> HIDE DEF c
  <1>10. Carries(c, got, DOMAIN chunkRows', objects')
    BY <1>1, <1>2, <1>7, <1>8 DEF Carries
  <1>11. /\ DOMAIN chunkRows \subseteq DOMAIN chunkRows' /\ objects \subseteq objects'
         /\ objects' \subseteq Hashes /\ DOMAIN chunkRows' \subseteq objects'
         /\ DOMAIN fileHash' = DOMAIN fileVersions'
    BY <1>2, <1>3, <1>4, <1>7 DEF DriveInv
  <1> QED
    BY <1>2, <1>5, <1>6, <1>8, <1>9, <1>10, <1>11, DriveKept

\* A client that is done saves what it has stored, or leaves the files alone.
LEMMA SavingStep ==
    ASSUME DriveInv, NEW u \in Uploaders, StoredIn(client[u].content, DOMAIN chunkRows),
           client' = [client EXCEPT ![u] = Drive!Idle],
           NEW got \in SUBSET Nat, received' = [received EXCEPT ![u] = got],
           chunkRows' = chunkRows, objects' = objects,
           \/ Drive!Save(client[u].name, client[u].content)
           \/ fileHash' = fileHash /\ fileVersions' = fileVersions
    PROVE  DriveInv'
  <1>1. client[u].content \in Seq(Hashes)
    BY DEF DriveInv, ClientStates
  <1>2. Drive!Idle \in ClientStates /\ Carries(Drive!Idle, got, DOMAIN chunkRows', objects')
    BY IdleCarries
  <1>3. /\ DOMAIN fileHash' = DOMAIN fileVersions'
        /\ \A n \in DOMAIN fileVersions' :
             \/ FileKept(fileHash'[n], fileVersions'[n], DOMAIN chunkRows')
             \/ /\ n \in DOMAIN fileVersions
                /\ fileHash'[n] = fileHash[n] /\ fileVersions'[n] = fileVersions[n]
    <2>1. CASE Drive!Save(client[u].name, client[u].content)
      BY <1>1, <2>1, SaveKeeps
    <2>2. CASE fileHash' = fileHash /\ fileVersions' = fileVersions
      BY <2>2 DEF DriveInv
    <2> QED
      BY <2>1, <2>2
  <1>4. /\ DOMAIN chunkRows \subseteq DOMAIN chunkRows' /\ objects \subseteq objects'
        /\ objects' \subseteq Hashes /\ DOMAIN chunkRows' \subseteq objects'
    BY DEF DriveInv
  <1> QED
    BY <1>2, <1>3, <1>4, DriveKept

LEMMA CompleteStep ==
    ASSUME DriveInv, NEW u \in Uploaders,
           Drive!Complete(u) \/ Drive!CompleteResumed(u) \/ Drive!CompleteSave(u)
    PROVE  DriveInv'
  <1>1. /\ client[u] \in ClientStates /\ Carries(client[u], received[u], DOMAIN chunkRows, objects)
        /\ received[u] \in SUBSET Nat
    BY DEF DriveInv
  <1>2. client[u].content \in Seq(Hashes) /\ client[u].next \in Nat
    BY <1>1 DEF ClientStates
  <1>3. /\ client' = [client EXCEPT ![u] = Drive!Idle]
        /\ chunkRows' = chunkRows /\ objects' = objects
        /\ \/ Drive!Save(client[u].name, client[u].content)
           \/ fileHash' = fileHash /\ fileVersions' = fileVersions
    BY DEF Drive!Complete, Drive!CompleteResumed, Drive!CompleteSave, Drive!Set
  <1>4. PICK got \in SUBSET Nat : received' = [received EXCEPT ![u] = got]
    <2>1. CASE Drive!CompleteResumed(u)
      BY <2>1 DEF Drive!CompleteResumed
    <2>2. CASE Drive!Complete(u) \/ Drive!CompleteSave(u)
      <3>1. received' = [received EXCEPT ![u] = received[u]]
        BY <2>2 DEF Drive!Complete, Drive!CompleteSave, DriveInv
      <3> QED
        BY <1>1, <3>1
    <2> QED
      BY <2>1, <2>2
  <1>5. StoredIn(client[u].content, DOMAIN chunkRows)
    <2>1. CASE Drive!CompleteResumed(u)
      <3>1. client[u].op = "resume" /\ DOMAIN client[u].content \subseteq received[u]
        BY <2>1 DEF Drive!CompleteResumed, Drive!Received
      <3> QED
        BY <1>1, <1>2, <3>1 DEF Carries, StoredIn
    <2>2. CASE Drive!Complete(u) \/ Drive!CompleteSave(u)
      <3>1. client[u].op \in {"upload", "saving"} /\ client[u].next > Len(client[u].content)
        BY <2>2 DEF Drive!Complete, Drive!CompleteSave
      <3>2. \A i \in 1..Len(client[u].content) : i < client[u].next
        BY <1>2, <3>1
      <3> QED
        BY <1>1, <3>1, <3>2 DEF Carries, StoredIn
    <2> QED
      BY <2>1, <2>2
  <1> QED
    BY <1>3, <1>4, <1>5, SavingStep

LEMMA DriveInvStep ==
    ASSUME DriveInv, Drive!Next \/ UNCHANGED driveVars
    PROVE  DriveInv'
  <1>1. CASE UNCHANGED driveVars \/ Drive!DriveFull
    BY <1>1 DEF driveVars, Drive!DriveFull, Drive!vars, DriveInv
  <1>2. ASSUME NEW u \in Uploaders, NEW op \in {"upload", "resume", "save"},
               NEW n \in FileNames \cup {u}, NEW c \in Contents, Drive!Begin(u, op, n, c)
        PROVE  DriveInv'
    BY <1>2, BeginStep
  <1>3. ASSUME NEW u \in Uploaders, Drive!DeltaSync(u)
        PROVE  DriveInv'
    BY <1>3, LookUpStep, InsertChunkStep, CompleteStep DEF Drive!DeltaSync
  <1>4. ASSUME NEW u \in Uploaders,
               \/ Drive!ResumePut(u) \/ Drive!CompleteResumed(u) \/ Drive!Dies(u)
               \/ Drive!CheckBase(u, u) \/ Drive!CompleteSave(u)
        PROVE  DriveInv'
    BY <1>4, ResumePutStep, CompleteStep, DiesStep, CheckBaseStep
  <1> QED
    BY <1>1, <1>2, <1>3, <1>4 DEF Drive!Next

LEMMA DriveInvWhole ==
    ASSUME DriveInv
    PROVE  Drive!FilesAreWhole /\ Drive!TypeOK
  <1>1. ASSUME NEW n \in DOMAIN fileVersions
        PROVE  /\ \A i \in DOMAIN fileVersions[n] :
                    Drive!Range(fileVersions[n][i]) \subseteq DOMAIN chunkRows
               /\ fileHash[n] = fileVersions[n][Len(fileVersions[n])]
    <2>1. FileKept(fileHash[n], fileVersions[n], DOMAIN chunkRows)
      BY DEF DriveInv
    <2>2. ASSUME NEW i \in DOMAIN fileVersions[n]
          PROVE  Drive!Range(fileVersions[n][i]) \subseteq DOMAIN chunkRows
      <3>1. /\ fileVersions[n][i] \in Seq(Hashes)
            /\ \A j \in 1..Len(fileVersions[n][i]) : fileVersions[n][i][j] \in DOMAIN chunkRows
        BY <2>1 DEF FileKept, StoredIn
      <3> QED
        BY <3>1 DEF Drive!Range
    <2> QED
      BY <2>1, <2>2 DEF FileKept
  <1>2. \A u \in Uploaders : client[u].op \in {"idle", "upload", "resume", "save", "saving"}
    BY DEF DriveInv, ClientStates
  <1> QED
    BY <1>1, <1>2 DEF DriveInv, Drive!FilesAreWhole, Drive!TypeOK

\* Only the save of the client itself moves it from saving to idle and writes a version.
LEMMA SavesAreSeen ==
    ASSUME DriveInv, Drive!Next \/ UNCHANGED driveVars
    PROVE  Drive!OverwritesSeen
  <1> SUFFICES ASSUME NEW u \in Uploaders, client[u].op = "saving", client'[u].op = "idle",
                      fileVersions' # fileVersions
               PROVE  Len(Drive!Versions(client[u].name)) = client[u].base
    BY DEF Drive!OverwritesSeen
  <1>1. PICK v \in Uploaders :
          \/ Drive!Complete(v) \/ Drive!CompleteResumed(v) \/ Drive!CompleteSave(v)
    BY DEF Drive!Next, Drive!DeltaSync, Drive!Begin, Drive!LookUp, Drive!InsertChunk,
           Drive!ResumePut, Drive!Dies, Drive!CheckBase, Drive!DriveFull, Drive!vars, driveVars
  <1>2. client' = [client EXCEPT ![v] = Drive!Idle]
    BY <1>1 DEF Drive!Complete, Drive!CompleteResumed, Drive!CompleteSave, Drive!Set
  <1>3. v = u
    BY <1>2 DEF DriveInv
  <1>4. Drive!CompleteSave(u)
    BY <1>1, <1>3 DEF Drive!Complete, Drive!CompleteResumed
  <1> QED
    BY <1>4 DEF Drive!CompleteSave

(***************************************************************************)
(* The bucket. A part that was sent is a part of its upload's body, with its *)
(* number, so what is put together by the numbers is the body.               *)
(***************************************************************************)
UploadRows ==
    [key : ObjectKeys, body : Bodies, parallel : BOOLEAN, parts : Seq(Nat \X BodyParts),
     state : {"open", "complete", "zombie"}]

PartsOf(u) ==
    \A j \in 1..Len(u.parts) :
        u.parts[j][1] \in DOMAIN u.body /\ u.parts[j][2] = u.body[u.parts[j][1]]

MadeBy(k, body, ups) ==
    \E i \in 1..Len(ups) : ups[i].state = "complete" /\ ups[i].key = k /\ ups[i].body = body

BucketInv ==
    /\ uploads \in Seq(UploadRows) /\ Len(uploads) <= MaxUploads
    /\ \A i \in 1..Len(uploads) : PartsOf(uploads[i])
    /\ DOMAIN bucket \subseteq ObjectKeys
    /\ \A k \in DOMAIN bucket :
         bucket[k] \in Bodies /\ (Len(bucket[k]) > 1 => MadeBy(k, bucket[k], uploads))
    /\ clock \in Nat
    /\ \A url \in urls : url[2] \in Nat /\ url[2] <= clock + UrlExpiry

LEMMA AssembledWhole ==
    ASSUME NEW u \in UploadRows, PartsOf(u), Bucket!Sent(u) = DOMAIN u.body
    PROVE  Bucket!Assemble(u) = u.body
  <1>1. u.body \in Seq(BodyParts) /\ u.parts \in Seq(Nat \X BodyParts)
    BY MCAssumption DEF UploadRows, BucketAssumed
  <1>2. ASSUME NEW n \in DOMAIN u.body
        PROVE  u.parts[CHOOSE i \in DOMAIN u.parts : u.parts[i][1] = n][2] = u.body[n]
    <2>1. \E i \in DOMAIN u.parts : u.parts[i][1] = n
      BY DEF Bucket!Sent
    <2> DEFINE i == CHOOSE j \in DOMAIN u.parts : u.parts[j][1] = n
    <2>2. i \in DOMAIN u.parts /\ u.parts[i][1] = n
      BY <2>1
    <2> HIDE DEF i
    <2>3. u.parts[i][2] = u.body[n]
      <3>1. i \in 1..Len(u.parts)
        BY <1>1, <2>2
      <3>2. u.parts[i][2] = u.body[u.parts[i][1]]
        BY <3>1 DEF PartsOf
      <3> QED
        BY <2>2, <3>2
    <2> QED
      BY <2>3 DEF i
  <1>3. u.body = [n \in DOMAIN u.body |-> u.body[n]]
    BY <1>1
  <1> QED
    BY <1>2, <1>3 DEF Bucket!Assemble

\* An upload that is complete stays so, whatever row an unfinished one changes.
LEMMA UploadChanges ==
    ASSUME BucketInv, NEW i \in 1..Len(uploads), uploads[i].state = "open",
           NEW u \in UploadRows, PartsOf(u), uploads' = [uploads EXCEPT ![i] = u]
    PROVE  /\ uploads' \in Seq(UploadRows) /\ Len(uploads') = Len(uploads)
           /\ \A j \in 1..Len(uploads') : PartsOf(uploads'[j])
           /\ \A k, body : MadeBy(k, body, uploads) => MadeBy(k, body, uploads')
  <1>1. uploads' \in Seq(UploadRows) /\ Len(uploads') = Len(uploads)
    BY DEF BucketInv
  <1>2. \A j \in 1..Len(uploads) : uploads'[j] = IF j = i THEN u ELSE uploads[j]
    BY DEF BucketInv
  <1>3. \A j \in 1..Len(uploads') : PartsOf(uploads'[j])
    BY <1>1, <1>2 DEF BucketInv
  <1>4. \A k, body : MadeBy(k, body, uploads) => MadeBy(k, body, uploads')
    BY <1>1, <1>2 DEF MadeBy
  <1> QED
    BY <1>1, <1>3, <1>4

LEMMA BucketInvInit ==
    ASSUME Bucket!Init
    PROVE  BucketInv
  <1>1. bucket = <<>> /\ uploads = <<>> /\ urls = {} /\ clock = 0
    BY DEF Bucket!Init
  <1>2. DOMAIN bucket = {} /\ uploads \in Seq(UploadRows) /\ Len(uploads) = 0
    BY <1>1
  <1>3. Len(uploads) <= MaxUploads
    BY <1>2, MCAssumption DEF BucketAssumed
  <1>4. 1..Len(uploads) = {}
    BY <1>2
  <1> QED
    BY <1>1, <1>2, <1>3, <1>4 DEF BucketInv

LEMMA StoredObject ==
    ASSUME BucketInv, NEW k \in ObjectKeys, NEW body \in Bodies,
           bucket' = Bucket!Store(k, body),
           Len(body) > 1 => MadeBy(k, body, uploads'),
           \A l, b : MadeBy(l, b, uploads) => MadeBy(l, b, uploads')
    PROVE  /\ DOMAIN bucket' \subseteq ObjectKeys
           /\ \A l \in DOMAIN bucket' :
                bucket'[l] \in Bodies /\ (Len(bucket'[l]) > 1 => MadeBy(l, bucket'[l], uploads'))
  <1>1. /\ DOMAIN bucket' = DOMAIN bucket \cup {k} /\ bucket'[k] = body
        /\ \A l \in DOMAIN bucket : l # k => bucket'[l] = bucket[l]
    BY DEF Bucket!Store
  <1>2. \A l \in DOMAIN bucket :
          bucket[l] \in Bodies /\ (Len(bucket[l]) > 1 => MadeBy(l, bucket[l], uploads))
    BY DEF BucketInv
  <1>3. ASSUME NEW l \in DOMAIN bucket'
        PROVE  bucket'[l] \in Bodies /\ (Len(bucket'[l]) > 1 => MadeBy(l, bucket'[l], uploads'))
    <2>1. CASE l = k
      BY <1>1, <2>1
    <2>2. CASE l # k
      <3>1. l \in DOMAIN bucket /\ bucket'[l] = bucket[l]
        BY <1>1, <2>2
      <3> QED
        BY <1>2, <3>1
    <2> QED
      BY <2>1, <2>2
  <1> QED
    BY <1>1, <1>3 DEF BucketInv

LEMMA PutSmallStep ==
    ASSUME BucketInv, NEW k \in ObjectKeys, NEW body \in Bodies, Bucket!PutSmall(k, body)
    PROVE  BucketInv'
  <1>1. /\ Len(body) = 1 /\ bucket' = Bucket!Store(k, body)
        /\ uploads' = uploads /\ urls' = urls /\ clock' = clock
    BY DEF Bucket!PutSmall
  <1>2. ~(Len(body) > 1)
    BY <1>1
  <1> QED
    BY <1>1, <1>2, StoredObject DEF BucketInv

LEMMA InitiateStep ==
    ASSUME BucketInv, NEW k \in ObjectKeys, NEW body \in Bodies, NEW parallel \in BOOLEAN,
           Bucket!Initiate(k, body, parallel)
    PROVE  BucketInv'
  <1> DEFINE u == [key |-> k, body |-> body, parallel |-> parallel, parts |-> <<>>, state |-> "open"]
  <1>1. /\ Len(uploads) < MaxUploads /\ uploads' = Append(uploads, u)
        /\ bucket' = bucket /\ urls' = urls /\ clock' = clock
    BY DEF Bucket!Initiate
  <1>2. u \in UploadRows /\ PartsOf(u)
    BY DEF UploadRows, PartsOf
  <1> HIDE DEF u
  <1>3. uploads \in Seq(UploadRows) /\ MaxUploads \in Nat
    BY MCAssumption DEF BucketInv, BucketAssumed
  <1>4. /\ uploads' \in Seq(UploadRows) /\ Len(uploads') = Len(uploads) + 1
        /\ \A j \in 1..Len(uploads') : uploads'[j] = IF j <= Len(uploads) THEN uploads[j] ELSE u
        /\ Len(uploads') <= MaxUploads
    BY <1>1, <1>2, <1>3
  <1>5. \A j \in 1..Len(uploads) : j \in 1..Len(uploads') /\ uploads'[j] = uploads[j]
    BY <1>3, <1>4
  <1>6. \A j \in 1..Len(uploads') : PartsOf(uploads'[j])
    <2>1. ASSUME NEW j \in 1..Len(uploads')
          PROVE  PartsOf(uploads'[j])
      <3>1. j \in 1..Len(uploads) \/ uploads'[j] = u
        BY <1>3, <1>4
      <3> QED
        BY <1>2, <1>5, <3>1 DEF BucketInv
    <2> QED
      BY <2>1
  <1>7. \A l, b : MadeBy(l, b, uploads) => MadeBy(l, b, uploads')
    BY <1>5 DEF MadeBy
  <1> QED
    BY <1>1, <1>4, <1>6, <1>7 DEF BucketInv

LEMMA UploadPartStep ==
    ASSUME BucketInv, NEW i \in DOMAIN uploads, NEW n \in DOMAIN uploads[i].body,
           Bucket!UploadPart(i, n)
    PROVE  BucketInv'
  <1> DEFINE parts == Append(uploads[i].parts, <<n, uploads[i].body[n]>>)
             u == [uploads[i] EXCEPT !.parts = parts]
  <1>1. i \in 1..Len(uploads) /\ uploads[i] \in UploadRows /\ PartsOf(uploads[i])
    BY DEF BucketInv
  <1>2. /\ uploads[i].state = "open" /\ bucket' = bucket /\ urls' = urls /\ clock' = clock
        /\ uploads' = [uploads EXCEPT ![i] = u]
    BY DEF Bucket!UploadPart
  <1>3. uploads[i].body \in Bodies /\ uploads[i].parts \in Seq(Nat \X BodyParts)
    BY <1>1 DEF UploadRows
  <1>4. n \in Nat /\ uploads[i].body[n] \in BodyParts
    BY <1>3, MCAssumption DEF BucketAssumed
  <1>5. /\ parts \in Seq(Nat \X BodyParts) /\ Len(parts) = Len(uploads[i].parts) + 1
        /\ \A j \in 1..Len(parts) :
             parts[j] = IF j = Len(parts) THEN <<n, uploads[i].body[n]>> ELSE uploads[i].parts[j]
    BY <1>3, <1>4
  <1> HIDE DEF parts
  <1>6. u \in UploadRows /\ u.parts = parts /\ u.body = uploads[i].body
    BY <1>1, <1>5 DEF UploadRows
  <1>7. PartsOf(u)
    <2>1. ASSUME NEW j \in 1..Len(parts)
          PROVE  parts[j][1] \in DOMAIN u.body /\ parts[j][2] = u.body[parts[j][1]]
      <3>1. CASE j = Len(parts)
        <4>1. parts[j] = <<n, uploads[i].body[n]>>
          BY <1>5, <3>1
        <4>2. parts[j][1] = n /\ parts[j][2] = uploads[i].body[n]
          BY <4>1
        <4> QED
          BY <1>6, <4>2
      <3>2. CASE j # Len(parts)
        <4>1. j \in 1..Len(uploads[i].parts)
          BY <1>3, <1>5, <3>2
        <4> QED
          BY <1>1, <1>5, <1>6, <3>2, <4>1 DEF PartsOf
      <3> QED
        BY <3>1, <3>2
    <2> QED
      BY <1>6, <2>1 DEF PartsOf
  <1> HIDE DEF u
  <1> QED
    BY <1>1, <1>2, <1>6, <1>7, UploadChanges DEF BucketInv

\* An upload is over: complete or interrupted.
LEMMA UploadEnds ==
    ASSUME BucketInv, NEW i \in DOMAIN uploads, uploads[i].state = "open",
           NEW end \in {"complete", "zombie"},
           uploads' = [uploads EXCEPT ![i].state = end]
    PROVE  /\ uploads' \in Seq(UploadRows) /\ Len(uploads') <= MaxUploads
           /\ \A j \in 1..Len(uploads') : PartsOf(uploads'[j])
           /\ \A k, body : MadeBy(k, body, uploads) => MadeBy(k, body, uploads')
           /\ end = "complete" => MadeBy(uploads[i].key, uploads[i].body, uploads')
  <1> DEFINE u == [uploads[i] EXCEPT !.state = end]
  <1>1. i \in 1..Len(uploads) /\ uploads[i] \in UploadRows /\ PartsOf(uploads[i])
    BY DEF BucketInv
  <1>2. /\ u \in UploadRows /\ u.parts = uploads[i].parts /\ u.body = uploads[i].body
        /\ u.key = uploads[i].key /\ u.state = end
    BY <1>1 DEF UploadRows
  <1>3. PartsOf(u)
    BY <1>1, <1>2 DEF PartsOf
  <1>4. uploads' = [uploads EXCEPT ![i] = u]
    OBVIOUS
  <1> HIDE DEF u
  <1>5. /\ uploads' \in Seq(UploadRows) /\ Len(uploads') = Len(uploads)
        /\ \A j \in 1..Len(uploads') : PartsOf(uploads'[j])
        /\ \A k, body : MadeBy(k, body, uploads) => MadeBy(k, body, uploads')
    BY <1>1, <1>2, <1>3, <1>4, UploadChanges
  <1>6. uploads'[i] = u
    BY <1>1, <1>4 DEF BucketInv
  <1>7. end = "complete" => MadeBy(uploads[i].key, uploads[i].body, uploads')
    <2>1. i \in 1..Len(uploads')
      BY <1>1, <1>5
    <2> QED
      BY <1>2, <1>6, <2>1 DEF MadeBy
  <1>8. Len(uploads') <= MaxUploads
    BY <1>5 DEF BucketInv
  <1> QED
    BY <1>5, <1>7, <1>8

LEMMA UploadOverStep ==
    ASSUME BucketInv, NEW i \in DOMAIN uploads, Bucket!Complete(i) \/ Bucket!Interrupt(i)
    PROVE  BucketInv'
  <1>1. i \in 1..Len(uploads) /\ uploads[i] \in UploadRows /\ PartsOf(uploads[i])
    BY DEF BucketInv
  <1>2. CASE Bucket!Interrupt(i)
    <2>1. /\ uploads[i].state = "open" /\ uploads' = [uploads EXCEPT ![i].state = "zombie"]
          /\ bucket' = bucket /\ urls' = urls /\ clock' = clock
      BY <1>2 DEF Bucket!Interrupt
    <2> QED
      BY <2>1, UploadEnds DEF BucketInv
  <1>3. CASE Bucket!Complete(i)
    <2>1. /\ uploads[i].state = "open" /\ uploads' = [uploads EXCEPT ![i].state = "complete"]
          /\ Bucket!Sent(uploads[i]) = DOMAIN uploads[i].body
          /\ bucket' = Bucket!Store(uploads[i].key, Bucket!Assemble(uploads[i]))
          /\ urls' = urls /\ clock' = clock
      BY <1>3 DEF Bucket!Complete
    <2>2. Bucket!Assemble(uploads[i]) = uploads[i].body
      BY <1>1, <2>1, AssembledWhole
    <2>3. uploads[i].key \in ObjectKeys /\ uploads[i].body \in Bodies
      BY <1>1 DEF UploadRows
    <2>4. /\ uploads' \in Seq(UploadRows) /\ Len(uploads') <= MaxUploads
          /\ \A j \in 1..Len(uploads') : PartsOf(uploads'[j])
          /\ \A k, body : MadeBy(k, body, uploads) => MadeBy(k, body, uploads')
          /\ MadeBy(uploads[i].key, uploads[i].body, uploads')
      BY <2>1, UploadEnds
    <2>5. /\ DOMAIN bucket' \subseteq ObjectKeys
          /\ \A l \in DOMAIN bucket' :
               bucket'[l] \in Bodies /\ (Len(bucket'[l]) > 1 => MadeBy(l, bucket'[l], uploads'))
      BY <2>1, <2>2, <2>3, <2>4, StoredObject
    <2> QED
      BY <2>1, <2>4, <2>5 DEF BucketInv
  <1> QED
    BY <1>2, <1>3

LEMMA UrlsStep ==
    ASSUME BucketInv, Bucket!Tick \/ \E k \in ObjectKeys : Bucket!Presign(k)
    PROVE  BucketInv'
  <1>1. bucket' = bucket /\ uploads' = uploads
    BY DEF Bucket!Presign, Bucket!Tick
  <1>2. clock \in Nat /\ UrlExpiry \in Nat /\ \A url \in urls : url[2] \in Nat /\ url[2] <= clock + UrlExpiry
    BY MCAssumption DEF BucketInv, BucketAssumed
  <1>3. clock' \in Nat /\ \A url \in urls' : url[2] \in Nat /\ url[2] <= clock' + UrlExpiry
    <2>1. CASE Bucket!Tick
      <3>1. clock' = clock + 1 /\ urls' = urls
        BY <2>1 DEF Bucket!Tick
      <3> QED
        BY <1>2, <3>1
    <2>2. ASSUME NEW k \in ObjectKeys, Bucket!Presign(k)
          PROVE  clock' \in Nat /\ \A url \in urls' : url[2] \in Nat /\ url[2] <= clock' + UrlExpiry
      <3>1. clock' = clock /\ urls' = urls \cup {<<k, clock + UrlExpiry>>}
        BY <2>2 DEF Bucket!Presign
      <3>2. <<k, clock + UrlExpiry>>[2] = clock + UrlExpiry
        OBVIOUS
      <3> QED
        BY <1>2, <3>1, <3>2
    <2> QED
      BY <2>1, <2>2
  <1> QED
    BY <1>1, <1>3 DEF BucketInv

LEMMA BucketInvStep ==
    ASSUME BucketInv, Bucket!Next \/ UNCHANGED bucketVars
    PROVE  BucketInv'
  <1>1. CASE UNCHANGED bucketVars \/ UNCHANGED Bucket!vars
    BY <1>1 DEF bucketVars, Bucket!vars, BucketInv
  <1>2. CASE Bucket!Tick \/ \E k \in ObjectKeys : Bucket!Presign(k)
    BY <1>2, UrlsStep
  <1>3. CASE \E k \in ObjectKeys, b \in Bodies :
               Bucket!PutSmall(k, b) \/ \E p \in BOOLEAN : Bucket!Initiate(k, b, p)
    BY <1>3, PutSmallStep, InitiateStep
  <1>4. CASE \E i \in DOMAIN uploads :
               \/ Bucket!Complete(i) \/ Bucket!Interrupt(i)
               \/ \E n \in DOMAIN uploads[i].body : Bucket!UploadPart(i, n)
    BY <1>4, UploadOverStep, UploadPartStep
  <1> QED
    BY <1>1, <1>2, <1>3, <1>4 DEF Bucket!Next

LEMMA BucketInvWhole ==
    ASSUME BucketInv
    PROVE  Bucket!ObjectsAreWhole /\ Bucket!TypeOK
  <1>1. DOMAIN uploads = 1..Len(uploads)
    BY DEF BucketInv
  <1>2. ASSUME NEW k \in DOMAIN bucket
        PROVE  /\ bucket[k] \in Bodies
               /\ Len(bucket[k]) > 1 =>
                    \E i \in DOMAIN uploads : uploads[i].state = "complete" /\ uploads[i].key = k
                                               /\ uploads[i].body = bucket[k]
    BY <1>1 DEF BucketInv, MadeBy
  <1>3. \A url \in urls : Bucket!Valid(url) => clock <= url[2] /\ url[2] <= clock + UrlExpiry
    BY DEF BucketInv, Bucket!Valid
  <1>4. Bucket!ObjectsAreWhole
    BY <1>2, <1>3 DEF Bucket!ObjectsAreWhole, Bucket!Listing
  <1>5. \A i \in DOMAIN uploads : uploads[i].state \in {"open", "complete", "zombie"}
    <2>1. ASSUME NEW i \in DOMAIN uploads
          PROVE  uploads[i].state \in {"open", "complete", "zombie"}
      <3>1. uploads[i] \in UploadRows
        BY <1>1 DEF BucketInv
      <3> QED
        BY <3>1 DEF UploadRows
    <2> QED
      BY <2>1
  <1> QED
    BY <1>4, <1>5 DEF Bucket!TypeOK, BucketInv

-----------------------------------------------------------------------------
(***************************************************************************)
(* The labs, one at a time.                                                *)
(***************************************************************************)

\* A key of the LSM tree reads as its latest put after any flushes, compactions and
\* false positives, no entry reaches the disk more than twice, and a snapshot reads one
\* version until it ends, whatever commits and is vacuumed meanwhile (02/17).
THEOREM ReadsStayRight == MCSpec => []ReadsAreRight
  <1>1. MCInit => LsmInv /\ HeapInv
    BY LsmInvInit, HeapInvInit DEF MCInit
  <1>2. LsmInv /\ [MCNext]_mcVars => LsmInv'
    BY LsmInvStep DEF MCNext, mcVars
  <1>3. HeapInv /\ [MCNext]_mcVars => HeapInv'
    BY HeapInvStep DEF MCNext, mcVars
  <1>4. LsmInv /\ HeapInv => ReadsAreRight
    BY LsmInvReads, HeapInvStable DEF ReadsAreRight
  <1> QED
    BY <1>1, <1>2, <1>3, <1>4, PTL DEF MCSpec

\* What a replica answers is fresh when every replica has acknowledged, never goes back,
\* and brings the post with the reply (01/03); a session reads its own write, and a commit
\* reported as done is on the replica, across its stops, starts and time-outs (01/02).
THEOREM ReplicasStayHonest == MCSpec => []ReplicasAreHonest
  <1>1. MCInit => ReplicaInv /\ CapInv
    BY ReplicaInvInit, CapInvInit DEF MCInit
  <1>2. ReplicaInv /\ [MCNext]_mcVars => ReplicaInv'
    BY ReplicaInvStep DEF MCNext, mcVars
  <1>3. CapInv /\ [MCNext]_mcVars => CapInv'
    BY CapInvStep DEF MCNext, mcVars
  <1>4. ReplicaInv /\ CapInv => ReplicasAreHonest
    BY ReplicaInvHonest, CapInvSurvived DEF ReplicasAreHonest
  <1> QED
    BY <1>1, <1>2, <1>3, <1>4, PTL DEF MCSpec

\* A cached row is out of date only between an update and the delete of the key, or when
\* its reader had queried before that delete and stored after it; a local copy is never
\* older than its period (01/06).  Of the fetchers of a stampede, no two are inside while
\* the leases of both run under the lock of C11, which only its owner deletes; under the
\* mutexes of 01/06 and 02/08, which anyone's delete removes, no two are inside until a
\* holder has overrun its lease; after that nothing is claimed of them.
THEOREM CachesStayConverged == MCSpec => []CachesConverge
  <1>1. MCInit => AsideInv /\ HotInv /\ StampedeInv
    BY AsideInvInit, StampedeInvInit DEF MCInit
  <1>2. AsideInv /\ [MCNext]_mcVars => AsideInv'
    BY AsideInvStep DEF MCNext, mcVars
  <1>3. HotInv /\ [MCNext]_mcVars => HotInv'
    BY HotInvStep DEF MCNext, mcVars
  <1>4. StampedeInv /\ [MCNext]_mcVars => StampedeInv'
    BY StampedeInvStep DEF MCNext, mcVars
  <1>5. AsideInv /\ HotInv /\ StampedeInv => CachesConverge
    BY AsideInvStale, StampedeInvHeld DEF CachesConverge
  <1> QED
    BY <1>1, <1>2, <1>3, <1>4, <1>5, PTL DEF MCSpec

\* A version of a file can be read back in full, its chunks being stored before it is,
\* and a save replaces only what its editor has seen (C06); an object is the whole body
\* of some upload, its parts in the order of their numbers (01/12).
THEOREM FilesStayWhole == MCSpec => FilesAreWhole
  <1>1. MCInit => DriveInv /\ BucketInv
    BY DriveInvInit, BucketInvInit DEF MCInit
  <1>2. DriveInv /\ [MCNext]_mcVars => DriveInv'
    BY DriveInvStep DEF MCNext, mcVars
  <1>3. BucketInv /\ [MCNext]_mcVars => BucketInv'
    BY BucketInvStep DEF MCNext, mcVars
  <1>4. DriveInv => (lab = "drive" => Drive!FilesAreWhole)
    BY DriveInvWhole
  <1>5. BucketInv => (lab = "bucket" => Bucket!ObjectsAreWhole)
    BY BucketInvWhole
  <1>6. DriveInv /\ [MCNext]_mcVars => [lab = "drive" => Drive!OverwritesSeen]_driveVars
    BY SavesAreSeen DEF MCNext, mcVars
  <1> QED
    BY <1>1, <1>2, <1>3, <1>4, <1>5, <1>6, PTL DEF MCSpec, FilesAreWhole
=============================================================================
