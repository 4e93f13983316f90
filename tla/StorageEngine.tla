----------------------------- MODULE StorageEngine -----------------------------
(* The database internals lab (02/17). Two programs that share nothing: the   *)
(* LSM tree and the snapshots of row versions.                                *)
EXTENDS Integers, Sequences, FiniteSets, Functions

CONSTANTS
  LsmKeys, LsmValues,
  MemtableSize,    \* MEMTABLE_SIZE
  L0Threshold,     \* L0_COMPACTION_THRESHOLD
  MaxWrites,       \* bound: calls of put and delete
  Readers,     \* the connections: the reader, the idle one, the writer
  MaxXid       \* bound: transactions that update the row

VARIABLES
  memtable,        \* key -> value or Tombstone, on the keys written since the flush
  sstables,        \* the tables, newest first: [level, data, bloom]
  logicalWrites,   \* write_amp_logical, in entries
  physicalWrites,  \* write_amp_physical, in entries
  latest,          \* what the application wrote last to each key it has written
  versions,    \* the heap: [xmin, xmax, balance], xmax = 0 while live
  xid,         \* transactions committed so far
  snapshot,    \* connection -> the xid its open transaction reads at, -1 when none
  firstRead,   \* connection -> the balance its transaction read first, -1 before
  rereads      \* the reads that differed from the first of their transaction

-------------------------------------------------------------------------------
(* The simulated LSM tree of the database internals lab (02/17, phase 4): a    *)
(* memtable, flushes to level-0 tables, the compaction of level 0 into level 1 *)
(* and reads through the Bloom filters.  A table's filter is the set of keys it *)
(* answers "possibly present" for: the keys of the table and any others.       *)
Tombstone == 0     \* None, as a value of a memtable or of a table

treeVars == <<memtable, sstables, logicalWrites, physicalWrites, latest>>

NewTree ==
  /\ memtable = <<>>
  /\ sstables = <<>>
  /\ logicalWrites = 0 /\ physicalWrites = 0

TreeInit ==
  /\ NewTree
  /\ latest = <<>>

Overwrite(f, g) ==
  [k \in DOMAIN f \cup DOMAIN g |-> IF k \in DOMAIN g THEN g[k] ELSE f[k]]

\* SSTable.__init__, with the keys its filter will be wrong about.
SSTable(level, entries, falsePositives) ==
  [level |-> level, data |-> entries, bloom |-> DOMAIN entries \cup falsePositives]

\* The tables of a level, in their order.
Level(tables, l) ==
  LET at == {i \in DOMAIN tables : tables[i].level = l}
  IN [n \in 1..Cardinality(at) |->
        tables[CHOOSE i \in at : Cardinality({j \in at : j <= i}) = n]]

First(S) == CHOOSE i \in S : \A j \in S : i <= j
Holding(tables, k) == {i \in DOMAIN tables : k \in DOMAIN tables[i].data}
KeysOf(tables) == UNION {DOMAIN tables[i].data : i \in DOMAIN tables}

\* Mutation: the tables are merged newest to oldest.
MergeNewestFirst(l0) ==
  LET Last(S) == CHOOSE i \in S : \A j \in S : j <= i
  IN [k \in KeysOf(l0) |-> l0[Last(Holding(l0, k))].data[k]]

\* Oldest to newest, a newer value overwrites an older one: that of the first table stays.
Merge(l0) == [k \in KeysOf(l0) |-> l0[First(Holding(l0, k))].data[k]]

Live(entries) == Restrict(entries, {k \in DOMAIN entries : entries[k] # Tombstone})

\* _compact_level0 drops every tombstone, whatever level 1 holds.
CompactLevel0(tables, falsePositives) ==
  <<SSTable(1, Live(Merge(Level(tables, 0))), falsePositives)>> \o Level(tables, 1)

\* _flush, and the compaction it triggers.
Flush(table, falsePositives) ==
  LET flushed == <<SSTable(0, table, falsePositives)>> \o sstables
      full == Len(Level(flushed, 0)) >= L0Threshold
      compacted == CompactLevel0(flushed, falsePositives)
  IN /\ memtable' = <<>>
     /\ sstables' = IF full THEN compacted ELSE flushed
     /\ physicalWrites' = physicalWrites + Cardinality(DOMAIN table)
                          + IF full THEN Cardinality(DOMAIN compacted[1].data) ELSE 0

\* put, and delete as the put of a tombstone: flush when the memtable is full.
Write(k, v) ==
  /\ logicalWrites < MaxWrites
  /\ logicalWrites' = logicalWrites + 1
  /\ latest' = Overwrite(latest, [x \in {k} |-> v])
  /\ LET table == Overwrite(memtable, [x \in {k} |-> v])
     IN IF Cardinality(DOMAIN table) >= MemtableSize
        THEN \E wrong \in SUBSET LsmKeys : Flush(table, wrong)
        ELSE memtable' = table /\ UNCHANGED <<sstables, physicalWrites>>

Put(k, v) == v \in LsmValues /\ Write(k, v)
Delete(k) == Write(k, Tombstone)

\* Phase 4 flushes what is left in the memtable.
FlushRest ==
  /\ memtable # <<>>
  /\ \E wrong \in SUBSET LsmKeys : Flush(memtable, wrong)
  /\ UNCHANGED <<logicalWrites, latest>>

LsmDone == logicalWrites = MaxWrites /\ memtable = <<>> /\ UNCHANGED treeVars

TreeNext ==
  \/ \E k \in LsmKeys : Delete(k) \/ \E v \in LsmValues : Put(k, v)
  \/ FlushRest
  \/ LsmDone

TreeSpec == TreeInit /\ [][TreeNext]_treeVars

-------------------------------------------------------------------------------
\* SSTable.get: skipped by the filter, found, or a false positive.
Found(s, k) == k \in s.bloom /\ k \in DOMAIN s.data

\* Mutation: the read stops at the first table whose filter says maybe, as the
\* code did before its bug fix.
ReadStopsAtBloom(k) ==
  LET hits == {i \in DOMAIN sstables : k \in sstables[i].bloom}
      first == sstables[First(hits)]
  IN IF k \in DOMAIN memtable THEN memtable[k]
     ELSE IF hits = {} THEN Tombstone
     ELSE IF Found(first, k) THEN first.data[k] ELSE Tombstone

\* LSMTree.get: None for a tombstone and for a key that is nowhere.
Read(k) ==
  LET hits == {i \in DOMAIN sstables : Found(sstables[i], k)}
  IN IF k \in DOMAIN memtable THEN memtable[k]
     ELSE IF hits = {} THEN Tombstone
     ELSE sstables[First(hits)].data[k]

TreeTypeOK ==
  /\ DOMAIN memtable \subseteq LsmKeys /\ Cardinality(DOMAIN memtable) < MemtableSize
  /\ \A i \in DOMAIN sstables : sstables[i].level \in {0, 1}
  /\ logicalWrites \in 0..MaxWrites /\ physicalWrites \in Nat

\* A key whose last write is a put reads as that value whatever was flushed,
\* compacted and answered wrongly by a filter; level 0 never reaches the
\* threshold and is newer than level 1; a key that was never written is not found;
\* no entry reaches the disk more than twice (flushed once, compacted once).
ReadsLatestPut ==
  /\ \A k \in DOMAIN latest : latest[k] # Tombstone => Read(k) = latest[k]
  /\ \A k \in LsmKeys \ DOMAIN latest : Read(k) = Tombstone
  /\ Len(Level(sstables, 0)) < L0Threshold
  /\ \A i, j \in DOMAIN sstables : i < j => sstables[i].level <= sstables[j].level
  /\ physicalWrites <= 2 * logicalWrites

\* A deleted key reads as deleted.
DeletedStaysDeleted ==
  \A k \in DOMAIN latest : latest[k] = Tombstone => Read(k) = Tombstone

-------------------------------------------------------------------------------
(* The MVCC demonstration of the database internals lab (02/17, phase 3): one   *)
(* row whose updates write new versions, repeatable-read transactions that read *)
(* from a snapshot, an idle transaction that only holds one, and VACUUM.        *)
heapVars == <<versions, xid, snapshot, firstRead, rereads>>

HeapInit ==
  /\ versions = {[xmin |-> 0, xmax |-> 0, balance |-> 0]}
  /\ xid = 0
  /\ snapshot = [c \in Readers |-> -1]
  /\ firstRead = [c \in Readers |-> -1]
  /\ rereads = {}

\* Mutation: a reader sees the latest version, whoever committed it.
VisibleLatest(v, s) == v.xmax = 0

\* Written by a transaction of the snapshot, and not ended by one of them.
Visible(v, s) == v.xmin <= s /\ (v.xmax = 0 \/ v.xmax > s)

Balance(s) == (CHOOSE v \in versions : Visible(v, s)).balance

\* BEGIN and the first statement, which takes the snapshot; SELECT 1 (the idle
\* connection) reads no row.
Begin(c, readsRow) ==
  /\ snapshot[c] = -1
  /\ snapshot' = [snapshot EXCEPT ![c] = xid]
  /\ firstRead' = [firstRead EXCEPT ![c] = IF readsRow THEN Balance(xid) ELSE -1]
  /\ UNCHANGED <<versions, xid, rereads>>

\* SELECT balance inside the transaction.
Select(c) ==
  /\ snapshot[c] # -1
  /\ LET seen == Balance(snapshot[c])
     IN /\ rereads' = IF firstRead[c] \notin {-1, seen} THEN rereads \cup {c} ELSE rereads
        /\ firstRead' = [firstRead EXCEPT ![c] = IF @ = -1 THEN seen ELSE @]
  /\ UNCHANGED <<versions, xid, snapshot>>

\* commit or rollback.
End(c) ==
  /\ snapshot[c] # -1
  /\ snapshot' = [snapshot EXCEPT ![c] = -1]
  /\ firstRead' = [firstRead EXCEPT ![c] = -1]
  /\ UNCHANGED <<versions, xid, rereads>>

\* An autocommit UPDATE: the live version is marked dead, a new one is written.
Update ==
  /\ xid < MaxXid
  /\ xid' = xid + 1
  /\ versions' = {IF v.xmax = 0 THEN [v EXCEPT !.xmax = xid + 1] ELSE v : v \in versions}
                 \cup {[xmin |-> xid + 1, xmax |-> 0, balance |-> xid + 1]}
  /\ UNCHANGED <<snapshot, firstRead, rereads>>

Horizon ==
  LET open == {snapshot[c] : c \in {d \in Readers : snapshot[d] # -1}}
  IN IF open = {} THEN xid ELSE CHOOSE s \in open : \A t \in open : s <= t

Dead(v) == v.xmax # 0

\* Mutation: VACUUM reclaims every dead version.
VacuumAll ==
  /\ versions' = {v \in versions : ~Dead(v)}
  /\ UNCHANGED <<xid, snapshot, firstRead, rereads>>

\* VACUUM reclaims the dead versions no open snapshot may still see.
Vacuum ==
  /\ versions' = {v \in versions : ~(Dead(v) /\ v.xmax <= Horizon)}
  /\ UNCHANGED <<xid, snapshot, firstRead, rereads>>

HeapNext ==
  \/ \E c \in Readers : (\E r \in BOOLEAN : Begin(c, r)) \/ Select(c) \/ End(c)
  \/ Update
  \/ Vacuum

HeapSpec == HeapInit /\ [][HeapNext]_heapVars

-------------------------------------------------------------------------------
HeapTypeOK ==
  /\ xid \in 0..MaxXid
  /\ \A c \in Readers : snapshot[c] \in -1..xid /\ firstRead[c] \in -1..xid

\* Every open transaction sees exactly one version, and the same balance however
\* often it looks; there is one live version; the first read of a transaction is
\* what was committed when it began.
SnapshotIsStable ==
  /\ \A c \in Readers : snapshot[c] # -1 =>
       Cardinality({v \in versions : Visible(v, snapshot[c])}) = 1
  /\ rereads = {}
  /\ Cardinality({v \in versions : ~Dead(v)}) = 1
  /\ \A c \in Readers : firstRead[c] # -1 => firstRead[c] = snapshot[c]
===============================================================================
