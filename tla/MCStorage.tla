-------------------------- MODULE MCStorage --------------------------
(* The storage and caching labs for TLC, one at a time: they share nothing, so *)
(* `lab' picks the one that runs and the others stand still.  The definitions   *)
(* that follow are the small values of a lab's constants and its bounds.  The   *)
(* labs that StorageProofs is about take theirs from the configuration.         *)
EXTENDS Integers, Sequences, FiniteSets

CONSTANTS
    LsmKeys, LsmValues, MemtableSize, L0Threshold, MaxWrites,   \* StorageEngine: the LSM tree
    Readers, MaxXid,                                            \* and the snapshots (02/17)
    Hashes, Contents, Uploaders, FileNames, MaxFileVersions,    \* GoogleDrive (C06)
    MaxReferences,
    ObjectKeys, Bodies, MaxUploads, UrlExpiry, MaxTime,         \* ObjectStore (01/12)
    Replicas, Trials, MaxChecks,                                \* ReplicaReads (01/03, 01/02)
    CacheReaders, HotThreads, BaseTtl, Jitter, NullTtl,         \* Caching: the cached row
    LocalTtl, MaxVersions, MaxCacheTime,
    Fetchers, KeyTtl, LockTtl, MaxPolls, MaxTicks               \* and the stampede

\* The files are one chunk or that chunk and another; the objects one part or three.
MCContents == {<<"x">>, <<"x", "y">>}
MCBodies == {<<"s">>, <<"p", "q", "r">>}

\* SearchIndex (02/09, C08)
Texts == <<<<"w", "h">>, <<"h", "w", "w">>, <<"w">>, <<"h", "w", "h">>>>
Rating == <<2, 2, 1, 2>>
QueryTerm == "w"
PageSize == 1
RankConstant == 60

\* Sketches (02/16)
Items == {"x", "y", "z"}
Hash == <<[x |-> 0, y |-> 1, z |-> 0], [x |-> 1, y |-> 1, z |-> 2]>>
Width == 3
Leading == [x |-> 0, y |-> 2, z |-> 1]
Compression == 16
Samples == {0, 1, 3}
MaxStream == 4
MaxSamples == 5

\* HashRing (02/01, 01/05)
Nodes == 1..3
Vnodes == <<{1, 6}, {3, 8}, {5}>>
Keys == 0..9
NumShards == 2
UserHash == <<5, 4, 7>>
Boundaries == <<<<1, 1, 0>>, <<2, 2, 1>>>>

\* ClusterCache (02/08, C11)
ClusterKeys == {"a", "b", "{t}.x", "{t}.y"}
HashTag == [k \in ClusterKeys |-> IF k \in {"a", "b"} THEN "" ELSE "t"]
Crc16 == [n \in ClusterKeys \cup {"t"} |-> CASE n = "a" -> 4 [] n = "b" -> 1 [] n = "{t}.x" -> 2 [] n = "{t}.y" -> 3 [] OTHER -> 7]
NumSlots == 4
SlotOwner == [s \in 0..3 |-> IF s < 2 THEN "7001" ELSE "7002"]
CounterShards == 2
Subscribers == {"sub1", "sub2"}
NumMessages == 3
NumHot == 2
NumCold == 1
MaxResident == 3
SampleSize == 3
MaxIncrements == 3

VARIABLES
    lab, memtable, sstables, logicalWrites, physicalWrites, latest, versions,
    xid, snapshot, firstRead, rereads, chunkRows, objects, fileHash,
    fileVersions, received, client, bucket, uploads, urls, clock, positions,
    buffered, searchable, pages, reading, firstView, bits, table, registers,
    minHashes, streams, centroids, sketching, sampled, ring, sortedKeys, live,
    router, shardRows, signedUp, gathering, gathered, demo, stored, raised,
    counters, summing, subscriber, published, inbox, resident, filled, stream,
    applied, acked, phase, pos, acks, gets, wal, replicaUp, receivedLsn,
    replayed, syncNames, syncWrite, main, session, checks, report, row, entry,
    deletes, writer, reader, local, hot, fetched, cacheClock, strategy,
    cached, lockRow, at, since, polls, stores, expiries, overrun, ticks

Engine == INSTANCE StorageEngine
Drive == INSTANCE GoogleDrive WITH MaxVersions <- MaxFileVersions
Bucket == INSTANCE ObjectStore
Search == INSTANCE SearchIndex
Sketch == INSTANCE Sketches WITH phase <- sketching
Ring == INSTANCE HashRing
Cluster == INSTANCE ClusterCache WITH reading <- summing
Replica == INSTANCE ReplicaReads WITH received <- receivedLsn
Caches == INSTANCE Caching

\* What the proofs assume of the constants: finitely many keys, sizes and periods that
\* are natural and not zero where the code has no other, and a name that stands for nobody.
LsmAssumed == IsFiniteSet(LsmKeys) /\ MemtableSize \in Nat \ {0} /\ L0Threshold \in Nat \ {0}
AsideAssumed == NullTtl \in Nat \ {0} /\ BaseTtl \in Nat \ {0} /\ Jitter \in Nat /\ LocalTtl \in Nat
StampedeAssumed ==
    /\ Caches!Free.owner \notin Fetchers
    /\ KeyTtl \in Nat \ {0} /\ LockTtl \in Nat \ {0} /\ MaxTicks \in Nat

ReplicasAssumed == Replicas = {"r1", "r2"} /\ Trials \in Nat \ {0}
\* A file is a sequence of hashes, and an object one of parts.
DriveAssumed == Contents \subseteq Seq(Hashes)
BodyParts == UNION {{b[n] : n \in DOMAIN b} : b \in Bodies}
BucketAssumed == Bodies \subseteq Seq(BodyParts) /\ UrlExpiry \in Nat /\ MaxUploads \in Nat

ASSUME MCAssumption ==
    /\ LsmAssumed /\ AsideAssumed /\ StampedeAssumed /\ ReplicasAssumed
    /\ DriveAssumed /\ BucketAssumed

treeVars == <<memtable, sstables, logicalWrites, physicalWrites, latest>>
heapVars == <<versions, xid, snapshot, firstRead, rereads>>
driveVars == <<chunkRows, objects, fileHash, fileVersions, received, client>>
bucketVars == <<bucket, uploads, urls, clock>>
searchVars == <<positions, buffered, searchable, pages, reading, firstView>>
sketchVars == <<bits, table, registers, minHashes, streams, centroids, sketching, sampled>>
ringVars == <<ring, sortedKeys, live, router, shardRows, signedUp, gathering, gathered>>
clusterVars == <<demo, stored, raised, counters, summing, subscriber, published, inbox,
    resident, filled>>
replicaVars == <<stream, applied, acked, phase, pos, acks, gets>>
capVars == <<wal, replicaUp, receivedLsn, replayed, syncNames, syncWrite, main,
    session, checks, report>>
asideVars == <<row, entry, deletes, writer, reader, local, hot, fetched, cacheClock>>
stampedeVars == <<strategy, cached, lockRow, at, since, polls, stores, expiries, overrun,
    ticks>>

Labs == {
    "lsm_tree", "mvcc", "drive", "bucket", "search", "sketches", "ring",
    "cluster", "replicas", "partition", "cache_aside", "stampede"}

\* The labs that do not run start in one of their states.
MCInit ==
    /\ lab \in Labs
    /\ Engine!TreeInit
    /\ Engine!HeapInit
    /\ Drive!Init
    /\ Bucket!Init
    /\ Search!Init
    /\ Sketch!Init /\ (lab # "sketches" => sketching = "bloom")
    /\ Ring!Init /\ (lab # "ring" => router = "hash" /\ live = {0})
    /\ Cluster!Init /\ (lab # "cluster" => demo = "routing")
    /\ Replica!Init /\ (lab # "replicas" => phase = "linear")
    /\ Replica!CapInit /\ (lab # "partition" => replicaUp)
    /\ Caches!CacheAsideInit /\ (lab # "cache_aside" => row = 0)
    /\ Caches!StampedeInit /\ (lab # "stampede" => strategy = "none")

MCNext ==
    /\ UNCHANGED lab
    /\ IF lab = "lsm_tree" THEN Engine!TreeNext ELSE UNCHANGED treeVars
    /\ IF lab = "mvcc" THEN Engine!HeapNext ELSE UNCHANGED heapVars
    /\ IF lab = "drive" THEN Drive!Next ELSE UNCHANGED driveVars
    /\ IF lab = "bucket" THEN Bucket!Next ELSE UNCHANGED bucketVars
    /\ IF lab = "search" THEN Search!Next ELSE UNCHANGED searchVars
    /\ IF lab = "sketches" THEN Sketch!Next ELSE UNCHANGED sketchVars
    /\ IF lab = "ring" THEN Ring!Next ELSE UNCHANGED ringVars
    /\ IF lab = "cluster" THEN Cluster!Next ELSE UNCHANGED clusterVars
    /\ IF lab = "replicas" THEN Replica!Next ELSE UNCHANGED replicaVars
    /\ IF lab = "partition" THEN Replica!CapNext ELSE UNCHANGED capVars
    /\ IF lab = "cache_aside" THEN Caches!CacheAsideNext ELSE UNCHANGED asideVars
    /\ IF lab = "stampede" THEN Caches!StampedeNext ELSE UNCHANGED stampedeVars

mcVars == <<lab, treeVars, heapVars, driveVars, bucketVars, searchVars, sketchVars,
    ringVars, clusterVars, replicaVars, capVars, asideVars, stampedeVars>>

MCSpec == MCInit /\ [][MCNext]_mcVars

\* Every variable of the lab that runs has its type.
TypeOK ==
    /\ lab = "lsm_tree" => Engine!TreeTypeOK
    /\ lab = "mvcc" => Engine!HeapTypeOK
    /\ lab = "drive" => Drive!TypeOK
    /\ lab = "bucket" => Bucket!TypeOK
    /\ lab = "search" => Search!TypeOK
    /\ lab = "sketches" => Sketch!TypeOK
    /\ lab = "ring" => Ring!TypeOK
    /\ lab = "cluster" => Cluster!TypeOK
    /\ lab = "replicas" => Replica!TypeOK
    /\ lab = "partition" => Replica!CapTypeOK
    /\ lab = "cache_aside" => Caches!CacheAsideTypeOK
    /\ lab = "stampede" => Caches!StampedeTypeOK

\* A read of the tree finds the latest put of its key, wherever flushes and
\* compactions have moved it; a snapshot reads the same row until it ends, whatever
\* commits and is vacuumed meanwhile (02/17, phases 3 and 4).
ReadsAreRight ==
    /\ lab = "lsm_tree" => Engine!ReadsLatestPut
    /\ lab = "mvcc" => Engine!SnapshotIsStable

\* A version of a file can be read back in full, whatever uploads share its chunks
\* (C06), and an object is the whole body of some upload, its parts in order
\* (01/12).  A save that replaces a version was made on top of it, or its client is
\* told of the conflict (C06).
FilesAreWhole ==
    /\ [](lab = "drive" => Drive!FilesAreWhole)
    /\ [](lab = "bucket" => Bucket!ObjectsAreWhole)
    /\ [][lab = "drive" => Drive!OverwritesSeen]_driveVars

\* A search answers with the documents that hold its terms, its pages neither skip
\* nor repeat one, fusion ranks what both lists agree on first (02/09, C08); the
\* sketches err only on the side they promise (02/16).
LookupsAreExact ==
    /\ lab = "search" => Search!SearchIsExact /\ Search!FusionIsFair
    /\ lab = "sketches" => Sketch!SketchesAreSound

\* A key is found on the node that has it after every join, leave and split, only
\* the neighbours' keys move (02/01, 01/05), and the cluster's clients reach every
\* slot, sum every shard and miss no message they had joined for (02/08, C11).
RoutingIsExact ==
    /\ [](lab = "ring" => Ring!RoutingIsExact)
    /\ [](lab = "cluster" => Cluster!ClusterIsConsistent)
    /\ [][lab = "ring" => Ring!NeighboursMove]_ringVars

\* A replica answers with a state the master was in, an acknowledged write is on
\* as many replicas as said so (01/03); a partition costs the replica its freshness
\* and the writer its time, never what both have committed (01/02).
ReplicasAreHonest ==
    /\ lab = "replicas" => Replica!ReplicasAreHonest
    /\ lab = "partition" => Replica!PartitionIsSurvived

\* A cached row is out of date only between an update and its delete, or through a
\* reader that queried before the delete and stored after it (01/06).  In a stampede,
\* two fetchers are inside only when the lease of one has run out: with the lock of
\* C11, which only its owner deletes, never two whose leases run; with the mutexes of
\* 01/06 (293) and 02/08 (474), which delete whoever's lock is there, no two until a
\* holder overruns its lease, and no promise after that.
CachesConverge ==
    /\ lab = "cache_aside" => Caches!StaleOnlyByRace
    /\ lab = "stampede" => Caches!StampedeIsHeld
=============================================================================
