--------------------------- MODULE ClusterCache ----------------------------
(* The Redis Cluster labs (02/08 and C11): the slot of a key with and without    *)
(* its hash tag, the cluster client and the connection to one node, the counter *)
(* split over shards, Pub/Sub behind a barrier, and sampled LRU eviction.  Each  *)
(* demonstration runs alone.                                                     *)
EXTENDS Integers, Sequences, FiniteSets, FiniteSetsExt, SequencesExt, Functions

CONSTANTS
  ClusterKeys,    \* the keys there are
  HashTag,        \* key -> the part between its braces, "" when it has none
  Crc16,          \* name -> crc, of keys and of tags
  NumSlots,       \* 16384
  SlotOwner,      \* slot -> the master that serves it
  CounterShards,  \* NUM_SHARDS; the sub-counters are 0 .. CounterShards - 1
  Subscribers,    \* sub1, sub2, sub3
  NumMessages,    \* NUM_MESSAGES
  NumHot, NumCold,\* hot and cold keys of the eviction phase
  MaxResident,    \* maxmemory, in keys
  SampleSize,     \* maxmemory-samples
  MaxIncrements   \* bound: INCRs, and the filler keys

VARIABLES
  demo,           \* the demonstration: "routing", "counter", "pubsub" or "lru"
  stored,         \* node -> the keys it holds
  raised,         \* whether the last pipeline ended in an exception
  counters,       \* sub-counter -> value
  reading,        \* the reader of the total: [next, total, from], next = -1 when it does not read
  subscriber,     \* subscriber -> "joining", "ready" or "gone"
  published,      \* messages published so far
  inbox,          \* subscriber -> messages it has received
  resident,       \* the keys in memory, least recently used first
  filled          \* commands of the eviction phase so far

routeVars == <<stored, raised>>
counterVars == <<counters, reading>>
pubsubVars == <<subscriber, published, inbox>>
lruVars == <<resident, filled>>
vars == <<demo, routeVars, counterVars, pubsubVars, lruVars>>

Masters == {SlotOwner[s] : s \in DOMAIN SlotOwner}
NotReading == [next |-> -1, total |-> 0, from |-> 0]
SumOf(f) == FoldFunction(LAMBDA a, sum : a + sum, 0, f)

Init ==
  /\ demo \in {"routing", "counter", "pubsub", "lru"}
  /\ stored = [n \in Masters |-> {}] /\ raised = FALSE
  /\ counters = [i \in 0..(CounterShards - 1) |-> 0] /\ reading = NotReading
  /\ subscriber = [s \in Subscribers |-> "joining"]
  /\ published = 0 /\ inbox = [s \in Subscribers |-> <<>>]
  /\ resident = <<>> /\ filled = 0

-------------------------------------------------------------------------------
\* hash_slot of 02/08: the crc of the whole key, braces and all.
HashSlot(k) == Crc16[k] % NumSlots

\* key_slot of C11: the crc of the tag when there is one.
KeySlot(k) == Crc16[IF HashTag[k] # "" THEN HashTag[k] ELSE k] % NumSlots

OwnerOf(k) == SlotOwner[KeySlot(k)]

\* RedisCluster.set goes to the owner of the slot (MOVED corrects a stale map).
ClusterSet(k) ==
  /\ demo = "routing"
  /\ stored' = [stored EXCEPT ![OwnerOf(k)] = @ \cup {k}]
  /\ raised' = FALSE
  /\ UNCHANGED <<demo, counterVars, pubsubVars, lruVars>>

\* Mutation: the node stores whatever it is sent.
PipelineAnywhere(node, keys) ==
  /\ demo = "routing"
  /\ stored' = [stored EXCEPT ![node] = @ \cup keys]
  /\ raised' = FALSE
  /\ UNCHANGED <<demo, counterVars, pubsubVars, lruVars>>

\* A pipeline to one node: the node runs the commands of its own slots and
\* answers MOVED to the others, which execute raises in the end.
Pipeline(node, keys) ==
  /\ demo = "routing"
  /\ stored' = [stored EXCEPT ![node] = @ \cup {k \in keys : OwnerOf(k) = node}]
  /\ raised' = (\E k \in keys : OwnerOf(k) # node)
  /\ UNCHANGED <<demo, counterVars, pubsubVars, lruVars>>

-------------------------------------------------------------------------------
\* incr_sharded: one sub-counter, any of them.
IncrSharded(i) ==
  /\ demo = "counter" /\ SumOf(counters) < MaxIncrements
  /\ counters' = [counters EXCEPT ![i] = @ + 1]
  /\ UNCHANGED <<demo, routeVars, reading, pubsubVars, lruVars>>

\* get_sharded_total: one GET after the other.
BeginTotal ==
  /\ demo = "counter" /\ reading = NotReading
  /\ reading' = [next |-> 0, total |-> 0, from |-> SumOf(counters)]
  /\ UNCHANGED <<demo, routeVars, counters, pubsubVars, lruVars>>

\* Mutation: the last sub-counter is not read.
ReadShardButLast ==
  /\ reading.next \in 0..(CounterShards - 2)
  /\ reading' = [reading EXCEPT !.next = IF @ = CounterShards - 2 THEN CounterShards ELSE @ + 1,
                                !.total = @ + counters[reading.next]]
  /\ UNCHANGED <<demo, routeVars, counters, pubsubVars, lruVars>>

ReadShard ==
  /\ reading.next \in 0..(CounterShards - 1)
  /\ reading' = [reading EXCEPT !.next = @ + 1, !.total = @ + counters[reading.next]]
  /\ UNCHANGED <<demo, routeVars, counters, pubsubVars, lruVars>>

EndTotal ==
  /\ reading.next = CounterShards
  /\ reading' = NotReading
  /\ UNCHANGED <<demo, routeVars, counters, pubsubVars, lruVars>>

-------------------------------------------------------------------------------
\* subscriber: the confirmation is read before the barrier.
Subscribe(s) ==
  /\ demo = "pubsub" /\ subscriber[s] = "joining"
  /\ subscriber' = [subscriber EXCEPT ![s] = "ready"]
  /\ UNCHANGED <<demo, routeVars, counterVars, published, inbox, lruVars>>

\* sub_ready.wait() of the publisher.
BarrierPassed == \A s \in Subscribers : subscriber[s] # "joining"

\* PUBLISH reaches those that are subscribed now; a subscriber leaves after
\* NUM_MESSAGES.
Publish ==
  /\ demo = "pubsub" /\ BarrierPassed /\ published < NumMessages
  /\ published' = published + 1
  /\ inbox' = [s \in Subscribers |->
                 IF subscriber[s] = "ready" THEN Append(inbox[s], published) ELSE inbox[s]]
  /\ subscriber' = [s \in Subscribers |->
                      IF subscriber[s] = "ready" /\ Len(inbox'[s]) >= NumMessages THEN "gone" ELSE subscriber[s]]
  /\ UNCHANGED <<demo, routeVars, counterVars, lruVars>>

-------------------------------------------------------------------------------
(* Keys of the eviction phase: <<"hot", i>>, <<"cold", i>> and <<"filler", i>>.  *)
Used(k) == Append(SelectSeq(resident, LAMBDA r : r # k), k)

\* What LRU may evict from s: the oldest of a sample of the keys.
Victims(s) ==
  LET samples == kSubset(IF SampleSize < Len(s) THEN SampleSize ELSE Len(s), DOMAIN s)
  IN {s[Min(sample)] : sample \in samples}

\* SET: room is made before the key is written.
WriteKey(k) ==
  /\ filled' = filled + 1
  /\ IF Len(resident) < MaxResident
     THEN resident' = Append(resident, k)
     ELSE \E v \in Victims(resident) :
            resident' = Append(SelectSeq(resident, LAMBDA r : r # v), k)
  /\ UNCHANGED <<demo, routeVars, counterVars, pubsubVars>>

LastCold == 2 * NumHot + NumCold

\* The hot keys are written and read, then the cold ones written, then the filler.
WriteHot == demo = "lru" /\ filled < NumHot /\ WriteKey(<<"hot", filled>>)
ReadHot ==
  /\ demo = "lru" /\ filled \in NumHot..(2 * NumHot - 1)
  /\ filled' = filled + 1
  /\ LET k == <<"hot", filled - NumHot>>
     IN resident' = IF k \in ToSet(resident) THEN Used(k) ELSE resident
  /\ UNCHANGED <<demo, routeVars, counterVars, pubsubVars>>
WriteCold == demo = "lru" /\ filled \in 2 * NumHot..(LastCold - 1) /\ WriteKey(<<"cold", filled>>)
WriteFiller ==
  /\ demo = "lru" /\ filled \in LastCold..(LastCold + MaxIncrements - 1)
  /\ WriteKey(<<"filler", filled>>)

DemoOver ==
  /\ \/ demo = "pubsub" /\ published = NumMessages
     \/ demo = "lru" /\ filled = LastCold + MaxIncrements
  /\ UNCHANGED vars

\* The counter split over several keys, incremented and summed up.
ShardedCounter == BeginTotal \/ ReadShard \/ EndTotal \/ \E i \in DOMAIN counters : IncrSharded(i)

Next ==
  \/ \E k \in ClusterKeys : ClusterSet(k)
  \/ \E n \in Masters, ks \in SUBSET ClusterKeys : Pipeline(n, ks)
  \/ ShardedCounter
  \/ \E s \in Subscribers : Subscribe(s)
  \/ Publish
  \/ WriteHot \/ ReadHot \/ WriteCold \/ WriteFiller
  \/ DemoOver

Spec == Init /\ [][Next]_vars

-------------------------------------------------------------------------------
TypeOK ==
  /\ \A n \in Masters : stored[n] \subseteq ClusterKeys
  /\ reading.next \in -1..CounterShards /\ published \in 0..NumMessages
  /\ Len(resident) <= MaxResident

\* Whichever node a pipeline is sent to, a key is only ever on the master of its
\* slot, so that one lookup finds it; a total read while the counter grows lies
\* between the counts at its begin and now; behind the barrier every subscriber
\* gets every message in order.
ClusterIsConsistent ==
  /\ \A n \in Masters, k \in ClusterKeys : k \in stored[n] => OwnerOf(k) = n
  /\ reading.next = CounterShards => reading.total \in reading.from..SumOf(counters)
  /\ \A s \in Subscribers : inbox[s] = [i \in 1..published |-> i - 1]

\* The hot keys, which are read, outlive the cold ones, which are not.
HotOutliveCold ==
  LET Resident(kind) == {k \in ToSet(resident) : k[1] = kind}
  IN filled >= LastCold /\ Cardinality(Resident("hot")) < NumHot => Resident("cold") = {}

\* Populating the node through the pipeline raises nothing.
PipelineNeverRaises == ~raised

=============================================================================
