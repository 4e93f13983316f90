------------------------------ MODULE KafkaTopics ------------------------------
(* The Kafka lab (02/06). Two programs that share nothing: a consumer group   *)
(* that rebalances, and the payment processor with its dead-letter topic.     *)
EXTENDS Integers, Sequences, FiniteSets, Functions

CONSTANTS
  Keys,         \* message keys
  PartitionOf,  \* key -> hash(key) % num_partitions
  GroupMembers, \* consumers that may join the group
  MaxSent,      \* bound: messages sent
  MaxRebalances, \* bound: joins, leaves and crashes
  PayLogs,      \* the contents a partition may have: sequences of "good" / "poison"
  PayPartitions,
  MaxRetries    \* MAX_RETRIES

KafkaAssumptions == IsFiniteSet(Keys) /\ IsFiniteSet(GroupMembers) /\ MaxRetries \in Nat

VARIABLES
  parts,      \* partition -> its log, a sequence of [key, seq]
  joined,     \* members of the group
  assignment, \* partition -> the member it is assigned to, <<>> without members
  position,   \* partition -> offset of the next record its owner polls
  offsets,    \* partition -> committed offset
  polled,     \* partition -> the offsets delivered, in order (history)
  rebalances,
  payLog,       \* partition -> its messages
  payPosition,  \* partition -> offset the processor reads next
  payCommitted, \* partition -> committed offset
  retries,      \* partition -> failed attempts at the message at its position
  settled,      \* <<partition, offset>> of the messages processed
  parked,       \* <<partition, offset>> of the messages in payments.DLT
  processorUp   \* the processor runs

-------------------------------------------------------------------------------
(* The Kafka lab (02/06): keyed messages in the partitions of a topic and one   *)
(* consumer group with automatic commits, whose members join, leave and crash.  *)
(* The broker and its group coordinator are external and modelled by what the   *)
(* lab relies on; every rebalance is eager.                                     *)
Partitions == {PartitionOf[k] : k \in Keys}

groupVars == <<parts, joined, assignment, position, offsets, polled, rebalances>>

Sent == SumFunction([p \in Partitions |-> Len(parts[p])])

NewTopic == [p \in Partitions |-> <<>>]

GroupInit ==
  /\ parts = NewTopic
  /\ joined = {}
  /\ assignment = [p \in Partitions |-> <<>>]
  /\ position = [p \in Partitions |-> 0]
  /\ offsets = [p \in Partitions |-> 0]
  /\ polled = [p \in Partitions |-> <<>>]
  /\ rebalances = 0

\* Mutation: the partition is chosen round robin, as for a message without key.
SendRoundRobin(k) ==
  /\ Sent < MaxSent
  /\ \E p \in Partitions : parts' = [parts EXCEPT ![p] = Append(@, [key |-> k, seq |-> Sent + 1])]
  /\ UNCHANGED <<joined, assignment, position, offsets, polled, rebalances>>

\* producer.send with a key.
Send(k) ==
  /\ Sent < MaxSent
  /\ parts' = [parts EXCEPT ![PartitionOf[k]] = Append(@, [key |-> k, seq |-> Sent + 1])]
  /\ UNCHANGED <<joined, assignment, position, offsets, polled, rebalances>>

Owned(c) == {p \in Partitions : assignment[p] = <<c>>}

\* The coordinator gives every partition to one member, evenly; a member beyond
\* the number of partitions stays idle.
Balanced(a, ms) ==
  \A c, d \in ms : Cardinality({p \in Partitions : a[p] = <<c>>})
                     <= Cardinality({p \in Partitions : a[p] = <<d>>}) + 1

Rebalance(ms, committed) ==
  /\ joined' = ms
  /\ offsets' = committed
  /\ position' = committed
  /\ IF ms = {} THEN assignment' = [p \in Partitions |-> <<>>]
     ELSE \E a \in [Partitions -> {<<c>> : c \in ms}] : Balanced(a, ms) /\ assignment' = a
  /\ rebalances' = rebalances + 1
  /\ UNCHANGED <<parts, polled>>

\* The members that hear of a rebalance, or close, commit what they polled.
CommittedBy(ms) ==
  [p \in Partitions |-> IF \E c \in ms : assignment[p] = <<c>> THEN position[p] ELSE offsets[p]]

Join(c) ==
  /\ c \notin joined /\ rebalances < MaxRebalances
  /\ Rebalance(joined \cup {c}, CommittedBy(joined))

\* consumer.close() after the loop, or after a stop event: a commit and a leave.
Leave(c) ==
  /\ c \in joined /\ rebalances < MaxRebalances
  /\ Rebalance(joined \ {c}, CommittedBy(joined))

\* The heartbeats stop: what the member polled since its last commit is lost.
MemberCrash(c) ==
  /\ c \in joined /\ rebalances < MaxRebalances
  /\ Rebalance(joined \ {c}, CommittedBy(joined \ {c}))

\* Mutation: polling resumes after the newest record.
PollLatest(p) ==
  /\ assignment[p] # <<>> /\ position[p] < Len(parts[p])
  /\ position' = [position EXCEPT ![p] = Len(parts[p])]
  /\ polled' = [polled EXCEPT ![p] = Append(@, Len(parts[p]))]
  /\ UNCHANGED <<parts, joined, assignment, offsets, rebalances>>

\* for msg in consumer: the next record of an assigned partition.
Poll(p) ==
  /\ assignment[p] # <<>> /\ position[p] < Len(parts[p])
  /\ position' = [position EXCEPT ![p] = @ + 1]
  /\ polled' = [polled EXCEPT ![p] = Append(@, position[p] + 1)]
  /\ UNCHANGED <<parts, joined, assignment, offsets, rebalances>>

\* enable_auto_commit, and the commit of the partial consumer of phase 6.
Commit(c) ==
  /\ c \in joined /\ CommittedBy({c}) # offsets
  /\ offsets' = CommittedBy({c})
  /\ UNCHANGED <<parts, joined, assignment, position, polled, rebalances>>

\* get_consumer_lag, per partition.
Lag(p) == IF Len(parts[p]) > offsets[p] THEN Len(parts[p]) - offsets[p] ELSE 0

\* Nothing is left to send, to poll or to commit.
Idle ==
  /\ Sent = MaxSent /\ rebalances = MaxRebalances
  /\ \A p \in Partitions : assignment[p] # <<>> => Lag(p) = 0
  /\ UNCHANGED groupVars

GroupNext ==
  \/ \E k \in Keys : Send(k)
  \/ \E c \in GroupMembers : Join(c) \/ Leave(c) \/ MemberCrash(c) \/ Commit(c)
  \/ \E p \in Partitions : Poll(p)
  \/ Idle

GroupSpec == GroupInit /\ [][GroupNext]_groupVars

-------------------------------------------------------------------------------
GroupTypeOK ==
  \A p \in Partitions : offsets[p] <= position[p] /\ position[p] <= Len(parts[p])

\* While the group has a member, every partition has one owner among them, and
\* the members without a partition are those beyond the number of partitions.
OneOwnerEach ==
  joined # {} =>
    /\ \A p \in Partitions : assignment[p] \in {<<c>> : c \in joined}
    /\ Cardinality({c \in joined : Owned(c) = {}}) =
         IF Cardinality(joined) > Cardinality(Partitions)
         THEN Cardinality(joined) - Cardinality(Partitions) ELSE 0

\* Delivery is at least once and in order: no record below the committed offset
\* was skipped, and a record is delivered after all those before it, so that
\* the messages of one key are first delivered in the order they were sent.
InOrderAtLeastOnce ==
  /\ \A p \in Partitions :
       /\ 1..offsets[p] \subseteq Range(polled[p])
       /\ \A i \in DOMAIN polled[p] : 1..polled[p][i] \subseteq Range(SubSeq(polled[p], 1, i))
  /\ \A p, q \in Partitions : \A i \in DOMAIN parts[p], j \in DOMAIN parts[q] :
       parts[p][i].key = parts[q][j].key /\ parts[p][i].seq < parts[q][j].seq
         => p = q /\ i < j

\* What a consumer group promises across rebalances and crashes.
GroupDelivers == OneOwnerEach /\ InOrderAtLeastOnce

-------------------------------------------------------------------------------
(* Phase 7 of the Kafka lab (02/06): the payment processor commits by hand,      *)
(* retries a message it cannot parse and then sends it to the dead-letter topic. *)
(* That send raises: the value is encoded to bytes before it is handed to a      *)
(* producer whose serializer is json.dumps.                                      *)
parkingVars == <<payLog, payPosition, payCommitted, retries, settled, parked, processorUp>>

\* The producer has sent every payment, good or poison, before the processor starts.
PaymentsAreSent == payLog \in [PayPartitions -> PayLogs]

ParkingInit ==
  /\ PaymentsAreSent
  /\ payPosition = [p \in PayPartitions |-> 0]
  /\ payCommitted = [p \in PayPartitions |-> 0]
  /\ retries = [p \in PayPartitions |-> 0]
  /\ settled = {}
  /\ parked = {}
  /\ processorUp = TRUE

Current(p) == <<p, payPosition[p] + 1>>

HasNext(p) ==
  /\ processorUp /\ payPosition[p] < Len(payLog[p])
  /\ \A q \in PayPartitions \ {p} : retries[q] = 0

\* The amount parses: the payment is processed, and consumer.commit() commits
\* the positions of all partitions.
ProcessPayment(p) ==
  /\ HasNext(p) /\ payLog[p][payPosition[p] + 1] = "good"
  /\ settled' = settled \cup {Current(p)}
  /\ payPosition' = [payPosition EXCEPT ![p] = @ + 1]
  /\ payCommitted' = payPosition'
  /\ UNCHANGED <<payLog, retries, parked, processorUp>>

RetryPayment(p) ==
  /\ HasNext(p) /\ payLog[p][payPosition[p] + 1] = "poison" /\ retries[p] < MaxRetries
  /\ retries' = [retries EXCEPT ![p] = @ + 1]
  /\ UNCHANGED <<payLog, payPosition, payCommitted, settled, parked, processorUp>>

\* Mutation: the offset is committed before the message is sent to the topic.
SendToDltCommitted(p) ==
  /\ HasNext(p) /\ retries[p] = MaxRetries
  /\ payCommitted' = [payCommitted EXCEPT ![p] = payPosition[p] + 1]
  /\ payPosition' = [payPosition EXCEPT ![p] = @ + 1]
  /\ retries' = [q \in PayPartitions |-> 0]
  /\ processorUp' = FALSE
  /\ UNCHANGED <<payLog, settled, parked>>

\* The send to the dead-letter topic raises TypeError: the processor dies before
\* it commits.
SendToDlt(p) ==
  /\ HasNext(p) /\ retries[p] = MaxRetries
  /\ processorUp' = FALSE
  /\ retries' = [q \in PayPartitions |-> 0]
  /\ UNCHANGED <<payLog, payPosition, payCommitted, settled, parked>>

\* The processor is run again and resumes from the committed offsets; it may
\* also be killed and rerun at any time.
Rerun ==
  /\ processorUp' = TRUE
  /\ payPosition' = payCommitted
  /\ retries' = [q \in PayPartitions |-> 0]
  /\ UNCHANGED <<payLog, payCommitted, settled, parked>>

Step(p) == ProcessPayment(p) \/ RetryPayment(p) \/ SendToDlt(p)

ParkingNext == Rerun \/ \E p \in PayPartitions : Step(p)

ParkingSpec == ParkingInit /\ [][ParkingNext]_parkingVars

\* The processor keeps running, and is run again when it died.
FairSpec ==
  ParkingSpec /\ WF_parkingVars(\E p \in PayPartitions : Step(p)) /\ WF_parkingVars(~processorUp /\ Rerun)

-------------------------------------------------------------------------------
ParkingTypeOK ==
  /\ \A p \in PayPartitions : retries[p] \in 0..MaxRetries
  /\ \A p \in PayPartitions : payCommitted[p] <= payPosition[p]

\* No payment is lost: whatever lies below a committed offset was processed or
\* parked (the commit of phase 7 comes after both).
CommittedIsSettled ==
  \A p \in PayPartitions : \A i \in 1..payCommitted[p] : <<p, i>> \in settled \cup parked

\* What the lab says of the pattern: after the retries a poison message is in
\* the dead-letter topic and the partition goes on.
PoisonIsParked ==
  \A p \in PayPartitions : <>(payCommitted[p] = Len(payLog[p]))
===============================================================================
