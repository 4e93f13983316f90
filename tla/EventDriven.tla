------------------------------ MODULE EventDriven ------------------------------
(* The event-driven lab (02/04). Two programs that share nothing: the event   *)
(* log with its projection, and the two ways to write an order and publish    *)
(* its event.                                                                 *)
EXTENDS Integers, Sequences, FiniteSets, SequencesExt

CONSTANTS
  LogOrders,     \* orders whose lifecycle is produced to the topic
  MaxTopic,      \* bound: events in the partition
  MaxDelivered,  \* bound: events a consumer is handed, redeliveries included
  OutboxOrders,  \* orders placed through the outbox
  NaiveOrders,   \* orders placed by the dual write
  MaxRelayed     \* bound: events the simulated topic holds

\* The two halves of phase 6 place orders of different names: DUAL-WRITE-* and
\* ORD-OUTBOX-*.
EventAssumptions == OutboxOrders \cap NaiveOrders = {}

VARIABLES
  topic,      \* the partition: a sequence of [order, type]; the pair is its event_id
  committed,  \* the group's offset: <<>> when Kafka has none, else <<n>>
  delivered,  \* every event the group's consumer was handed, in order
  simDb,      \* the orders of the simulated table
  simKafka,   \* the simulated topic
  outboxRows, \* order -> the published flag of its outbox row, on the rows there are
  relaying    \* <<o>> between the relay publishing o and marking its row, else <<>>

-------------------------------------------------------------------------------
(* The event-driven lab (02/04): order events in a Kafka partition, a consumer *)
(* group that is handed them, and the projection rebuilt from what it got.    *)
sourcingVars == <<topic, committed, delivered>>

Event(o, t) == [order |-> o, type |-> t]

Lifecycle == <<"created", "paid", "shipped", "delivered", "cancelled">>

\* The state an event of each type leaves its order in.
StatusOf(type) == type

Apply(orders, ev) ==
  IF ev.type = "created"
  THEN [o \in DOMAIN orders \cup {ev.order} |->
          IF o = ev.order THEN [status |-> "created", events |-> <<"created">>] ELSE orders[o]]
  ELSE IF ev.order \in DOMAIN orders
       THEN [orders EXCEPT ![ev.order].status = StatusOf(ev.type),
                           ![ev.order].events = Append(@, ev.type)]
       ELSE orders

\* Mutation: a duplicate is skipped only when it is the event just applied.
RebuildStepLast(acc, ev) ==
  IF acc.idempotent /\ ev \in acc.seen THEN acc
  ELSE [acc EXCEPT !.seen = {ev}, !.orders = Apply(@, ev)]

\* One turn of rebuild_state's loop; without a seen set nothing is skipped.
RebuildStep(acc, ev) ==
  IF acc.idempotent /\ ev \in acc.seen THEN acc
  ELSE [acc EXCEPT !.seen = @ \cup {ev}, !.orders = Apply(@, ev)]

RebuildState(events, idempotent) ==
  FoldLeft(RebuildStep, [orders |-> <<>>, seen |-> {}, idempotent |-> idempotent], events).orders

\* get_consumer_lag: a group without an offset counts as offset 0.
CommittedOffset == IF committed = <<>> THEN 0 ELSE committed[1]
ConsumerLag == Len(topic) - CommittedOffset

NewTopic == <<>>

SourcingInit ==
  /\ topic = NewTopic
  /\ committed = <<>>
  /\ delivered = <<>>

\* The producer sends the next lifecycle event of an order; delivery may be
\* skipped, as for the last order of the lab.
Produce(o) ==
  LET sent == {i \in DOMAIN topic : topic[i].order = o}
      last == IF sent = {} THEN 0
              ELSE CHOOSE k \in DOMAIN Lifecycle :
                     Lifecycle[k] = topic[CHOOSE i \in sent : \A j \in sent : j <= i].type
  IN /\ Len(topic) < MaxTopic
     /\ \E k \in {last + 1} \cup (IF last = 3 THEN {5} ELSE {}) :
          k \in DOMAIN Lifecycle /\ topic' = Append(topic, Event(o, Lifecycle[k]))
     /\ UNCHANGED <<committed, delivered>>

\* consume_all_events with from_beginning, as the lab calls it: from the
\* committed offset, or the earliest event when there is none, as far as the
\* timeout lets it.  The commit is automatic; a crash loses it and the batch is
\* delivered again.
Consume(crash) ==
  LET start == CommittedOffset
  IN \E end \in start..Len(topic) :
       /\ end - start + Len(delivered) <= MaxDelivered
       /\ delivered' = delivered \o SubSeq(topic, start + 1, end)
       /\ committed' = IF crash THEN committed ELSE <<end>>
       /\ UNCHANGED <<topic>>

SourcingNext ==
  \/ \E o \in LogOrders : Produce(o)
  \/ \E c \in BOOLEAN : Consume(c)

SourcingSpec == SourcingInit /\ [][SourcingNext]_sourcingVars

-------------------------------------------------------------------------------
SourcingTypeOK ==
  /\ CommittedOffset \in 0..Len(topic)

\* What an idempotent consumer rebuilds from everything it was handed, with
\* the redeliveries a lost commit causes, is what the log itself says.
ProjectionIsReplay ==
  LET seen == {i \in DOMAIN topic : topic[i] \in ToSet(delivered)}
      upTo == IF seen = {} THEN 0 ELSE CHOOSE i \in seen : \A j \in seen : j <= i
  IN RebuildState(delivered, TRUE) = RebuildState(SubSeq(topic, 1, upTo), FALSE)

-------------------------------------------------------------------------------
(* Phase 6 of the event-driven lab (02/04): the two ways to write an order and  *)
(* publish its event, the dual write and the transactional outbox.  Every event *)
(* of the simulation is an order.created event, so the topic is a sequence of   *)
(* orders.                                                                      *)
outboxVars == <<simDb, simKafka, outboxRows, relaying>>

OutboxInit ==
  /\ simDb = {}
  /\ simKafka = <<>>
  /\ outboxRows = <<>>
  /\ relaying = <<>>

\* naive_place_order: the process may die between the commit and the send.
NaivePlaceOrder(o, crashAfterDb) ==
  /\ o \notin simDb
  /\ simDb' = simDb \cup {o}
  /\ simKafka' = IF crashAfterDb THEN simKafka ELSE Append(simKafka, o)
  /\ UNCHANGED <<outboxRows, relaying>>

\* Mutation: the outbox row is written as published already.
OutboxPlacePublished(o) ==
  /\ o \notin simDb
  /\ simDb' = simDb \cup {o}
  /\ outboxRows' = [r \in DOMAIN outboxRows \cup {o} |-> IF r = o THEN TRUE ELSE outboxRows[r]]
  /\ UNCHANGED <<simKafka, relaying>>

\* outbox_place_order: the order and its outbox row in one transaction.
OutboxPlaceOrder(o) ==
  /\ o \notin simDb
  /\ simDb' = simDb \cup {o}
  /\ outboxRows' = [r \in DOMAIN outboxRows \cup {o} |-> IF r = o THEN FALSE ELSE outboxRows[r]]
  /\ UNCHANGED <<simKafka, relaying>>

\* The relay publishes an unpublished row ...
RelayPublish(o) ==
  /\ relaying = <<>> /\ o \in DOMAIN outboxRows /\ ~outboxRows[o]
  /\ Len(simKafka) < MaxRelayed
  /\ simKafka' = Append(simKafka, o)
  /\ relaying' = <<o>>
  /\ UNCHANGED <<simDb, outboxRows>>

\* ... and marks it, unless it crashes first; the restarted relay finds the
\* row unpublished.
RelayMark ==
  /\ relaying # <<>>
  /\ outboxRows' = [outboxRows EXCEPT ![relaying[1]] = TRUE]
  /\ relaying' = <<>>
  /\ UNCHANGED <<simDb, simKafka>>

RelayCrash ==
  /\ relaying # <<>>
  /\ relaying' = <<>>
  /\ UNCHANGED <<simDb, simKafka, outboxRows>>

\* The simulation is over.
Done ==
  /\ relaying = <<>> /\ OutboxOrders \cup NaiveOrders \subseteq simDb
  /\ (\E o \in DOMAIN outboxRows : ~outboxRows[o]) => Len(simKafka) >= MaxRelayed
  /\ UNCHANGED outboxVars

OutboxNext ==
  \/ \E o \in NaiveOrders, c \in BOOLEAN : NaivePlaceOrder(o, c)
  \/ \E o \in OutboxOrders : OutboxPlaceOrder(o) \/ RelayPublish(o)
  \/ RelayMark
  \/ RelayCrash
  \/ Done

OutboxSpec == OutboxInit /\ [][OutboxNext]_outboxVars

-------------------------------------------------------------------------------
OutboxTypeOK ==
  /\ DOMAIN outboxRows \subseteq simDb
  /\ relaying = <<>> \/ (Len(relaying) = 1 /\ relaying[1] \in DOMAIN outboxRows)

Published(o) == \E i \in DOMAIN simKafka : simKafka[i] = o

\* An order placed through the outbox never loses its event: it is published,
\* or its row still says that it has to be.  The event of no order is published
\* before the order is there.
OutboxLosesNothing ==
  /\ \A o \in simDb \cap OutboxOrders :
       o \in DOMAIN outboxRows /\ (~outboxRows[o] \/ Published(o))
  /\ \A i \in DOMAIN simKafka : simKafka[i] \in simDb
===============================================================================
