-------------------------- MODULE MCMessaging --------------------------
(* The chat server and the messaging labs for TLC, one at a time: they share   *)
(* nothing, so `lab' picks the one that runs and the others stand still.       *)
(* The constants get their values from the cfg, where they are functions or    *)
(* sets of records by way of the definitions that follow.                      *)
EXTENDS WhatsAppServer, TLC

CONSTANTS
    \* of WorkQueue (02/05)
    Queues, QueueOf, MsgIds, PoisonIds, QueueAttempts, MaxCopies, MaxCrashes,
    \* of NotificationWorkers (C09)
    Notifs, NotifWorkers, Preferences, NotifyAttempts, MaxDeliveries, MaxNow,
    \* of EventDriven (02/04): the log, then the outbox
    LogOrders, MaxTopic, MaxDelivered,
    OutboxOrders, NaiveOrders, MaxRelayed,
    \* of KafkaTopics (02/06): the group, then the dead letters
    Keys, PartitionOf, GroupMembers, MaxSent, MaxRebalances,
    PayLogs, PayPartitions, MaxRetries,
    \* of StreamWindows (02/07) and Backpressure (02/18)
    EventTimes, ClickUsers, WindowSize, AllowedLateness, SessionGap, MaxSessionSecs, MaxArrivals,
    Strategies, BpProducers, MaxQueue, Offers, MaxAttempt,
    \* of Timeline (C02)
    Tweeters, Readers, ColdReader, Follows, TimelineMax, FirstId, Batch, MaxTweets, MaxRuns

\* Two consumers compete for the first queue and one has the second to itself.
MCQueueOf == [c \in {"c1", "c2", "c3"} |-> IF c = "c3" THEN "q2" ELSE "q1"]

\* A notification that never expires and one that does.
MCNotifs == {[key |-> "k1", user |-> 101, ttl |-> 0], [key |-> "k2", user |-> 102, ttl |-> 1]}

\* Two of the keys share a partition.
MCPartitionOf == [k \in {"k1", "k2", "k3"} |-> IF k = "k3" THEN 1 ELSE 0]

\* The payments of a partition: none is poison, or the second is.
MCPayLogs == {<<"good", "good">>, <<"good", "poison", "good">>}

\* The reader follows both authors.
MCFollows == {<<"r", "u1">>, <<"r", "u2">>}

\* Connections, messages and users of the chat are interchangeable.
ChatSymmetry == Permutations(Users) \cup Permutations(Messages) \cup Permutations(Conns)

VARIABLES
    lab, topic, committed, delivered, simDb, simKafka, outboxRows, relaying,
    bound, published, ready, unacked, handled, acked, deadLetters, seenIds,
    processed, crashes, enabled, handedOut, holding, stage, tries, delivRows,
    noticesSent, dlq, stats, notifNow, parts, joined, assignment, position,
    offsets, polled, rebalances, payLog, payPosition, payCommitted, retries,
    settled, parked, processorUp, arrivals, watermark, windowCounts,
    closedWindows, sideOutput, emitted, strategy, llen, admitted, offered,
    accepted, dropped, rejected, attempt, consumed, run, phase, posted,
    tweets, tweetTopic, tweetsConsumed, tweetsCommitted, taken, timeline, cold

Events == INSTANCE EventDriven
Work == INSTANCE WorkQueue WITH MaxAttempts <- QueueAttempts
Notices == INSTANCE NotificationWorkers WITH MaxAttempts <- NotifyAttempts, sends <- noticesSent
Kafka == INSTANCE KafkaTopics
Windows == INSTANCE StreamWindows
Pressure == INSTANCE Backpressure
Tweets == INSTANCE Timeline WITH topic <- tweetTopic, committed <- tweetsCommitted, consumed <- tweetsConsumed

\* What the proofs assume of the constants.
ASSUME MCAssumption ==
  /\ Work!QueueAssumptions /\ Notices!NotifAssumptions
  /\ Events!EventAssumptions /\ Kafka!KafkaAssumptions /\ Tweets!TimelineAssumptions
  /\ Windows!WindowAssumptions /\ Pressure!PressureAssumptions

sourcingVars == <<topic, committed, delivered>>
outboxVars == <<simDb, simKafka, outboxRows, relaying>>
workVars == <<bound, published, ready, unacked, handled, acked, deadLetters, seenIds,
    processed, crashes>>
noticesVars == <<enabled, handedOut, holding, stage, tries, delivRows, noticesSent, dlq,
    stats, notifNow>>
groupVars == <<parts, joined, assignment, position, offsets, polled, rebalances>>
parkingVars == <<payLog, payPosition, payCommitted, retries, settled, parked, processorUp>>
windowsVars == <<arrivals, watermark, windowCounts, closedWindows, sideOutput, emitted>>
pressureVars == <<strategy, llen, admitted, offered, accepted, dropped, rejected, attempt,
    consumed>>
tweetsVars == <<run, phase, posted, tweets, tweetTopic, tweetsConsumed, tweetsCommitted,
    taken, timeline, cold>>

Labs == {
    "chat", "sourcing", "outbox", "work_queue", "notifications",
    "kafka_group", "dead_letters", "windows", "backpressure", "timeline"}

\* The labs that do not run start in one of their states.
MCInit ==
    /\ lab \in Labs
    /\ Init
    /\ Events!SourcingInit
    /\ Events!OutboxInit
    /\ Work!Init
    /\ Notices!Init /\ (lab # "notifications" => enabled = CHOOSE p \in Preferences : TRUE)
    /\ Kafka!GroupInit
    /\ Kafka!ParkingInit /\ (lab # "dead_letters" => payLog = [p \in PayPartitions |-> <<"good", "good">>])
    /\ Windows!Init
    /\ Pressure!Init /\ (lab # "backpressure" => strategy = "none")
    /\ Tweets!Init

MCNext ==
    /\ UNCHANGED lab
    /\ IF lab = "chat" THEN Next ELSE UNCHANGED vars
    /\ IF lab = "sourcing" THEN Events!SourcingNext ELSE UNCHANGED sourcingVars
    /\ IF lab = "outbox" THEN Events!OutboxNext ELSE UNCHANGED outboxVars
    /\ IF lab = "work_queue" THEN Work!Next ELSE UNCHANGED workVars
    /\ IF lab = "notifications" THEN Notices!Next ELSE UNCHANGED noticesVars
    /\ IF lab = "kafka_group" THEN Kafka!GroupNext ELSE UNCHANGED groupVars
    /\ IF lab = "dead_letters" THEN Kafka!ParkingNext ELSE UNCHANGED parkingVars
    /\ IF lab = "windows" THEN Windows!Next ELSE UNCHANGED windowsVars
    /\ IF lab = "backpressure" THEN Pressure!Next ELSE UNCHANGED pressureVars
    /\ IF lab = "timeline" THEN Tweets!Next ELSE UNCHANGED tweetsVars

mcVars == <<lab, vars, sourcingVars, outboxVars, workVars, noticesVars, groupVars,
    parkingVars, windowsVars, pressureVars, tweetsVars>>

MCSpec == MCInit /\ [][MCNext]_mcVars

\* Every variable of the lab that runs has its type.
EachTypeOK ==
    /\ lab = "chat" => TypeOK
    /\ lab = "sourcing" => Events!SourcingTypeOK
    /\ lab = "outbox" => Events!OutboxTypeOK
    /\ lab = "work_queue" => Work!TypeOK
    /\ lab = "notifications" => Notices!TypeOK
    /\ lab = "kafka_group" => Kafka!GroupTypeOK
    /\ lab = "dead_letters" => Kafka!ParkingTypeOK
    /\ lab = "windows" => Windows!TypeOK
    /\ lab = "backpressure" => Pressure!TypeOK
    /\ lab = "timeline" => Tweets!TypeOK

\* A message waits as sent only while its recipient has no entry in connected_users
\* or one whose socket is gone, a task has it in hand or died with it, or a copy has
\* arrived; the registered tasks are alive, and a queue being flushed is its user's,
\* in order (ws_server.py).  A recipient who is connected may have no entry, after
\* the finally block of a connection he replaced: that gap is the code's.
ChatIsConsistent ==
    /\ lab = "chat" => QueuedMeansAway /\ RegisteredIsAlive /\ QueueIsSorted

\* What is rebuilt from the log is what a replay of it gives, whatever was delivered
\* again; and a committed order reaches the broker, at least once, after any crash
\* of the relay (02/04, phases 2 to 6).
EventsAreKept ==
    /\ lab = "sourcing" => Events!ProjectionIsReplay
    /\ lab = "outbox" => Events!OutboxLosesNothing

\* A message is processed once although it is delivered again, and none is lost
\* between its queue and the dead letters (02/05); a notification is recorded and
\* counted as delivered once at most, and the channel accepts it from no more than
\* the workers that passed the check before the record and those that died (C09).
DeliveredAndOnce ==
    /\ lab = "work_queue" => Work!DeliveredAndOnce
    /\ lab = "notifications" => Notices!NotificationsOnce

\* Every record of a partition reaches the group, in the order of its key, across
\* rebalances (02/06), and no offset is committed before its record is processed or
\* parked (02/06, phase 7).
GroupDelivers ==
    /\ lab = "kafka_group" => Kafka!GroupDelivers
    /\ lab = "dead_letters" => Kafka!CommittedIsSettled

\* A window holds the events of its time that were not too late, once (02/07), and
\* the queue in front of a slow consumer stays within its bound while every offer is
\* accounted for (02/18).
StreamsAreRight ==
    /\ lab = "windows" => Windows!WindowsAreRight
    /\ lab = "backpressure" => Pressure!QueueIsBounded

\* A home timeline holds the newest tweets its workers and its backfill have seen,
\* and never more than it may (C02).
TimelinesAreTheNewest ==
    /\ lab = "timeline" => Tweets!TimelinesAreTheNewest

\* The work queue alone.  Its consuming loops run on: a message that is ready is
\* delivered, and a callback returns.
WorkQueueSpec ==
    /\ MCInit /\ lab = "work_queue" /\ [][MCNext]_mcVars
    /\ \A c \in Work!Consumers : WF_workVars(Work!ConsumerStep(c))

\* What 02/05 says of a poison message: it ends in the dead letters.
PoisonIsDeadLettered == Work!PoisonIsDeadLettered
=============================================================================
