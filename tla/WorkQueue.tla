----------------------------- MODULE WorkQueue -----------------------------
(* The RabbitMQ lab (02/05): producers publish to a fanout exchange or straight *)
(* to a queue, consumers with prefetch_count=1 compete for its messages,        *)
(* process them idempotently and acknowledge them, crash before they do, and    *)
(* reject a poison message until it is dead-lettered.  The broker is external   *)
(* and modelled by what the lab relies on.                                      *)
EXTENDS Integers, Sequences, FiniteSets, Functions

CONSTANTS
  Queues,       \* durable queues
  QueueOf,      \* consumer -> the queue it consumes from
  MsgIds,       \* message_id values; an id may be published twice
  PoisonIds,    \* the ids of messages no consumer can process
  MaxAttempts,  \* MAX_ATTEMPTS
  MaxCopies,    \* bound: messages published
  MaxCrashes    \* bound: consumer crashes

Consumers == DOMAIN QueueOf

\* What the proofs assume of the constants.
QueueAssumptions ==
  /\ IsFiniteSet(Queues) /\ IsFiniteSet(Consumers) /\ QueueOf \in [Consumers -> Queues]
  /\ MaxAttempts \in Nat \ {0}

VARIABLES
  bound,       \* queues bound to the exchange
  published,   \* queue -> the messages routed to it so far (history)
  ready,       \* queue -> its messages waiting, as [msg, redelivered]
  unacked,     \* consumer -> the message it was delivered, or <<>>
  handled,     \* consumer -> its callback has run but not yet acknowledged
  acked,       \* queue -> the messages acknowledged
  deadLetters, \* queue -> the messages rejected to dead_letters
  seenIds,     \* queue -> seen_ids of its consumers, kept where they share it
  processed,   \* queue -> the ids processed, in order
  crashes

vars == <<bound, published, ready, unacked, handled, acked, deadLetters, seenIds,
          processed, crashes>>

Copies == UNION {published[q] : q \in Queues}

Init ==
  /\ bound = {}
  /\ published = [q \in Queues |-> {}]
  /\ ready = [q \in Queues |-> <<>>]
  /\ unacked = [c \in Consumers |-> <<>>]
  /\ handled = [c \in Consumers |-> FALSE]
  /\ acked = [q \in Queues |-> {}]
  /\ deadLetters = [q \in Queues |-> {}]
  /\ seenIds = [q \in Queues |-> {}]
  /\ processed = [q \in Queues |-> <<>>]
  /\ crashes = 0

\* queue_bind: a queue bound later misses what was published before.
Bind(q) ==
  /\ q \notin bound
  /\ bound' = bound \cup {q}
  /\ UNCHANGED <<published, ready, unacked, handled, acked, deadLetters, seenIds,
                 processed, crashes>>

RouteTo(qs, m) ==
  /\ published' = [q \in Queues |-> IF q \in qs THEN published[q] \cup {m} ELSE published[q]]
  /\ ready' = [q \in Queues |->
                 IF q \in qs THEN Append(ready[q], [msg |-> m, redelivered |-> FALSE])
                             ELSE ready[q]]
  /\ UNCHANGED <<bound, unacked, handled, acked, deadLetters, seenIds, processed, crashes>>

NewCopy(id, deaths) ==
  [n |-> Cardinality(Copies) + 1, id |-> id, deaths |-> deaths]

\* basic_publish through the fanout exchange.
PublishEvent(id) ==
  /\ Cardinality(Copies) < MaxCopies /\ bound # {}
  /\ RouteTo(bound, NewCopy(id, 0))

\* basic_publish with the queue as routing key.  A message replayed from the
\* dead letters comes with the x-death count it had there.
Publish(q, id) ==
  /\ Cardinality(Copies) < MaxCopies
  /\ \E deaths \in IF id \in PoisonIds THEN {0, MaxAttempts - 1} ELSE {0} :
       RouteTo({q}, NewCopy(id, deaths))

\* prefetch_count=1: the next message goes to a consumer that holds none.
Deliver(c) ==
  LET q == QueueOf[c] IN
  /\ unacked[c] = <<>> /\ ready[q] # <<>>
  /\ unacked' = [unacked EXCEPT ![c] = <<Head(ready[q]).msg>>]
  /\ ready' = [ready EXCEPT ![q] = Tail(@)]
  /\ UNCHANGED <<bound, published, handled, acked, deadLetters, seenIds, processed, crashes>>

\* Mutation: the duplicate check is missing.
HandleAlways(c) ==
  LET q == QueueOf[c] IN
  /\ unacked[c] # <<>> /\ ~handled[c] /\ unacked[c][1].id \notin PoisonIds
  /\ LET id == unacked[c][1].id IN
       /\ seenIds' = [seenIds EXCEPT ![q] = @ \cup {id}]
       /\ processed' = [processed EXCEPT ![q] = Append(@, id)]
  /\ handled' = [handled EXCEPT ![c] = TRUE]
  /\ UNCHANGED <<bound, published, ready, unacked, acked, deadLetters, crashes>>

\* idempotent_handler: a message seen before is acknowledged and not processed.
Handle(c) ==
  LET q == QueueOf[c] IN
  /\ unacked[c] # <<>> /\ ~handled[c] /\ unacked[c][1].id \notin PoisonIds
  /\ LET id == unacked[c][1].id IN
       IF id \in seenIds[q] THEN UNCHANGED <<seenIds, processed>>
       ELSE /\ seenIds' = [seenIds EXCEPT ![q] = @ \cup {id}]
            /\ processed' = [processed EXCEPT ![q] = Append(@, id)]
  /\ handled' = [handled EXCEPT ![c] = TRUE]
  /\ UNCHANGED <<bound, published, ready, unacked, acked, deadLetters, crashes>>

Ack(c) ==
  LET q == QueueOf[c] IN
  /\ handled[c]
  /\ acked' = [acked EXCEPT ![q] = @ \cup {unacked[c][1]}]
  /\ unacked' = [unacked EXCEPT ![c] = <<>>]
  /\ handled' = [handled EXCEPT ![c] = FALSE]
  /\ UNCHANGED <<bound, published, ready, deadLetters, seenIds, processed, crashes>>

\* The broker puts an unacknowledged message back where it was, flagged.
Requeue(q, m) ==
  ready' = [ready EXCEPT ![q] = <<[msg |-> m, redelivered |-> TRUE]>> \o @]

\* The connection of a consumer drops before its acknowledgement.
Crash(c) ==
  /\ unacked[c] # <<>> /\ crashes < MaxCrashes
  /\ Requeue(QueueOf[c], unacked[c][1])
  /\ unacked' = [unacked EXCEPT ![c] = <<>>]
  /\ handled' = [handled EXCEPT ![c] = FALSE]
  /\ crashes' = crashes + 1
  /\ UNCHANGED <<bound, published, acked, deadLetters, seenIds, processed>>

Attempt(m) == m.deaths + 1

\* nack with requeue: the broker counts no death, x-death grows only when a
\* message is dead-lettered.
NackRequeue(c) ==
  /\ unacked[c] # <<>> /\ unacked[c][1].id \in PoisonIds
  /\ Attempt(unacked[c][1]) < MaxAttempts
  /\ Requeue(QueueOf[c], unacked[c][1])
  /\ unacked' = [unacked EXCEPT ![c] = <<>>]
  /\ UNCHANGED <<bound, published, handled, acked, deadLetters, seenIds, processed, crashes>>

\* nack without requeue: the broker routes it to dead_letters.
NackDeadLetter(c) ==
  LET q == QueueOf[c] IN
  /\ unacked[c] # <<>> /\ unacked[c][1].id \in PoisonIds
  /\ Attempt(unacked[c][1]) >= MaxAttempts
  /\ deadLetters' = [deadLetters EXCEPT ![q] = @ \cup {unacked[c][1]}]
  /\ unacked' = [unacked EXCEPT ![c] = <<>>]
  /\ UNCHANGED <<bound, published, ready, handled, acked, seenIds, processed, crashes>>

ConsumerStep(c) ==
  Deliver(c) \/ Handle(c) \/ Ack(c) \/ NackRequeue(c) \/ NackDeadLetter(c)

\* Everything published was acknowledged or dead-lettered.
Drained ==
  /\ Cardinality(Copies) = MaxCopies
  /\ \A q \in Queues : published[q] = acked[q] \cup deadLetters[q]
  /\ UNCHANGED vars

Next ==
  \/ \E q \in Queues : Bind(q)
  \/ \E id \in MsgIds \ PoisonIds : PublishEvent(id)
  \/ \E q \in Queues, id \in MsgIds : Publish(q, id)
  \/ \E c \in Consumers : ConsumerStep(c) \/ Crash(c)
  \/ Drained

Spec == Init /\ [][Next]_vars

-------------------------------------------------------------------------------
TypeOK ==
  /\ \A c \in Consumers : handled[c] => unacked[c] # <<>>
  /\ \A q \in Queues : acked[q] \cup deadLetters[q] \subseteq published[q]

\* Each message routed to a queue is in exactly one place: waiting, with one
\* consumer, acknowledged or dead-lettered, whatever crashed in between.
NoMessageLost ==
  \A q \in Queues :
    LET waiting == {ready[q][i].msg : i \in DOMAIN ready[q]}
        held == {unacked[c][1] : c \in {d \in Consumers : QueueOf[d] = q /\ unacked[d] # <<>>}}
    IN /\ published[q] = waiting \cup held \cup acked[q] \cup deadLetters[q]
       /\ Cardinality(published[q]) =
            Len(ready[q]) + Cardinality({c \in Consumers : QueueOf[c] = q /\ unacked[c] # <<>>})
              + Cardinality(acked[q]) + Cardinality(deadLetters[q])

\* An id is processed at most once on each queue, although it is published
\* twice and redelivered after a crash; what is acknowledged was processed.
ProcessedOnce ==
  \A q \in Queues :
    /\ Cardinality(Range(processed[q])) = Len(processed[q])
    /\ {m.id : m \in acked[q]} \subseteq Range(processed[q])

\* The queue delivers at least once and its idempotent consumers process once.
DeliveredAndOnce == NoMessageLost /\ ProcessedOnce

PoisonIn(box, n) == \E q \in Queues : \E m \in box[q] : m.n = n /\ m.id \in PoisonIds

\* experiment.py:202-205 and README.md:67: a message that fails a configured number of
\* times goes to the dead letters.  The consumer counts the deaths in x-death, and a nack
\* with requeue adds none.
PoisonIsDeadLettered ==
  \A n \in 1..MaxCopies : PoisonIn(published, n) ~> PoisonIn(deadLetters, n)
=============================================================================
