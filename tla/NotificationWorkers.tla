------------------------ MODULE NotificationWorkers ------------------------
(* The notification system (case study 09): workers take notifications from a   *)
(* Kafka topic, filter them by expiry, user preference and idempotency key,     *)
(* deliver them through an external channel with retries, and record the        *)
(* delivery under a unique constraint.                                          *)
EXTENDS Integers, Sequences, FiniteSets

CONSTANTS
  Notifs,        \* notifications: [key, user, ttl] records; ttl 0 is no expiry
  NotifWorkers,  \* worker processes
  Preferences,   \* the user preferences a run may start with: sets of enabled users
  MaxAttempts,   \* max_attempts
  MaxDeliveries, \* bound: messages handed out, redeliveries included
  MaxNow         \* bound of the clock

VARIABLES
  enabled,    \* the users whose channel is enabled
  handedOut,  \* how many messages were handed to workers
  holding,    \* worker -> <<notification>> it processes, or <<>>
  stage,      \* worker -> "idle", "dedup", "send", "mark", "inserted", "conflict"
  tries,      \* worker -> attempts made
  delivRows,  \* keys in delivered_notifications
  sends,      \* key -> how often the channel accepted it (history)
  dlq,        \* keys sent to notifications-dlq
  stats,      \* the counters of DeliveryWorker, summed over the workers
  notifNow    \* clock

vars == <<enabled, handedOut, holding, stage, tries, delivRows, sends, dlq,
          stats, notifNow>>

\* What the proofs assume of the constants.
NotifAssumptions ==
  /\ IsFiniteSet(NotifWorkers)
  /\ \A n, o \in Notifs : n.key = o.key => n.user = o.user

NotifKeys == {n.key : n \in Notifs}

\* The tables: the users' preferences, and no delivery recorded yet.
InitDb == enabled \in Preferences /\ delivRows = {}

\* The topics of the notifications and of the dead letters, nothing consumed from either.
CreateTopics == handedOut = 0 /\ dlq = {}

NewWorkers ==
  /\ holding = [w \in NotifWorkers |-> <<>>]
  /\ stage = [w \in NotifWorkers |-> "idle"]
  /\ tries = [w \in NotifWorkers |-> 0]

Init ==
  /\ InitDb /\ CreateTopics /\ NewWorkers
  /\ sends = [k \in NotifKeys |-> 0]
  /\ stats = [c \in {"delivered", "deduplicated", "filtered", "expired", "dlq", "crashed"} |-> 0]
  /\ notifNow = 1

\* Phase 4 produces a notification twice, and a crash makes the group read one
\* again: a message stays available until MaxDeliveries.
Take(w, n) ==
  /\ stage[w] = "idle" /\ handedOut < MaxDeliveries
  /\ handedOut' = handedOut + 1
  /\ holding' = [holding EXCEPT ![w] = <<n>>]
  /\ stage' = [stage EXCEPT ![w] = "dedup"]
  /\ tries' = [tries EXCEPT ![w] = 0]
  /\ UNCHANGED <<enabled, delivRows, sends, dlq, stats, notifNow>>

Count(c) == stats' = [stats EXCEPT ![c] = @ + 1]

Finish(w) ==
  /\ stage' = [stage EXCEPT ![w] = "idle"]
  /\ holding' = [holding EXCEPT ![w] = <<>>]

IsExpired(n) == n.ttl > 0 /\ notifNow > n.ttl

DropExpired(w) ==
  /\ stage[w] = "dedup" /\ IsExpired(holding[w][1])
  /\ Finish(w) /\ Count("expired")
  /\ UNCHANGED <<enabled, handedOut, tries, delivRows, sends, dlq, notifNow>>

FilterByPreference(w) ==
  /\ stage[w] = "dedup" /\ ~IsExpired(holding[w][1]) /\ holding[w][1].user \notin enabled
  /\ Finish(w) /\ Count("filtered")
  /\ UNCHANGED <<enabled, handedOut, tries, delivRows, sends, dlq, notifNow>>

Passes(w) ==
  stage[w] = "dedup" /\ ~IsExpired(holding[w][1]) /\ holding[w][1].user \in enabled

DropDuplicate(w) ==
  /\ Passes(w) /\ holding[w][1].key \in delivRows
  /\ Finish(w) /\ Count("deduplicated")
  /\ UNCHANGED <<enabled, handedOut, tries, delivRows, sends, dlq, notifNow>>

GoSend(w) ==
  /\ Passes(w) /\ holding[w][1].key \notin delivRows
  /\ stage' = [stage EXCEPT ![w] = "send"]
  /\ UNCHANGED <<enabled, handedOut, holding, tries, delivRows, sends, dlq, stats, notifNow>>

\* deliver_fn: an external call that succeeds or fails.
Attempt(w, ok) ==
  /\ stage[w] = "send" /\ tries[w] < MaxAttempts
  /\ tries' = [tries EXCEPT ![w] = @ + 1]
  /\ IF ok THEN /\ sends' = [sends EXCEPT ![holding[w][1].key] = @ + 1]
                /\ stage' = [stage EXCEPT ![w] = "mark"]
           ELSE UNCHANGED <<sends, stage>>
  /\ UNCHANGED <<enabled, handedOut, holding, delivRows, dlq, stats, notifNow>>

\* Mutation: every worker that delivered takes the row for its own.
MarkDeliveredAlways(w) ==
  /\ stage[w] = "mark"
  /\ delivRows' = delivRows \cup {holding[w][1].key}
  /\ stage' = [stage EXCEPT ![w] = "inserted"]
  /\ UNCHANGED <<enabled, handedOut, holding, tries, sends, dlq, stats, notifNow>>

\* mark_delivered: ON CONFLICT DO NOTHING RETURNING tells who inserted the row.
MarkDelivered(w) ==
  /\ stage[w] = "mark"
  /\ delivRows' = delivRows \cup {holding[w][1].key}
  /\ stage' = [stage EXCEPT ![w] = IF holding[w][1].key \in delivRows THEN "conflict" ELSE "inserted"]
  /\ UNCHANGED <<enabled, handedOut, holding, tries, sends, dlq, stats, notifNow>>

\* The count comes after the commit: a worker that dies in between leaves a row
\* that nobody counted.
CountDelivery(w) ==
  /\ \/ stage[w] = "inserted" /\ Count("delivered")
     \/ stage[w] = "conflict" /\ Count("deduplicated")
  /\ Finish(w)
  /\ UNCHANGED <<enabled, handedOut, tries, delivRows, sends, dlq, notifNow>>

\* Only a worker that was given a DLQ producer parks the message.
Exhausted(w) ==
  /\ stage[w] = "send" /\ tries[w] = MaxAttempts
  /\ dlq' \in {dlq, dlq \cup {holding[w][1].key}}
  /\ Count("dlq") /\ Finish(w)
  /\ UNCHANGED <<enabled, handedOut, tries, delivRows, sends, notifNow>>

\* A worker dies; its message is read again by another member of the group.
WorkerDies(w) ==
  /\ stage[w] # "idle"
  /\ Finish(w) /\ Count("crashed")
  /\ UNCHANGED <<enabled, handedOut, tries, delivRows, sends, dlq, notifNow>>

ClockTicks ==
  /\ notifNow < MaxNow
  /\ notifNow' = notifNow + 1
  /\ UNCHANGED <<enabled, handedOut, holding, stage, tries, delivRows, sends, dlq, stats>>

NothingLeft ==
  /\ handedOut = MaxDeliveries /\ \A w \in NotifWorkers : stage[w] = "idle"
  /\ UNCHANGED vars

Next ==
  \/ \E w \in NotifWorkers :
       \/ \E n \in Notifs : Take(w, n)
       \/ DropExpired(w) \/ FilterByPreference(w) \/ DropDuplicate(w) \/ GoSend(w)
       \/ \E ok \in BOOLEAN : Attempt(w, ok)
       \/ MarkDelivered(w) \/ CountDelivery(w) \/ Exhausted(w) \/ WorkerDies(w)
  \/ ClockTicks
  \/ NothingLeft

Spec == Init /\ [][Next]_vars

-------------------------------------------------------------------------------
Busy == {w \in NotifWorkers : stage[w] # "idle"}
\* Workers that inserted a row and have not counted it.
Uncounted == {w \in NotifWorkers : stage[w] = "inserted"}

TypeOK ==
  /\ delivRows \subseteq NotifKeys /\ dlq \subseteq NotifKeys
  /\ \A w \in NotifWorkers : (stage[w] = "idle") <=> (holding[w] = <<>>)

\* Several workers may race on one key, but each message handed out is counted
\* once, and "delivered" is the number of rows, less those about to be counted
\* and at most one for every worker that died.
StatsAreExact ==
  /\ stats["delivered"] + Cardinality(Uncounted) <= Cardinality(delivRows)
  /\ Cardinality(delivRows) <= stats["delivered"] + Cardinality(Uncounted) + stats["crashed"]
  /\ handedOut = Cardinality(Busy) + stats["delivered"] + stats["deduplicated"]
       + stats["filtered"] + stats["expired"] + stats["dlq"] + stats["crashed"]

\* The check and the record are apart, so the channel may accept a key again,
\* from each worker that passed the check before the record and from each that
\* died before it, and from nobody else; a recorded key was sent, one that was
\* sent is recorded unless a worker is about to or died, and a user who disabled
\* the channel gets nothing.  The comment of the lab (826), that the record
\* prevents a double delivery in such a race, does not hold of the sends.
ResendsAreRaces ==
  \A n \in Notifs :
    LET k == n.key IN
    /\ k \in delivRows => sends[k] >= 1
    /\ sends[k] <= Cardinality(NotifWorkers) + stats["crashed"]
    /\ sends[k] > 0 /\ k \notin delivRows =>
         stats["crashed"] > 0 \/ \E w \in Busy : holding[w][1].key = k /\ stage[w] = "mark"
    /\ n.user \notin enabled => sends[k] = 0

\* The notification workers count exactly and resend only in a race.
NotificationsOnce == StatsAreExact /\ ResendsAreRaces
=============================================================================
