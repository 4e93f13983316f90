--------------------------- MODULE MessagingProofs ---------------------------
(***************************************************************************)
(* Proofs about the chat server and the messaging labs, for any number of  *)
(* users, connections, queues, consumers, workers, partitions and          *)
(* messages.                                                               *)
(***************************************************************************)
EXTENDS MCMessaging, Counting

LEMMA SameSize ==
    \A S : Notices!Cardinality(S) = Cardinality(S) /\ Work!Cardinality(S) = Cardinality(S)
  BY DEF Notices!Cardinality, Work!Cardinality, Cardinality

-----------------------------------------------------------------------------
(***************************************************************************)
(* The notification workers.  A key that is not recorded was sent by       *)
(* workers that are still to record it, or died; once it is recorded, only *)
(* a worker that had passed the check before can send it again.            *)
(***************************************************************************)
HeldKey(w) == holding[w][1].key
Sending(k) == {w \in NotifWorkers : stage[w] = "send" /\ HeldKey(w) = k}
Marking(k) == {w \in NotifWorkers : stage[w] = "mark" /\ HeldKey(w) = k}

NoticesShape ==
  /\ handedOut \in Nat
  /\ holding \in [NotifWorkers -> {<<>>} \cup {<<n>> : n \in Notifs}]
  /\ stage \in [NotifWorkers -> {"idle", "dedup", "send", "mark", "inserted", "conflict"}]
  /\ delivRows \in SUBSET Notices!NotifKeys /\ IsFiniteSet(delivRows)
  /\ dlq \in SUBSET Notices!NotifKeys
  /\ noticesSent \in [Notices!NotifKeys -> Nat]
  /\ stats \in [{"delivered", "deduplicated", "filtered", "expired", "dlq", "crashed"} -> Nat]
  /\ \A w \in NotifWorkers : stage[w] = "idle" <=> holding[w] = <<>>

\* What worker w relies on: it passed the filter, and it records what it has sent.
Passed(w) ==
  /\ stage[w] \in {"send", "mark"} => holding[w][1].user \in enabled
  /\ stage[w] = "mark" => noticesSent[HeldKey(w)] >= 1

KeyIsRaced(k) ==
  IF k \in delivRows
    THEN /\ noticesSent[k] >= 1
         /\ noticesSent[k] + Cardinality(Sending(k)) <= Cardinality(NotifWorkers) + stats["crashed"]
    ELSE noticesSent[k] <= Cardinality(Marking(k)) + stats["crashed"]

NoticesInv ==
  /\ NoticesShape
  /\ \A w \in NotifWorkers : Passed(w)
  /\ \A k \in Notices!NotifKeys : KeyIsRaced(k)
  /\ \A n \in Notifs : n.user \notin enabled => noticesSent[n.key] = 0
  /\ Notices!StatsAreExact

LEMMA NoticesInvInit ==
    ASSUME Notices!NotifAssumptions, Notices!Init
    PROVE  NoticesInv
  <1> USE DEF Notices!Init, Notices!InitDb, Notices!CreateTopics, Notices!NewWorkers
  <1>1. NoticesShape /\ \A w \in NotifWorkers : Passed(w)
    BY FS_EmptySet DEF NoticesShape, Passed
  <1>2. Notices!Busy = {} /\ Notices!Uncounted = {} /\ \A k \in Notices!NotifKeys : Marking(k) = {}
    BY DEF Notices!Busy, Notices!Uncounted, Marking
  <1>3. Notices!StatsAreExact
    BY <1>2, SameSize, FS_EmptySet DEF Notices!StatsAreExact
  <1>4. ASSUME NEW k \in Notices!NotifKeys
        PROVE  KeyIsRaced(k)
    <2>1. noticesSent[k] = 0 /\ stats["crashed"] = 0 /\ k \notin delivRows
      OBVIOUS
    <2>2. Cardinality(Marking(k)) = 0
      BY <1>2, FS_EmptySet
    <2> QED
      BY <2>1, <2>2 DEF KeyIsRaced
  <1>5. \A n \in Notifs : noticesSent[n.key] = 0
    BY DEF Notices!NotifKeys
  <1> QED
    BY <1>1, <1>3, <1>4, <1>5 DEF NoticesInv

\* What a step of worker w does to the sets the invariant counts.
WorkerMoves(w, A, B) ==
  Cardinality(A) \in Nat /\ Cardinality(B) \in Nat
    /\ Cardinality(B) = Cardinality(A) - In(w, A) + In(w, B)

LEMMA OneWorkerMoves ==
    ASSUME Notices!NotifAssumptions, NEW w \in NotifWorkers,
           \A v \in NotifWorkers \ {w} : holding'[v] = holding[v] /\ stage'[v] = stage[v]
    PROVE  /\ WorkerMoves(w, Notices!Busy, Notices!Busy')
           /\ WorkerMoves(w, Notices!Uncounted, Notices!Uncounted')
           /\ \A k : WorkerMoves(w, Sending(k), Sending(k)')
           /\ \A k : WorkerMoves(w, Marking(k), Marking(k)')
           /\ Cardinality(NotifWorkers) \in Nat
  <1>1. IsFiniteSet(NotifWorkers)
    BY DEF Notices!NotifAssumptions, Notices!IsFiniteSet, IsFiniteSet
  <1>2. ASSUME NEW A \in SUBSET NotifWorkers, NEW B, A \ {w} = B \ {w}
        PROVE  WorkerMoves(w, A, B)
    BY <1>1, <1>2, FS_Subset, ButOne DEF WorkerMoves
  <1>3. /\ Notices!Busy \in SUBSET NotifWorkers /\ Notices!Busy \ {w} = Notices!Busy' \ {w}
        /\ Notices!Uncounted \in SUBSET NotifWorkers
        /\ Notices!Uncounted \ {w} = Notices!Uncounted' \ {w}
    BY DEF Notices!Busy, Notices!Uncounted
  <1>4. ASSUME NEW k
        PROVE  /\ Sending(k) \in SUBSET NotifWorkers /\ Sending(k) \ {w} = Sending(k)' \ {w}
               /\ Marking(k) \in SUBSET NotifWorkers /\ Marking(k) \ {w} = Marking(k)' \ {w}
    BY DEF Sending, Marking, HeldKey
  <1> QED
    BY <1>1, <1>2, <1>3, <1>4, FS_CardinalityType

\* A recorded key leaves room for the workers that may still send it.
LEMMA RacersFit ==
    ASSUME Notices!NotifAssumptions, NEW k
    PROVE  /\ Cardinality(Sending(k)) \in Nat /\ Cardinality(Marking(k)) \in Nat
           /\ Cardinality(Sending(k)) + Cardinality(Marking(k)) <= Cardinality(NotifWorkers)
           /\ Cardinality(NotifWorkers) \in Nat
           /\ Marking(k) = {} => Cardinality(Marking(k)) = 0
  <1>1. IsFiniteSet(NotifWorkers)
    BY DEF Notices!NotifAssumptions, Notices!IsFiniteSet, IsFiniteSet
  <1>2. /\ Sending(k) \in SUBSET NotifWorkers /\ Marking(k) \in SUBSET NotifWorkers
        /\ Sending(k) \cup Marking(k) \in SUBSET NotifWorkers
        /\ Sending(k) \cap Marking(k) = {}
    BY DEF Sending, Marking
  <1>3. IsFiniteSet(Sending(k)) /\ IsFiniteSet(Marking(k))
    BY <1>1, <1>2, FS_Subset
  <1>4. Cardinality(Sending(k) \cup Marking(k))
          = Cardinality(Sending(k)) + Cardinality(Marking(k)) - 0
    BY <1>2, <1>3, FS_Union, FS_EmptySet
  <1>5. Cardinality(Sending(k) \cup Marking(k)) <= Cardinality(NotifWorkers)
    BY <1>1, <1>2, FS_Subset
  <1> QED
    BY <1>1, <1>3, <1>4, <1>5, FS_CardinalityType, FS_EmptySet

\* A worker leaves: its message is dropped, counted, parked or lost with the worker.
LeavesAs(w, c) ==
  /\ stage[w] # "idle" /\ Notices!Finish(w) /\ Notices!Count(c)
  /\ UNCHANGED <<enabled, handedOut, delivRows, noticesSent>>

Counters == {"delivered", "deduplicated", "filtered", "expired", "dlq", "crashed"}

LEMMA WorkerLeaves ==
    ASSUME Notices!NotifAssumptions, NoticesInv, NEW w \in NotifWorkers,
           NEW c \in Counters, LeavesAs(w, c), dlq' \in SUBSET Notices!NotifKeys,
           stage[w] = "mark" => c = "crashed",
           stage[w] = "inserted" => c \in {"crashed", "delivered"},
           c = "delivered" => stage[w] = "inserted"
    PROVE  NoticesInv'
  <1> DEFINE h == HeldKey(w)
  <1>1. /\ stage' = [stage EXCEPT ![w] = "idle"] /\ holding' = [holding EXCEPT ![w] = <<>>]
        /\ stats' = [stats EXCEPT ![c] = @ + 1]
        /\ enabled' = enabled /\ handedOut' = handedOut /\ noticesSent' = noticesSent
        /\ delivRows' = delivRows /\ stage[w] # "idle"
    BY DEF LeavesAs, Notices!Finish, Notices!Count
  <1>2. NoticesShape /\ Passed(w) /\ \E n \in Notifs : holding[w] = <<n>>
    BY <1>1 DEF NoticesInv, NoticesShape
  <1>3. h \in Notices!NotifKeys
    BY <1>2 DEF HeldKey, Notices!NotifKeys
  <1>4. /\ stats' \in [Counters -> Nat] /\ stats[c] \in Nat /\ stats'[c] = stats[c] + 1
        /\ \A d \in Counters \ {c} : stats'[d] = stats[d] /\ stats[d] \in Nat
    BY <1>1, <1>2 DEF NoticesShape, Counters
  <1>5. NoticesShape'
    <2>1. delivRows' \in SUBSET Notices!NotifKeys /\ IsFiniteSet(delivRows')
      BY <1>1, <1>2 DEF NoticesShape
    <2>2. /\ stage' \in [NotifWorkers -> {"idle", "dedup", "send", "mark", "inserted", "conflict"}]
          /\ holding' \in [NotifWorkers -> {<<>>} \cup {<<n>> : n \in Notifs}]
          /\ \A v \in NotifWorkers : stage'[v] = "idle" <=> holding'[v] = <<>>
      BY <1>1, <1>2 DEF NoticesShape
    <2> QED
      BY <1>1, <1>2, <1>4, <2>1, <2>2 DEF NoticesShape, Counters, Notices!NotifKeys
  <1>6. \A v \in NotifWorkers : Passed(v)'
    BY <1>1, <1>2 DEF NoticesInv, NoticesShape, Passed, HeldKey
  <1>7. /\ WorkerMoves(w, Notices!Busy, Notices!Busy')
        /\ WorkerMoves(w, Notices!Uncounted, Notices!Uncounted')
        /\ \A k : WorkerMoves(w, Sending(k), Sending(k)')
        /\ \A k : WorkerMoves(w, Marking(k), Marking(k)')
    BY <1>1, <1>2, OneWorkerMoves DEF NoticesShape
  <1>8. /\ w \in Notices!Busy /\ w \notin Notices!Busy'
        /\ w \notin Notices!Uncounted'
        /\ w \in Notices!Uncounted <=> stage[w] = "inserted"
        /\ \A k : /\ w \notin Sending(k)' /\ w \notin Marking(k)'
                  /\ w \in Marking(k) => k = h /\ stage[w] = "mark"
    BY <1>1, <1>2 DEF Notices!Busy, Notices!Uncounted, Sending, Marking, HeldKey, NoticesShape
  <1>9. Notices!StatsAreExact'
    <2>1. Cardinality(Notices!Busy') = Cardinality(Notices!Busy) - 1
            /\ Cardinality(Notices!Busy) \in Nat
      BY <1>7, <1>8 DEF WorkerMoves, In
    <2>2. /\ Cardinality(Notices!Uncounted')
               = Cardinality(Notices!Uncounted) - (IF stage[w] = "inserted" THEN 1 ELSE 0)
          /\ Cardinality(Notices!Uncounted) \in Nat /\ Cardinality(Notices!Uncounted') \in Nat
          /\ Cardinality(delivRows) \in Nat
      BY <1>2, <1>7, <1>8, FS_CardinalityType DEF WorkerMoves, In, NoticesShape
    <2> DEFINE Sum(s) == s["delivered"] + s["deduplicated"] + s["filtered"] + s["expired"]
                           + s["dlq"] + s["crashed"]
    <2>3. /\ stats["delivered"] + Cardinality(Notices!Uncounted) <= Cardinality(delivRows)
          /\ Cardinality(delivRows)
               <= stats["delivered"] + Cardinality(Notices!Uncounted) + stats["crashed"]
          /\ handedOut = Cardinality(Notices!Busy) + Sum(stats)
      <3>1. Notices!StatsAreExact /\ \A d \in Counters : stats[d] \in Nat
        BY <1>4 DEF NoticesInv
      <3> QED
        BY <2>1, <3>1, SameSize DEF Notices!StatsAreExact, Counters
    <2>4. Sum(stats') = Sum(stats) + 1 /\ Sum(stats) \in Nat
      BY <1>4 DEF Counters
    <2>5. /\ stats'["delivered"] = stats["delivered"] + (IF c = "delivered" THEN 1 ELSE 0)
          /\ stats'["crashed"] = stats["crashed"] + (IF c = "crashed" THEN 1 ELSE 0)
          /\ stats["delivered"] \in Nat /\ stats["crashed"] \in Nat
      BY <1>4 DEF Counters
    <2> HIDE DEF Sum
    <2>6. /\ stats'["delivered"] + Cardinality(Notices!Uncounted') <= Cardinality(delivRows)
          /\ Cardinality(delivRows)
               <= stats'["delivered"] + Cardinality(Notices!Uncounted') + stats'["crashed"]
      BY <2>2, <2>3, <2>5
    <2>7. handedOut' = Cardinality(Notices!Busy') + Sum(stats')
      BY <1>1, <2>1, <2>3, <2>4
    <2>8. /\ stats'["delivered"] + Notices!Cardinality(Notices!Uncounted)' <= Notices!Cardinality(delivRows)'
          /\ Notices!Cardinality(delivRows)' <= stats'["delivered"]
               + Notices!Cardinality(Notices!Uncounted)' + stats'["crashed"]
      BY <1>1, <2>6, SameSize
    <2>9. handedOut' = Notices!Cardinality(Notices!Busy)' + stats'["delivered"] + stats'["deduplicated"]
                         + stats'["filtered"] + stats'["expired"] + stats'["dlq"] + stats'["crashed"]
      BY <1>4, <2>1, <2>7, SameSize DEF Counters, Sum
    <2> QED
      BY <2>8, <2>9 DEF Notices!StatsAreExact
  <1>10. ASSUME NEW k \in Notices!NotifKeys
         PROVE  KeyIsRaced(k)'
    <2>1. /\ KeyIsRaced(k) /\ noticesSent'[k] = noticesSent[k] /\ noticesSent[k] \in Nat
          /\ stats'["crashed"] \in Nat /\ stats["crashed"] \in Nat
          /\ stats'["crashed"] = stats["crashed"] + (IF c = "crashed" THEN 1 ELSE 0)
      BY <1>1, <1>2, <1>4 DEF NoticesInv, NoticesShape, Counters
    <2>2. /\ Cardinality(Sending(k)') <= Cardinality(Sending(k))
          /\ Cardinality(Sending(k)') \in Nat /\ Cardinality(Sending(k)) \in Nat
          /\ Cardinality(Marking(k)') = Cardinality(Marking(k)) - In(w, Marking(k))
          /\ Cardinality(Marking(k)') \in Nat /\ Cardinality(Marking(k)) \in Nat
      BY <1>7, <1>8 DEF WorkerMoves, In
    <2>3. CASE k \in delivRows
      BY <1>1, <2>1, <2>2, <2>3, RacersFit DEF KeyIsRaced
    <2>4. CASE k \notin delivRows
      <3>1. In(w, Marking(k)) = 1 => c = "crashed"
        BY <1>8 DEF In
      <3> QED
        BY <1>1, <2>1, <2>2, <2>4, <3>1 DEF KeyIsRaced, In
    <2> QED
      BY <2>3, <2>4
  <1>11. \A n \in Notifs : n.user \notin enabled' => noticesSent'[n.key] = 0
    BY <1>1 DEF NoticesInv
  <1> QED
    BY <1>5, <1>6, <1>9, <1>10, <1>11 DEF NoticesInv, Notices!NotifKeys

\* A worker takes a message, or sends it, and goes on with it.
GoesOnWith(w, l) ==
  /\ stage' = [stage EXCEPT ![w] = l]
  /\ UNCHANGED <<enabled, delivRows, dlq, stats>>

LEMMA WorkerTakes ==
    ASSUME Notices!NotifAssumptions, NoticesInv, NEW w \in NotifWorkers, NEW n \in Notifs,
           Notices!Take(w, n)
    PROVE  NoticesInv'
  <1>1. /\ stage' = [stage EXCEPT ![w] = "dedup"] /\ holding' = [holding EXCEPT ![w] = <<n>>]
        /\ handedOut' = handedOut + 1 /\ stage[w] = "idle"
        /\ UNCHANGED <<enabled, delivRows, noticesSent, dlq, stats>>
    BY DEF Notices!Take
  <1>2. NoticesShape' /\ NoticesShape
    BY <1>1 DEF NoticesInv, NoticesShape
  <1>3. \A v \in NotifWorkers : Passed(v)'
    BY <1>1, <1>2 DEF NoticesInv, NoticesShape, Passed, HeldKey
  <1>4. /\ WorkerMoves(w, Notices!Busy, Notices!Busy') /\ Notices!Uncounted' = Notices!Uncounted
        /\ \A k : Sending(k)' = Sending(k) /\ Marking(k)' = Marking(k)
    BY <1>1, <1>2, OneWorkerMoves DEF NoticesShape, Sending, Marking, HeldKey, Notices!Uncounted
  <1>5. Cardinality(Notices!Busy') = Cardinality(Notices!Busy) + 1
          /\ Cardinality(Notices!Busy) \in Nat
    BY <1>1, <1>2, <1>4 DEF Notices!Busy, NoticesShape, WorkerMoves, In
  <1>6. Notices!StatsAreExact'
    <2>1. Notices!StatsAreExact /\ handedOut \in Nat /\ \A d \in Counters : stats[d] \in Nat
      BY <1>2 DEF NoticesInv, NoticesShape, Counters
    <2> QED
      BY <1>1, <1>4, <1>5, <2>1, SameSize DEF Notices!StatsAreExact, Counters
  <1>7. \A k \in Notices!NotifKeys : KeyIsRaced(k)'
    BY <1>1, <1>4 DEF NoticesInv, KeyIsRaced
  <1> QED
    BY <1>1, <1>2, <1>3, <1>6, <1>7 DEF NoticesInv, Notices!NotifKeys

LEMMA WorkerGoesToSend ==
    ASSUME Notices!NotifAssumptions, NoticesInv, NEW w \in NotifWorkers, Notices!GoSend(w)
    PROVE  NoticesInv'
  <1>1. /\ stage' = [stage EXCEPT ![w] = "send"] /\ stage[w] = "dedup"
        /\ holding[w][1].user \in enabled /\ HeldKey(w) \notin delivRows
        /\ UNCHANGED <<handedOut, holding, enabled, delivRows, noticesSent, dlq, stats>>
    BY DEF Notices!GoSend, Notices!Passes, HeldKey
  <1>2. NoticesShape' /\ NoticesShape
    BY <1>1 DEF NoticesInv, NoticesShape
  <1>3. \A v \in NotifWorkers : Passed(v)'
    BY <1>1, <1>2 DEF NoticesInv, NoticesShape, Passed, HeldKey
  <1>4. /\ Notices!Busy' = Notices!Busy /\ Notices!Uncounted' = Notices!Uncounted
        /\ \A k \in delivRows : Sending(k)' = Sending(k)
        /\ \A k : Marking(k)' = Marking(k)
    BY <1>1, <1>2 DEF NoticesShape, Sending, Marking, HeldKey, Notices!Busy, Notices!Uncounted
  <1>5. Notices!StatsAreExact'
    BY <1>1, <1>4 DEF NoticesInv, Notices!StatsAreExact
  <1>6. \A k \in Notices!NotifKeys : KeyIsRaced(k)'
    BY <1>1, <1>4 DEF NoticesInv, KeyIsRaced
  <1> QED
    BY <1>1, <1>2, <1>3, <1>5, <1>6 DEF NoticesInv, Notices!NotifKeys

LEMMA WorkerAttempts ==
    ASSUME Notices!NotifAssumptions, NoticesInv, NEW w \in NotifWorkers,
           Notices!Attempt(w, TRUE)
    PROVE  NoticesInv'
  <1> DEFINE h == HeldKey(w)
  <1>1. /\ stage' = [stage EXCEPT ![w] = "mark"] /\ stage[w] = "send"
        /\ noticesSent' = [noticesSent EXCEPT ![h] = @ + 1]
        /\ UNCHANGED <<handedOut, holding, enabled, delivRows, dlq, stats>>
    BY DEF Notices!Attempt, HeldKey
  <1>2. NoticesShape /\ Passed(w) /\ \E n \in Notifs : holding[w] = <<n>>
    BY <1>1 DEF NoticesInv, NoticesShape
  <1>3. h \in Notices!NotifKeys
    BY <1>2 DEF HeldKey, Notices!NotifKeys
  <1>4. NoticesShape'
    BY <1>1, <1>2, <1>3 DEF NoticesShape
  <1>5. /\ noticesSent[h] \in Nat /\ noticesSent'[h] = noticesSent[h] + 1
        /\ \A k \in Notices!NotifKeys \ {h} : noticesSent'[k] = noticesSent[k]
    BY <1>1, <1>2, <1>3 DEF NoticesShape
  <1>6. ASSUME NEW v \in NotifWorkers
        PROVE  Passed(v)'
    <2>1. Passed(v) /\ HeldKey(v)' = HeldKey(v) /\ holding'[v] = holding[v]
            /\ (v = w \/ stage'[v] = stage[v])
      BY <1>1, <1>2 DEF NoticesInv, NoticesShape, HeldKey
    <2>2. v # w /\ stage[v] # "idle" => HeldKey(v) \in Notices!NotifKeys
      <3>1. stage[v] # "idle" => \E n \in Notifs : holding[v] = <<n>>
        BY <1>2 DEF NoticesShape
      <3> QED
        BY <3>1 DEF HeldKey, Notices!NotifKeys
    <2> QED
      BY <1>1, <1>2, <1>5, <2>1, <2>2 DEF Passed, NoticesShape
  <1>7. /\ \A k : WorkerMoves(w, Sending(k), Sending(k)') /\ WorkerMoves(w, Marking(k), Marking(k)')
        /\ Notices!Busy' = Notices!Busy /\ Notices!Uncounted' = Notices!Uncounted
        /\ \A k : k = h => /\ w \in Sending(k) /\ w \notin Sending(k)'
                          /\ w \notin Marking(k) /\ w \in Marking(k)'
        /\ \A k : k # h => Sending(k)' = Sending(k) /\ Marking(k)' = Marking(k)
    BY <1>1, <1>2, OneWorkerMoves
    DEF NoticesShape, Sending, Marking, HeldKey, Notices!Busy, Notices!Uncounted
  <1>8. Notices!StatsAreExact'
    BY <1>1, <1>7 DEF NoticesInv, Notices!StatsAreExact
  <1>9. ASSUME NEW k \in Notices!NotifKeys
        PROVE  KeyIsRaced(k)'
    <2>1. CASE k # h
      BY <1>1, <1>5, <1>7, <2>1 DEF NoticesInv, KeyIsRaced
    <2>2. CASE k = h
      <3>1. /\ Cardinality(Sending(k)') = Cardinality(Sending(k)) - 1
            /\ Cardinality(Marking(k)') = Cardinality(Marking(k)) + 1
        BY <1>7, <2>2 DEF WorkerMoves, In
      <3>2. /\ Cardinality(Sending(k)) \in Nat /\ Cardinality(Marking(k)) \in Nat
            /\ stats["crashed"] \in Nat /\ Cardinality(NotifWorkers) \in Nat /\ KeyIsRaced(k)
        BY <1>2, RacersFit DEF NoticesInv, NoticesShape
      <3> QED
        BY <1>1, <1>5, <2>2, <3>1, <3>2 DEF KeyIsRaced
    <2> QED
      BY <2>1, <2>2
  <1>10. ASSUME NEW n \in Notifs, n.user \notin enabled'
         PROVE  noticesSent'[n.key] = 0
    <2>1. noticesSent[n.key] = 0 /\ n.key \in Notices!NotifKeys
      BY <1>1, <1>10 DEF NoticesInv, Notices!NotifKeys
    <2>2. n.key # h
      BY <1>1, <1>2, <1>10 DEF Passed, HeldKey, Notices!NotifAssumptions
    <2> QED
      BY <1>5, <2>1, <2>2
  <1> QED
    BY <1>4, <1>6, <1>8, <1>9, <1>10 DEF NoticesInv, Notices!NotifKeys

LEMMA WorkerMarks ==
    ASSUME Notices!NotifAssumptions, NoticesInv, NEW w \in NotifWorkers, Notices!MarkDelivered(w)
    PROVE  NoticesInv'
  <1> DEFINE h == HeldKey(w)
             next == IF h \in delivRows THEN "conflict" ELSE "inserted"
  <1>1. /\ stage' = [stage EXCEPT ![w] = next] /\ stage[w] = "mark"
        /\ delivRows' = delivRows \cup {h}
        /\ UNCHANGED <<handedOut, holding, enabled, noticesSent, dlq, stats>>
    BY DEF Notices!MarkDelivered, HeldKey
  <1>2. NoticesShape /\ Passed(w) /\ \E n \in Notifs : holding[w] = <<n>>
    BY <1>1 DEF NoticesInv, NoticesShape
  <1>3. h \in Notices!NotifKeys
    BY <1>2 DEF HeldKey, Notices!NotifKeys
  <1>4. NoticesShape'
    <2>1. delivRows' \in SUBSET Notices!NotifKeys /\ IsFiniteSet(delivRows')
      BY <1>1, <1>2, <1>3, FS_AddElement DEF NoticesShape
    <2> QED
      BY <1>1, <1>2, <2>1 DEF NoticesShape
  <1>5. \A v \in NotifWorkers : Passed(v)'
    BY <1>1, <1>2 DEF NoticesInv, NoticesShape, Passed, HeldKey
  <1>6. /\ WorkerMoves(w, Notices!Uncounted, Notices!Uncounted')
        /\ Notices!Busy' = Notices!Busy /\ w \notin Notices!Uncounted
        /\ w \in Notices!Uncounted' <=> h \notin delivRows
        /\ \A k : Sending(k)' = Sending(k)
        /\ \A k : k # h => Marking(k)' = Marking(k)
    BY <1>1, <1>2, OneWorkerMoves
    DEF NoticesShape, Sending, Marking, HeldKey, Notices!Busy, Notices!Uncounted
  <1>7. Notices!StatsAreExact'
    <2>1. /\ Cardinality(Notices!Uncounted') = Cardinality(Notices!Uncounted)
                                                + (IF h \in delivRows THEN 0 ELSE 1)
          /\ Cardinality(Notices!Uncounted) \in Nat
      BY <1>6 DEF WorkerMoves, In
    <2>2. /\ Cardinality(delivRows') = Cardinality(delivRows) + (IF h \in delivRows THEN 0 ELSE 1)
          /\ Cardinality(delivRows) \in Nat
      <3>1. IsFiniteSet(delivRows) /\ delivRows' = delivRows \cup {h}
        BY <1>1, <1>2 DEF NoticesShape
      <3> HIDE DEF h, next
      <3> QED
        BY <3>1, FS_AddElement, FS_CardinalityType
    <2>3. Notices!StatsAreExact /\ stats["delivered"] \in Nat /\ stats["crashed"] \in Nat
      BY <1>2 DEF NoticesInv, NoticesShape
    <2>4. /\ stats["delivered"] + Cardinality(Notices!Uncounted) <= Cardinality(delivRows)
          /\ Cardinality(delivRows)
               <= stats["delivered"] + Cardinality(Notices!Uncounted) + stats["crashed"]
      BY <2>3, SameSize DEF Notices!StatsAreExact
    <2> HIDE DEF h, next
    <2>5. /\ stats["delivered"] + Cardinality(Notices!Uncounted') <= Cardinality(delivRows')
          /\ Cardinality(delivRows')
               <= stats["delivered"] + Cardinality(Notices!Uncounted') + stats["crashed"]
      BY <2>1, <2>2, <2>3, <2>4
    <2>6. /\ Notices!Cardinality(Notices!Uncounted)' = Cardinality(Notices!Uncounted')
          /\ Notices!Cardinality(delivRows)' = Cardinality(delivRows')
          /\ Notices!Cardinality(Notices!Busy)' = Notices!Cardinality(Notices!Busy)
      BY <1>6, SameSize
    <2>7. handedOut' = handedOut /\ stats' = stats
      BY <1>1
    <2>8. handedOut = Notices!Cardinality(Notices!Busy) + stats["delivered"] + stats["deduplicated"]
                        + stats["filtered"] + stats["expired"] + stats["dlq"] + stats["crashed"]
      BY <2>3 DEF Notices!StatsAreExact
    <2> QED
      BY <2>5, <2>6, <2>7, <2>8 DEF Notices!StatsAreExact
  <1>8. ASSUME NEW k \in Notices!NotifKeys
        PROVE  KeyIsRaced(k)'
    <2>1. CASE k # h
      BY <1>1, <1>6, <2>1 DEF NoticesInv, KeyIsRaced
    <2>2. CASE k = h
      <3>1. /\ KeyIsRaced(k) /\ noticesSent[k] >= 1 /\ noticesSent[k] \in Nat /\ stats["crashed"] \in Nat
        BY <1>1, <1>2, <2>2 DEF NoticesInv, NoticesShape, Passed
      <3>2. /\ Cardinality(Sending(k)) + Cardinality(Marking(k)) <= Cardinality(NotifWorkers)
            /\ Cardinality(NotifWorkers) \in Nat
            /\ Cardinality(Sending(k)) \in Nat /\ Cardinality(Marking(k)) \in Nat
        BY RacersFit
      <3>3. noticesSent[k] + Cardinality(Sending(k)) <= Cardinality(NotifWorkers) + stats["crashed"]
        BY <3>1, <3>2 DEF KeyIsRaced
      <3> QED
        BY <1>1, <1>6, <2>2, <3>1, <3>3 DEF KeyIsRaced
    <2> QED
      BY <2>1, <2>2
  <1>9. \A n \in Notifs : n.user \notin enabled' => noticesSent'[n.key] = 0
    BY <1>1 DEF NoticesInv
  <1> QED
    BY <1>4, <1>5, <1>7, <1>8, <1>9 DEF NoticesInv, Notices!NotifKeys

LEMMA NoticesInvStep ==
    ASSUME Notices!NotifAssumptions, NoticesInv, [Notices!Next]_noticesVars
    PROVE  NoticesInv'
  <1>1. CASE UNCHANGED <<enabled, handedOut, holding, stage, delivRows, noticesSent, dlq, stats>>
    <2>1. /\ enabled' = enabled /\ handedOut' = handedOut /\ holding' = holding /\ stage' = stage
          /\ delivRows' = delivRows /\ noticesSent' = noticesSent /\ dlq' = dlq /\ stats' = stats
      BY <1>1
    <2>2. /\ \A w : HeldKey(w)' = HeldKey(w)
          /\ \A k : Sending(k)' = Sending(k) /\ Marking(k)' = Marking(k)
          /\ Notices!Busy' = Notices!Busy /\ Notices!Uncounted' = Notices!Uncounted
      BY <2>1 DEF HeldKey, Sending, Marking, Notices!Busy, Notices!Uncounted
    <2>3. NoticesShape'
      BY <2>1 DEF NoticesInv, NoticesShape
    <2>4. \A w \in NotifWorkers : Passed(w)'
      BY <2>1, <2>2 DEF NoticesInv, Passed
    <2>5. \A k \in Notices!NotifKeys : KeyIsRaced(k)'
      BY <2>1, <2>2 DEF NoticesInv, KeyIsRaced
    <2>6. Notices!StatsAreExact'
      BY <2>1, <2>2 DEF NoticesInv, Notices!StatsAreExact
    <2> QED
      BY <2>1, <2>3, <2>4, <2>5, <2>6 DEF NoticesInv
  <1>2. ASSUME NEW w \in NotifWorkers, NEW n \in Notifs, Notices!Take(w, n)
        PROVE  NoticesInv'
    BY <1>2, WorkerTakes
  <1>3. ASSUME NEW w \in NotifWorkers, Notices!GoSend(w) \/ Notices!Attempt(w, TRUE)
        PROVE  NoticesInv'
    BY <1>3, WorkerGoesToSend, WorkerAttempts
  <1>4. ASSUME NEW w \in NotifWorkers, Notices!Attempt(w, FALSE)
        PROVE  NoticesInv'
    BY <1>1, <1>4 DEF Notices!Attempt
  <1>5. ASSUME NEW w \in NotifWorkers,
               \/ Notices!DropExpired(w) \/ Notices!FilterByPreference(w)
               \/ Notices!DropDuplicate(w) \/ Notices!MarkDelivered(w) \/ Notices!CountDelivery(w)
               \/ Notices!Exhausted(w) \/ Notices!WorkerDies(w)
        PROVE  NoticesInv'
    <2>1. dlq \in SUBSET Notices!NotifKeys
      BY DEF NoticesInv, NoticesShape
    <2>2. stage[w] # "idle" => HeldKey(w) \in Notices!NotifKeys
      <3>1. stage[w] # "idle" => \E n \in Notifs : holding[w] = <<n>>
        BY DEF NoticesInv, NoticesShape
      <3> QED
        BY <3>1 DEF HeldKey, Notices!NotifKeys
    <2>3. CASE Notices!DropExpired(w)
      BY <2>1, <2>3, WorkerLeaves DEF Notices!DropExpired, LeavesAs, Counters
    <2>4. CASE Notices!FilterByPreference(w)
      BY <2>1, <2>4, WorkerLeaves DEF Notices!FilterByPreference, LeavesAs, Counters
    <2>5. CASE Notices!DropDuplicate(w)
      BY <2>1, <2>5, WorkerLeaves
      DEF Notices!DropDuplicate, Notices!Passes, LeavesAs, Counters
    <2>6. CASE Notices!CountDelivery(w)
      <3>1. \E c \in {"delivered", "deduplicated"} :
              /\ LeavesAs(w, c) /\ stage[w] # "mark"
              /\ stage[w] = "inserted" <=> c = "delivered"
        BY <2>6 DEF Notices!CountDelivery, LeavesAs
      <3>2. dlq' = dlq
        BY <2>6 DEF Notices!CountDelivery
      <3> QED
        BY <2>1, <3>1, <3>2, WorkerLeaves DEF Counters
    <2>7. CASE Notices!Exhausted(w)
      BY <2>1, <2>2, <2>7, WorkerLeaves DEF Notices!Exhausted, LeavesAs, Counters, HeldKey
    <2>8. CASE Notices!WorkerDies(w)
      BY <2>1, <2>8, WorkerLeaves DEF Notices!WorkerDies, LeavesAs, Counters
    <2> QED
      BY <1>5, <2>3, <2>4, <2>5, <2>6, <2>7, <2>8, WorkerMarks
  <1>6. CASE UNCHANGED noticesVars \/ Notices!ClockTicks \/ Notices!NothingLeft
    BY <1>1, <1>6
    DEF noticesVars, Notices!ClockTicks, Notices!NothingLeft, Notices!vars
  <1> QED
    BY <1>2, <1>3, <1>4, <1>5, <1>6 DEF Notices!Next

\* A key sent and not recorded has a worker that is about to record it, or one that died.
LEMMA NoticesInvSuffices ==
    ASSUME Notices!NotifAssumptions, NoticesInv
    PROVE  Notices!NotificationsOnce
  <1>1. ASSUME NEW n \in Notifs
        PROVE  LET k == n.key IN
               /\ k \in delivRows => noticesSent[k] >= 1
               /\ noticesSent[k] <= Cardinality(NotifWorkers) + stats["crashed"]
               /\ noticesSent[k] > 0 /\ k \notin delivRows =>
                     stats["crashed"] > 0 \/ \E w \in Notices!Busy :
                                               holding[w][1].key = k /\ stage[w] = "mark"
               /\ n.user \notin enabled => noticesSent[k] = 0
    <2> DEFINE k == n.key
    <2>1. /\ k \in Notices!NotifKeys /\ KeyIsRaced(k) /\ noticesSent[k] \in Nat
          /\ stats["crashed"] \in Nat
      BY DEF NoticesInv, NoticesShape, Notices!NotifKeys
    <2>2. Marking(k) # {} => \E w \in Notices!Busy : holding[w][1].key = k /\ stage[w] = "mark"
      BY DEF Marking, HeldKey, Notices!Busy
    <2>3. n.user \notin enabled => noticesSent[k] = 0
      BY DEF NoticesInv
    <2> HIDE DEF k
    <2>4. /\ Cardinality(Sending(k)) \in Nat /\ Cardinality(Marking(k)) \in Nat
          /\ Cardinality(Sending(k)) + Cardinality(Marking(k)) <= Cardinality(NotifWorkers)
          /\ Cardinality(NotifWorkers) \in Nat
          /\ Marking(k) = {} => Cardinality(Marking(k)) = 0
      BY RacersFit
    <2>5. /\ k \in delivRows => noticesSent[k] >= 1
          /\ noticesSent[k] <= Cardinality(NotifWorkers) + stats["crashed"]
          /\ noticesSent[k] > 0 /\ k \notin delivRows => stats["crashed"] > 0 \/ Marking(k) # {}
      BY <2>1, <2>4 DEF KeyIsRaced
    <2> QED
      BY <2>2, <2>3, <2>5 DEF k
  <1>2. Notices!ResendsAreRaces
    BY <1>1, SameSize DEF Notices!ResendsAreRaces
  <1> QED
    BY <1>2 DEF Notices!NotificationsOnce, NoticesInv

-----------------------------------------------------------------------------
(***************************************************************************)
(* The work queue.  A message has one place at a time: it waits, one       *)
(* consumer holds it, or it is acknowledged or dead-lettered.  Copies are  *)
(* numbered, so a new one is none of those already routed.                 *)
(***************************************************************************)
QueueMsgs == [n : Nat, id : MsgIds, deaths : Int]
Entries == [msg : QueueMsgs, redelivered : BOOLEAN]

MsgsOf(s) == {s[i].msg : i \in DOMAIN s}
Distinct(s) == \A i, j \in DOMAIN s : s[i].msg = s[j].msg => i = j
Waiting(q) == MsgsOf(ready[q])
Takers(q) == {c \in Work!Consumers : QueueOf[c] = q /\ unacked[c] # <<>>}
HeldIn(q) == {unacked[c][1] : c \in Takers(q)}

WorkShape ==
  /\ bound \in SUBSET Queues
  /\ published \in [Queues -> SUBSET QueueMsgs]
  /\ ready \in [Queues -> Seq(Entries)]
  /\ unacked \in [Work!Consumers -> {<<>>} \cup {<<m>> : m \in QueueMsgs}]
  /\ handled \in [Work!Consumers -> BOOLEAN]
  /\ acked \in [Queues -> SUBSET QueueMsgs] /\ deadLetters \in [Queues -> SUBSET QueueMsgs]
  /\ seenIds \in [Queues -> SUBSET MsgIds]
  /\ processed \in [Queues -> Seq(MsgIds)]

Numbered ==
  IsFiniteSet(Work!Copies) /\ \A m \in Work!Copies : m.n <= Cardinality(Work!Copies)

OnePlace(q) ==
  /\ published[q] = Waiting(q) \cup HeldIn(q) \cup acked[q] \cup deadLetters[q]
  /\ Distinct(ready[q])
  /\ \A c, d \in Takers(q) : unacked[c][1] = unacked[d][1] => c = d
  /\ Waiting(q) \cap HeldIn(q) = {} /\ acked[q] \cap deadLetters[q] = {}
  /\ (Waiting(q) \cup HeldIn(q)) \cap (acked[q] \cup deadLetters[q]) = {}

Once(q) ==
  /\ seenIds[q] = {processed[q][i] : i \in DOMAIN processed[q]}
  /\ \A i, j \in DOMAIN processed[q] : processed[q][i] = processed[q][j] => i = j
  /\ \A m \in acked[q] : m.id \in seenIds[q]

HandledIsSeen(c) ==
  handled[c] => /\ unacked[c] # <<>>
                /\ unacked[c][1].id \in seenIds[QueueOf[c]] \ PoisonIds

WorkInv ==
  /\ WorkShape /\ Numbered
  /\ \A q \in Queues : OnePlace(q) /\ Once(q)
  /\ \A c \in Work!Consumers : HandledIsSeen(c)

\* What appending, taking the head and putting back do to a queue of distinct messages.
LEMMA WaitsLast ==
    ASSUME NEW s \in Seq(Entries), NEW e \in Entries, e.msg \notin MsgsOf(s), Distinct(s)
    PROVE  MsgsOf(Append(s, e)) = MsgsOf(s) \cup {e.msg} /\ Distinct(Append(s, e))
  <1> DEFINE r == Append(s, e)
  <1>1. /\ DOMAIN s = 1..Len(s) /\ DOMAIN r = 1..(Len(s) + 1) /\ Len(s) \in Nat
        /\ r[Len(s) + 1] = e /\ \A i \in 1..Len(s) : r[i] = s[i]
    OBVIOUS
  <1> HIDE DEF r
  <1>2. DOMAIN r = DOMAIN s \cup {Len(s) + 1}
    BY <1>1
  <1>3. MsgsOf(r) = MsgsOf(s) \cup {e.msg}
    BY <1>1, <1>2 DEF MsgsOf
  <1>4. Distinct(r)
    BY <1>1, <1>2 DEF MsgsOf, Distinct
  <1> QED
    BY <1>3, <1>4 DEF r

LEMMA HeadLeaves ==
    ASSUME NEW s \in Seq(Entries), s # <<>>, Distinct(s)
    PROVE  /\ MsgsOf(Tail(s)) = MsgsOf(s) \ {Head(s).msg} /\ Distinct(Tail(s))
           /\ Head(s) \in Entries /\ Head(s).msg \in MsgsOf(s)
  <1> DEFINE r == Tail(s)
  <1>1. /\ DOMAIN s = 1..Len(s) /\ DOMAIN r = 1..(Len(s) - 1) /\ Len(s) \in Nat /\ Len(s) >= 1
        /\ Head(s) = s[1] /\ \A i \in 1..(Len(s) - 1) : r[i] = s[i + 1]
        /\ Head(s) \in Entries
    OBVIOUS
  <1> HIDE DEF r
  <1>2. \A i \in DOMAIN s : i # 1 => i - 1 \in DOMAIN r /\ r[i - 1] = s[i]
    BY <1>1
  <1>3. \A i \in DOMAIN r : i + 1 \in DOMAIN s /\ i + 1 # 1 /\ r[i] = s[i + 1] /\ i \in Int
    BY <1>1
  <1>4. 1 \in DOMAIN s
    BY <1>1
  <1>5. MsgsOf(r) = MsgsOf(s) \ {s[1].msg}
    BY <1>2, <1>3, <1>4 DEF MsgsOf, Distinct
  <1>6. ASSUME NEW i \in DOMAIN r, NEW j \in DOMAIN r, r[i].msg = r[j].msg
        PROVE  i = j
    <2>1. i + 1 = j + 1 /\ i \in Int /\ j \in Int
      BY <1>3, <1>6 DEF Distinct
    <2> QED
      BY <2>1
  <1> QED
    BY <1>1, <1>4, <1>5, <1>6 DEF r, MsgsOf, Distinct

LEMMA WaitsFirst ==
    ASSUME NEW s \in Seq(Entries), NEW e \in Entries, e.msg \notin MsgsOf(s), Distinct(s)
    PROVE  MsgsOf(<<e>> \o s) = MsgsOf(s) \cup {e.msg} /\ Distinct(<<e>> \o s)
  <1> DEFINE r == <<e>> \o s
  <1>1. /\ DOMAIN s = 1..Len(s) /\ DOMAIN r = 1..(Len(s) + 1) /\ Len(s) \in Nat
        /\ r[1] = e /\ \A i \in 1..Len(s) : r[i + 1] = s[i]
    OBVIOUS
  <1> HIDE DEF r
  <1>2. \A i \in DOMAIN r : i # 1 => i - 1 \in DOMAIN s /\ r[i] = s[i - 1] /\ i \in Int
    BY <1>1
  <1>3. \A i \in DOMAIN s : i + 1 \in DOMAIN r /\ r[i + 1] = s[i] /\ i \in Int
    BY <1>1
  <1>4. 1 \in DOMAIN r
    BY <1>1
  <1>5. MsgsOf(r) = MsgsOf(s) \cup {e.msg}
    BY <1>1, <1>2, <1>3, <1>4 DEF MsgsOf
  <1>6. \A i \in DOMAIN r : i # 1 => r[i].msg \in MsgsOf(s)
    BY <1>2 DEF MsgsOf
  <1>7. ASSUME NEW i \in DOMAIN r, NEW j \in DOMAIN r, r[i].msg = r[j].msg
        PROVE  i = j
    <2>1. CASE i = 1 \/ j = 1
      BY <1>1, <1>6, <1>7, <2>1
    <2>2. CASE i # 1 /\ j # 1
      BY <1>2, <1>7, <2>2 DEF Distinct
    <2> QED
      BY <2>1, <2>2
  <1> QED
    BY <1>5, <1>7 DEF r, Distinct

LEMMA WorkInvInit ==
    ASSUME Work!QueueAssumptions, Work!Init
    PROVE  WorkInv
  <1>1. WorkShape
    BY DEF Work!Init, WorkShape
  <1>2. Work!Copies = {}
    BY DEF Work!Init, Work!Copies
  <1>3. Numbered
    BY <1>2, FS_EmptySet DEF Numbered
  <1>4. \A q \in Queues : Waiting(q) = {} /\ HeldIn(q) = {} /\ Takers(q) = {}
    BY DEF Work!Init, Waiting, MsgsOf, HeldIn, Takers
  <1>5. \A q \in Queues : OnePlace(q) /\ Once(q)
    BY <1>4 DEF Work!Init, OnePlace, Distinct, Once
  <1>6. \A c \in Work!Consumers : HandledIsSeen(c)
    BY DEF Work!Init, HandledIsSeen
  <1> QED
    BY <1>1, <1>3, <1>5, <1>6 DEF WorkInv

\* A message that is published is new, and waits in every queue it is routed to.
LEMMA RoutingStep ==
    ASSUME Work!QueueAssumptions, WorkInv, NEW qs \in SUBSET Queues, qs # {},
           NEW id \in MsgIds, NEW deaths \in Int, Work!RouteTo(qs, Work!NewCopy(id, deaths))
    PROVE  WorkInv'
  <1> DEFINE m == [n |-> Cardinality(Work!Copies) + 1, id |-> id, deaths |-> deaths]
  <1>1. /\ m \in QueueMsgs /\ m \notin Work!Copies /\ IsFiniteSet(Work!Copies)
        /\ m.n = Cardinality(Work!Copies) + 1 /\ Cardinality(Work!Copies) \in Nat
    BY FS_CardinalityType DEF WorkInv, Numbered, QueueMsgs
  <1>2. Work!NewCopy(id, deaths) = m
    BY SameSize DEF Work!NewCopy
  <1> HIDE DEF m
  <1>3. /\ published' = [q \in Queues |-> IF q \in qs THEN published[q] \cup {m} ELSE published[q]]
        /\ ready' = [q \in Queues |->
                       IF q \in qs THEN Append(ready[q], [msg |-> m, redelivered |-> FALSE])
                                   ELSE ready[q]]
        /\ UNCHANGED <<bound, unacked, handled, acked, deadLetters, seenIds, processed>>
    BY <1>2 DEF Work!RouteTo
  <1>4. WorkShape'
    <2>1. [msg |-> m, redelivered |-> FALSE] \in Entries
      BY <1>1 DEF Entries
    <2>2. ready' \in [Queues -> Seq(Entries)]
      BY <1>3, <2>1 DEF WorkInv, WorkShape
    <2>3. published' \in [Queues -> SUBSET QueueMsgs]
      BY <1>1, <1>3 DEF WorkInv, WorkShape
    <2> QED
      BY <1>3, <2>2, <2>3 DEF WorkInv, WorkShape
  <1>5. Work!Copies' = Work!Copies \cup {m}
    BY <1>3 DEF Work!Copies
  <1>6. Numbered'
    <2>1. /\ IsFiniteSet(Work!Copies \cup {m})
          /\ Cardinality(Work!Copies \cup {m}) = Cardinality(Work!Copies) + 1
      BY <1>1, FS_AddElement
    <2>2. \A q \in Queues : published[q] \in SUBSET QueueMsgs
      BY DEF WorkInv, WorkShape
    <2>3. \A o \in Work!Copies : o.n <= Cardinality(Work!Copies) /\ o.n \in Nat
      BY <2>2 DEF WorkInv, Numbered, Work!Copies, QueueMsgs
    <2>4. \A o \in Work!Copies \cup {m} : o.n <= Cardinality(Work!Copies) + 1
      BY <1>1, <2>3
    <2> QED
      BY <1>5, <2>1, <2>4 DEF Numbered
  <1>7. ASSUME NEW q \in Queues
        PROVE  OnePlace(q)'
    <2>1. Takers(q)' = Takers(q) /\ HeldIn(q)' = HeldIn(q)
      BY <1>3 DEF Takers, HeldIn
    <2>2. OnePlace(q) /\ ready[q] \in Seq(Entries) /\ m \notin published[q]
      BY <1>1 DEF WorkInv, WorkShape, Work!Copies
    <2>3. CASE q \in qs
      <3>1. ready'[q] = Append(ready[q], [msg |-> m, redelivered |-> FALSE])
        BY <1>3, <2>3
      <3>2. [msg |-> m, redelivered |-> FALSE] \in Entries /\ m \notin MsgsOf(ready[q])
        BY <1>1, <2>2 DEF Entries, OnePlace, Waiting
      <3>3. published'[q] = published[q] \cup {m}
        BY <1>3, <2>3
      <3>4. Waiting(q)' = Waiting(q) \cup {m} /\ Distinct(ready[q])'
        BY <2>2, <3>1, <3>2, WaitsLast DEF Waiting, OnePlace
      <3> QED
        BY <1>3, <2>1, <2>2, <3>3, <3>4 DEF OnePlace
    <2>4. CASE q \notin qs
      BY <1>3, <2>1, <2>2, <2>4 DEF OnePlace, Waiting
    <2> QED
      BY <2>3, <2>4
  <1>8. \A q \in Queues : Once(q)'
    BY <1>3 DEF WorkInv, Once
  <1>9. \A c \in Work!Consumers : HandledIsSeen(c)'
    BY <1>3 DEF WorkInv, HandledIsSeen
  <1> QED
    BY <1>4, <1>6, <1>7, <1>8, <1>9 DEF WorkInv, Work!Consumers

\* The queues that consumer c does not consume from.
LEMMA OtherQueues ==
    ASSUME Work!QueueAssumptions, WorkInv, NEW c \in Work!Consumers,
           NEW q \in Queues, q # QueueOf[c],
           \A d \in Work!Consumers \ {c} : unacked'[d] = unacked[d],
           published'[q] = published[q], ready'[q] = ready[q], acked'[q] = acked[q],
           deadLetters'[q] = deadLetters[q]
    PROVE  OnePlace(q)'
  <1>1. Takers(q)' = Takers(q) /\ \A d \in Takers(q) : unacked'[d] = unacked[d]
    BY DEF Takers
  <1>2. HeldIn(q)' = HeldIn(q)
    BY <1>1 DEF HeldIn
  <1> QED
    BY <1>1, <1>2 DEF WorkInv, OnePlace, Waiting

\* What consumer c holds it alone holds; and when it lets go, it holds nothing.
LEMMA LetsGo ==
    ASSUME Work!QueueAssumptions, WorkInv, NEW c \in Work!Consumers, unacked[c] # <<>>,
           unacked' = [unacked EXCEPT ![c] = <<>>]
    PROVE  LET q == QueueOf[c] IN
           /\ q \in Queues /\ unacked[c][1] \in QueueMsgs
           /\ unacked[c][1] \in HeldIn(q) /\ unacked[c][1] \in published[q]
           /\ HeldIn(q)' = HeldIn(q) \ {unacked[c][1]}
           /\ \A d, e \in Takers(q)' : unacked'[d][1] = unacked'[e][1] => d = e
  <1> DEFINE q == QueueOf[c]
  <1>1. /\ q \in Queues /\ OnePlace(q) /\ c \in Takers(q)
        /\ unacked \in [Work!Consumers -> {<<>>} \cup {<<m>> : m \in QueueMsgs}]
    BY DEF WorkInv, WorkShape, Work!QueueAssumptions, Takers
  <1>2. Takers(q)' = Takers(q) \ {c} /\ \A d \in Takers(q) \ {c} : unacked'[d] = unacked[d]
    BY <1>1 DEF Takers
  <1>3. \A d, e \in Takers(q) : unacked[d][1] = unacked[e][1] => d = e
    BY <1>1 DEF OnePlace
  <1>4. HeldIn(q)' = HeldIn(q) \ {unacked[c][1]}
    BY <1>1, <1>2, <1>3 DEF HeldIn
  <1>5. unacked[c][1] \in QueueMsgs
    BY <1>1
  <1>6. unacked[c][1] \in HeldIn(q) /\ HeldIn(q) \subseteq published[q]
    BY <1>1 DEF HeldIn, OnePlace
  <1> QED
    BY <1>1, <1>2, <1>3, <1>4, <1>5, <1>6

LEMMA DeliverStep ==
    ASSUME Work!QueueAssumptions, WorkInv, NEW c \in Work!Consumers, Work!Deliver(c)
    PROVE  WorkInv'
  <1> DEFINE q == QueueOf[c]
             m == Head(ready[q]).msg
  <1>1. /\ unacked[c] = <<>> /\ ready[q] # <<>>
        /\ unacked' = [unacked EXCEPT ![c] = <<m>>]
        /\ ready' = [ready EXCEPT ![q] = Tail(@)]
        /\ UNCHANGED <<bound, published, handled, acked, deadLetters, seenIds, processed>>
    BY DEF Work!Deliver
  <1>2. /\ q \in Queues /\ OnePlace(q) /\ WorkShape /\ ready[q] \in Seq(Entries)
        /\ HandledIsSeen(c)
    BY DEF WorkInv, WorkShape, Work!QueueAssumptions
  <1>3. /\ MsgsOf(Tail(ready[q])) = Waiting(q) \ {m} /\ Distinct(Tail(ready[q]))
        /\ m \in Waiting(q) /\ Head(ready[q]) \in Entries
    BY <1>1, <1>2, HeadLeaves DEF OnePlace, Waiting
  <1>4. m \in QueueMsgs /\ ~handled[c]
    BY <1>1, <1>2, <1>3 DEF Entries, HandledIsSeen
  <1> HIDE DEF q
  <1>5. /\ ready' \in [Queues -> Seq(Entries)] /\ ready'[q] = Tail(ready[q])
        /\ \A p \in Queues \ {q} : ready'[p] = ready[p]
    <2>1. Tail(ready[q]) \in Seq(Entries)
      BY <1>1, <1>2
    <2> QED
      BY <1>1, <1>2, <2>1 DEF WorkShape
  <1> HIDE DEF m
  <1>6. /\ unacked' \in [Work!Consumers -> {<<>>} \cup {<<n>> : n \in QueueMsgs}]
        /\ unacked'[c] = <<m>> /\ \A d \in Work!Consumers \ {c} : unacked'[d] = unacked[d]
    BY <1>1, <1>2, <1>4 DEF WorkShape
  <1>7. WorkShape'
    BY <1>1, <1>2, <1>5, <1>6 DEF WorkShape
  <1>8. Numbered'
    BY <1>1 DEF WorkInv, Numbered, Work!Copies
  <1>9. OnePlace(q)'
    <2>1. Takers(q)' = Takers(q) \cup {c} /\ c \notin Takers(q)
      BY <1>1, <1>6 DEF Takers, q
    <2>2. \A d \in Takers(q) : unacked'[d] = unacked[d]
      BY <1>6, <2>1 DEF Takers
    <2>3. HeldIn(q)' = HeldIn(q) \cup {m}
      BY <1>6, <2>1, <2>2 DEF HeldIn
    <2>4. Waiting(q)' = Waiting(q) \ {m} /\ Distinct(ready[q])'
      BY <1>3, <1>5 DEF Waiting
    <2>5. \A d, e \in Takers(q)' : unacked'[d][1] = unacked'[e][1] => d = e
      <3>1. m \notin HeldIn(q)
        BY <1>2, <1>3 DEF OnePlace
      <3>2. \A d \in Takers(q) : unacked'[d][1] # m
        BY <2>2, <3>1 DEF HeldIn
      <3> QED
        BY <1>2, <1>6, <2>1, <2>2, <3>2 DEF OnePlace
    <2> QED
      BY <1>1, <1>2, <1>3, <2>3, <2>4, <2>5 DEF OnePlace
  <1>10. ASSUME NEW p \in Queues
         PROVE  OnePlace(p)' /\ Once(p)'
    <2>1. Once(p)'
      BY <1>1 DEF WorkInv, Once
    <2>2. CASE p # q
      BY <1>1, <1>5, <1>6, <2>1, <2>2, OtherQueues DEF q
    <2> QED
      BY <1>9, <2>1, <2>2
  <1>11. \A d \in Work!Consumers : HandledIsSeen(d)'
    BY <1>1, <1>4, <1>6 DEF WorkInv, HandledIsSeen
  <1> QED
    BY <1>7, <1>8, <1>10, <1>11 DEF WorkInv, Work!Consumers

\* A callback runs: its id is seen now, and in the list of its queue once.
LEMMA HandledOnce ==
    ASSUME Work!QueueAssumptions, WorkInv, NEW c \in Work!Consumers, unacked[c] # <<>>,
           unacked[c][1].id \notin PoisonIds,
           unacked[c][1].id \in seenIds'[QueueOf[c]],
           seenIds' \in [Queues -> SUBSET MsgIds], processed' \in [Queues -> Seq(MsgIds)],
           \A p \in Queues : \/ seenIds'[p] = seenIds[p] /\ processed'[p] = processed[p]
                             \/ /\ seenIds[p] \subseteq seenIds'[p]
                                /\ seenIds'[p] = {processed'[p][i] : i \in DOMAIN processed'[p]}
                                /\ \A i, j \in DOMAIN processed'[p] :
                                      processed'[p][i] = processed'[p][j] => i = j,
           handled' = [handled EXCEPT ![c] = TRUE],
           UNCHANGED <<bound, published, ready, unacked, acked, deadLetters>>
    PROVE  WorkInv'
  <1>1. WorkShape'
    BY DEF WorkInv, WorkShape
  <1>2. Numbered'
    <2>1. Work!Copies' = Work!Copies
      BY DEF Work!Copies
    <2> QED
      BY <2>1 DEF WorkInv, Numbered
  <1>3. ASSUME NEW p \in Queues
        PROVE  OnePlace(p)'
    <2>1. Takers(p)' = Takers(p) /\ HeldIn(p)' = HeldIn(p) /\ Waiting(p)' = Waiting(p)
      BY DEF Waiting, HeldIn, Takers
    <2>2. OnePlace(p) /\ UNCHANGED <<published, ready, unacked, acked, deadLetters>>
      BY DEF WorkInv
    <2> QED
      BY <2>1, <2>2 DEF OnePlace
  <1>4. \A p \in Queues : seenIds[p] \subseteq seenIds'[p]
    OBVIOUS
  <1>5. ASSUME NEW p \in Queues
        PROVE  Once(p)'
    <2>1. Once(p) /\ acked' = acked
      BY DEF WorkInv
    <2>2. CASE seenIds'[p] = seenIds[p] /\ processed'[p] = processed[p]
      BY <2>1, <2>2 DEF Once
    <2>3. CASE /\ seenIds'[p] = {processed'[p][i] : i \in DOMAIN processed'[p]}
               /\ \A i, j \in DOMAIN processed'[p] : processed'[p][i] = processed'[p][j] => i = j
      BY <1>4, <2>1, <2>3 DEF Once
    <2> QED
      BY <2>2, <2>3
  <1>6. ASSUME NEW d \in Work!Consumers
        PROVE  HandledIsSeen(d)'
    <2>1. QueueOf[d] \in Queues /\ HandledIsSeen(d)
      BY DEF WorkInv, Work!QueueAssumptions
    <2>2. d # c => handled'[d] = handled[d]
      BY DEF WorkInv, WorkShape
    <2> QED
      BY <1>4, <2>1, <2>2 DEF HandledIsSeen
  <1> QED
    BY <1>1, <1>2, <1>3, <1>5, <1>6 DEF WorkInv, Work!Consumers

LEMMA HandleStep ==
    ASSUME Work!QueueAssumptions, WorkInv, NEW c \in Work!Consumers, Work!Handle(c)
    PROVE  WorkInv'
  <1> DEFINE q == QueueOf[c]
             id == unacked[c][1].id
  <1>1. /\ unacked[c] # <<>> /\ ~handled[c] /\ id \notin PoisonIds
        /\ IF id \in seenIds[q] THEN UNCHANGED <<seenIds, processed>>
           ELSE /\ seenIds' = [seenIds EXCEPT ![q] = @ \cup {id}]
                /\ processed' = [processed EXCEPT ![q] = Append(@, id)]
        /\ handled' = [handled EXCEPT ![c] = TRUE]
        /\ UNCHANGED <<bound, published, ready, unacked, acked, deadLetters>>
    BY DEF Work!Handle
  <1>2. q \in Queues /\ Once(q) /\ WorkShape /\ id \in MsgIds
    <2>1. q \in Queues /\ Once(q) /\ WorkShape
      BY DEF WorkInv, Work!QueueAssumptions
    <2>2. unacked[c][1] \in QueueMsgs
      BY <1>1, <2>1 DEF WorkShape
    <2> QED
      BY <2>1, <2>2 DEF QueueMsgs
  <1> HIDE DEF q, id
  <1>3. /\ seenIds \in [Queues -> SUBSET MsgIds] /\ processed \in [Queues -> Seq(MsgIds)]
        /\ Append(processed[q], id) \in Seq(MsgIds)
    BY <1>2 DEF WorkShape
  <1>4. CASE id \in seenIds[q]
    <2>1. seenIds' = seenIds /\ processed' = processed
      BY <1>1, <1>4
    <2> QED
      BY <1>1, <1>3, <1>4, <2>1, HandledOnce DEF q, id
  <1>5. CASE id \notin seenIds[q]
    <2>1. /\ seenIds' = [seenIds EXCEPT ![q] = @ \cup {id}]
          /\ processed' = [processed EXCEPT ![q] = Append(@, id)]
      BY <1>1, <1>5
    <2>2. /\ seenIds'[q] = seenIds[q] \cup {id} /\ processed'[q] = Append(processed[q], id)
          /\ \A p \in Queues \ {q} : seenIds'[p] = seenIds[p] /\ processed'[p] = processed[p]
          /\ seenIds' \in [Queues -> SUBSET MsgIds] /\ processed' \in [Queues -> Seq(MsgIds)]
      BY <1>2, <1>3, <2>1
    <2> DEFINE s == processed[q]
               r == processed'[q]
    <2>3. /\ DOMAIN s = 1..Len(s) /\ DOMAIN r = 1..(Len(s) + 1) /\ Len(s) \in Nat
          /\ r[Len(s) + 1] = id /\ \A i \in 1..Len(s) : r[i] = s[i]
      BY <1>2, <1>3, <2>2
    <2>4. /\ seenIds[q] = {s[i] : i \in DOMAIN s}
          /\ \A i, j \in DOMAIN s : s[i] = s[j] => i = j
      BY <1>2 DEF Once
    <2> HIDE DEF s, r
    <2>5. DOMAIN r = DOMAIN s \cup {Len(s) + 1}
      BY <2>3
    <2>6. seenIds'[q] = {r[i] : i \in DOMAIN r}
      <3>1. {r[i] : i \in DOMAIN r} = {s[i] : i \in DOMAIN s} \cup {id}
        BY <2>3, <2>5
      <3> QED
        BY <2>2, <2>4, <3>1
    <2>7. \A i, j \in DOMAIN r : r[i] = r[j] => i = j
      BY <1>5, <2>3, <2>4, <2>5
    <2>8. ASSUME NEW p \in Queues
          PROVE
            \/ seenIds'[p] = seenIds[p] /\ processed'[p] = processed[p]
            \/ /\ seenIds[p] \subseteq seenIds'[p]
               /\ seenIds'[p] = {processed'[p][i] : i \in DOMAIN processed'[p]}
               /\ \A i, j \in DOMAIN processed'[p] : processed'[p][i] = processed'[p][j] => i = j
      <3>1. CASE p # q
        BY <2>2, <3>1
      <3>2. CASE p = q
        BY <2>2, <2>6, <2>7, <3>2 DEF r
      <3> QED
        BY <3>1, <3>2
    <2>9. id \in seenIds'[q]
      BY <2>2
    <2> QED
      BY <1>1, <2>2, <2>8, <2>9, HandledOnce DEF q, id
  <1> QED
    BY <1>4, <1>5

LEMMA AckStep ==
    ASSUME Work!QueueAssumptions, WorkInv, NEW c \in Work!Consumers, Work!Ack(c)
    PROVE  WorkInv'
  <1> DEFINE q == QueueOf[c]
             m == unacked[c][1]
  <1>1. /\ handled[c] /\ acked' = [acked EXCEPT ![q] = @ \cup {m}]
        /\ unacked' = [unacked EXCEPT ![c] = <<>>]
        /\ handled' = [handled EXCEPT ![c] = FALSE]
        /\ UNCHANGED <<bound, published, ready, deadLetters, seenIds, processed>>
    BY DEF Work!Ack
  <1>2. unacked[c] # <<>> /\ m.id \in seenIds[q] /\ WorkShape
    BY <1>1 DEF WorkInv, HandledIsSeen
  <1>3. /\ q \in Queues /\ m \in QueueMsgs /\ m \in HeldIn(q) /\ m \in published[q]
        /\ HeldIn(q)' = HeldIn(q) \ {m}
        /\ \A d, e \in Takers(q)' : unacked'[d][1] = unacked'[e][1] => d = e
    BY <1>1, <1>2, LetsGo
  <1> HIDE DEF m, q
  <1>4. /\ acked' \in [Queues -> SUBSET QueueMsgs] /\ acked'[q] = acked[q] \cup {m}
        /\ \A p \in Queues \ {q} : acked'[p] = acked[p]
        /\ unacked' \in [Work!Consumers -> {<<>>} \cup {<<n>> : n \in QueueMsgs}]
        /\ \A d \in Work!Consumers \ {c} : unacked'[d] = unacked[d] /\ handled'[d] = handled[d]
        /\ handled' \in [Work!Consumers -> BOOLEAN] /\ ~handled'[c]
    BY <1>1, <1>2, <1>3 DEF WorkShape
  <1>5. WorkShape'
    BY <1>1, <1>2, <1>4 DEF WorkShape
  <1>6. Numbered'
    BY <1>1 DEF WorkInv, Numbered, Work!Copies
  <1>7. OnePlace(q)'
    <2>1. Waiting(q)' = Waiting(q) /\ Distinct(ready[q])' /\ OnePlace(q)
      BY <1>1, <1>3 DEF WorkInv, OnePlace, Waiting
    <2> QED
      BY <1>1, <1>3, <1>4, <2>1 DEF OnePlace
  <1>8. ASSUME NEW p \in Queues
        PROVE  OnePlace(p)' /\ Once(p)'
    <2>1. Once(p)'
      BY <1>1, <1>2, <1>4 DEF WorkInv, Once
    <2>2. CASE p # q
      BY <1>1, <1>4, <2>1, <2>2, OtherQueues DEF q
    <2> QED
      BY <1>7, <2>1, <2>2
  <1>9. \A d \in Work!Consumers : HandledIsSeen(d)'
    BY <1>1, <1>4 DEF WorkInv, HandledIsSeen
  <1> QED
    BY <1>5, <1>6, <1>8, <1>9 DEF WorkInv, Work!Consumers

\* A crash of the consumer, or a nack with requeue.
LEMMA RequeueStep ==
    ASSUME Work!QueueAssumptions, WorkInv, NEW c \in Work!Consumers, unacked[c] # <<>>,
           Work!Requeue(QueueOf[c], unacked[c][1]),
           unacked' = [unacked EXCEPT ![c] = <<>>],
           \/ handled' = handled /\ ~handled[c]
           \/ handled' = [handled EXCEPT ![c] = FALSE],
           UNCHANGED <<bound, published, acked, deadLetters, seenIds, processed>>
    PROVE  WorkInv'
  <1> DEFINE q == QueueOf[c]
             m == unacked[c][1]
             e == [msg |-> m, redelivered |-> TRUE]
  <1>1. ready' = [ready EXCEPT ![q] = <<e>> \o @]
    BY DEF Work!Requeue
  <1>2. /\ q \in Queues /\ m \in QueueMsgs /\ m \in HeldIn(q) /\ m \in published[q]
        /\ HeldIn(q)' = HeldIn(q) \ {m}
        /\ \A d, f \in Takers(q)' : unacked'[d][1] = unacked'[f][1] => d = f
    BY LetsGo
  <1>3. WorkShape /\ OnePlace(q) /\ ready[q] \in Seq(Entries)
    BY <1>2 DEF WorkInv, WorkShape
  <1> HIDE DEF m, q
  <1>4. e \in Entries /\ e.msg = m
    BY <1>2 DEF Entries
  <1> HIDE DEF e
  <1>5. <<e>> \o ready[q] \in Seq(Entries)
    BY <1>3, <1>4
  <1>6. /\ ready' \in [Queues -> Seq(Entries)] /\ ready'[q] = <<e>> \o ready[q]
        /\ \A p \in Queues \ {q} : ready'[p] = ready[p]
    BY <1>1, <1>2, <1>3, <1>5 DEF WorkShape
  <1>7. /\ unacked' \in [Work!Consumers -> {<<>>} \cup {<<n>> : n \in QueueMsgs}]
        /\ \A d \in Work!Consumers \ {c} : unacked'[d] = unacked[d] /\ handled'[d] = handled[d]
        /\ handled' \in [Work!Consumers -> BOOLEAN] /\ ~handled'[c]
    BY <1>3 DEF WorkShape
  <1>8. WorkShape'
    BY <1>3, <1>6, <1>7 DEF WorkShape
  <1>9. Numbered'
    <2>1. Work!Copies' = Work!Copies
      BY DEF Work!Copies
    <2> QED
      BY <2>1 DEF WorkInv, Numbered
  <1>10. OnePlace(q)'
    <2>1. m \notin MsgsOf(ready[q]) /\ Distinct(ready[q])
      BY <1>2, <1>3 DEF OnePlace, Waiting
    <2>2. Waiting(q)' = Waiting(q) \cup {m} /\ Distinct(ready[q])'
      BY <1>3, <1>4, <1>6, <2>1, WaitsFirst DEF Waiting
    <2>3. published'[q] = published[q] /\ acked'[q] = acked[q] /\ deadLetters'[q] = deadLetters[q]
      OBVIOUS
    <2> QED
      BY <1>2, <1>3, <2>1, <2>2, <2>3 DEF OnePlace
  <1>11. ASSUME NEW p \in Queues
         PROVE  OnePlace(p)' /\ Once(p)'
    <2>1. Once(p)'
      BY DEF WorkInv, Once
    <2>2. CASE p # q
      BY <1>6, <1>7, <2>1, <2>2, OtherQueues DEF q
    <2> QED
      BY <1>10, <2>1, <2>2
  <1>12. \A d \in Work!Consumers : HandledIsSeen(d)'
    <2>1. seenIds' = seenIds
      OBVIOUS
    <2> QED
      BY <1>7, <2>1 DEF WorkInv, HandledIsSeen
  <1> QED
    BY <1>8, <1>9, <1>11, <1>12 DEF WorkInv, Work!Consumers

LEMMA DeadLetterStep ==
    ASSUME Work!QueueAssumptions, WorkInv, NEW c \in Work!Consumers, Work!NackDeadLetter(c)
    PROVE  WorkInv'
  <1> DEFINE q == QueueOf[c]
             m == unacked[c][1]
  <1>1. /\ unacked[c] # <<>> /\ m.id \in PoisonIds
        /\ deadLetters' = [deadLetters EXCEPT ![q] = @ \cup {m}]
        /\ unacked' = [unacked EXCEPT ![c] = <<>>]
        /\ UNCHANGED <<bound, published, ready, handled, acked, seenIds, processed>>
    BY DEF Work!NackDeadLetter
  <1>2. ~handled[c] /\ WorkShape
    BY <1>1 DEF WorkInv, HandledIsSeen
  <1>3. /\ q \in Queues /\ m \in QueueMsgs /\ m \in HeldIn(q) /\ m \in published[q]
        /\ HeldIn(q)' = HeldIn(q) \ {m}
        /\ \A d, e \in Takers(q)' : unacked'[d][1] = unacked'[e][1] => d = e
    BY <1>1, <1>2, LetsGo
  <1> HIDE DEF m, q
  <1>4. /\ deadLetters' \in [Queues -> SUBSET QueueMsgs]
        /\ deadLetters'[q] = deadLetters[q] \cup {m}
        /\ \A p \in Queues \ {q} : deadLetters'[p] = deadLetters[p]
        /\ unacked' \in [Work!Consumers -> {<<>>} \cup {<<n>> : n \in QueueMsgs}]
        /\ \A d \in Work!Consumers \ {c} : unacked'[d] = unacked[d]
    BY <1>1, <1>2, <1>3 DEF WorkShape
  <1>5. WorkShape'
    BY <1>1, <1>2, <1>4 DEF WorkShape
  <1>6. Numbered'
    BY <1>1 DEF WorkInv, Numbered, Work!Copies
  <1>7. OnePlace(q)'
    <2>1. Waiting(q)' = Waiting(q) /\ Distinct(ready[q])' /\ OnePlace(q)
      BY <1>1, <1>3 DEF WorkInv, OnePlace, Waiting
    <2> QED
      BY <1>1, <1>3, <1>4, <2>1 DEF OnePlace
  <1>8. ASSUME NEW p \in Queues
        PROVE  OnePlace(p)' /\ Once(p)'
    <2>1. Once(p)'
      BY <1>1 DEF WorkInv, Once
    <2>2. CASE p # q
      BY <1>1, <1>4, <2>1, <2>2, OtherQueues DEF q
    <2> QED
      BY <1>7, <2>1, <2>2
  <1>9. \A d \in Work!Consumers : HandledIsSeen(d)'
    BY <1>1, <1>2, <1>4 DEF WorkInv, HandledIsSeen
  <1> QED
    BY <1>5, <1>6, <1>8, <1>9 DEF WorkInv, Work!Consumers

LEMMA WorkInvStep ==
    ASSUME Work!QueueAssumptions, WorkInv, [Work!Next]_workVars
    PROVE  WorkInv'
  <1>1. ASSUME bound' \in SUBSET Queues,
               UNCHANGED <<published, ready, unacked, handled, acked, deadLetters, seenIds,
                           processed>>
        PROVE  WorkInv'
    <2>1. WorkShape'
      BY <1>1 DEF WorkInv, WorkShape
    <2>2. Work!Copies' = Work!Copies
      BY <1>1 DEF Work!Copies
    <2>3. Numbered'
      BY <2>2 DEF WorkInv, Numbered
    <2>4. ASSUME NEW q \in Queues
          PROVE  OnePlace(q)' /\ Once(q)'
      <3>1. Waiting(q)' = Waiting(q) /\ HeldIn(q)' = HeldIn(q) /\ Takers(q)' = Takers(q)
        BY <1>1 DEF Waiting, HeldIn, Takers
      <3> QED
        BY <1>1, <3>1 DEF WorkInv, OnePlace, Once
    <2>5. \A c \in Work!Consumers : HandledIsSeen(c)'
      BY <1>1 DEF WorkInv, HandledIsSeen
    <2> QED
      BY <2>1, <2>3, <2>4, <2>5 DEF WorkInv, Work!Consumers
  <1>2. CASE UNCHANGED workVars \/ Work!Drained
    <2>1. bound' = bound /\ UNCHANGED <<published, ready, unacked, handled, acked, deadLetters,
                                        seenIds, processed>>
      BY <1>2 DEF workVars, Work!Drained, Work!vars
    <2>2. bound \in SUBSET Queues
      BY DEF WorkInv, WorkShape
    <2> QED
      BY <1>1, <2>1, <2>2
  <1>3. ASSUME NEW q \in Queues, Work!Bind(q)
        PROVE  WorkInv'
    <2>1. bound \in SUBSET Queues
      BY DEF WorkInv, WorkShape
    <2> QED
      BY <1>1, <1>3, <2>1 DEF Work!Bind
  <1>4. ASSUME NEW id \in MsgIds \ PoisonIds, Work!PublishEvent(id)
        PROVE  WorkInv'
    <2>1. bound \in SUBSET Queues /\ bound # {} /\ Work!RouteTo(bound, Work!NewCopy(id, 0))
      BY <1>4 DEF Work!PublishEvent, WorkInv, WorkShape
    <2> QED
      BY <2>1, RoutingStep
  <1>5. ASSUME NEW q \in Queues, NEW id \in MsgIds, Work!Publish(q, id)
        PROVE  WorkInv'
    <2>1. PICK deaths \in Int : Work!RouteTo({q}, Work!NewCopy(id, deaths))
      BY <1>5 DEF Work!Publish, Work!QueueAssumptions
    <2> QED
      BY <2>1, RoutingStep
  <1>6. ASSUME NEW c \in Work!Consumers, Work!NackRequeue(c)
        PROVE  WorkInv'
    <2>1. ~handled[c]
      BY <1>6 DEF Work!NackRequeue, WorkInv, HandledIsSeen
    <2> QED
      BY <1>6, <2>1, RequeueStep DEF Work!NackRequeue
  <1>7. ASSUME NEW c \in Work!Consumers, Work!Crash(c)
        PROVE  WorkInv'
    BY <1>7, RequeueStep DEF Work!Crash
  <1>8. ASSUME NEW c \in Work!Consumers,
               Work!Deliver(c) \/ Work!Handle(c) \/ Work!Ack(c) \/ Work!NackDeadLetter(c)
        PROVE  WorkInv'
    BY <1>8, DeliverStep, HandleStep, AckStep, DeadLetterStep
  <1> QED
    BY <1>2, <1>3, <1>4, <1>5, <1>6, <1>7, <1>8 DEF Work!Next, Work!ConsumerStep

LEMMA CountingTakers ==
    ASSUME NEW q \in Queues, IsFiniteSet(Takers(q)), OnePlace(q)
    PROVE  IsFiniteSet(HeldIn(q)) /\ Cardinality(HeldIn(q)) = Cardinality(Takers(q))
  <1> DEFINE g == [c \in Takers(q) |-> unacked[c][1]]
  <1>1. g \in [Takers(q) -> HeldIn(q)]
    BY DEF HeldIn
  <1>2. \A c, d \in Takers(q) : g[c] = g[d] => c = d
    BY DEF OnePlace
  <1>3. \A x \in HeldIn(q) : \E c \in Takers(q) : g[c] = x
    BY DEF HeldIn
  <1> HIDE DEF g
  <1>4. ExistsBijection(Takers(q), HeldIn(q))
    BY <1>1, <1>2, <1>3 DEF ExistsBijection, Bijection, Injection, Surjection, IsInjective
  <1> QED
    BY <1>4, FS_Bijection

LEMMA WorkInvSuffices ==
    ASSUME Work!QueueAssumptions, WorkInv
    PROVE  Work!DeliveredAndOnce
  <1>1. ASSUME NEW q \in Queues
        PROVE  /\ published[q] = Waiting(q) \cup HeldIn(q) \cup acked[q] \cup deadLetters[q]
               /\ Cardinality(published[q]) = Len(ready[q]) + Cardinality(Takers(q))
                    + Cardinality(acked[q]) + Cardinality(deadLetters[q])
    <2>1. OnePlace(q) /\ ready[q] \in Seq(Entries)
      BY DEF WorkInv, WorkShape
    <2>2. published[q] \in SUBSET Work!Copies /\ IsFiniteSet(Work!Copies)
      BY DEF Work!Copies, WorkInv, Numbered
    <2>3. \A T \in SUBSET published[q] : IsFiniteSet(T)
      BY <2>2, FS_Subset
    <2>4. Cardinality(Waiting(q)) = Len(ready[q])
      <3> DEFINE f == [i \in 1..Len(ready[q]) |-> ready[q][i].msg]
      <3>1. DOMAIN ready[q] = 1..Len(ready[q]) /\ Len(ready[q]) \in Nat
        BY <2>1
      <3>2. \A i, j \in 1..Len(ready[q]) : f[i] = f[j] => i = j
        BY <2>1, <3>1 DEF OnePlace, Distinct
      <3>3. /\ \A i \in 1..Len(ready[q]) : f[i] \in Waiting(q)
            /\ \A x \in Waiting(q) : \E i \in 1..Len(ready[q]) : f[i] = x
        BY <3>1 DEF Waiting, MsgsOf
      <3> HIDE DEF f
      <3> QED
        BY <3>1, <3>2, <3>3, CountingPlaces
    <2>5. IsFiniteSet(Takers(q))
      <3>1. Takers(q) \in SUBSET Work!Consumers /\ IsFiniteSet(Work!Consumers)
        BY DEF Takers, Work!QueueAssumptions, Work!IsFiniteSet, IsFiniteSet
      <3> QED
        BY <3>1, FS_Subset
    <2>6. Cardinality(HeldIn(q)) = Cardinality(Takers(q))
      BY <2>1, <2>5, CountingTakers
    <2> DEFINE A == Waiting(q)
               B == HeldIn(q)
               C == acked[q]
               D == deadLetters[q]
    <2>7. IsFiniteSet(A) /\ IsFiniteSet(B) /\ IsFiniteSet(C) /\ IsFiniteSet(D)
      BY <2>1, <2>3 DEF OnePlace
    <2>8. A \cap B = {} /\ C \cap D = {} /\ (A \cup B) \cap (C \cup D) = {}
            /\ published[q] = (A \cup B) \cup (C \cup D)
      BY <2>1 DEF OnePlace
    <2> HIDE DEF A, B, C, D
    <2>9. /\ IsFiniteSet(A \cup B) /\ Cardinality(A \cup B) = Cardinality(A) + Cardinality(B)
          /\ IsFiniteSet(C \cup D) /\ Cardinality(C \cup D) = Cardinality(C) + Cardinality(D)
          /\ Cardinality(A) \in Nat /\ Cardinality(B) \in Nat
          /\ Cardinality(C) \in Nat /\ Cardinality(D) \in Nat
      BY <2>7, <2>8, CountingApart
    <2>10. Cardinality(published[q]) = Cardinality(A \cup B) + Cardinality(C \cup D)
      BY <2>8, <2>9, CountingApart
    <2>11. Cardinality(published[q])
             = Cardinality(A) + Cardinality(B) + Cardinality(C) + Cardinality(D)
      BY <2>9, <2>10
    <2> QED
      BY <2>1, <2>4, <2>6, <2>11 DEF OnePlace, A, B, C, D
  <1>2. ASSUME NEW q \in Queues
        PROVE  /\ Cardinality({processed[q][i] : i \in DOMAIN processed[q]}) = Len(processed[q])
               /\ {m.id : m \in acked[q]} \subseteq {processed[q][i] : i \in DOMAIN processed[q]}
    <2>1. Once(q) /\ processed[q] \in Seq(MsgIds)
      BY DEF WorkInv, WorkShape
    <2>2. DOMAIN processed[q] = 1..Len(processed[q]) /\ Len(processed[q]) \in Nat
      BY <2>1
    <2>3. \A i, j \in 1..Len(processed[q]) : processed[q][i] = processed[q][j] => i = j
      BY <2>1, <2>2 DEF Once
    <2> DEFINE T == {processed[q][i] : i \in DOMAIN processed[q]}
    <2>4. /\ \A i \in 1..Len(processed[q]) : processed[q][i] \in T
          /\ \A x \in T : \E i \in 1..Len(processed[q]) : processed[q][i] = x
      BY <2>2
    <2>5. {m.id : m \in acked[q]} \subseteq T
      BY <2>1 DEF Once
    <2>6. Cardinality(T) = Len(processed[q])
      <3> DEFINE f == [i \in 1..Len(processed[q]) |-> processed[q][i]]
      <3>1. Len(processed[q]) \in Nat
        BY <2>2
      <3>2. \A i, j \in 1..Len(processed[q]) : f[i] = f[j] => i = j
        BY <2>3
      <3>3. /\ \A i \in 1..Len(processed[q]) : f[i] \in T
            /\ \A x \in T : \E i \in 1..Len(processed[q]) : f[i] = x
        BY <2>4
      <3> HIDE DEF f, T
      <3> QED
        BY <3>1, <3>2, <3>3, CountingPlaces
    <2> QED
      BY <2>5, <2>6
  <1>3. Work!NoMessageLost
    BY <1>1, SameSize DEF Work!NoMessageLost, Waiting, MsgsOf, HeldIn, Takers
  <1>4. Work!ProcessedOnce
    BY <1>2, SameSize DEF Work!ProcessedOnce, Work!Range
  <1> QED
    BY <1>3, <1>4 DEF Work!DeliveredAndOnce

-----------------------------------------------------------------------------
(***************************************************************************)
(* The event log.  What a consumer was handed is a prefix of the log, with *)
(* the stretches that were delivered again put in: the events it has seen  *)
(* are the first ones of the log, and it has applied each of them once.    *)
(* The fold of rebuild_state is unrolled one event at a time.              *)
(***************************************************************************)

\* The consumer before its first event, and what it holds after the events of s.
Blank(b) == [orders |-> <<>>, seen |-> {}, idempotent |-> b]
After(s, b) == Events!FoldLeft(Events!RebuildStep, Blank(b), s)

Turn(g, s, b, T) == IF T = {} THEN Blank(b) ELSE Events!RebuildStep(g[T \ {Top(T)}], s[Top(T)])
Unrolls(g, s, b, n) == g = [T \in SUBSET (1..n) |-> Turn(g, s, b, T)]
Unrolled(s, b, n) == CHOOSE g : Unrolls(g, s, b, n)

LEMMA AfterUnrolls ==
    ASSUME NEW s, NEW b, DOMAIN s = 1..Len(s)
    PROVE  After(s, b) = Unrolled(s, b, Len(s))[1..Len(s)]
  BY DEF After, Unrolled, Unrolls, Turn, Top, Events!FoldLeft, Events!MapThenFoldSet, Events!Max

LEMMA UnrolledExists ==
    ASSUME NEW s, NEW b, NEW n \in Nat
    PROVE  Unrolls(Unrolled(s, b, n), s, b, n)
  <1> DEFINE K == {i \in Nat : \E g : Unrolls(g, s, b, i)}
  <1>1. 0 \in K
    <2> DEFINE g == [T \in SUBSET (1..0) |-> Blank(b)]
    <2>1. SUBSET (1..0) = {{}}
      OBVIOUS
    <2>2. Unrolls(g, s, b, 0)
      BY <2>1 DEF Unrolls, Turn
    <2> HIDE DEF g
    <2> QED
      BY <2>2
  <1>2. ASSUME NEW i \in K
        PROVE  i + 1 \in K
    <2>1. i \in Nat
      OBVIOUS
    <2>2. PICK g : Unrolls(g, s, b, i)
      OBVIOUS
    <2> HIDE DEF K
    <2> DEFINE h == [T \in SUBSET (1..i + 1) |-> Turn(g, s, b, T)]
    <2>3. \A U \in SUBSET (1..i) : h[U] = g[U]
      <3>1. \A U \in SUBSET (1..i) : U \in SUBSET (1..i + 1)
        BY <2>1
      <3>2. \A U \in SUBSET (1..i) : g[U] = Turn(g, s, b, U)
        BY <2>2, Zenon DEF Unrolls
      <3> QED
        BY <3>1, <3>2
    <2>4. \A T \in SUBSET (1..i + 1) : T # {} => T \ {Top(T)} \in SUBSET (1..i)
      <3>1. i + 1 \in Nat /\ (i + 1) - 1 = i
        BY <2>1
      <3> QED
        BY <3>1, TopIsLast
    <2> HIDE DEF h
    <2>5. \A T \in SUBSET (1..i + 1) : Turn(h, s, b, T) = Turn(g, s, b, T)
      BY <2>3, <2>4 DEF Turn
    <2>6. Unrolls(h, s, b, i + 1)
      BY <2>5 DEF h, Unrolls
    <2> QED
      BY <2>1, <2>6 DEF K
  <1>3. K = Nat
    <2> HIDE DEF K
    <2>1. K \in SUBSET Nat
      BY DEF K
    <2> QED
      BY <1>1, <1>2, <2>1, NatBySets
  <1>4. \E g : Unrolls(g, s, b, n)
    BY <1>3
  <1> QED
    BY <1>4, Zenon DEF Unrolled

\* An unrolling of a longer sequence is one of each sequence it starts with.
LEMMA UnrolledAgree ==
    ASSUME NEW s, NEW t, NEW b, NEW n \in Nat, NEW m \in Nat, n <= m,
           \A i \in 1..n : s[i] = t[i]
    PROVE  Unrolled(s, b, n)[1..n] = Unrolled(t, b, m)[1..n]
  <1> DEFINE g == Unrolled(s, b, n)
             h == Unrolled(t, b, m)
             Same(i) == \A T \in SUBSET (1..i) : i <= n => g[T] = h[T]
             K == {i \in Nat : Same(i)}
  <1>1. Unrolls(g, s, b, n) /\ Unrolls(h, t, b, m)
    BY UnrolledExists
  <1> HIDE DEF g, h
  <1>2. /\ \A T \in SUBSET (1..n) : g[T] = Turn(g, s, b, T)
        /\ \A T \in SUBSET (1..n) : h[T] = Turn(h, t, b, T)
    <2>1. \A T \in SUBSET (1..n) : T \in SUBSET (1..m)
      OBVIOUS
    <2>2. \A T \in SUBSET (1..n) : g[T] = Turn(g, s, b, T)
      BY <1>1, Zenon DEF Unrolls
    <2>3. \A T \in SUBSET (1..m) : h[T] = Turn(h, t, b, T)
      BY <1>1, Zenon DEF Unrolls
    <2> QED
      BY <2>1, <2>2, <2>3
  <1>3. 0 \in K
    <2>1. \A T \in SUBSET (1..0) : T = {} /\ T \in SUBSET (1..n)
      OBVIOUS
    <2>2. \A T \in SUBSET (1..0) : g[T] = h[T]
      BY <1>2, <2>1 DEF Turn
    <2> QED
      BY <2>2
  <1>4. ASSUME NEW i \in K
        PROVE  i + 1 \in K
    <2>1. i \in Nat /\ Same(i)
      OBVIOUS
    <2> HIDE DEF K
    <2>2. ASSUME NEW T \in SUBSET (1..i + 1), i + 1 <= n
          PROVE  g[T] = h[T]
      <3>1. T \in SUBSET (1..n)
        BY <2>1, <2>2
      <3>2. CASE T = {}
        BY <1>2, <3>1, <3>2 DEF Turn
      <3>3. CASE T # {}
        <4>1. T \ {Top(T)} \in SUBSET (1..i) /\ Top(T) \in 1..n
          <5>1. i + 1 \in Nat /\ (i + 1) - 1 = i
            BY <2>1
          <5> QED
            BY <3>1, <3>3, <5>1, TopIsLast
        <4>2. g[T \ {Top(T)}] = h[T \ {Top(T)}]
          BY <2>1, <2>2, <4>1
        <4>3. s[Top(T)] = t[Top(T)]
          BY <4>1
        <4> QED
          BY <1>2, <3>1, <3>3, <4>2, <4>3 DEF Turn
      <3> QED
        BY <3>2, <3>3
    <2> QED
      BY <2>1, <2>2 DEF K
  <1>5. K = Nat
    <2> HIDE DEF K
    <2>1. K \in SUBSET Nat
      BY DEF K
    <2> QED
      BY <1>3, <1>4, <2>1, NatBySets
  <1>6. Same(n)
    BY <1>5
  <1> QED
    BY <1>6 DEF g, h

\* rebuild_state takes one event at a time.
LEMMA AfterNothing ==
    ASSUME NEW b
    PROVE  After(<<>>, b) = Blank(b)
  <1>1. After(<<>>, b) = Unrolled(<<>>, b, 0)[1..0]
    BY AfterUnrolls
  <1>2. Unrolls(Unrolled(<<>>, b, 0), <<>>, b, 0)
    BY UnrolledExists
  <1> DEFINE g == Unrolled(<<>>, b, 0)
  <1> HIDE DEF g
  <1>3. g[{}] = Turn(g, <<>>, b, {})
    BY <1>2 DEF Unrolls, g
  <1>4. 1..0 = {}
    OBVIOUS
  <1> QED
    BY <1>1, <1>3, <1>4 DEF Turn, g

LEMMA AfterOneMore ==
    ASSUME NEW A, NEW s \in Seq(A), NEW e \in A, NEW b
    PROVE  After(Append(s, e), b) = Events!RebuildStep(After(s, b), e)
  <1> DEFINE t == Append(s, e)
             n == Len(s)
             g == Unrolled(s, b, n)
             h == Unrolled(t, b, n + 1)
  <1>1. n \in Nat /\ Len(t) = n + 1 /\ DOMAIN t = 1..n + 1 /\ DOMAIN s = 1..n
        /\ t[n + 1] = e /\ \A i \in 1..n : s[i] = t[i]
    OBVIOUS
  <1> HIDE DEF t, n
  <1>2. After(s, b) = g[1..n] /\ After(t, b) = h[1..n + 1]
    BY <1>1, AfterUnrolls DEF n
  <1>3. g[1..n] = h[1..n]
    BY <1>1, UnrolledAgree
  <1>4. Unrolls(h, t, b, n + 1)
    BY <1>1, UnrolledExists
  <1> HIDE DEF g, h
  <1>5. h[1..n + 1] = Turn(h, t, b, 1..n + 1)
    BY <1>4 DEF Unrolls
  <1>6. 1..n + 1 # {} /\ 1..n + 1 \in SUBSET (1..n + 1) /\ n + 1 \in 1..n + 1
    <2>1. n + 1 \in 1..n + 1
      BY <1>1
    <2> QED
      BY <2>1
  <1>7. Top(1..n + 1) = n + 1
    <2>1. n + 1 \in Nat
      BY <1>1
    <2>2. Top(1..n + 1) \in 1..n + 1 /\ \A k \in 1..n + 1 : k <= Top(1..n + 1)
      BY <1>6, <2>1, TopIsLast
    <2> QED
      BY <1>1, <1>6, <2>2
  <1>8. (1..n + 1) \ {n + 1} = 1..n
    BY <1>1
  <1>9. h[1..n + 1] = Events!RebuildStep(h[1..n], e)
    BY <1>1, <1>5, <1>6, <1>7, <1>8 DEF Turn
  <1> QED
    BY <1>2, <1>3, <1>9 DEF t

\* The first n events of log tp are what d hands a consumer, and what a replay of them
\* gives is what the consumer has rebuilt.
CaughtUp(tp, d, n) ==
    /\ {d[i] : i \in DOMAIN d} = {tp[i] : i \in 1..n}
    /\ \E o, s : /\ After(SubSeq(tp, 1, n), FALSE) = [orders |-> o, seen |-> s, idempotent |-> FALSE]
                 /\ After(d, TRUE)
                      = [orders |-> o, seen |-> {tp[i] : i \in 1..n}, idempotent |-> TRUE]

LifeEvents == [order : LogOrders, type : {"created", "paid", "shipped", "delivered", "cancelled"}]
Stage(t) == CHOOSE k \in DOMAIN Events!Lifecycle : Events!Lifecycle[k] = t

\* The lifecycle of an order goes one way, so no event is in the log twice.
OneWay(tp) ==
    \A i, j \in DOMAIN tp :
        i < j /\ tp[i].order = tp[j].order => Stage(tp[i].type) < Stage(tp[j].type)

SourcingInv ==
    /\ topic \in Seq(LifeEvents) /\ OneWay(topic)
    /\ delivered \in Seq(LifeEvents)
    /\ committed \in {<<>>} \cup {<<n>> : n \in Nat}
    /\ \E n \in 0..Len(topic) : Events!CommittedOffset <= n /\ CaughtUp(topic, delivered, n)

LEMMA SixStages ==
    /\ DOMAIN Events!Lifecycle = 1..5
    /\ \A k \in 1..5 : Stage(Events!Lifecycle[k]) = k
    /\ \A t \in {"created", "paid", "shipped", "delivered", "cancelled"} :
          Stage(t) \in 1..5 /\ Events!Lifecycle[Stage(t)] = t
  <1>1. DOMAIN Events!Lifecycle = 1..5
    BY DEF Events!Lifecycle
  <1>2. \A t \in {"created", "paid", "shipped", "delivered", "cancelled"} :
            \E k \in 1..5 : Events!Lifecycle[k] = t
    BY DEF Events!Lifecycle
  <1>3. \A j, k \in 1..5 : Events!Lifecycle[j] = Events!Lifecycle[k] => j = k
    BY DEF Events!Lifecycle
  <1> QED
    BY <1>1, <1>2, <1>3 DEF Stage

LEMMA OneWayDistinct ==
    ASSUME NEW tp \in Seq(LifeEvents), OneWay(tp), NEW i \in DOMAIN tp, NEW j \in DOMAIN tp,
           tp[i] = tp[j]
    PROVE  i = j
  <1>1. DOMAIN tp = 1..Len(tp) /\ Len(tp) \in Nat
    OBVIOUS
  <1>2. tp[i].type \in {"created", "paid", "shipped", "delivered", "cancelled"}
    <2>1. tp[i] \in LifeEvents
      BY <1>1
    <2> QED
      BY <2>1 DEF LifeEvents
  <1>3. Stage(tp[i].type) \in 1..5
    BY <1>2, SixStages
  <1>4. ~(i < j) /\ ~(j < i)
    BY <1>3 DEF OneWay
  <1> QED
    BY <1>1, <1>4

LEMMA AppendToConcat ==
    ASSUME NEW A, NEW x \in Seq(A), NEW y \in Seq(A), NEW e \in A
    PROVE  x \o Append(y, e) = Append(x \o y, e) /\ Append(x \o y, e) \in Seq(A)
  OBVIOUS

LEMMA OneEventMore ==
    ASSUME NEW tp \in Seq(LifeEvents), OneWay(tp), NEW d \in Seq(LifeEvents),
           NEW n \in 0..Len(tp), CaughtUp(tp, d, n), NEW i \in 1..Len(tp), i <= n + 1
    PROVE  \E m \in 0..Len(tp) : n <= m /\ i <= m /\ CaughtUp(tp, Append(d, tp[i]), m)
  <1>1. PICK o, s :
          /\ After(SubSeq(tp, 1, n), FALSE) = [orders |-> o, seen |-> s, idempotent |-> FALSE]
          /\ After(d, TRUE)
               = [orders |-> o, seen |-> {tp[k] : k \in 1..n}, idempotent |-> TRUE]
    BY DEF CaughtUp
  <1> DEFINE e == tp[i]
             f == Append(d, e)
  <1>2. tp[i] \in LifeEvents /\ DOMAIN tp = 1..Len(tp) /\ Len(tp) \in Nat
    OBVIOUS
  <1>3. After(f, TRUE) = Events!RebuildStep(After(d, TRUE), e)
    BY <1>2, AfterOneMore
  <1>4. {f[k] : k \in DOMAIN f} = {d[k] : k \in DOMAIN d} \cup {e}
    <2>1. DOMAIN f = 1..Len(d) + 1 /\ DOMAIN d = 1..Len(d) /\ Len(d) \in Nat
          /\ f[Len(d) + 1] = e /\ \A k \in 1..Len(d) : f[k] = d[k]
      BY <1>2
    <2> HIDE DEF f
    <2>2. 1..Len(d) + 1 = 1..Len(d) \cup {Len(d) + 1}
      BY <2>1
    <2> QED
      BY <2>1, <2>2
  <1>5. CASE i <= n
    <2>1. e \in {tp[k] : k \in 1..n}
      BY <1>2, <1>5
    <2>2. After(f, TRUE) = After(d, TRUE)
      <3> DEFINE S == {tp[k] : k \in 1..n}
      <3>1. e \in S /\ After(d, TRUE) = [orders |-> o, seen |-> S, idempotent |-> TRUE]
        BY <1>1, <2>1
      <3> HIDE DEF e, f, S
      <3>2. After(f, TRUE) = Events!RebuildStep([orders |-> o, seen |-> S, idempotent |-> TRUE], e)
        BY <1>3, <3>1
      <3>3. Events!RebuildStep([orders |-> o, seen |-> S, idempotent |-> TRUE], e)
              = [orders |-> o, seen |-> S, idempotent |-> TRUE]
        BY <3>1 DEF Events!RebuildStep
      <3> QED
        BY <3>1, <3>2, <3>3
    <2>3. {f[k] : k \in DOMAIN f} = {tp[k] : k \in 1..n}
      <3> HIDE DEF e, f
      <3> QED
        BY <1>4, <2>1 DEF CaughtUp
    <2>4. CaughtUp(tp, f, n)
      <3> HIDE DEF e, f
      <3> QED
        BY <1>1, <2>2, <2>3 DEF CaughtUp
    <2> QED
      BY <1>2, <1>5, <2>4
  <1>6. CASE i = n + 1
    <2>1. e \notin {tp[k] : k \in 1..n}
      BY <1>2, <1>6, OneWayDistinct
    <2>2. SubSeq(tp, 1, n + 1) = Append(SubSeq(tp, 1, n), e) /\ SubSeq(tp, 1, n) \in Seq(LifeEvents)
      BY <1>2, <1>6
    <2>3. After(SubSeq(tp, 1, n + 1), FALSE) = Events!RebuildStep(After(SubSeq(tp, 1, n), FALSE), e)
      BY <1>2, <2>2, AfterOneMore
    <2>4. {tp[k] : k \in 1..n + 1} = {tp[k] : k \in 1..n} \cup {e}
      <3>1. 1..n + 1 = 1..n \cup {n + 1}
        BY <1>2
      <3> QED
        BY <1>6, <3>1
    <2> DEFINE S == {tp[k] : k \in 1..n}
               S1 == {tp[k] : k \in 1..n + 1}
               p == After(SubSeq(tp, 1, n + 1), FALSE)
               q == After(f, TRUE)
    <2>5. q = Events!RebuildStep([orders |-> o, seen |-> S, idempotent |-> TRUE], e)
          /\ p = Events!RebuildStep([orders |-> o, seen |-> s, idempotent |-> FALSE], e)
      BY <1>1, <1>3, <2>3
    <2>6. S1 = S \cup {e} /\ e \notin S
      BY <2>1, <2>4
    <2> HIDE DEF S, S1, p, q, e, f
    <2>7. q = [orders |-> Events!Apply(o, e), seen |-> S1, idempotent |-> TRUE]
      BY <2>5, <2>6 DEF Events!RebuildStep
    <2>8. p = [orders |-> Events!Apply(o, e), seen |-> s \cup {e}, idempotent |-> FALSE]
      BY <2>5 DEF Events!RebuildStep
    <2>9. {f[k] : k \in DOMAIN f} = S1
      BY <1>4, <2>6 DEF CaughtUp, S
    <2>10. CaughtUp(tp, f, n + 1)
      BY <2>7, <2>8, <2>9 DEF CaughtUp, S1, p, q
    <2> QED
      BY <1>2, <1>6, <2>10 DEF f, e
  <1> QED
    BY <1>2, <1>5, <1>6

\* A stretch of the log that starts where the group may be starts at or before the first
\* event it has not seen, so it never leaves one out.
LEMMA StretchHanded ==
    ASSUME NEW tp \in Seq(LifeEvents), OneWay(tp), NEW d \in Seq(LifeEvents),
           NEW n \in 0..Len(tp), CaughtUp(tp, d, n), NEW c \in 0..n, NEW end \in c..Len(tp)
    PROVE  \E m \in 0..Len(tp) : n <= m /\ end <= m /\ CaughtUp(tp, d \o SubSeq(tp, c + 1, end), m)
  <1> DEFINE Handed(k) == d \o SubSeq(tp, c + 1, c + k)
             Good(k) == c + k <= Len(tp) =>
                           /\ Handed(k) \in Seq(LifeEvents)
                           /\ \E m \in 0..Len(tp) : n <= m /\ c + k <= m /\ CaughtUp(tp, Handed(k), m)
             K == {k \in Nat : Good(k)}
  <1>0. Len(tp) \in Nat /\ n \in Nat /\ c \in Nat /\ c <= n
    OBVIOUS
  <1>1. 0 \in K
    <2>1. Handed(0) = d
      BY <1>0
    <2>2. Good(0)
      <3> HIDE DEF Handed
      <3> QED
        BY <1>0, <2>1
    <2> QED
      BY <2>2
  <1>2. ASSUME NEW k \in K
        PROVE  k + 1 \in K
    <2>1. k \in Nat /\ Good(k)
      OBVIOUS
    <2> HIDE DEF K
    <2>2. ASSUME c + (k + 1) <= Len(tp)
          PROVE  /\ Handed(k + 1) \in Seq(LifeEvents)
                 /\ \E m \in 0..Len(tp) :
                       n <= m /\ c + (k + 1) <= m /\ CaughtUp(tp, Handed(k + 1), m)
      <3>1. SubSeq(tp, c + 1, c + (k + 1)) = Append(SubSeq(tp, c + 1, c + k), tp[c + k + 1])
            /\ SubSeq(tp, c + 1, c + k) \in Seq(LifeEvents) /\ c + k + 1 \in 1..Len(tp)
        BY <1>0, <2>1, <2>2
      <3>2. tp[c + k + 1] \in LifeEvents
        BY <3>1
      <3>3. Handed(k + 1) = Append(Handed(k), tp[c + k + 1]) /\ Handed(k + 1) \in Seq(LifeEvents)
        <4> DEFINE y == SubSeq(tp, c + 1, c + k)
                   e == tp[c + k + 1]
        <4>1. Handed(k + 1) = d \o Append(y, e) /\ Handed(k) = d \o y
          BY <3>1
        <4>2. y \in Seq(LifeEvents) /\ e \in LifeEvents
          BY <3>1, <3>2
        <4> HIDE DEF y, e, Handed
        <4>3. d \o Append(y, e) = Append(d \o y, e) /\ Append(d \o y, e) \in Seq(LifeEvents)
          BY <4>2, AppendToConcat
        <4> QED
          BY <4>1, <4>3 DEF e
      <3>4. PICK m \in 0..Len(tp) : n <= m /\ c + k <= m /\ CaughtUp(tp, Handed(k), m)
        BY <1>0, <2>1, <2>2
      <3>5. Handed(k) \in Seq(LifeEvents)
        BY <3>1
      <3> HIDE DEF Handed
      <3>6. c + k + 1 <= m + 1
        BY <1>0, <2>1, <3>4
      <3>7. PICK w \in 0..Len(tp) :
               m <= w /\ c + k + 1 <= w /\ CaughtUp(tp, Append(Handed(k), tp[c + k + 1]), w)
        BY <3>1, <3>4, <3>5, <3>6, OneEventMore
      <3>8. n <= w /\ c + (k + 1) <= w
        BY <1>0, <2>1, <3>4, <3>7
      <3> QED
        BY <3>3, <3>7, <3>8
    <2>3. Good(k + 1)
      BY <2>2
    <2> QED
      BY <2>1, <2>3 DEF K
  <1>3. K = Nat
    <2> HIDE DEF K
    <2>1. K \in SUBSET Nat
      BY DEF K
    <2> QED
      BY <1>1, <1>2, <2>1, NatBySets
  <1>4. end - c \in Nat /\ c + (end - c) = end
    BY <1>0
  <1>5. Good(end - c)
    BY <1>3, <1>4
  <1> QED
    BY <1>0, <1>4, <1>5

LEMMA SourcingInvInit ==
    ASSUME Events!SourcingInit
    PROVE  SourcingInv
  <1>1. topic = <<>> /\ delivered = <<>> /\ committed = <<>>
    BY DEF Events!SourcingInit, Events!NewTopic
  <1>2. Len(<<>>) = 0 /\ SubSeq(<<>>, 1, 0) = <<>> /\ DOMAIN <<>> = {}
    OBVIOUS
  <1>3. CaughtUp(<<>>, <<>>, 0)
    <2>1. 1..0 = {}
      OBVIOUS
    <2> QED
      BY <1>2, <2>1, AfterNothing DEF CaughtUp, Blank
  <1> QED
    BY <1>1, <1>2, <1>3 DEF SourcingInv, OneWay, Events!CommittedOffset

LEMMA ProduceKeeps ==
    ASSUME SourcingInv, NEW o \in LogOrders, Events!Produce(o)
    PROVE  SourcingInv'
  <1> DEFINE types == {"created", "paid", "shipped", "delivered", "cancelled"}
             sent == {i \in DOMAIN topic : topic[i].order = o}
             newest == CHOOSE i \in sent : \A j \in sent : j <= i
             last == IF sent = {} THEN 0
                     ELSE CHOOSE k \in DOMAIN Events!Lifecycle :
                            Events!Lifecycle[k] = topic[newest].type
  <1>1. topic \in Seq(LifeEvents) /\ DOMAIN topic = 1..Len(topic) /\ Len(topic) \in Nat
    BY DEF SourcingInv
  <1>2. PICK k : /\ k \in {last + 1} \cup (IF last = 3 THEN {5} ELSE {})
                 /\ k \in DOMAIN Events!Lifecycle
                 /\ topic' = Append(topic, Events!Event(o, Events!Lifecycle[k]))
    BY DEF Events!Produce
  <1>3. committed' = committed /\ delivered' = delivered
    BY DEF Events!Produce
  <1>4. \A i \in 1..Len(topic) : topic[i] \in LifeEvents
    BY <1>1
  <1>5. \A i \in sent : Stage(topic[i].type) \in 1..5 /\ Stage(topic[i].type) < k
    <2>1. CASE sent # {}
      <3>1. \E i \in sent : \A j \in sent : j <= i
        <4>1. sent \in SUBSET (1..Len(topic))
          BY <1>1
        <4> HIDE DEF sent
        <4> QED
          BY <1>1, <2>1, <4>1, TopExists
      <3>2. newest \in sent /\ \A j \in sent : j <= newest
        BY <3>1
      <3>3. last = Stage(topic[newest].type)
        BY <2>1 DEF Stage
      <3> HIDE DEF newest, last
      <3>4. \A i \in sent : topic[i].type \in types /\ Stage(topic[i].type) \in 1..5
        BY <1>1, <1>4, SixStages DEF LifeEvents
      <3>5. \A i \in sent : Stage(topic[i].type) <= Stage(topic[newest].type)
        <4> SUFFICES ASSUME NEW i \in sent
                     PROVE  Stage(topic[i].type) <= Stage(topic[newest].type)
          OBVIOUS
        <4>1. CASE i = newest
          BY <3>4, <4>1
        <4>2. CASE i # newest
          <5>1. i < newest /\ topic[i].order = topic[newest].order
            BY <1>1, <3>2, <4>2
          <5>2. Stage(topic[i].type) < Stage(topic[newest].type)
            BY <3>2, <5>1 DEF SourcingInv, OneWay
          <5> QED
            BY <3>2, <3>4, <5>2
        <4> QED
          BY <4>1, <4>2
      <3>6. last < k /\ k \in Nat
        BY <1>2, <3>2, <3>3, <3>4, SixStages
      <3> HIDE DEF sent
      <3> QED
        BY <3>2, <3>3, <3>4, <3>5, <3>6
    <2> QED
      BY <2>1
  <1> DEFINE e == Events!Event(o, Events!Lifecycle[k])
  <1>6. k \in 1..5 /\ Events!Lifecycle[k] \in types /\ Stage(Events!Lifecycle[k]) = k
    <2>1. k \in 1..5 /\ Stage(Events!Lifecycle[k]) = k
      BY <1>2, SixStages
    <2>2. \A i \in 1..5 : Events!Lifecycle[i] \in types
      BY DEF Events!Lifecycle
    <2> QED
      BY <2>1, <2>2
  <1>7. e \in LifeEvents /\ e.order = o /\ Stage(e.type) = k
    BY <1>6 DEF Events!Event, LifeEvents
  <1> HIDE DEF e
  <1>8. topic' = Append(topic, e)
    BY <1>2 DEF e
  <1>9. /\ topic' \in Seq(LifeEvents) /\ DOMAIN topic' = 1..Len(topic) + 1
        /\ Len(topic') = Len(topic) + 1 /\ topic'[Len(topic) + 1] = e
        /\ \A i \in 1..Len(topic) : topic'[i] = topic[i]
    BY <1>1, <1>7, <1>8
  <1>10. OneWay(topic')
    <2> SUFFICES ASSUME NEW i \in 1..Len(topic) + 1, NEW j \in 1..Len(topic) + 1,
                        i < j, topic'[i].order = topic'[j].order
                 PROVE  Stage(topic'[i].type) < Stage(topic'[j].type)
      BY <1>9 DEF OneWay
    <2>1. i \in 1..Len(topic)
      BY <1>1
    <2>2. CASE j \in 1..Len(topic)
      BY <1>1, <1>9, <2>1, <2>2 DEF SourcingInv, OneWay
    <2>3. CASE j = Len(topic) + 1
      <3>1. topic[i].order = o /\ i \in DOMAIN topic
        BY <1>1, <1>7, <1>9, <2>1, <2>3
      <3>2. i \in sent
        BY <3>1
      <3> QED
        BY <1>5, <1>7, <1>9, <2>1, <2>3, <3>2
    <2> QED
      BY <1>1, <2>2, <2>3
  <1>11. PICK n \in 0..Len(topic) : Events!CommittedOffset <= n /\ CaughtUp(topic, delivered, n)
    BY DEF SourcingInv
  <1>12. CaughtUp(topic', delivered', n)
    <2>1. n \in Nat /\ n <= Len(topic)
      BY <1>1
    <2>2. SubSeq(topic', 1, n) = SubSeq(topic, 1, n)
      BY <1>1, <1>7, <1>8, <2>1
    <2>3. \A i \in 1..n : topic'[i] = topic[i]
      BY <1>1, <1>9, <2>1
    <2>4. {topic'[i] : i \in 1..n} = {topic[i] : i \in 1..n}
      BY <2>3
    <2> QED
      BY <1>3, <1>11, <2>2, <2>4 DEF CaughtUp
  <1>13. n \in 0..Len(topic')
    BY <1>1, <1>9
  <1>14. Events!CommittedOffset' = Events!CommittedOffset
    BY <1>3 DEF Events!CommittedOffset
  <1> QED
    BY <1>3, <1>9, <1>10, <1>11, <1>12, <1>13, <1>14 DEF SourcingInv

LEMMA ConsumeKeeps ==
    ASSUME SourcingInv, NEW crash \in BOOLEAN, Events!Consume(crash)
    PROVE  SourcingInv'
  <1> DEFINE c == Events!CommittedOffset
  <1>1. PICK end \in c..Len(topic) :
          /\ delivered' = delivered \o SubSeq(topic, c + 1, end)
          /\ committed' = IF crash THEN committed ELSE <<end>>
          /\ topic' = topic
    BY DEF Events!Consume
  <1>2. PICK n \in 0..Len(topic) : c <= n /\ CaughtUp(topic, delivered, n)
    BY DEF SourcingInv
  <1>3. /\ topic \in Seq(LifeEvents) /\ OneWay(topic) /\ delivered \in Seq(LifeEvents)
        /\ Len(topic) \in Nat
    BY DEF SourcingInv
  <1>4. c \in 0..n
    BY <1>2 DEF SourcingInv, Events!CommittedOffset
  <1> HIDE DEF c
  <1>5. PICK m \in 0..Len(topic) :
          n <= m /\ end <= m /\ CaughtUp(topic, delivered \o SubSeq(topic, c + 1, end), m)
    BY <1>1, <1>2, <1>3, <1>4, StretchHanded
  <1>6. delivered' \in Seq(LifeEvents)
    <2>1. SubSeq(topic, c + 1, end) \in Seq(LifeEvents)
      BY <1>1, <1>3, <1>4
    <2> QED
      BY <1>1, <1>3, <2>1
  <1>7. Events!CommittedOffset' <= m /\ committed' \in {<<>>} \cup {<<k>> : k \in Nat}
    <2>1. CASE crash
      BY <1>1, <1>2, <1>4, <1>5, <2>1 DEF c, Events!CommittedOffset, SourcingInv
    <2>2. CASE ~crash
      <3>1. end \in Nat /\ <<end>>[1] = end /\ <<end>> # <<>>
        BY <1>1, <1>4
      <3> QED
        BY <1>1, <1>5, <2>2, <3>1 DEF Events!CommittedOffset
    <2> QED
      BY <2>1, <2>2
  <1> QED
    BY <1>1, <1>3, <1>5, <1>6, <1>7 DEF SourcingInv

LEMMA SourcingInvStep ==
    ASSUME SourcingInv, Events!SourcingNext \/ UNCHANGED sourcingVars
    PROVE  SourcingInv'
  <1>1. CASE UNCHANGED sourcingVars
    BY <1>1 DEF sourcingVars, SourcingInv, Events!CommittedOffset
  <1>2. CASE Events!SourcingNext
    BY <1>2, ProduceKeeps, ConsumeKeeps DEF Events!SourcingNext
  <1> QED
    BY <1>1, <1>2

LEMMA OrdersField ==
    ASSUME NEW r, NEW o, NEW s, NEW b, r = [orders |-> o, seen |-> s, idempotent |-> b]
    PROVE  r.orders = o
  OBVIOUS

LEMMA SourcingInvSuffices ==
    ASSUME SourcingInv
    PROVE  Events!ProjectionIsReplay /\ Events!SourcingTypeOK
  <1>1. PICK n \in 0..Len(topic) : Events!CommittedOffset <= n /\ CaughtUp(topic, delivered, n)
    BY DEF SourcingInv
  <1>2. topic \in Seq(LifeEvents) /\ OneWay(topic) /\ DOMAIN topic = 1..Len(topic) /\ Len(topic) \in Nat
    BY DEF SourcingInv
  <1> DEFINE seen == {i \in DOMAIN topic : topic[i] \in Events!ToSet(delivered)}
             upTo == IF seen = {} THEN 0 ELSE CHOOSE i \in seen : \A j \in seen : j <= i
  <1>3. Events!ToSet(delivered) = {topic[i] : i \in 1..n}
    BY <1>1 DEF CaughtUp, Events!ToSet
  <1>4. seen = 1..n
    <2>1. 1..n \subseteq DOMAIN topic /\ n \in Nat
      BY <1>2
    <2>2. \A i \in DOMAIN topic : topic[i] \in {topic[j] : j \in 1..n} => i \in 1..n
      BY <1>2, <2>1, OneWayDistinct
    <2> QED
      BY <1>3, <2>1, <2>2
  <1> HIDE DEF seen
  <1>5. upTo = n
    <2>1. CASE n = 0
      BY <1>4, <2>1
    <2>2. CASE n # 0
      <3>1. n \in seen /\ \A j \in seen : j <= n
        BY <1>2, <1>4, <2>2
      <3>2. upTo \in seen /\ n <= upTo
        BY <3>1
      <3> QED
        BY <1>4, <3>1, <3>2
    <2> QED
      BY <2>1, <2>2
  <1> HIDE DEF upTo
  <1>6. After(delivered, TRUE).orders = After(SubSeq(topic, 1, n), FALSE).orders
    BY <1>1, OrdersField DEF CaughtUp
  <1>7. Events!ProjectionIsReplay
    BY <1>5, <1>6 DEF Events!ProjectionIsReplay, Events!RebuildState, After, Blank, seen, upTo
  <1>8. Events!SourcingTypeOK
    BY <1>1, <1>2 DEF Events!SourcingTypeOK, Events!CommittedOffset, SourcingInv
  <1> QED
    BY <1>7, <1>8

-----------------------------------------------------------------------------
(***************************************************************************)
(* The outbox.  A row that is marked was published, and what the relay has *)
(* in hand was published too, so a crash before the mark loses nothing.    *)
(***************************************************************************)
OutboxInv ==
    /\ \E rows : rows \subseteq simDb /\ outboxRows \in [rows -> BOOLEAN]
    /\ simKafka \in Seq(simDb)
    /\ relaying = <<>> \/ \E o \in DOMAIN outboxRows : relaying = <<o>> /\ Events!Published(o)
    /\ \A o \in DOMAIN outboxRows : outboxRows[o] => Events!Published(o)
    /\ simDb \cap OutboxOrders \subseteq DOMAIN outboxRows

LEMMA OutboxInvInit ==
    ASSUME Events!OutboxInit
    PROVE  OutboxInv
  <1>1. <<>> \in Seq({}) /\ DOMAIN <<>> = {} /\ <<>> \in [{} -> BOOLEAN]
    OBVIOUS
  <1> QED
    BY <1>1 DEF Events!OutboxInit, OutboxInv

\* An event that was published stays so.
LEMMA StaysPublished ==
    ASSUME NEW A, simKafka \in Seq(A), NEW e \in A, simKafka' = Append(simKafka, e)
    PROVE  /\ Events!Published(e)' /\ \A o : Events!Published(o) => Events!Published(o)'
           /\ simKafka' \in Seq(A)
  <1>1. DOMAIN simKafka = 1..Len(simKafka) /\ Len(simKafka) \in Nat
        /\ DOMAIN simKafka' = 1..Len(simKafka) + 1 /\ simKafka'[Len(simKafka) + 1] = e
        /\ \A i \in 1..Len(simKafka) : simKafka'[i] = simKafka[i]
        /\ simKafka' \in Seq(A)
    OBVIOUS
  <1>2. Len(simKafka) + 1 \in DOMAIN simKafka' /\ \A i \in DOMAIN simKafka : i \in DOMAIN simKafka'
    BY <1>1
  <1> QED
    BY <1>1, <1>2 DEF Events!Published

LEMMA OutboxInvStep ==
    ASSUME OutboxInv, OutboxOrders \cap NaiveOrders = {},
           Events!OutboxNext \/ UNCHANGED outboxVars
    PROVE  OutboxInv'
  <1> USE DEF OutboxInv
  <1>1. ASSUME NEW o \in NaiveOrders, NEW c \in BOOLEAN, Events!NaivePlaceOrder(o, c)
        PROVE  OutboxInv'
    <2>1. simDb' = simDb \cup {o} /\ outboxRows' = outboxRows /\ relaying' = relaying
          /\ simKafka' = IF c THEN simKafka ELSE Append(simKafka, o)
      BY <1>1 DEF Events!NaivePlaceOrder
    <2>2. simKafka \in Seq(simDb')
      BY <2>1
    <2>3. simKafka' \in Seq(simDb') /\ \A r : Events!Published(r) => Events!Published(r)'
      <3>1. CASE c
        BY <2>1, <2>2, <3>1 DEF Events!Published
      <3>2. CASE ~c
        <4>1. o \in simDb' /\ simKafka' = Append(simKafka, o)
          BY <2>1, <3>2
        <4> QED
          BY <2>2, <4>1, StaysPublished
      <3> QED
        BY <3>1, <3>2
    <2>4. o \notin OutboxOrders
      OBVIOUS
    <2> QED
      BY <2>1, <2>3, <2>4
  <1>2. ASSUME NEW o \in OutboxOrders, Events!OutboxPlaceOrder(o)
        PROVE  OutboxInv'
    <2>1. o \notin simDb /\ simDb' = simDb \cup {o} /\ simKafka' = simKafka /\ relaying' = relaying
          /\ outboxRows' = [r \in DOMAIN outboxRows \cup {o} |-> IF r = o THEN FALSE ELSE outboxRows[r]]
      BY <1>2 DEF Events!OutboxPlaceOrder
    <2>2. PICK rows : rows \subseteq simDb /\ outboxRows \in [rows -> BOOLEAN]
      OBVIOUS
    <2>3. DOMAIN outboxRows = rows /\ DOMAIN outboxRows' = rows \cup {o}
          /\ outboxRows' \in [rows \cup {o} -> BOOLEAN]
          /\ \A r \in rows : outboxRows'[r] = outboxRows[r]
          /\ ~outboxRows'[o]
      BY <2>1, <2>2
    <2>4. simKafka' \in Seq(simDb') /\ \A r : Events!Published(r)' <=> Events!Published(r)
      BY <2>1 DEF Events!Published
    <2> QED
      BY <2>1, <2>2, <2>3, <2>4
  <1>3. ASSUME NEW o \in OutboxOrders, Events!RelayPublish(o)
        PROVE  OutboxInv'
    <2>1. o \in DOMAIN outboxRows /\ simKafka' = Append(simKafka, o) /\ relaying' = <<o>>
          /\ simDb' = simDb /\ outboxRows' = outboxRows
      BY <1>3 DEF Events!RelayPublish
    <2>2. o \in simDb
      BY <2>1
    <2>3. /\ Events!Published(o)' /\ \A r : Events!Published(r) => Events!Published(r)'
          /\ simKafka' \in Seq(simDb)
      BY <2>1, <2>2, StaysPublished
    <2> QED
      BY <2>1, <2>3
  <1>4. CASE Events!RelayMark
    <2>1. relaying # <<>> /\ outboxRows' = [outboxRows EXCEPT ![relaying[1]] = TRUE]
          /\ relaying' = <<>> /\ simDb' = simDb /\ simKafka' = simKafka
      BY <1>4 DEF Events!RelayMark
    <2>2. PICK o \in DOMAIN outboxRows : relaying = <<o>> /\ Events!Published(o)
      BY <2>1
    <2>3. relaying[1] = o
      BY <2>2
    <2>4. PICK rows : rows \subseteq simDb /\ outboxRows \in [rows -> BOOLEAN]
      OBVIOUS
    <2>5. outboxRows' \in [rows -> BOOLEAN] /\ DOMAIN outboxRows' = DOMAIN outboxRows
          /\ \A r \in DOMAIN outboxRows \ {o} : outboxRows'[r] = outboxRows[r]
      BY <2>1, <2>3, <2>4
    <2>6. \A r : Events!Published(r)' <=> Events!Published(r)
      BY <2>1 DEF Events!Published
    <2> QED
      BY <2>1, <2>2, <2>4, <2>5, <2>6
  <1>5. CASE Events!RelayCrash
    BY <1>5 DEF Events!RelayCrash, Events!Published
  <1>6. CASE Events!Done \/ UNCHANGED outboxVars
    BY <1>6 DEF Events!Done, Events!outboxVars, outboxVars, Events!Published
  <1> QED
    BY <1>1, <1>2, <1>3, <1>4, <1>5, <1>6 DEF Events!OutboxNext

LEMMA OutboxInvSuffices ==
    ASSUME OutboxInv
    PROVE  Events!OutboxLosesNothing /\ Events!OutboxTypeOK
  <1>1. \A i \in DOMAIN simKafka : simKafka[i] \in simDb
    BY DEF OutboxInv
  <1>2. DOMAIN outboxRows \subseteq simDb
    BY DEF OutboxInv
  <1>3. relaying = <<>> \/ (Len(relaying) = 1 /\ relaying[1] \in DOMAIN outboxRows)
    BY DEF OutboxInv
  <1>4. \A o \in simDb \cap OutboxOrders :
            o \in DOMAIN outboxRows /\ (~outboxRows[o] \/ Events!Published(o))
    BY DEF OutboxInv
  <1> QED
    BY <1>1, <1>2, <1>3, <1>4 DEF Events!OutboxLosesNothing, Events!OutboxTypeOK

-----------------------------------------------------------------------------
(***************************************************************************)
(* The payment processor.  The positions advance over what was processed   *)
(* and nothing else, and what is committed is a position.                  *)
(***************************************************************************)
ParkingInv ==
    /\ payPosition \in [PayPartitions -> Nat]
    /\ payCommitted \in [PayPartitions -> Nat]
    /\ retries \in [PayPartitions -> 0..MaxRetries]
    /\ \A p \in PayPartitions :
          /\ payCommitted[p] <= payPosition[p]
          /\ \A i \in 1..payPosition[p] : <<p, i>> \in settled \cup parked

LEMMA ParkingInvInit ==
    ASSUME MaxRetries \in Nat, Kafka!ParkingInit
    PROVE  ParkingInv
  BY DEF Kafka!ParkingInit, ParkingInv

LEMMA ParkingInvStep ==
    ASSUME MaxRetries \in Nat, ParkingInv, Kafka!ParkingNext \/ UNCHANGED parkingVars
    PROVE  ParkingInv'
  <1> USE DEF ParkingInv
  <1>1. ASSUME NEW p \in PayPartitions, Kafka!ProcessPayment(p)
        PROVE  ParkingInv'
    <2>1. /\ settled' = settled \cup {<<p, payPosition[p] + 1>>} /\ parked' = parked
          /\ payPosition' = [payPosition EXCEPT ![p] = @ + 1]
          /\ payCommitted' = payPosition' /\ retries' = retries
      BY <1>1 DEF Kafka!ProcessPayment, Kafka!Current
    <2>2. payPosition' \in [PayPartitions -> Nat]
      BY <2>1
    <2>3. ASSUME NEW q \in PayPartitions, NEW i \in 1..payPosition'[q]
          PROVE  <<q, i>> \in settled' \cup parked'
      <3>1. CASE i \in 1..payPosition[q]
        BY <2>1, <3>1
      <3>2. CASE i \notin 1..payPosition[q]
        <4>1. q = p /\ i = payPosition[p] + 1
          BY <2>1, <2>2, <3>2
        <4> QED
          BY <2>1, <4>1
      <3> QED
        BY <3>1, <3>2
    <2> QED
      BY <2>1, <2>2, <2>3
  <1>2. ASSUME NEW p \in PayPartitions, Kafka!RetryPayment(p)
        PROVE  ParkingInv'
    BY <1>2 DEF Kafka!RetryPayment
  <1>3. ASSUME NEW p \in PayPartitions, Kafka!SendToDlt(p)
        PROVE  ParkingInv'
    BY <1>3 DEF Kafka!SendToDlt
  <1>4. CASE Kafka!Rerun
    BY <1>4 DEF Kafka!Rerun
  <1>5. CASE UNCHANGED parkingVars
    BY <1>5 DEF parkingVars
  <1> QED
    BY <1>1, <1>2, <1>3, <1>4, <1>5 DEF Kafka!ParkingNext, Kafka!Step

LEMMA ParkingInvSuffices ==
    ASSUME ParkingInv
    PROVE  Kafka!CommittedIsSettled /\ Kafka!ParkingTypeOK
  BY DEF ParkingInv, Kafka!CommittedIsSettled, Kafka!ParkingTypeOK

-----------------------------------------------------------------------------
(***************************************************************************)
(* The consumer group.  Who owns the partitions is a matter of counting;   *)
(* what was delivered follows from the positions, which start again at     *)
(* what is committed, and what is committed was a position.                *)
(***************************************************************************)
OwnedIn(P, a, c) == {p \in P : a[p] = <<c>>}
IdleIn(P, a, ms) == {c \in ms : OwnedIn(P, a, c) = {}}

Records == [key : Keys, seq : Nat \ {0}]

\* The log of a partition: its keys belong to it, and later records have larger numbers.
LogOf(p) ==
    /\ parts[p] \in Seq(Records)
    /\ \A i \in DOMAIN parts[p] : PartitionOf[parts[p][i].key] = p /\ parts[p][i].seq <= Kafka!Sent
    /\ \A i, j \in DOMAIN parts[p] : i < j => parts[p][i].seq < parts[p][j].seq

\* What the group was delivered of a partition, in order and at least once.
PolledOf(p) ==
    /\ polled[p] \in Seq(Nat)
    /\ 1..position[p] \subseteq {polled[p][i] : i \in DOMAIN polled[p]}
    /\ \A i \in DOMAIN polled[p] : \A n \in 1..polled[p][i] : \E j \in 1..i : polled[p][j] = n

GroupInv ==
    /\ parts \in [Kafka!Partitions -> Seq(Records)]
    /\ position \in [Kafka!Partitions -> Nat] /\ offsets \in [Kafka!Partitions -> Nat]
    /\ polled \in [Kafka!Partitions -> Seq(Nat)]
    /\ joined \in SUBSET GroupMembers
    /\ joined # {} => /\ assignment \in [Kafka!Partitions -> {<<c>> : c \in joined}]
                      /\ Kafka!Balanced(assignment, joined)
    /\ \A p \in Kafka!Partitions :
          /\ offsets[p] <= position[p] /\ position[p] <= Len(parts[p])
          /\ LogOf(p) /\ PolledOf(p)

LEMMA PartitionsFinite ==
    ASSUME IsFiniteSet(Keys)
    PROVE  IsFiniteSet(Kafka!Partitions)
  <1> DEFINE f == [k \in Keys |-> PartitionOf[k]]
  <1>1. f \in [Keys -> Kafka!Partitions] /\ \A p \in Kafka!Partitions : \E k \in Keys : f[k] = p
    BY DEF Kafka!Partitions
  <1> HIDE DEF f
  <1>2. f \in Surjection(Keys, Kafka!Partitions)
    BY <1>1 DEF Surjection
  <1> QED
    BY <1>2, FS_Surjection

\* An even assignment leaves nobody idle but those beyond the number of partitions.
LEMMA IdleMembers ==
    ASSUME NEW P, IsFiniteSet(P), NEW ms, IsFiniteSet(ms), ms # {},
           NEW a \in [P -> {<<c>> : c \in ms}],
           \A c, d \in ms : Cardinality(OwnedIn(P, a, c)) <= Cardinality(OwnedIn(P, a, d)) + 1
    PROVE  Cardinality(IdleIn(P, a, ms))
             = IF Cardinality(ms) > Cardinality(P) THEN Cardinality(ms) - Cardinality(P) ELSE 0
  <1> DEFINE Of(c) == OwnedIn(P, a, c)
             Idle == IdleIn(P, a, ms)
             owner == [p \in P |-> a[p][1]]
  <1>1. \A p \in P : owner[p] \in ms /\ a[p] = <<owner[p]>>
    <2> SUFFICES ASSUME NEW p \in P
                 PROVE  owner[p] \in ms /\ a[p] = <<owner[p]>>
      OBVIOUS
    <2>1. PICK c \in ms : a[p] = <<c>>
      OBVIOUS
    <2> QED
      BY <2>1
  <1>2. \A c \in ms, p \in P : p \in Of(c) <=> owner[p] = c
    BY <1>1 DEF OwnedIn
  <1>3. \A c \in ms : Of(c) \in SUBSET P /\ IsFiniteSet(Of(c)) /\ Cardinality(Of(c)) \in Nat
    <2>1. \A c \in ms : Of(c) \in SUBSET P
      BY DEF OwnedIn
    <2> HIDE DEF Of
    <2> QED
      BY <2>1, FS_Subset, FS_CardinalityType
  <1>4. \A c, d \in ms : Cardinality(Of(c)) <= Cardinality(Of(d)) + 1
    OBVIOUS
  <1>0. Idle = {c \in ms : Of(c) = {}}
    BY DEF IdleIn
  <1>5. owner \in [P -> ms]
    BY <1>1
  <1>6. Cardinality(P) \in Nat /\ Cardinality(ms) \in Nat
    BY FS_CardinalityType
  <1> HIDE DEF owner, Idle
  <1>7. CASE Idle = {}
    <2> DEFINE f == [c \in ms |-> CHOOSE p \in P : p \in Of(c)]
    <2>1. \A c \in ms : \E p \in P : p \in Of(c)
      BY <1>0, <1>3, <1>7
    <2> HIDE DEF Of
    <2>2. \A c \in ms : f[c] \in P /\ f[c] \in Of(c)
      BY <2>1
    <2>3. f \in [ms -> P]
      BY <2>2
    <2> HIDE DEF f
    <2>4. \A c, d \in ms : f[c] = f[d] => c = d
      BY <1>2, <2>2
    <2>5. f \in Injection(ms, P)
      BY <2>3, <2>4 DEF Injection, IsInjective
    <2>6. Cardinality(ms) <= Cardinality(P)
      BY <2>5, FS_Injection
    <2>7. Cardinality(Idle) = 0
      BY <1>7, FS_EmptySet
    <2> QED
      BY <1>6, <2>6, <2>7 DEF Of, Idle
  <1>8. CASE Idle # {}
    <2>1. PICK z \in ms : Of(z) = {}
      BY <1>0, <1>8
    <2>2. \A c \in ms : Cardinality(Of(c)) <= 1
      BY <1>4, <2>1, FS_EmptySet
    <2> HIDE DEF Of
    <2>3. \A p, q \in P : owner[p] = owner[q] => p = q
      <3> SUFFICES ASSUME NEW p \in P, NEW q \in P, owner[p] = owner[q]
                   PROVE  p = q
        OBVIOUS
      <3> DEFINE S == Of(owner[p])
      <3>1. owner[p] \in ms /\ p \in S /\ q \in S
        BY <1>1, <1>2
      <3>2. IsFiniteSet(S) /\ Cardinality(S) \in Nat /\ Cardinality(S) <= 1
        BY <1>3, <2>2, <3>1
      <3> HIDE DEF S
      <3>3. Cardinality(S) # 0
        BY <3>1, <3>2, FS_EmptySet
      <3>4. Cardinality(S) = 1
        BY <3>2, <3>3
      <3>5. PICK x : S = {x}
        BY <3>2, <3>4, FS_Singleton
      <3> QED
        BY <3>1, <3>5
    <2> DEFINE Busy == {c \in ms : \E p \in P : owner[p] = c}
    <2>4. owner \in [P -> Busy]
      BY <1>5
    <2>5. \A c \in Busy : \E p \in P : owner[p] = c
      OBVIOUS
    <2> HIDE DEF Busy
    <2>6. ExistsBijection(P, Busy)
      BY <2>3, <2>4, <2>5 DEF ExistsBijection, Bijection, Injection, Surjection, IsInjective
    <2>7. IsFiniteSet(Busy) /\ Cardinality(Busy) = Cardinality(P)
      BY <2>6, FS_Bijection
    <2>8. Idle = ms \ Busy /\ Busy \cap Idle = {} /\ ms = Busy \cup Idle
      <3>1. \A c \in ms : Of(c) = {} <=> c \notin Busy
        BY <1>2, <1>3 DEF Busy
      <3>2. Busy \subseteq ms
        BY DEF Busy
      <3> QED
        BY <1>0, <3>1, <3>2
    <2>9. IsFiniteSet(Idle)
      <3>1. Idle \in SUBSET ms
        BY <1>0
      <3> QED
        BY <3>1, FS_Subset
    <2> DEFINE I == Idle
    <2>10. IsFiniteSet(I) /\ I # {} /\ Busy \cap I = {} /\ ms = Busy \cup I
      BY <1>8, <2>8, <2>9
    <2> HIDE DEF I
    <2>11. /\ Cardinality(I) \in Nat /\ Cardinality(Busy) \in Nat
           /\ Cardinality(ms) = Cardinality(Busy) + Cardinality(I)
      BY <2>7, <2>10, CountingApart
    <2>12. Cardinality(I) # 0
      BY <2>10, FS_EmptySet
    <2> QED
      BY <1>6, <2>7, <2>11, <2>12 DEF I, Of, Idle
  <1> QED
    BY <1>7, <1>8

\* The sums of KafkaTopics are those of Counting.
LEMMA SumAgrees == \A f : Kafka!SumFunction(f) = SumFunction(f)
  BY DEF Kafka!SumFunction, SumFunction, Kafka!SumFunctionOnSet, SumFunctionOnSet,
         Kafka!FoldFunctionOnSet, FoldFunctionOnSet, Kafka!MapThenFoldSet, MapThenFoldSet

\* The numbers of the records count them.
LEMMA SentGrows ==
    ASSUME IsFiniteSet(Keys), parts \in [Kafka!Partitions -> Seq(Records)],
           NEW p \in Kafka!Partitions, NEW e \in Records,
           parts' = [parts EXCEPT ![p] = Append(@, e)]
    PROVE  Kafka!Sent \in Int /\ Kafka!Sent' = Kafka!Sent + 1
  <1> DEFINE P == Kafka!Partitions
             f == [q \in P |-> Len(parts[q])]
             g == [q \in P |-> Len(parts'[q])]
  <1>1. IsFiniteSet(P)
    BY PartitionsFinite
  <1>2. /\ f \in [P -> Int] /\ g \in [P -> Int] /\ p \in P
        /\ g[p] = f[p] + 1 /\ \A q \in P \ {p} : g[q] = f[q]
    OBVIOUS
  <1>3. Kafka!Sent = SumFunction(f) /\ Kafka!Sent' = SumFunction(g)
    BY SumAgrees DEF Kafka!Sent
  <1> HIDE DEF P, f, g
  <1>4. SumFunction(f) \in Int
    BY <1>1, <1>2, TotalType
  <1>5. SumFunction(g) = SumFunction(f) + (g[p] - f[p])
    <2>1. p \in P /\ f \in [P -> Int] /\ g \in [P -> Int]
      BY <1>2
    <2>2. \A q \in P \ {p} : g[q] = f[q]
      BY <1>2
    <2> QED
      BY <1>1, <2>1, <2>2, TotalChange
  <1>6. f[p] \in Int
    BY <1>2
  <1> QED
    BY <1>2, <1>3, <1>4, <1>5, <1>6

LEMMA SentCounts ==
    ASSUME IsFiniteSet(Keys), parts \in [Kafka!Partitions -> Seq(Records)]
    PROVE  Kafka!Sent \in Nat
  <1> DEFINE P == Kafka!Partitions
             f == [q \in P |-> Len(parts[q])]
  <1>1. IsFiniteSet(P)
    BY PartitionsFinite
  <1>2. f \in [P -> Nat] /\ f \in [P -> Int]
    OBVIOUS
  <1>3. Kafka!Sent = SumFunction(f)
    BY SumAgrees DEF Kafka!Sent
  <1> HIDE DEF P, f
  <1>4. SumFunction(f) \in Int /\ Cardinality({x \in P : f[x] = 1}) <= SumFunction(f)
    BY <1>1, <1>2, TotalType, TotalCounts
  <1>5. Cardinality({x \in P : f[x] = 1}) \in Nat
    <2>1. {x \in P : f[x] = 1} \in SUBSET P
      OBVIOUS
    <2> QED
      BY <1>1, <2>1, FS_Subset, FS_CardinalityType
  <1> QED
    BY <1>3, <1>4, <1>5

LEMMA GroupInvInit ==
    ASSUME Kafka!GroupInit
    PROVE  GroupInv
  <1>1. <<>> \in Seq(Records) /\ <<>> \in Seq(Nat) /\ DOMAIN <<>> = {} /\ Len(<<>>) = 0
    OBVIOUS
  <1>2. /\ parts = [p \in Kafka!Partitions |-> <<>>] /\ joined = {}
        /\ position = [p \in Kafka!Partitions |-> 0] /\ offsets = [p \in Kafka!Partitions |-> 0]
        /\ polled = [p \in Kafka!Partitions |-> <<>>]
    BY DEF Kafka!GroupInit, Kafka!NewTopic
  <1>3. \A p \in Kafka!Partitions : LogOf(p) /\ PolledOf(p)
    BY <1>1, <1>2 DEF LogOf, PolledOf
  <1> QED
    BY <1>1, <1>2, <1>3 DEF GroupInv

LEMMA SendKeeps ==
    ASSUME IsFiniteSet(Keys), GroupInv, NEW k \in Keys, Kafka!Send(k)
    PROVE  GroupInv'
  <1> DEFINE e == [key |-> k, seq |-> Kafka!Sent + 1]
             w == PartitionOf[k]
  <1>1. parts' = [parts EXCEPT ![w] = Append(@, e)] /\ w \in Kafka!Partitions
    BY DEF Kafka!Send, Kafka!Partitions
  <1>2. /\ joined' = joined /\ assignment' = assignment /\ position' = position
        /\ offsets' = offsets /\ polled' = polled
    BY DEF Kafka!Send
  <1>3. e \in Records /\ e.key = k /\ e.seq = Kafka!Sent + 1
    <2>1. Kafka!Sent \in Nat
      BY SentCounts DEF GroupInv
    <2> QED
      BY <2>1 DEF Records
  <1>4. PartitionOf[k] = w /\ k \in Keys
    OBVIOUS
  <1> HIDE DEF e, w
  <1>5. parts \in [Kafka!Partitions -> Seq(Records)]
    BY DEF GroupInv
  <1>6. Kafka!Sent \in Int /\ Kafka!Sent' = Kafka!Sent + 1
    BY <1>1, <1>3, <1>5, SentGrows
  <1>7. parts' \in [Kafka!Partitions -> Seq(Records)]
    BY <1>1, <1>3, <1>5
  <1>8. ASSUME NEW p \in Kafka!Partitions
        PROVE  LogOf(p)' /\ PolledOf(p)' /\ position[p] <= Len(parts'[p])
    <2>1. LogOf(p) /\ PolledOf(p) /\ position[p] <= Len(parts[p]) /\ position[p] \in Nat
      BY DEF GroupInv
    <2>2. PolledOf(p)'
      BY <1>2, <2>1 DEF PolledOf
    <2>3. CASE p # w
      <3>1. parts'[p] = parts[p]
        BY <1>1, <1>5, <2>3
      <3>2. \A i \in DOMAIN parts[p] : parts[p][i].seq \in Nat
        <4>1. \A i \in DOMAIN parts[p] : parts[p][i] \in Records
          BY <1>5
        <4> QED
          BY <4>1 DEF Records
      <3> QED
        BY <1>6, <2>1, <2>2, <3>1, <3>2 DEF LogOf
    <2>4. CASE p = w
      <3> DEFINE s == parts[p]
                 t == parts'[p]
      <3>1. s \in Seq(Records) /\ t = Append(s, e)
        BY <1>1, <1>5, <2>4
      <3>2. /\ Len(s) \in Nat /\ DOMAIN s = 1..Len(s) /\ DOMAIN t = 1..Len(s) + 1
            /\ Len(t) = Len(s) + 1 /\ t[Len(s) + 1] = e /\ t \in Seq(Records)
            /\ \A i \in 1..Len(s) : t[i] = s[i]
        BY <1>3, <3>1
      <3>3. \A i \in 1..Len(s) : PartitionOf[s[i].key] = p /\ s[i].seq <= Kafka!Sent /\ s[i].seq \in Nat
        <4>1. \A i \in 1..Len(s) : s[i] \in Records
          BY <3>1, <3>2
        <4>2. \A i \in 1..Len(s) : s[i].seq \in Nat
          BY <4>1 DEF Records
        <4> QED
          BY <2>1, <3>2, <4>2 DEF LogOf
      <3>4. \A i, j \in 1..Len(s) : i < j => s[i].seq < s[j].seq
        BY <2>1, <3>2 DEF LogOf
      <3> HIDE DEF s, t
      <3>5. \A i \in DOMAIN t : PartitionOf[t[i].key] = p /\ t[i].seq <= Kafka!Sent'
        <4> SUFFICES ASSUME NEW i \in 1..Len(s) + 1
                     PROVE  PartitionOf[t[i].key] = p /\ t[i].seq <= Kafka!Sent'
          BY <3>2
        <4>1. CASE i \in 1..Len(s)
          BY <1>6, <3>2, <3>3, <4>1
        <4>2. CASE i = Len(s) + 1
          BY <1>3, <1>4, <1>6, <2>4, <3>2, <4>2
        <4> QED
          BY <3>2, <4>1, <4>2
      <3>6. \A i, j \in DOMAIN t : i < j => t[i].seq < t[j].seq
        <4> SUFFICES ASSUME NEW i \in 1..Len(s) + 1, NEW j \in 1..Len(s) + 1, i < j
                     PROVE  t[i].seq < t[j].seq
          BY <3>2
        <4>1. i \in 1..Len(s)
          BY <3>2
        <4>2. CASE j \in 1..Len(s)
          BY <3>2, <3>4, <4>1, <4>2
        <4>3. CASE j = Len(s) + 1
          BY <1>3, <1>6, <3>2, <3>3, <4>1, <4>3
        <4> QED
          BY <3>2, <4>2, <4>3
      <3>7. LogOf(p)'
        BY <3>2, <3>5, <3>6 DEF LogOf, t
      <3>8. position[p] <= Len(parts'[p])
        BY <2>1, <3>2 DEF s, t
      <3> QED
        BY <2>2, <3>7, <3>8
    <2> QED
      BY <2>3, <2>4
  <1>9. Kafka!Balanced(assignment, joined)' <=> Kafka!Balanced(assignment, joined)
    BY <1>2 DEF Kafka!Balanced
  <1> QED
    BY <1>2, <1>7, <1>8, <1>9 DEF GroupInv

LEMMA PollKeeps ==
    ASSUME GroupInv, NEW p \in Kafka!Partitions, Kafka!Poll(p)
    PROVE  GroupInv'
  <1>1. /\ position[p] < Len(parts[p]) /\ parts' = parts /\ joined' = joined
        /\ assignment' = assignment /\ offsets' = offsets
        /\ position' = [position EXCEPT ![p] = @ + 1]
        /\ polled' = [polled EXCEPT ![p] = Append(@, position[p] + 1)]
    BY DEF Kafka!Poll
  <1>2. /\ position \in [Kafka!Partitions -> Nat] /\ offsets \in [Kafka!Partitions -> Nat]
        /\ polled \in [Kafka!Partitions -> Seq(Nat)]
        /\ parts \in [Kafka!Partitions -> Seq(Records)]
    BY DEF GroupInv
  <1>3. position' \in [Kafka!Partitions -> Nat] /\ polled' \in [Kafka!Partitions -> Seq(Nat)]
    BY <1>1, <1>2
  <1>4. ASSUME NEW q \in Kafka!Partitions
        PROVE  offsets[q] <= position'[q] /\ position'[q] <= Len(parts[q])
    BY <1>1, <1>2 DEF GroupInv
  <1>5. ASSUME NEW q \in Kafka!Partitions
        PROVE  LogOf(q)' /\ PolledOf(q)'
    <2>1. LogOf(q) /\ PolledOf(q)
      BY DEF GroupInv
    <2>2. LogOf(q)'
      BY <1>1, <2>1 DEF LogOf, Kafka!Sent
    <2>3. CASE q # p
      <3>1. polled'[q] = polled[q] /\ position'[q] = position[q]
        BY <1>1, <1>2, <2>3
      <3> QED
        BY <2>1, <2>2, <3>1 DEF PolledOf
    <2>4. CASE q = p
      <3> DEFINE s == polled[p]
                 t == polled'[p]
                 n == position[p]
      <3>1. s \in Seq(Nat) /\ n \in Nat /\ t = Append(s, n + 1) /\ position'[p] = n + 1
        BY <1>1, <1>2
      <3>2. /\ Len(s) \in Nat /\ DOMAIN s = 1..Len(s) /\ DOMAIN t = 1..Len(s) + 1
            /\ t[Len(s) + 1] = n + 1 /\ t \in Seq(Nat)
            /\ \A i \in 1..Len(s) : t[i] = s[i]
        BY <3>1
      <3>3. /\ \A m \in 1..n : \E i \in 1..Len(s) : s[i] = m
            /\ \A i \in 1..Len(s) : \A m \in 1..s[i] : \E j \in 1..i : s[j] = m
        <4>0. PolledOf(p)
          BY <2>1, <2>4
        <4>1. 1..n \subseteq {s[i] : i \in DOMAIN s}
          BY <4>0 DEF PolledOf
        <4>2. \A i \in DOMAIN s : \A m \in 1..s[i] : \E j \in 1..i : s[j] = m
          BY <4>0 DEF PolledOf
        <4> HIDE DEF s, n
        <4>3. DOMAIN s = 1..Len(s)
          BY <3>2
        <4>4. \A m \in 1..n : \E i \in 1..Len(s) : s[i] = m
          BY <4>1, <4>3
        <4> QED
          BY <4>2, <4>3, <4>4
      <3>4. \A i \in 1..Len(s) : s[i] \in Nat
        BY <3>1, <3>2
      <3> HIDE DEF s, t, n
      <3>5. \A m \in 1..n + 1 : \E i \in 1..Len(s) + 1 : t[i] = m
        <4> SUFFICES ASSUME NEW m \in 1..n + 1
                     PROVE  \E i \in 1..Len(s) + 1 : t[i] = m
          OBVIOUS
        <4>1. CASE m \in 1..n
          <5>1. PICK i \in 1..Len(s) : s[i] = m
            BY <3>3, <4>1
          <5> QED
            BY <3>2, <5>1
        <4>2. CASE m = n + 1
          <5>1. Len(s) + 1 \in 1..Len(s) + 1
            BY <3>2
          <5> QED
            BY <3>2, <4>2, <5>1
        <4> QED
          BY <3>1, <4>1, <4>2
      <3>6. \A i \in 1..Len(s) + 1 : \A m \in 1..t[i] : \E j \in 1..i : t[j] = m
        <4> SUFFICES ASSUME NEW i \in 1..Len(s) + 1, NEW m \in 1..t[i]
                     PROVE  \E j \in 1..i : t[j] = m
          OBVIOUS
        <4>1. CASE i \in 1..Len(s)
          <5>1. PICK j \in 1..i : s[j] = m
            BY <3>2, <3>3, <4>1
          <5>2. j \in 1..Len(s)
            BY <3>2, <4>1
          <5> QED
            BY <3>2, <5>1, <5>2
        <4>2. CASE i = Len(s) + 1
          BY <3>2, <3>5, <4>2
        <4> QED
          BY <3>2, <4>1, <4>2
      <3>7. PolledOf(p)'
        BY <3>1, <3>2, <3>5, <3>6 DEF PolledOf, t
      <3> QED
        BY <2>2, <2>4, <3>7
    <2> QED
      BY <2>3, <2>4
  <1>6. Kafka!Balanced(assignment, joined)' <=> Kafka!Balanced(assignment, joined)
    BY <1>1 DEF Kafka!Balanced
  <1> QED
    BY <1>1, <1>3, <1>4, <1>5, <1>6 DEF GroupInv

\* What a rebalance starts from: the offsets, or positions that were committed.
LEMMA CommittedIsBehind ==
    ASSUME GroupInv, NEW ms
    PROVE  /\ Kafka!CommittedBy(ms) \in [Kafka!Partitions -> Nat]
           /\ \A p \in Kafka!Partitions : Kafka!CommittedBy(ms)[p] <= position[p]
  <1>1. \A p \in Kafka!Partitions :
            Kafka!CommittedBy(ms)[p] \in {position[p], offsets[p]}
    BY DEF Kafka!CommittedBy
  <1>2. Kafka!CommittedBy(ms) = [p \in Kafka!Partitions |-> Kafka!CommittedBy(ms)[p]]
    BY DEF Kafka!CommittedBy
  <1>3. \A p \in Kafka!Partitions : position[p] \in Nat /\ offsets[p] \in Nat /\ offsets[p] <= position[p]
    BY DEF GroupInv
  <1> QED
    BY <1>1, <1>2, <1>3

LEMMA CommitKeeps ==
    ASSUME GroupInv, NEW c \in GroupMembers, Kafka!Commit(c)
    PROVE  GroupInv'
  <1>1. /\ offsets' = Kafka!CommittedBy({c}) /\ parts' = parts /\ joined' = joined
        /\ assignment' = assignment /\ position' = position /\ polled' = polled
    BY DEF Kafka!Commit
  <1>2. /\ offsets' \in [Kafka!Partitions -> Nat]
        /\ \A p \in Kafka!Partitions : offsets'[p] <= position[p]
    BY <1>1, CommittedIsBehind
  <1>3. ASSUME NEW p \in Kafka!Partitions
        PROVE  LogOf(p)' /\ PolledOf(p)'
    <2>1. LogOf(p) /\ PolledOf(p)
      BY DEF GroupInv
    <2>2. Kafka!Sent' = Kafka!Sent
      BY <1>1 DEF Kafka!Sent
    <2> QED
      BY <1>1, <2>1, <2>2 DEF LogOf, PolledOf
  <1>4. Kafka!Balanced(assignment, joined)' <=> Kafka!Balanced(assignment, joined)
    BY <1>1 DEF Kafka!Balanced
  <1> QED
    BY <1>1, <1>2, <1>3, <1>4 DEF GroupInv

LEMMA RebalanceKeeps ==
    ASSUME GroupInv, NEW ms \in SUBSET GroupMembers, NEW by,
           Kafka!Rebalance(ms, Kafka!CommittedBy(by))
    PROVE  GroupInv'
  <1> DEFINE committedNow == Kafka!CommittedBy(by)
  <1>1. /\ committedNow \in [Kafka!Partitions -> Nat]
        /\ \A p \in Kafka!Partitions : committedNow[p] <= position[p]
    BY CommittedIsBehind
  <1> HIDE DEF committedNow
  <1>2. /\ joined' = ms /\ offsets' = committedNow /\ position' = committedNow
        /\ parts' = parts /\ polled' = polled
        /\ ms # {} => \E a \in [Kafka!Partitions -> {<<c>> : c \in ms}] :
                         Kafka!Balanced(a, ms) /\ assignment' = a
    BY DEF Kafka!Rebalance, committedNow
  <1>3. /\ position \in [Kafka!Partitions -> Nat]
        /\ parts \in [Kafka!Partitions -> Seq(Records)]
    BY DEF GroupInv
  <1>4. ASSUME NEW p \in Kafka!Partitions
        PROVE  LogOf(p)' /\ PolledOf(p)' /\ position'[p] <= Len(parts[p])
    <2>1. LogOf(p) /\ PolledOf(p) /\ position[p] <= Len(parts[p])
      BY DEF GroupInv
    <2>2. LogOf(p)'
      BY <1>2, <2>1 DEF LogOf, Kafka!Sent
    <2>3. position'[p] \in Nat /\ position[p] \in Nat /\ position'[p] <= position[p]
          /\ Len(parts[p]) \in Nat
      BY <1>1, <1>2, <1>3
    <2>4. 1..position'[p] \subseteq 1..position[p]
      BY <2>3
    <2>5. PolledOf(p)'
      BY <1>2, <2>1, <2>4 DEF PolledOf
    <2> QED
      BY <2>1, <2>2, <2>3, <2>5
  <1>5. ms # {} => /\ assignment' \in [Kafka!Partitions -> {<<c>> : c \in ms}]
                   /\ Kafka!Balanced(assignment', ms)
    BY <1>2
  <1>6. ms # {} => Kafka!Balanced(assignment, joined)'
    BY <1>2, <1>5 DEF Kafka!Balanced
  <1>7. \A p \in Kafka!Partitions : offsets'[p] <= position'[p]
    BY <1>1, <1>2
  <1> QED
    BY <1>1, <1>2, <1>3, <1>4, <1>5, <1>6, <1>7 DEF GroupInv

LEMMA GroupInvStep ==
    ASSUME IsFiniteSet(Keys), GroupInv, Kafka!GroupNext \/ UNCHANGED groupVars
    PROVE  GroupInv'
  <1>1. ASSUME NEW c \in GroupMembers, Kafka!Join(c) \/ Kafka!Leave(c) \/ Kafka!MemberCrash(c)
        PROVE  GroupInv'
    <2>1. joined \in SUBSET GroupMembers
      BY DEF GroupInv
    <2>2. joined \cup {c} \in SUBSET GroupMembers /\ joined \ {c} \in SUBSET GroupMembers
      BY <2>1
    <2> QED
      BY <1>1, <2>2, RebalanceKeeps DEF Kafka!Join, Kafka!Leave, Kafka!MemberCrash
  <1>2. CASE Kafka!Idle \/ UNCHANGED groupVars
    <2>1. /\ parts' = parts /\ joined' = joined /\ assignment' = assignment /\ position' = position
          /\ offsets' = offsets /\ polled' = polled
      BY <1>2 DEF Kafka!Idle, Kafka!groupVars, groupVars
    <2> DEFINE n == Kafka!Sent
    <2>4. n' = n
      BY <2>1 DEF Kafka!Sent
    <2> HIDE DEF n
    <2>2. \A p \in Kafka!Partitions : LogOf(p)' /\ PolledOf(p)'
      <3>1. ASSUME NEW p \in Kafka!Partitions
            PROVE  LogOf(p)'
        BY <2>1, <2>4 DEF GroupInv, LogOf, n
      <3>2. ASSUME NEW p \in Kafka!Partitions
            PROVE  PolledOf(p)'
        <4>1. PolledOf(p)
          BY DEF GroupInv
        <4>2. position'[p] = position[p] /\ polled'[p] = polled[p]
          BY <2>1
        <4> QED
          BY <4>1, <4>2 DEF PolledOf
      <3> QED
        BY <3>1, <3>2
    <2>3. Kafka!Balanced(assignment, joined)' <=> Kafka!Balanced(assignment, joined)
      BY <2>1 DEF Kafka!Balanced
    <2> QED
      BY <2>1, <2>2, <2>3 DEF GroupInv
  <1> QED
    BY <1>1, <1>2, SendKeeps, PollKeeps, CommitKeeps DEF Kafka!GroupNext

LEMMA GroupInvSuffices ==
    ASSUME IsFiniteSet(Keys), IsFiniteSet(GroupMembers), GroupInv
    PROVE  Kafka!GroupDelivers /\ Kafka!GroupTypeOK
  <1>1. Kafka!OneOwnerEach
    <2> SUFFICES ASSUME joined # {}
                 PROVE  /\ \A p \in Kafka!Partitions : assignment[p] \in {<<c>> : c \in joined}
                        /\ Kafka!Cardinality({c \in joined : Kafka!Owned(c) = {}}) =
                             IF Kafka!Cardinality(joined) > Kafka!Cardinality(Kafka!Partitions)
                             THEN Kafka!Cardinality(joined) - Kafka!Cardinality(Kafka!Partitions)
                             ELSE 0
      BY DEF Kafka!OneOwnerEach
    <2>1. \A S : Kafka!Cardinality(S) = Cardinality(S)
      BY DEF Kafka!Cardinality, Cardinality
    <2>2. IsFiniteSet(Kafka!Partitions)
      BY PartitionsFinite
    <2>3. joined \in SUBSET GroupMembers /\ assignment \in [Kafka!Partitions -> {<<c>> : c \in joined}]
      BY DEF GroupInv
    <2>4. IsFiniteSet(joined)
      BY <2>3, FS_Subset
    <2>5. \A c, d \in joined :
             Cardinality(OwnedIn(Kafka!Partitions, assignment, c))
               <= Cardinality(OwnedIn(Kafka!Partitions, assignment, d)) + 1
      BY <2>1 DEF GroupInv, Kafka!Balanced, OwnedIn
    <2>6. Cardinality(IdleIn(Kafka!Partitions, assignment, joined))
            = IF Cardinality(joined) > Cardinality(Kafka!Partitions)
              THEN Cardinality(joined) - Cardinality(Kafka!Partitions) ELSE 0
      BY <2>2, <2>3, <2>4, <2>5, IdleMembers
    <2>7. {c \in joined : Kafka!Owned(c) = {}} = IdleIn(Kafka!Partitions, assignment, joined)
      BY DEF Kafka!Owned, IdleIn, OwnedIn
    <2> QED
      BY <2>1, <2>3, <2>6, <2>7
  <1>2. ASSUME NEW p \in Kafka!Partitions
        PROVE  /\ 1..offsets[p] \subseteq Kafka!Range(polled[p])
               /\ \A i \in DOMAIN polled[p] :
                     1..polled[p][i] \subseteq Kafka!Range(SubSeq(polled[p], 1, i))
    <2>1. PolledOf(p) /\ offsets[p] <= position[p] /\ offsets[p] \in Nat /\ position[p] \in Nat
      BY DEF GroupInv
    <2>2. 1..offsets[p] \subseteq 1..position[p]
      BY <2>1
    <2>3. ASSUME NEW i \in DOMAIN polled[p]
          PROVE  1..polled[p][i] \subseteq Kafka!Range(SubSeq(polled[p], 1, i))
      <3> DEFINE s == polled[p]
      <3>1. s \in Seq(Nat) /\ i \in 1..Len(s) /\ \A n \in 1..s[i] : \E j \in 1..i : s[j] = n
        BY <2>1 DEF PolledOf
      <3> HIDE DEF s
      <3>2. DOMAIN SubSeq(s, 1, i) = 1..i /\ \A j \in 1..i : SubSeq(s, 1, i)[j] = s[j]
        BY <3>1
      <3>3. \A n \in 1..s[i] : \E j \in DOMAIN SubSeq(s, 1, i) : SubSeq(s, 1, i)[j] = n
        BY <3>1, <3>2
      <3> QED
        BY <3>3 DEF s, Kafka!Range
    <2> QED
      BY <2>1, <2>2, <2>3 DEF PolledOf, Kafka!Range
  <1>3. ASSUME NEW p \in Kafka!Partitions, NEW q \in Kafka!Partitions,
               NEW i \in DOMAIN parts[p], NEW j \in DOMAIN parts[q],
               parts[p][i].key = parts[q][j].key, parts[p][i].seq < parts[q][j].seq
        PROVE  p = q /\ i < j
    <2>1. LogOf(p) /\ LogOf(q)
      BY DEF GroupInv
    <2>2. p = q
      BY <1>3, <2>1 DEF LogOf
    <2>3. i \in Nat /\ j \in Nat /\ parts[p][i].seq \in Nat /\ parts[p][j].seq \in Nat
      <3>1. parts[p] \in Seq(Records) /\ i \in DOMAIN parts[p] /\ j \in DOMAIN parts[p]
        BY <2>1, <2>2 DEF LogOf
      <3>2. i \in Nat /\ j \in Nat /\ parts[p][i] \in Records /\ parts[p][j] \in Records
        BY <3>1
      <3> QED
        BY <3>2 DEF Records
    <2>4. ~(j < i) /\ i # j
      BY <1>3, <2>1, <2>2, <2>3 DEF LogOf
    <2> QED
      BY <2>2, <2>3, <2>4
  <1>4. Kafka!InOrderAtLeastOnce
    BY <1>2, <1>3 DEF Kafka!InOrderAtLeastOnce
  <1>5. Kafka!GroupTypeOK
    BY DEF GroupInv, Kafka!GroupTypeOK
  <1> QED
    BY <1>1, <1>4, <1>5 DEF Kafka!GroupDelivers

-----------------------------------------------------------------------------
(***************************************************************************)
(* RegisteredIsAlive, proved for any number of users, connections and      *)
(* messages: a task leaves connected_users in the block that ends it, and  *)
(* it is registered under its own user only, so that block finds it.       *)
(***************************************************************************)
Registry ==
    /\ user \in [Conns -> Users \cup {None}]
    /\ pc \in [Conns -> {"new", "ready", "flush", "flush_mark", "deliver", "mark", "ended"}]
    /\ connected \in [Users -> Conns \cup {None}]
    /\ \A c \in Conns : pc[c] = "new" <=> user[c] = None
    /\ \A u \in Users : connected[u] # None =>
          user[connected[u]] = u /\ pc[connected[u]] \notin {"new", "ended"}

\* Task c, which is alive, goes on; or it ends in its finally block.
GoesOn(c) ==
    /\ pc[c] # "new" /\ user' = user /\ connected' = connected
    /\ \/ pc' = pc
       \/ \E l \in {"ready", "flush", "flush_mark", "deliver", "mark"} : Goto(c, l)

EndsFinally(c) == pc[c] # "new" /\ user' = user /\ Finally(c)

LEMMA TaskKinds ==
    ASSUME Registry, NEW c \in Conns,
           \/ Task(c) \/ Heartbeat(c) \/ StatementFails(c)
           \/ \E m \in Messages : Read(c, m) \/ \E to \in Users : Store(c, m, to)
    PROVE  GoesOn(c) \/ EndsFinally(c)
  <1>1. CASE FlushNext(c)
    BY <1>1 DEF FlushNext, WriteNext, GoesOn, EndsFinally
  <1>2. CASE FlushMark(c)
    BY <1>2 DEF FlushMark, WriteNext, GoesOn, EndsFinally
  <1>3. CASE Deliver(c) \/ Mark(c) \/ Heartbeat(c)
    BY <1>3 DEF Deliver, Mark, Heartbeat, taskVars, GoesOn
  <1>4. CASE Ends(c) \/ StatementFails(c)
    BY <1>4 DEF Ends, StatementFails, GoesOn, EndsFinally
  <1>5. ASSUME NEW m \in Messages, Read(c, m)
        PROVE  GoesOn(c) \/ EndsFinally(c)
    BY <1>5 DEF Read, GoesOn, EndsFinally
  <1>6. ASSUME NEW m \in Messages, NEW to \in Users, Store(c, m, to)
        PROVE  GoesOn(c) \/ EndsFinally(c)
    BY <1>6 DEF Store, GoesOn, EndsFinally
  <1> QED
    BY <1>1, <1>2, <1>3, <1>4, <1>5, <1>6 DEF Task

LEMMA RegistryStep ==
    ASSUME Registry, [Next]_vars
    PROVE  Registry'
  <1>1. ASSUME NEW c \in Conns, NEW u \in Users, Auth(c, u)
        PROVE  Registry'
    BY <1>1, ServerAssumption DEF Auth, Goto, Registry
  <1>2. ASSUME NEW c \in Conns, GoesOn(c)
        PROVE  Registry'
    BY <1>2 DEF GoesOn, Goto, Registry
  <1>3. ASSUME NEW c \in Conns, EndsFinally(c)
        PROVE  Registry'
    <2>1. user[c] \in Users
      BY <1>3 DEF EndsFinally, Registry
    <2> QED
      BY <1>3, <2>1, ServerAssumption DEF EndsFinally, Finally, Goto, Registry
  <1>4. CASE Restart
    BY <1>4 DEF Restart, Registry
  <1>5. ASSUME NEW c \in Conns,
               \/ Task(c) \/ Heartbeat(c) \/ StatementFails(c)
               \/ \E m \in Messages : Read(c, m) \/ \E to \in Users : Store(c, m, to)
        PROVE  Registry'
    BY <1>2, <1>3, <1>5, TaskKinds
  <1>6. CASE UNCHANGED <<user, pc, connected>>
    BY <1>6 DEF Registry
  <1>7. ASSUME \/ UNCHANGED vars
               \/ \E c \in Conns : Network(c)
               \/ \E u \in Users : Expire(u)
        PROVE  UNCHANGED <<user, pc, connected>>
    BY <1>7 DEF vars, taskVars, Network, Expire
  <1> QED
    BY <1>1, <1>4, <1>5, <1>6, <1>7 DEF Next

-----------------------------------------------------------------------------
(***************************************************************************)
(* What waits in the chat server.  A row stays once it is stored, keeps    *)
(* its users, and never goes back to 'sent'; a queue is part of the table, *)
(* in its order; and a row that is still 'sent' is on its way, or its      *)
(* recipient is away.                                                      *)
(***************************************************************************)
Known(m) == row[m] # None
IsSent(m) == Known(m) /\ row[m].status = "sent"

Table ==
    /\ row \in [Messages -> Rows \cup {None}]
    /\ stored \in Seq(Messages)
    /\ \A i, j \in DOMAIN stored : stored[i] = stored[j] => i = j
    /\ \A m \in Messages : Known(m) <=> \E i \in DOMAIN stored : stored[i] = m

\* A step leaves the table alone, moves the status of a row on, or adds a row.
TableStays == row' = row /\ stored' = stored
StatusMoves(m, s) == row[m] # None /\ SetStatus(m, s)
RowIsAdded(m, u, v) ==
    /\ row[m] = None
    /\ row' = [row EXCEPT ![m] = [from |-> u, to |-> v, status |-> "sent"]]
    /\ stored' = Append(stored, m)

\* What every step keeps of the rows there are.
RowGrows(m) == Known(m) => /\ Known(m)' /\ row'[m].to = row[m].to /\ row'[m].from = row[m].from
                           /\ IsSent(m)' => IsSent(m)
Grows ==
    /\ \A m \in Messages : RowGrows(m)
    /\ \A i \in DOMAIN stored : i \in DOMAIN stored' /\ stored'[i] = stored[i]

LEMMA BeforeStays ==
    ASSUME Grows
    PROVE  \A m, n : Before(m, n) => Before(m, n)'
  BY DEF Grows, Before

LEMMA TableGrows ==
    ASSUME Table,
           \/ TableStays
           \/ \E m \in Messages, s \in {"delivered", "read"} : StatusMoves(m, s)
           \/ \E m \in Messages, u, v \in Users : RowIsAdded(m, u, v)
    PROVE  Table' /\ Grows
  <1>1. CASE TableStays
    BY <1>1 DEF TableStays, Table, Grows, RowGrows, Known, IsSent
  <1>2. ASSUME NEW m \in Messages, NEW s \in {"delivered", "read"}, StatusMoves(m, s)
        PROVE  Table' /\ Grows
    <2>1. /\ row \in [Messages -> Rows \cup {None}] /\ row[m] \in Rows
          /\ stored' = stored /\ row' = [row EXCEPT ![m] = [row[m] EXCEPT !.status = s]]
      BY <1>2 DEF StatusMoves, SetStatus, Table
    <2>2. [row[m] EXCEPT !.status = s] \in Rows
      BY <2>1 DEF Rows, Statuses
    <2>3. /\ row'[m].to = row[m].to /\ row'[m].from = row[m].from /\ row'[m].status = s
          /\ row'[m] \in Rows
      BY <2>1, <2>2 DEF Rows
    <2>4. \A n \in Messages : n # m => row'[n] = row[n]
      BY <2>1
    <2>5. row' \in [Messages -> Rows \cup {None}]
      BY <2>1, <2>2
    <2>6. \A n \in Messages : RowGrows(n) /\ (Known(n)' <=> Known(n))
      BY <2>1, <2>3, <2>4, ServerAssumption DEF RowGrows, Known, IsSent
    <2> QED
      BY <2>1, <2>5, <2>6 DEF Table, Grows
  <1>3. ASSUME NEW m \in Messages, NEW u \in Users, NEW v \in Users, RowIsAdded(m, u, v)
        PROVE  Table' /\ Grows
    <2> DEFINE r == [from |-> u, to |-> v, status |-> "sent"]
               n == Len(stored)
    <2>1. /\ row \in [Messages -> Rows \cup {None}] /\ stored \in Seq(Messages)
          /\ row[m] = None /\ row' = [row EXCEPT ![m] = r] /\ stored' = Append(stored, m)
      BY <1>3 DEF RowIsAdded, Table
    <2>2. r \in Rows
      BY DEF Rows, Statuses
    <2> HIDE DEF r
    <2>3. /\ n \in Nat /\ DOMAIN stored = 1..n /\ DOMAIN stored' = 1..n + 1
          /\ stored' \in Seq(Messages) /\ stored'[n + 1] = m
          /\ \A i \in 1..n : i \in 1..n + 1 /\ stored'[i] = stored[i]
      BY <2>1
    <2>4. \A i \in 1..n : stored[i] # m
      BY <2>1, <2>3 DEF Table, Known
    <2>5. row' \in [Messages -> Rows \cup {None}] /\ row'[m] = r /\ \A k \in Messages : k # m => row'[k] = row[k]
      BY <2>1, <2>2
    <2>6. \A k \in Messages : RowGrows(k)
      BY <2>1, <2>5 DEF RowGrows, Known, IsSent
    <2>7. Grows
      BY <2>3, <2>6 DEF Grows
    <2> HIDE DEF n
    <2>8. \A i \in 1..n + 1 : i = n + 1 \/ i \in 1..n
      BY <2>3
    <2>9. \A i, j \in DOMAIN stored' : stored'[i] = stored'[j] => i = j
      <3>1. \A i, j \in 1..n : stored[i] = stored[j] => i = j
        BY <2>3 DEF Table
      <3> QED
        BY <2>3, <2>4, <2>8, <3>1
    <2>10. \A k \in Messages : Known(k)' <=> \E i \in DOMAIN stored' : stored'[i] = k
      <3>1. \A k \in Messages : row[k] # None <=> \E i \in 1..n : stored[i] = k
        BY <2>3 DEF Table, Known
      <3>2. row'[m] # None /\ n + 1 \in 1..n + 1
        BY <2>2, <2>3, <2>5, ServerAssumption
      <3> QED
        BY <2>3, <2>5, <2>8, <3>1, <3>2 DEF Known
    <2> QED
      BY <2>3, <2>5, <2>7, <2>9, <2>10 DEF Table
  <1> QED
    BY <1>1, <1>2, <1>3

\* The rows fetched for user u are the rows that wait, in the order of the table.
LEMMA QueuedInOrder ==
    ASSUME Table, NEW u \in Users
    PROVE  /\ Queued(u) \in Seq(Messages)
           /\ \A i \in DOMAIN Queued(u) : IsSent(Queued(u)[i]) /\ row[Queued(u)[i]].to = u
           /\ \A i, j \in DOMAIN Queued(u) : i < j => Before(Queued(u)[i], Queued(u)[j])
           /\ \A m \in Messages : IsSent(m) /\ row[m].to = u
                 => \E i \in DOMAIN Queued(u) : Queued(u)[i] = m
  <1> DEFINE W == Undelivered(u)
             n == Len(stored)
             I == {i \in 1..n : row[stored[i]].to = u /\ row[stored[i]].status = "sent"}
             InTurn(q) == \A i, j \in DOMAIN q : i < j => Before(q[i], q[j])
  <1>1. stored \in Seq(Messages) /\ n \in Nat /\ DOMAIN stored = 1..n
    BY DEF Table
  <1>2. \A m \in Messages : m \in W <=> IsSent(m) /\ row[m].to = u
    BY <1>1 DEF Table, Undelivered, Known, IsSent, Range
  <1>3. W \in SUBSET Messages /\ \A i \in I : stored[i] \in W
    BY <1>1 DEF Undelivered, Range
  <1>4. \A m \in W : \E i \in I : stored[i] = m
    BY <1>1 DEF Undelivered, Range
  <1>5. I \in SUBSET (1..n)
    OBVIOUS
  <1>6. \A i, j \in I : stored[i] = stored[j] => i = j
    BY <1>1 DEF Table
  <1> DEFINE c == Cardinality(I)
  <1> HIDE DEF W, I, n
  <1>7. c \in Nat
    BY <1>1, <1>5, InOrder
  <1>8. PICK f \in [1..c -> I] : /\ \A i, j \in 1..c : i < j => f[i] < f[j]
                                 /\ \A k \in I : \E i \in 1..c : f[i] = k
    BY <1>1, <1>5, InOrder
  <1> DEFINE q == [i \in 1..c |-> stored[f[i]]]
  <1>9. q \in [1..c -> W] /\ \A m \in W : \E i \in 1..c : q[i] = m
    BY <1>3, <1>4, <1>8
  <1>10. InTurn(q)
    <2>1. ASSUME NEW i \in 1..c, NEW j \in 1..c, i < j
          PROVE  Before(q[i], q[j])
      <3>1. f[i] \in DOMAIN stored /\ f[j] \in DOMAIN stored /\ f[i] < f[j]
        BY <1>1, <1>5, <1>8, <2>1
      <3> QED
        BY <3>1 DEF Before
    <2> QED
      BY <2>1
  <1>11. \A i, j \in 1..c : q[i] = q[j] => i = j
    <2>1. ASSUME NEW i \in 1..c, NEW j \in 1..c, q[i] = q[j]
          PROVE  i = j
      <3>1. f[i] \in I /\ f[j] \in I /\ f[i] = f[j]
        BY <1>6, <1>8, <2>1
      <3>2. f[i] \in Nat /\ ~(f[i] < f[j]) /\ ~(f[j] < f[i])
        <4>1. f[i] \in 1..n
          BY <1>5, <3>1
        <4> QED
          BY <1>1, <3>1, <4>1
      <3>3. ~(i < j) /\ ~(j < i)
        BY <1>8, <3>2
      <3> QED
        BY <1>7, <3>3
    <2> QED
      BY <2>1
  <1>12. Cardinality(W) = c
    <2>1. \A i \in 1..c : q[i] \in W
      BY <1>9
    <2> HIDE DEF q, c
    <2> QED
      BY <1>7, <1>9, <1>11, <2>1, CountingPlaces
  <1>13. Queued(u) = CHOOSE p \in [1..c -> W] : InTurn(p)
    BY <1>12 DEF Queued, W
  <1> HIDE DEF c, q, InTurn
  <1>14. Queued(u) \in [1..c -> W] /\ InTurn(Queued(u))
    BY <1>9, <1>10, <1>13
  <1>15. \A i, j \in 1..c : i < j => Before(Queued(u)[i], Queued(u)[j])
    BY <1>14 DEF InTurn
  <1>16. \A i, j \in 1..c : Queued(u)[i] = Queued(u)[j] => i = j
    <2>1. \A m, k : Before(m, k) => \E i, j \in 1..n : i < j /\ stored[i] = m /\ stored[j] = k
      BY <1>1 DEF Before
    <2>2. ASSUME NEW m, Before(m, m)
          PROVE  FALSE
      <3>1. PICK i \in 1..n, j \in 1..n : i < j /\ stored[i] = m /\ stored[j] = m
        BY <2>1, <2>2
      <3>2. i = j
        BY <1>1, <3>1 DEF Table
      <3> QED
        BY <1>1, <3>1, <3>2
    <2>3. ASSUME NEW i \in 1..c, NEW j \in 1..c, Queued(u)[i] = Queued(u)[j]
          PROVE  i = j
      <3>1. ~(i < j) /\ ~(j < i)
        BY <1>15, <2>2, <2>3
      <3> QED
        BY <1>7, <3>1
    <2> QED
      BY <2>3
  <1>17. \A m \in W : \E i \in 1..c : Queued(u)[i] = m
    <2>1. IsFiniteSet(W) /\ Cardinality(1..c) = c /\ IsFiniteSet(1..c)
      <3>1. Undelivered(u) \in SUBSET Range(stored)
        BY DEF Undelivered
      <3>2. IsFiniteSet(1..c) /\ Cardinality(1..c) = c
        BY <1>7, FS_Interval
      <3>3. q \in Surjection(1..c, W)
        BY <1>9 DEF Surjection
      <3>4. IsFiniteSet(W)
        BY <3>2, <3>3, FS_Surjection
      <3> QED
        BY <3>2, <3>4
    <2>2. Queued(u) \in Injection(1..c, W)
      BY <1>14, <1>16 DEF Injection, IsInjective
    <2>3. Queued(u) \in Surjection(1..c, W)
      BY <1>12, <2>1, <2>2, FS_Injection
    <2> QED
      BY <2>3 DEF Surjection
  <1>18. DOMAIN Queued(u) = 1..c /\ Queued(u) \in Seq(Messages)
    BY <1>3, <1>7, <1>14
  <1> QED
    BY <1>2, <1>3, <1>14, <1>15, <1>17, <1>18

\* Who has message m on its way, and who is not there to be written to.
CarriedBy(c, m) ==
    \/ pc[c] \in {"flush", "flush_mark"} /\ \E i \in DOMAIN queue[c] : queue[c][i] = m
    \/ pc[c] \in {"deliver", "ended"} /\ cur[c] = m
Gone(u) == connected[u] = None \/ sock[connected[u]] # "open"
Arrived(u, m) == \E i \in DOMAIN inbox[u] : inbox[u][i] = m
Away(m) == (\E c \in Conns : CarriedBy(c, m)) \/ Gone(row[m].to) \/ Arrived(row[m].to, m)

TaskOK(c) ==
    /\ \A i \in DOMAIN queue[c] : Known(queue[c][i]) /\ row[queue[c][i]].to = user[c]
    /\ \A i, j \in DOMAIN queue[c] : i < j => Before(queue[c][i], queue[c][j])
    /\ pc[c] = "flush_mark" => queue[c] # <<>>
    /\ pc[c] \in {"deliver", "mark"} => cur[c] \in Messages /\ Known(cur[c])

ChatInv ==
    /\ TypeOK /\ Registry /\ Table
    /\ \A c \in Conns : TaskOK(c)
    /\ \A u \in Users : \A i \in DOMAIN inbox[u] : Known(inbox[u][i])
    /\ \A m \in Messages : IsSent(m) => Away(m)

\* What a step other than an authentication does to the queue and the message in hand
\* of connection c, to the registry, and to the devices.
Kept(c) ==
    /\ user'[c] = user[c]
    /\ queue'[c] = queue[c] \/ (queue[c] # <<>> /\ queue'[c] = Tail(queue[c]))
    /\ pc'[c] = "flush_mark" => queue'[c] # <<>>
    /\ pc'[c] \in {"deliver", "mark"} => cur'[c] \in Messages /\ row'[cur'[c]] # None
    /\ \A m \in Messages : IsSent(m) /\ IsSent(m)' /\ CarriedBy(c, m) =>
          CarriedBy(c, m)' \/ Gone(row[m].to)' \/ Arrived(row[m].to, m)'
OnlyCloses ==
    /\ \A u \in Users : connected'[u] \in {None, connected[u]}
    /\ \A c \in Conns : sock'[c] = "open" => sock[c] = "open"
InboxGrows ==
    \/ inbox' = inbox
    \/ \E u \in Users, m \in Messages : Known(m) /\ PushTo(u, m)
Keeps ==
    /\ Table' /\ Grows /\ OnlyCloses /\ InboxGrows
    /\ \A c \in Conns : Kept(c)
    /\ \A m \in Messages : IsSent(m)' => IsSent(m) \/ \E c \in Conns : CarriedBy(c, m)'

LEMMA TailOfSeq ==
    ASSUME NEW A, NEW s \in Seq(A), s # <<>>
    PROVE  /\ Tail(s) \in Seq(A) /\ Head(s) = s[1] /\ 1 \in DOMAIN s /\ Head(s) \in A
           /\ \A i \in DOMAIN Tail(s) : i \in Nat /\ i + 1 \in DOMAIN s /\ Tail(s)[i] = s[i + 1]
           /\ \A i \in DOMAIN s : i # 1 => i - 1 \in DOMAIN Tail(s) /\ Tail(s)[i - 1] = s[i]
  <1>1. Len(s) \in Nat /\ Len(s) >= 1 /\ DOMAIN s = 1..Len(s)
    OBVIOUS
  <1>2. /\ Tail(s) \in Seq(A) /\ Head(s) = s[1] /\ DOMAIN Tail(s) = 1..Len(s) - 1
        /\ \A i \in 1..Len(s) - 1 : Tail(s)[i] = s[i + 1]
    BY <1>1
  <1>3. \A i \in 1..Len(s) - 1 : i \in Nat /\ i + 1 \in 1..Len(s)
    BY <1>1
  <1>4. \A i \in 1..Len(s) : i # 1 => i - 1 \in 1..Len(s) - 1 /\ (i - 1) + 1 = i
    BY <1>1
  <1>5. 1 \in DOMAIN s /\ s[1] \in A
    BY <1>1
  <1> QED
    BY <1>1, <1>2, <1>3, <1>4, <1>5

LEMMA InboxKept ==
    ASSUME ChatInv, Table', Grows, InboxGrows, inbox' \in [Users -> Seq(Messages)]
    PROVE  /\ \A u \in Users : \A i \in DOMAIN inbox'[u] : row'[inbox'[u][i]] # None
           /\ \A u \in Users, m \in Messages : Arrived(u, m) => Arrived(u, m)'
  <1>1. /\ inbox \in [Users -> Seq(Messages)]
        /\ \A u \in Users : \A i \in DOMAIN inbox[u] : Known(inbox[u][i])
        /\ \A m \in Messages : Known(m) => Known(m)'
    BY DEF ChatInv, TypeOK, Grows, RowGrows
  <1>2. \A u \in Users : \A i \in DOMAIN inbox[u] : inbox[u][i] \in Messages
    BY <1>1
  <1>3. CASE inbox' = inbox
    BY <1>1, <1>2, <1>3 DEF Arrived, Known
  <1>4. ASSUME NEW u \in Users, NEW m \in Messages, Known(m), PushTo(u, m)
        PROVE  /\ \A v \in Users : \A i \in DOMAIN inbox'[v] : row'[inbox'[v][i]] # None
               /\ \A v \in Users, k \in Messages : Arrived(v, k) => Arrived(v, k)'
    <2> DEFINE s == inbox[u]
               n == Len(s)
    <2>1. /\ inbox'[u] = Append(s, m) /\ \A v \in Users : v # u => inbox'[v] = inbox[v]
          /\ s \in Seq(Messages)
      BY <1>1, <1>4 DEF PushTo
    <2>2. /\ DOMAIN inbox'[u] = 1..n + 1 /\ DOMAIN s = 1..n /\ n \in Nat /\ inbox'[u][n + 1] = m
          /\ \A i \in 1..n : i \in 1..n + 1 /\ inbox'[u][i] = s[i]
          /\ \A i \in 1..n + 1 : i = n + 1 \/ i \in 1..n
      BY <2>1
    <2> HIDE DEF n
    <2>3. Known(m)'
      BY <1>1, <1>4
    <2>4. \A i \in DOMAIN inbox'[u] : row'[inbox'[u][i]] # None
      <3>1. \A i \in 1..n : Known(s[i]) /\ s[i] \in Messages
        BY <1>1, <1>2, <2>2
      <3> QED
        BY <1>1, <2>2, <2>3, <3>1 DEF Known
    <2>5. \A v \in Users : v # u => \A i \in DOMAIN inbox'[v] : row'[inbox'[v][i]] # None
      BY <1>1, <1>2, <2>1 DEF Known
    <2>6. \A k \in Messages : Arrived(u, k) => Arrived(u, k)'
      BY <2>2 DEF Arrived
    <2>7. \A v \in Users, k \in Messages : v # u /\ Arrived(v, k) => Arrived(v, k)'
      BY <2>1 DEF Arrived
    <2> QED
      BY <2>4, <2>5, <2>6, <2>7
  <1> QED
    BY <1>3, <1>4 DEF InboxGrows

LEMMA TaskKept ==
    ASSUME ChatInv, Grows, NEW c \in Conns, Kept(c)
    PROVE  TaskOK(c)'
  <1>1. /\ queue[c] \in Seq(Messages) /\ TaskOK(c) /\ user'[c] = user[c]
        /\ \A m, n : Before(m, n) => Before(m, n)'
        /\ \A m \in Messages : Known(m) => Known(m)' /\ row'[m].to = row[m].to
    BY BeforeStays DEF ChatInv, TypeOK, Kept, Grows, RowGrows
  <1> DEFINE Fine(s) == /\ \A i \in DOMAIN s : Known(s[i]) /\ row[s[i]].to = user[c]
                        /\ \A i, j \in DOMAIN s : i < j => Before(s[i], s[j])
  <1>2. queue'[c] \in Seq(Messages) /\ Fine(queue'[c])
    <2>1. CASE queue'[c] = queue[c]
      BY <1>1, <2>1 DEF TaskOK
    <2>2. CASE queue[c] # <<>> /\ queue'[c] = Tail(queue[c])
      <3> DEFINE s == queue[c]
      <3>1. /\ Tail(s) \in Seq(Messages)
            /\ \A i \in DOMAIN Tail(s) : i \in Nat /\ i + 1 \in DOMAIN s /\ Tail(s)[i] = s[i + 1]
        BY <1>1, <2>2, TailOfSeq
      <3>2. Fine(s)
        BY <1>1 DEF TaskOK
      <3>3. \A i \in DOMAIN Tail(s) : Known(Tail(s)[i]) /\ row[Tail(s)[i]].to = user[c]
        BY <3>1, <3>2
      <3>4. ASSUME NEW i \in DOMAIN Tail(s), NEW j \in DOMAIN Tail(s), i < j
            PROVE  Before(Tail(s)[i], Tail(s)[j])
        <4>1. i + 1 < j + 1 /\ i + 1 \in DOMAIN s /\ j + 1 \in DOMAIN s
          BY <3>1, <3>4
        <4>2. Before(s[i + 1], s[j + 1])
          BY <3>2, <4>1
        <4> QED
          BY <3>1, <4>2
      <3> QED
        BY <2>2, <3>1, <3>3, <3>4
    <2> QED
      BY <2>1, <2>2 DEF Kept
  <1>3. \A i \in DOMAIN queue'[c] : queue'[c][i] \in Messages
    BY <1>2
  <1>4. \A i \in DOMAIN queue'[c] : row'[queue'[c][i]] # None /\ row'[queue'[c][i]].to = user'[c]
    BY <1>1, <1>2, <1>3 DEF Known
  <1>5. (\A i, j \in DOMAIN queue[c] : i < j => Before(queue[c][i], queue[c][j]))'
    <2>1. ASSUME NEW i \in DOMAIN queue'[c], NEW j \in DOMAIN queue'[c], i < j
          PROVE  \E k, l \in DOMAIN stored' : k < l /\ stored'[k] = queue'[c][i] /\ stored'[l] = queue'[c][j]
      <3> DEFINE m == queue'[c][i]
                 n == queue'[c][j]
      <3>1. Before(m, n)
        BY <1>2, <2>1
      <3> HIDE DEF m, n
      <3>2. \E k, l \in DOMAIN stored' : k < l /\ stored'[k] = m /\ stored'[l] = n
        BY <1>1, <3>1 DEF Before
      <3> QED
        BY <3>2 DEF m, n
    <2> QED
      BY <2>1 DEF Before
  <1>6. /\ pc'[c] = "flush_mark" => queue'[c] # <<>>
        /\ pc'[c] \in {"deliver", "mark"} => cur'[c] \in Messages /\ row'[cur'[c]] # None
    BY DEF Kept
  <1> QED
    BY <1>4, <1>5, <1>6 DEF TaskOK, Known

LEMMA ChatKept ==
    ASSUME ChatInv, TypeOK', Registry', Keeps
    PROVE  ChatInv'
  <1>1. \A u \in Users : \A i \in DOMAIN inbox'[u] : row'[inbox'[u][i]] # None
    BY InboxKept DEF Keeps, TypeOK
  <1>2. \A c \in Conns : TaskOK(c)'
    BY TaskKept DEF Keeps
  <1>3. ASSUME NEW m \in Messages, IsSent(m)'
        PROVE  Away(m)'
    <2>1. CASE ~IsSent(m)
      BY <1>3, <2>1 DEF Keeps, Away
    <2>2. CASE IsSent(m)
      <3>1. row[m].to \in Users /\ row'[m].to = row[m].to /\ Away(m)
        <4>1. row[m] \in Rows
          BY <2>2 DEF ChatInv, Table, IsSent, Known
        <4>2. row'[m].to = row[m].to
          BY <2>2 DEF Keeps, Grows, RowGrows, IsSent
        <4> QED
          BY <2>2, <4>1, <4>2 DEF ChatInv, Rows
      <3> DEFINE u == row[m].to
      <3>2. Gone(u) => Gone(u)'
        <4>1. connected'[u] \in {None, connected[u]} /\ connected[u] \in Conns \cup {None}
          BY <3>1 DEF Keeps, OnlyCloses, ChatInv, Registry
        <4>2. \A c \in Conns : sock'[c] = "open" => sock[c] = "open"
          BY DEF Keeps, OnlyCloses
        <4> QED
          BY <3>1, <4>1, <4>2, ServerAssumption DEF Gone
      <3>3. Arrived(u, m) => Arrived(u, m)'
        BY <3>1, InboxKept DEF Keeps, TypeOK
      <3>4. ASSUME NEW c \in Conns, CarriedBy(c, m)
            PROVE  CarriedBy(c, m)' \/ Gone(u)' \/ Arrived(u, m)'
        BY <1>3, <2>2, <3>4 DEF Keeps, Kept
      <3>5. (\E c \in Conns : CarriedBy(c, m)') \/ Gone(u)' \/ Arrived(u, m)'
        BY <3>1, <3>2, <3>3, <3>4 DEF Away
      <3> QED
        BY <3>1, <3>5 DEF Away, Gone, Arrived
    <2> QED
      BY <2>1, <2>2
  <1>4. TypeOK' /\ Registry' /\ Table'
    BY DEF Keeps
  <1> QED
    BY <1>1, <1>2, <1>3, <1>4 DEF ChatInv, Known

LEMMA Unmoved ==
    ASSUME ChatInv, Grows, NEW c \in Conns, user'[c] = user[c], queue'[c] = queue[c],
           pc'[c] = pc[c], cur'[c] = cur[c]
    PROVE  Kept(c)
  <1>1. TaskOK(c) /\ \A m \in Messages : Known(m) => row'[m] # None
    BY DEF ChatInv, Grows, RowGrows, Known
  <1>2. pc'[c] = "flush_mark" => queue'[c] # <<>>
    BY <1>1 DEF TaskOK
  <1>3. pc'[c] \in {"deliver", "mark"} => cur'[c] \in Messages /\ row'[cur'[c]] # None
    BY <1>1 DEF TaskOK
  <1>4. \A m : CarriedBy(c, m) => CarriedBy(c, m)'
    BY DEF CarriedBy
  <1> QED
    BY <1>2, <1>3, <1>4 DEF Kept

\* A connection whose task goes on has a user, and a queue of that user's messages.
LEMMA Alive ==
    ASSUME ChatInv, NEW c \in Conns, pc[c] # "new"
    PROVE  /\ user[c] \in Users /\ queue[c] \in Seq(Messages)
           /\ \A i \in DOMAIN queue[c] : /\ queue[c][i] \in Messages /\ Known(queue[c][i])
                                         /\ row[queue[c][i]].to = user[c]
           /\ pc[c] = "flush_mark" => queue[c] # <<>>
           /\ pc[c] \in {"deliver", "mark"} => cur[c] \in Messages /\ Known(cur[c])
  <1>1. Registry /\ TaskOK(c) /\ queue[c] \in Seq(Messages)
    BY DEF ChatInv, TypeOK
  <1>2. user[c] \in Users
    BY <1>1 DEF Registry
  <1>3. \A i \in DOMAIN queue[c] : queue[c][i] \in Messages
    BY <1>1
  <1> QED
    BY <1>1, <1>2, <1>3 DEF TaskOK

LEMMA FinallyKeeps ==
    ASSUME ChatInv, Grows, NEW c \in Conns, pc[c] \in {"ready", "flush", "flush_mark"},
           Finally(c), user' = user,
           queue'[c] = queue[c] \/ (queue[c] # <<>> /\ queue'[c] = Tail(queue[c]))
    PROVE  OnlyCloses /\ Kept(c)
  <1>1. /\ user[c] \in Users /\ \A i \in DOMAIN queue[c] : row[queue[c][i]].to = user[c]
    BY Alive
  <1>2. /\ connected \in [Users -> Conns \cup {None}] /\ connected' = [connected EXCEPT ![user[c]] = None]
        /\ sock' = [sock EXCEPT ![c] = "closed"] /\ sock \in [Conns -> {"none", "open", "dead", "closed"}]
        /\ pc'[c] = "ended"
    BY DEF Finally, Goto, ChatInv, Registry, TypeOK
  <1>3. OnlyCloses
    BY <1>2 DEF OnlyCloses
  <1>4. ASSUME NEW m \in Messages, IsSent(m), CarriedBy(c, m)
        PROVE  connected'[row'[m].to] = None
    <2>1. row[m].to = user[c]
      BY <1>1, <1>4 DEF CarriedBy
    <2>2. row'[m].to = user[c]
      BY <1>4, <2>1 DEF Grows, RowGrows, IsSent
    <2> QED
      BY <1>1, <1>2, <2>2
  <1> QED
    BY <1>2, <1>3, <1>4 DEF Kept, Gone

\* What a write to a device does.
LEMMA PushType ==
    ASSUME inbox \in [Users -> Seq(Messages)], NEW u \in Users, NEW m \in Messages,
           inbox' = inbox \/ PushTo(u, m)
    PROVE  inbox' \in [Users -> Seq(Messages)]
  <1>1. Append(inbox[u], m) \in Seq(Messages)
    OBVIOUS
  <1> QED
    BY <1>1 DEF PushTo

LEMMA ToldType ==
    ASSUME told \in [Messages -> SUBSET Statuses], NEW m \in Messages, NEW s \in Statuses,
           told' = told \/ told' = [told EXCEPT ![m] = @ \cup {s}]
    PROVE  told' \in [Messages -> SUBSET Statuses]
  <1>1. told[m] \cup {s} \in SUBSET Statuses
    <2>1. told[m] \in SUBSET Statuses
      OBVIOUS
    <2> QED
      BY <2>1
  <1> QED
    BY <1>1

\* Of the queue of connection c, what is still 'sent' after the step is in q.
LeftIn(c, q) ==
    \A m \in Messages : IsSent(m)' /\ (\E i \in DOMAIN queue[c] : queue[c][i] = m)
                           => \E i \in DOMAIN q : q[i] = m

\* The next turn of the flush: what is left of the queue is still carried.
LEMMA WriteKeeps ==
    ASSUME ChatInv, Grows, NEW c \in Conns, pc[c] \in {"flush", "flush_mark"}, NEW q,
           q = queue[c] \/ (queue[c] # <<>> /\ q = Tail(queue[c])),
           WriteNext(c, q), user' = user, cur' = cur, queue' = [queue EXCEPT ![c] = q],
           LeftIn(c, q)
    PROVE  /\ OnlyCloses /\ InboxGrows /\ \A d \in Conns : Kept(d)
           /\ sock' \in [Conns -> {"none", "open", "dead", "closed"}]
           /\ online' \in [Users -> BOOLEAN] /\ inbox' \in [Users -> Seq(Messages)]
           /\ queue' \in [Conns -> Seq(Messages)]
  <1>1. /\ pc \in [Conns -> {"new", "ready", "flush", "flush_mark", "deliver", "mark", "ended"}]
        /\ queue \in [Conns -> Seq(Messages)] /\ inbox \in [Users -> Seq(Messages)]
        /\ online \in [Users -> BOOLEAN] /\ sock \in [Conns -> {"none", "open", "dead", "closed"}]
        /\ connected \in [Users -> Conns \cup {None}]
    BY DEF ChatInv, TypeOK
  <1>2. /\ user[c] \in Users
        /\ \A i \in DOMAIN queue[c] : queue[c][i] \in Messages /\ Known(queue[c][i])
    BY Alive
  <1>3. q \in Seq(Messages) /\ \A i \in DOMAIN q : q[i] \in Messages /\ Known(q[i])
    <2>1. CASE q = queue[c]
      BY <1>1, <1>2, <2>1
    <2>2. CASE queue[c] # <<>> /\ q = Tail(queue[c])
      BY <1>1, <1>2, <2>2, TailOfSeq
    <2> QED
      BY <2>1, <2>2
  <1>4. queue'[c] = q /\ queue' \in [Conns -> Seq(Messages)] /\ \A d \in Conns \ {c} : queue'[d] = queue[d]
    BY <1>1, <1>3
  <1>5. \A d \in Conns \ {c} : pc'[d] = pc[d]
    BY <1>1 DEF WriteNext, Finally, Goto
  <1>6. \A d \in Conns \ {c} : Kept(d)
    BY <1>4, <1>5, Unmoved
  <1>7. ASSUME pc'[c] \in {"flush", "flush_mark"}
        PROVE  \A m \in Messages : IsSent(m)' /\ CarriedBy(c, m) => CarriedBy(c, m)'
    BY <1>4, <1>7 DEF CarriedBy, LeftIn
  <1>8. CASE q = <<>>
    <2>1. /\ pc'[c] = "ready" /\ inbox' = inbox /\ sock' = sock /\ connected' = connected /\ online' = online
      BY <1>1, <1>8 DEF WriteNext, Goto
    <2>2. \A m \in Messages : IsSent(m)' => ~CarriedBy(c, m)
      BY <1>8 DEF CarriedBy, LeftIn
    <2>3. Kept(c)
      BY <1>4, <2>1, <2>2 DEF Kept
    <2> QED
      BY <1>1, <1>4, <1>6, <2>1, <2>3 DEF OnlyCloses, InboxGrows
  <1>9. CASE q # <<>> /\ sock[c] = "closed"
    <2>1. Finally(c) /\ inbox' = inbox
      BY <1>9 DEF WriteNext
    <2>2. OnlyCloses /\ Kept(c)
      BY <1>4, <2>1, FinallyKeeps
    <2> QED
      BY <1>1, <1>2, <1>4, <1>6, <2>1, <2>2 DEF InboxGrows, Finally
  <1>10. CASE q # <<>> /\ sock[c] # "closed"
    <2>1. /\ Push(c, Head(q)) /\ pc'[c] = "flush_mark" /\ sock' = sock /\ connected' = connected
          /\ online' = online
      BY <1>1, <1>10 DEF WriteNext, Goto
    <2>2. Head(q) \in Messages /\ Known(Head(q))
      BY <1>3, <1>10, TailOfSeq
    <2>3. inbox' = inbox \/ PushTo(user[c], Head(q))
      BY <2>1 DEF Push
    <2>4. InboxGrows
      BY <1>2, <2>2, <2>3 DEF InboxGrows
    <2>5. inbox' \in [Users -> Seq(Messages)]
      BY <1>1, <1>2, <2>2, <2>3, PushType
    <2>6. Kept(c)
      BY <1>4, <1>7, <1>10, <2>1 DEF Kept
    <2> QED
      BY <1>1, <1>4, <1>6, <2>1, <2>4, <2>5, <2>6 DEF OnlyCloses
  <1> QED
    BY <1>8, <1>9, <1>10

LEMMA FlushNextKeeps ==
    ASSUME ChatInv, NEW c \in Conns, FlushNext(c)
    PROVE  TypeOK' /\ Keeps
  <1>1. /\ pc[c] = "flush" /\ WriteNext(c, queue[c])
        /\ user' = user /\ queue' = queue /\ cur' = cur /\ row' = row /\ stored' = stored
        /\ told' = told /\ sends' = sends /\ faults' = faults
    BY DEF FlushNext, dbVars
  <1>2. Table' /\ Grows
    BY <1>1, TableGrows DEF ChatInv, TableStays
  <1>3. queue' = [queue EXCEPT ![c] = queue[c]]
    BY <1>1 DEF ChatInv, TypeOK
  <1>4. /\ OnlyCloses /\ InboxGrows /\ \A d \in Conns : Kept(d)
        /\ sock' \in [Conns -> {"none", "open", "dead", "closed"}]
        /\ online' \in [Users -> BOOLEAN] /\ inbox' \in [Users -> Seq(Messages)]
    <2>1. LeftIn(c, queue[c])
      BY DEF LeftIn
    <2> QED
      BY <1>1, <1>2, <1>3, <2>1, WriteKeeps
  <1>5. Registry'
    BY RegistryStep DEF ChatInv, Next, Task
  <1>6. TypeOK'
    BY <1>1, <1>2, <1>4, <1>5 DEF ChatInv, TypeOK, Registry, Table
  <1> QED
    BY <1>1, <1>2, <1>4, <1>6 DEF Keeps, IsSent, Known

LEMMA FlushMarkKeeps ==
    ASSUME ChatInv, NEW c \in Conns, FlushMark(c)
    PROVE  TypeOK' /\ Keeps
  <1> DEFINE m == Head(queue[c])
  <1>1. /\ pc[c] = "flush_mark" /\ SetStatus(m, "delivered") /\ Notify(m, "delivered")
        /\ queue' = [queue EXCEPT ![c] = Tail(queue[c])]
        /\ user' = user /\ cur' = cur /\ sends' = sends /\ faults' = faults
        /\ \/ Goto(c, "flush") /\ UNCHANGED <<sock, connected, online, inbox>>
           \/ WriteNext(c, Tail(queue[c]))
    BY DEF FlushMark
  <1>2. /\ queue[c] \in Seq(Messages) /\ queue[c] # <<>>
        /\ m \in Messages /\ Known(m)
        /\ \A i \in DOMAIN queue[c] : i # 1 => i - 1 \in DOMAIN Tail(queue[c]) /\ Tail(queue[c])[i - 1] = queue[c][i]
        /\ queue[c][1] = m /\ Tail(queue[c]) \in Seq(Messages)
    BY <1>1, Alive, TailOfSeq
  <1>3. Table' /\ Grows
    BY <1>1, <1>2, TableGrows DEF ChatInv, StatusMoves, Known
  <1>4. row'[m].status = "delivered" /\ \A k \in Messages : k # m => row'[k] = row[k]
    <2>1. row[m] \in Rows /\ row \in [Messages -> Rows \cup {None}]
      BY <1>2 DEF ChatInv, Table, Known
    <2> QED
      BY <1>1, <1>2, <2>1 DEF SetStatus, Rows
  <1>5. \A k \in Messages : IsSent(k)' /\ (\E i \in DOMAIN queue[c] : queue[c][i] = k)
                               => \E i \in DOMAIN Tail(queue[c]) : Tail(queue[c])[i] = k
    BY <1>2, <1>4 DEF IsSent
  <1> DEFINE q == Tail(queue[c])
  <1>6. /\ OnlyCloses /\ InboxGrows /\ \A d \in Conns : Kept(d)
        /\ sock' \in [Conns -> {"none", "open", "dead", "closed"}]
        /\ online' \in [Users -> BOOLEAN] /\ inbox' \in [Users -> Seq(Messages)]
        /\ queue' \in [Conns -> Seq(Messages)]
    <2>1. CASE WriteNext(c, q)
      <3>1. /\ q = Tail(queue[c]) /\ pc[c] \in {"flush", "flush_mark"}
            /\ queue' = [queue EXCEPT ![c] = q] /\ user' = user /\ cur' = cur
        BY <1>1
      <3>2. LeftIn(c, q)
        BY <1>5 DEF LeftIn
      <3>3. queue[c] # <<>>
        BY <1>2
      <3> HIDE DEF m, q
      <3>4. q = queue[c] \/ (queue[c] # <<>> /\ q = Tail(queue[c]))
        BY <3>1, <3>3
      <3> QED
        BY <1>3, <2>1, <3>1, <3>2, <3>4, WriteKeeps
    <2>2. CASE Goto(c, "flush") /\ UNCHANGED <<sock, connected, online, inbox>>
      <3>1. /\ pc'[c] = "flush" /\ \A d \in Conns \ {c} : pc'[d] = pc[d] /\ queue'[d] = queue[d]
            /\ queue'[c] = q /\ queue' \in [Conns -> Seq(Messages)]
        BY <1>1, <1>2, <2>2 DEF Goto, ChatInv, TypeOK
      <3>2. \A d \in Conns \ {c} : Kept(d)
        BY <1>1, <1>3, <3>1, Unmoved
      <3>3. \A k \in Messages : IsSent(k)' /\ CarriedBy(c, k) => CarriedBy(c, k)'
        BY <1>1, <1>5, <3>1 DEF CarriedBy
      <3>4. Kept(c)
        BY <1>1, <1>2, <3>1, <3>3 DEF Kept
      <3>5. OnlyCloses /\ InboxGrows
        BY <2>2 DEF OnlyCloses, InboxGrows
      <3>6. /\ sock' \in [Conns -> {"none", "open", "dead", "closed"}]
            /\ online' \in [Users -> BOOLEAN] /\ inbox' \in [Users -> Seq(Messages)]
        BY <2>2 DEF ChatInv, TypeOK
      <3> QED
        BY <3>1, <3>2, <3>4, <3>5, <3>6
    <2> QED
      BY <1>1, <2>1, <2>2
  <1>7. Registry'
    BY RegistryStep DEF ChatInv, Next, Task
  <1>8. told' \in [Messages -> SUBSET Statuses]
    <2>1. told' = told \/ told' = [told EXCEPT ![m] = @ \cup {"delivered"}]
      BY <1>1 DEF Notify, Receipt
    <2> HIDE DEF m
    <2> QED
      BY <1>2, <2>1, ToldType DEF ChatInv, TypeOK, Statuses
  <1>9. TypeOK'
    BY <1>1, <1>3, <1>6, <1>7, <1>8 DEF ChatInv, TypeOK, Registry, Table
  <1>10. \A k \in Messages : IsSent(k)' => IsSent(k)
    BY <1>4 DEF IsSent, Known
  <1> QED
    BY <1>3, <1>6, <1>9, <1>10 DEF Keeps

LEMMA TableUntouched ==
    ASSUME ChatInv, row' = row, stored' = stored
    PROVE  Table' /\ Grows /\ \A m \in Messages : IsSent(m)' => IsSent(m)
  BY TableGrows DEF ChatInv, TableStays, IsSent, Known

LEMMA StatusMoved ==
    ASSUME Table, NEW m \in Messages, Known(m), NEW s \in {"delivered", "read"}, SetStatus(m, s)
    PROVE  \A k \in Messages : IsSent(k)' => IsSent(k)
  <1>1. row \in [Messages -> Rows \cup {None}] /\ row[m] \in Rows
    BY DEF Table, Known
  <1>2. row'[m].status = s /\ \A k \in Messages : k # m => row'[k] = row[k]
    BY <1>1 DEF SetStatus, Rows
  <1> QED
    BY <1>2 DEF IsSent, Known

LEMMA DeliverKeeps ==
    ASSUME ChatInv, NEW c \in Conns, Deliver(c)
    PROVE  TypeOK' /\ Keeps
  <1> DEFINE m == cur[c]
             to == row[m].to
  <1>1. /\ pc[c] = "deliver" /\ sock' = sock /\ user' = user /\ queue' = queue /\ connected' = connected
        /\ online' = online /\ row' = row /\ stored' = stored /\ told' = told /\ sends' = sends
        /\ faults' = faults
    BY DEF Deliver, dbVars
  <1>2. Table' /\ Grows /\ \A k \in Messages : IsSent(k)' => IsSent(k)
    BY <1>1, TableUntouched
  <1>3. m \in Messages /\ Known(m) /\ user[c] \in Users
    BY <1>1, Alive
  <1>4. to \in Users
    <2>1. row[m] \in Rows
      BY <1>3 DEF ChatInv, Table, Known
    <2> QED
      BY <2>1 DEF Rows
  <1>5. /\ pc \in [Conns -> {"new", "ready", "flush", "flush_mark", "deliver", "mark", "ended"}]
        /\ cur \in [Conns -> Messages \cup {None}] /\ inbox \in [Users -> Seq(Messages)]
        /\ connected \in [Users -> Conns \cup {None}]
        /\ \A u \in Users : connected[u] # None => user[connected[u]] = u
    BY DEF ChatInv, TypeOK, Registry
  <1> HIDE DEF to
  <1>6. \A d \in Conns \ {c} : pc'[d] = pc[d] /\ cur'[d] = cur[d]
    BY <1>5 DEF Deliver, Goto
  <1>7. \A d \in Conns \ {c} : Kept(d)
    BY <1>1, <1>2, <1>6, Unmoved
  <1>8. OnlyCloses
    BY <1>1 DEF OnlyCloses
  <1>9. CASE Reachable(to)
    <2>1. Push(connected[to], m) /\ pc'[c] = "mark" /\ cur' = cur
      BY <1>5, <1>9 DEF Deliver, Goto, to
    <2>2. connected[to] # None /\ user[connected[to]] = to
      BY <1>4, <1>5, <1>9 DEF Reachable
    <2>3. inbox' = inbox \/ PushTo(to, m)
      BY <2>1, <2>2 DEF Push
    <2>4. inbox' \in [Users -> Seq(Messages)] /\ InboxGrows
      BY <1>3, <1>4, <1>5, <2>3, PushType DEF InboxGrows
    <2>5. sock[connected[to]] = "open" => \E i \in DOMAIN inbox'[to] : inbox'[to][i] = m
      <3>1. SUFFICES ASSUME inbox'[to] = Append(inbox[to], m)
                     PROVE  \E i \in DOMAIN inbox'[to] : inbox'[to][i] = m
        BY <1>4, <1>5, <2>1, <2>2 DEF Push, PushTo
      <3>2. inbox[to] \in Seq(Messages)
        BY <1>4, <1>5
      <3>3. Len(inbox[to]) + 1 \in DOMAIN Append(inbox[to], m)
            /\ Append(inbox[to], m)[Len(inbox[to]) + 1] = m
        BY <3>2
      <3> QED
        BY <3>1, <3>3
    <2>6. Gone(to)' \/ Arrived(to, m)'
      <3> DEFINE u == to
      <3>1. row'[m].to = u /\ cur'[c] = m
        BY <1>1, <2>1 DEF to
      <3>2. to' = to
        BY <3>1 DEF to
      <3> QED
        BY <1>1, <2>1, <2>5, <3>2 DEF Gone, Arrived
    <2>7. ASSUME NEW k \in Messages, CarriedBy(c, k)
          PROVE  Gone(row[k].to)' \/ Arrived(row[k].to, k)'
      <3>1. k = m
        BY <1>1, <2>7 DEF CarriedBy
      <3>2. cur'[c] = m
        BY <2>1
      <3> QED
        BY <1>1, <2>6, <3>1, <3>2 DEF Gone, Arrived, to
    <2>8. Kept(c)
      BY <1>1, <1>2, <1>3, <2>1, <2>7 DEF Kept, Known
    <2>9. TypeOK'
      <3>1. pc' \in [Conns -> {"new", "ready", "flush", "flush_mark", "deliver", "mark", "ended"}]
        BY <1>5, <1>9 DEF Deliver, Goto, to
      <3> QED
        BY <1>1, <1>2, <2>1, <2>4, <3>1 DEF ChatInv, TypeOK, Table
    <2> QED
      BY <1>2, <1>7, <1>8, <2>4, <2>8, <2>9 DEF Keeps
  <1>10. CASE ~Reachable(to)
    <2>1. pc'[c] = "ready" /\ inbox' = inbox /\ cur' = [cur EXCEPT ![c] = None]
      BY <1>5, <1>10 DEF Deliver, Goto, to
    <2>2. ASSUME NEW k \in Messages, CarriedBy(c, k)
          PROVE  Gone(row[k].to)'
      <3>1. k = m
        BY <1>1, <2>2 DEF CarriedBy
      <3>2. Gone(row[k].to)
        BY <1>10, <3>1 DEF Reachable, Gone, to
      <3> QED
        BY <1>1, <3>2 DEF Gone
    <2>3. Kept(c)
      BY <1>1, <2>1, <2>2 DEF Kept
    <2>4. InboxGrows
      BY <2>1 DEF InboxGrows
    <2>5. TypeOK'
      <3>1. pc' \in [Conns -> {"new", "ready", "flush", "flush_mark", "deliver", "mark", "ended"}]
        BY <1>5, <1>10 DEF Deliver, Goto, to
      <3>2. cur' \in [Conns -> Messages \cup {None}]
        BY <1>5, <2>1
      <3> QED
        BY <1>1, <1>2, <2>1, <3>1, <3>2 DEF ChatInv, TypeOK, Table
    <2> QED
      BY <1>2, <1>7, <1>8, <2>3, <2>4, <2>5 DEF Keeps
  <1> QED
    BY <1>9, <1>10

LEMMA MarkKeeps ==
    ASSUME ChatInv, NEW c \in Conns, Mark(c)
    PROVE  TypeOK' /\ Keeps
  <1> DEFINE m == cur[c]
  <1>1. /\ pc[c] = "mark" /\ SetStatus(m, "delivered") /\ Receipt(c, m, "delivered")
        /\ Goto(c, "ready") /\ cur' = [cur EXCEPT ![c] = None]
        /\ sock' = sock /\ user' = user /\ queue' = queue /\ connected' = connected
        /\ online' = online /\ inbox' = inbox /\ sends' = sends /\ faults' = faults
    BY DEF Mark
  <1>2. m \in Messages /\ Known(m)
    BY <1>1, Alive
  <1>3. Table' /\ Grows
    BY <1>1, <1>2, TableGrows DEF ChatInv, StatusMoves, Known
  <1>4. /\ pc'[c] = "ready" /\ \A d \in Conns \ {c} : pc'[d] = pc[d] /\ cur'[d] = cur[d]
        /\ cur' \in [Conns -> Messages \cup {None}]
        /\ pc' \in [Conns -> {"new", "ready", "flush", "flush_mark", "deliver", "mark", "ended"}]
    BY <1>1 DEF Goto, ChatInv, TypeOK
  <1>5. \A d \in Conns \ {c} : Kept(d)
    BY <1>1, <1>3, <1>4, Unmoved
  <1>6. Kept(c)
    BY <1>1, <1>4 DEF Kept, CarriedBy
  <1>7. OnlyCloses /\ InboxGrows
    BY <1>1 DEF OnlyCloses, InboxGrows
  <1>8. told' \in [Messages -> SUBSET Statuses]
    <2>1. told' = told \/ told' = [told EXCEPT ![m] = @ \cup {"delivered"}]
      BY <1>1 DEF Receipt
    <2> HIDE DEF m
    <2> QED
      BY <1>2, <2>1, ToldType DEF ChatInv, TypeOK, Statuses
  <1>9. TypeOK'
    BY <1>1, <1>3, <1>4, <1>8 DEF ChatInv, TypeOK, Table
  <1>10. \A k \in Messages : IsSent(k)' => IsSent(k)
    BY <1>1, <1>2, StatusMoved DEF ChatInv
  <1> QED
    BY <1>3, <1>5, <1>6, <1>7, <1>9, <1>10 DEF Keeps

LEMMA ReadKeeps ==
    ASSUME ChatInv, NEW c \in Conns, NEW m \in Messages, Read(c, m)
    PROVE  TypeOK' /\ Keeps
  <1>1. /\ pc[c] = "ready" /\ m \in Range(inbox[user[c]]) /\ SetStatus(m, "read")
        /\ user' = user /\ queue' = queue /\ cur' = cur /\ inbox' = inbox /\ sends' = sends
        /\ faults' = faults
        /\ \/ Finally(c) /\ told' = told
           \/ Notify(m, "read") /\ UNCHANGED <<sock, connected, online, pc>>
    BY DEF Read
  <1>2. user[c] \in Users /\ Known(m)
    <2>1. user[c] \in Users
      BY <1>1, Alive
    <2>2. \A i \in DOMAIN inbox[user[c]] : Known(inbox[user[c]][i])
      BY <2>1 DEF ChatInv
    <2> QED
      BY <1>1, <2>1, <2>2 DEF Range
  <1>3. Table' /\ Grows
    BY <1>1, <1>2, TableGrows DEF ChatInv, StatusMoves, Known
  <1>4. InboxGrows
    BY <1>1 DEF InboxGrows
  <1>5. \A k \in Messages : IsSent(k)' => IsSent(k)
    BY <1>1, <1>2, StatusMoved DEF ChatInv
  <1>6. OnlyCloses /\ \A d \in Conns : Kept(d)
    <2>1. CASE Finally(c)
      <3>1. OnlyCloses /\ Kept(c)
        BY <1>1, <1>3, <2>1, FinallyKeeps
      <3>2. \A d \in Conns \ {c} : pc'[d] = pc[d]
        BY <2>1 DEF Finally, Goto, ChatInv, TypeOK
      <3>3. \A d \in Conns \ {c} : Kept(d)
        BY <1>1, <1>3, <3>2, Unmoved
      <3> QED
        BY <3>1, <3>3
    <2>2. CASE UNCHANGED <<sock, connected, online, pc>>
      <3>1. \A d \in Conns : Kept(d)
        BY <1>1, <1>3, <2>2, Unmoved
      <3> QED
        BY <2>2, <3>1 DEF OnlyCloses
    <2> QED
      BY <1>1, <2>1, <2>2
  <1>7. told' \in [Messages -> SUBSET Statuses]
    <2>1. told' = told \/ told' = [told EXCEPT ![m] = @ \cup {"read"}]
      BY <1>1 DEF Notify, Receipt
    <2> QED
      BY <2>1, ToldType DEF ChatInv, TypeOK, Statuses
  <1>8. /\ pc' \in [Conns -> {"new", "ready", "flush", "flush_mark", "deliver", "mark", "ended"}]
        /\ sock' \in [Conns -> {"none", "open", "dead", "closed"}]
        /\ connected' \in [Users -> Conns \cup {None}] /\ online' \in [Users -> BOOLEAN]
    BY <1>1, <1>2 DEF Finally, Goto, ChatInv, TypeOK
  <1>9. TypeOK'
    BY <1>1, <1>3, <1>7, <1>8 DEF ChatInv, TypeOK, Table
  <1> QED
    BY <1>3, <1>4, <1>5, <1>6, <1>9 DEF Keeps

\* A message is stored: its task has it in hand, or ended with it in hand.
LEMMA StoreKeeps ==
    ASSUME ChatInv, NEW c \in Conns, NEW m \in Messages, NEW to \in Users, Store(c, m, to)
    PROVE  TypeOK' /\ Keeps
  <1>1. /\ pc[c] = "ready" /\ Insert(m, user[c], to) /\ cur' = [cur EXCEPT ![c] = m]
        /\ sends[m] < MaxSends /\ sends' = [sends EXCEPT ![m] = @ + 1]
        /\ user' = user /\ queue' = queue /\ inbox' = inbox /\ faults' = faults
        /\ \/ Finally(c) /\ told' = told
           \/ /\ Receipt(c, m, "sent") /\ Goto(c, "deliver")
              /\ UNCHANGED <<sock, connected, online>>
    BY DEF Store
  <1>2. user[c] \in Users
    BY <1>1, Alive
  <1>3. Table' /\ Grows
    <2>1. TableStays \/ RowIsAdded(m, user[c], to)
      BY <1>1 DEF Insert, dbVars, TableStays, RowIsAdded
    <2> QED
      BY <1>2, <2>1, TableGrows DEF ChatInv
  <1>4. row'[m] # None /\ \A k \in Messages : k # m => row'[k] = row[k]
    <2>1. \A k \in Messages : k # m => row'[k] = row[k]
      BY <1>1 DEF Insert, dbVars, ChatInv, Table
    <2>2. row'[m] # None
      <3>1. CASE row[m] = None
        <4> DEFINE r == [from |-> user[c], to |-> to, status |-> "sent"]
        <4>1. r \in Rows
          BY <1>2 DEF Rows, Statuses
        <4>2. row'[m] = r
          BY <1>1, <3>1 DEF Insert, ChatInv, Table
        <4> QED
          BY <4>1, <4>2, ServerAssumption
      <3>2. CASE row[m] # None
        BY <1>1, <3>2 DEF Insert, dbVars
      <3> QED
        BY <3>1, <3>2
    <2> QED
      BY <2>1, <2>2
  <1>5. /\ pc' \in [Conns -> {"new", "ready", "flush", "flush_mark", "deliver", "mark", "ended"}]
        /\ cur' \in [Conns -> Messages \cup {None}]
        /\ pc'[c] \in {"deliver", "ended"} /\ cur'[c] = m
        /\ \A d \in Conns \ {c} : pc'[d] = pc[d] /\ cur'[d] = cur[d]
    BY <1>1 DEF Goto, Finally, ChatInv, TypeOK
  <1>6. \A d \in Conns \ {c} : Kept(d)
    BY <1>1, <1>3, <1>5, Unmoved
  <1>7. OnlyCloses /\ Kept(c)
    <2>1. CASE Finally(c)
      BY <1>1, <1>3, <2>1, FinallyKeeps
    <2>2. CASE Goto(c, "deliver") /\ UNCHANGED <<sock, connected, online>>
      <3>1. Kept(c)
        BY <1>1, <1>4, <1>5, <2>2 DEF Kept, CarriedBy, Goto
      <3> QED
        BY <2>2, <3>1 DEF OnlyCloses
    <2> QED
      BY <1>1, <2>1, <2>2
  <1>8. \A k \in Messages : IsSent(k)' => IsSent(k) \/ \E d \in Conns : CarriedBy(d, k)'
    <2>1. CarriedBy(c, m)'
      BY <1>5 DEF CarriedBy
    <2>2. \A k \in Messages : k # m /\ IsSent(k)' => IsSent(k)
      BY <1>4 DEF IsSent, Known
    <2>3. ASSUME NEW k \in Messages, IsSent(k)'
          PROVE  IsSent(k) \/ \E d \in Conns : CarriedBy(d, k)'
      <3>1. CASE k = m
        BY <2>1, <3>1 DEF CarriedBy
      <3>2. CASE k # m
        BY <2>2, <2>3, <3>2
      <3> QED
        BY <3>1, <3>2
    <2> QED
      BY <2>3
  <1>9. InboxGrows
    BY <1>1 DEF InboxGrows
  <1>10. told' \in [Messages -> SUBSET Statuses]
    <2>1. told' = told \/ told' = [told EXCEPT ![m] = @ \cup {"sent"}]
      BY <1>1 DEF Receipt
    <2> QED
      BY <2>1, ToldType DEF ChatInv, TypeOK, Statuses
  <1>11. sends' \in [Messages -> 0..MaxSends]
    <2>1. sends \in [Messages -> 0..MaxSends] /\ MaxSends \in Nat
      BY ServerAssumption DEF ChatInv, TypeOK
    <2>2. sends[m] + 1 \in 0..MaxSends
      BY <1>1, <2>1
    <2> QED
      BY <1>1, <2>1, <2>2
  <1>12. /\ sock' \in [Conns -> {"none", "open", "dead", "closed"}]
         /\ connected' \in [Users -> Conns \cup {None}] /\ online' \in [Users -> BOOLEAN]
    BY <1>1, <1>2 DEF Finally, ChatInv, TypeOK
  <1>13. TypeOK'
    BY <1>1, <1>3, <1>5, <1>10, <1>11, <1>12 DEF ChatInv, TypeOK, Table
  <1> QED
    BY <1>3, <1>6, <1>7, <1>8, <1>9, <1>13 DEF Keeps

\* The steps that leave the table and the devices alone.
LEMMA QuietKeeps ==
    ASSUME ChatInv, Registry',
           \/ UNCHANGED vars
           \/ Restart
           \/ \E u \in Users : Expire(u)
           \/ \E c \in Conns : Heartbeat(c) \/ StatementFails(c) \/ Ends(c) \/ Network(c)
    PROVE  TypeOK' /\ Keeps
  <1>1. /\ user' = user /\ queue' = queue /\ row' = row /\ stored' = stored /\ inbox' = inbox
        /\ told' = told /\ sends' = sends
    BY DEF vars, Restart, Expire, Heartbeat, StatementFails, Ends, Network, taskVars, dbVars, deviceVars
  <1>2. Table' /\ Grows /\ \A m \in Messages : IsSent(m)' => IsSent(m)
    BY <1>1, TableUntouched
  <1>3. InboxGrows
    BY <1>1 DEF InboxGrows
  <1>4. /\ pc \in [Conns -> {"new", "ready", "flush", "flush_mark", "deliver", "mark", "ended"}]
        /\ cur \in [Conns -> Messages \cup {None}] /\ sock \in [Conns -> {"none", "open", "dead", "closed"}]
        /\ online \in [Users -> BOOLEAN] /\ faults \in 0..MaxFaults /\ MaxFaults \in Nat
        /\ connected \in [Users -> Conns \cup {None}]
    BY ServerAssumption DEF ChatInv, TypeOK
  <1>5. ASSUME pc' = pc, cur' = cur, connected' = connected,
               \A c \in Conns : sock'[c] = "open" => sock[c] = "open"
        PROVE  Keeps
    <2>1. \A c \in Conns : Kept(c)
      BY <1>1, <1>2, <1>5, Unmoved
    <2> QED
      BY <1>2, <1>3, <1>5, <2>1 DEF Keeps, OnlyCloses
  <1> DEFINE Rest == /\ sock' \in [Conns -> {"none", "open", "dead", "closed"}]
                     /\ online' \in [Users -> BOOLEAN] /\ faults' \in 0..MaxFaults
                     /\ cur' \in [Conns -> Messages \cup {None}]
  <1>6. ASSUME Rest
        PROVE  TypeOK'
    BY <1>1, <1>2, <1>6 DEF ChatInv, TypeOK, Table, Registry
  <1> DEFINE Static == /\ pc' = pc /\ cur' = cur /\ connected' = connected
                       /\ \A c \in Conns : sock'[c] = "open" => sock[c] = "open"
  <1>7. CASE UNCHANGED vars
    BY <1>4, <1>5, <1>6, <1>7 DEF vars, taskVars
  <1>8. ASSUME NEW u \in Users, Expire(u)
        PROVE  Static /\ Rest
    BY <1>4, <1>8 DEF Expire, taskVars
  <1>9. ASSUME NEW c \in Conns, Heartbeat(c)
        PROVE  Static /\ Rest
    <2>1. user[c] \in Users
      BY <1>9, Alive DEF Heartbeat
    <2> QED
      BY <1>4, <1>9, <2>1 DEF Heartbeat, taskVars
  <1>10. ASSUME NEW c \in Conns, Network(c)
         PROVE  Static /\ Rest
    <2>1. faults' \in 0..MaxFaults
      BY <1>4, <1>10 DEF Network, Fault
    <2>2. Static
      BY <1>4, <1>10 DEF Network, taskVars
    <2>3. sock' \in [Conns -> {"none", "open", "dead", "closed"}]
      BY <1>4, <1>10 DEF Network
    <2>4. online' = online
      BY <1>10 DEF Network
    <2> QED
      BY <1>4, <2>1, <2>2, <2>3, <2>4
  <1>11. ASSUME NEW c \in Conns, Finally(c), pc[c] \in {"ready", "flush", "flush_mark"}, cur' = cur,
                faults' \in 0..MaxFaults
         PROVE  Rest /\ Keeps
    <2>1. user[c] \in Users
      BY <1>11, Alive
    <2>2. Rest
      BY <1>4, <1>11, <2>1 DEF Finally
    <2>3. OnlyCloses /\ Kept(c)
      BY <1>1, <1>2, <1>11, FinallyKeeps
    <2>4. \A d \in Conns \ {c} : pc'[d] = pc[d]
      BY <1>4, <1>11 DEF Finally, Goto
    <2>5. \A d \in Conns \ {c} : Kept(d)
      BY <1>1, <1>2, <1>11, <2>4, Unmoved
    <2> QED
      BY <1>2, <1>3, <2>2, <2>3, <2>5 DEF Keeps
  <1>12. ASSUME NEW c \in Conns, Ends(c)
         PROVE  Rest /\ Keeps
    BY <1>4, <1>11, <1>12 DEF Ends
  <1>13. ASSUME NEW c \in Conns, StatementFails(c)
         PROVE  Rest /\ Keeps
    <2>1. faults' \in 0..MaxFaults
      BY <1>4, <1>13 DEF StatementFails, Fault
    <2>2. CASE pc[c] = "flush_mark" /\ Finally(c) /\ UNCHANGED cur
      BY <1>11, <2>1, <2>2
    <2>3. CASE /\ pc[c] = "mark" /\ Goto(c, "ready") /\ cur' = [cur EXCEPT ![c] = None]
               /\ UNCHANGED <<sock, connected, online>>
      <3>1. /\ pc'[c] = "ready" /\ \A d \in Conns \ {c} : pc'[d] = pc[d] /\ cur'[d] = cur[d]
            /\ cur' \in [Conns -> Messages \cup {None}]
        BY <1>4, <2>3 DEF Goto
      <3>2. \A d \in Conns \ {c} : Kept(d)
        BY <1>1, <1>2, <3>1, Unmoved
      <3>3. Kept(c)
        BY <1>1, <2>3, <3>1 DEF Kept, CarriedBy
      <3> QED
        BY <1>2, <1>3, <1>4, <2>1, <2>3, <3>1, <3>2, <3>3 DEF Keeps, OnlyCloses
    <2> QED
      BY <1>13, <2>2, <2>3 DEF StatementFails
  <1>14. CASE Restart
    <2>1. /\ cur' = cur /\ online' = online /\ faults' \in 0..MaxFaults
          /\ connected' = [u \in Users |-> None] /\ \A c \in Conns : pc'[c] \in {"new", "ended"}
          /\ sock' \in [Conns -> {"none", "open", "dead", "closed"}]
          /\ \A c \in Conns : sock'[c] # "open"
      BY <1>4, <1>14 DEF Restart, Fault
    <2>2. \A m \in Messages : IsSent(m) => row'[m].to \in Users
      <3>1. \A m \in Messages : IsSent(m) => row[m] \in Rows
        BY DEF ChatInv, Table, IsSent, Known
      <3> QED
        BY <1>1, <3>1 DEF Rows
    <2>3. \A m \in Messages : IsSent(m) => Gone(row[m].to)'
      BY <2>1, <2>2 DEF Gone
    <2>4. ASSUME NEW c \in Conns
          PROVE  Kept(c)
      <3>1. user'[c] = user[c] /\ queue'[c] = queue[c] /\ pc'[c] \in {"new", "ended"}
        BY <1>1, <2>1
      <3> QED
        BY <2>3, <3>1 DEF Kept
    <2>5. OnlyCloses
      BY <2>1 DEF OnlyCloses
    <2>6. Keeps
      BY <1>2, <1>3, <2>4, <2>5 DEF Keeps
    <2>7. Rest
      BY <1>4, <2>1
    <2> QED
      BY <1>6, <2>6, <2>7
  <1>15. ASSUME Static, Rest
         PROVE  TypeOK' /\ Keeps
    BY <1>5, <1>6, <1>15
  <1>16. ASSUME Rest /\ Keeps
         PROVE  TypeOK' /\ Keeps
    BY <1>6, <1>16
  <1> HIDE DEF Static, Rest
  <1> QED
    BY <1>7, <1>8, <1>9, <1>10, <1>12, <1>13, <1>14, <1>15, <1>16

\* A connection authenticates: what waits for its user is fetched, and nothing else of
\* that user's was on its way to a device that answers.
LEMMA AuthKeeps ==
    ASSUME ChatInv, NEW c \in Conns, NEW u \in Users, Auth(c, u)
    PROVE  ChatInv'
  <1> DEFINE q == Queued(u)
  <1>1. /\ pc[c] = "new" /\ sock' = [sock EXCEPT ![c] = "open"] /\ user' = [user EXCEPT ![c] = u]
        /\ connected' = [connected EXCEPT ![u] = c] /\ online' = [online EXCEPT ![u] = TRUE]
        /\ queue' = [queue EXCEPT ![c] = q] /\ cur' = cur /\ row' = row /\ stored' = stored
        /\ told' = told /\ sends' = sends /\ faults' = faults
        /\ IF q = <<>> THEN Goto(c, "ready") /\ inbox' = inbox
                       ELSE Goto(c, "flush_mark") /\ PushTo(u, Head(q))
    BY DEF Auth, dbVars
  <1>2. Registry'
    BY RegistryStep DEF ChatInv, Next
  <1>3. Table' /\ Grows /\ \A m \in Messages : IsSent(m)' => IsSent(m)
    BY <1>1, TableUntouched
  <1>4. /\ q \in Seq(Messages)
        /\ \A i \in DOMAIN q : IsSent(q[i]) /\ row[q[i]].to = u
        /\ \A i, j \in DOMAIN q : i < j => Before(q[i], q[j])
        /\ \A m \in Messages : IsSent(m) /\ row[m].to = u => \E i \in DOMAIN q : q[i] = m
    BY QueuedInOrder DEF ChatInv
  <1> HIDE DEF q
  <1>5. /\ pc \in [Conns -> {"new", "ready", "flush", "flush_mark", "deliver", "mark", "ended"}]
        /\ sock \in [Conns -> {"none", "open", "dead", "closed"}]
        /\ queue \in [Conns -> Seq(Messages)] /\ inbox \in [Users -> Seq(Messages)]
        /\ user \in [Conns -> Users \cup {None}] /\ connected \in [Users -> Conns \cup {None}]
        /\ online \in [Users -> BOOLEAN]
        /\ \A v \in Users : connected[v] # None => pc[connected[v]] # "new"
    BY DEF ChatInv, TypeOK, Registry
  <1>6. /\ queue'[c] = q /\ user'[c] = u /\ sock'[c] = "open" /\ connected'[u] = c
        /\ \A d \in Conns \ {c} : queue'[d] = queue[d] /\ user'[d] = user[d] /\ sock'[d] = sock[d]
        /\ \A v \in Users \ {u} : connected'[v] = connected[v]
        /\ queue' \in [Conns -> Seq(Messages)] /\ sock' \in [Conns -> {"none", "open", "dead", "closed"}]
        /\ online' \in [Users -> BOOLEAN]
    BY <1>1, <1>4, <1>5
  <1>7. /\ pc'[c] = IF q = <<>> THEN "ready" ELSE "flush_mark"
        /\ \A d \in Conns \ {c} : pc'[d] = pc[d]
    BY <1>1, <1>5 DEF Goto
  <1>8. inbox' \in [Users -> Seq(Messages)] /\ InboxGrows
    <2>1. CASE q = <<>>
      BY <1>1, <1>5, <2>1 DEF InboxGrows
    <2>2. CASE q # <<>>
      <3>1. PushTo(u, Head(q))
        BY <1>1, <2>2
      <3>2. Head(q) \in Messages /\ Known(Head(q))
        BY <1>4, <2>2, TailOfSeq DEF IsSent
      <3> QED
        BY <1>5, <3>1, <3>2, PushType DEF InboxGrows
    <2> QED
      BY <2>1, <2>2
  <1>9. TypeOK'
    BY <1>1, <1>2, <1>3, <1>6, <1>8 DEF ChatInv, TypeOK, Registry, Table
  <1>10. TaskOK(c)'
    <2>1. \A i \in DOMAIN q : row'[q[i]] # None /\ row'[q[i]].to = u
      BY <1>1, <1>4 DEF IsSent, Known
    <2>2. \A i, j \in DOMAIN q : i < j => \E k, l \in DOMAIN stored' : k < l /\ stored'[k] = q[i] /\ stored'[l] = q[j]
      BY <1>1, <1>4 DEF Before
    <2> QED
      BY <1>6, <1>7, <2>1, <2>2 DEF TaskOK, Known, Before
  <1>11. \A d \in Conns \ {c} : Kept(d)
    BY <1>1, <1>3, <1>6, <1>7, Unmoved
  <1>12. \A d \in Conns : TaskOK(d)'
    BY <1>3, <1>10, <1>11, TaskKept
  <1>13. \A v \in Users : \A i \in DOMAIN inbox'[v] : row'[inbox'[v][i]] # None
    BY <1>3, <1>8, InboxKept
  <1>14. ASSUME NEW m \in Messages, IsSent(m)'
         PROVE  Away(m)'
    <2>1. IsSent(m) /\ Away(m) /\ row'[m] = row[m] /\ row[m].to \in Users
      <3>1. IsSent(m)
        BY <1>3, <1>14
      <3>2. row[m] \in Rows
        BY <3>1 DEF ChatInv, Table, IsSent, Known
      <3> QED
        BY <1>1, <3>1, <3>2 DEF ChatInv, Rows
    <2>2. CASE row[m].to = u
      <3>1. PICK i \in DOMAIN q : q[i] = m
        BY <1>4, <2>1, <2>2
      <3>2. q # <<>>
        BY <3>1
      <3>3. CarriedBy(c, m)'
        BY <1>6, <1>7, <3>1, <3>2 DEF CarriedBy
      <3> QED
        BY <3>3 DEF Away
    <2>3. CASE row[m].to # u
      <3> DEFINE v == row[m].to
      <3>1. Gone(v) => connected'[v] = None \/ sock'[connected'[v]] # "open"
        <4>1. v \in Users \ {u} /\ connected'[v] = connected[v]
          BY <1>6, <2>1, <2>3
        <4>2. connected[v] # None => connected[v] \in Conns \ {c}
          BY <1>1, <1>5, <4>1
        <4> QED
          BY <1>6, <4>1, <4>2 DEF Gone
      <3>2. Arrived(v, m) => Arrived(v, m)'
        BY <1>3, <1>8, <2>1, InboxKept DEF Arrived
      <3>3. \A d \in Conns : CarriedBy(d, m) => CarriedBy(d, m)'
        <4>1. ~CarriedBy(c, m)
          BY <1>1 DEF CarriedBy
        <4>2. \A d \in Conns \ {c} : CarriedBy(d, m) => CarriedBy(d, m)'
          BY <1>1, <1>6, <1>7 DEF CarriedBy
        <4>3. ASSUME NEW d \in Conns, CarriedBy(d, m)
              PROVE  CarriedBy(d, m)'
          <5>1. d \in Conns \ {c}
            BY <4>1, <4>3
          <5> QED
            BY <4>2, <4>3, <5>1
        <4> QED
          BY <4>3
      <3> QED
        BY <2>1, <3>1, <3>2, <3>3 DEF Away, Gone, Arrived
    <2> QED
      BY <2>2, <2>3
  <1> QED
    BY <1>2, <1>3, <1>9, <1>12, <1>13, <1>14 DEF ChatInv, Known

LEMMA ChatInvStep ==
    ASSUME ChatInv, Next \/ UNCHANGED vars
    PROVE  ChatInv'
  <1>1. Registry'
    BY RegistryStep DEF ChatInv
  <1>2. ASSUME TypeOK' /\ Keeps
        PROVE  ChatInv'
    BY <1>1, <1>2, ChatKept
  <1>3. ASSUME NEW c \in Conns
        PROVE  /\ FlushNext(c) => ChatInv'
               /\ FlushMark(c) => ChatInv'
               /\ Deliver(c) => ChatInv'
               /\ Mark(c) => ChatInv'
    BY <1>2, FlushNextKeeps, FlushMarkKeeps, DeliverKeeps, MarkKeeps
  <1>4. ASSUME NEW c \in Conns, NEW m \in Messages, Read(c, m)
        PROVE  ChatInv'
    BY <1>2, <1>4, ReadKeeps
  <1>5. ASSUME NEW c \in Conns, NEW m \in Messages, NEW to \in Users, Store(c, m, to)
        PROVE  ChatInv'
    BY <1>2, <1>5, StoreKeeps
  <1>6. ASSUME \/ UNCHANGED vars
               \/ Restart
               \/ \E u \in Users : Expire(u)
               \/ \E c \in Conns : Heartbeat(c) \/ StatementFails(c) \/ Ends(c) \/ Network(c)
        PROVE  ChatInv'
    BY <1>1, <1>2, <1>6, QuietKeeps
  <1> QED
    BY <1>3, <1>4, <1>5, <1>6, AuthKeeps DEF Next, Task

LEMMA ChatInvInit ==
    ASSUME Init
    PROVE  ChatInv
  <1> USE DEF Init
  <1>1. TypeOK /\ Registry
    BY ServerAssumption DEF TypeOK, Registry
  <1>2. Table
    BY DEF Table, Known
  <1>3. \A c \in Conns : TaskOK(c)
    BY DEF TaskOK
  <1> QED
    BY <1>1, <1>2, <1>3 DEF ChatInv, IsSent, Known

LEMMA ChatInvSuffices ==
    ASSUME ChatInv
    PROVE  QueuedMeansAway /\ RegisteredIsAlive /\ QueueIsSorted
  <1>1. RegisteredIsAlive
    BY DEF ChatInv, Registry, RegisteredIsAlive
  <1>2. QueuedMeansAway
    BY DEF ChatInv, IsSent, Known, Away, CarriedBy, Gone, Arrived, QueuedMeansAway, InHand, Range
  <1>3. ASSUME NEW c \in Conns
        PROVE  /\ \A m \in Range(queue[c]) : row[m].to = user[c]
               /\ \A i, j \in DOMAIN queue[c] : i < j =>
                     queue[c][i] # queue[c][j] /\ Before(queue[c][i], queue[c][j])
    <2>1. TaskOK(c)
      BY DEF ChatInv
    <2>2. \A m : ~Before(m, m)
      <3>1. ASSUME NEW m, Before(m, m)
            PROVE  FALSE
        <4>1. PICK i \in DOMAIN stored, j \in DOMAIN stored : i < j /\ stored[i] = m /\ stored[j] = m
          BY <3>1 DEF Before
        <4>2. i = j /\ i \in Nat
          BY <4>1 DEF ChatInv, Table
        <4> QED
          BY <4>1, <4>2
      <3> QED
        BY <3>1
    <2> QED
      BY <2>1, <2>2 DEF TaskOK, Range
  <1>4. QueueIsSorted
    BY <1>3 DEF QueueIsSorted
  <1> QED
    BY <1>1, <1>2, <1>4

\* No send goes to a task that has ended, or to somebody else's (auth, the finally block).
THEOREM RegisteredStaysAlive == Spec => []RegisteredIsAlive
  <1>1. Init => Registry
    BY DEF Init, Registry
  <1>2. Registry /\ [Next]_vars => Registry'
    BY RegistryStep
  <1>3. Registry => RegisteredIsAlive
    BY DEF Registry, RegisteredIsAlive
  <1> QED
    BY <1>1, <1>2, <1>3, PTL DEF Spec

-----------------------------------------------------------------------------
(***************************************************************************)
(* The timelines.  What was handed to the worker and committed to Postgres *)
(* is in a warm timeline, or the timeline is full of tweets that are no    *)
(* older.  The sorted set orders any two entries, so a trim keeps exactly  *)
(* the first TimelineMax of them.                                          *)
(***************************************************************************)
EntrySet == [id : Int, at : Int]
TweetSet == [id : Int, user : Tweeters, at : Int]
AboveIn(S, x) == {f \in S : Tweets!Above(f, x)}
Place(S, x) == Cardinality(AboveIn(S, x))

LEMMA SameTweetSize == \A S : Tweets!Cardinality(S) = Cardinality(S)
  BY DEF Tweets!Cardinality, Cardinality

LEMMA EntriesOrdered ==
    ASSUME NEW x \in EntrySet, NEW y \in EntrySet
    PROVE  /\ x # y => Tweets!Above(x, y) \/ Tweets!Above(y, x)
           /\ ~(Tweets!Above(x, y) /\ Tweets!Above(y, x))
           /\ ~Tweets!Above(x, x)
           /\ Tweets!Above(x, y) => x.at >= y.at
           /\ \A z \in EntrySet : Tweets!Above(x, y) /\ Tweets!Above(y, z) => Tweets!Above(x, z)
  <1>1. x.id \in Int /\ x.at \in Int /\ y.id \in Int /\ y.at \in Int
    BY DEF EntrySet
  <1>2. Tweets!MemberKey(x.id) \in Int /\ Tweets!MemberKey(y.id) \in Int
    BY <1>1 DEF Tweets!MemberKey
  <1>3. Tweets!MemberKey(x.id) = Tweets!MemberKey(y.id) => x.id = y.id
    BY <1>1 DEF Tweets!MemberKey
  <1>4. x.id = y.id /\ x.at = y.at => x = y
    BY DEF EntrySet
  <1>5. ASSUME NEW z \in EntrySet, Tweets!Above(x, y), Tweets!Above(y, z)
        PROVE  Tweets!Above(x, z)
    <2>1. z.at \in Int /\ z.id \in Int
      BY DEF EntrySet
    <2>2. Tweets!MemberKey(z.id) \in Int
      BY <2>1 DEF Tweets!MemberKey
    <2> QED
      BY <1>1, <1>2, <1>5, <2>1, <2>2 DEF Tweets!Above
  <1> QED
    BY <1>1, <1>2, <1>3, <1>4, <1>5 DEF Tweets!Above

\* Whoever is above has fewer above it.
LEMMA AboveIsSooner ==
    ASSUME NEW S \in SUBSET EntrySet, IsFiniteSet(S), NEW x \in S, NEW y \in S, Tweets!Above(x, y)
    PROVE  /\ IsFiniteSet(AboveIn(S, x)) /\ Place(S, x) \in Nat /\ Place(S, y) \in Nat
           /\ Place(S, x) < Place(S, y)
  <1>1. AboveIn(S, x) \in SUBSET S /\ AboveIn(S, y) \in SUBSET S
    BY DEF AboveIn
  <1>2. /\ IsFiniteSet(AboveIn(S, x)) /\ IsFiniteSet(AboveIn(S, y))
        /\ Place(S, x) \in Nat /\ Place(S, y) \in Nat
    BY <1>1, FS_Subset, FS_CardinalityType DEF Place
  <1>3. AboveIn(S, x) \subseteq AboveIn(S, y)
    BY EntriesOrdered DEF AboveIn
  <1>4. x \in AboveIn(S, y) /\ x \notin AboveIn(S, x)
    BY EntriesOrdered DEF AboveIn
  <1>5. AboveIn(S, x) # AboveIn(S, y)
    BY <1>4
  <1>6. Place(S, x) <= Place(S, y) /\ Place(S, x) # Place(S, y)
    BY <1>1, <1>2, <1>3, <1>5, FS_Subset DEF Place
  <1> QED
    BY <1>2, <1>6

LEMMA PlaceType ==
    ASSUME NEW S, IsFiniteSet(S), NEW x
    PROVE  IsFiniteSet(AboveIn(S, x)) /\ Place(S, x) \in Nat
  <1>1. AboveIn(S, x) \in SUBSET S
    BY DEF AboveIn
  <1> QED
    BY <1>1, FS_Subset, FS_CardinalityType DEF Place

\* A trim keeps at most TimelineMax entries; when it drops one it keeps that many, none of
\* them older than the one it drops.
LEMMA TrimKeeps ==
    ASSUME TimelineMax \in Nat, NEW S \in SUBSET EntrySet, IsFiniteSet(S)
    PROVE  LET T == Tweets!Trim(S) IN
           /\ T \in SUBSET S /\ IsFiniteSet(T) /\ Cardinality(T) \in 0..TimelineMax
           /\ \A x \in S \ T : /\ Cardinality(T) = TimelineMax
                               /\ \A y \in T : y.at >= x.at
  <1> DEFINE T == Tweets!Trim(S)
  <1>1. T = {x \in S : Place(S, x) < TimelineMax}
    BY SameTweetSize DEF Tweets!Trim, Place, AboveIn
  <1> HIDE DEF T
  <1>2. T \in SUBSET S /\ IsFiniteSet(T) /\ Cardinality(T) \in Nat
    <2>1. T \in SUBSET S
      BY <1>1
    <2> QED
      BY <2>1, FS_Subset, FS_CardinalityType
  <1>3. Cardinality(T) <= TimelineMax
    <2>1. CASE T = {}
      BY <2>1, FS_EmptySet
    <2>2. CASE T # {}
      <3> DEFINE P == {Place(S, x) + 1 : x \in T}
      <3>1. P \in SUBSET (1..TimelineMax) /\ P # {}
        <4>1. ASSUME NEW x \in T
              PROVE  Place(S, x) + 1 \in 1..TimelineMax
          BY <1>1, PlaceType
        <4> QED
          BY <2>2, <4>1
      <3>2. PICK top \in P : \A k \in P : k <= top
        BY <3>1, TopExists
      <3>3. PICK y \in T : top = Place(S, y) + 1
        BY <3>2
      <3>4. ASSUME NEW z \in T
            PROVE  z \in AboveIn(S, y) \cup {y}
        <4>1. z \in S /\ y \in S /\ z \in EntrySet /\ y \in EntrySet
          BY <1>2
        <4>2. Place(S, z) \in Nat /\ Place(S, y) \in Nat /\ Place(S, z) + 1 <= Place(S, y) + 1
          BY <3>2, <3>3, PlaceType
        <4>3. ~Tweets!Above(y, z)
          BY <4>1, <4>2, AboveIsSooner
        <4> QED
          BY <4>1, <4>3, EntriesOrdered DEF AboveIn
      <3>5. /\ IsFiniteSet(AboveIn(S, y) \cup {y})
            /\ Cardinality(AboveIn(S, y) \cup {y}) = Place(S, y) + 1
        <4>1. y \in S /\ y \in EntrySet
          BY <1>2
        <4>2. y \notin AboveIn(S, y)
          BY <4>1, EntriesOrdered DEF AboveIn
        <4> QED
          BY <4>2, PlaceType, FS_AddElement DEF Place
      <3>6. Cardinality(T) <= Place(S, y) + 1
        <4>1. T \in SUBSET (AboveIn(S, y) \cup {y})
          BY <3>4
        <4> QED
          BY <3>5, <4>1, FS_Subset
      <3>7. top \in 1..TimelineMax
        BY <3>1, <3>2
      <3> QED
        BY <1>2, <3>3, <3>6, <3>7, PlaceType
    <2> QED
      BY <2>1, <2>2
  <1>4. ASSUME NEW x \in S \ T, NEW y \in T
        PROVE  y.at >= x.at
    <2>1. x \in EntrySet /\ y \in EntrySet /\ x \in S /\ y \in S /\ x # y
      BY <1>2
    <2>2. Place(S, y) < TimelineMax /\ ~(Place(S, x) < TimelineMax)
      BY <1>1
    <2>3. Place(S, y) \in Nat /\ Place(S, x) \in Nat
      BY PlaceType
    <2>4. ~Tweets!Above(x, y)
      BY <2>1, <2>2, <2>3, AboveIsSooner
    <2> QED
      BY <2>1, <2>4, EntriesOrdered
  <1>5. ASSUME S \ T # {}
        PROVE  Cardinality(T) >= TimelineMax
    <2> DEFINE P == {Place(S, x) : x \in S \ T}
    <2>1. P \in SUBSET Nat /\ P # {}
      BY <1>5, PlaceType
    <2>2. PICK low \in P : \A k \in P : low <= k
      BY <2>1, LeastExists
    <2>3. PICK x \in S \ T : low = Place(S, x)
      BY <2>2
    <2>4. ASSUME NEW z \in AboveIn(S, x)
          PROVE  z \in T
      <3>1. z \in S /\ x \in S /\ z \in EntrySet /\ x \in EntrySet /\ Tweets!Above(z, x)
        BY DEF AboveIn
      <3>2. Place(S, z) < Place(S, x) /\ Place(S, z) \in Nat /\ Place(S, x) \in Nat
        BY <3>1, AboveIsSooner
      <3>3. ~(Place(S, x) <= Place(S, z))
        BY <3>2
      <3> QED
        BY <2>2, <2>3, <3>1, <3>3
    <2>5. Place(S, x) <= Cardinality(T)
      <3>1. AboveIn(S, x) \in SUBSET T
        BY <2>4
      <3> QED
        BY <1>2, <3>1, FS_Subset DEF Place
    <2>6. ~(Place(S, x) < TimelineMax) /\ Place(S, x) \in Nat
      BY <1>1, PlaceType
    <2> QED
      BY <1>2, <2>5, <2>6
  <1> QED
    BY <1>2, <1>3, <1>4, <1>5 DEF T

\* The entries of the rows among the first n[u] messages of every partition r follows.
HandedBy(tp, r, n, rows) ==
    UNION {{Tweets!Entry(tp[u][i]) : i \in {j \in 1..n[u] : tp[u][j] \in rows}} :
           u \in Tweets!Followees(r)}
Handed(r) == HandedBy(tweetTopic, r, tweetsConsumed, tweets)

TweetShape ==
    /\ run \in Int
    /\ tweetTopic \in [Tweeters -> Seq(TweetSet)]
    /\ tweetsConsumed \in [Tweeters -> Nat] /\ tweetsCommitted \in [Tweeters -> Nat]
    /\ \A u \in Tweeters : /\ tweetsCommitted[u] <= tweetsConsumed[u]
                           /\ tweetsConsumed[u] <= Len(tweetTopic[u])
                           /\ \A i \in DOMAIN tweetTopic[u] : tweetTopic[u][i].user = u
    /\ timeline \in [Readers -> SUBSET EntrySet]
    /\ \A r \in Readers : IsFiniteSet(timeline[r])

\* A message has an id of its own, and those of an open transaction were handed to nobody.
Fresh ==
    /\ IsFiniteSet(Tweets!Sent)
    /\ \A t \in Tweets!Sent : t.id < Tweets!NextId
    /\ \A s, t \in Tweets!Sent : s.id = t.id => s = t
    /\ tweets \subseteq Tweets!Sent /\ posted \subseteq Tweets!Sent
    /\ \A u \in Tweeters : \A i \in 1..tweetsConsumed[u] : tweetTopic[u][i] \notin posted
    /\ phase # "post" => posted = {}
    /\ phase = "rebuild" => timeline[ColdReader] = {}

\* Timeline T lacks entry e for want of room.
Crowded(T, e) == Cardinality(T) = TimelineMax /\ \A y \in T : y.at >= e.at

NewestKept ==
    \A r \in Readers \ cold :
       \A e \in Handed(r) \ timeline[r] : Crowded(timeline[r], e)

TweetsInv == TweetShape /\ Fresh /\ NewestKept

LEMMA HandedIs ==
    ASSUME NEW tp, NEW r, NEW n, NEW rows, NEW e
    PROVE  e \in HandedBy(tp, r, n, rows) <=>
              \E u \in Tweets!Followees(r) : \E i \in 1..n[u] :
                 tp[u][i] \in rows /\ e = Tweets!Entry(tp[u][i])
  BY DEF HandedBy

LEMMA SentIs ==
    ASSUME NEW t
    PROVE  t \in Tweets!Sent <=> \E u \in Tweeters : \E i \in DOMAIN tweetTopic[u] : t = tweetTopic[u][i]
  BY DEF Tweets!Sent, Tweets!Range

LEMMA TweetsInvInit ==
    ASSUME Tweets!TimelineAssumptions, Tweets!Init
    PROVE  TweetsInv
  <1>1. /\ tweetTopic = [u \in Tweeters |-> <<>>] /\ tweetsConsumed = [u \in Tweeters |-> 0]
        /\ tweetsCommitted = [u \in Tweeters |-> 0] /\ timeline = [r \in Readers |-> {}]
        /\ posted = {} /\ tweets = {} /\ run = 1 /\ phase = "post"
    BY DEF Tweets!Init
  <1>2. <<>> \in Seq(TweetSet) /\ Len(<<>>) = 0 /\ DOMAIN <<>> = {} /\ 1..0 = {}
    OBVIOUS
  <1>3. TweetShape
    BY <1>1, <1>2, FS_EmptySet DEF TweetShape
  <1>4. Tweets!Sent = {}
    BY <1>1, <1>2 DEF Tweets!Sent, Tweets!Range
  <1>5. Fresh
    BY <1>1, <1>4, FS_EmptySet DEF Fresh
  <1>6. \A r \in Readers : \A e : e \notin Handed(r)
    BY <1>1, HandedIs DEF Handed
  <1> QED
    BY <1>3, <1>5, <1>6 DEF TweetsInv, NewestKept

\* What is handed grows with the offsets and with the rows.
LEMMA HandedGrows ==
    ASSUME NEW tp, NEW r, NEW n \in [Tweeters -> Nat], NEW m \in [Tweeters -> Nat],
           \A u \in Tweeters : n[u] <= m[u], NEW rows
    PROVE  HandedBy(tp, r, n, rows) \subseteq HandedBy(tp, r, m, rows)
  <1> SUFFICES ASSUME NEW e \in HandedBy(tp, r, n, rows)
               PROVE  e \in HandedBy(tp, r, m, rows)
    OBVIOUS
  <1>1. PICK u \in Tweets!Followees(r) : \E i \in 1..n[u] :
              tp[u][i] \in rows /\ e = Tweets!Entry(tp[u][i])
    BY HandedIs
  <1>2. u \in Tweeters /\ n[u] \in Nat /\ m[u] \in Nat /\ n[u] <= m[u]
    BY DEF Tweets!Followees
  <1>3. \A i \in 1..n[u] : i \in 1..m[u]
    BY <1>2
  <1> QED
    BY <1>1, <1>3, HandedIs

LEMMA TweetsInvSuffices ==
    ASSUME TweetsInv
    PROVE  Tweets!TimelinesAreTheNewest
  <1>1. \A r : Tweets!Delivered(r) = HandedBy(tweetTopic, r, tweetsCommitted, tweets)
    BY DEF Tweets!Delivered, HandedBy
  <1>2. \A r : HandedBy(tweetTopic, r, tweetsCommitted, tweets) \subseteq Handed(r)
    BY HandedGrows DEF TweetsInv, TweetShape, Handed
  <1> QED
    BY <1>1, <1>2, SameTweetSize DEF TweetsInv, NewestKept, Crowded, Tweets!TimelinesAreTheNewest

\* A posted message has a new id and a place that the worker has not reached.
LEMMA PostKeeps ==
    ASSUME Tweets!TimelineAssumptions, TweetsInv, NEW u \in Tweeters, Tweets!PostTweet(u)
    PROVE  TweetsInv'
  <1> DEFINE t == [id |-> Tweets!NextId, user |-> u, at |-> run]
             n == Len(tweetTopic[u])
  <1>1. /\ phase = "post" /\ posted' = posted \cup {t} /\ phase' = phase /\ run' = run
        /\ tweetTopic' = [tweetTopic EXCEPT ![u] = Append(@, t)] /\ tweets' = tweets
        /\ tweetsConsumed' = tweetsConsumed /\ tweetsCommitted' = tweetsCommitted
        /\ timeline' = timeline /\ cold' = cold
    BY DEF Tweets!PostTweet, Tweets!workerVars
  <1>2. /\ tweetTopic \in [Tweeters -> Seq(TweetSet)] /\ tweetTopic[u] \in Seq(TweetSet)
        /\ n \in Nat /\ DOMAIN tweetTopic[u] = 1..n
    BY DEF TweetsInv, TweetShape
  <1>3. Tweets!NextId \in Int /\ Cardinality(Tweets!Sent) \in Nat
        /\ Tweets!NextId = FirstId + Cardinality(Tweets!Sent)
    BY FS_CardinalityType, SameTweetSize DEF TweetsInv, Fresh, Tweets!NextId, Tweets!TimelineAssumptions
  <1>4. t \in TweetSet /\ t.user = u /\ t.id = Tweets!NextId
    BY <1>3 DEF TweetsInv, TweetShape, TweetSet
  <1> HIDE DEF t
  <1>5. /\ Append(tweetTopic[u], t) \in Seq(TweetSet) /\ Len(Append(tweetTopic[u], t)) = n + 1
        /\ DOMAIN Append(tweetTopic[u], t) = 1..n + 1
        /\ \A i \in 1..n : Append(tweetTopic[u], t)[i] = tweetTopic[u][i]
        /\ Append(tweetTopic[u], t)[n + 1] = t
    BY <1>2, <1>4
  <1>6. /\ tweetTopic' \in [Tweeters -> Seq(TweetSet)]
        /\ tweetTopic'[u] = Append(tweetTopic[u], t)
        /\ \A v \in Tweeters \ {u} : tweetTopic'[v] = tweetTopic[v]
    BY <1>1, <1>2, <1>5
  <1>8. ASSUME NEW v \in Tweeters
        PROVE  /\ Len(tweetTopic[v]) \in Nat /\ DOMAIN tweetTopic[v] = 1..Len(tweetTopic[v])
               /\ Len(tweetTopic'[v]) \in Nat /\ Len(tweetTopic[v]) <= Len(tweetTopic'[v])
               /\ \A i \in DOMAIN tweetTopic[v] :
                     i \in DOMAIN tweetTopic'[v] /\ tweetTopic'[v][i] = tweetTopic[v][i]
    <2>1. tweetTopic[v] \in Seq(TweetSet)
      BY <1>2
    <2>2. Len(tweetTopic[v]) \in Nat /\ DOMAIN tweetTopic[v] = 1..Len(tweetTopic[v])
      BY <2>1
    <2>3. CASE v = u
      <3>1. DOMAIN tweetTopic'[v] = 1..n + 1 /\ Len(tweetTopic'[v]) = n + 1
        BY <1>5, <1>6, <2>3
      <3>2. \A i \in 1..n : i \in 1..n + 1 /\ tweetTopic'[v][i] = tweetTopic[v][i]
        BY <1>2, <1>5, <1>6, <2>3
      <3> QED
        BY <1>2, <2>2, <2>3, <3>1, <3>2
    <2>4. CASE v # u
      BY <1>6, <2>2, <2>4
    <2> QED
      BY <2>3, <2>4
  <1>9. TweetShape'
    <2>1. \A v \in Tweeters : \A i \in DOMAIN tweetTopic'[v] : tweetTopic'[v][i].user = v
      <3>1. ASSUME NEW i \in 1..n + 1
            PROVE  tweetTopic'[u][i].user = u
        <4>1. i \in 1..n \/ i = n + 1
          BY <1>2
        <4> QED
          BY <1>2, <1>4, <1>5, <1>6, <4>1 DEF TweetsInv, TweetShape
      <3>2. DOMAIN tweetTopic'[u] = 1..n + 1
        BY <1>5, <1>6
      <3> QED
        BY <1>6, <3>1, <3>2 DEF TweetsInv, TweetShape
    <2> QED
      BY <1>1, <1>6, <1>8, <2>1 DEF TweetsInv, TweetShape
  <1>10. Tweets!Sent' = Tweets!Sent \cup {t}
    <2>1. \A s : s \in Tweets!Sent' <=> \E v \in Tweeters : \E i \in DOMAIN tweetTopic'[v] : s = tweetTopic'[v][i]
      BY DEF Tweets!Sent, Tweets!Range
    <2>2. ASSUME NEW s \in Tweets!Sent'
          PROVE  s \in Tweets!Sent \cup {t}
      <3>1. PICK v \in Tweeters : \E i \in DOMAIN tweetTopic'[v] : s = tweetTopic'[v][i]
        BY <2>1, <2>2
      <3>2. CASE v = u
        <4>1. PICK i \in 1..n + 1 : s = Append(tweetTopic[u], t)[i]
          BY <1>5, <1>6, <3>1, <3>2
        <4>2. i \in 1..n \/ i = n + 1
          BY <1>2
        <4> QED
          BY <1>2, <1>5, <4>1, <4>2, SentIs
      <3>3. CASE v # u
        BY <1>6, <3>1, <3>3, SentIs
      <3> QED
        BY <3>2, <3>3
    <2>3. t \in Tweets!Sent'
      BY <2>1, <1>5, <1>6
    <2>4. \A s \in Tweets!Sent : s \in Tweets!Sent'
      BY <2>1, <1>8, SentIs
    <2> QED
      BY <2>2, <2>3, <2>4
  <1>11. \A s \in Tweets!Sent : s.id \in Int /\ s.id < t.id
    <2>1. \A s \in Tweets!Sent : s \in TweetSet
      BY <1>2, SentIs
    <2> QED
      BY <1>4, <2>1 DEF TweetsInv, Fresh, TweetSet
  <1>12. t \notin Tweets!Sent
    BY <1>3, <1>4, <1>11
  <1>13. IsFiniteSet(Tweets!Sent') /\ Tweets!NextId' = Tweets!NextId + 1
    <2>1. IsFiniteSet(Tweets!Sent \cup {t}) /\ Cardinality(Tweets!Sent \cup {t}) = Cardinality(Tweets!Sent) + 1
      BY <1>12, FS_AddElement DEF TweetsInv, Fresh
    <2>2. Tweets!NextId' = FirstId + Cardinality(Tweets!Sent')
      BY SameTweetSize DEF Tweets!NextId
    <2> QED
      BY <1>3, <1>10, <2>1, <2>2 DEF Tweets!TimelineAssumptions
  <1>14. ASSUME NEW v \in Tweeters, NEW i \in 1..tweetsConsumed[v]
         PROVE  i \in DOMAIN tweetTopic[v] /\ tweetTopic'[v][i] = tweetTopic[v][i]
                /\ tweetTopic'[v][i] \in Tweets!Sent
    <2>1. tweetsConsumed[v] \in Nat /\ tweetsConsumed[v] <= Len(tweetTopic[v])
      BY DEF TweetsInv, TweetShape
    <2>2. i \in DOMAIN tweetTopic[v]
      BY <1>8, <2>1
    <2> QED
      BY <1>8, <2>2, SentIs
  <1>15. Fresh'
    <2>1. \A s \in Tweets!Sent' : s.id < Tweets!NextId'
      BY <1>3, <1>4, <1>10, <1>11, <1>13
    <2>2. \A s, r \in Tweets!Sent' : s.id = r.id => s = r
      <3>1. \A s \in Tweets!Sent : s.id # t.id
        BY <1>3, <1>4, <1>11
      <3> QED
        BY <1>10, <3>1 DEF TweetsInv, Fresh
    <2>3. tweets' \subseteq Tweets!Sent' /\ posted' \subseteq Tweets!Sent'
      BY <1>1, <1>10 DEF TweetsInv, Fresh
    <2>4. \A v \in Tweeters : \A i \in 1..tweetsConsumed'[v] : tweetTopic'[v][i] \notin posted'
      BY <1>1, <1>12, <1>14 DEF TweetsInv, Fresh
    <2> QED
      BY <1>1, <1>13, <2>1, <2>2, <2>3, <2>4 DEF Fresh, TweetsInv
  <1>16. \A r : Handed(r)' \subseteq Handed(r)
    <2> SUFFICES ASSUME NEW r, NEW e \in HandedBy(tweetTopic', r, tweetsConsumed, tweets)
                 PROVE  e \in HandedBy(tweetTopic, r, tweetsConsumed, tweets)
      BY <1>1 DEF Handed
    <2>1. PICK v \in Tweets!Followees(r) : \E i \in 1..tweetsConsumed[v] :
                tweetTopic'[v][i] \in tweets /\ e = Tweets!Entry(tweetTopic'[v][i])
      BY HandedIs
    <2>2. v \in Tweeters
      BY DEF Tweets!Followees
    <2> QED
      BY <1>14, <2>1, <2>2, HandedIs
  <1> QED
    BY <1>1, <1>9, <1>15, <1>16 DEF TweetsInv, NewestKept, Crowded

\* A message that is fanned out: the trim keeps it, or what it keeps is no older.
LEMMA TrimCrowds ==
    ASSUME Tweets!TimelineAssumptions, NEW S \in SUBSET EntrySet, IsFiniteSet(S), NEW e \in EntrySet,
           NEW H, \A m \in H \ S : Crowded(S, m) /\ m.at \in Int,
           NEW m \in H \cup {e}, m \notin Tweets!Trim(S \cup {e})
    PROVE  Crowded(Tweets!Trim(S \cup {e}), m)
  <1> DEFINE R == S \cup {e}
             T == Tweets!Trim(R)
  <1>1. R \in SUBSET EntrySet /\ IsFiniteSet(R) /\ Cardinality(R) \in Nat /\ Cardinality(S) \in Nat
        /\ Cardinality(R) = IF e \in S THEN Cardinality(S) ELSE Cardinality(S) + 1
    BY FS_AddElement, FS_CardinalityType
  <1>2. /\ T \in SUBSET R /\ IsFiniteSet(T) /\ Cardinality(T) \in 0..TimelineMax
        /\ \A x \in R \ T : Cardinality(T) = TimelineMax /\ \A y \in T : y.at >= x.at
    BY <1>1, TrimKeeps DEF Tweets!TimelineAssumptions
  <1> HIDE DEF T
  <1>3. \A y \in R : y.at \in Int
    BY <1>1 DEF EntrySet
  <1>4. CASE m \in R
    <2>1. m \in R \ T
      BY <1>4 DEF T
    <2> QED
      BY <1>2, <2>1 DEF Crowded, T
  <1>5. CASE m \notin R
    <2>1. Crowded(S, m) /\ m.at \in Int
      BY <1>5
    <2>2. TimelineMax \in Nat /\ Cardinality(S) = TimelineMax
      BY <2>1 DEF Crowded, Tweets!TimelineAssumptions
    <2>3. Cardinality(T) = TimelineMax
      <3>1. CASE T = R
        BY <1>1, <1>2, <2>2, <3>1
      <3>2. CASE T # R
        BY <1>2, <3>2
      <3> QED
        BY <3>1, <3>2
    <2>4. ASSUME NEW y \in T
          PROVE  y.at >= m.at
      <3>1. y \in R
        BY <1>2
      <3>2. CASE y \in S
        BY <2>1, <3>2 DEF Crowded
      <3>3. CASE y \notin S
        <4>1. y = e /\ e \notin S
          BY <3>1, <3>3
        <4>2. T # R
          <5>1. Cardinality(R) # Cardinality(T)
            BY <1>1, <2>2, <2>3, <4>1
          <5> QED
            BY <5>1
        <4>3. PICK x \in R : x \notin T
          BY <1>2, <4>2
        <4>4. x \in S
          BY <4>1, <4>3
        <4>5. y.at >= x.at /\ x.at >= m.at
          BY <1>2, <2>1, <4>3, <4>4 DEF Crowded
        <4> QED
          BY <1>3, <2>1, <3>1, <4>3, <4>5
      <3> QED
        BY <3>2, <3>3
    <2> QED
      BY <2>3, <2>4 DEF Crowded, T
  <1> QED
    BY <1>4, <1>5

\* Where a message stands, and what its entry is.
LEMMA MessageAt ==
    ASSUME TweetsInv, NEW u \in Tweeters, NEW i \in Nat \ {0}, i <= Len(tweetTopic[u])
    PROVE  /\ i \in DOMAIN tweetTopic[u] /\ tweetTopic[u][i] \in TweetSet
           /\ tweetTopic[u][i] \in Tweets!Sent /\ tweetTopic[u][i].user = u
           /\ Tweets!Entry(tweetTopic[u][i]) \in EntrySet
  <1>1. tweetTopic[u] \in Seq(TweetSet)
    BY DEF TweetsInv, TweetShape
  <1>2. i \in DOMAIN tweetTopic[u] /\ tweetTopic[u][i] \in TweetSet
    BY <1>1
  <1> QED
    BY <1>2, SentIs DEF TweetsInv, TweetShape, Tweets!Entry, TweetSet, EntrySet

LEMMA HandedAt ==
    ASSUME TweetsInv, NEW r, NEW e \in Handed(r)
    PROVE  \E u \in Tweets!Followees(r) : \E i \in 1..tweetsConsumed[u] :
              /\ u \in Tweeters /\ tweetTopic[u][i] \in tweets /\ tweetTopic[u][i] \in TweetSet
              /\ tweetTopic[u][i].user = u /\ e = Tweets!Entry(tweetTopic[u][i]) /\ e \in EntrySet
  <1>1. PICK u \in Tweets!Followees(r) : \E i \in 1..tweetsConsumed[u] :
              tweetTopic[u][i] \in tweets /\ e = Tweets!Entry(tweetTopic[u][i])
    BY HandedIs DEF Handed
  <1>2. PICK i \in 1..tweetsConsumed[u] : tweetTopic[u][i] \in tweets /\ e = Tweets!Entry(tweetTopic[u][i])
    BY <1>1
  <1>3. u \in Tweeters /\ tweetsConsumed[u] \in Nat /\ tweetsConsumed[u] <= Len(tweetTopic[u])
        /\ Len(tweetTopic[u]) \in Nat
    <2>1. u \in Tweeters
      BY DEF Tweets!Followees
    <2>2. tweetTopic[u] \in Seq(TweetSet)
      BY <2>1 DEF TweetsInv, TweetShape
    <2> QED
      BY <2>1, <2>2 DEF TweetsInv, TweetShape
  <1>4. i \in Nat \ {0} /\ i <= Len(tweetTopic[u])
    BY <1>3
  <1> QED
    BY <1>2, <1>3, <1>4, MessageAt

LEMMA FanOutKeeps ==
    ASSUME Tweets!TimelineAssumptions, TweetsInv, NEW u \in Tweeters, Tweets!FanOut(u)
    PROVE  TweetsInv'
  <1> DEFINE i == tweetsConsumed[u] + 1
             t == tweetTopic[u][i]
             e == Tweets!Entry(t)
  <1>1. /\ phase = "fanout" /\ tweetsConsumed[u] < Len(tweetTopic[u])
        /\ timeline' = [r \in Readers |-> IF r \in Tweets!Followers(u)
                                            THEN Tweets!Trim(timeline[r] \cup {e}) ELSE timeline[r]]
        /\ tweetsConsumed' = [tweetsConsumed EXCEPT ![u] = @ + 1]
        /\ run' = run /\ phase' = phase /\ posted' = posted /\ tweets' = tweets
        /\ tweetTopic' = tweetTopic /\ tweetsCommitted' = tweetsCommitted /\ cold' = cold
    BY DEF Tweets!FanOut, Tweets!postVars
  <1>2. /\ tweetsConsumed \in [Tweeters -> Nat] /\ tweetsConsumed[u] \in Nat
        /\ tweetTopic[u] \in Seq(TweetSet) /\ Len(tweetTopic[u]) \in Nat
    BY DEF TweetsInv, TweetShape
  <1>3. i \in Nat \ {0} /\ i <= Len(tweetTopic[u]) /\ t \in TweetSet /\ e \in EntrySet
    BY <1>1, <1>2, MessageAt
  <1> HIDE DEF e, t
  <1>4. /\ tweetsConsumed' \in [Tweeters -> Nat]
        /\ tweetsConsumed'[u] = tweetsConsumed[u] + 1
        /\ \A v \in Tweeters \ {u} : tweetsConsumed'[v] = tweetsConsumed[v]
    BY <1>1, <1>2
  <1>5. ASSUME NEW r \in Readers
        PROVE  /\ timeline[r] \in SUBSET EntrySet /\ IsFiniteSet(timeline[r])
               /\ timeline[r] \cup {e} \in SUBSET EntrySet /\ IsFiniteSet(timeline[r] \cup {e})
               /\ timeline'[r] \in SUBSET EntrySet /\ IsFiniteSet(timeline'[r])
    <2>1. /\ timeline[r] \in SUBSET EntrySet /\ IsFiniteSet(timeline[r])
          /\ timeline[r] \cup {e} \in SUBSET EntrySet /\ IsFiniteSet(timeline[r] \cup {e})
      BY <1>3, FS_AddElement DEF TweetsInv, TweetShape
    <2>2. Tweets!Trim(timeline[r] \cup {e}) \in SUBSET EntrySet
          /\ IsFiniteSet(Tweets!Trim(timeline[r] \cup {e}))
      BY <2>1, TrimKeeps DEF Tweets!TimelineAssumptions
    <2> QED
      BY <1>1, <2>1, <2>2
  <1>6. TweetShape'
    <2>1. timeline' \in [Readers -> SUBSET EntrySet] /\ \A r \in Readers : IsFiniteSet(timeline'[r])
      BY <1>1, <1>5
    <2>2. ASSUME NEW v \in Tweeters
          PROVE  tweetsCommitted[v] <= tweetsConsumed'[v] /\ tweetsConsumed'[v] <= Len(tweetTopic[v])
      <3>1. tweetsCommitted[v] <= tweetsConsumed[v] /\ tweetsConsumed[v] <= Len(tweetTopic[v])
            /\ tweetsCommitted[v] \in Nat
        BY DEF TweetsInv, TweetShape
      <3> QED
        BY <1>1, <1>2, <1>4, <3>1
    <2> QED
      BY <1>1, <1>4, <2>1, <2>2 DEF TweetsInv, TweetShape
  <1>7. Fresh'
    <2>1. Tweets!Sent' = Tweets!Sent /\ Tweets!NextId' = Tweets!NextId /\ posted = {}
      BY <1>1 DEF Tweets!Sent, Tweets!NextId, TweetsInv, Fresh
    <2> QED
      BY <1>1, <2>1 DEF TweetsInv, Fresh
  <1>8. ASSUME NEW r, NEW m \in HandedBy(tweetTopic, r, tweetsConsumed', tweets)
        PROVE  m \in Handed(r) \/ (m = e /\ u \in Tweets!Followees(r))
    <2>1. PICK v \in Tweets!Followees(r) : \E j \in 1..tweetsConsumed'[v] :
                tweetTopic[v][j] \in tweets /\ m = Tweets!Entry(tweetTopic[v][j])
      BY <1>8, HandedIs
    <2>2. PICK j \in 1..tweetsConsumed'[v] : tweetTopic[v][j] \in tweets /\ m = Tweets!Entry(tweetTopic[v][j])
      BY <2>1
    <2>3. v \in Tweeters /\ tweetsConsumed[v] \in Nat
      BY <1>2 DEF Tweets!Followees
    <2>4. CASE v = u /\ j = i
      BY <2>2, <2>4 DEF e, t
    <2>5. CASE ~(v = u /\ j = i)
      <3>1. j \in 1..tweetsConsumed[v]
        BY <1>2, <1>4, <2>3, <2>5
      <3> QED
        BY <2>2, <3>1, HandedIs DEF Handed
    <2> QED
      BY <2>4, <2>5
  <1>9. ASSUME NEW r \in Readers \ cold, NEW m \in HandedBy(tweetTopic, r, tweetsConsumed', tweets) \ timeline'[r]
        PROVE  Crowded(timeline'[r], m)
    <2>1. \A k \in Handed(r) \ timeline[r] : Crowded(timeline[r], k) /\ k.at \in Int
      <3>1. \A k \in Handed(r) : k \in EntrySet
        BY HandedAt
      <3> QED
        BY <3>1 DEF TweetsInv, NewestKept, EntrySet
    <2>2. r \in Tweets!Followers(u) <=> u \in Tweets!Followees(r)
      BY DEF Tweets!Followers, Tweets!Followees
    <2>3. CASE r \in Tweets!Followers(u)
      <3>1. timeline'[r] = Tweets!Trim(timeline[r] \cup {e})
        BY <1>1, <2>3
      <3>2. m \in Handed(r) \cup {e}
        BY <1>8
      <3>3. timeline[r] \in SUBSET EntrySet /\ IsFiniteSet(timeline[r]) /\ e \in EntrySet
        BY <1>3, <1>5
      <3>4. m \notin Tweets!Trim(timeline[r] \cup {e})
        BY <1>9, <3>1
      <3>5. Crowded(Tweets!Trim(timeline[r] \cup {e}), m)
        BY <2>1, <3>2, <3>3, <3>4, TrimCrowds
      <3> QED
        BY <3>1, <3>5
    <2>4. CASE r \notin Tweets!Followers(u)
      BY <1>1, <1>8, <1>9, <2>1, <2>2, <2>4
    <2> QED
      BY <2>3, <2>4
  <1> QED
    BY <1>1, <1>6, <1>7, <1>9 DEF TweetsInv, NewestKept, Handed

\* The rows of the open transaction were handed to nobody, so nothing is missed by the commit.
LEMMA CommitTweetsKeeps ==
    ASSUME TweetsInv, Tweets!CommitTweets
    PROVE  TweetsInv'
  <1>1. /\ tweets' = tweets \cup posted /\ posted' = {} /\ phase' = "fanout"
        /\ run' = run /\ tweetTopic' = tweetTopic /\ tweetsConsumed' = tweetsConsumed
        /\ tweetsCommitted' = tweetsCommitted /\ timeline' = timeline /\ cold' = cold
    BY DEF Tweets!CommitTweets
  <1>2. TweetShape'
    BY <1>1 DEF TweetsInv, TweetShape
  <1>3. Fresh'
    <2>1. Tweets!Sent' = Tweets!Sent /\ Tweets!NextId' = Tweets!NextId
      BY <1>1 DEF Tweets!Sent, Tweets!NextId
    <2> QED
      BY <1>1, <2>1 DEF TweetsInv, Fresh
  <1>4. \A r : HandedBy(tweetTopic, r, tweetsConsumed, tweets \cup posted) \subseteq Handed(r)
    <2> SUFFICES ASSUME NEW r, NEW e \in HandedBy(tweetTopic, r, tweetsConsumed, tweets \cup posted)
                 PROVE  e \in Handed(r)
      OBVIOUS
    <2>1. PICK v \in Tweets!Followees(r) : \E i \in 1..tweetsConsumed[v] :
                tweetTopic[v][i] \in tweets \cup posted /\ e = Tweets!Entry(tweetTopic[v][i])
      BY HandedIs
    <2>2. v \in Tweeters
      BY DEF Tweets!Followees
    <2> QED
      BY <2>1, <2>2, HandedIs DEF Handed, TweetsInv, Fresh
  <1> QED
    BY <1>1, <1>2, <1>3, <1>4 DEF TweetsInv, NewestKept, Handed, Crowded

\* The worker commits, closes or is started again from its committed offsets.
LEMMA OffsetsKeep ==
    ASSUME TweetsInv, Tweets!AutoCommit \/ Tweets!CloseConsumer \/ Tweets!RunAgain
    PROVE  TweetsInv'
  <1>1. /\ tweets' = tweets /\ tweetTopic' = tweetTopic /\ timeline' = timeline /\ cold' = cold
        /\ run' \in Int
        /\ \/ tweetsConsumed' = tweetsConsumed /\ tweetsCommitted' = tweetsConsumed
           \/ tweetsConsumed' = tweetsCommitted /\ tweetsCommitted' = tweetsCommitted
        /\ (posted' = posted /\ phase # "post") \/ posted' = {}
        /\ phase' # "rebuild"
    BY DEF Tweets!AutoCommit, Tweets!CloseConsumer, Tweets!RunAgain, Tweets!postVars, TweetsInv, TweetShape
  <1>2. /\ tweetsConsumed' \in [Tweeters -> Nat] /\ tweetsCommitted' \in [Tweeters -> Nat]
        /\ \A u \in Tweeters : /\ tweetsCommitted'[u] <= tweetsConsumed'[u]
                               /\ tweetsConsumed'[u] <= tweetsConsumed[u]
                               /\ tweetsConsumed[u] <= Len(tweetTopic[u])
                               /\ tweetsConsumed'[u] \in Nat /\ tweetsConsumed[u] \in Nat
                               /\ Len(tweetTopic[u]) \in Nat
    <2>1. \A u \in Tweeters : Len(tweetTopic[u]) \in Nat
      <3>1. \A u \in Tweeters : tweetTopic[u] \in Seq(TweetSet)
        BY DEF TweetsInv, TweetShape
      <3> QED
        BY <3>1
    <2>2. ASSUME NEW u \in Tweeters
          PROVE  tweetsCommitted[u] \in Nat /\ tweetsConsumed[u] \in Nat
                 /\ tweetsCommitted[u] <= tweetsConsumed[u] /\ tweetsConsumed[u] <= Len(tweetTopic[u])
      BY DEF TweetsInv, TweetShape
    <2>3. tweetsConsumed' \in [Tweeters -> Nat] /\ tweetsCommitted' \in [Tweeters -> Nat]
      BY <1>1 DEF TweetsInv, TweetShape
    <2>4. CASE tweetsConsumed' = tweetsConsumed /\ tweetsCommitted' = tweetsConsumed
      BY <2>1, <2>2, <2>3, <2>4
    <2>5. CASE tweetsConsumed' = tweetsCommitted /\ tweetsCommitted' = tweetsCommitted
      BY <2>1, <2>2, <2>3, <2>5
    <2> QED
      BY <1>1, <2>4, <2>5
  <1>3. TweetShape'
    <2>1. \A u \in Tweeters : tweetsConsumed'[u] <= Len(tweetTopic[u])
      BY <1>2
    <2> QED
      BY <1>1, <1>2, <2>1 DEF TweetsInv, TweetShape
  <1>4. Fresh'
    <2>1. Tweets!Sent' = Tweets!Sent /\ Tweets!NextId' = Tweets!NextId
      BY <1>1 DEF Tweets!Sent, Tweets!NextId
    <2>2. posted' = {}
      BY <1>1 DEF TweetsInv, Fresh
    <2> QED
      BY <1>1, <2>1, <2>2 DEF TweetsInv, Fresh
  <1>5. \A r : HandedBy(tweetTopic, r, tweetsConsumed', tweets) \subseteq Handed(r)
    BY <1>2, HandedGrows DEF Handed, TweetsInv, TweetShape
  <1> QED
    BY <1>1, <1>3, <1>4, <1>5 DEF TweetsInv, NewestKept, Handed, Crowded

LEMMA ExpireKeeps ==
    ASSUME Tweets!TimelineAssumptions, TweetsInv, Tweets!Expire
    PROVE  TweetsInv'
  <1>1. /\ timeline' = [timeline EXCEPT ![ColdReader] = {}] /\ cold' = cold \cup {ColdReader}
        /\ phase = "read" /\ posted' = posted
        /\ run' = run /\ tweets' = tweets /\ tweetTopic' = tweetTopic /\ tweetsConsumed' = tweetsConsumed
        /\ tweetsCommitted' = tweetsCommitted
    BY DEF Tweets!Expire, Tweets!postVars, Tweets!workerVars
  <1>2. /\ timeline' \in [Readers -> SUBSET EntrySet] /\ timeline'[ColdReader] = {}
        /\ \A r \in Readers \ {ColdReader} : timeline'[r] = timeline[r]
    BY <1>1 DEF TweetsInv, TweetShape, Tweets!TimelineAssumptions
  <1>3. TweetShape'
    BY <1>1, <1>2, FS_EmptySet DEF TweetsInv, TweetShape
  <1>4. Fresh'
    <2>1. Tweets!Sent' = Tweets!Sent /\ Tweets!NextId' = Tweets!NextId
      BY <1>1 DEF Tweets!Sent, Tweets!NextId
    <2> QED
      BY <1>1, <1>2, <2>1 DEF TweetsInv, Fresh
  <1> QED
    BY <1>1, <1>2, <1>3, <1>4 DEF TweetsInv, NewestKept, Handed, Crowded

\* The rebuilt timeline has the newest rows, and only rows were lost to it.
LEMMA BackfillKeeps ==
    ASSUME Tweets!TimelineAssumptions, TweetsInv, Tweets!Backfill
    PROVE  /\ TweetsInv' /\ Cardinality(timeline'[ColdReader]) <= TimelineMax
           /\ \A r \in Readers \ {ColdReader} : timeline'[r] = timeline[r]
  <1>1. PICK rows \in Tweets!Newest(ColdReader, TimelineMax) :
            timeline' = [timeline EXCEPT ![ColdReader] = @ \cup {Tweets!Entry(t) : t \in rows}]
    BY DEF Tweets!Backfill
  <1>2. /\ phase = "rebuild" /\ phase' = "done" /\ cold' = cold \ {ColdReader} /\ posted' = posted
        /\ run' = run /\ tweets' = tweets /\ tweetTopic' = tweetTopic /\ tweetsConsumed' = tweetsConsumed
        /\ tweetsCommitted' = tweetsCommitted
    BY DEF Tweets!Backfill, Tweets!postVars, Tweets!workerVars
  <1> DEFINE all == {t \in tweets : t.user \in Tweets!Followees(ColdReader)}
             built == {Tweets!Entry(t) : t \in rows}
  <1>3. /\ rows \in SUBSET all
        /\ Cardinality(rows) = IF Cardinality(all) < TimelineMax THEN Cardinality(all) ELSE TimelineMax
        /\ \A t \in rows, o \in all \ rows : t.at >= o.at
    BY SameTweetSize DEF Tweets!Newest
  <1>4. all \in SUBSET Tweets!Sent /\ IsFiniteSet(all) /\ Cardinality(all) \in Nat
    <2>1. all \in SUBSET Tweets!Sent
      BY DEF TweetsInv, Fresh
    <2> QED
      BY <2>1, FS_Subset, FS_CardinalityType DEF TweetsInv, Fresh
  <1>5. IsFiniteSet(rows) /\ Cardinality(rows) \in Nat
    BY <1>3, <1>4, FS_Subset, FS_CardinalityType
  <1>6. \A t \in Tweets!Sent : t \in TweetSet
    <2>1. \A u \in Tweeters : tweetTopic[u] \in Seq(TweetSet)
      BY DEF TweetsInv, TweetShape
    <2> QED
      BY <2>1, SentIs
  <1>7. built \in SUBSET EntrySet /\ IsFiniteSet(built) /\ Cardinality(built) = Cardinality(rows)
    <2> DEFINE g == [t \in rows |-> Tweets!Entry(t)]
    <2>1. g \in [rows -> built] /\ \A x \in built : \E t \in rows : g[t] = x
      OBVIOUS
    <2>2. \A s, t \in rows : g[s] = g[t] => s = t
      <3>1. \A s, t \in rows : Tweets!Entry(s) = Tweets!Entry(t) => s.id = t.id
        BY DEF Tweets!Entry
      <3> QED
        BY <1>3, <1>4, <3>1 DEF TweetsInv, Fresh
    <2>3. g \in Bijection(rows, built)
      <3> HIDE DEF g, built
      <3> QED
        BY <2>1, <2>2 DEF Bijection, Injection, Surjection, IsInjective
    <2>4. built \in SUBSET EntrySet
      BY <1>3, <1>4, <1>6 DEF EntrySet, TweetSet, Tweets!Entry
    <2> HIDE DEF g, built
    <2> QED
      BY <1>5, <2>3, <2>4, FS_Bijection DEF ExistsBijection
  <1>8. /\ timeline' \in [Readers -> SUBSET EntrySet] /\ timeline'[ColdReader] = built
        /\ \A r \in Readers \ {ColdReader} : timeline'[r] = timeline[r]
    <2>1. timeline[ColdReader] = {} /\ ColdReader \in Readers /\ timeline \in [Readers -> SUBSET EntrySet]
      BY <1>2 DEF TweetsInv, Fresh, TweetShape, Tweets!TimelineAssumptions
    <2> HIDE DEF all
    <2> QED
      BY <1>1, <1>7, <2>1
  <1> HIDE DEF built
  <1>9. TweetShape'
    BY <1>2, <1>7, <1>8 DEF TweetsInv, TweetShape
  <1>10. Fresh'
    <2>1. Tweets!Sent' = Tweets!Sent /\ Tweets!NextId' = Tweets!NextId
      BY <1>2 DEF Tweets!Sent, Tweets!NextId
    <2> QED
      BY <1>2, <2>1 DEF TweetsInv, Fresh
  <1>11. ASSUME NEW m \in Handed(ColdReader) \ built
         PROVE  Crowded(built, m)
    <2>1. PICK u \in Tweets!Followees(ColdReader) : \E i \in 1..tweetsConsumed[u] :
              /\ tweetTopic[u][i] \in tweets /\ tweetTopic[u][i].user = u
              /\ m = Tweets!Entry(tweetTopic[u][i])
      BY HandedAt
    <2>2. PICK o \in all : m = Tweets!Entry(o) /\ m.at = o.at
      BY <2>1 DEF Tweets!Entry
    <2>3. o \notin rows
      BY <1>11, <2>2 DEF built
    <2>4. Cardinality(rows) = TimelineMax
      <3>1. CASE Cardinality(rows) = Cardinality(all)
        <4>1. rows = all
          BY <1>3, <1>4, <1>5, <3>1, FS_Subset
        <4> QED
          BY <2>2, <2>3, <4>1
      <3> QED
        BY <1>3, <3>1
    <2>5. \A y \in built : \E t \in rows : y.at = t.at
      BY DEF built, Tweets!Entry
    <2>6. \A t \in rows : t.at >= m.at
      BY <1>3, <2>2, <2>3
    <2> QED
      BY <1>7, <2>4, <2>5, <2>6 DEF Crowded
  <1>12. \A r : Handed(r)' = Handed(r)
    BY <1>2 DEF Handed
  <1>13. Cardinality(timeline'[ColdReader]) <= TimelineMax
    BY <1>3, <1>4, <1>5, <1>7, <1>8 DEF Tweets!TimelineAssumptions
  <1> QED
    BY <1>2, <1>8, <1>9, <1>10, <1>11, <1>12, <1>13 DEF TweetsInv, NewestKept, Crowded

LEMMA TweetsInvStep ==
    ASSUME Tweets!TimelineAssumptions, TweetsInv, Tweets!Next \/ UNCHANGED tweetsVars
    PROVE  TweetsInv'
  <1>1. ASSUME UNCHANGED tweetsVars
        PROVE  TweetsInv'
    <2>1. /\ run' = run /\ phase' = phase /\ posted' = posted /\ tweets' = tweets /\ cold' = cold
          /\ tweetTopic' = tweetTopic /\ tweetsConsumed' = tweetsConsumed
          /\ tweetsCommitted' = tweetsCommitted /\ timeline' = timeline
      BY <1>1 DEF tweetsVars
    <2>2. Tweets!Sent' = Tweets!Sent /\ Tweets!NextId' = Tweets!NextId
      BY <2>1 DEF Tweets!Sent, Tweets!NextId
    <2>3. \A r : Handed(r)' = Handed(r)
      BY <2>1 DEF Handed
    <2>4. TweetShape'
      BY <2>1 DEF TweetsInv, TweetShape
    <2>5. Fresh'
      BY <2>1, <2>2 DEF TweetsInv, Fresh
    <2> QED
      BY <2>1, <2>3, <2>4, <2>5 DEF TweetsInv, NewestKept, Crowded
  <1>2. CASE Tweets!LabOver
    BY <1>1, <1>2 DEF Tweets!LabOver, Tweets!vars, tweetsVars
  <1> QED
    BY <1>1, <1>2, PostKeeps, FanOutKeeps, CommitTweetsKeeps, OffsetsKeep, ExpireKeeps, BackfillKeeps
    DEF Tweets!Next

\* The runs, the batch and the timelines stay within their limits.
TweetBounds ==
    /\ run \in 1..MaxRuns /\ taken \in 0..Batch
    /\ \A r \in Readers : Cardinality(timeline[r]) <= TimelineMax

LEMMA TweetBoundsInit ==
    ASSUME Tweets!TimelineAssumptions, Tweets!Init
    PROVE  TweetBounds
  BY FS_EmptySet DEF Tweets!TimelineAssumptions, Tweets!Init, TweetBounds

LEMMA TweetBoundsStep ==
    ASSUME Tweets!TimelineAssumptions, TweetsInv, TweetBounds, Tweets!Next \/ UNCHANGED tweetsVars
    PROVE  TweetBounds'
  <1> USE DEF TweetBounds, Tweets!TimelineAssumptions
  <1>1. CASE UNCHANGED tweetsVars \/ Tweets!LabOver
    BY <1>1 DEF Tweets!LabOver, Tweets!vars, tweetsVars
  <1>2. ASSUME NEW u \in Tweeters, Tweets!PostTweet(u)
        PROVE  TweetBounds'
    BY <1>2 DEF Tweets!PostTweet, Tweets!workerVars
  <1>3. ASSUME NEW u \in Tweeters, Tweets!FanOut(u)
        PROVE  TweetBounds'
    <2> DEFINE e == Tweets!Entry(tweetTopic[u][tweetsConsumed[u] + 1])
    <2>1. /\ taken < Batch /\ taken' = taken + 1 /\ run' = run
          /\ \A r \in Readers : timeline'[r] = timeline[r]
                                  \/ timeline'[r] = Tweets!Trim(timeline[r] \cup {e})
          /\ tweetsConsumed[u] < Len(tweetTopic[u])
      BY <1>3 DEF Tweets!FanOut
    <2>2. e \in EntrySet
      <3>1. tweetTopic[u] \in Seq(TweetSet) /\ tweetsConsumed[u] \in Nat
        BY DEF TweetsInv, TweetShape
      <3>2. tweetTopic[u][tweetsConsumed[u] + 1] \in TweetSet
        BY <2>1, <3>1
      <3> QED
        BY <3>2 DEF EntrySet, TweetSet, Tweets!Entry
    <2> HIDE DEF e
    <2>3. ASSUME NEW r \in Readers
          PROVE  Cardinality(Tweets!Trim(timeline[r] \cup {e})) <= TimelineMax
      <3>1. timeline[r] \cup {e} \in SUBSET EntrySet /\ IsFiniteSet(timeline[r] \cup {e})
        BY <2>2, FS_AddElement DEF TweetsInv, TweetShape
      <3> QED
        BY <3>1, TrimKeeps
    <2>4. \A r \in Readers : Cardinality(timeline'[r]) <= TimelineMax
      <3> SUFFICES ASSUME NEW r \in Readers PROVE Cardinality(timeline'[r]) <= TimelineMax
        OBVIOUS
      <3>1. CASE timeline'[r] = timeline[r]
        BY <3>1
      <3>2. CASE timeline'[r] = Tweets!Trim(timeline[r] \cup {e})
        BY <2>3, <3>2
      <3> QED
        BY <2>1, <3>1, <3>2
    <2>5. taken' \in 0..Batch /\ run' \in 1..MaxRuns
      BY <2>1
    <2> QED
      BY <2>4, <2>5
  <1>4. CASE Tweets!CommitTweets \/ Tweets!AutoCommit \/ Tweets!CloseConsumer \/ Tweets!RunAgain
    <2>1. timeline' = timeline /\ (taken' = 0 \/ taken' = taken) /\ (run' = run \/ (run < MaxRuns /\ run' = run + 1))
      BY <1>4 DEF Tweets!CommitTweets, Tweets!AutoCommit, Tweets!CloseConsumer, Tweets!RunAgain
    <2>2. taken' \in 0..Batch
      BY <2>1
    <2>3. run' \in 1..MaxRuns
      BY <2>1
    <2> QED
      BY <2>1, <2>2, <2>3
  <1>5. CASE Tweets!Expire
    <2>1. /\ run' = run /\ taken' = taken
          /\ timeline' = [timeline EXCEPT ![ColdReader] = {}]
      BY <1>5 DEF Tweets!Expire, Tweets!workerVars
    <2>2. timeline \in [Readers -> SUBSET EntrySet]
      BY DEF TweetsInv, TweetShape
    <2> QED
      BY <2>1, <2>2, FS_EmptySet
  <1>6. CASE Tweets!Backfill
    <2>1. run' = run /\ taken' = taken
      BY <1>6 DEF Tweets!Backfill, Tweets!workerVars
    <2> QED
      BY <1>6, <2>1, BackfillKeeps
  <1> QED
    BY <1>1, <1>2, <1>3, <1>4, <1>5, <1>6 DEF Tweets!Next

LEMMA TweetBoundsSuffice ==
    ASSUME TweetsInv, TweetBounds
    PROVE  Tweets!TypeOK
  BY SameTweetSize DEF TweetsInv, TweetShape, TweetBounds, Tweets!TypeOK

-----------------------------------------------------------------------------
(***************************************************************************)
(* The bounded list.  A producer that is about to push read a length below *)
(* the bound, so when the last of them read it, the others' pushes were    *)
(* all that could still come; every push and every discarded offer is one  *)
(* of its producer's counters.                                             *)
(***************************************************************************)
LEMMA SamePressure ==
    /\ \A S : Pressure!Cardinality(S) = Cardinality(S)
    /\ \A S : Pressure!IsFiniteSet(S) <=> IsFiniteSet(S)
    /\ \A f : Pressure!SumFunction(f) = SumFunction(f)
  <1>1. \A S : Pressure!Cardinality(S) = Cardinality(S)
    BY DEF Pressure!Cardinality, Cardinality
  <1>2. \A S : Pressure!IsFiniteSet(S) <=> IsFiniteSet(S)
    BY DEF Pressure!IsFiniteSet, IsFiniteSet
  <1>3. \A f : Pressure!SumFunction(f) = SumFunction(f)
    BY DEF Pressure!SumFunction, SumFunction, Pressure!SumFunctionOnSet, SumFunctionOnSet,
       Pressure!FoldFunctionOnSet, FoldFunctionOnSet, Pressure!MapThenFoldSet, MapThenFoldSet
  <1> QED
    BY <1>1, <1>2, <1>3

LEMMA PressureConstants ==
    ASSUME Pressure!PressureAssumptions
    PROVE  /\ IsFiniteSet(BpProducers) /\ Cardinality(BpProducers) \in Nat
           /\ MaxQueue \in Nat \ {0} /\ Offers \in Nat /\ MaxAttempt \in Nat
  BY SamePressure, FS_CardinalityType DEF Pressure!PressureAssumptions

Pushing == {p \in BpProducers : admitted[p]}

PressureShape ==
    /\ llen \in Nat /\ consumed \in Nat
    /\ admitted \in [BpProducers -> BOOLEAN]
    /\ offered \in [BpProducers -> Nat] /\ accepted \in [BpProducers -> Nat]
    /\ dropped \in [BpProducers -> Nat] /\ rejected \in [BpProducers -> Nat]
    /\ attempt \in [BpProducers -> 0..MaxAttempt]

PressureInv ==
    /\ PressureShape
    /\ \A p \in BpProducers : /\ offered[p] <= Offers /\ (admitted[p] => offered[p] < Offers)
                              /\ offered[p] = accepted[p] + dropped[p] + rejected[p]
    /\ strategy # "none" => llen + Cardinality(Pushing) <= MaxQueue + Cardinality(BpProducers) - 1
    /\ SumFunction(accepted) = llen + consumed
    /\ strategy # "drop" => \A p \in BpProducers : dropped[p] = 0
    /\ strategy # "reject" => \A p \in BpProducers : rejected[p] = 0

LEMMA PressureInvInit ==
    ASSUME Pressure!PressureAssumptions, Pressure!Init
    PROVE  PressureInv
  <1>1. Pushing = {} /\ Cardinality(Pushing) = 0
    BY FS_EmptySet DEF Pushing, Pressure!Init
  <1>2. SumFunction(accepted) = 0
    BY PressureConstants, TotalZero DEF Pressure!Init
  <1>3. 0 + 0 <= MaxQueue + Cardinality(BpProducers) - 1
    BY PressureConstants
  <1> QED
    BY <1>1, <1>2, <1>3, PressureConstants DEF PressureInv, PressureShape, Pressure!Init

LEMMA PressureInvSuffices ==
    ASSUME Pressure!PressureAssumptions, PressureInv
    PROVE  Pressure!QueueIsBounded /\ Pressure!TypeOK
  <1>1. Pressure!BoundedOvershoot
    BY SamePressure DEF PressureInv, Pushing, Pressure!BoundedOvershoot
  <1>2. ASSUME NEW f \in [BpProducers -> Nat], \A p \in BpProducers : f[p] = 0
        PROVE  SumFunction(f) = 0
    <2>1. f = [p \in BpProducers |-> 0]
      BY <1>2
    <2> QED
      BY <2>1, PressureConstants, TotalZero
  <1>3. Pressure!ItemsAccounted
    BY <1>2, SamePressure DEF PressureInv, PressureShape, Pressure!ItemsAccounted
  <1>4. Pressure!TypeOK
    BY PressureConstants DEF PressureInv, PressureShape, Pressure!TypeOK
  <1> QED
    BY <1>1, <1>3, <1>4 DEF Pressure!QueueIsBounded

\* One producer starts or ends a push.
LEMMA PushingMoves ==
    ASSUME Pressure!PressureAssumptions, PressureInv, NEW p \in BpProducers,
           \A q \in BpProducers \ {p} : admitted'[q] = admitted[q]
    PROVE  /\ Cardinality(Pushing) \in Nat /\ Cardinality(Pushing') \in Nat
           /\ Cardinality(Pushing') = Cardinality(Pushing) - In(p, Pushing) + In(p, Pushing')
           /\ Cardinality(Pushing') <= Cardinality(BpProducers)
  <1>1. Pushing \in SUBSET BpProducers /\ Pushing' \in SUBSET BpProducers
    BY DEF Pushing
  <1>2. IsFiniteSet(Pushing) /\ Pushing \ {p} = Pushing' \ {p}
    BY <1>1, PressureConstants, FS_Subset DEF Pushing
  <1> QED
    BY <1>1, <1>2, PressureConstants, ButOne, FS_Subset

LEMMA AdmitKeeps ==
    ASSUME Pressure!PressureAssumptions, PressureInv, NEW p \in BpProducers, Pressure!Admit(p)
    PROVE  PressureInv'
  <1>1. /\ ~admitted[p] /\ offered[p] < Offers /\ (strategy = "none" \/ ~Pressure!Full)
        /\ admitted' = [admitted EXCEPT ![p] = TRUE]
        /\ strategy' = strategy /\ llen' = llen /\ offered' = offered /\ accepted' = accepted
        /\ dropped' = dropped /\ rejected' = rejected /\ attempt' = attempt /\ consumed' = consumed
    BY DEF Pressure!Admit, Pressure!Offering
  <1>2. /\ admitted' \in [BpProducers -> BOOLEAN]
        /\ \A q \in BpProducers \ {p} : admitted'[q] = admitted[q]
    BY <1>1 DEF PressureInv, PressureShape
  <1>3. Cardinality(Pushing') <= Cardinality(BpProducers) /\ Cardinality(Pushing') \in Nat
    BY <1>2, PushingMoves
  <1>4. strategy # "none" => llen + Cardinality(Pushing') <= MaxQueue + Cardinality(BpProducers) - 1
    <2>1. strategy # "none" => ~(llen >= MaxQueue)
      BY <1>1 DEF Pressure!Full
    <2> QED
      BY <1>3, <2>1, PressureConstants DEF PressureInv, PressureShape
  <1>5. PressureShape'
    BY <1>1, <1>2 DEF PressureInv, PressureShape
  <1>6. \A q \in BpProducers : admitted'[q] => offered[q] < Offers
    BY <1>1, <1>2 DEF PressureInv
  <1> QED
    BY <1>1, <1>4, <1>5, <1>6 DEF PressureInv

\* An offer is discarded by the strategy that discards.
LEMMA DiscardKeeps ==
    ASSUME Pressure!PressureAssumptions, PressureInv, NEW p \in BpProducers,
           Pressure!Drop(p) \/ Pressure!Reject(p)
    PROVE  PressureInv'
  <1>1. /\ ~admitted[p] /\ offered[p] < Offers
        /\ offered' = [offered EXCEPT ![p] = @ + 1]
        /\ strategy' = strategy /\ llen' = llen /\ admitted' = admitted /\ accepted' = accepted
        /\ consumed' = consumed
    BY DEF Pressure!Drop, Pressure!Reject, Pressure!Offering
  <1>2. \/ /\ strategy = "drop" /\ dropped' = [dropped EXCEPT ![p] = @ + 1]
           /\ rejected' = rejected /\ attempt' = attempt
        \/ /\ strategy = "reject" /\ rejected' = [rejected EXCEPT ![p] = @ + 1]
           /\ dropped' = dropped
           /\ attempt' = [attempt EXCEPT ![p] = IF @ < MaxAttempt THEN @ + 1 ELSE @]
    BY DEF Pressure!Drop, Pressure!Reject
  <1>3. /\ offered' \in [BpProducers -> Nat] /\ offered'[p] = offered[p] + 1
        /\ \A q \in BpProducers \ {p} : offered'[q] = offered[q]
    BY <1>1 DEF PressureInv, PressureShape
  <1>4. /\ dropped' \in [BpProducers -> Nat] /\ rejected' \in [BpProducers -> Nat]
        /\ dropped'[p] + rejected'[p] = dropped[p] + rejected[p] + 1
        /\ \A q \in BpProducers \ {p} : dropped'[q] = dropped[q] /\ rejected'[q] = rejected[q]
    <2>1. dropped \in [BpProducers -> Nat] /\ rejected \in [BpProducers -> Nat]
      BY DEF PressureInv, PressureShape
    <2>2. CASE dropped' = [dropped EXCEPT ![p] = @ + 1] /\ rejected' = rejected
      BY <2>1, <2>2
    <2>3. CASE rejected' = [rejected EXCEPT ![p] = @ + 1] /\ dropped' = dropped
      BY <2>1, <2>3
    <2> QED
      BY <1>2, <2>2, <2>3
  <1>5. attempt' \in [BpProducers -> 0..MaxAttempt]
    <2>1. attempt[p] \in 0..MaxAttempt
      BY DEF PressureInv, PressureShape
    <2>2. (IF attempt[p] < MaxAttempt THEN attempt[p] + 1 ELSE attempt[p]) \in 0..MaxAttempt
      BY <2>1, PressureConstants
    <2> QED
      BY <1>2, <2>2 DEF PressureInv, PressureShape
  <1>6. PressureShape'
    BY <1>1, <1>3, <1>4, <1>5 DEF PressureInv, PressureShape
  <1>7. \A q \in BpProducers : /\ offered'[q] <= Offers /\ (admitted[q] => offered'[q] < Offers)
                               /\ offered'[q] = accepted[q] + dropped'[q] + rejected'[q]
    <2>1. ASSUME NEW q \in BpProducers, q # p
          PROVE  /\ offered'[q] <= Offers /\ (admitted[q] => offered'[q] < Offers)
                 /\ offered'[q] = accepted[q] + dropped'[q] + rejected'[q]
      BY <1>3, <1>4, <2>1 DEF PressureInv
    <2>2. /\ offered'[p] <= Offers /\ (admitted[p] => offered'[p] < Offers)
          /\ offered'[p] = accepted[p] + dropped'[p] + rejected'[p]
      <3>1. /\ accepted[p] \in Nat /\ dropped[p] \in Nat /\ rejected[p] \in Nat /\ offered[p] \in Nat
            /\ dropped'[p] \in Nat /\ rejected'[p] \in Nat /\ Offers \in Nat
            /\ offered[p] = accepted[p] + dropped[p] + rejected[p]
        BY <1>4, PressureConstants DEF PressureInv, PressureShape
      <3> QED
        BY <1>1, <1>3, <1>4, <3>1
    <2> QED
      BY <2>1, <2>2
  <1>8. /\ strategy # "drop" => \A q \in BpProducers : dropped'[q] = 0
        /\ strategy # "reject" => \A q \in BpProducers : rejected'[q] = 0
    BY <1>2 DEF PressureInv
  <1>9. Pushing' = Pushing
    BY <1>1 DEF Pushing
  <1> QED
    BY <1>1, <1>6, <1>7, <1>8, <1>9 DEF PressureInv

LEMMA PushKeeps ==
    ASSUME Pressure!PressureAssumptions, PressureInv, NEW p \in BpProducers, Pressure!Push(p)
    PROVE  PressureInv'
  <1>1. /\ admitted[p] /\ admitted' = [admitted EXCEPT ![p] = FALSE] /\ llen' = llen + 1
        /\ accepted' = [accepted EXCEPT ![p] = @ + 1] /\ offered' = [offered EXCEPT ![p] = @ + 1]
        /\ attempt' = [attempt EXCEPT ![p] = IF @ > 0 THEN @ - 1 ELSE 0]
        /\ strategy' = strategy /\ dropped' = dropped /\ rejected' = rejected /\ consumed' = consumed
    BY DEF Pressure!Push
  <1>2. /\ admitted' \in [BpProducers -> BOOLEAN] /\ ~admitted'[p]
        /\ \A q \in BpProducers \ {p} : admitted'[q] = admitted[q]
    BY <1>1 DEF PressureInv, PressureShape
  <1>3. /\ offered' \in [BpProducers -> Nat] /\ offered'[p] = offered[p] + 1
        /\ \A q \in BpProducers \ {p} : offered'[q] = offered[q]
    BY <1>1 DEF PressureInv, PressureShape
  <1>4. /\ accepted' \in [BpProducers -> Nat] /\ accepted'[p] = accepted[p] + 1
        /\ \A q \in BpProducers \ {p} : accepted'[q] = accepted[q]
    BY <1>1 DEF PressureInv, PressureShape
  <1>5. attempt' \in [BpProducers -> 0..MaxAttempt]
    <2>1. attempt[p] \in 0..MaxAttempt
      BY DEF PressureInv, PressureShape
    <2>2. (IF attempt[p] > 0 THEN attempt[p] - 1 ELSE 0) \in 0..MaxAttempt
      BY <2>1, PressureConstants
    <2> QED
      BY <1>1, <2>2 DEF PressureInv, PressureShape
  <1>6. PressureShape'
    BY <1>1, <1>2, <1>3, <1>4, <1>5 DEF PressureInv, PressureShape
  <1>7. \A q \in BpProducers : /\ offered'[q] <= Offers /\ (admitted'[q] => offered'[q] < Offers)
                               /\ offered'[q] = accepted'[q] + dropped[q] + rejected[q]
    <2>1. ASSUME NEW q \in BpProducers, q # p
          PROVE  /\ offered'[q] <= Offers /\ (admitted'[q] => offered'[q] < Offers)
                 /\ offered'[q] = accepted'[q] + dropped[q] + rejected[q]
      BY <1>2, <1>3, <1>4, <2>1 DEF PressureInv
    <2>2. /\ offered'[p] <= Offers /\ ~admitted'[p]
          /\ offered'[p] = accepted'[p] + dropped[p] + rejected[p]
      <3>1. /\ accepted[p] \in Nat /\ dropped[p] \in Nat /\ rejected[p] \in Nat /\ offered[p] \in Nat
            /\ Offers \in Nat /\ offered[p] < Offers
            /\ offered[p] = accepted[p] + dropped[p] + rejected[p]
        BY <1>1, PressureConstants DEF PressureInv, PressureShape
      <3> QED
        BY <1>2, <1>3, <1>4, <3>1
    <2> QED
      BY <2>1, <2>2
  <1>8. strategy # "none" => llen' + Cardinality(Pushing') <= MaxQueue + Cardinality(BpProducers) - 1
    <2>1. In(p, Pushing) = 1 /\ In(p, Pushing') = 0
      BY <1>1, <1>2 DEF In, Pushing
    <2>2. Cardinality(Pushing) \in Nat /\ Cardinality(Pushing') = Cardinality(Pushing) - 1
      BY <1>2, <2>1, PushingMoves
    <2> QED
      BY <1>1, <2>2, PressureConstants DEF PressureInv, PressureShape
  <1>9. SumFunction(accepted') = llen' + consumed
    <2>1. accepted \in [BpProducers -> Int] /\ accepted' \in [BpProducers -> Int]
          /\ accepted[p] \in Int /\ accepted'[p] - accepted[p] = 1
      BY <1>4 DEF PressureInv, PressureShape
    <2>2. SumFunction(accepted') = SumFunction(accepted) + (accepted'[p] - accepted[p])
      BY <1>4, <2>1, PressureConstants, TotalChange
    <2> QED
      BY <1>1, <2>1, <2>2 DEF PressureInv, PressureShape
  <1> QED
    BY <1>1, <1>6, <1>7, <1>8, <1>9 DEF PressureInv

LEMMA PopKeeps ==
    ASSUME Pressure!PressureAssumptions, PressureInv, Pressure!Pop
    PROVE  PressureInv'
  <1>1. /\ llen > 0 /\ llen' = llen - 1 /\ consumed' = consumed + 1
        /\ strategy' = strategy /\ admitted' = admitted /\ offered' = offered /\ accepted' = accepted
        /\ dropped' = dropped /\ rejected' = rejected /\ attempt' = attempt
    BY DEF Pressure!Pop
  <1>2. PressureShape'
    BY <1>1 DEF PressureInv, PressureShape
  <1>3. Pushing' = Pushing /\ Cardinality(Pushing) \in Nat
    <2>1. Pushing \in SUBSET BpProducers
      BY DEF Pushing
    <2> QED
      BY <1>1, <2>1, PressureConstants, FS_Subset, FS_CardinalityType DEF Pushing
  <1>4. strategy # "none" => llen' + Cardinality(Pushing') <= MaxQueue + Cardinality(BpProducers) - 1
    BY <1>1, <1>3, PressureConstants DEF PressureInv, PressureShape
  <1>5. SumFunction(accepted) = llen' + consumed'
    BY <1>1 DEF PressureInv, PressureShape
  <1> QED
    BY <1>1, <1>2, <1>4, <1>5 DEF PressureInv

LEMMA PressureInvStep ==
    ASSUME Pressure!PressureAssumptions, PressureInv, Pressure!Next \/ UNCHANGED pressureVars
    PROVE  PressureInv'
  <1>1. ASSUME UNCHANGED pressureVars
        PROVE  PressureInv'
    <2>1. /\ strategy' = strategy /\ llen' = llen /\ admitted' = admitted /\ offered' = offered
          /\ accepted' = accepted /\ dropped' = dropped /\ rejected' = rejected
          /\ attempt' = attempt /\ consumed' = consumed
      BY <1>1 DEF pressureVars
    <2>2. PressureShape' /\ Pushing' = Pushing
      BY <2>1 DEF PressureInv, PressureShape, Pushing
    <2> QED
      BY <2>1, <2>2 DEF PressureInv
  <1>2. CASE Pressure!Drained
    BY <1>1, <1>2 DEF Pressure!Drained, Pressure!vars, pressureVars
  <1> QED
    BY <1>1, <1>2, AdmitKeeps, DiscardKeeps, PushKeeps, PopKeeps DEF Pressure!Next

-----------------------------------------------------------------------------
(***************************************************************************)
(* The stream windows.  Every arrival is counted in its window or stands   *)
(* in the side output, and a window that is closed is counted no more.     *)
(***************************************************************************)
EventSet == [ts : Int, user : ClickUsers]
KeyOf(as, i) == Windows!TumblingWindowKey(as[i].ts)
Falling(as, S, w) == {i \in S : KeyOf(as, i) = w}

Zeros == [u \in ClickUsers |-> 0]
CountsOf(w) == IF w \in DOMAIN windowCounts THEN windowCounts[w] ELSE Zeros

WindowsShape ==
    /\ arrivals \in Seq(EventSet)
    /\ windowCounts \in [DOMAIN windowCounts -> [ClickUsers -> Nat]]
    /\ sideOutput \in SUBSET (DOMAIN arrivals)
    /\ closedWindows = DOMAIN emitted /\ closedWindows \subseteq DOMAIN windowCounts
    /\ \A i \in DOMAIN arrivals : KeyOf(arrivals, i) \in DOMAIN windowCounts

\* The watermark is behind the latest event by the allowed lateness.
AtHigh(t) == /\ \E i \in DOMAIN arrivals : t = arrivals[i].ts - AllowedLateness
             /\ \A i \in DOMAIN arrivals : t >= arrivals[i].ts - AllowedLateness
MarkIsHigh ==
    IF arrivals = <<>> THEN watermark = <<>> ELSE \E t \in Int : watermark = <<t>> /\ AtHigh(t)

\* The counts of window w and its late events are the events that fall into it.
Adds(w) == SumFunction(CountsOf(w)) + Cardinality(Falling(arrivals, sideOutput, w))
             = Cardinality(Falling(arrivals, DOMAIN arrivals, w))

WindowsInv ==
    /\ WindowsShape /\ MarkIsHigh
    /\ \A w : Adds(w)
    /\ \A w \in closedWindows : emitted[w] = SumFunction(windowCounts[w])

LEMMA SameWindows ==
    /\ \A S : Windows!Cardinality(S) = Cardinality(S)
    /\ \A S : Windows!IsFiniteSet(S) <=> IsFiniteSet(S)
    /\ \A f : Windows!SumFunction(f) = SumFunction(f)
  <1>1. \A S : Windows!Cardinality(S) = Cardinality(S)
    BY DEF Windows!Cardinality, Cardinality
  <1>2. \A S : Windows!IsFiniteSet(S) <=> IsFiniteSet(S)
    BY DEF Windows!IsFiniteSet, IsFiniteSet
  <1>3. \A f : Windows!SumFunction(f) = SumFunction(f)
    BY DEF Windows!SumFunction, SumFunction, Windows!SumFunctionOnSet, SumFunctionOnSet,
       Windows!FoldFunctionOnSet, FoldFunctionOnSet, Windows!MapThenFoldSet, MapThenFoldSet
  <1> QED
    BY <1>1, <1>2, <1>3

LEMMA WindowsInvInit ==
    ASSUME Windows!WindowAssumptions, Windows!Init
    PROVE  WindowsInv
  <1>1. /\ arrivals = <<>> /\ watermark = <<>> /\ windowCounts = <<>> /\ closedWindows = {}
        /\ sideOutput = {} /\ emitted = <<>>
    BY DEF Windows!Init
  <1>2. DOMAIN <<>> = {} /\ <<>> \in Seq(EventSet) /\ <<>> \in [{} -> [ClickUsers -> Nat]]
    OBVIOUS
  <1>3. WindowsShape /\ MarkIsHigh
    BY <1>1, <1>2 DEF WindowsShape, MarkIsHigh
  <1>4. ASSUME NEW w
        PROVE  Adds(w)
    <2>1. CountsOf(w) = Zeros /\ Falling(arrivals, sideOutput, w) = {} /\ Falling(arrivals, DOMAIN arrivals, w) = {}
      BY <1>1, <1>2 DEF CountsOf, Falling
    <2>2. SumFunction(Zeros) = 0 /\ Cardinality({}) = 0
      BY TotalZero, FS_EmptySet, SameWindows DEF Zeros, Windows!WindowAssumptions
    <2> QED
      BY <2>1, <2>2 DEF Adds
  <1> QED
    BY <1>1, <1>3, <1>4 DEF WindowsInv

LEMMA WindowsInvSuffices ==
    ASSUME Windows!WindowAssumptions, WindowsInv
    PROVE  Windows!TypeOK /\ Windows!StreamMatchesBatch
  <1>1. Windows!StreamMatchesBatch
    <2>1. \A w \in DOMAIN windowCounts :
             SumFunction(windowCounts[w]) + Cardinality(Falling(arrivals, sideOutput, w))
                = Cardinality(Falling(arrivals, DOMAIN arrivals, w))
      BY DEF WindowsInv, Adds, CountsOf
    <2>2. \A w : /\ Windows!TumblingAggregate(arrivals, w) = Cardinality(Falling(arrivals, DOMAIN arrivals, w))
                 /\ {i \in sideOutput : Windows!TumblingWindowKey(arrivals[i].ts) = w} = Falling(arrivals, sideOutput, w)
      BY SameWindows DEF Windows!TumblingAggregate, Falling, KeyOf
    <2>3. \A w \in closedWindows : emitted[w] = SumFunction(windowCounts[w])
      BY DEF WindowsInv
    <2> QED
      BY <2>1, <2>2, <2>3, SameWindows DEF Windows!StreamMatchesBatch
  <1>2. ASSUME arrivals # <<>>
        PROVE  watermark = <<Windows!ComputeWatermark(arrivals)>>
    <2>1. PICK t \in Int : watermark = <<t>> /\ AtHigh(t)
      BY <1>2 DEF WindowsInv, MarkIsHigh
    <2> DEFINE S == {arrivals[i].ts - AllowedLateness : i \in DOMAIN arrivals}
               top == CHOOSE m \in S : \A i \in DOMAIN arrivals : m >= arrivals[i].ts - AllowedLateness
    <2>2. Windows!ComputeWatermark(arrivals) = top
      BY DEF Windows!ComputeWatermark
    <2>3. t \in S /\ \A i \in DOMAIN arrivals : t >= arrivals[i].ts - AllowedLateness
      BY <2>1 DEF AtHigh
    <2>4. top \in S /\ \A i \in DOMAIN arrivals : top >= arrivals[i].ts - AllowedLateness
      BY <2>3
    <2> HIDE DEF top
    <2>5. \A m \in S : top >= m /\ t >= m
      BY <2>3, <2>4
    <2>6. top = t
      <3>1. top >= t /\ t >= top
        BY <2>3, <2>4, <2>5
      <3>2. PICK i \in DOMAIN arrivals : top = arrivals[i].ts - AllowedLateness
        BY <2>4
      <3>3. top \in Int
        <4>1. arrivals \in Seq(EventSet)
          BY DEF WindowsInv, WindowsShape
        <4>2. arrivals[i] \in EventSet
          BY <3>2, <4>1
        <4>3. arrivals[i].ts \in Int
          BY <4>2 DEF EventSet
        <4> QED
          BY <3>2, <4>3 DEF Windows!WindowAssumptions
      <3> QED
        BY <3>1, <3>3
    <2> QED
      BY <2>1, <2>2, <2>6
  <1> QED
    BY <1>1, <1>2 DEF Windows!TypeOK, WindowsInv, WindowsShape

\* An event arrives: the window it falls into has one more, and so has one of its two counts.
LEMMA ArriveKeeps ==
    ASSUME Windows!WindowAssumptions, WindowsInv, NEW ev \in EventSet, Windows!Arrive(ev)
    PROVE  WindowsInv'
  <1> DEFINE n == Len(arrivals)
             w == Windows!TumblingWindowKey(ev.ts)
             wm == Windows!Advanced(ev.ts)
             D == DOMAIN windowCounts
             due == IF wm = watermark THEN {}
                    ELSE {x \in DOMAIN windowCounts' : x + WindowSize <= wm[1]} \ closedWindows
             more == [CountsOf(w) EXCEPT ![ev.user] = @ + 1]
  <1>1. /\ arrivals' = Append(arrivals, ev)
        /\ closedWindows' = closedWindows \cup due
        /\ emitted' = [x \in DOMAIN emitted \cup due |->
                         IF x \in due THEN SumFunction(windowCounts'[x]) ELSE emitted[x]]
        /\ watermark' = wm
    BY SameWindows DEF Windows!Arrive, Windows!CloseBehind
  <1>2. \/ w \in closedWindows /\ sideOutput' = sideOutput \cup {n + 1} /\ windowCounts' = windowCounts
        \/ /\ w \notin closedWindows /\ sideOutput' = sideOutput
           /\ windowCounts' = [x \in D \cup {w} |-> IF x = w THEN more ELSE windowCounts[x]]
    BY DEF Windows!Arrive, Windows!Accept, CountsOf, Zeros
  <1> DEFINE late == w \in closedWindows
  <1> HIDE DEF due, wm, w
  <1>3. /\ n \in Nat /\ DOMAIN arrivals = 1..n /\ arrivals' \in Seq(EventSet) /\ DOMAIN arrivals' = 1..n + 1
        /\ arrivals'[n + 1] = ev /\ \A i \in 1..n : arrivals'[i] = arrivals[i]
        /\ sideOutput \in SUBSET (1..n)
    <2>1. arrivals \in Seq(EventSet) /\ sideOutput \in SUBSET (DOMAIN arrivals)
      BY DEF WindowsInv, WindowsShape
    <2> QED
      BY <1>1, <2>1
  <1>4. /\ (\A i \in 1..n : KeyOf(arrivals', i) = KeyOf(arrivals, i)) /\ KeyOf(arrivals', n + 1) = w
        /\ \A i \in 1..n : i # n + 1
    <2>1. \A i \in 1..n : KeyOf(arrivals', i) = KeyOf(arrivals, i)
      BY <1>3 DEF KeyOf
    <2>2. KeyOf(arrivals', n + 1) = w
      BY <1>3 DEF KeyOf, w
    <2>3. \A i \in 1..n : i # n + 1
      BY <1>3
    <2> QED
      BY <2>1, <2>2, <2>3
  <1>5. /\ ev.user \in ClickUsers /\ ev.ts \in Int /\ AllowedLateness \in Int
        /\ IsFiniteSet(ClickUsers)
    BY SameWindows DEF EventSet, Windows!WindowAssumptions
  <1>6. /\ CountsOf(w) \in [ClickUsers -> Nat] /\ more \in [ClickUsers -> Nat]
        /\ more[ev.user] = CountsOf(w)[ev.user] + 1
        /\ \A u \in ClickUsers \ {ev.user} : more[u] = CountsOf(w)[u]
    <2>1. CountsOf(w) \in [ClickUsers -> Nat]
      BY DEF CountsOf, Zeros, WindowsInv, WindowsShape
    <2> QED
      BY <1>5, <2>1
  <1>7. SumFunction(CountsOf(w)) \in Int /\ SumFunction(more) = SumFunction(CountsOf(w)) + 1
    <2>1. CountsOf(w) \in [ClickUsers -> Int] /\ more \in [ClickUsers -> Int]
          /\ CountsOf(w)[ev.user] \in Int /\ more[ev.user] - CountsOf(w)[ev.user] = 1
      BY <1>5, <1>6
    <2> HIDE DEF more
    <2>2. SumFunction(more) = SumFunction(CountsOf(w)) + (more[ev.user] - CountsOf(w)[ev.user])
      BY <1>5, <1>6, <2>1, TotalChange
    <2>3. SumFunction(CountsOf(w)) \in Int
      BY <1>5, <2>1, TotalType
    <2> QED
      BY <2>1, <2>2, <2>3
  <1> HIDE DEF more
  <1>8. /\ DOMAIN windowCounts' = D \cup {w} /\ w \in DOMAIN windowCounts'
        /\ \A x \in D : x # w \/ late => windowCounts'[x] = windowCounts[x]
        /\ ~late => windowCounts'[w] = more
        /\ windowCounts' \in [DOMAIN windowCounts' -> [ClickUsers -> Nat]]
    <2>1. closedWindows \subseteq D /\ windowCounts \in [D -> [ClickUsers -> Nat]]
      BY DEF WindowsInv, WindowsShape
    <2> QED
      BY <1>2, <1>6, <2>1
  <1>9. WindowsShape'
    <2>1. sideOutput' \in SUBSET (1..n + 1)
      BY <1>2, <1>3
    <2>2. closedWindows' = DOMAIN emitted' /\ closedWindows' \subseteq DOMAIN windowCounts'
      BY <1>1, <1>8 DEF WindowsInv, WindowsShape, due
    <2>3. \A i \in 1..n + 1 : KeyOf(arrivals', i) \in DOMAIN windowCounts'
      <3>1. \A i \in 1..n : KeyOf(arrivals', i) \in DOMAIN windowCounts'
        <4>1. \A i \in 1..n : KeyOf(arrivals, i) \in D
          BY <1>3 DEF WindowsInv, WindowsShape
        <4> QED
          BY <1>4, <1>8, <4>1
      <3>2. \A i \in 1..n + 1 : i \in 1..n \/ i = n + 1
        BY <1>3
      <3> QED
        BY <1>4, <1>8, <3>1, <3>2
    <2> QED
      BY <1>3, <1>8, <2>1, <2>2, <2>3 DEF WindowsShape
  <1>10. MarkIsHigh'
    <2> DEFINE here == ev.ts - AllowedLateness
    <2>1. \A i \in 1..n + 1 : i \in 1..n \/ i = n + 1
      BY <1>3
    <2>2. here \in Int /\ arrivals' # <<>> /\ n + 1 \in 1..n + 1
      BY <1>3, <1>5
    <2>3. \A i \in 1..n : arrivals[i].ts \in Int
      <3>1. \A i \in 1..n : arrivals[i] \in EventSet
        <4>1. arrivals \in Seq(EventSet)
          BY DEF WindowsInv, WindowsShape
        <4> QED
          BY <1>3, <4>1
      <3> QED
        BY <3>1 DEF EventSet
    <2>4. \E t \in Int : watermark' = <<t>> /\ AtHigh(t)'
      <3>1. CASE arrivals = <<>>
        <4>1. n = 0 /\ wm = <<here>>
          BY <3>1 DEF WindowsInv, MarkIsHigh, wm, Windows!Advanced
        <4> QED
          BY <1>1, <1>3, <2>1, <2>2, <4>1 DEF AtHigh
      <3>2. CASE arrivals # <<>>
        <4>1. PICK t \in Int : watermark = <<t>> /\ AtHigh(t)
          BY <3>2 DEF WindowsInv, MarkIsHigh
        <4>2. wm = IF t >= here THEN <<t>> ELSE <<here>>
          BY <4>1 DEF wm, Windows!Advanced
        <4>3. /\ \E i \in 1..n : t = arrivals'[i].ts - AllowedLateness
              /\ \A i \in 1..n : t >= arrivals'[i].ts - AllowedLateness /\ arrivals'[i].ts \in Int
          BY <1>3, <2>3, <4>1 DEF AtHigh
        <4>4. CASE t >= here
          <5>1. AtHigh(t)'
            <6>1. \A i \in 1..n : i \in 1..n + 1
              BY <1>3
            <6>2. \E i \in 1..n + 1 : t = arrivals'[i].ts - AllowedLateness
              BY <4>3, <6>1
            <6>3. \A i \in 1..n : t >= arrivals'[i].ts - AllowedLateness
              BY <4>3
            <6>4. t >= arrivals'[n + 1].ts - AllowedLateness
              BY <1>3, <4>4
            <6>5. \A i \in 1..n + 1 : t >= arrivals'[i].ts - AllowedLateness
              BY <2>1, <6>3, <6>4
            <6> QED
              BY <1>3, <6>2, <6>5 DEF AtHigh
          <5> QED
            BY <1>1, <4>2, <4>4, <5>1
        <4>5. CASE ~(t >= here)
          <5>1. \A i \in 1..n : here >= arrivals'[i].ts - AllowedLateness
            <6> SUFFICES ASSUME NEW i \in 1..n PROVE here >= arrivals'[i].ts - AllowedLateness
              OBVIOUS
            <6>1. t >= arrivals'[i].ts - AllowedLateness /\ arrivals'[i].ts - AllowedLateness \in Int
              BY <1>5, <4>3
            <6> HIDE DEF here
            <6> QED
              BY <2>2, <4>5, <6>1
          <5>2. here >= here
            BY <2>2
          <5>3. AtHigh(here)'
            BY <1>3, <2>1, <2>2, <5>1, <5>2 DEF AtHigh
          <5> QED
            BY <1>1, <2>2, <4>2, <4>5, <5>3
        <4> QED
          BY <4>4, <4>5
      <3> QED
        BY <3>1, <3>2
    <2> QED
      BY <2>2, <2>4 DEF MarkIsHigh
  <1>11. ASSUME NEW S \in SUBSET (1..n), NEW T \in SUBSET (1..n + 1), T \ {n + 1} = S, NEW x
         PROVE  /\ Cardinality(Falling(arrivals, S, x)) \in Nat /\ Cardinality(Falling(arrivals', T, x)) \in Nat
                /\ Cardinality(Falling(arrivals', T, x)) =
                     Cardinality(Falling(arrivals, S, x)) + (IF n + 1 \in T /\ x = w THEN 1 ELSE 0)
    <2> DEFINE A == {i \in S : KeyOf(arrivals, i) = x}
               B == {i \in T : KeyOf(arrivals', i) = x}
    <2>1. A \ {n + 1} = B \ {n + 1} /\ n + 1 \notin A /\ (n + 1 \in B <=> n + 1 \in T /\ x = w)
      <3>1. n + 1 \notin S /\ \A i \in S : i \in T /\ i # n + 1 /\ KeyOf(arrivals', i) = KeyOf(arrivals, i)
        BY <1>4, <1>11
      <3>2. \A i \in T : i # n + 1 => i \in S
        BY <1>11
      <3> QED
        BY <1>4, <3>1, <3>2
    <2>2. IsFiniteSet(A)
      <3>1. A \in SUBSET (1..n)
        OBVIOUS
      <3>2. IsFiniteSet(1..n)
        BY <1>3, FS_Interval
      <3> QED
        BY <3>1, <3>2, FS_Subset
    <2>3. Falling(arrivals, S, x) = A /\ Falling(arrivals', T, x) = B
      BY DEF Falling
    <2> HIDE DEF A, B
    <2>4. /\ Cardinality(A) \in Nat /\ Cardinality(B) \in Nat
          /\ Cardinality(B) = Cardinality(A) - In(n + 1, A) + In(n + 1, B)
      BY <2>1, <2>2, ButOne
    <2>5. In(n + 1, A) = 0 /\ In(n + 1, B) = IF n + 1 \in T /\ x = w THEN 1 ELSE 0
      BY <2>1 DEF In
    <2> QED
      BY <2>3, <2>4, <2>5
  <1>12. ASSUME NEW x
         PROVE  Adds(x)'
    <2>1. /\ Cardinality(Falling(arrivals, DOMAIN arrivals, x)) \in Nat
          /\ Cardinality(Falling(arrivals', DOMAIN arrivals', x)) =
               Cardinality(Falling(arrivals, DOMAIN arrivals, x)) + (IF x = w THEN 1 ELSE 0)
      <3>1. 1..n \in SUBSET (1..n) /\ 1..n + 1 \in SUBSET (1..n + 1) /\ (1..n + 1) \ {n + 1} = 1..n
            /\ n + 1 \in 1..n + 1
        BY <1>3
      <3>2. Cardinality(Falling(arrivals', 1..n + 1, x)) = Cardinality(Falling(arrivals, 1..n, x)) + (IF x = w THEN 1 ELSE 0)
            /\ Cardinality(Falling(arrivals, 1..n, x)) \in Nat
        BY <1>11, <3>1
      <3>3. Falling(arrivals', DOMAIN arrivals', x) = Falling(arrivals', 1..n + 1, x) /\ Falling(arrivals, DOMAIN arrivals, x) = Falling(arrivals, 1..n, x)
        BY <1>3 DEF Falling
      <3> QED
        BY <3>2, <3>3
    <2>2. /\ Cardinality(Falling(arrivals, sideOutput, x)) \in Nat
          /\ Cardinality(Falling(arrivals', sideOutput', x)) =
               Cardinality(Falling(arrivals, sideOutput, x)) + (IF late /\ x = w THEN 1 ELSE 0)
      <3> DEFINE T == IF late THEN sideOutput \cup {n + 1} ELSE sideOutput
      <3>1. sideOutput' = T
        BY <1>2
      <3>2. T \in SUBSET (1..n + 1) /\ T \ {n + 1} = sideOutput /\ (n + 1 \in T <=> late)
        <4>1. n + 1 \in 1..n + 1 /\ n + 1 \notin sideOutput /\ sideOutput \in SUBSET (1..n + 1)
          BY <1>3
        <4> HIDE DEF late
        <4> QED
          BY <4>1
      <3> HIDE DEF T
      <3>3. Cardinality(Falling(arrivals', T, x)) = Cardinality(Falling(arrivals, sideOutput, x)) + (IF n + 1 \in T /\ x = w THEN 1 ELSE 0)
            /\ Cardinality(Falling(arrivals, sideOutput, x)) \in Nat
        BY <1>3, <1>11, <3>2
      <3>4. Falling(arrivals', sideOutput', x) = {i \in T : KeyOf(arrivals', i) = x}
        BY <3>1 DEF Falling
      <3>5. {i \in T : KeyOf(arrivals', i) = x} = Falling(arrivals', T, x)
        BY DEF Falling
      <3> QED
        BY <3>2, <3>3, <3>4, <3>5
    <2>3. /\ SumFunction(CountsOf(x)) \in Int
          /\ SumFunction(CountsOf(x)') = SumFunction(CountsOf(x)) + (IF ~late /\ x = w THEN 1 ELSE 0)
      <3>1. CASE x = w /\ ~late
        BY <1>7, <1>8, <3>1 DEF CountsOf
      <3>2. CASE ~(x = w /\ ~late)
        <4>1. CountsOf(x)' = CountsOf(x)
          BY <1>8, <3>2 DEF CountsOf, Zeros, WindowsInv, WindowsShape
        <4>2. CountsOf(x) \in [ClickUsers -> Int]
          BY DEF CountsOf, Zeros, WindowsInv, WindowsShape
        <4>3. SumFunction(CountsOf(x)) \in Int
          BY <1>5, <4>2, TotalType
        <4> QED
          BY <3>2, <4>1, <4>3
      <3> QED
        BY <3>1, <3>2
    <2>4. Adds(x)
      BY DEF WindowsInv
    <2>5. Adds(x)' <=> SumFunction(CountsOf(x)') + Cardinality(Falling(arrivals', sideOutput', x))
                          = Cardinality(Falling(arrivals', DOMAIN arrivals', x))
      BY DEF Adds
    <2> HIDE DEF late
    <2> QED
      BY <2>1, <2>2, <2>3, <2>4, <2>5 DEF Adds
  <1>13. ASSUME NEW x \in closedWindows'
         PROVE  emitted'[x] = SumFunction(windowCounts'[x])
    <2>1. CASE x \in due
      BY <1>1, <2>1
    <2>2. CASE x \notin due
      <3>1. x \in closedWindows /\ x \in D /\ emitted'[x] = emitted[x]
        BY <1>1, <1>13, <2>2 DEF WindowsInv, WindowsShape
      <3>2. windowCounts'[x] = windowCounts[x]
        BY <1>8, <3>1
      <3> QED
        BY <3>1, <3>2 DEF WindowsInv
    <2> QED
      BY <2>1, <2>2
  <1> QED
    BY <1>9, <1>10, <1>12, <1>13 DEF WindowsInv

LEMMA WindowsInvStep ==
    ASSUME Windows!WindowAssumptions, WindowsInv, Windows!Next \/ UNCHANGED windowsVars
    PROVE  WindowsInv'
  <1>1. ASSUME UNCHANGED windowsVars
        PROVE  WindowsInv'
    <2>1. /\ arrivals' = arrivals /\ watermark' = watermark /\ windowCounts' = windowCounts
          /\ closedWindows' = closedWindows /\ sideOutput' = sideOutput /\ emitted' = emitted
      BY <1>1 DEF windowsVars
    <2>2. \A i : KeyOf(arrivals', i) = KeyOf(arrivals, i)
      BY <2>1 DEF KeyOf, Windows!TumblingWindowKey
    <2>3. WindowsShape' /\ MarkIsHigh'
      BY <2>1, <2>2 DEF WindowsInv, WindowsShape, MarkIsHigh, AtHigh
    <2>4. \A w : Adds(w)'
      BY <2>1, <2>2 DEF WindowsInv, Adds, CountsOf, Zeros, Falling
    <2> QED
      BY <2>1, <2>3, <2>4 DEF WindowsInv
  <1>2. CASE Windows!StreamEnds
    BY <1>1, <1>2 DEF Windows!StreamEnds, Windows!vars, windowsVars
  <1>3. ASSUME NEW t \in EventTimes, NEW u \in ClickUsers, Windows!Arrive([ts |-> t, user |-> u])
        PROVE  WindowsInv'
    <2>1. [ts |-> t, user |-> u] \in EventSet
      BY DEF EventSet, Windows!WindowAssumptions
    <2> QED
      BY <1>3, <2>1, ArriveKeeps
  <1> QED
    BY <1>1, <1>2, <1>3 DEF Windows!Next

-----------------------------------------------------------------------------
(***************************************************************************)
(* The composition.  A lab that does not run stays in an initial state, so *)
(* each inductive invariant holds whichever `lab' is.                      *)
(***************************************************************************)

\* A message of the work queue is in one place and processed once, whatever crashes and is
\* delivered again (02/05); a notification is recorded once, each message handed out is
\* counted once, rows that a dying worker left uncounted aside, and a key is sent by no more
\* than all the workers, in a race, and those that died (C09).
THEOREM EveryMessageOnce == MCSpec => []DeliveredAndOnce
  <1>1. MCInit => WorkInv /\ NoticesInv
    BY MCAssumption, WorkInvInit, NoticesInvInit DEF MCInit
  <1>2. WorkInv /\ [MCNext]_mcVars => WorkInv'
    BY MCAssumption, WorkInvStep DEF MCNext, mcVars
  <1>3. NoticesInv /\ [MCNext]_mcVars => NoticesInv'
    BY MCAssumption, NoticesInvStep DEF MCNext, mcVars
  <1>4. WorkInv /\ NoticesInv => DeliveredAndOnce
    BY MCAssumption, WorkInvSuffices, NoticesInvSuffices DEF DeliveredAndOnce
  <1> QED
    BY <1>1, <1>2, <1>3, <1>4, PTL DEF MCSpec

\* What an idempotent consumer rebuilds, whatever is delivered to it again, is a replay of
\* the log up to what it has seen; an order of the outbox is published or still to be
\* published, whenever the relay crashes (02/04).
THEOREM EventsStayKept == MCSpec => []EventsAreKept
  <1>1. MCInit => SourcingInv /\ OutboxInv
    BY SourcingInvInit, OutboxInvInit DEF MCInit
  <1>2. SourcingInv /\ [MCNext]_mcVars => SourcingInv'
    BY SourcingInvStep DEF MCNext, mcVars
  <1>3. OutboxInv /\ [MCNext]_mcVars => OutboxInv'
    BY MCAssumption, OutboxInvStep DEF MCNext, mcVars, Events!EventAssumptions
  <1>4. SourcingInv /\ OutboxInv => EventsAreKept
    BY SourcingInvSuffices, OutboxInvSuffices DEF EventsAreKept
  <1> QED
    BY <1>1, <1>2, <1>3, <1>4, PTL DEF MCSpec

\* Across joins, leaves and crashes of its members the group owns its partitions one
\* member each, and is handed every record below a committed offset, in order; no payment
\* below a committed offset is lost (02/06).
THEOREM GroupAlwaysDelivers == MCSpec => []GroupDelivers
  <1>1. IsFiniteSet(Keys) /\ IsFiniteSet(GroupMembers) /\ MaxRetries \in Nat
    BY MCAssumption DEF Kafka!KafkaAssumptions, Kafka!IsFiniteSet, IsFiniteSet
  <1>2. MCInit => GroupInv /\ ParkingInv
    BY <1>1, GroupInvInit, ParkingInvInit DEF MCInit
  <1>3. GroupInv /\ [MCNext]_mcVars => GroupInv'
    BY <1>1, GroupInvStep DEF MCNext, mcVars
  <1>4. ParkingInv /\ [MCNext]_mcVars => ParkingInv'
    BY <1>1, ParkingInvStep DEF MCNext, mcVars
  <1>5. GroupInv /\ ParkingInv => GroupDelivers
    BY <1>1, GroupInvSuffices, ParkingInvSuffices DEF GroupDelivers
  <1> QED
    BY <1>2, <1>3, <1>4, <1>5, PTL DEF MCSpec

\* A message waits as sent only while its recipient has no entry in connected_users or one
\* whose socket is gone, a task has it in hand or died with it, or a copy has arrived (an open
\* recipient whose entry an old connection popped is among these cases); the
\* registered tasks are alive, and a queue being flushed is its user's, in the order of the
\* table, whatever devices vanish, statements fail and restarts come between (ws_server.py).
THEOREM ChatStaysConsistent == MCSpec => []ChatIsConsistent
  <1>1. MCInit => ChatInv
    BY ChatInvInit DEF MCInit
  <1>2. ChatInv /\ [MCNext]_mcVars => ChatInv'
    BY ChatInvStep DEF MCNext, mcVars
  <1>3. ChatInv => ChatIsConsistent
    BY ChatInvSuffices DEF ChatIsConsistent
  <1> QED
    BY <1>1, <1>2, <1>3, PTL DEF MCSpec

\* A warm timeline lacks a tweet that was fanned out and committed only when it is full of
\* tweets that are no older, for any authors, readers and runs of the lab, in any order of
\* the partitions and after any crash (C02).
THEOREM TimelinesStayNewest == MCSpec => []TimelinesAreTheNewest
  <1>1. MCInit => TweetsInv
    BY MCAssumption, TweetsInvInit DEF MCInit
  <1>2. TweetsInv /\ [MCNext]_mcVars => TweetsInv'
    BY MCAssumption, TweetsInvStep DEF MCNext, mcVars, tweetsVars
  <1>3. TweetsInv => TimelinesAreTheNewest
    BY TweetsInvSuffices DEF TimelinesAreTheNewest
  <1> QED
    BY <1>1, <1>2, <1>3, PTL DEF MCSpec

\* When a window is closed its count, the late events and the later ones agree with the
\* batch count of the same events, in whatever order they arrive (02/07).
THEOREM WindowsMatchBatch == MCSpec => [](lab = "windows" => Windows!StreamMatchesBatch)
  <1>1. MCInit => WindowsInv
    BY MCAssumption, WindowsInvInit DEF MCInit
  <1>2. WindowsInv /\ [MCNext]_mcVars => WindowsInv'
    BY MCAssumption, WindowsInvStep DEF MCNext, mcVars, windowsVars
  <1>3. WindowsInv => (lab = "windows" => Windows!StreamMatchesBatch)
    BY MCAssumption, WindowsInvSuffices
  <1> QED
    BY <1>1, <1>2, <1>3, PTL DEF MCSpec

\* The bounded queue never holds more than it may and every offer is accounted for, for any
\* producers and any strategy (02/18).
THEOREM QueueStaysBounded == MCSpec => [](lab = "backpressure" => Pressure!QueueIsBounded)
  <1>1. MCInit => PressureInv
    BY MCAssumption, PressureInvInit DEF MCInit
  <1>2. PressureInv /\ [MCNext]_mcVars => PressureInv'
    BY MCAssumption, PressureInvStep DEF MCNext, mcVars, pressureVars
  <1>3. PressureInv => (lab = "backpressure" => Pressure!QueueIsBounded)
    BY MCAssumption, PressureInvSuffices
  <1> QED
    BY <1>1, <1>2, <1>3, PTL DEF MCSpec

LEMMA WorkTyped ==
    ASSUME WorkInv
    PROVE  Work!TypeOK
  <1>1. \A c \in Work!Consumers : handled[c] => unacked[c] # <<>>
    BY DEF WorkInv, HandledIsSeen
  <1>2. \A q \in Queues : acked[q] \cup deadLetters[q] \subseteq published[q]
    BY DEF WorkInv, OnePlace
  <1> QED
    BY <1>1, <1>2 DEF Work!TypeOK

LEMMA NoticesTyped ==
    ASSUME NoticesInv
    PROVE  Notices!TypeOK
  BY DEF NoticesInv, NoticesShape, Notices!TypeOK

\* The variables of every lab keep their types and their limits.
THEOREM MessagingTyped == MCSpec => []EachTypeOK
  <1> DEFINE Inv1 == ChatInv /\ SourcingInv /\ OutboxInv /\ WorkInv /\ NoticesInv
             Inv2 == GroupInv /\ ParkingInv /\ WindowsInv /\ PressureInv /\ TweetsInv /\ TweetBounds
  <1>1. IsFiniteSet(Keys) /\ IsFiniteSet(GroupMembers) /\ MaxRetries \in Nat
    BY MCAssumption DEF Kafka!KafkaAssumptions, Kafka!IsFiniteSet, IsFiniteSet
  <1>2. MCInit => Inv1
    BY MCAssumption, ChatInvInit, SourcingInvInit, OutboxInvInit, WorkInvInit, NoticesInvInit DEF MCInit
  <1>3. MCInit => Inv2
    BY MCAssumption, <1>1, GroupInvInit, ParkingInvInit, WindowsInvInit, PressureInvInit,
       TweetsInvInit, TweetBoundsInit DEF MCInit
  <1>4. Inv1 /\ [MCNext]_mcVars => Inv1'
    <2>1. ChatInv /\ SourcingInv /\ [MCNext]_mcVars => ChatInv' /\ SourcingInv'
      BY ChatInvStep, SourcingInvStep DEF MCNext, mcVars
    <2>2. OutboxInv /\ [MCNext]_mcVars => OutboxInv'
      BY MCAssumption, OutboxInvStep DEF MCNext, mcVars, Events!EventAssumptions
    <2>3. WorkInv /\ NoticesInv /\ [MCNext]_mcVars => WorkInv' /\ NoticesInv'
      BY MCAssumption, WorkInvStep, NoticesInvStep DEF MCNext, mcVars
    <2> QED
      BY <2>1, <2>2, <2>3
  <1>5. Inv2 /\ [MCNext]_mcVars => Inv2'
    <2>1. GroupInv /\ ParkingInv /\ [MCNext]_mcVars => GroupInv' /\ ParkingInv'
      BY <1>1, GroupInvStep, ParkingInvStep DEF MCNext, mcVars
    <2>2. WindowsInv /\ PressureInv /\ [MCNext]_mcVars => WindowsInv' /\ PressureInv'
      BY MCAssumption, WindowsInvStep, PressureInvStep DEF MCNext, mcVars, windowsVars, pressureVars
    <2>3. TweetsInv /\ TweetBounds /\ [MCNext]_mcVars => TweetsInv' /\ TweetBounds'
      BY MCAssumption, TweetsInvStep, TweetBoundsStep DEF MCNext, mcVars, tweetsVars
    <2> QED
      BY <2>1, <2>2, <2>3
  <1>6. Inv1 /\ Inv2 => EachTypeOK
    <2>1. ChatInv => TypeOK
      BY DEF ChatInv
    <2> QED
      BY <1>1, <2>1, MCAssumption, SourcingInvSuffices, OutboxInvSuffices, WorkTyped, NoticesTyped,
         GroupInvSuffices, ParkingInvSuffices, WindowsInvSuffices, PressureInvSuffices,
         TweetBoundsSuffice DEF EachTypeOK
  <1> HIDE DEF Inv1, Inv2
  <1> QED
    BY <1>2, <1>3, <1>4, <1>5, <1>6, PTL DEF MCSpec
=============================================================================
