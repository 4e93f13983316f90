------------------------------ MODULE MultiRegion ------------------------------
(* The multi-region lab (02/19). Two programs that share nothing: two regions *)
(* with the replicator and the arbiter, and the hybrid clock with the merged  *)
(* cart.                                                                      *)
EXTENDS Integers, Sequences, FiniteSets

CONSTANTS
  RegionKeys,
  Lags,          \* values lag_s takes, in ticks
  MaxLag,        \* MAX_LAG_S
  MaxWrites,     \* bound
  MaxInstant,    \* bound on the clock
  Regions,
  CartItems,
  MaxPhysical,   \* bound on the physical clocks
  MaxStamps      \* bound: timestamps taken

VARIABLES
  instant,
  lag,         \* lag_s
  primary,     \* key -> seq of its value in region A, 0 without one
  secondary,   \* key -> seq of its value in region B
  backlog,     \* _queue: sequence of [at, key, seq]
  delivering,  \* the writes the loop took from the queue and has not delivered
  applied,     \* the first of them is set on the secondary and not noted yet
  seqNo,       \* _seq
  delivered,   \* _delivered
  inRotation,  \* secondary_in_rotation
  arbiter,     \* [epoch, region]
  promoting,   \* the epoch was raised and the region not yet
  aIsDown,
  keyOf,       \* ghost: seq -> key
  overtaken,   \* ghost: a later write became due before an earlier one, or one failed
  physical, \* region -> its wall clock, in milliseconds; the clocks are not synchronised
  hlc,      \* region -> <<_wall, _ctr>>
  stamps,   \* ghost: all timestamps, as [region, ts, past], past being the earlier stamps it knows of
  cart      \* region -> [ts, items] of the record under the key, <<>> as items before the first

-------------------------------------------------------------------------------
(* The multi-region lab (02/19): an asynchronous replicator with a lag that can  *)
(* change, the lag monitor that takes the secondary out of rotation, and the     *)
(* promotion of the secondary through the arbiter.                               *)
regionVars == <<instant, lag, primary, secondary, backlog, delivering, applied, seqNo, delivered, inRotation,
          arbiter, promoting, aIsDown, keyOf, overtaken>>
replication == <<primary, secondary, backlog, delivering, applied, seqNo, delivered, keyOf, overtaken>>

RegionInit ==
  /\ instant = 0
  /\ lag \in Lags
  /\ primary = [k \in RegionKeys |-> 0]
  /\ secondary = [k \in RegionKeys |-> 0]
  /\ backlog = <<>>
  /\ delivering = <<>>
  /\ applied = FALSE
  /\ seqNo = 0
  /\ delivered = 0
  /\ inRotation = TRUE
  /\ arbiter = [epoch |-> 1, region |-> "A"]
  /\ promoting = FALSE
  /\ aIsDown = FALSE
  /\ keyOf = <<>>
  /\ overtaken = FALSE

Tick ==
  /\ instant < MaxInstant
  /\ instant' = instant + 1
  /\ UNCHANGED <<lag, replication, inRotation, arbiter, promoting, aIsDown>>

\* set on the primary and enqueue.
WritePrimary(k) ==
  /\ ~aIsDown /\ seqNo < MaxWrites
  /\ seqNo' = seqNo + 1
  /\ primary' = [primary EXCEPT ![k] = seqNo']
  /\ backlog' = Append(backlog, [at |-> instant + lag, key |-> k, seq |-> seqNo'])
  /\ keyOf' = Append(keyOf, k)
  /\ overtaken' = (overtaken \/ \E i \in DOMAIN backlog : backlog[i].at > instant + lag)
  /\ UNCHANGED <<instant, lag, secondary, delivering, applied, delivered, inRotation, arbiter, promoting, aIsDown>>

\* Phase 5: replicator.lag_s = ...
ChangeLag ==
  /\ \E l \in Lags \ {lag} : lag' = l
  /\ UNCHANGED <<instant, replication, inRotation, arbiter, promoting, aIsDown>>

\* The entries of the queue at some places, in their order.
Queued(I) == [i \in 1..Cardinality(I) |-> backlog[CHOOSE k \in I : Cardinality({j \in I : j <= k}) = i]]

\* The loop takes what is due out of the queue, in queue order.
TakeReady ==
  LET due == {i \in DOMAIN backlog : backlog[i].at <= instant}
  IN /\ delivering = <<>> /\ due # {}
     /\ delivering' = Queued(due)
     /\ backlog' = Queued(DOMAIN backlog \ due)
     /\ UNCHANGED <<instant, lag, primary, secondary, applied, seqNo, delivered, inRotation, arbiter,
                    promoting, aIsDown, keyOf, overtaken>>

\* Mutation: the number is noted as soon as the write is taken up.
SetSecondaryNoting ==
  /\ delivering # <<>> /\ ~applied
  /\ delivered' = IF delivering[1].seq > delivered THEN delivering[1].seq ELSE delivered
  /\ applied' = TRUE
  /\ UNCHANGED <<instant, lag, primary, secondary, backlog, delivering, seqNo, inRotation, arbiter,
                 promoting, aIsDown, keyOf, overtaken>>

\* sec.set(key, value)
SetSecondary ==
  /\ delivering # <<>> /\ ~applied
  /\ secondary' = [secondary EXCEPT ![delivering[1].key] = delivering[1].seq]
  /\ applied' = TRUE
  /\ UNCHANGED <<instant, lag, primary, backlog, delivering, seqNo, delivered, inRotation, arbiter,
                 promoting, aIsDown, keyOf, overtaken>>

\* and then the highest number delivered is noted.
NoteDelivered ==
  /\ applied
  /\ delivered' = IF delivering[1].seq > delivered THEN delivering[1].seq ELSE delivered
  /\ delivering' = Tail(delivering)
  /\ applied' = FALSE
  /\ UNCHANGED <<instant, lag, primary, secondary, backlog, seqNo, inRotation, arbiter, promoting,
                 aIsDown, keyOf, overtaken>>

\* The set fails: the exception is dropped, and the write with it.
DeliveryFails ==
  /\ delivering # <<>> /\ ~applied
  /\ delivering' = Tail(delivering)
  /\ overtaken' = TRUE
  /\ UNCHANGED <<instant, lag, primary, secondary, backlog, applied, seqNo, delivered, inRotation,
                 arbiter, promoting, aIsDown, keyOf>>

\* lag_monitor: the number of undelivered writes times the lag.
LagMonitor ==
  /\ inRotation' = ((seqNo - delivered) * lag <= MaxLag)
  /\ UNCHANGED <<instant, lag, replication, arbiter, promoting, aIsDown>>

-------------------------------------------------------------------------------
\* Phase 4: the primary is lost, the arbiter gets the next epoch and then the
\* region of the new primary.
RaiseEpoch ==
  /\ ~aIsDown
  /\ aIsDown' = TRUE
  /\ arbiter' = [arbiter EXCEPT !.epoch = @ + 1]
  /\ promoting' = TRUE
  /\ UNCHANGED <<instant, lag, replication, inRotation>>

SetRegion ==
  /\ promoting
  /\ arbiter' = [arbiter EXCEPT !.region = "B"]
  /\ promoting' = FALSE
  /\ UNCHANGED <<instant, lag, replication, inRotation, aIsDown>>

\* read_with_failover.
ReadWithFailover(k) == IF aIsDown THEN secondary[k] ELSE primary[k]

\* Writes to the primary reach the secondary later.
ActivePassive ==
  \/ \E k \in RegionKeys : WritePrimary(k)
  \/ TakeReady \/ SetSecondary \/ NoteDelivered \/ DeliveryFails

RegionNext == Tick \/ ActivePassive \/ ChangeLag \/ LagMonitor \/ RaiseEpoch \/ SetRegion

RegionSpec == RegionInit /\ [][RegionNext]_regionVars

-------------------------------------------------------------------------------
RegionTypeOK ==
  /\ Len(keyOf) = seqNo
  /\ delivered <= seqNo
  /\ promoting => aIsDown
  /\ applied => delivering # <<>>

\* Read-your-writes by sequence number: while no write overtakes another and none
\* fails, a secondary that has delivered number s shows every write up to s, and
\* with nothing on the way the two regions are equal.  After a failover a key
\* only loses writes that were not delivered, and region B is named once only.
RegionsConverge ==
  /\ ~overtaken =>
       /\ \A s \in 1..delivered : secondary[keyOf[s]] >= s
       /\ backlog = <<>> /\ delivering = <<>> => secondary = primary
       /\ \A k \in RegionKeys : ReadWithFailover(k) # primary[k] => primary[k] > delivered
  /\ arbiter.region = "B" => arbiter.epoch = 2 /\ aIsDown

\* The session check of the lab without the proviso.
DeliveredMeansVisible == \A s \in 1..delivered : secondary[keyOf[s]] >= s

-------------------------------------------------------------------------------
(* Phase 3 of the multi-region lab (02/19): HybridLogicalClock, the cart that is *)
(* written in both regions, and the two ways of resolving the conflict.          *)
clockVars == <<physical, hlc, stamps, cart>>

\* compare: the wall first, then the counter.
After(a, b) == a[1] > b[1] \/ (a[1] = b[1] /\ a[2] > b[2])

\* What a region knows of: its own stamps and everything they know of.
Known(r) == {i \in DOMAIN stamps : stamps[i].region = r}
              \cup UNION {stamps[i].past : i \in {j \in DOMAIN stamps : stamps[j].region = r}}

ClockInit ==
  /\ physical \in [Regions -> 1..2]
  /\ hlc = [r \in Regions |-> <<0, 0>>]
  /\ stamps = <<>>
  /\ cart = [r \in Regions |-> [ts |-> <<0, 0>>, items |-> {}]]

PhysicalTick(r) ==
  /\ physical[r] < MaxPhysical
  /\ physical' = [physical EXCEPT ![r] = @ + 1]
  /\ UNCHANGED <<hlc, stamps, cart>>

\* now()
Now(r) == IF physical[r] > hlc[r][1] THEN <<physical[r], 0>> ELSE <<hlc[r][1], hlc[r][2] + 1>>

Stamp(r, ts, learnt) ==
  /\ Len(stamps) < MaxStamps
  /\ hlc' = [hlc EXCEPT ![r] = ts]
  /\ stamps' = Append(stamps, [region |-> r, ts |-> ts, past |-> Known(r) \cup learnt])

\* A region writes its cart under the time of its own clock.
WriteCart(r, items) ==
  /\ Stamp(r, Now(r), {})
  /\ cart' = [cart EXCEPT ![r] = [ts |-> Now(r), items |-> items]]
  /\ UNCHANGED physical

\* Mutation: the counter is only raised when the local clock is ahead.
UpdatedForgetting(r, received) ==
  LET wall == CHOOSE w \in {physical[r], hlc[r][1], received[1]} :
                \A x \in {physical[r], hlc[r][1], received[1]} : w >= x
  IN IF wall = hlc[r][1] THEN <<wall, hlc[r][2] + 1>> ELSE <<wall, 0>>

\* update(received_wall, received_ctr)
Updated(r, received) ==
  LET wall == CHOOSE w \in {physical[r], hlc[r][1], received[1]} :
                \A x \in {physical[r], hlc[r][1], received[1]} : w >= x
      larger == IF hlc[r][2] > received[2] THEN hlc[r][2] ELSE received[2]
  IN IF wall = hlc[r][1] /\ wall = received[1] THEN <<wall, larger + 1>>
     ELSE IF wall = hlc[r][1] THEN <<wall, hlc[r][2] + 1>>
     ELSE IF wall = received[1] THEN <<wall, received[2] + 1>>
     ELSE <<wall, 0>>

\* A message with the timestamp of stamp i reaches r.
Receive(r, i) ==
  /\ stamps[i].region # r
  /\ Stamp(r, Updated(r, stamps[i].ts), {i} \cup stamps[i].past)
  /\ UNCHANGED <<physical, cart>>

ClocksIdle == Len(stamps) = MaxStamps /\ UNCHANGED clockVars

ClockNext ==
  \/ \E r \in Regions : PhysicalTick(r)
  \/ \E r \in Regions, items \in SUBSET CartItems : WriteCart(r, items)
  \/ \E r \in Regions : \E i \in DOMAIN stamps : Receive(r, i)
  \/ ClocksIdle

ClockSpec == ClockInit /\ [][ClockNext]_clockVars

-------------------------------------------------------------------------------
\* The record that survives last-writer-wins; the first one on a tie.
Lww(a, b) == IF After(cart[b].ts, cart[a].ts) THEN cart[b].items ELSE cart[a].items

\* The union of the two OR-sets.
OrSetMerge(a, b) == cart[a].items \cup cart[b].items

ClockTypeOK == Len(stamps) <= MaxStamps /\ \A i \in DOMAIN stamps : stamps[i].past \subseteq 1..(i - 1)

\* A timestamp is above all it could know of, whatever the physical clocks show,
\* so that a later write wins over one it has heard of; the merged cart loses no
\* item, and both orders of comparison only disagree on equal timestamps.
ClocksAreCausal ==
  /\ \A j \in DOMAIN stamps : \A i \in stamps[j].past : After(stamps[j].ts, stamps[i].ts)
  /\ \A a, b \in Regions :
       /\ OrSetMerge(a, b) = OrSetMerge(b, a) /\ Lww(a, b) \subseteq OrSetMerge(a, b)
       /\ Lww(a, b) # Lww(b, a) => cart[a].ts = cart[b].ts
===============================================================================
