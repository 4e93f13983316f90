--------------------------- MODULE StreamWindows ---------------------------
(* The stream processing lab (02/07): events arrive out of order at a window     *)
(* operator that advances a watermark, closes windows behind it and sends what   *)
(* arrives too late to a side output.  The batch functions of the same lab       *)
(* (tumbling, sliding and session windows) are given over the list of arrivals.  *)
EXTENDS Integers, Sequences, FiniteSets, SequencesExt

CONSTANTS
  EventTimes,     \* event timestamps
  ClickUsers,
  WindowSize,     \* WINDOW_SIZE
  AllowedLateness,
  SessionGap,
  MaxSessionSecs, \* retention of the per-user state
  MaxArrivals     \* bound: events

WindowAssumptions ==
  EventTimes \subseteq Int /\ IsFiniteSet(ClickUsers) /\ WindowSize \in Nat \ {0} /\ AllowedLateness \in Int

VARIABLES
  arrivals,     \* the events so far in arrival order, as [ts, user]
  watermark,    \* <<>> before the first event, else <<instant>>
  windowCounts, \* start -> user -> count, for the windows an event was accepted in
  closedWindows,
  sideOutput,   \* indices of the arrivals that came too late
  emitted       \* closed window -> the total it was closed with

vars == <<arrivals, watermark, windowCounts, closedWindows, sideOutput, emitted>>

TumblingWindowKey(ts) == (ts \div WindowSize) * WindowSize

\* tumbling_aggregate, per window.
TumblingAggregate(events, w) ==
  Cardinality({i \in DOMAIN events : TumblingWindowKey(events[i].ts) = w})

\* sliding_window_counts: both ends of the window are inside it.
SlidingWindowCount(events, now, user) ==
  Cardinality({i \in DOMAIN events :
    events[i].user = user /\ now - WindowSize <= events[i].ts /\ events[i].ts <= now})

\* Mutation: the events are taken in the order they arrived.
SessionWindowsUnsorted(userEvents) ==
  FoldLeft(LAMBDA ss, t :
             IF ss = <<>> THEN <<<<t>>>>
             ELSE IF t - Last(Last(ss)) > SessionGap THEN Append(ss, <<t>>)
             ELSE Append(Front(ss), Append(Last(ss), t)),
           <<>>, userEvents)

\* session_windows: the sorted timestamps of a user, cut where the gap is longer
\* than SessionGap.
SessionWindows(userEvents) ==
  FoldLeft(LAMBDA ss, t :
             IF ss = <<>> THEN <<<<t>>>>
             ELSE IF t - Last(Last(ss)) > SessionGap THEN Append(ss, <<t>>)
             ELSE Append(Front(ss), Append(Last(ss), t)),
           <<>>, SortSeq(userEvents, <))

\* phase 4 groups the consumed events by user.
ByUser(events, user) ==
  LET mine == SelectSeq(events, LAMBDA e : e.user = user)
  IN [i \in DOMAIN mine |-> mine[i].ts]

\* compute_watermark over everything seen.
ComputeWatermark(events) ==
  CHOOSE t \in {events[i].ts - AllowedLateness : i \in DOMAIN events} :
    \A i \in DOMAIN events : t >= events[i].ts - AllowedLateness

\* phase 8: the last event of each user, without the users behind the cutoff.
StateNoTtl(events) ==
  [u \in {events[i].user : i \in DOMAIN events} |->
     events[CHOOSE i \in DOMAIN events : events[i].user = u /\
              \A j \in DOMAIN events : events[j].user = u => j <= i].ts]

StateWithTtl(events) ==
  LET high == ComputeWatermark(events) + AllowedLateness
      last == StateNoTtl(events)
      kept == {u \in DOMAIN last : last[u] >= high - MaxSessionSecs}
  IN [u \in kept |-> last[u]]

-------------------------------------------------------------------------------
Init ==
  /\ arrivals = <<>>
  /\ watermark = <<>>
  /\ windowCounts = <<>>
  /\ closedWindows = {}
  /\ sideOutput = {}
  /\ emitted = <<>>

\* max(watermark, evt_time - ALLOWED_LATENESS).
Advanced(ts) ==
  IF watermark # <<>> /\ watermark[1] >= ts - AllowedLateness THEN watermark
  ELSE <<ts - AllowedLateness>>

\* Mutation: a late event is still added to its window.
AcceptLate(ev, w) ==
  /\ sideOutput' = IF w \in closedWindows THEN sideOutput \cup {Len(arrivals) + 1} ELSE sideOutput
  /\ LET old == IF w \in DOMAIN windowCounts THEN windowCounts[w]
                ELSE [u \in ClickUsers |-> 0]
     IN windowCounts' = [x \in DOMAIN windowCounts \cup {w} |->
                           IF x = w THEN [old EXCEPT ![ev.user] = @ + 1] ELSE windowCounts[x]]

\* The event is counted in its window, or goes to the side output when that
\* window is closed.
Accept(ev, w) ==
  IF w \in closedWindows
  THEN sideOutput' = sideOutput \cup {Len(arrivals) + 1} /\ UNCHANGED windowCounts
  ELSE LET old == IF w \in DOMAIN windowCounts THEN windowCounts[w]
                  ELSE [u \in ClickUsers |-> 0]
       IN /\ windowCounts' = [x \in DOMAIN windowCounts \cup {w} |->
                                IF x = w THEN [old EXCEPT ![ev.user] = @ + 1]
                                         ELSE windowCounts[x]]
          /\ UNCHANGED sideOutput

\* Only when the watermark moves are the windows behind it closed, and only
\* those that hold an event.
CloseBehind(wm) ==
  LET due == IF wm = watermark THEN {}
             ELSE {w \in DOMAIN windowCounts' : w + WindowSize <= wm[1]} \ closedWindows
  IN /\ closedWindows' = closedWindows \cup due
     /\ emitted' = [w \in DOMAIN emitted \cup due |->
                      IF w \in due THEN SumFunction(windowCounts'[w]) ELSE emitted[w]]
     /\ watermark' = wm

Arrive(ev) ==
  /\ Len(arrivals) < MaxArrivals
  /\ arrivals' = Append(arrivals, ev)
  /\ Accept(ev, TumblingWindowKey(ev.ts))
  /\ CloseBehind(Advanced(ev.ts))

StreamEnds == Len(arrivals) = MaxArrivals /\ UNCHANGED vars

Next ==
  \/ \E t \in EventTimes, u \in ClickUsers : Arrive([ts |-> t, user |-> u])
  \/ StreamEnds

Spec == Init /\ [][Next]_vars

-------------------------------------------------------------------------------
TypeOK ==
  /\ closedWindows = DOMAIN emitted
  /\ closedWindows \subseteq DOMAIN windowCounts
  /\ arrivals # <<>> => watermark = <<ComputeWatermark(arrivals)>>

\* The streaming result agrees with the batch one: what a closed window was
\* emitted with and what came too late for it make up its tumbling aggregate,
\* and an emitted result never changes afterwards.
StreamMatchesBatch ==
  /\ \A w \in DOMAIN windowCounts :
       SumFunction(windowCounts[w])
         + Cardinality({i \in sideOutput : TumblingWindowKey(arrivals[i].ts) = w})
           = TumblingAggregate(arrivals, w)
  /\ \A w \in closedWindows : emitted[w] = SumFunction(windowCounts[w])

\* Sessions cut the events of a user exactly at the gaps, in whatever order the
\* events arrived.
SessionsAreGaps ==
  \A u \in ClickUsers :
    LET es == ByUser(arrivals, u)
        ss == SessionWindows(es)
        ts == ToSet(es)
        starts == {t \in ts : \A x \in ts : x < t => t - x > SessionGap}
    IN /\ Len(ss) = Cardinality(starts)
       /\ \A k \in DOMAIN ss : ss[k][1] \in starts
       /\ UNION {ToSet(ss[k]) : k \in DOMAIN ss} = ts

\* Snapshots of the sliding window one window apart share the events on their
\* common end and nothing else; the retention of phase 8 keeps every user whose
\* last event came in order, and no user without a recent event.
SnapshotsAreRight ==
  /\ \A u \in ClickUsers, t \in EventTimes :
       SlidingWindowCount(arrivals, t, u) + SlidingWindowCount(arrivals, t + WindowSize, u)
         = Cardinality({i \in DOMAIN arrivals : arrivals[i].user = u
                          /\ arrivals[i].ts \in (t - WindowSize)..(t + WindowSize)})
           + Cardinality({i \in DOMAIN arrivals : arrivals[i] = [ts |-> t, user |-> u]})
  /\ arrivals # <<>> =>
       LET cutoff == ComputeWatermark(arrivals) + AllowedLateness - MaxSessionSecs
           recent == {u \in ClickUsers : \E t \in ToSet(ByUser(arrivals, u)) : t >= cutoff}
       IN /\ DOMAIN StateWithTtl(arrivals) \subseteq recent
          /\ \A u \in recent \ DOMAIN StateWithTtl(arrivals) :
               \E i, j \in DOMAIN ByUser(arrivals, u) :
                 i < j /\ ByUser(arrivals, u)[i] > ByUser(arrivals, u)[j]

\* The window operators of the lab agree with their batch definitions.
WindowsAreRight == StreamMatchesBatch /\ SessionsAreGaps /\ SnapshotsAreRight
=============================================================================
