--------------------------- MODULE Backpressure ----------------------------
(* The backpressure lab (02/18): producer threads and a consumer thread share a  *)
(* Redis list.  Under each strategy a producer reads the length of the list in   *)
(* one command and pushes in another.                                            *)
EXTENDS Integers, FiniteSets, Functions

CONSTANTS
  Strategies,    \* of "none", "block", "drop", "reject"
  BpProducers,   \* producer threads (one in scenarios 1-4, five in scenario 5)
  MaxQueue,      \* MAX_QUEUE
  Offers,        \* iterations of a producer's loop
  MaxAttempt     \* 2 ^ attempt reaches the cap of the back-off

PressureAssumptions ==
  IsFiniteSet(BpProducers) /\ MaxQueue \in Nat \ {0} /\ Offers \in Nat /\ MaxAttempt \in Nat

VARIABLES
  strategy,  \* the scenario that runs
  llen,      \* length of the list
  admitted,  \* producer -> it has read a length below MaxQueue and not pushed yet
  offered,   \* producer -> items its loop has dealt with
  accepted, dropped, rejected, \* producer -> its counters
  attempt,   \* producer -> attempt, the exponent of its back-off
  consumed   \* items popped

vars == <<strategy, llen, admitted, offered, accepted, dropped, rejected, attempt, consumed>>

Init ==
  /\ strategy \in Strategies
  /\ llen = 0
  /\ admitted = [p \in BpProducers |-> FALSE]
  /\ offered = [p \in BpProducers |-> 0]
  /\ accepted = [p \in BpProducers |-> 0]
  /\ dropped = [p \in BpProducers |-> 0]
  /\ rejected = [p \in BpProducers |-> 0]
  /\ attempt = [p \in BpProducers |-> 0]
  /\ consumed = 0

\* Mutation: the list may hold one item more than MAX_QUEUE.
FullOffByOne == llen > MaxQueue

Full == llen >= MaxQueue

Offering(p) == ~admitted[p] /\ offered[p] < Offers

\* The length is read and leaves room; without backpressure nothing is read.
Admit(p) ==
  /\ Offering(p)
  /\ strategy = "none" \/ ~Full
  /\ admitted' = [admitted EXCEPT ![p] = TRUE]
  /\ UNCHANGED <<strategy, llen, offered, accepted, dropped, rejected, attempt, consumed>>

\* Scenario 2: a producer that finds the list full sleeps and reads again, so
\* nothing happens until there is room: Admit is not enabled.

\* Scenario 3: the new item is discarded.
Drop(p) ==
  /\ strategy = "drop" /\ Offering(p) /\ Full
  /\ dropped' = [dropped EXCEPT ![p] = @ + 1]
  /\ offered' = [offered EXCEPT ![p] = @ + 1]
  /\ UNCHANGED <<strategy, llen, admitted, accepted, rejected, attempt, consumed>>

\* Scenarios 4 and 5: the gate answers 503, the producer backs off longer and
\* goes on with the next iteration.
Reject(p) ==
  /\ strategy = "reject" /\ Offering(p) /\ Full
  /\ rejected' = [rejected EXCEPT ![p] = @ + 1]
  /\ attempt' = [attempt EXCEPT ![p] = IF @ < MaxAttempt THEN @ + 1 ELSE @]
  /\ offered' = [offered EXCEPT ![p] = @ + 1]
  /\ UNCHANGED <<strategy, llen, admitted, accepted, dropped, consumed>>

\* The item is pushed; a success shortens the back-off by one step.
Push(p) ==
  /\ admitted[p]
  /\ admitted' = [admitted EXCEPT ![p] = FALSE]
  /\ llen' = llen + 1
  /\ accepted' = [accepted EXCEPT ![p] = @ + 1]
  /\ offered' = [offered EXCEPT ![p] = @ + 1]
  /\ attempt' = [attempt EXCEPT ![p] = IF @ > 0 THEN @ - 1 ELSE 0]
  /\ UNCHANGED <<strategy, dropped, rejected, consumed>>

\* The consumer pops; an empty list gives it nothing.
Pop ==
  /\ llen > 0
  /\ llen' = llen - 1
  /\ consumed' = consumed + 1
  /\ UNCHANGED <<strategy, admitted, offered, accepted, dropped, rejected, attempt>>

Drained ==
  llen = 0 /\ (\A p \in BpProducers : offered[p] = Offers) /\ UNCHANGED vars

Next == (\E p \in BpProducers : Admit(p) \/ Drop(p) \/ Reject(p) \/ Push(p)) \/ Pop \/ Drained

Spec == Init /\ [][Next]_vars

-------------------------------------------------------------------------------
TypeOK ==
  /\ \A p \in BpProducers : attempt[p] \in 0..MaxAttempt /\ offered[p] \in 0..Offers
  /\ llen \in Nat

\* The list is bounded, though not by MAX_QUEUE: each producer may have read a
\* length that leaves room before the others pushed.
BoundedOvershoot ==
  strategy # "none" =>
    llen + Cardinality({p \in BpProducers : admitted[p]}) <= MaxQueue + Cardinality(BpProducers) - 1

\* No item is unaccounted for: what was offered was accepted, dropped or
\* rejected, only by the strategy that does so, and what was accepted is in the
\* list or consumed.
ItemsAccounted ==
  /\ SumFunction(accepted) = llen + consumed
  /\ \A p \in BpProducers : offered[p] = accepted[p] + dropped[p] + rejected[p]
  /\ strategy # "drop" => SumFunction(dropped) = 0
  /\ strategy # "reject" => SumFunction(rejected) = 0

QueueIsBounded == BoundedOvershoot /\ ItemsAccounted

\* What the lab says of the reject strategy: no item is lost, because the
\* producer retries.
RejectLosesNothing ==
  strategy = "reject" => \A p \in BpProducers : offered[p] = Offers => accepted[p] = Offers
=============================================================================
