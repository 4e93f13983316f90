-------------------------------- MODULE Saga --------------------------------
(***************************************************************************)
(* The orchestrator of 02-advanced/02-distributed-transactions, class      *)
(* SagaOrchestrator: local transactions that commit at once, and           *)
(* compensations run in reverse order when a step fails.  Step 1 deducts   *)
(* stock, guarded by quantity >= qty; the others are orders, payments or   *)
(* shipments at other services.  A function that raises may have taken     *)
(* effect: its connection was lost after the COMMIT.                       *)
(***************************************************************************)
EXTENDS Integers, FiniteSets, Functions

CONSTANTS
    Sagas,
    Last,        \* number of steps of a saga
    Stock,       \* initial stock, in units of one saga's quantity
    MaxFaults    \* bound on lost replies and failed compensations

VARIABLES
    pc,          \* pc[s]: what saga s is doing
    completed,   \* completed[s]: length of completed_steps
    at,          \* at[s]: the step executed or compensated next
    effect,      \* effect[s][i]: times step i is in place, net of compensations
    lost,        \* lost[s]: steps that took effect although they raised
    stuck,       \* stuck[s]: steps whose compensation raised
    recovered,   \* recovered[s]: those of them somebody compensated by hand
    faults

vars == <<pc, completed, at, effect, lost, stuck, recovered, faults>>

Steps == 1..Last

TypeOK ==
    /\ pc \in [Sagas -> {"idle", "execute", "compensate", "done"}]
    /\ completed \in [Sagas -> 0..Last]
    /\ at \in [Sagas -> 0..Last + 1]
    /\ effect \in [Sagas -> [Steps -> -1..1]]
    /\ lost \in [Sagas -> SUBSET Steps]
    /\ stuck \in [Sagas -> SUBSET Steps]
    /\ recovered \in [Sagas -> SUBSET Steps]
    /\ faults \in 0..MaxFaults

Init ==
    /\ pc = [s \in Sagas |-> "idle"]
    /\ completed = [s \in Sagas |-> 0]
    /\ at = [s \in Sagas |-> 1]
    /\ effect = [s \in Sagas |-> [i \in Steps |-> 0]]
    /\ lost = [s \in Sagas |-> {}]
    /\ stuck = [s \in Sagas |-> {}]
    /\ recovered = [s \in Sagas |-> {}]
    /\ faults = 0

Goto(s, l) == pc' = [pc EXCEPT ![s] = l]
Fault == faults < MaxFaults /\ faults' = faults + 1
Applied(s, n) == effect' = [effect EXCEPT ![s][at[s]] = @ + n]

\* The quantity of the product, in the database.
Deducted == [s \in Sagas |-> effect[s][1]]
Quantity == Stock - SumFunction(Deducted)

Begin(s) ==
    /\ pc[s] = "idle"
    /\ Goto(s, "execute")
    /\ UNCHANGED <<completed, at, effect, lost, stuck, recovered, faults>>

\* Mutation: the stock is checked when the saga begins, not in the UPDATE.
AcceptedUnguarded(s) == TRUE

\* The action of the step finds what it needs.
Accepted(s) == at[s] = 1 => Quantity >= 1

\* Mutation: the step is recorded before it is executed.
ExecuteFailsRecorded(s) ==
    /\ pc[s] = "execute" /\ at[s] <= Last
    /\ completed' = [completed EXCEPT ![s] = @ + 1]
    /\ at' = [at EXCEPT ![s] = completed[s] + 1]
    /\ Goto(s, "compensate")
    /\ UNCHANGED <<effect, lost, stuck, recovered, faults>>

\* execute_step: action_fn returns, and the step is recorded.
Execute(s) ==
    /\ pc[s] = "execute" /\ at[s] <= Last /\ Accepted(s)
    /\ Applied(s, 1)
    /\ completed' = [completed EXCEPT ![s] = @ + 1]
    /\ at' = [at EXCEPT ![s] = @ + 1]
    /\ UNCHANGED <<pc, lost, stuck, recovered, faults>>

\* execute_step: action_fn raises without effect; compensate() starts from the
\* last recorded step.
ExecuteFails(s) ==
    /\ pc[s] = "execute" /\ at[s] <= Last
    /\ at' = [at EXCEPT ![s] = completed[s]]
    /\ Goto(s, "compensate")
    /\ UNCHANGED <<completed, effect, lost, stuck, recovered, faults>>

\* execute_step: action_fn commits and then raises; nothing is recorded.
ExecuteLost(s) ==
    /\ Fault
    /\ pc[s] = "execute" /\ at[s] <= Last /\ Accepted(s)
    /\ Applied(s, 1)
    /\ lost' = [lost EXCEPT ![s] = @ \cup {at[s]}]
    /\ at' = [at EXCEPT ![s] = completed[s]]
    /\ Goto(s, "compensate")
    /\ UNCHANGED <<completed, stuck, recovered>>

\* Mutation: compensations run in the order of the steps.
CompensateForward(s) ==
    LET i == completed[s] + 1 - at[s] IN
    /\ pc[s] = "compensate" /\ at[s] >= 1
    /\ effect' = [effect EXCEPT ![s][i] = @ - 1]
    /\ at' = [at EXCEPT ![s] = @ - 1]
    /\ UNCHANGED <<pc, completed, lost, stuck, recovered, faults>>

\* Mutation: the loop does not stop at the first step.
CompensateTooFar(s) ==
    /\ pc[s] = "compensate" /\ at[s] >= 0
    /\ Applied(s, -1)
    /\ at' = [at EXCEPT ![s] = @ - 1]
    /\ UNCHANGED <<pc, completed, lost, stuck, recovered, faults>>

\* compensate: one turn of the loop over reversed(completed_steps).
Compensate(s) ==
    /\ pc[s] = "compensate" /\ at[s] >= 1
    /\ Applied(s, -1)
    /\ at' = [at EXCEPT ![s] = @ - 1]
    /\ UNCHANGED <<pc, completed, lost, stuck, recovered, faults>>

\* compensate: comp_fn raises, on a locked row or after its COMMIT; the loop
\* goes on with the step before.
CompensateFails(s) ==
    /\ Fault
    /\ pc[s] = "compensate" /\ at[s] >= 1
    /\ UNCHANGED effect \/ Applied(s, -1)
    /\ stuck' = [stuck EXCEPT ![s] = @ \cup {at[s]}]
    /\ at' = [at EXCEPT ![s] = @ - 1]
    /\ UNCHANGED <<pc, completed, lost, recovered>>

\* Mutation: the loop stops at the first failure, and never returns.
ReturnOnlyClean(s) ==
    /\ \/ pc[s] = "execute" /\ at[s] > Last
       \/ pc[s] = "compensate" /\ at[s] = 0 /\ stuck[s] = {}
    /\ Goto(s, "done")
    /\ UNCHANGED <<completed, at, effect, lost, stuck, recovered, faults>>

Return(s) ==
    /\ \/ pc[s] = "execute" /\ at[s] > Last
       \/ pc[s] = "compensate" /\ at[s] = 0
    /\ Goto(s, "done")
    /\ UNCHANGED <<completed, at, effect, lost, stuck, recovered, faults>>

\* Phase 4: an engineer runs the compensation that was reported as failed.
Recover(s, i) ==
    /\ pc[s] = "done" /\ i \in stuck[s] \ recovered[s]
    /\ effect' = [effect EXCEPT ![s][i] = @ - 1]
    /\ recovered' = [recovered EXCEPT ![s] = @ \cup {i}]
    /\ UNCHANGED <<pc, completed, at, lost, stuck, faults>>

Run(s) ==
    Begin(s) \/ Execute(s) \/ ExecuteFails(s) \/ Compensate(s) \/ Return(s)

Next ==
    \E s \in Sagas :
        \/ Run(s) \/ ExecuteLost(s) \/ CompensateFails(s)
        \/ \E i \in Steps : Recover(s, i)

Spec == Init /\ [][Next]_vars

FairSpec == Spec /\ \A s \in Sagas : WF_vars(Run(s))

-----------------------------------------------------------------------------
(***************************************************************************)
(* Properties                                                              *)
(***************************************************************************)

\* A saga that is over has all its steps in place or none, except the steps it
\* reported as stuck and those whose success it never heard of (lines 235-253).
AllOrNothing ==
    \A s \in Sagas : pc[s] = "done" =>
        \A i \in Steps \ (lost[s] \cup stuck[s]) :
            effect[s][i] = IF completed[s] = Last THEN 1 ELSE 0

\* While a saga runs in either direction its effects are a prefix of its steps:
\* nobody finds an order whose stock has already been given back (line 247).
EffectsArePrefix ==
    \A s \in Sagas : \A i, j \in Steps :
        (i < j /\ effect[s][j] = 1 /\ j \notin lost[s] \cup stuck[s]) =>
            effect[s][i] = 1 \/ i \in stuck[s]

\* Stock is never sold twice, however sagas and compensations interleave: the
\* sagas with all steps in place never exceed it, unless a compensation that had
\* taken effect before it raised was run again by hand (lines 441-447, 591).
NeverOversold ==
    /\ Quantity >= 0
    /\ (\A s \in Sagas : \A i \in Steps : effect[s][i] >= 0) =>
           Cardinality({s \in Sagas : \A i \in Steps : effect[s][i] = 1}) <= Stock

\* Every saga comes to an end, stuck or not (lines 245-253).
SagaEnds == \A s \in Sagas : pc[s] = "execute" ~> pc[s] = "done"
-----------------------------------------------------------------------------
(***************************************************************************)
(* The inductive invariant that TransactionsProofs proves, for any sagas   *)
(* of any number of steps.  AllOrNothing speaks of sagas that are over;    *)
(* what makes it true is how far the effects of a saga reach while it runs *)
(* (Reach): forwards to the last recorded step, backwards to the step that *)
(* is compensated next.                                                    *)
(***************************************************************************)
SagaAssumptions ==
    IsFiniteSet(Sagas) /\ Last \in Nat \ {0} /\ Stock \in Nat /\ MaxFaults \in Nat

Reach(s) ==
    IF completed[s] = Last THEN Last
    ELSE IF pc[s] \in {"idle", "execute"} THEN completed[s] ELSE at[s]

\* Where the counters of saga s stand in each phase.
Counters(s) ==
    /\ pc[s] = "idle" => completed[s] = 0
    /\ pc[s] \in {"idle", "execute"} =>
          at[s] = completed[s] + 1 /\ lost[s] = {} /\ stuck[s] = {}
    /\ pc[s] = "compensate" => completed[s] < Last /\ at[s] <= completed[s]
    /\ pc[s] = "done" /\ completed[s] # Last => at[s] = 0
    /\ completed[s] = Last => lost[s] = {} /\ stuck[s] = {}
    /\ pc[s] # "done" => recovered[s] = {}
    /\ lost[s] \subseteq {completed[s] + 1}
    /\ \A i \in stuck[s] : at[s] < i /\ i <= completed[s]
    /\ recovered[s] \subseteq stuck[s]

\* What step i of saga s has left in place.
StepEffect(s, i) ==
    /\ i \notin lost[s] \cup stuck[s] => effect[s][i] = IF i <= Reach(s) THEN 1 ELSE 0
    /\ i \in lost[s] => effect[s][i] = 1
    /\ i \in stuck[s] => effect[s][i] \in IF i \in recovered[s] THEN -1..0 ELSE 0..1

SagaInv ==
    /\ TypeOK
    /\ \A s \in Sagas : Counters(s)
    /\ \A s \in Sagas : \A i \in Steps : StepEffect(s, i)

\* A step of saga s leaves every other saga alone.
Alone(s) ==
    \A u \in Sagas \ {s} :
        /\ pc'[u] = pc[u] /\ completed'[u] = completed[u] /\ at'[u] = at[u]
        /\ effect'[u] = effect[u]
        /\ lost'[u] = lost[u] /\ stuck'[u] = stuck[u] /\ recovered'[u] = recovered[u]
=============================================================================
