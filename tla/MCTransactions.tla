---------------------------- MODULE MCTransactions ----------------------------
(* Two-phase commit, the saga and its idempotent step for TLC, one at a time:  *)
(* `lab' picks the one that runs and the others stand still.                   *)
EXTENDS TwoPhaseCommit

CONSTANTS Sagas, Last,          \* of Saga
          Deliveries, Keys,     \* of IdempotentStep
          StepStock

VARIABLES
    lab, sagaPc, completed, sagaAt, effect, lost, stuck, recovered, sagaFaults,
    stepPc, key, answer, quantity, stepCompleted

sagaVars == <<sagaPc, completed, sagaAt, effect, lost, stuck, recovered, sagaFaults>>
stepVars == <<stepPc, key, answer, quantity, stepCompleted>>

Orch == INSTANCE Saga WITH pc <- sagaPc, at <- sagaAt, faults <- sagaFaults
Step == INSTANCE IdempotentStep WITH
    Stock <- StepStock, pc <- stepPc, completed <- stepCompleted

\* What the proofs assume of the constants.
ASSUME MCAssumption == Orch!SagaAssumptions /\ Step!StepAssumptions

MCInit ==
    /\ lab \in {"two_phase", "saga", "step"}
    /\ Init /\ Orch!Init /\ Step!Init

MCNext ==
    /\ UNCHANGED lab
    /\ IF lab = "two_phase" THEN Next ELSE UNCHANGED vars
    /\ IF lab = "saga" THEN Orch!Next ELSE UNCHANGED sagaVars
    /\ IF lab = "step" THEN Step!Next ELSE UNCHANGED stepVars

\* A process that can take a step takes it; a blocked statement times out.
MCFairSpec ==
    /\ MCInit /\ [][MCNext]_<<lab, vars, sagaVars, stepVars>>
    /\ \A t \in Txns : WF_vars(lab = "two_phase" /\ Run(t))
    /\ \A s \in Sagas : WF_sagaVars(lab = "saga" /\ Orch!Run(s))

\* Every variable of the program that runs has its type.
EachTypeOK ==
    /\ lab = "two_phase" => TypeOK
    /\ lab = "saga" => Orch!TypeOK
    /\ lab = "step" => Step!TypeOK

\* A saga that is over has all its effects or none but those it reported, and
\* while it runs they are a prefix of its steps (02/02, SagaOrchestrator.execute).
SagasAreAtomic ==
    lab = "saga" => Orch!AllOrNothing /\ Orch!EffectsArePrefix

\* No interleaving sells what is not there, by two-phase commit, by sagas and
\* their compensations, or by a step that is delivered again: each key has the
\* effect of one delivery, and what is told of it is true (02/02).
StockIsKept ==
    /\ []NeverOversold
    /\ [](lab = "saga" => Orch!NeverOversold)
    /\ [](lab = "step" => Step!StockMatchesKeys /\ Step!SkippedIsDone)
    /\ Step!ImplementsOncePerKey

\* Every run and every saga comes to an end, behind the locks of a dead
\* coordinator and after failed compensations too (02/02).
EveryoneReturns == EveryRunReturns /\ Orch!SagaEnds
=============================================================================
