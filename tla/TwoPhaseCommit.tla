--------------------------- MODULE TwoPhaseCommit ---------------------------
(***************************************************************************)
(* The coordinator of 02-advanced/02-distributed-transactions, class       *)
(* TwoPhaseCoordinator: a deduction in db-inventory and an order in        *)
(* db-orders committed with PREPARE TRANSACTION and COMMIT PREPARED.  The  *)
(* coordinator keeps no log: what it knows dies with its process, while a  *)
(* prepared transaction outlives every connection and keeps its locks.     *)
(***************************************************************************)
EXTENDS Integers, FiniteSets

CONSTANTS
    Txns,         \* calls of TwoPhaseCoordinator.run
    OrderIds,     \* values of the column orders.id, a primary key
    Stock,        \* initial quantity of the product
    Qty,          \* quantity one order deducts
    MaxFaults,    \* bound on lost connections, lost replies and crashes
    None

ASSUME TwoPhaseAssumption ==
    /\ IsFiniteSet(Txns) /\ Stock \in Nat /\ Qty \in Nat \ {0} /\ MaxFaults \in Nat
    /\ None \notin OrderIds \cup {"COMMITTED", "ABORTED", "raised"}

VARIABLES
    pc,        \* pc[t]: where run t is
    order,     \* order[t]: the order id its operations carry
    votes,     \* votes[t]: length of prepared_conns, the YES votes
    at,        \* at[t]: index of the participant handled next
    part,      \* part[t][p]: the transaction of t at participant p
    verdict,   \* verdict[t]: what run returned
    faults

vars == <<pc, order, votes, at, part, verdict, faults>>

Inventory == 1
Orders == 2
Participants == {Inventory, Orders}
PartStates == {"none", "open", "prepared", "committed", "rolledback"}
PCs == {"idle", "operate", "prepare", "decide", "commit", "abort", "crash", "done", "dead"}

TypeOK ==
    /\ pc \in [Txns -> PCs]
    /\ order \in [Txns -> OrderIds \cup {None}]
    /\ votes \in [Txns -> 0..2]
    /\ at \in [Txns -> 1..3]
    /\ part \in [Txns -> [Participants -> PartStates]]
    /\ verdict \in [Txns -> {None, "COMMITTED", "ABORTED", "raised"}]
    /\ faults \in 0..MaxFaults

Init ==
    /\ pc = [t \in Txns |-> "idle"]
    /\ order = [t \in Txns |-> None]
    /\ votes = [t \in Txns |-> 0]
    /\ at = [t \in Txns |-> 1]
    /\ part = [t \in Txns |-> [p \in Participants |-> "none"]]
    /\ verdict = [t \in Txns |-> None]
    /\ faults = 0

Goto(t, l) == pc' = [pc EXCEPT ![t] = l]
Becomes(t, p, s) == part' = [part EXCEPT ![t][p] = s]
Fault == faults < MaxFaults /\ faults' = faults + 1

\* The committed contents of the two databases.
Quantity == Stock - Qty * Cardinality({t \in Txns : part[t][Inventory] = "committed"})
OrderRows == {order[t] : t \in {u \in Txns : part[u][Orders] = "committed"}}

\* The row of the product, or the new key of the order, is locked by another
\* transaction that is neither committed nor rolled back.
Blocked(t) ==
    \E u \in Txns \ {t} :
        /\ part[u][at[t]] \in {"open", "prepared"}
        /\ at[t] = Orders => order[u] = order[t]

\* The statement of the operation goes through: the stock suffices, the order
\* id is new.
Accepted(t) ==
    IF at[t] = Inventory THEN Quantity >= Qty ELSE order[t] \notin OrderRows

\* main calls run with the order id its closures captured.
Begin(t, o) ==
    /\ pc[t] = "idle"
    /\ order' = [order EXCEPT ![t] = o]
    /\ Goto(t, "operate")
    /\ UNCHANGED <<votes, at, part, verdict, faults>>

\* Mutation: the stock is read without waiting for the lock of the row.
OperateUnlocked(t) ==
    /\ pc[t] = "operate" /\ Accepted(t)
    /\ Becomes(t, at[t], "open")
    /\ Goto(t, "prepare")
    /\ UNCHANGED <<order, votes, at, verdict, faults>>

\* operation(conn) succeeds, once the locks it needs are free.
Operate(t) ==
    /\ pc[t] = "operate" /\ ~Blocked(t) /\ Accepted(t)
    /\ Becomes(t, at[t], "open")
    /\ Goto(t, "prepare")
    /\ UNCHANGED <<order, votes, at, verdict, faults>>

\* Mutation: no lock_timeout, a blocked statement waits.
VoteNoPatient(t) ==
    /\ pc[t] = "operate" /\ ~Blocked(t) /\ ~Accepted(t)
    /\ Goto(t, "decide")
    /\ UNCHANGED <<order, votes, at, part, verdict, faults>>

\* operation(conn) raises: the guard of the statement failed, or the lock was
\* not free within lock_timeout.  VOTE=NO and the loop ends.
VoteNo(t) ==
    /\ pc[t] = "operate" /\ (Blocked(t) \/ ~Accepted(t))
    /\ Goto(t, "decide")
    /\ UNCHANGED <<order, votes, at, part, verdict, faults>>

\* PREPARE TRANSACTION, VOTE=YES.
Prepare(t) ==
    /\ pc[t] = "prepare"
    /\ Becomes(t, at[t], "prepared")
    /\ votes' = [votes EXCEPT ![t] = @ + 1]
    /\ at' = [at EXCEPT ![t] = @ + 1]
    /\ Goto(t, IF at[t] = Orders THEN "decide" ELSE "operate")
    /\ UNCHANGED <<order, verdict, faults>>

\* The connection is lost: a statement fails and the server rolls back, or a
\* transaction is prepared and its vote is not heard.
VoteLost(t) ==
    /\ Fault
    /\ \/ pc[t] = "operate" /\ UNCHANGED part
       \/ pc[t] = "prepare" /\ \E s \in {"prepared", "rolledback"} : Becomes(t, at[t], s)
    /\ Goto(t, "decide")
    /\ UNCHANGED <<order, votes, at, verdict>>

\* Mutation: a NO vote is not remembered.
DecideAlwaysYes(t) ==
    /\ pc[t] = "decide"
    /\ \E l \in {"commit", "crash"} : Goto(t, l)
    /\ at' = [at EXCEPT ![t] = 1]
    /\ UNCHANGED <<order, votes, part, verdict, faults>>

\* All voted YES, some voted NO, or the simulated crash; whose report of the last
\* prepare_name (line 179) raises UnboundLocalError when the first operation failed.
Decide(t) ==
    /\ pc[t] = "decide"
    /\ \/ /\ \E l \in {IF votes[t] = 2 THEN "commit" ELSE "abort", "crash"} : Goto(t, l)
          /\ at' = [at EXCEPT ![t] = 1]
          /\ UNCHANGED verdict
       \/ /\ votes[t] = 0
          /\ Goto(t, "done")
          /\ verdict' = [verdict EXCEPT ![t] = "raised"]
          /\ UNCHANGED at
    /\ UNCHANGED <<order, votes, part, faults>>

\* One turn of the COMMIT loop.
Commit(t) ==
    /\ pc[t] = "commit" /\ at[t] <= votes[t]
    /\ Becomes(t, at[t], "committed")
    /\ at' = [at EXCEPT ![t] = @ + 1]
    /\ UNCHANGED <<pc, order, votes, verdict, faults>>

\* Mutation: a failed COMMIT PREPARED turns the run into an abort.
CommitRaisesAborts(t) ==
    /\ Fault
    /\ pc[t] = "commit" /\ at[t] <= votes[t]
    /\ Goto(t, "abort")
    /\ UNCHANGED <<order, votes, at, part, verdict>>

\* COMMIT PREPARED fails or its reply is lost; nothing catches the exception
\* and the participants after it keep their prepared transactions.
CommitRaises(t) ==
    /\ Fault
    /\ pc[t] = "commit" /\ at[t] <= votes[t]
    /\ UNCHANGED part \/ Becomes(t, at[t], "committed")
    /\ Goto(t, "done")
    /\ verdict' = [verdict EXCEPT ![t] = "raised"]
    /\ UNCHANGED <<order, votes, at>>

\* Mutation: the loop runs one turn too many.
AbortTooFar(t) ==
    /\ pc[t] \in {"abort", "crash"} /\ at[t] <= votes[t] + 1
    /\ Becomes(t, at[t], "rolledback")
    /\ at' = [at EXCEPT ![t] = @ + 1]
    /\ UNCHANGED <<pc, order, votes, verdict, faults>>

\* One turn of the ABORT loop, or of the clean-up after the simulated crash.
Abort(t) ==
    /\ pc[t] \in {"abort", "crash"} /\ at[t] <= votes[t]
    /\ Becomes(t, at[t], "rolledback")
    /\ at' = [at EXCEPT ![t] = @ + 1]
    /\ UNCHANGED <<pc, order, votes, verdict, faults>>

\* ROLLBACK PREPARED fails, or its reply is lost: except Exception: pass.
AbortSwallowed(t) ==
    /\ Fault
    /\ pc[t] \in {"abort", "crash"} /\ at[t] <= votes[t]
    /\ UNCHANGED part \/ Becomes(t, at[t], "rolledback")
    /\ at' = [at EXCEPT ![t] = @ + 1]
    /\ UNCHANGED <<pc, order, votes, verdict>>

\* The loop is over: run returns, and main closes the connections.
Return(t) ==
    /\ pc[t] \in {"commit", "abort", "crash"} /\ at[t] > votes[t]
    /\ verdict' = [verdict EXCEPT ![t] = IF pc[t] = "commit" THEN "COMMITTED" ELSE "ABORTED"]
    /\ Goto(t, "done")
    /\ UNCHANGED <<order, votes, at, part, faults>>

\* The coordinator's process dies: the server rolls back what is not prepared.
Die(t) ==
    /\ Fault
    /\ pc[t] \notin {"idle", "done", "dead"}
    /\ Goto(t, "dead")
    /\ part' = [part EXCEPT ![t] = [p \in Participants |->
                   IF @[p] = "open" THEN "rolledback" ELSE @[p]]]
    /\ UNCHANGED <<order, votes, at, verdict>>

Run(t) ==
    \/ Operate(t) \/ VoteNo(t) \/ Prepare(t) \/ Decide(t)
    \/ Commit(t) \/ Abort(t) \/ Return(t)

Next ==
    \E t \in Txns :
        \/ \E o \in OrderIds : Begin(t, o)
        \/ Run(t)
        \/ VoteLost(t) \/ CommitRaises(t) \/ AbortSwallowed(t) \/ Die(t)

Spec == Init /\ [][Next]_vars

\* A process that can take a step takes it; a blocked statement times out.
FairSpec == Spec /\ \A t \in Txns : WF_vars(Run(t))

-----------------------------------------------------------------------------
(***************************************************************************)
(* Properties                                                              *)
(***************************************************************************)

\* No transaction is committed at one database and rolled back at the other,
\* whatever is lost and whenever the coordinator dies (lines 196-218).
Atomic ==
    \A t \in Txns : \A p, q \in Participants :
        part[t][p] = "committed" => part[t][q] # "rolledback"

\* What run returns is true of both databases (lines 205 and 218).
VerdictIsTrue ==
    \A t \in Txns :
        /\ verdict[t] = "COMMITTED" => \A p \in Participants : part[t][p] = "committed"
        /\ verdict[t] = "ABORTED" => \A p \in Participants : part[t][p] # "committed"

\* Concurrent deductions never oversell: quantity >= qty is evaluated again once
\* the row lock is free (lines 330-334).
NeverOversold == Quantity >= 0

\* A run comes to an end unless its process dies, even behind the locks a dead
\* coordinator has left: lock_timeout bounds the wait (docker-compose.yml:10).
EveryRunReturns ==
    \A t \in Txns : order[t] # None ~> pc[t] \in {"done", "dead"}
=============================================================================
