--------------------------- MODULE IdempotentStep ---------------------------
(***************************************************************************)
(* The saga step of 02-advanced/02-distributed-transactions, phase 5: a    *)
(* deduction that may be delivered more than once.  idempotent_deduct      *)
(* looks the key up in saga_completed_steps, deducts, records the key and  *)
(* commits, all in one READ COMMITTED transaction of db-inventory.         *)
(***************************************************************************)
EXTENDS Integers, FiniteSets

CONSTANTS
    Deliveries,   \* deliveries of messages, the redeliveries included
    Keys,         \* values of saga_completed_steps.step_key
    Stock,        \* initial stock, in units of what a message deducts
    None

VARIABLES
    pc,          \* pc[d]: the statement delivery d executes next
    key,         \* key[d]: the idempotency key of the message
    answer,      \* answer[d]: what idempotent_deduct returned or raised
    quantity,    \* inventory.quantity, committed
    completed    \* completed[k]: the delivery that recorded key k, committed

vars == <<pc, key, answer, quantity, completed>>

TypeOK ==
    /\ pc \in [Deliveries -> {"idle", "check", "update", "insert", "commit",
                          "return", "done", "lost"}]
    /\ key \in [Deliveries -> Keys \cup {None}]
    /\ answer \in [Deliveries -> {None, "APPLIED", "SKIPPED", "insufficient", "error"}]
    /\ quantity \in 0..Stock
    /\ completed \in [Keys -> Deliveries \cup {None}]

Init ==
    /\ pc = [d \in Deliveries |-> "idle"]
    /\ key = [d \in Deliveries |-> None]
    /\ answer = [d \in Deliveries |-> None]
    /\ quantity = Stock
    /\ completed = [k \in Keys |-> None]

Goto(d, l) == pc' = [pc EXCEPT ![d] = l]
Return(d, w) == Goto(d, "done") /\ answer' = [answer EXCEPT ![d] = w]

\* The row of the product is locked from the UPDATE to the end of the transaction.
RowLocked == \E d \in Deliveries : pc[d] \in {"insert", "commit"}

\* The queue delivers a message, or delivers it again.
Deliver(d, k) ==
    /\ pc[d] = "idle"
    /\ key' = [key EXCEPT ![d] = k]
    /\ Goto(d, "check")
    /\ UNCHANGED <<answer, quantity, completed>>

\* Mutation: the first attempt is told that the key is already processed.
CheckSkipsInFlight(d) ==
    /\ pc[d] = "check"
    /\ IF \E e \in Deliveries \ {d} : key[e] = key[d] THEN Return(d, "SKIPPED")
                                      ELSE Goto(d, "update") /\ UNCHANGED answer
    /\ UNCHANGED <<key, quantity, completed>>

\* SELECT step_key: a committed key is skipped.
Check(d) ==
    /\ pc[d] = "check"
    /\ IF completed[key[d]] # None THEN Return(d, "SKIPPED")
                                   ELSE Goto(d, "update") /\ UNCHANGED answer
    /\ UNCHANGED <<key, quantity, completed>>

\* Mutation: the connection is in autocommit mode.
UpdateAutocommit(d) ==
    /\ pc[d] = "update" /\ ~RowLocked
    /\ IF quantity >= 1
         THEN Goto(d, "insert") /\ quantity' = quantity - 1 /\ UNCHANGED answer
         ELSE Return(d, "insufficient") /\ UNCHANGED quantity
    /\ UNCHANGED <<key, completed>>

\* Mutation: the UPDATE has no quantity >= qty.
UpdateUnguarded(d) ==
    /\ pc[d] = "update" /\ ~RowLocked
    /\ Goto(d, "insert")
    /\ UNCHANGED <<key, answer, quantity, completed>>

\* UPDATE .. WHERE quantity >= qty: waits for the row lock, then evaluates the
\* guard on the committed row.
Update(d) ==
    /\ pc[d] = "update" /\ ~RowLocked
    /\ IF quantity >= 1 THEN Goto(d, "insert") /\ UNCHANGED answer
                        ELSE Return(d, "insufficient")
    /\ UNCHANGED <<key, quantity, completed>>

\* Mutation: the violation of the primary key is caught, and APPLIED returned.
InsertSwallowed(d) ==
    /\ pc[d] = "insert"
    /\ IF completed[key[d]] # None THEN Return(d, "APPLIED")
                                   ELSE Goto(d, "commit") /\ UNCHANGED answer
    /\ UNCHANGED <<key, quantity, completed>>

\* INSERT step_key: a key committed since the check violates the primary key,
\* and the exception rolls the deduction back.
Insert(d) ==
    /\ pc[d] = "insert"
    /\ IF completed[key[d]] # None THEN Return(d, "error")
                                   ELSE Goto(d, "commit") /\ UNCHANGED answer
    /\ UNCHANGED <<key, quantity, completed>>

\* conn.commit(): the deduction and the key become visible together.
Commit(d) ==
    /\ pc[d] = "commit"
    /\ quantity' = quantity - 1
    /\ completed' = [completed EXCEPT ![key[d]] = d]
    /\ Goto(d, "return")
    /\ UNCHANGED <<key, answer>>

Applied(d) ==
    /\ pc[d] = "return"
    /\ Return(d, "APPLIED")
    /\ UNCHANGED <<key, quantity, completed>>

\* A statement fails or times out on a lock, and the connection is rolled back;
\* or the COMMIT took effect and its acknowledgement is lost.
Fails(d) ==
    /\ pc[d] \in {"check", "update", "insert", "commit", "return"}
    /\ Return(d, "error")
    /\ UNCHANGED <<key, quantity, completed>>

\* The consumer dies before acknowledging the message.
Crash(d) ==
    /\ pc[d] \in {"check", "update", "insert", "commit", "return"}
    /\ Goto(d, "lost")
    /\ UNCHANGED <<key, answer, quantity, completed>>

Next ==
    \E d \in Deliveries :
        \/ \E k \in Keys : Deliver(d, k)
        \/ Check(d) \/ Update(d) \/ Insert(d) \/ Commit(d)
        \/ Applied(d) \/ Fails(d) \/ Crash(d)

Spec == Init /\ [][Next]_vars

-----------------------------------------------------------------------------
(***************************************************************************)
(* Properties                                                              *)
(***************************************************************************)

\* The two tables agree: what is missing from the stock is what the recorded
\* keys account for, after every redelivery and crash (lines 642-656).
StockMatchesKeys ==
    quantity = Stock - Cardinality({k \in Keys : completed[k] # None})

\* A delivery that is told "already processed" is told the truth, so the queue
\* may drop the message (lines 637-639).
SkippedIsDone ==
    \A d \in Deliveries : answer[d] \in {"SKIPPED", "APPLIED"} => completed[key[d]] # None

\* The step implements OncePerKey: a key has the effect of one delivery, and
\* every delivery that succeeds answers for that effect.
Told == {d \in Deliveries : answer[d] \in {"SKIPPED", "APPLIED"}}
EffectOf(d) == IF answer[d] = "APPLIED" THEN d ELSE completed[key[d]]
ToldPairs == {<<key[d], EffectOf(d)>> : d \in Told}
Contract == INSTANCE OncePerKey WITH
    Effects <- Deliveries, effect <- completed, answers <- ToldPairs
ImplementsOncePerKey == Contract!Spec
-----------------------------------------------------------------------------
(***************************************************************************)
(* What TransactionsProofs proves to be inductive.                         *)
(***************************************************************************)
StepAssumptions ==
    /\ IsFiniteSet(Keys) /\ Stock \in Nat
    /\ None \notin Deliveries \cup {"APPLIED", "SKIPPED", "insufficient", "error"}

Shape ==
    /\ pc \in [Deliveries -> {"idle", "check", "update", "insert", "commit",
                              "return", "done", "lost"}]
    /\ key \in [Deliveries -> Keys \cup {None}]
    /\ answer \in [Deliveries -> {None, "APPLIED", "SKIPPED", "insufficient", "error"}]
    /\ quantity \in Nat
    /\ completed \in [Keys -> Deliveries \cup {None}]

Locking(d) == pc[d] \in {"insert", "commit"}
OneHoldsTheRow == \A d, e \in Deliveries : Locking(d) /\ Locking(e) => d = e

\* What delivery d may rely on at the statement it executes next.
Knows(d) ==
    /\ pc[d] # "idle" => key[d] \in Keys
    /\ Locking(d) => quantity >= 1
    /\ pc[d] = "commit" => completed[key[d]] = None
    /\ pc[d] = "return" => completed[key[d]] = d
    /\ answer[d] # None => pc[d] = "done"
    /\ answer[d] = "APPLIED" => completed[key[d]] = d
    /\ answer[d] = "SKIPPED" => completed[key[d]] # None

\* A delivery that is recorded is over, but for its return.
RecordedIsOver ==
    \A k \in Keys : completed[k] # None => pc[completed[k]] \in {"return", "done", "lost"}

Recorded == {k \in Keys : completed[k] # None}

StepInv ==
    /\ Shape /\ OneHoldsTheRow
    /\ \A d \in Deliveries : Knows(d)
    /\ RecordedIsOver
    /\ quantity = Stock - Cardinality(Recorded)

\* The steps of d that leave both tables alone: all but Commit.
Quiet(d) ==
    \/ \E k \in Keys : Deliver(d, k)
    \/ Check(d) \/ Update(d) \/ Insert(d) \/ Applied(d) \/ Fails(d) \/ Crash(d)
=============================================================================
