------------------------------ MODULE FailureModes ------------------------------
(* Phases 4 and 5 of the failure modes lab (01/14), which share nothing: the  *)
(* bulkhead's pools and the in-memory idempotency store.                      *)
EXTENDS Integers, FiniteSets

CONSTANTS
    Threads,     \* the calls of phase 4, one per thread
    Pools,       \* the downstreams
    MaxThreads,  \* max_threads of every pool
    Attempts,   \* calls of execute, the client's retries included
    Keys,       \* idempotency keys
    None

VARIABLES
    pool,       \* pool[t]: the pool that thread t submits to
    at,         \* at[t]: where thread t is in submit
    read,       \* read[t]: the counter as read by the += of thread t
    permits,    \* permits[p]: the value of the semaphore
    completed,
    rejected,
    attempt,        \* attempt[a]: where attempt a is in execute
    key,       \* key[a]: the key that attempt a carries
    answer,    \* answer[a]: the attempt whose fn made the response returned to a
    store,     \* store[k]: the attempt whose response is stored under k
    executed   \* the attempts whose fn took effect (charge_count counts them)

-------------------------------------------------------------------------------
(* The bulkheads of the reliability lab (01/14, phase 4): one semaphore per    *)
(* downstream, taken without blocking and given back in a finally clause.      *)
(* completed and rejected are plain attributes: += is a read and a write.      *)
poolVars == <<pool, at, read, permits, completed, rejected>>

PoolTypeOK ==
    /\ pool \in [Threads -> Pools]
    /\ at \in [Threads -> {"submit", "reject", "reject+", "running", "complete",
                           "complete+", "raised", "release", "done"}]
    /\ read \in [Threads -> 0..Cardinality(Threads)]
    /\ permits \in [Pools -> 0..MaxThreads]
    /\ completed \in [Pools -> 0..Cardinality(Threads)]
    /\ rejected \in [Pools -> 0..Cardinality(Threads)]

NewPools ==
    /\ permits = [p \in Pools |-> MaxThreads]
    /\ completed = [p \in Pools |-> 0]
    /\ rejected = [p \in Pools |-> 0]

PoolInit ==
    /\ pool \in [Threads -> Pools]
    /\ at = [t \in Threads |-> "submit"]
    /\ read = [t \in Threads |-> 0]
    /\ NewPools

PoolGoto(t, l) == at' = [at EXCEPT ![t] = l]
Step(t, from, to) == at[t] = from /\ PoolGoto(t, to) /\ UNCHANGED pool

\* Mutation: the pools share one semaphore.
AcquireShared(t) ==
    /\ IF \A p \in Pools : permits[p] > 0
         THEN /\ Step(t, "submit", "running")
              /\ permits' = [permits EXCEPT ![pool[t]] = @ - 1]
         ELSE Step(t, "submit", "reject") /\ UNCHANGED permits
    /\ UNCHANGED <<read, completed, rejected>>

\* acquire(blocking=False)
Acquire(t) ==
    /\ IF permits[pool[t]] > 0
         THEN /\ Step(t, "submit", "running")
              /\ permits' = [permits EXCEPT ![pool[t]] = @ - 1]
         ELSE Step(t, "submit", "reject") /\ UNCHANGED permits
    /\ UNCHANGED <<read, completed, rejected>>

\* self.rejected += 1, then raise
ReadRejected(t) ==
    /\ Step(t, "reject", "reject+")
    /\ read' = [read EXCEPT ![t] = rejected[pool[t]]]
    /\ UNCHANGED <<permits, completed, rejected>>

WriteRejected(t) ==
    /\ Step(t, "reject+", "done")
    /\ rejected' = [rejected EXCEPT ![pool[t]] = read[t] + 1]
    /\ UNCHANGED <<read, permits, completed>>

FnReturns(t) ==
    /\ Step(t, "running", "complete")
    /\ UNCHANGED <<read, permits, completed, rejected>>

\* Mutation: the permit is not given back in a finally clause.
FnRaisesLeaks(t) ==
    /\ Step(t, "running", "done")
    /\ UNCHANGED <<read, permits, completed, rejected>>

\* fn() raises, for one when its timeout of 0.5 s expires.
FnRaises(t) ==
    /\ Step(t, "running", "raised")
    /\ UNCHANGED <<read, permits, completed, rejected>>

\* self.completed += 1
ReadCompleted(t) ==
    /\ Step(t, "complete", "complete+")
    /\ read' = [read EXCEPT ![t] = completed[pool[t]]]
    /\ UNCHANGED <<permits, completed, rejected>>

WriteCompleted(t) ==
    /\ Step(t, "complete+", "release")
    /\ completed' = [completed EXCEPT ![pool[t]] = read[t] + 1]
    /\ UNCHANGED <<read, permits, rejected>>

\* finally: release()
Release(t) ==
    /\ at[t] \in {"raised", "release"}
    /\ PoolGoto(t, "done")
    /\ permits' = [permits EXCEPT ![pool[t]] = @ + 1]
    /\ UNCHANGED <<pool, read, completed, rejected>>

Submit(t) ==
    \/ Acquire(t) \/ ReadRejected(t) \/ WriteRejected(t)
    \/ FnReturns(t) \/ FnRaises(t)
    \/ ReadCompleted(t) \/ WriteCompleted(t) \/ Release(t)

\* All calls have returned.
CallsReturned == (\A t \in Threads : at[t] = "done") /\ UNCHANGED poolVars

PoolNext == CallsReturned \/ \E t \in Threads : Submit(t)

PoolSpec == PoolInit /\ [][PoolNext]_poolVars

-----------------------------------------------------------------------------
CallsAt(p, places) == {t \in Threads : pool[t] = p /\ at[t] \in places}
Holding == {"running", "complete", "complete+", "raised", "release"}

\* No permit is lost or invented, however calls end and interleave: what a pool lacks is
\* held by its own calls (submit, the finally clause).
PermitsAccounted ==
    \A p \in Pools : permits[p] + Cardinality(CallsAt(p, Holding)) = MaxThreads

\* Lost updates only ever lower the counters: the pool never claims a call that did not
\* happen, and once a call is counted the counter is positive.
CountersUnderstate ==
    \A p \in Pools :
        /\ completed[p] + rejected[p] <= Cardinality(CallsAt(p, {"release", "done"}))
        /\ CallsAt(p, {"release"}) # {} => completed[p] > 0

\* A pool's books under any interleaving of its calls.
BulkheadIsTight == PermitsAccounted /\ CountersUnderstate

\* Isolation: a call is turned away only while its own pool is full, whatever happens in
\* the other pools (submit, acquire(blocking=False)).
RejectsWhenFull ==
    \A t \in Threads : at[t] = "submit" /\ at'[t] = "reject" =>
        Cardinality(CallsAt(pool[t], Holding)) = MaxThreads

RejectedOnlyWhenFull == [][RejectsWhenFull]_poolVars

-------------------------------------------------------------------------------
(* The in-memory key store of the reliability lab (01/14, phase 5): execute    *)
(* looks the key up under the lock, runs fn outside it, and stores the         *)
(* response under the lock if the key is still missing.                        *)
storeVars == <<attempt, key, answer, store, executed>>

StoreTypeOK ==
    /\ attempt \in [Attempts -> {"idle", "run", "store", "first", "deduplicated", "raised"}]
    /\ key \in [Attempts -> Keys \cup {None}]
    /\ answer \in [Attempts -> Attempts \cup {None}]
    /\ store \in [Keys -> Attempts \cup {None}]
    /\ executed \subseteq Attempts

StoreInit ==
    /\ attempt = [a \in Attempts |-> "idle"]
    /\ key = [a \in Attempts |-> None]
    /\ answer = [a \in Attempts |-> None]
    /\ store = [k \in Keys |-> None]
    /\ executed = {}

StoreGoto(a, l) == attempt' = [attempt EXCEPT ![a] = l]
Return(a, l, r) == StoreGoto(a, l) /\ answer' = [answer EXCEPT ![a] = r]

\* execute, first lock section: a stored response is returned as deduplicated.
Begin(a, k) ==
    /\ attempt[a] = "idle"
    /\ key' = [key EXCEPT ![a] = k]
    /\ IF store[k] # None THEN Return(a, "deduplicated", store[k])
                          ELSE StoreGoto(a, "run") /\ UNCHANGED answer
    /\ UNCHANGED <<store, executed>>

\* response = fn()
Run(a) ==
    /\ attempt[a] = "run"
    /\ StoreGoto(a, "store")
    /\ executed' = executed \cup {a}
    /\ UNCHANGED <<key, answer, store>>

\* Mutation: the response is stored before fn is known to succeed.
RunRaisesStored(a) ==
    /\ attempt[a] = "run"
    /\ StoreGoto(a, "raised")
    /\ store' = [store EXCEPT ![key[a]] = IF @ = None THEN a ELSE @]
    /\ UNCHANGED <<key, answer, executed>>

\* fn() raises, before or after it took effect: nothing is stored.
RunRaises(a) ==
    /\ attempt[a] = "run"
    /\ StoreGoto(a, "raised")
    /\ executed' \in {executed, executed \cup {a}}
    /\ UNCHANGED <<key, answer, store>>

\* Mutation: the key is not checked again.
StoreUnchecked(a) ==
    /\ attempt[a] = "store"
    /\ store' = [store EXCEPT ![key[a]] = a]
    /\ Return(a, "first", a)
    /\ UNCHANGED <<key, executed>>

\* execute, second lock section: the first response stored stays, and the
\* attempt returns its own in either case.
Store(a) ==
    /\ attempt[a] = "store"
    /\ store' = [store EXCEPT ![key[a]] = IF @ = None THEN a ELSE @]
    /\ Return(a, "first", a)
    /\ UNCHANGED <<key, executed>>

\* Every attempt has returned.
AttemptsOver == (\A a \in Attempts : attempt[a] \notin {"idle", "run", "store"}) /\ UNCHANGED storeVars

StoreNext ==
    \/ AttemptsOver
    \/ \E a \in Attempts :
        \/ \E k \in Keys : Begin(a, k)
        \/ Run(a) \/ RunRaises(a) \/ Store(a)

StoreSpec == StoreInit /\ [][StoreNext]_storeVars

-----------------------------------------------------------------------------
StoredWasExecuted == \A k \in Keys : store[k] # None => store[k] \in executed

\* Retries that are deduplicated agree with each other, and with an attempt that said it
\* was the first.
DeduplicatedAgree ==
    \A a \in Attempts : attempt[a] = "deduplicated" =>
        /\ answer[a] \in executed
        /\ attempt[answer[a]] = "first"
        /\ \A b \in Attempts :
               attempt[b] = "deduplicated" /\ key[b] = key[a] => answer[b] = answer[a]

\* Whatever races for a key, all its retries from the first stored response on are given
\* that one response, of a charge that really happened (the second look under the lock).
StoreIsFinal == StoredWasExecuted /\ DeduplicatedAgree

\* "On duplicate UUID: server returns the stored response without re-executing"
\* (experiment.py:519): two answers for a key name one execution.
OneResponse ==
    \A a, b \in Attempts :
        key[a] = key[b] /\ answer[a] # None /\ answer[b] # None => answer[a] = answer[b]
===============================================================================
