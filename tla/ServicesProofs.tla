--------------------------- MODULE ServicesProofs ---------------------------
(***************************************************************************)
(* Proofs about the service and coordination labs, for any number of       *)
(* threads, requests, drivers, candidates, regions, callers and servers.   *)
(***************************************************************************)
EXTENDS MCServices, Counting

-----------------------------------------------------------------------------
(***************************************************************************)
(* Arithmetic of rates and windows.                                        *)
(***************************************************************************)
LEMMA Distribute ==
    ASSUME NEW x \in Int, NEW y \in Int, NEW r \in Int
    PROVE  (x - y) * r = x * r - y * r /\ (x + y) * r = x * r + y * r /\ x * r \in Int
  OBVIOUS

LEMMA TimesMonotonic ==
    ASSUME NEW x \in Int, NEW y \in Int, NEW r \in Nat, x <= y
    PROVE  x * r <= y * r
  <1>1. (y - x) * r >= 0
    <2>1. y - x \in Nat
      OBVIOUS
    <2>2. \A z \in Nat : z * r >= 0
      OBVIOUS
    <2> QED
      BY <2>1, <2>2
  <1> QED
    BY <1>1, Distribute

LEMMA ProductType ==
    ASSUME NEW x \in Nat, NEW y \in Nat
    PROVE  x * y \in Nat
  <1>1. x * y \in Int /\ x * y >= 0
    OBVIOUS
  <1> QED
    BY <1>1

LEMMA WindowOf ==
    ASSUME NEW W \in Nat, W > 0, NEW t \in Nat
    PROVE  /\ t \div W \in Nat /\ t % W \in 0..W - 1
           /\ t = (t \div W) * W + (t % W)
  <1>1. t \div W \in Int /\ t % W \in 0..W - 1
    OBVIOUS
  <1>2. t = (t \div W) * W + (t % W)
    OBVIOUS
  <1>3. t \div W >= 0
    OBVIOUS
  <1> QED
    BY <1>1, <1>2, <1>3

LEMMA WindowIsOne ==
    ASSUME NEW W \in Nat, W > 0, NEW t \in Nat, NEW w \in Nat
    PROVE  t \in w * W..(w + 1) * W - 1 <=> w = t \div W
  <1> DEFINE q == t \div W
             r == t % W
  <1>1. q \in Nat /\ r \in 0..W - 1 /\ t = q * W + r
    BY WindowOf
  <1> HIDE DEF q, r
  <1>2. (w + 1) * W = w * W + W /\ w * W \in Nat /\ q * W \in Nat
    BY <1>1, ProductType, Distribute
  <1>3. CASE w = q
    BY <1>1, <1>2, <1>3 DEF q
  <1>4. CASE w < q
    <2>1. (w + 1) * W <= q * W
      BY <1>1, <1>4, TimesMonotonic
    <2> QED
      BY <1>1, <1>2, <1>4, <2>1 DEF q
  <1>5. CASE q < w
    <2>1. (q + 1) * W <= w * W /\ (q + 1) * W = q * W + W
      BY <1>1, <1>5, TimesMonotonic
    <2> QED
      BY <1>1, <1>2, <1>5, <2>1 DEF q
  <1> QED
    BY <1>1, <1>3, <1>4, <1>5

LEMMA WindowsAscend ==
    ASSUME NEW W \in Nat, W > 0, NEW t \in Nat, NEW u \in Nat, t <= u
    PROVE  t \div W <= u \div W
  <1> DEFINE q == t \div W
             p == u \div W
  <1>1. q \in Nat /\ p \in Nat /\ t = q * W + (t % W) /\ u = p * W + (u % W)
        /\ t % W \in 0..W - 1 /\ u % W \in 0..W - 1
    BY WindowOf
  <1> HIDE DEF q, p
  <1>2. ASSUME p < q
        PROVE  FALSE
    <2>1. (p + 1) * W <= q * W /\ (p + 1) * W = p * W + W
      BY <1>1, <1>2, TimesMonotonic
    <2>2. p * W \in Nat /\ q * W \in Nat
      BY <1>1, ProductType
    <2> QED
      BY <1>1, <2>1, <2>2
  <1> QED
    BY <1>1, <1>2 DEF q, p

-----------------------------------------------------------------------------
(***************************************************************************)
(* The bulkhead and the idempotency store.  A permit that is missing from  *)
(* a semaphore is held by a thread between acquire and the finally clause; *)
(* counting those threads is inductive.  A stored response belongs to an   *)
(* attempt that has returned as the first and executed fn, and it is what  *)
(* every deduplicated attempt of its key was given (Replayed), since the   *)
(* second look under the lock never replaces one.                          *)
(***************************************************************************)
Places == {"submit", "reject", "reject+", "running", "complete", "complete+", "raised",
           "release", "done"}

PoolShape ==
    /\ pool \in [Threads -> Pools]
    /\ at \in [Threads -> Places]
    /\ permits \in [Pools -> Nat]

\* What a pool lacks is held by its own calls.
Permits ==
    \A p \in Pools : permits[p] + Cardinality(Failure!CallsAt(p, Failure!Holding)) = MaxThreads

PoolInv == PoolShape /\ Permits

LEMMA SameSize == \A S : Failure!Cardinality(S) = Cardinality(S)
  BY DEF Failure!Cardinality, Cardinality

LEMMA InitPoolInv ==
    ASSUME MaxThreads \in Nat, Failure!PoolInit
    PROVE  PoolInv
  <1>1. \A p \in Pools : Failure!CallsAt(p, Failure!Holding) = {}
    BY DEF Failure!PoolInit, Failure!CallsAt, Failure!Holding
  <1>2. Permits
    BY <1>1, FS_EmptySet DEF Failure!PoolInit, Failure!NewPools, Permits
  <1> QED
    BY <1>2 DEF Failure!PoolInit, Failure!NewPools, PoolInv, PoolShape, Places

\* What a step of a thread does to its pool's semaphore and to who holds a permit.
LEMMA PermitKinds ==
    ASSUME PoolShape, [Failure!PoolNext]_poolVars
    PROVE  /\ pool' = pool
           /\ at' \in [Threads -> Places]
           /\ \/ permits' = permits /\ \A t \in Threads : at'[t] \in Failure!Holding <=> at[t] \in Failure!Holding
              \/ \E t \in Threads :
                    /\ permits[pool[t]] > 0 /\ permits' = [permits EXCEPT ![pool[t]] = @ - 1]
                    /\ at[t] \notin Failure!Holding /\ at'[t] \in Failure!Holding
                    /\ \A u \in Threads \ {t} : at'[u] = at[u]
              \/ \E t \in Threads :
                    /\ permits' = [permits EXCEPT ![pool[t]] = @ + 1]
                    /\ at[t] \in Failure!Holding /\ at'[t] \notin Failure!Holding
                    /\ \A u \in Threads \ {t} : at'[u] = at[u]
  <1> DEFINE Quiet ==
                 permits' = permits /\ \A t \in Threads : at'[t] \in Failure!Holding <=> at[t] \in Failure!Holding
             Typed == pool' = pool /\ at' \in [Threads -> Places]
  <1>1. ASSUME NEW t \in Threads, Failure!Acquire(t)
        PROVE  /\ Typed
               /\ \/ Quiet
                  \/ /\ permits[pool[t]] > 0
                     /\ permits' = [permits EXCEPT ![pool[t]] = @ - 1]
                     /\ at[t] \notin Failure!Holding /\ at'[t] \in Failure!Holding
                     /\ \A u \in Threads \ {t} : at'[u] = at[u]
    BY <1>1 DEF Failure!Acquire, Failure!Step, Failure!PoolGoto, PoolShape, Places, Failure!Holding
  <1>2. ASSUME NEW t \in Threads, Failure!Release(t)
        PROVE  /\ Typed
               /\ permits' = [permits EXCEPT ![pool[t]] = @ + 1]
               /\ at[t] \in Failure!Holding /\ at'[t] \notin Failure!Holding
               /\ \A u \in Threads \ {t} : at'[u] = at[u]
    BY <1>2 DEF Failure!Release, Failure!PoolGoto, PoolShape, Places, Failure!Holding
  <1>3. ASSUME NEW t \in Threads,
               \/ Failure!ReadRejected(t) \/ Failure!WriteRejected(t) \/ Failure!FnReturns(t) \/ Failure!FnRaises(t)
               \/ Failure!ReadCompleted(t) \/ Failure!WriteCompleted(t)
        PROVE  Typed /\ Quiet
    BY <1>3
    DEF Failure!ReadRejected, Failure!WriteRejected, Failure!FnReturns, Failure!FnRaises, Failure!ReadCompleted, Failure!WriteCompleted,
        Failure!Step, Failure!PoolGoto, PoolShape, Places, Failure!Holding
  <1>4. CASE Failure!CallsReturned \/ UNCHANGED poolVars
    BY <1>4 DEF Failure!CallsReturned, poolVars, Failure!poolVars, PoolShape
  <1> QED
    BY <1>1, <1>2, <1>3, <1>4 DEF Failure!PoolNext, Failure!Submit

\* A permit moves between the semaphore and a thread and is never lost.
LEMMA PoolInvStep ==
    ASSUME IsFiniteSet(Threads), MaxThreads \in Nat, PoolInv, [Failure!PoolNext]_poolVars
    PROVE  PoolInv'
  <1> USE DEF PoolInv
  <1>1. pool' = pool /\ at' \in [Threads -> Places]
    BY PermitKinds
  <1>2. \A p \in Pools : IsFiniteSet(Failure!CallsAt(p, Failure!Holding))
    <2>1. \A p \in Pools : Failure!CallsAt(p, Failure!Holding) \subseteq Threads
      BY DEF Failure!CallsAt
    <2> QED
      BY <2>1, FS_Subset
  <1>3. CASE permits' = permits /\ \A t \in Threads : at'[t] \in Failure!Holding <=> at[t] \in Failure!Holding
    <2>1. \A p \in Pools : Failure!CallsAt(p, Failure!Holding)' = Failure!CallsAt(p, Failure!Holding)
      BY <1>1, <1>3 DEF Failure!CallsAt, Failure!Holding
    <2> QED
      BY <1>1, <1>3, <2>1 DEF PoolShape, Permits
  <1>4. ASSUME NEW t \in Threads,
               permits[pool[t]] > 0,
               permits' = [permits EXCEPT ![pool[t]] = @ - 1],
               at[t] \notin Failure!Holding, at'[t] \in Failure!Holding,
               \A u \in Threads \ {t} : at'[u] = at[u]
        PROVE  PoolInv'
    <2>1. pool[t] \in Pools /\ permits \in [Pools -> Nat]
      BY DEF PoolShape
    <2>2. ASSUME NEW p \in Pools
          PROVE  permits'[p] + Cardinality(Failure!CallsAt(p, Failure!Holding)') = MaxThreads
      <3>1. permits[p] + Cardinality(Failure!CallsAt(p, Failure!Holding)) = MaxThreads
        BY DEF Permits
      <3>2. Cardinality(Failure!CallsAt(p, Failure!Holding)) \in Nat
        BY <1>2, FS_CardinalityType
      <3>3. CASE p = pool[t]
        <4>1. Failure!CallsAt(p, Failure!Holding)' = Failure!CallsAt(p, Failure!Holding) \cup {t} /\ t \notin Failure!CallsAt(p, Failure!Holding)
          BY <1>1, <1>4, <3>3 DEF Failure!CallsAt
        <4>2. Cardinality(Failure!CallsAt(p, Failure!Holding)') = Cardinality(Failure!CallsAt(p, Failure!Holding)) + 1
          BY <1>2, <4>1, FS_AddElement
        <4> QED
          BY <1>4, <2>1, <3>1, <3>2, <3>3, <4>2
      <3>4. CASE p # pool[t]
        <4>1. Failure!CallsAt(p, Failure!Holding)' = Failure!CallsAt(p, Failure!Holding)
          BY <1>1, <1>4, <3>4 DEF Failure!CallsAt
        <4> QED
          BY <1>4, <2>1, <3>1, <3>4, <4>1
      <3> QED
        BY <3>3, <3>4
    <2>3. Permits'
      BY <2>2 DEF Permits
    <2> QED
      BY <1>1, <1>4, <2>1, <2>3 DEF PoolShape
  <1>5. ASSUME NEW t \in Threads,
               permits' = [permits EXCEPT ![pool[t]] = @ + 1],
               at[t] \in Failure!Holding, at'[t] \notin Failure!Holding,
               \A u \in Threads \ {t} : at'[u] = at[u]
        PROVE  PoolInv'
    <2>1. pool[t] \in Pools /\ permits \in [Pools -> Nat]
      BY DEF PoolShape
    <2>2. ASSUME NEW p \in Pools
          PROVE  permits'[p] + Cardinality(Failure!CallsAt(p, Failure!Holding)') = MaxThreads
      <3>1. permits[p] + Cardinality(Failure!CallsAt(p, Failure!Holding)) = MaxThreads
        BY DEF Permits
      <3>2. Cardinality(Failure!CallsAt(p, Failure!Holding)) \in Nat
        BY <1>2, FS_CardinalityType
      <3>3. CASE p = pool[t]
        <4>1. Failure!CallsAt(p, Failure!Holding)' = Failure!CallsAt(p, Failure!Holding) \ {t} /\ t \in Failure!CallsAt(p, Failure!Holding)
          BY <1>1, <1>5, <3>3 DEF Failure!CallsAt
        <4>2. Cardinality(Failure!CallsAt(p, Failure!Holding)') = Cardinality(Failure!CallsAt(p, Failure!Holding)) - 1
          BY <1>2, <4>1, FS_RemoveElement
        <4> QED
          BY <1>5, <2>1, <3>1, <3>2, <3>3, <4>2
      <3>4. CASE p # pool[t]
        <4>1. Failure!CallsAt(p, Failure!Holding)' = Failure!CallsAt(p, Failure!Holding)
          BY <1>1, <1>5, <3>4 DEF Failure!CallsAt
        <4> QED
          BY <1>5, <2>1, <3>1, <3>4, <4>1
      <3> QED
        BY <3>3, <3>4
    <2>3. Permits'
      BY <2>2 DEF Permits
    <2> QED
      BY <1>1, <1>5, <2>1, <2>3 DEF PoolShape
  <1> QED
    BY <1>3, <1>4, <1>5, PermitKinds

LEMMA PermitsAreAccounted ==
    ASSUME PoolInv
    PROVE  Failure!PermitsAccounted
  BY SameSize DEF PoolInv, Permits, Failure!PermitsAccounted

\* Whoever is turned away found no permit left, and those that are missing are held.
LEMMA RejectionsStep ==
    ASSUME IsFiniteSet(Threads), MaxThreads \in Nat, PoolInv, [Failure!PoolNext]_poolVars
    PROVE  Failure!RejectsWhenFull
  <1>1. ASSUME NEW t \in Threads, at[t] = "submit", at'[t] = "reject"
        PROVE  Cardinality(Failure!CallsAt(pool[t], Failure!Holding)) = MaxThreads
    <2>1. pool[t] \in Pools /\ permits[pool[t]] \in Nat /\ at \in [Threads -> Places]
      BY DEF PoolInv, PoolShape
    <2>2. permits[pool[t]] + Cardinality(Failure!CallsAt(pool[t], Failure!Holding)) = MaxThreads
      BY <2>1 DEF PoolInv, Permits
    <2>3. Failure!CallsAt(pool[t], Failure!Holding) \subseteq Threads
      BY DEF Failure!CallsAt
    <2>4. Cardinality(Failure!CallsAt(pool[t], Failure!Holding)) \in Nat
      BY <2>3, FS_Subset, FS_CardinalityType
    <2>5. permits[pool[t]] <= 0
      <3>1. ASSUME NEW u \in Threads, Failure!Submit(u)
            PROVE  u = t /\ Failure!Acquire(t)
        BY <1>1, <2>1, <3>1
        DEF Failure!Submit, Failure!Acquire, Failure!ReadRejected, Failure!WriteRejected, Failure!FnReturns, Failure!FnRaises, Failure!ReadCompleted,
            Failure!WriteCompleted, Failure!Release, Failure!Step, Failure!PoolGoto
      <3>2. ~(Failure!CallsReturned \/ UNCHANGED poolVars)
        BY <1>1 DEF Failure!CallsReturned, poolVars, Failure!poolVars
      <3>3. Failure!Acquire(t)
        BY <3>1, <3>2 DEF Failure!PoolNext
      <3> QED
        BY <1>1, <2>1, <3>3 DEF Failure!Acquire, Failure!Step, Failure!PoolGoto
    <2>6. permits[pool[t]] = 0
      BY <2>1, <2>5
    <2> QED
      BY <2>2, <2>4, <2>6
  <1> QED
    BY <1>1, SameSize DEF Failure!RejectsWhenFull

\* No permit of a bulkhead is lost or invented, however its calls interleave, raise or
\* are turned away (submit and its finally clause).
THEOREM PermitsKept ==
    ASSUME IsFiniteSet(Threads), MaxThreads \in Nat
    PROVE  Failure!PoolSpec => []Failure!PermitsAccounted
  <1>1. Failure!PoolInit => PoolInv
    BY InitPoolInv
  <1>2. PoolInv /\ [Failure!PoolNext]_poolVars => PoolInv'
    BY PoolInvStep
  <1>3. PoolInv => Failure!PermitsAccounted
    BY PermitsAreAccounted
  <1> QED
    BY <1>1, <1>2, <1>3, PTL DEF Failure!PoolSpec, Failure!poolVars, poolVars

\* Isolation: a call is rejected only in a step in which all permits of its own pool are
\* held by calls of that pool.
THEOREM RejectedMeansFull ==
    ASSUME IsFiniteSet(Threads), MaxThreads \in Nat
    PROVE  Failure!PoolSpec => Failure!RejectedOnlyWhenFull
  <1>1. PoolInv /\ [Failure!PoolNext]_poolVars => Failure!RejectsWhenFull
    BY RejectionsStep
  <1>2. Failure!PoolInit => PoolInv
    BY InitPoolInv
  <1>3. PoolInv /\ [Failure!PoolNext]_poolVars => PoolInv'
    BY PoolInvStep
  <1> QED
    BY <1>1, <1>2, <1>3, PTL DEF Failure!PoolSpec, Failure!RejectedOnlyWhenFull, Failure!poolVars, poolVars

-----------------------------------------------------------------------------
(* The idempotency store.                                                    *)

StoreShape ==
    /\ attempt \in [Attempts -> {"idle", "run", "store", "first", "deduplicated", "raised"}]
    /\ key \in [Attempts -> Keys \cup {None}]
    /\ answer \in [Attempts -> Attempts \cup {None}]
    /\ store \in [Keys -> Attempts \cup {None}]
    /\ executed \subseteq Attempts

\* A stored response was made by an attempt that ran fn and returned it as the first.
StoredByFirst ==
    \A k \in Keys : store[k] # None => store[k] \in executed /\ attempt[store[k]] = "first"

\* A deduplicated attempt was given what its key still stores.
Replayed ==
    \A a \in Attempts : attempt[a] = "deduplicated" =>
        key[a] \in Keys /\ store[key[a]] # None /\ answer[a] = store[key[a]]

\* An attempt that is past its first look carries a key; one about to store has run fn.
Underway ==
    \A a \in Attempts :
        /\ attempt[a] \in {"run", "store"} => key[a] \in Keys
        /\ attempt[a] = "store" => a \in executed

StoreInv == StoreShape /\ StoredByFirst /\ Replayed /\ Underway

LEMMA InitStoreInv ==
    ASSUME Failure!StoreInit
    PROVE  StoreInv
  BY DEF Failure!StoreInit, StoreInv, StoreShape, StoredByFirst, Replayed, Underway

LEMMA StoreInvStep ==
    ASSUME StoreInv, [Failure!StoreNext]_storeVars
    PROVE  StoreInv'
  <1> USE DEF StoreInv
  <1>1. ASSUME NEW a \in Attempts, NEW k \in Keys, Failure!Begin(a, k)
        PROVE  StoreInv'
    <2>1. StoreShape'
      BY <1>1 DEF Failure!Begin, Failure!Return, Failure!StoreGoto, StoreShape
    <2>2. StoredByFirst'
      BY <1>1 DEF Failure!Begin, Failure!Return, Failure!StoreGoto, StoreShape, StoredByFirst
    <2>3. Replayed'
      BY <1>1 DEF Failure!Begin, Failure!Return, Failure!StoreGoto, StoreShape, Replayed
    <2>4. Underway'
      BY <1>1 DEF Failure!Begin, Failure!Return, Failure!StoreGoto, StoreShape, Underway
    <2> QED
      BY <2>1, <2>2, <2>3, <2>4
  <1>2. ASSUME NEW a \in Attempts, Failure!Run(a) \/ Failure!RunRaises(a)
        PROVE  StoreInv'
    <2>1. StoreShape'
      BY <1>2 DEF Failure!Run, Failure!RunRaises, Failure!StoreGoto, StoreShape
    <2>2. StoredByFirst'
      BY <1>2 DEF Failure!Run, Failure!RunRaises, Failure!StoreGoto, StoreShape, StoredByFirst
    <2>3. Replayed'
      BY <1>2 DEF Failure!Run, Failure!RunRaises, Failure!StoreGoto, StoreShape, Replayed
    <2>4. Underway'
      BY <1>2 DEF Failure!Run, Failure!RunRaises, Failure!StoreGoto, StoreShape, Underway
    <2> QED
      BY <2>1, <2>2, <2>3, <2>4
  <1>3. ASSUME NEW a \in Attempts, Failure!Store(a)
        PROVE  StoreInv'
    <2>1. key[a] \in Keys /\ a \in executed /\ StoreShape
      BY <1>3 DEF Failure!Store, Underway
    <2>2. StoreShape'
      BY <1>3, <2>1 DEF Failure!Store, Failure!Return, Failure!StoreGoto, StoreShape
    <2>3. StoredByFirst'
      BY <1>3, <2>1 DEF Failure!Store, Failure!Return, Failure!StoreGoto, StoreShape, StoredByFirst
    <2>4. Replayed'
      BY <1>3, <2>1 DEF Failure!Store, Failure!Return, Failure!StoreGoto, StoreShape, Replayed
    <2>5. Underway'
      BY <1>3, <2>1 DEF Failure!Store, Failure!Return, Failure!StoreGoto, StoreShape, Underway
    <2> QED
      BY <2>2, <2>3, <2>4, <2>5
  <1>4. CASE Failure!AttemptsOver \/ UNCHANGED storeVars
    BY <1>4 DEF Failure!AttemptsOver, storeVars, Failure!storeVars, StoreShape, StoredByFirst, Replayed, Underway
  <1> QED
    BY <1>1, <1>2, <1>3, <1>4 DEF Failure!StoreNext

LEMMA StoreInvSuffices ==
    ASSUME StoreInv
    PROVE  Failure!StoreIsFinal
  BY DEF StoreInv, StoreShape, StoredByFirst, Replayed, Failure!StoreIsFinal, Failure!StoredWasExecuted,
         Failure!DeduplicatedAgree

\* From the first stored response on, all retries of a key are given that one response,
\* of a charge that happened (execute: the second look under the lock).
THEOREM StoredResponseStays == Failure!StoreSpec => []Failure!StoreIsFinal
  <1>1. Failure!StoreInit => StoreInv
    BY InitStoreInv
  <1>2. StoreInv /\ [Failure!StoreNext]_storeVars => StoreInv'
    BY StoreInvStep
  <1>3. StoreInv => Failure!StoreIsFinal
    BY StoreInvSuffices
  <1> QED
    BY <1>1, <1>2, <1>3, PTL DEF Failure!StoreSpec, Failure!storeVars, storeVars

-----------------------------------------------------------------------------
(* The pool's counters.  += reads and writes: whatever a thread has read or   *)
(* the pool holds of both counters adds up to at most the calls that are over. *)
Over(p) == Failure!CallsAt(p, {"release", "done"})
AboutTo(p, place) == {t \in Threads : pool[t] = p /\ at[t] = place}

BooksShape ==
    /\ read \in [Threads -> Nat]
    /\ completed \in [Pools -> Nat]
    /\ rejected \in [Pools -> Nat]

\* What completed can be next, and rejected.
SoFar(p) == {completed[p]} \cup {read[t] : t \in AboutTo(p, "complete+")}
Refused(p) == {rejected[p]} \cup {read[t] : t \in AboutTo(p, "reject+")}

Understated ==
    \A p \in Pools : \A c \in SoFar(p), r \in Refused(p) : c + r <= Cardinality(Over(p))

CompletedCounted ==
    \A p \in Pools, t \in Threads : pool[t] = p /\ at[t] = "release" => completed[p] > 0

BooksInv == PoolShape /\ BooksShape /\ Understated /\ CompletedCounted

LEMMA InitBooksInv ==
    ASSUME MaxThreads \in Nat, Failure!PoolInit
    PROVE  BooksInv
  <1>1. PoolShape /\ BooksShape /\ CompletedCounted
    BY DEF Failure!PoolInit, Failure!NewPools, PoolShape, Places, BooksShape, CompletedCounted
  <1>2. \A p \in Pools : Over(p) = {} /\ SoFar(p) = {0} /\ Refused(p) = {0}
    BY DEF Failure!PoolInit, Failure!NewPools, Over, AboutTo, SoFar, Refused, Failure!CallsAt
  <1>3. Understated
    BY <1>2, FS_EmptySet DEF Understated
  <1> QED
    BY <1>1, <1>3 DEF BooksInv

\* What a step does to the calls that are over and to the two counters.
LEMMA BooksInvStep ==
    ASSUME IsFiniteSet(Threads), MaxThreads \in Nat, BooksInv, [Failure!PoolNext]_poolVars
    PROVE  BooksInv'
  <1>0. PoolShape /\ BooksShape /\ Understated /\ CompletedCounted
    BY DEF BooksInv
  <1>1. PoolShape'
    <2>1. pool' = pool /\ at' \in [Threads -> Places]
      BY <1>0, PermitKinds
    <2>2. permits' \in [Pools -> Nat]
      BY <1>0, PermitKinds DEF PoolShape
    <2> QED
      BY <1>0, <2>1, <2>2 DEF PoolShape
  <1>2. \A p \in Pools : IsFiniteSet(Over(p)) /\ Cardinality(Over(p)) \in Nat
    <2>1. \A p \in Pools : Over(p) \subseteq Threads
      BY DEF Over, Failure!CallsAt
    <2> QED
      BY <2>1, FS_Subset, FS_CardinalityType
  \* A step after which no more calls are over than before takes no value into account anew.
  <1>3. ASSUME BooksShape', CompletedCounted', pool' = pool,
               \A p \in Pools : SoFar(p)' \subseteq SoFar(p) /\ Refused(p)' \subseteq Refused(p),
               \A p \in Pools : Over(p) \subseteq Over(p)' /\ Over(p)' \subseteq Threads
        PROVE  BooksInv'
    <2>1. ASSUME NEW p \in Pools, NEW c \in SoFar(p)', NEW r \in Refused(p)'
          PROVE  c + r <= Cardinality(Over(p)')
      <3>1. c + r <= Cardinality(Over(p))
        BY <1>0, <1>3 DEF Understated
      <3>2. IsFiniteSet(Over(p)')
        BY <1>3, FS_Subset
      <3>3. Cardinality(Over(p)) <= Cardinality(Over(p)') /\ Cardinality(Over(p)') \in Nat
        BY <1>3, <3>2, FS_Subset, FS_CardinalityType
      <3>4. c \in Nat /\ r \in Nat
        BY <1>0, <1>3 DEF SoFar, Refused, BooksShape, AboutTo
      <3> QED
        BY <1>2, <3>1, <3>3, <3>4
    <2> QED
      BY <1>1, <1>3, <2>1 DEF BooksInv, Understated
  \* A step that counts a call has seen it end.
  <1>4. ASSUME NEW t \in Threads, BooksShape', CompletedCounted', pool' = pool,
               at[t] \in {"complete+", "reject+"}, at'[t] \in {"release", "done"},
               \A u \in Threads \ {t} : at'[u] = at[u], read' = read,
               \/ /\ at[t] = "complete+" /\ rejected' = rejected
                  /\ completed' = [completed EXCEPT ![pool[t]] = read[t] + 1]
               \/ /\ at[t] = "reject+" /\ completed' = completed
                  /\ rejected' = [rejected EXCEPT ![pool[t]] = read[t] + 1]
        PROVE  BooksInv'
    <2>0. pool[t] \in Pools /\ at \in [Threads -> Places] /\ at' \in [Threads -> Places]
      BY <1>0, <1>1 DEF PoolShape
    <2>1. ASSUME NEW p \in Pools, NEW c \in SoFar(p)', NEW r \in Refused(p)'
          PROVE  c + r <= Cardinality(Over(p)')
      <3>1. CASE p # pool[t]
        <4>1. Over(p)' = Over(p) /\ SoFar(p)' = SoFar(p) /\ Refused(p)' = Refused(p)
          BY <1>0, <1>4, <2>0, <3>1 DEF Over, Failure!CallsAt, SoFar, Refused, AboutTo, BooksShape
        <4> QED
          BY <1>0, <4>1 DEF Understated
      <3>2. CASE p = pool[t]
        <4>1. Over(p)' = Over(p) \cup {t} /\ t \notin Over(p)
          BY <1>0, <1>4, <2>0, <3>2 DEF Over, Failure!CallsAt
        <4>2. Cardinality(Over(p)') = Cardinality(Over(p)) + 1
          BY <1>2, <4>1, FS_AddElement
        <4>3. /\ \E c0 \in SoFar(p) : c \in {c0, c0 + 1} /\ (at[t] = "reject+" => c = c0)
              /\ \E r0 \in Refused(p) : r \in {r0, r0 + 1} /\ (at[t] = "complete+" => r = r0)
          <5>1. CASE at[t] = "complete+"
            <6>1. read[t] \in SoFar(p) /\ Refused(p)' \subseteq Refused(p)
              BY <1>0, <1>4, <2>0, <3>2, <5>1 DEF SoFar, Refused, AboutTo, BooksShape
            <6>2. c \in SoFar(p) \/ c = read[t] + 1
              BY <1>0, <1>4, <2>0, <3>2, <5>1 DEF SoFar, AboutTo, BooksShape
            <6> QED
              BY <5>1, <6>1, <6>2
          <5>2. CASE at[t] = "reject+"
            <6>1. read[t] \in Refused(p) /\ SoFar(p)' \subseteq SoFar(p)
              BY <1>0, <1>4, <2>0, <3>2, <5>2 DEF SoFar, Refused, AboutTo, BooksShape
            <6>2. r \in Refused(p) \/ r = read[t] + 1
              BY <1>0, <1>4, <2>0, <3>2, <5>2 DEF Refused, AboutTo, BooksShape
            <6> QED
              BY <5>2, <6>1, <6>2
          <5> QED
            BY <1>4, <5>1, <5>2
        <4>4. \A c0 \in SoFar(p), r0 \in Refused(p) :
                c0 \in Nat /\ r0 \in Nat /\ c0 + r0 <= Cardinality(Over(p))
          BY <1>0 DEF SoFar, Refused, BooksShape, AboutTo, Understated
        <4> QED
          BY <1>2, <1>4, <4>2, <4>3, <4>4
      <3> QED
        BY <3>1, <3>2
    <2> QED
      BY <1>1, <1>4, <2>1 DEF BooksInv, Understated
  <1>5. ASSUME NEW t \in Threads,
               \/ Failure!Acquire(t) \/ Failure!FnReturns(t) \/ Failure!FnRaises(t) \/ Failure!Release(t)
               \/ Failure!ReadRejected(t) \/ Failure!ReadCompleted(t)
        PROVE  BooksInv'
    <2> USE DEF Failure!Acquire, Failure!FnReturns, Failure!FnRaises, Failure!Release,
                Failure!ReadRejected, Failure!ReadCompleted, Failure!Step, Failure!PoolGoto
    <2>0. /\ pool \in [Threads -> Pools] /\ at \in [Threads -> Places] /\ read \in [Threads -> Nat]
          /\ completed \in [Pools -> Nat] /\ rejected \in [Pools -> Nat]
      BY <1>0 DEF PoolShape, BooksShape
    <2>1. /\ pool' = pool /\ completed' = completed /\ rejected' = rejected
          /\ \A u \in Threads \ {t} : at'[u] = at[u] /\ read'[u] = read[u]
          /\ at'[t] # "release"
          /\ at[t] \in {"release", "done"} => at'[t] = "done"
          /\ at'[t] = "complete+" => read'[t] = completed[pool[t]]
          /\ at'[t] = "reject+" => read'[t] = rejected[pool[t]]
      BY <1>5, <2>0 DEF Places
    <2>2. read' \in [Threads -> Nat]
      BY <1>5, <2>0
    <2>3. BooksShape' /\ CompletedCounted'
      BY <1>0, <2>0, <2>1, <2>2 DEF BooksShape, CompletedCounted
    <2>4. \A p \in Pools : SoFar(p)' \subseteq SoFar(p) /\ Refused(p)' \subseteq Refused(p)
      BY <2>0, <2>1 DEF SoFar, Refused, AboutTo
    <2>5. \A p \in Pools : Over(p) \subseteq Over(p)' /\ Over(p)' \subseteq Threads
      BY <2>0, <2>1 DEF Over, Failure!CallsAt
    <2> QED
      BY <1>3, <2>1, <2>3, <2>4, <2>5
  <1>6. ASSUME NEW t \in Threads, Failure!WriteRejected(t) \/ Failure!WriteCompleted(t)
        PROVE  BooksInv'
    <2> USE DEF Failure!WriteRejected, Failure!WriteCompleted, Failure!Step, Failure!PoolGoto
    <2>0. /\ pool \in [Threads -> Pools] /\ at \in [Threads -> Places] /\ read \in [Threads -> Nat]
          /\ completed \in [Pools -> Nat] /\ rejected \in [Pools -> Nat]
      BY <1>0 DEF PoolShape, BooksShape
    <2>1. /\ pool' = pool /\ read' = read
          /\ at[t] \in {"complete+", "reject+"} /\ at'[t] \in {"release", "done"}
          /\ \A u \in Threads \ {t} : at'[u] = at[u]
      BY <1>6, <2>0
    <2>2. \/ /\ at[t] = "complete+" /\ rejected' = rejected
             /\ completed' = [completed EXCEPT ![pool[t]] = read[t] + 1]
          \/ /\ at[t] = "reject+" /\ completed' = completed /\ at'[t] = "done"
             /\ rejected' = [rejected EXCEPT ![pool[t]] = read[t] + 1]
      BY <1>6, <2>0
    <2>3. BooksShape'
      BY <2>0, <2>1, <2>2 DEF BooksShape
    <2>4. CompletedCounted'
      BY <1>0, <2>0, <2>1, <2>2 DEF CompletedCounted
    <2> QED
      BY <1>4, <2>1, <2>2, <2>3, <2>4
  <1>7. CASE Failure!CallsReturned \/ UNCHANGED poolVars
    <2>1. UNCHANGED poolVars
      BY <1>7 DEF Failure!CallsReturned, Failure!poolVars, poolVars
    <2> QED
      BY <1>0, <1>1, <2>1 DEF poolVars, BooksInv, BooksShape, Understated, CompletedCounted, Over, AboutTo,
         SoFar, Refused, Failure!CallsAt
  <1> QED
    BY <1>5, <1>6, <1>7 DEF Failure!PoolNext, Failure!Submit

LEMMA BooksInvSuffices ==
    ASSUME BooksInv
    PROVE  Failure!CountersUnderstate
  <1>1. \A p \in Pools : completed[p] + rejected[p] <= Cardinality(Over(p))
    BY DEF BooksInv, Understated, SoFar, Refused
  <1>2. \A p \in Pools : Failure!CallsAt(p, {"release"}) # {} => completed[p] > 0
    BY DEF BooksInv, CompletedCounted, Failure!CallsAt
  <1> QED
    BY <1>1, <1>2, SameSize DEF Failure!CountersUnderstate, Over

-----------------------------------------------------------------------------
(***************************************************************************)
(* The API lab.  A key that is not excused has at most one request under   *)
(* way, and a payment of it is either what its key stores or what that     *)
(* request is about to store; what a key stores names a payment.  While a  *)
(* query meets nothing, the count its resolver has read is still the count.*)
(***************************************************************************)
PaySet == [pc : {"idle", "processing", "store"}, key : PayKeys \cup {Api!NoKey}, id : Nat]
PaymentSet == [key : PayKeys \cup {Api!NoKey}, id : Nat]
Paid == {payments[i] : i \in 1..Len(payments)}

ApiShape ==
  /\ pay \in [PayRequests -> PaySet]
  /\ millis \in Nat /\ millis > 0
  /\ keyStore \in [PayKeys -> Nat]
  /\ payments \in Seq(PaymentSet)

Serving(p, k) == pay[p].pc # "idle" /\ pay[p].key = k
IsOf(i, k) == i \in 1..Len(payments) /\ payments[i].key = k

\* A key that is not excused is charged by one request at a time, and once.
ChargedOnce ==
  \A k \in PayKeys \ excused :
    /\ \A p, q \in PayRequests : Serving(p, k) /\ Serving(q, k) => p = q
    /\ \A i, j \in Nat : IsOf(i, k) /\ IsOf(j, k) => i = j
    /\ \A i \in Nat : IsOf(i, k) =>
         \/ keyStore[k] # 0
         \/ \E p \in PayRequests : Serving(p, k) /\ pay[p].pc = "store"
    /\ \A p \in PayRequests : Serving(p, k) => keyStore[k] = 0

\* What is stored, about to be stored or replayed is a payment that was made.
AnswersPaid ==
  /\ \A k \in PayKeys : keyStore[k] # 0 => [key |-> k, id |-> keyStore[k]] \in Paid
  /\ \A p \in PayRequests : pay[p].pc = "store" =>
       pay[p].id > 0 /\ [key |-> pay[p].key, id |-> pay[p].id] \in Paid
  /\ replayed \subseteq Paid

PayInv == ApiShape /\ ChargedOnce /\ AnswersPaid

\* The calls in the counter that no answer has taken yet.
Unread == IF statsCopy = <<>> THEN resolverCalls ELSE statsCopy[1]

Resolving(q) == resolving[q] # {}

StatsShape ==
  /\ resolverCalls \in Nat /\ statsSum \in Nat /\ fired \in Nat /\ crowded \in BOOLEAN
  /\ statsCopy # <<>> => statsCopy[1] \in Nat
  /\ adding \in [GraphQueries -> Int] /\ resolving \in [GraphQueries -> SUBSET ApiUsers]
  /\ \A q \in GraphQueries : adding[q] # Api!NotAdding => Resolving(q) /\ adding[q] \in Nat

\* As long as nothing meets, one query runs, what it has read is still the count,
\* nobody is reading the statistics meanwhile, and no call is missing from them.
Alone ==
  /\ \A q, o \in GraphQueries : Resolving(q) /\ Resolving(o) => q = o
  /\ \A q \in GraphQueries : adding[q] # Api!NotAdding => adding[q] = resolverCalls
  /\ statsCopy # <<>> => \A q \in GraphQueries : ~Resolving(q)
  /\ statsSum + Unread = fired

StatsInv == StatsShape /\ (~crowded => Alone)

ClientInv ==
  /\ client \in [requests : Nat, todo : SUBSET ApiUsers]
  /\ client.requests = 0 => client.todo = {}
  /\ client.requests > 0 =>
       client.requests + Cardinality(client.todo) = 1 + Cardinality(ApiUsers)

ApiInv == PayInv /\ StatsInv /\ ClientInv

LEMMA ApiInvInit ==
    ASSUME ApiAssumed, Api!Init
    PROVE  ApiInv
  <1> USE DEF Api!Init
  <1>1. payments \in Seq(PaymentSet) /\ Len(payments) = 0 /\ \A i, k : ~IsOf(i, k)
    BY DEF IsOf
  <1>2. ApiShape
    BY <1>1 DEF ApiShape, PaySet
  <1>3. ChargedOnce
    BY <1>1 DEF ChargedOnce, Serving
  <1>4. AnswersPaid
    BY DEF AnswersPaid
  <1>5. StatsInv
    <2>1. /\ resolving = [q \in GraphQueries |-> {}] /\ adding = [q \in GraphQueries |-> Api!NotAdding]
          /\ resolverCalls = 0 /\ statsSum = 0 /\ fired = 0 /\ crowded = FALSE /\ statsCopy = <<>>
      OBVIOUS
    <2>2. Api!NotAdding \in Int
      BY DEF Api!NotAdding
    <2>3. \A q \in GraphQueries : resolving[q] = {} /\ adding[q] = Api!NotAdding
      BY <2>1
    <2>4. StatsShape
      <3>1. adding \in [GraphQueries -> Int] /\ resolving \in [GraphQueries -> SUBSET ApiUsers]
        BY <2>1, <2>2
      <3>2. crowded \in BOOLEAN
        BY <2>1, Zenon
      <3>3. resolverCalls \in Nat /\ statsSum \in Nat /\ fired \in Nat
        BY <2>1
      <3> QED
        BY <2>1, <2>3, <3>1, <3>2, <3>3, Zenon DEF StatsShape
    <2>5. Alone
      BY <2>1, <2>3 DEF Alone, Unread, Resolving
    <2> QED
      BY <2>4, <2>5 DEF StatsInv
  <1>6. ClientInv
    BY DEF ClientInv
  <1> QED
    BY <1>2, <1>3, <1>4, <1>5, <1>6 DEF ApiInv, PayInv

\* One more payment: it is of its own key, and what was paid stays paid.
LEMMA PaymentAppended ==
    ASSUME payments \in Seq(PaymentSet), NEW e \in PaymentSet, payments' = Append(payments, e)
    PROVE  /\ payments' \in Seq(PaymentSet) /\ Paid \subseteq Paid' /\ e \in Paid'
           /\ \A i \in Nat, k \in PayKeys :
                IsOf(i, k)' <=> IsOf(i, k) \/ (i = Len(payments) + 1 /\ e.key = k)
  <1>1. /\ Len(payments) \in Nat /\ payments' \in Seq(PaymentSet) /\ Len(payments') = Len(payments) + 1
        /\ payments'[Len(payments) + 1] = e
        /\ \A i \in 1..Len(payments) : payments'[i] = payments[i]
    OBVIOUS
  <1>2. Paid \subseteq Paid' /\ e \in Paid'
    BY <1>1 DEF Paid
  <1>3. \A i \in Nat, k \in PayKeys :
          IsOf(i, k)' <=> IsOf(i, k) \/ (i = Len(payments) + 1 /\ e.key = k)
    BY <1>1 DEF IsOf
  <1> QED
    BY <1>1, <1>2, <1>3

LEMMA PayInvStep ==
    ASSUME ApiAssumed, PayInv, Api!Tick \/ Api!PaymentAttempts
    PROVE  PayInv'
  <1>0. /\ ApiShape /\ ChargedOnce /\ AnswersPaid /\ pay \in [PayRequests -> PaySet] /\ millis \in Nat
        /\ millis > 0 /\ keyStore \in [PayKeys -> Nat] /\ payments \in Seq(PaymentSet)
        /\ Api!NoKey \notin PayKeys
    BY DEF PayInv, ApiShape, ApiAssumed
  <1>1. CASE Api!Tick
    <2>1. millis' = millis + 1 /\ UNCHANGED <<pay, keyStore, payments, replayed, excused>>
      BY <1>1 DEF Api!Tick
    <2>2. ApiShape'
      BY <1>0, <2>1 DEF ApiShape
    <2>3. ChargedOnce' /\ AnswersPaid'
      BY <1>0, <2>1 DEF ChargedOnce, AnswersPaid, Serving, IsOf, Paid
    <2> QED
      BY <2>2, <2>3 DEF PayInv
  <1>2. ASSUME NEW p \in PayRequests, NEW k \in PayKeys \cup {Api!NoKey}, Api!ReceivePayment(p, k)
        PROVE  PayInv'
    <2>1. /\ pay[p].pc = "idle" /\ UNCHANGED <<millis, keyStore, payments>>
      BY <1>2 DEF Api!ReceivePayment
    <2>2. CASE k # Api!NoKey /\ keyStore[k] # 0
      <3>1. replayed' = replayed \cup {[key |-> k, id |-> keyStore[k]]} /\ UNCHANGED <<pay, excused>>
        BY <1>2, <2>2 DEF Api!ReceivePayment
      <3>2. ApiShape' /\ ChargedOnce'
        BY <1>0, <2>1, <3>1 DEF ApiShape, ChargedOnce, Serving, IsOf
      <3>3. AnswersPaid'
        BY <1>0, <2>1, <2>2, <3>1 DEF AnswersPaid, Paid
      <3> QED
        BY <3>2, <3>3 DEF PayInv
    <2>3. CASE ~(k # Api!NoKey /\ keyStore[k] # 0)
      <3>1. /\ pay' = [pay EXCEPT ![p] = [pc |-> "processing", key |-> k, id |-> 0]]
            /\ excused' = IF \E o \in PayRequests : pay[o].pc # "idle" /\ pay[o].key = k
                          THEN excused \cup {k} ELSE excused
            /\ UNCHANGED replayed
        BY <1>2, <2>3 DEF Api!ReceivePayment
      <3>2. ApiShape'
        BY <1>0, <2>1, <3>1 DEF ApiShape, PaySet
      <3>3. AnswersPaid'
        BY <1>0, <2>1, <3>1 DEF AnswersPaid, Paid
      <3>4. excused \subseteq excused' /\ \A h \in PayRequests \ {p} : pay'[h] = pay[h]
        BY <1>0, <3>1
      <3>5. pay'[p].pc = "processing" /\ pay'[p].key = k
        BY <1>0, <3>1
      <3>6. ASSUME NEW l \in PayKeys \ excused'
            PROVE  /\ \A h, q \in PayRequests : Serving(h, l)' /\ Serving(q, l)' => h = q
                   /\ \A i, j \in Nat : IsOf(i, l)' /\ IsOf(j, l)' => i = j
                   /\ \A i \in Nat : IsOf(i, l)' =>
                        \/ keyStore'[l] # 0
                        \/ \E h \in PayRequests : Serving(h, l)' /\ pay'[h].pc = "store"
                   /\ \A h \in PayRequests : Serving(h, l)' => keyStore'[l] = 0
        <4>1. /\ \A h, q \in PayRequests : Serving(h, l) /\ Serving(q, l) => h = q
              /\ \A i, j \in Nat : IsOf(i, l) /\ IsOf(j, l) => i = j
              /\ \A i \in Nat : IsOf(i, l) =>
                   \/ keyStore[l] # 0
                   \/ \E h \in PayRequests : Serving(h, l) /\ pay[h].pc = "store"
              /\ \A h \in PayRequests : Serving(h, l) => keyStore[l] = 0
          BY <1>0, <3>4 DEF ChargedOnce
        <4>2. \A i \in Nat : IsOf(i, l)' <=> IsOf(i, l)
          BY <2>1 DEF IsOf
        <4>3. CASE l # k
          <5>1. \A h \in PayRequests : Serving(h, l)' <=> Serving(h, l)
            BY <2>1, <3>4, <3>5, <4>3 DEF Serving
          <5>2. \A h \in PayRequests : Serving(h, l) => pay'[h] = pay[h]
            BY <2>1, <3>4 DEF Serving
          <5> QED
            BY <2>1, <4>1, <4>2, <5>1, <5>2
        <4>4. CASE l = k
          <5>1. \A h \in PayRequests : ~Serving(h, l)
            BY <3>1, <4>4 DEF Serving
          <5>2. \A h \in PayRequests : Serving(h, l)' => h = p
            BY <3>4, <5>1 DEF Serving
          <5>3. keyStore[l] = 0 /\ \A i \in Nat : ~IsOf(i, l)
            BY <1>0, <2>3, <4>1, <4>4, <5>1
          <5> QED
            BY <2>1, <4>2, <5>2, <5>3
        <4> QED
          BY <4>3, <4>4
      <3>7. ChargedOnce'
        BY <3>6 DEF ChargedOnce
      <3> QED
        BY <3>2, <3>3, <3>7 DEF PayInv
    <2> QED
      BY <2>2, <2>3
  <1>3. ASSUME NEW p \in PayRequests, Api!ProcessPayment(p)
        PROVE  PayInv'
    <2> DEFINE e == [key |-> pay[p].key, id |-> millis]
    <2>1. /\ pay[p].pc = "processing" /\ payments' = Append(payments, e)
          /\ pay' = [pay EXCEPT ![p].pc = "store", ![p].id = millis]
          /\ UNCHANGED <<millis, keyStore, replayed, excused>>
      BY <1>3 DEF Api!ProcessPayment
    <2>2. e \in PaymentSet
      BY <1>0 DEF PaymentSet, PaySet
    <2> HIDE DEF e
    <2>3. /\ payments' \in Seq(PaymentSet) /\ Paid \subseteq Paid' /\ e \in Paid'
          /\ \A i \in Nat, k \in PayKeys :
               IsOf(i, k)' <=> IsOf(i, k) \/ (i = Len(payments) + 1 /\ e.key = k)
      BY <1>0, <2>1, <2>2, PaymentAppended
    <2>4. /\ pay' \in [PayRequests -> PaySet] /\ pay'[p].pc = "store" /\ pay'[p].id = millis
          /\ pay'[p].key = pay[p].key /\ \A h \in PayRequests \ {p} : pay'[h] = pay[h]
      BY <1>0, <2>1 DEF PaySet
    <2>5. e.key = pay[p].key /\ [key |-> pay'[p].key, id |-> pay'[p].id] = e
      BY <2>4 DEF e
    <2>6. ApiShape'
      BY <1>0, <2>1, <2>3, <2>4 DEF ApiShape
    <2>7. AnswersPaid'
      BY <1>0, <2>1, <2>3, <2>4, <2>5 DEF AnswersPaid
    <2>8. \A h \in PayRequests, k \in PayKeys : Serving(h, k)' <=> Serving(h, k)
      BY <2>1, <2>4 DEF Serving
    <2>9. ASSUME NEW k \in PayKeys \ excused
          PROVE  /\ \A h, q \in PayRequests : Serving(h, k)' /\ Serving(q, k)' => h = q
                 /\ \A i, j \in Nat : IsOf(i, k)' /\ IsOf(j, k)' => i = j
                 /\ \A i \in Nat : IsOf(i, k)' =>
                      \/ keyStore[k] # 0
                      \/ \E h \in PayRequests : Serving(h, k)' /\ pay'[h].pc = "store"
                 /\ \A h \in PayRequests : Serving(h, k)' => keyStore[k] = 0
      <3>1. /\ \A h, q \in PayRequests : Serving(h, k) /\ Serving(q, k) => h = q
            /\ \A i, j \in Nat : IsOf(i, k) /\ IsOf(j, k) => i = j
            /\ \A i \in Nat : IsOf(i, k) =>
                 \/ keyStore[k] # 0
                 \/ \E h \in PayRequests : Serving(h, k) /\ pay[h].pc = "store"
            /\ \A h \in PayRequests : Serving(h, k) => keyStore[k] = 0
        BY <1>0 DEF ChargedOnce
      <3>2. CASE pay[p].key # k
        <4>1. \A i \in Nat : IsOf(i, k)' <=> IsOf(i, k)
          BY <2>3, <2>5, <3>2
        <4>2. \A h \in PayRequests : Serving(h, k) => pay'[h] = pay[h]
          BY <2>4, <3>2 DEF Serving
        <4> QED
          BY <2>8, <3>1, <4>1, <4>2
      <3>3. CASE pay[p].key = k
        <4>1. Serving(p, k) /\ Serving(p, k)'
          BY <2>1, <2>8, <3>3 DEF Serving
        <4>2. \A i \in Nat : ~IsOf(i, k)
          BY <2>1, <3>1, <4>1
        <4>3. \A i \in Nat : IsOf(i, k)' => i = Len(payments) + 1
          BY <2>3, <4>2
        <4> QED
          BY <2>4, <2>8, <3>1, <4>1, <4>3
      <3> QED
        BY <3>2, <3>3
    <2>10. ChargedOnce'
      BY <2>1, <2>9 DEF ChargedOnce
    <2> QED
      BY <2>6, <2>7, <2>10 DEF PayInv
  <1>4. ASSUME NEW p \in PayRequests, Api!StoreAndAnswer(p) \/ Api!DieBeforeStore(p)
        PROVE  PayInv'
    <2>1. /\ pay[p].pc = "store" /\ pay' = [pay EXCEPT ![p].pc = "idle", ![p].key = Api!NoKey]
          /\ UNCHANGED <<millis, payments, replayed>>
          /\ excused \subseteq excused'
      BY <1>4 DEF Api!StoreAndAnswer, Api!DieBeforeStore
    <2>2. /\ keyStore' \in [PayKeys -> Nat]
          /\ \A k \in PayKeys : pay[p].key # k => keyStore'[k] = keyStore[k]
          /\ \A k \in PayKeys : pay[p].key = k => k \in excused' \/ keyStore'[k] = pay[p].id
          /\ \A k \in PayKeys : keyStore'[k] = keyStore[k] \/ (pay[p].key = k /\ keyStore'[k] = pay[p].id)
      BY <1>0, <1>4 DEF Api!StoreAndAnswer, Api!DieBeforeStore, PaySet
    <2>3. /\ pay' \in [PayRequests -> PaySet] /\ pay'[p].pc = "idle"
          /\ \A h \in PayRequests \ {p} : pay'[h] = pay[h]
      BY <1>0, <2>1 DEF PaySet
    <2>4. ApiShape'
      BY <1>0, <2>1, <2>2, <2>3 DEF ApiShape
    <2>5. AnswersPaid'
      <3>1. Paid' = Paid /\ replayed' = replayed
        BY <2>1 DEF Paid
      <3>2. /\ \A k \in PayKeys : keyStore[k] # 0 => [key |-> k, id |-> keyStore[k]] \in Paid
            /\ pay[p].id > 0 /\ [key |-> pay[p].key, id |-> pay[p].id] \in Paid
        BY <1>0, <2>1 DEF AnswersPaid
      <3>3. \A k \in PayKeys : keyStore'[k] # 0 => [key |-> k, id |-> keyStore'[k]] \in Paid
        BY <2>2, <3>2
      <3>4. \A h \in PayRequests : pay'[h].pc = "store" =>
              pay'[h].id > 0 /\ [key |-> pay'[h].key, id |-> pay'[h].id] \in Paid
        BY <1>0, <2>3 DEF AnswersPaid
      <3> QED
        BY <1>0, <3>1, <3>3, <3>4 DEF AnswersPaid
    <2>6. ASSUME NEW k \in PayKeys \ excused'
          PROVE  /\ \A h, q \in PayRequests : Serving(h, k)' /\ Serving(q, k)' => h = q
                 /\ \A i, j \in Nat : IsOf(i, k)' /\ IsOf(j, k)' => i = j
                 /\ \A i \in Nat : IsOf(i, k)' =>
                      \/ keyStore'[k] # 0
                      \/ \E h \in PayRequests : Serving(h, k)' /\ pay'[h].pc = "store"
                 /\ \A h \in PayRequests : Serving(h, k)' => keyStore'[k] = 0
      <3>1. /\ \A h, q \in PayRequests : Serving(h, k) /\ Serving(q, k) => h = q
            /\ \A i, j \in Nat : IsOf(i, k) /\ IsOf(j, k) => i = j
            /\ \A i \in Nat : IsOf(i, k) =>
                 \/ keyStore[k] # 0
                 \/ \E h \in PayRequests : Serving(h, k) /\ pay[h].pc = "store"
            /\ \A h \in PayRequests : Serving(h, k) => keyStore[k] = 0
        BY <1>0, <2>1 DEF ChargedOnce
      <3>2. \A i \in Nat : IsOf(i, k)' <=> IsOf(i, k)
        BY <2>1 DEF IsOf
      <3>3. \A h \in PayRequests : Serving(h, k)' <=> Serving(h, k) /\ h # p
        BY <2>3 DEF Serving
      <3>4. CASE pay[p].key # k
        <4>1. \A h \in PayRequests : Serving(h, k) => h # p /\ pay'[h] = pay[h]
          BY <2>3, <3>4 DEF Serving
        <4> QED
          BY <2>2, <3>1, <3>2, <3>3, <3>4, <4>1
      <3>5. CASE pay[p].key = k
        <4>1. Serving(p, k) /\ keyStore'[k] = pay[p].id /\ pay[p].id > 0 /\ pay[p].id \in Nat
          BY <1>0, <2>1, <2>2, <3>5 DEF Serving, AnswersPaid, PaySet
        <4>2. \A h \in PayRequests : ~Serving(h, k)'
          BY <3>1, <3>3, <4>1
        <4> QED
          BY <3>1, <3>2, <4>1, <4>2
      <3> QED
        BY <3>4, <3>5
    <2>7. ChargedOnce'
      BY <2>6 DEF ChargedOnce
    <2> QED
      BY <2>4, <2>5, <2>7 DEF PayInv
  <1>5. ASSUME NEW k \in PayKeys, Api!ExpireKey(k)
        PROVE  PayInv'
    <2>1. /\ keyStore' = [keyStore EXCEPT ![k] = 0] /\ excused' = excused \cup {k}
          /\ UNCHANGED <<pay, millis, payments, replayed>>
      BY <1>5 DEF Api!ExpireKey
    <2>2. ApiShape' /\ AnswersPaid'
      BY <1>0, <2>1 DEF ApiShape, AnswersPaid, Paid
    <2>3. \A l \in PayKeys \ excused' : l \in PayKeys \ excused /\ keyStore'[l] = keyStore[l]
      BY <1>0, <2>1
    <2>4. ChargedOnce'
      BY <1>0, <2>1, <2>3 DEF ChargedOnce, Serving, IsOf
    <2> QED
      BY <2>2, <2>4 DEF PayInv
  <1> QED
    BY <1>1, <1>2, <1>3, <1>4, <1>5 DEF Api!PaymentAttempts

LEMMA StatsInvStep ==
    ASSUME StatsInv, Api!GraphQlQuery
    PROVE  StatsInv'
  <1>0. StatsShape /\ (~crowded => Alone)
    BY DEF StatsInv
  <1> USE DEF Resolving
  <1>1. ASSUME NEW q \in GraphQueries, Api!StartQuery(q) PROVE StatsInv'
    <2>1. /\ resolving[q] = {} /\ resolving' = [resolving EXCEPT ![q] = ApiUsers]
          /\ crowded' = (crowded \/ statsCopy # <<>> \/ \E o \in GraphQueries : resolving[o] # {})
          /\ UNCHANGED <<resolverCalls, adding, statsCopy, statsSum, fired>>
      BY <1>1 DEF Api!StartQuery
    <2>2. StatsShape'
      BY <1>0, <2>1 DEF StatsShape
    <2>3. ASSUME ~crowded' PROVE Alone'
      <3>1. Alone /\ statsCopy = <<>> /\ \A o \in GraphQueries : resolving[o] = {}
        BY <1>0, <2>1, <2>3
      <3>2. \A o \in GraphQueries : o # q => resolving'[o] = {}
        BY <1>0, <2>1, <3>1 DEF StatsShape
      <3> QED
        BY <2>1, <3>1, <3>2 DEF Alone, Unread
    <2> QED
      BY <2>2, <2>3 DEF StatsInv
  <1>2. ASSUME NEW q \in GraphQueries, Api!ReadCalls(q) PROVE StatsInv'
    <2>1. /\ resolving[q] # {} /\ adding' = [adding EXCEPT ![q] = resolverCalls]
          /\ UNCHANGED <<resolving, resolverCalls, statsCopy, statsSum, fired, crowded>>
      BY <1>2 DEF Api!ReadCalls
    <2>2. StatsShape'
      BY <1>0, <2>1 DEF StatsShape
    <2>3. Alone => Alone'
      BY <1>0, <2>1 DEF StatsShape, Alone, Unread
    <2> QED
      BY <1>0, <2>1, <2>2, <2>3 DEF StatsInv
  <1>3. ASSUME NEW q \in GraphQueries, NEW u \in ApiUsers, Api!ResolvePosts(q, u) PROVE StatsInv'
    <2>1. /\ u \in resolving[q] /\ adding[q] # Api!NotAdding
          /\ resolving' = [resolving EXCEPT ![q] = resolving[q] \ {u}]
          /\ resolverCalls' = adding[q] + 1 /\ adding' = [adding EXCEPT ![q] = Api!NotAdding]
          /\ fired' = fired + 1 /\ UNCHANGED <<statsCopy, statsSum, crowded>>
      BY <1>3 DEF Api!ResolvePosts
    <2>2. Api!NotAdding \in Int
      BY DEF Api!NotAdding
    <2>3. StatsShape'
      BY <1>0, <2>1, <2>2 DEF StatsShape
    <2>4. ASSUME Alone PROVE Alone'
      <3>1. /\ adding[q] = resolverCalls /\ statsCopy = <<>> /\ statsSum + resolverCalls = fired
            /\ \A o \in GraphQueries : o # q => resolving[o] = {} /\ adding[o] = Api!NotAdding
        BY <1>0, <2>1, <2>4 DEF StatsShape, Alone, Unread
      <3>2. \A o \in GraphQueries : (o # q => resolving'[o] = {}) /\ adding'[o] = Api!NotAdding
        BY <1>0, <2>1, <2>2, <3>1 DEF StatsShape
      <3>3. statsSum' + resolverCalls' = fired' /\ statsCopy' = <<>>
        BY <1>0, <2>1, <3>1 DEF StatsShape
      <3> QED
        BY <3>2, <3>3 DEF Alone, Unread
    <2> QED
      BY <1>0, <2>1, <2>3, <2>4 DEF StatsInv
  <1>4. CASE Api!CopyStats
    <2>1. /\ statsCopy = <<>> /\ statsCopy' = <<resolverCalls>>
          /\ crowded' = (crowded \/ \E q \in GraphQueries : resolving[q] # {})
          /\ UNCHANGED <<resolving, resolverCalls, adding, statsSum, fired>>
      BY <1>4 DEF Api!CopyStats
    <2>2. StatsShape'
      BY <1>0, <2>1 DEF StatsShape
    <2>3. ~crowded' => Alone'
      BY <1>0, <2>1 DEF Alone, Unread
    <2> QED
      BY <2>2, <2>3 DEF StatsInv
  <1>5. CASE Api!ResetStats
    <2>1. /\ statsCopy # <<>> /\ statsCopy' = <<>> /\ resolverCalls' = 0
          /\ statsSum' = statsSum + statsCopy[1] /\ UNCHANGED <<resolving, adding, fired, crowded>>
      BY <1>5 DEF Api!ResetStats
    <2>2. StatsShape'
      BY <1>0, <2>1 DEF StatsShape
    <2>3. ASSUME Alone PROVE Alone'
      <3>1. \A q \in GraphQueries : resolving[q] = {} /\ adding[q] = Api!NotAdding
        BY <1>0, <2>1, <2>3 DEF StatsShape, Alone
      <3>2. statsSum' + resolverCalls' = fired'
        BY <1>0, <2>1, <2>3 DEF StatsShape, Alone, Unread
      <3> QED
        BY <2>1, <3>1, <3>2 DEF Alone, Unread
    <2> QED
      BY <1>0, <2>1, <2>2, <2>3 DEF StatsInv
  <1> QED
    BY <1>1, <1>2, <1>3, <1>4, <1>5 DEF Api!GraphQlQuery

LEMMA ApiInvStep ==
    ASSUME ApiAssumed, ApiInv, Api!Next \/ UNCHANGED apiVars
    PROVE  ApiInv'
  <1>0. PayInv /\ StatsInv /\ ClientInv
    BY DEF ApiInv
  <1>1. UNCHANGED <<pay, millis, keyStore, payments, replayed, excused>> => PayInv'
    BY <1>0 DEF PayInv, ApiShape, ChargedOnce, AnswersPaid, Serving, IsOf, Paid
  <1>2. UNCHANGED <<resolving, resolverCalls, adding, statsCopy, statsSum, fired, crowded>> => StatsInv'
    BY <1>0 DEF StatsInv, StatsShape, Alone, Resolving, Unread
  <1>3. UNCHANGED client => ClientInv'
    BY <1>0 DEF ClientInv
  <1>4. CASE Api!Tick \/ Api!PaymentAttempts
    <2>1. UNCHANGED <<resolving, resolverCalls, adding, statsCopy, statsSum, fired, crowded>> /\ UNCHANGED client
      BY <1>4 DEF Api!Tick, Api!PaymentAttempts, Api!ReceivePayment, Api!ProcessPayment,
         Api!StoreAndAnswer, Api!DieBeforeStore, Api!ExpireKey, Api!gqlVars
    <2> QED
      BY <1>0, <1>2, <1>3, <1>4, <2>1, PayInvStep DEF ApiInv
  <1>5. CASE Api!GraphQlQuery
    <2>1. UNCHANGED <<pay, millis, keyStore, payments, replayed, excused>> /\ UNCHANGED client
      BY <1>5 DEF Api!GraphQlQuery, Api!StartQuery, Api!ReadCalls, Api!ResolvePosts, Api!CopyStats,
         Api!ResetStats, Api!payVars
    <2>6. StatsInv'
      BY <1>0, <1>5, StatsInvStep
    <2> QED
      BY <1>1, <1>3, <2>1, <2>6 DEF ApiInv
  <1>6. CASE Api!RestRequests
    <2>1. /\ UNCHANGED <<pay, millis, keyStore, payments, replayed, excused>>
          /\ UNCHANGED <<resolving, resolverCalls, adding, statsCopy, statsSum, fired, crowded>>
      BY <1>6 DEF Api!RestRequests, Api!GetUsers, Api!GetUserPosts, Api!payVars, Api!gqlVars
    <2>2. Cardinality(ApiUsers) \in Nat
      BY FS_CardinalityType DEF ApiAssumed
    <2>3. ASSUME Api!GetUsers PROVE ClientInv'
      BY <2>2, <2>3 DEF Api!GetUsers, ClientInv
    <2>4. ASSUME NEW u \in client.todo, client' = [requests |-> client.requests + 1, todo |-> client.todo \ {u}]
          PROVE  ClientInv'
      <3>1. client.requests \in Nat /\ client.todo \subseteq ApiUsers /\ client.requests > 0
        BY <1>0 DEF ClientInv
      <3>2. IsFiniteSet(client.todo) /\ Cardinality(client.todo) \in Nat
        BY <3>1, FS_Subset, FS_CardinalityType DEF ApiAssumed
      <3>3. Cardinality(client.todo \ {u}) = Cardinality(client.todo) - 1
        BY <3>2, FS_RemoveElement
      <3> QED
        BY <1>0, <2>2, <2>4, <3>1, <3>2, <3>3 DEF ClientInv
    <2>5. ClientInv'
      BY <1>6, <2>3, <2>4 DEF Api!RestRequests, Api!GetUserPosts
    <2> QED
      BY <1>1, <1>2, <2>1, <2>5 DEF ApiInv
  <1>7. CASE Api!ApiIdle \/ UNCHANGED apiVars
    <2>1. UNCHANGED apiVars
      BY <1>7 DEF Api!ApiIdle, Api!vars, apiVars
    <2> QED
      BY <1>1, <1>2, <1>3, <2>1 DEF apiVars, ApiInv
  <1> QED
    BY <1>4, <1>5, <1>6, <1>7 DEF Api!Next

LEMMA ApiInvSuffices ==
    ASSUME ApiAssumed, ApiInv
    PROVE  Api!ApiIsHonest
  <1>0. ApiShape /\ ChargedOnce /\ AnswersPaid /\ StatsInv /\ ClientInv /\ payments \in Seq(PaymentSet)
    BY DEF ApiInv, PayInv, ApiShape
  <1>1. ASSUME NEW k \in PayKeys,
               Api!Cardinality({i \in DOMAIN payments : payments[i].key = k}) > 1
        PROVE  k \in excused
    <2> DEFINE mine == {i \in DOMAIN payments : payments[i].key = k}
    <2>1. SUFFICES ASSUME k \notin excused PROVE FALSE
      OBVIOUS
    <2>2. \A i, j \in mine : i = j
      BY <1>0, <2>1 DEF ChargedOnce, IsOf
    <2>3. mine = {} \/ \E i : mine = {i}
      BY <2>2
    <2>4. Cardinality(mine) \in {0, 1}
      BY <2>3, FS_EmptySet, FS_Singleton
    <2>5. Api!Cardinality(mine) = Cardinality(mine)
      BY DEF Api!Cardinality, Cardinality
    <2> QED
      BY <1>1, <2>4, <2>5
  <1>2. \A r \in replayed : \E i \in DOMAIN payments : payments[i] = r
    BY <1>0 DEF AnswersPaid, Paid
  <1>3. ~crowded => statsSum + (IF statsCopy = <<>> THEN resolverCalls ELSE statsCopy[1]) = fired
    BY <1>0 DEF StatsInv, Alone, Unread
  <1>4. client.requests > 0 =>
          client.requests + Api!Cardinality(client.todo) = 1 + Api!Cardinality(ApiUsers)
    <2>1. \A S : Api!Cardinality(S) = Cardinality(S)
      BY DEF Api!Cardinality, Cardinality
    <2> QED
      BY <1>0, <2>1 DEF ClientInv
  <1> QED
    BY <1>1, <1>2, <1>3, <1>4 DEF Api!ApiIsHonest

-----------------------------------------------------------------------------
(***************************************************************************)
(* The service registry.  The watcher's log is a stretch of the history    *)
(* from the moment it started to watch, and what the history since then    *)
(* makes of the services of that moment are the services of now; the fold  *)
(* of the log is unrolled one change at a time.  The leader that holds the *)
(* lease holds the key, and no token is newer than the key.                *)
(***************************************************************************)
\* What the changes of s make of the services of b.
After(s, b) == Registry!Replay(b, s)

Turn(g, s, b, T) == IF T = {} THEN b ELSE Registry!Seen(g[T \ {Top(T)}], s[Top(T)])
Unrolls(g, s, b, n) == g = [T \in SUBSET (1..n) |-> Turn(g, s, b, T)]
Unrolled(s, b, n) == CHOOSE g : Unrolls(g, s, b, n)

LEMMA AfterUnrolls ==
    ASSUME NEW s, NEW b, DOMAIN s = 1..Len(s)
    PROVE  After(s, b) = Unrolled(s, b, Len(s))[1..Len(s)]
  BY DEF After, Unrolled, Unrolls, Turn, Top, Registry!Replay, Registry!MapThenFoldSet, Registry!Max

LEMMA UnrolledExists ==
    ASSUME NEW s, NEW b, NEW n \in Nat
    PROVE  Unrolls(Unrolled(s, b, n), s, b, n)
  <1> DEFINE K == {i \in Nat : \E g : Unrolls(g, s, b, i)}
  <1>1. 0 \in K
    <2> DEFINE g == [T \in SUBSET (1..0) |-> b]
    <2>1. SUBSET (1..0) = {{}}
      OBVIOUS
    <2>2. Unrolls(g, s, b, 0)
      BY <2>1 DEF Unrolls, Turn
    <2> HIDE DEF g
    <2> QED
      BY <2>2
  <1>2. ASSUME NEW i \in K
        PROVE  i + 1 \in K
    <2>1. i \in Nat
      OBVIOUS
    <2>2. PICK g : Unrolls(g, s, b, i)
      OBVIOUS
    <2> HIDE DEF K
    <2> DEFINE h == [T \in SUBSET (1..i + 1) |-> Turn(g, s, b, T)]
    <2>3. \A V \in SUBSET (1..i) : h[V] = g[V]
      <3>1. \A V \in SUBSET (1..i) : V \in SUBSET (1..i + 1)
        BY <2>1
      <3>2. \A V \in SUBSET (1..i) : g[V] = Turn(g, s, b, V)
        BY <2>2, Zenon DEF Unrolls
      <3> QED
        BY <3>1, <3>2
    <2>4. \A T \in SUBSET (1..i + 1) : T # {} => T \ {Top(T)} \in SUBSET (1..i)
      <3>1. i + 1 \in Nat /\ (i + 1) - 1 = i
        BY <2>1
      <3> QED
        BY <3>1, TopIsLast
    <2> HIDE DEF h
    <2>5. \A T \in SUBSET (1..i + 1) : Turn(h, s, b, T) = Turn(g, s, b, T)
      BY <2>3, <2>4 DEF Turn
    <2>6. Unrolls(h, s, b, i + 1)
      BY <2>5 DEF h, Unrolls
    <2> QED
      BY <2>1, <2>6 DEF K
  <1>3. K = Nat
    <2> HIDE DEF K
    <2>1. K \in SUBSET Nat
      BY DEF K
    <2> QED
      BY <1>1, <1>2, <2>1, NatBySets
  <1>4. \E g : Unrolls(g, s, b, n)
    BY <1>3
  <1> QED
    BY <1>4, Zenon DEF Unrolled

\* An unrolling of a longer sequence is one of each sequence it starts with.
LEMMA UnrolledAgree ==
    ASSUME NEW s, NEW t, NEW b, NEW n \in Nat, NEW m \in Nat, n <= m,
           \A i \in 1..n : s[i] = t[i]
    PROVE  Unrolled(s, b, n)[1..n] = Unrolled(t, b, m)[1..n]
  <1> DEFINE g == Unrolled(s, b, n)
             h == Unrolled(t, b, m)
             Same(i) == \A T \in SUBSET (1..i) : i <= n => g[T] = h[T]
             K == {i \in Nat : Same(i)}
  <1>1. Unrolls(g, s, b, n) /\ Unrolls(h, t, b, m)
    BY UnrolledExists
  <1> HIDE DEF g, h
  <1>2. /\ \A T \in SUBSET (1..n) : g[T] = Turn(g, s, b, T)
        /\ \A T \in SUBSET (1..n) : h[T] = Turn(h, t, b, T)
    <2>1. \A T \in SUBSET (1..n) : T \in SUBSET (1..m)
      OBVIOUS
    <2>2. \A T \in SUBSET (1..n) : g[T] = Turn(g, s, b, T)
      BY <1>1, Zenon DEF Unrolls
    <2>3. \A T \in SUBSET (1..m) : h[T] = Turn(h, t, b, T)
      BY <1>1, Zenon DEF Unrolls
    <2> QED
      BY <2>1, <2>2, <2>3
  <1>3. 0 \in K
    <2>1. \A T \in SUBSET (1..0) : T = {} /\ T \in SUBSET (1..n)
      OBVIOUS
    <2>2. \A T \in SUBSET (1..0) : g[T] = h[T]
      BY <1>2, <2>1 DEF Turn
    <2> QED
      BY <2>2
  <1>4. ASSUME NEW i \in K
        PROVE  i + 1 \in K
    <2>1. i \in Nat /\ Same(i)
      OBVIOUS
    <2> HIDE DEF K
    <2>2. ASSUME NEW T \in SUBSET (1..i + 1), i + 1 <= n
          PROVE  g[T] = h[T]
      <3>1. T \in SUBSET (1..n)
        BY <2>1, <2>2
      <3>2. CASE T = {}
        BY <1>2, <3>1, <3>2 DEF Turn
      <3>3. CASE T # {}
        <4>1. T \ {Top(T)} \in SUBSET (1..i) /\ Top(T) \in 1..n
          <5>1. i + 1 \in Nat /\ (i + 1) - 1 = i
            BY <2>1
          <5> QED
            BY <3>1, <3>3, <5>1, TopIsLast
        <4>2. g[T \ {Top(T)}] = h[T \ {Top(T)}]
          BY <2>1, <2>2, <4>1
        <4>3. s[Top(T)] = t[Top(T)]
          BY <4>1
        <4> QED
          BY <1>2, <3>1, <3>3, <4>2, <4>3 DEF Turn
      <3> QED
        BY <3>2, <3>3
    <2> QED
      BY <2>1, <2>2 DEF K
  <1>5. K = Nat
    <2> HIDE DEF K
    <2>1. K \in SUBSET Nat
      BY DEF K
    <2> QED
      BY <1>3, <1>4, <2>1, NatBySets
  <1>6. Same(n)
    BY <1>5
  <1> QED
    BY <1>6 DEF g, h

\* A reader takes one change at a time.
LEMMA AfterNothing ==
    ASSUME NEW b
    PROVE  After(<<>>, b) = b
  <1>1. After(<<>>, b) = Unrolled(<<>>, b, 0)[1..0]
    BY AfterUnrolls
  <1>2. Unrolls(Unrolled(<<>>, b, 0), <<>>, b, 0)
    BY UnrolledExists
  <1> DEFINE g == Unrolled(<<>>, b, 0)
  <1> HIDE DEF g
  <1>3. g[{}] = Turn(g, <<>>, b, {})
    BY <1>2 DEF Unrolls, g
  <1>4. 1..0 = {}
    OBVIOUS
  <1> QED
    BY <1>1, <1>3, <1>4 DEF Turn, g

LEMMA AfterOneMore ==
    ASSUME NEW A, NEW s \in Seq(A), NEW e \in A, NEW b
    PROVE  After(Append(s, e), b) = Registry!Seen(After(s, b), e)
  <1> DEFINE t == Append(s, e)
             n == Len(s)
             g == Unrolled(s, b, n)
             h == Unrolled(t, b, n + 1)
  <1>1. n \in Nat /\ Len(t) = n + 1 /\ DOMAIN t = 1..n + 1 /\ DOMAIN s = 1..n
        /\ t[n + 1] = e /\ \A i \in 1..n : s[i] = t[i]
    OBVIOUS
  <1> HIDE DEF t, n
  <1>2. After(s, b) = g[1..n] /\ After(t, b) = h[1..n + 1]
    BY <1>1, AfterUnrolls DEF n
  <1>3. g[1..n] = h[1..n]
    BY <1>1, UnrolledAgree
  <1>4. Unrolls(h, t, b, n + 1)
    BY <1>1, UnrolledExists
  <1> HIDE DEF g, h
  <1>5. h[1..n + 1] = Turn(h, t, b, 1..n + 1)
    BY <1>4 DEF Unrolls
  <1>6. 1..n + 1 # {} /\ 1..n + 1 \in SUBSET (1..n + 1) /\ n + 1 \in 1..n + 1
    <2>1. n + 1 \in 1..n + 1
      BY <1>1
    <2> QED
      BY <2>1
  <1>7. Top(1..n + 1) = n + 1
    <2>1. n + 1 \in Nat
      BY <1>1
    <2>2. Top(1..n + 1) \in 1..n + 1 /\ \A k \in 1..n + 1 : k <= Top(1..n + 1)
      BY <1>6, <2>1, TopIsLast
    <2> QED
      BY <1>1, <1>6, <2>2
  <1>8. (1..n + 1) \ {n + 1} = 1..n
    BY <1>1
  <1>9. h[1..n + 1] = Registry!Seen(h[1..n], e)
    BY <1>1, <1>5, <1>6, <1>7, <1>8 DEF Turn
  <1> QED
    BY <1>2, <1>3, <1>9 DEF t

ChangeSet == [type : {"PUT", "DELETE"}, name : Services]
CandidateSet == [pc : {"idle", "txn", "token"}, isLeader : BOOLEAN, token : Nat,
                 lease : {"none", "live"}, watching : BOOLEAN]

WatchShape ==
  /\ service \in [Services -> {"new", "live", "gone"}]
  /\ history \in Seq(ChangeSet) /\ changeLog \in Seq(ChangeSet)
  /\ watchFrom \in Nat \/ (watchFrom = -1 /\ changeLog = <<>>)

\* The log is the stretch of the history from the start of the watch.
LogIsHistory ==
  watchFrom # -1 => /\ watchFrom + Len(changeLog) <= Len(history)
                    /\ \A i \in 1..Len(changeLog) : changeLog[i] = history[watchFrom + i]

\* The history since then leads to the services of now.
Since == SubSeq(history, watchFrom + 1, Len(history))
HistoryLeadsHere == watchFrom # -1 => After(Since, atWatch) = Registry!ListServices

WatchInv == WatchShape /\ LogIsHistory /\ HistoryLeadsHere

\* A holder of the key reads its token, or knows it.
KnowsToken(c) ==
  \/ candidate[c].pc = "token"
  \/ candidate[c].pc = "idle" /\ candidate[c].token = keyRevision

LeaderInv ==
  /\ revision \in Nat /\ keyRevision \in Nat /\ keyRevision <= revision
  /\ candidate \in [Candidates -> CandidateSet]
  /\ leaderKey \in Candidates \cup {Registry!NoOne}
  /\ \A c \in Candidates :
       /\ candidate[c].token <= revision
       /\ candidate[c].isLeader /\ candidate[c].lease = "live" => leaderKey = c
       /\ leaderKey = c => candidate[c].isLeader /\ candidate[c].lease = "live"
       /\ leaderKey = c => KnowsToken(c)
       /\ leaderKey # Registry!NoOne => candidate[c].token <= keyRevision

RegistryInv == WatchInv /\ LeaderInv

LEMMA RegistryInvInit ==
    ASSUME RegistryAssumed, Registry!Init
    PROVE  RegistryInv
  <1> USE DEF Registry!Init
  <1>1. WatchInv
    BY DEF WatchInv, WatchShape, LogIsHistory, HistoryLeadsHere
  <1>2. LeaderInv
    BY DEF LeaderInv, KnowsToken, CandidateSet, RegistryAssumed
  <1> QED
    BY <1>1, <1>2 DEF RegistryInv

LEMMA StretchOf ==
    ASSUME NEW A, NEW s \in Seq(A), NEW w \in Nat, NEW m \in Nat, w <= m, m <= Len(s)
    PROVE  /\ SubSeq(s, w + 1, m) \in Seq(A) /\ Len(SubSeq(s, w + 1, m)) = m - w
           /\ \A i \in 1..m - w : SubSeq(s, w + 1, m)[i] = s[w + i]
  OBVIOUS

\* A stretch that ends with the newest entry.
LEMMA StretchGrows ==
    ASSUME NEW A, NEW s \in Seq(A), NEW e \in A, NEW w \in Nat, w <= Len(s)
    PROVE  /\ SubSeq(s, w + 1, Len(s)) \in Seq(A)
           /\ SubSeq(Append(s, e), w + 1, Len(s) + 1) = Append(SubSeq(s, w + 1, Len(s)), e)
  <1> DEFINE n == Len(s)
             t == Append(s, e)
             old == SubSeq(s, w + 1, n)
             new == SubSeq(t, w + 1, n + 1)
  <1>1. n \in Nat /\ t \in Seq(A) /\ Len(t) = n + 1 /\ t[n + 1] = e /\ \A i \in 1..n : t[i] = s[i]
    OBVIOUS
  <1>2. old \in Seq(A) /\ Len(old) = n - w /\ \A i \in 1..n - w : old[i] = s[w + i]
    BY <1>1, StretchOf
  <1> HIDE DEF t
  <1>3. new \in Seq(A) /\ Len(new) = n + 1 - w /\ \A i \in 1..n + 1 - w : new[i] = t[w + i]
    <2>1. n + 1 \in Nat /\ w <= n + 1 /\ n + 1 <= Len(t)
      BY <1>1
    <2> QED
      BY <1>1, <2>1, StretchOf
  <1> HIDE DEF n, old, new
  <1>4. Append(old, e) \in Seq(A) /\ Len(Append(old, e)) = n - w + 1 /\ Append(old, e)[n - w + 1] = e
        /\ \A i \in 1..n - w : Append(old, e)[i] = old[i]
    BY <1>2
  <1>5. n - w \in Nat /\ n + 1 - w = n - w + 1 /\ w + (n - w + 1) = n + 1
    BY <1>1 DEF n
  <1>6. ASSUME NEW i \in 1..n - w + 1
        PROVE  new[i] = Append(old, e)[i]
    <2>1. CASE i = n - w + 1
      BY <1>1, <1>3, <1>4, <1>5, <2>1
    <2>2. CASE i \in 1..n - w
      <3>1. w + i \in 1..n /\ i \in 1..n + 1 - w
        BY <1>1, <1>5, <2>2
      <3>2. new[i] = t[w + i] /\ t[w + i] = s[w + i]
        BY <1>1, <1>3, <3>1
      <3>3. Append(old, e)[i] = old[i] /\ old[i] = s[w + i]
        BY <1>2, <1>4, <2>2
      <3> QED
        BY <3>2, <3>3, Zenon
    <2>3. i = n - w + 1 \/ i \in 1..n - w
      BY <1>5
    <2> QED
      BY <2>1, <2>2, <2>3, Zenon
  <1>7. DOMAIN new = 1..n - w + 1 /\ DOMAIN Append(old, e) = 1..n - w + 1
    BY <1>3, <1>4, <1>5
  <1>8. new = Append(old, e)
    BY <1>3, <1>4, <1>6, <1>7
  <1> QED
    BY <1>2, <1>8 DEF old, new, n, t

LEMMA SinceGrows ==
    ASSUME NEW e \in ChangeSet, history \in Seq(ChangeSet), watchFrom \in Nat, watchFrom <= Len(history)
    PROVE  SubSeq(Append(history, e), watchFrom + 1, Len(history) + 1) = Append(Since, e)
  BY StretchGrows DEF Since

\* A change that is logged and made.
LEMMA ChangeKeeps ==
    ASSUME WatchInv, NEW e \in ChangeSet, history' = Append(history, e),
           service' \in [Services -> {"new", "live", "gone"}],
           Registry!ListServices' = Registry!Seen(Registry!ListServices, e),
           UNCHANGED <<watchFrom, atWatch, changeLog>>
    PROVE  WatchInv'
  <1>0. /\ WatchShape /\ LogIsHistory /\ HistoryLeadsHere /\ history \in Seq(ChangeSet)
        /\ changeLog \in Seq(ChangeSet) /\ Len(changeLog) \in Nat
    BY DEF WatchInv, WatchShape
  <1>1. /\ Len(history) \in Nat /\ history' \in Seq(ChangeSet) /\ Len(history') = Len(history) + 1
        /\ \A i \in 1..Len(history) : history'[i] = history[i]
    BY <1>0
  <1>2. WatchShape'
    BY <1>0, <1>1 DEF WatchShape
  <1>3. CASE watchFrom = -1
    BY <1>2, <1>3 DEF WatchInv, LogIsHistory, HistoryLeadsHere
  <1>4. CASE watchFrom # -1
    <2>1. /\ watchFrom \in Nat /\ watchFrom + Len(changeLog) <= Len(history)
          /\ \A i \in 1..Len(changeLog) : changeLog[i] = history[watchFrom + i]
      BY <1>0, <1>4 DEF WatchShape, LogIsHistory
    <2>2. \A i \in 1..Len(changeLog) : watchFrom + i \in 1..Len(history)
      BY <1>0, <1>1, <2>1
    <2>3. LogIsHistory'
      BY <1>0, <1>1, <2>1, <2>2 DEF LogIsHistory
    <2>4. Since \in Seq(ChangeSet) /\ Since' = Append(Since, e)
      <3>1. watchFrom <= Len(history)
        BY <1>0, <1>1, <2>1
      <3>2. history \in Seq(ChangeSet) /\ watchFrom \in Nat
        BY <1>0, <2>1
      <3>3. SubSeq(history, watchFrom + 1, Len(history)) \in Seq(ChangeSet)
        BY <3>1, <3>2, StretchGrows
      <3>4. SubSeq(Append(history, e), watchFrom + 1, Len(history) + 1) = Append(Since, e)
        BY <3>1, <3>2, SinceGrows, Zenon
      <3> QED
        BY <1>1, <3>3, <3>4 DEF Since
    <2>5. After(Since', atWatch) = Registry!Seen(After(Since, atWatch), e)
      BY <2>4, AfterOneMore
    <2>6. HistoryLeadsHere'
      BY <1>0, <1>4, <2>5 DEF HistoryLeadsHere
    <2> QED
      BY <1>2, <2>3, <2>6 DEF WatchInv
  <1> QED
    BY <1>3, <1>4

LEMMA WatchInvStep ==
    ASSUME WatchInv, Registry!Next \/ UNCHANGED registryVars
    PROVE  WatchInv'
  <1>0. /\ WatchShape /\ LogIsHistory /\ HistoryLeadsHere /\ history \in Seq(ChangeSet)
        /\ changeLog \in Seq(ChangeSet) /\ Len(changeLog) \in Nat
        /\ service \in [Services -> {"new", "live", "gone"}]
    BY DEF WatchInv, WatchShape
  <1>1. ASSUME NEW s \in Services, Registry!Register(s)
        PROVE  WatchInv'
    <2> DEFINE e == [type |-> "PUT", name |-> s]
    <2>1. /\ service[s] = "new" /\ service' = [service EXCEPT ![s] = "live"]
          /\ history' = Append(history, e) /\ UNCHANGED <<watchFrom, atWatch, changeLog>>
      BY <1>1 DEF Registry!Register, Registry!Changed
    <2>2. e \in ChangeSet /\ Registry!ListServices' = Registry!Seen(Registry!ListServices, e)
      BY <1>0, <2>1 DEF ChangeSet, Registry!ListServices, Registry!Seen
    <2>3. service' \in [Services -> {"new", "live", "gone"}]
      BY <1>0, <2>1
    <2> QED
      BY <2>1, <2>2, <2>3, ChangeKeeps
  <1>2. ASSUME NEW s \in Services, Registry!Deregister(s) \/ Registry!LeaseExpires(s)
        PROVE  WatchInv'
    <2> DEFINE e == [type |-> "DELETE", name |-> s]
    <2>1. /\ service' = [service EXCEPT ![s] = "gone"]
          /\ history' = Append(history, e) /\ UNCHANGED <<watchFrom, atWatch, changeLog>>
      BY <1>2 DEF Registry!Deregister, Registry!LeaseExpires, Registry!Changed
    <2>2. e \in ChangeSet /\ Registry!ListServices' = Registry!Seen(Registry!ListServices, e)
      BY <1>0, <2>1 DEF ChangeSet, Registry!ListServices, Registry!Seen
    <2>3. service' \in [Services -> {"new", "live", "gone"}]
      BY <1>0, <2>1
    <2> QED
      BY <2>1, <2>2, <2>3, ChangeKeeps
  <1>3. CASE Registry!StartWatch
    <2>1. /\ watchFrom = -1 /\ watchFrom' = Len(history) /\ atWatch' = Registry!ListServices
          /\ UNCHANGED <<service, history, changeLog>>
      BY <1>3 DEF Registry!StartWatch
    <2>2. CASE changeLog # <<>>
      <3>1. FALSE
        BY <1>0, <2>1, <2>2 DEF WatchShape
      <3> QED
        BY <3>1
    <2>3. CASE changeLog = <<>>
      <3>1. Len(changeLog) = 0 /\ Len(history) \in Nat
        BY <1>0, <2>3
      <3>2. WatchShape' /\ LogIsHistory'
        BY <1>0, <2>1, <3>1 DEF WatchShape, LogIsHistory
      <3>3. Since' = <<>>
        BY <1>0, <2>1, <3>1 DEF Since
      <3>4. HistoryLeadsHere'
        BY <2>1, <3>3, AfterNothing DEF HistoryLeadsHere, Registry!ListServices
      <3> QED
        BY <3>2, <3>4 DEF WatchInv
    <2> QED
      BY <2>2, <2>3
  <1>4. CASE Registry!WatchEvent
    <2> DEFINE next == watchFrom + Len(changeLog) + 1
    <2>1. /\ watchFrom # -1 /\ next <= Len(history) /\ changeLog' = Append(changeLog, history[next])
          /\ UNCHANGED <<service, history, watchFrom, atWatch>>
      BY <1>4 DEF Registry!WatchEvent
    <2>2. watchFrom \in Nat /\ Len(history) \in Nat /\ next \in 1..Len(history)
      BY <1>0, <2>1 DEF WatchShape
    <2>3. history[next] \in ChangeSet
      BY <1>0, <2>2
    <2>4. /\ changeLog' \in Seq(ChangeSet) /\ Len(changeLog') = Len(changeLog) + 1
          /\ changeLog'[Len(changeLog) + 1] = history[next]
          /\ \A i \in 1..Len(changeLog) : changeLog'[i] = changeLog[i]
      BY <1>0, <2>1, <2>3
    <2>5. WatchShape'
      BY <1>0, <2>1, <2>4 DEF WatchShape
    <2>6. ASSUME NEW i \in 1..Len(changeLog')
          PROVE  changeLog'[i] = history[watchFrom + i]
      <3>1. CASE i = Len(changeLog) + 1
        BY <1>0, <2>2, <2>4, <3>1
      <3>2. CASE i \in 1..Len(changeLog)
        BY <1>0, <2>1, <2>4, <3>2 DEF LogIsHistory
      <3> QED
        BY <1>0, <2>4, <3>1, <3>2
    <2>7. LogIsHistory'
      BY <1>0, <2>1, <2>2, <2>4, <2>6 DEF LogIsHistory
    <2>8. HistoryLeadsHere'
      BY <1>0, <2>1 DEF HistoryLeadsHere, Since, Registry!ListServices
    <2> QED
      BY <2>5, <2>7, <2>8 DEF WatchInv
  <1>5. CASE UNCHANGED <<service, history, watchFrom, atWatch, changeLog>>
    BY <1>0, <1>5 DEF WatchInv, WatchShape, LogIsHistory, HistoryLeadsHere, Since, Registry!ListServices
  <1>6. ASSUME NEW s \in Services, Registry!StartHeartbeat(s) \/ Registry!StopHeartbeat(s)
        PROVE  WatchInv'
    BY <1>5, <1>6 DEF Registry!StartHeartbeat, Registry!StopHeartbeat
  <1>7. CASE Registry!Election \/ Registry!Reelection \/ Registry!RevisionsSpent \/ UNCHANGED registryVars
    BY <1>5, <1>7 DEF Registry!Election, Registry!Reelection, Registry!RevisionsSpent, Registry!Campaign,
       Registry!Transaction, Registry!ReadToken, Registry!WatchForTakeover, Registry!Resign,
       Registry!LeaderLeaseExpires, Registry!registryVars, Registry!vars, registryVars
  <1> QED
    BY <1>1, <1>2, <1>3, <1>4, <1>6, <1>7 DEF Registry!Next, Registry!Registration

LEMMA LeaderInvStep ==
    ASSUME RegistryAssumed, LeaderInv, Registry!Next \/ UNCHANGED registryVars
    PROVE  LeaderInv'
  <1>0. /\ revision \in Nat /\ keyRevision \in Nat /\ keyRevision <= revision
        /\ candidate \in [Candidates -> CandidateSet]
        /\ leaderKey \in Candidates \cup {Registry!NoOne} /\ Registry!NoOne \notin Candidates
    BY DEF LeaderInv, RegistryAssumed
  \* A step in which one candidate moves on and the key stays with its holder.
  <1>1. ASSUME NEW c \in Candidates, NEW after \in CandidateSet,
               candidate' = [candidate EXCEPT ![c] = after],
               UNCHANGED <<revision, leaderKey, keyRevision>>,
               after.isLeader = candidate[c].isLeader,
               after.lease = candidate[c].lease \/ ~after.isLeader,
               after.token <= revision,
               leaderKey = c => KnowsToken(c)',
               leaderKey # Registry!NoOne => after.token <= keyRevision
        PROVE  LeaderInv'
    <2>1. /\ candidate' \in [Candidates -> CandidateSet] /\ candidate'[c] = after
          /\ \A d \in Candidates \ {c} : candidate'[d] = candidate[d]
      BY <1>0, <1>1
    <2>2. ASSUME NEW d \in Candidates
          PROVE  /\ candidate'[d].token <= revision
                 /\ candidate'[d].isLeader /\ candidate'[d].lease = "live" => leaderKey = d
                 /\ leaderKey = d => candidate'[d].isLeader /\ candidate'[d].lease = "live"
                 /\ leaderKey # Registry!NoOne => candidate'[d].token <= keyRevision
      BY <1>1, <2>1 DEF LeaderInv
    <2>3. ASSUME NEW d \in Candidates, leaderKey = d
          PROVE  KnowsToken(d)'
      BY <1>1, <2>1, <2>3 DEF LeaderInv, KnowsToken
    <2> QED
      BY <1>0, <1>1, <2>1, <2>2, <2>3 DEF LeaderInv
  <1>2. ASSUME NEW c \in Candidates, Registry!Campaign(c) \/ Registry!ReadToken(c) \/ Registry!WatchForTakeover(c)
        PROVE  LeaderInv'
    <2>0. candidate[c] \in CandidateSet
      BY <1>0
    <2>1. CASE Registry!Campaign(c)
      <3> DEFINE after == [candidate[c] EXCEPT !.pc = "txn", !.lease = "live"]
      <3>1. after \in CandidateSet /\ after.isLeader = candidate[c].isLeader /\ after.token = candidate[c].token
        BY <2>0 DEF CandidateSet
      <3>2. /\ ~candidate[c].isLeader /\ candidate' = [candidate EXCEPT ![c] = after]
            /\ UNCHANGED <<revision, leaderKey, keyRevision>>
        BY <1>0, <2>1 DEF Registry!Campaign
      <3> HIDE DEF after
      <3>3. leaderKey # c
        BY <3>2 DEF LeaderInv
      <3> QED
        BY <1>0, <1>1, <3>1, <3>2, <3>3 DEF LeaderInv
    <2>2. CASE Registry!ReadToken(c)
      <3> DEFINE after == [candidate[c] EXCEPT !.pc = "idle",
                             !.token = IF leaderKey = Registry!NoOne THEN @ ELSE keyRevision]
      <3>1. /\ after \in CandidateSet /\ after.isLeader = candidate[c].isLeader
            /\ after.lease = candidate[c].lease /\ after.pc = "idle"
            /\ after.token = IF leaderKey = Registry!NoOne THEN candidate[c].token ELSE keyRevision
        BY <1>0, <2>0 DEF CandidateSet
      <3>2. candidate' = [candidate EXCEPT ![c] = after] /\ UNCHANGED <<revision, leaderKey, keyRevision>>
        BY <1>0, <2>2 DEF Registry!ReadToken
      <3> HIDE DEF after
      <3>3. after.token <= revision /\ (leaderKey # Registry!NoOne => after.token <= keyRevision)
        BY <1>0, <3>1 DEF LeaderInv
      <3>4. leaderKey = c => KnowsToken(c)'
        BY <1>0, <3>1, <3>2 DEF KnowsToken
      <3> QED
        BY <1>1, <3>1, <3>2, <3>3, <3>4
    <2>3. CASE Registry!WatchForTakeover(c)
      <3> DEFINE after == [candidate[c] EXCEPT !.watching = ~@]
      <3>1. /\ after \in CandidateSet /\ after.isLeader = candidate[c].isLeader
            /\ after.lease = candidate[c].lease /\ after.token = candidate[c].token
            /\ after.pc = candidate[c].pc
        BY <2>0 DEF CandidateSet
      <3>2. candidate' = [candidate EXCEPT ![c] = after] /\ UNCHANGED <<revision, leaderKey, keyRevision>>
        BY <1>0, <2>3 DEF Registry!WatchForTakeover
      <3> HIDE DEF after
      <3>3. leaderKey = c => KnowsToken(c)'
        BY <1>0, <3>1, <3>2 DEF LeaderInv, KnowsToken
      <3> QED
        BY <1>0, <1>1, <3>1, <3>2, <3>3 DEF LeaderInv
    <2> QED
      BY <1>2, <2>1, <2>2, <2>3
  <1>3. ASSUME NEW c \in Candidates, Registry!Transaction(c)
        PROVE  LeaderInv'
    <2>0. candidate[c] \in CandidateSet
      BY <1>0
    <2>1. CASE leaderKey = Registry!NoOne /\ candidate[c].lease = "live"
      <3>1. /\ leaderKey' = c /\ keyRevision' = revision + 1 /\ revision' = revision + 1
            /\ candidate' = [candidate EXCEPT ![c].pc = "token", ![c].isLeader = TRUE]
        BY <1>3, <2>1 DEF Registry!Transaction
      <3>2. /\ candidate' \in [Candidates -> CandidateSet]
            /\ candidate'[c].isLeader /\ candidate'[c].lease = "live"
            /\ candidate'[c].token = candidate[c].token /\ candidate'[c].pc = "token"
            /\ \A d \in Candidates \ {c} : candidate'[d] = candidate[d]
        BY <1>0, <2>0, <2>1, <3>1 DEF CandidateSet
      <3>3. \A d \in Candidates : candidate[d].token \in Nat /\ candidate[d].token <= revision
        BY <1>0 DEF LeaderInv, CandidateSet
      <3>4. \A d \in Candidates : ~(candidate[d].isLeader /\ candidate[d].lease = "live")
        BY <1>0, <2>1 DEF LeaderInv
      <3>5. ASSUME NEW d \in Candidates
            PROVE  /\ candidate'[d].token <= revision + 1
                   /\ candidate'[d].isLeader /\ candidate'[d].lease = "live" => c = d
                   /\ c = d => candidate'[d].isLeader /\ candidate'[d].lease = "live"
        BY <1>0, <3>2, <3>3, <3>4
      <3>6. ASSUME NEW d \in Candidates, leaderKey' = d
            PROVE  KnowsToken(d)'
        BY <3>1, <3>2, <3>6 DEF KnowsToken
      <3> QED
        BY <1>0, <3>1, <3>2, <3>5, <3>6 DEF LeaderInv
    <2>2. CASE ~(leaderKey = Registry!NoOne /\ candidate[c].lease = "live")
      <3> DEFINE after == [candidate[c] EXCEPT !.pc = "idle"]
      <3>1. /\ after \in CandidateSet /\ after.isLeader = candidate[c].isLeader
            /\ after.lease = candidate[c].lease /\ after.token = candidate[c].token
        BY <2>0 DEF CandidateSet
      <3>2. candidate' = [candidate EXCEPT ![c] = after] /\ UNCHANGED <<revision, leaderKey, keyRevision>>
        BY <1>0, <1>3, <2>2 DEF Registry!Transaction
      <3> HIDE DEF after
      <3>3. leaderKey # c
        BY <1>3 DEF Registry!Transaction, LeaderInv, KnowsToken
      <3> QED
        BY <1>0, <1>1, <3>1, <3>2, <3>3 DEF LeaderInv
    <2> QED
      BY <2>1, <2>2
  \* The key goes, and the holder is no leader with a lease any more.
  <1>4. ASSUME NEW c \in Candidates, NEW after \in CandidateSet, leaderKey = c, Registry!KeyGone(c, after),
               after.lease = "none", after.token = candidate[c].token
        PROVE  LeaderInv'
    <2>1. leaderKey' = Registry!NoOne /\ keyRevision' = 0 /\ revision' = revision + 1
      BY <1>4 DEF Registry!KeyGone
    <2>2. candidate' = [d \in Candidates |->
                          IF d = c THEN after
                          ELSE IF candidate[d].watching /\ candidate[d].pc = "idle" /\ ~candidate[d].isLeader
                               THEN [candidate[d] EXCEPT !.pc = "txn", !.lease = "live"] ELSE candidate[d]]
      BY <1>4 DEF Registry!KeyGone
    <2>3. ASSUME NEW d \in Candidates
          PROVE  /\ candidate'[d] \in CandidateSet
                 /\ candidate'[d].token <= revision + 1
                 /\ ~(candidate'[d].isLeader /\ candidate'[d].lease = "live")
      <3>1. candidate[d] \in CandidateSet /\ candidate[d].token <= revision /\ candidate[d].token \in Nat
        BY <1>0 DEF LeaderInv, CandidateSet
      <3>2. CASE d = c
        <4>1. candidate'[d] = after
          BY <2>2, <3>2
        <4>2. after.token <= revision + 1
          BY <1>0, <1>4, <3>1, <3>2
        <4> QED
          BY <1>4, <4>1, <4>2
      <3>3. CASE d # c /\ candidate[d].watching /\ candidate[d].pc = "idle" /\ ~candidate[d].isLeader
        <4>1. candidate'[d] = [candidate[d] EXCEPT !.pc = "txn", !.lease = "live"]
          BY <2>2, <3>3
        <4>2. /\ candidate'[d] \in CandidateSet /\ candidate'[d].token = candidate[d].token
              /\ candidate'[d].isLeader = candidate[d].isLeader
          BY <3>1, <4>1 DEF CandidateSet
        <4>3. candidate[d].token <= revision + 1
          BY <1>0, <3>1
        <4> QED
          BY <3>3, <4>2, <4>3
      <3>4. CASE d # c /\ ~(candidate[d].watching /\ candidate[d].pc = "idle" /\ ~candidate[d].isLeader)
        <4>1. candidate'[d] = candidate[d]
          BY <2>2, <3>4
        <4>2. ~(candidate[d].isLeader /\ candidate[d].lease = "live")
          BY <1>4, <3>4 DEF LeaderInv
        <4> QED
          BY <1>0, <3>1, <4>1, <4>2
      <3> QED
        BY <3>2, <3>3, <3>4
    <2>4. candidate' \in [Candidates -> CandidateSet]
      BY <2>2, <2>3
    <2> QED
      BY <1>0, <2>1, <2>3, <2>4 DEF LeaderInv
  <1>5. ASSUME NEW c \in Candidates, Registry!Resign(c) \/ Registry!LeaderLeaseExpires(c)
        PROVE  LeaderInv'
    <2>0. candidate[c] \in CandidateSet /\ leaderKey = c
      BY <1>0, <1>5 DEF Registry!Resign, Registry!LeaderLeaseExpires
    <2>1. CASE Registry!Resign(c)
      <3> DEFINE after == [candidate[c] EXCEPT !.isLeader = FALSE, !.lease = "none"]
      <3>1. after \in CandidateSet /\ after.lease = "none" /\ after.token = candidate[c].token
        BY <2>0 DEF CandidateSet
      <3>2. Registry!KeyGone(c, after)
        BY <2>1 DEF Registry!Resign
      <3> HIDE DEF after
      <3> QED
        BY <1>4, <2>0, <3>1, <3>2
    <2>2. CASE Registry!LeaderLeaseExpires(c)
      <3> DEFINE after == [candidate[c] EXCEPT !.lease = "none"]
      <3>1. after \in CandidateSet /\ after.lease = "none" /\ after.token = candidate[c].token
        BY <2>0 DEF CandidateSet
      <3>2. Registry!KeyGone(c, after)
        BY <2>2 DEF Registry!LeaderLeaseExpires
      <3> HIDE DEF after
      <3> QED
        BY <1>4, <2>0, <3>1, <3>2
    <2> QED
      BY <1>5, <2>1, <2>2
  \* The services' changes only raise the revision.
  <1>6. CASE revision' \in {revision, revision + 1} /\ UNCHANGED <<leaderKey, keyRevision, candidate>>
    <2>1. \A d \in Candidates : candidate[d].token \in Nat /\ candidate[d].token <= revision
      BY <1>0 DEF LeaderInv, CandidateSet
    <2>2. revision' \in Nat /\ revision <= revision'
      BY <1>0, <1>6
    <2>3. \A d \in Candidates : candidate[d].token <= revision'
      BY <1>0, <2>1, <2>2
    <2>4. \A d \in Candidates : KnowsToken(d)' = KnowsToken(d)
      BY <1>6 DEF KnowsToken
    <2> QED
      BY <1>0, <1>6, <2>2, <2>3, <2>4 DEF LeaderInv
  <1>7. ASSUME NEW s \in Services,
               \/ Registry!Register(s) \/ Registry!StartHeartbeat(s) \/ Registry!StopHeartbeat(s)
               \/ Registry!Deregister(s) \/ Registry!LeaseExpires(s)
        PROVE  LeaderInv'
    BY <1>6, <1>7 DEF Registry!Register, Registry!StartHeartbeat, Registry!StopHeartbeat, Registry!Deregister,
       Registry!LeaseExpires, Registry!Changed, Registry!leaderVars
  <1>8. CASE Registry!StartWatch \/ Registry!WatchEvent \/ Registry!RevisionsSpent \/ UNCHANGED registryVars
    BY <1>6, <1>8 DEF Registry!StartWatch, Registry!WatchEvent, Registry!RevisionsSpent,
       Registry!leaderVars, Registry!vars, registryVars
  <1> QED
    BY <1>2, <1>3, <1>5, <1>7, <1>8 DEF Registry!Next, Registry!Registration, Registry!Election,
       Registry!Reelection

LEMMA RegistryInvStep ==
    ASSUME RegistryAssumed, RegistryInv, Registry!Next \/ UNCHANGED registryVars
    PROVE  RegistryInv'
  BY WatchInvStep, LeaderInvStep DEF RegistryInv

LEMMA RegistryInvSuffices ==
    ASSUME RegistryAssumed, RegistryInv
    PROVE  Registry!TypeOK /\ Registry!RegistryIsSound
  <1>0. /\ WatchShape /\ LogIsHistory /\ HistoryLeadsHere /\ LeaderInv /\ history \in Seq(ChangeSet)
        /\ changeLog \in Seq(ChangeSet) /\ Len(changeLog) \in Nat /\ Len(history) \in Nat
    BY DEF RegistryInv, WatchInv, WatchShape
  <1>1. ASSUME watchFrom # -1
        PROVE  Registry!Replayed(changeLog \o SubSeq(history, watchFrom + Len(changeLog) + 1, Len(history)))
                 = Registry!ListServices
    <2> DEFINE n == Len(changeLog)
               w == watchFrom
               rest == SubSeq(history, w + n + 1, Len(history))
               all == changeLog \o rest
    <2>1. w \in Nat /\ w + n <= Len(history) /\ \A i \in 1..n : changeLog[i] = history[w + i]
      BY <1>0, <1>1 DEF WatchShape, LogIsHistory
    <2>2. /\ rest \in Seq(ChangeSet) /\ Len(rest) = Len(history) - (w + n)
          /\ \A i \in 1..Len(history) - (w + n) : rest[i] = history[w + n + i]
      BY <1>0, <2>1
    <2>3. /\ Since \in Seq(ChangeSet) /\ Len(Since) = Len(history) - w
          /\ \A i \in 1..Len(history) - w : Since[i] = history[w + i]
      <3>1. history \in Seq(ChangeSet) /\ w \in Nat /\ Len(history) \in Nat /\ w <= Len(history)
        BY <1>0, <2>1
      <3>2. Since = SubSeq(history, w + 1, Len(history))
        BY DEF Since
      <3> QED
        BY <3>1, <3>2, StretchOf
    <2> HIDE DEF rest, w
    <2>4. /\ all \in Seq(ChangeSet) /\ Len(all) = n + Len(rest)
          /\ \A i \in 1..n : all[i] = changeLog[i]
          /\ \A i \in n + 1..n + Len(rest) : all[i] = rest[i - n]
      BY <1>0, <2>2
    <2> HIDE DEF all, n
    <2>5. n \in Nat /\ Len(all) = Len(history) - w
      BY <1>0, <2>1, <2>2, <2>4 DEF n
    <2>6. ASSUME NEW i \in 1..Len(history) - w
          PROVE  all[i] = Since[i]
      <3>1. CASE i \in 1..n
        BY <2>1, <2>3, <2>4, <3>1
      <3>2. CASE i \notin 1..n
        <4>1. i \in n + 1..n + Len(rest) /\ i - n \in 1..Len(history) - (w + n) /\ w + n + (i - n) = w + i
          BY <1>0, <2>1, <2>2, <2>5, <3>2
        <4>2. all[i] = rest[i - n] /\ rest[i - n] = history[w + i] /\ Since[i] = history[w + i]
          BY <2>2, <2>3, <2>4, <4>1
        <4> QED
          BY <4>2
      <3> QED
        BY <3>1, <3>2
    <2>7. DOMAIN all = 1..Len(history) - w /\ DOMAIN Since = 1..Len(history) - w
      BY <2>3, <2>4, <2>5
    <2>8. all = Since
      BY <2>3, <2>4, <2>6, <2>7
    <2>9. Registry!Replayed(all) = After(all, atWatch)
      BY DEF Registry!Replayed, After
    <2> QED
      BY <1>0, <1>1, <2>8, <2>9 DEF HistoryLeadsHere, all, rest, n, w
  <1>2. Registry!TypeOK
    BY <1>0 DEF LeaderInv, LogIsHistory, Registry!TypeOK
  <1> QED
    BY <1>0, <1>1, <1>2 DEF Registry!RegistryIsSound, LeaderInv, KnowsToken

-----------------------------------------------------------------------------
(***************************************************************************)
(* The driver dispatch.  A driver that was there for the whole of a        *)
(* request is outside the radii that were searched in vain, or among the   *)
(* candidates of this one; whoever is available is among those the request *)
(* has seen available.                                                     *)
(***************************************************************************)
RequestSet == [pc : {"idle", "search", "status", "done"}, radius : Rings,
               candidates : SUBSET (Drivers \X Rings), match : Drivers \cup {"", Dispatch!NoMatch}]

DispatchShape ==
  /\ ring \in [Drivers -> Rings \cup {0}]
  /\ now \in 0..MaxNow /\ beat \in [Drivers -> -1..MaxNow]
  /\ stale \subseteq Drivers
  /\ request \in [Riders -> RequestSet]
  /\ was \in [Riders -> SUBSET Drivers] /\ steady \in [Riders -> SUBSET Drivers]

AvailableNow == {d \in Drivers : Dispatch!Available(d)}

\* What a request that is under way knows of the drivers.
RiderKnows(r) ==
  /\ request[r].pc = "idle" => request[r].radius = 1
  /\ Dispatch!Asking(r) =>
       /\ AvailableNow \subseteq was[r] /\ steady[r] \subseteq AvailableNow
       /\ \A d \in steady[r] : ring[d] # 0 /\ ring[d] >= request[r].radius
       /\ request[r].pc = "status" => \A d \in steady[r] :
            ring[d] = request[r].radius => <<d, ring[d]>> \in request[r].candidates

RightAnswer(r) ==
  request[r].pc = "done" =>
    IF request[r].match = Dispatch!NoMatch THEN steady[r] = {}
    ELSE /\ request[r].match \in was[r]
         /\ \E best \in request[r].candidates :
              /\ best[1] = request[r].match
              /\ \A c \in request[r].candidates :
                   c[1] \in steady[r] => Dispatch!Eta(best) <= Dispatch!Eta(c)

DispatchInv ==
  /\ DispatchShape /\ Dispatch!IndexedHaveHeartbeats
  /\ \A r \in Riders : RiderKnows(r) /\ RightAnswer(r)

LEMMA DispatchInvInit ==
    ASSUME DispatchAssumed, Dispatch!Init
    PROVE  DispatchInv
  <1>1. /\ ring = [d \in Drivers |-> 0] /\ beat = [d \in Drivers |-> -1] /\ now = 0 /\ stale = {}
        /\ request = [r \in Riders |-> [pc |-> "idle", radius |-> 1, candidates |-> {}, match |-> ""]]
        /\ was = [r \in Riders |-> {}] /\ steady = [r \in Riders |-> {}]
    BY DEF Dispatch!Init
  <1>2. 1 \in Rings
    <2>1. PICK n \in Nat \ {0} : Rings = 1..n
      BY DEF DispatchAssumed
    <2>2. 1 \in 1..n
      BY <2>1
    <2> QED
      BY <2>1, <2>2
  <1>3. DispatchShape
    <2>1. request \in [Riders -> RequestSet]
      BY <1>1, <1>2 DEF RequestSet
    <2>2. MaxNow \in Nat
      BY DEF DispatchAssumed
    <2>3. 0 \in 0..MaxNow /\ -1 \in -1..MaxNow
      BY <2>2
    <2>4. now \in 0..MaxNow /\ beat \in [Drivers -> -1..MaxNow]
      BY <1>1, <2>3
    <2> QED
      BY <1>1, <2>1, <2>4 DEF DispatchShape
  <1>4. Dispatch!IndexedHaveHeartbeats
    BY <1>1 DEF Dispatch!IndexedHaveHeartbeats
  <1>5. \A r \in Riders : RiderKnows(r) /\ RightAnswer(r)
    BY <1>1 DEF RiderKnows, RightAnswer, Dispatch!Asking
  <1> QED
    BY <1>3, <1>4, <1>5 DEF DispatchInv

\* Drivers and the eviction job change the drivers; the requests observe it.
LEMMA ObserveKeeps ==
    ASSUME DispatchInv, DispatchShape', Dispatch!IndexedHaveHeartbeats', Dispatch!Observe, request' = request
    PROVE  DispatchInv'
  <1>0. DispatchShape /\ \A r \in Riders : RiderKnows(r) /\ RightAnswer(r)
    BY DEF DispatchInv
  <1>1. ASSUME NEW r \in Riders
        PROVE  RiderKnows(r)' /\ RightAnswer(r)'
    <2>1. Dispatch!Asking(r)' = Dispatch!Asking(r)
      BY DEF Dispatch!Asking
    <2>2. CASE Dispatch!Asking(r)
      <3>1. /\ was'[r] = was[r] \cup AvailableNow'
            /\ steady'[r] = {d \in steady[r] : ring'[d] = ring[d] /\ Dispatch!Available(d)'}
        BY <2>2 DEF Dispatch!Observe, AvailableNow
      <3>2. steady[r] \subseteq Drivers
        BY <1>0 DEF DispatchShape
      <3>3. AvailableNow' \subseteq was'[r] /\ steady'[r] \subseteq AvailableNow'
        BY <3>1, <3>2 DEF AvailableNow
      <3>4. \A d \in steady'[r] : d \in steady[r] /\ ring'[d] = ring[d]
        BY <3>1
      <3>5. RiderKnows(r)'
        BY <1>0, <2>2, <3>3, <3>4 DEF RiderKnows
      <3>6. request[r].pc # "done"
        BY <2>2 DEF Dispatch!Asking
      <3> QED
        BY <3>5, <3>6 DEF RightAnswer
    <2>3. CASE ~Dispatch!Asking(r)
      <3>1. was'[r] = was[r] /\ steady'[r] = steady[r]
        BY <2>3 DEF Dispatch!Observe
      <3> QED
        BY <1>0, <2>1, <2>3, <3>1 DEF RiderKnows, RightAnswer
    <2> QED
      BY <2>2, <2>3
  <1> QED
    BY <1>1 DEF DispatchInv

\* One rider moves on while the drivers stay.
LEMMA RiderKeeps ==
    ASSUME DispatchInv, NEW r \in Riders, NEW q \in RequestSet,
           request' = [request EXCEPT ![r] = q],
           UNCHANGED <<ring, beat, status, now, stale, was, steady>>,
           RiderKnows(r)', RightAnswer(r)'
    PROVE  DispatchInv'
  <1>0. DispatchShape /\ Dispatch!IndexedHaveHeartbeats /\ \A u \in Riders : RiderKnows(u) /\ RightAnswer(u)
    BY DEF DispatchInv
  <1>1. DispatchShape' /\ Dispatch!IndexedHaveHeartbeats'
    BY <1>0 DEF DispatchShape, Dispatch!IndexedHaveHeartbeats
  <1>2. ASSUME NEW u \in Riders \ {r}
        PROVE  RiderKnows(u)' /\ RightAnswer(u)'
    <2>1. request'[u] = request[u]
      BY <1>0 DEF DispatchShape
    <2>2. AvailableNow' = AvailableNow
      BY DEF AvailableNow, Dispatch!Available, Dispatch!Suits
    <2> QED
      BY <1>0, <2>1, <2>2 DEF RiderKnows, RightAnswer, Dispatch!Asking
  <1> QED
    BY <1>1, <1>2 DEF DispatchInv

\* After a radius that was searched in vain the request goes on, or ends with nobody to blame.
LEMMA WidenKeeps ==
    ASSUME DispatchAssumed, DispatchInv, NEW r \in Riders, Dispatch!Asking(r), request' = Dispatch!Widen(r),
           UNCHANGED <<ring, beat, status, now, stale, was, steady>>,
           \A d \in steady[r] : ring[d] # request[r].radius
    PROVE  DispatchInv'
  <1>0. /\ DispatchShape /\ RiderKnows(r) /\ request \in [Riders -> RequestSet] /\ request[r] \in RequestSet
        /\ steady[r] \subseteq Drivers
    BY DEF DispatchInv, DispatchShape
  <1>1. PICK n \in Nat \ {0} : Rings = 1..n
    BY DEF DispatchAssumed
  <1>2. request[r].radius \in 1..n
    BY <1>0, <1>1 DEF RequestSet
  <1>3. \A d \in steady[r] : ring[d] \in 1..n /\ ring[d] >= request[r].radius + 1
    BY <1>0, <1>1, <1>2 DEF RiderKnows, DispatchShape
  <1>4. AvailableNow' = AvailableNow
    BY DEF AvailableNow, Dispatch!Available, Dispatch!Suits
  <1>5. CASE request[r].radius + 1 \in Rings
    <2> DEFINE q == [request[r] EXCEPT !.pc = "search", !.radius = @ + 1]
    <2>1. request' = [request EXCEPT ![r] = q]
      <3>1. Dispatch!Widen(r) = [request EXCEPT ![r].pc = "search", ![r].radius = @ + 1]
        BY <1>5 DEF Dispatch!Widen
      <3> QED
        BY <1>0, <3>1
    <2>2. q \in RequestSet /\ q.pc = "search" /\ q.radius = request[r].radius + 1
      BY <1>0, <1>5 DEF RequestSet
    <2> HIDE DEF q
    <2>3. request'[r] = q
      BY <1>0, <2>1
    <2>4. RiderKnows(r)' /\ RightAnswer(r)'
      BY <1>0, <1>3, <1>4, <2>2, <2>3 DEF RiderKnows, RightAnswer
    <2> QED
      BY <2>1, <2>2, <2>4, RiderKeeps
  <1>6. CASE request[r].radius + 1 \notin Rings
    <2> DEFINE q == [request[r] EXCEPT !.pc = "done", !.match = Dispatch!NoMatch]
    <2>1. request' = [request EXCEPT ![r] = q]
      BY <1>6 DEF Dispatch!Widen, Dispatch!Answer
    <2>2. q \in RequestSet /\ q.pc = "done" /\ q.match = Dispatch!NoMatch
      BY <1>0 DEF RequestSet
    <2> HIDE DEF q
    <2>3. request'[r] = q
      BY <1>0, <2>1
    <2>4. steady[r] = {}
      <3>1. request[r].radius = n
        BY <1>1, <1>2, <1>6
      <3> QED
        BY <1>1, <1>3, <3>1
    <2>5. RiderKnows(r)' /\ RightAnswer(r)'
      BY <2>2, <2>3, <2>4 DEF RiderKnows, RightAnswer, Dispatch!Asking
    <2> QED
      BY <2>1, <2>2, <2>5, RiderKeeps
  <1> QED
    BY <1>5, <1>6

LEMMA FindNearestKeeps ==
    ASSUME DispatchAssumed, DispatchInv, NEW r \in Riders,
           Dispatch!AskMatch(r) \/ Dispatch!Search(r) \/ Dispatch!Rank(r)
    PROVE  DispatchInv'
  <1>0. /\ DispatchShape /\ Dispatch!IndexedHaveHeartbeats
        /\ \A u \in Riders : RiderKnows(u) /\ RightAnswer(u)
        /\ ring \in [Drivers -> Rings \cup {0}]
        /\ request \in [Riders -> RequestSet] /\ request[r] \in RequestSet
        /\ was \in [Riders -> SUBSET Drivers] /\ steady \in [Riders -> SUBSET Drivers]
    BY DEF DispatchInv, DispatchShape
  <1>1. PICK n \in Nat \ {0} : Rings = 1..n
    BY DEF DispatchAssumed
  <1>2. request[r].radius \in 1..n /\ request[r].candidates \subseteq Drivers \X Rings
    BY <1>0, <1>1 DEF RequestSet
  <1>3. CASE Dispatch!AskMatch(r)
    <2> DEFINE q == [request[r] EXCEPT !.pc = "search"]
    <2>1. /\ request[r].pc = "idle" /\ request' = [request EXCEPT ![r] = q]
          /\ was' = [was EXCEPT ![r] = AvailableNow]
          /\ steady' = [steady EXCEPT ![r] = {d \in Drivers : ring[d] # 0 /\ Dispatch!Available(d)}]
          /\ UNCHANGED <<ring, beat, status, now, stale>>
      BY <1>3 DEF Dispatch!AskMatch, AvailableNow
    <2>2. q \in RequestSet /\ q.pc = "search" /\ q.radius = request[r].radius
      BY <1>0 DEF RequestSet
    <2> HIDE DEF q
    <2>3. /\ request'[r] = q /\ was'[r] = AvailableNow
          /\ steady'[r] = {d \in Drivers : ring[d] # 0 /\ Dispatch!Available(d)}
          /\ \A u \in Riders \ {r} : request'[u] = request[u] /\ was'[u] = was[u] /\ steady'[u] = steady[u]
      BY <1>0, <2>1
    <2>4. AvailableNow' = AvailableNow
      BY <2>1 DEF AvailableNow, Dispatch!Available, Dispatch!Suits
    <2>5. DispatchShape' /\ Dispatch!IndexedHaveHeartbeats'
      BY <1>0, <2>1, <2>2 DEF DispatchShape, Dispatch!IndexedHaveHeartbeats, AvailableNow
    <2>6. request[r].radius = 1
      BY <1>0, <2>1 DEF RiderKnows
    <2>7. RiderKnows(r)' /\ RightAnswer(r)'
      BY <1>0, <1>1, <2>1, <2>2, <2>3, <2>4, <2>6 DEF RiderKnows, RightAnswer, AvailableNow
    <2>8. \A u \in Riders \ {r} : RiderKnows(u)' /\ RightAnswer(u)'
      BY <1>0, <2>1, <2>3, <2>4 DEF RiderKnows, RightAnswer, Dispatch!Asking
    <2> QED
      BY <2>5, <2>7, <2>8 DEF DispatchInv
  <1>4. CASE Dispatch!Search(r)
    <2> DEFINE found == {<<d, ring[d]>> : d \in {e \in Drivers : ring[e] \in 1..request[r].radius}}
    <2>1. /\ request[r].pc = "search"
          /\ request' = IF found = {} THEN Dispatch!Widen(r)
                        ELSE [request EXCEPT ![r] = [@ EXCEPT !.pc = "status", !.candidates = found]]
          /\ UNCHANGED <<ring, beat, status, now, stale, was, steady>>
      BY <1>4 DEF Dispatch!Search
    <2>2. Dispatch!Asking(r) /\ steady[r] \subseteq Drivers
      BY <1>0, <2>1 DEF Dispatch!Asking
    <2>3. \A d \in steady[r] : ring[d] \in 1..n /\ ring[d] >= request[r].radius
      BY <1>0, <1>1, <2>2 DEF RiderKnows
    <2>4. \A d \in steady[r] : ring[d] = request[r].radius => <<d, ring[d]>> \in found
      BY <1>2, <2>2, <2>3
    <2>5. found \subseteq Drivers \X Rings
      BY <1>0, <1>1
    <2> HIDE DEF found
    <2>6. CASE found = {}
      <3>1. \A d \in steady[r] : ring[d] # request[r].radius
        BY <2>4, <2>6
      <3> QED
        BY <2>1, <2>2, <2>6, <3>1, WidenKeeps
    <2>7. CASE found # {}
      <3> DEFINE q == [request[r] EXCEPT !.pc = "status", !.candidates = found]
      <3>1. request' = [request EXCEPT ![r] = q]
        BY <2>1, <2>7
      <3>2. /\ q \in RequestSet /\ q.pc = "status" /\ q.candidates = found
            /\ q.radius = request[r].radius
        BY <1>0, <2>5 DEF RequestSet
      <3> HIDE DEF q
      <3>3. request'[r] = q
        BY <1>0, <3>1
      <3>4. AvailableNow' = AvailableNow
        BY <2>1 DEF AvailableNow, Dispatch!Available, Dispatch!Suits
      <3>5. RiderKnows(r)' /\ RightAnswer(r)'
        BY <1>0, <2>1, <2>2, <2>4, <3>2, <3>3, <3>4 DEF RiderKnows, RightAnswer
      <3> QED
        BY <2>1, <3>1, <3>2, <3>5, RiderKeeps
    <2> QED
      BY <2>6, <2>7
  <1>5. CASE Dispatch!Rank(r)
    <2> DEFINE avail == {c \in request[r].candidates : Dispatch!Available(c[1])}
    <2>1. /\ request[r].pc = "status"
          /\ IF avail = {} THEN request' = Dispatch!Widen(r)
             ELSE \E best \in avail :
                    /\ \A c \in avail : Dispatch!Eta(best) <= Dispatch!Eta(c)
                    /\ request' = Dispatch!Answer(r, best[1])
          /\ UNCHANGED <<ring, beat, status, now, stale, was, steady>>
      BY <1>5 DEF Dispatch!Rank
    <2>2. Dispatch!Asking(r) /\ steady[r] \subseteq AvailableNow /\ AvailableNow \subseteq was[r]
      BY <1>0, <2>1 DEF Dispatch!Asking, RiderKnows
    <2>3. CASE avail = {}
      <3>1. ASSUME NEW d \in steady[r], ring[d] = request[r].radius
            PROVE  FALSE
        <4>1. <<d, ring[d]>> \in request[r].candidates
          BY <1>0, <2>1, <2>2, <3>1 DEF RiderKnows
        <4>2. Dispatch!Available(d)
          BY <2>2 DEF AvailableNow
        <4>3. <<d, ring[d]>>[1] = d
          OBVIOUS
        <4>4. <<d, ring[d]>> \in avail
          BY <4>1, <4>2, <4>3
        <4> QED
          BY <2>3, <4>4
      <3>2. request' = Dispatch!Widen(r)
        BY <2>1, <2>3
      <3>3. UNCHANGED <<ring, beat, status, now, stale, was, steady>>
        BY <2>1
      <3> HIDE DEF avail
      <3> QED
        BY <2>2, <3>1, <3>2, <3>3, WidenKeeps
    <2>4. ASSUME NEW best \in avail, \A c \in avail : Dispatch!Eta(best) <= Dispatch!Eta(c),
                 request' = Dispatch!Answer(r, best[1])
          PROVE  DispatchInv'
      <3> DEFINE q == [request[r] EXCEPT !.pc = "done", !.match = best[1]]
      <3>1. best[1] \in Drivers /\ Dispatch!Available(best[1])
        BY <1>2
      <3>2. best[1] \in was[r] /\ best[1] # Dispatch!NoMatch
        BY <2>2, <3>1 DEF AvailableNow, DispatchAssumed
      <3>3. request' = [request EXCEPT ![r] = q]
        BY <2>4 DEF Dispatch!Answer
      <3>4. /\ q \in RequestSet /\ q.pc = "done" /\ q.match = best[1]
            /\ q.candidates = request[r].candidates
        BY <1>0, <3>1 DEF RequestSet
      <3> HIDE DEF q
      <3>5. request'[r] = q
        BY <1>0, <3>3
      <3>6. \A c \in request[r].candidates : c[1] \in steady[r] => c \in avail
        BY <2>2 DEF AvailableNow
      <3>7. best \in request[r].candidates
        OBVIOUS
      <3>8. \A c : Dispatch!Eta(c)' = Dispatch!Eta(c)
        BY DEF Dispatch!Eta
      <3> HIDE DEF avail
      <3>9. RightAnswer(r)'
        BY <2>1, <2>4, <3>2, <3>4, <3>5, <3>6, <3>7, <3>8 DEF RightAnswer
      <3>10. RiderKnows(r)'
        BY <3>4, <3>5 DEF RiderKnows, Dispatch!Asking
      <3>11. UNCHANGED <<ring, beat, status, now, stale, was, steady>>
        BY <2>1
      <3> QED
        BY <3>3, <3>4, <3>9, <3>10, <3>11, RiderKeeps
    <2> HIDE DEF avail
    <2> QED
      BY <2>1, <2>3, <2>4
  <1> QED
    BY <1>3, <1>4, <1>5

LEMMA DispatchInvStep ==
    ASSUME DispatchAssumed, DispatchInv, Dispatch!Next \/ UNCHANGED dispatchVars
    PROVE  DispatchInv'
  <1>0. /\ DispatchShape /\ Dispatch!IndexedHaveHeartbeats
        /\ \A r \in Riders : RiderKnows(r) /\ RightAnswer(r)
        /\ ring \in [Drivers -> Rings \cup {0}] /\ beat \in [Drivers -> -1..MaxNow]
        /\ now \in 0..MaxNow /\ stale \subseteq Drivers
        /\ was \in [Riders -> SUBSET Drivers] /\ steady \in [Riders -> SUBSET Drivers]
    BY DEF DispatchInv, DispatchShape
  <1>1. now \in -1..MaxNow /\ -1 \in -1..MaxNow /\ now # -1
    BY <1>0 DEF DispatchAssumed
  <1>2. ASSUME Dispatch!Observe
        PROVE  was' \in [Riders -> SUBSET Drivers] /\ steady' \in [Riders -> SUBSET Drivers]
    BY <1>0, <1>2 DEF Dispatch!Observe
  <1>3. ASSUME NEW d \in Drivers, NEW z \in Rings, Dispatch!UpdateLocation(d, z)
        PROVE  DispatchInv'
    <2>1. /\ ring' = [ring EXCEPT ![d] = z] /\ beat' = [beat EXCEPT ![d] = now]
          /\ Dispatch!Observe /\ UNCHANGED <<now, stale, request>>
      BY <1>3 DEF Dispatch!UpdateLocation
    <2>2. DispatchShape'
      BY <1>0, <1>1, <1>2, <2>1 DEF DispatchShape
    <2>3. Dispatch!IndexedHaveHeartbeats'
      BY <1>0, <1>1, <2>1 DEF Dispatch!IndexedHaveHeartbeats
    <2> QED
      BY <2>1, <2>2, <2>3, ObserveKeeps
  <1>4. ASSUME NEW d \in Drivers, NEW s \in {"AVAILABLE", "ON_TRIP", "OFFLINE"},
               Dispatch!UpdateStatus(d, s)
        PROVE  DispatchInv'
    <2>1. /\ ring' = [ring EXCEPT ![d] = IF s = "OFFLINE" THEN 0 ELSE @]
          /\ beat' = [beat EXCEPT ![d] = CASE s = "OFFLINE" -> -1
                                           [] s = "AVAILABLE" -> now
                                           [] OTHER -> @]
          /\ Dispatch!Observe /\ UNCHANGED <<now, stale, request>>
      BY <1>4 DEF Dispatch!UpdateStatus
    <2>2. ring'[d] = IF s = "OFFLINE" THEN 0 ELSE ring[d]
      BY <1>0, <2>1
    <2>3. beat'[d] = IF s = "OFFLINE" THEN -1 ELSE IF s = "AVAILABLE" THEN now ELSE beat[d]
      BY <1>0, <2>1
    <2>4. /\ ring' \in [Drivers -> Rings \cup {0}] /\ beat' \in [Drivers -> -1..MaxNow]
          /\ \A e \in Drivers \ {d} : ring'[e] = ring[e] /\ beat'[e] = beat[e]
      <3>1. ring' \in [Drivers -> Rings \cup {0}] /\ \A e \in Drivers \ {d} : ring'[e] = ring[e]
        BY <1>0, <2>1
      <3>2. DOMAIN beat' = Drivers /\ \A e \in Drivers \ {d} : beat'[e] = beat[e]
        BY <1>0, <2>1
      <3>3. beat'[d] \in -1..MaxNow
        BY <1>0, <1>1, <2>3
      <3>4. \A e \in Drivers : beat'[e] \in -1..MaxNow
        BY <1>0, <3>2, <3>3
      <3>5. beat' = [e \in Drivers |-> beat'[e]]
        BY <2>1, <3>2
      <3> QED
        BY <3>1, <3>2, <3>4, <3>5
    <2>5. DispatchShape'
      BY <1>0, <1>2, <2>1, <2>4 DEF DispatchShape
    <2>6. Dispatch!IndexedHaveHeartbeats'
      BY <1>0, <1>1, <2>2, <2>3, <2>4 DEF Dispatch!IndexedHaveHeartbeats
    <2> QED
      BY <2>1, <2>5, <2>6, ObserveKeeps
  <1>5. CASE Dispatch!ScanStale
    <2>1. stale' \subseteq Drivers /\ UNCHANGED <<ring, beat, status, now, request, was, steady>>
      BY <1>5 DEF Dispatch!ScanStale
    <2>2. DispatchShape' /\ Dispatch!IndexedHaveHeartbeats'
      BY <1>0, <2>1 DEF DispatchShape, Dispatch!IndexedHaveHeartbeats
    <2>3. \A r \in Riders : RiderKnows(r)' /\ RightAnswer(r)'
      BY <1>0, <2>1 DEF RiderKnows, RightAnswer, Dispatch!Asking, AvailableNow, Dispatch!Available,
         Dispatch!Suits
    <2> QED
      BY <2>2, <2>3 DEF DispatchInv
  <1>6. CASE Dispatch!Evict
    <2>1. /\ stale' = {} /\ beat' = [d \in Drivers |-> IF d \in stale THEN -1 ELSE beat[d]]
          /\ ring' = [d \in Drivers |-> IF d \in stale THEN 0 ELSE ring[d]]
          /\ Dispatch!Observe /\ UNCHANGED <<now, request>>
      BY <1>6 DEF Dispatch!Evict
    <2>2. DispatchShape'
      BY <1>0, <1>1, <1>2, <2>1 DEF DispatchShape
    <2>3. Dispatch!IndexedHaveHeartbeats'
      BY <1>0, <2>1 DEF Dispatch!IndexedHaveHeartbeats
    <2> QED
      BY <2>1, <2>2, <2>3, ObserveKeeps
  <1>7. CASE Dispatch!Passes
    <2>1. now' \in 0..MaxNow /\ UNCHANGED <<ring, beat, status, stale, request, was, steady>>
      BY <1>0, <1>7 DEF Dispatch!Passes, DispatchAssumed
    <2>2. DispatchShape' /\ Dispatch!IndexedHaveHeartbeats'
      BY <1>0, <2>1 DEF DispatchShape, Dispatch!IndexedHaveHeartbeats
    <2>3. \A r \in Riders : RiderKnows(r)' /\ RightAnswer(r)'
      BY <1>0, <2>1 DEF RiderKnows, RightAnswer, Dispatch!Asking, AvailableNow, Dispatch!Available,
         Dispatch!Suits
    <2> QED
      BY <2>2, <2>3 DEF DispatchInv
  <1>8. CASE UNCHANGED dispatchVars
    <2>1. UNCHANGED <<ring, beat, status, now, stale, request, was, steady>>
      BY <1>8 DEF dispatchVars
    <2>2. DispatchShape' /\ Dispatch!IndexedHaveHeartbeats'
      BY <1>0, <2>1 DEF DispatchShape, Dispatch!IndexedHaveHeartbeats
    <2>3. \A r \in Riders : RiderKnows(r)' /\ RightAnswer(r)'
      BY <1>0, <2>1 DEF RiderKnows, RightAnswer, Dispatch!Asking, AvailableNow, Dispatch!Available,
         Dispatch!Suits
    <2> QED
      BY <2>2, <2>3 DEF DispatchInv
  <1> QED
    BY <1>3, <1>4, <1>5, <1>6, <1>7, <1>8, FindNearestKeeps
    DEF Dispatch!Next, Dispatch!Driving, Dispatch!DriverStates, Dispatch!FindNearest

LEMMA DispatchInvSuffices ==
    ASSUME DispatchInv
    PROVE  Dispatch!TypeOK /\ Dispatch!DispatchIsSound
  <1>1. Dispatch!MatchesAreReal
    BY DEF DispatchInv, RightAnswer, Dispatch!MatchesAreReal
  <1>2. Dispatch!TypeOK
    BY DEF DispatchInv, DispatchShape, RequestSet, Dispatch!TypeOK
  <1> QED
    BY <1>1, <1>2 DEF DispatchInv, Dispatch!DispatchIsSound

-----------------------------------------------------------------------------
(***************************************************************************)
(* The replicator.  While no write overtakes another, what is being        *)
(* delivered and what is queued are the writes after the last delivered    *)
(* one, in the order of their numbers and of their times, and each region  *)
(* holds the newest of the writes it has seen.                             *)
(***************************************************************************)
EntrySet == [at : Int, key : RegionKeys, seq : Nat]

RegionShape ==
  /\ instant \in Nat /\ lag \in Nat
  /\ primary \in [RegionKeys -> Nat] /\ secondary \in [RegionKeys -> Nat]
  /\ backlog \in Seq(EntrySet) /\ delivering \in Seq(EntrySet)
  /\ applied \in BOOLEAN /\ overtaken \in BOOLEAN /\ aIsDown \in BOOLEAN /\ promoting \in BOOLEAN
  /\ seqNo \in Nat /\ delivered \in Nat
  /\ keyOf \in Seq(RegionKeys)
  /\ arbiter \in [epoch : Nat, region : {"A", "B"}]
  /\ Region!RegionTypeOK

\* An entry carries the key of its number.
Numbered(e, keys) == e.seq \in 1..Len(keys) /\ keys[e.seq] = e.key
EntriesNumbered ==
  /\ \A i \in 1..Len(backlog) : Numbered(backlog[i], keyOf)
  /\ \A i \in 1..Len(delivering) : Numbered(delivering[i], keyOf)

\* v is the newest write to k among the first n.
Newest(k, v, n) ==
  /\ v \in 0..n
  /\ v # 0 => keyOf[v] = k
  /\ \A s \in v + 1..n : keyOf[s] # k

Landed == IF applied THEN delivered + 1 ELSE delivered

InStep ==
  /\ Len(delivering) + Len(backlog) = seqNo - delivered
  /\ \A i \in 1..Len(delivering) : delivering[i].seq = delivered + i
  /\ \A i \in 1..Len(backlog) : backlog[i].seq = delivered + Len(delivering) + i
  /\ \A i, j \in 1..Len(backlog) : i <= j => backlog[i].at <= backlog[j].at
  /\ \A k \in RegionKeys : Newest(k, primary[k], seqNo) /\ Newest(k, secondary[k], Landed)

OneFailover ==
  /\ aIsDown => arbiter.epoch = 2
  /\ ~aIsDown => arbiter.epoch = 1 /\ arbiter.region = "A"

RegionsInv == RegionShape /\ EntriesNumbered /\ OneFailover /\ (~overtaken => InStep)

LEMMA RegionsInvInit ==
    ASSUME Lags \subseteq Nat, Region!RegionInit
    PROVE  RegionsInv
  <1> USE DEF Region!RegionInit
  <1>1. backlog \in Seq(EntrySet) /\ delivering \in Seq(EntrySet) /\ keyOf \in Seq(RegionKeys)
    OBVIOUS
  <1>2. Len(backlog) = 0 /\ Len(delivering) = 0 /\ Len(keyOf) = 0 /\ 1..0 = {}
    OBVIOUS
  <1>3. RegionShape
    <2>1. instant \in Nat /\ lag \in Nat
      OBVIOUS
    <2>2. arbiter \in [epoch : Nat, region : {"A", "B"}]
      OBVIOUS
    <2>3. Region!RegionTypeOK
      BY <1>2 DEF Region!RegionTypeOK
    <2> QED
      BY <1>1, <2>1, <2>2, <2>3 DEF RegionShape
  <1>4. EntriesNumbered
    BY <1>2 DEF EntriesNumbered
  <1>5. \A k \in RegionKeys : Newest(k, 0, 0)
    BY DEF Newest
  <1>6. InStep
    BY <1>2, <1>5 DEF InStep, Landed
  <1> QED
    BY <1>3, <1>4, <1>6 DEF RegionsInv, OneFailover

\* A write gets the next number, and is the newest of its key.
LEMMA WriteKeeps ==
    ASSUME RegionsInv, NEW k \in RegionKeys, Region!WritePrimary(k)
    PROVE  RegionsInv'
  <1> DEFINE e == [at |-> instant + lag, key |-> k, seq |-> seqNo + 1]
             n == Len(backlog)
             d == Len(delivering)
  <1>1. /\ backlog \in Seq(EntrySet) /\ delivering \in Seq(EntrySet) /\ keyOf \in Seq(RegionKeys)
        /\ n \in Nat /\ d \in Nat /\ Len(keyOf) = seqNo /\ seqNo \in Nat /\ delivered \in Nat
        /\ instant \in Nat /\ lag \in Nat /\ delivered <= seqNo
        /\ overtaken \in BOOLEAN
        /\ \A i \in 1..n : backlog[i] \in EntrySet
    BY DEF RegionsInv, RegionShape, Region!RegionTypeOK
  <1>2. /\ ~aIsDown /\ seqNo' = seqNo + 1
        /\ primary' = [primary EXCEPT ![k] = seqNo + 1]
        /\ backlog' = Append(backlog, e)
        /\ keyOf' = Append(keyOf, k)
        /\ overtaken' = (overtaken \/ \E i \in DOMAIN backlog : backlog[i].at > instant + lag)
        /\ UNCHANGED <<instant, lag, secondary, delivering, applied, delivered, inRotation, arbiter,
                       promoting, aIsDown>>
    BY DEF Region!WritePrimary
  <1>3. e \in EntrySet
    BY <1>1 DEF EntrySet
  <1>4. /\ backlog' \in Seq(EntrySet) /\ Len(backlog') = n + 1
        /\ backlog'[n + 1] = e /\ \A i \in 1..n : backlog'[i] = backlog[i]
    BY <1>1, <1>2, <1>3
  <1>5. /\ keyOf' \in Seq(RegionKeys) /\ Len(keyOf') = seqNo + 1
        /\ keyOf'[seqNo + 1] = k /\ \A s \in 1..seqNo : keyOf'[s] = keyOf[s]
    BY <1>1, <1>2
  <1>6. \A i \in 1..n + 1 : i = n + 1 \/ i \in 1..n
    BY <1>1
  <1> HIDE DEF n, d
  <1>7. RegionShape'
    <2>1. primary' \in [RegionKeys -> Nat]
      BY <1>1, <1>2 DEF RegionsInv, RegionShape
    <2>2. overtaken' \in BOOLEAN
      BY <1>2 DEF RegionsInv, RegionShape
    <2>3. Region!RegionTypeOK'
      BY <1>1, <1>2, <1>5 DEF RegionsInv, RegionShape, Region!RegionTypeOK
    <2> QED
      BY <1>1, <1>2, <1>4, <1>5, <2>1, <2>2, <2>3 DEF RegionsInv, RegionShape
  <1>8. EntriesNumbered'
    <2>1. ASSUME NEW x, Numbered(x, keyOf)
          PROVE  Numbered(x, keyOf')
      BY <1>1, <1>5, <2>1 DEF Numbered
    <2>2. Numbered(e, keyOf')
      BY <1>1, <1>5 DEF Numbered
    <2>3. \A i \in 1..n + 1 : Numbered(backlog'[i], keyOf')
      <3> SUFFICES ASSUME NEW i \in 1..n + 1
                   PROVE  Numbered(backlog'[i], keyOf')
        OBVIOUS
      <3>1. CASE i = n + 1
        BY <1>4, <2>2, <3>1
      <3>2. CASE i \in 1..n
        <4>1. Numbered(backlog[i], keyOf) /\ backlog'[i] = backlog[i]
          BY <1>4, <3>2 DEF RegionsInv, EntriesNumbered, n
        <4> QED
          BY <2>1, <4>1
      <3> QED
        BY <1>6, <3>1, <3>2
    <2>4. \A i \in 1..Len(delivering) : Numbered(delivering[i], keyOf')
      BY <2>1 DEF RegionsInv, EntriesNumbered
    <2> QED
      BY <1>2, <1>4, <2>3, <2>4 DEF EntriesNumbered
  <1>9. ASSUME ~overtaken'
        PROVE  InStep'
    <2>1. ~overtaken /\ \A i \in 1..n : backlog[i].at <= instant + lag
      <3>1. \A i \in 1..n : backlog[i].at \in Int
        BY <1>1 DEF EntrySet
      <3>2. DOMAIN backlog = 1..n
        BY <1>1 DEF n
      <3>3. ~overtaken /\ ~(\E i \in 1..n : backlog[i].at > instant + lag)
        BY <1>2, <1>9, <3>2
      <3>4. \A i \in 1..n : backlog[i].at <= instant + lag
        BY <1>1, <3>1, <3>3
      <3> QED
        BY <3>3, <3>4
    <2>2. InStep
      BY <2>1 DEF RegionsInv
    <2>3. d + n = seqNo - delivered
      BY <2>2 DEF InStep, n, d
    <2>4. d + (n + 1) = seqNo' - delivered'
      <3>1. d + (n + 1) = seqNo + 1 - delivered
        BY <1>1, <2>3
      <3>2. seqNo' - delivered' = seqNo + 1 - delivered
        BY <1>1, <1>2
      <3> QED
        BY <3>1, <3>2, Zenon
    <2>5. \A i \in 1..n + 1 : backlog'[i].seq = delivered + d + i
      <3>1. e.seq = delivered + d + (n + 1)
        BY <1>1, <2>3
      <3>2. \A i \in 1..n : backlog[i].seq = delivered + d + i
        BY <2>2 DEF InStep, n, d
      <3> HIDE DEF e
      <3> QED
        BY <1>4, <1>6, <3>1, <3>2
    <2>6. \A i, j \in 1..n + 1 : i <= j => backlog'[i].at <= backlog'[j].at
      <3> SUFFICES ASSUME NEW i \in 1..n + 1, NEW j \in 1..n + 1, i <= j
                   PROVE  backlog'[i].at <= backlog'[j].at
        OBVIOUS
      <3>1. CASE j \in 1..n
        <4>1. i \in 1..n
          BY <1>1, <3>1
        <4> QED
          BY <1>4, <2>2, <3>1, <4>1 DEF InStep, n
      <3>2. CASE j = n + 1 /\ i \in 1..n
        BY <1>4, <2>1, <3>2
      <3>3. CASE j = n + 1 /\ i = n + 1
        BY <1>1, <1>4, <3>3
      <3> QED
        BY <1>6, <3>1, <3>2, <3>3
    <2>7. ASSUME NEW q \in RegionKeys
          PROVE  Newest(q, primary[q], seqNo) /\ Newest(q, secondary[q], Landed)
      BY <2>2 DEF InStep
    <2>8. Landed \in 0..seqNo
      <3>1. applied => d >= 1
        BY DEF RegionsInv, RegionShape, Region!RegionTypeOK, d
      <3> QED
        BY <1>1, <2>3, <3>1 DEF Landed
    <2>9. ASSUME NEW q \in RegionKeys
          PROVE  Newest(q, secondary[q], Landed)'
      <3>1. secondary' = secondary /\ Landed' = Landed
        BY <1>2 DEF Landed
      <3>2. secondary[q] \in 0..Landed
        BY <2>7 DEF Newest
      <3>3. \A s \in 1..Landed : keyOf'[s] = keyOf[s]
        BY <1>1, <1>5, <2>8
      <3>4. \A s \in secondary[q] + 1..Landed : s \in 1..Landed
        BY <2>8, <3>2
      <3> QED
        BY <2>7, <2>8, <3>1, <3>2, <3>3, <3>4 DEF Newest
    <2>10. ASSUME NEW q \in RegionKeys
           PROVE  Newest(q, primary[q], seqNo)'
      <3>1. CASE q = k
        <4>1. primary'[q] = seqNo + 1
          BY <1>2, <3>1 DEF RegionsInv, RegionShape
        <4>2. seqNo + 1 + 1..seqNo + 1 = {}
          BY <1>1
        <4> QED
          BY <1>1, <1>2, <1>5, <3>1, <4>1, <4>2 DEF Newest
      <3>2. CASE q # k
        <4>1. primary'[q] = primary[q]
          BY <1>2, <3>2 DEF RegionsInv, RegionShape
        <4>2. primary[q] \in 0..seqNo
          BY <2>7 DEF Newest
        <4>3. \A s \in primary[q] + 1..seqNo + 1 : s \in primary[q] + 1..seqNo \/ s = seqNo + 1
          BY <1>1, <4>2
        <4>4. \A s \in primary[q] + 1..seqNo : s \in 1..seqNo
          BY <1>1, <4>2
        <4> QED
          BY <1>1, <1>2, <1>5, <2>7, <3>2, <4>1, <4>2, <4>3, <4>4 DEF Newest
      <3> QED
        BY <3>1, <3>2
    <2> QED
      BY <1>2, <1>4, <2>2, <2>4, <2>5, <2>6, <2>9, <2>10 DEF InStep, d
  <1>10. OneFailover'
    BY <1>2 DEF RegionsInv, OneFailover
  <1> QED
    BY <1>7, <1>8, <1>9, <1>10 DEF RegionsInv

\* The loop takes the entries that are due: while none has overtaken another they are the
\* first ones of the queue.
LEMMA TakeKeeps ==
    ASSUME RegionsInv, Region!TakeReady
    PROVE  RegionsInv'
  <1> DEFINE n == Len(backlog)
             due == {i \in DOMAIN backlog : backlog[i].at <= instant}
  <1>1. /\ backlog \in Seq(EntrySet) /\ n \in Nat /\ DOMAIN backlog = 1..n
        /\ instant \in Nat /\ delivering = <<>> /\ Len(delivering) = 0
        /\ \A i \in 1..n : backlog[i] \in EntrySet
    BY DEF RegionsInv, RegionShape, Region!TakeReady
  <1>2. due \in SUBSET (1..n) /\ due # {} /\ DOMAIN backlog \ due = 1..n \ due
    BY <1>1 DEF Region!TakeReady
  <1> HIDE DEF due
  <1>3. /\ delivering' = Region!Queued(due) /\ backlog' = Region!Queued(1..n \ due)
        /\ UNCHANGED <<instant, lag, primary, secondary, applied, seqNo, delivered, inRotation, arbiter,
                       promoting, aIsDown, keyOf, overtaken>>
    BY <1>1 DEF Region!TakeReady, due
  <1>4. \A S : Region!Cardinality(S) = Cardinality(S)
    BY DEF Region!Cardinality, Cardinality
  <1>5. ASSUME NEW I \in SUBSET (1..n)
        PROVE  /\ Region!Queued(I) \in Seq(EntrySet) /\ Len(Region!Queued(I)) = Cardinality(I)
               /\ Cardinality(I) \in Nat
               /\ \A i \in 1..Cardinality(I) : /\ Nth(I, i) \in I
                                               /\ Region!Queued(I)[i] = backlog[Nth(I, i)]
    <2>1. Region!Queued(I) = [i \in 1..Cardinality(I) |-> backlog[Nth(I, i)]]
      <3> DEFINE W(i) == CHOOSE k \in I : Region!Cardinality({j \in I : j <= k}) = i
      <3>1. Region!Queued(I) = [i \in 1..Region!Cardinality(I) |-> backlog[W(i)]]
        BY DEF Region!Queued
      <3>2. Region!Cardinality(I) = Cardinality(I)
        BY <1>4
      <3>3. \A i \in 1..Cardinality(I) : W(i) = Nth(I, i)
        BY <1>4 DEF Nth
      <3> HIDE DEF W
      <3> QED
        BY <3>1, <3>2, <3>3
    <2>2. /\ Cardinality(I) \in Nat
          /\ \A i \in 1..Cardinality(I) : Nth(I, i) \in I
      BY <1>1, NthInOrder
    <2>3. \A i \in 1..Cardinality(I) : backlog[Nth(I, i)] \in EntrySet
      BY <1>1, <2>2
    <2> QED
      BY <2>1, <2>2, <2>3
  <1>6. /\ delivering' \in Seq(EntrySet) /\ backlog' \in Seq(EntrySet)
        /\ Len(delivering') = Cardinality(due) /\ Len(backlog') = Cardinality(1..n \ due)
        /\ Cardinality(due) \in Nat /\ Cardinality(1..n \ due) \in Nat
        /\ \A i \in 1..Cardinality(due) : Nth(due, i) \in 1..n /\ delivering'[i] = backlog[Nth(due, i)]
        /\ \A i \in 1..Cardinality(1..n \ due) :
             Nth(1..n \ due, i) \in 1..n /\ backlog'[i] = backlog[Nth(1..n \ due, i)]
    BY <1>2, <1>3, <1>5
  <1>7. RegionShape'
    <2>1. ~applied
      BY <1>1 DEF RegionsInv, RegionShape, Region!RegionTypeOK
    <2>2. Region!RegionTypeOK'
      BY <1>3, <2>1 DEF RegionsInv, RegionShape, Region!RegionTypeOK
    <2> QED
      BY <1>3, <1>6, <2>2 DEF RegionsInv, RegionShape
  <1>8. EntriesNumbered'
    <2>1. \A i \in 1..n : Numbered(backlog[i], keyOf)
      BY DEF RegionsInv, EntriesNumbered, n
    <2>2. \A i \in 1..Len(backlog') : Numbered(backlog'[i], keyOf')
      BY <1>3, <1>6, <2>1
    <2>3. \A i \in 1..Len(delivering') : Numbered(delivering'[i], keyOf')
      BY <1>3, <1>6, <2>1
    <2> QED
      BY <2>2, <2>3 DEF EntriesNumbered
  <1>9. ASSUME ~overtaken'
        PROVE  InStep'
    <2>1. InStep
      BY <1>3, <1>9 DEF RegionsInv
    <2>2. /\ n = seqNo - delivered
          /\ \A i \in 1..n : backlog[i].seq = delivered + i /\ backlog[i].at \in Int
          /\ \A i, j \in 1..n : i <= j => backlog[i].at <= backlog[j].at
          /\ delivered \in Nat /\ seqNo \in Nat
      <3>1. delivered \in Nat /\ seqNo \in Nat
        BY DEF RegionsInv, RegionShape
      <3>2. 0 + n = seqNo - delivered
        BY <1>1, <2>1 DEF InStep, n
      <3>3. \A i \in 1..n : backlog[i].seq = delivered + 0 + i
        BY <1>1, <2>1 DEF InStep, n
      <3>4. \A i \in 1..n : backlog[i].at \in Int
        BY <1>1 DEF EntrySet
      <3>5. \A i, j \in 1..n : i <= j => backlog[i].at <= backlog[j].at
        BY <2>1 DEF InStep, n
      <3> HIDE DEF n
      <3> QED
        BY <1>1, <3>1, <3>2, <3>3, <3>4, <3>5
    <2> HIDE DEF n
    <2>3. PICK m \in due : \A i \in due : i <= m
      BY <1>1, <1>2, TopExists
    <2>4. m \in 1..n /\ backlog[m].at <= instant
      BY <1>2, <2>3 DEF due
    <2>5. due = 1..m
      <3>1. ASSUME NEW i \in 1..m
            PROVE  i \in due
        <4>1. i \in 1..n /\ i <= m
          BY <1>1, <2>4
        <4>2. backlog[i].at <= backlog[m].at /\ backlog[i].at \in Int /\ backlog[m].at \in Int
          BY <2>2, <2>4, <4>1
        <4>3. backlog[i].at <= instant
          BY <1>1, <2>4, <4>2
        <4> QED
          BY <1>1, <4>1, <4>3 DEF due
      <3>2. due \subseteq 1..m
        BY <1>1, <1>2, <2>3
      <3> QED
        BY <3>1, <3>2
    <2>6. due = 0 + 1..m /\ 1..n \ due = m + 1..n /\ m \in Nat /\ 0 <= m /\ m <= n
      BY <1>1, <2>4, <2>5
    <2>7. /\ Cardinality(due) = m /\ \A i \in 1..m : Nth(due, i) = i
          /\ Cardinality(1..n \ due) = n - m /\ \A i \in 1..n - m : Nth(1..n \ due, i) = m + i
      <3>1. Cardinality(0 + 1..m) = m - 0 /\ \A i \in 1..m - 0 : Nth(0 + 1..m, i) = 0 + i
        BY <2>6, NthOfStretch
      <3>2. Cardinality(m + 1..n) = n - m /\ \A i \in 1..n - m : Nth(m + 1..n, i) = m + i
        BY <1>1, <2>6, NthOfStretch
      <3>3. m - 0 = m /\ \A i \in 1..m : 0 + i = i
        BY <2>6
      <3> QED
        BY <2>6, <3>1, <3>2, <3>3
    <2>8. /\ Len(delivering') = m /\ \A i \in 1..m : delivering'[i] = backlog[i]
          /\ Len(backlog') = n - m /\ \A i \in 1..n - m : backlog'[i] = backlog[m + i]
      BY <1>6, <2>7
    <2>9. \A i \in 1..n - m : m + i \in 1..n
      BY <1>1, <2>6
    <2>10. Len(delivering') + Len(backlog') = seqNo' - delivered'
      <3>1. m + (n - m) = seqNo - delivered
        BY <1>1, <2>2, <2>6
      <3> QED
        BY <1>3, <2>8, <3>1
    <2>11. \A i \in 1..Len(delivering') : delivering'[i].seq = delivered' + i
      <3>1. \A i \in 1..m : i \in 1..n
        BY <1>1, <2>6
      <3> QED
        BY <1>3, <2>2, <2>8, <3>1
    <2>12. \A i \in 1..Len(backlog') : backlog'[i].seq = delivered' + Len(delivering') + i
      <3>1. \A i \in 1..n - m : backlog'[i].seq = delivered + (m + i)
        BY <2>2, <2>8, <2>9
      <3>2. \A i \in 1..n - m : delivered + (m + i) = delivered + m + i
        BY <1>1, <2>2, <2>6
      <3> QED
        BY <1>3, <2>8, <3>1, <3>2
    <2>13. \A i, j \in 1..Len(backlog') : i <= j => backlog'[i].at <= backlog'[j].at
      <3> SUFFICES ASSUME NEW i \in 1..n - m, NEW j \in 1..n - m, i <= j
                   PROVE  backlog'[i].at <= backlog'[j].at
        BY <2>8
      <3>1. m + i <= m + j
        BY <2>6
      <3> QED
        BY <2>2, <2>8, <2>9, <3>1
    <2>14. \A k \in RegionKeys : Newest(k, primary[k], seqNo)' /\ Newest(k, secondary[k], Landed)'
      BY <1>3, <2>1 DEF InStep, Newest, Landed
    <2> QED
      BY <2>10, <2>11, <2>12, <2>13, <2>14 DEF InStep
  <1>10. OneFailover'
    BY <1>3 DEF RegionsInv, OneFailover
  <1> QED
    BY <1>7, <1>8, <1>9, <1>10 DEF RegionsInv

\* What a queue is without its first entry.
LEMMA TailOf ==
    ASSUME NEW T, NEW q \in Seq(T), q # <<>>
    PROVE  /\ Len(q) \in Nat /\ Len(q) >= 1 /\ q[1] \in T
           /\ Tail(q) \in Seq(T) /\ Len(Tail(q)) = Len(q) - 1
           /\ \A i \in 1..Len(q) - 1 : Tail(q)[i] = q[i + 1]
  OBVIOUS

\* The write at the head reaches the secondary.
LEMMA SetKeeps ==
    ASSUME RegionsInv, Region!SetSecondary
    PROVE  RegionsInv'
  <1> DEFINE e == delivering[1]
  <1>1. /\ delivering \in Seq(EntrySet) /\ delivering # <<>> /\ Len(delivering) >= 1 /\ e \in EntrySet
        /\ Len(delivering) \in Nat
        /\ secondary \in [RegionKeys -> Nat] /\ delivered \in Nat /\ seqNo \in Nat /\ ~applied
        /\ keyOf \in Seq(RegionKeys) /\ Len(keyOf) = seqNo
    BY TailOf DEF RegionsInv, RegionShape, Region!RegionTypeOK, Region!SetSecondary
  <1>2. /\ secondary' = [secondary EXCEPT ![e.key] = e.seq]
        /\ applied' = TRUE
        /\ UNCHANGED <<instant, lag, primary, backlog, delivering, seqNo, delivered, inRotation, arbiter,
                       promoting, aIsDown, keyOf, overtaken>>
    BY DEF Region!SetSecondary
  <1>3. e.key \in RegionKeys /\ e.seq \in Nat /\ Numbered(e, keyOf)
    BY <1>1 DEF EntrySet, RegionsInv, EntriesNumbered
  <1> HIDE DEF e
  <1>4. RegionShape'
    <2>1. secondary' \in [RegionKeys -> Nat]
      BY <1>1, <1>2, <1>3
    <2>2. Region!RegionTypeOK'
      BY <1>1, <1>2 DEF RegionsInv, RegionShape, Region!RegionTypeOK
    <2> QED
      BY <1>2, <2>1, <2>2 DEF RegionsInv, RegionShape
  <1>5. EntriesNumbered'
    BY <1>2 DEF RegionsInv, EntriesNumbered
  <1>6. ASSUME ~overtaken'
        PROVE  InStep'
    <2>1. InStep
      BY <1>2, <1>6 DEF RegionsInv
    <2>2. e.seq = delivered + 1 /\ keyOf[delivered + 1] = e.key
      BY <1>1, <1>3, <2>1 DEF InStep, Numbered, e
    <2>3. Landed = delivered /\ Landed' = delivered + 1
      BY <1>1, <1>2 DEF Landed
    <2>4. ASSUME NEW k \in RegionKeys
          PROVE  Newest(k, primary[k], seqNo)' /\ Newest(k, secondary[k], Landed)'
      <3>1. Newest(k, primary[k], seqNo) /\ Newest(k, secondary[k], delivered)
        BY <2>1, <2>3 DEF InStep
      <3>2. Newest(k, primary[k], seqNo)'
        BY <1>2, <3>1 DEF Newest
      <3>3. CASE k = e.key
        <4>1. secondary'[k] = delivered + 1 /\ delivered + 1 + 1..delivered + 1 = {}
          BY <1>1, <1>2, <1>3, <2>2, <3>3
        <4> QED
          BY <1>1, <1>2, <2>2, <2>3, <3>2, <3>3, <4>1 DEF Newest
      <3>4. CASE k # e.key
        <4>1. secondary'[k] = secondary[k]
          BY <1>1, <1>2, <3>4
        <4>2. secondary[k] \in 0..delivered
          BY <3>1 DEF Newest
        <4>3. \A s \in secondary[k] + 1..delivered + 1 : s \in secondary[k] + 1..delivered \/ s = delivered + 1
          BY <1>1, <4>2
        <4> QED
          BY <1>1, <1>2, <2>2, <2>3, <3>1, <3>2, <3>4, <4>1, <4>2, <4>3 DEF Newest
      <3> QED
        BY <3>3, <3>4
    <2> QED
      BY <1>2, <2>1, <2>4 DEF InStep
  <1>7. OneFailover'
    BY <1>2 DEF RegionsInv, OneFailover
  <1> QED
    BY <1>4, <1>5, <1>6, <1>7 DEF RegionsInv

\* The write at the head is noted, and leaves the list.
LEMMA NoteKeeps ==
    ASSUME RegionsInv, Region!NoteDelivered
    PROVE  RegionsInv'
  <1> DEFINE e == delivering[1]
             d == Len(delivering)
  <1>1. /\ delivering \in Seq(EntrySet) /\ delivering # <<>> /\ applied
        /\ delivered \in Nat /\ seqNo \in Nat /\ delivered <= seqNo /\ Len(keyOf) = seqNo
    BY DEF RegionsInv, RegionShape, Region!RegionTypeOK, Region!NoteDelivered
  <1>2. /\ delivered' = IF e.seq > delivered THEN e.seq ELSE delivered
        /\ delivering' = Tail(delivering)
        /\ applied' = FALSE
        /\ UNCHANGED <<instant, lag, primary, secondary, backlog, seqNo, inRotation, arbiter, promoting,
                       aIsDown, keyOf, overtaken>>
    BY DEF Region!NoteDelivered
  <1>3. /\ d \in Nat /\ d >= 1 /\ e \in EntrySet
        /\ delivering' \in Seq(EntrySet) /\ Len(delivering') = d - 1
        /\ \A i \in 1..d - 1 : delivering'[i] = delivering[i + 1]
    BY <1>1, <1>2, TailOf
  <1>4. e.seq \in Nat /\ Numbered(e, keyOf)
    BY <1>3 DEF EntrySet, RegionsInv, EntriesNumbered
  <1>5. \A i \in 1..d - 1 : i + 1 \in 1..d
    BY <1>3
  <1>6. delivered' \in Nat /\ delivered' <= seqNo
    BY <1>1, <1>2, <1>4 DEF Numbered
  <1> HIDE DEF e
  <1>7. RegionShape'
    <2>1. Region!RegionTypeOK'
      BY <1>2, <1>6 DEF RegionsInv, RegionShape, Region!RegionTypeOK
    <2> QED
      BY <1>2, <1>3, <1>6, <2>1 DEF RegionsInv, RegionShape
  <1>8. EntriesNumbered'
    <2>1. \A i \in 1..d - 1 : Numbered(delivering'[i], keyOf')
      BY <1>2, <1>3, <1>5 DEF RegionsInv, EntriesNumbered
    <2> QED
      BY <1>2, <1>3, <2>1 DEF RegionsInv, EntriesNumbered
  <1>9. ASSUME ~overtaken'
        PROVE  InStep'
    <2>1. InStep
      BY <1>2, <1>9 DEF RegionsInv
    <2>2. /\ d + Len(backlog) = seqNo - delivered
          /\ \A i \in 1..d : delivering[i].seq = delivered + i
          /\ \A i \in 1..Len(backlog) : backlog[i].seq = delivered + d + i
          /\ Len(backlog) \in Nat
      BY <2>1 DEF InStep, RegionsInv, RegionShape
    <2> HIDE DEF d
    <2>3. delivered' = delivered + 1
      <3>1. e.seq = delivered + 1
        BY <1>3, <2>2 DEF e
      <3> QED
        BY <1>1, <1>2, <3>1
    <2>4. Len(delivering') + Len(backlog') = seqNo' - delivered'
      <3>1. Len(backlog') = Len(backlog) /\ seqNo' = seqNo
        BY <1>2
      <3>2. (d - 1) + Len(backlog) = seqNo - (delivered + 1)
        BY <1>1, <1>3, <2>2
      <3> QED
        BY <1>1, <1>3, <2>2, <2>3, <3>1, <3>2
    <2>5. \A i \in 1..Len(delivering') : delivering'[i].seq = delivered' + i
      <3>1. \A i \in 1..d - 1 : delivering'[i].seq = delivered + (i + 1)
        BY <1>3, <1>5, <2>2
      <3>2. \A i \in 1..d - 1 : delivered + (i + 1) = delivered + 1 + i
        BY <1>1, <1>3
      <3> QED
        BY <1>3, <2>3, <3>1, <3>2
    <2>6. \A i \in 1..Len(backlog') : backlog'[i].seq = delivered' + Len(delivering') + i
      <3>1. delivered' + Len(delivering') = delivered + d
        BY <1>1, <1>3, <2>3
      <3> QED
        BY <1>2, <2>2, <3>1
    <2>7. \A i, j \in 1..Len(backlog') : i <= j => backlog'[i].at <= backlog'[j].at
      BY <1>2, <2>1 DEF InStep
    <2>8. Landed' = Landed
      BY <1>1, <1>2, <2>3 DEF Landed
    <2>9. \A k \in RegionKeys : Newest(k, primary[k], seqNo)' /\ Newest(k, secondary[k], Landed)'
      BY <1>2, <2>1, <2>8 DEF InStep, Newest
    <2> QED
      BY <2>4, <2>5, <2>6, <2>7, <2>9 DEF InStep
  <1>10. OneFailover'
    BY <1>2 DEF RegionsInv, OneFailover
  <1> QED
    BY <1>7, <1>8, <1>9, <1>10 DEF RegionsInv

\* The write at the head is lost.
LEMMA FailKeeps ==
    ASSUME RegionsInv, Region!DeliveryFails
    PROVE  RegionsInv'
  <1> DEFINE d == Len(delivering)
  <1>1. /\ delivering \in Seq(EntrySet) /\ delivering # <<>> /\ ~applied
        /\ delivering' = Tail(delivering) /\ overtaken' = TRUE
        /\ UNCHANGED <<instant, lag, primary, secondary, backlog, applied, seqNo, delivered, inRotation,
                       arbiter, promoting, aIsDown, keyOf>>
    BY DEF RegionsInv, RegionShape, Region!DeliveryFails
  <1>2. /\ d \in Nat /\ d >= 1 /\ delivering' \in Seq(EntrySet) /\ Len(delivering') = d - 1
        /\ \A i \in 1..d - 1 : delivering'[i] = delivering[i + 1] /\ i + 1 \in 1..d
    BY <1>1, TailOf
  <1>3. RegionShape'
    <2>1. Region!RegionTypeOK'
      BY <1>1 DEF RegionsInv, RegionShape, Region!RegionTypeOK
    <2> QED
      BY <1>1, <1>2, <2>1 DEF RegionsInv, RegionShape
  <1>4. EntriesNumbered'
    <2>1. \A i \in 1..d - 1 : Numbered(delivering'[i], keyOf')
      BY <1>1, <1>2 DEF RegionsInv, EntriesNumbered
    <2> QED
      BY <1>1, <1>2, <2>1 DEF RegionsInv, EntriesNumbered
  <1>5. OneFailover'
    BY <1>1 DEF RegionsInv, OneFailover
  <1> QED
    BY <1>1, <1>3, <1>4, <1>5 DEF RegionsInv

\* The replicator and both regions stand still.
LEMMA StillKeeps ==
    ASSUME RegionsInv, UNCHANGED Region!replication,
           instant' \in Nat, lag' \in Nat, aIsDown' \in BOOLEAN, promoting' \in BOOLEAN,
           arbiter' \in [epoch : Nat, region : {"A", "B"}], promoting' => aIsDown', OneFailover'
    PROVE  RegionsInv'
  <1>1. UNCHANGED <<primary, secondary, backlog, delivering, applied, seqNo, delivered, keyOf, overtaken>>
    BY DEF Region!replication
  <1>2. RegionShape'
    <2>1. Region!RegionTypeOK'
      BY <1>1 DEF RegionsInv, RegionShape, Region!RegionTypeOK
    <2> QED
      BY <1>1, <2>1 DEF RegionsInv, RegionShape
  <1>3. EntriesNumbered'
    BY <1>1 DEF RegionsInv, EntriesNumbered
  <1>4. ~overtaken' => InStep'
    <2>1. Landed' = Landed
      BY <1>1 DEF Landed
    <2> QED
      BY <1>1, <2>1 DEF RegionsInv, InStep, Newest
  <1> QED
    BY <1>2, <1>3, <1>4 DEF RegionsInv

LEMMA RegionsInvStep ==
    ASSUME Lags \subseteq Nat, RegionsInv, Region!RegionNext \/ UNCHANGED regionVars
    PROVE  RegionsInv'
  <1>1. /\ instant \in Nat /\ lag \in Nat /\ aIsDown \in BOOLEAN /\ promoting \in BOOLEAN
        /\ arbiter \in [epoch : Nat, region : {"A", "B"}] /\ (promoting => aIsDown) /\ OneFailover
    BY DEF RegionsInv, RegionShape, Region!RegionTypeOK
  <1>2. CASE Region!Tick
    <2>1. UNCHANGED Region!replication /\ instant' = instant + 1 /\ UNCHANGED <<lag, arbiter, promoting, aIsDown>>
      BY <1>2 DEF Region!Tick
    <2>2. OneFailover'
      BY <1>1, <2>1 DEF OneFailover
    <2> QED
      BY <1>1, <2>1, <2>2, StillKeeps
  <1>3. CASE Region!ChangeLag
    <2>1. UNCHANGED Region!replication /\ lag' \in Nat /\ UNCHANGED <<instant, arbiter, promoting, aIsDown>>
      BY <1>3 DEF Region!ChangeLag
    <2>2. OneFailover'
      BY <1>1, <2>1 DEF OneFailover
    <2> QED
      BY <1>1, <2>1, <2>2, StillKeeps
  <1>4. CASE Region!LagMonitor \/ UNCHANGED regionVars
    <2>1. UNCHANGED Region!replication /\ UNCHANGED <<instant, lag, arbiter, promoting, aIsDown>>
      BY <1>4 DEF Region!LagMonitor, regionVars, Region!replication
    <2>2. OneFailover'
      BY <1>1, <2>1 DEF OneFailover
    <2> QED
      BY <1>1, <2>1, <2>2, StillKeeps
  <1>5. CASE Region!RaiseEpoch
    <2>1. /\ UNCHANGED Region!replication /\ UNCHANGED <<instant, lag>>
          /\ ~aIsDown /\ aIsDown' = TRUE /\ promoting' = TRUE
          /\ arbiter' = [arbiter EXCEPT !.epoch = @ + 1]
      BY <1>5 DEF Region!RaiseEpoch
    <2>2. arbiter' \in [epoch : Nat, region : {"A", "B"}] /\ arbiter'.epoch = arbiter.epoch + 1
      BY <1>1, <2>1
    <2>3. OneFailover'
      BY <1>1, <2>1, <2>2 DEF OneFailover
    <2> QED
      BY <1>1, <2>1, <2>2, <2>3, StillKeeps
  <1>6. CASE Region!SetRegion
    <2>1. /\ UNCHANGED Region!replication /\ UNCHANGED <<instant, lag, aIsDown>>
          /\ promoting /\ promoting' = FALSE
          /\ arbiter' = [arbiter EXCEPT !.region = "B"]
      BY <1>6 DEF Region!SetRegion
    <2>2. arbiter' \in [epoch : Nat, region : {"A", "B"}] /\ arbiter'.epoch = arbiter.epoch
      BY <1>1, <2>1
    <2>3. OneFailover'
      BY <1>1, <2>1, <2>2 DEF OneFailover
    <2> QED
      BY <1>1, <2>1, <2>2, <2>3, StillKeeps
  <1> QED
    BY <1>2, <1>3, <1>4, <1>5, <1>6, WriteKeeps, TakeKeeps, SetKeeps, NoteKeeps, FailKeeps
       DEF Region!RegionNext, Region!ActivePassive

LEMMA RegionsInvSuffices ==
    ASSUME RegionsInv
    PROVE  Region!RegionTypeOK /\ Region!RegionsConverge
  <1>1. /\ primary \in [RegionKeys -> Nat] /\ secondary \in [RegionKeys -> Nat]
        /\ seqNo \in Nat /\ delivered \in Nat /\ delivered <= seqNo
        /\ keyOf \in Seq(RegionKeys) /\ Len(keyOf) = seqNo
        /\ applied \in BOOLEAN /\ (applied => delivering # <<>>)
        /\ delivering \in Seq(EntrySet) /\ backlog \in Seq(EntrySet)
        /\ Region!RegionTypeOK
    BY DEF RegionsInv, RegionShape, Region!RegionTypeOK
  <1>2. ASSUME ~overtaken
        PROVE  /\ \A s \in 1..delivered : secondary[keyOf[s]] >= s
               /\ backlog = <<>> /\ delivering = <<>> => secondary = primary
               /\ \A k \in RegionKeys : Region!ReadWithFailover(k) # primary[k] => primary[k] > delivered
    <2>1. InStep
      BY <1>2 DEF RegionsInv
    <2>2. ASSUME NEW k \in RegionKeys
          PROVE  Newest(k, primary[k], seqNo) /\ Newest(k, secondary[k], Landed)
      BY <2>1 DEF InStep
    <2>3. Landed \in Nat /\ delivered <= Landed /\ Landed <= seqNo
      <3>1. applied => Len(delivering) \in Nat /\ Len(delivering) >= 1
        BY <1>1, TailOf
      <3>2. Len(delivering) \in Nat /\ Len(backlog) \in Nat /\ Len(delivering) + Len(backlog) = seqNo - delivered
        BY <1>1, <2>1 DEF InStep
      <3> QED
        BY <1>1, <3>1, <3>2 DEF Landed
    <2>4. ASSUME NEW s \in 1..delivered
          PROVE  secondary[keyOf[s]] >= s
      <3>1. s \in 1..seqNo /\ keyOf[s] \in RegionKeys
        BY <1>1
      <3>2. secondary[keyOf[s]] \in 0..Landed /\ s \notin secondary[keyOf[s]] + 1..Landed
        BY <2>2, <3>1 DEF Newest
      <3> QED
        BY <1>1, <2>3, <3>2
    <2>5. ASSUME NEW k \in RegionKeys, primary[k] <= delivered
          PROVE  secondary[k] = primary[k]
      <3>1. primary[k] \in Nat /\ secondary[k] \in 0..Landed
        BY <1>1, <2>2 DEF Newest
      <3>2. primary[k] # 0 => keyOf[primary[k]] = k /\ primary[k] \notin secondary[k] + 1..Landed
        BY <2>2 DEF Newest
      <3>3. secondary[k] # 0 => keyOf[secondary[k]] = k /\ secondary[k] \notin primary[k] + 1..seqNo
        BY <2>2 DEF Newest
      <3>4. ~(secondary[k] < primary[k])
        <4> SUFFICES ASSUME secondary[k] < primary[k]
                     PROVE  FALSE
          OBVIOUS
        <4>1. secondary[k] \in Nat /\ primary[k] \in Nat /\ primary[k] # 0
          BY <2>3, <3>1
        <4>2. primary[k] <= Landed
          BY <1>1, <2>3, <2>5, <4>1
        <4>3. primary[k] \in secondary[k] + 1..Landed
          BY <2>3, <4>1, <4>2
        <4> QED
          BY <3>2, <4>1, <4>3
      <3>5. ~(primary[k] < secondary[k])
        BY <2>3, <3>1, <3>3, <1>1
      <3> QED
        BY <2>3, <3>1, <3>4, <3>5
    <2>6. ASSUME backlog = <<>>, delivering = <<>>
          PROVE  secondary = primary
      <3>1. seqNo - delivered = 0
        BY <2>1, <2>6 DEF InStep
      <3>2. \A k \in RegionKeys : primary[k] <= delivered
        BY <1>1, <2>2, <3>1 DEF Newest
      <3> QED
        BY <1>1, <2>5, <3>2
    <2>7. ASSUME NEW k \in RegionKeys, Region!ReadWithFailover(k) # primary[k]
          PROVE  primary[k] > delivered
      <3>1. secondary[k] # primary[k] /\ primary[k] \in Nat
        BY <1>1, <2>7 DEF Region!ReadWithFailover
      <3> QED
        BY <1>1, <2>5, <3>1
    <2> QED
      BY <2>4, <2>6, <2>7
  <1>3. arbiter.region = "B" => arbiter.epoch = 2 /\ aIsDown
    BY DEF RegionsInv, OneFailover
  <1> QED
    BY <1>1, <1>2, <1>3 DEF Region!RegionsConverge

-----------------------------------------------------------------------------
(***************************************************************************)
(* The hybrid clocks.  A region's clock is not behind any timestamp the    *)
(* region knows of, its own or one that a message brought, so the next     *)
(* timestamp it takes is above them all.                                   *)
(***************************************************************************)
TimeSet == Nat \X Nat
StampSet == [region : Regions, ts : TimeSet, past : SUBSET Nat]

ClockShape ==
  /\ physical \in [Regions -> Nat]
  /\ hlc \in [Regions -> TimeSet]
  /\ stamps \in Seq(StampSet)
  /\ cart \in [Regions -> [ts : TimeSet, items : SUBSET CartItems]]
  /\ Region!ClockTypeOK

\* No known timestamp is ahead of the clock, and every one is above its past.
ClockIsAhead ==
  \A r \in Regions : \A i \in Region!Known(r) :
    i \in 1..Len(stamps) /\ ~Region!After(stamps[i].ts, hlc[r])
StampsAscend ==
  \A j \in 1..Len(stamps) : \A i \in stamps[j].past : Region!After(stamps[j].ts, stamps[i].ts)

ClocksInv == ClockShape /\ ClockIsAhead /\ StampsAscend

\* Times are ordered by the wall clock and then by the counter.
LEMMA TimesOrdered ==
    ASSUME NEW x \in TimeSet, NEW y \in TimeSet
    PROVE  /\ x = y \/ Region!After(x, y) \/ Region!After(y, x)
           /\ ~(Region!After(x, y) /\ Region!After(y, x))
           /\ \A z \in TimeSet : Region!After(x, y) /\ ~Region!After(z, y) => Region!After(x, z)
  <1>1. x[1] \in Nat /\ x[2] \in Nat /\ y[1] \in Nat /\ y[2] \in Nat
    BY DEF TimeSet
  <1>2. x[1] = y[1] /\ x[2] = y[2] => x = y
    BY DEF TimeSet
  <1>3. ASSUME NEW z \in TimeSet, Region!After(x, y), ~Region!After(z, y)
        PROVE  Region!After(x, z)
    <2>1. z[1] \in Nat /\ z[2] \in Nat
      BY DEF TimeSet
    <2> QED
      BY <1>1, <1>3, <2>1 DEF Region!After
  <1> QED
    BY <1>1, <1>2, <1>3 DEF Region!After

LEMMA NowIsLater ==
    ASSUME ClockShape, NEW r \in Regions
    PROVE  Region!Now(r) \in TimeSet /\ Region!After(Region!Now(r), hlc[r])
  <1>1. physical[r] \in Nat /\ hlc[r] \in TimeSet
    BY DEF ClockShape
  <1>2. hlc[r][1] \in Nat /\ hlc[r][2] \in Nat
    BY <1>1 DEF TimeSet
  <1> QED
    BY <1>1, <1>2 DEF Region!Now, Region!After, TimeSet

LEMMA UpdatedIsLater ==
    ASSUME ClockShape, NEW r \in Regions, NEW t \in TimeSet
    PROVE  /\ Region!Updated(r, t) \in TimeSet
           /\ Region!After(Region!Updated(r, t), hlc[r])
           /\ Region!After(Region!Updated(r, t), t)
  <1>1. physical[r] \in Nat /\ hlc[r] \in TimeSet
    BY DEF ClockShape
  <1>2. hlc[r][1] \in Nat /\ hlc[r][2] \in Nat /\ t[1] \in Nat /\ t[2] \in Nat
    BY <1>1 DEF TimeSet
  <1> DEFINE S == {physical[r], hlc[r][1], t[1]}
             wall == CHOOSE w \in S : \A x \in S : w >= x
             larger == IF hlc[r][2] > t[2] THEN hlc[r][2] ELSE t[2]
  <1>3. \E w \in S : \A x \in S : w >= x
    BY <1>1, <1>2
  <1>4. wall \in S /\ \A x \in S : wall >= x
    BY <1>3
  <1>5. /\ wall \in Nat /\ wall >= hlc[r][1] /\ wall >= t[1]
        /\ larger \in Nat /\ larger >= hlc[r][2] /\ larger >= t[2]
    BY <1>1, <1>2, <1>4
  <1>6. Region!Updated(r, t) = IF wall = hlc[r][1] /\ wall = t[1] THEN <<wall, larger + 1>>
                               ELSE IF wall = hlc[r][1] THEN <<wall, hlc[r][2] + 1>>
                               ELSE IF wall = t[1] THEN <<wall, t[2] + 1>>
                               ELSE <<wall, 0>>
    BY DEF Region!Updated
  <1> HIDE DEF wall, larger
  <1> QED
    BY <1>2, <1>5, <1>6 DEF Region!After, TimeSet

LEMMA ClocksInvInit ==
    ASSUME MaxStamps \in Nat, Region!ClockInit
    PROVE  ClocksInv
  <1> USE DEF Region!ClockInit
  <1>1. stamps = <<>> /\ Len(stamps) = 0 /\ \A r \in Regions : Region!Known(r) = {}
    BY DEF Region!Known
  <1>2. ClockShape
    BY <1>1 DEF ClockShape, TimeSet, Region!ClockTypeOK
  <1> QED
    BY <1>1, <1>2 DEF ClocksInv, ClockIsAhead, StampsAscend

\* A region takes a timestamp above its clock, and above what it learns with it.
LEMMA StampKeeps ==
    ASSUME MaxStamps \in Nat, ClocksInv, NEW r \in Regions, NEW ts \in TimeSet, NEW learnt \in SUBSET (1..Len(stamps)),
           Region!Stamp(r, ts, learnt), Region!After(ts, hlc[r]),
           \A i \in learnt : Region!After(ts, stamps[i].ts),
           physical' \in [Regions -> Nat],
           cart' \in [Regions -> [ts : TimeSet, items : SUBSET CartItems]]
    PROVE  ClocksInv'
  <1> DEFINE n == Len(stamps)
             new == [region |-> r, ts |-> ts, past |-> Region!Known(r) \cup learnt]
  <1>1. /\ stamps \in Seq(StampSet) /\ n \in Nat /\ hlc \in [Regions -> TimeSet]
        /\ \A i \in 1..n : stamps[i] \in StampSet /\ stamps[i].past \subseteq 1..(i - 1)
    BY DEF ClocksInv, ClockShape, Region!ClockTypeOK
  <1>2. /\ n < MaxStamps
        /\ hlc' = [hlc EXCEPT ![r] = ts]
        /\ stamps' = Append(stamps, new)
    BY DEF Region!Stamp
  <1>3. \A q \in Regions : Region!Known(q) \in SUBSET (1..n)
    BY DEF ClocksInv, ClockIsAhead
  <1>4. new \in StampSet /\ new.past \subseteq 1..n
    <2>1. Region!Known(r) \cup learnt \in SUBSET (1..n)
      BY <1>3
    <2>2. Region!Known(r) \cup learnt \in SUBSET Nat
      BY <1>1, <2>1
    <2> QED
      BY <2>1, <2>2 DEF StampSet
  <1>5. /\ stamps' \in Seq(StampSet) /\ Len(stamps') = n + 1
        /\ stamps'[n + 1] = new /\ \A i \in 1..n : stamps'[i] = stamps[i]
    BY <1>1, <1>2, <1>4
  <1> HIDE DEF n
  <1>6. \A i \in 1..n + 1 : i = n + 1 \/ i \in 1..n
    BY <1>1
  <1>7. ClockShape'
    <2>1. \A i \in 1..n + 1 : stamps'[i].past \subseteq 1..(i - 1)
      <3> SUFFICES ASSUME NEW i \in 1..n + 1
                   PROVE  stamps'[i].past \subseteq 1..(i - 1)
        OBVIOUS
      <3>1. CASE i = n + 1
        <4>1. i - 1 = n
          BY <1>1, <3>1
        <4>2. stamps'[i].past = new.past
          BY <1>5, <3>1
        <4> QED
          BY <1>4, <4>1, <4>2
      <3>2. CASE i \in 1..n
        <4>1. stamps'[i].past = stamps[i].past
          BY <1>5, <3>2
        <4> QED
          BY <1>1, <3>2, <4>1
      <3> QED
        BY <1>6, <3>1, <3>2
    <2>2. hlc' \in [Regions -> TimeSet]
      BY <1>1, <1>2
    <2>3. DOMAIN stamps' = 1..n + 1 /\ MaxStamps' = MaxStamps
      BY <1>1, <1>5
    <2>4. n + 1 <= MaxStamps
      <3>1. n <= MaxStamps
        BY DEF ClocksInv, ClockShape, Region!ClockTypeOK, n
      <3> QED
        BY <1>1, <1>2 DEF n
    <2> QED
      BY <1>5, <2>1, <2>2, <2>3, <2>4 DEF ClockShape, Region!ClockTypeOK
  <1>8. \A i \in Region!Known(r) : Region!After(ts, stamps[i].ts)
    <2> SUFFICES ASSUME NEW i \in Region!Known(r)
                 PROVE  Region!After(ts, stamps[i].ts)
      OBVIOUS
    <2>1. i \in 1..n /\ ~Region!After(stamps[i].ts, hlc[r])
      BY <1>3 DEF ClocksInv, ClockIsAhead
    <2>2. stamps[i].ts \in TimeSet /\ hlc[r] \in TimeSet
      BY <1>1, <2>1 DEF StampSet
    <2> QED
      BY <2>1, <2>2, TimesOrdered
  <1>9. StampsAscend'
    <2> SUFFICES ASSUME NEW j \in 1..n + 1, NEW i \in stamps'[j].past
                 PROVE  Region!After(stamps'[j].ts, stamps'[i].ts)
      BY <1>5 DEF StampsAscend, Region!After
    <2>1. CASE j \in 1..n
      <3>1. i \in stamps[j].past /\ i \in 1..(j - 1)
        BY <1>1, <1>5, <2>1
      <3>2. i \in 1..n
        BY <1>1, <2>1, <3>1
      <3> QED
        BY <1>5, <2>1, <3>1, <3>2 DEF ClocksInv, StampsAscend, n
    <2>2. CASE j = n + 1
      <3>1. i \in 1..n /\ (i \in Region!Known(r) \/ i \in learnt)
        BY <1>4, <1>5, <2>2
      <3> QED
        BY <1>5, <1>8, <2>2, <3>1
    <2> QED
      BY <1>6, <2>1, <2>2
  <1>10. \A q \in Regions : Region!Known(q)' = IF q = r THEN Region!Known(r) \cup learnt \cup {n + 1}
                                               ELSE Region!Known(q)
    <2> SUFFICES ASSUME NEW q \in Regions
                 PROVE  Region!Known(q)' = IF q = r THEN Region!Known(r) \cup learnt \cup {n + 1}
                                           ELSE Region!Known(q)
      OBVIOUS
    <2> DEFINE Own == {i \in 1..n : stamps[i].region = q}
               Own2 == {i \in 1..n + 1 : stamps'[i].region = q}
    <2>1. Own2 = IF q = r THEN Own \cup {n + 1} ELSE Own
      BY <1>1, <1>5, <1>6
    <2>2. \A i \in Own : stamps'[i].past = stamps[i].past
      BY <1>5
    <2>3. Region!Known(q) = Own \cup UNION {stamps[i].past : i \in Own}
      <3>1. DOMAIN stamps = 1..n
        BY <1>1 DEF n
      <3> QED
        BY <3>1, Zenon DEF Region!Known
    <2>4. Region!Known(q)' = Own2 \cup UNION {stamps'[i].past : i \in Own2}
      <3>1. DOMAIN stamps' = 1..n + 1
        BY <1>5
      <3> QED
        BY <3>1, Zenon DEF Region!Known
    <2> HIDE DEF Own, Own2
    <2>5. CASE q = r
      <3>1. stamps'[n + 1].past = Region!Known(r) \cup learnt
        BY <1>5
      <3> QED
        BY <2>1, <2>2, <2>3, <2>4, <2>5, <3>1
    <2>6. CASE q # r
      BY <2>1, <2>2, <2>3, <2>4, <2>6
    <2> QED
      BY <2>5, <2>6
  <1>11. ClockIsAhead'
    <2> SUFFICES ASSUME NEW q \in Regions, NEW i \in Region!Known(q)'
                 PROVE  i \in 1..n + 1 /\ ~Region!After(stamps'[i].ts, hlc'[q])
      BY <1>5 DEF ClockIsAhead, Region!After
    <2>1. CASE q # r
      <3>1. i \in Region!Known(q) /\ hlc'[q] = hlc[q] /\ i \in 1..n
        BY <1>1, <1>2, <1>3, <1>10, <2>1
      <3> QED
        BY <1>1, <1>5, <3>1 DEF ClocksInv, ClockIsAhead
    <2>2. CASE q = r /\ i \in 1..n
      <3>1. Region!After(ts, stamps[i].ts)
        <4>1. i \in Region!Known(r) \/ i \in learnt
          BY <1>1, <1>10, <2>2
        <4> QED
          BY <4>1, <1>8
      <3>2. stamps[i].ts \in TimeSet /\ hlc'[r] = ts
        BY <1>1, <1>2, <2>2 DEF StampSet
      <3> QED
        BY <1>1, <1>5, <2>2, <3>1, <3>2, TimesOrdered
    <2>3. CASE q = r /\ i = n + 1
      <3>1. hlc'[r] = ts /\ stamps'[i].ts = ts
        BY <1>1, <1>2, <1>5, <2>3
      <3> QED
        BY <1>1, <2>3, <3>1, TimesOrdered
    <2>4. q = r => i \in 1..n \/ i = n + 1
      <3>1. q = r => i \in Region!Known(r) \cup learnt \cup {n + 1}
        BY <1>10
      <3>2. learnt \subseteq 1..n /\ Region!Known(r) \subseteq 1..n
        BY <1>3 DEF n
      <3> QED
        BY <3>1, <3>2
    <2> QED
      BY <2>1, <2>2, <2>3, <2>4
  <1> QED
    BY <1>7, <1>9, <1>11 DEF ClocksInv

LEMMA ClocksInvStep ==
    ASSUME MaxStamps \in Nat, ClocksInv, Region!ClockNext \/ UNCHANGED clockVars
    PROVE  ClocksInv'
  <1>0. ClockShape /\ stamps \in Seq(StampSet) /\ Len(stamps) \in Nat
    BY DEF ClocksInv, ClockShape
  <1>1. ASSUME NEW r \in Regions, Region!PhysicalTick(r)
        PROVE  ClocksInv'
    <2>1. UNCHANGED <<hlc, stamps, cart>> /\ physical' = [physical EXCEPT ![r] = @ + 1]
      BY <1>1 DEF Region!PhysicalTick
    <2>2. physical' \in [Regions -> Nat]
      BY <1>0, <2>1 DEF ClockShape
    <2>3. \A q \in Regions : Region!Known(q)' = Region!Known(q)
      BY <2>1 DEF Region!Known
    <2>4. ClockShape'
      BY <1>0, <2>1, <2>2 DEF ClockShape, Region!ClockTypeOK
    <2>5. ClockIsAhead'
      BY <2>1, <2>3 DEF ClocksInv, ClockIsAhead, Region!After
    <2>6. StampsAscend'
      BY <2>1 DEF ClocksInv, StampsAscend, Region!After
    <2> QED
      BY <2>4, <2>5, <2>6 DEF ClocksInv
  <1>2. ASSUME NEW r \in Regions, NEW items \in SUBSET CartItems, Region!WriteCart(r, items)
        PROVE  ClocksInv'
    <2>1. Region!Now(r) \in TimeSet /\ Region!After(Region!Now(r), hlc[r])
      BY <1>0, NowIsLater
    <2>2. /\ Region!Stamp(r, Region!Now(r), {})
          /\ physical' = physical
          /\ cart' = [cart EXCEPT ![r] = [ts |-> Region!Now(r), items |-> items]]
      BY <1>2 DEF Region!WriteCart
    <2>3. /\ physical' \in [Regions -> Nat]
          /\ cart' \in [Regions -> [ts : TimeSet, items : SUBSET CartItems]]
      BY <1>0, <2>1, <2>2 DEF ClockShape
    <2> QED
      BY <2>1, <2>2, <2>3, StampKeeps
  <1>3. ASSUME NEW r \in Regions, NEW i \in DOMAIN stamps, Region!Receive(r, i)
        PROVE  ClocksInv'
    <2>1. i \in 1..Len(stamps) /\ stamps[i] \in StampSet
      BY <1>0
    <2>2. stamps[i].ts \in TimeSet
      BY <2>1 DEF StampSet
    <2> DEFINE t == Region!Updated(r, stamps[i].ts)
               learnt == {i} \cup stamps[i].past
    <2>3. t \in TimeSet /\ Region!After(t, hlc[r]) /\ Region!After(t, stamps[i].ts)
      BY <1>0, <2>2, UpdatedIsLater
    <2>4. stamps[i].past \subseteq 1..(i - 1)
      BY <1>0, <2>1 DEF ClockShape, Region!ClockTypeOK
    <2>5. learnt \in SUBSET (1..Len(stamps))
      BY <1>0, <2>1, <2>4
    <2>6. \A k \in learnt : Region!After(t, stamps[k].ts)
      <3> SUFFICES ASSUME NEW k \in stamps[i].past
                   PROVE  Region!After(t, stamps[k].ts)
        BY <2>3
      <3>1. Region!After(stamps[i].ts, stamps[k].ts) /\ k \in 1..Len(stamps)
        BY <2>1, <2>5 DEF ClocksInv, StampsAscend
      <3>2. stamps[k].ts \in TimeSet
        <4>1. stamps[k] \in StampSet
          BY <1>0, <3>1
        <4> QED
          BY <4>1 DEF StampSet
      <3> HIDE DEF t
      <3> QED
        BY <2>2, <2>3, <3>1, <3>2, TimesOrdered
    <2>7. Region!Stamp(r, t, learnt) /\ UNCHANGED <<physical, cart>>
      BY <1>3 DEF Region!Receive
    <2>8. /\ physical' \in [Regions -> Nat]
          /\ cart' \in [Regions -> [ts : TimeSet, items : SUBSET CartItems]]
      BY <1>0, <2>7 DEF ClockShape
    <2> HIDE DEF t, learnt
    <2> QED
      BY <2>3, <2>5, <2>6, <2>7, <2>8, StampKeeps
  <1>4. CASE Region!ClocksIdle \/ UNCHANGED clockVars
    <2>1. UNCHANGED <<physical, hlc, stamps, cart>>
      BY <1>4 DEF Region!ClocksIdle, Region!clockVars, clockVars
    <2>2. \A q \in Regions : Region!Known(q)' = Region!Known(q)
      BY <2>1 DEF Region!Known
    <2>3. ClockShape'
      BY <1>0, <2>1 DEF ClockShape, Region!ClockTypeOK
    <2>4. ClockIsAhead'
      BY <2>1, <2>2 DEF ClocksInv, ClockIsAhead, Region!After
    <2>5. StampsAscend'
      BY <2>1 DEF ClocksInv, StampsAscend, Region!After
    <2> QED
      BY <2>3, <2>4, <2>5 DEF ClocksInv
  <1> QED
    BY <1>1, <1>2, <1>3, <1>4 DEF Region!ClockNext

LEMMA ClocksInvSuffices ==
    ASSUME ClocksInv
    PROVE  Region!ClockTypeOK /\ Region!ClocksAreCausal
  <1>1. /\ stamps \in Seq(StampSet) /\ Len(stamps) \in Nat /\ Region!ClockTypeOK
        /\ \A r \in Regions : cart[r].ts \in TimeSet
    BY DEF ClocksInv, ClockShape
  <1>2. \A j \in DOMAIN stamps : \A i \in stamps[j].past : Region!After(stamps[j].ts, stamps[i].ts)
    BY <1>1 DEF ClocksInv, StampsAscend
  <1>3. ASSUME NEW a \in Regions, NEW b \in Regions
        PROVE  /\ Region!OrSetMerge(a, b) = Region!OrSetMerge(b, a)
               /\ Region!Lww(a, b) \subseteq Region!OrSetMerge(a, b)
               /\ Region!Lww(a, b) # Region!Lww(b, a) => cart[a].ts = cart[b].ts
    <2>1. cart[a].ts = cart[b].ts \/ Region!After(cart[a].ts, cart[b].ts)
            \/ Region!After(cart[b].ts, cart[a].ts)
      BY <1>1, TimesOrdered
    <2>2. ~(Region!After(cart[a].ts, cart[b].ts) /\ Region!After(cart[b].ts, cart[a].ts))
      BY <1>1, TimesOrdered
    <2> QED
      BY <2>1, <2>2 DEF Region!OrSetMerge, Region!Lww
  <1> QED
    BY <1>1, <1>2, <1>3 DEF Region!ClocksAreCausal

-----------------------------------------------------------------------------
(***************************************************************************)
(* The limiters.  A token bucket pays for what it lets through: after the  *)
(* first request of an interval was allowed, the tokens left, less what    *)
(* they were refilled by until the start of the interval, and the requests *)
(* allowed since stay within the capacity.  The log holds an entry for     *)
(* every request that is within the window of all others, the counters at  *)
(* least the allowed ones of their window.                                 *)
(***************************************************************************)
Tokens == {x \in Int : x <= Capacity}
CallSet == [pc : {"idle", "taken"}, now : Nat, tokens : Tokens, last : Nat]
ResultSet == [now : Nat, ok : BOOLEAN]
TokenSet == [tokens : Int, last : Nat]

Taken == {c \in Callers : call[c].pc = "taken"}

LimiterShape ==
  /\ limiter \in Limits!Limiters
  /\ clock \in Nat
  /\ call \in [Callers -> CallSet]
  /\ bucket = <<>> \/ (bucket \in Seq(TokenSet) /\ Len(bucket) = 1 /\ bucket[1].tokens <= Capacity)
  /\ windowHits \in [0..(MaxClock \div WindowSeconds) -> Nat]
  /\ results \in Seq(ResultSet)
  /\ unordered \in BOOLEAN
  /\ Len(results) + Cardinality(Taken) <= MaxCalls

\* The calls from a to b that were allowed.
Allowed(a, b) == {i \in 1..Len(results) : results[i].ok /\ results[i].now \in a..b}

\* The bucket is read and written in one piece.
Atomic == limiter = "token_bucket" \/ (limiter = "token_bucket_racy" /\ ~unordered)

BucketPays ==
  Atomic =>
    /\ bucket = <<>> => results = <<>>
    /\ \A a, b \in Nat : a <= b /\ Cardinality(Allowed(a, b)) >= 1 =>
         bucket[1].tokens - bucket[1].last * Rate + Cardinality(Allowed(a, b)) <= Capacity - a * Rate
    /\ \A a, b \in Nat : a <= b => Cardinality(Allowed(a, b)) <= Capacity + (b - a) * Rate

\* A call of the racy bucket that no other has overtaken read what is there.
ReadsStand ==
  limiter = "token_bucket_racy" =>
    \A c \in Callers : call[c].pc = "taken" =>
      /\ call[c].last <= Len(results)
      /\ call[c].last = Len(results) => call[c].tokens = Limits!Refilled(bucket, call[c].now)

\* The request of place i is within the window of every other.
Recent(i) == \A j \in 1..Len(results) : results[j].now < results[i].now + WindowSeconds

LogHolds ==
  limiter = "sliding_window_log" /\ ~unordered =>
    /\ IsFiniteSet(entries)
    /\ \A i \in 1..Len(results) : Recent(i) => [ts |-> results[i].now, member |-> i - 1] \in entries
    /\ \A t \in Nat : Cardinality(Allowed(t - WindowSeconds + 1, t)) <= MaxRequests

InWindow(w) == Allowed(w * WindowSeconds, (w + 1) * WindowSeconds - 1)

CountersHold ==
  limiter \in {"fixed_window", "sliding_window_counter"} =>
    \A w \in 0..(MaxClock \div WindowSeconds) :
      /\ Cardinality(InWindow(w)) <= windowHits[w]
      /\ Cardinality(InWindow(w)) <= MaxRequests

LimiterInv == LimiterShape /\ BucketPays /\ ReadsStand /\ LogHolds /\ CountersHold

LEMMA AllowedFinite ==
    ASSUME results \in Seq(ResultSet), NEW a, NEW b
    PROVE  /\ Allowed(a, b) \in SUBSET (1..Len(results))
           /\ IsFiniteSet(Allowed(a, b)) /\ Cardinality(Allowed(a, b)) \in Nat
  <1>1. Len(results) \in Nat /\ Allowed(a, b) \in SUBSET (1..Len(results))
    BY DEF Allowed
  <1>2. IsFiniteSet(1..Len(results))
    BY <1>1, FS_Interval
  <1> QED
    BY <1>1, <1>2, FS_Subset, FS_CardinalityType

\* One more call.
LEMMA OneMoreCall ==
    ASSUME LimitsAssumed, LimiterShape, NEW c \in Callers, NEW ok \in BOOLEAN, call[c].pc = "taken",
           Limits!Finish(c, ok)
    PROVE  /\ results' \in Seq(ResultSet) /\ Len(results') = Len(results) + 1 /\ Len(results) \in Nat
           /\ results'[Len(results) + 1] = [now |-> call[c].now, ok |-> ok] /\ call[c].now \in Nat
           /\ \A i \in 1..Len(results) : results'[i] = results[i]
           /\ call' = [call EXCEPT ![c] = Limits!Idle] /\ call' \in [Callers -> CallSet]
           /\ unordered' \in BOOLEAN
           /\ ~unordered' => /\ ~unordered /\ \A i \in 1..Len(results) : results[i].now <= call[c].now
                             /\ limiter = "token_bucket_racy" => call[c].last = Len(results)
           /\ Len(results') + Cardinality(Taken') <= MaxCalls
  <1> DEFINE n == Len(results)
             new == [now |-> call[c].now, ok |-> ok]
  <1>1. /\ results \in Seq(ResultSet) /\ n \in Nat /\ call \in [Callers -> CallSet]
        /\ unordered \in BOOLEAN /\ n + Cardinality(Taken) <= MaxCalls
    BY DEF LimiterShape
  <1>2. call[c].now \in Nat /\ new \in ResultSet
    BY <1>1 DEF CallSet, ResultSet
  <1>3. /\ results' = Append(results, new)
        /\ call' = [call EXCEPT ![c] = Limits!Idle]
        /\ unordered' = (unordered \/ (\E i \in DOMAIN results : results[i].now > call[c].now)
                           \/ (limiter = "token_bucket_racy" /\ call[c].last # Len(results)))
    BY DEF Limits!Finish
  <1>4. /\ results' \in Seq(ResultSet) /\ Len(results') = n + 1 /\ results'[n + 1] = new
        /\ \A i \in 1..n : results'[i] = results[i]
    BY <1>1, <1>2, <1>3
  <1>5. call' \in [Callers -> CallSet]
    BY <1>1, <1>3 DEF CallSet, Tokens, Limits!Idle, LimitsAssumed
  <1>6. ASSUME ~unordered'
        PROVE  /\ ~unordered /\ \A i \in 1..n : results[i].now <= call[c].now
               /\ limiter = "token_bucket_racy" => call[c].last = Len(results)
    <2>1. DOMAIN results = 1..n /\ \A i \in 1..n : results[i].now \in Nat
      <3>1. DOMAIN results = 1..n /\ \A i \in 1..n : results[i] \in ResultSet
        BY <1>1
      <3> QED
        BY <3>1 DEF ResultSet
    <2>2. /\ ~unordered /\ ~(\E i \in 1..n : results[i].now > call[c].now)
          /\ ~(limiter = "token_bucket_racy" /\ call[c].last # Len(results))
      BY <1>3, <1>6, <2>1
    <2> QED
      BY <1>2, <2>1, <2>2
  <1>7. n + 1 + Cardinality(Taken') <= MaxCalls
    <2>1. Taken' = Taken \ {c} /\ c \in Taken /\ Taken \subseteq Callers
      BY <1>1, <1>3 DEF Taken, Limits!Idle
    <2>2. IsFiniteSet(Taken) /\ Cardinality(Taken) \in Nat
      BY <2>1, FS_Subset, FS_CardinalityType DEF LimitsAssumed
    <2>3. Cardinality(Taken') = Cardinality(Taken) - 1
      BY <2>1, <2>2, FS_RemoveElement
    <2> QED
      BY <1>1, <2>2, <2>3 DEF LimitsAssumed
  <1> QED
    BY <1>1, <1>2, <1>3, <1>4, <1>5, <1>6, <1>7 DEF n

LEMMA OneMoreAllowed ==
    ASSUME LimitsAssumed, LimiterShape, NEW c \in Callers, NEW ok \in BOOLEAN, call[c].pc = "taken",
           Limits!Finish(c, ok), NEW a, NEW b
    PROVE  /\ Cardinality(Allowed(a, b)) \in Nat
           /\ Cardinality(Allowed(a, b)') \in Nat
           /\ ok /\ call[c].now \in a..b => Cardinality(Allowed(a, b)') = Cardinality(Allowed(a, b)) + 1
           /\ ~(ok /\ call[c].now \in a..b) => Allowed(a, b)' = Allowed(a, b)
  <1> DEFINE n == Len(results)
  <1>1. /\ results \in Seq(ResultSet) /\ n \in Nat /\ Len(results') = n + 1
        /\ results'[n + 1] = [now |-> call[c].now, ok |-> ok]
        /\ \A i \in 1..n : results'[i] = results[i]
    BY OneMoreCall DEF LimiterShape
  <1> HIDE DEF n
  <1>2. /\ Allowed(a, b) \in SUBSET (1..n) /\ IsFiniteSet(Allowed(a, b))
        /\ Cardinality(Allowed(a, b)) \in Nat
    BY <1>1, AllowedFinite DEF n
  <1>3. \A i \in 1..n + 1 : i = n + 1 \/ i \in 1..n
    BY <1>1
  <1>4. n + 1 \notin 1..n /\ n + 1 \in 1..n + 1 /\ 1..n \subseteq 1..n + 1
    BY <1>1
  <1>5. Allowed(a, b)' = {i \in 1..n + 1 : results'[i].ok /\ results'[i].now \in a..b}
    BY <1>1 DEF Allowed
  <1>6. Allowed(a, b) = {i \in 1..n : results[i].ok /\ results[i].now \in a..b}
    BY DEF Allowed, n
  <1>7. CASE ok /\ call[c].now \in a..b
    <2>1. Allowed(a, b)' = Allowed(a, b) \cup {n + 1}
      BY <1>1, <1>3, <1>4, <1>5, <1>6, <1>7
    <2>2. n + 1 \notin Allowed(a, b)
      BY <1>2, <1>4
    <2>3. Cardinality(Allowed(a, b)') = Cardinality(Allowed(a, b)) + 1
      BY <1>2, <2>1, <2>2, FS_AddElement
    <2> QED
      BY <1>2, <1>7, <2>3
  <1>8. CASE ~(ok /\ call[c].now \in a..b)
    <2>1. Allowed(a, b)' = Allowed(a, b)
      BY <1>1, <1>3, <1>4, <1>5, <1>6, <1>8
    <2> QED
      BY <1>2, <1>8, <2>1
  <1> QED
    BY <1>7, <1>8

\* An allowed call is paid for by the bucket.
LEMMA BucketStep ==
    ASSUME LimitsAssumed, LimiterShape, BucketPays, NEW c \in Callers, call[c].pc = "taken",
           Atomic' => Atomic, limiter' = limiter,
           NEW t \in Int, Atomic' => t = Limits!Refilled(bucket, call[c].now),
           bucket' = <<[tokens |-> IF t >= 1 THEN t - 1 ELSE t, last |-> call[c].now]>>,
           Limits!Finish(c, t >= 1)
    PROVE  BucketPays'
  <1> DEFINE asked == call[c].now
             b1 == bucket[1].tokens
             l1 == bucket[1].last
             paid == IF t >= 1 THEN 1 ELSE 0
  <1> SUFFICES ASSUME Atomic'
               PROVE  BucketPays'
    BY DEF BucketPays
  <1> DEFINE ok == t >= 1
  <1>0. ok \in BOOLEAN /\ Limits!Finish(c, ok)
    OBVIOUS
  <1> HIDE DEF ok
  <1>1. /\ results \in Seq(ResultSet) /\ Len(results') = Len(results) + 1 /\ Len(results) \in Nat
        /\ asked \in Nat /\ Rate \in Nat /\ Capacity \in Nat
    BY <1>0, OneMoreCall DEF LimiterShape, LimitsAssumed
  <1>2. ASSUME NEW a, NEW b
        PROVE  /\ Cardinality(Allowed(a, b)) \in Nat
               /\ Cardinality(Allowed(a, b)') \in Nat
               /\ t >= 1 /\ asked \in a..b => Cardinality(Allowed(a, b)') = Cardinality(Allowed(a, b)) + 1
               /\ ~(t >= 1 /\ asked \in a..b) => Cardinality(Allowed(a, b)') = Cardinality(Allowed(a, b))
    <2>1. /\ Cardinality(Allowed(a, b)) \in Nat /\ Cardinality(Allowed(a, b)') \in Nat
          /\ ok /\ asked \in a..b => Cardinality(Allowed(a, b)') = Cardinality(Allowed(a, b)) + 1
          /\ ~(ok /\ asked \in a..b) => Allowed(a, b)' = Allowed(a, b)
      BY <1>0, OneMoreAllowed
    <2> QED
      BY <2>1 DEF ok
  <1>3. bucket'[1].tokens = t - paid /\ bucket'[1].last = asked /\ bucket' # <<>>
    BY <1>1
  <1>4. /\ t <= Capacity
        /\ bucket # <<>> => t <= b1 + (asked - l1) * Rate /\ b1 \in Int /\ l1 \in Nat
    <2>1. bucket # <<>> => b1 \in Int /\ l1 \in Nat
      <3>1. bucket # <<>> => bucket[1] \in TokenSet
        BY DEF LimiterShape
      <3> QED
        BY <3>1 DEF TokenSet
    <2> DEFINE refill == (asked - l1) * Rate
    <2>2. bucket # <<>> => refill \in Int
      BY <1>1, <2>1, Distribute
    <2>3. t = IF bucket = <<>> THEN Capacity
              ELSE IF Capacity < b1 + refill THEN Capacity ELSE b1 + refill
      BY DEF Limits!Refilled, Limits!Smaller
    <2> HIDE DEF b1, l1, refill
    <2>4. t <= Capacity /\ (bucket # <<>> => t <= b1 + refill)
      BY <1>1, <2>1, <2>2, <2>3
    <2> QED
      BY <2>1, <2>4 DEF refill, b1, l1
  <1>5. bucket # <<>> => (asked - l1) * Rate = asked * Rate - l1 * Rate /\ l1 * Rate \in Nat
    <2> SUFFICES ASSUME bucket # <<>>
                 PROVE  (asked - l1) * Rate = asked * Rate - l1 * Rate /\ l1 * Rate \in Nat
      OBVIOUS
    <2>1. l1 \in Nat /\ asked \in Nat /\ Rate \in Nat
      BY <1>1, <1>4
    <2> HIDE DEF l1, asked
    <2> QED
      BY <2>1, Distribute, ProductType
  <1>6. asked * Rate \in Nat
    BY <1>1, ProductType
  <1>7. ASSUME NEW a \in Nat, NEW b \in Nat, a <= b
        PROVE  LET k == Cardinality(Allowed(a, b))
                   k2 == Cardinality(Allowed(a, b)')
               IN  /\ k2 >= 1 => bucket'[1].tokens - bucket'[1].last * Rate + k2 <= Capacity - a * Rate
                   /\ k2 <= Capacity + (b - a) * Rate
    <2> DEFINE k == Cardinality(Allowed(a, b))
               k2 == Cardinality(Allowed(a, b)')
    <2>1. /\ k \in Nat /\ k2 \in Nat
          /\ t >= 1 /\ asked \in a..b => k2 = k + 1
          /\ ~(t >= 1 /\ asked \in a..b) => k2 = k
      BY <1>2
    <2>2. /\ bucket = <<>> => k = 0
          /\ k >= 1 => b1 - l1 * Rate + k <= Capacity - a * Rate
          /\ k <= Capacity + (b - a) * Rate
      <3>1. bucket = <<>> => Allowed(a, b) = {}
        BY <1>1 DEF BucketPays, Allowed
      <3> QED
        BY <1>7, <3>1, FS_EmptySet DEF BucketPays
    <2>3. /\ a * Rate \in Nat /\ b * Rate \in Nat /\ (b - a) * Rate = b * Rate - a * Rate
          /\ a * Rate <= b * Rate
          /\ asked \in a..b => a * Rate <= asked * Rate /\ asked * Rate <= b * Rate
      <3>1. a * Rate \in Nat /\ b * Rate \in Nat
        BY <1>1, ProductType
      <3>2. (b - a) * Rate = b * Rate - a * Rate
        BY <1>1, Distribute
      <3>3. a * Rate <= b * Rate
        BY <1>1, <1>7, TimesMonotonic
      <3>4. ASSUME asked \in a..b
            PROVE  a * Rate <= asked * Rate /\ asked * Rate <= b * Rate
        <4>1. asked \in Nat /\ a <= asked /\ asked <= b
          BY <1>1, <3>4
        <4> HIDE DEF asked
        <4> QED
          BY <1>1, <4>1, TimesMonotonic
      <3> QED
        BY <3>1, <3>2, <3>3, <3>4
    <2> DEFINE aR == a * Rate
               bR == b * Rate
               nR == asked * Rate
               lR == l1 * Rate
    <2>6. /\ aR \in Nat /\ bR \in Nat /\ nR \in Nat /\ (b - a) * Rate = bR - aR /\ aR <= bR
          /\ asked \in a..b => aR <= nR /\ nR <= bR
      BY <1>6, <2>3
    <2>7. bucket # <<>> => t <= b1 + (nR - lR) /\ lR \in Nat /\ b1 \in Int
      BY <1>4, <1>5
    <2>8. /\ k >= 1 => b1 - lR + k <= Capacity - aR
          /\ k <= Capacity + (bR - aR)
      BY <2>2, <2>6
    <2>9. t <= Capacity /\ Capacity \in Nat /\ paid \in {0, 1} /\ (paid = 1 <=> t >= 1)
      BY <1>1, <1>4
    <2>10. k >= 1 => bucket # <<>>
      BY <2>1, <2>2
    <2> HIDE DEF k, k2, asked, b1, l1, aR, bR, nR, lR
    <2>4. k2 >= 1 => (t - paid) - nR + k2 <= Capacity - aR
      <3>1. CASE t >= 1 /\ asked \in a..b /\ k = 0
        <4>1. k2 = 1 /\ paid = 1 /\ aR <= nR
          BY <2>1, <2>6, <2>9, <3>1
        <4> HIDE DEF paid
        <4> QED
          BY <2>6, <2>9, <4>1
      <3>2. CASE t >= 1 /\ asked \in a..b /\ k >= 1
        <4>1. k2 = k + 1 /\ paid = 1
          BY <2>1, <2>9, <3>2
        <4>2. lR \in Nat /\ b1 \in Int /\ t <= b1 + (nR - lR) /\ b1 - lR + k <= Capacity - aR
          BY <2>7, <2>8, <2>10, <3>2
        <4> HIDE DEF paid
        <4> QED
          BY <2>1, <2>6, <2>9, <4>1, <4>2
      <3>3. CASE ~(t >= 1 /\ asked \in a..b)
        <4>1. k2 = k
          BY <2>1, <3>3
        <4>2. k >= 1 => lR \in Nat /\ b1 \in Int /\ t <= b1 + (nR - lR) /\ b1 - lR + k <= Capacity - aR
          BY <2>7, <2>8, <2>10
        <4>3. paid \in Int /\ paid >= 0
          BY <2>9
        <4> HIDE DEF paid
        <4> SUFFICES ASSUME k >= 1
                     PROVE  (t - paid) - nR + k <= Capacity - aR
          BY <4>1
        <4>4. lR \in Nat /\ b1 \in Int /\ t <= b1 + (nR - lR) /\ b1 - lR + k <= Capacity - aR
          BY <4>2
        <4> QED
          BY <2>1, <2>6, <2>9, <4>3, <4>4
      <3> QED
        BY <2>1, <3>1, <3>2, <3>3
    <2>5. k2 <= Capacity + (b - a) * Rate
      <3> HIDE DEF paid
      <3>1. k2 <= Capacity + (bR - aR)
        <4>1. CASE t >= 1 /\ asked \in a..b /\ k = 0
          BY <2>1, <2>6, <2>9, <4>1
        <4>2. CASE t >= 1 /\ asked \in a..b /\ k >= 1
          <5>1. lR \in Nat /\ b1 \in Int /\ t <= b1 + (nR - lR) /\ b1 - lR + k <= Capacity - aR
            BY <2>7, <2>8, <2>10, <4>2
          <5>2. k2 = k + 1 /\ nR <= bR
            BY <2>1, <2>6, <4>2
          <5> QED
            BY <2>1, <2>6, <2>9, <4>2, <5>1, <5>2
        <4>3. CASE ~(t >= 1 /\ asked \in a..b)
          BY <2>1, <2>8, <4>3
        <4> QED
          BY <2>1, <4>1, <4>2, <4>3
      <3> QED
        BY <2>6, <3>1
    <2>11. /\ k2 >= 1 => bucket'[1].tokens - bucket'[1].last * Rate + k2 <= Capacity - a * Rate
      BY <1>3, <2>4 DEF aR, nR
    <2> QED
      BY <2>5, <2>11 DEF k, k2
  <1> QED
    BY <1>3, <1>7 DEF BucketPays

\* The log keeps what may still count.
LEMMA LogStep ==
    ASSUME LimitsAssumed, LimiterShape, LogHolds, NEW c \in Callers, Limits!SlidingWindowLog(c)
    PROVE  LogHolds'
  <1> DEFINE asked == call[c].now
             kept == {e \in entries : e.ts > asked - WindowSeconds} \cup {[ts |-> asked, member |-> Len(results)]}
             ok == Limits!Cardinality(kept) <= MaxRequests
             n == Len(results)
  <1>1. /\ call[c].pc = "taken" /\ limiter' = limiter
        /\ entries' = kept /\ Limits!Finish(c, ok) /\ ok \in BOOLEAN
    BY DEF Limits!SlidingWindowLog
  <1> HIDE DEF ok
  <1>2. /\ results \in Seq(ResultSet) /\ n \in Nat /\ Len(results') = n + 1 /\ asked \in Nat
        /\ results'[n + 1] = [now |-> asked, ok |-> ok]
        /\ \A i \in 1..n : results'[i] = results[i]
        /\ ~unordered' => ~unordered /\ \A i \in 1..n : results[i].now <= asked
    BY <1>1, OneMoreCall DEF LimiterShape
  <1>3. \A i \in 1..n : results[i].now \in Nat
    <2>1. \A i \in 1..n : results[i] \in ResultSet
      BY <1>2
    <2> QED
      BY <2>1 DEF ResultSet
  <1>4. WindowSeconds \in Nat /\ WindowSeconds > 0 /\ MaxRequests \in Nat
    BY DEF LimitsAssumed
  <1>5. \A i \in 1..n + 1 : i \in 1..n \/ i = n + 1
    BY <1>2
  <1> HIDE DEF n
  <1> SUFFICES ASSUME limiter = "sliding_window_log", ~unordered'
               PROVE  /\ IsFiniteSet(entries')
                      /\ \A i \in 1..n + 1 : Recent(i)' => [ts |-> results'[i].now, member |-> i - 1] \in entries'
                      /\ \A t \in Nat : Cardinality(Allowed(t - WindowSeconds + 1, t)') <= MaxRequests
    BY <1>1, <1>2 DEF LogHolds
  <1>6. /\ ~unordered /\ \A i \in 1..n : results[i].now <= asked
        /\ IsFiniteSet(entries)
        /\ \A i \in 1..n : Recent(i) => [ts |-> results[i].now, member |-> i - 1] \in entries
        /\ \A t \in Nat : Cardinality(Allowed(t - WindowSeconds + 1, t)) <= MaxRequests
    BY <1>2 DEF LogHolds, n
  <1>7. IsFiniteSet(kept) /\ Cardinality(kept) \in Nat
    <2>1. {e \in entries : e.ts > asked - WindowSeconds} \in SUBSET entries
      OBVIOUS
    <2>2. IsFiniteSet({e \in entries : e.ts > asked - WindowSeconds})
      BY <1>6, <2>1, FS_Subset
    <2> QED
      BY <2>2, FS_AddElement, FS_CardinalityType
  <1>8. ASSUME NEW i \in 1..n, results[i].now > asked - WindowSeconds
        PROVE  [ts |-> results[i].now, member |-> i - 1] \in kept
    <2>1. \A j \in 1..n : results[j].now < results[i].now + WindowSeconds
      <3> SUFFICES ASSUME NEW j \in 1..n
                   PROVE  results[j].now < results[i].now + WindowSeconds
        OBVIOUS
      <3>1. asked \in Nat /\ results[i].now \in Nat /\ results[j].now \in Nat /\ results[j].now <= asked
        BY <1>2, <1>3, <1>6
      <3> HIDE DEF asked
      <3> QED
        BY <1>4, <1>8, <3>1
    <2>2. [ts |-> results[i].now, member |-> i - 1] \in entries
      BY <1>6, <2>1 DEF Recent, n
    <2> QED
      BY <1>8, <2>2
  <1>9. [ts |-> asked, member |-> n] \in kept
    BY DEF n
  <1>10. ASSUME NEW i \in 1..n + 1, Recent(i)'
         PROVE  [ts |-> results'[i].now, member |-> i - 1] \in kept
    <2>1. CASE i = n + 1
      <3>1. i - 1 = n /\ results'[i].now = asked
        BY <1>2, <2>1
      <3> HIDE DEF kept, asked
      <3> QED
        BY <1>9, <3>1
    <2>2. CASE i \in 1..n
      <3>1. n + 1 \in 1..Len(results')
        BY <1>2
      <3>2. results'[n + 1].now < results'[i].now + WindowSeconds
        BY <1>10, <3>1 DEF Recent
      <3>3. results'[i] = results[i] /\ results'[n + 1].now = asked /\ results[i].now \in Nat
        BY <1>2, <1>3, <2>2
      <3>4. results[i].now > asked - WindowSeconds
        BY <1>2, <1>4, <3>2, <3>3
      <3> HIDE DEF kept
      <3> QED
        BY <1>8, <2>2, <3>3, <3>4
    <2> QED
      BY <1>5, <2>1, <2>2
  <1>11. ASSUME NEW t \in Nat
         PROVE  Cardinality(Allowed(t - WindowSeconds + 1, t)') <= MaxRequests
    <2> DEFINE A == Allowed(t - WindowSeconds + 1, t)'
    <2>1. ~(ok /\ asked \in t - WindowSeconds + 1..t) => A = Allowed(t - WindowSeconds + 1, t)
      BY <1>1, OneMoreAllowed
    <2>2. CASE ok /\ asked \in t - WindowSeconds + 1..t
      <3> DEFINE f == [i \in A |-> [ts |-> results'[i].now, member |-> i - 1]]
      <3>1. A = {i \in 1..n + 1 : results'[i].ok /\ results'[i].now \in t - WindowSeconds + 1..t}
        BY <1>2 DEF Allowed
      <3>2. ASSUME NEW i \in A
            PROVE  [ts |-> results'[i].now, member |-> i - 1] \in kept
        <4>1. i \in 1..n + 1 /\ results'[i].now \in t - WindowSeconds + 1..t
          BY <3>1
        <4>2. t >= asked
          BY <1>2, <1>4, <2>2
        <4>3. results'[i].now > asked - WindowSeconds
          BY <1>2, <1>4, <4>1, <4>2
        <4>4. CASE i = n + 1
          <5>1. i - 1 = n /\ results'[i].now = asked
            BY <1>2, <4>4
          <5> HIDE DEF kept, asked
          <5> QED
            BY <1>9, <5>1
        <4>5. CASE i \in 1..n
          <5> HIDE DEF kept
          <5> QED
            BY <1>2, <1>8, <4>3, <4>5
        <4> QED
          BY <1>5, <4>1, <4>4, <4>5
      <3> HIDE DEF A, kept
      <3>3. \A i \in A : i \in Int
        BY <1>2, <3>1
      <3>4. f \in Injection(A, kept)
        <4>1. f \in [A -> kept]
          BY <3>2
        <4>2. ASSUME NEW i \in A, NEW j \in A, f[i] = f[j]
              PROVE  i = j
          <5>1. i - 1 = j - 1
            BY <4>2
          <5> QED
            BY <3>3, <5>1
        <4> HIDE DEF f
        <4> QED
          BY <4>1, <4>2 DEF Injection, IsInjective
      <3>5. Cardinality(A) <= Cardinality(kept)
        BY <1>7, <3>4, FS_Injection
      <3>6. Cardinality(kept) <= MaxRequests
        <4>1. Limits!Cardinality(kept) = Cardinality(kept)
          BY DEF Limits!Cardinality, Cardinality
        <4> QED
          BY <2>2, <4>1 DEF ok, kept
      <3>7. IsFiniteSet(A) /\ Cardinality(A) \in Nat
        BY <1>7, <3>4, FS_Injection, FS_CardinalityType
      <3> QED
        BY <1>4, <1>7, <3>5, <3>6, <3>7 DEF A
    <2>3. CASE ~(ok /\ asked \in t - WindowSeconds + 1..t)
      BY <1>6, <2>1, <2>3
    <2> QED
      BY <2>2, <2>3
  <1> HIDE DEF kept
  <1> QED
    BY <1>1, <1>7, <1>10, <1>11

\* A counter counts what it lets through.
LEMMA CounterStep ==
    ASSUME LimitsAssumed, LimiterShape, CountersHold, NEW c \in Callers, NEW ok \in BOOLEAN,
           call[c].pc = "taken", Limits!Finish(c, ok), limiter' = limiter,
           windowHits' = [windowHits EXCEPT ![call[c].now \div WindowSeconds] = @ + 1],
           call[c].now \div WindowSeconds \in 0..(MaxClock \div WindowSeconds) /\ ok =>
               windowHits'[call[c].now \div WindowSeconds] <= MaxRequests
    PROVE  CountersHold'
  <1> DEFINE asked == call[c].now
             w0 == asked \div WindowSeconds
             Windows == 0..(MaxClock \div WindowSeconds)
  <1>1. asked \in Nat /\ WindowSeconds \in Nat /\ WindowSeconds > 0 /\ MaxRequests \in Nat
    <2>1. asked \in Nat
      BY OneMoreCall
    <2> QED
      BY <2>1 DEF LimitsAssumed
  <1>2. w0 \in Nat /\ windowHits \in [Windows -> Nat]
    BY <1>1, WindowOf DEF LimiterShape
  <1> HIDE DEF asked
  <1> SUFFICES ASSUME limiter \in {"fixed_window", "sliding_window_counter"}, NEW w \in Windows
               PROVE  Cardinality(InWindow(w)') <= windowHits'[w] /\ Cardinality(InWindow(w)') <= MaxRequests
    BY DEF CountersHold
  <1>3. Cardinality(InWindow(w)) <= windowHits[w] /\ Cardinality(InWindow(w)) <= MaxRequests
    BY DEF CountersHold
  <1> HIDE DEF Windows
  <1>4. w \in Nat /\ windowHits[w] \in Nat
    <2>1. w \in Nat
      BY DEF Windows
    <2> QED
      BY <1>2, <2>1
  <1>5. /\ Cardinality(InWindow(w)) \in Nat /\ Cardinality(InWindow(w)') \in Nat
        /\ ok /\ w = w0 => Cardinality(InWindow(w)') = Cardinality(InWindow(w)) + 1
        /\ ~(ok /\ w = w0) => InWindow(w)' = InWindow(w)
    <2> DEFINE a == w * WindowSeconds
               b == (w + 1) * WindowSeconds - 1
    <2>1. asked \in a..b <=> w = w0
      BY <1>1, <1>4, WindowIsOne
    <2>2. /\ Cardinality(Allowed(a, b)) \in Nat /\ Cardinality(Allowed(a, b)') \in Nat
          /\ ok /\ asked \in a..b => Cardinality(Allowed(a, b)') = Cardinality(Allowed(a, b)) + 1
          /\ ~(ok /\ asked \in a..b) => Allowed(a, b)' = Allowed(a, b)
      BY OneMoreAllowed DEF asked
    <2>3. InWindow(w) = Allowed(a, b) /\ InWindow(w)' = Allowed(a, b)'
      BY DEF InWindow
    <2> HIDE DEF a, b, w0
    <2> QED
      BY <2>1, <2>2, <2>3
  <1>6. windowHits'[w] = IF w = w0 THEN windowHits[w] + 1 ELSE windowHits[w]
    BY <1>2 DEF asked
  <1>7. w = w0 /\ ok => windowHits'[w] <= MaxRequests
    BY DEF asked, Windows
  <1> HIDE DEF w0
  <1>8. CASE ok /\ w = w0
    BY <1>1, <1>3, <1>4, <1>5, <1>6, <1>7, <1>8
  <1>9. CASE ~(ok /\ w = w0)
    <2>1. InWindow(w)' = InWindow(w)
      BY <1>5, <1>9
    <2> QED
      BY <1>3, <1>4, <1>5, <1>6, <2>1
  <1> QED
    BY <1>8, <1>9

LEMMA LimiterInvInit ==
    ASSUME LimitsAssumed, Limits!LimiterInit
    PROVE  LimiterInv
  <1> USE DEF Limits!LimiterInit
  <1>1. results \in Seq(ResultSet) /\ Len(results) = 0 /\ 1..0 = {}
    OBVIOUS
  <1>2. Taken = {} /\ \A a, b : Allowed(a, b) = {}
    BY <1>1 DEF Taken, Limits!Idle, Allowed
  <1>3. Cardinality(Taken) = 0 /\ \A a, b : Cardinality(Allowed(a, b)) = 0
    BY <1>2, FS_EmptySet
  <1>4. call \in [Callers -> CallSet] /\ windowHits \in [0..(MaxClock \div WindowSeconds) -> Nat]
    BY DEF CallSet, Tokens, Limits!Idle, LimitsAssumed
  <1>5. LimiterShape
    <2>1. limiter \in Limits!Limiters /\ clock \in Nat /\ bucket = <<>> /\ unordered \in BOOLEAN
      OBVIOUS
    <2>2. Len(results) + Cardinality(Taken) <= MaxCalls
      BY <1>1, <1>3 DEF LimitsAssumed
    <2> QED
      BY <1>1, <1>4, <2>1, <2>2 DEF LimiterShape
  <1>6. BucketPays
    <2>1. ASSUME NEW a \in Nat, NEW b \in Nat, a <= b
          PROVE  Cardinality(Allowed(a, b)) <= Capacity + (b - a) * Rate
      <3>1. b - a \in Nat
        BY <2>1
      <3>2. (b - a) * Rate \in Nat /\ Capacity \in Nat
        BY <3>1, ProductType DEF LimitsAssumed
      <3> QED
        BY <1>3, <3>2
    <2>2. ASSUME NEW a \in Nat, NEW b \in Nat
          PROVE  ~(Cardinality(Allowed(a, b)) >= 1)
      BY <1>3
    <2>3. results = <<>>
      OBVIOUS
    <2> QED
      BY <2>1, <2>2, <2>3 DEF BucketPays
  <1>7. ReadsStand
    BY DEF ReadsStand, Limits!Idle
  <1>8. LogHolds
    BY <1>1, <1>3, FS_EmptySet DEF LogHolds, LimitsAssumed
  <1>9. CountersHold
    BY <1>3 DEF CountersHold, InWindow, LimitsAssumed
  <1> QED
    BY <1>5, <1>6, <1>7, <1>8, <1>9 DEF LimiterInv

LEMMA FinishShape ==
    ASSUME LimitsAssumed, LimiterShape, NEW c \in Callers, NEW ok \in BOOLEAN, call[c].pc = "taken",
           Limits!Finish(c, ok), UNCHANGED <<limiter, clock>>,
           bucket' = bucket \/ (bucket' \in Seq(TokenSet) /\ Len(bucket') = 1 /\ bucket'[1].tokens <= Capacity),
           windowHits' \in [0..(MaxClock \div WindowSeconds) -> Nat]
    PROVE  LimiterShape'
  <1>1. /\ results' \in Seq(ResultSet) /\ call' \in [Callers -> CallSet] /\ unordered' \in BOOLEAN
        /\ Len(results') + Cardinality(Taken') <= MaxCalls
    BY OneMoreCall
  <1> QED
    BY <1>1 DEF LimiterShape

\* Refills are numbers, and no more than the bucket holds.
LEMMA RefillType ==
    ASSUME LimitsAssumed, LimiterShape, NEW asked \in Nat
    PROVE  Limits!Refilled(bucket, asked) \in Int /\ Limits!Refilled(bucket, asked) <= Capacity
  <1>1. CASE bucket = <<>>
    BY <1>1 DEF LimitsAssumed, Limits!Refilled
  <1>2. CASE bucket # <<>>
    <2> DEFINE refill == (asked - bucket[1].last) * Rate
    <2>1. bucket[1] \in TokenSet
      BY <1>2 DEF LimiterShape
    <2>2. bucket[1].tokens \in Int /\ bucket[1].last \in Nat
      BY <2>1 DEF TokenSet
    <2>3. asked - bucket[1].last \in Int
      BY <2>2
    <2>4. refill \in Int
      BY <2>3, Distribute DEF LimitsAssumed
    <2>5. Limits!Refilled(bucket, asked)
            = IF Capacity < bucket[1].tokens + refill THEN Capacity ELSE bucket[1].tokens + refill
      BY <1>2 DEF Limits!Refilled, Limits!Smaller
    <2> HIDE DEF refill
    <2> QED
      BY <2>2, <2>4, <2>5 DEF LimitsAssumed
  <1> QED
    BY <1>1, <1>2

\* A call of a token bucket that has its time.
LEMMA TokenKeeps ==
    ASSUME LimitsAssumed, LimiterInv, NEW c \in Callers, call[c].pc = "taken", NEW t \in Int,
           limiter \in {"token_bucket", "token_bucket_racy"}, t <= Capacity,
           limiter = "token_bucket" \/ ~unordered' => t = Limits!Refilled(bucket, call[c].now),
           bucket' = <<[tokens |-> IF t >= 1 THEN t - 1 ELSE t, last |-> call[c].now]>>,
           Limits!Finish(c, t >= 1), UNCHANGED <<limiter, clock, entries, windowHits>>
    PROVE  LimiterInv'
  <1> DEFINE ok == t >= 1
  <1>1. LimiterShape /\ BucketPays /\ ReadsStand /\ ok \in BOOLEAN /\ Limits!Finish(c, ok)
    BY DEF LimiterInv
  <1> HIDE DEF ok
  <1>2. /\ call[c].now \in Nat /\ Len(results) \in Nat /\ Len(results') = Len(results) + 1
        /\ call' = [call EXCEPT ![c] = Limits!Idle] /\ call \in [Callers -> CallSet]
        /\ ~unordered' => ~unordered
    BY <1>1, OneMoreCall DEF LimiterShape
  <1>3. bucket' \in Seq(TokenSet) /\ Len(bucket') = 1 /\ bucket'[1].tokens <= Capacity
    <2> DEFINE e == [tokens |-> IF t >= 1 THEN t - 1 ELSE t, last |-> call[c].now]
    <2>1. e \in TokenSet /\ e.tokens <= Capacity
      BY <1>2 DEF TokenSet, LimitsAssumed
    <2>2. bucket' = <<e>>
      OBVIOUS
    <2> HIDE DEF e
    <2> QED
      BY <2>1, <2>2
  <1>4. LimiterShape'
    <2>1. windowHits' \in [0..(MaxClock \div WindowSeconds) -> Nat]
      BY <1>1 DEF LimiterShape
    <2> QED
      BY <1>1, <1>3, <2>1, FinishShape
  <1>5. BucketPays'
    <2>1. Atomic' => Atomic /\ t = Limits!Refilled(bucket, call[c].now)
      BY <1>2 DEF Atomic
    <2> QED
      BY <1>1, <2>1, BucketStep
  <1>6. ReadsStand'
    <2> SUFFICES ASSUME limiter = "token_bucket_racy", NEW d \in Callers, call'[d].pc = "taken"
                 PROVE  call'[d].last <= Len(results') /\ call'[d].last # Len(results')
      BY DEF ReadsStand
    <2>1. d # c /\ call'[d] = call[d] /\ call[d] \in CallSet
      BY <1>2 DEF Limits!Idle
    <2>2. call[d].last <= Len(results) /\ call[d].last \in Nat
      BY <1>1, <2>1 DEF ReadsStand, CallSet
    <2> QED
      BY <1>2, <2>1, <2>2
  <1>7. LogHolds' /\ CountersHold'
    BY DEF LogHolds, CountersHold
  <1> QED
    BY <1>4, <1>5, <1>6, <1>7 DEF LimiterInv

\* What the limiters promise does not depend on the clock.
LEMMA ResultsStay ==
    ASSUME UNCHANGED <<limiter, bucket, entries, windowHits, results, unordered>>
    PROVE  /\ BucketPays => BucketPays'
           /\ LogHolds => LogHolds'
           /\ CountersHold => CountersHold'
  <1>1. \A a, b : Allowed(a, b)' = Allowed(a, b)
    BY DEF Allowed
  <1>2. \A w : InWindow(w)' = InWindow(w)
    BY DEF InWindow, Allowed
  <1>3. \A i : Recent(i)' = Recent(i)
    BY DEF Recent
  <1>4. BucketPays => BucketPays'
    BY <1>1 DEF BucketPays, Atomic
  <1>5. LogHolds => LogHolds'
    BY <1>1, <1>3 DEF LogHolds
  <1>6. CountersHold => CountersHold'
    BY <1>2 DEF CountersHold
  <1> QED
    BY <1>4, <1>5, <1>6

LEMMA LimiterInvStep ==
    ASSUME LimitsAssumed, LimiterInv, Limits!LimiterNext \/ UNCHANGED limiterVars
    PROVE  LimiterInv'
  <1>0. /\ LimiterShape /\ BucketPays /\ ReadsStand /\ LogHolds /\ CountersHold
        /\ call \in [Callers -> CallSet] /\ clock \in Nat /\ results \in Seq(ResultSet)
        /\ windowHits \in [0..(MaxClock \div WindowSeconds) -> Nat]
    BY DEF LimiterInv, LimiterShape
  <1>1. CASE Limits!LimiterTick \/ Limits!CallsDone \/ UNCHANGED limiterVars
    <2>1. /\ UNCHANGED <<limiter, call, bucket, entries, windowHits, results, unordered>>
          /\ clock' \in Nat
      BY <1>0, <1>1 DEF Limits!LimiterTick, Limits!CallsDone, Limits!limiterVars, limiterVars
    <2>2. BucketPays' /\ LogHolds' /\ CountersHold'
      BY <1>0, <2>1, ResultsStay
    <2>3. LimiterShape'
      BY <1>0, <2>1 DEF LimiterShape, Taken
    <2>4. ReadsStand'
      BY <1>0, <2>1 DEF ReadsStand, Limits!Refilled, Limits!Smaller
    <2> QED
      BY <2>2, <2>3, <2>4 DEF LimiterInv
  <1>2. ASSUME NEW c \in Callers, Limits!TakeTime(c)
        PROVE  LimiterInv'
    <2> DEFINE new == [pc |-> "taken", now |-> clock, tokens |-> Limits!Refilled(bucket, clock),
                       last |-> Len(results)]
    <2>1. /\ UNCHANGED <<limiter, clock, bucket, entries, windowHits, results, unordered>>
          /\ call' = [call EXCEPT ![c] = new] /\ call[c].pc = "idle"
          /\ Len(results) + Limits!Cardinality(Taken) < MaxCalls
      BY <1>2 DEF Limits!TakeTime, Taken
    <2>2. new \in CallSet
      <3>1. Limits!Refilled(bucket, clock) \in Tokens
        BY <1>0, RefillType DEF Tokens
      <3> QED
        BY <1>0, <3>1 DEF CallSet
    <2>3. Limits!Refilled(bucket, clock)' = Limits!Refilled(bucket, clock)
      BY <2>1 DEF Limits!Refilled, Limits!Smaller
    <2>4. BucketPays' /\ LogHolds' /\ CountersHold'
      BY <1>0, <2>1, ResultsStay
    <2>5. Len(results) + Cardinality(Taken') <= MaxCalls
      <3>1. Limits!Cardinality(Taken) = Cardinality(Taken)
        BY DEF Limits!Cardinality, Cardinality
      <3>2. Taken' = Taken \cup {c} /\ c \notin Taken /\ Taken \subseteq Callers
        BY <1>0, <2>1 DEF Taken
      <3>3. IsFiniteSet(Taken) /\ Cardinality(Taken) \in Nat
        <4>1. IsFiniteSet(Taken)
          BY <3>2, FS_Subset DEF LimitsAssumed
        <4> QED
          BY <4>1, FS_CardinalityType
      <3>4. Cardinality(Taken') = Cardinality(Taken) + 1
        BY <3>2, <3>3, FS_AddElement
      <3>5. Len(results) \in Nat /\ MaxCalls \in Nat
        BY <1>0 DEF LimitsAssumed
      <3> QED
        BY <2>1, <3>1, <3>3, <3>4, <3>5
    <2>6. LimiterShape'
      <3>1. call' \in [Callers -> CallSet]
        BY <1>0, <2>1, <2>2
      <3> QED
        BY <1>0, <2>1, <2>5, <3>1 DEF LimiterShape
    <2>7. ReadsStand'
      <3> SUFFICES ASSUME limiter = "token_bucket_racy", NEW d \in Callers, call'[d].pc = "taken"
                   PROVE  /\ call'[d].last <= Len(results)
                          /\ call'[d].last = Len(results) =>
                               call'[d].tokens = Limits!Refilled(bucket, call'[d].now)
        BY <2>1 DEF ReadsStand, Limits!Refilled, Limits!Smaller
      <3>1. CASE d = c
        <4>1. call'[d] = new /\ Len(results) \in Nat
          BY <1>0, <2>1, <3>1
        <4> QED
          BY <4>1
      <3>2. CASE d # c
        BY <1>0, <2>1, <3>2 DEF ReadsStand
      <3> QED
        BY <3>1, <3>2
    <2> QED
      BY <2>4, <2>6, <2>7 DEF LimiterInv
  <1>3. ASSUME NEW c \in Callers, Limits!TokenBucket(c)
        PROVE  LimiterInv'
    <2> DEFINE t == Limits!Refilled(bucket, call[c].now)
    <2>1. /\ limiter = "token_bucket" /\ call[c].pc = "taken"
          /\ bucket' = <<[tokens |-> IF t >= 1 THEN t - 1 ELSE t, last |-> call[c].now]>>
          /\ Limits!Finish(c, t >= 1) /\ UNCHANGED <<limiter, clock, entries, windowHits>>
      BY <1>3 DEF Limits!TokenBucket
    <2>2. call[c].now \in Nat
      BY <1>0 DEF CallSet
    <2>3. t \in Int /\ t <= Capacity
      BY <1>0, <2>2, RefillType
    <2> HIDE DEF t
    <2> QED
      BY <2>1, <2>3, TokenKeeps DEF t
  <1>4. ASSUME NEW c \in Callers, Limits!TokenBucketRacy(c)
        PROVE  LimiterInv'
    <2> DEFINE t == call[c].tokens
    <2>1. /\ limiter = "token_bucket_racy" /\ call[c].pc = "taken"
          /\ bucket' = <<[tokens |-> IF t >= 1 THEN t - 1 ELSE t, last |-> call[c].now]>>
          /\ Limits!Finish(c, t >= 1) /\ UNCHANGED <<limiter, clock, entries, windowHits>>
      BY <1>4 DEF Limits!TokenBucketRacy
    <2>2. call[c].now \in Nat /\ t \in Tokens
      BY <1>0 DEF CallSet
    <2>3. t \in Int /\ t <= Capacity
      BY <2>2 DEF Tokens
    <2>4. ~unordered' => t = Limits!Refilled(bucket, call[c].now)
      <3>1. ~unordered' => call[c].last = Len(results)
        BY <2>1 DEF Limits!Finish
      <3> QED
        BY <1>0, <2>1, <3>1 DEF ReadsStand
    <2> HIDE DEF t
    <2> QED
      BY <2>1, <2>2, <2>3, <2>4, TokenKeeps DEF t
  <1>5. ASSUME NEW c \in Callers, Limits!SlidingWindowLog(c)
        PROVE  LimiterInv'
    <2> DEFINE kept == {e \in entries : e.ts > call[c].now - WindowSeconds}
                         \cup {[ts |-> call[c].now, member |-> Len(results)]}
               ok == Limits!Cardinality(kept) <= MaxRequests
    <2>1. ok \in BOOLEAN /\ Limits!Finish(c, ok)
      BY <1>5 DEF Limits!SlidingWindowLog
    <2> HIDE DEF ok, kept
    <2>2. /\ limiter = "sliding_window_log" /\ call[c].pc = "taken"
          /\ UNCHANGED <<limiter, clock, bucket, windowHits>>
      BY <1>5 DEF Limits!SlidingWindowLog
    <2>3. LimiterShape'
      BY <1>0, <2>1, <2>2, FinishShape
    <2>4. LogHolds'
      BY <1>0, <1>5, LogStep
    <2>5. BucketPays' /\ ReadsStand' /\ CountersHold'
      BY <2>2 DEF BucketPays, Atomic, ReadsStand, CountersHold
    <2> QED
      BY <2>3, <2>4, <2>5 DEF LimiterInv
  <1>6. ASSUME NEW c \in Callers, Limits!FixedWindow(c) \/ Limits!SlidingWindowCounter(c)
        PROVE  LimiterInv'
    <2> DEFINE asked == call[c].now
               w == asked \div WindowSeconds
               Windows == 0..(MaxClock \div WindowSeconds)
    <2>1. /\ limiter \in {"fixed_window", "sliding_window_counter"} /\ call[c].pc = "taken"
          /\ windowHits' = [windowHits EXCEPT ![w] = @ + 1]
          /\ UNCHANGED <<limiter, clock, bucket, entries>>
      BY <1>6 DEF Limits!FixedWindow, Limits!SlidingWindowCounter
    <2>2. asked \in Nat /\ WindowSeconds \in Nat /\ WindowSeconds > 0 /\ MaxRequests \in Nat
      BY <1>0 DEF CallSet, LimitsAssumed
    <2>3. w \in Nat /\ asked % WindowSeconds \in 0..WindowSeconds - 1
      BY <2>2, WindowOf
    <2>4. windowHits' \in [Windows -> Nat]
      <3> HIDE DEF w, Windows
      <3>1. windowHits \in [Windows -> Nat]
        BY <1>0 DEF Windows
      <3>2. \A v \in Windows : (IF v = w THEN windowHits[v] + 1 ELSE windowHits[v]) \in Nat
        BY <3>1
      <3> QED
        BY <2>1, <3>1, <3>2
    <2>5. \E ok \in BOOLEAN :
            /\ Limits!Finish(c, ok)
            /\ w \in Windows /\ ok => windowHits'[w] <= MaxRequests
      <3>1. CASE Limits!FixedWindow(c)
        <4> DEFINE ok == windowHits'[w] <= MaxRequests
        <4>1. ok \in BOOLEAN /\ Limits!Finish(c, ok) /\ (ok => windowHits'[w] <= MaxRequests)
          BY <3>1 DEF Limits!FixedWindow
        <4> HIDE DEF ok
        <4> QED
          BY <4>1
      <3>2. CASE Limits!SlidingWindowCounter(c)
        <4> DEFINE prev == IF w = 0 THEN 0 ELSE windowHits[w - 1]
                   left == WindowSeconds - (asked % WindowSeconds)
                   hits == windowHits'[w]
                   ok == prev * left + hits * WindowSeconds <= MaxRequests * WindowSeconds
        <4>1. ok \in BOOLEAN /\ Limits!Finish(c, ok)
          BY <3>2 DEF Limits!SlidingWindowCounter
        <4>2. ASSUME w \in Windows, ok
              PROVE  hits <= MaxRequests
          <5>1. prev \in Nat
            <6>1. CASE w = 0
              BY <6>1
            <6>2. CASE w # 0
              <7>1. w - 1 \in Windows
                <8> DEFINE top == MaxClock \div WindowSeconds
                <8>1. top \in Nat
                  BY <2>2, WindowOf DEF LimitsAssumed
                <8>2. w \in Nat /\ w \in 0..top
                  BY <2>3, <4>2
                <8> HIDE DEF w, top
                <8>3. w - 1 \in 0..top
                  BY <6>2, <8>1, <8>2
                <8> QED
                  BY <8>3 DEF top
              <7>2. windowHits[w - 1] \in Nat
                <8> HIDE DEF w, Windows
                <8>1. windowHits \in [Windows -> Nat]
                  BY <1>0 DEF Windows
                <8> QED
                  BY <7>1, <8>1
              <7> QED
                BY <6>2, <7>2
            <6> QED
              BY <6>1, <6>2
          <5>2. hits \in Nat
            <6> HIDE DEF w, Windows
            <6> QED
              BY <2>4, <4>2
          <5>3. left \in Nat
            <6> DEFINE r == asked % WindowSeconds
            <6> HIDE DEF r
            <6>1. r \in 0..WindowSeconds - 1
              BY <2>3 DEF r
            <6> QED
              BY <2>2, <6>1 DEF r
          <5> HIDE DEF prev, hits, left
          <5>4. prev * left \in Nat /\ hits * WindowSeconds \in Nat /\ MaxRequests * WindowSeconds \in Nat
            BY <2>2, <5>1, <5>2, <5>3, ProductType
          <5>5. hits * WindowSeconds <= MaxRequests * WindowSeconds
            <6> DEFINE p == prev * left
                       q == hits * WindowSeconds
                       m == MaxRequests * WindowSeconds
            <6>1. p + q <= m
              BY <4>2
            <6> HIDE DEF p, q, m
            <6>2. p \in Nat /\ q \in Nat /\ m \in Nat
              BY <5>4 DEF p, q, m
            <6>3. q <= m
              BY <6>1, <6>2
            <6> QED
              BY <6>3 DEF q, m
          <5>6. ASSUME MaxRequests + 1 <= hits
                PROVE  FALSE
            <6>1. (MaxRequests + 1) * WindowSeconds <= hits * WindowSeconds
              BY <2>2, <5>2, <5>6, TimesMonotonic
            <6>2. (MaxRequests + 1) * WindowSeconds = MaxRequests * WindowSeconds + 1 * WindowSeconds
              BY <2>2, Distribute
            <6> QED
              BY <2>2, <5>4, <5>5, <6>1, <6>2
          <5> QED
            BY <2>2, <5>2, <5>6
        <4> HIDE DEF ok
        <4> QED
          BY <4>1, <4>2
      <3> QED
        BY <1>6, <3>1, <3>2
    <2>6. PICK ok \in BOOLEAN : Limits!Finish(c, ok) /\ (w \in Windows /\ ok => windowHits'[w] <= MaxRequests)
      BY <2>5
    <2>7. LimiterShape'
      BY <1>0, <2>1, <2>4, <2>6, FinishShape
    <2>8. CountersHold'
      BY <1>0, <2>1, <2>6, CounterStep
    <2>9. BucketPays' /\ ReadsStand' /\ LogHolds'
      BY <2>1 DEF BucketPays, Atomic, ReadsStand, LogHolds
    <2> QED
      BY <2>7, <2>8, <2>9 DEF LimiterInv
  <1> QED
    BY <1>1, <1>2, <1>3, <1>4, <1>5, <1>6
    DEF Limits!LimiterNext, Limits!TokenRace, Limits!BoundaryBurst, Limits!LogBurst

LEMMA LimiterInvSuffices ==
    ASSUME LimitsAssumed, LimiterInv
    PROVE  Limits!LimiterTypeOK /\ Limits!LimitsHold
  <1>0. /\ LimiterShape /\ limiter \in Limits!Limiters /\ results \in Seq(ResultSet)
        /\ clock \in Nat /\ Len(results) \in Nat /\ unordered \in BOOLEAN
        /\ WindowSeconds \in Nat /\ WindowSeconds > 0
    BY DEF LimiterInv, LimiterShape, LimitsAssumed
  <1>1. Limits!LimiterTypeOK
    <2>1. Len(results) <= MaxCalls
      <3>1. Taken \subseteq Callers
        BY DEF Taken
      <3>2. IsFiniteSet(Taken)
        BY <3>1, FS_Subset DEF LimitsAssumed
      <3>3. Cardinality(Taken) \in Nat /\ Len(results) + Cardinality(Taken) <= MaxCalls
        BY <1>0, <3>2, FS_CardinalityType DEF LimiterShape
      <3> QED
        BY <1>0, <3>3 DEF LimitsAssumed
    <2> QED
      BY <1>0, <2>1 DEF LimiterShape, Limits!LimiterTypeOK
  <1>2. \A a, b : Limits!AllowedIn(a, b) = Cardinality(Allowed(a, b))
    <2> SUFFICES ASSUME NEW a, NEW b
                 PROVE  Limits!AllowedIn(a, b) = Cardinality(Allowed(a, b))
      OBVIOUS
    <2>1. DOMAIN results = 1..Len(results)
      BY <1>0
    <2>2. Limits!AllowedIn(a, b) = Limits!Cardinality(Allowed(a, b))
      BY <2>1 DEF Limits!AllowedIn, Allowed
    <2> QED
      BY <2>2 DEF Limits!Cardinality, Cardinality
  <1>3. ASSUME Atomic, NEW a \in 0..clock, NEW b \in a..clock
        PROVE  Limits!AllowedIn(a, b) <= Capacity + (b - a) * Rate
    <2>1. a \in Nat /\ b \in Nat /\ a <= b
      BY <1>0
    <2> QED
      BY <1>2, <1>3, <2>1 DEF LimiterInv, BucketPays
  <1>4. ASSUME limiter = "sliding_window_log", ~unordered, NEW t \in 0..clock
        PROVE  Limits!AllowedIn(t - WindowSeconds + 1, t) <= MaxRequests
    BY <1>0, <1>2, <1>4 DEF LimiterInv, LogHolds
  <1>5. ASSUME limiter \in {"fixed_window", "sliding_window_counter"}, NEW w \in DOMAIN windowHits
        PROVE  Limits!AllowedIn(w * WindowSeconds, (w + 1) * WindowSeconds - 1) <= MaxRequests
    <2>1. w \in 0..(MaxClock \div WindowSeconds)
      BY <1>0 DEF LimiterShape
    <2> QED
      BY <1>2, <1>5, <2>1 DEF LimiterInv, CountersHold, InWindow
  <1>6. Limits!LimitsHold
    <2>1. CASE limiter = "token_bucket"
      BY <1>3, <2>1 DEF Limits!LimitsHold, Atomic
    <2>2. CASE limiter = "token_bucket_racy"
      BY <1>3, <2>2 DEF Limits!LimitsHold, Atomic
    <2>3. CASE limiter = "sliding_window_log"
      BY <1>4, <2>3 DEF Limits!LimitsHold
    <2>4. CASE limiter \in {"fixed_window", "sliding_window_counter"}
      BY <1>5, <2>4 DEF Limits!LimitsHold
    <2> QED
      BY <1>0, <2>1, <2>2, <2>3, <2>4 DEF Limits!Limiters
  <1> QED
    BY <1>1, <1>6

-----------------------------------------------------------------------------
(***************************************************************************)
(* The servers that share a counter.  The counter of a window is at least  *)
(* the number of requests that were checked and passed in it, and when it  *)
(* has gone before the outcome was known nothing can be counted for its    *)
(* window any more, or the window is among those whose count was spoilt.   *)
(***************************************************************************)
ThreadSet == [pc : {"idle", "connect", "call", "drop"}, key : ApiKeys \cup {""}, now : Nat]
AnswerSet == [key : ApiKeys, window : Nat, ok : BOOLEAN, open : BOOLEAN]

Busy(t) == thread[t].pc # "idle"
CounterOf(t) == <<thread[t].key, thread[t].now \div Window>>

ServersShape ==
  /\ time \in Nat /\ redisUp \in BOOLEAN /\ outages \in Nat
  /\ available \in [ApiServers -> BOOLEAN] /\ script \in [ApiServers -> BOOLEAN]
  /\ thread \in [DOMAIN ServerOf -> ThreadSet]
  /\ \A t \in DOMAIN ServerOf : Busy(t) => thread[t].key \in ApiKeys /\ thread[t].now <= time
  /\ answers \in Seq(AnswerSet)
  /\ Limits!ServersTypeOK

\* A counter lives until its window is over.
CountersLive ==
  \A x \in DOMAIN counts : counts[x] \in Nat /\ counts[x] >= 1 /\ expiry[x] \in Nat
                           /\ expiry[x] >= (x[2] + 1) * Window

\* The checked requests of a window that passed.
Checked(x) == {i \in 1..Len(answers) : answers[i].ok /\ answers[i].open = FALSE
                 /\ <<answers[i].key, answers[i].window>> = x}

WindowsCount ==
  \A k \in ApiKeys, w \in Nat : <<k, w>> \notin spoilt =>
    /\ Cardinality(Checked(<<k, w>>)) <= KeyLimit[k]
    /\ <<k, w>> \in DOMAIN counts => Cardinality(Checked(<<k, w>>)) <= counts[<<k, w>>]
    /\ <<k, w>> \notin DOMAIN counts =>
         \/ Checked(<<k, w>>) = {}
         \/ /\ time >= (w + 1) * Window
            /\ \A t \in DOMAIN ServerOf : Busy(t) => CounterOf(t) # <<k, w>>

\* Before Redis goes down for the first time nothing has failed.
NothingFailed ==
  outages = 0 =>
    /\ redisUp
    /\ \A s \in ApiServers : available[s] /\ script[s]
    /\ \A t \in DOMAIN ServerOf : thread[t].pc \in {"idle", "call"}
    /\ \A i \in 1..Len(answers) : ~answers[i].open

ServersInv == ServersShape /\ CountersLive /\ WindowsCount /\ NothingFailed

LEMMA CheckedFinite ==
    ASSUME answers \in Seq(AnswerSet), NEW x
    PROVE  /\ Checked(x) \in SUBSET (1..Len(answers)) /\ Len(answers) \in Nat
           /\ IsFiniteSet(Checked(x)) /\ Cardinality(Checked(x)) \in Nat
  <1>1. Len(answers) \in Nat /\ Checked(x) \in SUBSET (1..Len(answers))
    BY DEF Checked
  <1>2. IsFiniteSet(1..Len(answers))
    BY <1>1, FS_Interval
  <1> QED
    BY <1>1, <1>2, FS_Subset, FS_CardinalityType

\* One more answer.
LEMMA OneMoreAnswer ==
    ASSUME answers \in Seq(AnswerSet), NEW e \in AnswerSet, answers' = Append(answers, e), NEW x
    PROVE  /\ answers' \in Seq(AnswerSet)
           /\ Cardinality(Checked(x)) \in Nat /\ Cardinality(Checked(x)') \in Nat
           /\ e.ok /\ e.open = FALSE /\ <<e.key, e.window>> = x =>
                Cardinality(Checked(x)') = Cardinality(Checked(x)) + 1
           /\ ~(e.ok /\ e.open = FALSE /\ <<e.key, e.window>> = x) => Checked(x)' = Checked(x)
  <1> DEFINE n == Len(answers)
             Counts == e.ok /\ e.open = FALSE /\ <<e.key, e.window>> = x
  <1>1. /\ n \in Nat /\ answers' \in Seq(AnswerSet) /\ Len(answers') = n + 1 /\ answers'[n + 1] = e
        /\ \A i \in 1..n : answers'[i] = answers[i]
    OBVIOUS
  <1>2. /\ Checked(x) \in SUBSET (1..n) /\ IsFiniteSet(Checked(x)) /\ Cardinality(Checked(x)) \in Nat
    BY CheckedFinite
  <1>3. Checked(x)' = {i \in 1..n + 1 : answers'[i].ok /\ answers'[i].open = FALSE
                         /\ <<answers'[i].key, answers'[i].window>> = x}
    BY <1>1 DEF Checked
  <1>4. Checked(x) = {i \in 1..n : answers[i].ok /\ answers[i].open = FALSE
                         /\ <<answers[i].key, answers[i].window>> = x}
    BY DEF Checked
  <1> HIDE DEF n
  <1>5. /\ \A i \in 1..n + 1 : i = n + 1 \/ i \in 1..n
        /\ n + 1 \notin 1..n /\ n + 1 \in 1..n + 1 /\ 1..n \subseteq 1..n + 1
    BY <1>1
  <1>6. CASE Counts
    <2>1. Checked(x)' = Checked(x) \cup {n + 1}
      BY <1>1, <1>3, <1>4, <1>5, <1>6
    <2>2. n + 1 \notin Checked(x)
      BY <1>2, <1>5
    <2>3. Cardinality(Checked(x)') = Cardinality(Checked(x)) + 1
      BY <1>2, <2>1, <2>2, FS_AddElement
    <2> QED
      BY <1>1, <1>2, <1>6, <2>3
  <1>7. CASE ~Counts
    <2>1. Checked(x)' = Checked(x)
      BY <1>1, <1>3, <1>4, <1>5, <1>7
    <2> QED
      BY <1>1, <1>2, <1>7, <2>1
  <1> QED
    BY <1>6, <1>7

LEMMA ServersInvInit ==
    ASSUME ServersAssumed, Limits!ServersInit
    PROVE  ServersInv
  <1> USE DEF Limits!ServersInit
  <1>1. /\ answers \in Seq(AnswerSet) /\ Len(answers) = 0 /\ 1..0 = {}
        /\ DOMAIN counts = {} /\ DOMAIN expiry = {}
    OBVIOUS
  <1>2. \A x : Checked(x) = {}
    BY <1>1 DEF Checked
  <1>3. \A t \in DOMAIN ServerOf : thread[t].pc = "idle"
    BY DEF Limits!ServerThreads, Limits!Waiting
  <1>4. thread \in [DOMAIN ServerOf -> ThreadSet]
    BY DEF Limits!ServerThreads, Limits!Waiting, ThreadSet
  <1>5. Limits!ServersTypeOK
    BY <1>1 DEF ServersAssumed, Limits!ServersTypeOK
  <1>6. ServersShape
    BY <1>1, <1>3, <1>4, <1>5 DEF ServersShape, Busy
  <1>7. WindowsCount
    <2>1. \A x : Cardinality(Checked(x)) = 0
      BY <1>2, FS_EmptySet
    <2>2. \A k \in ApiKeys : KeyLimit[k] \in Nat
      BY DEF ServersAssumed
    <2>3. \A x : x \notin DOMAIN counts
      BY <1>1
    <2> QED
      BY <1>2, <2>1, <2>2, <2>3 DEF WindowsCount
  <1>8. CountersLive /\ NothingFailed
    BY <1>1, <1>3 DEF CountersLive, NothingFailed
  <1> QED
    BY <1>6, <1>7, <1>8 DEF ServersInv

\* Time passes: a counter that expires takes the end of its window with it.
LEMMA ServersTickKeeps ==
    ASSUME ServersAssumed, ServersInv, Limits!ServersTick
    PROVE  ServersInv'
  <1> DEFINE gone == {x \in DOMAIN expiry : expiry[x] <= time + 1}
             kept == DOMAIN expiry \ gone
  <1>1. /\ time' = time + 1
        /\ counts' = [x \in kept |-> counts[x]] /\ expiry' = [x \in kept |-> expiry[x]]
        /\ spoilt' = spoilt \cup {x \in gone : \E t \in DOMAIN ServerOf :
                       thread[t].pc # "idle" /\ <<thread[t].key, thread[t].now \div Window>> = x}
        /\ UNCHANGED <<redisUp, outages, available, script, thread, answers>>
    BY DEF Limits!ServersTick, Limits!ServerThreads
  <1>2. ServersShape /\ time \in Nat /\ DOMAIN counts = DOMAIN expiry /\ CountersLive /\ WindowsCount /\ NothingFailed
    BY DEF ServersInv, ServersShape, Limits!ServersTypeOK
  <1>3. ServersShape'
    <2>1. Limits!ServersTypeOK'
      BY <1>1 DEF ServersInv, ServersShape, Limits!ServersTypeOK
    <2>2. \A t \in DOMAIN ServerOf : Busy(t)' => thread'[t].key \in ApiKeys /\ thread'[t].now <= time'
      <3> SUFFICES ASSUME NEW t \in DOMAIN ServerOf, Busy(t)'
                   PROVE  thread'[t].key \in ApiKeys /\ thread'[t].now <= time'
        OBVIOUS
      <3>1. thread[t].key \in ApiKeys /\ thread[t].now <= time /\ thread[t] \in ThreadSet /\ thread' = thread
        BY <1>1, <1>2 DEF ServersShape, Busy
      <3>2. thread[t].now \in Nat
        BY <3>1 DEF ThreadSet
      <3> QED
        BY <1>1, <1>2, <3>1, <3>2
    <2> QED
      BY <1>1, <1>2, <2>1, <2>2 DEF ServersShape
  <1>4. CountersLive'
    BY <1>1, <1>2 DEF CountersLive
  <1>5. NothingFailed'
    BY <1>1, <1>2 DEF NothingFailed
  <1>6. WindowsCount'
    <2> SUFFICES ASSUME NEW k \in ApiKeys, NEW w \in Nat, <<k, w>> \notin spoilt'
                 PROVE  /\ Cardinality(Checked(<<k, w>>)') <= KeyLimit[k]
                        /\ <<k, w>> \in DOMAIN counts' => Cardinality(Checked(<<k, w>>)') <= counts'[<<k, w>>]
                        /\ <<k, w>> \notin DOMAIN counts' =>
                             \/ Checked(<<k, w>>)' = {}
                             \/ /\ time' >= (w + 1) * Window
                                /\ \A t \in DOMAIN ServerOf : Busy(t)' => CounterOf(t)' # <<k, w>>
      BY DEF WindowsCount
    <2> DEFINE x == <<k, w>>
    <2>0. x[2] = w
      OBVIOUS
    <2> HIDE DEF x
    <2>1. /\ Cardinality(Checked(x)) <= KeyLimit[k]
          /\ x \in DOMAIN counts => Cardinality(Checked(x)) <= counts[x]
          /\ x \notin DOMAIN counts =>
               \/ Checked(x) = {}
               \/ /\ time >= (w + 1) * Window
                  /\ \A t \in DOMAIN ServerOf : Busy(t) => CounterOf(t) # x
      BY <1>1, <1>2 DEF WindowsCount, x
    <2>2. Checked(x)' = Checked(x) /\ \A t : (Busy(t)' <=> Busy(t)) /\ CounterOf(t)' = CounterOf(t)
      BY <1>1 DEF Checked, Busy, CounterOf, x
    <2>3. x \in DOMAIN counts' => x \in DOMAIN counts /\ counts'[x] = counts[x]
      BY <1>1, <1>2
    <2>4. (w + 1) * Window \in Nat
      BY ProductType DEF ServersAssumed
    <2>5. CASE x \in gone
      <3>1. expiry[x] \in Nat /\ expiry[x] >= (w + 1) * Window /\ expiry[x] <= time + 1
        BY <1>2, <2>0, <2>5 DEF CountersLive
      <3>2. time' >= (w + 1) * Window
        BY <1>1, <1>2, <2>4, <3>1
      <3>3. ASSUME NEW t \in DOMAIN ServerOf, Busy(t)
            PROVE  CounterOf(t) # x
        <4>1. CounterOf(t) = x => x \in spoilt'
          BY <1>1, <2>5, <3>3 DEF Busy, CounterOf
        <4> QED
          BY <4>1 DEF x
      <3> QED
        BY <2>1, <2>2, <2>3, <3>2, <3>3 DEF x
    <2>6. CASE x \in DOMAIN counts /\ x \notin gone
      <3>1. x \in DOMAIN counts'
        BY <1>1, <1>2, <2>6
      <3> QED
        BY <2>1, <2>2, <2>3, <3>1 DEF x
    <2>7. CASE x \notin DOMAIN counts
      <3>1. x \notin DOMAIN counts'
        BY <2>3, <2>7
      <3>2. time >= (w + 1) * Window => time' >= (w + 1) * Window
        BY <1>1, <1>2, <2>4
      <3> QED
        BY <2>1, <2>2, <2>7, <3>1, <3>2 DEF x
    <2> QED
      BY <2>5, <2>6, <2>7
  <1> QED
    BY <1>3, <1>4, <1>5, <1>6 DEF ServersInv

\* Redis stops, with what it holds or without, or starts.
LEMMA OutageKeeps ==
    ASSUME ServersAssumed, ServersInv, Limits!Outage
    PROVE  ServersInv'
  <1>0. /\ ServersShape /\ DOMAIN counts = DOMAIN expiry /\ CountersLive /\ WindowsCount /\ NothingFailed
        /\ outages \in Nat /\ outages <= MaxOutages /\ redisUp \in BOOLEAN
    BY DEF ServersInv, ServersShape, Limits!ServersTypeOK
  <1>1. CASE Limits!RedisStarts
    <2>1. /\ ~redisUp /\ redisUp' = TRUE
          /\ UNCHANGED <<time, outages, counts, expiry, available, script, thread, answers, spoilt>>
      BY <1>1 DEF Limits!RedisStarts
    <2>2. ServersShape'
      BY <1>0, <2>1 DEF ServersShape, Limits!ServersTypeOK, Busy
    <2>3. CountersLive' /\ WindowsCount'
      BY <1>0, <2>1 DEF CountersLive, WindowsCount, Checked, Busy, CounterOf
    <2>4. NothingFailed'
      BY <1>0, <2>1 DEF NothingFailed
    <2> QED
      BY <2>2, <2>3, <2>4 DEF ServersInv
  <1>2. ASSUME NEW saved \in BOOLEAN, Limits!RedisStops(saved)
        PROVE  ServersInv'
    <2>1. /\ outages < MaxOutages /\ redisUp' = FALSE /\ outages' = outages + 1
          /\ UNCHANGED <<time, available, script, thread, answers>>
      BY <1>2 DEF Limits!RedisStops
    <2>2. \/ counts' = counts /\ expiry' = expiry /\ spoilt' = spoilt
          \/ DOMAIN counts' = {} /\ DOMAIN expiry' = {} /\ spoilt' = spoilt \cup DOMAIN counts
      BY <1>2 DEF Limits!RedisStops
    <2>3. ServersShape'
      <3>1. DOMAIN counts' = DOMAIN expiry'
        BY <1>0, <2>2
      <3>2. outages' \in Nat /\ outages' <= MaxOutages
        BY <1>0, <2>1 DEF ServersAssumed
      <3>3. Limits!ServersTypeOK'
        BY <1>0, <2>1, <3>1, <3>2 DEF ServersShape, Limits!ServersTypeOK
      <3> QED
        BY <1>0, <2>1, <3>2, <3>3 DEF ServersShape, Busy
    <2>4. CountersLive'
      BY <1>0, <2>2 DEF CountersLive
    <2>5. \A x : Checked(x)' = Checked(x)
      BY <2>1 DEF Checked
    <2>6. \A t : (Busy(t)' <=> Busy(t)) /\ CounterOf(t)' = CounterOf(t)
      BY <2>1 DEF Busy, CounterOf
    <2>7. WindowsCount'
      <3>1. CASE counts' = counts /\ spoilt' = spoilt
        BY <1>0, <2>1, <2>5, <2>6, <3>1 DEF WindowsCount
      <3>2. CASE DOMAIN counts' = {} /\ spoilt' = spoilt \cup DOMAIN counts
        BY <1>0, <2>1, <2>5, <2>6, <3>2 DEF WindowsCount
      <3> QED
        BY <2>2, <3>1, <3>2
    <2>8. NothingFailed'
      BY <1>0, <2>1 DEF NothingFailed
    <2> QED
      BY <2>3, <2>4, <2>7, <2>8 DEF ServersInv
  <1> QED
    BY <1>1, <1>2 DEF Limits!Outage

\* A thread moves on and the counters stay: what it can still count for is what it could
\* before, or a window that is not over.
LEMMA ThreadKeeps ==
    ASSUME ServersAssumed, ServersInv, NEW t \in DOMAIN ServerOf,
           UNCHANGED <<time, redisUp, outages, counts, expiry, spoilt>>,
           \A x : Checked(x)' = Checked(x),
           thread' \in [DOMAIN ServerOf -> ThreadSet],
           \A u \in DOMAIN ServerOf \ {t} : thread'[u] = thread[u],
           Busy(t)' => thread'[t].key \in ApiKeys /\ thread'[t].now <= time,
           Busy(t)' => thread'[t].now = time \/ (Busy(t) /\ CounterOf(t)' = CounterOf(t)),
           available' \in [ApiServers -> BOOLEAN], script' \in [ApiServers -> BOOLEAN],
           answers' \in Seq(AnswerSet), NothingFailed'
    PROVE  ServersInv'
  <1>0. /\ ServersShape /\ CountersLive /\ WindowsCount /\ time \in Nat
        /\ Window \in Nat /\ Window > 0
    BY DEF ServersInv, ServersShape, ServersAssumed
  <1>1. \A u \in DOMAIN ServerOf \ {t} : (Busy(u)' <=> Busy(u)) /\ CounterOf(u)' = CounterOf(u)
    BY DEF Busy, CounterOf
  <1>2. ServersShape'
    <2>1. ASSUME NEW u \in DOMAIN ServerOf, Busy(u)'
          PROVE  thread'[u].key \in ApiKeys /\ thread'[u].now <= time
      <3>1. CASE u = t
        BY <2>1, <3>1
      <3>2. CASE u # t
        <4>1. Busy(u) /\ thread'[u] = thread[u]
          BY <1>1, <2>1, <3>2
        <4> QED
          BY <1>0, <4>1 DEF ServersShape
      <3> QED
        BY <3>1, <3>2
    <2>2. Limits!ServersTypeOK'
      BY <1>0 DEF ServersShape, Limits!ServersTypeOK
    <2> QED
      BY <1>0, <2>1, <2>2 DEF ServersShape
  <1>3. CountersLive'
    BY <1>0 DEF CountersLive
  <1>4. WindowsCount'
    <2> SUFFICES ASSUME NEW k \in ApiKeys, NEW w \in Nat, <<k, w>> \notin spoilt, <<k, w>> \notin DOMAIN counts,
                        time >= (w + 1) * Window,
                        \A u \in DOMAIN ServerOf : Busy(u) => CounterOf(u) # <<k, w>>,
                        NEW u \in DOMAIN ServerOf, Busy(u)'
                 PROVE  CounterOf(u)' # <<k, w>>
      BY <1>0 DEF WindowsCount
    <2>1. CASE u # t
      BY <1>1, <2>1
    <2>2. CASE u = t /\ Busy(t) /\ CounterOf(t)' = CounterOf(t)
      BY <2>2
    <2>3. CASE u = t /\ thread'[t].now = time
      <3>1. CounterOf(u)' = <<thread'[t].key, time \div Window>>
        BY <2>3 DEF CounterOf
      <3>2. time \div Window # w
        <4>1. time \notin w * Window..(w + 1) * Window - 1
          <5> DEFINE end == (w + 1) * Window
          <5>1. end \in Nat /\ time >= end
            BY <1>0, ProductType
          <5> HIDE DEF end
          <5>2. ~(time <= end - 1)
            BY <1>0, <5>1
          <5> QED
            BY <5>2 DEF end
        <4> QED
          BY <1>0, <4>1, WindowIsOne
      <3> QED
        BY <3>1, <3>2
    <2> QED
      BY <2>1, <2>2, <2>3
  <1> QED
    BY <1>2, <1>3, <1>4 DEF ServersInv

LEMMA WaitingThread == Limits!Waiting \in ThreadSet /\ Limits!Waiting.pc = "idle"
  BY DEF Limits!Waiting, ThreadSet

\* An answer that was not checked.
LEMMA OpenAnswer ==
    ASSUME ServersAssumed, ServersInv, NEW t \in DOMAIN ServerOf, Busy(t), Limits!FailOpen(t)
    PROVE  /\ answers' \in Seq(AnswerSet) /\ \A x : Checked(x)' = Checked(x)
           /\ thread' = [thread EXCEPT ![t] = Limits!Waiting]
           /\ thread' \in [DOMAIN ServerOf -> ThreadSet] /\ ~Busy(t)'
           /\ \A u \in DOMAIN ServerOf \ {t} : thread'[u] = thread[u]
  <1> DEFINE e == [key |-> thread[t].key, window |-> thread[t].now \div Window, ok |-> TRUE, open |-> TRUE]
  <1>1. /\ answers \in Seq(AnswerSet) /\ thread \in [DOMAIN ServerOf -> ThreadSet]
        /\ thread[t].key \in ApiKeys /\ Window \in Nat /\ Window > 0
    BY DEF ServersInv, ServersShape, ServersAssumed
  <1>2. e \in AnswerSet
    <2>1. thread[t].now \in Nat
      BY <1>1 DEF ThreadSet
    <2>2. thread[t].now \div Window \in Nat
      BY <1>1, <2>1, WindowOf
    <2> QED
      BY <1>1, <2>2 DEF AnswerSet
  <1>3. answers' = Append(answers, e) /\ thread' = [thread EXCEPT ![t] = Limits!Waiting]
    BY DEF Limits!FailOpen
  <1>4. ~(e.open = FALSE)
    OBVIOUS
  <1> HIDE DEF e
  <1>5. answers' \in Seq(AnswerSet) /\ \A x : Checked(x)' = Checked(x)
    BY <1>1, <1>2, <1>3, <1>4, OneMoreAnswer
  <1>6. thread' \in [DOMAIN ServerOf -> ThreadSet] /\ thread'[t].pc = "idle"
    BY <1>1, <1>3, WaitingThread
  <1> QED
    BY <1>1, <1>3, <1>5, <1>6 DEF Busy

\* A checked request.
LEMMA CallScriptKeeps ==
    ASSUME ServersAssumed, ServersInv, NEW t \in DOMAIN ServerOf, Limits!CallScript(t)
    PROVE  ServersInv'
  <1> DEFINE k0 == thread[t].key
             w0 == thread[t].now \div Window
             x0 == <<k0, w0>>
             count == IF x0 \in DOMAIN counts THEN counts[x0] + 1 ELSE 1
             ok == count <= KeyLimit[k0]
             e == [key |-> k0, window |-> w0, open |-> FALSE, ok |-> ok]
  <1>1. /\ thread[t].pc = "call" /\ redisUp /\ script[ServerOf[t]]
        /\ counts' = [y \in DOMAIN counts \cup {x0} |-> IF y = x0 THEN count ELSE counts[y]]
        /\ expiry' = IF count = 1 THEN [y \in DOMAIN expiry \cup {x0} |->
                                          IF y = x0 THEN time + Window ELSE expiry[y]] ELSE expiry
        /\ thread' = [thread EXCEPT ![t] = Limits!Waiting]
        /\ UNCHANGED <<time, redisUp, outages, available, script, spoilt>>
    BY DEF Limits!CallScript
  <1>2. answers' = Append(answers, e)
    BY DEF Limits!CallScript
  <1>3. /\ ServersShape /\ DOMAIN counts = DOMAIN expiry /\ CountersLive /\ WindowsCount /\ NothingFailed
        /\ answers \in Seq(AnswerSet) /\ thread \in [DOMAIN ServerOf -> ThreadSet] /\ time \in Nat
        /\ Window \in Nat /\ Window > 0 /\ outages \in Nat /\ outages <= MaxOutages
        /\ Busy(t) /\ KeyLimit \in [ApiKeys -> Nat]
    BY <1>1 DEF ServersInv, ServersShape, Limits!ServersTypeOK, ServersAssumed, Busy
  <1>4. k0 \in ApiKeys /\ thread[t].now \in Nat /\ thread[t].now <= time /\ w0 \in Nat
    <2>1. k0 \in ApiKeys /\ thread[t].now <= time
      BY <1>3 DEF ServersShape
    <2>2. thread[t].now \in Nat
      BY <1>3 DEF ThreadSet
    <2> QED
      BY <1>3, <2>1, <2>2, WindowOf
  <1>5. KeyLimit[k0] \in Nat /\ ok \in BOOLEAN
    BY <1>3, <1>4
  <1>6. e \in AnswerSet /\ (e.ok <=> count <= KeyLimit[k0]) /\ e.open = FALSE /\ <<e.key, e.window>> = x0
    BY <1>4, <1>5 DEF AnswerSet
  <1>7. count \in Nat /\ count >= 1 /\ (x0 \in DOMAIN counts <=> count # 1)
    <2>1. x0 \in DOMAIN counts => counts[x0] \in Nat /\ counts[x0] >= 1
      BY <1>3 DEF CountersLive
    <2> HIDE DEF x0
    <2> QED
      BY <2>1
  <1>8. x0[2] = w0 /\ time + Window >= (w0 + 1) * Window /\ time + Window \in Nat
    <2>1. thread[t].now \in w0 * Window..(w0 + 1) * Window - 1
      BY <1>3, <1>4, WindowIsOne
    <2>2. (w0 + 1) * Window = w0 * Window + Window
      <3>1. (w0 + 1) * Window = w0 * Window + 1 * Window /\ 1 * Window = Window
        BY <1>3, <1>4, Distribute
      <3> QED
        BY <3>1
    <2>3. w0 * Window \in Nat
      BY <1>3, <1>4, ProductType
    <2> DEFINE p == w0 * Window
    <2>4. p \in Nat /\ p <= thread[t].now
      BY <2>1, <2>3
    <2>5. time + Window >= p + Window
      <3> HIDE DEF p
      <3> QED
        BY <1>3, <1>4, <2>4
    <2> QED
      BY <1>3, <2>2, <2>5
  <1> HIDE DEF e, x0, count
  <1>9. \A x : /\ Cardinality(Checked(x)) \in Nat /\ Cardinality(Checked(x)') \in Nat
               /\ x = x0 /\ count <= KeyLimit[k0] => Cardinality(Checked(x)') = Cardinality(Checked(x)) + 1
               /\ ~(x = x0 /\ count <= KeyLimit[k0]) => Checked(x)' = Checked(x)
    <2> SUFFICES ASSUME NEW x
                 PROVE  /\ Cardinality(Checked(x)) \in Nat /\ Cardinality(Checked(x)') \in Nat
                        /\ x = x0 /\ count <= KeyLimit[k0] => Cardinality(Checked(x)') = Cardinality(Checked(x)) + 1
                        /\ ~(x = x0 /\ count <= KeyLimit[k0]) => Checked(x)' = Checked(x)
      OBVIOUS
    <2>1. /\ Cardinality(Checked(x)) \in Nat /\ Cardinality(Checked(x)') \in Nat
          /\ e.ok /\ e.open = FALSE /\ <<e.key, e.window>> = x =>
               Cardinality(Checked(x)') = Cardinality(Checked(x)) + 1
          /\ ~(e.ok /\ e.open = FALSE /\ <<e.key, e.window>> = x) => Checked(x)' = Checked(x)
      BY <1>2, <1>3, <1>6, OneMoreAnswer
    <2> QED
      BY <1>6, <2>1
  <1>10. answers' \in Seq(AnswerSet)
    BY <1>2, <1>3, <1>6, OneMoreAnswer
  <1>11. /\ thread' \in [DOMAIN ServerOf -> ThreadSet] /\ thread'[t].pc = "idle"
         /\ \A u \in DOMAIN ServerOf \ {t} : thread'[u] = thread[u]
    BY <1>1, <1>3, WaitingThread
  <1>12. \A u \in DOMAIN ServerOf : Busy(u)' => Busy(u) /\ thread'[u] = thread[u] /\ CounterOf(u)' = CounterOf(u)
    BY <1>11 DEF Busy, CounterOf
  <1>13. /\ DOMAIN counts' = DOMAIN counts \cup {x0} /\ DOMAIN expiry' = DOMAIN counts \cup {x0}
         /\ counts'[x0] = count /\ \A y \in DOMAIN counts \ {x0} : counts'[y] = counts[y]
         /\ \A y \in DOMAIN expiry' : expiry'[y] = IF y = x0 /\ count = 1 THEN time + Window ELSE expiry[y]
    BY <1>1, <1>3, <1>7
  <1>14. ServersShape'
    <2>1. Limits!ServersTypeOK'
      BY <1>1, <1>3, <1>13 DEF Limits!ServersTypeOK
    <2> QED
      BY <1>1, <1>3, <1>10, <1>11, <1>12, <2>1 DEF ServersShape
  <1>15. CountersLive'
    <2> SUFFICES ASSUME NEW y \in DOMAIN counts'
                 PROVE  /\ counts'[y] \in Nat /\ counts'[y] >= 1 /\ expiry'[y] \in Nat
                        /\ expiry'[y] >= (y[2] + 1) * Window
      BY DEF CountersLive
    <2>1. CASE y = x0 /\ count = 1
      BY <1>7, <1>8, <1>13, <2>1
    <2>2. CASE y \in DOMAIN counts /\ ~(y = x0 /\ count = 1)
      <3>1. counts[y] \in Nat /\ counts[y] >= 1 /\ expiry[y] \in Nat /\ expiry[y] >= (y[2] + 1) * Window
        BY <1>3, <2>2 DEF CountersLive
      <3>2. expiry'[y] = expiry[y]
        BY <1>13, <2>2
      <3>3. counts'[y] \in Nat /\ counts'[y] >= 1
        BY <1>7, <1>13, <2>2, <3>1
      <3> QED
        BY <3>1, <3>2, <3>3
    <2> QED
      BY <1>7, <1>13, <2>1, <2>2
  <1>16. NothingFailed'
    <2> SUFFICES ASSUME outages = 0
                 PROVE  NothingFailed'
      BY <1>1 DEF NothingFailed
    <2>1. \A i \in 1..Len(answers') : ~answers'[i].open
      <3>1. \A i \in 1..Len(answers) : ~answers[i].open
        BY <1>3 DEF NothingFailed
      <3>2. /\ Len(answers') = Len(answers) + 1 /\ answers'[Len(answers) + 1] = e /\ Len(answers) \in Nat
            /\ \A i \in 1..Len(answers) : answers'[i] = answers[i]
        BY <1>2, <1>3, <1>6
      <3>3. \A i \in 1..Len(answers) + 1 : i \in 1..Len(answers) \/ i = Len(answers) + 1
        BY <3>2
      <3>4. ~e.open
        BY <1>6
      <3> QED
        BY <3>1, <3>2, <3>3, <3>4
    <2>2. \A u \in DOMAIN ServerOf : thread'[u].pc \in {"idle", "call"}
      BY <1>3, <1>11 DEF NothingFailed
    <2>3. redisUp' /\ \A s \in ApiServers : available'[s] /\ script'[s]
      BY <1>1, <1>3 DEF NothingFailed
    <2> QED
      BY <2>1, <2>2, <2>3 DEF NothingFailed
  <1>17. WindowsCount'
    <2> SUFFICES ASSUME NEW k \in ApiKeys, NEW w \in Nat, <<k, w>> \notin spoilt
                 PROVE  /\ Cardinality(Checked(<<k, w>>)') <= KeyLimit[k]
                        /\ <<k, w>> \in DOMAIN counts' => Cardinality(Checked(<<k, w>>)') <= counts'[<<k, w>>]
                        /\ <<k, w>> \notin DOMAIN counts' =>
                             \/ Checked(<<k, w>>)' = {}
                             \/ /\ time >= (w + 1) * Window
                                /\ \A u \in DOMAIN ServerOf : Busy(u)' => CounterOf(u)' # <<k, w>>
      BY <1>1 DEF WindowsCount
    <2> DEFINE x == <<k, w>>
    <2>0. x = x0 => k = k0
      BY DEF x0
    <2>1. /\ Cardinality(Checked(x)) <= KeyLimit[k]
          /\ x \in DOMAIN counts => Cardinality(Checked(x)) <= counts[x]
          /\ x \notin DOMAIN counts =>
               \/ Checked(x) = {}
               \/ /\ time >= (w + 1) * Window
                  /\ \A u \in DOMAIN ServerOf : Busy(u) => CounterOf(u) # x
      BY <1>3 DEF WindowsCount
    <2> HIDE DEF x
    <2>2. CASE x # x0
      <3>1. Checked(x)' = Checked(x)
        BY <1>9, <2>2
      <3>2. x \in DOMAIN counts' <=> x \in DOMAIN counts
        BY <1>13, <2>2
      <3>3. x \in DOMAIN counts => counts'[x] = counts[x]
        BY <1>13, <2>2
      <3> QED
        BY <1>12, <2>1, <3>1, <3>2, <3>3 DEF x
    <2>3. CASE x = x0
      <3>1. CounterOf(t) = x
        BY <2>3 DEF CounterOf, x0
      <3>2. x \in DOMAIN counts' /\ counts'[x] = count
        BY <1>13, <2>3
      <3>3. x \notin DOMAIN counts => Cardinality(Checked(x)) = 0 /\ count = 1
        BY <1>3, <1>7, <2>1, <2>3, <3>1, FS_EmptySet
      <3>4. x \in DOMAIN counts => Cardinality(Checked(x)) <= counts[x] /\ count = counts[x] + 1 /\ counts[x] \in Nat
        BY <1>3, <2>1, <2>3 DEF count, CountersLive
      <3>5. /\ Cardinality(Checked(x)) \in Nat /\ Cardinality(Checked(x)') \in Nat
            /\ Cardinality(Checked(x)) + 1 <= count
        <4>1. Cardinality(Checked(x)) \in Nat /\ Cardinality(Checked(x)') \in Nat
          BY <1>9
        <4> QED
          BY <1>7, <3>3, <3>4, <4>1
      <3>6. CASE count <= KeyLimit[k0]
        <4>1. Cardinality(Checked(x)') = Cardinality(Checked(x)) + 1
          BY <1>9, <2>3, <3>6
        <4>2. Cardinality(Checked(x)') <= count /\ Cardinality(Checked(x)') <= KeyLimit[k]
          BY <1>5, <1>7, <2>0, <2>3, <3>5, <3>6, <4>1
        <4> QED
          BY <3>2, <4>2 DEF x
      <3>7. CASE ~(count <= KeyLimit[k0])
        <4>1. Checked(x)' = Checked(x)
          BY <1>9, <3>7
        <4>2. Cardinality(Checked(x)') <= count
          BY <1>7, <3>5, <4>1
        <4> QED
          BY <2>1, <3>2, <4>1, <4>2 DEF x
      <3> QED
        BY <3>6, <3>7
    <2> QED
      BY <2>2, <2>3
  <1> QED
    BY <1>14, <1>15, <1>16, <1>17 DEF ServersInv

LEMMA ServersInvStep ==
    ASSUME ServersAssumed, ServersInv, Limits!ServersNext \/ UNCHANGED serversVars
    PROVE  ServersInv'
  <1>0. /\ ServersShape /\ NothingFailed /\ time \in Nat /\ answers \in Seq(AnswerSet)
        /\ thread \in [DOMAIN ServerOf -> ThreadSet] /\ redisUp \in BOOLEAN
        /\ available \in [ApiServers -> BOOLEAN] /\ script \in [ApiServers -> BOOLEAN]
        /\ \A t \in DOMAIN ServerOf : ServerOf[t] \in ApiServers
        /\ Window \in Nat /\ Window > 0
    BY DEF ServersInv, ServersShape, ServersAssumed
  <1>1. CASE Limits!ServersIdle \/ UNCHANGED serversVars
    <2>1. UNCHANGED <<time, redisUp, outages, counts, expiry, available, script, thread, answers, spoilt>>
      BY <1>1 DEF Limits!ServersIdle, Limits!serversVars, serversVars
    <2>2. ServersShape'
      BY <1>0, <2>1 DEF ServersShape, Limits!ServersTypeOK, Busy
    <2>3. CountersLive' /\ WindowsCount'
      BY <2>1 DEF ServersInv, CountersLive, WindowsCount, Checked, Busy, CounterOf
    <2>4. NothingFailed'
      BY <1>0, <2>1 DEF NothingFailed
    <2> QED
      BY <2>2, <2>3, <2>4 DEF ServersInv
  <1>2. ASSUME NEW t \in DOMAIN ServerOf, NEW k \in ApiKeys, Limits!Receive(t, k)
        PROVE  ServersInv'
    <2> DEFINE new == [pc |-> IF available[ServerOf[t]] THEN "call" ELSE "connect", key |-> k, now |-> time]
    <2>1. /\ thread[t].pc = "idle" /\ thread' = [thread EXCEPT ![t] = new]
          /\ UNCHANGED <<time, redisUp, outages, counts, expiry, available, script, answers, spoilt>>
      BY <1>2 DEF Limits!Receive
    <2>2. new \in ThreadSet /\ new.key = k /\ new.now = time
      BY <1>0 DEF ThreadSet
    <2>3. outages = 0 => new.pc = "call"
      BY <1>0 DEF NothingFailed
    <2> HIDE DEF new
    <2>4. /\ thread' \in [DOMAIN ServerOf -> ThreadSet] /\ thread'[t] = new
          /\ \A u \in DOMAIN ServerOf \ {t} : thread'[u] = thread[u]
      BY <1>0, <2>1, <2>2
    <2>5. \A x : Checked(x)' = Checked(x)
      BY <2>1 DEF Checked
    <2>6. NothingFailed'
      BY <1>0, <2>1, <2>3, <2>4 DEF NothingFailed
    <2>7. thread'[t].key \in ApiKeys /\ thread'[t].now <= time /\ thread'[t].now = time
      BY <1>0, <2>2, <2>4
    <2> QED
      BY <1>0, <2>1, <2>4, <2>5, <2>6, <2>7, ThreadKeeps
  <1>3. ASSUME NEW t \in DOMAIN ServerOf, Limits!Connect(t)
        PROVE  ServersInv'
    <2>1. /\ thread[t].pc = "connect" /\ Busy(t)
          /\ script' = [script EXCEPT ![ServerOf[t]] = redisUp]
          /\ available' = [available EXCEPT ![ServerOf[t]] = redisUp]
          /\ \/ redisUp /\ thread' = [thread EXCEPT ![t].pc = "call"] /\ UNCHANGED answers
             \/ ~redisUp /\ Limits!FailOpen(t)
          /\ UNCHANGED <<time, redisUp, outages, counts, expiry, spoilt>>
      BY <1>3 DEF Limits!Connect, Limits!At, Busy
    <2>2. available' \in [ApiServers -> BOOLEAN] /\ script' \in [ApiServers -> BOOLEAN]
      BY <1>0, <2>1
    <2>3. outages # 0 \* a connection was lost
      BY <1>0, <2>1 DEF NothingFailed
    <2>4. NothingFailed'
      BY <2>1, <2>3 DEF NothingFailed
    <2>5. CASE thread' = [thread EXCEPT ![t].pc = "call"] /\ UNCHANGED answers
      <3>1. thread[t] \in ThreadSet /\ thread[t].key \in ApiKeys /\ thread[t].now <= time
        BY <1>0, <2>1 DEF ServersShape
      <3>2. /\ thread'[t] = [thread[t] EXCEPT !.pc = "call"] /\ thread'[t].key = thread[t].key
            /\ thread'[t].now = thread[t].now /\ thread'[t] \in ThreadSet
        BY <1>0, <2>5, <3>1 DEF ThreadSet
      <3>3. /\ thread' \in [DOMAIN ServerOf -> ThreadSet]
            /\ \A u \in DOMAIN ServerOf \ {t} : thread'[u] = thread[u]
        BY <1>0, <2>5, <3>2
      <3>4. \A x : Checked(x)' = Checked(x)
        BY <2>5 DEF Checked
      <3>5. CounterOf(t)' = CounterOf(t)
        BY <3>2 DEF CounterOf
      <3> QED
        BY <1>0, <2>1, <2>2, <2>4, <2>5, <3>1, <3>2, <3>3, <3>4, <3>5, ThreadKeeps
    <2>6. CASE Limits!FailOpen(t)
      <3>1. /\ answers' \in Seq(AnswerSet) /\ \A x : Checked(x)' = Checked(x)
            /\ thread' \in [DOMAIN ServerOf -> ThreadSet] /\ ~Busy(t)'
            /\ \A u \in DOMAIN ServerOf \ {t} : thread'[u] = thread[u]
        BY <2>1, <2>6, OpenAnswer
      <3> QED
        BY <2>1, <2>2, <2>4, <3>1, ThreadKeeps
    <2> QED
      BY <2>1, <2>5, <2>6
  <1>4. ASSUME NEW t \in DOMAIN ServerOf, Limits!CallFails(t)
        PROVE  ServersInv'
    <2>1. /\ thread[t].pc = "call" /\ Busy(t) /\ (~redisUp \/ ~script[ServerOf[t]])
          /\ available' = [available EXCEPT ![ServerOf[t]] = FALSE]
          /\ thread' = [thread EXCEPT ![t].pc = "drop"]
          /\ UNCHANGED <<time, redisUp, outages, counts, expiry, script, answers, spoilt>>
      BY <1>4 DEF Limits!CallFails, Limits!At, Busy
    <2>2. available' \in [ApiServers -> BOOLEAN] /\ outages # 0
      BY <1>0, <2>1 DEF NothingFailed
    <2>3. NothingFailed'
      BY <2>1, <2>2 DEF NothingFailed
    <2>4. thread[t] \in ThreadSet /\ thread[t].key \in ApiKeys /\ thread[t].now <= time
      BY <1>0, <2>1 DEF ServersShape
    <2>5. /\ thread'[t] = [thread[t] EXCEPT !.pc = "drop"] /\ thread'[t].key = thread[t].key
          /\ thread'[t].now = thread[t].now /\ thread'[t] \in ThreadSet
      BY <1>0, <2>1, <2>4 DEF ThreadSet
    <2>6. /\ thread' \in [DOMAIN ServerOf -> ThreadSet]
          /\ \A u \in DOMAIN ServerOf \ {t} : thread'[u] = thread[u]
      BY <1>0, <2>1, <2>5
    <2>7. CounterOf(t)' = CounterOf(t) /\ \A x : Checked(x)' = Checked(x)
      BY <2>1, <2>5 DEF CounterOf, Checked
    <2> QED
      BY <1>0, <2>1, <2>2, <2>3, <2>4, <2>5, <2>6, <2>7, ThreadKeeps
  <1>5. ASSUME NEW t \in DOMAIN ServerOf, Limits!DropScript(t)
        PROVE  ServersInv'
    <2>1. /\ thread[t].pc = "drop" /\ Busy(t)
          /\ script' = [script EXCEPT ![ServerOf[t]] = FALSE] /\ Limits!FailOpen(t)
          /\ UNCHANGED <<time, redisUp, outages, counts, expiry, available, spoilt>>
      BY <1>5 DEF Limits!DropScript, Busy
    <2>2. script' \in [ApiServers -> BOOLEAN] /\ outages # 0
      BY <1>0, <2>1 DEF NothingFailed
    <2>3. NothingFailed'
      BY <2>1, <2>2 DEF NothingFailed
    <2>4. /\ answers' \in Seq(AnswerSet) /\ \A x : Checked(x)' = Checked(x)
          /\ thread' \in [DOMAIN ServerOf -> ThreadSet] /\ ~Busy(t)'
          /\ \A u \in DOMAIN ServerOf \ {t} : thread'[u] = thread[u]
      BY <2>1, OpenAnswer
    <2> QED
      BY <1>0, <2>1, <2>2, <2>3, <2>4, ThreadKeeps
  <1> QED
    BY <1>1, <1>2, <1>3, <1>4, <1>5, ServersTickKeeps, OutageKeeps, CallScriptKeeps
    DEF Limits!ServersNext, Limits!Burst, Limits!ServerThreads

LEMMA ServersInvSuffices ==
    ASSUME ServersAssumed, ServersInv
    PROVE  Limits!ServersTypeOK /\ Limits!GlobalLimitHolds
  <1>1. /\ answers \in Seq(AnswerSet) /\ Limits!ServersTypeOK /\ outages \in Nat /\ DOMAIN counts = DOMAIN expiry
        /\ available \in [ApiServers -> BOOLEAN] /\ script \in [ApiServers -> BOOLEAN]
        /\ CountersLive /\ WindowsCount /\ NothingFailed
    BY DEF ServersInv, ServersShape, Limits!ServersTypeOK
  <1>2. DOMAIN answers = 1..Len(answers)
    BY <1>1
  <1>3. ASSUME NEW k \in ApiKeys, NEW w \in 0..(MaxTime \div Window), <<k, w>> \notin spoilt
        PROVE  Limits!Passed(<<k, w>>, FALSE) <= KeyLimit[k]
    <2>1. Limits!Passed(<<k, w>>, FALSE) = Limits!Cardinality(Checked(<<k, w>>))
      BY <1>2 DEF Limits!Passed, Checked
    <2>2. Limits!Cardinality(Checked(<<k, w>>)) = Cardinality(Checked(<<k, w>>))
      BY DEF Limits!Cardinality, Cardinality
    <2>3. w \in Nat
      OBVIOUS
    <2> QED
      BY <1>1, <1>3, <2>1, <2>2, <2>3 DEF WindowsCount
  <1>4. outages = 0 => \A i \in DOMAIN answers : ~answers[i].open
    BY <1>1, <1>2 DEF NothingFailed
  <1>5. \A x \in DOMAIN expiry : expiry[x] >= (x[2] + 1) * Window
    BY <1>1 DEF CountersLive
  <1>6. \A s \in ApiServers : available[s] /\ ~script[s] => outages > 0
    BY <1>1 DEF NothingFailed
  <1> QED
    BY <1>1, <1>3, <1>4, <1>5, <1>6 DEF Limits!GlobalLimitHolds

-----------------------------------------------------------------------------
(***************************************************************************)
(* The codes.  The digits of a number are those of its quotient by the     *)
(* base and its remainder, and what digits are worth is worked out one at  *)
(* a time, so reading the digits of a number gives the number.  Both       *)
(* recursive functions exist: an initial part does, for every length.      *)
(***************************************************************************)
DigitStep(g, n) == IF n = 0 THEN <<>> ELSE Append(g[n \div CodeBase], n % CodeBase)
DigitsTo(g, n) == \A i \in 0..n : g[i] = DigitStep(g, i)
Digits == CHOOSE d : d = [n \in Nat |-> DigitStep(d, n)]

LEMMA Halves ==
    ASSUME CodeAssumed, NEW n \in Nat
    PROVE  /\ n \div CodeBase \in 0..n /\ n % CodeBase \in 0..CodeBase - 1
           /\ n = (n \div CodeBase) * CodeBase + (n % CodeBase)
           /\ n # 0 => n \div CodeBase \in 0..n - 1
  <1> DEFINE q == n \div CodeBase
             r == n % CodeBase
             p == q * CodeBase
  <1>1. CodeBase \in Nat /\ CodeBase >= 2
    BY DEF CodeAssumed
  <1>2. q \in Int /\ r \in 0..CodeBase - 1 /\ n = CodeBase * q + r
    BY <1>1
  <1>3. p \in Int /\ n = p + r
    BY <1>1, <1>2
  <1>4. q >= 0
    <2>1. CASE q < 0
      <3>1. q + 1 <= 0 /\ CodeBase * (q + 1) <= 0
        BY <1>1, <1>2, <2>1
      <3>2. CodeBase * (q + 1) = CodeBase * q + CodeBase
        BY <1>1, <1>2
      <3>3. CodeBase * q \in Int
        BY <1>1, <1>2
      <3> QED
        BY <1>1, <1>2, <3>1, <3>2, <3>3
    <2> QED
      BY <1>2, <2>1
  <1>5. p >= q + q
    <2>1. q * (CodeBase - 2) >= 0
      BY <1>1, <1>2, <1>4
    <2>2. q * (CodeBase - 2) = q * CodeBase - (q + q)
      BY <1>1, <1>2
    <2> QED
      BY <1>2, <1>3, <2>1, <2>2
  <1> HIDE DEF p, q, r
  <1>6. q \in 0..n /\ (n # 0 => q \in 0..n - 1)
    BY <1>1, <1>2, <1>3, <1>4, <1>5
  <1>7. n = p + r
    BY <1>3
  <1>8. r \in 0..CodeBase - 1
    BY <1>2
  <1> QED
    BY <1>6, <1>7, <1>8, Zenon DEF p, q, r

\* Two initial parts agree as far as both go.
LEMMA DigitsAgree ==
    ASSUME CodeAssumed, NEW n \in Nat, NEW m \in Nat, NEW g, NEW h, DigitsTo(g, n), DigitsTo(h, m),
           NEW k \in Nat, k <= n, k <= m
    PROVE  g[k] = h[k]
  <1> DEFINE Same(i) == \A j \in 0..i : j <= k => g[j] = h[j]
             K == {i \in Nat : Same(i)}
  <1>1. \A j \in 0..k : g[j] = DigitStep(g, j) /\ h[j] = DigitStep(h, j)
    BY DEF DigitsTo
  <1>2. 0 \in K
    <2>1. g[0] = h[0]
      BY <1>1 DEF DigitStep
    <2> QED
      BY <2>1
  <1>3. ASSUME NEW i \in K
        PROVE  i + 1 \in K
    <2>1. i \in Nat /\ Same(i)
      OBVIOUS
    <2> HIDE DEF K
    <2>2. ASSUME i + 1 <= k
          PROVE  g[i + 1] = h[i + 1]
      <3>1. (i + 1) \div CodeBase \in 0..i
        <4>1. (i + 1) \div CodeBase \in 0..(i + 1) - 1
          BY <2>1, Halves
        <4> QED
          BY <2>1, <4>1
      <3>2. (i + 1) \div CodeBase <= k
        BY <2>1, <2>2, <3>1
      <3>3. g[(i + 1) \div CodeBase] = h[(i + 1) \div CodeBase]
        BY <2>1, <3>1, <3>2
      <3>4. i + 1 \in 0..k
        BY <2>1, <2>2
      <3> QED
        BY <1>1, <3>3, <3>4 DEF DigitStep
    <2>3. Same(i + 1)
      BY <2>1, <2>2
    <2> QED
      BY <2>1, <2>3 DEF K
  <1>4. K = Nat
    <2> HIDE DEF K
    <2>1. K \in SUBSET Nat
      BY DEF K
    <2> QED
      BY <1>2, <1>3, <2>1, NatBySets
  <1>5. Same(k)
    BY <1>4
  <1> QED
    BY <1>5

LEMMA DigitsStart ==
    ASSUME CodeAssumed, NEW n \in Nat
    PROVE  \E g : DigitsTo(g, n)
  <1> DEFINE K == {i \in Nat : \E g : DigitsTo(g, i)}
  <1>1. 0 \in K
    <2> DEFINE g == [i \in {0} |-> <<>>]
    <2>1. g[0] = <<>>
      OBVIOUS
    <2> HIDE DEF g
    <2>2. DigitsTo(g, 0)
      BY <2>1 DEF DigitsTo, DigitStep
    <2> QED
      BY <2>2
  <1>2. ASSUME NEW i \in K
        PROVE  i + 1 \in K
    <2>1. i \in Nat
      OBVIOUS
    <2>2. PICK g : DigitsTo(g, i)
      OBVIOUS
    <2> HIDE DEF K
    <2> DEFINE h == [j \in 0..i + 1 |-> IF j = i + 1 THEN DigitStep(g, j) ELSE g[j]]
    <2>3. (\A j \in 0..i : h[j] = g[j]) /\ h[i + 1] = DigitStep(g, i + 1)
      <3>1. \A j \in 0..i : j \in 0..i + 1 /\ j # i + 1
        BY <2>1
      <3>2. i + 1 \in 0..i + 1
        BY <2>1
      <3> QED
        BY <3>1, <3>2
    <2> HIDE DEF h
    <2>4. \A j \in 0..i + 1 : DigitStep(h, j) = DigitStep(g, j)
      <3>1. \A j \in 0..i + 1 : j # 0 => j \in Nat /\ j \div CodeBase \in 0..i
        <4>1. \A j \in 0..i + 1 : j # 0 => j \in Nat /\ j \div CodeBase \in 0..j - 1
          BY <2>1, Halves
        <4>2. \A j \in 0..i + 1 : 0..j - 1 \subseteq 0..i
          BY <2>1
        <4> QED
          BY <4>1, <4>2
      <3> QED
        BY <2>3, <3>1 DEF DigitStep
    <2>5. \A j \in 0..i : h[j] = DigitStep(h, j)
      BY <2>1, <2>2, <2>3, <2>4 DEF DigitsTo
    <2>6. h[i + 1] = DigitStep(h, i + 1)
      BY <2>1, <2>3, <2>4
    <2>7. DigitsTo(h, i + 1)
      <3>1. \A j \in 0..i + 1 : j \in 0..i \/ j = i + 1
        BY <2>1
      <3> QED
        BY <2>5, <2>6, <3>1 DEF DigitsTo
    <2> QED
      BY <2>1, <2>7 DEF K
  <1>3. K = Nat
    <2> HIDE DEF K
    <2>1. K \in SUBSET Nat
      BY DEF K
    <2> QED
      BY <1>1, <1>2, <2>1, NatBySets
  <1> QED
    BY <1>3

LEMMA DigitsExist ==
    ASSUME CodeAssumed
    PROVE  \A n \in Nat : Digits[n] = DigitStep(Digits, n)
  <1> DEFINE G(n) == CHOOSE g : DigitsTo(g, n)
             f == [n \in Nat |-> G(n)[n]]
  <1>1. \A n \in Nat : DigitsTo(G(n), n)
    BY DigitsStart
  <1> HIDE DEF G
  <1>2. ASSUME NEW n \in Nat
        PROVE  f[n] = DigitStep(f, n)
    <2>1. G(n)[n] = DigitStep(G(n), n)
      BY <1>1 DEF DigitsTo
    <2>2. CASE n = 0
      BY <2>1, <2>2 DEF DigitStep
    <2>3. CASE n # 0
      <3> DEFINE q == n \div CodeBase
      <3>1. q \in Nat /\ q <= n
        <4>1. q \in 0..n
          BY Halves
        <4> QED
          BY <4>1
      <3> HIDE DEF q
      <3>2. G(n)[q] = G(q)[q]
        BY <1>1, <3>1, DigitsAgree
      <3>3. f[q] = G(n)[q] /\ f[n] = G(n)[n]
        BY <3>1, <3>2
      <3> HIDE DEF f
      <3> QED
        BY <2>1, <2>3, <3>3 DEF DigitStep, q
    <2> QED
      BY <2>2, <2>3
  <1>3. f = [n \in Nat |-> DigitStep(f, n)]
    <2>1. DOMAIN f = Nat /\ f = [n \in Nat |-> f[n]]
      OBVIOUS
    <2> HIDE DEF f
    <2> QED
      BY <1>2, <2>1
  <1> HIDE DEF f
  <1>4. Digits = [n \in Nat |-> DigitStep(Digits, n)]
    BY <1>3, Zenon DEF Digits
  <1> QED
    BY <1>4, Zenon

WorthStep(g, s, k) == IF k = 0 THEN 0 ELSE g[k - 1] * CodeBase + s[k]
WorthTo(g, s, n) == g = [k \in 0..n |-> WorthStep(g, s, k)]
Worth(s) == CHOOSE g : WorthTo(g, s, Len(s))

LEMMA WorthExists ==
    ASSUME NEW s, NEW n \in Nat
    PROVE  \E g : WorthTo(g, s, n)
  <1> DEFINE K == {i \in Nat : \E g : WorthTo(g, s, i)}
  <1>1. 0 \in K
    <2> DEFINE g == [k \in 0..0 |-> 0]
    <2>1. 0..0 = {0}
      OBVIOUS
    <2>2. WorthTo(g, s, 0)
      BY <2>1 DEF WorthTo, WorthStep
    <2> HIDE DEF g
    <2> QED
      BY <2>2
  <1>2. ASSUME NEW i \in K
        PROVE  i + 1 \in K
    <2>1. i \in Nat
      OBVIOUS
    <2>2. PICK g : WorthTo(g, s, i)
      OBVIOUS
    <2> HIDE DEF K
    <2> DEFINE h == [k \in 0..i + 1 |-> WorthStep(g, s, k)]
    <2>3. \A k \in 0..i : h[k] = g[k]
      <3>1. \A k \in 0..i : k \in 0..i + 1
        BY <2>1
      <3>2. \A k \in 0..i : g[k] = WorthStep(g, s, k)
        BY <2>2, Zenon DEF WorthTo
      <3> QED
        BY <3>1, <3>2
    <2>4. \A k \in 0..i + 1 : k # 0 => k - 1 \in 0..i
      BY <2>1
    <2> HIDE DEF h
    <2>5. \A k \in 0..i + 1 : WorthStep(h, s, k) = WorthStep(g, s, k)
      BY <2>3, <2>4 DEF WorthStep
    <2>6. WorthTo(h, s, i + 1)
      BY <2>5 DEF h, WorthTo
    <2> QED
      BY <2>1, <2>6 DEF K
  <1>3. K = Nat
    <2> HIDE DEF K
    <2>1. K \in SUBSET Nat
      BY DEF K
    <2> QED
      BY <1>1, <1>2, <2>1, NatBySets
  <1> QED
    BY <1>3

LEMMA WorthOf ==
    ASSUME NEW s \in Seq(Nat)
    PROVE  \A k \in 0..Len(s) : Worth(s)[k] = WorthStep(Worth(s), s, k)
  <1> DEFINE g == Worth(s)
  <1>1. Len(s) \in Nat
    OBVIOUS
  <1>2. WorthTo(g, s, Len(s))
    BY <1>1, WorthExists, Zenon DEF Worth
  <1> HIDE DEF g
  <1>3. \A k \in 0..Len(s) : g[k] = WorthStep(g, s, k)
    BY <1>2, Zenon DEF WorthTo
  <1> QED
    BY <1>3 DEF g

LEMMA WorthAgree ==
    ASSUME CodeAssumed, NEW s \in Seq(Nat), NEW t \in Seq(Nat), NEW n \in Nat, n <= Len(s), n <= Len(t),
           \A i \in 1..n : s[i] = t[i]
    PROVE  Worth(s)[n] = Worth(t)[n] /\ Worth(s)[n] \in Nat
  <1> DEFINE g == Worth(s)
             h == Worth(t)
             K == {i \in Nat : i <= n => g[i] = h[i] /\ g[i] \in Nat}
  <1>1. /\ \A k \in 0..n : g[k] = WorthStep(g, s, k)
        /\ \A k \in 0..n : h[k] = WorthStep(h, t, k)
    <2>1. \A k \in 0..n : k \in 0..Len(s) /\ k \in 0..Len(t)
      OBVIOUS
    <2> QED
      BY <2>1, WorthOf
  <1> HIDE DEF g, h
  <1>2. 0 \in K
    <2>1. g[0] = 0 /\ h[0] = 0
      BY <1>1 DEF WorthStep
    <2> QED
      BY <2>1
  <1>3. ASSUME NEW i \in K
        PROVE  i + 1 \in K
    <2>1. i \in Nat /\ (i <= n => g[i] = h[i] /\ g[i] \in Nat)
      OBVIOUS
    <2> HIDE DEF K
    <2>2. ASSUME i + 1 <= n
          PROVE  g[i + 1] = h[i + 1] /\ g[i + 1] \in Nat
      <3>1. i + 1 \in 1..n /\ i + 1 \in 0..n /\ i + 1 # 0 /\ (i + 1) - 1 = i /\ i <= n
        BY <2>1, <2>2
      <3>2. s[i + 1] = t[i + 1] /\ s[i + 1] \in Nat
        <4>1. i + 1 \in 1..Len(s) /\ Len(s) \in Nat
          BY <3>1
        <4>2. s[i + 1] \in Nat
          BY <4>1
        <4> QED
          BY <3>1, <4>2
      <3>3. g[i + 1] = g[i] * CodeBase + s[i + 1] /\ h[i + 1] = h[i] * CodeBase + t[i + 1]
        BY <1>1, <3>1 DEF WorthStep
      <3>4. g[i] = h[i] /\ g[i] \in Nat
        BY <2>1, <3>1
      <3>5. g[i] * CodeBase \in Nat
        BY <3>4, ProductType DEF CodeAssumed
      <3> QED
        BY <3>2, <3>3, <3>4, <3>5
    <2> QED
      BY <2>1, <2>2 DEF K
  <1>4. K = Nat
    <2> HIDE DEF K
    <2>1. K \in SUBSET Nat
      BY DEF K
    <2> QED
      BY <1>2, <1>3, <2>1, NatBySets
  <1>5. n \in K
    BY <1>4
  <1>6. g[n] = h[n] /\ g[n] \in Nat
    BY <1>5
  <1> QED
    BY <1>6 DEF g, h

\* One digit more.
LEMMA DecodeOneMore ==
    ASSUME CodeAssumed, NEW s \in Seq(Nat), NEW d \in Nat
    PROVE  Shortener!Base62Decode(Append(s, d)) = Shortener!Base62Decode(s) * CodeBase + d
  <1> DEFINE t == Append(s, d)
             n == Len(s)
  <1>1. /\ n \in Nat /\ t \in Seq(Nat) /\ Len(t) = n + 1 /\ t[n + 1] = d
        /\ \A i \in 1..n : s[i] = t[i]
    OBVIOUS
  <1>2. \A r : Shortener!Base62Decode(r) = Worth(r)[Len(r)]
    BY DEF Shortener!Base62Decode, Worth, WorthTo, WorthStep
  <1> HIDE DEF t, n
  <1>3. Worth(t)[n] = Worth(s)[n]
    <2>1. n <= Len(s) /\ n <= Len(t)
      BY <1>1 DEF n
    <2> QED
      BY <1>1, <2>1, WorthAgree
  <1>4. Worth(t)[n + 1] = Worth(t)[n] * CodeBase + d
    <2>1. n + 1 \in 0..Len(t) /\ n + 1 # 0 /\ (n + 1) - 1 = n
      BY <1>1
    <2>2. Worth(t)[n + 1] = WorthStep(Worth(t), t, n + 1)
      BY <1>1, <2>1, WorthOf
    <2> QED
      BY <1>1, <2>1, <2>2 DEF WorthStep
  <1> QED
    BY <1>1, <1>2, <1>3, <1>4 DEF t, n

LEMMA DecodeDigits ==
    ASSUME CodeAssumed, NEW n \in Nat
    PROVE  Digits[n] \in Seq(Nat) /\ Shortener!Base62Decode(Digits[n]) = n
  <1> DEFINE Back(i) == Digits[i] \in Seq(Nat) /\ Shortener!Base62Decode(Digits[i]) = i
             K == {i \in Nat : \A j \in 0..i : Back(j)}
  <1>1. 0 \in K
    <2>1. Digits[0] = <<>>
      BY DigitsExist DEF DigitStep
    <2>2. Worth(<<>>)[0] = 0
      <3>1. <<>> \in Seq(Nat) /\ 0 \in 0..Len(<<>>)
        OBVIOUS
      <3> QED
        BY <3>1, WorthOf DEF WorthStep
    <2>3. Shortener!Base62Decode(<<>>) = Worth(<<>>)[Len(<<>>)]
      BY DEF Shortener!Base62Decode, Worth, WorthTo, WorthStep
    <2>4. Back(0)
      BY <2>1, <2>2, <2>3
    <2> QED
      BY <2>4
  <1>2. ASSUME NEW i \in K
        PROVE  i + 1 \in K
    <2>1. i \in Nat /\ \A j \in 0..i : Back(j)
      OBVIOUS
    <2> HIDE DEF K
    <2> DEFINE q == (i + 1) \div CodeBase
               r == (i + 1) % CodeBase
    <2>2. q \in 0..i /\ r \in Nat /\ i + 1 = q * CodeBase + r
      <3>1. i + 1 \in Nat /\ i + 1 # 0 /\ (i + 1) - 1 = i
        BY <2>1
      <3>2. q \in 0..i /\ r \in 0..CodeBase - 1 /\ i + 1 = q * CodeBase + r
        BY <3>1, Halves
      <3> HIDE DEF q, r
      <3> QED
        BY <3>2 DEF CodeAssumed
    <2>3. Digits[i + 1] = Append(Digits[q], r)
      <3>1. i + 1 \in Nat /\ i + 1 # 0
        BY <2>1
      <3> QED
        BY <3>1, DigitsExist DEF DigitStep
    <2> HIDE DEF q, r
    <2>4. Digits[q] \in Seq(Nat) /\ Shortener!Base62Decode(Digits[q]) = q
      BY <2>1, <2>2
    <2>5. Back(i + 1)
      BY <2>2, <2>3, <2>4, DecodeOneMore
    <2>6. \A j \in 0..i + 1 : j \in 0..i \/ j = i + 1
      BY <2>1
    <2> HIDE DEF Back
    <2> QED
      BY <2>1, <2>5, <2>6 DEF K
  <1>3. K = Nat
    <2> HIDE DEF K
    <2>1. K \in SUBSET Nat
      BY DEF K
    <2> QED
      BY <1>1, <1>2, <2>1, NatBySets
  <1>4. n \in K /\ n \in 0..n
    BY <1>3
  <1> QED
    BY <1>4

LEMMA CodesComeBack ==
    ASSUME CodeAssumed, NEW n \in Nat
    PROVE  Shortener!Base62Decode(Shortener!Base62Encode(n)) = n
  <1>1. Shortener!Base62Encode(n) = IF n = 0 THEN <<0>> ELSE Digits[n]
    BY DEF Shortener!Base62Encode, Digits, DigitStep
  <1>2. Shortener!Base62Decode(<<0>>) = 0
    <2>1. <<0>> = Append(<<>>, 0) /\ <<>> \in Seq(Nat)
      OBVIOUS
    <2>2. Shortener!Base62Decode(<<>>) = 0
      <3>1. Digits[0] = <<>>
        BY DigitsExist DEF DigitStep
      <3> QED
        BY <3>1, DecodeDigits
    <2>3. /\ 0 \in Nat
          /\ Shortener!Base62Decode(Append(<<>>, 0)) = Shortener!Base62Decode(<<>>) * CodeBase + 0
      BY <2>1, DecodeOneMore
    <2>4. 0 * CodeBase + 0 = 0
      BY DEF CodeAssumed
    <2> QED
      BY <2>1, <2>2, <2>3, <2>4
  <1> QED
    BY <1>1, <1>2, DecodeDigits

\* A number made of a quotient and a remainder falls apart into them.
LEMMA Apart ==
    ASSUME NEW W \in Nat, W > 0, NEW q \in Nat, NEW r \in 0..W - 1
    PROVE  /\ q * W + r \in Nat
           /\ (q * W + r) \div W = q /\ (q * W + r) % W = r
  <1> DEFINE t == q * W + r
  <1>1. q * W \in Nat /\ (q + 1) * W = q * W + W
    BY ProductType, Distribute
  <1>2. t \in Nat /\ t \in q * W..(q + 1) * W - 1
    BY <1>1
  <1>3. q = t \div W
    <2> HIDE DEF t
    <2> QED
      BY <1>2, WindowIsOne
  <1>4. t = (t \div W) * W + (t % W) /\ t % W \in 0..W - 1
    <2> HIDE DEF t
    <2> QED
      BY <1>2, WindowOf
  <1>5. t = q * W + (t % W)
    <2> HIDE DEF t
    <2> QED
      BY <1>3, <1>4
  <1>6. t % W = r
    <2> DEFINE p == q * W
    <2>1. p \in Nat /\ t = p + r /\ t = p + (t % W) /\ t % W \in Int
      BY <1>1, <1>4, <1>5
    <2> HIDE DEF t, p
    <2> QED
      BY <2>1
  <1> HIDE DEF t
  <1> QED
    BY <1>2, <1>3, <1>6, Zenon DEF t

LEMMA FlakesFallApart ==
    ASSUME SnowflakeAssumed, NEW t \in TsRange, NEW d \in 0..(2^DcBits - 1),
           NEW m \in 0..(2^MachineBits - 1), NEW s \in 0..(2^SeqBits - 1)
    PROVE  Shortener!FieldsOf(Shortener!SnowflakeId(t, d, m, s)) = <<t, d, m, s>>
  <1> DEFINE D == 2^DcBits
             M == 2^MachineBits
             S == 2^SeqBits
             centres == t * D + d
             machines == centres * M + m
             id == machines * S + s
  <1>1. D \in Nat /\ D > 0 /\ M \in Nat /\ M > 0 /\ S \in Nat /\ S > 0 /\ t \in Nat
    BY DEF SnowflakeAssumed
  <1>2. d \in 0..D - 1 /\ m \in 0..M - 1 /\ s \in 0..S - 1
    OBVIOUS
  <1>3. Shortener!SnowflakeId(t, d, m, s) = id
    BY DEF Shortener!SnowflakeId
  <1>4. \A i : Shortener!FieldsOf(i) =
          <<((i \div S) \div M) \div D, ((i \div S) \div M) % D, (i \div S) % M, i % S>>
    BY DEF Shortener!FieldsOf
  <1> HIDE DEF D, M, S
  <1>5. centres \in Nat /\ centres \div D = t /\ centres % D = d
    BY <1>1, <1>2, Apart
  <1> HIDE DEF centres
  <1>6. machines \in Nat /\ machines \div M = centres /\ machines % M = m
    BY <1>1, <1>2, <1>5, Apart
  <1> HIDE DEF machines
  <1>7. id \div S = machines /\ id % S = s
    BY <1>1, <1>2, <1>6, Apart
  <1> HIDE DEF id
  <1> QED
    BY <1>3, <1>4, <1>5, <1>6, <1>7

LEMMA UniqueCodes ==
    ASSUME CodeAssumed, SnowflakeAssumed
    PROVE  Shortener!CodesAreUnique
  <1>1. \A i \in Nat : Shortener!Base62Decode(Shortener!Base62Encode(i)) = i
    BY CodesComeBack
  <1>2. \A i \in 0..MaxId : i \in Nat
    OBVIOUS
  <1>3. \A i \in 1..MaxId : i \in Nat
    OBVIOUS
  <1>4. \A i, j \in 1..MaxId : i # j => Shortener!Base62Encode(i) # Shortener!Base62Encode(j)
    BY <1>1, <1>3
  <1> QED
    BY <1>1, <1>2, <1>4, FlakesFallApart DEF Shortener!CodesAreUnique

-----------------------------------------------------------------------------
(***************************************************************************)
(* The shortener.  An id that is taken is in one row, or in one request    *)
(* that has not committed it.  Whatever counts hits of a code counts those *)
(* of a committed row, and a flush takes a counter at most once, so a hit  *)
(* is in one place: the row, Redis, one flush, or lost.                    *)
(***************************************************************************)
Code(i) == Shortener!Base62Encode(i)
HasRow(c) == Shortener!Base62Decode(c) \in DOMAIN urls

RedirectSet == [pc : {"idle", "select", "store", "count"}, code : Shortener!Codes \cup {<<>>}]
FlushSet == [pc : {"idle", "getdel", "update"}, keys : SUBSET Shortener!Codes,
             deltas : [Shortener!Codes -> Nat]]

ShortenerShape ==
  /\ nextId \in Nat /\ nextId >= 1 /\ nextId <= MaxId + 1
  /\ DOMAIN urls \subseteq 1..nextId - 1 /\ \A i \in DOMAIN urls : urls[i] \in Nat
  /\ writing \in [Shorteners -> Nat] /\ holder \in Shorteners \cup {Shortener!NoOne}
  /\ urlCache \subseteq Shortener!Codes
  /\ counter \in [Shortener!Codes -> Nat]
  /\ served \in [Shortener!Codes -> Nat] /\ lostHits \in [Shortener!Codes -> Nat]
  /\ redirect \in [Redirects -> RedirectSet] /\ flush \in [Flushers -> FlushSet]

WritersApart ==
  /\ \A w \in Shorteners : writing[w] # 0 => writing[w] < nextId /\ writing[w] \notin DOMAIN urls
  /\ \A v, w \in Shorteners : writing[v] = writing[w] /\ writing[v] # 0 => v = w
  /\ holder # Shortener!NoOne => writing[holder] # 0

RowsOnly ==
  /\ \A c \in urlCache : HasRow(c)
  /\ \A d \in Redirects : redirect[d].pc # "idle" => redirect[d].code \in Shortener!Codes
  /\ \A d \in Redirects : redirect[d].pc \in {"store", "count"} => HasRow(redirect[d].code)
  /\ \A c \in Shortener!Codes : counter[c] > 0 => HasRow(c)
  /\ \A f \in Flushers, c \in Shortener!Codes : flush[f].deltas[c] > 0 => HasRow(c)

TakenOnce ==
  \A f \in Flushers, c \in Shortener!Codes :
    flush[f].pc = "idle" \/ c \in flush[f].keys => flush[f].deltas[c] = 0

Hits(i) == IF i \in DOMAIN urls THEN urls[i] ELSE 0
Shares(c) == [f \in Flushers |-> flush[f].deltas[c]]
Held(c) == SumFunction(Shares(c))
HitsOf(i) == served[Code(i)] = Hits(i) + counter[Code(i)] + Held(Code(i)) + lostHits[Code(i)]
HitsKept == \A i \in 1..MaxId : HitsOf(i)

ShortenerInv == ShortenerShape /\ WritersApart /\ RowsOnly /\ TakenOnce /\ HitsKept

LEMMA CodeTyped ==
    ASSUME ShortenerAssumed, NEW i \in 1..MaxId
    PROVE  /\ Code(i) \in Shortener!Codes /\ i \in Nat /\ Shortener!Base62Decode(Code(i)) = i
  <1>1. i \in Nat
    BY DEF ShortenerAssumed
  <1>2. Code(i) \in Shortener!Codes
    BY DEF Code, Shortener!Codes
  <1> QED
    BY <1>1, <1>2, CodesComeBack DEF Code, ShortenerAssumed

LEMMA SharesTyped ==
    ASSUME ShortenerAssumed, ShortenerShape, NEW c \in Shortener!Codes
    PROVE  Shares(c) \in [Flushers -> Int] /\ Held(c) \in Int /\ IsFiniteSet(Flushers)
  <1>1. IsFiniteSet(Flushers)
    BY DEF ShortenerAssumed
  <1>2. \A f \in Flushers : flush[f].deltas[c] \in Int
    <2>1. \A f \in Flushers : flush[f].deltas \in [Shortener!Codes -> Nat]
      BY DEF ShortenerShape, FlushSet
    <2> QED
      BY <2>1
  <1>3. Shares(c) \in [Flushers -> Int]
    BY <1>2 DEF Shares
  <1> QED
    BY <1>1, <1>3, TotalType DEF Held

LEMMA ShortenerInvInit ==
    ASSUME ShortenerAssumed, Shortener!Init
    PROVE  ShortenerInv
  <1> DEFINE zero == [c \in Shortener!Codes |-> 0]
  <1>1. /\ nextId = 1 /\ urls = <<>> /\ writing = [w \in Shorteners |-> 0] /\ holder = Shortener!NoOne
        /\ urlCache = {} /\ counter = zero /\ served = zero /\ lostHits = zero
        /\ redirect = [d \in Redirects |-> [pc |-> "idle", code |-> <<>>]]
        /\ flush = [f \in Flushers |-> [pc |-> "idle", keys |-> {}, deltas |-> zero]]
    BY DEF Shortener!Init
  <1>2. DOMAIN urls = {} /\ zero \in [Shortener!Codes -> Nat] /\ \A c \in Shortener!Codes : zero[c] = 0
    BY <1>1
  <1> HIDE DEF zero
  <1>3. \A f \in Flushers : flush[f] \in FlushSet /\ flush[f].deltas = zero
    BY <1>1, <1>2 DEF FlushSet
  <1>4. ShortenerShape
    <2>1. flush \in [Flushers -> FlushSet] /\ redirect \in [Redirects -> RedirectSet]
      BY <1>1, <1>3 DEF RedirectSet
    <2>2. writing \in [Shorteners -> Nat]
      BY <1>1
    <2>3. 1 \in Nat /\ 1 <= MaxId + 1
      BY DEF ShortenerAssumed
    <2>4. DOMAIN urls \subseteq 1..nextId - 1 /\ \A i \in DOMAIN urls : urls[i] \in Nat
      BY <1>2
    <2>5. urlCache \subseteq Shortener!Codes /\ holder \in Shorteners \cup {Shortener!NoOne}
      BY <1>1
    <2>6. nextId \in Nat /\ nextId >= 1 /\ nextId <= MaxId + 1
      BY <1>1, <2>3
    <2> QED
      BY <1>1, <1>2, <2>1, <2>2, <2>4, <2>5, <2>6 DEF ShortenerShape
  <1>5. WritersApart
    BY <1>1 DEF WritersApart
  <1>6. RowsOnly
    <2>1. \A d \in Redirects : redirect[d].pc = "idle"
      BY <1>1
    <2>2. \A c \in Shortener!Codes : ~(counter[c] > 0)
      BY <1>1, <1>2
    <2>3. \A f \in Flushers, c \in Shortener!Codes : ~(flush[f].deltas[c] > 0)
      BY <1>2, <1>3
    <2> QED
      BY <1>1, <2>1, <2>2, <2>3 DEF RowsOnly
  <1>7. TakenOnce
    BY <1>2, <1>3 DEF TakenOnce
  <1>8. ASSUME NEW i \in 1..MaxId
        PROVE  HitsOf(i)
    <2>1. Code(i) \in Shortener!Codes
      BY CodeTyped
    <2>2. Shares(Code(i)) = [f \in Flushers |-> 0]
      BY <1>2, <1>3, <2>1 DEF Shares
    <2>3. Held(Code(i)) = 0
      BY <2>2, TotalZero DEF Held, ShortenerAssumed
    <2>4. Hits(i) = 0
      BY <1>2 DEF Hits
    <2> QED
      BY <1>1, <1>2, <2>1, <2>3, <2>4 DEF HitsOf
  <1> QED
    BY <1>4, <1>5, <1>6, <1>7, <1>8 DEF ShortenerInv, HitsKept

\* A row that is added has no hits yet, and nothing else moves.
LEMMA RowsGrow ==
    ASSUME ShortenerAssumed, ShortenerInv, ShortenerShape', WritersApart',
           UNCHANGED <<urlCache, counter, redirect, flush, served, lostHits>>,
           DOMAIN urls \subseteq DOMAIN urls', \A i \in DOMAIN urls : urls'[i] = urls[i],
           \A i \in DOMAIN urls' \ DOMAIN urls : urls'[i] = 0
    PROVE  ShortenerInv'
  <1>1. \A c : HasRow(c) => HasRow(c)'
    BY DEF HasRow
  <1>2. RowsOnly'
    BY <1>1 DEF ShortenerInv, RowsOnly
  <1>3. TakenOnce'
    BY DEF ShortenerInv, TakenOnce
  <1>4. \A i : Hits(i)' = Hits(i)
    BY DEF Hits
  <1>5. \A c : Held(c)' = Held(c)
    BY DEF Held, Shares
  <1>6. \A i \in 1..MaxId : HitsOf(i)'
    BY <1>4, <1>5 DEF ShortenerInv, HitsKept, HitsOf, Code
  <1> QED
    BY <1>2, <1>3, <1>6 DEF ShortenerInv, HitsKept

LEMMA ShorteningStep ==
    ASSUME ShortenerAssumed, ShortenerInv, Shortener!Shortening
    PROVE  ShortenerInv'
  <1>0. /\ ShortenerShape /\ WritersApart /\ nextId \in Nat /\ nextId >= 1 /\ MaxId \in Nat
        /\ writing \in [Shorteners -> Nat] /\ DOMAIN urls \subseteq 1..nextId - 1
        /\ \A i \in DOMAIN urls : urls[i] \in Nat
    BY DEF ShortenerInv, ShortenerShape, ShortenerAssumed
  <1>1. PICK w \in Shorteners : Shortener!TakeId(w) \/ Shortener!TakePlaceholder(w)
                                  \/ Shortener!NameAndCommit(w) \/ Shortener!Rollback(w)
    BY DEF Shortener!Shortening
  <1>2. CASE Shortener!TakeId(w)
    <2>1. /\ writing[w] = 0 /\ nextId <= MaxId /\ writing' = [writing EXCEPT ![w] = nextId]
          /\ nextId' = nextId + 1
          /\ UNCHANGED <<urls, holder, urlCache, counter, redirect, flush, served, lostHits>>
      BY <1>2 DEF Shortener!TakeId
    <2>2. writing'[w] = nextId /\ \A v \in Shorteners : v # w => writing'[v] = writing[v]
      BY <1>0, <2>1
    <2>3. ShortenerShape'
      BY <1>0, <2>1 DEF ShortenerShape
    <2>4. WritersApart'
      <3>1. \A i \in DOMAIN urls : i < nextId
        BY <1>0
      <3>2. \A v \in Shorteners : writing'[v] # 0 => writing'[v] < nextId' /\ writing'[v] \notin DOMAIN urls'
        BY <1>0, <2>1, <2>2, <3>1 DEF WritersApart
      <3>3. \A v \in Shorteners : v # w => writing'[v] # nextId
        BY <1>0, <2>1, <2>2 DEF WritersApart
      <3>4. \A u, v \in Shorteners : writing'[u] = writing'[v] /\ writing'[u] # 0 => u = v
        BY <1>0, <2>2, <3>3 DEF WritersApart
      <3>5. holder' # Shortener!NoOne => writing'[holder'] # 0
        BY <1>0, <2>1, <2>2 DEF WritersApart, ShortenerShape
      <3> QED
        BY <3>2, <3>4, <3>5 DEF WritersApart
    <2> QED
      BY <2>1, <2>3, <2>4, RowsGrow
  <1>3. CASE Shortener!TakePlaceholder(w)
    <2>1. /\ writing[w] # 0 /\ holder' = w
          /\ UNCHANGED <<nextId, urls, writing, urlCache, counter, redirect, flush, served, lostHits>>
      BY <1>3 DEF Shortener!TakePlaceholder
    <2>2. ShortenerShape'
      BY <1>0, <2>1 DEF ShortenerShape
    <2>3. WritersApart'
      BY <1>0, <2>1 DEF WritersApart
    <2> QED
      BY <2>1, <2>2, <2>3, RowsGrow
  <1>4. CASE Shortener!NameAndCommit(w)
    <2> DEFINE n == writing[w]
    <2>1. /\ holder = w /\ holder' = Shortener!NoOne /\ writing' = [writing EXCEPT ![w] = 0]
          /\ urls' = [i \in DOMAIN urls \cup {n} |-> IF i = n THEN 0 ELSE urls[i]]
          /\ UNCHANGED <<nextId, urlCache, counter, redirect, flush, served, lostHits>>
      BY <1>4 DEF Shortener!NameAndCommit
    <2>2. n \in 1..nextId - 1 /\ n \notin DOMAIN urls
      BY <1>0, <2>1 DEF WritersApart, ShortenerAssumed
    <2>3. DOMAIN urls' = DOMAIN urls \cup {n} /\ urls'[n] = 0 /\ \A i \in DOMAIN urls : urls'[i] = urls[i]
      BY <2>1, <2>2
    <2>4. writing'[w] = 0 /\ \A v \in Shorteners : v # w => writing'[v] = writing[v]
      BY <1>0, <2>1
    <2>5. ShortenerShape'
      BY <1>0, <2>1, <2>2, <2>3 DEF ShortenerShape
    <2>6. WritersApart'
      <3>1. \A v \in Shorteners : writing'[v] # 0 => v # w /\ writing'[v] = writing[v] /\ writing[v] # n
        BY <1>0, <2>2, <2>4 DEF WritersApart
      <3> QED
        BY <1>0, <2>1, <2>3, <3>1 DEF WritersApart
    <2> QED
      BY <2>1, <2>3, <2>5, <2>6, RowsGrow
  <1>5. CASE Shortener!Rollback(w)
    <2>1. /\ writing' = [writing EXCEPT ![w] = 0]
          /\ holder' = IF holder = w THEN Shortener!NoOne ELSE holder
          /\ UNCHANGED <<nextId, urls, urlCache, counter, redirect, flush, served, lostHits>>
      BY <1>5 DEF Shortener!Rollback
    <2>2. writing'[w] = 0 /\ \A v \in Shorteners : v # w => writing'[v] = writing[v]
      BY <1>0, <2>1
    <2>3. ShortenerShape'
      BY <1>0, <2>1 DEF ShortenerShape
    <2>4. WritersApart'
      BY <1>0, <2>1, <2>2 DEF WritersApart, ShortenerShape
    <2> QED
      BY <2>1, <2>3, <2>4, RowsGrow
  <1> QED
    BY <1>1, <1>2, <1>3, <1>4, <1>5

\* A redirect reads, stores and counts a code; the rows stay.
LEMMA RedirectingStep ==
    ASSUME ShortenerAssumed, ShortenerInv, Shortener!Redirecting
    PROVE  ShortenerInv'
  <1>0. /\ ShortenerShape /\ WritersApart /\ RowsOnly /\ TakenOnce /\ HitsKept
        /\ redirect \in [Redirects -> RedirectSet] /\ urlCache \subseteq Shortener!Codes
        /\ counter \in [Shortener!Codes -> Nat] /\ served \in [Shortener!Codes -> Nat]
        /\ lostHits \in [Shortener!Codes -> Nat]
    BY DEF ShortenerInv, ShortenerShape
  <1>1. UNCHANGED <<nextId, urls, writing, holder, flush, lostHits>>
    BY DEF Shortener!Redirecting, Shortener!Lookup, Shortener!Select, Shortener!Store, Shortener!CountHit,
           Shortener!Expire
  <1>2. WritersApart' /\ TakenOnce' /\ \A c : HasRow(c)' <=> HasRow(c)
    BY <1>0, <1>1 DEF WritersApart, TakenOnce, HasRow
  <1>3. ASSUME UNCHANGED <<counter, served>>
        PROVE  HitsKept'
    <2>1. (\A i : Hits(i)' = Hits(i)) /\ \A c : Held(c)' = Held(c)
      BY <1>1 DEF Hits, Held, Shares
    <2> QED
      BY <1>0, <1>1, <1>3, <2>1 DEF HitsKept, HitsOf, Code
  <1>4. ASSUME NEW d \in Redirects, NEW q \in RedirectSet, redirect' = [redirect EXCEPT ![d] = q],
               q.pc # "idle" => q.code \in Shortener!Codes,
               q.pc \in {"store", "count"} => HasRow(q.code),
               UNCHANGED <<counter, served>>, urlCache' \subseteq Shortener!Codes,
               \A c \in urlCache' : HasRow(c)
        PROVE  ShortenerInv'
    <2>1. redirect'[d] = q /\ \A e \in Redirects : e # d => redirect'[e] = redirect[e]
      BY <1>0, <1>4
    <2>2. redirect' \in [Redirects -> RedirectSet]
      BY <1>0, <1>4
    <2>3. ShortenerShape'
      BY <1>0, <1>1, <1>4, <2>2 DEF ShortenerShape
    <2>4. RowsOnly'
      <3>1. \A e \in Redirects : redirect'[e].pc # "idle" => redirect'[e].code \in Shortener!Codes
        BY <1>0, <1>4, <2>1 DEF RowsOnly
      <3>2. \A e \in Redirects : redirect'[e].pc \in {"store", "count"} => HasRow(redirect'[e].code)
        BY <1>0, <1>4, <2>1 DEF RowsOnly
      <3>3. \A f \in Flushers, c \in Shortener!Codes : flush'[f].deltas[c] > 0 => HasRow(c)
        BY <1>0, <1>1 DEF RowsOnly
      <3>4. \A c \in Shortener!Codes : counter'[c] > 0 => HasRow(c)
        BY <1>0, <1>4 DEF RowsOnly
      <3> QED
        BY <1>1, <1>4, <3>1, <3>2, <3>3, <3>4 DEF RowsOnly, HasRow
    <2> QED
      BY <1>2, <1>3, <1>4, <2>3, <2>4 DEF ShortenerInv
  <1>5. ASSUME NEW d \in Redirects, NEW c \in Shortener!Codes, Shortener!Lookup(d, c)
        PROVE  ShortenerInv'
    <2>1. UNCHANGED <<urlCache, counter, served>>
      BY <1>5 DEF Shortener!Lookup
    <2>2. PICK q \in {[pc |-> "count", code |-> c], [pc |-> "select", code |-> c]} :
            /\ redirect' = [redirect EXCEPT ![d] = q]
            /\ q.pc = "count" => c \in urlCache
      BY <1>5 DEF Shortener!Lookup
    <2>3. q \in RedirectSet /\ q.code = c /\ q.pc # "store"
      BY <2>2 DEF RedirectSet
    <2>4. q.pc \in {"store", "count"} => HasRow(q.code)
      BY <1>0, <2>2, <2>3 DEF RowsOnly
    <2> QED
      BY <1>0, <1>4, <2>1, <2>2, <2>3, <2>4 DEF RowsOnly
  <1>6. ASSUME NEW d \in Redirects, Shortener!Select(d)
        PROVE  ShortenerInv'
    <2>1. redirect[d].pc = "select" /\ UNCHANGED <<urlCache, counter, served>>
      BY <1>6 DEF Shortener!Select
    <2> DEFINE c == redirect[d].code
               q == [redirect[d] EXCEPT !.pc = IF HasRow(c) THEN "store" ELSE "idle"]
    <2>2. redirect' = [redirect EXCEPT ![d] = q]
      BY <1>0, <1>6 DEF Shortener!Select, Shortener!Move, HasRow
    <2>3. redirect[d] \in RedirectSet /\ c \in Shortener!Codes
      BY <1>0, <2>1 DEF RowsOnly
    <2>4. q \in RedirectSet /\ q.code = c /\ (q.pc \in {"store", "count"} => HasRow(c))
      BY <2>3 DEF RedirectSet
    <2> HIDE DEF q, c
    <2> QED
      BY <1>0, <1>4, <2>1, <2>2, <2>3, <2>4 DEF RowsOnly
  <1>7. ASSUME NEW d \in Redirects, Shortener!Store(d)
        PROVE  ShortenerInv'
    <2> DEFINE c == redirect[d].code
               q == [redirect[d] EXCEPT !.pc = "count"]
    <2>1. /\ redirect[d].pc = "store" /\ urlCache' = urlCache \cup {c} /\ UNCHANGED <<counter, served>>
          /\ redirect' = [redirect EXCEPT ![d] = q]
      BY <1>0, <1>7 DEF Shortener!Store, Shortener!Move
    <2>2. redirect[d] \in RedirectSet /\ c \in Shortener!Codes /\ HasRow(c)
      BY <1>0, <2>1 DEF RowsOnly
    <2>3. q \in RedirectSet /\ q.code = c
      BY <2>2 DEF RedirectSet
    <2> HIDE DEF q, c
    <2> QED
      BY <1>0, <1>4, <2>1, <2>2, <2>3 DEF RowsOnly
  <1>8. ASSUME NEW d \in Redirects, Shortener!CountHit(d)
        PROVE  ShortenerInv'
    <2> DEFINE c == redirect[d].code
               q == [redirect[d] EXCEPT !.pc = "idle"]
    <2>1. /\ redirect[d].pc = "count" /\ counter' = [counter EXCEPT ![c] = counter[c] + 1]
          /\ served' = [served EXCEPT ![c] = served[c] + 1]
          /\ redirect' = [redirect EXCEPT ![d] = q] /\ urlCache' = urlCache
      BY <1>0, <1>8 DEF Shortener!CountHit, Shortener!Move
    <2>2. redirect[d] \in RedirectSet /\ c \in Shortener!Codes /\ HasRow(c)
      BY <1>0, <2>1 DEF RowsOnly
    <2>3. q \in RedirectSet /\ q.pc = "idle"
      BY <2>2 DEF RedirectSet
    <2> HIDE DEF q, c
    <2>4. /\ counter[c] \in Nat /\ served[c] \in Nat
          /\ counter' \in [Shortener!Codes -> Nat] /\ served' \in [Shortener!Codes -> Nat]
          /\ counter'[c] = counter[c] + 1 /\ served'[c] = served[c] + 1
          /\ \A b \in Shortener!Codes : b # c => counter'[b] = counter[b] /\ served'[b] = served[b]
      BY <1>0, <2>1, <2>2
    <2>5. /\ redirect' \in [Redirects -> RedirectSet] /\ redirect'[d] = q
          /\ \A e \in Redirects : e # d => redirect'[e] = redirect[e]
      BY <1>0, <2>1, <2>3
    <2>6. ShortenerShape'
      BY <1>0, <1>1, <2>1, <2>4, <2>5 DEF ShortenerShape
    <2>7. RowsOnly'
      <3>1. \A e \in Redirects : redirect'[e].pc # "idle" =>
              redirect'[e].code \in Shortener!Codes /\ redirect'[e] = redirect[e]
        BY <1>0, <2>3, <2>5 DEF RowsOnly
      <3>2. \A b \in Shortener!Codes : counter'[b] > 0 => HasRow(b)
        BY <1>0, <2>2, <2>4 DEF RowsOnly
      <3>3. \A e \in Redirects : redirect'[e].pc \in {"store", "count"} => HasRow(redirect'[e].code)
        BY <1>0, <3>1 DEF RowsOnly
      <3> QED
        BY <1>0, <1>1, <2>1, <3>1, <3>2, <3>3 DEF RowsOnly, HasRow
    <2>8. ASSUME NEW i \in 1..MaxId
          PROVE  HitsOf(i)'
      <3> DEFINE b == Code(i)
      <3>1. b \in Shortener!Codes
        BY CodeTyped
      <3>2. served[b] = Hits(i) + counter[b] + Held(b) + lostHits[b]
        BY <1>0 DEF HitsKept, HitsOf
      <3>3. Held(b) \in Int /\ served[b] \in Int /\ counter[b] \in Int /\ lostHits[b] \in Int /\ Hits(i) \in Int
        BY <1>0, <3>1, SharesTyped DEF Hits, ShortenerShape
      <3>4. Hits(i)' = Hits(i) /\ Held(b)' = Held(b) /\ b' = b
        BY <1>1 DEF Hits, Held, Shares, Code
      <3> HIDE DEF b
      <3>5. served'[b] = Hits(i) + counter'[b] + Held(b) + lostHits[b]
        BY <2>4, <3>1, <3>2, <3>3
      <3> QED
        BY <1>1, <3>4, <3>5 DEF HitsOf, b
    <2> QED
      BY <1>2, <2>6, <2>7, <2>8 DEF ShortenerInv, HitsKept
  <1>9. ASSUME NEW c \in Shortener!Codes, Shortener!Expire(c)
        PROVE  ShortenerInv'
    <2>1. urlCache' = urlCache \ {c} /\ UNCHANGED <<counter, redirect, served>>
      BY <1>9 DEF Shortener!Expire
    <2>2. ShortenerShape'
      BY <1>0, <1>1, <2>1 DEF ShortenerShape
    <2>3. RowsOnly'
      BY <1>0, <1>1, <2>1 DEF RowsOnly, HasRow
    <2> QED
      BY <1>2, <1>3, <2>1, <2>2, <2>3 DEF ShortenerInv
  <1> QED
    BY <1>5, <1>6, <1>7, <1>8, <1>9 DEF Shortener!Redirecting

\* What one flush does to the counters: c is what it holds of each code afterwards, and the
\* hits of a code are moved between it, Redis, the rows and those that are lost.
LEMMA FlushMoves ==
    ASSUME ShortenerAssumed, ShortenerInv, NEW f \in Flushers, NEW q \in FlushSet,
           flush' = [flush EXCEPT ![f] = q],
           UNCHANGED <<nextId, writing, holder, urlCache, redirect, served>>,
           counter' \in [Shortener!Codes -> Nat], lostHits' \in [Shortener!Codes -> Nat],
           DOMAIN urls' = DOMAIN urls, \A i \in DOMAIN urls : urls'[i] \in Nat,
           \A c \in Shortener!Codes : q.deltas[c] > 0 => HasRow(c),
           \A c \in Shortener!Codes : counter'[c] > 0 => HasRow(c),
           \A c \in Shortener!Codes : q.pc = "idle" \/ c \in q.keys => q.deltas[c] = 0,
           \A i \in 1..MaxId :
             Hits(i)' + counter'[Code(i)] + q.deltas[Code(i)] + lostHits'[Code(i)]
               = Hits(i) + counter[Code(i)] + flush[f].deltas[Code(i)] + lostHits[Code(i)]
    PROVE  ShortenerInv'
  <1>0. /\ ShortenerShape /\ WritersApart /\ RowsOnly /\ TakenOnce /\ HitsKept
        /\ flush \in [Flushers -> FlushSet]
    BY DEF ShortenerInv, ShortenerShape
  <1>1. /\ flush'[f] = q /\ flush' \in [Flushers -> FlushSet]
        /\ \A g \in Flushers : g # f => flush'[g] = flush[g]
    BY <1>0
  <1>2. ShortenerShape'
    BY <1>0, <1>1 DEF ShortenerShape
  <1>3. WritersApart'
    BY <1>0 DEF WritersApart
  <1>4. \A c : HasRow(c)' <=> HasRow(c)
    BY DEF HasRow
  <1>5. RowsOnly'
    <2>1. \A g \in Flushers, c \in Shortener!Codes : flush'[g].deltas[c] > 0 => HasRow(c)
      BY <1>0, <1>1 DEF RowsOnly
    <2>2. /\ \A c \in urlCache' : HasRow(c)
          /\ \A d \in Redirects : redirect'[d].pc # "idle" => redirect'[d].code \in Shortener!Codes
          /\ \A d \in Redirects : redirect'[d].pc \in {"store", "count"} => HasRow(redirect'[d].code)
      BY <1>0 DEF RowsOnly
    <2> QED
      BY <1>4, <2>1, <2>2 DEF RowsOnly
  <1>6. TakenOnce'
    BY <1>0, <1>1 DEF TakenOnce
  <1>7. ASSUME NEW i \in 1..MaxId
        PROVE  HitsOf(i)'
    <2> DEFINE c == Code(i)
    <2>1. c \in Shortener!Codes
      BY CodeTyped
    <2>2. served[c] = Hits(i) + counter[c] + Held(c) + lostHits[c]
      BY <1>0 DEF HitsKept, HitsOf
    <2>3. Shares(c) \in [Flushers -> Int] /\ Held(c) \in Int /\ IsFiniteSet(Flushers)
      BY <1>0, <2>1, SharesTyped
    <2>4. Shares(c)[f] = flush[f].deltas[c] /\ Shares(c)'[f] = q.deltas[c]
          /\ Shares(c)' \in [Flushers -> Int] /\ \A g \in Flushers \ {f} : Shares(c)'[g] = Shares(c)[g]
      <3>1. c' = c
        BY DEF Code
      <3> HIDE DEF c
      <3>2. \A g \in Flushers : flush'[g].deltas \in [Shortener!Codes -> Nat]
        BY <1>1 DEF FlushSet
      <3>3. \A g \in Flushers : flush'[g].deltas[c] \in Int
        BY <2>1, <3>2
      <3> QED
        BY <1>1, <3>1, <3>3 DEF Shares
    <2>5. SumFunction(Shares(c)') = SumFunction(Shares(c)) + (Shares(c)'[f] - Shares(c)[f])
      BY <2>3, <2>4, TotalChange
    <2>6. c' = c
      BY DEF Code
    <2>7. Held(c)' = Held(c) + (q.deltas[c] - flush[f].deltas[c])
      BY <2>4, <2>5 DEF Held
    <2>8. /\ Hits(i) \in Int /\ counter[c] \in Int /\ lostHits[c] \in Int /\ served[c] \in Int
          /\ Hits(i)' \in Int /\ counter'[c] \in Int /\ lostHits'[c] \in Int
          /\ q.deltas[c] \in Int /\ flush[f].deltas[c] \in Int
      <3>1. flush[f].deltas \in [Shortener!Codes -> Nat] /\ q.deltas \in [Shortener!Codes -> Nat]
        BY <1>0 DEF FlushSet
      <3>2. Hits(i) \in Int /\ Hits(i)' \in Int
        BY <1>0, <1>2 DEF Hits, ShortenerShape
      <3>3. counter[c] \in Int /\ lostHits[c] \in Int /\ served[c] \in Int
        BY <1>0, <2>1 DEF ShortenerShape
      <3> QED
        BY <2>1, <3>1, <3>2, <3>3
    <2>9. Hits(i)' + counter'[c] + q.deltas[c] + lostHits'[c]
            = Hits(i) + counter[c] + flush[f].deltas[c] + lostHits[c]
      OBVIOUS
    <2> HIDE DEF c
    <2>10. served[c] = Hits(i)' + counter'[c] + (Held(c) + (q.deltas[c] - flush[f].deltas[c])) + lostHits'[c]
      BY <2>2, <2>3, <2>8, <2>9
    <2>11. served'[c] = Hits(i)' + counter'[c] + Held(c)' + lostHits'[c]
      BY <2>7, <2>10
    <2> QED
      BY <2>6, <2>11 DEF HitsOf, c
  <1> QED
    BY <1>2, <1>3, <1>5, <1>6, <1>7 DEF ShortenerInv, HitsKept

LEMMA FlushStep ==
    ASSUME ShortenerAssumed, ShortenerInv, Shortener!FlushHits
    PROVE  ShortenerInv'
  <1>0. /\ ShortenerShape /\ WritersApart /\ RowsOnly /\ TakenOnce /\ HitsKept
        /\ flush \in [Flushers -> FlushSet] /\ counter \in [Shortener!Codes -> Nat]
        /\ lostHits \in [Shortener!Codes -> Nat]
    BY DEF ShortenerInv, ShortenerShape
  <1>1. \A f \in Flushers : flush[f].deltas \in [Shortener!Codes -> Nat] /\ flush[f].keys \subseteq Shortener!Codes
    BY <1>0 DEF FlushSet
  <1>2. \A i \in 1..MaxId : Code(i) \in Shortener!Codes
    BY CodeTyped
  <1>3. CASE Shortener!FlushAll
    <2>1. /\ urlCache' = {} /\ counter' = [c \in Shortener!Codes |-> 0]
          /\ lostHits' = [c \in Shortener!Codes |-> lostHits[c] + counter[c]]
          /\ UNCHANGED <<nextId, urls, writing, holder, redirect, flush, served>>
      BY <1>3 DEF Shortener!FlushAll
    <2>2. /\ counter' \in [Shortener!Codes -> Nat] /\ lostHits' \in [Shortener!Codes -> Nat]
          /\ \A c \in Shortener!Codes : counter'[c] = 0 /\ lostHits'[c] = lostHits[c] + counter[c]
      BY <1>0, <2>1
    <2>3. ShortenerShape'
      BY <1>0, <2>1, <2>2 DEF ShortenerShape
    <2>4. WritersApart' /\ TakenOnce'
      BY <1>0, <2>1 DEF WritersApart, TakenOnce
    <2>5. RowsOnly'
      BY <1>0, <2>1, <2>2 DEF RowsOnly, HasRow
    <2>6. ASSUME NEW i \in 1..MaxId
          PROVE  HitsOf(i)'
      <3> DEFINE c == Code(i)
      <3>1. served[c] = Hits(i) + counter[c] + Held(c) + lostHits[c]
        BY <1>0 DEF HitsKept, HitsOf
      <3>2. c \in Shortener!Codes /\ Held(c) \in Int
        BY <1>0, <1>2, SharesTyped
      <3>3. counter[c] \in Int /\ lostHits[c] \in Int /\ Hits(i) \in Int
        BY <1>0, <3>2 DEF Hits, ShortenerShape
      <3>4. Hits(i)' = Hits(i) /\ Held(c)' = Held(c) /\ c' = c
        BY <2>1 DEF Hits, Held, Shares, Code
      <3> HIDE DEF c
      <3>5. served[c] = Hits(i) + counter'[c] + Held(c) + lostHits'[c]
        BY <2>2, <3>1, <3>2, <3>3
      <3> QED
        BY <2>1, <3>4, <3>5 DEF HitsOf, c
    <2> QED
      BY <2>3, <2>4, <2>5, <2>6 DEF ShortenerInv, HitsKept
  <1>4. ASSUME NEW f \in Flushers, Shortener!Scan(f) \/ Shortener!FlushConnect(f)
        PROVE  ShortenerInv'
    <2>1. UNCHANGED <<nextId, urls, writing, holder, urlCache, counter, redirect, served, lostHits>>
      BY <1>4 DEF Shortener!Scan, Shortener!FlushConnect
    <2>2. PICK q \in FlushSet : /\ flush' = [flush EXCEPT ![f] = q] /\ q.deltas = flush[f].deltas
                                /\ q.pc # "idle"
                                /\ flush[f].pc # "idle" => q.keys = flush[f].keys
      <3>1. CASE Shortener!Scan(f)
        <4> DEFINE keys == {c \in Shortener!Codes : counter[c] > 0}
                   q == [flush[f] EXCEPT !.pc = "getdel", !.keys = keys]
        <4>1. flush[f].pc = "idle" /\ flush' = [flush EXCEPT ![f] = q]
          BY <3>1 DEF Shortener!Scan
        <4>2. keys \in SUBSET Shortener!Codes /\ flush[f] \in FlushSet
          BY <1>0
        <4> HIDE DEF keys
        <4>3. q \in FlushSet /\ q.deltas = flush[f].deltas /\ q.pc # "idle"
          BY <4>2 DEF FlushSet
        <4> QED
          BY <4>1, <4>3
      <3>2. CASE Shortener!FlushConnect(f)
        <4> DEFINE q == [flush[f] EXCEPT !.pc = "update"]
        <4>1. flush' = [flush EXCEPT ![f] = q]
          BY <1>0, <3>2 DEF Shortener!FlushConnect
        <4>2. q \in FlushSet /\ q.deltas = flush[f].deltas /\ q.pc # "idle" /\ q.keys = flush[f].keys
          BY <1>0 DEF FlushSet
        <4> QED
          BY <4>1, <4>2
      <3> QED
        BY <1>4, <3>1, <3>2
    <2>3. \A c \in Shortener!Codes : q.pc = "idle" \/ c \in q.keys => q.deltas[c] = 0
      BY <1>0, <2>2 DEF TakenOnce
    <2>4. \A i \in 1..MaxId : Hits(i)' = Hits(i)
      BY <2>1 DEF Hits
    <2>5. \A i \in DOMAIN urls : urls'[i] \in Nat
      BY <1>0, <2>1 DEF ShortenerShape
    <2> QED
      BY <1>0, <2>1, <2>2, <2>3, <2>4, <2>5, FlushMoves DEF RowsOnly
  <1>5. ASSUME NEW f \in Flushers, NEW b \in Shortener!Codes, Shortener!GetDel(f, b)
        PROVE  ShortenerInv'
    <2> DEFINE q == [flush[f] EXCEPT !.keys = flush[f].keys \ {b}, !.deltas = [flush[f].deltas EXCEPT ![b] = counter[b]]]
    <2>1. /\ flush[f].pc = "getdel" /\ b \in flush[f].keys /\ counter' = [counter EXCEPT ![b] = 0]
          /\ UNCHANGED <<nextId, urls, writing, holder, urlCache, redirect, served, lostHits>>
      BY <1>5 DEF Shortener!GetDel
    <2>2. flush' = [flush EXCEPT ![f] = q]
      BY <1>0, <1>5 DEF Shortener!GetDel, FlushSet
    <2>3. /\ flush[f].deltas[b] = 0 /\ counter[b] \in Nat /\ flush[f] \in FlushSet
          /\ flush[f].deltas \in [Shortener!Codes -> Nat]
      BY <1>0, <1>1, <2>1 DEF TakenOnce
    <2>4. /\ q \in FlushSet /\ q.pc = "getdel" /\ q.keys = flush[f].keys \ {b} /\ q.deltas[b] = counter[b]
          /\ \A c \in Shortener!Codes : c # b => q.deltas[c] = flush[f].deltas[c]
      BY <2>1, <2>3 DEF FlushSet
    <2> HIDE DEF q
    <2>5. /\ counter' \in [Shortener!Codes -> Nat] /\ counter'[b] = 0
          /\ \A c \in Shortener!Codes : c # b => counter'[c] = counter[c]
      BY <1>0, <2>1
    <2>6. \A c \in Shortener!Codes : q.deltas[c] > 0 => HasRow(c)
      BY <1>0, <2>4 DEF RowsOnly
    <2>7. \A c \in Shortener!Codes : counter'[c] > 0 => HasRow(c)
      BY <1>0, <2>5 DEF RowsOnly
    <2>8. \A c \in Shortener!Codes : q.pc = "idle" \/ c \in q.keys => q.deltas[c] = 0
      BY <1>0, <2>4 DEF TakenOnce
    <2>9. \A i \in 1..MaxId : Hits(i)' = Hits(i)
      BY <2>1 DEF Hits
    <2>10. \A i \in DOMAIN urls : urls'[i] \in Nat
      BY <1>0, <2>1 DEF ShortenerShape
    <2>11. ASSUME NEW i \in 1..MaxId
           PROVE  Hits(i)' + counter'[Code(i)] + q.deltas[Code(i)] + lostHits'[Code(i)]
                    = Hits(i) + counter[Code(i)] + flush[f].deltas[Code(i)] + lostHits[Code(i)]
      <3>1. Code(i) \in Shortener!Codes
        BY <1>2
      <3>2. counter'[Code(i)] + q.deltas[Code(i)] = counter[Code(i)] + flush[f].deltas[Code(i)]
        BY <1>0, <2>3, <2>4, <2>5, <3>1
      <3>3. /\ Hits(i) \in Int /\ counter[Code(i)] \in Int /\ counter'[Code(i)] \in Int
            /\ q.deltas[Code(i)] \in Int /\ flush[f].deltas[Code(i)] \in Int /\ lostHits[Code(i)] \in Int
        BY <1>0, <2>3, <2>4, <2>5, <3>1 DEF Hits, ShortenerShape
      <3> QED
        BY <2>1, <2>9, <3>2, <3>3
    <2> QED
      BY <1>0, <2>1, <2>2, <2>4, <2>5, <2>6, <2>7, <2>8, <2>10, <2>11, FlushMoves
  <1>6. ASSUME NEW f \in Flushers, Shortener!FlushCommit(f) \/ Shortener!FlushFails(f)
        PROVE  ShortenerInv'
    <2> DEFINE q == Shortener!Flushed(f)
    <2>1. flush' = [flush EXCEPT ![f] = q] /\ UNCHANGED <<nextId, writing, holder, urlCache, counter, redirect, served>>
      BY <1>6 DEF Shortener!FlushCommit, Shortener!FlushFails
    <2>2. q \in FlushSet /\ q.pc = "idle" /\ \A c \in Shortener!Codes : q.deltas[c] = 0
      <3> DEFINE zero == [c \in Shortener!Codes |-> 0]
      <3>1. zero \in [Shortener!Codes -> Nat] /\ \A c \in Shortener!Codes : zero[c] = 0
        OBVIOUS
      <3>2. q = [flush[f] EXCEPT !.pc = "idle", !.keys = {}, !.deltas = zero] /\ flush[f] \in FlushSet
        BY <1>0 DEF Shortener!Flushed
      <3> HIDE DEF zero, q
      <3> QED
        BY <3>1, <3>2 DEF FlushSet
    <2> HIDE DEF q
    <2>3. \A c \in Shortener!Codes : ~(q.deltas[c] > 0)
      BY <2>2
    <2>4. CASE Shortener!FlushCommit(f)
      <3>1. urls' = [i \in DOMAIN urls |-> urls[i] + flush[f].deltas[Code(i)]] /\ lostHits' = lostHits
        BY <2>4 DEF Shortener!FlushCommit, Code
      <3>2. DOMAIN urls' = DOMAIN urls /\ \A i \in DOMAIN urls : urls'[i] = urls[i] + flush[f].deltas[Code(i)]
        BY <3>1
      <3>3. \A i \in DOMAIN urls : i \in 1..MaxId /\ urls[i] \in Nat
        BY <1>0 DEF ShortenerShape, ShortenerAssumed
      <3>4. \A i \in DOMAIN urls : urls'[i] \in Nat
        BY <1>1, <1>2, <3>2, <3>3
      <3>5. ASSUME NEW i \in 1..MaxId
            PROVE  Hits(i)' + counter'[Code(i)] + q.deltas[Code(i)] + lostHits'[Code(i)]
                     = Hits(i) + counter[Code(i)] + flush[f].deltas[Code(i)] + lostHits[Code(i)]
        <4>1. /\ Code(i) \in Shortener!Codes /\ counter[Code(i)] \in Nat /\ lostHits[Code(i)] \in Nat
              /\ flush[f].deltas[Code(i)] \in Nat /\ q.deltas[Code(i)] = 0
          BY <1>0, <1>1, <1>2, <2>2
        <4>2. Hits(i)' = Hits(i) + flush[f].deltas[Code(i)]
          <5>1. CASE i \in DOMAIN urls
            BY <3>2, <5>1 DEF Hits
          <5>2. CASE i \notin DOMAIN urls
            <6>1. ~HasRow(Code(i))
              BY <5>2, CodeTyped DEF HasRow
            <6>2. flush[f].deltas[Code(i)] = 0
              BY <1>0, <4>1, <6>1 DEF RowsOnly
            <6> QED
              BY <3>2, <5>2, <6>2 DEF Hits
          <5> QED
            BY <5>1, <5>2
        <4>3. Hits(i) \in Nat
          BY <3>3 DEF Hits
        <4> QED
          BY <2>1, <3>1, <4>1, <4>2, <4>3
      <3> QED
        BY <1>0, <2>1, <2>2, <2>3, <3>1, <3>2, <3>4, <3>5, FlushMoves DEF RowsOnly
    <2>5. CASE Shortener!FlushFails(f)
      <3>1. urls' = urls /\ lostHits' = [c \in Shortener!Codes |-> lostHits[c] + flush[f].deltas[c]]
        BY <2>5 DEF Shortener!FlushFails
      <3>2. /\ lostHits' \in [Shortener!Codes -> Nat]
            /\ \A c \in Shortener!Codes : lostHits'[c] = lostHits[c] + flush[f].deltas[c]
        BY <1>0, <1>1, <3>1
      <3>3. \A i \in DOMAIN urls : urls'[i] \in Nat
        BY <1>0, <3>1 DEF ShortenerShape
      <3>4. ASSUME NEW i \in 1..MaxId
            PROVE  Hits(i)' + counter'[Code(i)] + q.deltas[Code(i)] + lostHits'[Code(i)]
                     = Hits(i) + counter[Code(i)] + flush[f].deltas[Code(i)] + lostHits[Code(i)]
        <4>1. /\ Code(i) \in Shortener!Codes /\ counter[Code(i)] \in Nat /\ lostHits[Code(i)] \in Nat
              /\ flush[f].deltas[Code(i)] \in Nat /\ q.deltas[Code(i)] = 0
          BY <1>0, <1>1, <1>2, <2>2
        <4>2. Hits(i)' = Hits(i) /\ Hits(i) \in Nat
          BY <1>0, <3>1 DEF Hits, ShortenerShape
        <4> QED
          BY <2>1, <3>2, <4>1, <4>2
      <3> QED
        BY <1>0, <2>1, <2>2, <2>3, <3>1, <3>2, <3>3, <3>4, FlushMoves DEF RowsOnly
    <2> QED
      BY <1>6, <2>4, <2>5
  <1> QED
    BY <1>3, <1>4, <1>5, <1>6 DEF Shortener!FlushHits

LEMMA ShortenerInvStep ==
    ASSUME ShortenerAssumed, ShortenerInv, Shortener!Next \/ UNCHANGED shortenerVars
    PROVE  ShortenerInv'
  <1>1. CASE UNCHANGED shortenerVars
    BY <1>1 DEF shortenerVars, ShortenerInv, ShortenerShape, WritersApart, RowsOnly, TakenOnce, HitsKept,
                HitsOf, Hits, Held, Shares, HasRow, Code
  <1>2. Shortener!ShortenerIdle => UNCHANGED shortenerVars
    BY DEF Shortener!ShortenerIdle, Shortener!vars, shortenerVars
  <1> QED
    BY <1>1, <1>2, ShorteningStep, RedirectingStep, FlushStep DEF Shortener!Next

LEMMA ShortenerInvSuffices ==
    ASSUME ShortenerAssumed, ShortenerInv
    PROVE  Shortener!ShortenerIsSound
  <1>1. \A f : Shortener!SumFunction(f) = SumFunction(f)
    BY DEF Shortener!SumFunction, SumFunction, Shortener!SumFunctionOnSet, SumFunctionOnSet,
           Shortener!FoldFunctionOnSet, FoldFunctionOnSet, Shortener!MapThenFoldSet, MapThenFoldSet
  <1>2. \A c \in urlCache : Shortener!Base62Decode(c) \in DOMAIN urls
    BY DEF ShortenerInv, RowsOnly, HasRow
  <1>3. \A i \in 1..MaxId : HitsOf(i)
    BY DEF ShortenerInv, HitsKept
  <1>4. Shortener!CodesAreUnique
    BY UniqueCodes DEF ShortenerAssumed
  <1> QED
    BY <1>1, <1>2, <1>3, <1>4 DEF Shortener!ShortenerIsSound, HitsOf, Hits, Held, Shares, Code

-----------------------------------------------------------------------------
(***************************************************************************)
(* The video pipeline.  A script writes an object before the row that      *)
(* speaks of it, and only the script of a video writes for it, so what its *)
(* row says holds wherever it dies.  A row that was inserted as 'ready'    *)
(* never gets a file.  A view is in one place: the row, Redis, the flush   *)
(* that runs, or lost with one that died.                                  *)
(***************************************************************************)
ScriptSteps == {"upload", "insert", "transcode", "commit", "manifest", "segments", "done", "dead", "seeded"}
RenditionRows == [Qualities -> Nat] \cup {<<>>}
ViewFlushSet == [pc : {"none", "take"}, todo : SUBSET Videos, taken : [Videos -> Nat]]

PipelineShape ==
  /\ step \in [Videos -> ScriptSteps]
  /\ size \in [Videos -> Nat]
  /\ video \in [Videos -> {"none", "processing", "ready"}]
  /\ qualityRows \in [Videos -> RenditionRows]

Transcoded(v) == \A q \in Qualities : <<v, "quality", q>> \in objects
Renditions(v) == [q \in Qualities |-> Pipeline!TranscodedSize(v, q)]

SeedFirst(v) == video[v] = "ready" /\ qualityRows[v] = <<>> /\ \A k, q : <<v, k, q>> \notin objects

ScriptFirst(v) ==
  /\ step[v] \notin {"upload", "dead"} \/ video[v] # "none" => <<v, "raw", 0>> \in objects
  /\ step[v] = "upload" => \A k, q : <<v, k, q>> \notin objects
  /\ step[v] \in {"upload", "insert"} => video[v] = "none"
  /\ step[v] = "commit" \/ video[v] = "ready" => Transcoded(v)
  /\ step[v] \in {"manifest", "segments", "done"} => video[v] = "ready"
  /\ <<v, "master", 0>> \in objects => video[v] = "ready"
  /\ video[v] = "ready" => qualityRows[v] = Renditions(v)
  /\ video[v] = "none" => qualityRows[v] = <<>>

FilesFirst(v) == IF step[v] = "seeded" THEN SeedFirst(v) ELSE ScriptFirst(v)

ViewsShape ==
  /\ viewCount \in [Videos -> Nat] /\ redisViews \in [Videos -> Nat]
  /\ viewed \in [Videos -> Nat] /\ lostViews \in [Videos -> Nat]
  /\ flushing \in ViewFlushSet
  /\ flushing.pc = "none" => flushing = Pipeline!NoFlush
  /\ \A v \in flushing.todo : flushing.taken[v] = 0

ViewsOf(v) == viewed[v] = viewCount[v] + redisViews[v] + flushing.taken[v] + lostViews[v]

FilesInv == PipelineShape /\ \A v \in Videos : FilesFirst(v)
ViewsInv == ViewsShape /\ \A v \in Videos : ViewsOf(v)
VideoInv == FilesInv /\ ViewsInv

LEMMA NoFlushTyped ==
    /\ Pipeline!NoFlush \in ViewFlushSet /\ Pipeline!NoFlush.todo = {}
    /\ \A v \in Videos : Pipeline!NoFlush.taken[v] = 0
  <1> DEFINE zero == [v \in Videos |-> 0]
  <1>1. zero \in [Videos -> Nat] /\ \A v \in Videos : zero[v] = 0
    OBVIOUS
  <1>2. Pipeline!NoFlush = [pc |-> "none", todo |-> {}, taken |-> zero]
    BY DEF Pipeline!NoFlush
  <1> HIDE DEF zero
  <1> QED
    BY <1>1, <1>2 DEF ViewFlushSet

LEMMA RenditionTyped ==
    ASSUME PipelineAssumed, PipelineShape, NEW v \in Videos
    PROVE  /\ Renditions(v) \in [Qualities -> Nat]
           /\ \A q \in Qualities : Renditions(v)[q] = (size[v] * Scale[q]) \div ScaleUnit
  <1>1. ASSUME NEW q \in Qualities
        PROVE  Pipeline!TranscodedSize(v, q) \in Nat
    <2> DEFINE x == size[v] * Scale[q]
    <2>1. size[v] \in Nat /\ Scale[q] \in Nat /\ ScaleUnit \in Nat /\ ScaleUnit > 0
      BY DEF PipelineAssumed, PipelineShape
    <2>2. x \in Nat
      BY <2>1, ProductType
    <2> HIDE DEF x
    <2>3. x \div ScaleUnit \in Nat
      BY <2>1, <2>2, WindowOf
    <2> QED
      BY <2>3 DEF x, Pipeline!TranscodedSize
  <1> QED
    BY <1>1 DEF Renditions, Pipeline!TranscodedSize

LEMMA LargerLast ==
    ASSUME PipelineAssumed, PipelineShape, NEW v \in Videos,
           NEW p \in Qualities, NEW q \in Qualities, p < q
    PROVE  Renditions(v)[p] <= Renditions(v)[q]
  <1> DEFINE x == Scale[p] * size[v]
             y == Scale[q] * size[v]
  <1>1. /\ size[v] \in Nat /\ Scale[p] \in Nat /\ Scale[q] \in Nat /\ Scale[p] <= Scale[q]
        /\ ScaleUnit \in Nat /\ ScaleUnit > 0
    BY DEF PipelineAssumed, PipelineShape
  <1>2. x <= y /\ x \in Nat /\ y \in Nat
    BY <1>1, TimesMonotonic, ProductType
  <1>3. x = size[v] * Scale[p] /\ y = size[v] * Scale[q]
    BY <1>1
  <1> HIDE DEF x, y
  <1>4. x \div ScaleUnit <= y \div ScaleUnit
    BY <1>1, <1>2, WindowsAscend
  <1> QED
    BY <1>3, <1>4, RenditionTyped

LEMMA SeekStaysInside ==
    ASSUME PipelineAssumed, NEW t \in Nat, t > 0
    PROVE  Pipeline!RangeStart(t) <= Pipeline!RangeEnd(t) /\ Pipeline!RangeEnd(t) < t
  <1>1. ChunkSize \in Nat
    BY DEF PipelineAssumed
  <1> DEFINE h == t \div 2
             k == t \div 4
             c == IF ChunkSize < k THEN ChunkSize ELSE k
  <1>2. h \in Nat /\ k \in Nat /\ 2 * h <= t /\ 4 * k <= t
    OBVIOUS
  <1>3. Pipeline!RangeStart(t) = h /\ Pipeline!RangeEnd(t) = h + c
    BY DEF Pipeline!RangeStart, Pipeline!RangeEnd
  <1> HIDE DEF h, k
  <1>4. c \in Nat /\ c <= k
    BY <1>1, <1>2
  <1> HIDE DEF c
  <1> QED
    BY <1>2, <1>3, <1>4

LEMMA VideoInvInit ==
    ASSUME PipelineAssumed, Pipeline!Init
    PROVE  VideoInv
  <1> DEFINE zero == [v \in Videos |-> 0]
  <1>1. /\ step = [v \in Videos |-> "upload"] /\ size \in [Videos -> SourceSizes] /\ objects = {}
        /\ video = [v \in Videos |-> "none"] /\ qualityRows = [v \in Videos |-> <<>>]
        /\ viewCount = zero /\ redisViews = zero /\ flushing = Pipeline!NoFlush
        /\ viewed = zero /\ lostViews = zero
    BY DEF Pipeline!Init
  <1>2. zero \in [Videos -> Nat] /\ \A v \in Videos : zero[v] = 0
    OBVIOUS
  <1> HIDE DEF zero
  <1>3. PipelineShape
    BY <1>1 DEF PipelineShape, ScriptSteps, RenditionRows, PipelineAssumed
  <1>4. \A v \in Videos : FilesFirst(v)
    BY <1>1 DEF FilesFirst, ScriptFirst, SeedFirst
  <1>5. ViewsShape
    BY <1>1, <1>2, NoFlushTyped DEF ViewsShape
  <1>6. ASSUME NEW v \in Videos
        PROVE  ViewsOf(v)
    <2>1. viewed[v] = 0 /\ viewCount[v] = 0 /\ redisViews[v] = 0 /\ lostViews[v] = 0
      BY <1>1, <1>2
    <2>2. flushing.taken[v] = 0
      BY <1>1, NoFlushTyped
    <2> QED
      BY <2>1, <2>2 DEF ViewsOf
  <1> QED
    BY <1>3, <1>4, <1>5, <1>6 DEF VideoInv, FilesInv, ViewsInv

(***************************************************************************)
(* One step of the script of v leaves what the other videos have.          *)
(***************************************************************************)
LEMMA OthersKeepFiles ==
    ASSUME FilesInv, NEW v \in Videos, NEW o, o[1] = v, objects' = objects \cup {o} \/ objects' = objects,
           \A u \in Videos : u # v => step'[u] = step[u] /\ video'[u] = video[u] /\ qualityRows'[u] = qualityRows[u],
           size' = size
    PROVE  \A u \in Videos : u # v => FilesFirst(u)'
  <1> SUFFICES ASSUME NEW u \in Videos, u # v
               PROVE  FilesFirst(u)'
    OBVIOUS
  <1>1. step'[u] = step[u] /\ video'[u] = video[u] /\ qualityRows'[u] = qualityRows[u]
    OBVIOUS
  <1>2. FilesFirst(u)
    BY DEF FilesInv
  <1>3. \A k, q : <<u, k, q>> \in objects' <=> <<u, k, q>> \in objects
    <2>1. \A k, q : <<u, k, q>> # o
      <3>1. \A k, q : <<u, k, q>>[1] = u
        OBVIOUS
      <3> QED
        BY <3>1
    <2> QED
      BY <2>1
  <1>4. Transcoded(u)' = Transcoded(u)
    BY <1>3 DEF Transcoded
  <1>5. Renditions(u)' = Renditions(u)
    BY DEF Renditions, Pipeline!TranscodedSize
  <1> QED
    BY <1>1, <1>2, <1>3, <1>4, <1>5 DEF FilesFirst, ScriptFirst, SeedFirst

LEMMA ScriptStep ==
    ASSUME PipelineAssumed, FilesInv, NEW v \in Videos,
           \/ Pipeline!PutRaw(v) \/ Pipeline!InsertVideo(v) \/ \E q \in Qualities : Pipeline!PutQuality(v, q)
           \/ Pipeline!CommitReady(v) \/ Pipeline!PutMaster(v) \/ Pipeline!PutSegments(v)
           \/ Pipeline!ScriptDies(v)
    PROVE  FilesInv'
  <1>0. FilesFirst(v) /\ PipelineShape
    BY DEF FilesInv
  <1>1. ASSUME PipelineShape', FilesFirst(v)', size' = size, NEW o, o[1] = v,
               objects' = objects \cup {o} \/ objects' = objects,
               \A u \in Videos : u # v => step'[u] = step[u] /\ video'[u] = video[u] /\ qualityRows'[u] = qualityRows[u]
        PROVE  FilesInv'
    <2>1. \A u \in Videos : u # v => FilesFirst(u)'
      BY <1>1, OthersKeepFiles
    <2> QED
      BY <1>1, <2>1 DEF FilesInv
  <1>2. CASE Pipeline!PutRaw(v)
    <2> DEFINE o == <<v, "raw", 0>>
    <2>1. /\ step[v] = "upload" /\ objects' = objects \cup {o} /\ step' = [step EXCEPT ![v] = "insert"]
          /\ UNCHANGED <<size, video, qualityRows>>
      BY <1>2 DEF Pipeline!PutRaw, Pipeline!views
    <2>2. PipelineShape'
      BY <1>0, <2>1 DEF PipelineShape, ScriptSteps
    <2>3. FilesFirst(v)'
      BY <1>0, <2>1 DEF FilesFirst, ScriptFirst, PipelineShape
    <2>10. \A u \in Videos : u # v => step'[u] = step[u] /\ video'[u] = video[u] /\ qualityRows'[u] = qualityRows[u]
      BY <1>0, <2>1 DEF PipelineShape
    <2>11. size' = size /\ o[1] = v /\ (objects' = objects \cup {o} \/ objects' = objects)
      BY <2>1
    <2> HIDE DEF o
    <2> QED
      BY <1>1, <2>2, <2>3, <2>10, <2>11
  <1>3. CASE Pipeline!InsertVideo(v)
    <2> DEFINE o == <<v, "raw", 0>>
    <2>1. /\ step[v] = "insert" /\ step' = [step EXCEPT ![v] = "transcode"]
          /\ video' = [video EXCEPT ![v] = "processing"] /\ UNCHANGED <<size, objects, qualityRows>>
      BY <1>3 DEF Pipeline!InsertVideo, Pipeline!views
    <2>2. PipelineShape'
      BY <1>0, <2>1 DEF PipelineShape, ScriptSteps
    <2>3. FilesFirst(v)'
      BY <1>0, <2>1 DEF FilesFirst, ScriptFirst, PipelineShape
    <2>10. \A u \in Videos : u # v => step'[u] = step[u] /\ video'[u] = video[u] /\ qualityRows'[u] = qualityRows[u]
      BY <1>0, <2>1 DEF PipelineShape
    <2>11. size' = size /\ o[1] = v /\ (objects' = objects \cup {o} \/ objects' = objects)
      BY <2>1
    <2> HIDE DEF o
    <2> QED
      BY <1>1, <2>2, <2>3, <2>10, <2>11
  <1>4. ASSUME NEW q \in Qualities, Pipeline!PutQuality(v, q)
        PROVE  FilesInv'
    <2> DEFINE o == <<v, "quality", q>>
               next == IF Transcoded(v)' THEN "commit" ELSE step[v]
    <2>1. /\ step[v] = "transcode" /\ objects' = objects \cup {o} /\ step' = [step EXCEPT ![v] = next]
          /\ UNCHANGED <<size, video, qualityRows>>
      BY <1>4 DEF Pipeline!PutQuality, Pipeline!views, Transcoded
    <2>2. next \in {"transcode", "commit"} /\ (next = "commit" => Transcoded(v)')
      BY <2>1
    <2> HIDE DEF next
    <2>3. PipelineShape'
      BY <1>0, <2>1, <2>2 DEF PipelineShape, ScriptSteps
    <2>4. step'[v] = next /\ video'[v] = video[v] /\ qualityRows'[v] = qualityRows[v]
      BY <1>0, <2>1 DEF PipelineShape
    <2>5. Renditions(v)' = Renditions(v)
      BY <2>1 DEF Renditions, Pipeline!TranscodedSize
    <2>6. Transcoded(v) => Transcoded(v)'
      BY <2>1 DEF Transcoded
    <2>7. <<v, "master", 0>> \in objects' => <<v, "master", 0>> \in objects
      BY <2>1
    <2>8. FilesFirst(v)'
      BY <1>0, <2>1, <2>2, <2>4, <2>5, <2>6, <2>7 DEF FilesFirst, ScriptFirst, SeedFirst
    <2>10. \A u \in Videos : u # v => step'[u] = step[u] /\ video'[u] = video[u] /\ qualityRows'[u] = qualityRows[u]
      BY <1>0, <2>1 DEF PipelineShape
    <2>11. size' = size /\ o[1] = v /\ (objects' = objects \cup {o} \/ objects' = objects)
      BY <2>1
    <2> HIDE DEF o
    <2> QED
      BY <1>1, <2>3, <2>8, <2>10, <2>11
  <1>5. CASE Pipeline!CommitReady(v)
    <2> DEFINE o == <<v, "raw", 0>>
    <2>1. /\ step[v] = "commit" /\ qualityRows' = [qualityRows EXCEPT ![v] = Renditions(v)]
          /\ video' = [video EXCEPT ![v] = "ready"] /\ step' = [step EXCEPT ![v] = "manifest"]
          /\ UNCHANGED <<size, objects>>
      BY <1>5 DEF Pipeline!CommitReady, Pipeline!views, Renditions
    <2>2. Renditions(v) \in RenditionRows
      BY <1>0, RenditionTyped DEF RenditionRows
    <2>3. PipelineShape'
      BY <1>0, <2>1, <2>2 DEF PipelineShape, ScriptSteps
    <2>4. step'[v] = "manifest" /\ video'[v] = "ready" /\ qualityRows'[v] = Renditions(v)
      BY <1>0, <2>1 DEF PipelineShape
    <2>5. Renditions(v)' = Renditions(v)
      BY <2>1 DEF Renditions, Pipeline!TranscodedSize
    <2>6. Transcoded(v) <=> Transcoded(v)'
      BY <2>1 DEF Transcoded
    <2>7. FilesFirst(v)'
      BY <1>0, <2>1, <2>4, <2>5, <2>6 DEF FilesFirst, ScriptFirst, SeedFirst
    <2>10. \A u \in Videos : u # v => step'[u] = step[u] /\ video'[u] = video[u] /\ qualityRows'[u] = qualityRows[u]
      BY <1>0, <2>1 DEF PipelineShape
    <2>11. size' = size /\ o[1] = v /\ (objects' = objects \cup {o} \/ objects' = objects)
      BY <2>1
    <2> HIDE DEF o
    <2> QED
      BY <1>1, <2>3, <2>7, <2>10, <2>11
  <1>6. CASE Pipeline!PutMaster(v) \/ Pipeline!PutSegments(v)
    <2> DEFINE o == IF step[v] = "manifest" THEN <<v, "master", 0>> ELSE <<v, "index", 1>>
               next == IF step[v] = "manifest" THEN "segments" ELSE "done"
    <2>1. /\ step[v] \in {"manifest", "segments"} /\ step' = [step EXCEPT ![v] = next]
          /\ objects' = objects \cup {o} /\ UNCHANGED <<size, video, qualityRows>>
      BY <1>6 DEF Pipeline!PutMaster, Pipeline!PutSegments, Pipeline!views
    <2>2. next \in {"segments", "done"} /\ o[1] = v
      OBVIOUS
    <2> HIDE DEF o, next
    <2>3. PipelineShape'
      BY <1>0, <2>1, <2>2 DEF PipelineShape, ScriptSteps
    <2>4. step'[v] = next /\ video'[v] = "ready" /\ video[v] = "ready" /\ qualityRows'[v] = qualityRows[v]
      BY <1>0, <2>1 DEF PipelineShape, FilesFirst, ScriptFirst
    <2>5. Renditions(v)' = Renditions(v)
      BY <2>1 DEF Renditions, Pipeline!TranscodedSize
    <2>6. Transcoded(v) => Transcoded(v)'
      BY <2>1 DEF Transcoded
    <2>7. FilesFirst(v)'
      BY <1>0, <2>1, <2>2, <2>4, <2>5, <2>6 DEF FilesFirst, ScriptFirst, SeedFirst
    <2>10. \A u \in Videos : u # v => step'[u] = step[u] /\ video'[u] = video[u] /\ qualityRows'[u] = qualityRows[u]
      BY <1>0, <2>1 DEF PipelineShape
    <2>11. size' = size /\ o[1] = v /\ (objects' = objects \cup {o} \/ objects' = objects)
      BY <2>1, <2>2
    <2> HIDE DEF o
    <2> QED
      BY <1>1, <2>2, <2>3, <2>7, <2>10, <2>11
  <1>7. CASE Pipeline!ScriptDies(v)
    <2> DEFINE o == <<v, "raw", 0>>
    <2>1. /\ step[v] # "seeded" /\ step' = [step EXCEPT ![v] = "dead"]
          /\ UNCHANGED <<size, objects, video, qualityRows>>
      BY <1>7 DEF Pipeline!ScriptDies, Pipeline!views
    <2>2. PipelineShape'
      BY <1>0, <2>1 DEF PipelineShape, ScriptSteps
    <2>3. step'[v] = "dead" /\ video'[v] = video[v] /\ qualityRows'[v] = qualityRows[v]
      BY <1>0, <2>1 DEF PipelineShape
    <2>4. Renditions(v)' = Renditions(v) /\ (Transcoded(v)' <=> Transcoded(v))
      BY <2>1 DEF Renditions, Pipeline!TranscodedSize, Transcoded
    <2>5. FilesFirst(v)'
      BY <1>0, <2>1, <2>3, <2>4 DEF FilesFirst, ScriptFirst, SeedFirst
    <2>10. \A u \in Videos : u # v => step'[u] = step[u] /\ video'[u] = video[u] /\ qualityRows'[u] = qualityRows[u]
      BY <1>0, <2>1 DEF PipelineShape
    <2>11. size' = size /\ o[1] = v /\ (objects' = objects \cup {o} \/ objects' = objects)
      BY <2>1
    <2> HIDE DEF o
    <2> QED
      BY <1>1, <2>2, <2>5, <2>10, <2>11
  <1> QED
    BY <1>2, <1>3, <1>4, <1>5, <1>6, <1>7

LEMMA SeedStep ==
    ASSUME FilesInv, NEW S \in SUBSET Videos, Pipeline!SeedReady(S)
    PROVE  FilesInv'
  <1>1. /\ \A v \in S : step[v] = "upload"
        /\ step' = [v \in Videos |-> IF v \in S THEN "seeded" ELSE step[v]]
        /\ video' = [v \in Videos |-> IF v \in S THEN "ready" ELSE video[v]]
        /\ UNCHANGED <<size, objects, qualityRows>>
    BY DEF Pipeline!SeedReady, Pipeline!views
  <1>2. PipelineShape /\ \A v \in Videos : FilesFirst(v)
    BY DEF FilesInv
  <1>3. PipelineShape'
    BY <1>1, <1>2 DEF PipelineShape, ScriptSteps
  <1>4. ASSUME NEW v \in Videos
        PROVE  FilesFirst(v)'
    <2>1. FilesFirst(v)
      BY <1>2
    <2>2. Renditions(v)' = Renditions(v) /\ (Transcoded(v)' <=> Transcoded(v))
      BY <1>1 DEF Renditions, Pipeline!TranscodedSize, Transcoded
    <2>3. CASE v \in S
      <3>1. step[v] = "upload" /\ step'[v] = "seeded" /\ video'[v] = "ready"
        BY <1>1, <2>3
      <3>2. qualityRows[v] = <<>> /\ \A k, q : <<v, k, q>> \notin objects
        BY <2>1, <3>1 DEF FilesFirst, ScriptFirst
      <3> QED
        BY <1>1, <3>1, <3>2 DEF FilesFirst, SeedFirst
    <2>4. CASE v \notin S
      <3>1. step'[v] = step[v] /\ video'[v] = video[v]
        BY <1>1, <2>4
      <3> QED
        BY <1>1, <2>1, <2>2, <3>1 DEF FilesFirst, ScriptFirst, SeedFirst
    <2> QED
      BY <2>3, <2>4
  <1> QED
    BY <1>3, <1>4 DEF FilesInv

LEMMA ViewsStep ==
    ASSUME ViewsInv,
           Pipeline!CountViews \/ (\E S \in SUBSET Videos : Pipeline!BeginFlush(S))
             \/ Pipeline!CommitViews \/ Pipeline!FlushDies
    PROVE  ViewsInv'
  <1>0. ViewsShape /\ \A v \in Videos : ViewsOf(v)
    BY DEF ViewsInv
  <1>1. /\ viewCount \in [Videos -> Nat] /\ redisViews \in [Videos -> Nat]
        /\ viewed \in [Videos -> Nat] /\ lostViews \in [Videos -> Nat]
        /\ flushing \in ViewFlushSet /\ flushing.taken \in [Videos -> Nat]
    BY <1>0 DEF ViewsShape, ViewFlushSet
  <1>2. ASSUME NEW v \in Videos, Pipeline!View(v)
        PROVE  ViewsInv'
    <2>1. /\ redisViews' = [redisViews EXCEPT ![v] = @ + 1] /\ viewed' = [viewed EXCEPT ![v] = @ + 1]
          /\ UNCHANGED <<viewCount, flushing, lostViews>>
      BY <1>2 DEF Pipeline!View, Pipeline!library
    <2>2. ViewsShape'
      BY <1>0, <1>1, <2>1 DEF ViewsShape
    <2>3. ASSUME NEW u \in Videos
          PROVE  ViewsOf(u)'
      BY <1>0, <1>1, <2>1 DEF ViewsOf
    <2> QED
      BY <2>2, <2>3 DEF ViewsInv
  <1>3. ASSUME NEW v \in Videos, Pipeline!TakeViews(v)
        PROVE  ViewsInv'
    <2> DEFINE q == [flushing EXCEPT !.todo = flushing.todo \ {v},
                                     !.taken = [flushing.taken EXCEPT ![v] = redisViews[v]]]
    <2>1. /\ flushing.pc = "take" /\ v \in flushing.todo /\ redisViews' = [redisViews EXCEPT ![v] = 0]
          /\ UNCHANGED <<viewCount, viewed, lostViews>>
      BY <1>3 DEF Pipeline!TakeViews, Pipeline!library
    <2>2. flushing' = q
      BY <1>1, <1>3 DEF Pipeline!TakeViews, ViewFlushSet
    <2>3. flushing.taken[v] = 0
      BY <1>0, <2>1 DEF ViewsShape
    <2>4. /\ q \in ViewFlushSet /\ q.pc = "take" /\ q.todo = flushing.todo \ {v}
          /\ q.taken[v] = redisViews[v] /\ \A u \in Videos : u # v => q.taken[u] = flushing.taken[u]
      BY <1>1, <2>1 DEF ViewFlushSet
    <2> HIDE DEF q
    <2>5. ViewsShape'
      <3>1. \A u \in q.todo : q.taken[u] = 0
        BY <1>0, <2>4 DEF ViewsShape, ViewFlushSet
      <3>2. redisViews' \in [Videos -> Nat]
        BY <1>1, <2>1
      <3> QED
        BY <1>1, <2>1, <2>2, <2>4, <3>1, <3>2 DEF ViewsShape
    <2>6. ASSUME NEW u \in Videos
          PROVE  ViewsOf(u)'
      <3>1. redisViews'[u] + flushing'.taken[u] = redisViews[u] + flushing.taken[u]
        BY <1>1, <2>1, <2>2, <2>3, <2>4
      <3>2. /\ redisViews'[u] \in Int /\ flushing'.taken[u] \in Int /\ redisViews[u] \in Int
            /\ flushing.taken[u] \in Int /\ viewCount[u] \in Int /\ lostViews[u] \in Int
        BY <1>1, <2>1, <2>2, <2>4
      <3> QED
        BY <1>0, <2>1, <3>1, <3>2 DEF ViewsOf
    <2> QED
      BY <2>5, <2>6 DEF ViewsInv
  <1>4. ASSUME NEW S \in SUBSET Videos, Pipeline!BeginFlush(S)
        PROVE  ViewsInv'
    <2>1. /\ flushing = Pipeline!NoFlush /\ flushing' = [Pipeline!NoFlush EXCEPT !.pc = "take", !.todo = S]
          /\ UNCHANGED <<viewCount, redisViews, viewed, lostViews>>
      BY <1>4 DEF Pipeline!BeginFlush, Pipeline!library
    <2>2. /\ flushing'.taken = flushing.taken /\ flushing'.pc = "take" /\ flushing' \in ViewFlushSet
          /\ \A v \in Videos : flushing.taken[v] = 0
      BY <2>1, NoFlushTyped DEF ViewFlushSet
    <2>3. flushing'.todo = S
      BY <2>1, NoFlushTyped DEF ViewFlushSet
    <2>4. ViewsShape'
      BY <1>1, <2>1, <2>2, <2>3 DEF ViewsShape
    <2>5. \A u \in Videos : ViewsOf(u)'
      BY <1>0, <2>1, <2>2 DEF ViewsOf
    <2> QED
      BY <2>4, <2>5 DEF ViewsInv
  <1>5. CASE Pipeline!CommitViews \/ Pipeline!FlushDies
    <2>1. /\ flushing' = Pipeline!NoFlush /\ UNCHANGED <<redisViews, viewed>>
          /\ \/ viewCount' = [v \in Videos |-> viewCount[v] + flushing.taken[v]] /\ lostViews' = lostViews
             \/ lostViews' = [v \in Videos |-> lostViews[v] + flushing.taken[v]] /\ viewCount' = viewCount
      BY <1>5 DEF Pipeline!CommitViews, Pipeline!FlushDies, Pipeline!library
    <2>2. flushing' \in ViewFlushSet /\ \A v \in Videos : flushing'.taken[v] = 0
      BY <2>1, NoFlushTyped
    <2>3. viewCount' \in [Videos -> Nat] /\ lostViews' \in [Videos -> Nat]
      BY <1>1, <2>1
    <2>4. \A v \in flushing'.todo : flushing'.taken[v] = 0
      BY <2>1, NoFlushTyped DEF Pipeline!NoFlush
    <2>5. ViewsShape'
      BY <1>1, <2>1, <2>2, <2>3, <2>4 DEF ViewsShape
    <2>6. ASSUME NEW u \in Videos
          PROVE  ViewsOf(u)'
      <3>1. /\ viewCount[u] \in Nat /\ lostViews[u] \in Nat /\ flushing.taken[u] \in Nat
            /\ redisViews[u] \in Nat /\ flushing'.taken[u] = 0
        BY <1>1, <2>2
      <3>2. viewCount'[u] + lostViews'[u] = viewCount[u] + lostViews[u] + flushing.taken[u]
        BY <2>1, <3>1
      <3>3. viewCount'[u] \in Nat /\ lostViews'[u] \in Nat
        BY <2>3
      <3> QED
        BY <1>0, <2>1, <3>1, <3>2, <3>3 DEF ViewsOf
    <2> QED
      BY <2>5, <2>6 DEF ViewsInv
  <1> QED
    BY <1>2, <1>3, <1>4, <1>5 DEF Pipeline!CountViews

LEMMA FilesStand ==
    ASSUME FilesInv, UNCHANGED <<step, size, objects, video, qualityRows>>
    PROVE  FilesInv'
  BY DEF FilesInv, PipelineShape, FilesFirst, ScriptFirst, SeedFirst, Transcoded, Renditions, Pipeline!TranscodedSize

LEMMA ViewsStay ==
    ASSUME ViewsInv, UNCHANGED <<viewCount, redisViews, flushing, viewed, lostViews>>
    PROVE  ViewsInv'
  BY DEF ViewsInv, ViewsShape, ViewsOf

LEMMA VideoInvStep ==
    ASSUME PipelineAssumed, VideoInv, Pipeline!Next \/ UNCHANGED pipelineVars
    PROVE  VideoInv'
  <1>0. FilesInv /\ ViewsInv
    BY DEF VideoInv
  <1>1. CASE UNCHANGED pipelineVars
    BY <1>0, <1>1, FilesStand, ViewsStay DEF pipelineVars, VideoInv
  <1>2. Pipeline!LibraryIdle => UNCHANGED pipelineVars
    BY DEF Pipeline!LibraryIdle, Pipeline!vars, pipelineVars
  <1>3. ASSUME NEW v \in Videos,
               \/ Pipeline!PutRaw(v) \/ Pipeline!InsertVideo(v) \/ \E q \in Qualities : Pipeline!PutQuality(v, q)
               \/ Pipeline!CommitReady(v) \/ Pipeline!PutMaster(v) \/ Pipeline!PutSegments(v)
               \/ Pipeline!ScriptDies(v)
        PROVE  VideoInv'
    <2>1. FilesInv'
      BY <1>0, <1>3, ScriptStep
    <2>2. UNCHANGED <<viewCount, redisViews, flushing, viewed, lostViews>>
      BY <1>3 DEF Pipeline!PutRaw, Pipeline!InsertVideo, Pipeline!PutQuality, Pipeline!CommitReady,
                  Pipeline!PutMaster, Pipeline!PutSegments, Pipeline!ScriptDies, Pipeline!views
    <2> QED
      BY <1>0, <2>1, <2>2, ViewsStay DEF VideoInv
  <1>4. ASSUME Pipeline!CountViews \/ (\E S \in SUBSET Videos : Pipeline!BeginFlush(S))
                 \/ Pipeline!CommitViews \/ Pipeline!FlushDies
        PROVE  VideoInv'
    <2>1. ViewsInv'
      BY <1>0, <1>4, ViewsStep
    <2>2. UNCHANGED <<step, size, objects, video, qualityRows>>
      BY <1>4 DEF Pipeline!CountViews, Pipeline!View, Pipeline!TakeViews, Pipeline!BeginFlush,
                  Pipeline!CommitViews, Pipeline!FlushDies, Pipeline!library
    <2> QED
      BY <1>0, <2>1, <2>2, FilesStand DEF VideoInv
  <1>5. ASSUME NEW S \in SUBSET Videos, Pipeline!SeedReady(S)
        PROVE  VideoInv'
    <2>1. UNCHANGED <<viewCount, redisViews, flushing, viewed, lostViews>>
      BY <1>5 DEF Pipeline!SeedReady, Pipeline!views
    <2> QED
      BY <1>0, <1>5, <2>1, SeedStep, ViewsStay DEF VideoInv
  <1> QED
    BY <1>1, <1>2, <1>3, <1>4, <1>5 DEF Pipeline!Next

LEMMA VideoInvSuffices ==
    ASSUME PipelineAssumed, VideoInv
    PROVE  Pipeline!VideosArePlayable
  <1> SUFFICES ASSUME NEW v \in Videos
               PROVE  /\ step[v] # "seeded" /\ video[v] # "none" => <<v, "raw", 0>> \in objects
                      /\ step[v] # "seeded" /\ video[v] = "ready" =>
                           /\ \A q \in Qualities : <<v, "quality", q>> \in objects
                           /\ \A p, q \in Qualities : p < q => qualityRows[v][p] <= qualityRows[v][q]
                           /\ \A q \in Qualities : LET total == qualityRows[v][q]
                                IN total > 0 => Pipeline!RangeStart(total) <= Pipeline!RangeEnd(total)
                                                  /\ Pipeline!RangeEnd(total) < total
                      /\ <<v, "master", 0>> \in objects => Pipeline!Range(Pipeline!MasterEntries(v)) = Qualities
                      /\ viewed[v] = viewCount[v] + redisViews[v] + flushing.taken[v] + lostViews[v]
    BY DEF Pipeline!VideosArePlayable
  <1>1. FilesFirst(v) /\ ViewsOf(v) /\ PipelineShape
    BY DEF VideoInv, FilesInv, ViewsInv
  <1>2. CASE video[v] = "ready" /\ step[v] # "seeded"
    <2>1. qualityRows[v] = Renditions(v) /\ Transcoded(v)
      BY <1>1, <1>2 DEF FilesFirst, ScriptFirst
    <2>2. \A p, q \in Qualities : p < q => qualityRows[v][p] <= qualityRows[v][q]
      BY <1>1, <2>1, LargerLast
    <2>3. \A q \in Qualities : qualityRows[v][q] \in Nat
      BY <1>1, <2>1, RenditionTyped
    <2>4. \A q \in Qualities : qualityRows[v][q] > 0 =>
             /\ Pipeline!RangeStart(qualityRows[v][q]) <= Pipeline!RangeEnd(qualityRows[v][q])
             /\ Pipeline!RangeEnd(qualityRows[v][q]) < qualityRows[v][q]
      BY <2>3, SeekStaysInside
    <2>5. DOMAIN qualityRows[v] = Qualities
      BY <1>1, <2>1, RenditionTyped
    <2>6. Pipeline!Range(Pipeline!MasterEntries(v)) = Qualities
      BY <2>5 DEF Pipeline!Range, Pipeline!MasterEntries
    <2> QED
      BY <1>1, <1>2, <2>1, <2>2, <2>4, <2>6 DEF FilesFirst, ScriptFirst, ViewsOf, Transcoded
  <1>3. CASE ~(video[v] = "ready" /\ step[v] # "seeded")
    BY <1>1, <1>3 DEF FilesFirst, ScriptFirst, SeedFirst, ViewsOf
  <1> QED
    BY <1>2, <1>3

-----------------------------------------------------------------------------
(***************************************************************************)
(* The crawler.  Every iteration takes the head of the frontier, and what  *)
(* it appends was not in the filter before.  So a URL is waiting or was    *)
(* requested at most once; depths ascend along the frontier and differ by  *)
(* one at most; and what set a bit of the filter waits, was requested, was *)
(* dropped by a rule, or is too deep like everything after it.             *)
(***************************************************************************)
Known == seedUrls \cup UNION {Crawler!Linked(w) : w \in DOMAIN crawled}
Waiting(v) == \E i \in DOMAIN frontier : frontier[i][1] = v
Asked(v) == \E j \in DOMAIN requests : requests[j].url = v
Gone(v) == Asked(v) \/ Crawler!IsTrap(v) \/ v.path \in Crawler!MockRules.disallow
AllDeep == \A i \in DOMAIN frontier : frontier[i][2] > MaxDepth
Settled(v) == Waiting(v) \/ Gone(v) \/ AllDeep
SettledUrls == {w \in Known : Settled(w)}
Mistaken(v) == Crawler!BloomHas(Crawler!BloomFilter(Known \ {v}), v)

PageRequestSet == [url : Crawler!CrawlUrl, depth : Nat, at : Nat, ok : BOOLEAN]

CrawlShape ==
  /\ frontier \in Seq(Crawler!CrawlUrl \X (0..(MaxDepth + 1)))
  /\ requests \in Seq(PageRequestSet)
  /\ crawlClock \in Nat /\ \A h \in DOMAIN lastAccess : lastAccess[h] \in Nat
  /\ \A u \in DOMAIN crawled : crawled[u] \in Nat /\ Asked(u)
  /\ \A h \in DOMAIN robotsRules : robotsRules[h] \in {Crawler!MockRules, Crawler!NoRules}

FilterKnows ==
  /\ \A i \in DOMAIN frontier : Crawler!BloomHas(bloomBits, frontier[i][1]) /\ ~Asked(frontier[i][1])
  /\ \A j \in DOMAIN requests : Crawler!BloomHas(bloomBits, requests[j].url)
  /\ \A i, j \in DOMAIN frontier : i # j => frontier[i][1] # frontier[j][1]
  /\ Crawler!NeverTwice

Delayed ==
  /\ \A i \in DOMAIN requests :
       /\ requests[i].url.host \in DOMAIN lastAccess
       /\ requests[i].at <= lastAccess[requests[i].url.host]
  /\ Crawler!Polite

BreadthFirst ==
  /\ \A i, j \in DOMAIN frontier :
       /\ i < j => frontier[i][2] <= frontier[j][2]
       /\ frontier[j][2] <= frontier[i][2] + 1
  /\ \A u \in DOMAIN crawled, i \in DOMAIN frontier :
       /\ crawled[u] <= frontier[i][2]
       /\ frontier[i][1] \in Crawler!Linked(u) => frontier[i][2] <= crawled[u] + 1
  /\ \A u \in DOMAIN crawled : \A v \in Crawler!Linked(u) : Crawler!BloomHas(bloomBits, v)
  /\ Crawler!ShortestPaths

Excused(u, v) == Waiting(v) \/ Gone(v) \/ crawled[u] + 1 > MaxDepth \/ Mistaken(v)

Accounted ==
  /\ \A i \in DOMAIN frontier : frontier[i][1] \in Known
  /\ bloomBits \subseteq Crawler!BloomFilter(SettledUrls)
  /\ \A u \in DOMAIN crawled : \A v \in Crawler!Linked(u) : Excused(u, v)

Obeyed == Crawler!WithinLimits /\ Crawler!AllowedOnly

CrawlInv == CrawlShape /\ FilterKnows /\ Delayed /\ Obeyed /\ BreadthFirst /\ Accounted

LEMMA FilterOf ==
    ASSUME NEW urlSet, NEW p
    PROVE  p \in Crawler!BloomFilter(urlSet) <=> \E u \in urlSet : p \in HashPositions(u)
  BY DEF Crawler!BloomFilter

LEMMA FilterOfMore ==
    ASSUME NEW few, NEW more, NEW v, few \subseteq more, Crawler!BloomHas(Crawler!BloomFilter(few), v)
    PROVE  Crawler!BloomHas(Crawler!BloomFilter(more), v)
  BY FilterOf DEF Crawler!BloomHas

LEMMA LinksTyped ==
    ASSUME CrawlerAssumed, NEW u \in Crawler!CrawlUrl
    PROVE  /\ Crawler!ExtractLinks(u) \in Seq(Crawler!CrawlUrl)
           /\ \A l \in Crawler!CrawlUrl : Crawler!Normalize(l) \in Crawler!CrawlUrl
  <1>1. Crawler!MockLinks(u) \in Seq(Crawler!CrawlUrl)
    <2>1. u.host \in STRING /\ u.path \in STRING /\ u.page \in Nat
      BY DEF Crawler!CrawlUrl
    <2>2. \A p \in STRING, n \in Nat : Crawler!Url(u.host, p, n) \in Crawler!CrawlUrl
      BY <2>1 DEF Crawler!Url, Crawler!CrawlUrl
    <2>3. ASSUME NEW s \in Seq(STRING)
          PROVE  [i \in DOMAIN s |-> Crawler!Url(u.host, s[i], 0)] \in Seq(Crawler!CrawlUrl)
      <3>1. DOMAIN s = 1..Len(s) /\ Len(s) \in Nat /\ \A i \in 1..Len(s) : s[i] \in STRING
        OBVIOUS
      <3>2. \A i \in 1..Len(s) : Crawler!Url(u.host, s[i], 0) \in Crawler!CrawlUrl
        BY <2>2, <3>1
      <3> QED
        BY <3>1, <3>2
    <2>4. IndexLinks \in Seq(STRING) /\ \A p \in DOMAIN PageLinks : PageLinks[p] \in Seq(STRING)
      BY DEF CrawlerAssumed
    <2>5. u.page + 1 \in Nat /\ u.page + 2 \in Nat
      BY <2>1
    <2>6. <<Crawler!Url(u.host, u.path, u.page + 1), Crawler!Url(u.host, u.path, u.page + 2)>>
            \in Seq(Crawler!CrawlUrl)
      <3>1. /\ Crawler!Url(u.host, u.path, u.page + 1) \in Crawler!CrawlUrl
            /\ Crawler!Url(u.host, u.path, u.page + 2) \in Crawler!CrawlUrl
        BY <2>1, <2>2, <2>5
      <3> QED
        BY <3>1
    <2>7. CASE u.path = "index"
      BY <2>3, <2>4, <2>7 DEF Crawler!MockLinks
    <2>8. CASE u.path # "index" /\ u.path \in DOMAIN PageLinks /\ u.path # "trap"
      BY <2>3, <2>4, <2>8 DEF Crawler!MockLinks
    <2>9. CASE u.path # "index" /\ u.path \notin DOMAIN PageLinks /\ u.path = "trap"
      BY <2>6, <2>9 DEF Crawler!MockLinks
    <2>10. CASE u.path # "index" /\ u.path \notin DOMAIN PageLinks /\ u.path # "trap"
      BY <2>10 DEF Crawler!MockLinks
    <2>11. CASE u.path = "trap" /\ u.path \in DOMAIN PageLinks
      BY <2>3, <2>4, <2>6, <2>11 DEF Crawler!MockLinks
    <2> QED
      BY <2>7, <2>8, <2>9, <2>10, <2>11
  <1>2. (IF <<u.host, u.path>> \in DOMAIN OutLinks THEN OutLinks[<<u.host, u.path>>] ELSE <<>>)
          \in Seq(Crawler!CrawlUrl)
    BY DEF CrawlerAssumed
  <1>3. \A l \in Crawler!CrawlUrl : Crawler!Normalize(l) \in Crawler!CrawlUrl
    BY DEF Crawler!Normalize, Crawler!CrawlUrl
  <1> QED
    BY <1>1, <1>2, <1>3 DEF Crawler!ExtractLinks

(***************************************************************************)
(* What the links of a page leave, n of them taken: a are the filter and   *)
(* the queue, m the items that were in the queue before.                   *)
(***************************************************************************)
LinkAt(u, n) == Crawler!Normalize(Crawler!ExtractLinks(u)[n])

LinksTaken(a, n, u, d, q, b) ==
  LET m == Len(q) IN
  /\ a.queue \in Seq(Crawler!CrawlUrl \X Nat) /\ Len(a.queue) >= m
  /\ \A i \in 1..m : a.queue[i] = q[i]
  /\ \A i \in m + 1..Len(a.queue) :
       /\ a.queue[i][2] = d + 1 /\ a.queue[i][1] \in Crawler!Linked(u)
       /\ ~Crawler!BloomHas(b, a.queue[i][1]) /\ Crawler!BloomHas(a.bits, a.queue[i][1])
  /\ \A i, j \in m + 1..Len(a.queue) : i # j => a.queue[i][1] # a.queue[j][1]
  /\ b \subseteq a.bits
  /\ \A p \in a.bits : p \in b \/ \E i \in m + 1..Len(a.queue) : p \in HashPositions(a.queue[i][1])
  /\ \A i \in 1..n : Crawler!BloomHas(a.bits, LinkAt(u, i))

LEMMA TakeLink ==
    ASSUME CrawlerAssumed, NEW u \in Crawler!CrawlUrl, NEW d \in Nat, NEW q \in Seq(Crawler!CrawlUrl \X Nat), NEW b,
           NEW a, NEW n \in Nat, n + 1 \in DOMAIN Crawler!ExtractLinks(u), LinksTaken(a, n, u, d, q, b)
    PROVE  LinksTaken(Crawler!EnqueueLink(a, <<Crawler!ExtractLinks(u)[n + 1], d + 1>>), n + 1, u, d, q, b)
  <1> DEFINE v == LinkAt(u, n + 1)
             m == Len(q)
             k == Len(a.queue)
             c == Crawler!EnqueueLink(a, <<Crawler!ExtractLinks(u)[n + 1], d + 1>>)
  <1>1. v \in Crawler!CrawlUrl /\ v \in Crawler!Linked(u)
    BY LinksTyped DEF LinkAt, Crawler!Linked
  <1>2. c = IF Crawler!BloomHas(a.bits, v) THEN a
            ELSE [bits |-> a.bits \cup HashPositions(v), queue |-> Append(a.queue, <<v, d + 1>>)]
    BY DEF Crawler!EnqueueLink, LinkAt, Crawler!BloomAdd
  <1>3. /\ a.queue \in Seq(Crawler!CrawlUrl \X Nat) /\ k >= m /\ m \in Nat /\ k \in Nat
        /\ \A i \in 1..m : a.queue[i] = q[i]
        /\ \A i \in m + 1..k :
             /\ a.queue[i][2] = d + 1 /\ a.queue[i][1] \in Crawler!Linked(u)
             /\ ~Crawler!BloomHas(b, a.queue[i][1]) /\ Crawler!BloomHas(a.bits, a.queue[i][1])
        /\ \A i, j \in m + 1..k : i # j => a.queue[i][1] # a.queue[j][1]
        /\ b \subseteq a.bits
        /\ \A p \in a.bits : p \in b \/ \E i \in m + 1..k : p \in HashPositions(a.queue[i][1])
        /\ \A i \in 1..n : Crawler!BloomHas(a.bits, LinkAt(u, i))
    BY DEF LinksTaken
  <1> HIDE DEF v, c, m, k
  <1>4. CASE Crawler!BloomHas(a.bits, v)
    <2>1. c = a
      BY <1>2, <1>4
    <2>2. \A i \in 1..n + 1 : Crawler!BloomHas(a.bits, LinkAt(u, i))
      BY <1>3, <1>4 DEF v
    <2> QED
      BY <1>3, <2>1, <2>2 DEF LinksTaken, c, m, k
  <1>5. CASE ~Crawler!BloomHas(a.bits, v)
    <2>1. c.bits = a.bits \cup HashPositions(v) /\ c.queue = Append(a.queue, <<v, d + 1>>)
      BY <1>2, <1>5
    <2>2. /\ c.queue \in Seq(Crawler!CrawlUrl \X Nat) /\ Len(c.queue) = k + 1
          /\ \A i \in 1..k : c.queue[i] = a.queue[i]
          /\ c.queue[k + 1] = <<v, d + 1>>
      <3>1. <<v, d + 1>> \in Crawler!CrawlUrl \X Nat
        BY <1>1
      <3> QED
        BY <1>3, <2>1, <3>1 DEF k
    <2>3. c.queue[k + 1][1] = v /\ c.queue[k + 1][2] = d + 1
      BY <2>2
    <2>4. ASSUME NEW i \in m + 1..k + 1
          PROVE  /\ c.queue[i][2] = d + 1 /\ c.queue[i][1] \in Crawler!Linked(u)
                 /\ ~Crawler!BloomHas(b, c.queue[i][1]) /\ Crawler!BloomHas(c.bits, c.queue[i][1])
      <3>1. CASE i = k + 1
        BY <1>1, <1>3, <1>5, <2>1, <2>3, <3>1 DEF Crawler!BloomHas
      <3>2. CASE i # k + 1
        <4>1. i \in m + 1..k /\ c.queue[i] = a.queue[i]
          BY <1>3, <2>2, <3>2
        <4> QED
          BY <1>3, <2>1, <4>1 DEF Crawler!BloomHas
      <3> QED
        BY <3>1, <3>2
    <2>5. ASSUME NEW i \in m + 1..k + 1, NEW j \in m + 1..k + 1, i # j
          PROVE  c.queue[i][1] # c.queue[j][1]
      <3>1. ASSUME NEW l \in m + 1..k + 1, l # k + 1
            PROVE  /\ l \in m + 1..k /\ c.queue[l] = a.queue[l]
                   /\ Crawler!BloomHas(a.bits, c.queue[l][1]) /\ c.queue[l][1] # v
        <4>0. m \in Nat /\ k \in Nat
          BY <1>3
        <4>1. l \in m + 1..k /\ l \in 1..k
          BY <3>1, <4>0
        <4>2. c.queue[l] = a.queue[l]
          BY <2>2, <4>1
        <4> QED
          BY <1>3, <1>5, <4>1, <4>2
      <3>2. CASE i # k + 1 /\ j # k + 1
        <4>1. i \in m + 1..k /\ j \in m + 1..k /\ c.queue[i] = a.queue[i] /\ c.queue[j] = a.queue[j]
          BY <3>1, <3>2
        <4>2. a.queue[i][1] # a.queue[j][1]
          BY <1>3, <2>5, <4>1
        <4> QED
          BY <4>1, <4>2
      <3>3. CASE i = k + 1 \/ j = k + 1
        BY <2>3, <2>5, <3>1, <3>3
      <3> QED
        BY <3>2, <3>3
    <2>6. ASSUME NEW p \in c.bits
          PROVE  p \in b \/ \E i \in m + 1..k + 1 : p \in HashPositions(c.queue[i][1])
      <3>1. CASE p \in HashPositions(v)
        <4>1. k + 1 \in m + 1..k + 1
          BY <1>3
        <4> QED
          BY <2>3, <3>1, <4>1
      <3>2. CASE p \in a.bits
        <4>1. \A i \in m + 1..k : i \in m + 1..k + 1 /\ c.queue[i] = a.queue[i]
          BY <1>3, <2>2
        <4> QED
          BY <1>3, <3>2, <4>1
      <3> QED
        BY <2>1, <3>1, <3>2
    <2>7. ASSUME NEW i \in 1..n + 1
          PROVE  Crawler!BloomHas(c.bits, LinkAt(u, i))
      <3>1. CASE i = n + 1
        BY <2>1, <3>1 DEF Crawler!BloomHas, v
      <3>2. CASE i # n + 1
        <4>1. i \in 1..n
          BY <3>2
        <4> QED
          BY <1>3, <2>1, <4>1 DEF Crawler!BloomHas
      <3> QED
        BY <3>1, <3>2
    <2>8. /\ b \subseteq c.bits /\ k + 1 >= m
          /\ \A i \in 1..m : c.queue[i] = q[i]
      BY <1>3, <2>1, <2>2
    <2>9. k + 1 = Len(c.queue)
      BY <2>2
    <2> HIDE DEF LinkAt
    <2> QED
      BY <2>2, <2>4, <2>5, <2>6, <2>7, <2>8, <2>9, Zenon DEF LinksTaken, c, m
  <1> QED
    BY <1>4, <1>5

LEMMA EnqueueAll ==
    ASSUME CrawlerAssumed, NEW u \in Crawler!CrawlUrl, NEW d \in Nat,
           frontier \in Seq(Crawler!CrawlUrl \X Nat), frontier # <<>>, Crawler!EnqueueLinks(u, d)
    PROVE  LinksTaken([bits |-> bloomBits', queue |-> frontier'], Len(Crawler!ExtractLinks(u)), u, d,
                      Tail(frontier), bloomBits)
  <1> DEFINE links == Crawler!ExtractLinks(u)
             N == Len(links)
             q == Tail(frontier)
             start == [bits |-> bloomBits, queue |-> q]
             Step(g, n) == IF n = 0 THEN start ELSE Crawler!EnqueueLink(g[n - 1], <<links[n], d + 1>>)
             acc == CHOOSE g : g = [n \in 0..N |-> Step(g, n)]
             To(g, n) == \A i \in 0..n : g[i] = Step(g, i)
             K == {n \in Nat : n <= N => \E g : To(g, n)}
             L == {n \in Nat : n <= N => LinksTaken(acc[n], n, u, d, q, bloomBits)}
  <1>1. links \in Seq(Crawler!CrawlUrl) /\ N \in Nat /\ DOMAIN links = 1..N
    BY LinksTyped
  <1>2. bloomBits' = acc[N].bits /\ frontier' = acc[N].queue
    BY DEF Crawler!EnqueueLinks
  <1>3. q \in Seq(Crawler!CrawlUrl \X Nat)
    OBVIOUS
  <1> HIDE DEF links, N, q
  <1>4. K = Nat
    <2>1. 0 \in K
      <3> DEFINE g == [i \in {0} |-> start]
      <3>1. g[0] = start
        OBVIOUS
      <3> HIDE DEF g
      <3>2. To(g, 0)
        BY <3>1
      <3> QED
        BY <3>2
    <2>2. ASSUME NEW n \in K
          PROVE  n + 1 \in K
      <3>1. CASE n + 1 <= N
        <4>1. n \in Nat /\ n <= N
          BY <1>1, <3>1
        <4>2. PICK g : To(g, n)
          BY <4>1
        <4> DEFINE x == Crawler!EnqueueLink(g[n], <<links[n + 1], d + 1>>)
                   h == [i \in 0..n + 1 |-> IF i = n + 1 THEN x ELSE g[i]]
        <4>3. \A i \in 0..n : h[i] = g[i]
          BY <4>1
        <4>4. h[n + 1] = x /\ h[n] = g[n]
          BY <4>1
        <4> HIDE DEF h
        <4>5. ASSUME NEW i \in 0..n + 1
              PROVE  h[i] = Step(h, i)
          <5>1. CASE i = n + 1
            BY <4>1, <4>4, <5>1
          <5>2. CASE i # n + 1
            <6>1. i \in 0..n /\ (i # 0 => i - 1 \in 0..n)
              BY <4>1, <5>2
            <6>2. g[i] = Step(g, i)
              BY <4>2, <6>1
            <6>3. h[i] = g[i] /\ (i # 0 => h[i - 1] = g[i - 1])
              BY <4>3, <6>1
            <6> QED
              BY <6>2, <6>3
          <5> QED
            BY <5>1, <5>2
        <4>6. To(h, n + 1)
          BY <4>5
        <4> HIDE DEF To
        <4> QED
          BY <4>1, <4>6
      <3>2. CASE ~(n + 1 <= N)
        <4> HIDE DEF To
        <4> QED
          BY <3>2
      <3> QED
        BY <3>1, <3>2
    <2> HIDE DEF K
    <2>3. K \in SUBSET Nat
      BY DEF K
    <2> QED
      BY <2>1, <2>2, <2>3, NatBySets
  <1>5. acc = [n \in 0..N |-> Step(acc, n)]
    <2>1. PICK g : To(g, N)
      <3> HIDE DEF To
      <3>1. N \in K /\ N <= N
        <4> HIDE DEF K
        <4> QED
          BY <1>1, <1>4
      <3> QED
        BY <3>1
    <2> DEFINE h == [n \in 0..N |-> g[n]]
    <2>2. \A n \in 0..N : h[n] = g[n]
      OBVIOUS
    <2>3. \A n \in 0..N : h[n] = Step(h, n)
      <3>1. \A n \in 0..N : n # 0 => n - 1 \in 0..N
        BY <1>1
      <3> QED
        BY <2>1, <2>2, <3>1
    <2>4. h = [n \in 0..N |-> h[n]]
      OBVIOUS
    <2> HIDE DEF h, Step
    <2>5. h = [n \in 0..N |-> Step(h, n)]
      BY <2>3, <2>4
    <2> QED
      BY <2>5
  <1> HIDE DEF acc
  <1>6. \A n \in 0..N : acc[n] = Step(acc, n)
    <2> HIDE DEF Step
    <2> QED
      BY <1>5
  <1>7. L = Nat
    <2>1. 0 \in L
      <3>1. acc[0] = start
        <4>1. 0 \in 0..N
          BY <1>1
        <4>2. acc[0] = Step(acc, 0)
          <5> HIDE DEF Step
          <5> QED
            BY <1>6, <4>1
        <4> HIDE DEF start
        <4> QED
          BY <4>2
      <3>2. start.bits = bloomBits /\ start.queue = q
        OBVIOUS
      <3> HIDE DEF start
      <3>3. LinksTaken(start, 0, u, d, q, bloomBits)
        BY <1>3, <3>2 DEF LinksTaken
      <3> QED
        BY <3>1, <3>3
    <2>2. ASSUME NEW n \in L
          PROVE  n + 1 \in L
      <3>1. CASE n + 1 <= N
        <4>1. n \in Nat /\ n <= N /\ n + 1 \in DOMAIN links /\ n + 1 \in 0..N /\ (n + 1) - 1 = n /\ n + 1 # 0
          BY <1>1, <3>1
        <4>2. acc[n + 1] = Crawler!EnqueueLink(acc[n], <<links[n + 1], d + 1>>)
          BY <1>6, <4>1
        <4>3. LinksTaken(acc[n], n, u, d, q, bloomBits)
          BY <4>1
        <4>4. LinksTaken(acc[n + 1], n + 1, u, d, q, bloomBits)
          BY <1>3, <4>1, <4>2, <4>3, TakeLink DEF links
        <4> QED
          BY <4>1, <4>4
      <3>2. CASE ~(n + 1 <= N)
        BY <3>2
      <3> QED
        BY <3>1, <3>2
    <2> HIDE DEF L
    <2>3. L \in SUBSET Nat
      BY DEF L
    <2> QED
      BY <2>1, <2>2, <2>3, NatBySets
  <1>8. LinksTaken(acc[N], N, u, d, q, bloomBits)
    <2>1. N \in L /\ N <= N
      BY <1>1, <1>7
    <2> QED
      BY <2>1
  <1>9. LinksTaken([bits |-> acc[N].bits, queue |-> acc[N].queue], N, u, d, q, bloomBits)
    BY <1>8 DEF LinksTaken
  <1> QED
    BY <1>2, <1>9 DEF links, N, q

(***************************************************************************)
(* One iteration: the head of the frontier is taken, and what is appended  *)
(* is one deeper and was not in the filter.  Its URL was dropped, or       *)
(* requested; and if the page was saved, its links are in the filter.      *)
(***************************************************************************)
Fresh == Len(frontier)..Len(frontier')

AskedNext(v) == \E j \in DOMAIN requests' : requests'[j].url = v
WaitingNext(v) == \E i \in DOMAIN frontier' : frontier'[i][1] = v

Moved(u, d) ==
  /\ frontier # <<>> /\ u = frontier[1][1] /\ d = frontier[1][2]
  /\ frontier' \in Seq(Crawler!CrawlUrl \X (0..(MaxDepth + 1))) /\ Len(frontier') >= Len(frontier) - 1
  /\ \A i \in 1..Len(frontier) - 1 : frontier'[i] = frontier[i + 1]
  /\ \A i \in Fresh :
       /\ frontier'[i][2] = d + 1 /\ frontier'[i][1] \in Crawler!Linked(u)
       /\ ~Crawler!BloomHas(bloomBits, frontier'[i][1]) /\ Crawler!BloomHas(bloomBits', frontier'[i][1])
  /\ \A i, j \in Fresh : i # j => frontier'[i][1] # frontier'[j][1]
  /\ bloomBits \subseteq bloomBits'
  /\ \A p \in bloomBits' : p \in bloomBits \/ \E i \in Fresh : p \in HashPositions(frontier'[i][1])
  /\ seedUrls' = seedUrls

Dropped(u, d) ==
  /\ Fresh = {} /\ requests' = requests /\ crawled' = crawled
  /\ d > MaxDepth \/ Crawler!IsTrap(u) \/ u.path \in Crawler!MockRules.disallow

Requested(u, d) ==
  /\ d <= MaxDepth
  /\ \E r \in PageRequestSet : r.url = u /\ requests' = Append(requests, r)

Forgotten == Fresh = {} /\ crawled' = crawled

Saved(u, d) ==
  /\ crawled' = Crawler!DictSet(crawled, u, d)
  /\ \A v \in Crawler!Linked(u) : Crawler!BloomHas(bloomBits', v)

Iteration(u, d) == Moved(u, d) /\ (Dropped(u, d) \/ (Requested(u, d) /\ (Forgotten \/ Saved(u, d))))

LEMMA HeadTyped ==
    ASSUME CrawlerAssumed, CrawlShape, frontier # <<>>
    PROVE  /\ Len(frontier) \in Nat /\ Len(frontier) >= 1 /\ DOMAIN frontier = 1..Len(frontier)
           /\ 1 \in DOMAIN frontier
           /\ frontier[1][1] \in Crawler!CrawlUrl /\ frontier[1][2] \in 0..(MaxDepth + 1)
           /\ Head(frontier) = frontier[1]
           /\ Tail(frontier) \in Seq(Crawler!CrawlUrl \X (0..(MaxDepth + 1)))
           /\ Len(Tail(frontier)) = Len(frontier) - 1
           /\ \A i \in 1..Len(frontier) - 1 : Tail(frontier)[i] = frontier[i + 1]
  <1> DEFINE set == Crawler!CrawlUrl \X (0..(MaxDepth + 1))
  <1>1. frontier \in Seq(set)
    BY DEF CrawlShape
  <1> HIDE DEF set
  <1>2. /\ Len(frontier) \in Nat /\ Len(frontier) >= 1 /\ DOMAIN frontier = 1..Len(frontier)
        /\ 1 \in DOMAIN frontier /\ frontier[1] \in set
        /\ Head(frontier) = frontier[1] /\ Tail(frontier) \in Seq(set)
        /\ Len(Tail(frontier)) = Len(frontier) - 1
        /\ \A i \in 1..Len(frontier) - 1 : Tail(frontier)[i] = frontier[i + 1]
    BY <1>1
  <1> QED
    BY <1>2 DEF set

\* An item of the new frontier was the next one of the old, or is fresh.
LEMMA ItemsMove ==
    ASSUME CrawlerAssumed, CrawlShape, NEW u, NEW d, Moved(u, d)
    PROVE  /\ DOMAIN frontier' = 1..Len(frontier') /\ Len(frontier') \in Nat
           /\ \A i \in DOMAIN frontier' :
                \/ i + 1 \in DOMAIN frontier /\ i + 1 # 1 /\ frontier'[i] = frontier[i + 1] /\ i < Len(frontier)
                \/ i \in Fresh /\ i >= Len(frontier)
           /\ \A i \in DOMAIN frontier : i = 1 \/ (i - 1 \in DOMAIN frontier' /\ frontier'[i - 1] = frontier[i])
           /\ Fresh \subseteq DOMAIN frontier'
           /\ \A i \in DOMAIN frontier' : i \in Int
  <1>1. Len(frontier) \in Nat /\ Len(frontier) >= 1 /\ DOMAIN frontier = 1..Len(frontier)
    BY HeadTyped DEF Moved
  <1>2. /\ DOMAIN frontier' = 1..Len(frontier') /\ Len(frontier') \in Nat
        /\ Len(frontier') >= Len(frontier) - 1
        /\ \A i \in 1..Len(frontier) - 1 : frontier'[i] = frontier[i + 1]
    BY DEF Moved
  <1>3. ASSUME NEW i \in DOMAIN frontier'
        PROVE  \/ i + 1 \in DOMAIN frontier /\ i + 1 # 1 /\ frontier'[i] = frontier[i + 1] /\ i < Len(frontier)
               \/ i \in Fresh /\ i >= Len(frontier)
    <2>1. CASE i < Len(frontier)
      <3>1. i \in 1..Len(frontier) - 1 /\ i + 1 \in DOMAIN frontier /\ i + 1 # 1
        BY <1>1, <1>2, <2>1
      <3> QED
        BY <1>2, <2>1, <3>1
    <2>2. CASE ~(i < Len(frontier))
      BY <1>1, <1>2, <2>2 DEF Fresh
    <2> QED
      BY <2>1, <2>2
  <1>4. ASSUME NEW i \in DOMAIN frontier, i # 1
        PROVE  i - 1 \in DOMAIN frontier' /\ frontier'[i - 1] = frontier[i]
    <2>1. i - 1 \in 1..Len(frontier) - 1 /\ i - 1 \in DOMAIN frontier' /\ (i - 1) + 1 = i
      BY <1>1, <1>2, <1>4
    <2> QED
      BY <1>2, <2>1
  <1>5. Fresh \subseteq DOMAIN frontier'
    BY <1>1, <1>2 DEF Fresh
  <1> QED
    BY <1>2, <1>3, <1>4, <1>5

LEMMA AskedAfter ==
    ASSUME CrawlShape, NEW u, NEW d, Iteration(u, d)
    PROVE  /\ \A v : Asked(v) => AskedNext(v)
           /\ \A v : AskedNext(v) => Asked(v) \/ (Requested(u, d) /\ v = u)
           /\ Requested(u, d) => AskedNext(u)
  <1>1. CASE requests' = requests
    <2>1. ~Requested(u, d)
      <3>1. requests \in Seq(PageRequestSet)
        BY DEF CrawlShape
      <3>2. \A r \in PageRequestSet : Len(Append(requests, r)) = Len(requests) + 1 /\ Len(requests) \in Nat
        BY <3>1
      <3> QED
        BY <1>1, <3>2 DEF Requested
    <2> QED
      BY <1>1, <2>1 DEF Asked, AskedNext
  <1>2. CASE Requested(u, d)
    <2>1. PICK r \in PageRequestSet : r.url = u /\ requests' = Append(requests, r)
      BY <1>2 DEF Requested
    <2>2. /\ DOMAIN requests = 1..Len(requests) /\ DOMAIN requests' = 1..Len(requests) + 1
          /\ Len(requests) \in Nat /\ requests'[Len(requests) + 1] = r
          /\ \A j \in 1..Len(requests) : requests'[j] = requests[j]
      BY <2>1 DEF CrawlShape
    <2>3. Len(requests) + 1 \in DOMAIN requests' /\ DOMAIN requests \subseteq DOMAIN requests'
          /\ \A j \in DOMAIN requests' : j \in DOMAIN requests \/ j = Len(requests) + 1
      BY <2>2
    <2> QED
      BY <1>2, <2>1, <2>2, <2>3 DEF Asked, AskedNext
  <1> QED
    BY <1>1, <1>2 DEF Iteration, Dropped

LEMMA FilterStep ==
    ASSUME CrawlerAssumed, CrawlShape, FilterKnows, NEW u, NEW d, Iteration(u, d)
    PROVE  FilterKnows'
  <1>0. Moved(u, d)
    BY DEF Iteration
  <1>1. /\ u = frontier[1][1] /\ 1 \in DOMAIN frontier /\ bloomBits \subseteq bloomBits'
        /\ \A i \in Fresh : ~Crawler!BloomHas(bloomBits, frontier'[i][1]) /\ Crawler!BloomHas(bloomBits', frontier'[i][1])
        /\ \A i, j \in Fresh : i # j => frontier'[i][1] # frontier'[j][1]
    BY <1>0, HeadTyped DEF Moved
  <1>2. /\ \A i \in DOMAIN frontier : Crawler!BloomHas(bloomBits, frontier[i][1]) /\ ~Asked(frontier[i][1])
        /\ \A v : Asked(v) => Crawler!BloomHas(bloomBits, v)
        /\ \A i, j \in DOMAIN frontier : i # j => frontier[i][1] # frontier[j][1]
    BY DEF FilterKnows, Asked
  <1>3. \A v : Crawler!BloomHas(bloomBits, v) => Crawler!BloomHas(bloomBits', v)
    BY <1>1 DEF Crawler!BloomHas
  <1>4. \A i \in DOMAIN frontier' : Crawler!BloomHas(bloomBits', frontier'[i][1])
    BY <1>0, <1>1, <1>2, <1>3, ItemsMove
  <1>5. ASSUME NEW i \in DOMAIN frontier'
        PROVE  ~AskedNext(frontier'[i][1])
    <2>1. ~Asked(frontier'[i][1]) /\ frontier'[i][1] # u
      <3>1. CASE i + 1 \in DOMAIN frontier /\ i + 1 # 1 /\ frontier'[i] = frontier[i + 1]
        BY <1>1, <1>2, <3>1
      <3>2. CASE i \in Fresh
        BY <1>1, <1>2, <3>2
      <3> QED
        BY <1>0, <3>1, <3>2, ItemsMove
    <2> QED
      BY <2>1, AskedAfter
  <1>6. ASSUME NEW j \in DOMAIN requests'
        PROVE  Crawler!BloomHas(bloomBits', requests'[j].url)
    <2>1. AskedNext(requests'[j].url)
      BY DEF AskedNext
    <2>2. Asked(requests'[j].url) \/ requests'[j].url = u
      BY <2>1, AskedAfter
    <2> QED
      BY <1>1, <1>2, <1>3, <2>2
  <1>7. ASSUME NEW i \in DOMAIN frontier', NEW j \in DOMAIN frontier', i # j
        PROVE  frontier'[i][1] # frontier'[j][1]
    <2>1. \A k \in DOMAIN frontier' :
            \/ /\ k + 1 \in DOMAIN frontier /\ frontier'[k] = frontier[k + 1]
               /\ Crawler!BloomHas(bloomBits, frontier'[k][1])
            \/ k \in Fresh /\ ~Crawler!BloomHas(bloomBits, frontier'[k][1])
      BY <1>0, <1>1, <1>2, ItemsMove
    <2>2. CASE /\ i + 1 \in DOMAIN frontier /\ frontier'[i] = frontier[i + 1]
               /\ j + 1 \in DOMAIN frontier /\ frontier'[j] = frontier[j + 1]
      <3>1. i + 1 # j + 1
        BY <1>0, <1>7, ItemsMove
      <3> QED
        BY <1>2, <2>2, <3>1
    <2> QED
      BY <1>1, <1>7, <2>1, <2>2
  <1>8. Crawler!NeverTwice'
    <2>1. ~Asked(u) /\ Crawler!NeverTwice
      BY <1>1, <1>2 DEF FilterKnows
    <2>2. CASE requests' = requests
      BY <2>1, <2>2 DEF Crawler!NeverTwice
    <2>3. CASE Requested(u, d)
      <3>1. PICK r \in PageRequestSet : r.url = u /\ requests' = Append(requests, r)
        BY <2>3 DEF Requested
      <3>2. /\ DOMAIN requests = 1..Len(requests) /\ DOMAIN requests' = 1..Len(requests) + 1
            /\ Len(requests) \in Nat /\ requests'[Len(requests) + 1] = r
            /\ \A j \in 1..Len(requests) : requests'[j] = requests[j]
        BY <3>1 DEF CrawlShape
      <3>3. \A j \in DOMAIN requests' :
              (j \in DOMAIN requests /\ requests'[j] = requests[j] /\ requests'[j].url # u)
              \/ (j = Len(requests) + 1 /\ requests'[j].url = u)
        BY <2>1, <3>1, <3>2 DEF Asked
      <3> QED
        BY <2>1, <3>3 DEF Crawler!NeverTwice
    <2> QED
      BY <2>2, <2>3 DEF Iteration, Dropped
  <1> QED
    BY <1>4, <1>5, <1>6, <1>7, <1>8 DEF FilterKnows, Asked, AskedNext

\* The page of an iteration was not saved before.
LEMMA SavedOnce ==
    ASSUME CrawlerAssumed, CrawlShape, FilterKnows, NEW u, NEW d, Iteration(u, d)
    PROVE  /\ u \notin DOMAIN crawled
           /\ \A x \in DOMAIN crawled : x \in DOMAIN crawled' /\ crawled'[x] = crawled[x]
           /\ \A x \in DOMAIN crawled' :
                x \in DOMAIN crawled \/ (x = u /\ crawled'[x] = d /\ Requested(u, d) /\ Saved(u, d))
           /\ Fresh = {} \/ (u \in DOMAIN crawled' /\ Requested(u, d) /\ Saved(u, d))
  <1>1. u \notin DOMAIN crawled
    <2>1. u = frontier[1][1] /\ 1 \in DOMAIN frontier
      BY HeadTyped DEF Iteration, Moved
    <2> QED
      BY <2>1 DEF FilterKnows, CrawlShape
  <1>2. CASE crawled' = crawled /\ Fresh = {}
    BY <1>1, <1>2
  <1>3. CASE Requested(u, d) /\ Saved(u, d)
    BY <1>1, <1>3 DEF Saved, Crawler!DictSet
  <1> QED
    BY <1>2, <1>3 DEF Iteration, Dropped, Forgotten

LEMMA BreadthStep ==
    ASSUME CrawlerAssumed, CrawlShape, FilterKnows, BreadthFirst, NEW u, NEW d, Iteration(u, d)
    PROVE  BreadthFirst'
  <1>0. Moved(u, d)
    BY DEF Iteration
  <1>1. /\ u = frontier[1][1] /\ d = frontier[1][2] /\ 1 \in DOMAIN frontier /\ bloomBits \subseteq bloomBits'
        /\ d \in Int /\ DOMAIN frontier = 1..Len(frontier) /\ Len(frontier) \in Nat
        /\ \A i \in Fresh : frontier'[i][2] = d + 1 /\ ~Crawler!BloomHas(bloomBits, frontier'[i][1])
    BY <1>0, HeadTyped DEF Moved
  <1>2. \A i \in DOMAIN frontier : frontier[i][2] \in Int /\ d <= frontier[i][2] /\ frontier[i][2] <= d + 1
    <2>1. \A i \in DOMAIN frontier : frontier[i] \in Crawler!CrawlUrl \X (0..(MaxDepth + 1))
      BY DEF CrawlShape
    <2>2. \A i \in DOMAIN frontier : frontier[i][2] \in Int
      BY <2>1
    <2>3. \A i \in DOMAIN frontier : i = 1 \/ 1 < i
      BY <1>1
    <2> QED
      BY <1>1, <2>2, <2>3 DEF BreadthFirst
  <1>3. \A i \in DOMAIN frontier' :
          /\ frontier'[i][2] \in Int /\ d <= frontier'[i][2] /\ frontier'[i][2] <= d + 1
          /\ i \in Fresh => frontier'[i][2] = d + 1
    <2>1. ASSUME NEW i \in DOMAIN frontier'
          PROVE  frontier'[i][2] \in Int /\ d <= frontier'[i][2] /\ frontier'[i][2] <= d + 1
      <3>1. CASE i + 1 \in DOMAIN frontier /\ frontier'[i] = frontier[i + 1]
        BY <1>2, <3>1
      <3>2. CASE i \in Fresh
        BY <1>1, <3>2
      <3> QED
        BY <1>0, <3>1, <3>2, ItemsMove
    <2> QED
      BY <1>1, <2>1
  <1>4. ASSUME NEW i \in DOMAIN frontier', NEW j \in DOMAIN frontier'
        PROVE  /\ i < j => frontier'[i][2] <= frontier'[j][2]
               /\ frontier'[j][2] <= frontier'[i][2] + 1
    <2>1. ASSUME i < j
          PROVE  frontier'[i][2] <= frontier'[j][2]
      <3>1. CASE j \in Fresh
        BY <1>1, <1>3, <3>1
      <3>2. CASE j + 1 \in DOMAIN frontier /\ frontier'[j] = frontier[j + 1] /\ j < Len(frontier)
        <4>1. i \in Int /\ j \in Int /\ i < Len(frontier)
          BY <1>0, <1>1, <2>1, <3>2, ItemsMove
        <4>2. i + 1 \in DOMAIN frontier /\ frontier'[i] = frontier[i + 1]
          BY <1>0, <1>1, <4>1, ItemsMove
        <4>3. i + 1 < j + 1
          BY <2>1, <4>1
        <4> QED
          BY <3>2, <4>2, <4>3 DEF BreadthFirst
      <3> QED
        BY <1>0, <3>1, <3>2, ItemsMove
    <2>2. frontier'[j][2] <= frontier'[i][2] + 1
      BY <1>1, <1>3
    <2> QED
      BY <2>1, <2>2
  <1>5. /\ \A x \in DOMAIN crawled, i \in DOMAIN frontier :
             /\ crawled[x] <= frontier[i][2]
             /\ frontier[i][1] \in Crawler!Linked(x) => frontier[i][2] <= crawled[x] + 1
        /\ \A x \in DOMAIN crawled : crawled[x] \in Int /\ crawled[x] <= d
        /\ \A x \in DOMAIN crawled : \A v \in Crawler!Linked(x) : Crawler!BloomHas(bloomBits, v)
        /\ \A x, v \in DOMAIN crawled : v \in Crawler!Linked(x) => crawled[v] <= crawled[x] + 1
    BY <1>1 DEF BreadthFirst, CrawlShape, Crawler!ShortestPaths
  <1>6. ASSUME NEW x \in DOMAIN crawled', NEW i \in DOMAIN frontier'
        PROVE  /\ crawled'[x] <= frontier'[i][2]
               /\ frontier'[i][1] \in Crawler!Linked(x) => frontier'[i][2] <= crawled'[x] + 1
    <2>1. CASE x \in DOMAIN crawled
      <3>1. crawled'[x] = crawled[x]
        BY <2>1, SavedOnce
      <3>2. crawled'[x] <= frontier'[i][2]
        BY <1>1, <1>3, <1>5, <2>1, <3>1
      <3>3. CASE i + 1 \in DOMAIN frontier /\ frontier'[i] = frontier[i + 1]
        BY <1>5, <2>1, <3>1, <3>2, <3>3
      <3>4. CASE i \in Fresh
        BY <1>1, <1>5, <2>1, <3>2, <3>4
      <3> QED
        BY <1>0, <3>3, <3>4, ItemsMove
    <2>2. CASE crawled'[x] = d
      BY <1>3, <2>2
    <2> QED
      BY <2>1, <2>2, SavedOnce
  <1>7. ASSUME NEW x \in DOMAIN crawled', NEW v \in Crawler!Linked(x)
        PROVE  Crawler!BloomHas(bloomBits', v)
    <2>1. CASE x \in DOMAIN crawled
      BY <1>1, <1>5, <2>1 DEF Crawler!BloomHas
    <2>2. CASE x = u /\ Saved(u, d)
      BY <2>2 DEF Saved
    <2> QED
      BY <2>1, <2>2, SavedOnce
  <1>8. ASSUME NEW x \in DOMAIN crawled', NEW v \in DOMAIN crawled', v \in Crawler!Linked(x)
        PROVE  crawled'[v] <= crawled'[x] + 1
    <2>1. \A y \in DOMAIN crawled' :
            (y \in DOMAIN crawled /\ crawled'[y] = crawled[y]) \/ (y = u /\ crawled'[y] = d)
      BY SavedOnce
    <2>2. CASE x \in DOMAIN crawled /\ v \in DOMAIN crawled
      BY <1>5, <1>8, <2>2, SavedOnce
    <2>3. CASE x \in DOMAIN crawled /\ crawled'[x] = crawled[x] /\ v = u /\ crawled'[v] = d
      BY <1>1, <1>5, <1>8, <2>3
    <2>4. CASE x = u /\ crawled'[x] = d
      BY <1>1, <1>5, <2>1, <2>4
    <2> QED
      BY <2>1, <2>2, <2>3, <2>4
  <1>9. Crawler!ShortestPaths'
    BY <1>8 DEF Crawler!ShortestPaths
  <1> QED
    BY <1>4, <1>6, <1>7, <1>9 DEF BreadthFirst

LEMMA AccountStep ==
    ASSUME CrawlerAssumed, CrawlShape, FilterKnows, BreadthFirst, Accounted, NEW u, NEW d, Iteration(u, d)
    PROVE  Accounted'
  <1>0. Moved(u, d)
    BY DEF Iteration
  <1>1. /\ u = frontier[1][1] /\ d = frontier[1][2] /\ 1 \in DOMAIN frontier /\ seedUrls' = seedUrls
        /\ d \in Int /\ MaxDepth \in Int
        /\ \A i \in Fresh : frontier'[i][1] \in Crawler!Linked(u)
        /\ \A p \in bloomBits' : p \in bloomBits \/ \E i \in Fresh : p \in HashPositions(frontier'[i][1])
    BY <1>0, HeadTyped DEF Moved, CrawlerAssumed
  <1>2. Known \subseteq Known'
    BY <1>1, SavedOnce DEF Known
  <1>3. \A i \in Fresh : frontier'[i][1] \in Known' /\ WaitingNext(frontier'[i][1])
    <2>1. ASSUME NEW i \in Fresh
          PROVE  u \in DOMAIN crawled' /\ i \in DOMAIN frontier' /\ frontier'[i][1] \in Crawler!Linked(u)
      BY <1>0, <1>1, SavedOnce, ItemsMove
    <2> QED
      BY <2>1 DEF Known, WaitingNext
  <1>4. \A v : Waiting(v) => v = u \/ WaitingNext(v)
    BY <1>0, <1>1, ItemsMove DEF Waiting, WaitingNext
  <1>5. Dropped(u, d) \/ Requested(u, d)
    BY DEF Iteration
  <1>6. \A v : Gone(v) => Gone(v)'
    BY AskedAfter DEF Gone, Asked, AskedNext
  <1>7. Gone(u)' \/ d > MaxDepth
    BY <1>5, AskedAfter DEF Dropped, Gone, Asked, AskedNext
  <1>8. d > MaxDepth => AllDeep'
    <2>1. ASSUME d > MaxDepth, NEW i \in DOMAIN frontier'
          PROVE  frontier'[i][2] > MaxDepth
      <3>1. Fresh = {}
        BY <1>1, <1>5, <2>1 DEF Dropped, Requested
      <3>2. i + 1 \in DOMAIN frontier /\ frontier'[i] = frontier[i + 1] /\ i + 1 # 1
        BY <1>0, <2>1, <3>1, ItemsMove
      <3>3. 1 < i + 1 /\ frontier[i + 1][2] \in Int
        <4>1. frontier[i + 1] \in Crawler!CrawlUrl \X (0..(MaxDepth + 1)) /\ i + 1 \in 1..Len(frontier)
          BY <3>2, HeadTyped DEF CrawlShape
        <4> QED
          BY <3>2, <4>1
      <3>4. d <= frontier[i + 1][2]
        BY <1>1, <3>2, <3>3 DEF BreadthFirst
      <3> QED
        BY <1>1, <2>1, <3>2, <3>3, <3>4
    <2> QED
      BY <2>1 DEF AllDeep
  <1>9. AllDeep => d > MaxDepth
    BY <1>1 DEF AllDeep
  <1>10. \A w \in SettledUrls : w \in Known' /\ Settled(w)'
    BY <1>2, <1>4, <1>6, <1>7, <1>8, <1>9 DEF SettledUrls, Settled, Waiting, WaitingNext
  <1>11. \A i \in DOMAIN frontier' : frontier'[i][1] \in Known'
    <2>1. ASSUME NEW i \in DOMAIN frontier'
          PROVE  frontier'[i][1] \in Known'
      <3>1. CASE i + 1 \in DOMAIN frontier /\ frontier'[i] = frontier[i + 1]
        BY <1>2, <3>1 DEF Accounted
      <3>2. CASE i \in Fresh
        BY <1>3, <3>2
      <3> QED
        BY <1>0, <3>1, <3>2, ItemsMove
    <2> QED
      BY <2>1
  <1>12. ASSUME NEW p \in bloomBits
         PROVE  \E w \in SettledUrls : p \in HashPositions(w)
    BY FilterOf DEF Accounted
  <1>13. bloomBits' \subseteq Crawler!BloomFilter(SettledUrls)'
    <2> DEFINE late == SettledUrls'
    <2>1. /\ \A w \in SettledUrls : w \in late
          /\ \A i \in Fresh : frontier'[i][1] \in late
      <3>1. \A w \in Known' : WaitingNext(w) => w \in late
        BY DEF SettledUrls, Settled, Waiting, WaitingNext
      <3>2. \A w \in SettledUrls : w \in late
        BY <1>10 DEF SettledUrls
      <3> HIDE DEF late
      <3> QED
        BY <1>3, <3>1, <3>2
    <2>2. Crawler!BloomFilter(SettledUrls)' = Crawler!BloomFilter(late)
      BY DEF Crawler!BloomFilter
    <2> HIDE DEF late
    <2>3. \A p \in bloomBits' : \E w \in late : p \in HashPositions(w)
      BY <1>1, <1>12, <2>1
    <2> QED
      BY <2>2, <2>3, FilterOf
  <1>14. ASSUME NEW v, Mistaken(v)
         PROVE  Mistaken(v)'
    <2> DEFINE few == Known \ {v}
               more == Known' \ {v}
    <2>1. few \subseteq more
      BY <1>2
    <2>2. Crawler!BloomHas(Crawler!BloomFilter(few), v)
      BY <1>14 DEF Mistaken
    <2>3. Crawler!BloomHas(Crawler!BloomFilter(more), v) => Mistaken(v)'
      BY DEF Mistaken, Crawler!BloomHas, Crawler!BloomFilter
    <2> HIDE DEF few, more
    <2> QED
      BY <2>1, <2>2, <2>3, FilterOfMore
  <1>15. ASSUME NEW x \in DOMAIN crawled, NEW v \in Crawler!Linked(x)
         PROVE  Excused(x, v)'
    <2>1. Excused(x, v) /\ crawled'[x] = crawled[x] /\ crawled[x] \in Int
      BY SavedOnce DEF Accounted, CrawlShape
    <2>2. CASE v = u
      <3>1. d <= crawled[x] + 1
        BY <1>1, <2>2 DEF BreadthFirst
      <3>2. Gone(v)' \/ crawled'[x] + 1 > MaxDepth
        BY <1>1, <1>7, <2>1, <2>2, <3>1
      <3> QED
        BY <3>2 DEF Excused
    <2>3. CASE v # u
      BY <1>4, <1>6, <1>14, <2>1, <2>3 DEF Excused, Waiting, WaitingNext
    <2> QED
      BY <2>2, <2>3
  <1>16. ASSUME Requested(u, d), Saved(u, d), NEW v \in Crawler!Linked(u)
         PROVE  Excused(u, v)'
    <2>1. ~AllDeep /\ Gone(u)'
      BY <1>1, <1>9, <1>16, AskedAfter DEF Requested, Gone, Asked, AskedNext
    <2>2. CASE v \in SettledUrls
      <3>1. Waiting(v) \/ Gone(v)
        BY <2>1, <2>2 DEF SettledUrls, Settled
      <3>2. Waiting(v)' \/ Gone(v)'
        BY <1>4, <1>6, <2>1, <3>1 DEF Waiting, WaitingNext
      <3> QED
        BY <3>2 DEF Excused
    <2>3. CASE \E i \in Fresh : frontier'[i][1] = v
      <3>1. Waiting(v)'
        BY <1>3, <2>3 DEF Waiting, WaitingNext
      <3> QED
        BY <3>1 DEF Excused
    <2>4. CASE v \notin SettledUrls /\ ~\E i \in Fresh : frontier'[i][1] = v
      <3> DEFINE more == Known' \ {v}
      <3>1. /\ \A w \in SettledUrls : w \in more
            /\ \A i \in Fresh : frontier'[i][1] \in more
        BY <1>3, <1>10, <2>4
      <3>2. Crawler!BloomHas(Crawler!BloomFilter(more), v) => Mistaken(v)'
        BY DEF Mistaken, Crawler!BloomHas, Crawler!BloomFilter
      <3> HIDE DEF more
      <3>3. HashPositions(v) \subseteq bloomBits'
        BY <1>16 DEF Saved, Crawler!BloomHas
      <3>4. \A p \in HashPositions(v) : \E w \in more : p \in HashPositions(w)
        BY <1>1, <1>12, <3>1, <3>3
      <3>5. Crawler!BloomHas(Crawler!BloomFilter(more), v)
        BY <3>4, FilterOf DEF Crawler!BloomHas
      <3> QED
        BY <3>2, <3>5 DEF Excused
    <2> QED
      BY <2>2, <2>3, <2>4
  <1>17. \A x \in DOMAIN crawled' : \A v \in Crawler!Linked(x) : Excused(x, v)'
    BY <1>15, <1>16, SavedOnce
  <1> QED
    BY <1>11, <1>13, <1>17 DEF Accounted

(***************************************************************************)
(* The actions of the crawler are such iterations.                         *)
(***************************************************************************)
Url1 == frontier[1][1]
Depth1 == frontier[1][2]

LEMMA PoppedIs ==
    ASSUME CrawlerAssumed, CrawlShape, frontier # <<>>, frontier' = Tail(frontier),
           UNCHANGED <<bloomBits, crawled, seedUrls>>
    PROVE  Moved(Url1, Depth1) /\ Fresh = {}
  <1>1. /\ Len(frontier) \in Nat /\ Len(frontier') = Len(frontier) - 1
        /\ frontier' \in Seq(Crawler!CrawlUrl \X (0..(MaxDepth + 1)))
        /\ \A i \in 1..Len(frontier) - 1 : frontier'[i] = frontier[i + 1]
    BY HeadTyped
  <1>2. Fresh = {}
    BY <1>1 DEF Fresh
  <1> QED
    BY <1>1, <1>2 DEF Moved, Url1, Depth1

LEMMA DropIsIteration ==
    ASSUME CrawlerAssumed, CrawlShape, Crawler!DropEarly \/ Crawler!DropDisallowed
    PROVE  /\ Iteration(Url1, Depth1)
           /\ UNCHANGED <<requests, crawled, lastAccess, crawlClock>>
           /\ UNCHANGED robotsRules \/ \E h, rules : rules \in {Crawler!MockRules, Crawler!NoRules} /\ Crawler!EnsureCached(h, rules)
  <1>1. /\ frontier # <<>> /\ frontier' = Tail(frontier)
        /\ UNCHANGED <<bloomBits, requests, crawled, seedUrls, lastAccess, crawlClock>>
    BY DEF Crawler!DropEarly, Crawler!DropDisallowed, Crawler!Running
  <1>2. Head(frontier)[1] = Url1 /\ Head(frontier)[2] = Depth1
    BY <1>1, HeadTyped DEF Url1, Depth1
  <1>3. Depth1 > MaxDepth \/ Crawler!IsTrap(Url1) \/ Url1.path \in Crawler!MockRules.disallow
    <2>1. CASE Crawler!DropEarly
      BY <1>2, <2>1 DEF Crawler!DropEarly
    <2>2. CASE Crawler!DropDisallowed
      BY <1>2, <2>2 DEF Crawler!DropDisallowed, Crawler!NoRules
    <2> QED
      BY <2>1, <2>2
  <1>4. UNCHANGED robotsRules \/ \E h, rules : rules \in {Crawler!MockRules, Crawler!NoRules} /\ Crawler!EnsureCached(h, rules)
    BY DEF Crawler!DropEarly, Crawler!DropDisallowed
  <1>5. Moved(Url1, Depth1) /\ Fresh = {}
    BY <1>1, PoppedIs
  <1> QED
    BY <1>1, <1>3, <1>4, <1>5 DEF Iteration, Dropped

LEMMA FetchIs ==
    ASSUME CrawlerAssumed, CrawlShape, Crawler!FetchPage
    PROVE  /\ frontier # <<>> /\ Depth1 <= MaxDepth /\ ~Crawler!IsTrap(Url1) /\ seedUrls' = seedUrls
           /\ Crawler!Fetched < MaxPages
           /\ \E rules \in {Crawler!MockRules, Crawler!NoRules} :
                Crawler!EnsureCached(Url1.host, rules) /\ Url1.path \notin rules.disallow
           /\ lastAccess' = Crawler!DictSet(lastAccess, Url1.host, Crawler!After(Url1.host))
           /\ \E took \in 0..1 : crawlClock' = Crawler!After(Url1.host) + took
           /\ \E ok \in BOOLEAN :
                /\ requests' = Append(requests, [url |-> Url1, depth |-> Depth1, at |-> Crawler!After(Url1.host), ok |-> ok])
                /\ IF ok THEN Crawler!SavePage(Url1, Depth1) /\ Crawler!EnqueueLinks(Url1, Depth1)
                         ELSE frontier' = Tail(frontier) /\ UNCHANGED <<crawled, bloomBits>>
  <1>1. frontier # <<>> /\ Crawler!Fetched < MaxPages
    BY DEF Crawler!FetchPage, Crawler!Running
  <1>2. Head(frontier)[1] = Url1 /\ Head(frontier)[2] = Depth1
    BY <1>1, HeadTyped DEF Url1, Depth1
  <1> QED
    BY <1>1, <1>2 DEF Crawler!FetchPage, Crawler!WaitIfNeeded

LEMMA AfterLast ==
    ASSUME CrawlerAssumed, CrawlShape, NEW h
    PROVE  /\ Crawler!After(h) \in Nat
           /\ h \in DOMAIN lastAccess => /\ Crawler!After(h) >= lastAccess[h] + PolitenessDelay
                                         /\ lastAccess[h] \in Nat
  <1>1. crawlClock \in Nat /\ PolitenessDelay \in Nat /\ (h \in DOMAIN lastAccess => lastAccess[h] \in Nat)
    BY DEF CrawlShape, CrawlerAssumed
  <1> QED
    BY <1>1 DEF Crawler!After, Crawler!LastAccess

LEMMA FetchIsIteration ==
    ASSUME CrawlerAssumed, CrawlShape, FilterKnows, Crawler!FetchPage
    PROVE  Iteration(Url1, Depth1) /\ Requested(Url1, Depth1)
  <1> DEFINE set == Crawler!CrawlUrl \X (0..(MaxDepth + 1))
  <1>1. frontier # <<>> /\ Depth1 <= MaxDepth /\ seedUrls' = seedUrls
    BY FetchIs
  <1>2. /\ Len(frontier) \in Nat /\ Len(frontier) >= 1 /\ Url1 \in Crawler!CrawlUrl /\ Depth1 \in Nat
        /\ 1 \in DOMAIN frontier /\ MaxDepth \in Nat
        /\ Tail(frontier) \in Seq(set) /\ Len(Tail(frontier)) = Len(frontier) - 1
        /\ \A i \in 1..Len(frontier) - 1 : Tail(frontier)[i] = frontier[i + 1]
    BY <1>1, HeadTyped DEF Url1, Depth1, CrawlerAssumed
  <1>3. PICK ok \in BOOLEAN :
          /\ requests' = Append(requests, [url |-> Url1, depth |-> Depth1, at |-> Crawler!After(Url1.host), ok |-> ok])
          /\ IF ok THEN Crawler!SavePage(Url1, Depth1) /\ Crawler!EnqueueLinks(Url1, Depth1)
                   ELSE frontier' = Tail(frontier) /\ UNCHANGED <<crawled, bloomBits>>
    BY FetchIs
  <1>4. Requested(Url1, Depth1)
    <2> DEFINE r == [url |-> Url1, depth |-> Depth1, at |-> Crawler!After(Url1.host), ok |-> ok]
    <2>1. r \in PageRequestSet /\ r.url = Url1
      BY <1>2, AfterLast DEF PageRequestSet
    <2>2. requests' = Append(requests, r)
      BY <1>3
    <2> HIDE DEF r
    <2> QED
      BY <1>1, <2>1, <2>2 DEF Requested
  <1>5. CASE ~ok
    <2>1. Moved(Url1, Depth1) /\ Fresh = {}
      BY <1>1, <1>3, <1>5, PoppedIs
    <2> QED
      BY <1>3, <1>4, <1>5, <2>1 DEF Iteration, Forgotten
  <1>6. CASE ok
    <2> DEFINE N == Len(Crawler!ExtractLinks(Url1))
               q == Tail(frontier)
               a == [bits |-> bloomBits', queue |-> frontier']
    <2>1. frontier \in Seq(Crawler!CrawlUrl \X Nat)
      <3>1. set \subseteq Crawler!CrawlUrl \X Nat
        BY <1>2
      <3> HIDE DEF set
      <3>2. frontier \in Seq(set)
        BY DEF CrawlShape, set
      <3> QED
        BY <3>1, <3>2
    <2>2. LinksTaken(a, N, Url1, Depth1, q, bloomBits)
      BY <1>1, <1>2, <1>3, <1>6, <2>1, EnqueueAll
    <2>3. a.bits = bloomBits' /\ a.queue = frontier' /\ Len(q) + 1 = Len(frontier) /\ Len(q) \in Nat
      BY <1>2
    <2>4. /\ frontier' \in Seq(Crawler!CrawlUrl \X Nat) /\ Len(frontier') >= Len(q)
          /\ \A i \in 1..Len(q) : frontier'[i] = q[i]
          /\ \A i \in Fresh :
               /\ frontier'[i][2] = Depth1 + 1 /\ frontier'[i][1] \in Crawler!Linked(Url1)
               /\ ~Crawler!BloomHas(bloomBits, frontier'[i][1]) /\ Crawler!BloomHas(bloomBits', frontier'[i][1])
          /\ \A i, j \in Fresh : i # j => frontier'[i][1] # frontier'[j][1]
          /\ bloomBits \subseteq bloomBits'
          /\ \A p \in bloomBits' : p \in bloomBits \/ \E i \in Fresh : p \in HashPositions(frontier'[i][1])
          /\ \A i \in 1..N : Crawler!BloomHas(bloomBits', LinkAt(Url1, i))
      <3> HIDE DEF a, q, N
      <3> QED
        BY <2>2, <2>3 DEF LinksTaken, Fresh
    <2>5. \A i \in 1..Len(frontier) - 1 : frontier'[i] = frontier[i + 1]
      BY <1>2, <2>3, <2>4
    <2>6. frontier' \in Seq(set)
      <3>1. ASSUME NEW i \in 1..Len(frontier')
            PROVE  frontier'[i] \in set
        <4>1. frontier'[i] \in Crawler!CrawlUrl \X Nat /\ Len(frontier') \in Nat /\ i \in Nat /\ i >= 1
          BY <2>4
        <4>2. CASE i <= Len(q)
          <5>1. i \in 1..Len(q) /\ i \in 1..Len(Tail(frontier))
            BY <2>3, <4>1, <4>2
          <5>2. frontier'[i] = Tail(frontier)[i]
            BY <2>4, <5>1
          <5> HIDE DEF set
          <5> QED
            BY <1>2, <5>1, <5>2
        <4>3. CASE ~(i <= Len(q))
          <5>1. i \in Fresh
            BY <2>3, <4>1, <4>3 DEF Fresh
          <5>2. frontier'[i][2] \in 0..(MaxDepth + 1)
            BY <1>1, <1>2, <2>4, <5>1
          <5> QED
            BY <4>1, <5>2
        <4> QED
          BY <4>2, <4>3
      <3>2. frontier' = [i \in 1..Len(frontier') |-> frontier'[i]] /\ Len(frontier') \in Nat
        BY <2>4
      <3> HIDE DEF set
      <3> QED
        BY <3>1, <3>2
    <2>7. Moved(Url1, Depth1)
      BY <1>1, <1>2, <2>3, <2>4, <2>5, <2>6 DEF Moved, Url1, Depth1
    <2>8. Url1 \notin DOMAIN crawled
      BY <1>2 DEF FilterKnows, CrawlShape, Url1
    <2>9. Saved(Url1, Depth1)
      <3>1. ASSUME NEW v \in Crawler!Linked(Url1)
            PROVE  Crawler!BloomHas(bloomBits', v)
        <4>1. DOMAIN Crawler!ExtractLinks(Url1) = 1..N
          BY <1>2, LinksTyped
        <4>2. PICK i \in 1..N : v = LinkAt(Url1, i)
          BY <4>1 DEF Crawler!Linked, LinkAt
        <4> QED
          BY <2>4, <4>2
      <3>2. crawled' = Crawler!DictSet(crawled, Url1, Depth1)
        BY <1>3, <1>6, <2>8 DEF Crawler!SavePage
      <3> QED
        BY <3>1, <3>2 DEF Saved
    <2> QED
      BY <1>4, <2>7, <2>9 DEF Iteration
  <1> QED
    BY <1>5, <1>6

LEMMA CrawlShapeStep ==
    ASSUME CrawlerAssumed, CrawlShape, FilterKnows, Crawler!DropEarly \/ Crawler!DropDisallowed \/ Crawler!FetchPage
    PROVE  CrawlShape'
  <1>1. Iteration(Url1, Depth1) /\ frontier # <<>>
    BY DropIsIteration, FetchIsIteration DEF Iteration, Moved
  <1>2. Depth1 \in Nat /\ Url1 \in Crawler!CrawlUrl
    BY <1>1, HeadTyped DEF Url1, Depth1, CrawlerAssumed
  <1>3. frontier' \in Seq(Crawler!CrawlUrl \X (0..(MaxDepth + 1)))
    BY <1>1 DEF Iteration, Moved
  <1>4. requests' \in Seq(PageRequestSet)
    <2>1. requests \in Seq(PageRequestSet)
      BY DEF CrawlShape
    <2> QED
      BY <1>1, <2>1 DEF Iteration, Dropped, Requested
  <1>5. crawlClock' \in Nat /\ \A h \in DOMAIN lastAccess' : lastAccess'[h] \in Nat
    <2>1. CASE UNCHANGED <<lastAccess, crawlClock>>
      BY <2>1 DEF CrawlShape
    <2>2. CASE Crawler!FetchPage
      <3>1. Crawler!After(Url1.host) \in Nat
        BY AfterLast
      <3>2. \E took \in 0..1 : crawlClock' = Crawler!After(Url1.host) + took
        BY <2>2, FetchIs
      <3>3. crawlClock' \in Nat
        BY <3>1, <3>2
      <3>4. lastAccess' = Crawler!DictSet(lastAccess, Url1.host, Crawler!After(Url1.host))
        BY <2>2, FetchIs
      <3>5. \A h \in DOMAIN lastAccess' : lastAccess'[h] \in Nat
        BY <3>1, <3>4 DEF CrawlShape, Crawler!DictSet
      <3> QED
        BY <3>3, <3>5
    <2> QED
      BY <2>1, <2>2, DropIsIteration
  <1>6. ASSUME NEW x \in DOMAIN crawled'
        PROVE  crawled'[x] \in Nat /\ Asked(x)'
    <2>1. CASE x \in DOMAIN crawled
      <3>1. crawled'[x] = crawled[x] /\ AskedNext(x)
        BY <1>1, <2>1, SavedOnce, AskedAfter DEF CrawlShape
      <3> QED
        BY <2>1, <3>1 DEF CrawlShape, Asked, AskedNext
    <2>2. CASE x = Url1 /\ crawled'[x] = Depth1 /\ Requested(Url1, Depth1)
      <3>1. AskedNext(x)
        BY <1>1, <2>2, AskedAfter
      <3> QED
        BY <1>2, <2>2, <3>1 DEF Asked, AskedNext
    <2> QED
      BY <1>1, <2>1, <2>2, SavedOnce
  <1>7. \A h \in DOMAIN robotsRules' : robotsRules'[h] \in {Crawler!MockRules, Crawler!NoRules}
    <2>1. \A h \in DOMAIN robotsRules : robotsRules[h] \in {Crawler!MockRules, Crawler!NoRules}
      BY DEF CrawlShape
    <2>2. UNCHANGED robotsRules \/ \E h, rules : rules \in {Crawler!MockRules, Crawler!NoRules} /\ Crawler!EnsureCached(h, rules)
      BY DropIsIteration, FetchIs
    <2>3. ASSUME NEW h, NEW rules \in {Crawler!MockRules, Crawler!NoRules}, Crawler!EnsureCached(h, rules)
          PROVE  \A g \in DOMAIN robotsRules' : robotsRules'[g] \in {Crawler!MockRules, Crawler!NoRules}
      BY <2>1, <2>3 DEF Crawler!EnsureCached, Crawler!DictSet
    <2> QED
      BY <2>1, <2>2, <2>3
  <1> QED
    BY <1>3, <1>4, <1>5, <1>6, <1>7 DEF CrawlShape

LEMMA DelayedStep ==
    ASSUME CrawlerAssumed, CrawlShape, Delayed, Crawler!FetchPage
    PROVE  Delayed'
  <1> DEFINE h == Url1.host
             t == Crawler!After(h)
             n == Len(requests)
  <1>1. lastAccess' = Crawler!DictSet(lastAccess, h, t)
    BY FetchIs
  <1>2. PICK ok \in BOOLEAN : requests' = Append(requests, [url |-> Url1, depth |-> Depth1, at |-> t, ok |-> ok])
    BY FetchIs
  <1>3. /\ n \in Nat /\ DOMAIN requests = 1..n /\ DOMAIN requests' = 1..n + 1
        /\ requests'[n + 1].url = Url1 /\ requests'[n + 1].at = t
        /\ \A i \in 1..n : requests'[i] = requests[i] /\ requests[i].at \in Nat
    <2> DEFINE q == [url |-> Url1, depth |-> Depth1, at |-> t, ok |-> ok]
    <2>1. requests \in Seq(PageRequestSet)
      BY DEF CrawlShape
    <2>2. requests' = Append(requests, q) /\ q.url = Url1 /\ q.at = t
      BY <1>2
    <2> HIDE DEF q
    <2>3. /\ n \in Nat /\ DOMAIN requests = 1..n /\ DOMAIN requests' = 1..n + 1 /\ requests'[n + 1] = q
          /\ \A i \in 1..n : requests'[i] = requests[i] /\ requests[i] \in PageRequestSet
      BY <2>1, <2>2
    <2>4. \A i \in 1..n : requests[i].at \in Nat
      BY <2>3 DEF PageRequestSet
    <2> QED
      BY <2>2, <2>3, <2>4
  <1>4. t \in Nat /\ (h \in DOMAIN lastAccess => t >= lastAccess[h] + PolitenessDelay /\ lastAccess[h] \in Nat)
        /\ PolitenessDelay \in Nat
    BY AfterLast DEF CrawlerAssumed
  <1> HIDE DEF n, t
  <1>5. /\ h \in DOMAIN lastAccess' /\ lastAccess'[h] = t
        /\ \A g \in DOMAIN lastAccess : g \in DOMAIN lastAccess' /\ (g # h => lastAccess'[g] = lastAccess[g])
    BY <1>1 DEF Crawler!DictSet
  <1>6. \A i \in 1..n : /\ requests[i].url.host \in DOMAIN lastAccess
                        /\ requests[i].at <= lastAccess[requests[i].url.host]
                        /\ lastAccess[requests[i].url.host] \in Nat
    BY <1>3 DEF Delayed, CrawlShape
  <1>7. ASSUME NEW i \in 1..n, requests[i].url.host = h
        PROVE  t - requests[i].at >= PolitenessDelay /\ requests[i].at <= t
    BY <1>3, <1>4, <1>6, <1>7
  <1>8. ASSUME NEW i \in DOMAIN requests'
        PROVE  /\ requests'[i].url.host \in DOMAIN lastAccess'
               /\ requests'[i].at <= lastAccess'[requests'[i].url.host]
    <2>1. CASE i = n + 1
      BY <1>3, <1>4, <1>5, <2>1
    <2>2. CASE i # n + 1
      <3>1. i \in 1..n /\ requests'[i] = requests[i]
        BY <1>3, <2>2
      <3>2. CASE requests[i].url.host = h
        BY <1>5, <1>7, <3>1, <3>2
      <3>3. CASE requests[i].url.host # h
        BY <1>5, <1>6, <3>1, <3>3
      <3> QED
        BY <3>2, <3>3
    <2> QED
      BY <2>1, <2>2
  <1>9. ASSUME NEW i \in DOMAIN requests', NEW j \in DOMAIN requests', i < j,
               requests'[i].url.host = requests'[j].url.host
        PROVE  requests'[j].at - requests'[i].at >= PolitenessDelay
    <2>1. i \in 1..n /\ requests'[i] = requests[i]
      BY <1>3, <1>9
    <2>2. CASE j = n + 1
      BY <1>3, <1>7, <1>9, <2>1, <2>2
    <2>3. CASE j # n + 1
      <3>1. j \in 1..n /\ requests'[j] = requests[j]
        BY <1>3, <2>3
      <3> QED
        BY <1>3, <1>9, <2>1, <3>1 DEF Delayed, Crawler!Polite
    <2> QED
      BY <2>2, <2>3
  <1>10. Crawler!Polite'
    BY <1>9 DEF Crawler!Polite
  <1> QED
    BY <1>8, <1>10 DEF Delayed

\* What is cached of a domain stays.
LEMMA RulesStay ==
    ASSUME NEW h, NEW rules, Crawler!EnsureCached(h, rules)
    PROVE  /\ h \in DOMAIN robotsRules' /\ robotsRules'[h] = rules
           /\ \A g \in DOMAIN robotsRules : g \in DOMAIN robotsRules' /\ robotsRules'[g] = robotsRules[g]
  BY DEF Crawler!EnsureCached, Crawler!DictSet

LEMMA ObeyedStep ==
    ASSUME CrawlerAssumed, CrawlShape, Obeyed,
           Crawler!DropEarly \/ Crawler!DropDisallowed \/ Crawler!FetchPage
    PROVE  Obeyed'
  <1> DEFINE n == Len(requests)
             Good == {i \in DOMAIN requests : requests[i].ok}
             GoodNext == {i \in DOMAIN requests' : requests'[i].ok}
  <1>1. /\ n \in Nat /\ DOMAIN requests = 1..n /\ MaxPages \in Nat
        /\ Crawler!Cardinality(Good) <= MaxPages
        /\ \A i \in 1..n : requests[i].depth <= MaxDepth /\ ~Crawler!IsTrap(requests[i].url)
        /\ \A i \in 1..n : /\ requests[i].url.host \in DOMAIN robotsRules
                            /\ requests[i].url.path \notin robotsRules[requests[i].url.host].disallow
    <2>1. requests \in Seq(PageRequestSet)
      BY DEF CrawlShape
    <2>2. n \in Nat /\ DOMAIN requests = 1..n
      BY <2>1
    <2> HIDE DEF n
    <2> QED
      BY <2>2 DEF Obeyed, Crawler!WithinLimits, Crawler!AllowedOnly, Crawler!Fetched, CrawlerAssumed
  <1>2. CASE Crawler!DropEarly \/ Crawler!DropDisallowed
    <2>1. requests' = requests
      BY <1>2, DropIsIteration
    <2>2. \A g \in DOMAIN robotsRules : g \in DOMAIN robotsRules' /\ robotsRules'[g] = robotsRules[g]
      BY <1>2, DropIsIteration, RulesStay
    <2>3. \A i \in 1..n : /\ requests[i].url.host \in DOMAIN robotsRules'
                          /\ requests[i].url.path \notin robotsRules'[requests[i].url.host].disallow
      BY <1>1, <2>2
    <2>4. Crawler!AllowedOnly'
      BY <1>1, <2>1, <2>3 DEF Crawler!AllowedOnly
    <2>5. Crawler!WithinLimits'
      BY <2>1 DEF Obeyed, Crawler!WithinLimits, Crawler!Fetched
    <2> QED
      BY <2>4, <2>5 DEF Obeyed
  <1>3. CASE Crawler!FetchPage
    <2>1. PICK rules \in {Crawler!MockRules, Crawler!NoRules} :
            Crawler!EnsureCached(Url1.host, rules) /\ Url1.path \notin rules.disallow
      BY <1>3, FetchIs
    <2>2. PICK ok \in BOOLEAN :
            requests' = Append(requests, [url |-> Url1, depth |-> Depth1, at |-> Crawler!After(Url1.host), ok |-> ok])
      BY <1>3, FetchIs
    <2>3. /\ DOMAIN requests' = 1..n + 1 /\ \A i \in 1..n : requests'[i] = requests[i]
          /\ requests'[n + 1].url = Url1 /\ requests'[n + 1].depth = Depth1
      <3> DEFINE q == [url |-> Url1, depth |-> Depth1, at |-> Crawler!After(Url1.host), ok |-> ok]
      <3>1. requests \in Seq(PageRequestSet) /\ requests' = Append(requests, q) /\ q.url = Url1 /\ q.depth = Depth1
        BY <2>2 DEF CrawlShape
      <3> HIDE DEF q
      <3> QED
        BY <3>1
    <2>4. Depth1 <= MaxDepth /\ ~Crawler!IsTrap(Url1) /\ Crawler!Cardinality(Good) < MaxPages
      BY <1>3, FetchIs DEF Crawler!Fetched
    <2>5. /\ Url1.host \in DOMAIN robotsRules' /\ robotsRules'[Url1.host] = rules
          /\ \A g \in DOMAIN robotsRules : g \in DOMAIN robotsRules' /\ robotsRules'[g] = robotsRules[g]
      BY <2>1, RulesStay
    <2>6. ASSUME NEW i \in 1..n + 1
          PROVE  /\ requests'[i].depth <= MaxDepth /\ ~Crawler!IsTrap(requests'[i].url)
                 /\ requests'[i].url.host \in DOMAIN robotsRules'
                 /\ requests'[i].url.path \notin robotsRules'[requests'[i].url.host].disallow
      <3>1. CASE i = n + 1
        BY <2>1, <2>3, <2>4, <2>5, <3>1
      <3>2. CASE i # n + 1
        <4>1. i \in 1..n /\ requests'[i] = requests[i]
          BY <1>1, <2>3, <3>2
        <4> QED
          BY <1>1, <2>5, <4>1
      <3> QED
        BY <3>1, <3>2
    <2>7. Crawler!Cardinality(GoodNext) <= MaxPages
      <3>1. IsFiniteSet(Good) /\ n + 1 \notin Good
        <4>1. IsFiniteSet(1..n)
          BY <1>1, FS_Interval
        <4>2. Good \subseteq 1..n
          BY <1>1
        <4> HIDE DEF Good
        <4> QED
          BY <1>1, <4>1, <4>2, FS_Subset
      <3>2. GoodNext = Good \/ GoodNext = Good \cup {n + 1}
        <4>1. /\ \A i \in DOMAIN requests' : i \in DOMAIN requests \/ i = n + 1
              /\ \A i \in DOMAIN requests : i \in DOMAIN requests' /\ requests'[i] = requests[i]
          BY <1>1, <2>3
        <4>2. n + 1 \in DOMAIN requests'
          BY <1>1, <2>3
        <4> HIDE DEF n
        <4> QED
          BY <4>1, <4>2
      <3>3. \A set : Crawler!Cardinality(set) = Cardinality(set)
        BY DEF Crawler!Cardinality, Cardinality
      <3> HIDE DEF Good, GoodNext
      <3>4. Cardinality(Good) \in Nat /\ Cardinality(Good \cup {n + 1}) = Cardinality(Good) + 1
        BY <3>1, FS_CardinalityType, FS_AddElement
      <3>5. Cardinality(Good) < MaxPages /\ MaxPages \in Nat
        BY <1>1, <2>4, <3>3
      <3>6. Cardinality(GoodNext) \in {Cardinality(Good), Cardinality(Good \cup {n + 1})}
        BY <3>2, Zenon
      <3>7. Cardinality(GoodNext) <= MaxPages
        BY <3>4, <3>5, <3>6
      <3> QED
        BY <3>3, <3>7
    <2>8. Crawler!WithinLimits'
      BY <2>3, <2>6, <2>7 DEF Crawler!WithinLimits, Crawler!Fetched
    <2>9. Crawler!AllowedOnly'
      BY <2>3, <2>6 DEF Crawler!AllowedOnly
    <2> QED
      BY <2>8, <2>9 DEF Obeyed
  <1> QED
    BY <1>2, <1>3

LEMMA CrawlInvInit ==
    ASSUME CrawlerAssumed, Crawler!Init
    PROVE  CrawlInv
  <1>1. PICK seeds \in SeedLists : Crawler!Seeded(seeds)
    BY DEF Crawler!Init
  <1>2. /\ requests = <<>> /\ DOMAIN lastAccess = {} /\ DOMAIN crawled = {} /\ DOMAIN robotsRules = {}
        /\ crawlClock = PolitenessDelay /\ PolitenessDelay \in Nat
    BY DEF Crawler!Init, Crawler!NewRobotsCache, Crawler!NewPolitenessTracker, Crawler!NewDatabase, CrawlerAssumed
  <1>3. /\ seeds \in Seq(Crawler!CrawlUrl) /\ MaxDepth \in Nat
        /\ \A i, j \in DOMAIN seeds : i # j => Crawler!Normalize(seeds[i]) # Crawler!Normalize(seeds[j])
    BY DEF CrawlerAssumed
  <1>4. /\ frontier = [i \in DOMAIN seeds |-> <<Crawler!Normalize(seeds[i]), 0>>]
        /\ seedUrls = {Crawler!Normalize(seeds[i]) : i \in DOMAIN seeds}
        /\ bloomBits = Crawler!BloomFilter(seedUrls)
    BY <1>1 DEF Crawler!Seeded
  <1>5. /\ DOMAIN frontier = DOMAIN seeds
        /\ \A i \in DOMAIN seeds : frontier[i][1] = Crawler!Normalize(seeds[i]) /\ frontier[i][2] = 0
    BY <1>4
  <1>6. \A v : ~Asked(v)
    BY <1>2 DEF Asked
  <1>7. CrawlShape
    <2>1. frontier \in Seq(Crawler!CrawlUrl \X (0..(MaxDepth + 1)))
      <3>1. DOMAIN seeds = 1..Len(seeds) /\ Len(seeds) \in Nat /\ \A i \in 1..Len(seeds) : seeds[i] \in Crawler!CrawlUrl
        BY <1>3
      <3>2. \A l \in Crawler!CrawlUrl : Crawler!Normalize(l) \in Crawler!CrawlUrl
        BY DEF Crawler!Normalize, Crawler!CrawlUrl
      <3>3. \A i \in 1..Len(seeds) : <<Crawler!Normalize(seeds[i]), 0>> \in Crawler!CrawlUrl \X (0..(MaxDepth + 1))
        BY <1>3, <3>1, <3>2
      <3> QED
        BY <1>4, <3>1, <3>3
    <2>2. requests \in Seq(PageRequestSet)
      BY <1>2
    <2> QED
      BY <1>2, <2>1, <2>2 DEF CrawlShape
  <1>8. \A i \in DOMAIN frontier : frontier[i][1] \in seedUrls
    BY <1>4, <1>5
  <1>9. FilterKnows
    <2>1. \A i \in DOMAIN frontier : Crawler!BloomHas(bloomBits, frontier[i][1])
      BY <1>4, <1>8, FilterOf DEF Crawler!BloomHas
    <2>2. DOMAIN requests = {}
      BY <1>2
    <2> QED
      BY <1>3, <1>5, <1>6, <2>1, <2>2 DEF FilterKnows, Crawler!NeverTwice
  <1>10. Delayed
    <2>1. DOMAIN requests = {}
      BY <1>2
    <2> QED
      BY <2>1 DEF Delayed, Crawler!Polite
  <1>13. Obeyed
    <2>1. DOMAIN requests = {} /\ MaxPages \in Nat
      BY <1>2 DEF CrawlerAssumed
    <2>2. {i \in DOMAIN requests : requests[i].ok} = {}
      BY <2>1
    <2>3. Crawler!Cardinality({}) = 0
      <3>1. Crawler!Cardinality({}) = Cardinality({})
        BY DEF Crawler!Cardinality, Cardinality
      <3> QED
        BY <3>1, FS_EmptySet
    <2>4. Crawler!Fetched <= MaxPages
      BY <2>1, <2>2, <2>3 DEF Crawler!Fetched
    <2> QED
      BY <2>1, <2>4 DEF Obeyed, Crawler!WithinLimits, Crawler!AllowedOnly
  <1>11. BreadthFirst
    BY <1>2, <1>5 DEF BreadthFirst, Crawler!ShortestPaths
  <1>12. Accounted
    <2>1. \A w \in seedUrls : w \in SettledUrls
      BY <1>4, <1>5 DEF SettledUrls, Settled, Waiting, Known
    <2>2. bloomBits \subseteq Crawler!BloomFilter(SettledUrls)
      BY <1>4, <2>1, FilterOf
    <2> QED
      BY <1>2, <1>8, <2>2 DEF Accounted, Known
  <1> QED
    BY <1>7, <1>9, <1>10, <1>11, <1>12, <1>13 DEF CrawlInv

LEMMA CrawlInvStep ==
    ASSUME CrawlerAssumed, CrawlInv, Crawler!Next \/ UNCHANGED crawlerVars
    PROVE  CrawlInv'
  <1>0. CrawlShape /\ FilterKnows /\ Delayed /\ Obeyed /\ BreadthFirst /\ Accounted
    BY DEF CrawlInv
  <1>1. CASE UNCHANGED crawlerVars
    <2>0. UNCHANGED <<frontier, bloomBits, robotsRules, lastAccess, crawlClock, crawled, requests, seedUrls>>
      BY <1>1 DEF crawlerVars
    <2>1. CrawlShape'
      BY <1>0, <2>0 DEF CrawlShape, Asked
    <2>2. FilterKnows' /\ Delayed'
      BY <1>0, <2>0 DEF FilterKnows, Delayed, Asked, Crawler!NeverTwice, Crawler!Polite
    <2>5. Obeyed'
      BY <1>0, <2>0 DEF Obeyed, Crawler!WithinLimits, Crawler!AllowedOnly, Crawler!Fetched
    <2>3. BreadthFirst'
      BY <1>0, <2>0 DEF BreadthFirst, Crawler!ShortestPaths
    <2>4. Accounted'
      <3>1. /\ Known' = Known /\ (AllDeep' <=> AllDeep)
            /\ \A v : (Waiting(v)' <=> Waiting(v)) /\ (Gone(v)' <=> Gone(v))
        BY <2>0 DEF Known, Waiting, Gone, Asked, AllDeep
      <3>2. SettledUrls' = SettledUrls /\ \A v : Mistaken(v)' <=> Mistaken(v)
        BY <3>1 DEF SettledUrls, Settled, Mistaken, Crawler!BloomHas, Crawler!BloomFilter
      <3> QED
        BY <1>0, <2>0, <3>1, <3>2 DEF Accounted, Excused, Crawler!BloomFilter
    <2> QED
      BY <2>1, <2>2, <2>3, <2>4, <2>5 DEF CrawlInv
  <1>2. Crawler!Finished => UNCHANGED crawlerVars
    BY DEF Crawler!Finished, Crawler!vars, crawlerVars
  <1>3. CASE Crawler!DropEarly \/ Crawler!DropDisallowed \/ Crawler!FetchPage
    <2>1. Iteration(Url1, Depth1)
      BY <1>0, <1>3, DropIsIteration, FetchIsIteration
    <2>2. CrawlShape'
      BY <1>0, <1>3, CrawlShapeStep
    <2>3. FilterKnows' /\ BreadthFirst' /\ Accounted'
      BY <1>0, <2>1, FilterStep, BreadthStep, AccountStep
    <2>4. Delayed'
      <3>1. CASE Crawler!FetchPage
        BY <1>0, <3>1, DelayedStep
      <3>2. CASE Crawler!DropEarly \/ Crawler!DropDisallowed
        <4>1. UNCHANGED <<requests, lastAccess>>
          BY <1>0, <3>2, DropIsIteration
        <4> QED
          BY <1>0, <4>1 DEF Delayed, Crawler!Polite
      <3> QED
        BY <1>3, <3>1, <3>2
    <2> QED
      BY <1>0, <1>3, <2>2, <2>3, <2>4, ObeyedStep DEF CrawlInv
  <1> QED
    BY <1>1, <1>2, <1>3 DEF Crawler!Next

LEMMA CrawlInvSuffices ==
    ASSUME CrawlerAssumed, CrawlInv
    PROVE  Crawler!CrawlIsSound /\ Crawler!TypeOK
  <1>1. /\ CrawlShape /\ Crawler!NeverTwice /\ Crawler!Polite /\ Crawler!ShortestPaths
        /\ Crawler!WithinLimits /\ Crawler!AllowedOnly
    BY DEF CrawlInv, FilterKnows, Delayed, Obeyed, BreadthFirst
  <1>2. Crawler!NothingLost
    <2>1. ASSUME frontier = <<>>, NEW u \in DOMAIN crawled, NEW v \in Crawler!Linked(u)
          PROVE  Gone(v) \/ crawled[u] + 1 > MaxDepth \/ Mistaken(v)
      <3>1. ~Waiting(v)
        BY <2>1 DEF Waiting
      <3> QED
        BY <3>1 DEF CrawlInv, Accounted, Excused
    <2> QED
      BY <2>1 DEF Crawler!NothingLost, Gone, Asked, Mistaken, Known
  <1>3. Crawler!TypeOK
    <2>1. \A i \in DOMAIN frontier : frontier[i] \in Crawler!CrawlUrl \X (0..(MaxDepth + 1))
      BY <1>1 DEF CrawlShape
    <2>2. DOMAIN crawled \subseteq {requests[i].url : i \in DOMAIN requests}
      BY <1>1 DEF CrawlShape, Asked
    <2> QED
      BY <1>1, <2>1, <2>2 DEF CrawlShape, Crawler!TypeOK
  <1> QED
    BY <1>1, <1>2, <1>3 DEF Crawler!CrawlIsSound

-----------------------------------------------------------------------------
(***************************************************************************)
(* What the type invariants still ask for: the posts resolvers that will   *)
(* run are counted before a query starts, a counter that a thread of the   *)
(* pool has read is not above the calls there are, and a connection is     *)
(* only taken from a pool that has one.                                    *)
(***************************************************************************)
Outstanding == [q \in GraphQueries |-> Cardinality(resolving[q])]

FiredInv ==
  /\ fired \in Nat /\ resolving \in [GraphQueries -> SUBSET ApiUsers]
  /\ fired + SumFunction(Outstanding) <= 2 * Cardinality(ApiUsers)

LEMMA ApiCounts ==
    /\ \A S : Api!Cardinality(S) = Cardinality(S)
    /\ \A f : Api!SumFunction(f) = SumFunction(f)
  <1>1. \A S : Api!Cardinality(S) = Cardinality(S)
    BY DEF Api!Cardinality, Cardinality
  <1>2. \A f : Api!SumFunction(f) = SumFunction(f)
    BY DEF Api!SumFunction, SumFunction, Api!SumFunctionOnSet, SumFunctionOnSet,
       Api!FoldFunctionOnSet, FoldFunctionOnSet, Api!MapThenFoldSet, MapThenFoldSet
  <1> QED
    BY <1>1, <1>2

LEMMA OutstandingTyped ==
    ASSUME ApiAssumed, resolving \in [GraphQueries -> SUBSET ApiUsers]
    PROVE  /\ IsFiniteSet(GraphQueries) /\ Cardinality(ApiUsers) \in Nat
           /\ Outstanding \in [GraphQueries -> Nat] /\ SumFunction(Outstanding) \in Nat
  <1>1. IsFiniteSet(GraphQueries) /\ IsFiniteSet(ApiUsers) /\ Cardinality(ApiUsers) \in Nat
    BY FS_CardinalityType DEF ApiAssumed
  <1>2. \A q \in GraphQueries : Cardinality(resolving[q]) \in Nat
    BY <1>1, FS_Subset, FS_CardinalityType
  <1>3. Outstanding \in [GraphQueries -> Nat]
    BY <1>2 DEF Outstanding
  <1>4. SumFunction(Outstanding) \in Int
    BY <1>1, <1>3, TotalType
  <1> DEFINE ones == {q \in GraphQueries : Outstanding[q] = 1}
  <1>5. IsFiniteSet(ones) /\ Cardinality(ones) \in Nat
    BY <1>1, FS_Subset, FS_CardinalityType
  <1>6. Cardinality(ones) <= SumFunction(Outstanding)
    BY <1>1, <1>3, TotalCounts
  <1> QED
    BY <1>1, <1>3, <1>4, <1>5, <1>6

LEMMA FiredInvInit ==
    ASSUME ApiAssumed, Api!Init
    PROVE  FiredInv
  <1>1. fired = 0 /\ resolving = [q \in GraphQueries |-> {}]
    BY DEF Api!Init
  <1>2. resolving \in [GraphQueries -> SUBSET ApiUsers]
    BY <1>1
  <1>3. IsFiniteSet(GraphQueries) /\ Cardinality(ApiUsers) \in Nat
    BY <1>2, OutstandingTyped
  <1>4. Outstanding = [q \in GraphQueries |-> 0]
    BY <1>1, FS_EmptySet DEF Outstanding
  <1>5. SumFunction(Outstanding) = 0
    BY <1>3, <1>4, TotalZero
  <1> QED
    BY <1>1, <1>2, <1>3, <1>5 DEF FiredInv

LEMMA FiredInvStep ==
    ASSUME ApiAssumed, FiredInv, Api!Next \/ UNCHANGED apiVars
    PROVE  FiredInv'
  <1>0. /\ fired \in Nat /\ resolving \in [GraphQueries -> SUBSET ApiUsers]
        /\ fired + SumFunction(Outstanding) <= 2 * Cardinality(ApiUsers)
    BY DEF FiredInv
  <1>1. /\ IsFiniteSet(GraphQueries) /\ Cardinality(ApiUsers) \in Nat /\ IsFiniteSet(ApiUsers)
        /\ Outstanding \in [GraphQueries -> Nat] /\ SumFunction(Outstanding) \in Nat
    BY <1>0, OutstandingTyped DEF ApiAssumed
  <1>2. CASE UNCHANGED <<fired, resolving>>
    BY <1>0, <1>2 DEF FiredInv, Outstanding
  \* Only the posts of one query change: the sum moves by what its count does.
  <1>3. ASSUME NEW q \in GraphQueries, NEW S \in SUBSET ApiUsers,
               resolving' = [resolving EXCEPT ![q] = S]
        PROVE  /\ resolving' \in [GraphQueries -> SUBSET ApiUsers]
               /\ SumFunction(Outstanding') \in Nat
               /\ SumFunction(Outstanding') =
                    SumFunction(Outstanding) + (Cardinality(S) - Cardinality(resolving[q]))
    <2>1. resolving' \in [GraphQueries -> SUBSET ApiUsers] /\ resolving'[q] = S
      BY <1>0, <1>3
    <2>2. Cardinality(S) \in Nat
      BY <1>1, FS_Subset, FS_CardinalityType
    <2>3. Outstanding' = [o \in GraphQueries |-> IF o = q THEN Cardinality(S) ELSE Outstanding[o]]
      BY <1>0, <1>3 DEF Outstanding
    <2> DEFINE before == Outstanding
               after == [o \in GraphQueries |-> IF o = q THEN Cardinality(S) ELSE before[o]]
    <2>4. after \in [GraphQueries -> Nat] /\ after[q] = Cardinality(S)
          /\ \A o \in GraphQueries \ {q} : after[o] = before[o]
      BY <1>1, <2>2
    <2>5. before \in [GraphQueries -> Int] /\ before[q] = Cardinality(resolving[q])
      BY <1>1 DEF Outstanding
    <2> HIDE DEF before, after
    <2>6. SumFunction(after) = SumFunction(before) + (after[q] - before[q])
      BY <1>1, <2>4, <2>5, TotalChange
    <2>7. SumFunction(after) \in Nat
      <3> DEFINE ones == {o \in GraphQueries : after[o] = 1}
      <3>1. Cardinality(ones) \in Nat
        BY <1>1, FS_Subset, FS_CardinalityType
      <3>2. Cardinality(ones) <= SumFunction(after) /\ SumFunction(after) \in Int
        BY <1>1, <2>4, TotalCounts, TotalType
      <3> QED
        BY <3>1, <3>2
    <2> QED
      BY <2>1, <2>3, <2>4, <2>5, <2>6, <2>7 DEF before, after
  <1>4. ASSUME NEW q \in GraphQueries, Api!StartQuery(q) PROVE FiredInv'
    <2>1. /\ resolving[q] = {} /\ resolving' = [resolving EXCEPT ![q] = ApiUsers] /\ fired' = fired
          /\ fired + Api!SumFunction([o \in GraphQueries |-> Api!Cardinality(resolving[o])])
               <= Api!Cardinality(ApiUsers)
      BY <1>4 DEF Api!StartQuery
    <2>2. fired + SumFunction(Outstanding) <= Cardinality(ApiUsers)
      BY <2>1, ApiCounts DEF Outstanding
    <2>3. Cardinality(resolving[q]) = 0
      BY <2>1, FS_EmptySet
    <2>4. /\ resolving' \in [GraphQueries -> SUBSET ApiUsers] /\ SumFunction(Outstanding') \in Nat
          /\ SumFunction(Outstanding') =
               SumFunction(Outstanding) + (Cardinality(ApiUsers) - Cardinality(resolving[q]))
      BY <1>3, <2>1
    <2>5. fired' + SumFunction(Outstanding') <= 2 * Cardinality(ApiUsers)
      BY <1>0, <1>1, <2>1, <2>2, <2>3, <2>4
    <2> QED
      BY <1>0, <2>1, <2>4, <2>5 DEF FiredInv
  <1>5. ASSUME NEW q \in GraphQueries, NEW u \in ApiUsers, Api!ResolvePosts(q, u) PROVE FiredInv'
    <2>1. /\ u \in resolving[q] /\ resolving' = [resolving EXCEPT ![q] = resolving[q] \ {u}]
          /\ fired' = fired + 1
      BY <1>5 DEF Api!ResolvePosts
    <2>2. resolving[q] \ {u} \in SUBSET ApiUsers
      BY <1>0
    <2>3. /\ Cardinality(resolving[q]) \in Nat
          /\ Cardinality(resolving[q] \ {u}) = Cardinality(resolving[q]) - 1
      <3>1. IsFiniteSet(resolving[q])
        BY <1>0, <1>1, FS_Subset
      <3> QED
        BY <2>1, <3>1, FS_CardinalityType, FS_RemoveElement
    <2>4. /\ resolving' \in [GraphQueries -> SUBSET ApiUsers] /\ SumFunction(Outstanding') \in Nat
          /\ SumFunction(Outstanding') =
               SumFunction(Outstanding) + (Cardinality(resolving[q] \ {u}) - Cardinality(resolving[q]))
      BY <1>3, <2>1, <2>2
    <2>5. fired' + SumFunction(Outstanding') <= 2 * Cardinality(ApiUsers) /\ fired' \in Nat
      BY <1>0, <1>1, <2>1, <2>3, <2>4
    <2> QED
      BY <2>4, <2>5 DEF FiredInv
  <1>6. CASE Api!GraphQlQuery
    <2>1. Api!CopyStats \/ Api!ResetStats \/ (\E q \in GraphQueries : Api!ReadCalls(q)) => UNCHANGED <<fired, resolving>>
      BY DEF Api!CopyStats, Api!ResetStats, Api!ReadCalls
    <2> QED
      BY <1>2, <1>4, <1>5, <1>6, <2>1 DEF Api!GraphQlQuery
  <1>7. CASE Api!Tick \/ Api!PaymentAttempts \/ Api!RestRequests \/ Api!ApiIdle \/ UNCHANGED apiVars
    <2>1. UNCHANGED <<fired, resolving>>
      BY <1>7 DEF Api!Tick, Api!PaymentAttempts, Api!ReceivePayment, Api!ProcessPayment,
         Api!StoreAndAnswer, Api!DieBeforeStore, Api!ExpireKey, Api!RestRequests, Api!GetUsers,
         Api!GetUserPosts, Api!ApiIdle, Api!gqlVars, Api!vars, apiVars
    <2> QED
      BY <1>2, <2>1
  <1> QED
    BY <1>6, <1>7 DEF Api!Next

LEMMA ApiTyped ==
    ASSUME ApiAssumed, ApiInv, FiredInv
    PROVE  Api!TypeOK
  <1>1. \A p \in PayRequests : pay[p].pc \in {"idle", "processing", "store"}
    BY DEF ApiInv, PayInv, ApiShape, PaySet
  <1>2. client.requests \in 0..1 + Api!Cardinality(ApiUsers)
    <2>1. client.requests \in Nat /\ client.todo \subseteq ApiUsers /\ Cardinality(ApiUsers) \in Nat
      BY FS_CardinalityType DEF ApiInv, ClientInv, ApiAssumed
    <2>2. Cardinality(client.todo) \in Nat
      BY <2>1, FS_Subset, FS_CardinalityType DEF ApiAssumed
    <2>3. client.requests > 0 =>
            client.requests + Cardinality(client.todo) = 1 + Cardinality(ApiUsers)
      BY DEF ApiInv, ClientInv
    <2>4. client.requests \in 0..1 + Cardinality(ApiUsers)
      BY <2>1, <2>2, <2>3
    <2> QED
      BY <2>4, ApiCounts
  <1>3. fired <= 2 * Api!Cardinality(ApiUsers)
    <2>1. /\ fired \in Nat /\ SumFunction(Outstanding) \in Nat /\ Cardinality(ApiUsers) \in Nat
          /\ fired + SumFunction(Outstanding) <= 2 * Cardinality(ApiUsers)
      BY OutstandingTyped DEF FiredInv
    <2>2. fired <= 2 * Cardinality(ApiUsers)
      BY <2>1
    <2> QED
      BY <2>2, ApiCounts
  <1> QED
    BY <1>1, <1>2, <1>3 DEF Api!TypeOK

ReadInv == read \in [Threads -> 0..Cardinality(Threads)]

LEMMA BooksBounded ==
    ASSUME PoolAssumed, BooksInv
    PROVE  /\ Cardinality(Threads) \in Nat
           /\ completed \in [Pools -> 0..Cardinality(Threads)]
           /\ rejected \in [Pools -> 0..Cardinality(Threads)]
  <1>1. Cardinality(Threads) \in Nat
    BY FS_CardinalityType DEF PoolAssumed
  <1>2. completed \in [Pools -> Nat] /\ rejected \in [Pools -> Nat]
    BY DEF BooksInv, BooksShape
  <1>3. ASSUME NEW p \in Pools
        PROVE  completed[p] <= Cardinality(Threads) /\ rejected[p] <= Cardinality(Threads)
    <2>1. completed[p] + rejected[p] <= Cardinality(Over(p))
      BY DEF BooksInv, Understated, SoFar, Refused
    <2>2. Over(p) \in SUBSET Threads
      BY DEF Over, Failure!CallsAt
    <2>3. Cardinality(Over(p)) \in Nat /\ Cardinality(Over(p)) <= Cardinality(Threads)
      BY <2>2, FS_Subset, FS_CardinalityType DEF PoolAssumed
    <2>4. completed[p] \in Nat /\ rejected[p] \in Nat
      BY <1>2
    <2> QED
      BY <1>1, <2>1, <2>3, <2>4
  <1> QED
    BY <1>1, <1>2, <1>3

LEMMA ReadInvInit ==
    ASSUME PoolAssumed, Failure!PoolInit
    PROVE  ReadInv
  BY FS_CardinalityType DEF PoolAssumed, Failure!PoolInit, ReadInv

LEMMA ReadInvStep ==
    ASSUME PoolAssumed, BooksInv, ReadInv, [Failure!PoolNext]_poolVars
    PROVE  ReadInv'
  <1>1. pool \in [Threads -> Pools]
    BY DEF BooksInv, PoolShape
  <1>2. \/ UNCHANGED read
        \/ \E t \in Threads : \/ read' = [read EXCEPT ![t] = rejected[pool[t]]]
                              \/ read' = [read EXCEPT ![t] = completed[pool[t]]]
    BY DEF poolVars, Failure!poolVars, Failure!PoolNext, Failure!CallsReturned, Failure!Submit,
       Failure!Acquire, Failure!ReadRejected, Failure!WriteRejected, Failure!FnReturns,
       Failure!FnRaises, Failure!ReadCompleted, Failure!WriteCompleted, Failure!Release
  <1>3. \A t \in Threads : /\ rejected[pool[t]] \in 0..Cardinality(Threads)
                           /\ completed[pool[t]] \in 0..Cardinality(Threads)
    BY <1>1, BooksBounded
  <1> QED
    BY <1>2, <1>3 DEF ReadInv

LEMMA PoolTyped ==
    ASSUME PoolAssumed, PoolInv, BooksInv, ReadInv
    PROVE  Failure!PoolTypeOK
  <1>1. /\ pool \in [Threads -> Pools] /\ at \in [Threads -> Places] /\ permits \in [Pools -> Nat]
        /\ MaxThreads \in Nat
    BY DEF PoolInv, PoolShape, PoolAssumed
  <1>2. ASSUME NEW p \in Pools PROVE permits[p] <= MaxThreads
    <2>1. Failure!CallsAt(p, Failure!Holding) \in SUBSET Threads
      BY DEF Failure!CallsAt
    <2>2. Cardinality(Failure!CallsAt(p, Failure!Holding)) \in Nat
      BY <2>1, FS_Subset, FS_CardinalityType DEF PoolAssumed
    <2>3. permits[p] + Cardinality(Failure!CallsAt(p, Failure!Holding)) = MaxThreads
      BY DEF PoolInv, Permits
    <2>4. permits[p] \in Nat
      BY <1>1
    <2> QED
      BY <1>1, <2>2, <2>3, <2>4
  <1>3. permits \in [Pools -> 0..MaxThreads]
    BY <1>1, <1>2
  <1>4. Failure!Cardinality(Threads) = Cardinality(Threads)
    BY SameSize
  <1> QED
    BY <1>1, <1>3, <1>4, BooksBounded DEF Failure!PoolTypeOK, ReadInv, Places

Writers == {w \in Shorteners : writing[w] # 0}
Readers == {d \in Redirects : redirect[d].pc = "select"}
Committers == {f \in Flushers : flush[f].pc = "update"}

BorrowedInv == Shortener!Borrowed <= MaxConn

LEMMA BorrowersCounted ==
    ASSUME ShortenerAssumed
    PROVE  /\ IsFiniteSet(Writers) /\ IsFiniteSet(Readers) /\ IsFiniteSet(Committers)
           /\ Cardinality(Writers) \in Nat /\ Cardinality(Readers) \in Nat
           /\ Cardinality(Committers) \in Nat
           /\ Shortener!Borrowed = Cardinality(Writers) + Cardinality(Readers) + Cardinality(Committers)
  <1>1. IsFiniteSet(Writers) /\ IsFiniteSet(Readers) /\ IsFiniteSet(Committers)
    BY FS_Subset DEF ShortenerAssumed, Writers, Readers, Committers
  <1>2. \A S : Shortener!Cardinality(S) = Cardinality(S)
    BY DEF Shortener!Cardinality, Cardinality
  <1>3. Shortener!Borrowed = Cardinality(Writers) + Cardinality(Readers) + Cardinality(Committers)
    BY <1>2 DEF Shortener!Borrowed, Writers, Readers, Committers
  <1> QED
    BY <1>1, <1>3, FS_CardinalityType

\* One borrower comes or goes: one connection more at most, and none when it was counted before.
LEMMA OneBorrower ==
    ASSUME NEW A, NEW B, NEW w, IsFiniteSet(A), A \ {w} = B \ {w}
    PROVE  /\ Cardinality(A) \in Nat /\ Cardinality(B) \in Nat
           /\ Cardinality(B) <= Cardinality(A) + 1
           /\ w \in A \/ w \notin B => Cardinality(B) <= Cardinality(A)
  <1>1. /\ Cardinality(A) \in Nat /\ Cardinality(B) \in Nat
        /\ Cardinality(B) = Cardinality(A) - In(w, A) + In(w, B)
    BY ButOne
  <1> QED
    BY <1>1 DEF In

LEMMA BorrowedInvInit ==
    ASSUME ShortenerAssumed, Shortener!Init
    PROVE  BorrowedInv
  <1>1. Writers = {} /\ Readers = {} /\ Committers = {}
    BY DEF Shortener!Init, Writers, Readers, Committers
  <1>2. Shortener!Borrowed = 0
    BY <1>1, BorrowersCounted, FS_EmptySet
  <1> QED
    BY <1>2 DEF BorrowedInv, ShortenerAssumed

LEMMA BorrowedInvStep ==
    ASSUME ShortenerAssumed, ShortenerShape, BorrowedInv, Shortener!Next \/ UNCHANGED shortenerVars
    PROVE  BorrowedInv'
  <1> DEFINE a == Cardinality(Writers)
             b == Cardinality(Readers)
             c == Cardinality(Committers)
             a2 == Cardinality(Writers')
             b2 == Cardinality(Readers')
             c2 == Cardinality(Committers')
  <1>0. /\ a \in Nat /\ b \in Nat /\ c \in Nat /\ a2 \in Nat /\ b2 \in Nat /\ c2 \in Nat
        /\ IsFiniteSet(Writers) /\ IsFiniteSet(Readers) /\ IsFiniteSet(Committers) /\ MaxConn \in Nat
        /\ Shortener!Borrowed = a + b + c /\ Shortener!Borrowed' = a2 + b2 + c2
        /\ a + b + c <= MaxConn
    <2>1. /\ IsFiniteSet(Writers)' /\ a2 \in Nat /\ b2 \in Nat /\ c2 \in Nat
          /\ Shortener!Borrowed' = a2 + b2 + c2
      <3>1. IsFiniteSet(Writers') /\ IsFiniteSet(Readers') /\ IsFiniteSet(Committers')
        BY FS_Subset DEF ShortenerAssumed, Writers, Readers, Committers
      <3>2. \A S : Shortener!Cardinality(S) = Cardinality(S)
        BY DEF Shortener!Cardinality, Cardinality
      <3>3. Shortener!Borrowed' = a2 + b2 + c2
        BY <3>2 DEF Shortener!Borrowed, Writers, Readers, Committers
      <3> QED
        BY <3>1, <3>3, FS_CardinalityType
    <2> QED
      BY <2>1, BorrowersCounted DEF BorrowedInv, ShortenerAssumed
  <1>1. UNCHANGED writing => Writers' = Writers
    BY DEF Writers
  <1>2. UNCHANGED redirect => Readers' = Readers
    BY DEF Readers
  <1>3. UNCHANGED flush => Committers' = Committers
    BY DEF Committers
  <1>4. Shortener!PoolHasOne => a + b + c < MaxConn
    BY <1>0 DEF Shortener!PoolHasOne
  \* The pool is left as it is, or one more is taken from it and it had one.
  <1>5. ASSUME \/ a2 <= a /\ b2 <= b /\ c2 <= c
               \/ /\ Shortener!PoolHasOne
                  /\ a2 + b2 + c2 <= a + b + c + 1
        PROVE  BorrowedInv'
    <2>1. a2 + b2 + c2 <= MaxConn
      <3> HIDE DEF a, b, c, a2, b2, c2
      <3> QED
        BY <1>0, <1>4, <1>5
    <2> QED
      BY <1>0, <2>1 DEF BorrowedInv
  <1>6. CASE UNCHANGED <<writing, redirect, flush>>
    <2>1. a2 = a /\ b2 = b /\ c2 = c
      BY <1>1, <1>2, <1>3, <1>6
    <2> QED
      BY <1>0, <1>5, <2>1
  <1>7. CASE Shortener!Shortening
    <2>1. PICK w \in Shorteners : Shortener!TakeId(w) \/ Shortener!TakePlaceholder(w)
                                    \/ Shortener!NameAndCommit(w) \/ Shortener!Rollback(w)
      BY <1>7 DEF Shortener!Shortening
    <2>2. /\ UNCHANGED <<redirect, flush>>
          /\ \A v \in Shorteners : v # w => writing'[v] = writing[v]
          /\ writing'[w] # 0 => writing[w] # 0 \/ Shortener!PoolHasOne
      BY <2>1 DEF Shortener!TakeId, Shortener!TakePlaceholder, Shortener!NameAndCommit,
         Shortener!Rollback, ShortenerShape
    <2>3. Writers \ {w} = Writers' \ {w}
      BY <2>2 DEF Writers
    <2>4. w \in Writers \/ w \notin Writers' \/ Shortener!PoolHasOne
      BY <2>2 DEF Writers
    <2>5. a2 <= a + 1 /\ (w \in Writers \/ w \notin Writers' => a2 <= a)
      BY <1>0, <2>3, OneBorrower
    <2>6. b2 = b /\ c2 = c
      BY <1>2, <1>3, <2>2
    <2> HIDE DEF a, b, c, a2, b2, c2
    <2> QED
      BY <1>0, <1>5, <2>4, <2>5, <2>6
  <1>8. ASSUME NEW d \in Redirects,
               (\E k \in Shortener!Codes : Shortener!Lookup(d, k)) \/ Shortener!Select(d)
                 \/ Shortener!Store(d) \/ Shortener!CountHit(d)
        PROVE  BorrowedInv'
    <2>1. /\ UNCHANGED <<writing, flush>>
          /\ \A e \in Redirects : e # d => redirect'[e] = redirect[e]
          /\ redirect'[d].pc = "select" => Shortener!PoolHasOne
      BY <1>8 DEF Shortener!Lookup, Shortener!Select, Shortener!Store, Shortener!CountHit,
         Shortener!Move, ShortenerShape, RedirectSet
    <2>2. Readers \ {d} = Readers' \ {d}
      BY <2>1 DEF Readers
    <2>3. d \notin Readers' \/ Shortener!PoolHasOne
      BY <2>1 DEF Readers
    <2>4. b2 <= b + 1 /\ (d \notin Readers' => b2 <= b)
      BY <1>0, <2>2, OneBorrower
    <2>5. a2 = a /\ c2 = c
      BY <1>1, <1>3, <2>1
    <2> HIDE DEF a, b, c, a2, b2, c2
    <2> QED
      BY <1>0, <1>5, <2>3, <2>4, <2>5
  <1>9. ASSUME NEW f \in Flushers,
               Shortener!Scan(f) \/ (\E k \in Shortener!Codes : Shortener!GetDel(f, k))
                 \/ Shortener!FlushConnect(f) \/ Shortener!FlushCommit(f) \/ Shortener!FlushFails(f)
        PROVE  BorrowedInv'
    <2>1. /\ UNCHANGED <<writing, redirect>>
          /\ \A g \in Flushers : g # f => flush'[g] = flush[g]
          /\ flush'[f].pc = "update" => Shortener!PoolHasOne
      <3>1. flush \in [Flushers -> FlushSet]
        BY DEF ShortenerShape
      <3>2. CASE Shortener!Scan(f)
        BY <3>1, <3>2 DEF Shortener!Scan, FlushSet
      <3>3. ASSUME NEW k \in Shortener!Codes, Shortener!GetDel(f, k)
            PROVE  /\ UNCHANGED <<writing, redirect>>
                   /\ \A g \in Flushers : g # f => flush'[g] = flush[g]
                   /\ flush'[f].pc # "update"
        BY <3>1, <3>3 DEF Shortener!GetDel, FlushSet
      <3>4. CASE Shortener!FlushConnect(f)
        BY <3>1, <3>4 DEF Shortener!FlushConnect, FlushSet
      <3>5. CASE Shortener!FlushCommit(f) \/ Shortener!FlushFails(f)
        <4>1. UNCHANGED <<writing, redirect>> /\ flush' = [flush EXCEPT ![f] = Shortener!Flushed(f)]
          BY <3>5 DEF Shortener!FlushCommit, Shortener!FlushFails
        <4>2. flush[f] \in FlushSet
          BY <3>1
        <4>3. Shortener!Flushed(f).pc = "idle"
          BY <4>2 DEF Shortener!Flushed, FlushSet
        <4> QED
          BY <3>1, <4>1, <4>3
      <3> QED
        BY <1>9, <3>2, <3>3, <3>4, <3>5
    <2>2. Committers \ {f} = Committers' \ {f}
      BY <2>1 DEF Committers
    <2>3. f \notin Committers' \/ Shortener!PoolHasOne
      BY <2>1 DEF Committers
    <2>4. c2 <= c + 1 /\ (f \notin Committers' => c2 <= c)
      BY <1>0, <2>2, OneBorrower
    <2>5. a2 = a /\ b2 = b
      BY <1>1, <1>2, <2>1
    <2> HIDE DEF a, b, c, a2, b2, c2
    <2> QED
      BY <1>0, <1>5, <2>3, <2>4, <2>5
  <1>10. ASSUME \/ \E k \in Shortener!Codes : Shortener!Expire(k)
                \/ Shortener!FlushAll \/ Shortener!ShortenerIdle \/ UNCHANGED shortenerVars
         PROVE  BorrowedInv'
    <2>1. UNCHANGED <<writing, redirect, flush>>
      BY <1>10 DEF Shortener!Expire, Shortener!FlushAll, Shortener!ShortenerIdle, Shortener!vars,
         shortenerVars
    <2> QED
      BY <1>6, <2>1
  <1> QED
    BY <1>7, <1>8, <1>9, <1>10 DEF Shortener!Next, Shortener!Redirecting, Shortener!FlushHits

LEMMA ShortenerTyped ==
    ASSUME ShortenerAssumed, ShortenerInv, BorrowedInv
    PROVE  Shortener!TypeOK
  <1>1. DOMAIN urls \subseteq 1..nextId - 1
    BY DEF ShortenerInv, ShortenerShape
  <1>2. holder = Shortener!NoOne \/ writing[holder] # 0
    BY DEF ShortenerInv, WritersApart
  <1>3. Shortener!Borrowed \in 0..MaxConn
    BY BorrowersCounted DEF BorrowedInv, ShortenerAssumed
  <1> QED
    BY <1>1, <1>2, <1>3 DEF Shortener!TypeOK

\* The other labs' types stand in their inductive invariants.
LEMMA OthersTyped ==
    ASSUME StoreInv, VideoInv, DispatchInv, RegistryInv, RegionsInv, ClocksInv, ServersInv
    PROVE  /\ Failure!StoreTypeOK /\ Pipeline!TypeOK /\ Dispatch!TypeOK /\ Registry!TypeOK
           /\ Region!RegionTypeOK /\ Region!ClockTypeOK /\ Limits!ServersTypeOK
  <1>1. Failure!StoreTypeOK
    BY DEF StoreInv, StoreShape, Failure!StoreTypeOK
  <1>2. Pipeline!TypeOK
    BY DEF VideoInv, FilesInv, FilesFirst, SeedFirst, ScriptFirst, ViewsInv, ViewsShape, Pipeline!TypeOK
  <1>3. Dispatch!TypeOK
    BY DEF DispatchInv, DispatchShape, RequestSet, Dispatch!TypeOK
  <1>4. Registry!TypeOK
    BY DEF RegistryInv, WatchInv, LeaderInv, LogIsHistory, Registry!TypeOK
  <1>5. Region!RegionTypeOK /\ Region!ClockTypeOK /\ Limits!ServersTypeOK
    BY DEF RegionsInv, RegionShape, ClocksInv, ClockShape, ServersInv, ServersShape
  <1> QED
    BY <1>1, <1>2, <1>3, <1>4, <1>5

LEMMA LimiterTyped ==
    ASSUME LimitsAssumed, LimiterInv
    PROVE  Limits!LimiterTypeOK
  <1>1. Len(results) + Cardinality(Taken) <= MaxCalls /\ Len(results) \in Nat
    BY DEF LimiterInv, LimiterShape
  <1>2. Cardinality(Taken) \in Nat
    BY FS_Subset, FS_CardinalityType DEF Taken, LimitsAssumed
  <1>3. Len(results) <= MaxCalls
    BY <1>1, <1>2 DEF LimitsAssumed
  <1> QED
    BY <1>3 DEF LimiterInv, LimiterShape, Limits!LimiterTypeOK

-----------------------------------------------------------------------------
(***************************************************************************)
(* The theorems of the lab.  The labs share nothing, so the invariant of   *)
(* each holds of the states it starts in and of each step, its own or one  *)
(* of another lab that leaves it alone.                                    *)
(***************************************************************************)

\* As long as no write became due before an older one and no delivery failed (a shorter lag
\* alone can do the first), the secondary shows every write up to the last delivered one,
\* the regions are equal once nothing is on the way, and a failover loses only writes that
\* were not delivered; region B is arbiter once only.  A hybrid timestamp is above all its
\* region has seen, whatever the physical clocks show (02/19).
THEOREM RegionsAgree == MCSpec => []RegionsConverge
  <1>1. MCInit => RegionsInv /\ ClocksInv
    BY MCAssumption, RegionsInvInit, ClocksInvInit DEF MCInit, RegionAssumed
  <1>2. RegionsInv /\ [MCNext]_mcVars => RegionsInv'
    BY MCAssumption, RegionsInvStep DEF MCNext, mcVars, RegionAssumed
  <1>3. ClocksInv /\ [MCNext]_mcVars => ClocksInv'
    BY MCAssumption, ClocksInvStep DEF MCNext, mcVars, RegionAssumed
  <1>4. RegionsInv /\ ClocksInv => RegionsConverge
    BY RegionsInvSuffices, ClocksInvSuffices DEF RegionsConverge
  <1> QED
    BY <1>1, <1>2, <1>3, <1>4, PTL DEF MCSpec

\* A limiter admits no more than its rate and its burst, or its window, allow: the atomic
\* bucket and the counters for any callers whose reads and writes interleave, the racy bucket
\* and the log while calls do not overtake each other, the sliding counter in the windows of
\* the clock only (02/10); servers that share a counter admit no more than the limit in a
\* window whose count was not lost, unchecked requests aside, which need an outage (C10).
THEOREM LimitsStand == MCSpec => []LimitsHold
  <1>1. MCInit => LimiterInv /\ ServersInv
    BY MCAssumption, LimiterInvInit, ServersInvInit DEF MCInit
  <1>2. LimiterInv /\ [MCNext]_mcVars => LimiterInv'
    BY MCAssumption, LimiterInvStep DEF MCNext, mcVars
  <1>3. ServersInv /\ [MCNext]_mcVars => ServersInv'
    BY MCAssumption, ServersInvStep DEF MCNext, mcVars
  <1>4. LimiterInv /\ ServersInv => LimitsHold
    BY MCAssumption, LimiterInvSuffices, ServersInvSuffices DEF LimitsHold
  <1> QED
    BY <1>1, <1>2, <1>3, <1>4, PTL DEF MCSpec

\* A driver in the index has a heartbeat; one who is matched is a candidate of the last
\* search, was available at some moment of the request, and has the shortest ETA among the
\* candidates who were available all along; and nobody who was there all along is passed
\* over with a 503 (C04).  The watcher's log and the events still to come replay to the
\* registry; a leader with a live lease holds the key, has the key's revision as its token
\* once it has read it, and no token is above that (02/14).
THEOREM MembershipStands == MCSpec => []MembershipIsTrue
  <1>1. MCInit => DispatchInv /\ RegistryInv
    BY MCAssumption, DispatchInvInit, RegistryInvInit DEF MCInit
  <1>2. DispatchInv /\ [MCNext]_mcVars => DispatchInv'
    BY MCAssumption, DispatchInvStep DEF MCNext, mcVars
  <1>3. RegistryInv /\ [MCNext]_mcVars => RegistryInv'
    BY MCAssumption, RegistryInvStep DEF MCNext, mcVars
  <1>4. DispatchInv /\ RegistryInv => MembershipIsTrue
    BY MCAssumption, DispatchInvSuffices, RegistryInvSuffices DEF MembershipIsTrue
  <1> QED
    BY <1>1, <1>2, <1>3, <1>4, PTL DEF MCSpec

\* A code stands for one id and an id for one row or one request that has not committed it,
\* a sharded id falls apart into the fields it was made of, and every hit is in the row, in
\* Redis, in one flush or lost with one (C01); a row that the upload script wrote never
\* speaks of a file that is not there, the rows of phase 7 having none, and every view is
\* in one place or lost with a flush (C03).
THEOREM CountersStayExact == MCSpec => []CountersAreExact
  <1>1. MCInit => ShortenerInv /\ VideoInv
    BY MCAssumption, ShortenerInvInit, VideoInvInit DEF MCInit
  <1>2. ShortenerInv /\ [MCNext]_mcVars => ShortenerInv'
    BY MCAssumption, ShortenerInvStep DEF MCNext, mcVars
  <1>3. VideoInv /\ [MCNext]_mcVars => VideoInv'
    BY MCAssumption, VideoInvStep DEF MCNext, mcVars
  <1>4. ShortenerInv /\ VideoInv => CountersAreExact
    BY MCAssumption, ShortenerInvSuffices, VideoInvSuffices DEF CountersAreExact
  <1> QED
    BY <1>1, <1>2, <1>3, <1>4, PTL DEF MCSpec

\* The crawler asks for no page twice, for none its rules disallow, for no more than its
\* limits, and for no host before its own delay has passed; a saved page has the depth of a
\* shortest path, and once nothing is left to crawl every link of a saved page was asked for,
\* dropped by a rule or hidden by a false positive of the filter (C07).
THEOREM CrawlStaysSound == MCSpec => []CrawlIsSound
  <1>1. MCInit => CrawlInv
    BY MCAssumption, CrawlInvInit DEF MCInit
  <1>2. CrawlInv /\ [MCNext]_mcVars => CrawlInv'
    BY MCAssumption, CrawlInvStep DEF MCNext, mcVars
  <1>3. CrawlInv => CrawlIsSound
    BY MCAssumption, CrawlInvSuffices DEF CrawlIsSound
  <1> QED
    BY <1>1, <1>2, <1>3, PTL DEF MCSpec

\* Every variable keeps its type, and the bounds stand: no counter of the pool is above the
\* calls there are, no connection is borrowed from an empty pool, no limiter answers more
\* calls than were made, and no query calls more resolvers than two for every user.
THEOREM ServicesTyped == MCSpec => []TypeOK
  <1> DEFINE Pooled == PoolInv /\ BooksInv /\ ReadInv
             Shortened == ShortenerInv /\ BorrowedInv
             Others == StoreInv /\ VideoInv /\ DispatchInv /\ RegistryInv /\ RegionsInv /\ ClocksInv
             Bounded == LimiterInv /\ ServersInv /\ CrawlInv
  <1>1. MCInit => ApiInv /\ FiredInv
    BY MCAssumption, ApiInvInit, FiredInvInit DEF MCInit
  <1>2. MCInit => Pooled
    BY MCAssumption, InitPoolInv, InitBooksInv, ReadInvInit DEF MCInit, PoolAssumed
  <1>3. MCInit => Shortened
    BY MCAssumption, ShortenerInvInit, BorrowedInvInit DEF MCInit
  <1>4. MCInit => Others
    BY MCAssumption, InitStoreInv, VideoInvInit, DispatchInvInit, RegistryInvInit, RegionsInvInit,
       ClocksInvInit DEF MCInit, RegionAssumed
  <1>5. MCInit => Bounded
    BY MCAssumption, LimiterInvInit, ServersInvInit, CrawlInvInit DEF MCInit
  <1>6. ApiInv /\ FiredInv /\ [MCNext]_mcVars => ApiInv' /\ FiredInv'
    BY MCAssumption, ApiInvStep, FiredInvStep DEF MCNext, mcVars
  <1>7. Pooled /\ [MCNext]_mcVars => Pooled'
    BY MCAssumption, PoolInvStep, BooksInvStep, ReadInvStep DEF MCNext, mcVars, PoolAssumed
  <1>8. Shortened /\ [MCNext]_mcVars => Shortened'
    BY MCAssumption, ShortenerInvStep, BorrowedInvStep DEF MCNext, mcVars, ShortenerInv
  <1>9. Others /\ [MCNext]_mcVars => Others'
    <2>1. StoreInv /\ [MCNext]_mcVars => StoreInv'
      BY StoreInvStep DEF MCNext, mcVars
    <2>2. VideoInv /\ [MCNext]_mcVars => VideoInv'
      BY MCAssumption, VideoInvStep DEF MCNext, mcVars
    <2>3. DispatchInv /\ RegistryInv /\ [MCNext]_mcVars => DispatchInv' /\ RegistryInv'
      BY MCAssumption, DispatchInvStep, RegistryInvStep DEF MCNext, mcVars
    <2>4. RegionsInv /\ ClocksInv /\ [MCNext]_mcVars => RegionsInv' /\ ClocksInv'
      BY MCAssumption, RegionsInvStep, ClocksInvStep DEF MCNext, mcVars, RegionAssumed
    <2> QED
      BY <2>1, <2>2, <2>3, <2>4
  <1>10. Bounded /\ [MCNext]_mcVars => Bounded'
    BY MCAssumption, LimiterInvStep, ServersInvStep, CrawlInvStep DEF MCNext, mcVars
  <1>11. ApiInv /\ FiredInv /\ Pooled /\ Shortened /\ Others /\ Bounded => TypeOK
    BY MCAssumption, ApiTyped, PoolTyped, ShortenerTyped, OthersTyped, LimiterTyped, CrawlInvSuffices
       DEF TypeOK
  <1> HIDE DEF Pooled, Shortened, Others, Bounded
  <1> QED
    BY <1>1, <1>2, <1>3, <1>4, <1>5, <1>6, <1>7, <1>8, <1>9, <1>10, <1>11, PTL DEF MCSpec

\* A key pays twice only when two of its requests overlapped, one died before its store, or
\* its answer expired, and a replayed answer names a payment of that key; the resolver counts
\* add up while no query meets another one or a reading (01/11).  A stored response is final,
\* and a pool counts its calls and rejects only when it is full (01/14).
THEOREM RequestsStayHonoured == MCSpec => RequestsAreHonoured
  <1> DEFINE Honest == lab = "api" => Api!ApiIsHonest
             Final == lab = "once" => Failure!StoreIsFinal
             Tight == lab = "bulkhead" => Failure!BulkheadIsTight
             Full == lab = "bulkhead" => Failure!RejectsWhenFull
  <1>1. MCInit => ApiInv /\ StoreInv /\ PoolInv /\ BooksInv
    BY MCAssumption, ApiInvInit, InitStoreInv, InitPoolInv, InitBooksInv DEF MCInit, PoolAssumed
  <1>2. ApiInv /\ [MCNext]_mcVars => ApiInv'
    BY MCAssumption, ApiInvStep DEF MCNext, mcVars
  <1>3. StoreInv /\ [MCNext]_mcVars => StoreInv'
    BY StoreInvStep DEF MCNext, mcVars
  <1>4. PoolInv /\ BooksInv /\ [MCNext]_mcVars => PoolInv' /\ BooksInv'
    BY MCAssumption, PoolInvStep, BooksInvStep DEF MCNext, mcVars, PoolAssumed
  <1>5. ApiInv => Honest
    BY MCAssumption, ApiInvSuffices
  <1>6. StoreInv => Final
    BY StoreInvSuffices
  <1>7. PoolInv /\ BooksInv => Tight
    BY PermitsAreAccounted, BooksInvSuffices DEF PoolInv, Failure!BulkheadIsTight
  <1>8. PoolInv /\ [MCNext]_mcVars => [Full]_poolVars
    <2>1. PoolInv /\ lab = "bulkhead" /\ [MCNext]_mcVars => [Failure!PoolNext]_poolVars
      BY DEF MCNext, mcVars
    <2> QED
      BY <2>1, MCAssumption, RejectionsStep DEF PoolAssumed
  <1> HIDE DEF Honest, Final, Tight, Full
  <1>9. MCSpec => [](ApiInv /\ StoreInv /\ PoolInv /\ BooksInv)
    BY <1>1, <1>2, <1>3, <1>4, PTL DEF MCSpec
  <1>10. MCSpec => []Honest /\ []Final /\ []Tight /\ [][Full]_poolVars
    BY <1>5, <1>6, <1>7, <1>8, <1>9, PTL DEF MCSpec
  <1> QED
    BY <1>10, PTL DEF RequestsAreHonoured, Honest, Final, Tight, Full
=============================================================================
