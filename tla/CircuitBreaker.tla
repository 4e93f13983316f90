--------------------------- MODULE CircuitBreaker ---------------------------
(***************************************************************************)
(* The circuit breaker of 01-foundations/14-failure-modes-reliability.     *)
(* call(fn) decides under the lock whether fn may run, runs it outside the *)
(* lock, and records its outcome under the lock again; so outcomes arrive  *)
(* in any order, and in any state of the breaker.                          *)
(***************************************************************************)
EXTENDS Integers, TLAPS

CONSTANTS
    Threads,      \* the callers that share the breaker
    Threshold,    \* failure_threshold
    MinRequests,  \* min_requests
    Cap           \* counters stop here: they are only compared with the two above

ASSUME BreakerAssumption ==
    /\ Threshold \in Nat \ {0} /\ MinRequests \in Nat /\ Cap \in Nat
    /\ Threshold <= Cap /\ MinRequests <= Cap

VARIABLES
    state,      \* CLOSED, OPEN or HALF_OPEN
    failures,   \* failure_count
    successes,  \* success_count
    cooled,     \* recovery_timeout has passed since opened_at
    pc,         \* pc[t]: where thread t is in call
    healthy     \* whether the downstream answers (its /fail and /recover)

vars == <<state, failures, successes, cooled, pc, healthy>>

TypeOK ==
    /\ state \in {"CLOSED", "OPEN", "HALF_OPEN"}
    /\ failures \in 0..Cap /\ successes \in 0..Cap
    /\ cooled \in BOOLEAN /\ healthy \in BOOLEAN
    /\ pc \in [Threads -> {"idle", "calling", "ok", "failed"}]

Init ==
    /\ state = "CLOSED"
    /\ failures = 0 /\ successes = 0
    /\ cooled = FALSE
    /\ pc = [t \in Threads |-> "idle"]
    /\ healthy = TRUE

Goto(t, l) == pc' = [pc EXCEPT ![t] = l]
Count(n) == IF n < Cap THEN n + 1 ELSE Cap

\* call, first lock section: an open breaker rejects until the cooldown has
\* passed (the rejection changes nothing), then lets callers probe.
Admit(t) ==
    /\ pc[t] = "idle"
    /\ state = "OPEN" => cooled
    /\ state' = IF state = "OPEN" THEN "HALF_OPEN" ELSE state
    /\ Goto(t, "calling")
    /\ UNCHANGED <<failures, successes, cooled, healthy>>

\* fn() runs outside the lock; its outcome is that of the downstream now.
Respond(t) ==
    /\ pc[t] = "calling"
    /\ Goto(t, IF healthy THEN "ok" ELSE "failed")
    /\ UNCHANGED <<state, failures, successes, cooled, healthy>>

\* Mutation: a success does not reset failure_count.
OnSuccessKeepsFailures(t) ==
    /\ pc[t] = "ok"
    /\ state' = "CLOSED"
    /\ successes' = Count(successes)
    /\ Goto(t, "idle")
    /\ UNCHANGED <<failures, cooled, healthy>>

\* Mutation: only the counters are updated.
OnSuccessStaysOpen(t) ==
    /\ pc[t] = "ok"
    /\ failures' = 0
    /\ successes' = Count(successes)
    /\ Goto(t, "idle")
    /\ UNCHANGED <<state, cooled, healthy>>

\* _on_success: whatever the state is by now.
OnSuccess(t) ==
    /\ pc[t] = "ok"
    /\ state' = "CLOSED"
    /\ failures' = 0
    /\ successes' = Count(successes)
    /\ Goto(t, "idle")
    /\ UNCHANGED <<cooled, healthy>>

\* The condition under which _on_failure opens a breaker that is not probing.
Trips(f) == f >= Threshold /\ f + successes >= MinRequests

\* _on_failure: a failed probe opens the breaker again; a failure that arrives
\* while it is open starts the cooldown again.
OnFailure(t) ==
    /\ pc[t] = "failed"
    /\ failures' = Count(failures)
    /\ IF state = "HALF_OPEN" \/ Trips(failures')
         THEN state' = "OPEN" /\ cooled' = FALSE
         ELSE UNCHANGED <<state, cooled>>
    /\ Goto(t, "idle")
    /\ UNCHANGED <<successes, healthy>>

\* time.time() passes opened_at + recovery_timeout.
Cooldown ==
    /\ state = "OPEN" /\ ~cooled
    /\ cooled' = TRUE
    /\ UNCHANGED <<state, failures, successes, pc, healthy>>

\* The downstream starts or stops failing.
Downstream ==
    /\ healthy' = ~healthy
    /\ UNCHANGED <<state, failures, successes, cooled, pc>>

Step(t) == Admit(t) \/ Respond(t) \/ OnSuccess(t) \/ OnFailure(t)

Next == Cooldown \/ Downstream \/ \E t \in Threads : Step(t)

Spec == Init /\ [][Next]_vars

\* A thread that is in call goes on, time passes, and the program keeps calling
\* (the loop of phase 3).
FairSpec == Spec /\ WF_vars(Cooldown) /\ \A t \in Threads : WF_vars(Step(t))

-----------------------------------------------------------------------------
(***************************************************************************)
(* Properties                                                              *)
(***************************************************************************)

\* The breaker lets traffic through unconditionally exactly when the failures
\* since the last success are not enough to open it: no order of late
\* outcomes leaves it open without cause, or closed in spite of a cause, so
\* that the counters alone explain the state (_on_success, _on_failure).
OpenIffFailing == state # "CLOSED" <=> Trips(failures)

\* The breaker cannot get stuck: when the downstream has recovered for good,
\* the breaker closes for good, whatever outcomes are still to be recorded.
EventuallyCloses == <>[]healthy => <>[](state = "CLOSED")

\* The comment on HALF_OPEN: "one request allowed through" (line 94).  While the
\* breaker is half open its probe is still running, so a call admitted in that
\* state is a second one.
OneProbe ==
    [][\A t \in Threads : state = "HALF_OPEN" /\ pc[t] = "idle" => pc'[t] = "idle"]_vars
-----------------------------------------------------------------------------
(***************************************************************************)
(* The counters of the breaker explain its state, for any number of        *)
(* threads, any threshold and any min_requests.                            *)
(***************************************************************************)
\* A counter that is incremented stays in its range, and does not decrease.
LEMMA CountGrows ==
    ASSUME NEW n \in 0..Cap
    PROVE  Count(n) \in 0..Cap /\ Count(n) >= n
  BY BreakerAssumption, SMT DEF Count

\* A failure more never undoes the condition that opened the breaker
\* (_on_failure only adds to failure_count).
LEMMA TripsGrows ==
    ASSUME failures \in 0..Cap, successes \in 0..Cap, Trips(failures)
    PROVE  Trips(Count(failures))
<1>1. Count(failures) \in 0..Cap /\ Count(failures) >= failures
  BY CountGrows
<1> QED  BY <1>1, BreakerAssumption, SMT DEF Trips

\* The initial state has the types.
LEMMA TypeInit == Init => TypeOK
<1> SUFFICES ASSUME Init  PROVE TypeOK
  OBVIOUS
<1>1. failures \in 0..Cap /\ successes \in 0..Cap
  BY BreakerAssumption DEF Init
<1>2. cooled \in BOOLEAN /\ healthy \in BOOLEAN
  BY Zenon DEF Init
<1>3. pc \in [Threads -> {"idle", "calling", "ok", "failed"}]
  BY DEF Init
<1> QED  BY <1>1, <1>2, <1>3 DEF Init, TypeOK

\* Every step keeps the types: the counters stay within their cap.
LEMMA TypeStep == TypeOK /\ [Next]_vars => TypeOK'
<1> SUFFICES ASSUME TypeOK, [Next]_vars  PROVE TypeOK'
  OBVIOUS
<1> USE DEF TypeOK
<1>1. ASSUME NEW t \in Threads, Admit(t)  PROVE TypeOK'
  BY <1>1 DEF Admit, Goto
<1>2. ASSUME NEW t \in Threads, Respond(t)  PROVE TypeOK'
  BY <1>2 DEF Respond, Goto
<1>3. ASSUME NEW t \in Threads, OnSuccess(t)  PROVE TypeOK'
  <2>1. failures' \in 0..Cap /\ successes' \in 0..Cap
    BY <1>3, CountGrows, BreakerAssumption DEF OnSuccess
  <2> QED  BY <1>3, <2>1 DEF OnSuccess, Goto
<1>4. ASSUME NEW t \in Threads, OnFailure(t)  PROVE TypeOK'
  <2>1. failures' \in 0..Cap
    BY <1>4, CountGrows DEF OnFailure
  <2> QED  BY <1>4, <2>1 DEF OnFailure, Goto
<1>5. CASE Cooldown  BY <1>5 DEF Cooldown
<1>6. CASE Downstream  BY <1>6 DEF Downstream
<1>7. CASE UNCHANGED vars  BY <1>7 DEF vars
<1> QED  BY <1>1, <1>2, <1>3, <1>4, <1>5, <1>6, <1>7 DEF Next, Step

\* Every step keeps the counters and the state in agreement.
LEMMA OpenStep == TypeOK /\ OpenIffFailing /\ [Next]_vars => OpenIffFailing'
<1> SUFFICES ASSUME TypeOK, OpenIffFailing, [Next]_vars  PROVE OpenIffFailing'
  OBVIOUS
<1>1. ASSUME NEW t \in Threads, Admit(t)  PROVE OpenIffFailing'
  BY <1>1 DEF Admit, OpenIffFailing, Trips
<1>2. ASSUME NEW t \in Threads, Respond(t)  PROVE OpenIffFailing'
  BY <1>2 DEF Respond, OpenIffFailing, Trips
<1>3. ASSUME NEW t \in Threads, OnSuccess(t)  PROVE OpenIffFailing'
  BY <1>3, BreakerAssumption, SMT DEF OnSuccess, OpenIffFailing, Trips
<1>4. ASSUME NEW t \in Threads, OnFailure(t)  PROVE OpenIffFailing'
  <2>1. failures' = Count(failures) /\ successes' = successes
    BY <1>4 DEF OnFailure
  <2>2. CASE state = "CLOSED"
    <3>1. state' # "CLOSED" <=> Trips(failures')
      BY <1>4, <2>2 DEF OnFailure
    <3> QED  BY <3>1, <2>1 DEF OpenIffFailing, Trips
  <2>3. CASE state # "CLOSED"
    <3>1. Trips(failures')
      BY <2>1, <2>3, TripsGrows DEF OpenIffFailing, TypeOK
    <3>2. state' = "OPEN"
      BY <1>4, <3>1 DEF OnFailure
    <3> QED  BY <3>1, <3>2, <2>1 DEF OpenIffFailing, Trips
  <2> QED  BY <2>2, <2>3
<1>5. CASE Cooldown  BY <1>5 DEF Cooldown, OpenIffFailing, Trips
<1>6. CASE Downstream  BY <1>6 DEF Downstream, OpenIffFailing, Trips
<1>7. CASE UNCHANGED vars  BY <1>7 DEF vars, OpenIffFailing, Trips
<1> QED  BY <1>1, <1>2, <1>3, <1>4, <1>5, <1>6, <1>7 DEF Next, Step

\* In every state the breaker lets traffic through unconditionally exactly when
\* the failures since the last success are too few to open it: neither a late
\* success nor a late failure can leave the state and the counters at odds.
THEOREM BreakerExplained == Spec => []OpenIffFailing
<1>1. Init => TypeOK /\ OpenIffFailing
  <2> SUFFICES ASSUME Init  PROVE TypeOK /\ OpenIffFailing
    OBVIOUS
  <2>1. TypeOK
    BY TypeInit
  <2>2. OpenIffFailing
    BY BreakerAssumption, SMT DEF Init, OpenIffFailing, Trips
  <2> QED  BY <2>1, <2>2
<1>2. TypeOK /\ OpenIffFailing /\ [Next]_vars => (TypeOK /\ OpenIffFailing)'
  BY TypeStep, OpenStep
<1> QED  BY <1>1, <1>2, PTL DEF Spec

\* The variables of the breaker keep their types.
THEOREM BreakerTypeCorrect == Spec => []TypeOK
<1> QED  BY TypeInit, TypeStep, PTL DEF Spec
=============================================================================
