----------------------------- MODULE OncePerKey -----------------------------
(***************************************************************************)
(* What an idempotency key promises, whatever implements it: the first     *)
(* request that carries a key may have one effect, the key keeps that      *)
(* effect for ever, and every answer given for the key names it.           *)
(* PaymentService implements this contract with a UNIQUE constraint that   *)
(* is checked when a row is inserted, PaymentApi with a two-phase row.     *)
(***************************************************************************)

CONSTANTS
    Keys,      \* the idempotency keys, with the scope the service gives them
    Effects,   \* the identities of what a request may bring about
    None       \* the absence of an effect, not in Effects

VARIABLES
    effect,    \* effect[k]: what was done under key k, or None
    answers    \* the set of <<key, effect>> pairs told to some client

vars == <<effect, answers>>

TypeOK ==
    /\ effect \in [Keys -> Effects \cup {None}]
    /\ answers \subseteq Keys \X Effects

Init ==
    /\ effect = [k \in Keys |-> None]
    /\ answers = {}

\* The effect e happens under key k, which had none; e belongs to no other key.
Execute(k, e) ==
    /\ effect[k] = None
    /\ \A j \in Keys : effect[j] # e
    /\ effect' = [effect EXCEPT ![k] = e]
    /\ UNCHANGED answers

\* A client that sent key k is told which effect the key stands for.
Answer(k) ==
    /\ effect[k] # None
    /\ answers' = answers \cup {<<k, effect[k]>>}
    /\ UNCHANGED effect

Next == \E k \in Keys : Answer(k) \/ \E e \in Effects : Execute(k, e)

Spec == Init /\ [][Next]_vars

\* Every answer for a key names the one effect of that key, so two answers
\* for the same key agree and no client is told of something never done.
AnswersAgree == \A a \in answers : a[2] = effect[a[1]]

\* An effect belongs to at most one key.
EffectsDistinct ==
    \A j, k \in Keys : effect[j] = effect[k] /\ effect[j] # None => j = k

\* A key never loses or changes its effect.
EffectIsFinal ==
    [][\A k \in Keys : effect[k] # None => effect'[k] = effect[k]]_vars
=============================================================================
