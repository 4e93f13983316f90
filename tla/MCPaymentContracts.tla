-------------------------- MODULE MCPaymentContracts --------------------------
(* The two services that promise one effect per idempotency key, for TLC, one *)
(* at a time: the payment API with many requests on one key, and the payment  *)
(* service with two customers who use the same key.                           *)
EXTENDS PaymentApi

Merchant == "merchant"
Currencies == {"usd", "eur"}

VARIABLES
    lab, servicePc, serviceArg, found, serviceAnswer, rows, ledger, outbox,
    cache, redisUp, cacheOn

serviceVars == <<servicePc, serviceArg, found, serviceAnswer, rows, ledger, outbox,
                 cache, redisUp, cacheOn>>

CONSTANTS Tenants, TenantAmounts   \* the requests of the payment service

Service == INSTANCE PaymentService WITH
    Requests <- Tenants, Amounts <- TenantAmounts, DefaultCurrency <- "usd",
    pc <- servicePc, arg <- serviceArg, answer <- serviceAnswer

MCInit ==
    /\ lab \in {"api", "service"}
    /\ Init /\ Service!Init /\ (lab = "api" => redisUp)

MCNext ==
    /\ UNCHANGED lab
    /\ IF lab = "api" THEN Next ELSE UNCHANGED vars
    /\ IF lab = "service" THEN Service!Next ELSE UNCHANGED serviceVars

\* Both run their requests in threads, and a thread that can go on goes on.
MCFairSpec ==
    /\ MCInit /\ [][MCNext]_<<lab, vars, serviceVars>>
    /\ \A r \in Requests : WF_vars(lab = "api" /\ Handle(r))
    /\ \A r \in Tenants : WF_serviceVars(lab = "service" /\ Service!Serve(r))

\* Customers who use the same key are strangers to each other: each gets the
\* answers of OncePerKey for its own charges, and every request an answer
\* (payment_service.py, the scope of the key and its unique constraint).
TenantsAreServed == Service!ImplementsOncePerKey /\ Service!EveryRequestAnswered

\* An API request is answered unless the process dies under it, and its key leaves
\* 'processing' unless its owner failed (payment_api.py, the claim and phase 2).
RequestsSettle == EveryRequestAnswered /\ ProcessingSettles
=============================================================================
