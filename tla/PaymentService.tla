--------------------------- MODULE PaymentService ---------------------------
(***************************************************************************)
(* The payment service of 03-case-studies/12-payment-system: POST /charge  *)
(* and POST /refund over Postgres, with a Redis cache of charge answers.   *)
(*                                                                         *)
(* Requests run concurrently (Flask's threaded server).  One action is one *)
(* statement that reads or writes shared state: a Redis command, a SELECT, *)
(* an INSERT that waits for the unique index, a COMMIT.  Postgres runs in  *)
(* READ COMMITTED, so a SELECT sees only committed rows, an INSERT of a    *)
(* key that another open transaction has inserted waits for that           *)
(* transaction, and an UPDATE waits for the row lock.  The work of an open *)
(* transaction lives in the request's pc until COMMIT.                     *)
(***************************************************************************)
EXTENDS Integers, FiniteSets, TLC

CONSTANTS
    Requests,         \* request identities; also the uuid of the row one inserts
    Customers,
    Merchant,         \* MERCHANT_ACCOUNT
    Keys,             \* idempotency key strings that do not start with "refund-"
    Amounts,          \* the amounts clients send, not all of them positive
    Currencies,
    DefaultCurrency,  \* DEFAULT 'USD' of the column ledger_entries.currency
    None

ASSUME PaymentAssumption ==
    /\ Amounts \subseteq Int
    /\ DefaultCurrency \in Currencies
    /\ Merchant \notin Customers
    /\ None \notin Requests

VARIABLES
    pc,        \* pc[r]: the statement request r executes next
    arg,       \* arg[r]: the body of the request
    found,     \* found[r]: the row a charge's first SELECT returned
    answer,    \* answer[r]: what the handler returned
    rows,      \* table transactions: rows[r] is the committed row with id r
    ledger,    \* table ledger_entries, committed rows
    outbox,    \* table outbox_events: ids of the transactions announced
    cache,     \* Redis: the transaction id cached for <<customer, key>>
    redisUp,   \* the Redis server answers
    cacheOn    \* rcache is not None: Redis answered when the process started

dbVars == <<rows, ledger, outbox>>
redisVars == <<cache, redisUp, cacheOn>>
vars == <<pc, arg, found, answer, rows, ledger, outbox, cache, redisUp, cacheOn>>

\* The key column: a refund stores "refund-" followed by the client's key, and
\* a client may send such a string as the key of a charge.
StoredKeys == {"", "refund-"} \X Keys
ScopedKeys == Customers \X StoredKeys

ChargeArgs == [kind : {"charge"}, customer : Customers, key : StoredKeys,
               amount : Amounts, currency : Currencies]
RefundArgs == [kind : {"refund"}, target : Requests, key : Keys]

Rows == [customer : Customers, key : StoredKeys, amount : Amounts,
         currency : Currencies, status : {"completed", "refunded"},
         of : Requests \cup {None}]
Entries == [txn : Requests, account : Customers \cup {Merchant},
            amount : Amounts, currency : Currencies, side : {"debit", "credit"}]

ChargePC == {"charge_start", "charge_lookup", "charge_refill", "charge_insert",
             "charge_commit", "charge_fill", "charge_conflict"}
RefundPC == {"refund_start", "refund_load", "refund_insert", "refund_update",
             "refund_commit"}
InDatabase == (ChargePC \cup RefundPC)
                 \ {"charge_start", "charge_refill", "charge_fill"}
Words == {"created", "duplicate", "invalid", "redis_error", "internal_error",
          "refunded", "duplicate_refund", "not_found", "not_refundable"}
Answers == [what : Words, txn : Requests \cup {None}]

ASSUME NoneAssumption == None \notin Rows \cup Answers \cup ChargeArgs \cup RefundArgs

TypeOK ==
    /\ pc \in [Requests -> ChargePC \cup RefundPC \cup {"idle", "done", "lost"}]
    /\ arg \in [Requests -> ChargeArgs \cup RefundArgs \cup {None}]
    /\ found \in [Requests -> Requests \cup {None}]
    /\ answer \in [Requests -> Answers \cup {None}]
    /\ rows \in [Requests -> Rows \cup {None}]
    /\ ledger \subseteq Entries
    /\ outbox \subseteq Requests
    /\ cache \in [ScopedKeys -> Requests \cup {None}]
    /\ redisUp \in BOOLEAN
    /\ cacheOn \in BOOLEAN

Committed == {t \in Requests : rows[t] # None}
KeyOfRow(t) == <<rows[t].customer, rows[t].key>>
RefundKey(k) == <<"refund-", k>>

\* The <<customer_id, idempotency_key>> pair a request reads or inserts.
KeyOf(r) == IF arg[r].kind = "charge"
              THEN <<arg[r].customer, arg[r].key>>
              ELSE <<rows[arg[r].target].customer, RefundKey(arg[r].key)>>

\* Mutation: the Redis key leaves the customer out.
CacheKeyUnscoped(r) == <<CHOOSE c \in Customers : TRUE, arg[r].key>>

\* _redis_idem_key: scoped to the customer like the UNIQUE constraint.
CacheKey(r) == KeyOf(r)

\* SELECT * FROM transactions WHERE customer_id = .. AND idempotency_key = ..
Select(ck) == {t \in Committed : KeyOfRow(t) = ck}

\* Mutation: a request that fails never rolls back and keeps its index entry.
HoldersNoRollback ==
    {r \in Requests : \/ pc[r] \in {"charge_commit", "refund_update", "refund_commit"}
                      \/ /\ pc[r] = "done" /\ answer[r].what = "internal_error"
                         /\ arg[r].kind = "charge"}

\* The open transactions that have inserted a row, and so hold its index entry.
Holders == {r \in Requests : pc[r] \in {"charge_commit", "refund_update", "refund_commit"}}

Goto(r, l) == pc' = [pc EXCEPT ![r] = l]
Reply(r, w, t) ==
    /\ pc' = [pc EXCEPT ![r] = "done"]
    /\ answer' = [answer EXCEPT ![r] = [what |-> w, txn |-> t]]

Init ==
    /\ pc = [r \in Requests |-> "idle"]
    /\ arg = [r \in Requests |-> None]
    /\ found = [r \in Requests |-> None]
    /\ answer = [r \in Requests |-> None]
    /\ rows = [r \in Requests |-> None]
    /\ ledger = {}
    /\ outbox = {}
    /\ cache = [ck \in ScopedKeys |-> None]
    /\ redisUp \in BOOLEAN
    /\ cacheOn = redisUp

-----------------------------------------------------------------------------
\* A client sends a request.  A retry is a further request with the same body.
Arrive(r, a) ==
    /\ pc[r] = "idle"
    /\ arg' = [arg EXCEPT ![r] = a]
    /\ Goto(r, IF a.kind = "charge" THEN "charge_start" ELSE "refund_start")
    /\ UNCHANGED <<found, answer, dbVars, redisVars>>

(***************************************************************************)
(* POST /charge                                                            *)
(***************************************************************************)
\* Validation, then the Redis GET, which is outside the handler's try.
ChargeStart(r) ==
    /\ pc[r] = "charge_start"
    /\ IF arg[r].amount <= 0 THEN Reply(r, "invalid", None)
       ELSE IF cacheOn /\ ~redisUp THEN Reply(r, "redis_error", None)
       ELSE IF cacheOn /\ cache[CacheKey(r)] # None
              THEN Reply(r, "duplicate", cache[CacheKey(r)])
       ELSE Goto(r, "charge_lookup") /\ UNCHANGED answer
    /\ UNCHANGED <<arg, found, dbVars, redisVars>>

\* The authoritative SELECT.
ChargeLookup(r) ==
    /\ pc[r] = "charge_lookup"
    /\ \/ /\ Select(KeyOf(r)) = {}
          /\ Goto(r, "charge_insert")
          /\ UNCHANGED found
       \/ \E t \in Select(KeyOf(r)) :
             /\ found' = [found EXCEPT ![r] = t]
             /\ Goto(r, "charge_refill")
    /\ UNCHANGED <<arg, answer, dbVars, redisVars>>

\* SETEX of transaction t, then the answer; a Redis failure becomes a 500.
CacheAndReply(r, w, t) ==
    \/ /\ cacheOn /\ redisUp
       /\ cache' = [cache EXCEPT ![CacheKey(r)] = t]
       /\ Reply(r, w, t)
    \/ /\ cacheOn /\ ~redisUp
       /\ Reply(r, "redis_error", None)
       /\ UNCHANGED cache
    \/ /\ ~cacheOn
       /\ Reply(r, w, t)
       /\ UNCHANGED cache

ChargeRefill(r) ==
    /\ pc[r] = "charge_refill"
    /\ CacheAndReply(r, "duplicate", found[r])
    /\ UNCHANGED <<arg, found, dbVars, redisUp, cacheOn>>

\* Mutation: no UNIQUE constraint, the SELECT is the only check.
ChargeInsertUnchecked(r) ==
    /\ pc[r] = "charge_insert"
    /\ Goto(r, "charge_commit")
    /\ UNCHANGED <<arg, found, answer, dbVars, redisVars>>

\* INSERT INTO transactions: waits while another open transaction holds the
\* key, and raises UniqueViolation when a committed row has it.
ChargeInsert(r) ==
    /\ pc[r] = "charge_insert"
    /\ \A q \in Holders : KeyOf(q) # KeyOf(r)
    /\ Goto(r, IF Select(KeyOf(r)) = {} THEN "charge_commit" ELSE "charge_conflict")
    /\ UNCHANGED <<arg, found, answer, dbVars, redisVars>>

\* Mutation: the INSERT leaves the status to the column default.
ChargeRowPending(a) == [customer |-> a.customer, key |-> a.key, amount |-> a.amount,
                        currency |-> a.currency, status |-> "pending", of |-> None]

ChargeRow(a) == [customer |-> a.customer, key |-> a.key, amount |-> a.amount,
                 currency |-> a.currency, status |-> "completed", of |-> None]

\* create_ledger_entries with its defaults: debit the customer, credit the merchant.
ChargeEntries(t, a) ==
    {[txn |-> t, account |-> a.customer, amount |-> a.amount,
      currency |-> a.currency, side |-> "debit"],
     [txn |-> t, account |-> Merchant, amount |-> a.amount,
      currency |-> a.currency, side |-> "credit"]}

\* Mutation: the ledger and the outbox are written apart from the transaction.
CommitChargeApart(r) ==
    /\ pc[r] = "charge_commit"
    /\ \/ /\ rows' = [rows EXCEPT ![r] = ChargeRow(arg[r])]
          /\ UNCHANGED <<ledger, outbox>>
       \/ /\ ledger' = ledger \cup ChargeEntries(r, arg[r])
          /\ outbox' = outbox \cup {r}
          /\ UNCHANGED rows

CommitCharge(r) ==
    /\ pc[r] = "charge_commit"
    /\ rows' = [rows EXCEPT ![r] = ChargeRow(arg[r])]
    /\ ledger' = ledger \cup ChargeEntries(r, arg[r])
    /\ outbox' = outbox \cup {r}

\* Mutation: Redis is filled before COMMIT.
ChargeCommitCachedFirst(r) ==
    \/ CommitCharge(r) /\ Goto(r, "charge_fill") /\ UNCHANGED <<arg, found, answer, redisVars>>
    \/ /\ pc[r] = "charge_commit" /\ cacheOn /\ redisUp
       /\ cache' = [cache EXCEPT ![CacheKey(r)] = r]
       /\ UNCHANGED <<pc, arg, found, answer, dbVars, redisUp, cacheOn>>

ChargeCommit(r) ==
    /\ CommitCharge(r)
    /\ Goto(r, "charge_fill")
    /\ UNCHANGED <<arg, found, answer, redisVars>>

\* The cache is filled only after COMMIT.
ChargeFill(r) ==
    /\ pc[r] = "charge_fill"
    /\ CacheAndReply(r, "created", r)
    /\ UNCHANGED <<arg, found, dbVars, redisUp, cacheOn>>

\* except UniqueViolation: roll back and return the committed row.
ChargeConflict(r) ==
    /\ pc[r] = "charge_conflict"
    /\ \E t \in Select(KeyOf(r)) : Reply(r, "duplicate", t)
    /\ UNCHANGED <<arg, found, dbVars, redisVars>>

Charge(r) ==
    \/ ChargeStart(r) \/ ChargeLookup(r) \/ ChargeRefill(r) \/ ChargeInsert(r)
    \/ ChargeCommit(r) \/ ChargeFill(r) \/ ChargeConflict(r)

(***************************************************************************)
(* POST /refund                                                            *)
(***************************************************************************)
\* The refunds, of any customer, that carry this key.
RefundsWithKey(k) == {t \in Committed : rows[t].key = RefundKey(k)}

RefundStart(r) ==
    /\ pc[r] = "refund_start"
    /\ IF RefundsWithKey(arg[r].key) # {}
         THEN Reply(r, "duplicate_refund", None)
         ELSE Goto(r, "refund_load") /\ UNCHANGED answer
    /\ UNCHANGED <<arg, found, dbVars, redisVars>>

\* Mutation: the status of the original is not checked.
RefundLoadAnyStatus(r) ==
    /\ pc[r] = "refund_load"
    /\ IF rows[arg[r].target] = None THEN Reply(r, "not_found", None)
       ELSE Goto(r, "refund_insert") /\ UNCHANGED answer
    /\ UNCHANGED <<arg, found, dbVars, redisVars>>

\* SELECT the original, without locking it, and check its status.
RefundLoad(r) ==
    LET original == rows[arg[r].target] IN
    /\ pc[r] = "refund_load"
    /\ IF original = None THEN Reply(r, "not_found", None)
       ELSE IF original.status # "completed" THEN Reply(r, "not_refundable", None)
       ELSE Goto(r, "refund_insert") /\ UNCHANGED answer
    /\ UNCHANGED <<arg, found, dbVars, redisVars>>

\* The INSERT of the refund's row; here UniqueViolation is just an error.
RefundInsert(r) ==
    /\ pc[r] = "refund_insert"
    /\ \A q \in Holders : KeyOf(q) # KeyOf(r)
    /\ IF Select(KeyOf(r)) = {}
         THEN Goto(r, "refund_update") /\ UNCHANGED answer
         ELSE Reply(r, "internal_error", None)
    /\ UNCHANGED <<arg, found, dbVars, redisVars>>

\* UPDATE transactions SET status: waits for the row lock on the original.
RefundUpdate(r) ==
    /\ pc[r] = "refund_update"
    /\ \A q \in Requests : pc[q] = "refund_commit" => arg[q].target # arg[r].target
    /\ Goto(r, "refund_commit")
    /\ UNCHANGED <<arg, found, answer, dbVars, redisVars>>

RefundRow(a) ==
    LET original == rows[a.target] IN
    [customer |-> original.customer, key |-> RefundKey(a.key),
     amount |-> original.amount, currency |-> original.currency,
     status |-> "refunded", of |-> a.target]

\* The INSERT of the reversal names no currency: the column default applies.
RefundEntries(t, a) ==
    LET original == rows[a.target] IN
    {[txn |-> t, account |-> original.customer, amount |-> original.amount,
      currency |-> DefaultCurrency, side |-> "credit"],
     [txn |-> t, account |-> Merchant, amount |-> original.amount,
      currency |-> DefaultCurrency, side |-> "debit"]}

\* Mutation: the original is not marked as refunded.
CommitRefundUnmarked(r) ==
    /\ pc[r] = "refund_commit"
    /\ rows' = [rows EXCEPT ![r] = RefundRow(arg[r])]
    /\ ledger' = ledger \cup RefundEntries(r, arg[r])
    /\ UNCHANGED outbox

\* Mutation: the entries of the original are replaced instead of reversed.
CommitRefundInPlace(r) ==
    /\ pc[r] = "refund_commit"
    /\ rows' = [rows EXCEPT ![r] = RefundRow(arg[r]),
                            ![arg[r].target].status = "refunded"]
    /\ ledger' = {e \in ledger : e.txn # arg[r].target} \cup RefundEntries(r, arg[r])
    /\ UNCHANGED outbox

CommitRefund(r) ==
    /\ pc[r] = "refund_commit"
    /\ rows' = [rows EXCEPT ![r] = RefundRow(arg[r]),
                            ![arg[r].target].status = "refunded"]
    /\ ledger' = ledger \cup RefundEntries(r, arg[r])
    /\ UNCHANGED outbox

RefundCommit(r) ==
    /\ CommitRefund(r)
    /\ Reply(r, "refunded", r)
    /\ UNCHANGED <<arg, found, redisVars>>

Refund(r) ==
    \/ RefundStart(r) \/ RefundLoad(r) \/ RefundInsert(r)
    \/ RefundUpdate(r) \/ RefundCommit(r)

-----------------------------------------------------------------------------
\* The database connection fails inside the try: rollback, 500.
DatabaseFails(r) ==
    /\ pc[r] \in InDatabase
    /\ Reply(r, "internal_error", None)
    /\ UNCHANGED <<arg, found, dbVars, redisVars>>

\* The connection fails after Postgres has committed: 500, and the work stands.
CommitUnacknowledged(r) ==
    /\ CommitCharge(r) \/ CommitRefund(r)
    /\ Reply(r, "internal_error", None)
    /\ UNCHANGED <<arg, found, redisVars>>

\* The process dies and is restarted (restart: on-failure).  Open transactions
\* are rolled back, and the new process looks for Redis once.
Crash ==
    /\ pc' = [r \in Requests |-> IF pc[r] \in {"idle", "done"} THEN pc[r] ELSE "lost"]
    /\ cacheOn' = redisUp
    /\ UNCHANGED <<arg, found, answer, dbVars, cache, redisUp>>

RedisUpOrDown ==
    /\ redisUp' = ~redisUp
    /\ UNCHANGED <<pc, arg, found, answer, dbVars, cache, cacheOn>>

\* IDEM_KEY_TTL_SECONDS pass, or Redis evicts the entry.
CacheExpire(ck) ==
    /\ cache[ck] # None
    /\ cache' = [cache EXCEPT ![ck] = None]
    /\ UNCHANGED <<pc, arg, found, answer, dbVars, redisUp, cacheOn>>

Serve(r) == Charge(r) \/ Refund(r)

Next ==
    \/ \E r \in Requests :
          \/ \E a \in ChargeArgs \cup RefundArgs : Arrive(r, a)
          \/ Serve(r) \/ DatabaseFails(r) \/ CommitUnacknowledged(r)
    \/ Crash \/ RedisUpOrDown
    \/ \E ck \in ScopedKeys : CacheExpire(ck)

Spec == Init /\ [][Next]_vars

\* A worker thread that can take its next step takes it.
FairSpec == Spec /\ \A r \in Requests : WF_vars(Serve(r))
-----------------------------------------------------------------------------
(***************************************************************************)
(* Properties                                                              *)
(***************************************************************************)

\* The UNIQUE (customer_id, idempotency_key) constraint holds of the committed
\* table however many requests with one key race (lines 20-22, 274-276).
OneRowPerKey ==
    \A t, u \in Committed : KeyOfRow(t) = KeyOfRow(u) => t = u

\* The books: a committed transaction has one debit and one credit of its own
\* amount between its customer and the merchant, nothing in the ledger or the
\* outbox stands for a transaction that was rolled back, and exactly the
\* charges are announced.
BooksMatchTransactions ==
    /\ \A e \in ledger : e.txn \in Committed
    /\ \A t \in Committed :
          LET entries == {e \in ledger : e.txn = t} IN
          /\ {e.side : e \in entries} = {"debit", "credit"}
          /\ {e.account : e \in entries} = {rows[t].customer, Merchant}
          /\ Cardinality(entries) = 2
          /\ \A e \in entries : e.amount = rows[t].amount
          /\ \A e, f \in entries : e.currency = f.currency
    /\ outbox = {t \in Committed : rows[t].of = None}

\* "so cache is never ahead of DB truth" (line 311): what Redis names for a key
\* is a committed transaction with that key, across crashes and expiry.
CacheBehindDatabase ==
    \A ck \in ScopedKeys : cache[ck] # None => cache[ck] \in Select(ck)

\* A charge is marked refunded exactly when some committed refund reverses it,
\* and only charges are ever reversed (lines 463-465, 496-501).
RefundedMeansReversed ==
    \A t \in Committed :
        rows[t].of = None =>
            (rows[t].status = "refunded" <=> \E u \in Committed : rows[u].of = t)

ReversesACharge ==
    \A t \in Committed :
        rows[t].of # None => rows[t].of \in Committed /\ rows[rows[t].of].of = None

\* The books as a whole, charges and refunds.
BooksAreClosed == BooksMatchTransactions /\ RefundedMeansReversed /\ ReversesACharge

\* The ledger is append-only, and of a committed row only the status moves,
\* from completed to refunded (lines 484-485).
HistoryIsImmutable ==
    [][ /\ ledger \subseteq ledger'
        /\ outbox \subseteq outbox'
        /\ \A t \in Committed :
              \/ rows'[t] = rows[t]
              \/ /\ rows[t].status = "completed"
                 /\ rows'[t] = [rows[t] EXCEPT !.status = "refunded"] ]_vars

\* The service implements the contract of OncePerKey: the effect of a scoped
\* key is the committed row that has it, and what a charge is told, whether it
\* created the row or found it in Redis, by SELECT or after UniqueViolation,
\* names that row.
EffectOf(ck) == IF Select(ck) = {} THEN None ELSE CHOOSE t \in Select(ck) : TRUE
EffectMap == [ck \in ScopedKeys |-> EffectOf(ck)]
Told == {r \in Requests : /\ answer[r] # None
                          /\ answer[r].what \in {"created", "duplicate"}}
ToldPairs == {<<KeyOf(r), answer[r].txn>> : r \in Told}
Contract == INSTANCE OncePerKey WITH
    Keys <- ScopedKeys,
    Effects <- Requests,
    effect <- EffectMap,
    answers <- ToldPairs
ImplementsOncePerKey == Contract!Spec

\* Nobody waits for ever, neither for the unique index nor for the row lock: a
\* request that arrived is answered, unless the process dies under it.
EveryRequestAnswered ==
    \A r \in Requests : arg[r] # None ~> pc[r] \in {"done", "lost"}

\* For TLC: the requests are interchangeable.
RequestSymmetry == Permutations(Requests)

(***************************************************************************)
(* What the text of the repository says and the code does not do           *)
(***************************************************************************)

\* experiment.py 520-521: concurrent refunds of one transaction "are serialized
\* by the Postgres row lock on the original transaction row", so that "a
\* completed refund must not be applied a second time".
AtMostOneRefund ==
    \A t, u \in Committed : rows[t].of # None /\ rows[t].of = rows[u].of => t = u
=============================================================================
