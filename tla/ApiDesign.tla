----------------------------- MODULE ApiDesign -----------------------------
(* The API design lab (01/11): POST /payments of the REST service with its       *)
(* Idempotency-Key in Redis, the counter of resolver calls of the GraphQL        *)
(* service, and the client that fetches users with their posts one by one.      *)
EXTENDS Integers, Sequences, FiniteSets, Functions

CONSTANTS
  PayRequests,   \* POST /payments being served
  PayKeys,       \* values of the Idempotency-Key header
  GraphQueries,  \* `users { posts }` queries being served
  ApiUsers,
  MaxPayments,   \* bound: payments processed
  MaxMillis,     \* bound: the clock behind the payment ids
  MaxPolls       \* bound: calls of /resolver-stats

VARIABLES
  service,    \* the service that is looked at; they share nothing
  pay,        \* request -> [pc, key, id]
  millis,     \* int(time.time() * 1000)
  keyStore,   \* key -> payment id under idempotency:<key>, 0 without one
  payments,   \* sequence of [key, id] in the order they were processed
  replayed,   \* the cached answers, as [key, id]
  excused,    \* ghost: keys with two requests at once, a request that died, or expired
  resolving,  \* query -> users whose posts resolver has not run
  resolverCalls, \* _resolver_stats["posts_resolver_calls"]
  adding,     \* query -> the count its resolver has read for its +=, NotAdding outside one
  statsCopy,  \* <<>>, or <<the copy that /resolver-stats is about to answer>>
  statsSum,   \* ghost: what all answers of /resolver-stats add up to
  fired,      \* ghost: resolver calls
  crowded,    \* ghost: a query met another one, or a reading of the statistics
  polls,
  client      \* [requests, todo] of phase 1

vars == <<service, pay, millis, keyStore, payments, replayed, excused, resolving, resolverCalls, adding, statsCopy,
          statsSum, fired, crowded, polls, client>>
payVars  == <<service, pay, millis, keyStore, payments, replayed, excused>>
gqlVars  == <<resolving, resolverCalls, adding, statsCopy, statsSum, fired, crowded, polls>>

NoKey == "none"
NotAdding == -1

Init ==
  /\ service \in {"rest", "graphql"}
  /\ pay = [p \in PayRequests |-> [pc |-> "idle", key |-> NoKey, id |-> 0]]
  /\ millis = 1
  /\ keyStore = [k \in PayKeys |-> 0]
  /\ payments = <<>>
  /\ replayed = {}
  /\ excused = {}
  /\ resolving = [q \in GraphQueries |-> {}]
  /\ resolverCalls = 0
  /\ adding = [q \in GraphQueries |-> NotAdding]
  /\ statsCopy = <<>>
  /\ statsSum = 0
  /\ fired = 0
  /\ crowded = FALSE
  /\ polls = 0
  /\ client = [requests |-> 0, todo |-> {}]

Tick ==
  /\ service = "rest" /\ millis < MaxMillis
  /\ millis' = millis + 1
  /\ UNCHANGED <<pay, keyStore, payments, replayed, excused, service, gqlVars, client>>

\* GET idempotency:<key>: a hit is answered, anything else goes on to process.
ReceivePayment(p, k) ==
  /\ service = "rest" /\ pay[p].pc = "idle" /\ Len(payments) < MaxPayments
  /\ IF k # NoKey /\ keyStore[k] # 0
     THEN /\ replayed' = replayed \cup {[key |-> k, id |-> keyStore[k]]}
          /\ UNCHANGED <<pay, excused>>
     ELSE /\ pay' = [pay EXCEPT ![p] = [pc |-> "processing", key |-> k, id |-> 0]]
          /\ excused' = IF \E o \in PayRequests : pay[o].pc # "idle" /\ pay[o].key = k
                        THEN excused \cup {k} ELSE excused
          /\ UNCHANGED replayed
  /\ UNCHANGED <<millis, keyStore, payments, service, gqlVars, client>>

\* 50 ms later the money moves; the id is the millisecond.
ProcessPayment(p) ==
  /\ pay[p].pc = "processing"
  /\ payments' = Append(payments, [key |-> pay[p].key, id |-> millis])
  /\ pay' = [pay EXCEPT ![p].pc = "store", ![p].id = millis]
  /\ UNCHANGED <<millis, keyStore, replayed, excused, service, gqlVars, client>>

\* Mutation: the answer is not kept.
StoreNothing(p) ==
  /\ pay[p].pc = "store"
  /\ pay' = [pay EXCEPT ![p].pc = "idle", ![p].key = NoKey]
  /\ UNCHANGED <<millis, keyStore, payments, replayed, excused, service, gqlVars, client>>

\* SETEX when there is a key, and the 201.
StoreAndAnswer(p) ==
  /\ pay[p].pc = "store"
  /\ keyStore' = IF pay[p].key = NoKey THEN keyStore ELSE [keyStore EXCEPT ![pay[p].key] = pay[p].id]
  /\ pay' = [pay EXCEPT ![p].pc = "idle", ![p].key = NoKey]
  /\ UNCHANGED <<millis, payments, replayed, excused, service, gqlVars, client>>

\* The service dies between the payment and SETEX.
DieBeforeStore(p) ==
  /\ pay[p].pc = "store"
  /\ excused' = excused \cup {pay[p].key}
  /\ pay' = [pay EXCEPT ![p].pc = "idle", ![p].key = NoKey]
  /\ UNCHANGED <<millis, keyStore, payments, replayed, service, gqlVars, client>>

\* IDEMPOTENCY_TTL passes.
ExpireKey(k) ==
  /\ keyStore[k] # 0
  /\ keyStore' = [keyStore EXCEPT ![k] = 0]
  /\ excused' = excused \cup {k}
  /\ UNCHANGED <<pay, millis, payments, replayed, service, gqlVars, client>>

-------------------------------------------------------------------------------
\* Query.users: one posts resolver per user will run, in the thread of the request.
StartQuery(q) ==
  /\ service = "graphql" /\ resolving[q] = {} /\ polls < MaxPolls
  /\ fired + SumFunction([o \in GraphQueries |-> Cardinality(resolving[o])])
       <= Cardinality(ApiUsers)
  /\ resolving' = [resolving EXCEPT ![q] = ApiUsers]
  /\ crowded' = (crowded \/ statsCopy # <<>> \/ \E o \in GraphQueries : resolving[o] # {})
  /\ UNCHANGED <<resolverCalls, adding, statsCopy, statsSum, fired, polls, payVars, client>>

\* _fetch_posts_for_user adds one without a lock: it reads the count,
ReadCalls(q) ==
  /\ resolving[q] # {} /\ adding[q] = NotAdding
  /\ adding' = [adding EXCEPT ![q] = resolverCalls]
  /\ UNCHANGED <<resolving, resolverCalls, statsCopy, statsSum, fired, crowded, polls, payVars, client>>

\* and writes it back; the users are resolved in list order, which the count does
\* not depend on.
ResolvePosts(q, u) ==
  /\ u \in resolving[q] /\ adding[q] # NotAdding
  /\ resolving' = [resolving EXCEPT ![q] = @ \ {u}]
  /\ resolverCalls' = adding[q] + 1
  /\ adding' = [adding EXCEPT ![q] = NotAdding]
  /\ fired' = fired + 1
  /\ UNCHANGED <<statsCopy, statsSum, crowded, polls, payVars, client>>

\* /resolver-stats copies the counter,
CopyStats ==
  /\ service = "graphql" /\ statsCopy = <<>> /\ polls < MaxPolls
  /\ statsCopy' = <<resolverCalls>>
  /\ polls' = polls + 1
  /\ crowded' = (crowded \/ \E q \in GraphQueries : resolving[q] # {})
  /\ UNCHANGED <<resolving, resolverCalls, adding, statsSum, fired, payVars, client>>

\* and then resets it.
ResetStats ==
  /\ statsCopy # <<>>
  /\ resolverCalls' = 0
  /\ statsSum' = statsSum + statsCopy[1]
  /\ statsCopy' = <<>>
  /\ UNCHANGED <<resolving, adding, fired, crowded, polls, payVars, client>>

\* Phase 1: GET /users, then one GET /users/<id>/posts per user.
GetUsers ==
  /\ service = "rest" /\ client.requests = 0
  /\ client' = [requests |-> 1, todo |-> ApiUsers]
  /\ UNCHANGED <<payVars, gqlVars>>

GetUserPosts(u) ==
  /\ u \in client.todo
  /\ client' = [requests |-> client.requests + 1, todo |-> client.todo \ {u}]
  /\ UNCHANGED <<payVars, gqlVars>>

ApiIdle == (Len(payments) >= MaxPayments \/ polls = MaxPolls) /\ UNCHANGED vars

\* A payment asked for, and asked for again, with its key, with another or with none.
PaymentAttempts ==
  \/ \E p \in PayRequests :
       \/ \E k \in PayKeys \cup {NoKey} : ReceivePayment(p, k)
       \/ ProcessPayment(p) \/ StoreAndAnswer(p) \/ DieBeforeStore(p)
  \/ \E k \in PayKeys : ExpireKey(k)

\* One query for the users with their posts, between two readings of the resolver's count.
GraphQlQuery ==
  \/ \E q \in GraphQueries : StartQuery(q) \/ ReadCalls(q) \/ (\E u \in ApiUsers : ResolvePosts(q, u))
  \/ CopyStats \/ ResetStats

\* The same over REST: one request for the users, then one for the posts of each.
RestRequests == GetUsers \/ (\E u \in ApiUsers : GetUserPosts(u))

Next ==
  \/ Tick
  \/ PaymentAttempts
  \/ GraphQlQuery
  \/ RestRequests
  \/ ApiIdle

Spec == Init /\ [][Next]_vars

-------------------------------------------------------------------------------
TypeOK ==
  /\ \A p \in PayRequests : pay[p].pc \in {"idle", "processing", "store"}
  /\ client.requests \in 0..(1 + Cardinality(ApiUsers))
  /\ fired <= 2 * Cardinality(ApiUsers)

\* A key is charged once, unless two requests with it overlap, one dies between
\* the payment and the store, or the key expires: in these cases the code pays
\* again. A replayed answer names a payment that was made under that key. The
\* answers of /resolver-stats and what they have not read yet are the resolver
\* calls there were, as long as a query meets neither another one nor a reading;
\* otherwise the unlocked += and the reset lose calls or count them twice.
ApiIsHonest ==
  /\ \A k \in PayKeys :
       LET mine == {i \in DOMAIN payments : payments[i].key = k}
       IN Cardinality(mine) > 1 => k \in excused
  /\ \A r \in replayed : \E i \in DOMAIN payments : payments[i] = r
  /\ ~crowded => statsSum + (IF statsCopy = <<>> THEN resolverCalls ELSE statsCopy[1]) = fired
  /\ client.requests > 0 =>
       client.requests + Cardinality(client.todo) = 1 + Cardinality(ApiUsers)

\* The answers of one service name different payments.
PaymentIdsDiffer ==
  \A i, j \in DOMAIN payments : i # j => payments[i].id # payments[j].id
=============================================================================
