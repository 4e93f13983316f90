----------------------------- MODULE PaymentApi -----------------------------
(***************************************************************************)
(* The payment API of 02-advanced/15-idempotency-exactly-once: POST /charge *)
(* with a two-phase row.  Phase 1 claims the key by committing a row whose *)
(* status is 'processing'; phase 2 calls the processor and commits the     *)
(* response with status 'success'.  Any other request with the key is      *)
(* refused (422), sent away (409) or answered from the row (200).          *)
(*                                                                         *)
(* One action is one statement that reads or writes the table charges.     *)
(* Amounts are counted in halves, so that a client may send 10.5 (21) and  *)
(* the column, an INTEGER, holds 11 (22).                                  *)
(***************************************************************************)
EXTENDS Integers

CONSTANTS
    Requests,    \* request identities; also the id of the charge one makes
    Customers,   \* stands for the pair of currency and customer_id
    Keys,        \* values of the X-Idempotency-Key header
    Amounts,     \* the amounts clients send, in halves of a unit
    None

ASSUME ApiAssumption == Amounts \subseteq Nat /\ None \notin Requests

VARIABLES
    pc,        \* pc[r]: the statement request r executes next
    arg,       \* arg[r]: the request
    answer,    \* answer[r]: what the handler returned
    charges    \* table charges, committed rows, by idempotency_key

vars == <<pc, arg, answer, charges>>

Bodies == [key : Keys, amount : Amounts, customer : Customers]

\* What an INTEGER column makes of an amount: halves are rounded up.
Stored(a) == 2 * ((a + 1) \div 2)

\* id, response_body and created_at are one field: the request that owns the
\* row, and whether its response has been stored.
Rows == [owner : Requests, amount : {Stored(a) : a \in Amounts},
         customer : Customers, status : {"processing", "success"},
         response : Requests \cup {None}]

PCs == {"idle", "claim", "claim_commit", "select", "processor", "finish",
        "respond", "done", "lost"}
Words == {"created", "replayed", "in_flight", "mismatch", "retry", "error"}
Answers == [what : Words, id : Requests \cup {None}]

ASSUME NoneAssumption == None \notin Rows \cup Answers \cup Bodies

TypeOK ==
    /\ pc \in [Requests -> PCs]
    /\ arg \in [Requests -> Bodies \cup {None}]
    /\ answer \in [Requests -> Answers \cup {None}]
    /\ charges \in [Keys -> Rows \cup {None}]

Goto(r, l) == pc' = [pc EXCEPT ![r] = l]
Reply(r, w, id) ==
    /\ pc' = [pc EXCEPT ![r] = "done"]
    /\ answer' = [answer EXCEPT ![r] = [what |-> w, id |-> id]]

Init ==
    /\ pc = [r \in Requests |-> "idle"]
    /\ arg = [r \in Requests |-> None]
    /\ answer = [r \in Requests |-> None]
    /\ charges = [k \in Keys |-> None]

\* A client sends a request: a first attempt, a retry with the same body, a
\* burst of concurrent retries, or a key reused with another body.
Arrive(r, b) ==
    /\ pc[r] = "idle"
    /\ arg' = [arg EXCEPT ![r] = b]
    /\ Goto(r, "claim")
    /\ UNCHANGED <<answer, charges>>

\* Mutation: SELECT, then INSERT without ON CONFLICT on a unique column.
ClaimUnchecked(r) ==
    /\ pc[r] = "claim"
    /\ Goto(r, IF charges[arg[r].key] = None THEN "claim_commit" ELSE "select")
    /\ UNCHANGED <<arg, answer, charges>>

\* Mutation: a retry waits for the request in flight instead of getting 409.
ClaimWaits(r) ==
    /\ pc[r] = "claim"
    /\ \A q \in Requests : pc[q] = "claim_commit" => arg[q].key # arg[r].key
    /\ charges[arg[r].key] # None => charges[arg[r].key].status = "success"
    /\ Goto(r, IF charges[arg[r].key] = None THEN "claim_commit" ELSE "select")
    /\ UNCHANGED <<arg, answer, charges>>

\* INSERT .. ON CONFLICT DO NOTHING RETURNING id: waits for an open transaction
\* that has inserted the key, and inserts nothing when the key is committed.
Claim(r) ==
    /\ pc[r] = "claim"
    /\ \A q \in Requests : pc[q] = "claim_commit" => arg[q].key # arg[r].key
    /\ Goto(r, IF charges[arg[r].key] = None THEN "claim_commit" ELSE "select")
    /\ UNCHANGED <<arg, answer, charges>>

\* Mutation: the amount is stored in whole tens.
ClaimRowCoarse(r) == [owner |-> r, amount |-> Stored(arg[r].amount) \div 20,
                      customer |-> arg[r].customer, status |-> "processing",
                      response |-> None]

ClaimRow(r) == [owner |-> r, amount |-> Stored(arg[r].amount),
                customer |-> arg[r].customer, status |-> "processing", response |-> None]

CommitClaim(r) ==
    /\ pc[r] = "claim_commit"
    /\ charges' = [charges EXCEPT ![arg[r].key] = ClaimRow(r)]

ClaimCommit(r) ==
    /\ CommitClaim(r)
    /\ Goto(r, "processor")
    /\ UNCHANGED <<arg, answer>>

\* Mutation: the fingerprint leaves the amount out.
SameParametersCustomer(row, b) == row.customer = b.customer

\* The parameter fingerprint.
SameParameters(row, b) == row.amount = b.amount /\ row.customer = b.customer

\* Mutation: the response is rebuilt for the retry instead of replayed.
SelectRebuilds(r) ==
    LET row == charges[arg[r].key] IN
    /\ pc[r] = "select"
    /\ IF ~SameParameters(row, arg[r]) THEN Reply(r, "mismatch", None)
       ELSE IF row.status = "processing" THEN Reply(r, "in_flight", None)
       ELSE Reply(r, "replayed", r)
    /\ UNCHANGED <<arg, charges>>

\* Mutation: the parameters are stored with the response, in phase 2.
SelectLateParameters(r) ==
    LET row == charges[arg[r].key] IN
    /\ pc[r] = "select"
    /\ IF row.status = "processing" \/ ~SameParameters(row, arg[r])
         THEN Reply(r, "mismatch", None)
         ELSE Reply(r, "replayed", row.response)
    /\ UNCHANGED <<arg, charges>>

\* The key exists: read the row and answer by its parameters and its status.
Select(r) ==
    LET row == charges[arg[r].key] IN
    /\ pc[r] = "select"
    /\ IF row = None THEN Reply(r, "retry", None)
       ELSE IF ~SameParameters(row, arg[r]) THEN Reply(r, "mismatch", None)
       ELSE IF row.status = "processing" THEN Reply(r, "in_flight", None)
       ELSE Reply(r, "replayed", row.response)
    /\ UNCHANGED <<arg, charges>>

\* The call of the payment processor (a sleep in this lab).
Processor(r) ==
    /\ pc[r] = "processor"
    /\ Goto(r, "finish")
    /\ UNCHANGED <<arg, answer, charges>>

\* Mutation: the UPDATE stores the response and forgets the status.
CommitFinishNoStatus(r) ==
    /\ pc[r] = "finish"
    /\ charges' = [charges EXCEPT ![arg[r].key].response = r]

\* UPDATE charges SET status='success', response_body=.. WHERE idempotency_key=..
CommitFinish(r) ==
    /\ pc[r] = "finish"
    /\ charges' = [charges EXCEPT ![arg[r].key].status = "success",
                                  ![arg[r].key].response = r]

Finish(r) ==
    /\ CommitFinish(r)
    /\ Goto(r, "respond")
    /\ UNCHANGED <<arg, answer>>

Respond(r) ==
    /\ pc[r] = "respond"
    /\ Reply(r, "created", r)
    /\ UNCHANGED <<arg, charges>>

\* except Exception: rollback and 500.  A claim already committed stays.
Fails(r) ==
    /\ pc[r] \in PCs \ {"idle", "done", "lost"}
    /\ Reply(r, "error", None)
    /\ UNCHANGED <<arg, charges>>

\* COMMIT took effect but its acknowledgement was lost: 500 as well.
CommitUnacknowledged(r) ==
    /\ CommitClaim(r) \/ CommitFinish(r)
    /\ Reply(r, "error", None)
    /\ UNCHANGED arg

\* The container dies and restarts; Postgres keeps what was committed.
Crash ==
    /\ pc' = [r \in Requests |-> IF pc[r] \in {"idle", "done"} THEN pc[r] ELSE "lost"]
    /\ UNCHANGED <<arg, answer, charges>>

Handle(r) ==
    Claim(r) \/ ClaimCommit(r) \/ Select(r) \/ Processor(r) \/ Finish(r) \/ Respond(r)

Next ==
    \/ \E r \in Requests :
          \/ \E b \in Bodies : Arrive(r, b)
          \/ Handle(r) \/ Fails(r) \/ CommitUnacknowledged(r)
    \/ Crash

Spec == Init /\ [][Next]_vars

\* Flask gives each request a thread, and a thread that can go on goes on.
FairSpec == Spec /\ \A r \in Requests : WF_vars(Handle(r))

-----------------------------------------------------------------------------
(***************************************************************************)
(* Properties                                                              *)
(***************************************************************************)

\* Only the request whose INSERT won the key is ever in phase 2, however many
\* threads race on it (lines 107-109).
OnlyOwnerProcesses ==
    \A r \in Requests : pc[r] \in {"processor", "finish"} =>
        /\ charges[arg[r].key] # None
        /\ charges[arg[r].key].owner = r
        /\ charges[arg[r].key].status = "processing"

\* The response stored for a key is its owner's, and it is there exactly when the
\* row says 'success' (lines 61-64).
ResponseIffSuccess ==
    \A k \in Keys : charges[k] # None =>
        charges[k].response =
            IF charges[k].status = "success" THEN charges[k].owner ELSE None

\* A client is never served the charge of a request with other parameters than
\* its own (lines 137-139).
ServedOwnParameters ==
    \A r \in Requests :
        (answer[r] # None /\ answer[r].what \in {"created", "replayed"}) =>
            /\ answer[r].id # None
            /\ [arg[r] EXCEPT !.amount = Stored(@)]
                 = [arg[answer[r].id] EXCEPT !.amount = Stored(@)]

\* A 422 is the client's bug: the request differs from the one that claimed the
\* key (lines 137-139).  This holds while amounts are whole.
MismatchIsClientBug ==
    \A r \in Requests :
        (answer[r] # None /\ answer[r].what = "mismatch") =>
            \E q \in Requests : arg[q] # None /\ arg[q].key = arg[r].key /\ arg[q] # arg[r]

\* The rows and the answers tell one story: the stored response is the owner's, no
\* client is served another's charge, and every 422 has a cause.
AnswersMatchRows == ResponseIffSuccess /\ ServedOwnParameters /\ MismatchIsClientBug

\* The API implements OncePerKey: a key takes effect when its response is
\* committed, and every 201 and 200 is that response.
EffectMap == [k \in Keys |-> IF charges[k] # None /\ charges[k].status = "success"
                               THEN charges[k].response ELSE None]
Told == {r \in Requests : answer[r] # None /\ answer[r].what \in {"created", "replayed"}}
ToldPairs == {<<arg[r].key, answer[r].id>> : r \in Told}
Contract == INSTANCE OncePerKey WITH
    Effects <- Requests, effect <- EffectMap, answers <- ToldPairs
ImplementsOncePerKey == Contract!Spec

\* A request is answered unless the process dies under it: nobody waits for ever
\* behind another transaction's claim.
EveryRequestAnswered ==
    \A r \in Requests : arg[r] # None ~> pc[r] \in {"done", "lost"}

\* A key leaves 'processing' unless its owner failed; after such a failure every
\* retry gets 409, since nothing in the code resets the row (lines 176-180).
ProcessingSettles ==
    \A k \in Keys :
        charges[k] # None ~> charges[k] # None /\ LET owner == charges[k].owner IN
            \/ charges[k].status = "success"
            \/ pc[owner] = "lost"
            \/ answer[owner] # None /\ answer[owner].what = "error"
=============================================================================
