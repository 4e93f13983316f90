----------------------- MODULE PaymentServiceProofs -----------------------
(***************************************************************************)
(* Proofs about PaymentService, for every number of requests, customers,   *)
(* keys, amounts and currencies.                                           *)
(*                                                                         *)
(* The argument has two layers.  WellFormed says that a request's argument *)
(* fits the statement it is at and that a refund past its SELECT names a   *)
(* committed row; it makes TypeOK inductive.  KeysGuarded says that the    *)
(* open transactions and the committed rows never share a key: that is     *)
(* what the unique index maintains between an INSERT and its COMMIT, and   *)
(* without it OneRowPerKey is not inductive.                               *)
(***************************************************************************)
EXTENDS PaymentService, FiniteSetTheorems, TLAPS

Loaded == {"refund_insert", "refund_update", "refund_commit"}

WellFormed ==
    /\ TypeOK
    /\ \A r \in Requests :
          /\ pc[r] \in ChargePC => arg[r] \in ChargeArgs
          /\ pc[r] \in RefundPC => arg[r] \in RefundArgs
          /\ pc[r] \in Loaded => rows[arg[r].target] # None
          /\ pc[r] \notin {"charge_fill", "done", "lost"} => rows[r] = None

\* What a step may do to the committed rows: a committed row stays, and keeps
\* its owner, its key and the charge it reverses.
RowsOnlyGrow ==
    \A t \in Requests : rows[t] # None =>
        /\ rows'[t] # None
        /\ rows'[t].customer = rows[t].customer
        /\ rows'[t].key = rows[t].key
        /\ rows'[t].of = rows[t].of

\* In the initial state every request is idle and every table is empty.
LEMMA InitWellFormed == Init => WellFormed
  BY PaymentAssumption
  DEF Init, WellFormed, TypeOK, ChargePC, RefundPC, Loaded

\* The row a charge commits is a row of the table.
LEMMA ChargeRowType ==
    ASSUME NEW a \in ChargeArgs PROVE ChargeRow(a) \in Rows
  BY DEF ChargeArgs, ChargeRow, Rows

LEMMA ChargeEntriesType ==
    ASSUME NEW a \in ChargeArgs, NEW t \in Requests
    PROVE  ChargeEntries(t, a) \subseteq Entries
  BY DEF ChargeArgs, ChargeEntries, Entries

\* The row a refund commits is a row of the table.
LEMMA RefundRowType ==
    ASSUME NEW a \in RefundArgs, rows[a.target] \in Rows
    PROVE  RefundRow(a) \in Rows
  BY DEF RefundArgs, RefundRow, Rows, RefundKey, StoredKeys

LEMMA RefundEntriesType ==
    ASSUME NEW a \in RefundArgs, rows[a.target] \in Rows, NEW t \in Requests
    PROVE  RefundEntries(t, a) \subseteq Entries
  BY PaymentAssumption DEF RefundArgs, RefundEntries, Rows, Entries

\* Marking a row as refunded keeps it a row.
LEMMA MarkedRowType ==
    ASSUME NEW row \in Rows
    PROVE  /\ [row EXCEPT !.status = "refunded"] \in Rows
           /\ [row EXCEPT !.status = "refunded"].customer = row.customer
           /\ [row EXCEPT !.status = "refunded"].key = row.key
           /\ [row EXCEPT !.status = "refunded"].of = row.of
  BY DEF Rows

\* The effect of a charge's COMMIT on the tables.
LEMMA CommitChargeEffect ==
    ASSUME WellFormed, NEW r \in Requests, CommitCharge(r)
    PROVE  /\ rows' \in [Requests -> Rows \cup {None}]
           /\ ledger' \subseteq Entries
           /\ outbox' \subseteq Requests
           /\ rows'[r] = ChargeRow(arg[r])
           /\ \A t \in Requests \ {r} : rows'[t] = rows[t]
  <1>1. arg[r] \in ChargeArgs
    BY DEF WellFormed, CommitCharge, ChargePC
  <1>2. ChargeRow(arg[r]) \in Rows /\ ChargeEntries(r, arg[r]) \subseteq Entries
    BY <1>1, ChargeRowType, ChargeEntriesType
  <1> QED
    BY <1>2 DEF WellFormed, TypeOK, CommitCharge

\* The effect of a refund's COMMIT on the tables.
LEMMA CommitRefundEffect ==
    ASSUME WellFormed, NEW r \in Requests, CommitRefund(r)
    PROVE  /\ rows' \in [Requests -> Rows \cup {None}]
           /\ ledger' \subseteq Entries
           /\ outbox' = outbox
           /\ arg[r].target # r /\ rows[arg[r].target] # None
           /\ rows'[r] = RefundRow(arg[r])
           /\ rows'[arg[r].target] = [rows[arg[r].target] EXCEPT !.status = "refunded"]
           /\ \A t \in Requests \ {r, arg[r].target} : rows'[t] = rows[t]
  <1>1. arg[r] \in RefundArgs /\ rows[arg[r].target] # None /\ rows[r] = None
    BY DEF WellFormed, CommitRefund, RefundPC, Loaded
  <1>2. arg[r].target \in Requests /\ arg[r].target # r
    BY <1>1 DEF RefundArgs
  <1>3. rows[arg[r].target] \in Rows
    BY <1>1, <1>2 DEF WellFormed, TypeOK
  <1>4. RefundRow(arg[r]) \in Rows /\ RefundEntries(r, arg[r]) \subseteq Entries
    BY <1>1, <1>3, RefundRowType, RefundEntriesType
  <1>5. [rows[arg[r].target] EXCEPT !.status = "refunded"] \in Rows
    BY <1>3, MarkedRowType
  <1> DEFINE t == arg[r].target
  <1>6. rows' = [[rows EXCEPT ![r] = RefundRow(arg[r])]
                    EXCEPT ![t] = [rows[t] EXCEPT !.status = "refunded"]]
    <2>1. rows \in [Requests -> Rows \cup {None}]
      BY DEF WellFormed, TypeOK
    <2>2. rows' = [rows EXCEPT ![r] = RefundRow(arg[r]), ![t].status = "refunded"]
      BY DEF CommitRefund
    <2> QED
      BY <2>1, <2>2, <1>2
  <1> HIDE DEF t
  <1>7. rows \in [Requests -> Rows \cup {None}] /\ t \in Requests /\ t # r
    BY <1>2 DEF WellFormed, TypeOK, t
  <1>8. [rows[t] EXCEPT !.status = "refunded"] \in Rows
    BY <1>5 DEF t
  <1>9. /\ rows' \in [Requests -> Rows \cup {None}]
        /\ rows'[r] = RefundRow(arg[r])
        /\ rows'[t] = [rows[t] EXCEPT !.status = "refunded"]
        /\ \A u \in Requests \ {r, t} : rows'[u] = rows[u]
    BY <1>4, <1>6, <1>7, <1>8
  <1>10. ledger' \subseteq Entries /\ outbox' = outbox
    BY <1>4 DEF WellFormed, TypeOK, CommitRefund
  <1> QED
    BY <1>1, <1>2, <1>9, <1>10 DEF t

\* Every step keeps the committed rows.
LEMMA RowsStep ==
    ASSUME WellFormed, [Next]_vars
    PROVE  RowsOnlyGrow
  <1>1. ASSUME NEW r \in Requests, CommitCharge(r)
        PROVE  RowsOnlyGrow
    <2>1. rows[r] = None
      BY <1>1 DEF WellFormed, CommitCharge
    <2> QED
      BY <1>1, <2>1, CommitChargeEffect DEF RowsOnlyGrow
  <1>2. ASSUME NEW r \in Requests, CommitRefund(r)
        PROVE  RowsOnlyGrow
    <2>1. rows[r] = None /\ arg[r] \in RefundArgs /\ rows[arg[r].target] # None
      BY <1>2 DEF WellFormed, CommitRefund, RefundPC, Loaded
    <2>2. rows[arg[r].target] \in Rows
      BY <2>1 DEF WellFormed, TypeOK, RefundArgs
    <2>3. [rows[arg[r].target] EXCEPT !.status = "refunded"] # None
      BY <2>2, MarkedRowType, NoneAssumption
    <2>4. \A t \in Requests \ {r, arg[r].target} : rows'[t] = rows[t]
      BY <1>2, CommitRefundEffect
    <2>5. rows'[arg[r].target] = [rows[arg[r].target] EXCEPT !.status = "refunded"]
      BY <1>2, CommitRefundEffect
    <2>6. /\ rows'[arg[r].target] # None
          /\ rows'[arg[r].target].customer = rows[arg[r].target].customer
          /\ rows'[arg[r].target].key = rows[arg[r].target].key
          /\ rows'[arg[r].target].of = rows[arg[r].target].of
      BY <2>2, <2>3, <2>5, MarkedRowType
    <2> QED
      BY <2>1, <2>4, <2>6 DEF RowsOnlyGrow
  <1>3. CASE UNCHANGED rows
    BY <1>3 DEF RowsOnlyGrow
  <1> QED
    BY <1>1, <1>2, <1>3
    DEF Next, Serve, Charge, Refund, Arrive, ChargeStart, ChargeLookup, ChargeRefill,
        ChargeInsert, ChargeCommit, ChargeFill, ChargeConflict, RefundStart, RefundLoad,
        RefundInsert, RefundUpdate, RefundCommit, DatabaseFails, CommitUnacknowledged,
        Crash, RedisUpOrDown, CacheExpire, dbVars, vars

\* A charge's cache key is in the domain of the cache.
LEMMA CacheKeyType ==
    ASSUME NEW r \in Requests, arg[r] \in ChargeArgs
    PROVE  CacheKey(r) \in ScopedKeys
  BY DEF CacheKey, KeyOf, ChargeArgs, ScopedKeys

\* Filling the cache and answering keeps the types, and ends the request.
LEMMA CacheAndReplyType ==
    ASSUME TypeOK, NEW r \in Requests, arg[r] \in ChargeArgs, NEW w \in Words,
           NEW t \in Requests \cup {None}, CacheAndReply(r, w, t)
    PROVE  /\ pc' = [pc EXCEPT ![r] = "done"]
           /\ answer' \in [Requests -> Answers \cup {None}]
           /\ cache' \in [ScopedKeys -> Requests \cup {None}]
  <1>1. PICK v \in Words, u \in Requests \cup {None} : Reply(r, v, u)
    BY DEF CacheAndReply, Words
  <1>2. [what |-> v, txn |-> u] \in Answers
    BY DEF Answers
  <1>3. answer' \in [Requests -> Answers \cup {None}]
    BY <1>1, <1>2 DEF Reply, TypeOK
  <1>4. cache' \in [ScopedKeys -> Requests \cup {None}]
    BY CacheKeyType DEF CacheAndReply, TypeOK
  <1> QED
    BY <1>1, <1>3, <1>4 DEF Reply

\* Every step keeps the types and the fit between arguments and statements.
LEMMA WellFormedStep ==
    ASSUME WellFormed, [Next]_vars
    PROVE  WellFormed'
  <1> USE DEF WellFormed, TypeOK, ChargePC, RefundPC, Loaded
  <1>0. RowsOnlyGrow
    BY RowsStep
  <1>1. ASSUME NEW r \in Requests, NEW a \in ChargeArgs \cup RefundArgs, Arrive(r, a)
        PROVE  WellFormed'
    BY <1>1 DEF Arrive, Goto, dbVars, redisVars, ChargeArgs, RefundArgs
  <1>2. ASSUME NEW r \in Requests, ChargeStart(r)
        PROVE  WellFormed'
    BY <1>2 DEF ChargeStart, Goto, Reply, dbVars, redisVars, Words, Answers, CacheKey, KeyOf, ChargeArgs, ScopedKeys
  <1>3. ASSUME NEW r \in Requests, ChargeLookup(r)
        PROVE  WellFormed'
    BY <1>3 DEF ChargeLookup, Goto, dbVars, redisVars, Select, Committed
  <1>4. ASSUME NEW r \in Requests, ChargeRefill(r)
        PROVE  WellFormed'
    <2>1. arg[r] \in ChargeArgs /\ "duplicate" \in Words /\ found[r] \in Requests \cup {None}
      BY <1>4 DEF ChargeRefill, Words
    <2>2. CacheAndReply(r, "duplicate", found[r])
      BY <1>4 DEF ChargeRefill
    <2> HIDE DEF WellFormed, TypeOK
    <2>3. /\ pc' = [pc EXCEPT ![r] = "done"]
          /\ answer' \in [Requests -> Answers \cup {None}]
          /\ cache' \in [ScopedKeys -> Requests \cup {None}]
      BY <2>1, <2>2, CacheAndReplyType DEF WellFormed
    <2> QED
      BY <1>4, <2>3 DEF ChargeRefill, dbVars, WellFormed, TypeOK
  <1>5. ASSUME NEW r \in Requests, ChargeInsert(r)
        PROVE  WellFormed'
    BY <1>5 DEF ChargeInsert, Goto, dbVars, redisVars
  <1>7. ASSUME NEW r \in Requests, ChargeFill(r)
        PROVE  WellFormed'
    <2>1. arg[r] \in ChargeArgs /\ "created" \in Words
      BY <1>7 DEF ChargeFill, Words
    <2>2. CacheAndReply(r, "created", r)
      BY <1>7 DEF ChargeFill
    <2> HIDE DEF WellFormed, TypeOK
    <2>3. /\ pc' = [pc EXCEPT ![r] = "done"]
          /\ answer' \in [Requests -> Answers \cup {None}]
          /\ cache' \in [ScopedKeys -> Requests \cup {None}]
      BY <2>1, <2>2, CacheAndReplyType DEF WellFormed
    <2> QED
      BY <1>7, <2>3 DEF ChargeFill, dbVars, WellFormed, TypeOK
  <1>8. ASSUME NEW r \in Requests, ChargeConflict(r)
        PROVE  WellFormed'
    BY <1>8 DEF ChargeConflict, Reply, dbVars, redisVars, Words, Answers, Select, Committed
  <1>9. ASSUME NEW r \in Requests, RefundStart(r) \/ RefundLoad(r) \/ RefundInsert(r) \/ RefundUpdate(r)
        PROVE  WellFormed'
    BY <1>9 DEF RefundStart, RefundLoad, RefundInsert, RefundUpdate, Goto, Reply, dbVars, redisVars, Words, Answers
  <1>11. ASSUME NEW r \in Requests, DatabaseFails(r)
        PROVE  WellFormed'
    BY <1>11 DEF DatabaseFails, Reply, InDatabase, dbVars, redisVars, Words, Answers
  <1>12. ASSUME NEW r \in Requests, ChargeCommit(r) \/ (CommitCharge(r) /\ CommitUnacknowledged(r))
        PROVE  WellFormed'
    <2>1. CommitCharge(r)
      BY <1>12 DEF ChargeCommit
    <2>2. /\ pc[r] = "charge_commit"
          /\ \/ pc' = [pc EXCEPT ![r] = "charge_fill"]
             \/ pc' = [pc EXCEPT ![r] = "done"]
      BY <1>12 DEF ChargeCommit, CommitUnacknowledged, CommitCharge, Goto, Reply
    <2>3. answer' \in [Requests -> Answers \cup {None}] /\ UNCHANGED <<arg, found, redisVars>>
      BY <1>12 DEF ChargeCommit, CommitUnacknowledged, Reply, redisVars, Words, Answers
    <2>4. /\ rows' \in [Requests -> Rows \cup {None}]
          /\ ledger' \subseteq Entries
          /\ outbox' \subseteq Requests
          /\ \A t \in Requests \ {r} : rows'[t] = rows[t]
      BY <2>1, CommitChargeEffect
    <2> QED
      BY <1>0, <2>2, <2>3, <2>4 DEF RowsOnlyGrow, redisVars, RefundArgs
  <1>13. ASSUME NEW r \in Requests, RefundCommit(r) \/ (CommitRefund(r) /\ CommitUnacknowledged(r))
        PROVE  WellFormed'
    <2>1. CommitRefund(r)
      BY <1>13 DEF RefundCommit
    <2>2. /\ pc[r] = "refund_commit"
          /\ pc' = [pc EXCEPT ![r] = "done"]
      BY <1>13 DEF RefundCommit, CommitUnacknowledged, CommitRefund, Reply
    <2>3. answer' \in [Requests -> Answers \cup {None}] /\ UNCHANGED <<arg, found, redisVars>>
      BY <1>13 DEF RefundCommit, CommitUnacknowledged, Reply, redisVars, Words, Answers
    <2>4. outbox \subseteq Requests
      OBVIOUS
    <2> HIDE DEF WellFormed, TypeOK
    <2>5. /\ rows' \in [Requests -> Rows \cup {None}]
          /\ ledger' \subseteq Entries
          /\ outbox' \subseteq Requests
          /\ \A t \in Requests \ {r, arg[r].target} : rows'[t] = rows[t]
      BY <2>1, <2>4, CommitRefundEffect
    <2>6. TypeOK'
      BY <2>2, <2>3, <2>5 DEF WellFormed, TypeOK, redisVars
    <2>7. rows[arg[r].target] # None
      BY <2>1, CommitRefundEffect
    <2>8. ASSUME NEW q \in Requests
          PROVE  /\ pc'[q] \in ChargePC => arg'[q] \in ChargeArgs
                 /\ pc'[q] \in RefundPC => arg'[q] \in RefundArgs
                 /\ pc'[q] \in Loaded => rows'[arg'[q].target] # None
                 /\ pc'[q] \notin {"charge_fill", "done", "lost"} => rows'[q] = None
      <3>1. CASE q = r
        BY <2>2, <3>1 DEF WellFormed, TypeOK
      <3>2. CASE q # r
        <4>1. pc'[q] = pc[q] /\ arg'[q] = arg[q]
          BY <2>2, <2>3, <3>2 DEF WellFormed, TypeOK
        <4>2. pc[q] \in Loaded => arg[q] \in RefundArgs /\ rows[arg[q].target] # None
          BY DEF WellFormed
        <4>3. pc'[q] \in Loaded => rows'[arg'[q].target] # None
          BY <1>0, <4>1, <4>2 DEF RowsOnlyGrow, RefundArgs
        <4>4. rows[q] = None => rows'[q] = None
          BY <2>5, <2>7, <3>2
        <4> QED
          BY <4>1, <4>3, <4>4 DEF WellFormed
      <3> QED
        BY <3>1, <3>2
    <2> QED
      BY <2>6, <2>8 DEF WellFormed
  <1>14. ASSUME Crash \/ RedisUpOrDown \/ \E ck \in ScopedKeys : CacheExpire(ck)
        PROVE  WellFormed'
    <2>1. CASE Crash
      BY <2>1 DEF Crash, dbVars
    <2>2. CASE RedisUpOrDown
      BY <2>2 DEF RedisUpOrDown, dbVars
    <2>3. CASE \E ck \in ScopedKeys : CacheExpire(ck)
      BY <2>3 DEF CacheExpire, dbVars
    <2> QED
      BY <1>14, <2>1, <2>2, <2>3
  <1>15. CASE UNCHANGED vars
    BY <1>15 DEF vars
  <1> QED
    BY <1>1, <1>2, <1>3, <1>4, <1>5, <1>7, <1>8, <1>9, <1>11, <1>12, <1>13, <1>14, <1>15
    DEF Next, Serve, Charge, Refund, CommitUnacknowledged

\* Type correctness, for every value of the constants.
THEOREM TypeCorrect == Spec => []TypeOK
  <1>1. WellFormed /\ [Next]_vars => WellFormed'
    BY WellFormedStep
  <1>2. WellFormed => TypeOK
    BY DEF WellFormed
  <1> QED
    BY InitWellFormed, <1>1, <1>2, PTL DEF Spec

-----------------------------------------------------------------------------
\* The unique index: no committed row and no other open transaction has the key
\* an open transaction has inserted.
KeysGuarded ==
    /\ OneRowPerKey
    /\ \A p, q \in Holders : KeyOf(p) = KeyOf(q) => p = q
    /\ \A p \in Holders : Select(KeyOf(p)) = {}

\* The key of a request does not move once its row, or the row it refunds, is
\* known.
KeyKnown(r) ==
    \/ arg[r] \in ChargeArgs
    \/ arg[r] \in RefundArgs /\ rows[arg[r].target] # None

LEMMA KeyOfStable ==
    ASSUME WellFormed, [Next]_vars, NEW r \in Requests, KeyKnown(r), arg'[r] = arg[r]
    PROVE  KeyOf(r)' = KeyOf(r) /\ KeyKnown(r)'
  BY RowsStep DEF KeyOf, KeyKnown, RowsOnlyGrow, ChargeArgs, RefundArgs

\* A key that is known belongs to ScopedKeys.
LEMMA KeyOfType ==
    ASSUME WellFormed, NEW r \in Requests, KeyKnown(r)
    PROVE  KeyOf(r) \in ScopedKeys
  <1>1. CASE arg[r] \in ChargeArgs
    BY <1>1 DEF KeyOf, ChargeArgs, ScopedKeys
  <1>2. CASE arg[r] \in RefundArgs /\ rows[arg[r].target] # None
    <2>1. rows[arg[r].target] \in Rows
      BY <1>2 DEF WellFormed, TypeOK, RefundArgs
    <2> QED
      BY <1>2, <2>1 DEF KeyOf, RefundArgs, Rows, ScopedKeys, RefundKey, StoredKeys
  <1> QED
    BY <1>1, <1>2 DEF KeyKnown

\* An open transaction knows its key.
LEMMA HolderKnown ==
    ASSUME WellFormed, NEW r \in Holders
    PROVE  r \in Requests /\ KeyKnown(r)
  BY DEF WellFormed, Holders, KeyKnown, ChargePC, RefundPC, Loaded

\* A step that commits nothing keeps what every SELECT returns.
LEMMA SelectKept ==
    ASSUME UNCHANGED rows, NEW ck
    PROVE  Select(ck)' = Select(ck)
  BY DEF Select, Committed, KeyOfRow

\* A step that neither inserts nor commits keeps the keys guarded.
LEMMA QuietStep ==
    ASSUME WellFormed, KeysGuarded, [Next]_vars, UNCHANGED rows,
           Holders' \subseteq Holders, \A r \in Holders : arg'[r] = arg[r]
    PROVE  KeysGuarded'
  <1>1. \A r \in Holders : KeyOf(r)' = KeyOf(r)
    BY HolderKnown, KeyOfStable
  <1>2. \A r \in Holders' : KeyOf(r)' = KeyOf(r) /\ Select(KeyOf(r))' = Select(KeyOf(r))
    BY <1>1 DEF Select, Committed, KeyOfRow
  <1>3. OneRowPerKey'
    BY DEF KeysGuarded, OneRowPerKey, Committed, KeyOfRow
  <1> QED
    BY <1>1, <1>2, <1>3 DEF KeysGuarded

\* An INSERT that finds the key free takes it.
LEMMA InsertStep ==
    ASSUME WellFormed, KeysGuarded, [Next]_vars, UNCHANGED <<rows, arg>>,
           NEW r \in Requests, KeyKnown(r), Holders' = Holders \cup {r},
           Select(KeyOf(r)) = {}, \A q \in Holders : KeyOf(q) # KeyOf(r)
    PROVE  KeysGuarded'
  <1>1. \A q \in Holders' : KeyOf(q)' = KeyOf(q)
    BY HolderKnown, KeyOfStable
  <1>2. \A q \in Holders' : Select(KeyOf(q)') = {}
    BY <1>1 DEF KeysGuarded
  <1>3. \A q \in Holders' : Select(KeyOf(q))' = {}
    BY <1>2 DEF Select, Committed, KeyOfRow
  <1>4. OneRowPerKey'
    BY DEF KeysGuarded, OneRowPerKey, Committed, KeyOfRow
  <1> QED
    BY <1>1, <1>3, <1>4 DEF KeysGuarded

\* A COMMIT turns an index entry into a committed row with the same key.
LEMMA CommitEffect ==
    ASSUME WellFormed, [Next]_vars, NEW r \in Requests,
           CommitCharge(r) \/ CommitRefund(r)
    PROVE  /\ r \in Holders /\ KeyKnown(r)
           /\ Committed' = Committed \cup {r}
           /\ rows[r] = None
           /\ KeyOfRow(r)' = KeyOf(r)
           /\ \A t \in Committed : KeyOfRow(t)' = KeyOfRow(t)
  <1>1. r \in Holders /\ rows[r] = None
    BY DEF WellFormed, CommitCharge, CommitRefund, Holders
  <1>2. KeyKnown(r)
    BY <1>1, HolderKnown
  <1>3. RowsOnlyGrow
    BY RowsStep
  <1>4. rows'[r] # None /\ KeyOfRow(r)' = KeyOf(r)
    <2>1. CASE CommitCharge(r)
      <3>1. arg[r] \in ChargeArgs
        BY <2>1 DEF WellFormed, CommitCharge, ChargePC
      <3>2. rows'[r] = ChargeRow(arg[r])
        BY <2>1, CommitChargeEffect
      <3>3. ChargeRow(arg[r]) # None
        BY <3>1, ChargeRowType, NoneAssumption
      <3> QED
        BY <3>1, <3>2, <3>3 DEF KeyOfRow, KeyOf, ChargeRow, ChargeArgs
    <2>2. CASE CommitRefund(r)
      <3>1. arg[r] \in RefundArgs /\ rows[arg[r].target] # None
        BY <2>2 DEF WellFormed, CommitRefund, RefundPC, Loaded
      <3>2. rows'[r] = RefundRow(arg[r])
        BY <2>2, CommitRefundEffect
      <3>3. rows[arg[r].target] \in Rows
        BY <3>1 DEF WellFormed, TypeOK, RefundArgs
      <3>4. RefundRow(arg[r]) # None
        BY <3>1, <3>3, RefundRowType, NoneAssumption
      <3> QED
        BY <3>1, <3>2, <3>4 DEF KeyOfRow, KeyOf, RefundRow, RefundArgs
    <2> QED
      BY <2>1, <2>2
  <1>5. \A t \in Requests \ {r} : rows'[t] # None => rows[t] # None
    <2>1. CASE CommitCharge(r)
      BY <2>1, CommitChargeEffect
    <2>2. CASE CommitRefund(r)
      <3>1. rows[arg[r].target] # None
        BY <2>2 DEF WellFormed, CommitRefund, Loaded
      <3>2. \A t \in Requests \ {r, arg[r].target} : rows'[t] = rows[t]
        BY <2>2, CommitRefundEffect
      <3> QED
        BY <3>1, <3>2
    <2> QED
      BY <2>1, <2>2
  <1> QED
    BY <1>1, <1>2, <1>3, <1>4, <1>5 DEF Committed, RowsOnlyGrow, KeyOfRow

LEMMA CommitStep ==
    ASSUME WellFormed, KeysGuarded, [Next]_vars, NEW r \in Requests, UNCHANGED arg,
           CommitCharge(r) \/ CommitRefund(r), Holders' = Holders \ {r}
    PROVE  KeysGuarded'
  <1>1. /\ r \in Holders
        /\ Committed' = Committed \cup {r}
        /\ KeyOfRow(r)' = KeyOf(r)
        /\ \A t \in Committed : KeyOfRow(t)' = KeyOfRow(t)
    BY CommitEffect
  <1>2. \A q \in Holders : KeyOf(q)' = KeyOf(q)
    BY HolderKnown, KeyOfStable
  <1>3. \A t \in Committed, q \in Holders : KeyOfRow(t) # KeyOf(q)
    BY DEF KeysGuarded, Select
  <1>4. \A t, u \in Committed : KeyOfRow(t) = KeyOfRow(u) => t = u
    BY DEF KeysGuarded, OneRowPerKey
  <1>5. OneRowPerKey'
    BY <1>1, <1>3, <1>4 DEF OneRowPerKey
  <1>6. \A q \in Holders' : q \in Holders /\ KeyOf(q) # KeyOf(r)
    BY <1>1 DEF KeysGuarded
  <1>7. \A q \in Holders' : Select(KeyOf(q))' = {}
    BY <1>1, <1>2, <1>3, <1>6 DEF Select
  <1> QED
    BY <1>2, <1>5, <1>6, <1>7 DEF KeysGuarded

\* The three kinds of step, as far as the tables and the index are concerned.
LEMMA StepKinds ==
    ASSUME WellFormed, [Next]_vars
    PROVE  \/ /\ UNCHANGED rows
              /\ Holders' \subseteq Holders
              /\ \A r \in Holders : arg'[r] = arg[r]
           \/ \E r \in Requests :
                 /\ UNCHANGED <<rows, arg>>
                 /\ KeyKnown(r)
                 /\ Holders' = Holders \cup {r}
                 /\ Select(KeyOf(r)) = {}
                 /\ \A q \in Holders : KeyOf(q) # KeyOf(r)
           \/ \E r \in Requests :
                 /\ UNCHANGED arg
                 /\ CommitCharge(r) \/ CommitRefund(r)
                 /\ Holders' = Holders \ {r}
  <1> DEFINE Quiet == /\ UNCHANGED rows
                      /\ Holders' \subseteq Holders
                      /\ \A r \in Holders : arg'[r] = arg[r]
  <1> DEFINE Inserts(r) == /\ UNCHANGED <<rows, arg>>
                           /\ KeyKnown(r)
                           /\ Holders' = Holders \cup {r}
                           /\ Select(KeyOf(r)) = {}
                           /\ \A q \in Holders : KeyOf(q) # KeyOf(r)
  <1> DEFINE Commits(r) == /\ UNCHANGED arg
                           /\ CommitCharge(r) \/ CommitRefund(r)
                           /\ Holders' = Holders \ {r}
  <1>0. pc \in [Requests -> ChargePC \cup RefundPC \cup {"idle", "done", "lost"}]
    BY DEF WellFormed, TypeOK
  <1>1. ASSUME NEW r \in Requests, NEW a \in ChargeArgs \cup RefundArgs, Arrive(r, a)
        PROVE  Quiet
    BY <1>0, <1>1 DEF Arrive, Goto, Holders, dbVars, WellFormed, TypeOK
  <1>2. ASSUME NEW r \in Requests,
               \/ ChargeStart(r) \/ ChargeLookup(r) \/ ChargeRefill(r) \/ ChargeFill(r)
               \/ ChargeConflict(r) \/ RefundStart(r) \/ RefundLoad(r) \/ RefundUpdate(r)
               \/ DatabaseFails(r)
        PROVE  Quiet
    BY <1>0, <1>2
    DEF ChargeStart, ChargeLookup, ChargeRefill, ChargeFill, ChargeConflict, RefundStart,
        RefundLoad, RefundUpdate, DatabaseFails, CacheAndReply, Goto, Reply, Holders, dbVars
  <1>3. ASSUME NEW r \in Requests, ChargeInsert(r) \/ RefundInsert(r)
        PROVE  Quiet \/ Inserts(r)
    <2>1. KeyKnown(r)
      BY <1>3 DEF ChargeInsert, RefundInsert, WellFormed, KeyKnown, ChargePC, RefundPC, Loaded
    <2>2. CASE Select(KeyOf(r)) = {}
      BY <1>0, <1>3, <2>1, <2>2 DEF ChargeInsert, RefundInsert, Goto, Holders, dbVars
    <2>3. CASE Select(KeyOf(r)) # {}
      BY <1>0, <1>3, <2>3 DEF ChargeInsert, RefundInsert, Goto, Reply, Holders, dbVars
    <2> QED
      BY <2>2, <2>3
  <1>4. ASSUME NEW r \in Requests, ChargeCommit(r) \/ RefundCommit(r) \/ CommitUnacknowledged(r)
        PROVE  Commits(r)
    <2>1. CommitCharge(r) \/ CommitRefund(r)
      BY <1>4 DEF ChargeCommit, RefundCommit, CommitUnacknowledged
    <2>2. /\ pc[r] \in {"charge_commit", "refund_commit"}
          /\ \/ pc' = [pc EXCEPT ![r] = "charge_fill"]
             \/ pc' = [pc EXCEPT ![r] = "done"]
      BY <1>4 DEF ChargeCommit, RefundCommit, CommitUnacknowledged, CommitCharge, CommitRefund,
                  Goto, Reply
    <2>3. UNCHANGED arg
      BY <1>4 DEF ChargeCommit, RefundCommit, CommitUnacknowledged
    <2>4. Holders' = Holders \ {r}
      BY <1>0, <2>2 DEF Holders
    <2> QED
      BY <2>1, <2>3, <2>4
  <1>5. ASSUME Crash \/ RedisUpOrDown \/ \E ck \in ScopedKeys : CacheExpire(ck)
        PROVE  Quiet
    BY <1>0, <1>5 DEF Crash, RedisUpOrDown, CacheExpire, Holders, dbVars
  <1>6. CASE UNCHANGED vars
    BY <1>6 DEF vars, Holders
  <1> QED
    BY <1>1, <1>2, <1>3, <1>4, <1>5, <1>6 DEF Next, Serve, Charge, Refund

LEMMA KeysGuardedStep ==
    ASSUME WellFormed, KeysGuarded, [Next]_vars
    PROVE  KeysGuarded'
  BY StepKinds, QuietStep, InsertStep, CommitStep

LEMMA InitKeysGuarded == Init => KeysGuarded
  BY DEF Init, KeysGuarded, OneRowPerKey, Holders, Committed

\* No interleaving of charges and refunds, and no crash, puts two committed rows
\* under one customer's key: the UNIQUE constraint is never violated.
THEOREM KeysAreUnique == Spec => []OneRowPerKey
  <1>1. Init => WellFormed /\ KeysGuarded
    BY InitWellFormed, InitKeysGuarded
  <1>2. WellFormed /\ KeysGuarded /\ [Next]_vars => (WellFormed /\ KeysGuarded)'
    BY WellFormedStep, KeysGuardedStep
  <1>3. WellFormed /\ KeysGuarded => OneRowPerKey
    BY DEF KeysGuarded
  <1> QED
    BY <1>1, <1>2, <1>3, PTL DEF Spec

-----------------------------------------------------------------------------
(***************************************************************************)
(* The refinement of OncePerKey.  Truthful says that everything a request  *)
(* or Redis remembers of a key names the committed row with that key.      *)
(***************************************************************************)
Truthful ==
    /\ CacheBehindDatabase
    /\ \A r \in Requests :
          /\ pc[r] = "charge_refill" => found[r] \in Select(KeyOf(r))
          /\ pc[r] = "charge_fill" => arg[r] \in ChargeArgs /\ r \in Select(KeyOf(r))
          /\ pc[r] # "done" => answer[r] = None
          /\ r \in Told => arg[r] \in ChargeArgs /\ answer[r].txn \in Select(KeyOf(r))

LEMMA InitTruthful == Init => Truthful
  BY DEF Init, Truthful, CacheBehindDatabase, Told

\* What a SELECT has returned, every later SELECT for that key returns.
LEMMA SelectGrows ==
    ASSUME WellFormed, [Next]_vars, NEW ck, NEW t \in Select(ck)
    PROVE  t \in Select(ck)'
  BY RowsStep DEF RowsOnlyGrow, Select, Committed, KeyOfRow

\* A reply gives request r an answer and leaves the other answers alone.
LEMMA ReplyTold ==
    ASSUME WellFormed, NEW r \in Requests, NEW w, NEW t, Reply(r, w, t),
           [what |-> w, txn |-> t] \in Answers
    PROVE  /\ answer'[r] = [what |-> w, txn |-> t]
           /\ \A q \in Requests \ {r} : answer'[q] = answer[q] /\ pc'[q] = pc[q]
           /\ pc'[r] = "done"
           /\ Told' = IF w \in {"created", "duplicate"} THEN Told \cup {r} ELSE Told \ {r}
  <1>1. /\ answer'[r] = [what |-> w, txn |-> t]
        /\ \A q \in Requests \ {r} : answer'[q] = answer[q] /\ pc'[q] = pc[q]
        /\ pc'[r] = "done"
    BY DEF Reply, WellFormed, TypeOK
  <1>2. answer'[r] # None
    BY <1>1, NoneAssumption
  <1> QED
    BY <1>1, <1>2 DEF Told

\* A step either answers nobody or gives one request its first answer; a
\* charge is told of a row that a SELECT for its key would return.
LEMMA AnswerKinds ==
    ASSUME WellFormed, Truthful, [Next]_vars
    PROVE  \/ /\ UNCHANGED answer
              /\ \A r \in Requests : pc[r] = "done" => pc'[r] = "done" /\ arg'[r] = arg[r]
           \/ \E r \in Requests, w \in Words, t \in Requests \cup {None} :
                 /\ Reply(r, w, t)
                 /\ UNCHANGED arg
                 /\ pc[r] # "done"
                 /\ w \in {"created", "duplicate"} =>
                       arg[r] \in ChargeArgs /\ t \in Select(KeyOf(r)) /\ UNCHANGED rows
  <1> DEFINE Silent == /\ UNCHANGED answer
                       /\ \A r \in Requests : pc[r] = "done" => pc'[r] = "done" /\ arg'[r] = arg[r]
  <1> DEFINE Tells(r, w, t) ==
                 /\ Reply(r, w, t)
                 /\ UNCHANGED arg
                 /\ pc[r] # "done"
                 /\ w \in {"created", "duplicate"} =>
                       arg[r] \in ChargeArgs /\ t \in Select(KeyOf(r)) /\ UNCHANGED rows
  <1> DEFINE Speaks(r) == \E w \in Words, t \in Requests \cup {None} : Tells(r, w, t)
  <1>0. /\ pc \in [Requests -> ChargePC \cup RefundPC \cup {"idle", "done", "lost"}]
        /\ arg \in [Requests -> ChargeArgs \cup RefundArgs \cup {None}]
    BY DEF WellFormed, TypeOK
  <1>1. ASSUME NEW r \in Requests, NEW a \in ChargeArgs \cup RefundArgs, Arrive(r, a)
        PROVE  Silent
    BY <1>0, <1>1 DEF Arrive, Goto
  <1>2. ASSUME NEW r \in Requests, ChargeStart(r)
        PROVE  Silent \/ Speaks(r)
    <2>1. arg[r] \in ChargeArgs /\ pc[r] # "done"
      BY <1>2 DEF ChargeStart, WellFormed, ChargePC
    <2>2. CASE Reply(r, "invalid", None) \/ Reply(r, "redis_error", None)
      BY <1>2, <2>1, <2>2 DEF ChargeStart, Words
    <2>3. CASE cache[CacheKey(r)] # None /\ Reply(r, "duplicate", cache[CacheKey(r)])
      <3>1. CacheKey(r) = KeyOf(r) /\ KeyOf(r) \in ScopedKeys
        BY <2>1, KeyOfType DEF CacheKey, KeyKnown
      <3>2. cache[CacheKey(r)] \in Select(KeyOf(r)) /\ cache[CacheKey(r)] \in Requests
        BY <2>3, <3>1 DEF Truthful, CacheBehindDatabase, Select, Committed
      <3> QED
        BY <1>2, <2>1, <2>3, <3>2 DEF ChargeStart, Words, dbVars
    <2>4. CASE Goto(r, "charge_lookup") /\ UNCHANGED answer
      BY <1>0, <1>2, <2>1, <2>4 DEF ChargeStart, Goto
    <2> QED
      BY <1>2, <2>2, <2>3, <2>4 DEF ChargeStart
  <1>3. ASSUME NEW r \in Requests, ChargeLookup(r) \/ ChargeInsert(r) \/ RefundUpdate(r) \/ ChargeCommit(r)
        PROVE  Silent
    BY <1>0, <1>3 DEF ChargeLookup, ChargeInsert, RefundUpdate, ChargeCommit, CommitCharge, Goto
  <1>4. ASSUME NEW r \in Requests, ChargeRefill(r)
        PROVE  Speaks(r)
    <2>1. arg[r] \in ChargeArgs /\ found[r] \in Select(KeyOf(r)) /\ pc[r] # "done"
      BY <1>4 DEF ChargeRefill, WellFormed, Truthful, ChargePC
    <2> QED
      BY <1>4, <2>1 DEF ChargeRefill, CacheAndReply, Words, dbVars, Select, Committed
  <1>5. ASSUME NEW r \in Requests, ChargeFill(r)
        PROVE  Speaks(r)
    <2>1. arg[r] \in ChargeArgs /\ r \in Select(KeyOf(r)) /\ pc[r] # "done"
      BY <1>5 DEF ChargeFill, Truthful
    <2> QED
      BY <1>5, <2>1 DEF ChargeFill, CacheAndReply, Words, dbVars
  <1>6. ASSUME NEW r \in Requests, ChargeConflict(r)
        PROVE  Speaks(r)
    <2>1. arg[r] \in ChargeArgs /\ pc[r] # "done"
      BY <1>6 DEF ChargeConflict, WellFormed, ChargePC
    <2> QED
      BY <1>6, <2>1 DEF ChargeConflict, Words, dbVars, Select, Committed
  <1>7. ASSUME NEW r \in Requests, RefundStart(r) \/ RefundLoad(r) \/ RefundInsert(r)
        PROVE  Silent \/ Speaks(r)
    BY <1>0, <1>7 DEF RefundStart, RefundLoad, RefundInsert, Goto, Words
  <1>8. ASSUME NEW r \in Requests, RefundCommit(r) \/ DatabaseFails(r) \/ CommitUnacknowledged(r)
        PROVE  Speaks(r)
    <2>1. pc[r] # "done" /\ UNCHANGED arg
      BY <1>8 DEF RefundCommit, DatabaseFails, CommitUnacknowledged, CommitCharge, CommitRefund,
                  InDatabase, ChargePC, RefundPC
    <2>2. Reply(r, "refunded", r) \/ Reply(r, "internal_error", None)
      BY <1>8 DEF RefundCommit, DatabaseFails, CommitUnacknowledged
    <2> QED
      BY <2>1, <2>2 DEF Words
  <1>9. ASSUME Crash \/ RedisUpOrDown \/ \E ck \in ScopedKeys : CacheExpire(ck)
        PROVE  Silent
    BY <1>0, <1>9 DEF Crash, RedisUpOrDown, CacheExpire
  <1>10. CASE UNCHANGED vars
    BY <1>10 DEF vars
  <1> QED
    BY <1>1, <1>2, <1>3, <1>4, <1>5, <1>6, <1>7, <1>8, <1>9, <1>10 DEF Next, Serve, Charge, Refund

\* Redis is given only committed rows, under their own keys.
LEMMA CacheKinds ==
    ASSUME WellFormed, Truthful, [Next]_vars, NEW ck \in ScopedKeys, cache'[ck] # None
    PROVE  cache'[ck] \in Select(ck)
  <1>0. cache \in [ScopedKeys -> Requests \cup {None}]
    BY DEF WellFormed, TypeOK
  <1>1. CASE cache'[ck] = cache[ck]
    BY <1>1 DEF Truthful, CacheBehindDatabase
  <1>2. ASSUME NEW r \in Requests, ChargeRefill(r)
        PROVE  cache'[ck] \in Select(ck)
    <2>1. arg[r] \in ChargeArgs /\ found[r] \in Select(KeyOf(r))
      BY <1>2 DEF ChargeRefill, WellFormed, Truthful, ChargePC
    <2> QED
      BY <1>0, <1>1, <1>2, <2>1 DEF ChargeRefill, CacheAndReply, CacheKey
  <1>3. ASSUME NEW r \in Requests, ChargeFill(r)
        PROVE  cache'[ck] \in Select(ck)
    <2>1. r \in Select(KeyOf(r))
      BY <1>3 DEF ChargeFill, Truthful
    <2> QED
      BY <1>0, <1>1, <1>3, <2>1 DEF ChargeFill, CacheAndReply, CacheKey
  <1>4. ASSUME NEW c \in ScopedKeys, CacheExpire(c)
        PROVE  cache'[ck] \in Select(ck)
    BY <1>0, <1>1, <1>4 DEF CacheExpire
  <1> QED
    BY <1>1, <1>2, <1>3, <1>4
    DEF Next, Serve, Charge, Refund, Arrive, ChargeStart, ChargeLookup,
        ChargeInsert, ChargeCommit, ChargeConflict, RefundStart, RefundLoad,
        RefundInsert, RefundUpdate, RefundCommit, DatabaseFails, CommitUnacknowledged,
        Crash, RedisUpOrDown, redisVars, vars

\* Who reaches charge_refill and charge_fill, and with what in hand.
LEMMA HandKinds ==
    ASSUME WellFormed, Truthful, [Next]_vars, NEW r \in Requests
    PROVE  /\ pc'[r] = "charge_refill" =>
                /\ arg[r] \in ChargeArgs /\ arg'[r] = arg[r]
                /\ found'[r] \in Select(KeyOf(r))
           /\ pc'[r] = "charge_fill" =>
                /\ arg[r] \in ChargeArgs /\ arg'[r] = arg[r]
                /\ r \in Select(KeyOf(r)) \/ CommitCharge(r)
  <1> DEFINE Good ==
        /\ pc'[r] = "charge_refill" =>
              /\ arg[r] \in ChargeArgs /\ arg'[r] = arg[r]
              /\ found'[r] \in Select(KeyOf(r))
        /\ pc'[r] = "charge_fill" =>
              /\ arg[r] \in ChargeArgs /\ arg'[r] = arg[r]
              /\ r \in Select(KeyOf(r)) \/ CommitCharge(r)
  <1>0. /\ pc \in [Requests -> ChargePC \cup RefundPC \cup {"idle", "done", "lost"}]
        /\ arg \in [Requests -> ChargeArgs \cup RefundArgs \cup {None}]
        /\ found \in [Requests -> Requests \cup {None}]
    BY DEF WellFormed, TypeOK
  <1>1. pc[r] \in ChargePC => arg[r] \in ChargeArgs
    BY DEF WellFormed
  <1>2. CASE pc'[r] = pc[r] /\ arg'[r] = arg[r] /\ found'[r] = found[r]
    BY <1>1, <1>2 DEF Truthful, ChargePC
  <1>3. CASE pc'[r] \notin {"charge_refill", "charge_fill"}
    BY <1>3
  <1>4. ASSUME NEW q \in Requests, ChargeLookup(q)
        PROVE  Good
    BY <1>0, <1>1, <1>2, <1>4 DEF ChargeLookup, Goto, ChargePC
  <1>5. ASSUME NEW q \in Requests, ChargeCommit(q)
        PROVE  Good
    <2>1. CASE q = r
      BY <1>0, <1>1, <1>5, <2>1 DEF ChargeCommit, CommitCharge, Goto, ChargePC
    <2>2. CASE q # r
      BY <1>0, <1>2, <1>5, <2>2 DEF ChargeCommit, Goto
    <2> QED
      BY <2>1, <2>2
  <1>6. ASSUME NEW q \in Requests, NEW w, NEW t, Reply(q, w, t), UNCHANGED <<arg, found>>
        PROVE  Good
    BY <1>0, <1>2, <1>3, <1>6 DEF Reply
  <1>7. ASSUME NEW q \in Requests, NEW a \in ChargeArgs \cup RefundArgs, Arrive(q, a)
        PROVE  Good
    BY <1>0, <1>2, <1>3, <1>7 DEF Arrive, Goto
  <1>8. ASSUME NEW q \in Requests,
               \/ ChargeStart(q) \/ ChargeRefill(q) \/ ChargeInsert(q) \/ ChargeFill(q)
               \/ ChargeConflict(q) \/ RefundStart(q) \/ RefundLoad(q) \/ RefundInsert(q)
               \/ RefundUpdate(q) \/ RefundCommit(q) \/ DatabaseFails(q)
               \/ CommitUnacknowledged(q)
        PROVE  Good
    BY <1>0, <1>2, <1>3, <1>6, <1>8
    DEF ChargeStart, ChargeRefill, ChargeInsert, ChargeFill, ChargeConflict, RefundStart,
        RefundLoad, RefundInsert, RefundUpdate, RefundCommit, DatabaseFails,
        CommitUnacknowledged, CacheAndReply, Goto
  <1>9. ASSUME Crash \/ RedisUpOrDown \/ \E ck \in ScopedKeys : CacheExpire(ck)
        PROVE  Good
    BY <1>0, <1>2, <1>3, <1>9 DEF Crash, RedisUpOrDown, CacheExpire
  <1>10. CASE UNCHANGED vars
    BY <1>2, <1>10 DEF vars
  <1> QED
    BY <1>4, <1>5, <1>7, <1>8, <1>9, <1>10 DEF Next, Serve, Charge, Refund

LEMMA TruthfulStep ==
    ASSUME WellFormed, KeysGuarded, Truthful, [Next]_vars
    PROVE  Truthful'
  <1>1. CacheBehindDatabase'
    BY CacheKinds, SelectGrows DEF CacheBehindDatabase
  <1>2. ASSUME NEW r \in Requests, pc'[r] = "charge_refill"
        PROVE  found'[r] \in Select(KeyOf(r))'
    <2>1. arg[r] \in ChargeArgs /\ arg'[r] = arg[r] /\ found'[r] \in Select(KeyOf(r))
      BY <1>2, HandKinds
    <2>2. KeyOf(r)' = KeyOf(r)
      BY <2>1, KeyOfStable DEF KeyKnown
    <2> QED
      BY <2>1, <2>2, SelectGrows DEF Select, Committed, KeyOfRow
  <1>3. ASSUME NEW r \in Requests, pc'[r] = "charge_fill"
        PROVE  arg'[r] \in ChargeArgs /\ r \in Select(KeyOf(r))'
    <2>1. /\ arg[r] \in ChargeArgs /\ arg'[r] = arg[r]
          /\ r \in Select(KeyOf(r)) \/ CommitCharge(r)
      BY <1>3, HandKinds
    <2>2. KeyOf(r)' = KeyOf(r)
      BY <2>1, KeyOfStable DEF KeyKnown
    <2>3. CASE r \in Select(KeyOf(r))
      BY <2>1, <2>2, <2>3, SelectGrows DEF Select, Committed, KeyOfRow
    <2>4. CASE CommitCharge(r)
      BY <2>1, <2>2, <2>4, CommitEffect DEF Select
    <2> QED
      BY <2>1, <2>3, <2>4
  <1>4. ASSUME NEW r \in Requests
        PROVE  /\ pc'[r] # "done" => answer'[r] = None
               /\ r \in Told' => arg'[r] \in ChargeArgs /\ answer'[r].txn \in Select(KeyOf(r))'
    <2>1. CASE pc'[r] = "done" /\ answer'[r] = None
      BY <2>1 DEF Told
    <2>2. CASE answer'[r] = answer[r] /\ arg'[r] = arg[r] /\ (pc[r] = "done" => pc'[r] = "done")
      <3>1. pc'[r] # "done" => answer'[r] = None
        BY <2>2 DEF Truthful
      <3>2. ASSUME r \in Told'
            PROVE  arg'[r] \in ChargeArgs /\ answer'[r].txn \in Select(KeyOf(r))'
        <4>1. arg[r] \in ChargeArgs /\ answer[r].txn \in Select(KeyOf(r))
          BY <2>2, <3>2 DEF Told, Truthful
        <4>2. KeyOf(r)' = KeyOf(r)
          BY <2>2, <4>1, KeyOfStable DEF KeyKnown
        <4> QED
          BY <2>2, <4>1, <4>2, SelectGrows DEF Select, Committed, KeyOfRow
      <3> QED
        BY <3>1, <3>2
    <2>3. CASE UNCHANGED answer /\ \A q \in Requests : pc[q] = "done" => pc'[q] = "done" /\ arg'[q] = arg[q]
      <3>1. CASE pc[r] = "done"
        BY <2>2, <2>3, <3>1
      <3>2. CASE pc[r] # "done"
        BY <2>3, <3>2 DEF Truthful, Told
      <3> QED
        BY <3>1, <3>2
    <2>4. ASSUME NEW q \in Requests, NEW w \in Words, NEW t \in Requests \cup {None},
                 Reply(q, w, t), UNCHANGED arg, pc[q] # "done",
                 w \in {"created", "duplicate"} =>
                    arg[q] \in ChargeArgs /\ t \in Select(KeyOf(q)) /\ UNCHANGED rows
          PROVE  /\ pc'[r] # "done" => answer'[r] = None
                 /\ r \in Told' => arg'[r] \in ChargeArgs /\ answer'[r].txn \in Select(KeyOf(r))'
      <3>1. /\ answer'[q] = [what |-> w, txn |-> t]
            /\ \A p \in Requests \ {q} : answer'[p] = answer[p] /\ pc'[p] = pc[p]
            /\ pc'[q] = "done"
        BY <2>4, ReplyTold DEF Answers
      <3>2. CASE r # q
        BY <2>2, <2>4, <3>1, <3>2
      <3>3. CASE r = q
        <4>1. ASSUME w \in {"created", "duplicate"}
              PROVE  arg'[r] \in ChargeArgs /\ answer'[r].txn \in Select(KeyOf(r))'
          <5>1. arg[q] \in ChargeArgs /\ t \in Select(KeyOf(q)) /\ UNCHANGED rows
            BY <2>4, <4>1
          <5>2. KeyOf(q)' = KeyOf(q)
            BY <2>4, <5>1, KeyOfStable DEF KeyKnown
          <5>3. t \in Select(KeyOf(q))'
            BY <5>1, <5>2 DEF Select, Committed, KeyOfRow
          <5> QED
            BY <2>4, <3>1, <3>3, <5>1, <5>3
        <4>2. r \in Told' => w \in {"created", "duplicate"}
          BY <3>1, <3>3 DEF Told
        <4> QED
          BY <3>1, <3>3, <4>1, <4>2
      <3> QED
        BY <3>2, <3>3
    <2> QED
      BY <2>3, <2>4, AnswerKinds
  <1> QED
    BY <1>1, <1>2, <1>3, <1>4 DEF Truthful

\* Under OneRowPerKey the effect of a key is the row a SELECT returns.
LEMMA EffectIsSelected ==
    ASSUME OneRowPerKey, NEW ck, NEW t \in Select(ck)
    PROVE  EffectOf(ck) = t
  <1>1. \A u \in Select(ck) : u = t
    BY DEF OneRowPerKey, Select, Committed
  <1> QED
    BY <1>1 DEF EffectOf

\* A COMMIT executes one key of the contract.
LEMMA CommitExecutes ==
    ASSUME WellFormed, KeysGuarded, KeysGuarded', [Next]_vars, NEW r \in Requests,
           CommitCharge(r) \/ CommitRefund(r), UNCHANGED ToldPairs
    PROVE  Contract!Execute(KeyOf(r), r) /\ KeyOf(r) \in ScopedKeys
  <1>1. /\ r \in Holders /\ KeyKnown(r) /\ rows[r] = None
        /\ Committed' = Committed \cup {r}
        /\ KeyOfRow(r)' = KeyOf(r)
        /\ \A t \in Committed : KeyOfRow(t)' = KeyOfRow(t)
    BY CommitEffect
  <1>2. KeyOf(r) \in ScopedKeys
    BY <1>1, KeyOfType
  <1>3. Select(KeyOf(r)) = {}
    BY <1>1 DEF KeysGuarded
  <1>4. \A ck : ck # KeyOf(r) => Select(ck)' = Select(ck)
    BY <1>1 DEF Select
  <1>5. r \in {t \in Committed' : KeyOfRow(t)' = KeyOf(r)}
    BY <1>1
  <1>6. EffectMap'[KeyOf(r)] = r
    <2>1. \A t \in Committed', u \in Committed' : KeyOfRow(t)' = KeyOfRow(u)' => t = u
      BY DEF KeysGuarded, OneRowPerKey
    <2> DEFINE S == {t \in Committed' : KeyOfRow(t)' = KeyOf(r)}
    <2>2. S = {r}
      BY <1>5, <2>1
    <2>3. EffectMap'[KeyOf(r)] = IF S = {} THEN None ELSE CHOOSE t \in S : TRUE
      BY <1>2 DEF EffectMap, EffectOf, Select
    <2> QED
      BY <2>2, <2>3
  <1>7. \A ck \in ScopedKeys : ck # KeyOf(r) => EffectMap'[ck] = EffectMap[ck]
    <2>1. ASSUME NEW ck \in ScopedKeys, ck # KeyOf(r)
          PROVE  EffectOf(ck)' = EffectOf(ck)
      <3>1. Select(ck)' = Select(ck)
        BY <1>4, <2>1
      <3> QED
        BY <3>1 DEF EffectOf
    <2> QED
      BY <2>1 DEF EffectMap
  <1>8. EffectMap' = [EffectMap EXCEPT ![KeyOf(r)] = r]
    BY <1>2, <1>6, <1>7 DEF EffectMap
  <1>9. EffectMap[KeyOf(r)] = None
    BY <1>2, <1>3 DEF EffectMap, EffectOf
  <1>10. \A ck \in ScopedKeys : EffectMap[ck] # r
    BY <1>1, PaymentAssumption DEF EffectMap, EffectOf, Select, Committed
  <1> QED
    BY <1>2, <1>8, <1>9, <1>10 DEF Contract!Execute

\* A step that commits nothing keeps the effect of every key.
LEMMA EffectsKept ==
    ASSUME UNCHANGED rows
    PROVE  UNCHANGED EffectMap
  BY DEF EffectMap, EffectOf, Select, Committed, KeyOfRow

\* What a step does to the pairs that clients were told.
LEMMA ToldKinds ==
    ASSUME WellFormed, Truthful, KeysGuarded, [Next]_vars
    PROVE  \/ UNCHANGED ToldPairs
           \/ UNCHANGED rows /\ \E ck \in ScopedKeys : Contract!Answer(ck)
  <1>1. ASSUME NEW r \in Told, arg'[r] = arg[r]
        PROVE  KeyOf(r)' = KeyOf(r)
    BY <1>1, KeyOfStable DEF Truthful, KeyKnown, Told
  <1>2. CASE UNCHANGED answer /\ \A q \in Requests : pc[q] = "done" => pc'[q] = "done" /\ arg'[q] = arg[q]
    <2>1. \A r \in Told : KeyOf(r)' = KeyOf(r)
      BY <1>1, <1>2 DEF Truthful, Told
    <2>2. Told' = Told
      BY <1>2 DEF Told
    <2> QED
      BY <1>2, <2>1, <2>2 DEF ToldPairs
  <1>3. ASSUME NEW q \in Requests, NEW w \in Words, NEW t \in Requests \cup {None},
               Reply(q, w, t), UNCHANGED arg, pc[q] # "done",
               w \in {"created", "duplicate"} =>
                  arg[q] \in ChargeArgs /\ t \in Select(KeyOf(q)) /\ UNCHANGED rows
        PROVE  \/ UNCHANGED ToldPairs
               \/ UNCHANGED rows /\ \E ck \in ScopedKeys : Contract!Answer(ck)
    <2>1. /\ answer'[q] = [what |-> w, txn |-> t]
          /\ \A p \in Requests \ {q} : answer'[p] = answer[p]
          /\ Told' = IF w \in {"created", "duplicate"} THEN Told \cup {q} ELSE Told \ {q}
      BY <1>3, ReplyTold DEF Answers
    <2>2. q \notin Told
      BY <1>3 DEF Truthful, Told
    <2>3. \A r \in Told : KeyOf(r)' = KeyOf(r) /\ answer'[r] = answer[r]
      BY <1>1, <1>3, <2>1, <2>2 DEF Told
    <2>4. CASE w \notin {"created", "duplicate"}
      <3>1. Told' = Told
        BY <2>1, <2>2, <2>4
      <3> QED
        BY <2>3, <3>1 DEF ToldPairs
    <2>5. CASE w \in {"created", "duplicate"}
      <3>1. arg[q] \in ChargeArgs /\ t \in Select(KeyOf(q)) /\ UNCHANGED rows
        BY <1>3, <2>5
      <3>2. KeyOf(q)' = KeyOf(q) /\ KeyOf(q) \in ScopedKeys
        BY <1>3, <3>1, KeyOfStable, KeyOfType DEF KeyKnown
      <3>3. ToldPairs' = ToldPairs \cup {<<KeyOf(q), t>>}
        BY <2>1, <2>3, <2>5, <3>2 DEF ToldPairs
      <3>4. EffectOf(KeyOf(q)) = t
        BY <3>1, EffectIsSelected DEF KeysGuarded
      <3>5. EffectMap[KeyOf(q)] = t /\ t # None
        BY <3>1, <3>2, <3>4, PaymentAssumption DEF EffectMap, Select, Committed
      <3> QED
        BY <3>1, <3>2, <3>3, <3>5, EffectsKept DEF Contract!Answer
    <2> QED
      BY <2>4, <2>5
  <1> QED
    BY <1>2, <1>3, AnswerKinds

LEMMA ContractInit == Init => Contract!Init
  BY DEF Init, Contract!Init, EffectMap, EffectOf, Select, Committed, ToldPairs, Told

LEMMA ContractStep ==
    ASSUME WellFormed, KeysGuarded, Truthful, KeysGuarded', [Next]_vars
    PROVE  [Contract!Next]_<<EffectMap, ToldPairs>>
  <1>1. CASE UNCHANGED rows
    BY <1>1, EffectsKept, ToldKinds DEF Contract!Next
  <1>2. ASSUME NEW r \in Requests, CommitCharge(r) \/ CommitRefund(r), UNCHANGED ToldPairs
        PROVE  Contract!Next
    BY <1>2, CommitExecutes DEF Contract!Next
  <1> QED
    BY <1>1, <1>2, StepKinds, ToldKinds

\* The service implements the once-per-key contract: for any number of
\* concurrent charges and refunds, whatever fails, a scoped key takes effect at
\* most once and for ever, and every charge is told the row its key stands for.
THEOREM Refinement == Spec => ImplementsOncePerKey
  <1> DEFINE Inv == WellFormed /\ KeysGuarded /\ Truthful
  <1>1. Init => Inv /\ Contract!Init
    BY InitWellFormed, InitKeysGuarded, InitTruthful, ContractInit
  <1>2. Inv /\ [Next]_vars => Inv'
    BY WellFormedStep, KeysGuardedStep, TruthfulStep
  <1>3. Inv /\ Inv' /\ [Next]_vars => [Contract!Next]_<<EffectMap, ToldPairs>>
    BY ContractStep
  <1> QED
    BY <1>1, <1>2, <1>3, PTL DEF Spec, ImplementsOncePerKey, Contract!Spec, Contract!vars

\* Redis never names a transaction that Postgres has not committed under that key.
THEOREM CacheNeverAhead == Spec => []CacheBehindDatabase
  <1> DEFINE Inv == WellFormed /\ KeysGuarded /\ Truthful
  <1>1. Init => Inv
    BY InitWellFormed, InitKeysGuarded, InitTruthful
  <1>2. Inv /\ [Next]_vars => Inv'
    BY WellFormedStep, KeysGuardedStep, TruthfulStep
  <1>3. Inv => CacheBehindDatabase
    BY DEF Truthful
  <1> QED
    BY <1>1, <1>2, <1>3, PTL DEF Spec

-----------------------------------------------------------------------------
(***************************************************************************)
(* The books.  BooksAreClosed is inductive once it is said exactly which   *)
(* two entries a transaction has (Booked), that a refund's own row is      *)
(* marked refunded from the start, and that a refund past its SELECT       *)
(* names a charge: the status test of RefundLoad is what tells charges     *)
(* from refunds.                                                           *)
(***************************************************************************)
Opposite(side) == IF side = "debit" THEN "credit" ELSE "debit"

EntryPair(t, customer, amount, currency, side) ==
    {[txn |-> t, account |-> customer, amount |-> amount,
      currency |-> currency, side |-> side],
     [txn |-> t, account |-> Merchant, amount |-> amount,
      currency |-> currency, side |-> Opposite(side)]}

EntriesOf(t) == {e \in ledger : e.txn = t}

Booked(t) ==
    \E c \in Currencies, s \in {"debit", "credit"} :
        EntriesOf(t) = EntryPair(t, rows[t].customer, rows[t].amount, c, s)

OnlyCommittedBooked == \A e \in ledger : e.txn \in Committed
RefundsAreMarked == \A t \in Committed : rows[t].of # None => rows[t].status = "refunded"
TargetsAreCharges == \A r \in Requests : pc[r] \in Loaded => rows[arg[r].target].of = None
ChargesAnnounced == outbox = {t \in Committed : rows[t].of = None}

BooksKept ==
    /\ OnlyCommittedBooked
    /\ \A t \in Committed : Booked(t)
    /\ ChargesAnnounced
    /\ RefundsAreMarked
    /\ TargetsAreCharges
    /\ RefundedMeansReversed
    /\ ReversesACharge

\* What BooksMatchTransactions asks of the entries of one transaction.
TwoSided(entries, customer, amount) ==
    /\ {e.side : e \in entries} = {"debit", "credit"}
    /\ {e.account : e \in entries} = {customer, Merchant}
    /\ Cardinality(entries) = 2
    /\ \A e \in entries : e.amount = amount
    /\ \A e, f \in entries : e.currency = f.currency

\* A pair of entries is one on each side, one for the customer and one for the
\* merchant.
LEMMA PairFacts ==
    ASSUME NEW t, NEW customer, customer # Merchant, NEW amount, NEW currency,
           NEW side \in {"debit", "credit"}
    PROVE  TwoSided(EntryPair(t, customer, amount, currency, side), customer, amount)
  <1> DEFINE a == [txn |-> t, account |-> customer, amount |-> amount,
                   currency |-> currency, side |-> side]
             b == [txn |-> t, account |-> Merchant, amount |-> amount,
                   currency |-> currency, side |-> Opposite(side)]
  <1>1. EntryPair(t, customer, amount, currency, side) = {a} \cup {b}
    BY DEF EntryPair
  <1>2. /\ a.account = customer /\ b.account = Merchant
        /\ a.amount = amount /\ b.amount = amount
        /\ a.currency = currency /\ b.currency = currency
        /\ a.side = side /\ b.side = Opposite(side)
    OBVIOUS
  <1> HIDE DEF a, b
  <1>3. a # b
    BY <1>2
  <1>4. Cardinality({a} \cup {b}) = 2
    <2>1. IsFiniteSet({a}) /\ Cardinality({a}) = 1
      BY FS_Singleton
    <2>2. Cardinality({a} \cup {b}) = Cardinality({a}) + 1
      BY <1>3, <2>1, FS_AddElement
    <2> QED
      BY <2>1, <2>2
  <1>5. {e.side : e \in {a} \cup {b}} = {"debit", "credit"}
    <2>1. {e.side : e \in {a} \cup {b}} = {side, Opposite(side)}
      BY <1>2
    <2> QED
      BY <2>1 DEF Opposite
  <1>6. {e.account : e \in {a} \cup {b}} = {customer, Merchant}
    BY <1>2
  <1>7. TwoSided({a} \cup {b}, customer, amount)
    BY <1>2, <1>4, <1>5, <1>6 DEF TwoSided
  <1> QED
    BY <1>1, <1>7

\* What the invariant says of the entries is what the property asks.
LEMMA BooksKeptClosed ==
    ASSUME WellFormed, BooksKept
    PROVE  BooksAreClosed
  <1>1. ASSUME NEW t \in Committed
        PROVE  TwoSided(EntriesOf(t), rows[t].customer, rows[t].amount)
    <2>1. rows[t].customer # Merchant
      <3>1. rows[t] \in Rows
        BY DEF WellFormed, TypeOK, Committed
      <3> QED
        BY <3>1, PaymentAssumption DEF Rows
    <2>2. PICK c \in Currencies, s \in {"debit", "credit"} :
             EntriesOf(t) = EntryPair(t, rows[t].customer, rows[t].amount, c, s)
      BY DEF BooksKept, Booked
    <2> QED
      BY <2>1, <2>2, PairFacts
  <1>2. BooksMatchTransactions
    BY <1>1 DEF BooksMatchTransactions, TwoSided, EntriesOf, BooksKept, OnlyCommittedBooked,
                ChargesAnnounced
  <1> QED
    BY <1>2 DEF BooksAreClosed, BooksKept

\* A step either leaves the tables alone or is one COMMIT.
LEMMA TableKinds ==
    ASSUME [Next]_vars
    PROVE  \/ UNCHANGED dbVars
           \/ \E r \in Requests : (CommitCharge(r) \/ CommitRefund(r)) /\ UNCHANGED arg
  BY DEF Next, Serve, Charge, Refund, Arrive, ChargeStart, ChargeLookup, ChargeRefill,
         ChargeInsert, ChargeCommit, ChargeFill, ChargeConflict, RefundStart, RefundLoad,
         RefundInsert, RefundUpdate, RefundCommit, DatabaseFails, CommitUnacknowledged,
         Crash, RedisUpOrDown, CacheExpire, dbVars, vars

\* A request past the SELECT of its charge was there before, or has just seen the
\* charge as completed.
LEMMA LoadedKinds ==
    ASSUME WellFormed, [Next]_vars, NEW q \in Requests, pc'[q] \in Loaded
    PROVE  /\ arg'[q] = arg[q]
           /\ \/ pc[q] \in Loaded
              \/ rows[arg[q].target] # None /\ rows[arg[q].target].status = "completed"
  <1>0. pc \in [Requests -> ChargePC \cup RefundPC \cup {"idle", "done", "lost"}]
    BY DEF WellFormed, TypeOK
  <1>1. ASSUME NEW r \in Requests, NEW a \in ChargeArgs \cup RefundArgs, Arrive(r, a)
        PROVE  pc'[q] = pc[q] /\ arg'[q] = arg[q]
    <2>1. q # r
      BY <1>0, <1>1 DEF Arrive, Goto, Loaded
    <2> QED
      BY <1>0, <1>1, <2>1 DEF Arrive, Goto, WellFormed, TypeOK
  <1>2. ASSUME NEW r \in Requests, Charge(r)
        PROVE  pc'[q] = pc[q] /\ arg'[q] = arg[q]
    BY <1>0, <1>2
    DEF Charge, ChargeStart, ChargeLookup, ChargeRefill, ChargeInsert, ChargeCommit,
        ChargeFill, ChargeConflict, CacheAndReply, Goto, Reply, Loaded
  <1>3. ASSUME NEW r \in Requests, RefundLoad(r)
        PROVE  /\ arg'[q] = arg[q]
               /\ \/ pc[q] \in Loaded
                  \/ rows[arg[q].target] # None /\ rows[arg[q].target].status = "completed"
    BY <1>0, <1>3 DEF RefundLoad, Goto, Reply, Loaded
  <1>4. ASSUME NEW r \in Requests,
               RefundStart(r) \/ RefundInsert(r) \/ RefundUpdate(r) \/ RefundCommit(r)
        PROVE  arg'[q] = arg[q] /\ pc[q] \in Loaded
    BY <1>0, <1>4
    DEF RefundStart, RefundInsert, RefundUpdate, RefundCommit, Goto, Reply, Loaded
  <1>5. ASSUME NEW r \in Requests, DatabaseFails(r) \/ CommitUnacknowledged(r)
        PROVE  arg'[q] = arg[q] /\ pc[q] \in Loaded
    BY <1>0, <1>5 DEF DatabaseFails, CommitUnacknowledged, Reply, Loaded
  <1>6. ASSUME Crash \/ RedisUpOrDown \/ (\E ck \in ScopedKeys : CacheExpire(ck))
               \/ UNCHANGED vars
        PROVE  arg'[q] = arg[q] /\ pc[q] \in Loaded
    BY <1>0, <1>6 DEF Crash, RedisUpOrDown, CacheExpire, vars, Loaded
  <1> QED
    BY <1>1, <1>2, <1>3, <1>4, <1>5, <1>6 DEF Next, Serve, Refund

\* A COMMIT adds the two entries of its own transaction and no other.
LEMMA EntriesAdded ==
    ASSUME OnlyCommittedBooked, NEW r \in Requests, rows[r] = None,
           NEW new, ledger' = ledger \cup new, \A e \in new : e.txn = r
    PROVE  /\ EntriesOf(r)' = new
           /\ \A t \in Committed : EntriesOf(t)' = EntriesOf(t)
  BY DEF OnlyCommittedBooked, Committed, EntriesOf

\* The charge's COMMIT books one debit of the customer.
LEMMA BooksAfterCharge ==
    ASSUME WellFormed, BooksKept, [Next]_vars, NEW r \in Requests, CommitCharge(r)
    PROVE  /\ OnlyCommittedBooked' /\ (\A t \in Committed : Booked(t))'
           /\ ChargesAnnounced' /\ RefundsAreMarked'
           /\ RefundedMeansReversed' /\ ReversesACharge'
  <1>1. arg[r] \in ChargeArgs /\ rows[r] = None
    BY DEF WellFormed, CommitCharge, ChargePC
  <1>2. /\ rows'[r] = ChargeRow(arg[r])
        /\ \A t \in Requests \ {r} : rows'[t] = rows[t]
    BY CommitChargeEffect
  <1>3. Committed' = Committed \cup {r} /\ r \notin Committed
    BY <1>1, CommitEffect DEF Committed
  <1>4. /\ rows'[r].of = None /\ rows'[r].status = "completed"
        /\ rows'[r].customer = arg[r].customer /\ rows'[r].amount = arg[r].amount
    BY <1>2 DEF ChargeRow
  <1>5. \A t \in Committed : rows'[t] = rows[t]
    BY <1>2, <1>3 DEF Committed
  <1>6. ledger' = ledger \cup ChargeEntries(r, arg[r]) /\ outbox' = outbox \cup {r}
    BY DEF CommitCharge
  <1>7. /\ EntriesOf(r)' = ChargeEntries(r, arg[r])
        /\ \A t \in Committed : EntriesOf(t)' = EntriesOf(t)
    <2>1. \A e \in ChargeEntries(r, arg[r]) : e.txn = r
      BY DEF ChargeEntries
    <2> QED
      BY <1>1, <1>6, <2>1, EntriesAdded DEF BooksKept
  <1>8. OnlyCommittedBooked'
    <2>1. \A e \in ChargeEntries(r, arg[r]) : e.txn = r
      BY DEF ChargeEntries
    <2> QED
      BY <1>3, <1>6, <2>1 DEF BooksKept, OnlyCommittedBooked
  <1>9. Booked(r)'
    <2>1. EntriesOf(r)' = EntryPair(r, arg[r].customer, arg[r].amount, arg[r].currency, "debit")
      BY <1>7 DEF ChargeEntries, EntryPair, Opposite
    <2>2. arg[r].currency \in Currencies
      BY <1>1 DEF ChargeArgs
    <2> QED
      BY <1>4, <2>1, <2>2 DEF Booked
  <1>10. \A t \in Committed : Booked(t)'
    BY <1>5, <1>7 DEF BooksKept, Booked
  <1>11. ChargesAnnounced'
    BY <1>3, <1>4, <1>5, <1>6 DEF BooksKept, ChargesAnnounced
  <1>12. RefundsAreMarked'
    BY <1>3, <1>4, <1>5 DEF BooksKept, RefundsAreMarked
  <1>13. ReversesACharge'
    BY <1>3, <1>4, <1>5 DEF BooksKept, ReversesACharge
  <1>14. RefundedMeansReversed'
    <2>1. \A u \in Committed : rows[u].of # r
      BY <1>1, <1>3, PaymentAssumption DEF BooksKept, ReversesACharge
    <2> QED
      BY <1>3, <1>4, <1>5, <2>1, PaymentAssumption DEF BooksKept, RefundedMeansReversed
  <1> QED
    BY <1>3, <1>8, <1>9, <1>10, <1>11, <1>12, <1>13, <1>14

\* The refund's COMMIT books the reversal and marks the charge.
LEMMA BooksAfterRefund ==
    ASSUME WellFormed, BooksKept, [Next]_vars, NEW r \in Requests, CommitRefund(r)
    PROVE  /\ OnlyCommittedBooked' /\ (\A t \in Committed : Booked(t))'
           /\ ChargesAnnounced' /\ RefundsAreMarked'
           /\ RefundedMeansReversed' /\ ReversesACharge'
  <1> DEFINE c == arg[r].target
  <1>1. /\ arg[r] \in RefundArgs /\ rows[r] = None
        /\ c \in Requests /\ rows[c] # None /\ rows[c].of = None
    <2>1. pc[r] \in Loaded /\ pc[r] \in RefundPC
      BY DEF CommitRefund, Loaded, RefundPC
    <2>2. arg[r] \in RefundArgs /\ rows[c] # None
      BY <2>1 DEF WellFormed
    <2>3. rows[r] = None
      BY DEF WellFormed, CommitRefund
    <2>4. rows[c].of = None
      BY <2>1 DEF BooksKept, TargetsAreCharges
    <2> QED
      BY <2>2, <2>3, <2>4 DEF RefundArgs
  <1>2. /\ c # r
        /\ rows'[r] = RefundRow(arg[r])
        /\ rows'[c] = [rows[c] EXCEPT !.status = "refunded"]
        /\ \A t \in Requests \ {r, c} : rows'[t] = rows[t]
        /\ outbox' = outbox
    BY CommitRefundEffect
  <1>3. Committed' = Committed \cup {r} /\ r \notin Committed /\ c \in Committed
    BY <1>1, CommitEffect DEF Committed
  <1>4. /\ rows'[r].of = c /\ rows'[r].status = "refunded"
        /\ rows'[r].customer = rows[c].customer /\ rows'[r].amount = rows[c].amount
    BY <1>2 DEF RefundRow
  <1>5. /\ rows'[c].status = "refunded" /\ rows'[c].of = rows[c].of
        /\ rows'[c].customer = rows[c].customer /\ rows'[c].amount = rows[c].amount
    <2>1. rows[c] \in Rows
      BY <1>1 DEF WellFormed, TypeOK
    <2> QED
      BY <1>2, <2>1 DEF Rows
  <1>6. \A t \in Committed : t # c => rows'[t] = rows[t]
    BY <1>2, <1>3 DEF Committed
  <1>7. ledger' = ledger \cup RefundEntries(r, arg[r])
    BY DEF CommitRefund
  <1>8. \A e \in RefundEntries(r, arg[r]) : e.txn = r
    BY DEF RefundEntries
  <1> HIDE DEF c
  <1>9. /\ EntriesOf(r)' = RefundEntries(r, arg[r])
        /\ \A t \in Committed : EntriesOf(t)' = EntriesOf(t)
    BY <1>1, <1>7, <1>8, EntriesAdded DEF BooksKept
  <1>10. OnlyCommittedBooked'
    BY <1>3, <1>7, <1>8 DEF BooksKept, OnlyCommittedBooked
  <1>11. Booked(r)'
    <2>1. EntriesOf(r)' = EntryPair(r, rows[c].customer, rows[c].amount, DefaultCurrency, "credit")
      BY <1>9 DEF RefundEntries, EntryPair, Opposite, c
    <2> QED
      BY <1>4, <2>1, PaymentAssumption DEF Booked
  <1>12. \A t \in Committed : Booked(t)'
    <2>1. \A t \in Committed : rows'[t].customer = rows[t].customer /\ rows'[t].amount = rows[t].amount
      BY <1>5, <1>6
    <2> QED
      BY <1>9, <2>1 DEF BooksKept, Booked
  <1>13. \A t \in Committed : rows'[t].of = rows[t].of
    BY <1>5, <1>6
  <1>14. c # None
    BY <1>1, PaymentAssumption
  <1>15. ChargesAnnounced'
    BY <1>2, <1>3, <1>4, <1>13, <1>14 DEF BooksKept, ChargesAnnounced
  <1>16. RefundsAreMarked'
    BY <1>3, <1>4, <1>5, <1>6 DEF BooksKept, RefundsAreMarked
  <1>17. ReversesACharge'
    BY <1>1, <1>3, <1>4, <1>13 DEF BooksKept, ReversesACharge
  <1>18. RefundedMeansReversed'
    <2>1. ASSUME NEW t \in Committed', rows'[t].of = None
          PROVE  rows'[t].status = "refunded" <=> \E u \in Committed' : rows'[u].of = t
      <3>1. t \in Committed
        BY <1>3, <1>4, <1>14, <2>1
      <3>2. CASE t = c
        BY <1>3, <1>4, <1>5, <3>2
      <3>3. CASE t # c
        <4>1. rows'[t] = rows[t] /\ rows[t].of = None
          BY <1>6, <2>1, <3>1, <3>3
        <4>2. (\E u \in Committed' : rows'[u].of = t) <=> (\E u \in Committed : rows[u].of = t)
          BY <1>3, <1>4, <1>13, <3>3
        <4> QED
          BY <3>1, <4>1, <4>2 DEF BooksKept, RefundedMeansReversed
      <3> QED
        BY <3>2, <3>3
    <2> QED
      BY <2>1 DEF RefundedMeansReversed
  <1> QED
    BY <1>3, <1>10, <1>11, <1>12, <1>15, <1>16, <1>17, <1>18

\* Whoever is past the SELECT of its charge still names a charge after a step.
LEMMA TargetsStayCharges ==
    ASSUME WellFormed, BooksKept, [Next]_vars
    PROVE  TargetsAreCharges'
  <1>1. ASSUME NEW q \in Requests, pc'[q] \in Loaded
        PROVE  rows'[arg'[q].target].of = None
    <2>1. /\ arg'[q] = arg[q]
          /\ \/ pc[q] \in Loaded
             \/ rows[arg[q].target] # None /\ rows[arg[q].target].status = "completed"
      BY <1>1, LoadedKinds
    <2>2. arg[q].target \in Requests /\ rows[arg[q].target] # None
      <3>1. arg'[q] \in RefundArgs
        BY <1>1, WellFormedStep DEF WellFormed, Loaded, RefundPC
      <3>2. pc[q] \in Loaded => rows[arg[q].target] # None
        BY DEF WellFormed
      <3> QED
        BY <2>1, <3>1, <3>2 DEF RefundArgs
    <2>3. rows[arg[q].target].of = None
      <3>1. CASE pc[q] \in Loaded
        BY <3>1 DEF BooksKept, TargetsAreCharges
      <3>2. CASE rows[arg[q].target].status = "completed"
        BY <2>2, <3>2 DEF BooksKept, RefundsAreMarked, Committed
      <3> QED
        BY <2>1, <3>1, <3>2
    <2> QED
      BY <2>1, <2>2, <2>3, RowsStep DEF RowsOnlyGrow
  <1> QED
    BY <1>1 DEF TargetsAreCharges

LEMMA BooksKeptStep ==
    ASSUME WellFormed, BooksKept, [Next]_vars
    PROVE  BooksKept'
  <1>1. TargetsAreCharges'
    BY TargetsStayCharges
  <1>2. CASE UNCHANGED dbVars
    <2>1. rows' = rows /\ ledger' = ledger /\ outbox' = outbox
      BY <1>2 DEF dbVars
    <2> QED
      BY <1>1, <2>1
      DEF BooksKept, OnlyCommittedBooked, Committed, Booked, EntriesOf, ChargesAnnounced,
          RefundsAreMarked, RefundedMeansReversed, ReversesACharge
  <1>3. ASSUME NEW r \in Requests, CommitCharge(r)
        PROVE  BooksKept'
    BY <1>1, <1>3, BooksAfterCharge DEF BooksKept
  <1>4. ASSUME NEW r \in Requests, CommitRefund(r)
        PROVE  BooksKept'
    BY <1>1, <1>4, BooksAfterRefund DEF BooksKept
  <1> QED
    BY <1>2, <1>3, <1>4, TableKinds

LEMMA InitBooksKept == Init => BooksKept
  BY DEF Init, BooksKept, OnlyCommittedBooked, Committed, ChargesAnnounced, RefundsAreMarked,
         TargetsAreCharges, Loaded, RefundedMeansReversed, ReversesACharge

\* Whatever commits, fails or is refunded twice, every committed transaction has
\* exactly its two entries, only charges are announced, and a charge is marked
\* refunded exactly when a refund reverses it.
THEOREM BooksClosed == Spec => []BooksAreClosed
  <1>1. Init => WellFormed /\ BooksKept
    BY InitWellFormed, InitBooksKept
  <1>2. WellFormed /\ BooksKept /\ [Next]_vars => (WellFormed /\ BooksKept)'
    BY WellFormedStep, BooksKeptStep
  <1>3. WellFormed /\ BooksKept => BooksAreClosed
    BY BooksKeptClosed
  <1> QED
    BY <1>1, <1>2, <1>3, PTL DEF Spec

\* The ledger and the outbox only grow, and of a committed row only the status moves,
\* once: no step, of the program or of a failure, rewrites what was committed.
THEOREM HistoryStands == Spec => HistoryIsImmutable
  <1> DEFINE Kept == /\ ledger \subseteq ledger'
                     /\ outbox \subseteq outbox'
                     /\ \A t \in Committed :
                           \/ rows'[t] = rows[t]
                           \/ /\ rows[t].status = "completed"
                              /\ rows'[t] = [rows[t] EXCEPT !.status = "refunded"]
  <1>1. ASSUME WellFormed, [Next]_vars
        PROVE  Kept
    <2>1. CASE UNCHANGED dbVars
      BY <2>1 DEF dbVars
    <2>2. ASSUME NEW r \in Requests, CommitCharge(r)
          PROVE  Kept
      <3>1. rows[r] = None /\ \A t \in Requests \ {r} : rows'[t] = rows[t]
        BY <1>1, <2>2, CommitChargeEffect DEF WellFormed, CommitCharge
      <3>2. ledger \subseteq ledger' /\ outbox \subseteq outbox'
        BY <2>2 DEF CommitCharge
      <3> QED
        BY <3>1, <3>2 DEF Committed
    <2>3. ASSUME NEW r \in Requests, CommitRefund(r)
          PROVE  Kept
      <3>1. /\ rows'[arg[r].target] = [rows[arg[r].target] EXCEPT !.status = "refunded"]
            /\ \A t \in Requests \ {r, arg[r].target} : rows'[t] = rows[t]
        BY <1>1, <2>3, CommitRefundEffect
      <3>2. rows[r] = None
        BY <1>1, <2>3 DEF WellFormed, CommitRefund
      <3>3. ledger \subseteq ledger' /\ outbox \subseteq outbox'
        BY <2>3 DEF CommitRefund
      <3>4. ASSUME NEW t \in Committed, t = arg[r].target
            PROVE  \/ rows'[t] = rows[t]
                   \/ /\ rows[t].status = "completed"
                      /\ rows'[t] = [rows[t] EXCEPT !.status = "refunded"]
        <4>1. rows[t] \in Rows
          BY <1>1 DEF WellFormed, TypeOK, Committed
        <4>2. rows'[t] = [rows[t] EXCEPT !.status = "refunded"]
          BY <3>1, <3>4
        <4>3. CASE rows[t].status = "refunded"
          BY <4>1, <4>2, <4>3 DEF Rows
        <4> QED
          BY <4>1, <4>2, <4>3 DEF Rows
      <3> QED
        BY <3>1, <3>2, <3>3, <3>4 DEF Committed
    <2> QED
      BY <1>1, <2>1, <2>2, <2>3, TableKinds
  <1>2. WellFormed /\ [Next]_vars => WellFormed'
    BY WellFormedStep
  <1>3. WellFormed /\ [Next]_vars => [Kept]_vars
    BY <1>1
  <1> QED
    BY <1>2, <1>3, InitWellFormed, PTL DEF Spec, HistoryIsImmutable
=============================================================================
