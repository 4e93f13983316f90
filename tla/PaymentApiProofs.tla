-------------------------- MODULE PaymentApiProofs --------------------------
(***************************************************************************)
(* Proofs about PaymentApi, for any number of requests, keys and amounts.  *)
(*                                                                         *)
(* The inductive invariant Inv adds two facts to the properties.  A claim  *)
(* that is not committed yet excludes every other claim of its key and     *)
(* every row of it (ClaimsExclusive): ON CONFLICT is evaluated against the *)
(* unique index, not against a snapshot.  And a row in 'success' belongs   *)
(* to a request that has left phase 2, so that only its owner can have     *)
(* written the response.                                                   *)
(***************************************************************************)
EXTENDS PaymentApi, TLAPS

Started == PCs \ {"idle", "lost"}

Shape ==
    /\ TypeOK
    /\ \A r \in Requests :
          /\ pc[r] \in Started => arg[r] \in Bodies
          /\ pc[r] = "idle" => arg[r] = None
          /\ pc[r] # "done" => answer[r] = None

ClaimsExclusive ==
    \A r \in Requests : pc[r] = "claim_commit" =>
        /\ charges[arg[r].key] = None
        /\ \A q \in Requests :
              pc[q] = "claim_commit" /\ arg[q].key = arg[r].key => q = r

\* A key that is committed stays committed, so the SELECT of a loser finds it.
SelectFindsRow ==
    \A r \in Requests : pc[r] = "select" => charges[arg[r].key] # None

RespondsAfterCommit ==
    \A r \in Requests : pc[r] = "respond" =>
        /\ charges[arg[r].key] # None
        /\ charges[arg[r].key].status = "success"
        /\ charges[arg[r].key].response = r

\* Whoever was told an id was told the stored response of its key.
ToldStored ==
    \A r \in Told : /\ arg[r] \in Bodies
                    /\ charges[arg[r].key] # None
                    /\ charges[arg[r].key].status = "success"
                    /\ answer[r].id = charges[arg[r].key].response

\* The owner of a row sent its key.
OwnersKey ==
    \A k \in Keys : charges[k] # None =>
        arg[charges[k].owner] \in Bodies /\ arg[charges[k].owner].key = k

Inv == /\ Shape /\ ClaimsExclusive /\ SelectFindsRow /\ RespondsAfterCommit
       /\ ToldStored /\ OwnersKey /\ OnlyOwnerProcesses /\ ResponseIffSuccess

LEMMA InitInv == Init => Inv
  BY DEF Init, Inv, Shape, TypeOK, PCs, Started, ClaimsExclusive, SelectFindsRow,
         RespondsAfterCommit, ToldStored, Told, OwnersKey, OnlyOwnerProcesses,
         ResponseIffSuccess

\* Rounding to the column keeps the amount in the column's range.
LEMMA ClaimRowType ==
    ASSUME NEW r \in Requests, arg[r] \in Bodies
    PROVE  ClaimRow(r) \in Rows
  BY DEF ClaimRow, Rows, Bodies

\* What the two COMMITs write.
LEMMA CommitClaimEffect ==
    ASSUME Inv, NEW r \in Requests, CommitClaim(r)
    PROVE  /\ charges' \in [Keys -> Rows \cup {None}]
           /\ arg[r] \in Bodies /\ arg[r].key \in Keys /\ charges[arg[r].key] = None
           /\ charges'[arg[r].key] = ClaimRow(r) /\ charges'[arg[r].key] # None
           /\ \A k \in Keys : k # arg[r].key => charges'[k] = charges[k]
  <1>1. arg[r] \in Bodies /\ charges[arg[r].key] = None
    BY DEF Inv, Shape, CommitClaim, Started, PCs, ClaimsExclusive
  <1>2. arg[r].key \in Keys
    BY <1>1 DEF Bodies
  <1>3. ClaimRow(r) \in Rows /\ ClaimRow(r) # None
    BY <1>1, ClaimRowType, NoneAssumption
  <1> QED
    BY <1>1, <1>2, <1>3 DEF Inv, Shape, TypeOK, CommitClaim

LEMMA CommitFinishEffect ==
    ASSUME Inv, NEW r \in Requests, CommitFinish(r)
    PROVE  LET k == arg[r].key IN
           /\ charges' \in [Keys -> Rows \cup {None}]
           /\ k \in Keys /\ arg[r] \in Bodies
           /\ charges[k] # None /\ charges[k].owner = r /\ charges[k].status = "processing"
           /\ charges'[k] # None
           /\ charges'[k].owner = r
           /\ charges'[k].status = "success"
           /\ charges'[k].response = r
           /\ \A j \in Keys : j # k => charges'[j] = charges[j]
  <1> DEFINE k == arg[r].key
  <1>1. arg[r] \in Bodies /\ charges[k] # None /\ charges[k].owner = r /\ charges[k].status = "processing"
    BY DEF Inv, Shape, CommitFinish, Started, PCs, OnlyOwnerProcesses
  <1>2. k \in Keys
    BY <1>1 DEF Bodies
  <1>3. charges \in [Keys -> Rows \cup {None}] /\ charges[k] \in Rows
    BY <1>1, <1>2 DEF Inv, Shape, TypeOK
  <1> DEFINE row == [[charges[k] EXCEPT !.status = "success"] EXCEPT !.response = r]
  <1>4. charges' = [charges EXCEPT ![k] = row]
    BY <1>2, <1>3 DEF CommitFinish
  <1>5. row \in Rows /\ row.owner = r /\ row.status = "success" /\ row.response = r
    BY <1>1, <1>3 DEF Rows
  <1>6. row # None
    BY <1>5, NoneAssumption
  <1> HIDE DEF row
  <1> QED
    BY <1>1, <1>2, <1>3, <1>4, <1>5, <1>6

\* Every step keeps the invariant.
LEMMA InvStep ==
    ASSUME Inv, [Next]_vars
    PROVE  Inv'
  <1> USE NoneAssumption, ApiAssumption
      DEF Inv, Shape, TypeOK, PCs, Started, ClaimsExclusive, SelectFindsRow,
          RespondsAfterCommit, ToldStored, Told, OwnersKey, OnlyOwnerProcesses,
          ResponseIffSuccess
  <1>1. ASSUME NEW r \in Requests, NEW b \in Bodies, Arrive(r, b)
        PROVE  Inv'
    BY <1>1 DEF Arrive, Goto
  <1>2. ASSUME NEW r \in Requests, Claim(r)
        PROVE  Inv'
    BY <1>2 DEF Claim, Goto
  <1>3. ASSUME NEW r \in Requests, Select(r)
        PROVE  Inv'
    <2> DEFINE row == charges[arg[r].key]
    <2>1. /\ pc[r] = "select" /\ arg' = arg /\ charges' = charges
          /\ arg[r] \in Bodies /\ arg[r].key \in Keys /\ row \in Rows
      BY <1>3 DEF Select, Bodies
    <2>2. \E w \in Words, id \in Requests \cup {None} :
             /\ Reply(r, w, id)
             /\ w # "created"
             /\ w = "replayed" => row.status = "success" /\ id = row.response
      BY <1>3, <2>1 DEF Select, Words, Rows
    <2>3. PICK w \in Words, id \in Requests \cup {None} :
             /\ Reply(r, w, id)
             /\ w # "created"
             /\ w = "replayed" => row.status = "success" /\ id = row.response
      BY <2>2
    <2>4. /\ pc' = [pc EXCEPT ![r] = "done"]
          /\ answer' = [answer EXCEPT ![r] = [what |-> w, id |-> id]]
          /\ [what |-> w, id |-> id] \in Answers
      BY <2>3 DEF Reply, Answers
    <2> QED
      BY <2>1, <2>3, <2>4
  <1>4. ASSUME NEW r \in Requests, Processor(r)
        PROVE  Inv'
    BY <1>4 DEF Processor, Goto
  <1>5. ASSUME NEW r \in Requests, Respond(r)
        PROVE  Inv'
    BY <1>5 DEF Respond, Reply, Words, Answers
  <1>6. ASSUME NEW r \in Requests, Fails(r)
        PROVE  Inv'
    BY <1>6 DEF Fails, Reply, Words, Answers
  <1>7. ASSUME NEW r \in Requests, ClaimCommit(r) \/ (CommitClaim(r) /\ CommitUnacknowledged(r))
        PROVE  Inv'
    <2>1. CommitClaim(r)
      BY <1>7 DEF ClaimCommit
    <2>2. /\ pc[r] = "claim_commit" /\ arg' = arg
          /\ \/ pc' = [pc EXCEPT ![r] = "processor"] /\ answer' = answer
             \/ Reply(r, "error", None)
      BY <1>7 DEF ClaimCommit, CommitUnacknowledged, CommitClaim, Goto
    <2>3. /\ charges' \in [Keys -> Rows \cup {None}]
          /\ arg[r] \in Bodies /\ arg[r].key \in Keys /\ charges[arg[r].key] = None
          /\ charges'[arg[r].key] # None
          /\ charges'[arg[r].key].owner = r
          /\ charges'[arg[r].key].status = "processing"
          /\ charges'[arg[r].key].response = None
          /\ \A k \in Keys : k # arg[r].key => charges'[k] = charges[k]
      <3>1. /\ charges' \in [Keys -> Rows \cup {None}]
            /\ arg[r] \in Bodies /\ arg[r].key \in Keys /\ charges[arg[r].key] = None
            /\ charges'[arg[r].key] = ClaimRow(r) /\ charges'[arg[r].key] # None
            /\ \A k \in Keys : k # arg[r].key => charges'[k] = charges[k]
        BY <2>1, CommitClaimEffect
      <3>2. /\ ClaimRow(r).owner = r
            /\ ClaimRow(r).status = "processing"
            /\ ClaimRow(r).response = None
        BY DEF ClaimRow
      <3> QED
        BY <3>1, <3>2
    <2>4. /\ answer' \in [Requests -> Answers \cup {None}]
          /\ pc' \in [Requests -> PCs]
          /\ pc'[r] \in {"processor", "done"}
          /\ r \notin Told'
          /\ pc'[r] # "done" => answer'[r] = None
          /\ \A q \in Requests \ {r} : pc'[q] = pc[q] /\ answer'[q] = answer[q]
      BY <2>2 DEF Reply, Words, Answers
    <2>5. \A q \in Requests : arg[q] \in Bodies => arg[q].key \in Keys
      BY DEF Bodies
    <2>6. Shape' /\ OwnersKey' /\ ResponseIffSuccess'
      BY <2>2, <2>3, <2>4, <2>5
    <2>7. ClaimsExclusive' /\ SelectFindsRow' /\ RespondsAfterCommit'
      BY <2>2, <2>3, <2>4, <2>5
    <2>8. ToldStored' /\ OnlyOwnerProcesses'
      BY <2>2, <2>3, <2>4, <2>5
    <2> QED
      BY <2>6, <2>7, <2>8
  <1>8. ASSUME NEW r \in Requests, Finish(r) \/ (CommitFinish(r) /\ CommitUnacknowledged(r))
        PROVE  Inv'
    <2>1. CommitFinish(r)
      BY <1>8 DEF Finish
    <2>2. /\ pc[r] = "finish" /\ arg' = arg
          /\ \/ pc' = [pc EXCEPT ![r] = "respond"] /\ answer' = answer
             \/ Reply(r, "error", None)
      BY <1>8 DEF Finish, CommitUnacknowledged, CommitFinish, Goto
    <2>3. /\ charges' \in [Keys -> Rows \cup {None}]
          /\ arg[r].key \in Keys /\ arg[r] \in Bodies
          /\ charges[arg[r].key] # None /\ charges[arg[r].key].owner = r
          /\ charges[arg[r].key].status = "processing"
          /\ charges'[arg[r].key] # None
          /\ charges'[arg[r].key].owner = r
          /\ charges'[arg[r].key].status = "success"
          /\ charges'[arg[r].key].response = r
          /\ \A j \in Keys : j # arg[r].key => charges'[j] = charges[j]
      BY <2>1, CommitFinishEffect
    <2>4. /\ answer' \in [Requests -> Answers \cup {None}]
          /\ pc' \in [Requests -> PCs]
          /\ pc'[r] \in {"respond", "done"}
          /\ r \notin Told'
          /\ pc'[r] # "done" => answer'[r] = None
          /\ \A q \in Requests \ {r} : pc'[q] = pc[q] /\ answer'[q] = answer[q]
      BY <2>2 DEF Reply, Words, Answers
    <2>5. \A q \in Requests : arg[q] \in Bodies => arg[q].key \in Keys
      BY DEF Bodies
    <2>6. Shape' /\ OwnersKey' /\ ResponseIffSuccess'
      BY <2>2, <2>3, <2>4, <2>5
    <2>7. ClaimsExclusive' /\ SelectFindsRow' /\ RespondsAfterCommit'
      BY <2>2, <2>3, <2>4, <2>5
    <2>8. ToldStored' /\ OnlyOwnerProcesses'
      BY <2>2, <2>3, <2>4, <2>5
    <2> QED
      BY <2>6, <2>7, <2>8
  <1>9. CASE Crash
    BY <1>9 DEF Crash
  <1>10. CASE UNCHANGED vars
    BY <1>10 DEF vars
  <1> QED
    BY <1>1, <1>2, <1>3, <1>4, <1>5, <1>6, <1>7, <1>8, <1>9, <1>10
    DEF Next, Handle, CommitUnacknowledged

\* Type correctness, for any number of requests, customers and keys.
THEOREM ApiTypeCorrect == Spec => []TypeOK
  <1>1. Inv => TypeOK
    BY DEF Inv, Shape
  <1> QED
    BY InitInv, InvStep, <1>1, PTL DEF Spec

\* However many requests race on a key, only the one whose INSERT won it reaches
\* the payment processor.
THEOREM OneProcessor == Spec => []OnlyOwnerProcesses
  <1>1. Inv => OnlyOwnerProcesses
    BY DEF Inv
  <1> QED
    BY InitInv, InvStep, <1>1, PTL DEF Spec

-----------------------------------------------------------------------------
\* A step that tells nobody anything new keeps the pairs that were told.
LEMMA ToldKept ==
    ASSUME Inv, UNCHANGED answer, \A r \in Requests : answer[r] # None => arg'[r] = arg[r]
    PROVE  UNCHANGED ToldPairs
  BY DEF ToldPairs, Told

\* Telling request r, which had no answer, adds at most its own pair.
LEMMA ToldOne ==
    ASSUME Inv, UNCHANGED arg, NEW r \in Requests, pc[r] # "done",
           NEW w \in Words, NEW id \in Requests \cup {None}, Reply(r, w, id)
    PROVE  ToldPairs' = IF w \in {"created", "replayed"}
                          THEN ToldPairs \cup {<<arg[r].key, id>>} ELSE ToldPairs
  <1>1. /\ answer[r] = None
        /\ answer'[r] = [what |-> w, id |-> id] /\ answer'[r] # None
        /\ \A q \in Requests \ {r} : answer'[q] = answer[q]
    BY NoneAssumption DEF Inv, Shape, TypeOK, Reply, Answers
  <1>2. Told' = IF w \in {"created", "replayed"} THEN Told \cup {r} ELSE Told
    BY <1>1 DEF Told
  <1>3. r \notin Told /\ \A q \in Told : answer'[q] = answer[q]
    BY <1>1 DEF Told
  <1> QED
    BY <1>1, <1>2, <1>3 DEF ToldPairs

\* Telling the stored response of a key is an Answer of the contract.
LEMMA ServedAnswers ==
    ASSUME Inv, UNCHANGED <<arg, charges>>, NEW r \in Requests, pc[r] # "done",
           NEW w \in {"created", "replayed"}, NEW id \in Requests \cup {None}, Reply(r, w, id),
           arg[r] \in Bodies, charges[arg[r].key] # None,
           charges[arg[r].key].status = "success", charges[arg[r].key].response = id
    PROVE  Contract!Next
  <1>1. arg[r].key \in Keys /\ charges[arg[r].key] \in Rows
    BY DEF Bodies, Inv, Shape, TypeOK
  <1>2. ToldPairs' = ToldPairs \cup {<<arg[r].key, id>>}
    BY ToldOne DEF Words
  <1>3. EffectMap[arg[r].key] = id
    BY <1>1 DEF EffectMap
  <1>4. id # None
    BY <1>1, ApiAssumption DEF Inv, ResponseIffSuccess, Rows
  <1>5. UNCHANGED EffectMap
    BY DEF EffectMap
  <1>6. Contract!Answer(arg[r].key)
    BY <1>2, <1>3, <1>4, <1>5 DEF Contract!Answer
  <1> QED
    BY <1>1, <1>6 DEF Contract!Next

\* Committing the response executes the key.
LEMMA FinishExecutes ==
    ASSUME Inv, NEW r \in Requests, CommitFinish(r), UNCHANGED ToldPairs
    PROVE  Contract!Next
  <1> DEFINE k == arg[r].key
  <1>1. /\ k \in Keys /\ arg[r] \in Bodies
        /\ charges[k] # None /\ charges[k].owner = r /\ charges[k].status = "processing"
        /\ charges'[k] # None /\ charges'[k].status = "success" /\ charges'[k].response = r
        /\ \A j \in Keys : j # k => charges'[j] = charges[j]
    BY CommitFinishEffect
  <1>2. EffectMap[k] = None /\ EffectMap'[k] = r
    BY <1>1 DEF EffectMap
  <1>3. \A j \in Keys : j # k => EffectMap'[j] = EffectMap[j]
    BY <1>1 DEF EffectMap
  <1>4. EffectMap' = [EffectMap EXCEPT ![k] = r]
    BY <1>1, <1>2, <1>3 DEF EffectMap
  <1>5. \A j \in Keys : EffectMap[j] # r
    BY <1>1, ApiAssumption DEF EffectMap, Inv, ResponseIffSuccess, OwnersKey
  <1>6. Contract!Execute(k, r)
    BY <1>2, <1>4, <1>5 DEF Contract!Execute
  <1> QED
    BY <1>1, <1>6 DEF Contract!Next

LEMMA ContractInit == Init => Contract!Init
  BY DEF Init, Contract!Init, EffectMap, ToldPairs, Told

\* Every step of the API is a step of the contract or invisible to it.
LEMMA ContractStep ==
    ASSUME Inv, [Next]_vars
    PROVE  [Contract!Next]_<<EffectMap, ToldPairs>>
  <1>1. ASSUME NEW r \in Requests, NEW b \in Bodies, Arrive(r, b)
        PROVE  UNCHANGED <<EffectMap, ToldPairs>>
    <2>1. answer[r] = None /\ UNCHANGED <<answer, charges>>
      BY <1>1 DEF Arrive, Inv, Shape
    <2>2. \A q \in Requests : answer[q] # None => arg'[q] = arg[q]
      BY <1>1, <2>1 DEF Arrive, Inv, Shape, TypeOK
    <2> QED
      BY <2>1, <2>2, ToldKept DEF EffectMap
  <1>2. ASSUME NEW r \in Requests, Claim(r) \/ Processor(r)
        PROVE  UNCHANGED <<EffectMap, ToldPairs>>
    BY <1>2 DEF Claim, Processor, EffectMap, ToldPairs, Told
  <1>3. ASSUME NEW r \in Requests, pc[r] # "done", UNCHANGED <<arg, charges>>,
               NEW w \in Words \ {"created", "replayed"}, Reply(r, w, None)
        PROVE  UNCHANGED <<EffectMap, ToldPairs>>
    BY <1>3, ToldOne DEF EffectMap
  <1>4. ASSUME NEW r \in Requests, Select(r)
        PROVE  [Contract!Next]_<<EffectMap, ToldPairs>>
    <2>1. /\ pc[r] = "select" /\ UNCHANGED <<arg, charges>>
          /\ arg[r] \in Bodies /\ arg[r].key \in Keys
          /\ charges[arg[r].key] # None /\ charges[arg[r].key] \in Rows
      BY <1>4 DEF Select, Inv, Shape, TypeOK, Started, PCs, SelectFindsRow, Bodies
    <2>2. CASE \E w \in Words \ {"created", "replayed"} : Reply(r, w, None)
      BY <1>3, <2>1, <2>2
    <2>3. CASE /\ charges[arg[r].key].status = "success"
               /\ Reply(r, "replayed", charges[arg[r].key].response)
      <3>1. charges[arg[r].key].response \in Requests \cup {None}
        BY <2>1 DEF Rows
      <3> QED
        BY <2>1, <2>3, <3>1, ServedAnswers
    <2> QED
      BY <1>4, <2>1, <2>2, <2>3 DEF Select, Rows, Words
  <1>5. ASSUME NEW r \in Requests, Respond(r)
        PROVE  Contract!Next
    <2>1. /\ pc[r] = "respond" /\ Reply(r, "created", r) /\ UNCHANGED <<arg, charges>>
          /\ arg[r] \in Bodies /\ charges[arg[r].key] # None
          /\ charges[arg[r].key].status = "success" /\ charges[arg[r].key].response = r
      BY <1>5 DEF Respond, Inv, Shape, Started, PCs, RespondsAfterCommit
    <2> QED
      BY <2>1, ServedAnswers
  <1>6. ASSUME NEW r \in Requests, Fails(r)
        PROVE  UNCHANGED <<EffectMap, ToldPairs>>
    BY <1>3, <1>6 DEF Fails, PCs, Words
  <1>7. ASSUME NEW r \in Requests, CommitClaim(r),
               ClaimCommit(r) \/ CommitUnacknowledged(r)
        PROVE  UNCHANGED <<EffectMap, ToldPairs>>
    <2>1. UNCHANGED ToldPairs
      <3>1. CASE ClaimCommit(r)
        BY <3>1 DEF ClaimCommit, ToldPairs, Told
      <3>2. CASE CommitUnacknowledged(r)
        BY <1>7, <3>2, ToldOne DEF CommitUnacknowledged, CommitClaim, Words
      <3> QED
        BY <1>7, <3>1, <3>2
    <2>2. /\ arg[r].key \in Keys /\ charges[arg[r].key] = None
          /\ charges'[arg[r].key] = ClaimRow(r)
          /\ \A j \in Keys : j # arg[r].key => charges'[j] = charges[j]
      BY <1>7, CommitClaimEffect
    <2>3. ClaimRow(r).status = "processing"
      BY DEF ClaimRow
    <2>4. \A j \in Keys : EffectMap'[j] = EffectMap[j]
      BY <2>2, <2>3 DEF EffectMap
    <2> QED
      BY <2>1, <2>4 DEF EffectMap
  <1>8. ASSUME NEW r \in Requests, CommitFinish(r),
               Finish(r) \/ CommitUnacknowledged(r)
        PROVE  Contract!Next
    <2>1. CASE Finish(r)
      BY <1>8, <2>1, FinishExecutes DEF Finish, ToldPairs, Told
    <2>2. CASE CommitUnacknowledged(r)
      <3>1. UNCHANGED ToldPairs
        BY <1>8, <2>2, ToldOne DEF CommitUnacknowledged, CommitFinish, Words
      <3> QED
        BY <1>8, <3>1, FinishExecutes
    <2> QED
      BY <1>8, <2>1, <2>2
  <1>9. CASE Crash \/ UNCHANGED vars
    BY <1>9 DEF Crash, vars, EffectMap, ToldPairs, Told
  <1> QED
    BY <1>1, <1>2, <1>4, <1>5, <1>6, <1>7, <1>8, <1>9
    DEF Next, Handle, ClaimCommit, Finish, CommitUnacknowledged

\* The two-phase row implements the once-per-key contract: for any number of
\* concurrent attempts, whatever fails, a key is charged at most once and every
\* 201 and 200 for it carries the one stored response.
THEOREM ApiRefinement == Spec => ImplementsOncePerKey
  <1>1. Init => Inv /\ Contract!Init
    BY InitInv, ContractInit
  <1> QED
    BY <1>1, InvStep, ContractStep, PTL
    DEF Spec, ImplementsOncePerKey, Contract!Spec, Contract!vars

-----------------------------------------------------------------------------
(***************************************************************************)
(* What clients are served.  A row keeps the parameters of the request     *)
(* that claimed it (RowCopies), and whoever was served a response has      *)
(* parameters that the column cannot tell from those (ToldOwn).            *)
(***************************************************************************)
WholeAmounts == \A a \in Amounts : Stored(a) = a

Copies(row, b) == row.amount = Stored(b.amount) /\ row.customer = b.customer

RowCopies == \A k \in Keys : charges[k] # None => Copies(charges[k], arg[charges[k].owner])
ToldOwn == \A r \in Told : Copies(charges[arg[r].key], arg[r])

\* Rounding twice is rounding once.
LEMMA StoredTwice ==
    ASSUME NEW a \in Nat
    PROVE  Stored(Stored(a)) = Stored(a)
  BY DEF Stored

\* A request that has arrived keeps its body.
LEMMA ArgsStand ==
    ASSUME Inv, [Next]_vars, NEW r \in Requests, arg[r] # None
    PROVE  arg'[r] = arg[r]
  <1>1. ASSUME NEW q \in Requests, NEW b \in Bodies, Arrive(q, b)
        PROVE  arg'[r] = arg[r]
    BY <1>1 DEF Arrive, Inv, Shape, TypeOK
  <1> QED
    BY <1>1
    DEF Next, Handle, Claim, ClaimCommit, Select, Processor, Finish, Respond, Fails,
        CommitUnacknowledged, Crash, vars

\* A row that is there keeps its owner and its parameters; a new one has those of
\* the request that claimed it.
LEMMA RowsStand ==
    ASSUME Inv, [Next]_vars, NEW k \in Keys
    PROVE  /\ charges[k] # None =>
                 /\ charges'[k] # None
                 /\ charges'[k].owner = charges[k].owner
                 /\ charges'[k].amount = charges[k].amount
                 /\ charges'[k].customer = charges[k].customer
           /\ charges[k] = None /\ charges'[k] # None =>
                 \E r \in Requests : arg[r] \in Bodies /\ charges'[k] = ClaimRow(r)
  <1>1. ASSUME NEW r \in Requests, CommitClaim(r)
        PROVE  /\ charges[k] # None => charges'[k] = charges[k]
               /\ charges[k] = None /\ charges'[k] # None =>
                     arg[r] \in Bodies /\ charges'[k] = ClaimRow(r)
    BY <1>1, CommitClaimEffect
  <1>2. ASSUME NEW r \in Requests, CommitFinish(r)
        PROVE  /\ charges[k] = None => charges'[k] = None
               /\ charges[k] # None =>
                     /\ charges'[k] # None
                     /\ charges'[k].owner = charges[k].owner
                     /\ charges'[k].amount = charges[k].amount
                     /\ charges'[k].customer = charges[k].customer
    <2>1. CASE k # arg[r].key
      <3>1. charges'[k] = charges[k]
        BY <1>2, <2>1, CommitFinishEffect
      <3> QED
        BY <3>1
    <2>2. CASE k = arg[r].key
      <3>1. charges[k] # None /\ charges'[k] # None
        BY <1>2, <2>2, CommitFinishEffect
      <3>2. charges[k] \in Rows /\ charges \in [Keys -> Rows \cup {None}]
        BY <3>1 DEF Inv, Shape, TypeOK
      <3>3. charges'[k] = [[charges[k] EXCEPT !.status = "success"] EXCEPT !.response = r]
        BY <1>2, <2>2, <3>2 DEF CommitFinish
      <3> QED
        BY <3>1, <3>2, <3>3 DEF Rows
    <2> QED
      BY <2>1, <2>2
  <1>3. CASE UNCHANGED charges
    BY <1>3
  <1> QED
    BY <1>1, <1>2, <1>3
    DEF Next, Arrive, Handle, Claim, ClaimCommit, Select, Processor, Finish, Respond, Fails,
        CommitUnacknowledged, Crash, vars

\* Who is answered by a step, and how.
LEMMA AnswerKinds ==
    ASSUME Inv, [Next]_vars, NEW r \in Requests
    PROVE  \/ answer'[r] = answer[r]
           \/ /\ UNCHANGED <<arg, charges>> /\ Select(r)
           \/ /\ UNCHANGED <<arg, charges>> /\ pc[r] = "respond"
              /\ answer'[r] = [what |-> "created", id |-> r]
           \/ answer'[r] = [what |-> "error", id |-> None]
  <1>0. answer \in [Requests -> Answers \cup {None}]
    BY DEF Inv, Shape, TypeOK
  <1>1. ASSUME NEW q \in Requests, Select(q)
        PROVE  answer'[r] = answer[r] \/ (UNCHANGED <<arg, charges>> /\ Select(r))
    BY <1>0, <1>1 DEF Select, Reply
  <1>2. ASSUME NEW q \in Requests, Respond(q)
        PROVE  \/ answer'[r] = answer[r]
               \/ /\ UNCHANGED <<arg, charges>> /\ pc[r] = "respond"
                  /\ answer'[r] = [what |-> "created", id |-> r]
    BY <1>0, <1>2 DEF Respond, Reply
  <1>3. ASSUME NEW q \in Requests, Fails(q) \/ CommitUnacknowledged(q)
        PROVE  answer'[r] = answer[r] \/ answer'[r] = [what |-> "error", id |-> None]
    BY <1>0, <1>3 DEF Fails, CommitUnacknowledged, Reply
  <1>4. CASE UNCHANGED answer
    BY <1>4
  <1> QED
    BY <1>1, <1>2, <1>3, <1>4
    DEF Next, Arrive, Handle, Claim, ClaimCommit, Processor, Finish, Crash, vars

\* What the SELECT of a loser can answer.
LEMMA SelectAnswers ==
    ASSUME Inv, NEW r \in Requests, Select(r)
    PROVE  LET row == charges[arg[r].key] IN
           /\ arg[r] \in Bodies /\ row # None /\ row \in Rows
           /\ answer'[r] # None
           /\ answer'[r].what = "mismatch" => ~SameParameters(row, arg[r])
           /\ answer'[r].what \in {"created", "replayed"} => SameParameters(row, arg[r])
  <1>1. arg[r] \in Bodies /\ charges[arg[r].key] # None /\ charges[arg[r].key] \in Rows
    BY DEF Select, Inv, Shape, TypeOK, Started, PCs, SelectFindsRow, Bodies
  <1>2. answer \in [Requests -> Answers \cup {None}]
    BY DEF Inv, Shape, TypeOK
  <1>3. /\ answer'[r].what = "mismatch" => ~SameParameters(charges[arg[r].key], arg[r])
        /\ answer'[r].what \in {"created", "replayed"} =>
               SameParameters(charges[arg[r].key], arg[r])
    BY <1>1, <1>2 DEF Select, Reply
  <1>4. answer'[r] # None
    <2>1. PICK w \in Words, id \in Requests \cup {None} : Reply(r, w, id)
      BY <1>1 DEF Select, Words, Rows
    <2>2. [what |-> w, id |-> id] \in Answers
      BY DEF Answers
    <2> QED
      BY <1>2, <2>1, <2>2, NoneAssumption DEF Reply
  <1> QED
    BY <1>1, <1>3, <1>4

\* Rows copy their owners' parameters.
LEMMA RowCopiesStep ==
    ASSUME Inv, RowCopies, [Next]_vars
    PROVE  RowCopies'
  <1>1. ASSUME NEW k \in Keys, charges'[k] # None
        PROVE  Copies(charges'[k], arg'[charges'[k].owner])
    <2>1. CASE charges[k] # None
      <3>1. charges[k].owner \in Requests /\ arg[charges[k].owner] # None
        BY <2>1, NoneAssumption DEF Inv, Shape, TypeOK, Rows, OwnersKey
      <3>2. arg'[charges[k].owner] = arg[charges[k].owner]
        BY <3>1, ArgsStand
      <3> QED
        BY <2>1, <3>2, RowsStand DEF RowCopies, Copies
    <2>2. CASE charges[k] = None
      <3>1. PICK r \in Requests : arg[r] \in Bodies /\ charges'[k] = ClaimRow(r)
        BY <1>1, <2>2, RowsStand
      <3>2. arg'[r] = arg[r]
        BY <3>1, ArgsStand, NoneAssumption
      <3> QED
        BY <3>1, <3>2 DEF ClaimRow, Copies
    <2> QED
      BY <2>1, <2>2
  <1> QED
    BY <1>1 DEF RowCopies

\* Whoever is served has the parameters of the row, as the column holds them.
LEMMA ToldOwnStep ==
    ASSUME Inv, Inv', RowCopies, ToldOwn, [Next]_vars
    PROVE  ToldOwn'
  <1>1. ASSUME NEW r \in Requests, answer'[r] # None,
               answer'[r].what \in {"created", "replayed"}
        PROVE  Copies(charges'[arg'[r].key], arg'[r])
    <2>1. CASE answer'[r] = answer[r]
      <3>1. r \in Told /\ arg[r] \in Bodies /\ charges[arg[r].key] # None
        BY <1>1, <2>1 DEF Told, Inv, ToldStored
      <3>2. arg'[r] = arg[r] /\ arg[r].key \in Keys
        BY <3>1, ArgsStand, NoneAssumption DEF Bodies
      <3> QED
        BY <3>1, <3>2, RowsStand DEF ToldOwn, Copies
    <2>2. CASE UNCHANGED <<arg, charges>> /\ Select(r)
      <3> DEFINE row == charges[arg[r].key]
      <3>1. /\ arg[r] \in Bodies /\ row # None /\ row \in Rows
            /\ SameParameters(row, arg[r])
        BY <1>1, <2>2, SelectAnswers
      <3>2. row.owner \in Requests /\ arg[row.owner] \in Bodies
        BY <3>1 DEF Rows, Bodies, Inv, OwnersKey
      <3>3. row.amount = Stored(arg[row.owner].amount)
        BY <3>1 DEF Bodies, RowCopies, Copies
      <3>4. arg[row.owner].amount \in Nat
        BY <3>2, ApiAssumption DEF Bodies
      <3>5. Stored(row.amount) = row.amount
        BY <3>3, <3>4, StoredTwice
      <3> QED
        BY <2>2, <3>1, <3>5 DEF SameParameters, Copies
    <2>3. CASE /\ UNCHANGED <<arg, charges>> /\ pc[r] = "respond"
               /\ answer'[r] = [what |-> "created", id |-> r]
      <3>1. /\ arg[r] \in Bodies /\ charges[arg[r].key] # None
            /\ charges[arg[r].key].status = "success" /\ charges[arg[r].key].response = r
        BY <2>3 DEF Inv, Shape, Started, PCs, RespondsAfterCommit
      <3>2. arg[r].key \in Keys /\ charges[arg[r].key].owner = r
        BY <3>1 DEF Bodies, Inv, ResponseIffSuccess
      <3> QED
        BY <2>3, <3>1, <3>2 DEF RowCopies
    <2>4. CASE answer'[r] = [what |-> "error", id |-> None]
      BY <1>1, <2>4
    <2> QED
      BY <2>1, <2>2, <2>3, <2>4, AnswerKinds
  <1> QED
    BY <1>1 DEF ToldOwn, Told

\* A 422 names a row whose owner sent something else, if the column rounds nothing.
LEMMA MismatchStep ==
    ASSUME WholeAmounts, Inv, RowCopies, MismatchIsClientBug, [Next]_vars
    PROVE  MismatchIsClientBug'
  <1>1. ASSUME NEW r \in Requests, answer'[r] # None, answer'[r].what = "mismatch"
        PROVE  \E q \in Requests : arg'[q] # None /\ arg'[q].key = arg'[r].key /\ arg'[q] # arg'[r]
    <2>1. CASE answer'[r] = answer[r]
      <3>1. PICK q \in Requests : arg[q] # None /\ arg[q].key = arg[r].key /\ arg[q] # arg[r]
        BY <1>1, <2>1 DEF MismatchIsClientBug
      <3>2. arg[r] # None
        BY <1>1, <2>1, NoneAssumption DEF Inv, Shape, Started, PCs, TypeOK
      <3>3. arg'[q] = arg[q] /\ arg'[r] = arg[r]
        BY <3>1, <3>2, ArgsStand
      <3> QED
        BY <3>1, <3>3
    <2>2. CASE UNCHANGED <<arg, charges>> /\ Select(r)
      <3> DEFINE row == charges[arg[r].key]
      <3>1. /\ arg[r] \in Bodies /\ row # None /\ row \in Rows
            /\ ~SameParameters(row, arg[r])
        BY <1>1, <2>2, SelectAnswers
      <3>2. /\ row.owner \in Requests /\ arg[row.owner] \in Bodies
            /\ arg[row.owner].key = arg[r].key
        BY <3>1 DEF Rows, Bodies, Inv, OwnersKey
      <3>3. Copies(row, arg[row.owner])
        BY <3>1 DEF Bodies, RowCopies
      <3>4. Stored(arg[row.owner].amount) = arg[row.owner].amount
        BY <3>2 DEF WholeAmounts, Bodies
      <3>5. arg[row.owner] # arg[r]
        BY <3>1, <3>3, <3>4 DEF SameParameters, Copies
      <3> QED
        BY <2>2, <3>2, <3>5, NoneAssumption
    <2>3. CASE answer'[r] = [what |-> "created", id |-> r]
      BY <1>1, <2>3
    <2>4. CASE answer'[r] = [what |-> "error", id |-> None]
      BY <1>1, <2>4
    <2> QED
      BY <2>1, <2>2, <2>3, <2>4, AnswerKinds
  <1> QED
    BY <1>1 DEF MismatchIsClientBug

\* Two served requests of one key differ in nothing the column can tell apart.
LEMMA ServedOwn ==
    ASSUME Inv, RowCopies, ToldOwn
    PROVE  ServedOwnParameters
  <1>1. ASSUME NEW r \in Told
        PROVE  /\ answer[r].id # None
               /\ [arg[r] EXCEPT !.amount = Stored(@)]
                    = [arg[answer[r].id] EXCEPT !.amount = Stored(@)]
    <2> DEFINE row == charges[arg[r].key]
    <2>1. /\ r \in Requests /\ arg[r] \in Bodies /\ arg[r].key \in Keys /\ row # None
          /\ row.status = "success" /\ answer[r].id = row.response
      BY DEF Told, Inv, ToldStored, Bodies
    <2>2. row.response = row.owner /\ row.owner \in Requests
      BY <2>1 DEF Inv, ResponseIffSuccess, Shape, TypeOK, Rows
    <2>3. arg[row.owner] \in Bodies /\ arg[row.owner].key = arg[r].key
      BY <2>1 DEF Inv, OwnersKey
    <2>4. Copies(row, arg[r]) /\ Copies(row, arg[row.owner])
      BY <2>1 DEF ToldOwn, RowCopies
    <2>5. [arg[r] EXCEPT !.amount = Stored(@)] = [arg[row.owner] EXCEPT !.amount = Stored(@)]
      BY <2>1, <2>3, <2>4 DEF Copies, Bodies
    <2> QED
      BY <2>1, <2>2, <2>5, ApiAssumption
  <1> QED
    BY <1>1 DEF ServedOwnParameters, Told

LEMMA InitServed == Init => RowCopies /\ ToldOwn /\ MismatchIsClientBug
  BY DEF Init, RowCopies, ToldOwn, Told, MismatchIsClientBug

\* Whatever races, fails or is retried: a response is stored exactly for a success and is
\* its owner's, nobody is served a charge with other parameters than its own, and, for
\* amounts that the INTEGER column holds exactly, every 422 answers a key that was sent
\* with two different bodies.
THEOREM AnswersAreTrue == WholeAmounts /\ Spec => []AnswersMatchRows
  <1> DEFINE Served == Inv /\ RowCopies /\ ToldOwn /\ MismatchIsClientBug
  <1>1. Init => Served
    BY InitInv, InitServed
  <1>2. WholeAmounts /\ Served /\ [Next]_vars => Served'
    BY InvStep, RowCopiesStep, ToldOwnStep, MismatchStep
  <1>3. Served => AnswersMatchRows
    BY ServedOwn DEF AnswersMatchRows, Inv
  <1>4. WholeAmounts => []WholeAmounts
    <2>1. WholeAmounts => WholeAmounts'
      BY DEF WholeAmounts
    <2> QED
      BY <2>1, PTL
  <1> QED
    BY <1>1, <1>2, <1>3, <1>4, PTL DEF Spec
=============================================================================
