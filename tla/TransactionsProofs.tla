------------------------- MODULE TransactionsProofs -------------------------
(***************************************************************************)
(* Proofs about TwoPhaseCommit, Saga and their composition, for any number *)
(* of runs, sagas and steps, any stock and any faults.                     *)
(*                                                                         *)
(* Atomic is not inductive: nothing in it says why a COMMIT loop never     *)
(* meets a transaction that was rolled back.  Progress adds what each      *)
(* place of the coordinator's code knows about the participants: before    *)
(* the decision nothing is committed and every YES vote is a prepared      *)
(* transaction; inside the COMMIT loop everything is prepared or           *)
(* committed; outside it nothing is committed until run has returned.      *)
(***************************************************************************)
EXTENDS MCTransactions, Counting

Voting == {"idle", "operate", "prepare", "decide"}

\* What the coordinator's place in its code says about one run.
Progress(t) ==
    /\ pc[t] \in {"operate", "prepare"} => at[t] = votes[t] + 1 /\ at[t] <= 2
    /\ pc[t] = "prepare" => part[t][at[t]] = "open"
    /\ pc[t] \in Voting \cup {"abort", "crash"} =>
           \A p \in Participants : part[t][p] # "committed"
    /\ pc[t] \in Voting => \A p \in Participants : p <= votes[t] => part[t][p] = "prepared"
    /\ pc[t] = "commit" =>
           /\ votes[t] = 2
           /\ \A p \in Participants : IF p < at[t] THEN part[t][p] = "committed"
                                                   ELSE part[t][p] = "prepared"
    /\ pc[t] = "idle" => votes[t] = 0 /\ at[t] = 1
    /\ pc[t] # "done" => verdict[t] = None

AtomicAt(t) ==
    \A p, q \in Participants : part[t][p] = "committed" => part[t][q] # "rolledback"

VerdictAt(t) ==
    /\ verdict[t] = "COMMITTED" => \A p \in Participants : part[t][p] = "committed"
    /\ verdict[t] = "ABORTED" => \A p \in Participants : part[t][p] # "committed"

RunInv(t) == Progress(t) /\ AtomicAt(t) /\ VerdictAt(t)

Inv == TypeOK /\ \A t \in Txns : RunInv(t)

LEMMA InitInv == Init => Inv
  BY TwoPhaseAssumption DEF Init, Inv, TypeOK, RunInv, Progress, AtomicAt, VerdictAt, Voting, Participants,
     Inventory, Orders, PCs, PartStates

\* A step of run t leaves the state of every other run alone.
LEMMA StepIsLocal ==
  ASSUME Inv, NEW t \in Txns,
         (\E o \in OrderIds : Begin(t, o)) \/ Run(t) \/ VoteLost(t) \/ CommitRaises(t)
            \/ AbortSwallowed(t) \/ Die(t),
         NEW u \in Txns, u # t
  PROVE  pc'[u] = pc[u] /\ votes'[u] = votes[u] /\ at'[u] = at[u]
           /\ part'[u] = part[u] /\ verdict'[u] = verdict[u]
  BY DEF Inv, TypeOK, Begin, Run, Operate, VoteNo, Prepare, Decide, Commit, Abort, Return,
     VoteLost, CommitRaises, AbortSwallowed, Die, Goto, Becomes

\* Assigning one participant's state changes that state only.
LEMMA BecomesOne ==
  ASSUME TypeOK, NEW t \in Txns, NEW p \in Participants, NEW s \in PartStates, Becomes(t, p, s)
  PROVE  /\ part' \in [Txns -> [Participants -> PartStates]]
         /\ part'[t][p] = s
         /\ \A q \in Participants : q # p => part'[t][q] = part[t][q]
  BY DEF TypeOK, Becomes

LEMMA BecomesOther ==
  ASSUME TypeOK, NEW t \in Txns, UNCHANGED part
  PROVE  part' \in [Txns -> [Participants -> PartStates]]
  BY DEF TypeOK

LEMMA TwoParticipants ==
  Participants = {1, 2} /\ PartStates = {"none", "open", "prepared", "committed", "rolledback"}
  BY DEF Participants, Inventory, Orders, PartStates

LEMMA BeginInv ==
  ASSUME Inv, NEW t \in Txns, NEW o \in OrderIds, Begin(t, o)
  PROVE  TypeOK' /\ RunInv(t)'
  BY TwoParticipants DEF Inv, TypeOK, Begin, Goto, PCs, RunInv, Progress, AtomicAt, VerdictAt, Voting

LEMMA OperateInv ==
  ASSUME Inv, NEW t \in Txns, Operate(t)
  PROVE  TypeOK' /\ RunInv(t)'
  <1>1. at[t] \in Participants /\ pc[t] = "operate" /\ RunInv(t) /\ TypeOK
    BY TwoParticipants DEF Inv, Operate, RunInv, Progress, TypeOK
  <1>2. /\ part' \in [Txns -> [Participants -> PartStates]]
        /\ part'[t][at[t]] = "open"
        /\ \A q \in Participants : q # at[t] => part'[t][q] = part[t][q]
    BY <1>1, BecomesOne, TwoParticipants DEF Operate
  <1>3. /\ pc' = [pc EXCEPT ![t] = "prepare"] /\ votes' = votes /\ at' = at
        /\ order' = order /\ verdict' = verdict /\ faults' = faults
    BY DEF Operate, Goto
  <1>4. TypeOK'
    BY <1>1, <1>2, <1>3 DEF TypeOK, PCs
  <1>5. Progress(t)'
    BY <1>1, <1>2, <1>3, TwoParticipants DEF TypeOK, RunInv, Progress, Voting
  <1>6. AtomicAt(t)' /\ VerdictAt(t)'
    BY <1>1, <1>2, <1>3, TwoParticipants DEF TypeOK, RunInv, Progress, AtomicAt, VerdictAt, Voting
  <1> QED BY <1>4, <1>5, <1>6 DEF RunInv

LEMMA PrepareInv ==
  ASSUME Inv, NEW t \in Txns, Prepare(t)
  PROVE  TypeOK' /\ RunInv(t)'
  <1>1. at[t] \in Participants /\ pc[t] = "prepare" /\ RunInv(t) /\ TypeOK
    BY TwoParticipants DEF Inv, Prepare, RunInv, Progress, TypeOK
  <1>2. /\ part' \in [Txns -> [Participants -> PartStates]]
        /\ part'[t][at[t]] = "prepared"
        /\ \A q \in Participants : q # at[t] => part'[t][q] = part[t][q]
    BY <1>1, BecomesOne, TwoParticipants DEF Prepare
  <1>3. /\ pc' = [pc EXCEPT ![t] = IF at[t] = 2 THEN "decide" ELSE "operate"]
        /\ votes' = [votes EXCEPT ![t] = @ + 1] /\ at' = [at EXCEPT ![t] = @ + 1]
        /\ order' = order /\ verdict' = verdict /\ faults' = faults
    BY DEF Prepare, Goto, Orders
  <1>4. TypeOK'
    BY <1>1, <1>2, <1>3, TwoParticipants DEF TypeOK, PCs, RunInv, Progress
  <1>5. Progress(t)'
    BY <1>1, <1>2, <1>3, TwoParticipants DEF TypeOK, RunInv, Progress, Voting
  <1>6. AtomicAt(t)' /\ VerdictAt(t)'
    BY <1>1, <1>2, <1>3, TwoParticipants DEF TypeOK, RunInv, Progress, AtomicAt, VerdictAt, Voting
  <1> QED BY <1>4, <1>5, <1>6 DEF RunInv

\* Steps that leave the participants alone: a NO vote, the decision, the return.
LEMMA QuietInv ==
  ASSUME Inv, NEW t \in Txns, VoteNo(t) \/ Decide(t) \/ Return(t)
  PROVE  TypeOK' /\ RunInv(t)'
  <1>1. CASE VoteNo(t)
    BY <1>1, TwoParticipants DEF Inv, TypeOK, VoteNo, Goto, PCs, RunInv, Progress, AtomicAt, VerdictAt, Voting
  <1>2. CASE Decide(t)
    <2>1. CASE /\ \E l \in {IF votes[t] = 2 THEN "commit" ELSE "abort", "crash"} : pc' = [pc EXCEPT ![t] = l]
               /\ at' = [at EXCEPT ![t] = 1] /\ UNCHANGED verdict
      <3>1. UNCHANGED <<order, votes, part, faults>> /\ pc[t] = "decide"
        BY <1>2 DEF Decide
      <3> QED
        BY <3>1, <2>1, TwoParticipants DEF Inv, TypeOK, PCs, RunInv, Progress, AtomicAt, VerdictAt, Voting
    <2>2. CASE /\ votes[t] = 0 /\ pc' = [pc EXCEPT ![t] = "done"] /\ UNCHANGED at
               /\ verdict' = [verdict EXCEPT ![t] = "raised"]
      BY <1>2, <2>2, TwoParticipants DEF Inv, TypeOK, Decide, Goto, PCs, RunInv, Progress, AtomicAt, VerdictAt, Voting
    <2> QED
      BY <1>2, <2>1, <2>2 DEF Decide, Goto
  <1>3. CASE Return(t)
    BY <1>3, TwoParticipants DEF Inv, TypeOK, Return, Goto, PCs, RunInv, Progress, AtomicAt, VerdictAt, Voting
  <1> QED BY <1>1, <1>2, <1>3

\* A lost vote: the transaction at hand is rolled back or left prepared.
LEMMA VoteLostInv ==
  ASSUME Inv, NEW t \in Txns, VoteLost(t)
  PROVE  TypeOK' /\ RunInv(t)'
  <1>1. at[t] \in Participants /\ pc[t] \in {"operate", "prepare"} /\ RunInv(t) /\ TypeOK
    BY TwoParticipants DEF Inv, VoteLost, RunInv, Progress, TypeOK
  <1>2. /\ part' \in [Txns -> [Participants -> PartStates]]
        /\ part'[t][at[t]] # "committed"
        /\ \A q \in Participants : q # at[t] => part'[t][q] = part[t][q]
    <2>1. CASE UNCHANGED part
      BY <1>1, <2>1 DEF TypeOK, RunInv, Progress, Voting
    <2>2. CASE \E s \in {"prepared", "rolledback"} : Becomes(t, at[t], s)
      <3>1. PICK s \in {"prepared", "rolledback"} : Becomes(t, at[t], s)
        BY <2>2
      <3> QED BY <1>1, <3>1, BecomesOne, TwoParticipants
    <2> QED BY <2>1, <2>2 DEF VoteLost
  <1>3. /\ pc' = [pc EXCEPT ![t] = "decide"] /\ votes' = votes /\ at' = at
        /\ order' = order /\ verdict' = verdict /\ faults' \in 0..MaxFaults
    BY TwoPhaseAssumption, <1>1 DEF VoteLost, Goto, Fault, TypeOK
  <1>4. TypeOK'
    BY <1>1, <1>2, <1>3 DEF TypeOK, PCs
  <1>5. Progress(t)'
    BY <1>1, <1>2, <1>3, TwoParticipants DEF TypeOK, RunInv, Progress, Voting
  <1>6. AtomicAt(t)' /\ VerdictAt(t)'
    BY <1>1, <1>2, <1>3, TwoParticipants DEF TypeOK, RunInv, Progress, AtomicAt, VerdictAt, Voting
  <1> QED BY <1>4, <1>5, <1>6 DEF RunInv

\* The COMMIT loop, with and without an exception.
LEMMA CommitInv ==
  ASSUME Inv, NEW t \in Txns, Commit(t) \/ CommitRaises(t)
  PROVE  TypeOK' /\ RunInv(t)'
  <1>1. at[t] \in Participants /\ pc[t] = "commit" /\ RunInv(t) /\ TypeOK
    BY TwoParticipants DEF Inv, Commit, CommitRaises, RunInv, Progress, TypeOK
  <1>2. CASE Becomes(t, at[t], "committed")
    <2>1. /\ part' \in [Txns -> [Participants -> PartStates]]
          /\ part'[t][at[t]] = "committed"
          /\ \A q \in Participants : q # at[t] => part'[t][q] = part[t][q]
      BY <1>1, <1>2, BecomesOne, TwoParticipants
    <2>2. /\ votes' = votes /\ order' = order /\ faults' \in 0..MaxFaults
          /\ \/ /\ at' = [at EXCEPT ![t] = @ + 1] /\ pc' = pc /\ verdict' = verdict
             \/ /\ at' = at /\ pc' = [pc EXCEPT ![t] = "done"]
                /\ verdict' = [verdict EXCEPT ![t] = "raised"]
      BY TwoPhaseAssumption, <1>1 DEF Commit, CommitRaises, Fault, Goto, TypeOK
    <2>3. at[t] <= votes[t] /\ votes[t] = 2
      BY <1>1 DEF Commit, CommitRaises, RunInv, Progress
    <2>4. TypeOK'
      <3>1. votes' \in [Txns -> 0..2] /\ order' \in [Txns -> OrderIds \cup {None}]
        BY <1>1, <2>2 DEF TypeOK
      <3>2. at' \in [Txns -> 1..3]
        BY <1>1, <2>2, <2>3 DEF TypeOK
      <3>3. pc' \in [Txns -> PCs]
        BY <1>1, <2>2 DEF TypeOK, PCs
      <3>4. verdict' \in [Txns -> {None, "COMMITTED", "ABORTED", "raised"}]
        BY <1>1, <2>2 DEF TypeOK
      <3> QED BY <2>1, <2>2, <3>1, <3>2, <3>3, <3>4 DEF TypeOK
    <2>5. Progress(t)'
      BY <1>1, <2>1, <2>2, <2>3, TwoParticipants DEF TypeOK, RunInv, Progress, Voting
    <2>6. AtomicAt(t)' /\ VerdictAt(t)'
      BY TwoPhaseAssumption, <1>1, <2>1, <2>2, <2>3, TwoParticipants
         DEF TypeOK, RunInv, Progress, AtomicAt, VerdictAt
    <2> QED BY <2>4, <2>5, <2>6 DEF RunInv
  <1>3. CASE UNCHANGED part /\ CommitRaises(t)
    BY TwoPhaseAssumption, <1>1, <1>3, TwoParticipants
       DEF CommitRaises, Fault, Goto, TypeOK, PCs, RunInv, Progress, AtomicAt, VerdictAt, Voting
  <1> QED BY <1>2, <1>3 DEF Commit, CommitRaises

\* The ABORT loop, with and without a swallowed exception.
LEMMA AbortInv ==
  ASSUME Inv, NEW t \in Txns, Abort(t) \/ AbortSwallowed(t)
  PROVE  TypeOK' /\ RunInv(t)'
  <1>1. at[t] \in Participants /\ pc[t] \in {"abort", "crash"} /\ RunInv(t) /\ TypeOK
    BY TwoParticipants DEF Inv, Abort, AbortSwallowed, RunInv, Progress, TypeOK
  <1>2. /\ part' \in [Txns -> [Participants -> PartStates]]
        /\ \A q \in Participants : part'[t][q] # "committed"
    <2>1. CASE Becomes(t, at[t], "rolledback")
      BY <1>1, <2>1, BecomesOne, TwoParticipants DEF RunInv, Progress
    <2>2. CASE UNCHANGED part
      BY <1>1, <2>2 DEF TypeOK, RunInv, Progress
    <2> QED BY <2>1, <2>2 DEF Abort, AbortSwallowed
  <1>3. /\ at' = [at EXCEPT ![t] = @ + 1] /\ at[t] <= votes[t] /\ pc' = pc /\ votes' = votes
        /\ order' = order /\ verdict' = verdict /\ faults' \in 0..MaxFaults
    BY TwoPhaseAssumption, <1>1 DEF Abort, AbortSwallowed, Fault, TypeOK
  <1> QED
    BY <1>1, <1>2, <1>3, TwoParticipants
       DEF TypeOK, RunInv, Progress, AtomicAt, VerdictAt, Voting

\* The coordinator dies: open transactions are rolled back by their server.
LEMMA DieInv ==
  ASSUME Inv, NEW t \in Txns, Die(t)
  PROVE  TypeOK' /\ RunInv(t)'
  <1>1. TypeOK /\ RunInv(t) /\ pc[t] \notin {"idle", "done", "dead"}
    BY DEF Inv, Die
  <1>2. /\ part' \in [Txns -> [Participants -> PartStates]]
        /\ \A q \in Participants :
              part'[t][q] = IF part[t][q] = "open" THEN "rolledback" ELSE part[t][q]
    BY <1>1, TwoParticipants DEF Die, TypeOK
  <1>3. /\ pc' = [pc EXCEPT ![t] = "dead"] /\ votes' = votes /\ at' = at
        /\ order' = order /\ verdict' = verdict /\ faults' \in 0..MaxFaults
    BY TwoPhaseAssumption, <1>1 DEF Die, Goto, Fault, TypeOK
  <1>4. pc[t] \in Voting \cup {"commit", "abort", "crash"}
    BY <1>1 DEF TypeOK, PCs, Voting
  <1>5. AtomicAt(t)'
    BY <1>1, <1>2, <1>4, TwoParticipants DEF TypeOK, RunInv, Progress, AtomicAt, Voting
  <1> QED
    BY <1>1, <1>2, <1>3, <1>5, TwoParticipants DEF TypeOK, PCs, RunInv, Progress, VerdictAt, Voting

LEMMA NextInv == Inv /\ [Next]_vars => Inv'
  <1> SUFFICES ASSUME Inv, [Next]_vars PROVE Inv'
    OBVIOUS
  <1>1. CASE UNCHANGED vars
    BY <1>1 DEF vars, Inv, TypeOK, RunInv, Progress, AtomicAt, VerdictAt
  <1>2. CASE Next
    <2>1. PICK t \in Txns :
             (\E o \in OrderIds : Begin(t, o)) \/ Run(t) \/ VoteLost(t) \/ CommitRaises(t)
               \/ AbortSwallowed(t) \/ Die(t)
      BY <1>2 DEF Next
    <2>2. TypeOK' /\ RunInv(t)'
      BY <2>1, BeginInv, OperateInv, PrepareInv, QuietInv, VoteLostInv, CommitInv, AbortInv,
         DieInv DEF Run
    <2>3. ASSUME NEW u \in Txns, u # t PROVE RunInv(u)'
      <3>1. /\ pc'[u] = pc[u] /\ votes'[u] = votes[u] /\ at'[u] = at[u]
            /\ part'[u] = part[u] /\ verdict'[u] = verdict[u]
        BY <2>1, <2>3, StepIsLocal
      <3> QED BY <3>1 DEF Inv, RunInv, Progress, AtomicAt, VerdictAt
    <2> QED BY <2>2, <2>3 DEF Inv
  <1> QED BY <1>1, <1>2 DEF vars

\* Every variable of the coordinator and of the two databases keeps its type.
THEOREM TwoPhaseTypeCorrect == Spec => []TypeOK
  <1>1. Inv => TypeOK
    BY DEF Inv
  <1> QED BY InitInv, NextInv, <1>1, PTL DEF Spec

\* No interleaving, lost message or crash commits a transaction at one database
\* and rolls it back at the other.
THEOREM TwoPhaseAtomic == Spec => []Atomic
  <1>1. Inv => Atomic
    BY DEF Inv, RunInv, AtomicAt, Atomic
  <1> QED BY InitInv, NextInv, <1>1, PTL DEF Spec

\* run returns True only when both databases have committed, False only when
\* neither has.
THEOREM TwoPhaseVerdict == Spec => []VerdictIsTrue
  <1>1. Inv => VerdictIsTrue
    BY DEF Inv, RunInv, VerdictAt, VerdictIsTrue
  <1> QED BY InitInv, NextInv, <1>1, PTL DEF Spec

\* Who has a lock on the row of the product; what the guard of the UPDATE saw still
\* holds while the lock does.
Holds(t) == part[t][Inventory] \in {"open", "prepared"}
SoldTo == {t \in Txns : part[t][Inventory] = "committed"}

StockInv ==
    /\ \A t, u \in Txns : Holds(t) /\ Holds(u) => t = u
    /\ Quantity >= 0
    /\ \A t \in Txns : Holds(t) => Quantity >= Qty

\* What one step of run t does to its transaction at the inventory.
LEMMA InventoryMoves ==
  ASSUME Inv, NEW t \in Txns,
         (\E o \in OrderIds : Begin(t, o)) \/ Run(t) \/ VoteLost(t) \/ CommitRaises(t)
            \/ AbortSwallowed(t) \/ Die(t)
  PROVE  \/ part'[t][Inventory] = part[t][Inventory]
         \/ Holds(t) /\ Holds(t)'
         \/ /\ Holds(t)' /\ part[t][Inventory] # "committed"
            /\ Quantity >= Qty /\ \A u \in Txns \ {t} : ~Holds(u)
         \/ part[t][Inventory] = "prepared" /\ part'[t][Inventory] = "committed"
         \/ part[t][Inventory] # "committed" /\ part'[t][Inventory] = "rolledback"
  <1> USE DEF Inventory
  <1>1. TypeOK /\ RunInv(t) /\ 1 \in Participants /\ Participants = {1, 2}
    BY TwoParticipants DEF Inv
  <1>2. CASE UNCHANGED part
    BY <1>2
  <1>3. CASE Operate(t)
    <2>1. Becomes(t, at[t], "open") /\ at[t] \in {1, 2} /\ ~Blocked(t) /\ Accepted(t)
      BY <1>1, <1>3 DEF Operate, RunInv, Progress, TypeOK
    <2>2. CASE at[t] = 1
      <3>1. part'[t][1] = "open"
        BY <1>1, <2>1, <2>2, BecomesOne DEF PartStates
      <3>2. part[t][1] # "committed"
        BY <1>1, <1>3 DEF Operate, RunInv, Progress, Voting
      <3>3. \A u \in Txns \ {t} : ~Holds(u)
        BY <2>1, <2>2 DEF Blocked, Holds, Orders
      <3> QED
        BY <2>1, <2>2, <3>1, <3>2, <3>3 DEF Holds, Accepted
    <2>3. CASE at[t] = 2
      BY <1>1, <2>1, <2>3, BecomesOne DEF PartStates
    <2> QED
      BY <2>1, <2>2, <2>3
  <1>4. CASE Prepare(t)
    <2>1. Becomes(t, at[t], "prepared") /\ at[t] \in {1, 2} /\ part[t][at[t]] = "open"
      BY <1>1, <1>4 DEF Prepare, RunInv, Progress, TypeOK
    <2> QED
      BY <1>1, <2>1, BecomesOne DEF PartStates, Holds
  <1>5. CASE VoteLost(t) /\ ~UNCHANGED part
    <2>1. pc[t] = "prepare" /\ at[t] \in {1, 2} /\ part[t][at[t]] = "open"
      BY <1>1, <1>5 DEF VoteLost, RunInv, Progress, TypeOK
    <2>2. PICK s \in {"prepared", "rolledback"} : Becomes(t, at[t], s)
      BY <1>5, <2>1 DEF VoteLost
    <2>3. /\ part'[t][at[t]] = s
          /\ \A q \in Participants : q # at[t] => part'[t][q] = part[t][q]
      BY <1>1, <2>1, <2>2, BecomesOne DEF PartStates
    <2> QED
      BY <1>1, <2>1, <2>3 DEF Holds
  <1>6. CASE (Commit(t) \/ CommitRaises(t)) /\ ~UNCHANGED part
    <2>1. Becomes(t, at[t], "committed") /\ at[t] \in {1, 2} /\ part[t][at[t]] = "prepared"
      BY <1>1, <1>6 DEF Commit, CommitRaises, RunInv, Progress, TypeOK
    <2> QED
      BY <1>1, <2>1, BecomesOne DEF PartStates
  <1>7. CASE (Abort(t) \/ AbortSwallowed(t)) /\ ~UNCHANGED part
    <2>1. Becomes(t, at[t], "rolledback") /\ at[t] \in {1, 2} /\ part[t][1] # "committed"
      BY <1>1, <1>7 DEF Abort, AbortSwallowed, RunInv, Progress, TypeOK
    <2> QED
      BY <1>1, <2>1, BecomesOne DEF PartStates
  <1>8. CASE Die(t)
    BY <1>1, <1>8 DEF Die, TypeOK
  <1> QED
    BY <1>2, <1>3, <1>4, <1>5, <1>6, <1>7, <1>8 DEF Run, Begin, VoteNo, Decide, Return

LEMMA QuantityType ==
  IsFiniteSet(SoldTo) /\ Cardinality(SoldTo) \in Nat /\ Quantity \in Int
  <1>1. SoldTo \in SUBSET Txns
    BY DEF SoldTo
  <1>2. IsFiniteSet(SoldTo) /\ Cardinality(SoldTo) \in Nat
    BY <1>1, TwoPhaseAssumption, FS_Subset, FS_CardinalityType
  <1> QED
    BY <1>2, TwoPhaseAssumption DEF Quantity, SoldTo

LEMMA StockInvStep == Inv /\ StockInv /\ [Next]_vars => StockInv'
  <1> SUFFICES ASSUME Inv, StockInv, [Next]_vars PROVE StockInv'
    OBVIOUS
  <1>1. CASE UNCHANGED vars
    BY <1>1 DEF vars, StockInv, Holds, Quantity
  <1>2. CASE Next
    <2>1. PICK t \in Txns :
             (\E o \in OrderIds : Begin(t, o)) \/ Run(t) \/ VoteLost(t) \/ CommitRaises(t)
               \/ AbortSwallowed(t) \/ Die(t)
      BY <1>2 DEF Next
    <2>2. \A u \in Txns \ {t} : part'[u] = part[u] /\ (Holds(u)' <=> Holds(u))
      BY <2>1, StepIsLocal DEF Holds
    <2>3. Quantity \in Int /\ Qty \in Nat
      BY QuantityType, TwoPhaseAssumption
    <2>4. (part[t][Inventory] = "committed" <=> part'[t][Inventory] = "committed")
             => Quantity' = Quantity
      <3>1. ASSUME part[t][Inventory] = "committed" <=> part'[t][Inventory] = "committed"
            PROVE  SoldTo' = SoldTo
        BY <2>2, <3>1 DEF SoldTo
      <3> QED
        BY <3>1 DEF Quantity, SoldTo
    <2>5. CASE /\ part[t][Inventory] = "committed" <=> part'[t][Inventory] = "committed"
               /\ Holds(t)' => Holds(t)
      BY <2>2, <2>4, <2>5 DEF StockInv
    <2>6. CASE /\ Holds(t)' /\ part[t][Inventory] # "committed"
               /\ Quantity >= Qty /\ \A u \in Txns \ {t} : ~Holds(u)
      <3>1. Quantity' = Quantity
        BY <2>4, <2>6 DEF Holds
      <3> QED
        BY <2>2, <2>6, <3>1 DEF StockInv
    <2>7. CASE part[t][Inventory] = "prepared" /\ part'[t][Inventory] = "committed"
      <3>1. Holds(t) /\ ~Holds(t)' /\ Quantity >= Qty
        BY <2>7 DEF Holds, StockInv
      <3>2. SoldTo' = SoldTo \cup {t} /\ t \notin SoldTo
        BY <2>2, <2>7 DEF SoldTo
      <3>3. Cardinality(SoldTo') = Cardinality(SoldTo) + 1
        BY <3>2, QuantityType, FS_AddElement
      <3>4. Quantity' = Quantity - Qty
        <4>1. Quantity = Stock - Qty * Cardinality(SoldTo)
          BY DEF Quantity, SoldTo
        <4>2. Quantity' = Stock - Qty * Cardinality(SoldTo')
          BY DEF Quantity, SoldTo
        <4> DEFINE n == Cardinality(SoldTo)
        <4>3. Qty * (n + 1) = Qty * n + Qty /\ Qty * n \in Int
          <5> n \in Nat
            BY QuantityType
          <5> HIDE DEF n
          <5> QED
            BY <2>3
        <4> QED
          BY <3>3, <4>1, <4>2, <4>3, TwoPhaseAssumption
      <3>5. \A u \in Txns : ~Holds(u)'
        BY <2>2, <3>1 DEF StockInv
      <3> QED
        BY <2>3, <3>1, <3>4, <3>5 DEF StockInv
    <2> QED
      BY <2>1, <2>5, <2>6, <2>7, InventoryMoves DEF Holds
  <1> QED BY <1>1, <1>2

LEMMA StockInvInit == Init => StockInv
  <1> SUFFICES ASSUME Init PROVE StockInv
    OBVIOUS
  <1>1. \A t \in Txns : part[t][Inventory] = "none"
    BY TwoParticipants DEF Init, Inventory
  <1>2. SoldTo = {}
    BY <1>1 DEF SoldTo
  <1>3. Quantity = Stock
    BY <1>2, FS_EmptySet, TwoPhaseAssumption DEF Quantity, SoldTo
  <1> QED
    BY <1>1, <1>3, TwoPhaseAssumption DEF StockInv, Holds

\* No interleaving of coordinators oversells the product: the lock of its row is held
\* from the guard of the UPDATE to the end of the transaction, prepared or not.
THEOREM TwoPhaseNeverOversells == Spec => []NeverOversold
  <1>1. StockInv => NeverOversold
    BY DEF StockInv, NeverOversold
  <1> QED BY InitInv, NextInv, StockInvInit, StockInvStep, <1>1, PTL DEF Spec

-----------------------------------------------------------------------------
LEMMA SagaInvFromLocal ==
    ASSUME Orch!SagaInv, NEW s \in Sagas, Orch!Alone(s), Orch!TypeOK', Orch!Counters(s)',
           \A i \in Orch!Steps : Orch!StepEffect(s, i)'
    PROVE  Orch!SagaInv'
  <1>1. ASSUME NEW u \in Sagas
        PROVE  Orch!Counters(u)'
    <2>1. CASE u = s
      BY <2>1
    <2>2. CASE u # s
      BY <2>2 DEF Orch!SagaInv, Orch!Alone, Orch!Counters
    <2> QED
      BY <2>1, <2>2
  <1>2. ASSUME NEW u \in Sagas, NEW i \in Orch!Steps
        PROVE  Orch!StepEffect(u, i)'
    <2>1. CASE u = s
      BY <2>1
    <2>2. CASE u # s
      BY <2>2 DEF Orch!SagaInv, Orch!Alone, Orch!StepEffect, Orch!Reach
    <2> QED
      BY <2>1, <2>2
  <1> QED
    BY <1>1, <1>2 DEF Orch!SagaInv, Orch!Steps

LEMMA InitSagaInv ==
    ASSUME Orch!SagaAssumptions, Orch!Init
    PROVE  Orch!SagaInv
  BY DEF Orch!Init, Orch!SagaAssumptions, Orch!SagaInv, Orch!TypeOK, Orch!Counters, Orch!StepEffect, Orch!Reach, Orch!Steps

LEMMA SagaInvStep ==
    ASSUME Orch!SagaAssumptions, Orch!SagaInv, [Orch!Next]_sagaVars
    PROVE  Orch!SagaInv'
  <1> USE DEF Orch!SagaAssumptions
  <1>1. ASSUME NEW s \in Sagas,
               Orch!Begin(s) \/ Orch!ExecuteFails(s) \/ Orch!Return(s)
        PROVE  Orch!SagaInv'
    <2>1. Orch!TypeOK /\ Orch!Counters(s)
      BY DEF Orch!SagaInv
    <2>2. /\ completed' = completed /\ effect' = effect
          /\ lost' = lost /\ stuck' = stuck /\ recovered' = recovered /\ sagaFaults' = sagaFaults
      BY <1>1 DEF Orch!Begin, Orch!ExecuteFails, Orch!Return
    <2>3. \E l \in {"execute", "compensate", "done"}, n \in 0..Last + 1 :
             sagaPc' = [sagaPc EXCEPT ![s] = l] /\ sagaAt' = [sagaAt EXCEPT ![s] = n]
      BY <1>1, <2>1 DEF Orch!Begin, Orch!ExecuteFails, Orch!Return, Orch!Goto, Orch!TypeOK
    <2>4. Orch!TypeOK' /\ Orch!Alone(s)
      BY <2>1, <2>2, <2>3 DEF Orch!TypeOK, Orch!Alone
    <2>5. Orch!Counters(s)'
      <3>1. CASE Orch!Begin(s)
        BY <2>1, <2>2, <3>1 DEF Orch!Begin, Orch!Goto, Orch!TypeOK, Orch!Counters
      <3>2. CASE Orch!ExecuteFails(s)
        BY <2>1, <2>2, <3>2 DEF Orch!ExecuteFails, Orch!Goto, Orch!TypeOK, Orch!Counters
      <3>3. CASE Orch!Return(s)
        BY <2>1, <2>2, <3>3 DEF Orch!Return, Orch!Goto, Orch!TypeOK, Orch!Counters
      <3> QED
        BY <1>1, <3>1, <3>2, <3>3
    <2>6. ASSUME NEW i \in Orch!Steps
          PROVE  Orch!StepEffect(s, i)'
      <3>1. Orch!StepEffect(s, i)
        BY DEF Orch!SagaInv
      <3>2. Orch!Reach(s)' = Orch!Reach(s)
        <4>1. CASE Orch!Begin(s)
          BY <2>1, <2>2, <4>1 DEF Orch!Begin, Orch!Goto, Orch!TypeOK, Orch!Reach
        <4>2. CASE Orch!ExecuteFails(s)
          BY <2>1, <2>2, <4>2 DEF Orch!ExecuteFails, Orch!Goto, Orch!TypeOK, Orch!Reach
        <4>3. CASE Orch!Return(s)
          <5>1. /\ sagaPc'[s] = "done" /\ sagaAt' = sagaAt /\ completed[s] \in 0..Last /\ sagaAt[s] \in Int
                /\ \/ sagaPc[s] = "execute" /\ sagaAt[s] > Last
                   \/ sagaPc[s] = "compensate"
            BY <2>1, <4>3 DEF Orch!Return, Orch!Goto, Orch!TypeOK
          <5>2. sagaPc[s] = "execute" => completed[s] = Last
            BY <2>1, <5>1 DEF Orch!Counters
          <5> QED
            BY <2>2, <5>1, <5>2 DEF Orch!Reach
        <4> QED
          BY <1>1, <4>1, <4>2, <4>3
      <3> QED
        BY <2>2, <3>1, <3>2 DEF Orch!StepEffect
    <2> QED
      BY <2>4, <2>5, <2>6, SagaInvFromLocal
  <1>2. ASSUME NEW s \in Sagas, Orch!Execute(s) \/ Orch!ExecuteLost(s)
        PROVE  Orch!SagaInv'
    <2>1. Orch!TypeOK /\ Orch!Counters(s) /\ sagaPc[s] = "execute" /\ sagaAt[s] \in Orch!Steps
      BY <1>2
        DEF Orch!SagaInv, Orch!Execute, Orch!ExecuteLost, Orch!TypeOK, Orch!Counters, Orch!Steps
    <2>2. Orch!StepEffect(s, sagaAt[s])
      BY <2>1 DEF Orch!SagaInv
    <2>3. effect[s][sagaAt[s]] = 0
      BY <2>1, <2>2 DEF Orch!StepEffect, Orch!Counters, Orch!Reach, Orch!TypeOK, Orch!Steps
    <2>4. effect' = [effect EXCEPT ![s] = [effect[s] EXCEPT ![sagaAt[s]] = 1]]
      BY <1>2, <2>1, <2>3 DEF Orch!Execute, Orch!ExecuteLost, Orch!Applied, Orch!TypeOK
    <2>5. /\ stuck' = stuck /\ recovered' = recovered
          /\ \/ /\ sagaPc' = sagaPc /\ lost' = lost /\ sagaFaults' = sagaFaults
                /\ completed' = [completed EXCEPT ![s] = sagaAt[s]]
                /\ sagaAt' = [sagaAt EXCEPT ![s] = sagaAt[s] + 1]
             \/ /\ sagaPc' = [sagaPc EXCEPT ![s] = "compensate"] /\ completed' = completed
                /\ lost' = [lost EXCEPT ![s] = {sagaAt[s]}]
                /\ sagaAt' = [sagaAt EXCEPT ![s] = completed[s]]
                /\ sagaFaults < MaxFaults /\ sagaFaults' = sagaFaults + 1
      BY <1>2, <2>1
        DEF Orch!Execute, Orch!ExecuteLost, Orch!Fault, Orch!Goto, Orch!TypeOK, Orch!Counters
    <2>6. effect' \in [Sagas -> [Orch!Steps -> -1..1]]
      BY <2>1, <2>4 DEF Orch!TypeOK
    <2>7. Orch!Alone(s)
      BY <2>1, <2>4, <2>5 DEF Orch!TypeOK, Orch!Alone
    <2>8. Orch!TypeOK'
      <3>1. sagaAt[s] \in 1..Last /\ completed[s] \in 0..Last /\ Orch!Steps = 1..Last
        BY <2>1 DEF Orch!TypeOK, Orch!Steps
      <3>2. lost' \in [Sagas -> SUBSET Orch!Steps] /\ stuck' = stuck /\ recovered' = recovered
        BY <2>1, <2>5 DEF Orch!TypeOK
      <3>3. sagaPc' \in [Sagas -> {"idle", "execute", "compensate", "done"}]
        BY <2>1, <2>5 DEF Orch!TypeOK
      <3>4. completed' \in [Sagas -> 0..Last]
        <4>1. sagaAt[s] \in 0..Last /\ completed \in [Sagas -> 0..Last]
          BY <2>1, <3>1 DEF Orch!TypeOK
        <4> QED
          BY <2>5, <4>1
      <3>5. sagaAt' \in [Sagas -> 0..Last + 1]
        <4>1. sagaAt[s] + 1 \in 0..Last + 1 /\ completed[s] \in 0..Last + 1
          BY <3>1
        <4>2. sagaAt \in [Sagas -> 0..Last + 1]
          BY <2>1 DEF Orch!TypeOK
        <4> QED
          BY <2>5, <4>1, <4>2
      <3>6. sagaFaults' \in 0..MaxFaults
        BY <2>1, <2>5 DEF Orch!TypeOK
      <3> QED
        BY <2>1, <2>6, <3>2, <3>3, <3>4, <3>5, <3>6 DEF Orch!TypeOK
    <2>9. Orch!Counters(s)'
      BY <2>1, <2>5 DEF Orch!TypeOK, Orch!Counters, Orch!Steps
    <2>10. ASSUME NEW i \in Orch!Steps
          PROVE  Orch!StepEffect(s, i)'
      <3>1. Orch!StepEffect(s, i)
        BY DEF Orch!SagaInv
      <3>2. effect'[s][i] = IF i = sagaAt[s] THEN 1 ELSE effect[s][i]
        BY <2>1, <2>4 DEF Orch!TypeOK
      <3> QED
        BY <2>1, <2>5, <3>1, <3>2
          DEF Orch!TypeOK, Orch!Counters, Orch!StepEffect, Orch!Reach, Orch!Steps
    <2> QED
      BY <2>7, <2>8, <2>9, <2>10, SagaInvFromLocal
  <1>3. ASSUME NEW s \in Sagas, Orch!Compensate(s) \/ Orch!CompensateFails(s)
        PROVE  Orch!SagaInv'
    <2>1. Orch!TypeOK /\ Orch!Counters(s) /\ sagaPc[s] = "compensate" /\ sagaAt[s] \in Orch!Steps
      BY <1>3
        DEF Orch!SagaInv, Orch!Compensate, Orch!CompensateFails, Orch!TypeOK, Orch!Counters,
          Orch!Steps
    <2>2. Orch!StepEffect(s, sagaAt[s])
      BY <2>1 DEF Orch!SagaInv
    <2>3. effect[s][sagaAt[s]] = 1
      BY <2>1, <2>2 DEF Orch!StepEffect, Orch!Counters, Orch!Reach, Orch!TypeOK, Orch!Steps
    <2>4. \/ effect' = effect
          \/ effect' = [effect EXCEPT ![s] = [effect[s] EXCEPT ![sagaAt[s]] = 0]]
      BY <1>3, <2>1, <2>3 DEF Orch!Compensate, Orch!CompensateFails, Orch!Applied, Orch!TypeOK
    <2>5. /\ sagaPc' = sagaPc /\ completed' = completed /\ lost' = lost /\ recovered' = recovered
          /\ sagaAt' = [sagaAt EXCEPT ![s] = sagaAt[s] - 1]
          /\ \/ stuck' = stuck /\ sagaFaults' = sagaFaults
             \/ /\ stuck' = [stuck EXCEPT ![s] = @ \cup {sagaAt[s]}]
                /\ sagaFaults < MaxFaults /\ sagaFaults' = sagaFaults + 1
      BY <1>3 DEF Orch!Compensate, Orch!CompensateFails, Orch!Fault
    <2>6. effect' \in [Sagas -> [Orch!Steps -> -1..1]]
      <3>1. CASE effect' = effect
        BY <2>1, <3>1 DEF Orch!TypeOK
      <3>2. CASE effect' = [effect EXCEPT ![s] = [effect[s] EXCEPT ![sagaAt[s]] = 0]]
        BY <2>1, <3>2 DEF Orch!TypeOK
      <3> QED
        BY <2>4, <3>1, <3>2
    <2>7. Orch!Alone(s)
      BY <2>1, <2>4, <2>5 DEF Orch!TypeOK, Orch!Alone
    <2>8. sagaAt[s] \in 1..Last /\ completed[s] \in 0..Last /\ Orch!Steps = 1..Last
      BY <2>1 DEF Orch!TypeOK, Orch!Steps
    <2>9. Orch!TypeOK'
      <3>1. stuck' \in [Sagas -> SUBSET Orch!Steps]
        BY <2>1, <2>5 DEF Orch!TypeOK
      <3>2. sagaAt' \in [Sagas -> 0..Last + 1]
        BY <2>1, <2>5, <2>8 DEF Orch!TypeOK
      <3>3. sagaFaults' \in 0..MaxFaults
        BY <2>1, <2>5 DEF Orch!TypeOK
      <3> QED
        BY <2>1, <2>5, <2>6, <3>1, <3>2, <3>3 DEF Orch!TypeOK
    <2>10. Orch!Counters(s)'
      <3>1. /\ sagaPc'[s] = "compensate" /\ completed'[s] = completed[s] /\ sagaAt'[s] = sagaAt[s] - 1
            /\ lost'[s] = lost[s] /\ recovered'[s] = recovered[s]
            /\ stuck'[s] \subseteq stuck[s] \cup {sagaAt[s]} /\ stuck[s] \subseteq stuck'[s]
        BY <2>1, <2>5 DEF Orch!TypeOK
      <3>2. \A i \in stuck'[s] : sagaAt'[s] < i /\ i <= completed'[s]
        <4>1. \A i \in stuck[s] : sagaAt[s] < i /\ i <= completed[s] /\ i \in Int
          BY <2>1, <2>8 DEF Orch!Counters, Orch!TypeOK
        <4>2. sagaAt[s] <= completed[s]
          BY <2>1 DEF Orch!Counters
        <4> QED
          BY <2>8, <3>1, <4>1, <4>2
      <3>3. sagaAt'[s] <= completed'[s]
        BY <2>1, <2>8, <3>1 DEF Orch!Counters
      <3> QED
        BY <2>1, <3>1, <3>2, <3>3 DEF Orch!Counters
    <2>11. ASSUME NEW i \in Orch!Steps
          PROVE  Orch!StepEffect(s, i)'
      <3>1. Orch!StepEffect(s, i)
        BY DEF Orch!SagaInv
      <3>2. /\ i # sagaAt[s] => effect'[s][i] = effect[s][i]
            /\ effect'[s][sagaAt[s]] \in 0..1
            /\ Orch!Compensate(s) => effect'[s][sagaAt[s]] = 0
        BY <2>1, <2>3, <2>4 DEF Orch!TypeOK, Orch!Compensate, Orch!Applied
      <3>3. i = sagaAt[s] => i \notin lost[s] \cup stuck[s]
        BY <2>1 DEF Orch!Counters, Orch!TypeOK, Orch!Steps
      <3> QED
        BY <1>3, <2>1, <2>5, <3>1, <3>2, <3>3
        DEF Orch!Compensate, Orch!CompensateFails, Orch!TypeOK, Orch!Counters, Orch!StepEffect, Orch!Reach, Orch!Steps
    <2> QED
      BY <2>7, <2>9, <2>10, <2>11, SagaInvFromLocal
  <1>4. ASSUME NEW s \in Sagas, NEW k \in Orch!Steps, Orch!Recover(s, k)
        PROVE  Orch!SagaInv'
    <2>1. Orch!TypeOK /\ Orch!Counters(s) /\ Orch!StepEffect(s, k)
      BY DEF Orch!SagaInv
    <2>2. effect[s][k] \in 0..1
      BY <1>4, <2>1 DEF Orch!Recover, Orch!StepEffect
    <2>3. effect' = [effect EXCEPT ![s] = [effect[s] EXCEPT ![k] = effect[s][k] - 1]]
      BY <1>4, <2>1 DEF Orch!Recover, Orch!TypeOK
    <2>4. Orch!TypeOK' /\ Orch!Alone(s)
      BY <1>4, <2>1, <2>2, <2>3 DEF Orch!Recover, Orch!TypeOK, Orch!Alone
    <2>5. Orch!Counters(s)'
      BY <1>4, <2>1 DEF Orch!Recover, Orch!TypeOK, Orch!Counters
    <2>6. ASSUME NEW i \in Orch!Steps
          PROVE  Orch!StepEffect(s, i)'
      <3>1. Orch!StepEffect(s, i)
        BY DEF Orch!SagaInv
      <3>2. effect'[s][i] = IF i = k THEN effect[s][k] - 1 ELSE effect[s][i]
        BY <2>1, <2>3 DEF Orch!TypeOK
      <3>3. k \notin lost[s]
        BY <1>4, <2>1 DEF Orch!Recover, Orch!Counters, Orch!TypeOK
      <3> QED
        BY <1>4, <2>1, <2>2, <3>1, <3>2, <3>3
          DEF Orch!Recover, Orch!TypeOK, Orch!StepEffect, Orch!Reach
    <2> QED
      BY <2>4, <2>5, <2>6, SagaInvFromLocal
  <1>5. CASE UNCHANGED sagaVars
    BY <1>5 DEF sagaVars, Orch!SagaInv, Orch!TypeOK, Orch!Counters, Orch!StepEffect, Orch!Reach
  <1> QED
    BY <1>1, <1>2, <1>3, <1>4, <1>5 DEF Orch!Next, Orch!Run

\* Every variable of the orchestrator keeps its type: no step is ever in place twice, and
\* none is compensated more than once too often (SagaOrchestrator).
THEOREM SagaTypeCorrect == Orch!SagaAssumptions /\ Orch!Spec => []Orch!TypeOK
  <1>1. Orch!SagaAssumptions /\ Orch!Init => Orch!SagaInv
    BY InitSagaInv
  <1>2. Orch!SagaAssumptions /\ Orch!SagaInv /\ [Orch!Next]_sagaVars => Orch!SagaInv'
    BY SagaInvStep
  <1>3. Orch!SagaInv => Orch!TypeOK
    BY DEF Orch!SagaInv
  <1>4. Orch!SagaAssumptions => Orch!SagaAssumptions'
    BY DEF Orch!SagaAssumptions
  <1> QED
    BY <1>1, <1>2, <1>3, <1>4, PTL DEF Orch!Spec, Orch!vars, sagaVars

\* What SagaInv says of a saga that is over, and of one that runs.
LEMMA SagaInvIsAtomic ==
    ASSUME Orch!SagaAssumptions, Orch!SagaInv
    PROVE  Orch!AllOrNothing /\ Orch!EffectsArePrefix
  <1>1. Orch!AllOrNothing
    <2>1. ASSUME NEW s \in Sagas, sagaPc[s] = "done",
                 NEW i \in Orch!Steps \ (lost[s] \cup stuck[s])
          PROVE  effect[s][i] = IF completed[s] = Last THEN 1 ELSE 0
      <3>1. Orch!Counters(s) /\ Orch!StepEffect(s, i)
        BY DEF Orch!SagaInv
      <3> QED
        BY <2>1, <3>1
          DEF Orch!SagaAssumptions, Orch!Counters, Orch!StepEffect, Orch!Reach, Orch!Steps
    <2> QED
      BY <2>1 DEF Orch!AllOrNothing
  <1>2. Orch!EffectsArePrefix
    <2>1. ASSUME NEW s \in Sagas, NEW i \in Orch!Steps, NEW j \in Orch!Steps,
                 i < j, effect[s][j] = 1, j \notin lost[s] \cup stuck[s]
          PROVE  effect[s][i] = 1 \/ i \in stuck[s]
      <3>1. Orch!StepEffect(s, i) /\ Orch!StepEffect(s, j)
        BY DEF Orch!SagaInv
      <3>2. Orch!Reach(s) \in Int
        BY DEF Orch!SagaInv, Orch!TypeOK, Orch!Reach, Orch!SagaAssumptions
      <3>3. j <= Orch!Reach(s)
        BY <2>1, <3>1, <3>2 DEF Orch!StepEffect
      <3> QED
        BY <2>1, <3>1, <3>2, <3>3 DEF Orch!SagaAssumptions, Orch!StepEffect, Orch!Steps
    <2> QED
      BY <2>1 DEF Orch!EffectsArePrefix
  <1> QED
    BY <1>1, <1>2

\* A saga that is over has all its effects or none, and while it runs they are a prefix of
\* its steps, but for the steps reported as stuck and those whose success was not heard of,
\* however many sagas interleave and fail (SagaOrchestrator.execute_step, compensate).
THEOREM SagaAtomic ==
  Orch!SagaAssumptions /\ Orch!Spec => [](Orch!AllOrNothing /\ Orch!EffectsArePrefix)
  <1>1. Orch!SagaAssumptions /\ Orch!Init => Orch!SagaInv
    BY InitSagaInv
  <1>2. Orch!SagaAssumptions /\ Orch!SagaInv /\ [Orch!Next]_sagaVars => Orch!SagaInv'
    BY SagaInvStep
  <1>3. Orch!SagaAssumptions /\ Orch!SagaInv => Orch!AllOrNothing /\ Orch!EffectsArePrefix
    BY SagaInvIsAtomic
  <1>4. Orch!SagaAssumptions => Orch!SagaAssumptions'
    BY DEF Orch!SagaAssumptions
  <1> QED
    BY <1>1, <1>2, <1>3, <1>4, PTL DEF Orch!Spec, Orch!vars, sagaVars

\* The stock sagas may still take is never negative.
SagaStockInv == Orch!Quantity >= 0

\* What DeductedType says, as one formula, to be primed as a whole.
DeductedTyped ==
  /\ IsFiniteSet(Sagas) /\ Last \in Nat \ {0} /\ Stock \in Nat /\ 1 \in Orch!Steps
  /\ Orch!Deducted \in [Sagas -> Int] /\ DOMAIN Orch!Deducted = Sagas
  /\ SumFunction(Orch!Deducted) \in Int
  /\ Orch!Quantity = Stock - SumFunction(Orch!Deducted)

LEMMA DeductedType == Orch!SagaAssumptions /\ Orch!TypeOK => DeductedTyped
  <1> SUFFICES ASSUME Orch!SagaAssumptions, Orch!TypeOK PROVE DeductedTyped
    OBVIOUS
  <1>1. IsFiniteSet(Sagas) /\ Last \in Nat \ {0} /\ Stock \in Nat /\ 1 \in Orch!Steps
    BY DEF Orch!SagaAssumptions, Orch!IsFiniteSet, IsFiniteSet, Orch!Steps
  <1>2. Orch!Deducted \in [Sagas -> Int] /\ DOMAIN Orch!Deducted = Sagas
    BY <1>1 DEF Orch!TypeOK, Orch!Deducted
  <1>3. SumFunction(Orch!Deducted) \in Int
    BY <1>1, <1>2, TotalType
  <1>4. Orch!Quantity = Stock - SumFunction(Orch!Deducted)
    BY DEF Orch!Quantity, Orch!SumFunction, SumFunction, Orch!SumFunctionOnSet,
           SumFunctionOnSet, Orch!FoldFunctionOnSet, FoldFunctionOnSet,
           Orch!MapThenFoldSet, MapThenFoldSet
  <1> QED
    BY <1>1, <1>2, <1>3, <1>4 DEF DeductedTyped

LEMMA DeductedTypeNext == Orch!SagaAssumptions' /\ Orch!TypeOK' => DeductedTyped'
  BY DeductedType, PTL

LEMMA SagaStockInit == Orch!SagaAssumptions /\ Orch!Init => SagaStockInv
  <1> SUFFICES ASSUME Orch!SagaAssumptions, Orch!Init PROVE SagaStockInv
    OBVIOUS
  <1>1. Orch!SagaInv /\ Orch!TypeOK
    BY InitSagaInv DEF Orch!SagaInv
  <1>2. Orch!Deducted = [s \in Sagas |-> 0]
    BY <1>1, DeductedType DEF DeductedTyped, Orch!Init, Orch!Deducted
  <1>3. SumFunction(Orch!Deducted) = 0
    BY <1>1, <1>2, DeductedType, TotalZero DEF DeductedTyped
  <1> QED
    BY <1>1, <1>3, DeductedType DEF DeductedTyped, SagaStockInv

\* Only the first step of a saga takes stock, and only when there is some.
LEMMA DeductionMoves ==
  ASSUME Orch!SagaAssumptions, Orch!SagaInv, NEW s \in Sagas,
         Orch!Run(s) \/ Orch!ExecuteLost(s) \/ Orch!CompensateFails(s)
           \/ \E i \in Orch!Steps : Orch!Recover(s, i)
  PROVE  /\ \A u \in Sagas \ {s} : effect'[u] = effect[u]
         /\ \/ effect'[s][1] <= effect[s][1]
            \/ effect'[s][1] = effect[s][1] + 1 /\ Orch!Quantity >= 1
  <1>1. Orch!TypeOK /\ Orch!Counters(s) /\ 1 \in Orch!Steps /\ effect[s][1] \in Int
    BY DeductedType DEF DeductedTyped, Orch!SagaInv, Orch!TypeOK
  <1>2. CASE UNCHANGED effect
    BY <1>1, <1>2
  <1>3. CASE (Orch!Execute(s) \/ Orch!ExecuteLost(s)) /\ ~UNCHANGED effect
    <2>1. /\ effect' = [effect EXCEPT ![s][sagaAt[s]] = @ + 1]
          /\ sagaAt[s] = 1 => Orch!Quantity >= 1
      BY <1>3 DEF Orch!Execute, Orch!ExecuteLost, Orch!Applied, Orch!Accepted
    <2>2. CASE sagaAt[s] = 1
      BY <1>1, <2>1, <2>2 DEF Orch!TypeOK
    <2>3. CASE sagaAt[s] # 1
      BY <1>1, <2>1, <2>3 DEF Orch!TypeOK
    <2> QED
      BY <2>2, <2>3
  <1>4. CASE (Orch!Compensate(s) \/ Orch!CompensateFails(s)) /\ ~UNCHANGED effect
    <2>1. effect' = [effect EXCEPT ![s][sagaAt[s]] = @ - 1]
      BY <1>1, <1>4 DEF Orch!Compensate, Orch!CompensateFails, Orch!Applied, Orch!TypeOK
    <2>2. CASE sagaAt[s] = 1
      BY <1>1, <2>1, <2>2 DEF Orch!TypeOK
    <2>3. CASE sagaAt[s] # 1
      BY <1>1, <2>1, <2>3 DEF Orch!TypeOK
    <2> QED
      BY <2>2, <2>3
  <1>5. ASSUME NEW i \in Orch!Steps, Orch!Recover(s, i)
        PROVE  /\ \A u \in Sagas \ {s} : effect'[u] = effect[u]
               /\ effect'[s][1] <= effect[s][1]
    <2>1. effect' = [effect EXCEPT ![s][i] = @ - 1]
      BY <1>5 DEF Orch!Recover
    <2>2. CASE i = 1
      BY <1>1, <2>1, <2>2 DEF Orch!TypeOK
    <2>3. CASE i # 1
      BY <1>1, <2>1, <2>3 DEF Orch!TypeOK
    <2> QED
      BY <2>2, <2>3
  <1> QED
    BY <1>2, <1>3, <1>4, <1>5 DEF Orch!Run, Orch!Begin, Orch!ExecuteFails, Orch!Return

LEMMA SagaStockStep ==
  ASSUME Orch!SagaAssumptions, Orch!SagaInv, Orch!SagaInv', SagaStockInv,
         [Orch!Next]_sagaVars
  PROVE  SagaStockInv'
  <1>1. CASE UNCHANGED sagaVars
    BY <1>1 DEF sagaVars, SagaStockInv, Orch!Quantity, Orch!Deducted
  <1>2. CASE Orch!Next
    <2>1. PICK s \in Sagas :
             Orch!Run(s) \/ Orch!ExecuteLost(s) \/ Orch!CompensateFails(s)
               \/ \E i \in Orch!Steps : Orch!Recover(s, i)
      BY <1>2 DEF Orch!Next
    <2> DEFINE f == Orch!Deducted
               g == Orch!Deducted'
    <2>2. /\ IsFiniteSet(Sagas) /\ Stock \in Nat
          /\ f \in [Sagas -> Int] /\ SumFunction(f) \in Int
          /\ Orch!Quantity = Stock - SumFunction(f)
      BY DeductedType DEF DeductedTyped, Orch!SagaInv
    <2>3. /\ g \in [Sagas -> Int] /\ SumFunction(g) \in Int
          /\ Orch!Quantity' = Stock - SumFunction(g)
      <3>1. Orch!SagaAssumptions' /\ Orch!TypeOK'
        BY DEF Orch!SagaAssumptions, Orch!SagaInv
      <3> QED
        BY <3>1, DeductedTypeNext DEF DeductedTyped
    <2>4. \A u \in Sagas \ {s} : g[u] = f[u]
      BY <2>1, DeductionMoves DEF Orch!Deducted
    <2>5. g[s] <= f[s] \/ (g[s] = f[s] + 1 /\ Orch!Quantity >= 1)
      BY <2>1, DeductionMoves DEF Orch!Deducted
    <2>6. f[s] \in Int /\ g[s] \in Int
      BY <2>2, <2>3
    <2> HIDE DEF f, g
    <2>7. SumFunction(g) = SumFunction(f) + (g[s] - f[s])
      BY <2>2, <2>3, <2>4, TotalChange
    <2> QED
      BY <2>2, <2>3, <2>5, <2>6, <2>7 DEF SagaStockInv
  <1> QED
    BY <1>1, <1>2

\* A saga that has all its effects has taken one unit.
LEMMA SagaStockSuffices ==
  ASSUME Orch!SagaAssumptions, Orch!SagaInv, SagaStockInv
  PROVE  Orch!NeverOversold
  <1> DEFINE Whole == {s \in Sagas : \A i \in Orch!Steps : effect[s][i] = 1}
             Ones == {s \in Sagas : Orch!Deducted[s] = 1}
  <1>1. /\ IsFiniteSet(Sagas) /\ Stock \in Nat /\ 1 \in Orch!Steps
        /\ Orch!Deducted \in [Sagas -> Int] /\ SumFunction(Orch!Deducted) \in Int
        /\ Orch!Quantity = Stock - SumFunction(Orch!Deducted)
    BY DeductedType DEF DeductedTyped, Orch!SagaInv
  <1>2. ASSUME \A s \in Sagas : \A i \in Orch!Steps : effect[s][i] >= 0
        PROVE  Cardinality(Whole) <= Stock
    <2>1. Orch!Deducted \in [Sagas -> Nat]
      BY <1>1, <1>2 DEF Orch!Deducted
    <2>2. Cardinality(Ones) <= SumFunction(Orch!Deducted)
      BY <1>1, <2>1, TotalCounts
    <2>3. Whole \in SUBSET Ones /\ Ones \in SUBSET Sagas
      BY <1>1 DEF Orch!Deducted
    <2> HIDE DEF Whole, Ones
    <2>4. IsFiniteSet(Ones) /\ Cardinality(Whole) <= Cardinality(Ones)
      BY <1>1, <2>3, FS_Subset
    <2>5. Cardinality(Whole) \in Nat /\ Cardinality(Ones) \in Nat
      BY <2>3, <2>4, FS_Subset, FS_CardinalityType
    <2> QED
      BY <1>1, <2>2, <2>4, <2>5 DEF SagaStockInv
  <1>3. \A T : Orch!Cardinality(T) = Cardinality(T)
    BY DEF Orch!Cardinality, Cardinality
  <1> QED
    BY <1>2, <1>3 DEF SagaStockInv, Orch!NeverOversold
-----------------------------------------------------------------------------
(***************************************************************************)
(* The idempotent step.  The row lock is what makes the stock and the keys *)
(* agree: one delivery at a time is between the UPDATE and the end of its  *)
(* transaction, so what it read of either table still stands at the COMMIT.*)
(***************************************************************************)
LEMMA StepCardinality ==
    /\ \A T : Step!Cardinality(T) = Cardinality(T)
    /\ \A T : Step!IsFiniteSet(T) <=> IsFiniteSet(T)
  BY DEF Step!Cardinality, Cardinality, Step!IsFiniteSet, IsFiniteSet

LEMMA StepInvInit ==
    ASSUME Step!StepAssumptions, Step!Init
    PROVE  Step!StepInv
  <1>1. Step!Recorded = {}
    BY DEF Step!Init, Step!Recorded
  <1>2. quantity = StepStock - Step!Cardinality(Step!Recorded)
    BY <1>1, StepCardinality, FS_EmptySet DEF Step!Init, Step!StepAssumptions
  <1> QED
    BY <1>2
    DEF Step!Init, Step!StepInv, Step!StepAssumptions, Step!Shape, Step!OneHoldsTheRow,
        Step!Knows, Step!Locking, Step!RecordedIsOver

LEMMA QuietStep ==
    ASSUME Step!StepAssumptions, Step!StepInv, NEW d \in Deliveries, Step!Quiet(d)
    PROVE  Step!StepInv'
  <1> USE DEF Step!StepInv, Step!StepAssumptions
  <1>1. /\ quantity' = quantity /\ stepCompleted' = stepCompleted
        /\ stepPc' \in [Deliveries -> {"idle", "check", "update", "insert", "commit",
                                   "return", "done", "lost"}]
        /\ \A e \in Deliveries \ {d} :
              stepPc'[e] = stepPc[e] /\ key'[e] = key[e] /\ answer'[e] = answer[e]
        /\ Step!Locking(d)' => Step!Locking(d) \/ ~Step!RowLocked
        /\ stepPc[d] \in {"return", "done", "lost"} => stepPc'[d] \in {"return", "done", "lost"}
    BY
    DEF Step!Quiet, Step!Deliver, Step!Check, Step!Update, Step!Insert, Step!Applied,
        Step!Fails, Step!Crash, Step!Goto, Step!Return, Step!Shape, Step!Locking
  <1>2. Step!Shape'
    BY <1>1
    DEF Step!Quiet, Step!Deliver, Step!Check, Step!Update, Step!Insert, Step!Applied,
        Step!Fails, Step!Crash, Step!Goto, Step!Return, Step!Shape
  <1>3. Step!OneHoldsTheRow'
    <2>1. \A e \in Deliveries \ {d} : Step!Locking(e)' <=> Step!Locking(e)
      BY <1>1 DEF Step!Locking
    <2>2. ~Step!RowLocked => \A e \in Deliveries : ~Step!Locking(e)
      BY DEF Step!RowLocked, Step!Locking
    <2> QED
      BY <1>1, <2>1, <2>2 DEF Step!OneHoldsTheRow
  <1>4. Step!Knows(d)'
    BY <1>1
    DEF Step!Quiet, Step!Deliver, Step!Check, Step!Update, Step!Insert, Step!Applied,
        Step!Fails, Step!Crash, Step!Goto, Step!Return, Step!Shape, Step!Knows,
        Step!Locking
  <1>5. \A e \in Deliveries \ {d} : Step!Knows(e)'
    BY <1>1 DEF Step!Knows, Step!Locking
  <1>6. Step!RecordedIsOver'
    BY <1>1 DEF Step!RecordedIsOver, Step!Shape
  <1>7. quantity' = StepStock - Step!Cardinality(Step!Recorded')
    BY <1>1 DEF Step!Recorded
  <1> QED
    BY <1>2, <1>3, <1>4, <1>5, <1>6, <1>7

LEMMA CommitStep ==
    ASSUME Step!StepAssumptions, Step!StepInv, NEW d \in Deliveries, Step!Commit(d)
    PROVE  Step!StepInv'
  <1> USE DEF Step!StepInv, Step!StepAssumptions
  <1>1. /\ key[d] \in Keys /\ quantity >= 1 /\ stepCompleted[key[d]] = None
        /\ \A e \in Deliveries \ {d} : ~Step!Locking(e)
    BY DEF Step!Commit, Step!Knows, Step!Locking, Step!OneHoldsTheRow
  <1>2. /\ quantity' = quantity - 1
        /\ stepCompleted' = [stepCompleted EXCEPT ![key[d]] = d]
        /\ stepPc' = [stepPc EXCEPT ![d] = "return"]
        /\ key' = key /\ answer' = answer /\ stepPc[d] = "commit"
    BY DEF Step!Commit, Step!Goto
  <1>3. Step!Shape'
    BY <1>1, <1>2 DEF Step!Shape
  <1>4. Step!OneHoldsTheRow' /\ \A e \in Deliveries : ~Step!Locking(e)'
    BY <1>1, <1>2 DEF Step!OneHoldsTheRow, Step!Locking, Step!Shape
  <1>5. \A k \in Keys : stepCompleted[k] # None => stepCompleted'[k] = stepCompleted[k]
    BY <1>1, <1>2 DEF Step!Shape
  <1>6. ASSUME NEW e \in Deliveries
        PROVE  Step!Knows(e)'
    <2>1. Step!Knows(e) /\ Step!Knows(d) /\ ~Step!Locking(e)'
      BY <1>4
    <2>2. CASE e = d
      BY <1>1, <1>2, <2>1, <2>2 DEF Step!Knows, Step!Shape
    <2>3. CASE e # d
      <3>1. stepPc'[e] = stepPc[e] /\ key'[e] = key[e] /\ answer'[e] = answer[e]
        BY <1>2, <2>3 DEF Step!Shape
      <3>2. key[e] \in Keys /\ stepCompleted[key[e]] # None => stepCompleted'[key[e]] = stepCompleted[key[e]]
        BY <1>5
      <3>3. stepPc[e] # "commit" /\ e # None
        BY <2>1, <3>1 DEF Step!Locking
      <3> QED
        BY <2>1, <3>1, <3>2, <3>3 DEF Step!Knows
    <2> QED
      BY <2>2, <2>3
  <1>7. Step!RecordedIsOver'
    BY <1>1, <1>2 DEF Step!RecordedIsOver, Step!Shape
  <1>8. quantity' = StepStock - Step!Cardinality(Step!Recorded')
    <2>1. Step!Recorded' = Step!Recorded \cup {key[d]} /\ key[d] \notin Step!Recorded
      BY <1>1, <1>2 DEF Step!Recorded, Step!Shape
    <2>2. IsFiniteSet(Step!Recorded)
      <3>1. Step!Recorded \subseteq Keys
        BY DEF Step!Recorded
      <3> QED
        BY <3>1, StepCardinality, FS_Subset
    <2>3. /\ Cardinality(Step!Recorded') = Cardinality(Step!Recorded) + 1
          /\ Cardinality(Step!Recorded) \in Nat
      BY <2>1, <2>2, FS_AddElement, FS_CardinalityType
    <2> QED
      BY <1>2, <2>3, StepCardinality
  <1> QED
    BY <1>3, <1>4, <1>6, <1>7, <1>8

LEMMA StepInvStep ==
    ASSUME Step!StepAssumptions, Step!StepInv, [Step!Next]_(Step!vars)
    PROVE  Step!StepInv'
  <1>1. ASSUME NEW d \in Deliveries, Step!Quiet(d)
        PROVE  Step!StepInv'
    BY <1>1, QuietStep
  <1>2. ASSUME NEW d \in Deliveries, Step!Commit(d)
        PROVE  Step!StepInv'
    BY <1>2, CommitStep
  <1>3. CASE UNCHANGED Step!vars
    BY <1>3
    DEF Step!vars, Step!StepInv, Step!Shape, Step!OneHoldsTheRow, Step!Knows, Step!Locking,
        Step!RecordedIsOver, Step!Recorded
  <1> QED
    BY <1>1, <1>2, <1>3 DEF Step!Next, Step!Quiet

\* The deliveries recorded account for the stock, so it stays within its type.
LEMMA StepInvTyped ==
    ASSUME Step!StepAssumptions, Step!StepInv
    PROVE  Step!TypeOK
  <1>1. Step!Recorded \in SUBSET Keys
    BY DEF Step!Recorded
  <1>2. Step!Cardinality(Step!Recorded) \in Nat
    BY <1>1, StepCardinality, FS_Subset, FS_CardinalityType DEF Step!StepAssumptions
  <1> QED
    BY <1>2 DEF Step!StepInv, Step!StepAssumptions, Step!Shape, Step!TypeOK

\* A COMMIT executes its key and tells nobody yet.
LEMMA CommitExecutes ==
    ASSUME Step!StepAssumptions, Step!StepInv, NEW d \in Deliveries, Step!Commit(d)
    PROVE  key[d] \in Keys /\ Step!Contract!Execute(key[d], d)
  <1>1. key[d] \in Keys /\ stepCompleted[key[d]] = None /\ stepPc[d] = "commit"
    BY DEF Step!StepInv, Step!Knows, Step!Commit
  <1>2. \A j \in Keys : stepCompleted[j] # d
    BY <1>1 DEF Step!StepInv, Step!RecordedIsOver, Step!StepAssumptions
  <1>3. stepCompleted' = [stepCompleted EXCEPT ![key[d]] = d] /\ key' = key /\ answer' = answer
    BY DEF Step!Commit
  <1>4. Step!Told' = Step!Told
    BY <1>3 DEF Step!Told
  <1>5. ASSUME NEW e \in Step!Told
        PROVE  Step!EffectOf(e)' = Step!EffectOf(e)
    <2>1. e \in Deliveries /\ Step!Knows(e) /\ answer[e] \in {"SKIPPED", "APPLIED"}
      BY DEF Step!StepInv, Step!Told
    <2>2. key[e] \in Keys /\ stepCompleted[key[e]] # None
      BY <2>1 DEF Step!Knows, Step!StepAssumptions
    <2>3. stepCompleted'[key[e]] = stepCompleted[key[e]]
      BY <1>1, <1>3, <2>2 DEF Step!StepInv, Step!Shape
    <2> QED
      BY <1>3, <2>3 DEF Step!EffectOf
  <1>6. Step!ToldPairs' = Step!ToldPairs
    BY <1>3, <1>4, <1>5 DEF Step!ToldPairs
  <1> QED
    BY <1>1, <1>2, <1>3, <1>6 DEF Step!Contract!Execute

\* Every other step answers for the effect of its key, or tells nobody anything.
LEMMA QuietAnswers ==
    ASSUME Step!StepAssumptions, Step!StepInv, Step!StepInv', NEW d \in Deliveries, Step!Quiet(d)
    PROVE  \/ UNCHANGED <<stepCompleted, Step!ToldPairs>>
           \/ key[d] \in Keys /\ Step!Contract!Answer(key[d])
  <1>1. /\ stepCompleted' = stepCompleted
        /\ \A e \in Deliveries \ {d} : key'[e] = key[e] /\ answer'[e] = answer[e]
        /\ stepPc[d] # "idle" => key'[d] = key[d]
        /\ answer'[d] # answer[d] => answer[d] = None /\ stepPc[d] # "idle"
    BY
    DEF Step!Quiet, Step!Deliver, Step!Check, Step!Update, Step!Insert, Step!Applied,
        Step!Fails, Step!Crash, Step!Goto, Step!Return, Step!StepInv, Step!Shape,
        Step!Knows
  <1>2. Step!Knows(d) /\ Step!Knows(d)'
    BY DEF Step!StepInv
  <1>3. Step!Told' \ {d} = Step!Told \ {d}
    BY <1>1 DEF Step!Told
  <1>4. \A e \in Step!Told \ {d} : <<key[e], Step!EffectOf(e)>>' = <<key[e], Step!EffectOf(e)>>
    BY <1>1 DEF Step!Told, Step!EffectOf
  <1>5. CASE answer'[d] = answer[d]
    <2>1. Step!Told' = Step!Told
      BY <1>1, <1>5 DEF Step!Told
    <2>2. d \in Step!Told => <<key[d], Step!EffectOf(d)>>' = <<key[d], Step!EffectOf(d)>>
      BY <1>1, <1>2, <1>5 DEF Step!Told, Step!EffectOf, Step!Knows, Step!StepAssumptions
    <2>3. Step!ToldPairs' = Step!ToldPairs
      BY <1>4, <2>1, <2>2 DEF Step!ToldPairs
    <2> QED
      BY <1>1, <2>3
  <1>6. CASE answer'[d] # answer[d] /\ answer'[d] \notin {"SKIPPED", "APPLIED"}
    <2>1. d \notin Step!Told /\ d \notin Step!Told'
      BY <1>1, <1>6 DEF Step!Told, Step!StepAssumptions
    <2>2. Step!ToldPairs' = Step!ToldPairs
      BY <1>3, <1>4, <2>1 DEF Step!ToldPairs
    <2> QED
      BY <1>1, <2>2
  <1>7. CASE answer'[d] # answer[d] /\ answer'[d] \in {"SKIPPED", "APPLIED"}
    <2>1. d \notin Step!Told /\ d \in Step!Told' /\ key'[d] = key[d] /\ key[d] \in Keys
      BY <1>1, <1>2, <1>7 DEF Step!Told, Step!Knows, Step!StepAssumptions
    <2>2. stepCompleted[key[d]] # None /\ Step!EffectOf(d)' = stepCompleted[key[d]]
      BY <1>1, <1>2, <1>7, <2>1 DEF Step!Knows, Step!EffectOf, Step!StepAssumptions
    <2>3. Step!ToldPairs' = Step!ToldPairs \cup {<<key[d], stepCompleted[key[d]]>>}
      <3>1. Step!Told' = Step!Told \cup {d}
        BY <1>3, <2>1
      <3> QED
        BY <1>4, <2>1, <2>2, <3>1 DEF Step!ToldPairs
    <2> QED
      BY <1>1, <2>1, <2>2, <2>3 DEF Step!Contract!Answer
  <1> QED
    BY <1>5, <1>6, <1>7

\* However often a message is delivered, and wherever its consumer dies, the stock is
\* short of what the recorded keys account for and no more, and whoever is told that the
\* key is done is told the truth (idempotent_deduct).
THEOREM StepKeepsStock ==
    Step!StepAssumptions /\ Step!Spec => [](Step!StockMatchesKeys /\ Step!SkippedIsDone)
  <1>1. Step!StepAssumptions /\ Step!Init => Step!StepInv
    BY StepInvInit
  <1>2. Step!StepAssumptions /\ Step!StepInv /\ [Step!Next]_(Step!vars) => Step!StepInv'
    BY StepInvStep
  <1>3. Step!StepAssumptions /\ Step!StepInv => Step!StockMatchesKeys /\ Step!SkippedIsDone
    BY
    DEF Step!StepInv, Step!StockMatchesKeys, Step!Recorded, Step!SkippedIsDone, Step!Knows,
        Step!StepAssumptions
  <1>4. Step!StepAssumptions => Step!StepAssumptions'
    BY DEF Step!StepAssumptions
  <1> QED
    BY <1>1, <1>2, <1>3, <1>4, PTL DEF Step!Spec

\* The step implements OncePerKey: a redelivered message has the effect of one delivery,
\* and every delivery that succeeds answers for that effect (idempotent_deduct).
THEOREM StepRefinement == Step!StepAssumptions /\ Step!Spec => Step!ImplementsOncePerKey
  <1>1. Step!StepAssumptions /\ Step!Init => Step!StepInv /\ Step!Contract!Init
    <2>1. ASSUME Step!StepAssumptions, Step!Init
          PROVE  Step!Contract!Init
      BY <2>1
      DEF Step!Init, Step!Contract!Init, Step!ToldPairs, Step!Told, Step!StepAssumptions
    <2> QED
      BY <2>1, StepInvInit
  <1>2. Step!StepAssumptions /\ Step!StepInv /\ [Step!Next]_(Step!vars) => Step!StepInv'
    BY StepInvStep
  <1>3. Step!StepAssumptions /\ Step!StepInv /\ Step!StepInv' /\ [Step!Next]_(Step!vars)
           => [Step!Contract!Next]_<<stepCompleted, Step!ToldPairs>>
    <2>1. CASE UNCHANGED Step!vars
      BY <2>1 DEF Step!vars, Step!ToldPairs, Step!Told, Step!EffectOf
    <2> QED
      BY <2>1, CommitExecutes, QuietAnswers DEF Step!Next, Step!Quiet, Step!Contract!Next
  <1>4. Step!StepAssumptions => Step!StepAssumptions'
    BY DEF Step!StepAssumptions
  <1> QED
    BY <1>1, <1>2, <1>3, <1>4, PTL
    DEF Step!Spec, Step!ImplementsOncePerKey, Step!Contract!Spec, Step!Contract!vars
-----------------------------------------------------------------------------
(***************************************************************************)
(* The three together.  A program that does not run stays in its initial   *)
(* state, so each inductive invariant holds whichever `lab' is.            *)
(***************************************************************************)
EachInv == Inv /\ StockInv /\ Orch!SagaInv /\ SagaStockInv /\ Step!StepInv

LEMMA EachInvInit == MCInit => EachInv
  BY MCAssumption, InitInv, StockInvInit, InitSagaInv, SagaStockInit, StepInvInit
  DEF MCInit, EachInv

LEMMA EachInvStep == EachInv /\ [MCNext]_<<lab, vars, sagaVars, stepVars>> => EachInv'
  <1> SUFFICES ASSUME EachInv, [MCNext]_<<lab, vars, sagaVars, stepVars>>
               PROVE  EachInv'
    OBVIOUS
  <1>1. [Next]_vars /\ [Orch!Next]_sagaVars /\ [Step!Next]_stepVars
    BY DEF MCNext
  <1>2. Inv' /\ StockInv'
    BY <1>1, NextInv, StockInvStep DEF EachInv
  <1>3. Orch!SagaInv'
    BY <1>1, MCAssumption, SagaInvStep DEF EachInv
  <1>4. SagaStockInv'
    BY <1>1, <1>3, MCAssumption, SagaStockStep DEF EachInv
  <1>5. Step!StepInv'
    BY <1>1, MCAssumption, StepInvStep DEF EachInv, Step!vars, stepVars
  <1> QED
    BY <1>2, <1>3, <1>4, <1>5 DEF EachInv

\* Every variable of the coordinator, of the orchestrator and of the idempotent step keeps
\* its type, whatever fails and whatever is delivered again (02/02).
THEOREM TransactionsTyped == MCFairSpec => []EachTypeOK
  <1>1. EachInv => EachTypeOK
    BY MCAssumption, StepInvTyped DEF EachInv, Inv, Orch!SagaInv, EachTypeOK
  <1> QED
    BY <1>1, EachInvInit, EachInvStep, PTL DEF MCFairSpec

\* A saga that is over has all its effects or none, and while it runs they are a prefix of
\* its steps, but for the steps reported as stuck and those whose success was not heard of,
\* however many sagas interleave and fail (SagaOrchestrator.execute_step, compensate).
THEOREM SagasStayAtomic == MCFairSpec => []SagasAreAtomic
  <1>1. EachInv => SagasAreAtomic
    BY MCAssumption, SagaInvIsAtomic DEF EachInv, SagasAreAtomic
  <1> QED
    BY <1>1, EachInvInit, EachInvStep, PTL DEF MCFairSpec

\* Stock is never sold twice: not by coordinators that interleave and die, not by sagas
\* that compensate, time out and recover, and not by a step that is delivered again, which
\* implements OncePerKey (02/02, phases 1 to 5).
THEOREM StockStaysKept == MCFairSpec => StockIsKept
  <1>1. EachInv => NeverOversold /\ (lab = "saga" => Orch!NeverOversold)
    BY MCAssumption, SagaStockSuffices DEF EachInv, StockInv, NeverOversold
  <1>2. MCFairSpec => Step!Spec
    <2>1. MCInit => Step!Init
      BY DEF MCInit
    <2>2. [MCNext]_<<lab, vars, sagaVars, stepVars>> => [Step!Next]_stepVars
      BY DEF MCNext
    <2> QED
      BY <2>1, <2>2, PTL DEF MCFairSpec, Step!Spec, Step!vars, stepVars
  <1>3. Step!StepAssumptions /\ Step!Spec
          => [](Step!StockMatchesKeys /\ Step!SkippedIsDone) /\ Step!ImplementsOncePerKey
    BY StepKeepsStock, StepRefinement, PTL
  <1> QED
    BY <1>1, <1>2, <1>3, MCAssumption, EachInvInit, EachInvStep, PTL
    DEF MCFairSpec, StockIsKept
=============================================================================
