---------------------------- MODULE SpendProofs -----------------------------
(***************************************************************************)
(* The cumulative ceiling, for every configuration: the admission total    *)
(* of the ledger passes it only by what providers charged above quotes.    *)
(*                                                                         *)
(* The total is a sum over the attempts table, MapThenSumSet(Hold, Jobs);  *)
(* SumProofs has what such sums do when a term changes.                    *)
(***************************************************************************)
EXTENDS RuntimeProofs, SumProofs

USE DEF storeVars, receiptVars, attemptVars, clockVars, slotVars, loopVars, observers

-----------------------------------------------------------------------------
(* The ledger's sums.                                                      *)

\* There are finitely many jobs to sum over.
LEMMA JobsFinite == IsFiniteSet(Jobs)
BY JobsAssumption

Holds == [j \in Jobs |-> Hold(j)]
Overruns == [j \in Jobs |-> Overrun(j)]

\* The community fold computes these sums.
LEMMA LedgerSums ==
    /\ AdmissionTotal = SumOf(Holds, Jobs)[Jobs]
    /\ MapThenSumSet(Overrun, Jobs) = SumOf(Overruns, Jobs)[Jobs]
<1>1. ASSUME NEW s \in SUBSET Jobs, s # {} PROVE Chosen(s) \in Jobs
  BY <1>1, ChosenSmaller, JobsFinite
<1>2. AdmissionTotal = SumOf(Holds, Jobs)[Jobs]
  BY <1>1 DEF AdmissionTotal, MapThenSumSet, MapThenFoldSet, SumOf, Unfolded, Chosen, Holds
<1>3. MapThenSumSet(Overrun, Jobs) = SumOf(Overruns, Jobs)[Jobs]
  BY <1>1 DEF MapThenSumSet, MapThenFoldSet, SumOf, Unfolded, Chosen, Overruns
<1>. QED BY <1>2, <1>3

-----------------------------------------------------------------------------
(* The invariant.                                                          *)

\* A crash now would make recovery set the charge of j back to unknown.
Interrupted(j) ==
    state[j] = "RUNNING" \/ (pc \in {"recover_quarantine", "recover_settle"} /\ cur = j)

\* What the ceiling must set aside for j: its quote, until a smaller charge is final.
Committed(j) ==
    IF disposition[j] = "none" THEN 0
    ELSE IF disposition[j] = "settled" /\ ~Interrupted(j) /\ actual[j] < EpReserve[attemptEp[j]]
    THEN actual[j]
    ELSE EpReserve[attemptEp[j]]
Commitments == [j \in Jobs |-> Committed(j)]

SpendInv ==
    /\ Cardinality(Attempted) <= caps.attempts
    /\ SumOf(Commitments, Jobs)[Jobs] <= caps.microusd

\* A step that commits nothing new.
Thrifty ==
    /\ \A j \in Jobs : Commitments'[j] <= Commitments[j]
    /\ Attempted' = Attempted
    /\ caps'.attempts >= caps.attempts /\ caps'.microusd >= caps.microusd

\* A step that leaves the ledger alone and interrupts no settled attempt.
Idle ==
    /\ UNCHANGED <<attemptVars, caps>>
    /\ \A j \in Jobs : Interrupted(j)' => Interrupted(j) \/ disposition[j] # "settled"

\* Holds, overruns and commitments are numbers.
Numbers ==
    Holds \in [Jobs -> Int] /\ Overruns \in [Jobs -> Int] /\ Commitments \in [Jobs -> Int]

\* The endpoint of an attempt has a quote, so the invariant makes them numbers.
LEMMA LedgerNumbers == IndInv => Numbers
<1> SUFFICES ASSUME IndInv PROVE Numbers
  OBVIOUS
<1>1. ASSUME NEW j \in Jobs PROVE Hold(j) \in Int /\ Overrun(j) \in Int /\ Committed(j) \in Int
  <2>1. actual[j] \in Int /\ disposition[j] \in {"none", "reserved", "unknown", "settled"}
    BY DEF IndInv, TypeOK, StoreTypeOK
  <2>2. disposition[j] # "none" => EpReserve[attemptEp[j]] \in Int
    BY EndpointAssumption DEF IndInv, LedgerInv, Attempted
  <2>3. Hold(j) \in Int
    BY <2>1, <2>2 DEF Hold
  <2>. QED BY <2>1, <2>2, <2>3 DEF Overrun, Committed
<1>. QED BY <1>1 DEF Numbers, Holds, Overruns, Commitments

\* A thrifty step keeps the invariant.
LEMMA ThriftySpend == ASSUME IndInv, IndInv', SpendInv, Thrifty PROVE SpendInv'
<1>1. Commitments \in [Jobs -> Int] /\ Commitments' \in [Jobs -> Int]
  <2>1. Numbers'
    BY LedgerNumbers, PTL
  <2>. QED BY <2>1, LedgerNumbers DEF Numbers
<1> DEFINE zero == [j \in Jobs |-> 0]
<1>2. SumOf(Commitments', Jobs)[Jobs] + SumOf(zero, Jobs)[Jobs] <= SumOf(Commitments, Jobs)[Jobs] + SumOf(zero, Jobs)[Jobs]
  <2>1. zero \in [Jobs -> Int] /\ \A j \in Jobs : zero[j] = 0
    OBVIOUS
  <2> HIDE DEF zero
  <2>2. \A j \in Jobs : Commitments'[j] + zero[j] <= Commitments[j] + zero[j]
    BY <1>1, <2>1 DEF Thrifty
  <2>. QED BY <1>1, <2>1, <2>2, SumMonotone, JobsFinite
<1>3. /\ SumOf(Commitments', Jobs)[Jobs] \in Int /\ SumOf(Commitments, Jobs)[Jobs] \in Int
      /\ SumOf(zero, Jobs)[Jobs] \in Int
  <2>1. zero \in [Jobs -> Int]
    OBVIOUS
  <2>. QED BY <1>1, <2>1, SumUnfolds, JobsFinite
<1>4. caps \in BudgetCaps /\ caps' \in BudgetCaps /\ Cardinality(Attempted) \in Nat
  BY JobsAssumption, FS_Subset, FS_CardinalityType DEF IndInv, TypeOK, StoreTypeOK, Attempted
<1> HIDE DEF zero
<1>5. SumOf(Commitments', Jobs)[Jobs] <= caps'.microusd
  BY <1>2, <1>3, <1>4 DEF SpendInv, Thrifty, BudgetCaps
<1>6. Cardinality(Attempted') <= caps'.attempts
  BY <1>4 DEF SpendInv, Thrifty, BudgetCaps
<1>. QED BY <1>5, <1>6 DEF SpendInv, SumOf, Unfolded, Chosen

\* A step that leaves the ledger alone is thrifty.
LEMMA IdleSpend == ASSUME IndInv, IndInv', SpendInv, Idle PROVE SpendInv'
<1>1. ASSUME NEW j \in Jobs PROVE Commitments'[j] <= Commitments[j]
  <2>1. actual[j] \in Int /\ (disposition[j] # "none" => EpReserve[attemptEp[j]] \in Int)
    BY EndpointAssumption DEF IndInv, TypeOK, StoreTypeOK, LedgerInv, Attempted
  <2>2. Committed(j)' <= Committed(j)
    BY <2>1 DEF Idle, Committed
  <2>. QED BY <2>2 DEF Commitments
<1>2. caps.attempts \in Nat /\ caps.microusd \in Nat
  BY DEF IndInv, TypeOK, StoreTypeOK, BudgetCaps
<1>3. Thrifty
  BY <1>1, <1>2 DEF Thrifty, Idle, Attempted
<1>. QED BY <1>3, ThriftySpend

\* Settling an attempt whose quote is still committed commits nothing new.
LEMMA SettleSpend ==
    ASSUME IndInv, IndInv', SpendInv, NEW j \in Jobs, NEW cost \in Costs \cup {0, NoCost},
           Settle(j, cost), UNCHANGED <<state, caps>>,
           disposition[j] = "reserved" \/ (disposition[j] # "none" /\ Interrupted(j) /\ cost = NoCost),
           pc' \notin {"recover_quarantine", "recover_settle"}
    PROVE  SpendInv'
<1>1. ASSUME NEW k \in Jobs PROVE Commitments'[k] <= Commitments[k]
  <2>1. /\ actual[k] \in Int /\ actual'[k] \in Int
        /\ disposition[k] # "none" => EpReserve[attemptEp[k]] \in Int
    BY EndpointAssumption DEF IndInv, TypeOK, StoreTypeOK, LedgerInv, Attempted
  <2>2. Committed(k)' <= Committed(k)
    BY <2>1 DEF Settle, Committed, Interrupted, NoCost, IndInv, TypeOK, StoreTypeOK
  <2>. QED BY <2>2 DEF Commitments
<1>2. caps.attempts \in Nat /\ caps.microusd \in Nat
  BY DEF IndInv, TypeOK, StoreTypeOK, BudgetCaps
<1>3. Attempted' = Attempted
  BY DEF Settle, Attempted, NoCost, IndInv, TypeOK, StoreTypeOK
<1>4. Thrifty
  BY <1>1, <1>2, <1>3 DEF Thrifty
<1>. QED BY <1>4, ThriftySpend

\* A reservation commits its quote, which the ceiling test has found room for: no
\* settled attempt is interrupted then, so the ledger holds all that is committed.
LEMMA ReserveSpend ==
    ASSUME IndInv, IndInv', SpendInv, NEW x \in Jobs, DispatchReserve(x)
    PROVE  SpendInv'
<1>1. PICK e \in BestEndpoints(x) : Reserve(x, e)
  BY DEF DispatchReserve
<1>2. e \in Endpoints /\ EpReserve[e] \in Nat
  BY JobAssumption, EndpointAssumption DEF BestEndpoints, ChooseEndpoint, Feasible, JobBody
<1>3. /\ Holds \in [Jobs -> Int] /\ Commitments \in [Jobs -> Int] /\ Commitments' \in [Jobs -> Int]
  <2>1. Numbers'
    BY LedgerNumbers, PTL
  <2>. QED BY <2>1, LedgerNumbers DEF Numbers
<1>4. disposition[x] = "none" /\ pc = "dispatch" /\ pc' = "reserved" /\ Alive
  BY DEF DispatchReserve, FirstInRank, IndInv, LoopInv, LedgerInv, ControlInv, TypeOK, Alive,
     RecoverPc
<1>5. SumOf(Commitments, Jobs)[Jobs] <= AdmissionTotal
  <2> DEFINE zero == [j \in Jobs |-> 0]
  <2>1. zero \in [Jobs -> Int] /\ \A j \in Jobs : zero[j] = 0
    OBVIOUS
  <2> HIDE DEF zero
  <2>2. ASSUME NEW k \in Jobs PROVE Commitments[k] + zero[k] <= Holds[k] + zero[k]
    <3>1. disposition[k] = "settled" => ~Interrupted(k)
      BY <1>4 DEF Interrupted, IndInv, LedgerInv, AfterSettle
    <3>2. /\ actual[k] \in Int /\ disposition[k] \in {"none", "reserved", "unknown", "settled"}
          /\ disposition[k] # "none" => EpReserve[attemptEp[k]] \in Int
      BY EndpointAssumption DEF IndInv, TypeOK, StoreTypeOK, LedgerInv, Attempted
    <3>3. Committed(k) <= Hold(k)
      BY <3>1, <3>2 DEF Committed, Hold
    <3>. QED BY <1>3, <2>1, <3>3 DEF Commitments, Holds
  <2>3. SumOf(Commitments, Jobs)[Jobs] + SumOf(zero, Jobs)[Jobs] <= SumOf(Holds, Jobs)[Jobs] + SumOf(zero, Jobs)[Jobs]
    BY <1>3, <2>1, <2>2, SumMonotone, JobsFinite
  <2>4. /\ SumOf(Commitments, Jobs)[Jobs] \in Int /\ SumOf(zero, Jobs)[Jobs] \in Int
        /\ SumOf(Holds, Jobs)[Jobs] \in Int
    BY <1>3, <2>1, SumUnfolds, JobsFinite
  <2>. QED BY <2>3, <2>4, LedgerSums
<1>6. SumOf(Commitments', Jobs)[Jobs] = SumOf(Commitments, Jobs)[Jobs] + EpReserve[e]
  <2>1. \A k \in Jobs \ {x} : Commitments'[k] = Commitments[k]
    BY <1>1, <1>4 DEF Reserve, Commitments, Committed, Interrupted, DispatchReserve, IndInv,
       TypeOK, StoreTypeOK
  <2>2. Commitments'[x] = EpReserve[e] /\ Commitments[x] = 0
    BY <1>1, <1>4 DEF Reserve, Commitments, Committed, IndInv, TypeOK, StoreTypeOK
  <2>3. SumOf(Commitments', Jobs)[Jobs] = SumOf(Commitments, Jobs)[Jobs] + (Commitments'[x] - Commitments[x])
    BY <1>3, <2>1, SumChanges, JobsFinite
  <2>. QED BY <1>2, <2>2, <2>3
<1>7. /\ SumOf(Commitments, Jobs)[Jobs] \in Int /\ AdmissionTotal \in Int
      /\ caps.microusd \in Nat /\ caps.attempts \in Nat /\ caps' = caps
  BY <1>3, SumUnfolds, JobsFinite, LedgerSums DEF DispatchReserve, IndInv, TypeOK, StoreTypeOK, BudgetCaps
<1>8. Cardinality(Attempted') = Cardinality(Attempted) + 1 /\ Cardinality(Attempted) \in Nat
  <2>1. Attempted' = Attempted \cup {x} /\ x \notin Attempted
    BY <1>1, <1>4 DEF Reserve, Attempted, IndInv, TypeOK, StoreTypeOK
  <2>2. IsFiniteSet(Attempted)
    BY JobsAssumption, FS_Subset DEF Attempted
  <2>. QED BY <2>1, <2>2, FS_AddElement, FS_CardinalityType
<1>9. SumOf(Commitments', Jobs)[Jobs] <= caps'.microusd
  BY <1>1, <1>2, <1>5, <1>6, <1>7 DEF Reserve, WithinCeiling
<1>10. Cardinality(Attempted') <= caps'.attempts
  BY <1>1, <1>7, <1>8 DEF Reserve, WithinCeiling
<1>. QED BY <1>9, <1>10 DEF SpendInv, SumOf, Unfolded, Chosen

\* Reconciliation replaces quotes by charges; caps only grow.
LEMMA OperatorSpend == ASSUME IndInv, IndInv', SpendInv, Operator PROVE SpendInv'
<1>0. caps.attempts \in Nat /\ caps.microusd \in Nat
  BY DEF IndInv, TypeOK, StoreTypeOK, BudgetCaps
<1>1. ASSUME NEW batch \in SUBSET Jobs, Reconcile(batch) PROVE SpendInv'
  <2>1. ASSUME NEW k \in Jobs PROVE Commitments'[k] <= Commitments[k]
    <3>1. /\ actual[k] \in Int /\ actual'[k] \in Int
          /\ disposition[k] # "none" => EpReserve[attemptEp[k]] \in Int
      BY EndpointAssumption DEF IndInv, TypeOK, StoreTypeOK, LedgerInv, Attempted
    <3>2. /\ k \in batch => disposition[k] \notin {"none", "settled"} /\ disposition'[k] = "settled"
          /\ k \notin batch => disposition'[k] = disposition[k] /\ actual'[k] = actual[k]
      BY <1>1 DEF Reconcile, Attempted
    <3>3. Committed(k)' <= Committed(k)
      BY <1>1, <3>1, <3>2 DEF Reconcile, Committed, Interrupted, Operator
    <3>. QED BY <3>3 DEF Commitments
  <2>2. Attempted' = Attempted
    BY <1>1 DEF Reconcile, Attempted
  <2>3. Thrifty
    BY <1>0, <1>1, <2>1, <2>2 DEF Thrifty, Reconcile
  <2>. QED BY <2>3, ThriftySpend
<1>2. ASSUME NEW p \in Pools, ReleasePool(p) PROVE SpendInv'
  BY <1>2, IdleSpend DEF ReleasePool, Operator, Idle, Interrupted
<1>3. ASSUME NEW new \in Extensions, ExtendBudget(new) PROVE SpendInv'
  <2>1. ASSUME NEW k \in Jobs PROVE Commitments'[k] <= Commitments[k]
    <3>1. Commitments \in [Jobs -> Int]
      BY LedgerNumbers DEF Numbers
    <3>2. Commitments' = Commitments
      BY <1>3 DEF ExtendBudget, Operator, Commitments, Committed, Interrupted
    <3>. QED BY <3>1, <3>2
  <2>2. Thrifty
    BY <1>3, <2>1 DEF Thrifty, ExtendBudget, Attempted
  <2>. QED BY <2>2, ThriftySpend
<1>. QED BY <1>1, <1>2, <1>3 DEF Operator

\* Every step keeps the commitments within the ceiling.
LEMMA NextSpendInv == ASSUME IndInv, IndInv', SpendInv, [Next \/ Crash]_vars PROVE SpendInv'
<1> USE DEF Goto, EnterLoop, NextInLoop, SetState, Interrupted, Idle
<1>1. CASE \E s \in Sessions : SessionCall(s)
  BY <1>1, IdleSpend DEF SessionCall, OpenSession, AdvanceSession, Heartbeat
<1>2. ASSUME NEW j \in Jobs, ClientCall(j) PROVE SpendInv'
  BY <1>2, IdleSpend DEF ClientCall, Submit, Cancel, Consume, ReceiptStep, IndInv, TypeOK,
     StoreTypeOK
<1>3. ASSUME NEW j \in Jobs, StartInfer(j) \/ Send(j) \/ RemoteFinish(j) PROVE SpendInv'
  BY <1>3, IdleSpend DEF StartInfer, Send, RemoteFinish, TaskStep
<1>4. ASSUME NEW j \in Jobs,
             StartFenced(j) \/ Succeed(j) \/ FailNotSent(j) \/ FailKnown(j) \/ FailUnknown(j)
      PROVE  SpendInv'
  <2>1. /\ \E cost \in Costs \cup {0, NoCost} : Settle(j, cost)
        /\ UNCHANGED <<state, caps>>
        /\ pc' \notin {"recover_quarantine", "recover_settle"}
    BY <1>4 DEF StartFenced, Succeed, FailNotSent, FailKnown, FailUnknown, SettleThen
  <2>2. disposition[j] = "reserved"
    BY <1>4 DEF StartFenced, Succeed, FailNotSent, FailKnown, FailUnknown, SettleThen, Serving,
       IndInv, LedgerInv, Alive, AfterSettle
  <2>. QED BY <2>1, <2>2, SettleSpend
<1>5. ASSUME NEW j \in Jobs,
             \/ Supersede(j) \/ Expire(j) \/ RejectDependent(j) \/ DispatchFenced(j)
             \/ DispatchFromCache(j) \/ DispatchSkipped(j) \/ DispatchOverCeiling(j)
             \/ ShutdownCancel(j)
      PROVE  SpendInv'
  BY <1>5, IdleSpend, FenceStateDead DEF Supersede, Expire, RejectDependent, DispatchFenced,
     DispatchFromCache, DispatchSkipped, DispatchOverCeiling, FirstInRank, ShutdownCancel,
     ReceiptStep, IndInv, TypeOK, StoreTypeOK
<1>6. ASSUME NEW j \in Jobs, RecoverReceipt(j) \/ RecoverAttempt(j) PROVE SpendInv'
  BY <1>6, IdleSpend DEF RecoverReceipt, RecoverAttempt, RecoveryStep, Attempted, IndInv, TypeOK,
     StoreTypeOK
<1>7. CASE MarkRunning
  <2>1. cur \in Jobs /\ disposition[cur] = "reserved"
    BY <1>7, AttemptPlace DEF MarkRunning, IndInv, ControlInv, LedgerInv, CurPc, Alive,
       RecoverPc, TypeOK
  <2>. QED BY <1>7, <2>1, IdleSpend DEF MarkRunning, IndInv, TypeOK, StoreTypeOK
<1>8. CASE NotSent \/ Complete \/ FailReceipt \/ QuarantineStep
  BY <1>8, IdleSpend, FenceStateDead DEF NotSent, Complete, FailReceipt, QuarantineStep, IndInv,
     TypeOK, StoreTypeOK
<1>9. CASE RecoverSettle
  <2>1. cur \in Jobs /\ disposition[cur] # "none" /\ Interrupted(cur)
    BY <1>9 DEF RecoverSettle, IndInv, ControlInv, CurPc, Attempted
  <2>. QED BY <1>9, <2>1, SettleSpend DEF RecoverSettle, RecoveryStep
<1>10. CASE RecoverMark
  <2>1. ASSUME NEW k \in Jobs PROVE Commitments'[k] <= Commitments[k]
    <3>1. /\ actual[k] \in Int /\ (disposition[k] # "none" => EpReserve[attemptEp[k]] \in Int)
      BY EndpointAssumption DEF IndInv, TypeOK, StoreTypeOK, LedgerInv, Attempted
    <3>2. Committed(k)' <= Committed(k)
      BY <1>10, <3>1 DEF RecoverMark, RecoveryStep, Committed, IndInv, ControlInv, TypeOK,
         StoreTypeOK
    <3>. QED BY <3>2 DEF Commitments
  <2>2. Attempted' = Attempted /\ caps' = caps
    BY <1>10 DEF RecoverMark, RecoveryStep, Attempted, IndInv, ControlInv, TypeOK, StoreTypeOK
  <2>3. Thrifty
    BY <2>1, <2>2 DEF Thrifty, IndInv, TypeOK, StoreTypeOK, BudgetCaps
  <2>. QED BY <2>3, ThriftySpend
<1>11. CASE StartDispatch \/ RecoverQuarantine \/ RecoverSessions
  BY <1>11, IdleSpend DEF StartDispatch, RecoverQuarantine, RecoverSessions, RecoveryStep
<1>12. CASE Tick \/ Close \/ Start \/ AdvanceClock \/ ProcessGone \/ UNCHANGED vars
  BY <1>12, IdleSpend DEF Tick, Close, Start, AdvanceClock, ProcessGone, vars
<1>. QED
  BY <1>1, <1>2, <1>3, <1>4, <1>5, <1>6, <1>7, <1>8, <1>9, <1>10, <1>11, <1>12, ReserveSpend,
     OperatorSpend DEF Next, TaskRuns, HandlerStep, Dispatch, CloseStore, Crash

\* The admission total passes the cumulative ceiling only by what providers charged
\* above their quotes, and attempts never pass their cap, although a crash between
\* settlement and receipt makes recovery forget a charge that was already known.
THEOREM CeilingKept == Spec => []SpendWithinCeiling
<1>1. Init => SpendInv
  <2> SUFFICES ASSUME Init PROVE SpendInv
    OBVIOUS
  <2>1. Attempted = {} /\ caps.attempts \in Nat /\ caps.microusd \in Nat
    BY StoreAssumption DEF Init, StoreInit, Attempted
  <2>2. Commitments = [j \in Jobs |-> 0]
    BY DEF Init, StoreInit, Commitments, Committed
  <2>3. SumOf(Commitments, Jobs)[Jobs] = 0
    BY <2>2, SumZero, JobsFinite
  <2>. QED BY <2>1, <2>3, FS_EmptySet DEF SpendInv
<1>2. IndInv /\ SpendInv => SpendWithinCeiling
  <2> SUFFICES ASSUME IndInv, SpendInv PROVE SpendWithinCeiling
    OBVIOUS
  <2> DEFINE zero == [j \in Jobs |-> 0]
  <2>1. zero \in [Jobs -> Int] /\ SumOf(zero, Jobs)[Jobs] = 0 /\ \A j \in Jobs : zero[j] = 0
    BY SumZero, JobsFinite
  <2>2. Numbers
    BY LedgerNumbers
  <2> HIDE DEF zero
  <2>3. ASSUME NEW j \in Jobs PROVE Holds[j] + zero[j] <= Commitments[j] + Overruns[j]
    <3>1. /\ actual[j] \in Int /\ disposition[j] \in {"none", "reserved", "unknown", "settled"}
          /\ disposition[j] # "none" => EpReserve[attemptEp[j]] \in Int
      BY EndpointAssumption DEF IndInv, TypeOK, StoreTypeOK, LedgerInv, Attempted
    <3>2. Hold(j) <= Committed(j) + Overrun(j)
      <4>1. CASE disposition[j] = "none"
        BY <4>1 DEF Hold, Committed, Overrun
      <4>2. CASE disposition[j] = "settled"
        BY <3>1, <4>2 DEF Hold, Committed, Overrun
      <4>3. CASE disposition[j] \in {"reserved", "unknown"}
        BY <3>1, <4>3 DEF Hold, Committed, Overrun
      <4>. QED BY <3>1, <4>1, <4>2, <4>3
    <3>. QED BY <2>1, <2>2, <3>2 DEF Holds, Commitments, Overruns, Numbers
  <2>4. SumOf(Holds, Jobs)[Jobs] + SumOf(zero, Jobs)[Jobs] <= SumOf(Commitments, Jobs)[Jobs] + SumOf(Overruns, Jobs)[Jobs]
    BY <2>1, <2>2, <2>3, SumMonotone, JobsFinite DEF Numbers
  <2>5. /\ SumOf(Holds, Jobs)[Jobs] \in Int /\ SumOf(Commitments, Jobs)[Jobs] \in Int
        /\ SumOf(Overruns, Jobs)[Jobs] \in Int /\ caps.microusd \in Nat
    BY <2>2, SumUnfolds, JobsFinite DEF Numbers, IndInv, TypeOK, StoreTypeOK, BudgetCaps
  <2>. QED BY <2>1, <2>4, <2>5, LedgerSums DEF SpendInv, SpendWithinCeiling
<1>. QED BY <1>1, <1>2, NextSpendInv, Invariance, PTL DEF Spec
=============================================================================
