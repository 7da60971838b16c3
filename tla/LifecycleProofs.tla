-------------------------- MODULE LifecycleProofs ---------------------------
(***************************************************************************)
(* The coordinator implements JobLifecycle, for every configuration and    *)
(* with crashes: every step is a lifecycle step or leaves it unchanged.    *)
(***************************************************************************)
EXTENDS RuntimeProofs

\* The refinement mapping of a receipt, and a step as the lifecycle sees it.
Phase == [j \in Jobs |-> PhaseOf(state[j])]
LifecycleStep == [Lifecycle!Next]_(Lifecycle!lifecycleVars)

USE DEF storeVars, receiptVars, attemptVars, clockVars, slotVars, loopVars, observers

-----------------------------------------------------------------------------
\* The phases of the receipt states.
LEMMA Phases ==
    /\ PhaseOf("ABSENT") = "new" /\ PhaseOf("SUCCEEDED") = "ready"
    /\ PhaseOf("CONSUMED") = "claimed"
    /\ \A st \in Live : PhaseOf(st) = "pending"
    /\ \A st \in Dead : PhaseOf(st) = "dead"
BY DEF PhaseOf, Live, Dead

\* Writing one receipt moves one job.
LEMMA ReceiptMoves ==
    ASSUME TypeOK, NEW j \in Jobs, NEW new, SetState(j, new)
    PROVE  Phase' = [Phase EXCEPT ![j] = PhaseOf(new)] /\ Phase[j] = PhaseOf(state[j])
BY DEF Phase, SetState, TypeOK, StoreTypeOK

\* A step that keeps receipts, claims and sends is a stuttering step.
LEMMA Stutters == ASSUME UNCHANGED <<state, consumedBy, sends>> PROVE LifecycleStep
BY DEF LifecycleStep, Lifecycle!lifecycleVars

\* A receipt written without changing its phase is a stuttering step.
LEMMA KeepsPhase ==
    ASSUME TypeOK, NEW j \in Jobs, NEW new, SetState(j, new), PhaseOf(new) = PhaseOf(state[j]),
           UNCHANGED <<consumedBy, sends>>
    PROVE  LifecycleStep
<1>1. Phase' = Phase
  BY ReceiptMoves DEF Phase
<1>. QED BY <1>1 DEF LifecycleStep, Lifecycle!lifecycleVars, Phase

\* A live, ready or dead job whose receipt becomes a dead one is killed, or stays dead.
LEMMA Dies ==
    ASSUME TypeOK, NEW j \in Jobs, NEW new \in Dead, SetState(j, new),
           state[j] \in Live \cup {"SUCCEEDED"} \cup Dead, UNCHANGED <<consumedBy, sends>>
    PROVE  LifecycleStep
<1>1. CASE state[j] \in Dead
  BY <1>1, KeepsPhase, Phases
<1>2. CASE state[j] \in Live \cup {"SUCCEEDED"}
  <2>1. Lifecycle!Kill(j)
    BY <1>2, ReceiptMoves, Phases DEF Lifecycle!Kill, Lifecycle!Move, Phase
  <2>. QED BY <2>1 DEF LifecycleStep, Lifecycle!Next
<1>. QED BY <1>1, <1>2

\* A live job that gets the result of an inference that ran on the same evidence.
LEMMA Finishes ==
    ASSUME TypeOK, NEW j \in Jobs, NEW k \in Jobs, SetState(j, "SUCCEEDED"), state[j] \in Live,
           sends[k] = 1, SameContent(j, k), UNCHANGED <<consumedBy, sends>>
    PROVE  LifecycleStep
<1>1. Lifecycle!Finish(j)
  BY ReceiptMoves, Phases DEF Lifecycle!Finish, Lifecycle!Move, Phase
<1>. QED BY <1>1 DEF LifecycleStep, Lifecycle!Next

-----------------------------------------------------------------------------
\* Client calls, tasks and the wire.
LEMMA CallStep ==
    ASSUME IndInv, NEW j \in Jobs, ClientCall(j) \/ TaskRuns(j) \/ Send(j) \/ RemoteFinish(j)
    PROVE  LifecycleStep
<1> USE DEF IndInv
<1>1. CASE Submit(j)
  <2>1. state[j] = "ABSENT" /\ UNCHANGED <<consumedBy, sends>>
    BY <1>1 DEF Submit
  <2>2. CASE SetState(j, "QUEUED")
    <3>1. Lifecycle!Admit(j)
      BY <2>1, <2>2, ReceiptMoves, Phases DEF Lifecycle!Admit, Lifecycle!Move, Phase, Live
    <3>. QED BY <3>1 DEF LifecycleStep, Lifecycle!Next
  <2>3. CASE SetState(j, "REJECTED")
    <3>1. Lifecycle!Refuse(j)
      BY <2>1, <2>3, ReceiptMoves, Phases DEF Lifecycle!Refuse, Lifecycle!Move, Phase, Dead
    <3>. QED BY <3>1 DEF LifecycleStep, Lifecycle!Next
  <2>. QED BY <1>1, <2>2, <2>3 DEF Submit
<1>2. CASE Cancel(j)
  BY <1>2, Dies DEF Cancel, ReceiptStep, Dead
<1>3. ASSUME NEW c \in Consumers, Consume(j, c) PROVE LifecycleStep
  <2>1. state[j] = "SUCCEEDED"
    BY <1>3 DEF Consume, ClaimInv, Done
  <2>2. Lifecycle!Claim(j, c)
    BY <1>3, <2>1, ReceiptMoves, Phases DEF Consume, Lifecycle!Claim, Lifecycle!Move, Phase
  <2>. QED BY <2>2 DEF LifecycleStep, Lifecycle!Next
<1>4. CASE TaskRuns(j)
  BY <1>4, Stutters DEF TaskRuns, StartFenced, StartInfer, TaskStep, Succeed, FailNotSent,
     FailKnown, FailUnknown, SettleThen
<1>5. CASE Send(j)
  <2>1. sends[j] = 0 /\ state[j] \in Live \cup Dead
    BY <1>5 DEF Send, SendInv, LedgerInv, Live
  <2>2. Lifecycle!Run(j)
    BY <1>5, <2>1, Phases DEF Send, TaskStep, Lifecycle!Run, TypeOK, Phase
  <2>. QED BY <2>2 DEF LifecycleStep, Lifecycle!Next
<1>6. CASE RemoteFinish(j)
  BY <1>6, Stutters DEF RemoteFinish
<1>. QED BY <1>1, <1>2, <1>3, <1>4, <1>5, <1>6 DEF ClientCall

\* Loops over receipts.
LEMMA LoopStep ==
    ASSUME IndInv, NEW j \in Jobs,
           \/ Supersede(j) \/ Expire(j) \/ RejectDependent(j) \/ Dispatch(j)
           \/ ShutdownCancel(j) \/ RecoverReceipt(j) \/ RecoverAttempt(j)
    PROVE  LifecycleStep
<1> USE DEF IndInv
<1>1. CASE Supersede(j) \/ RejectDependent(j) \/ ShutdownCancel(j)
  BY <1>1, Dies DEF Supersede, RejectDependent, ShutdownCancel, ReceiptStep, LoopInv, Live, Dead
<1>2. CASE Expire(j) \/ DispatchFenced(j)
  <2>1. state[j] \in Live /\ UNCHANGED <<consumedBy, sends>>
    BY <1>2 DEF Expire, DispatchFenced, FirstInRank, ReceiptStep, LoopInv, Live
  <2>2. PICK new \in Dead : SetState(j, new)
    BY <1>2, FenceStateDead DEF Expire, DispatchFenced, Dead
  <2>. QED BY <2>1, <2>2, Dies
<1>3. CASE DispatchFromCache(j)
  <2>1. PICK k \in CacheHits(j) : TRUE
    BY <1>3 DEF DispatchFromCache
  <2>2. k \in Jobs /\ sends[k] = 1 /\ SameContent(j, k)
    BY <2>1 DEF CacheHits, SendInv, TypeOK
  <2>. QED BY <1>3, <2>2, Finishes DEF DispatchFromCache, FirstInRank, LoopInv, Live
<1>4. CASE DispatchOverCeiling(j)
  BY <1>4, Dies DEF DispatchOverCeiling, FirstInRank, ReceiptStep, LoopInv, Live, Dead
<1>5. CASE DispatchSkipped(j) \/ DispatchReserve(j) \/ RecoverAttempt(j)
  BY <1>5, Stutters DEF DispatchSkipped, DispatchReserve, RecoverAttempt, RecoveryStep
<1>6. CASE RecoverReceipt(j)
  <2>1. state[j] \in Live /\ UNCHANGED <<consumedBy, sends>>
    BY <1>6 DEF RecoverReceipt, RecoveryStep, LoopInv, ControlInv, RecoverPc
  <2>2. PICK new \in Dead : SetState(j, new)
    BY <1>6 DEF RecoverReceipt, Dead
  <2>. QED BY <2>1, <2>2, Dies
<1>. QED BY <1>1, <1>2, <1>3, <1>4, <1>5, <1>6 DEF Dispatch

\* Steps on the job a handler is working on.
LEMMA CurrentStep ==
    ASSUME IndInv, MarkRunning \/ NotSent \/ Complete \/ FailReceipt PROVE LifecycleStep
<1> USE DEF IndInv
<1>1. cur \in Jobs
  BY AttemptPlace DEF MarkRunning, NotSent, Complete, FailReceipt, ControlInv, CurPc
<1>2. CASE MarkRunning
  BY <1>1, <1>2, KeepsPhase, Phases DEF MarkRunning, ControlInv, Live
<1>3. ASSUME NotSent \/ Complete \/ FailReceipt
      PROVE  state[cur] \in {"RUNNING"} \cup Dead /\ UNCHANGED <<consumedBy, sends>>
  BY <1>1, <1>3 DEF NotSent, Complete, FailReceipt, ControlInv, LedgerInv, AfterSettle
<1>4. CASE NotSent
  <2>1. PICK new \in Dead : SetState(cur, new)
    BY <1>4, FenceStateDead DEF NotSent, Dead
  <2>. QED BY <1>1, <1>3, <1>4, <2>1, Dies DEF Live
<1>5. CASE Complete
  <2>1. CASE state[cur] # "RUNNING"
    BY <1>1, <1>3, <1>5, <2>1, KeepsPhase DEF Complete
  <2>2. CASE state[cur] = "RUNNING" /\ Reason(cur) # "none"
    <3>1. PICK new \in Dead : SetState(cur, new)
      BY <1>5, <2>2, FenceStateDead DEF Complete, Dead
    <3>. QED BY <1>1, <1>3, <1>5, <3>1, Dies DEF Live
  <2>3. CASE state[cur] = "RUNNING" /\ Reason(cur) = "none"
    <3>1. sends[cur] = 1 /\ SameContent(cur, cur) /\ SetState(cur, "SUCCEEDED")
      BY <1>1, <1>5, <2>3 DEF Complete, SendInv, SameContent
    <3>. QED BY <1>1, <1>3, <1>5, <2>3, <3>1, Finishes DEF Live
  <2>. QED BY <2>1, <2>2, <2>3
<1>6. CASE FailReceipt
  <2>1. CASE state[cur] # "RUNNING"
    BY <1>1, <1>3, <1>6, <2>1, KeepsPhase DEF FailReceipt
  <2>2. CASE state[cur] = "RUNNING"
    <3>1. PICK new \in Dead : SetState(cur, new)
      BY <1>6, <2>2 DEF FailReceipt, Dead
    <3>. QED BY <1>1, <1>3, <1>6, <3>1, Dies DEF Live
  <2>. QED BY <2>1, <2>2
<1>. QED BY <1>2, <1>4, <1>5, <1>6

\* Every step of the coordinator and every crash is a lifecycle step or a stutter.
LEMMA NextLifecycle == ASSUME IndInv, [Next \/ Crash]_vars PROVE LifecycleStep
<1>1. CASE \E s \in Sessions : SessionCall(s)
  BY <1>1, Stutters DEF SessionCall, OpenSession, AdvanceSession, Heartbeat
<1>2. CASE HandlerStep
  <2>1. CASE \/ StartDispatch \/ QuarantineStep \/ RecoverQuarantine \/ RecoverSettle
             \/ RecoverMark \/ RecoverSessions
    BY <2>1, Stutters DEF StartDispatch, QuarantineStep, RecoverQuarantine, RecoverSettle,
       RecoverMark, RecoverSessions, RecoveryStep
  <2>. QED BY <1>2, <2>1, LoopStep, CurrentStep DEF HandlerStep
<1>3. CASE Tick \/ Close \/ CloseStore \/ Start \/ Operator \/ AdvanceClock \/ Crash
  BY <1>3, Stutters DEF Tick, Close, CloseStore, Start, Operator, Reconcile, ReleasePool,
     ExtendBudget, AdvanceClock, Crash, ProcessGone
<1>4. CASE UNCHANGED vars
  BY <1>4, Stutters DEF vars
<1>. QED BY <1>1, <1>2, <1>3, <1>4, CallStep DEF Next

\* A job is answered once, sent at most once although the process may crash and
\* restart at any point, succeeds only from an inference that ran on the same
\* evidence, and is claimed by at most one consumer.
THEOREM Refinement == Spec => ImplementsLifecycle
<1>1. Init => Lifecycle!Init
  BY Phases DEF Init, StoreInit, Lifecycle!Init
<1>. QED
  BY <1>1, NextLifecycle, Invariance, PTL DEF Spec, ImplementsLifecycle, Lifecycle!Spec,
     LifecycleStep
=============================================================================
