--------------------------- MODULE DispatchProofs ---------------------------
(***************************************************************************)
(* Dispatch and admission, for every configuration: slots are counted      *)
(* exactly and never oversubscribed, parents are computed before their     *)
(* children are sent, the queue keeps its bound, replacement discards no   *)
(* parent of another job, and without crashes charges are final and        *)
(* unconfirmed work stays quarantined.                                     *)
(***************************************************************************)
EXTENDS RuntimeProofs

USE DEF storeVars, receiptVars, attemptVars, clockVars, slotVars, loopVars, observers

-----------------------------------------------------------------------------
(* Slots.                                                                  *)

\* The jobs that hold a slot of pool p, or of endpoint e, when t is their task state
\* and ep their placement.
InPool(t, ep, p) == {j \in Jobs : t[j] # "none" /\ EpPool[ep[j]] = p}
OnEndpoint(t, ep, e) == {j \in Jobs : t[j] # "none" /\ ep[j] = e}

\* The two halves of SlotAccounting, as conditions on counters.
PoolCount(t, ep, use) ==
    \A p \in Pools : use[p] = Cardinality(InPool(t, ep, p)) /\ use[p] <= PoolSlots[p]
EndpointCount(t, ep, use) ==
    \A e \in Endpoints : use[e] = Cardinality(OnEndpoint(t, ep, e)) /\ use[e] <= EpMaxInflight[e]

\* Placement has seen a free slot, and it is still free when the slot is taken.
SlotInv ==
    /\ SlotAccounting
    /\ pc = "reserved" => /\ poolUse[PoolOf(cur)] < PoolSlots[PoolOf(cur)]
                          /\ endpointUse[attemptEp[cur]] < EpMaxInflight[attemptEp[cur]]

\* A step that neither takes nor returns a slot, and does not place a job.
Quiet == /\ UNCHANGED <<task, poolUse, endpointUse, attemptEp>>
         /\ pc' = "reserved" => pc = "reserved" /\ cur' = cur

-----------------------------------------------------------------------------
\* SlotAccounting is the conjunction of its halves, in a state and in its successor.
LEMMA Halves ==
    /\ SlotAccounting <=> /\ PoolCount(task, attemptEp, poolUse)
                          /\ EndpointCount(task, attemptEp, endpointUse)
    /\ SlotAccounting' <=> /\ PoolCount(task', attemptEp', poolUse')
                           /\ EndpointCount(task', attemptEp', endpointUse')
BY DEF SlotAccounting, PoolCount, EndpointCount, InPool, OnEndpoint, PoolOf

\* The jobs that hold a slot are finitely many.
LEMMA Holders ==
    ASSUME NEW S \in SUBSET Jobs
    PROVE  IsFiniteSet(S) /\ Cardinality(S) \in Nat
BY JobsAssumption, FS_Subset, FS_CardinalityType

\* Counters at zero are right when no job has a task.
LEMMA NoTasks ==
    ASSUME NEW t, NEW ep, \A j \in Jobs : t[j] = "none"
    PROVE  /\ PoolCount(t, ep, [p \in Pools |-> 0])
           /\ EndpointCount(t, ep, [e \in Endpoints |-> 0])
<1>1. /\ \A p \in Pools : InPool(t, ep, p) = {}
      /\ \A e \in Endpoints : OnEndpoint(t, ep, e) = {}
  BY DEF InPool, OnEndpoint
<1>2. (\A p \in Pools : 0 <= PoolSlots[p]) /\ (\A e \in Endpoints : 0 <= EpMaxInflight[e])
  BY EndpointAssumption
<1>. QED BY <1>1, <1>2, FS_EmptySet DEF PoolCount, EndpointCount

\* The counts stay right while no job starts or ends and no running job moves.
LEMMA SameTasks ==
    ASSUME SlotAccounting, UNCHANGED <<poolUse, endpointUse>>,
           \A j \in Jobs : /\ task'[j] # "none" <=> task[j] # "none"
                           /\ task[j] # "none" => attemptEp'[j] = attemptEp[j]
    PROVE  SlotAccounting'
<1>1. /\ \A p : InPool(task', attemptEp', p) = InPool(task, attemptEp, p)
      /\ \A e : OnEndpoint(task', attemptEp', e) = OnEndpoint(task, attemptEp, e)
  BY DEF InPool, OnEndpoint
<1>. QED BY <1>1, Halves DEF PoolCount, EndpointCount

\* A task that ends: one holder and one slot fewer, in its pool and endpoint only.
LEMMA TaskEnds ==
    ASSUME NEW t \in [Jobs -> {"none", "created", "awaiting", "sent"}],
           NEW ep \in [Jobs -> Endpoints \cup {NoEndpoint}], NEW j \in Jobs, t[j] # "none",
           ep[j] \in Endpoints, NEW pu \in [Pools -> Int], NEW eu \in [Endpoints -> Int],
           PoolCount(t, ep, pu), EndpointCount(t, ep, eu)
    PROVE  LET t2 == [t EXCEPT ![j] = "none"]
           IN  /\ PoolCount(t2, ep, [pu EXCEPT ![EpPool[ep[j]]] = @ - 1])
               /\ EndpointCount(t2, ep, [eu EXCEPT ![ep[j]] = @ - 1])
<1> DEFINE t2 == [t EXCEPT ![j] = "none"]
           p0 == EpPool[ep[j]]
<1>1. /\ InPool(t2, ep, p0) = InPool(t, ep, p0) \ {j} /\ j \in InPool(t, ep, p0)
      /\ \A p \in Pools \ {p0} : InPool(t2, ep, p) = InPool(t, ep, p)
  BY DEF InPool
<1>2. /\ OnEndpoint(t2, ep, ep[j]) = OnEndpoint(t, ep, ep[j]) \ {j}
      /\ j \in OnEndpoint(t, ep, ep[j])
      /\ \A e \in Endpoints \ {ep[j]} : OnEndpoint(t2, ep, e) = OnEndpoint(t, ep, e)
  BY DEF OnEndpoint
<1>3. ASSUME NEW S \in SUBSET Jobs, j \in S PROVE Cardinality(S \ {j}) = Cardinality(S) - 1
  BY <1>3, Holders, FS_RemoveElement
<1>4. /\ \A p : InPool(t, ep, p) \in SUBSET Jobs
      /\ \A e : OnEndpoint(t, ep, e) \in SUBSET Jobs
  BY DEF InPool, OnEndpoint
<1>5. /\ PoolSlots \in [Pools -> Nat] /\ EpMaxInflight \in [Endpoints -> Nat] /\ p0 \in Pools
  BY EndpointAssumption
<1> HIDE DEF t2, p0
<1>6. PoolCount(t2, ep, [pu EXCEPT ![p0] = @ - 1])
  BY <1>1, <1>3, <1>4, <1>5 DEF PoolCount
<1>7. EndpointCount(t2, ep, [eu EXCEPT ![ep[j]] = @ - 1])
  BY <1>2, <1>3, <1>4, <1>5 DEF EndpointCount
<1>. QED BY <1>6, <1>7 DEF t2, p0

\* A task that starts on a free slot: one holder and one slot more.
LEMMA TaskStarts ==
    ASSUME NEW t \in [Jobs -> {"none", "created", "awaiting", "sent"}],
           NEW ep \in [Jobs -> Endpoints \cup {NoEndpoint}], NEW j \in Jobs, t[j] = "none",
           ep[j] \in Endpoints, NEW pu \in [Pools -> Int], NEW eu \in [Endpoints -> Int],
           PoolCount(t, ep, pu), EndpointCount(t, ep, eu),
           pu[EpPool[ep[j]]] < PoolSlots[EpPool[ep[j]]], eu[ep[j]] < EpMaxInflight[ep[j]]
    PROVE  LET t2 == [t EXCEPT ![j] = "created"]
           IN  /\ PoolCount(t2, ep, [pu EXCEPT ![EpPool[ep[j]]] = @ + 1])
               /\ EndpointCount(t2, ep, [eu EXCEPT ![ep[j]] = @ + 1])
<1> DEFINE t2 == [t EXCEPT ![j] = "created"]
           p0 == EpPool[ep[j]]
<1>1. /\ InPool(t2, ep, p0) = InPool(t, ep, p0) \cup {j} /\ j \notin InPool(t, ep, p0)
      /\ \A p \in Pools \ {p0} : InPool(t2, ep, p) = InPool(t, ep, p)
  BY DEF InPool
<1>2. /\ OnEndpoint(t2, ep, ep[j]) = OnEndpoint(t, ep, ep[j]) \cup {j}
      /\ j \notin OnEndpoint(t, ep, ep[j])
      /\ \A e \in Endpoints \ {ep[j]} : OnEndpoint(t2, ep, e) = OnEndpoint(t, ep, e)
  BY DEF OnEndpoint
<1>3. ASSUME NEW S \in SUBSET Jobs, j \notin S
      PROVE  Cardinality(S \cup {j}) = Cardinality(S) + 1
  BY <1>3, Holders, FS_AddElement
<1>4. /\ \A p : InPool(t, ep, p) \in SUBSET Jobs
      /\ \A e : OnEndpoint(t, ep, e) \in SUBSET Jobs
  BY DEF InPool, OnEndpoint
<1>5. /\ PoolSlots \in [Pools -> Nat] /\ EpMaxInflight \in [Endpoints -> Nat] /\ p0 \in Pools
  BY EndpointAssumption
<1>6. pu[p0] < PoolSlots[p0]
  OBVIOUS
<1> HIDE DEF t2, p0
<1>7. PoolCount(t2, ep, [pu EXCEPT ![p0] = @ + 1])
  BY <1>1, <1>3, <1>4, <1>5, <1>6 DEF PoolCount
<1>8. EndpointCount(t2, ep, [eu EXCEPT ![ep[j]] = @ + 1])
  BY <1>2, <1>3, <1>4, <1>5 DEF EndpointCount
<1>. QED BY <1>7, <1>8 DEF t2, p0

-----------------------------------------------------------------------------
\* The `finally' of _run keeps the counts.
LEMMA ReleaseCounts ==
    ASSUME IndInv, SlotAccounting, NEW j \in Jobs, task[j] # "none", Release(j),
           UNCHANGED attemptEp
    PROVE  SlotAccounting'
<1>1. attemptEp[j] \in Endpoints
  BY AttemptPlace DEF IndInv, LedgerInv
<1>. QED
  BY <1>1, Halves, TaskEnds DEF Release, PoolOf, IndInv, TypeOK, StoreTypeOK

\* The start of a task takes the slot that placement found free.
LEMMA MarkRunningCounts == ASSUME IndInv, SlotInv, MarkRunning PROVE SlotInv'
<1>1. cur \in Jobs /\ attemptEp[cur] \in Endpoints /\ task[cur] = "none"
  BY AttemptPlace DEF IndInv, ControlInv, MarkRunning, CurPc
<1>2. SlotAccounting'
  BY <1>1, Halves, TaskStarts
     DEF SlotInv, MarkRunning, Occupy, PoolOf, IndInv, TypeOK, StoreTypeOK
<1>. QED BY <1>2 DEF SlotInv, MarkRunning

\* Placement leaves the counts alone and has seen a free slot.
LEMMA DispatchReserveCounts ==
    ASSUME IndInv, SlotInv, NEW x \in Jobs, DispatchReserve(x) PROVE SlotInv'
<1>1. PICK e \in BestEndpoints(x) : Reserve(x, e)
  BY DEF DispatchReserve
<1>2. poolUse[EpPool[e]] < PoolSlots[EpPool[e]] /\ endpointUse[e] < EpMaxInflight[e]
  BY DEF BestEndpoints, ChooseEndpoint, Feasible
<1>3. task[x] = "none"
  BY DEF DispatchReserve, FirstInRank, IndInv, LoopInv, LedgerInv, Dead
<1>4. SlotAccounting'
  BY <1>1, <1>3, SameTasks DEF SlotInv, DispatchReserve, Reserve, IndInv, TypeOK, StoreTypeOK
<1>5. attemptEp'[x] = e /\ cur' = x
  BY <1>1 DEF DispatchReserve, Reserve, IndInv, TypeOK, StoreTypeOK
<1>. QED BY <1>2, <1>4, <1>5 DEF SlotInv, DispatchReserve, PoolOf

\* A quiet step keeps the counts and the free slot.
LEMMA QuietCounts == ASSUME SlotInv, Quiet PROVE SlotInv'
<1>1. SlotAccounting'
  BY SameTasks DEF SlotInv, Quiet
<1>. QED BY <1>1 DEF SlotInv, Quiet, PoolOf

\* A process that is gone holds no slot.
LEMMA ProcessGoneCounts == ASSUME IndInv, ProcessGone PROVE SlotInv'
BY Halves, NoTasks DEF ProcessGone, SlotInv

-----------------------------------------------------------------------------
\* Every step keeps the counts.
LEMMA NextSlotInv == ASSUME IndInv, SlotInv, [Next \/ Crash]_vars PROVE SlotInv'
<1> USE DEF Goto, EnterLoop, NextInLoop
<1>1. CASE \E s \in Sessions : SessionCall(s)
  BY <1>1, QuietCounts DEF SessionCall, OpenSession, AdvanceSession, Heartbeat, Serving, Quiet
<1>2. ASSUME NEW j \in Jobs, ClientCall(j) PROVE SlotInv'
  BY <1>2, QuietCounts DEF ClientCall, Submit, Cancel, Consume, ReceiptStep, Serving, Quiet
<1>3. ASSUME NEW j \in Jobs, StartInfer(j) \/ Send(j) PROVE SlotInv'
  <2>1. SlotAccounting'
    BY <1>3, SameTasks DEF StartInfer, Send, TaskStep, SlotInv, IndInv, TypeOK
  <2>. QED BY <1>3, <2>1 DEF StartInfer, Send, TaskStep, Serving, SlotInv
<1>4. ASSUME NEW j \in Jobs,
             \/ StartFenced(j) \/ Succeed(j) \/ FailNotSent(j) \/ FailKnown(j)
             \/ FailUnknown(j) \/ RemoteFinish(j)
      PROVE  SlotInv'
  BY <1>4, QuietCounts DEF StartFenced, Succeed, FailNotSent, FailKnown, FailUnknown, SettleThen,
     Settle, RemoteFinish, Quiet
<1>5. ASSUME NEW j \in Jobs,
             \/ Supersede(j) \/ Expire(j) \/ RejectDependent(j) \/ DispatchFenced(j)
             \/ DispatchFromCache(j) \/ DispatchSkipped(j) \/ DispatchOverCeiling(j)
             \/ ShutdownCancel(j) \/ RecoverReceipt(j) \/ RecoverAttempt(j)
      PROVE  SlotInv'
  BY <1>5, QuietCounts DEF Supersede, Expire, RejectDependent, DispatchFenced,
     DispatchFromCache, DispatchSkipped, DispatchOverCeiling, FirstInRank, ShutdownCancel,
     RecoverReceipt, RecoverAttempt, ReceiptStep, RecoveryStep, Quiet
<1>6. CASE StartDispatch \/ RecoverQuarantine \/ RecoverSettle \/ RecoverMark \/ RecoverSessions
  BY <1>6, QuietCounts DEF StartDispatch, RecoverQuarantine, RecoverSettle, RecoverMark,
     RecoverSessions, Settle, RecoveryStep, Quiet
<1>7. CASE NotSent \/ Complete \/ FailReceipt \/ QuarantineStep
  <2>1. cur \in Jobs /\ task[cur] # "none"
    BY <1>7, AttemptPlace DEF NotSent, Complete, FailReceipt, QuarantineStep, IndInv, ControlInv,
       CurPc, AfterSettle
  <2>2. CASE Release(cur)
    BY <1>7, <2>1, <2>2, ReleaseCounts DEF NotSent, Complete, FailReceipt, QuarantineStep, SlotInv
  <2>3. CASE ~Release(cur)
    BY <1>7, <2>3, QuietCounts DEF NotSent, Complete, FailReceipt, QuarantineStep, Quiet
  <2>. QED BY <2>2, <2>3
<1>8. CASE Tick \/ Close \/ Start \/ Operator \/ AdvanceClock
  BY <1>8, QuietCounts DEF Tick, Close, Start, Operator, Reconcile, ReleasePool, ExtendBudget,
     AdvanceClock, Quiet
<1>9. CASE UNCHANGED vars
  BY <1>9, QuietCounts DEF vars, Quiet
<1>. QED
  BY <1>1, <1>2, <1>3, <1>4, <1>5, <1>6, <1>7, <1>8, <1>9, DispatchReserveCounts,
     MarkRunningCounts, ProcessGoneCounts
     DEF Next, TaskRuns, HandlerStep, Dispatch, CloseStore, Crash

\* pool_use and endpoint_use count the live tasks, and no pool or endpoint is ever
\* oversubscribed, whatever the interleaving of tasks, calls and crashes.
THEOREM SlotsCounted == Spec => []SlotAccounting
<1>1. Init => SlotInv
  BY Halves, NoTasks DEF Init, SlotInv
<1>2. SlotInv => SlotAccounting
  BY DEF SlotInv
<1>. QED BY <1>1, <1>2, NextSlotInv, Invariance, PTL DEF Spec

-----------------------------------------------------------------------------
(* Parents before children.                                                *)

ParentsHave(j) == \A d \in Job[j].deps : prediction[d] # NoJob

\* A result implies a prediction, and a job is ranked or attempted only after the
\* predictions of its parents.
ParentsInv ==
    /\ \A j \in Jobs : state[j] \in Done => prediction[j] # NoJob
    /\ \A k \in cache : prediction[k] # NoJob
    /\ \A j \in Attempted : ParentsHave(j)
    /\ pc \in {"dispatch", "reserved"} => \A j \in todo : ParentsHave(j)

\* A step that produces no result and neither ranks nor places a job.
Unproductive ==
    /\ prediction' = prediction /\ cache' \subseteq cache /\ Attempted' = Attempted
    /\ \A j \in Jobs : state'[j] \in Done => state[j] \in Done
    /\ pc' \in {"dispatch", "reserved"} => pc \in {"dispatch", "reserved"} /\ todo' \subseteq todo

\* Such a step keeps the invariant.
LEMMA UnproductiveParents == ASSUME ParentsInv, Unproductive PROVE ParentsInv'
BY DEF ParentsInv, Unproductive, ParentsHave

\* A settlement leaves the attempts table with the same rows.
LEMMA SettleAttempted ==
    ASSUME IndInv, NEW j \in Attempted, NEW cost, Settle(j, cost)
    PROVE  Attempted' = Attempted
BY DEF IndInv, TypeOK, StoreTypeOK, Settle, Attempted, NoCost

\* Every step keeps it.
LEMMA NextParentsInv == ASSUME IndInv, ParentsInv, [Next \/ Crash]_vars PROVE ParentsInv'
<1> USE DEF Goto, EnterLoop, NextInLoop, SetState
<1>1. CASE \E s \in Sessions : SessionCall(s)
  BY <1>1, UnproductiveParents DEF SessionCall, OpenSession, AdvanceSession, Heartbeat, Serving,
     Unproductive, Attempted
<1>2. ASSUME NEW j \in Jobs, ClientCall(j) PROVE ParentsInv'
  BY <1>2, UnproductiveParents DEF ClientCall, Submit, Cancel, Consume, ReceiptStep, Serving,
     Unproductive, Attempted, IndInv, TypeOK, StoreTypeOK, Done
<1>3. ASSUME NEW j \in Jobs, StartInfer(j) \/ Send(j) \/ RemoteFinish(j) PROVE ParentsInv'
  BY <1>3, UnproductiveParents DEF StartInfer, Send, RemoteFinish, TaskStep, Unproductive,
     Attempted
<1>4. ASSUME NEW j \in Jobs,
             StartFenced(j) \/ Succeed(j) \/ FailNotSent(j) \/ FailKnown(j) \/ FailUnknown(j)
      PROVE  ParentsInv'
  <2>1. j \in Attempted /\ \E cost : Settle(j, cost)
    BY <1>4 DEF StartFenced, Succeed, FailNotSent, FailKnown, FailUnknown, SettleThen, IndInv,
       LedgerInv
  <2>2. Attempted' = Attempted
    BY <2>1, SettleAttempted
  <2>. QED BY <1>4, <2>2, UnproductiveParents DEF StartFenced, Succeed, FailNotSent, FailKnown,
          FailUnknown, SettleThen, Unproductive
<1>5. ASSUME NEW j \in Jobs,
             \/ Supersede(j) \/ Expire(j) \/ RejectDependent(j) \/ DispatchFenced(j)
             \/ DispatchSkipped(j) \/ DispatchOverCeiling(j) \/ ShutdownCancel(j)
             \/ RecoverReceipt(j) \/ RecoverAttempt(j)
      PROVE  ParentsInv'
  BY <1>5, UnproductiveParents, FenceStateDead DEF Supersede, Expire, RejectDependent,
     DispatchFenced, DispatchSkipped, DispatchOverCeiling, FirstInRank, ShutdownCancel,
     RecoverReceipt, RecoverAttempt, ReceiptStep, RecoveryStep, Unproductive, Attempted, IndInv,
     TypeOK, StoreTypeOK, Done
<1>6. ASSUME NEW j \in Jobs, DispatchFromCache(j) PROVE ParentsInv'
  BY <1>6 DEF DispatchFromCache, FirstInRank, CacheHits, ParentsInv, ParentsHave, Attempted, IndInv,
     TypeOK, StoreTypeOK, Done
<1>7. ASSUME NEW j \in Jobs, DispatchReserve(j) PROVE ParentsInv'
  <2>1. Attempted' = Attempted \cup {j} /\ ParentsHave(j)
    BY <1>7 DEF DispatchReserve, FirstInRank, Reserve, Attempted, ParentsInv, IndInv, TypeOK,
       StoreTypeOK
  <2>. QED BY <1>7, <2>1 DEF DispatchReserve, FirstInRank, ParentsInv, ParentsHave
<1>8. CASE StartDispatch
  <2>1. \A j \in ReadyJobs : ParentsHave(j)
    BY JobAssumption DEF ReadyJobs, JobsIn, ParentsHave, ParentsInv, JobBody
  <2>. QED BY <1>8, <2>1 DEF StartDispatch, ParentsInv, ParentsHave, Attempted
<1>9. CASE Complete
  <2>1. cur \in Jobs /\ cur # NoJob
    BY <1>9, AttemptPlace, JobsAssumption DEF Complete, IndInv, ControlInv, CurPc, NoJob
  <2>. QED BY <1>9, <2>1, FenceStateDead DEF Complete, ParentsInv, ParentsHave, Attempted, IndInv,
          TypeOK, StoreTypeOK, Done
<1>10. CASE MarkRunning \/ NotSent \/ FailReceipt \/ QuarantineStep
  BY <1>10, UnproductiveParents, FenceStateDead DEF MarkRunning, NotSent, FailReceipt,
     QuarantineStep, Unproductive, Attempted, IndInv, TypeOK, StoreTypeOK, Done
<1>11. CASE RecoverQuarantine \/ RecoverSettle \/ RecoverMark \/ RecoverSessions
  <2>1. CASE RecoverSettle
    <3>1. cur \in Attempted
      BY <2>1 DEF RecoverSettle, IndInv, ControlInv, CurPc
    <3>. QED BY <2>1, <3>1, SettleAttempted, UnproductiveParents DEF RecoverSettle,
            RecoveryStep, Unproductive
  <2>. QED BY <1>11, <2>1, UnproductiveParents DEF RecoverQuarantine, RecoverMark,
          RecoverSessions, RecoveryStep, Unproductive, Attempted, IndInv, ControlInv, TypeOK,
          StoreTypeOK
<1>12. CASE Tick \/ Close \/ Start \/ Operator \/ AdvanceClock \/ ProcessGone \/ UNCHANGED vars
  BY <1>12, UnproductiveParents DEF Tick, Close, Start, Operator, Reconcile, ReleasePool,
     ExtendBudget, AdvanceClock, ProcessGone, Unproductive, Attempted, vars
<1>. QED
  BY <1>1, <1>2, <1>3, <1>4, <1>5, <1>6, <1>7, <1>8, <1>9, <1>10, <1>11, <1>12
     DEF Next, TaskRuns, HandlerStep, Dispatch, CloseStore, Crash

\* A job reaches a backend only after all its parents produced a prediction, through
\* any cancellation, expiry, crash or restart in between.
THEOREM ParentsFirst == Spec => []ParentsComputedFirst
<1>1. Init => ParentsInv
  BY DEF Init, StoreInit, ParentsInv, Attempted, Done
<1>2. IndInv /\ ParentsInv => ParentsComputedFirst
  BY DEF IndInv, SendInv, ParentsInv, ParentsHave, ParentsComputedFirst
<1>. QED BY <1>1, <1>2, NextParentsInv, Invariance, PTL DEF Spec

-----------------------------------------------------------------------------
(* The bound of the queue.                                                 *)

Queued == JobsIn({"QUEUED"})

\* The queue is over its bound only while a replacement waits for the jobs that it
\* supersedes to leave, and by no more than those.
QueueInv ==
    /\ Alive /\ pc # "supersede" => Cardinality(Queued) <= MaxQueue
    /\ pc = "supersede" => Cardinality(Queued \ todo) <= MaxQueue

\* A step that adds no queued job and is not part of a submission.
NoneQueued ==
    /\ Queued' \subseteq Queued
    /\ pc' # "supersede" /\ (Alive' => Alive /\ pc # "supersede")

\* Sets of jobs are finite; a smaller one has no more elements.
LEMMA JobCounts ==
    ASSUME NEW S \in SUBSET Jobs, NEW R \in SUBSET S
    PROVE  /\ IsFiniteSet(S) /\ IsFiniteSet(R) /\ Cardinality(S) \in Nat
           /\ Cardinality(R) \in Nat /\ Cardinality(R) <= Cardinality(S)
           /\ Cardinality(S \ R) = Cardinality(S) - Cardinality(R)
<1>1. IsFiniteSet(S) /\ IsFiniteSet(R)
  BY JobsAssumption, FS_Subset
<1>2. Cardinality(S \cap R) = Cardinality(R)
  <2>1. S \cap R = R
    OBVIOUS
  <2>. QED BY <2>1
<1>3. Cardinality(S \ R) = Cardinality(S) - Cardinality(S \cap R)
  BY <1>1, FS_Difference
<1>4. Cardinality(S) \in Nat /\ Cardinality(R) \in Nat /\ Cardinality(R) <= Cardinality(S)
  BY <1>1, FS_Subset, FS_CardinalityType
<1>. QED BY <1>1, <1>2, <1>3, <1>4

\* A step that adds no queued job keeps the bound.
LEMMA NoneQueuedBound == ASSUME QueueInv, NoneQueued PROVE QueueInv'
<1>1. Queued \in SUBSET Jobs
  BY DEF Queued, JobsIn
<1>2. Cardinality(Queued') <= Cardinality(Queued) /\ Cardinality(Queued') \in Nat
      /\ Cardinality(Queued) \in Nat
  BY <1>1, JobCounts DEF NoneQueued
<1>3. MaxQueue \in Nat
  BY RuntimeAssumption
<1>. QED BY <1>2, <1>3 DEF QueueInv, NoneQueued

\* A submission is admitted only if the queue has room once the superseded jobs left.
LEMMA SubmitBound == ASSUME IndInv, QueueInv, NEW x \in Jobs, Submit(x) PROVE QueueInv'
<1> USE DEF Submit, SetState, EnterLoop
<1>0. pc = "idle" /\ Alive /\ state[x] = "ABSENT" /\ Queued \in SUBSET Jobs
  BY DEF Alive, Queued, JobsIn
<1>1. CASE ~Admissible(x)
  <2>1. Queued' = Queued
    BY <1>0, <1>1 DEF Queued, JobsIn, IndInv, TypeOK, StoreTypeOK
  <2>. QED BY <1>0, <1>1, <2>1, NoneQueuedBound DEF NoneQueued, Alive
<1>2. CASE Admissible(x)
  <2> DEFINE gone == Superseded(x)
  <2>1. Queued' = Queued \cup {x} /\ x \notin Queued /\ gone \in SUBSET Queued
    BY <1>0, <1>2 DEF Queued, JobsIn, Superseded, Rivals, IndInv, TypeOK, StoreTypeOK
  <2>2. Cardinality(Queued) - Cardinality(gone) < MaxQueue
    BY <1>2 DEF Admissible, Queued
  <2>3. todo' = gone /\ pc' = IF gone = {} THEN "idle" ELSE "supersede"
    BY <1>2
  <2> HIDE DEF gone
  <2>4. Cardinality(Queued \ gone) = Cardinality(Queued) - Cardinality(gone)
    BY <1>0, <2>1, JobCounts
  <2>5. Queued' \ gone = (Queued \ gone) \cup {x} /\ x \notin Queued \ gone
    BY <2>1
  <2>6. /\ Cardinality(Queued' \ gone) = Cardinality(Queued \ gone) + 1
        /\ Cardinality(Queued \ gone) \in Nat
    BY <1>0, <2>5, JobCounts, FS_AddElement
  <2>7. Cardinality(Queued' \ gone) <= MaxQueue
    BY <2>2, <2>4, <2>6, RuntimeAssumption
  <2>8. gone = {} => Queued' \ gone = Queued'
    OBVIOUS
  <2>. QED BY <2>3, <2>7, <2>8 DEF QueueInv
<1>. QED BY <1>1, <1>2

\* Each superseded job that leaves brings the queue closer to its bound.
LEMMA SupersedeBound == ASSUME IndInv, QueueInv, NEW x \in Jobs, Supersede(x) PROVE QueueInv'
<1>1. Queued' = Queued \ {x} /\ x \in Queued
  BY DEF Supersede, SetState, Queued, JobsIn, IndInv, TypeOK, StoreTypeOK, LoopInv
<1>2. todo' = todo \ {x} /\ x \in todo /\ pc = "supersede"
      /\ pc' = IF todo = {x} THEN "idle" ELSE "supersede"
  BY DEF Supersede, NextInLoop
<1>3. Queued' \ todo' = Queued \ todo /\ (todo = {x} => Queued' = Queued \ todo)
  BY <1>1, <1>2
<1>. QED BY <1>2, <1>3 DEF QueueInv

\* Every step keeps the bound.
LEMMA NextQueueInv == ASSUME IndInv, QueueInv, [Next \/ Crash]_vars PROVE QueueInv'
<1> USE DEF Goto, EnterLoop, NextInLoop, SetState
<1>1. CASE \E s \in Sessions : SessionCall(s)
  BY <1>1, NoneQueuedBound DEF SessionCall, OpenSession, AdvanceSession, Heartbeat, Serving,
     NoneQueued, Queued, JobsIn, Alive
<1>2. ASSUME NEW j \in Jobs, Cancel(j) \/ \E c \in Consumers : Consume(j, c) PROVE QueueInv'
  BY <1>2, NoneQueuedBound DEF Cancel, Consume, ReceiptStep, Serving, NoneQueued, Queued, JobsIn,
     Alive, IndInv, TypeOK, StoreTypeOK
<1>3. ASSUME NEW j \in Jobs, TaskRuns(j) \/ Send(j) PROVE QueueInv'
  BY <1>3, NoneQueuedBound DEF TaskRuns, StartFenced, StartInfer, Succeed, FailNotSent, FailKnown,
     FailUnknown, SettleThen, Send, TaskStep, Serving, NoneQueued, Queued, JobsIn, Alive
<1>4. ASSUME NEW j \in Jobs,
             \/ Expire(j) \/ RejectDependent(j) \/ DispatchFenced(j) \/ DispatchFromCache(j)
             \/ DispatchSkipped(j) \/ DispatchOverCeiling(j) \/ DispatchReserve(j)
             \/ ShutdownCancel(j)
      PROVE  QueueInv'
  BY <1>4, NoneQueuedBound, FenceStateDead DEF Expire, RejectDependent, DispatchFenced,
     DispatchFromCache, DispatchSkipped, DispatchOverCeiling, DispatchReserve, FirstInRank,
     ShutdownCancel, ReceiptStep, NoneQueued, Queued, JobsIn, Alive, IndInv, TypeOK, StoreTypeOK
<1>5. ASSUME NEW j \in Jobs, RecoverReceipt(j) \/ RecoverAttempt(j) PROVE QueueInv'
  BY <1>5 DEF RecoverReceipt, RecoverAttempt, RecoveryStep, QueueInv, Alive, IndInv, ControlInv,
     RecoverPc
<1>6. CASE StartDispatch \/ MarkRunning \/ NotSent \/ Complete \/ FailReceipt \/ QuarantineStep
  BY <1>6, NoneQueuedBound, FenceStateDead DEF StartDispatch, MarkRunning, NotSent, Complete,
     FailReceipt, QuarantineStep, NoneQueued, Queued, JobsIn, Alive, IndInv, TypeOK, StoreTypeOK
<1>7. CASE RecoverQuarantine \/ RecoverSettle \/ RecoverMark
  BY <1>7 DEF RecoverQuarantine, RecoverSettle, RecoverMark, RecoveryStep, QueueInv, Alive,
     IndInv, ControlInv, RecoverPc
<1>8. CASE RecoverSessions
  <2>1. Queued' = {} /\ pc' = "idle"
    BY <1>8 DEF RecoverSessions, Queued, JobsIn, IndInv, LoopInv, ControlInv, RecoverPc, Live
  <2>. QED BY <2>1, FS_EmptySet, RuntimeAssumption DEF QueueInv
<1>9. CASE Tick \/ Close \/ Start \/ Operator \/ AdvanceClock \/ ProcessGone
  BY <1>9, NoneQueuedBound DEF Tick, Close, Start, Operator, Reconcile, ReleasePool, ExtendBudget,
     AdvanceClock, ProcessGone, NoneQueued, Queued, JobsIn, Alive, IndInv, ControlInv
<1>10. ASSUME (\E j \in Jobs : RemoteFinish(j)) \/ UNCHANGED vars PROVE QueueInv'
  BY <1>10 DEF RemoteFinish, vars, QueueInv, Queued, JobsIn, Alive
<1>. QED
  BY <1>1, <1>2, <1>3, <1>4, <1>5, <1>6, <1>7, <1>8, <1>9, <1>10, SubmitBound, SupersedeBound
     DEF Next, ClientCall, HandlerStep, Dispatch, CloseStore, Crash

\* Whenever the coordinator can serve a call the queue is within max_queue, although a
\* replacement is stored before the jobs it supersedes leave, and also after a crash
\* in the middle of a replacement.
THEOREM QueueKept == Spec => []QueueBounded
<1>1. Init => QueueInv
  BY DEF Init, QueueInv, Alive
<1>2. QueueInv => QueueBounded
  BY DEF QueueInv, QueueBounded, Queued, Serving, Alive
<1>. QED BY <1>1, <1>2, NextQueueInv, Invariance, PTL DEF Spec

-----------------------------------------------------------------------------
(* Replacement and parents.                                                *)

\* No job competes with its own parent for a latest-only slot.
ParentsElsewhere == \A j \in Jobs : \A d \in Job[j].deps : ~SameSlot(j, d)

\* What a replacement has still to discard is nobody's parent.
KeepInv == pc = "supersede" => \A d \in todo, j \in Jobs : state[j] \in Live => d \notin Job[j].deps

\* A step that neither starts a replacement nor supersedes a receipt.
KeepsParents ==
    /\ \A d \in Jobs : state[d] = "QUEUED" => state'[d] # "SUPERSEDED"
    /\ pc' # "supersede" \/ UNCHANGED <<state, pc, todo>>

\* What the fence writes is not a replacement.
LEMMA FenceStateNotSuperseded == \A reason : FenceState(reason) # "SUPERSEDED"
BY DEF FenceState

\* Every step but a submission and a replacement leaves parents alone.
LEMMA OthersKeepParents ==
    ASSUME IndInv, [Next \/ Crash]_vars, \A j \in Jobs : ~Submit(j) /\ ~Supersede(j)
    PROVE  KeepsParents
<1> USE DEF KeepsParents, SetState, IndInv, TypeOK, StoreTypeOK
<1>1. CASE \E s \in Sessions : SessionCall(s)
  BY <1>1 DEF SessionCall, OpenSession, AdvanceSession, Heartbeat, EnterLoop, Serving
<1>2. ASSUME NEW j \in Jobs, Cancel(j) \/ \E c \in Consumers : Consume(j, c) PROVE KeepsParents
  BY <1>2 DEF Cancel, Consume, ReceiptStep, Serving
<1>3. ASSUME NEW j \in Jobs, TaskRuns(j) \/ Send(j) \/ RemoteFinish(j) PROVE KeepsParents
  BY <1>3 DEF TaskRuns, StartFenced, StartInfer, Succeed, FailNotSent, FailKnown, FailUnknown, SettleThen,
     Send, RemoteFinish, TaskStep, Serving, Goto
<1>4. ASSUME NEW j \in Jobs,
             \/ Expire(j) \/ RejectDependent(j) \/ DispatchFenced(j) \/ DispatchFromCache(j)
             \/ DispatchSkipped(j) \/ DispatchOverCeiling(j) \/ DispatchReserve(j)
             \/ ShutdownCancel(j)
      PROVE  KeepsParents
  BY <1>4, FenceStateNotSuperseded DEF Expire, RejectDependent, DispatchFenced, DispatchFromCache, DispatchSkipped,
     DispatchOverCeiling, DispatchReserve, FirstInRank, ShutdownCancel, ReceiptStep, NextInLoop
<1>5. ASSUME NEW j \in Jobs, RecoverReceipt(j) \/ RecoverAttempt(j) PROVE KeepsParents
  BY <1>5 DEF RecoverReceipt, RecoverAttempt, RecoveryStep, NextInLoop, Goto
<1>6. CASE StartDispatch \/ MarkRunning \/ NotSent \/ Complete \/ FailReceipt \/ QuarantineStep
  BY <1>6, FenceStateNotSuperseded DEF StartDispatch, MarkRunning, NotSent, Complete, FailReceipt, QuarantineStep,
     EnterLoop, Goto
<1>7. CASE RecoverQuarantine \/ RecoverSettle \/ RecoverMark \/ RecoverSessions
  BY <1>7 DEF RecoverQuarantine, RecoverSettle, RecoverMark, RecoverSessions, RecoveryStep, EnterLoop, Goto
<1>8. CASE Tick \/ Close \/ Start \/ Operator \/ AdvanceClock \/ ProcessGone
  BY <1>8 DEF Tick, Close, Start, Operator, Reconcile, ReleasePool, ExtendBudget, AdvanceClock, ProcessGone,
     EnterLoop, ControlInv
<1>9. CASE UNCHANGED vars
  BY <1>9 DEF vars
<1>. QED
  BY <1>1, <1>2, <1>3, <1>4, <1>5, <1>6, <1>7, <1>8, <1>9
     DEF Next, ClientCall, HandlerStep, Dispatch, CloseStore, Crash

\* A step that keeps parents keeps the invariant.
LEMMA KeptParents == ASSUME KeepInv, KeepsParents PROVE KeepInv'
BY DEF KeepInv, KeepsParents

\* A submission replaces nobody's parent, its own excepted.
LEMMA SubmitKeeps ==
    ASSUME IndInv, ParentsElsewhere, NEW x \in Jobs, Submit(x)
    PROVE  KeepInv' /\ \A d \in Jobs : state[d] = "QUEUED" => state'[d] # "SUPERSEDED"
<1>1. state' = [state EXCEPT ![x] = IF Admissible(x) THEN "QUEUED" ELSE "REJECTED"] /\ DOMAIN state = Jobs
  BY DEF Submit, SetState, IndInv, TypeOK, StoreTypeOK
<1>2. pc' = "supersede" => todo' = Superseded(x)
  BY DEF Submit, EnterLoop
<1>3. ASSUME NEW d \in Superseded(x), NEW j \in Jobs, state'[j] \in Live PROVE d \notin Job[j].deps
  <2>1. CASE j = x
    <3>1. SameSlot(x, d)
      BY DEF Superseded, Rivals
    <3>. QED BY <2>1, <3>1 DEF ParentsElsewhere
  <2>2. CASE j # x
    <3>1. j \in JobsIn(Live)
      BY <1>1, <1>3, <2>2 DEF JobsIn
    <3>. QED BY <3>1 DEF Superseded
  <2>. QED BY <2>1, <2>2
<1>. QED BY <1>1, <1>2, <1>3 DEF KeepInv

\* Each replacement discards a job that no live one needs.
LEMMA SupersedeKeeps ==
    ASSUME IndInv, KeepInv, NEW x \in Jobs, Supersede(x)
    PROVE  /\ KeepInv'
           /\ \A d \in Jobs : state[d] = "QUEUED" /\ state'[d] = "SUPERSEDED" => ~\E j \in JobsIn(Live) : d \in Job[j].deps
<1>1. state' = [state EXCEPT ![x] = "SUPERSEDED"] /\ DOMAIN state = Jobs /\ todo' = todo \ {x}
      /\ x \in todo /\ pc = "supersede"
  BY DEF Supersede, SetState, NextInLoop, IndInv, TypeOK, StoreTypeOK
<1>2. \A j \in Jobs : state'[j] \in Live => state[j] \in Live
  BY <1>1 DEF Live
<1>. QED BY <1>1, <1>2 DEF KeepInv, JobsIn

\* With crashes, and as long as no job competes with its own parent: replacement never
\* discards a queued parent that a live job needs.  The job that replaces its own parent
\* is therefore the only way to lose one.
THEOREM ParentsKept == ASSUME ParentsElsewhere PROVE Spec => NeededParentKept
<1> DEFINE Keeps == \A d \in Jobs : state[d] = "QUEUED" /\ state'[d] = "SUPERSEDED" =>
                        ~\E j \in JobsIn(Live) : d \in Job[j].deps
<1>1. Init => KeepInv
  BY DEF Init, KeepInv
<1>2. ASSUME IndInv, KeepInv, [Next \/ Crash]_vars PROVE KeepInv' /\ [Keeps]_vars
  <2>1. CASE \E j \in Jobs : Submit(j)
    BY <1>2, <2>1, SubmitKeeps
  <2>2. CASE \E j \in Jobs : Supersede(j)
    BY <1>2, <2>2, SupersedeKeeps
  <2>3. CASE \A j \in Jobs : ~Submit(j) /\ ~Supersede(j)
    BY <1>2, <2>3, OthersKeepParents, KeptParents DEF KeepsParents
  <2>. QED BY <2>1, <2>2, <2>3
<1>. QED BY <1>1, <1>2, Invariance, PTL DEF Spec, NeededParentKept

-----------------------------------------------------------------------------
(* A coordinator that stops only through close.                            *)

\* close leaves nothing behind: recovery then finds neither a live receipt nor an
\* open reservation, and has nothing to settle.
ClosedInv ==
    /\ ~Alive => \A j \in Jobs : state[j] \notin Live /\ disposition[j] # "reserved"
    /\ pc \notin {"recover", "recover_quarantine", "recover_settle", "recover_mark"}
    /\ mode = "closing" => /\ pc \in {"idle", "shutdown", "expire"} \cup AfterSettle
                           /\ \A j \in Jobs : state[j] = "QUEUED" => pc = "shutdown" /\ j \in todo

\* Remote work that nobody confirmed has a task or a quarantined pool.
RemoteInv ==
    /\ \A j \in remote : sends[j] = 1 /\ (task[j] # "none" \/ PoolOf(j) \in quarantined)
    /\ pc \in {"not_sent", "settled", "failed_known"} => cur \notin remote

\* The invariant of crash-free behaviours too: they are behaviours of Spec.
THEOREM GracefulInvariance == GracefulSpec => []IndInv
BY InitIndInv, NextIndInv, PTL DEF GracefulSpec

\* Every step but a crash keeps the journal closed.
LEMMA NextClosedInv == ASSUME IndInv, ClosedInv, [Next]_vars PROVE ClosedInv'
<1> USE DEF Goto, EnterLoop, NextInLoop, SetState, ClosedInv, Alive
<1>1. CASE \E s \in Sessions : SessionCall(s)
  BY <1>1 DEF SessionCall, OpenSession, AdvanceSession, Heartbeat, Serving
<1>2. ASSUME NEW j \in Jobs, ClientCall(j) PROVE ClosedInv'
  BY <1>2 DEF ClientCall, Submit, Cancel, Consume, ReceiptStep, Serving, IndInv, TypeOK,
     StoreTypeOK, Live
<1>3. ASSUME NEW j \in Jobs, TaskRuns(j) \/ Send(j) \/ RemoteFinish(j) PROVE ClosedInv'
  BY <1>3 DEF TaskRuns, StartFenced, StartInfer, Succeed, FailNotSent, FailKnown, FailUnknown,
     SettleThen, Send, RemoteFinish, TaskStep, Serving, AfterSettle
<1>4. ASSUME NEW j \in Jobs,
             \/ Supersede(j) \/ Expire(j) \/ RejectDependent(j) \/ DispatchFenced(j)
             \/ DispatchFromCache(j) \/ DispatchSkipped(j) \/ DispatchOverCeiling(j)
             \/ DispatchReserve(j) \/ ShutdownCancel(j)
      PROVE  ClosedInv'
  <2>1. mode \in {"up", "closing"} /\ mode' = mode
    BY <1>4 DEF Supersede, Expire, RejectDependent, DispatchFenced, DispatchFromCache,
       DispatchSkipped, DispatchOverCeiling, DispatchReserve, FirstInRank, ShutdownCancel,
       IndInv, ControlInv, TypeOK, RecoverPc
  <2>. QED BY <1>4, <2>1, FenceStateDead DEF Supersede, Expire, RejectDependent, DispatchFenced,
          DispatchFromCache, DispatchSkipped, DispatchOverCeiling, DispatchReserve, FirstInRank,
          ShutdownCancel, AfterSettle, IndInv, TypeOK, StoreTypeOK
<1>5. ASSUME NEW j \in Jobs, RecoverReceipt(j) \/ RecoverAttempt(j) PROVE FALSE
  BY <1>5 DEF RecoverReceipt, RecoverAttempt, Reserved, IndInv, ControlInv, RecoverPc
<1>6. CASE StartDispatch \/ MarkRunning \/ NotSent \/ Complete \/ FailReceipt \/ QuarantineStep
  <2>1. mode \in {"up", "closing"} /\ mode' = mode
    BY <1>6 DEF StartDispatch, MarkRunning, NotSent, Complete, FailReceipt, QuarantineStep,
       IndInv, ControlInv, TypeOK, RecoverPc
  <2>. QED BY <1>6, <2>1, FenceStateDead DEF StartDispatch, MarkRunning, NotSent, Complete,
          FailReceipt, QuarantineStep, AfterSettle, IndInv, TypeOK, StoreTypeOK
<1>7. ~(RecoverQuarantine \/ RecoverSettle \/ RecoverMark)
  BY DEF RecoverQuarantine, RecoverSettle, RecoverMark
<1>8. CASE RecoverSessions \/ Tick \/ Close \/ Operator \/ AdvanceClock
  BY <1>8 DEF RecoverSessions, Tick, Close, Operator, Reconcile, ReleasePool, ExtendBudget,
     AdvanceClock, JobsIn
<1>9. CASE CloseStore
  BY <1>9 DEF CloseStore, ProcessGone, IndInv, LedgerInv, AfterSettle, Live
<1>10. CASE Start
  BY <1>10 DEF Start, JobsIn
<1>11. CASE UNCHANGED vars
  BY <1>11 DEF vars
<1>. QED
  BY <1>1, <1>2, <1>3, <1>4, <1>5, <1>6, <1>7, <1>8, <1>9, <1>10, <1>11
     DEF Next, HandlerStep, Dispatch

\* Every step but a crash keeps unconfirmed work awaited or quarantined.
LEMMA NextRemoteInv == ASSUME IndInv, ClosedInv, RemoteInv, [Next]_vars PROVE RemoteInv'
<1> USE DEF Goto, EnterLoop, NextInLoop, SetState, RemoteInv, PoolOf
<1>1. CASE \E s \in Sessions : SessionCall(s)
  BY <1>1 DEF SessionCall, OpenSession, AdvanceSession, Heartbeat, Serving
<1>2. ASSUME NEW j \in Jobs, ClientCall(j) PROVE RemoteInv'
  BY <1>2 DEF ClientCall, Submit, Cancel, Consume, ReceiptStep, Serving
<1>3. ASSUME NEW j \in Jobs, TaskRuns(j) \/ Send(j) \/ RemoteFinish(j) PROVE RemoteInv'
  BY <1>3 DEF TaskRuns, StartFenced, StartInfer, Succeed, FailNotSent, FailKnown, FailUnknown,
     SettleThen, Settle, Send, RemoteFinish, TaskStep, Serving, IndInv, SendInv, TypeOK,
     StoreTypeOK
<1>4. ASSUME NEW j \in Jobs,
             \/ Supersede(j) \/ Expire(j) \/ RejectDependent(j) \/ DispatchFenced(j)
             \/ DispatchFromCache(j) \/ DispatchSkipped(j) \/ DispatchOverCeiling(j)
             \/ ShutdownCancel(j)
      PROVE  RemoteInv'
  BY <1>4 DEF Supersede, Expire, RejectDependent, DispatchFenced, DispatchFromCache,
     DispatchSkipped, DispatchOverCeiling, FirstInRank, ShutdownCancel, ReceiptStep
<1>5. ASSUME NEW j \in Jobs, DispatchReserve(j) PROVE RemoteInv'
  <2>1. j \notin remote
    BY <1>5 DEF DispatchReserve, FirstInRank, IndInv, LoopInv, LedgerInv, SendInv, ControlInv,
       Alive, RecoverPc, TypeOK, Attempted
  <2>. QED BY <1>5, <2>1 DEF DispatchReserve, Reserve, IndInv, TypeOK, StoreTypeOK
<1>6. ASSUME NEW j \in Jobs, RecoverReceipt(j) \/ RecoverAttempt(j) PROVE FALSE
  BY <1>6 DEF RecoverReceipt, RecoverAttempt, Reserved, IndInv, ControlInv, RecoverPc, ClosedInv,
     Alive
<1>7. CASE StartDispatch \/ MarkRunning \/ NotSent \/ Complete \/ FailReceipt \/ QuarantineStep
  BY <1>7 DEF StartDispatch, MarkRunning, Occupy, NotSent, Complete, FailReceipt, QuarantineStep,
     Quarantine, Release, IndInv, TypeOK, StoreTypeOK
<1>8. ~(RecoverQuarantine \/ RecoverSettle \/ RecoverMark)
  BY DEF RecoverQuarantine, RecoverSettle, RecoverMark, ClosedInv
<1>9. CASE RecoverSessions \/ Tick \/ Close \/ Start \/ AdvanceClock
  BY <1>9 DEF RecoverSessions, Tick, Close, Start, AdvanceClock
<1>10. CASE Operator
  BY <1>10 DEF Operator, Reconcile, ReleasePool, ExtendBudget
<1>11. CASE CloseStore
  BY <1>11 DEF CloseStore, ProcessGone, IndInv, TypeOK
<1>12. CASE UNCHANGED vars
  BY <1>12 DEF vars
<1>. QED
  BY <1>1, <1>2, <1>3, <1>4, <1>5, <1>6, <1>7, <1>8, <1>9, <1>10, <1>11, <1>12
     DEF Next, HandlerStep, Dispatch

\* The closed journal and the observed remote work, together.
LEMMA GracefulInvs == GracefulSpec => [](IndInv /\ ClosedInv /\ RemoteInv)
<1>1. Init => ClosedInv /\ RemoteInv
  BY DEF Init, StoreInit, ClosedInv, RemoteInv, Alive, Live
<1>. QED BY <1>1, InitIndInv, NextIndInv, NextClosedInv, NextRemoteInv, PTL DEF GracefulSpec

\* Without crashes, remote compute that may still be running is awaited by a task,
\* which keeps its slot, or its pool is quarantined.
THEOREM UnconfirmedKept == GracefulSpec => []UnconfirmedWorkQuarantined
<1>1. RemoteInv => UnconfirmedWorkQuarantined
  BY DEF RemoteInv, UnconfirmedWorkQuarantined
<1>. QED BY <1>1, GracefulInvs, PTL

\* Without crashes, a known charge is never forgotten or changed: a task settles its
\* attempt once, and the operator only attempts of unknown charge.
THEOREM ChargesFinal == GracefulSpec => SettledIsFinal
<1> DEFINE Final == \A j \in Jobs : disposition[j] = "settled" =>
                        disposition'[j] = "settled" /\ actual'[j] = actual[j]
<1>1. ASSUME IndInv, ClosedInv, [Next]_vars PROVE [Final]_vars
  <2>1. ASSUME NEW j \in Jobs,
               StartFenced(j) \/ Succeed(j) \/ FailNotSent(j) \/ FailKnown(j) \/ FailUnknown(j)
        PROVE  Final
    <3>1. disposition[j] = "reserved" /\ \E cost : Settle(j, cost)
      BY <1>1, <2>1 DEF StartFenced, Succeed, FailNotSent, FailKnown, FailUnknown, SettleThen,
         Serving, IndInv, LedgerInv, Alive, AfterSettle
    <3>. QED BY <1>1, <3>1 DEF Settle, IndInv, TypeOK, StoreTypeOK
  <2>2. ASSUME NEW j \in Jobs, DispatchReserve(j) PROVE Final
    <3>1. disposition[j] = "none"
      BY <1>1, <2>2 DEF DispatchReserve, FirstInRank, IndInv, LoopInv, LedgerInv, ControlInv,
         Alive, RecoverPc, TypeOK
    <3>. QED BY <1>1, <2>2, <3>1 DEF DispatchReserve, Reserve, IndInv, TypeOK, StoreTypeOK
  <2>3. CASE Operator
    BY <2>3 DEF Operator, Reconcile, ReleasePool, ExtendBudget
  <2>4. ~(RecoverSettle \/ RecoverMark)
    BY <1>1 DEF RecoverSettle, RecoverMark, ClosedInv
  <2>5. CASE UNCHANGED attemptVars
    BY <2>5
  <2>. QED
    BY <1>1, <2>1, <2>2, <2>3, <2>4, <2>5
       DEF Next, SessionCall, OpenSession, AdvanceSession, Heartbeat, ClientCall, Submit, Cancel,
       Consume, ReceiptStep, TaskRuns, StartInfer, Send, RemoteFinish, TaskStep, HandlerStep,
       Supersede, Expire, RejectDependent, Dispatch, DispatchFenced, DispatchFromCache,
       DispatchSkipped, DispatchOverCeiling, ShutdownCancel, RecoverReceipt, RecoverAttempt,
       StartDispatch, MarkRunning, NotSent, Complete, FailReceipt, QuarantineStep,
       RecoverQuarantine, RecoverSessions, RecoveryStep, Tick, Close, CloseStore, ProcessGone,
       Start, AdvanceClock, vars
<1>. QED BY <1>1, GracefulInvs, PTL DEF GracefulSpec, SettledIsFinal
=============================================================================
