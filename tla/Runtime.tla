------------------------------ MODULE Runtime -------------------------------
(***************************************************************************)
(* The asyncio coordinator (runtime.py) over its ledger.                   *)
(*                                                                         *)
(* The coordinator is single threaded and its handlers await nothing, so a *)
(* handler excludes every other one; but it commits several transactions,  *)
(* and the process may die between two of them.  A handler is therefore a  *)
(* chain of steps, one per commit: `pc' names the place in the handler,    *)
(* `todo' the jobs its loop has still to visit and `cur' the job it is     *)
(* working on.  Other handlers start only when pc = "idle".  The only      *)
(* awaits are in _run, between the states of `task'.                       *)
(*                                                                         *)
(* Where the code samples the clock once for several commits the clock     *)
(* stands still; it may advance between handlers and, because dispatch     *)
(* reads it again for every job, between two jobs of the dispatch loop.    *)
(* Loops over rows in insertion order visit them in any order, except      *)
(* where the order shows: parents before children, and rank order.         *)
(***************************************************************************)
EXTENDS Store

CONSTANTS
    Reachable,   \* endpoints that are mock, injected, or behind an authorised network
    MaxQueue, MaxJobs,
    MaxTime,     \* bound on the clock
    MaxEpoch,    \* bound on session epochs
    MaxStarts,   \* bound on process starts
    MaxBuffer    \* bound on how far ahead a heartbeat may put the host buffer

ASSUME RuntimeAssumption ==
    /\ Reachable \subseteq Endpoints
    /\ MaxQueue \in Nat \ {0} /\ MaxJobs \in Nat \ {0}
    /\ MaxTime \in Nat /\ MaxEpoch \in Nat /\ MaxStarts \in Nat /\ MaxBuffer \in Nat

VARIABLES
    mode,         \* "down", "recovering", "up" or "closing"
    pc, todo, cur,
    now, clockId, \* monotonic clock and the identity of this process's clock
    task,         \* the asyncio task of a dispatched job
    poolUse, endpointUse,
    cache,        \* jobs whose result was put in the historical cache
    remote,       \* observer: jobs whose remote computation may be running
    sends         \* observer: how often a job was sent to a backend

clockVars == <<now, clockId>>
slotVars == <<task, poolUse, endpointUse>>
loopVars == <<pc, todo, cur>>
observers == <<remote, sends>>
vars == <<storeVars, mode, loopVars, clockVars, slotVars, cache, observers>>

CurPc == {"reserved", "not_sent", "settled", "failed_known", "failed_unknown", "quarantine",
          "recover_quarantine", "recover_settle", "recover_mark"}
LoopPc == {"supersede", "expire", "expire_tick", "dispatch", "shutdown", "recover",
           "recover_attempts"}
PC == {"idle", "deps"} \cup CurPc \cup LoopPc

TypeOK ==
    /\ StoreTypeOK
    /\ mode \in {"down", "recovering", "up", "closing"}
    /\ pc \in PC /\ todo \subseteq Jobs /\ cur \in Jobs \cup {NoJob}
    /\ now \in Nat /\ clockId \in Nat
    /\ task \in [Jobs -> {"none", "created", "awaiting", "sent"}]
    /\ poolUse \in [Pools -> Int] /\ endpointUse \in [Endpoints -> Int]
    /\ cache \subseteq Jobs /\ remote \subseteq Jobs
    /\ sends \in [Jobs -> Nat]

Init ==
    /\ StoreInit
    /\ mode = "down" /\ pc = "idle" /\ todo = {} /\ cur = NoJob
    /\ now = 0 /\ clockId = 0
    /\ task = [j \in Jobs |-> "none"]
    /\ poolUse = [p \in Pools |-> 0] /\ endpointUse = [e \in Endpoints |-> 0]
    /\ cache = {} /\ remote = {}
    /\ sends = [j \in Jobs |-> 0]

-----------------------------------------------------------------------------
\* The event loop can run a handler or resume a task.
Serving == mode \in {"up", "closing"} /\ pc = "idle"

Reason(j) == InvalidReason(j, session[Job[j].session], now, clockId)
Latest(j) == LatestNs(j, session[Job[j].session])

\* Control of a loop over S that ends at pc = after.
EnterLoop(at, S, after) ==
    pc' = (IF S = {} THEN after ELSE at) /\ todo' = S /\ cur' = NoJob
NextInLoop(j, after) ==
    pc' = (IF todo = {j} THEN after ELSE pc) /\ todo' = todo \ {j} /\ cur' = NoJob
Goto(at, j) == pc' = at /\ cur' = j /\ UNCHANGED todo

\* A dispatched job takes a slot of its pool and of its endpoint, and gets a task.
Occupy(j) ==
    /\ task' = [task EXCEPT ![j] = "created"]
    /\ poolUse' = [poolUse EXCEPT ![PoolOf(j)] = @ + 1]
    /\ endpointUse' = [endpointUse EXCEPT ![attemptEp[j]] = @ + 1]

\* finally: the slot is given back and the task ends.
Release(j) ==
    /\ task' = [task EXCEPT ![j] = "none"]
    /\ poolUse' = [poolUse EXCEPT ![PoolOf(j)] = @ - 1]
    /\ endpointUse' = [endpointUse EXCEPT ![attemptEp[j]] = @ - 1]

-----------------------------------------------------------------------------
\* Sessions.

OpenSession(s) ==
    /\ Serving
    /\ ~session[s].active
    /\ session[s].epoch < MaxEpoch
    /\ PutSession(s, [epoch |-> session[s].epoch + 1, clock |-> clockId, active |-> TRUE,
                      buffer |-> NoBuffer])
    /\ UNCHANGED <<receiptVars, attemptVars, quarantined, caps, mode, loopVars, clockVars,
                   slotVars, cache, observers>>

\* Mutant: only the deadline is looked at.
Fenced_ExpiredOnly(rows) == {j \in JobsIn(Live) : now >= LatestNs(j, rows[Job[j].session])}

\* Live jobs that the fence refuses under the session rows `rows'.
Fenced(rows) ==
    {j \in JobsIn(Live) : InvalidReason(j, rows[Job[j].session], now, clockId) # "none"}

\* advance_session, whose trailing _expire is the "expire" loop.
AdvanceSession(s, close) ==
    /\ Serving
    /\ session[s].active /\ session[s].clock = clockId
    /\ session[s].epoch < MaxEpoch
    /\ PutSession(s, [epoch |-> session[s].epoch + 1, clock |-> clockId, active |-> ~close,
                      buffer |-> NoBuffer])
    /\ EnterLoop("expire", Fenced(session'), "idle")
    /\ UNCHANGED <<receiptVars, attemptVars, quarantined, caps, mode, clockVars, slotVars,
                   cache, observers>>

Heartbeat(s, buffer) ==
    /\ Serving
    /\ session[s].active /\ session[s].clock = clockId
    /\ buffer # NoBuffer => buffer >= now
    /\ PutSession(s, [session[s] EXCEPT !.buffer = buffer])
    /\ UNCHANGED <<receiptVars, attemptVars, quarantined, caps, mode, loopVars, clockVars,
                   slotVars, cache, observers>>

-----------------------------------------------------------------------------
\* Submission.

\* Queued jobs of the same latest-only slot, and those the new job replaces.
Rivals(j) == {k \in JobsIn({"QUEUED"}) : SameSlot(j, k)}

\* Mutant: a parent that a child waits for is replaced too.
Superseded_Parents(j) == {k \in Rivals(j) : Job[k].snapshot < Job[j].snapshot}

Superseded(j) ==
    {k \in Rivals(j) : /\ Job[k].snapshot < Job[j].snapshot
                       /\ ~\E child \in JobsIn(Live) : k \in Job[child].deps}

\* Mutant: the queue takes one job more than its bound.
Admissible_OneMore(j) ==
    /\ Reason(j) = "none"
    /\ \A k \in Rivals(j) : Job[k].snapshot < Job[j].snapshot
    /\ Cardinality(JobsIn({"QUEUED"})) - Cardinality(Superseded(j)) <= MaxQueue
    /\ Job[j].allowed \cap Reachable # {}

\* submit finds no reason to reject the job.
Admissible(j) ==
    /\ Reason(j) = "none"
    /\ \A k \in Rivals(j) : Job[k].snapshot < Job[j].snapshot
    /\ Cardinality(JobsIn({"QUEUED"})) - Cardinality(Superseded(j)) < MaxQueue
    /\ Job[j].allowed \cap Reachable # {}

\* A resubmission returns the receipt and an unknown session or parent, a
\* parent of another generation or a full journal raises: nothing changes.
Submit(j) ==
    /\ mode = "up" /\ pc = "idle"
    /\ state[j] = "ABSENT"
    /\ Cardinality(Stored) < MaxJobs
    /\ session[Job[j].session].epoch # NoEpoch
    /\ \A d \in Job[j].deps : state[d] # "ABSENT" /\ SameGeneration(d, j)
    /\ SetState(j, IF Admissible(j) THEN "QUEUED" ELSE "REJECTED")
    /\ submitted' = [submitted EXCEPT ![j] = now]
    /\ EnterLoop("supersede", IF Admissible(j) THEN Superseded(j) ELSE {}, "idle")
    /\ UNCHANGED <<prediction, consumedBy, attemptVars, session, quarantined, caps, mode,
                   clockVars, slotVars, cache, observers>>

\* What a step of a loop that only writes the receipt of job j leaves alone.
ReceiptStep ==
    UNCHANGED <<submitted, prediction, consumedBy, attemptVars, session, quarantined, caps,
                clockVars, slotVars, cache, observers>>

Supersede(j) ==
    /\ pc = "supersede" /\ j \in todo
    /\ SetState(j, "SUPERSEDED")
    /\ NextInLoop(j, "idle")
    /\ UNCHANGED mode /\ ReceiptStep

-----------------------------------------------------------------------------
\* tick: expiry, dependency failures, then dispatch in rank order.

Tick ==
    /\ mode = "up" /\ pc = "idle"
    /\ EnterLoop("expire_tick", Fenced(session), "deps")
    /\ UNCHANGED <<storeVars, mode, clockVars, slotVars, cache, observers>>

Expire(j) ==
    /\ pc \in {"expire", "expire_tick"} /\ j \in todo
    /\ SetState(j, FenceState(Reason(j)))
    /\ NextInLoop(j, IF pc = "expire" THEN "idle" ELSE "deps")
    /\ UNCHANGED mode /\ ReceiptStep

Hopeless(j) == \E d \in Job[j].deps : state[d] \notin Live \cup Done

\* Mutant: a parent that has not failed is good enough.
ReadyJobs_NotFailed ==
    {j \in JobsIn({"QUEUED"}) : \A d \in Job[j].deps : state[d] \in Live \cup Done}

\* Queued jobs whose parents all have results.
ReadyJobs == {j \in JobsIn({"QUEUED"}) : \A d \in Job[j].deps : state[d] \in Done}

RejectDependent(j) ==
    /\ pc = "deps"
    /\ state[j] = "QUEUED" /\ Hopeless(j)
    /\ SetState(j, "REJECTED")
    /\ UNCHANGED <<mode, loopVars>> /\ ReceiptStep

StartDispatch ==
    /\ pc = "deps"
    /\ ~\E j \in JobsIn({"QUEUED"}) : Hopeless(j)
    /\ EnterLoop("dispatch", ReadyJobs, "idle")
    /\ UNCHANGED <<storeVars, mode, clockVars, slotVars, cache, observers>>

\* The Candidate that tick ranks for job j.
Candidate(j) ==
    [id |-> j, submitted |-> submitted[j], latest |-> Latest(j), priority |-> Job[j].priority,
     estimate |-> CHOOSE t \in {EpEstimate[e] : e \in Job[j].allowed} :
                     \A e \in Job[j].allowed : t <= EpEstimate[e]]

FirstInRank(j) ==
    /\ pc = "dispatch" /\ j \in todo
    /\ \A k \in todo \ {j} : LexLess(Rank(Candidate(j), now), Rank(Candidate(k), now))

DispatchFenced(j) ==
    /\ FirstInRank(j)
    /\ Reason(j) # "none"
    /\ SetState(j, FenceState(Reason(j)))
    /\ NextInLoop(j, "idle")
    /\ UNCHANGED mode /\ ReceiptStep

\* HistoricalCache.get, from how tick uses it: an entry that was put may hit, or
\* may be gone (TTL, LRU), so a hit is never certain.
CacheHits(j) == {k \in cache : SameContent(j, k) /\ Job[j].content # 0}

DispatchFromCache(j) ==
    /\ FirstInRank(j)
    /\ Reason(j) = "none"
    /\ \E k \in CacheHits(j) : prediction' = [prediction EXCEPT ![j] = prediction[k]]
    /\ SetState(j, "SUCCEEDED")
    /\ NextInLoop(j, "idle")
    /\ UNCHANGED <<submitted, consumedBy, attemptVars, session, quarantined, caps, mode,
                   clockVars, slotVars, cache, observers>>

BestEndpoints(j) ==
    ChooseEndpoint(Feasible(Job[j].allowed, now, Latest(j), poolUse, endpointUse, quarantined))

DispatchSkipped(j) ==
    /\ FirstInRank(j)
    /\ Reason(j) = "none"
    /\ BestEndpoints(j) = {}
    /\ NextInLoop(j, "idle")
    /\ UNCHANGED <<storeVars, mode, clockVars, slotVars, cache, observers>>

DispatchOverCeiling(j) ==
    /\ FirstInRank(j)
    /\ Reason(j) = "none"
    /\ \E e \in BestEndpoints(j) : ~WithinCeiling(e)
    /\ SetState(j, "REJECTED")
    /\ NextInLoop(j, "idle")
    /\ UNCHANGED mode /\ ReceiptStep

DispatchReserve(j) ==
    /\ FirstInRank(j)
    /\ Reason(j) = "none"
    /\ \E e \in BestEndpoints(j) : Reserve(j, e)
    /\ pc' = "reserved" /\ cur' = j /\ todo' = todo \ {j}
    /\ UNCHANGED <<receiptVars, session, quarantined, caps, mode, clockVars, slotVars, cache,
                   observers>>

\* The RUNNING receipt, the slot and the task, after the reservation's commit.
MarkRunning ==
    /\ pc = "reserved"
    /\ SetState(cur, "RUNNING")
    /\ Occupy(cur)
    /\ pc' = (IF todo = {} THEN "idle" ELSE "dispatch") /\ cur' = NoJob
    /\ UNCHANGED <<submitted, prediction, consumedBy, attemptVars, session, quarantined, caps,
                   mode, todo, clockVars, cache, observers>>

Dispatch(j) ==
    \/ DispatchFenced(j) \/ DispatchFromCache(j) \/ DispatchSkipped(j)
    \/ DispatchOverCeiling(j) \/ DispatchReserve(j)


-----------------------------------------------------------------------------
\* _run: the task of a dispatched job.

\* First step of the task: the fence is tested again before anything is sent.
StartFenced(j) ==
    /\ Serving
    /\ task[j] = "created" /\ Reason(j) # "none"
    /\ Settle(j, 0)
    /\ Goto("not_sent", j)
    /\ UNCHANGED <<receiptVars, session, quarantined, caps, mode, clockVars, slotVars, cache,
                   observers>>

\* The receipt becomes STALE or EXPIRED whatever it was.
NotSent ==
    /\ pc = "not_sent"
    /\ SetState(cur, FenceState(Reason(cur)))
    /\ Release(cur)
    /\ Goto("idle", NoJob)
    /\ UNCHANGED <<submitted, prediction, consumedBy, attemptVars, session, quarantined, caps,
                   mode, clockVars, cache, observers>>

\* What the await of backend.infer and the backend itself leave alone.
TaskStep(j, to) ==
    /\ Serving
    /\ task' = [task EXCEPT ![j] = to]
    /\ UNCHANGED <<storeVars, mode, loopVars, clockVars, poolUse, endpointUse, cache>>

StartInfer(j) ==
    /\ task[j] = "created" /\ Reason(j) = "none"
    /\ TaskStep(j, "awaiting")
    /\ UNCHANGED observers

\* The backend puts the request on the wire: remote compute starts.
Send(j) ==
    /\ task[j] = "awaiting" /\ attemptEp[j] \in Reachable
    /\ TaskStep(j, "sent")
    /\ remote' = remote \cup {j}
    /\ sends' = [sends EXCEPT ![j] = @ + 1]

\* Remote compute ends on its own, whatever became of the coordinator.
RemoteFinish(j) ==
    /\ j \in remote
    /\ remote' = remote \ {j}
    /\ UNCHANGED <<storeVars, mode, loopVars, clockVars, slotVars, cache, sends>>

\* Every exit of the await first commits a settlement of the attempt.
SettleThen(j, cost, at) ==
    /\ Serving
    /\ Settle(j, cost)
    /\ Goto(at, j)
    /\ UNCHANGED <<receiptVars, session, quarantined, caps, mode, clockVars, slotVars, cache,
                   observers>>

\* A prediction arrived; its usage may carry no cost.
Succeed(j) ==
    /\ task[j] = "sent" /\ j \notin remote
    /\ \E cost \in Costs \cup {NoCost} : SettleThen(j, cost, "settled")

\* BackendFailure(not_sent=True): refused before the wire, charged nothing.
FailNotSent(j) == task[j] = "awaiting" /\ SettleThen(j, 0, "failed_known")

\* BackendFailure(termination_known=True): the backend reports the computation over.
FailKnown(j) ==
    /\ task[j] \in {"awaiting", "sent"} /\ j \notin remote
    /\ SettleThen(j, NoCost, "failed_known")

\* Mutant: a failed transport is taken for a finished computation.
FailUnknown_AsKnown(j) ==
    /\ task[j] \in {"awaiting", "sent"}
    /\ SettleThen(j, NoCost, "failed_known")

\* Mutant: no timeout bounds the wait for a backend.
FailUnknown_NoTimeout(j) ==
    /\ task[j] \in {"awaiting", "sent"} /\ j \notin remote
    /\ SettleThen(j, NoCost, "failed_unknown")

\* Timeout of wait_for, cancellation by close, or any other exception.
FailUnknown(j) ==
    /\ task[j] \in {"awaiting", "sent"}
    /\ SettleThen(j, NoCost, "failed_unknown")

\* The success receipt: a receipt that is no longer RUNNING keeps its state.
Complete ==
    LET final == IF state[cur] # "RUNNING" THEN state[cur]
                 ELSE IF Reason(cur) # "none" THEN FenceState(Reason(cur))
                 ELSE "SUCCEEDED"
    IN  /\ pc = "settled"
        /\ SetState(cur, final)
        /\ prediction' = [prediction EXCEPT ![cur] = cur]
        /\ cache' = IF final = "SUCCEEDED" /\ Job[cur].content # 0 THEN cache \cup {cur} ELSE cache
        /\ Release(cur)
        /\ Goto("idle", NoJob)
        /\ UNCHANGED <<submitted, consumedBy, attemptVars, session, quarantined, caps, mode,
                       clockVars, observers>>

FailReceipt ==
    /\ pc \in {"failed_known", "failed_unknown"}
    /\ SetState(cur, IF state[cur] # "RUNNING" THEN state[cur]
                     ELSE IF pc = "failed_known" THEN "FAILED" ELSE "UNKNOWN")
    /\ IF pc = "failed_known"
       THEN Release(cur) /\ Goto("idle", NoJob)
       ELSE UNCHANGED slotVars /\ Goto("quarantine", cur)
    /\ UNCHANGED <<submitted, prediction, consumedBy, attemptVars, session, quarantined, caps,
                   mode, clockVars, cache, observers>>

QuarantineStep ==
    /\ pc = "quarantine"
    /\ Quarantine(PoolOf(cur))
    /\ Release(cur)
    /\ Goto("idle", NoJob)
    /\ UNCHANGED <<receiptVars, attemptVars, session, caps, mode, clockVars, cache, observers>>

-----------------------------------------------------------------------------
\* Client calls on a stored job.

\* Mutant: a claimed result can be cancelled.
Cancel_Claimed(j) ==
    /\ Serving
    /\ state[j] \in Live \cup Done
    /\ SetState(j, "CANCELLED")
    /\ UNCHANGED <<mode, loopVars>> /\ ReceiptStep

Cancel(j) ==
    /\ Serving
    /\ state[j] \in Live \cup {"SUCCEEDED"}
    /\ SetState(j, "CANCELLED")
    /\ UNCHANGED <<mode, loopVars>> /\ ReceiptStep

\* The first consumer claims; a claim by the same consumer again changes nothing.
Consume(j, c) ==
    /\ Serving
    /\ state[j] \in Done /\ Reason(j) = "none"
    /\ consumedBy[j] = NoConsumer
    /\ SetState(j, "CONSUMED")
    /\ consumedBy' = [consumedBy EXCEPT ![j] = c]
    /\ UNCHANGED <<submitted, prediction, attemptVars, session, quarantined, caps, mode,
                   loopVars, clockVars, slotVars, cache, observers>>

-----------------------------------------------------------------------------
\* Process lifetime.

\* close: queued jobs are cancelled one by one, tasks drain, the store closes.
Close ==
    /\ mode = "up" /\ pc = "idle"
    /\ mode' = "closing"
    /\ EnterLoop("shutdown", JobsIn({"QUEUED"}), "idle")
    /\ UNCHANGED <<storeVars, clockVars, slotVars, cache, observers>>

ShutdownCancel(j) ==
    /\ pc = "shutdown" /\ j \in todo
    /\ SetState(j, "CANCELLED")
    /\ NextInLoop(j, "idle")
    /\ UNCHANGED mode /\ ReceiptStep

\* The volatile state of a process that is gone.
ProcessGone ==
    /\ mode' = "down"
    /\ pc' = "idle" /\ todo' = {} /\ cur' = NoJob
    /\ task' = [j \in Jobs |-> "none"]
    /\ poolUse' = [p \in Pools |-> 0] /\ endpointUse' = [e \in Endpoints |-> 0]
    /\ cache' = {}
    /\ UNCHANGED <<storeVars, clockVars, observers>>

\* Mutant: the drain waits for remote compute instead of cancelling its tasks.
CloseStore_AwaitingRemote ==
    /\ mode = "closing" /\ pc = "idle"
    /\ remote = {} /\ \A j \in Jobs : task[j] = "none"
    /\ ProcessGone

CloseStore ==
    /\ mode = "closing" /\ pc = "idle"
    /\ \A j \in Jobs : task[j] = "none"
    /\ ProcessGone

\* The process dies between two commits, in a handler or during recovery too.
Crash == mode # "down" /\ ProcessGone

\* A new process: new clock identity; the monotonic clock restarts after a reboot.
Start ==
    /\ mode = "down" /\ clockId < MaxStarts
    /\ mode' = "recovering"
    /\ clockId' = clockId + 1
    /\ now' \in {0, now}
    /\ EnterLoop("recover", JobsIn(Live), "recover_attempts")
    /\ UNCHANGED <<storeVars, slotVars, cache, observers>>

\* What a step of recovery leaves alone.
RecoveryStep == UNCHANGED <<mode, submitted, prediction, consumedBy, caps, clockVars, slotVars,
                            cache, observers>>

\* recover, first loop: the receipt, then quarantine and settlement of an attempt.
RecoverReceipt(j) ==
    /\ pc = "recover" /\ j \in todo
    /\ SetState(j, IF state[j] = "RUNNING" THEN "UNKNOWN" ELSE "CANCELLED")
    /\ IF state[j] = "RUNNING" /\ j \in Attempted
       THEN pc' = "recover_quarantine" /\ cur' = j /\ todo' = todo \ {j}
       ELSE NextInLoop(j, "recover_attempts")
    /\ UNCHANGED <<attemptVars, session, quarantined>> /\ RecoveryStep

RecoverQuarantine ==
    /\ pc = "recover_quarantine"
    /\ Quarantine(PoolOf(cur))
    /\ Goto("recover_settle", cur)
    /\ UNCHANGED <<state, attemptVars, session>> /\ RecoveryStep

RecoverSettle ==
    /\ pc = "recover_settle"
    /\ Settle(cur, NoCost)
    /\ EnterLoop("recover", todo, "recover_attempts")
    /\ UNCHANGED <<state, session, quarantined>> /\ RecoveryStep

\* Mutant: recovery looks at the receipts only.
Reserved_None == {}

\* Second loop: attempts still reserved under a receipt that is no longer live.
Reserved == {j \in Jobs : disposition[j] = "reserved"}

RecoverAttempt(j) ==
    /\ pc = "recover_attempts" /\ j \in Reserved
    /\ Quarantine(PoolOf(j))
    /\ Goto("recover_mark", j)
    /\ UNCHANGED <<state, attemptVars, session>> /\ RecoveryStep

RecoverMark ==
    /\ pc = "recover_mark"
    /\ disposition' = [disposition EXCEPT ![cur] = "unknown"]
    /\ Goto("recover_attempts", NoJob)
    /\ UNCHANGED <<state, actual, attemptEp, session, quarantined>> /\ RecoveryStep

\* Third loop, taken as one step: recovery is repeated from the start if the
\* process dies in it, and nothing else looks at a session before it is over.
RecoverSessions ==
    /\ pc = "recover_attempts" /\ Reserved = {}
    /\ session' = [s \in Sessions |-> [session[s] EXCEPT !.active = FALSE]]
    /\ mode' = "up"
    /\ Goto("idle", NoJob)
    /\ UNCHANGED <<receiptVars, attemptVars, quarantined, caps, clockVars, slotVars, cache,
                   observers>>

-----------------------------------------------------------------------------
\* The operator, with the coordinator stopped (the ledger's lock is free).

Operator ==
    /\ mode = "down"
    /\ \/ \E batch \in SUBSET Jobs : Reconcile(batch)
       \/ \E p \in Pools : /\ ~\E j \in remote : PoolOf(j) = p   \* evidence of termination
                          /\ ReleasePool(p)
       \/ \E new \in Extensions : ExtendBudget(new)
    /\ UNCHANGED <<mode, loopVars, clockVars, slotVars, cache, observers>>

AdvanceClock ==
    /\ mode \in {"up", "closing"} /\ pc \in {"idle", "dispatch"}
    /\ now < MaxTime
    /\ now' = now + 1
    /\ UNCHANGED <<storeVars, mode, loopVars, clockId, slotVars, cache, observers>>

-----------------------------------------------------------------------------
SessionCall(s) ==
    \/ OpenSession(s)
    \/ \E close \in BOOLEAN : AdvanceSession(s, close)
    \/ \E buffer \in now..(now + MaxBuffer) \cup {NoBuffer} : Heartbeat(s, buffer)

TaskRuns(j) ==
    \/ StartFenced(j) \/ StartInfer(j)
    \/ Succeed(j) \/ FailNotSent(j) \/ FailKnown(j) \/ FailUnknown(j)

ClientCall(j) == Submit(j) \/ Cancel(j) \/ \E c \in Consumers : Consume(j, c)

\* The rest of a handler that has started.
HandlerStep ==
    \/ \E j \in Jobs : \/ Supersede(j) \/ Expire(j) \/ RejectDependent(j) \/ Dispatch(j)
                      \/ ShutdownCancel(j) \/ RecoverReceipt(j) \/ RecoverAttempt(j)
    \/ StartDispatch \/ MarkRunning \/ NotSent \/ Complete \/ FailReceipt \/ QuarantineStep
    \/ RecoverQuarantine \/ RecoverSettle \/ RecoverMark \/ RecoverSessions

Next ==
    \/ \E s \in Sessions : SessionCall(s)
    \/ \E j \in Jobs : ClientCall(j) \/ TaskRuns(j) \/ Send(j) \/ RemoteFinish(j)
    \/ Tick \/ HandlerStep
    \/ Close \/ CloseStore \/ Start \/ Operator \/ AdvanceClock

\* Without crashes: the coordinator only ever stops through close.
GracefulSpec == Init /\ [][Next]_vars
Spec == Init /\ [][Next \/ Crash]_vars

\* A started handler runs to its end; serve_loop calls tick for ever; asyncio
\* resumes every ready task, and wait_for resumes one whose backend is silent;
\* time passes; close proceeds once its tasks are done.  Handlers interleave, so
\* what competes for the event loop needs strong fairness: its queue is FIFO.
\* Nothing is assumed of clients, of remote compute or of the operator.
FairSpec ==
    /\ GracefulSpec
    /\ WF_vars(HandlerStep)
    /\ SF_vars(Tick) /\ SF_vars(CloseStore) /\ SF_vars(AdvanceClock)
    /\ \A j \in Jobs : SF_vars(TaskRuns(j))

-----------------------------------------------------------------------------
\* Properties.

\* Every exit of _run gives its slot back exactly once: pool_use and endpoint_use
\* count the live tasks, and no pool or endpoint is ever oversubscribed.
SlotAccounting ==
    /\ \A p \in Pools :
          /\ poolUse[p] = Cardinality({j \in Jobs : task[j] # "none" /\ PoolOf(j) = p})
          /\ poolUse[p] <= PoolSlots[p]
    /\ \A e \in Endpoints :
          /\ endpointUse[e] = Cardinality({j \in Jobs : task[j] # "none" /\ attemptEp[j] = e})
          /\ endpointUse[e] <= EpMaxInflight[e]

\* Between handlers the ledger and the event loop agree, after any crash and any
\* interrupted recovery: a reservation is open exactly while its task lives, and
\* a RUNNING receipt has a task.
ReservationsHaveTasks ==
    Serving => \A j \in Jobs : /\ disposition[j] = "reserved" <=> task[j] # "none"
                               /\ state[j] = "RUNNING" => task[j] # "none"

\* Remote compute that may still be running is either awaited by a task, which
\* keeps its slot, or its pool is quarantined.
UnconfirmedWorkQuarantined ==
    Serving => \A j \in remote : task[j] # "none" \/ PoolOf(j) \in quarantined

\* Between handlers no live job belongs to a generation the session has left, or
\* to the clock of an earlier process: advance, close and restart fence them all.
GenerationFence ==
    Serving => \A j \in JobsIn(Live) :
        LET s == session[Job[j].session]
        IN  s.active /\ s.clock = clockId /\ Job[j].clock = clockId /\ Job[j].epoch = s.epoch

\* Admission keeps the queue within max_queue although a replacement is stored
\* before the jobs it supersedes leave.
QueueBounded == Serving => Cardinality(JobsIn({"QUEUED"})) <= MaxQueue

\* A job reaches a backend only after all its parents produced a prediction.
ParentsComputedFirst ==
    \A j \in Jobs : sends[j] > 0 => \A d \in Job[j].deps : prediction[d] # NoJob

\* Latest-only replacement never discards a queued parent that a live job needs.
NeededParentKept ==
    [][\A d \in Jobs : state[d] = "QUEUED" /\ state'[d] = "SUPERSEDED" =>
          ~\E j \in JobsIn(Live) : d \in Job[j].deps]_vars

\* The admission total passes the cumulative ceiling only by what providers
\* charged above the quotes, through crashes, recovery and reconciliation.
Overrun(j) ==
    IF disposition[j] = "settled" /\ actual[j] > EpReserve[attemptEp[j]]
    THEN actual[j] - EpReserve[attemptEp[j]]
    ELSE 0
SpendWithinCeiling ==
    /\ Cardinality(Attempted) <= caps.attempts
    /\ AdmissionTotal <= caps.microusd + MapThenSumSet(Overrun, Jobs)

\* A known charge is never forgotten or changed.
SettledIsFinal ==
    [][\A j \in Jobs : disposition[j] = "settled" =>
          disposition'[j] = "settled" /\ actual'[j] = actual[j]]_vars

\* No job is left hanging: a queued or running job is resolved at the latest when
\* its evidence has expired, whatever the backends and the other clients do.
EveryJobResolved == \A j \in Jobs : (state[j] \in Live) ~> (state[j] \notin Live)

\* A slot always comes back, even from a backend that never answers.
EverySlotReturned == \A j \in Jobs : (task[j] # "none") ~> (task[j] = "none")

\* close terminates although callers may still advance sessions and cancel jobs.
ShutdownTerminates == (mode = "closing") ~> (mode = "down")

\* The coordinator, its ledger and its crashes implement the job lifecycle.
PhaseOf(st) ==
    CASE st = "ABSENT"    -> "new"
      [] st \in Live      -> "pending"
      [] st = "SUCCEEDED" -> "ready"
      [] st = "CONSUMED"  -> "claimed"
      [] st \in Dead      -> "dead"
Lifecycle == INSTANCE JobLifecycle WITH
    phase <- [j \in Jobs |-> PhaseOf(state[j])], owner <- consumedBy, ran <- sends,
    SameWork <- {pair \in Jobs \X Jobs : SameContent(pair[1], pair[2])}
ImplementsLifecycle == Lifecycle!Spec
=============================================================================
