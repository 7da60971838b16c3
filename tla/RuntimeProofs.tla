--------------------------- MODULE RuntimeProofs ----------------------------
(***************************************************************************)
(* Theorems about the coordinator, for every set of jobs, endpoints, pools *)
(* and sessions and with crashes between any two commits, checked by TLAPS.*)
(***************************************************************************)
EXTENDS Runtime, FiniteSetTheorems, TLAPS

\* The process is up: recovery is over and the store is open.
Alive == mode \in {"up", "closing"}

RecoverPc == {"recover", "recover_quarantine", "recover_settle", "recover_attempts",
              "recover_mark"}

\* The attempt of the current job is settled and its task is about to end.
AfterSettle == {"not_sent", "settled", "failed_known", "failed_unknown", "quarantine"}

\* Which job a handler works on, and what process and task are doing then.
ControlInv ==
    /\ pc \in CurPc => cur \in Attempted
    /\ mode = "down" => pc = "idle"
    /\ mode = "recovering" <=> pc \in RecoverPc
    /\ ~Alive => cache = {} /\ \A j \in Jobs : task[j] = "none"
    /\ pc \in AfterSettle => task[cur] # "none"
    /\ pc = "reserved" => task[cur] = "none" /\ state[cur] = "QUEUED" /\ cur \notin todo
    /\ pc = "quarantine" => state[cur] # "RUNNING"
    /\ pc = "recover_mark" => disposition[cur] = "reserved"

\* The jobs that a loop has still to visit are in the state it found them in.
LoopInv ==
    /\ pc \in {"supersede", "dispatch", "shutdown", "reserved"} =>
          \A j \in todo : state[j] = "QUEUED"
    /\ pc \in {"expire", "expire_tick"} => \A j \in todo : state[j] \in Live
    /\ mode = "recovering" => \A j \in Jobs : state[j] \in Live <=> j \in todo
    /\ pc \in {"recover_attempts", "recover_mark"} => todo = {}

\* Receipts, attempts and tasks.
LedgerInv ==
    /\ \A j \in Attempted : attemptEp[j] \in Endpoints
    /\ \A j \in Jobs : task[j] # "none" => j \in Attempted /\ state[j] \in {"RUNNING"} \cup Dead
    /\ \A j \in Jobs : state[j] = "ABSENT" => disposition[j] = "none"
    /\ Alive => \A j \in Jobs :
          /\ state[j] = "QUEUED" => disposition[j] = "none" \/ (pc = "reserved" /\ cur = j)
          /\ state[j] = "RUNNING" => task[j] # "none"
          /\ disposition[j] = "reserved" <=>
                \/ pc = "reserved" /\ cur = j
                \/ task[j] # "none" /\ ~(pc \in AfterSettle /\ cur = j)

\* How often a job was sent, and where results come from.
SendInv ==
    /\ \A j \in Jobs : sends[j] \in {0, 1}
    /\ \A j \in Jobs : sends[j] = 1 => j \in Attempted
    /\ \A j \in Jobs : task[j] \in {"created", "awaiting"} => sends[j] = 0
    /\ \A j \in Jobs : task[j] = "sent" => sends[j] = 1
    /\ pc = "settled" => task[cur] = "sent"
    /\ pc = "reserved" => sends[cur] = 0
    /\ \A k \in cache : sends[k] = 1

ClaimInv == \A j \in Jobs : state[j] = "CONSUMED" <=> consumedBy[j] # NoConsumer

\* The job belongs to the generation its session is in, on this process's clock.
InGeneration(j) ==
    LET s == session[Job[j].session]
    IN  s.active /\ s.clock = clockId /\ Job[j].clock = clockId /\ Job[j].epoch = s.epoch

FenceInv ==
    Alive => \A j \in Jobs :
        state[j] \in Live => InGeneration(j) \/ (pc = "expire" /\ j \in todo)

IndInv == TypeOK /\ ControlInv /\ LoopInv /\ LedgerInv /\ SendInv /\ ClaimInv /\ FenceInv

USE DEF storeVars, receiptVars, attemptVars, clockVars, slotVars, loopVars, observers

-----------------------------------------------------------------------------
(* The invariant holds initially.                                          *)

\* The journal is empty and no process runs.
LEMMA InitIndInv == Init => IndInv
<1> SUFFICES ASSUME Init PROVE IndInv
  OBVIOUS
<1> USE StoreAssumption DEF Init, StoreInit
<1>1. TypeOK
  BY DEF TypeOK, StoreTypeOK, ReceiptState, JobState, SessionRow, NoEpoch, NoBuffer, NoJob,
      NoEndpoint, PC, BudgetCaps
<1>2. ControlInv /\ LoopInv /\ LedgerInv /\ SendInv /\ ClaimInv /\ FenceInv
  BY DEF ControlInv, LoopInv, LedgerInv, SendInv, ClaimInv, FenceInv, Alive, RecoverPc, CurPc,
      AfterSettle, Attempted, Live
<1>. QED BY <1>1, <1>2 DEF IndInv

\* The endpoint and the pool of an attempt are configured ones.
LEMMA AttemptPlace ==
    ASSUME IndInv, NEW j \in Attempted
    PROVE  j \in Jobs /\ attemptEp[j] \in Endpoints /\ PoolOf(j) \in Pools
BY EndpointAssumption DEF IndInv, LedgerInv, Attempted, PoolOf

\* The fence turns a receipt into a dead one.
LEMMA FenceStateDead == ASSUME NEW r PROVE FenceState(r) \in {"EXPIRED", "STALE"}
BY DEF FenceState

-----------------------------------------------------------------------------
(* Every step preserves it: one lemma per action.                          *)


\* A session opens only when it is closed, so no live job belongs to it.
LEMMA OpenSessionStep == ASSUME IndInv, NEW x \in Sessions, OpenSession(x) PROVE IndInv'
<1> USE DEF IndInv, OpenSession, PutSession, Serving
<1>1. TypeOK'
  BY DEF TypeOK, StoreTypeOK, SessionRow, NoBuffer, NoEpoch
<1>2. ControlInv' /\ LoopInv' /\ LedgerInv' /\ SendInv' /\ ClaimInv' /\ FenceInv'
  BY DEF TypeOK, StoreTypeOK, ControlInv, LoopInv, LedgerInv, Alive, Attempted, CurPc,
      AfterSettle, RecoverPc, Live, Dead, SendInv, ClaimInv, FenceInv, InGeneration
<1>. QED BY <1>1, <1>2

\* advance_session hands every live job it leaves behind to the expiry loop.
LEMMA AdvanceSessionStep ==
    ASSUME IndInv, NEW x \in Sessions, NEW b \in BOOLEAN, AdvanceSession(x, b)
    PROVE  IndInv'
<1> USE DEF IndInv, AdvanceSession, PutSession, Serving, EnterLoop
<1>1. TypeOK'
  <2>1. session' \in [Sessions -> SessionRow]
    BY DEF TypeOK, StoreTypeOK, SessionRow, NoBuffer, NoEpoch
  <2>. QED BY <2>1 DEF TypeOK, StoreTypeOK, PC, LoopPc, Fenced, JobsIn
<1>2. LoopInv'
  BY DEF LoopInv, ControlInv, RecoverPc, Fenced, JobsIn
<1>3. FenceInv'
  BY DEF TypeOK, StoreTypeOK, FenceInv, InGeneration, InvalidReason, Fenced, JobsIn, Alive
<1>4. ControlInv' /\ LedgerInv' /\ SendInv' /\ ClaimInv'
  BY DEF ControlInv, LedgerInv, SendInv, ClaimInv, Alive, Attempted, CurPc, AfterSettle,
      RecoverPc
<1>. QED BY <1>1, <1>2, <1>3, <1>4

\* A heartbeat moves the host buffer, never the generation.
LEMMA HeartbeatStep ==
    ASSUME IndInv, NEW x \in Sessions, NEW b \in Nat \cup {NoBuffer}, Heartbeat(x, b)
    PROVE  IndInv'
<1> USE DEF IndInv, Heartbeat, PutSession, Serving
<1>1. session' \in [Sessions -> SessionRow]
  BY DEF TypeOK, StoreTypeOK, SessionRow
<1>2. TypeOK'
  BY <1>1 DEF TypeOK, StoreTypeOK
<1>3. FenceInv'
  BY DEF TypeOK, StoreTypeOK, SessionRow, FenceInv, InGeneration, Alive
<1>4. ControlInv' /\ LoopInv' /\ LedgerInv' /\ SendInv' /\ ClaimInv'
  BY DEF ControlInv, LoopInv, LedgerInv, SendInv, ClaimInv, Alive, Attempted
<1>. QED BY <1>2, <1>3, <1>4

\* A result is claimed once, and only after its task has ended.
LEMMA ConsumeStep ==
    ASSUME IndInv, NEW x \in Jobs, NEW c \in Consumers, Consume(x, c)
    PROVE  IndInv'
<1> USE DEF IndInv, Consume, SetState, Serving
<1>1. TypeOK'
  BY DEF TypeOK, StoreTypeOK, ReceiptState, JobState, SessionRow, NoBuffer, NoEpoch, NoJob,
      NoEndpoint, PC, BudgetCaps, Done
<1>2. state[x] \in Done /\ task[x] = "none" /\ disposition[x] # "reserved"
  BY DEF LedgerInv, Done, Dead, Alive, AfterSettle
<1>3. ControlInv' /\ LoopInv' /\ LedgerInv' /\ SendInv' /\ FenceInv'
  BY <1>2 DEF TypeOK, StoreTypeOK, ControlInv, LoopInv, LedgerInv, SendInv, FenceInv,
      InGeneration, Alive, Attempted, CurPc, AfterSettle, RecoverPc, Live, Dead, Done
<1>4. ClaimInv'
  BY StoreAssumption DEF TypeOK, StoreTypeOK, ClaimInv, Done
<1>. QED BY <1>1, <1>3, <1>4

\* A job is queued only if it passes the fence; the superseded ones are queued.
LEMMA SubmitStep == ASSUME IndInv, NEW x \in Jobs, Submit(x) PROVE IndInv'
<1> USE DEF IndInv, Submit, SetState, EnterLoop
<1>1. TypeOK'
  BY DEF TypeOK, StoreTypeOK, ReceiptState, JobState, Dead, Live, SessionRow, NoBuffer, NoEpoch,
      NoJob, NoEndpoint, PC, LoopPc, BudgetCaps, Superseded, Rivals, JobsIn
<1>2. ControlInv' /\ LoopInv' /\ LedgerInv' /\ SendInv' /\ ClaimInv'
  BY DEF TypeOK, StoreTypeOK, ControlInv, LoopInv, LedgerInv, SendInv, ClaimInv, Alive,
      Attempted, CurPc, AfterSettle, RecoverPc, Live, Dead, Superseded, Rivals, JobsIn
<1>3. FenceInv'
  BY DEF TypeOK, StoreTypeOK, FenceInv, InGeneration, InvalidReason, Reason, Admissible, Alive,
      Live
<1>. QED BY <1>1, <1>2, <1>3

\* A superseded job was queued: it has neither attempt nor task.
LEMMA SupersedeStep == ASSUME IndInv, NEW x \in Jobs, Supersede(x) PROVE IndInv'
<1> USE DEF IndInv, Supersede, ReceiptStep, SetState, NextInLoop
<1>1. TypeOK'
  BY DEF TypeOK, StoreTypeOK, ReceiptState, JobState, Dead, Live, Done, NoJob, PC, CurPc, LoopPc
<1>2. ControlInv' /\ LoopInv' /\ LedgerInv' /\ SendInv' /\ ClaimInv' /\ FenceInv'
  BY DEF TypeOK, StoreTypeOK, ControlInv, LoopInv, LedgerInv, Alive, Attempted, CurPc,
      AfterSettle, RecoverPc, Live, Dead, SendInv, ClaimInv, FenceInv, InGeneration
<1>. QED BY <1>1, <1>2

\* An expired RUNNING receipt keeps its attempt and its task.
LEMMA ExpireStep == ASSUME IndInv, NEW x \in Jobs, Expire(x) PROVE IndInv'
<1> USE DEF IndInv, Expire, ReceiptStep, SetState, NextInLoop
<1>1. TypeOK'
  BY DEF TypeOK, StoreTypeOK, ReceiptState, JobState, Dead, Live, Done, NoJob, PC, CurPc,
      LoopPc, FenceState
<1>2. ControlInv' /\ LoopInv' /\ LedgerInv' /\ SendInv' /\ ClaimInv' /\ FenceInv'
  BY DEF TypeOK, StoreTypeOK, ControlInv, LoopInv, LedgerInv, Alive, Attempted, CurPc,
      AfterSettle, RecoverPc, Live, Dead, FenceState, SendInv, ClaimInv, FenceInv, InGeneration
<1>. QED BY <1>1, <1>2

\* A rejected dependent was queued.
LEMMA RejectDependentStep == ASSUME IndInv, NEW x \in Jobs, RejectDependent(x) PROVE IndInv'
<1> USE DEF IndInv, RejectDependent, ReceiptStep, SetState
<1>1. TypeOK'
  BY DEF TypeOK, StoreTypeOK, ReceiptState, JobState, Dead, Live, Done
<1>2. ControlInv' /\ LoopInv' /\ LedgerInv' /\ SendInv' /\ ClaimInv' /\ FenceInv'
  BY DEF TypeOK, StoreTypeOK, ControlInv, LoopInv, LedgerInv, Alive, Attempted, CurPc,
      AfterSettle, RecoverPc, Live, Dead, SendInv, ClaimInv, FenceInv, InGeneration
<1>. QED BY <1>1, <1>2

\* A job that fails the fence at dispatch was queued.
LEMMA DispatchFencedStep == ASSUME IndInv, NEW x \in Jobs, DispatchFenced(x) PROVE IndInv'
<1> USE DEF IndInv, DispatchFenced, ReceiptStep, SetState, NextInLoop, FirstInRank
<1>1. TypeOK'
  BY DEF TypeOK, StoreTypeOK, ReceiptState, JobState, Dead, Live, Done, NoJob, PC, CurPc,
      LoopPc, FenceState
<1>2. ControlInv' /\ LoopInv' /\ LedgerInv' /\ SendInv' /\ ClaimInv' /\ FenceInv'
  BY DEF TypeOK, StoreTypeOK, ControlInv, LoopInv, LedgerInv, Alive, Attempted, CurPc,
      AfterSettle, RecoverPc, Live, Dead, FenceState, SendInv, ClaimInv, FenceInv, InGeneration
<1>. QED BY <1>1, <1>2

\* A cached job succeeds without an attempt.
LEMMA DispatchFromCacheStep == ASSUME IndInv, NEW x \in Jobs, DispatchFromCache(x) PROVE IndInv'
<1> USE DEF IndInv, DispatchFromCache, SetState, NextInLoop, FirstInRank
<1>1. TypeOK'
  BY DEF TypeOK, StoreTypeOK, ReceiptState, JobState, Dead, Live, Done, NoJob, PC, CurPc,
      LoopPc, CacheHits
<1>2. ControlInv' /\ LoopInv' /\ LedgerInv' /\ SendInv' /\ ClaimInv' /\ FenceInv'
  BY DEF TypeOK, StoreTypeOK, ControlInv, LoopInv, LedgerInv, Alive, Attempted, CurPc,
      AfterSettle, RecoverPc, Live, Dead, SendInv, ClaimInv, FenceInv, InGeneration
<1>. QED BY <1>1, <1>2

\* A job without a feasible endpoint stays queued.
LEMMA DispatchSkippedStep == ASSUME IndInv, NEW x \in Jobs, DispatchSkipped(x) PROVE IndInv'
<1> USE DEF IndInv, DispatchSkipped, NextInLoop, FirstInRank
<1>1. TypeOK'
  BY DEF TypeOK, StoreTypeOK, NoJob, PC, CurPc, LoopPc
<1>2. ControlInv' /\ LoopInv' /\ LedgerInv' /\ SendInv' /\ ClaimInv' /\ FenceInv'
  BY DEF TypeOK, StoreTypeOK, ControlInv, LoopInv, LedgerInv, Alive, Attempted, CurPc,
      AfterSettle, RecoverPc, Live, Dead, SendInv, ClaimInv, FenceInv, InGeneration
<1>. QED BY <1>1, <1>2

\* A job over the ceiling dies without an attempt.
LEMMA DispatchOverCeilingStep ==
    ASSUME IndInv, NEW x \in Jobs, DispatchOverCeiling(x)
    PROVE  IndInv'
<1> USE DEF IndInv, DispatchOverCeiling, ReceiptStep, SetState, NextInLoop, FirstInRank
<1>1. TypeOK'
  BY DEF TypeOK, StoreTypeOK, ReceiptState, JobState, Dead, Live, Done, NoJob, PC, CurPc, LoopPc
<1>2. ControlInv' /\ LoopInv' /\ LedgerInv' /\ SendInv' /\ ClaimInv' /\ FenceInv'
  BY DEF TypeOK, StoreTypeOK, ControlInv, LoopInv, LedgerInv, Alive, Attempted, CurPc,
      AfterSettle, RecoverPc, Live, Dead, SendInv, ClaimInv, FenceInv, InGeneration
<1>. QED BY <1>1, <1>2

\* A reservation is made for a queued job that was never attempted.
LEMMA DispatchReserveStep == ASSUME IndInv, NEW x \in Jobs, DispatchReserve(x) PROVE IndInv'
<1> USE DEF IndInv, DispatchReserve, Reserve, FirstInRank
<1>0. PICK e \in BestEndpoints(x) : Reserve(x, e)
  OBVIOUS
<1>1. e \in Endpoints
  BY JobAssumption DEF BestEndpoints, ChooseEndpoint, Feasible, JobBody
<1>2. state[x] = "QUEUED" /\ disposition[x] = "none" /\ task[x] = "none" /\ sends[x] = 0
  BY DEF LoopInv, LedgerInv, SendInv, ControlInv, TypeOK, StoreTypeOK, Alive, Attempted, Dead,
      RecoverPc
<1>3. TypeOK'
  BY <1>0, <1>1 DEF TypeOK, StoreTypeOK, NoEndpoint, NoJob, PC, CurPc
<1>4. ControlInv' /\ LoopInv' /\ SendInv' /\ ClaimInv' /\ FenceInv'
  BY <1>0, <1>2 DEF TypeOK, StoreTypeOK, ControlInv, LoopInv, SendInv, ClaimInv, FenceInv,
      InGeneration, Alive, Attempted, CurPc, AfterSettle, RecoverPc
<1>5. LedgerInv'
  BY <1>0, <1>1, <1>2 DEF TypeOK, StoreTypeOK, ControlInv, LedgerInv, Alive, Attempted,
      AfterSettle, RecoverPc
<1>. QED BY <1>3, <1>4, <1>5

\* A task whose job failed the fence settles its attempt before it ends.
LEMMA StartFencedStep == ASSUME IndInv, NEW x \in Jobs, StartFenced(x) PROVE IndInv'
<1> USE DEF IndInv, StartFenced, Serving, Goto, Settle
<1>1. TypeOK'
  BY DEF TypeOK, StoreTypeOK, NoJob, NoCost, PC, CurPc, LoopPc
<1>2. ControlInv' /\ LoopInv' /\ LedgerInv' /\ SendInv' /\ ClaimInv' /\ FenceInv'
  BY DEF TypeOK, StoreTypeOK, ControlInv, LoopInv, LedgerInv, Alive, Attempted, CurPc,
      AfterSettle, RecoverPc, Live, NoCost, Dead, SendInv, ClaimInv, FenceInv, InGeneration
<1>. QED BY <1>1, <1>2

\* A task that starts to wait has not been sent.
LEMMA StartInferStep == ASSUME IndInv, NEW x \in Jobs, StartInfer(x) PROVE IndInv'
<1> USE DEF IndInv, StartInfer, Serving, TaskStep
<1>1. TypeOK'
  BY DEF TypeOK, StoreTypeOK
<1>2. ControlInv' /\ LoopInv' /\ LedgerInv' /\ SendInv' /\ ClaimInv' /\ FenceInv'
  BY DEF TypeOK, StoreTypeOK, ControlInv, LoopInv, LedgerInv, Alive, Attempted, CurPc,
      AfterSettle, RecoverPc, Live, Dead, SendInv, ClaimInv, FenceInv, InGeneration
<1>. QED BY <1>1, <1>2

\* A request is sent once, by a live task.
LEMMA SendStep == ASSUME IndInv, NEW x \in Jobs, Send(x) PROVE IndInv'
<1> USE DEF IndInv, Send, Serving, TaskStep
<1>1. TypeOK'
  BY DEF TypeOK, StoreTypeOK
<1>2. ControlInv' /\ LoopInv' /\ LedgerInv' /\ SendInv' /\ ClaimInv' /\ FenceInv'
  BY DEF TypeOK, StoreTypeOK, ControlInv, LoopInv, LedgerInv, Alive, Attempted, CurPc,
      AfterSettle, RecoverPc, Live, Dead, SendInv, ClaimInv, FenceInv, InGeneration
<1>. QED BY <1>1, <1>2

\* Remote compute ends without the coordinator noticing.
LEMMA RemoteFinishStep == ASSUME IndInv, NEW x \in Jobs, RemoteFinish(x) PROVE IndInv'
<1> USE DEF IndInv, RemoteFinish
<1>1. TypeOK'
  BY DEF TypeOK, StoreTypeOK
<1>2. ControlInv' /\ LoopInv' /\ LedgerInv' /\ SendInv' /\ ClaimInv' /\ FenceInv'
  BY DEF TypeOK, StoreTypeOK, ControlInv, LoopInv, LedgerInv, Alive, Attempted, CurPc,
      AfterSettle, RecoverPc, Live, Dead, SendInv, ClaimInv, FenceInv, InGeneration
<1>. QED BY <1>1, <1>2

\* The charge of a result is settled before its receipt.
LEMMA SucceedStep == ASSUME IndInv, NEW x \in Jobs, Succeed(x) PROVE IndInv'
<1> USE DEF IndInv, Succeed, Serving, Goto, Settle, SettleThen
<1>1. TypeOK'
  BY StoreAssumption DEF TypeOK, StoreTypeOK, NoJob, NoCost, PC, CurPc, LoopPc
<1>2. ControlInv' /\ LoopInv' /\ LedgerInv' /\ SendInv' /\ ClaimInv' /\ FenceInv'
  BY DEF TypeOK, StoreTypeOK, ControlInv, LoopInv, LedgerInv, Alive, Attempted, CurPc,
      AfterSettle, RecoverPc, Live, NoCost, Dead, SendInv, ClaimInv, FenceInv, InGeneration
<1>. QED BY <1>1, <1>2

\* A refusal before the wire settles the attempt.
LEMMA FailNotSentStep == ASSUME IndInv, NEW x \in Jobs, FailNotSent(x) PROVE IndInv'
<1> USE DEF IndInv, FailNotSent, Serving, Goto, Settle, SettleThen
<1>1. TypeOK'
  BY DEF TypeOK, StoreTypeOK, NoJob, NoCost, PC, CurPc, LoopPc
<1>2. ControlInv' /\ LoopInv' /\ LedgerInv' /\ SendInv' /\ ClaimInv' /\ FenceInv'
  BY DEF TypeOK, StoreTypeOK, ControlInv, LoopInv, LedgerInv, Alive, Attempted, CurPc,
      AfterSettle, RecoverPc, Live, NoCost, Dead, SendInv, ClaimInv, FenceInv, InGeneration
<1>. QED BY <1>1, <1>2

\* A failure with known termination settles the attempt.
LEMMA FailKnownStep == ASSUME IndInv, NEW x \in Jobs, FailKnown(x) PROVE IndInv'
<1> USE DEF IndInv, FailKnown, Serving, Goto, Settle, SettleThen
<1>1. TypeOK'
  BY DEF TypeOK, StoreTypeOK, NoJob, NoCost, PC, CurPc, LoopPc
<1>2. ControlInv' /\ LoopInv' /\ LedgerInv' /\ SendInv' /\ ClaimInv' /\ FenceInv'
  BY DEF TypeOK, StoreTypeOK, ControlInv, LoopInv, LedgerInv, Alive, Attempted, CurPc,
      AfterSettle, RecoverPc, Live, NoCost, Dead, SendInv, ClaimInv, FenceInv, InGeneration
<1>. QED BY <1>1, <1>2

\* A timeout or a cancellation settles the attempt.
LEMMA FailUnknownStep == ASSUME IndInv, NEW x \in Jobs, FailUnknown(x) PROVE IndInv'
<1> USE DEF IndInv, FailUnknown, Serving, Goto, Settle, SettleThen
<1>1. TypeOK'
  BY DEF TypeOK, StoreTypeOK, NoJob, NoCost, PC, CurPc, LoopPc
<1>2. ControlInv' /\ LoopInv' /\ LedgerInv' /\ SendInv' /\ ClaimInv' /\ FenceInv'
  BY DEF TypeOK, StoreTypeOK, ControlInv, LoopInv, LedgerInv, Alive, Attempted, CurPc,
      AfterSettle, RecoverPc, Live, NoCost, Dead, SendInv, ClaimInv, FenceInv, InGeneration
<1>. QED BY <1>1, <1>2

\* Cancelling a running job leaves its attempt and its task alone.
LEMMA CancelStep == ASSUME IndInv, NEW x \in Jobs, Cancel(x) PROVE IndInv'
<1> USE DEF IndInv, Cancel, ReceiptStep, SetState, Serving
<1>1. TypeOK'
  BY DEF TypeOK, StoreTypeOK, ReceiptState, JobState, Dead, Live, Done
<1>2. ControlInv' /\ LoopInv' /\ LedgerInv' /\ SendInv' /\ ClaimInv' /\ FenceInv'
  BY DEF TypeOK, StoreTypeOK, ControlInv, LoopInv, LedgerInv, Alive, Attempted, CurPc,
      AfterSettle, RecoverPc, Live, Dead, SendInv, ClaimInv, FenceInv, InGeneration
<1>. QED BY <1>1, <1>2

\* close cancels queued jobs only.
LEMMA ShutdownCancelStep == ASSUME IndInv, NEW x \in Jobs, ShutdownCancel(x) PROVE IndInv'
<1> USE DEF IndInv, ShutdownCancel, ReceiptStep, SetState, NextInLoop
<1>1. TypeOK'
  BY DEF TypeOK, StoreTypeOK, ReceiptState, JobState, Dead, Live, Done, NoJob, PC, CurPc, LoopPc
<1>2. ControlInv' /\ LoopInv' /\ LedgerInv' /\ SendInv' /\ ClaimInv' /\ FenceInv'
  BY DEF TypeOK, StoreTypeOK, ControlInv, LoopInv, LedgerInv, Alive, Attempted, CurPc,
      AfterSettle, RecoverPc, Live, Dead, SendInv, ClaimInv, FenceInv, InGeneration
<1>. QED BY <1>1, <1>2

\* Recovery ends a live receipt; a RUNNING one has an attempt to settle.
LEMMA RecoverReceiptStep == ASSUME IndInv, NEW x \in Jobs, RecoverReceipt(x) PROVE IndInv'
<1> USE DEF IndInv, RecoverReceipt, SetState, NextInLoop, RecoveryStep
<1>1. TypeOK'
  BY DEF TypeOK, StoreTypeOK, ReceiptState, JobState, Dead, Live, Done, NoJob, PC, CurPc, LoopPc
<1>2. ControlInv' /\ LoopInv' /\ LedgerInv' /\ SendInv' /\ ClaimInv' /\ FenceInv'
  BY DEF TypeOK, StoreTypeOK, ControlInv, LoopInv, LedgerInv, Alive, Attempted, CurPc,
      AfterSettle, RecoverPc, Live, Dead, SendInv, ClaimInv, FenceInv, InGeneration
<1>. QED BY <1>1, <1>2

\* Recovery takes up an attempt that is still reserved.
LEMMA RecoverAttemptStep == ASSUME IndInv, NEW x \in Jobs, RecoverAttempt(x) PROVE IndInv'
<1> USE DEF IndInv, RecoverAttempt, Goto, Quarantine, RecoveryStep
<1>0. PoolOf(x) \in Pools
  BY AttemptPlace DEF Reserved, Attempted
<1>1. TypeOK'
  BY <1>0 DEF TypeOK, StoreTypeOK, NoJob, PC, CurPc, LoopPc, Reserved
<1>2. ControlInv' /\ LoopInv' /\ LedgerInv' /\ SendInv' /\ ClaimInv' /\ FenceInv'
  BY DEF TypeOK, StoreTypeOK, ControlInv, LoopInv, LedgerInv, Alive, Attempted, CurPc,
      AfterSettle, RecoverPc, Live, Reserved, Dead, SendInv, ClaimInv, FenceInv, InGeneration
<1>. QED BY <1>1, <1>2

\* tick starts with the jobs that fail the fence.
LEMMA TickStep == ASSUME IndInv, Tick PROVE IndInv'
<1> USE DEF IndInv, Tick, EnterLoop
<1>1. TypeOK' /\ LoopInv'
  BY DEF TypeOK, StoreTypeOK, PC, LoopPc, LoopInv, ControlInv, RecoverPc, Fenced, JobsIn
<1>2. ControlInv' /\ LedgerInv' /\ SendInv' /\ ClaimInv' /\ FenceInv'
  BY DEF ControlInv, LedgerInv, SendInv, ClaimInv, FenceInv, InGeneration, Alive, Attempted,
      CurPc, AfterSettle, RecoverPc
<1>. QED BY <1>1, <1>2

\* The dispatch loop ranks queued jobs.
LEMMA StartDispatchStep == ASSUME IndInv, StartDispatch PROVE IndInv'
<1> USE DEF IndInv, StartDispatch, EnterLoop
<1>1. TypeOK'
  BY DEF TypeOK, StoreTypeOK, NoJob, PC, CurPc, LoopPc, JobsIn, ReadyJobs
<1>2. ControlInv' /\ LoopInv' /\ LedgerInv' /\ SendInv' /\ ClaimInv' /\ FenceInv'
  BY DEF TypeOK, StoreTypeOK, ControlInv, LoopInv, LedgerInv, Alive, Attempted, CurPc,
      AfterSettle, RecoverPc, Live, JobsIn, ReadyJobs, Dead, SendInv, ClaimInv, FenceInv,
      InGeneration
<1>. QED BY <1>1, <1>2

\* The receipt becomes RUNNING together with its task.
LEMMA MarkRunningStep == ASSUME IndInv, MarkRunning PROVE IndInv'
<1> USE DEF IndInv, MarkRunning, SetState, Occupy
<1>0. cur \in Jobs /\ attemptEp[cur] \in Endpoints /\ PoolOf(cur) \in Pools
  BY AttemptPlace DEF ControlInv, CurPc
<1>1. TypeOK'
  BY <1>0 DEF TypeOK, StoreTypeOK, ReceiptState, JobState, Dead, Live, Done, NoJob, PC, CurPc,
      LoopPc
<1>2. ControlInv' /\ LoopInv' /\ LedgerInv' /\ SendInv' /\ ClaimInv' /\ FenceInv'
  BY DEF TypeOK, StoreTypeOK, ControlInv, LoopInv, LedgerInv, Alive, Attempted, CurPc,
      AfterSettle, RecoverPc, Live, Dead, SendInv, ClaimInv, FenceInv, InGeneration
<1>. QED BY <1>1, <1>2

\* A fenced task ends with a dead receipt.
LEMMA NotSentStep == ASSUME IndInv, NotSent PROVE IndInv'
<1> USE DEF IndInv, NotSent, SetState, Goto, Release
<1>0. cur \in Jobs /\ attemptEp[cur] \in Endpoints /\ PoolOf(cur) \in Pools
  BY AttemptPlace DEF ControlInv, CurPc
<1>1. TypeOK'
  BY <1>0 DEF TypeOK, StoreTypeOK, ReceiptState, JobState, Dead, Live, Done, NoJob, PC, CurPc,
      LoopPc, FenceState
<1>2. ControlInv' /\ LoopInv' /\ LedgerInv' /\ SendInv' /\ ClaimInv' /\ FenceInv'
  BY DEF TypeOK, StoreTypeOK, ControlInv, LoopInv, LedgerInv, Alive, Attempted, CurPc,
      AfterSettle, RecoverPc, Live, Dead, FenceState, SendInv, ClaimInv, FenceInv, InGeneration
<1>. QED BY <1>1, <1>2

\* A result leaves a receipt that is no longer RUNNING as it is.
LEMMA CompleteStep == ASSUME IndInv, Complete PROVE IndInv'
<1> USE DEF IndInv, Complete, SetState, Goto, Release
<1>0. cur \in Jobs /\ attemptEp[cur] \in Endpoints /\ PoolOf(cur) \in Pools
  BY AttemptPlace DEF ControlInv, CurPc
<1>1. state'[cur] \in {"SUCCEEDED"} \cup Dead /\ task[cur] = "sent" /\ disposition[cur] # "reserved"
  BY <1>0, FenceStateDead DEF TypeOK, StoreTypeOK, LedgerInv, ControlInv, SendInv, AfterSettle,
      Alive, RecoverPc, Dead
<1>2. TypeOK'
  BY <1>0, FenceStateDead DEF TypeOK, StoreTypeOK, ReceiptState, JobState, Dead, Done, NoJob, PC
<1>3. LedgerInv' /\ SendInv'
  BY <1>0, <1>1 DEF TypeOK, StoreTypeOK, ControlInv, LedgerInv, SendInv, Alive, Attempted,
      AfterSettle, RecoverPc, Dead
<1>4. ControlInv' /\ LoopInv' /\ ClaimInv' /\ FenceInv'
  BY <1>0, <1>1 DEF TypeOK, StoreTypeOK, ControlInv, LoopInv, LedgerInv, ClaimInv, FenceInv,
      InGeneration, Alive, Attempted, CurPc, AfterSettle, RecoverPc, Live, Dead
<1>. QED BY <1>2, <1>3, <1>4

\* A failure leaves a receipt that is no longer RUNNING as it is.
LEMMA FailReceiptStep == ASSUME IndInv, FailReceipt PROVE IndInv'
<1> USE DEF IndInv, FailReceipt, SetState, Goto, Release
<1>0. cur \in Jobs /\ attemptEp[cur] \in Endpoints /\ PoolOf(cur) \in Pools
  BY AttemptPlace DEF ControlInv, CurPc
<1>1. TypeOK'
  BY <1>0 DEF TypeOK, StoreTypeOK, ReceiptState, JobState, Dead, Live, Done, NoJob, PC, CurPc,
      LoopPc
<1>2. ControlInv' /\ LoopInv' /\ LedgerInv' /\ SendInv' /\ ClaimInv' /\ FenceInv'
  BY DEF TypeOK, StoreTypeOK, ControlInv, LoopInv, LedgerInv, Alive, Attempted, CurPc,
      AfterSettle, RecoverPc, Live, Dead, SendInv, ClaimInv, FenceInv, InGeneration
<1>. QED BY <1>1, <1>2

\* The pool of a computation of unknown fate is quarantined and its task ends.
LEMMA QuarantineStepStep == ASSUME IndInv, QuarantineStep PROVE IndInv'
<1> USE DEF IndInv, QuarantineStep, Quarantine, Release, Goto
<1>0. cur \in Jobs /\ attemptEp[cur] \in Endpoints /\ PoolOf(cur) \in Pools
  BY AttemptPlace DEF ControlInv, CurPc
<1>1. TypeOK'
  BY <1>0 DEF TypeOK, StoreTypeOK, NoJob, PC
<1>2. LedgerInv'
  <2>1. disposition[cur] # "reserved" /\ state[cur] # "RUNNING"
    BY <1>0 DEF LedgerInv, ControlInv, AfterSettle, Alive, RecoverPc
  <2>. QED
    BY <1>0, <2>1 DEF TypeOK, StoreTypeOK, LedgerInv, ControlInv, Alive, Attempted, AfterSettle,
        RecoverPc
<1>3. ControlInv' /\ LoopInv' /\ SendInv' /\ ClaimInv' /\ FenceInv'
  BY <1>0 DEF TypeOK, StoreTypeOK, ControlInv, LoopInv, SendInv, ClaimInv, FenceInv,
      InGeneration, Alive, Attempted, CurPc, AfterSettle, RecoverPc
<1>. QED BY <1>1, <1>2, <1>3

\* close hands the queued jobs to the shutdown loop.
LEMMA CloseStep == ASSUME IndInv, Close PROVE IndInv'
<1> USE DEF IndInv, Close, EnterLoop
<1>1. TypeOK'
  BY DEF TypeOK, StoreTypeOK, NoJob, PC, CurPc, LoopPc, JobsIn
<1>2. ControlInv' /\ LoopInv' /\ LedgerInv' /\ SendInv' /\ ClaimInv' /\ FenceInv'
  BY DEF TypeOK, StoreTypeOK, ControlInv, LoopInv, LedgerInv, Alive, Attempted, CurPc,
      AfterSettle, RecoverPc, Live, JobsIn, Dead, SendInv, ClaimInv, FenceInv, InGeneration
<1>. QED BY <1>1, <1>2

\* The store closes once no task is left.
LEMMA CloseStoreStep == ASSUME IndInv, CloseStore PROVE IndInv'
<1> USE DEF IndInv, CloseStore, ProcessGone
<1>1. TypeOK'
  BY DEF TypeOK, StoreTypeOK, NoJob, PC, CurPc, LoopPc
<1>2. ControlInv' /\ LoopInv' /\ LedgerInv' /\ SendInv' /\ ClaimInv' /\ FenceInv'
  BY DEF TypeOK, StoreTypeOK, ControlInv, LoopInv, LedgerInv, Alive, Attempted, CurPc,
      AfterSettle, RecoverPc, Live, Dead, SendInv, ClaimInv, FenceInv, InGeneration
<1>. QED BY <1>1, <1>2

\* A process that dies takes its tasks with it.
LEMMA CrashStep == ASSUME IndInv, Crash PROVE IndInv'
<1> USE DEF IndInv, Crash, ProcessGone
<1>1. TypeOK'
  BY DEF TypeOK, StoreTypeOK, NoJob, PC, CurPc, LoopPc
<1>2. ControlInv' /\ LoopInv' /\ LedgerInv' /\ SendInv' /\ ClaimInv' /\ FenceInv'
  BY DEF TypeOK, StoreTypeOK, ControlInv, LoopInv, LedgerInv, Alive, Attempted, CurPc,
      AfterSettle, RecoverPc, Live, Dead, SendInv, ClaimInv, FenceInv, InGeneration
<1>. QED BY <1>1, <1>2

\* A new process starts by visiting every live receipt.
LEMMA StartStep == ASSUME IndInv, Start PROVE IndInv'
<1> USE DEF IndInv, Start, EnterLoop
<1>1. TypeOK'
  BY DEF TypeOK, StoreTypeOK, NoJob, PC, CurPc, LoopPc, JobsIn
<1>2. ControlInv' /\ LoopInv' /\ LedgerInv' /\ SendInv' /\ ClaimInv' /\ FenceInv'
  BY DEF TypeOK, StoreTypeOK, ControlInv, LoopInv, LedgerInv, Alive, Attempted, CurPc,
      AfterSettle, RecoverPc, Live, JobsIn, Dead, SendInv, ClaimInv, FenceInv, InGeneration
<1>. QED BY <1>1, <1>2

\* Recovery quarantines the pool of an interrupted job.
LEMMA RecoverQuarantineStep == ASSUME IndInv, RecoverQuarantine PROVE IndInv'
<1> USE DEF IndInv, RecoverQuarantine, Goto, Quarantine, RecoveryStep
<1>0. cur \in Jobs /\ attemptEp[cur] \in Endpoints /\ PoolOf(cur) \in Pools
  BY AttemptPlace DEF ControlInv, CurPc
<1>1. TypeOK'
  BY <1>0 DEF TypeOK, StoreTypeOK, NoJob, PC, CurPc, LoopPc
<1>2. ControlInv' /\ LoopInv' /\ LedgerInv' /\ SendInv' /\ ClaimInv' /\ FenceInv'
  BY DEF TypeOK, StoreTypeOK, ControlInv, LoopInv, LedgerInv, Alive, Attempted, CurPc,
      AfterSettle, RecoverPc, Live, Dead, SendInv, ClaimInv, FenceInv, InGeneration
<1>. QED BY <1>1, <1>2

\* Recovery settles the attempt of an interrupted job.
LEMMA RecoverSettleStep == ASSUME IndInv, RecoverSettle PROVE IndInv'
<1> USE DEF IndInv, RecoverSettle, EnterLoop, Settle, RecoveryStep
<1>1. TypeOK'
  BY DEF TypeOK, StoreTypeOK, NoJob, NoCost, PC, CurPc, LoopPc
<1>2. ControlInv' /\ LoopInv' /\ LedgerInv' /\ SendInv' /\ ClaimInv' /\ FenceInv'
  BY DEF TypeOK, StoreTypeOK, ControlInv, LoopInv, LedgerInv, Alive, Attempted, CurPc,
      AfterSettle, RecoverPc, Live, NoCost, Dead, SendInv, ClaimInv, FenceInv, InGeneration
<1>. QED BY <1>1, <1>2

\* Recovery marks a reserved attempt unknown.
LEMMA RecoverMarkStep == ASSUME IndInv, RecoverMark PROVE IndInv'
<1> USE DEF IndInv, RecoverMark, Goto, RecoveryStep
<1>1. TypeOK'
  BY DEF TypeOK, StoreTypeOK, NoJob, PC, CurPc, LoopPc
<1>2. ControlInv' /\ LoopInv' /\ LedgerInv' /\ SendInv' /\ ClaimInv' /\ FenceInv'
  BY DEF TypeOK, StoreTypeOK, ControlInv, LoopInv, LedgerInv, Alive, Attempted, CurPc,
      AfterSettle, RecoverPc, Live, Dead, SendInv, ClaimInv, FenceInv, InGeneration
<1>. QED BY <1>1, <1>2

\* Recovery ends with no live receipt and no reservation, and closes sessions.
LEMMA RecoverSessionsStep == ASSUME IndInv, RecoverSessions PROVE IndInv'
<1> USE DEF IndInv, RecoverSessions, Goto
<1>0. ASSUME NEW row \in SessionRow PROVE [row EXCEPT !.active = FALSE] \in SessionRow
  BY DEF SessionRow
<1>1. session' \in [Sessions -> SessionRow]
  BY <1>0 DEF TypeOK, StoreTypeOK
<1>2. TypeOK'
  BY <1>1 DEF TypeOK, StoreTypeOK, PC
<1>3. ControlInv' /\ LoopInv' /\ LedgerInv' /\ SendInv' /\ ClaimInv' /\ FenceInv'
  BY DEF TypeOK, StoreTypeOK, ControlInv, LoopInv, LedgerInv, SendInv, ClaimInv, FenceInv,
      Alive, Attempted, CurPc, AfterSettle, RecoverPc, Live, Reserved
<1>. QED BY <1>2, <1>3

\* The operator works while no process runs.
LEMMA OperatorStep == ASSUME IndInv, Operator PROVE IndInv'
<1> USE DEF IndInv, Operator
<1>1. TypeOK'
  <2>1. CASE \E batch \in SUBSET Jobs : Reconcile(batch)
    <3>1. PICK batch \in SUBSET Jobs : Reconcile(batch)
      BY <2>1
    <3>2. PICK charge \in [batch -> Costs] :
              actual' = [j \in Jobs |-> IF j \in batch THEN charge[j] ELSE actual[j]]
      BY <3>1 DEF Reconcile
    <3>3. actual' \in [Jobs -> Nat]
      BY <3>2, StoreAssumption DEF TypeOK, StoreTypeOK
    <3>. QED
      BY <3>1, <3>3 DEF Reconcile, TypeOK, StoreTypeOK
  <2>2. CASE \E p \in Pools : ReleasePool(p)
    BY <2>2 DEF ReleasePool, TypeOK, StoreTypeOK
  <2>3. CASE \E new \in Extensions : ExtendBudget(new)
    BY <2>3, StoreAssumption DEF ExtendBudget, TypeOK, StoreTypeOK
  <2>. QED BY <2>1, <2>2, <2>3
<1>2. ControlInv' /\ LoopInv' /\ LedgerInv' /\ SendInv' /\ ClaimInv' /\ FenceInv'
  BY DEF Reconcile, ReleasePool, ExtendBudget, TypeOK, StoreTypeOK, ControlInv, LoopInv,
      LedgerInv, SendInv, ClaimInv, FenceInv, Alive, Attempted, CurPc, AfterSettle, RecoverPc
<1>. QED BY <1>1, <1>2

\* The clock moves between handlers and between two dispatches.
LEMMA AdvanceClockStep == ASSUME IndInv, AdvanceClock PROVE IndInv'
<1> USE DEF IndInv, AdvanceClock
<1>1. TypeOK'
  BY DEF TypeOK, StoreTypeOK
<1>2. ControlInv' /\ LoopInv' /\ LedgerInv' /\ SendInv' /\ ClaimInv' /\ FenceInv'
  BY DEF TypeOK, StoreTypeOK, ControlInv, LoopInv, LedgerInv, Alive, Attempted, CurPc,
      AfterSettle, RecoverPc, Live, Dead, SendInv, ClaimInv, FenceInv, InGeneration
<1>. QED BY <1>1, <1>2

\* Every step of the coordinator, and a crash at any point, preserves the invariant.
LEMMA NextIndInv == ASSUME IndInv, [Next \/ Crash]_vars PROVE IndInv'
<1>1. CASE \E s \in Sessions : SessionCall(s)
  <2>1. PICK s \in Sessions : SessionCall(s)
    BY <1>1
  <2>2. CASE \E buffer \in now..(now + MaxBuffer) \cup {NoBuffer} : Heartbeat(s, buffer)
    <3>1. now..(now + MaxBuffer) \subseteq Nat
      BY RuntimeAssumption DEF IndInv, TypeOK
    <3>. QED BY <2>2, <3>1, HeartbeatStep
  <2>. QED BY <2>1, <2>2, OpenSessionStep, AdvanceSessionStep DEF SessionCall
<1>2. CASE \E j \in Jobs : ClientCall(j) \/ TaskRuns(j) \/ Send(j) \/ RemoteFinish(j)
  BY <1>2, SubmitStep, CancelStep, ConsumeStep, StartFencedStep, StartInferStep, SucceedStep,
     FailNotSentStep, FailKnownStep, FailUnknownStep, SendStep, RemoteFinishStep
     DEF ClientCall, TaskRuns
<1>3. CASE HandlerStep
  <2>1. CASE \E j \in Jobs : \/ Supersede(j) \/ Expire(j) \/ RejectDependent(j) \/ Dispatch(j)
                            \/ ShutdownCancel(j) \/ RecoverReceipt(j) \/ RecoverAttempt(j)
    BY <2>1, SupersedeStep, ExpireStep, RejectDependentStep, DispatchFencedStep,
       DispatchFromCacheStep, DispatchSkippedStep, DispatchOverCeilingStep, DispatchReserveStep,
       ShutdownCancelStep, RecoverReceiptStep, RecoverAttemptStep DEF Dispatch
  <2>. QED
    BY <1>3, <2>1, StartDispatchStep, MarkRunningStep, NotSentStep, CompleteStep,
       FailReceiptStep, QuarantineStepStep, RecoverQuarantineStep, RecoverSettleStep,
       RecoverMarkStep, RecoverSessionsStep DEF HandlerStep
<1>4. CASE Tick \/ Close \/ CloseStore \/ Start \/ Operator \/ AdvanceClock \/ Crash
  BY <1>4, TickStep, CloseStep, CloseStoreStep, StartStep, OperatorStep, AdvanceClockStep,
     CrashStep
<1>5. CASE UNCHANGED vars
  BY <1>5 DEF vars, IndInv, TypeOK, StoreTypeOK, ControlInv, LoopInv, LedgerInv, SendInv,
     ClaimInv, FenceInv, InGeneration, Alive, Attempted
<1>. QED BY <1>1, <1>2, <1>3, <1>4, <1>5 DEF Next

\* The invariant, for every configuration and any number of crashes and restarts.
THEOREM Invariance == Spec => []IndInv
BY InitIndInv, NextIndInv, PTL DEF Spec

-----------------------------------------------------------------------------
(* Its consequences.                                                       *)

\* Journal, event loop and observers always hold values of their types.
THEOREM TypeCorrect == Spec => []TypeOK
<1>1. IndInv => TypeOK
  BY DEF IndInv
<1>. QED BY <1>1, Invariance, PTL

\* Whenever the coordinator can serve a call, after any crash and any interrupted
\* recovery, a reservation is open exactly while its task lives and a RUNNING
\* receipt has a task: recover leaves no attempt behind.
THEOREM LedgerAgrees == Spec => []ReservationsHaveTasks
<1>1. IndInv => ReservationsHaveTasks
  BY DEF IndInv, LedgerInv, ReservationsHaveTasks, Serving, Alive, AfterSettle
<1>. QED BY <1>1, Invariance, PTL

\* No live job outlives the generation of its session or the process whose clock
\* it was submitted against.
THEOREM GenerationsFenced == Spec => []GenerationFence
<1>1. IndInv => GenerationFence
  BY DEF IndInv, FenceInv, GenerationFence, Serving, Alive, JobsIn, InGeneration
<1>. QED BY <1>1, Invariance, PTL

=============================================================================
