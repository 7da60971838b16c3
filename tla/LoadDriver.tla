----------------------------- MODULE LoadDriver -----------------------------
(***************************************************************************)
(* run_load (load.py): the paced arrival driver.  It releases the items of *)
(* a plan as jobs of a coordinator, starts one collector task per job,     *)
(* waits for the collectors and for the backend attempts still running,    *)
(* writes the report, and cleans up whatever happened.                     *)
(*                                                                         *)
(* The coordinator is seen from outside: a queued job is dispatched,       *)
(* answered from the cache or ended by its serve loop, a dispatched one is *)
(* an attempt that ends within the endpoint's timeout (Runtime has the     *)
(* detail).  The serve loop itself may die of an error.                    *)
(***************************************************************************)
EXTENDS Integers, FiniteSetsExt, SequencesExt

CONSTANTS
    Plans,       \* candidate plans: sequences of items
    MaxQueue,    \* RuntimeConfig.max_queue
    MaxStored,   \* RuntimeConfig.max_jobs: what the journal holds
    Timeout,     \* largest Endpoint.timeout_s
    Grace,       \* what a collector adds to the deadline before it cancels
    MaxTime      \* bound of the clock

Item == [session : Nat, release : Nat, after : Nat, lag : Nat, kind : {"historical", "current", "action_proposal"},
         age : Nat, policy : BOOLEAN, ids : Seq(Nat), hashes : Seq(Nat),
         replace : Nat, discardable : BOOLEAN, cacheable : BOOLEAN,
         model : {"served", "unserved", "unregistered"},    \* unserved: no endpoint it may use
         room : Nat,       \* how many of the identifiers f"{id}-o{k}" fit into a Name's 160 characters
         fits : BOOLEAN]   \* the payload is within strict_json's bound in its canonical ASCII form too

LoadAssumption ==
    /\ Plans \subseteq Seq(Item)
    /\ MaxQueue \in Nat \ {0} /\ MaxStored \in Nat \ {0} /\ Timeout \in Nat \ {0} /\ Grace \in Nat \ {0} /\ MaxTime \in Nat

\* LoadItem: field bounds and current_bound.  Age 0, no ids and slot 0 stand for None; a slot
\* is a replace_key with the model and the operation.
ValidItem(it) ==
    /\ it.after > 0 /\ it.hashes # <<>>
    /\ it.kind # "historical" => it.age > 0
    /\ it.ids # <<>> => Len(it.ids) = Len(it.hashes) /\ Cardinality(ToSet(it.ids)) = Len(it.ids)
    /\ it.replace # 0 => it.discardable
    /\ it.policy => ~it.discardable /\ ~it.cacheable
    /\ it.cacheable => it.kind = "historical"

VARIABLES
    plan,
    now, base,      \* the coordinator's clock, and its value when the sessions were open
    pc,             \* "release", "gather", "pending", "report", "cleanup" or "done"
    next,           \* the next item to release
    state,          \* receipt of each item's job
    attempt,        \* items with a task in Runtime.running: when it started
    collector,      \* "none", "polling" or "over"
    loop,           \* the serve loop is alive
    since,          \* when the wait for pending attempts began
    report,         \* the summary, or NoReport
    failure         \* why the driver's loop raised: "none", "job" (the Observation or Job contract
                    \* refused), or submit's "model", "journal" or "identity"

vars == <<plan, now, base, pc, next, state, attempt, collector, loop, since, report, failure>>

Items == DOMAIN plan
NoReport == [offered |-> -1]
NotRunning == -1
Live == {"queued", "running"}
Ended == {"succeeded", "consumed", "rejected", "expired", "cancelled", "failed", "unknown", "superseded"}

TypeOK ==
    /\ plan \in Plans /\ now \in Nat /\ base \in Nat /\ next \in Nat /\ since \in Nat
    /\ pc \in {"release", "gather", "pending", "report", "cleanup", "done"}
    /\ state \in [Items -> Live \cup Ended \cup {"absent"}]
    /\ attempt \in [Items -> Nat \cup {NotRunning}]
    /\ collector \in [Items -> {"none", "polling", "over"}]
    /\ loop \in BOOLEAN
    /\ failure \in {"none", "job", "model", "journal", "identity"}

\* The plan's items in the order of release; LoadPlan keeps identifiers unique.
Init ==
    /\ plan \in {p \in Plans : /\ \A i \in DOMAIN p : ValidItem(p[i])
                               /\ \A i, j \in DOMAIN p : i < j => p[i].release <= p[j].release}
    /\ now \in {0, 1} /\ base = now
    /\ pc = "release" /\ next = 1 /\ loop = TRUE /\ since = 0 /\ report = NoReport /\ failure = "none"
    /\ state = [i \in Items |-> "absent"]
    /\ attempt = [i \in Items |-> NotRunning]
    /\ collector = [i \in Items |-> "none"]

-----------------------------------------------------------------------------
\* The job of an item.

ReleaseNs(i) == base + plan[i].release
CaptureNs(i) == Max({0, ReleaseNs(i) - plan[i].lag})
DeadlineNs(i) == ReleaseNs(i) + plan[i].after

\* Observation.source_fingerprint of the k-th evidence of item i.
Evidence(i, k) ==
    [id |-> IF plan[i].ids # <<>> THEN <<0, plan[i].ids[k]>> ELSE <<i, k>>, session |-> plan[i].session,
     sequence |-> k, hash |-> plan[i].hashes[k], capture |-> CaptureNs(i), available |-> ReleaseNs(i)]
EvidenceOf(i) == {Evidence(i, k) : k \in DOMAIN plan[i].hashes}

LatestNs(i) ==
    IF plan[i].kind = "historical" THEN DeadlineNs(i)
    ELSE Min({DeadlineNs(i), CaptureNs(i) + plan[i].age})

\* The identifiers of the observations are Names: an item's own are, generated ones may not be.
NamesFit(i) == plan[i].ids # <<>> \/ Len(plan[i].hashes) <= plan[i].room

\* Observation.id, Observation.ordered and Job.valid for the job that is built, and for the one
\* submit reads back, whose payload is in canonical form.
ValidJob(i) ==
    /\ NamesFit(i) /\ plan[i].fits /\ EvidenceOf(i) # {}
    /\ DeadlineNs(i) > ReleaseNs(i)
    /\ \A e, f \in EvidenceOf(i) : e.id = f.id => e = f
    /\ \A e \in EvidenceOf(i) : e.capture <= e.available /\ e.available <= ReleaseNs(i)
    /\ plan[i].kind # "historical" => plan[i].age # 0
    /\ plan[i].replace # 0 => plan[i].discardable
    /\ plan[i].policy => ~plan[i].discardable /\ ~plan[i].cacheable
    /\ plan[i].cacheable => plan[i].kind = "historical"

Stored == {j \in Items : state[j] # "absent"}
Queued == {j \in Items : state[j] = "queued"}

\* Runtime.submit raises before it looks at the job's chances.
Registered(i) == plan[i].model # "unregistered"
JournalFull == Cardinality(Stored) >= MaxStored

\* Store.add_job: a source identifier cannot get different pixels or times.
Conflict(i, j) == \E e \in EvidenceOf(i), f \in EvidenceOf(j) : e.id = f.id /\ e.session = f.session /\ e # f
IdentityReused(i) == \E j \in Stored : Conflict(i, j)

\* Latest-only replacement: queued items of the same slot; those with an older snapshot make room.
Rivals(i) == {j \in Queued : /\ plan[i].replace # 0 /\ plan[j].replace = plan[i].replace
                             /\ plan[j].session = plan[i].session}
Superseded(i) == {j \in Rivals(i) : ReleaseNs(j) < ReleaseNs(i)}

Rejected(i) ==
    \/ now >= LatestNs(i)
    \/ Rivals(i) # Superseded(i)
    \/ Cardinality(Queued \ Superseded(i)) >= MaxQueue
    \/ plan[i].model = "unserved"

-----------------------------------------------------------------------------
\* The driver.

ReleaseItem ==
    LET i == next
    IN  /\ pc = "release" /\ i \in Items /\ now >= ReleaseNs(i)
        /\ ValidJob(i) /\ Registered(i) /\ ~JournalFull /\ ~IdentityReused(i)
        /\ \/ Rejected(i) /\ state' = [state EXCEPT ![i] = "rejected"]
           \/ /\ ~Rejected(i)
              /\ state' = [j \in Items |-> IF j = i THEN "queued"
                                           ELSE IF j \in Superseded(i) THEN "superseded" ELSE state[j]]
        /\ collector' = [collector EXCEPT ![i] = "polling"]
        /\ next' = next + 1
        /\ UNCHANGED <<plan, now, base, pc, attempt, loop, since, report, failure>>

\* The item's job is refused as it is built, or submit raises.
ReleaseRaises ==
    LET i == next
    IN  /\ pc = "release" /\ i \in Items /\ now >= ReleaseNs(i)
        /\ \/ ~ValidJob(i) /\ failure' = "job"
           \/ ValidJob(i) /\ ~Registered(i) /\ failure' = "model"
           \/ ValidJob(i) /\ Registered(i) /\ JournalFull /\ failure' = "journal"
           \/ ValidJob(i) /\ Registered(i) /\ ~JournalFull /\ IdentityReused(i) /\ failure' = "identity"
        /\ pc' = "cleanup"
        /\ UNCHANGED <<plan, now, base, next, state, attempt, collector, loop, since, report>>

AllReleased ==
    /\ pc = "release" /\ next \notin Items
    /\ pc' = "gather"
    /\ UNCHANGED <<plan, now, base, next, state, attempt, collector, loop, since, report, failure>>

\* asyncio.gather(*collectors).
Gathered ==
    /\ pc = "gather" /\ \A i \in Items : collector[i] = "over"
    /\ pc' = "pending" /\ since' = now
    /\ UNCHANGED <<plan, now, base, next, state, attempt, collector, loop, report, failure>>

Running == {i \in Items : attempt[i] # NotRunning}

\* Mutant: the report does not wait for the attempts.
PendingOver_NoWait == TRUE

PendingOver == Running = {} \/ now > since + Timeout

Pending ==
    /\ pc = "pending" /\ PendingOver
    /\ pc' = "report"
    /\ UNCHANGED <<plan, now, base, next, state, attempt, collector, loop, since, report, failure>>

\* telemetry.summarize: counts over every stored job.
Summary ==
    LET rows == {i \in Items : state[i] # "absent"}
    IN  [offered |-> Cardinality(rows),
         states |-> [s \in Ended \cup Live |-> Cardinality({i \in rows : state[i] = s})],
         usable |-> Cardinality({i \in rows : state[i] \in {"succeeded", "consumed"}}),
         consumed |-> Cardinality({i \in rows : state[i] = "consumed"}),
         unfinished |-> Running]

WriteReport ==
    /\ pc = "report"
    /\ report' = Summary
    /\ pc' = "cleanup"
    /\ UNCHANGED <<plan, now, base, next, state, attempt, collector, loop, since, failure>>

\* The finally block: stop the loop and the collectors, then Runtime.close, which
\* cancels what is queued, drains the attempts and gives up on the rest.
Cleanup ==
    /\ pc = "cleanup"
    /\ loop' = FALSE
    /\ collector' = [i \in Items |-> IF collector[i] = "polling" THEN "over" ELSE collector[i]]
    /\ \E answer \in [Items -> {"succeeded", "failed", "unknown"}] :
           state' = [i \in Items |-> CASE state[i] = "queued" -> "cancelled"
                                       [] state[i] = "running" -> answer[i]
                                       [] OTHER -> state[i]]
    /\ attempt' = [i \in Items |-> NotRunning]
    /\ pc' = "done"
    /\ UNCHANGED <<plan, now, base, next, since, report, failure>>

-----------------------------------------------------------------------------
\* A collector looks at its job's receipt.

\* Mutant: a collector waits for its job for ever.
GiveUp_Never(i) == FALSE

GiveUp(i) == now >= DeadlineNs(i) + Grace

Collect(i) ==
    /\ collector[i] = "polling"
    /\ \/ /\ state[i] \notin Live
          /\ state' = [state EXCEPT ![i] = IF @ = "succeeded" /\ now < LatestNs(i) THEN "consumed" ELSE @]
       \/ /\ state[i] \in Live /\ GiveUp(i)
          /\ state' = [state EXCEPT ![i] = "cancelled"]
    /\ collector' = [collector EXCEPT ![i] = "over"]
    /\ UNCHANGED <<plan, now, base, pc, next, attempt, loop, since, report, failure>>

-----------------------------------------------------------------------------
\* The coordinator.

Dispatch(i) ==
    /\ loop /\ state[i] = "queued" /\ now < LatestNs(i)
    /\ \/ state' = [state EXCEPT ![i] = "running"] /\ attempt' = [attempt EXCEPT ![i] = now]
       \/ plan[i].cacheable /\ state' = [state EXCEPT ![i] = "succeeded"] /\ UNCHANGED attempt
    /\ UNCHANGED <<plan, now, base, pc, next, collector, loop, since, report, failure>>

\* _expire: the receipt ends, the attempt goes on.
Expire(i) ==
    /\ loop /\ state[i] \in Live /\ now >= LatestNs(i)
    /\ state' = [state EXCEPT ![i] = "expired"]
    /\ UNCHANGED <<plan, now, base, pc, next, attempt, collector, loop, since, report, failure>>

\* The task of a dispatched job ends: an answer counts if the receipt still runs.
AttemptEnds(i) ==
    /\ attempt[i] # NotRunning
    /\ attempt' = [attempt EXCEPT ![i] = NotRunning]
    /\ state' \in {[state EXCEPT ![i] = IF @ = "running" THEN s ELSE @] : s \in {"succeeded", "failed", "unknown"}}
    /\ UNCHANGED <<plan, now, base, pc, next, collector, loop, since, report, failure>>

LoopDies ==
    /\ loop /\ pc # "done" /\ loop' = FALSE
    /\ UNCHANGED <<plan, now, base, pc, next, state, attempt, collector, since, report, failure>>

\* wait_for ends an attempt at its timeout: time does not pass it by.
AdvanceClock ==
    /\ now < MaxTime /\ pc # "done"
    /\ \A i \in Running : now < attempt[i] + Timeout
    /\ now' = now + 1
    /\ UNCHANGED <<plan, base, pc, next, state, attempt, collector, loop, since, report, failure>>

DriverStep == ReleaseItem \/ ReleaseRaises \/ AllReleased \/ Gathered \/ Pending \/ WriteReport \/ Cleanup
Next ==
    \/ DriverStep \/ LoopDies \/ AdvanceClock
    \/ \E i \in Items : Collect(i) \/ Dispatch(i) \/ Expire(i) \/ AttemptEnds(i)

\* The event loop runs every ready task, an attempt has a timeout, time passes.
Fairness ==
    /\ WF_vars(DriverStep) /\ WF_vars(AdvanceClock)
    /\ WF_vars(\E i \in Items : Collect(i)) /\ WF_vars(\E i \in Items : AttemptEnds(i))
Spec == Init /\ [][Next]_vars /\ Fairness

-----------------------------------------------------------------------------
\* Properties.

\* "All offered/rejected/expired work remains in the denominator", and "finish known backend
\* attempts before final cost report where possible": a report counts every item of the plan
\* once, none of them still queued or running, and no attempt is left unsettled, because the
\* wait for the attempts is longer than any of them may take.
ReportComplete ==
    report # NoReport =>
        /\ report.offered = Len(plan) /\ report.states["queued"] = 0 /\ report.states["running"] = 0
        /\ report.offered = MapThenSumSet(LAMBDA s : report.states[s], Ended)
        /\ report.unfinished = {}

\* What the validators of a plan do not look at, and what stops its campaign: generated
\* observation identifiers that are too long, a payload that grows past its bound, a model that
\* is not registered, more items than the journal holds, and evidence that changes its identity.
Releasable(i) ==
    /\ NamesFit(i) /\ plan[i].fits /\ Registered(i) /\ i <= MaxStored
    /\ \A j \in 1..(i - 1) : ~Conflict(i, j)

\* A campaign ends, even when the serve loop has died with jobs in the queue, and it ends with
\* its report if and only if every item is releasable: whatever the validators of the plan
\* admit otherwise, the Job contract admits too.
LoadEnds == <>(pc = "done" /\ (report # NoReport <=> \A i \in Items : Releasable(i)))
=============================================================================
