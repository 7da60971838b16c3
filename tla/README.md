# A TLA+ model of the agmina runtime

The agmina runtime is a single-process asyncio coordinator that takes inference jobs from robot
hosts, places them on bounded endpoint pools, and hands results to consumers, while it journals every
decision in SQLite and keeps a cumulative spending ceiling. It promises that a crash never replays an
inference, that work of an old session generation is never consumed, that a pool with unconfirmed
remote work is not used, and that money is never forgotten. Around it are the HTTP backends, a loopback
sidecar with its clients, host adapters and the machinery of experiments. This directory models all of
these, checks them with TLC, and proves with TLAPS every safety property of a passing run, of the
coordinator and of every other part, for all values of their constants.

Paths below are relative to the repository (`src/agmina_runtime/...` is the package).

## Inventory

| Component | State | Operations | Hard behaviour | What makes it correct |
|---|---|---|---|---|
| `runtime.py` coordinator | event loop, tasks, slot counters, `closed` | open/advance/heartbeat, submit, tick, `_run`, cancel, consume, close, start | several commits per handler, awaits in `_run`, timeouts, calls during shutdown | slots counted once, generations fenced, jobs resolved, one send, one claim |
| `store.py` ledger | sessions, jobs, attempts, quarantines, budget row | one transaction per call; recover; offline reconcile, release, extend | death between two commits, recovery interrupted, recovery after offline changes | reservations agree with tasks, ceiling, settled charges final, quarantine survives |
| `contracts.py` | immutable | `latest_ns`, `invalid_reason`, validators | boundary instants, clock identity | the fence is tested in one order everywhere |
| `scheduling.py` | none | `rank`, `choose_endpoint` | shared pools, ties | no oversubscription |
| `cache.py` | LRU map, byte counter | key, get, put | TTL, eviction at two limits | counters exact; a hit is an inference on the same evidence |
| `clocks.py` | clock identity | `now_ns`, `ClockMap.map` | restart gives a new identity; maps expire and drift | old jobs are refused; mapped times are bounded |
| `backends.py` | HTTP client | `infer`, SSE parser, `usage_from_chat` | streams cut anywhere, missing usage, unknown termination | an answer is whole; termination is claimed only when known; paid work is not free |
| `reconciliation.py`, `tools/reconcile_charges.py` | none | parse and apply a provider export | importers race and are killed | a batch is all or nothing, nothing is overwritten |
| `server.py`, `client.py` | bodies in progress | HTTP routes, body bound, `validate_delivery` | chunked bodies, disconnects, lost answers, retries, mapped clocks | retries apply once, a stale result is not delivered |
| `replay.py` | simulated queue and slots | one round per instant | events at one instant | causal, no slot wasted, all accounted |
| `load.py`, `telemetry.py` | plan, collectors, report | `run_load` | a serve loop that dies, attempts that outlive receipts, items refused half-way | the campaign ends, with a complete report unless an item is refused |
| `adapters/native_policy.py`, `tools/r6_native_policy_compare.py` | path, proposals | reset, infer, compare | a server with hidden state, lost and stale answers | a pass means agreement |
| `adapters/hosts.py`, `tools/r5_streamarena_agmina.py`, `tools/r5_evaluate_streamarena.py` | schedule, calls, identity map | replay a video, route calls, report, score | overlapping calls, two deadlines, events at one instant | a completed report stands for every call |
| `tools/r2_transport_compare.py`, `r5_agmina_screen.py`, `r5_evaluate_candidate.py`, `r6_recorded_policy_replay.py`, `probe` | item, report | submit, wait, consume, judge | timeouts and exceptions half-way | no call after a failure, nothing left behind |
| `tools/r4_real_proxy.py` | drop counter, log | one thread per request | unlocked counter, clients that leave | every loss is on record |

Interaction: the server and in-process callers call the coordinator's methods; these read and commit to
the store synchronously; `tick` (from `serve_loop` or `wait`) creates tasks; a task awaits a backend and
then commits settlement, receipt and quarantine. Operators use the store offline: its file lock excludes
a running coordinator. Drivers, bridge and load generator own a coordinator in their process; remote
hosts reach one through the sidecar and judge what they get with `validate_delivery`.

## Modules

| Module | Models | Notes |
|---|---|---|
| `Contracts` | `contracts.py` | job bodies as a constant `Job`, `InvalidReason`, `LatestNs` |
| `Scheduling` | `scheduling.py` | `Rank`, `Feasible`, `ChooseEndpoint` |
| `Store` | `store.py` | durable variables and one operator per transaction |
| `Runtime` | `runtime.py` over the store | actions, fairness, properties |
| `JobLifecycle` | the promise | abstract specification that `Runtime` implements |
| `HistoricalCache`, `LossyCache` | `cache.py`; what `Runtime` assumes of it | the first implements the second |
| `HttpBackend` | `HttpBackend.infer`, `parse_line`, payload checks | one call, its chunks and its claim |
| `Charging` | `Endpoint` tariffs, `usage_from_chat`, settlement | one attempt |
| `ChargeImport` | `reconciliation.py`, `reconcile_charges.py`, `reconcile_many` | importers as processes |
| `Sidecar` | `server.py`, `client.py` | connections, routes, retries; one session and one job |
| `Delivery` | `validate_delivery`, `ClockMap`, `consume` | two clocks and a network |
| `Replay` | `replay.py`, a synthetic arrival | one action per turn of the loop |
| `LoadDriver` | `load.py`, the coordinator as it sees it | tasks on one event loop |
| `NativePolicy` | `native_policy.py`, `r6_native_policy_compare.py` | the policy server is external |
| `Campaign` | the four sequential drivers and the evaluator | `input.tool` says which |
| `Bridge` | `r5_streamarena_agmina.py`, `hosts.streambudget_job`, `r5_evaluate_streamarena.py` | the parent scheduler is external |
| `FaultProxy` | `r4_real_proxy.py` | one process per handler thread |
| `Inference` | one inference | `HttpBackend`, `Charging`, `ChargeImport`, `HistoricalCache` and their properties |
| `Hosts` | the host's side | `Sidecar`, `Delivery`, `Bridge` and their properties |
| `Experiments` | the machinery of experiments | `Replay`, `LoadDriver`, `Campaign`, `NativePolicy`, `FaultProxy` and their properties |
| `MCRuntime`, `MCInference`, `MCHosts`, `MCExperiments` | | instances for TLC |
| `RuntimeProofs`, `LifecycleProofs`, `DispatchProofs`, `SpendProofs`, `HostProofs`, `InferenceProofs`, `ExperimentProofs`, `SumProofs` | | theorems |

`Inference`, `Hosts` and `Experiments` put together parts that share no state. The variable `part` is
chosen at the start and only that part takes steps, so each behaviour is one of every part (`PartsRun` in
the proof modules). The MC modules give the constants their values; their `MCInit` also fixes the initial
state of the parts that do not run, so that the state space is the sum of the parts' and not their
product. `HostsAssumption`, `InferenceAssumption` and `ExperimentsAssumption` are the parts' own
assumptions.

### The coordinator

**Steps.** Handlers await nothing, so they exclude each other, but each commits several transactions and
the process may die between two of them. An action is therefore one commit together with the volatile
updates that follow it; `pc`, `todo` and `cur` say where a started handler is, and other handlers start
only at `pc = "idle"`. `task[j]` is the task of a dispatched job: `created` (has not run yet), `awaiting`
(in `wait_for`, request not on the wire) or `sent`. `remote` and `sends` observe the outside world and
guard nothing of the coordinator: `remote` holds jobs whose computation may be running, whatever the
coordinator believes.

**Correspondence.** `state`, `submitted`, `prediction`, `consumedBy` are the receipt; `disposition`,
`actual`, `attemptEp` the attempt row (`quote` is the endpoint's reserve, `actual` is NULL unless
`settled`); `session`, `quarantined`, `caps` the other tables; `poolUse`, `endpointUse`, `cache` the
volatile fields. `prediction[j]` names the job whose inference produced the payload. `PROJECT.json` maps
each definition to its lines.

**Abstractions.**
- An identifier always carries the same body (a different fingerprint raises), so bodies are constants.
  The task revision is folded into the epoch; deadline and age bound into `latest`; model and operation
  into `key`; evidence into `content`.
- Calls that raise or return a stored receipt change nothing and are not steps: unknown session or
  parent, a parent of another generation, missing lineage, reused observation identity, a full journal.
- Loops in row order are visited in any order, except where the order shows (rank order; parents are
  stored before children, so dependency failures propagate within one pass). Recovery's last loop, which
  closes sessions, is one step.
- The clock stands still in a handler that samples it once. It may advance between handlers and between
  two jobs of the dispatch loop, which samples it again. A start keeps or resets it (reboot).
- The cache is a set of producers that may miss at any time (TTL, LRU, byte bound).
- A backend that reports known termination is taken at its word (`FailKnown` requires `j \notin remote`).
- The operator releases a pool only without remote work there: the code asks for evidence of it.
- The events table is left out; no handler reads it.
- `close` lets every created task take its first step before it cancels (it waits for them first).

### The other parts

- `HttpBackend`. A response is a sequence of four-byte lines, so that a chunk boundary can fall before
  `data:` is complete, inside the JSON, before the newline and after it. `remote` observes whether the
  provider computes. A body that is not streamed is one line, told apart by the check it fails; `Answers`
  are the scripts of the right form for the call.
- `Charging`. Token counts, rates and charges range over small sets; a rate is per `Million` tokens,
  which the instance sets to 3, so that every remainder occurs. Charges the provider reports are in quarters
  of a micro-USD, so that they lie below, at and above every half; `Rounded` rounds halves to even, as
  Python does. A reported charge of at most half a micro-USD becomes 0: that is the report's own amount to
  the nearest unit and no implicit zero, and `PaidNeverImplicitlyFree` says so.
- `ChargeImport`. `lock` is the store's file lock, `txn` the open transaction; `Killed` may follow any
  step and loses the transaction and the lock. The coordinator appears as another holder of the lock.
- `HistoricalCache`. `data` is the ordered dictionary; `recency` and `answer` observe.
- `Sidecar`. A connection is a client and its present try: chunks arrive one by one, the client may go
  away between two of them, the answer may be lost, and the client may try again up to `MaxTries`. Each
  route is one step, as the handlers await nothing; what they do to session and job is written out for
  one of each.
- `Delivery`. `now` and `local` advance independently within the map's error while the map is valid, and
  freely afterwards. Requests and replies are sets: messages are delayed, repeated and lost. `buffer` is
  `Session.buffer_until_ns`, which heartbeats set and an advance clears. The claim (`InvalidReason` over
  `LatestNs`) looks at it; `validate_delivery` does not, since of a policy job it takes the consumer's own
  `local_useful_until_ns` in its place. A policy result may therefore be accepted after the buffer that the
  server knew of ran out, and the two freshness properties claim the deadline and the age bound only
  (`FreshUntil`), and the consumer's bound of a policy result.
- `Replay`. A round handles completions, arrivals, expiry and dispatch at one virtual instant and jumps
  to the next.
- `LoadDriver`. The coordinator is reduced to what the driver and its collectors see; `loop` is whether the
  serve loop lives. `submit` is modelled with its refusals and with latest-only replacement (a slot stands
  for `replace_key`, model and operation). What the plan's validators leave open raises in the middle of a
  campaign, after earlier items were paid for, and the driver then ends without a report: a generated
  observation identifier `{id}-o{k}` past 160 characters, a payload whose canonical ASCII form outgrows
  `strict_json`'s bound when `submit` reads the job back, an unregistered model, a full journal, an evidence
  identity used before. `LoadEnds` says that nothing else does. An attempt ends no later than its
  timeout, which is what `wait_for` gives, and why "where possible" (`load.py:114`) is always.
- `NativePolicy`. The server's proposal is the sequence of packets since its last reset, which is exactly
  what two paths must agree on. `faults` counts injected faults, so that clean campaigns can be named.
- `Campaign`. The drivers share submit, wait and consume and differ in guards, early ends and wording of
  the report; answers are valid or not.
- `Bridge`. One video (the runner replays several one after another, each with its own session). When the
  parent calls, on which frames, and when it gives up are its choice within its deadline.
- `FaultProxy`. The `-=` on the shared counter is a read and a write, as it is for two threads. `written` is
  whether `wfile.write` returned, which is all that "forwarded" records; what the client has of it is a
  state of its own. A client may leave at any time, so one that timed out during `--delay-ms` is logged as
  forwarded although it saw nothing. A `Content-Length` that is no number is not modelled.

## Runs

| Run | Specification | Checks | Instance |
|---|---|---|---|
| `coordinator` | no crashes | `TypeOK`, `SlotAccounting`, `QueueBounded`, `ParentsComputedFirst`, `NeededParentKept` | three jobs: two rivals for a latest-only slot, one of them the parent of a job bound by the host buffer; two endpoints on one slot; a queue of two; advances |
| `restart` | crashes | `ReservationsHaveTasks`, `GenerationFence`, `SpendWithinCeiling`, `ImplementsLifecycle` | two jobs for one cacheable computation, two consumers, quotes of 2 under a ceiling of 3, charges of 1 and 3, an extension; three process lifetimes |
| `shutdown` | fair, no crashes | `UnconfirmedWorkQuarantined`, `SettledIsFinal`, `EveryJobResolved`, `EverySlotReturned`, `ShutdownTerminates` | a parent and its child; clean stop, offline operator, restart |
| `inference` | `MCInference` | `StreamParsedWhole`, `ClaimsTrue`; `PaidNeverImplicitlyFree`; `ImportsOnlyItsBatch`; `CountersExact`, `IsLossyCache` | all streams of at most four lines and 15 bytes; all usage objects over three counts; two importers and nine exports; three keys for two places |
| `hosts` | `MCHosts` | `BoundedAndWhole`, `RetryAppliesOnce`; `FreshOnDelivery`, `ValidUntilKept`, `OneClaimant`; `FirstCallFinishes`, `CompletedIsWhole`, `IdentityStable`, `CausalViews` | two clients, three tries, every route; two results, two consumers; four videos, two overlapping calls |
| `experiments` | `MCExperiments`, fair | `CausalWithinSlots`, `AllAccounted`; `ReportComplete`, `LoadEnds`; `NoCallAfterFailure`, `PassedIsWhole`, `NothingLeftBehind`; `VerdictSound`, `SeenInOrder`; `LossIsRecorded`, `EveryRequestRecorded` | traces of three requests and synthetic ones; plans of two and three items, latest-only, unserved or not releasable among them, and single items of every shape; a journal of two; 21 inputs of the drivers; eight cohorts, three faults; three requests, one drop |
| `settled_crash` | crashes | `SettledIsFinal`, violated | one job |
| `quarantine_crash` | crashes | `UnconfirmedWorkQuarantined`, violated | one job |
| `replaced_parent` | no crashes | `NeededParentKept`, violated | a job that replaces its own parent |
| `mismatch_midstream` | `MCInference` | `KnownMeansOver`, violated | streams of three lines |
| `labels_incomplete` | `MCExperiments` | `LabelsAfterCompletion`, violated | the drivers |
| `proxy_drops` | `MCExperiments` | `DropsBounded`, violated | three requests, one drop |

**Bounds.** `MaxTime`, `MaxEpoch`, `MaxStarts` and `MaxBuffer` cut off counters the code does not bound.
Two ticks of the clock separate "before", "at" and "after" a deadline; one epoch more than the jobs'
generation reaches every mismatch; three starts reach recovery of what an interrupted recovery left. Two
jobs are enough for consumption, reuse and spending, which relate pairs of jobs; `coordinator` has three
so that a parent has both a rival and a child. The theorems remove these bounds for the properties they
cover.
In the other parts: four lines hold content, a finish, usage and `[DONE]` in every order, or a defect
between two of them; 15 bytes is one less than the longest stream, so the byte limit bites. Two importers
are a race, three attempts leave one that no batch names. Three tries are an applied, a lost and a
repeated request. `MapValidUntil` lies before the policy result's last instant, so that replies come
before and after the map has expired; a heartbeat announces a buffer one tick ahead, which runs out before
and after a claim. `MaxCalls = 2` gives one overlap; a parent deadline of 1
is below, of 3 at the aligned one. Three handlers are two that race and one that comes later.
Deadlock is not checked: a stopped coordinator may stay stopped, and every other part ends.

**Fairness.** `FairSpec` of `Runtime`: a started handler runs to its end (weak fairness: nothing
interrupts it). `serve_loop` calls `tick` for ever, asyncio resumes every ready task, `wait_for` resumes a
task whose backend is silent, `close` goes on once its tasks are done, and time passes. These compete for
the event loop with each other and with an unbounded supply of client calls, so they get strong fairness:
the ready queue is FIFO. Nothing is assumed of clients, remote compute or the operator, and crashes are
excluded.
`LoadDriver`: weak fairness of the driver, of the collectors, of attempts (each has a timeout) and of
time; none for the serve loop's dispatch and expiry, which may have died. `FaultProxy`: each handler
thread is scheduled and the upstream call has a timeout, so weak fairness per handler and none for the
clients, whom nothing makes read or wait.

**Mutants.** Every property is broken by a named variant of the code in the modules (`..._Unchecked`,
`..._NoDeadline` and so on), each a bug one could make in that function.

## Findings

1. *Recovery erases a settled charge* (`store.py:215`, run `settled_crash`). `recover` settles every
   RUNNING job as unknown. If the process died after `_run` committed the charge (`runtime.py:236`) and
   before the receipt (`runtime.py:249`), or an operator reconciled the attempt while the coordinator was
   down, the known charge is replaced by NULL and held at its quote. `reconcile_many` refuses exactly this
   ("Attempt is already settled"), and README.md:111 promises it.
2. *A crash in the failure handler loses the quarantine* (`runtime.py:264-273`, run `quarantine_crash`).
   Settlement and receipt are committed before the quarantine; recovery looks only at RUNNING receipts
   and `reserved` attempts. VALIDATION.md:51-52 says restart quarantines unconfirmed attempts.
3. *A job may supersede its own parent* (`runtime.py:121`, run `replaced_parent`). The new job is not yet
   stored when its rivals are examined, so a rival that it depends on looks unneeded. DESIGN.md:102-103
   says replacement never discards a queued parent still needed.

4. *A mismatch in mid-stream claims known termination* (`backends.py:294`, run `mismatch_midstream`). The
   first chunk that names another model ends the call with `termination_known=True` while the provider is
   still generating, so the pool is not quarantined. The module's docstring says that "cancelling HTTP is
   not proof that GPU compute stopped". Every other claim is true (`ClaimsTrue`).
5. *Labels are read for incomplete screens* (`tools/r5_evaluate_candidate.py:104`, run
   `labels_incomplete`). The evaluator never looks at the report's outcome; its docstring says it "reads
   private labels only after a completed transport run". What it scores is still whole (`PassedIsWhole`).
6. *The proxy may drop more than it was told* (`tools/r4_real_proxy.py:29`, run `proxy_drops`). Handler
   threads test and decrement the counter without a lock. docs/R4_ENDPOINT_PROTOCOL.md:53 says it drops a
   bounded number of responses.

Without a crash the first two hold (`shutdown`), and among stored jobs the third does (`coordinator`).

Met while modelling, without a run of their own:
- A JSONL export with exactly one record is refused: text that starts with a brace is taken for one JSON
  object, and for JSONL only if more follows (`reconciliation.py:46-57`, modelled in `Parses`).
- `open_session` and `heartbeat` are not safe to repeat: a repeated open may reopen a session another
  client closed, a repeated heartbeat may overwrite a newer buffer. `RetryAppliesOnce` leaves them out.
- A screen that an exception cut short may report `transport_completed` for the cases it recorded.

## Proofs

Every theorem is for all values of the constants that the assumptions admit: any finite sets of jobs,
endpoints, pools, importers, clients or handler threads, any traces, plans, videos and inputs, and all
bounds. The assumptions are `JobsAssumption`, `JobAssumption`, `EndpointAssumption`, `StoreAssumption`,
`RuntimeAssumption` for the coordinator (types of the constants, finiteness, what `Job.valid` enforces)
and `InferenceAssumption`, `HostsAssumption`, `ExperimentsAssumption` for the other parts (types, and what
the code's parsers enforce before a driver starts). TLC evaluates them in every run.

Each property gets an inductive invariant that implies it, with one lemma per action or group of actions.

**The coordinator** (`Spec`: crashes between any two commits).

- `RuntimeProofs`: `Invariance` proves `IndInv` inductive. The properties are not inductive alone: between
  two commits the ledger and the event loop disagree on purpose. `IndInv` says how, for each `pc`:
  `ControlInv` (which job a handler works on and what process, task and receipt are then), `LoopInv` (what
  a loop has still to visit is in the state it found), `LedgerInv` (a reservation is open exactly for the
  job being dispatched and for tasks whose settlement has not begun), `SendInv` (sends, and where cached
  results come from), `ClaimInv`, `FenceInv` (a live job is in its session's generation or still in the
  hands of the expiry loop). Consequences: `TypeCorrect`, `LedgerAgrees` (`ReservationsHaveTasks`),
  `GenerationsFenced` (`GenerationFence`).
- `LifecycleProofs`: `Refinement` proves `Spec => ImplementsLifecycle`: from `IndInv`, each step is a
  lifecycle step or a stutter.
- `DispatchProofs`: `SlotsCounted` (`SlotAccounting`; the slot placement found free is still free when the
  receipt is marked RUNNING), `ParentsFirst` (`ParentsComputedFirst`; a job is ranked only after its
  parents' predictions, and these are never taken back), `QueueKept` (`QueueBounded`; while a replacement is
  under way the queue may exceed its bound by the jobs it has still to supersede, which is why the bound
  alone is not inductive). `ParentsKept` (`NeededParentKept`) has a hypothesis, `ParentsElsewhere`: no job
  competes for a latest-only slot with its own parent. That is the exact complement of finding 3, whose run
  shows the theorem false without it. `UnconfirmedKept` (`UnconfirmedWorkQuarantined`) and `ChargesFinal`
  (`SettledIsFinal`) are about `GracefulSpec`, without crashes, because findings 1 and 2 refute them
  with crashes; their invariant `ClosedInv` says that an orderly close leaves recovery nothing to settle.
- `SpendProofs`: `CeilingKept` (`SpendWithinCeiling`). The total is a sum over the attempts table; the
  invariant compares it with the sum of what was committed, term by term, so that a recovery which forgets
  a known charge (finding 1) is accounted for.

**The other parts** (`PartsRun` takes each to its own specification).

- `HostProofs`. *Delivery*: `DeliveriesFresh` and `ValidUntilHolds` (deadline and age bound; the server's
  view of the host's buffer is no part of them), `ClaimantUnique`. The clocks keep the map's
  promise, and `MapIsConservative` shows that a local instant before the mapped one is before the real one.
  *Bridge*: `FirstCallsFinish`, `CompletedHolds`, `IdentitiesStable` from `BridgeInv` (a finished call has
  its row; only a later call of a job, or an abort, is cut off, and the parent counts it; the report comes
  last), `ViewsCausal` from `ScheduleInv` (events leave the schedule in a strict total order, so what is
  left tells what has been seen). *Sidecar*: `BodiesBounded` (what is buffered is the sum of the chunks
  received), `RetriesApplyOnce` (a request that took effect passes authentication and the bounds again,
  and its route finds its own effect).
- `InferenceProofs`. *Charging*: `NeverFree` (`PaidNeverImplicitlyFree`; a reported charge is settled to the
  nearest micro-USD, `RoundedIsNearest`; without one the charge covers the tariff and is the smallest
  that does). *ChargeImport*: `BatchAtomic` (`ImportsOnlyItsBatch`; the ledger is as the
  preflight found it while the importer holds the lock). *HttpBackend*: `ClaimsHold` (`ClaimsTrue`) and
  `StreamsParsed` (`StreamParsedWhole`) from `HttpInv`: while a response is read, `Parsed` says what the parser
  has collected from the lines received so far and that none of them was a defect. `LinesParsed` proves that
  of the loop over a chunk, a recursive function whose existence (`LoopExists`) comes first, so the result
  does not depend on where the stream was cut. *HistoricalCache*: `CountersKept` (`CountersExact`) from
  `CacheInv`. `TotalIsUpto` shows that the fold computes the sum of the sizes, `TotalRemoved`, `TotalSplit` and
  `TotalAppend` what an expiry, an eviction and a store change of it. The order of use is inductive only
  with what the property does not say: no key twice in `recency`, and for every pair of entries the order
  of their keys there (`InOrder`); `Keeps` is the monotone map from the entries that stay to the places where
  they stood. `CacheIsLossy` (`IsLossyCache`) maps each step: a lookup or an eviction only loses entries
  (`ViewLost`), and the last entry is what was stored for its key (`ViewLast`). It assumes that Python's None
  is neither a payload nor a pair of payload and time.
- `ExperimentProofs`. *FaultProxy*: `LossRecorded`. *NativePolicy*: `VerdictHolds`, `NothingSeenTwice` (what
  the server has seen since its reset is not newer than the last packet sent, and without faults it is
  exactly that prefix). *Campaign*: `CallsStop`, `PassIsWhole`, `ShutsDown` (items before `at` are recorded,
  items after it untouched; a closed coordinator has nothing queued). *LoadDriver*: `ReportsComplete` (who
  was released has a collector, a collector that is through leaves an ended job, no attempt outlives the
  wait; the counts of the report then add up to the plan). *Replay*: `SlotsRespected`, `WorkAccounted`
  (rows, queue and active set agree; the first of the ranking that fit the free slots are started, so who
  waits although its estimate fits finds every slot taken).
- `SumProofs`: the lemmas about sums, counting by classes and the first `n` of an order that the above need.
  The library's induction theorems cannot be instantiated, so each induction is by a minimal
  counterexample: the set of counterexamples has a smallest element (`WFMin`), and none is smallest.

Only proved: in the `coordinator` instance a replacement is never admitted into a full queue, and in
`restart` later lifetimes admit no job and the cap on attempts never binds; `QueueKept`,
`GenerationsFenced` and `CeilingKept` cover these cases.

Only model-checked: `EveryJobResolved`, `EverySlotReturned`, `ShutdownTerminates`, `LoadEnds` and
`EveryRequestRecorded`. They are liveness under fairness, which the prover does not handle.

## Plan

Every part of the runtime package with state of its own is modelled, and every safety property of a passing
run is proved. The tools under "Not modelled" have fixed scripts and no state of their own; a tool that gets
some belongs in `Campaign` or in a module beside it.

## Not modelled

- JSON and fingerprint canonicalisation, URL and credential syntax, percentiles and the scoring of answers:
  conversions and arithmetic without state.
- `ActionChunk` and `physical_observation` of the host adapters, header and body building of the backends:
  validators and formatting.
- `tools/r1_*_smoke.py` and `tools/r5_streamarena_policy_mock.py`: fixed scripts that exercise StreamBudget
  and Physical Harness, code outside this repository; the policy mock is the bridge with a mock backend.
- Dataset preparation, audits and repository checks under `tools/`; `demo` of the command line.
- Failures of SQLite itself (disk full, I/O errors).

## Running

`tlc -config Coordinator.cfg MCRuntime` (each run names its cfg in `PROJECT.json`); `tlapm SumProofs.tla`,
`RuntimeProofs.tla`, and then the other proof modules in any order.
