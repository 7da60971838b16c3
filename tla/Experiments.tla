----------------------------- MODULE Experiments ----------------------------
(***************************************************************************)
(* The machinery of experiments: trace replay, the load driver, the        *)
(* sequential campaigns, the native policy comparison and the fault proxy. *)
(* These parts share no state; a behaviour runs one of them, `part', and   *)
(* leaves the others in an initial state.                                  *)
(***************************************************************************)
EXTENDS Integers, Sequences

CONSTANTS
    Parts,                                          \* which parts to run
    Traces, SlotCounts,                             \* Replay
    Plans, MaxQueue, MaxStored,                     \* LoadDriver
    Timeout, Grace, MaxTime,
    Inputs, MaxCases, MaxAttempts, MaxJobs, Slots,  \* Campaign
    Cohorts, MaxRows, MaxFaults,                    \* NativePolicy
    Requests, DropCount                             \* FaultProxy

VARIABLES
    part,
    trace, slots, mode, virtual, queue, active, row, over,                                        \* Replay
    plan, now, base, driver, next, state, attempt, collector, loop, since, summary, failure,      \* LoadDriver
    input, pc, at, job, flight, sent, direct, quarantined, rows, report, raised, closed, labels,  \* Campaign
    packets, stage, path, expected, routed, call, server, outcome, faults,                        \* NativePolicy
    handler, bounded, dropRemaining, read, drop, upstream, written, client, log                   \* FaultProxy

Simulator == INSTANCE Replay WITH now <- virtual
Load == INSTANCE LoadDriver WITH pc <- driver, report <- summary
Sequential == INSTANCE Campaign
Policy == INSTANCE NativePolicy WITH pc <- stage, direct <- expected
Proxy == INSTANCE FaultProxy WITH pc <- handler

\* What the parts assume of their constants.
ASSUME ExperimentsAssumption ==
    /\ Simulator!ReplayAssumption /\ Load!LoadAssumption /\ Sequential!CampaignAssumption
    /\ Policy!PolicyAssumption /\ Proxy!ProxyAssumption

replay == <<trace, slots, mode, virtual, queue, active, row, over>>
load == <<plan, now, base, driver, next, state, attempt, collector, loop, since, summary, failure>>
campaign == <<input, pc, at, job, flight, sent, direct, quarantined, rows, report, raised, closed, labels>>
policy == <<packets, stage, path, expected, routed, call, server, outcome, faults>>
proxy == <<handler, bounded, dropRemaining, read, drop, upstream, written, client, log>>
vars == <<part, replay, load, campaign, policy, proxy>>

Init ==
    /\ part \in Parts
    /\ Simulator!Init /\ Load!Init /\ Sequential!Init /\ Policy!Init /\ Proxy!Init

Next ==
    \/ part = "replay" /\ Simulator!Next /\ UNCHANGED <<part, load, campaign, policy, proxy>>
    \/ part = "load" /\ Load!Next /\ UNCHANGED <<part, replay, campaign, policy, proxy>>
    \/ part = "campaign" /\ Sequential!Next /\ UNCHANGED <<part, replay, load, policy, proxy>>
    \/ part = "policy" /\ Policy!Next /\ UNCHANGED <<part, replay, load, campaign, proxy>>
    \/ part = "proxy" /\ Proxy!Next /\ UNCHANGED <<part, replay, load, campaign, policy>>

\* The fairness of LoadDriver and of FaultProxy, for the part that runs.
Fairness ==
    /\ WF_load(part = "load" /\ Load!DriverStep) /\ WF_load(part = "load" /\ Load!AdvanceClock)
    /\ WF_load(part = "load" /\ \E i \in Load!Items : Load!Collect(i))
    /\ WF_load(part = "load" /\ \E i \in Load!Items : Load!AttemptEnds(i))
    /\ \A r \in Requests : WF_proxy(part = "proxy" /\ Proxy!Handler(r))

Spec == Init /\ [][Next]_vars /\ Fairness

-----------------------------------------------------------------------------
\* The properties, each stated in its part's module.

\* Replay: nothing starts early, completes early or overfills the slots.
CausalWithinSlots == Simulator!CausalWithinSlots
\* Replay: every request ends accounted for, and expires only if every slot was taken.
AllAccounted == Simulator!AllAccounted
\* LoadDriver, run_load: a report counts every item once and leaves no attempt unsettled.
ReportComplete == Load!ReportComplete
\* LoadDriver, run_load: a campaign ends although the serve loop may have died, with a
\* report whenever its items can be released.
LoadEnds == part = "load" => Load!LoadEnds
\* Campaign, the drivers' loops: calls in order, none after a failure.
NoCallAfterFailure == Sequential!NoCallAfterFailure
\* Campaign, the reports and the evaluator: a pass, or a score, stands for every item.
PassedIsWhole == Sequential!PassedIsWhole
\* Campaign, the drivers' shutdown: nothing is left queued, running or unquarantined.
NothingLeftBehind == Sequential!NothingLeftBehind
\* Campaign, evaluate: labels are read only after a completed transport run.
LabelsAfterCompletion == Sequential!LabelsAfterCompletion
\* NativePolicy: a pass compares two proposals bound to each packet, and a valid campaign
\* without faults passes.
VerdictSound == Policy!VerdictSound
\* NativePolicy, call: no packet reaches the hidden state twice or out of order.
SeenInOrder == Policy!SeenInOrder
\* FaultProxy, do_POST: an injected loss is recorded before its client sees it.
LossIsRecorded == Proxy!LossIsRecorded
\* FaultProxy, do_POST: every request read is recorded, and not against what its client saw.
EveryRequestRecorded == part = "proxy" => Proxy!EveryRequestRecorded
\* FaultProxy, do_POST: no more responses are dropped than --drop-count.
DropsBounded == Proxy!DropsBounded
=============================================================================
