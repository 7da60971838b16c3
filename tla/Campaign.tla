------------------------------ MODULE Campaign ------------------------------
(***************************************************************************)
(* The four sequential drivers that put a fixed list of items through a    *)
(* coordinator of their own and judge what came back:                      *)
(*    "compare"  tools/r2_transport_compare.py: direct, then coordinated   *)
(*    "replay"   tools/r6_recorded_policy_replay.py: recorded proposals    *)
(*    "screen"   tools/r5_agmina_screen.py: candidate cases, scored later  *)
(*               by tools/r5_evaluate_candidate.py                         *)
(*    "probe"    the probe command of cli.py                               *)
(* They share the steps prepare, submit, wait, consume, and differ in what *)
(* ends the loop, what an exception leaves behind and how the report is    *)
(* worded.  Of the coordinator only what a driver sees is kept.            *)
(***************************************************************************)
EXTENDS Integers, Sequences, FiniteSets

CONSTANTS
    Inputs,        \* what a driver may be started with
    MaxCases,      \* 64 cases of a candidate manifest
    MaxAttempts, MaxJobs, Slots    \* of the operator's configuration

\* Items are a list; --count and --max-cases are positive.
CampaignAssumption ==
    /\ MaxCases \in Nat /\ MaxAttempts \in Nat /\ MaxJobs \in Nat /\ Slots \in Nat \ {0}
    /\ \A i \in Inputs :
          /\ i.tool \in {"compare", "replay", "screen", "probe"}
          /\ Len(i.items) \in Nat /\ DOMAIN i.items = 1..Len(i.items)
          /\ i.tool \in {"compare", "probe"} => i.items # <<>>
          /\ i.tool = "screen" => i.maximum \in Nat \ {0}

VARIABLES
    input,         \* member of Inputs
    pc,            \* where the driver is
    at,            \* the item it is at
    job,           \* state of each item's job; "none" before submit
    flight,        \* jobs whose backend call is under way
    sent,          \* provider calls so far: <<item, path>>, path 0 direct, 1 coordinated
    direct,        \* the direct call of each item: "none", "sent", "ok", "failed"
    quarantined,   \* the pool
    rows,          \* results recorded: [item, state]
    report,        \* "none" or the outcome written
    raised,        \* an exception left the loop
    closed,        \* the coordinator was closed
    labels         \* "unread", "read", "scored"

vars == <<input, pc, at, job, flight, sent, direct, quarantined, rows, report, raised, closed, labels>>
coordinator == <<job, flight, quarantined>>

tool == input.tool

-----------------------------------------------------------------------------
\* Inputs and the checks before anything is opened.

PacketShape(i) == i.payload /\ i.observations > 0

CompareInput(i) == PacketShape(i) /\ i.endpoints = 1

\* Only the keys of the packet are looked at.
ProbeInput(i) == i.payload

\* inspect_recording: contiguous indices, whole tensors that agree with their metadata.
ReplayInput(i) == i.items # <<>> /\ \A k \in DOMAIN i.items : i.items[k].index = k - 1 /\ i.items[k].codec

Increasing(s) == \A a, b \in DOMAIN s : a < b => s[a] < s[b]

\* load_cases: the positions of the cases asked for, at most `maximum` of them ...
Selected(i) ==
    LET Wanted(k) == i.only = {} \/ i.items[k].id \in i.only
    IN  {k \in DOMAIN i.items : Wanted(k) /\ Cardinality({j \in 1..k : Wanted(j)}) <= i.maximum}

\* ... each bound to its video and frames by hash, frames in order of time.
ScreenInput(i) ==
    /\ i.prepared /\ Len(i.items) \in 1..MaxCases
    /\ i.only \subseteq {i.items[k].id : k \in DOMAIN i.items}
    /\ \A k \in Selected(i) :
          LET case == i.items[k] IN case.hashed /\ case.frames # <<>> /\ Increasing(case.frames)

ValidInput(i) ==
    CASE i.tool = "compare" -> CompareInput(i)
      [] i.tool = "replay"  -> ReplayInput(i)
      [] i.tool = "screen"  -> ScreenInput(i)
      [] i.tool = "probe"   -> ProbeInput(i)

Work == IF tool = "screen" THEN Selected(input) ELSE DOMAIN input.items
Count == Cardinality(Work)

\* The replay declares exactly what its recording needs; the others use the operator's file.
AttemptCeiling == IF tool = "replay" THEN Count ELSE MaxAttempts
JobCeiling == IF tool = "replay" THEN Count ELSE MaxJobs

Pending == {"queued", "running"}
Terminal == {"succeeded", "consumed", "rejected", "expired", "cancelled", "failed", "unknown"}
Ids == 1..Len(input.items)

TypeOK ==
    /\ input \in Inputs /\ pc \in {"check", "item", "direct", "submit", "wait", "report", "close", "drain", "over"}
    /\ at \in Nat /\ job \in [Ids -> Pending \cup Terminal \cup {"none"}] /\ flight \subseteq Ids
    /\ direct \in [Ids -> {"none", "sent", "ok", "failed"}] /\ sent \in Seq(Ids \X {0, 1})
    /\ quarantined \in BOOLEAN /\ raised \in BOOLEAN /\ closed \in BOOLEAN
    /\ report \in {"none", "refused", "preflight_passed", "passed", "failed", "failed_or_incomplete",
                   "transport_completed", "transport_incomplete", "summary"}
    /\ labels \in {"unread", "read", "scored"}

Init ==
    /\ input \in Inputs /\ pc = "check" /\ at = 1 /\ job = [k \in Ids |-> "none"] /\ flight = {}
    /\ sent = <<>> /\ direct = [k \in Ids |-> "none"] /\ quarantined = FALSE /\ rows = <<>> /\ report = "none"
    /\ raised = FALSE /\ closed = FALSE /\ labels = "unread"

\* A refused input raises before the coordinator exists.
Check ==
    /\ pc = "check"
    /\ IF ValidInput(input) THEN pc' = "item" /\ UNCHANGED report ELSE pc' = "over" /\ report' = "refused"
    /\ UNCHANGED <<input, at, coordinator, sent, direct, rows, raised, closed, labels>>

\* validate_chat refuses the payload, before either path is tried.
RequestInvalid ==
    /\ pc = "item" /\ tool = "compare" /\ ~input.chat
    /\ raised' = TRUE /\ pc' = "close"
    /\ UNCHANGED <<input, at, coordinator, sent, direct, rows, report, closed, labels>>

\* compare --preflight builds the request and reports without sending anything.
Preflight ==
    /\ pc = "item" /\ tool = "compare" /\ input.chat /\ input.preflight
    /\ pc' = "close" /\ report' = "preflight_passed"
    /\ UNCHANGED <<input, at, coordinator, sent, direct, rows, raised, closed, labels>>

-----------------------------------------------------------------------------
\* The coordinator, as far as a driver sees it.

\* tick(), which only wait() calls here: the queued job starts if a slot is free ...
Dispatch(k) ==
    /\ pc = "wait" /\ job[k] = "queued" /\ ~quarantined /\ Cardinality(flight) < Slots
    /\ IF Len(SelectSeq(sent, LAMBDA c : c[2] = 1)) < AttemptCeiling
       THEN job' = [job EXCEPT ![k] = "running"] /\ flight' = flight \cup {k} /\ sent' = Append(sent, <<k, 1>>)
       ELSE job' = [job EXCEPT ![k] = "rejected"] /\ UNCHANGED <<flight, sent>>
    /\ UNCHANGED <<input, pc, at, direct, quarantined, rows, report, raised, closed, labels>>

\* ... and work past its deadline expires; a call under way keeps its slot.
Expire(k) ==
    /\ pc = "wait" /\ job[k] \in Pending
    /\ job' = [job EXCEPT ![k] = "expired"]
    /\ UNCHANGED <<input, pc, at, flight, sent, direct, quarantined, rows, report, raised, closed, labels>>

\* The recorded backend finds the job's row and returns it; a provider may also fail.
Endings == IF tool = "replay" THEN {"ok", "late"} ELSE {"ok", "late", "known", "unknown"}

\* The call's task ends.  A shutdown that runs out of patience cancels it: its end is unknown.
CallEnds(k) ==
    /\ k \in flight /\ flight' = flight \ {k}
    /\ \E end \in IF pc = "drain" THEN Endings \cup {"unknown"} ELSE Endings :
          /\ job' = IF job[k] # "running" THEN job
                    ELSE [job EXCEPT ![k] = CASE end = "ok" -> "succeeded" [] end = "late" -> "expired"
                                              [] end = "known" -> "failed" [] end = "unknown" -> "unknown"]
          /\ quarantined' = (quarantined \/ end = "unknown")
    /\ UNCHANGED <<input, pc, at, sent, direct, rows, report, raised, closed, labels>>

-----------------------------------------------------------------------------
\* The loop.

Loop == <<input, flight, sent, direct, quarantined, report, closed, labels>>

Raise == raised' = TRUE /\ pc' = "close" /\ UNCHANGED <<at, job, rows>>
Break == pc' = "report" /\ UNCHANGED <<at, job, rows, raised>>

\* compare and probe write the report and then close; replay and screen close first.
AfterLoop == IF tool \in {"compare", "probe"} THEN "report" ELSE "close"
Record(state) ==
    /\ rows' = Append(rows, [item |-> at, state |-> state])
    /\ at' = at + 1 /\ pc' = IF at = Count THEN AfterLoop ELSE "item"

Take == job' = [job EXCEPT ![at] = "consumed"] /\ Record("consumed") /\ UNCHANGED raised

SendDirect ==
    /\ pc = "item" /\ tool = "compare" /\ input.chat /\ ~input.preflight
    /\ pc' = "direct" /\ direct' = [direct EXCEPT ![at] = "sent"] /\ sent' = Append(sent, <<at, 0>>)
    /\ UNCHANGED <<input, at, coordinator, rows, report, raised, closed, labels>>

\* Mutant: a failed direct call is noted and the coordinated one is made all the same.
DirectEnds_GoOn ==
    /\ pc = "direct"
    /\ \E ok \in BOOLEAN : direct' = [direct EXCEPT ![at] = IF ok THEN "ok" ELSE "failed"] /\ pc' = "submit"
    /\ UNCHANGED <<input, at, coordinator, sent, rows, report, raised, closed, labels>>

DirectEnds ==
    /\ pc = "direct"
    /\ \/ direct' = [direct EXCEPT ![at] = "ok"] /\ pc' = "submit"
       \/ direct' = [direct EXCEPT ![at] = "failed"] /\ pc' = "report"
    /\ UNCHANGED <<input, at, coordinator, sent, rows, report, raised, closed, labels>>

\* submit() queues the job, rejects it, or raises when the journal is full.  compare raises
\* on a rejection itself; the others learn it from wait().
Submit ==
    /\ pc = "submit" \/ (pc = "item" /\ tool # "compare")
    /\ IF Cardinality({k \in Ids : job[k] # "none"}) >= JobCeiling THEN Raise
       ELSE \E state \in IF tool = "replay" THEN {"queued"} ELSE {"queued", "rejected"} :
               /\ job' = [job EXCEPT ![at] = state]
               /\ IF state = "rejected" /\ tool = "compare" THEN raised' = TRUE /\ pc' = "close"
                                                            ELSE pc' = "wait" /\ UNCHANGED raised
               /\ UNCHANGED <<at, rows>>
    /\ UNCHANGED Loop

\* wait() raises: the job is queued behind a quarantined pool, or, where the deadline is
\* longer than the wait (compare), the wait runs out.
WaitRaises ==
    /\ pc = "wait"
    /\ \/ job[at] = "queued" /\ quarantined
       \/ job[at] \in Pending /\ tool = "compare"
    /\ IF tool = "compare" THEN Break ELSE Raise
    /\ UNCHANGED Loop

\* wait() returns and consume() follows; the deadline may have passed in between.
Returned == pc = "wait" /\ job[at] \in Terminal
Fresh(valid) == job[at] = "succeeded" /\ valid

CompareTakes(valid) ==
    /\ Returned /\ tool = "compare"
    /\ IF Fresh(valid) THEN Take ELSE IF job[at] = "succeeded" THEN Raise ELSE Break
    /\ UNCHANGED Loop

\* The replay consumes whatever came back, which raises unless it succeeded.
ReplayTakes(valid) ==
    /\ Returned /\ tool = "replay"
    /\ IF Fresh(valid) THEN Take ELSE Raise
    /\ UNCHANGED Loop

\* The screen records every state and goes on.
ScreenTakes(valid) ==
    /\ Returned /\ tool = "screen"
    /\ IF Fresh(valid) THEN Take
       ELSE IF job[at] = "succeeded" THEN Raise ELSE Record(job[at]) /\ UNCHANGED <<job, raised>>
    /\ UNCHANGED Loop

\* The remaining declared calls are not sent after a failure.
ProbeTakes(valid) ==
    /\ Returned /\ tool = "probe"
    /\ IF Fresh(valid) THEN Take ELSE IF job[at] = "succeeded" THEN Raise ELSE Break
    /\ UNCHANGED Loop

-----------------------------------------------------------------------------
\* The end.

\* Mutant: a report of every recorded sample, whatever the count asked for.
CompareVerdict_AnyCount == IF rows # <<>> THEN "passed" ELSE "failed_or_incomplete"

CompareVerdict == IF Len(rows) = Count THEN "passed" ELSE "failed_or_incomplete"

\* Its predictions are exact and its consumptions authorise nothing, whatever the order.
Calls == SelectSeq(sent, LAMBDA c : c[2] = 1)
ReplayVerdict == IF Len(rows) = Count /\ Calls = [k \in 1..Count |-> <<k, 1>>] THEN "passed" ELSE "failed"
ScreenVerdict ==
    IF rows # <<>> /\ \A r \in DOMAIN rows : rows[r].state = "consumed"
    THEN "transport_completed" ELSE "transport_incomplete"

\* The screen reports in its finally clause, after an exception too.
Report ==
    /\ pc = "report"
    /\ report' = CASE tool = "compare" -> CompareVerdict [] tool = "replay" -> ReplayVerdict
                   [] tool = "screen" -> ScreenVerdict [] tool = "probe" -> "summary"
    /\ pc' = IF closed THEN "over" ELSE "close"
    /\ UNCHANGED <<input, at, coordinator, sent, direct, rows, raised, closed, labels>>

\* Mutant: after an exception the coordinator is left open.
Close_OnlyIfQuiet ==
    /\ pc = "close" /\ pc' = (IF raised THEN "over" ELSE "drain") /\ closed' = ~raised
    /\ job' = [k \in Ids |-> IF job[k] = "queued" /\ ~raised THEN "cancelled" ELSE job[k]]
    /\ UNCHANGED <<input, at, flight, sent, direct, quarantined, rows, report, raised, labels>>

\* runtime.close() in every driver's finally clause: queued jobs are cancelled ...
Close ==
    /\ pc = "close" /\ pc' = "drain" /\ closed' = TRUE
    /\ job' = [k \in Ids |-> IF job[k] = "queued" THEN "cancelled" ELSE job[k]]
    /\ UNCHANGED <<input, at, flight, sent, direct, quarantined, rows, report, raised, labels>>

\* ... and calls under way are waited for.  The replay reports only if nothing was raised.
Drained ==
    /\ pc = "drain" /\ flight = {}
    /\ pc' = IF tool = "screen" \/ (tool = "replay" /\ ~raised) THEN "report" ELSE "over"
    /\ UNCHANGED <<input, at, coordinator, sent, direct, rows, report, raised, closed, labels>>

\* Provenance and trials name the same cases.
Covered == {rows[r].item : r \in DOMAIN rows} = 1..Count

\* r5_evaluate_candidate.py, run by hand on a screen's report: the labels are read first,
\* then compared with their audit and with the cases of the report.
Evaluate ==
    /\ pc = "over" /\ tool = "screen" /\ report # "refused" /\ labels = "unread"
    /\ \E audited \in BOOLEAN : labels' = IF audited /\ Covered THEN "scored" ELSE "read"
    /\ UNCHANGED <<input, pc, at, coordinator, sent, direct, rows, report, raised, closed>>

Driver ==
    \/ Check \/ RequestInvalid \/ Preflight \/ SendDirect \/ DirectEnds \/ Submit \/ WaitRaises \/ Report \/ Close \/ Drained
    \/ \E valid \in BOOLEAN : CompareTakes(valid) \/ ReplayTakes(valid) \/ ScreenTakes(valid) \/ ProbeTakes(valid)
Next == Driver \/ Evaluate \/ \E k \in Ids : Dispatch(k) \/ Expire(k) \/ CallEnds(k)
Spec == Init /\ [][Next]_vars

-----------------------------------------------------------------------------
\* Properties.

Wrong(k) ==
    \/ direct[k] = "failed" \/ job[k] \in {"rejected", "expired", "failed", "unknown", "cancelled"}

\* compare "makes no retries and stops on the first failed attempt in either path", probe
\* does not silently send the remaining calls after a failure, and a replay that met one
\* stops: each call is made once, in the order of the items, and none after a failure,
\* also not by a job left queued or running when the loop ended.
NoCallAfterFailure ==
    /\ \A a, b \in DOMAIN sent : a < b => \/ sent[a][1] < sent[b][1]
                                          \/ sent[a][1] = sent[b][1] /\ sent[a][2] < sent[b][2]
    /\ tool # "screen" => \A k \in Ids : Wrong(k) => \A c \in DOMAIN sent : sent[c][1] <= k
    /\ \A k \in Ids : direct[k] = "failed" => \A c \in DOMAIN sent : sent[c] # <<k, 1>>

\* What is reported stands for every item: if passed, the coordinated result was consumed
\* and, in a comparison, the direct call answered; and though a screen that an exception cut
\* short may still report transport_completed for the cases it recorded, the evaluator scores
\* only a report that has a trial for every case selected.
PassedIsWhole ==
    /\ report = "passed" => \A k \in 1..Count : job[k] = "consumed" /\ (tool = "compare" => direct[k] = "ok")
    /\ labels = "scored" => \A k \in 1..Count : job[k] \in Terminal /\ Len(rows) = Count

\* However a driver ends, its coordinator is closed with nothing queued or running, and a
\* call whose fate is unknown has left its pool quarantined.
NothingLeftBehind ==
    pc = "over" /\ report # "refused" =>
        /\ closed /\ flight = {} /\ \A k \in Ids : job[k] \notin Pending
        /\ (\E k \in Ids : job[k] = "unknown") => quarantined

\* "This evaluator reads private labels only after a completed transport run."
LabelsAfterCompletion == labels # "unread" => report = "transport_completed"
=============================================================================
