------------------------------- MODULE Bridge -------------------------------
(***************************************************************************)
(* tools/r5_streamarena_agmina.py: a recorded video is replayed into the   *)
(* StreamBudget parent, and every model call the parent makes is routed    *)
(* through a coordinator by AgminaPool.call, with the job builders of      *)
(* adapters/hosts.py.  tools/r5_evaluate_streamarena.py scores the report. *)
(*                                                                         *)
(* The parent is external: when it calls, on which frames, and when it     *)
(* gives up are its choice, within the deadline the runner gives it.       *)
(* Calls overlap; each is at its wait() whenever another one runs.         *)
(***************************************************************************)
EXTENDS Integers, Sequences, FiniteSets

CONSTANTS
    Sources,          \* videos: [frames, tasks, maximum, hashed]
    ParentDeadlines,  \* deadlines of the parent's own configuration
    Timeout, Margin,  \* of the endpoint, and the bridge's five seconds
    MapLifetime,      \* of the clock mapping, 24 h
    MaxCalls, MaxTime \* bounds of the instance

\* What the data set says: tasks are numbered in the order of their file.
Task == [kind : {"watch", "ask", "cancel"}, at : Int, index : Nat, id : Nat]
Source == {s \in [frames : Seq(Int), tasks : SUBSET Task, maximum : Int, hashed : BOOLEAN] :
              \A a, b \in s.tasks : a.index = b.index => a = b}

BridgeAssumption ==
    /\ Sources \subseteq Source
    /\ ParentDeadlines \subseteq Nat /\ Timeout \in Nat \ {0} /\ Margin \in Nat \ {0} /\ MapLifetime \in Nat
    /\ MaxCalls \in Nat /\ MaxTime \in Nat

VARIABLES
    source,        \* the video
    pc,            \* "check", "run", "over"
    deterministic, \* --deterministic: drain after every event
    deadline,      \* the parent's, after alignment
    todo,          \* events of the schedule not yet replayed
    seen,          \* frames ingested
    watches,       \* watches registered
    views,         \* what each frame and ask found: [event, frames, watches]
    now,           \* time since the mapping was anchored
    calls,         \* AgminaPool.call under way or over: [frames, owner, since, start, phase]
    job,           \* state of each call's job
    flight,        \* jobs whose backend call is under way
    quarantined,   \* the pool
    identity,      \* the ledger's observations: set of <<frame, capture>>
    rows,          \* AgminaPool.calls: [call, state, phase]
    parentFailed,  \* the parent's job_failed count
    report,        \* "none", "refused" or the outcome
    labels         \* "unread" or "read"

vars == <<source, pc, deterministic, deadline, todo, seen, watches, views, now, calls, job, flight,
          quarantined, identity, rows, parentFailed, report, labels>>
replayed == <<source, deterministic, deadline, todo, seen, watches, views>>

Larger(a, b) == IF a > b THEN a ELSE b

-----------------------------------------------------------------------------
\* source_receipt and the schedule.

Frames(s) == SubSeq(s.frames, 1, IF Len(s.frames) < s.maximum THEN Len(s.frames) ELSE s.maximum)
End(s) == IF Frames(s) = <<>> THEN -1 ELSE Frames(s)[Len(Frames(s))]

ValidSource(s) ==
    /\ \A a, b \in DOMAIN s.frames : a < b => s.frames[a] < s.frames[b]
    /\ s.maximum > 0 /\ s.hashed

\* Mutant: a question comes before the frames of its instant.
Rank_AskFirst(event) == CASE event.kind = "watch" -> 1 [] event.kind = "frame" -> 2 [] event.kind \in {"ask", "cancel"} -> 0

\* At one instant watches come first, then frames, then questions and cancellations.
Rank(event) == CASE event.kind = "watch" -> 0 [] event.kind = "frame" -> 1 [] event.kind \in {"ask", "cancel"} -> 2

Before(a, b) == a.at < b.at \/ (a.at = b.at /\ (Rank(a) < Rank(b) \/ (Rank(a) = Rank(b) /\ a.index < b.index)))

Schedule(s) ==
    {[kind |-> "frame", at |-> Frames(s)[k], index |-> k, id |-> 0] : k \in DOMAIN Frames(s)}
        \cup {task \in s.tasks : task.at <= End(s)}

\* Mutant: the parent keeps its own deadline.
AlignedDeadline_Own(own) == own

\* align_bridge_deadline.
AlignedDeadline(own) == Larger(own, Timeout + Margin)

Ids == DOMAIN calls
Active == {c \in Ids : calls[c].phase = "wait"}
Pending == {"queued", "running"}
Terminal == {"succeeded", "consumed", "rejected", "expired", "failed", "unknown", "cancelled"}

TypeOK ==
    /\ source \in Sources /\ pc \in {"check", "run", "over"} /\ deterministic \in BOOLEAN /\ deadline \in Nat
    /\ todo \subseteq Schedule(source) /\ now \in 0..MaxTime /\ Len(calls) \in 0..MaxCalls
    /\ job \in Seq(Pending \cup Terminal \cup {"none"}) /\ Len(job) = Len(calls) /\ flight \subseteq Ids
    /\ quarantined \in BOOLEAN /\ parentFailed \in Nat /\ labels \in {"unread", "read"}
    /\ report \in {"none", "refused", "transport_completed", "transport_incomplete"}

Init ==
    /\ source \in Sources /\ pc = "check" /\ deterministic \in BOOLEAN /\ deadline = 0 /\ todo = {} /\ seen = {}
    /\ watches = {} /\ views = {} /\ now = 0 /\ calls = <<>> /\ job = <<>> /\ flight = {} /\ quarantined = FALSE
    /\ identity = {} /\ rows = <<>> /\ parentFailed = 0 /\ report = "none" /\ labels = "unread"

Begin ==
    /\ pc = "check"
    /\ IF ValidSource(source)
       THEN /\ pc' = "run" /\ todo' = Schedule(source) /\ UNCHANGED report
            /\ \E own \in ParentDeadlines : deadline' = AlignedDeadline(own)
       ELSE pc' = "over" /\ report' = "refused" /\ UNCHANGED <<todo, deadline>>
    /\ UNCHANGED <<source, deterministic, seen, watches, views, now, calls, job, flight, quarantined, identity,
                   rows, parentFailed, labels>>

\* One event of the schedule; a question waits until the parent's jobs are drained, and
\* with --deterministic every event does.
Replay(event) ==
    /\ pc = "run" /\ event \in todo /\ \A other \in todo \ {event} : Before(event, other)
    /\ deterministic \/ event.kind = "ask" => \A c \in Active : calls[c].owner = "ask"
    /\ todo' = todo \ {event}
    /\ seen' = IF event.kind = "frame" THEN seen \cup {event.at} ELSE seen
    /\ watches' = CASE event.kind = "watch" -> watches \cup {event.id} [] event.kind = "cancel" -> watches \ {event.id}
                    [] OTHER -> watches
    /\ views' = views \cup {[event |-> event, frames |-> seen', watches |-> watches']}
    /\ UNCHANGED <<source, pc, deterministic, deadline, now, calls, job, flight, quarantined, identity, rows,
                   parentFailed, report, labels>>

-----------------------------------------------------------------------------
\* AgminaPool.call.

\* Mutant: the mapping is anchored at each call.
Capture_Rebased(frame) == frame - End(source) + now

\* The mapping is anchored once, with the end of the source at the moment the pool was made.
Capture(frame) == frame - End(source)

\* streambudget_job maps every image's times, streambudget_text_job has none to map.
Prepared(frames) == frames # {} => now <= MapLifetime /\ \A f \in frames : Capture(f) <= now

\* The ledger refuses an observation it knows under another body.
Conflict(frames) == \E f \in frames : \E known \in identity : known[1] = f /\ known[2] # Capture(f)

Row(c, state, phase) == rows' = Append(rows, [call |-> c, state |-> state, phase |-> phase])
\* The parent's clock for a job runs from its first call; a later call of it started later.
Since == {now} \cup {calls[c].since : c \in {p \in Ids : calls[p].owner = "job" /\ calls[p].phase = "over"}}
Started(frames, owner, phase) ==
    \E since \in IF owner = "job" THEN Since ELSE {now} :
        calls' = Append(calls, [frames |-> frames, owner |-> owner, since |-> since, start |-> now, phase |-> phase])

\* The parent counts a failed job; a failed question becomes an error answer.
Blame(owner) == parentFailed' = IF owner = "job" THEN parentFailed + 1 ELSE parentFailed

\* Up to its wait() a call runs without interruption: prepare, then submit.
Call(owner, frames) ==
    /\ pc = "run" /\ Len(calls) < MaxCalls /\ frames \subseteq seen
    /\ owner = "job" => frames # {}
    /\ owner = "ask" => \E v \in views : v.event.kind = "ask"
    /\ LET c == Len(calls) + 1 IN
       \/ /\ ~Prepared(frames) \/ Conflict(frames)
          /\ Started(frames, owner, "over") /\ job' = Append(job, "none")
          /\ Row(c, "failed", IF Prepared(frames) THEN "submit" ELSE "prepare") /\ Blame(owner) /\ UNCHANGED identity
       \/ /\ Prepared(frames) /\ ~Conflict(frames)
          /\ Started(frames, owner, "wait") /\ \E state \in {"queued", "rejected"} : job' = Append(job, state)
          /\ identity' = identity \cup {<<f, Capture(f)>> : f \in frames}
          /\ UNCHANGED <<rows, parentFailed>>
    /\ UNCHANGED <<replayed, pc, now, flight, quarantined, report, labels>>

Over(c) == calls' = [calls EXCEPT ![c].phase = "over"]

\* wait() raised, the job did not succeed, or consume() refused it: the row says failed.
CallFails(c) ==
    /\ c \in Active
    /\ \/ job[c] \in Terminal \ {"succeeded"} \/ (job[c] = "queued" /\ quarantined)
       \/ job[c] = "succeeded" /\ now >= calls[c].start + Timeout
    /\ Over(c) /\ Row(c, "failed", IF job[c] = "succeeded" THEN "consume" ELSE "wait") /\ Blame(calls[c].owner)
    /\ UNCHANGED <<replayed, pc, now, job, flight, quarantined, identity, report, labels>>

\* A consumed result without text is a failed call.
Decoded(text) == IF text THEN [state |-> "consumed", phase |-> "none"] ELSE [state |-> "failed", phase |-> "decode"]

\* consume(), then decode; the parent may find the text it is given invalid.
CallReturns(c) ==
    /\ c \in Active /\ job[c] = "succeeded" /\ now < calls[c].start + Timeout
    /\ job' = [job EXCEPT ![c] = "consumed"] /\ Over(c)
    /\ \E text, accepted \in BOOLEAN :
          /\ Row(c, Decoded(text).state, Decoded(text).phase)
          /\ IF text /\ accepted THEN UNCHANGED parentFailed ELSE Blame(calls[c].owner)
    /\ UNCHANGED <<replayed, pc, now, flight, quarantined, identity, report, labels>>

\* The parent's deadline for a job cancels its call.  Cancellation is no Exception: no row.
ParentGivesUp(c) ==
    /\ c \in Active /\ calls[c].owner = "job" /\ now >= calls[c].since + deadline
    /\ calls' = [calls EXCEPT ![c].phase = "lost"] /\ Blame(calls[c].owner)
    /\ UNCHANGED <<replayed, pc, now, job, flight, quarantined, identity, rows, report, labels>>

-----------------------------------------------------------------------------
\* The coordinator and time.

Dispatch(c) ==
    /\ pc = "run" /\ Active # {} /\ job[c] = "queued" /\ flight = {} /\ ~quarantined
    /\ \/ job' = [job EXCEPT ![c] = "running"] /\ flight' = {c}
       \/ job' = [job EXCEPT ![c] = "rejected"] /\ UNCHANGED flight    \* a ceiling
    /\ UNCHANGED <<replayed, pc, now, calls, quarantined, identity, rows, parentFailed, report, labels>>

Settle(c) ==
    /\ c \in flight /\ flight' = {}
    /\ \E end \in {"succeeded", "failed", "unknown"} :
          /\ job' = IF job[c] # "running" THEN job
                    ELSE [job EXCEPT ![c] = IF end = "succeeded" /\ now >= calls[c].start + Timeout THEN "expired" ELSE end]
          /\ quarantined' = (quarantined \/ end = "unknown")
    /\ UNCHANGED <<replayed, pc, now, calls, identity, rows, parentFailed, report, labels>>

Expire(c) ==
    /\ Active # {} /\ job[c] \in Pending /\ now >= calls[c].start + Timeout
    /\ job' = [job EXCEPT ![c] = "expired"]
    /\ UNCHANGED <<replayed, pc, now, calls, flight, quarantined, identity, rows, parentFailed, report, labels>>

\* A unit of time is long against the millisecond in which a waiting call looks at its job:
\* a call that can end does so first.
CanEnd(c) == job[c] \in Terminal \/ (job[c] = "queued" /\ quarantined) \/ now >= calls[c].start + Timeout
Advance ==
    /\ pc = "run" /\ now < MaxTime /\ \A c \in Active : ~CanEnd(c)
    /\ now' = now + 1
    /\ UNCHANGED <<replayed, pc, calls, job, flight, quarantined, identity, rows, parentFailed, report, labels>>

-----------------------------------------------------------------------------
\* The end of the replay.

\* Mutant: the rows alone decide.
Verdict_RowsOnly ==
    IF rows # <<>> /\ \A r \in DOMAIN rows : rows[r].state = "consumed"
    THEN "transport_completed" ELSE "transport_incomplete"

Verdict ==
    IF rows # <<>> /\ (\A r \in DOMAIN rows : rows[r].state = "consumed") /\ parentFailed = 0
    THEN "transport_completed" ELSE "transport_incomplete"

\* Everything is drained, the coordinator closed and the report written.
Finish ==
    /\ pc = "run" /\ todo = {} /\ Active = {}
    /\ pc' = "over" /\ report' = Verdict
    /\ job' = [c \in Ids |-> IF job[c] = "queued" THEN "cancelled" ELSE job[c]]
    /\ UNCHANGED <<replayed, now, calls, flight, quarantined, identity, rows, parentFailed, labels>>

\* An exception in the loop: the questions are cancelled, the coordinator is closed, no report.
Abort ==
    /\ pc = "run" /\ todo # {}
    /\ pc' = "over"
    /\ calls' = [c \in Ids |-> IF c \in Active THEN [calls[c] EXCEPT !.phase = "lost"] ELSE calls[c]]
    /\ job' = [c \in Ids |-> IF job[c] = "queued" THEN "cancelled" ELSE job[c]]
    /\ UNCHANGED <<replayed, now, flight, quarantined, identity, rows, parentFailed, report, labels>>

Scorable == report = "transport_completed"

\* r5_evaluate_streamarena.py: outcome and audit are checked before the labels are opened.
Score ==
    /\ pc = "over" /\ report # "refused" /\ labels = "unread" /\ Scorable
    /\ labels' = "read"
    /\ UNCHANGED <<replayed, pc, now, calls, job, flight, quarantined, identity, rows, parentFailed, report>>

Next ==
    \/ Begin \/ Advance \/ Finish \/ Abort \/ Score
    \/ \E event \in todo : Replay(event)
    \/ \E owner \in {"job", "ask"}, frames \in SUBSET seen : Call(owner, frames)
    \/ \E c \in Ids : CallFails(c) \/ CallReturns(c) \/ ParentGivesUp(c) \/ Dispatch(c) \/ Settle(c) \/ Expire(c)
Spec == Init /\ [][Next]_vars

-----------------------------------------------------------------------------
\* Properties.

\* The aligned deadline keeps "the parent scheduler alive until the Agmina bridge can finish
\* or fail": in a replay that reports, only a call that was not its job's first can have been
\* cut off, and every other call has its row.
FirstCallFinishes ==
    report \in {"transport_completed", "transport_incomplete"} =>
        \A c \in Ids : calls[c].since = calls[c].start => \E r \in DOMAIN rows : rows[r].call = c

\* transport_completed means that every call the parent made, those that left no row included,
\* came back with text from a consumed result and that no parent job failed; and labels are
\* opened for no other replay, an incomplete one stays "negative evidence".
CompletedIsWhole ==
    report = "transport_completed" \/ labels = "read" =>
        /\ calls # <<>> /\ parentFailed = 0
        /\ \A c \in Ids : job[c] = "consumed"
        /\ \A r \in DOMAIN rows : rows[r].phase = "none"

\* A frame of many overlapping windows keeps one identity: no call is refused by the ledger
\* because an earlier window had the same frame.
IdentityStable == \A r \in DOMAIN rows : rows[r].phase # "submit"

\* A question finds every frame up to its instant, and a frame every watch registered up to
\* its own and not cancelled since then and before the frame.
CausalViews ==
    \A v \in views :
        LET Earlier(kind) == {e \in Schedule(source) : e.kind = kind /\ e.at <= v.event.at}
            Cancelled(w) == \E c \in Earlier("cancel") : c.id = w.id /\ w.at <= c.at /\ c.at < v.event.at
        IN  /\ v.event.kind = "ask" => v.frames = {f.at : f \in Earlier("frame")}
            /\ v.event.kind = "frame" => v.watches = {w.id : w \in {x \in Earlier("watch") : ~Cancelled(x)}}

=============================================================================
