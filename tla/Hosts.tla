-------------------------------- MODULE Hosts -------------------------------
(***************************************************************************)
(* The host's side of the runtime: the loopback sidecar and its clients,   *)
(* the delivery of a result, and the StreamBudget bridge.  These parts     *)
(* share no state; a behaviour runs one of them, `part', and leaves the    *)
(* others in an initial state.                                             *)
(***************************************************************************)
EXTENDS Integers, Sequences

CONSTANTS
    Parts,                                                                          \* which parts to run
    Clients, Requests, Limit, FieldLimit, MaxTries,                                 \* Sidecar
    Jobs, Body, Consumers, Offset, MapError, MapValidUntil, MaxError, Useful,       \* Delivery
    Spans, MaxTime, MaxEpoch,
    Sources, ParentDeadlines, Timeout, Margin, MapLifetime, MaxCalls, MaxReplayTime \* Bridge

VARIABLES
    part,
    up, req, tries, pc, got, size, status, heard, effects, session, job, fresh,              \* Sidecar
    now, local, epoch, localEpoch, buffer, owner, requests, replies, accepted, reported,     \* Delivery
    source, stage, deterministic, deadline, todo, seen, watches, views, time, calls, called, \* Bridge
    flight, quarantined, identity, rows, parentFailed, report, labels

Server == INSTANCE Sidecar
Deliver == INSTANCE Delivery
Replayer == INSTANCE Bridge WITH MaxTime <- MaxReplayTime, pc <- stage, now <- time, job <- called

\* What the parts assume of their constants.
ASSUME HostsAssumption ==
    Server!SidecarAssumption /\ Deliver!DeliveryAssumption /\ Replayer!BridgeAssumption

sidecar == <<up, req, tries, pc, got, size, status, heard, effects, session, job, fresh>>
delivery == <<now, local, epoch, localEpoch, buffer, owner, requests, replies, accepted, reported>>
bridge == <<source, stage, deterministic, deadline, todo, seen, watches, views, time, calls, called, flight,
            quarantined, identity, rows, parentFailed, report, labels>>
vars == <<part, sidecar, delivery, bridge>>

Init == part \in Parts /\ Server!Init /\ Deliver!Init /\ Replayer!Init

Next ==
    \/ part = "sidecar" /\ Server!Next /\ UNCHANGED <<part, delivery, bridge>>
    \/ part = "delivery" /\ Deliver!Next /\ UNCHANGED <<part, sidecar, bridge>>
    \/ part = "bridge" /\ Replayer!Next /\ UNCHANGED <<part, sidecar, delivery>>

Spec == Init /\ [][Next]_vars

-----------------------------------------------------------------------------
\* The properties, each stated in its part's module.

\* Sidecar, BoundedBody: bodies are bounded, and what a handler gets is whole.
BoundedAndWhole == Server!BoundedAndWhole
\* Sidecar, the routes: a repeated request changes the coordinator once at most and is
\* not denied afterwards.
RetryAppliesOnce == Server!RetryAppliesOnce
\* Delivery, validate_delivery: what is accepted is within its deadline and age bound
\* on the server's own clock.
FreshOnDelivery == Deliver!FreshOnDelivery
\* Delivery, validate_delivery: valid_until_local_ns keeps its word.
ValidUntilKept == Deliver!ValidUntilKept
\* Delivery, consume: one consumer claims a result, whatever is lost and repeated.
OneClaimant == Deliver!OneClaimant
\* Bridge, aligned deadline: the first call of a parent job finishes or fails itself.
FirstCallFinishes == Replayer!FirstCallFinishes
\* Bridge, the report and r5_evaluate_streamarena: transport_completed, and opened labels,
\* stand for every call the parent made.
CompletedIsWhole == Replayer!CompletedIsWhole
\* Bridge, streambudget_job: a frame of overlapping windows keeps one identity.
IdentityStable == Replayer!IdentityStable
\* Bridge, the schedule: same-instant events are replayed in causal order.
CausalViews == Replayer!CausalViews
=============================================================================
