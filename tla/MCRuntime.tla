----------------------------- MODULE MCRuntime ------------------------------
(***************************************************************************)
(* Instances of Runtime for TLC.  Identifiers of jobs and endpoints are    *)
(* 1, 2, ..., so a function on them is written as a tuple.                 *)
(***************************************************************************)
EXTENDS Runtime

\* A job of session "s" that any endpoint may run; the instances change fields.
Body(epoch, clock, snapshot, latest) ==
    [session |-> "s", epoch |-> epoch, clock |-> clock, snapshot |-> snapshot, latest |-> latest,
     policy |-> FALSE, key |-> 0, deps |-> {}, priority |-> 1, allowed |-> Endpoints, content |-> 0]

OneSession == {"s"}
OnePool == {"gpu"}
NoExtension == {}

AllOnGpu == [e \in Endpoints |-> "gpu"]
Instant == [e \in Endpoints |-> 0]
Free == [e \in Endpoints |-> 0]
QuoteTwo == [e \in Endpoints |-> 2]
OneInflight == [e \in Endpoints |-> 1]
OneSlot == [p \in Pools |-> 1]

\* coordinator: two endpoints share the one slot of a pool; 1 and 2 compete for
\* a latest-only slot; 3 needs 1 and is bound by the host buffer.
CoordinatorJobs == <<[Body(0, 1, 0, 1) EXCEPT !.key = 1],
                     [Body(0, 1, 1, 2) EXCEPT !.key = 1],
                     [Body(0, 1, 0, 2) EXCEPT !.deps = {1}, !.policy = TRUE]>>

\* restart: two jobs that ask for one cacheable computation, quoted 2 each
\* under a ceiling of 3.
TwinJobs == <<[Body(0, 1, 0, 1) EXCEPT !.content = 1], [Body(0, 1, 0, 1) EXCEPT !.content = 1]>>
LedgerExtension == {[attempts |-> 2, microusd |-> 4]}

\* shutdown: a job and the one that waits for it, expiring within the clock's bound.
FamilyJobs == <<Body(0, 1, 0, 1), [Body(0, 1, 0, 1) EXCEPT !.deps = {1}]>>

\* one job.
OneJob == <<Body(0, 1, 0, 1)>>

\* replacement: the newer snapshot of a slot is computed from the older one.
ReplacementJobs == <<[Body(0, 1, 0, 2) EXCEPT !.key = 1],
                     [Body(0, 1, 1, 2) EXCEPT !.key = 1, !.deps = {1}]>>
=============================================================================
