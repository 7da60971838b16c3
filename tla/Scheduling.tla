----------------------------- MODULE Scheduling -----------------------------
(***************************************************************************)
(* Ranking of ready jobs and placement on an endpoint (scheduling.py).     *)
(* Identifiers are numbers so that the final tie-break of the code, the    *)
(* order of the identifiers, is available.                                 *)
(***************************************************************************)
EXTENDS Contracts, Sequences

CONSTANTS
    Pools,          \* configured resource pools
    EpPool,         \* Endpoint.pool
    EpEstimate,     \* Endpoint.estimate_ns: service, transport and margin together
    EpReserve,      \* Endpoint.reserve_microusd
    EpMaxInflight,  \* Endpoint.max_inflight
    PoolSlots,      \* Pool.slots
    Scheduler,      \* RuntimeConfig.scheduler
    Placement       \* RuntimeConfig.placement

ASSUME EndpointAssumption ==
    /\ IsFiniteSet(Pools)
    /\ EpPool \in [Endpoints -> Pools]
    /\ EpEstimate \in [Endpoints -> Nat]
    /\ EpReserve \in [Endpoints -> Nat]
    /\ EpMaxInflight \in [Endpoints -> Nat \ {0}]
    /\ PoolSlots \in [Pools -> Nat \ {0}]
    /\ Scheduler \in {"fifo", "edf", "slack"}
    /\ Placement \in {"fastest", "cheapest_feasible"}

\* Python's order on tuples of the same length.
LexLess(a, b) ==
    \E i \in 1..Len(a) : a[i] < b[i] /\ \A k \in 1..(i - 1) : a[k] = b[k]

\* rank(Candidate, now, mode): the sort key of a ready job.
Rank(c, now) ==
    CASE Scheduler = "fifo"  -> <<c.submitted, c.id>>
      [] Scheduler = "edf"   -> <<c.latest, c.submitted, c.id>>
      [] Scheduler = "slack" -> <<c.latest - now - c.estimate, c.priority, c.submitted, c.id>>

\* Mutant: the pool's slots are not counted.
Feasible_AnyPoolUse(eps, now, latest, poolUse, endpointUse, quarantined) ==
    {e \in eps : /\ EpPool[e] \notin quarantined
                 /\ endpointUse[e] < EpMaxInflight[e]
                 /\ now + EpEstimate[e] < latest}

\* choose_endpoint: the endpoints that pass every filter ...
Feasible(eps, now, latest, poolUse, endpointUse, quarantined) ==
    {e \in eps : /\ EpPool[e] \notin quarantined
                 /\ poolUse[EpPool[e]] < PoolSlots[EpPool[e]]
                 /\ endpointUse[e] < EpMaxInflight[e]
                 /\ now + EpEstimate[e] < latest}

PlacementKey(e) ==
    IF Placement = "cheapest_feasible"
    THEN <<EpReserve[e], EpEstimate[e], e>>
    ELSE <<EpEstimate[e], EpReserve[e], e>>

\* ... and the best of them: empty when there is none, a singleton otherwise.
ChooseEndpoint(feasible) ==
    {e \in feasible : \A f \in feasible \ {e} : LexLess(PlacementKey(e), PlacementKey(f))}
=============================================================================
