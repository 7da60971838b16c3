------------------------------ MODULE Contracts ------------------------------
(***************************************************************************)
(* The immutable job contract and the validity fence of contracts.py.      *)
(*                                                                         *)
(* A job identifier names one piece of immutable work: submit returns the  *)
(* stored receipt for the same fingerprint and raises for another one, so  *)
(* the body of a job is a constant of the model.  A body keeps what the    *)
(* coordinator's control depends on:                                       *)
(*   session, epoch, clock  the generation the client declared (the task   *)
(*                          revision changes only together with the epoch, *)
(*                          so a mismatch of either is a mismatch of epoch)*)
(*   snapshot, latest       the evidence cutoff, and the smaller of the    *)
(*                          deadline and the age bound of the evidence     *)
(*   policy                 workload = "policy": the host buffer bounds it *)
(*   key                    replace_key with model and operation; 0 = none *)
(*   deps, priority         parents and operator priority                  *)
(*   allowed                endpoints of the model at an allowed site      *)
(*   content                identity of a cacheable historical query;      *)
(*                          0 = not cacheable                              *)
(***************************************************************************)
EXTENDS Integers, FiniteSets

CONSTANTS Jobs, Sessions, Endpoints, Job

NoJob == 0
NoEndpoint == 0
NoBuffer == -1
NoEpoch == -1

JobBody == [session : Sessions, epoch : Nat, clock : Nat, snapshot : Nat, latest : Int,
            policy : BOOLEAN, key : Nat, deps : SUBSET Jobs, priority : 0..3,
            allowed : SUBSET Endpoints, content : Nat]

\* JobState, with "ABSENT" for an identifier that has no row yet.
Live == {"QUEUED", "RUNNING"}
Done == {"SUCCEEDED", "CONSUMED"}
Dead == {"REJECTED", "EXPIRED", "STALE", "CANCELLED", "SUPERSEDED", "FAILED", "UNKNOWN"}
JobState == Live \cup Done \cup Dead
ReceiptState == JobState \cup {"ABSENT"}

\* A session row; NoEpoch stands for a session that was never opened.
SessionRow == [epoch : Nat \cup {NoEpoch}, clock : Nat, active : BOOLEAN,
               buffer : Nat \cup {NoBuffer}]

\* The work of two jobs is the same cached computation: same evidence, same
\* generation, same model; identity, deadline and placement do not count.
SameContent(j, k) ==
    \/ j = k
    \/ /\ Job[j].content # 0
       /\ Job[j].content = Job[k].content
       /\ Job[j].session = Job[k].session
       /\ Job[j].epoch = Job[k].epoch
       /\ Job[j].clock = Job[k].clock
       /\ Job[j].snapshot = Job[k].snapshot

SameGeneration(j, k) ==
    Job[j].session = Job[k].session /\ Job[j].epoch = Job[k].epoch

\* Two jobs compete for one latest-only slot.
SameSlot(j, k) ==
    Job[j].key # 0 /\ Job[j].key = Job[k].key /\ SameGeneration(j, k)

\* Job.latest_ns: the moment from which the result is useless.
LatestNs(j, s) ==
    IF Job[j].policy /\ s.buffer # NoBuffer /\ s.buffer < Job[j].latest
    THEN s.buffer
    ELSE Job[j].latest

\* Mutant: the deadline test is missing.
InvalidReason_NoDeadline(j, s, now, clockId) ==
    IF Job[j].clock # clockId \/ s.clock # clockId THEN "clock_epoch_mismatch"
    ELSE IF Job[j].epoch # s.epoch \/ ~s.active THEN "session_epoch_mismatch"
    ELSE IF Job[j].snapshot > now THEN "future_snapshot"
    ELSE "none"

\* Job.invalid_reason, in the order of its tests.
InvalidReason(j, s, now, clockId) ==
    IF Job[j].clock # clockId \/ s.clock # clockId THEN "clock_epoch_mismatch"
    ELSE IF Job[j].epoch # s.epoch \/ ~s.active THEN "session_epoch_mismatch"
    ELSE IF Job[j].snapshot > now THEN "future_snapshot"
    ELSE IF now >= LatestNs(j, s) THEN "deadline_or_freshness_expired"
    ELSE "none"

\* The receipt state a failed fence leads to.
FenceState(reason) ==
    IF reason = "deadline_or_freshness_expired" THEN "EXPIRED" ELSE "STALE"

ASSUME JobsAssumption ==
    /\ Jobs \subseteq Nat \ {0}
    /\ IsFiniteSet(Jobs)
    /\ Endpoints \subseteq Nat \ {0}
    /\ IsFiniteSet(Endpoints)

\* Job.valid: a body is well formed, a policy job is neither discardable nor
\* cached, and a job is not its own parent.
ASSUME JobAssumption ==
    /\ Job \in [Jobs -> JobBody]
    /\ \A j \in Jobs : /\ Job[j].policy => Job[j].key = 0 /\ Job[j].content = 0
                       /\ j \notin Job[j].deps
=============================================================================
