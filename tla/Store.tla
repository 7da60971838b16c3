------------------------------- MODULE Store --------------------------------
(***************************************************************************)
(* The SQLite journal and admission ledger (store.py): the durable state   *)
(* of the coordinator and the operations that commit to it.  Each operator *)
(* below is one transaction; synchronous=FULL makes a commit durable       *)
(* before the call returns, so a crash falls between two of them.  The     *)
(* append-only events table is not modelled: nothing reads it back.        *)
(***************************************************************************)
EXTENDS Scheduling, FiniteSetsExt

CONSTANTS
    Consumers, NoConsumer,
    MaxAttempts, MaxMicrousd,   \* the campaign's caps when the ledger is created
    Extensions,                 \* caps an operator may approve later
    Costs                       \* charges a provider may report

VARIABLES
    state, submitted, prediction, consumedBy,   \* jobs table: the receipt
    disposition, actual, attemptEp,             \* attempts table
    session,                                    \* sessions table
    quarantined,                                \* quarantines table
    caps                                        \* meta table, key 'budget'

receiptVars == <<state, submitted, prediction, consumedBy>>
attemptVars == <<disposition, actual, attemptEp>>
storeVars == <<receiptVars, attemptVars, session, quarantined, caps>>

NoCost == -1     \* Usage.cost_microusd is None

BudgetCaps == [attempts : Nat, microusd : Nat]

ASSUME StoreAssumption ==
    /\ MaxAttempts \in Nat /\ MaxMicrousd \in Nat
    /\ Extensions \subseteq BudgetCaps
    /\ Costs \subseteq Nat
    /\ NoConsumer \notin Consumers

StoreTypeOK ==
    /\ state \in [Jobs -> ReceiptState]
    /\ submitted \in [Jobs -> Nat]
    /\ prediction \in [Jobs -> Jobs \cup {NoJob}]
    /\ consumedBy \in [Jobs -> Consumers \cup {NoConsumer}]
    /\ disposition \in [Jobs -> {"none", "reserved", "unknown", "settled"}]
    /\ actual \in [Jobs -> Nat]
    /\ attemptEp \in [Jobs -> Endpoints \cup {NoEndpoint}]
    /\ session \in [Sessions -> SessionRow]
    /\ quarantined \subseteq Pools
    /\ caps \in BudgetCaps

StoreInit ==
    /\ state = [j \in Jobs |-> "ABSENT"]
    /\ submitted = [j \in Jobs |-> 0]
    /\ prediction = [j \in Jobs |-> NoJob]
    /\ consumedBy = [j \in Jobs |-> NoConsumer]
    /\ disposition = [j \in Jobs |-> "none"]
    /\ actual = [j \in Jobs |-> 0]
    /\ attemptEp = [j \in Jobs |-> NoEndpoint]
    /\ session = [s \in Sessions |-> [epoch |-> NoEpoch, clock |-> 0, active |-> FALSE,
                                      buffer |-> NoBuffer]]
    /\ quarantined = {}
    /\ caps = [attempts |-> MaxAttempts, microusd |-> MaxMicrousd]

-----------------------------------------------------------------------------
\* jobs(tenant, states), and the pool of an attempt row.
JobsIn(S) == {j \in Jobs : state[j] \in S}
Stored == JobsIn(JobState)
Attempted == {j \in Jobs : disposition[j] # "none"}
PoolOf(j) == EpPool[attemptEp[j]]

\* put_session and receipt (through Runtime._set): one row each.
PutSession(s, row) == session' = [session EXCEPT ![s] = row]
SetState(j, new) == state' = [state EXCEPT ![j] = new]

\* Mutant: an attempt of unknown charge no longer holds its quote.
Hold_KnownOnly(j) ==
    CASE disposition[j] = "settled"  -> actual[j]
      [] disposition[j] = "reserved" -> EpReserve[attemptEp[j]]
      [] OTHER                       -> 0

\* budget(): an attempt holds its quote until an actual charge is known.
Hold(j) ==
    CASE disposition[j] = "none"    -> 0
      [] disposition[j] = "settled" -> actual[j]
      [] OTHER                      -> EpReserve[attemptEp[j]]
AdmissionTotal == MapThenSumSet(Hold, Jobs)

\* reserve(): the ceiling test and the attempt row are one transaction.
WithinCeiling(e) ==
    /\ Cardinality(Attempted) < caps.attempts
    /\ AdmissionTotal + EpReserve[e] <= caps.microusd
Reserve(j, e) ==
    /\ WithinCeiling(e)
    /\ disposition' = [disposition EXCEPT ![j] = "reserved"]
    /\ actual' = [actual EXCEPT ![j] = 0]
    /\ attemptEp' = [attemptEp EXCEPT ![j] = e]

\* Mutant: a missing charge is written as if it were one.
Settle_Unchecked(j, cost) ==
    /\ disposition' = [disposition EXCEPT ![j] = "settled"]
    /\ actual' = [actual EXCEPT ![j] = cost]
    /\ UNCHANGED attemptEp

\* settle(): overwrites the row whatever it holds; NoCost leaves it unknown.
Settle(j, cost) ==
    /\ disposition' = [disposition EXCEPT ![j] = IF cost = NoCost THEN "unknown" ELSE "settled"]
    /\ actual' = [actual EXCEPT ![j] = IF cost = NoCost THEN 0 ELSE cost]
    /\ UNCHANGED attemptEp

Quarantine(p) == quarantined' = quarantined \cup {p}

-----------------------------------------------------------------------------
\* Offline operator calls; the caller holds the ledger's lock.

\* Mutant: a settled attempt may be settled again.
Reconcile_Overwriting(batch) ==
    /\ batch # {}
    /\ batch \subseteq Attempted
    /\ \E charge \in [batch -> Costs] :
          actual' = [j \in Jobs |-> IF j \in batch THEN charge[j] ELSE actual[j]]
    /\ disposition' = [j \in Jobs |-> IF j \in batch THEN "settled" ELSE disposition[j]]
    /\ UNCHANGED <<receiptVars, attemptEp, session, quarantined, caps>>

\* reconcile_many: a batch of unresolved attempts is settled in one transaction.
Reconcile(batch) ==
    /\ batch # {}
    /\ batch \subseteq {j \in Attempted : disposition[j] # "settled"}
    /\ \E charge \in [batch -> Costs] :
          actual' = [j \in Jobs |-> IF j \in batch THEN charge[j] ELSE actual[j]]
    /\ disposition' = [j \in Jobs |-> IF j \in batch THEN "settled" ELSE disposition[j]]
    /\ UNCHANGED <<receiptVars, attemptEp, session, quarantined, caps>>

ReleasePool(p) ==
    /\ p \in quarantined
    /\ quarantined' = quarantined \ {p}
    /\ UNCHANGED <<receiptVars, attemptVars, session, caps>>

\* extend_budget: caps never shrink.
ExtendBudget(new) ==
    /\ new.attempts >= caps.attempts /\ new.microusd >= caps.microusd
    /\ caps' = new
    /\ UNCHANGED <<receiptVars, attemptVars, session, quarantined>>
=============================================================================
