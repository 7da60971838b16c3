------------------------------ MODULE Inference -----------------------------
(***************************************************************************)
(* What surrounds one inference: the HTTP call, its charge, the import of  *)
(* late charges and the cache of its result.  These parts share no state;  *)
(* a behaviour runs one of them, `part', and leaves the others in an       *)
(* initial state.                                                          *)
(***************************************************************************)
EXTENDS Integers, Sequences

CONSTANTS
    Parts,                                                            \* which parts to run
    None,                                                             \* Python's None
    Calls, Scripts, MaxResponse,                                      \* HttpBackend
    Counts, Rates, Reserves, Charges, Million,                        \* Charging
    Importers, Coordinator, Attempts, Exports, MaxBytes, MaxRecords,  \* ChargeImport
    MaxCap, Free,
    Keys, NoKey, Payloads, Size, MaxEntries, MaxCached, TtlNs, MaxTime   \* HistoricalCache

VARIABLES
    part,
    call, script, phase, pos, parser, outcome, remote,            \* HttpBackend
    endpoint, value, row,                                         \* Charging
    lock, cap, actual, txn, pc, file, apply, caps, imported,      \* ChargeImport
    data, bytes, now, recency, answer                             \* HistoricalCache

Http == INSTANCE HttpBackend WITH MaxBytes <- MaxResponse
Charge == INSTANCE Charging
Import == INSTANCE ChargeImport WITH outcome <- imported
Cache == INSTANCE HistoricalCache WITH MaxBytes <- MaxCached, Nothing <- None

\* What the parts assume of their constants.
ASSUME InferenceAssumption ==
    Http!BackendAssumption /\ Charge!ChargingAssumption /\ Import!ImportAssumption /\ Cache!CacheAssumption

http == <<call, script, phase, pos, parser, outcome, remote>>
charging == <<endpoint, value, row>>
import == <<lock, cap, actual, txn, pc, file, apply, caps, imported>>
cache == <<data, bytes, now, recency, answer>>
vars == <<part, http, charging, import, cache>>

Init == part \in Parts /\ Http!Init /\ Charge!Init /\ Import!Init /\ Cache!Init

Next ==
    \/ part = "http" /\ Http!Next /\ UNCHANGED <<part, charging, import, cache>>
    \/ part = "charging" /\ Charge!Next /\ UNCHANGED <<part, http, import, cache>>
    \/ part = "import" /\ Import!Next /\ UNCHANGED <<part, http, charging, cache>>
    \/ part = "cache" /\ Cache!Next /\ UNCHANGED <<part, http, charging, import>>

Spec == Init /\ [][Next]_vars

-----------------------------------------------------------------------------
\* The properties, each stated in its part's module.

\* HttpBackend, parse_line: a stream becomes a prediction exactly when it is whole and well
\* formed, however it was cut into chunks.
StreamParsedWhole == Http!StreamParsedWhole
\* HttpBackend, infer: "not sent" and "known termination" are true, one failure excepted.
ClaimsTrue == Http!ClaimsTrue
\* HttpBackend, infer: known termination is claimed only when remote compute is over.
KnownMeansOver == Http!KnownMeansOver
\* Charging, usage_from_chat and settle: paid work is held or charged at its tariff.
PaidNeverImplicitlyFree == Charge!PaidNeverImplicitlyFree
\* ChargeImport, reconcile_many: an importer changes its batch, whole, and nothing else.
ImportsOnlyItsBatch == Import!ImportsOnlyItsBatch
\* HistoricalCache, get and put: byte counter, limits, unique keys and order of use.
CountersExact == Cache!CountersExact
\* HistoricalCache: the cache is the lossy map that the coordinator relies on.
IsLossyCache == Cache!IsLossyCache
=============================================================================
