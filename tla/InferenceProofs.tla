--------------------------- MODULE InferenceProofs --------------------------
(***************************************************************************)
(* Theorems about what surrounds one inference: the charge of an attempt,  *)
(* the import of late charges, the HTTP call with its stream parser, and   *)
(* the cache of results, for every value of the constants.                 *)
(***************************************************************************)
EXTENDS Inference, SumProofs, TLAPS

\* The parts share no state: a behaviour of the whole is one of each part.
LEMMA PartsRun == Spec => Charge!Spec /\ Import!Spec /\ Http!Spec /\ Cache!Spec
<1>1. Init => Charge!Init /\ Import!Init /\ Http!Init /\ Cache!Init
  BY DEF Init
<1>2. [Next]_vars => [Charge!Next]_Charge!vars
  BY DEF Next, vars, charging, Charge!vars
<1>3. [Next]_vars => [Import!Next]_Import!vars
  BY DEF Next, vars, import, Import!vars
<1>4. [Next]_vars => [Http!Next]_Http!vars
  BY DEF Next, vars, http, Http!vars
<1>5. [Next]_vars => [Cache!Next]_Cache!vars
  BY DEF Next, vars, cache, Cache!vars
<1>. QED BY <1>1, <1>2, <1>3, <1>4, <1>5, PTL
          DEF Spec, Charge!Spec, Import!Spec, Http!Spec, Cache!Spec

-----------------------------------------------------------------------------
(* Charging: what an attempt of a paid endpoint weighs.                    *)

\* The reservation is the endpoint's own, and the attempt is never free by omission.
ChargeInv ==
    /\ Charge!TypeOK /\ Charge!ValidEndpoint(endpoint)
    /\ row.disposition # "absent" => row.quote = endpoint.reserve
    /\ Charge!PaidNeverImplicitlyFree

\* The whole charge that Estimate rounds up to: the smallest that covers x.
LEMMA RoundedUp ==
    ASSUME NEW x \in Int, NEW m \in Nat \ {0}
    PROVE  /\ (x + m - 1) \div m \in Int
           /\ ((x + m - 1) \div m) * m >= x
           /\ ((x + m - 1) \div m - 1) * m < x
           /\ x >= 0 => (x + m - 1) \div m \in Nat
OBVIOUS

\* A product of token counts and rates is a natural number.
LEMMA ProductNat == \A x, y \in Nat : x * y \in Nat
OBVIOUS

\* The tariff of a valid usage: a natural number of micro-USD, times a million.
LEMMA EstimateCovers ==
    ASSUME Charge!ChargingAssumption, NEW v \in Charge!UsageValue, NEW e \in Charge!Endpoint,
           Charge!ValidUsage(v), Charge!Priced(v, e)
    PROVE  LET owed == (v.prompt - Charge!OrElse(v.cached, 0)) * e.input
                          + Charge!OrElse(v.cached, 0) * Charge!OrElse(e.cached, e.input)
                          + v.completion * e.output
               charge == Charge!Estimate(v, e)
           IN  charge \in Nat /\ charge * Million >= owed /\ (charge - 1) * Million < owed
<1> DEFINE cached == Charge!OrElse(v.cached, 0)
           rate == Charge!OrElse(e.cached, e.input)
           owed == (v.prompt - cached) * e.input + cached * rate + v.completion * e.output
<1>1. v.prompt \in Nat /\ v.completion \in Nat /\ e.input \in Nat /\ e.output \in Nat
  BY DEF Charge!ChargingAssumption, Charge!UsageValue, Charge!Endpoint, Charge!Optional, Charge!Priced
<1>2. cached \in Nat /\ rate \in Nat /\ v.prompt - cached \in Nat
  <2>1. v.cached # None => v.cached \in Nat /\ v.cached <= v.prompt
    BY DEF Charge!ChargingAssumption, Charge!UsageValue, Charge!Optional, Charge!ValidUsage, Charge!Subset
  <2>2. e.cached # None => e.cached \in Nat
    BY DEF Charge!ChargingAssumption, Charge!Endpoint, Charge!Optional
  <2>. QED BY <1>1, <2>1, <2>2 DEF Charge!OrElse
<1>3. Charge!Estimate(v, e) = (owed + Million - 1) \div Million
  BY DEF Charge!Estimate, Charge!CachedTokens
<1> HIDE DEF cached, rate
<1>4. owed \in Nat
  BY <1>1, <1>2, ProductNat
<1>5. Million \in Nat \ {0}
  BY DEF Charge!ChargingAssumption
<1> HIDE DEF owed
<1>6. LET charge == Charge!Estimate(v, e)
      IN  charge \in Nat /\ charge * Million >= owed /\ (charge - 1) * Million < owed
  BY <1>3, <1>4, <1>5, RoundedUp
<1>. QED BY <1>6 DEF owed, cached, rate

\* Rounding a charge leaves it within half a micro-USD, and never makes it negative.
LEMMA RoundedIsNearest ==
    ASSUME NEW c \in Int, c >= 0
    PROVE  Charge!Rounded(c) \in Nat /\ Charge!Nearest(Charge!Rounded(c), c)
<1> DEFINE q == c \div 4
           r == c % 4
<1>1. q \in Nat /\ r \in 0..3 /\ c = 4 * q + r
  OBVIOUS
<1>2. Charge!Rounded(c) \in {q, q + 1}
  BY DEF Charge!Rounded
<1>3. CASE r > 2 \/ (r = 2 /\ q % 2 = 1)
  <2>1. Charge!Rounded(c) = q + 1
    BY <1>3 DEF Charge!Rounded
  <2> HIDE DEF q, r
  <2>. QED BY <1>1, <1>3, <2>1 DEF Charge!Nearest
<1>4. CASE ~(r > 2 \/ (r = 2 /\ q % 2 = 1))
  <2>1. Charge!Rounded(c) = q
    BY <1>4 DEF Charge!Rounded
  <2>2. r <= 2
    BY <1>1, <1>4
  <2> HIDE DEF q, r
  <2>. QED BY <1>1, <2>1, <2>2 DEF Charge!Nearest
<1>. QED BY <1>3, <1>4

\* What Settle writes: nothing known; the provider's own charge, to the nearest micro-USD;
\* or, when there is none, the tariff's.
LEMMA SettledCharge ==
    ASSUME Charge!ChargingAssumption, NEW v \in Charge!UsageValue \cup {None}, NEW e \in Charge!Endpoint,
           v # None => v \in Charge!UsageValue /\ Charge!ValidUsage(v)
    PROVE  /\ Charge!UsageFromChat(v, e) \in Nat \cup {None}
           /\ e.billed => \/ Charge!UsageFromChat(v, e) = None
                          \/ /\ v # None /\ Charge!Reported(v)
                             /\ Charge!Nearest(Charge!UsageFromChat(v, e), v.cost)
                          \/ /\ v # None /\ ~Charge!Reported(v) /\ Charge!Priced(v, e)
                             /\ Charge!UsageFromChat(v, e) = Charge!Estimate(v, e)
<1>1. e.billed \in BOOLEAN
  BY DEF Charge!Endpoint
<1>2. ASSUME v # None, Charge!Reported(v)
      PROVE  Charge!Rounded(v.cost) \in Nat /\ Charge!Nearest(Charge!Rounded(v.cost), v.cost)
  <2>1. v.cost \in Int /\ v.cost >= 0
    BY <1>2 DEF Charge!Reported, Charge!UsageValue, Charge!Optional, Charge!ChargingAssumption
  <2>. QED BY <2>1, RoundedIsNearest
<1>3. ASSUME v # None, Charge!Priced(v, e) PROVE Charge!Estimate(v, e) \in Nat
  BY <1>3, EstimateCovers
<1>. QED BY <1>1, <1>2, <1>3 DEF Charge!UsageFromChat

\* Every step keeps the invariant.
LEMMA ChargeStep ==
    ASSUME Charge!ChargingAssumption, ChargeInv, [Charge!Next]_Charge!vars
    PROVE  ChargeInv'
<1>0. /\ endpoint \in Charge!Endpoint /\ endpoint.reserve \in Nat /\ value \in Charge!UsageValue \cup {None}
      /\ row \in [disposition : {"absent", "reserved", "settled", "unknown"}, quote : Nat,
                  actual : Charge!Optional(Nat)]
  BY DEF ChargeInv, Charge!TypeOK, Charge!Endpoint, Charge!ChargingAssumption
<1>1. CASE Charge!Reserve
  <2>1. /\ row' = [disposition |-> "reserved", quote |-> endpoint.reserve, actual |-> None]
        /\ UNCHANGED <<endpoint, value>>
    BY <1>1 DEF Charge!Reserve
  <2>. QED BY <1>0, <2>1 DEF ChargeInv, Charge!TypeOK, Charge!ValidEndpoint,
           Charge!PaidNeverImplicitlyFree, Charge!Optional
<1>2. CASE Charge!Settle
  <2> DEFINE cost == Charge!UsageFromChat(value, endpoint)
  <2>2. /\ cost \in Nat \cup {None}
        /\ endpoint.billed => \/ cost = None
                              \/ /\ value # None /\ Charge!Reported(value)
                                 /\ Charge!Nearest(cost, value.cost)
                              \/ /\ value # None /\ ~Charge!Reported(value) /\ Charge!Priced(value, endpoint)
                                 /\ cost = Charge!Estimate(value, endpoint)
    BY <1>2, <1>0, SettledCharge DEF Charge!Settle
  <2> HIDE DEF cost
  <2>3. /\ row' \in [disposition : {"settled", "unknown"}, quote : Nat, actual : Charge!Optional(Nat)]
        /\ row'.quote = row.quote /\ row'.actual = cost /\ row.disposition = "reserved"
        /\ endpoint' = endpoint /\ value' = value
    BY <1>2, <1>0, <2>2 DEF Charge!Settle, Charge!Settled, cost, Charge!Optional
  <2>4. Charge!TypeOK' /\ Charge!ValidEndpoint(endpoint)' /\ row'.quote = endpoint'.reserve
    BY <1>0, <2>3 DEF ChargeInv, Charge!TypeOK, Charge!ValidEndpoint, Charge!Endpoint
  <2>5. Charge!PaidNeverImplicitlyFree'
    <3>1. SUFFICES ASSUME endpoint.billed PROVE Charge!PaidNeverImplicitlyFree'
      BY <2>3 DEF Charge!PaidNeverImplicitlyFree
    <3>2. CASE cost = None
      BY <3>1, <3>2, <1>0, <2>3, <2>4 DEF ChargeInv, Charge!ValidEndpoint, Charge!PaidNeverImplicitlyFree
    <3>3. CASE cost # None /\ value # None /\ Charge!Reported(value) /\ Charge!Nearest(cost, value.cost)
      BY <3>3, <2>3 DEF Charge!PaidNeverImplicitlyFree, Charge!Reported
    <3>4. CASE /\ cost # None /\ value # None /\ ~Charge!Reported(value) /\ Charge!Priced(value, endpoint)
               /\ cost = Charge!Estimate(value, endpoint)
      <4>1. value \in Charge!UsageValue /\ Charge!ValidUsage(value)
        BY <1>2, <1>0, <3>4 DEF Charge!Settle
      <4>. QED BY <3>4, <4>1, <1>0, <2>3, EstimateCovers
               DEF Charge!PaidNeverImplicitlyFree, Charge!CoversTariff, Charge!Priced, Charge!Reported,
                   Charge!OrElse
    <3>. QED BY <2>2, <3>1, <3>2, <3>3, <3>4
  <2>. QED BY <2>4, <2>5 DEF ChargeInv
<1>3. CASE Charge!Refuse
  <2>1. /\ row' \in [disposition : {"unknown"}, quote : Nat, actual : {None}]
        /\ row'.quote = row.quote /\ row.disposition = "reserved"
        /\ UNCHANGED <<endpoint, value>>
    BY <1>0, <1>3 DEF Charge!Refuse, Charge!Settled
  <2>. QED BY <1>0, <2>1 DEF ChargeInv, Charge!TypeOK, Charge!ValidEndpoint,
           Charge!PaidNeverImplicitlyFree, Charge!Optional
<1>4. CASE UNCHANGED Charge!vars
  BY <1>4 DEF Charge!vars, ChargeInv, Charge!TypeOK, Charge!ValidEndpoint, Charge!PaidNeverImplicitlyFree,
     Charge!CoversTariff, Charge!Priced, Charge!Reported, Charge!OrElse
<1>. QED BY <1>1, <1>2, <1>3, <1>4 DEF Charge!Next

\* "They never become an implicit zero-cost result", for every tariff and every usage
\* object: usage_from_chat and settle hold paid work whose charge is not known, and charge
\* the rest with the provider's own figure to the nearest micro-USD, or its full tariff.
THEOREM NeverFree == Spec => []PaidNeverImplicitlyFree
<1>1. Charge!Init => ChargeInv
  BY DEF Charge!Init, ChargeInv, Charge!TypeOK, Charge!PaidNeverImplicitlyFree, Charge!Optional
<1>2. ChargeInv /\ [Charge!Next]_Charge!vars => ChargeInv'
  BY InferenceAssumption, ChargeStep
<1>3. ChargeInv => PaidNeverImplicitlyFree
  BY DEF ChargeInv, PaidNeverImplicitlyFree
<1>. QED BY <1>1, <1>2, <1>3, PartsRun, PTL DEF Charge!Spec

-----------------------------------------------------------------------------
(* ChargeImport: the batch, whole, and nothing else.                       *)

\* What an importer that has begun to apply knows of its export, of the ledger and of the
\* transaction so far: the ledger is as its preflight found it.
Applying(i) ==
    LET rows == file[i].rows
    IN  /\ apply[i] /\ Import!Loads(file[i]) /\ Import!Preflight(file[i])
        /\ \A k \in DOMAIN rows : txn[rows[k].job] \in {None, rows[k].charge}
        /\ \A a \in Attempts : txn[a] # None => a \in Import!Named(file[i])
        /\ pc[i] = "commit" => \A k \in DOMAIN rows : txn[rows[k].job] = rows[k].charge

\* The lock admits one importer at a time, and a transaction is one importer's.
ImportInv ==
    /\ Import!TypeOK
    /\ \A i \in Importers : pc[i] \in {"open", "apply", "commit"} <=> lock = i
    /\ \A i \in Importers : pc[i] \in {"apply", "commit"} => Applying(i)
    /\ (\A i \in Importers : pc[i] \notin {"apply", "commit"}) => txn = Import!Empty

\* A record of an export that loads: an attempt's charge, and the only one of its job.
LEMMA LoadedRecord ==
    ASSUME Import!ImportAssumption, Import!TypeOK, NEW i \in Importers,
           Import!Loads(file[i]), Import!Preflight(file[i]), NEW k \in DOMAIN file[i].rows
    PROVE  /\ file[i].rows[k].job \in Attempts /\ file[i].rows[k].charge \in Nat
           /\ file[i].rows[k].charge # None /\ file[i].rows[k].job \in Import!Named(file[i])
           /\ actual[file[i].rows[k].job] = None
           /\ file[i].rows \in Seq(Import!Record)
           /\ \A j \in DOMAIN file[i].rows : file[i].rows[j].job = file[i].rows[k].job => j = k
<1>1. file[i] \in Import!Export
  BY DEF Import!ImportAssumption, Import!TypeOK
<1>2. file[i].rows \in Seq(Import!Record)
  BY <1>1 DEF Import!Export
<1>3. file[i].rows[k] \in Import!Record
  BY <1>2
<1>4. file[i].rows[k].job \in Import!Named(file[i])
  BY DEF Import!Named
<1>5. file[i].rows[k].charge \in Nat
  BY <1>3 DEF Import!Record, Import!Loads, Import!ValidRecord
<1>. QED BY <1>2, <1>4, <1>5 DEF Import!Loads, Import!Preflight, Import!ImportAssumption

\* Writing one row keeps the transaction one of this export's charges.
LEMMA RowWritten ==
    ASSUME Import!ImportAssumption, ImportInv, NEW i \in Importers, NEW k \in DOMAIN file[i].rows,
           Import!UpdateRow(i, k)
    PROVE  ImportInv'
<1> DEFINE rows == file[i].rows
           r == rows[k]
<1>1. /\ pc[i] = "apply" /\ Applying(i) /\ lock = i
      /\ txn[r.job] = None /\ txn' = [txn EXCEPT ![r.job] = r.charge]
      /\ \A j \in 1..(k - 1) : txn[rows[j].job] # None
      /\ UNCHANGED <<lock, cap, actual, file, apply, caps, imported>>
  BY DEF Import!UpdateRow, ImportInv
<1>2. \A j \in DOMAIN rows : rows[j].job \in Attempts /\ rows[j].charge \in Nat /\ rows[j].charge # None
                             /\ rows[j].job \in Import!Named(file[i])
                             /\ (rows[j].job = r.job => j = k)
  BY <1>1, LoadedRecord DEF Applying, ImportInv
<1>3. rows \in Seq(Import!Record) /\ Len(rows) \in Nat /\ DOMAIN rows = 1..Len(rows) /\ k \in Nat
  BY <1>1, LoadedRecord DEF Applying, ImportInv
<1>4. txn \in [Attempts -> Nat \cup {None}] /\ txn' \in [Attempts -> Nat \cup {None}]
  BY <1>1, <1>2 DEF ImportInv, Import!TypeOK
<1>5. /\ \A j \in DOMAIN rows : txn'[rows[j].job] = IF j = k THEN r.charge ELSE txn[rows[j].job]
      /\ \A a \in Attempts : txn'[a] # None => a \in Import!Named(file[i])
  BY <1>1, <1>2, <1>4 DEF Applying
<1>6. /\ (pc' = [pc EXCEPT ![i] = "commit"] /\ k = Len(rows)) \/ pc' = pc
      /\ pc \in [Importers -> {"idle", "read", "open", "apply", "commit", "over"}]
  BY DEF Import!UpdateRow, ImportInv, Import!TypeOK
<1>7. Import!TypeOK'
  BY <1>1, <1>4, <1>6 DEF ImportInv, Import!TypeOK
<1>8. \A j \in Importers : pc'[j] \in {"open", "apply", "commit"} <=> lock' = j
  BY <1>1, <1>6 DEF ImportInv
<1>9. \A j \in Importers : pc'[j] \in {"apply", "commit"} => j = i
  BY <1>1, <1>8
<1>10. Applying(i)'
  <2>1. pc'[i] = "commit" => \A j \in DOMAIN rows : txn'[rows[j].job] = rows[j].charge
    <3>1. SUFFICES ASSUME pc'[i] = "commit", NEW j \in DOMAIN rows PROVE txn'[rows[j].job] = rows[j].charge
      OBVIOUS
    <3>2. k = Len(rows)
      BY <1>1, <1>6, <3>1
    <3>3. j = k \/ j \in 1..(k - 1)
      BY <1>3, <3>2
    <3>. QED BY <1>1, <1>5, <3>3 DEF Applying
  <2>. QED BY <1>1, <1>5, <2>1 DEF Applying, Import!Preflight, Import!Loads, Import!Named
<1>11. pc'[i] \in {"apply", "commit"}
  BY <1>1, <1>6
<1>. QED BY <1>7, <1>8, <1>9, <1>10, <1>11 DEF ImportInv

\* Every step keeps the invariant.
LEMMA ImportStep ==
    ASSUME Import!ImportAssumption, ImportInv, [Import!Next]_Import!vars
    PROVE  ImportInv'
<1> USE DEF Import!TypeOK
<1>1. CASE Import!CoordinatorActs
  <2>1. /\ lock \in {Free, Coordinator} /\ lock' \in {Free, Coordinator}
        /\ UNCHANGED <<txn, pc, file, apply, caps, imported>>
    BY <1>1 DEF Import!CoordinatorActs, Import!CoordinatorStep
  <2>2. \A i \in Importers : lock # i /\ lock' # i /\ pc[i] \notin {"open", "apply", "commit"}
    BY <2>1 DEF Import!ImportAssumption, ImportInv
  <2>3. cap' \in Nat /\ actual' \in [Attempts -> Nat \cup {None}]
    BY <1>1 DEF Import!CoordinatorActs, Import!CoordinatorStep, ImportInv
  <2>4. Import!TypeOK' /\ txn' = Import!Empty /\ txn = Import!Empty
    <3>1. txn = Import!Empty
      BY <2>2 DEF ImportInv
    <3>2. lock' \in Importers \cup {Coordinator, Free}
      BY <2>1
    <3>. QED BY <2>1, <2>3, <3>1, <3>2 DEF ImportInv
  <2>. QED BY <2>1, <2>2, <2>4 DEF ImportInv, Import!Empty
<1>2. ASSUME NEW i \in Importers,
             Import!ReadCaps(i) \/ Import!OpenRefused(i) \/ Import!OpenLedger(i)
                \/ Import!ImportRefused(i) \/ Import!DryRun(i)
      PROVE  ImportInv'
  <2>1. /\ pc[i] \in {"idle", "read", "open"} /\ UNCHANGED <<cap, actual, txn, file, apply>>
        /\ pc' \in {[pc EXCEPT ![i] = "read"], [pc EXCEPT ![i] = "open"], [pc EXCEPT ![i] = "over"]}
        /\ pc'[i] \notin {"apply", "commit"}
        /\ \A j \in Importers \ {i} : pc'[j] = pc[j]
    BY <1>2 DEF Import!ReadCaps, Import!OpenRefused, Import!OpenLedger, Import!ImportRefused, Import!DryRun,
       Import!Refused, ImportInv
  <2>2. Import!TypeOK'
    BY <1>2, <2>1 DEF Import!ReadCaps, Import!OpenRefused, Import!OpenLedger, Import!ImportRefused,
       Import!DryRun, Import!Refused, ImportInv
  <2>3. \/ lock' = lock /\ (pc[i] = "open" <=> pc'[i] = "open")
        \/ lock = Free /\ lock' = i /\ pc'[i] = "open"
        \/ lock = i /\ lock' = Free /\ pc'[i] = "over"
    <3>0. pc \in [Importers -> {"idle", "read", "open", "apply", "commit", "over"}]
      BY DEF ImportInv
    <3>1. CASE Import!ReadCaps(i) \/ Import!OpenRefused(i)
      BY <3>0, <3>1 DEF Import!ReadCaps, Import!OpenRefused, Import!Refused
    <3>2. CASE Import!OpenLedger(i)
      BY <3>0, <3>2 DEF Import!OpenLedger
    <3>3. CASE Import!ImportRefused(i) \/ Import!DryRun(i)
      <4>1. lock = i
        BY <3>3 DEF Import!ImportRefused, Import!DryRun, ImportInv
      <4>. QED BY <3>0, <3>3, <4>1 DEF Import!ImportRefused, Import!DryRun, Import!Refused
    <3>. QED BY <1>2, <3>1, <3>2, <3>3
  <2>4. \A j \in Importers : pc'[j] \in {"open", "apply", "commit"} <=> lock' = j
    BY <2>1, <2>3 DEF ImportInv, Import!ImportAssumption
  <2>5. ASSUME NEW j \in Importers, pc'[j] \in {"apply", "commit"} PROVE Applying(j)'
    <3>1. pc'[j] = pc[j] /\ Applying(j)
      BY <2>1, <2>5 DEF ImportInv
    <3>. QED BY <2>1, <3>1 DEF Applying, Import!Preflight, Import!Loads, Import!Named
  <2>6. (\A j \in Importers : pc'[j] \notin {"apply", "commit"}) => txn' = Import!Empty'
    BY <2>1 DEF ImportInv, Import!Empty
  <2>. QED BY <2>2, <2>4, <2>5, <2>6 DEF ImportInv
<1>3. ASSUME NEW i \in Importers, Import!BeginApply(i) PROVE ImportInv'
  <2>1. /\ pc[i] = "open" /\ pc' = [pc EXCEPT ![i] = "apply"] /\ lock = i
        /\ Import!Loads(file[i]) /\ Import!Preflight(file[i]) /\ apply[i]
        /\ UNCHANGED <<lock, cap, actual, txn, file, apply, caps, imported>>
    BY <1>3 DEF Import!BeginApply, ImportInv
  <2>2. \A j \in Importers : pc[j] \notin {"apply", "commit"}
    BY <2>1 DEF ImportInv
  <2>3. txn = [a \in Attempts |-> None]
    BY <2>2 DEF ImportInv, Import!Empty
  <2>4. Import!TypeOK' /\ pc'[i] = "apply" /\ \A j \in Importers \ {i} : pc'[j] = pc[j]
    BY <2>1 DEF ImportInv
  <2>5. Applying(i)'
    BY <2>1, <2>3, <2>4, LoadedRecord DEF Applying, ImportInv, Import!Preflight, Import!Loads, Import!Named
  <2>. QED BY <2>1, <2>2, <2>4, <2>5 DEF ImportInv
<1>4. ASSUME NEW i \in Importers, Import!Commit(i) \/ Import!Killed(i) PROVE ImportInv'
  <2>1. /\ pc' \in {[pc EXCEPT ![i] = "over"], [pc EXCEPT ![i] = "idle"]}
        /\ pc'[i] \in {"over", "idle"} /\ \A j \in Importers \ {i} : pc'[j] = pc[j]
        /\ UNCHANGED <<cap, file, apply, caps>>
    BY <1>4 DEF Import!Commit, Import!Killed, ImportInv
  <2>2. CASE lock = i
    <3>1. txn' = Import!Empty /\ lock' = Free
      BY <1>4, <2>2 DEF Import!Commit, Import!Killed
    <3>2. \A j \in Importers : pc'[j] \notin {"open", "apply", "commit"} /\ lock' # j
      BY <2>1, <2>2, <3>1 DEF ImportInv, Import!ImportAssumption
    <3>3. Import!TypeOK'
      BY <1>4, <2>1, <3>1 DEF Import!Commit, Import!Killed, Import!Empty, ImportInv
    <3>. QED BY <3>1, <3>2, <3>3 DEF ImportInv, Import!Empty
  <2>3. CASE lock # i
    <3>1. UNCHANGED <<lock, txn, actual, imported>> /\ pc[i] \notin {"apply", "commit"}
      BY <1>4, <2>3 DEF Import!Commit, Import!Killed, ImportInv
    <3>2. Import!TypeOK'
      BY <2>1, <3>1 DEF ImportInv
    <3>3. ASSUME NEW j \in Importers, pc'[j] \in {"apply", "commit"} PROVE Applying(j)'
      <4>1. pc'[j] = pc[j] /\ Applying(j)
        BY <2>1, <3>3 DEF ImportInv
      <4>. QED BY <2>1, <3>1, <4>1 DEF Applying, Import!Preflight, Import!Loads, Import!Named
    <3>. QED BY <2>1, <2>3, <3>1, <3>2, <3>3 DEF ImportInv, Import!Empty
  <2>. QED BY <2>2, <2>3
<1>5. ASSUME NEW i \in Importers, NEW k \in DOMAIN file[i].rows, Import!UpdateRow(i, k) PROVE ImportInv'
  BY <1>5, RowWritten
<1>6. CASE UNCHANGED Import!vars
  BY <1>6 DEF Import!vars, ImportInv, Applying, Import!Loads, Import!Preflight, Import!Named, Import!Empty
<1>. QED BY <1>1, <1>2, <1>3, <1>4, <1>5, <1>6 DEF Import!Next

\* From the invariant, a step of the holder of the ledger changes its batch or nothing.
LEMMA OnlyItsBatch ==
    ASSUME Import!ImportAssumption, ImportInv, [Import!Next]_Import!vars
    PROVE  /\ cap' >= cap
           /\ lock \in Importers /\ actual' # actual =>
                 LET e == file[lock]
                 IN  /\ apply[lock]
                     /\ \A k \in DOMAIN e.rows : actual'[e.rows[k].job] = e.rows[k].charge
                     /\ \A a \in Attempts : actual'[a] # actual[a] => a \in Import!Named(e) /\ actual[a] = None
<1>1. cap' >= cap
  BY DEF Import!Next, Import!vars, Import!CoordinatorActs, Import!CoordinatorStep, Import!ReadCaps,
     Import!OpenLedger, Import!OpenRefused, Import!ImportRefused, Import!DryRun, Import!BeginApply,
     Import!UpdateRow, Import!Commit, Import!Killed, ImportInv, Import!TypeOK
<1>2. SUFFICES ASSUME lock \in Importers, actual' # actual
               PROVE  LET e == file[lock]
                      IN  /\ apply[lock]
                          /\ \A k \in DOMAIN e.rows : actual'[e.rows[k].job] = e.rows[k].charge
                          /\ \A a \in Attempts : actual'[a] # actual[a] =>
                                a \in Import!Named(e) /\ actual[a] = None
  BY <1>1
<1>3. PICK i \in Importers : Import!Commit(i)
  <2>1. ~Import!CoordinatorActs
    BY <1>2 DEF Import!CoordinatorActs, Import!CoordinatorStep, Import!ImportAssumption
  <2>. QED BY <1>2, <2>1 DEF Import!Next, Import!vars, Import!ReadCaps,
           Import!OpenLedger, Import!OpenRefused, Import!ImportRefused, Import!DryRun, Import!BeginApply,
           Import!UpdateRow, Import!Killed
<1>4. pc[i] = "commit" /\ lock = i /\ Applying(i)
      /\ actual' = [a \in Attempts |-> IF txn[a] # None THEN txn[a] ELSE actual[a]]
  BY <1>3 DEF Import!Commit, ImportInv
<1>5. \A k \in DOMAIN file[i].rows :
         /\ file[i].rows[k].job \in Attempts /\ file[i].rows[k].charge # None
         /\ txn[file[i].rows[k].job] = file[i].rows[k].charge
  BY <1>4, LoadedRecord DEF Applying, ImportInv
<1>6. \A a \in Attempts : txn[a] # None => a \in Import!Named(file[i]) /\ actual[a] = None
  BY <1>4 DEF Applying, Import!Preflight
<1>. QED BY <1>4, <1>5, <1>6 DEF Applying

\* Whatever races it and wherever it is killed, an importer settles the records of its
\* export, all of them in one commit and nothing else, and takes no extension back.
THEOREM BatchAtomic == Spec => ImportsOnlyItsBatch
<1>1. Import!ImportAssumption
  BY InferenceAssumption
<1>2. Import!Init => ImportInv
  BY <1>1 DEF Import!Init, ImportInv, Import!TypeOK, Import!Empty, Import!ImportAssumption
<1>. QED BY <1>1, <1>2, ImportStep, OnlyItsBatch, PartsRun, PTL
         DEF Import!Spec, ImportsOnlyItsBatch, Import!ImportsOnlyItsBatch

-----------------------------------------------------------------------------
(* HttpBackend: the parser after m lines, and the loop over the lines of a *)
(* chunk.                                                                  *)

\* The parser's fields.
ParserState == [text : Seq(Nat), usage : Nat, finished : BOOLEAN, done : BOOLEAN,
                raised : {"none", "known", "unknown"}]
Content == {"content", "last"}
Finishing == {"stop", "last"}
Defects == {"cut", "error", "mismatch", "choices", "garbage"}

\* The first m lines hold no defect, nothing after [DONE], no content after the finish.
Proper(m) ==
    /\ \A i \in 1..m : script[i] \notin Defects
    /\ \A d, i \in 1..m : script[d] = "done" /\ i > d => script[i] \in {"done", "comment"}
    /\ \A i, s \in 1..m : script[i] \in Content /\ script[s] \in Finishing => i <= s

\* What parse_line has collected from them.
Collected(st, m) ==
    /\ st.done <=> \E i \in 1..m : script[i] = "done"
    /\ st.finished <=> \E i \in 1..m : script[i] \in Finishing
    /\ st.usage # 0 => st.usage \in 1..m /\ script[st.usage] = "usage"
    /\ \A u \in 1..m : script[u] = "usage" => u <= st.usage
    /\ \A a \in DOMAIN st.text : st.text[a] \in 1..m /\ script[st.text[a]] \in Content
    /\ \A i \in 1..m : script[i] \in Content => \E a \in DOMAIN st.text : st.text[a] = i
    /\ \A a, b \in DOMAIN st.text : a < b => st.text[a] < st.text[b]

\* The parser after m lines.
Parsed(st, m) ==
    /\ st \in ParserState
    /\ st.raised = "none" => Proper(m) /\ Collected(st, m)
    /\ st.raised = "known" => \E i \in 1..m : script[i] \in {"error", "mismatch"}

\* Content line i is appended to what was collected.
LEMMA ContentAdded ==
    ASSUME NEW m \in Nat, NEW st \in ParserState, Collected(st, m), NEW t, t = Append(st.text, m + 1),
           script[m + 1] \in Content
    PROVE  /\ t \in Seq(Nat)
           /\ \A a \in DOMAIN t : t[a] \in 1..(m + 1) /\ script[t[a]] \in Content
           /\ \A i \in 1..(m + 1) : script[i] \in Content => \E a \in DOMAIN t : t[a] = i
           /\ \A a, b \in DOMAIN t : a < b => t[a] < t[b]
<1> DEFINE n == Len(st.text)
<1>1. st.text \in Seq(Nat) /\ n \in Nat /\ DOMAIN st.text = 1..n
  BY DEF ParserState
<1>2. t \in Seq(Nat) /\ DOMAIN t = 1..(n + 1) /\ t[n + 1] = m + 1 /\ \A a \in 1..n : t[a] = st.text[a]
  BY <1>1
<1> HIDE DEF n
<1>3. \A a \in 1..n : t[a] \in 1..m /\ script[t[a]] \in Content
  BY <1>1, <1>2 DEF Collected
<1>4. \A a \in 1..(n + 1) : a \in 1..n \/ a = n + 1
  BY <1>1
<1>5. ASSUME NEW a \in 1..(n + 1) PROVE t[a] \in 1..(m + 1) /\ script[t[a]] \in Content
  <2>1. CASE a \in 1..n
    <3>1. t[a] \in 1..m /\ script[t[a]] \in Content
      BY <1>3, <2>1
    <3>2. \A i \in 1..m : i \in 1..(m + 1)
      OBVIOUS
    <3>. QED BY <3>1, <3>2
  <2>2. CASE a = n + 1
    BY <1>2, <2>2
  <2>. QED BY <1>4, <2>1, <2>2
<1>6. ASSUME NEW i \in 1..(m + 1), script[i] \in Content PROVE \E a \in DOMAIN t : t[a] = i
  <2>1. CASE i = m + 1
    <3>1. n + 1 \in DOMAIN t
      BY <1>1, <1>2
    <3>. QED BY <1>2, <2>1, <3>1
  <2>2. CASE i \in 1..m
    <3>1. PICK a \in 1..n : st.text[a] = i
      BY <1>1, <1>6, <2>2 DEF Collected
    <3>2. a \in DOMAIN t /\ t[a] = i
      BY <1>1, <1>2, <3>1
    <3>. QED BY <3>2
  <2>. QED BY <2>1, <2>2
<1>7. ASSUME NEW a \in 1..(n + 1), NEW b \in 1..(n + 1), a < b PROVE t[a] < t[b]
  <2>1. a \in 1..n /\ (b \in 1..n \/ b = n + 1)
    BY <1>1, <1>7
  <2>2. CASE b \in 1..n
    BY <1>1, <1>2, <1>7, <2>1, <2>2 DEF Collected
  <2>3. CASE b = n + 1
    BY <1>2, <1>3, <2>1, <2>3
  <2>. QED BY <2>1, <2>2, <2>3
<1>. QED BY <1>2, <1>5, <1>6, <1>7

\* One more line is parsed.
LEMMA LineParsed ==
    ASSUME NEW m \in Nat, NEW st, Parsed(st, m), script[m + 1] \in Http!LineKind
    PROVE  Parsed(Http!ParseLine(st, m + 1, script[m + 1]), m + 1)
<1> DEFINE kind == script[m + 1]
           next == Http!ParseLine(st, m + 1, kind)
<1>0. st \in ParserState /\ \A i \in 1..m : i \in 1..(m + 1)
  BY DEF Parsed
<1>a. \A i \in 1..(m + 1) : i \in 1..m \/ i = m + 1
  OBVIOUS
<1>b. m + 1 \in 1..(m + 1) /\ m + 1 \in Nat
  OBVIOUS
<1>1. CASE st.raised # "none"
  <2>1. next = st
    BY <1>1 DEF Http!ParseLine
  <2>. QED BY <1>0, <1>1, <2>1 DEF Parsed
<1>2. CASE st.raised = "none" /\ kind = "comment"
  <2>1. next = st
    BY <1>2 DEF Http!ParseLine
  <2>2. Proper(m + 1)
    BY <1>2, <1>a DEF Parsed, Proper, Defects, Content, Finishing
  <2>3. Collected(st, m + 1)
    BY <1>0, <1>2, <1>a DEF Parsed, Collected, Content, Finishing
  <2>. QED BY <1>0, <1>2, <2>1, <2>2, <2>3 DEF Parsed
<1>3. CASE st.raised = "none" /\ kind = "done"
  <2>1. next = [st EXCEPT !.done = TRUE]
    BY <1>3 DEF Http!ParseLine
  <2>2. Proper(m + 1)
    BY <1>3, <1>a DEF Parsed, Proper, Defects, Content, Finishing
  <2>3. /\ next \in ParserState /\ next.raised = "none" /\ next.done /\ next.finished = st.finished
        /\ next.usage = st.usage /\ next.text = st.text
    BY <1>0, <1>3, <2>1 DEF ParserState
  <2> HIDE DEF next
  <2>4. Collected(next, m + 1)
    BY <1>0, <1>3, <1>a, <1>b, <2>3 DEF Parsed, Collected, Content, Finishing
  <2>. QED BY <2>2, <2>3, <2>4 DEF Parsed, next
<1>4. CASE st.raised = "none" /\ kind \notin {"comment", "done"} /\ st.done
  <2>1. next = [st EXCEPT !.raised = "unknown"]
    BY <1>4 DEF Http!ParseLine, Http!Raise
  <2>. QED BY <1>0, <2>1 DEF Parsed, ParserState
<1> DEFINE Open == st.raised = "none" /\ kind \notin {"comment", "done"} /\ ~st.done
<1>5. CASE Open /\ kind \in {"error", "mismatch"}
  <2>1. next = [st EXCEPT !.raised = "known"]
    BY <1>5 DEF Http!ParseLine, Http!Raise
  <2>. QED BY <1>0, <1>5, <1>b, <2>1 DEF Parsed, ParserState
<1>6. CASE Open /\ kind \in {"choices", "garbage", "cut"}
  <2>1. next = [st EXCEPT !.raised = "unknown"]
    BY <1>6 DEF Http!ParseLine, Http!Raise
  <2>. QED BY <1>0, <2>1 DEF Parsed, ParserState
<1>c. ASSUME Open PROVE \A d \in 1..m : script[d] # "done"
  BY <1>c DEF Parsed, Collected
<1>7. CASE Open /\ kind = "usage"
  <2>1. next = [st EXCEPT !.usage = m + 1]
    BY <1>7 DEF Http!ParseLine
  <2>2. Proper(m + 1)
    BY <1>7, <1>a, <1>c DEF Parsed, Proper, Defects, Content, Finishing
  <2>3. /\ next \in ParserState /\ next.raised = "none" /\ next.done = st.done /\ next.finished = st.finished
        /\ next.usage = m + 1 /\ next.text = st.text
    BY <1>0, <1>7, <2>1 DEF ParserState
  <2> HIDE DEF next
  <2>4. Collected(next, m + 1)
    BY <1>0, <1>7, <1>a, <1>b, <2>3 DEF Parsed, Collected, Content, Finishing
  <2>. QED BY <2>2, <2>3, <2>4 DEF Parsed, next
<1>8. CASE Open /\ kind = "stop"
  <2>1. next = [st EXCEPT !.finished = TRUE]
    BY <1>8 DEF Http!ParseLine
  <2>2. Proper(m + 1)
    BY <1>8, <1>a, <1>c DEF Parsed, Proper, Defects, Content, Finishing
  <2>3. /\ next \in ParserState /\ next.raised = "none" /\ next.done = st.done /\ next.finished
        /\ next.usage = st.usage /\ next.text = st.text
    BY <1>0, <1>8, <2>1 DEF ParserState
  <2> HIDE DEF next
  <2>4. Collected(next, m + 1)
    BY <1>0, <1>8, <1>a, <1>b, <2>3 DEF Parsed, Collected, Content, Finishing
  <2>. QED BY <2>2, <2>3, <2>4 DEF Parsed, next
<1>9. CASE Open /\ kind \in Content /\ st.finished
  <2>1. next \in ParserState /\ next.raised = "unknown"
    BY <1>0, <1>9 DEF Http!ParseLine, Http!AddContent, Http!Raise, ParserState, Content
  <2>. QED BY <2>1 DEF Parsed
<1>10. CASE Open /\ kind \in Content /\ ~st.finished
  <2> DEFINE t == Append(st.text, m + 1)
  <2>1. next = [st EXCEPT !.text = t, !.finished = (kind = "last")]
    BY <1>0, <1>10 DEF Http!ParseLine, Http!AddContent, ParserState, Content
  <2>2. Proper(m + 1)
    <3>1. \A s \in 1..m : script[s] \notin Finishing
      BY <1>10 DEF Parsed, Collected
    <3>. QED BY <1>10, <1>a, <1>c, <3>1 DEF Parsed, Proper, Defects, Content, Finishing
  <2>3. /\ t \in Seq(Nat)
        /\ \A a \in DOMAIN t : t[a] \in 1..(m + 1) /\ script[t[a]] \in Content
        /\ \A i \in 1..(m + 1) : script[i] \in Content => \E a \in DOMAIN t : t[a] = i
        /\ \A a, b \in DOMAIN t : a < b => t[a] < t[b]
    BY <1>0, <1>10, ContentAdded DEF Parsed
  <2> HIDE DEF t
  <2>4. /\ next \in ParserState /\ next.raised = "none" /\ next.done = st.done /\ next.finished = (kind = "last")
        /\ next.usage = st.usage /\ next.text = t
    BY <1>0, <1>10, <2>1, <2>3 DEF ParserState
  <2> HIDE DEF next
  <2>5. Collected(next, m + 1)
    <3>1. next.done <=> \E i \in 1..(m + 1) : script[i] = "done"
      BY <1>10, <1>a, <1>c, <2>4 DEF Content
    <3>2. next.finished <=> \E i \in 1..(m + 1) : script[i] \in Finishing
      BY <1>10, <1>a, <1>b, <2>4 DEF Parsed, Collected, Content, Finishing
    <3>3. /\ next.usage # 0 => next.usage \in 1..(m + 1) /\ script[next.usage] = "usage"
          /\ \A u \in 1..(m + 1) : script[u] = "usage" => u <= next.usage
      BY <1>10, <1>0, <1>a, <2>4 DEF Parsed, Collected, Content
    <3>. QED BY <2>3, <2>4, <3>1, <3>2, <3>3 DEF Collected
  <2>. QED BY <2>2, <2>4, <2>5 DEF Parsed, next
<1>11. st.done \in BOOLEAN /\ st.finished \in BOOLEAN
  BY <1>0 DEF ParserState
<1>. QED BY <1>1, <1>2, <1>3, <1>4, <1>5, <1>6, <1>7, <1>8, <1>9, <1>10, <1>11 DEF Http!LineKind, Content

\* The loop over lines a+1 .. b, as a function of the lines parsed so far.
Step(f, st, a, i) == IF i = a THEN st ELSE Http!ParseLine(f[i - 1], i, script[i])
Loop(st, a, b) == CHOOSE f : f = [i \in a..b |-> Step(f, st, a, i)]

\* The loop is well defined: it is built up line by line.
LEMMA LoopExists ==
    ASSUME NEW a \in Nat, NEW b \in Nat, NEW st
    PROVE  \E f : f = [i \in a..b |-> Step(f, st, a, i)]
<1> DEFINE Built(g, n) == \A i \in a..n : g[i] = Step(g, st, a, i)
           T == {n \in Nat : ~\E g : Built(g, n)}
<1>1. T = {}
  <2>1. SUFFICES ASSUME T # {} PROVE FALSE
    OBVIOUS
  <2>2. PICK n \in T : \A m \in T : n <= m
    <3> HIDE DEF T
    <3>1. T \in SUBSET Nat
      BY DEF T
    <3>. QED BY <2>1, <3>1, SmallestNat
  <2>3. CASE n <= a
    <3> DEFINE g == [i \in {a} |-> st]
    <3>1. ASSUME NEW i \in a..n PROVE i = a
      BY <2>3
    <3>2. Built(g, n)
      BY <3>1 DEF Step
    <3>. QED BY <3>2
  <2>4. CASE n > a
    <3>1. n - 1 \in Nat /\ n - 1 \notin T
      BY <2>2, <2>4
    <3>2. PICK g : Built(g, n - 1)
      BY <3>1
    <3> DEFINE G == [i \in a..n |-> Step(g, st, a, i)]
    <3>3. ASSUME NEW i \in a..n PROVE G[i] = Step(G, st, a, i)
      <4>1. CASE i = a
        BY <4>1 DEF Step
      <4>2. CASE i # a
        <5>1. i - 1 \in a..n /\ i - 1 \in a..(n - 1)
          BY <4>2
        <5>2. G[i - 1] = g[i - 1]
          BY <5>1, <3>2
        <5>. QED BY <4>2, <5>2 DEF Step
      <4>. QED BY <4>1, <4>2
    <3>4. Built(G, n)
      BY <3>3
    <3>. QED BY <3>4
  <2>. QED BY <2>3, <2>4
<1>2. PICK g : Built(g, b)
  BY <1>1
<1> DEFINE f == [i \in a..b |-> g[i]]
<1>3. ASSUME NEW i \in a..b PROVE f[i] = Step(f, st, a, i)
  <2>1. f[i] = Step(g, st, a, i)
    BY <1>2
  <2>2. i # a => i - 1 \in a..b
    OBVIOUS
  <2>. QED BY <2>1, <2>2 DEF Step
<1>4. f = [i \in a..b |-> Step(f, st, a, i)]
  BY <1>3
<1>. QED BY <1>4

\* The lines that end in a chunk are parsed one by one.
LEMMA LinesParsed ==
    ASSUME NEW from \in Nat, NEW to \in Nat, from <= to, NEW st, Parsed(st, from \div 4),
           \A i \in 1..(to \div 4) : script[i] \in Http!LineKind
    PROVE  Parsed(Http!ParseLines(st, from, to), to \div 4)
<1> DEFINE a == from \div 4
           b == to \div 4
           f == Loop(st, a, b)
<1>1. a \in Nat /\ b \in Nat /\ a <= b
  OBVIOUS
<1>2. Http!ParseLines(st, from, to) = f[b]
  BY DEF Http!ParseLines, Loop, Step
<1>3. Parsed(st, a) /\ \A i \in 1..b : script[i] \in Http!LineKind
  OBVIOUS
<1> HIDE DEF a, b
<1>4. f = [i \in a..b |-> Step(f, st, a, i)]
  BY <1>1, LoopExists DEF Loop
<1> HIDE DEF f
<1>5. \A i \in a..b : f[i] = Step(f, st, a, i)
  BY <1>4
<1> DEFINE T == {n \in Nat : n \in a..b /\ ~Parsed(f[n], n)}
<1>6. T = {}
  <2>1. SUFFICES ASSUME T # {} PROVE FALSE
    OBVIOUS
  <2>2. PICK n \in T : \A m \in T : n <= m
    <3> HIDE DEF T
    <3>1. T \in SUBSET Nat
      BY DEF T
    <3>. QED BY <2>1, <3>1, SmallestNat
  <2>3. n # a
    <3>1. f[a] = st
      BY <1>1, <1>5 DEF Step
    <3>. QED BY <1>3, <2>2, <3>1
  <2>4. n - 1 \in Nat /\ n - 1 \in a..b /\ n - 1 \notin T /\ n \in 1..b
    BY <1>1, <2>2, <2>3
  <2>5. Parsed(f[n - 1], n - 1)
    BY <2>4
  <2>6. f[n] = Http!ParseLine(f[n - 1], n, script[n])
    BY <1>5, <2>2, <2>3 DEF Step
  <2> DEFINE m == n - 1
  <2>7. m \in Nat /\ m + 1 = n /\ script[m + 1] \in Http!LineKind
    BY <1>3, <2>4
  <2>8. Parsed(f[m], m)
    BY <2>5
  <2>9. f[m + 1] = Http!ParseLine(f[m], m + 1, script[m + 1])
    BY <2>6, <2>7
  <2> HIDE DEF m
  <2>10. Parsed(f[m + 1], m + 1)
    BY <2>7, <2>8, <2>9, LineParsed
  <2>. QED BY <2>2, <2>7, <2>10
<1>7. b \in a..b /\ b \in Nat
  BY <1>1
<1>8. Parsed(f[b], b)
  BY <1>6, <1>7
<1>. QED BY <1>2, <1>8 DEF b

-----------------------------------------------------------------------------
(* HttpBackend: what a call claims.                                        *)

\* Nothing is sent before the checks; while the response is read, what was received is within
\* the bound and has been parsed without a failure.
HttpInv ==
    /\ Http!TypeOK /\ script \in Seq(Http!LineKind \cup Http!BodyKind)
    /\ Http!Streaming => script \in Seq(Http!LineKind)
    /\ pos <= 4 * Len(script)
    /\ phase = "prepare" => remote = "idle"
    /\ phase # "end" => /\ outcome = "none" /\ pos <= MaxResponse /\ parser.raised = "none"
                        /\ Http!Streaming => Parsed(parser, pos \div 4)
    /\ Http!ClaimsTrue

\* The lines whose text was received whole.
LEMMA ReceivedLines ==
    ASSUME HttpInv
    PROVE  LET q == (pos + 1) \div 4
           IN  /\ q \in Nat /\ q <= Len(script) /\ DOMAIN Http!Received = 1..q
               /\ \A i \in 1..q : Http!Received[i] = script[i]
<1>1. /\ script \in Seq(Http!LineKind \cup Http!BodyKind)
      /\ pos \in Nat /\ pos <= 4 * Len(script) /\ Len(script) \in Nat
  BY DEF HttpInv, Http!TypeOK
<1> DEFINE q == (pos + 1) \div 4
<1>2. q \in Nat /\ q <= Len(script)
  BY <1>1
<1>3. Http!Received = SubSeq(script, 1, q)
  BY DEF Http!Received
<1> HIDE DEF q
<1>4. Http!Received = [i \in 1..q |-> script[i]]
  BY <1>1, <1>2, <1>3
<1>. QED BY <1>2, <1>4 DEF q

\* A chunk keeps the invariant.
LEMMA ChunkReceived ==
    ASSUME HttpInv, NEW n \in 1..(4 * Len(script)), Http!Chunk(n)
    PROVE  HttpInv'
<1>0. /\ phase = "reading" /\ outcome = "none" /\ pos \in Nat /\ n \in Nat /\ MaxResponse \in Nat
      /\ script \in Seq(Http!LineKind \cup Http!BodyKind) /\ Len(script) \in Nat
      /\ pos' = pos + n /\ pos + n <= 4 * Len(script) /\ UNCHANGED <<call, script>>
  BY InferenceAssumption DEF HttpInv, Http!TypeOK, Http!Chunk, Http!BackendAssumption
<1>1. remote' = IF Http!ErrorSaid(pos + n) THEN "over" ELSE remote
  BY DEF Http!Chunk
<1>2. CASE pos + n > MaxResponse
  <2>1. parser' = parser /\ outcome' = "unknown" /\ phase' = "end"
    BY <1>2 DEF Http!Chunk, Http!Finish
  <2>. QED BY <1>0, <1>1, <2>1 DEF HttpInv, Http!TypeOK, Http!Streaming, Http!ClaimsTrue
<1>3. CASE pos + n <= MaxResponse /\ ~Http!Streaming
  <2>1. /\ parser' = parser
        /\ (IF parser'.raised # "none" THEN Http!Finish(parser'.raised) ELSE UNCHANGED <<phase, outcome>>)
    BY <1>0, <1>3 DEF Http!Chunk
  <2>. QED BY <1>0, <1>1, <1>3, <2>1 DEF HttpInv, Http!TypeOK, Http!Streaming, Http!ClaimsTrue, Http!Finish
<1>4. CASE pos + n <= MaxResponse /\ Http!Streaming
  <2> DEFINE m == (pos + n) \div 4
  <2>1. /\ parser' = Http!ParseLines(parser, pos, pos + n)
        /\ IF parser'.raised # "none" THEN Http!Finish(parser'.raised) ELSE UNCHANGED <<phase, outcome>>
    BY <1>0, <1>4 DEF Http!Chunk
  <2>2. script \in Seq(Http!LineKind) /\ Parsed(parser, pos \div 4)
    BY <1>0, <1>4 DEF HttpInv
  <2>3. m \in Nat /\ m <= Len(script)
    BY <1>0
  <2>4. \A i \in 1..m : script[i] \in Http!LineKind
    BY <2>2, <2>3
  <2>5. Parsed(parser', m)
    BY <1>0, <2>1, <2>2, <2>4, LinesParsed
  <2>6. Parsed(parser, pos \div 4)' <=> Parsed(parser', m)
    BY <1>0 DEF Parsed, Proper, Collected
  <2> HIDE DEF m
  <2>7. parser' \in ParserState
    BY <2>5 DEF Parsed
  <2>8. (Http!TypeOK /\ pos <= 4 * Len(script) /\ (Http!Streaming => script \in Seq(Http!LineKind)))'
    BY <1>0, <1>1, <2>1, <2>2, <2>7 DEF HttpInv, Http!TypeOK, ParserState, Http!Finish
  <2>9. CASE parser'.raised = "none"
    <3>1. UNCHANGED <<phase, outcome>>
      BY <2>1, <2>9
    <3>2. Http!ClaimsTrue'
      BY <1>0, <3>1 DEF Http!ClaimsTrue
    <3>. QED BY <1>0, <1>4, <2>5, <2>6, <2>8, <2>9, <3>1, <3>2 DEF HttpInv
  <2>10. CASE parser'.raised # "none"
    <3>1. outcome' = parser'.raised /\ phase' = "end" /\ parser'.raised \in {"known", "unknown"}
      BY <2>1, <2>7, <2>10 DEF Http!Finish, ParserState
    <3>2. ASSUME outcome' = "known" PROVE remote' = "over" \/ (Http!Streaming /\ Http!At({"mismatch"}) # {})'
      <4>1. PICK i \in 1..m : script[i] \in {"error", "mismatch"}
        BY <2>5, <3>1, <3>2 DEF Parsed
      <4>2. CASE script[i] = "error"
        BY <1>1, <4>1, <4>2 DEF Http!ErrorSaid, m
      <4>3. CASE script[i] = "mismatch"
        <5> DEFINE q == (pos' + 1) \div 4
        <5>1. q \in Nat /\ q <= Len(script) /\ i \in 1..q
          BY <1>0, <2>3, <4>1 DEF m
        <5>2. Http!Received' = SubSeq(script, 1, q)
          BY <1>0 DEF Http!Received
        <5> HIDE DEF q
        <5>3. Http!Received' = [j \in 1..q |-> script[j]]
          BY <1>0, <5>1, <5>2
        <5>4. i \in DOMAIN Http!Received' /\ Http!Received'[i] \in {"mismatch"}
          BY <4>3, <5>1, <5>3
        <5>5. i \in Http!At({"mismatch"})'
          BY <5>4 DEF Http!At
        <5>6. Http!Streaming'
          BY <1>0, <1>4 DEF Http!Streaming
        <5>. QED BY <5>5, <5>6
      <4>. QED BY <4>1, <4>2, <4>3
    <3>3. Http!ClaimsTrue'
      BY <3>1, <3>2 DEF Http!ClaimsTrue
    <3>. QED BY <1>0, <2>8, <3>1, <3>3 DEF HttpInv
  <2>. QED BY <2>9, <2>10
<1>5. pos + n > MaxResponse \/ pos + n <= MaxResponse
  BY <1>0
<1>. QED BY <1>2, <1>3, <1>4, <1>5

\* What is left in the buffer is parsed as the last line: all lines whose text was received
\* whole are then parsed, or a failure was raised.
LEMMA LastLineParsed ==
    ASSUME HttpInv, phase = "reading", Http!Streaming
    PROVE  LET q == (pos + 1) \div 4
               st == Http!LastLine(parser)
           IN  /\ st \in ParserState
               /\ st.raised = "none" => Parsed(st, q)
               /\ pos % 4 \in {0, 1} => st = parser
               /\ pos % 4 = 3 => q # 0 /\ Parsed(parser, q - 1) /\ st = Http!ParseLine(parser, q, script[q])
<1> DEFINE q == (pos + 1) \div 4
           m == pos \div 4
           st == Http!LastLine(parser)
<1>1. /\ pos \in Nat /\ script \in Seq(Http!LineKind) /\ Len(script) \in Nat /\ pos <= 4 * Len(script)
      /\ parser \in ParserState /\ parser.raised = "none" /\ Parsed(parser, m)
  BY DEF HttpInv, Http!TypeOK, ParserState
<1>2. m \in Nat /\ q \in Nat /\ q <= Len(script)
  BY <1>1
<1>3. pos % 4 \in {0, 1, 2} => q = m
  BY <1>1
<1>4. pos % 4 = 3 => q = m + 1
  BY <1>1
<1>5. pos % 4 \in {0, 1, 2, 3}
  BY <1>1
<1>6. CASE pos % 4 \in {0, 1}
  <2>1. st = parser
    BY <1>6 DEF Http!LastLine
  <2>. QED BY <1>1, <1>3, <1>6, <2>1
<1>7. CASE pos % 4 = 2
  <2>1. st = Http!ParseLine(parser, m + 1, "comment") \/ st = Http!ParseLine(parser, m + 1, "garbage")
    BY <1>7 DEF Http!LastLine
  <2>2. Http!ParseLine(parser, m + 1, "comment") = parser
    BY DEF Http!ParseLine
  <2>3. Http!ParseLine(parser, m + 1, "garbage") = [parser EXCEPT !.raised = "unknown"]
    BY <1>1 DEF Http!ParseLine, Http!Raise, ParserState
  <2>4. st = parser \/ (st \in ParserState /\ st.raised = "unknown")
    BY <1>1, <2>1, <2>2, <2>3 DEF ParserState
  <2> HIDE DEF st
  <2>. QED BY <1>1, <1>3, <1>7, <2>4 DEF st
<1>8. CASE pos % 4 = 3
  <2>1. st = Http!ParseLine(parser, m + 1, script[m + 1]) /\ q = m + 1
    BY <1>4, <1>8 DEF Http!LastLine
  <2> HIDE DEF m, q, st
  <2>2. script[m + 1] \in Http!LineKind
    BY <1>1, <1>2, <2>1
  <2>3. Parsed(st, q)
    BY <1>1, <1>2, <2>1, <2>2, LineParsed
  <2>4. q # 0 /\ q - 1 = m
    BY <1>2, <2>1
  <2>. QED BY <1>1, <1>8, <2>1, <2>3, <2>4 DEF Parsed, q, st
<1>. QED BY <1>5, <1>6, <1>7, <1>8

\* The end of the response keeps the invariant.
LEMMA ResponseEnds == ASSUME HttpInv, Http!EndOfResponse PROVE HttpInv'
<1>0. /\ phase = "reading" /\ remote' = "over" /\ phase' = "end" /\ UNCHANGED <<call, script, pos>>
      /\ parser' = (IF Http!Streaming THEN Http!LastLine(parser) ELSE parser)
      /\ outcome' = IF Http!Streaming THEN Http!StreamResult(parser') ELSE Http!BodyResult(script[1])
  BY DEF Http!EndOfResponse, Http!Finish
<1>1. parser' \in ParserState
  BY <1>0, LastLineParsed DEF HttpInv, Http!TypeOK, ParserState
<1>2. outcome' \in {"prediction", "known", "unknown"}
  <2>1. Http!StreamResult(parser') \in {"prediction", "known", "unknown"}
    BY <1>1 DEF Http!StreamResult, ParserState
  <2>2. Http!BodyResult(script[1]) \in {"prediction", "known", "unknown"}
    BY DEF Http!BodyResult
  <2>. QED BY <1>0, <2>1, <2>2
<1>3. Http!TypeOK'
  BY <1>0, <1>1, <1>2 DEF HttpInv, Http!TypeOK, ParserState
<1>. QED BY <1>0, <1>2, <1>3 DEF HttpInv, Http!ClaimsTrue, Http!Streaming

\* Every step keeps the invariant.
LEMMA HttpStep == ASSUME HttpInv, [Http!Next]_Http!vars PROVE HttpInv'
<1> USE DEF Http!TypeOK, Http!Streaming
<1>1. CASE Http!Refuse
  BY <1>1 DEF HttpInv, Http!Refuse, Http!Finish, Http!ClaimsTrue
<1>2. CASE Http!Post \/ Http!StatusOk
  <2>1. /\ phase \in {"prepare", "posted"} /\ phase' \in {"posted", "reading"} /\ remote' \in {remote, "computing"}
        /\ UNCHANGED <<call, script, pos, parser, outcome>>
    BY <1>2 DEF Http!Post, Http!StatusOk
  <2>2. Parsed(parser, pos \div 4)' <=> Parsed(parser, pos \div 4)
    BY <2>1 DEF Parsed, Proper, Collected
  <2>. QED BY <2>1, <2>2 DEF HttpInv, Http!ClaimsTrue
<1>3. CASE Http!StatusBad \/ Http!Broken
  <2>1. phase' = "end" /\ outcome' = "unknown" /\ UNCHANGED <<call, script, pos, parser, remote>>
    BY <1>3 DEF Http!StatusBad, Http!Broken, Http!Finish
  <2>. QED BY <2>1 DEF HttpInv, Http!ClaimsTrue
<1>4. ASSUME NEW n \in 1..(4 * Len(script)), Http!Chunk(n) PROVE HttpInv'
  BY <1>4, ChunkReceived
<1>5. CASE Http!EndOfResponse
  BY <1>5, ResponseEnds
<1>6. CASE Http!RemoteFinish
  <2>1. /\ remote = "computing" /\ remote' = "over" /\ phase # "prepare"
        /\ UNCHANGED <<call, script, phase, pos, parser, outcome>>
    BY <1>6 DEF Http!RemoteFinish
  <2>2. Parsed(parser, pos \div 4)' <=> Parsed(parser, pos \div 4)
    BY <2>1 DEF Parsed, Proper, Collected
  <2>. QED BY <2>1, <2>2 DEF HttpInv, Http!ClaimsTrue
<1>7. CASE UNCHANGED Http!vars
  <2>1. UNCHANGED <<call, script, phase, pos, parser, outcome, remote>>
    BY <1>7 DEF Http!vars
  <2>2. Parsed(parser, pos \div 4)' <=> Parsed(parser, pos \div 4)
    BY <2>1 DEF Parsed, Proper, Collected
  <2>. QED BY <2>1, <2>2 DEF HttpInv, Http!ClaimsTrue, Http!At, Http!Received
<1>. QED BY <1>1, <1>2, <1>3, <1>4, <1>5, <1>6, <1>7 DEF Http!Next

\* A call starts with nothing sent, received or parsed.
LEMMA HttpStart == Http!Init => HttpInv
<1> SUFFICES ASSUME Http!Init PROVE HttpInv
  OBVIOUS
<1>1. /\ script \in Scripts /\ call \in Calls /\ pos = 0
      /\ phase = "prepare" /\ outcome = "none" /\ remote = "idle"
      /\ parser = [text |-> <<>>, usage |-> 0, finished |-> FALSE, done |-> FALSE, raised |-> "none"]
      /\ Http!Streaming => script \in Seq(Http!LineKind)
  BY DEF Http!Init, Http!Answers, Http!Fresh
<1>2. script \in Seq(Http!LineKind \cup Http!BodyKind) /\ MaxResponse \in Nat
  BY <1>1, InferenceAssumption DEF Http!BackendAssumption
<1>3. /\ parser \in ParserState /\ parser.raised = "none" /\ parser.text = <<>> /\ parser.usage = 0
      /\ parser.done = FALSE /\ parser.finished = FALSE
  BY <1>1 DEF ParserState
<1>4. pos \div 4 = 0 /\ 1..0 = {} /\ DOMAIN parser.text = {}
  BY <1>1, <1>3
<1>5. Parsed(parser, pos \div 4)
  BY <1>3, <1>4 DEF Parsed, Proper, Collected
<1>6. Len(script) \in Nat /\ Http!TypeOK
  BY <1>1, <1>2, <1>3 DEF Http!TypeOK, ParserState
<1>. QED BY <1>1, <1>2, <1>3, <1>5, <1>6 DEF HttpInv, Http!ClaimsTrue

\* HttpBackend, infer: whatever the answer and wherever it breaks off, "not sent" is claimed
\* only before anything was sent, and "known termination" only when remote compute is over or
\* a chunk of the stream named another model.
THEOREM ClaimsHold == Spec => []ClaimsTrue
<1>1. HttpInv => ClaimsTrue
  BY DEF HttpInv, ClaimsTrue
<1>. QED BY <1>1, HttpStart, HttpStep, PartsRun, PTL DEF Http!Spec

-----------------------------------------------------------------------------
(* HttpBackend: which streams become predictions.                          *)

\* A well-formed answer, in terms of the lines that the parser has seen.
LEMMA WellFormedLines ==
    ASSUME HttpInv, NEW q, q = (pos + 1) \div 4
    PROVE  /\ \A kind : Http!At(kind) = {i \in 1..q : script[i] \in kind}
           /\ Http!WellFormed <=> /\ Proper(q)
                                  /\ \E i \in 1..q : script[i] = "done"
                                  /\ \E i \in 1..q : script[i] \in Finishing
                                  /\ \E i \in 1..q : script[i] \in Content
<1>1. DOMAIN Http!Received = 1..q /\ \A i \in 1..q : Http!Received[i] = script[i]
  BY ReceivedLines
<1>2. ASSUME NEW kind PROVE Http!At(kind) = {i \in 1..q : script[i] \in kind}
  BY <1>1 DEF Http!At
<1>3. Http!WellFormed <=>
         /\ \E i \in 1..q : script[i] = "done"
         /\ \E i \in 1..q : script[i] \in Finishing
         /\ \E i \in 1..q : script[i] \in Content
         /\ \A i \in 1..q : script[i] \notin Defects
         /\ \A i, s \in 1..q : script[i] \in Content /\ script[s] \in Finishing => i <= s
         /\ \A d, i \in 1..q : script[d] = "done" /\ i > d => script[i] \in {"done", "comment"}
  <2>1. /\ Http!At({"done"}) # {} <=> \E i \in 1..q : script[i] = "done"
        /\ Http!At({"stop", "last"}) # {} <=> \E i \in 1..q : script[i] \in Finishing
        /\ Http!At({"content", "last"}) # {} <=> \E i \in 1..q : script[i] \in Content
        /\ Http!At({"cut", "error", "mismatch", "choices", "garbage"}) = {} <=> \A i \in 1..q : script[i] \notin Defects
    BY <1>2 DEF Finishing, Content, Defects
  <2>2. (\A i \in Http!At({"content", "last"}), s \in Http!At({"stop", "last"}) : i <= s)
          <=> \A i, s \in 1..q : script[i] \in Content /\ script[s] \in Finishing => i <= s
    BY <1>2 DEF Finishing, Content
  <2>3. (\A d \in Http!At({"done"}), i \in DOMAIN Http!Received : i > d => Http!Received[i] \in {"done", "comment"})
          <=> \A d, i \in 1..q : script[d] = "done" /\ i > d => script[i] \in {"done", "comment"}
    BY <1>1, <1>2
  <2>. QED BY <2>1, <2>2, <2>3 DEF Http!WellFormed
<1>. QED BY <1>2, <1>3 DEF Proper

\* A line of a well-formed answer raises nothing.
LEMMA ProperLine ==
    ASSUME NEW q \in Nat, q # 0, Proper(q), NEW st, Parsed(st, q - 1), st.raised = "none",
           script[q] \in Http!LineKind
    PROVE  Http!ParseLine(st, q, script[q]).raised = "none"
<1>1. q \in 1..q /\ \A i \in 1..(q - 1) : i \in 1..q /\ i < q /\ ~(q <= i)
  OBVIOUS
<1>2. st \in ParserState /\ Collected(st, q - 1)
  BY DEF Parsed
<1>3. script[q] \notin Defects
  BY <1>1 DEF Proper
<1>4. st.done => script[q] \in {"done", "comment"}
  BY <1>1, <1>2 DEF Proper, Collected
<1>5. st.finished => script[q] \notin Content
  <2>1. SUFFICES ASSUME st.finished, script[q] \in Content PROVE FALSE
    OBVIOUS
  <2>2. PICK s \in 1..(q - 1) : script[s] \in Finishing
    BY <1>2, <2>1 DEF Collected
  <2>. QED BY <1>1, <2>1, <2>2 DEF Proper
<1>6. script[q] \in {"comment", "done", "usage", "content", "stop", "last"}
  BY <1>3 DEF Http!LineKind, Defects
<1>7. st.done \in BOOLEAN /\ st.finished \in BOOLEAN
  BY <1>2 DEF ParserState
<1>. QED BY <1>2, <1>4, <1>5, <1>6, <1>7 DEF Http!ParseLine, Http!AddContent, ParserState, Content

\* A prediction is made at the end of a response only.
LEMMA PredictedAtEnd ==
    ASSUME HttpInv, [Http!Next]_Http!vars, Http!Streaming, outcome' = "prediction", outcome # "prediction"
    PROVE  Http!EndOfResponse
<1>1. ~Http!Refuse /\ ~Http!Post /\ ~Http!StatusOk /\ ~Http!StatusBad /\ ~Http!Broken /\ ~Http!RemoteFinish
  BY DEF Http!Refuse, Http!Post, Http!StatusOk, Http!StatusBad, Http!Broken, Http!RemoteFinish, Http!Finish
<1>2. ASSUME NEW n \in 1..(4 * Len(script)), Http!Chunk(n) PROVE FALSE
  <2>1. Http!TypeOK'
    BY <1>2, ChunkReceived DEF HttpInv
  <2>2. parser'.raised # "prediction"
    BY <2>1 DEF Http!TypeOK
  <2>. QED BY <1>2, <2>2 DEF Http!Chunk, Http!Finish
<1>. QED BY <1>1, <1>2 DEF Http!Next, Http!vars

\* What a step that ends the response makes of it.
LEMMA EndParsedWhole ==
    ASSUME HttpInv, Http!Streaming, Http!EndOfResponse
    PROVE  /\ outcome' = "prediction" =>
                 /\ pos <= MaxResponse /\ Http!WellFormed
                 /\ Http!Range(parser'.text) = Http!At({"content", "last"})
                 /\ \A i, j \in DOMAIN parser'.text : i < j => parser'.text[i] < parser'.text[j]
                 /\ parser'.usage \in Http!At({"usage"}) \cup {0}
                 /\ \A u \in Http!At({"usage"}) : u <= parser'.usage
           /\ pos % 4 \in {0, 1, 3} /\ Http!WellFormed => outcome' = "prediction"
<1> DEFINE q == (pos + 1) \div 4
           st == Http!LastLine(parser)
<1>0. /\ phase = "reading" /\ parser' = st /\ outcome' = Http!StreamResult(st) /\ pos <= MaxResponse
      /\ parser.raised = "none" /\ pos \in Nat /\ script \in Seq(Http!LineKind)
  BY DEF Http!EndOfResponse, Http!Finish, HttpInv, Http!TypeOK
<1>1. /\ st \in ParserState
      /\ st.raised = "none" => Parsed(st, q)
      /\ pos % 4 \in {0, 1} => st = parser
      /\ pos % 4 = 3 => q # 0 /\ Parsed(parser, q - 1) /\ st = Http!ParseLine(parser, q, script[q])
  BY <1>0, LastLineParsed
<1>2. q \in Nat /\ q <= Len(script)
  BY ReceivedLines
<1>3. /\ \A kind : Http!At(kind) = {i \in 1..q : script[i] \in kind}
      /\ Http!WellFormed <=> /\ Proper(q)
                             /\ \E i \in 1..q : script[i] = "done"
                             /\ \E i \in 1..q : script[i] \in Finishing
                             /\ \E i \in 1..q : script[i] \in Content
  BY WellFormedLines
<1> HIDE DEF q, st
<1>4. ASSUME st.raised = "none"
      PROVE  /\ outcome' = "prediction" <=> Http!WellFormed
             /\ Http!Range(st.text) = Http!At({"content", "last"})
             /\ \A i, j \in DOMAIN st.text : i < j => st.text[i] < st.text[j]
             /\ st.usage \in Http!At({"usage"}) \cup {0} /\ \A u \in Http!At({"usage"}) : u <= st.usage
  <2>1. Proper(q) /\ Collected(st, q) /\ st.text \in Seq(Nat)
    BY <1>1, <1>4 DEF Parsed, ParserState
  <2>2. Http!At({"content", "last"}) = {i \in 1..q : script[i] \in Content}
    BY <1>3 DEF Content
  <2>3. Http!Range(st.text) = {i \in 1..q : script[i] \in Content}
    BY <2>1 DEF Collected, Http!Range
  <2>4. st.text # <<>> <=> \E i \in 1..q : script[i] \in Content
    <3>1. st.text # <<>> <=> DOMAIN st.text # {}
      <4>1. st.text = <<>> <=> Len(st.text) = 0
        BY <2>1
      <4>2. DOMAIN st.text = 1..Len(st.text) /\ Len(st.text) \in Nat
        BY <2>1
      <4>3. Len(st.text) = 0 => DOMAIN st.text = {}
        BY <4>2
      <4>4. Len(st.text) # 0 => 1 \in DOMAIN st.text
        BY <4>2
      <4>. QED BY <4>1, <4>3, <4>4
    <3>. QED BY <2>1, <3>1 DEF Collected
  <2>5. outcome' = "prediction" <=> st.done /\ st.finished /\ st.text # <<>>
    BY <1>0, <1>4 DEF Http!StreamResult
  <2>6. outcome' = "prediction" <=> Http!WellFormed
    BY <1>3, <2>1, <2>4, <2>5 DEF Collected
  <2>7. st.usage \in Http!At({"usage"}) \cup {0} /\ \A u \in Http!At({"usage"}) : u <= st.usage
    BY <1>3, <2>1 DEF Collected
  <2>. QED BY <2>1, <2>2, <2>3, <2>6, <2>7 DEF Collected
<1>5. outcome' = "prediction" => st.raised = "none"
  BY <1>0, <1>1 DEF Http!StreamResult, ParserState
<1>6. ASSUME pos % 4 \in {0, 1, 3}, Http!WellFormed PROVE st.raised = "none"
  <2>1. CASE pos % 4 \in {0, 1}
    BY <1>0, <1>1, <2>1
  <2>2. CASE pos % 4 = 3
    <3>1. q # 0 /\ Parsed(parser, q - 1) /\ st = Http!ParseLine(parser, q, script[q]) /\ Proper(q)
      BY <1>1, <1>3, <1>6, <2>2
    <3>2. script[q] \in Http!LineKind
      BY <1>0, <1>2, <3>1
    <3>. QED BY <1>0, <1>2, <3>1, <3>2, ProperLine
  <2>. QED BY <1>6, <2>1, <2>2
<1>. QED BY <1>0, <1>4, <1>5, <1>6

\* HttpBackend, parse_line and the read loop: for every script of lines and every cut into
\* chunks, a stream ends as a prediction only if it was received whole within the bound and is
\* well formed, with each content line's text once and in order; and such a stream does.
THEOREM StreamsParsed == Spec => StreamParsedWhole
<1> DEFINE Whole ==
       Http!Streaming =>
         /\ outcome' = "prediction" /\ outcome # "prediction" =>
               /\ pos <= MaxResponse /\ Http!WellFormed
               /\ Http!Range(parser'.text) = Http!At({"content", "last"})
               /\ \A i, j \in DOMAIN parser'.text : i < j => parser'.text[i] < parser'.text[j]
               /\ parser'.usage \in Http!At({"usage"}) \cup {0}
               /\ \A u \in Http!At({"usage"}) : u <= parser'.usage
         /\ Http!EndOfResponse /\ pos % 4 \in {0, 1, 3} /\ Http!WellFormed => outcome' = "prediction"
<1>1. HttpInv /\ [Http!Next]_Http!vars => Whole
  BY EndParsedWhole, PredictedAtEnd
<1>2. HttpInv /\ [Http!Next]_Http!vars => [Whole]_Http!vars
  BY <1>1
<1>3. Http!Spec => [][Whole]_Http!vars
  <2> HIDE DEF Whole
  <2>. QED BY <1>2, HttpStart, HttpStep, PTL DEF Http!Spec
<1>. QED BY <1>3, PartsRun, PTL DEF StreamParsedWhole, Http!StreamParsedWhole

-----------------------------------------------------------------------------
(* HistoricalCache: sums of sizes over a sequence of entries.              *)

\* The bytes of the first k entries of s.
Sizes(s) == [i \in DOMAIN s |-> s[i].size]
Upto(s, k) == SumOf(Sizes(s), 1..Len(s))[1..k]

\* The bytes of a prefix, entry by entry.
LEMMA UptoUnfolds ==
    ASSUME NEW s \in Seq(Cache!Entry)
    PROVE  /\ Len(s) \in Nat /\ Upto(s, 0) = 0
           /\ \A k \in 0..Len(s) : Upto(s, k) \in Int /\ Upto(s, k) <= Upto(s, Len(s))
           /\ \A k \in 1..Len(s) : s[k].size \in Nat /\ Upto(s, k) = Upto(s, k - 1) + s[k].size
<1> DEFINE n == Len(s)
           h == Sizes(s)
           B == SumOf(h, 1..n)
<1>1. n \in Nat /\ h \in [1..n -> Nat] /\ \A k \in 1..n : h[k] = s[k].size
  <2>1. n \in Nat /\ DOMAIN s = 1..n /\ \A k \in 1..n : s[k] \in Cache!Entry
    OBVIOUS
  <2>2. \A k \in 1..n : s[k].size \in Nat
    BY <2>1 DEF Cache!Entry
  <2>. QED BY <2>1, <2>2 DEF Sizes
<1>2. \A k : Upto(s, k) = B[1..k]
  BY DEF Upto
<1> HIDE DEF n, h, B
<1>3. /\ B[1..0] = 0
      /\ \A k \in 0..n : B[1..k] \in Int /\ B[1..k] <= B[1..n]
      /\ \A k \in 1..n : h[k] \in Nat /\ B[1..k] = B[1..(k - 1)] + h[k]
  <2>1. n \in Nat /\ h \in [1..n -> Nat] /\ B = SumOf(h, 1..n)
    BY <1>1 DEF B
  <2>. QED BY ONLY <2>1, SumPrefix
<1>. QED BY <1>1, <1>2, <1>3 DEF n

\* The byte counter's meaning: the community fold computes the last of these sums.
LEMMA TotalIsUpto == ASSUME NEW s \in Seq(Cache!Entry) PROVE Cache!Total(s) = Upto(s, Len(s))
<1> DEFINE n == Len(s)
           D == 1..n
           h == Sizes(s)
<1>1. n \in Nat /\ DOMAIN s = D /\ IsFiniteSet(D) /\ \A i \in D : h[i] = s[i].size
  BY FS_Interval DEF Sizes
<1>2. Cache!Total(s) = SumOf(h, D)[D]
  <2> HIDE DEF h, n, D
  <2>1. \A t \in SUBSET D : t # {} => Chosen(t) \in D
    BY <1>1, ChosenSmaller
  <2> DEFINE Fold(f) == [t \in SUBSET D |-> IF t = {} THEN 0 ELSE s[Chosen(t)].size + f[t \ {Chosen(t)}]]
  <2>2. ASSUME NEW f PROVE Fold(f) = [t \in SUBSET D |-> Unfolded(h, f, t)]
    BY <1>1, <2>1 DEF Unfolded
  <2>3. Cache!Total(s) = (CHOOSE f : f = Fold(f))[D]
    BY <1>1 DEF Cache!Total, Cache!FoldSeq, Cache!FoldFunction, Cache!FoldFunctionOnSet, Cache!MapThenFoldSet, Chosen
  <2> HIDE DEF Fold
  <2>4. (CHOOSE f : f = Fold(f)) = SumOf(h, D)
    BY <2>2 DEF SumOf
  <2>. QED BY <2>3, <2>4
<1>. QED BY <1>2 DEF Upto

\* The n entries after the first a of s are the n entries after the first b of t.
Same(s, a, t, b, n) == a + n <= Len(s) /\ b + n <= Len(t) /\ \A k \in 1..n : s[a + k] = t[b + k]

\* Equal segments of two sequences have the same bytes.
LEMMA SameSegment ==
    ASSUME NEW s \in Seq(Cache!Entry), NEW t \in Seq(Cache!Entry), NEW a \in Nat, NEW b \in Nat, NEW n \in Nat,
           Same(s, a, t, b, n)
    PROVE  Upto(s, a + n) - Upto(s, a) = Upto(t, b + n) - Upto(t, b)
<1>0. a + n <= Len(s) /\ b + n <= Len(t) /\ \A k \in 1..n : s[a + k] = t[b + k]
  BY DEF Same
<1>1. /\ Len(s) \in Nat /\ \A k \in 0..Len(s) : Upto(s, k) \in Int
      /\ \A k \in 1..Len(s) : s[k].size \in Nat /\ Upto(s, k) = Upto(s, k - 1) + s[k].size
  BY UptoUnfolds
<1>2. /\ Len(t) \in Nat /\ \A k \in 0..Len(t) : Upto(t, k) \in Int
      /\ \A k \in 1..Len(t) : t[k].size \in Nat /\ Upto(t, k) = Upto(t, k - 1) + t[k].size
  BY UptoUnfolds
<1> DEFINE T == {k \in Nat : k <= n /\ Upto(s, a + k) - Upto(s, a) # Upto(t, b + k) - Upto(t, b)}
<1>3. T = {}
  <2>1. SUFFICES ASSUME T # {} PROVE FALSE
    OBVIOUS
  <2>2. PICK k \in T : \A m \in T : k <= m
    <3> HIDE DEF T
    <3>1. T \in SUBSET Nat
      BY DEF T
    <3>. QED BY <2>1, <3>1, SmallestNat
  <2>3. a \in 0..Len(s) /\ b \in 0..Len(t) /\ Upto(s, a) \in Int /\ Upto(t, b) \in Int
    BY <1>0, <1>1, <1>2
  <2>4. k # 0
    <3>1. a + 0 = a /\ b + 0 = b
      OBVIOUS
    <3>2. Upto(s, a) - Upto(s, a) = Upto(t, b) - Upto(t, b)
      BY <2>3
    <3>. QED BY <2>2, <3>1, <3>2
  <2> DEFINE m == k - 1
             i == a + k
             j == b + k
  <2>0. k \in Nat /\ k <= n
    BY <2>2
  <2>5. m \in Nat /\ m <= n /\ m \notin T /\ k \in 1..n
    <3>1. m \in Nat /\ m <= n /\ k \in 1..n /\ ~(k <= m)
      BY <2>0, <2>4
    <3> HIDE DEF T, m
    <3>. QED BY <2>2, <3>1
  <2>6. /\ i \in 1..Len(s) /\ i - 1 = a + m /\ i - 1 \in 0..Len(s)
        /\ j \in 1..Len(t) /\ j - 1 = b + m /\ j - 1 \in 0..Len(t)
    BY <1>0, <1>1, <1>2, <2>5
  <2>7. Upto(s, a + m) - Upto(s, a) = Upto(t, b + m) - Upto(t, b)
    BY <2>5
  <2>8. s[i] = t[j]
    BY <1>0, <2>5
  <2>9. Upto(s, i) - Upto(s, a) # Upto(t, j) - Upto(t, b)
    BY <2>2
  <2> HIDE DEF i, j, m, T
  <2>10. Upto(s, i) = Upto(s, i - 1) + s[i].size /\ s[i].size \in Nat /\ Upto(s, i - 1) \in Int
    BY <1>1, <2>6
  <2>11. Upto(t, j) = Upto(t, j - 1) + t[j].size /\ Upto(t, j - 1) \in Int
    BY <1>2, <2>6
  <2>12. Upto(s, i - 1) = Upto(s, a + m) /\ Upto(t, j - 1) = Upto(t, b + m)
    BY <2>6
  <2>13. Upto(s, i) = Upto(s, a + m) + s[i].size /\ Upto(t, j) = Upto(t, b + m) + s[i].size
    BY <2>8, <2>10, <2>11, <2>12
  <2>14. Upto(s, a + m) \in Int /\ Upto(t, b + m) \in Int
    BY <2>10, <2>11, <2>12
  <2> DEFINE p == Upto(s, a + m)
             q == Upto(t, b + m)
             x == Upto(s, a)
             y == Upto(t, b)
             z == s[i].size
  <2>15. /\ p \in Int /\ q \in Int /\ x \in Int /\ y \in Int /\ z \in Int
         /\ p - x = q - y /\ (p + z) - x # (q + z) - y
    BY <2>3, <2>7, <2>9, <2>10, <2>13, <2>14
  <2> HIDE DEF p, q, x, y, z
  <2>. QED BY <2>15
<1>4. n \in Nat /\ n <= n
  OBVIOUS
<1>. QED BY <1>3, <1>4

\* The total of a sequence of entries is a number of bytes.
LEMMA TotalNat == ASSUME NEW s \in Seq(Cache!Entry) PROVE Cache!Total(s) \in Nat
<1>1. Cache!Total(s) = Upto(s, Len(s))
  BY TotalIsUpto
<1>2. Len(s) \in Nat /\ Upto(s, 0) = 0 /\ \A k \in 0..Len(s) : Upto(s, k) \in Int /\ Upto(s, k) <= Upto(s, Len(s))
  BY UptoUnfolds
<1>3. 0 \in 0..Len(s) /\ Len(s) \in 0..Len(s)
  BY <1>2
<1> HIDE DEF Upto
<1>4. Upto(s, Len(s)) \in Int /\ 0 <= Upto(s, Len(s))
  BY <1>2, <1>3
<1>. QED BY <1>1, <1>4

\* A stored entry adds its size.
LEMMA TotalAppend ==
    ASSUME NEW s \in Seq(Cache!Entry), NEW e \in Cache!Entry
    PROVE  Cache!Total(Append(s, e)) = Cache!Total(s) + e.size
<1> DEFINE t == Append(s, e)
           n == Len(s)
<1>1. n \in Nat /\ t \in Seq(Cache!Entry) /\ Len(t) = n + 1 /\ t[n + 1] = e /\ \A k \in 1..n : t[k] = s[k]
  OBVIOUS
<1> HIDE DEF t, n
<1>2. Upto(t, n + 1) = Upto(t, n) + e.size /\ e.size \in Nat
  <2>1. n + 1 \in 1..Len(t) /\ (n + 1) - 1 = n
    BY <1>1
  <2>. QED BY <1>1, <2>1, UptoUnfolds
<1>3. Upto(t, n) = Upto(s, n)
  <2>1. Same(t, 0, s, 0, n)
    BY <1>1 DEF Same, n
  <2>2. Upto(t, 0 + n) - Upto(t, 0) = Upto(s, 0 + n) - Upto(s, 0)
    BY <1>1, <2>1, SameSegment
  <2>3. Upto(t, 0) = 0 /\ Upto(s, 0) = 0 /\ 0 + n = n
    BY <1>1, UptoUnfolds
  <2>4. Upto(t, n) \in Int /\ Upto(s, n) \in Int
    <3>1. n \in 0..Len(t) /\ n \in 0..Len(s)
      BY <1>1 DEF n
    <3>. QED BY <1>1, <3>1, UptoUnfolds
  <2>. QED BY <2>2, <2>3, <2>4
<1>4. Cache!Total(t) = Upto(t, n + 1) /\ Cache!Total(s) = Upto(s, n)
  BY <1>1, TotalIsUpto DEF n
<1>. QED BY <1>2, <1>3, <1>4 DEF t

\* The oldest n entries and the others make up the total.
LEMMA TotalSplit ==
    ASSUME NEW s \in Seq(Cache!Entry), NEW n \in 0..Len(s)
    PROVE  LET old == SubSeq(s, 1, n)
               new == SubSeq(s, n + 1, Len(s))
           IN  /\ old \in Seq(Cache!Entry) /\ new \in Seq(Cache!Entry) /\ Len(new) = Len(s) - n
               /\ \A k \in 1..Len(new) : new[k] = s[n + k]
               /\ Cache!Total(s) = Cache!Total(old) + Cache!Total(new)
<1> DEFINE old == SubSeq(s, 1, n)
           new == SubSeq(s, n + 1, Len(s))
           m == Len(s) - n
<1>0. n \in Nat /\ m \in Nat /\ Len(s) \in Nat /\ n + m = Len(s) /\ \A k \in 1..Len(s) : s[k] \in Cache!Entry
  OBVIOUS
<1>1. old = [k \in 1..n |-> s[k]] /\ Len(old) = n /\ old \in Seq(Cache!Entry)
  BY <1>0
<1>2. /\ new \in Seq(Cache!Entry) /\ Len(new) = m /\ \A k \in 1..m : new[k] = s[n + k]
  <2>1. new = [k \in 1..m |-> s[n + k]]
    <3>1. new = [k \in 1..(Len(s) - (n + 1) + 1) |-> s[(n + 1) + k - 1]]
      BY <1>0
    <3>2. Len(s) - (n + 1) + 1 = m /\ \A k \in 1..m : (n + 1) + k - 1 = n + k
      BY <1>0
    <3> HIDE DEF new, m
    <3>. QED BY <3>1, <3>2
  <2>2. \A k \in 1..m : n + k \in 1..Len(s)
    BY <1>0
  <2> HIDE DEF new, m
  <2>3. \A k \in 1..m : s[n + k] \in Cache!Entry
    BY <1>0, <2>2
  <2>. QED BY <1>0, <2>1, <2>3
<1>3. \A k \in 1..n : old[0 + k] = s[0 + k]
  BY <1>1
<1> HIDE DEF old, new, m
<1>4. Upto(old, 0 + n) - Upto(old, 0) = Upto(s, 0 + n) - Upto(s, 0)
  <2>1. Same(old, 0, s, 0, n)
    BY <1>0, <1>1, <1>3 DEF Same
  <2>2. old \in Seq(Cache!Entry) /\ s \in Seq(Cache!Entry) /\ n \in Nat /\ 0 \in Nat
    BY <1>0, <1>1
  <2>. QED BY ONLY <2>1, <2>2, SameSegment
<1>5. Upto(new, 0 + m) - Upto(new, 0) = Upto(s, n + m) - Upto(s, n)
  <2>1. Same(new, 0, s, n, m)
    BY <1>0, <1>2 DEF Same
  <2>2. new \in Seq(Cache!Entry) /\ s \in Seq(Cache!Entry) /\ n \in Nat /\ m \in Nat /\ 0 \in Nat
    BY <1>0, <1>2
  <2>. QED BY ONLY <2>1, <2>2, SameSegment
<1>6. Upto(old, 0) = 0 /\ Upto(new, 0) = 0 /\ Upto(s, 0) = 0 /\ Upto(s, n) \in Int
  BY <1>0, <1>1, <1>2, UptoUnfolds
<1>7. Cache!Total(old) = Upto(old, n) /\ Cache!Total(new) = Upto(new, m) /\ Cache!Total(s) = Upto(s, n + m)
  BY <1>0, <1>1, <1>2, TotalIsUpto
<1>8. Cache!Total(old) \in Nat /\ Cache!Total(new) \in Nat /\ Cache!Total(s) \in Nat
  BY <1>1, <1>2, TotalNat
<1>9. 0 + n = n /\ 0 + m = m
  BY <1>0
<1>10. Cache!Total(old) = Upto(s, n) /\ Cache!Total(new) = Cache!Total(s) - Upto(s, n)
  BY <1>4, <1>5, <1>6, <1>7, <1>8, <1>9
<1>. QED BY <1>1, <1>2, <1>6, <1>8, <1>10 DEF old, new, m

\* One entry leaves, the others keep their order.
LEMMA Removed ==
    ASSUME NEW S, NEW s \in Seq(S), NEW i \in DOMAIN s, NEW r, r = Cache!RemoveAt(s, i)
    PROVE  /\ r \in Seq(S) /\ Len(r) = Len(s) - 1 /\ Len(r) \in Nat /\ i \in 1..Len(s) /\ DOMAIN r = 1..Len(r)
           /\ \A k \in 1..(i - 1) : r[k] = s[k]
           /\ \A k \in i..(Len(s) - 1) : r[k] = s[k + 1]
<1> DEFINE n == Len(s)
           a == SubSeq(s, 1, i - 1)
           b == SubSeq(s, i + 1, n)
<1>0. n \in Nat /\ i \in 1..n /\ \A k \in 1..n : s[k] \in S
  OBVIOUS
<1>1. a \in Seq(S) /\ Len(a) = i - 1 /\ \A k \in 1..(i - 1) : a[k] = s[k]
  BY <1>0
<1>2. b \in Seq(S) /\ Len(b) = n - i /\ \A k \in 1..(n - i) : b[k] = s[i + k]
  <2>1. b = [k \in 1..(n - (i + 1) + 1) |-> s[(i + 1) + k - 1]]
    BY <1>0
  <2>2. n - (i + 1) + 1 = n - i /\ \A k \in 1..(n - i) : (i + 1) + k - 1 = i + k /\ i + k \in 1..n
    BY <1>0
  <2> HIDE DEF b, n
  <2>3. b = [k \in 1..(n - i) |-> s[i + k]]
    BY <2>1, <2>2
  <2>4. n - i \in Nat /\ \A k \in 1..(n - i) : s[i + k] \in S
    BY <1>0, <2>2
  <2>. QED BY <2>3, <2>4
<1>3. r = a \o b
  BY DEF Cache!RemoveAt
<1> HIDE DEF a, b, n
<1>4. /\ r \in Seq(S) /\ Len(r) = (i - 1) + (n - i)
      /\ \A k \in 1..(i - 1) : r[k] = a[k]
      /\ \A k \in 1..(n - i) : r[(i - 1) + k] = b[k]
  <2>1. a \in Seq(S) /\ b \in Seq(S)
    BY <1>1, <1>2
  <2>2. a \o b \in Seq(S) /\ Len(a \o b) = Len(a) + Len(b)
    BY ONLY <2>1
  <2>3. ASSUME NEW k \in 1..Len(a) PROVE (a \o b)[k] = a[k]
    BY ONLY <2>1, <2>3
  <2>4. ASSUME NEW k \in 1..Len(b) PROVE (a \o b)[Len(a) + k] = b[k]
    BY ONLY <2>1, <2>4
  <2>5. Len(a) = i - 1 /\ Len(b) = n - i
    BY <1>1, <1>2
  <2> HIDE DEF n
  <2>. QED BY <1>3, <2>2, <2>3, <2>4, <2>5
<1>5. ASSUME NEW k \in 1..(i - 1) PROVE r[k] = s[k]
  BY <1>1, <1>4
<1>6. ASSUME NEW k \in i..(n - 1) PROVE r[k] = s[k + 1]
  <2> DEFINE j == k - (i - 1)
  <2>1. k \in Int /\ i \in Int /\ n \in Int /\ i >= 1 /\ i <= k /\ k <= n - 1
    BY <1>0
  <2>2. j \in 1..(n - i) /\ i + j = k + 1 /\ (i - 1) + j = k
    BY <2>1
  <2> HIDE DEF j
  <2>4. r[(i - 1) + j] = b[j]
    BY <1>4, <2>2
  <2>5. b[j] = s[i + j]
    BY <1>2, <2>2
  <2>. QED BY <2>2, <2>4, <2>5
<1>7. (i - 1) + (n - i) = n - 1 /\ n - 1 \in Nat
  BY <1>0
<1>. QED BY <1>0, <1>4, <1>5, <1>6, <1>7 DEF n

\* Its bytes leave with it.
LEMMA TotalRemoved ==
    ASSUME NEW s \in Seq(Cache!Entry), NEW i \in DOMAIN s
    PROVE  Cache!Total(Cache!RemoveAt(s, i)) = Cache!Total(s) - s[i].size /\ s[i].size \in Nat
<1> DEFINE r == Cache!RemoveAt(s, i)
           n == Len(s)
           a == i - 1
           m == n - i
<1>1. /\ r \in Seq(Cache!Entry) /\ Len(r) = n - 1 /\ i \in 1..n
      /\ \A k \in 1..(i - 1) : r[k] = s[k]
      /\ \A k \in i..(n - 1) : r[k] = s[k + 1]
  <2>1. s \in Seq(Cache!Entry) /\ i \in DOMAIN s /\ r = Cache!RemoveAt(s, i)
    OBVIOUS
  <2> HIDE DEF r
  <2>. QED BY ONLY <2>1, Removed
<1>2. n \in Nat /\ a \in Nat /\ m \in Nat /\ i \in Nat /\ a + m = n - 1 /\ i + m = n /\ i - 1 = a
  BY <1>1
<1> HIDE DEF r
<1>3. Same(r, 0, s, 0, a)
  BY <1>1, <1>2 DEF Same
<1>4. Same(r, a, s, i, m)
  <2>1. \A k \in 1..m : r[a + k] = s[i + k]
    <3> SUFFICES ASSUME NEW k \in 1..m PROVE r[a + k] = s[i + k]
      OBVIOUS
    <3>1. a + k \in i..(n - 1) /\ (a + k) + 1 = i + k
      BY <1>2
    <3> HIDE DEF a, m, n
    <3>. QED BY <1>1, <3>1
  <2>. QED BY <1>1, <1>2, <2>1 DEF Same
<1> HIDE DEF n, a, m
<1>5. Upto(r, 0 + a) - Upto(r, 0) = Upto(s, 0 + a) - Upto(s, 0)
  <2>1. r \in Seq(Cache!Entry) /\ s \in Seq(Cache!Entry) /\ a \in Nat /\ 0 \in Nat
    BY <1>1, <1>2
  <2>. QED BY ONLY <1>3, <2>1, SameSegment
<1>6. Upto(r, a + m) - Upto(r, a) = Upto(s, i + m) - Upto(s, i)
  <2>1. r \in Seq(Cache!Entry) /\ s \in Seq(Cache!Entry) /\ a \in Nat /\ i \in Nat /\ m \in Nat
    BY <1>1, <1>2
  <2>. QED BY ONLY <1>4, <2>1, SameSegment
<1>7. /\ Upto(r, 0) = 0 /\ Upto(s, 0) = 0 /\ 0 + a = a
      /\ Upto(s, i) = Upto(s, a) + s[i].size /\ s[i].size \in Nat
  <2>1. i \in 1..Len(s)
    BY <1>1 DEF n
  <2>2. Upto(s, i) = Upto(s, i - 1) + s[i].size /\ s[i].size \in Nat
    BY <2>1, UptoUnfolds
  <2>3. Upto(r, 0) = 0 /\ Upto(s, 0) = 0
    BY <1>1, UptoUnfolds
  <2>. QED BY <1>2, <2>2, <2>3
<1>8. Upto(s, a) \in Int /\ Upto(r, a) \in Int /\ Upto(r, a + m) \in Int /\ Upto(s, i + m) \in Int
  <2>1. a \in 0..Len(s) /\ a \in 0..Len(r) /\ a + m \in 0..Len(r) /\ i + m \in 0..Len(s)
    BY <1>1, <1>2 DEF n
  <2>. QED BY <1>1, <2>1, UptoUnfolds
<1>9. Cache!Total(r) = Upto(r, a + m) /\ Cache!Total(s) = Upto(s, i + m)
  BY <1>1, <1>2, TotalIsUpto DEF n
<1>. QED BY <1>5, <1>6, <1>7, <1>8, <1>9 DEF r

-----------------------------------------------------------------------------
(* HistoricalCache: what leaves a sequence, and the order of what stays.   *)

\* f says where in s each element of w stood: w is s, in its order, without the places at.
Stood(f, w, s, at) ==
    /\ f \in [DOMAIN w -> DOMAIN s]
    /\ \A i, j \in DOMAIN w : i < j => f[i] < f[j]
    /\ \A i \in DOMAIN w : w[i] = s[f[i]] /\ f[i] \notin at
    /\ \A j \in DOMAIN s : j \notin at => \E i \in DOMAIN w : f[i] = j
Keeps(w, s, at) == \E f : Stood(f, w, s, at)

\* pop of one element.
LEMMA RemovedKeeps ==
    ASSUME NEW S, NEW s \in Seq(S), NEW i \in DOMAIN s, NEW w, w = Cache!RemoveAt(s, i)
    PROVE  Keeps(w, s, {i})
<1> DEFINE n == Len(s)
           f == [k \in 1..(n - 1) |-> IF k < i THEN k ELSE k + 1]
<1>1. /\ Len(w) = n - 1 /\ Len(w) \in Nat /\ i \in 1..n /\ DOMAIN w = 1..Len(w)
      /\ \A k \in 1..(i - 1) : w[k] = s[k]
      /\ \A k \in i..(n - 1) : w[k] = s[k + 1]
  BY Removed
<1>2. n \in Nat /\ DOMAIN s = 1..n /\ DOMAIN w = 1..(n - 1)
  BY <1>1
<1> HIDE DEF n
<1>3. \A k \in 1..(n - 1) : /\ f[k] \in 1..n /\ f[k] # i
                            /\ k < i => k \in 1..(i - 1)
                            /\ ~(k < i) => k \in i..(n - 1)
  BY <1>1, <1>2
<1>4. \A k \in 1..(n - 1) : w[k] = s[f[k]]
  BY <1>1, <1>3
<1>5. \A k, m \in 1..(n - 1) : k < m => f[k] < f[m]
  BY <1>1, <1>2
<1>6. ASSUME NEW j \in 1..n, j # i PROVE \E k \in 1..(n - 1) : f[k] = j
  <2>1. CASE j < i
    <3>1. j \in 1..(n - 1) /\ f[j] = j
      BY <1>1, <1>2, <2>1
    <3>. QED BY <3>1
  <2>2. CASE ~(j < i)
    <3>1. j - 1 \in 1..(n - 1) /\ f[j - 1] = j
      BY <1>1, <1>2, <1>6, <2>2
    <3>. QED BY <3>1
  <2>. QED BY <2>1, <2>2
<1>7. f \in [1..(n - 1) -> 1..n]
  BY <1>3
<1> HIDE DEF f
<1>8. Stood(f, w, s, {i})
  BY <1>2, <1>3, <1>4, <1>5, <1>6, <1>7 DEF Stood
<1>. QED BY <1>8 DEF Keeps

\* What stands in one place at most.
LEMMA WithoutKeeps ==
    ASSUME NEW S, NEW s \in Seq(S), NEW at \in SUBSET DOMAIN s, \A i, j \in at : i = j,
           NEW w, w = Cache!Without(s, at)
    PROVE  w \in Seq(S) /\ Keeps(w, s, at)
<1>1. CASE at = {}
  <2>1. w = s
    BY <1>1 DEF Cache!Without
  <2> DEFINE f == [i \in DOMAIN s |-> i]
  <2>2. Stood(f, w, s, at)
    BY <1>1, <2>1 DEF Stood
  <2>. QED BY <2>1, <2>2 DEF Keeps
<1>2. CASE at # {}
  <2> DEFINE p == Cache!Place(at)
  <2>1. p \in at /\ w = Cache!RemoveAt(s, p)
    BY <1>2 DEF Cache!Without, Cache!Place
  <2>2. p \in DOMAIN s /\ at = {p}
    BY <2>1
  <2> HIDE DEF p
  <2>3. w \in Seq(S)
    BY <2>1, <2>2, Removed
  <2>4. Keeps(w, s, {p})
    BY <2>1, <2>2, RemovedKeeps
  <2>. QED BY <2>2, <2>3, <2>4
<1>. QED BY <1>1, <1>2

\* The newest entries, after the oldest n left.
LEMMA NewestKeeps ==
    ASSUME NEW s \in Seq(Cache!Entry), NEW n \in 0..Len(s), NEW w, w = SubSeq(s, n + 1, Len(s))
    PROVE  Keeps(w, s, 1..n)
<1> DEFINE l == Len(s)
           m == l - n
           f == [k \in 1..m |-> n + k]
<1>1. w \in Seq(Cache!Entry) /\ Len(w) = m /\ \A k \in 1..m : w[k] = s[n + k]
  BY TotalSplit
<1>2. n \in Nat /\ m \in Nat /\ l \in Nat /\ n + m = l
  OBVIOUS
<1>0. DOMAIN s = 1..l /\ DOMAIN w = 1..m
  BY <1>1
<1> HIDE DEF m, l
<1>3. \A k \in 1..m : n + k \in 1..l /\ n + k \notin 1..n
  BY ONLY <1>2
<1>4. \A j \in 1..l : j \notin 1..n => j - n \in 1..m /\ n + (j - n) = j
  BY ONLY <1>2
<1>5. \A j, k \in 1..m : j < k => f[j] < f[k]
  BY ONLY <1>2
<1>f. \A k \in 1..m : f[k] = n + k
  OBVIOUS
<1>6. f \in [1..m -> 1..l] /\ \A j \in 1..l : j \notin 1..n => \E i \in 1..m : f[i] = j
  BY <1>3, <1>4
<1> HIDE DEF f
<1>7. Stood(f, w, s, 1..n)
  BY ONLY <1>0, <1>1, <1>3, <1>5, <1>f, <1>6 DEF Stood
<1>. QED BY <1>7 DEF Keeps

\* Every entry of d is in the order of use r, once, and entries stand in that order.
InOrder(d, r) ==
    /\ \A a, b \in DOMAIN r : r[a] = r[b] => a = b
    /\ \A i \in DOMAIN d : \E a \in DOMAIN r : r[a] = d[i].key
    /\ \A i, j \in DOMAIN d : \A a, b \in DOMAIN r :
          i < j /\ r[a] = d[i].key /\ r[b] = d[j].key => a < b

Distinct(d) == \A i, j \in DOMAIN d : d[i].key = d[j].key => i = j

\* A key is then stored once.
LEMMA OrderDistinct ==
    ASSUME NEW d \in Seq(Cache!Entry), NEW r \in Seq(Keys), InOrder(d, r)
    PROVE  Distinct(d)
<1> SUFFICES ASSUME NEW i \in DOMAIN d, NEW j \in DOMAIN d, d[i].key = d[j].key PROVE i = j
  BY DEF Distinct
<1>1. PICK a \in DOMAIN r : r[a] = d[i].key
  BY DEF InOrder
<1>2. ~(i < j) /\ ~(j < i)
  <2>1. ~(a < a)
    BY <1>1
  <2>. QED BY <1>1, <2>1 DEF InOrder
<1>3. i \in Int /\ j \in Int
  OBVIOUS
<1>. QED BY <1>2, <1>3

\* Entries that leave do not disturb the order of the others.
LEMMA OrderKept ==
    ASSUME NEW d, NEW r, NEW w, NEW at, InOrder(d, r), Keeps(w, d, at)
    PROVE  InOrder(w, r)
<1>1. PICK f : Stood(f, w, d, at)
  BY DEF Keeps
<1>. QED BY <1>1 DEF Stood, InOrder

\* A key used again becomes the newest.
LEMMA OrderUsed ==
    ASSUME NEW w \in Seq(Cache!Entry), NEW r \in Seq(Keys), InOrder(w, r), NEW e \in Cache!Entry,
           \A i \in DOMAIN w : w[i].key # e.key,
           NEW q, q = Append(Cache!Without(r, {i \in DOMAIN r : r[i] = e.key}), e.key)
    PROVE  q \in Seq(Keys) /\ InOrder(Append(w, e), q)
<1> DEFINE at == {i \in DOMAIN r : r[i] = e.key}
           u == Cache!Without(r, at)
           d == Append(w, e)
           n == Len(w)
           m == Len(u)
<1>1. u \in Seq(Keys) /\ Keeps(u, r, at)
  <2>1. at \in SUBSET DOMAIN r /\ \A i, j \in at : i = j
    BY DEF InOrder
  <2> HIDE DEF at
  <2>. QED BY <2>1, WithoutKeeps
<1>2. e.key \in Keys
  BY DEF Cache!Entry
<1>a. q = Append(u, e.key)
  OBVIOUS
<1> HIDE DEF u
<1>3. /\ q \in Seq(Keys) /\ m \in Nat /\ DOMAIN u = 1..m /\ DOMAIN q = 1..(m + 1)
      /\ q[m + 1] = e.key /\ \A a \in 1..m : q[a] = u[a]
  <2> DEFINE k == e.key
  <2> HIDE DEF k
  <2>1. u \in Seq(Keys) /\ k \in Keys /\ q = Append(u, k)
    BY <1>a, <1>1, <1>2 DEF k
  <2>2. /\ q \in Seq(Keys) /\ m \in Nat /\ DOMAIN u = 1..m /\ DOMAIN q = 1..(m + 1)
        /\ q[m + 1] = k /\ \A a \in 1..m : q[a] = u[a]
    BY ONLY <2>1
  <2>. QED BY <2>2 DEF k
<1>4. n \in Nat /\ DOMAIN w = 1..n /\ DOMAIN d = 1..(n + 1) /\ d[n + 1] = e /\ \A i \in 1..n : d[i] = w[i]
  OBVIOUS
<1> HIDE DEF d, n, m
<1>5. PICK f : Stood(f, u, r, at)
  BY <1>1 DEF Keeps
<1>p. \A a \in 1..m : f[a] \in DOMAIN r /\ f[a] \in Int /\ u[a] = r[f[a]]
  <2>1. \A a \in 1..m : f[a] \in DOMAIN r /\ u[a] = r[f[a]]
    BY <1>3, <1>5 DEF Stood
  <2>2. \A a \in DOMAIN r : a \in Int
    OBVIOUS
  <2>. QED BY <2>1, <2>2
<1>s. \A a, b \in 1..m : a < b => f[a] < f[b]
  BY <1>3, <1>5 DEF Stood
<1>6. \A a \in 1..m : u[a] # e.key
  BY <1>3, <1>5 DEF Stood
<1> HIDE DEF at
<1>7. \A a, b \in 1..m : u[a] = u[b] => a = b
  <2> SUFFICES ASSUME NEW a \in 1..m, NEW b \in 1..m, u[a] = u[b] PROVE a = b
    OBVIOUS
  <2>1. f[a] = f[b]
    BY <1>p DEF InOrder
  <2>2. f[a] \in Int /\ (a < b => f[a] < f[b]) /\ (b < a => f[b] < f[a])
    BY <1>p, <1>s
  <2>. QED BY <2>1, <2>2
<1>8. ASSUME NEW i \in 1..n PROVE \E a \in 1..m : u[a] = w[i].key
  <2>1. PICK a \in DOMAIN r : r[a] = w[i].key
    BY <1>4 DEF InOrder
  <2>2. a \notin at
    BY <1>4, <2>1 DEF at
  <2>. QED BY <1>3, <1>5, <2>1, <2>2 DEF Stood
<1>9. ASSUME NEW i \in 1..n, NEW j \in 1..n, NEW a \in 1..m, NEW b \in 1..m,
             i < j, u[a] = w[i].key, u[b] = w[j].key
      PROVE  a < b
  <2>0. \A x, y \in DOMAIN r : r[x] = w[i].key /\ r[y] = w[j].key => x < y
    <3>1. i \in DOMAIN w /\ j \in DOMAIN w /\ i < j
      BY <1>4, <1>9
    <3>. QED BY <3>1 DEF InOrder
  <2>1. f[a] < f[b] /\ f[a] \in Int /\ f[b] \in Int
    BY <1>9, <1>p, <2>0
  <2>2. (b < a => f[b] < f[a]) /\ (a = b => f[a] = f[b])
    BY <1>s
  <2>. QED BY <2>1, <2>2
<1>10. \A a \in 1..(m + 1) : a \in 1..m \/ a = m + 1
  BY <1>3
<1>11. \A i \in 1..(n + 1) : i \in 1..n \/ i = n + 1
  BY <1>4
<1>12. \A a, b \in DOMAIN q : q[a] = q[b] => a = b
  BY <1>3, <1>6, <1>7, <1>10
<1>13. \A i \in DOMAIN d : \E a \in DOMAIN q : q[a] = d[i].key
  <2>1. (\A a \in 1..m : a \in DOMAIN q) /\ m + 1 \in DOMAIN q
    <3>1. m \in Nat /\ DOMAIN q = 1..(m + 1)
      BY <1>3
    <3>. QED BY ONLY <3>1
  <2>. QED BY <1>3, <1>4, <1>8, <1>11, <2>1
<1>14. ASSUME NEW i \in DOMAIN d, NEW j \in DOMAIN d, NEW a \in DOMAIN q, NEW b \in DOMAIN q,
              i < j, q[a] = d[i].key, q[b] = d[j].key
       PROVE  a < b
  <2>1. i \in 1..n /\ i # n + 1
    BY <1>4, <1>11, <1>14
  <2>2. a \in 1..m /\ q[a] = u[a] /\ d[i] = w[i]
    BY <1>3, <1>4, <1>10, <1>14, <2>1
  <2>3. CASE b = m + 1
    BY <1>3, <2>2, <2>3
  <2>4. CASE b \in 1..m
    <3>1. u[b] = q[b] /\ j \in 1..n
      BY <1>3, <1>4, <1>6, <1>11, <1>14, <2>4
    <3>. QED BY <1>4, <1>9, <1>14, <2>1, <2>2, <2>4, <3>1
  <2>. QED BY <1>3, <1>10, <2>3, <2>4
<1>. QED BY <1>3, <1>12, <1>13, <1>14 DEF InOrder, d

\* The eviction loop ends: with room for the new entry, or with nothing left to pop.
LEMMA EvictedFits ==
    ASSUME NEW s \in Seq(Cache!Entry), NEW b \in Int, NEW size \in Nat
    PROVE  LET n == Cache!Evicted(s, b, size)
           IN  /\ n \in 0..Len(s)
               /\ \/ n = Len(s)
                  \/ Len(s) - n < MaxEntries /\ b - Cache!Total(SubSeq(s, 1, n)) + size <= MaxCached
<1> DEFINE l == Len(s)
           Fits(k) == Len(s) - k < MaxEntries /\ b - Cache!Total(SubSeq(s, 1, k)) + size <= MaxCached
           Stops(n) == (n = Len(s) \/ Fits(n)) /\ \A k \in 0..(n - 1) : ~Fits(k)
           T == {n \in Nat : n = l \/ (n < l /\ Fits(n))}
<1>1. l \in Nat
  OBVIOUS
<1>2. PICK n \in T : \A m \in T : n <= m
  <2>1. T \in SUBSET Nat /\ l \in T
    <3>1. l \in T
      BY <1>1
    <3>2. T \subseteq Nat
      OBVIOUS
    <3> HIDE DEF T
    <3>. QED BY <3>1, <3>2
  <2> HIDE DEF T
  <2>. QED BY <2>1, SmallestNat
<1>3. n \in 0..l /\ Stops(n)
  <2> HIDE DEF Fits
  <2>0. n \in Nat /\ (n = l \/ (n < l /\ Fits(n)))
    BY <1>2
  <2>1. n \in 0..l /\ (n = l \/ Fits(n))
    BY <1>1, <2>0
  <2>2. ASSUME NEW k \in 0..(n - 1) PROVE ~Fits(k)
    <3>1. k \in Nat /\ k < l /\ ~(n <= k)
      BY <1>1, <2>0
    <3>2. k \notin T
      BY <1>2, <3>1
    <3>. QED BY <3>1, <3>2
  <2>. QED BY <2>1, <2>2
<1>4. Cache!Evicted(s, b, size) = CHOOSE k \in 0..l : Stops(k)
  BY DEF Cache!Evicted
<1> HIDE DEF Stops
<1>5. Cache!Evicted(s, b, size) \in 0..l /\ Stops(Cache!Evicted(s, b, size))
  <2>1. \E k \in 0..l : Stops(k)
    BY <1>3
  <2>2. (CHOOSE k \in 0..l : Stops(k)) \in 0..l /\ Stops(CHOOSE k \in 0..l : Stops(k))
    BY <2>1
  <2>. QED BY <1>4, <2>2
<1>. QED BY <1>5 DEF Stops

-----------------------------------------------------------------------------
(* HistoricalCache: the inductive invariant.                               *)

\* The counter and the limits, and every entry once, in the order of use.
CacheInv ==
    /\ Cache!TypeOK /\ InOrder(data, recency)
    /\ bytes = Cache!Total(data) /\ bytes <= MaxCached /\ Len(data) <= MaxEntries
    /\ Keys = {} => answer = None

\* It says more than the property that the runs check.
LEMMA CacheCounts == CacheInv => CountersExact
<1> SUFFICES ASSUME CacheInv PROVE CountersExact
  OBVIOUS
<1>1. data \in Seq(Cache!Entry) /\ recency \in Seq(Keys) /\ InOrder(data, recency)
  BY DEF CacheInv, Cache!TypeOK
<1>2. Distinct(data)
  BY <1>1, OrderDistinct
<1>3. ASSUME NEW i \in DOMAIN data, NEW j \in DOMAIN data, i < j
      PROVE  \E a, b \in DOMAIN recency : recency[a] = data[i].key /\ recency[b] = data[j].key /\ a < b
  BY <1>1, <1>3 DEF InOrder
<1>. QED BY <1>2, <1>3 DEF CacheInv, CountersExact, Cache!CountersExact, Distinct

\* The cache starts empty.
LEMMA CacheStart == Cache!CacheAssumption /\ Cache!Init => CacheInv
<1> SUFFICES ASSUME Cache!CacheAssumption, Cache!Init PROVE CacheInv
  OBVIOUS
<1>1. /\ data = <<>> /\ data \in Seq(Cache!Entry) /\ Len(data) = 0 /\ DOMAIN data = {}
      /\ recency = <<>> /\ recency \in Seq(Keys) /\ DOMAIN recency = {}
  BY DEF Cache!Init
<1>2. Cache!Total(data) = 0
  BY <1>1, TotalIsUpto, UptoUnfolds
<1>3. InOrder(data, recency)
  BY <1>1 DEF InOrder
<1>. QED BY <1>1, <1>2, <1>3 DEF CacheInv, Cache!Init, Cache!TypeOK, Cache!CacheAssumption

\* get of an expired entry: it leaves.
LEMMA ExpiredLeaves ==
    ASSUME Cache!CacheAssumption, CacheInv, NEW k, Cache!GetExpired(k)
    PROVE  CacheInv' /\ \E i \in Cache!Held(k) : Keeps(data', data, {i})
<1>1. PICK i \in Cache!Held(k) : /\ data' = Cache!RemoveAt(data, i) /\ bytes' = bytes - data[i].size
                                 /\ answer' = None /\ UNCHANGED <<now, recency>>
  BY DEF Cache!GetExpired
<1>2. data \in Seq(Cache!Entry) /\ i \in DOMAIN data
  BY DEF CacheInv, Cache!TypeOK, Cache!Held
<1>3. data' \in Seq(Cache!Entry) /\ Len(data') = Len(data) - 1 /\ Len(data) \in Nat
  BY <1>1, <1>2, Removed
<1>4. Keeps(data', data, {i})
  BY <1>1, <1>2, RemovedKeeps
<1>5. InOrder(data', recency)
  BY <1>4, OrderKept DEF CacheInv
<1>6. Cache!Total(data') = Cache!Total(data) - data[i].size /\ data[i].size \in Nat
  BY <1>1, <1>2, TotalRemoved
<1>7. bytes' = Cache!Total(data') /\ bytes' \in Int /\ bytes' <= MaxCached /\ Len(data') <= MaxEntries
  <2>1. /\ MaxCached \in Nat /\ MaxEntries \in Nat /\ bytes \in Int
        /\ bytes = Cache!Total(data) /\ bytes <= MaxCached /\ Len(data) <= MaxEntries
    BY DEF CacheInv, Cache!TypeOK, Cache!CacheAssumption
  <2> DEFINE x == data[i].size
             y == Cache!Total(data')
             l == Len(data)
  <2>2. bytes' = bytes - x /\ y = bytes - x /\ x \in Nat /\ Len(data') = l - 1 /\ l \in Nat
    BY <1>1, <1>3, <1>6, <2>1
  <2> HIDE DEF x, y
  <2>. QED BY <2>1, <2>2 DEF y
<1>. QED BY <1>1, <1>3, <1>4, <1>5, <1>7 DEF CacheInv, Cache!TypeOK

\* An entry e that takes the last place, after the entries w that stay.
LEMMA EntryLast ==
    ASSUME Cache!CacheAssumption, CacheInv, NEW w \in Seq(Cache!Entry), NEW e \in Cache!Entry,
           InOrder(w, recency), \A i \in DOMAIN w : w[i].key # e.key, Cache!Used(e.key), data' = Append(w, e),
           bytes' = Cache!Total(w) + e.size, bytes' <= MaxCached, Len(w) < MaxEntries,
           now' = now, answer' \in Payloads \cup {None}
    PROVE  CacheInv'
<1>1. recency' \in Seq(Keys) /\ InOrder(data', recency')
  <2>1. /\ recency \in Seq(Keys)
        /\ recency' = Append(Cache!Without(recency, {i \in DOMAIN recency : recency[i] = e.key}), e.key)
    BY DEF CacheInv, Cache!TypeOK, Cache!Used
  <2>. QED BY <2>1, OrderUsed
<1>2. data' \in Seq(Cache!Entry) /\ Len(data') = Len(w) + 1 /\ Len(w) \in Nat
  OBVIOUS
<1>3. bytes' = Cache!Total(data') /\ Cache!Total(w) \in Nat /\ e.size \in Nat
  BY TotalAppend, TotalNat DEF Cache!Entry
<1>4. bytes' \in Int /\ MaxEntries \in Nat /\ Len(data') <= MaxEntries
  BY <1>2, <1>3 DEF Cache!CacheAssumption
<1>5. Keys # {} /\ now \in Nat
  BY DEF Cache!Entry, CacheInv, Cache!TypeOK
<1>. QED BY <1>1, <1>2, <1>3, <1>4, <1>5 DEF CacheInv, Cache!TypeOK

\* The places of a key: one at most.
LEMMA HeldOnce ==
    ASSUME CacheInv, NEW k
    PROVE  /\ data \in Seq(Cache!Entry) /\ Cache!Held(k) \in SUBSET DOMAIN data
           /\ \A i, j \in Cache!Held(k) : i = j
           /\ \A i \in Cache!Held(k) : data[i] \in Cache!Entry /\ data[i].key = k
           /\ \A i \in DOMAIN data : data[i].key = k => i \in Cache!Held(k)
<1>1. data \in Seq(Cache!Entry) /\ recency \in Seq(Keys) /\ InOrder(data, recency)
  BY DEF CacheInv, Cache!TypeOK
<1>2. Distinct(data)
  BY <1>1, OrderDistinct
<1>. QED BY <1>1, <1>2 DEF Cache!Held, Distinct

\* Entries that stay hold none of the keys that left.
LEMMA OthersStay ==
    ASSUME CacheInv, NEW k, NEW at, Cache!Held(k) \subseteq at, NEW w, Keeps(w, data, at)
    PROVE  InOrder(w, recency) /\ \A i \in DOMAIN w : w[i].key # k
<1>1. InOrder(w, recency)
  BY OrderKept DEF CacheInv
<1>2. PICK f : Stood(f, w, data, at)
  BY DEF Keeps
<1>3. \A i \in DOMAIN data : data[i].key = k => i \in at
  BY HeldOnce
<1>. QED BY <1>1, <1>2, <1>3 DEF Stood

\* get of a fresh entry: it becomes the newest.
LEMMA HitMoves ==
    ASSUME Cache!CacheAssumption, CacheInv, NEW k, Cache!GetHit(k)
    PROVE  /\ CacheInv'
           /\ \E i \in Cache!Held(k) : \E w \in Seq(Cache!Entry) :
                 Keeps(w, data, {i}) /\ data' = Append(w, data[i])
<1>1. PICK i \in Cache!Held(k) : /\ data' = Append(Cache!RemoveAt(data, i), data[i])
                                 /\ answer' = data[i].payload /\ Cache!Used(k) /\ UNCHANGED <<bytes, now>>
  BY DEF Cache!GetHit
<1> DEFINE e == data[i]
           w == Cache!RemoveAt(data, i)
<1>2. data \in Seq(Cache!Entry) /\ i \in DOMAIN data /\ e \in Cache!Entry /\ e.key = k /\ Cache!Held(k) \subseteq {i}
  BY HeldOnce
<1>3. w \in Seq(Cache!Entry) /\ Len(w) = Len(data) - 1 /\ Len(data) \in Nat
  BY <1>2, Removed
<1>4. Keeps(w, data, {i})
  BY <1>2, RemovedKeeps
<1>5. Cache!Total(w) = Cache!Total(data) - e.size /\ e.size \in Nat
  BY <1>2, TotalRemoved
<1>6. data' = Append(w, e) /\ Cache!Used(e.key) /\ answer' = e.payload /\ bytes' = bytes /\ now' = now
  BY <1>1, <1>2
<1> HIDE DEF e, w
<1>7. InOrder(w, recency) /\ \A j \in DOMAIN w : w[j].key # e.key
  BY <1>2, <1>4, OthersStay
<1>8. bytes' = Cache!Total(w) + e.size /\ bytes' <= MaxCached /\ Len(w) < MaxEntries
  <2>1. /\ bytes = Cache!Total(data) /\ bytes \in Int /\ bytes <= MaxCached
        /\ Len(data) <= MaxEntries /\ MaxEntries \in Nat
    BY DEF CacheInv, Cache!TypeOK, Cache!CacheAssumption
  <2>. QED BY <1>3, <1>5, <1>6, <2>1
<1>9. answer' \in Payloads \cup {None}
  BY <1>2, <1>6 DEF Cache!Entry
<1>10. CacheInv'
  BY <1>2, <1>3, <1>6, <1>7, <1>8, <1>9, EntryLast
<1>. QED BY <1>3, <1>4, <1>6, <1>10 DEF e

\* put: the old entry of the key leaves, the oldest ones make room, the new one is the newest.
LEMMA PutStores ==
    ASSUME Cache!CacheAssumption, CacheInv,
           NEW k \in Keys \cup {NoKey}, NEW p \in Payloads, Cache!PutStored(k, p)
    PROVE  /\ CacheInv' /\ k \in Keys
           /\ \E r, w \in Seq(Cache!Entry) : \E at :
                 /\ Keeps(r, data, Cache!Held(k)) /\ Keeps(w, r, at)
                 /\ data' = Append(w, [key |-> k, payload |-> p, computed |-> now, size |-> Size[p]])
<1> DEFINE r == Cache!Without(data, Cache!Held(k))
           counted == IF Cache!Held(k) = {} THEN bytes ELSE bytes - data[Cache!Place(Cache!Held(k))].size
           n == Cache!Evicted(r, counted, Size[p])
           old == SubSeq(r, 1, n)
           w == SubSeq(r, n + 1, Len(r))
           e == [key |-> k, payload |-> p, computed |-> now, size |-> Size[p]]
<1>1. /\ k # NoKey /\ MaxEntries # 0 /\ Size[p] <= MaxCached
      /\ data' = Append(w, e) /\ bytes' = counted - Cache!Total(old) + Size[p] /\ Cache!Used(k)
      /\ now' = now /\ answer' = answer
  BY DEF Cache!PutStored
<1>2. /\ data \in Seq(Cache!Entry) /\ now \in Nat /\ bytes \in Int /\ answer \in Payloads \cup {None}
      /\ bytes = Cache!Total(data) /\ bytes <= MaxCached /\ Len(data) <= MaxEntries
      /\ Size[p] \in Nat /\ MaxEntries \in Nat /\ MaxCached \in Nat /\ k \in Keys
  BY <1>1 DEF CacheInv, Cache!TypeOK, Cache!CacheAssumption
<1>3. e \in Cache!Entry /\ e.key = k /\ e.size = Size[p]
  BY <1>2 DEF Cache!Entry
<1>4. r \in Seq(Cache!Entry) /\ Keeps(r, data, Cache!Held(k))
  <2>1. data \in Seq(Cache!Entry) /\ Cache!Held(k) \in SUBSET DOMAIN data /\ \A i, j \in Cache!Held(k) : i = j
    BY HeldOnce
  <2>. QED BY <2>1, WithoutKeeps
<1>5. counted = Cache!Total(r) /\ counted \in Int
  <2>1. CASE Cache!Held(k) = {}
    BY <1>2, <2>1 DEF Cache!Without
  <2>2. CASE Cache!Held(k) # {}
    <3> DEFINE i == Cache!Place(Cache!Held(k))
    <3>1. i \in Cache!Held(k)
      BY <2>2 DEF Cache!Place
    <3>2. i \in DOMAIN data
      BY <3>1, HeldOnce
    <3>3. r = Cache!RemoveAt(data, i) /\ counted = bytes - data[i].size
      BY <2>2 DEF Cache!Without
    <3> HIDE DEF i, r, counted
    <3>4. Cache!Total(r) = Cache!Total(data) - data[i].size /\ data[i].size \in Nat
      BY <1>2, <3>2, <3>3, TotalRemoved
    <3>. QED BY <1>2, <3>3, <3>4
  <2>. QED BY <2>1, <2>2
<1> HIDE DEF r, counted, e
<1>6. /\ n \in 0..Len(r)
      /\ \/ n = Len(r)
         \/ Len(r) - n < MaxEntries /\ counted - Cache!Total(old) + Size[p] <= MaxCached
  <2>1. LET m == Cache!Evicted(r, counted, Size[p])
        IN  /\ m \in 0..Len(r)
            /\ \/ m = Len(r)
               \/ Len(r) - m < MaxEntries /\ counted - Cache!Total(SubSeq(r, 1, m)) + Size[p] <= MaxCached
    BY ONLY <1>2, <1>4, <1>5, EvictedFits
  <2>. QED BY <2>1
<1> HIDE DEF n
<1>7. /\ old \in Seq(Cache!Entry) /\ w \in Seq(Cache!Entry) /\ Len(w) = Len(r) - n
      /\ Cache!Total(r) = Cache!Total(old) + Cache!Total(w)
  BY <1>4, <1>6, TotalSplit
<1>8. Keeps(w, r, 1..n)
  BY <1>4, <1>6, NewestKeeps
<1>9. Cache!Total(old) \in Nat /\ Cache!Total(w) \in Nat
  BY <1>7, TotalNat
<1>10. n = Len(r) => Cache!Total(w) = 0 /\ Len(w) = 0
  <2>1. Len(r) \in Nat
    BY <1>4
  <2>2. n = Len(r) => Len(w) = 0
    BY <1>7, <2>1
  <2>3. Cache!Total(w) = Upto(w, Len(w)) /\ Upto(w, 0) = 0
    BY <1>7, TotalIsUpto, UptoUnfolds
  <2>. QED BY <2>2, <2>3
<1> HIDE DEF old, w
<1>11. InOrder(w, recency) /\ \A i \in DOMAIN w : w[i].key # e.key
  <2>1. InOrder(r, recency) /\ \A i \in DOMAIN r : r[i].key # k
    BY <1>4, OthersStay
  <2>2. InOrder(w, recency)
    BY <1>8, <2>1, OrderKept
  <2>3. PICK f : Stood(f, w, r, 1..n)
    BY <1>8 DEF Keeps
  <2>4. \A i \in DOMAIN w : w[i].key # k
    BY <2>1, <2>3 DEF Stood
  <2>. QED BY <1>3, <2>2, <2>4
<1>12. bytes' = Cache!Total(w) + e.size /\ bytes' <= MaxCached /\ Len(w) < MaxEntries
  <2> DEFINE x == Cache!Total(old)
             y == Cache!Total(w)
             z == Size[p]
  <2>1. bytes' = counted - x + z /\ counted = x + y /\ x \in Nat /\ y \in Nat /\ z \in Nat /\ z <= MaxCached
    BY <1>1, <1>2, <1>5, <1>7, <1>9
  <2>2. (n = Len(r) /\ y = 0) \/ counted - x + z <= MaxCached
    BY <1>6, <1>10
  <2>3. Len(w) < MaxEntries
    BY <1>1, <1>2, <1>6, <1>7, <1>10
  <2> HIDE DEF x, y, z
  <2>4. bytes' = y + z /\ bytes' <= MaxCached
    BY <1>2, <2>1, <2>2
  <2>. QED BY <1>3, <2>3, <2>4 DEF y, z
<1>13. CacheInv'
  BY <1>1, <1>2, <1>3, <1>7, <1>11, <1>12, EntryLast
<1>. QED BY <1>1, <1>2, <1>4, <1>7, <1>8, <1>13 DEF e

\* Every step keeps the invariant.
LEMMA CacheStep ==
    ASSUME Cache!CacheAssumption, CacheInv, [Cache!Next]_Cache!vars
    PROVE  CacheInv'
<1>1. ASSUME NEW k \in Keys \cup {NoKey}, Cache!GetMiss(k) PROVE CacheInv'
  BY <1>1 DEF Cache!GetMiss, CacheInv, Cache!TypeOK
<1>2. ASSUME NEW k \in Keys \cup {NoKey}, NEW p \in Payloads, Cache!PutIgnored(k, p) PROVE CacheInv'
  BY <1>2 DEF Cache!PutIgnored, Cache!vars, CacheInv, Cache!TypeOK
<1>3. CASE Cache!AdvanceClock
  BY <1>3 DEF Cache!AdvanceClock, CacheInv, Cache!TypeOK
<1>4. CASE UNCHANGED Cache!vars
  BY <1>4 DEF Cache!vars, CacheInv, Cache!TypeOK
<1>. QED BY <1>1, <1>2, <1>3, <1>4, ExpiredLeaves, HitMoves, PutStores DEF Cache!Next, Cache!Get, Cache!Put

\* HistoricalCache, get and put: through every sequence of replacements, expiries, evictions and
\* lookups the byte counter is the sum of what is stored, both limits hold, a key is stored once
\* and entries stand in the order of their last use.
THEOREM CountersKept == Spec => []CountersExact
<1>1. Cache!Init => CacheInv
  BY InferenceAssumption, CacheStart
<1>2. CacheInv /\ [Cache!Next]_Cache!vars => CacheInv'
  BY InferenceAssumption, CacheStep
<1>. QED BY <1>1, <1>2, CacheCounts, PartsRun, PTL DEF Cache!Spec

-----------------------------------------------------------------------------
(* HistoricalCache implements LossyCache.                                  *)

\* What a cache with the entries d holds for a key.
Places(d, k) == {i \in DOMAIN d : d[i].key = k}
Result(e) == [payload |-> e.payload, computed |-> e.computed]
View(d, k) == IF Places(d, k) = {} THEN None ELSE Result(d[Cache!Place(Places(d, k))])

\* It is the one entry of that key.
LEMMA ViewOf ==
    ASSUME NEW d, Distinct(d), NEW i \in DOMAIN d
    PROVE  View(d, d[i].key) = Result(d[i])
<1> DEFINE at == Places(d, d[i].key)
<1>1. i \in at /\ \A j \in at : j = i
  BY DEF Places, Distinct
<1> HIDE DEF at
<1>2. at # {} /\ Cache!Place(at) = i
  BY <1>1 DEF Cache!Place
<1>. QED BY <1>2 DEF View, at

\* Entries that leave are lost, the others are held as they were.
LEMMA ViewLost ==
    ASSUME NEW d \in Seq(Cache!Entry), Distinct(d), NEW w \in Seq(Cache!Entry), NEW at, Keeps(w, d, at)
    PROVE  Distinct(w) /\ \A k : View(w, k) \in {View(d, k), None}
<1>1. PICK f : Stood(f, w, d, at)
  BY DEF Keeps
<1>2. \A i \in DOMAIN w : f[i] \in DOMAIN d /\ w[i] = d[f[i]]
  BY <1>1 DEF Stood
<1>3. Distinct(w)
  <2> SUFFICES ASSUME NEW i \in DOMAIN w, NEW j \in DOMAIN w, w[i].key = w[j].key PROVE i = j
    BY DEF Distinct
  <2>1. f[i] = f[j]
    BY <1>2 DEF Distinct
  <2>2. f[i] \in Int /\ (i < j => f[i] < f[j]) /\ (j < i => f[j] < f[i]) /\ i \in Int /\ j \in Int
    BY <1>1, <1>2 DEF Stood
  <2>. QED BY <2>1, <2>2
<1>4. ASSUME NEW k, Places(w, k) # {} PROVE View(w, k) = View(d, k)
  <2>1. PICK i \in DOMAIN w : w[i].key = k
    BY <1>4 DEF Places
  <2>2. View(w, w[i].key) = Result(w[i])
    BY <1>3, ViewOf
  <2>3. View(d, d[f[i]].key) = Result(d[f[i]])
    BY <1>2, ViewOf
  <2>. QED BY <1>2, <2>1, <2>2, <2>3
<1>. QED BY <1>3, <1>4 DEF View

\* d is w with a new last entry, whose key w does not hold.
Newest(d, w, e) == d = Append(w, e) /\ Distinct(d)

\* That entry is held for its key, the others as before.
LEMMA ViewLast ==
    ASSUME NEW w \in Seq(Cache!Entry), NEW e \in Cache!Entry, NEW d, Newest(d, w, e)
    PROVE  View(d, e.key) = Result(e) /\ \A k : k # e.key => View(d, k) = View(w, k)
<1> DEFINE n == Len(w)
<1>1. n \in Nat /\ DOMAIN w = 1..n /\ DOMAIN d = 1..(n + 1) /\ d[n + 1] = e /\ \A i \in 1..n : d[i] = w[i]
  BY DEF Newest
<1> HIDE DEF n
<1>0. Distinct(d)
  BY DEF Newest
<1>2. View(d, e.key) = Result(e)
  <2>1. n + 1 \in DOMAIN d
    BY <1>1
  <2>. QED BY <1>0, <1>1, <2>1, ViewOf
<1>3. ASSUME NEW k, k # e.key PROVE View(d, k) = View(w, k)
  <2>1. \A i \in 1..(n + 1) : i \in 1..n \/ i = n + 1
    BY <1>1
  <2>2. \A i \in 1..n : i \in 1..(n + 1)
    BY <1>1
  <2>3. Places(d, k) = Places(w, k)
    BY <1>1, <1>3, <2>1, <2>2 DEF Places
  <2>4. Places(w, k) # {} => Cache!Place(Places(w, k)) \in 1..n
    <3>1. Places(w, k) # {} => Cache!Place(Places(w, k)) \in Places(w, k)
      BY DEF Cache!Place
    <3>2. Places(w, k) \subseteq 1..n
      BY <1>1 DEF Places
    <3>. QED BY <3>1, <3>2
  <2>. QED BY <1>1, <2>3, <2>4 DEF View
<1>. QED BY <1>2, <1>3

\* The mapped state of LossyCache.
LEMMA MappedHeld ==
    /\ [k \in Keys |-> IF Cache!Held(k) = {} THEN None
                       ELSE LET e == data[Cache!Place(Cache!Held(k))]
                            IN  [payload |-> e.payload, computed |-> e.computed]]
       = [k \in Keys |-> View(data, k)]
    /\ [k \in Keys |-> IF Cache!Held(k) = {} THEN None
                       ELSE LET e == data[Cache!Place(Cache!Held(k))]
                            IN  [payload |-> e.payload, computed |-> e.computed]]'
       = [k \in Keys |-> View(data', k)]
BY DEF View, Places, Result, Cache!Held

\* A lookup answers with what is held or with nothing, and may lose entries.
LEMMA LookupMaps ==
    ASSUME NEW k \in Keys,
           \/ answer' = None
           \/ View(data, k) # None /\ now - View(data, k).computed < TtlNs /\ answer' = View(data, k).payload,
           \A j \in Keys : View(data', j) \in {View(data, j), None}, now' = now
    PROVE  Cache!Lossy!Next
<1> DEFINE held == [j \in Keys |-> View(data, j)]
           next == [j \in Keys |-> View(data', j)]
<1>1. /\ answer' = None \/ (held[k] # None /\ now - held[k].computed < TtlNs /\ answer' = held[k].payload)
      /\ \A j \in Keys : next[j] \in {held[j], None}
  OBVIOUS
<1> HIDE DEF held, next
<1>2. Cache!Lossy!Lookup(k)
  BY <1>1, MappedHeld DEF Cache!Lossy!Lookup, Cache!Lossy!Loses, held, next
<1>. QED BY <1>2 DEF Cache!Lossy!Next

\* A stored result is held at once, others may be lost.
LEMMA StoreMaps ==
    ASSUME NEW k \in Keys, NEW p \in Payloads, View(data', k) = [payload |-> p, computed |-> now],
           \A j \in Keys : j # k => View(data', j) \in {View(data, j), None}, answer' = answer, now' = now
    PROVE  Cache!Lossy!Next
<1> DEFINE held == [j \in Keys |-> View(data, j)]
           next == [j \in Keys |-> View(data', j)]
<1>1. next[k] = [payload |-> p, computed |-> now] /\ \A j \in Keys \ {k} : next[j] \in {held[j], None}
  OBVIOUS
<1> HIDE DEF held, next
<1>2. Cache!Lossy!Store(k, p)
  BY <1>1, MappedHeld DEF Cache!Lossy!Store, Cache!Lossy!Loses, held, next
<1>. QED BY <1>2 DEF Cache!Lossy!Next

\* The variables of LossyCache stay.
LEMMA StutterMaps ==
    ASSUME data' = data, answer' = answer, now' = now
    PROVE  [Cache!Lossy!Next]_Cache!Lossy!vars
BY DEF Cache!Lossy!vars, Cache!Held

\* Every step is one of LossyCache or leaves its variables as they are.
LEMMA CacheMaps ==
    ASSUME Cache!CacheAssumption, CacheInv, [Cache!Next]_Cache!vars
    PROVE  [Cache!Lossy!Next]_Cache!Lossy!vars
<1>0. data \in Seq(Cache!Entry) /\ Distinct(data) /\ now \in Nat
  BY OrderDistinct DEF CacheInv, Cache!TypeOK
<1>1. ASSUME NEW k \in Keys \cup {NoKey}, Cache!GetMiss(k) PROVE [Cache!Lossy!Next]_Cache!Lossy!vars
  <2>1. answer' = None /\ data' = data /\ now' = now
    BY <1>1 DEF Cache!GetMiss
  <2>2. CASE Keys = {}
    BY <2>1, <2>2, StutterMaps DEF CacheInv
  <2>3. ASSUME NEW j \in Keys PROVE Cache!Lossy!Next
    BY <2>1, LookupMaps
  <2>. QED BY <2>2, <2>3
<1>2. ASSUME NEW k \in Keys \cup {NoKey}, Cache!GetExpired(k) PROVE Cache!Lossy!Next
  <2>1. PICK i \in Cache!Held(k) : Keeps(data', data, {i})
    BY <1>2, ExpiredLeaves
  <2>2. k \in Keys /\ data' \in Seq(Cache!Entry) /\ answer' = None /\ now' = now
    <3>1. data[i] \in Cache!Entry /\ data[i].key = k
      BY HeldOnce
    <3>2. CacheInv'
      BY <1>2, ExpiredLeaves
    <3>. QED BY <1>2, <3>1, <3>2 DEF Cache!Entry, Cache!GetExpired, CacheInv, Cache!TypeOK
  <2>3. \A j : View(data', j) \in {View(data, j), None}
    BY <1>0, <2>1, <2>2, ViewLost
  <2>. QED BY <2>2, <2>3, LookupMaps
<1>3. ASSUME NEW k \in Keys \cup {NoKey}, Cache!GetHit(k) PROVE Cache!Lossy!Next
  <2>1. PICK i \in Cache!Held(k) : /\ ~Cache!Expired(data[i]) /\ answer' = data[i].payload /\ now' = now
    BY <1>3 DEF Cache!GetHit
  <2>2. data[i] \in Cache!Entry /\ data[i].key = k /\ i \in DOMAIN data /\ k \in Keys
    BY HeldOnce DEF Cache!Entry
  <2>3. View(data, k) = Result(data[i])
    BY <1>0, <2>2, ViewOf
  <2>4. View(data, k) # None /\ now - View(data, k).computed < TtlNs /\ answer' = View(data, k).payload
    <3> DEFINE e == data[i]
    <3>1. e.payload \in Payloads /\ e.computed \in Nat
      BY <2>2 DEF Cache!Entry
    <3>2. ~(now - e.computed >= TtlNs) /\ answer' = e.payload
      BY <2>1 DEF Cache!Expired
    <3>3. TtlNs \in Nat /\ None \notin [payload : Payloads, computed : Nat]
      BY DEF Cache!CacheAssumption
    <3> HIDE DEF e
    <3>4. View(data, k) = Result(e)
      BY <2>3 DEF e
    <3>5. /\ Result(e) \in [payload : Payloads, computed : Nat]
          /\ Result(e).payload = e.payload /\ Result(e).computed = e.computed
      BY <3>1 DEF Result
    <3>6. now - e.computed < TtlNs
      BY <1>0, <3>1, <3>2, <3>3
    <3>. QED BY <3>2, <3>3, <3>4, <3>5, <3>6
  <2>5. /\ CacheInv'
        /\ \E j \in Cache!Held(k) : \E w \in Seq(Cache!Entry) : Keeps(w, data, {j}) /\ data' = Append(w, data[j])
    BY <1>3, HitMoves
  <2>6. PICK w \in Seq(Cache!Entry) : Keeps(w, data, {i}) /\ data' = Append(w, data[i])
    BY <2>5, HeldOnce
  <2>7. Distinct(w) /\ \A j : View(w, j) \in {View(data, j), None}
    BY <1>0, <2>6, ViewLost
  <2>8. Distinct(data')
    BY <2>5, OrderDistinct DEF CacheInv, Cache!TypeOK
  <2>9. View(data', k) = Result(data[i]) /\ \A j : j # k => View(data', j) = View(w, j)
    <3> DEFINE e == data[i]
    <3>0. PICK d : d = data'
      OBVIOUS
    <3>1. w \in Seq(Cache!Entry) /\ e \in Cache!Entry /\ Newest(d, w, e) /\ e.key = k
      BY <2>2, <2>6, <2>8, <3>0 DEF Newest
    <3> HIDE DEF e
    <3>2. View(d, e.key) = Result(e) /\ \A j : j # e.key => View(d, j) = View(w, j)
      BY ONLY <3>1, ViewLast
    <3>. QED BY <3>0, <3>1, <3>2 DEF e
  <2>10. \A j : View(data', j) \in {View(data, j), None}
    BY <2>3, <2>7, <2>9
  <2>. QED BY <2>1, <2>2, <2>4, <2>10, LookupMaps
<1>4. ASSUME NEW k \in Keys \cup {NoKey}, NEW p \in Payloads, Cache!PutIgnored(k, p) 
      PROVE  [Cache!Lossy!Next]_Cache!Lossy!vars
  BY <1>4, StutterMaps DEF Cache!PutIgnored, Cache!vars
<1>5. ASSUME NEW k \in Keys \cup {NoKey}, NEW p \in Payloads, Cache!PutStored(k, p) PROVE Cache!Lossy!Next
  <2> DEFINE e == [key |-> k, payload |-> p, computed |-> now, size |-> Size[p]]
  <2>1. /\ CacheInv' /\ k \in Keys
        /\ \E r, w \in Seq(Cache!Entry) : \E at :
              Keeps(r, data, Cache!Held(k)) /\ Keeps(w, r, at) /\ data' = Append(w, e)
    BY <1>5, PutStores
  <2>2. e \in Cache!Entry /\ e.key = k /\ Result(e) = [payload |-> p, computed |-> now]
    BY <1>0, <2>1 DEF Cache!Entry, Result, Cache!CacheAssumption
  <2>3. answer' = answer /\ now' = now
    BY <1>5 DEF Cache!PutStored
  <2> HIDE DEF e
  <2>4. PICK r \in Seq(Cache!Entry), w \in Seq(Cache!Entry) :
            Keeps(r, data, Cache!Held(k)) /\ (\E at : Keeps(w, r, at)) /\ data' = Append(w, e)
    BY <2>1
  <2>5. Distinct(r) /\ \A j : View(r, j) \in {View(data, j), None}
    BY <1>0, <2>4, ViewLost
  <2>6. Distinct(w) /\ \A j : View(w, j) \in {View(r, j), None}
    BY <2>4, <2>5, ViewLost
  <2>7. Distinct(data')
    BY <2>1, OrderDistinct DEF CacheInv, Cache!TypeOK
  <2>8. View(data', k) = Result(e) /\ \A j : j # k => View(data', j) = View(w, j)
    <3>0. PICK d : d = data'
      OBVIOUS
    <3>1. w \in Seq(Cache!Entry) /\ e \in Cache!Entry /\ Newest(d, w, e) /\ e.key = k
      BY <2>2, <2>4, <2>7, <3>0 DEF Newest
    <3>2. View(d, e.key) = Result(e) /\ \A j : j # e.key => View(d, j) = View(w, j)
      BY ONLY <3>1, ViewLast
    <3>. QED BY <3>0, <3>1, <3>2
  <2>9. \A j \in Keys : j # k => View(data', j) \in {View(data, j), None}
    BY <2>5, <2>6, <2>8
  <2>. QED BY <2>1, <2>2, <2>3, <2>8, <2>9, StoreMaps
<1>6. CASE Cache!AdvanceClock
  <2>1. data' = data /\ answer' = answer /\ now' > now
    BY <1>0, <1>6 DEF Cache!AdvanceClock
  <2>. QED BY <2>1 DEF Cache!Lossy!Next, Cache!Held
<1>7. CASE UNCHANGED Cache!vars
  BY <1>7, StutterMaps DEF Cache!vars
<1>. QED BY <1>1, <1>2, <1>3, <1>4, <1>5, <1>6, <1>7 DEF Cache!Next, Cache!Get, Cache!Put

\* An empty cache holds nothing.
LEMMA CacheStartMaps == Cache!Init => Cache!Lossy!Init
<1> SUFFICES ASSUME Cache!Init PROVE Cache!Lossy!Init
  OBVIOUS
<1>1. \A k \in Keys : Cache!Held(k) = {}
  BY DEF Cache!Init, Cache!Held
<1>. QED BY <1>1 DEF Cache!Init, Cache!Lossy!Init

\* HistoricalCache implements LossyCache: a lookup answers with nothing or with what was last
\* stored under that key, younger than the age limit; what the coordinator relies on.
THEOREM CacheIsLossy == Spec => IsLossyCache
<1>1. Cache!Init => CacheInv
  BY InferenceAssumption, CacheStart
<1>2. CacheInv /\ [Cache!Next]_Cache!vars => CacheInv'
  BY InferenceAssumption, CacheStep
<1>3. CacheInv /\ [Cache!Next]_Cache!vars => [Cache!Lossy!Next]_Cache!Lossy!vars
  BY InferenceAssumption, CacheMaps
<1>. QED BY <1>1, <1>2, <1>3, CacheStartMaps, PartsRun, PTL
          DEF Cache!Spec, IsLossyCache, Cache!IsLossyCache, Cache!Lossy!Spec
=============================================================================
