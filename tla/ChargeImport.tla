---------------------------- MODULE ChargeImport ----------------------------
(***************************************************************************)
(* The offline charge importer: tools/reconcile_charges.py over            *)
(* reconciliation.py and Store.reconcile_many.  Each importer reads the    *)
(* campaign's caps, opens the ledger under its file lock, reads the        *)
(* provider export, checks every record, and in apply mode settles the     *)
(* batch in one transaction.  Importers race each other and the            *)
(* coordinator, and any of them may be killed at any step.                 *)
(***************************************************************************)
EXTENDS Integers, FiniteSets, FiniteSetsExt, Sequences, SequencesExt

CONSTANTS
    Importers, Coordinator,   \* processes that open the ledger
    Attempts,                 \* jobs with a row in attempts
    Exports,                  \* provider exports an importer may be given
    MaxBytes, MaxRecords,     \* MAX_IMPORT_BYTES, MAX_RECORDS
    MaxCap,                   \* bound of budget extensions
    None, Free                \* an unsettled charge; an unlocked ledger

\* One record of an export; whether its evidence reference is in order.
Record == [job : Nat, charge : Int, evidence : BOOLEAN]
Export == [shape : {"array", "object", "jsonl"}, bytes : Nat, rows : Seq(Record)]

ImportAssumption ==
    /\ Attempts \subseteq Nat /\ Exports \subseteq Export /\ Coordinator \notin Importers
    /\ MaxBytes \in Nat /\ MaxRecords \in Nat /\ MaxCap \in Nat
    /\ None \notin Nat /\ Free \notin Importers \cup {Coordinator}

VARIABLES
    lock,        \* holder of the ledger's file lock
    cap,         \* max_microusd in meta
    actual,      \* committed charge of each attempt
    txn,         \* charges written by the open transaction of the lock's holder
    pc,          \* importer: "idle", "read", "open", "apply", "commit" or "over"
    file, apply, \* what the importer was called with
    caps,        \* the caps an importer read before it took the lock
    outcome      \* "none", "refused", "previewed" or "applied"

vars == <<lock, cap, actual, txn, pc, file, apply, caps, outcome>>

Empty == [a \in Attempts |-> None]

TypeOK ==
    /\ lock \in Importers \cup {Coordinator, Free} /\ cap \in Nat
    /\ actual \in [Attempts -> Nat \cup {None}] /\ txn \in [Attempts -> Nat \cup {None}]
    /\ pc \in [Importers -> {"idle", "read", "open", "apply", "commit", "over"}]
    /\ file \in [Importers -> Exports] /\ apply \in [Importers -> BOOLEAN]
    /\ caps \in [Importers -> Nat]
    /\ outcome \in [Importers -> {"none", "refused", "previewed", "applied"}]

Init ==
    /\ lock = Free /\ cap = 0 /\ actual = Empty /\ txn = Empty
    /\ pc = [i \in Importers |-> "idle"] /\ caps = [i \in Importers |-> 0]
    /\ file \in [Importers -> Exports] /\ apply \in [Importers -> BOOLEAN]
    /\ outcome = [i \in Importers |-> "none"]

-----------------------------------------------------------------------------
\* load_records.

\* _record: exactly the three keys, a nonnegative charge, an evidence reference.
ValidRecord(r) == r.charge >= 0 /\ r.evidence

\* An export that starts with a brace is taken for one JSON object, and for JSONL only
\* when there is more text after that object.
Parses(e) ==
    CASE e.shape = "array" -> TRUE
      [] e.shape = "object" -> TRUE
      [] e.shape = "jsonl" -> Len(e.rows) # 1

Loads(e) ==
    /\ e.bytes <= MaxBytes /\ Parses(e)
    /\ \A k \in DOMAIN e.rows : ValidRecord(e.rows[k])
    /\ Len(e.rows) \in 1..MaxRecords
    /\ \A j, k \in DOMAIN e.rows : e.rows[j].job = e.rows[k].job => j = k

Named(e) == {e.rows[k].job : k \in DOMAIN e.rows}

\* preflight, and the checks reconcile_many makes before its transaction.
Preflight(e) == \A j \in Named(e) : j \in Attempts /\ actual[j] = None

-----------------------------------------------------------------------------
\* One importer.

Refused(i) ==
    /\ pc' = [pc EXCEPT ![i] = "over"] /\ outcome' = [outcome EXCEPT ![i] = "refused"]

\* open_existing: the caps are read before the lock is taken.
ReadCaps(i) ==
    /\ pc[i] = "idle"
    /\ pc' = [pc EXCEPT ![i] = "read"] /\ caps' = [caps EXCEPT ![i] = cap]
    /\ UNCHANGED <<lock, cap, actual, txn, file, apply, outcome>>

\* Store.__init__: the lock, then the caps must be the ones the caller gives.
OpenLedger(i) ==
    /\ pc[i] = "read" /\ lock = Free /\ caps[i] = cap
    /\ lock' = i /\ pc' = [pc EXCEPT ![i] = "open"]
    /\ UNCHANGED <<cap, actual, txn, file, apply, caps, outcome>>

OpenRefused(i) ==
    /\ pc[i] = "read" /\ (lock # Free \/ caps[i] # cap)
    /\ Refused(i)
    /\ UNCHANGED <<lock, cap, actual, txn, file, apply, caps>>

ImportRefused(i) ==
    /\ pc[i] = "open" /\ ~(Loads(file[i]) /\ Preflight(file[i]))
    /\ Refused(i) /\ lock' = Free
    /\ UNCHANGED <<cap, actual, txn, file, apply, caps>>

DryRun(i) ==
    /\ pc[i] = "open" /\ Loads(file[i]) /\ Preflight(file[i]) /\ ~apply[i]
    /\ pc' = [pc EXCEPT ![i] = "over"] /\ outcome' = [outcome EXCEPT ![i] = "previewed"]
    /\ lock' = Free
    /\ UNCHANGED <<cap, actual, txn, file, apply, caps>>

BeginApply(i) ==
    /\ pc[i] = "open" /\ Loads(file[i]) /\ Preflight(file[i]) /\ apply[i]
    /\ pc' = [pc EXCEPT ![i] = "apply"]
    /\ UNCHANGED <<lock, cap, actual, txn, file, apply, caps, outcome>>

\* Mutant: each settlement commits by itself.
UpdateRow_Autocommit(i, k) ==
    /\ pc[i] = "apply" /\ k \in DOMAIN file[i].rows
    /\ LET r == file[i].rows[k]
       IN  actual[r.job] = None /\ actual' = [actual EXCEPT ![r.job] = r.charge]
    /\ IF k = Len(file[i].rows) THEN pc' = [pc EXCEPT ![i] = "commit"] ELSE UNCHANGED pc
    /\ UNCHANGED <<lock, cap, txn, file, apply, caps, outcome>>

\* One UPDATE of the transaction, in the order of the export.
UpdateRow(i, k) ==
    /\ pc[i] = "apply" /\ k \in DOMAIN file[i].rows
    /\ \A j \in 1..(k - 1) : txn[file[i].rows[j].job] # None
    /\ LET r == file[i].rows[k]
       IN  txn[r.job] = None /\ txn' = [txn EXCEPT ![r.job] = r.charge]
    /\ IF k = Len(file[i].rows) THEN pc' = [pc EXCEPT ![i] = "commit"] ELSE UNCHANGED pc
    /\ UNCHANGED <<lock, cap, actual, file, apply, caps, outcome>>

Commit(i) ==
    /\ pc[i] = "commit"
    /\ actual' = [a \in Attempts |-> IF txn[a] # None THEN txn[a] ELSE actual[a]]
    /\ txn' = Empty /\ lock' = Free
    /\ pc' = [pc EXCEPT ![i] = "over"] /\ outcome' = [outcome EXCEPT ![i] = "applied"]
    /\ UNCHANGED <<cap, file, apply, caps>>

\* The process is killed: the lock goes with it and the transaction is rolled back.
\* The operator may call the tool again.
Killed(i) ==
    /\ pc[i] \notin {"idle", "over"}
    /\ pc' = [pc EXCEPT ![i] = "idle"]
    /\ IF lock = i THEN lock' = Free /\ txn' = Empty ELSE UNCHANGED <<lock, txn>>
    /\ UNCHANGED <<cap, actual, file, apply, caps, outcome>>

-----------------------------------------------------------------------------
\* The coordinator holds the lock while it runs, settles attempts and extends the caps.

CoordinatorStep ==
    \/ lock = Free /\ lock' = Coordinator /\ UNCHANGED <<cap, actual>>
    \/ lock = Coordinator /\ lock' = Free /\ UNCHANGED <<cap, actual>>
    \/ lock = Coordinator /\ cap < MaxCap /\ cap' = cap + 1 /\ UNCHANGED <<lock, actual>>
    \/ /\ lock = Coordinator /\ UNCHANGED <<lock, cap>>
       /\ \E a \in Attempts : actual[a] = None /\ actual' = [actual EXCEPT ![a] = 0]
CoordinatorActs == CoordinatorStep /\ UNCHANGED <<txn, pc, file, apply, caps, outcome>>

Next ==
    \/ CoordinatorActs
    \/ \E i \in Importers :
           \/ ReadCaps(i) \/ OpenLedger(i) \/ OpenRefused(i) \/ ImportRefused(i) \/ DryRun(i) \/ BeginApply(i)
           \/ Commit(i) \/ Killed(i)
           \/ \E k \in DOMAIN file[i].rows : UpdateRow(i, k)

Spec == Init /\ [][Next]_vars

-----------------------------------------------------------------------------
\* Properties.

\* "Applies a valid batch atomically", "never reset holds": whatever races it or kills it,
\* an importer that holds the ledger takes no budget extension back, though it read the
\* caps before the lock, and changes no charge or, in apply mode, exactly those its export
\* names, each from unsettled to the charge of its one record.
ImportsOnlyItsBatch ==
    [][/\ cap' >= cap
       /\ lock \in Importers /\ actual' # actual =>
             LET e == file[lock]
             IN  /\ apply[lock]
                 /\ \A k \in DOMAIN e.rows : actual'[e.rows[k].job] = e.rows[k].charge
                 /\ \A a \in Attempts : actual'[a] # actual[a] => a \in Named(e) /\ actual[a] = None]_vars
=============================================================================
