------------------------------- MODULE Replay -------------------------------
(***************************************************************************)
(* The discrete-event scheduler replay of replay.py.  One Round is one     *)
(* turn of its loop at virtual time `now': completions, arrivals, expiry,  *)
(* dispatch by rank, and the jump to the next time at which something      *)
(* happens.  Requests are numbered; the number is the last tie-break.      *)
(***************************************************************************)
EXTENDS Integers, FiniteSets, FiniteSetsExt, SequencesExt

CONSTANTS
    Traces,    \* candidate traces, filtered by the contract's validators
    SlotCounts \* values of Trace.slots

Request == [release : Nat, capture : Nat, deadline : Nat, profile : Nat, service : Nat,
            priority : 0..3, age : Nat]

ReplayAssumption ==
    /\ Traces \subseteq Seq(Request)
    /\ SlotCounts \subseteq Nat \ {0}

Modes == {"fifo", "edf", "slack"}

\* ReplayRequest.ordered.
Ordered(r) == r.capture <= r.release /\ r.deadline > r.release /\ r.service > 0

\* synthetic_trace: one arrival, in milliseconds.
Workload(workload) ==
    CASE workload = "policy"   -> [service |-> 32, deadline |-> 100, priority |-> 0]
      [] workload = "semantic" -> [service |-> 85, deadline |-> 600, priority |-> 1]
      [] workload = "mapping"  -> [service |-> 145, deadline |-> 1400, priority |-> 3]
Synthetic(workload, start, jitter, slow) ==
    LET w == Workload(workload)
    IN  [release |-> start, capture |-> Max({0, start - 5}), deadline |-> start + w.deadline,
         profile |-> w.service + 10, service |-> w.service * (IF slow THEN 3 ELSE 1) + jitter,
         priority |-> w.priority, age |-> w.deadline]

VARIABLES
    trace, slots, mode,    \* the arguments of replay
    now,
    queue,      \* released, not started, not expired
    active,     \* running
    row,        \* rows: state, started_ns and completed_ns of a released request
    over        \* the loop has ended

vars == <<trace, slots, mode, now, queue, active, row, over>>

None == -1
Unseen == [state |-> "unreleased", started |-> None, completed |-> None]
Ids == DOMAIN trace
LatestNs(i) == Min({trace[i].deadline, trace[i].capture + trace[i].age})
Finish(i) == row[i].started + trace[i].service

TypeOK ==
    /\ trace \in Traces /\ slots \in SlotCounts /\ mode \in Modes /\ now \in Nat /\ over \in BOOLEAN
    /\ queue \subseteq Ids /\ active \subseteq Ids
    /\ row \in [Ids -> [state : {"unreleased", "queued", "running", "completed_in_time",
                                 "completed_late", "expired_before_dispatch"},
                        started : Nat \cup {None}, completed : Nat \cup {None}]]

Init ==
    /\ trace \in {t \in Traces : \A i \in DOMAIN t : Ordered(t[i])}
    /\ slots \in SlotCounts /\ mode \in Modes
    /\ now = 0 /\ queue = {} /\ active = {} /\ over = FALSE
    /\ row = [i \in Ids |-> Unseen]

-----------------------------------------------------------------------------

Ended(i) == Finish(i) <= now

Released == {i \in Ids : row[i].state = "unreleased" /\ trace[i].release <= now}
Unreleased == {i \in Ids : row[i].state = "unreleased" /\ trace[i].release > now}

\* rank: smaller first.
RankKey(i) ==
    CASE mode = "fifo"  -> <<trace[i].release, i>>
      [] mode = "edf"   -> <<LatestNs(i), trace[i].release, i>>
      [] mode = "slack" -> <<LatestNs(i) - now - trace[i].profile, trace[i].priority, trace[i].release, i>>

Before(i, j) ==
    LET a == RankKey(i)  b == RankKey(j)
    IN  \E k \in DOMAIN a : a[k] < b[k] /\ \A m \in 1..(k - 1) : a[m] = b[m]

\* The estimate decides who may start; the true service time is not looked at.
Eligible(waiting) == {i \in waiting : now + trace[i].profile < LatestNs(i)}

\* Mutant: as many start as there are slots, whatever is running.
Started_AllSlots(eligible, free) ==
    {i \in eligible : Cardinality({j \in eligible : Before(j, i)}) < slots}

\* Mutant: one slot is kept free.
Started_OneSpare(eligible, free) ==
    {i \in eligible : Cardinality({j \in eligible : Before(j, i)}) < free - 1}

\* The first `free' of the eligible requests by rank.
Started(eligible, free) ==
    {i \in eligible : Cardinality({j \in eligible : Before(j, i)}) < free}

EventTimes(running, waiting, rows) ==
    {t \in {trace[i].release : i \in Unreleased}
             \cup {rows[i].started + trace[i].service : i \in running}
             \cup {LatestNs(i) : i \in waiting} : t > now}

Round ==
    LET ended   == {i \in active : Ended(i)}
        waiting == queue \cup Released
        expired == {i \in waiting : now >= LatestNs(i)}
        chosen  == Started(Eligible(waiting \ expired), slots - Cardinality(active \ ended))
        rows    == [i \in Ids |->
                      CASE i \in ended -> [row[i] EXCEPT !.completed = Finish(i),
                                             !.state = IF Finish(i) < LatestNs(i) THEN "completed_in_time"
                                                       ELSE "completed_late"]
                        [] i \in expired -> [row[i] EXCEPT !.state = "expired_before_dispatch"]
                        [] i \in chosen  -> [row[i] EXCEPT !.state = "running", !.started = now]
                        [] i \in Released \ (expired \cup chosen) -> [row[i] EXCEPT !.state = "queued"]
                        [] OTHER -> row[i]]
        running == (active \ ended) \cup chosen
        rest    == waiting \ (expired \cup chosen)
        times   == EventTimes(running, rest, rows)
    IN  /\ ~over
        /\ Unreleased \cup Released \cup queue \cup active # {}
        /\ row' = rows /\ active' = running /\ queue' = rest
        /\ now' = IF times = {} THEN now ELSE Min(times)
        /\ over' = (times = {})
        /\ UNCHANGED <<trace, slots, mode>>

\* The loop condition fails: nothing is left.
LoopEnds ==
    /\ ~over
    /\ Unreleased \cup Released \cup queue \cup active = {}
    /\ over' = TRUE
    /\ UNCHANGED <<trace, slots, mode, now, queue, active, row>>

Next == Round \/ LoopEnds
Spec == Init /\ [][Next]_vars

-----------------------------------------------------------------------------
\* Properties.

Busy(t) == {i \in Ids : row[i].started # None /\ row[i].started <= t /\ t < Finish(i)}

\* Only virtual time and the trace decide: nothing starts before its release or when
\* its estimate no longer fits, a completion comes exactly one service time after its
\* start and never before it is due, and no instant has more running than slots.
CausalWithinSlots ==
    /\ \A i \in Ids : /\ row[i].started # None => /\ row[i].started >= trace[i].release
                                                  /\ row[i].started + trace[i].profile < LatestNs(i)
                      /\ row[i].completed # None => row[i].completed = Finish(i) /\ Finish(i) <= now
    /\ \A i \in Ids : row[i].started # None => Cardinality(Busy(row[i].started)) <= slots

\* "All offered work retained, including expired requests": when the loop ends every
\* request of the trace has one of the three final states, and one that expired although
\* its estimate fitted when it was released found every slot taken at that moment.
AllAccounted ==
    /\ over => \A i \in Ids : row[i].state \in {"completed_in_time", "completed_late", "expired_before_dispatch"}
    /\ \A i \in Ids :
          /\ row[i].state = "expired_before_dispatch"
          /\ trace[i].release + trace[i].profile < LatestNs(i)
          => Cardinality(Busy(trace[i].release)) = slots
=============================================================================
