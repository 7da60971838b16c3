----------------------------- MODULE HostProofs -----------------------------
(***************************************************************************)
(* Theorems about the host's side of the runtime: the delivery of a        *)
(* result, the StreamBudget bridge and the loopback sidecar.               *)
(***************************************************************************)
EXTENDS Hosts, SumProofs, TLAPS

\* The parts share no state: a behaviour of the whole is one of each part.
LEMMA PartsRun == Spec => Server!Spec /\ Deliver!Spec /\ Replayer!Spec
<1>1. Init => Server!Init /\ Deliver!Init /\ Replayer!Init
  BY DEF Init
<1>2. [Next]_vars => [Server!Next]_Server!vars
  BY DEF Next, vars, sidecar, Server!vars, Server!connVars
<1>3. [Next]_vars => [Deliver!Next]_Deliver!vars
  BY DEF Next, vars, delivery, Deliver!vars
<1>4. [Next]_vars => [Replayer!Next]_Replayer!vars
  BY DEF Next, vars, bridge, Replayer!vars
<1>. QED BY <1>1, <1>2, <1>3, <1>4, PTL DEF Spec, Server!Spec, Deliver!Spec, Replayer!Spec

-----------------------------------------------------------------------------
(* Delivery.                                                               *)

\* The clocks keep the map's promise; an accepted delivery was within its deadline and age
\* bound then and carries their local form; whoever was answered is the owner.
DeliveryInv ==
    /\ Deliver!TypeOK
    /\ Deliver!Synchronised(now, local)
    /\ Deliver!FreshOnDelivery
    /\ \A c \in accepted : c.until = Deliver!LatestLocal(c.job)
    /\ \A c \in accepted \cup replies \cup reported : owner[c.job] = c.consumer

\* A local instant before the mapped one is, while the map is valid, before the real one.
LEMMA MapIsConservative ==
    ASSUME Deliver!DeliveryAssumption, Deliver!TypeOK, Deliver!Synchronised(now, local),
           NEW j \in Jobs, local <= MapValidUntil, local < Deliver!LatestLocal(j)
    PROVE  now < Deliver!FreshUntil(j)
<1>1. /\ Body[j].deadline \in Nat /\ Body[j].capture \in Nat /\ Body[j].age \in Nat
      /\ Body[j].uncertainty \in Nat /\ Body[j].current \in BOOLEAN /\ Body[j].policy \in BOOLEAN
  BY DEF Deliver!DeliveryAssumption, Deliver!JobBody
<1>2. /\ now \in Nat /\ local \in Nat /\ Offset \in Int /\ MapError \in Nat
      /\ local >= now + Offset - MapError /\ Useful \in Int
  BY DEF Deliver!DeliveryAssumption, Deliver!TypeOK, Deliver!Synchronised, Deliver!NoUseful
<1>. QED
  BY <1>1, <1>2 DEF Deliver!LatestLocal, Deliver!FreshUntil, Deliver!Lesser

\* Every step keeps the invariant.
LEMMA DeliveryStep ==
    ASSUME Deliver!DeliveryAssumption, DeliveryInv, [Deliver!Next]_Deliver!vars
    PROVE  DeliveryInv'
<1> USE DEF DeliveryInv, Deliver!FreshOnDelivery, Deliver!LatestLocal, Deliver!FreshUntil
<1>1. ASSUME NEW m \in Deliver!Message, Deliver!Ask(m) \/ Deliver!ServerRefuse(m) \/ Deliver!RefuseDelivery(m)
      PROVE  DeliveryInv'
  BY <1>1 DEF Deliver!Ask, Deliver!ServerRefuse, Deliver!RefuseDelivery, Deliver!TypeOK
<1>2. ASSUME NEW m \in Deliver!Message, Deliver!ServerConsume(m) PROVE DeliveryInv'
  <2>1. Deliver!TypeOK'
    BY <1>2 DEF Deliver!ServerConsume, Deliver!TypeOK, Deliver!Message
  <2>2. ASSUME NEW c \in (accepted \cup replies \cup reported)' PROVE owner'[c.job] = c.consumer
    <3>1. c = m \/ owner[c.job] = c.consumer
      BY <1>2, <2>2 DEF Deliver!ServerConsume
    <3>2. m.job \in Jobs /\ c.job \in Jobs /\ c.consumer \in Consumers
      BY <2>1 DEF Deliver!TypeOK, Deliver!Message, Deliver!Check
    <3>. QED
      BY <1>2, <3>1, <3>2 DEF Deliver!ServerConsume, Deliver!TypeOK, Deliver!DeliveryAssumption
  <2>. QED BY <1>2, <2>1, <2>2 DEF Deliver!ServerConsume
<1>3. ASSUME NEW m \in Deliver!Message, Deliver!RecordOutcome(m) PROVE DeliveryInv'
  BY <1>3 DEF Deliver!RecordOutcome, Deliver!TypeOK
<1>4. ASSUME NEW m \in Deliver!Message, Deliver!ValidateDelivery(m) PROVE DeliveryInv'
  <2> DEFINE c == [job |-> m.job, consumer |-> m.consumer, until |-> Deliver!LatestLocal(m.job),
                   at |-> now, epoch |-> localEpoch]
  <2>1. m.job \in Jobs /\ m.consumer \in Consumers /\ Deliver!LatestLocal(m.job) \in Int
        /\ now \in Nat /\ localEpoch \in Nat /\ local \in Nat
    BY DEF Deliver!Message, Deliver!DeliveryAssumption, Deliver!JobBody, Deliver!Lesser,
       Deliver!NoUseful, Deliver!TypeOK
  <2>2. local < Deliver!LatestLocal(m.job) /\ local <= MapValidUntil
        /\ Body[m.job].epoch = localEpoch
    <3> HIDE DEF Deliver!LatestLocal
    <3>. QED BY <1>4, <2>1 DEF Deliver!ValidateDelivery, Deliver!DeliveryRefused, Deliver!Mappable
  <2>12. Body[m.job].policy => Deliver!LatestLocal(m.job) <= Useful
    BY <2>1 DEF Deliver!Lesser, Deliver!DeliveryAssumption, Deliver!JobBody, Deliver!NoUseful
  <2> HIDE DEF Deliver!LatestLocal, Deliver!FreshUntil
  <2>3. now < Deliver!FreshUntil(m.job)
    BY <2>1, <2>2, MapIsConservative
  <2>4. c \in Deliver!Check
    BY <2>1 DEF Deliver!Check
  <2>5. accepted' = accepted \cup {c} /\ m \in replies
    BY <1>4 DEF Deliver!ValidateDelivery
  <2>6. Deliver!TypeOK'
    BY <1>4, <2>4, <2>5 DEF Deliver!ValidateDelivery, Deliver!TypeOK
  <2>7. owner[c.job] = c.consumer
    BY <2>5
  <2>8. UNCHANGED <<now, local, owner, reported>> /\ replies' \subseteq replies
    BY <1>4 DEF Deliver!ValidateDelivery
  <2>9. Deliver!FreshOnDelivery'
    BY <2>2, <2>3, <2>5, <2>12 DEF Deliver!FreshUntil
  <2>10. \A d \in accepted' : d.until = Deliver!LatestLocal(d.job)
    BY <2>5
  <2>11. Deliver!Synchronised(now, local)' /\ \A d \in (accepted \cup replies \cup reported)' : owner'[d.job] = d.consumer
    BY <2>5, <2>7, <2>8 DEF Deliver!Synchronised
  <2>. QED BY <2>6, <2>9, <2>10, <2>11 DEF Deliver!LatestLocal
<1>5. CASE Deliver!AdvanceSession \/ Deliver!Reset \/ Deliver!Heartbeat
  <2>1. buffer' \in Nat \cup {Deliver!NoBuffer}
    BY <1>5 DEF Deliver!AdvanceSession, Deliver!Reset, Deliver!Heartbeat, Deliver!TypeOK, Deliver!DeliveryAssumption
  <2>. QED BY <1>5, <2>1 DEF Deliver!AdvanceSession, Deliver!Reset, Deliver!Heartbeat, Deliver!TypeOK
<1>6. ASSUME NEW s \in 0..1, NEW l \in 0..1, Deliver!AdvanceClocks(s, l) PROVE DeliveryInv'
  BY <1>6 DEF Deliver!AdvanceClocks, Deliver!TypeOK
<1>7. CASE UNCHANGED Deliver!vars
  BY <1>7 DEF Deliver!vars, Deliver!TypeOK
<1>. QED BY <1>1, <1>2, <1>3, <1>4, <1>5, <1>6, <1>7 DEF Deliver!Next

\* The invariant holds of every behaviour.
LEMMA DeliveryInvariant ==
    ASSUME Deliver!DeliveryAssumption PROVE Deliver!Spec => []DeliveryInv
<1>1. Deliver!Init => DeliveryInv
  BY DEF Deliver!DeliveryAssumption, Deliver!Init, DeliveryInv, Deliver!TypeOK, Deliver!FreshOnDelivery
<1>. QED BY <1>1, DeliveryStep, PTL DEF Deliver!Spec

\* However far the clocks are apart within the map's error, and however long a reply was
\* under way, an accepted delivery was within its job's deadline and age bound on the server's
\* own clock and in its epoch, and a policy delivery is bounded by its consumer.
THEOREM DeliveriesFresh == Spec => []FreshOnDelivery
<1>1. DeliveryInv => FreshOnDelivery
  BY DEF DeliveryInv, FreshOnDelivery
<1>2. Deliver!Spec => []DeliveryInv
  BY HostsAssumption, DeliveryInvariant
<1>. QED BY <1>1, <1>2, PartsRun, PTL

\* valid_until_local_ns keeps its word while the map is valid: before it, the job's deadline
\* and the age bound of its evidence are not reached on the server's clock.
THEOREM ValidUntilHolds == Spec => []ValidUntilKept
<1>1. DeliveryInv => ValidUntilKept
  <2> SUFFICES ASSUME DeliveryInv, NEW c \in accepted, local < c.until, local <= MapValidUntil
               PROVE  now < Deliver!FreshUntil(c.job)
    BY DEF ValidUntilKept, Deliver!ValidUntilKept
  <2>1. c.job \in Jobs
    BY DEF DeliveryInv, Deliver!TypeOK, Deliver!Check
  <2>. QED BY <2>1, MapIsConservative, HostsAssumption DEF DeliveryInv
<1>2. Deliver!Spec => []DeliveryInv
  BY HostsAssumption, DeliveryInvariant
<1>. QED BY <1>1, <1>2, PartsRun, PTL

\* Whatever is lost and repeated, one consumer acts on a result and reports on it.
THEOREM ClaimantUnique == Spec => []OneClaimant
<1>1. DeliveryInv => OneClaimant
  BY DEF DeliveryInv, OneClaimant, Deliver!OneClaimant
<1>2. Deliver!Spec => []DeliveryInv
  BY HostsAssumption, DeliveryInvariant
<1>. QED BY <1>1, <1>2, PartsRun, PTL

-----------------------------------------------------------------------------
(* Bridge: the calls of the parent.                                        *)

CallRow == [frames : SUBSET Int, owner : {"job", "ask"}, since : Nat, start : Nat, phase : {"wait", "over", "lost"}]
ResultRow == [call : Nat, state : {"consumed", "failed"},
              phase : {"none", "prepare", "submit", "wait", "consume", "decode"}]

\* The kinds of the variables that TypeOK leaves open.
BridgeTypes ==
    /\ Replayer!TypeOK
    /\ calls \in Seq(CallRow) /\ rows \in Seq(ResultRow) /\ seen \subseteq Int

\* A call that is over has its row, and a row tells what became of its call.
RowsInv ==
    /\ \A c \in Replayer!Ids : calls[c].phase = "over" => \E r \in DOMAIN rows : rows[r].call = c
    /\ \A r \in DOMAIN rows :
          /\ rows[r].call \in Replayer!Ids /\ rows[r].phase # "submit"
          /\ rows[r].state = "consumed" => called[rows[r].call] = "consumed" /\ rows[r].phase = "none"
    /\ \A known \in identity : known = <<known[1], Replayer!Capture(known[1])>>

\* A waiting call is not past its timeout, and the parent's deadline is: only a later call of
\* a job, or an abort, cuts one off, and the parent counts it.
LostInv ==
    /\ stage = "run" => deadline >= Timeout + Margin
    /\ stage = "check" => calls = <<>>
    /\ stage = "over" => Replayer!Active = {}
    /\ \A c \in Replayer!Active : time <= calls[c].start + Timeout
    /\ \A c \in Replayer!Ids : calls[c].phase = "lost" =>
          \/ stage = "over" /\ report = "none"
          \/ calls[c].since # calls[c].start /\ parentFailed > 0

\* The report is the last thing written, and labels are opened for a completed one.
ReportInv ==
    /\ stage # "over" => report = "none"
    /\ report = "transport_completed" =>
          rows # <<>> /\ parentFailed = 0 /\ \A r \in DOMAIN rows : rows[r].state = "consumed"
    /\ labels = "read" => report = "transport_completed"

BridgeInv == BridgeTypes /\ RowsInv /\ LostInv /\ ReportInv

\* What was replayed of the schedule, once the replay has begun.
Played == Replayer!Schedule(source) \ todo
Begun == stage = "run" \/ (stage = "over" /\ report # "refused")

\* Events are replayed in their order; the parent has seen the frames replayed, and holds the
\* watches that no later cancellation took away.
ScheduleInv ==
    /\ ~Begun => todo = {} /\ seen = {} /\ watches = {} /\ views = {}
    /\ todo \subseteq Replayer!Schedule(source)
    /\ Begun =>
          /\ \A d \in Played, e \in todo : Replayer!Before(d, e)
          /\ seen = {d.at : d \in {e \in Played : e.kind = "frame"}}
          /\ watches = {w.id : w \in {e \in Played : /\ e.kind = "watch"
                                                     /\ \A c \in Played : c.kind = "cancel" /\ c.id = e.id
                                                                            => Replayer!Before(c, e)}}
    /\ Replayer!CausalViews

\* The events of a video: whole instants, and numbers that are unique among the frames and
\* among the tasks.
LEMMA ScheduleEvents ==
    ASSUME Replayer!BridgeAssumption, source \in Sources
    PROVE  /\ \A e \in Replayer!Schedule(source) :
                 e.kind \in {"frame", "watch", "ask", "cancel"} /\ e.at \in Int /\ e.index \in Nat
           /\ \A d, e \in Replayer!Schedule(source) :
                 d.index = e.index /\ (d.kind = "frame" <=> e.kind = "frame") => d = e
<1>1. /\ source.frames \in Seq(Int) /\ source.tasks \subseteq Replayer!Task /\ source.maximum \in Int
      /\ \A a, b \in source.tasks : a.index = b.index => a = b
  BY DEF Replayer!BridgeAssumption, Replayer!Source
<1> DEFINE F == Replayer!Frames(source)
<1>2. \A k \in DOMAIN F : F[k] \in Int /\ k \in Nat
  <2>1. PICK n \in Int : F = SubSeq(source.frames, 1, n) /\ n <= Len(source.frames)
    BY <1>1 DEF Replayer!Frames
  <2>2. F \in Seq(Int)
    BY <1>1, <2>1
  <2>. QED BY <2>2
<1> HIDE DEF F
<1> DEFINE G == {[kind |-> "frame", at |-> F[k], index |-> k, id |-> 0] : k \in DOMAIN F}
<1>3. \A e \in Replayer!Schedule(source) : e \in G \/ e \in source.tasks
  BY DEF Replayer!Schedule, F
<1>4. \A e \in G : e.kind = "frame" /\ e.at \in Int /\ e.index \in DOMAIN F /\ e.index \in Nat
                   /\ e = [kind |-> "frame", at |-> F[e.index], index |-> e.index, id |-> 0]
  BY <1>2
<1>5. \A e \in source.tasks : e.kind \in {"watch", "ask", "cancel"} /\ e.at \in Int /\ e.index \in Nat
  BY <1>1 DEF Replayer!Task
<1> HIDE DEF G
<1>6. ASSUME NEW d \in Replayer!Schedule(source), NEW e \in Replayer!Schedule(source),
             d.index = e.index, d.kind = "frame" <=> e.kind = "frame"
      PROVE  d = e
  <2>1. CASE d.kind = "frame"
    <3>1. d \in G /\ e \in G
      BY <1>3, <1>5, <1>6, <2>1
    <3>2. /\ d = [kind |-> "frame", at |-> F[d.index], index |-> d.index, id |-> 0]
          /\ e = [kind |-> "frame", at |-> F[e.index], index |-> e.index, id |-> 0]
      BY <1>4, <3>1
    <3>. QED BY <1>6, <3>2
  <2>2. CASE d.kind # "frame"
    BY <1>1, <1>3, <1>4, <1>6, <2>2
  <2>. QED BY <2>1, <2>2
<1>. QED BY <1>3, <1>4, <1>5, <1>6

\* Numbers and positions.
LEMMA BridgeBasics ==
    ASSUME Replayer!BridgeAssumption, BridgeTypes
    PROVE  /\ time \in Nat /\ deadline \in Nat /\ Timeout \in Nat /\ Margin \in Nat /\ Margin > 0 /\ parentFailed \in Nat
           /\ Len(calls) \in Nat /\ Replayer!Ids = 1..Len(calls)
           /\ called \in [Replayer!Ids -> Replayer!Pending \cup Replayer!Terminal \cup {"none"}]
           /\ calls \in [Replayer!Ids -> CallRow]
           /\ \A c \in Replayer!Ids : calls[c].since \in Nat /\ calls[c].start \in Nat
           /\ rows \in Seq(ResultRow) /\ Len(rows) \in Nat /\ DOMAIN rows = 1..Len(rows)
           /\ \A r \in DOMAIN rows : rows[r] \in ResultRow
           /\ source \in Sources
<1>1. calls \in Seq(CallRow) /\ rows \in Seq(ResultRow) /\ called \in Seq(Replayer!Pending \cup Replayer!Terminal \cup {"none"})
      /\ Len(called) = Len(calls)
  BY DEF BridgeTypes, Replayer!TypeOK
<1>2. Replayer!Ids = 1..Len(calls) /\ Len(calls) \in Nat /\ DOMAIN called = 1..Len(calls)
  BY <1>1 DEF Replayer!Ids
<1>3. calls \in [Replayer!Ids -> CallRow]
      /\ called \in [Replayer!Ids -> Replayer!Pending \cup Replayer!Terminal \cup {"none"}]
  BY <1>1, <1>2
<1>4. \A c \in Replayer!Ids : calls[c].since \in Nat /\ calls[c].start \in Nat
  BY <1>3 DEF CallRow
<1>5. time \in Nat /\ deadline \in Nat /\ Timeout \in Nat /\ Margin \in Nat /\ Margin > 0 /\ parentFailed \in Nat
      /\ source \in Sources
  BY DEF BridgeTypes, Replayer!TypeOK, Replayer!BridgeAssumption
<1>. QED BY <1>1, <1>2, <1>3, <1>4, <1>5

\* The start, an event, the passing of time and the evaluation leave the calls alone.
LEMMA BridgeAround ==
    ASSUME Replayer!BridgeAssumption, BridgeInv,
           \/ Replayer!Begin \/ Replayer!Advance \/ Replayer!Score
           \/ \E event \in todo : Replayer!Replay(event)
    PROVE  BridgeInv'
<1>u. UNCHANGED <<source, calls, called, flight, quarantined, identity, rows, parentFailed>>
  BY DEF Replayer!Begin, Replayer!Advance, Replayer!Score, Replayer!Replay, Replayer!replayed
<1>0. /\ UNCHANGED <<source, calls, called, flight, quarantined, identity, rows, parentFailed>>
      /\ Replayer!Ids' = Replayer!Ids /\ Replayer!Active' = Replayer!Active
      /\ Replayer!Schedule(source)' = Replayer!Schedule(source)
  BY <1>u DEF Replayer!Ids, Replayer!Active
<1>1. RowsInv'
  BY <1>0 DEF BridgeInv, RowsInv, Replayer!Capture
<1>b. /\ time \in Nat /\ deadline \in Nat /\ Timeout \in Nat /\ Margin \in Nat /\ Margin > 0 /\ parentFailed \in Nat
      /\ \A c \in Replayer!Ids : calls[c].start \in Nat
      /\ source \in Sources
  BY BridgeBasics DEF BridgeInv
<1>2. CASE Replayer!Begin
  <2>1. BridgeTypes'
    BY <1>0, <1>2, <1>b DEF Replayer!Begin, BridgeInv, BridgeTypes, Replayer!TypeOK, Replayer!AlignedDeadline,
       Replayer!Larger, Replayer!BridgeAssumption, Replayer!Ids
  <2>2. LostInv'
    <3>1. stage' = "run" => deadline' >= Timeout + Margin
      <4>1. SUFFICES ASSUME stage' = "run" PROVE deadline' >= Timeout + Margin
        OBVIOUS
      <4>2. PICK own \in ParentDeadlines : deadline' = Replayer!AlignedDeadline(own)
        BY <1>2, <4>1 DEF Replayer!Begin
      <4>3. own \in Nat
        BY DEF Replayer!BridgeAssumption
      <4>. QED BY <1>b, <4>2, <4>3 DEF Replayer!AlignedDeadline, Replayer!Larger
    <3>2. stage = "check" /\ time' = time /\ stage' \in {"run", "over"} /\ (stage' = "over" => report' # "none")
      BY <1>2 DEF Replayer!Begin
    <3>3. Replayer!Active = {}
      BY <3>2 DEF BridgeInv, LostInv, Replayer!Active, Replayer!Ids
    <3>. QED BY <1>0, <3>1, <3>2, <3>3 DEF BridgeInv, LostInv, ReportInv
  <2>3. ReportInv'
    BY <1>0, <1>2 DEF Replayer!Begin, BridgeInv, ReportInv
  <2>. QED BY <1>1, <2>1, <2>2, <2>3 DEF BridgeInv
<1>3. CASE Replayer!Advance
  <2>1. /\ stage = "run" /\ time < MaxReplayTime /\ time' = time + 1
        /\ UNCHANGED <<stage, deterministic, deadline, todo, seen, watches, views, report, labels>>
        /\ \A c \in Replayer!Active : ~(time >= calls[c].start + Timeout)
    BY <1>3 DEF Replayer!Advance, Replayer!replayed, Replayer!CanEnd
  <2>2. BridgeTypes'
    <3>1. time' \in 0..MaxReplayTime
      BY <1>b, <2>1 DEF Replayer!BridgeAssumption
    <3>. QED BY <1>0, <2>1, <3>1 DEF BridgeInv, BridgeTypes, Replayer!TypeOK
  <2>3. \A c \in Replayer!Active : time + 1 <= calls[c].start + Timeout
    BY <1>b, <2>1 DEF Replayer!Active
  <2>4. LostInv' /\ ReportInv'
    BY <1>0, <2>1, <2>3 DEF BridgeInv, LostInv, ReportInv
  <2>. QED BY <1>1, <2>2, <2>4 DEF BridgeInv
<1>4. CASE Replayer!Score
  BY <1>0, <1>1, <1>4 DEF Replayer!Score, Replayer!Scorable, Replayer!replayed, BridgeInv, BridgeTypes, Replayer!TypeOK,
     LostInv, ReportInv, Replayer!Ids
<1>5. CASE \E event \in todo : Replayer!Replay(event)
  <2>1. PICK event \in todo : Replayer!Replay(event)
    BY <1>5
  <2>2. /\ UNCHANGED <<stage, deterministic, deadline, time, report, labels>>
        /\ todo' = todo \ {event} /\ seen' \subseteq seen \cup {event.at}
    BY <2>1 DEF Replayer!Replay
  <2>3. event.at \in Int
    BY <1>b, ScheduleEvents DEF BridgeInv, BridgeTypes, Replayer!TypeOK
  <2>4. BridgeTypes'
    BY <1>0, <2>2, <2>3 DEF BridgeInv, BridgeTypes, Replayer!TypeOK, Replayer!Ids
  <2>5. LostInv' /\ ReportInv'
    BY <1>0, <2>2 DEF BridgeInv, LostInv, ReportInv
  <2>. QED BY <1>1, <2>4, <2>5 DEF BridgeInv
<1>. QED BY <1>2, <1>3, <1>4, <1>5

\* A call starts: it waits for its job, or it failed in its preparation; the ledger never
\* refuses it, because a frame's identity does not change.
LEMMA BridgeCall ==
    ASSUME Replayer!BridgeAssumption, BridgeInv,
           NEW who \in {"job", "ask"}, NEW frames \in SUBSET seen, Replayer!Call(who, frames)
    PROVE  BridgeInv'
<1>b. /\ time \in Nat /\ Timeout \in Nat /\ parentFailed \in Nat
      /\ Len(calls) \in Nat /\ Replayer!Ids = 1..Len(calls)
      /\ called \in [Replayer!Ids -> Replayer!Pending \cup Replayer!Terminal \cup {"none"}]
      /\ calls \in [Replayer!Ids -> CallRow]
      /\ \A c \in Replayer!Ids : calls[c].since \in Nat /\ calls[c].start \in Nat
      /\ rows \in Seq(ResultRow) /\ Len(rows) \in Nat /\ DOMAIN rows = 1..Len(rows)
  BY BridgeBasics DEF BridgeInv
<1>t. /\ calls \in Seq(CallRow) /\ called \in Seq(Replayer!Pending \cup Replayer!Terminal \cup {"none"})
      /\ Len(called) = Len(calls) /\ seen \subseteq Int
  BY DEF BridgeInv, BridgeTypes, Replayer!TypeOK
<1> DEFINE n == Len(calls) + 1
<1>0. /\ stage = "run" /\ Len(calls) < MaxCalls
      /\ UNCHANGED <<source, deterministic, deadline, todo, seen, watches, views, stage, time, flight, quarantined,
                     report, labels>>
  BY DEF Replayer!Call, Replayer!replayed
<1>1. ~Replayer!Conflict(frames)
  <2>1. \A known \in identity : known = <<known[1], Replayer!Capture(known[1])>>
    BY DEF BridgeInv, RowsInv
  <2>. QED BY <2>1 DEF Replayer!Conflict
<1>2. PICK row \in CallRow :
         /\ calls' = Append(calls, row) /\ row.start = time /\ row.phase \in {"over", "wait"}
         /\ row.phase = "over" => /\ rows' = Append(rows, [call |-> n, state |-> "failed", phase |-> "prepare"])
                                  /\ called' = Append(called, "none")
                                  /\ identity' = identity
                                  /\ parentFailed' \in {parentFailed, parentFailed + 1}
         /\ row.phase = "wait" => /\ \E state \in {"queued", "rejected"} : called' = Append(called, state)
                                  /\ identity' = identity \cup {<<f, Replayer!Capture(f)>> : f \in frames}
                                  /\ UNCHANGED <<rows, parentFailed>>
  <2>1. \A since \in Replayer!Since : since \in Nat
    BY <1>b DEF Replayer!Since
  <2>2. ASSUME NEW phase \in {"over", "wait"}, Replayer!Started(frames, who, phase)
        PROVE  \E row \in CallRow : calls' = Append(calls, row) /\ row.start = time /\ row.phase = phase
    <3>1. PICK since \in Nat : calls' = Append(calls, [frames |-> frames, owner |-> who, since |-> since,
                                                       start |-> time, phase |-> phase])
      BY <1>b, <2>1, <2>2 DEF Replayer!Started
    <3>2. [frames |-> frames, owner |-> who, since |-> since, start |-> time, phase |-> phase] \in CallRow
      BY <1>b, <1>t DEF CallRow
    <3>. QED BY <3>1, <3>2
  <2>3. CASE ~Replayer!Prepared(frames)
    <3>1. /\ Replayer!Started(frames, who, "over") /\ called' = Append(called, "none")
          /\ Replayer!Row(n, "failed", "prepare") /\ Replayer!Blame(who) /\ UNCHANGED identity
      BY <2>3 DEF Replayer!Call
    <3>2. PICK row \in CallRow : calls' = Append(calls, row) /\ row.start = time /\ row.phase = "over"
      BY <2>2, <3>1
    <3>3. /\ rows' = Append(rows, [call |-> n, state |-> "failed", phase |-> "prepare"])
          /\ parentFailed' \in {parentFailed, parentFailed + 1}
      BY <3>1 DEF Replayer!Row, Replayer!Blame
    <3>. QED BY <3>1, <3>2, <3>3
  <2>4. CASE Replayer!Prepared(frames)
    <3>1. /\ Replayer!Started(frames, who, "wait")
          /\ \E state \in {"queued", "rejected"} : called' = Append(called, state)
          /\ identity' = identity \cup {<<f, Replayer!Capture(f)>> : f \in frames}
          /\ UNCHANGED <<rows, parentFailed>>
      BY <1>1, <2>4 DEF Replayer!Call
    <3>2. PICK row \in CallRow : calls' = Append(calls, row) /\ row.start = time /\ row.phase = "wait"
      BY <2>2, <3>1
    <3>. QED BY <3>1, <3>2
  <2>. QED BY <2>3, <2>4
<1>3. /\ calls' \in Seq(CallRow) /\ Len(calls') = n /\ DOMAIN calls' = 1..n /\ n \in Nat
      /\ calls'[n] = row /\ \A c \in Replayer!Ids : calls'[c] = calls[c]
  BY <1>2, <1>t, <1>b
<1>4. /\ Replayer!Ids' = 1..n /\ \A c \in 1..n : c = n \/ c \in Replayer!Ids
      /\ n \notin Replayer!Ids /\ \A c \in Replayer!Ids : c \in 1..n
  BY <1>3, <1>b DEF Replayer!Ids
<1>5. PICK state \in Replayer!Pending \cup Replayer!Terminal \cup {"none"} : called' = Append(called, state)
  BY <1>2 DEF Replayer!Pending, Replayer!Terminal
<1>6. /\ called' \in Seq(Replayer!Pending \cup Replayer!Terminal \cup {"none"}) /\ Len(called') = n
      /\ \A c \in Replayer!Ids : called'[c] = called[c]
  BY <1>5, <1>t, <1>b
<1>7. \A f : Replayer!Capture(f)' = Replayer!Capture(f)
  BY <1>0 DEF Replayer!Capture
<1> HIDE DEF n
<1>8. /\ rows' \in Seq(ResultRow) /\ parentFailed' \in Nat /\ parentFailed' >= parentFailed
      /\ \A r \in DOMAIN rows : r \in DOMAIN rows' /\ rows'[r] = rows[r]
      /\ \A r \in DOMAIN rows' : r \in DOMAIN rows \/ (rows'[r].call = n /\ rows'[r].state = "failed"
                                                        /\ rows'[r].phase = "prepare")
      /\ row.phase = "over" => \E r \in DOMAIN rows' : rows'[r].call = n
  <2>1. CASE row.phase = "over"
    <3> DEFINE new == [call |-> n, state |-> "failed", phase |-> "prepare"]
    <3>1. new \in ResultRow /\ new.call = n /\ new.state = "failed" /\ new.phase = "prepare"
      BY <1>3 DEF ResultRow
    <3> HIDE DEF new
    <3>2. rows' = Append(rows, new) /\ parentFailed' \in {parentFailed, parentFailed + 1}
      BY <1>2, <2>1 DEF new
    <3>3. /\ rows' \in Seq(ResultRow) /\ DOMAIN rows' = 1..(Len(rows) + 1) /\ rows'[Len(rows) + 1] = new
          /\ \A r \in DOMAIN rows : rows'[r] = rows[r]
      BY <1>b, <3>1, <3>2
    <3>4. Len(rows) + 1 \in DOMAIN rows' /\ \A r \in DOMAIN rows' : r \in DOMAIN rows \/ r = Len(rows) + 1
      BY <1>b, <3>3
    <3>5. parentFailed' \in Nat /\ parentFailed' >= parentFailed /\ DOMAIN rows \subseteq DOMAIN rows'
      BY <1>b, <3>2, <3>3
    <3>. QED BY <3>1, <3>3, <3>4, <3>5
  <2>2. CASE row.phase = "wait"
    BY <1>2, <1>b, <2>2
  <2>. QED BY <1>2, <2>1, <2>2
<1>9. BridgeTypes'
  <2>1. Len(calls') \in 0..MaxCalls /\ flight' \subseteq Replayer!Ids'
    <3>1. n \in 0..MaxCalls
      BY <1>0, <1>b DEF n, Replayer!BridgeAssumption
    <3>. QED BY <1>0, <1>3, <1>4, <3>1 DEF BridgeInv, BridgeTypes, Replayer!TypeOK
  <2>. QED BY <1>0, <1>3, <1>6, <1>8, <2>1 DEF BridgeInv, BridgeTypes, Replayer!TypeOK
<1>10. RowsInv'
  <2>1. ASSUME NEW c \in 1..n, calls'[c].phase = "over" PROVE \E r \in DOMAIN rows' : rows'[r].call = c
    BY <1>3, <1>4, <1>8, <2>1 DEF BridgeInv, RowsInv
  <2>2. ASSUME NEW r \in DOMAIN rows'
        PROVE  /\ rows'[r].call \in 1..n /\ rows'[r].phase # "submit"
               /\ rows'[r].state = "consumed" => called'[rows'[r].call] = "consumed" /\ rows'[r].phase = "none"
    <3>1. n \in 1..n
      BY <1>3, <1>b DEF n
    <3>. QED BY <1>4, <1>6, <1>8, <3>1 DEF BridgeInv, RowsInv
  <2>3. ASSUME NEW known \in identity' PROVE known = <<known[1], Replayer!Capture(known[1])>>
    BY <1>2 DEF BridgeInv, RowsInv
  <2>. QED BY <1>4, <1>7, <2>1, <2>2, <2>3 DEF RowsInv
<1>11. LostInv'
  <2>1. \A c \in Replayer!Ids' : c = n \/ (c \in Replayer!Ids /\ calls'[c] = calls[c])
    BY <1>3, <1>4
  <2>2. time <= calls'[n].start + Timeout /\ calls'[n].phase # "lost"
    BY <1>2, <1>3, <1>b
  <2>3. parentFailed > 0 => parentFailed' > 0
    BY <1>8, <1>b
  <2>. QED BY <1>0, <2>1, <2>2, <2>3 DEF BridgeInv, LostInv, Replayer!Active
<1>12. ReportInv'
  BY <1>0 DEF BridgeInv, ReportInv
<1>. QED BY <1>9, <1>10, <1>11, <1>12 DEF BridgeInv

\* A call ends with its row.
LEMMA BridgeCallEnds ==
    ASSUME Replayer!BridgeAssumption, BridgeInv, NEW c \in Replayer!Ids,
           Replayer!CallFails(c) \/ Replayer!CallReturns(c)
    PROVE  BridgeInv'
<1>b. /\ time \in Nat /\ Timeout \in Nat /\ parentFailed \in Nat
      /\ Len(calls) \in Nat /\ Replayer!Ids = 1..Len(calls)
      /\ called \in [Replayer!Ids -> Replayer!Pending \cup Replayer!Terminal \cup {"none"}]
      /\ calls \in [Replayer!Ids -> CallRow]
      /\ rows \in Seq(ResultRow) /\ Len(rows) \in Nat /\ DOMAIN rows = 1..Len(rows)
  BY BridgeBasics DEF BridgeInv
<1>t. /\ calls \in Seq(CallRow) /\ called \in Seq(Replayer!Pending \cup Replayer!Terminal \cup {"none"})
      /\ Len(called) = Len(calls)
  BY DEF BridgeInv, BridgeTypes, Replayer!TypeOK
<1>0. /\ UNCHANGED <<source, deterministic, deadline, todo, seen, watches, views, stage, time, flight, quarantined,
                     identity, report, labels>>
      /\ c \in Replayer!Active /\ calls' = [calls EXCEPT ![c].phase = "over"]
      /\ parentFailed' \in {parentFailed, parentFailed + 1}
  BY DEF Replayer!CallFails, Replayer!CallReturns, Replayer!replayed, Replayer!Over, Replayer!Blame
<1>1. stage # "over" /\ stage # "check"
  BY <1>0 DEF BridgeInv, LostInv, Replayer!Active, Replayer!Ids
<1>2. PICK state \in {"consumed", "failed"}, phase \in {"none", "wait", "consume", "decode"} :
         /\ rows' = Append(rows, [call |-> c, state |-> state, phase |-> phase])
         /\ called' = called \/ called' = [called EXCEPT ![c] = "consumed"]
         /\ state = "consumed" => called' = [called EXCEPT ![c] = "consumed"] /\ phase = "none"
  <2>1. CASE Replayer!CallFails(c)
    BY <2>1 DEF Replayer!CallFails, Replayer!Row
  <2>2. CASE Replayer!CallReturns(c)
    <3>1. called' = [called EXCEPT ![c] = "consumed"]
      BY <2>2 DEF Replayer!CallReturns
    <3>2. PICK text \in BOOLEAN : Replayer!Row(c, Replayer!Decoded(text).state, Replayer!Decoded(text).phase)
      BY <2>2 DEF Replayer!CallReturns
    <3>3. /\ Replayer!Decoded(text).state \in {"consumed", "failed"}
          /\ Replayer!Decoded(text).phase \in {"none", "decode"}
          /\ Replayer!Decoded(text).state = "consumed" => Replayer!Decoded(text).phase = "none"
      BY DEF Replayer!Decoded
    <3>. QED BY <3>1, <3>2, <3>3 DEF Replayer!Row
  <2>. QED BY <2>1, <2>2
<1> DEFINE new == [call |-> c, state |-> state, phase |-> phase]
<1>3. new \in ResultRow /\ new.call = c /\ new.state = state /\ new.phase = phase
  BY <1>b DEF ResultRow
<1> HIDE DEF new
<1>4. rows' = Append(rows, new)
  BY <1>2 DEF new
<1>5. /\ rows' \in Seq(ResultRow) /\ DOMAIN rows' = 1..(Len(rows) + 1) /\ rows'[Len(rows) + 1] = new
      /\ \A r \in DOMAIN rows : rows'[r] = rows[r]
  BY <1>b, <1>3, <1>4
<1>6. Len(rows) + 1 \in DOMAIN rows' /\ \A r \in DOMAIN rows' : r \in DOMAIN rows \/ r = Len(rows) + 1
  BY <1>b, <1>5
<1>7. /\ calls' \in [Replayer!Ids -> CallRow] /\ calls'[c].phase = "over"
      /\ \A d \in Replayer!Ids : /\ d # c => calls'[d] = calls[d]
                                 /\ calls'[d].since = calls[d].since /\ calls'[d].start = calls[d].start
      /\ calls' \in Seq(CallRow) /\ Len(calls') = Len(calls)
  <2> DEFINE call == [calls[c] EXCEPT !.phase = "over"]
  <2>1. c \in Replayer!Ids /\ calls[c] \in CallRow
    BY <1>b
  <2>2. call \in CallRow /\ call.phase = "over" /\ call.since = calls[c].since /\ call.start = calls[c].start
    BY ONLY <2>1 DEF CallRow
  <2>3. calls' = [calls EXCEPT ![c] = call]
    BY ONLY <1>0
  <2> HIDE DEF call
  <2>4. calls' \in [Replayer!Ids -> CallRow] /\ calls'[c] = call /\ \A d \in Replayer!Ids : d # c => calls'[d] = calls[d]
    BY ONLY <1>b, <2>1, <2>2, <2>3
  <2>5. calls' \in Seq(CallRow) /\ Len(calls') = Len(calls)
    BY ONLY <1>b, <2>4
  <2>. QED BY ONLY <2>2, <2>4, <2>5
<1>8. /\ calls' \in Seq(CallRow) /\ Len(calls') = Len(calls) /\ Replayer!Ids' = Replayer!Ids
  BY <1>7 DEF Replayer!Ids
<1>9. /\ called' \in Seq(Replayer!Pending \cup Replayer!Terminal \cup {"none"}) /\ Len(called') = Len(calls)
      /\ \A d \in Replayer!Ids : called[d] = "consumed" => called'[d] = "consumed"
      /\ state = "consumed" => called'[c] = "consumed"
  <2>1. called' \in [Replayer!Ids -> Replayer!Pending \cup Replayer!Terminal \cup {"none"}]
    BY <1>2, <1>b DEF Replayer!Terminal
  <2>2. called' \in Seq(Replayer!Pending \cup Replayer!Terminal \cup {"none"}) /\ Len(called') = Len(calls)
    BY <1>b, <2>1
  <2>. QED BY <1>2, <1>b, <2>2
<1>10. parentFailed' \in Nat /\ (parentFailed > 0 => parentFailed' > 0)
  BY <1>0, <1>b
<1>11. BridgeTypes'
  BY <1>0, <1>5, <1>8, <1>9, <1>10 DEF BridgeInv, BridgeTypes, Replayer!TypeOK
<1>12. RowsInv'
  <2>1. ASSUME NEW d \in Replayer!Ids, calls'[d].phase = "over" PROVE \E r \in DOMAIN rows' : rows'[r].call = d
    <3>1. CASE d = c
      BY <1>3, <1>5, <1>6, <3>1
    <3>2. CASE d # c
      <4>1. PICK r \in DOMAIN rows : rows[r].call = d
        BY <1>7, <2>1, <3>2 DEF BridgeInv, RowsInv
      <4>2. r \in DOMAIN rows' /\ rows'[r] = rows[r]
        BY <1>5, <1>b
      <4>. QED BY <4>1, <4>2
    <3>. QED BY <3>1, <3>2
  <2>2. ASSUME NEW r \in DOMAIN rows'
        PROVE  /\ rows'[r].call \in Replayer!Ids /\ rows'[r].phase # "submit"
               /\ rows'[r].state = "consumed" => called'[rows'[r].call] = "consumed" /\ rows'[r].phase = "none"
    <3>1. CASE r = Len(rows) + 1
      BY <1>2, <1>3, <1>5, <1>9, <3>1
    <3>2. CASE r \in DOMAIN rows
      BY <1>5, <1>9, <3>2 DEF BridgeInv, RowsInv
    <3>. QED BY <1>6, <3>1, <3>2
  <2>3. \A f : Replayer!Capture(f)' = Replayer!Capture(f)
    BY <1>0 DEF Replayer!Capture
  <2>. QED BY <1>0, <1>8, <2>1, <2>2, <2>3 DEF BridgeInv, RowsInv
<1>13. LostInv'
  <2>1. \A d \in Replayer!Active' : d \in Replayer!Active /\ calls'[d].start = calls[d].start
    BY <1>7, <1>8 DEF Replayer!Active
  <2>2. \A d \in Replayer!Ids : calls'[d].phase = "lost" => calls[d].phase = "lost"
    BY <1>7
  <2>3. calls' # <<>> \/ stage' # "check"
    BY <1>0, <1>1
  <2>. QED BY <1>0, <1>1, <1>7, <1>8, <1>10, <2>1, <2>2, <2>3 DEF BridgeInv, LostInv
<1>14. ReportInv'
  BY <1>0, <1>1 DEF BridgeInv, ReportInv
<1>. QED BY <1>11, <1>12, <1>13, <1>14 DEF BridgeInv

\* The parent cuts off a call: its deadline has come, so it was not the first of its job.
LEMMA BridgeGivesUp ==
    ASSUME Replayer!BridgeAssumption, BridgeInv, NEW c \in Replayer!Ids, Replayer!ParentGivesUp(c)
    PROVE  BridgeInv'
<1>b. /\ time \in Nat /\ Timeout \in Nat /\ parentFailed \in Nat /\ Margin \in Nat /\ Margin > 0 /\ deadline \in Nat
      /\ Len(calls) \in Nat /\ Replayer!Ids = 1..Len(calls)
      /\ calls \in [Replayer!Ids -> CallRow]
      /\ \A d \in Replayer!Ids : calls[d].since \in Nat /\ calls[d].start \in Nat
  BY BridgeBasics DEF BridgeInv
<1>0. /\ UNCHANGED <<source, deterministic, deadline, todo, seen, watches, views, stage, time, called, flight,
                     quarantined, identity, rows, report, labels>>
      /\ c \in Replayer!Active /\ calls' = [calls EXCEPT ![c].phase = "lost"]
      /\ parentFailed' = parentFailed + 1 /\ time >= calls[c].since + deadline
  BY DEF Replayer!ParentGivesUp, Replayer!replayed, Replayer!Blame
<1>1. stage # "over" /\ stage # "check" /\ stage = "run"
  <2>1. stage # "over" /\ stage # "check"
    BY <1>0 DEF BridgeInv, LostInv, Replayer!Active, Replayer!Ids
  <2>. QED BY <2>1 DEF BridgeInv, BridgeTypes, Replayer!TypeOK
<1>2. calls[c].since # calls[c].start
  <2>1. time <= calls[c].start + Timeout /\ deadline >= Timeout + Margin
    BY <1>0, <1>1 DEF BridgeInv, LostInv
  <2>. QED BY <1>0, <1>b, <2>1
<1>3. /\ calls' \in [Replayer!Ids -> CallRow] /\ calls'[c].phase = "lost"
      /\ \A d \in Replayer!Ids : /\ d # c => calls'[d] = calls[d]
                                 /\ calls'[d].since = calls[d].since /\ calls'[d].start = calls[d].start
      /\ calls' \in Seq(CallRow) /\ Len(calls') = Len(calls)
  <2> DEFINE call == [calls[c] EXCEPT !.phase = "lost"]
  <2>1. c \in Replayer!Ids /\ calls[c] \in CallRow
    BY <1>b
  <2>2. call \in CallRow /\ call.phase = "lost" /\ call.since = calls[c].since /\ call.start = calls[c].start
    BY ONLY <2>1 DEF CallRow
  <2>3. calls' = [calls EXCEPT ![c] = call]
    BY ONLY <1>0
  <2> HIDE DEF call
  <2>4. calls' \in [Replayer!Ids -> CallRow] /\ calls'[c] = call /\ \A d \in Replayer!Ids : d # c => calls'[d] = calls[d]
    BY ONLY <1>b, <2>1, <2>2, <2>3
  <2>5. calls' \in Seq(CallRow) /\ Len(calls') = Len(calls)
    BY ONLY <1>b, <2>4
  <2>. QED BY ONLY <2>2, <2>4, <2>5
<1>4. /\ calls' \in Seq(CallRow) /\ Len(calls') = Len(calls) /\ Replayer!Ids' = Replayer!Ids
  BY <1>3 DEF Replayer!Ids
<1>5. parentFailed' \in Nat /\ parentFailed' > 0
  BY <1>0, <1>b
<1>6. BridgeTypes'
  BY <1>0, <1>4, <1>5 DEF BridgeInv, BridgeTypes, Replayer!TypeOK
<1>7. RowsInv'
  <2>1. \A d \in Replayer!Ids : calls'[d].phase = "over" => calls[d].phase = "over"
    BY <1>3
  <2>2. \A f : Replayer!Capture(f)' = Replayer!Capture(f)
    BY <1>0 DEF Replayer!Capture
  <2>. QED BY <1>0, <1>4, <2>1, <2>2 DEF BridgeInv, RowsInv
<1>8. LostInv'
  <2>1. \A d \in Replayer!Active' : d \in Replayer!Active /\ calls'[d].start = calls[d].start
    BY <1>3, <1>4 DEF Replayer!Active
  <2>2. \A d \in Replayer!Ids : calls'[d].phase = "lost" => calls'[d].since # calls'[d].start
    BY <1>1, <1>2, <1>3 DEF BridgeInv, LostInv
  <2>. QED BY <1>0, <1>1, <1>4, <1>5, <2>1, <2>2 DEF BridgeInv, LostInv
<1>9. ReportInv'
  BY <1>0, <1>1 DEF BridgeInv, ReportInv
<1>. QED BY <1>6, <1>7, <1>8, <1>9 DEF BridgeInv

\* The coordinator moves jobs, and never one that was consumed.
LEMMA BridgeJobs ==
    ASSUME Replayer!BridgeAssumption, BridgeInv, NEW c \in Replayer!Ids,
           Replayer!Dispatch(c) \/ Replayer!Settle(c) \/ Replayer!Expire(c)
    PROVE  BridgeInv'
<1>b. /\ Len(calls) \in Nat /\ Replayer!Ids = 1..Len(calls)
      /\ called \in [Replayer!Ids -> Replayer!Pending \cup Replayer!Terminal \cup {"none"}]
  BY BridgeBasics DEF BridgeInv
<1>0. /\ UNCHANGED <<source, deterministic, deadline, todo, seen, watches, views, stage, time, calls, identity, rows,
                     parentFailed, report, labels>>
      /\ flight' \subseteq flight \cup {c} /\ quarantined' \in BOOLEAN
      /\ \/ called' = called
         \/ /\ called[c] \in Replayer!Pending
            /\ \E state \in {"running", "rejected", "succeeded", "failed", "unknown", "expired"} :
                  called' = [called EXCEPT ![c] = state]
  <2>1. quarantined \in BOOLEAN
    BY DEF BridgeInv, BridgeTypes, Replayer!TypeOK
  <2>2. CASE Replayer!Dispatch(c)
    BY <2>1, <2>2 DEF Replayer!Dispatch, Replayer!replayed, Replayer!Pending
  <2>3. CASE Replayer!Settle(c)
    BY <2>1, <2>3 DEF Replayer!Settle, Replayer!replayed, Replayer!Pending
  <2>4. CASE Replayer!Expire(c)
    BY <2>1, <2>4 DEF Replayer!Expire, Replayer!replayed
  <2>. QED BY <2>2, <2>3, <2>4
<1>1. /\ called' \in [Replayer!Ids -> Replayer!Pending \cup Replayer!Terminal \cup {"none"}]
      /\ \A d \in Replayer!Ids : called[d] = "consumed" => called'[d] = "consumed"
  BY <1>0, <1>b DEF Replayer!Pending, Replayer!Terminal
<1>2. called' \in Seq(Replayer!Pending \cup Replayer!Terminal \cup {"none"}) /\ Len(called') = Len(calls)
  BY <1>1, <1>b
<1>3. Replayer!Ids' = Replayer!Ids /\ Replayer!Active' = Replayer!Active
  BY <1>0 DEF Replayer!Ids, Replayer!Active
<1>4. BridgeTypes'
  BY <1>0, <1>2, <1>3 DEF BridgeInv, BridgeTypes, Replayer!TypeOK
<1>5. RowsInv'
  <2>1. \A f : Replayer!Capture(f)' = Replayer!Capture(f)
    BY <1>0 DEF Replayer!Capture
  <2>. QED BY <1>0, <1>1, <1>3, <2>1 DEF BridgeInv, RowsInv
<1>6. LostInv' /\ ReportInv'
  BY <1>0, <1>3 DEF BridgeInv, LostInv, ReportInv
<1>. QED BY <1>4, <1>5, <1>6 DEF BridgeInv

\* The replay ends with its report, or is aborted without one.
LEMMA BridgeEnds ==
    ASSUME Replayer!BridgeAssumption, BridgeInv, Replayer!Finish \/ Replayer!Abort
    PROVE  BridgeInv'
<1>b. /\ Len(calls) \in Nat /\ Replayer!Ids = 1..Len(calls)
      /\ called \in [Replayer!Ids -> Replayer!Pending \cup Replayer!Terminal \cup {"none"}]
      /\ calls \in [Replayer!Ids -> CallRow]
  BY BridgeBasics DEF BridgeInv
<1>0. /\ UNCHANGED <<source, deterministic, deadline, todo, seen, watches, views, time, flight, quarantined, identity,
                     rows, parentFailed, labels>>
      /\ stage = "run" /\ stage' = "over"
      /\ called' = [c \in Replayer!Ids |-> IF called[c] = "queued" THEN "cancelled" ELSE called[c]]
  BY DEF Replayer!Finish, Replayer!Abort, Replayer!replayed
<1>1. /\ called' \in [Replayer!Ids -> Replayer!Pending \cup Replayer!Terminal \cup {"none"}]
      /\ \A d \in Replayer!Ids : called[d] = "consumed" => called'[d] = "consumed"
  BY <1>0, <1>b DEF Replayer!Terminal
<1>2. called' \in Seq(Replayer!Pending \cup Replayer!Terminal \cup {"none"}) /\ Len(called') = Len(calls)
  BY <1>1, <1>b
<1>3. /\ calls' \in [Replayer!Ids -> CallRow]
      /\ \A d \in Replayer!Ids : calls'[d].phase = "over" => calls[d].phase = "over"
      /\ \A d \in Replayer!Ids : calls'[d].phase # "wait"
      /\ report' = "none" \/ (calls' = calls /\ report' = Replayer!Verdict)
  <2>1. CASE Replayer!Finish
    <3>1. calls' = calls /\ Replayer!Active = {} /\ report' = Replayer!Verdict
      BY <2>1 DEF Replayer!Finish, Replayer!replayed
    <3>. QED BY <1>b, <3>1 DEF Replayer!Active
  <2>2. CASE Replayer!Abort
    <3>1. /\ report' = report /\ report = "none"
          /\ calls' = [c \in Replayer!Ids |-> IF c \in Replayer!Active THEN [calls[c] EXCEPT !.phase = "lost"] ELSE calls[c]]
      BY <1>0, <2>2 DEF Replayer!Abort, BridgeInv, ReportInv
    <3>2. ASSUME NEW c \in Replayer!Ids
          PROVE  calls'[c] \in CallRow /\ calls'[c].phase # "wait" /\ (calls'[c].phase = "over" => calls[c].phase = "over")
      <4>1. calls[c] \in CallRow /\ calls'[c] = IF c \in Replayer!Active THEN [calls[c] EXCEPT !.phase = "lost"] ELSE calls[c]
        BY <1>b, <3>1
      <4>2. CASE c \in Replayer!Active
        BY <4>1, <4>2 DEF CallRow
      <4>3. CASE c \notin Replayer!Active
        BY <4>1, <4>3 DEF Replayer!Active
      <4>. QED BY <4>2, <4>3
    <3>. QED BY <3>1, <3>2
  <2>. QED BY <2>1, <2>2
<1>4. calls' \in Seq(CallRow) /\ Len(calls') = Len(calls) /\ Replayer!Ids' = Replayer!Ids
  BY <1>3, <1>b DEF Replayer!Ids
<1>5. BridgeTypes'
  <2>1. report' \in {"none", "transport_completed", "transport_incomplete"}
    BY <1>3 DEF Replayer!Verdict
  <2>. QED BY <1>0, <1>2, <1>4, <2>1 DEF BridgeInv, BridgeTypes, Replayer!TypeOK
<1>6. RowsInv'
  <2>1. \A f : Replayer!Capture(f)' = Replayer!Capture(f)
    BY <1>0 DEF Replayer!Capture
  <2>. QED BY <1>0, <1>1, <1>3, <1>4, <2>1 DEF BridgeInv, RowsInv
<1>7. LostInv'
  <2>1. Replayer!Active' = {}
    BY <1>3, <1>4 DEF Replayer!Active
  <2>. QED BY <1>0, <1>3, <1>4, <2>1 DEF BridgeInv, LostInv
<1>8. ReportInv'
  BY <1>0, <1>3 DEF BridgeInv, ReportInv, Replayer!Verdict
<1>. QED BY <1>5, <1>6, <1>7, <1>8 DEF BridgeInv

\* The invariant of the calls, for every video and every deadline.
LEMMA BridgeInvariant ==
    ASSUME Replayer!BridgeAssumption PROVE Replayer!Spec => []BridgeInv
<1>1. Replayer!Init => BridgeInv
  <2>1. SUFFICES ASSUME Replayer!Init PROVE BridgeInv
    OBVIOUS
  <2>2. /\ calls = <<>> /\ called = <<>> /\ rows = <<>> /\ identity = {} /\ seen = {} /\ flight = {} /\ todo = {}
        /\ stage = "check" /\ report = "none" /\ labels = "unread" /\ Replayer!Ids = {}
    BY <2>1 DEF Replayer!Init, Replayer!Ids
  <2>3. BridgeTypes
    <3>1. calls \in Seq(CallRow) /\ rows \in Seq(ResultRow)
          /\ called \in Seq(Replayer!Pending \cup Replayer!Terminal \cup {"none"})
      BY <2>2
    <3>2. time \in 0..MaxReplayTime /\ Len(calls) \in 0..MaxCalls /\ Len(called) = Len(calls)
      BY <2>1, <2>2 DEF Replayer!Init, Replayer!BridgeAssumption
    <3>. QED BY <2>1, <2>2, <3>1, <3>2 DEF Replayer!Init, BridgeTypes, Replayer!TypeOK
  <2>4. RowsInv /\ LostInv /\ ReportInv
    BY <2>2 DEF RowsInv, LostInv, ReportInv, Replayer!Active
  <2>. QED BY <2>3, <2>4 DEF BridgeInv
<1>2. BridgeInv /\ [Replayer!Next]_Replayer!vars => BridgeInv'
  <2>1. SUFFICES ASSUME BridgeInv, [Replayer!Next]_Replayer!vars PROVE BridgeInv'
    OBVIOUS
  <2>2. CASE UNCHANGED Replayer!vars
    BY <2>1, <2>2 DEF Replayer!vars, BridgeInv, BridgeTypes, Replayer!TypeOK, RowsInv, LostInv, ReportInv,
       Replayer!Ids, Replayer!Active, Replayer!Capture
  <2>3. CASE Replayer!Next
    BY <2>1, <2>3, BridgeAround, BridgeCall, BridgeCallEnds, BridgeGivesUp, BridgeJobs, BridgeEnds DEF Replayer!Next
  <2>. QED BY <2>1, <2>2, <2>3
<1>. QED BY <1>1, <1>2, PTL DEF Replayer!Spec

\* The deadline that the runner gives the parent lets every first call of a job finish or
\* fail by itself, whatever the endpoint's timeout and the parent's own setting.
THEOREM FirstCallsFinish == Spec => []FirstCallFinishes
<1>1. BridgeInv => FirstCallFinishes
  <2>1. SUFFICES ASSUME BridgeInv, report \in {"transport_completed", "transport_incomplete"},
                        NEW c \in Replayer!Ids, calls[c].since = calls[c].start
                 PROVE  \E r \in DOMAIN rows : rows[r].call = c
    BY DEF FirstCallFinishes, Replayer!FirstCallFinishes
  <2>2. stage = "over" /\ calls[c].phase # "wait" /\ calls[c].phase # "lost"
    BY <2>1 DEF BridgeInv, ReportInv, LostInv, Replayer!Active
  <2>3. calls[c].phase \in {"wait", "over", "lost"}
    BY <2>1, BridgeBasics, HostsAssumption DEF BridgeInv, CallRow
  <2>. QED BY <2>1, <2>2, <2>3 DEF BridgeInv, RowsInv
<1>2. Replayer!Spec => []BridgeInv
  BY HostsAssumption, BridgeInvariant
<1>. QED BY <1>1, <1>2, PartsRun, PTL

\* transport_completed stands for every call the parent made, also for one it cut off, and
\* labels are opened for no other replay.
THEOREM CompletedHolds == Spec => []CompletedIsWhole
<1>1. BridgeInv => CompletedIsWhole
  <2>1. SUFFICES ASSUME BridgeInv, report = "transport_completed" \/ labels = "read"
                 PROVE  /\ calls # <<>> /\ parentFailed = 0
                        /\ \A c \in Replayer!Ids : called[c] = "consumed"
                        /\ \A r \in DOMAIN rows : rows[r].phase = "none"
    BY DEF CompletedIsWhole, Replayer!CompletedIsWhole
  <2>2. /\ report = "transport_completed" /\ stage = "over" /\ parentFailed = 0 /\ rows # <<>>
        /\ \A r \in DOMAIN rows : rows[r].state = "consumed"
    BY <2>1 DEF BridgeInv, ReportInv
  <2>3. ASSUME NEW c \in Replayer!Ids PROVE called[c] = "consumed"
    <3>1. calls[c].phase \in {"wait", "over", "lost"}
      BY <2>1, BridgeBasics, HostsAssumption DEF BridgeInv, CallRow
    <3>2. calls[c].phase = "over"
      BY <2>1, <2>2, <3>1 DEF BridgeInv, LostInv, Replayer!Active
    <3>. QED BY <2>1, <2>2, <3>2 DEF BridgeInv, RowsInv
  <2>4. calls # <<>>
    <3>1. 1 \in DOMAIN rows
      BY <2>1, <2>2, BridgeBasics DEF BridgeInv
    <3>2. Replayer!Ids # {}
      BY <2>1, <3>1 DEF BridgeInv, RowsInv
    <3>. QED BY <3>2 DEF Replayer!Ids
  <2>. QED BY <2>1, <2>2, <2>3, <2>4 DEF BridgeInv, RowsInv
<1>2. Replayer!Spec => []BridgeInv
  BY HostsAssumption, BridgeInvariant
<1>. QED BY <1>1, <1>2, PartsRun, PTL

\* However windows overlap, no call is refused because an earlier one had the same frame.
THEOREM IdentitiesStable == Spec => []IdentityStable
<1>1. BridgeInv => IdentityStable
  BY DEF BridgeInv, RowsInv, IdentityStable, Replayer!IdentityStable
<1>2. Replayer!Spec => []BridgeInv
  BY HostsAssumption, BridgeInvariant
<1>. QED BY <1>1, <1>2, PartsRun, PTL

\* Before orders the events of a video strictly and totally.
LEMMA BeforeOrders ==
    ASSUME Replayer!BridgeAssumption, source \in Sources,
           NEW d \in Replayer!Schedule(source), NEW e \in Replayer!Schedule(source)
    PROVE  /\ d # e => Replayer!Before(d, e) \/ Replayer!Before(e, d)
           /\ Replayer!Before(d, e) => ~Replayer!Before(e, d) /\ d # e
           /\ d.kind = "watch" /\ e.kind = "frame" => (Replayer!Before(d, e) <=> d.at <= e.at)
           /\ d.kind = "cancel" /\ e.kind = "frame" => (Replayer!Before(d, e) <=> d.at < e.at)
           /\ d.kind = "cancel" /\ e.kind = "watch" => (Replayer!Before(d, e) <=> d.at < e.at)
           /\ d.kind = "frame" /\ e.kind = "ask" => (Replayer!Before(d, e) <=> d.at <= e.at)
<1>1. /\ d.kind \in {"frame", "watch", "ask", "cancel"} /\ d.at \in Int /\ d.index \in Nat
      /\ e.kind \in {"frame", "watch", "ask", "cancel"} /\ e.at \in Int /\ e.index \in Nat
  BY ScheduleEvents
<1>2. /\ d.kind = "watch" => Replayer!Rank(d) = 0
      /\ d.kind = "frame" => Replayer!Rank(d) = 1
      /\ d.kind \in {"ask", "cancel"} => Replayer!Rank(d) = 2
  BY DEF Replayer!Rank
<1>3. /\ e.kind = "watch" => Replayer!Rank(e) = 0
      /\ e.kind = "frame" => Replayer!Rank(e) = 1
      /\ e.kind \in {"ask", "cancel"} => Replayer!Rank(e) = 2
  BY DEF Replayer!Rank
<1>4. Replayer!Rank(d) = Replayer!Rank(e) /\ d.index = e.index => d = e
  <2>1. Replayer!Rank(d) = Replayer!Rank(e) => (d.kind = "frame" <=> e.kind = "frame")
    BY <1>1, <1>2, <1>3
  <2>. QED BY <2>1, ScheduleEvents
<1>. QED BY <1>1, <1>2, <1>3, <1>4 DEF Replayer!Before

\* An event finds exactly the events that come before it replayed.
LEMMA PlayedInOrder ==
    ASSUME Replayer!BridgeAssumption, BridgeInv, ScheduleInv, NEW event \in todo, Replayer!Replay(event)
    PROVE  /\ event \in Replayer!Schedule(source) /\ Played' = Played \cup {event}
           /\ \A d \in Replayer!Schedule(source) : d \in Played' <=> d = event \/ Replayer!Before(d, event)
           /\ \A d \in Played', e \in todo' : Replayer!Before(d, e)
<1>1. /\ stage = "run" /\ \A other \in todo \ {event} : Replayer!Before(event, other)
      /\ todo' = todo \ {event} /\ source' = source
  BY DEF Replayer!Replay
<1>2. source \in Sources /\ todo \subseteq Replayer!Schedule(source) /\ \A d \in Played, e \in todo : Replayer!Before(d, e)
  BY <1>1 DEF ScheduleInv, Begun, BridgeInv, BridgeTypes, Replayer!TypeOK
<1>3. Played' = Played \cup {event}
  BY <1>1, <1>2 DEF Played
<1>4. \A d \in Played', e \in todo' : Replayer!Before(d, e)
  BY <1>1, <1>2, <1>3
<1>5. ASSUME NEW d \in Replayer!Schedule(source) PROVE d \in Played' <=> d = event \/ Replayer!Before(d, event)
  <2>1. d \notin Played' => d \in todo \ {event}
    BY <1>3 DEF Played
  <2>2. d \notin Played' => ~Replayer!Before(d, event)
    BY <1>1, <1>2, <2>1, BeforeOrders
  <2>. QED BY <1>2, <1>3, <2>1, <2>2
<1>. QED BY <1>2, <1>3, <1>4, <1>5

\* An event of the schedule keeps what was replayed, what was seen and what is watched in step.
LEMMA ReplayKeepsOrder ==
    ASSUME Replayer!BridgeAssumption, BridgeInv, ScheduleInv, NEW event \in todo, Replayer!Replay(event)
    PROVE  ScheduleInv'
<1>1. /\ stage = "run" /\ stage' = stage /\ todo' = todo \ {event} /\ source' = source
      /\ seen' = IF event.kind = "frame" THEN seen \cup {event.at} ELSE seen
      /\ watches' = CASE event.kind = "watch" -> watches \cup {event.id} [] event.kind = "cancel" -> watches \ {event.id}
                      [] OTHER -> watches
      /\ views' = views \cup {[event |-> event, frames |-> seen', watches |-> watches']}
  BY DEF Replayer!Replay
<1>2. /\ event \in Replayer!Schedule(source) /\ Played' = Played \cup {event}
      /\ \A d \in Replayer!Schedule(source) : d \in Played' <=> d = event \/ Replayer!Before(d, event)
      /\ \A d \in Played', e \in todo' : Replayer!Before(d, e)
  BY PlayedInOrder
<1>3. /\ source \in Sources /\ todo \subseteq Replayer!Schedule(source)
      /\ \A d \in Played : d \in Replayer!Schedule(source) /\ Replayer!Before(d, event)
      /\ Begun /\ Begun'
  BY <1>1 DEF ScheduleInv, Begun, BridgeInv, BridgeTypes, Replayer!TypeOK, Played
<1> DEFINE Kept(P) == {e \in P : e.kind = "watch" /\ \A c \in P : c.kind = "cancel" /\ c.id = e.id => Replayer!Before(c, e)}
           Ats(P) == {e \in P : e.kind = "frame"}
<1>4. seen = {d.at : d \in Ats(Played)} /\ watches = {w.id : w \in Kept(Played)}
  BY <1>3 DEF ScheduleInv
<1>5. seen' = {d.at : d \in Ats(Played')}
  <2>1. CASE event.kind = "frame"
    <3>1. Ats(Played') = Ats(Played) \cup {event}
      BY <1>2, <2>1
    <3>. QED BY <1>1, <1>4, <2>1, <3>1
  <2>2. CASE event.kind # "frame"
    <3>1. Ats(Played') = Ats(Played)
      BY <1>2, <2>2
    <3>. QED BY <1>1, <1>4, <2>2, <3>1
  <2>. QED BY <2>1, <2>2
<1>6. watches' = {w.id : w \in Kept(Played')}
  <2>1. CASE event.kind = "watch"
    <3>1. Kept(Played') = Kept(Played) \cup {event}
      BY <1>2, <1>3, <2>1
    <3>2. watches' = watches \cup {event.id}
      BY <1>1, <2>1
    <3>. QED BY <1>4, <3>1, <3>2
  <2>2. CASE event.kind = "cancel"
    <3>1. \A w \in Played : ~Replayer!Before(event, w)
      BY <1>2, <1>3, BeforeOrders
    <3>2. Kept(Played') = {w \in Kept(Played) : w.id # event.id}
      BY <1>2, <2>2, <3>1
    <3>3. watches' = watches \ {event.id}
      BY <1>1, <2>2
    <3>. QED BY <1>4, <3>2, <3>3
  <2>3. CASE event.kind \notin {"watch", "cancel"}
    <3>1. Kept(Played') = Kept(Played)
      BY <1>2, <2>3
    <3>2. watches' = watches
      BY <1>1, <2>3
    <3>. QED BY <1>4, <3>1, <3>2
  <2>. QED BY <2>1, <2>2, <2>3
<1>7. Replayer!CausalViews'
  <2> DEFINE Earlier(v, kind) == {e \in Replayer!Schedule(source) : e.kind = kind /\ e.at <= v.event.at}
             Cancelled(v, w) == \E c \in Earlier(v, "cancel") : c.id = w.id /\ w.at <= c.at /\ c.at < v.event.at
             new == [event |-> event, frames |-> seen', watches |-> watches']
  <2>1. SUFFICES ASSUME NEW v \in views'
                 PROVE  /\ v.event.kind = "ask" => v.frames = {f.at : f \in Earlier(v, "frame")}
                        /\ v.event.kind = "frame" =>
                              v.watches = {w.id : w \in {x \in Earlier(v, "watch") : ~Cancelled(v, x)}}
    <3>1. Replayer!Schedule(source)' = Replayer!Schedule(source)
      BY <1>1 DEF Replayer!Schedule, Replayer!Frames, Replayer!End
    <3>. QED BY <3>1, Zenon DEF Replayer!CausalViews
  <2>2. CASE v \in views
    BY <2>2, Zenon DEF ScheduleInv, Replayer!CausalViews
  <2>3. CASE v = new
    <3>0. v.event = event /\ v.frames = seen' /\ v.watches = watches' /\ event.at \in Int
      BY <1>2, <1>3, <2>3, ScheduleEvents
    <3>1. ASSUME event.kind = "ask" PROVE Ats(Played') = Earlier(v, "frame")
      <4>1. \A d \in Replayer!Schedule(source) : d.kind = "frame" => (d \in Played' <=> d.at <= event.at)
        BY <1>2, <1>3, <3>1, BeforeOrders
      <4>2. Played' \subseteq Replayer!Schedule(source)
        BY <1>2, <1>3
      <4>. QED BY <3>0, <4>1, <4>2
    <3>2. ASSUME event.kind = "frame" PROVE Kept(Played') = {x \in Earlier(v, "watch") : ~Cancelled(v, x)}
      <4>1. \A d \in Replayer!Schedule(source) : d.kind = "watch" => (d \in Played' <=> d.at <= event.at)
        BY <1>2, <1>3, <3>2, BeforeOrders
      <4>2. \A d \in Replayer!Schedule(source) : d.kind = "cancel" => (d \in Played' <=> d.at < event.at)
        BY <1>2, <1>3, <3>2, BeforeOrders
      <4>3. \A c, w \in Replayer!Schedule(source) :
               c.kind = "cancel" /\ w.kind = "watch" => (Replayer!Before(c, w) <=> ~(w.at <= c.at)) /\ c.at \in Int
        BY <1>3, BeforeOrders, ScheduleEvents
      <4>4. Played' \subseteq Replayer!Schedule(source)
        BY <1>2, <1>3
      <4>5. ASSUME NEW x \in Replayer!Schedule(source), x.kind = "watch"
            PROVE  (\A c \in Played' : c.kind = "cancel" /\ c.id = x.id => Replayer!Before(c, x)) <=> ~Cancelled(v, x)
        <5>1. \A c \in Replayer!Schedule(source) : c.kind = "cancel" /\ c.at < event.at => c.at <= event.at
          BY <3>0, <4>3, ScheduleEvents, <1>3
        <5>. QED BY <3>0, <4>2, <4>3, <4>4, <4>5, <5>1
      <4> HIDE DEF Cancelled
      <4>. QED BY <3>0, <4>1, <4>4, <4>5
    <3>. QED BY <1>5, <1>6, <3>0, <3>1, <3>2
  <2>. QED BY <1>1, <2>1, <2>2, <2>3
<1>8. todo' \subseteq Replayer!Schedule(source)'
  BY <1>1, <1>3 DEF Replayer!Schedule, Replayer!Frames, Replayer!End
<1>. QED BY <1>2, <1>3, <1>5, <1>6, <1>7, <1>8 DEF ScheduleInv

\* What a step that leaves the replay alone keeps.
LEMMA OrderKept ==
    ASSUME ScheduleInv, UNCHANGED <<source, todo, seen, watches, views>>, Begun' <=> Begun
    PROVE  ScheduleInv'
<1>1. Replayer!Schedule(source)' = Replayer!Schedule(source)
  BY DEF Replayer!Schedule, Replayer!Frames, Replayer!End
<1>2. Played' = Played
  BY <1>1 DEF Played
<1>3. Replayer!CausalViews'
  <2>1. Replayer!CausalViews /\ views' = views
    BY DEF ScheduleInv
  <2>. QED BY <1>1, <2>1, Zenon DEF Replayer!CausalViews
<1>. QED BY <1>1, <1>2, <1>3 DEF ScheduleInv

\* Every step keeps the order of the replay.
LEMMA OrderStep ==
    ASSUME Replayer!BridgeAssumption, BridgeInv, ScheduleInv, [Replayer!Next]_Replayer!vars
    PROVE  ScheduleInv'
<1>1. CASE Replayer!Begin
  <2>1. /\ stage = "check" /\ UNCHANGED <<source, seen, watches, views>>
        /\ \/ stage' = "run" /\ todo' = Replayer!Schedule(source)
           \/ stage' = "over" /\ report' = "refused" /\ todo' = todo
    BY <1>1 DEF Replayer!Begin
  <2>2. ~Begun /\ todo = {} /\ seen = {} /\ watches = {} /\ views = {}
    BY <2>1 DEF Begun, ScheduleInv
  <2>3. Replayer!CausalViews'
    BY <2>1, <2>2 DEF Replayer!CausalViews
  <2>4. Replayer!Schedule(source)' = Replayer!Schedule(source)
    BY <2>1 DEF Replayer!Schedule, Replayer!Frames, Replayer!End
  <2>5. CASE stage' = "run" /\ todo' = Replayer!Schedule(source)
    <3>1. Played' = {} /\ Begun'
      BY <2>4, <2>5 DEF Played, Begun
    <3>2. seen' = {d.at : d \in {e \in Played' : e.kind = "frame"}}
      BY <2>1, <2>2, <3>1
    <3>3. watches' = {}
      BY <2>1, <2>2
    <3>. QED BY <2>3, <2>4, <2>5, <3>1, <3>2, <3>3 DEF ScheduleInv
  <2>6. CASE stage' = "over" /\ report' = "refused" /\ todo' = todo
    BY <2>1, <2>2, <2>3, <2>4, <2>6 DEF ScheduleInv, Begun
  <2>. QED BY <2>1, <2>5, <2>6
<1>2. ASSUME NEW event \in todo, Replayer!Replay(event) PROVE ScheduleInv'
  BY <1>2, ReplayKeepsOrder
<1>3. CASE Replayer!Finish \/ Replayer!Abort
  <2>1. /\ stage = "run" /\ stage' = "over" /\ UNCHANGED <<source, todo, seen, watches, views>>
        /\ report' = Replayer!Verdict \/ report' = report
    BY <1>3 DEF Replayer!Finish, Replayer!Abort, Replayer!replayed
  <2>2. report' # "refused"
    BY <2>1 DEF Replayer!Verdict, BridgeInv, ReportInv
  <2>. QED BY <2>1, <2>2, OrderKept DEF Begun
<1>4. CASE Replayer!Advance \/ Replayer!Score \/ (UNCHANGED Replayer!vars)
  BY <1>4, OrderKept DEF Begun, Replayer!Advance, Replayer!Score, Replayer!vars, Replayer!replayed
<1>5. ASSUME NEW owner_ \in {"job", "ask"}, NEW frames \in SUBSET seen, Replayer!Call(owner_, frames) PROVE ScheduleInv'
  BY <1>5, OrderKept DEF Begun, Replayer!Call, Replayer!replayed
<1>6. ASSUME NEW c \in Replayer!Ids,
             \/ Replayer!CallFails(c) \/ Replayer!CallReturns(c) \/ Replayer!ParentGivesUp(c)
             \/ Replayer!Dispatch(c) \/ Replayer!Settle(c) \/ Replayer!Expire(c)
      PROVE  ScheduleInv'
  BY <1>6, OrderKept DEF Begun, Replayer!CallFails, Replayer!CallReturns, Replayer!ParentGivesUp, Replayer!Dispatch,
     Replayer!Settle, Replayer!Expire, Replayer!replayed
<1>. QED BY <1>1, <1>2, <1>3, <1>4, <1>5, <1>6 DEF Replayer!Next

\* Whatever the video, a question finds the frames up to its instant and a frame the watches
\* in force at its own.
THEOREM ViewsCausal == Spec => []CausalViews
<1>1. Replayer!Init => ScheduleInv
  BY DEF Replayer!Init, ScheduleInv, Begun, Replayer!CausalViews
<1>2. BridgeInv /\ ScheduleInv /\ [Replayer!Next]_Replayer!vars => ScheduleInv'
  BY HostsAssumption, OrderStep
<1>3. ScheduleInv => CausalViews
  BY DEF ScheduleInv, CausalViews
<1>4. Replayer!Spec => []BridgeInv
  BY HostsAssumption, BridgeInvariant
<1>. QED BY <1>1, <1>2, <1>3, <1>4, PartsRun, PTL DEF Replayer!Spec

-----------------------------------------------------------------------------
(* Sidecar: bodies and repeated requests.                                  *)

\* The bytes of the chunks of a request, summed over sets of their positions.
Bytes(r) == SumOf(r.chunks, DOMAIN r.chunks)

\* The kinds of session and job, and of the fields that TypeOK leaves open.
ServerTypes ==
    /\ Server!TypeOK
    /\ session \in [state : {"absent", "active", "closed"}, epoch : Int, buffer : Nat]
    /\ job \in [state : {"absent", "rejected", "queued", "succeeded", "consumed", "cancelled", "stale", "expired"},
               epoch : Nat, by : {"nobody"} \cup Clients]

\* What is buffered is what the chunks counted so far add up to, within the bound.
BodyInv ==
    \A c \in Clients :
        /\ got[c] <= Len(req[c].chunks) /\ size[c] = Bytes(req[c])[1..got[c]] /\ size[c] <= Limit
        /\ pc[c] = "replay" => got[c] = Len(req[c].chunks)

\* A request that changed the coordinator left the mark that stops its repetition.
Marked(c) ==
    /\ req[c].op \in {"advance", "close"} => session.epoch > req[c].epoch
    /\ req[c].op = "submit" => job.state # "absent" /\ job.epoch = req[c].epoch
    /\ req[c].op = "consume" => job.state = "consumed"
    /\ req[c].op = "cancel" => job.state = "cancelled"

\* Such a request is authenticated, well-formed and within its bounds, so that a repetition of it
\* gets to its route again; and only a client that is through has heard an answer.
RetryInv ==
    \A c \in Clients :
        /\ heard[c] # 0 => pc[c] = "over"
        /\ effects[c] > 0 /\ req[c].op \in {"advance", "close", "submit", "consume", "cancel"} =>
              /\ effects[c] = 1 /\ Marked(c) /\ req[c].token /\ req[c].fields
              /\ Server!Total(req[c]) <= Limit
              /\ req[c].op # "submit" => Server!Total(req[c]) <= FieldLimit
        /\ effects[c] > 0 /\ req[c].op \in {"submit", "cancel"} => status[c] \in {0, 200} /\ heard[c] \in {0, 200}

ServerInv == ServerTypes /\ BodyInv /\ RetryInv

\* The community fold computes the length of a body, chunk by chunk, and no part is longer.
LEMMA BodyLength ==
    ASSUME NEW r \in Server!Request
    PROVE  /\ Len(r.chunks) \in Nat /\ Server!Total(r) \in Int
           /\ Server!Total(r) = Bytes(r)[1..Len(r.chunks)]
           /\ Bytes(r)[1..0] = 0
           /\ \A k \in 0..Len(r.chunks) : Bytes(r)[1..k] \in Int /\ Bytes(r)[1..k] <= Server!Total(r)
           /\ \A k \in 1..Len(r.chunks) : r.chunks[k] \in Nat /\ Bytes(r)[1..k] = Bytes(r)[1..(k - 1)] + r.chunks[k]
<1> DEFINE h == r.chunks
           D == 1..Len(h)
<1>1. h \in Seq(Nat)
  BY DEF Server!Request
<1>2. Len(h) \in Nat /\ DOMAIN h = D /\ h \in [D -> Nat] /\ h \in [D -> Int]
  BY <1>1
<1>3. IsFiniteSet(D)
  <2> DEFINE n == Len(h)
  <2>1. n \in Nat
    BY <1>2
  <2> HIDE DEF n
  <2>2. IsFiniteSet(1..n)
    BY <2>1, FS_Interval
  <2>. QED BY <2>2 DEF n
<1>4. Server!Total(r) = SumOf(h, D)[D]
  <2>1. \A s \in SUBSET D : s # {} => Chosen(s) \in D
    BY <1>3, ChosenSmaller
  <2>. QED BY <1>2, <2>1 DEF Server!Total, Server!FoldFunction, Server!FoldFunctionOnSet, Server!MapThenFoldSet,
          SumOf, Unfolded, Chosen
<1>5. Bytes(r) = SumOf(h, D)
  BY <1>2 DEF Bytes
<1> HIDE DEF h
<1>. QED BY <1>2, <1>4, <1>5, SumPrefix DEF h

\* Numbers, and the parts of a request.
LEMMA ServerBasics ==
    ASSUME Server!SidecarAssumption, ServerTypes, NEW c \in Clients
    PROVE  /\ req[c] \in Server!Request /\ Limit \in Nat /\ FieldLimit \in Nat
           /\ req[c].epoch \in Nat /\ req[c].token \in BOOLEAN /\ req[c].fields \in BOOLEAN /\ req[c].buffer \in Nat
           /\ got[c] \in Nat /\ size[c] \in Nat /\ effects[c] \in Nat /\ status[c] \in Nat /\ heard[c] \in Nat
           /\ session.epoch \in Int /\ job.epoch \in Nat
BY DEF ServerTypes, Server!TypeOK, Server!SidecarAssumption, Server!Request

\* A request keeps its chunks.
LEMMA RequestKept ==
    ASSUME UNCHANGED req, NEW d \in Clients
    PROVE  Bytes(req[d])' = Bytes(req[d]) /\ Server!Total(req[d])' = Server!Total(req[d]) /\ req'[d] = req[d]
BY DEF Bytes, SumOf, Unfolded, Chosen, Server!Total, Server!FoldFunction, Server!FoldFunctionOnSet, Server!MapThenFoldSet

\* A step that leaves the coordinator and the answers to finished requests alone.
LEMMA RetryKept ==
    ASSUME RetryInv, UNCHANGED <<req, heard, effects, session, job>>,
           \A d \in Clients : pc[d] = "over" => pc'[d] = "over",
           \A d \in Clients : effects[d] > 0 /\ req[d].op \in {"submit", "cancel"} => status'[d] = status[d]
    PROVE  RetryInv'
<1>1. \A d \in Clients : Server!Total(req[d])' = Server!Total(req[d]) /\ req'[d] = req[d]
  BY RequestKept
<1>. QED BY <1>1 DEF RetryInv, Marked

\* A chunk is counted before it is kept, and the last one completes the body.
LEMMA ServerBody ==
    ASSUME Server!SidecarAssumption, ServerInv, NEW c \in Clients,
           Server!Connect(c) \/ Server!ReceiveChunk(c) \/ Server!Disconnect(c) \/ Server!Unauthorized(c)
    PROVE  ServerInv'
<1>0. UNCHANGED <<up, req, heard, effects, session, job, fresh>>
  BY DEF Server!Connect, Server!ReceiveChunk, Server!Disconnect, Server!Unauthorized
<1>1. ServerTypes /\ BodyInv /\ RetryInv
  BY DEF ServerInv
<1>2. \A d \in Clients : /\ req[d] \in Server!Request /\ effects[d] \in Nat /\ got[d] \in Nat /\ size[d] \in Nat
                         /\ Limit \in Nat /\ FieldLimit \in Nat
  BY <1>1, ServerBasics
<1>3. \A d \in Clients :
         /\ Bytes(req[d])[1..0] = 0 /\ Len(req[d].chunks) \in Nat
         /\ \A k \in 0..Len(req[d].chunks) : Bytes(req[d])[1..k] \in Int /\ Bytes(req[d])[1..k] <= Server!Total(req[d])
         /\ \A k \in 1..Len(req[d].chunks) :
               /\ req[d].chunks[k] \in Nat
               /\ Bytes(req[d])[1..k] = Bytes(req[d])[1..(k - 1)] + req[d].chunks[k]
         /\ Server!Total(req[d]) \in Int
  BY <1>2, BodyLength
<1>4. \A d \in Clients : heard[d] # 0 => pc[d] = "over"
  BY <1>1 DEF RetryInv
<1>5. CASE Server!Connect(c)
  <2>1. /\ pc' = [pc EXCEPT ![c] = "body"] /\ tries' = [tries EXCEPT ![c] = @ + 1] /\ tries[c] < MaxTries
        /\ got' = [got EXCEPT ![c] = 0] /\ size' = [size EXCEPT ![c] = 0] /\ status' = [status EXCEPT ![c] = 0]
        /\ pc[c] = "idle"
    BY <1>5 DEF Server!Connect
  <2>2. ServerTypes'
    BY <1>0, <1>1, <2>1 DEF ServerTypes, Server!TypeOK, Server!SidecarAssumption
  <2>3. BodyInv'
    <3>1. ASSUME NEW d \in Clients
          PROVE  /\ got'[d] <= Len(req[d].chunks) /\ size'[d] = Bytes(req[d])[1..got'[d]] /\ size'[d] <= Limit
                 /\ pc'[d] = "replay" => got'[d] = Len(req[d].chunks)
      <4>1. CASE d = c
        <5>1. got'[d] = 0 /\ size'[d] = 0 /\ pc'[d] = "body"
          BY <1>1, <2>1, <4>1 DEF ServerTypes, Server!TypeOK
        <5>. QED BY <1>2, <1>3, <5>1
      <4>2. CASE d # c
        BY <1>1, <2>1, <4>2 DEF BodyInv, ServerTypes, Server!TypeOK
      <4>. QED BY <4>1, <4>2
    <3>. QED BY <1>0, <3>1, RequestKept DEF BodyInv
  <2>4. RetryInv'
    BY <1>0, <1>1, <2>1, RequestKept DEF RetryInv, Marked, ServerTypes, Server!TypeOK
  <2>. QED BY <2>2, <2>3, <2>4 DEF ServerInv
<1>6. CASE Server!ReceiveChunk(c)
  <2> DEFINE g == got[c] + 1
             n == size[c] + req[c].chunks[g]
  <2>1. /\ pc[c] = "body" /\ got[c] < Len(req[c].chunks) /\ tries' = tries
        /\ \/ /\ n > Limit /\ status' = [status EXCEPT ![c] = 413] /\ pc' = [pc EXCEPT ![c] = "answer"]
              /\ got' = got /\ size' = size
           \/ /\ ~(n > Limit) /\ got' = [got EXCEPT ![c] = g] /\ size' = [size EXCEPT ![c] = n] /\ status' = status
              /\ pc' = [pc EXCEPT ![c] = IF g = Len(req[c].chunks) THEN "replay" ELSE "body"]
    BY <1>6 DEF Server!ReceiveChunk, Server!OverLimit
  <2>2. g \in 1..Len(req[c].chunks) /\ n = Bytes(req[c])[1..g] /\ n \in Nat /\ n <= Server!Total(req[c])
    <3>1. g \in 1..Len(req[c].chunks) /\ g - 1 = got[c] /\ g \in 0..Len(req[c].chunks)
      BY <1>2, <1>3, <2>1
    <3>2. n = Bytes(req[c])[1..g]
      <4>1. size[c] = Bytes(req[c])[1..(g - 1)]
        BY <1>1, <3>1 DEF BodyInv
      <4>. QED BY <1>3, <3>1, <4>1
    <3>3. n \in Nat
      <4>1. req[c].chunks[g] \in Nat /\ size[c] \in Nat
        BY <1>2, <1>3, <3>1
      <4>. QED BY <4>1
    <3>. QED BY <1>3, <3>1, <3>2, <3>3
  <2> HIDE DEF g, n
  <2>3. ServerTypes'
    <3>1. pc' \in [Clients -> {"idle", "body", "replay", "answer", "over"}]
      BY <1>1, <2>1 DEF ServerTypes, Server!TypeOK
    <3>2. got' \in [Clients -> Nat] /\ size' \in [Clients -> Nat] /\ status' \in [Clients -> Nat]
      <4>1. g \in Nat /\ n \in Nat /\ 413 \in Nat
        BY <1>3, <2>2
      <4>2. got \in [Clients -> Nat] /\ size \in [Clients -> Nat] /\ status \in [Clients -> Nat]
        BY <1>1 DEF ServerTypes, Server!TypeOK
      <4>3. \/ got' = got /\ size' = size /\ status' = [status EXCEPT ![c] = 413]
            \/ got' = [got EXCEPT ![c] = g] /\ size' = [size EXCEPT ![c] = n] /\ status' = status
        BY <2>1
      <4>. QED BY <4>1, <4>2, <4>3
    <3>. QED BY <1>0, <1>1, <2>1, <3>1, <3>2 DEF ServerTypes, Server!TypeOK
  <2>4. BodyInv'
    <3>1. ASSUME NEW d \in Clients
          PROVE  /\ got'[d] <= Len(req[d].chunks) /\ size'[d] = Bytes(req[d])[1..got'[d]] /\ size'[d] <= Limit
                 /\ pc'[d] = "replay" => got'[d] = Len(req[d].chunks)
      <4>1. CASE got' = got /\ size' = size
        BY <1>1, <2>1, <4>1 DEF BodyInv, ServerTypes, Server!TypeOK
      <4>2. CASE ~(got' = got /\ size' = size) /\ d = c
        <5>1. /\ got'[d] = g /\ size'[d] = n /\ ~(n > Limit)
              /\ pc'[d] = IF g = Len(req[c].chunks) THEN "replay" ELSE "body"
          BY <1>1, <2>1, <4>2 DEF ServerTypes, Server!TypeOK
        <5>. QED BY <1>2, <1>3, <2>2, <4>2, <5>1
      <4>3. CASE ~(got' = got /\ size' = size) /\ d # c
        BY <1>1, <2>1, <4>3 DEF BodyInv, ServerTypes, Server!TypeOK
      <4>. QED BY <4>1, <4>2, <4>3
    <3>. QED BY <1>0, <3>1, RequestKept DEF BodyInv
  <2>5. RetryInv'
    <3>1. effects[c] > 0 /\ req[c].op \in {"submit", "cancel"} => ~(n > Limit)
      BY <1>1, <1>2, <1>3, <2>2 DEF RetryInv
    <3>2. effects[c] > 0 /\ req[c].op \in {"submit", "cancel"} => status' = status
      BY <2>1, <3>1
    <3>3. \A d \in Clients : pc[d] = "over" => pc'[d] = "over"
      BY <1>1, <2>1 DEF ServerTypes, Server!TypeOK
    <3>4. \A d \in Clients : effects[d] > 0 /\ req[d].op \in {"submit", "cancel"} => status'[d] = status[d]
      BY <1>1, <2>1, <3>2 DEF ServerTypes, Server!TypeOK
    <3>. QED BY <1>0, <1>1, <3>3, <3>4, RetryKept
  <2>. QED BY <2>3, <2>4, <2>5 DEF ServerInv
<1>7. CASE Server!Disconnect(c) \/ Server!Unauthorized(c)
  <2>1. /\ UNCHANGED <<tries, got, size>> /\ pc[c] \in {"body", "replay"}
        /\ \/ pc' = [pc EXCEPT ![c] = "idle"] /\ status' = status
           \/ pc' = [pc EXCEPT ![c] = "answer"] /\ status' = [status EXCEPT ![c] = 401] /\ ~req[c].token
    BY <1>7 DEF Server!Disconnect, Server!Unauthorized
  <2>2. ServerTypes'
    BY <1>0, <1>1, <2>1 DEF ServerTypes, Server!TypeOK
  <2>3. BodyInv'
    <3>1. \A d \in Clients : pc'[d] = "replay" => pc[d] = "replay"
      BY <1>1, <2>1 DEF ServerTypes, Server!TypeOK
    <3>. QED BY <1>0, <1>1, <2>1, <3>1, RequestKept DEF BodyInv
  <2>4. RetryInv'
    <3>1. \A d \in Clients : pc[d] = "over" => pc'[d] = "over"
      BY <1>1, <2>1 DEF ServerTypes, Server!TypeOK
    <3>2. effects[c] > 0 /\ req[c].op \in {"submit", "cancel"} => status' = status
      BY <1>1, <2>1 DEF RetryInv
    <3>3. \A d \in Clients : effects[d] > 0 /\ req[d].op \in {"submit", "cancel"} => status'[d] = status[d]
      BY <1>1, <2>1, <3>2 DEF ServerTypes, Server!TypeOK
    <3>. QED BY <1>0, <1>1, <3>1, <3>3, RetryKept
  <2>. QED BY <2>2, <2>3, <2>4 DEF ServerInv
<1>. QED BY <1>5, <1>6, <1>7

\* What a route does to the session and the job: epochs never fall back, a job keeps the epoch
\* it was submitted for, a claim or a cancellation stands, and what changed something said 200.
LEMMA RouteEffects ==
    ASSUME Server!SidecarAssumption, ServerTypes, NEW c \in Clients, NEW out, out = Server!Route(c, req[c])
    PROVE  /\ out.status \in Nat
           /\ out.session \in [state : {"absent", "active", "closed"}, epoch : Int, buffer : Nat]
           /\ out.job \in [state : {"absent", "rejected", "queued", "succeeded", "consumed", "cancelled", "stale",
                                   "expired"}, epoch : Nat, by : {"nobody"} \cup Clients]
           /\ out.session.epoch >= session.epoch
           /\ job.state # "absent" => out.job.state # "absent" /\ out.job.epoch = job.epoch
           /\ job.state \in {"consumed", "cancelled"} => out.job = job
           /\ <<out.session, out.job>> # <<session, job>> =>
                 /\ req[c].fields /\ out.status = 200
                 /\ req[c].op # "submit" => size[c] <= FieldLimit
                 /\ req[c].op \in {"advance", "close"} => session.epoch = req[c].epoch /\ out.session.epoch > req[c].epoch
                 /\ req[c].op = "submit" => job.state = "absent" /\ out.job.state # "absent" /\ out.job.epoch = req[c].epoch
                 /\ req[c].op = "consume" => job.state # "consumed" /\ out.job.state = "consumed"
                 /\ req[c].op = "cancel" => job.state # "cancelled" /\ out.job.state = "cancelled"
           /\ req[c].op = "submit" /\ req[c].fields /\ job.state # "absent" /\ job.epoch = req[c].epoch => out.status = 200
           /\ req[c].op = "cancel" /\ req[c].fields /\ size[c] <= FieldLimit /\ job.state = "cancelled" => out.status = 200
<1>1. /\ req[c].epoch \in Nat /\ req[c].fields \in BOOLEAN /\ req[c].buffer \in Nat /\ size[c] \in Nat
      /\ FieldLimit \in Nat
      /\ req[c].op \in {"open", "advance", "close", "heartbeat", "submit", "result", "consume", "cancel", "clock"}
  BY ServerBasics DEF Server!Request
<1>2. /\ session \in [state : {"absent", "active", "closed"}, epoch : Int, buffer : Nat]
      /\ job \in [state : {"absent", "rejected", "queued", "succeeded", "consumed", "cancelled", "stale", "expired"},
                  epoch : Nat, by : {"nobody"} \cup Clients]
      /\ fresh \in BOOLEAN
  BY DEF ServerTypes, Server!TypeOK
<1> DEFINE Bad == req[c].op \notin {"clock", "result"} /\ (~req[c].fields \/ (req[c].op # "submit" /\ size[c] > FieldLimit))
           Same(code) == out = [status |-> code, session |-> session, job |-> job]
<1>4. CASE Bad
  <2>1. Same(422)
    BY <1>4 DEF Server!Route, Server!Error
  <2>. QED BY <1>1, <1>2, <1>4, <2>1
<1>5. CASE ~Bad /\ req[c].op \in {"clock", "result"}
  <2>1. Same(200) \/ Same(404)
    <3>1. CASE req[c].op = "clock"
      BY <3>1 DEF Server!Route, Server!Ok
    <3>2. CASE req[c].op = "result"
      <4>1. out = Server!Result
        BY <3>2 DEF Server!Route
      <4>. QED BY <4>1 DEF Server!Result, Server!Ok, Server!Error
    <3>. QED BY <1>5, <3>1, <3>2
  <2>. QED BY <1>1, <1>2, <1>5, <2>1
<1>6. CASE ~Bad /\ req[c].op \notin {"clock", "result"}
  <2>0. req[c].fields /\ (req[c].op # "submit" => size[c] <= FieldLimit)
    BY <1>1, <1>6
  <2>1. CASE req[c].op = "open"
    <3>1. out = Server!OpenSession
      BY <1>6, <2>1 DEF Server!Route
    <3>. QED BY <1>1, <1>2, <2>0, <2>1, <3>1 DEF Server!OpenSession, Server!Ok, Server!Error
  <2>2. CASE req[c].op \in {"advance", "close"}
    <3>1. out = Server!AdvanceSession(req[c])
      BY <1>6, <2>2 DEF Server!Route
    <3>2. \/ Same(404) \/ Same(409)
          \/ session.epoch = req[c].epoch
             /\ out = [status |-> 200, session |-> Server!Advanced(req[c]), job |-> Server!Expired(Server!Advanced(req[c]), job)]
      BY <1>2, <3>1 DEF Server!AdvanceSession, Server!Ok, Server!Error
    <3>3. CASE Same(404) \/ Same(409)
      BY <1>1, <1>2, <2>2, <3>3
    <3>4. CASE /\ session.epoch = req[c].epoch
               /\ out = [status |-> 200, session |-> Server!Advanced(req[c]),
                         job |-> Server!Expired(Server!Advanced(req[c]), job)]
      BY <1>1, <1>2, <2>0, <2>2, <3>4 DEF Server!Advanced, Server!Expired
    <3>. QED BY <3>2, <3>3, <3>4
  <2>3. CASE req[c].op = "heartbeat"
    <3>1. out = Server!Heartbeat(req[c])
      BY <1>6, <2>3 DEF Server!Route
    <3>2. Same(404) \/ Same(409) \/ out = [status |-> 200, session |-> [session EXCEPT !.buffer = req[c].buffer], job |-> job]
      BY <1>2, <3>1 DEF Server!Heartbeat, Server!Ok, Server!Error
    <3>. QED BY <1>1, <1>2, <2>0, <2>3, <3>2
  <2>4. CASE req[c].op = "submit"
    <3>1. out = Server!Submit(req[c])
      BY <1>6, <2>4 DEF Server!Route
    <3>2. CASE job.state # "absent"
      <4>1. IF job.epoch = req[c].epoch THEN Same(200) ELSE Same(422)
        BY <3>1, <3>2 DEF Server!Submit, Server!Ok, Server!Error
      <4>. QED BY <1>1, <1>2, <2>4, <3>2, <4>1
    <3>3. CASE job.state = "absent"
      <4>1. Same(404) \/ out = [status |-> 200, session |-> session, job |-> Server!Admitted(req[c])]
        BY <3>1, <3>3 DEF Server!Submit, Server!Ok, Server!Error
      <4>2. Server!Admitted(req[c]) \in {[state |-> "queued", epoch |-> req[c].epoch, by |-> "nobody"],
                                         [state |-> "rejected", epoch |-> req[c].epoch, by |-> "nobody"]}
        BY DEF Server!Admitted
      <4>. QED BY <1>1, <1>2, <2>0, <2>4, <3>3, <4>1, <4>2
    <3>. QED BY <3>2, <3>3
  <2>5. CASE req[c].op = "consume"
    <3>1. out = Server!Consume(c)
      BY <1>6, <2>5 DEF Server!Route
    <3>2. \/ Same(404) \/ Same(409) \/ Same(200)
          \/ job.state = "succeeded"
             /\ out = [status |-> 200, session |-> session, job |-> [job EXCEPT !.state = "consumed", !.by = c]]
      BY <1>2, <3>1 DEF Server!Consume, Server!Ok, Server!Error
    <3>3. CASE Same(404) \/ Same(409) \/ Same(200)
      BY <1>1, <1>2, <2>5, <3>3
    <3>4. CASE /\ job.state = "succeeded"
               /\ out = [status |-> 200, session |-> session, job |-> [job EXCEPT !.state = "consumed", !.by = c]]
      <4>1. out.status = 200 /\ out.session = session /\ out.job = [job EXCEPT !.state = "consumed", !.by = c]
        BY <3>4
      <4>2. [job EXCEPT !.state = "consumed", !.by = c] = [state |-> "consumed", epoch |-> job.epoch, by |-> c]
        <5> DEFINE claimed == [job EXCEPT !.state = "consumed"]
        <5>1. claimed = [state |-> "consumed", epoch |-> job.epoch, by |-> job.by]
          BY <1>2
        <5> HIDE DEF claimed
        <5>2. [claimed EXCEPT !.by = c] = [state |-> "consumed", epoch |-> job.epoch, by |-> c]
          BY <5>1
        <5>. QED BY <5>2 DEF claimed
      <4>. QED BY <1>1, <1>2, <2>0, <2>5, <3>4, <4>1, <4>2
    <3>. QED BY <3>2, <3>3, <3>4
  <2>6. CASE req[c].op = "cancel"
    <3>1. out = Server!Cancel
      BY <1>6, <2>6 DEF Server!Route
    <3>2. \/ job.state = "absent" /\ Same(404)
          \/ job.state \in {"queued", "succeeded"}
             /\ out = [status |-> 200, session |-> session, job |-> [job EXCEPT !.state = "cancelled"]]
          \/ Same(200)
      BY <1>2, <3>1 DEF Server!Cancel, Server!Ok, Server!Error
    <3>. QED BY <1>1, <1>2, <2>0, <2>6, <3>2
  <2>. QED BY <1>1, <1>6, <2>1, <2>2, <2>3, <2>4, <2>5, <2>6
<1>. QED BY <1>4, <1>5, <1>6

\* A handler leaves the marks of earlier requests, and sets its own with its first effect.
LEMMA ServerHandles ==
    ASSUME Server!SidecarAssumption, ServerInv, NEW c \in Clients, Server!HandleRequest(c)
    PROVE  ServerInv'
<1> DEFINE out == Server!Route(c, req[c])
           changed == <<out.session, out.job>> # <<session, job>>
<1>1. /\ pc[c] = "replay" /\ req[c].token /\ status' = [status EXCEPT ![c] = out.status]
      /\ session' = out.session /\ job' = out.job /\ pc' = [pc EXCEPT ![c] = "answer"]
      /\ effects' = [effects EXCEPT ![c] = IF changed THEN @ + 1 ELSE @]
      /\ UNCHANGED <<up, req, tries, got, size, heard, fresh>>
  BY DEF Server!HandleRequest
<1> HIDE DEF out
<1>2. ServerTypes /\ BodyInv /\ RetryInv
  BY DEF ServerInv
<1>3. \A d \in Clients : /\ req[d] \in Server!Request /\ effects[d] \in Nat /\ req[d].epoch \in Nat
                         /\ Limit \in Nat /\ FieldLimit \in Nat
  BY <1>2, ServerBasics
<1>4. /\ out.status \in Nat
      /\ out.session \in [state : {"absent", "active", "closed"}, epoch : Int, buffer : Nat]
      /\ out.job \in [state : {"absent", "rejected", "queued", "succeeded", "consumed", "cancelled", "stale",
                              "expired"}, epoch : Nat, by : {"nobody"} \cup Clients]
      /\ out.session.epoch >= session.epoch
      /\ job.state # "absent" => out.job.state # "absent" /\ out.job.epoch = job.epoch
      /\ job.state \in {"consumed", "cancelled"} => out.job = job
  BY <1>2, RouteEffects DEF out
<1>5. changed =>
          /\ req[c].fields /\ out.status = 200
          /\ req[c].op # "submit" => size[c] <= FieldLimit
          /\ req[c].op \in {"advance", "close"} => session.epoch = req[c].epoch /\ out.session.epoch > req[c].epoch
          /\ req[c].op = "submit" => job.state = "absent" /\ out.job.state # "absent" /\ out.job.epoch = req[c].epoch
          /\ req[c].op = "consume" => job.state # "consumed" /\ out.job.state = "consumed"
          /\ req[c].op = "cancel" => job.state # "cancelled" /\ out.job.state = "cancelled"
  BY <1>2, RouteEffects DEF out
<1>6. /\ req[c].op = "submit" /\ req[c].fields /\ job.state # "absent" /\ job.epoch = req[c].epoch => out.status = 200
      /\ req[c].op = "cancel" /\ req[c].fields /\ size[c] <= FieldLimit /\ job.state = "cancelled" => out.status = 200
  BY <1>2, RouteEffects DEF out
<1>7. size[c] = Server!Total(req[c]) /\ size[c] <= Limit /\ heard[c] = 0
  <2>1. got[c] = Len(req[c].chunks) /\ size[c] = Bytes(req[c])[1..got[c]] /\ size[c] <= Limit
    BY <1>1, <1>2 DEF BodyInv
  <2>. QED BY <1>1, <1>2, <1>3, <2>1, BodyLength DEF RetryInv
<1> HIDE DEF changed
<1>8. /\ effects'[c] = (IF changed THEN effects[c] + 1 ELSE effects[c]) /\ effects' \in [Clients -> Nat]
      /\ \A d \in Clients \ {c} : effects'[d] = effects[d] /\ status'[d] = status[d] /\ pc'[d] = pc[d]
      /\ status'[c] = out.status /\ pc'[c] = "answer"
  BY <1>1, <1>2, <1>4 DEF ServerTypes, Server!TypeOK
<1>9. ServerTypes'
  BY <1>1, <1>2, <1>4, <1>8 DEF ServerTypes, Server!TypeOK
<1>10. BodyInv'
  <2>1. \A d \in Clients : pc'[d] = "replay" => pc[d] = "replay"
    BY <1>8
  <2>. QED BY <1>1, <1>2, <2>1, RequestKept DEF BodyInv
<1>11. \A d \in Clients : Marked(d) => Marked(d)'
  <2>1. session.epoch \in Int /\ out.session.epoch \in Int
    BY <1>2, <1>4 DEF ServerTypes
  <2>. QED BY <1>1, <1>3, <1>4, <2>1 DEF Marked
<1>12. \A d \in Clients : Server!Total(req[d])' = Server!Total(req[d]) /\ req'[d] = req[d]
  BY <1>1, RequestKept
<1> DEFINE Once(d) == req[d].op \in {"advance", "close", "submit", "consume", "cancel"}
<1>13. ASSUME NEW d \in Clients
       PROVE  /\ heard'[d] # 0 => pc'[d] = "over"
              /\ effects'[d] > 0 /\ Once(d) =>
                    /\ effects'[d] = 1 /\ Marked(d)' /\ req[d].token /\ req[d].fields
                    /\ Server!Total(req[d]) <= Limit
                    /\ req[d].op # "submit" => Server!Total(req[d]) <= FieldLimit
              /\ effects'[d] > 0 /\ req[d].op \in {"submit", "cancel"} => status'[d] \in {0, 200} /\ heard'[d] \in {0, 200}
  <2>1. CASE d # c
    BY <1>1, <1>2, <1>8, <1>11, <2>1 DEF RetryInv
  <2>2. CASE d = c /\ ~changed
    <3>1. effects'[c] = effects[c] /\ heard'[c] = 0
      BY <1>1, <1>7, <1>8, <2>2
    <3>2. effects[c] > 0 /\ req[c].op \in {"submit", "cancel"} => out.status = 200
      BY <1>2, <1>6, <1>7, <2>2 DEF RetryInv, Marked
    <3>. QED BY <1>2, <1>8, <1>11, <2>2, <3>1, <3>2 DEF RetryInv
  <2>3. CASE d = c /\ changed
    <3>1. effects'[c] = effects[c] + 1 /\ heard'[c] = 0 /\ status'[c] = 200
      BY <1>1, <1>5, <1>7, <1>8, <2>3
    <3>2. Once(c) => ~Marked(c)
      BY <1>2, <1>3, <1>5, <2>3 DEF Marked, ServerTypes
    <3>3. Once(c) => effects[c] = 0
      BY <1>2, <1>3, <3>2 DEF RetryInv
    <3>4. Once(c) => Marked(c)'
      BY <1>1, <1>5, <2>3 DEF Marked
    <3>. QED BY <1>1, <1>5, <1>7, <2>3, <3>1, <3>3, <3>4
  <2>. QED BY <2>1, <2>2, <2>3
<1>14. RetryInv'
  BY <1>12, <1>13 DEF RetryInv
<1>. QED BY <1>9, <1>10, <1>14 DEF ServerInv

\* The end of an exchange, and what the coordinator does by itself.
LEMMA ServerRest ==
    ASSUME Server!SidecarAssumption, ServerInv,
           \/ \E c \in Clients : Server!Answered(c) \/ Server!AnswerLost(c)
           \/ Server!Complete \/ Server!Deadline \/ Server!Shutdown \/ UNCHANGED Server!vars
    PROVE  ServerInv'
<1>0. ServerTypes /\ BodyInv /\ RetryInv
  BY DEF ServerInv
<1>1. ASSUME NEW c \in Clients, Server!Answered(c) \/ Server!AnswerLost(c) PROVE ServerInv'
  <2>1. /\ pc[c] = "answer" /\ UNCHANGED <<up, req, tries, got, size, status, effects, session, job, fresh>>
        /\ \/ heard' = [heard EXCEPT ![c] = status[c]] /\ pc' = [pc EXCEPT ![c] = "over"]
           \/ heard' = heard /\ pc' = [pc EXCEPT ![c] = "idle"]
    BY <1>1 DEF Server!Answered, Server!AnswerLost
  <2>2. /\ pc \in [Clients -> {"idle", "body", "replay", "answer", "over"}]
        /\ heard \in [Clients -> Nat] /\ status \in [Clients -> Nat]
    BY <1>0 DEF ServerTypes, Server!TypeOK
  <2>3. /\ pc' \in [Clients -> {"idle", "body", "replay", "answer", "over"}] /\ heard' \in [Clients -> Nat]
        /\ \A d \in Clients \ {c} : pc'[d] = pc[d] /\ heard'[d] = heard[d]
        /\ pc'[c] # "replay"
        /\ \/ heard'[c] = status[c] /\ pc'[c] = "over"
           \/ heard'[c] = heard[c] /\ pc'[c] = "idle"
    BY <2>1, <2>2
  <2>4. ServerTypes'
    BY <1>0, <2>1, <2>3 DEF ServerTypes, Server!TypeOK
  <2>5. BodyInv'
    BY <1>0, <2>1, <2>3, RequestKept DEF BodyInv
  <2>6. RetryInv'
    <3>1. \A d \in Clients : Server!Total(req[d])' = Server!Total(req[d]) /\ req'[d] = req[d]
      BY <2>1, RequestKept
    <3>2. \A d \in Clients : Marked(d)' = Marked(d)
      BY <2>1 DEF Marked
    <3>3. ASSUME NEW d \in Clients
          PROVE  /\ heard'[d] # 0 => pc'[d] = "over"
                 /\ effects[d] > 0 /\ req[d].op \in {"submit", "cancel"} => status[d] \in {0, 200} /\ heard'[d] \in {0, 200}
      <4>1. CASE d = c
        BY <1>0, <2>1, <2>3, <4>1 DEF RetryInv
      <4>2. CASE d # c
        BY <1>0, <2>3, <4>2 DEF RetryInv
      <4>. QED BY <4>1, <4>2
    <3>. QED BY <1>0, <2>1, <3>1, <3>2, <3>3 DEF RetryInv
  <2>. QED BY <2>4, <2>5, <2>6 DEF ServerInv
<1>2. CASE Server!Complete \/ Server!Deadline \/ Server!Shutdown \/ UNCHANGED Server!vars
  <2>1. /\ UNCHANGED <<req, tries, pc, got, size, status, heard, effects, session>>
        /\ up' \in BOOLEAN /\ fresh' \in BOOLEAN
        /\ job' = job \/ (job.state = "queued" /\ \E st \in {"succeeded", "expired", "cancelled"} : job' = [job EXCEPT !.state = st])
    BY <1>0, <1>2 DEF Server!Complete, Server!Deadline, Server!Shutdown, Server!vars, Server!connVars, ServerTypes,
       Server!TypeOK
  <2>2. /\ job' \in [state : {"absent", "rejected", "queued", "succeeded", "consumed", "cancelled", "stale", "expired"},
                     epoch : Nat, by : {"nobody"} \cup Clients]
        /\ job'.epoch = job.epoch /\ (job.state # "queued" => job' = job)
        /\ job.state = "queued" => job'.state # "absent"
    BY <1>0, <2>1 DEF ServerTypes
  <2>3. ServerTypes'
    BY <1>0, <2>1, <2>2 DEF ServerTypes, Server!TypeOK
  <2>4. BodyInv'
    BY <1>0, <2>1, RequestKept DEF BodyInv
  <2>5. RetryInv'
    <3>1. \A d \in Clients : Server!Total(req[d])' = Server!Total(req[d]) /\ req'[d] = req[d]
      BY <2>1, RequestKept
    <3>2. \A d \in Clients : Marked(d) => Marked(d)'
      BY <2>1, <2>2 DEF Marked
    <3>. QED BY <1>0, <2>1, <3>1, <3>2 DEF RetryInv
  <2>. QED BY <2>3, <2>4, <2>5 DEF ServerInv
<1>. QED BY <1>1, <1>2

\* The invariant of the sidecar, for every number of clients and every bound.
LEMMA ServerInvariant ==
    ASSUME Server!SidecarAssumption PROVE Server!Spec => []ServerInv
<1>1. Server!Init => ServerInv
  <2>1. SUFFICES ASSUME Server!Init PROVE ServerInv
    OBVIOUS
  <2>2. ServerTypes
    <3>1. /\ session \in [state : {"absent", "active", "closed"}, epoch : Int, buffer : Nat]
          /\ job \in [state : {"absent", "rejected", "queued", "succeeded", "consumed", "cancelled", "stale", "expired"},
                      epoch : Nat, by : {"nobody"} \cup Clients]
      BY <2>1 DEF Server!Init, Server!NoSession, Server!NoJob
    <3>. QED BY <2>1, <3>1 DEF Server!Init, ServerTypes, Server!TypeOK, Server!SidecarAssumption
  <2>3. BodyInv
    <3>1. \A c \in Clients : /\ got[c] = 0 /\ size[c] = 0 /\ pc[c] = "idle" /\ req[c] \in Server!Request /\ Limit \in Nat
      BY <2>1, <2>2, ServerBasics DEF Server!Init
    <3>. QED BY <3>1, BodyLength DEF BodyInv
  <2>4. RetryInv
    BY <2>1 DEF Server!Init, RetryInv
  <2>. QED BY <2>2, <2>3, <2>4 DEF ServerInv
<1>2. ServerInv /\ [Server!Next]_Server!vars => ServerInv'
  BY ServerBody, ServerHandles, ServerRest DEF Server!Next
<1>. QED BY <1>1, <1>2, PTL DEF Server!Spec

\* However a body is cut into chunks, no more than the bound is buffered, and a handler gets
\* the whole of it.
THEOREM BodiesBounded == Spec => []BoundedAndWhole
<1>1. ServerInv => BoundedAndWhole
  <2>1. SUFFICES ASSUME ServerInv, NEW c \in Clients
                 PROVE  /\ size[c] <= Limit
                        /\ pc[c] = "replay" => got[c] = Len(req[c].chunks) /\ size[c] = Server!Total(req[c])
    BY DEF BoundedAndWhole, Server!BoundedAndWhole
  <2>2. req[c] \in Server!Request
    BY <2>1, ServerBasics, HostsAssumption DEF ServerInv
  <2>. QED BY <2>1, <2>2, BodyLength DEF ServerInv, BodyInv
<1>2. Server!Spec => []ServerInv
  BY HostsAssumption, ServerInvariant
<1>. QED BY <1>1, <1>2, PartsRun, PTL

\* However many clients repeat their requests, and whatever is lost, an advance, a submission,
\* a claim or a cancellation is applied once, and no later answer denies it.
THEOREM RetriesApplyOnce == Spec => []RetryAppliesOnce
<1>1. ServerInv => RetryAppliesOnce
  <2>1. SUFFICES ASSUME ServerInv, NEW c \in Clients
                 PROVE  /\ req[c].op \in {"advance", "close", "submit", "consume", "cancel"} => effects[c] <= 1
                        /\ req[c].op \in {"submit", "cancel"} /\ effects[c] > 0 => heard[c] \in {0, 200}
    BY DEF RetryAppliesOnce, Server!RetryAppliesOnce
  <2>2. effects[c] \in Nat
    BY <2>1, ServerBasics, HostsAssumption DEF ServerInv
  <2>. QED BY <2>1, <2>2 DEF ServerInv, RetryInv
<1>2. Server!Spec => []ServerInv
  BY HostsAssumption, ServerInvariant
<1>. QED BY <1>1, <1>2, PartsRun, PTL
=============================================================================
