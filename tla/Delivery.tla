------------------------------ MODULE Delivery ------------------------------
(***************************************************************************)
(* The delivery of a result to the application: Runtime.consume on the     *)
(* server's clock, an unreliable network, and Client.validate_delivery on  *)
(* the local clock, through a ClockMap whose error is bounded only until   *)
(* its validity ends.  Client and server clocks run independently; the     *)
(* task epoch and the host's buffer may change while a message is under    *)
(* way.                                                                    *)
(***************************************************************************)
EXTENDS Integers

CONSTANTS
    Jobs,         \* job identifiers
    Body,         \* [Jobs -> JobBody]
    Consumers,
    Offset, MapError, MapValidUntil,    \* ClockMap server -> local
    MaxError,     \* max_mapping_error_ns of the consumer
    Useful,       \* local_useful_until_ns, or NoUseful
    Spans,        \* how far ahead of the clock a heartbeat announces the end of the buffer (60 s at most)
    MaxTime, MaxEpoch    \* bounds of the instance

NoUseful == -1
NoBuffer == -1        \* Session.buffer_until_ns is None
Nobody == "nobody"    \* consumed_by is None
JobBody == [epoch : Nat, clock : {"server", "earlier"}, snapshot : Nat, deadline : Nat, current : BOOLEAN,
            capture : Nat, age : Nat, uncertainty : Nat, policy : BOOLEAN]

DeliveryAssumption ==
    /\ Body \in [Jobs -> JobBody]
    /\ Offset \in Int /\ MapError \in Nat /\ MapValidUntil \in Nat
    /\ MaxError \in Nat /\ Useful \in Nat \cup {NoUseful}
    /\ Spans \subseteq Nat /\ MaxTime \in Nat /\ MaxEpoch \in Nat
    /\ Nobody \notin Consumers

VARIABLES
    now, local,          \* the two monotonic clocks
    epoch, localEpoch,   \* the session at the server and at the application
    buffer,              \* Session.buffer_until_ns: when the host's action buffer runs out
    owner,               \* Receipt.consumed_by
    requests, replies,   \* messages under way
    accepted, reported   \* DeliveryChecks returned; outcomes recorded

vars == <<now, local, epoch, localEpoch, buffer, owner, requests, replies, accepted, reported>>

Message == [job : Jobs, consumer : Consumers]
Check == [job : Jobs, consumer : Consumers, until : Int, at : Nat, epoch : Nat]

TypeOK ==
    /\ now \in Nat /\ local \in Nat /\ epoch \in Nat /\ localEpoch \in Nat
    /\ buffer \in Nat \cup {NoBuffer}
    /\ owner \in [Jobs -> Consumers \cup {Nobody}]
    /\ requests \subseteq Message /\ replies \subseteq Message
    /\ accepted \subseteq Check /\ reported \subseteq Message

\* The promise of a ClockMap: local time is server time plus Offset, give or take
\* MapError, until the map expires.
Synchronised(s, l) == l <= MapValidUntil => /\ l <= s + Offset + MapError
                                            /\ l >= s + Offset - MapError

Init ==
    /\ now \in 0..MaxTime /\ local \in 0..MaxTime /\ Synchronised(now, local)
    /\ epoch = 0 /\ localEpoch = 0 /\ buffer = NoBuffer
    /\ owner = [j \in Jobs |-> Nobody]
    /\ requests = {} /\ replies = {} /\ accepted = {} /\ reported = {}

Lesser(a, b) == IF a <= b THEN a ELSE b

-----------------------------------------------------------------------------
\* The server.

\* What the job itself says: its deadline and, unless it is historical, the age of its evidence.
FreshUntil(j) ==
    IF Body[j].current
    THEN Lesser(Body[j].deadline, Body[j].capture + Body[j].age - Body[j].uncertainty)
    ELSE Body[j].deadline

\* Job.latest_ns: a policy job is moreover worth nothing once the host's buffer ran out.
LatestNs(j) ==
    IF Body[j].policy /\ buffer # NoBuffer THEN Lesser(FreshUntil(j), buffer) ELSE FreshUntil(j)

InvalidReason(j) ==
    \/ Body[j].clock # "server" \/ Body[j].epoch # epoch
    \/ now < Body[j].snapshot
    \/ now >= LatestNs(j)

\* Mutant: whoever asks for a claimed result is given it.
ServerConsume_AnyConsumer(m) ==
    /\ m \in requests /\ requests' = requests \ {m}
    /\ ~InvalidReason(m.job)
    /\ owner' = [owner EXCEPT ![m.job] = m.consumer]
    /\ replies' \in {replies, replies \cup {m}}
    /\ UNCHANGED <<now, local, epoch, localEpoch, buffer, accepted, reported>>

\* Runtime.consume: the claim is durable before the reply, and the reply may be
\* lost; asking again as the same consumer gives the same receipt.  The host's buffer
\* is looked at here, and nowhere later.
ServerConsume(m) ==
    /\ m \in requests /\ requests' = requests \ {m}
    /\ ~InvalidReason(m.job)
    /\ owner[m.job] \in {Nobody, m.consumer}
    /\ owner' = [owner EXCEPT ![m.job] = m.consumer]
    /\ replies' \in {replies, replies \cup {m}}
    /\ UNCHANGED <<now, local, epoch, localEpoch, buffer, accepted, reported>>

\* The request is refused, or lost on its way.
ServerRefuse(m) ==
    /\ m \in requests /\ requests' = requests \ {m}
    /\ UNCHANGED <<now, local, epoch, localEpoch, buffer, owner, replies, accepted, reported>>

\* The next epoch's Session has no buffer_until_ns.
AdvanceSession ==
    /\ epoch < MaxEpoch /\ epoch' = epoch + 1 /\ buffer' = NoBuffer
    /\ UNCHANGED <<now, local, localEpoch, owner, requests, replies, accepted, reported>>

\* Runtime.heartbeat of the session's epoch.
Heartbeat ==
    /\ buffer' \in {NoBuffer} \cup {now + span : span \in Spans}
    /\ UNCHANGED <<now, local, epoch, localEpoch, owner, requests, replies, accepted, reported>>

RecordOutcome(m) ==
    /\ owner[m.job] = m.consumer
    /\ reported' = reported \cup {m}
    /\ UNCHANGED <<now, local, epoch, localEpoch, buffer, owner, requests, replies, accepted>>

-----------------------------------------------------------------------------
\* The application.

Ask(m) ==
    /\ requests' = requests \cup {m}
    /\ UNCHANGED <<now, local, epoch, localEpoch, buffer, owner, replies, accepted, reported>>

Reset ==
    /\ localEpoch < MaxEpoch /\ localEpoch' = localEpoch + 1
    /\ UNCHANGED <<now, local, epoch, buffer, owner, requests, replies, accepted, reported>>

\* ClockMap.map: defined only while the map is valid and for a mapped time that
\* is not negative.
Mappable(t) == local <= MapValidUntil /\ t + Offset >= 0

\* Mutant: the deadline is mapped without taking off the error of the map.
LatestLocal_NoError(j) ==
    LET deadline == Body[j].deadline + Offset
        aged == IF Body[j].current
                THEN Lesser(deadline, Body[j].capture + Offset + Body[j].age - Body[j].uncertainty - MapError)
                ELSE deadline
    IN  IF Body[j].policy THEN Lesser(aged, Useful) ELSE aged

\* FreshUntil on the local clock, at its earliest; of a policy job no later than the consumer's
\* own bound, which takes the place of the server's buffer.
LatestLocal(j) ==
    LET deadline == Body[j].deadline + Offset - MapError
        aged == IF Body[j].current
                THEN Lesser(deadline, Body[j].capture + Offset + Body[j].age - Body[j].uncertainty - MapError)
                ELSE deadline
    IN  IF Body[j].policy THEN Lesser(aged, Useful) ELSE aged

\* Mutant: a map past its validity is used all the same.
DeliveryRefused_ExpiredMap(j) ==
    \/ Body[j].epoch # localEpoch
    \/ Body[j].clock # "server" \/ MapError > MaxError
    \/ Body[j].policy /\ Useful = NoUseful
    \/ local >= LatestLocal(j)

DeliveryRefused(j) ==
    \/ Body[j].epoch # localEpoch
    \/ Body[j].clock # "server" \/ MapError > MaxError
    \/ ~Mappable(Body[j].deadline) \/ (Body[j].current /\ ~Mappable(Body[j].capture))
    \/ Body[j].policy /\ Useful = NoUseful
    \/ local >= LatestLocal(j)

\* validate_delivery of a reply that arrived: it is this job's receipt, consumed by
\* this consumer.
ValidateDelivery(m) ==
    /\ m \in replies /\ replies' = replies \ {m}
    /\ ~DeliveryRefused(m.job)
    /\ accepted' = accepted \cup {[job |-> m.job, consumer |-> m.consumer, until |-> LatestLocal(m.job),
                                   at |-> now, epoch |-> localEpoch]}
    /\ UNCHANGED <<now, local, epoch, localEpoch, buffer, owner, requests, reported>>

RefuseDelivery(m) ==
    /\ m \in replies /\ replies' = replies \ {m}
    /\ DeliveryRefused(m.job)
    /\ UNCHANGED <<now, local, epoch, localEpoch, buffer, owner, requests, accepted, reported>>

-----------------------------------------------------------------------------
\* Either clock moves forward; past the map's validity they may drift apart.
AdvanceClocks(s, l) ==
    /\ now + s <= MaxTime /\ local + l <= MaxTime
    /\ Synchronised(now + s, local + l)
    /\ now' = now + s /\ local' = local + l
    /\ UNCHANGED <<epoch, localEpoch, buffer, owner, requests, replies, accepted, reported>>

Next ==
    \/ \E m \in Message : \/ Ask(m) \/ ServerConsume(m) \/ ServerRefuse(m) \/ RecordOutcome(m)
                          \/ ValidateDelivery(m) \/ RefuseDelivery(m)
    \/ AdvanceSession \/ Heartbeat \/ Reset
    \/ \E s, l \in 0..1 : AdvanceClocks(s, l)

Spec == Init /\ [][Next]_vars

-----------------------------------------------------------------------------
\* Properties.

\* "Server-side acceptance alone cannot establish freshness": when a delivery is
\* accepted, the server's own clock has not reached the job's deadline nor the age bound
\* of its evidence and the application is in the job's epoch, however long the reply took
\* and however far the local clock is off; and a policy result is accepted only for as
\* long as its consumer said.  The server's view of the host's buffer is no part of this:
\* it may have run out since the claim.
FreshOnDelivery ==
    \A c \in accepted :
        /\ c.at < FreshUntil(c.job) /\ c.epoch = Body[c.job].epoch
        /\ Body[c.job].policy => c.until <= Useful

\* valid_until_local_ns keeps its word: before it, and while the map is valid, the
\* result is within its deadline and age bound on the server's clock.
ValidUntilKept ==
    \A c \in accepted : local < c.until /\ local <= MapValidUntil => now < FreshUntil(c.job)

\* Lost replies and repeated requests never let two consumers act on one result, or
\* one act and the other report.
OneClaimant ==
    \A c \in accepted \cup replies \cup reported, d \in accepted \cup replies \cup reported :
        c.job = d.job => c.consumer = d.consumer
=============================================================================
