---------------------------- MODULE NativePolicy ----------------------------
(***************************************************************************)
(* The native policy adapter (adapters/native_policy.py) in the campaign   *)
(* it was written for (tools/r6_native_policy_compare.py): a cohort of     *)
(* packets goes to a policy server directly and then through the           *)
(* coordinator, with a reset before each path, and the two lists of action *)
(* proposals are compared.                                                 *)
(*                                                                         *)
(* The policy server is external and has hidden state: a proposal depends  *)
(* on every packet since its last reset.  Requests and responses get lost, *)
(* calls fail, the server restarts, and it may repeat an earlier answer.   *)
(***************************************************************************)
EXTENDS Integers, Sequences

CONSTANTS
    Cohorts,      \* sequences of packets a campaign may be given
    MaxRows,      \* 256 rows of an action chunk
    MaxFaults     \* bound of the instance

Stamp == [session : Nat, epoch : Nat, sequence : Nat]
Packet == [stamp : Stamp, valid : BOOLEAN]

PolicyAssumption == Cohorts \subseteq Seq(Packet) /\ MaxRows \in Nat \ {0} /\ MaxFaults \in Nat

VARIABLES
    packets,      \* the cohort
    pc,           \* "check", "reset", "infer", "judge", "over"
    path,         \* "direct" or "routed"
    direct, routed,   \* validated proposals of each path
    call,         \* the RPC under way: [method, stamp, phase, result], or NoCall
    server,       \* external: [session, epoch, seen] of the policy server, its last answer
    outcome,      \* "none", "passed", "failed", or "refused" before anything is sent
    faults        \* faults so far

vars == <<packets, pc, path, direct, routed, call, server, outcome, faults>>

NoCall == [method |-> "none"]
NoAnswer == [stamp |-> [session |-> 0, epoch |-> 0, sequence |-> 0], rows |-> 0, seen |-> <<>>]
Fresh == [session |-> 0, epoch |-> 0, seen |-> <<>>, last |-> NoAnswer]

TypeOK ==
    /\ packets \in Cohorts /\ pc \in {"check", "reset", "infer", "judge", "over"} /\ path \in {"direct", "routed"}
    /\ outcome \in {"none", "passed", "failed", "refused"} /\ faults \in 0..MaxFaults

Init ==
    /\ packets \in Cohorts /\ pc = "check" /\ path = "direct"
    /\ direct = <<>> /\ routed = <<>> /\ call = NoCall /\ server = Fresh
    /\ outcome = "none" /\ faults = 0

-----------------------------------------------------------------------------
\* The packets.

Generation(stamp) == <<stamp.session, stamp.epoch>>

\* read_packet and the cohort checks: valid packets of one generation, in order.
ValidCohort ==
    /\ packets # <<>> /\ \A k \in DOMAIN packets : packets[k].valid
    /\ \A k \in DOMAIN packets : Generation(packets[k].stamp) = Generation(packets[1].stamp)
    /\ \A k \in DOMAIN packets \ {1} : packets[k].stamp.sequence > packets[k - 1].stamp.sequence

Check ==
    /\ pc = "check"
    /\ IF ValidCohort THEN pc' = "reset" /\ UNCHANGED outcome ELSE pc' = "over" /\ outcome' = "refused"
    /\ UNCHANGED <<packets, path, direct, routed, call, server, faults>>

Taken == IF path = "direct" THEN direct ELSE routed
Current == packets[Len(Taken) + 1]

-----------------------------------------------------------------------------
\* One RPC.

Rpc(method, stamp) == [method |-> method, stamp |-> stamp, phase |-> "sent", result |-> NoAnswer]

SendReset ==
    /\ pc = "reset" /\ call = NoCall
    /\ call' = Rpc("reset", packets[1].stamp)
    /\ UNCHANGED <<packets, pc, path, direct, routed, server, outcome, faults>>

\* Directly, or from the backend of the job that was submitted for the packet.
SendInfer ==
    /\ pc = "infer" /\ call = NoCall /\ Len(Taken) < Len(packets)
    /\ call' = Rpc("infer", Current.stamp)
    /\ UNCHANGED <<packets, pc, path, direct, routed, server, outcome, faults>>

\* The server resets its hidden state, or adds the packet to it and proposes actions.
ServerHandles ==
    /\ call # NoCall /\ call.phase = "sent"
    /\ \/ /\ call.method = "reset"
          /\ server' = [server EXCEPT !.session = call.stamp.session, !.epoch = call.stamp.epoch, !.seen = <<>>]
          /\ call' = [call EXCEPT !.phase = "answered", !.result = [NoAnswer EXCEPT !.stamp = call.stamp]]
       \/ /\ call.method = "infer" /\ Generation(call.stamp) = <<server.session, server.epoch>>
          /\ LET seen == Append(server.seen, call.stamp.sequence)
                 answer == [stamp |-> call.stamp, rows |-> 1, seen |-> seen]
             IN  /\ server' = [server EXCEPT !.seen = seen, !.last = answer]
                 /\ call' = [call EXCEPT !.phase = "answered", !.result = answer]
    /\ UNCHANGED <<packets, pc, path, direct, routed, outcome, faults>>

\* ok is not true: a packet of a generation the server was not reset to.
ServerRefuses ==
    /\ call # NoCall /\ call.phase = "sent" /\ call.method = "infer"
    /\ Generation(call.stamp) # <<server.session, server.epoch>>
    /\ call' = [call EXCEPT !.phase = "failed"]
    /\ UNCHANGED <<packets, pc, path, direct, routed, server, outcome, faults>>

\* A fault: the request or the response is lost, the status is not 200, the answer is an
\* earlier one or has no rows, the job's deadline passes, or the server restarts.
Fault ==
    /\ faults < MaxFaults /\ faults' = faults + 1
    /\ \/ /\ call # NoCall /\ call.phase \in {"sent", "answered"}
          /\ call' = [call EXCEPT !.phase = "failed"] /\ UNCHANGED server
       \/ /\ call # NoCall /\ call.phase = "sent" /\ call.method = "infer"
          /\ \E answer \in {server.last, [server.last EXCEPT !.stamp = call.stamp, !.rows = MaxRows + 1]} :
                call' = [call EXCEPT !.phase = "answered", !.result = answer]
          /\ UNCHANGED server
       \/ server' = [Fresh EXCEPT !.last = server.last] /\ server # server' /\ UNCHANGED call
    /\ UNCHANGED <<packets, pc, path, direct, routed, outcome>>

-----------------------------------------------------------------------------
\* What the driver does with it.

\* validate_native_result.
ValidResult(result, stamp) == result.stamp = stamp /\ result.rows \in 1..MaxRows

Failed == pc' = "over" /\ outcome' = "failed" /\ call' = NoCall

\* Mutant: a call that failed is sent again.
CallFailed_Retried ==
    /\ call # NoCall /\ call.phase = "failed"
    /\ call' = [call EXCEPT !.phase = "sent"]
    /\ UNCHANGED <<packets, pc, path, direct, routed, server, outcome, faults>>

\* BackendFailure, or a job that did not succeed: the campaign reports failure and stops.
CallFailed ==
    /\ call # NoCall /\ call.phase = "failed"
    /\ Failed
    /\ UNCHANGED <<packets, path, direct, routed, server, faults>>

ResetDone ==
    /\ call # NoCall /\ call.phase = "answered" /\ call.method = "reset"
    /\ IF call.result.stamp = packets[1].stamp
       THEN pc' = "infer" /\ call' = NoCall /\ UNCHANGED outcome ELSE Failed
    /\ UNCHANGED <<packets, path, direct, routed, server, faults>>

InferDone ==
    /\ call # NoCall /\ call.phase = "answered" /\ call.method = "infer"
    /\ IF ValidResult(call.result, Current.stamp)
       THEN /\ IF path = "direct" THEN direct' = Append(direct, call.result) /\ UNCHANGED routed
                                  ELSE routed' = Append(routed, call.result) /\ UNCHANGED direct
            /\ call' = NoCall /\ UNCHANGED <<pc, outcome>>
       ELSE Failed /\ UNCHANGED <<direct, routed>>
    /\ UNCHANGED <<packets, path, server, faults>>

\* Mutant: the server is not reset between the paths.
NextPath_NoReset ==
    /\ pc = "infer" /\ call = NoCall /\ Len(Taken) = Len(packets)
    /\ IF path = "direct" THEN path' = "routed" /\ pc' = "infer" ELSE pc' = "judge" /\ UNCHANGED path
    /\ UNCHANGED <<packets, direct, routed, call, server, outcome, faults>>

NextPath ==
    /\ pc = "infer" /\ call = NoCall /\ Len(Taken) = Len(packets)
    /\ IF path = "direct" THEN path' = "routed" /\ pc' = "reset" ELSE pc' = "judge" /\ UNCHANGED path
    /\ UNCHANGED <<packets, direct, routed, call, server, outcome, faults>>

Judge ==
    /\ pc = "judge"
    /\ outcome' = IF direct = routed THEN "passed" ELSE "failed"
    /\ pc' = "over"
    /\ UNCHANGED <<packets, path, direct, routed, call, server, faults>>

Next ==
    \/ Check \/ SendReset \/ SendInfer \/ ServerHandles \/ ServerRefuses \/ Fault
    \/ CallFailed \/ ResetDone \/ InferDone \/ NextPath \/ Judge
Spec == Init /\ [][Next]_vars

-----------------------------------------------------------------------------
\* Properties.

\* The verdict is sound: a campaign that passed has two proposals for every packet, each
\* bound to that packet's stamp, so that equality is never equality of stale answers; and
\* as the adapter "does not migrate or invent hidden policy state", without a fault the
\* routed path sees the same server as the direct one and a valid campaign passes.
VerdictSound ==
    /\ outcome = "passed" =>
          /\ Len(direct) = Len(packets) /\ Len(routed) = Len(packets)
          /\ \A k \in DOMAIN packets : direct[k].stamp = packets[k].stamp /\ routed[k].stamp = packets[k].stamp
    /\ pc = "over" /\ faults = 0 => outcome \in {"passed", "refused"} /\ (outcome = "passed" <=> ValidCohort)

\* No packet reaches the hidden state twice between two resets, and none out of order,
\* whatever was lost: a call whose fate is unknown is never sent again.
SeenInOrder == \A i, j \in DOMAIN server.seen : i < j => server.seen[i] < server.seen[j]
=============================================================================
