-------------------------- MODULE ExperimentProofs --------------------------
(***************************************************************************)
(* Theorems about the machinery of experiments: the fault proxy, the       *)
(* native policy comparison, the sequential campaigns, the load driver and *)
(* the scheduler replay.  Each part is an instance of its module, for      *)
(* every value of its constants that the part's own assumption admits.     *)
(***************************************************************************)
EXTENDS Experiments, SumProofs

\* The parts share no state: a behaviour of the whole is one of each part.
LEMMA PartsRun ==
    Spec => /\ Simulator!Spec /\ Sequential!Spec /\ Policy!Spec
            /\ Load!Init /\ [][Load!Next]_Load!vars
            /\ Proxy!Init /\ [][Proxy!Next]_Proxy!vars
<1>1. Init => Simulator!Init /\ Load!Init /\ Sequential!Init /\ Policy!Init /\ Proxy!Init
  BY DEF Init
<1>2. [Next]_vars => [Simulator!Next]_Simulator!vars
  BY DEF Next, vars, replay, Simulator!vars
<1>3. [Next]_vars => [Load!Next]_Load!vars
  BY DEF Next, vars, load, Load!vars
<1>4. [Next]_vars => [Sequential!Next]_Sequential!vars
  BY DEF Next, vars, campaign, Sequential!vars, Sequential!coordinator
<1>5. [Next]_vars => [Policy!Next]_Policy!vars
  BY DEF Next, vars, policy, Policy!vars
<1>6. [Next]_vars => [Proxy!Next]_Proxy!vars
  BY DEF Next, vars, proxy, Proxy!vars
<1>. QED BY <1>1, <1>2, <1>3, <1>4, <1>5, <1>6, PTL DEF Spec, Simulator!Spec, Sequential!Spec, Policy!Spec

-----------------------------------------------------------------------------
(* FaultProxy: the record comes before the loss.                           *)

\* A handler that is past its record has written one, and only such a handler closes.
ProxyInv ==
    /\ Proxy!TypeOK
    /\ \A r \in Requests : handler[r] = "return" => log[r] # "none"
    /\ Proxy!LossIsRecorded

\* Every step of a handler keeps the invariant.
LEMMA ProxyStep ==
    ASSUME Proxy!ProxyAssumption, ProxyInv, [Proxy!Next]_Proxy!vars PROVE ProxyInv'
<1> USE DEF ProxyInv, Proxy!TypeOK, Proxy!LossIsRecorded, Proxy!Goto
<1>1. ASSUME NEW r \in Requests, Proxy!Accept(r) \/ Proxy!Decide(r) \/ Proxy!Load(r) \/ Proxy!Decrement(r)
      PROVE  ProxyInv'
  BY <1>1 DEF Proxy!Accept, Proxy!Decide, Proxy!Load, Proxy!Decrement
<1>6. ASSUME NEW r \in Requests, Proxy!Receive(r) \/ Proxy!ClientLeaves(r) PROVE ProxyInv'
  BY <1>6 DEF Proxy!Receive, Proxy!ClientLeaves
<1>2. ASSUME NEW r \in Requests, Proxy!Forward(r) \/ Proxy!Respond(r) PROVE ProxyInv'
  BY <1>2 DEF Proxy!Forward, Proxy!Respond
<1>3. ASSUME NEW r \in Requests, Proxy!WriteRecord(r) PROVE ProxyInv'
  BY <1>3 DEF Proxy!WriteRecord, Proxy!Disposition
<1>4. ASSUME NEW r \in Requests, Proxy!Return(r) PROVE ProxyInv'
  BY <1>4 DEF Proxy!Return
<1>5. CASE UNCHANGED Proxy!vars
  BY <1>5 DEF Proxy!vars
<1>. QED BY <1>1, <1>2, <1>3, <1>4, <1>5, <1>6 DEF Proxy!Next, Proxy!Handler

\* However many handlers race on the shared counter, a client whose connection was closed
\* without a response finds its request in the log.
THEOREM LossRecorded == Spec => []LossIsRecorded
<1> Proxy!ProxyAssumption
  BY ExperimentsAssumption
<1>1. Proxy!Init => ProxyInv
  BY DEF Proxy!Init, ProxyInv, Proxy!TypeOK, Proxy!LossIsRecorded, Proxy!ProxyAssumption
<1>2. ProxyInv => Proxy!LossIsRecorded
  BY DEF ProxyInv
<1>. QED BY <1>1, <1>2, ProxyStep, PartsRun, PTL DEF LossIsRecorded

-----------------------------------------------------------------------------
(* NativePolicy: the verdict of a comparison.                              *)

Answer == [stamp : Policy!Stamp, rows : Nat, seen : Seq(Nat)]
Rpcs == [method : {"reset", "infer"}, stamp : Policy!Stamp, phase : {"sent", "answered", "failed"}, result : Answer]

\* The kinds of the variables that TypeOK leaves open.
PolicyTypes ==
    /\ Policy!TypeOK
    /\ expected \in Seq(Answer) /\ routed \in Seq(Answer)
    /\ call = Policy!NoCall \/ call \in Rpcs
    /\ server \in [session : Nat, epoch : Nat, seen : Seq(Nat), last : Answer]

\* Where the driver is, and what it has by then: one list after the other, each filled in
\* the order of the packets and with answers that bear their stamps.
PolicyControl ==
    /\ stage \notin {"check", "over"} => Policy!ValidCohort /\ outcome = "none"
    /\ stage = "check" => outcome = "none" /\ expected = <<>> /\ server.seen = <<>>
    /\ stage \in {"check", "judge", "over"} => call = Policy!NoCall
    /\ stage \in {"check", "reset"} => Policy!Taken = <<>>
    /\ stage = "judge" => path = "routed" /\ Len(routed) = Len(packets)
    /\ path = "direct" => routed = <<>>
    /\ path = "routed" => Len(expected) = Len(packets)
    /\ Len(Policy!Taken) <= Len(packets)
    /\ \A k \in DOMAIN expected : expected[k].stamp = packets[k].stamp
    /\ \A k \in DOMAIN routed : routed[k].stamp = packets[k].stamp
    /\ call # Policy!NoCall /\ stage = "reset" =>
          /\ call.method = "reset" /\ call.stamp = packets[1].stamp
          /\ call.phase = "answered" => call.result.stamp = packets[1].stamp /\ server.seen = <<>>
    /\ call # Policy!NoCall /\ stage = "infer" =>
          /\ call.method = "infer" /\ Len(Policy!Taken) < Len(packets)
          /\ call.stamp = packets[Len(Policy!Taken) + 1].stamp

\* How many packets of this path may have reached the server.
Reached == Len(Policy!Taken) + (IF call # Policy!NoCall /\ call.phase # "sent" THEN 1 ELSE 0)

\* What the server has seen since its reset is not newer than the last packet sent.
SeenBelow ==
    stage = "infer" => \A i \in DOMAIN server.seen :
        Reached >= 1 /\ server.seen[i] <= packets[Reached].stamp.sequence

\* What a server proposes for packet k if it has seen the packets before it.
Proposal(k) ==
    [stamp |-> packets[k].stamp, rows |-> 1, seen |-> [j \in 1..k |-> packets[j].stamp.sequence]]

\* Without a fault the server is in the packets' generation and has seen each of them, and
\* every answer of either path is the one proposal.
Faultless ==
    /\ call # Policy!NoCall => call.phase # "failed"
    /\ \A k \in DOMAIN expected : expected[k] = Proposal(k)
    /\ \A k \in DOMAIN routed : routed[k] = Proposal(k)
    /\ stage = "infer" \/ (stage = "reset" /\ call # Policy!NoCall /\ call.phase = "answered") =>
          /\ Policy!Generation(packets[1].stamp) = <<server.session, server.epoch>>
          /\ stage = "infer" => server.seen = [j \in 1..Reached |-> packets[j].stamp.sequence]
    /\ call # Policy!NoCall /\ stage = "infer" /\ call.phase = "answered" => call.result = Proposal(Reached)
    /\ stage = "over" => outcome \in {"passed", "refused"} /\ (outcome = "passed" <=> Policy!ValidCohort)

PolicyInv ==
    /\ PolicyTypes /\ PolicyControl
    /\ Policy!SeenInOrder /\ SeenBelow
    /\ faults = 0 => Faultless
    /\ outcome = "passed" => Len(expected) = Len(packets) /\ Len(routed) = Len(packets)

\* A cohort that was not refused: packets of one generation, with stamps of their kind.
LEMMA CohortStamps ==
    ASSUME Policy!PolicyAssumption, Policy!TypeOK
    PROVE  /\ packets \in Seq(Policy!Packet) /\ Len(packets) \in Nat /\ DOMAIN packets = 1..Len(packets)
           /\ \A k \in 1..Len(packets) : /\ packets[k].stamp \in Policy!Stamp
                                         /\ packets[k].stamp.sequence \in Nat
           /\ Policy!ValidCohort =>
                 /\ Len(packets) >= 1
                 /\ \A k \in 1..Len(packets) : /\ packets[k].stamp.session = packets[1].stamp.session
                                               /\ packets[k].stamp.epoch = packets[1].stamp.epoch
                 /\ \A k \in 1..Len(packets) : k > 1 =>
                       packets[k - 1].stamp.sequence < packets[k].stamp.sequence
<1>1. packets \in Seq(Policy!Packet)
  BY DEF Policy!PolicyAssumption, Policy!TypeOK
<1>2. Len(packets) \in Nat /\ DOMAIN packets = 1..Len(packets)
      /\ \A k \in 1..Len(packets) : packets[k] \in Policy!Packet
  BY <1>1
<1>3. \A k \in 1..Len(packets) : packets[k].stamp \in Policy!Stamp /\ packets[k].stamp.sequence \in Nat
  BY <1>2 DEF Policy!Packet, Policy!Stamp
<1>4. ASSUME Policy!ValidCohort
      PROVE  /\ Len(packets) >= 1
             /\ \A k \in 1..Len(packets) : /\ packets[k].stamp.session = packets[1].stamp.session
                                           /\ packets[k].stamp.epoch = packets[1].stamp.epoch
             /\ \A k \in 1..Len(packets) : k > 1 => packets[k - 1].stamp.sequence < packets[k].stamp.sequence
  <2>1. Len(packets) >= 1
    BY <1>1, <1>4 DEF Policy!ValidCohort
  <2>2. \A k \in 1..Len(packets) : /\ packets[k].stamp.session = packets[1].stamp.session
                                   /\ packets[k].stamp.epoch = packets[1].stamp.epoch
    BY <1>2, <1>4 DEF Policy!ValidCohort, Policy!Generation
  <2>3. ASSUME NEW k \in 1..Len(packets), k > 1
        PROVE  packets[k - 1].stamp.sequence < packets[k].stamp.sequence
    <3>1. k \in DOMAIN packets \ {1} /\ k - 1 \in 1..Len(packets)
      BY <1>2, <2>3
    <3>2. packets[k].stamp.sequence > packets[k - 1].stamp.sequence
      BY <1>4, <3>1 DEF Policy!ValidCohort
    <3>3. packets[k].stamp.sequence \in Nat /\ packets[k - 1].stamp.sequence \in Nat
      BY <1>3, <3>1
    <3>. QED BY <3>2, <3>3
  <2>. QED BY <2>1, <2>2, <2>3
<1>. QED BY <1>1, <1>2, <1>3, <1>4

\* An empty answer, and one that only echoes a stamp.
LEMMA EmptyAnswer ==
    /\ Policy!NoAnswer \in Answer
    /\ \A s \in Policy!Stamp : /\ [Policy!NoAnswer EXCEPT !.stamp = s] \in Answer
                               /\ [Policy!NoAnswer EXCEPT !.stamp = s].stamp = s
<1>1. Policy!NoAnswer.stamp \in Policy!Stamp /\ <<>> \in Seq(Nat)
  BY DEF Policy!NoAnswer, Policy!Stamp
<1>2. Policy!NoAnswer \in Answer
  BY <1>1 DEF Policy!NoAnswer, Answer
<1>. QED BY <1>2 DEF Answer

\* Checking the cohort, and the verdict.
LEMMA PolicyEnds ==
    ASSUME Policy!PolicyAssumption, PolicyInv, Policy!Check \/ Policy!Judge
    PROVE  PolicyInv'
<1> USE DEF PolicyInv, PolicyTypes, Policy!TypeOK, Policy!SeenInOrder
<1>1. CASE Policy!Check
  BY <1>1 DEF Policy!Check, PolicyControl, SeenBelow, Reached, Faultless, Policy!Taken, Policy!ValidCohort,
     Proposal
<1>2. CASE Policy!Judge
  <2>1. /\ stage = "judge" /\ stage' = "over" /\ outcome' = IF expected = routed THEN "passed" ELSE "failed"
        /\ UNCHANGED <<packets, path, expected, routed, call, server, faults>>
    BY <1>2 DEF Policy!Judge
  <2>2. Policy!ValidCohort /\ path = "routed" /\ Len(routed) = Len(packets) /\ Len(expected) = Len(packets)
    BY <2>1 DEF PolicyControl
  <2>3. faults = 0 => expected = routed
    BY <2>2 DEF Faultless
  <2>. QED BY <2>1, <2>2, <2>3 DEF PolicyControl, SeenBelow, Faultless, Policy!Taken, Policy!ValidCohort, Proposal
<1>. QED BY <1>1, <1>2

\* Sending a call changes nothing but the call.
LEMMA PolicySends ==
    ASSUME Policy!PolicyAssumption, PolicyInv, Policy!SendReset \/ Policy!SendInfer
    PROVE  PolicyInv'
<1> USE DEF PolicyInv, PolicyTypes, Policy!TypeOK, Policy!SeenInOrder
<1>0. /\ stage \in {"reset", "infer"} /\ call = Policy!NoCall /\ Policy!ValidCohort
      /\ UNCHANGED <<packets, stage, path, expected, routed, server, outcome, faults>>
  BY DEF Policy!SendReset, Policy!SendInfer, PolicyControl
<1>1. \A k \in 1..Len(packets) : packets[k].stamp \in Policy!Stamp
  BY CohortStamps
<1>2. Len(packets) \in Nat /\ Len(packets) >= 1 /\ Len(Policy!Taken) \in Nat /\ Len(Policy!Taken)' = Len(Policy!Taken)
  BY <1>0, CohortStamps DEF Policy!Taken
<1>3. \E m \in {"reset", "infer"}, s \in Policy!Stamp :
         /\ call' = [method |-> m, stamp |-> s, phase |-> "sent", result |-> Policy!NoAnswer]
         /\ stage = m
         /\ m = "reset" => s = packets[1].stamp
         /\ m = "infer" => Len(Policy!Taken) < Len(packets) /\ s = packets[Len(Policy!Taken) + 1].stamp
  BY <1>0, <1>1, <1>2 DEF Policy!SendReset, Policy!SendInfer, Policy!Rpc, Policy!Current
<1>4. Policy!NoAnswer \in Answer
  BY EmptyAnswer
<1>5. call' \in Rpcs /\ call'.phase = "sent"
  BY <1>3, <1>4 DEF Rpcs
<1>6. Reached' = Reached
  BY <1>0, <1>2, <1>5 DEF Reached
<1>7. PolicyControl'
  BY <1>0, <1>2, <1>3 DEF PolicyControl, Policy!Taken, Policy!ValidCohort
<1>8. SeenBelow' /\ (faults' = 0 => Faultless')
  BY <1>0, <1>5, <1>6 DEF SeenBelow, Faultless, Proposal, Policy!ValidCohort
<1>. QED BY <1>0, <1>5, <1>7, <1>8

\* The server handles a call: a reset forgets, a packet newer than all seen is added.
LEMMA PolicyServes ==
    ASSUME Policy!PolicyAssumption, PolicyInv, Policy!ServerHandles
    PROVE  PolicyInv'
<1> USE DEF PolicyInv, PolicyTypes, Policy!TypeOK
<1>0. /\ call \in Rpcs /\ call.phase = "sent" /\ call # Policy!NoCall /\ stage \in {"reset", "infer"}
      /\ UNCHANGED <<packets, stage, path, expected, routed, outcome, faults>>
      /\ Policy!ValidCohort
  BY DEF Policy!ServerHandles, PolicyControl
<1>1. /\ packets \in Seq(Policy!Packet) /\ Len(packets) \in Nat /\ Len(packets) >= 1
      /\ Len(Policy!Taken) \in Nat /\ Len(Policy!Taken)' = Len(Policy!Taken) /\ Policy!Taken' = Policy!Taken
      /\ call.stamp \in Policy!Stamp /\ call.stamp.session \in Nat /\ call.stamp.epoch \in Nat
      /\ call.stamp.sequence \in Nat
  BY <1>0, CohortStamps DEF Policy!Taken, Rpcs, Policy!Stamp
<1>2. CASE stage = "reset"
  <2>1. /\ call.method = "reset" /\ call.stamp = packets[1].stamp
        /\ server' = [server EXCEPT !.session = call.stamp.session, !.epoch = call.stamp.epoch, !.seen = <<>>]
        /\ call' = [call EXCEPT !.phase = "answered", !.result = [Policy!NoAnswer EXCEPT !.stamp = call.stamp]]
    BY <1>0, <1>2 DEF Policy!ServerHandles, PolicyControl
  <2>2. [Policy!NoAnswer EXCEPT !.stamp = call.stamp] \in Answer
        /\ [Policy!NoAnswer EXCEPT !.stamp = call.stamp].stamp = call.stamp
    BY <1>1, EmptyAnswer
  <2>3. /\ call' \in Rpcs /\ call'.phase = "answered" /\ call'.method = "reset" /\ call'.stamp = packets[1].stamp
        /\ call'.result.stamp = packets[1].stamp
    BY <1>0, <2>1, <2>2 DEF Rpcs
  <2>4. /\ server' \in [session : Nat, epoch : Nat, seen : Seq(Nat), last : Answer] /\ server'.seen = <<>>
        /\ server'.session = packets[1].stamp.session /\ server'.epoch = packets[1].stamp.epoch
    <3>1. server \in [session : Nat, epoch : Nat, seen : Seq(Nat), last : Answer] /\ <<>> \in Seq(Nat)
      OBVIOUS
    <3>. QED BY <1>1, <2>1, <3>1
  <2>5. PolicyControl'
    BY <1>0, <1>1, <1>2, <2>3, <2>4 DEF PolicyControl, Policy!Taken, Policy!ValidCohort
  <2>6. Policy!SeenInOrder' /\ SeenBelow'
    BY <1>0, <1>2, <2>4 DEF Policy!SeenInOrder, SeenBelow
  <2>7. faults' = 0 => Faultless'
    BY <1>0, <1>2, <2>3, <2>4 DEF Faultless, Proposal, Policy!Generation, Policy!ValidCohort
  <2>. QED BY <1>0, <2>3, <2>4, <2>5, <2>6, <2>7
<1>3. CASE stage = "infer"
  <2> DEFINE k == Len(Policy!Taken) + 1
             seen == Append(server.seen, call.stamp.sequence)
             answer == [stamp |-> call.stamp, rows |-> 1, seen |-> seen]
  <2>1. /\ call.method = "infer" /\ call.stamp = packets[k].stamp /\ k \in 1..Len(packets)
        /\ Policy!Generation(call.stamp) = <<server.session, server.epoch>>
        /\ server' = [server EXCEPT !.seen = seen, !.last = answer]
        /\ call' = [call EXCEPT !.phase = "answered", !.result = answer]
    BY <1>0, <1>1, <1>3 DEF Policy!ServerHandles, PolicyControl
  <2>2. Reached = k - 1 /\ server.seen \in Seq(Nat) /\ seen \in Seq(Nat) /\ answer \in Answer
    BY <1>0, <1>1 DEF Reached, Answer
  <2>3. /\ call' \in Rpcs /\ call'.phase = "answered" /\ call'.method = "infer" /\ call'.stamp = packets[k].stamp
        /\ call'.result = answer
        /\ server' \in [session : Nat, epoch : Nat, seen : Seq(Nat), last : Answer] /\ server'.seen = seen
        /\ server'.session = server.session /\ server'.epoch = server.epoch
    BY <1>0, <2>1, <2>2 DEF Rpcs
  <2>4. call' # Policy!NoCall
    BY <2>3 DEF Rpcs, Policy!NoCall
  <2>5. Reached' = k
    BY <1>1, <2>3, <2>4 DEF Reached
  <2>k. k \in 1..Len(packets) /\ k \in Nat /\ k = Len(Policy!Taken) + 1
    BY <1>1, <2>1
  <2> HIDE DEF k
  <2>6. \A i \in DOMAIN server.seen : server.seen[i] < packets[k].stamp.sequence
    <3>1. SUFFICES ASSUME NEW i \in DOMAIN server.seen PROVE server.seen[i] < packets[k].stamp.sequence
      OBVIOUS
    <3>2. k - 1 >= 1 /\ server.seen[i] <= packets[k - 1].stamp.sequence /\ server.seen[i] \in Nat
      BY <1>3, <2>2 DEF SeenBelow
    <3>3. k > 1 /\ k - 1 \in 1..Len(packets)
      BY <1>1, <2>k, <3>2
    <3>4. /\ packets[k - 1].stamp.sequence < packets[k].stamp.sequence
          /\ packets[k - 1].stamp.sequence \in Nat /\ packets[k].stamp.sequence \in Nat
      BY <1>0, <2>k, <3>3, CohortStamps
    <3> HIDE DEF PolicyInv, PolicyTypes
    <3>. QED BY <3>2, <3>4
  <2>7. /\ DOMAIN seen = 1..(Len(server.seen) + 1) /\ DOMAIN server.seen = 1..Len(server.seen)
        /\ Len(server.seen) \in Nat
        /\ \A i \in DOMAIN seen : seen[i] = IF i \in DOMAIN server.seen THEN server.seen[i]
                                            ELSE packets[k].stamp.sequence
    BY <2>1, <2>2
  <2>8. Policy!SeenInOrder'
    <3>1. SUFFICES ASSUME NEW i \in DOMAIN seen, NEW j \in DOMAIN seen, i < j PROVE seen[i] < seen[j]
      BY <2>3 DEF Policy!SeenInOrder
    <3>2. i \in DOMAIN server.seen /\ seen[i] = server.seen[i]
      BY <2>7, <3>1
    <3>3. CASE j \in DOMAIN server.seen
      BY <2>7, <3>1, <3>2, <3>3 DEF Policy!SeenInOrder
    <3>4. CASE j \notin DOMAIN server.seen
      BY <2>6, <2>7, <3>2, <3>4
    <3>. QED BY <3>3, <3>4
  <2>9. SeenBelow'
    <3>1. \A i \in DOMAIN seen : seen[i] <= packets[k].stamp.sequence
      <4>1. packets[k].stamp.sequence \in Nat
        BY <2>1, CohortStamps
      <4>2. \A i \in DOMAIN server.seen : server.seen[i] \in Nat
        BY <2>2
      <4> HIDE DEF PolicyInv, PolicyTypes, Policy!TypeOK, seen
      <4>. QED BY <2>6, <2>7, <4>1, <4>2
    <3>2. k >= 1 /\ packets' = packets
      BY <1>0, <2>k
    <3> HIDE DEF PolicyInv, PolicyTypes, Policy!TypeOK, seen
    <3>. QED BY <2>3, <2>5, <3>1, <3>2 DEF SeenBelow
  <2>10. PolicyControl'
    BY <1>0, <1>1, <1>3, <2>1, <2>3 DEF PolicyControl, Policy!Taken, Policy!ValidCohort
  <2>11. faults' = 0 => Faultless'
    <3>1. SUFFICES ASSUME faults = 0, Faultless PROVE Faultless'
      BY <1>0
    <3>2. server.seen = [j \in 1..(k - 1) |-> packets[j].stamp.sequence]
      BY <1>3, <2>2, <3>1 DEF Faultless
    <3>3. seen = [j \in 1..k |-> packets[j].stamp.sequence]
      <4>1. Len(server.seen) = k - 1
        BY <2>k, <2>7, <3>2
      <4>2. seen \in Seq(Nat)
        BY <2>2
      <4> HIDE DEF seen, PolicyInv, PolicyTypes
      <4>3. DOMAIN seen = 1..k
        BY <2>k, <2>7, <4>1
      <4>4. ASSUME NEW j \in 1..k PROVE seen[j] = packets[j].stamp.sequence
        <5>1. CASE j = k
          BY <2>k, <2>7, <4>1, <4>3, <5>1
        <5>2. CASE j # k
          <6>1. j \in 1..(k - 1) /\ j \in DOMAIN server.seen /\ j \in DOMAIN seen
            BY <2>k, <2>7, <4>1, <4>3, <5>2
          <6>. QED BY <2>7, <3>2, <6>1
        <5>. QED BY <5>1, <5>2
      <4>. QED BY <4>2, <4>3, <4>4
    <3>4. answer = Proposal(k)
      BY <2>1, <3>3 DEF Proposal
    <3> HIDE DEF answer, seen
    <3>5. Proposal(k)' = Proposal(k) /\ \A j \in Nat : Proposal(j)' = Proposal(j)
      BY <1>0 DEF Proposal, k, Policy!Taken
    <3>6. server'.seen = [j \in 1..Reached' |-> packets'[j].stamp.sequence]
      BY <1>0, <2>3, <2>5, <3>3
    <3>7. call'.result = Proposal(Reached)'
      BY <1>0, <2>3, <2>5, <3>4 DEF Proposal
    <3>. QED BY <1>0, <1>3, <2>3, <3>1, <3>6, <3>7 DEF Faultless, Proposal, Policy!Generation, Policy!ValidCohort
  <2>. QED BY <1>0, <2>3, <2>8, <2>9, <2>10, <2>11
<1>. QED BY <1>0, <1>2, <1>3

\* A fault, or a refusal by a server that was reset to another generation.
LEMMA PolicyFaults ==
    ASSUME Policy!PolicyAssumption, PolicyInv, Policy!Fault \/ Policy!ServerRefuses
    PROVE  PolicyInv'
<1> USE DEF PolicyInv, PolicyTypes, Policy!TypeOK
<1>0. /\ UNCHANGED <<packets, stage, path, expected, routed, outcome>>
      /\ packets \in Seq(Policy!Packet) /\ Len(packets) \in Nat
      /\ Len(Policy!Taken) \in Nat /\ Policy!Taken' = Policy!Taken
  BY CohortStamps DEF Policy!Fault, Policy!ServerRefuses, Policy!Taken
<1>1. ~(faults' = 0)
  <2>1. CASE Policy!Fault
    BY <2>1 DEF Policy!Fault, Policy!PolicyAssumption
  <2>2. CASE Policy!ServerRefuses
    <3>1. SUFFICES ASSUME faults = 0 PROVE FALSE
      BY <2>2 DEF Policy!ServerRefuses
    <3>2. call # Policy!NoCall /\ call.method = "infer" /\ Policy!Generation(call.stamp) # <<server.session, server.epoch>>
      BY <2>2 DEF Policy!ServerRefuses
    <3>3. stage = "infer" /\ call.stamp = packets[Len(Policy!Taken) + 1].stamp /\ Policy!ValidCohort
          /\ Len(Policy!Taken) < Len(packets)
      BY <3>2 DEF PolicyControl
    <3>4. Policy!Generation(packets[1].stamp) = <<server.session, server.epoch>>
      BY <3>1, <3>3 DEF Faultless
    <3>5. Len(Policy!Taken) + 1 \in 1..Len(packets)
      BY <1>0, <3>3
    <3>6. Policy!Generation(call.stamp) = Policy!Generation(packets[1].stamp)
      BY <3>3, <3>5, CohortStamps DEF Policy!Generation
    <3>. QED BY <3>2, <3>4, <3>6
  <2>. QED BY <2>1, <2>2
<1>2. CASE UNCHANGED server
  <2>1. /\ call \in Rpcs /\ call # Policy!NoCall /\ stage \in {"reset", "infer"}
        /\ \E f \in {"answered", "failed"}, r \in Answer :
              /\ call' = [call EXCEPT !.phase = f, !.result = r]
              /\ f = "answered" => call.phase = "sent" /\ call.method = "infer"
    <3>1. CASE Policy!ServerRefuses \/ (Policy!Fault /\ call' = [call EXCEPT !.phase = "failed"] /\ call # Policy!NoCall)
      <4>1. call \in Rpcs /\ call # Policy!NoCall /\ call' = [call EXCEPT !.phase = "failed"]
        BY <3>1 DEF Policy!ServerRefuses
      <4>2. call' = [call EXCEPT !.phase = "failed", !.result = call.result] /\ call.result \in Answer
        BY <4>1 DEF Rpcs
      <4>. QED BY <4>1, <4>2 DEF PolicyControl
    <3>2. CASE Policy!Fault /\ ~(call' = [call EXCEPT !.phase = "failed"] /\ call # Policy!NoCall)
      <4>1. /\ call # Policy!NoCall /\ call.phase = "sent" /\ call.method = "infer" /\ call \in Rpcs
            /\ \E answer \in {server.last, [server.last EXCEPT !.stamp = call.stamp, !.rows = MaxRows + 1]} :
                  call' = [call EXCEPT !.phase = "answered", !.result = answer]
        BY <1>2, <3>2 DEF Policy!Fault
      <4>2. server.last \in Answer /\ [server.last EXCEPT !.stamp = call.stamp, !.rows = MaxRows + 1] \in Answer
        <5>1. server.last \in Answer /\ call.stamp \in Policy!Stamp /\ MaxRows + 1 \in Nat
          BY <4>1 DEF Rpcs, Policy!PolicyAssumption
        <5>. QED BY <5>1 DEF Answer
      <4>3. stage \in {"reset", "infer"}
        BY <4>1 DEF PolicyControl
      <4>. QED BY <4>1, <4>2, <4>3
    <3>. QED BY <3>1, <3>2
  <2>2. /\ call' \in Rpcs /\ call'.phase \in {"answered", "failed"} /\ call'.method = call.method
        /\ call'.stamp = call.stamp /\ (call'.phase = "answered" => call.phase = "sent" /\ call.method = "infer")
    BY <2>1 DEF Rpcs
  <2>3. call' # Policy!NoCall
    BY <2>2 DEF Rpcs, Policy!NoCall
  <2>4. PolicyControl'
    BY <1>0, <1>2, <2>1, <2>2, <2>3 DEF PolicyControl, Policy!Taken, Policy!ValidCohort
  <2>5. SeenBelow'
    <3>1. SUFFICES ASSUME stage = "infer", NEW i \in DOMAIN server.seen
                   PROVE  Reached' >= 1 /\ server.seen[i] <= packets[Reached'].stamp.sequence
      BY <1>0, <1>2 DEF SeenBelow
    <3> DEFINE k == Len(Policy!Taken) + 1
    <3>2. k \in 1..Len(packets) /\ Reached' = k /\ Policy!ValidCohort
      <4>1. Len(Policy!Taken) < Len(packets) /\ Policy!ValidCohort
        BY <2>1, <3>1 DEF PolicyControl
      <4>2. Reached' = k
        BY <1>0, <2>2, <2>3 DEF Reached
      <4>. QED BY <1>0, <4>1, <4>2
    <3>3. Reached >= 1 /\ server.seen[i] <= packets[Reached].stamp.sequence /\ server.seen[i] \in Nat
      BY <3>1 DEF SeenBelow
    <3>4. Reached = k \/ Reached = k - 1
      BY <1>0 DEF Reached
    <3> HIDE DEF k
    <3>5. CASE Reached = k - 1
      <4>1. k > 1 /\ k - 1 \in 1..Len(packets)
        BY <1>0, <3>2, <3>3, <3>5
      <4>2. /\ packets[k - 1].stamp.sequence < packets[k].stamp.sequence
            /\ packets[k - 1].stamp.sequence \in Nat /\ packets[k].stamp.sequence \in Nat
        BY <3>2, <4>1, CohortStamps
      <4> HIDE DEF PolicyInv, PolicyTypes
      <4>. QED BY <3>2, <3>3, <3>5, <4>1, <4>2
    <3>. QED BY <3>2, <3>3, <3>4, <3>5
  <2>6. faults' \in 0..MaxFaults
    BY DEF Policy!Fault, Policy!ServerRefuses, Policy!PolicyAssumption
  <2>. QED BY <1>0, <1>1, <1>2, <2>2, <2>4, <2>5, <2>6 DEF Policy!SeenInOrder
<1>3. CASE ~UNCHANGED server
  <2>1. Policy!Fault /\ server' = [Policy!Fresh EXCEPT !.last = server.last] /\ call' = call
    BY <1>3 DEF Policy!Fault, Policy!ServerRefuses
  <2>2. server' \in [session : Nat, epoch : Nat, seen : Seq(Nat), last : Answer] /\ server'.seen = <<>>
    <3>1. server.last \in Answer /\ <<>> \in Seq(Nat)
      OBVIOUS
    <3>. QED BY <2>1, <3>1 DEF Policy!Fresh
  <2>3. faults' \in 0..MaxFaults
    BY <2>1 DEF Policy!Fault, Policy!PolicyAssumption
  <2>4. PolicyControl'
    BY <1>0, <2>1, <2>2 DEF PolicyControl, Policy!Taken, Policy!ValidCohort
  <2>5. SeenBelow' /\ Policy!SeenInOrder'
    BY <2>2 DEF SeenBelow, Policy!SeenInOrder
  <2>. QED BY <1>0, <1>1, <2>1, <2>2, <2>3, <2>4, <2>5
<1>. QED BY <1>2, <1>3

\* The driver takes an answer, gives up, or turns to the next path.
LEMMA PolicyDrives ==
    ASSUME Policy!PolicyAssumption, PolicyInv,
           Policy!CallFailed \/ Policy!ResetDone \/ Policy!InferDone \/ Policy!NextPath
    PROVE  PolicyInv'
<1> USE DEF PolicyInv, PolicyTypes, Policy!TypeOK
<1>0. /\ UNCHANGED <<packets, server, faults>>
      /\ packets \in Seq(Policy!Packet) /\ Len(packets) \in Nat /\ Len(Policy!Taken) \in Nat
      /\ stage \in {"reset", "infer"} /\ Policy!ValidCohort /\ outcome = "none"
  BY CohortStamps DEF Policy!CallFailed, Policy!ResetDone, Policy!InferDone, Policy!NextPath, Policy!Taken, PolicyControl
<1>1. CASE Policy!Failed /\ UNCHANGED <<path, expected, routed>> /\ faults # 0
  BY <1>0, <1>1 DEF Policy!Failed, PolicyControl, SeenBelow, Policy!SeenInOrder, Policy!Taken, Policy!ValidCohort
<1>2. CASE Policy!CallFailed
  BY <1>1, <1>2 DEF Policy!CallFailed, Faultless
<1>3. CASE Policy!ResetDone
  <2>1. /\ call # Policy!NoCall /\ call.phase = "answered" /\ call.method = "reset"
        /\ stage = "reset" /\ call.result.stamp = packets[1].stamp /\ server.seen = <<>> /\ Policy!Taken = <<>>
    BY <1>0, <1>3 DEF Policy!ResetDone, PolicyControl
  <2>2. /\ stage' = "infer" /\ call' = Policy!NoCall /\ UNCHANGED <<path, expected, routed, outcome>>
    BY <1>3, <2>1 DEF Policy!ResetDone
  <2>3. PolicyControl'
    BY <1>0, <2>1, <2>2 DEF PolicyControl, Policy!Taken, Policy!ValidCohort
  <2>4. Reached' = 0 /\ server'.seen = <<>> /\ Policy!Taken' = <<>>
    BY <1>0, <2>1, <2>2 DEF Reached, Policy!Taken
  <2>5. SeenBelow' /\ Policy!SeenInOrder'
    BY <2>4 DEF SeenBelow, Policy!SeenInOrder
  <2>6. faults' = 0 => Faultless'
    <3>1. [j \in 1..0 |-> packets'[j].stamp.sequence] = <<>>
      OBVIOUS
    <3>. QED BY <1>0, <2>1, <2>2, <2>4, <3>1 DEF Faultless, Proposal, Policy!Generation
  <2>. QED BY <1>0, <2>2, <2>3, <2>5, <2>6
<1>4. CASE Policy!InferDone
  <2> DEFINE k == Len(Policy!Taken) + 1
  <2>1. /\ call # Policy!NoCall /\ call.phase = "answered" /\ call.method = "infer" /\ stage = "infer"
        /\ k \in 1..Len(packets) /\ call.result \in Answer /\ Reached = k
    BY <1>0, <1>4 DEF Policy!InferDone, PolicyControl, Rpcs, Reached
  <2>2. CASE ~Policy!ValidResult(call.result, Policy!Current.stamp)
    <3>1. faults # 0
      <4>1. SUFFICES ASSUME faults = 0 PROVE FALSE
        OBVIOUS
      <4>2. call.result = Proposal(k)
        BY <2>1, <4>1 DEF Faultless
      <4>3. call.result.stamp = Policy!Current.stamp /\ call.result.rows = 1
        BY <4>2 DEF Proposal, Policy!Current
      <4>. QED BY <2>2, <4>3 DEF Policy!ValidResult, Policy!PolicyAssumption
    <3>. QED BY <1>1, <1>4, <2>2, <3>1 DEF Policy!InferDone
  <2>3. CASE Policy!ValidResult(call.result, Policy!Current.stamp)
    <3>1. /\ call.result.stamp = packets[k].stamp
          /\ Policy!Taken' = Append(Policy!Taken, call.result)
          /\ path = "direct" => expected' = Append(expected, call.result) /\ routed' = routed
          /\ path = "routed" => routed' = Append(routed, call.result) /\ expected' = expected
          /\ call' = Policy!NoCall /\ UNCHANGED <<path, stage, outcome>>
      BY <1>4, <2>3 DEF Policy!InferDone, Policy!ValidResult, Policy!Current, Policy!Taken
    <3>2. /\ Policy!Taken \in Seq(Answer) /\ Policy!Taken' \in Seq(Answer) /\ Len(Policy!Taken') = k
      <4>1. Policy!Taken \in Seq(Answer)
        BY DEF Policy!Taken
      <4>. QED BY <2>1, <3>1, <4>1
    <3>3. /\ expected' \in Seq(Answer) /\ routed' \in Seq(Answer)
          /\ \A j \in DOMAIN expected' : j \in DOMAIN expected \/ (j = k /\ expected'[j] = call.result)
          /\ \A j \in DOMAIN routed' : j \in DOMAIN routed \/ (j = k /\ routed'[j] = call.result)
          /\ \A j \in DOMAIN expected : expected'[j] = expected[j]
          /\ \A j \in DOMAIN routed : routed'[j] = routed[j]
      <4>1. ASSUME NEW s \in Seq(Answer), s = Policy!Taken
            PROVE  /\ Append(s, call.result) \in Seq(Answer)
                   /\ \A j \in DOMAIN Append(s, call.result) :
                         j \in DOMAIN s \/ (j = k /\ Append(s, call.result)[j] = call.result)
                   /\ \A j \in DOMAIN s : Append(s, call.result)[j] = s[j]
        <5>1. k = Len(s) + 1 /\ Len(s) \in Nat /\ call.result \in Answer
          BY <2>1, <4>1
        <5> HIDE DEF k, PolicyInv, PolicyTypes
        <5>. QED BY <5>1
      <4>2. CASE path = "direct"
        <5>1. Policy!Taken = expected /\ expected \in Seq(Answer) /\ routed \in Seq(Answer)
          BY <4>2 DEF Policy!Taken
        <5>. QED BY <3>1, <4>1, <4>2, <5>1
      <4>3. CASE path = "routed"
        <5>1. Policy!Taken = routed /\ expected \in Seq(Answer) /\ routed \in Seq(Answer)
          BY <4>3 DEF Policy!Taken
        <5>. QED BY <3>1, <4>1, <4>3, <5>1
      <4>. QED BY <4>2, <4>3
    <3>4. PolicyControl'
      <4>1. Len(Policy!Taken)' <= Len(packets) /\ Len(Policy!Taken') = k
        BY <2>1, <3>2
      <4>2. \A j \in DOMAIN expected' : expected'[j].stamp = packets[j].stamp
        BY <3>1, <3>3 DEF PolicyControl
      <4>3. \A j \in DOMAIN routed' : routed'[j].stamp = packets[j].stamp
        BY <3>1, <3>3 DEF PolicyControl
      <4>4. path = "routed" => Len(expected') = Len(packets)
        BY <3>1 DEF PolicyControl
      <4>5. path = "direct" => routed' = <<>>
        BY <3>1 DEF PolicyControl
      <4>. QED BY <1>0, <2>1, <3>1, <4>1, <4>2, <4>3, <4>4, <4>5 DEF PolicyControl, Policy!ValidCohort
    <3>5. Reached' = Reached
      BY <2>1, <3>1, <3>2 DEF Reached
    <3>6. SeenBelow' /\ Policy!SeenInOrder'
      BY <1>0, <3>1, <3>5 DEF SeenBelow, Policy!SeenInOrder
    <3>7. faults' = 0 => Faultless'
      <4>1. SUFFICES ASSUME faults = 0, Faultless PROVE Faultless'
        BY <1>0
      <4>2. call.result = Proposal(k)
        BY <2>1, <4>1 DEF Faultless
      <4>3. \A j \in DOMAIN expected' : expected'[j] = Proposal(j)
        BY <3>3, <4>1, <4>2 DEF Faultless
      <4>4. \A j \in DOMAIN routed' : routed'[j] = Proposal(j)
        BY <3>3, <4>1, <4>2 DEF Faultless
      <4>. QED BY <1>0, <2>1, <3>1, <3>5, <4>1, <4>3, <4>4
               DEF Faultless, Proposal, Policy!Generation, Policy!ValidCohort
    <3>. QED BY <1>0, <3>1, <3>3, <3>4, <3>6, <3>7
  <2>. QED BY <2>2, <2>3
<1>5. CASE Policy!NextPath
  <2>1. /\ stage = "infer" /\ call = Policy!NoCall /\ Len(Policy!Taken) = Len(packets)
        /\ UNCHANGED <<expected, routed, call, outcome>>
        /\ path = "direct" => path' = "routed" /\ stage' = "reset"
        /\ path = "routed" => path' = path /\ stage' = "judge"
    BY <1>5 DEF Policy!NextPath
  <2>2. PolicyControl' /\ path' \in {"direct", "routed"} /\ stage' \in {"reset", "judge"}
    BY <1>0, <2>1 DEF PolicyControl, Policy!Taken, Policy!ValidCohort
  <2>3. faults' = 0 => Faultless'
    BY <1>0, <2>1, <2>2 DEF Faultless, Proposal
  <2>. QED BY <1>0, <2>1, <2>2, <2>3 DEF SeenBelow, Policy!SeenInOrder
<1>. QED BY <1>2, <1>3, <1>4, <1>5

\* The invariant holds of every behaviour.
LEMMA PolicyInvariant ==
    ASSUME Policy!PolicyAssumption PROVE Policy!Spec => []PolicyInv
<1>1. Policy!Init => PolicyInv
  <2>1. SUFFICES ASSUME Policy!Init PROVE PolicyInv
    OBVIOUS
  <2>2. server \in [session : Nat, epoch : Nat, seen : Seq(Nat), last : Answer] /\ server.seen = <<>>
    BY <2>1, EmptyAnswer DEF Policy!Init, Policy!Fresh
  <2>3. PolicyTypes
    BY <2>1, <2>2 DEF Policy!Init, PolicyTypes, Policy!TypeOK, Policy!PolicyAssumption
  <2>4. packets \in Seq(Policy!Packet)
    BY <2>3, CohortStamps DEF PolicyTypes
  <2>. QED BY <2>1, <2>2, <2>3, <2>4 DEF Policy!Init, PolicyInv, PolicyControl, Policy!SeenInOrder, SeenBelow,
           Faultless, Policy!Taken
<1>2. PolicyInv /\ [Policy!Next]_Policy!vars => PolicyInv'
  <2>1. CASE UNCHANGED Policy!vars
    <3> SUFFICES ASSUME PolicyInv PROVE PolicyInv'
      OBVIOUS
    <3> USE <2>1 DEF Policy!vars, PolicyInv
    <3>1. PolicyTypes'
      BY DEF PolicyTypes, Policy!TypeOK
    <3>2. PolicyControl'
      BY DEF PolicyControl, Policy!Taken, Policy!ValidCohort
    <3>3. Policy!SeenInOrder' /\ SeenBelow'
      BY DEF Policy!SeenInOrder, SeenBelow, Reached, Policy!Taken
    <3>4. faults' = 0 => Faultless'
      BY DEF Faultless, Policy!Taken, Reached, Proposal, Policy!ValidCohort, Policy!Generation
    <3>. QED BY <3>1, <3>2, <3>3, <3>4
  <2>. QED BY <2>1, PolicyEnds, PolicySends, PolicyServes, PolicyFaults, PolicyDrives DEF Policy!Next
<1>. QED BY <1>1, <1>2, PTL DEF Policy!Spec

\* A campaign that passed compared, for every packet, two proposals bound to its stamp,
\* and a valid campaign that met no fault passes: the routed path finds the same server.
THEOREM VerdictHolds == Spec => []VerdictSound
<1> Policy!PolicyAssumption
  BY ExperimentsAssumption
<1>1. PolicyInv => Policy!VerdictSound
  BY DEF PolicyInv, PolicyTypes, PolicyControl, Policy!VerdictSound, Faultless
<1>. QED BY <1>1, PolicyInvariant, PartsRun, PTL DEF VerdictSound

\* Whatever is lost, answered late or restarted, no packet reaches the server's hidden
\* state twice or out of order between two resets.
THEOREM NothingSeenTwice == Spec => []SeenInOrder
<1> Policy!PolicyAssumption
  BY ExperimentsAssumption
<1>1. PolicyInv => Policy!SeenInOrder
  BY DEF PolicyInv
<1>. QED BY <1>1, PolicyInvariant, PartsRun, PTL DEF SeenInOrder

-----------------------------------------------------------------------------
(* Campaign: the sequential drivers.                                       *)

Looping == {"item", "direct", "submit", "wait"}

\* The loop has recorded the items before `at', each with a result that lets it go on, and
\* has not touched those after it.
LoopInv ==
    /\ at \in Nat \ {0} /\ at <= Sequential!Count + 1
    /\ pc = "check" => at = 1
    /\ pc \in Looping => at <= Sequential!Count
    /\ rows \in Seq([item : Nat, state : Sequential!Terminal]) /\ Len(rows) = at - 1
    /\ \A r \in DOMAIN rows : rows[r].item = r
    /\ \A k \in Sequential!Ids : k < at =>
          /\ job[k] \in Sequential!Terminal
          /\ input.tool # "screen" => job[k] = "consumed" /\ direct[k] # "failed"
          /\ input.tool = "compare" => direct[k] = "ok"
    /\ \A k \in Sequential!Ids : k > at => job[k] = "none" /\ direct[k] = "none"
    /\ at \in Sequential!Ids =>
          /\ pc \in {"check", "item", "direct", "submit"} => job[at] = "none"
          /\ pc \in {"check", "item"} => direct[at] = "none"
          /\ pc = "wait" => job[at] # "none"
          /\ pc \in {"submit", "wait"} => direct[at] # "failed"
          /\ pc \in {"submit", "wait"} /\ input.tool = "compare" => direct[at] = "ok"

\* What was sent is about items up to `at', in order, and the coordinated call of an item
\* comes last.
SentInv ==
    /\ \A c \in DOMAIN sent : sent[c][1] <= at
    /\ pc \in {"check", "item"} => \A c \in DOMAIN sent : sent[c][1] < at
    /\ pc \in {"direct", "submit"} \/ (pc = "wait" /\ job[at] = "queued") =>
          \A c \in DOMAIN sent : sent[c] # <<at, 1>>
    /\ \A a, b \in DOMAIN sent : a < b => \/ sent[a][1] < sent[b][1]
                                          \/ sent[a][1] = sent[b][1] /\ sent[a][2] < sent[b][2]
    /\ \A k \in Sequential!Ids : direct[k] = "failed" => \A c \in DOMAIN sent : sent[c] # <<k, 1>>

\* A coordinator that is closed has nothing queued; once drained it has nothing running.
ShutInv ==
    /\ \A k \in Sequential!Ids : job[k] = "running" => k \in flight
    /\ closed => \A k \in Sequential!Ids : job[k] # "queued"
    /\ pc = "drain" => closed
    /\ pc \in Looping \cup {"check", "close"} => ~closed
    /\ closed /\ pc \in {"report", "over"} => flight = {}
    /\ pc = "over" /\ report # "refused" => closed
    /\ (\E k \in Sequential!Ids : job[k] = "unknown") => quarantined

\* A pass, and a score, is given when every item has been recorded.
VerdictInv ==
    /\ pc \in Looping \cup {"check"} => report = "none"
    /\ labels # "unread" => pc = "over"
    /\ report = "passed" => at = Sequential!Count + 1 /\ input.tool # "screen"
    /\ labels = "scored" => at = Sequential!Count + 1

CampaignInv == Sequential!TypeOK /\ LoopInv /\ SentInv /\ ShutInv /\ VerdictInv

\* The instance counts as this module does.
LEMMA SameCardinality == \A S : Sequential!Cardinality(S) = Cardinality(S)
BY DEF Sequential!Cardinality, Cardinality

\* The loop has at least one item to go through, and no more than it was given.
LEMMA CountBounds ==
    ASSUME Sequential!CampaignAssumption, input \in Inputs
    PROVE  /\ Len(input.items) \in Nat /\ Sequential!Ids = 1..Len(input.items)
           /\ Sequential!Count \in Nat /\ Sequential!Count <= Len(input.items)
           /\ Sequential!ValidInput(input) => Sequential!Count >= 1
<1> DEFINE items == input.items
           n == Len(items)
<1>1. /\ n \in Nat /\ DOMAIN items = 1..n /\ input.tool \in {"compare", "replay", "screen", "probe"}
      /\ input.tool \in {"compare", "probe"} => items # <<>>
      /\ input.tool = "screen" => input.maximum \in Nat \ {0}
  BY DEF Sequential!CampaignAssumption
<1>2. IsFiniteSet(1..n) /\ Cardinality(1..n) = n
  BY <1>1, FS_Interval
<1>3. Sequential!Work \subseteq 1..n
  BY <1>1 DEF Sequential!Work, Sequential!Selected
<1>4. /\ Sequential!Count \in Nat /\ Sequential!Count <= n
      /\ Sequential!Work # {} => Sequential!Count >= 1
  <2>1. IsFiniteSet(Sequential!Work) /\ Sequential!Count \in Nat /\ Sequential!Count <= n
    <3>1. IsFiniteSet(Sequential!Work) /\ Cardinality(Sequential!Work) <= n
      <4> HIDE DEF n
      <4>. QED BY <1>2, <1>3, FS_Subset
    <3>2. Cardinality(Sequential!Work) \in Nat
      BY <3>1, FS_CardinalityType
    <3>. QED BY <3>1, <3>2, SameCardinality DEF Sequential!Count
  <2>2. Sequential!Count = 0 <=> Sequential!Work = {}
    BY <2>1, FS_EmptySet, SameCardinality DEF Sequential!Count
  <2>. QED BY <2>1, <2>2
<1>5. ASSUME Sequential!ValidInput(input) PROVE Sequential!Work # {}
  <2>1. CASE input.tool # "screen"
    <3>1. items # <<>>
      BY <1>1, <1>5, <2>1 DEF Sequential!ValidInput, Sequential!ReplayInput
    <3>2. n >= 1
      <4>1. SUFFICES ASSUME n = 0 PROVE FALSE
        BY <1>1
      <4>2. DOMAIN items = {}
        BY <1>1, <4>1
      <4>. QED BY <3>1, <4>1, <4>2
    <3>. QED BY <1>1, <2>1, <3>2 DEF Sequential!Work, Sequential!tool
  <2>2. CASE input.tool = "screen"
    <3> DEFINE Wanted(k) == input.only = {} \/ input.items[k].id \in input.only
               W == {k \in 1..n : Wanted(k)}
    <3>1. n >= 1 /\ input.only \subseteq {items[k].id : k \in 1..n} /\ input.maximum \in Nat \ {0}
      BY <1>1, <1>5, <2>2 DEF Sequential!ValidInput, Sequential!ScreenInput
    <3>2. W # {} /\ W \in SUBSET Nat
      BY <3>1
    <3>3. PICK k \in W : \A m \in W : k <= m
      <4> HIDE DEF W
      <4>. QED BY <3>2, SmallestNat
    <3>4. {j \in 1..k : Wanted(j)} = {k}
      BY <3>3
    <3>5. Cardinality({j \in 1..k : Wanted(j)}) <= input.maximum
      <4>1. Cardinality({k}) = 1
        BY FS_Singleton
      <4>2. Cardinality({j \in 1..k : Wanted(j)}) = 1
        BY <3>4, <4>1
      <4> HIDE DEF Wanted, W, n
      <4>. QED BY <3>1, <4>2
    <3>6. k \in Sequential!Selected(input)
      BY <1>1, <3>3, <3>5, SameCardinality DEF Sequential!Selected
    <3>. QED BY <2>2, <3>6 DEF Sequential!Work, Sequential!tool
  <2>. QED BY <2>1, <2>2
<1>. QED BY <1>1, <1>4, <1>5 DEF Sequential!Ids

\* The checks, and the steps before anything is sent.
LEMMA CampaignFront ==
    ASSUME Sequential!CampaignAssumption, CampaignInv,
           Sequential!Check \/ Sequential!RequestInvalid \/ Sequential!Preflight
    PROVE  CampaignInv'
<1>0. /\ UNCHANGED <<input, at, job, flight, quarantined, sent, direct, rows, closed, labels>>
      /\ pc \in {"check", "item"} /\ pc' \in {"item", "over", "close"} /\ raised' \in BOOLEAN
      /\ report' \in {report, "refused", "preflight_passed"}
      /\ pc' = "over" => report' = "refused"
      /\ pc' = "item" => pc = "check" /\ Sequential!ValidInput(input) /\ report' = report
  BY DEF Sequential!Check, Sequential!RequestInvalid, Sequential!Preflight, Sequential!coordinator, CampaignInv,
     Sequential!TypeOK
<1>1. /\ Sequential!Count' = Sequential!Count /\ Sequential!Ids' = Sequential!Ids
      /\ Sequential!ValidInput(input) => Sequential!Count >= 1 /\ Sequential!Count \in Nat
  BY <1>0, CountBounds DEF CampaignInv, Sequential!TypeOK, Sequential!Count, Sequential!Work, Sequential!Ids, Sequential!tool
<1>2. Sequential!TypeOK'
  BY <1>0 DEF CampaignInv, Sequential!TypeOK, Sequential!Ids
<1>3. LoopInv' /\ SentInv'
  <2>1. LoopInv'
    BY <1>0, <1>1 DEF CampaignInv, LoopInv, Looping, Sequential!Terminal
  <2>2. SentInv'
    BY <1>0, <1>1 DEF CampaignInv, SentInv
  <2>. QED BY <2>1, <2>2
<1>4. ShutInv' /\ VerdictInv'
  BY <1>0, <1>1 DEF CampaignInv, ShutInv, VerdictInv, Looping
<1>. QED BY <1>2, <1>3, <1>4 DEF CampaignInv

\* A driver that is at an item is at one it was given.
LEMMA AtItem ==
    ASSUME Sequential!CampaignAssumption, CampaignInv, pc \in Looping
    PROVE  at \in Sequential!Ids /\ at \in Nat /\ Sequential!Count \in Nat /\ at <= Sequential!Count
BY CountBounds DEF CampaignInv, LoopInv, Sequential!TypeOK

\* What does not change with the input: how many items there are.
LEMMA SameInput ==
    ASSUME input' = input PROVE Sequential!Count' = Sequential!Count /\ Sequential!Ids' = Sequential!Ids
BY DEF Sequential!Count, Sequential!Work, Sequential!Ids, Sequential!tool

\* Appending a call that is later than all those before keeps them in order.
LEMMA CallAppended ==
    ASSUME NEW s \in Seq(Sequential!Ids \X {0, 1}), NEW k \in Sequential!Ids, NEW p \in {0, 1},
           Sequential!Ids \subseteq Nat,
           \A a, b \in DOMAIN s : a < b => \/ s[a][1] < s[b][1]
                                           \/ s[a][1] = s[b][1] /\ s[a][2] < s[b][2],
           \A c \in DOMAIN s : s[c][1] < k \/ (s[c][1] = k /\ s[c][2] < p)
    PROVE  LET t == Append(s, <<k, p>>)
           IN  /\ t \in Seq(Sequential!Ids \X {0, 1})
               /\ \A c \in DOMAIN t : t[c] = <<k, p>> \/ \E d \in DOMAIN s : t[c] = s[d]
               /\ \A a, b \in DOMAIN t : a < b => \/ t[a][1] < t[b][1]
                                                  \/ t[a][1] = t[b][1] /\ t[a][2] < t[b][2]
<1> DEFINE t == Append(s, <<k, p>>)
<1>0. <<k, p>> \in Sequential!Ids \X {0, 1} /\ <<k, p>>[1] = k /\ <<k, p>>[2] = p
  OBVIOUS
<1>1. /\ t \in Seq(Sequential!Ids \X {0, 1}) /\ DOMAIN t = 1..(Len(s) + 1) /\ Len(s) \in Nat
      /\ DOMAIN s = 1..Len(s)
      /\ \A c \in DOMAIN s : t[c] = s[c]
      /\ t[Len(s) + 1] = <<k, p>>
  BY <1>0
<1> HIDE DEF t
<1>2. \A c \in DOMAIN t : c \in DOMAIN s \/ c = Len(s) + 1
  BY <1>1
<1>3. \A c \in DOMAIN t : t[c] = <<k, p>> \/ \E d \in DOMAIN s : t[c] = s[d]
  BY <1>1, <1>2
<1>4. ASSUME NEW a \in DOMAIN t, NEW b \in DOMAIN t, a < b
      PROVE  t[a][1] < t[b][1] \/ (t[a][1] = t[b][1] /\ t[a][2] < t[b][2])
  <2>1. a \in DOMAIN s
    BY <1>1, <1>2, <1>4
  <2>2. CASE b \in DOMAIN s
    BY <1>1, <1>4, <2>1, <2>2
  <2>3. CASE b = Len(s) + 1
    BY <1>0, <1>1, <2>1, <2>3
  <2>. QED BY <1>2, <2>2, <2>3
<1>. QED BY <1>1, <1>3, <1>4 DEF t

\* The direct path of a comparison.
LEMMA CampaignDirect ==
    ASSUME Sequential!CampaignAssumption, CampaignInv, Sequential!SendDirect \/ Sequential!DirectEnds
    PROVE  CampaignInv'
<1>0. /\ UNCHANGED <<input, at, job, flight, quarantined, rows, report, raised, closed, labels>>
      /\ pc \in Looping /\ pc' \in {"direct", "submit", "report"}
  BY DEF Sequential!SendDirect, Sequential!DirectEnds, Sequential!coordinator, Looping
<1>1. at \in Sequential!Ids /\ at \in Nat /\ Sequential!Count \in Nat /\ at <= Sequential!Count
  BY <1>0, AtItem
<1>2. Sequential!Count' = Sequential!Count /\ Sequential!Ids' = Sequential!Ids /\ Sequential!Ids \subseteq Nat
  BY <1>0, SameInput, CountBounds DEF CampaignInv, Sequential!TypeOK
<1>3. direct \in [Sequential!Ids -> {"none", "sent", "ok", "failed"}] /\ sent \in Seq(Sequential!Ids \X {0, 1})
  BY DEF CampaignInv, Sequential!TypeOK
<1>4. CASE Sequential!SendDirect
  <2>1. /\ pc = "item" /\ pc' = "direct" /\ direct' = [direct EXCEPT ![at] = "sent"]
        /\ sent' = Append(sent, <<at, 0>>)
    BY <1>4 DEF Sequential!SendDirect
  <2>2. \A c \in DOMAIN sent : sent[c][1] < at
    BY <2>1 DEF CampaignInv, SentInv
  <2>3. /\ sent' \in Seq(Sequential!Ids \X {0, 1})
        /\ \A c \in DOMAIN sent' : sent'[c] = <<at, 0>> \/ \E d \in DOMAIN sent : sent'[c] = sent[d]
        /\ \A a, b \in DOMAIN sent' : a < b => \/ sent'[a][1] < sent'[b][1]
                                               \/ sent'[a][1] = sent'[b][1] /\ sent'[a][2] < sent'[b][2]
    <3>1. \A a, b \in DOMAIN sent : a < b => \/ sent[a][1] < sent[b][1]
                                             \/ sent[a][1] = sent[b][1] /\ sent[a][2] < sent[b][2]
      BY DEF CampaignInv, SentInv
    <3>2. \A c \in DOMAIN sent : sent[c][1] < at \/ (sent[c][1] = at /\ sent[c][2] < 0)
      BY <2>2
    <3> DEFINE t == Append(sent, <<at, 0>>)
    <3>3. /\ t \in Seq(Sequential!Ids \X {0, 1})
          /\ \A c \in DOMAIN t : t[c] = <<at, 0>> \/ \E d \in DOMAIN sent : t[c] = sent[d]
          /\ \A a, b \in DOMAIN t : a < b => \/ t[a][1] < t[b][1]
                                             \/ t[a][1] = t[b][1] /\ t[a][2] < t[b][2]
      BY <1>1, <1>2, <1>3, <3>1, <3>2, CallAppended, Zenon
    <3>. QED BY <2>1, <3>3
  <2>4. Sequential!TypeOK'
    BY <1>0, <1>1, <1>2, <1>3, <2>1, <2>3 DEF CampaignInv, Sequential!TypeOK
  <2>5. LoopInv'
    BY <1>0, <1>1, <1>2, <1>3, <2>1 DEF CampaignInv, LoopInv, Looping
  <2>6. SentInv'
    <3>1. /\ <<at, 0>>[1] = at /\ \A k \in Sequential!Ids : <<at, 0>> # <<k, 1>>
      OBVIOUS
    <3>2. \A c \in DOMAIN sent' : sent'[c][1] <= at
      BY <1>1, <2>2, <2>3, <3>1 DEF CampaignInv, SentInv
    <3>3. \A c \in DOMAIN sent' : sent'[c] # <<at, 1>>
      BY <1>1, <2>2, <2>3, <3>1
    <3>4. \A k \in Sequential!Ids : direct'[k] = "failed" => \A c \in DOMAIN sent' : sent'[c] # <<k, 1>>
      BY <1>1, <1>3, <2>1, <2>3, <3>1 DEF CampaignInv, SentInv
    <3>. QED BY <1>0, <1>2, <2>1, <2>3, <3>2, <3>3, <3>4 DEF SentInv
  <2>7. ShutInv' /\ VerdictInv'
    BY <1>0, <1>2, <2>1 DEF CampaignInv, ShutInv, VerdictInv, Looping
  <2>. QED BY <2>4, <2>5, <2>6, <2>7 DEF CampaignInv
<1>5. CASE Sequential!DirectEnds
  <2>1. /\ pc = "direct" /\ sent' = sent
        /\ \/ direct' = [direct EXCEPT ![at] = "ok"] /\ pc' = "submit"
           \/ direct' = [direct EXCEPT ![at] = "failed"] /\ pc' = "report"
    BY <1>5 DEF Sequential!DirectEnds
  <2>4. Sequential!TypeOK'
    BY <1>0, <1>1, <1>2, <1>3, <2>1 DEF CampaignInv, Sequential!TypeOK
  <2>5. LoopInv'
    BY <1>0, <1>1, <1>2, <1>3, <2>1 DEF CampaignInv, LoopInv, Looping
  <2>6. SentInv'
    BY <1>0, <1>1, <1>2, <1>3, <2>1 DEF CampaignInv, SentInv
  <2>7. ShutInv' /\ VerdictInv'
    BY <1>0, <1>2, <2>1 DEF CampaignInv, ShutInv, VerdictInv, Looping
  <2>. QED BY <2>4, <2>5, <2>6, <2>7 DEF CampaignInv
<1>. QED BY <1>4, <1>5

\* Submission, and the ends of the loop that leave `at' where it is.
LEMMA CampaignSubmits ==
    ASSUME Sequential!CampaignAssumption, CampaignInv,
           \/ Sequential!Submit \/ Sequential!WaitRaises
           \/ /\ pc = "wait"
              /\ Sequential!Raise \/ Sequential!Break
              /\ UNCHANGED Sequential!Loop
    PROVE  CampaignInv'
<1>0. /\ UNCHANGED <<input, at, flight, sent, direct, quarantined, rows, report, closed, labels>>
      /\ pc \in Looping /\ pc' \in {"wait", "report", "close"} /\ raised' \in BOOLEAN
      /\ \/ job' = job /\ pc' # "wait"
         \/ /\ \E end \in {"queued", "rejected"} : job' = [job EXCEPT ![at] = end]
            /\ pc \in {"submit", "item"} /\ (pc = "item" => input.tool # "compare")
  <2>1. raised \in BOOLEAN
    BY DEF CampaignInv, Sequential!TypeOK
  <2>2. CASE Sequential!Submit
    BY <2>1, <2>2 DEF Sequential!Submit, Sequential!Raise, Sequential!Loop, Looping, Sequential!tool
  <2>3. CASE pc = "wait" /\ (Sequential!Raise \/ Sequential!Break) /\ UNCHANGED Sequential!Loop
    BY <2>1, <2>3 DEF Sequential!Raise, Sequential!Break, Sequential!Loop, Looping
  <2>. QED BY <2>2, <2>3 DEF Sequential!WaitRaises
<1>1. at \in Sequential!Ids /\ at \in Nat /\ Sequential!Count \in Nat /\ at <= Sequential!Count
  BY <1>0, AtItem
<1>2. Sequential!Count' = Sequential!Count /\ Sequential!Ids' = Sequential!Ids /\ Sequential!Ids \subseteq Nat
  BY <1>0, SameInput, CountBounds DEF CampaignInv, Sequential!TypeOK
<1>3. job \in [Sequential!Ids -> Sequential!Pending \cup Sequential!Terminal \cup {"none"}]
  BY DEF CampaignInv, Sequential!TypeOK
<1>4. Sequential!TypeOK'
  BY <1>0, <1>1, <1>2, <1>3 DEF CampaignInv, Sequential!TypeOK, Sequential!Pending, Sequential!Terminal
<1>5. LoopInv'
  <2>1. CASE job' = job /\ pc' # "wait"
    BY <1>0, <1>1, <1>2, <2>1 DEF CampaignInv, LoopInv, Looping, Sequential!Terminal
  <2>2. CASE \E end \in {"queued", "rejected"} : job' = [job EXCEPT ![at] = end]
    BY <1>0, <1>1, <1>2, <1>3, <2>2 DEF CampaignInv, LoopInv, Looping, Sequential!Terminal
  <2>. QED BY <1>0, <2>1, <2>2
<1>6. SentInv'
  BY <1>0, <1>1, <1>2, <1>3 DEF CampaignInv, SentInv
<1>7. ShutInv' /\ VerdictInv'
  BY <1>0, <1>1, <1>2, <1>3 DEF CampaignInv, ShutInv, VerdictInv, Looping
<1>. QED BY <1>4, <1>5, <1>6, <1>7 DEF CampaignInv

\* A result is taken: it is recorded and the loop goes on, or the loop ends.
LEMMA CampaignTakes ==
    ASSUME Sequential!CampaignAssumption, CampaignInv, NEW valid \in BOOLEAN,
           \/ Sequential!CompareTakes(valid) \/ Sequential!ReplayTakes(valid)
           \/ Sequential!ScreenTakes(valid) \/ Sequential!ProbeTakes(valid)
    PROVE  CampaignInv'
<1>0. pc = "wait" /\ job[at] \in Sequential!Terminal /\ pc \in Looping /\ UNCHANGED Sequential!Loop
  BY DEF Sequential!CompareTakes, Sequential!ReplayTakes, Sequential!ScreenTakes, Sequential!ProbeTakes,
     Sequential!Returned, Looping
<1>1. CASE Sequential!Raise \/ Sequential!Break
  BY <1>0, <1>1, CampaignSubmits
<1>2. CASE ~(Sequential!Raise \/ Sequential!Break)
  <2>1. \E end \in Sequential!Terminal :
           /\ rows' = Append(rows, [item |-> at, state |-> end])
           /\ at' = at + 1 /\ raised' = raised
           /\ pc' = IF at = Sequential!Count THEN Sequential!AfterLoop ELSE "item"
           /\ \/ end = "consumed" /\ job' = [job EXCEPT ![at] = "consumed"]
              \/ job' = job /\ input.tool = "screen"
    BY <1>0, <1>2 DEF Sequential!CompareTakes, Sequential!ReplayTakes, Sequential!ScreenTakes, Sequential!ProbeTakes,
       Sequential!Take, Sequential!Record, Sequential!tool, Sequential!Terminal
  <2>2. UNCHANGED <<input, flight, sent, direct, quarantined, report, closed, labels>>
    BY <1>0 DEF Sequential!Loop
  <2>3. at \in Sequential!Ids /\ at \in Nat /\ Sequential!Count \in Nat /\ at <= Sequential!Count /\ at # 0
    BY <1>0, AtItem DEF CampaignInv, LoopInv
  <2>4. Sequential!Count' = Sequential!Count /\ Sequential!Ids' = Sequential!Ids /\ Sequential!Ids \subseteq Nat
    BY <2>2, SameInput, CountBounds DEF CampaignInv, Sequential!TypeOK
  <2>5. job \in [Sequential!Ids -> Sequential!Pending \cup Sequential!Terminal \cup {"none"}]
        /\ rows \in Seq([item : Nat, state : Sequential!Terminal]) /\ Len(rows) = at - 1
    BY DEF CampaignInv, Sequential!TypeOK, LoopInv
  <2>6. /\ pc' \in {"item", "report", "close"} /\ (pc' = "item" => at # Sequential!Count)
    BY <2>1 DEF Sequential!AfterLoop
  <2>7. /\ \A k \in Sequential!Ids : job'[k] = IF k = at /\ input.tool # "screen" THEN "consumed" ELSE job'[k]
        /\ \A k \in Sequential!Ids \ {at} : job'[k] = job[k]
        /\ job'[at] \in Sequential!Terminal
        /\ job' \in [Sequential!Ids -> Sequential!Pending \cup Sequential!Terminal \cup {"none"}]
        /\ job'[at] # "consumed" => job' = job
    BY <1>0, <2>1, <2>3, <2>5 DEF Sequential!Terminal
  <2>8. Sequential!TypeOK'
    BY <2>1, <2>2, <2>3, <2>4, <2>6, <2>7 DEF CampaignInv, Sequential!TypeOK
  <2>9. LoopInv'
    <3>1. /\ rows' \in Seq([item : Nat, state : Sequential!Terminal]) /\ Len(rows') = at
          /\ \A r \in DOMAIN rows' : rows'[r].item = r
      <4>1. PICK end \in Sequential!Terminal : rows' = Append(rows, [item |-> at, state |-> end])
        BY <2>1
      <4>2. [item |-> at, state |-> end] \in [item : Nat, state : Sequential!Terminal]
        BY <2>3
      <4>3. \A r \in DOMAIN rows : rows[r].item = r
        BY DEF CampaignInv, LoopInv
      <4>4. /\ rows' \in Seq([item : Nat, state : Sequential!Terminal]) /\ Len(rows') = at
            /\ DOMAIN rows' = 1..at /\ DOMAIN rows = 1..(at - 1)
        BY <2>3, <2>5, <4>1, <4>2
      <4>5. ASSUME NEW r \in DOMAIN rows' PROVE rows'[r].item = r
        <5>1. CASE r = at
          BY <2>3, <2>5, <4>1, <5>1
        <5>2. CASE r # at
          <6>1. r \in DOMAIN rows /\ rows'[r] = rows[r]
            BY <2>3, <2>5, <4>1, <4>4, <5>2
          <6>. QED BY <4>3, <6>1
        <5>. QED BY <5>1, <5>2
      <4>. QED BY <4>4, <4>5
    <3>2. at' \in Nat \ {0} /\ at' <= Sequential!Count + 1 /\ (pc' \in Looping => at' <= Sequential!Count)
          /\ pc' # "check" /\ at' = at + 1 /\ pc' \notin {"submit", "wait"}
      BY <2>1, <2>3, <2>6 DEF Looping
    <3>3. \A k \in Sequential!Ids : k < at + 1 =>
             /\ job'[k] \in Sequential!Terminal
             /\ input.tool # "screen" => job'[k] = "consumed" /\ direct[k] # "failed"
             /\ input.tool = "compare" => direct[k] = "ok"
      <4>1. ASSUME NEW k \in Sequential!Ids, k < at + 1, k # at PROVE k < at
        BY <2>3, <2>4, <4>1
      <4>. QED BY <1>0, <2>3, <2>4, <2>7, <4>1 DEF CampaignInv, LoopInv
    <3>4. \A k \in Sequential!Ids : k >= at + 1 => job'[k] = "none" /\ direct[k] = "none"
      <4>1. \A k \in Sequential!Ids : k >= at + 1 => k > at /\ k # at
        BY <2>3, <2>4
      <4>. QED BY <2>7, <4>1 DEF CampaignInv, LoopInv
    <3>. QED BY <2>2, <2>3, <2>4, <3>1, <3>2, <3>3, <3>4 DEF LoopInv
  <2>10. SentInv'
    <3>1. \A c \in DOMAIN sent : sent[c][1] <= at /\ sent[c][1] \in Nat
      <4>1. sent \in Seq(Sequential!Ids \X {0, 1})
        BY DEF CampaignInv, Sequential!TypeOK
      <4>2. ASSUME NEW c \in DOMAIN sent PROVE sent[c][1] \in Nat
        <5>1. sent[c] \in Sequential!Ids \X {0, 1}
          BY <4>1
        <5>2. sent[c][1] \in Sequential!Ids
          BY <5>1
        <5>. QED BY <2>4, <5>2
      <4>. QED BY <4>2 DEF CampaignInv, SentInv
    <3>2. \A c \in DOMAIN sent : sent[c][1] <= at' /\ sent[c][1] < at'
      BY <2>1, <2>3, <3>1
    <3>. QED BY <2>2, <2>4, <2>6, <3>2 DEF CampaignInv, SentInv
  <2>11. ShutInv' /\ VerdictInv'
    <3>1. ShutInv'
      BY <1>0, <2>2, <2>3, <2>4, <2>6, <2>7 DEF CampaignInv, ShutInv, Looping, Sequential!Terminal
    <3>2. VerdictInv'
      BY <1>0, <2>2, <2>6 DEF CampaignInv, VerdictInv, Looping
    <3>. QED BY <3>1, <3>2
  <2>. QED BY <2>8, <2>9, <2>10, <2>11 DEF CampaignInv
<1>. QED BY <1>1, <1>2

\* The coordinator starts a queued job: it can only be the item the driver waits for.
LEMMA CampaignDispatch ==
    ASSUME Sequential!CampaignAssumption, CampaignInv, NEW k \in Sequential!Ids, Sequential!Dispatch(k)
    PROVE  CampaignInv'
<1>0. /\ UNCHANGED <<input, pc, at, direct, quarantined, rows, report, raised, closed, labels>>
      /\ pc = "wait" /\ job[k] = "queued" /\ pc \in Looping
      /\ \/ job' = [job EXCEPT ![k] = "running"] /\ flight' = flight \cup {k} /\ sent' = Append(sent, <<k, 1>>)
         \/ job' = [job EXCEPT ![k] = "rejected"] /\ UNCHANGED <<flight, sent>>
  BY DEF Sequential!Dispatch, Looping
<1>1. at \in Sequential!Ids /\ at \in Nat /\ Sequential!Count \in Nat /\ at <= Sequential!Count
  BY <1>0, AtItem
<1>2. Sequential!Count' = Sequential!Count /\ Sequential!Ids' = Sequential!Ids /\ Sequential!Ids \subseteq Nat
  BY <1>0, SameInput, CountBounds DEF CampaignInv, Sequential!TypeOK
<1>3. job \in [Sequential!Ids -> Sequential!Pending \cup Sequential!Terminal \cup {"none"}]
      /\ sent \in Seq(Sequential!Ids \X {0, 1}) /\ flight \subseteq Sequential!Ids
  BY DEF CampaignInv, Sequential!TypeOK
<1>4. k = at
  <2>1. ~(k < at) /\ ~(k > at)
    BY <1>0 DEF CampaignInv, LoopInv, Sequential!Terminal
  <2>. QED BY <1>1, <1>2, <2>1
<1>5. LoopInv'
  BY <1>0, <1>1, <1>2, <1>3, <1>4 DEF CampaignInv, LoopInv, Sequential!Terminal
<1>6. ShutInv' /\ VerdictInv'
  BY <1>0, <1>1, <1>2, <1>3, <1>4 DEF CampaignInv, ShutInv, VerdictInv, Looping
<1>7. CASE sent' = sent
  <2>1. SentInv'
    BY <1>0, <1>1, <1>2, <1>3, <1>4, <1>7 DEF CampaignInv, SentInv
  <2>2. Sequential!TypeOK'
    BY <1>0, <1>2, <1>3, <1>7 DEF CampaignInv, Sequential!TypeOK, Sequential!Pending, Sequential!Terminal
  <2>. QED BY <1>5, <1>6, <2>1, <2>2 DEF CampaignInv
<1>8. CASE sent' = Append(sent, <<k, 1>>)
  <2>1. \A a, b \in DOMAIN sent : a < b => \/ sent[a][1] < sent[b][1]
                                           \/ sent[a][1] = sent[b][1] /\ sent[a][2] < sent[b][2]
    BY DEF CampaignInv, SentInv
  <2>2. ASSUME NEW c \in DOMAIN sent PROVE sent[c][1] < at \/ (sent[c][1] = at /\ sent[c][2] < 1)
    <3>1. sent[c] \in Sequential!Ids \X {0, 1}
      BY <1>3
    <3>2. sent[c] = <<sent[c][1], sent[c][2]>> /\ sent[c][1] \in Sequential!Ids /\ sent[c][2] \in {0, 1}
      BY <3>1
    <3>3. sent[c] # <<at, 1>> /\ sent[c][1] <= at
      BY <1>0, <1>4 DEF CampaignInv, SentInv
    <3>4. sent[c][1] \in Nat /\ (sent[c][1] = at => sent[c][2] = 0)
      BY <1>2, <3>2, <3>3
    <3>. QED BY <1>1, <3>3, <3>4
  <2> DEFINE t == Append(sent, <<at, 1>>)
  <2>3. /\ t \in Seq(Sequential!Ids \X {0, 1})
        /\ \A c \in DOMAIN t : t[c] = <<at, 1>> \/ \E d \in DOMAIN sent : t[c] = sent[d]
        /\ \A a, b \in DOMAIN t : a < b => \/ t[a][1] < t[b][1]
                                           \/ t[a][1] = t[b][1] /\ t[a][2] < t[b][2]
    BY <1>1, <1>2, <1>3, <2>1, <2>2, CallAppended, Zenon
  <2>4. sent' = t
    BY <1>4, <1>8
  <2> HIDE DEF t
  <2>5. Sequential!TypeOK'
    BY <1>0, <1>2, <1>3, <2>3, <2>4 DEF CampaignInv, Sequential!TypeOK, Sequential!Pending, Sequential!Terminal
  <2>6. SentInv'
    <3>1. <<at, 1>>[1] = at /\ \A j \in Sequential!Ids : <<at, 1>> = <<j, 1>> => j = at
      OBVIOUS
    <3>2. \A c \in DOMAIN t : t[c][1] <= at
      BY <1>1, <2>3, <3>1 DEF CampaignInv, SentInv
    <3>3. direct[at] # "failed" /\ job'[at] # "queued"
      <4>1. direct[at] # "failed"
        BY <1>0, <1>1 DEF CampaignInv, LoopInv
      <4>2. job'[at] \in {"running", "rejected"}
        BY <1>0, <1>3, <1>4
      <4>. QED BY <4>1, <4>2
    <3>4. \A j \in Sequential!Ids : direct[j] = "failed" => \A c \in DOMAIN t : t[c] # <<j, 1>>
      BY <2>3, <3>1, <3>3 DEF CampaignInv, SentInv
    <3>. QED BY <1>0, <1>2, <2>3, <2>4, <3>2, <3>3, <3>4 DEF SentInv
  <2>. QED BY <1>5, <1>6, <2>5, <2>6 DEF CampaignInv
<1>. QED BY <1>0, <1>7, <1>8

\* A job expires or its call ends, in the loop or while the coordinator drains: only the
\* item the driver was at can still be pending.
LEMMA CampaignEndsJob ==
    ASSUME Sequential!CampaignAssumption, CampaignInv, NEW k \in Sequential!Ids,
           Sequential!Expire(k) \/ Sequential!CallEnds(k)
    PROVE  CampaignInv'
<1>0. /\ UNCHANGED <<input, pc, at, sent, direct, rows, report, raised, closed, labels>>
      /\ flight' \subseteq flight
      /\ \/ job' = job
         \/ /\ job[k] \in Sequential!Pending
            /\ \E s \in {"expired", "succeeded", "failed", "unknown"} :
                  job' = [job EXCEPT ![k] = s] /\ (s = "unknown" => quarantined')
      /\ quarantined' \in BOOLEAN /\ (quarantined => quarantined')
      /\ \A j \in Sequential!Ids : j \in flight \ flight' => j = k
      /\ flight' # flight => job'[k] # "running"
  <2>1. CASE Sequential!Expire(k)
    BY <2>1 DEF Sequential!Expire, CampaignInv, Sequential!TypeOK
  <2>2. CASE Sequential!CallEnds(k)
    <3>0. job \in [Sequential!Ids -> Sequential!Pending \cup Sequential!Terminal \cup {"none"}] /\ quarantined \in BOOLEAN
      BY DEF CampaignInv, Sequential!TypeOK
    <3>1. /\ UNCHANGED <<input, pc, at, sent, direct, rows, report, raised, closed, labels>>
          /\ k \in flight /\ flight' = flight \ {k}
          /\ \E end \in {"ok", "late", "known", "unknown"} :
                /\ job' = IF job[k] # "running" THEN job
                          ELSE [job EXCEPT ![k] = CASE end = "ok" -> "succeeded" [] end = "late" -> "expired"
                                                    [] end = "known" -> "failed" [] end = "unknown" -> "unknown"]
                /\ quarantined' = (quarantined \/ end = "unknown")
      BY <2>2 DEF Sequential!CallEnds, Sequential!Endings
    <3>2. PICK end \in {"ok", "late", "known", "unknown"} :
                /\ job' = IF job[k] # "running" THEN job
                          ELSE [job EXCEPT ![k] = CASE end = "ok" -> "succeeded" [] end = "late" -> "expired"
                                                    [] end = "known" -> "failed" [] end = "unknown" -> "unknown"]
                /\ quarantined' = (quarantined \/ end = "unknown")
      BY <3>1
    <3> DEFINE s == CASE end = "ok" -> "succeeded" [] end = "late" -> "expired"
                      [] end = "known" -> "failed" [] end = "unknown" -> "unknown"
    <3>3. s \in {"expired", "succeeded", "failed", "unknown"} /\ (s = "unknown" => end = "unknown") /\ s # "running"
      OBVIOUS
    <3>4. job' = IF job[k] # "running" THEN job ELSE [job EXCEPT ![k] = s]
      BY <3>2
    <3> HIDE DEF s
    <3>5. quarantined' \in BOOLEAN /\ (quarantined => quarantined') /\ (s = "unknown" => quarantined')
      BY <3>0, <3>2, <3>3
    <3>6. job'[k] # "running"
      BY <3>0, <3>3, <3>4
    <3>. QED BY <3>0, <3>1, <3>3, <3>4, <3>5, <3>6 DEF Sequential!Pending
  <2>. QED BY <2>1, <2>2
<1>1. Sequential!Count' = Sequential!Count /\ Sequential!Ids' = Sequential!Ids /\ Sequential!Ids \subseteq Nat
      /\ at \in Nat
  BY <1>0, SameInput, CountBounds DEF CampaignInv, Sequential!TypeOK
<1>2. job \in [Sequential!Ids -> Sequential!Pending \cup Sequential!Terminal \cup {"none"}]
      /\ job' \in [Sequential!Ids -> Sequential!Pending \cup Sequential!Terminal \cup {"none"}]
  <2>1. job \in [Sequential!Ids -> Sequential!Pending \cup Sequential!Terminal \cup {"none"}]
    BY DEF CampaignInv, Sequential!TypeOK
  <2>. QED BY <1>0, <2>1 DEF Sequential!Terminal
<1>3. Sequential!TypeOK'
  BY <1>0, <1>1, <1>2 DEF CampaignInv, Sequential!TypeOK
<1>4. CASE job' = job
  <2>1. LoopInv' /\ SentInv'
    BY <1>0, <1>1, <1>4 DEF CampaignInv, LoopInv, SentInv, Sequential!Terminal
  <2>2. ShutInv' /\ VerdictInv'
    BY <1>0, <1>1, <1>4 DEF CampaignInv, ShutInv, VerdictInv
  <2>. QED BY <1>3, <2>1, <2>2 DEF CampaignInv
<1>5. CASE job' # job
  <2>1. PICK s \in {"expired", "succeeded", "failed", "unknown"} :
           job' = [job EXCEPT ![k] = s] /\ (s = "unknown" => quarantined')
    BY <1>0, <1>5
  <2>2. job[k] \in Sequential!Pending
    BY <1>0, <1>5
  <2>3. k = at /\ at \in Sequential!Ids
    <3>1. ~(k < at) /\ ~(k > at)
      BY <2>2 DEF CampaignInv, LoopInv, Sequential!Terminal, Sequential!Pending
    <3>. QED BY <1>1, <3>1
  <2>4. pc \notin {"check", "item", "direct", "submit"}
    BY <2>2, <2>3 DEF CampaignInv, LoopInv, Sequential!Pending
  <2>5. \A j \in Sequential!Ids : job'[j] = IF j = at THEN s ELSE job[j]
    BY <1>2, <2>1, <2>3
  <2>6. LoopInv'
    BY <1>0, <1>1, <2>3, <2>4, <2>5 DEF CampaignInv, LoopInv, Looping, Sequential!Terminal
  <2>7. SentInv'
    BY <1>0, <1>1, <2>3, <2>4, <2>5 DEF CampaignInv, SentInv
  <2>8. ShutInv'
    BY <1>0, <1>1, <2>1, <2>3, <2>5 DEF CampaignInv, ShutInv
  <2>9. VerdictInv'
    BY <1>0, <1>1 DEF CampaignInv, VerdictInv
  <2>. QED BY <1>3, <2>6, <2>7, <2>8, <2>9 DEF CampaignInv
<1>. QED BY <1>4, <1>5

\* The end of a run: the verdict, the shutdown and the evaluation by hand.
LEMMA CampaignShuts ==
    ASSUME Sequential!CampaignAssumption, CampaignInv,
           Sequential!Report \/ Sequential!Close \/ Sequential!Drained \/ Sequential!Evaluate
    PROVE  CampaignInv'
<1>0. /\ UNCHANGED <<input, at, flight, sent, direct, quarantined, rows, raised>>
      /\ pc \in {"report", "close", "drain", "over"} /\ pc' \in {"report", "close", "drain", "over"}
  BY DEF Sequential!Report, Sequential!Close, Sequential!Drained, Sequential!Evaluate, Sequential!coordinator
<1>1. Sequential!Count' = Sequential!Count /\ Sequential!Ids' = Sequential!Ids /\ Sequential!Ids \subseteq Nat
      /\ Sequential!Count \in Nat
  BY <1>0, SameInput, CountBounds DEF CampaignInv, Sequential!TypeOK
<1>2. job \in [Sequential!Ids -> Sequential!Pending \cup Sequential!Terminal \cup {"none"}]
  BY DEF CampaignInv, Sequential!TypeOK
<1>3. at \in Nat /\ rows \in Seq([item : Nat, state : Sequential!Terminal]) /\ Len(rows) = at - 1
      /\ \A r \in DOMAIN rows : rows[r].item = r
  BY DEF CampaignInv, LoopInv
<1>4. CASE Sequential!Report
  <2>1. /\ pc = "report" /\ job' = job /\ closed' = closed /\ labels' = labels
        /\ pc' = IF closed THEN "over" ELSE "close"
    BY <1>4 DEF Sequential!Report, Sequential!coordinator
  <2>2. input.tool \in {"compare", "replay", "screen", "probe"}
    BY DEF CampaignInv, Sequential!TypeOK, Sequential!CampaignAssumption
  <2>3. /\ report' \in {"passed", "failed", "failed_or_incomplete", "transport_completed",
                        "transport_incomplete", "summary"}
        /\ report' = "passed" => Len(rows) = Sequential!Count /\ input.tool # "screen"
    BY <1>4, <2>2 DEF Sequential!Report, Sequential!CompareVerdict, Sequential!ReplayVerdict, Sequential!ScreenVerdict,
       Sequential!tool
  <2>4. Sequential!TypeOK'
    BY <1>0, <1>1, <1>2, <2>1, <2>3 DEF CampaignInv, Sequential!TypeOK
  <2>5. LoopInv' /\ SentInv'
    BY <1>0, <1>1, <2>1 DEF CampaignInv, LoopInv, SentInv, Looping, Sequential!Terminal
  <2>6. ShutInv'
    BY <1>0, <1>1, <2>1, <2>3 DEF CampaignInv, ShutInv, Looping
  <2>7. report' = "passed" => at = Sequential!Count + 1
    BY <1>1, <1>3, <2>3
  <2>8. VerdictInv'
    BY <1>0, <1>1, <2>1, <2>3, <2>7 DEF CampaignInv, VerdictInv, Looping
  <2>. QED BY <2>4, <2>5, <2>6, <2>8 DEF CampaignInv
<1>5. CASE Sequential!Close
  <2>1. /\ pc = "close" /\ pc' = "drain" /\ closed' = TRUE /\ report' = report /\ labels' = labels
        /\ job' = [k \in Sequential!Ids |-> IF job[k] = "queued" THEN "cancelled" ELSE job[k]]
    BY <1>5 DEF Sequential!Close
  <2>2. /\ job' \in [Sequential!Ids -> Sequential!Pending \cup Sequential!Terminal \cup {"none"}]
        /\ \A k \in Sequential!Ids : job'[k] = IF job[k] = "queued" THEN "cancelled" ELSE job[k]
    BY <1>2, <2>1 DEF Sequential!Terminal
  <2>3. Sequential!TypeOK'
    BY <1>0, <1>1, <2>1, <2>2 DEF CampaignInv, Sequential!TypeOK
  <2>4. LoopInv'
    BY <1>0, <1>1, <2>1, <2>2 DEF CampaignInv, LoopInv, Looping, Sequential!Terminal
  <2>5. SentInv'
    BY <1>0, <1>1, <2>1 DEF CampaignInv, SentInv
  <2>6. ShutInv' /\ VerdictInv'
    BY <1>0, <1>1, <2>1, <2>2 DEF CampaignInv, ShutInv, VerdictInv, Looping
  <2>. QED BY <2>3, <2>4, <2>5, <2>6 DEF CampaignInv
<1>6. CASE Sequential!Drained
  <2>1. /\ pc = "drain" /\ flight = {} /\ pc' \in {"report", "over"} /\ job' = job
        /\ closed' = closed /\ report' = report /\ labels' = labels
    BY <1>6 DEF Sequential!Drained, Sequential!coordinator
  <2>2. Sequential!TypeOK'
    BY <1>0, <1>1, <2>1 DEF CampaignInv, Sequential!TypeOK
  <2>3. LoopInv' /\ SentInv'
    BY <1>0, <1>1, <2>1 DEF CampaignInv, LoopInv, SentInv, Looping, Sequential!Terminal
  <2>4. ShutInv' /\ VerdictInv'
    BY <1>0, <1>1, <2>1 DEF CampaignInv, ShutInv, VerdictInv, Looping
  <2>. QED BY <2>2, <2>3, <2>4 DEF CampaignInv
<1>7. CASE Sequential!Evaluate
  <2>1. /\ pc = "over" /\ pc' = "over" /\ job' = job /\ closed' = closed /\ report' = report
        /\ labels' \in {"scored", "read"} /\ (labels' = "scored" => Sequential!Covered)
    BY <1>7 DEF Sequential!Evaluate, Sequential!coordinator
  <2>2. ASSUME Sequential!Covered PROVE at = Sequential!Count + 1
    <3>1. DOMAIN rows = 1..(at - 1)
      BY <1>3
    <3>2. {rows[r].item : r \in DOMAIN rows} = 1..(at - 1)
      BY <1>3, <3>1
    <3>3. 1..(at - 1) = 1..Sequential!Count
      BY <2>2, <3>2 DEF Sequential!Covered
    <3>4. at - 1 = Sequential!Count
      <4>1. at >= 1 /\ at - 1 <= Sequential!Count
        BY <1>1, <1>3 DEF CampaignInv, LoopInv
      <4>2. Sequential!Count >= 1 => Sequential!Count \in 1..(at - 1)
        <5>1. Sequential!Count >= 1 => Sequential!Count \in 1..Sequential!Count
          BY <1>1
        <5>. QED BY <3>3, <5>1, Zenon
      <4>. QED BY <1>1, <1>3, <4>1, <4>2
    <3>. QED BY <1>1, <1>3, <3>4
  <2>3. Sequential!TypeOK'
    BY <1>0, <1>1, <2>1 DEF CampaignInv, Sequential!TypeOK
  <2>4. LoopInv' /\ SentInv'
    BY <1>0, <1>1, <2>1 DEF CampaignInv, LoopInv, SentInv, Looping, Sequential!Terminal
  <2>5. ShutInv' /\ VerdictInv'
    BY <1>0, <1>1, <2>1, <2>2 DEF CampaignInv, ShutInv, VerdictInv, Looping
  <2>. QED BY <2>3, <2>4, <2>5 DEF CampaignInv
<1>. QED BY <1>4, <1>5, <1>6, <1>7

\* A driver about to check its input has done nothing.
LEMMA CampaignStarts ==
    ASSUME Sequential!CampaignAssumption, Sequential!Init PROVE CampaignInv
<1>1. input \in Inputs /\ Sequential!Count \in Nat /\ Sequential!Ids \subseteq Nat
  BY CountBounds DEF Sequential!Init
<1>2. Sequential!TypeOK
  <2>1. sent \in Seq(Sequential!Ids \X {0, 1})
    BY DEF Sequential!Init
  <2>2. /\ job \in [Sequential!Ids -> Sequential!Pending \cup Sequential!Terminal \cup {"none"}]
        /\ direct \in [Sequential!Ids -> {"none", "sent", "ok", "failed"}]
    BY DEF Sequential!Init
  <2>. QED BY <2>1, <2>2 DEF Sequential!Init, Sequential!TypeOK
<1>3. LoopInv /\ SentInv
  BY <1>1 DEF Sequential!Init, LoopInv, SentInv, Looping
<1>4. ShutInv /\ VerdictInv
  BY <1>1 DEF Sequential!Init, ShutInv, VerdictInv, Looping
<1>. QED BY <1>2, <1>3, <1>4 DEF CampaignInv

\* The invariant of the drivers, for every list of items and every ceiling.
LEMMA CampaignInvariant ==
    ASSUME Sequential!CampaignAssumption PROVE Sequential!Spec => []CampaignInv
<1>1. Sequential!Init => CampaignInv
  BY CampaignStarts
<1>2. CampaignInv /\ [Sequential!Next]_Sequential!vars => CampaignInv'
  <2>1. SUFFICES ASSUME CampaignInv, [Sequential!Next]_Sequential!vars PROVE CampaignInv'
    OBVIOUS
  <2>2. CASE Sequential!Driver
    <3>1. CASE \E valid \in BOOLEAN : \/ Sequential!CompareTakes(valid) \/ Sequential!ReplayTakes(valid)
                                      \/ Sequential!ScreenTakes(valid) \/ Sequential!ProbeTakes(valid)
      BY <2>1, <3>1, CampaignTakes
    <3>2. CASE ~\E valid \in BOOLEAN : \/ Sequential!CompareTakes(valid) \/ Sequential!ReplayTakes(valid)
                                       \/ Sequential!ScreenTakes(valid) \/ Sequential!ProbeTakes(valid)
      BY <2>1, <2>2, <3>2, CampaignFront, CampaignDirect, CampaignSubmits, CampaignShuts DEF Sequential!Driver
    <3>. QED BY <3>1, <3>2
  <2>3. CASE Sequential!Evaluate
    BY <2>1, <2>3, CampaignShuts
  <2>4. CASE \E k \in Sequential!Ids : Sequential!Dispatch(k) \/ Sequential!Expire(k) \/ Sequential!CallEnds(k)
    BY <2>1, <2>4, CampaignDispatch, CampaignEndsJob
  <2>5. CASE UNCHANGED Sequential!vars
    BY <2>1, <2>5 DEF Sequential!vars, CampaignInv, Sequential!TypeOK, LoopInv, SentInv, ShutInv, VerdictInv,
       Sequential!Count, Sequential!Work, Sequential!Ids, Sequential!tool
  <2>. QED BY <2>1, <2>2, <2>3, <2>4, <2>5 DEF Sequential!Next
<1>. QED BY <1>1, <1>2, PTL DEF Sequential!Spec

\* Whatever the list, the endings of the calls and the moment the loop is left, every call is
\* made once and in order, and none for a later item once one has gone wrong.
THEOREM CallsStop == Spec => []NoCallAfterFailure
<1> Sequential!CampaignAssumption
  BY ExperimentsAssumption
<1>1. CampaignInv => Sequential!NoCallAfterFailure
  <2>1. SUFFICES ASSUME CampaignInv PROVE Sequential!NoCallAfterFailure
    OBVIOUS
  <2>2. ASSUME input.tool # "screen", NEW k \in Sequential!Ids, Sequential!Wrong(k)
        PROVE  k >= at
    <3>1. at \in Nat /\ k \in Nat
      BY <2>1, CountBounds DEF CampaignInv, Sequential!TypeOK
    <3>2. ~(k < at)
      BY <2>1, <2>2 DEF CampaignInv, LoopInv, Sequential!Wrong
    <3>. QED BY <3>1, <3>2
  <2>3. \A c \in DOMAIN sent : sent[c][1] <= at /\ sent[c][1] \in Nat
    <3>1. sent \in Seq(Sequential!Ids \X {0, 1}) /\ Sequential!Ids \subseteq Nat
      BY <2>1, CountBounds DEF CampaignInv, Sequential!TypeOK
    <3>2. ASSUME NEW c \in DOMAIN sent PROVE sent[c][1] \in Nat
      <4>1. sent[c] \in Sequential!Ids \X {0, 1}
        BY <3>1
      <4>2. sent[c][1] \in Sequential!Ids
        BY <4>1
      <4>. QED BY <3>1, <4>2
    <3>. QED BY <2>1, <3>2 DEF CampaignInv, SentInv
  <2>4. ASSUME input.tool # "screen", NEW k \in Sequential!Ids, Sequential!Wrong(k), NEW c \in DOMAIN sent
        PROVE  sent[c][1] <= k
    <3>1. at \in Nat /\ k \in Nat
      BY <2>1, CountBounds DEF CampaignInv, Sequential!TypeOK
    <3>. QED BY <2>2, <2>3, <2>4, <3>1
  <2>. QED BY <2>1, <2>4 DEF CampaignInv, SentInv, Sequential!NoCallAfterFailure, Sequential!tool
<1>. QED BY <1>1, CampaignInvariant, PartsRun, PTL DEF NoCallAfterFailure

\* A report that says passed stands for every item of the list, and an evaluation scores
\* only a run with a result for each.
THEOREM PassIsWhole == Spec => []PassedIsWhole
<1> Sequential!CampaignAssumption
  BY ExperimentsAssumption
<1>1. CampaignInv => Sequential!PassedIsWhole
  <2>1. SUFFICES ASSUME CampaignInv PROVE Sequential!PassedIsWhole
    OBVIOUS
  <2>2. /\ Sequential!Count \in Nat /\ at \in Nat /\ Len(rows) = at - 1
        /\ \A k \in 1..Sequential!Count : k \in Sequential!Ids /\ (at = Sequential!Count + 1 => k < at)
    BY <2>1, CountBounds DEF CampaignInv, Sequential!TypeOK, LoopInv
  <2>. QED BY <2>1, <2>2 DEF CampaignInv, LoopInv, VerdictInv, Sequential!PassedIsWhole, Sequential!tool
<1>. QED BY <1>1, CampaignInvariant, PartsRun, PTL DEF PassedIsWhole

\* However a driver ends, an exception included, its coordinator is closed and idle.
THEOREM ShutsDown == Spec => []NothingLeftBehind
<1> Sequential!CampaignAssumption
  BY ExperimentsAssumption
<1>1. CampaignInv => Sequential!NothingLeftBehind
  BY DEF CampaignInv, ShutInv, Sequential!NothingLeftBehind, Sequential!Pending
<1>. QED BY <1>1, CampaignInvariant, PartsRun, PTL DEF NothingLeftBehind

-----------------------------------------------------------------------------
(* LoadDriver: the report of a campaign.                                   *)

\* What was released has a collector; a collector that is over leaves an ended job behind.
CollectInv ==
    /\ next \in 1..(Len(plan) + 1)
    /\ \A i \in Load!Items :
          /\ i < next => collector[i] # "none"
          /\ collector[i] # "none" => state[i] # "absent"
          /\ collector[i] = "over" => state[i] \in Load!Ended
    /\ driver \in {"gather", "pending", "report"} => next = Len(plan) + 1
    /\ driver \in {"pending", "report"} => \A i \in Load!Items : collector[i] = "over"

\* An attempt is within its timeout, and none began after the collectors were through: the wait
\* for them is over when none is left.
AttemptInv ==
    /\ \A i \in Load!Running : attempt[i] <= now /\ now <= attempt[i] + Timeout
    /\ driver = "pending" => \A i \in Load!Running : attempt[i] <= since
    /\ driver = "report" => Load!Running = {}

LoadInv == Load!TypeOK /\ CollectInv /\ AttemptInv /\ Load!ReportComplete

\* Numbers and positions.
LEMMA LoadBasics ==
    ASSUME Load!LoadAssumption, Load!TypeOK
    PROVE  /\ Len(plan) \in Nat /\ Load!Items = 1..Len(plan) /\ now \in Nat /\ since \in Nat /\ Timeout \in Nat
           /\ \A i \in Load!Items : /\ i \in Nat /\ state[i] \in Load!Live \cup Load!Ended \cup {"absent"}
                                    /\ attempt[i] \in Nat \cup {-1}
           /\ Load!NotRunning = -1
<1>1. plan \in Seq(Load!Item)
  BY DEF Load!LoadAssumption, Load!TypeOK
<1>2. Len(plan) \in Nat /\ Load!Items = 1..Len(plan)
  BY <1>1 DEF Load!Items
<1>. QED BY <1>2 DEF Load!LoadAssumption, Load!TypeOK, Load!NotRunning

\* A step that writes no report leaves the report as it was.
LEMMA ReportKept ==
    ASSUME Load!ReportComplete, UNCHANGED <<plan, summary>> PROVE Load!ReportComplete'
BY DEF Load!ReportComplete, Load!NoReport, Load!MapThenSumSet, Load!MapThenFoldSet, Load!Ended

\* The driver releases, waits for the collectors and waits for the attempts.
LEMMA LoadDrives ==
    ASSUME Load!LoadAssumption, LoadInv,
           Load!ReleaseItem \/ Load!ReleaseRaises \/ Load!AllReleased \/ Load!Gathered \/ Load!Pending
    PROVE  LoadInv'
<1>0. Load!TypeOK /\ CollectInv /\ AttemptInv /\ Load!ReportComplete
  BY DEF LoadInv
<1>1. /\ Len(plan) \in Nat /\ Load!Items = 1..Len(plan) /\ now \in Nat /\ since \in Nat /\ Timeout \in Nat
      /\ \A i \in Load!Items : /\ i \in Nat /\ state[i] \in Load!Live \cup Load!Ended \cup {"absent"}
                               /\ attempt[i] \in Nat \cup {-1}
  BY <1>0, LoadBasics
<1>2. UNCHANGED <<plan, now, attempt, summary>> /\ Load!Items' = Load!Items /\ Load!Running' = Load!Running
  BY DEF Load!ReleaseItem, Load!ReleaseRaises, Load!AllReleased, Load!Gathered, Load!Pending, Load!Items, Load!Running
<1>3. Load!ReportComplete'
  BY <1>0, <1>2, ReportKept
<1>4. CASE Load!ReleaseItem
  <2>1. /\ driver = "release" /\ next \in Load!Items /\ next' = next + 1 /\ UNCHANGED <<base, driver, loop, since, failure>>
        /\ collector' = [collector EXCEPT ![next] = "polling"]
        /\ state' \in [Load!Items -> Load!Live \cup Load!Ended \cup {"absent"}]
        /\ state'[next] \in {"rejected", "queued"}
        /\ \A k \in Load!Items \ {next} :
            state'[k] = state[k] \/ (state[k] = "queued" /\ state'[k] = "superseded")
    <3> DEFINE Moved == /\ state' \in [Load!Items -> Load!Live \cup Load!Ended \cup {"absent"}]
                        /\ state'[next] \in {"rejected", "queued"}
                        /\ \A k \in Load!Items \ {next} :
                            state'[k] = state[k] \/ (state[k] = "queued" /\ state'[k] = "superseded")
    <3>1. next \in Load!Items /\ state \in [Load!Items -> Load!Live \cup Load!Ended \cup {"absent"}]
      BY <1>0, <1>4 DEF Load!ReleaseItem, Load!TypeOK
    <3>2. ASSUME state' = [state EXCEPT ![next] = "rejected"] PROVE Moved
      <4>1. state' \in [Load!Items -> Load!Live \cup Load!Ended \cup {"absent"}]
        BY <3>1, <3>2 DEF Load!Ended
      <4>2. state'[next] = "rejected" /\ \A k \in Load!Items \ {next} : state'[k] = state[k]
        BY <3>1, <3>2
      <4>. QED BY <4>1, <4>2
    <3>3. ASSUME state' = [j \in Load!Items |->
                              IF j = next THEN "queued"
                              ELSE IF j \in Load!Superseded(next) THEN "superseded" ELSE state[j]]
          PROVE  Moved
      <4>1. \A k \in Load!Superseded(next) : state[k] = "queued"
        BY DEF Load!Superseded, Load!Rivals, Load!Queued
      <4>2. state' \in [Load!Items -> Load!Live \cup Load!Ended \cup {"absent"}]
        BY <3>1, <3>3 DEF Load!Live, Load!Ended
      <4>3. state'[next] = "queued"
        BY <3>1, <3>3
      <4>4. \A k \in Load!Items \ {next} :
               state'[k] = state[k] \/ (k \in Load!Superseded(next) /\ state'[k] = "superseded")
        BY <3>3
      <4>. QED BY <4>1, <4>2, <4>3, <4>4
    <3>4. Moved
      <4>1. \/ state' = [state EXCEPT ![next] = "rejected"]
            \/ state' = [j \in Load!Items |->
                            IF j = next THEN "queued"
                            ELSE IF j \in Load!Superseded(next) THEN "superseded" ELSE state[j]]
        BY <1>4 DEF Load!ReleaseItem
      <4>. QED BY <3>2, <3>3, <4>1
    <3> HIDE DEF Moved
    <3>5. /\ driver = "release" /\ next' = next + 1 /\ UNCHANGED <<base, driver, loop, since, failure>>
          /\ collector' = [collector EXCEPT ![next] = "polling"]
      BY <1>4 DEF Load!ReleaseItem
    <3>. QED BY <3>1, <3>4, <3>5 DEF Moved
  <2>2. Load!TypeOK'
    BY <1>0, <1>1, <1>2, <2>1 DEF Load!TypeOK, Load!Live, Load!Ended
  <2>3. CollectInv'
    <3>1. next' \in 1..(Len(plan) + 1)
      BY <1>1, <2>1
    <3>2. ASSUME NEW i \in Load!Items
          PROVE  /\ i < next' => collector'[i] # "none"
                 /\ collector'[i] # "none" => state'[i] # "absent"
                 /\ collector'[i] = "over" => state'[i] \in Load!Ended
      <4>1. CASE i = next
        BY <1>0, <2>1, <4>1 DEF Load!TypeOK
      <4>2. CASE i # next
        <5>1. state'[i] = state[i] \/ (state[i] = "queued" /\ state'[i] = "superseded")
          BY <2>1, <4>2
        <5>2. collector'[i] = collector[i] /\ (i < next' => i < next)
          BY <1>0, <1>1, <2>1, <4>2 DEF Load!TypeOK, CollectInv
        <5>. QED BY <1>0, <5>1, <5>2 DEF CollectInv, Load!Ended
      <4>. QED BY <4>1, <4>2
    <3>. QED BY <1>2, <2>1, <3>1, <3>2 DEF CollectInv, Load!Ended
  <2>4. AttemptInv'
    BY <1>0, <1>2, <2>1 DEF AttemptInv
  <2>. QED BY <1>3, <2>2, <2>3, <2>4 DEF LoadInv
<1>5. CASE Load!ReleaseRaises \/ Load!AllReleased
  <2>1. /\ UNCHANGED <<base, next, state, collector, loop, since>>
        /\ \/ driver' = "cleanup" /\ failure' \in {"job", "model", "journal", "identity"}
           \/ driver' = "gather" /\ next \notin Load!Items /\ failure' = failure
    BY <1>5 DEF Load!ReleaseRaises, Load!AllReleased
  <2>2. Load!TypeOK'
    BY <1>0, <1>2, <2>1 DEF Load!TypeOK
  <2>3. CollectInv'
    <3>1. driver' = "gather" => next = Len(plan) + 1
      BY <1>0, <1>1, <2>1 DEF CollectInv
    <3>. QED BY <1>0, <1>2, <2>1, <3>1 DEF CollectInv, Load!Ended
  <2>4. AttemptInv'
    BY <1>0, <1>2, <2>1 DEF AttemptInv
  <2>. QED BY <1>3, <2>2, <2>3, <2>4 DEF LoadInv
<1>6. CASE Load!Gathered
  <2>1. /\ driver = "gather" /\ driver' = "pending" /\ since' = now /\ UNCHANGED <<base, next, state, collector, loop, failure>>
        /\ \A i \in Load!Items : collector[i] = "over"
    BY <1>6 DEF Load!Gathered
  <2>2. Load!TypeOK'
    BY <1>0, <1>2, <2>1 DEF Load!TypeOK
  <2>3. CollectInv'
    BY <1>0, <1>2, <2>1 DEF CollectInv, Load!Ended
  <2>4. AttemptInv'
    BY <1>0, <1>2, <2>1 DEF AttemptInv
  <2>. QED BY <1>3, <2>2, <2>3, <2>4 DEF LoadInv
<1>7. CASE Load!Pending
  <2>1. /\ driver = "pending" /\ driver' = "report" /\ UNCHANGED <<base, next, state, collector, loop, since, failure>>
        /\ Load!Running = {} \/ now > since + Timeout
    BY <1>7 DEF Load!Pending, Load!PendingOver
  <2>2. Load!TypeOK'
    BY <1>0, <1>2, <2>1 DEF Load!TypeOK
  <2>3. CollectInv'
    BY <1>0, <1>2, <2>1 DEF CollectInv, Load!Ended
  <2>4. Load!Running = {}
    <3>1. SUFFICES ASSUME NEW i \in Load!Running, now > since + Timeout PROVE FALSE
      BY <2>1
    <3>2. attempt[i] <= now /\ now <= attempt[i] + Timeout /\ attempt[i] <= since /\ attempt[i] \in Nat
      BY <1>0, <1>1, <2>1, <3>1 DEF AttemptInv, Load!Running, Load!NotRunning
    <3>. QED BY <1>1, <3>1, <3>2
  <2>5. AttemptInv'
    BY <1>0, <1>2, <2>1, <2>4 DEF AttemptInv
  <2>. QED BY <1>3, <2>2, <2>3, <2>5 DEF LoadInv
<1>. QED BY <1>4, <1>5, <1>6, <1>7

\* The instance counts as this module does.
LEMMA LoadCardinality == \A S : Load!Cardinality(S) = Cardinality(S)
BY DEF Load!Cardinality, Cardinality

\* The states in which a receipt is final are finitely many.
LEMMA EndedFinite == IsFiniteSet(Load!Ended)
<1>1. Load!Ended = {"succeeded"} \cup {"consumed"} \cup {"rejected"} \cup {"expired"} \cup {"cancelled"}
                     \cup {"failed"} \cup {"unknown"} \cup {"superseded"}
  BY DEF Load!Ended
<1>2. IsFiniteSet({"succeeded"} \cup {"consumed"} \cup {"rejected"})
  BY FS_Singleton, FS_AddElement
<1>3. IsFiniteSet({"succeeded"} \cup {"consumed"} \cup {"rejected"} \cup {"expired"} \cup {"cancelled"})
  BY <1>2, FS_AddElement
<1>4. IsFiniteSet({"succeeded"} \cup {"consumed"} \cup {"rejected"} \cup {"expired"} \cup {"cancelled"}
                     \cup {"failed"} \cup {"unknown"} \cup {"superseded"})
  BY <1>3, FS_AddElement
<1>. QED BY <1>1, <1>4

\* The summary of a plan whose collectors and attempts are through counts every item once.
LEMMA SummaryComplete ==
    ASSUME Load!LoadAssumption, LoadInv, driver = "report"
    PROVE  /\ Load!Summary.offered = Len(plan)
           /\ Load!Summary.states["queued"] = 0 /\ Load!Summary.states["running"] = 0
           /\ Load!Summary.offered = Load!MapThenSumSet(LAMBDA s : Load!Summary.states[s], Load!Ended)
           /\ Load!Summary.unfinished = {}
<1>0. /\ Len(plan) \in Nat /\ Load!Items = 1..Len(plan) /\ Load!Running = {}
      /\ \A i \in Load!Items : state[i] \in Load!Ended
  BY LoadBasics DEF LoadInv, CollectInv, AttemptInv
<1> DEFINE I == Load!Items
           E == Load!Ended
           Class(s) == {i \in I : state[i] = s}
           h == Load!Summary.states
<1>1. IsFiniteSet(I) /\ Cardinality(I) = Len(plan)
  <2> DEFINE n == Len(plan)
  <2>1. n \in Nat /\ I = 1..n
    BY <1>0
  <2> HIDE DEF n, I
  <2>2. IsFiniteSet(1..n) /\ Cardinality(1..n) = n
    BY <2>1, FS_Interval
  <2>. QED BY <2>1, <2>2 DEF n
<1>2. {i \in I : state[i] # "absent"} = I
  BY <1>0 DEF Load!Ended
<1>3. /\ Load!Summary.offered = Cardinality(I) /\ Load!Summary.unfinished = {}
      /\ \A s \in E \cup Load!Live : Load!Summary.states[s] = Cardinality(Class(s))
  BY <1>0, <1>2, LoadCardinality DEF Load!Summary
<1>4. Class("queued") = {} /\ Class("running") = {}
  BY <1>0 DEF Load!Ended
<1>5. Load!Summary.states["queued"] = 0 /\ Load!Summary.states["running"] = 0
  BY <1>3, <1>4, FS_EmptySet DEF Load!Live
<1>6. SumOf(h, E)[E] = Cardinality(I)
  <2> DEFINE f == [i \in I |-> state[i]]
  <2>1. f \in [I -> E] /\ \A s \in E : h[s] = Cardinality({i \in I : f[i] = s})
    BY <1>0, <1>3
  <2> HIDE DEF f, h, E, I
  <2>2. IsFiniteSet(E)
    BY EndedFinite DEF E
  <2>. QED BY <1>1, <2>1, <2>2, SumClasses
<1>7. Load!MapThenSumSet(LAMBDA s : h[s], E) = SumOf(h, E)[E]
  <2> HIDE DEF h, E
  <2>. QED BY DEF Load!MapThenSumSet, Load!MapThenFoldSet, SumOf, Unfolded, Chosen
<1>. QED BY <1>1, <1>3, <1>5, <1>6, <1>7

\* The report is written, and everything is shut down.
LEMMA LoadFinishes ==
    ASSUME Load!LoadAssumption, LoadInv, Load!WriteReport \/ Load!Cleanup
    PROVE  LoadInv'
<1>0. Load!TypeOK /\ CollectInv /\ AttemptInv /\ Load!ReportComplete
  BY DEF LoadInv
<1>1. CASE Load!WriteReport
  <2>1. /\ driver = "report" /\ driver' = "cleanup" /\ summary' = Load!Summary
        /\ UNCHANGED <<plan, now, base, next, state, attempt, collector, loop, since, failure>>
    BY <1>1 DEF Load!WriteReport
  <2>2. Load!TypeOK'
    BY <1>0, <2>1 DEF Load!TypeOK, Load!Items
  <2>3. CollectInv' /\ AttemptInv'
    BY <1>0, <2>1 DEF CollectInv, AttemptInv, Load!Items, Load!Running, Load!Ended
  <2>4. Load!ReportComplete'
    <3> DEFINE r == Load!Summary
    <3>1. /\ r.offered = Len(plan) /\ r.states["queued"] = 0 /\ r.states["running"] = 0
          /\ r.offered = Load!MapThenSumSet(LAMBDA s : r.states[s], Load!Ended)
          /\ r.unfinished = {}
      BY <2>1, SummaryComplete
    <3> HIDE DEF r
    <3>2. summary' = r /\ plan' = plan
      BY <2>1 DEF r
    <3>3. (summary.offered = Load!MapThenSumSet(LAMBDA s : summary.states[s], Load!Ended))'
      BY <3>1, <3>2 DEF Load!MapThenSumSet, Load!MapThenFoldSet, Load!Ended
    <3>. QED BY <3>1, <3>2, <3>3 DEF Load!ReportComplete
  <2>. QED BY <2>2, <2>3, <2>4 DEF LoadInv
<1>2. CASE Load!Cleanup
  <2>1. /\ driver' = "done" /\ loop' = FALSE /\ attempt' = [i \in Load!Items |-> Load!NotRunning]
        /\ UNCHANGED <<plan, now, base, next, since, summary, failure>>
        /\ collector' = [i \in Load!Items |-> IF collector[i] = "polling" THEN "over" ELSE collector[i]]
    BY <1>2 DEF Load!Cleanup
  <2>2. PICK answer \in [Load!Items -> {"succeeded", "failed", "unknown"}] :
           state' = [i \in Load!Items |-> CASE state[i] = "queued" -> "cancelled" [] state[i] = "running" -> answer[i]
                                            [] OTHER -> state[i]]
    BY <1>2 DEF Load!Cleanup
  <2>3. Load!Items' = Load!Items
    BY <2>1 DEF Load!Items
  <2>4. ASSUME NEW i \in Load!Items
        PROVE  /\ state'[i] \in Load!Live \cup Load!Ended \cup {"absent"}
               /\ collector'[i] \in {"none", "polling", "over"}
               /\ state[i] # "absent" => state'[i] \in Load!Ended
               /\ collector'[i] # "none" <=> collector[i] # "none"
    <3>1. state[i] \in Load!Live \cup Load!Ended \cup {"absent"} /\ collector[i] \in {"none", "polling", "over"}
      BY <1>0 DEF Load!TypeOK
    <3>2. state'[i] = CASE state[i] = "queued" -> "cancelled" [] state[i] = "running" -> answer[i] [] OTHER -> state[i]
      BY <2>2
    <3>3. answer[i] \in {"succeeded", "failed", "unknown"}
      BY <2>2
    <3>. QED BY <2>1, <3>1, <3>2, <3>3 DEF Load!Live, Load!Ended
  <2>5. Load!TypeOK'
    <3>1. state' \in [Load!Items -> Load!Live \cup Load!Ended \cup {"absent"}]
      BY <2>2, <2>4
    <3>2. collector' \in [Load!Items -> {"none", "polling", "over"}]
      BY <2>1, <2>4
    <3>. QED BY <1>0, <2>1, <2>3, <3>1, <3>2 DEF Load!TypeOK, Load!NotRunning, Load!Live, Load!Ended
  <2>6. CollectInv'
    <3>1. next' = next /\ plan' = plan /\ Load!Ended' = Load!Ended
      BY <2>1 DEF Load!Ended
    <3>2. ASSUME NEW i \in Load!Items
          PROVE  /\ i < next => collector'[i] # "none"
                 /\ collector'[i] # "none" => state'[i] # "absent"
                 /\ collector'[i] = "over" => state'[i] \in Load!Ended
      BY <1>0, <2>4 DEF CollectInv, Load!Ended
    <3>. QED BY <1>0, <2>1, <2>3, <3>1, <3>2 DEF CollectInv
  <2>7. AttemptInv'
    <3>1. Load!Running' = {}
      BY <2>1, <2>3 DEF Load!Running, Load!NotRunning
    <3>. QED BY <2>1, <3>1 DEF AttemptInv
  <2>. QED BY <1>0, <2>1, <2>5, <2>6, <2>7, ReportKept DEF LoadInv
<1>. QED BY <1>1, <1>2

\* A collector, the coordinator and time.
LEMMA LoadRuns ==
    ASSUME Load!LoadAssumption, LoadInv,
           \/ Load!LoopDies \/ Load!AdvanceClock \/ UNCHANGED Load!vars
           \/ \E i \in Load!Items : Load!Collect(i) \/ Load!Dispatch(i) \/ Load!Expire(i) \/ Load!AttemptEnds(i)
    PROVE  LoadInv'
<1>0. Load!TypeOK /\ CollectInv /\ AttemptInv /\ Load!ReportComplete
  BY DEF LoadInv
<1>1. /\ Len(plan) \in Nat /\ Load!Items = 1..Len(plan) /\ now \in Nat /\ since \in Nat /\ Timeout \in Nat
      /\ \A i \in Load!Items : /\ i \in Nat /\ state[i] \in Load!Live \cup Load!Ended \cup {"absent"}
                               /\ attempt[i] \in Nat \cup {-1}
      /\ Load!NotRunning = -1
  BY <1>0, LoadBasics
<1>2. ASSUME UNCHANGED <<plan, base, driver, next, since, summary, failure>>, now' \in Nat, loop' \in BOOLEAN,
             state' \in [Load!Items -> Load!Live \cup Load!Ended \cup {"absent"}],
             attempt' \in [Load!Items -> Nat \cup {-1}],
             collector' \in [Load!Items -> {"none", "polling", "over"}],
             \A i \in Load!Items : /\ collector[i] # "none" => collector'[i] # "none"
                                   /\ collector[i] = "over" => collector'[i] = "over"
                                   /\ collector'[i] # "none" => state'[i] # "absent"
                                   /\ collector'[i] = "over" => state'[i] \in Load!Ended,
             \A i \in Load!Items : attempt'[i] # -1 => /\ attempt'[i] <= now' /\ now' <= attempt'[i] + Timeout
                                                       /\ attempt'[i] = attempt[i] \/ driver \notin {"pending", "report"}
      PROVE  LoadInv'
  <2>1. Load!Items' = Load!Items /\ Load!Ended' = Load!Ended
    BY <1>2 DEF Load!Items, Load!Ended
  <2>2. Load!TypeOK'
    BY <1>0, <1>1, <1>2, <2>1 DEF Load!TypeOK, Load!NotRunning, Load!Live, Load!Ended
  <2>3. CollectInv'
    BY <1>0, <1>2, <2>1 DEF CollectInv
  <2>4. AttemptInv'
    <3>1. Load!Running = {i \in Load!Items : attempt[i] # -1} /\ Load!Running' = {i \in Load!Items : attempt'[i] # -1}
      BY <1>1, <2>1 DEF Load!Running, Load!NotRunning
    <3>2. \A i \in Load!Running' : attempt'[i] <= now' /\ now' <= attempt'[i] + Timeout
      BY <1>2, <3>1
    <3>3. driver \in {"pending", "report"} => \A i \in Load!Running' : i \in Load!Running /\ attempt'[i] = attempt[i]
      BY <1>2, <3>1
    <3>. QED BY <1>0, <1>2, <3>2, <3>3 DEF AttemptInv
  <2>. QED BY <1>0, <1>2, <2>2, <2>3, <2>4, ReportKept DEF LoadInv
<1>3. /\ state \in [Load!Items -> Load!Live \cup Load!Ended \cup {"absent"}]
      /\ attempt \in [Load!Items -> Nat \cup {-1}] /\ loop \in BOOLEAN
      /\ collector \in [Load!Items -> {"none", "polling", "over"}]
      /\ \A i \in Load!Items : /\ collector[i] # "none" => state[i] # "absent"
                               /\ collector[i] = "over" => state[i] \in Load!Ended
      /\ \A i \in Load!Items : attempt[i] # -1 => attempt[i] <= now /\ now <= attempt[i] + Timeout
  BY <1>0, <1>1 DEF Load!TypeOK, CollectInv, AttemptInv, Load!Running
<1>4. CASE Load!LoopDies \/ UNCHANGED Load!vars
  <2>1. UNCHANGED <<plan, now, base, driver, next, state, attempt, collector, since, summary, failure>> /\ loop' \in BOOLEAN
    BY <1>3, <1>4 DEF Load!LoopDies, Load!vars
  <2>. QED BY <1>1, <1>2, <1>3, <2>1
<1>5. CASE Load!AdvanceClock
  <2>1. /\ UNCHANGED <<plan, base, driver, next, state, attempt, collector, loop, since, summary, failure>>
        /\ now' = now + 1 /\ \A i \in Load!Items : attempt[i] # -1 => now < attempt[i] + Timeout
    BY <1>1, <1>5 DEF Load!AdvanceClock, Load!Running
  <2>2. now' \in Nat /\ \A i \in Load!Items : attempt[i] # -1 => attempt[i] <= now' /\ now' <= attempt[i] + Timeout
    BY <1>1, <1>3, <2>1
  <2>. QED BY <1>2, <1>3, <2>1, <2>2
<1>6. ASSUME NEW i \in Load!Items, Load!Collect(i) PROVE LoadInv'
  <2>1. /\ UNCHANGED <<plan, now, base, driver, next, attempt, loop, since, summary, failure>>
        /\ collector[i] = "polling" /\ collector' = [collector EXCEPT ![i] = "over"]
        /\ \/ state[i] \notin Load!Live /\ (state' = state \/ state' = [state EXCEPT ![i] = "consumed"])
           \/ state' = [state EXCEPT ![i] = "cancelled"]
    <3>1. state = [state EXCEPT ![i] = state[i]]
      BY <1>3
    <3>. QED BY <1>6, <3>1 DEF Load!Collect
  <2>2. state'[i] \in Load!Ended /\ \A k \in Load!Items \ {i} : state'[k] = state[k] /\ collector'[k] = collector[k]
    BY <1>3, <2>1 DEF Load!Ended, Load!Live
  <2>3. state' \in [Load!Items -> Load!Live \cup Load!Ended \cup {"absent"}]
    BY <1>3, <2>1 DEF Load!Ended
  <2>4. collector' \in [Load!Items -> {"none", "polling", "over"}] /\ collector'[i] = "over"
    BY <1>3, <2>1
  <2>5. state'[i] # "absent"
    BY <2>2 DEF Load!Ended
  <2>. QED BY <1>1, <1>2, <1>3, <2>1, <2>2, <2>3, <2>4, <2>5
<1>7. ASSUME NEW i \in Load!Items, Load!Dispatch(i) PROVE LoadInv'
  <2>1. /\ UNCHANGED <<plan, now, base, driver, next, collector, loop, since, summary, failure>> /\ state[i] = "queued"
        /\ \E st \in {"running", "succeeded"} : state' = [state EXCEPT ![i] = st]
        /\ attempt' = attempt \/ attempt' = [attempt EXCEPT ![i] = now]
    BY <1>7 DEF Load!Dispatch
  <2>2. driver \notin {"pending", "report"} /\ collector[i] # "over"
    BY <1>0, <1>3, <2>1 DEF CollectInv, Load!Ended
  <2>3. state' \in [Load!Items -> Load!Live \cup Load!Ended \cup {"absent"}] /\ state'[i] # "absent"
        /\ \A k \in Load!Items \ {i} : state'[k] = state[k]
    BY <1>3, <2>1 DEF Load!Ended, Load!Live
  <2>4. attempt' \in [Load!Items -> Nat \cup {-1}]
        /\ \A k \in Load!Items : attempt'[k] # -1 => attempt'[k] <= now /\ now <= attempt'[k] + Timeout
    BY <1>1, <1>3, <2>1
  <2>. QED BY <1>1, <1>2, <1>3, <2>1, <2>2, <2>3, <2>4
<1>8. ASSUME NEW i \in Load!Items, Load!Expire(i) PROVE LoadInv'
  <2>1. /\ UNCHANGED <<plan, now, base, driver, next, attempt, collector, loop, since, summary, failure>>
        /\ state' = [state EXCEPT ![i] = "expired"]
    BY <1>8 DEF Load!Expire
  <2>2. state' \in [Load!Items -> Load!Live \cup Load!Ended \cup {"absent"}] /\ state'[i] # "absent"
        /\ state'[i] \in Load!Ended /\ \A k \in Load!Items \ {i} : state'[k] = state[k]
    BY <1>3, <2>1 DEF Load!Ended
  <2>. QED BY <1>1, <1>2, <1>3, <2>1, <2>2
<1>9. ASSUME NEW i \in Load!Items, Load!AttemptEnds(i) PROVE LoadInv'
  <2>1. /\ UNCHANGED <<plan, now, base, driver, next, collector, loop, since, summary, failure>>
        /\ attempt' = [attempt EXCEPT ![i] = -1]
        /\ \E s \in {"succeeded", "failed", "unknown"} :
              state' = [state EXCEPT ![i] = IF state[i] = "running" THEN s ELSE state[i]]
    BY <1>1, <1>9 DEF Load!AttemptEnds
  <2>2. state' \in [Load!Items -> Load!Live \cup Load!Ended \cup {"absent"}]
        /\ \A k \in Load!Items : /\ state[k] # "absent" => state'[k] # "absent"
                                 /\ state[k] \in Load!Ended => state'[k] \in Load!Ended
    BY <1>3, <2>1 DEF Load!Ended, Load!Live
  <2>3. attempt' \in [Load!Items -> Nat \cup {-1}] /\ \A k \in Load!Items : attempt'[k] # -1 => attempt'[k] = attempt[k]
    BY <1>3, <2>1
  <2>. QED BY <1>1, <1>2, <1>3, <2>1, <2>2, <2>3
<1>. QED BY <1>4, <1>5, <1>6, <1>7, <1>8, <1>9

\* Whatever the plan, and also when the serve loop dies: a report counts every item of it once,
\* none of them live, and leaves no attempt unsettled.
THEOREM ReportsComplete == Spec => []ReportComplete
<1> Load!LoadAssumption
  BY ExperimentsAssumption
<1>1. Load!Init => LoadInv
  <2>1. SUFFICES ASSUME Load!Init PROVE LoadInv
    OBVIOUS
  <2>2. Load!TypeOK
    BY <2>1 DEF Load!Init, Load!TypeOK, Load!NotRunning
  <2>3. CollectInv /\ AttemptInv
    BY <2>1, <2>2, LoadBasics DEF Load!Init, CollectInv, AttemptInv, Load!Running
  <2>. QED BY <2>1, <2>2, <2>3 DEF Load!Init, LoadInv, Load!ReportComplete
<1>2. LoadInv /\ [Load!Next]_Load!vars => LoadInv'
  BY LoadDrives, LoadFinishes, LoadRuns DEF Load!Next, Load!DriverStep
<1>3. LoadInv => Load!ReportComplete
  BY DEF LoadInv
<1>. QED BY <1>1, <1>2, <1>3, PartsRun, PTL DEF ReportComplete

-----------------------------------------------------------------------------
(* Replay: virtual time, slots and the accounts.                           *)

\* What a row says of its request at each stage; until the loop is over, time has not passed a
\* release, what runs is not past its end, and every start lies in the past.
RowInv ==
    \A i \in Simulator!Ids :
        /\ row[i].state \in {"unreleased", "queued", "expired_before_dispatch"} => row[i].started = -1
        /\ row[i].state \in {"running", "completed_in_time", "completed_late"} => row[i].started # -1
        /\ row[i].state \in {"completed_in_time", "completed_late"} =>
              row[i].completed = Simulator!Finish(i) /\ Simulator!Finish(i) <= virtual
        /\ row[i].state \notin {"completed_in_time", "completed_late"} => row[i].completed = -1
        /\ row[i].started # -1 =>
              /\ row[i].started >= trace[i].release /\ row[i].started + trace[i].profile < Simulator!LatestNs(i)
              /\ ~over => row[i].started < virtual
        /\ ~over /\ row[i].state = "unreleased" => virtual <= trace[i].release
        /\ row[i].state = "queued" => trace[i].release <= virtual

\* Queue and active set are the rows in these states; the loop ends without any.
SetsInv ==
    /\ queue = {i \in Simulator!Ids : row[i].state = "queued"}
    /\ active = {i \in Simulator!Ids : row[i].state = "running"}
    /\ over => \A i \in Simulator!Ids : row[i].state \notin {"unreleased", "queued", "running"}
    /\ Cardinality(active) <= slots

\* No start found more running than slots; who waited although its estimate fitted found all taken.
BusyInv ==
    /\ \A i \in Simulator!Ids : row[i].started # -1 => Cardinality(Simulator!Busy(row[i].started)) <= slots
    /\ \A i \in Simulator!Ids :
          /\ row[i].state \in {"queued", "expired_before_dispatch"}
          /\ trace[i].release + trace[i].profile < Simulator!LatestNs(i)
          => /\ ~over => trace[i].release < virtual
             /\ Cardinality(Simulator!Busy(trace[i].release)) = slots

ReplayInv ==
    /\ Simulator!TypeOK /\ (\A i \in Simulator!Ids : Simulator!Ordered(trace[i]))
    /\ RowInv /\ SetsInv /\ BusyInv

Row == [state : {"unreleased", "queued", "running", "completed_in_time", "completed_late", "expired_before_dispatch"},
        started : Nat \cup {-1}, completed : Nat \cup {-1}]

\* The instance counts as this module does.
LEMMA ReplayCardinality == \A S : Simulator!Cardinality(S) = Cardinality(S)
BY DEF Simulator!Cardinality, Cardinality

\* What an update of a row's fields gives.
LEMMA RowUpdates ==
    ASSUME NEW r \in Row, NEW x, NEW y
    PROVE  /\ [r EXCEPT !.completed = x, !.state = y] = [state |-> y, started |-> r.started, completed |-> x]
           /\ [r EXCEPT !.state = y] = [state |-> y, started |-> r.started, completed |-> r.completed]
<1>1. r = [state |-> r.state, started |-> r.started, completed |-> r.completed]
  BY DEF Row
<1>2. [r EXCEPT !.state = y] = [state |-> y, started |-> r.started, completed |-> r.completed]
  BY <1>1
<1> DEFINE a == [r EXCEPT !.completed = x]
<1>3. a = [state |-> r.state, started |-> r.started, completed |-> x]
  BY <1>1
<1> HIDE DEF a
<1>4. [a EXCEPT !.state = y] = [state |-> y, started |-> r.started, completed |-> x]
  BY <1>3
<1>. QED BY <1>2, <1>4 DEF a

\* A row that starts.
LEMMA RowStarts ==
    ASSUME NEW r \in Row, NEW x
    PROVE  [r EXCEPT !.state = "running", !.started = x] = [state |-> "running", started |-> x, completed |-> r.completed]
<1> DEFINE b == [r EXCEPT !.state = "running"]
<1>1. b = [state |-> "running", started |-> r.started, completed |-> r.completed]
  BY RowUpdates, Zenon
<1> HIDE DEF b
<1>2. [b EXCEPT !.started = x] = [state |-> "running", started |-> x, completed |-> r.completed]
  BY <1>1
<1>. QED BY <1>2 DEF b

\* The smallest of a set of instants.
LEMMA SmallestInstant ==
    ASSUME NEW T \in SUBSET Nat, T # {}
    PROVE  Simulator!Min(T) \in T /\ \A t \in T : Simulator!Min(T) <= t
BY SmallestNat DEF Simulator!Min

\* Numbers.
LEMMA ReplayBasics ==
    ASSUME Simulator!ReplayAssumption, ReplayInv
    PROVE  /\ Len(trace) \in Nat /\ Simulator!Ids = 1..Len(trace) /\ IsFiniteSet(Simulator!Ids) /\ slots \in Nat
           /\ virtual \in Nat /\ row \in [Simulator!Ids -> Row]
           /\ \A i \in Simulator!Ids :
                 /\ i \in Nat /\ trace[i].release \in Nat /\ trace[i].profile \in Nat /\ trace[i].service \in Nat
                 /\ trace[i].priority \in Nat /\ trace[i].service > 0 /\ Simulator!LatestNs(i) \in Nat
                 /\ row[i] \in Row /\ row[i].started \in Nat \cup {-1} /\ row[i].completed \in Nat \cup {-1}
<1>1. trace \in Seq(Simulator!Request) /\ slots \in Nat /\ virtual \in Nat
  BY DEF Simulator!ReplayAssumption, ReplayInv, Simulator!TypeOK
<1>2. Len(trace) \in Nat /\ Simulator!Ids = 1..Len(trace)
  BY <1>1 DEF Simulator!Ids
<1>3. IsFiniteSet(Simulator!Ids)
  BY <1>2, FS_Interval
<1>4. row \in [Simulator!Ids -> Row]
  BY DEF ReplayInv, Simulator!TypeOK, Row, Simulator!None
<1>5. ASSUME NEW i \in Simulator!Ids
      PROVE  /\ trace[i].release \in Nat /\ trace[i].profile \in Nat /\ trace[i].service \in Nat
             /\ trace[i].priority \in Nat /\ trace[i].service > 0 /\ Simulator!LatestNs(i) \in Nat
  <2>1. trace[i] \in Simulator!Request
    BY <1>1, <1>2
  <2>2. /\ trace[i].deadline \in Nat /\ trace[i].capture \in Nat /\ trace[i].age \in Nat
        /\ trace[i].release \in Nat /\ trace[i].profile \in Nat /\ trace[i].service \in Nat /\ trace[i].priority \in Nat
    BY <2>1 DEF Simulator!Request
  <2> DEFINE T == {trace[i].deadline, trace[i].capture + trace[i].age}
  <2>3. T \in SUBSET Nat /\ T # {}
    BY <2>2
  <2>4. Simulator!LatestNs(i) = Simulator!Min(T)
    BY DEF Simulator!LatestNs
  <2> HIDE DEF T
  <2>5. Simulator!LatestNs(i) \in Nat
    BY <2>3, <2>4, SmallestInstant
  <2>6. trace[i].service > 0
    BY DEF ReplayInv, Simulator!Ordered
  <2>. QED BY <2>2, <2>5, <2>6
<1>6. \A i \in Simulator!Ids : row[i] \in Row /\ row[i].started \in Nat \cup {-1} /\ row[i].completed \in Nat \cup {-1}
  BY <1>4 DEF Row
<1>. QED BY <1>1, <1>2, <1>3, <1>4, <1>5, <1>6

\* The rank is a strict total order: the number of a request is the last tie-break.
LEMMA RankOrders ==
    ASSUME Simulator!ReplayAssumption, ReplayInv, NEW i \in Simulator!Ids, NEW j \in Simulator!Ids, NEW k \in Simulator!Ids
    PROVE  /\ ~Simulator!Before(i, i)
           /\ i # j => Simulator!Before(i, j) \/ Simulator!Before(j, i)
           /\ Simulator!Before(i, j) /\ Simulator!Before(j, k) => Simulator!Before(i, k)
<1> DEFINE L(x) == Simulator!LatestNs(x)
           S(x) == L(x) - virtual - trace[x].profile
           Fifo(x, y) == trace[x].release < trace[y].release \/ (trace[x].release = trace[y].release /\ x < y)
           Edf(x, y) == L(x) < L(y) \/ (L(x) = L(y) /\ Fifo(x, y))
           Slack(x, y) == S(x) < S(y) \/ (S(x) = S(y) /\ ( \/ trace[x].priority < trace[y].priority
                                                           \/ trace[x].priority = trace[y].priority /\ Fifo(x, y)))
<1>0. \A x \in Simulator!Ids : x \in Nat /\ trace[x].release \in Nat /\ trace[x].profile \in Nat /\ trace[x].priority \in Nat
                               /\ L(x) \in Nat /\ S(x) \in Int
  <2>1. \A x \in Simulator!Ids : x \in Nat /\ trace[x].release \in Nat /\ trace[x].profile \in Nat /\ trace[x].priority \in Nat
                               /\ L(x) \in Nat /\ virtual \in Nat
    BY ReplayBasics
  <2> HIDE DEF L
  <2>. QED BY <2>1
<1> HIDE DEF L, S
<1>1. CASE mode = "fifo"
  <2>1. ASSUME NEW x \in Simulator!Ids, NEW y \in Simulator!Ids PROVE Simulator!Before(x, y) <=> Fifo(x, y)
    <3> DEFINE a == <<trace[x].release, x>>
               b == <<trace[y].release, y>>
    <3>1. Simulator!RankKey(x) = a /\ Simulator!RankKey(y) = b
      BY <1>1 DEF Simulator!RankKey
    <3>2. DOMAIN a = {1, 2} /\ 1..(1-1) = {} /\ 1..(2-1) = {1}
      OBVIOUS
    <3>3. Simulator!Before(x, y) <=> \E n \in DOMAIN a : a[n] < b[n] /\ \A m \in 1..(n - 1) : a[m] = b[m]
      BY <3>1 DEF Simulator!Before
    <3>4. Simulator!Before(x, y) <=> a[1] < b[1] \/ (a[2] < b[2] /\ a[1] = b[1])
      <4> HIDE DEF a, b
      <4>. QED BY <3>2, <3>3
    <3>. QED BY <3>4
  <2>. QED BY <1>0, <2>1
<1>2. CASE mode = "edf"
  <2>1. ASSUME NEW x \in Simulator!Ids, NEW y \in Simulator!Ids PROVE Simulator!Before(x, y) <=> Edf(x, y)
    <3> DEFINE a == <<L(x), trace[x].release, x>>
               b == <<L(y), trace[y].release, y>>
    <3>1. Simulator!RankKey(x) = a /\ Simulator!RankKey(y) = b
      BY <1>2 DEF Simulator!RankKey, L
    <3>2. DOMAIN a = {1, 2, 3} /\ 1..(1-1) = {} /\ 1..(2-1) = {1} /\ 1..(3-1) = {1, 2}
      OBVIOUS
    <3>3. Simulator!Before(x, y) <=> \E n \in DOMAIN a : a[n] < b[n] /\ \A m \in 1..(n - 1) : a[m] = b[m]
      BY <3>1 DEF Simulator!Before
    <3>4. Simulator!Before(x, y) <=> a[1] < b[1] \/ (a[2] < b[2] /\ a[1] = b[1]) \/ (a[3] < b[3] /\ a[1] = b[1] /\ a[2] = b[2])
      <4> HIDE DEF a, b
      <4>. QED BY <3>2, <3>3
    <3>. QED BY <3>4
  <2>. QED BY <1>0, <2>1
<1>3. CASE mode = "slack"
  <2>1. ASSUME NEW x \in Simulator!Ids, NEW y \in Simulator!Ids PROVE Simulator!Before(x, y) <=> Slack(x, y)
    <3> DEFINE a == <<S(x), trace[x].priority, trace[x].release, x>>
               b == <<S(y), trace[y].priority, trace[y].release, y>>
    <3>1. Simulator!RankKey(x) = a /\ Simulator!RankKey(y) = b
      BY <1>3 DEF Simulator!RankKey, L, S
    <3>2. DOMAIN a = {1, 2, 3, 4} /\ 1..(1-1) = {} /\ 1..(2-1) = {1} /\ 1..(3-1) = {1, 2} /\ 1..(4-1) = {1, 2, 3}
      OBVIOUS
    <3>3. Simulator!Before(x, y) <=> \E n \in DOMAIN a : a[n] < b[n] /\ \A m \in 1..(n - 1) : a[m] = b[m]
      BY <3>1 DEF Simulator!Before
    <3>4. Simulator!Before(x, y) <=> \/ a[1] < b[1] \/ (a[2] < b[2] /\ a[1] = b[1])
                                     \/ a[3] < b[3] /\ a[1] = b[1] /\ a[2] = b[2]
                                     \/ a[4] < b[4] /\ a[1] = b[1] /\ a[2] = b[2] /\ a[3] = b[3]
      <4> HIDE DEF a, b
      <4>. QED BY <3>2, <3>3
    <3>. QED BY <3>4
  <2>. QED BY <1>0, <2>1
<1>. QED BY <1>1, <1>2, <1>3 DEF ReplayInv, Simulator!TypeOK, Simulator!Modes

-----------------------------------------------------------------------------
\* One turn of the loop, named: what ends, waits, expires, starts, runs on and stays.
Ending == {i \in active : Simulator!Ended(i)}
Waiting == queue \cup Simulator!Released
Expiring == {i \in Waiting : virtual >= Simulator!LatestNs(i)}
Fitting == Simulator!Eligible(Waiting \ Expiring)
Free == slots - Simulator!Cardinality(active \ Ending)
Starting == Simulator!Started(Fitting, Free)
Rows == [i \in Simulator!Ids |->
            CASE i \in Ending -> [row[i] EXCEPT !.completed = Simulator!Finish(i),
                                    !.state = IF Simulator!Finish(i) < Simulator!LatestNs(i)
                                              THEN "completed_in_time" ELSE "completed_late"]
              [] i \in Expiring -> [row[i] EXCEPT !.state = "expired_before_dispatch"]
              [] i \in Starting -> [row[i] EXCEPT !.state = "running", !.started = virtual]
              [] i \in Simulator!Released \ (Expiring \cup Starting) -> [row[i] EXCEPT !.state = "queued"]
              [] OTHER -> row[i]]
Times == Simulator!EventTimes((active \ Ending) \cup Starting, Waiting \ (Expiring \cup Starting), Rows)

\* What a turn does to the variables.
LEMMA RoundSteps ==
    ASSUME Simulator!Round
    PROVE  /\ ~over /\ UNCHANGED <<trace, slots, mode>> /\ row' = Rows
           /\ active' = (active \ Ending) \cup Starting /\ queue' = Waiting \ (Expiring \cup Starting)
           /\ virtual' = IF Times = {} THEN virtual ELSE Simulator!Min(Times)
           /\ over' = (Times = {})
<1>1. row' = Rows /\ active' = (active \ Ending) \cup Starting /\ queue' = Waiting \ (Expiring \cup Starting)
  BY Zenon DEF Simulator!Round, Ending, Waiting, Expiring, Fitting, Free, Starting, Rows
<1>2. /\ virtual' = IF Times = {} THEN virtual ELSE Simulator!Min(Times)
      /\ over' = (Times = {})
  BY Zenon DEF Simulator!Round, Ending, Waiting, Expiring, Fitting, Free, Starting, Rows, Times
<1>3. ~over /\ UNCHANGED <<trace, slots, mode>>
  BY Zenon DEF Simulator!Round
<1>. QED BY <1>1, <1>2, <1>3

\* As many start as there are free slots, or all that fit.
LEMMA StartsFillSlots ==
    ASSUME Simulator!ReplayAssumption, ReplayInv
    PROVE  /\ Ending \subseteq active /\ Expiring \subseteq Waiting /\ Fitting \subseteq Waiting \ Expiring /\ Starting \subseteq Fitting
           /\ Waiting \cap active = {} /\ Waiting \subseteq Simulator!Ids /\ active \subseteq Simulator!Ids
           /\ \A i \in Fitting : virtual + trace[i].profile < Simulator!LatestNs(i)
           /\ \A i \in Waiting \ Fitting : ~(virtual + trace[i].profile < Simulator!LatestNs(i)) \/ i \in Expiring
           /\ IsFiniteSet((active \ Ending) \cup Starting)
           /\ Cardinality((active \ Ending) \cup Starting) <= slots
           /\ Starting # Fitting => Cardinality((active \ Ending) \cup Starting) = slots
<1> DEFINE kept == active \ Ending
<1>1. /\ Ending \subseteq active /\ Expiring \subseteq Waiting /\ Fitting \subseteq Waiting \ Expiring /\ Starting \subseteq Fitting
      /\ \A i \in Fitting : virtual + trace[i].profile < Simulator!LatestNs(i)
      /\ \A i \in Waiting \ Fitting : ~(virtual + trace[i].profile < Simulator!LatestNs(i)) \/ i \in Expiring
  BY DEF Ending, Expiring, Fitting, Starting, Simulator!Eligible, Simulator!Started
<1>2. Waiting \cap active = {} /\ Waiting \subseteq Simulator!Ids /\ active \subseteq Simulator!Ids
  BY DEF Waiting, Simulator!Released, ReplayInv, SetsInv
<1>3. /\ IsFiniteSet(kept) /\ Cardinality(kept) \in Nat /\ Cardinality(kept) <= slots /\ slots \in Nat
      /\ IsFiniteSet(Fitting)
  <2>1. IsFiniteSet(active) /\ IsFiniteSet(Fitting)
    BY <1>1, <1>2, ReplayBasics, FS_Subset
  <2>2. kept \in SUBSET active
    OBVIOUS
  <2>3. /\ IsFiniteSet(kept) /\ Cardinality(kept) <= Cardinality(active)
    BY <2>1, <2>2, FS_Subset
  <2>4. Cardinality(active) <= slots /\ slots \in Nat
    BY ReplayBasics DEF ReplayInv, SetsInv
  <2>5. Cardinality(kept) \in Nat /\ Cardinality(active) \in Nat
    BY <2>1, <2>3, FS_CardinalityType
  <2> HIDE DEF kept
  <2>. QED BY <2>1, <2>3, <2>4, <2>5
<1>4. Free \in Nat /\ Free = slots - Cardinality(kept)
  <2>1. Free = slots - Cardinality(kept)
    BY ReplayCardinality DEF Free
  <2> HIDE DEF kept
  <2>. QED BY <1>3, <2>1
<1>5. /\ IsFiniteSet(Starting) /\ Cardinality(Starting) \in Nat /\ Cardinality(Starting) <= Free
      /\ Starting # Fitting => Cardinality(Starting) = Free
  <2> DEFINE P == [i \in Fitting |-> {j \in Fitting : Simulator!Before(j, i)}]
             E == Fitting
             n == Free
             C == Starting
  <2>1. P \in [E -> SUBSET E] /\ IsFiniteSet(E) /\ n \in Nat
    BY <1>3, <1>4
  <2>2. \A i \in E : \A j \in E : i \in Simulator!Ids /\ (j \in P[i] <=> Simulator!Before(j, i))
    BY <1>1, <1>2
  <2>3. C = {i \in E : Cardinality(P[i]) < n}
    <3>1. \A i \in Fitting : P[i] = {j \in Fitting : Simulator!Before(j, i)}
      OBVIOUS
    <3>2. Starting = {i \in Fitting : Cardinality({j \in Fitting : Simulator!Before(j, i)}) < Free}
      BY ReplayCardinality DEF Starting, Simulator!Started
    <3> HIDE DEF P
    <3>. QED BY <3>1, <3>2
  <2> HIDE DEF P, E, n, C
  <2>4. \A i \in E : i \notin P[i]
    BY <2>2, RankOrders
  <2>5. \A i \in E : \A j \in E : i # j => i \in P[j] \/ j \in P[i]
    BY <2>2, RankOrders
  <2>6. \A i \in E : \A j \in E : i \in P[j] => P[i] \subseteq P[j]
    <3>1. SUFFICES ASSUME NEW i \in E, NEW j \in E, i \in P[j], NEW k \in P[i] PROVE k \in P[j]
      OBVIOUS
    <3>2. k \in E
      BY <2>1
    <3>. QED BY <2>2, <3>1, <3>2, RankOrders
  <2>7. IsFiniteSet(C) /\ Cardinality(C) \in Nat /\ Cardinality(C) <= n /\ (C # E => Cardinality(C) = n)
    BY <2>1, <2>3, <2>4, <2>5, <2>6, FirstOfOrder
  <2>. QED BY <2>7 DEF E, n, C
<1>6. kept \cap Starting = {}
  BY <1>1, <1>2
<1>7. IsFiniteSet(kept \cup Starting) /\ Cardinality(kept \cup Starting) = Cardinality(kept) + Cardinality(Starting)
  <2> HIDE DEF kept
  <2>1. /\ IsFiniteSet(kept \cup Starting)
        /\ Cardinality(kept \cup Starting) = Cardinality(kept) + Cardinality(Starting) - Cardinality(kept \cap Starting)
    BY <1>3, <1>5, FS_Union
  <2>2. Cardinality(kept \cap Starting) = 0
    BY <1>6, FS_EmptySet
  <2>. QED BY <1>3, <1>5, <2>1, <2>2
<1> HIDE DEF kept
<1>8. /\ Cardinality(kept \cup Starting) <= slots
      /\ Starting # Fitting => Cardinality(kept \cup Starting) = slots
  BY <1>3, <1>4, <1>5, <1>7
<1>. QED BY <1>1, <1>2, <1>7, <1>8 DEF kept

\* The row of each request after a turn.
LEMMA RowsAfter ==
    ASSUME Simulator!ReplayAssumption, ReplayInv
    PROVE  /\ Rows \in [Simulator!Ids -> Row]
           /\ \A i \in Ending : /\ Rows[i].state \in {"completed_in_time", "completed_late"}
                                /\ Rows[i].started = row[i].started /\ Rows[i].completed = Simulator!Finish(i)
           /\ \A i \in Expiring : Rows[i].state = "expired_before_dispatch" /\ Rows[i].started = -1 /\ Rows[i].completed = -1
           /\ \A i \in Starting : Rows[i].state = "running" /\ Rows[i].started = virtual /\ Rows[i].completed = -1
           /\ \A i \in Waiting \ (Expiring \cup Starting) :
                 Rows[i].state = "queued" /\ Rows[i].started = -1 /\ Rows[i].completed = -1
           /\ \A i \in Simulator!Ids \ (Ending \cup Waiting) : Rows[i] = row[i]
<1>1. /\ Ending \subseteq active /\ Expiring \subseteq Waiting /\ Starting \subseteq Waiting \ Expiring
      /\ Waiting \cap active = {} /\ Waiting \subseteq Simulator!Ids /\ active \subseteq Simulator!Ids
  BY StartsFillSlots
<1>2. /\ virtual \in Nat
      /\ \A i \in Simulator!Ids : row[i] \in Row /\ row[i].started \in Nat \cup {-1} /\ trace[i].service \in Nat
  BY ReplayBasics
<1>3. \A i \in Waiting : row[i].started = -1 /\ row[i].completed = -1
  BY <1>1 DEF Waiting, Simulator!Released, ReplayInv, SetsInv, RowInv
<1> DEFINE Done(i) == [row[i] EXCEPT !.completed = Simulator!Finish(i),
                            !.state = IF Simulator!Finish(i) < Simulator!LatestNs(i)
                                      THEN "completed_in_time" ELSE "completed_late"]
           Gone(i) == [row[i] EXCEPT !.state = "expired_before_dispatch"]
           Begun(i) == [row[i] EXCEPT !.state = "running", !.started = virtual]
           Put(i) == [row[i] EXCEPT !.state = "queued"]
           New(i) == CASE i \in Ending -> Done(i)
                       [] i \in Expiring -> Gone(i)
                       [] i \in Starting -> Begun(i)
                       [] i \in Simulator!Released \ (Expiring \cup Starting) -> Put(i)
                       [] OTHER -> row[i]
<1>0. Rows = [i \in Simulator!Ids |-> New(i)]
  BY Zenon DEF Rows
<1> HIDE DEF Done, Gone, Begun, Put
<1>4. ASSUME NEW i \in Ending
      PROVE  /\ Rows[i] \in Row /\ Rows[i].state \in {"completed_in_time", "completed_late"}
             /\ Rows[i].started = row[i].started /\ Rows[i].completed = Simulator!Finish(i)
  <2>1. i \in Simulator!Ids /\ row[i].started \in Nat /\ Simulator!Finish(i) \in Nat /\ row[i] \in Row
    <3>1. i \in Simulator!Ids /\ row[i].started # -1
      BY <1>1 DEF ReplayInv, SetsInv, RowInv
    <3>2. row[i].started \in Nat /\ trace[i].service \in Nat /\ row[i] \in Row
      BY <1>2, <3>1
    <3>. QED BY <3>1, <3>2 DEF Simulator!Finish
  <2> DEFINE s == IF Simulator!Finish(i) < Simulator!LatestNs(i) THEN "completed_in_time" ELSE "completed_late"
  <2>2. Rows[i] = Done(i) /\ Done(i) = [row[i] EXCEPT !.completed = Simulator!Finish(i), !.state = s]
    <3>1. Rows[i] = Done(i)
      <4>1. i \notin Waiting /\ i \notin Expiring /\ i \notin Starting /\ i \notin Simulator!Released
        BY <1>1 DEF Waiting
      <4>. QED BY <1>0, <2>1, <4>1
    <3>. QED BY <3>1, Zenon DEF Done
  <2>3. s \in {"completed_in_time", "completed_late"}
    OBVIOUS
  <2> HIDE DEF s
  <2>4. Rows[i] = [state |-> s, started |-> row[i].started, completed |-> Simulator!Finish(i)]
    BY <2>1, <2>2, RowUpdates, Zenon
  <2>. QED BY <2>1, <2>3, <2>4 DEF Row
<1>5. ASSUME NEW i \in Expiring
      PROVE  Rows[i] \in Row /\ Rows[i].state = "expired_before_dispatch" /\ Rows[i].started = -1 /\ Rows[i].completed = -1
  <2>1. i \in Simulator!Ids /\ i \notin Ending /\ row[i] \in Row /\ row[i].started = -1 /\ row[i].completed = -1
    BY <1>1, <1>2, <1>3
  <2>2. Rows[i] = [row[i] EXCEPT !.state = "expired_before_dispatch"]
    <3>1. Rows[i] = Gone(i)
      BY <1>0, <1>1, <2>1
    <3>. QED BY <3>1 DEF Gone
  <2>3. Rows[i] = [state |-> "expired_before_dispatch", started |-> row[i].started, completed |-> row[i].completed]
    BY <2>1, <2>2, RowUpdates, Zenon
  <2>. QED BY <2>1, <2>3 DEF Row
<1>6. ASSUME NEW i \in Starting
      PROVE  Rows[i] \in Row /\ Rows[i].state = "running" /\ Rows[i].started = virtual /\ Rows[i].completed = -1
  <2>1. i \in Simulator!Ids /\ i \notin Ending /\ i \notin Expiring /\ row[i] \in Row /\ row[i].completed = -1
    BY <1>1, <1>2, <1>3
  <2>2. Rows[i] = [row[i] EXCEPT !.state = "running", !.started = virtual]
    <3>1. Rows[i] = Begun(i)
      BY <1>0, <1>1, <2>1
    <3>. QED BY <3>1, Zenon DEF Begun
  <2>3. Rows[i] = [state |-> "running", started |-> virtual, completed |-> row[i].completed]
    <3> DEFINE r == row[i]
    <3>1. r \in Row /\ Rows[i] = [r EXCEPT !.state = "running", !.started = virtual]
      BY <2>1, <2>2, Zenon
    <3> HIDE DEF r
    <3>2. [r EXCEPT !.state = "running", !.started = virtual] = [state |-> "running", started |-> virtual, completed |-> r.completed]
      BY <3>1, RowStarts, Zenon
    <3>3. Rows[i] = [state |-> "running", started |-> virtual, completed |-> r.completed]
      BY <3>1, <3>2, Zenon
    <3>. QED BY <3>3 DEF r
  <2>. QED BY <1>2, <2>1, <2>3 DEF Row
<1>7. ASSUME NEW i \in Waiting \ (Expiring \cup Starting)
      PROVE  Rows[i] \in Row /\ Rows[i].state = "queued" /\ Rows[i].started = -1 /\ Rows[i].completed = -1
  <2>1. i \in Simulator!Ids /\ i \notin Ending /\ row[i] \in Row /\ row[i].started = -1 /\ row[i].completed = -1
    BY <1>1, <1>2, <1>3
  <2>2. CASE i \in Simulator!Released
    <3>1. Rows[i] = [row[i] EXCEPT !.state = "queued"]
      <4>1. Rows[i] = Put(i)
        BY <1>0, <1>1, <2>1, <2>2
      <4>. QED BY <4>1 DEF Put
    <3>2. Rows[i] = [state |-> "queued", started |-> row[i].started, completed |-> row[i].completed]
      BY <2>1, <3>1, RowUpdates, Zenon
    <3>. QED BY <2>1, <3>2 DEF Row
  <2>3. CASE i \notin Simulator!Released
    <3>1. Rows[i] = row[i]
      BY <1>0, <1>1, <2>1, <2>3
    <3>2. row[i].state = "queued"
      BY <2>3 DEF Waiting, ReplayInv, SetsInv
    <3>. QED BY <2>1, <3>1, <3>2
  <2>. QED BY <2>2, <2>3
<1>8. ASSUME NEW i \in Simulator!Ids \ (Ending \cup Waiting) PROVE Rows[i] = row[i] /\ Rows[i] \in Row
  <2>1. i \notin Ending /\ i \notin Expiring /\ i \notin Starting /\ i \notin Simulator!Released
    BY <1>1 DEF Waiting
  <2>2. Rows[i] = row[i]
    BY <1>0, <2>1
  <2>. QED BY <1>2, <2>2
<1>9. Rows \in [Simulator!Ids -> Row]
  <2> HIDE DEF New
  <2>1. Rows = [i \in Simulator!Ids |-> Rows[i]]
    BY <1>0
  <2>2. \A i \in Simulator!Ids : Rows[i] \in Row
    BY <1>4, <1>5, <1>6, <1>7, <1>8
  <2>. QED BY <2>1, <2>2
<1>. QED BY <1>4, <1>5, <1>6, <1>7, <1>8, <1>9

\* Time moves on to the next event, and the loop ends only when there is none: whatever waits
\* for its release, its completion or its expiry has one.
LEMMA TimeAfter ==
    ASSUME Simulator!ReplayAssumption, ReplayInv, Simulator!Round
    PROVE  /\ virtual' \in Nat /\ virtual <= virtual' /\ (~over' => virtual < virtual')
           /\ \A i \in Simulator!Ids : row'[i].state = "unreleased" => ~over' /\ virtual' <= trace[i].release
           /\ over' => active' = {} /\ queue' = {}
<1> DEFINE running == (active \ Ending) \cup Starting
           rest == Waiting \ (Expiring \cup Starting)
<1>1. /\ Ending \subseteq active /\ Expiring \subseteq Waiting /\ Starting \subseteq Waiting \ Expiring
      /\ Waiting \cap active = {} /\ Waiting \subseteq Simulator!Ids /\ active \subseteq Simulator!Ids
  BY StartsFillSlots
<1>2. /\ virtual \in Nat
      /\ \A i \in Simulator!Ids : /\ trace[i].service \in Nat /\ trace[i].service > 0 /\ trace[i].release \in Nat
                                  /\ Simulator!LatestNs(i) \in Nat /\ row[i].started \in Nat \cup {-1}
  BY ReplayBasics
<1>3. ~over /\ row' = Rows /\ active' = running /\ queue' = rest /\ over' = (Times = {})
      /\ virtual' = IF Times = {} THEN virtual ELSE Simulator!Min(Times)
  BY RoundSteps
<1>4. ASSUME NEW i \in running
      PROVE  Rows[i].started + trace[i].service \in Nat /\ Rows[i].started + trace[i].service > virtual
  <2>1. CASE i \in Starting
    BY <1>1, <1>2, <2>1, RowsAfter
  <2>2. CASE i \in active \ Ending
    <3>1. i \in Simulator!Ids /\ i \notin Ending \cup Waiting
      BY <1>1, <2>2
    <3>2. Rows[i] = row[i] /\ row[i].started # -1 /\ ~(Simulator!Finish(i) <= virtual)
      BY <2>2, <3>1, RowsAfter DEF Ending, Simulator!Ended, ReplayInv, RowInv, SetsInv
    <3>3. row[i].started \in Nat /\ trace[i].service \in Nat /\ ~(row[i].started + trace[i].service <= virtual)
      BY <1>2, <3>1, <3>2 DEF Simulator!Finish
    <3>. QED BY <1>2, <3>2, <3>3
  <2>. QED BY <2>1, <2>2
<1>5. \A i \in rest : Simulator!LatestNs(i) \in Nat /\ Simulator!LatestNs(i) > virtual
  BY <1>1, <1>2 DEF Expiring
<1>6. \A i \in Simulator!Unreleased : trace[i].release \in Nat /\ trace[i].release > virtual
  BY <1>2 DEF Simulator!Unreleased
<1>7. Times = {t \in {trace[i].release : i \in Simulator!Unreleased}
                       \cup {Rows[i].started + trace[i].service : i \in running}
                       \cup {Simulator!LatestNs(i) : i \in rest} : t > virtual}
  BY DEF Times, Simulator!EventTimes
<1> HIDE DEF running, rest
<1>8. /\ \A i \in Simulator!Unreleased : trace[i].release \in Times
      /\ \A i \in running : Rows[i].started + trace[i].service \in Times
      /\ \A i \in rest : Simulator!LatestNs(i) \in Times
  BY <1>4, <1>5, <1>6, <1>7
<1>9. Times \in SUBSET Nat /\ \A t \in Times : t > virtual
  <2>1. SUFFICES ASSUME NEW t \in Times PROVE t \in Nat /\ t > virtual
    OBVIOUS
  <2>2. \/ \E i \in Simulator!Unreleased : t = trace[i].release
        \/ \E i \in running : t = Rows[i].started + trace[i].service
        \/ \E i \in rest : t = Simulator!LatestNs(i)
    BY <1>7
  <2>. QED BY <1>4, <1>5, <1>6, <2>2
<1>10. ASSUME Times # {} PROVE virtual' \in Nat /\ virtual < virtual' /\ \A t \in Times : virtual' <= t
  <2>1. virtual' = Simulator!Min(Times)
    BY <1>3, <1>10
  <2>. QED BY <1>2, <1>9, <1>10, <2>1, SmallestInstant
<1>11. ASSUME NEW i \in Simulator!Ids, row'[i].state = "unreleased" PROVE i \in Simulator!Unreleased
  <2>1. i \notin Ending /\ i \notin Waiting
    BY <1>1, <1>3, <1>11, RowsAfter
  <2>2. row[i].state = "unreleased"
    BY <1>3, <1>11, <2>1, RowsAfter
  <2>. QED BY <1>2, <2>1, <2>2 DEF Waiting, Simulator!Released, Simulator!Unreleased
<1>12. ASSUME NEW i \in Simulator!Ids, row'[i].state = "unreleased" PROVE ~over' /\ virtual' <= trace[i].release
  BY <1>3, <1>8, <1>10, <1>11, <1>12
<1>13. over' => active' = {} /\ queue' = {}
  BY <1>3, <1>8
<1>14. virtual' \in Nat /\ virtual <= virtual' /\ (~over' => virtual < virtual')
  <2>1. CASE Times = {}
    <3>1. virtual' = virtual /\ over'
      BY <1>3, <2>1
    <3>. QED BY <1>2, <3>1
  <2>2. CASE Times # {}
    BY <1>2, <1>3, <1>10, <2>2
  <2>. QED BY <2>1, <2>2
<1>. QED BY <1>12, <1>13, <1>14

\* Who runs at instant t, as a table of rows tells.
BusyIn(table, t) ==
    {i \in Simulator!Ids : table[i].started # -1 /\ table[i].started <= t /\ t < table[i].started + trace[i].service}

\* A turn changes nothing about who was busy before it, and leaves busy now exactly what runs.
LEMMA BusyAfter ==
    ASSUME Simulator!ReplayAssumption, ReplayInv, ~over
    PROVE  /\ \A t \in Nat : t < virtual => BusyIn(Rows, t) = BusyIn(row, t)
           /\ BusyIn(Rows, virtual) = (active \ Ending) \cup Starting
<1>1. /\ Ending \subseteq active /\ Expiring \subseteq Waiting /\ Starting \subseteq Waiting \ Expiring
      /\ Waiting \cap active = {} /\ Waiting \subseteq Simulator!Ids /\ active \subseteq Simulator!Ids
  BY StartsFillSlots
<1>2. /\ virtual \in Nat
      /\ \A i \in Simulator!Ids : /\ trace[i].service \in Nat /\ trace[i].service > 0
                                  /\ row[i].started \in Nat \cup {-1}
  BY ReplayBasics
<1>3. \A i \in Waiting : row[i].started = -1
  BY <1>1 DEF Waiting, Simulator!Released, ReplayInv, SetsInv, RowInv
<1>4. \A i \in Simulator!Ids \ Starting : Rows[i].started = row[i].started
  <2>1. SUFFICES ASSUME NEW i \in Simulator!Ids \ Starting PROVE Rows[i].started = row[i].started
    OBVIOUS
  <2>2. CASE i \in Ending
    BY <2>2, RowsAfter
  <2>3. CASE i \in Waiting
    BY <1>3, <2>3, RowsAfter
  <2>4. CASE i \notin Ending \cup Waiting
    BY <2>4, RowsAfter
  <2>. QED BY <2>2, <2>3, <2>4
<1>5. \A i \in Starting : Rows[i].started = virtual /\ row[i].started = -1 /\ i \in Simulator!Ids
  BY <1>1, <1>3, RowsAfter
<1>6. ASSUME NEW t \in Nat, t < virtual PROVE BusyIn(Rows, t) = BusyIn(row, t)
  <2>1. ASSUME NEW i \in Simulator!Ids PROVE i \in BusyIn(Rows, t) <=> i \in BusyIn(row, t)
    <3>1. CASE i \in Starting
      BY <1>2, <1>5, <1>6, <3>1 DEF BusyIn
    <3>2. CASE i \notin Starting
      BY <1>4, <3>2 DEF BusyIn
    <3>. QED BY <3>1, <3>2
  <2>. QED BY <2>1 DEF BusyIn
<1>7. ASSUME NEW i \in Simulator!Ids PROVE i \in BusyIn(Rows, virtual) <=> i \in (active \ Ending) \cup Starting
  <2>1. CASE i \in Starting
    BY <1>2, <1>5, <2>1 DEF BusyIn
  <2>2. CASE i \notin Starting
    <3>1. Rows[i].started = row[i].started
      BY <1>4, <2>2
    <3>2. CASE i \in active
      <4>1. row[i].started # -1 /\ row[i].started < virtual
        BY <3>2 DEF ReplayInv, SetsInv, RowInv
      <4>2. i \in Ending <=> row[i].started + trace[i].service <= virtual
        BY <3>2 DEF Ending, Simulator!Ended, Simulator!Finish
      <4>3. row[i].started \in Nat /\ trace[i].service \in Nat
        BY <1>2, <4>1
      <4>. QED BY <1>2, <2>2, <3>1, <3>2, <4>1, <4>2, <4>3 DEF BusyIn
    <3>3. CASE i \notin active
      <4>1. row[i].started = -1 \/ row[i].started + trace[i].service <= virtual
        <5>1. row[i] \in Row /\ row[i].state # "running"
          BY <3>3, ReplayBasics DEF ReplayInv, SetsInv
        <5>2. \/ row[i].state \in {"unreleased", "queued", "expired_before_dispatch"}
              \/ row[i].state \in {"completed_in_time", "completed_late"}
          BY <5>1 DEF Row
        <5>. QED BY <5>2 DEF ReplayInv, RowInv, Simulator!Finish
      <4>2. ~(virtual < row[i].started + trace[i].service) \/ row[i].started = -1
        BY <1>2, <4>1
      <4>. QED BY <2>2, <3>1, <3>3, <4>2 DEF BusyIn
    <3>. QED BY <3>2, <3>3
  <2>. QED BY <2>1, <2>2
<1>8. BusyIn(Rows, virtual) \subseteq Simulator!Ids /\ (active \ Ending) \cup Starting \subseteq Simulator!Ids
  BY <1>1 DEF BusyIn
<1>. QED BY <1>6, <1>7, <1>8

\* A turn keeps what the rows say.
LEMMA RowsKept ==
    ASSUME Simulator!ReplayAssumption, ReplayInv, Simulator!Round
    PROVE  RowInv' /\ SetsInv'
<1>0. ~over /\ trace' = trace /\ slots' = slots /\ row' = Rows /\ Simulator!Ids' = Simulator!Ids
      /\ active' = (active \ Ending) \cup Starting /\ queue' = Waiting \ (Expiring \cup Starting)
  BY RoundSteps DEF Simulator!Ids
<1>1. /\ Ending \subseteq active /\ Expiring \subseteq Waiting /\ Starting \subseteq Waiting \ Expiring
      /\ Waiting \cap active = {} /\ Waiting \subseteq Simulator!Ids /\ active \subseteq Simulator!Ids
      /\ \A i \in Starting : virtual + trace[i].profile < Simulator!LatestNs(i)
      /\ Cardinality((active \ Ending) \cup Starting) <= slots
  BY StartsFillSlots
<1>2. /\ virtual \in Nat
      /\ \A i \in Simulator!Ids : /\ trace[i].service \in Nat /\ trace[i].release \in Nat /\ row[i] \in Row
                                  /\ row[i].started \in Nat \cup {-1} /\ Simulator!LatestNs(i)' = Simulator!LatestNs(i)
  BY <1>0, ReplayBasics DEF Simulator!LatestNs
<1>3. /\ virtual' \in Nat /\ virtual <= virtual' /\ (~over' => virtual < virtual')
      /\ \A i \in Simulator!Ids : row'[i].state = "unreleased" => ~over' /\ virtual' <= trace[i].release
      /\ over' => active' = {} /\ queue' = {}
  BY TimeAfter
<1> DEFINE RowOk(i) ==
        /\ row'[i].state \in {"unreleased", "queued", "expired_before_dispatch"} => row'[i].started = -1
        /\ row'[i].state \in {"running", "completed_in_time", "completed_late"} => row'[i].started # -1
        /\ row'[i].state \in {"completed_in_time", "completed_late"} =>
              row'[i].completed = row'[i].started + trace[i].service /\ row'[i].started + trace[i].service <= virtual'
        /\ row'[i].state \notin {"completed_in_time", "completed_late"} => row'[i].completed = -1
        /\ row'[i].started # -1 =>
              /\ row'[i].started >= trace[i].release /\ row'[i].started + trace[i].profile < Simulator!LatestNs(i)
              /\ ~over' => row'[i].started < virtual'
        /\ ~over' /\ row'[i].state = "unreleased" => virtual' <= trace[i].release
        /\ row'[i].state = "queued" => trace[i].release <= virtual'
<1>4. \A i \in Waiting : i \in Simulator!Ids /\ trace[i].release <= virtual
  BY DEF Waiting, Simulator!Released, ReplayInv, SetsInv, RowInv
<1>5. ASSUME NEW i \in Ending PROVE RowOk(i)
  <2>1. /\ row'[i].state \in {"completed_in_time", "completed_late"} /\ row'[i].started = row[i].started
        /\ row'[i].completed = row[i].started + trace[i].service
    BY <1>0, RowsAfter DEF Simulator!Finish
  <2>2. i \in Simulator!Ids /\ row[i].started + trace[i].service <= virtual
    BY <1>1 DEF Ending, Simulator!Ended, Simulator!Finish
  <2>3. /\ row[i].started # -1 /\ row[i].started >= trace[i].release /\ row[i].started < virtual
        /\ row[i].started + trace[i].profile < Simulator!LatestNs(i)
    BY <1>0, <1>1 DEF ReplayInv, RowInv, SetsInv
  <2>4. row[i].started \in Nat /\ trace[i].service \in Nat
    BY <1>2, <2>2, <2>3
  <2>. QED BY <1>2, <1>3, <2>1, <2>2, <2>3, <2>4
<1>6. ASSUME NEW i \in Waiting \ Starting PROVE RowOk(i)
  BY <1>0, <1>1, <1>2, <1>3, <1>6, <1>4, RowsAfter
<1>7. ASSUME NEW i \in Starting PROVE RowOk(i)
  <2>1. row'[i].state = "running" /\ row'[i].started = virtual /\ row'[i].completed = -1 /\ i \in Simulator!Ids
    BY <1>0, <1>1, RowsAfter
  <2>2. trace[i].release <= virtual
    BY <1>1, <1>4
  <2>. QED BY <1>1, <1>2, <1>3, <2>1, <2>2
<1>8. ASSUME NEW i \in Simulator!Ids, i \notin Ending \cup Waiting PROVE RowOk(i)
  <2>1. row'[i] = row[i]
    BY <1>0, <1>8, RowsAfter
  <2>2. /\ row[i].state = "queued" => trace[i].release <= virtual
        /\ row[i].state \in {"unreleased", "queued", "expired_before_dispatch"} => row[i].started = -1
        /\ row[i].state \in {"running", "completed_in_time", "completed_late"} => row[i].started # -1
        /\ row[i].state \in {"completed_in_time", "completed_late"} =>
              row[i].completed = row[i].started + trace[i].service /\ row[i].started + trace[i].service <= virtual
        /\ row[i].state \notin {"completed_in_time", "completed_late"} => row[i].completed = -1
        /\ row[i].started # -1 =>
              /\ row[i].started >= trace[i].release /\ row[i].started + trace[i].profile < Simulator!LatestNs(i)
              /\ row[i].started < virtual
    BY <1>0 DEF ReplayInv, RowInv, Simulator!Finish
  <2>3. row[i].started # -1 => row[i].started \in Nat
    BY <1>2
  <2>4. trace[i].service \in Nat /\ (row[i].state = "unreleased" => virtual' <= trace[i].release)
    BY <1>2, <1>3, <2>1
  <2>. QED BY <1>2, <1>3, <2>1, <2>2, <2>3, <2>4
<1>9. \A i \in Simulator!Ids : RowOk(i)
  BY <1>5, <1>6, <1>7, <1>8
<1>10. RowInv'
  BY <1>0, <1>2, <1>9 DEF RowInv, Simulator!Finish
<1>11. queue' = {i \in Simulator!Ids : row'[i].state = "queued"} /\ active' = {i \in Simulator!Ids : row'[i].state = "running"}
  <2>1. ASSUME NEW i \in Simulator!Ids
        PROVE  (i \in queue' <=> row'[i].state = "queued") /\ (i \in active' <=> row'[i].state = "running")
    <3>1. CASE i \in Ending
      BY <1>0, <1>1, <3>1, RowsAfter
    <3>2. CASE i \in Expiring
      BY <1>0, <1>1, <3>2, RowsAfter
    <3>3. CASE i \in Starting
      BY <1>0, <1>1, <3>3, RowsAfter
    <3>4. CASE i \in Waiting \ (Expiring \cup Starting)
      BY <1>0, <1>1, <3>4, RowsAfter
    <3>5. CASE i \notin Ending \cup Waiting
      <4>1. row'[i] = row[i]
        BY <1>0, <3>5, RowsAfter
      <4>2. (i \in active <=> row[i].state = "running") /\ (i \in queue <=> row[i].state = "queued")
        BY DEF ReplayInv, SetsInv
      <4>. QED BY <1>0, <1>1, <3>5, <4>1, <4>2 DEF Waiting
    <3>. QED BY <3>1, <3>2, <3>3, <3>4, <3>5
  <2>2. queue' \subseteq Simulator!Ids /\ active' \subseteq Simulator!Ids
    BY <1>0, <1>1
  <2>. QED BY <2>1, <2>2
<1>. QED BY <1>0, <1>1, <1>3, <1>10, <1>11 DEF SetsInv

\* A turn keeps the count of who was busy when something started, or had to wait.
LEMMA BusyKept ==
    ASSUME Simulator!ReplayAssumption, ReplayInv, Simulator!Round
    PROVE  BusyInv'
<1> DEFINE running == (active \ Ending) \cup Starting
<1>0. ~over /\ trace' = trace /\ slots' = slots /\ row' = Rows /\ Simulator!Ids' = Simulator!Ids
  BY RoundSteps DEF Simulator!Ids
<1>1. /\ Ending \subseteq active /\ Expiring \subseteq Waiting /\ Starting \subseteq Waiting \ Expiring
      /\ Waiting \cap active = {} /\ Waiting \subseteq Simulator!Ids /\ active \subseteq Simulator!Ids
      /\ \A i \in Waiting \ Fitting : ~(virtual + trace[i].profile < Simulator!LatestNs(i)) \/ i \in Expiring
      /\ Cardinality(running) <= slots /\ (Starting # Fitting => Cardinality(running) = slots)
  BY StartsFillSlots
<1>2. /\ virtual \in Nat
      /\ \A i \in Simulator!Ids : /\ trace[i].profile \in Nat /\ trace[i].release \in Nat /\ row[i] \in Row
                                  /\ row[i].started \in Nat \cup {-1} /\ Simulator!LatestNs(i) \in Nat
                                  /\ Simulator!LatestNs(i)' = Simulator!LatestNs(i)
  BY <1>0, ReplayBasics DEF Simulator!LatestNs
<1>3. virtual' \in Nat /\ virtual <= virtual' /\ (~over' => virtual < virtual')
  BY TimeAfter
<1>4. /\ \A t \in Nat : t < virtual => BusyIn(Rows, t) = BusyIn(row, t)
      /\ BusyIn(Rows, virtual) = running
  BY <1>0, BusyAfter
<1> HIDE DEF running
<1>5. ASSUME NEW i \in Simulator!Ids, row'[i].started # -1
      PROVE  Cardinality(BusyIn(Rows, row'[i].started)) <= slots
  <2>1. CASE i \in Starting
    <3>1. row'[i].started = virtual
      BY <1>0, <2>1, RowsAfter
    <3>. QED BY <1>1, <1>4, <3>1
  <2>2. CASE i \notin Starting
    <3>1. row'[i].started = row[i].started
      <4>1. CASE i \in Waiting
        BY <1>0, <1>5, <2>2, <4>1, RowsAfter
      <4>2. CASE i \in Ending
        BY <1>0, <4>2, RowsAfter
      <4>3. CASE i \notin Ending \cup Waiting
        BY <1>0, <4>3, RowsAfter
      <4>. QED BY <4>1, <4>2, <4>3
    <3>2. row[i].started \in Nat /\ row[i].started < virtual
      BY <1>0, <1>2, <1>5, <3>1 DEF ReplayInv, RowInv
    <3>3. Cardinality(BusyIn(row, row[i].started)) <= slots
      <4>1. Simulator!Busy(row[i].started) = BusyIn(row, row[i].started)
        BY DEF Simulator!Busy, Simulator!Finish, Simulator!None, BusyIn
      <4>. QED BY <1>5, <3>1, <4>1 DEF ReplayInv, BusyInv
    <3>. QED BY <1>4, <3>1, <3>2, <3>3
  <2>. QED BY <2>1, <2>2
<1>6. ASSUME NEW i \in Simulator!Ids, row'[i].state \in {"queued", "expired_before_dispatch"},
             trace[i].release + trace[i].profile < Simulator!LatestNs(i)
      PROVE  (~over' => trace[i].release < virtual') /\ Cardinality(BusyIn(Rows, trace[i].release)) = slots
  <2>1. CASE row[i].state \in {"queued", "expired_before_dispatch"}
    <3>1. trace[i].release < virtual /\ Cardinality(Simulator!Busy(trace[i].release)) = slots
      BY <1>0, <1>6, <2>1 DEF ReplayInv, BusyInv
    <3>2. Simulator!Busy(trace[i].release) = BusyIn(row, trace[i].release)
      BY DEF Simulator!Busy, Simulator!Finish, Simulator!None, BusyIn
    <3>3. BusyIn(Rows, trace[i].release) = BusyIn(row, trace[i].release)
      BY <1>2, <1>4, <3>1
    <3>4. trace[i].release < virtual'
      BY <1>2, <1>3, <3>1
    <3>. QED BY <3>1, <3>2, <3>3, <3>4
  <2>2. CASE row[i].state \notin {"queued", "expired_before_dispatch"}
    <3>1. i \in Waiting /\ i \notin Starting
      <4>1. i \notin Ending /\ i \notin Starting
        BY <1>0, <1>6, RowsAfter
      <4>2. i \in Waiting
        BY <1>0, <1>6, <2>2, <4>1, RowsAfter
      <4>. QED BY <4>1, <4>2
    <3>2. trace[i].release = virtual
      <4>1. row[i].state = "unreleased" /\ trace[i].release <= virtual
        BY <2>2, <3>1 DEF Waiting, Simulator!Released, ReplayInv, SetsInv
      <4>2. virtual <= trace[i].release
        BY <1>0, <4>1 DEF ReplayInv, RowInv
      <4>. QED BY <1>2, <4>1, <4>2
    <3>3. i \notin Expiring
      BY <1>2, <1>6, <3>2 DEF Expiring
    <3>4. Starting # Fitting
      BY <1>1, <1>6, <3>1, <3>2, <3>3
    <3>. QED BY <1>1, <1>3, <1>4, <3>2, <3>4
  <2>. QED BY <2>1, <2>2
<1>. QED BY <1>0, <1>2, <1>5, <1>6 DEF BusyInv, Simulator!Busy, Simulator!Finish, Simulator!None, BusyIn

\* The first round starts from here.
LEMMA ReplayStarts ==
    ASSUME Simulator!ReplayAssumption, Simulator!Init PROVE ReplayInv
<1>1. Simulator!TypeOK
  BY DEF Simulator!Init, Simulator!TypeOK, Simulator!Unseen, Simulator!None
<1>2. trace \in Seq(Simulator!Request) /\ slots \in Nat
  BY <1>1 DEF Simulator!TypeOK, Simulator!ReplayAssumption
<1>3. \A i \in Simulator!Ids : /\ Simulator!Ordered(trace[i]) /\ trace[i].release \in Nat
                               /\ row[i].state = "unreleased" /\ row[i].started = -1 /\ row[i].completed = -1
  <2>1. \A i \in Simulator!Ids : trace[i] \in Simulator!Request
    BY <1>2 DEF Simulator!Ids
  <2>. QED BY <2>1 DEF Simulator!Init, Simulator!Ids, Simulator!Unseen, Simulator!None, Simulator!Request
<1>4. virtual = 0 /\ queue = {} /\ active = {} /\ over = FALSE
  BY DEF Simulator!Init
<1>5. RowInv
  BY <1>3, <1>4 DEF RowInv
<1>6. SetsInv
  <2>1. Cardinality(active) = 0
    BY <1>4, FS_EmptySet
  <2>2. Cardinality(active) <= slots
    BY <1>2, <2>1
  <2>. QED BY <1>3, <1>4, <2>2 DEF SetsInv
<1>7. BusyInv
  BY <1>3 DEF BusyInv
<1>. QED BY <1>1, <1>3, <1>5, <1>6, <1>7 DEF ReplayInv

\* A turn, the end of the loop and a stutter keep the invariant.
LEMMA ReplayInvariant ==
    ASSUME Simulator!ReplayAssumption, ReplayInv, [Simulator!Next]_Simulator!vars PROVE ReplayInv'
<1>1. CASE Simulator!Round
  <2>1. /\ UNCHANGED <<trace, slots, mode>> /\ row' = Rows /\ over' = (Times = {})
        /\ active' = (active \ Ending) \cup Starting /\ queue' = Waiting \ (Expiring \cup Starting)
    BY <1>1, RoundSteps
  <2>2. virtual' \in Nat /\ Rows \in [Simulator!Ids -> Row] /\ active' \subseteq Simulator!Ids /\ queue' \subseteq Simulator!Ids
    BY <1>1, <2>1, TimeAfter, RowsAfter, StartsFillSlots
  <2>3. over' \in BOOLEAN
    BY <2>1
  <2>4. Simulator!TypeOK'
    BY <2>1, <2>2, <2>3 DEF ReplayInv, Simulator!TypeOK, Simulator!Ids, Row, Simulator!None
  <2>5. (\A i \in Simulator!Ids : Simulator!Ordered(trace[i]))'
    BY <2>1 DEF ReplayInv, Simulator!Ids, Simulator!Ordered
  <2>. QED BY <1>1, <2>4, <2>5, RowsKept, BusyKept DEF ReplayInv
<1>2. CASE Simulator!LoopEnds
  <2>1. /\ UNCHANGED <<trace, slots, mode, virtual, queue, active, row>> /\ over' = TRUE
        /\ Simulator!Unreleased = {} /\ Simulator!Released = {} /\ queue = {} /\ active = {}
    BY <1>2 DEF Simulator!LoopEnds
  <2>2. Simulator!Ids' = Simulator!Ids /\ \A i \in Simulator!Ids : Simulator!LatestNs(i)' = Simulator!LatestNs(i)
                                                              /\ Simulator!Finish(i)' = Simulator!Finish(i)
    BY <2>1 DEF Simulator!Ids, Simulator!LatestNs, Simulator!Finish
  <2>3. \A i \in Simulator!Ids : row[i].state \notin {"unreleased", "queued", "running"}
    <3>1. \A i \in Simulator!Ids : trace[i].release \in Nat /\ virtual \in Nat
      BY ReplayBasics
    <3>. QED BY <2>1, <3>1 DEF ReplayInv, SetsInv, Simulator!Unreleased, Simulator!Released
  <2>4. Simulator!TypeOK' /\ (\A i \in Simulator!Ids : Simulator!Ordered(trace[i]))'
    BY <2>1 DEF ReplayInv, Simulator!TypeOK, Simulator!Ids, Simulator!Ordered
  <2>5. RowInv'
    BY <2>1, <2>2 DEF ReplayInv, RowInv
  <2>6. SetsInv'
    BY <2>1, <2>2, <2>3 DEF ReplayInv, SetsInv
  <2>7. BusyInv'
    BY <2>1, <2>2 DEF ReplayInv, BusyInv, Simulator!Busy, Simulator!Finish, Simulator!LatestNs, Simulator!Ids
  <2>. QED BY <2>4, <2>5, <2>6, <2>7 DEF ReplayInv
<1>3. CASE UNCHANGED Simulator!vars
  BY <1>3 DEF Simulator!vars, ReplayInv, Simulator!TypeOK, RowInv, SetsInv, BusyInv, Simulator!Ids, Simulator!Ordered,
              Simulator!LatestNs, Simulator!Finish, Simulator!Busy
<1>. QED BY <1>1, <1>2, <1>3 DEF Simulator!Next

\* For every trace, number of slots and ranking: nothing starts before its release or when its
\* estimate no longer fits, a completion comes one service time after its start and not before
\* it is due, and no start finds more running than slots.
THEOREM SlotsRespected == Spec => []CausalWithinSlots
<1> Simulator!ReplayAssumption
  BY ExperimentsAssumption
<1>1. Simulator!Init => ReplayInv
  BY ReplayStarts
<1>2. ReplayInv /\ [Simulator!Next]_Simulator!vars => ReplayInv'
  BY ReplayInvariant
<1>3. ReplayInv => Simulator!CausalWithinSlots
  <2>1. SUFFICES ASSUME ReplayInv PROVE Simulator!CausalWithinSlots
    OBVIOUS
  <2>2. ASSUME NEW i \in Simulator!Ids
        PROVE  row[i].completed # -1 => row[i].completed = Simulator!Finish(i) /\ Simulator!Finish(i) <= virtual
    BY <2>1 DEF ReplayInv, RowInv
  <2>. QED BY <2>1, <2>2, ReplayCardinality DEF ReplayInv, RowInv, BusyInv, Simulator!CausalWithinSlots, Simulator!None
<1>. QED BY <1>1, <1>2, <1>3, PartsRun, PTL DEF CausalWithinSlots, Simulator!Spec

\* When the loop ends every request of the trace has a final state, and one that expired
\* although its estimate fitted at its release found every slot taken then.
THEOREM WorkAccounted == Spec => []AllAccounted
<1> Simulator!ReplayAssumption
  BY ExperimentsAssumption
<1>1. Simulator!Init => ReplayInv
  BY ReplayStarts
<1>2. ReplayInv /\ [Simulator!Next]_Simulator!vars => ReplayInv'
  BY ReplayInvariant
<1>3. ReplayInv => Simulator!AllAccounted
  <2>1. SUFFICES ASSUME ReplayInv PROVE Simulator!AllAccounted
    OBVIOUS
  <2>2. over => \A i \in Simulator!Ids : row[i].state \in {"completed_in_time", "completed_late", "expired_before_dispatch"}
    <3>1. \A i \in Simulator!Ids : row[i] \in Row
      BY <2>1, ReplayBasics
    <3>. QED BY <2>1, <3>1 DEF ReplayInv, SetsInv, Row
  <2>. QED BY <2>1, <2>2, ReplayCardinality DEF ReplayInv, BusyInv, Simulator!AllAccounted
<1>. QED BY <1>1, <1>2, <1>3, PartsRun, PTL DEF AllAccounted, Simulator!Spec
=============================================================================
