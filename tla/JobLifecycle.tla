---------------------------- MODULE JobLifecycle ----------------------------
(***************************************************************************)
(* What the coordinator promises about a job, with no clock, session,      *)
(* scheduler, ledger or process in sight.                                  *)
(*   - A job is answered at most once: it is admitted or refused, then it  *)
(*     becomes ready or dies, and a dead job never comes back.             *)
(*   - A job is sent to a backend at most once, ever ("A crash never       *)
(*     causes automatic inference replay", store.py).                      *)
(*   - A result is the outcome of an inference that ran on the same        *)
(*     evidence, and it is claimed by at most one consumer.                *)
(***************************************************************************)
EXTENDS Naturals

CONSTANTS Jobs, Consumers, NoConsumer,
          SameWork        \* pairs of jobs that ask for the same computation

VARIABLES phase, owner, ran

lifecycleVars == <<phase, owner, ran>>

Init ==
    /\ phase = [j \in Jobs |-> "new"]
    /\ owner = [j \in Jobs |-> NoConsumer]
    /\ ran = [j \in Jobs |-> 0]

Move(j, from, to) == phase[j] \in from /\ phase' = [phase EXCEPT ![j] = to]

Admit(j) == Move(j, {"new"}, "pending") /\ UNCHANGED <<owner, ran>>
Refuse(j) == Move(j, {"new"}, "dead") /\ UNCHANGED <<owner, ran>>

\* A cancelled job may still be sent: cancellation does not stop its task.
Run(j) ==
    /\ phase[j] \in {"pending", "dead"} /\ ran[j] = 0
    /\ ran' = [ran EXCEPT ![j] = 1]
    /\ UNCHANGED <<phase, owner>>

Finish(j) ==
    /\ \E k \in Jobs : ran[k] = 1 /\ <<j, k>> \in SameWork
    /\ Move(j, {"pending"}, "ready")
    /\ UNCHANGED <<owner, ran>>

Kill(j) == Move(j, {"pending", "ready"}, "dead") /\ UNCHANGED <<owner, ran>>

Claim(j, c) ==
    /\ Move(j, {"ready"}, "claimed")
    /\ owner[j] = NoConsumer
    /\ owner' = [owner EXCEPT ![j] = c]
    /\ UNCHANGED ran

Next == \E j \in Jobs : \/ Admit(j) \/ Refuse(j) \/ Run(j) \/ Finish(j) \/ Kill(j)
                        \/ \E c \in Consumers : Claim(j, c)

Spec == Init /\ [][Next]_lifecycleVars
=============================================================================
