----------------------------- MODULE LossyCache -----------------------------
(***************************************************************************)
(* What the coordinator may rely on of its result cache: a lookup answers  *)
(* with nothing or with what the cache holds for that key, and what it     *)
(* holds was computed for that key less than TtlNs ago.  Anything may be   *)
(* lost at any time.                                                       *)
(* Runtime uses the cache in exactly this form (CacheHits).                *)
(***************************************************************************)
EXTENDS Integers

CONSTANTS Keys, Payloads, Nothing, TtlNs

VARIABLES
    held,     \* per key, Nothing or a payload and when it was computed
    answer,   \* of the last lookup
    now

vars == <<held, answer, now>>

Init == held = [k \in Keys |-> Nothing] /\ answer = Nothing /\ now = 0

Loses(others) == \A k \in others : held'[k] \in {held[k], Nothing}

Lookup(k) ==
    /\ \/ answer' = Nothing
       \/ held[k] # Nothing /\ now - held[k].computed < TtlNs /\ answer' = held[k].payload
    /\ Loses(Keys)
    /\ UNCHANGED now

Store(k, p) ==
    /\ held'[k] \in {[payload |-> p, computed |-> now], held[k], Nothing}
    /\ Loses(Keys \ {k})
    /\ UNCHANGED <<answer, now>>

Next ==
    \/ \E k \in Keys : Lookup(k) \/ \E p \in Payloads : Store(k, p)
    \/ now' > now /\ UNCHANGED <<held, answer>>

Spec == Init /\ [][Next]_vars
=============================================================================
