---------------------------- MODULE MCExperiments ---------------------------
(***************************************************************************)
(* Instances of Experiments for TLC.  A part that does not run starts in   *)
(* one of its initial states.                                              *)
(***************************************************************************)
EXTENDS Experiments

\* Traces of three requests with small times, the empty trace and some of synthetic_trace.
R(r, c, d, p, s, q, a) ==
    [release |-> r, capture |-> c, deadline |-> d, profile |-> p, service |-> s, priority |-> q, age |-> a]
SmallTraces ==
    {<<>>} \cup
    {<<R(0, 0, d1, 1, s1, 1, 9), R(r2, 1, d2, 2, s2, q2, a2), R(r3, 0, d3, 1, s3, 1, 9)>> :
        d1 \in {2, 5}, s1 \in {0, 1, 3}, r2 \in 0..2, d2 \in {4, 6}, s2 \in {1, 2}, q2 \in {0, 2}, a2 \in {0, 9},
        r3 \in {1, 2}, d3 \in {3, 6}, s3 \in {1}}
\* Replay for its synthetic arrivals alone: Simulator is defined by the traces themselves.
Bare == INSTANCE Replay WITH Traces <- SmallTraces, now <- virtual
SyntheticTraces ==
    {<<Bare!Synthetic("mapping", 3, j, slow), Bare!Synthetic("semantic", 4, j, slow),
       Bare!Synthetic("policy", 50, 14, FALSE), Bare!Synthetic("policy", 170, j, slow)>> :
        j \in {0, 14}, slow \in BOOLEAN}
SampleTraces == SmallTraces \cup SyntheticTraces

\* Two items: paced, late, cached duplicates with stable evidence, and the same stable
\* evidence at two times; latest-only items, in one slot and in two sessions, of different
\* and of equal snapshots; an item that cannot be released after one that can; three items
\* for a journal of two; single items of every shape the validators tell apart.
Plain == [session |-> 1, release |-> 0, after |-> 2, lag |-> 0, kind |-> "historical", age |-> 0, policy |-> FALSE,
          ids |-> <<>>, hashes |-> <<1>>, replace |-> 0, discardable |-> FALSE, cacheable |-> FALSE,
          model |-> "served", room |-> 32, fits |-> TRUE]
Later(it) == [it EXCEPT !.release = 1]
Latest == [Plain EXCEPT !.replace = 1, !.discardable = TRUE]
Unserved == [Plain EXCEPT !.model = "unserved"]
Pairs ==
    {<<Plain, Later(Plain)>>,
     <<Plain, [Plain EXCEPT !.kind = "current", !.age = 1, !.lag = 1]>>,
     <<[Plain EXCEPT !.ids = <<1>>, !.cacheable = TRUE], [Plain EXCEPT !.ids = <<1>>, !.cacheable = TRUE]>>,
     <<[Plain EXCEPT !.ids = <<1>>], Later([Plain EXCEPT !.ids = <<1>>])>>,
     <<Latest, Later(Latest)>>, <<Latest, Latest>>, <<Latest, Later([Latest EXCEPT !.session = 2])>>,
     <<Plain, Later([Plain EXCEPT !.room = 1, !.hashes = <<1, 2>>])>>, <<[Plain EXCEPT !.room = 0, !.ids = <<1>>]>>,
     <<Plain, [Plain EXCEPT !.fits = FALSE]>>,
     <<Unserved, [Plain EXCEPT !.model = "unregistered"]>>, <<Unserved, Unserved, Plain>>}
Shapes ==
    {<<[Plain EXCEPT !.after = a, !.lag = l, !.kind = k, !.age = g, !.policy = p, !.replace = b, !.discardable = d,
                     !.cacheable = c]>> :
        a \in {0, 1}, l \in {0, 2}, k \in {"historical", "current", "action_proposal"}, g \in {0, 1},
        p \in BOOLEAN, b \in {0, 1}, d \in BOOLEAN, c \in BOOLEAN}
    \cup {<<[Plain EXCEPT !.ids = o, !.hashes = h]>> :
              o \in {<<>>, <<1>>, <<1, 1>>, <<1, 2>>}, h \in {<<>>, <<1>>, <<1, 1>>}}
SamplePlans == Pairs \cup Shapes

\* Every driver, within the ceilings and past them, and each of its refusals.
Compare(n, p, o, e, f) ==
    [tool |-> "compare", chat |-> TRUE, items |-> [k \in 1..n |-> k], payload |-> p, observations |-> o, endpoints |-> e, preflight |-> f]
Probe(n, p) == [tool |-> "probe", items |-> [k \in 1..n |-> k], payload |-> p]
Record(n, c) == [index |-> n, codec |-> c]
Recorded(items) == [tool |-> "replay", items |-> items]
Case(id, h, frames) == [id |-> id, hashed |-> h, frames |-> frames]
Good(id) == Case(id, TRUE, <<1, 2>>)
Screen(items, only, max) == [tool |-> "screen", items |-> items, only |-> only, maximum |-> max, prepared |-> TRUE]
Drivers ==
    {Compare(2, TRUE, 1, 1, FALSE), Compare(3, TRUE, 1, 1, FALSE), Compare(1, TRUE, 1, 1, TRUE),
     [Compare(1, TRUE, 1, 1, FALSE) EXCEPT !.chat = FALSE], Compare(1, FALSE, 1, 1, FALSE),
     Compare(1, TRUE, 0, 1, FALSE), Compare(1, TRUE, 1, 2, FALSE),
     Probe(3, TRUE), Probe(1, FALSE),
     Recorded(<<Record(0, TRUE), Record(1, TRUE), Record(2, TRUE)>>), Recorded(<<Record(1, TRUE)>>),
     Recorded(<<Record(0, FALSE)>>), Recorded(<<>>),
     Screen(<<Good("a"), Good("b"), Good("c"), Good("d")>>, {}, 6), Screen(<<Good("a"), Good("b"), Good("c")>>, {"a", "c"}, 6),
     Screen(<<Case("a", FALSE, <<1>>), Good("b")>>, {"b"}, 6), Screen(<<Good("a"), Good("b")>>, {}, 1),
     Screen(<<Good("a")>>, {"z"}, 6), Screen(<<Case("a", FALSE, <<1>>)>>, {}, 6),
     Screen(<<Case("a", TRUE, <<2, 2>>)>>, {}, 6), Screen(<<>>, {}, 6)}

\* Cohorts in order, and cohorts that repeat a packet, go back, or change generation.
Stamped(s, e, n) == [stamp |-> [session |-> s, epoch |-> e, sequence |-> n], valid |-> TRUE]
SampleCohorts ==
    {<<Stamped(1, 1, 1)>>, <<Stamped(1, 1, 0), Stamped(1, 1, 1), Stamped(1, 1, 4)>>,
     <<Stamped(1, 1, 1), Stamped(1, 1, 1)>>, <<Stamped(1, 1, 2), Stamped(1, 1, 1)>>,
     <<Stamped(1, 1, 1), Stamped(1, 2, 2)>>, <<Stamped(1, 1, 1), Stamped(2, 1, 2)>>,
     <<>>, <<[Stamped(1, 1, 1) EXCEPT !.valid = FALSE]>>}

-----------------------------------------------------------------------------
MCInit ==
    /\ part \in Parts
    /\ part # "load" => plan = <<Plain, Later(Plain)>>
    /\ part # "campaign" => input = Probe(1, FALSE)
    /\ part # "policy" => packets = <<>>
    /\ part # "proxy" => bounded = {}
    /\ part # "replay" => trace = <<>> /\ slots = 1 /\ mode = "fifo"
    /\ Init
    /\ plan \in Pairs => now = 1    \* only single items start as early as 0

MCSpec == MCInit /\ [][Next]_vars /\ Fairness
=============================================================================
