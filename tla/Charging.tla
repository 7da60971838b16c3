------------------------------ MODULE Charging ------------------------------
(***************************************************************************)
(* What one attempt is charged: the endpoint's tariff and reservation      *)
(* (config.py), the usage object of the answer (usage_from_chat in         *)
(* backends.py, Usage in contracts.py) and the ledger row that is settled  *)
(* with it (store.py).  Providers omit counts, contradict themselves,      *)
(* report their own charge, or report nothing.                             *)
(***************************************************************************)
EXTENDS Integers

CONSTANTS
    Counts,      \* token counts a usage object may report
    Rates,       \* micro-USD for a million tokens
    Reserves,    \* reserve_microusd
    Charges,     \* provider's own charge, in quarters of a micro-USD; negative ones are not charges
    Million,     \* tokens a rate is quoted for
    None         \* Python's None

Optional(S) == S \cup {None}

ChargingAssumption ==
    /\ Counts \subseteq Nat /\ Rates \subseteq Nat /\ Reserves \subseteq Nat /\ Charges \subseteq Int
    /\ Million \in Nat \ {0}

Endpoint == [billed : BOOLEAN, reserve : Reserves, input : Optional(Rates),
             cached : Optional(Rates), output : Optional(Rates)]

\* Endpoint.fixed_url: a paid endpoint has a positive reservation.
ValidEndpoint(e) == e.billed => e.reserve # 0

UsageValue == [prompt : Optional(Counts), completion : Optional(Counts), cached : Optional(Counts),
               reasoning : Optional(Counts), cost : Optional(Charges)]

VARIABLES
    endpoint,
    value,       \* the usage of the answer: UsageValue, or None when the answer has none
    row          \* the attempt: [disposition, quote, actual]

vars == <<endpoint, value, row>>

TypeOK ==
    /\ endpoint \in Endpoint /\ value \in UsageValue \cup {None}
    /\ row \in [disposition : {"absent", "reserved", "settled", "unknown"}, quote : Nat, actual : Optional(Nat)]

Init ==
    /\ endpoint \in {e \in Endpoint : ValidEndpoint(e)}
    /\ value \in UsageValue \cup {None}
    /\ row = [disposition |-> "absent", quote |-> 0, actual |-> None]

-----------------------------------------------------------------------------

\* Usage.subsets: cached and reasoning tokens are subsets of what is counted.
Subset(part, whole) == part # None => whole # None /\ part <= whole
ValidUsage(v) == Subset(v.cached, v.prompt) /\ Subset(v.reasoning, v.completion)

OrElse(x, default) == IF x = None THEN default ELSE x

\* Mutant: int(cost * 1000000), without round, drops the fraction.
Rounded_Truncated(quarters) == quarters \div 4

\* int(round(cost * 1000000)): to the nearest, a half to the even neighbour; a positive
\* charge of at most half a micro-USD is rounded to zero.
Rounded(quarters) ==
    LET q == quarters \div 4
        r == quarters % 4
    IN  IF r > 2 \/ (r = 2 /\ q % 2 = 1) THEN q + 1 ELSE q

\* "Missing cached count: conservatively price total input at uncached rate."
CachedTokens(v) == OrElse(v.cached, 0)

\* Mutant: the fraction of a micro-USD is dropped.
Estimate_Floor(v, e) ==
    ((v.prompt - CachedTokens(v)) * e.input + CachedTokens(v) * OrElse(e.cached, e.input)
        + v.completion * e.output) \div Million

Estimate(v, e) ==
    ((v.prompt - CachedTokens(v)) * e.input + CachedTokens(v) * OrElse(e.cached, e.input)
        + v.completion * e.output + Million - 1) \div Million

Priced(v, e) == v.prompt # None /\ v.completion # None /\ e.input # None /\ e.output # None
Reported(v) == v.cost # None /\ v.cost >= 0

\* usage_from_chat: the cost in micro-USD, None when it is not known.
UsageFromChat(v, e) ==
    CASE ~e.billed -> 0
      [] e.billed /\ v = None -> None
      [] e.billed /\ v # None /\ Reported(v) -> Rounded(v.cost)
      [] e.billed /\ v # None /\ ~Reported(v) /\ Priced(v, e) -> Estimate(v, e)
      [] OTHER -> None

Reserve ==
    /\ row.disposition = "absent"
    /\ row' = [disposition |-> "reserved", quote |-> endpoint.reserve, actual |-> None]
    /\ UNCHANGED <<endpoint, value>>

Settled(cost) == [row EXCEPT !.actual = cost, !.disposition = IF cost = None THEN "unknown" ELSE "settled"]

\* The answer's usage is priced and the attempt settled with it.
Settle ==
    /\ row.disposition = "reserved"
    /\ value # None => ValidUsage(value)
    /\ row' = Settled(UsageFromChat(value, endpoint))
    /\ UNCHANGED <<endpoint, value>>

\* The usage contradicts itself: the attempt ends unknown.
Refuse ==
    /\ row.disposition = "reserved"
    /\ value # None /\ ~ValidUsage(value)
    /\ row' = Settled(None)
    /\ UNCHANGED <<endpoint, value>>

Next == Reserve \/ Settle \/ Refuse
Spec == Init /\ [][Next]_vars

-----------------------------------------------------------------------------
\* Properties.

\* The charge the provider reported, to within half a micro-USD either way.
Nearest(actual, quarters) == 4 * actual <= quarters + 2 /\ 4 * actual >= quarters - 2

\* The smallest whole charge that covers the tariff, token by token.
CoversTariff(actual) ==
    LET owed == (value.prompt - OrElse(value.cached, 0)) * endpoint.input
                   + OrElse(value.cached, 0) * OrElse(endpoint.cached, endpoint.input)
                   + value.completion * endpoint.output
    IN  actual * Million >= owed /\ (actual - 1) * Million < owed

\* "They never become an implicit zero-cost result": an attempt of a paid endpoint weighs
\* on the ceiling, with a positive hold while its charge is not known; with the charge the
\* provider reported, to the nearest micro-USD (so with 0 when that is at most half of one),
\* whatever the tariff says; and without such a report with what covers the tariff.
PaidNeverImplicitlyFree ==
    endpoint.billed /\ row.disposition # "absent" =>
        \/ row.actual = None /\ row.quote > 0
        \/ /\ row.actual # None /\ value # None
           /\ IF Reported(value) THEN Nearest(row.actual, value.cost)
              ELSE Priced(value, endpoint) /\ CoversTariff(row.actual)
=============================================================================
