--------------------------- MODULE HistoricalCache ---------------------------
(***************************************************************************)
(* The bounded result cache of cache.py: an OrderedDict in order of use    *)
(* with a byte counter kept beside it.  get is called by tick, put by the  *)
(* completion of a job; both run to their end without an await.            *)
(*                                                                         *)
(* `data' is the OrderedDict, least recently used entry first.  `recency'  *)
(* and `answer' observe: the keys in the order of their last use, and what *)
(* the last get returned.                                                  *)
(***************************************************************************)
EXTENDS Integers, SequencesExt

CONSTANTS
    Keys, NoKey,        \* key(): NoKey for a job that may not be cached
    Payloads, Nothing,
    Size,               \* encoded length of a payload
    MaxEntries, MaxBytes, TtlNs,
    MaxTime             \* bound on the clock

CacheAssumption ==
    /\ NoKey \notin Keys /\ Nothing \notin Payloads \cup [payload : Payloads, computed : Nat]
    /\ Size \in [Payloads -> Nat]
    /\ MaxEntries \in Nat /\ MaxBytes \in Nat /\ TtlNs \in Nat /\ MaxTime \in Nat

VARIABLES data, bytes, now, recency, answer

vars == <<data, bytes, now, recency, answer>>

Entry == [key : Keys, payload : Payloads, computed : Nat, size : Nat]

TypeOK ==
    /\ data \in Seq(Entry) /\ bytes \in Int /\ now \in Nat
    /\ recency \in Seq(Keys)
    /\ answer \in Payloads \cup {Nothing}

Init == data = <<>> /\ bytes = 0 /\ now = 0 /\ recency = <<>> /\ answer = Nothing

-----------------------------------------------------------------------------
Total(s) == FoldSeq(LAMBDA e, sum : e.size + sum, 0, s)
Held(k) == {i \in DOMAIN data : data[i].key = k}

\* A key stands in one place at most: s without what stands there.
Place(at) == CHOOSE i \in at : TRUE
Without(s, at) == IF at = {} THEN s ELSE RemoveAt(s, Place(at))
Used(k) == recency' = Append(Without(recency, {i \in DOMAIN recency : recency[i] = k}), k)

GetMiss(k) ==
    /\ k = NoKey \/ Held(k) = {}
    /\ answer' = Nothing
    /\ UNCHANGED <<data, bytes, now, recency>>

\* Mutant: an entry of exactly the age limit is still served.
Expired_LateByOne(e) == now - e.computed > TtlNs

Expired(e) == now - e.computed >= TtlNs

GetExpired(k) ==
    \E i \in Held(k) :
        /\ Expired(data[i])
        /\ data' = RemoveAt(data, i)
        /\ bytes' = bytes - data[i].size
        /\ answer' = Nothing
        /\ UNCHANGED <<now, recency>>

GetHit(k) ==
    \E i \in Held(k) :
        /\ ~Expired(data[i])
        /\ data' = Append(RemoveAt(data, i), data[i])
        /\ answer' = data[i].payload
        /\ Used(k)
        /\ UNCHANGED <<bytes, now>>

Get(k) == GetMiss(k) \/ GetExpired(k) \/ GetHit(k)

\* How many of the oldest entries of s the eviction loop pops, with b bytes counted.
Evicted(s, b, size) ==
    CHOOSE n \in 0..Len(s) :
        LET Fits(k) == Len(s) - k < MaxEntries /\ b - Total(SubSeq(s, 1, k)) + size <= MaxBytes
        IN  /\ n = Len(s) \/ Fits(n)
            /\ \A k \in 0..(n - 1) : ~Fits(k)

\* put returns without effect.
PutIgnored(k, p) ==
    /\ k = NoKey \/ MaxEntries = 0 \/ Size[p] > MaxBytes
    /\ UNCHANGED vars

\* Mutant: the size of a replaced entry stays counted.
PutStored_ReplacedStays(k, p) ==
    LET rest    == Without(data, Held(k))
        n       == Evicted(rest, bytes, Size[p])
    IN  /\ k # NoKey /\ MaxEntries # 0 /\ Size[p] <= MaxBytes
        /\ data' = Append(SubSeq(rest, n + 1, Len(rest)),
                          [key |-> k, payload |-> p, computed |-> now, size |-> Size[p]])
        /\ bytes' = bytes - Total(SubSeq(rest, 1, n)) + Size[p]
        /\ Used(k)
        /\ UNCHANGED <<now, answer>>

\* The old entry of the key leaves, the loop makes room, the new entry is last.
PutStored(k, p) ==
    LET rest    == Without(data, Held(k))
        counted == IF Held(k) = {} THEN bytes ELSE bytes - data[Place(Held(k))].size
        n       == Evicted(rest, counted, Size[p])
    IN  /\ k # NoKey /\ MaxEntries # 0 /\ Size[p] <= MaxBytes
        /\ data' = Append(SubSeq(rest, n + 1, Len(rest)),
                          [key |-> k, payload |-> p, computed |-> now, size |-> Size[p]])
        /\ bytes' = counted - Total(SubSeq(rest, 1, n)) + Size[p]
        /\ Used(k)
        /\ UNCHANGED <<now, answer>>

Put(k, p) == PutIgnored(k, p) \/ PutStored(k, p)

AdvanceClock == now < MaxTime /\ now' = now + 1 /\ UNCHANGED <<data, bytes, recency, answer>>

Next ==
    \/ \E k \in Keys \cup {NoKey} : Get(k) \/ \E p \in Payloads : Put(k, p)
    \/ AdvanceClock

Spec == Init /\ [][Next]_vars

-----------------------------------------------------------------------------
\* Through replacements, expiries and evictions the byte counter equals what is
\* stored, a key is stored once, neither limit is passed, and entries stand in the
\* order of their last use, so that eviction takes the least recently used ones.
CountersExact ==
    /\ bytes = Total(data) /\ bytes <= MaxBytes
    /\ Len(data) <= MaxEntries
    /\ \A i, j \in DOMAIN data : data[i].key = data[j].key => i = j
    /\ \A i, j \in DOMAIN data : i < j =>
          \E a, b \in DOMAIN recency : recency[a] = data[i].key /\ recency[b] = data[j].key /\ a < b

\* The cache is a lossy map with an age limit: a lookup answers with nothing or
\* with the result last stored under that key, if it is younger than the limit.
Lossy == INSTANCE LossyCache WITH
    held <- [k \in Keys |-> IF Held(k) = {} THEN Nothing
                            ELSE LET e == data[Place(Held(k))]
                                 IN  [payload |-> e.payload, computed |-> e.computed]]
IsLossyCache == Lossy!Spec
=============================================================================
