----------------------------- MODULE MCInference ----------------------------
(***************************************************************************)
(* Instances of Inference for TLC.  A part that does not run starts in one *)
(* of its initial states.  Rates are below, at and above each other, for   *)
(* three tokens instead of a million.                                      *)
(***************************************************************************)
EXTENDS Inference

CONSTANT MaxLines    \* length of a chat stream

\* One streamed call with every stream of at most MaxLines lines; calls of every kind of
\* endpoint, with payloads good and bad, with every kind of body.
StreamCall == [kind |-> "chat", stream |-> TRUE, network |-> TRUE, credential |-> "unset",
               items |-> {"text"}, tensors |-> <<>>]
T(n, s, d, f) == [name |-> n, shape |-> s, data |-> d, fits |-> f]
TensorLists == {<<>>, <<T(1, <<2, 2>>, 4, TRUE)>>, <<T(1, <<2, 2>>, 3, TRUE)>>, <<T(1, <<0>>, 0, TRUE)>>,
                <<T(1, <<2>>, 2, FALSE)>>, <<T(1, <<1>>, 1, TRUE), T(1, <<1>>, 1, TRUE)>>}
ReplyCalls ==
    LET plain == [StreamCall EXCEPT !.stream = FALSE]
    IN  {[plain EXCEPT !.items = s] : s \in SUBSET {"text", "bound_image", "unbound_image", "other"}}
        \cup {[plain EXCEPT !.kind = "triton", !.tensors = ts] : ts \in TensorLists}
        \cup {[plain EXCEPT !.kind = k, !.network = b, !.credential = c] :
                 k \in {"chat", "worker", "other"}, b \in BOOLEAN, c \in {"unset", "set", "missing"}}
StreamLines == {"content", "stop", "last", "cut", "usage", "done", "comment", "error", "mismatch", "choices", "garbage"}
StreamScripts == UNION {[1..n -> StreamLines] : n \in 0..MaxLines}
ReplyScripts ==
    {<<b>> : b \in {"answer", "error", "mismatch", "cut", "empty", "binding", "contract", "garbage"}}
SampleCalls == ReplyCalls \cup {StreamCall}
SampleScripts == StreamScripts \cup ReplyScripts

\* Charges of a provider in quarters of a micro-USD: one that is not a charge, nothing, two
\* that round to nothing (1/4 and the tie 2/4), one that rounds up to one (3/4), a tie that
\* rounds up (6/4) and one that rounds down (9/4).
SampleCharges == {-1, 0, 1, 2, 3, 6, 9}

\* Batches of one and two, records about the same job, an unknown job, bad records, an
\* export that is too long; two importers.
Row(j, c) == [job |-> j, charge |-> c, evidence |-> TRUE]
Of(shape, rows) == [shape |-> shape, bytes |-> Len(rows), rows |-> rows]
SampleExports ==
    {Of("array", <<Row(1, 3), Row(2, 0)>>), Of("jsonl", <<Row(2, 5), Row(1, 1)>>), Of("object", <<Row(2, 7)>>),
     Of("array", <<Row(1, 2), Row(1, 4)>>), Of("array", <<Row(1, 2), Row(9, 4)>>),
     Of("jsonl", <<Row(1, 2), [job |-> 2, charge |-> 1, evidence |-> FALSE]>>), Of("array", <<>>),
     Of("array", <<Row(1, 1), Row(2, -1)>>), Of("array", <<Row(1, 1), Row(2, 1), Row(3, 1)>>)}

\* Three keys for two places; payloads of one to four bytes for three.
PayloadSize == [small |-> 1, medium |-> 2, large |-> 3, oversized |-> 4]

-----------------------------------------------------------------------------
\* A streamed call is answered by a stream.
MCInit ==
    /\ part \in Parts
    /\ IF part = "http" THEN call \in Calls ELSE call = StreamCall
    /\ script \in IF part # "http" THEN {<<>>} ELSE IF call.stream THEN StreamScripts ELSE ReplyScripts
    /\ part # "charging" => /\ endpoint = [billed |-> FALSE, reserve |-> 0, input |-> 0, cached |-> 0, output |-> 0]
                            /\ value = None
    /\ part # "import" => file = [i \in Importers |-> Of("array", <<>>)] /\ apply = [i \in Importers |-> FALSE]
    /\ Init

MCSpec == MCInit /\ [][Next]_vars
=============================================================================
