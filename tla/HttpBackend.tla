---------------------------- MODULE HttpBackend -----------------------------
(***************************************************************************)
(* One HttpBackend.infer call (backends.py): the checks before anything is *)
(* sent, the response read chunk by chunk, the SSE parser of a streamed    *)
(* chat answer, and what is reported to the coordinator: a prediction or a *)
(* failure that claims "not_sent", "known" (remote compute is over) or     *)
(* "unknown" termination.                                                  *)
(*                                                                         *)
(* A response is a `script' of lines.  A line is four bytes: three of text *)
(* and its newline.  Cut after one byte it does not yet start with         *)
(* "data:", cut after two its JSON is incomplete.  A response that is not  *)
(* streamed is one such line, the body.  Chunks end anywhere, the peer may *)
(* close anywhere, and the connection may break at any time.               *)
(***************************************************************************)
EXTENDS Integers, SequencesExt

CONSTANTS
    Calls,       \* the calls of the instance, see Call
    Scripts,     \* the responses a peer may give
    MaxBytes     \* Endpoint.max_response_bytes

ContentItem == {"text", "bound_image", "unbound_image", "remote_image", "oversized_image", "other"}
Tensor == [name : Nat, shape : Seq(Nat), data : Nat, fits : BOOLEAN]
Call == [kind : {"chat", "triton", "worker", "other"}, stream : BOOLEAN,
         network : BOOLEAN, credential : {"unset", "set", "missing"},
         items : SUBSET ContentItem, tensors : Seq(Tensor)]

\* A chat stream: content, finish_reason "stop" alone or with content, another
\* finish_reason, usage, [DONE], a line without "data:", an error object, another
\* or a missing model, several choices, and text that is not strict JSON.
LineKind == {"content", "stop", "last", "cut", "usage", "done", "comment", "error", "mismatch",
             "choices", "garbage"}
\* The body of a response that is not streamed, by the check it fails.
BodyKind == {"answer", "error", "mismatch", "cut", "empty", "binding", "contract", "garbage"}

BackendAssumption ==
    /\ Calls \subseteq Call
    /\ Scripts \subseteq Seq(LineKind \cup BodyKind)
    /\ MaxBytes \in Nat

VARIABLES
    call, script,   \* chosen once
    phase,          \* "prepare", "posted", "reading" or "end"
    pos,            \* bytes received
    parser,         \* what parse_line has collected
    outcome,
    remote          \* observer: "idle", "computing" or "over"

vars == <<call, script, phase, pos, parser, outcome, remote>>

Fresh == [text |-> <<>>, usage |-> 0, finished |-> FALSE, done |-> FALSE, raised |-> "none"]

TypeOK ==
    /\ call \in Calls /\ script \in Scripts
    /\ phase \in {"prepare", "posted", "reading", "end"}
    /\ pos \in Nat
    /\ parser \in [text : Seq(Nat), usage : Nat, finished : BOOLEAN, done : BOOLEAN,
                   raised : {"none", "known", "unknown"}]
    /\ outcome \in {"none", "prediction", "not_sent", "known", "unknown"}
    /\ remote \in {"idle", "computing", "over"}

Streaming == call.kind = "chat" /\ call.stream

\* A streamed call is answered by a stream, any other by one body.
Answers == {s \in Scripts : IF Streaming THEN s \in Seq(LineKind) ELSE Len(s) = 1 /\ s[1] \in BodyKind}

Init ==
    /\ call \in Calls /\ script \in Answers
    /\ phase = "prepare" /\ pos = 0 /\ parser = Fresh
    /\ outcome = "none" /\ remote = "idle"

Finish(result) == outcome' = result /\ phase' = "end"

-----------------------------------------------------------------------------
\* Before anything is sent.

\* validate_chat: messages of text and inline images within the byte bound, each
\* image one of the job's observations by its hash.
ValidChat(items) == items # {} /\ items \subseteq {"text", "bound_image"}

\* tensor_check: as many values as the shape asks for, each within its dtype.
TensorCheck(t) ==
    /\ t.shape # <<>> /\ \A i \in DOMAIN t.shape : t.shape[i] >= 1
    /\ t.data = FoldSeq(LAMBDA n, product : n * product, 1, t.shape)
    /\ t.fits

ValidTensors(tensors) ==
    /\ tensors # <<>>
    /\ \A i \in DOMAIN tensors : TensorCheck(tensors[i])
    /\ \A i, j \in DOMAIN tensors : tensors[i].name = tensors[j].name => i = j

ValidPayload ==
    CASE call.kind = "chat"   -> ValidChat(call.items)
      [] call.kind = "triton" -> ValidTensors(call.tensors)
      [] call.kind = "worker" -> TRUE
      [] call.kind = "other"  -> FALSE

Refuse ==
    /\ phase = "prepare"
    /\ ~call.network \/ call.credential = "missing" \/ ~ValidPayload
    /\ Finish("not_sent")
    /\ UNCHANGED <<call, script, pos, parser, remote>>

Post ==
    /\ phase = "prepare"
    /\ call.network /\ call.credential # "missing" /\ ValidPayload
    /\ phase' = "posted" /\ remote' = "computing"
    /\ UNCHANGED <<call, script, pos, parser, outcome>>

-----------------------------------------------------------------------------
\* The response.

StatusOk == phase = "posted" /\ phase' = "reading" /\ UNCHANGED <<call, script, pos, parser, outcome, remote>>

\* Mutant: an error status is taken as proof that the request is over.
StatusBad_Known ==
    /\ phase = "posted"
    /\ Finish("known")
    /\ UNCHANGED <<call, script, pos, parser, remote>>

StatusBad ==
    /\ phase = "posted"
    /\ Finish("unknown")
    /\ UNCHANGED <<call, script, pos, parser, remote>>

Raise(st, termination) == [st EXCEPT !.raised = termination]

AddContent(st, i) ==
    IF st.finished THEN Raise(st, "unknown") ELSE [st EXCEPT !.text = Append(@, i)]

\* Mutant: content after the finish reason is appended.
ParseLine_AfterFinish(st, i, kind) ==
    CASE st.raised # "none"                  -> st
      [] kind = "content"                    -> [st EXCEPT !.text = Append(@, i)]
      [] kind = "stop"                       -> [st EXCEPT !.finished = TRUE]
      [] kind = "last"                       -> [st EXCEPT !.text = Append(@, i), !.finished = TRUE]
      [] kind = "usage"                      -> [st EXCEPT !.usage = i]
      [] kind = "done"                       -> [st EXCEPT !.done = TRUE]
      [] kind = "comment"                    -> st
      [] kind \in {"error", "mismatch"}      -> Raise(st, "known")
      [] OTHER                               -> Raise(st, "unknown")

\* parse_line(line) for line i of the stream; a raised failure ends the parse.
ParseLine(st, i, kind) ==
    IF st.raised # "none" \/ kind = "comment" THEN st
    ELSE IF kind = "done" THEN [st EXCEPT !.done = TRUE]
    ELSE IF st.done THEN Raise(st, "unknown")
    ELSE CASE kind \in {"error", "mismatch"}         -> Raise(st, "known")
           [] kind \in {"choices", "garbage", "cut"} -> Raise(st, "unknown")
           [] kind = "usage"                         -> [st EXCEPT !.usage = i]
           [] kind = "content"                       -> AddContent(st, i)
           [] kind = "stop"                          -> [st EXCEPT !.finished = TRUE]
           [] kind = "last"                          -> [AddContent(st, i) EXCEPT !.finished = TRUE]

\* The loop over the complete lines that end within bytes from+1 .. to.
ParseLines(st, from, to) ==
    LET parsed[i \in (from \div 4)..(to \div 4)] ==
            IF i = from \div 4 THEN st ELSE ParseLine(parsed[i - 1], i, script[i])
    IN  parsed[to \div 4]

\* An error object is the last thing a peer says: it computes no further.
ErrorSaid(bytes) == \E i \in 1..(bytes \div 4) : script[i] = "error"

\* A chunk of n bytes; the bound is tested before the chunk is looked at.
Chunk(n) ==
    /\ phase = "reading" /\ pos + n <= 4 * Len(script)
    /\ pos' = pos + n
    /\ IF pos + n > MaxBytes
       THEN parser' = parser /\ Finish("unknown")
       ELSE /\ parser' = IF Streaming THEN ParseLines(parser, pos, pos + n) ELSE parser
            /\ IF parser'.raised # "none" THEN Finish(parser'.raised) ELSE UNCHANGED <<phase, outcome>>
    /\ remote' = IF ErrorSaid(pos + n) THEN "over" ELSE remote
    /\ UNCHANGED <<call, script>>

\* The peer closes: what is left in the buffer is parsed as a last line.
LastLine(st) ==
    LET i == (pos \div 4) + 1
    IN  CASE pos % 4 \in {0, 1} -> st
          [] pos % 4 = 2        -> ParseLine(st, i, IF script[i] = "comment" THEN "comment" ELSE "garbage")
          [] pos % 4 = 3        -> ParseLine(st, i, script[i])

StreamResult(st) ==
    IF st.raised # "none" THEN st.raised
    ELSE IF st.done /\ st.finished /\ st.text # <<>> THEN "prediction" ELSE "unknown"

\* The checks on a body that was read to its end; a truncated one is not JSON.
BodyResult(body) ==
    IF pos < 3 THEN "unknown"
    ELSE CASE body = "answer" -> "prediction"
           [] call.kind = "chat" /\ body \in {"error", "mismatch", "cut", "empty"} -> "known"
           [] call.kind = "triton" /\ body \in {"error", "mismatch"} -> "known"
           [] call.kind = "worker" /\ body \in {"error", "mismatch", "cut", "empty", "binding"} -> "known"
           [] OTHER -> "unknown"

EndOfResponse ==
    /\ phase = "reading"
    /\ remote' = "over"
    /\ parser' = IF Streaming THEN LastLine(parser) ELSE parser
    /\ Finish(IF Streaming THEN StreamResult(parser') ELSE BodyResult(script[1]))
    /\ UNCHANGED <<call, script, pos>>

\* httpx.HTTPError, or wait_for of the coordinator gives up.
Broken ==
    /\ phase \in {"posted", "reading"}
    /\ Finish("unknown")
    /\ UNCHANGED <<call, script, pos, parser, remote>>

\* Remote compute ends without the client seeing it.
RemoteFinish ==
    /\ remote = "computing" /\ phase # "prepare"
    /\ remote' = "over"
    /\ UNCHANGED <<call, script, phase, pos, parser, outcome>>

Next ==
    \/ Refuse \/ Post \/ StatusOk \/ StatusBad
    \/ \E n \in 1..(4 * Len(script)) : Chunk(n)
    \/ EndOfResponse \/ Broken \/ RemoteFinish

Spec == Init /\ [][Next]_vars

-----------------------------------------------------------------------------
\* Properties.

Received == SubSeq(script, 1, (pos + 1) \div 4)
At(kind) == {i \in DOMAIN Received : Received[i] \in kind}

\* A well-formed answer, said of the whole response without regard to chunks.
WellFormed ==
    /\ At({"done"}) # {} /\ At({"stop", "last"}) # {} /\ At({"content", "last"}) # {}
    /\ At({"cut", "error", "mismatch", "choices", "garbage"}) = {}
    /\ \A i \in At({"content", "last"}), s \in At({"stop", "last"}) : i <= s
    /\ \A d \in At({"done"}), i \in DOMAIN Received : i > d => Received[i] \in {"done", "comment"}

\* However a streamed answer is cut into chunks, and wherever it ends, it becomes a
\* prediction exactly when what was received is well formed, and the prediction
\* holds every piece of content in order and the last usage.
StreamParsedWhole ==
    [][Streaming =>
         /\ outcome' = "prediction" /\ outcome # "prediction" =>
               /\ pos <= MaxBytes /\ WellFormed
               /\ Range(parser'.text) = At({"content", "last"})
               /\ \A i, j \in DOMAIN parser'.text : i < j => parser'.text[i] < parser'.text[j]
               /\ parser'.usage \in At({"usage"}) \cup {0} /\ \A u \in At({"usage"}) : u <= parser'.usage
         /\ EndOfResponse /\ pos % 4 \in {0, 1, 3} /\ WellFormed => outcome' = "prediction"]_vars

\* "Cancelling HTTP is not proof that GPU compute stopped": a failure is reported
\* with known termination only when remote compute is over.
KnownMeansOver == outcome = "known" => remote = "over"

\* What a failure says of remote compute is true: not_sent when there was none, known
\* when it is over, with one exception, a chunk that names another model.
ClaimsTrue ==
    /\ outcome = "not_sent" => remote = "idle"
    /\ outcome = "known" => remote = "over" \/ (Streaming /\ At({"mismatch"}) # {})
=============================================================================
