------------------------------ MODULE Sidecar -------------------------------
(***************************************************************************)
(* The loopback sidecar (server.py) and its clients (client.py).  A        *)
(* request's body arrives in chunks under a byte bound, from a client that *)
(* may go away between two of them; only then is the bearer token looked   *)
(* at and a handler run, which is one step of the event loop.  Answers get *)
(* lost, and a client that has no answer may send the same request again.  *)
(*                                                                         *)
(* There is one session and one job: what the handlers do to them is       *)
(* written out, the rest of the coordinator is in Runtime.                 *)
(***************************************************************************)
EXTENDS Integers, Sequences, Functions

CONSTANTS
    Clients,
    Requests,     \* requests a client may send, see Request
    Limit,        \* BoundedBody.limit
    FieldLimit,   \* what obj() takes
    MaxTries      \* bound of the instance

\* fields: the body decodes to the keys and types the route wants.
Request == [op : {"open", "advance", "close", "heartbeat", "submit", "result", "consume", "cancel", "clock"},
            token : BOOLEAN, chunks : Seq(Nat), fields : BOOLEAN, epoch : Nat, buffer : Nat]

SidecarAssumption ==
    Requests \subseteq Request /\ Limit \in Nat /\ FieldLimit \in Nat /\ MaxTries \in Nat

VARIABLES
    up,           \* the application is started and not shut down
    req, tries,   \* what each client sends, and how often it did
    pc,           \* "idle", "body", "replay", "answer" or "over"
    got, size,    \* chunks received, and their bytes
    status,       \* status of the answer in the making, 0 for none
    heard,        \* status the client received last, 0 for none
    effects,      \* how often a client's request changed the coordinator
    session, job, \* the coordinator's session and job
    fresh         \* the job's deadline has not come

connVars == <<req, tries, pc, got, size, status, heard>>
vars == <<up, connVars, effects, session, job, fresh>>

NoSession == [state |-> "absent", epoch |-> -1, buffer |-> 0]
NoJob == [state |-> "absent", epoch |-> 0, by |-> "nobody"]

TypeOK ==
    /\ up \in BOOLEAN /\ fresh \in BOOLEAN /\ req \in [Clients -> Requests]
    /\ pc \in [Clients -> {"idle", "body", "replay", "answer", "over"}]
    /\ tries \in [Clients -> 0..MaxTries] /\ got \in [Clients -> Nat] /\ size \in [Clients -> Nat]
    /\ status \in [Clients -> Nat] /\ heard \in [Clients -> Nat] /\ effects \in [Clients -> Nat]
    /\ session.state \in {"absent", "active", "closed"}
    /\ job.state \in {"absent", "rejected", "queued", "succeeded", "consumed", "cancelled", "stale", "expired"}

\* lifespan has started the serve loop, and earlier requests may have opened the session
\* and had the job computed.
Init ==
    /\ up = TRUE /\ fresh = TRUE
    /\ session \in {NoSession, [state |-> "active", epoch |-> 0, buffer |-> 0]}
    /\ job \in {NoJob} \cup (IF session = NoSession THEN {} ELSE {[NoJob EXCEPT !.state = "succeeded"]})
    /\ req \in [Clients -> Requests] /\ tries = [c \in Clients |-> 0]
    /\ pc = [c \in Clients |-> "idle"]
    /\ got = [c \in Clients |-> 0] /\ size = [c \in Clients |-> 0]
    /\ status = [c \in Clients |-> 0] /\ heard = [c \in Clients |-> 0] /\ effects = [c \in Clients |-> 0]

-----------------------------------------------------------------------------
\* The handlers: the status and what becomes of session and job.

Ok(s, j) == [status |-> 200, session |-> s, job |-> j]
Error(code) == [status |-> code, session |-> session, job |-> job]

InvalidReason(s, j) == s.state # "active" \/ s.epoch # j.epoch \/ ~fresh

\* _expire, which advance_session runs before it answers.
Expired(s, j) ==
    IF j.state = "queued" /\ InvalidReason(s, j)
    THEN [j EXCEPT !.state = IF s.state = "active" /\ s.epoch = j.epoch THEN "expired" ELSE "stale"] ELSE j

OpenSession ==
    IF session.state = "active" THEN Error(409)
    ELSE Ok([state |-> "active", epoch |-> session.epoch + 1, buffer |-> 0], job)

Advanced(r) == [state |-> IF r.op = "close" THEN "closed" ELSE "active", epoch |-> session.epoch + 1, buffer |-> 0]

\* Mutant: the expected epoch is not compared.
AdvanceSession_NoCompare(r) ==
    CASE session.state = "absent" -> Error(404)
      [] session.state = "closed" -> Error(409)
      [] OTHER -> Ok(Advanced(r), Expired(Advanced(r), job))

AdvanceSession(r) ==
    CASE session.state = "absent" -> Error(404)
      [] session.state = "closed" \/ (session.state = "active" /\ session.epoch # r.epoch) -> Error(409)
      [] OTHER -> Ok(Advanced(r), Expired(Advanced(r), job))

Heartbeat(r) ==
    CASE session.state = "absent" -> Error(404)
      [] session.state = "closed" \/ (session.state = "active" /\ session.epoch # r.epoch) -> Error(409)
      [] OTHER -> Ok([session EXCEPT !.buffer = r.buffer], job)

Admitted(r) ==
    LET j == [state |-> "queued", epoch |-> r.epoch, by |-> "nobody"]
    IN  IF InvalidReason(session, j) THEN [j EXCEPT !.state = "rejected"] ELSE j

\* Runtime.submit: a known identifier answers with its receipt, if the work is the same.
Submit(r) ==
    CASE job.state # "absent" /\ job.epoch = r.epoch -> Ok(session, job)
      [] job.state # "absent" /\ job.epoch # r.epoch -> Error(422)
      [] job.state = "absent" /\ session.state = "absent" -> Error(404)
      [] OTHER -> Ok(session, Admitted(r))

Result == IF job.state = "absent" THEN Error(404) ELSE Ok(session, job)

Consume(c) ==
    CASE job.state = "absent" -> Error(404)
      [] job.state # "absent" /\ (InvalidReason(session, job) \/ job.state \notin {"succeeded", "consumed"}) -> Error(409)
      [] job.state = "consumed" /\ ~InvalidReason(session, job) -> IF job.by = c THEN Ok(session, job) ELSE Error(409)
      [] OTHER -> Ok(session, [job EXCEPT !.state = "consumed", !.by = c])

Cancel ==
    CASE job.state = "absent" -> Error(404)
      [] job.state \in {"queued", "succeeded"} -> Ok(session, [job EXCEPT !.state = "cancelled"])
      [] OTHER -> Ok(session, job)

\* The routes: obj() bounds and checks the body of all but submissions and reads.
Route(c, r) ==
    CASE r.op \notin {"clock", "result"} /\ (~r.fields \/ (r.op # "submit" /\ size[c] > FieldLimit)) -> Error(422)
      [] r.op = "clock" -> Ok(session, job)
      [] r.op = "result" -> Result
      [] OTHER -> CASE r.op = "open" -> OpenSession
                    [] r.op \in {"advance", "close"} -> AdvanceSession(r)
                    [] r.op = "heartbeat" -> Heartbeat(r)
                    [] r.op = "submit" -> Submit(r)
                    [] r.op = "consume" -> Consume(c)
                    [] r.op = "cancel" -> Cancel

-----------------------------------------------------------------------------
\* One request.

Total(r) == FoldFunction(LAMBDA x, y : x + y, 0, r.chunks)

Connect(c) ==
    /\ up /\ pc[c] = "idle" /\ tries[c] < MaxTries
    /\ pc' = [pc EXCEPT ![c] = "body"] /\ tries' = [tries EXCEPT ![c] = @ + 1]
    /\ got' = [got EXCEPT ![c] = 0] /\ size' = [size EXCEPT ![c] = 0] /\ status' = [status EXCEPT ![c] = 0]
    /\ UNCHANGED <<up, req, heard, effects, session, job, fresh>>

OverLimit(c, n) == n > Limit

\* One http.request event: counted, then refused, kept, or the last of the body.
ReceiveChunk(c) ==
    /\ up /\ pc[c] = "body" /\ got[c] < Len(req[c].chunks)
    /\ LET n == size[c] + req[c].chunks[got[c] + 1]
       IN  IF OverLimit(c, n)
           THEN /\ status' = [status EXCEPT ![c] = 413] /\ pc' = [pc EXCEPT ![c] = "answer"]
                /\ UNCHANGED <<got, size>>
           ELSE /\ got' = [got EXCEPT ![c] = @ + 1] /\ size' = [size EXCEPT ![c] = n]
                /\ pc' = [pc EXCEPT ![c] = IF got[c] + 1 = Len(req[c].chunks) THEN "replay" ELSE "body"]
                /\ UNCHANGED status
    /\ UNCHANGED <<up, req, tries, heard, effects, session, job, fresh>>

\* Mutant: what has arrived of a body is handed on when the client goes away.
Disconnect_HandOn(c) ==
    /\ up /\ pc[c] = "body"
    /\ pc' = [pc EXCEPT ![c] = "replay"]
    /\ UNCHANGED <<up, req, tries, got, size, status, heard, effects, session, job, fresh>>

\* http.disconnect inside a body: nothing is handed on.
Disconnect(c) ==
    /\ up /\ pc[c] = "body"
    /\ pc' = [pc EXCEPT ![c] = "idle"]
    /\ UNCHANGED <<up, req, tries, got, size, status, heard, effects, session, job, fresh>>

Unauthorized(c) ==
    /\ up /\ pc[c] = "replay" /\ ~req[c].token
    /\ status' = [status EXCEPT ![c] = 401] /\ pc' = [pc EXCEPT ![c] = "answer"]
    /\ UNCHANGED <<up, req, tries, got, size, heard, effects, session, job, fresh>>

\* The replayed body reaches the route; errors become statuses in safe_error.
HandleRequest(c) ==
    /\ up /\ pc[c] = "replay" /\ req[c].token
    /\ LET out == Route(c, req[c])
       IN  /\ status' = [status EXCEPT ![c] = out.status]
           /\ session' = out.session /\ job' = out.job
           /\ effects' = [effects EXCEPT ![c] = IF <<out.session, out.job>> = <<session, job>> THEN @ ELSE @ + 1]
    /\ pc' = [pc EXCEPT ![c] = "answer"]
    /\ UNCHANGED <<up, req, tries, got, size, heard, fresh>>

Answered(c) ==
    /\ pc[c] = "answer"
    /\ heard' = [heard EXCEPT ![c] = status[c]] /\ pc' = [pc EXCEPT ![c] = "over"]
    /\ UNCHANGED <<up, req, tries, got, size, status, effects, session, job, fresh>>

\* The answer is lost, or the client's timeout comes first.
AnswerLost(c) ==
    /\ pc[c] = "answer"
    /\ pc' = [pc EXCEPT ![c] = "idle"]
    /\ UNCHANGED <<up, req, tries, got, size, status, heard, effects, session, job, fresh>>

-----------------------------------------------------------------------------
\* The coordinator behind the routes.

Complete ==
    /\ up /\ job.state = "queued" /\ ~InvalidReason(session, job)
    /\ job' = [job EXCEPT !.state = "succeeded"]
    /\ UNCHANGED <<up, connVars, effects, session, fresh>>

Deadline ==
    /\ up /\ fresh /\ fresh' = FALSE
    /\ job' = IF job.state = "queued" THEN [job EXCEPT !.state = "expired"] ELSE job
    /\ UNCHANGED <<up, connVars, effects, session>>

\* The server has finished what it was handling; lifespan stops the loop and closes.
Shutdown ==
    /\ up /\ \A c \in Clients : pc[c] \notin {"replay", "answer"}
    /\ up' = FALSE
    /\ job' = IF job.state = "queued" THEN [job EXCEPT !.state = "cancelled"] ELSE job
    /\ UNCHANGED <<connVars, effects, session, fresh>>

Next ==
    \/ Complete \/ Deadline \/ Shutdown
    \/ \E c \in Clients : \/ Connect(c) \/ ReceiveChunk(c) \/ Disconnect(c) \/ Unauthorized(c) \/ HandleRequest(c)
                          \/ Answered(c) \/ AnswerLost(c)
Spec == Init /\ [][Next]_vars

-----------------------------------------------------------------------------
\* Properties.

\* "Bound bytes BEFORE downstream JSON parsing, including chunked request bodies": what is
\* buffered never exceeds the bound, and what reaches authentication or a handler is the
\* whole body its client sent, never what had arrived when the client went away.
BoundedAndWhole ==
    \A c \in Clients : /\ size[c] <= Limit
                       /\ pc[c] = "replay" => got[c] = Len(req[c].chunks) /\ size[c] = Total(req[c])

\* A client without an answer may repeat an advance, a submission, a claim or a
\* cancellation: the coordinator is changed once at most, whoever else calls in between,
\* and work that was submitted or cancelled is never denied by a later answer.
RetryAppliesOnce ==
    \A c \in Clients :
        /\ req[c].op \in {"advance", "close", "submit", "consume", "cancel"} => effects[c] <= 1
        /\ req[c].op \in {"submit", "cancel"} /\ effects[c] > 0 => heard[c] \in {0, 200}
=============================================================================
