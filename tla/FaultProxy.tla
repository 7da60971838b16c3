----------------------------- MODULE FaultProxy -----------------------------
(***************************************************************************)
(* tools/r4_real_proxy.py: a threaded loopback proxy that forwards each    *)
(* request upstream once, drops the first responses it was told to drop    *)
(* and keeps a record of every request it read.  Every request has its own *)
(* handler thread; the threads share one counter, without a lock.  A write *)
(* that returned put its bytes into the socket's buffer: the client may    *)
(* read them later, or have left, after its timeout, before it does.       *)
(***************************************************************************)
EXTENDS Integers, FiniteSets

CONSTANTS
    Requests,      \* one handler thread each
    DropCount      \* --drop-count

ProxyAssumption == IsFiniteSet(Requests) /\ DropCount \in Nat

VARIABLES
    pc,            \* where each handler is
    bounded,       \* requests whose declared length is acceptable
    dropRemaining, \* ProxyState.drop_remaining, shared
    read,          \* the value a handler's -= read
    drop,          \* what each handler decided
    upstream,      \* external: "none", "answered" or "failed"
    written,       \* requests whose response was written: wfile.write returned
    client,        \* what each client has: "waiting", "answered", "refused", "closed"; "gone" if it left
    log            \* request -> disposition written, "none" before

vars == <<pc, bounded, dropRemaining, read, drop, upstream, written, client, log>>

TypeOK ==
    /\ pc \in [Requests -> {"idle", "decide", "load", "store", "forward", "respond", "record", "return", "done"}]
    /\ bounded \subseteq Requests /\ dropRemaining \in Int /\ read \in [Requests -> Int] /\ drop \subseteq Requests
    /\ upstream \in [Requests -> {"none", "answered", "failed"}]
    /\ written \subseteq Requests
    /\ client \in [Requests -> {"waiting", "answered", "refused", "closed", "gone"}]
    /\ log \in [Requests -> {"none", "dropped_after_upstream", "forwarded", "proxy_error"}]

Init ==
    /\ pc = [r \in Requests |-> "idle"] /\ bounded \in SUBSET Requests /\ dropRemaining = DropCount
    /\ read = [r \in Requests |-> 0] /\ drop = {} /\ upstream = [r \in Requests |-> "none"]
    /\ written = {} /\ client = [r \in Requests |-> "waiting"] /\ log = [r \in Requests |-> "none"]

Goto(r, label) == pc' = [pc EXCEPT ![r] = label]

\* do_POST starts: an unbounded body is refused and leaves no record.
Accept(r) ==
    /\ pc[r] = "idle"
    /\ IF r \in bounded THEN Goto(r, "decide") /\ UNCHANGED client
                        ELSE Goto(r, "done") /\ client' = [client EXCEPT ![r] = "refused"]
    /\ UNCHANGED <<bounded, dropRemaining, read, drop, upstream, written, log>>

Decide(r) ==
    /\ pc[r] = "decide"
    /\ IF dropRemaining > 0 THEN drop' = drop \cup {r} /\ Goto(r, "load") ELSE Goto(r, "forward") /\ UNCHANGED drop
    /\ UNCHANGED <<bounded, dropRemaining, read, upstream, written, client, log>>

\* drop_remaining -= 1 reads and writes the counter in two steps of the interpreter.
Load(r) ==
    /\ pc[r] = "load" /\ Goto(r, "store") /\ read' = [read EXCEPT ![r] = dropRemaining]
    /\ UNCHANGED <<bounded, dropRemaining, drop, upstream, written, client, log>>
Decrement(r) ==
    /\ pc[r] = "store" /\ Goto(r, "forward") /\ dropRemaining' = read[r] - 1
    /\ UNCHANGED <<bounded, read, drop, upstream, written, client, log>>

\* The one upstream call: an answer, with any status, or a transport error.
Forward(r) ==
    /\ pc[r] = "forward"
    /\ \/ upstream' = [upstream EXCEPT ![r] = "answered"] /\ Goto(r, "respond")
       \/ upstream' = [upstream EXCEPT ![r] = "failed"] /\ Goto(r, "record")
    /\ UNCHANGED <<bounded, dropRemaining, read, drop, written, client, log>>

\* Mutant: a dropped connection is closed at once, and recorded after that.
Respond_ClosesFirst(r) ==
    /\ pc[r] = "respond" /\ Goto(r, "record")
    /\ client' = [client EXCEPT ![r] = IF r \in drop /\ @ = "waiting" THEN "closed" ELSE @]
    /\ written' = IF r \in drop THEN written ELSE written \cup {r}
    /\ UNCHANGED <<bounded, dropRemaining, read, drop, upstream, log>>

\* The response is withheld, or written after --delay-ms, or its write raises.
Respond(r) ==
    /\ pc[r] = "respond" /\ Goto(r, "record")
    /\ \/ r \notin drop /\ written' = written \cup {r}
       \/ UNCHANGED written
    /\ UNCHANGED <<bounded, dropRemaining, read, drop, upstream, client, log>>

Disposition(r) ==
    CASE r \in drop /\ upstream[r] = "answered" -> "dropped_after_upstream"
      [] r \in written -> "forwarded"
      [] OTHER -> "proxy_error"

\* Mutant: only a request that was answered or dropped is recorded, not one that failed.
WriteRecord_NotErrors(r) ==
    /\ pc[r] = "record" /\ Goto(r, "return")
    /\ log' = IF Disposition(r) = "proxy_error" THEN log ELSE [log EXCEPT ![r] = Disposition(r)]
    /\ UNCHANGED <<bounded, dropRemaining, read, drop, upstream, written, client>>

\* finally: the record is written before the handler returns ...
WriteRecord(r) ==
    /\ pc[r] = "record" /\ Goto(r, "return")
    /\ log' = [log EXCEPT ![r] = Disposition(r)]
    /\ UNCHANGED <<bounded, dropRemaining, read, drop, upstream, written, client>>

\* ... and the server closes the connection after it did; what was written can still be read.
Return(r) ==
    /\ pc[r] = "return" /\ Goto(r, "done")
    /\ client' = [client EXCEPT ![r] = IF @ = "waiting" /\ r \notin written THEN "closed" ELSE @]
    /\ UNCHANGED <<bounded, dropRemaining, read, drop, upstream, written, log>>

-----------------------------------------------------------------------------
\* The clients.

Receive(r) ==
    /\ client[r] = "waiting" /\ r \in written
    /\ client' = [client EXCEPT ![r] = "answered"]
    /\ UNCHANGED <<pc, bounded, dropRemaining, read, drop, upstream, written, log>>

\* The client's own timeout, whatever the proxy is doing with its request.
ClientLeaves(r) ==
    /\ client[r] = "waiting" /\ pc[r] # "idle"
    /\ client' = [client EXCEPT ![r] = "gone"]
    /\ UNCHANGED <<pc, bounded, dropRemaining, read, drop, upstream, written, log>>

-----------------------------------------------------------------------------
Handler(r) ==
    Accept(r) \/ Decide(r) \/ Load(r) \/ Decrement(r) \/ Forward(r) \/ Respond(r) \/ WriteRecord(r) \/ Return(r)
Next == \E r \in Requests : Handler(r) \/ Receive(r) \/ ClientLeaves(r)

\* The proxy's threads run on; nothing makes a client read, or wait.
Spec == Init /\ [][Next]_vars /\ \A r \in Requests : WF_vars(Handler(r))

-----------------------------------------------------------------------------
\* Properties.

\* A loss the proxy injected can be reconciled: when a client sees its connection closed
\* without a response, the record, with the generation ID if upstream answered, is in the log.
LossIsRecorded == \A r \in Requests : client[r] = "closed" => log[r] # "none"

\* Every request the proxy read is recorded in the end, upstream errors and clients that left
\* included, and the record does not contradict what its client saw: a client that has the
\* response is recorded as forwarded, one whose connection was closed on it is not.  Of a
\* client that left by itself "forwarded" tells only that the write did not raise.
EveryRequestRecorded ==
    \A r \in Requests :
        r \in bounded => <>[](/\ log[r] # "none"
                             /\ (client[r] = "answered" => log[r] = "forwarded")
                             /\ (client[r] = "closed" => log[r] # "forwarded"))

\* The proxy "drops a bounded number of responses": no more than it was told to.
DropsBounded == Cardinality({r \in Requests : log[r] = "dropped_after_upstream"}) <= DropCount
=============================================================================
