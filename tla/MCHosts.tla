------------------------------- MODULE MCHosts ------------------------------
(***************************************************************************)
(* Instances of Hosts for TLC.  A part that does not run starts in one of  *)
(* its initial states.                                                     *)
(***************************************************************************)
EXTENDS Hosts

\* Every route, and bodies that are split, too large, unauthenticated or malformed.
Call(op) == [op |-> op, token |-> TRUE, chunks |-> <<1>>, fields |-> TRUE, epoch |-> 0, buffer |-> 1]
Routes ==
    {Call(op) : op \in {"open", "advance", "close", "heartbeat", "submit", "result", "consume", "cancel", "clock"}}
    \cup {[Call("submit") EXCEPT !.chunks = <<1, 2>>], [Call("submit") EXCEPT !.chunks = <<2, 2, 0>>],
          [Call("submit") EXCEPT !.epoch = 1], [Call("cancel") EXCEPT !.chunks = <<3>>],
          [Call("advance") EXCEPT !.token = FALSE], [Call("consume") EXCEPT !.fields = FALSE]}

\* A historical result of the first epoch and a policy proposal of the second, whose
\* consumer bounds its use itself.
Result(e, d, cur, cap, age, unc, p) ==
    [epoch |-> e, clock |-> "server", snapshot |-> cap, deadline |-> d, current |-> cur, capture |-> cap,
     age |-> age, uncertainty |-> unc, policy |-> p]
Results == [still |-> Result(0, 2, FALSE, 0, 0, 0, FALSE), act |-> Result(1, 5, TRUE, 1, 5, 1, TRUE)]

\* A watch, a frame, its cancellation and a question at one instant; a bounded prefix;
\* refused sources.
Task(kind, at, index, id) == [kind |-> kind, at |-> at, index |-> index, id |-> id]
Video(frames, tasks, max, hashed) == [frames |-> frames, tasks |-> tasks, maximum |-> max, hashed |-> hashed]
Refused == Video(<<0>>, {}, 9, FALSE)
Videos ==
    {Video(<<0, 1>>, {Task("watch", 0, 0, 7), Task("ask", 1, 2, 8), Task("cancel", 1, 1, 7), Task("ask", 4, 3, 9)}, 9, TRUE),
     Video(<<0, 1, 2>>, {Task("ask", 0, 1, 1)}, 1, TRUE), Video(<<1, 1>>, {}, 9, TRUE), Refused}

-----------------------------------------------------------------------------
MCInit ==
    /\ part \in Parts
    /\ part # "sidecar" => session = Server!NoSession /\ req = [c \in Clients |-> Call("clock")]
    /\ part # "delivery" => now = 0 /\ local = Offset
    /\ part # "bridge" => source = Refused /\ deterministic = TRUE
    /\ Init

MCSpec == MCInit /\ [][Next]_vars
=============================================================================
