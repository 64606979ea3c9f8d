-------------------------------- MODULE Stream --------------------------------
(***************************************************************************)
(* What a TCP connection promises its user, tcp_command: after it is       *)
(* opened, bytes are appended to the received stream until the peer ends   *)
(* it; the connection is done only when the stream has ended, and may fail *)
(* at any time.  Tcp implements this, and TcpTransfer is built on it.      *)
(***************************************************************************)
EXTENDS Naturals, Sequences

CONSTANTS
    Chunks,     \* the sequences of bytes that may arrive at once
    Capacity    \* bytes a stream may have

VARIABLES status, received, ended

vars == <<status, received, ended>>

Init == status = "idle" /\ received = <<>> /\ ended = FALSE

\* tcp_start: a new stream, or a failure when the request is invalid.
Open(valid) ==
    /\ status # "open"
    /\ status' = IF valid THEN "open" ELSE "failed"
    /\ received' = <<>> /\ ended' = FALSE

\* tcp_input: new bytes, and perhaps the end of the stream.
Deliver(chunk, last) ==
    /\ status = "open" /\ ~ ended
    /\ Len(received) + Len(chunk) <= Capacity
    /\ received' = received \o chunk /\ ended' = last
    /\ UNCHANGED status

\* tcp_tick: both directions are closed.
Complete ==
    /\ status = "open" /\ ended
    /\ status' = "done"
    /\ UNCHANGED <<received, ended>>

\* tcp_abort, a reset by the peer, a deadline or a retransmission limit.
Fail ==
    /\ status # "idle"
    /\ status' = "failed"
    /\ UNCHANGED <<received, ended>>

Next == \/ Fail
        \/ Complete
        \/ \E valid \in BOOLEAN : Open(valid)
        \/ \E chunk \in Chunks, last \in BOOLEAN : Deliver(chunk, last)

Spec == Init /\ [][Next]_vars
=============================================================================
