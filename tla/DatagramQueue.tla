--------------------------- MODULE DatagramQueue ---------------------------
(***************************************************************************)
(* What a UDP session's receive queue promises: a FIFO that can be closed  *)
(* once, takes nothing after that, and reports the end only when closed.   *)
(***************************************************************************)
EXTENDS Integers, Sequences

CONSTANT Datagram

VARIABLES
    buffer,   \* datagrams pushed and not yet received
    closed,   \* the session was reaped or dropped
    ended     \* some recv has returned None

vars == <<buffer, closed, ended>>

Init == buffer = <<>> /\ closed = FALSE /\ ended = FALSE

Push(d) ==
    /\ ~ closed
    /\ buffer' = Append(buffer, d)
    /\ UNCHANGED <<closed, ended>>

Take ==
    /\ buffer # <<>>
    /\ buffer' = Tail(buffer)
    /\ UNCHANGED <<closed, ended>>

Close == closed' = TRUE /\ UNCHANGED <<buffer, ended>>

End == closed /\ ended' = TRUE /\ UNCHANGED <<buffer, closed>>

Next == (\E d \in Datagram : Push(d)) \/ Take \/ Close \/ End

Spec == Init /\ [][Next]_vars
=============================================================================
