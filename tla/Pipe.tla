-------------------------------- MODULE Pipe --------------------------------
(***************************************************************************)
(* What one direction of a TCP connection promises, byte by byte counted:  *)
(* what is written is read in order and once, nothing is written after the *)
(* close, and the reader sees the end only when it has read everything     *)
(* written before the close, or when the connection was reset.             *)
(***************************************************************************)
EXTENDS Integers

VARIABLES
    written,   \* bytes written
    read,      \* bytes read
    closed,    \* the writer is done
    ended,     \* the reader has seen the end
    broken     \* the connection was reset

vars == <<written, read, closed, ended, broken>>

Init == written = 0 /\ read = 0 /\ closed = FALSE /\ ended = FALSE /\ broken = FALSE

Write ==
    /\ ~ closed
    /\ written' > written
    /\ UNCHANGED <<read, closed, ended, broken>>

Read ==
    /\ ~ ended
    /\ read <= read' /\ read' <= written
    /\ ended' => broken \/ (closed /\ read' = written)
    /\ UNCHANGED <<written, closed, broken>>

Close == closed' = TRUE /\ UNCHANGED <<written, read, ended, broken>>

Break == broken' = TRUE /\ UNCHANGED <<written, read, closed, ended>>

Next == Write \/ Read \/ Close \/ Break

Spec == Init /\ [][Next]_vars
=============================================================================
