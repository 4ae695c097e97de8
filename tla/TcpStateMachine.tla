-------------------------- MODULE TcpStateMachine --------------------------
(***************************************************************************)
(* smoltcp's TCP socket, as far as this code depends on it (external): its *)
(* state, its peer and how much of what it has to send besides data        *)
(* (SYN+ACK, then FIN) has left.  A peer cannot acknowledge what was not   *)
(* sent, and smoltcp discards such a segment.                              *)
(*                                                                         *)
(* A definition X_how placed just before X is a faulty form of X, against  *)
(* which the strength of a property is tested; nothing uses it.            *)
(***************************************************************************)

CONSTANT NoPeer   \* the peer of a socket that has none

SocketState == {"Listen", "SynReceived", "Established", "CloseWait", "LastAck",
                "FinWait1", "FinWait2", "Closing", "TimeWait", "Closed"}

is_open(s) == s.state \notin {"Closed", "TimeWait"}

close(s) ==
    [s EXCEPT !.state = CASE @ = "Listen" -> "Closed"
                          [] @ \in {"SynReceived", "Established"} -> "FinWait1"
                          [] @ = "CloseWait" -> "LastAck"
                          [] OTHER -> @]

CloseIfOpen_abort(s) == IF is_open(s) THEN [s EXCEPT !.state = "Closed"] ELSE s

(* What poll_shutdown and Drop of WayTcpStream do to their socket. *)
CloseIfOpen(s) == IF is_open(s) THEN close(s) ELSE s

(* Socket::accepts: a listener takes only a SYN, any other socket only     *)
(* segments of its own peer.                                               *)
accepts(s, p) ==
    /\ s.state # "Closed"
    /\ s.dst = p.dst
    /\ IF s.peer = NoPeer THEN p.flag = "syn" ELSE s.peer = p.src

(* A reset returns a socket in the handshake to listening, and closes any other. *)
OnReset(s) ==
    [s EXCEPT !.state = IF @ = "SynReceived" THEN "Listen" ELSE "Closed",
              !.peer = NoPeer,
              !.sent = "nothing"]

(* The peer acknowledges the SYN+ACK ("ack"), or the FIN ("ack_fin"). *)
OnAck(s) ==
    IF s.state = "SynReceived" /\ s.sent = "syn"
    THEN [s EXCEPT !.state = "Established"] ELSE s

OnAckOfFin(s) ==
    IF s.sent # "fin" THEN s
    ELSE [s EXCEPT !.state = CASE @ = "FinWait1" -> "FinWait2"
                               [] @ = "Closing" -> "TimeWait"
                               [] @ = "LastAck" -> "Closed"
                               [] OTHER -> @,
                   !.peer = IF s.state = "LastAck" THEN NoPeer ELSE @]

OnFin(s) ==
    IF s.sent = "nothing" THEN s
    ELSE [s EXCEPT !.state = CASE @ \in {"SynReceived", "Established"} -> "CloseWait"
                               [] @ = "FinWait1" -> "Closing"
                               [] @ = "FinWait2" -> "TimeWait"
                               [] OTHER -> @]

(* Socket::process, for a segment the socket accepts *)
process(s, p) ==
    CASE p.flag = "syn" -> IF s.state = "Listen"
                           THEN [s EXCEPT !.state = "SynReceived", !.peer = p.src]
                           ELSE s
      [] p.flag = "rst" -> OnReset(s)
      [] p.flag = "ack" -> OnAck(s)
      [] p.flag = "ack_fin" -> OnAckOfFin(s)
      [] OTHER -> OnFin(s)

(* Socket::dispatch: what the egress half of a poll does to one socket;    *)
(* `expired` says that its TIME-WAIT delay has elapsed.                    *)
dispatched(s, expired) ==
    CASE s.state = "SynReceived" -> [s EXCEPT !.sent = "syn"]
      [] s.state \in {"FinWait1", "LastAck", "Closing"} -> [s EXCEPT !.sent = "fin"]
      [] s.state = "TimeWait" /\ expired ->
             [s EXCEPT !.state = "Closed", !.peer = NoPeer, !.sent = "nothing"]
      [] OTHER -> s
=============================================================================
