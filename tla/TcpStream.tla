----------------------------- MODULE TcpStream -----------------------------
(***************************************************************************)
(* The data path of one established WayTcpStream: poll_read, poll_write,   *)
(* poll_shutdown and Drop against the runner's loop (module PollLoop) and  *)
(* the peer, the application behind the intercepted interface.             *)
(*                                                                         *)
(* Bytes are counted from the start of the connection.  A packet carries   *)
(* its sender's counts, as TCP's cumulative sequence and acknowledgement   *)
(* numbers do, so that of the packets one poll takes the newest tells all. *)
(* Which packets a channel holds is not kept: the last one out of a        *)
(* channel is the last one sent, an earlier one says any part of that.  A  *)
(* packet that finds the ingress channel full is not sent: retransmission  *)
(* is left to the TCP at both ends.                                        *)
(*                                                                         *)
(* A call holds the core mutex until it returns or is about to notify the  *)
(* runner, which is a step of its own.                                     *)
(*                                                                         *)
(* A definition X_how placed just before X is a faulty form of X, against  *)
(* which the strength of a property is tested; nothing uses it.            *)
(***************************************************************************)
EXTENDS PollLoop, TcpStateMachine

CONSTANTS
    tcp_buffer_size,   \* of the receive and of the transmit buffer
    MaxIn, MaxOut      \* bounds on the bytes the peer sends and the application writes

ASSUME StreamAssumption == tcp_buffer_size \in Nat \ {0} /\ {MaxIn, MaxOut} \subseteq Nat

VARIABLES
    load,       \* the bounds of this behaviour
    stream,     \* the WayTcpStream: "held", "dropped", or its socket "reaped"
    sock,       \* the socket's state
    rcvd,       \* bytes of the peer taken into the receive buffer
    read,       \* bytes returned by poll_read
    eof,        \* poll_read has reported the end
    written,    \* bytes taken by poll_write
    acked,      \* bytes acknowledged, and gone from the transmit buffer
    told,       \* what the socket last sent
    peer,       \* what the peer has sent and received
    reader, writer,          \* the task in poll_read, in poll_write or poll_shutdown
    read_woken, write_woken, \* its waker has been woken
    rx_waker, tx_waker       \* its waker is registered with the socket

readVars  == <<read, eof, reader, read_woken, rx_waker>>
writeVars == <<written, writer, write_woken, tx_waker>>
sockVars  == <<sock, rcvd, acked, told>>
streamVars == <<load, stream, sockVars, readVars, writeVars, peer>>
allVars == <<vars, streamVars>>

(* The handshake is over. *)
Socket == [peer : {"peer", NoPeer}, state : SocketState \ {"Listen", "SynReceived"},
           sent : {"nothing", "syn", "fin"}]

(* From the peer: data up to seq, data up to ack received, a FIN or a      *)
(* reset sent, the FIN received.                                           *)
Segment == [seq : Nat, fin : BOOLEAN, rst : BOOLEAN, ack : Nat, ack_fin : BOOLEAN]

(* To the peer: data up to seq, the FIN, and the edge of the window, the   *)
(* last byte the peer may send.                                            *)
Reply == [seq : Nat, fin : BOOLEAN, edge : Nat]

(* said: what it last sent; got, end, edge: what it has received. *)
Peer == [said : Segment, got : Nat, end : BOOLEAN, edge : Nat]

StreamTypeOK ==
    /\ TypeOK /\ stream \in {"held", "dropped", "reaped"}
    /\ sock \in Socket /\ load \in [in : Nat, out : Nat]
    /\ {rcvd, read, written, acked} \subseteq Nat
    /\ rcvd - read \in 0 .. tcp_buffer_size
    /\ written - acked \in 0 .. tcp_buffer_size /\ told \in Reply
    /\ peer \in Peer /\ reader \in {"idle", "notify", "pending"}
    /\ writer \in {"idle", "notify", "pending", "closing"}
    /\ eof \in BOOLEAN
    /\ read_woken \in BOOLEAN /\ rx_waker \in BOOLEAN
    /\ write_woken \in BOOLEAN /\ tx_waker \in BOOLEAN

Nothing == [seq |-> 0, fin |-> FALSE, rst |-> FALSE, ack |-> 0, ack_fin |-> FALSE]

(* Data in one direction at a time: the application makes only the calls   *)
(* for that one, besides shutdown and drop.                                *)
StreamInit ==
    /\ Init
    /\ load \in {[in |-> MaxIn, out |-> 0], [in |-> 0, out |-> MaxOut]}
    /\ stream = "held" /\ sock = [peer |-> "peer", state |-> "Established", sent |-> "syn"]
    /\ rcvd = 0 /\ acked = 0 /\ told = [seq |-> 0, fin |-> FALSE, edge |-> tcp_buffer_size]
    /\ read = 0 /\ eof = FALSE /\ reader = "idle" /\ read_woken = FALSE /\ rx_waker = FALSE
    /\ written = 0 /\ writer = "idle" /\ write_woken = FALSE /\ tx_waker = FALSE
    /\ peer = [said |-> Nothing, got |-> 0, end |-> FALSE, edge |-> tcp_buffer_size]

Larger(m, n) == IF m < n THEN n ELSE m

(***************************************************************************)
(* The peer (external).  It sends within the window, may close and may     *)
(* reset, and acknowledges what it gets.                                   *)
(***************************************************************************)
Acknowledges(seg) == [seg EXCEPT !.ack = peer.got, !.ack_fin = peer.end]

PeerSends(seg) ==
    /\ send_ip_packet /\ UNCHANGED injected
    /\ ~ peer.said.rst /\ Acknowledges(seg) # peer.said
    /\ peer' = [peer EXCEPT !.said = Acknowledges(seg)]
    /\ UNCHANGED <<load, stream, sockVars, readVars, writeVars>>

PeerAcks == PeerSends(peer.said)

PeerWrites ==
    /\ ~ peer.said.fin /\ peer.said.seq < load.in /\ peer.said.seq < peer.edge
    /\ PeerSends([peer.said EXCEPT !.seq = @ + 1])

PeerCloses == PeerSends([peer.said EXCEPT !.fin = TRUE])

(* Not once both sides have closed. *)
PeerResets == ~ (peer.said.fin /\ peer.end) /\ PeerSends([peer.said EXCEPT !.rst = TRUE])

(* What the packet read from the egress channel may be. *)
Oldest ==
    IF egress + scratch_egress = 1 THEN {told}
    ELSE {r \in [seq : peer.got .. told.seq, fin : {FALSE, told.fin}, edge : peer.edge .. told.edge] :
            r.fin => r.seq = told.seq}

PeerReceives ==
    /\ ReadEgress
    /\ \E r \in Oldest :
          peer' = IF peer.said.rst THEN peer
                     ELSE [peer EXCEPT !.got = Larger(@, r.seq), !.end = @ \/ r.fin,
                                       !.edge = Larger(@, r.edge)]
    /\ UNCHANGED <<load, stream, sockVars, readVars, writeVars>>

(***************************************************************************)
(* smoltcp's side of a poll (external).  Wakers are woken by new data, by  *)
(* an acknowledgement and by every change of state, except that the end of *)
(* TIME-WAIT clears them.                                                  *)
(***************************************************************************)
may_send(s) == s.state \in {"Established", "CloseWait"}

may_receive(s) == s.state \in {"Established", "FinWait1", "FinWait2"}

(* The peer knows of no room, and there is some. *)
WindowReopened(s, got) == may_receive(s) /\ told.edge = got /\ read + tcp_buffer_size > got

(* poll_at is PollAt::Now. *)
DueNow ==
    \/ sock.state # "Closed" /\ (told.seq < written \/ dispatched(sock, FALSE) # sock)
    \/ WindowReopened(sock, rcvd)

(* What the newest packet in the device may say. *)
Newest ==
    IF queued = 0 THEN {Nothing}
    ELSE IF ingress = 0 THEN {peer.said}
    ELSE {seg \in [seq : rcvd .. peer.said.seq, fin : {FALSE, peer.said.fin},
                   rst : {FALSE, peer.said.rst},
                   ack : acked .. peer.said.ack, ack_fin : {FALSE, peer.said.ack_fin}] :
            /\ seg.fin => seg.seq = peer.said.seq
            /\ seg.ack_fin => seg.ack = peer.said.ack}

(* Socket::process *)
processed(s, seg) ==
    LET ackd == IF seg.ack_fin THEN OnAckOfFin(s) ELSE s
        find == IF seg.fin THEN OnFin(ackd) ELSE ackd
    IN  IF s.state = "Closed" THEN s ELSE IF seg.rst THEN OnReset(find) ELSE find

wake(r, w) ==
    /\ read_woken' = (read_woken \/ (r /\ rx_waker /\ reader # "idle"))
    /\ write_woken' = (write_woken \/ (w /\ tx_waker /\ writer # "idle"))
    /\ rx_waker' = (rx_waker /\ ~ r) /\ tx_waker' = (tx_waker /\ ~ w)

(* Socket::dispatch may send some of the data that waits, the FIN with the *)
(* last of it, and a window update.                                        *)
Sendable(s) ==
    {r \in {[seq |-> n, fin |-> n = written /\ dispatched(s, FALSE).sent = "fin",
             edge |-> read + tcp_buffer_size] : n \in told.seq .. written} :
        s.state # "Closed" /\ r # told /\ (told.seq < written => r.seq > told.seq)}

(* A window update that opens no closed window may stay unsent. *)
MayKeepSilent(s, got) ==
    \/ s.state = "Closed"
    \/ told.seq = written /\ dispatched(s, FALSE) = s /\ ~ WindowReopened(s, got)

(***************************************************************************)
(* poll_once on the stream's socket, which the post-pass reaps when it is  *)
(* closed and its stream was dropped.                                      *)
(***************************************************************************)
reaped(s) == IF stream = "dropped" /\ s.state = "Closed" THEN "reaped" ELSE stream

PollStream(seg) ==
    LET got   == IF may_receive(sock) THEN Larger(rcvd, seg.seq) ELSE rcvd
        freed == IF sock.state = "Closed" THEN acked ELSE Larger(acked, seg.ack)
        proc  == processed(sock, seg)
        moved == proc.state # sock.state
    IN  /\ \/ Poll(0, 1) /\ told' \in Sendable(proc)
           \/ Poll(0, 0) /\ MayKeepSilent(proc, got) /\ UNCHANGED told
        /\ rcvd' = got /\ acked' = freed
        /\ sock' = IF told'.fin THEN dispatched(proc, FALSE) ELSE proc
        /\ wake(moved \/ got > rcvd, moved \/ freed > acked)
        /\ stream' = reaped(sock')
        /\ UNCHANGED <<load, read, eof, reader, written, writer, peer>>

(* A poll in which the TIME-WAIT delay elapses: what was not read is gone. *)
ExpireTimeWait ==
    /\ Poll(0, 0)
    /\ queued = 0 /\ sock.state = "TimeWait" /\ told.seq = written
    /\ sock' = dispatched(sock, TRUE) /\ rcvd' = read
    /\ rx_waker' = FALSE /\ tx_waker' = FALSE
    /\ stream' = reaped(sock')
    /\ UNCHANGED <<load, acked, told, read, eof, reader, read_woken, written, writer, write_woken, peer>>

StreamRunner ==
    \/ LoopStep /\ (runner = "delay" /\ DueNow => sleep' = "hour") /\ UNCHANGED streamVars
    \/ \E seg \in Newest : PollStream(seg)
    \/ ExpireTimeWait

(***************************************************************************)
(* poll_read, into a buffer that is not empty.                             *)
(***************************************************************************)
Polls(task, woken) == task = "idle" \/ (task = "pending" /\ woken)

ReachedEnd_when_empty == TRUE

(* recv_slice is Finished, or InvalidState on a socket that is not open. *)
ReachedEnd == ~ may_receive(sock)

register_recv_waker_forgotten == UNCHANGED rx_waker

register_recv_waker == rx_waker' = TRUE

poll_read ==
    /\ load.in > 0 /\ stream = "held" /\ Polls(reader, read_woken)
    /\ read_woken' = FALSE
    /\ \/ /\ \E n \in read + 1 .. rcvd : read' = n
          /\ reader' = "idle"
          /\ UNCHANGED <<eof, rx_waker>>
       \/ /\ rcvd = read /\ ReachedEnd
          /\ eof' = TRUE /\ reader' = "idle"
          /\ UNCHANGED <<read, rx_waker>>
       \/ /\ rcvd = read /\ ~ ReachedEnd
          /\ register_recv_waker
          /\ reader' = "notify"
          /\ UNCHANGED <<read, eof>>
    /\ UNCHANGED <<vars, load, stream, sockVars, writeVars, peer>>

Notifies == Nudge /\ UNCHANGED <<load, stream, sockVars, peer>>

NotifyRead ==
    /\ reader = "notify" /\ reader' = "pending"
    /\ Notifies
    /\ UNCHANGED <<read, eof, read_woken, rx_waker, writeVars>>

(* The application drops the read future; its waker stays registered. *)
CancelRead ==
    /\ reader = "pending" /\ reader' = "idle" /\ read_woken' = FALSE
    /\ UNCHANGED <<vars, load, stream, sockVars, read, eof, rx_waker, writeVars, peer>>

(***************************************************************************)
(* poll_write of at least a byte, poll_shutdown and Drop.                  *)
(***************************************************************************)
TxFree_for_one_more == written - acked <= tcp_buffer_size

TxFree == written - acked < tcp_buffer_size

TakesData_while_open == is_open(sock) /\ TxFree

TakesData == may_send(sock) /\ TxFree

register_send_waker_forgotten == UNCHANGED tx_waker

register_send_waker == tx_waker' = TRUE

(* A socket that is open and neither takes data nor may send, after a      *)
(* shutdown, keeps the writer waiting; one that is not open is a broken    *)
(* pipe.                                                                   *)
poll_write ==
    /\ stream = "held" /\ Polls(writer, write_woken)
    /\ written < load.out
    /\ write_woken' = FALSE
    /\ \/ /\ TakesData
          /\ written' = written + 1 /\ writer' = "idle"
          /\ UNCHANGED tx_waker
       \/ /\ ~ TakesData /\ is_open(sock)
          /\ register_send_waker
          /\ writer' = "notify"
          /\ UNCHANGED written
       \/ /\ ~ is_open(sock)
          /\ writer' = "idle"
          /\ UNCHANGED <<written, tx_waker>>
    /\ UNCHANGED <<vars, load, stream, sockVars, readVars, peer>>

NotifyWrite ==
    /\ \/ writer = "notify" /\ writer' = "pending"
       \/ writer = "closing" /\ writer' = "idle"
    /\ Notifies
    /\ UNCHANGED <<readVars, written, write_woken, tx_waker>>

CancelWrite ==
    /\ writer = "pending" /\ writer' = "idle" /\ write_woken' = FALSE
    /\ UNCHANGED <<vars, load, stream, sockVars, readVars, written, tx_waker, peer>>

(* close() changes the state, which wakes both wakers. *)
Closes ==
    /\ stream = "held" /\ writer = "idle"
    /\ sock' = CloseIfOpen(sock)
    /\ wake(sock'.state # sock.state, sock'.state # sock.state)
    /\ writer' = "closing"
    /\ UNCHANGED <<vars, load, rcvd, acked, told, read, eof, reader, written, peer>>

poll_shutdown == Closes /\ UNCHANGED stream

drop_stream == Closes /\ reader = "idle" /\ stream' = "dropped"

ReaderStep == NotifyRead \/ (reader = "pending" /\ poll_read)

WriterStep == NotifyWrite \/ (writer = "pending" /\ poll_write)

StreamNext ==
    \/ StreamRunner
    \/ PeerWrites \/ PeerCloses \/ PeerResets \/ PeerAcks \/ PeerReceives
    \/ NotifyInjected /\ UNCHANGED streamVars
    \/ poll_read \/ NotifyRead \/ CancelRead
    \/ poll_write \/ NotifyWrite \/ CancelWrite
    \/ poll_shutdown \/ drop_stream

StreamSpec == StreamInit /\ [][StreamNext]_allVars

(* The runtime runs ready tasks, sleeps end, egress is read, and the peer  *)
(* acknowledges what it gets.                                              *)
StreamFairSpec ==
    /\ StreamSpec
    /\ WF_vars(StreamRunner) /\ WF_vars(NotifyInjected) /\ WF_vars(ReadEgress)
    /\ WF_peer(PeerAcks) /\ WF_readVars(ReaderStep) /\ WF_writeVars(WriterStep)

(***************************************************************************)
(* Properties.                                                             *)
(***************************************************************************)

(* No wakeup is lost: a read that waits and has not been woken has its     *)
(* waker registered, and there is neither a byte nor the end to report; a  *)
(* write that waits has its waker registered, and there is neither room    *)
(* nor an error to report.                                                 *)
NoLostWakeup ==
    /\ reader # "idle" /\ ~ read_woken => rx_waker /\ rcvd = read /\ ~ ReachedEnd
    /\ writer \in {"notify", "pending"} /\ ~ write_woken => tx_waker /\ ~ TakesData /\ is_open(sock)

(* The peer has reset, or TIME-WAIT is over. *)
Broken == peer.said.rst \/ sock.sent = "nothing"

Inbound == INSTANCE Pipe WITH
    written <- peer.said.seq, read <- read, closed <- peer.said.fin, ended <- eof,
    broken <- Broken

Outbound == INSTANCE Pipe WITH
    written <- written, read <- peer.got, closed <- ~ may_send(sock), ended <- peer.end,
    broken <- peer.said.rst

(* Data read through the stream is what the peer sent, in order and once,  *)
(* and the end of file comes after all of it, unless the peer reset or the *)
(* application let TIME-WAIT pass.                                         *)
InboundPipe == Inbound!Spec

(* What the peer gets is what was written, and the FIN of a shutdown or a  *)
(* drop reaches it after all of it.                                        *)
OutboundPipe == Outbound!Spec

(* The socket of a dropped stream, and with it the data that still waits   *)
(* in its buffer, goes only when the peer has everything that was written  *)
(* and the FIN after it, or has reset.                                     *)
ReapedAfterDelivery ==
    stream = "reaped" => peer.said.rst \/ (peer.end /\ peer.got = written)

(* tcp.rs: data written is delivered to the peer, although poll_write does *)
(* not notify the runner, after a shutdown and after a drop too, unless    *)
(* the peer resets.                                                        *)
WrittenDelivered == peer.got < written ~> peer.got = written \/ peer.said.rst

(* A read that waits returns once the peer has sent something or is done,  *)
(* and so does a write that waits for room.  As data goes in one direction *)
(* only, at most one of the two waits in a behaviour.                      *)
WaitsEnd ==
    \/ reader # "idle" /\ (peer.said.seq > read \/ peer.said.fin \/ peer.said.rst)
    \/ writer \in {"notify", "pending"} /\ may_send(sock)
    ~> reader = "idle" /\ writer \notin {"notify", "pending"}

(* A peer that filled the window can send again once the application has   *)
(* read everything, although poll_read does not notify the runner.         *)
WindowReopens ==
    read = peer.edge ~> peer.edge > read \/ peer.said.rst \/ ~ may_receive(sock)
=============================================================================
