-------------------------- MODULE TcpStreamProofs --------------------------
(***************************************************************************)
(* One WayTcpStream, for buffers and channels of any size and any amount   *)
(* of data: a task that waits in poll_read or poll_write is woken when it  *)
(* could go on, and each direction of the stream implements module Pipe.   *)
(***************************************************************************)
EXTENDS TcpStream, PollLoopProofs

(***************************************************************************)
(* The inductive invariant.                                                *)
(***************************************************************************)

(* The FIN is sent only when no more data can be written, and only a       *)
(* socket that was reset has nothing sent.                                 *)
SockInv(s) ==
    /\ s.sent = "fin" => ~ may_send(s)
    /\ s.sent = "nothing" => s.state = "Closed"

(* What is read was received, what was received was sent, and the peer     *)
(* sent no more than the window it was told.  A socket that receives       *)
(* nothing more has everything, or is broken.                              *)
InOrder ==
    /\ rcvd <= peer.said.seq
    /\ peer.said.seq <= peer.edge /\ peer.edge <= told.edge /\ told.edge <= read + tcp_buffer_size
    /\ ~ may_receive(sock) => Broken \/ (peer.said.fin /\ rcvd = peer.said.seq)
    /\ eof => rcvd = read /\ ~ may_receive(sock)

(* What is acknowledged was got, what was got was sent, what was sent was  *)
(* written; the FIN comes after all of it and closes the way.              *)
OutOrder ==
    /\ acked <= peer.said.ack /\ peer.said.ack <= peer.got
    /\ peer.got <= told.seq /\ told.seq <= written
    /\ told.fin => told.seq = written /\ ~ may_send(sock)
    /\ peer.end => peer.got = written /\ ~ may_send(sock)

IInv == StreamTypeOK /\ SockInv(sock) /\ InOrder /\ OutOrder /\ NoLostWakeup

(* What a buffer holds, from its two positions. *)
LEMMA WithinBuffer ==
    ASSUME NEW m \in Nat, NEW n \in Nat, NEW b \in Nat, m <= n, n <= m + b
    PROVE  n - m \in 0 .. b
OBVIOUS

(* Taking from a buffer leaves it within its size. *)
LEMMA StaysWithin ==
    ASSUME NEW m \in Nat, NEW k \in Nat, NEW n \in Nat, NEW b \in Nat,
           m <= k, k <= n, n <= m + b
    PROVE  n - k \in 0 .. b
OBVIOUS

(***************************************************************************)
(* The socket.                                                             *)
(***************************************************************************)

(* Processing a packet ends sending or receiving, never resumes it; only a *)
(* FIN or a reset ends receiving, only a reset forgets what was sent.      *)
LEMMA ProcessedFacts ==
    ASSUME NEW s \in Socket, SockInv(s), NEW seg \in Segment
    PROVE  /\ processed(s, seg) \in Socket
           /\ SockInv(processed(s, seg))
           /\ may_send(processed(s, seg)) => may_send(s)
           /\ may_receive(processed(s, seg)) => may_receive(s)
           /\ may_receive(s) => may_receive(processed(s, seg)) \/ seg.fin \/ seg.rst
           /\ processed(s, seg).sent = "nothing" => s.sent = "nothing" \/ seg.rst
           /\ s.state = "Closed" => processed(s, seg) = s
<1> DEFINE ackd == IF seg.ack_fin THEN OnAckOfFin(s) ELSE s
           find == IF seg.fin THEN OnFin(ackd) ELSE ackd
<1>1. /\ ackd \in Socket /\ SockInv(ackd) /\ ackd.sent = s.sent
      /\ may_send(ackd) <=> may_send(s)
      /\ may_receive(ackd) <=> may_receive(s)
    BY Zenon DEF Socket, SocketState, SockInv, may_send, may_receive, OnAckOfFin
<1> HIDE DEF ackd
<1>2. /\ find \in Socket /\ SockInv(find) /\ find.sent = ackd.sent
      /\ may_send(find) <=> may_send(ackd)
      /\ may_receive(find) => may_receive(ackd)
      /\ may_receive(ackd) => may_receive(find) \/ seg.fin
    BY <1>1 DEF Socket, SocketState, SockInv, may_send, may_receive, OnFin
<1> HIDE DEF find
<1>3. /\ OnReset(find) \in Socket /\ SockInv(OnReset(find))
      /\ ~ may_send(OnReset(find)) /\ ~ may_receive(OnReset(find))
    BY Zenon, <1>2 DEF Socket, SocketState, SockInv, may_send, may_receive, OnReset
<1>4. processed(s, seg) = IF s.state = "Closed" THEN s ELSE IF seg.rst THEN OnReset(find) ELSE find
    BY DEF processed, find, ackd
<1> QED BY <1>1, <1>2, <1>3, <1>4

(* Sending changes no state, and forgets nothing. *)
LEMMA DispatchedFacts ==
    ASSUME NEW s \in Socket, SockInv(s)
    PROVE  /\ dispatched(s, FALSE) \in Socket
           /\ SockInv(dispatched(s, FALSE))
           /\ dispatched(s, FALSE).state = s.state
           /\ dispatched(s, FALSE).sent = "nothing" <=> s.sent = "nothing"
    BY DEF Socket, SocketState, SockInv, may_send, dispatched

(* Nothing can be written after close, what can be read still can. *)
LEMMA CloseFacts ==
    ASSUME NEW s \in Socket, SockInv(s)
    PROVE  /\ CloseIfOpen(s) \in Socket
           /\ SockInv(CloseIfOpen(s))
           /\ ~ may_send(CloseIfOpen(s))
           /\ may_receive(CloseIfOpen(s)) <=> may_receive(s)
           /\ CloseIfOpen(s).sent = s.sent
    BY DEF Socket, SocketState, SockInv, may_send, may_receive, is_open, close, CloseIfOpen

(***************************************************************************)
(* The invariant is kept: the peer.                                        *)
(***************************************************************************)

(* What the peer says next says at least what it said before. *)
LEMMA PeerSendsKeeps ==
    ASSUME IInv, NEW seg \in Segment, PeerSends(seg),
           peer.said.seq <= seg.seq, seg.seq <= peer.edge,
           peer.said.fin => seg.fin /\ seg.seq = peer.said.seq
    PROVE  IInv'
<1> DEFINE said == Acknowledges(seg)
<1>1. /\ said \in Segment /\ said.seq = seg.seq /\ said.fin = seg.fin /\ said.rst = seg.rst
      /\ said.ack = peer.got /\ said.ack_fin = peer.end
    BY Zenon DEF IInv, StreamTypeOK, Peer, Segment, Acknowledges
<1> HIDE DEF said
<1>2. peer' = [peer EXCEPT !.said = said] /\ ~ peer.said.rst
    BY DEF PeerSends, said
<1>3. /\ peer' \in Peer /\ peer'.said = said /\ peer'.got = peer.got
      /\ peer'.end = peer.end /\ peer'.edge = peer.edge
    BY <1>1, <1>2 DEF IInv, StreamTypeOK, Peer
<1>4. TypeOK'
  <2>1. send_ip_packet /\ injected' = injected
    BY DEF PeerSends
  <2> QED BY <2>1, InjectTypes DEF IInv, StreamTypeOK, TypeOK
<1>5. UNCHANGED <<load, stream, sockVars, readVars, writeVars>>
    BY DEF PeerSends
<1> USE <1>5 DEF sockVars, readVars, writeVars
<1>6. StreamTypeOK'
    BY <1>3, <1>4 DEF IInv, StreamTypeOK
<1>7. SockInv(sock)'
    BY DEF IInv, SockInv, may_send
<1>8. InOrder'
    BY <1>1, <1>2, <1>3 DEF IInv, InOrder, StreamTypeOK, Peer, Segment, Broken, may_receive
<1>9. OutOrder'
    BY <1>1, <1>3 DEF IInv, OutOrder, StreamTypeOK, Peer, Segment, Reply, may_send
<1>10. NoLostWakeup'
    BY DEF IInv, NoLostWakeup, ReachedEnd, may_receive, TakesData, TxFree, may_send, is_open
<1> QED BY <1>6, <1>7, <1>8, <1>9, <1>10 DEF IInv

(* Every packet of the peer does. *)
LEMMA PeerStepKeeps ==
    ASSUME IInv, PeerWrites \/ PeerCloses \/ PeerResets \/ PeerAcks
    PROVE  IInv'
<1>1. peer.said \in Segment /\ peer.edge \in Nat /\ peer.said.seq <= peer.edge
    BY DEF IInv, InOrder, StreamTypeOK, Peer
<1>2. CASE PeerWrites
  <2>1. [peer.said EXCEPT !.seq = @ + 1] \in Segment
    BY <1>1 DEF Segment
  <2>2. peer.said.seq < peer.edge /\ ~ peer.said.fin
    BY <1>2 DEF PeerWrites
  <2> QED BY <1>1, <1>2, <2>1, <2>2, PeerSendsKeeps DEF PeerWrites, Segment
<1>3. CASE PeerCloses
  <2>1. [peer.said EXCEPT !.fin = TRUE] \in Segment
    BY Zenon, <1>1 DEF Segment
  <2> QED BY <1>1, <1>3, <2>1, PeerSendsKeeps DEF PeerCloses, Segment
<1>4. CASE PeerResets
  <2>1. [peer.said EXCEPT !.rst = TRUE] \in Segment
    BY Zenon, <1>1 DEF Segment
  <2> QED BY <1>1, <1>4, <2>1, PeerSendsKeeps DEF PeerResets, Segment
<1>5. CASE PeerAcks
    BY <1>1, <1>5, PeerSendsKeeps DEF PeerAcks, Segment
<1> QED BY <1>2, <1>3, <1>4, <1>5

(* The peer receives part of what was sent, and its end last. *)
LEMMA ReceivedFacts ==
    ASSUME IInv, PeerReceives
    PROVE  /\ peer' \in Peer /\ peer'.said = peer.said
           /\ peer.got <= peer'.got /\ peer'.got <= told.seq
           /\ peer.edge <= peer'.edge /\ peer'.edge <= told.edge
           /\ peer'.end => peer.end \/ (told.fin /\ peer'.got = told.seq)
           /\ peer.end => peer'.end
<1>1. PICK r \in Oldest :
         peer' = IF peer.said.rst THEN peer
                 ELSE [peer EXCEPT !.got = Larger(@, r.seq), !.end = @ \/ r.fin,
                                   !.edge = Larger(@, r.edge)]
    BY Zenon DEF PeerReceives
<1> told \in Reply /\ peer \in Peer /\ peer.got \in Nat /\ peer.edge \in Nat
    BY DEF IInv, StreamTypeOK, Peer
<1>2. /\ r \in Reply /\ r.seq <= told.seq /\ r.edge <= told.edge
      /\ r.fin => told.fin /\ r.seq = told.seq
  <2>1. CASE r = told
    BY <2>1 DEF Reply
  <2>2. CASE r # told
    <3>1. /\ r \in [seq : peer.got .. told.seq, fin : {FALSE, told.fin}, edge : peer.edge .. told.edge]
          /\ r.fin => r.seq = told.seq
        BY Zenon, <2>2 DEF Oldest
    <3>2. r.fin \in BOOLEAN /\ (r.fin => told.fin)
        BY Zenon, <3>1 DEF Reply
    <3> QED BY <3>1, <3>2 DEF Reply
  <2> QED BY <2>1, <2>2
<1>3. peer.got <= told.seq /\ peer.edge <= told.edge
    BY DEF IInv, OutOrder, InOrder
<1>4. CASE peer.said.rst
    BY <1>1, <1>3, <1>4 DEF Peer
<1>5. CASE ~ peer.said.rst
  <2> DEFINE got == Larger(peer.got, r.seq)  end == peer.end \/ r.fin  edge == Larger(peer.edge, r.edge)
  <2>1. /\ got \in Nat /\ peer.got <= got /\ got <= told.seq /\ (r.fin => got = told.seq)
        /\ edge \in Nat /\ peer.edge <= edge /\ edge <= told.edge
      BY <1>2, <1>3 DEF Larger, Reply
  <2>2. (end => peer.end \/ (told.fin /\ r.fin)) /\ (peer.end => end)
      BY <1>2
  <2>3. end \in BOOLEAN
    <3>1. CASE peer.end \/ r.fin
      BY <3>1
    <3>2. CASE ~ (peer.end \/ r.fin)
      BY <3>2
    <3> QED BY <3>1, <3>2
  <2>4. peer' = [peer EXCEPT !.got = got, !.end = end, !.edge = edge]
      BY <1>1, <1>5
  <2> HIDE DEF got, end, edge
  <2>5. /\ peer' \in Peer /\ peer'.said = peer.said
        /\ peer'.got = got /\ peer'.end = end /\ peer'.edge = edge
      BY Zenon, <2>1, <2>3, <2>4 DEF Peer
  <2> QED BY <2>1, <2>2, <2>5
<1> QED BY <1>4, <1>5

(* The peer receives what was sent, which is part of what was written. *)
LEMMA PeerReceivesKeeps == ASSUME IInv, PeerReceives PROVE IInv'
<1>1. TypeOK'
    BY OwnerTypes DEF IInv, StreamTypeOK, PeerReceives
<1>2. UNCHANGED <<load, stream, sockVars, readVars, writeVars>>
    BY DEF PeerReceives
<1> USE <1>2 DEF sockVars, readVars, writeVars
<1>3. StreamTypeOK'
    BY <1>1, ReceivedFacts DEF IInv, StreamTypeOK
<1>4. SockInv(sock)'
    BY DEF IInv, SockInv, may_send
<1>5. InOrder'
  <2>1. /\ peer'.said = peer.said /\ peer.edge <= peer'.edge /\ peer'.edge <= told.edge
        /\ peer' \in Peer
    BY Zenon, ReceivedFacts
  <2>2. /\ peer.said.seq \in Nat /\ peer.edge \in Nat /\ peer'.edge \in Nat
    BY <2>1 DEF IInv, StreamTypeOK, Peer, Segment
  <2>3. peer'.said.seq <= peer'.edge
    BY <2>1, <2>2 DEF IInv, InOrder
  <2>4. Broken => Broken'
    BY <2>1 DEF Broken
  <2> QED BY Zenon, <2>1, <2>3, <2>4 DEF IInv, InOrder, may_receive
<1>6. OutOrder'
    BY ReceivedFacts DEF IInv, OutOrder, StreamTypeOK, Peer, Segment, Reply, may_send
<1>7. NoLostWakeup'
    BY DEF IInv, NoLostWakeup, ReachedEnd, may_receive, TakesData, TxFree, may_send, is_open
<1> QED BY <1>3, <1>4, <1>5, <1>6, <1>7 DEF IInv

(***************************************************************************)
(* The runner.                                                             *)
(***************************************************************************)

(* A step of the loop that leaves the stream alone. *)
LEMMA FrameKeeps == ASSUME IInv, TypeOK', UNCHANGED streamVars PROVE IInv'
<1> USE DEF streamVars, sockVars, readVars, writeVars
<1>1. StreamTypeOK'
    BY DEF IInv, StreamTypeOK
<1>2. SockInv(sock)' /\ InOrder' /\ OutOrder'
    BY DEF IInv, SockInv, InOrder, OutOrder, Broken, may_send, may_receive
<1>3. NoLostWakeup'
    BY DEF IInv, NoLostWakeup, ReachedEnd, may_receive, TakesData, TxFree, may_send, is_open
<1> QED BY <1>1, <1>2, <1>3 DEF IInv

(* What wake leaves. *)
LEMMA WakeFacts ==
    ASSUME NEW r \in BOOLEAN, NEW w \in BOOLEAN, wake(r, w)
    PROVE  /\ read_woken' \in BOOLEAN /\ write_woken' \in BOOLEAN
           /\ rx_waker' \in BOOLEAN /\ tx_waker' \in BOOLEAN
           /\ r /\ rx_waker /\ reader # "idle" => read_woken'
           /\ w /\ tx_waker /\ writer # "idle" => write_woken'
           /\ read_woken => read_woken'
           /\ write_woken => write_woken'
           /\ ~ r /\ rx_waker => rx_waker'
           /\ ~ w /\ tx_waker => tx_waker'
<1>1. /\ read_woken' = (read_woken \/ (r /\ rx_waker /\ reader # "idle"))
      /\ write_woken' = (write_woken \/ (w /\ tx_waker /\ writer # "idle"))
      /\ rx_waker' = (rx_waker /\ ~ r)
      /\ tx_waker' = (tx_waker /\ ~ w)
    BY DEF wake
<1> QED BY <1>1, Zenon

(* The newest packet in the device is one the peer sent. *)
LEMMA NewestFacts ==
    ASSUME IInv, NEW seg \in Newest
    PROVE  /\ seg \in Segment /\ seg.seq <= peer.said.seq /\ seg.ack <= peer.said.ack
           /\ seg.fin => peer.said.fin /\ seg.seq = peer.said.seq
           /\ seg.rst => peer.said.rst
<1> peer.said \in Segment /\ rcvd \in Nat /\ acked \in Nat
    BY DEF IInv, StreamTypeOK, Peer
<1>1. CASE seg = Nothing
  <2>1. Nothing \in Segment /\ ~ Nothing.fin /\ ~ Nothing.rst /\ Nothing.seq = 0 /\ Nothing.ack = 0
    BY DEF Nothing, Segment
  <2> QED BY <1>1, <2>1 DEF Segment
<1>2. CASE seg = peer.said
    BY <1>2 DEF Segment
<1>3. CASE seg # Nothing /\ seg # peer.said
  <2>1. /\ seg \in [seq : rcvd .. peer.said.seq, fin : {FALSE, peer.said.fin},
                    rst : {FALSE, peer.said.rst},
                    ack : acked .. peer.said.ack, ack_fin : {FALSE, peer.said.ack_fin}]
        /\ seg.fin => seg.seq = peer.said.seq
    BY Zenon, <1>3 DEF Newest
  <2>2. /\ seg.fin \in BOOLEAN /\ seg.rst \in BOOLEAN /\ seg.ack_fin \in BOOLEAN
        /\ (seg.fin => peer.said.fin) /\ (seg.rst => peer.said.rst)
    BY Zenon, <2>1 DEF Segment
  <2> QED BY <2>1, <2>2 DEF Segment
<1> QED BY <1>1, <1>2, <1>3

(* What the socket sends is part of what was written, and its FIN comes    *)
(* with the last of it.                                                    *)
LEMMA SendableFacts ==
    ASSUME IInv, NEW s \in Socket, SockInv(s), NEW r \in Sendable(s)
    PROVE  /\ r \in Reply /\ told.seq <= r.seq /\ r.seq <= written
           /\ r.edge = read + tcp_buffer_size
           /\ r.fin => r.seq = written /\ ~ may_send(s)
<1> /\ told.seq \in Nat /\ written \in Nat /\ read \in Nat /\ tcp_buffer_size \in Nat
    BY StreamAssumption DEF IInv, StreamTypeOK, Reply
<1>1. PICK n \in told.seq .. written :
         r = [seq |-> n, fin |-> n = written /\ dispatched(s, FALSE).sent = "fin",
              edge |-> read + tcp_buffer_size]
    BY Zenon DEF Sendable
<1> DEFINE fin == n = written /\ dispatched(s, FALSE).sent = "fin"
<1>2. fin \in BOOLEAN
  <2>1. CASE n = written /\ dispatched(s, FALSE).sent = "fin"
    BY <2>1
  <2>2. CASE ~ (n = written /\ dispatched(s, FALSE).sent = "fin")
    BY <2>2
  <2> QED BY <2>1, <2>2
<1>3. fin => n = written /\ ~ may_send(s)
    BY Zenon, DispatchedFacts DEF SockInv, may_send
<1>4. r = [seq |-> n, fin |-> fin, edge |-> read + tcp_buffer_size]
    BY <1>1
<1> HIDE DEF fin
<1> QED BY <1>2, <1>3, <1>4 DEF Reply

(* A poll. *)
LEMMA PollKeeps == ASSUME IInv, NEW seg \in Newest, PollStream(seg) PROVE IInv'
<1> DEFINE got   == IF may_receive(sock) THEN Larger(rcvd, seg.seq) ELSE rcvd
           freed == IF sock.state = "Closed" THEN acked ELSE Larger(acked, seg.ack)
           proc  == processed(sock, seg)
           moved == proc.state # sock.state
<1>1. /\ \/ Poll(0, 1) /\ told' \in Sendable(proc)
         \/ Poll(0, 0) /\ told' = told
      /\ rcvd' = got /\ acked' = freed
      /\ sock' = IF told'.fin THEN dispatched(proc, FALSE) ELSE proc
      /\ wake(moved \/ got > rcvd, moved \/ freed > acked)
      /\ stream' = reaped(sock')
      /\ UNCHANGED <<load, read, eof, reader, written, writer, peer>>
    BY DEF PollStream
<1>2. /\ sock \in Socket /\ SockInv(sock) /\ rcvd \in Nat /\ acked \in Nat /\ written \in Nat
      /\ read \in Nat /\ told \in Reply /\ peer \in Peer /\ tcp_buffer_size \in Nat
    BY StreamAssumption DEF IInv, StreamTypeOK
<1>3. /\ seg \in Segment /\ seg.seq <= peer.said.seq /\ seg.ack <= peer.said.ack
      /\ seg.fin => peer.said.fin /\ seg.seq = peer.said.seq
      /\ seg.rst => peer.said.rst
    BY NewestFacts
<1>4. /\ proc \in Socket /\ SockInv(proc)
      /\ may_send(proc) => may_send(sock)
      /\ may_receive(proc) => may_receive(sock)
      /\ may_receive(sock) => may_receive(proc) \/ seg.fin \/ seg.rst
      /\ proc.sent = "nothing" => sock.sent = "nothing" \/ seg.rst
      /\ sock.state = "Closed" => proc = sock
    BY <1>2, <1>3, ProcessedFacts
<1>5. /\ got \in Nat /\ rcvd <= got /\ got <= peer.said.seq
      /\ may_receive(sock) => seg.seq <= got
      /\ ~ may_receive(sock) => got = rcvd
      /\ freed \in Nat /\ acked <= freed /\ freed <= peer.said.ack
    BY <1>2, <1>3 DEF IInv, InOrder, OutOrder, Peer, Segment, Larger
<1> HIDE DEF got, freed, proc
<1>6. /\ told' \in Reply /\ told.seq <= told'.seq /\ told'.seq <= written
      /\ told.edge <= told'.edge /\ told'.edge <= read + tcp_buffer_size
      /\ told'.fin => told'.seq = written /\ ~ may_send(proc)
  <2>1. CASE told' \in Sendable(proc)
    BY <2>1, <1>2, <1>4, SendableFacts DEF IInv, InOrder, Reply
  <2>2. CASE told' = told
    BY <2>2, <1>2, <1>4 DEF IInv, InOrder, OutOrder, Reply
  <2> QED BY <1>1, <2>1, <2>2
<1>7. /\ sock' \in Socket /\ SockInv(sock') /\ sock'.state = proc.state
      /\ sock'.sent = "nothing" <=> proc.sent = "nothing"
    BY Zenon, <1>1, <1>4, DispatchedFacts
<1>8. TypeOK'
    BY <1>1, PollTypes DEF IInv, StreamTypeOK
<1>9. stream' \in {"held", "dropped", "reaped"}
    BY Zenon, <1>1 DEF IInv, StreamTypeOK, reaped
<1>10. /\ read_woken' \in BOOLEAN /\ write_woken' \in BOOLEAN
       /\ rx_waker' \in BOOLEAN /\ tx_waker' \in BOOLEAN
       /\ (moved \/ got > rcvd) /\ rx_waker /\ reader # "idle" => read_woken'
       /\ (moved \/ freed > acked) /\ tx_waker /\ writer # "idle" => write_woken'
       /\ read_woken => read_woken'
       /\ write_woken => write_woken'
       /\ ~ (moved \/ got > rcvd) /\ rx_waker => rx_waker'
       /\ ~ (moved \/ freed > acked) /\ tx_waker => tx_waker'
  <2>1. (moved \/ got > rcvd) \in BOOLEAN /\ (moved \/ freed > acked) \in BOOLEAN
    BY Zenon
  <2> QED BY Zenon, <1>1, <2>1, WakeFacts
<1>11. /\ rcvd' = got /\ acked' = freed /\ load' = load /\ read' = read /\ eof' = eof
       /\ reader' = reader /\ written' = written /\ writer' = writer /\ peer' = peer
    BY <1>1
<1>12. /\ may_receive(sock') <=> may_receive(proc)
       /\ may_send(sock') <=> may_send(proc)
       /\ is_open(sock') <=> is_open(proc)
    BY <1>7 DEF may_receive, may_send, is_open
<1>13. InOrder'
  <2>1. rcvd' <= peer'.said.seq /\ peer'.said.seq <= peer'.edge
    BY <1>5, <1>11 DEF IInv, InOrder
  <2>2. peer'.edge <= told'.edge /\ told'.edge <= read' + tcp_buffer_size
    BY <1>2, <1>6, <1>11 DEF IInv, InOrder, Peer, Reply
  <2>3. ASSUME ~ may_receive(sock') PROVE Broken' \/ (peer'.said.fin /\ rcvd' = peer'.said.seq)
    <3>1. CASE may_receive(sock)
      <4>1. seg.fin \/ peer.said.rst
        BY <3>1, <2>3, <1>3, <1>4, <1>12
      <4>2. seg.fin => peer.said.fin /\ got = peer.said.seq
        BY <3>1, <1>2, <1>3, <1>5 DEF Peer, Segment
      <4> QED BY <4>1, <4>2, <1>11 DEF Broken
    <3>2. CASE ~ may_receive(sock)
      <4>1. (peer.said.rst \/ sock.sent = "nothing") \/ (peer.said.fin /\ rcvd = peer.said.seq)
        BY <3>2 DEF IInv, InOrder, Broken
      <4>2. sock.sent = "nothing" => sock'.sent = "nothing"
        BY <1>2, <1>4, <1>7 DEF SockInv
      <4> QED BY <4>1, <4>2, <3>2, <1>5, <1>11 DEF Broken
    <3> QED BY <3>1, <3>2
  <2>4. ASSUME eof' PROVE rcvd' = read' /\ ~ may_receive(sock')
    BY <2>4, <1>4, <1>5, <1>11, <1>12 DEF IInv, InOrder
  <2> QED BY <2>1, <2>2, <2>3, <2>4 DEF InOrder
<1>14. OutOrder'
  <2>1. acked' <= peer'.said.ack /\ peer'.said.ack <= peer'.got
    BY <1>5, <1>11 DEF IInv, OutOrder
  <2>2. peer'.got <= told'.seq /\ told'.seq <= written'
    BY <1>2, <1>6, <1>11 DEF IInv, OutOrder, Peer, Reply
  <2>3. told'.fin => told'.seq = written' /\ ~ may_send(sock')
    BY <1>6, <1>11, <1>12
  <2>4. peer'.end => peer'.got = written' /\ ~ may_send(sock')
    BY <1>4, <1>11, <1>12 DEF IInv, OutOrder
  <2> QED BY <2>1, <2>2, <2>3, <2>4 DEF OutOrder
<1>15. StreamTypeOK'
  <2>1. (rcvd' - read' \in 0 .. tcp_buffer_size) /\ (written' - acked' \in 0 .. tcp_buffer_size)
    <3>1. /\ peer'.said.seq \in Nat /\ peer'.said.ack \in Nat /\ peer'.edge \in Nat
          /\ peer'.got \in Nat /\ told'.seq \in Nat /\ told'.edge \in Nat
        BY <1>2, <1>6, <1>11 DEF Peer, Segment, Reply
    <3>2. read <= rcvd /\ written <= acked + tcp_buffer_size
        BY <1>2 DEF IInv, StreamTypeOK
    <3>3. rcvd' <= read' + tcp_buffer_size
        BY <1>2, <1>5, <1>11, <1>13, <3>1 DEF InOrder
    <3>4. acked' <= written'
        BY <1>2, <1>5, <1>11, <1>14, <3>1 DEF OutOrder
    <3>5. /\ rcvd' \in Nat /\ read' \in Nat /\ written' \in Nat /\ acked' \in Nat
          /\ read' <= rcvd' /\ written' <= acked' + tcp_buffer_size
        BY <1>2, <1>5, <1>11, <3>2
    <3> QED BY Zenon, <3>3, <3>4, <3>5, WithinBuffer, StreamAssumption
  <2> QED BY <1>5, <1>6, <1>7, <1>8, <1>9, <1>10, <1>11, <2>1 DEF IInv, StreamTypeOK
<1>16. NoLostWakeup'
  <2>1. ASSUME reader' # "idle", ~ read_woken'
        PROVE  rx_waker' /\ rcvd' = read' /\ may_receive(sock')
    <3>1. reader # "idle" /\ ~ read_woken
        BY <2>1, <1>10, <1>11
    <3>2. rx_waker /\ rcvd = read /\ may_receive(sock)
        BY <3>1 DEF IInv, NoLostWakeup, ReachedEnd
    <3>3. proc.state = sock.state /\ ~ got > rcvd
        BY <3>1, <3>2, <2>1, <1>10
    <3>4. got = rcvd
        BY <3>3, <1>2, <1>5
    <3>5. rx_waker'
        BY <3>2, <3>3, <1>10
    <3>6. may_receive(sock')
        BY <3>2, <3>3, <1>7 DEF may_receive
    <3> QED BY Zenon, <3>2, <3>4, <3>5, <3>6, <1>11
  <2>2. ASSUME writer' \in {"notify", "pending"}, ~ write_woken'
        PROVE  tx_waker' /\ ~ TakesData' /\ is_open(sock')
    <3>1. writer \in {"notify", "pending"} /\ ~ write_woken
        BY <2>2, <1>10, <1>11
    <3>2. tx_waker /\ ~ TakesData /\ is_open(sock)
        BY <3>1 DEF IInv, NoLostWakeup
    <3>3. proc.state = sock.state /\ ~ freed > acked
        BY <3>1, <3>2, <2>2, <1>10
    <3>4. freed = acked
        BY <3>3, <1>2, <1>5
    <3>5. may_send(sock') <=> may_send(sock)
        BY <3>3, <1>12 DEF may_send
    <3>6. is_open(sock')
        BY <3>2, <3>3, <1>12 DEF is_open
    <3> QED BY <3>2, <3>3, <3>4, <3>5, <3>6, <1>10, <1>11 DEF TakesData, TxFree
  <2> QED BY <2>1, <2>2 DEF NoLostWakeup, ReachedEnd
<1> QED BY <1>7, <1>13, <1>14, <1>15, <1>16 DEF IInv

(* The end of TIME-WAIT clears the wakers, and nobody waits for them. *)
LEMMA ExpireKeeps == ASSUME IInv, ExpireTimeWait PROVE IInv'
<1>1. /\ sock.state = "TimeWait" /\ sock' = dispatched(sock, TRUE) /\ rcvd' = read
      /\ rx_waker' = FALSE /\ tx_waker' = FALSE
      /\ stream' = reaped(sock')
      /\ UNCHANGED <<load, acked, told, read, eof, reader, read_woken, written, writer,
                     write_woken, peer>>
    BY DEF ExpireTimeWait
<1>2. /\ sock' \in Socket /\ SockInv(sock') /\ sock'.sent = "nothing"
      /\ ~ may_send(sock') /\ ~ may_receive(sock')
    BY Zenon, <1>1 DEF IInv, StreamTypeOK, Socket, SocketState, SockInv, dispatched, may_send, may_receive
<1>3. ~ may_send(sock) /\ ~ may_receive(sock) /\ ~ is_open(sock)
    BY <1>1 DEF may_send, may_receive, is_open
<1>4. TypeOK'
    BY PollTypes DEF ExpireTimeWait, IInv, StreamTypeOK
<1>5. InOrder'
  <2>1. peer' = peer /\ told' = told /\ read' = read /\ eof' = eof /\ rcvd' = read
    BY <1>1
  <2>2. rcvd' <= peer'.said.seq
    BY <2>1 DEF IInv, InOrder, StreamTypeOK, Peer, Segment
  <2>3. Broken'
    BY <1>2 DEF Broken
  <2> QED BY <1>2, <2>1, <2>2, <2>3 DEF IInv, InOrder
<1>6. OutOrder'
    BY Zenon, <1>1, <1>2 DEF IInv, OutOrder
<1>7. StreamTypeOK'
  <2>1. rx_waker' \in BOOLEAN /\ tx_waker' \in BOOLEAN
    BY Zenon, <1>1
  <2>2. stream' \in {"held", "dropped", "reaped"}
    BY Zenon, <1>1 DEF IInv, StreamTypeOK, reaped
  <2>3. rcvd' - read' \in 0 .. tcp_buffer_size
    BY <1>1, StreamAssumption DEF IInv, StreamTypeOK
  <2> QED BY Zenon, <1>1, <1>2, <1>4, <2>1, <2>2, <2>3 DEF IInv, StreamTypeOK
<1>8. NoLostWakeup'
  <2>1. (reader = "idle" \/ read_woken) /\ (writer \notin {"notify", "pending"} \/ write_woken)
    BY <1>3 DEF IInv, NoLostWakeup, ReachedEnd
  <2> QED BY Zenon, <1>1, <2>1 DEF NoLostWakeup
<1> QED BY <1>2, <1>5, <1>6, <1>7, <1>8 DEF IInv

(***************************************************************************)
(* The application.                                                        *)
(***************************************************************************)

(* poll_read reads what was received, sees the end after all of it, or     *)
(* waits with its waker registered.                                        *)
LEMMA ReadKeeps == ASSUME IInv, poll_read PROVE IInv'
<1>1. /\ vars' = vars /\ load' = load /\ stream' = stream
      /\ UNCHANGED <<sock, rcvd, acked, told, written, writer, write_woken, tx_waker, peer>>
      /\ read_woken' = FALSE
    BY DEF poll_read, sockVars, writeVars
<1>2. TypeOK'
    BY <1>1 DEF IInv, StreamTypeOK, TypeOK, vars, chanVars, inVars, outVars, sessVars, ownVars,
                sendVars
<1>3. /\ read' \in Nat /\ read <= read' /\ read' <= rcvd
      /\ eof' \in BOOLEAN /\ rx_waker' \in BOOLEAN /\ reader' \in {"idle", "notify"}
      /\ eof' => eof \/ (rcvd = read /\ ~ may_receive(sock))
      /\ eof => read' = read
      /\ reader' # "idle" => rx_waker' /\ rcvd = read /\ read' = read /\ may_receive(sock)
  <2>0. rcvd \in Nat /\ read \in Nat /\ read <= rcvd /\ eof \in BOOLEAN /\ rx_waker \in BOOLEAN
    BY DEF IInv, StreamTypeOK
  <2>0a. eof => rcvd = read
    BY Zenon DEF IInv, InOrder
  <2>1. CASE \E n \in read + 1 .. rcvd : read' = n /\ reader' = "idle" /\ eof' = eof
                                          /\ rx_waker' = rx_waker
    BY <2>0, <2>0a, <2>1
  <2>2. CASE rcvd = read /\ ReachedEnd /\ eof' = TRUE /\ reader' = "idle" /\ read' = read
             /\ rx_waker' = rx_waker
    <3>1. eof' \in BOOLEAN
        BY <2>2
    <3> QED BY <2>0, <2>2, <3>1 DEF ReachedEnd
  <2>3. CASE rcvd = read /\ ~ ReachedEnd /\ rx_waker' = TRUE /\ reader' = "notify"
             /\ read' = read /\ eof' = eof
    <3>1. rx_waker' \in BOOLEAN /\ rx_waker'
        BY <2>3
    <3> QED BY <2>0, <2>3, <3>1 DEF ReachedEnd
  <2> QED BY Zenon, <2>1, <2>2, <2>3 DEF poll_read, register_recv_waker
<1>4. InOrder'
  <2>1. peer' = peer /\ told' = told /\ rcvd' = rcvd /\ sock' = sock
    BY <1>1
  <2>2. told'.edge <= read' + tcp_buffer_size
    <3>1. told.edge <= read + tcp_buffer_size
        BY Zenon DEF IInv, InOrder
    <3>2. told.edge \in Nat /\ read \in Nat
        BY DEF IInv, StreamTypeOK, Reply
    <3> QED BY <2>1, <1>3, <3>1, <3>2, StreamAssumption
  <2>3. eof' => rcvd' = read' /\ ~ may_receive(sock')
    <3>1. /\ eof => rcvd = read /\ ~ may_receive(sock)
          /\ rcvd \in Nat /\ read \in Nat
        BY DEF IInv, InOrder, StreamTypeOK
    <3> QED BY <2>1, <1>3, <3>1
  <2>4. ~ may_receive(sock') => Broken' \/ (peer'.said.fin /\ rcvd' = peer'.said.seq)
    BY <2>1 DEF IInv, InOrder, Broken
  <2> QED BY <2>1, <2>2, <2>3, <2>4 DEF IInv, InOrder
<1>5. OutOrder' /\ SockInv(sock)'
    BY <1>1 DEF IInv, OutOrder, SockInv, may_send
<1>6. StreamTypeOK'
  <2>1. rcvd' - read' \in 0 .. tcp_buffer_size
    <3>1. rcvd \in Nat /\ rcvd <= read + tcp_buffer_size /\ read \in Nat /\ tcp_buffer_size \in Nat
        BY StreamAssumption DEF IInv, StreamTypeOK
    <3>2. rcvd' = rcvd
        BY Zenon, <1>1
    <3>3. read' \in Nat /\ read <= read' /\ read' <= rcvd
        BY Zenon, <1>3
    <3> QED BY Zenon, <3>1, <3>2, <3>3, StaysWithin
  <2>2. read_woken' \in BOOLEAN
    BY Zenon, <1>1
  <2> QED BY <1>1, <1>2, <1>3, <2>1, <2>2 DEF IInv, StreamTypeOK
<1>7. NoLostWakeup'
  <2>1. reader' # "idle" => rx_waker' /\ rcvd' = read' /\ ~ ReachedEnd'
    BY <1>1, <1>3 DEF ReachedEnd
  <2>2. /\ writer' = writer /\ write_woken' = write_woken /\ tx_waker' = tx_waker
        /\ TakesData' = TakesData /\ sock' = sock
    BY <1>1 DEF TakesData, TxFree
  <2> QED BY <2>1, <2>2 DEF IInv, NoLostWakeup
<1> QED BY <1>4, <1>5, <1>6, <1>7 DEF IInv

(* poll_write takes data only into free room, or waits with its waker      *)
(* registered.                                                             *)
LEMMA WriteKeeps == ASSUME IInv, poll_write PROVE IInv'
<1>1. /\ vars' = vars /\ load' = load /\ stream' = stream
      /\ UNCHANGED <<sock, rcvd, acked, told, read, eof, reader, read_woken, rx_waker, peer>>
      /\ write_woken' = FALSE
    BY DEF poll_write, sockVars, readVars
<1>2. TypeOK'
    BY <1>1 DEF IInv, StreamTypeOK, TypeOK, vars, chanVars, inVars, outVars, sessVars, ownVars,
                sendVars
<1>3. /\ written' \in Nat /\ written <= written' /\ written' - acked \in 0 .. tcp_buffer_size
      /\ ~ may_send(sock) => written' = written
      /\ tx_waker' \in BOOLEAN /\ writer' \in {"idle", "notify"}
      /\ writer' # "idle" => tx_waker' /\ written' = written /\ ~ TakesData /\ is_open(sock)
  <2>0. /\ written \in Nat /\ acked \in Nat /\ written - acked \in 0 .. tcp_buffer_size
        /\ tx_waker \in BOOLEAN /\ tcp_buffer_size \in Nat
    BY StreamAssumption DEF IInv, StreamTypeOK
  <2>1. CASE TakesData /\ written' = written + 1 /\ writer' = "idle" /\ tx_waker' = tx_waker
    BY <2>0, <2>1 DEF TakesData, TxFree
  <2>2. CASE ~ TakesData /\ is_open(sock) /\ tx_waker' = TRUE /\ writer' = "notify"
             /\ written' = written
    <3>1. tx_waker' \in BOOLEAN /\ tx_waker'
        BY <2>2
    <3> QED BY <2>0, <2>2, <3>1
  <2>3. CASE writer' = "idle" /\ written' = written /\ tx_waker' = tx_waker
    BY <2>0, <2>3
  <2> QED BY Zenon, <2>1, <2>2, <2>3 DEF poll_write, register_send_waker
<1>4. InOrder' /\ SockInv(sock)'
    BY <1>1 DEF IInv, InOrder, SockInv, Broken, may_receive, may_send
<1>5. OutOrder'
  <2>1. peer' = peer /\ told' = told /\ acked' = acked /\ sock' = sock
    BY <1>1
  <2>2. told'.seq <= written'
    BY <2>1, <1>3 DEF IInv, OutOrder, StreamTypeOK, Reply
  <2>3. ~ may_send(sock') => written' = written
    BY <2>1, <1>3
  <2> QED BY <2>1, <2>2, <2>3 DEF IInv, OutOrder
<1>6. StreamTypeOK'
  <2>1. write_woken' \in BOOLEAN
    BY Zenon, <1>1
  <2> QED BY <1>1, <1>2, <1>3, <2>1 DEF IInv, StreamTypeOK
<1>7. NoLostWakeup'
  <2>1. writer' # "idle" => tx_waker' /\ ~ TakesData' /\ is_open(sock')
    BY <1>1, <1>3 DEF TakesData, TxFree
  <2>2. /\ reader' = reader /\ read_woken' = read_woken /\ rx_waker' = rx_waker /\ rcvd' = rcvd
        /\ read' = read /\ ReachedEnd' = ReachedEnd
    BY <1>1 DEF ReachedEnd
  <2> QED BY <2>1, <2>2 DEF IInv, NoLostWakeup
<1> QED BY <1>4, <1>5, <1>6, <1>7 DEF IInv

(* A notification or a cancellation changes where a task is. *)
LEMMA TaskKeeps ==
    ASSUME IInv, NotifyRead \/ CancelRead \/ NotifyWrite \/ CancelWrite
    PROVE  IInv'
<1>1. /\ UNCHANGED <<load, stream, sock, rcvd, acked, told, read, eof, rx_waker, written,
                     tx_waker, peer>>
      /\ \/ UNCHANGED <<reader, read_woken>>
         \/ reader # "idle" /\ reader' = "pending" /\ read_woken' = read_woken
         \/ reader' = "idle" /\ read_woken' = FALSE
      /\ \/ UNCHANGED <<writer, write_woken>>
         \/ writer = "notify" /\ writer' = "pending" /\ write_woken' = write_woken
         \/ writer' = "idle" /\ write_woken' \in {FALSE, write_woken}
    BY Zenon DEF NotifyRead, CancelRead, NotifyWrite, CancelWrite, Notifies, Nudge, sockVars, readVars, writeVars
<1>2. TypeOK'
  <2>1. CASE notify_poll /\ UNCHANGED <<runner, sleep, chanVars, ownVars, sendVars>>
    BY ZenonT(60), <2>1, NotifyType
    DEF IInv, StreamTypeOK, TypeOK, chanVars, inVars, outVars, sessVars, ownVars, sendVars
  <2>2. CASE UNCHANGED vars
    BY <2>2 DEF IInv, StreamTypeOK, TypeOK, vars, chanVars, inVars, outVars, sessVars, ownVars,
                sendVars
  <2> QED BY <2>1, <2>2 DEF NotifyRead, CancelRead, NotifyWrite, CancelWrite, Notifies, Nudge
<1>3. StreamTypeOK'
  <2>1. read_woken' \in BOOLEAN /\ write_woken' \in BOOLEAN
    BY Zenon, <1>1 DEF IInv, StreamTypeOK
  <2> QED BY ZenonT(60), <1>1, <1>2, <2>1 DEF IInv, StreamTypeOK
<1>4. InOrder' /\ OutOrder' /\ SockInv(sock)'
    BY Zenon, <1>1 DEF IInv, InOrder, OutOrder, SockInv, Broken, may_receive, may_send
<1>5. NoLostWakeup'
  <2>1. ReachedEnd' = ReachedEnd /\ TakesData' = TakesData /\ sock' = sock
    BY <1>1 DEF ReachedEnd, TakesData, TxFree
  <2>2. reader' # "idle" /\ ~ read_woken' => reader # "idle" /\ ~ read_woken
    BY <1>1
  <2>3. writer' \in {"notify", "pending"} /\ ~ write_woken'
            => writer \in {"notify", "pending"} /\ ~ write_woken
    BY Zenon, <1>1
  <2>4. rx_waker' = rx_waker /\ tx_waker' = tx_waker /\ rcvd' = rcvd /\ read' = read
    BY <1>1
  <2> QED BY <2>1, <2>2, <2>3, <2>4 DEF IInv, NoLostWakeup
<1> QED BY <1>3, <1>4, <1>5 DEF IInv

(* close wakes the reader, if it changes the state at all. *)
LEMMA ClosesKeeps ==
    ASSUME IInv, Closes, stream' \in {"held", "dropped", "reaped"}
    PROVE  IInv'
<1>1. /\ vars' = vars /\ load' = load
      /\ UNCHANGED <<rcvd, acked, told, read, eof, reader, written, peer>>
      /\ sock' = CloseIfOpen(sock) /\ writer' = "closing"
    BY DEF Closes
<1>2. /\ sock' \in Socket /\ SockInv(sock') /\ ~ may_send(sock')
      /\ may_receive(sock') <=> may_receive(sock)
      /\ sock'.sent = sock.sent
    BY <1>1, CloseFacts DEF IInv, StreamTypeOK
<1>3. TypeOK'
    BY ZenonT(60), <1>1 DEF IInv, StreamTypeOK, TypeOK, vars, chanVars, inVars, outVars, sessVars, ownVars,
                sendVars
<1> DEFINE moved == sock'.state # sock.state
<1>4. /\ read_woken' \in BOOLEAN /\ write_woken' \in BOOLEAN
      /\ rx_waker' \in BOOLEAN /\ tx_waker' \in BOOLEAN
      /\ moved /\ rx_waker /\ reader # "idle" => read_woken'
      /\ read_woken => read_woken'
      /\ ~ moved /\ rx_waker => rx_waker'
  <2>1. moved \in BOOLEAN /\ wake(moved, moved)
    BY DEF Closes
  <2> HIDE DEF moved
  <2> QED BY <2>1, WakeFacts
<1>5. InOrder'
    BY <1>1, <1>2 DEF IInv, InOrder, Broken
<1>6. OutOrder'
    BY Zenon, <1>1, <1>2 DEF IInv, OutOrder
<1>7. StreamTypeOK'
    BY ZenonT(60), <1>1, <1>2, <1>3, <1>4 DEF IInv, StreamTypeOK
<1>8. NoLostWakeup'
    BY <1>1, <1>2, <1>4 DEF IInv, NoLostWakeup, ReachedEnd
<1> QED BY <1>2, <1>5, <1>6, <1>7, <1>8 DEF IInv

(***************************************************************************)
(* The invariant and what follows from it.                                 *)
(***************************************************************************)

(* Every step keeps the invariant. *)
LEMMA StepKeeps == ASSUME IInv, [StreamNext]_allVars PROVE IInv'
<1>1. CASE StreamRunner
  <2>1. CASE LoopStep /\ UNCHANGED streamVars
    BY Zenon, <2>1, LoopTypes, FrameKeeps DEF IInv, StreamTypeOK
  <2> QED BY <1>1, <2>1, PollKeeps, ExpireKeeps DEF StreamRunner
<1>2. CASE NotifyInjected /\ UNCHANGED streamVars
    BY <1>2, OwnerTypes, FrameKeeps DEF IInv, StreamTypeOK
<1>3. CASE PeerWrites \/ PeerCloses \/ PeerResets \/ PeerAcks \/ PeerReceives
    BY <1>3, PeerStepKeeps, PeerReceivesKeeps
<1>4. CASE poll_read \/ poll_write
    BY <1>4, ReadKeeps, WriteKeeps
<1>5. CASE NotifyRead \/ CancelRead \/ NotifyWrite \/ CancelWrite
    BY <1>5, TaskKeeps
<1>6. CASE poll_shutdown
    BY <1>6, ClosesKeeps DEF poll_shutdown, IInv, StreamTypeOK
<1>7. CASE drop_stream
    BY <1>7, ClosesKeeps DEF drop_stream
<1>8. CASE UNCHANGED allVars
  <2>1. TypeOK'
    BY <1>8 DEF IInv, StreamTypeOK, TypeOK, allVars, vars, chanVars, inVars, outVars, sessVars,
                ownVars, sendVars
  <2> QED BY <1>8, <2>1, FrameKeeps DEF allVars
<1> QED BY <1>1, <1>2, <1>3, <1>4, <1>5, <1>6, <1>7, <1>8 DEF StreamNext

(* The initial state satisfies it. *)
LEMMA InitHolds == StreamInit => IInv
<1> SUFFICES ASSUME StreamInit PROVE IInv
    OBVIOUS
<1>1. TypeOK
    BY InitTypes DEF StreamInit
<1>2. /\ rcvd = 0 /\ acked = 0 /\ read = 0 /\ written = 0
      /\ eof = FALSE /\ reader = "idle" /\ writer = "idle" /\ stream = "held"
    BY DEF StreamInit
<1>3. sock \in Socket /\ SockInv(sock) /\ may_receive(sock) /\ may_send(sock)
  <2>1. sock = [peer |-> "peer", state |-> "Established", sent |-> "syn"]
    BY DEF StreamInit
  <2> QED BY <2>1 DEF Socket, SocketState, SockInv, may_receive, may_send
<1>4. Nothing \in Segment /\ Nothing.seq = 0 /\ Nothing.ack = 0
    BY DEF Nothing, Segment
<1>5. told \in Reply /\ ~ told.fin /\ told.seq = 0 /\ told.edge = tcp_buffer_size
  <2>1. told = [seq |-> 0, fin |-> FALSE, edge |-> tcp_buffer_size]
    BY Zenon DEF StreamInit
  <2> QED BY <2>1, StreamAssumption DEF Reply
<1>6. /\ peer \in Peer /\ peer.said = Nothing /\ peer.got = 0 /\ ~ peer.end
      /\ peer.edge = tcp_buffer_size
  <2>1. peer = [said |-> Nothing, got |-> 0, end |-> FALSE, edge |-> tcp_buffer_size]
    BY DEF StreamInit
  <2> QED BY <2>1, <1>4, StreamAssumption DEF Peer
<1>7. /\ eof \in BOOLEAN /\ read_woken \in BOOLEAN /\ rx_waker \in BOOLEAN
      /\ write_woken \in BOOLEAN /\ tx_waker \in BOOLEAN
    BY ZenonT(60) DEF StreamInit
<1>8. load \in [in : Nat, out : Nat]
  <2>1. load \in {[in |-> MaxIn, out |-> 0], [in |-> 0, out |-> MaxOut]}
    BY Zenon DEF StreamInit
  <2> QED BY <2>1, StreamAssumption
<1>9. StreamTypeOK
  <2>1. TypeOK
    BY <1>1
  <2>2. /\ {rcvd, read, written, acked} \subseteq Nat
        /\ rcvd - read \in 0 .. tcp_buffer_size /\ written - acked \in 0 .. tcp_buffer_size
    BY <1>2, StreamAssumption
  <2>3. sock \in Socket /\ told \in Reply /\ peer \in Peer
    BY <1>3, <1>5, <1>6
  <2> QED BY <1>2, <1>7, <1>8, <2>1, <2>2, <2>3 DEF StreamTypeOK
<1>10. /\ tcp_buffer_size \in Nat /\ peer.said.seq = 0 /\ peer.said.ack = 0
       /\ peer.edge = tcp_buffer_size /\ told.edge = tcp_buffer_size
       /\ peer.got = 0 /\ told.seq = 0
    BY <1>4, <1>5, <1>6, StreamAssumption
<1>11. ~ eof /\ ~ told.fin /\ ~ peer.end /\ may_receive(sock)
    BY <1>2, <1>3, <1>5, <1>6
<1>12. InOrder /\ OutOrder
  <2>1. InOrder
    BY <1>2, <1>10, <1>11 DEF InOrder
  <2>2. OutOrder
    BY <1>2, <1>10, <1>11 DEF OutOrder
  <2> QED BY <2>1, <2>2
<1> QED BY <1>2, <1>3, <1>9, <1>12 DEF IInv, NoLostWakeup

(* The buffers never hold more than their size, and the other types hold.  *)
THEOREM StreamTypeCorrect == StreamSpec => []StreamTypeOK
<1>1. IInv => StreamTypeOK
    BY DEF IInv
<1> QED BY <1>1, InitHolds, StepKeeps, PTL DEF StreamSpec

(* A task that waits in poll_read or poll_write and could go on has been   *)
(* woken: registering before the mutex is released leaves no gap.          *)
THEOREM WakeupsArrive == StreamSpec => []NoLostWakeup
<1>1. IInv => NoLostWakeup
    BY DEF IInv
<1> QED BY <1>1, InitHolds, StepKeeps, PTL DEF StreamSpec

(***************************************************************************)
(* Each direction implements Pipe.                                         *)
(***************************************************************************)

(* A poll leaves both ends of the inbound pipe alone; all it can do to the *)
(* outbound one is close it.                                               *)
LEMMA PollOnPipes ==
    ASSUME IInv, NEW seg \in Newest, PollStream(seg)
    PROVE  /\ UNCHANGED <<read, eof, written, peer>>
           /\ Broken' <=> Broken
           /\ may_send(sock') => may_send(sock)
<1> DEFINE proc == processed(sock, seg)
<1>1. /\ sock' = IF told'.fin THEN dispatched(proc, FALSE) ELSE proc
      /\ UNCHANGED <<read, eof, written, peer>>
    BY Zenon DEF PollStream
<1>2. sock \in Socket /\ SockInv(sock) /\ seg \in Segment /\ (seg.rst => peer.said.rst)
    BY ZenonT(60), NewestFacts DEF IInv, StreamTypeOK
<1>3. /\ proc \in Socket /\ SockInv(proc) /\ (may_send(proc) => may_send(sock))
      /\ proc.sent = "nothing" => sock.sent = "nothing" \/ seg.rst
      /\ sock.state = "Closed" => proc = sock
    BY <1>2, ProcessedFacts
<1> HIDE DEF proc
<1>4. sock'.state = proc.state /\ (sock'.sent = "nothing" <=> proc.sent = "nothing")
    BY Zenon, <1>1, <1>3, DispatchedFacts
<1>5. sock.sent = "nothing" => sock'.sent = "nothing"
    BY <1>2, <1>3, <1>4 DEF SockInv
<1> QED BY ZenonT(60), <1>1, <1>2, <1>3, <1>4, <1>5 DEF Broken, may_send

(* A step that changes neither what was said, what was read nor whether    *)
(* the connection is broken. *)
LEMMA InboundStutter ==
    ASSUME peer'.said = peer.said, read' = read, eof' = eof, sock'.sent = sock.sent
    PROVE  UNCHANGED Inbound!vars
    BY DEF Inbound!vars, Broken

(* What a packet of the peer says. *)
LEMMA PeerSays ==
    ASSUME IInv, NEW seg \in Segment, PeerSends(seg)
    PROVE  /\ peer'.said.seq = seg.seq /\ peer'.said.fin = seg.fin /\ peer'.said.rst = seg.rst
           /\ peer'.got = peer.got /\ peer'.end = peer.end
           /\ UNCHANGED <<sock, read, eof, written>>
    BY Zenon DEF IInv, StreamTypeOK, Peer, Segment, PeerSends, Acknowledges, sockVars, readVars, writeVars

(* Every step is a step of the inbound pipe. *)
LEMMA InboundStep == ASSUME IInv, [StreamNext]_allVars PROVE [Inbound!Next]_(Inbound!vars)
<1>1. peer.said \in Segment /\ peer \in Peer
    BY DEF IInv, StreamTypeOK, Peer
<1>2. CASE PeerWrites
  <2>1. [peer.said EXCEPT !.seq = @ + 1] \in Segment
    BY <1>1 DEF Segment
  <2>2. /\ peer'.said.seq = peer.said.seq + 1 /\ peer'.said.fin = peer.said.fin
        /\ peer'.said.rst = peer.said.rst /\ UNCHANGED <<sock, read, eof, written>>
    BY <1>1, <1>2, <2>1, PeerSays DEF PeerWrites, Segment
  <2>3. ~ peer.said.fin /\ peer'.said.seq > peer.said.seq
    BY <1>1, <1>2, <2>2 DEF PeerWrites, Segment
  <2>4. Broken' = Broken
    BY <2>2 DEF Broken
  <2> QED BY <2>2, <2>3, <2>4 DEF Inbound!Next, Inbound!Write
<1>3. CASE PeerCloses
  <2>1. [peer.said EXCEPT !.fin = TRUE] \in Segment
    BY Zenon, <1>1 DEF Segment
  <2>2. /\ peer'.said.seq = peer.said.seq /\ peer'.said.fin = TRUE
        /\ peer'.said.rst = peer.said.rst /\ UNCHANGED <<sock, read, eof, written>>
    BY <1>1, <1>3, <2>1, PeerSays DEF PeerCloses, Segment
  <2>3. Broken' = Broken
    BY <2>2 DEF Broken
  <2> QED BY <2>2, <2>3 DEF Inbound!Next, Inbound!Close
<1>4. CASE PeerResets
  <2>1. [peer.said EXCEPT !.rst = TRUE] \in Segment
    BY Zenon, <1>1 DEF Segment
  <2>2. /\ peer'.said.seq = peer.said.seq /\ peer'.said.fin = peer.said.fin
        /\ peer'.said.rst = TRUE /\ UNCHANGED <<sock, read, eof, written>>
    BY <1>1, <1>4, <2>1, PeerSays DEF PeerResets, Segment
  <2>3. Broken' = TRUE
    BY <2>2 DEF Broken
  <2> QED BY <2>2, <2>3 DEF Inbound!Next, Inbound!Break
<1>5. CASE PeerAcks
  <2>1. /\ peer'.said.seq = peer.said.seq /\ peer'.said.fin = peer.said.fin
        /\ peer'.said.rst = peer.said.rst /\ UNCHANGED <<sock, read, eof, written>>
    BY <1>1, <1>5, PeerSays DEF PeerAcks
  <2> QED BY <2>1 DEF Inbound!vars, Broken
<1>6. CASE PeerReceives
  <2>1. peer'.said = peer.said /\ UNCHANGED <<sock, read, eof>>
    BY <1>1, <1>6 DEF PeerReceives, Peer, sockVars, readVars
  <2> QED BY <2>1, InboundStutter
<1>7. CASE poll_read
  <2>1. UNCHANGED <<peer, sock>>
    BY <1>7 DEF poll_read, sockVars
  <2>2. Broken' = Broken
    BY <2>1 DEF Broken
  <2>3. read \in Nat /\ rcvd \in Nat /\ rcvd <= peer.said.seq /\ peer.said.seq \in Nat /\ read <= rcvd
    <3>1. read \in Nat /\ rcvd \in Nat /\ rcvd - read \in 0 .. tcp_buffer_size /\ peer \in Peer
        BY DEF IInv, StreamTypeOK
    <3>2. rcvd <= peer.said.seq
        BY DEF IInv, InOrder
    <3>3. peer.said.seq \in Nat
        BY <3>1 DEF Peer, Segment
    <3>4. read <= rcvd
        BY <3>1, StreamAssumption
    <3> QED BY <3>1, <3>2, <3>3, <3>4
  <2>4. CASE \E n \in read + 1 .. rcvd : read' = n /\ eof' = eof
    <3>1. ~ eof
        BY <2>3, <2>4, SMTT(30) DEF IInv, InOrder
    <3>2. read <= read' /\ read' <= peer.said.seq
        BY <2>3, <2>4
    <3> QED BY <2>1, <2>2, <2>4, <3>1, <3>2, SMTT(30) DEF Inbound!Next, Inbound!Read
  <2>5. CASE rcvd = read /\ ReachedEnd /\ eof' = TRUE /\ read' = read
    <3>1. Broken \/ (peer.said.fin /\ read = peer.said.seq)
        BY <2>5 DEF IInv, InOrder, ReachedEnd
    <3>2. CASE eof
      <4>1. eof = TRUE
        BY <3>2 DEF IInv, StreamTypeOK
      <4> QED BY <2>1, <2>2, <2>5, <4>1 DEF Inbound!vars
    <3>3. CASE ~ eof
        BY <2>1, <2>2, <2>3, <2>5, <3>1, <3>3 DEF Inbound!Next, Inbound!Read
    <3> QED BY <3>2, <3>3
  <2>6. CASE read' = read /\ eof' = eof
    BY <2>1, <2>6, InboundStutter
  <2> QED BY Zenon, <1>7, <2>4, <2>5, <2>6 DEF poll_read
<1>8. CASE \E seg \in Newest : PollStream(seg)
  <2>1. UNCHANGED <<read, eof, peer>> /\ (Broken' <=> Broken)
    BY <1>8, PollOnPipes
  <2>2. Broken' = Broken
    BY <2>1 DEF Broken
  <2> QED BY <2>1, <2>2 DEF Inbound!vars
<1>9. CASE ExpireTimeWait
  <2>1. sock'.sent = "nothing" /\ UNCHANGED <<read, eof, peer>>
    BY Zenon, <1>9 DEF ExpireTimeWait, dispatched, IInv, StreamTypeOK, Socket
  <2>2. Broken' = TRUE
    BY <2>1 DEF Broken
  <2> QED BY <2>1, <2>2 DEF Inbound!Next, Inbound!Break
<1>10. CASE poll_shutdown \/ drop_stream
  <2>1. Closes
    BY <1>10 DEF poll_shutdown, drop_stream
  <2>2. sock'.sent = sock.sent /\ UNCHANGED <<read, eof, peer>>
    BY Zenon, <2>1, CloseFacts DEF Closes, IInv, StreamTypeOK
  <2> QED BY <2>2, InboundStutter
<1>11. CASE \/ UNCHANGED streamVars \/ poll_write
            \/ NotifyRead \/ CancelRead \/ NotifyWrite \/ CancelWrite
  <2>1. UNCHANGED <<peer, sock, read, eof>>
    BY Zenon, <1>11 DEF streamVars, sockVars, readVars, poll_write, NotifyRead, CancelRead, NotifyWrite,
                 CancelWrite, Notifies, Nudge
  <2> QED BY <2>1, InboundStutter
<1> QED
    BY <1>2, <1>3, <1>4, <1>5, <1>6, <1>7, <1>8, <1>9, <1>10, <1>11
    DEF StreamNext, StreamRunner, allVars

(* What poll_read returns is what the peer sent, in order and once, and    *)
(* the end comes after all of it.                                          *)
THEOREM ReadsThePipe == StreamSpec => InboundPipe
<1>1. StreamInit => Inbound!Init
  <2> SUFFICES ASSUME StreamInit PROVE Inbound!Init
    OBVIOUS
  <2>1. peer.said = Nothing /\ sock.sent = "syn" /\ read = 0 /\ eof = FALSE
    BY Zenon DEF StreamInit
  <2>2. Nothing.seq = 0 /\ Nothing.fin = FALSE /\ Nothing.rst = FALSE
    BY DEF Nothing
  <2>3. Broken = FALSE
    BY <2>1, <2>2 DEF Broken
  <2> QED BY <2>1, <2>2, <2>3 DEF Inbound!Init
<1> QED BY <1>1, InitHolds, StepKeeps, InboundStep, PTL DEF StreamSpec, InboundPipe, Inbound!Spec

(* A step that leaves what was written and what was got alone, and that    *)
(* may end sending.                                                        *)
LEMMA OutboundClose ==
    ASSUME peer'.got = peer.got, peer'.end = peer.end, peer'.said.rst = peer.said.rst,
           written' = written, may_send(sock') => may_send(sock)
    PROVE  [Outbound!Next]_(Outbound!vars)
<1>1. CASE may_send(sock')
    BY <1>1 DEF Outbound!vars, may_send
<1>2. CASE ~ may_send(sock')
  <2>1. (~ may_send(sock')) = TRUE
    BY <1>2 DEF may_send
  <2> QED BY <2>1 DEF Outbound!Next, Outbound!Close
<1> QED BY <1>1, <1>2

(* Every step is a step of the outbound pipe. *)
LEMMA OutboundStep == ASSUME IInv, [StreamNext]_allVars PROVE [Outbound!Next]_(Outbound!vars)
<1>1. peer.said \in Segment /\ peer \in Peer
    BY DEF IInv, StreamTypeOK, Peer
<1>2. CASE PeerWrites \/ PeerCloses \/ PeerAcks
  <2>1. PICK seg \in Segment : PeerSends(seg) /\ seg.rst = peer.said.rst
    <3>1. [peer.said EXCEPT !.seq = @ + 1] \in Segment
        BY <1>1 DEF Segment
    <3>2. [peer.said EXCEPT !.fin = TRUE] \in Segment
        BY Zenon, <1>1 DEF Segment
    <3>3. [peer.said EXCEPT !.seq = @ + 1].rst = peer.said.rst
        BY <1>1 DEF Segment
    <3>4. [peer.said EXCEPT !.fin = TRUE].rst = peer.said.rst
        BY <1>1 DEF Segment
    <3> QED BY Zenon, <1>1, <1>2, <3>1, <3>2, <3>3, <3>4 DEF PeerWrites, PeerCloses, PeerAcks
  <2> QED BY <2>1, PeerSays, OutboundClose
<1>3. CASE PeerResets
  <2>1. [peer.said EXCEPT !.rst = TRUE] \in Segment
    BY Zenon, <1>1 DEF Segment
  <2>2. /\ peer'.got = peer.got /\ peer'.end = peer.end
        /\ peer'.said.rst = TRUE /\ UNCHANGED <<sock, written>>
    BY <1>1, <1>3, <2>1, PeerSays DEF PeerResets, Segment
  <2> QED BY <2>2 DEF Outbound!Next, Outbound!Break, may_send
<1>4. CASE PeerReceives
  <2>1. peer'.said = peer.said /\ UNCHANGED <<sock, written>>
    BY Zenon, <1>4, ReceivedFacts DEF PeerReceives, sockVars, writeVars
  <2>2. /\ peer.got \in Nat /\ peer'.got \in Nat /\ written \in Nat
        /\ peer.got <= peer'.got /\ peer'.got <= written
    <3>1. told.seq \in Nat /\ written \in Nat /\ told.seq <= written
        BY DEF IInv, OutOrder, StreamTypeOK, Reply
    <3>2. peer' \in Peer /\ peer.got <= peer'.got /\ peer'.got <= told.seq
        BY <1>4, ReceivedFacts
    <3>3. peer.got \in Nat /\ peer'.got \in Nat
        BY <1>1, <3>2 DEF Peer
    <3> QED BY <3>1, <3>2, <3>3
  <2>3. CASE peer.end
    <3>0. peer.got = written
        BY <2>3 DEF IInv, OutOrder
    <3>1. peer'.got = peer.got
        BY <2>2, <3>0
    <3>2. peer.end = TRUE /\ peer'.end = TRUE
        BY <1>1, <1>4, <2>3, ReceivedFacts DEF Peer
    <3> QED BY Zenon, <2>1, <3>1, <3>2, OutboundClose
  <2>4. CASE ~ peer.end
    <3>0. told.fin => told.seq = written /\ ~ may_send(sock)
        BY DEF IInv, OutOrder
    <3>1. peer'.end => ~ may_send(sock) /\ peer'.got = written
        BY <1>4, <2>4, <3>0, ReceivedFacts
    <3>2. Outbound!Read
        BY <2>1, <2>2, <2>4, <3>1 DEF Outbound!Read, may_send
    <3> QED BY <3>2 DEF Outbound!Next
  <2> QED BY <2>3, <2>4
<1>5. CASE poll_write
  <2>1. UNCHANGED <<peer, sock>>
    BY <1>5 DEF poll_write, sockVars
  <2>2. CASE TakesData /\ written' = written + 1
    <3>1. written \in Nat /\ may_send(sock)
        BY <2>2 DEF TakesData, IInv, StreamTypeOK
    <3> QED BY <2>1, <2>2, <3>1 DEF Outbound!Next, Outbound!Write, may_send
  <2>3. CASE written' = written
    BY <2>1, <2>3, OutboundClose
  <2> QED BY <1>5, <2>2, <2>3 DEF poll_write
<1>6. CASE \E seg \in Newest : PollStream(seg)
    BY <1>6, PollOnPipes, OutboundClose
<1>7. CASE ExpireTimeWait
  <2>1. sock'.state = "Closed" /\ UNCHANGED <<written, peer>>
    BY Zenon, <1>7 DEF ExpireTimeWait, dispatched, IInv, StreamTypeOK, Socket
  <2> QED BY <2>1, OutboundClose DEF may_send
<1>8. CASE poll_shutdown \/ drop_stream
  <2>1. Closes
    BY <1>8 DEF poll_shutdown, drop_stream
  <2>2. (may_send(sock') => may_send(sock)) /\ UNCHANGED <<written, peer>>
    BY <2>1, CloseFacts DEF Closes, IInv, StreamTypeOK
  <2> QED BY <2>2, OutboundClose
<1>9. CASE \/ UNCHANGED streamVars \/ poll_read
           \/ NotifyRead \/ CancelRead \/ NotifyWrite \/ CancelWrite
  <2>1. UNCHANGED <<peer, sock, written>>
    BY <1>9 DEF streamVars, sockVars, writeVars, poll_read, NotifyRead, CancelRead, NotifyWrite,
                CancelWrite, Notifies, Nudge
  <2> QED BY <2>1, OutboundClose
<1> QED
    BY <1>2, <1>3, <1>4, <1>5, <1>6, <1>7, <1>8, <1>9 DEF StreamNext, StreamRunner, allVars

(* What the peer gets is what poll_write took, in order and once; the FIN  *)
(* of poll_shutdown or Drop reaches it after all of it.                    *)
THEOREM WritesThePipe == StreamSpec => OutboundPipe
<1>1. StreamInit => Outbound!Init
  <2> SUFFICES ASSUME StreamInit PROVE Outbound!Init
    OBVIOUS
  <2>1. /\ peer.said = Nothing /\ sock.state = "Established" /\ written = 0
        /\ peer.got = 0 /\ peer.end = FALSE
    BY Zenon DEF StreamInit
  <2>2. Nothing.rst = FALSE
    BY DEF Nothing
  <2>3. (~ may_send(sock)) = FALSE
    BY <2>1 DEF may_send
  <2> QED BY <2>1, <2>2, <2>3 DEF Outbound!Init
<1> QED BY <1>1, InitHolds, StepKeeps, OutboundStep, PTL DEF StreamSpec, OutboundPipe, Outbound!Spec

(***************************************************************************)
(* A dropped stream is reaped after it has delivered everything.           *)
(***************************************************************************)

(* The states a socket reaches only when its FIN was acknowledged, or by a *)
(* reset; the peer acknowledges the FIN once it has it.                    *)
FinDone(s) == s.state \in {"FinWait2", "TimeWait", "Closed"}

ReapInv ==
    /\ peer.said.ack_fin => peer.end
    /\ FinDone(sock) => peer.said.rst \/ peer.said.ack_fin
    /\ stream = "reaped" => sock.state = "Closed"

(* Processing a packet leads there only by an acknowledgement of the FIN   *)
(* or by a reset; sending, and the close of the application, never do.     *)
LEMMA FinDoneBy ==
    ASSUME NEW s \in Socket, NEW seg \in Segment
    PROVE  /\ FinDone(processed(s, seg)) => FinDone(s) \/ seg.ack_fin \/ seg.rst
           /\ FinDone(CloseIfOpen(s)) => FinDone(s)
           /\ s.state = "Closed" => CloseIfOpen(s) = s
<1> DEFINE ackd == IF seg.ack_fin THEN OnAckOfFin(s) ELSE s
           find == IF seg.fin THEN OnFin(ackd) ELSE ackd
<1>1. /\ ackd \in [peer : {"peer", NoPeer}, state : SocketState, sent : {"nothing", "syn", "fin"}]
      /\ ~ seg.ack_fin => ackd = s
    BY Zenon DEF Socket, SocketState, OnAckOfFin
<1> HIDE DEF ackd
<1>2. FinDone(find) => FinDone(ackd)
    BY <1>1 DEF FinDone, SocketState, OnFin
<1> HIDE DEF find
<1>3. processed(s, seg) = IF s.state = "Closed" THEN s ELSE IF seg.rst THEN OnReset(find) ELSE find
    BY DEF processed, find, ackd
<1>4. FinDone(processed(s, seg)) => FinDone(s) \/ seg.ack_fin \/ seg.rst
    BY <1>1, <1>2, <1>3
<1>5. FinDone(CloseIfOpen(s)) => FinDone(s)
    BY DEF FinDone, Socket, SocketState, CloseIfOpen, is_open, close
<1>6. s.state = "Closed" => CloseIfOpen(s) = s
    BY DEF CloseIfOpen, is_open
<1> QED BY <1>4, <1>5, <1>6

(* The newest packet acknowledges the FIN only if the peer has said so. *)
LEMMA NewestAckFin ==
    ASSUME IInv, NEW seg \in Newest
    PROVE  seg.ack_fin => peer.said.ack_fin
<1>1. peer.said.ack_fin \in BOOLEAN
    BY DEF IInv, StreamTypeOK, Peer, Segment
<1>2. \/ seg = Nothing \/ seg = peer.said
      \/ seg \in [seq : rcvd .. peer.said.seq, fin : {FALSE, peer.said.fin},
                  rst : {FALSE, peer.said.rst},
                  ack : acked .. peer.said.ack, ack_fin : {FALSE, peer.said.ack_fin}]
    BY Zenon DEF Newest
<1>3. ~ Nothing.ack_fin
    BY DEF Nothing
<1> QED BY Zenon, <1>1, <1>2, <1>3

(* Every step keeps it. *)
LEMMA ReapStep == ASSUME IInv, ReapInv, [StreamNext]_allVars PROVE ReapInv'
<1>1. sock \in Socket /\ peer \in Peer /\ peer.said \in Segment
    BY DEF IInv, StreamTypeOK, Peer
<1>2. ASSUME NEW seg \in Segment, PeerSends(seg), peer.said.rst => seg.rst PROVE ReapInv'
  <2>1. /\ peer'.said = Acknowledges(seg) /\ peer'.end = peer.end
        /\ sock' = sock /\ stream' = stream
    BY Zenon, <1>1, <1>2 DEF PeerSends, Peer, sockVars
  <2>2. Acknowledges(seg).ack_fin = peer.end /\ Acknowledges(seg).rst = seg.rst
    BY Zenon, <1>2 DEF Acknowledges, Segment
  <2>3. peer.said.ack_fin => peer'.said.ack_fin
    BY <2>1, <2>2 DEF ReapInv
  <2> QED BY <1>2, <2>1, <2>2, <2>3 DEF ReapInv, FinDone
<1>3. CASE PeerWrites \/ PeerCloses \/ PeerResets \/ PeerAcks
  <2>1. /\ [peer.said EXCEPT !.seq = @ + 1] \in Segment
        /\ [peer.said EXCEPT !.seq = @ + 1].rst = peer.said.rst
    BY <1>1 DEF Segment
  <2>2. /\ [peer.said EXCEPT !.fin = TRUE] \in Segment
        /\ [peer.said EXCEPT !.fin = TRUE].rst = peer.said.rst
    BY Zenon, <1>1 DEF Segment
  <2>3. [peer.said EXCEPT !.rst = TRUE] \in Segment /\ [peer.said EXCEPT !.rst = TRUE].rst
    BY Zenon, <1>1 DEF Segment
  <2> QED BY Zenon, <1>1, <1>2, <1>3, <2>1, <2>2, <2>3 DEF PeerWrites, PeerCloses, PeerResets, PeerAcks
<1>4. CASE PeerReceives
  <2>1. peer'.said = peer.said /\ (peer.end => peer'.end) /\ sock' = sock /\ stream' = stream
    BY <1>4, ReceivedFacts DEF PeerReceives, sockVars
  <2> QED BY <2>1 DEF ReapInv, FinDone
<1>5. ASSUME NEW seg \in Newest, PollStream(seg) PROVE ReapInv'
  <2> DEFINE proc == processed(sock, seg)
  <2>1. /\ sock' = IF told'.fin THEN dispatched(proc, FALSE) ELSE proc
        /\ stream' = reaped(sock') /\ peer' = peer
    BY Zenon, <1>5 DEF PollStream
  <2>2. seg \in Segment /\ (seg.rst => peer.said.rst) /\ (seg.ack_fin => peer.said.ack_fin)
    BY NewestFacts, NewestAckFin
  <2>3. proc \in Socket /\ SockInv(proc) /\ (sock.state = "Closed" => proc = sock)
    BY <1>1, <2>2, ProcessedFacts DEF IInv
  <2>4. FinDone(proc) => FinDone(sock) \/ seg.ack_fin \/ seg.rst
    BY Zenon, <1>1, <2>2, FinDoneBy
  <2> HIDE DEF proc
  <2>5. sock'.state = proc.state
    BY Zenon, <2>1, <2>3, DispatchedFacts
  <2>6. FinDone(sock') => peer'.said.rst \/ peer'.said.ack_fin
    BY Zenon, <2>1, <2>2, <2>4, <2>5 DEF ReapInv, FinDone
  <2>7. stream' = "reaped" => sock'.state = "Closed"
    BY Zenon, <2>1, <2>3, <2>5 DEF ReapInv, reaped
  <2> QED BY Zenon, <2>1, <2>6, <2>7 DEF ReapInv
<1>6. CASE ExpireTimeWait
  <2>1. FinDone(sock) /\ peer' = peer /\ stream' = reaped(sock') /\ sock.state = "TimeWait"
    BY <1>6 DEF ExpireTimeWait, FinDone
  <2>2. stream' = "reaped" => sock'.state = "Closed"
    BY Zenon, <2>1 DEF ReapInv, reaped
  <2> QED BY Zenon, <2>1, <2>2 DEF ReapInv
<1>7. CASE poll_shutdown \/ drop_stream
  <2>1. /\ sock' = CloseIfOpen(sock) /\ peer' = peer /\ stream = "held" /\ stream' \in {"held", "dropped"}
    BY Zenon, <1>7 DEF poll_shutdown, drop_stream, Closes
  <2>2. FinDone(sock') => FinDone(sock)
    BY Zenon, <1>1, <2>1, FinDoneBy
  <2> QED BY <2>1, <2>2 DEF ReapInv
<1>8. CASE \/ UNCHANGED streamVars \/ poll_read \/ poll_write
           \/ NotifyRead \/ CancelRead \/ NotifyWrite \/ CancelWrite
  <2>1. UNCHANGED <<peer, sock, stream>>
    BY Zenon, <1>8 DEF streamVars, sockVars, poll_read, poll_write, NotifyRead, CancelRead,
                       NotifyWrite, CancelWrite, Notifies
  <2> QED BY <2>1 DEF ReapInv, FinDone
<1> QED
    BY Zenon, <1>3, <1>4, <1>5, <1>6, <1>7, <1>8
    DEF StreamNext, StreamRunner, allVars

(* What was written before a stream was dropped is not lost with it: the   *)
(* runner reaps the socket of an orphan only once it is Closed, and close  *)
(* (not abort) in Drop lets it get there only after the peer acknowledged  *)
(* the FIN that follows all the data, or reset the connection.             *)
THEOREM ReapedDelivered == StreamSpec => []ReapedAfterDelivery
<1>1. StreamInit => ReapInv
  <2> SUFFICES ASSUME StreamInit PROVE ReapInv
    OBVIOUS
  <2>1. stream = "held" /\ sock.state = "Established" /\ peer.said = Nothing
    BY Zenon DEF StreamInit
  <2>2. ~ Nothing.ack_fin
    BY DEF Nothing
  <2> QED BY <2>1, <2>2 DEF ReapInv, FinDone
<1>2. IInv /\ ReapInv => ReapedAfterDelivery
    BY Zenon DEF IInv, OutOrder, ReapInv, FinDone, ReapedAfterDelivery
<1> QED BY <1>1, <1>2, InitHolds, StepKeeps, ReapStep, PTL DEF StreamSpec
=============================================================================
