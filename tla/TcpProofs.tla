----------------------------- MODULE TcpProofs -----------------------------
(***************************************************************************)
(* Every step keeps the TCP table, its sockets and the streams consistent. *)
(* Step lemmas for the theorems of RunnerProofs.                           *)
(***************************************************************************)
EXTENDS Runner, FiniteSetTheorems, TLAPS

(* Entries, sockets and streams; the part of the inductive invariant that  *)
(* is about TCP.                                                           *)
TcpInv ==
    /\ TcpTypeOK
    /\ DOMAIN tsock \subseteq Place
    /\ IsFiniteSet(DOMAIN tcp)
    /\ \A k \in DOMAIN tcp : PlaceOf(k) \in DOMAIN tsock /\ tsock[PlaceOf(k)].dst = k.dst
    /\ \A j, k \in DOMAIN tcp : PlaceOf(j) = PlaceOf(k) => j = k
    /\ \A c \in DOMAIN tsock : \E k \in DOMAIN tcp : PlaceOf(k) = c
    /\ \A k \in DOMAIN tcp : tcp[k].orphaned => tcp[k].state # "Pending"
    /\ StreamsServed

(* An entry for a new SYN: the socket is added at a free place. *)
LEMMA AllocTcpInv ==
    ASSUME TcpInv, NEW k \in SessionKey, WantsTcpEntry(k), alloc_tcp(k)
    PROVE  TcpInv'
<1>1. PICK h \in Handle :
        /\ FirstFree(k.interface, h)
        /\ tsock' = Insert(tsock, <<k.interface, h>>, Listening(k.dst))
        /\ tcp' = Insert(tcp, k, [handle |-> h, state |-> "Pending", orphaned |-> FALSE])
    BY Zenon DEF alloc_tcp
<1> DEFINE c == <<k.interface, h>>
           e == [handle |-> h, state |-> "Pending", orphaned |-> FALSE]
<1>2. streams' = streams
    BY DEF alloc_tcp
<1>3. c \notin DOMAIN tsock /\ k \notin DOMAIN tcp
    BY <1>1 DEF FirstFree, UsedPlaces, WantsTcpEntry
<1>4. /\ DOMAIN tcp' = DOMAIN tcp \cup {k} /\ tcp'[k] = e
      /\ \A x \in DOMAIN tcp : tcp'[x] = tcp[x]
    BY <1>1, <1>3 DEF Insert
<1>5. /\ DOMAIN tsock' = DOMAIN tsock \cup {c} /\ tsock'[c] = Listening(k.dst)
      /\ \A x \in DOMAIN tsock : tsock'[x] = tsock[x]
    BY <1>1, <1>3 DEF Insert
<1>6. k.interface \in Interface /\ k.dst \in Dst /\ c \in Place
    BY DEF SessionKey, Place
<1>7. e \in TcpEntry /\ Listening(k.dst) \in TcpSocket
    BY <1>6 DEF TcpEntry, TcpSocket, Listening, SocketState
<1>8. TcpTypeOK'
  <2>1. tcp' \in [DOMAIN tcp' -> TcpEntry]
      BY <1>1, <1>3, <1>7 DEF TcpInv, TcpTypeOK, Insert
  <2>2. tsock' \in [DOMAIN tsock' -> TcpSocket]
      BY <1>1, <1>3, <1>7 DEF TcpInv, TcpTypeOK, Insert
  <2> QED BY <2>1, <2>2, <1>2, <1>4 DEF TcpInv, TcpTypeOK
<1>9. (PlaceOf(k))' = c /\ \A j \in DOMAIN tcp : (PlaceOf(j))' = PlaceOf(j)
    BY <1>4 DEF PlaceOf
<1>10. \A j \in DOMAIN tcp : PlaceOf(j) # c
    BY <1>3 DEF TcpInv
<1>11. DOMAIN tsock' \subseteq Place
    BY <1>5, <1>6 DEF TcpInv
<1>12. IsFiniteSet(DOMAIN tcp')
    BY <1>4, FS_AddElement DEF TcpInv
<1>13. \A j \in DOMAIN tcp' : (PlaceOf(j))' \in DOMAIN tsock' /\ tsock'[(PlaceOf(j))'].dst = j.dst
    BY <1>4, <1>5, <1>9 DEF TcpInv, Listening
<1>14. \A i, j \in DOMAIN tcp' : (PlaceOf(i))' = (PlaceOf(j))' => i = j
    BY <1>4, <1>9, <1>10 DEF TcpInv
<1>15. \A d \in DOMAIN tsock' : \E j \in DOMAIN tcp' : (PlaceOf(j))' = d
    BY <1>4, <1>5, <1>9 DEF TcpInv
<1>17. \A j \in DOMAIN tcp' : tcp'[j].orphaned => tcp'[j].state # "Pending"
  <2>1. ~ tcp'[k].orphaned
    BY <1>4
  <2>2. \A j \in DOMAIN tcp : tcp[j].orphaned => tcp[j].state # "Pending"
    BY Zenon DEF TcpInv
  <2> QED BY Zenon, <1>4, <2>1, <2>2
<1>16. StreamsServed'
  <2>1. tcp'[k].state = "Pending"
    BY <1>4
  <2>2. StreamsServed
    BY Zenon DEF TcpInv
  <2> QED BY Zenon, <1>2, <1>4, <2>1, <2>2, <1>3 DEF StreamsServed
<1> QED
    BY <1>8, <1>11, <1>12, <1>13, <1>14, <1>15, <1>16, <1>17 DEF TcpInv

(* smoltcp's transitions keep a socket a socket, bound where it was. *)
LEMMA SocketSteps ==
    ASSUME NEW s \in TcpSocket
    PROVE  /\ CloseIfOpen(s) \in TcpSocket /\ CloseIfOpen(s).dst = s.dst
           /\ \A p \in Packet : process(s, p) \in TcpSocket /\ process(s, p).dst = s.dst
           /\ \A x \in BOOLEAN : dispatched(s, x) \in TcpSocket /\ dispatched(s, x).dst = s.dst
<1>1. CloseIfOpen(s) \in TcpSocket /\ CloseIfOpen(s).dst = s.dst
    BY DEF CloseIfOpen, close, TcpSocket, SocketState
<1>2. ASSUME NEW p \in Packet
      PROVE  process(s, p) \in TcpSocket /\ process(s, p).dst = s.dst
  <2>1. p.src \in Src
      BY PacketAssumption
  <2>2. OnReset(s) \in TcpSocket /\ OnReset(s).dst = s.dst
      BY Zenon DEF OnReset, TcpSocket, SocketState
  <2>3. OnAck(s) \in TcpSocket /\ OnAck(s).dst = s.dst
      BY DEF OnAck, TcpSocket, SocketState
  <2>4. OnAckOfFin(s) \in TcpSocket /\ OnAckOfFin(s).dst = s.dst
      BY Zenon DEF OnAckOfFin, TcpSocket, SocketState
  <2>5. OnFin(s) \in TcpSocket /\ OnFin(s).dst = s.dst
      BY DEF OnFin, TcpSocket, SocketState
  <2>6. CASE p.flag = "syn"
    <3>1. [s EXCEPT !.state = "SynReceived", !.peer = p.src] \in TcpSocket
        BY Zenon, <2>1 DEF TcpSocket, SocketState
    <3> QED BY <2>6, <3>1 DEF process, TcpSocket
  <2>7. CASE p.flag # "syn"
      BY <2>2, <2>3, <2>4, <2>5, <2>7 DEF process
  <2> QED BY <2>6, <2>7
<1>3. ASSUME NEW x \in BOOLEAN
      PROVE  dispatched(s, x) \in TcpSocket /\ dispatched(s, x).dst = s.dst
    BY Zenon DEF dispatched, TcpSocket, SocketState
<1> QED BY <1>1, <1>2, <1>3

(* Steps of the sockets that leave the table alone. *)
LEMMA SocketsMove ==
    ASSUME TcpInv, UNCHANGED <<tcp, streams>>,
           DOMAIN tsock' = DOMAIN tsock,
           tsock' \in [DOMAIN tsock' -> TcpSocket],
           \A c \in DOMAIN tsock : tsock'[c].dst = tsock[c].dst
    PROVE  TcpInv'
<1>1. TcpTypeOK'
    BY DEF TcpInv, TcpTypeOK
<1>2. StreamsServed'
    BY DEF TcpInv, StreamsServed
<1>3. \A k : (PlaceOf(k))' = PlaceOf(k)
    BY DEF PlaceOf
<1> QED BY <1>1, <1>2, <1>3 DEF TcpInv

(* A segment moves the one socket it is delivered to. *)
LEMMA DeliverTcpInv ==
    ASSUME TcpInv, NEW i \in Interface, NEW p \in Packet, deliver_tcp(i, p)
    PROVE  TcpInv'
<1>1. UNCHANGED <<tcp, streams>>
    BY DEF deliver_tcp
<1>2. CASE Accepting(i, p) = {}
    BY <1>1, <1>2, SocketsMove DEF deliver_tcp, TcpInv, TcpTypeOK
<1>3. CASE Accepting(i, p) # {}
  <2>1. PICK h \in Accepting(i, p) : tsock' = [tsock EXCEPT ![<<i, h>>] = process(@, p)]
      BY Zenon, <1>3 DEF deliver_tcp
  <2>2. <<i, h>> \in DOMAIN tsock
      BY DEF Accepting
  <2>3. tsock[<<i, h>>] \in TcpSocket
      BY <2>2 DEF TcpInv, TcpTypeOK
  <2>4. process(tsock[<<i, h>>], p) \in TcpSocket
        /\ process(tsock[<<i, h>>], p).dst = tsock[<<i, h>>].dst
      BY <2>3, SocketSteps
  <2>5. DOMAIN tsock' = DOMAIN tsock
      BY <2>1
  <2>6. tsock' \in [DOMAIN tsock' -> TcpSocket]
      BY Zenon, <2>1, <2>4, <2>5 DEF TcpInv, TcpTypeOK
  <2>7. \A c \in DOMAIN tsock : tsock'[c].dst = tsock[c].dst
      BY <2>1, <2>4
  <2> QED BY <1>1, <2>5, <2>6, <2>7, SocketsMove
<1> QED BY <1>2, <1>3

(* The first loop of post_pass: a new stream belongs to an entry that was  *)
(* Pending, hence had no stream and is no orphan.                          *)
LEMMA AcceptTcpInv ==
    ASSUME TcpInv, accept_tcp
    PROVE  TcpInv'
<1>1. UNCHANGED tsock
    BY DEF accept_tcp, coreVars
<1>2. /\ DOMAIN tcp' = DOMAIN tcp
      /\ \A k \in DOMAIN tcp : tcp'[k] = [tcp[k] EXCEPT !.state = transition(tcp[k], tsock[PlaceOf(k)])]
    BY DEF accept_tcp
<1>3. \A k \in DOMAIN tcp : tcp[k] \in TcpEntry
    BY DEF TcpInv, TcpTypeOK
<1>4. \A k \in DOMAIN tcp : transition(tcp[k], tsock[PlaceOf(k)]) \in {"Pending", "Established", "Closed"}
    BY <1>3 DEF transition, TcpEntry
<1>5. \A k \in DOMAIN tcp :
        /\ tcp'[k] \in TcpEntry
        /\ tcp'[k].handle = tcp[k].handle
        /\ tcp'[k].orphaned = tcp[k].orphaned
        /\ tcp'[k].state = transition(tcp[k], tsock[PlaceOf(k)])
    BY <1>2, <1>3, <1>4 DEF TcpEntry
<1>6. \A k \in DOMAIN tcp : tcp'[k].state = "Pending" => tcp[k].state = "Pending"
    BY <1>3, <1>5 DEF transition, TcpEntry
<1>7. \A k \in DOMAIN tcp : (PlaceOf(k))' = PlaceOf(k)
    BY Zenon, <1>5 DEF PlaceOf
<1>8. streams' = streams \cup NewStreams
    BY DEF accept_tcp
<1>9. \A st \in NewStreams :
        /\ st \in WayTcpStream
        /\ st.key \in DOMAIN tcp
        /\ st.handle = tcp[st.key].handle
        /\ tcp[st.key].state = "Pending"
        /\ tcp'[st.key].state = "Established"
    BY <1>3, <1>5, SMTT(30) DEF NewStreams, WayTcpStream, TcpInv, TcpTypeOK, TcpEntry
<1>10. \A k \in DOMAIN tcp : tcp[k].state = "Pending" /\ tcp'[k].state # "Pending"
                              => \E st \in NewStreams : st.key = k
  <2> SUFFICES ASSUME NEW k \in DOMAIN tcp, tcp[k].state = "Pending", tcp'[k].state # "Pending"
               PROVE  \E st \in NewStreams : st.key = k
      OBVIOUS
  <2>1. transition(tcp[k], tsock[PlaceOf(k)]) = "Established"
      BY <1>5 DEF transition
  <2>2. [key |-> k, handle |-> tcp[k].handle] \in NewStreams
      BY <2>1 DEF NewStreams
  <2> QED BY <2>2
<1>11. TcpTypeOK'
  <2>1. tcp' \in [DOMAIN tcp' -> TcpEntry]
      BY <1>2, <1>5 DEF accept_tcp
  <2> QED BY <2>1, <1>1, <1>2, <1>8, <1>9 DEF TcpInv, TcpTypeOK
<1>12. StreamsServed'
  <2>1. \A st \in streams' :
           /\ st.key \in DOMAIN tcp'
           /\ tcp'[st.key].handle = st.handle
           /\ tcp'[st.key].state # "Pending"
           /\ ~ tcp'[st.key].orphaned
      BY <1>2, <1>5, <1>6, <1>8, <1>9 DEF TcpInv, StreamsServed
  <2>2. \A k \in DOMAIN tcp' :
           tcp'[k].orphaned \/ tcp'[k].state = "Pending" \/ \E st \in streams' : st.key = k
      BY <1>2, <1>5, <1>8, <1>10 DEF TcpInv, StreamsServed
  <2> QED BY <2>1, <2>2 DEF StreamsServed
<1>13. \A k \in DOMAIN tcp' : tcp'[k].orphaned => tcp'[k].state # "Pending"
    BY <1>2, <1>5, <1>6 DEF TcpInv
<1> QED BY <1>1, <1>2, <1>7, <1>11, <1>12, <1>13 DEF TcpInv

(* Reaping removes an orphan, which no stream refers to, and its socket. *)
LEMMA ReapTcpInv ==
    ASSUME TcpInv, NEW k \in DOMAIN tcp, Reapable(k), reap_tcp(k)
    PROVE  TcpInv'
<1>1. streams' = streams
    BY DEF reap_tcp
<1>2. /\ DOMAIN tcp' = DOMAIN tcp \ {k}
      /\ \A x \in DOMAIN tcp' : tcp'[x] = tcp[x]
    BY DEF reap_tcp, sockets_after_reap, Remove, Restrict
<1>3. /\ DOMAIN tsock' = DOMAIN tsock \ {PlaceOf(k)}
      /\ \A x \in DOMAIN tsock' : tsock'[x] = tsock[x]
    BY DEF reap_tcp, sockets_after_reap, Remove, Restrict
<1>4. \A x \in DOMAIN tcp' : (PlaceOf(x))' = PlaceOf(x)
    BY <1>2 DEF PlaceOf
<1>5. TcpTypeOK'
  <2>1. tcp' \in [DOMAIN tcp' -> TcpEntry]
      BY <1>2 DEF reap_tcp, sockets_after_reap, Remove, Restrict, TcpInv, TcpTypeOK
  <2>2. tsock' \in [DOMAIN tsock' -> TcpSocket]
      BY <1>3 DEF reap_tcp, sockets_after_reap, Remove, Restrict, TcpInv, TcpTypeOK
  <2> QED BY <2>1, <2>2, <1>1, <1>2 DEF TcpInv, TcpTypeOK
<1>6. StreamsServed'
    BY <1>1, <1>2, SMTT(30) DEF TcpInv, StreamsServed, Reapable
<1>7. IsFiniteSet(DOMAIN tcp')
    BY <1>2, FS_RemoveElement DEF TcpInv
<1>8. \A x \in DOMAIN tcp' : (PlaceOf(x))' \in DOMAIN tsock' /\ tsock'[(PlaceOf(x))'].dst = x.dst
    BY <1>2, <1>3, <1>4 DEF TcpInv
<1>9. \A c \in DOMAIN tsock' : \E x \in DOMAIN tcp' : (PlaceOf(x))' = c
    BY <1>2, <1>3, <1>4 DEF TcpInv
<1> QED BY <1>2, <1>3, <1>4, <1>5, <1>6, <1>7, <1>8, <1>9 DEF TcpInv

(* poll_shutdown closes the stream's socket. *)
LEMMA ShutdownInv ==
    ASSUME TcpInv, NEW st \in streams, poll_shutdown(st)
    PROVE  TcpInv'
<1> DEFINE c == <<st.key.interface, st.handle>>
<1>1. c \in DOMAIN tsock
    BY DEF TcpInv, StreamsServed, PlaceOf
<1>2. tsock[c] \in TcpSocket
    BY <1>1 DEF TcpInv, TcpTypeOK
<1>3. CloseIfOpen(tsock[c]) \in TcpSocket /\ CloseIfOpen(tsock[c]).dst = tsock[c].dst
    BY <1>2, SocketSteps
<1>4. tsock' = [tsock EXCEPT ![c] = CloseIfOpen(tsock[c])] /\ UNCHANGED <<tcp, streams>>
    BY DEF poll_shutdown
<1>5. /\ DOMAIN tsock' = DOMAIN tsock
      /\ \A d \in DOMAIN tsock : tsock'[d].dst = tsock[d].dst
    BY <1>3, <1>4
<1>6. tsock' \in [DOMAIN tsock' -> TcpSocket]
    BY Zenon, <1>3, <1>4 DEF TcpInv, TcpTypeOK
<1> QED BY <1>4, <1>5, <1>6, SocketsMove

(* Drop: the stream goes, and its entry becomes an orphan. *)
LEMMA DropStreamInv ==
    ASSUME TcpInv, NEW st \in streams, drop_stream(st)
    PROVE  TcpInv'
<1> DEFINE c == <<st.key.interface, st.handle>>
           k == st.key
<1>1. /\ k \in DOMAIN tcp /\ PlaceOf(k) = c /\ c \in DOMAIN tsock
      /\ tcp[k].state # "Pending"
    BY DEF TcpInv, StreamsServed, PlaceOf
<1>2. tsock[c] \in TcpSocket
    BY <1>1 DEF TcpInv, TcpTypeOK
<1>3. CloseIfOpen(tsock[c]) \in TcpSocket /\ CloseIfOpen(tsock[c]).dst = tsock[c].dst
    BY <1>2, SocketSteps
<1>4. /\ tsock' = [tsock EXCEPT ![c] = CloseIfOpen(tsock[c])]
      /\ tcp' = [tcp EXCEPT ![k].orphaned = TRUE]
      /\ streams' = streams \ {st}
    BY <1>1 DEF drop_stream, orphan
<1>5. /\ DOMAIN tsock' = DOMAIN tsock
      /\ \A d \in DOMAIN tsock : tsock'[d].dst = tsock[d].dst
      /\ tsock' \in [DOMAIN tsock' -> TcpSocket]
    BY Zenon, <1>3, <1>4 DEF TcpInv, TcpTypeOK
<1>6. /\ DOMAIN tcp' = DOMAIN tcp
      /\ tcp'[k] = [tcp[k] EXCEPT !.orphaned = TRUE]
      /\ \A x \in DOMAIN tcp \ {k} : tcp'[x] = tcp[x]
    BY <1>1, <1>4
<1>12. \A x \in DOMAIN tcp : /\ tcp'[x].handle = tcp[x].handle
                             /\ tcp'[x].state = tcp[x].state
                             /\ tcp'[x] \in TcpEntry
  <2>1. \A x \in DOMAIN tcp : tcp[x] \in TcpEntry
      BY DEF TcpInv, TcpTypeOK
  <2>2. \A e \in TcpEntry : /\ [e EXCEPT !.orphaned = TRUE] \in TcpEntry
                            /\ [e EXCEPT !.orphaned = TRUE].handle = e.handle
                            /\ [e EXCEPT !.orphaned = TRUE].state = e.state
      BY Zenon DEF TcpEntry
  <2> QED BY <1>1, <1>6, <2>1, <2>2, ZenonT(60)
<1>13. tcp'[k].orphaned
    BY <1>1, <1>6 DEF TcpInv, TcpTypeOK, TcpEntry
<1>7. \A x \in DOMAIN tcp : (PlaceOf(x))' = PlaceOf(x)
    BY <1>12 DEF PlaceOf
<1>8. \A other \in streams : other.key = k => other = st
    BY DEF TcpInv, TcpTypeOK, WayTcpStream, StreamsServed
<1>9. TcpTypeOK'
  <2>1. tcp' \in [DOMAIN tcp' -> TcpEntry]
      BY Zenon, <1>4, <1>6, <1>12
  <2> QED BY <2>1, <1>4, <1>5, <1>6 DEF TcpInv, TcpTypeOK
<1>10. StreamsServed'
  <2>1. \A o \in streams' :
           /\ o.key \in DOMAIN tcp'
           /\ tcp'[o.key].handle = o.handle
           /\ tcp'[o.key].state # "Pending"
           /\ ~ tcp'[o.key].orphaned
      BY <1>4, <1>6, <1>8, <1>12 DEF TcpInv, StreamsServed
  <2>2. \A x \in DOMAIN tcp' :
           tcp'[x].orphaned \/ tcp'[x].state = "Pending" \/ \E o \in streams' : o.key = x
      BY <1>4, <1>6, <1>12, <1>13 DEF TcpInv, StreamsServed
  <2> QED BY <2>1, <2>2 DEF StreamsServed
<1>11. \A x \in DOMAIN tcp' : tcp'[x].orphaned => tcp'[x].state # "Pending"
    BY <1>1, <1>6, <1>12 DEF TcpInv
<1> QED BY <1>5, <1>6, <1>7, <1>9, <1>10, <1>11 DEF TcpInv
=============================================================================
