----------------------------- MODULE UdpProofs -----------------------------
(***************************************************************************)
(* Every step keeps the UDP tables, the shared sockets and the session     *)
(* objects consistent.  Step lemmas for the theorems of RunnerProofs.      *)
(***************************************************************************)
EXTENDS Runner, FiniteSetTheorems, TLAPS

DstPlace(id) == <<id[1], udp_dst_sockets[id].handle>>

(* The tables and the sockets. *)
UdpTables ==
    /\ usock \in [DOMAIN usock -> UdpSocket]
    /\ \A c \in DOMAIN usock : Len(usock[c].rx) <= udp_packets
    /\ DOMAIN usock \subseteq Place
    /\ DOMAIN udp \subseteq SessionKey
    /\ udp \in [DOMAIN udp -> UdpEntry]
    /\ DOMAIN udp_dst_sockets \subseteq Interface \X Dst
    /\ udp_dst_sockets \in [DOMAIN udp_dst_sockets -> [handle : Handle, count : Nat]]
    /\ IsFiniteSet(DOMAIN udp)
    /\ IsFiniteSet(DOMAIN udp_dst_sockets)
    /\ \A id \in DOMAIN udp_dst_sockets :
          DstPlace(id) \in DOMAIN usock /\ usock[DstPlace(id)].dst = id[2]
    /\ \A id, jd \in DOMAIN udp_dst_sockets : DstPlace(id) = DstPlace(jd) => id = jd
    /\ \A c \in DOMAIN usock : \E id \in DOMAIN udp_dst_sockets : DstPlace(id) = c
    /\ RefCountExact

(* The session objects. *)
SessionInv ==
    /\ DOMAIN sessions \subseteq Sid
    /\ sessions \in [DOMAIN sessions -> WayUdpSession]
    /\ OpenSessionsServed
    /\ OwnTrafficOnly

UdpInv == UdpTables /\ SessionInv

(* The sizes alloc_udp computes are natural numbers. *)
LEMMA UdpSizes == udp_packets \in Nat /\ udp_packets > 0 /\ udp_per_socket_bytes \in Nat
BY CoreAssumption DEF udp_packets, udp_per_socket_bytes, AtLeast

(* Reading a datagram out of a socket, or adding one to a transmit buffer, *)
(* takes nothing out of any transmit buffer.                               *)
LEMMA TxKept ==
    ASSUME NEW u, u \in [DOMAIN u -> UdpSocket], NEW c \in DOMAIN u, NEW q, NEW w,
           w = [u EXCEPT ![q].rx = unread(@)] \/ w = [u EXCEPT ![q].tx = @ + 1]
    PROVE  c \in DOMAIN w /\ w[c].tx >= u[c].tx
<1>1. u[c] \in UdpSocket /\ u[c].tx \in Nat
    BY UdpSizes DEF UdpSocket
<1>2. c \in DOMAIN w /\ (w[c].tx = u[c].tx \/ w[c].tx = u[c].tx + 1)
  <2>1. CASE w = [u EXCEPT ![q].rx = unread(@)]
    BY <1>1, <2>1 DEF UdpSocket
  <2>2. CASE w = [u EXCEPT ![q].tx = @ + 1]
    BY <1>1, <2>2 DEF UdpSocket
  <2> QED BY <2>1, <2>2
<1> QED BY <1>1, <1>2

(* A socket that stays what it is keeps what it has to send. *)
LEMMA TxOfSame == ASSUME NEW s \in UdpSocket, NEW r, r = s PROVE r.tx >= s.tx
<1>1. s.tx \in Nat
    BY UdpSizes DEF UdpSocket
<1> QED BY <1>1

(* A finite set with at most one element is the singleton of its member. *)
LEMMA OneMember ==
    ASSUME NEW S, IsFiniteSet(S), NEW x \in S, Cardinality(S) <= 1
    PROVE  S = {x}
<1>1. IsFiniteSet(S \ {x}) /\ Cardinality(S \ {x}) = Cardinality(S) - 1
    BY FS_RemoveElement
<1>2. Cardinality(S) \in Nat /\ Cardinality(S \ {x}) \in Nat
    BY <1>1, FS_CardinalityType
<1>3. Cardinality(S \ {x}) = 0
    BY <1>1, <1>2
<1>4. S \ {x} = {}
    BY <1>1, <1>3, FS_EmptySet
<1> QED BY <1>4

(* A new session: the first of its destination brings a socket at a free   *)
(* place, a later one joins those that share the socket.                   *)
LEMMA AllocUdpTables ==
    ASSUME UdpTables, NEW k \in SessionKey, WantsUdpEntry(k), alloc_udp(k)
    PROVE  UdpTables'
<1>1. PICK h \in Handle, s \in Sid :
        /\ udp_socket_for(k, h)
        /\ udp_dst_sockets' = retained(k, h)
        /\ udp' = Insert(udp, k, [socket |-> h, queue |-> s, idle |-> 0])
    BY DEF alloc_udp
<1> DEFINE id == DstId(k)
           c  == <<k.interface, h>>
           e  == [socket |-> h, queue |-> s, idle |-> 0]
           n  == IF Fresh(k) THEN 1 ELSE udp_dst_sockets[id].count + 1
<1>2. k \notin DOMAIN udp
    BY DEF WantsUdpEntry
<1>3. k.interface \in Interface /\ k.dst \in Dst /\ id \in Interface \X Dst /\ c \in Place
      /\ id[1] = k.interface /\ id[2] = k.dst
    BY DEF SessionKey, Place, DstId
<1>4. /\ DOMAIN udp' = DOMAIN udp \cup {k} /\ udp'[k] = e
      /\ \A x \in DOMAIN udp : udp'[x] = udp[x]
    BY <1>1, <1>2 DEF Insert
<1>5. /\ DOMAIN udp_dst_sockets' = DOMAIN udp_dst_sockets \cup {id}
      /\ udp_dst_sockets'[id] = [handle |-> h, count |-> n]
      /\ \A x \in DOMAIN udp_dst_sockets : x # id => udp_dst_sockets'[x] = udp_dst_sockets[x]
    BY <1>1 DEF retained, Insert
<1>6. ~ Fresh(k) => h = udp_dst_sockets[id].handle
    BY <1>1 DEF UdpTables, Fresh, udp_socket_for
<1>7. e \in UdpEntry
    BY CoreAssumption DEF UdpEntry
<1>8. n \in Nat
    BY DEF UdpTables, Fresh
<1>9. udp' \in [DOMAIN udp' -> UdpEntry]
    BY <1>1, <1>4, <1>7 DEF UdpTables, Insert
<1>10. udp_dst_sockets' \in [DOMAIN udp_dst_sockets' -> [handle : Handle, count : Nat]]
    BY <1>1, <1>5, <1>8 DEF UdpTables, retained, Insert
<1>11. IsFiniteSet(DOMAIN udp') /\ IsFiniteSet(DOMAIN udp_dst_sockets')
    BY <1>4, <1>5, FS_AddElement DEF UdpTables
<1>12. (DstPlace(id))' = c
       /\ \A x \in DOMAIN udp_dst_sockets : x # id => (DstPlace(x))' = DstPlace(x)
    BY <1>3, <1>5 DEF DstPlace
<1> HIDE DEF id, c, e, n
<1>13. /\ usock' \in [DOMAIN usock' -> UdpSocket]
       /\ \A d \in DOMAIN usock' : Len(usock'[d].rx) <= udp_packets
       /\ DOMAIN usock' = DOMAIN usock \cup {c}
       /\ usock'[c].dst = k.dst
       /\ \A d \in DOMAIN usock : usock'[d] = usock[d]
       /\ Fresh(k) => c \notin DOMAIN usock
  <2>1. CASE Fresh(k)
    <3> DEFINE u == [dst |-> k.dst, rx |-> <<>>, tx |-> 0]
    <3>1. usock' = Insert(usock, c, u) /\ c \notin DOMAIN usock
        BY <1>1, <2>1 DEF udp_socket_for, FirstFree, UsedPlaces, c
    <3>2. u \in UdpSocket /\ Len(u.rx) <= udp_packets
        BY <1>3, UdpSizes DEF UdpSocket
    <3>3. DOMAIN usock' = DOMAIN usock \cup {c} /\ usock'[c] = u
          /\ \A d \in DOMAIN usock : usock'[d] = usock[d]
        BY <3>1 DEF Insert
    <3>4. usock' \in [DOMAIN usock' -> UdpSocket]
        BY <3>1, <3>2 DEF UdpTables, Insert
    <3>5. \A d \in DOMAIN usock' : Len(usock'[d].rx) <= udp_packets
        BY <3>2, <3>3 DEF UdpTables
    <3> HIDE DEF u
    <3>6. usock'[c].dst = k.dst
        BY <3>3 DEF u
    <3> QED BY <3>1, <3>3, <3>4, <3>5, <3>6
  <2>2. CASE ~ Fresh(k)
    <3>1. usock' = usock /\ h = udp_dst_sockets[id].handle /\ id \in DOMAIN udp_dst_sockets
        BY <1>1, <2>2 DEF udp_socket_for, Fresh, id
    <3>2. DstPlace(id) = c
        BY <1>3, <3>1 DEF DstPlace, c
    <3>3. c \in DOMAIN usock /\ usock[c].dst = k.dst
        BY <1>3, <3>1, <3>2 DEF UdpTables
    <3>4. DOMAIN usock = DOMAIN usock \cup {c}
        BY <3>3
    <3>5. /\ usock \in [DOMAIN usock -> UdpSocket]
          /\ \A d \in DOMAIN usock : Len(usock[d].rx) <= udp_packets
        BY DEF UdpTables
    <3> QED BY <2>2, <3>1, <3>3, <3>4, <3>5
  <2> QED BY <2>1, <2>2
<1>14. DOMAIN usock' \subseteq Place
    BY <1>3, <1>13 DEF UdpTables
<1>15. ~ Fresh(k) => id \in DOMAIN udp_dst_sockets /\ DstPlace(id) = c
    BY <1>3, <1>6 DEF Fresh, DstPlace, id, c
<1>16. \A x \in DOMAIN udp_dst_sockets : x # id => DstPlace(x) # c
    BY <1>13, <1>15 DEF UdpTables
<1>17. \A x \in DOMAIN udp_dst_sockets' :
          (DstPlace(x))' \in DOMAIN usock' /\ usock'[(DstPlace(x))'].dst = x[2]
    BY <1>3, <1>5, <1>12, <1>13 DEF UdpTables
<1>18. \A x, y \in DOMAIN udp_dst_sockets' : (DstPlace(x))' = (DstPlace(y))' => x = y
    BY <1>5, <1>12, <1>16 DEF UdpTables
<1>19. \A d \in DOMAIN usock' : \E x \in DOMAIN udp_dst_sockets' : (DstPlace(x))' = d
  <2> SUFFICES ASSUME NEW d \in DOMAIN usock'
               PROVE  \E x \in DOMAIN udp_dst_sockets' : (DstPlace(x))' = d
      OBVIOUS
  <2>1. CASE d = c
      BY <1>5, <1>12, <2>1
  <2>2. CASE d # c
    <3>1. PICK x \in DOMAIN udp_dst_sockets : DstPlace(x) = d
        BY <1>13, <2>2 DEF UdpTables
    <3>2. x # id
        BY <1>15, <2>2, <3>1 DEF Fresh, id
    <3> QED BY <1>5, <1>12, <3>1, <3>2
  <2> QED BY <2>1, <2>2
<1>20. RefCountExact'
  <2>1. (Users(id))' = Users(id) \cup {k} /\ k \notin Users(id)
      BY <1>2, <1>4 DEF Users, id
  <2>2. \A x : x # id => (Users(x))' = Users(x)
      BY <1>4 DEF Users, id
  <2>3. IsFiniteSet(Users(id))
      BY FS_Subset DEF Users, UdpTables
  <2>4. Cardinality((Users(id))') = Cardinality(Users(id)) + 1
      BY <2>1, <2>3, FS_AddElement
  <2>5. n = Cardinality(Users(id)) + 1
    <3>1. CASE Fresh(k)
      <4>1. Users(id) = {}
          BY <3>1 DEF Users, Fresh, UdpTables, RefCountExact, id
      <4> QED BY <3>1, <4>1, FS_EmptySet DEF n
    <3>2. CASE ~ Fresh(k)
        BY <3>2 DEF Fresh, UdpTables, RefCountExact, n, id
    <3> QED BY <3>1, <3>2
  <2>6. Cardinality(Users(id)) \in Nat
      BY <2>3, FS_CardinalityType
  <2>7. \A x \in DOMAIN udp_dst_sockets' :
           /\ udp_dst_sockets'[x].count = Cardinality((Users(x))')
           /\ udp_dst_sockets'[x].count > 0
      BY <1>5, <2>2, <2>4, <2>5, <2>6 DEF UdpTables, RefCountExact
  <2>8. \A x \in DOMAIN udp' : /\ DstId(x) \in DOMAIN udp_dst_sockets'
                               /\ udp'[x].socket = udp_dst_sockets'[DstId(x)].handle
    <3>1. DstId(k) = id /\ e.socket = h /\ udp_dst_sockets'[id].handle = h
        BY <1>5 DEF id, e
    <3>2. Fresh(k) <=> id \notin DOMAIN udp_dst_sockets
        BY DEF Fresh, id
    <3> QED BY <1>4, <1>5, <1>6, <3>1, <3>2 DEF UdpTables, RefCountExact
  <2> QED BY <2>7, <2>8 DEF RefCountExact
<1> QED BY <1>3, <1>4, <1>5, <1>9, <1>10, <1>11, <1>13, <1>14, <1>17, <1>18, <1>19, <1>20
       DEF UdpTables

(* The session handed out with a new entry is open and empty. *)
LEMMA AllocUdpSessions ==
    ASSUME UdpInv, NEW k \in SessionKey, WantsUdpEntry(k), alloc_udp(k)
    PROVE  SessionInv'
<1>1. PICK h \in Handle, s \in Sid :
        /\ FreshSid(s)
        /\ udp' = Insert(udp, k, [socket |-> h, queue |-> s, idle |-> 0])
        /\ sessions' = Insert(sessions, s, [key |-> k, socket |-> h, closed |-> FALSE, inbox |-> {}])
    BY Zenon DEF alloc_udp
<1> DEFINE e == [socket |-> h, queue |-> s, idle |-> 0]
           r == [key |-> k, socket |-> h, closed |-> FALSE, inbox |-> {}]
<1>2. s \notin DOMAIN sessions /\ k \notin DOMAIN udp
    BY <1>1 DEF FreshSid, WantsUdpEntry
<1>3. /\ DOMAIN udp' = DOMAIN udp \cup {k} /\ udp'[k] = e
      /\ \A x \in DOMAIN udp : udp'[x] = udp[x]
    BY <1>1, <1>2 DEF Insert
<1>4. /\ DOMAIN sessions' = DOMAIN sessions \cup {s} /\ sessions'[s] = r
      /\ \A x \in DOMAIN sessions : sessions'[x] = sessions[x]
    BY <1>1, <1>2 DEF Insert
<1>5. r \in WayUdpSession
    BY DEF WayUdpSession
<1>6. sessions' \in [DOMAIN sessions' -> WayUdpSession]
    BY <1>1, <1>2, <1>5 DEF UdpInv, SessionInv, Insert
<1>7. /\ udp'[k].queue = s /\ udp'[k].socket = h
      /\ sessions'[s].key = k /\ sessions'[s].socket = h
      /\ ~ sessions'[s].closed /\ sessions'[s].inbox = {}
    BY <1>3, <1>4
<1>8. OpenSessionsServed'
  <2>1. \A x \in DOMAIN sessions' : ~ sessions'[x].closed =>
          /\ sessions'[x].key \in DOMAIN udp'
          /\ udp'[sessions'[x].key].queue = x
          /\ udp'[sessions'[x].key].socket = sessions'[x].socket
      BY <1>3, <1>4, <1>7 DEF UdpInv, SessionInv, OpenSessionsServed
  <2>2. \A x \in DOMAIN udp' :
          /\ udp'[x].queue \in DOMAIN sessions'
          /\ sessions'[udp'[x].queue].key = x
          /\ ~ sessions'[udp'[x].queue].closed
      BY <1>3, <1>4, <1>7, SMTT(30) DEF UdpInv, SessionInv, OpenSessionsServed
  <2> QED BY <2>1, <2>2 DEF OpenSessionsServed
<1>9. OwnTrafficOnly'
    BY <1>4, <1>7 DEF UdpInv, SessionInv, OwnTrafficOnly
<1> QED BY <1>4, <1>6, <1>8, <1>9 DEF UdpInv, SessionInv

(* Steps that change what sockets hold or how old entries are, and no more. *)
LEMMA UdpSocketsMove ==
    ASSUME UdpTables, UNCHANGED udp_dst_sockets,
           DOMAIN udp' = DOMAIN udp,
           udp' \in [DOMAIN udp' -> UdpEntry],
           \A k \in DOMAIN udp : udp'[k].socket = udp[k].socket,
           DOMAIN usock' = DOMAIN usock,
           usock' \in [DOMAIN usock' -> UdpSocket],
           \A c \in DOMAIN usock : usock'[c].dst = usock[c].dst,
           \A c \in DOMAIN usock : Len(usock'[c].rx) <= udp_packets
    PROVE  UdpTables'
<1>1. \A id : (DstPlace(id))' = DstPlace(id)
    BY DEF DstPlace
<1>2. \A id : (Users(id))' = Users(id)
    BY DEF Users
<1>3. RefCountExact'
    BY <1>2 DEF UdpTables, RefCountExact
<1> QED BY <1>1, <1>3 DEF UdpTables

(* A datagram joins the receive buffers of its destination that have room. *)
LEMMA DeliverUdpTables ==
    ASSUME UdpTables, NEW i \in Interface, NEW p \in Packet, deliver_udp(i, p)
    PROVE  UdpTables'
<1>1. p.src \in Src
    BY PacketAssumption
<1>2. \A u \in UdpSocket : /\ [u EXCEPT !.rx = Append(@, p.src)] \in UdpSocket
                           /\ [u EXCEPT !.rx = Append(@, p.src)].dst = u.dst
                           /\ Len([u EXCEPT !.rx = Append(@, p.src)].rx) = Len(u.rx) + 1
                           /\ Len(u.rx) \in Nat
    BY <1>1 DEF UdpSocket
<1>3. \A c \in DOMAIN usock : usock[c] \in UdpSocket /\ Len(usock[c].rx) <= udp_packets
    BY DEF UdpTables
<1>4. /\ DOMAIN usock' = DOMAIN usock
      /\ \A c \in DOMAIN usock :
            usock'[c] = IF c \in Bound(i, p.dst) /\ Len(usock[c].rx) < udp_packets
                        THEN [usock[c] EXCEPT !.rx = Append(@, p.src)] ELSE usock[c]
    BY DEF deliver_udp, HasRoom
<1>5. \A c \in DOMAIN usock : usock'[c] \in UdpSocket /\ usock'[c].dst = usock[c].dst
    BY Zenon, <1>2, <1>3, <1>4
<1>6. \A c \in DOMAIN usock : Len(usock'[c].rx) <= udp_packets
  <2> SUFFICES ASSUME NEW c \in DOMAIN usock PROVE Len(usock'[c].rx) <= udp_packets
      OBVIOUS
  <2>1. CASE c \in Bound(i, p.dst) /\ Len(usock[c].rx) < udp_packets
    <3>1. Len(usock'[c].rx) = Len(usock[c].rx) + 1 /\ Len(usock[c].rx) \in Nat
        BY Zenon, <1>2, <1>3, <1>4, <2>1
    <3> QED BY <2>1, <3>1, UdpSizes
  <2>2. CASE ~ (c \in Bound(i, p.dst) /\ Len(usock[c].rx) < udp_packets)
      BY <1>3, <1>4, <2>2
  <2> QED BY <2>1, <2>2
<1>7. usock' \in [DOMAIN usock' -> UdpSocket]
    BY <1>4, <1>5 DEF deliver_udp
<1>8. UNCHANGED <<udp, udp_dst_sockets>>
    BY DEF deliver_udp, HasRoom
<1> QED BY <1>4, <1>5, <1>6, <1>7, <1>8, UdpSocketsMove DEF UdpTables

(* The egress half of a poll empties every transmit buffer. *)
LEMMA EgressUdpTables ==
    ASSUME UdpTables, UNCHANGED <<udp, udp_dst_sockets>>,
           usock' = [c \in DOMAIN usock |-> [usock[c] EXCEPT !.tx = 0]]
    PROVE  UdpTables'
<1>1. \A u \in UdpSocket : /\ [u EXCEPT !.tx = 0] \in UdpSocket
                           /\ [u EXCEPT !.tx = 0].dst = u.dst
                           /\ [u EXCEPT !.tx = 0].rx = u.rx
    BY UdpSizes DEF UdpSocket
<1>2. \A c \in DOMAIN usock : usock[c] \in UdpSocket /\ Len(usock[c].rx) <= udp_packets
    BY DEF UdpTables
<1>3. \A c \in DOMAIN usock : /\ usock'[c] \in UdpSocket
                              /\ usock'[c].dst = usock[c].dst
                              /\ Len(usock'[c].rx) <= udp_packets
    BY Zenon, <1>1, <1>2
<1>4. DOMAIN usock' = DOMAIN usock /\ usock' \in [DOMAIN usock' -> UdpSocket]
    BY <1>3
<1> QED BY Zenon, <1>3, <1>4, UdpSocketsMove DEF UdpTables

(* send adds a datagram to a transmit buffer that has room. *)
LEMMA TrySendInv ==
    ASSUME UdpInv, NEW s \in DOMAIN sessions, try_send(s)
    PROVE  UdpInv'
<1> DEFINE c == <<sessions[s].key.interface, sessions[s].socket>>
<1>1. /\ usock[c].tx < udp_packets
      /\ usock' = [usock EXCEPT ![c].tx = @ + 1]
      /\ UNCHANGED <<udp, udp_dst_sockets, sessions>>
    BY DEF try_send
<1> HIDE DEF c
<1>2. \A d \in DOMAIN usock : usock[d] \in UdpSocket /\ Len(usock[d].rx) <= udp_packets
    BY DEF UdpInv, UdpTables
<1>3. \A u \in UdpSocket : /\ u.tx < udp_packets => [u EXCEPT !.tx = @ + 1] \in UdpSocket
                           /\ [u EXCEPT !.tx = @ + 1].dst = u.dst
                           /\ [u EXCEPT !.tx = @ + 1].rx = u.rx
    BY UdpSizes DEF UdpSocket
<1>4. /\ DOMAIN usock' = DOMAIN usock
      /\ \A d \in DOMAIN usock :
            usock'[d] = IF d = c THEN [usock[d] EXCEPT !.tx = @ + 1] ELSE usock[d]
    BY <1>1, <1>2
<1>5. \A d \in DOMAIN usock : /\ usock'[d] \in UdpSocket
                              /\ usock'[d].dst = usock[d].dst
                              /\ Len(usock'[d].rx) <= udp_packets
    BY <1>1, <1>2, <1>3, <1>4
<1>6. usock' \in [DOMAIN usock' -> UdpSocket]
    BY Zenon, <1>1, <1>4, <1>5
<1>7. UdpTables'
    BY <1>1, <1>4, <1>5, <1>6, UdpSocketsMove DEF UdpInv, UdpTables
<1>8. SessionInv'
    BY <1>1 DEF UdpInv, SessionInv, OpenSessionsServed, OwnTrafficOnly
<1> QED BY <1>7, <1>8 DEF UdpInv

(* recv takes a datagram from one session's queue. *)
LEMMA RecvInv ==
    ASSUME UdpInv, NEW s \in DOMAIN sessions, recv(s)
    PROVE  UdpInv'
<1>1. PICK k \in sessions[s].inbox : sessions' = [sessions EXCEPT ![s].inbox = @ \ {k}]
    BY Zenon DEF recv
<1>2. UNCHANGED <<usock, udp, udp_dst_sockets>>
    BY DEF recv
<1>3. \A r \in DOMAIN sessions : sessions[r] \in WayUdpSession
    BY DEF UdpInv, SessionInv
<1>4. \A r \in WayUdpSession : /\ [r EXCEPT !.inbox = @ \ {k}] \in WayUdpSession
                               /\ [r EXCEPT !.inbox = @ \ {k}].inbox = r.inbox \ {k}
                               /\ [r EXCEPT !.inbox = @ \ {k}].key = r.key
                               /\ [r EXCEPT !.inbox = @ \ {k}].socket = r.socket
                               /\ [r EXCEPT !.inbox = @ \ {k}].closed = r.closed
    BY DEF WayUdpSession
<1>5. /\ DOMAIN sessions' = DOMAIN sessions
      /\ \A r \in DOMAIN sessions :
            sessions'[r] = IF r = s THEN [sessions[r] EXCEPT !.inbox = @ \ {k}] ELSE sessions[r]
    BY <1>1
<1>6. \A r \in DOMAIN sessions : /\ sessions'[r] \in WayUdpSession
                                 /\ sessions'[r].key = sessions[r].key
                                 /\ sessions'[r].socket = sessions[r].socket
                                 /\ sessions'[r].closed = sessions[r].closed
                                 /\ sessions'[r].inbox \subseteq sessions[r].inbox
    BY <1>3, <1>4, <1>5, ZenonT(60)
<1>7. sessions' \in [DOMAIN sessions' -> WayUdpSession]
    BY Zenon, <1>1, <1>5, <1>6
<1>8. OpenSessionsServed' /\ OwnTrafficOnly'
    BY <1>2, <1>5, <1>6 DEF UdpInv, SessionInv, OpenSessionsServed, OwnTrafficOnly
<1>9. UdpTables'
    BY <1>2, UdpSocketsMove DEF UdpInv, UdpTables
<1> QED BY <1>5, <1>7, <1>8, <1>9 DEF UdpInv, SessionInv

(* Entries grow older. *)
LEMMA TickInv ==
    ASSUME UdpInv, tick
    PROVE  UdpInv'
<1>1. UNCHANGED <<usock, udp_dst_sockets, sessions>>
    BY DEF tick
<1> DEFINE older(e) == [e EXCEPT !.idle = IF @ <= udp_session_timeout THEN @ + 1 ELSE @]
<1>2. \A e \in UdpEntry : /\ older(e) \in UdpEntry
                          /\ older(e).socket = e.socket
                          /\ older(e).queue = e.queue
    BY CoreAssumption DEF UdpEntry
<1>3. DOMAIN udp' = DOMAIN udp /\ \A k \in DOMAIN udp : udp'[k] = older(udp[k])
    BY DEF tick
<1> HIDE DEF older
<1>4. \A k \in DOMAIN udp : udp[k] \in UdpEntry
    BY DEF UdpInv, UdpTables
<1>5. \A k \in DOMAIN udp : /\ udp'[k] \in UdpEntry
                            /\ udp'[k].socket = udp[k].socket
                            /\ udp'[k].queue = udp[k].queue
    BY <1>2, <1>3, <1>4
<1>6. udp' \in [DOMAIN udp' -> UdpEntry]
    BY <1>3, <1>5 DEF tick
<1>7. UdpTables'
    BY <1>1, <1>3, <1>5, <1>6, UdpSocketsMove DEF UdpInv, UdpTables
<1>8. OpenSessionsServed' /\ OwnTrafficOnly'
    BY <1>1, <1>3, <1>5 DEF UdpInv, SessionInv, OpenSessionsServed, OwnTrafficOnly
<1> QED BY <1>1, <1>7, <1>8 DEF UdpInv, SessionInv

(* Redistribution hands a datagram to the session with its 5-tuple. *)
LEMMA RouteInv ==
    ASSUME UdpInv, NEW id \in DOMAIN udp_dst_sockets, route_udp(id)
    PROVE  UdpInv'
<1> DEFINE c == DstPlace(id)
           k == route(id, Head(usock[c].rx))
<1>1. c \in DOMAIN usock /\ id \in Interface \X Dst
    BY DEF UdpInv, UdpTables
<1>2. /\ usock[c].rx # <<>>
      /\ usock' = [usock EXCEPT ![c].rx = Tail(@)]
      /\ UNCHANGED udp_dst_sockets
    BY ZenonT(60) DEF route_udp, DstPlace, unread
<1>3. IF k \in DOMAIN udp
      THEN /\ sessions' = [sessions EXCEPT ![udp[k].queue].inbox = @ \cup {k}]
           /\ udp' = [udp EXCEPT ![k].idle = 0]
      ELSE UNCHANGED <<sessions, udp>>
    BY Zenon DEF route_udp, DstPlace, route, queue_of
<1> HIDE DEF c, k
<1>4. \A d \in DOMAIN usock : usock[d] \in UdpSocket /\ Len(usock[d].rx) <= udp_packets
    BY DEF UdpInv, UdpTables
<1>5. \A u \in UdpSocket : u.rx # <<>> =>
           /\ [u EXCEPT !.rx = Tail(@)] \in UdpSocket
           /\ [u EXCEPT !.rx = Tail(@)].dst = u.dst
           /\ Len([u EXCEPT !.rx = Tail(@)].rx) = Len(u.rx) - 1
           /\ Len(u.rx) \in Nat
    BY DEF UdpSocket
<1>6. /\ DOMAIN usock' = DOMAIN usock
      /\ \A d \in DOMAIN usock :
            usock'[d] = IF d = c THEN [usock[d] EXCEPT !.rx = Tail(@)] ELSE usock[d]
    BY <1>2
<1>7. \A d \in DOMAIN usock : usock'[d] \in UdpSocket /\ usock'[d].dst = usock[d].dst
    BY <1>2, <1>4, <1>5, <1>6
<1>8. \A d \in DOMAIN usock : Len(usock'[d].rx) <= udp_packets
  <2>1. Len(usock'[c].rx) = Len(usock[c].rx) - 1 /\ Len(usock[c].rx) \in Nat
      BY Zenon, <1>1, <1>2, <1>4, <1>5, <1>6
  <2>2. Len(usock'[c].rx) <= udp_packets
      BY <1>1, <1>4, <2>1, UdpSizes
  <2> QED BY <1>4, <1>6, <2>2
<1>9. usock' \in [DOMAIN usock' -> UdpSocket]
    BY Zenon, <1>2, <1>6, <1>7
<1>10. CASE k \notin DOMAIN udp
  <2>1. UNCHANGED <<sessions, udp>>
      BY <1>3, <1>10
  <2>2. UdpTables'
      BY Zenon, <1>2, <1>6, <1>7, <1>8, <1>9, <2>1, UdpSocketsMove DEF UdpInv, UdpTables
  <2>3. SessionInv'
      BY <2>1 DEF UdpInv, SessionInv, OpenSessionsServed, OwnTrafficOnly
  <2> QED BY <2>2, <2>3 DEF UdpInv
<1>11. CASE k \in DOMAIN udp
  <2> DEFINE s == udp[k].queue
  <2>1. /\ s \in DOMAIN sessions /\ sessions[s].key = k /\ ~ sessions[s].closed
        /\ k \in SessionKey
      BY <1>11 DEF UdpInv, UdpTables, SessionInv, OpenSessionsServed
  <2>2. sessions' = [sessions EXCEPT ![s].inbox = @ \cup {k}] /\ udp' = [udp EXCEPT ![k].idle = 0]
      BY <1>3, <1>11
  <2> HIDE DEF s
  <2>3. \A e \in UdpEntry : /\ [e EXCEPT !.idle = 0] \in UdpEntry
                            /\ [e EXCEPT !.idle = 0].socket = e.socket
                            /\ [e EXCEPT !.idle = 0].queue = e.queue
      BY CoreAssumption DEF UdpEntry
  <2>4. /\ DOMAIN udp' = DOMAIN udp
        /\ \A x \in DOMAIN udp : udp'[x] = IF x = k THEN [udp[x] EXCEPT !.idle = 0] ELSE udp[x]
      BY <2>2
  <2>5. \A x \in DOMAIN udp : udp[x] \in UdpEntry
      BY DEF UdpInv, UdpTables
  <2>6. \A x \in DOMAIN udp : /\ udp'[x] \in UdpEntry
                              /\ udp'[x].socket = udp[x].socket
                              /\ udp'[x].queue = udp[x].queue
      BY Zenon, <2>3, <2>4, <2>5
  <2>7. udp' \in [DOMAIN udp' -> UdpEntry]
      BY Zenon, <2>2, <2>4, <2>6
  <2>8. UdpTables'
      BY <1>2, <1>6, <1>7, <1>8, <1>9, <2>4, <2>6, <2>7, UdpSocketsMove DEF UdpInv
  <2>9. \A r \in WayUdpSession : /\ [r EXCEPT !.inbox = @ \cup {k}] \in WayUdpSession
                                 /\ [r EXCEPT !.inbox = @ \cup {k}].inbox = r.inbox \cup {k}
                                 /\ [r EXCEPT !.inbox = @ \cup {k}].key = r.key
                                 /\ [r EXCEPT !.inbox = @ \cup {k}].socket = r.socket
                                 /\ [r EXCEPT !.inbox = @ \cup {k}].closed = r.closed
      BY <2>1 DEF WayUdpSession
  <2>10. /\ DOMAIN sessions' = DOMAIN sessions
         /\ \A r \in DOMAIN sessions :
               sessions'[r] = IF r = s THEN [sessions[r] EXCEPT !.inbox = @ \cup {k}] ELSE sessions[r]
      BY <2>2
  <2>11. \A r \in DOMAIN sessions : sessions[r] \in WayUdpSession
      BY DEF UdpInv, SessionInv
  <2>12. \A r \in DOMAIN sessions : /\ sessions'[r] \in WayUdpSession
                                    /\ sessions'[r].key = sessions[r].key
                                    /\ sessions'[r].socket = sessions[r].socket
                                    /\ sessions'[r].closed = sessions[r].closed
                                    /\ sessions'[r].inbox \subseteq
                                          sessions[r].inbox \cup (IF r = s THEN {k} ELSE {})
      BY <2>9, <2>10, <2>11, ZenonT(60)
  <2>13. sessions' \in [DOMAIN sessions' -> WayUdpSession]
      BY Zenon, <2>2, <2>10, <2>12
  <2>14. OpenSessionsServed'
      BY <2>4, <2>6, <2>10, <2>12 DEF UdpInv, SessionInv, OpenSessionsServed
  <2>15. OwnTrafficOnly'
      BY <2>1, <2>10, <2>12 DEF UdpInv, SessionInv, OwnTrafficOnly
  <2> QED BY <2>8, <2>10, <2>13, <2>14, <2>15 DEF UdpInv, SessionInv
<1> QED BY <1>10, <1>11

(* Removal of an entry: the last user of a socket takes it along, any      *)
(* other leaves it to those that remain.                                   *)
LEMMA RemoveUdpTables ==
    ASSUME UdpTables, NEW k \in DOMAIN udp, remove_udp(k)
    PROVE  /\ UdpTables'
           /\ DOMAIN udp' = DOMAIN udp \ {k}
           /\ \A x \in DOMAIN udp' : udp'[x] = udp[x]
           /\ DstId(k) \in DOMAIN udp_dst_sockets
           /\ DOMAIN udp_dst_sockets' = IF LastUser(k) THEN DOMAIN udp_dst_sockets \ {DstId(k)}
                                        ELSE DOMAIN udp_dst_sockets
           /\ DOMAIN usock' \subseteq DOMAIN usock
<1> DEFINE id == DstId(k)
           c  == <<k.interface, udp[k].socket>>
<1>1. /\ DOMAIN udp' = DOMAIN udp \ {k}
      /\ \A x \in DOMAIN udp' : udp'[x] = udp[x]
    BY DEF remove_udp, Remove, Restrict
<1>2. udp' \in [DOMAIN udp' -> UdpEntry]
    BY <1>1 DEF remove_udp, Remove, Restrict, UdpTables
<1>3. id \in DOMAIN udp_dst_sockets /\ c = DstPlace(id)
    BY DEF UdpTables, RefCountExact, DstId, DstPlace
<1>4. IsFiniteSet(DOMAIN udp')
    BY <1>1, FS_RemoveElement DEF UdpTables
<1>5. (Users(id))' = Users(id) \ {k} /\ k \in Users(id)
    BY <1>1 DEF Users
<1>6. \A x : x # id => (Users(x))' = Users(x)
    BY <1>1 DEF Users
<1>7. IsFiniteSet(Users(id))
    BY FS_Subset DEF Users, UdpTables
<1>8. Cardinality((Users(id))') = Cardinality(Users(id)) - 1
    BY Zenon, <1>5, <1>7, FS_RemoveElement
<1>9. udp_dst_sockets[id].count = Cardinality(Users(id)) /\ udp_dst_sockets[id].count \in Nat
    BY <1>3 DEF UdpTables, RefCountExact
<1>10. udp_dst_sockets[id] \in [handle : Handle, count : Nat]
    BY <1>3 DEF UdpTables
<1>11. /\ udp_dst_sockets' = udp_socket_release(k)
       /\ usock' = IF LastUser(k) THEN Remove(usock, c) ELSE usock
    BY DEF remove_udp, sockets_after_removal
<1>12. LastUser(k) <=> udp_dst_sockets[id].count <= 1
    BY DEF LastUser
<1>13. udp_socket_release(k) = IF LastUser(k) THEN Remove(udp_dst_sockets, id)
                               ELSE [udp_dst_sockets EXCEPT ![id].count = @ - 1]
    BY DEF udp_socket_release
<1>14. \A x \in DOMAIN udp : DstId(x) = id <=> x \in Users(id)
    BY DEF Users
<1>17. id = DstId(k)
    OBVIOUS
<1> HIDE DEF id, c
<1>15. CASE LastUser(k)
  <2>1. /\ DOMAIN udp_dst_sockets' = DOMAIN udp_dst_sockets \ {id}
        /\ \A x \in DOMAIN udp_dst_sockets' : udp_dst_sockets'[x] = udp_dst_sockets[x]
        /\ udp_dst_sockets' \in [DOMAIN udp_dst_sockets' -> [handle : Handle, count : Nat]]
      BY <1>11, <1>13, <1>15 DEF Remove, Restrict, UdpTables
  <2>2. /\ DOMAIN usock' = DOMAIN usock \ {c}
        /\ \A d \in DOMAIN usock' : usock'[d] = usock[d]
        /\ usock' \in [DOMAIN usock' -> UdpSocket]
      BY <1>11, <1>15 DEF Remove, Restrict, UdpTables
  <2>3. Users(id) = {k}
      BY <1>5, <1>7, <1>9, <1>12, <1>15, OneMember
  <2>4. \A x \in DOMAIN udp_dst_sockets' : (DstPlace(x))' = DstPlace(x)
      BY <2>1 DEF DstPlace
  <2>5. IsFiniteSet(DOMAIN udp_dst_sockets')
      BY <2>1, <1>3, FS_RemoveElement DEF UdpTables
  <2>6. \A x \in DOMAIN udp_dst_sockets' :
           (DstPlace(x))' \in DOMAIN usock' /\ usock'[(DstPlace(x))'].dst = x[2]
      BY <1>3, <2>1, <2>2, <2>4 DEF UdpTables
  <2>7. \A x, y \in DOMAIN udp_dst_sockets' : (DstPlace(x))' = (DstPlace(y))' => x = y
      BY <2>1, <2>4 DEF UdpTables
  <2>8. \A d \in DOMAIN usock' : \E x \in DOMAIN udp_dst_sockets' : (DstPlace(x))' = d
    <3> SUFFICES ASSUME NEW d \in DOMAIN usock'
                 PROVE  \E x \in DOMAIN udp_dst_sockets' : (DstPlace(x))' = d
        OBVIOUS
    <3>1. PICK x \in DOMAIN udp_dst_sockets : DstPlace(x) = d
        BY <2>2 DEF UdpTables
    <3>2. x # id
        BY <1>3, <2>2, <3>1
    <3> QED BY <2>1, <2>4, <3>1, <3>2
  <2>9. \A x \in DOMAIN udp_dst_sockets' :
           /\ udp_dst_sockets'[x].count = Cardinality((Users(x))')
           /\ udp_dst_sockets'[x].count > 0
      BY <1>6, <2>1 DEF UdpTables, RefCountExact
  <2>10. \A x \in DOMAIN udp' : DstId(x) # id
      BY <1>1, <1>14, <2>3
  <2>11. \A x \in DOMAIN udp' : /\ DstId(x) \in DOMAIN udp_dst_sockets'
                                /\ udp'[x].socket = udp_dst_sockets'[DstId(x)].handle
      BY <1>1, <2>1, <2>10 DEF UdpTables, RefCountExact
  <2>12. RefCountExact'
      BY <2>9, <2>11 DEF RefCountExact
  <2>13. UdpTables'
      BY <1>1, <1>2, <1>4, <2>1, <2>2, <2>5, <2>6, <2>7, <2>8, <2>12 DEF UdpTables
  <2> QED BY <1>1, <1>3, <1>15, <1>17, <2>1, <2>2, <2>13
<1>16. CASE ~ LastUser(k)
  <2>1. UNCHANGED usock
      BY <1>11, <1>16
  <2>2. udp_dst_sockets' = [udp_dst_sockets EXCEPT ![id].count = @ - 1]
      BY <1>11, <1>13, <1>16
  <2>3. DOMAIN udp_dst_sockets' = DOMAIN udp_dst_sockets
      BY <2>2
  <2>4. /\ udp_dst_sockets'[id].handle = udp_dst_sockets[id].handle
        /\ udp_dst_sockets'[id].count = udp_dst_sockets[id].count - 1
        /\ \A x \in DOMAIN udp_dst_sockets : x # id => udp_dst_sockets'[x] = udp_dst_sockets[x]
      BY <1>3, <1>10, <2>2
  <2>5. udp_dst_sockets'[id].count \in Nat /\ udp_dst_sockets'[id].count > 0
      BY <1>9, <1>12, <1>16, <2>4
  <2>6. udp_dst_sockets' \in [DOMAIN udp_dst_sockets' -> [handle : Handle, count : Nat]]
    <3>1. \A r \in [handle : Handle, count : Nat] :
             r.count > 1 => [r EXCEPT !.count = @ - 1] \in [handle : Handle, count : Nat]
        OBVIOUS
    <3>2. udp_dst_sockets[id].count > 1
        BY <1>9, <1>12, <1>16
    <3>3. [udp_dst_sockets[id] EXCEPT !.count = @ - 1] \in [handle : Handle, count : Nat]
        BY <1>10, <3>1, <3>2
    <3> QED BY <1>3, <2>2, <3>3 DEF UdpTables
  <2>7. \A x \in DOMAIN udp_dst_sockets : udp_dst_sockets'[x].handle = udp_dst_sockets[x].handle
      BY <2>4
  <2>8. \A x \in DOMAIN udp_dst_sockets : (DstPlace(x))' = DstPlace(x)
      BY <2>7 DEF DstPlace
  <2>9. \A x \in DOMAIN udp_dst_sockets' :
           /\ udp_dst_sockets'[x].count = Cardinality((Users(x))')
           /\ udp_dst_sockets'[x].count > 0
    <3>1. udp_dst_sockets'[id].count = Cardinality((Users(id))')
        BY <1>8, <1>9, <2>4
    <3>2. \A x \in DOMAIN udp_dst_sockets :
             /\ udp_dst_sockets[x].count = Cardinality(Users(x))
             /\ udp_dst_sockets[x].count > 0
        BY DEF UdpTables, RefCountExact
    <3>3. \A x \in DOMAIN udp_dst_sockets : x # id =>
             /\ udp_dst_sockets'[x].count = Cardinality((Users(x))')
             /\ udp_dst_sockets'[x].count > 0
        BY <1>6, <2>4, <3>2
    <3> QED BY <2>3, <2>5, <3>1, <3>3
  <2>10. \A x \in DOMAIN udp' : /\ DstId(x) \in DOMAIN udp_dst_sockets'
                                /\ udp'[x].socket = udp_dst_sockets'[DstId(x)].handle
      BY <1>1, <2>3, <2>7 DEF UdpTables, RefCountExact
  <2>11. RefCountExact'
      BY <2>9, <2>10 DEF RefCountExact
  <2>12. UdpTables'
      BY <1>1, <1>2, <1>4, <2>1, <2>3, <2>6, <2>8, <2>11 DEF UdpTables
  <2> QED BY <1>1, <1>3, <1>16, <1>17, <2>1, <2>3, <2>12
<1> QED BY <1>15, <1>16

(* Closing the queue of the removed entry leaves the others served. *)
LEMMA CloseRemovedSession ==
    ASSUME UdpInv, NEW k \in DOMAIN udp,
           DOMAIN udp' = DOMAIN udp \ {k},
           \A x \in DOMAIN udp' : udp'[x] = udp[x],
           NEW removed \in SUBSET Sid,
           DOMAIN sessions' = DOMAIN sessions \ removed,
           \A x \in DOMAIN udp \ {k} : udp[x].queue \notin removed,
           \A r \in DOMAIN sessions' :
              sessions'[r] = IF r = udp[k].queue THEN [sessions[r] EXCEPT !.closed = TRUE]
                             ELSE sessions[r],
           sessions' = [r \in DOMAIN sessions' |-> sessions'[r]]
    PROVE  SessionInv'
<1>1. \A r \in DOMAIN sessions : sessions[r] \in WayUdpSession
    BY DEF UdpInv, SessionInv
<1>2. \A r \in WayUdpSession : /\ [r EXCEPT !.closed = TRUE] \in WayUdpSession
                               /\ [r EXCEPT !.closed = TRUE].key = r.key
                               /\ [r EXCEPT !.closed = TRUE].socket = r.socket
                               /\ [r EXCEPT !.closed = TRUE].inbox = r.inbox
    BY Zenon DEF WayUdpSession
<1>3. \A r \in WayUdpSession : [r EXCEPT !.closed = TRUE].closed
    BY DEF WayUdpSession
<1>4. \A r \in DOMAIN sessions' : /\ sessions'[r] \in WayUdpSession
                                  /\ sessions'[r].key = sessions[r].key
                                  /\ sessions'[r].socket = sessions[r].socket
                                  /\ sessions'[r].inbox = sessions[r].inbox
  <2> TAKE r \in DOMAIN sessions'
  <2>1. sessions[r] \in WayUdpSession
      BY <1>1
  <2>2. CASE r = udp[k].queue
    <3>1. sessions'[r] = [sessions[r] EXCEPT !.closed = TRUE]
        BY Zenon, <2>2
    <3> QED BY <1>2, <2>1, <3>1
  <2>3. CASE r # udp[k].queue
    <3>1. sessions'[r] = sessions[r]
        BY <2>3
    <3> QED BY <2>1, <3>1
  <2> QED BY <2>2, <2>3
<1>5. \A r \in DOMAIN sessions' : r = udp[k].queue => sessions'[r].closed
  <2> SUFFICES ASSUME NEW r \in DOMAIN sessions', r = udp[k].queue PROVE sessions'[r].closed
      OBVIOUS
  <2>1. sessions'[r] = [sessions[r] EXCEPT !.closed = TRUE] /\ sessions[r] \in WayUdpSession
      BY Zenon, <1>1
  <2> QED BY <1>3, <2>1
<1>6. \A r \in DOMAIN sessions' : r # udp[k].queue => sessions'[r] = sessions[r]
    OBVIOUS
<1>7. sessions' \in [DOMAIN sessions' -> WayUdpSession]
    BY <1>4
<1>8. OwnTrafficOnly'
    BY <1>4 DEF UdpInv, SessionInv, OwnTrafficOnly
<1>9. \A r \in DOMAIN sessions' : ~ sessions'[r].closed =>
          /\ sessions'[r].key \in DOMAIN udp'
          /\ udp'[sessions'[r].key].queue = r
          /\ udp'[sessions'[r].key].socket = sessions'[r].socket
  <2> SUFFICES ASSUME NEW r \in DOMAIN sessions', ~ sessions'[r].closed
               PROVE  /\ sessions'[r].key \in DOMAIN udp'
                      /\ udp'[sessions'[r].key].queue = r
                      /\ udp'[sessions'[r].key].socket = sessions'[r].socket
      OBVIOUS
  <2>1. r # udp[k].queue /\ sessions'[r] = sessions[r] /\ r \in DOMAIN sessions
      BY <1>5, <1>6
  <2>2. /\ sessions[r].key \in DOMAIN udp
        /\ udp[sessions[r].key].queue = r
        /\ udp[sessions[r].key].socket = sessions[r].socket
      BY <2>1 DEF UdpInv, SessionInv, OpenSessionsServed
  <2> QED BY <2>1, <2>2
<1>10. \A x \in DOMAIN udp' :
          /\ udp'[x].queue \in DOMAIN sessions'
          /\ sessions'[udp'[x].queue].key = x
          /\ ~ sessions'[udp'[x].queue].closed
  <2> SUFFICES ASSUME NEW x \in DOMAIN udp'
               PROVE  /\ udp'[x].queue \in DOMAIN sessions'
                      /\ sessions'[udp'[x].queue].key = x
                      /\ ~ sessions'[udp'[x].queue].closed
      OBVIOUS
  <2> DEFINE q == udp[x].queue
  <2>3. udp'[x].queue = q /\ x \in DOMAIN udp \ {k}
      OBVIOUS
  <2>1. /\ udp[x].queue \in DOMAIN sessions
        /\ sessions[udp[x].queue].key = x
        /\ ~ sessions[udp[x].queue].closed
        /\ sessions[udp[k].queue].key = k
      BY DEF UdpInv, SessionInv, OpenSessionsServed
  <2>2. q # udp[k].queue /\ q \in DOMAIN sessions'
      BY <2>1, <2>3
  <2>4. sessions'[q] = sessions[q]
      BY <1>6, <2>2
  <2> HIDE DEF q
  <2>5. sessions[q].key = x /\ ~ sessions[q].closed
      BY <2>1 DEF q
  <2> QED BY <2>2, <2>3, <2>4, <2>5
<1>11. OpenSessionsServed'
    BY <1>9, <1>10 DEF OpenSessionsServed
<1> QED BY <1>7, <1>8, <1>11 DEF UdpInv, SessionInv

(* The idle sweep closes the session it reaps. *)
LEMMA SweepInv ==
    ASSUME UdpInv, NEW k \in DOMAIN udp, sweep_udp(k)
    PROVE  UdpInv'
<1>1. /\ UdpTables'
      /\ DOMAIN udp' = DOMAIN udp \ {k}
      /\ \A x \in DOMAIN udp' : udp'[x] = udp[x]
    BY Zenon, RemoveUdpTables DEF sweep_udp, UdpInv
<1>2. sessions' = [sessions EXCEPT ![udp[k].queue].closed = TRUE]
    BY DEF sweep_udp, closed_queue
<1>3. /\ DOMAIN sessions' = DOMAIN sessions \ {}
      /\ \A r \in DOMAIN sessions' :
            sessions'[r] = IF r = udp[k].queue THEN [sessions[r] EXCEPT !.closed = TRUE]
                           ELSE sessions[r]
      /\ sessions' = [r \in DOMAIN sessions' |-> sessions'[r]]
    BY Zenon, <1>2
<1>4. {} \in SUBSET Sid /\ \A x \in DOMAIN udp \ {k} : udp[x].queue \notin {}
    OBVIOUS
<1>5. SessionInv'
    BY <1>1, <1>3, <1>4, CloseRemovedSession, Zenon
<1> QED BY <1>1, <1>5 DEF UdpInv

(* Drop removes the entry of its key, which for a session that was already *)
(* reaped may be the entry of a successor: the successor is then closed.   *)
LEMMA DropSessionInv ==
    ASSUME UdpInv, NEW s \in DOMAIN sessions, drop_session(s)
    PROVE  UdpInv'
<1> DEFINE k == sessions[s].key
<1>1. CASE k \in DOMAIN udp
  <2>1. remove_udp(k) /\ sessions' = Remove([sessions EXCEPT ![udp[k].queue].closed = TRUE], s)
      BY <1>1 DEF drop_session, closed_queue
  <2> HIDE DEF k
  <2>2. /\ UdpTables'
        /\ DOMAIN udp' = DOMAIN udp \ {k}
        /\ \A x \in DOMAIN udp' : udp'[x] = udp[x]
      BY Zenon, <1>1, <2>1, RemoveUdpTables DEF UdpInv
  <2>3. /\ DOMAIN sessions' = DOMAIN sessions \ {s}
        /\ \A r \in DOMAIN sessions' :
              sessions'[r] = IF r = udp[k].queue THEN [sessions[r] EXCEPT !.closed = TRUE]
                             ELSE sessions[r]
        /\ sessions' = [r \in DOMAIN sessions' |-> sessions'[r]]
      BY Zenon, <2>1 DEF Remove, Restrict
  <2>4. {s} \in SUBSET Sid /\ \A x \in DOMAIN udp \ {k} : udp[x].queue \notin {s}
    <3>1. \A x \in DOMAIN udp : sessions[udp[x].queue].key = x
        BY DEF UdpInv, SessionInv, OpenSessionsServed
    <3> QED BY <3>1 DEF UdpInv, SessionInv, k
  <2>5. SessionInv'
      BY ZenonT(60), <1>1, <2>2, <2>3, <2>4, CloseRemovedSession
  <2> QED BY <2>2, <2>5 DEF UdpInv
<1>2. CASE k \notin DOMAIN udp
  <2>1. sessions' = Remove(sessions, s) /\ UNCHANGED <<udp, udp_dst_sockets, usock>>
      BY <1>2 DEF drop_session
  <2>2. /\ DOMAIN sessions' = DOMAIN sessions \ {s}
        /\ \A r \in DOMAIN sessions' : sessions'[r] = sessions[r]
        /\ sessions' \in [DOMAIN sessions' -> WayUdpSession]
      BY <2>1 DEF Remove, Restrict, UdpInv, SessionInv
  <2>3. UdpTables'
      BY <2>1, UdpSocketsMove DEF UdpInv, UdpTables
  <2>4. \A x \in DOMAIN udp : udp[x].queue # s
      BY <1>2 DEF UdpInv, SessionInv, OpenSessionsServed
  <2>5. OpenSessionsServed' /\ OwnTrafficOnly'
      BY <2>1, <2>2, <2>4, SMTT(30) DEF UdpInv, SessionInv, OpenSessionsServed, OwnTrafficOnly
  <2> QED BY <2>2, <2>3, <2>5 DEF UdpInv, SessionInv
<1> QED BY <1>1, <1>2
=============================================================================
