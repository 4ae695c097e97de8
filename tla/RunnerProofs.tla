---------------------------- MODULE RunnerProofs ----------------------------
(***************************************************************************)
(* The safety properties of Runner, for any number of interfaces,          *)
(* endpoints, handles and packets and for any configuration.  TcpProofs    *)
(* and UdpProofs show that each operation keeps its half of the state      *)
(* consistent; here the halves meet: they share the handles of a slot and  *)
(* the buffer budget.                                                      *)
(***************************************************************************)
EXTENDS TcpProofs, UdpProofs, CycleProofs

(* What the two halves share. *)
Disjoint == DOMAIN tsock \cap DOMAIN usock = {}

Budget == buffer_bytes \in Nat /\ released \in Nat /\ BudgetExact

RunnerTypes ==
    /\ phase \in {"unlocked", "pre", "poll", "accept", "reap", "route", "sweep"}
    /\ ingress \in [Interface -> Seq(Packet)]
    /\ pre \in [Interface -> Seq(Packet)]
    /\ tcp_pool \in [Interface -> 0 .. tcp_pool_size]

(* The inductive invariant of Spec. *)
IInv == TcpInv /\ UdpInv /\ Disjoint /\ Budget /\ TablesBounded /\ RunnerTypes

(* What the budget charges is a natural number. *)
LEMMA Sizes == tcp_socket_bytes \in Nat /\ udp_per_socket_bytes \in Nat
BY CoreAssumption, UdpSizes DEF tcp_socket_bytes

(* The charge of one socket more, or one less. *)
LEMMA Charge ==
    ASSUME NEW c \in Nat, NEW n \in Nat
    PROVE  c * n \in Nat /\ c * (n + 1) = c * n + c /\ (n > 0 => c * (n - 1) = c * n - c)
OBVIOUS

(* Steps that leave TCP alone. *)
LEMMA TcpFrame ==
    ASSUME TcpInv, UNCHANGED <<tsock, tcp, streams>>
    PROVE  TcpInv'
BY SocketsMove DEF TcpInv, TcpTypeOK

(* As TcpFrame, for UDP. *)
LEMMA UdpFrame ==
    ASSUME UdpInv, UNCHANGED <<usock, udp, udp_dst_sockets, sessions>>
    PROVE  UdpInv'
<1>1. UdpTables'
    BY UdpSocketsMove DEF UdpInv, UdpTables
<1>2. SessionInv'
    BY DEF UdpInv, SessionInv, OpenSessionsServed, OwnTrafficOnly
<1> QED BY <1>1, <1>2 DEF UdpInv

(* As TcpFrame, for the budget and the limits. *)
LEMMA BudgetFrame ==
    ASSUME Budget, TablesBounded, UNCHANGED <<buffer_bytes, released>>,
           DOMAIN tcp' = DOMAIN tcp, DOMAIN udp' = DOMAIN udp,
           DOMAIN udp_dst_sockets' = DOMAIN udp_dst_sockets
    PROVE  Budget' /\ TablesBounded'
BY DEF Budget, BudgetExact, TablesBounded

(* A new TCP entry charges the budget for its socket. *)
LEMMA AllocTcpBudget ==
    ASSUME IInv, NEW k \in SessionKey, WantsTcpEntry(k), alloc_tcp(k),
           UNCHANGED <<udp, udp_dst_sockets, released>>
    PROVE  Budget' /\ TablesBounded' /\ Disjoint'
<1>1. PICK h \in Handle :
        /\ FirstFree(k.interface, h)
        /\ tsock' = Insert(tsock, <<k.interface, h>>, Listening(k.dst))
        /\ tcp' = Insert(tcp, k, [handle |-> h, state |-> "Pending", orphaned |-> FALSE])
    BY Zenon DEF alloc_tcp
<1>2. DOMAIN tcp' = DOMAIN tcp \cup {k} /\ k \notin DOMAIN tcp
    BY <1>1 DEF Insert, WantsTcpEntry
<1>3. /\ Cardinality(DOMAIN tcp') = Cardinality(DOMAIN tcp) + 1
      /\ Cardinality(DOMAIN tcp) \in Nat
    BY <1>2, FS_AddElement, FS_CardinalityType DEF IInv, TcpInv
<1>4. Cardinality(DOMAIN udp_dst_sockets) \in Nat
    BY FS_CardinalityType DEF IInv, UdpInv, UdpTables
<1>5. buffer_bytes' = buffer_bytes + tcp_socket_bytes
    BY DEF alloc_tcp
<1>6. max_buffer_bytes # NoLimit => buffer_bytes' <= max_buffer_bytes
    BY <1>5 DEF WantsTcpEntry, can_reserve
<1> DEFINE n == Cardinality(DOMAIN tcp)
           m == Cardinality(DOMAIN udp_dst_sockets)
<1>7. tcp_socket_bytes * (n + 1) = tcp_socket_bytes * n + tcp_socket_bytes
      /\ tcp_socket_bytes * n \in Nat /\ udp_per_socket_bytes * m \in Nat
    BY <1>3, <1>4, Sizes, Charge
<1>8. buffer_bytes = tcp_socket_bytes * n + udp_per_socket_bytes * m + released
      /\ buffer_bytes \in Nat /\ released \in Nat
    BY DEF IInv, Budget, BudgetExact
<1>9. buffer_bytes' = tcp_socket_bytes * Cardinality(DOMAIN tcp')
                    + udp_per_socket_bytes * Cardinality(DOMAIN udp_dst_sockets') + released'
    BY <1>3, <1>5, <1>7, <1>8, Sizes
<1>10. Budget'
    BY <1>5, <1>6, <1>8, <1>9, Sizes DEF Budget, BudgetExact
<1>11. TablesBounded'
    BY <1>3, CoreAssumption DEF IInv, TablesBounded, WantsTcpEntry
<1>12. Disjoint'
    BY <1>1 DEF IInv, Disjoint, alloc_tcp, Insert, FirstFree, UsedPlaces
<1> QED BY <1>10, <1>11, <1>12

(* A new UDP session charges the budget when its destination is new. *)
LEMMA AllocUdpBudget ==
    ASSUME IInv, NEW k \in SessionKey, WantsUdpEntry(k), alloc_udp(k),
           UNCHANGED <<tcp, released>>
    PROVE  Budget' /\ TablesBounded' /\ Disjoint'
<1>1. PICK h \in Handle, s \in Sid :
        /\ udp_socket_for(k, h)
        /\ udp_dst_sockets' = retained(k, h)
        /\ udp' = Insert(udp, k, [socket |-> h, queue |-> s, idle |-> 0])
    BY DEF alloc_udp
<1>2. DOMAIN udp' = DOMAIN udp \cup {k} /\ k \notin DOMAIN udp
    BY <1>1 DEF Insert, WantsUdpEntry
<1>3. DOMAIN udp_dst_sockets' = DOMAIN udp_dst_sockets \cup {DstId(k)}
    BY <1>1 DEF Insert, retained
<1>4. /\ Cardinality(DOMAIN udp') = Cardinality(DOMAIN udp) + 1
      /\ Cardinality(DOMAIN udp) \in Nat
    BY <1>2, FS_AddElement, FS_CardinalityType DEF IInv, UdpInv, UdpTables
<1> DEFINE n == Cardinality(DOMAIN tcp)
           m == Cardinality(DOMAIN udp_dst_sockets)
<1>5. n \in Nat /\ m \in Nat
    BY FS_CardinalityType DEF IInv, UdpInv, UdpTables, TcpInv
<1>6. buffer_bytes = tcp_socket_bytes * n + udp_per_socket_bytes * m + released
      /\ buffer_bytes \in Nat /\ released \in Nat
    BY DEF IInv, Budget, BudgetExact
<1>7. TablesBounded'
    BY <1>4, CoreAssumption DEF IInv, TablesBounded, WantsUdpEntry
<1>8. CASE Fresh(k)
  <2>1. Cardinality(DOMAIN udp_dst_sockets') = m + 1
    <3>1. DstId(k) \notin DOMAIN udp_dst_sockets /\ IsFiniteSet(DOMAIN udp_dst_sockets)
        BY <1>8 DEF IInv, UdpInv, UdpTables, Fresh
    <3> QED BY Zenon, <1>3, <3>1, FS_AddElement
  <2>2. buffer_bytes' = buffer_bytes + udp_per_socket_bytes
      BY <1>1, <1>8 DEF udp_socket_for
  <2>3. max_buffer_bytes # NoLimit => buffer_bytes' <= max_buffer_bytes
      BY <1>8, <2>2 DEF WantsUdpEntry, can_reserve
  <2>4. udp_per_socket_bytes * (m + 1) = udp_per_socket_bytes * m + udp_per_socket_bytes
        /\ tcp_socket_bytes * n \in Nat /\ udp_per_socket_bytes * m \in Nat
      BY <1>5, Sizes, Charge
  <2>5. buffer_bytes' = tcp_socket_bytes * Cardinality(DOMAIN tcp')
                      + udp_per_socket_bytes * Cardinality(DOMAIN udp_dst_sockets') + released'
      BY <1>6, <2>1, <2>2, <2>4, Sizes
  <2>6. Budget'
      BY <1>6, <2>2, <2>3, <2>5, Sizes DEF Budget, BudgetExact
  <2>7. Disjoint'
      BY <1>1, <1>8 DEF IInv, Disjoint, alloc_udp, udp_socket_for, Insert, FirstFree, UsedPlaces
  <2> QED BY <1>7, <2>6, <2>7
<1>9. CASE ~ Fresh(k)
  <2>1. DOMAIN udp_dst_sockets' = DOMAIN udp_dst_sockets
      BY <1>3, <1>9 DEF Fresh
  <2>2. UNCHANGED <<buffer_bytes, usock, tsock>>
      BY <1>1, <1>9 DEF udp_socket_for, alloc_udp
  <2>3. Budget'
      BY <2>1, <2>2 DEF IInv, Budget, BudgetExact
  <2>4. Disjoint'
      BY <2>2 DEF IInv, Disjoint
  <2> QED BY <1>7, <2>3, <2>4
<1> QED BY <1>8, <1>9

(* What reaping gives back is remembered in released until post_pass ends. *)
LEMMA ReapBudget ==
    ASSUME IInv, NEW k \in DOMAIN tcp, reap_tcp(k), released' = released + tcp_socket_bytes,
           UNCHANGED <<udp, udp_dst_sockets>>
    PROVE  Budget' /\ TablesBounded' /\ Disjoint'
<1> DEFINE n == Cardinality(DOMAIN tcp)
           m == Cardinality(DOMAIN udp_dst_sockets)
<1>1. DOMAIN tcp' = DOMAIN tcp \ {k} /\ DOMAIN tsock' \subseteq DOMAIN tsock
      /\ UNCHANGED <<buffer_bytes, usock>>
    BY DEF reap_tcp, sockets_after_reap, Remove, Restrict
<1>2. Cardinality(DOMAIN tcp') = n - 1 /\ n \in Nat /\ m \in Nat /\ n - 1 \in Nat
  <2>1. IsFiniteSet(DOMAIN tcp) /\ IsFiniteSet(DOMAIN udp_dst_sockets)
      BY DEF IInv, TcpInv, UdpInv, UdpTables
  <2>2. IsFiniteSet(DOMAIN tcp') /\ Cardinality(DOMAIN tcp') = n - 1
      BY <1>1, <2>1, FS_RemoveElement
  <2> QED BY <2>1, <2>2, FS_CardinalityType
<1>3. tcp_socket_bytes * (n - 1) = tcp_socket_bytes * n - tcp_socket_bytes
      /\ tcp_socket_bytes * n \in Nat /\ udp_per_socket_bytes * m \in Nat
    BY <1>2, Sizes, Charge
<1>4. buffer_bytes = tcp_socket_bytes * n + udp_per_socket_bytes * m + released
      /\ buffer_bytes \in Nat /\ released \in Nat
    BY DEF IInv, Budget, BudgetExact
<1>5. buffer_bytes' = tcp_socket_bytes * Cardinality(DOMAIN tcp')
                    + udp_per_socket_bytes * Cardinality(DOMAIN udp_dst_sockets') + released'
    BY <1>1, <1>2, <1>3, <1>4, Sizes
<1>6. released' \in Nat
    BY <1>4, Sizes
<1>7. Budget'
    BY <1>1, <1>5, <1>6 DEF IInv, Budget, BudgetExact
<1>8. TablesBounded'
    BY <1>2, CoreAssumption DEF IInv, TablesBounded
<1> QED BY <1>1, <1>7, <1>8 DEF IInv, Disjoint

(* Removing a UDP session: the table shrinks, and so does the set of       *)
(* shared sockets when the session was the last user of its own.           *)
LEMMA RemoveUdpSizes ==
    ASSUME IInv, NEW k \in DOMAIN udp, remove_udp(k), UNCHANGED <<tcp, tsock>>
    PROVE  /\ TablesBounded' /\ Disjoint'
           /\ LET m == Cardinality(DOMAIN udp_dst_sockets)
              IN  /\ m \in Nat
                  /\ Cardinality(DOMAIN udp_dst_sockets') = IF LastUser(k) THEN m - 1 ELSE m
                  /\ LastUser(k) => m > 0
<1>1. /\ DOMAIN udp' = DOMAIN udp \ {k}
      /\ DstId(k) \in DOMAIN udp_dst_sockets
      /\ DOMAIN udp_dst_sockets' = IF LastUser(k) THEN DOMAIN udp_dst_sockets \ {DstId(k)}
                                   ELSE DOMAIN udp_dst_sockets
      /\ DOMAIN usock' \subseteq DOMAIN usock
    BY Zenon, RemoveUdpTables DEF IInv, UdpInv
<1>2. IsFiniteSet(DOMAIN udp) /\ IsFiniteSet(DOMAIN udp_dst_sockets)
    BY DEF IInv, UdpInv, UdpTables
<1>3. Cardinality(DOMAIN udp') = Cardinality(DOMAIN udp) - 1 /\ Cardinality(DOMAIN udp) \in Nat
    BY <1>1, <1>2, FS_RemoveElement, FS_CardinalityType
<1>4. TablesBounded'
    BY <1>3, CoreAssumption DEF IInv, TablesBounded
<1> DEFINE m == Cardinality(DOMAIN udp_dst_sockets)
           S == DOMAIN udp_dst_sockets \ {DstId(k)}
<1>5. IsFiniteSet(S) /\ Cardinality(S) = m - 1 /\ m \in Nat /\ Cardinality(S) \in Nat
    BY <1>1, <1>2, FS_RemoveElement, FS_CardinalityType
<1>6. m > 0
    BY <1>5
<1>7. Disjoint'
    BY <1>1 DEF IInv, Disjoint
<1> QED BY <1>1, <1>4, <1>5, <1>6, <1>7

(* The sweep's releases wait in released as well. *)
LEMMA SweepBudget ==
    ASSUME IInv, NEW k \in DOMAIN udp, sweep_udp(k), UNCHANGED tcp,
           released' = IF LastUser(k) THEN released + udp_per_socket_bytes ELSE released
    PROVE  Budget' /\ TablesBounded' /\ Disjoint'
<1> DEFINE n == Cardinality(DOMAIN tcp)
           m == Cardinality(DOMAIN udp_dst_sockets)
<1>1. remove_udp(k) /\ UNCHANGED <<buffer_bytes, tsock>>
    BY DEF sweep_udp
<1>2. /\ TablesBounded' /\ Disjoint'
      /\ m \in Nat
      /\ Cardinality(DOMAIN udp_dst_sockets') = IF LastUser(k) THEN m - 1 ELSE m
      /\ LastUser(k) => m > 0
    BY <1>1, RemoveUdpSizes
<1>3. n \in Nat
    BY FS_CardinalityType DEF IInv, TcpInv
<1>4. /\ tcp_socket_bytes * n \in Nat /\ udp_per_socket_bytes * m \in Nat
      /\ m > 0 => udp_per_socket_bytes * (m - 1) = udp_per_socket_bytes * m - udp_per_socket_bytes
    BY <1>2, <1>3, Sizes, Charge
<1>5. buffer_bytes = tcp_socket_bytes * n + udp_per_socket_bytes * m + released
      /\ buffer_bytes \in Nat /\ released \in Nat
    BY DEF IInv, Budget, BudgetExact
<1>6. buffer_bytes' = tcp_socket_bytes * Cardinality(DOMAIN tcp')
                    + udp_per_socket_bytes * Cardinality(DOMAIN udp_dst_sockets') + released'
  <2>1. CASE LastUser(k)
      BY <1>1, <1>2, <1>4, <1>5, <2>1, Sizes
  <2>2. CASE ~ LastUser(k)
      BY <1>1, <1>2, <1>5, <2>2
  <2> QED BY <2>1, <2>2
<1>7. released' \in Nat
    BY <1>5, Sizes
<1> QED BY <1>1, <1>2, <1>5, <1>6, <1>7 DEF IInv, Budget, BudgetExact

(* Drop releases at once; what it releases was charged, so the saturating  *)
(* subtraction is exact.                                                   *)
LEMMA DropSessionBudget ==
    ASSUME IInv, NEW s \in DOMAIN sessions, drop_session(s), UNCHANGED <<tcp, released>>
    PROVE  Budget' /\ TablesBounded' /\ Disjoint'
<1> DEFINE n == Cardinality(DOMAIN tcp)
           m == Cardinality(DOMAIN udp_dst_sockets)
           k == sessions[s].key
<1>1. UNCHANGED tsock
    BY DEF drop_session
<1>2. n \in Nat /\ m \in Nat
    BY FS_CardinalityType DEF IInv, TcpInv, UdpInv, UdpTables
<1>3. /\ tcp_socket_bytes * n \in Nat /\ udp_per_socket_bytes * m \in Nat
      /\ m > 0 => /\ udp_per_socket_bytes * (m - 1) = udp_per_socket_bytes * m - udp_per_socket_bytes
                  /\ udp_per_socket_bytes * (m - 1) \in Nat
    BY <1>2, Sizes, Charge
<1>4. buffer_bytes = tcp_socket_bytes * n + udp_per_socket_bytes * m + released
      /\ buffer_bytes \in Nat /\ released \in Nat
      /\ (max_buffer_bytes # NoLimit => buffer_bytes <= max_buffer_bytes)
    BY DEF IInv, Budget, BudgetExact
<1>5. CASE k \in DOMAIN udp
  <2>1. /\ remove_udp(k)
        /\ buffer_bytes' = IF LastUser(k) THEN after_release(udp_per_socket_bytes) ELSE buffer_bytes
      BY <1>5 DEF drop_session, budget_after_drop
  <2> HIDE DEF k
  <2>2. /\ TablesBounded' /\ Disjoint'
        /\ Cardinality(DOMAIN udp_dst_sockets') = IF LastUser(k) THEN m - 1 ELSE m
        /\ LastUser(k) => m > 0
      BY <1>1, <1>5, <2>1, RemoveUdpSizes
  <2>3. CASE LastUser(k)
    <3>1. buffer_bytes >= udp_per_socket_bytes
        BY <1>3, <1>4, <2>2, <2>3, Sizes
    <3>2. buffer_bytes' = buffer_bytes - udp_per_socket_bytes
        BY <1>4, <2>1, <2>3, <3>1, Sizes DEF after_release
    <3>3. buffer_bytes' = tcp_socket_bytes * Cardinality(DOMAIN tcp')
                        + udp_per_socket_bytes * Cardinality(DOMAIN udp_dst_sockets') + released'
        BY <1>3, <1>4, <2>2, <2>3, <3>2, Sizes
    <3>4. buffer_bytes' \in Nat /\ buffer_bytes' <= buffer_bytes
        BY <1>4, <3>1, <3>2, Sizes
    <3>5. max_buffer_bytes # NoLimit => buffer_bytes' <= max_buffer_bytes
        BY <1>4, <3>4, CoreAssumption
    <3> QED BY <1>4, <2>2, <3>3, <3>4, <3>5 DEF Budget, BudgetExact
  <2>4. CASE ~ LastUser(k)
      BY <1>4, <2>1, <2>2, <2>4 DEF Budget, BudgetExact
  <2> QED BY <2>3, <2>4
<1>6. CASE k \notin DOMAIN udp
  <2>1. UNCHANGED <<udp, udp_dst_sockets, usock, buffer_bytes>>
      BY <1>6 DEF drop_session
  <2> QED BY <1>1, <2>1, BudgetFrame DEF IInv, Disjoint
<1> QED BY <1>5, <1>6

(* The end of post_pass releases exactly what it owes. *)
LEMMA EndPollBudget ==
    ASSUME IInv, EndPoll
    PROVE  Budget' /\ TablesBounded'
<1> DEFINE n == Cardinality(DOMAIN tcp)
           m == Cardinality(DOMAIN udp_dst_sockets)
<1>1. UNCHANGED <<tcp, udp, udp_dst_sockets>> /\ buffer_bytes' = after_release(released)
      /\ released' = 0
    BY DEF EndPoll, tcpVars, udpVars
<1>2. n \in Nat /\ m \in Nat
    BY FS_CardinalityType DEF IInv, TcpInv, UdpInv, UdpTables
<1>3. tcp_socket_bytes * n \in Nat /\ udp_per_socket_bytes * m \in Nat
    BY <1>2, Sizes, Charge
<1>4. buffer_bytes = tcp_socket_bytes * n + udp_per_socket_bytes * m + released
      /\ buffer_bytes \in Nat /\ released \in Nat
      /\ (max_buffer_bytes # NoLimit => buffer_bytes <= max_buffer_bytes)
    BY DEF IInv, Budget, BudgetExact
<1>5. buffer_bytes' = buffer_bytes - released /\ buffer_bytes >= released
    BY <1>1, <1>3, <1>4 DEF after_release
<1>6. buffer_bytes' = tcp_socket_bytes * n + udp_per_socket_bytes * m + 0
      /\ buffer_bytes' \in Nat /\ buffer_bytes' <= buffer_bytes
    BY <1>3, <1>4, <1>5
<1>7. max_buffer_bytes # NoLimit => buffer_bytes' <= max_buffer_bytes
    BY <1>4, <1>6, CoreAssumption
<1> QED BY <1>1, <1>6, <1>7 DEF IInv, Budget, BudgetExact, TablesBounded

(* A packet pre_pass or iface.poll looks at is a packet of the model, with *)
(* a key of the tables.                                                    *)
LEMMA HeadPacket ==
    ASSUME NEW q \in [Interface -> Seq(Packet)], NEW i \in Interface, q[i] # <<>>
    PROVE  /\ Head(q[i]) \in Packet
           /\ KeyOf(i, Head(q[i])) \in SessionKey
           /\ [q EXCEPT ![i] = Tail(@)] \in [Interface -> Seq(Packet)]
<1>1. q[i] \in Seq(Packet)
    OBVIOUS
<1>2. Head(q[i]) \in Packet /\ Tail(q[i]) \in Seq(Packet)
    BY <1>1
<1>3. Head(q[i]).src \in Src /\ Head(q[i]).dst \in Dst
    BY <1>2, PacketAssumption
<1> QED BY <1>2, <1>3 DEF KeyOf, SessionKey

(* pre_pass: a new TCP entry, a new UDP session, or nothing. *)
LEMMA PrePassInv ==
    ASSUME IInv, NEW i \in Interface, PrePass(i)
    PROVE  IInv'
<1> DEFINE p == Head(pre[i])
           k == KeyOf(i, p)
<1>1. UNCHANGED <<phase, ingress, released>> /\ pre[i] # <<>>
      /\ pre' = [pre EXCEPT ![i] = Tail(@)]
    BY DEF PrePass
<1>2. pre \in [Interface -> Seq(Packet)]
    BY DEF IInv, RunnerTypes
<1>3. k \in SessionKey /\ pre' \in [Interface -> Seq(Packet)]
    BY <1>1, <1>2, HeadPacket
<1>4. \/ WantsTcpEntry(k) /\ alloc_tcp(k) /\ UNCHANGED udpVars
      \/ WantsUdpEntry(k) /\ alloc_udp(k) /\ UNCHANGED tcpVars
      \/ UNCHANGED <<coreVars, tcpVars, udpVars>>
    BY DEF PrePass
<1> HIDE DEF k
<1>5. CASE WantsTcpEntry(k) /\ alloc_tcp(k) /\ UNCHANGED udpVars
  <2>1. UNCHANGED <<usock, udp, udp_dst_sockets, sessions>>
      BY <1>5 DEF alloc_tcp, udpVars
  <2>2. TcpInv' /\ UdpInv'
      BY <1>3, <1>5, <2>1, AllocTcpInv, UdpFrame DEF IInv
  <2>3. Budget' /\ TablesBounded' /\ Disjoint'
      BY <1>1, <1>3, <1>5, <2>1, AllocTcpBudget
  <2>4. tcp_pool' \in [Interface -> 0 .. tcp_pool_size]
    <3>1. tcp_pool \in [Interface -> 0 .. tcp_pool_size] /\ k.interface \in Interface
        BY <1>3 DEF IInv, RunnerTypes, SessionKey
    <3>2. tcp_pool' = [tcp_pool EXCEPT ![k.interface] = IF @ > 0 THEN @ - 1 ELSE 0]
        BY <1>5 DEF alloc_tcp
    <3>3. (IF tcp_pool[k.interface] > 0 THEN tcp_pool[k.interface] - 1 ELSE 0) \in 0 .. tcp_pool_size
      <4>1. tcp_pool[k.interface] \in 0 .. tcp_pool_size /\ tcp_pool_size \in Nat
          BY Zenon, <3>1, CoreAssumption
      <4>2. \A t \in 0 .. tcp_pool_size : (IF t > 0 THEN t - 1 ELSE 0) \in 0 .. tcp_pool_size
          BY <4>1
      <4> QED BY <4>1, <4>2
    <3> QED BY <3>1, <3>2, <3>3
  <2> QED BY <1>1, <1>3, <2>2, <2>3, <2>4 DEF IInv, RunnerTypes
<1>6. CASE WantsUdpEntry(k) /\ alloc_udp(k) /\ UNCHANGED tcpVars
  <2>1. UNCHANGED <<tsock, tcp, streams, tcp_pool>>
      BY <1>6 DEF alloc_udp, tcpVars
  <2>2. TcpInv'
      BY <2>1, TcpFrame DEF IInv
  <2>3. UdpInv'
      BY <1>3, <1>6, AllocUdpTables, AllocUdpSessions DEF IInv, UdpInv
  <2>4. Budget' /\ TablesBounded' /\ Disjoint'
      BY <1>1, <1>3, <1>6, <2>1, AllocUdpBudget
  <2> QED BY <1>1, <1>3, <2>1, <2>2, <2>3, <2>4 DEF IInv, RunnerTypes
<1>7. CASE UNCHANGED <<coreVars, tcpVars, udpVars>>
  <2>1. UNCHANGED <<buffer_bytes, tsock, usock, tcp_pool, tcp, streams, udp, udp_dst_sockets, sessions>>
      BY <1>7 DEF coreVars, tcpVars, udpVars
  <2>2. TcpInv' /\ UdpInv' /\ Budget' /\ TablesBounded' /\ Disjoint'
      BY <1>1, <2>1, TcpFrame, UdpFrame, BudgetFrame DEF IInv, Disjoint
  <2> QED BY <1>1, <1>3, <2>1, <2>2 DEF IInv, RunnerTypes
<1> QED BY <1>4, <1>5, <1>6, <1>7

(* iface.poll, ingress: packets move sockets and touch no table. *)
LEMMA PollIngressInv ==
    ASSUME IInv, NEW i \in Interface, PollIngress(i)
    PROVE  IInv'
<1> DEFINE p == Head(ingress[i])
<1>1. UNCHANGED <<phase, pre, released>> /\ ingress[i] # <<>>
      /\ ingress' = [ingress EXCEPT ![i] = Tail(@)]
    BY DEF PollIngress
<1>2. ingress \in [Interface -> Seq(Packet)]
    BY DEF IInv, RunnerTypes
<1>3. p \in Packet /\ ingress' \in [Interface -> Seq(Packet)]
    BY <1>1, <1>2, HeadPacket
<1>4. \/ deliver_tcp(i, p) /\ UNCHANGED udpVars
      \/ deliver_udp(i, p) /\ UNCHANGED tcpVars
      \/ UNCHANGED <<coreVars, tcpVars, udpVars>>
    BY DEF PollIngress
<1> HIDE DEF p
<1>5. CASE deliver_tcp(i, p) /\ UNCHANGED udpVars
  <2>1. UNCHANGED <<buffer_bytes, usock, tcp_pool, tcp, udp, udp_dst_sockets, sessions>>
      BY <1>5 DEF deliver_tcp, udpVars
  <2>2. TcpInv' /\ UdpInv' /\ Budget' /\ TablesBounded'
      BY <1>1, <1>3, <1>5, <2>1, DeliverTcpInv, UdpFrame, BudgetFrame DEF IInv
  <2>3. DOMAIN tsock' = DOMAIN tsock
      BY Zenon, <1>5 DEF deliver_tcp
  <2> QED BY <1>1, <1>3, <2>1, <2>2, <2>3 DEF IInv, RunnerTypes, Disjoint
<1>6. CASE deliver_udp(i, p) /\ UNCHANGED tcpVars
  <2>1. UNCHANGED <<buffer_bytes, tsock, tcp_pool, tcp, streams, udp, udp_dst_sockets, sessions>>
      BY <1>6 DEF deliver_udp, tcpVars
  <2>2. TcpInv' /\ Budget' /\ TablesBounded'
      BY <1>1, <2>1, TcpFrame, BudgetFrame DEF IInv
  <2>3. UdpTables' /\ DOMAIN usock' = DOMAIN usock
      BY Zenon, <1>3, <1>6, DeliverUdpTables DEF IInv, UdpInv, deliver_udp
  <2>4. SessionInv'
      BY <2>1 DEF IInv, UdpInv, SessionInv, OpenSessionsServed, OwnTrafficOnly
  <2> QED BY <1>1, <1>3, <2>1, <2>2, <2>3, <2>4 DEF IInv, UdpInv, RunnerTypes, Disjoint
<1>7. CASE UNCHANGED <<coreVars, tcpVars, udpVars>>
  <2>1. UNCHANGED <<buffer_bytes, tsock, usock, tcp_pool, tcp, streams, udp, udp_dst_sockets, sessions>>
      BY <1>7 DEF coreVars, tcpVars, udpVars
  <2>2. TcpInv' /\ UdpInv' /\ Budget' /\ TablesBounded' /\ Disjoint'
      BY <1>1, <2>1, TcpFrame, UdpFrame, BudgetFrame DEF IInv, Disjoint
  <2> QED BY <1>1, <1>3, <2>1, <2>2 DEF IInv, RunnerTypes
<1> QED BY <1>4, <1>5, <1>6, <1>7

(* iface.poll, egress. *)
LEMMA PollEgressInv ==
    ASSUME IInv, PollEgress
    PROVE  IInv'
<1>1. UNCHANGED <<buffer_bytes, tcp_pool, tcp, streams, udp, udp_dst_sockets, sessions,
                  ingress, pre, released>>
      /\ phase' = "accept"
    BY DEF PollEgress, Enter, tcpVars, udpVars
<1>2. PICK expired : tsock' = [c \in DOMAIN tsock |-> dispatched(tsock[c], c \in expired)]
    BY DEF PollEgress
<1>3. \A c \in DOMAIN tsock : tsock[c] \in TcpSocket
    BY DEF IInv, TcpInv, TcpTypeOK
<1>4. \A c \in DOMAIN tsock : tsock'[c] \in TcpSocket /\ tsock'[c].dst = tsock[c].dst
  <2> SUFFICES ASSUME NEW c \in DOMAIN tsock
               PROVE  tsock'[c] \in TcpSocket /\ tsock'[c].dst = tsock[c].dst
      OBVIOUS
  <2>1. tsock'[c] = dispatched(tsock[c], c \in expired) /\ (c \in expired) \in BOOLEAN
      BY <1>2
  <2>2. tsock[c] \in TcpSocket
      BY <1>3
  <2>3. CASE c \in expired
    <3>1. tsock'[c] = dispatched(tsock[c], TRUE)
        BY <2>1, <2>3, Zenon
    <3> QED BY Zenon, <2>2, <3>1, SocketSteps
  <2>4. CASE c \notin expired
    <3>1. tsock'[c] = dispatched(tsock[c], FALSE)
        BY <2>1, <2>4, Zenon
    <3> QED BY Zenon, <2>2, <3>1, SocketSteps
  <2> QED BY <2>3, <2>4
<1>5. DOMAIN tsock' = DOMAIN tsock /\ tsock' \in [DOMAIN tsock' -> TcpSocket]
    BY <1>2, <1>4
<1>6. TcpInv'
    BY <1>1, <1>4, <1>5, SocketsMove DEF IInv
<1>7. UdpTables' /\ DOMAIN usock' = DOMAIN usock
    BY <1>1, EgressUdpTables DEF PollEgress, IInv, UdpInv
<1>8. SessionInv'
    BY <1>1 DEF IInv, UdpInv, SessionInv, OpenSessionsServed, OwnTrafficOnly
<1>9. Budget' /\ TablesBounded'
    BY <1>1, BudgetFrame DEF IInv
<1> QED BY <1>1, <1>5, <1>6, <1>7, <1>8, <1>9 DEF IInv, UdpInv, RunnerTypes, Disjoint

(* post_pass, the TCP loops. *)
LEMMA PostPassTcpInv ==
    ASSUME IInv, AcceptTcp \/ \E k \in DOMAIN tcp : ReapTcp(k)
    PROVE  IInv'
<1>1. CASE AcceptTcp
  <2>1. UNCHANGED <<buffer_bytes, tsock, usock, tcp_pool, udp, udp_dst_sockets, sessions,
                    ingress, pre, released>>
        /\ phase' = "reap" /\ accept_tcp
      BY <1>1 DEF AcceptTcp, accept_tcp, Enter, coreVars, udpVars
  <2>2. DOMAIN tcp' = DOMAIN tcp
      BY <2>1 DEF accept_tcp
  <2>3. TcpInv' /\ UdpInv' /\ Budget' /\ TablesBounded'
      BY <2>1, <2>2, AcceptTcpInv, UdpFrame, BudgetFrame DEF IInv
  <2> QED BY <2>1, <2>3 DEF IInv, RunnerTypes, Disjoint
<1>2. ASSUME NEW k \in DOMAIN tcp, ReapTcp(k) PROVE IInv'
  <2>1. UNCHANGED <<udp, udp_dst_sockets, sessions, phase, ingress, pre>>
        /\ Reapable(k) /\ reap_tcp(k) /\ released' = released + tcp_socket_bytes
      BY <1>2 DEF ReapTcp, udpVars
  <2>2. UNCHANGED usock
      BY <2>1 DEF reap_tcp
  <2>3. TcpInv' /\ UdpInv'
      BY <2>1, <2>2, ReapTcpInv, UdpFrame DEF IInv
  <2>4. Budget' /\ TablesBounded' /\ Disjoint'
      BY <2>1, ReapBudget
  <2>5. tcp_pool' \in [Interface -> 0 .. tcp_pool_size]
    <3>1. tcp_pool \in [Interface -> 0 .. tcp_pool_size] /\ k.interface \in Interface
        BY DEF IInv, RunnerTypes, TcpInv, TcpTypeOK, SessionKey
    <3>2. tcp_pool[k.interface] \in 0 .. tcp_pool_size /\ tcp_pool_size \in Nat
        BY Zenon, <3>1, CoreAssumption
    <3>3. \A t \in 0 .. tcp_pool_size : (IF t < tcp_pool_size THEN t + 1 ELSE t) \in 0 .. tcp_pool_size
        BY <3>2
    <3>4. tcp_pool' = [tcp_pool EXCEPT ![k.interface] = IF @ < tcp_pool_size THEN @ + 1 ELSE @]
        BY <2>1 DEF reap_tcp, pool_after_reap
    <3> QED BY <3>1, <3>2, <3>3, <3>4
  <2> QED BY <2>1, <2>3, <2>4, <2>5 DEF IInv, RunnerTypes
<1> QED BY <1>1, <1>2

(* post_pass, the UDP loops and the release of the budget. *)
LEMMA PostPassUdpInv ==
    ASSUME IInv,
           \/ \E id \in DOMAIN udp_dst_sockets : RouteUdp(id)
           \/ \E k \in DOMAIN udp : SweepUdp(k)
           \/ EndPoll
    PROVE  IInv'
<1>1. ASSUME NEW id \in DOMAIN udp_dst_sockets, RouteUdp(id) PROVE IInv'
  <2>1. UNCHANGED <<tcp, streams, phase, ingress, pre, released>> /\ route_udp(id)
      BY <1>1 DEF RouteUdp, tcpVars, runnerVars
  <2>2. UNCHANGED <<buffer_bytes, tsock, tcp_pool, udp_dst_sockets>>
        /\ DOMAIN udp' = DOMAIN udp /\ DOMAIN usock' = DOMAIN usock
      BY ZenonT(60), <2>1 DEF route_udp
  <2>3. TcpInv' /\ UdpInv' /\ Budget' /\ TablesBounded'
      BY <2>1, <2>2, TcpFrame, RouteInv, BudgetFrame DEF IInv
  <2> QED BY Zenon, <2>1, <2>2, <2>3 DEF IInv, RunnerTypes, Disjoint
<1>2. ASSUME NEW k \in DOMAIN udp, SweepUdp(k) PROVE IInv'
  <2>1. UNCHANGED <<tcp, streams, phase, ingress, pre>> /\ sweep_udp(k)
        /\ released' = IF LastUser(k) THEN released + udp_per_socket_bytes ELSE released
      BY <1>2 DEF SweepUdp, tcpVars
  <2>2. UNCHANGED <<tsock, tcp_pool>>
      BY <2>1 DEF sweep_udp
  <2>3. TcpInv' /\ UdpInv'
      BY <2>1, <2>2, TcpFrame, SweepInv DEF IInv
  <2>4. Budget' /\ TablesBounded' /\ Disjoint'
      BY <2>1, SweepBudget
  <2> QED BY <2>1, <2>2, <2>3, <2>4 DEF IInv, RunnerTypes
<1>3. CASE EndPoll
  <2>1. UNCHANGED <<tsock, usock, tcp_pool, tcp, streams, udp, udp_dst_sockets, sessions, ingress, pre>>
        /\ phase' = "unlocked"
      BY <1>3 DEF EndPoll, Enter, tcpVars, udpVars
  <2>2. TcpInv' /\ UdpInv' /\ Budget' /\ TablesBounded'
      BY <1>3, <2>1, TcpFrame, UdpFrame, EndPollBudget DEF IInv
  <2> QED BY <2>1, <2>2 DEF IInv, RunnerTypes, Disjoint
<1> QED BY <1>1, <1>2, <1>3

(* The application's calls on its streams. *)
LEMMA StreamCallsInv ==
    ASSUME IInv, NEW st \in streams, ShutdownStream(st) \/ DropStream(st)
    PROVE  IInv'
<1>1. UNCHANGED <<buffer_bytes, usock, tcp_pool, udp, udp_dst_sockets, sessions,
                  phase, ingress, pre, released>>
      /\ (poll_shutdown(st) \/ drop_stream(st))
    BY DEF ShutdownStream, DropStream, poll_shutdown, drop_stream, udpVars, runnerVars
<1>2. DOMAIN tsock' = DOMAIN tsock /\ DOMAIN tcp' = DOMAIN tcp
    BY <1>1 DEF poll_shutdown, drop_stream, orphan
<1>3. TcpInv' /\ UdpInv' /\ Budget' /\ TablesBounded'
    BY Zenon, <1>1, <1>2, ShutdownInv, DropStreamInv, UdpFrame, BudgetFrame DEF IInv
<1> QED BY ZenonT(60), <1>1, <1>2, <1>3 DEF IInv, RunnerTypes, Disjoint

(* The application's calls on its UDP sessions, and time. *)
LEMMA SessionCallsInv ==
    ASSUME IInv,
           \/ \E s \in DOMAIN sessions : DropSession(s) \/ Send(s) \/ Recv(s)
           \/ Tick
    PROVE  IInv'
<1>1. ASSUME NEW s \in DOMAIN sessions, DropSession(s) PROVE IInv'
  <2>1. UNCHANGED <<tcp, streams, phase, ingress, pre, released>> /\ drop_session(s)
      BY <1>1 DEF DropSession, tcpVars, runnerVars
  <2>2. UNCHANGED <<tsock, tcp_pool>>
      BY <2>1 DEF drop_session
  <2>3. TcpInv' /\ UdpInv' /\ Budget' /\ TablesBounded' /\ Disjoint'
      BY <2>1, <2>2, TcpFrame, DropSessionInv, DropSessionBudget DEF IInv
  <2> QED BY <2>1, <2>2, <2>3 DEF IInv, RunnerTypes
<1>2. ASSUME NEW s \in DOMAIN sessions, Send(s) PROVE IInv'
  <2>1. UNCHANGED <<tcp, streams, phase, ingress, pre, released>> /\ try_send(s)
      BY <1>2 DEF Send, tcpVars, runnerVars
  <2>2. UNCHANGED <<buffer_bytes, tsock, tcp_pool, udp, udp_dst_sockets>>
        /\ DOMAIN usock' = DOMAIN usock
      BY <2>1 DEF try_send
  <2>3. TcpInv' /\ UdpInv' /\ Budget' /\ TablesBounded'
      BY <2>1, <2>2, TcpFrame, TrySendInv, BudgetFrame DEF IInv
  <2> QED BY Zenon, <2>1, <2>2, <2>3 DEF IInv, RunnerTypes, Disjoint
<1>3. ASSUME NEW s \in DOMAIN sessions, Recv(s) PROVE IInv'
  <2>1. UNCHANGED <<tcp, streams, phase, ingress, pre, released>> /\ recv(s)
      BY <1>3 DEF Recv, tcpVars, runnerVars
  <2>2. UNCHANGED <<buffer_bytes, usock, tsock, tcp_pool, udp, udp_dst_sockets>>
      BY <2>1 DEF recv
  <2>3. TcpInv' /\ UdpInv' /\ Budget' /\ TablesBounded'
      BY <2>1, <2>2, TcpFrame, RecvInv, BudgetFrame DEF IInv
  <2> QED BY <2>1, <2>2, <2>3 DEF IInv, RunnerTypes, Disjoint
<1>4. CASE Tick
  <2>1. UNCHANGED <<tcp, streams, phase, ingress, pre, released>> /\ tick
      BY <1>4 DEF Tick, tcpVars, runnerVars
  <2>2. UNCHANGED <<buffer_bytes, usock, tsock, tcp_pool, udp_dst_sockets>>
        /\ DOMAIN udp' = DOMAIN udp
      BY <2>1 DEF tick
  <2>3. TcpInv' /\ UdpInv' /\ Budget' /\ TablesBounded'
      BY <2>1, <2>2, TcpFrame, TickInv, BudgetFrame DEF IInv
  <2> QED BY <2>1, <2>2, <2>3 DEF IInv, RunnerTypes, Disjoint
<1> QED BY <1>1, <1>2, <1>3, <1>4

(* Steps that touch no table and no socket: the boundaries of the phases   *)
(* and the arrival of packets.                                             *)
LEMMA QuietInv ==
    ASSUME IInv,
           UNCHANGED <<coreVars, tcpVars, udpVars, released>>,
           phase' \in {"unlocked", "pre", "poll", "accept", "reap", "route", "sweep"},
           ingress' \in [Interface -> Seq(Packet)],
           pre' \in [Interface -> Seq(Packet)]
    PROVE  IInv'
<1>1. UNCHANGED <<buffer_bytes, tsock, usock, tcp_pool, tcp, streams, udp, udp_dst_sockets,
                  sessions, released>>
    BY DEF coreVars, tcpVars, udpVars
<1>2. TcpInv' /\ UdpInv' /\ Budget' /\ TablesBounded'
    BY <1>1, TcpFrame, UdpFrame, BudgetFrame DEF IInv
<1> QED BY <1>1, <1>2 DEF IInv, RunnerTypes, Disjoint

(* Init establishes the invariant. *)
LEMMA InitInv == Init => IInv
<1> SUFFICES ASSUME Init PROVE IInv
    OBVIOUS
<1>1. /\ buffer_bytes = 0 /\ tsock = <<>> /\ usock = <<>> /\ tcp = <<>> /\ streams = {}
      /\ udp = <<>> /\ udp_dst_sockets = <<>> /\ sessions = <<>> /\ released = 0
      /\ phase = "unlocked" /\ tcp_pool = [i \in Interface |-> 0]
      /\ ingress = [i \in Interface |-> <<>>] /\ pre = [i \in Interface |-> <<>>]
    BY DEF Init, CoreInit, TcpInit, UdpInit
<1>2. \A f : f = <<>> => DOMAIN f = {} /\ \A S : f \in [DOMAIN f -> S]
    OBVIOUS
<1>3. IsFiniteSet({}) /\ Cardinality({}) = 0
    BY FS_EmptySet
<1>4. TcpInv
    BY <1>1, <1>2, <1>3 DEF TcpInv, TcpTypeOK, StreamsServed
<1>5. UdpInv
    BY <1>1, <1>2, <1>3 DEF UdpInv, UdpTables, SessionInv, RefCountExact, OpenSessionsServed,
                            OwnTrafficOnly
<1>6. Budget
    BY <1>1, <1>2, <1>3, Sizes, CoreAssumption DEF Budget, BudgetExact
<1>7. TablesBounded
    BY <1>1, <1>2, <1>3, CoreAssumption DEF TablesBounded
<1>8. RunnerTypes
    BY <1>1, CoreAssumption DEF RunnerTypes
<1> QED BY <1>1, <1>2, <1>4, <1>5, <1>6, <1>7, <1>8 DEF IInv, Disjoint

(* Every step preserves it. *)
LEMMA StepInv == IInv /\ [Next]_vars => IInv'
<1> SUFFICES ASSUME IInv, [Next]_vars PROVE IInv'
    OBVIOUS
<1> USE DEF Enter
<1>1. ingress \in [Interface -> Seq(Packet)] /\ pre \in [Interface -> Seq(Packet)]
      /\ phase \in {"unlocked", "pre", "poll", "accept", "reap", "route", "sweep"}
    BY DEF IInv, RunnerTypes
<1>2. CASE UNCHANGED vars
    BY <1>1, <1>2, QuietInv DEF vars, runnerVars
<1>3. CASE BeginPoll
    BY <1>1, <1>3, QuietInv DEF BeginPoll
<1>4. CASE EndPrePass \/ EndReap \/ EndRoute
    BY <1>1, <1>4, QuietInv DEF EndPrePass, EndReap, EndRoute
<1>5. ASSUME NEW i \in Interface, NEW p \in Packet, queue_ingress(i, p) PROVE IInv'
  <2>1. ingress' = [ingress EXCEPT ![i] = Append(ingress[i], p)]
      BY <1>5 DEF queue_ingress
  <2>2. Append(ingress[i], p) \in Seq(Packet)
      BY <1>1
  <2>3. ingress' \in [Interface -> Seq(Packet)]
      BY <1>1, <2>1, <2>2
  <2> QED BY <1>1, <1>5, <2>3, QuietInv DEF queue_ingress
<1>6. CASE RunnerStep
    BY <1>3, <1>4, <1>6, PrePassInv, PollIngressInv, PollEgressInv, PostPassTcpInv, PostPassUdpInv
    DEF RunnerStep
<1> QED BY <1>2, <1>5, <1>6, StreamCallsInv, SessionCallsInv DEF Next

(* IInv is an invariant of the program. *)
THEOREM Invariance == Spec => []IInv
BY InitInv, StepInv, PTL DEF Spec

(* The tables, sockets, pools and queues always have their types. *)
THEOREM TypeCorrect == Spec => []TypeOK
<1>1. IInv => TypeOK
    BY DEF IInv, TypeOK, CoreTypeOK, UdpTypeOK, TcpInv, UdpInv, UdpTables, SessionInv,
           Budget, RunnerTypes
<1> QED BY <1>1, Invariance, PTL

(* Every handle in use is in its slot's socket set: SocketSet::get_mut and *)
(* SocketSet::remove never panic under the core mutex.                     *)
THEOREM HandlesValid == Spec => []NoDanglingHandle
<1>1. IInv => NoDanglingHandle
  <2> SUFFICES ASSUME IInv PROVE NoDanglingHandle
      OBVIOUS
  <2>1. \A k \in DOMAIN tcp : PlaceOf(k) \in DOMAIN tsock
      BY DEF IInv, TcpInv
  <2>2. \A st \in streams : <<st.key.interface, st.handle>> \in DOMAIN tsock
      BY <2>1 DEF IInv, TcpInv, StreamsServed, PlaceOf
  <2>3. \A id \in DOMAIN udp_dst_sockets : <<id[1], udp_dst_sockets[id].handle>> \in DOMAIN usock
      BY DEF IInv, UdpInv, UdpTables, DstPlace
  <2>4. \A k \in DOMAIN udp : <<k.interface, udp[k].socket>> \in DOMAIN usock
      BY ZenonT(60), <2>3 DEF IInv, UdpInv, UdpTables, RefCountExact, DstId
  <2>5. \A s \in DOMAIN sessions :
          ~ sessions[s].closed => <<sessions[s].key.interface, sessions[s].socket>> \in DOMAIN usock
      BY <2>4 DEF IInv, UdpInv, SessionInv, OpenSessionsServed
  <2> QED BY <2>1, <2>2, <2>3, <2>4, <2>5 DEF NoDanglingHandle
<1> QED BY <1>1, Invariance, PTL

(* No socket is leaked and none is shared by accident. *)
THEOREM NoSocketLeaked == Spec => []SocketsOwned
<1>1. IInv => SocketsOwned
  <2> SUFFICES ASSUME IInv PROVE SocketsOwned
      OBVIOUS
  <2>1. \A c \in DOMAIN tsock : \E k \in DOMAIN tcp :
          /\ PlaceOf(k) = c /\ tsock[c].dst = k.dst
          /\ \A j \in DOMAIN tcp : PlaceOf(j) = c => j = k
      BY DEF IInv, TcpInv
  <2>2. \A c \in DOMAIN usock : \E id \in DOMAIN udp_dst_sockets :
          /\ DstPlace(id) = c /\ usock[c].dst = id[2]
          /\ \A jd \in DOMAIN udp_dst_sockets : DstPlace(jd) = c => jd = id
      BY DEF IInv, UdpInv, UdpTables
  <2> QED BY ZenonT(60), <2>1, <2>2 DEF SocketsOwned, DstPlace, IInv, Disjoint
<1> QED BY <1>1, Invariance, PTL

(* The reference count of a shared UDP socket is the number of its users. *)
THEOREM CountsExact == Spec => []RefCountExact
<1>1. IInv => RefCountExact
    BY DEF IInv, UdpInv, UdpTables
<1> QED BY <1>1, Invariance, PTL

(* The budget counts exactly the buffers in use, and respects its limit. *)
THEOREM BudgetKept == Spec => []BudgetExact
<1>1. IInv => BudgetExact
    BY DEF IInv, Budget
<1> QED BY <1>1, Invariance, PTL

(* The tables respect tcp_max_connections and udp_max_sessions. *)
THEOREM LimitsKept == Spec => []TablesBounded
<1>1. IInv => TablesBounded
    BY DEF IInv
<1> QED BY <1>1, Invariance, PTL

(* Open UDP sessions and table entries correspond one to one. *)
THEOREM SessionsServed == Spec => []OpenSessionsServed
<1>1. IInv => OpenSessionsServed
    BY DEF IInv, UdpInv, SessionInv
<1> QED BY <1>1, Invariance, PTL

(* A session's queue holds datagrams of its own 5-tuple only, although     *)
(* sessions share sockets.                                                 *)
THEOREM FlowsSeparate == Spec => []OwnTrafficOnly
<1>1. IInv => OwnTrafficOnly
    BY DEF IInv, UdpInv, SessionInv
<1> QED BY <1>1, Invariance, PTL

(* Every TCP stream still has its entry, past Pending and not orphaned. *)
THEOREM StreamEntries == Spec => []StreamsServed
<1>1. IInv => StreamsServed
    BY DEF IInv, TcpInv
<1> QED BY <1>1, Invariance, PTL

(* A TCP entry moves forward only, keeps its socket, and is removed only   *)
(* as an orphan with a Closed socket.                                      *)
THEOREM LifecycleKept == Spec => TcpLifecycle
<1> DEFINE Forward(k) ==
             IF k \in DOMAIN tcp'
             THEN /\ tcp'[k].handle = tcp[k].handle
                  /\ tcp[k].orphaned => tcp'[k].orphaned
                  /\ <<tcp[k].state, tcp'[k].state>> \notin
                        {<<"Established", "Pending">>, <<"Closed", "Pending">>,
                         <<"Closed", "Established">>, <<"Pending", "Closed">>}
             ELSE tcp[k].orphaned /\ tsock[PlaceOf(k)].state = "Closed"
<1>1. IInv /\ [Next]_vars => \A k \in DOMAIN tcp : Forward(k)
  <2> SUFFICES ASSUME IInv, [Next]_vars, NEW k \in DOMAIN tcp PROVE Forward(k)
      OBVIOUS
  <2>1. tcp[k] \in TcpEntry
      BY DEF IInv, TcpInv, TcpTypeOK
  <2>2. k \in DOMAIN tcp' /\ tcp'[k] = tcp[k] => Forward(k)
      OBVIOUS
  <2>3. CASE tcp' = tcp
      BY <2>2, <2>3
  <2>4. ASSUME NEW x, WantsTcpEntry(x), alloc_tcp(x) PROVE Forward(k)
    <3>1. k \in DOMAIN tcp' /\ tcp'[k] = tcp[k]
        BY <2>4 DEF alloc_tcp, WantsTcpEntry, Insert
    <3> QED BY <2>2, <3>1
  <2>5. CASE accept_tcp
    <3> DEFINE t == transition(tcp[k], tsock[PlaceOf(k)])
    <3>1. k \in DOMAIN tcp' /\ tcp'[k] = [tcp[k] EXCEPT !.state = t]
        BY <2>5 DEF accept_tcp
    <3>2. t = tcp[k].state \/ (tcp[k].state = "Pending" /\ t = "Established")
                           \/ (tcp[k].state = "Established" /\ t = "Closed")
        BY DEF transition
    <3> HIDE DEF t
    <3>3. tcp'[k].handle = tcp[k].handle /\ tcp'[k].state = t
        BY <2>1, <3>1 DEF TcpEntry
    <3>4. tcp[k].orphaned => tcp'[k].orphaned
        BY <2>1, <3>1 DEF TcpEntry
    <3>5. <<tcp[k].state, tcp'[k].state>> \notin
              {<<"Established", "Pending">>, <<"Closed", "Pending">>,
               <<"Closed", "Established">>, <<"Pending", "Closed">>}
        BY <3>2, <3>3
    <3> QED BY <3>1, <3>3, <3>4, <3>5
  <2>6. ASSUME NEW x \in DOMAIN tcp, Reapable(x), reap_tcp(x) PROVE Forward(k)
    <3>1. CASE k = x
      <4>1. k \notin DOMAIN tcp' /\ tcp[k].orphaned /\ tsock[PlaceOf(k)].state = "Closed"
          BY <2>6, <3>1 DEF reap_tcp, Reapable, Remove, Restrict
      <4> QED BY <4>1
    <3>2. CASE k # x
      <4>1. k \in DOMAIN tcp' /\ tcp'[k] = tcp[k]
          BY <2>6, <3>2 DEF reap_tcp, sockets_after_reap, Remove, Restrict
      <4> QED BY <2>2, <4>1
    <3> QED BY <3>1, <3>2
  <2>7. ASSUME NEW st \in streams, drop_stream(st) PROVE Forward(k)
    <3>1. st.key \in DOMAIN tcp /\ tcp' = [tcp EXCEPT ![st.key].orphaned = TRUE]
        BY Zenon, <2>7 DEF drop_stream, orphan, IInv, TcpInv, StreamsServed
    <3>2. CASE k # st.key
      <4>1. k \in DOMAIN tcp' /\ tcp'[k] = tcp[k]
          BY <3>1, <3>2
      <4> QED BY <2>2, <4>1
    <3>3. CASE k = st.key
      <4>1. k \in DOMAIN tcp' /\ tcp'[k] = [tcp[k] EXCEPT !.orphaned = TRUE]
          BY <3>1, <3>3
      <4>2. tcp'[k].handle = tcp[k].handle /\ tcp'[k].state = tcp[k].state
          BY <2>1, <4>1 DEF TcpEntry
      <4>3. tcp'[k].orphaned
          BY <2>1, <4>1 DEF TcpEntry
      <4>4. <<tcp[k].state, tcp'[k].state>> \notin
                {<<"Established", "Pending">>, <<"Closed", "Pending">>,
                 <<"Closed", "Established">>, <<"Pending", "Closed">>}
          BY <4>2
      <4> QED BY <4>1, <4>2, <4>3, <4>4
    <3> QED BY <3>2, <3>3
  <2> HIDE DEF Forward
  <2>8. ASSUME NEW i \in Interface, PrePass(i) PROVE Forward(k)
      BY <2>3, <2>4, <2>8 DEF PrePass, tcpVars
  <2>9. ASSUME NEW i \in Interface, PollIngress(i) PROVE Forward(k)
      BY <2>3, <2>9 DEF PollIngress, deliver_tcp, deliver_udp, tcpVars
  <2>10. CASE RunnerStep
      BY <2>3, <2>5, <2>6, <2>8, <2>9, <2>10
      DEF RunnerStep, BeginPoll, EndPrePass, PollEgress, AcceptTcp, ReapTcp, EndReap, RouteUdp,
          EndRoute, SweepUdp, EndPoll, tcpVars
  <2>11. CASE Next /\ ~ RunnerStep
      BY Zenon, <2>3, <2>7, <2>11
      DEF Next, queue_ingress, ShutdownStream, poll_shutdown, DropStream, DropSession, Send, Recv,
          Tick, tcpVars
  <2>12. CASE UNCHANGED vars
      BY <2>3, <2>12 DEF vars, tcpVars
  <2> QED BY <2>10, <2>11, <2>12
<1>2. IInv /\ [Next]_vars => [\A k \in DOMAIN tcp : Forward(k)]_vars
    BY <1>1
<1> QED BY <1>2, Invariance, PTL DEF Spec, TcpLifecycle

(* A closed UDP session stays closed and gets no more datagrams: the       *)
(* entries of the table name queues of open sessions only.                 *)
THEOREM ClosedKept == Spec => ClosedIsFinal
<1> DEFINE Final(s) == sessions[s].closed => /\ sessions'[s].closed
                                             /\ sessions'[s].inbox \subseteq sessions[s].inbox
<1>1. IInv /\ [Next]_vars => \A s \in DOMAIN sessions \cap DOMAIN sessions' : Final(s)
  <2> SUFFICES ASSUME IInv, [Next]_vars, NEW s \in DOMAIN sessions \cap DOMAIN sessions'
               PROVE  Final(s)
      OBVIOUS
  <2>1. sessions[s] \in WayUdpSession /\ s \in DOMAIN sessions
      BY DEF IInv, UdpInv, SessionInv
  <2>2. sessions[s].closed => \A k \in DOMAIN udp : udp[k].queue # s
      BY DEF IInv, UdpInv, SessionInv, OpenSessionsServed
  <2>3. sessions'[s] = sessions[s] => Final(s)
      OBVIOUS
  <2>4. CASE sessions' = sessions
      BY <2>3, <2>4
  <2>5. ASSUME NEW k, alloc_udp(k) PROVE Final(s)
    <3>1. sessions'[s] = sessions[s]
        BY <2>1, <2>5 DEF alloc_udp, FreshSid, Insert
    <3> QED BY <2>3, <3>1
  <2>6. ASSUME NEW id, route_udp(id) PROVE Final(s)
    <3> DEFINE k == route(id, Head(usock[<<id[1], udp_dst_sockets[id].handle>>].rx))
               from == [interface |-> id[1], dst |-> id[2],
                        src |-> Head(usock[<<id[1], udp_dst_sockets[id].handle>>].rx)]
    <3>1. IF k \in DOMAIN udp
          THEN sessions' = [sessions EXCEPT ![udp[k].queue].inbox = @ \cup {from}]
          ELSE sessions' = sessions
        BY Zenon, <2>6 DEF route_udp, queue_of
    <3> HIDE DEF k, from
    <3>2. sessions[s].closed => sessions'[s] = sessions[s]
        BY <2>2, <3>1
    <3> QED BY <3>2
  <2>7. ASSUME NEW k \in DOMAIN udp, sweep_udp(k) PROVE Final(s)
    <3>1. sessions[s].closed => sessions'[s] = sessions[s]
        BY <2>2, <2>7 DEF sweep_udp, closed_queue
    <3> QED BY <3>1
  <2>8. ASSUME NEW r, drop_session(r) PROVE Final(s)
    <3> DEFINE k == sessions[r].key
    <3>1. /\ k \in DOMAIN udp
             => sessions' = Remove([sessions EXCEPT ![udp[k].queue].closed = TRUE], r)
          /\ k \notin DOMAIN udp => sessions' = Remove(sessions, r)
        BY Zenon, <2>8 DEF drop_session, closed_queue
    <3> HIDE DEF k
    <3>2. s \in DOMAIN sessions'
        OBVIOUS
    <3>3. sessions[s].closed => sessions'[s] = sessions[s]
        BY <2>2, <3>1, <3>2 DEF Remove, Restrict
    <3> QED BY <3>3
  <2>9. ASSUME NEW r \in DOMAIN sessions, recv(r) PROVE Final(s)
    <3>1. PICK k : sessions' = [sessions EXCEPT ![r].inbox = @ \ {k}]
        BY Zenon, <2>9 DEF recv
    <3>2. CASE r # s
      <4>1. sessions'[s] = sessions[s]
          BY <3>1, <3>2
      <4> QED BY <2>3, <4>1
    <3>3. CASE r = s
      <4>1. sessions'[s] = [sessions[s] EXCEPT !.inbox = @ \ {k}]
          BY <3>1, <3>3
      <4>2. sessions'[s].inbox = sessions[s].inbox \ {k}
          BY <2>1, <4>1 DEF WayUdpSession
      <4>3. sessions[s].closed => sessions'[s].closed
          BY <2>1, <4>1 DEF WayUdpSession
      <4> QED BY <4>2, <4>3
    <3> QED BY <3>2, <3>3
  <2> HIDE DEF Final
  <2>10. ASSUME NEW i \in Interface, PrePass(i) PROVE Final(s)
      BY <2>4, <2>5, <2>10 DEF PrePass, udpVars
  <2>11. ASSUME NEW i \in Interface, PollIngress(i) PROVE Final(s)
      BY <2>4, <2>11 DEF PollIngress, deliver_udp, udpVars
  <2>12. CASE RunnerStep
      BY <2>4, <2>6, <2>7, <2>10, <2>11, <2>12
      DEF RunnerStep, BeginPoll, EndPrePass, PollEgress, AcceptTcp, ReapTcp, EndReap, RouteUdp,
          EndRoute, SweepUdp, EndPoll, udpVars
  <2>13. CASE Next /\ ~ RunnerStep
      BY Zenon, <2>4, <2>8, <2>9, <2>13
      DEF Next, queue_ingress, ShutdownStream, DropStream, DropSession, Send, try_send, Recv,
          Tick, tick, udpVars
  <2>14. CASE UNCHANGED vars
      BY <2>4, <2>14 DEF vars, udpVars
  <2> QED BY <2>12, <2>13, <2>14
<1>2. IInv /\ [Next]_vars => [\A s \in DOMAIN sessions \cap DOMAIN sessions' : Final(s)]_vars
    BY <1>1
<1> QED BY <1>2, Invariance, PTL DEF Spec, ClosedIsFinal

(* Outside the poll a shared socket keeps the datagrams send accepted as   *)
(* long as a session uses it: the reference count, exact, keeps the socket *)
(* alive, and no step but a poll takes a datagram out.                     *)
THEOREM AcceptedRepliesKept == Spec => RepliesKept
<1> DEFINE Kept(k) == LET c == <<k.interface, udp[k].socket>>
                      IN  phase # "poll" => c \in DOMAIN usock' /\ usock'[c].tx >= usock[c].tx
<1>1. IInv /\ IInv' /\ [Next]_vars => \A k \in DOMAIN udp \cap DOMAIN udp' : Kept(k)
  <2> SUFFICES ASSUME IInv, IInv', [Next]_vars, NEW k \in DOMAIN udp \cap DOMAIN udp', phase # "poll"
               PROVE  Kept(k)
      OBVIOUS
  <2> DEFINE c == <<k.interface, udp[k].socket>>
  <2>1. c \in DOMAIN usock /\ usock \in [DOMAIN usock -> UdpSocket]
    <3>1. /\ usock \in [DOMAIN usock -> UdpSocket] /\ RefCountExact
          /\ \A id \in DOMAIN udp_dst_sockets : DstPlace(id) \in DOMAIN usock
        BY Zenon DEF IInv, UdpInv, UdpTables
    <3>2. DstId(k) \in DOMAIN udp_dst_sockets /\ udp[k].socket = udp_dst_sockets[DstId(k)].handle
        BY Zenon, <3>1 DEF RefCountExact
    <3>3. c = DstPlace(DstId(k))
        BY Zenon, <3>2 DEF DstPlace, DstId
    <3> QED BY Zenon, <3>1, <3>2, <3>3
  <2>2. udp'[k].socket = udp[k].socket => c \in DOMAIN usock'
    <3>1. RefCountExact' /\ \A id \in DOMAIN udp_dst_sockets' :
                              <<id[1], udp_dst_sockets'[id].handle>> \in DOMAIN usock'
        BY DEF IInv, UdpInv, UdpTables, DstPlace
    <3>2. DstId(k) \in DOMAIN udp_dst_sockets' /\ udp'[k].socket = udp_dst_sockets'[DstId(k)].handle
        BY <3>1 DEF RefCountExact, DstId
    <3> QED BY Zenon, <3>1, <3>2 DEF DstId
  <2>3. c \in DOMAIN usock' /\ usock'[c].tx >= usock[c].tx => Kept(k)
      OBVIOUS
  <2>4. ASSUME c \in DOMAIN usock', usock'[c] = usock[c] PROVE Kept(k)
    <3>1. usock[c] \in UdpSocket
        BY Zenon, <2>1
    <3>2. usock'[c].tx >= usock[c].tx
        BY Zenon, <2>4, <3>1, TxOfSame
    <3> QED BY Zenon, <2>3, <2>4, <3>2
  <2> HIDE DEF Kept, c
  <2>4a. CASE usock' = usock
      BY Zenon, <2>1, <2>4, <2>4a
  <2>5. ASSUME NEW x, alloc_udp(x) PROVE Kept(k)
    <3>1. PICK h : udp_socket_for(x, h)
        BY <2>5 DEF alloc_udp
    <3>2. CASE Fresh(x)
      <4>1. /\ <<x.interface, h>> \notin DOMAIN usock
            /\ usock' = Insert(usock, <<x.interface, h>>, [dst |-> x.dst, rx |-> <<>>, tx |-> 0])
          BY <3>1, <3>2 DEF udp_socket_for, FirstFree, UsedPlaces
      <4>2. c \in DOMAIN usock' /\ usock'[c] = usock[c]
          BY Zenon, <2>1, <4>1 DEF Insert
      <4> QED BY Zenon, <2>4, <4>2
    <3>3. CASE ~ Fresh(x)
        BY ZenonT(60), <2>4a, <3>1, <3>3 DEF udp_socket_for
    <3> QED BY <3>2, <3>3
  <2>6. ASSUME NEW id, route_udp(id) PROVE Kept(k)
    <3>1. PICK q : usock' = [usock EXCEPT ![q].rx = unread(@)]
        BY Zenon, <2>6 DEF route_udp
    <3> QED BY Zenon, <2>1, <2>3, <3>1, TxKept
  <2>7. ASSUME NEW x, remove_udp(x) PROVE Kept(k)
    <3>1. udp'[k].socket = udp[k].socket
        BY <2>7 DEF remove_udp, Remove, Restrict
    <3>2. c \in DOMAIN usock'
        BY <2>2, <3>1
    <3>3. usock' = usock \/ usock' = Remove(usock, <<x.interface, udp[x].socket>>)
        BY <2>7 DEF remove_udp, sockets_after_removal
    <3>4. usock'[c] = usock[c]
        BY <3>2, <3>3 DEF Remove, Restrict
    <3> QED BY Zenon, <2>4, <3>2, <3>4
  <2>8. ASSUME NEW s, try_send(s) PROVE Kept(k)
    <3>1. PICK q : usock' = [usock EXCEPT ![q].tx = @ + 1]
        BY ZenonT(60), <2>8 DEF try_send
    <3> QED BY Zenon, <2>1, <2>3, <3>1, TxKept
  <2>9. ASSUME NEW i \in Interface, PrePass(i) PROVE Kept(k)
      BY Zenon, <2>4a, <2>5, <2>9 DEF PrePass, alloc_tcp, coreVars
  <2>10. CASE RunnerStep
      BY ZenonT(60), <2>4a, <2>6, <2>7, <2>9, <2>10
      DEF RunnerStep, BeginPoll, EndPrePass, PollIngress, PollEgress, Enter, AcceptTcp, accept_tcp,
          ReapTcp, reap_tcp, EndReap, RouteUdp, EndRoute, SweepUdp, sweep_udp, EndPoll, coreVars
  <2>11. CASE Next /\ ~ RunnerStep
      BY ZenonT(60), <2>4a, <2>7, <2>8, <2>11
      DEF Next, queue_ingress, ShutdownStream, poll_shutdown, DropStream, drop_stream, DropSession,
          drop_session, Send, Recv, recv, Tick, tick, coreVars
  <2>12. CASE UNCHANGED vars
      BY Zenon, <2>4a, <2>12 DEF vars, coreVars
  <2> QED BY <2>10, <2>11, <2>12
<1>2. IInv /\ IInv' /\ [Next]_vars => [\A k \in DOMAIN udp \cap DOMAIN udp' : Kept(k)]_vars
    BY <1>1
<1> QED BY <1>2, Invariance, StepInv, PTL DEF Spec, RepliesKept

(* The tables agree with the socket sets, as the proofs about a cycle need *)
(* it.                                                                     *)
LEMMA SocketsAgree == IInv => SocketFacts /\ udp \in [DOMAIN udp -> UdpEntry]
BY Zenon DEF IInv, UdpInv, UdpTables, SocketFacts, DstPlace

(* When a cycle ends, nothing that it should have processed or reclaimed   *)
(* is left: post_pass reaps all there is to reap, although the table and   *)
(* the sockets change between its parts.                                   *)
THEOREM CycleLeavesNothing == Spec => CycleReclaims
<1> DEFINE Left == phase # "unlocked" /\ phase' = "unlocked" =>
             /\ Drained(ingress')
             /\ \A c \in DOMAIN usock' : usock'[c].rx = <<>> /\ usock'[c].tx = 0
             /\ \A k \in DOMAIN tcp' :
                   ~ (tcp'[k].orphaned /\ tsock'[<<k.interface, tcp'[k].handle>>].state = "Closed")
             /\ \A k \in DOMAIN udp' : udp'[k].idle <= udp_session_timeout
<1>1. Init => CycleInv
    BY DEF Init, CycleInv, PostPass
<1>2. IInv /\ CycleInv /\ [Next]_vars => CycleInv'
    BY Zenon, SocketsAgree, CycleStep
<1>3. IInv /\ CycleInv /\ [Next]_vars => Left
    BY Zenon, SocketsAgree, ReclaimsStep
<1>4. IInv /\ CycleInv /\ [Next]_vars => [Left]_vars
    BY <1>3
<1> QED BY <1>1, <1>2, <1>4, Invariance, PTL DEF Spec, CycleReclaims

(* The loops of a cycle come to an end: a step of the runner within a      *)
(* cycle begins the next part or leaves less for its own, and the only     *)
(* call that needs no mutex, recv, adds nothing to it.                     *)
THEOREM CycleComesToAnEnd == Spec => CycleAdvances
<1> DEFINE Step == phase # "unlocked" =>
             \/ <<phase, phase'>> \in {<<"pre", "poll">>, <<"poll", "accept">>, <<"accept", "reap">>,
                                      <<"reap", "route">>, <<"route", "sweep">>, <<"sweep", "unlocked">>}
             \/ /\ phase' = phase
                /\ \/ phase = "pre" /\ Shorter(pre', pre)
                   \/ phase = "poll" /\ Shorter(ingress', ingress)
                   \/ phase = "reap" /\ DOMAIN tcp' \subseteq DOMAIN tcp /\ DOMAIN tcp' # DOMAIN tcp
                   \/ phase = "route" /\ Shorter(rxOf(usock'), rxOf(usock))
                   \/ phase = "sweep" /\ DOMAIN udp' \subseteq DOMAIN udp /\ DOMAIN udp' # DOMAIN udp
                   \/ ~ RunnerStep /\ UNCHANGED <<pre, ingress, tcp, usock, udp>>
<1>1. IInv /\ RunnerStep => Step
  <2>1. IInv => /\ SocketFacts
                /\ ingress \in [Interface -> Seq(Packet)] /\ pre \in [Interface -> Seq(Packet)]
    BY Zenon, SocketsAgree DEF IInv, RunnerTypes
  <2> QED BY Zenon, <2>1, RunnerAdvances
<1>2. Next /\ ~ RunnerStep => Step
    BY Zenon, OthersWait
<1>3. IInv /\ [Next]_vars => [Step]_vars
    BY Zenon, <1>1, <1>2
<1> QED BY <1>3, Invariance, PTL DEF Spec, CycleAdvances
=============================================================================
