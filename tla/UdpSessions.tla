---------------------------- MODULE UdpSessions ----------------------------
(***************************************************************************)
(* The UDP half of the session manager: pseudo-sessions keyed by 5-tuple,  *)
(* the smoltcp socket that all sessions to one destination share, its      *)
(* reference count, the redistribution of received datagrams, the idle     *)
(* sweep, and send and drop of a WayUdpSession.                            *)
(*                                                                         *)
(* A session object is named by its queue (each has an Arc<UdpQueue> of    *)
(* its own).  It can outlive its entry: a reaped session stays with the    *)
(* application, closed, until it is dropped.  `last_activity` is kept as   *)
(* the age `idle` of the entry, capped just beyond the timeout.            *)
(*                                                                         *)
(* A definition X_how placed just before X is a faulty form of X, against  *)
(* which the strength of a property is tested; nothing uses it.            *)
(***************************************************************************)
EXTENDS Core

CONSTANT Sid   \* names of session objects; a bound on how many exist at once

ASSUME SidAssumption == Sid \subseteq Nat

VARIABLES
    udp,              \* SessionManager::udp, by session key
    udp_dst_sockets,  \* shared socket and reference count, by <<interface, dst>>
    sessions          \* the WayUdpSession objects that exist, by name

udpVars == <<udp, udp_dst_sockets, sessions>>

(* rx: origins of the datagrams received and not yet redistributed;        *)
(* tx: number of datagrams accepted by send and not yet emitted.           *)
UdpSocket == [dst : Dst, rx : Seq(Src), tx : 0 .. udp_packets]

UdpEntry == [socket : Handle, queue : Sid, idle : 0 .. udp_session_timeout + 1]

(* inbox: the flows whose datagrams wait in the session's queue.           *)
WayUdpSession == [key : SessionKey, socket : Handle, closed : BOOLEAN,
                  inbox : SUBSET SessionKey]

DstId(k) == <<k.interface, k.dst>>

UdpTypeOK ==
    /\ usock \in [DOMAIN usock -> UdpSocket]
    /\ \A c \in DOMAIN usock : Len(usock[c].rx) <= udp_packets
    /\ DOMAIN udp \subseteq SessionKey
    /\ udp \in [DOMAIN udp -> UdpEntry]
    /\ DOMAIN udp_dst_sockets \subseteq Interface \X Dst
    /\ udp_dst_sockets \in [DOMAIN udp_dst_sockets -> [handle : Handle, count : Nat]]
    /\ DOMAIN sessions \subseteq Sid
    /\ sessions \in [DOMAIN sessions -> WayUdpSession]

UdpInit == udp = <<>> /\ udp_dst_sockets = <<>> /\ sessions = <<>>

(* The sessions that use the shared socket of a destination. *)
Users(id) == {k \in DOMAIN udp : DstId(k) = id}

FreshSid(s) == s \notin DOMAIN sessions /\ \A r \in Sid : r < s => r \in DOMAIN sessions

(***************************************************************************)
(* pre_pass for a datagram.  Only a destination without a socket costs     *)
(* budget: later sessions to it share the socket and retain it.            *)
(***************************************************************************)
Fresh(k) == DstId(k) \notin DOMAIN udp_dst_sockets

WantsUdpEntry_one_more(k) ==
    /\ k \notin DOMAIN udp
    /\ Cardinality(DOMAIN udp) <= udp_max_sessions
    /\ Fresh(k) => can_reserve(udp_per_socket_bytes)

WantsUdpEntry(k) ==
    /\ k \notin DOMAIN udp
    /\ Cardinality(DOMAIN udp) < udp_max_sessions
    /\ Fresh(k) => can_reserve(udp_per_socket_bytes)

udp_socket_for(k, h) ==
    IF Fresh(k)
    THEN /\ FirstFree(k.interface, h)
         /\ usock' = Insert(usock, <<k.interface, h>>, [dst |-> k.dst, rx |-> <<>>, tx |-> 0])
         /\ buffer_bytes' = buffer_bytes + udp_per_socket_bytes
    ELSE /\ h = udp_dst_sockets[DstId(k)].handle
         /\ UNCHANGED <<usock, buffer_bytes>>

retained_first_user_only(k, h) ==
    Insert(udp_dst_sockets, DstId(k), [handle |-> h, count |-> 1])

(* udp_socket_retain, on the entry udp_socket_for left *)
retained(k, h) ==
    Insert(udp_dst_sockets, DstId(k),
           [handle |-> h, count |-> IF Fresh(k) THEN 1 ELSE udp_dst_sockets[DstId(k)].count + 1])

alloc_udp(k) ==
    /\ \E h \in Handle, s \in Sid :
          /\ FreshSid(s) /\ udp_socket_for(k, h)
          /\ udp_dst_sockets' = retained(k, h)
          /\ udp' = Insert(udp, k, [socket |-> h, queue |-> s, idle |-> 0])
          /\ sessions' = Insert(sessions, s,
                                [key |-> k, socket |-> h, closed |-> FALSE, inbox |-> {}])
    /\ UNCHANGED <<tsock, tcp_pool>>

(***************************************************************************)
(* iface.poll: smoltcp demultiplexes a datagram by its destination alone,  *)
(* and discards it when the receive buffer is full or nobody is bound.     *)
(***************************************************************************)
Bound(i, d) == {c \in DOMAIN usock : c[1] = i /\ usock[c].dst = d}

HasRoom_for_one_more(c) == Len(usock[c].rx) <= udp_packets

HasRoom(c) == Len(usock[c].rx) < udp_packets

deliver_udp(i, p) ==
    /\ usock' = [c \in DOMAIN usock |->
                    IF c \in Bound(i, p.dst) /\ HasRoom(c)
                    THEN [usock[c] EXCEPT !.rx = Append(@, p.src)] ELSE usock[c]]
    /\ UNCHANGED <<buffer_bytes, tsock, tcp_pool, udp, udp_dst_sockets, sessions>>

(***************************************************************************)
(* post_pass, redistribution: the oldest datagram of a shared socket goes  *)
(* to the queue of the session with its 5-tuple, whose age restarts; with  *)
(* no such session it is dropped.                                          *)
(***************************************************************************)
route_by_dst(id, src) == CHOOSE k \in Users(id) : TRUE

route(id, src) == [interface |-> id[1], src |-> src, dst |-> id[2]]

queue_of_any_session(k) == CHOOSE s \in DOMAIN sessions : sessions[s].key = k

queue_of(k) == udp[k].queue

unread_peeked(rx) == rx

unread(rx) == Tail(rx)

route_udp(id) ==
    LET place == <<id[1], udp_dst_sockets[id].handle>>
        from  == [interface |-> id[1], src |-> Head(usock[place].rx), dst |-> id[2]]
        k     == route(id, Head(usock[place].rx))
    IN  /\ usock[place].rx # <<>>
        /\ usock' = [usock EXCEPT ![place].rx = unread(@)]
        /\ IF k \in DOMAIN udp
           THEN /\ sessions' = [sessions EXCEPT ![queue_of(k)].inbox = @ \cup {from}]
                /\ udp' = [udp EXCEPT ![k].idle = 0]
           ELSE UNCHANGED <<sessions, udp>>
        /\ UNCHANGED <<buffer_bytes, tsock, tcp_pool, udp_dst_sockets>>

(***************************************************************************)
(* Removal of an entry, by the idle sweep and by Drop: its queue is        *)
(* closed, its reference released, and with the last reference the socket  *)
(* goes, along with whatever it still held.                                *)
(***************************************************************************)
LastUser_at_zero(k) == udp_dst_sockets[DstId(k)].count = 0

LastUser(k) == udp_dst_sockets[DstId(k)].count <= 1

udp_socket_release(k) ==
    IF LastUser(k) THEN Remove(udp_dst_sockets, DstId(k))
    ELSE [udp_dst_sockets EXCEPT ![DstId(k)].count = @ - 1]

sockets_after_removal_always(k) == Remove(usock, <<k.interface, udp[k].socket>>)

sockets_after_removal(k) ==
    IF LastUser(k) THEN Remove(usock, <<k.interface, udp[k].socket>>) ELSE usock

remove_udp(k) ==
    /\ udp' = Remove(udp, k)
    /\ udp_dst_sockets' = udp_socket_release(k)
    /\ usock' = sockets_after_removal(k)

closed_queue_forgotten(k) == sessions

(* mark_closed *)
closed_queue(k) == [sessions EXCEPT ![udp[k].queue].closed = TRUE]

Expired_once_read(k) ==
    udp[k].idle > udp_session_timeout /\ sessions[udp[k].queue].inbox = {}

Expired(k) == udp[k].idle > udp_session_timeout

sweep_udp(k) ==
    /\ remove_udp(k)
    /\ sessions' = closed_queue(k)
    /\ UNCHANGED <<buffer_bytes, tsock, tcp_pool>>

(***************************************************************************)
(* Drop for WayUdpSession looks its entry up by key.                       *)
(***************************************************************************)
budget_after_drop_always(k) == after_release(udp_per_socket_bytes)

budget_after_drop(k) ==
    IF LastUser(k) THEN after_release(udp_per_socket_bytes) ELSE buffer_bytes

drop_session(s) ==
    LET k == sessions[s].key
    IN  /\ IF k \in DOMAIN udp
           THEN /\ remove_udp(k)
                /\ sessions' = Remove(closed_queue(k), s)
                /\ buffer_bytes' = budget_after_drop(k)
           ELSE /\ sessions' = Remove(sessions, s)
                /\ UNCHANGED <<udp, udp_dst_sockets, usock, buffer_bytes>>
        /\ UNCHANGED <<tsock, tcp_pool>>

(***************************************************************************)
(* try_send of an open session: the datagram joins the shared socket's     *)
(* transmit buffer.  A full buffer or a closed session changes nothing.    *)
(***************************************************************************)
try_send(s) ==
    LET place == <<sessions[s].key.interface, sessions[s].socket>>
    IN  /\ ~ sessions[s].closed
        /\ usock[place].tx < udp_packets
        /\ usock' = [usock EXCEPT ![place].tx = @ + 1]
        /\ UNCHANGED <<buffer_bytes, tsock, tcp_pool, udp, udp_dst_sockets, sessions>>

(* recv: a datagram leaves the session's queue, without the core lock. *)
recv(s) ==
    /\ \E k \in sessions[s].inbox :
          sessions' = [sessions EXCEPT ![s].inbox = @ \ {k}]
    /\ UNCHANGED <<buffer_bytes, usock, tsock, tcp_pool, udp, udp_dst_sockets>>

(* The passing of time. *)
tick ==
    /\ udp' = [k \in DOMAIN udp |->
                  [udp[k] EXCEPT !.idle = IF @ <= udp_session_timeout THEN @ + 1 ELSE @]]
    /\ UNCHANGED <<buffer_bytes, usock, tsock, tcp_pool, udp_dst_sockets, sessions>>
=============================================================================
