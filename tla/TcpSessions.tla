---------------------------- MODULE TcpSessions ----------------------------
(***************************************************************************)
(* The TCP half of the session manager: the listening socket allocated for *)
(* a new SYN, the entry that follows it, the WayTcpStream handed to the    *)
(* application, its shutdown and drop, and the reaping of orphans.         *)
(*                                                                         *)
(* A definition X_how placed just before X is a faulty form of X, against  *)
(* which the strength of a property is tested; nothing uses it.            *)
(***************************************************************************)
EXTENDS Core, TcpStateMachine

ASSUME NoPeerAssumption == NoPeer \notin Src

VARIABLES
    tcp,      \* SessionManager::tcp, by session key
    streams   \* the WayTcpStream objects that exist

tcpVars == <<tcp, streams>>

TcpSocket == [dst : Dst, peer : Src \cup {NoPeer}, state : SocketState,
              sent : {"nothing", "syn", "fin"}]

TcpEntry == [handle : Handle, state : {"Pending", "Established", "Closed"},
             orphaned : BOOLEAN]

WayTcpStream == [key : SessionKey, handle : Handle]

TcpTypeOK ==
    /\ tsock \in [DOMAIN tsock -> TcpSocket]
    /\ DOMAIN tcp \subseteq SessionKey
    /\ tcp \in [DOMAIN tcp -> TcpEntry]
    /\ streams \subseteq WayTcpStream

TcpInit == tcp = <<>> /\ streams = {}

PlaceOf(k) == <<k.interface, tcp[k].handle>>

(* The socket alloc_tcp makes. *)
Listening(d) == [dst |-> d, peer |-> NoPeer, state |-> "Listen", sent |-> "nothing"]

(***************************************************************************)
(* pre_pass for a SYN.  An existing entry or a full table leave everything *)
(* as it is; so does a budget that does not allow two more buffers.  The   *)
(* socket comes from the pool when it holds one.                           *)
(***************************************************************************)
WantsTcpEntry(k) ==
    /\ k \notin DOMAIN tcp
    /\ Cardinality(DOMAIN tcp) < tcp_max_connections
    /\ can_reserve(tcp_socket_bytes)

alloc_tcp(k) ==
    /\ \E h \in Handle :
          /\ FirstFree(k.interface, h)
          /\ tsock' = Insert(tsock, <<k.interface, h>>, Listening(k.dst))
          /\ tcp' = Insert(tcp, k, [handle |-> h, state |-> "Pending", orphaned |-> FALSE])
    /\ buffer_bytes' = buffer_bytes + tcp_socket_bytes
    /\ tcp_pool' = [tcp_pool EXCEPT ![k.interface] = IF @ > 0 THEN @ - 1 ELSE 0]
    /\ UNCHANGED <<usock, streams>>

(***************************************************************************)
(* iface.poll: a segment goes to the first socket, in handle order, that   *)
(* accepts it.  A segment no socket accepts is answered with a reset.      *)
(***************************************************************************)
Accepting(i, p) == {h \in Handle : <<i, h>> \in DOMAIN tsock /\ accepts(tsock[<<i, h>>], p)}

deliver_tcp(i, p) ==
    /\ IF Accepting(i, p) = {}
       THEN tsock' = tsock
       ELSE \E h \in Accepting(i, p) :
               /\ \A g \in Accepting(i, p) : h <= g
               /\ tsock' = [tsock EXCEPT ![<<i, h>>] = process(@, p)]
    /\ UNCHANGED <<buffer_bytes, usock, tcp_pool, tcp, streams>>

(***************************************************************************)
(* post_pass, first loop: an entry whose socket is Established is exposed  *)
(* as a new stream, one whose socket is gone is marked Closed.             *)
(***************************************************************************)
transition_of_any(entry, socket) ==
    CASE entry.state = "Pending" /\ socket.state = "Established" -> "Established"
      [] socket.state \in {"Closed", "TimeWait", "Listen"} -> "Closed"
      [] OTHER -> entry.state

transition(entry, socket) ==
    CASE entry.state = "Pending" /\ socket.state = "Established" -> "Established"
      [] entry.state = "Established" /\ socket.state \in {"Closed", "TimeWait", "Listen"} -> "Closed"
      [] OTHER -> entry.state

NewStreams ==
    {[key |-> k, handle |-> tcp[k].handle] :
        k \in {j \in DOMAIN tcp : /\ tcp[j].state = "Pending"
                                  /\ transition(tcp[j], tsock[PlaceOf(j)]) = "Established"}}

accept_tcp ==
    /\ tcp' = [k \in DOMAIN tcp |->
                  [tcp[k] EXCEPT !.state = transition(tcp[k], tsock[PlaceOf(k)])]]
    /\ streams' = streams \cup NewStreams
    /\ UNCHANGED coreVars

(***************************************************************************)
(* post_pass, second loop: an orphan whose socket is Closed loses entry    *)
(* and socket; the socket goes to the pool while that has room.            *)
(***************************************************************************)
Reapable_stream_alive(k) == tsock[PlaceOf(k)].state = "Closed"

Reapable_in_time_wait(k) == tcp[k].orphaned /\ tsock[PlaceOf(k)].state = "TimeWait"

Reapable(k) == tcp[k].orphaned /\ tsock[PlaceOf(k)].state = "Closed"

pool_after_reap(n) == IF n < tcp_pool_size THEN n + 1 ELSE n

sockets_after_reap_kept(k) == tsock

sockets_after_reap(k) == Remove(tsock, PlaceOf(k))

reap_tcp(k) ==
    /\ tcp' = Remove(tcp, k) /\ tsock' = sockets_after_reap(k)
    /\ tcp_pool' = [tcp_pool EXCEPT ![k.interface] = pool_after_reap(@)]
    /\ UNCHANGED <<buffer_bytes, usock, streams>>

(***************************************************************************)
(* WayTcpStream::poll_shutdown and Drop.                                   *)
(***************************************************************************)
poll_shutdown(st) ==
    /\ tsock' = [tsock EXCEPT ![<<st.key.interface, st.handle>>] = CloseIfOpen(@)]
    /\ UNCHANGED <<buffer_bytes, usock, tcp_pool, tcp, streams>>

orphan_not_marked(k) == tcp

orphan(k) == [tcp EXCEPT ![k].orphaned = TRUE]

drop_stream(st) ==
    /\ streams' = streams \ {st}
    /\ IF st.key \in DOMAIN tcp
       THEN /\ tsock' = [tsock EXCEPT ![<<st.key.interface, st.handle>>] = CloseIfOpen(@)]
            /\ tcp' = orphan(st.key)
       ELSE UNCHANGED <<tsock, tcp>>
    /\ UNCHANGED <<buffer_bytes, usock, tcp_pool>>
=============================================================================
