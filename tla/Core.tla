-------------------------------- MODULE Core --------------------------------
(***************************************************************************)
(* The state behind `Shared::core`, one mutex for the whole stack: the     *)
(* smoltcp sockets of every interface slot, the pools of idle TCP sockets  *)
(* and the buffer budget.  TcpSessions and UdpSessions add the session     *)
(* tables, Runner the poll cycle that drives them.                         *)
(*                                                                         *)
(* A slot's SocketSet is split by socket type: `tsock` holds its TCP       *)
(* sockets and `usock` its UDP sockets, both indexed by <<interface,       *)
(* handle>> and sharing one space of handles.  `SocketSet::get_mut::<T>`   *)
(* panics, and poisons the mutex for good, on a handle that is not in the  *)
(* part for T.                                                             *)
(*                                                                         *)
(* A definition X_how placed just before X is a faulty form of X, against  *)
(* which the strength of a property is tested; nothing uses it.            *)
(***************************************************************************)
EXTENDS Integers, Sequences, FiniteSets, Functions

CONSTANTS
    Interface,            \* ids of the interface slots, in slot order
    Src,                  \* endpoints of the local applications
    Dst,                  \* endpoints the applications want to reach
    Handle,               \* indices of a slot's SocketSet
    NoLimit,              \* max_buffer_bytes when it is None
    max_buffer_bytes,
    tcp_max_connections,
    tcp_pool_size,
    tcp_buffer_size,
    udp_max_sessions,
    udp_buffer_packets,
    udp_buffer_bytes,
    udp_session_timeout,  \* in units of the model's clock
    mtu

ASSUME CoreAssumption ==
    /\ Interface \subseteq Nat /\ Handle \subseteq Nat
    /\ NoLimit \notin Nat /\ max_buffer_bytes \in Nat \cup {NoLimit}
    /\ tcp_max_connections \in Nat /\ tcp_pool_size \in Nat
    /\ tcp_buffer_size \in Nat /\ udp_max_sessions \in Nat
    /\ udp_buffer_packets \in Nat /\ udp_buffer_bytes \in Nat
    /\ udp_session_timeout \in Nat /\ mtu \in Nat

VARIABLES
    buffer_bytes,  \* bytes charged against max_buffer_bytes
    tsock,         \* TCP sockets of the slots
    usock,         \* UDP sockets of the slots
    tcp_pool       \* number of idle TCP sockets kept by each slot

coreVars == <<buffer_bytes, tsock, usock, tcp_pool>>

(***************************************************************************)
(* A session's 5-tuple.  The protocol is the table the key is used in.     *)
(***************************************************************************)
SessionKey == [interface : Interface, src : Src, dst : Dst]

(* A socket's place: its slot and its handle. *)
Place == Interface \X Handle

(* HashMap::insert and HashMap::remove *)
Insert(map, k, v) == [x \in DOMAIN map \cup {k} |-> IF x = k THEN v ELSE map[x]]

Remove(map, k) == Restrict(map, DOMAIN map \ {k})

(***************************************************************************)
(* SocketSet::add takes the first free index.                              *)
(***************************************************************************)
UsedPlaces == DOMAIN tsock \cup DOMAIN usock

FirstFree(i, h) ==
    /\ <<i, h>> \notin UsedPlaces
    /\ \A g \in Handle : g < h => <<i, g>> \in UsedPlaces

(***************************************************************************)
(* The buffer budget.  A TCP socket is charged for its two rings, a shared *)
(* UDP socket for one ring of payload and 64 bytes per packet slot.        *)
(***************************************************************************)
AtLeast(n, m) == IF n < m THEN m ELSE n

tcp_socket_bytes == 2 * tcp_buffer_size

udp_packets == AtLeast(udp_buffer_packets, 1)

udp_per_socket_bytes == udp_packets * 64 + AtLeast(udp_buffer_bytes, mtu)

can_reserve_uncounted(bytes) ==
    max_buffer_bytes # NoLimit => buffer_bytes <= max_buffer_bytes

(* The condition under which reserve_buffer charges and returns true. *)
can_reserve(bytes) ==
    max_buffer_bytes # NoLimit => buffer_bytes + bytes <= max_buffer_bytes

(* release_buffer, a saturating subtraction *)
after_release(bytes) == IF buffer_bytes < bytes THEN 0 ELSE buffer_bytes - bytes

CoreTypeOK ==
    /\ buffer_bytes \in Nat /\ DOMAIN tsock \subseteq Place
    /\ DOMAIN usock \subseteq Place
    /\ tcp_pool \in [Interface -> 0 .. tcp_pool_size]

CoreInit ==
    /\ buffer_bytes = 0 /\ tsock = <<>> /\ usock = <<>>
    /\ tcp_pool = [i \in Interface |-> 0]
=============================================================================
