------------------------------- MODULE Runner -------------------------------
(***************************************************************************)
(* The poll cycle of NetstackRunner over the session tables, composed with *)
(* the application's calls on its sessions and with the packets that       *)
(* arrive.  One cycle is                                                   *)
(*                                                                         *)
(*   pre      pre_pass: look at every queued packet, allocate sessions     *)
(*   poll     iface.poll: deliver the packets, then emit what is pending   *)
(*   accept   post_pass: TCP transitions, new streams                      *)
(*   reap     post_pass: reap closed orphans                               *)
(*   route    post_pass: redistribute UDP datagrams                        *)
(*   sweep    post_pass: reap idle UDP sessions, release the budget        *)
(*                                                                         *)
(* and runs under the core mutex from its first step to its last.  Calls   *)
(* that take the mutex happen in phase "unlocked" only.  Sessions of a     *)
(* cycle exist from the step that creates them; whoever holds them (the    *)
(* scratch vector, the accept channel, the application) may drop them at   *)
(* any time the mutex is free.                                             *)
(***************************************************************************)
EXTENDS TcpSessions, UdpSessions

CONSTANTS
    Packet,    \* the packets that may arrive, as parse_l4 and smoltcp see them
    MaxBatch   \* bound on the packets queued on an interface between two polls

(* flag is "data" for UDP.  ok: the checksums are right; pre_pass does not *)
(* verify them, smoltcp does.                                              *)
ASSUME PacketAssumption ==
    /\ Packet \subseteq [proto : {"tcp", "udp"}, src : Src, dst : Dst, ok : BOOLEAN,
                         flag : {"syn", "ack", "fin", "ack_fin", "rst", "data"}]
    /\ MaxBatch \in Nat

VARIABLES
    phase,     \* where the runner is in its cycle
    ingress,   \* VirtualDevice::ingress of every slot
    pre,       \* the packets pre_pass has yet to look at
    released   \* released_total of the running post_pass

runnerVars == <<phase, ingress, pre, released>>

vars == <<coreVars, tcpVars, udpVars, runnerVars>>

TypeOK ==
    /\ CoreTypeOK /\ TcpTypeOK /\ UdpTypeOK
    /\ phase \in {"unlocked", "pre", "poll", "accept", "reap", "route", "sweep"}
    /\ ingress \in [Interface -> Seq(Packet)]
    /\ pre \in [Interface -> Seq(Packet)] /\ released \in Nat

Init ==
    /\ CoreInit /\ TcpInit /\ UdpInit /\ phase = "unlocked"
    /\ ingress = [i \in Interface |-> <<>>]
    /\ pre = [i \in Interface |-> <<>>] /\ released = 0

Drained(queues) == \A i \in Interface : queues[i] = <<>>

(***************************************************************************)
(* Packets reach a slot's device through queue_ingress.  The guard on Sid  *)
(* bounds the model, not the code: each queued packet may need a session.  *)
(***************************************************************************)
Queued == {q \in Interface \X (1 .. MaxBatch) : q[2] <= Len(ingress[q[1]])}

queue_ingress(i, p) ==
    /\ phase = "unlocked" /\ Len(ingress[i]) < MaxBatch
    /\ Cardinality(DOMAIN sessions) + Cardinality(Queued) < Cardinality(Sid)
    /\ ingress' = [ingress EXCEPT ![i] = Append(@, p)]
    /\ UNCHANGED <<coreVars, tcpVars, udpVars, phase, pre, released>>

(***************************************************************************)
(* The runner.                                                             *)
(***************************************************************************)
Enter(from, to) == phase = from /\ phase' = to

BeginPoll ==
    /\ Enter("unlocked", "pre")
    /\ pre' = ingress
    /\ UNCHANGED <<coreVars, tcpVars, udpVars, ingress, released>>

KeyOf(i, p) == [interface |-> i, src |-> p.src, dst |-> p.dst]

IsSyn(p) == p.proto = "tcp" /\ p.flag = "syn"

(* One packet of pre_pass; slots are visited in order. *)
PrePass(i) ==
    /\ phase = "pre" /\ pre[i] # <<>>
    /\ \A j \in Interface : j < i => pre[j] = <<>>
    /\ pre' = [pre EXCEPT ![i] = Tail(@)]
    /\ LET p == Head(pre[i])
           k == KeyOf(i, p)
       IN  \/ /\ IsSyn(p) /\ WantsTcpEntry(k)
              /\ alloc_tcp(k)
              /\ UNCHANGED udpVars
           \/ /\ p.proto = "udp" /\ WantsUdpEntry(k)
              /\ alloc_udp(k)
              /\ UNCHANGED tcpVars
           \/ /\ ~ (IsSyn(p) /\ WantsTcpEntry(k))
              /\ ~ (p.proto = "udp" /\ WantsUdpEntry(k))
              /\ UNCHANGED <<coreVars, tcpVars, udpVars>>
    /\ UNCHANGED <<phase, ingress, released>>

EndPrePass ==
    /\ Enter("pre", "poll") /\ Drained(pre)
    /\ UNCHANGED <<coreVars, tcpVars, udpVars, ingress, pre, released>>

(* The ingress half of iface.poll, one packet. *)
PollIngress(i) ==
    /\ phase = "poll" /\ ingress[i] # <<>>
    /\ ingress' = [ingress EXCEPT ![i] = Tail(@)]
    /\ LET p == Head(ingress[i])
       IN  \/ /\ p.ok /\ p.proto = "tcp"
              /\ deliver_tcp(i, p)
              /\ UNCHANGED udpVars
           \/ /\ p.ok /\ p.proto = "udp"
              /\ deliver_udp(i, p)
              /\ UNCHANGED tcpVars
           \/ /\ ~ p.ok
              /\ UNCHANGED <<coreVars, tcpVars, udpVars>>
    /\ UNCHANGED <<phase, pre, released>>

(* The egress half: every socket emits all it has pending. *)
PollEgress ==
    /\ Enter("poll", "accept") /\ Drained(ingress)
    /\ \E expired \in SUBSET {c \in DOMAIN tsock : tsock[c].state = "TimeWait"} :
          tsock' = [c \in DOMAIN tsock |-> dispatched(tsock[c], c \in expired)]
    /\ usock' = [c \in DOMAIN usock |-> [usock[c] EXCEPT !.tx = 0]]
    /\ UNCHANGED <<buffer_bytes, tcp_pool, tcpVars, udpVars, ingress, pre, released>>

AcceptTcp ==
    /\ Enter("accept", "reap") /\ accept_tcp
    /\ UNCHANGED <<udpVars, ingress, pre, released>>

ReapTcp(k) ==
    /\ phase = "reap" /\ k \in DOMAIN tcp /\ Reapable(k)
    /\ reap_tcp(k)
    /\ released' = released + tcp_socket_bytes
    /\ UNCHANGED <<udpVars, phase, ingress, pre>>

EndReap ==
    /\ Enter("reap", "route")
    /\ \A k \in DOMAIN tcp : ~ Reapable(k)
    /\ UNCHANGED <<coreVars, tcpVars, udpVars, ingress, pre, released>>

RouteUdp(id) ==
    /\ phase = "route" /\ id \in DOMAIN udp_dst_sockets
    /\ route_udp(id)
    /\ UNCHANGED <<tcpVars, runnerVars>>

EndRoute ==
    /\ Enter("route", "sweep")
    /\ \A id \in DOMAIN udp_dst_sockets : usock[<<id[1], udp_dst_sockets[id].handle>>].rx = <<>>
    /\ UNCHANGED <<coreVars, tcpVars, udpVars, ingress, pre, released>>

SweepUdp(k) ==
    /\ phase = "sweep" /\ k \in DOMAIN udp /\ Expired(k)
    /\ sweep_udp(k)
    /\ released' = IF LastUser(k) THEN released + udp_per_socket_bytes ELSE released
    /\ UNCHANGED <<tcpVars, phase, ingress, pre>>

EndPoll ==
    /\ Enter("sweep", "unlocked")
    /\ \A k \in DOMAIN udp : ~ Expired(k)
    /\ buffer_bytes' = after_release(released) /\ released' = 0
    /\ UNCHANGED <<tsock, usock, tcp_pool, tcpVars, udpVars, ingress, pre>>

RunnerStep ==
    \/ BeginPoll \/ EndPrePass \/ PollEgress \/ AcceptTcp \/ EndReap \/ EndRoute \/ EndPoll
    \/ \E i \in Interface : PrePass(i) \/ PollIngress(i)
    \/ \E k \in DOMAIN tcp : ReapTcp(k)
    \/ \E id \in DOMAIN udp_dst_sockets : RouteUdp(id)
    \/ \E k \in DOMAIN udp : SweepUdp(k)

(***************************************************************************)
(* The application, and whoever else holds a session.                      *)
(***************************************************************************)
ShutdownStream(st) ==
    /\ phase = "unlocked" /\ poll_shutdown(st)
    /\ UNCHANGED <<udpVars, runnerVars>>

DropStream(st) ==
    /\ phase = "unlocked" /\ drop_stream(st)
    /\ UNCHANGED <<udpVars, runnerVars>>

DropSession(s) ==
    /\ phase = "unlocked" /\ drop_session(s)
    /\ UNCHANGED <<tcpVars, runnerVars>>

Send(s) == phase = "unlocked" /\ try_send(s) /\ UNCHANGED <<tcpVars, runnerVars>>

Recv(s) == recv(s) /\ UNCHANGED <<tcpVars, runnerVars>>

Tick == phase = "unlocked" /\ tick /\ UNCHANGED <<tcpVars, runnerVars>>

Next ==
    \/ RunnerStep
    \/ \E i \in Interface, p \in Packet : queue_ingress(i, p)
    \/ \E st \in streams : ShutdownStream(st) \/ DropStream(st)
    \/ \E s \in DOMAIN sessions : DropSession(s) \/ Send(s) \/ Recv(s)
    \/ Tick

(***************************************************************************)
(* The runner keeps polling: its select wakes at the latest when its       *)
(* one-hour sleep ends.  Between two cycles it may wait for room in the    *)
(* egress channel, so fairness assumes that egress is being read.  Time    *)
(* passes between the cycles (strong fairness: a cycle disables Tick).     *)
(***************************************************************************)
Spec == Init /\ [][Next]_vars

FairSpec == Spec /\ WF_vars(RunnerStep) /\ SF_vars(Tick)

(***************************************************************************)
(* Properties.                                                             *)
(***************************************************************************)

(* No step can panic in SocketSet::get_mut or SocketSet::remove: every     *)
(* handle kept by a table entry, a stream or an open UDP session is in the *)
(* socket set of its slot, with the right socket type (runner.rs post_pass,*)
(* poll_read, poll_write, try_send, both Drops).  A panic would poison the *)
(* core mutex.                                                             *)
NoDanglingHandle ==
    /\ \A k \in DOMAIN tcp : PlaceOf(k) \in DOMAIN tsock
    /\ \A st \in streams : <<st.key.interface, st.handle>> \in DOMAIN tsock
    /\ \A id \in DOMAIN udp_dst_sockets : <<id[1], udp_dst_sockets[id].handle>> \in DOMAIN usock
    /\ \A k \in DOMAIN udp : <<k.interface, udp[k].socket>> \in DOMAIN usock
    /\ \A s \in DOMAIN sessions :
          ~ sessions[s].closed => <<sessions[s].key.interface, sessions[s].socket>> \in DOMAIN usock

(* No socket is leaked or shared by accident: every TCP socket belongs to  *)
(* exactly one entry of the TCP table, every UDP socket to exactly one     *)
(* destination, and it is bound to the endpoint its owner names.           *)
SocketsOwned ==
    /\ \A c \in DOMAIN tsock : \E k \in DOMAIN tcp :
          /\ PlaceOf(k) = c /\ tsock[c].dst = k.dst
          /\ \A j \in DOMAIN tcp : PlaceOf(j) = c => j = k
    /\ \A c \in DOMAIN usock : \E id \in DOMAIN udp_dst_sockets :
          /\ <<id[1], udp_dst_sockets[id].handle>> = c /\ usock[c].dst = id[2]
          /\ \A jd \in DOMAIN udp_dst_sockets :
                <<jd[1], udp_dst_sockets[jd].handle>> = c => jd = id
    /\ DOMAIN tsock \cap DOMAIN usock = {}

(* The reference count of a shared UDP socket is the number of sessions to *)
(* its destination, never zero, and they all use that socket, whatever     *)
(* order allocation, sweep and (stale) drops came in.                      *)
RefCountExact ==
    /\ \A id \in DOMAIN udp_dst_sockets :
          /\ udp_dst_sockets[id].count = Cardinality(Users(id))
          /\ udp_dst_sockets[id].count > 0
    /\ \A k \in DOMAIN udp : /\ DstId(k) \in DOMAIN udp_dst_sockets
                             /\ udp[k].socket = udp_dst_sockets[DstId(k)].handle

(* buffer_bytes is exactly the charge of the sockets in use, plus what the *)
(* running post_pass will release, and respects max_buffer_bytes: every    *)
(* reserve is released once, so saturating_sub never saturates.  The       *)
(* charges are what is counted, not the memory behind them.                *)
BudgetExact ==
    /\ buffer_bytes = tcp_socket_bytes * Cardinality(DOMAIN tcp)
                    + udp_per_socket_bytes * Cardinality(DOMAIN udp_dst_sockets)
                    + released
    /\ max_buffer_bytes # NoLimit => buffer_bytes <= max_buffer_bytes

(* tcp_max_connections and udp_max_sessions bound the tables. *)
TablesBounded ==
    /\ Cardinality(DOMAIN tcp) <= tcp_max_connections
    /\ Cardinality(DOMAIN udp) <= udp_max_sessions

(* Open sessions and UDP entries correspond one to one, by key, queue and  *)
(* socket: a 5-tuple has at most one open session, and a session whose     *)
(* queue is not closed is still served by the runner.                      *)
OpenSessionsServed ==
    /\ \A s \in DOMAIN sessions : ~ sessions[s].closed =>
          /\ sessions[s].key \in DOMAIN udp
          /\ udp[sessions[s].key].queue = s
          /\ udp[sessions[s].key].socket = sessions[s].socket
    /\ \A k \in DOMAIN udp :
          /\ udp[k].queue \in DOMAIN sessions
          /\ sessions[udp[k].queue].key = k
          /\ ~ sessions[udp[k].queue].closed

(* A stream's entry is still in the table, under its key and with its      *)
(* handle; it is past Pending and not an orphan.  No key has two streams.  *)
StreamsServed ==
    /\ \A st \in streams :
          /\ st.key \in DOMAIN tcp /\ tcp[st.key].handle = st.handle
          /\ tcp[st.key].state # "Pending" /\ ~ tcp[st.key].orphaned
    /\ \A k \in DOMAIN tcp :
          tcp[k].orphaned \/ tcp[k].state = "Pending" \/ \E st \in streams : st.key = k

(* recv yields only datagrams of the session's own 5-tuple, although       *)
(* smoltcp demultiplexes by (unicast) destination and sessions to one      *)
(* destination share a socket.                                             *)
OwnTrafficOnly == \A s \in DOMAIN sessions : sessions[s].inbox \subseteq {sessions[s].key}

(* A closed session stays closed and gets no more datagrams, even when a   *)
(* new session for the same 5-tuple is receiving.                          *)
ClosedIsFinal ==
    [][\A s \in DOMAIN sessions \cap DOMAIN sessions' :
          sessions[s].closed => /\ sessions'[s].closed
                                /\ sessions'[s].inbox \subseteq sessions[s].inbox]_vars

(* Datagrams that send has accepted wait for the next poll, and nothing    *)
(* else takes them from a shared socket as long as one of its sessions is  *)
(* left: not the sweep or the drop of another session, nor a new one.      *)
RepliesKept ==
    [][\A k \in DOMAIN udp \cap DOMAIN udp' :
          LET c == <<k.interface, udp[k].socket>>
          IN  phase # "poll" => c \in DOMAIN usock' /\ usock'[c].tx >= usock[c].tx]_vars

(* A TCP entry only moves forward, Pending to Established to Closed, never *)
(* stops being an orphan, keeps its socket, and leaves the table only as   *)
(* an orphan whose socket is Closed.                                       *)
TcpLifecycle ==
    [][\A k \in DOMAIN tcp :
          IF k \in DOMAIN tcp'
          THEN /\ tcp'[k].handle = tcp[k].handle
               /\ tcp[k].orphaned => tcp'[k].orphaned
               /\ <<tcp[k].state, tcp'[k].state>> \notin
                     {<<"Established", "Pending">>, <<"Closed", "Pending">>,
                      <<"Closed", "Established">>, <<"Pending", "Closed">>}
          ELSE tcp[k].orphaned /\ tsock[PlaceOf(k)].state = "Closed"]_vars

(* One cycle leaves nothing of what it found: every packet was processed,  *)
(* every datagram was emitted or passed on, and no orphan with a Closed    *)
(* socket and no expired session is left, although the passes that reclaim *)
(* run before and after others that change the tables.                     *)
CycleReclaims ==
    [][phase # "unlocked" /\ phase' = "unlocked" =>
          /\ Drained(ingress')
          /\ \A c \in DOMAIN usock' : usock'[c].rx = <<>> /\ usock'[c].tx = 0
          /\ \A k \in DOMAIN tcp' :
                ~ (tcp'[k].orphaned /\ tsock'[<<k.interface, tcp'[k].handle>>].state = "Closed")
          /\ \A k \in DOMAIN udp' : udp'[k].idle <= udp_session_timeout]_vars

(* The new queues are the old ones, with at least one of them shorter. *)
Shorter(new, old) ==
    /\ \A x \in DOMAIN old : Len(new[x]) <= Len(old[x])
    /\ \E x \in DOMAIN old : Len(new[x]) < Len(old[x])

rxOf(socks) == [c \in DOMAIN socks |-> socks[c].rx]

(* Every loop of a cycle comes to its end: a step of the runner that does  *)
(* not begin the next part of the cycle leaves less for its part to do,    *)
(* and no step of the application adds to it.                              *)
CycleAdvances ==
    [][phase # "unlocked" =>
          \/ <<phase, phase'>> \in {<<"pre", "poll">>, <<"poll", "accept">>, <<"accept", "reap">>,
                                   <<"reap", "route">>, <<"route", "sweep">>, <<"sweep", "unlocked">>}
          \/ /\ phase' = phase
             /\ \/ phase = "pre" /\ Shorter(pre', pre)
                \/ phase = "poll" /\ Shorter(ingress', ingress)
                \/ phase = "reap" /\ DOMAIN tcp' \subseteq DOMAIN tcp /\ DOMAIN tcp' # DOMAIN tcp
                \/ phase = "route" /\ Shorter(rxOf(usock'), rxOf(usock))
                \/ phase = "sweep" /\ DOMAIN udp' \subseteq DOMAIN udp /\ DOMAIN udp' # DOMAIN udp
                \/ ~ RunnerStep /\ UNCHANGED <<pre, ingress, tcp, usock, udp>>]_vars

(* The runner always gives the core mutex back: no packet, table or        *)
(* timeout makes a cycle run forever.                                      *)
MutexReleased == phase # "unlocked" ~> phase = "unlocked"

(* An idle session that outlives udp_session_timeout is reclaimed, unless  *)
(* a datagram of its application arrives first.                            *)
IdleReclaimed ==
    \A k \in SessionKey :
        k \in DOMAIN udp ~> (k \notin DOMAIN udp \/ udp[k].idle = 0)

(* The entry, socket and budget of a dropped stream come back once its     *)
(* connection is fully closed.                                             *)
OrphanReclaimed ==
    \A k \in SessionKey :
        (k \in DOMAIN tcp /\ tcp[k].orphaned /\ tsock[PlaceOf(k)].state = "Closed")
            ~> k \notin DOMAIN tcp

(***************************************************************************)
(* Statements of the documentation that the code does not keep.            *)
(***************************************************************************)

(* manager.rs: Pending means that the 3-way handshake is not complete, and *)
(* a session whose handshake completed is exposed through accept().  After *)
(* the TCP half of post_pass no Pending entry has a socket beyond the      *)
(* handshake.                                                              *)
HandshakeExposed ==
    phase = "reap" => \A k \in DOMAIN tcp :
        tcp[k].state = "Pending" => tsock[PlaceOf(k)].state \in {"Listen", "SynReceived"}

(* tcp.rs: src_addr is the address of the local application the stream is  *)
(* connected to.                                                           *)
SrcAddrTruthful ==
    \A st \in streams : tsock[<<st.key.interface, st.handle>>].peer \in {st.key.src, NoPeer}

(* udp.rs: recv returns None once the session has been reaped by timeout   *)
(* or dropped; while it exists, only the sweep closes its queue.           *)
OpenUntilReaped ==
    [][\A s \in DOMAIN sessions \cap DOMAIN sessions' :
          (~ sessions[s].closed /\ sessions'[s].closed) => phase = "sweep"]_vars
=============================================================================
