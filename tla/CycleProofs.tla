---------------------------- MODULE CycleProofs ----------------------------
(***************************************************************************)
(* One poll cycle of the runner: what it leaves behind, and that each of   *)
(* its loops comes to an end.  Step lemmas for the theorems of             *)
(* RunnerProofs.                                                           *)
(***************************************************************************)
EXTENDS Runner, TLAPS

(* The parts of post_pass, in order, and those after the reaping. *)
PostPass == {"accept", "reap", "route", "sweep"}

(* What the earlier parts of a cycle have done still holds in the later    *)
(* ones: no packet is left to deliver and no datagram to emit; no orphan   *)
(* is left to reap; no datagram is left to redistribute.                   *)
CycleInv ==
    /\ phase \in PostPass => Drained(ingress) /\ \A c \in DOMAIN usock : usock[c].tx = 0
    /\ phase \in {"route", "sweep"} => \A k \in DOMAIN tcp : ~ Reapable(k)
    /\ phase = "sweep" => \A c \in DOMAIN usock : usock[c].rx = <<>>

(* What it is shown from. *)
SocketFacts ==
    /\ usock \in [DOMAIN usock -> UdpSocket]
    /\ \A id \in DOMAIN udp_dst_sockets : <<id[1], udp_dst_sockets[id].handle>> \in DOMAIN usock
    /\ \A c \in DOMAIN usock : \E id \in DOMAIN udp_dst_sockets :
          <<id[1], udp_dst_sockets[id].handle>> = c

(* The tail of a queue is shorter. *)
LEMMA TailLess == ASSUME NEW S, NEW q \in Seq(S), q # <<>> PROVE Len(Tail(q)) < Len(q)
OBVIOUS

(* Redistribution takes a datagram out of a receive buffer, and leaves the *)
(* transmit buffers as they are.                                           *)
LEMMA RouteFacts ==
    ASSUME SocketFacts, NEW id \in DOMAIN udp_dst_sockets, route_udp(id)
    PROVE  /\ DOMAIN usock' = DOMAIN usock
           /\ \A c \in DOMAIN usock : usock'[c].tx = usock[c].tx
           /\ Shorter(rxOf(usock'), rxOf(usock))
<1> DEFINE q == <<id[1], udp_dst_sockets[id].handle>>
<1>1. /\ q \in DOMAIN usock /\ usock[q].rx # <<>>
      /\ usock' = [usock EXCEPT ![q].rx = Tail(@)]
    BY DEF SocketFacts, route_udp, unread
<1> HIDE DEF q
<1>2. \A c \in DOMAIN usock : usock[c] \in UdpSocket /\ usock[c].rx \in Seq(Src)
    BY DEF SocketFacts, UdpSocket
<1>3. DOMAIN usock' = DOMAIN usock
    BY <1>1
<1>4. /\ usock'[q].rx = Tail(usock[q].rx) /\ usock'[q].tx = usock[q].tx
      /\ \A c \in DOMAIN usock : c # q => usock'[c] = usock[c]
  <2>1. /\ usock'[q] = [usock[q] EXCEPT !.rx = Tail(@)]
        /\ \A c \in DOMAIN usock : c # q => usock'[c] = usock[c]
    BY Zenon, <1>1
  <2>2. DOMAIN usock[q] = {"dst", "rx", "tx"}
    BY <1>1, <1>2 DEF UdpSocket
  <2> QED BY <2>1, <2>2
<1>5. \A c \in DOMAIN usock : Len(usock'[c].rx) <= Len(usock[c].rx)
    BY <1>1, <1>2, <1>4
<1>6. Len(usock'[q].rx) < Len(usock[q].rx)
    BY <1>1, <1>2, <1>4, TailLess
<1>7. Shorter(rxOf(usock'), rxOf(usock))
    BY <1>1, <1>3, <1>5, <1>6 DEF Shorter, rxOf
<1> QED BY <1>3, <1>4, <1>7

(* Taking a packet off one of the queues makes them shorter. *)
LEMMA TailShorter ==
    ASSUME NEW D, NEW S, NEW q \in [D -> Seq(S)], NEW i \in D, q[i] # <<>>
    PROVE  Shorter([q EXCEPT ![i] = Tail(@)], q)
<1> DEFINE r == [q EXCEPT ![i] = Tail(@)]
<1>1. \A x \in D : q[x] \in Seq(S) /\ r[x] = IF x = i THEN Tail(q[x]) ELSE q[x]
    OBVIOUS
<1>2. Len(r[i]) < Len(q[i]) /\ \A x \in D : Len(r[x]) <= Len(q[x])
    BY <1>1, TailLess
<1> QED BY <1>2 DEF Shorter

(***************************************************************************)
(* What a cycle leaves.                                                    *)
(***************************************************************************)

(* Every step keeps what the earlier parts of the cycle have done. *)
LEMMA CycleStep == ASSUME SocketFacts, CycleInv, [Next]_vars PROVE CycleInv'
<1>1. CASE phase' \notin PostPass
    BY <1>1 DEF CycleInv, PostPass
<1>2. CASE PollEgress
  <2>1. phase' = "accept" /\ Drained(ingress') 
    BY <1>2 DEF PollEgress, Enter, Drained
  <2>2. \A c \in DOMAIN usock' : usock'[c].tx = 0
    BY <1>2 DEF PollEgress, SocketFacts, UdpSocket
  <2> QED BY <2>1, <2>2 DEF CycleInv, Drained
<1>3. CASE AcceptTcp
    BY <1>3 DEF AcceptTcp, accept_tcp, Enter, CycleInv, PostPass, Drained, coreVars
<1>4. ASSUME NEW k \in DOMAIN tcp, ReapTcp(k) PROVE CycleInv'
    BY <1>4 DEF ReapTcp, reap_tcp, CycleInv, PostPass, Drained
<1>5. CASE EndReap
    BY <1>5 DEF EndReap, Enter, CycleInv, PostPass, Drained, Reapable, PlaceOf, coreVars, tcpVars
<1>6. ASSUME NEW id \in DOMAIN udp_dst_sockets, RouteUdp(id) PROVE CycleInv'
  <2>1. /\ phase = "route" /\ UNCHANGED <<tcp, tsock, phase, ingress>>
        /\ DOMAIN usock' = DOMAIN usock /\ \A c \in DOMAIN usock : usock'[c].tx = usock[c].tx
    BY <1>6, RouteFacts DEF RouteUdp, route_udp, tcpVars, runnerVars
  <2> QED BY <2>1 DEF CycleInv, PostPass, Drained, Reapable, PlaceOf
<1>7. CASE EndRoute
  <2>1. /\ phase = "route" /\ phase' = "sweep" /\ UNCHANGED <<tcp, tsock, usock, ingress>>
    BY <1>7 DEF EndRoute, Enter, coreVars, tcpVars
  <2>2. \A c \in DOMAIN usock : usock[c].rx = <<>>
    BY <1>7 DEF EndRoute, SocketFacts
  <2> QED BY <2>1, <2>2 DEF CycleInv, PostPass, Drained, Reapable, PlaceOf
<1>8. ASSUME NEW k \in DOMAIN udp, SweepUdp(k) PROVE CycleInv'
  <2>1. /\ phase = "sweep" /\ UNCHANGED <<tcp, tsock, phase, ingress>>
    BY <1>8 DEF SweepUdp, sweep_udp, tcpVars
  <2>2. DOMAIN usock' \subseteq DOMAIN usock /\ \A c \in DOMAIN usock' : usock'[c] = usock[c]
    BY <1>8 DEF SweepUdp, sweep_udp, remove_udp, sockets_after_removal, Remove, Restrict
  <2> QED BY <2>1, <2>2 DEF CycleInv, PostPass, Drained, Reapable, PlaceOf
<1>9. ASSUME NEW s \in DOMAIN sessions, Recv(s) PROVE CycleInv'
    BY <1>9 DEF Recv, recv, tcpVars, runnerVars, CycleInv, PostPass, Drained, Reapable, PlaceOf
<1>10. CASE UNCHANGED vars
    BY <1>10 DEF vars, coreVars, tcpVars, runnerVars, CycleInv, PostPass, Drained, Reapable, PlaceOf
<1>11. CASE BeginPoll \/ EndPrePass \/ EndPoll \/ \E i \in Interface : PrePass(i) \/ PollIngress(i)
  <2>1. phase' \notin PostPass
    BY <1>11 DEF BeginPoll, EndPrePass, EndPoll, PrePass, PollIngress, Enter, PostPass
  <2> QED BY <1>1, <2>1
<1>12. CASE Next /\ ~ RunnerStep /\ ~ \E s \in DOMAIN sessions : Recv(s)
  <2>1. phase' \notin PostPass
    BY Zenon, <1>12 DEF Next, queue_ingress, ShutdownStream, DropStream, DropSession, Send, Tick,
                 runnerVars, PostPass
  <2> QED BY <1>1, <2>1
<1> QED
    BY <1>2, <1>3, <1>4, <1>5, <1>6, <1>7, <1>8, <1>9, <1>10, <1>11, <1>12 DEF RunnerStep

(* The last step of a cycle leaves it all behind. *)
LEMMA ReclaimsStep ==
    ASSUME SocketFacts, CycleInv, [Next]_vars, phase # "unlocked", phase' = "unlocked",
           udp \in [DOMAIN udp -> UdpEntry]
    PROVE  /\ Drained(ingress')
           /\ \A c \in DOMAIN usock' : usock'[c].rx = <<>> /\ usock'[c].tx = 0
           /\ \A k \in DOMAIN tcp' :
                 ~ (tcp'[k].orphaned /\ tsock'[<<k.interface, tcp'[k].handle>>].state = "Closed")
           /\ \A k \in DOMAIN udp' : udp'[k].idle <= udp_session_timeout
<1>1. EndPoll
  <2>1. CASE RunnerStep
    BY <2>1 DEF RunnerStep, BeginPoll, EndPrePass, PollEgress, AcceptTcp, EndReap, EndRoute, Enter,
                PrePass, PollIngress, ReapTcp, RouteUdp, SweepUdp, runnerVars
  <2>2. CASE Next /\ ~ RunnerStep
    BY Zenon, <2>2 DEF Next, queue_ingress, ShutdownStream, DropStream, DropSession, Send, Recv,
                 Tick, runnerVars
  <2>3. CASE UNCHANGED vars
    BY <2>3 DEF vars, runnerVars
  <2> QED BY <2>1, <2>2, <2>3
<1>2. /\ phase = "sweep" /\ UNCHANGED <<tcp, tsock, usock, udp, ingress>>
      /\ \A k \in DOMAIN udp : ~ Expired(k)
    BY <1>1 DEF EndPoll, Enter, tcpVars, udpVars
<1>3. /\ Drained(ingress) /\ \A c \in DOMAIN usock : usock[c].rx = <<>> /\ usock[c].tx = 0
      /\ \A k \in DOMAIN tcp : ~ Reapable(k)
    BY <1>2 DEF CycleInv, PostPass
<1>4. \A k \in DOMAIN udp : udp[k].idle <= udp_session_timeout
    BY <1>2, CoreAssumption DEF Expired, UdpEntry
<1> QED BY <1>2, <1>3, <1>4 DEF Drained, Reapable, PlaceOf

(***************************************************************************)
(* The loops of a cycle end.                                               *)
(***************************************************************************)

(* A step of the runner within a cycle begins the next part or leaves less *)
(* to do in its own.                                                       *)
LEMMA RunnerAdvances ==
    ASSUME SocketFacts, RunnerStep, phase # "unlocked",
           ingress \in [Interface -> Seq(Packet)], pre \in [Interface -> Seq(Packet)]
    PROVE  \/ <<phase, phase'>> \in {<<"pre", "poll">>, <<"poll", "accept">>, <<"accept", "reap">>,
                                    <<"reap", "route">>, <<"route", "sweep">>, <<"sweep", "unlocked">>}
           \/ /\ phase' = phase
              /\ \/ phase = "pre" /\ Shorter(pre', pre)
                 \/ phase = "poll" /\ Shorter(ingress', ingress)
                 \/ phase = "reap" /\ DOMAIN tcp' \subseteq DOMAIN tcp /\ DOMAIN tcp' # DOMAIN tcp
                 \/ phase = "route" /\ Shorter(rxOf(usock'), rxOf(usock))
                 \/ phase = "sweep" /\ DOMAIN udp' \subseteq DOMAIN udp /\ DOMAIN udp' # DOMAIN udp
<1>1. CASE EndPrePass \/ PollEgress \/ AcceptTcp \/ EndReap \/ EndRoute \/ EndPoll
    BY <1>1 DEF EndPrePass, PollEgress, AcceptTcp, EndReap, EndRoute, EndPoll, Enter
<1>2. ASSUME NEW i \in Interface, PrePass(i)
      PROVE  phase' = phase /\ phase = "pre" /\ Shorter(pre', pre)
  <2>1. phase = "pre" /\ phase' = phase /\ pre[i] # <<>> /\ pre' = [pre EXCEPT ![i] = Tail(@)]
    BY Zenon, <1>2 DEF PrePass
  <2> QED BY Zenon, <2>1, TailShorter
<1>3. ASSUME NEW i \in Interface, PollIngress(i)
      PROVE  phase' = phase /\ phase = "poll" /\ Shorter(ingress', ingress)
  <2>1. /\ phase = "poll" /\ phase' = phase
        /\ ingress[i] # <<>> /\ ingress' = [ingress EXCEPT ![i] = Tail(@)]
    BY Zenon, <1>3 DEF PollIngress
  <2> QED BY Zenon, <2>1, TailShorter
<1>4. ASSUME NEW k \in DOMAIN tcp, ReapTcp(k)
      PROVE  /\ phase' = phase /\ phase = "reap"
             /\ DOMAIN tcp' \subseteq DOMAIN tcp /\ DOMAIN tcp' # DOMAIN tcp
    BY <1>4 DEF ReapTcp, reap_tcp, Remove, Restrict
<1>5. ASSUME NEW id \in DOMAIN udp_dst_sockets, RouteUdp(id)
      PROVE  phase' = phase /\ phase = "route" /\ Shorter(rxOf(usock'), rxOf(usock))
    BY Zenon, <1>5, RouteFacts DEF RouteUdp, runnerVars
<1>6. ASSUME NEW k \in DOMAIN udp, SweepUdp(k)
      PROVE  /\ phase' = phase /\ phase = "sweep"
             /\ DOMAIN udp' \subseteq DOMAIN udp /\ DOMAIN udp' # DOMAIN udp
    BY <1>6 DEF SweepUdp, sweep_udp, remove_udp, Remove, Restrict
<1>7. ~ BeginPoll
    BY DEF BeginPoll, Enter
<1> QED BY Zenon, <1>1, <1>2, <1>3, <1>4, <1>5, <1>6, <1>7 DEF RunnerStep

(* Within a cycle the application can only receive, which leaves the       *)
(* runner's work as it is.                                                 *)
LEMMA OthersWait ==
    ASSUME Next, ~ RunnerStep, phase # "unlocked"
    PROVE  phase' = phase /\ UNCHANGED <<pre, ingress, tcp, usock, udp>>
<1>1. PICK s \in DOMAIN sessions : Recv(s)
    BY Zenon DEF Next, queue_ingress, ShutdownStream, DropStream, DropSession, Send, Tick
<1> QED BY <1>1 DEF Recv, recv, tcpVars, runnerVars, coreVars
=============================================================================
