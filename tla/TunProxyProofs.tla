--------------------------- MODULE TunProxyProofs ---------------------------
(***************************************************************************)
(* The proxy of examples/tun_proxy.rs, for any number of sessions and any  *)
(* capacities: its routes are paired, it keeps the runner running and      *)
(* loses no session.                                                       *)
(***************************************************************************)
EXTENDS TunProxy, PollLoopProofs

(***************************************************************************)
(* The inductive invariant.                                                *)
(***************************************************************************)

(* What the set of installed routes is at each point of main that goes on  *)
(* to its end.                                                             *)
RoutesAt ==
    /\ main = "add_r0" => routes = {}
    /\ main = "add_r1" => routes = {r0}
    /\ main \in {"select", "inject", "write", "delete_r0"} => routes = {r0, r1}
    /\ main = "delete_r1" => routes = {r1}
    /\ main = "exited" => routes = {}

(* main keeps both ends of its channels, so the runner keeps running. *)
EndsHeld == handle /\ receiver /\ runner # "stopped"

(* The call that injects a packet is main's. *)
InjectorIsMain == injector = "notify" <=> main = "inject"

(* Only the UDP relays send, and a send does not outlive its relay. *)
SendersRelay == \A s \in Sender : sender[s] # "idle" => relay[s] = "loop"

TunTypes ==
    /\ main \in {"add_r0", "add_r1", "select", "inject", "write", "delete_r0", "delete_r1",
                 "exited", "failed", "panicked"}
    /\ relay \in [Sender -> {"none", "connect", "copy", "bind", "loop", "ended"}]

TunInv ==
    /\ TypeOK /\ HandedOver
    /\ TunTypes /\ RoutesAt /\ EndsHeld /\ InjectorIsMain /\ SendersRelay

(***************************************************************************)
(* The steps.                                                              *)
(***************************************************************************)

(* A step of the loop or of main leaves the senders alone. *)
LEMMA NoSending ==
    ASSUME RunnerStep \/ Inject \/ NotifyInjected \/ accept \/ ReadEgress
    PROVE  sender' = sender
    BY DEF RunnerStep, LoopStep, next_poll_delay, Arm, WakeNotified, WakeIngress, WakeClosed,
           WakeSleep, Drain, SendEgress, EgressSent, SendAccepted, notify_poll_done, Poll,
           Inject, send_ip_packet, NotifyInjected, accept, ReadEgress, sendVars

(* The runner does not stop while the handle and the receiver exist, and   *)
(* leaves them alone.                                                      *)
LEMMA RunnerGoesOn ==
    ASSUME EndsHeld, RunnerStep
    PROVE  EndsHeld' /\ injector' = injector
<1> USE DEF EndsHeld, At, ownVars
<1>1. CASE next_poll_delay \/ Arm \/ WakeNotified \/ WakeIngress \/ WakeClosed \/ WakeSleep
    BY <1>1 DEF next_poll_delay, Arm, WakeNotified, WakeIngress, WakeClosed, WakeSleep, Wake
<1>2. CASE Drain \/ SendEgress \/ EgressSent \/ SendAccepted \/ notify_poll_done
    BY <1>2 DEF Drain, SendEgress, after_failure, EgressSent, SendAccepted, notify_poll_done
<1>3. ASSUME NEW opened, NEW emitted, Poll(opened, emitted) PROVE EndsHeld' /\ injector' = injector
    BY <1>3 DEF Poll
<1> QED BY <1>1, <1>2, <1>3 DEF RunnerStep, LoopStep

(* What a step of the runner, or of main on a channel, does to the parts   *)
(* of the invariant that are about the loop alone.                         *)
LEMMA LoopPartKept ==
    ASSUME TunInv, RunnerStep \/ Inject \/ NotifyInjected \/ accept \/ ReadEgress
    PROVE  TypeOK' /\ HandedOver' /\ EndsHeld'
<1>1. TypeOK'
  <2>1. ASSUME NEW opened \in 0 .. queued, Poll(opened, queued - opened) PROVE TypeOK'
    <3>1. opened \in Nat /\ queued - opened \in Nat
        BY DEF TunInv, TypeOK
    <3> QED BY <2>1, <3>1, PollTypes DEF TunInv
  <2> QED BY <2>1, LoopTypes, OwnerTypes DEF TunInv, RunnerStep
<1>2. HandedOver'
    BY HandedOverStep DEF TunInv, Next
<1>3. EndsHeld'
  <2>1. CASE RunnerStep
    BY <2>1, RunnerGoesOn DEF TunInv
  <2>2. CASE Inject \/ NotifyInjected \/ accept \/ ReadEgress
    BY <2>2 DEF TunInv, EndsHeld, Inject, send_ip_packet, NotifyInjected, accept, ReadEgress, ownVars
  <2> QED BY <2>1, <2>2
<1> QED BY <1>1, <1>2, <1>3

(* A step that leaves the loop alone. *)
LEMMA LoopPartFrame ==
    ASSUME TunInv, UNCHANGED vars
    PROVE  /\ TypeOK' /\ HandedOver' /\ EndsHeld'
           /\ injector' = injector /\ sender' = sender
<1> USE DEF vars, chanVars, inVars, outVars, sessVars, ownVars, sendVars
<1>1. TypeOK'
    BY DEF TunInv, TypeOK
<1>2. HandedOver' /\ EndsHeld' /\ injector' = injector /\ sender' = sender
    BY DEF TunInv, HandedOver, EndsHeld
<1> QED BY <1>1, <1>2

(* A relay that is at `from` goes on to `to`; it ends only between sends. *)
LEMMA RelayMoves ==
    ASSUME TunInv, NEW s \in Sender, NEW from, NEW to \in {"copy", "loop", "ended"},
           Relaying(s, from, to), injector' = injector,
           \A t \in Sender : t # s => sender'[t] = sender[t],
           sender'[s] # "idle" => to = "loop"
    PROVE  TunTypes' /\ RoutesAt' /\ InjectorIsMain' /\ SendersRelay'
<1>1. relay' = [relay EXCEPT ![s] = to] /\ main' = main /\ routes' = routes
    BY DEF Relaying
<1>2. relay \in [Sender -> {"none", "connect", "copy", "bind", "loop", "ended"}]
    BY DEF TunInv, TunTypes
<1>3. TunTypes'
    BY <1>1, <1>2 DEF TunInv, TunTypes
<1>4. RoutesAt' /\ InjectorIsMain'
    BY <1>1 DEF TunInv, RoutesAt, InjectorIsMain
<1>5. SendersRelay'
  <2>1. relay'[s] = to /\ \A t \in Sender : t # s => relay'[t] = relay[t]
    BY <1>1, <1>2
  <2> QED BY <2>1 DEF TunInv, SendersRelay
<1> QED BY <1>3, <1>4, <1>5

(* A send that is given up, by an error or because its relay was aborted. *)
LEMMA GivenUp ==
    ASSUME TunInv, NEW s \in Sender, NEW from, Goes(s, from, "idle"), notify_poll,
           done_seen' \in [Sender -> BOOLEAN], UNCHANGED <<tx, oversize>>
    PROVE  /\ TypeOK' /\ HandedOver' /\ EndsHeld' /\ injector' = injector
           /\ \A t \in Sender : t # s => sender'[t] = sender[t]
           /\ sender'[s] = "idle"
<1> USE DEF Goes, chanVars, inVars, outVars, sessVars, ownVars
<1>1. sender' = [sender EXCEPT ![s] = "idle"] /\ sender \in [Sender -> {"idle", "try", "sent", "full", "register", "wait"}]
    BY DEF TunInv, TypeOK
<1>2. /\ sender' \in [Sender -> {"idle", "try", "sent", "full", "register", "wait"}]
      /\ \A t \in Sender : t # s => sender'[t] = sender[t]
      /\ sender'[s] = "idle"
    BY <1>1
<1>3. TypeOK'
    BY <1>2, NotifyType DEF TunInv, TypeOK
<1>4. HandedOver' /\ EndsHeld' /\ injector' = injector
    BY DEF TunInv, HandedOver, EndsHeld
<1> QED BY <1>2, <1>3, <1>4

(* The relays keep the invariant. *)
LEMMA RelayKeeps == ASSUME TunInv, NEW s \in Sender, RelayStep(s) PROVE TunInv'
<1>1. CASE Connected(s)
    BY <1>1, LoopPartFrame, RelayMoves DEF Connected, TunInv, SendersRelay, Relaying
<1>2. CASE RelayEnds(s)
  <2>1. PICK from \in {"connect", "copy", "bind", "loop"} : Relaying(s, from, "ended")
    BY <1>2 DEF RelayEnds
  <2>2. Nudge /\ sender' = sender /\ sender[s] = "idle" /\ injector' = injector
    BY <1>2 DEF RelayEnds, Nudge, sendVars, ownVars
  <2>3. TypeOK' /\ HandedOver' /\ EndsHeld'
    <3> USE DEF chanVars, inVars, outVars, sessVars, ownVars, sendVars
    <3>1. TypeOK'
        BY <2>2, NotifyType DEF Nudge, TunInv, TypeOK
    <3>2. HandedOver' /\ EndsHeld'
        BY <2>2 DEF Nudge, TunInv, HandedOver, EndsHeld
    <3> QED BY <3>1, <3>2
  <2> QED BY <2>1, <2>2, <2>3, RelayMoves DEF TunInv
<1>3. CASE Aborted(s) \/ ReplyFails(s)
  <2>1. PICK from : Relaying(s, from, "ended")
    BY <1>3 DEF Aborted, ReplyFails
  <2>2. PICK at : Goes(s, at, "idle")
    BY <1>3 DEF Aborted, ReplyFails
  <2>3. notify_poll /\ UNCHANGED <<tx, oversize>>
    BY <1>3 DEF Aborted, ReplyFails
  <2>4. done_seen' \in [Sender -> BOOLEAN]
    BY <1>3 DEF Aborted, ReplyFails, TunInv, TypeOK
  <2> QED BY <2>1, <2>2, <2>3, <2>4, GivenUp, RelayMoves DEF TunInv
<1>4. CASE Reply(s) \/ Sending(s)
  <2>1. Relaying(s, "loop", "loop") /\ (StartSend(s, TRUE) \/ SenderStep(s))
    BY <1>4 DEF Reply, Sending
  <2>2. TypeOK'
    BY <2>1, SenderTypes DEF TunInv
  <2>3. HandedOver'
    BY <2>1, HandedOverStep DEF TunInv, Next
  <2>4. PICK from, to : Goes(s, from, to)
    BY Zenon, <2>1 DEF StartSend, SenderStep, try_send, NotifySent, NotifyFull, Register, Retry
  <2>5. EndsHeld' /\ injector' = injector /\ \A t \in Sender : t # s => sender'[t] = sender[t]
    BY <2>4 DEF TunInv, TypeOK, EndsHeld, Goes, ownVars
  <2> QED BY <2>1, <2>2, <2>3, <2>5, RelayMoves DEF TunInv
<1> QED BY <1>1, <1>2, <1>3, <1>4 DEF RelayStep

(* main keeps it. *)
LEMMA MainKeeps ==
    ASSUME TunInv, MainStep \/ DevRecv \/ DevRecvFull \/ EgressRecv \/ Accept \/ Break
    PROVE  TunInv'
<1> USE DEF MainAt
<1>1. CASE Routing
  <2>1. UNCHANGED <<vars, relay>>
    BY <1>1 DEF Routing, AddRoute, DeleteRoute
  <2>2. TunTypes' /\ RoutesAt'
    BY <1>1 DEF TunInv, TunTypes, RoutesAt, Routing, AddRoute, DeleteRoute, after_first_delete, r0, r1
  <2>3. InjectorIsMain' /\ SendersRelay'
    <3>1. main # "inject" /\ main' # "inject"
        BY <1>1 DEF Routing, AddRoute, DeleteRoute, after_first_delete
    <3> QED BY <2>1, <3>1, LoopPartFrame DEF TunInv, InjectorIsMain, SendersRelay
  <2> QED BY <2>1, <2>2, <2>3, LoopPartFrame DEF TunInv
<1>2. CASE DevRecv \/ Injected \/ EgressRecv
  <2>1. Inject \/ NotifyInjected \/ ReadEgress
    BY <1>2 DEF DevRecv, Injected, EgressRecv
  <2>2. sender' = sender /\ UNCHANGED <<routes, relay>>
    BY <1>2, <2>1, NoSending DEF DevRecv, Injected, EgressRecv
  <2>3. TunTypes' /\ RoutesAt' /\ SendersRelay'
    BY <1>2, <2>2 DEF TunInv, TunTypes, RoutesAt, SendersRelay, DevRecv, Injected, EgressRecv
  <2>4. InjectorIsMain'
    BY <1>2 DEF TunInv, InjectorIsMain, DevRecv, Injected, EgressRecv, Inject, send_ip_packet,
                NotifyInjected, ReadEgress, ownVars
  <2> QED BY <2>1, <2>3, <2>4, LoopPartKept DEF TunInv
<1>3. CASE Written \/ DevRecvFull \/ Break
  <2>1. UNCHANGED <<vars, routes, relay>>
    BY <1>3 DEF Written, DevRecvFull, Break
  <2>2. TunTypes' /\ RoutesAt'
    BY <1>3, <2>1 DEF TunInv, TunTypes, RoutesAt, Written, DevRecvFull, Break
  <2>3. main # "inject" /\ main' # "inject"
    BY <1>3 DEF Written, DevRecvFull, Break
  <2> QED BY <2>1, <2>2, <2>3, LoopPartFrame DEF TunInv, InjectorIsMain, SendersRelay
<1>4. CASE Accept
  <2>1. accept /\ main = "select" /\ main' = "select" /\ routes' = routes
    BY <1>4 DEF Accept, after_accept
  <2>2. PICK s \in Sender, at \in {"connect", "bind", "ended"} :
           relay[s] = "none" /\ relay' = [relay EXCEPT ![s] = at]
    BY <1>4 DEF Accept
  <2>3. sender' = sender /\ injector' = injector
    BY <2>1, NoSending DEF accept, ownVars
  <2>4. TunTypes' /\ RoutesAt' /\ InjectorIsMain'
    BY <2>1, <2>2, <2>3 DEF TunInv, TunTypes, RoutesAt, InjectorIsMain
  <2>5. SendersRelay'
    BY <2>2, <2>3 DEF TunInv, TunTypes, SendersRelay
  <2> QED BY <2>1, <2>4, <2>5, LoopPartKept DEF TunInv
<1> QED BY <1>1, <1>2, <1>3, <1>4 DEF MainStep

(***************************************************************************)
(* The invariant and what follows from it.                                 *)
(***************************************************************************)

(* The initial state satisfies it. *)
LEMMA TunInitHolds == TunInit => TunInv
<1> SUFFICES ASSUME TunInit PROVE TunInv
    OBVIOUS
<1>1. TypeOK
    BY InitTypes DEF TunInit
<1>2. HandedOver /\ EndsHeld
    BY DEF TunInit, Init, HandedOver, EndsHeld
<1>3. main = "add_r0" /\ routes = {} /\ injector = "idle" /\ \A s \in Sender : sender[s] = "idle"
    BY DEF TunInit, Init
<1>4. TunTypes
    BY DEF TunInit, TunTypes
<1> QED BY <1>1, <1>2, <1>3, <1>4 DEF TunInv, RoutesAt, InjectorIsMain, SendersRelay

(* Every step keeps it. *)
LEMMA TunStepKeeps == ASSUME TunInv, [TunNext]_allVars PROVE TunInv'
<1>1. CASE Built /\ RunnerStep /\ UNCHANGED tunVars
  <2>1. sender' = sender /\ injector' = injector
    BY <1>1, NoSending, RunnerGoesOn DEF TunInv
  <2>2. TunTypes' /\ RoutesAt' /\ InjectorIsMain' /\ SendersRelay'
    BY <1>1, <2>1 DEF TunInv, TunTypes, RoutesAt, InjectorIsMain, SendersRelay, tunVars
  <2> QED BY <1>1, <2>2, LoopPartKept DEF TunInv
<1>2. CASE UNCHANGED allVars
  <2>1. UNCHANGED vars /\ UNCHANGED tunVars
    BY <1>2 DEF allVars
  <2>2. sender' = sender /\ injector' = injector
    BY <2>1, LoopPartFrame
  <2>3. TunTypes' /\ RoutesAt' /\ InjectorIsMain' /\ SendersRelay'
    BY <2>1, <2>2 DEF TunInv, TunTypes, RoutesAt, InjectorIsMain, SendersRelay, tunVars
  <2> QED BY <2>1, <2>3, LoopPartFrame DEF TunInv
<1> QED BY <1>1, <1>2, MainKeeps, RelayKeeps DEF TunNext

(* It holds in every state the proxy reaches. *)
LEMMA TunInvariance == TunSpec => []TunInv
    BY TunInitHolds, TunStepKeeps, PTL DEF TunSpec

(* main's loop runs only while both halves of the address space are routed *)
(* to the device, and when main returns Ok both routes are gone, whatever  *)
(* the runner and the relays were doing when the loop was left.            *)
THEOREM RoutesPaired == TunSpec => []RoutesTornDown
<1>1. TunInv => RoutesTornDown
    BY DEF TunInv, RoutesAt, RoutesTornDown
<1> QED BY <1>1, TunInvariance, PTL

(* main holds the handle and the egress receiver until it returns: until   *)
(* then the runner does not stop, so that egress.recv and accept never     *)
(* return None, and every session that was opened reaches accept, however  *)
(* long the runner had to wait for egress in between.                      *)
THEOREM ProxyServesOn == TunSpec => [](EndsHeld /\ NoSessionLost)
<1>1. TunInv => EndsHeld /\ NoSessionLost
    BY DEF TunInv, HandedOver, NoSessionLost
<1> QED BY <1>1, TunInvariance, PTL
=============================================================================
