------------------------------ MODULE TunProxy ------------------------------
(***************************************************************************)
(* examples/tun_proxy.rs on top of the runner's loop: one main task feeds  *)
(* the TUN device's packets into the stack, writes egress back, accepts    *)
(* sessions and spawns a relay task for each.  The owner's actions of      *)
(* PollLoop happen here only when main is at the branch that takes them,   *)
(* and its senders are the UDP relays.                                     *)
(*                                                                         *)
(* main holds the handle and the egress receiver until it returns, so the  *)
(* runner does not stop before, and neither egress.recv nor accept returns *)
(* None.  The process ends with main, by a return or by a panic.           *)
(*                                                                         *)
(* A definition X_how placed just before X is a faulty form of X, against  *)
(* which the strength of a property is tested; nothing uses it.            *)
(***************************************************************************)
EXTENDS PollLoop

VARIABLES
    main,     \* where the main task is: adding a route, in its select, at an
              \* await inside it, deleting a route, or at one of its three ends
    routes,   \* the capture-all routes that are installed
    relay     \* relay task, per session: its first await, then where it waits

tunVars == <<main, routes, relay>>
allVars == <<vars, tunVars>>

r0 == "0.0.0.0/1"
r1 == "128.0.0.0/1"

Down == main \in {"exited", "failed", "panicked"}

Built == ~ Down /\ main \notin {"add_r0", "add_r1"}

TunInit ==
    /\ Init /\ main = "add_r0" /\ routes = {}
    /\ relay = [s \in Sender |-> "none"]

MainAt(from, to) == main = from /\ main' = to

(***************************************************************************)
(* Set-up and teardown: `?` returns from main at the first error.          *)
(***************************************************************************)
AddRoute(r, from, to) ==
    /\ \/ MainAt(from, to) /\ routes' = routes \cup {r}
       \/ MainAt(from, "failed") /\ UNCHANGED routes
    /\ UNCHANGED <<vars, relay>>

DeleteRoute(r, from, to) ==
    /\ \/ MainAt(from, to) /\ routes' = routes \ {r}
       \/ MainAt(from, "failed") /\ UNCHANGED routes
    /\ UNCHANGED <<vars, relay>>

after_first_delete_exits == "exited"

after_first_delete == "delete_r1"

Routing ==
    \/ AddRoute(r0, "add_r0", "add_r1") \/ AddRoute(r1, "add_r1", "select")
    \/ DeleteRoute(r0, "delete_r0", after_first_delete) \/ DeleteRoute(r1, "delete_r1", "exited")

(***************************************************************************)
(* The branches of main's select.                                          *)
(***************************************************************************)
DevRecv == MainAt("select", "inject") /\ Inject /\ UNCHANGED <<routes, relay>>

(* send_ip_packet returns ChannelFull, which main expects not to happen. *)
DevRecvFull ==
    /\ MainAt("select", "panicked")
    /\ injected < MaxPackets /\ ingress = channel_capacity
    /\ UNCHANGED <<vars, routes, relay>>

Injected ==
    /\ MainAt("inject", "select") /\ NotifyInjected
    /\ UNCHANGED <<routes, relay>>

EgressRecv ==
    /\ MainAt("select", "write") /\ ReadEgress
    /\ UNCHANGED <<routes, relay>>

(* dev.send(pkt).await *)
Written == MainAt("write", "select") /\ UNCHANGED <<vars, routes, relay>>

after_accept_inline == "relaying"

(* relays.spawn: main does not wait for the relay. *)
after_accept == "select"

(* An IPv6 destination is dropped by its relay at once. *)
Accept ==
    /\ MainAt("select", after_accept) /\ accept
    /\ \E s \in Sender, at \in {"connect", "bind", "ended"} :
          relay[s] = "none" /\ relay' = [relay EXCEPT ![s] = at]
    /\ UNCHANGED routes

(* Ctrl-C, or an error of the device: the loop breaks, with abort_all. *)
Break ==
    /\ MainAt("select", "delete_r0") \/ MainAt("write", "delete_r0")
    /\ UNCHANGED <<vars, routes, relay>>

(***************************************************************************)
(* relay_tcp and relay_udp.  A relay that returns drops its session, which *)
(* notifies the runner.                                                    *)
(***************************************************************************)
Relaying(s, from, to) ==
    /\ relay[s] = from /\ relay' = [relay EXCEPT ![s] = to]
    /\ UNCHANGED <<main, routes>>

Connected(s) ==
    /\ Relaying(s, "connect", "copy") \/ Relaying(s, "bind", "loop")
    /\ UNCHANGED vars

(* A failed connect or bind, the end of copy_bidirectional, or an error or *)
(* the end of the session at the select of relay_udp.                      *)
RelayEnds(s) ==
    /\ \E from \in {"connect", "copy", "bind", "loop"} : Relaying(s, from, "ended")
    /\ sender[s] = "idle" /\ Nudge

(* out.recv_from yields a reply, and sess.send takes over.  It is read     *)
(* into TUN_MTU bytes, so it fits the transmit buffer.                     *)
Reply(s) == Relaying(s, "loop", "loop") /\ StartSend(s, TRUE)

Sending(s) == Relaying(s, "loop", "loop") /\ SenderStep(s)

(* The session was reaped meanwhile: send fails and the relay returns. *)
ReplyFails(s) ==
    /\ Relaying(s, "loop", "ended") /\ Goes(s, "try", "idle")
    /\ notify_poll
    /\ UNCHANGED <<tx, oversize, done_seen>>

(* An aborted relay ends at the await it is in. *)
Aborted(s) ==
    /\ main \in {"delete_r0", "delete_r1"}
    /\ \E from \in {"connect", "copy", "bind", "loop"} : Relaying(s, from, "ended")
    /\ Goes(s, "idle", "idle") \/ Goes(s, "wait", "idle")
    /\ notify_poll /\ done_seen' = [done_seen EXCEPT ![s] = FALSE]
    /\ UNCHANGED <<tx, oversize>>

MainStep == Routing \/ Injected \/ Written

RelayStep(s) ==
    /\ Built
    /\ \/ Connected(s) \/ RelayEnds(s) \/ Aborted(s)
       \/ Reply(s) \/ Sending(s) \/ ReplyFails(s)

TunNext ==
    \/ MainStep
    \/ DevRecv \/ DevRecvFull \/ EgressRecv \/ Accept \/ Break
    \/ Built /\ RunnerStep /\ UNCHANGED tunVars
    \/ \E s \in Sender : RelayStep(s)

(* select! picks a ready branch at random, so one that is ready again and  *)
(* again is taken; the runtime runs ready tasks and the TUN device takes   *)
(* what is written to it.                                                  *)
TunSpec ==
    /\ TunInit /\ [][TunNext]_allVars
    /\ WF_allVars(MainStep) /\ SF_allVars(EgressRecv) /\ SF_allVars(Accept)
    /\ WF_allVars(Built /\ RunnerStep /\ UNCHANGED tunVars)
    /\ \A s \in Sender : WF_allVars(Built /\ Sending(s))

(***************************************************************************)
(* Properties.                                                             *)
(***************************************************************************)

(* The runner, which waits for room in the egress channel without polling, *)
(* never waits for a main that waits for it: main injects with try_send    *)
(* and awaits no relay.                                                    *)
RunnerUnblocked == runner = "egress" ~> runner # "egress" \/ Down

(* Every session a poll opens gets its relay, unless the loop was left.    *)
SessionsRelayed ==
    scratch_accepted + accepted > 0
        ~> scratch_accepted + accepted = 0 \/ Down \/ main \in {"delete_r0", "delete_r1"}

(* A reply that relay_udp sends to the application is taken by the stack,  *)
(* through main's and the runner's waiting, unless the relay ends.  It     *)
(* starves only if other relays take the room again and again.             *)
RepliesTaken ==
    \A s \in Sender :
        \/ []<>(\E q \in Sender \ {s} : sender[q] = "sent")
        \/ sender[s] # "idle" ~> sender[s] = "idle" \/ relay[s] = "ended" \/ Down

(* main runs its loop, which moves packets between the device and the      *)
(* stack, only with both routes in place, and a main that returns Ok has   *)
(* deleted both.                                                           *)
RoutesTornDown ==
    /\ main \in {"select", "inject", "write"} => routes = {r0, r1}
    /\ main = "exited" => routes = {}
=============================================================================
