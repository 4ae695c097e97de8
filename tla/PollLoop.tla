------------------------------ MODULE PollLoop ------------------------------
(***************************************************************************)
(* The main loop of NetstackRunner and the signals it lives on: the two    *)
(* Notify objects poll_notify and poll_done, the ingress, egress and       *)
(* accept channels, its sleep, and the UDP senders that wait for room in   *)
(* the transmit buffer of a shared socket.  What a poll does to the        *)
(* session tables is the subject of module Runner; here it empties the     *)
(* transmit buffer, answers some of the queued packets and opens sessions  *)
(* for others.                                                             *)
(*                                                                         *)
(* notify_waiters reaches only the Notified futures that exist when it is  *)
(* called.  The runner has one on poll_notify only inside its select, a    *)
(* sender one on poll_done only while it waits.                            *)
(*                                                                         *)
(* A definition X_how placed just before X is a faulty form of X, against  *)
(* which the strength of a property is tested; nothing uses it.            *)
(***************************************************************************)
EXTENDS Integers, FiniteSets

CONSTANTS
    Sender,             \* tasks that call WayUdpSession::send, on one socket
    channel_capacity,   \* of the ingress and the egress channel
    tx_capacity,        \* datagrams the socket's transmit buffer holds
    MaxPackets          \* bound on the packets injected

ASSUME PollLoopAssumption ==
    /\ IsFiniteSet(Sender)
    /\ {channel_capacity, tx_capacity} \subseteq Nat \ {0}
    /\ MaxPackets \in Nat

VARIABLES
    runner,      \* where the runner is in its loop
    sleep,       \* the sleep it arms: until a "timer", for an "hour", or "none"
    notified,    \* its Notified future on poll_notify has been notified
    ingress,     \* packets in the ingress channel
    queued,      \* packets in the devices, for the next poll
    egress,      \* packets in the egress channel
    scratch_egress, scratch_accepted,  \* results of the last poll, to be sent on
    accepted,    \* sessions in the accept channel
    lost,        \* sessions dropped by the runner
    handle,      \* the NetstackHandle exists
    receiver,    \* the EgressReceiver exists
    injector,    \* send_ip_packet: "idle", or about to "notify"
    injected,    \* packets injected so far
    tx,          \* datagrams in the socket's transmit buffer
    sender,      \* send, per task
    oversize,    \* tasks that send more bytes than the whole buffer holds
    done_seen    \* the task's Notified future on poll_done has been notified

inVars   == <<ingress, queued>>
outVars  == <<egress, scratch_egress>>
sessVars == <<scratch_accepted, accepted, lost>>
chanVars == <<inVars, outVars, sessVars>>
ownVars  == <<handle, receiver, injector, injected>>
sendVars == <<tx, sender, oversize, done_seen>>
vars     == <<runner, sleep, notified, chanVars, ownVars, sendVars>>

TypeOK ==
    /\ runner \in {"delay", "arm", "select", "drain", "poll", "egress", "accept", "done", "stopped"}
    /\ sleep \in {"none", "timer", "hour"} /\ notified \in BOOLEAN
    /\ ingress \in 0 .. channel_capacity
    /\ egress \in 0 .. channel_capacity
    /\ {queued, scratch_egress, scratch_accepted, accepted, lost} \subseteq Nat
    /\ handle \in BOOLEAN /\ receiver \in BOOLEAN
    /\ injector \in {"idle", "notify"} /\ injected \in 0 .. MaxPackets
    /\ tx \in 0 .. tx_capacity
    /\ sender \in [Sender -> {"idle", "try", "sent", "full", "register", "wait"}]
    /\ oversize \subseteq Sender /\ done_seen \in [Sender -> BOOLEAN]

Init ==
    /\ runner = "delay" /\ sleep = "none" /\ notified = FALSE
    /\ ingress = 0 /\ queued = 0 /\ egress = 0 /\ scratch_egress = 0
    /\ scratch_accepted = 0 /\ accepted = 0 /\ lost = 0
    /\ handle = TRUE /\ receiver = TRUE
    /\ injector = "idle" /\ injected = 0 /\ tx = 0
    /\ sender = [s \in Sender |-> "idle"]
    /\ oversize = {} /\ done_seen = [s \in Sender |-> FALSE]

(* poll_notify.notify_waiters() *)
notify_poll == notified' = (notified \/ runner = "select")

At(from, to) == runner = from /\ runner' = to

(***************************************************************************)
(* The runner.  next_poll_delay is zero when something waits to be sent    *)
(* and None when nothing is pending at all; both arm the one-hour sleep.   *)
(* Any other delay comes from a timer of some TCP socket.                  *)
(***************************************************************************)
next_poll_delay ==
    /\ At("delay", "arm")
    /\ \/ sleep' = "hour"
       \/ tx = 0 /\ sleep' = "timer"
    /\ UNCHANGED <<notified, chanVars, ownVars, sendVars>>

(* select! creates its futures. *)
Arm ==
    /\ At("arm", "select")
    /\ notified' = FALSE
    /\ UNCHANGED <<sleep, chanVars, ownVars, sendVars>>

(* A branch of the select completes, and the other futures are dropped. *)
Wake(to) == At("select", to) /\ sleep' = "none"

(* The branches, tried in order. *)
WakeNotified ==
    /\ Wake("drain") /\ notified
    /\ notified' = FALSE
    /\ UNCHANGED <<chanVars, ownVars, sendVars>>

(* ingress_rx yields a packet, which goes to its device. *)
TakePacket == ingress > 0 /\ ingress' = ingress - 1 /\ queued' = queued + 1

WakeIngress ==
    /\ Wake("drain") /\ ~ notified /\ TakePacket
    /\ UNCHANGED <<notified, outVars, sessVars, ownVars, sendVars>>

on_closed_ignored == "drain"

(* Where a closed ingress channel takes the runner: run returns. *)
on_closed == "stopped"

WakeClosed ==
    /\ Wake(on_closed) /\ ~ notified /\ ingress = 0 /\ ~ handle
    /\ lost' = lost + scratch_accepted /\ scratch_accepted' = 0
    /\ UNCHANGED <<notified, inVars, outVars, accepted, ownVars, sendVars>>

SleepOver_timer_only == sleep = "timer"

(* Either sleep ends. *)
SleepOver == sleep \in {"timer", "hour"}

WakeSleep ==
    /\ Wake("drain") /\ ~ notified /\ ingress = 0 /\ handle /\ SleepOver
    /\ UNCHANGED <<notified, chanVars, ownVars, sendVars>>

(* while let Ok(pkt) = try_recv() *)
Drain ==
    /\ \/ At("drain", "drain") /\ TakePacket
       \/ At("drain", "poll") /\ ingress = 0 /\ UNCHANGED inVars
    /\ UNCHANGED <<sleep, notified, outVars, sessVars, ownVars, sendVars>>

(* poll_once up to the release of the core mutex.  It first clears what an *)
(* earlier cycle left in its scratch vectors.                              *)
Poll(opened, emitted) ==
    /\ At("poll", "egress")
    /\ lost' = lost + scratch_accepted /\ scratch_accepted' = opened
    /\ scratch_egress' = tx + emitted /\ queued' = 0 /\ tx' = 0
    /\ UNCHANGED <<sleep, notified, ingress, egress, accepted, ownVars, sender, oversize, done_seen>>

SendFails_when_full == ~ receiver \/ egress = channel_capacity

(* egress_tx.send(pkt).await is an error. *)
SendFails == ~ receiver

after_failure_stops == "stopped"

(* poll_once returns, run continues. *)
after_failure == "done"

(* egress_tx.send(pkt).await waits for room. *)
SendEgress ==
    /\ scratch_egress > 0
    /\ \/ /\ receiver /\ egress < channel_capacity
          /\ At("egress", "egress")
          /\ egress' = egress + 1
          /\ scratch_egress' = scratch_egress - 1
       \/ /\ SendFails
          /\ At("egress", after_failure)
          /\ scratch_egress' = 0
          /\ UNCHANGED egress
    /\ UNCHANGED <<sleep, notified, inVars, sessVars, ownVars, sendVars>>

EgressSent ==
    /\ At("egress", "accept") /\ scratch_egress = 0
    /\ UNCHANGED <<sleep, notified, chanVars, ownVars, sendVars>>

(* accept_tx.send(session): a session nobody can accept is dropped. *)
SendAccepted ==
    /\ At("accept", "done")
    /\ IF handle THEN accepted' = accepted + scratch_accepted /\ UNCHANGED lost
                 ELSE lost' = lost + scratch_accepted /\ UNCHANGED accepted
    /\ scratch_accepted' = 0
    /\ UNCHANGED <<sleep, notified, inVars, outVars, ownVars, sendVars>>

done_waiters_forgotten == {}

(* The tasks a notify_waiters on poll_done reaches. *)
done_waiters == {s \in Sender : sender[s] = "wait"}

notify_poll_done ==
    /\ At("done", "delay")
    /\ done_seen' = [s \in Sender |-> done_seen[s] \/ s \in done_waiters]
    /\ UNCHANGED <<sleep, notified, chanVars, ownVars, tx, sender, oversize>>

(* Every step of the runner but the poll itself. *)
LoopStep ==
    \/ next_poll_delay \/ Arm \/ WakeNotified \/ WakeIngress \/ WakeClosed \/ WakeSleep
    \/ Drain \/ SendEgress \/ EgressSent \/ SendAccepted \/ notify_poll_done

(* A poll opens sessions for some of the queued packets and answers the others. *)
RunnerStep ==
    \/ LoopStep
    \/ \E opened \in 0 .. queued : Poll(opened, queued - opened)

(***************************************************************************)
(* The owner of the handle and of the egress receiver.                     *)
(***************************************************************************)
send_ip_packet ==
    /\ injector = "idle" /\ handle /\ runner # "stopped"
    /\ ingress < channel_capacity
    /\ ingress' = ingress + 1 /\ injector' = "notify"
    /\ UNCHANGED <<runner, sleep, notified, queued, outVars, sessVars, handle, receiver, sendVars>>

(* A packet that counts against the bound. *)
Inject == send_ip_packet /\ injected < MaxPackets /\ injected' = injected + 1

NotifyInjected ==
    /\ injector = "notify" /\ injector' = "idle"
    /\ notify_poll
    /\ UNCHANGED <<runner, sleep, chanVars, handle, receiver, injected, sendVars>>

accept ==
    /\ handle /\ accepted > 0
    /\ accepted' = accepted - 1
    /\ UNCHANGED <<runner, sleep, notified, inVars, outVars, scratch_accepted, lost, ownVars, sendVars>>

(* The accept channel goes with the handle, and the sessions in it notify  *)
(* the runner as they are dropped.                                         *)
DropHandle ==
    /\ handle /\ injector = "idle"
    /\ handle' = FALSE /\ accepted' = 0
    /\ IF accepted > 0 THEN notify_poll ELSE UNCHANGED notified
    /\ UNCHANGED <<runner, sleep, inVars, outVars, scratch_accepted, lost,
                   receiver, injector, injected, sendVars>>

ReadEgress ==
    /\ receiver /\ egress > 0
    /\ egress' = egress - 1
    /\ UNCHANGED <<runner, sleep, notified, inVars, scratch_egress, sessVars, ownVars, sendVars>>

DropReceiver ==
    /\ receiver
    /\ receiver' = FALSE /\ egress' = 0
    /\ UNCHANGED <<runner, sleep, notified, inVars, scratch_egress, sessVars,
                   handle, injector, injected, sendVars>>

(* Calls on a stream and the drop of a session notify the runner too; they *)
(* are steps of the modules that extend this one.                          *)
Nudge == notify_poll /\ UNCHANGED <<runner, sleep, chanVars, ownVars, sendVars>>

(***************************************************************************)
(* WayUdpSession::send.                                                    *)
(***************************************************************************)
Goes(s, from, to) ==
    /\ sender[s] = from /\ sender' = [sender EXCEPT ![s] = to]
    /\ UNCHANGED <<runner, sleep, chanVars, ownVars>>

(* A send of a datagram that fits the buffer, or of one that does not. *)
StartSend(s, fits) ==
    /\ Goes(s, "idle", "try")
    /\ oversize' = IF fits THEN oversize ELSE oversize \cup {s}
    /\ UNCHANGED <<notified, tx, done_seen>>

(* enqueue finds a free slot, and payload bytes for the datagram: an empty *)
(* buffer still has too few for one that exceeds them all.                 *)
TxRoom(s) == tx < tx_capacity /\ s \notin oversize

try_send(s) ==
    /\ IF TxRoom(s)
       THEN Goes(s, "try", "sent") /\ tx' = tx + 1
       ELSE Goes(s, "try", "full") /\ UNCHANGED tx
    /\ UNCHANGED <<notified, oversize, done_seen>>

(* The session was reaped: send returns the error. *)
SendFailed(s) ==
    /\ Goes(s, "try", "idle") /\ oversize' = oversize \ {s}
    /\ UNCHANGED <<notified, tx, done_seen>>

NotifySent(s) ==
    /\ Goes(s, "sent", "idle") /\ notify_poll
    /\ UNCHANGED <<tx, oversize, done_seen>>

NotifyFull(s) ==
    /\ Goes(s, "full", "register") /\ notify_poll
    /\ UNCHANGED <<tx, oversize, done_seen>>

(* poll_done.notified() *)
Register(s) ==
    /\ Goes(s, "register", "wait")
    /\ UNCHANGED <<notified, tx, oversize, done_seen>>

Retry(s) ==
    /\ Goes(s, "wait", "try") /\ done_seen[s] /\ done_seen' = [done_seen EXCEPT ![s] = FALSE]
    /\ UNCHANGED <<notified, tx, oversize>>

SenderStep(s) == try_send(s) \/ NotifySent(s) \/ NotifyFull(s) \/ Register(s) \/ Retry(s)

Next ==
    \/ RunnerStep
    \/ Inject \/ NotifyInjected \/ accept \/ DropHandle \/ ReadEgress \/ DropReceiver
    \/ \E s \in Sender :
           (\E fits \in BOOLEAN : StartSend(s, fits)) \/ SenderStep(s) \/ SendFailed(s)

Spec == Init /\ [][Next]_vars

(* The runtime runs ready tasks, sleeps end (the one-hour sleep too), and  *)
(* the application reads egress.                                           *)
FairSpec ==
    /\ Spec
    /\ WF_vars(RunnerStep) /\ WF_vars(NotifyInjected) /\ WF_vars(ReadEgress)
    /\ \A s \in Sender : WF_vars(SenderStep(s))

(***************************************************************************)
(* Properties.                                                             *)
(***************************************************************************)

(* Every session a poll opens is handed to accept(), in spite of the       *)
(* waiting for egress in between, as long as the handle and the egress     *)
(* receiver exist.                                                         *)
NoSessionLost == handle /\ receiver => lost = 0

(* A send completes unless the runner has stopped, however its attempts    *)
(* interleave with the runner's cycles and with other senders, those that  *)
(* retry for ever included.  It starves only if others take the room again *)
(* and again: poll_done wakes all that wait, in no order.  A datagram that *)
(* exceeds the whole buffer is Full at every attempt, and nothing is said  *)
(* of its send.                                                            *)
SendCompletes ==
    \A s \in Sender :
        \/ []<>(\E q \in Sender \ {s} : sender[q] = "sent")
        \/ sender[s] # "idle" /\ s \notin oversize ~> sender[s] = "idle" \/ runner = "stopped"

(* A packet taken by send_ip_packet is polled, whether or not the wakeup   *)
(* that follows it finds the runner in its select.                         *)
PacketsPolled == ingress + queued > 0 ~> ingress + queued = 0

(* Dropping the handle stops the runner, unless its select finds itself    *)
(* notified again and again: that branch comes before the closed channel.  *)
StopsWithHandle == []<>(runner = "select" /\ notified) \/ (~ handle ~> runner = "stopped")

(* The runner is in its one-hour sleep and nothing is about to wake it. *)
Asleep ==
    /\ runner = "select" /\ sleep = "hour"
    /\ ~ notified /\ ingress = 0 /\ handle /\ injector = "idle"
    /\ \A s \in Sender : sender[s] \in {"idle", "register", "wait"}

=============================================================================
