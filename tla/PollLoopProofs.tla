--------------------------- MODULE PollLoopProofs ---------------------------
(***************************************************************************)
(* The runner's loop, for any number of senders and any capacities: the    *)
(* channels and the transmit buffer stay within their capacities, and the  *)
(* runner hands every session a poll opened to accept().                   *)
(***************************************************************************)
EXTENDS PollLoop, TLAPS

(* The steps of the runner around the poll keep the types. *)
LEMMA LoopTypes == ASSUME TypeOK, LoopStep PROVE TypeOK'
<1> USE DEF inVars, outVars, sessVars, chanVars, ownVars, sendVars, At
<1>0. channel_capacity \in Nat /\ tx_capacity \in Nat
    BY PollLoopAssumption
<1>1. CASE next_poll_delay
    BY <1>1 DEF TypeOK, next_poll_delay
<1>2. CASE Arm
    BY Zenon, <1>2 DEF TypeOK, Arm
<1>3. CASE WakeNotified
    BY Zenon, <1>3 DEF TypeOK, WakeNotified, Wake
<1>4. CASE WakeIngress
    BY <1>4, <1>0 DEF TypeOK, WakeIngress, Wake, TakePacket
<1>5. CASE WakeClosed
    BY <1>5 DEF TypeOK, WakeClosed, Wake, on_closed
<1>6. CASE WakeSleep
    BY <1>6 DEF TypeOK, WakeSleep, Wake
<1>7. CASE Drain
    BY <1>7, <1>0 DEF TypeOK, Drain, TakePacket
<1>8. CASE SendEgress
    BY <1>8, <1>0 DEF TypeOK, SendEgress, after_failure
<1>9. CASE EgressSent
    BY <1>9 DEF TypeOK, EgressSent
<1>10. CASE SendAccepted
    BY <1>10 DEF TypeOK, SendAccepted
<1>11. CASE notify_poll_done
    BY <1>11 DEF TypeOK, notify_poll_done
<1> QED
    BY <1>1, <1>2, <1>3, <1>4, <1>5, <1>6, <1>7, <1>8, <1>9, <1>10, <1>11 DEF LoopStep

(* So does the poll. *)
LEMMA PollTypes ==
    ASSUME TypeOK, NEW opened \in Nat, NEW emitted \in Nat, Poll(opened, emitted)
    PROVE  TypeOK'
<1>1. tx_capacity \in Nat
    BY PollLoopAssumption
<1> QED BY <1>1 DEF TypeOK, Poll, At, ownVars

(* And so does an injection that keeps the bound. *)
LEMMA InjectTypes ==
    ASSUME TypeOK, send_ip_packet, injected' \in 0 .. MaxPackets
    PROVE  TypeOK'
<1>1. channel_capacity \in Nat
    BY PollLoopAssumption
<1> QED BY <1>1 DEF TypeOK, send_ip_packet, outVars, sessVars, sendVars

(* notify_waiters leaves a flag. *)
LEMMA NotifyType == ASSUME notify_poll PROVE notified' \in BOOLEAN
<1>1. CASE notified \/ runner = "select"
    BY <1>1 DEF notify_poll
<1>2. CASE ~ (notified \/ runner = "select")
    BY <1>2 DEF notify_poll
<1> QED BY <1>1, <1>2

(* The steps of the owner of the handle and the receiver keep the types. *)
LEMMA OwnerTypes ==
    ASSUME TypeOK,
           Inject \/ NotifyInjected \/ accept \/ DropHandle \/ ReadEgress \/ DropReceiver
    PROVE  TypeOK'
<1> USE DEF inVars, outVars, sessVars, chanVars, ownVars, sendVars
<1>0. channel_capacity \in Nat /\ MaxPackets \in Nat
    BY PollLoopAssumption
<1>1. CASE Inject
    BY <1>1, <1>0, InjectTypes DEF TypeOK, Inject
<1>2. CASE NotifyInjected
    BY <1>2, NotifyType DEF TypeOK, NotifyInjected
<1>3. CASE accept
    BY <1>3 DEF TypeOK, accept
<1>4. CASE DropHandle
  <2>1. handle' \in BOOLEAN
    BY Zenon, <1>4 DEF DropHandle
  <2>2. notified' \in BOOLEAN
    BY <1>4, NotifyType DEF DropHandle, TypeOK
  <2> QED BY <1>4, <2>1, <2>2 DEF TypeOK, DropHandle
<1>5. CASE ReadEgress
    BY <1>5, <1>0 DEF TypeOK, ReadEgress
<1>6. CASE DropReceiver
  <2>1. receiver' \in BOOLEAN
    BY Zenon, <1>6 DEF DropReceiver
  <2> QED BY <1>6, <2>1, <1>0 DEF TypeOK, DropReceiver
<1> QED BY <1>1, <1>2, <1>3, <1>4, <1>5, <1>6

(* And those of the senders. *)
LEMMA SenderTypes ==
    ASSUME TypeOK, NEW s \in Sender,
           (\E fits \in BOOLEAN : StartSend(s, fits)) \/ SenderStep(s) \/ SendFailed(s)
    PROVE  TypeOK'
<1> USE DEF Goes, chanVars, inVars, outVars, sessVars, ownVars
<1>0. tx_capacity \in Nat
    BY PollLoopAssumption
<1>1. ASSUME NEW fits, StartSend(s, fits) PROVE TypeOK'
    BY <1>1 DEF TypeOK, StartSend
<1>2. CASE try_send(s)
    BY <1>2, <1>0 DEF TypeOK, try_send, TxRoom
<1>3. CASE NotifySent(s)
    BY <1>3, NotifyType DEF TypeOK, NotifySent
<1>4. CASE NotifyFull(s)
    BY <1>4, NotifyType DEF TypeOK, NotifyFull
<1>5. CASE Register(s)
    BY <1>5 DEF TypeOK, Register
<1>6. CASE Retry(s)
    BY <1>6 DEF TypeOK, Retry
<1>7. CASE SendFailed(s)
    BY <1>7 DEF TypeOK, SendFailed
<1> QED BY <1>1, <1>2, <1>3, <1>4, <1>5, <1>6, <1>7 DEF SenderStep

(* The initial state has them. *)
LEMMA InitTypes == Init => TypeOK
<1> SUFFICES ASSUME Init PROVE TypeOK
    OBVIOUS
<1>1. {notified, handle, receiver} \subseteq BOOLEAN /\ done_seen \in [Sender -> BOOLEAN]
    BY Zenon DEF Init
<1>2. {channel_capacity, tx_capacity, MaxPackets} \subseteq Nat
    BY PollLoopAssumption
<1> QED BY <1>1, <1>2 DEF Init, TypeOK

(* The channels and the transmit buffer stay within their capacities. *)
THEOREM LoopTypeCorrect == Spec => []TypeOK
<1>1. ASSUME TypeOK, [Next]_vars PROVE TypeOK'
  <2>1. CASE RunnerStep
    <3>1. ASSUME NEW opened \in 0 .. queued, Poll(opened, queued - opened) PROVE TypeOK'
      <4>1. opened \in Nat /\ queued - opened \in Nat
        BY <1>1 DEF TypeOK
      <4> QED BY <4>1, <3>1, <1>1, PollTypes
    <3> QED BY <3>1, <2>1, <1>1, LoopTypes DEF RunnerStep
  <2>2. CASE Inject \/ NotifyInjected \/ accept \/ DropHandle \/ ReadEgress \/ DropReceiver
    BY <2>2, <1>1, OwnerTypes
  <2>3. CASE \E s \in Sender :
                (\E fits \in BOOLEAN : StartSend(s, fits)) \/ SenderStep(s) \/ SendFailed(s)
    BY <2>3, <1>1, SenderTypes
  <2>4. CASE UNCHANGED vars
    BY <2>4, <1>1 DEF TypeOK, vars, chanVars, inVars, outVars, sessVars, ownVars, sendVars
  <2> QED BY <2>1, <2>2, <2>3, <2>4, <1>1 DEF Next
<1> QED BY <1>1, InitTypes, PTL DEF Spec

(* While both ends of the application exist, nothing has been lost and no  *)
(* session waits in the scratch vector outside the part of poll_once that  *)
(* sends the results on: the next poll, which clears the vector, finds it  *)
(* empty.                                                                  *)
HandedOver ==
    handle /\ receiver =>
        lost = 0 /\ (runner \notin {"egress", "accept"} => scratch_accepted = 0)

(* Every step keeps it. *)
LEMMA HandedOverStep == HandedOver /\ [Next]_vars => HandedOver'
<1> SUFFICES ASSUME HandedOver, [Next]_vars PROVE HandedOver'
    OBVIOUS
<1> USE DEF HandedOver, sessVars, chanVars, ownVars, sendVars, At
<1>1. CASE next_poll_delay \/ Arm \/ WakeNotified \/ WakeSleep
    BY Zenon, <1>1 DEF next_poll_delay, Arm, WakeNotified, WakeSleep, Wake
<1>2. CASE WakeIngress \/ WakeClosed
    BY Zenon, <1>2 DEF WakeIngress, WakeClosed, Wake, on_closed
<1>3. CASE Drain
    BY <1>3 DEF Drain
<1>4. ASSUME NEW opened, NEW emitted, Poll(opened, emitted) PROVE HandedOver'
    BY <1>4 DEF Poll
<1>5. CASE SendEgress \/ EgressSent
    BY Zenon, <1>5 DEF SendEgress, SendFails, EgressSent
<1>6. CASE SendAccepted
    BY <1>6 DEF SendAccepted
<1>7. CASE notify_poll_done
    BY <1>7 DEF notify_poll_done
<1>8. CASE Inject \/ NotifyInjected \/ accept \/ DropHandle
    BY Zenon, <1>8 DEF Inject, send_ip_packet, NotifyInjected, accept, DropHandle
<1>9. CASE ReadEgress \/ DropReceiver
    BY Zenon, <1>9 DEF ReadEgress, DropReceiver
<1>10. ASSUME NEW s \in Sender,
               (\E fits \in BOOLEAN : StartSend(s, fits)) \/ SenderStep(s) \/ SendFailed(s)
       PROVE  HandedOver'
    BY Zenon, <1>10 DEF StartSend, SenderStep, SendFailed, try_send, NotifySent, NotifyFull, Register, Retry, Goes
<1>11. CASE UNCHANGED vars
    BY <1>11 DEF vars
<1> QED
    BY <1>1, <1>2, <1>3, <1>4, <1>5, <1>6, <1>7, <1>8, <1>9, <1>10, <1>11
    DEF Next, RunnerStep, LoopStep

(* No session is lost while the handle and the egress receiver exist. *)
THEOREM SessionsHandedOver == Spec => []NoSessionLost
<1>1. Init => HandedOver
    BY DEF Init, HandedOver
<1>2. HandedOver => NoSessionLost
    BY DEF HandedOver, NoSessionLost
<1> QED BY <1>1, <1>2, HandedOverStep, PTL DEF Spec
=============================================================================
