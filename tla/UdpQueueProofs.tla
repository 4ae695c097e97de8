--------------------------- MODULE UdpQueueProofs ---------------------------
(***************************************************************************)
(* The receive queue of a UDP session, for any number of datagrams: order  *)
(* and completeness under every interleaving, and that it implements       *)
(* DatagramQueue.                                                          *)
(***************************************************************************)
EXTENDS UdpQueue, TLAPS

(* TypeOK and InOrderNoLoss are inductive together: the type of a pushed   *)
(* datagram is its number, the order says which number comes next.         *)
QueueInv == TypeOK /\ InOrderNoLoss

(* The queue starts empty. *)
LEMMA QueueInit == Init => QueueInv
<1> SUFFICES ASSUME Init PROVE QueueInv
    OBVIOUS
<1>1. inner = <<>> /\ Len(inner) = 0 /\ inner \in Seq(1 .. MaxPush)
    BY DEF Init
<1>2. TypeOK
  <2>1. 0 \in 0 .. MaxPush
      BY MaxPushAssumption
  <2>2. closed \in BOOLEAN /\ woken \in BOOLEAN /\ ended \in BOOLEAN
      BY Zenon DEF Init
  <2> QED BY <1>1, <2>1, <2>2 DEF Init, TypeOK
<1>3. InOrderNoLoss
    BY <1>1 DEF Init, InOrderNoLoss
<1> QED BY <1>2, <1>3 DEF QueueInv

(* No step of the writer or of the reader loses, repeats or reorders. *)
LEMMA QueueStep == QueueInv /\ [Next]_vars => QueueInv'
<1> SUFFICES ASSUME QueueInv, [Next]_vars PROVE QueueInv'
    OBVIOUS
<1> USE MaxPushAssumption DEF QueueInv
<1>1. CASE push
  <2>1. TypeOK'
      BY <1>1 DEF push, HasEntry, TypeOK
  <2>2. Len(inner') = Len(inner) + 1 /\ received' = received /\ pushed' = pushed + 1
      BY <1>1 DEF push, HasEntry, TypeOK
  <2>3. \A n \in 1 .. Len(inner') : inner'[n] = received' + n
    <3> SUFFICES ASSUME NEW n \in 1 .. Len(inner') PROVE inner'[n] = received' + n
        OBVIOUS
    <3>1. CASE n = Len(inner) + 1
        BY <1>1, <2>2, <3>1 DEF push, HasEntry, TypeOK, InOrderNoLoss
    <3>2. CASE n # Len(inner) + 1
        BY <1>1, <2>2, <3>2 DEF push, HasEntry, TypeOK, InOrderNoLoss
    <3> QED BY <3>1, <3>2
  <2>4. received' + Len(inner') = pushed'
      BY <2>2 DEF TypeOK, InOrderNoLoss
  <2> QED BY <2>1, <2>3, <2>4 DEF InOrderNoLoss
<1>2. CASE pop
  <2>1. CASE inner = <<>>
      BY <1>2, <2>1 DEF pop, Empty, TypeOK, InOrderNoLoss
  <2>2. CASE inner # <<>>
    <3>1. /\ inner' = Tail(inner) /\ received' = received + 1 /\ reader' = "idle"
          /\ UNCHANGED <<closed, writer, woken, pushed, ended>>
        BY <1>2, <2>2 DEF pop, Empty, pop_front
    <3>2. /\ Len(inner) \in Nat /\ Len(inner) > 0 /\ Len(inner') = Len(inner) - 1
          /\ inner' \in Seq(1 .. MaxPush)
          /\ \A n \in 1 .. Len(inner') : inner'[n] = inner[n + 1]
      <4>1. inner \in Seq(1 .. MaxPush)
          BY DEF TypeOK
      <4>2. Len(inner) \in Nat /\ Len(inner) > 0
          BY <2>2, <4>1
      <4>3. Tail(inner) \in Seq(1 .. MaxPush) /\ Len(Tail(inner)) = Len(inner) - 1
          BY <2>2, <4>1
      <4>4. \A n \in 1 .. Len(Tail(inner)) : Tail(inner)[n] = inner[n + 1]
          BY <2>2, <4>1, <4>2
      <4> QED BY <3>1, <4>2, <4>3, <4>4
    <3>3. received' + Len(inner') = pushed'
      <4>1. received + Len(inner) = pushed /\ received \in Nat
          BY DEF TypeOK, InOrderNoLoss
      <4> QED BY <3>1, <3>2, <4>1
    <3>4. received' \in 0 .. MaxPush
        BY <3>1, <3>2, <3>3 DEF TypeOK
    <3>5. TypeOK'
        BY <3>1, <3>2, <3>4 DEF TypeOK
    <3>6. \A n \in 1 .. Len(inner') : inner'[n] = received' + n
        BY <3>1, <3>2 DEF TypeOK, InOrderNoLoss
    <3> QED BY <3>3, <3>5, <3>6 DEF InOrderNoLoss
  <2> QED BY <2>1, <2>2
<1>3. CASE mark_closed
    BY <1>3 DEF mark_closed, TypeOK, InOrderNoLoss
<1>4. CASE notify_waiters
    BY <1>4 DEF notify_waiters, TypeOK, InOrderNoLoss
<1>5. CASE Call \/ Wake \/ Cancel
    BY <1>5 DEF Call, Wake, Cancel, TypeOK, InOrderNoLoss
<1>6. CASE Check
    BY Zenon, <1>6 DEF Check, TypeOK, InOrderNoLoss
<1>7. CASE notified
    BY Zenon, <1>7 DEF notified, TypeOK, InOrderNoLoss
<1>8. CASE UNCHANGED vars
    BY <1>8 DEF vars, TypeOK, InOrderNoLoss
<1> QED BY <1>1, <1>2, <1>3, <1>4, <1>5, <1>6, <1>7, <1>8 DEF Next, ReaderStep

(* The queue's state has its type. *)
THEOREM QueueTypes == Spec => []TypeOK
<1>1. QueueInv => TypeOK
    BY DEF QueueInv
<1> QED BY <1>1, QueueInit, QueueStep, PTL DEF Spec

(* push and pop keep the order of the datagrams, lose none and repeat      *)
(* none, wherever recv is cancelled.                                       *)
THEOREM QueueInOrder == Spec => []InOrderNoLoss
<1>1. QueueInv => InOrderNoLoss
    BY DEF QueueInv
<1> QED BY <1>1, QueueInit, QueueStep, PTL DEF Spec

(* The queue implements DatagramQueue: nothing is taken after mark_closed, *)
(* and recv returns None only on a closed queue.                           *)
THEOREM QueueKeepsPromise == Spec => PromiseSpec
<1>1. Init => Promise!Init
    BY DEF Init, Promise!Init
<1>2. QueueInv /\ [Next]_vars => [Promise!Next]_Promise!vars
  <2> SUFFICES ASSUME QueueInv, [Next]_vars PROVE [Promise!Next]_Promise!vars
      OBVIOUS
  <2> USE DEF Promise!Next, Promise!vars
  <2>1. CASE push
    <3>1. pushed + 1 \in 1 .. MaxPush /\ Promise!Push(pushed + 1)
        BY <2>1, MaxPushAssumption DEF push, HasEntry, QueueInv, TypeOK, Promise!Push
    <3> QED BY <3>1
  <2>2. CASE pop
      BY <2>2 DEF pop, Empty, pop_front, Promise!Take
  <2>3. CASE mark_closed
      BY <2>3 DEF mark_closed, Promise!Close
  <2>4. CASE Check
      BY <2>4 DEF Check, is_closed, Promise!End
  <2>5. CASE notify_waiters \/ Call \/ notified \/ Wake \/ Cancel
      BY <2>5 DEF notify_waiters, Call, notified, Wake, Cancel
  <2>6. CASE UNCHANGED vars
      BY <2>6 DEF vars
  <2> QED BY <2>1, <2>2, <2>3, <2>4, <2>5, <2>6 DEF Next, ReaderStep
<1> QED BY <1>1, <1>2, QueueInit, QueueStep, PTL DEF Spec, PromiseSpec, Promise!Spec
=============================================================================
