------------------------------ MODULE UdpQueue ------------------------------
(***************************************************************************)
(* UdpQueue between the thread that holds the core mutex (the runner, or   *)
(* the drop of a session with the same key) and a task inside              *)
(* WayUdpSession::recv.  The queue has its own lock and an atomic flag, so *)
(* the two interleave: a push and its notify are separate steps, and so    *)
(* are recv's pop, its look at the flag, and the creation of the Notified  *)
(* future it awaits.                                                       *)
(*                                                                         *)
(* Notify::notify_waiters wakes the futures that exist at that moment and  *)
(* leaves nothing behind for later ones.                                   *)
(*                                                                         *)
(* Datagrams are numbered in the order they are pushed.                    *)
(*                                                                         *)
(* A definition X_how placed just before X is a faulty form of X, against  *)
(* which the strength of a property is tested; nothing uses it.            *)
(***************************************************************************)
EXTENDS Integers, Sequences

CONSTANT MaxPush   \* bound on the datagrams pushed

ASSUME MaxPushAssumption == MaxPush \in Nat

VARIABLES
    inner,      \* UdpQueue::inner
    closed,     \* UdpQueue::closed
    writer,     \* the thread with the core mutex: "free", or about to "notify"
    reader,     \* recv: "idle", or at "pop", "check", "register", "wait"
    woken,      \* the reader's Notified future has been notified
    pushed,     \* number of datagrams pushed
    received,   \* number of datagrams returned by recv
    ended       \* some recv has returned None

vars == <<inner, closed, writer, reader, woken, pushed, received, ended>>

TypeOK ==
    /\ inner \in Seq(1 .. MaxPush)
    /\ {closed, woken, ended} \subseteq BOOLEAN
    /\ writer \in {"free", "notify"}
    /\ reader \in {"idle", "pop", "check", "register", "wait"}
    /\ {pushed, received} \subseteq 0 .. MaxPush

Init ==
    /\ inner = <<>> /\ closed = FALSE
    /\ writer = "free" /\ reader = "idle" /\ woken = FALSE
    /\ pushed = 0 /\ received = 0 /\ ended = FALSE

(***************************************************************************)
(* The writer.  An entry is removed in the same critical section that      *)
(* closes its queue, so nothing is pushed after the close.                 *)
(***************************************************************************)
HasEntry_when_closed == TRUE

HasEntry == ~ closed

push ==
    /\ writer = "free" /\ writer' = "notify"
    /\ HasEntry /\ pushed < MaxPush
    /\ inner' = Append(inner, pushed + 1) /\ pushed' = pushed + 1
    /\ UNCHANGED <<closed, reader, woken, received, ended>>

(* mark_closed leaves the datagrams where they are. *)
mark_closed ==
    /\ writer = "free" /\ writer' = "notify"
    /\ HasEntry /\ closed' = TRUE
    /\ UNCHANGED <<inner, reader, woken, pushed, received, ended>>

notify_waiters ==
    /\ writer = "notify" /\ writer' = "free"
    /\ woken' = (woken \/ reader = "wait")
    /\ UNCHANGED <<inner, closed, reader, pushed, received, ended>>

(***************************************************************************)
(* The reader.                                                             *)
(***************************************************************************)
Call ==
    /\ reader = "idle" /\ reader' = "pop"
    /\ UNCHANGED <<inner, closed, writer, woken, pushed, received, ended>>

pop_front_newest == SubSeq(inner, 1, Len(inner) - 1)

pop_front == Tail(inner)

Empty_once_closed == inner = <<>> \/ closed

Empty == inner = <<>>

pop ==
    /\ reader = "pop"
    /\ \/ Empty /\ reader' = "check" /\ UNCHANGED <<inner, received>>
       \/ ~ Empty /\ reader' = "idle" /\ inner' = pop_front /\ received' = received + 1
    /\ UNCHANGED <<closed, writer, woken, pushed, ended>>

is_closed_inverted == ~ closed

is_closed == closed

Check ==
    /\ reader = "check"
    /\ \/ is_closed /\ reader' = "idle" /\ ended' = TRUE
       \/ ~ is_closed /\ reader' = "register" /\ UNCHANGED ended
    /\ UNCHANGED <<inner, closed, writer, woken, pushed, received>>

(* The Notified future is created, and from here on sees notifications. *)
notified ==
    /\ reader = "register" /\ reader' = "wait" /\ woken' = FALSE
    /\ UNCHANGED <<inner, closed, writer, pushed, received, ended>>

(* The future completes, and the loop starts over. *)
Wake ==
    /\ reader = "wait" /\ woken /\ reader' = "pop"
    /\ UNCHANGED <<inner, closed, writer, woken, pushed, received, ended>>

(* The application drops the future at its only await: on a timeout, or    *)
(* when another branch of its select is ready.                             *)
Cancel ==
    /\ reader = "wait" /\ reader' = "idle"
    /\ UNCHANGED <<inner, closed, writer, woken, pushed, received, ended>>

ReaderStep == pop \/ Check \/ notified \/ Wake

Next == push \/ mark_closed \/ notify_waiters \/ Call \/ ReaderStep \/ Cancel

Spec == Init /\ [][Next]_vars

(* The runtime runs ready tasks, and the mutex holder finishes its call. *)
Scheduling == WF_vars(notify_waiters) /\ WF_vars(ReaderStep)

FairSpec == Spec /\ Scheduling

(* An application that calls recv again until it returns None, as the      *)
(* relay loops of the examples do.  It may cancel a call, but need not.    *)
CallAgain == ~ ended /\ Call

LoopSpec == FairSpec /\ WF_vars(CallAgain)

(***************************************************************************)
(* Properties.                                                             *)
(***************************************************************************)

(* push and pop keep the order of the datagrams and neither lose nor       *)
(* repeat one, under every interleaving and wherever recv is cancelled:    *)
(* the buffer holds the numbers after those received, up to the last       *)
(* pushed.                                                                 *)
InOrderNoLoss ==
    /\ received + Len(inner) = pushed
    /\ \A n \in 1 .. Len(inner) : inner[n] = received + n

Promise == INSTANCE DatagramQueue WITH Datagram <- 1 .. MaxPush, buffer <- inner

(* The queue implements its promise: it takes nothing after mark_closed,   *)
(* and recv returns None only when the queue was closed.                   *)
PromiseSpec == Promise!Spec

(* The reader has not looked at the queue since it last started over, or a *)
(* notification has reached its future, or is about to.                    *)
WillLook ==
    \/ reader \in {"idle", "pop"}
    \/ reader = "wait" /\ (woken \/ writer = "notify")

(* recv called in a loop, with or without cancellations, receives every    *)
(* datagram pushed, those pushed before a close included, with one         *)
(* exception: a notification that falls between recv's look at the queue   *)
(* and the creation of its future wakes nobody, and the datagrams stay     *)
(* until the next notification or cancellation ...                         *)
EventuallyReceived ==
    \A n \in 1 .. MaxPush : pushed >= n /\ ~ ended /\ WillLook ~> received >= n

(* ... and a closed queue makes such a loop end with None, unless its      *)
(* notification falls between recv's look at the flag and that creation.   *)
EventuallyEnded == closed /\ (WillLook \/ reader = "check") ~> ended

(* manager.rs: closing the queue makes recv return None instead of waiting *)
(* forever.  Every recv under way when the queue is closed returns.        *)
CloseEndsRecv == closed /\ reader # "idle" ~> reader = "idle"
=============================================================================
