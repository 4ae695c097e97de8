# Verification of way-netstack

TLA+ modules for the concurrent and stateful core of way-netstack, TLC
configurations that check them on small instances, and TLAPS proofs for every
value of the constants.

## The system

way-netstack terminates TCP and UDP in user space on top of smoltcp.

| Part | Source | State |
| --- | --- | --- |
| Core | `core.rs` | one mutex over the interface slots (smoltcp interface, device, socket set, pool of idle TCP sockets), the session manager and `buffer_bytes`; two `Notify` objects |
| Session manager | `session/manager.rs`, `session/types.rs` | TCP table, UDP table, shared UDP socket and reference count per (interface, destination) |
| UDP receive queue | `session/manager.rs` | deque with its own lock, `Notify`, atomic closed flag |
| Runner | `runner.rs` | a task: wait, drain ingress, poll, forward egress and accepted sessions |
| Sessions | `stream/tcp.rs`, `stream/udp.rs` | objects held by the application; both have a `Drop` that works on the tables |
| Handle | `handle.rs` | bounded ingress channel, unbounded accept channel |
| Device | `device/virtual_device.rs` | two packet queues per interface |
| Builder | `builder.rs` | limits, initial state, channels |
| Proxy example | `examples/tun_proxy.rs` | one main task over a TUN device, its routes, a relay task per session |
| Errors, ids, logging, allocator tuning | `error.rs`, `lib.rs`, `log.rs`, `builder.rs` | none of their own |

Packets enter through `send_ip_packet`. The runner moves them into the devices,
lets `pre_pass` allocate a socket and an entry for every new flow, lets smoltcp
process them, and in `post_pass` turns established connections into streams,
distributes datagrams to sessions, and reclaims what is finished. Application
tasks take the same mutex for single calls on their sessions, at any time the
runner does not hold it. UDP sessions read from their queue without the mutex.

## Modules

| Module | Models |
| --- | --- |
| `Core` | socket sets, TCP pool, buffer budget, configuration |
| `TcpStateMachine` | the smoltcp TCP socket as a state machine, with its handshake and its close |
| `TcpSessions` | TCP table, streams, reaping |
| `UdpSessions` | UDP table, shared sockets, session objects |
| `Runner` | composes the three with the poll cycle, arriving packets and the application; all table properties |
| `MCRunner` | packet sets and symmetry for TLC |
| `UdpQueue` | the receive queue between the writer and a task in `recv`, step by step |
| `DatagramQueue` | what the queue promises: a FIFO that is closed once; `UdpQueue` implements it |
| `PollLoop` | the loop of `run`, its signals and channels, and senders waiting for buffer space |
| `TcpStream` | extends `PollLoop` and `TcpStateMachine` with the data path of one stream: the calls of `WayTcpStream`, its wakers, buffers and peer |
| `Pipe` | what one direction of a connection promises; `TcpStream` implements it twice |
| `TunProxy` | extends `PollLoop` with the main task and the relays of the proxy example |
| `TcpProofs`, `UdpProofs`, `CycleProofs`, `RunnerProofs` | proofs about `Runner`: its two tables, one poll cycle, and the theorems |
| `UdpQueueProofs`, `PollLoopProofs`, `TcpStreamProofs`, `TunProxyProofs` | proofs about the modules they are named after |

Definitions keep the names of the functions they model. A definition `X_how`
just before `X` is a faulty form of `X` (a dropped guard, an off-by-one, a
missing update); each property has one that violates it.

### Correspondence with the code

*Runner.* `phase` says where the runner is in `poll_once`. In every phase but
`unlocked` it holds the core mutex, so the actions of the application that need
the mutex have `phase = "unlocked"` as a guard, and `Recv` has none. Loops over
packets, entries and datagrams are one step per element. The order of hash map
iteration is left open; the order of slots and of packets in a queue is kept.
The slots' TCP sockets and UDP sockets are two functions, `tsock` and `usock`,
over one space of handles; a lookup in the wrong one is the panic of
`SocketSet::get_mut`. `released` is `released_total`.

*smoltcp* is not in the repository. Its TCP socket is modelled by state, peer and
how much of SYN+ACK and FIN has been sent, as far as `runner.rs` and `tcp.rs` look
at it; its UDP socket by the origins of received datagrams and the number of
datagrams to send. A segment goes to the first socket that accepts it. Sequence
numbers, windows, payload and retransmission are left out. TIME-WAIT may end at
any poll. UDP buffers are full when their packet slots are. The byte limit can be
reached earlier, with the same effect: a datagram is dropped, or a send waits for
the next poll. One case is different, a payload larger than the whole transmit
ring: `enqueue` refuses it even when the buffer is empty, and `send` takes that for
a full buffer and retries for ever. `PollLoop` has such sends (`oversize`). In
`Runner` an attempt that finds the buffer full changes nothing, whatever the
reason. A received datagram always fits, since a ring is at least one MTU long. Of
a UDP socket's `accepts` the model has the case of unicast destinations: smoltcp
waives the comparison of addresses for others (broadcast), so `OwnTrafficOnly`
is about unicast.

*Packets* are what `parse_l4` extracts. `ok` tells whether the checksums are
right: `pre_pass` ignores them and allocates, smoltcp then discards the packet.
Packets that `parse_l4` rejects have no effect on the tables and are left out. So
are the failures of `listen` and `bind`: they need port 0, which smoltcp's
parsers refuse, or a pooled socket that is not closed.

*Time* is the age of a UDP entry in ticks, capped one above the timeout.

*Session objects* are named by small numbers. `queue_ingress` does not accept more
packets than there are names left; this bounds the model only.

*UdpQueue.* The writer is whoever holds the core mutex. Push and notify are two
steps, as are pop, look at the flag, and creation of the `Notified` future.
`notify_waiters` wakes futures that exist and stores no permit. Cancelling `recv`
at its await is an action.

*PollLoop.* A poll is one step here (its inside is `Runner`): it empties the
transmit buffer, answers some packets and opens sessions for others. Everything
around it is in single steps: computing the delay, creating the futures of the
select, its branches in their order, draining, waiting for egress, handing over
sessions, `notify_poll_done`. A send is `try_send`, `notify_poll`, creation of the
`poll_done` future, retry; it fails when its session was reaped. Tasks send as
often as they like, datagrams that fit the buffer or not. `accept` takes a
session from the accept channel, and dropping the handle drops what is left there,
which notifies the runner. Calls on streams notify it too; those are steps of
`TcpStream` and `TunProxy` and not of `PollLoop` alone.

*TcpStream.* One stream from the moment it is exposed. Bytes are counted, not
kept: `rcvd`, `read`, `written`, `acked` are positions in the two directions. A
call holds the core mutex until it returns or is about to call `notify_poll`,
which is the next step of the same task, so that the runner's select may begin or
end in between. `poll_read` and `poll_write` have their three outcomes each (data,
end or error, registered and pending), and a pending future may be dropped.
Buffers passed to them are not empty. `PollStream` refines the `Poll` of
`PollLoop`: it processes the newest of the queued packets (TCP's numbers are
cumulative), sends some or all of what waits, wakes the wakers and reaps a closed
orphan. The peer sends within its window, acknowledges, may close and may reset
until both sides have closed. A packet that meets a full ingress channel is not
sent, which leaves loss and retransmission to the two TCP ends. Data flows in one
direction per behaviour (`load`): the two directions share only the state of the
socket, and the calls that change it, shutdown and drop, happen in both. The
application keeps its `NetstackHandle` and egress receiver here, so that the runner
does not stop: data left in a stream when it does is not covered.

*TunProxy.* `main` is the main task between its awaits: adding the routes, the
select, the await on the device inside its egress branch, deleting the routes,
and three ends (`Ok`, an error through `?`, the panic of `expect`). `relay` is a
task per session. A relay that ends drops its session, which notifies the runner;
after `abort_all` it does so at the await it is in. A reply is read into `TUN_MTU`
bytes and so fits the transmit buffer. The bytes a relay copies belong to
`TcpStream` and `UdpQueue`.

## Runs that pass

| Run | Instance | Shows |
| --- | --- | --- |
| `Runner_udp` | 2 applications, 2 destinations, 2 entries, 3 session objects, batches of 2; 680 k states | handles valid, counts and budget exact, sessions and entries one to one, own traffic only, closed is final, waiting replies kept |
| `Runner_tcp` | 2 applications, 1 destination, all segment kinds, pool of 1; 1.03 M states | stream handles valid, streams served, TCP lifecycle |
| `Runner_mixed` | 2 interfaces, TCP and UDP, wrong checksums, budget for one of each; 268 k states | ownership across socket types, budget; what a cycle leaves and that its loops shrink their work; mutex released, idle sessions and closed orphans reclaimed |
| `UdpQueue` | 4 datagrams; 657 states | order, no loss, refinement of `DatagramQueue`; a loop of calls receives everything and sees the end, but for one window |
| `PollLoop` | 2 tasks that send without end, all capacities 1; 156 k states | sessions handed over, sends complete unless starved, packets polled, stop with the handle |
| `TcpStream` | 1 byte in or 2 out, buffers of 1 byte, channels of 1 packet; 217 k states | no lost wakeup, both directions implement `Pipe`, nothing reaped before it was delivered, written data delivered, waits end, the window reopens |
| `TunProxy` | 2 sessions, 2 packets, all capacities 1; 72 k states | routes in pairs, main and runner never waiting for each other, sessions relayed, replies taken unless starved |

The bounds are the smallest in which the cases meet: two users of a shared socket
and a second destination; a reaped session object beside a live one for the same
5-tuple and a third; tables, pool, budget, buffers and channels that are full and
empty; two packets in one batch (the last handshake segment and a FIN, two new
flows for one free entry). Applications are interchangeable, so the larger runs
use symmetry in `Src`; the run with liveness properties does not. With
buffers of one byte, one byte in closes the window, which reading it has to reopen,
and a second byte out has to wait for the first to be acknowledged; one channel
slot makes every party wait for every other. Every run checks for deadlock
except those of `PollLoop`, `TcpStream` and `TunProxy`, where the runner, the
connection and the program may come to an end.

### Fairness

* `Runner`: the runner keeps taking steps. Its select ends at the latest after an
  hour, and a cycle has no wait in it except for egress room between cycles, so
  this assumes an application that reads egress. Time advances although cycles
  keep interrupting it (strong fairness). Nothing is assumed of packets or of the
  application's calls.
* `UdpQueue`: the runtime runs ready tasks and the writer finishes its call.
  `LoopSpec` adds an application that calls `recv` again until it returns `None`,
  as `relay_udp` of the proxy and `echo_udp` of the load generator do. Cancelling a
  call is possible at any time and never assumed: no consumer in the repository
  retries after a timeout.
* `PollLoop`: ready tasks run, sleeps end (the hour too), egress is read. Nothing
  is assumed of packets, new sends or drops, and no order among the senders that
  `poll_done` wakes together.
* `TcpStream`: the same, and the peer acknowledges what it receives, as TCP does.
  Nothing is assumed of new calls, of data or of the close. Each condition is
  stated over the variables its own steps change.
* `TunProxy`: ready tasks run and the TUN device takes what is written to it.
  `tokio::select!` without `biased` picks at random among the ready branches, so
  one that is ready again and again is taken (strong fairness of `EgressRecv` and
  `Accept`). Nothing is assumed of packets, of the relays' remote ends or of
  Ctrl-C.

Three of the properties name what these assumptions leave open, and hold for
everything else. `EventuallyReceived` and `EventuallyEnded` except a notification
that falls between `recv`'s look at the queue or the flag and the creation of its
future: it wakes nobody, and a datagram stays in the queue until the next push,
close or cancellation, a close for ever (`Recv_close`). `SendCompletes`, and
`RepliesTaken` for the proxy, except a sender that starves because others take the
room again and again; a send that fits is stuck for good in no other way, however
many oversize sends retry beside it. That it may be stuck for an hour is what
`Sender_stranded` shows. `StopsWithHandle` excepts a runner that finds itself
notified at every select, since the select is biased. `WrittenDelivered` and
`WindowReopens` hold in the same way: `poll_write` and a `poll_read` that returns
data notify nobody, so on an idle connection it may be the end of the one-hour
sleep that sends the bytes or the window update.

## Runs that show a disagreement

Each checks one sentence of the documentation, a comment or a message.

| Run | Sentence | What happens |
| --- | --- | --- |
| `Handshake_exposed` | `manager.rs:60-62`: Pending until the handshake completes, then exposed | handshake and FIN in one poll leave the socket in CloseWait; the entry stays Pending with socket and budget, and no stream exists that could be dropped |
| `Src_addr` | `tcp.rs:48`: address of the application the stream is connected to | after a reset in the handshake the socket listens again and takes another application's SYN |
| `Stale_drop` | `udp.rs:83`: `None` once reaped or dropped | dropping a reaped session closes a newer one with the same 5-tuple |
| `Recv_close` | `manager.rs:20`: `None` instead of waiting forever | a close between the look at the flag and the registration is missed; so is the wakeup of a push |
| `Sender_stranded` | `udp.rs:114-116`: the runner spins, `poll_done` is guaranteed | zero delay arms the one-hour sleep, and wakeups before the select are lost |

More were noticed while modelling and have no run. `builder.rs:225` calls
`max_buffer_bytes` a hard cap on all buffer memory, but reaping a TCP socket into
the pool releases its bytes from the budget while the socket keeps its buffers,
and `runner.rs:304-322` charges one ring for a UDP socket that allocates two.
`BudgetExact` is about charges: `buffer_bytes` is what the sockets in use were
charged, not the memory they take. `send` with a payload larger than the transmit
ring never returns. `recv` may return `None` with a datagram in the queue, pushed
after its look at the queue and before the close; it comes out with the next call.
The repository's `README.md:248` says that a second connection to the same
destination is reset, but the code gives each SYN a socket of its own and serves
both, and so does the model. A SYN beyond
`tcp_max_connections` stays in the device queue and smoltcp resets it, while
`builder.rs:167` says that it is not rejected. A datagram accepted by `send` is lost
when the last session of its destination is dropped before the next poll. The
lost wakeup of `Sender_stranded` can also leave an accepted datagram waiting while
the runner sleeps. The proxy example panics, and leaves its routes installed, when
the ingress channel is full (`DevRecvFull`). Finally
`runner.rs:170` logs that the runner is stopping when the egress receiver is gone,
but only `poll_once` returns.

## What is proved

The theorems hold for all interfaces, endpoints, handles, limits and sizes, under
the named assumptions (`CoreAssumption`, `SidAssumption`, `PacketAssumption`,
`NoPeerAssumption`, `MaxPushAssumption`, `PollLoopAssumption`,
`StreamAssumption`): types of the constants, and that the special values are
none of the ordinary ones. No fairness is used.

`RunnerProofs` proves `Spec => []IInv`, and from it `TypeOK`,
`NoDanglingHandle`, `SocketsOwned`, `RefCountExact`, `BudgetExact`,
`TablesBounded`, `OpenSessionsServed`, `OwnTrafficOnly`, `StreamsServed`, and the
action properties `TcpLifecycle`, `ClosedIsFinal`, `RepliesKept`,
`CycleReclaims` and `CycleAdvances`. The invariants are not inductive one by one,
since each relies on others:

* a handle stays valid only because its entry is removed together with the
  socket, which for UDP happens when the count says so; so validity needs the
  exact count, and the exact count needs that all entries of a destination use
  the socket the destination names;
* a stale drop goes through the table by key; it is harmless to the counts only
  because entry, queue and session object correspond one to one;
* the budget equals a sum over two tables, which must be finite, and over
  `released`, which must be zero outside `post_pass`;
* TCP and UDP sockets share handles, so an allocation on one side needs that the
  two sides are disjoint.

`IInv` is the conjunction: `TcpInv` (`TcpProofs`: types, and sockets, entries and
streams in correspondence), `UdpInv` (`UdpProofs`: the tables `UdpTables` and the
session objects `SessionInv`), `Disjoint`, `Budget` and `RunnerTypes`. The proof
that a step preserves it has one lemma per operation on the table it changes, and
one step per action of `Next` that combines them.

The two properties of a poll cycle rest on `CycleProofs`. `CycleReclaims` is about
the last step of a cycle only, so it needs an invariant over the cycle,
`CycleInv`: what an earlier part has done (packets delivered, datagrams emitted,
orphans reaped, datagrams passed on) still holds in the later parts, because
nothing that could undo it runs while the mutex is held. That every UDP socket
belongs to a destination, a part of `IInv`, makes the redistribution reach all of
them. `CycleAdvances` gives each loop of the cycle its variant: a step of the
runner begins the next part or strictly shrinks a queue, a table or a receive
buffer, and `recv`, the only call without the mutex, touches none of them. This
is the safety half of `MutexReleased`, for tables and batches of any size.

`UdpQueueProofs` proves `TypeOK` and `InOrderNoLoss` together (the type of the
buffer's contents follows from their order), and from them that `UdpQueue`
implements `DatagramQueue`, step by step, for any number of datagrams.

`PollLoopProofs` proves `TypeOK` and `NoSessionLost` for any number of senders and
any capacities. The invariant `HandedOver` adds that, outside the part of `poll_once`
that sends its results on, no session is left in the scratch vector that the next
cycle clears.

`TcpStreamProofs` proves `StreamTypeOK`, `NoLostWakeup` and the two refinements
`InboundPipe` and `OutboundPipe`, for any buffer size, channel capacity and amount
of data. Its `IInv` adds three things to the types and to `NoLostWakeup`.
`InOrder` and `OutOrder` chain the positions of each direction: what was read is
within what was received, that within what the peer sent, that within the window
it was told; acknowledged, received by the peer, sent and written likewise.
They also say why an end is justified: a socket that receives nothing more has
everything or is broken, and a FIN that left closed the way behind all the data.
`SockInv` relates the socket's state to what it has sent. A waker is needed only
by a task that has nothing to do, so `NoLostWakeup` is inductive only together
with the facts on which events change that: every step that adds data, frees room
or changes the state wakes, and the end of TIME-WAIT, which does not, finds nobody
waiting, because a socket in TIME-WAIT reports the end.

It also proves `ReapedAfterDelivery`: the socket of a dropped stream is reaped
only when the peer has all that was written, and the end, or has reset the
connection. The step to it, `ReapInv`, follows the FIN backwards: a socket that
reached `Closed` without a reset has had its FIN acknowledged, and the peer
acknowledges a FIN only together with everything before it.

`TunProxyProofs` proves about the proxy, for any capacities, number of relays and
packets: `RoutesTornDown`, and that main holds the handle and the egress receiver
as long as the process lives, so that the runner does not stop under it and no
accepted session is lost (`ProxyServesOn`). That main and the runner do not wait
for each other is a liveness property, `RunnerUnblocked`, and model-checked only.
The invariant `TunInv` extends those of `PollLoopProofs` by the routes that are installed at
each place of main, that the injecting call is main's, and that only a relay
that is running sends.

Every invariant and every action property that a passing run checks is proved.
Only model-checked: the liveness properties, since temporal proofs under fairness
and `ENABLED` are out of the prover's reach; and the five disagreements, which a
counterexample settles.

## Not modelled

* The bytes of packets: parsing, checksums, addresses, routes, MTU. A packet in
  the model is what the parser leaves of it.
* Loss, reordering and retransmission of TCP segments: both ends are TCP
  implementations outside the repository. The channels between them keep order.
* Reads and writes with an empty buffer, which `poll_read` and `poll_write` answer
  by waiting.
* Clock adjustments: `last_activity` is wall-clock time in the code; the model's
  clock only advances.
* A composition of `PollLoop` with the tables of `Runner`: the product is out of
  TLC's reach, and the two meet only in the effect of a poll, which `PollLoop`
  leaves open.
* Errors, interface ids, logging and allocator options: they have no state that
  the rest depends on. The load generator `stress_test.rs` repeats at scale what
  the modules do one by one.
