# A TLA+ verification project for MiniRTC

MiniRTC is a C++17 library for real-time media: a WSS signaling client, ICE and
TURN connectivity with its own UDP hole punching, DTLS-SRTP, RTP/RTCP with NACK,
FEC, pacing and congestion control, and wrappers of platform codecs.  This
project models the parts in which several threads, two machines or wrapping
numbers have to agree.  Paths below are relative to `src/src/`.

## 1. The system and its hard parts

| Component | State it keeps | Operations | Interacts with |
|---|---|---|---|
| Signaling client, `ws/ws_client.cpp` | `ws_status_`, `shutdown_`, `running_`, reconnect flags and generation, callback queue, five kinds of threads | Connect, ReConnect, ForceReconnect, Close, handlers of the endpoint, heartbeat | calls back into `PeerConnection` on its callback thread |
| Login and pending join, `pc/peer_connection.cpp`, `pc/reconnect_login.h` | signal status, queued join, reconnect token, cached TURN credentials | Join, Leave, Login, login replies, ICE configuration of new connections | signaling client, connection lifecycle |
| Connection lifecycle, `pc/peer_connection.cpp`, `pc/minirtc_connection.cpp` | map user -> connection, `connected_peers_`, `session_tickets_`, work and cleanup queues | join, offer, leave, disconnect, destroy, status callbacks | signaling thread, ICE worker, libnice threads, application |
| ICE agent and transport, `ice/ice_agent.cpp`, `transport/ice_transport*.cpp` | libnice agent, DTLS handshake, readiness of the media path | state callbacks, handshake, failure, destroy | connection, pacer, congestion control |
| Punch negotiation, `ice/punch_coordinator.cpp` | state, plan, round, pending packet, replay window, budget | Begin, Receive, Tick, Stop | its peer over the selected ICE pair; the runtime through hooks |
| Punch runtime, budget and schedule, `ice/punch_runtime.cpp`, `ice/punch_budget.cpp`, `ice/punch_scheduler.cpp` | sockets, probe schedule, leases and tokens of a budget shared by the process | Prepare, Poll, Start, Tick, Receive, Stop | ICE agent, negotiation, the other runtimes |
| Sending media, `transport/channel/video_channel_send.cpp`, `rtp/rtp_packet/rtp_packet_history.cpp`, `transport/paced_sender/*`, `qos/pacing_controller.cc`, `qos/prioritized_packet_queue.cc` | history of sent packets, pending NACKs, packet queues, debts | send, NACK, retransmit, pause, process | congestion control, RTCP |
| Receiving media, `transport/channel/rtp_video_receiver.cpp`, `qos/nack_requester.cc` | packets and frames in assembly, missing packets, key-frame state | insert, NACK, key-frame request, release | RTCP sender, decoder |
| Delayed-task queue, `common/task_queue.h` | priority queue, stop flag, one worker | Post, ClearTasks, Stop | congestion control, pacer, packet history |
| Congestion control, `qos/*` | estimators | feedback, periodic update | pacer |
| Direct sessions, `pc/direct_peer.cpp`; data channels, `pc/datachannel_connection.cpp` | signals exchanged by the application | start, receive, close | connection lifecycle |
| FEC, `fec/*`; SRTP, `srtp/*`; RTP and RTCP packets, `rtp/*`, `rtcp/*` | per packet or per frame | encode, decode | media |
| Threads and buffers, `thread/thread_base.cpp`, `ringbuffer/*` | worker flags | Start, Stop, Pause | media workers |
| API, codecs, statistics, log, ini | - | forwarding, wrappers | - |

What is hard here: threads that are joined by other threads which they may be
waiting for (signaling client, task queue); checks made under a lock and used
after it (connection lifecycle, video receiver); an agreement of two machines
over datagrams that are lost, repeated and reordered, cut short by budgets and
deadlines (punch, DTLS); 16-bit numbers that wrap while they order maps and
index deques (history, NACK list); work that is handed from thread to thread and
must neither be lost nor done twice (retransmissions, the pacer's process task,
the pending join); resources shared by a process that every way of ending has to
give back (probe leases).  `PROJECT.json` lists these hazards at their lines,
with the properties that cover them.

What makes the components correct:

* punch: both ends probe the same round and plan, only after both reserved their
  sockets; nobody mistakes a retransmission for a conflict; every negotiation
  ends; leases and places in the line are given back; who waits for the shared
  budget is served or ends;
* signaling client: one thread at a time rebuilds the endpoint; a callback of an
  old connection is over before the next one is built; nothing comes back after a
  Shutdown; no click is lost; Close returns and leaves no callback running;
* login: a queued join is sent by the login or cancelled, never forgotten; a
  token is used within its life and once per connection; ICE servers are fresh;
* connection lifecycle: one report of the end per connection, followed by no
  other; nothing waits in a queue nobody reads; what is removed is reported and
  stopped; a transport never joins itself;
* media path: media is ready only on a verified handshake, pacer and congestion
  control agree, a failed transport stays failed, and an undisturbed handshake
  completes;
* sending: the history is a window of packets by number; a packet is
  retransmitted no more often than once per round trip and no NACK is forgotten;
  the tables of the queue agree; the pacer always has its next task on the way;
* receiving: frames are released in order and not before what they refer to; no
  number stays marked as being sent; the list of missing packets stays sortable;
* task queue: no lost wake-up, order per poster, Stop returns.

## 2. Modules

| Module | Models | Run by |
|---|---|---|
| `PunchNegotiation` | two `PunchNegotiation` objects, the channel between them, the clock | `MCPunchNegotiation`; proofs in `PunchNegotiationProofs` |
| `PunchRounds` | the `PunchRuntime`s of one process with `PunchProcessBudget` and the schedules | `MCPunchRounds`; proofs in `PunchRoundsProofs` |
| `WsClient` | `WsClient` and its threads | `MCSignaling`, `MCWsClient`, `MCEndings`; proofs in `SignalingProofs` |
| `SignalLogin` | what `PeerConnection` does with the signaling connection, `ReconnectLogin` | `MCSignaling`; proofs in `SignalingProofs` |
| `PeerConnection` | `PeerConnection` for one remote user, `MiniRtcConnection`'s lifecycle | `MCPeerConnection`, `MCConnection`, `MCEndings`; proofs in `ConnectionProofs` |
| `DtlsTransport` | `IceAgent`'s handshake, `IceTransport`'s readiness and the controller, for two peers | `MCConnection`, `MCTaskQueue`; proofs in `ConnectionProofs` |
| `TaskQueue` | `TaskQueue` with its worker, posters and stopper | `MCTaskQueue`; proofs in `TaskQueueProofs` |
| `SequenceNumbers` | arithmetic on wrapping numbers | extended by the next three |
| `VideoChannelSend` | `RtpPacketHistory` and the retransmissions of `VideoChannelSend` | `MCMediaSend`; proofs in `VideoChannelSendProofs` |
| `NackRequester` | `NackRequester` | `MCVideoReceive`, also extended by `RtpVideoReceiver` |
| `RtpVideoReceiver` | the two threads of `RtpVideoReceiver` | `MCVideoReceive`; proofs, the requester's too, in `RtpVideoReceiverProofs` |
| `PacketStore` | abstract: packets kept under their numbers | refined by `VideoChannelSend` |
| `PacedSender` | `PacedSender`, `PacingController`, `PrioritizedPacketQueue` | `MCMediaSend`; proofs in `PacedSenderProofs` |

The MC modules `MCSignaling`, `MCConnection`, `MCEndings`, `MCMediaSend`,
`MCTaskQueue` and `MCVideoReceive` hold two specifications beside each other: a
variable chosen initially (`part`, or `alone`) says which one moves, and the
other rests in one of its initial states.  No step mixes the two, so what is
shown is shown of each by itself.  Each specification's steps are listed one by
one in the MC module of its main run, because TLC counts how often a disjunct is
taken only then (with `-coverage 1`; every one is).  `MCEndings`, and
`MCTaskQueue` for the handshake, take the whole next-state relation of a
specification that another module lists.  An MC module that needs liveness
restates the fairness of both, each for its part.

### PunchNegotiation

`peer[p]` is a record with the members of the class; the operators named after
methods (`Emit`, `Pending`, `Stop`, `BeginPreparation`, `FinishPreparation`,
`Start`, `OnFirstHello`, ...) map one such record to the next in the order of
the code's assignments, and an action applies one of them.  `net[p]` is the set
of packets `p` ever sent: delivery picks any of them, at any time and any number
of times, so loss, duplication, delay and reordering need no actions of their
own.  A HELLO keeps what the negotiation compares: mapping class, mode, budget
and remaining time.  A digest is a record around its argument, that is, SHA-256
without collisions, and a packet is authentic because only peers put packets in
`net`.  The hooks are choices: `prepare` succeeds or fails, `poll_prepare` takes
as long as it likes, becomes ready or fails, `start` finds the round still valid
or calls Stop, `random_round` draws a round or fails.  Time is counted in units
of 200 ms; the later waits, 400, 800 and 800 ms in the code, are the constant
`Waits`.  Receive's own deadline check
is the action `Expire`.

### PunchRounds

`round[r]` is the state of one connection's runtime, `shared` the budget behind
the process-wide mutex: leases, a token bucket and the line of those it refused.
The hooks of the negotiation are called when it likes to (`RtPrepare`,
`RtPrepareBatch` for its poll, `RtStart`, `RtTick`, `RtGone` for its stop).  A Tick
that sends is several steps, since other runtimes take tokens between its packets.  The peer is the arrival of its PROBEs
and ACKs; every step of a preparation can fail.  Endpoints, ports and nonces are
numbers.

### WsClient

`pc[t]` is the place of a thread: the application, the I/O thread, the
heartbeat, the callback thread and the reconnect workers.  A step is what a
thread does between two points where another can get in.  `reconnect_mtx_` is
held within one step.  `callbacks_->mutex` is too, except in
`InvalidateCallbacks`, where "found the condition false" (`drain`) and "sleeps"
(`asleep`) are two places, because that is where a notification without the
mutex is lost.  The heartbeat's payloads and times, the length of the backoff and
the bytes of the queue are abstracted; the two limits of the queue are kept
(`MessageSlots`, `StatusSlots`; 128 and 144 in the code).

Two assumptions are built into guards.  A backoff, two seconds at least, does
not end while the application is still inside its first `Connect`
(`Initialising`, in `Wake`), and a callback asks for a forced reconnect only after
that `Connect` has returned.  Without them a worker could run `Connect` beside the
application's first one, which needs an application thread that is suspended
for seconds in a function that does not block there.

### SignalLogin

The application thread (`Join`, `Leave`) and the callback thread, which takes one
status or message after the other from `jobs`.  Each handler has one critical
section of `signal_status_mutex_`, and the rest of its state is its own, so it is
one step.  `WsClient` is reduced to what its own module shows: the callbacks of a
connection come in order, and what is still queued is dropped before the next
connection is dialled.  The server is external: it admits, rejects, revokes,
issues tokens and TURN credentials as it likes within their lives.  One identity
logs in.  `WsFailed`, `WsClosed` and `WsServerClosed` are never set by `WsClient`,
so their branches have no action.

### PeerConnection

Connections to one remote user are numbered by generation.  Critical sections
of `peer_connection_map_mutex_` are steps; the report to the application and the
release of a transport, done outside them, are steps of their own (`clearTell`,
`release`, `tellEnd`, ...).  `transport[c]` is the thread of a connection's
transport: absent, idle, or inside the managed callback at one of its places.
References are modelled where the code counts on them: `Owned` is "somebody other
than the callback holds a shared_ptr".  A callback that holds the last one joins its
own thread in `~IceAgent` and gets no further: the transport stays at `selfJoin`,
which `NeverJoinsItself` (run `peer_self_join`) finds.  `told`, `removed` and `confirmed` are
records of what was reported and removed, read by properties only.

### DtlsTransport

Two peers, each with the ICE context (which runs the callbacks of libnice, the
handshake's timer and received datagrams), the thread that adds remote
candidates, the two task queues of pacer and congestion control, and the worker
that destroys the transport.  libnice is the states it signals; OpenSSL is its
four flights, of which each side can repeat its own, and the rule that a finished
peer answers a repeated last flight.  `mode` is what the SDPs negotiated (SRTP, a
direct session, or a punched path with DTLS but without SRTP), `match` whether the
certificates have the announced fingerprints.  Faults (failing writes, a path that
falls back to CONNECTED or is lost, late signals, a teardown) befall one peer,
`upset`, in a run, which keeps the state space within reach.

### VideoChannelSend and PacketStore

The history is a sequence with gaps, as the deque is: a packet's slot is its
distance from the front on `SeqMod` numbers.  The pacer, the history worker, the
RTCP thread, the thread that pauses video and the one that destroys the channel
hand each other work through the two task queues, in order; a NACK is served in
tasks of `MaxNacksPerTask` that post themselves again.  Of a packet only its
number counts and whether it was captured before the last pause.  `PacketStore`
is the promise: a packet is found under its own number or not at all, a copy is
handed out only while none is pending, and packets leave oldest first.  The
refinement mapping takes the filled slots of the history as the set of packets
(`Store == INSTANCE PacketStore WITH ...`, property `StoreImplemented`).

### PacedSender

Every operation is a task of the pacer's queue; the loop of `MaybeProcessPackets`
is one step per turn, since the clock moves on and the owner may shut the pacer
down meanwhile; so is the purge of each stream when video is paused, in any order
of the streams.  `UpdateMediaTransportState` posts one task that may run the loop before
it changes the readiness of the path; it is posted as its two halves, and no delayed
task comes between them.  The packet queue keeps its tables as the class does (streams by
priority, counts per kind, enqueue times corrected by pauses).  Time is counted
in units in which one packet is paced, and packets have one size, so debts are
small integers.

### NackRequester and RtpVideoReceiver

The requester is a record and its methods are operators on it, called under
`nack_mtx_`; the list is a function of sequence numbers and its order is
`AheadOf`.  The reordering histogram is a choice of waits.  The receiver's threads
interleave between the critical sections of its four mutexes.  The stream is
fixed (packets of numbered frames, with first and last marks); the network loses,
reorders and duplicates, packets may be corrupt, FEC restores any packet, sends of
RTCP may fail.  The time windows of `GetFrameRecoveryTiming` are `Timing`.

### TaskQueue

The queue is a set of tasks ordered by `Before`.  The clock is read before the
mutex is taken, and the notification is sent after it is released, so both are
separate steps.  The worker has two different waits, without and with a time
limit, with different exits when the queue is stopped.  Spurious wake-ups are
included and are not relied upon (no fairness).

## 3. Runs

Passing runs:

| Run | Instance | Shows |
|---|---|---|
| `punch_negotiation` | 2 rounds, budget 4, deadlines of 4 and 5 units, waits of one unit, eligible and ineligible answer; 228 000 states | `Agreement`, `ProbeOnlyPrepared`, `NoConflict`, `Terminates`, `HelloWaitsForDeadline` |
| `punch_rounds` | 2 runtimes, a pool and an anchor, 1 or 2 leases, one shared token, with and without retry; 1 000 000 states | `LeasesAccountedFor`, `WaitersServed` |
| `ws_safety` | client: 2 workers, slots 1 and 2, server accepts or refuses, callbacks may close; login: 3 connections, 1 token of life 1 or 2, TURN for 1, with and without adapter; 1 900 000 states | `OneConnector`, `DrainedBeforeConnect`, `NoRevival`, `ClickNotLost`; `PendingJoinKept`, `CredentialUse`, `IceConfigCurrent` |
| `peer_safety` | peer: 2 connections, 2 queued messages, tickets; transport: SRTP with faults at the offer, direct session with faults at the answer, punched path; 2 400 000 states | `OneTerminal`, `CleanupServed`; `MediaIsFounded`, `QueuesAgree`, `FailedIsFinal` |
| `task_queue` | queue: 2 posters, 2 tasks, delays 0 to 2, time up to 2; handshake: every mode, 2 lost datagrams; 225 000 states | `NoLostWakeup`, `SamePosterInOrder`, `TasksRun`, `StopReturns`; `HandshakeCompletes` |
| `endings` | client: server accepts, refuses or closes, only the application closes; peer: 2 connections, 1 queued message; 330 000 states | `CallbacksFinished`, `CloseReturns`, `ReconnectFinishes`; `RemovedIsEnded` |
| `media_send` | channel: 8 numbers from 6 on, history of 2, 3 packets, a NACK of two numbers, 1 pause; pacer: 3 streams, 3 operations, bursts of two packets, time up to 3; 2 900 000 states | `HistoryIsWindow`, `RetransmissionServed`, `RtxSpacing`, `StoreImplemented`; `QueueBooks`, `ProcessTaskOnItsWay`, `LoopBounded`, `PauseCutsExactly` |
| `video_receive` | receiver: 12 numbers, 8 timestamps, a frame of two packets and three of one, both wrap, of which the network loses two that only repairs bring, 3 arrivals, age 3, list of 1; recovery: the same stream with retransmission and without FEC, any one frame the key frame, 5 arrivals; 3 350 000 states | `ReleasedInOrder`, `NoSilentGap`, `SendsAreResolved`, `NackWithinLimits` |

Why the bounds are enough to be interesting.  *Punch*: an exchange without losses
costs the offer four packets (HELLO twice, PREPARE, START), so a budget of 4 is
reached with and without losses, and two rounds are needed for the ends to
disagree on one; with waits of one unit all four sends of a packet fit before the
deadline.  One lease makes a second connection wait; with two, both hold
one and compete for a token that comes once per unit.  *Client*:
`is_reconnecting_` lets one worker run; the second identity is there for the one
that must not start, and for a worker scheduled while its predecessor is about to
end.  Slots 1 and 2 make both limits of the queue reachable.  *Login*: three
connections are a login, a reconnect with the token and one after its rejection
or expiry; a token may outlive a moment or not.  *Peer*: two generations are
needed for one to replace the other, two messages for one of them to reach the
wrong connection.  *Transport*: any flight can be lost, the last one and its
repetition included (`MaxLoss` 2), and one signal and one task may lag behind.
*Task queue*: the worker sleeps for one task while the other is posted earlier.
*Channel*: three packets overflow a history of two and pass the wrap, and two
NACKed numbers need the task that posts itself again.  *Pacer*: two streams of
one priority and one of another, and a clock that overtakes the loop.
*Receiver*: three frames of one packet, so that a later one is complete while
nothing of the one before it is in `pending_frames_`; a frame of two, which can be
incomplete; and a gap of two exceeds the list.  In the recovery five arrivals let
a frame be given up, a frame after it be refused, and a key frame between the two
be repaired late.  Two intervals between
key-frame requests are alike here: no property depends on their length.

Deadlock is checked except in `ws_safety`: there a Close from a callback can hang
(see below), and the connections and the clock of the logins are bounded.  In
`peer_safety`, `task_queue` and `media_send` a transport or pacer that has
nothing left to do may rest.

Violation runs, each with a finding in `PROJECT.json` that quotes the line it
contradicts:

| Run | What the code does |
|---|---|
| `ws_heartbeat_hang` | StopThreads, or Shutdown, joins a heartbeat that RestartPingThread, past its check of `shutdown_`, started after `running_` was cleared; the reconnect, or the Close, waits as long as the server answers pings |
| `peer_late_status` | a status is reported after the end of its connection |
| `peer_self_join` | a transport started for a connection that was just replaced is destroyed, and joined, on its own thread |
| `video_late_fragment` | a fragment that passed the check of its timestamp recreates its frame after the hard timeout discarded it |

Three passing properties leave out what two of these runs show, and nothing else.
`CloseReturns` and `ReconnectFinishes` allow a run that stays for ever at the join of
a heartbeat while `running_` is set (`LateHeartbeat`), and `HeartbeatJoinReturns` says
that there is none; without the exception both are violated.  `RemovedIsEnded` speaks of
the runs in which no transport joins itself.

Fairness.  *Negotiation and rounds*: the agent's 10 ms timer keeps calling Tick,
a Tick that has begun goes on, and time passes; nothing is assumed of delivery.
*WsClient*: every thread that can run does, timed waits end, callbacks return, a
connection attempt ends in one way or the other; nothing is assumed of the
server's acceptance, of clicks or of Close.  *PeerConnection*: weak fairness of
the three threads and of a callback once it has begun; strong fairness of the
steps that wait for a transport's thread, because the release has told that
thread's main loop to quit, which ends it however many callbacks it could still
run.  *DtlsTransport*: what is on its way and not lost is delivered, the
handshake's timer fires, ICE finds its path, the task queues run; the number of
lost datagrams is bounded, since a path that loses everything completes nothing.
*TaskQueue*: time passes, tasks return, threads inside a call go on; nobody has to
post, clear or stop.

### Observations without a run of their own

Each order of steps below is reachable in the models, or was met in the code
while modelling it.

Signaling client:

* A Close from a callback and one from the application wait for each other: one
  holds the right to shut down and drains the callbacks, the other runs inside
  one (`ws_client.cpp:46`).
* `Connect` ends with `SetStatus(WsConnecting)`, which may come after the I/O
  thread's `SetStatus(WsOpened)`; the status then stays `WsConnecting` on an open
  connection until the next reconnect (`ws_client.cpp:443`).
* A failure that `OnFail` reports while the worker that dialled still holds
  `is_reconnecting_` schedules nothing, and no later step does
  (`ws_client.cpp:258`, `:740`).
* After a callback has closed the client, its thread is detached; the
  application's own Close then finds nothing to stop and can return while that
  callback still executes, which the comment at `ws_client.cpp:95` rules out.
  `CallbacksFinished` is therefore checked where only the application closes.
* `Shutdown` notifies `callbacks_->ready` without its mutex (`ws_client.cpp:66`).
  Between the predicate and the sleep of `InvalidateCallbacks` the notification
  is lost; if the Shutdown came from the callback that is being drained, both
  threads wait for ever.
* A full callback queue drops a status without a trace (`ws_client.cpp:215`).

Login:

* `Join` returns 0 after the connection has dropped and before the status
  callback has run; the request is discarded by `Send` and not queued, although
  `api/minirtc.h:688` says that it was sent or queued.  A queued join that an
  accepted login sends after the drop is lost in the same way.
* After a fast reconnect the queued `WsReconnecting` may be gone with the other
  callbacks of the old connection; the status is still Connected and a join goes
  out before the new login.
* A TLS error leaves a pending join pending.

Connection lifecycle:

* A late callback of a replaced connection, which names a user and not a
  generation, confirms the session of its successor
  (`peer_connection.cpp:690`, against the comment at `:1178`; in the model,
  `confirmed = "unfounded"`).
* A join or an offer handled after `Destroy` cleared the map and before it closed
  the websocket creates a connection that nobody removes any more
  (`peer_connection.cpp:626`).
* Work messages name a user, so one queued for a connection can be applied to its
  successor (`peer_connection.cpp:1553`).

Media path:

* `DISCONNECTED` clears `dtls_ready_`, and `StartDtls` does not repeat a
  handshake that is done: such a path stays without media when it comes back.
* A write that fails for a moment during the handshake is fatal.
* A failed key export outside of direct sessions leaves ICE "ready" without
  media and without a report; in a direct session a failed installation of SRTP
  reports "failed" without setting `dtls_failed_`, and later ICE states are still
  reported after it (`FailedIsFinal` speaks of failures of the agent).
* The loops that negotiate a payload type (`ice_transport.cpp`, about 1610 to
  1790) take `substr(0, end)` in every turn and so consider the first offered
  payload type only.

Receiver:

* A complete key frame can be held and discarded at the hard deadline behind
  losses before it.
* After a hard timeout everything is refused until a complete key frame is at the
  front (`rtp_video_receiver.cpp:1086`).  That may be a key frame that was recovered
  late and is older than frames refused meanwhile: the stream goes on after it
  with a frame whose predecessor was refused (`:1074`, `:1090`).  `NoSilentGap`
  therefore does not say that every frame follows the one it refers to; it says
  that a frame that is missing was given up knowingly and a key frame released
  after that.
* `NoSilentGap` leaves out three situations in which the code does not know of a
  gap, named at the property; in each a frame is released in place of another
  that may still come.  One is a race: a packet is retired from the list of missing
  numbers under `nack_mtx_` (`rtp_video_receiver.cpp:458`) and enters
  `pending_frames_` only later, under another lock.  A Process tick in between
  finds no number missing and no older frame pending, releases the next complete
  frame, and drops the repaired one as too old afterwards (`Overtaking`; without
  it in `blind`, TLC finds this with three packets that arrive as 1, 3, 2).
* `recovered_list_` entries can survive a wrap; `extended_high_seq_num_` has 16
  bits, so `cumulative_loss_` jumps at the wrap; duplicates of a complete frame
  that is still pending leave entries in the assembly lists.

Punch rounds: a drained round keeps its place at the head of the shared line and
blocks the probes of others until it ends; `WaitersServed` shows that it does.

## 4. Proofs

All theorems hold for every value of the constants that satisfies the named
assumptions.  Most of these are types of parameters.  Four say more, each what
the code's constants satisfy: a history holds at most half of the sequence
numbers (`CapacityAssumption`), age and length of the list of missing packets
stay together below half of them (`NackAssumption`, which also wants an even
number of numbers), packets carry sequence numbers of the type
(`StreamAssumption`, `NumbersAssumption`; round-trip times are not negative,
`RttAssumption`), and a status slot of the callback
queue is never scarcer than a message slot (`SlotsAssumption`).  `TimingAssumption`
of the receiver is for `NoSilentGap`; no proof uses it.

**`PunchNegotiationProofs`**: `TypeCorrect`, `ProbesOnlyPrepared`, `PeersAgree`,
`NobodyStopsForAConflict`, `HelloIsPatient`.

* `ProbeOnlyPrepared` is not inductive: it says nothing of what is in the
  channel.  `IInv` adds, for each kind of packet ever sent, what its
  existence implies about its sender (a PREPARE carries the offer's plan and
  round, a READY the plan and digest the answer finished preparing, a START that
  the offer had received such a READY), that cached packets are of that kind, and
  that once set, a round and a plan never change.  Each handler then moves the
  peer's knowledge forward from a packet to the sender's state.  `Agreement`
  follows from `ProbeOnlyPrepared` for the two peers.
* `NoConflict` needs the numbering too: `CInv` says that a sequence number names
  one packet among those a peer sent, that the packets recorded in the replay
  window are packets the other end sent, and that a remembered HELLO is one of
  them.  A retransmission is then the packet that was recorded.
* `HelloWaitsForDeadline` is an action property: no handler but the deadline's
  ends a negotiation in Hello for a timeout, since in Hello only a HELLO is
  cached, and `OnTick` goes on waiting after its last retransmission.

**`PunchRoundsProofs`**: `LeasesAreAccountedFor`.  A lease is taken in the step that
leaves "idle" and given back in the one that enters "stopped", so with the types
the property is inductive (`LInv`).  The argument is about the line of those the
budget refused: `Release` takes its caller out of it, which is one gap to close
because nobody stands in the line twice, and `Take` lets somebody join only after
it looked for them.  Nothing limits the number of runtimes.

**`SignalingProofs`**, the client: `TypeCorrect`, `OneConnectorAtATime`,
`CallbacksDrainedBeforeConnect`, `ShutdownIsTerminal`, `ClicksAreNotLost`,
`CallbacksFinishBeforeClose`.

* `OneConnector` rests on `TypeOK /\ Owned /\ AppFirst`: a worker that is
  anywhere between its start and its last step is the only one and
  `is_reconnecting_` is set (`Owned`), and while the application is in its first
  Connect a worker can be at most in its backoff (`AppFirst`).
* `KInv` adds what each place of `StopThreads`, `Connect` and `Shutdown` has
  already settled: which threads are joined (`Down`, `Stages`), that old callbacks
  are over (`Quiet`), who holds the right to shut down (`LockHeld`), that nothing
  runs before the first endpoint exists (`FirstConnect`).  Without these a worker
  could be imagined that builds an endpoint after a Shutdown.
* `ClickNotLost` is an action property, from `Waits`: `reconnect_waiting_` is up
  while a worker is before or in its wait.
* `CallbacksFinished` is proved for clients whose callbacks do not close them
  (`~CallbackCloses`); otherwise it is false, see section 3.

**`SignalingProofs`**, the logins: `PendingJoinIsKept`, `CredentialsAreUsedInTheirLife`,
`IceServersAreCurrent`.  The last two are action properties.  `TokensIssued`: a
token the client keeps, or one in a reply on its way, was issued with an expiry
no earlier than the one kept with it.  `CacheCurrent`: TURN servers of an earlier
login survive only as long as the "opened" that clears them is queued before
every message that could make use of them.

**`ConnectionProofs`**, the lifecycle: `EndIsToldOnce`, `CleanupIsServed`, `EndsAreOwed`.
`OneTerminal` says nothing of the threads that are about to report.  The
invariant adds that at most one thread stands at the report of a connection's end,
that such a connection has been removed and its end was not reported (`OneTeller`),
that what was removed does not come back (`StayOut`), and what a thread's place says
about the connection it works on (`Threading`).  `EndOwed` is the safety half of the
liveness property `RemovedIsEnded`.

**`ConnectionProofs`**, the media path: `MediaPathIsFounded`, `QueuesReachTheDecision`,
`FailureIsFinal`.  The handlers are functions of one peer's record, so the
invariant is one of a record and each handler has a lemma that it keeps it.  Its
heart: the controller holds the path ready exactly while the tracker holds it
usable, a failed agent leaves no usable path, keys are installed only after the
certificate was verified, and the last task in each queue (or, if it is empty, the
last one run) tells what was decided last.

**`VideoChannelSendProofs`**: `HistoryStaysAWindow`, `StoredPacketsAreFound`,
`RetransmissionsAreServed`, `HistoryImplementsStore`, `RetransmissionsAreSpaced`.
The first part is about the deque alone: `Put`, the
removals and the pop of empty slots keep it a window of consecutive numbers
wherever these wrap, which gives the inverse of `GetPacketIndex`.
`RetransmissionServed` then needs, besides that, why a copy that the pacer
discards at a pause leaves no mark: a packet captured before the pause, stored
already or still on its way into the history, is always followed by a task
that clears it (`Cleared`), and `scheduled` is up only while a task is posted or
running (`Nacked`).

* `HistoryImplementsStore` is the refinement of `PacketStore`, for streams of any
  length with RTX.  Packets are put by tasks that run at any later time, so what must
  be known is what they will put: with RTX padding has an SSRC of its own, every
  number of the media SSRC is that of a packet to be stored, and the numbers waiting
  in the tasks carry on, one by one, from the newest stored to the next to be given
  (`Chained`, `Ended`; `InOrder` is the invariant).  Then a put always appends, never
  leaves a hole and never meets its own number, provided that the capacity is less
  than half of the numbers (10001 of 65536 in the code), and every removal takes a
  prefix, which is what leaving oldest first means (`SuffixIsDrop`).
* `RetransmissionsAreSpaced` states `RtxSpacing`.  The time of a retransmission is
  recorded by a task, later than the pacer sends it, so the slot alone does not say when
  its packet was last sent.  `SpInv` says what does: of one number at most one copy
  or result is on its way among the pacer's tasks, its queue and the history
  worker's tasks (`NoneTwice`); a stored packet with something on its way is marked,
  and either its slot has the time of the last retransmission or a later one, or a
  result that will bring it is waiting (`SlotInv`); and a number that is still to be
  stored or given has nothing on its way (`Unused`).  The theorem supposes that at
  most `SeqMod` packets, padding included, are sent (`MaxPackets \in 0..SeqMod`), so that no number is
  given twice: the property is about a number, and it is not a claim about two
  packets that have one number 65536 packets apart.

**`PacedSenderProofs`**: `QueueBooksHold`, `TaskOnItsWay`, `PauseCuts`.  The proof
has three layers.

* The contents of a queue: a packet is counted by the place it stands at (stream,
  level, position) and a unit of waiting time by a place and a number, so that the
  sums of the code are cardinalities and each operation is a bijection: a push adds
  a place, a pop moves those behind it up by one, a purge removes those of a
  stream, and time that passes adds as many units as there are places
  (`PlacesPush`, `PlacesPop`, `PlacesClear`, `UnitsGrow`).  No induction over the
  queue is needed.
* The queue and the pacer: `QInv` adds to the books what makes them inductive: a
  packet stands in the queue of its own stream and a stream that is not in the table
  holds nothing (`Filed`; this is why culling loses no packet), and while streams
  are purged the level served may be stale, but none before it has packets
  (`NoneBefore`), after which `MaybeUpdateTopPrioLevel` finds it again.  `Booked` adds
  the time the pacer stood paused, `Placed` where its task is and that nothing in its
  hands was captured before the pause.  Each task and each turn has a lemma.
* The system, `PsInv`: the pauses that wait end in what the controller wants and none
  is later than the last one asked for (`Pauses`); a path that is reported ready
  without having become so was ready before (`Transports`; without it a task could
  be imagined that resumes the pacer and starts no loop); and the delayed task in
  flight is posted and in time when the pacer is idle (`Awaited`).

**`RtpVideoReceiverProofs`**: `RequestsStayWithinLimits`,
`ReceiverStaysWithinLimits`, `NumbersDoNotStayMarked`, `FramesAreReleasedInOrder`.
`Sound` is the invariant of the requester's record (types, every number within the
age limit behind the newest, no more numbers than the limit); each method has a
lemma that it keeps `Sound` and marks nothing but its batch.  The lemma on
`AddPacketsToNack` counts the numbers between two numbers of the ring against
their distance.  For the receiver `SInv` adds that a thread holds a batch only
between preparing it and recording its result.  `ReleasedInOrder` needs that
`last_complete_frame_ts_` is the last timestamp released.

**`TaskQueueProofs`**: `TypeCorrect`, `WakeupsAreNotLost` and
`PostersAreServedInOrder`.  The inductive invariant adds `Past` (the time for
which an undelayed task was or is being posted is not in the future) and
`InOrder` (undelayed tasks of one poster have times in the order of their
sequence ids, and the next one will be no earlier), because the order of
execution is by time first and only then by sequence id.

Only model-checked, and why:

* liveness (`Terminates`, `WaitersServed`, `CloseReturns`, `ReconnectFinishes`,
  `RemovedIsEnded`, `HandshakeCompletes`, `TasksRun`, `StopReturns`): fairness and
  ENABLED are out of the prover's reach;
* `LoopBounded` of `PacedSender`: how often the loop turns depends on how much the
  clock overtakes it and on the tasks posted, so its bound is one of the run and not
  of the code; a proof for every value of the constants would need a measure that
  falls with each turn, and with it an induction over the loop;
* the refinement of `PacketStore` without RTX, and `RtxSpacing` once numbers are given
  again: there they hold as long as fewer than half of the numbers, or all of them, are
  used while a packet is stored or on its way, which the bounds of the run guarantee
  and no assumption on the constants states (without RTX, padding takes numbers of
  the media SSRC and stores nothing);
* `NoSilentGap`: it holds as long as a frame is given up before the numbers it waits
  for are, by their retries (`TimingAssumption`) or by their age, and the latter
  depends on how many packets arrive within the window of a frame, which only the
  bounds of the runs limit.  Looking for its inductive invariant showed the race
  described in section 3.

## 5. Not modelled, and what is left

`PROJECT.json` gives the reason for each component left out or modelled in part.

* Congestion control (`qos/*`): floating-point estimators; what they decide
  enters the pacer as its rates and its congestion flag.
* FEC, SRTP, RTP and RTCP packets: byte formats and arithmetic on one packet or
  frame, which tests reach better than models; FEC appears in the receiver as
  packets that are restored.
* Of the pacer: the bitrate prober, the draining of large queues, the budgets of
  FEC packets, statistics.  Of the sender: packetizer and sender reports.  Of the
  receiver: receiver reports, jitter, REMB.
* Of ICE: gathering, candidates and SDP, which are libnice's.  Of the controller:
  dispatch of RTP and adaptation of bitrates and resolutions.
* Direct sessions and data-channel connections: variants of the connection
  lifecycle with callbacks of their own.
* `thread_base`, the ring buffer, API, codec wrappers, statistics, log and
  configuration: forwarding, or no logic that a model would reach.

The models cover the concurrent and distributed core and not most lines of the
repository: vendored headers of codecs and GPUs, code derived from WebRTC's
estimators, byte formats and platform wrappers make up the larger part of it.

Left to do: an assumption on how many numbers are used within a lifetime of a
packet, under which `NoSilentGap`, and `RtxSpacing` across the reuse of numbers, could
be proved; then direct sessions, `ThreadBase`, and the probe controller's
states.
