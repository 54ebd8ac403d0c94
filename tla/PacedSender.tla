----------------------------- MODULE PacedSender -----------------------------
(***************************************************************************)
(* The pacer: PacedSender, which runs on its task queue, its               *)
(* PacingController and the PrioritizedPacketQueue.                        *)
(*                                                                         *)
(* Every operation is a task: other threads post it and the task queue     *)
(* runs it, in the order of posting.  A task may start the loop of         *)
(* MaybeProcessPackets, whose turns are steps of their own because the     *)
(* clock moves on and the owner may shut the pacer down meanwhile; it ends *)
(* by posting the delayed task that will go on.  The task that pauses      *)
(* video first purges one stream after the other.                          *)
(*                                                                         *)
(* Time is counted in units in which one packet is paced; a packet has one *)
(* size.  The queue is the bounded one (drain_large_queues off), early     *)
(* execution is shorter than a unit, and nothing is probed.                *)
(***************************************************************************)
EXTENDS Integers, Sequences, FiniteSetsExt

CONSTANTS
    Ssrcs,          \* the streams
    Sources,        \* what may be sent: records [ssrc, kind, key]
    KeepAlive,      \* kCongestedPacketInterval = kPausedProcessInterval
    Burst,          \* send_burst_interval_, not more than kMaxBurstSize takes
    MaxDebt,        \* kMaxDebtInTime
    MaxElapsed,     \* kMaxElapsedTime
    Replay,         \* kMaxPaddingReplayDuration
    CullAfter,      \* kTimeout of Push
    PadSsrc,        \* the stream padding is sent on
    MaxWall,       \* bound on time
    SlowFrom,       \* the clock overtakes the loop only from this time on
    MaxPosted,      \* bound on the tasks waiting
    MaxOps          \* bound on the tasks posted

ASSUME PacerAssumption ==
    /\ PadSsrc \in Ssrcs
    /\ Sources \subseteq [ssrc : Ssrcs, kind : {"audio", "rtx", "video"}, key : {"delta", "first", "rest"}]
    /\ {KeepAlive, Burst, MaxDebt, MaxElapsed, Replay, CullAfter} \subseteq Nat

VARIABLES
    pacer,      \* PacedSender, with its PacingController
    wall,       \* the clock
    posted,     \* the tasks of the task queue that are due
    delayed,    \* its delayed tasks: the process times they carry
    ops,        \* tasks posted so far
    wanted      \* the controller's video_send_paused_, and the time it was last set

psVars == <<pacer, wall, posted, delayed, ops, wanted>>

None == -1      \* Timestamp::MinusInfinity()

-----------------------------------------------------------------------------
(* PrioritizedPacketQueue *)

Levels == 0..4

VideoSsrcs == {src.ssrc : src \in {x \in Sources : x.kind # "audio"}} \cup {PadSsrc}

GetPriorityForType(kind) ==
    CASE kind = "audio" -> 0 [] kind = "rtx" -> 1 [] kind = "video" -> 3 [] kind = "padding" -> 4

IsKey(pkt) == pkt.key # "delta"

NoPackets == [l \in Levels |-> <<>>]
NewStream(now) == [here |-> TRUE, made |-> now, keys |-> 0, at |-> NoPackets]
NoStream == [here |-> FALSE, made |-> 0, keys |-> 0, at |-> NoPackets]

NewQueue ==
    [streams |-> [s \in Ssrcs |-> NoStream], byPrio |-> [l \in Levels |-> <<>>], top |-> -1,
     size |-> 0, timeSum |-> 0, pauseSum |-> 0, updated |-> 0, paused |-> FALSE, culled |-> 0]

UpdateAverageQueueTime(q, now) ==
    IF q.paused THEN [q EXCEPT !.pauseSum = @ + (now - q.updated), !.updated = now]
    ELSE [q EXCEPT !.timeSum = @ + (now - q.updated) * q.size, !.updated = now]

SetPauseState(q, paused, now) == [UpdateAverageQueueTime(q, now) EXCEPT !.paused = paused]

Cull(q, now) ==
    IF now - q.culled <= CullAfter THEN q
    ELSE [q EXCEPT !.culled = now,
                   !.streams = [s \in Ssrcs |->
                       IF @[s].here /\ @[s].at = NoPackets /\ @[s].made + CullAfter < now
                       THEN NoStream ELSE @[s]]]

Push(q, pkt, now) ==
    LET l == GetPriorityForType(pkt.kind)
        u == UpdateAverageQueueTime(q, now)
        s == IF q.streams[pkt.ssrc].here THEN q.streams[pkt.ssrc] ELSE NewStream(now)
        t == [s EXCEPT !.at[l] = Append(@, [pkt EXCEPT !.at = now - u.pauseSum]),
                       !.keys = IF IsKey(pkt) THEN @ + 1 ELSE @]
    IN Cull([u EXCEPT !.streams[pkt.ssrc] = t,
                      !.byPrio[l] = IF s.at[l] = <<>> THEN Append(@, pkt.ssrc) ELSE @,
                      !.top = IF @ < 0 \/ l < @ THEN l ELSE @,
                      !.size = @ + 1], now)

\* What DequeuePacketInternal takes from the sum of the waiting times.
TimeInNonPausedState(q, pkt) == q.updated - pkt.at - q.pauseSum

MaybeUpdateTopPrioLevel(q) ==
    IF q.top # -1 /\ q.byPrio[q.top] # <<>> THEN q
    ELSE [q EXCEPT !.top = IF q.size = 0 THEN -1 ELSE Min({l \in Levels : q.byPrio[l] # <<>>})]

NextPacket(q) == LET l == q.top IN Head(q.streams[Head(q.byPrio[l])].at[l])

Pop(q) ==
    LET l == q.top
        pkt == NextPacket(q)
        s == pkt.ssrc
        rest == Tail(q.streams[s].at[l])
        left == [q.streams[s] EXCEPT !.at[l] = rest, !.keys = IF IsKey(pkt) THEN @ - 1 ELSE @]
        t == [q EXCEPT !.streams[s] = left,
                       !.size = @ - 1,
                       !.timeSum = @ - TimeInNonPausedState(q, pkt),
                       !.byPrio[l] = IF rest = <<>> THEN Tail(@) ELSE Append(Tail(@), s)]
    IN IF rest = <<>> THEN MaybeUpdateTopPrioLevel(t) ELSE t

\* The places of the packets of some streams, and the units of time they waited.
Slots(q, streams) ==
    UNION {UNION {{<<s, l, i>> : i \in 1..Len(q.streams[s].at[l])} : l \in Levels} : s \in streams}

PacketAt(q, x) == q.streams[x[1]].at[x[2]][x[3]]

Waited(q, streams) ==
    UNION {{<<x, t>> : t \in 1..TimeInNonPausedState(q, PacketAt(q, x))} : x \in Slots(q, streams)}

\* The round robin of a level after s, which stands in it once, was filtered out.
Without(line, s) ==
    LET place == CHOOSE i \in 1..Len(line) : line[i] = s
    IN SubSeq(line, 1, place - 1) \o SubSeq(line, place + 1, Len(line))

\* mutant: the stream stays in the round-robin tables
RemovePacketsForSsrcListed(q, s) ==
    IF ~q.streams[s].here THEN MaybeUpdateTopPrioLevel(q)
    ELSE MaybeUpdateTopPrioLevel(
        [q EXCEPT !.streams[s] = [@ EXCEPT !.at = NoPackets, !.keys = 0],
                  !.size = @ - Cardinality(Slots(q, {s})),
                  !.timeSum = @ - Cardinality(Waited(q, {s}))])

RemovePacketsForSsrc(q, s) ==
    IF ~q.streams[s].here THEN MaybeUpdateTopPrioLevel(q)
    ELSE MaybeUpdateTopPrioLevel(
        [q EXCEPT !.streams[s] = [@ EXCEPT !.at = NoPackets, !.keys = 0],
                  !.size = @ - Cardinality(Slots(q, {s})),
                  !.timeSum = @ - Cardinality(Waited(q, {s})),
                  !.byPrio = [l \in Levels |-> IF q.streams[s].at[l] = <<>> THEN @[l]
                                               ELSE Without(@[l], s)]])

Leading(q, kind) ==
    LET l == GetPriorityForType(kind)
    IN IF q.byPrio[l] = <<>> THEN {} ELSE {Head(q.streams[Head(q.byPrio[l])].at[l]).at}

\* NextUnpacedSendTime: when audio, or else a retransmission, was enqueued.
NextUnpacedSendTime(q) ==
    IF Leading(q, "audio") # {} THEN Leading(q, "audio") ELSE Leading(q, "rtx")

-----------------------------------------------------------------------------
(* PacingController *)

Least(a, b) == IF a < b THEN a ELSE b
Most(a, b)  == IF a > b THEN a ELSE b

UpdateBudgetWithElapsedTime(p, delta) ==
    [p EXCEPT !.debt = @ - Least(@, delta),
              !.padDebt = IF p.padRate THEN @ - Least(@, delta) ELSE @]

UpdatePaddingBudget(p) ==
    [p EXCEPT !.padDebt = IF p.padRate THEN Least(@ + 1, MaxDebt) ELSE 0]

UpdateBudgetWithSentData(p) ==
    UpdatePaddingBudget([p EXCEPT !.debt = Least(@ + 1, MaxDebt)])

\* UpdateTimeAndGetElapsed, and the budget it pays for.
Elapse(p, now) ==
    IF now < p.processed THEN p
    ELSE UpdateBudgetWithElapsedTime([p EXCEPT !.processed = now],
                                     Least(now - p.processed, MaxElapsed))

NextSendTime(p) ==
    IF p.paused THEN p.sent + KeepAlive
    ELSE IF NextUnpacedSendTime(p.q) # {} THEN Min(NextUnpacedSendTime(p.q))
    ELSE IF p.congested \/ ~p.seen THEN p.sent + KeepAlive
    ELSE Least(p.sent + KeepAlive,
               IF p.q.size > 0 THEN p.processed + (IF Burst > p.debt THEN 0 ELSE p.debt)
               ELSE IF p.padRate THEN p.processed + Most(p.debt, p.padDebt)
               ELSE p.processed + KeepAlive)

\* A key frame's first packet, when no key frame waits, replaces what waits.
Flush(p, pkt) ==
    IF pkt.kind = "video" /\ pkt.key = "first" /\ p.q.streams[pkt.ssrc].keys = 0
    THEN [p EXCEPT !.q = RemovePacketsForSsrc(@, pkt.ssrc)] ELSE p

EnqueuePacket(p, pkt, now) ==
    LET f == Flush(p, pkt)
        g == IF f.q.size = 0 THEN Elapse(f, Least(now, NextSendTime(f))) ELSE f
    IN [g EXCEPT !.q = Push(@, pkt, now), !.seen = TRUE]

Resume(p, now) ==
    [p EXCEPT !.processed = IF p.paused THEN now ELSE @, !.paused = FALSE,
              !.q = SetPauseState(@, FALSE, now)]

Pause(p, now) == [p EXCEPT !.paused = TRUE, !.q = SetPauseState(@, TRUE, now)]

\* Padding is made unless the pacer is shut down, video paused or no stream has any.
CanPad(p) == ~p.shutdown /\ ~p.videoPaused
PaddingPacket(now) == [ssrc |-> PadSsrc, kind |-> "padding", key |-> "delta", cap |-> now, at |-> 0]

\* mutant: a keep-alive that could not be made does not count as sent
KeepaliveNot(p, now) ==
    IF now - p.sent < KeepAlive \/ ~p.seen \/ ~CanPad(p) THEN p
    ELSE [UpdateBudgetWithSentData(p) EXCEPT !.sent = now]

Keepalive(p, now) ==
    IF now - p.sent < KeepAlive THEN p
    ELSE [(IF p.seen /\ CanPad(p) THEN UpdateBudgetWithSentData(p) ELSE p)
              EXCEPT !.sent = now]

\* ProcessPackets up to its sending loop; return is where it goes on.
ProcessPackets(p, now) ==
    LET k == Keepalive(p, now)
        target == NextSendTime(k)
    IN IF k.paused THEN [k EXCEPT !.at = "test"]
       ELSE IF now < target THEN [Elapse(k, now) EXCEPT !.at = "test"]
       ELSE [Elapse(k, target) EXCEPT !.at = "send", !.target = target]

\* GetPendingPacket has one; a burst being set, it may be sent early.
HasPending(p) == p.q.size > 0 /\ (NextUnpacedSendTime(p.q) = {} => ~p.congested)

OnPacketSent(p, pkt, now) ==
    [(IF pkt.kind = "audio" THEN p ELSE UpdateBudgetWithSentData(p)) EXCEPT !.sent = now]

\* PacedSender::ShouldDropVideoPacket
DropsVideoPacket(p, pkt) ==
    pkt.kind # "audio" /\ (p.videoPaused \/ (p.pauseTime # None /\ pkt.cap <= p.pauseTime))

\* A turn of the sending loop that has a packet.
SendPacket(p, now) ==
    LET pkt == NextPacket(p.q)
        drop == p.shutdown \/ DropsVideoPacket(p, pkt)
        s == OnPacketSent([p EXCEPT !.q = Pop(@), !.out = IF drop THEN <<>> ELSE <<pkt>>], pkt, now)
        target == NextSendTime(s)
    IN IF target > now THEN [s EXCEPT !.at = "test", !.target = 0]
       ELSE [Elapse(s, target) EXCEPT !.target = target]

\* ... and one that has none: padding, if it is time for some.
AddPadding(p, now) ==
    LET t == IF now - p.target > Replay
             THEN [p EXCEPT !.target = now - Replay, !.processed = Most(@, now - Replay)] ELSE p
    IN IF t.q.size > 0 \/ t.congested \/ ~t.padRate \/ t.padDebt # 0 THEN [t EXCEPT !.at = "test", !.target = 0]
       ELSE IF CanPad(t) THEN EnqueuePacket(t, PaddingPacket(now), now)
       ELSE [UpdatePaddingBudget(t) EXCEPT !.at = "test", !.target = 0]

-----------------------------------------------------------------------------
(* PacedSender: its tasks *)

\* MaybeProcessPackets up to its loop.
MaybeProcessPackets(p, now) ==
    IF p.shutdown \/ ~p.started \/ ~p.ready THEN p
    ELSE [p EXCEPT !.at = "test", !.now = now, !.turns = 0]

SetAllowProbeWithoutMediaPacket(p, now) == MaybeProcessPackets(p, now)

SetTransportReady(p, ready, now) ==
    IF ready THEN Resume([p EXCEPT !.ready = TRUE], now)
    ELSE [Pause([p EXCEPT !.ready = FALSE], now) EXCEPT !.next = None]

\* The rest of UpdateMediaTransportState's task, once the loop that
\* SetAllowProbeWithoutMediaPacket may run has ended; EnsureStarted only when the
\* path became ready.
OnTransport(p, task, now) ==
    LET r == SetTransportReady(p, task.on, now)
    IN IF task.on /\ task.rises THEN MaybeProcessPackets([r EXCEPT !.started = TRUE], now) ELSE r

SetCongested(p, task, now) ==
    MaybeProcessPackets(
        [(IF p.congested /\ ~task.on THEN Elapse(p, now) ELSE p) EXCEPT !.congested = task.on], now)

SetPacingRates(p, task, now) == MaybeProcessPackets([p EXCEPT !.padRate = task.on], now)

\* mutant: the pause takes effect when the task runs
SetVideoPausedNow(p, task, now) ==
    IF p.videoPaused = task.on THEN p
    ELSE IF task.on THEN [p EXCEPT !.videoPaused = TRUE, !.pauseTime = now,
                                   !.at = "purge", !.left = VideoSsrcs]
    ELSE MaybeProcessPackets([p EXCEPT !.videoPaused = FALSE], now)

SetVideoPaused(p, task, now) ==
    IF p.videoPaused = task.on THEN p
    ELSE IF task.on THEN [p EXCEPT !.videoPaused = TRUE, !.pauseTime = task.time,
                                   !.at = "purge", !.left = VideoSsrcs]
    ELSE MaybeProcessPackets([p EXCEPT !.videoPaused = FALSE], now)

\* A turn of its loop over the video streams, and after the last the loop to send.
Purge(p, s, now) ==
    LET r == [p EXCEPT !.q = RemovePacketsForSsrc(@, s), !.left = @ \ {s}]
    IN IF r.left # {} THEN r ELSE MaybeProcessPackets([r EXCEPT !.at = "idle"], now)

EnqueuePackets(p, task, now) ==
    MaybeProcessPackets(
        IF DropsVideoPacket(p, task.pkt) THEN p ELSE EnqueuePacket(p, task.pkt, now), now)

Perform(p, task, now) ==
    CASE task.op = "packet"    -> EnqueuePackets(p, task, now)
      [] task.op = "probes"    -> SetAllowProbeWithoutMediaPacket(p, now)
      [] task.op = "transport" -> OnTransport(p, task, now)
      [] task.op = "congested" -> SetCongested(p, task, now)
      [] task.op = "rates"     -> SetPacingRates(p, task, now)
      [] task.op = "pause"     -> SetVideoPaused(p, task, now)

-----------------------------------------------------------------------------
(* The steps of the task queue. *)

PacerIdle == pacer.at = "idle"

RunPosted ==
    /\ PacerIdle /\ posted # <<>>
    /\ pacer' = IF pacer.shutdown THEN pacer ELSE Perform([pacer EXCEPT !.out = <<>>], Head(posted), wall)
    /\ posted' = Tail(posted)
    /\ UNCHANGED <<wall, delayed, ops, wanted>>

\* A delayed task that is no longer the one in flight does nothing.  None comes
\* between the two halves of UpdateMediaTransportState's task.
RunDelayed ==
    \E t \in delayed :
        /\ PacerIdle /\ t <= wall
        /\ posted # <<>> => Head(posted).op # "transport"
        /\ delayed' = delayed \ {t}
        /\ pacer' = IF t # pacer.next \/ ~pacer.ready \/ pacer.shutdown THEN pacer
                    ELSE MaybeProcessPackets([pacer EXCEPT !.next = None], wall)
        /\ UNCHANGED <<wall, posted, ops, wanted>>

PurgeTurn ==
    /\ pacer.at = "purge"
    /\ \E s \in pacer.left : pacer' = Purge(pacer, s, wall)
    /\ UNCHANGED <<wall, posted, delayed, ops, wanted>>

\* The loop of MaybeProcessPackets: a turn of it ...
LoopTurn ==
    /\ pacer.at = "test" /\ ~pacer.shutdown /\ NextSendTime(pacer) <= pacer.now
    /\ pacer' = [ProcessPackets(pacer, wall) EXCEPT !.out = <<>>, !.turns = @ + 1]
    /\ UNCHANGED <<wall, posted, delayed, ops, wanted>>

\* ... a turn of the loop in ProcessPackets, which keeps its reading of the clock ...
SendTurn ==
    /\ pacer.at = "send"
    /\ pacer' = IF HasPending(pacer) THEN SendPacket(pacer, wall)
                ELSE [AddPadding(pacer, wall) EXCEPT !.out = <<>>]
    /\ UNCHANGED <<wall, posted, delayed, ops, wanted>>

\* mutant: a delayed task in flight is not replaced by an earlier one
LoopEndsKeeps ==
    /\ pacer.at = "test" /\ (pacer.shutdown \/ NextSendTime(pacer) > pacer.now)
    /\ LET time == Most(NextSendTime(pacer), pacer.now + 1)
           schedule == ~pacer.shutdown /\ (pacer.next = None)
       IN /\ pacer' = [pacer EXCEPT !.at = "idle", !.now = 0, !.turns = 0, !.out = <<>>,
                                   !.next = IF schedule THEN time ELSE @]
          /\ delayed' = IF schedule THEN delayed \cup {time} ELSE delayed
    /\ UNCHANGED <<wall, posted, ops, wanted>>

\* ... and its end: the next delayed task, which retires a later one in flight.
LoopEnds ==
    /\ pacer.at = "test" /\ (pacer.shutdown \/ NextSendTime(pacer) > pacer.now)
    /\ LET time == Most(NextSendTime(pacer), pacer.now + 1)
           schedule == ~pacer.shutdown /\ (pacer.next = None \/ pacer.next > time)
       IN /\ pacer' = [pacer EXCEPT !.at = "idle", !.now = 0, !.turns = 0, !.out = <<>>,
                                   !.next = IF schedule THEN time ELSE @]
          /\ delayed' = IF schedule THEN delayed \cup {time} ELSE delayed
    /\ UNCHANGED <<wall, posted, ops, wanted>>

-----------------------------------------------------------------------------
(* The threads that post. *)

Post(task) ==
    /\ Len(posted) < MaxPosted /\ ops < MaxOps /\ ~pacer.shutdown
    /\ posted' = Append(posted, task)
    /\ ops' = ops + 1
    /\ UNCHANGED <<pacer, wall, delayed>>

\* A frame's packets carry the time of its capture, retransmissions an earlier one.
PostPacket ==
    \E src \in Sources, cap \in 0..wall :
        /\ src.kind = "rtx" \/ cap = wall
        /\ Post([op |-> "packet", pkt |-> [ssrc |-> src.ssrc, kind |-> src.kind, key |-> src.key,
                                           cap |-> cap, at |-> 0]])
        /\ UNCHANGED wanted

\* The places in the task queue of one kind of task, and the readiness posted last.
Posted(op) == {i \in 1..Len(posted) : posted[i].op = op}
Ready ==
    IF Posted("transport") = {} THEN pacer.ready
    ELSE \E i \in Posted("transport") : posted[i].on /\ \A j \in Posted("transport") : j <= i

\* UpdateMediaTransportState: one task, posted as its two halves, since the first
\* may run the loop and the second goes on after it.
PostTransport ==
    \E on \in BOOLEAN :
        /\ Len(posted) < MaxPosted /\ ops < MaxOps /\ ~pacer.shutdown
        /\ posted' = posted \o <<[op |-> "probes"],
                                 [op |-> "transport", on |-> on, rises |-> on /\ ~Ready]>>
        /\ ops' = ops + 1
        /\ UNCHANGED <<pacer, wall, delayed, wanted>>

\* Congestion control reports changes (a value that is repeated only runs the loop).
PostCongested ==
    /\ Posted("congested") = {}
    /\ Post([op |-> "congested", on |-> ~pacer.congested]) /\ UNCHANGED wanted
PostRates ==
    /\ Posted("rates") = {}
    /\ Post([op |-> "rates", on |-> ~pacer.padRate]) /\ UNCHANGED wanted

\* IceTransportController::SetVideoSendPaused
PostPause ==
    /\ Post([op |-> "pause", on |-> ~wanted.paused, time |-> wall])
    /\ wanted' = [paused |-> ~wanted.paused, time |-> IF wanted.paused THEN wanted.time ELSE wall]

\* Shut down between two tasks, the pacer just runs no other.
Shutdown ==
    /\ ~pacer.shutdown /\ ~PacerIdle
    /\ pacer' = [pacer EXCEPT !.shutdown = TRUE, !.out = <<>>]
    /\ UNCHANGED <<wall, posted, delayed, ops, wanted>>

PsPassTime ==
    /\ wall < MaxWall /\ ~pacer.shutdown
    /\ PacerIdle \/ (pacer.at = "test" /\ wall >= SlowFrom)
    /\ wall' = wall + 1
    /\ pacer' = [pacer EXCEPT !.out = <<>>, !.stood = IF pacer.paused THEN @ + 1 ELSE @]
    /\ UNCHANGED <<posted, delayed, ops, wanted>>

NewPacer ==
    [q |-> NewQueue, paused |-> FALSE, congested |-> FALSE, seen |-> FALSE, debt |-> 0,
     padDebt |-> 0, padRate |-> FALSE, processed |-> 0, sent |-> 0,
     ready |-> FALSE, started |-> FALSE, shutdown |-> FALSE, next |-> None,
     videoPaused |-> FALSE, pauseTime |-> None,
     \* where its task is; its locals; for the properties, what it sent and how long it stood
     at |-> "idle", now |-> 0, target |-> 0, left |-> {}, turns |-> 0, out |-> <<>>, stood |-> 0]

\* The path has just become ready for the first time; the first half of its task
\* finds a pacer that was not started.
PsInit ==
    /\ pacer = NewPacer
    /\ wall = 0 /\ posted = <<[op |-> "transport", on |-> TRUE, rises |-> TRUE]>> /\ delayed = {} /\ ops = 0
    /\ wanted = [paused |-> FALSE, time |-> None]

PsNext ==
    \/ RunPosted \/ RunDelayed \/ PurgeTurn \/ LoopTurn \/ SendTurn \/ LoopEnds
    \/ PostPacket \/ PostTransport \/ PostCongested \/ PostRates \/ PostPause
    \/ Shutdown \/ PsPassTime

PsSpec == PsInit /\ [][PsNext]_psVars

-----------------------------------------------------------------------------
\* The books of the queue agree with what is in it, over any sequence of pushes,
\* pauses, flushes and culls: a stream stands once in the round robin of each
\* level at which it has packets, a stream that was culled in none, the level
\* served is the first that has any, a stream's count of key frame packets, on
\* which flushing depends, is true, no packet has waited less than no time, and
\* the sum from which the average time in the queue is taken is what its packets
\* have waited, less the time the pacer stood paused.
QueueBooks ==
    LET q == pacer.q
        Holds(s, l) == q.streams[s].at[l] # <<>>
    IN /\ \A l \in Levels : /\ IsInjective(q.byPrio[l])
                            /\ Range(q.byPrio[l]) = {s \in Ssrcs : Holds(s, l)}
       /\ q.size = Cardinality(Slots(q, Ssrcs))
       /\ q.top = IF q.size = 0 THEN -1 ELSE Min({l \in Levels : \E s \in Ssrcs : Holds(s, l)})
       /\ \A s \in Ssrcs :
            q.streams[s].keys = Cardinality({x \in Slots(q, {s}) : IsKey(PacketAt(q, x))})
       /\ \A x \in Slots(q, Ssrcs) : TimeInNonPausedState(q, PacketAt(q, x)) >= 0
       /\ q.timeSum = Cardinality(Waited(q, Ssrcs))
       /\ q.pauseSum + (IF q.paused THEN wall - q.updated ELSE 0) = pacer.stood

\* As long as the pacer is started and its path ready, the task in flight exists
\* and is not later than the pacer wants to send: it never falls asleep.
ProcessTaskOnItsWay ==
    PacerIdle /\ pacer.started /\ pacer.ready /\ ~pacer.shutdown =>
        /\ pacer.next \in delayed
        /\ pacer.next <= Most(NextSendTime(pacer), wall + 1)

\* The loop of MaybeProcessPackets does not spin: what it may send ends it.
LoopBounded == pacer.turns <= MaxOps + 3

\* Video is cut exactly at the time of the pause that was asked for: nothing
\* captured up to then leaves once the pause has been carried out, and what is
\* captured after it and posted after the resumption is not dropped, however
\* late the pacer ran those tasks.
PauseCutsExactly ==
    [][/\ \A pkt \in Range(pacer'.out) :
            pkt.kind # "audio" /\ pacer.pauseTime # None => pkt.cap > pacer.pauseTime
       /\ posted # <<>> /\ posted' = Tail(posted) /\ Head(posted).op = "packet"
            /\ ~pacer.shutdown /\ ~wanted.paused /\ Posted("pause") = {}
            /\ Head(posted).pkt.cap > wanted.time
          => pacer'.q.size > 0]_psVars
=============================================================================
