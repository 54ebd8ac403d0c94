----------------------------- MODULE PunchRounds ----------------------------
(***************************************************************************)
(* The probe rounds of one process (src/ice/punch_runtime.cpp) and the     *)
(* budget they share (punch_budget.cpp, with the buckets and schedules of  *)
(* punch_scheduler).  Every connection has a runtime of its own, on the    *)
(* main context of its agent: round[r] is its state, shared the budget     *)
(* behind the process-wide mutex.  The negotiation that drives a runtime   *)
(* through its hooks is PunchNegotiation; here its hooks are called when   *)
(* it likes to.  The peer is the arrival of PROBEs and ACKs.               *)
(*                                                                         *)
(* A Tick that sends is several steps, because other runtimes take from    *)
(* the shared budget between its packets: turn counts what is left of its  *)
(* burst, and at is the time it was called with.  Endpoints, target ports  *)
(* and nonces are numbers.                                                 *)
(***************************************************************************)
EXTENDS Integers, Sequences, FiniteSets

CONSTANTS
    Runtimes,       \* the connections of the process
    Pools,          \* those whose plan makes the peer the anchor
    LeaseLimits,    \* how many rounds may be active at a time (2)
    SharedBurst,    \* bucket_(200, 8) of the process
    SharedRate,
    Burst,          \* burst_packets and probe_pps of one round
    Rate,
    PacketLimit,    \* probe_packet_budget
    AckReserve,     \* kAckReserve
    Endpoints,      \* sockets of a pool
    Ports,          \* target_port_count of an anchor
    Passes,         \* pool_probe_rounds
    PassGap,        \* 1000 ms between the passes of a schedule
    PromotedLimit,  \* promoted_endpoint_limit
    MaxAcks,        \* length of acks_ (8)
    Duration,       \* round_duration_ms
    FinishReserve,  \* ice_finish_reserve_ms
    RetrySlack,     \* 1000 ms
    RetryModes,     \* values of retry_enabled_
    Deadline,       \* original_deadline_
    MaxTicks        \* bound on the clock

ASSUME RoundsCounts ==
    /\ {SharedBurst, SharedRate, Burst, Rate, PacketLimit, AckReserve, Endpoints, Ports,
        Passes, PassGap, PromotedLimit, MaxAcks, Duration, FinishReserve, RetrySlack,
        Deadline, MaxTicks} \subseteq Nat
    /\ LeaseLimits \subseteq Nat /\ RetryModes \subseteq BOOLEAN /\ Pools \subseteq Runtimes

VARIABLES round, shared, time
prVars == <<round, shared, time>>

Least(a, b) == IF a <= b THEN a ELSE b
Greatest(a, b) == IF a >= b THEN a ELSE b

(***************************************************************************)
(* Token buckets.  A refill is computed when a token is taken: refilling   *)
(* at every look, as the code does, gives the same tokens.                 *)
(***************************************************************************)
Refilled(b, t, rate, burst) ==
    [tokens |-> Least(burst, b.tokens + (t - b.last) * rate), last |-> t]
Available(b, t, rate, burst) ==
    t >= b.last /\ Refilled(b, t, rate, burst).tokens >= 1
Taken(b, t, rate, burst) ==
    LET f == Refilled(b, t, rate, burst) IN [f EXCEPT !.tokens = @ - 1]

(***************************************************************************)
(* The shared budget: who holds a lease, and who waits for its turn.       *)
(***************************************************************************)
Waiting(r) == \E i \in 1..Len(shared.waiting) : shared.waiting[i].id = r

\* Mutant of Released: the round keeps its place among those that wait.
ReleasedWaiting(s, r) == [s EXCEPT !.active = @ \ {r}]

\* The line after r has left it; r stands in it once at most.
Without(line, r) ==
    LET own == {i \in 1..Len(line) : line[i].id = r}
        place == CHOOSE i \in own : TRUE
    IN  IF own = {} THEN line
        ELSE SubSeq(line, 1, place - 1) \o SubSeq(line, place + 1, Len(line))

Released(s, r) == [s EXCEPT !.active = @ \ {r}, !.waiting = Without(@, r)]

\* r stands in the line once; its newest wish counts.
Queued(line, r, ack) ==
    IF \E i \in 1..Len(line) : line[i].id = r
    THEN [i \in 1..Len(line) |-> IF line[i].id = r THEN [id |-> r, ack |-> ack] ELSE line[i]]
    ELSE Append(line, [id |-> r, ack |-> ack])

\* Whose turn it is: the first ACK, or the first of all.
TurnOf(line) ==
    LET acks == {i \in 1..Len(line) : line[i].ack}
        next == IF acks = {} THEN 1 ELSE CHOOSE i \in acks : \A j \in acks : i <= j
    IN  line[next].id

\* Take: r joins the line and, if it is its turn and there is a token, leaves it.
MayTake(r, ack, t) ==
    /\ TurnOf(Queued(shared.waiting, r, ack)) = r
    /\ Available(shared.bucket, t, SharedRate, SharedBurst)
Queue(r, ack) == [shared EXCEPT !.waiting = Queued(@, r, ack)]
Take(r, ack, t) ==
    [shared EXCEPT !.waiting = Without(@, r),
                   !.bucket = Taken(@, t, SharedRate, SharedBurst)]

-----------------------------------------------------------------------------
(***************************************************************************)
(* Pieces of a runtime.                                                    *)
(***************************************************************************)
NoSchedule == [index |-> 0, pass |-> 0, start |-> -1]
NoDeadlines == [probe |-> 0, finish |-> 0]

IdleRound(retry) ==
    [st |-> "idle", pool |-> FALSE, retry |-> retry, opened |-> 0, promoted |-> {},
     attempt |-> 0, draining |-> FALSE, deadlines |-> NoDeadlines, schedule |-> NoSchedule,
     bucket |-> [tokens |-> 0, last |-> 0], attempts |-> 0, probes |-> 0, acks |-> <<>>,
     outstanding |-> {}, turn |-> 0, at |-> 0]

MakePunchDeadlines(t) ==
    IF Deadline <= t \/ Deadline - t <= FinishReserve THEN NoDeadlines
    ELSE LET probe == t + Least(Duration, Deadline - t - FinishReserve)
         IN  [probe |-> probe, finish |-> Least(Deadline, probe + FinishReserve)]

ProbeLimit == PacketLimit - Least(AckReserve, PacketLimit \div 8)

\* What a schedule goes through: the sockets of a pool several times, the
\* target ports of an anchor once.
Targets(s) == IF s.pool THEN s.opened ELSE Least(Ports, ProbeLimit)
LastPass(s) == IF s.pool THEN Passes ELSE 1
Done(s) == Targets(s) = 0 \/ s.schedule.pass >= LastPass(s)
MayPeek(s) == ~Done(s) /\ s.at >= s.schedule.start

Committed(s) ==
    LET begun == [s.schedule EXCEPT !.start = IF s.schedule.index = 0 THEN s.at ELSE @]
    IN  [s EXCEPT !.schedule =
           IF begun.index + 1 < Targets(s) THEN [begun EXCEPT !.index = @ + 1]
           ELSE [index |-> 0, pass |-> begun.pass + 1,
                 start |-> Greatest(begun.start + PassGap, s.at)]]

Schedule(t) == [index |-> 0, pass |-> 0, start |-> t]

Exhausted(s) == s.attempts >= PacketLimit \/ s.probes >= ProbeLimit

\* Everything Emit asks before it turns to the shared budget.
MayEmit(s, ack) ==
    /\ s.st = "probing" /\ s.at < s.deadlines.finish
    /\ ack \/ (~s.draining /\ s.at < s.deadlines.probe)
    /\ s.attempts < PacketLimit
    /\ ack \/ s.probes < ProbeLimit
    /\ Available(s.bucket, s.at, Rate, Burst)

Emitted(s, ack) ==
    [s EXCEPT !.bucket = Taken(@, s.at, Rate, Burst), !.attempts = @ + 1,
              !.probes = IF ack THEN @ ELSE @ + 1]

\* The backend may refuse to promote a socket.
Promoted(s, e, accepted) ==
    IF s.pool /\ e \notin s.promoted /\ Cardinality(s.promoted) < PromotedLimit /\ accepted
    THEN [s EXCEPT !.promoted = @ \cup {e}]
    ELSE s

\* The loop of a Tick comes to its end, or to the next packet of the burst.
Rests(s) == [s EXCEPT !.turn = 0, !.at = 0]
Turned(s) == IF s.turn = 1 THEN Rests(s) ELSE [s EXCEPT !.turn = @ - 1]

\* Stop closes sockets and forgets the round, and its lease is released; what
\* else is left in a stopped runtime is never looked at again.
Halted == [IdleRound(FALSE) EXCEPT !.st = "stopped"]

-----------------------------------------------------------------------------
(***************************************************************************)
(* The operations of a runtime.  Between two ticks (turn = 0) its context  *)
(* handles whatever comes.                                                 *)
(***************************************************************************)
At(r, st) == round[r].st \in st /\ round[r].turn = 0

RtStop(r) ==
    /\ round' = [round EXCEPT ![r] = Halted]
    /\ shared' = Released(shared, r)
    /\ UNCHANGED time

Becomes(r, s) ==
    /\ round' = [round EXCEPT ![r] = s]
    /\ UNCHANGED <<shared, time>>

\* Prepare fails before it asks for a lease, is refused one, cannot draw its
\* ports with the lease in hand, or succeeds.  The negotiation stops the
\* runtime after every failure.
RtPrepareFails(r) == At(r, {"idle"}) /\ RtStop(r)

\* Mutant of RtPrepare: a failure to draw ports leaves the lease behind.
RtPrepareLeaks(r, drawn) ==
    /\ At(r, {"idle"})
    /\ IF Cardinality(shared.active) >= shared.limit THEN RtStop(r)
       ELSE /\ shared' = [shared EXCEPT !.active = @ \cup {r}]
            /\ round' = [round EXCEPT ![r] = IF r \notin Pools /\ ~drawn THEN Halted
                                             ELSE [@ EXCEPT !.st = "allocating", !.pool = r \in Pools]]
            /\ UNCHANGED time

RtPrepare(r, drawn) ==
    /\ At(r, {"idle"})
    /\ IF Cardinality(shared.active) >= shared.limit \/ (r \notin Pools /\ ~drawn) THEN RtStop(r)
       ELSE /\ shared' = [shared EXCEPT !.active = @ \cup {r}]
            /\ round' = [round EXCEPT ![r].st = "allocating", ![r].pool = r \in Pools]
            /\ UNCHANGED time

\* A batch of sockets is opened, or one of them cannot be.
RtPrepareBatch(r, n) ==
    /\ At(r, {"allocating"}) /\ time < Deadline
    /\ LET s == round[r]
           wanted == IF s.pool THEN Endpoints ELSE 1
           opened == s.opened + n
       IN  /\ opened <= wanted
           /\ Becomes(r, [s EXCEPT !.opened = opened,
                                   !.st = IF opened = wanted THEN "ready" ELSE "allocating"])

RtPrepareBatchFails(r) == At(r, {"allocating"}) /\ RtStop(r)

\* The mapping or the base may have gone (valid); there may be no time left.
RtStart(r, valid) ==
    /\ At(r, {"ready"})
    /\ LET deadlines == MakePunchDeadlines(time)
       IN  IF ~valid \/ deadlines = NoDeadlines THEN RtStop(r)
           ELSE Becomes(r, [round[r] EXCEPT !.st = "probing", !.attempt = 1,
                              !.deadlines = deadlines, !.schedule = Schedule(time),
                              !.bucket = [tokens |-> Burst, last |-> time]])

\* The second attempt, with the sockets of the first.
Retried(s, t) ==
    [s EXCEPT !.attempt = 2, !.attempts = 0, !.probes = 0, !.draining = FALSE,
              !.deadlines = MakePunchDeadlines(t), !.schedule = Schedule(t)]

MayRetry(s, t) ==
    /\ s.retry /\ s.attempt = 1
    /\ Deadline - t >= FinishReserve + RetrySlack
    /\ MakePunchDeadlines(t) # NoDeadlines

\* No new PROBEs; sockets and the ACK sender live on until finish.
Drained(s, t) ==
    IF ~s.draining /\ (t >= s.deadlines.probe \/ Exhausted(s) \/ Done(s))
    THEN [s EXCEPT !.draining = TRUE, !.schedule = NoSchedule]
    ELSE s

Ticking(s, t) == [Drained(s, t) EXCEPT !.turn = Burst, !.at = t]

\* Tick up to the loop that sends.  retriable: the base is alive and the ports
\* of the second attempt could be drawn.
RtTick(r, retriable) ==
    /\ At(r, {"allocating", "ready", "probing"})
    /\ LET s == round[r]
       IN  IF time >= Deadline THEN RtStop(r)
           ELSE /\ s.st = "probing"
                /\ IF time < s.deadlines.finish THEN Becomes(r, Ticking(s, time))
                   ELSE IF retriable /\ MayRetry(s, time)
                   THEN Becomes(r, Ticking(Retried(s, time), time))
                   ELSE RtStop(r)

\* One packet, after local and shared budget have been asked for it; a runtime
\* that is refused by the shared one keeps its place in the line.
Send(r, ack, sent) ==
    LET s == round[r]
    IN  IF ~MayEmit(s, ack) THEN Becomes(r, Rests(s))
        ELSE /\ UNCHANGED time
             /\ IF MayTake(r, ack, s.at)
                THEN round' = [round EXCEPT ![r] = sent] /\ shared' = Take(r, ack, s.at)
                ELSE round' = [round EXCEPT ![r] = Rests(s)] /\ shared' = Queue(r, ack)

\* ACKs go first; a pool promotes the socket it has answered from.
RtSendAck(r, accepted) ==
    LET s == round[r]
        sent == [Emitted(s, TRUE) EXCEPT !.acks = Tail(@)]
    IN  /\ s.turn > 0 /\ s.acks # <<>>
        /\ Send(r, TRUE, Turned(Promoted(sent, Head(s.acks), accepted)))

\* A probe to the next target, unless its socket has been promoted.  An anchor
\* remembers its probes too, but their ACKs promote nothing.
RtSendProbe(r) ==
    LET s == round[r]
        target == s.schedule.index + 1
        sent == [Emitted(s, FALSE) EXCEPT !.outstanding = IF s.pool THEN @ \cup {target} ELSE @]
    IN  /\ s.turn > 0 /\ s.acks = <<>>
        /\ IF s.draining \/ ~MayPeek(s) THEN Becomes(r, Rests(s))
           ELSE IF s.pool /\ target \in s.promoted
           THEN Becomes(r, Turned(Committed(s)))
           ELSE Send(r, FALSE, Turned(Committed(sent)))

\* A PROBE of the peer arrives at socket e, for the first time or again.
RtProbeArrives(r, e) ==
    /\ At(r, {"probing"}) /\ time < round[r].deadlines.finish
    /\ e \in 1..round[r].opened
    /\ Len(round[r].acks) < MaxAcks
    /\ Becomes(r, [round[r] EXCEPT !.acks = Append(@, e)])

\* The ACK of a probe, of either attempt, arrives at the socket it left from.
RtAckArrives(r, target, accepted) ==
    /\ At(r, {"probing"}) /\ time < round[r].deadlines.finish
    /\ target \in round[r].outstanding
    /\ Becomes(r, Promoted([round[r] EXCEPT !.outstanding = @ \ {target}], target, accepted))

\* A direct pair was selected, the interface changed, or the agent goes.
RtGone(r) == At(r, {"idle", "allocating", "ready", "probing"}) /\ RtStop(r)

\* Tick returns at once from a runtime that has stopped.
RtIdle(r) == At(r, {"stopped"}) /\ UNCHANGED prVars

PrClock == time < MaxTicks /\ time' = time + 1 /\ UNCHANGED <<round, shared>>

PrInit ==
    /\ \E retry \in [Runtimes -> RetryModes] : round = [r \in Runtimes |-> IdleRound(retry[r])]
    /\ \E limit \in LeaseLimits :
         shared = [active |-> {}, waiting |-> <<>>, limit |-> limit,
                   bucket |-> [tokens |-> SharedBurst, last |-> 0]]
    /\ time = 0

RtSends(r) == (\E accepted \in BOOLEAN : RtSendAck(r, accepted)) \/ RtSendProbe(r)

RtStep(r) ==
    \/ RtPrepareFails(r) \/ RtPrepareBatchFails(r) \/ RtGone(r)
    \/ \E drawn \in BOOLEAN : RtPrepare(r, drawn)
    \/ \E n \in 1..Endpoints : RtPrepareBatch(r, n)
    \/ \E valid \in BOOLEAN : RtStart(r, valid)
    \/ \E retriable \in BOOLEAN : RtTick(r, retriable)
    \/ RtSends(r) \/ RtIdle(r)
    \/ \E e \in 1..Endpoints : RtProbeArrives(r, e)
    \/ \E target \in 1..Endpoints, accepted \in BOOLEAN :
          RtAckArrives(r, target, accepted)

PrNext == PrClock \/ \E r \in Runtimes : RtStep(r)

\* The timer of each agent keeps ticking, and time passes.
PrFairness ==
    /\ WF_prVars(PrClock)
    /\ \A r \in Runtimes : WF_prVars(\E b \in BOOLEAN : RtTick(r, b)) /\ WF_prVars(RtSends(r))

PrSpec == PrInit /\ [][PrNext]_prVars /\ PrFairness
-----------------------------------------------------------------------------
(***************************************************************************)
(* Properties.                                                             *)
(***************************************************************************)

\* The leases handed out are those of the runtimes that have not ended, of
\* which there are no more than allowed, and nobody else stands in the line:
\* whatever step of a preparation fails, and however a round ends, no lease
\* and no place is left behind that would keep later connections from probing.
LeasesAccountedFor ==
    /\ shared.active = {r \in Runtimes : round[r].st \in {"allocating", "ready", "probing"}}
    /\ Cardinality(shared.active) <= shared.limit
    /\ \A i, j \in 1..Len(shared.waiting) :
         /\ shared.waiting[i].id \in shared.active
         /\ shared.waiting[i].id = shared.waiting[j].id => i = j

\* Who waits for its turn gets it or ends: nobody waits for ever behind a round
\* that has nothing more to send.
WaitersServed == \A r \in Runtimes : Waiting(r) ~> ~Waiting(r)
=============================================================================
