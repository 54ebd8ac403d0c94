-------------------------- MODULE VideoChannelSend --------------------------
(***************************************************************************)
(* Retransmission at the sender: VideoChannelSend                          *)
(* (src/transport/channel/video_channel_send.cpp) with the RtpPacketHistory*)
(* it keeps, and the part of PacedSender that retransmissions go through.  *)
(*                                                                         *)
(* Threads: the pacer (a task queue that also sends), the history worker   *)
(* (a task queue of one thread), the thread that receives RTCP, the API    *)
(* thread that pauses video, the thread that destroys the channel.  What   *)
(* one thread gives another goes through a task queue, in order.           *)
(*                                                                         *)
(* Of a packet only its media sequence number matters, and whether it was  *)
(* captured before the last pause: epoch counts the pauses before capture. *)
(***************************************************************************)
EXTENDS Integers, Sequences, FiniteSets, SequenceNumbers

CONSTANTS
    SeqMod,             \* number of sequence numbers (2^16)
    MaxCapacity,        \* kMaxCapacity
    MaxNacksPerTask,    \* kMaxNacksPerTask
    MinDuration,        \* kMinPacketDuration
    DurationRtts,       \* kMinPacketDurationRtt
    CullingFactor,      \* kPacketCullingDelayFactor
    DefaultRtt,         \* rtt_ of a new history
    Rtts,               \* round-trip times receiver reports tell
    NackBatches,        \* the sets of numbers a NACK of the receiver may name
    FirstSeqs,          \* where ssrc_seq_ may stand when an empty history begins
    MaxPackets,         \* bound on the media packets sent
    MaxPauses,          \* bound on the calls that pause video
    MaxBacklog,         \* bound on a task queue's length for tasks to be added
    MaxClock            \* bound on the clock

VARIABLES
    clock,
    rtt,            \* rtt_ of the history
    rtxEnabled,     \* rtx_enabled_
    nextSeq,        \* ssrc_seq_ of the media SSRC
    sentCount,      \* media packets sent so far
    history,        \* packet_history_
    tasks,          \* task_queue_history_
    worker,         \* the history worker: idle, or the NACKs it is resending
    pendingNacks,   \* pending_nack_sequence_numbers_
    scheduled,      \* nack_task_scheduled_
    nacker,         \* the RTCP thread: idle, or about to post the NACK task
    pacerTasks,     \* task_queue_pacer_
    rtxQueue,       \* the retransmissions in the pacer's packet queue
    videoPaused,    \* video_send_paused_ of the pacer
    pauses,         \* number of pauses the pacer has seen (video_pause_time_)
    apiPaused,      \* video_send_paused_ of the controller
    apiPauses,      \* number of calls that paused
    stage,          \* how far Destroy has got
    lastRtx         \* when a packet was last retransmitted, MaxClock + 1 if never

vcsVars == <<clock, rtt, rtxEnabled, nextSeq, sentCount, history, tasks, worker, pendingNacks,
             scheduled, nacker, pacerTasks, rtxQueue, videoPaused, pauses, apiPaused,
             apiPauses, stage, lastRtx>>

SeqNums == 0..(SeqMod - 1)

\* The history holds at most half of the numbers: 10001 of 2^16.
ASSUME CapacityAssumption ==
    /\ MaxCapacity \in Nat \ {0} /\ SeqMod \in Nat
    /\ 2 * MaxCapacity <= SeqMod
\* OnRttUpdate drops a time that is not positive.
ASSUME RttAssumption == DefaultRtt \in Nat /\ Rtts \subseteq Nat
ASSUME NumbersAssumption == FirstSeqs \subseteq SeqNums /\ NackBatches \subseteq SUBSET SeqNums

Never   == MaxClock + 1
Stages  == {"run", "pacer down", "shutdown", "cleared", "stopped"}

history_shutdown == stage \in {"shutdown", "cleared", "stopped"}

\* StoredPacket; a slot of the deque without a packet is not held.
Slot(s, e) == [held |-> TRUE, seq |-> s, epoch |-> e, pending |-> FALSE,
               resent |-> FALSE, at |-> clock]
Hole == [held |-> FALSE, seq |-> 0, epoch |-> 0, pending |-> FALSE, resent |-> FALSE, at |-> 0]

-----------------------------------------------------------------------------
(***************************************************************************)
(* RtpPacketHistory.                                                       *)
(***************************************************************************)
\* The deque from its i-th slot on; RemovePacket(0) repeated.
From(h, i) == SubSeq(h, i, Len(h))

\* Drops what precedes the first slot that is held and satisfies Keep.
FromFirst(h, Keep(_)) ==
    LET kept == {i \in 1..Len(h) : h[i].held /\ Keep(i)}
    IN  IF kept = {} THEN <<>> ELSE From(h, CHOOSE i \in kept : \A j \in kept : i <= j)

PacketDuration(r) == IF DurationRtts * r > MinDuration THEN DurationRtts * r ELSE MinDuration

\* Mutant of Dead: a packet that waits in the pacer keeps the whole history.
DeadUnlessPending(h, i, r) ==
    LET size == Len(h) - i + 1
        age  == clock - h[i].at
    IN  /\ ~h[i].pending
        /\ \/ size > MaxCapacity
           \/ /\ age >= PacketDuration(r)
              /\ size >= MaxCapacity \/ age >= CullingFactor * PacketDuration(r)

\* Whether RemoveDeadPackets removes the i-th slot once it is at the front.
Dead(h, i, r) ==
    LET size == Len(h) - i + 1
        age  == clock - h[i].at
    IN  \/ size > MaxCapacity
        \/ /\ ~h[i].pending
           /\ age >= PacketDuration(r)
           /\ size >= MaxCapacity \/ age >= CullingFactor * PacketDuration(r)

RemoveDeadPackets(h, r) == LET Keep(i) == ~Dead(h, i, r) IN FromFirst(h, Keep)

\* The index of s relative to the packet at the front, from 0; may be negative.
GetPacketIndex(h, s) ==
    IF h = <<>> THEN 0
    ELSE IF s = h[1].seq \/ AheadOf(s, h[1].seq, SeqMod)
         THEN ForwardDiff(h[1].seq, s, SeqMod)
         ELSE 0 - ForwardDiff(s, h[1].seq, SeqMod)

GetStoredPacket(h, s) ==
    LET i == GetPacketIndex(h, s) + 1
    IN  IF i \in 1..Len(h) /\ h[i].held THEN i ELSE 0

\* RemovePacket: the slot is emptied, empty slots at the front are dropped.
RemovePacket(h, i) ==
    LET Any(j) == j > 1
    IN  IF i = 1 THEN FromFirst(h, Any) ELSE [h EXCEPT ![i] = Hole]

Holes(n) == [i \in 1..n |-> Hole]

\* The packet takes the slot of its number; the deque grows at either end.
Place(h, p) ==
    LET i == GetPacketIndex(h, p.seq)
    IN  IF i < 0 THEN <<p>> \o Holes(0 - i - 1) \o h
        ELSE [(h \o Holes(i + 1 - Len(h))) EXCEPT ![i + 1] = p]

PutRtpPacket(h, p) ==
    LET alive == RemoveDeadPackets(h, rtt)
        i     == GetStoredPacket(alive, p.seq)
        clean == IF i > 0 THEN RemovePacket(alive, i) ELSE alive
    IN  RemoveDeadPackets(Place(clean, p), rtt)

\* Mutant of VerifyRtt: the time of the last retransmission does not matter.
VerifyRttAlways(p) == TRUE

VerifyRtt(p) == ~(p.resent /\ clock - p.at < rtt)

-----------------------------------------------------------------------------
(***************************************************************************)
(* Tasks of the history worker.                                            *)
(***************************************************************************)
Task(k, s) == [kind |-> k, seq |-> s, epoch |-> pauses]
PostHistory(t) == tasks' = IF history_shutdown THEN tasks ELSE Append(tasks, t)
Room == Len(tasks) < MaxBacklog

Idle == [at |-> "idle", batch |-> {}]

\* Mutant of MarkPacketAsAborted: the packet stays marked as in the pacer.
MarkPacketAsAbortedNot(s) == history' = history

\* Mutant of MarkPacketAsSent: the packet stays marked as in the pacer.
MarkPacketAsSentPending(s) ==
    LET i == GetStoredPacket(history, s)
    IN  history' = IF i = 0 THEN history
                   ELSE [history EXCEPT ![i].at = clock, ![i].resent = TRUE]

MarkPacketAsSent(s) ==
    LET i == GetStoredPacket(history, s)
    IN  history' = IF i = 0 THEN history
                   ELSE [history EXCEPT ![i].at = clock, ![i].pending = FALSE,
                                        ![i].resent = TRUE]

MarkPacketAsAborted(s) ==
    LET i == GetStoredPacket(history, s)
    IN  history' = IF i = 0 THEN history ELSE [history EXCEPT ![i].pending = FALSE]

\* A task other than the one that serves NACKs.
RunTask ==
    /\ worker.at = "idle" /\ tasks # <<>> /\ Head(tasks).kind # "nacks"
    /\ tasks' = Tail(tasks)
    /\ LET t == Head(tasks) IN
       \/ /\ t.kind = "put" /\ history' = PutRtpPacket(history, Slot(t.seq, t.epoch))
          /\ UNCHANGED rtt
       \/ t.kind = "sent" /\ MarkPacketAsSent(t.seq) /\ UNCHANGED rtt
       \/ t.kind = "aborted" /\ MarkPacketAsAborted(t.seq) /\ UNCHANGED rtt
       \/ t.kind = "clear" /\ history' = <<>> /\ UNCHANGED rtt
       \/ /\ t.kind = "rtt"                               \* SetRtt; seq holds the value
          /\ rtt' = IF history_shutdown THEN rtt ELSE t.seq
          /\ history' = IF history_shutdown THEN history ELSE RemoveDeadPackets(history, t.seq)
    /\ UNCHANGED <<clock, rtxEnabled, nextSeq, sentCount, worker, pendingNacks, scheduled, nacker,
                   pacerTasks, rtxQueue, videoPaused, pauses, apiPaused, apiPauses, stage, lastRtx>>

\* ProcessPendingNacks takes a batch, of any of the numbers, under the lock.
ProcessPendingNacks ==
    /\ worker.at = "idle" /\ tasks # <<>> /\ Head(tasks).kind = "nacks"
    /\ tasks' = Tail(tasks)
    /\ IF history_shutdown
       THEN pendingNacks' = {} /\ scheduled' = FALSE /\ UNCHANGED worker
       ELSE \E taken \in SUBSET pendingNacks :
                /\ Cardinality(taken) <= MaxNacksPerTask
                /\ taken = pendingNacks \/ Cardinality(taken) = MaxNacksPerTask
                /\ pendingNacks' = pendingNacks \ taken
                /\ worker' = [at |-> "resend", batch |-> taken]
                /\ UNCHANGED scheduled
    /\ UNCHANGED <<clock, rtt, rtxEnabled, nextSeq, sentCount, history, nacker, pacerTasks, rtxQueue,
                   videoPaused, pauses, apiPaused, apiPauses, stage, lastRtx>>

\* Whether GetPacketAndMarkAsPending hands out a copy of the packet found.
Resendable(i) == i > 0 /\ ~history[i].pending /\ VerifyRtt(history[i])

\* A pacer that is shut down refuses the copy, which aborts it at once.
ReSendPacket(s) ==
    LET i == GetStoredPacket(history, s) IN
    IF Resendable(i) /\ stage = "run"
    THEN /\ history' = [history EXCEPT ![i].pending = TRUE]
         /\ pacerTasks' = Append(pacerTasks, [kind |-> "rtx", seq |-> history[i].seq,
                                              epoch |-> history[i].epoch])
    ELSE UNCHANGED <<history, pacerTasks>>

Resend ==
    /\ worker.at = "resend" /\ worker.batch # {}
    /\ IF history_shutdown
       THEN worker' = [worker EXCEPT !.batch = {}] /\ UNCHANGED <<history, pacerTasks>>
       ELSE \E s \in worker.batch :
              worker' = [worker EXCEPT !.batch = @ \ {s}] /\ ReSendPacket(s)
    /\ UNCHANGED <<clock, rtt, rtxEnabled, nextSeq, sentCount, tasks, pendingNacks, scheduled, nacker,
                   rtxQueue, videoPaused, pauses, apiPaused, apiPauses, stage, lastRtx>>

\* The end of ProcessPendingNacks: post it again for what arrived meanwhile.
FinishNacks ==
    /\ worker.at = "resend" /\ worker.batch = {}
    /\ worker' = Idle
    /\ IF history_shutdown \/ pendingNacks = {}
       THEN pendingNacks' = {} /\ scheduled' = FALSE /\ UNCHANGED tasks
       ELSE UNCHANGED <<pendingNacks, scheduled>> /\ tasks' = Append(tasks, Task("nacks", 0))
    /\ UNCHANGED <<clock, rtt, rtxEnabled, nextSeq, sentCount, history, nacker, pacerTasks, rtxQueue,
                   videoPaused, pauses, apiPaused, apiPauses, stage, lastRtx>>

HistoryStep == RunTask \/ ProcessPendingNacks \/ Resend \/ FinishNacks

-----------------------------------------------------------------------------
(***************************************************************************)
(* The RTCP thread.                                                        *)
(***************************************************************************)
OnReceiveNack ==
    /\ nacker = "idle" /\ rtxEnabled /\ ~history_shutdown /\ Room
    /\ \E S \in NackBatches : \E T \in SUBSET S :
         /\ Cardinality(pendingNacks \cup T) <= MaxCapacity
         /\ T = S \/ Cardinality(pendingNacks \cup T) = MaxCapacity
         /\ pendingNacks' = pendingNacks \cup T
    /\ scheduled' = TRUE
    /\ nacker' = IF scheduled THEN "idle" ELSE "post"
    /\ UNCHANGED <<clock, rtt, rtxEnabled, nextSeq, sentCount, history, tasks, worker, pacerTasks, rtxQueue,
                   videoPaused, pauses, apiPaused, apiPauses, stage, lastRtx>>

\* Outside the lock; a stopped queue refuses the task.
PostNackTask ==
    /\ nacker = "post"
    /\ nacker' = "idle"
    /\ IF stage = "stopped" THEN scheduled' = FALSE /\ UNCHANGED tasks
       ELSE tasks' = Append(tasks, Task("nacks", 0)) /\ UNCHANGED scheduled
    /\ UNCHANGED <<clock, rtt, rtxEnabled, nextSeq, sentCount, history, worker, pendingNacks, pacerTasks,
                   rtxQueue, videoPaused, pauses, apiPaused, apiPauses, stage, lastRtx>>

OnRttUpdate ==
    /\ ~history_shutdown /\ Room
    /\ \E r \in Rtts \ {rtt} : PostHistory(Task("rtt", r))
    /\ UNCHANGED <<clock, rtt, rtxEnabled, nextSeq, sentCount, history, worker, pendingNacks, scheduled,
                   nacker, pacerTasks, rtxQueue, videoPaused, pauses, apiPaused, apiPauses, stage,
                   lastRtx>>

-----------------------------------------------------------------------------
(***************************************************************************)
(* The pacer.  A media packet is stored whether the transport took it      *)
(* (OnSentRtpPacket) or refused it (OnRtpPacketSendFailed).                *)
(***************************************************************************)
SendMedia ==
    /\ stage = "run" /\ ~videoPaused /\ sentCount < MaxPackets /\ Room
    /\ nextSeq' = SeqPlus(nextSeq, 1, SeqMod)
    /\ sentCount' = sentCount + 1
    /\ PostHistory(Task("put", nextSeq))
    /\ UNCHANGED <<clock, rtt, rtxEnabled, history, worker, pendingNacks, scheduled, nacker, pacerTasks,
                   rtxQueue, videoPaused, pauses, apiPaused, apiPauses, stage, lastRtx>>

\* Without RTX padding takes a number of the media SSRC and is not stored.
SendPadding ==
    /\ stage = "run" /\ ~videoPaused /\ ~rtxEnabled /\ sentCount < MaxPackets
    /\ nextSeq' = SeqPlus(nextSeq, 1, SeqMod)
    /\ sentCount' = sentCount + 1
    /\ UNCHANGED <<clock, rtt, rtxEnabled, history, tasks, worker, pendingNacks, scheduled, nacker,
                   pacerTasks, rtxQueue, videoPaused, pauses, apiPaused, apiPauses, stage, lastRtx>>

\* The transport takes the retransmission or refuses it.
SendRtx ==
    /\ stage = "run" /\ rtxQueue # <<>> /\ Room
    /\ rtxQueue' = Tail(rtxQueue)
    /\ LET s == Head(rtxQueue).seq IN
       \/ PostHistory(Task("sent", s)) /\ lastRtx' = [lastRtx EXCEPT ![s] = clock]
       \/ PostHistory(Task("aborted", s)) /\ UNCHANGED lastRtx
    /\ UNCHANGED <<clock, rtt, rtxEnabled, nextSeq, sentCount, history, worker, pendingNacks, scheduled,
                   nacker, pacerTasks, videoPaused, pauses, apiPaused, apiPauses, stage>>

\* ShouldDropVideoPacket, for a retransmission.
ShouldDropVideoPacket(t) == videoPaused \/ t.epoch < pauses

\* EnqueuePacketOnQueue: a retransmission posted before the pause is discarded.
EnqueueRtx ==
    /\ pacerTasks # <<>> /\ Head(pacerTasks).kind = "rtx"
    /\ pacerTasks' = Tail(pacerTasks)
    /\ rtxQueue' = IF ShouldDropVideoPacket(Head(pacerTasks)) THEN rtxQueue
                   ELSE Append(rtxQueue, Head(pacerTasks))
    /\ UNCHANGED <<clock, rtt, rtxEnabled, nextSeq, sentCount, history, tasks, worker, pendingNacks,
                   scheduled, nacker, videoPaused, pauses, apiPaused, apiPauses, stage, lastRtx>>

ResetSendState ==
    /\ pendingNacks' = {}
    /\ PostHistory(Task("clear", 0))

\* The task SetVideoSendPaused posts: the queue is purged, the channel is reset.
PauseVideo ==
    /\ pacerTasks # <<>> /\ Head(pacerTasks).kind = "pause"
    /\ pacerTasks' = Tail(pacerTasks)
    /\ IF stage = "run"
       THEN videoPaused' = TRUE /\ pauses' = pauses + 1 /\ rtxQueue' = <<>>
       ELSE UNCHANGED <<videoPaused, pauses, rtxQueue>>
    /\ ResetSendState
    /\ UNCHANGED <<clock, rtt, rtxEnabled, nextSeq, sentCount, history, worker, scheduled, nacker,
                   apiPaused, apiPauses, stage, lastRtx>>

ResumeVideo ==
    /\ pacerTasks # <<>> /\ Head(pacerTasks).kind = "resume"
    /\ pacerTasks' = Tail(pacerTasks)
    /\ videoPaused' = (videoPaused /\ stage # "run")
    /\ UNCHANGED <<clock, rtt, rtxEnabled, nextSeq, sentCount, history, tasks, worker, pendingNacks,
                   scheduled, nacker, rtxQueue, pauses, apiPaused, apiPauses, stage, lastRtx>>

PacerStep == EnqueueRtx \/ PauseVideo \/ ResumeVideo \/ SendRtx

-----------------------------------------------------------------------------
(***************************************************************************)
(* The API thread and the end.                                             *)
(***************************************************************************)
SetVideoSendPaused ==
    /\ stage = "run"
    /\ apiPaused \/ apiPauses < MaxPauses
    /\ apiPaused' = ~apiPaused
    /\ apiPauses' = IF apiPaused THEN apiPauses ELSE apiPauses + 1
    /\ pacerTasks' = Append(pacerTasks, [kind |-> IF apiPaused THEN "resume" ELSE "pause",
                                         seq |-> 0, epoch |-> 0])
    /\ UNCHANGED <<clock, rtt, rtxEnabled, nextSeq, sentCount, history, tasks, worker, pendingNacks,
                   scheduled, nacker, rtxQueue, videoPaused, pauses, stage, lastRtx>>

\* The pacer is shut down and its queue worked off before the channel is
\* destroyed: shutdown, ClearTasks, Stop.
Destroy ==
    /\ \/ stage = "run" /\ stage' = "pacer down" /\ UNCHANGED <<tasks, pendingNacks, scheduled>>
       \/ /\ stage = "pacer down" /\ pacerTasks = <<>> /\ stage' = "shutdown"
          /\ pendingNacks' = {} /\ scheduled' = FALSE /\ UNCHANGED tasks
       \/ /\ stage = "shutdown" /\ stage' = "cleared"
          /\ tasks' = <<>> /\ UNCHANGED <<pendingNacks, scheduled>>
       \/ stage = "cleared" /\ stage' = "stopped" /\ UNCHANGED <<tasks, pendingNacks, scheduled>>
    /\ UNCHANGED <<clock, rtt, rtxEnabled, nextSeq, sentCount, history, worker, nacker, pacerTasks,
                   rtxQueue, videoPaused, pauses, apiPaused, apiPauses, lastRtx>>

PassTime ==
    /\ clock < MaxClock
    /\ clock' = clock + 1
    /\ UNCHANGED <<rtt, rtxEnabled, nextSeq, sentCount, history, tasks, worker, pendingNacks, scheduled,
                   nacker, pacerTasks, rtxQueue, videoPaused, pauses, apiPaused, apiPauses, stage,
                   lastRtx>>

Destroyed ==
    /\ stage = "stopped" /\ tasks = <<>> /\ worker = Idle /\ nacker = "idle"
    /\ UNCHANGED vcsVars

VcsInit ==
    /\ clock = 0 /\ rtt = DefaultRtt /\ rtxEnabled \in BOOLEAN
    /\ nextSeq \in FirstSeqs /\ sentCount = 0
    /\ history = <<>> /\ tasks = <<>> /\ worker = Idle
    /\ pendingNacks = {} /\ scheduled = FALSE /\ nacker = "idle"
    /\ pacerTasks = <<>> /\ rtxQueue = <<>>
    /\ videoPaused = FALSE /\ pauses = 0 /\ apiPaused = FALSE /\ apiPauses = 0
    /\ stage = "run"
    /\ lastRtx = [s \in SeqNums |-> Never]

VcsNext ==
    \/ HistoryStep \/ PacerStep \/ SendMedia \/ SendPadding
    \/ OnReceiveNack \/ PostNackTask \/ OnRttUpdate
    \/ SetVideoSendPaused \/ Destroy \/ PassTime \/ Destroyed

VcsSpec == VcsInit /\ [][VcsNext]_vcsVars

-----------------------------------------------------------------------------
(***************************************************************************)
(* Properties.                                                             *)
(***************************************************************************)
Copies == {i \in 1..Len(pacerTasks) : pacerTasks[i].kind = "rtx"}

\* The deque is a window of consecutive numbers: its front is a packet, a
\* packet's place is its distance from the front, and the capacity holds.
HistoryIsWindow ==
    /\ Len(history) <= MaxCapacity
    /\ history # <<>> => history[1].held
    /\ \A i \in 1..Len(history) :
         history[i].held => history[i].seq = SeqPlus(history[1].seq, i - 1, SeqMod)

\* A packet marked as in the pacer really has a copy on its way, a result to
\* be recorded, or is about to be cleared.
MarkIsBacked(slot) ==
    \/ \E j \in Copies : pacerTasks[j].seq = slot.seq
    \/ \E j \in 1..Len(rtxQueue) : rtxQueue[j].seq = slot.seq
    \/ \E j \in 1..Len(tasks) :
          \/ tasks[j].kind \in {"sent", "aborted"} /\ tasks[j].seq = slot.seq
          \/ tasks[j].kind = "clear"

\* A NACK that was accepted is served: a task that will look at it is posted,
\* about to be posted, or running and will post itself again; and no packet
\* stays marked for good, which would refuse every later NACK for it.
RetransmissionServed ==
    /\ pendingNacks # {} =>
         \/ nacker = "post"
         \/ worker.at = "resend"
         \/ \E j \in 1..Len(tasks) : tasks[j].kind = "nacks"
    /\ stage = "run" => \A i \in 1..Len(history) : history[i].pending => MarkIsBacked(history[i])

\* A packet is not handed to the pacer again within a round-trip time of its
\* last retransmission, although that one is recorded later, by another thread.
RtxSpacing ==
    [][ \A s \in SeqNums :
          LET NewCopy == /\ Len(pacerTasks') > Len(pacerTasks)
                         /\ pacerTasks'[Len(pacerTasks')].kind = "rtx"
                         /\ pacerTasks'[Len(pacerTasks')].seq = s
          IN  NewCopy => lastRtx[s] = Never \/ clock - lastRtx[s] >= rtt
      ]_vcsVars

\* The deque implements the store of packets by number.
Store == INSTANCE PacketStore WITH
            StoreMod <- SeqMod,
            store <- {history[i] : i \in {j \in 1..Len(history) : history[j].held}}
StoreImplemented == Store!StoreSpec
=============================================================================
