-------------------------- MODULE RtpVideoReceiver --------------------------
(***************************************************************************)
(* RtpVideoReceiver (src/transport/channel/rtp_video_receiver.cpp): from   *)
(* RTP packets to frames released for decoding, with NACK, RTX, FEC and    *)
(* key-frame requests.                                                     *)
(*                                                                         *)
(* Two threads interleave between the critical sections of nack_mtx_,      *)
(* pending_frames_mtx_, frame_assembly_mtx_ and rtcp_sender_mtx_: the one  *)
(* that inserts packets and the worker that runs Process every 5 ms.       *)
(*                                                                         *)
(* The stream is fixed: packet records [seq, ts, first, last], consecutive *)
(* numbers, one timestamp per frame.  The H264 FU-A and the AV1 path are   *)
(* alike; a frame of one packet may also be a plain H264 NAL unit.  The    *)
(* network loses, reorders and duplicates; what FEC restores is any packet *)
(* (RtpFecReceiver works on the packets of one frame).  Counters that only *)
(* feed the log are left out.                                              *)
(***************************************************************************)
EXTENDS NackRequester, Sequences

CONSTANTS
    Stream,             \* the packets of the stream
    TsMod,              \* number of timestamps (2^32)
    KeyChoices,         \* the sets of timestamps of which the key frames may be one
    Timing,             \* GetFrameRecoveryTiming: soft, confirm and hard for
                        \* "no rtx", "unsampled", "sampled"
    FirRetryInterval,   \* kFirRetryIntervalMs
    FailedFirInterval,  \* kFailedFirRetryIntervalMs
    MaxArrivals         \* bound on the packets that arrive

VARIABLES
    rtx,            \* RtxEnabled()
    keyFrames,      \* the timestamps whose frames are key frames
    pending,        \* pending_frames_, a function on timestamps
    parts,          \* incomplete_h264_frame_list_ and incomplete_av1_frame_list_
    lastComplete,   \* last_complete_frame_ts_, {} or one timestamp
    lastDiscarded,  \* last_discarded_frame_ts_, likewise
    awaiting,       \* awaiting_keyframe_
    nextFir,        \* next_keyframe_request_ms_
    rtp,            \* where the thread in InsertMediaPacket is
    proc,           \* where the thread in Process is
    arrivals,       \* packets that arrived so far
    came,           \* numbers of those the network delivered at first
    asked,          \* numbers named by a NACK that was sent
    released,       \* timestamps of the frames released, in order
    timedOut,       \* timestamps dropped at the hard deadline
    lost,           \* frames given up, each with how many had been released by then
    blind,          \* whether a frame may have gone unnoticed (see NoSilentGap)
    joined          \* timestamp of the first packet the requester saw, {} before

netVars  == <<arrivals, came, asked, lost, blind, joined>>
doneVars == <<released, timedOut, lastComplete, lastDiscarded>>
rvVars   == <<now, nack, rtx, keyFrames, pending, parts, awaiting, nextFir, rtp, proc,
              netVars, doneVars>>

\* A frame is given up, at the tick after its window closes, before a number it
\* waits for is: 100 requests at least 20 ms apart outlast the 1000 ms window.
ASSUME TimingAssumption ==
    \A k \in DOMAIN Timing : (MaxNackRetries - 1) * FailedRetryDelay > Timing[k].hard + 1

\* Sequence numbers are those of the type.
ASSUME StreamAssumption == \A p \in Stream : p.seq \in SeqNums

Timestamps == {p.ts : p \in Stream}
FramesOf(S) == {p.ts : p \in {q \in Stream : q.seq \in S}}
PacketsOf(t) == {p \in Stream : p.ts = t}
Later(t, u) == AheadOf(t, u, TsMod)
NoSeq == 0 - 1

NewFrame == [complete |-> FALSE, at |-> now, key |-> FALSE, last |-> NoSeq,
             escalated |-> FALSE, softFir |-> FALSE]

\* The history variable after the frames ts are given up.
GiveUp(ts) == lost' = lost \cup {[ts |-> t, after |-> Len(released)] : t \in ts}

Put(f, t, v) == [u \in DOMAIN f \cup {t} |-> IF u = t THEN v ELSE f[u]]
Del(f, t) == [u \in DOMAIN f \ {t} |-> f[u]]

-----------------------------------------------------------------------------
(***************************************************************************)
(* Key-frame requests.                                                     *)
(***************************************************************************)
\* The part of SendKeyFrameRequest under rtcp_sender_mtx_.
SendKeyFrameRequest ==
    IF now < nextFir THEN UNCHANGED nextFir
    ELSE \/ nextFir' = now + FirRetryInterval
         \/ nextFir' = now + FailedFirInterval

-----------------------------------------------------------------------------
(***************************************************************************)
(* InsertMediaPacket.                                                      *)
(***************************************************************************)
RtpIdle == [at |-> "idle", batch |-> {}, kind |-> "media", overflow |-> FALSE]
RtpAt(where) == rtp' = [rtp EXCEPT !.at = where]

IsFrameTimestampObsolete(t) ==
    \E u \in lastComplete \cup lastDiscarded : ~Later(t, u)

\* A packet arrives; its timestamp is compared under pending_frames_mtx_.  An
\* RTX packet was asked for, FEC may restore any packet.
InsertRtpPacket ==
    /\ rtp.at = "idle" /\ arrivals < MaxArrivals
    /\ \E p \in Stream, kind \in {"media", "rtx", "fec"} :
         /\ kind = "rtx" => rtx /\ p.seq \in asked
         /\ kind = "fec" => rtx
         /\ kind = "media" => p.seq \notin came
         /\ arrivals' = arrivals + 1
         /\ came' = IF kind = "media" THEN came \cup {p.seq} ELSE came
         /\ LET late == IsFrameTimestampObsolete(p.ts) IN
            /\ rtp' = IF late /\ kind = "media" THEN RtpIdle
                      ELSE [at |-> IF late THEN "late" ELSE "track", batch |-> {}, kind |-> kind,
                            overflow |-> FALSE, packet |-> p]
            /\ UNCHANGED <<nack, now, rtx, keyFrames, pending, parts, awaiting, nextFir, proc,
                           asked, lost, blind, joined, doneVars>>

\* A repair that is late for its frame still retires its number.
RetireLateRepair ==
    /\ rtp.at = "late"
    /\ \E w \in ReorderWaits : nack' = OnReceivedPacket(nack, rtp.packet.seq, TRUE, w)
    /\ rtp' = RtpIdle
    /\ UNCHANGED <<now, rtx, keyFrames, pending, parts, awaiting, nextFir, proc,
                   netVars, doneVars>>

\* Under nack_mtx_: the requester learns of the packet, and hands out a batch
\* and whether its list overflowed.
TrackSequence ==
    /\ rtp.at = "track"
    /\ IF ~rtx THEN RtpAt("payload") /\ UNCHANGED <<nack, lost, blind, joined>>
       ELSE \E w \in ReorderWaits :
              LET s     == rtp.packet.seq
                  fixed == rtp.kind # "media"
                  n     == OnReceivedPacket(nack, s, fixed, w)
                  batch == IF Advances(nack, s, fixed) THEN GetNackBatch(n, "seq") ELSE {}
              IN  /\ nack' = [MarkPending(n, batch) EXCEPT !.keyFrame = FALSE]
                  /\ rtp' = [rtp EXCEPT !.batch = batch, !.overflow = n.keyFrame,
                                       !.at = IF batch # {} THEN "nack"
                                              ELSE IF n.keyFrame THEN "await" ELSE "payload"]
                  /\ joined' = IF nack.initialized THEN joined ELSE {rtp.packet.ts}
                  /\ GiveUp(IF n.keyFrame THEN FramesOf(DOMAIN nack.list \cup Between(nack, s))
                            ELSE {})
                  /\ blind' = (blind \/ n.recovered # nack.recovered)
    /\ UNCHANGED <<now, rtx, keyFrames, pending, parts, awaiting, nextFir, proc,
                   arrivals, came, asked, doneVars>>

\* SendPreparedNackBatch: sent without the lock, its result recorded under it.
SendNackBatch(batch) ==
    \E ok \in BOOLEAN :
        /\ nack' = OnNackBatchSent(nack, batch, ok)
        /\ asked' = IF ok THEN asked \cup batch ELSE asked

InsertSendsNack ==
    /\ rtp.at = "nack"
    /\ SendNackBatch(rtp.batch)
    /\ rtp' = [rtp EXCEPT !.at = IF rtp.overflow THEN "await" ELSE "payload", !.batch = {}]
    /\ UNCHANGED <<now, rtx, keyFrames, pending, parts, awaiting, nextFir, proc,
                   arrivals, came, lost, blind, joined, doneVars>>

\* RequestKeyFrame, for an overflow or for a payload that is not valid.
EnterAwaiting ==
    /\ rtp.at \in {"await", "payload"}
    /\ awaiting' = TRUE
    /\ GiveUp(IF rtp.at = "payload" THEN {rtp.packet.ts} ELSE {})
    /\ RtpAt("fir")
    /\ UNCHANGED <<now, nack, rtx, keyFrames, pending, parts, nextFir, proc, arrivals,
                   came, asked, blind, joined, doneVars>>

InsertSendsFir ==
    /\ rtp.at = "fir"
    /\ SendKeyFrameRequest
    /\ rtp' = IF rtp.overflow THEN [rtp EXCEPT !.at = "payload", !.overflow = FALSE] ELSE RtpIdle
    /\ UNCHANGED <<now, nack, rtx, keyFrames, pending, parts, awaiting, proc, netVars,
                   doneVars>>

\* TrackPendingFramePacket; frame_assembly_mtx_ is held from here to the end.
\* Process has it in DropFrameAssembly only, not on its way there.
TrackPendingFramePacket ==
    /\ rtp.at = "payload"
    /\ parts' = parts \cup {rtp.packet}
    /\ LET t == rtp.packet.ts
           f == IF t \in DOMAIN pending THEN pending[t] ELSE NewFrame
       IN  pending' = Put(pending, t, [f EXCEPT !.last =
               IF @ = NoSeq \/ Ahead(rtp.packet.seq, @) THEN rtp.packet.seq ELSE @])
    /\ RtpAt("commit")
    /\ UNCHANGED <<now, nack, rtx, keyFrames, awaiting, nextFir, proc, netVars, doneVars>>

Commit(t) ==
    LET f == IF t \in DOMAIN pending THEN pending[t] ELSE NewFrame
        e == CHOOSE p \in PacketsOf(t) : p.last
    IN  pending' = Put(pending, t, [NewFrame EXCEPT !.complete = TRUE, !.at = f.at,
                                                    !.key = (t \in keyFrames), !.last = e.seq])

\* Whether start and end of the frame and all between them are there.
FrameCompleted(t) == PacketsOf(t) \subseteq parts

\* CheckIsH264FrameCompleted and CheckIsAv1FrameCompleted with CommitPendingFrame.
CommitFrame ==
    /\ rtp.at = "commit"
    /\ LET t == rtp.packet.ts IN
       IF FrameCompleted(t)
       THEN /\ parts' = parts \ PacketsOf(t)
            /\ IF t \in DOMAIN pending THEN Commit(t) ELSE UNCHANGED pending
       ELSE UNCHANGED <<parts, pending>>
    /\ rtp' = RtpIdle
    /\ UNCHANGED <<now, nack, rtx, keyFrames, awaiting, nextFir, proc, netVars, doneVars>>

\* A single NAL unit is a frame; its entry is made on the spot.
CommitSingle ==
    /\ rtp.at = "payload" /\ rtp.packet.first /\ rtp.packet.last
    /\ Commit(rtp.packet.ts)
    /\ rtp' = RtpIdle
    /\ UNCHANGED <<now, nack, rtx, keyFrames, parts, awaiting, nextFir, proc, netVars,
                   doneVars>>

InsertStep == InsertRtpPacket \/ RetireLateRepair \/ TrackSequence \/ InsertSendsNack
              \/ EnterAwaiting \/ InsertSendsFir \/ TrackPendingFramePacket \/ CommitFrame
              \/ CommitSingle

-----------------------------------------------------------------------------
(***************************************************************************)
(* Process.                                                                *)
(***************************************************************************)
ProcIdle == [at |-> "idle", batch |-> {}, ts |-> 0, timedOut |-> FALSE, timing |-> "no rtx"]
ProcAt(where) == proc' = [proc EXCEPT !.at = where]

\* ProcessPendingNacks prepares its batch.
ProcessPendingNacks ==
    /\ proc.at = "idle"
    /\ LET batch == IF rtx THEN GetNackBatch(nack, "time") ELSE {} IN
       /\ nack' = MarkPending(nack, batch)
       /\ proc' = [ProcIdle EXCEPT !.at = IF batch = {} THEN "retry" ELSE "nack", !.batch = batch]
    /\ UNCHANGED <<now, rtx, keyFrames, pending, parts, awaiting, nextFir, rtp, netVars,
                   doneVars>>

ProcessSendsNack ==
    /\ proc.at = "nack"
    /\ SendNackBatch(proc.batch)
    /\ proc' = [proc EXCEPT !.at = "retry", !.batch = {}]
    /\ UNCHANGED <<now, rtx, keyFrames, pending, parts, awaiting, nextFir, rtp,
                   arrivals, came, lost, blind, joined, doneVars>>

CompleteKey(t) == pending[t].complete /\ pending[t].key

\* MaybeRetryKeyFrameRequest, then GetFrameRecoveryTiming.
MaybeRetryKeyFrameRequest ==
    /\ proc.at = "retry"
    /\ IF awaiting /\ ~\E t \in DOMAIN pending : CompleteKey(t)
       THEN SendKeyFrameRequest ELSE UNCHANGED nextFir
    /\ proc' = [proc EXCEPT !.at = "loop", !.timing =
                   IF ~rtx THEN "no rtx" ELSE IF nack.sampled THEN "sampled" ELSE "unsampled"]
    /\ UNCHANGED <<now, nack, rtx, keyFrames, pending, parts, awaiting, rtp, netVars,
                   doneVars>>

-----------------------------------------------------------------------------
(***************************************************************************)
(* One turn of Process's loop, under nack_mtx_ and pending_frames_mtx_:    *)
(* what it does with the oldest pending frame.                             *)
(***************************************************************************)
Front == CHOOSE t \in DOMAIN pending : \A u \in DOMAIN pending : u = t \/ Later(u, t)

\* Mutant of HasBlockingNacks: a complete frame does not wait for numbers before it.
HasBlockingNacksNever(f) == FALSE

HasBlockingNacks(f) ==
    IF f.last # NoSeq THEN HasPendingNacksUpTo(nack, f.last) ELSE DOMAIN nack.list # {}

NewerCompleteKey(f) ==
    /\ awaiting \/ f.escalated
    /\ ~(f.complete /\ f.key)
    /\ \E t \in DOMAIN pending \ {Front} : CompleteKey(t)

\* Mutant of TooOld: a frame older than the last one released is not dropped.
TooOldNever(t) == FALSE

TooOld(t) == \E u \in lastComplete : ~Later(t, u)

\* The alternatives in the order in which the code tries them.
Verdict ==
    LET f   == pending[Front]
        age == now - f.at
        w   == Timing[proc.timing]
    IN  IF TooOld(Front)                                THEN "too old"
        ELSE IF NewerCompleteKey(f)                     THEN "overtaken"
        ELSE IF f.complete /\ awaiting /\ f.key         THEN "synchronize"
        ELSE IF f.complete /\ awaiting                  THEN "unusable"
        ELSE IF f.complete /\ ~HasBlockingNacks(f)      THEN "release"
        ELSE IF age > w.hard                            THEN "hard timeout"
        ELSE IF ~f.escalated /\ age > w.soft            THEN "soft stall"
        ELSE IF f.escalated /\ ~f.softFir /\ age > w.soft + w.confirm THEN "soft fir"
        ELSE "wait"

Release(t) ==
    /\ lastComplete' = {t}
    /\ released' = Append(released, t)
    /\ pending' = Del(pending, t)

LoopTurn(verdict) ==
    proc.at = "loop" /\ DOMAIN pending # {} /\ Verdict = verdict

\* Nothing to do until the next tick.
Wait ==
    /\ proc.at = "loop"
    /\ DOMAIN pending # {} => Verdict = "wait"
    /\ proc' = ProcIdle
    /\ UNCHANGED <<now, nack, rtx, keyFrames, pending, parts, awaiting, nextFir, rtp,
                   netVars, doneVars>>

\* The frame is dropped; a newer key frame to wait for is a reason to.
DropFrame ==
    /\ \/ LoopTurn("too old") /\ UNCHANGED <<awaiting, lost>>
       \/ LoopTurn("overtaken") /\ awaiting' = TRUE /\ GiveUp({Front})
       \/ LoopTurn("unusable") /\ UNCHANGED awaiting /\ GiveUp({Front})
    /\ pending' = Del(pending, Front)
    /\ proc' = [proc EXCEPT !.at = "assembly", !.ts = Front, !.timedOut = FALSE]
    /\ UNCHANGED <<now, nack, rtx, keyFrames, parts, nextFir, rtp, arrivals, came, asked, blind,
                   joined, doneVars>>

\* The key frame that was waited for; what was missing before it is forgotten.
Synchronize ==
    /\ LoopTurn("synchronize")
    /\ awaiting' = FALSE
    /\ nack' = IF pending[Front].last # NoSeq THEN ClearUpTo(nack, pending[Front].last) ELSE nack
    /\ Release(Front)
    /\ UNCHANGED <<now, rtx, keyFrames, parts, nextFir, rtp, proc, netVars, timedOut,
                   lastDiscarded>>

\* The other thread is between nack_mtx_ and the lock under which the worker
\* would learn of it: it has a packet of an older frame, whose number is no
\* longer missing, on its way to pending_frames_, or has overflowed the list
\* of missing numbers and not asked for a key frame yet.
Overtaking ==
    /\ rtp.at \in {"nack", "await", "payload", "fir"}
    /\ Later(Front, rtp.packet.ts) \/ rtp.overflow

ReleaseFrame ==
    /\ LoopTurn("release")
    /\ Release(Front)
    /\ blind' = (blind \/ Overtaking)
    /\ UNCHANGED <<now, nack, rtx, keyFrames, parts, awaiting, nextFir, rtp, proc,
                   arrivals, came, asked, lost, joined, timedOut, lastDiscarded>>

HardTimeout ==
    /\ LoopTurn("hard timeout")
    /\ awaiting' = TRUE
    /\ nack' = IF pending[Front].last # NoSeq THEN ClearUpTo(nack, pending[Front].last) ELSE nack
    /\ pending' = Del(pending, Front)
    /\ lastDiscarded' = IF \E u \in lastDiscarded : ~Later(Front, u) THEN lastDiscarded ELSE {Front}
    /\ timedOut' = timedOut \cup {Front}
    /\ GiveUp({Front})
    /\ proc' = [proc EXCEPT !.at = "assembly", !.ts = Front, !.timedOut = TRUE]
    /\ UNCHANGED <<now, rtx, keyFrames, parts, nextFir, rtp, arrivals, came, asked, blind, joined,
                   released, lastComplete>>

SoftStall ==
    /\ LoopTurn("soft stall")
    /\ pending' = [pending EXCEPT ![Front].escalated = TRUE]
    /\ proc' = ProcIdle
    /\ UNCHANGED <<now, nack, rtx, keyFrames, parts, awaiting, nextFir, rtp, netVars,
                   doneVars>>

SoftFir ==
    /\ LoopTurn("soft fir")
    /\ pending' = [pending EXCEPT ![Front].softFir = TRUE]
    /\ ProcAt("fir")
    /\ UNCHANGED <<now, nack, rtx, keyFrames, parts, awaiting, nextFir, rtp, netVars,
                   doneVars>>

\* Needs frame_assembly_mtx_, which the other thread holds at "commit".
DropFrameAssembly ==
    /\ proc.at = "assembly" /\ rtp.at # "commit"
    /\ parts' = parts \ PacketsOf(proc.ts)
    /\ ProcAt(IF proc.timedOut THEN "fir" ELSE "loop")
    /\ UNCHANGED <<now, nack, rtx, keyFrames, pending, awaiting, nextFir, rtp, netVars,
                   doneVars>>

ProcessSendsFir ==
    /\ proc.at = "fir"
    /\ SendKeyFrameRequest
    /\ proc' = ProcIdle
    /\ UNCHANGED <<now, nack, rtx, keyFrames, pending, parts, awaiting, rtp, netVars,
                   doneVars>>

ProcessStep == ProcessPendingNacks \/ ProcessSendsNack \/ MaybeRetryKeyFrameRequest \/ Wait
               \/ DropFrame \/ Synchronize \/ ReleaseFrame \/ HardTimeout \/ SoftStall
               \/ SoftFir \/ DropFrameAssembly \/ ProcessSendsFir

-----------------------------------------------------------------------------
\* OnRttUpdate, from receiver reports.
OnRttUpdate ==
    /\ rtx /\ ~nack.sampled
    /\ nack' = UpdateRtt(nack, DefaultRtt)
    /\ UNCHANGED <<now, rtx, keyFrames, pending, parts, awaiting, nextFir, rtp, proc,
                   netVars, doneVars>>

RvPassTime ==
    /\ now < MaxNow /\ now' = now + 1
    /\ UNCHANGED <<nack, rtx, keyFrames, pending, parts, awaiting, nextFir, rtp, proc,
                   netVars, doneVars>>

RvInit ==
    /\ now = 0 /\ nack = NewNack /\ rtx \in BOOLEAN /\ keyFrames \in KeyChoices
    /\ pending = [t \in {} |-> 0] /\ parts = {} /\ lastComplete = {} /\ lastDiscarded = {}
    /\ awaiting = FALSE /\ nextFir = 0 /\ rtp = RtpIdle /\ proc = ProcIdle
    /\ arrivals = 0 /\ came = {} /\ asked = {} /\ released = <<>> /\ timedOut = {}
    /\ lost = {} /\ blind = ~rtx /\ joined = {}

RvNext == InsertStep \/ ProcessStep \/ OnRttUpdate \/ RvPassTime

RvSpec == RvInit /\ [][RvNext]_rvVars

-----------------------------------------------------------------------------
(***************************************************************************)
(* Properties.                                                             *)
(***************************************************************************)
\* Frames are released in the order of their timestamps, each once, also when
\* the timestamps wrap and whatever arrives late or twice.
ReleasedInOrder ==
    \A i \in 1..(Len(released) - 1) : Later(released[i + 1], released[i])

\* The frame before t in the stream.
Preceding(t) == {u \in Timestamps : Later(t, u) /\ ~\E v \in Timestamps : Later(t, v) /\ Later(v, u)}

\* With RTX, no frame is passed over in silence: one that is not a key frame is
\* released only after the frame before it, or after that one was given up and
\* a key frame released since, however packets were lost or corrupt and the two
\* threads interleaved.  A key frame recovered late may be older than what was
\* given up, and then ends the wait all the same.  Left out, as the worker
\* cannot know of the gap then: the stream was joined after it; FEC restored a
\* packet beyond it before any other arrived; or the tick fell between two
\* locks of the other thread (Overtaking).
NoSilentGap ==
    ~blind => \A i \in 1..Len(released) :
        released[i] \in keyFrames \/
        \A u \in Preceding(released[i]) :
            \/ \E j \in 1..(i - 1) : released[j] = u
            \/ \E f \in lost : f.ts = u /\ \E j \in (f.after + 1)..(i - 1) : released[j] \in keyFrames
            \/ \E t \in joined : Later(t, u)

\* A number marked as being sent is in the batch one of the threads is sending:
\* otherwise it would never be asked for again and block its frame.
SendsAreResolved ==
    \A s \in DOMAIN nack.list : nack.list[s].pending => s \in rtp.batch \cup proc.batch

\* A frame dropped at the hard deadline does not come back to pending_frames_.
DiscardedStaysOut == timedOut \cap DOMAIN pending = {}
=============================================================================
