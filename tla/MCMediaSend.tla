---------------------------- MODULE MCMediaSend ----------------------------
(***************************************************************************)
(* The sending side of a media path, part by part: the video channel with  *)
(* its history and retransmissions, and the pacer below it.  part is the   *)
(* one looked at; the other rests.  The steps are listed one by one so     *)
(* that TLC counts how often each is taken.                                *)
(***************************************************************************)
EXTENDS VideoChannelSend, PacedSender

\* The channel: eight sequence numbers that wrap while packets are kept, a
\* history of two packets and NACKs served one at a time.
OneBatch == {{6, 0}}
BeforeWrap == {6}
LongRtt == {2}

\* The pacer: two video streams of one priority, one of retransmissions and padding.
MediaStreams == {"v1", "v2", "rtx"}
Source(s, kind, key) == [ssrc |-> s, kind |-> kind, key |-> key]
MediaSources == {Source("v1", "video", "delta"), Source("v1", "video", "first"),
                 Source("v2", "video", "delta"), Source("rtx", "rtx", "delta")}

VARIABLE part

Channel(A) == part = "channel" /\ A /\ UNCHANGED <<psVars, part>>
Pacer(A) == part = "pacer" /\ A /\ UNCHANGED <<vcsVars, part>>

MediaInit ==
    /\ VcsInit /\ PsInit
    /\ part \in {"channel", "pacer"}
    /\ part = "pacer" => rtxEnabled

ChannelNext ==
    \/ Channel(RunTask) \/ Channel(ProcessPendingNacks) \/ Channel(Resend) \/ Channel(FinishNacks)
    \/ Channel(EnqueueRtx) \/ Channel(PauseVideo) \/ Channel(ResumeVideo) \/ Channel(SendRtx)
    \/ Channel(SendMedia) \/ Channel(SendPadding)
    \/ Channel(OnReceiveNack) \/ Channel(PostNackTask) \/ Channel(OnRttUpdate)
    \/ Channel(SetVideoSendPaused) \/ Channel(Destroy) \/ Channel(PassTime) \/ Channel(Destroyed)

\* A pacer that was shut down, or whose clock has run out, may rest.
PacerNext ==
    \/ Pacer(RunPosted) \/ Pacer(RunDelayed) \/ Pacer(PurgeTurn)
    \/ Pacer(LoopTurn) \/ Pacer(SendTurn) \/ Pacer(LoopEnds)
    \/ Pacer(PostPacket) \/ Pacer(PostTransport) \/ Pacer(PostCongested) \/ Pacer(PostRates)
    \/ Pacer(PostPause) \/ Pacer(Shutdown) \/ Pacer(PsPassTime)
    \/ Pacer(UNCHANGED psVars)

MediaNext == ChannelNext \/ PacerNext

MediaSpec == MediaInit /\ [][MediaNext]_<<vcsVars, psVars, part>>
=============================================================================
