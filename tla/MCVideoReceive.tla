--------------------------- MODULE MCVideoReceive ---------------------------
(***************************************************************************)
(* The receiver with a few frames whose numbers and timestamps wrap; the   *)
(* recovery of the same stream with RTX, over more arrivals, when any of   *)
(* its frames may be the key frame; and the NACK requester alone.          *)
(***************************************************************************)
EXTENDS RtpVideoReceiver

CONSTANT MaxUnaided     \* bound on the packets that arrive outside of the recovery

Packet(s, t, f, l) == [seq |-> s, ts |-> t, first |-> f, last |-> l]

SingleFrames == {Packet(0, 7, TRUE, TRUE), Packet(1, 0, TRUE, TRUE), Packet(2, 1, TRUE, TRUE)}

\* A frame of two packets, then three of one.
PartedFirst == {Packet(10, 6, TRUE, FALSE), Packet(11, 6, FALSE, TRUE)} \cup SingleFrames

Window(s, c, h) == [soft |-> s, confirm |-> c, hard |-> h]
ShortWindows == [k \in {"no rtx", "unsampled", "sampled"} |-> Window(0, 0, 1)]
AnyOne == {{t} : t \in Timestamps}
NoWait == {0}

\* One run for the three.
VARIABLE part
othersThanNack == <<rtx, keyFrames, pending, parts, awaiting, nextFir, rtp, proc, netVars, doneVars>>

Requester(A) == part = "requester" /\ A /\ UNCHANGED <<othersThanNack, part>>
Receiver(A) == part \in {"receiver", "recovery"} /\ A /\ UNCHANGED part

\* Numbers that only a repair brings, if anything does: the network loses them.
\* In the recovery the receiver joins at a frame of which it will not know what
\* is missing, and which it gives up.
Lost == IF part = "recovery" THEN {10, 0} ELSE {11, 0}

ReceiveInit ==
    /\ RvInit /\ part \in {"receiver", "recovery", "requester"}
    /\ part # "receiver" => rtx
    /\ part # "recovery" => keyFrames = {1}

\* In the recovery FEC restores nothing, and the round-trip time is not measured.
Arrives ==
    /\ InsertRtpPacket /\ came' \cap Lost = {}
    /\ IF part = "recovery" THEN rtp'.kind # "fec" ELSE arrivals < MaxUnaided

\* Step by step, so that TLC counts how often each is taken.
ReceiverNext ==
    \/ Receiver(Arrives)
    \/ Receiver(RetireLateRepair) \/ Receiver(TrackSequence)
    \/ Receiver(InsertSendsNack) \/ Receiver(EnterAwaiting) \/ Receiver(InsertSendsFir)
    \/ Receiver(TrackPendingFramePacket) \/ Receiver(CommitFrame) \/ Receiver(CommitSingle)
    \/ Receiver(ProcessPendingNacks) \/ Receiver(ProcessSendsNack)
    \/ Receiver(MaybeRetryKeyFrameRequest) \/ Receiver(Wait) \/ Receiver(DropFrame)
    \/ Receiver(Synchronize) \/ Receiver(ReleaseFrame) \/ Receiver(HardTimeout)
    \/ Receiver(SoftStall) \/ Receiver(SoftFir) \/ Receiver(DropFrameAssembly)
    \/ Receiver(ProcessSendsFir) \/ Receiver(part = "receiver" /\ OnRttUpdate) \/ Receiver(RvPassTime)

RequesterNext ==
    \/ Requester(NrReceive) \/ Requester(NrProcessNacks) \/ Requester(NrConsumeKeyFrameRequest)
    \/ Requester(NrClearUpTo) \/ Requester(now = 0 /\ NrPassTime)

ReceiveNext == ReceiverNext \/ RequesterNext
ReceiveSpec == ReceiveInit /\ [][ReceiveNext]_<<rvVars, part>>
=============================================================================
