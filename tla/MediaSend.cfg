SPECIFICATION MediaSpec
CONSTANTS
    SeqMod = 8
    MaxCapacity = 2
    MaxNacksPerTask = 1
    MinDuration = 1
    DurationRtts = 1
    CullingFactor = 2
    DefaultRtt = 1
    Rtts <- LongRtt
    NackBatches <- OneBatch
    FirstSeqs <- BeforeWrap
    MaxPackets = 3
    MaxPauses = 1
    MaxBacklog = 2
    MaxClock = 2
    Ssrcs <- MediaStreams
    Sources <- MediaSources
    PadSsrc = "rtx"
    KeepAlive = 2
    Burst = 2
    MaxDebt = 2
    MaxElapsed = 4
    Replay = 1
    CullAfter = 1
    MaxWall = 3
    SlowFrom = 2
    MaxPosted = 2
    MaxOps = 3
INVARIANTS
    HistoryIsWindow RetransmissionServed
    QueueBooks ProcessTaskOnItsWay LoopBounded
PROPERTIES
    RtxSpacing StoreImplemented PauseCutsExactly
