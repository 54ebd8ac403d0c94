SPECIFICATION ReceiveSpec
CONSTANTS
    SeqMod = 12
    MaxPacketAge = 3
    MaxNackPackets = 1
    MaxNackRetries = 4
    SendNackDelay = 0
    FailedRetryDelay = 1
    DefaultRtt = 1
    MaxRttSample = 20
    ReorderWaits <- NoWait
    MaxNow = 2
    Stream <- SingleFrames
    KeyChoices <- AnyOne
    TsMod = 8
    Timing <- ShortWindows
    FirRetryInterval = 2
    FailedFirInterval = 1
    MaxArrivals = 3
    MaxUnaided = 3
INVARIANT DiscardedStaysOut
