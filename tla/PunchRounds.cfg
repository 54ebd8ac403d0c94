SPECIFICATION PrSpec
CONSTANTS
    r1 = r1
    r2 = r2
    Runtimes <- TwoRuntimes
    Pools <- APool
    LeaseLimits = {1, 2}
    SharedBurst = 1
    SharedRate = 1
    Burst = 1
    Rate = 1
    PacketLimit = 3
    AckReserve = 1
    Endpoints = 2
    Ports = 2
    Passes = 1
    PassGap = 1
    PromotedLimit = 1
    MaxAcks = 1
    Duration = 1
    FinishReserve = 1
    RetrySlack = 1
    RetryModes = {TRUE, FALSE}
    Deadline = 4
    MaxTicks = 4
INVARIANT LeasesAccountedFor
PROPERTY WaitersServed
