SPECIFICATION ProgressSpec
CONSTANTS
    p1 = p1
    p2 = p2
    Posters <- TwoPosters
    Delays <- NowOrLater
    MaxTasks = 2
    MaxTime = 2
    MaxEarly = 1
    MaxTicks = 1
    MaxLoss = 2
    MaxRechecks = 1
    MaxSignals = 1
    MaxLag = 1
    Cases <- ModesLooked
INVARIANTS NoLostWakeup SamePosterInOrder
PROPERTIES TasksRun StopReturns HandshakeCompletes
