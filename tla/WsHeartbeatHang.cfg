SPECIFICATION FairSpec
CONSTANTS
    Workers <- TwoWorkers
    MessageSlots = 1
    StatusSlots = 2
    ServerAccepts = TRUE
    UriResults <- UriGood
    CallbackCloses = FALSE
PROPERTY HeartbeatJoinReturns
CHECK_DEADLOCK FALSE
