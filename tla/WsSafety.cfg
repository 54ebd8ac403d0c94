SPECIFICATION SignalingSpec
CONSTANTS
    Workers <- TwoWorkers
    MessageSlots = 1
    StatusSlots = 2
    ServerAccepts = TRUE
    UriResults <- UriAny
    CallbackCloses = TRUE
    Sessions = {"s1"}
    Adapters = {TRUE, FALSE}
    Lives = {1, 2}
    TurnLives = {1}
    MaxLinks = 3
    MaxTokens = 1
    MaxJobs = 2
    MaxWire = 1
    MaxMoment = 1
INVARIANTS OneConnector DrainedBeforeConnect NoRevival PendingJoinKept
PROPERTIES ClickNotLost CredentialUse IceConfigCurrent
CHECK_DEADLOCK FALSE
