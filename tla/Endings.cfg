SPECIFICATION EndingsSpec
CONSTANTS
    Workers <- TwoWorkers
    MessageSlots = 1
    StatusSlots = 2
    ServerAccepts = TRUE
    UriResults <- UriGood
    CallbackCloses = FALSE
    MaxConns = 2
    MaxMsgs = 1
    Tickets = FALSE
INVARIANT CallbacksFinished
PROPERTIES CloseReturns ReconnectFinishes RemovedIsEnded
