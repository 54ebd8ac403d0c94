SPECIFICATION ConnectionSpec
CONSTANTS
    MaxConns = 2
    MaxMsgs = 2
    Tickets = TRUE
    MaxEarly = 1
    MaxTicks = 1
    MaxLoss = 1
    MaxRechecks = 1
    MaxSignals = 1
    MaxLag = 1
    Cases <- ModesAndFaults
INVARIANTS
    OneTerminal CleanupServed
    MediaIsFounded QueuesAgree
PROPERTIES FailedIsFinal
