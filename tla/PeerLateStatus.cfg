SPECIFICATION Spec
CONSTANTS
    MaxConns = 2
    MaxMsgs = 2
    Tickets = TRUE
INVARIANT NoLateStatus
