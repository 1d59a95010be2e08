CONSTANTS
    f1 = f1
    f2 = f2
    o1 = o1
    Fds <- MCFds
    Others <- MCOthers
    MaxUsers = 2
    NumWorkers = 1
    MaxConnections = 1
    QueueCap = 1
    MaxMsgs = 1
    ErrorOnly = FALSE
    EarlyClients = TRUE
SPECIFICATION Spec
INVARIANT
    Routed
CHECK_DEADLOCK FALSE
