CONSTANTS
    f1 = f1
    f2 = f2
    o1 = o1
    Fds <- MCOneFd
    Others <- MCOthers
    MaxUsers = 2
    NumWorkers = 1
    MaxConnections = 1
    QueueCap = 1
    MaxMsgs = 1
    ErrorOnly = TRUE
    EarlyClients = FALSE
SPECIFICATION FairSpec
PROPERTIES
    BrokenIsReclaimed
    StopCompletes
    ImplementsLifecycle
CHECK_DEADLOCK FALSE
