CONSTANTS
    f1 = f1
    f2 = f2
    o1 = o1
    Fds <- MCFds
    Others <- MCOthers
    MaxUsers = 3
    NumWorkers = 1
    MaxConnections = 2
    QueueCap = 1
    MaxMsgs = 0
    ErrorOnly = FALSE
    EarlyClients = FALSE
SPECIFICATION Spec
SYMMETRY FdSymmetry
INVARIANTS
    DescriptorOwned
    CloseJustified
CHECK_DEADLOCK FALSE
