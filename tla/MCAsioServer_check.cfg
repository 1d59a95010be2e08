\* Two connections and room for one; the first carries two messages, each in or out.
CONSTANTS
    MaxUsers = 2
    MaxConnections = 1
    MaxRdQueueSize = 1
    MaxWrQueueSize = 2
    MaxBatchSize = 1
    MaxMsgs <- MCMaxMsgs
SPECIFICATION FairSpec
INVARIANTS
    CallbackOrder
    WriteGoesOn
    UserQueueSound
PROPERTIES
    StopCompletes
CHECK_DEADLOCK FALSE
