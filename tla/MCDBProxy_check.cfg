CONSTANTS
    u1 = u1
    u2 = u2
    w1 = w1
    w2 = w2
    c1 = c1
    NoUser = NoUser
    Users <- MCUsers
    Workers <- MCWorkers
    PoolThreads <- OnePoolThread
    NumShards = 2
    MaxReqs = 2
SPECIFICATION FairSpec
INVARIANTS
    ContextsOutliveUse
    OrphanWasOvertaken
PROPERTIES
    PendingResolved
CHECK_DEADLOCK FALSE
