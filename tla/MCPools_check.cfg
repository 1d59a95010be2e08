\* The write queue: its limit is one message, so that the limit, the one-over
\* acceptance and the put-back all happen.  The database pool: two workers and
\* three requests for a queue of one.  The client pool: two senders and keepAlive()
\* on two pools that open with one client and have room for a second, so that
\* senders meet at a pool, connect, wait, and time out.
CONSTANTS
    p1 = p1 p2 = p2 w1 = w1 w2 = w2 s1 = s1 s2 = s2 c1 = c1 c2 = c2 c3 = c3 c4 = c4
    Posters <- MCPosters
    MsgLens <- MCMsgLens
    MaxPendingMsg = 1
    MaxUnits = 5
    MaxReads = 1
    Workers <- MCWorkers
    QueueCap = 1
    MaxRetryTimes = 1
    MaxReqs = 3
    Senders <- MCSenders
    NumPools = 2
    CltPoolSize = 2
    ClientIds <- MCClientIds
    MaxRounds = 2
SPECIFICATION FairSpec
INVARIANTS
    Armed
    StreamIntact
    Conserved
    ClientsSound
    ClientsCounted
    AckIsOwn
PROPERTIES
    Delivered
    Answered
    StopCompletes
    ImplementsPool
    SendReturns
CHECK_DEADLOCK FALSE
