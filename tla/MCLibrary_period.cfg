CONSTANTS
    Parts = {"timer"}
    mw1 = mw1 mw2 = mw2 mr1 = mr1 mr2 = mr2 ma1 = ma1 ma2 = ma2 gc1 = gc1 gc2 = gc2 gw1 = gw1 gw2 = gw2
    MongoWorkers = {mw1, mw2}
    MongoReqs = {mr1, mr2}
    MongoMixes <- MCMongoMixes
    RawClts = {ma1, ma2}
    MongoClts = {md1, md2}
    MongoOps = 2
    MongoMaxRetry = 1
    MongoMaxPending = 1
    NoMongo = NoMongo
    SqlReqs = {1, 2, 3}
    SqlMixes <- MCSqlMixes
    IntMax = 3
    RedisInts = {0, 1, 3, 4}
    RedisElems <- MCRedisElems
    MaxElems = 4
    GateClients = {gc1, gc2}
    GateWorkers = {gw1, gw2}
    GateMixes <- MCGateMixes
    GateRequests = 2
    GateBreaks = 1
    NoGate = NoGate
    ByteValues = 14
    RsaLen = 6
    RsaPad = 3
    KeyByte = 9
    KeyLens <- MCKeyLens
    BlockLen <- MCBlockLen
    WireMessages <- MCWireMessages
    PlainTexts <- MCPlainTexts
    HeaderSize = 2
    MaxBodySize = 6
    MaxPendingSize = 8
    ChunkSize = 5
    BlockSize = 2
    FrameBodies = {0, 1, 2, 4, 7}
    FrameSerials <- MCFrameSerials
    MaxFrames = 3
    TickUnits = {"TenSecond"}
    TimerTasks = {t1, t2}
    TimerHorizon = 125
    StatLimits <- MCStatLimits
    StatCosts = {0, 2, 9}
    StatPercents = {50, 80, 99}
    IntMaxCost = 1000
    MaxStat = 2
    MaxSnapshots = 2
    MaxAttempts = 3
    NoAttempt = 0
SPECIFICATION Spec
CHECK_DEADLOCK FALSE
INVARIANT
    PeriodKept
