CONSTANTS
    u1 = u1 u2 = u2 w1 = w1 c1 = c1 c2 = c2 NoUser = NoUser
    Users <- MCUsers
    Workers <- OneWorker
    Responders <- MCResponders
    NumShards = 2
    MaxReqs = 2
    MaxReplies = 2
SPECIFICATION FairSpec
INVARIANTS
    AnsweredOnce
    SweptStaysClean
PROPERTIES
    ReplyResolves
CHECK_DEADLOCK FALSE
