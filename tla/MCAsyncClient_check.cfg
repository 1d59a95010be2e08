\* One connection that may break once, two requests: every order of posting, sending,
\* breaking, connecting again and answering; the queues hold one message each.
CONSTANTS
    r1 = r1
    r2 = r2
    NumClients = 1
    Requests <- MCRequests
    MaxPendingMsg = 0
    MaxRecvMsg = 1
    MaxBreaks = 1
    MaxExtras = 1
SPECIFICATION FairSpec
INVARIANTS
    EventsSound
    GarbledOnlyIfCut
PROPERTIES
    ResolvedOnce
CHECK_DEADLOCK FALSE
