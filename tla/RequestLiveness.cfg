\* Progress of the client half under the fairness of the event loop.
SPECIFICATION FairSpec
CONSTANTS
    k1 = k1
    k2 = k2
    Call = {k1}
    CSeq = {1, 2}
    StatusCode = {100, 404}
    NoMsg = NoMsg
    Container = {c1, c2}
    RetransInit = 1
    RetransCeil = 2
    MaxRetrans = 2
    SendError = {404}
    FifoBound = 1
    PurgeDelay = 1
    PurgePeriod = 0
    Proxy = FALSE
    AppRequest <- SetUpAndEnd
    MayNotResolve = {}
PROPERTIES
    QueueDrains
    FinalEndsTransaction
    EndedCallIsForgotten
CHECK_DEADLOCK FALSE
