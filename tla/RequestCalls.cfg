\* Two sends in two calls: an id sent again, a CANCEL beside another call; in a
\* proxy, where 200s for an INVITE pass through unrecorded.
SPECIFICATION Spec
CONSTANTS
    k1 = k1
    k2 = k2
    Call = {k1, k2}
    CSeq = {1, 2}
    StatusCode = {200, 404}
    NoMsg = NoMsg
    Container = {c1, c2}
    RetransInit = 1
    RetransCeil = 2
    MaxRetrans = 4
    SendError = {404}
    FifoBound = 1
    PurgeDelay = 0
    PurgePeriod = 0
    Proxy = TRUE
    AppRequest <- TwoCalls
    MayNotResolve <- TheInfo
SYMMETRY Interchangeable
INVARIANTS
    TypeOK
    AtMostOneFinal
    NoLostRequest
    UniquePairs
PROPERTIES
    QuietAfterStatus
    QuietAfterCancel
    ImplementsPromise
CHECK_DEADLOCK FALSE
