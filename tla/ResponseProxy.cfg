\* Proxy context: nothing is recorded and nothing repeated; progress under the
\* fairness of the event loop.
SPECIFICATION FairSpec
CONSTANTS
    k1 = k1
    Call = {k1}
    CSeq = {1, 2}
    StatusCode = {100, 200, 400}
    NoMsg = NoMsg
    Container = {c1, c2}
    RetransInit = 1
    RetransCeil = 2
    MaxRetrans = 3
    SendError = {400}
    FifoBound = 1
    PurgeDelay = 1
    PurgePeriod = 1
    Proxy = TRUE
    PeerRequest <- Cancelled
    ReplyCode = {100, 200}
    MayNotResolve <- TheInvite
    NoResponse = NoResponse
    RcvdCopy = RcvdCopy
    Unsent = Unsent
INVARIANTS
    ProxySendsOnce
PROPERTIES
    EndedCallIsForgotten
CHECK_DEADLOCK FALSE
