\* A duplicate INVITE ends the retransmission of the 200.
SPECIFICATION Spec
CONSTANTS
    k1 = k1
    Call = {k1}
    CSeq = {1, 2}
    StatusCode = {100, 200, 400}
    NoMsg = NoMsg
    Container = {c1}
    RetransInit = 1
    RetransCeil = 2
    MaxRetrans = 3
    SendError = {400}
    FifoBound = 1
    PurgeDelay = 1
    PurgePeriod = 1
    Proxy = FALSE
    PeerRequest <- OneInvite
    ReplyCode = {100, 200}
    MayNotResolve = {}
    NoResponse = NoResponse
    RcvdCopy = RcvdCopy
    Unsent = Unsent
INVARIANTS
    LostResponseResent
CHECK_DEADLOCK FALSE
