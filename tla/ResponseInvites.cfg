\* A call with a late request and a second INVITE, two replies.
SPECIFICATION Spec
CONSTANTS
    k1 = k1
    Call = {k1}
    CSeq = {1, 2}
    StatusCode = {100, 200, 400}
    NoMsg = NoMsg
    Container = {c1, c2}
    RetransInit = 1
    RetransCeil = 2
    MaxRetrans = 2
    SendError = {400}
    FifoBound = 1
    PurgeDelay = 0
    PurgePeriod = 0
    Proxy = FALSE
    PeerRequest <- SecondInvite
    ReplyCode = {200}
    MayNotResolve = {}
    NoResponse = NoResponse
    RcvdCopy = RcvdCopy
    Unsent = Unsent
SYMMETRY Interchangeable
INVARIANTS
    TypeOK
    NoDuplicateDelivery
    PairsConsistent
    RecordedFinalKeepsGoing
PROPERTIES
    NoRequestBehindAck
    AckSilencesFirstInvite
CHECK_DEADLOCK FALSE
