\* One call, with a hold, and a message that gets lost or cannot be sent.
SPECIFICATION FairSpec
CONSTANTS
    alice = alice
    bob = bob
    server = server
    c1 = c1
    c2 = c2
    Ua = {alice, bob}
    ServerUa = {}
    Call = {c1}
    Caller <- CallerOne
    Callee <- CalleeOne
    ProxyCode = {401}
    MaxReInvite = 1
    MaxLost = 1
    NoCall = NoCall
    NoAgent = NoAgent
INVARIANTS
    LegFollowsControl
    InCallHasSession
    SessionAtHand
    MediaReleased
PROPERTIES
    CancelEnds
CHECK_DEADLOCK FALSE
