\* A call, and another one that makes its callee busy, to a server.
SPECIFICATION Spec
CONSTANTS
    alice = alice
    bob = bob
    server = server
    c1 = c1
    c2 = c2
    Ua = {alice, bob, server}
    ServerUa = {server}
    Call = {c1, c2}
    Caller <- CallerTwo
    Callee <- CalleeTwo
    ProxyCode = {401, 302}
    MaxReInvite = 0
    MaxLost = 0
    NoCall = NoCall
    NoAgent = NoAgent
INVARIANTS
    TypeOK
    AgentPersisted
    MediaReleased
    StaysUp
    EndsOnBothSides
CHECK_DEADLOCK FALSE
