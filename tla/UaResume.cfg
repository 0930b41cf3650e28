\* A call that is put on hold and resumed.
SPECIFICATION Spec
CONSTANTS
    alice = alice
    bob = bob
    server = server
    c1 = c1
    c2 = c2
    Ua = {alice, bob}
    ServerUa = {}
    Call = {c1}
    Caller <- CallerOne
    Callee <- CalleeOne
    ProxyCode = {}
    MaxReInvite = 2
    MaxLost = 0
    NoCall = NoCall
    NoAgent = NoAgent
INVARIANTS
    HoldKeepsCall
CHECK_DEADLOCK FALSE
