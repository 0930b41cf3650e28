\* Two marshals that report a call, a second call, and a crash.
SPECIFICATION FairSpec
CONSTANTS
    c1 = c1
    c2 = c2
    m1 = m1
    m2 = m2
    Call = {c1, c2}
    Marshal = {m1, m2}
    Path <- BothAndOne
    Skew <- Synchronised
    Script <- RingAndTalk
    BillRing = TRUE
    BillLife = 1
    MaxLife = 2
    Word = 16
    MaxClock = 4
    MaxDelay = 1
    RequestIds = 7
    StorageLimit = 2
    MaxFaults = 1
    NoCall = NoCall
INVARIANTS
    TypeOK
    BilledOnce
    SentIsAccountedFor
    BillsKept
    AccountedOncePerRun
PROPERTIES
    BilledIsAccountedFor
CHECK_DEADLOCK FALSE
