\* The clock of one marshal is ahead of the server's.
SPECIFICATION Spec
CONSTANTS
    c1 = c1
    c2 = c2
    m1 = m1
    m2 = m2
    Call = {c1}
    Marshal = {m1, m2}
    Path <- Both
    Skew <- SecondAhead
    Script <- Talk
    BillRing = TRUE
    BillLife = 1
    MaxLife = 2
    Word = 16
    MaxClock = 4
    MaxDelay = 1
    RequestIds = 7
    StorageLimit = 2
    MaxFaults = 0
    NoCall = NoCall
INVARIANT
    BilledOnce
CHECK_DEADLOCK FALSE
