CONSTANTS
    t1 = t1
    t2 = t2
    t3 = t3
    Threads <- MCThreads
    FrameSizes <- MCFrameSizes
    InitialSize = 2
    Grants <- MCGrants
    MaxWindow = 4

SPECIFICATION FairSpec

INVARIANTS
    TypeOK
    NoLostWakeup

PROPERTY
    ClaimReturns
