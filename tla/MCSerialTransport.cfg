CONSTANTS
    a1 = a1
    a2 = a2
    App <- MCApp
    Owner = a1
    None = None
    MaxOpens = 2

SPECIFICATION FairSpec

INVARIANTS
    TypeOK
    CloseIsSilent
    ClosedMeansStopped
    OwnPortOnly

PROPERTY
    CloseReturns
