CONSTANTS
    a1 = a1
    a2 = a2
    App <- MCTwoApps
    Owner = a1
    None = None
    MaxOpens = 2
    MaxBoots = 2

SPECIFICATION LifecycleSpec

INVARIANTS
    LifecycleTypeOK
    ErrorIsCurrent
    EnterCleansUp
    OpenMeansReady

CONSTRAINT MCJoined
