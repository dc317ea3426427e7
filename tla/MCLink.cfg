CONSTANTS
    a1 = a1
    App <- MCOneApp
    Rx = Rx
    None = None
    Fields <- MCFields
    Setters <- MCNoSetters
    Values <- MCOneValue
    Encodable <- MCOneValue
    Options <- MCNoOptions
    MaxSequence = 2
    Reports <- MCBootStates
    MaxHellos = 2
    BootStates <- MCBootStates
    MaxBoots = 2
    MaxWire = 2
    MaxInbox = 1

SPECIFICATION LinkSpec

INVARIANTS
    LinkTypeOK
    AcknowledgedMeansAgreed
    Converged

PROPERTY
    ImplementsRegister
