CONSTANTS
    a1 = a1
    App <- MCOneApp
    Rx = Rx
    None = None
    Fields <- MCFields
    Setters <- MCSetters
    Values <- MCOneValue
    Encodable <- MCOneValue
    Options <- MCNoOptions
    MaxSequence = 2
    Reports <- MCBootStates
    MaxHellos = 2
    BootStates <- MCFreshBootStates
    MaxBoots = 1
    MaxWire = 1
    MaxInbox = 1

SPECIFICATION LinkSpec

INVARIANT
    PttStands
