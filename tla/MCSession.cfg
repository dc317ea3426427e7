CONSTANTS
    Owner = Owner
    App <- MCApp
    Rx = Rx
    None = None
    Fields <- MCFields
    Setters <- MCNoSetters
    Values <- MCValues
    Encodable <- MCValues
    Options <- MCOptions
    MaxSequence = 8
    Reports <- MCBootStates
    MaxHellos = 2
    BootStates <- MCBootStates
    MaxBoots = 2
    MaxWire = 1
    MaxInbox = 0
    MaxCalls = 3

SPECIFICATION FairSession

CHECK_DEADLOCK FALSE

INVARIANTS
    SessionTypeOK
    UnkeyedOnExit

PROPERTY
    SessionEnds
