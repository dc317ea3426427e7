CONSTANTS
    a1 = a1
    Rx = Rx
    App <- MCApp
    FrameSizes <- MCFrameSizes
    InitialSize = 3
    DeviceWindow = 2
    MaxBoots = 2
    MaxInbox = 2

SPECIFICATION Spec

INVARIANTS
    TypeOK
    Accounted

PROPERTY
    SendReturns
