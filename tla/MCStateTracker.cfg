CONSTANTS
    a1 = a1
    App <- MCOneApp
    Rx = Rx
    None = None
    Fields <- MCFields
    Setters <- MCSetters
    Values <- MCValues
    Encodable <- MCEncodable
    Options <- MCOptions
    MaxSequence = 2
    Reports <- MCReports
    MaxHellos = 2

SPECIFICATION FairSpec

INVARIANTS
    TypeOK
    NewestIsCurrent
    EdgesReported

PROPERTY
    StoredWhileWriterHangs
