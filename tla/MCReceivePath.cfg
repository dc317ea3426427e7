CONSTANTS
    None = None
    Applied <- MCApplied
    Sizes <- MCSizes
    Texts <- MCTexts
    MaxFrames = 3
    MaxBoots = 2

SPECIFICATION Spec

CHECK_DEADLOCK FALSE

INVARIANTS
    TypeOK
    NothingInvented
    WindowOfHello
