CONSTANTS
    fend = fend
    fesc = fesc
    tfend = tfend
    tfesc = tfesc
    x = x
    FEND = fend
    FESC = fesc
    TFEND = tfend
    TFESC = tfesc
    Plain <- MCPlain
    Commands <- MCPlain
    Payloads <- MCPayloads
    None = None
    MaxSends = 3
    MaxFaults = 2

SPECIFICATION Spec

CHECK_DEADLOCK FALSE

INVARIANTS
    TypeOK
    NothingHeldBack

PROPERTY
    ImplementsChannel
