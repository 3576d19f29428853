SPECIFICATION Spec
CONSTANTS
    a = a
    b = b
    Engine = {a, b}
    MaxPending <- const_MaxPending
    MaxSpin = 1
    MaxParts = 3
    Quota <- const_Quota
    BatchParts <- const_BatchParts
INVARIANTS
    SourcesKeptAlive
    PairedWithOwnTensor
    AnnouncedIsBounded
PROPERTIES
    ImplementsLink
CHECK_DEADLOCK FALSE
