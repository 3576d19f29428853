CONSTANTS
    r1 = r1
    r2 = r2
    r3 = r3
    Req <- const_Req
    NumBlocks = 5
    BlockSize = 2
    PrefillLens <- const_PrefillLens
    MaxSeqLen = 5
SPECIFICATION Spec
INVARIANTS
    BlocksPartitioned
    KVCoverage
    NoSlotShared
PROPERTY KVStable
CHECK_DEADLOCK FALSE
