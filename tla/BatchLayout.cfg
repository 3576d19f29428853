SPECIFICATION Spec
CONSTANTS
    Req = {1, 2, 3}
    Expert = {0, 1, 2}
    Rank = {0, 1}
    Home <- MCHome
    Channel <- MCChannel
    Gates <- Top1And2
    Threshold = 2
    use_gdrcopy = TRUE
INVARIANTS
    RowsMatchMetadata
    WeightedSum
    PrefillInFront
    NothingLeftBehind
CHECK_DEADLOCK FALSE
