SPECIFICATION Spec
CONSTANTS
    Req = {1, 2, 3}
    Expert = {0, 1, 2}
    Rank = {0, 1}
    Home <- MCHome
    Channel <- MCChannel
    Gates <- OnlyTop2
    Threshold = 3
    use_gdrcopy = FALSE
INVARIANT
    WeightedSum
CHECK_DEADLOCK FALSE
