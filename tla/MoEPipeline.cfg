SPECIFICATION Spec
CONSTANTS
    q1 = q1  q2 = q2
    Req = {q1, q2}
    H1 = 0  H2 = 1
    O1 = 2  O2 = 1
    Home <- HomeOf
    Output <- OutputOf
    ExpertRank <- ExpertRankOf
    DpSize = 2
    NumLayers = 2
    NumExperts = 3
    AttnThreshold = 2
    ExpertThreshold = 2
    Configs <- ConfigsOf
INVARIANTS WholeOrSplit ChosenLayerHasTokens
PROPERTY ImplementsDecodeFlow
CHECK_DEADLOCK FALSE
