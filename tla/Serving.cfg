CONSTANTS
    r1 = r1
    r2 = r2
    r3 = r3
    NoReq = NoReq
    Req = {r1, r2, r3}
    DpSize = 2
    BlockSize = 2
    Blocks0 = 4
    Blocks1 = 2
    P1 = 3
    P2 = 2
    P3 = 8
    O1 = 2
    O2 = 2
    O3 = 1
    T1 = 3
    T2 = 4
    T3 = 1
    Samplers = {"dummy", "none", "mooncake"}
    Tokens <- const_Tokens
    TokensPerRow = 4
    Capacity <- const_Capacity
    Prefill <- const_Prefill
    Output <- const_Output
    Policies = {"RR", "max"}
    Weight <- const_Weight
SPECIFICATION ServingSpec
INVARIANTS ReservationsCoverUse AdmittedPromptFits ResolvedIsClean
PROPERTY EventuallyResolved
CHECK_DEADLOCK FALSE
