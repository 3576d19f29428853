CONSTANTS
    r1 = r1
    r2 = r2
    r3 = r3
    NoReq = NoReq
    Req = {r1, r2}
    DpSize = 1
    BlockSize = 16
    Blocks0 = 2
    Blocks1 = 2
    P1 = 16
    P2 = 16
    P3 = 16
    O1 = 16
    O2 = 16
    O3 = 16
    T1 = 1
    T2 = 1
    T3 = 1
    Samplers = {"dummy"}
    Tokens <- const_Tokens
    TokensPerRow = 100
    Capacity <- const_Capacity
    Prefill <- const_Prefill
    Output <- const_Output
    Policies = {"max", "cap_rr", "weighted"}
    Weight <- const_Weight
SPECIFICATION ServingSpec
INVARIANT AppendAssertHolds
CHECK_DEADLOCK FALSE
