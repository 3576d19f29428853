CONSTANTS
    r1 = r1
    r2 = r2
    r3 = r3
    r4 = r4
    NoReq = NoReq
    Req <- const_Req
    DpSize = 2
    BlockSize = 2
    Capacity <- const_Capacity
    Prefill <- const_Prefill
    Output <- const_Output
    Policies = {"RR", "max", "cap_rr", "weighted"}
    Weight <- const_Weight
SPECIFICATION Spec
INVARIANTS ReservationsBalance NoOverCommit NoLostWakeup
PROPERTIES EventuallyPlaced TerminateReturns
CHECK_DEADLOCK FALSE
