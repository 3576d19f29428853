SPECIFICATION Spec
CONSTANTS
    BlockSize = 2
    q1 = q1  q2 = q2  q3 = q3  q4 = q4  q5 = q5
    Req = {q1, q2, q3, q4, q5}
    NoReq = NoReq
    Worker = {w1, w2}
    P1 = 3  L1 = 2
    P2 = 1  L2 = 0
    P3 = 4  L3 = 4
    P4 = 3  L4 = 3
    P5 = 6  L5 = 6
    Prompt <- PromptOf
    PrefillLen <- PrefillLenOf
    MaxPages = 2
    NumBlocks = 3
    MaxItems = 2
    MaxAttempts = 3
INVARIANTS AdmittedWithOwnKV OnePlace BlocksHeldByWhom
PROPERTY SettledWhileAWorkerLives
CHECK_DEADLOCK FALSE
