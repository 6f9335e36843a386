SPECIFICATION Spec
CONSTANTS
    H = 8
    LSeq = 14
    LAck = 13
    RSeq = 9
    RAck = 3
    N = 2
    MaxSeg = 1
    Sender = "R"
    SenderBare = TRUE
    StateTransfer = FALSE
    AllocMayFail = TRUE
    LeftIsEndpoint = TRUE
INVARIANTS
    ReleasedWhenAcked
CHECK_DEADLOCK FALSE
