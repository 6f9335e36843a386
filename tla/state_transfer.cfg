SPECIFICATION Spec
CONSTANTS
    H = 8
    LSeq = 14
    LAck = 5
    RSeq = 9
    RAck = 3
    N = 2
    MaxSeg = 1
    Sender = "L"
    SenderBare = FALSE
    StateTransfer = TRUE
    AllocMayFail = TRUE
    LeftIsEndpoint = TRUE
CHECK_DEADLOCK FALSE
PROPERTIES
    NewPathIsForGood
