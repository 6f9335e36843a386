SPECIFICATION FairSpec
CONSTANTS
    H = 8
    LSeq = 14
    LAck = 5
    RSeq = 9
    RAck = 3
    N = 2
    MaxSeg = 1
    Sender = "L"
    SenderBare = FALSE
    StateTransfer = FALSE
    AllocMayFail = FALSE
    LeftIsEndpoint = TRUE
PROPERTIES
    AllDelivered
