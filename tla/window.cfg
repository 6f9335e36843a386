SPECIFICATION FairSpec
CONSTANTS
    H = 8
    First <- MCFirst
    Bytes <- MCBytes
    MaxWndRec = 1
    Space = 3
    Scales = {0}
    Savers = {k1}
    MaxAcks = 2
    None = None
INVARIANTS
    SocketsPaired
    Throttled
PROPERTIES
    AllRead
CHECK_DEADLOCK FALSE
