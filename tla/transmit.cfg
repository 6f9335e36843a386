SPECIFICATION FairSpec
CONSTANTS
    large = large
    small = small
    Packets = {large, small}
    Cases <- MCCases
    Size <- MCSize
    Count = 6
    Start = 4
    Reserve = 3
    WakeThreshold = 3
    MaxBatch = 2
    MaxLoss = 1
    None = None
INVARIANTS
    OneOwner
    RewrittenOnce
    NeverStuck
PROPERTIES
    Drained
CHECK_DEADLOCK FALSE
