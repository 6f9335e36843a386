SPECIFICATION FairSpec
CONSTANTS
    N = 5
    Plans <- AllPlans
    Offsets <- SameBothWays
    MaxLost = 1
    Ends = TRUE
INVARIANTS
    SegmentLocked
    NoOrphanLocks
    AssertionsHold
    NumbersCarryOver
PROPERTIES
    LocksSegments
    Answered
CHECK_DEADLOCK FALSE
