SPECIFICATION Spec
CONSTANTS
    H = 8
    B = 4
    Setups <- AllSetups
    MaxNow = 3
INVARIANTS
    ChecksumsHold
    EchoReturns
    DroppedWithinSkew
    NoOverrun
    OffsetsKept
