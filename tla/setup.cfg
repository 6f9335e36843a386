SPECIFICATION FairSpec
CONSTANTS
    s1 = s1
    s2 = s2
    Sessions = {s1, s2}
    NoSession = NoSession
    Last = 3
    H = 4
    BucketOf <- AllCollide
    Loads <- MixedLoads
INVARIANTS
    ChainKept
    HopsAgree
    OneSubsession
    NumbersKnown
PROPERTIES
    Connected
CHECK_DEADLOCK FALSE
