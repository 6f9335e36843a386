SPECIFICATION FairSpec
CONSTANTS
    Nets = {n0, n1, n2}
    InitNet = n0
    Slots = {d0, d1}
    Policies = {p1, p2}
    Cpus = {c1}
    Users = {u1, u2}
    None = None
INVARIANTS
    ReadersSafe
    FreedOnce
    DeletedForGood
    Isolated
    ServedWhileRoom
PROPERTIES
    DeletionEnds
CHECK_DEADLOCK FALSE
