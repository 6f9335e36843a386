SPECIFICATION Spec
CONSTANTS
    Cpus = {c1, c2}
    P = 8
    MinPort = 4
    FirstNeighbor = 2
SYMMETRY Symmetry
INVARIANTS
    PortsApart
    SourcesRotate
PROPERTIES
    FreshUntilTorn
CHECK_DEADLOCK FALSE
