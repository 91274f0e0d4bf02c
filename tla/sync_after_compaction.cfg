SPECIFICATION Spec
CONSTANTS
    k1 = k1
    k2 = k2
    k3 = k3
    Key <- Keys3
    MaxVersion = 4
    MaxFaults = 0
    Faults <- NoFaults
    RotateAt = 1
    Capacity = 2
    MaxCached = 1
    Reinserts = FALSE
SYMMETRY Interchangeable
INVARIANT SyncReachesAll
