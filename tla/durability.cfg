SPECIFICATION Spec
CONSTANTS
    k1 = k1
    k2 = k2
    k3 = k3
    Key <- Keys2
    MaxVersion = 4
    MaxFaults = 2
    Faults <- Reported
    RotateAt = 1
    Capacity = 1
    MaxCached = 1
    Reinserts = FALSE
SYMMETRY Interchangeable
INVARIANTS SyncReachesOwn RiskIsOwed NothingStale
PROPERTIES ImplementsDurableSet
