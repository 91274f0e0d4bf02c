SPECIFICATION Spec
CONSTANTS
    k1 = k1
    k2 = k2
    k3 = k3
    Key <- Keys2
    None = None
    MaxVersion = 4
    MaxMerges = 2
    MaxFaults = 2
    Faults <- PowerLossOnly
    RotateAt = 1
    Capacity = 2
    MaxSources = 5
SYMMETRY Interchangeable
INVARIANTS EntriesKept ServedOnce
PROPERTIES RetiredBehindDurableTarget
