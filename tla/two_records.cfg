SPECIFICATION Spec
CONSTANTS
    k1 = k1
    k2 = k2
    k3 = k3
    Key <- Keys2
    None = None
    MaxVersion = 4
    MaxMerges = 2
    MaxFaults = 2
    Faults <- CrashAndPower
    RotateAt = 1
    Capacity = 1
    MaxSources = 5
SYMMETRY Interchangeable
INVARIANT RecoveryNeverRefuses
