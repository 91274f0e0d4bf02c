SPECIFICATION FairSpec
CONSTANTS
    k1 = k1
    k2 = k2
    k3 = k3
    Key <- Keys2
    None = None
    MaxVersion = 3
    MaxMerges = 2
    MaxFaults = 1
    Faults <- WithoutPowerLoss
    RotateAt = 1
    Capacity = 1
    MaxSources = 5
PROPERTIES ServesAgain CompactionEnds
