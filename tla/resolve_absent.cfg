SPECIFICATION Spec
CONSTANTS
    k1 = k1
    k2 = k2
    Key <- Keys2
    Class <- OneClass
    Nowhere = Nowhere
    MaxVersion = 3
    MaxFaults = 0
    Faults <- NoFaults
    RotateAt = 1
    Capacity = 2
INVARIANTS AbsentIsAbsent
