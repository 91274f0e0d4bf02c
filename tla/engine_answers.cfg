SPECIFICATION Spec
CONSTANTS
    k1 = k1
    k2 = k2
    Key <- Keys2
    Class <- TwoClasses
    Nowhere = Nowhere
    MaxVersion = 3
    MaxFaults = 1
    Faults <- AnyFault
    RotateAt = 1
    Capacity = 1
SYMMETRY Interchangeable
INVARIANTS OneCopy CountExact DeletesClassified AbsentUnlessMoved
PROPERTIES ImplementsUtxoSet
