CONSTANTS
    Ids = {a, b, c, d}
    MaxSize = 2
    Window = 3
    MaxTime = 7
SPECIFICATION Spec
SYMMETRY IdSymmetry
INVARIANTS Capacity Remembered
PROPERTY NoEarlyRepeat
CHECK_DEADLOCK FALSE
