SPECIFICATION Spec
CONSTANTS
    WinSize = 3
    Threshold = 3
    Sizes = {1, 2}
    Garbage = {0, 2}
    IntMax = 6
    MaxNow = 8
INVARIANTS
    BurstBounded
    RecoversAfterWindow
CHECK_DEADLOCK FALSE
