SPECIFICATION FairSpec
CONSTANTS
    MinBitrate = 4
    MaxBitrate = 20
    DefaultRtt = 2
    ShortestInterval = 1
    LongestInterval = 3
    InitializationTs = 1
    Signals = {NORMAL, UNDERUSING, OVERUSING}
    BW_NORMAL = NORMAL
    BW_OVERUSING = OVERUSING
    AckedRates = {0, 3, 12, 30}
    Rtts = {0, 2, 5}
    MaxFailedCount = 2
    Counts <- LowAndHigh
    Skews <- AheadAndBehind
INVARIANTS
    TypeOK
    NeverAboveAcked
PROPERTIES
    StarvedComesDown
    SteadyIsTold
