SPECIFICATION FairSpec
CONSTANTS
    BurstThreshold = 1
    OffsetThreshold = 1
    GroupLen = 2
    Word = 6
    Counts = {0, 2}
    Slopes <- FlatAndSteep
    PrevSlopes = {0}
    Overuses = {2}
    MinNumDeltas = 3
    Threshold0 = 6
    ThresholdMin = 4
    ThresholdMax = 7
    MaxAdaptOffset = 3
    MaxTimeDelta = 1
    OverusingTime = 1
    Up = 1
    Down = 2
    Per = 2
    Packets <- PacketsOf
    Samples = {0}
    MaxGap = 2
    MaxTime = 7
INVARIANTS
    TypeOK
    OrderedIsExact
PROPERTIES
    AlarmTakesTwo
    BlockedRecovers
