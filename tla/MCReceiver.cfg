SPECIFICATION BoeSpec
CONSTANTS
    MaxSeq = 6
    Index <- IndexOf
    Interval <- IntervalOf
    JumpTs = 3
    LossLimit = 3
    Garbage = {0, 3}
    Estimates <- Networks
    DefaultFrame = 10
    ActiveFrame = 5
    Period = 2
    Word = 128
INVARIANTS
    BaseCutsNoFrame
    MissingIsListed
    WaitCoversFrame
