SPECIFICATION FairSpec
CONSTANTS
    Seqs = {1, 2}
    Garbage = {0, 5}
    IntMax = 1000000
    Size <- SizeOf
    Rates = {4, 16}
    MinRates = {0}
    MaxSpaceQueueMs = 3
    MinPacketLimitMs = 1
    MaxIntervalMs = 2
    IntervalWindowMs = 2
PROPERTIES
    FrontIsSent
CHECK_DEADLOCK FALSE
