SPECIFICATION RttSpec
CONSTANTS
    MaxSample = 127
    Word = 1024
    Elapsed <- SmallElapsed
INVARIANTS
    RttInRange
PROPERTIES
    RttMovesToSample
