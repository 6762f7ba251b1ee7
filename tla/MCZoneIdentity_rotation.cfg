SPECIFICATION FairSpec
CONSTANTS
    MaxKeys = 7
    Rotation = 5
    Overlap = 3
    CacheTTL = 2
    Threshold = 2
    MaxUnreachable = 2
    MaxDisturbances = 6
INVARIANTS
    ShortOutage
    FailsClosed
PROPERTIES
    Reconciled
