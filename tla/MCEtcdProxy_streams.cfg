SPECIFICATION FairSpec
CONSTANTS
    Hops = 2
    MaxMessages = 2
INVARIANTS
    CleanEndIsComplete
PROPERTIES
    NoLeak
    ClientIsTold
CHECK_DEADLOCK FALSE
