SPECIFICATION FairSpec
CONSTANTS
    Servers = {1, 2}
    Own = 1
    MaxVersion = 2
    MaxDisturbances = 2
INVARIANTS
    PodHasItsParts
PROPERTIES
    TornDownFirst
    StatusSettles
    FootprintFollows
    TeardownEnds
CHECK_DEADLOCK FALSE
