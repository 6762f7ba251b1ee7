SPECIFICATION FairSpec
CONSTANTS
    p1 = p1
    p2 = p2
    Pools = {p1}
    NoPool = NoPool
    Instances = {1, 2}
    NoInstance = NoInstance
    Informer = Informer
    Discovery = Discovery
    Readers = {p1, Discovery}
    MaxReplicas = 2
    MaxEdits = 1
PROPERTIES
    EventuallySized
    PoolTeardownEnds
CHECK_DEADLOCK FALSE
