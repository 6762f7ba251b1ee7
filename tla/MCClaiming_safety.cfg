SPECIFICATION Spec
CONSTANTS
    p1 = p1
    p2 = p2
    Pools = {p1, p2}
    NoPool = NoPool
    Instances = {1}
    NoInstance = NoInstance
    Informer = Informer
    Discovery = Discovery
    Readers = {p1, p2, Discovery}
    MaxReplicas = 1
    MaxEdits = 1
INVARIANTS
    UndiscoveredIsReborn
PROPERTIES
    ClaimNeverStolen
    ClaimedNotProbed
CHECK_DEADLOCK FALSE
