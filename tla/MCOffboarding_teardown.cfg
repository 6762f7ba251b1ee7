SPECIFICATION MCSpec
CONSTANTS
    cp = cp
    wk = wk
    a = a
    b = b
    Procs = {a, b}
    Pools = {cp, wk}
    ControlPlanePool = cp
    NoPool = NoPool
    Instances = {1, 2}
    NoInstance = NoInstance
    NoMember = NoMember
    Informer = Informer
    Resetter = Resetter
    ClusterReader = ClusterReader
    Readers = {Resetter, ClusterReader}
    MaxEdits = 2
PROPERTIES
    NoSpuriousReset
    OffboardingEnds
    ClusterTeardownEnds
CHECK_DEADLOCK FALSE
