SPECIFICATION FairSpec
CONSTANTS
    hub = hub
    server = server
    h = h
    s = s
    global = global
    zoneA = zoneA
    zoneB = zoneB
    NoProc = NoProc
    Procs = {hub, server}
    Threads = {h, s}
    ProcOf <- MCProcOf
    Keys = {global, zoneB}
    GlobalKey = global
    SelfZoneKey <- MCSelfZoneKey
    LeaseDuration = 2
    Skew <- MCSkew
    MaxTime = 5
    CrashTime = 1
INVARIANTS
    TypeOK
    ExclusionWithinLease
PROPERTIES
    NoSpuriousTakeover
    ImplementsZoneLock
    Failover
