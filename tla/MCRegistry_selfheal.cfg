SPECIFICATION RegistryFairSpec
CONSTANTS
    hub = hub
    server = server
    hubName = hubName
    zone = zone
    Processes = {hub, server}
    NameOf <- MCNameOf
    Names = {zone}
    Hubs = {hub}
    Reliable = {hub}
    StaleThreshold = 2
    MaxFaults = 3
PROPERTIES
    NoResurrection
    SelfHeals
    DeadIsForgotten
