SPECIFICATION FairSpec
CONSTANTS
    Sections = {"Pd"}
    NeedsLease = {}
    Ifaces = {"eth0"}
    Boots <- LeaseOn
    Modes = {"off", "lease"}
    Versions = 1
    Leases = 1
    Cap = 4
    IfCap = 1
    Prompt = TRUE
    MayStop = TRUE
    MaxSaves = 1
    MaxDeaths = 1
    MaxIndex = 2
    MaxAcquired = 1
INVARIANTS LinkInv LinkSettled
PROPERTIES StopEnds Converges
CHECK_DEADLOCK FALSE
