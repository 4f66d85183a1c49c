SPECIFICATION RoutingSpec
CONSTANTS
    Sections = {"Nat"}
    NeedsLease = {"Nat"}
    Ifaces = {"eth0", "eth1"}
    Boots <- AllBoots
    Modes = {"off", "lease"}
    Versions = 1
    Leases = 2
    Cap = 2
    IfCap = 1
    Prompt = TRUE
    MayStop = FALSE
    MaxSaves = 1
    MaxDeaths = 0
    MaxIndex = 2
    MaxAcquired = 2
    Owners = {l1, d1}
    Docker = {d1}
    NoOwner = NoOwner
    Callers = {c1, c2}
    MaxRouteOps = 2
    MaxSyncFails = 1
    Targets = 2
    failure_threshold = 2
    recovery_threshold = 2
    reliability = 2
    MaxRounds = 6
    MaxRuns = 2
    MaxRouteLosses = 2
INVARIANTS  RoutesInv VerdictIsDebounced VerdictsTold
PROPERTY KernelConverges
CHECK_DEADLOCK FALSE
