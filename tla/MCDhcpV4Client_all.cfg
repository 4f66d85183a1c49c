SPECIFICATION FairSpec
CONSTANTS
    a1 = a1
    a2 = a2
    Addrs = {a1, a2}
    NoAddr = NoAddr
    Options <- AllOptions
    Xids = {1, 2, 3, 4}
    MaxNet = 1
    DEFAULT_TIME_OUT = 1
    MAX_BACKOFF = 3
    MIN_WAIT = 3
    DISCOVER_ATTEMPTS_PER_ROUND = 2
    REQUEST_ATTEMPTS = 2
INVARIANTS HostInv LeaseNotOutlived
PROPERTIES DiscoversClean BindsCurrentAnswer KeepsAsking StopEnds
CHECK_DEADLOCK FALSE
