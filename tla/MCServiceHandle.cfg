SPECIFICATION FairSpec
CONSTANTS
    Tasks = {t1, t2, t3}
    Waiters = {w1, w2}
    Starter = starter
    Watcher = watcher
INVARIANTS
    HandleInv
PROPERTIES
    NoResurrection
    ImplementsLifecycle
    DeathIsReported
    WaitStopReturns
CHECK_DEADLOCK FALSE
