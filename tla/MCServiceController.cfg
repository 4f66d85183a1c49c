SPECIFICATION Spec
CONSTANTS
    Callers = {c1, c2}
    MaxSups = 2
    MaxRuns = 3
    MaxVersion = 2
    Ops = {"set", "delete", "trigger", "stop_all", "timeout", "restart"}
SYMMETRY Interchangeable
INVARIANTS
    ManagerInv
    NoLeakedRun
CHECK_DEADLOCK FALSE
