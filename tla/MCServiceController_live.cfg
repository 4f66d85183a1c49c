SPECIFICATION FairSpec
CONSTANTS
    Callers = {c1, c2}
    MaxSups = 2
    MaxRuns = 4
    MaxVersion = 1
    Ops = {"set", "delete", "trigger", "timeout"}
PROPERTIES
    CallsReturn
    UnregisteredEnds
CHECK_DEADLOCK FALSE
