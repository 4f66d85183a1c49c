SPECIFICATION TriggerSpec
CONSTANTS
    Callers = {c1, c2}
    MaxSups = 2
    MaxRuns = 4
    MaxVersion = 2
    Ops = {"set", "trigger", "timeout"}
PROPERTIES
    ConvergesOnTrigger
CHECK_DEADLOCK FALSE
