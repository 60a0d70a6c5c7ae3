SPECIFICATION Spec
CONSTANTS
    p1 = p1
    p2 = p2
    Partition = {p1, p2}
    MaxOffset <- TwoAndQuiet
    MaxInterruptions = 1
    ApplyRulesAtStartup = {FALSE}
    Faults = {"stop"}
INVARIANT FailedStaysPending
CHECK_DEADLOCK FALSE
