SPECIFICATION FairSpec
CONSTANTS
    p1 = p1
    p2 = p2
    Partition = {p1, p2}
    MaxOffset <- TwoAndQuiet
    MaxInterruptions = 3
    ApplyRulesAtStartup = {TRUE, FALSE}
    Faults = {"handler", "crash", "stop", "rebalance", "broker"}
INVARIANT TypeOK OnlyTwoLosses
PROPERTY ImplementsInbox IntactGroupsLoseNothing EveryMessageSettles RestartRepairs StopEnds
CHECK_DEADLOCK FALSE
