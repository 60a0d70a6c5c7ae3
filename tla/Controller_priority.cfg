SPECIFICATION Spec
CONSTANTS
    r1 = r1
    r2 = r2
    t1 = t1
    t2 = t2
    w1 = w1
    w2 = w2
    alice = alice
    bob = bob
    None = None
    Rule = {r1, r2}
    Table = {t1}
    Worker = {w1}
    Principal = {alice, bob}
    Content <- GroupContents
    Group <- MCGroup
    Priority <- MCPriority
    TableRegEx <- MCTableRegEx
    InvalidRegEx <- MCInvalidRegEx
    Principals <- MCPrincipals
    Offered <- GroupOffered
    ClientErrors = {FALSE}
    OwnerSets <- OneOwner
    Devices <- NoDevice
    ListLimit = 1
    ApplyRulesAtStartup = TRUE
    Faults = {}
PROPERTY PriorityRespected
