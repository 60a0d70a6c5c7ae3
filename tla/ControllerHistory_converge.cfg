SPECIFICATION HistorySpec
CONSTANTS
    r1 = r1
    r2 = r2
    t1 = t1
    t2 = t2
    w1 = w1
    w2 = w2
    alice = alice
    bob = bob
    None = None
    Rule = {r1, r2}
    Table = {t1}
    Worker = {w1, w2}
    Principal = {alice, bob}
    Content <- PairContents
    Group <- MCGroup
    Priority <- MCPriority
    TableRegEx <- MCTableRegEx
    InvalidRegEx <- MCInvalidRegEx
    Principals <- MCPrincipals
    Offered <- PairOffered
    ClientErrors = {FALSE}
    OwnerSets <- TwoOwners
    Devices <- OneDevice
    ListLimit = 2
    ApplyRulesAtStartup = TRUE
    Faults = {"crash"}
SYMMETRY Workers
INVARIANT Convergence PatientPutIsKept
