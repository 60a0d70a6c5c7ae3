SPECIFICATION Spec
CONSTANTS
    r1 = r1
    r2 = r2
    t1 = t1
    t2 = t2
    w1 = w1
    w2 = w2
    alice = alice
    bob = bob
    None = None
    Rule = {r1, r2}
    Table = {t1}
    Worker = {w1, w2}
    Principal = {alice, bob}
    Content <- MixedContents
    Group <- MCGroup
    Priority <- MCPriority
    TableRegEx <- MCTableRegEx
    InvalidRegEx <- MCInvalidRegEx
    Principals <- MCPrincipals
    Offered <- MixedOffered
    ClientErrors = {FALSE}
    OwnerSets <- TwoOwners
    Devices <- OneDevice
    ListLimit = 1
    ApplyRulesAtStartup = TRUE
    Faults = {"template", "lookup", "database", "crash"}
SYMMETRY Workers
INVARIANT TypeOK Consistent
PROPERTY ImplementsRuleBook
