SPECIFICATION FairSpec
CONSTANTS
    alice = alice
    bob = bob
    admin = admin
    None = None
    User = {alice, bob}
    Role = {admin}
    Lifetime = 3
    Slack = 1
    Timeout = 1
    MaxTime = 5
    MaxChanges = 2
INVARIANT TypeOK TokensValid LookupIsTrue
PROPERTY LookupEnds
