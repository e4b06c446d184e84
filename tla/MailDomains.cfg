SPECIFICATION FairDomainSpec
CONSTANTS
    Policies = {spf}
    Selectors = {rsa}
    Checkers = {w1, w2}
    Free = free
    MaxJobs = 1
    MaxChanges = 3
    MaxDeaths = 1
INVARIANTS
    ClusterFollows
PROPERTY
    VouchingEnds
CHECK_DEADLOCK FALSE
