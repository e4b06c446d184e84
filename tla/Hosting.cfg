SPECIFICATION MCSpec
CONSTANTS
    Sites = {s1}
    Tenants = {t1}
    Operators = {o1}
    None = None
    MaxAttempts = 2
    MaxSecret = 2
    Requests = {r1}
    MaxLabel = 2
    Calls = {c1, c2}
    Retryers = {o1, o2}
    OtpAttempts = 2
    MaxDeaths = 2
    Placed = {p1, p2, p3}
    Claims = {c1}
    Pool = pool
    MaxServers = 3
    MaxSites = 1
    ReadySites = 2
    MinFree = 0
    AutoCreate = TRUE
    MaxFaults = 1
INVARIANTS
    NothingCreatedTwice
    ServedSitesExist
    ServersNotOverfull
PROPERTIES
    NoSignupWaitsOnFailedSite
    DropIsFinal
    SetupSettles
    SiteEndsProcessing
    SignupSettles
    WaitingIsPlaced
CHECK_DEADLOCK FALSE
