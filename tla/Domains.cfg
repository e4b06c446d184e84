SPECIFICATION MCSpec
CONSTANTS
    Owners = {o1, o2}
    Records = {r1}
    Ttls = {1, 2}
    DefaultTtl = 1
    Workers = {w1, w2}
    MaxTurns = 4
    MaxFaults = 1
    Own = own
    Customs = {custom}
    NoDomain = none
    Poller = poller
    Operators = {o1, o2}
    MaxTokens = 2
    MaxEdits = 2
INVARIANTS
    RecordsMatchRows
    
PROPERTIES
    Confirmed
    SiteDomainArrives
CHECK_DEADLOCK FALSE
