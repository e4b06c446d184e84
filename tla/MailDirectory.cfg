SPECIFICATION MCSpec
CONSTANTS
    Accounts = {a1}
    Limits <- MCLimits
    NoAccount = NoAccount
    None = None
    Workers = {w1}
    MonthLength = 1
    MaxDay = 1
    MaxSaves = 0
    MaxLosses = 0
    Requests = {p1, p2}
    NoRequest = none
    Limit = 2
    MaxIds = 3
    MaxEdits = 3
    MaxFaults = 1
    Mailbox = account
    Group = group
    List = list
    Alias = alias
    Outside = outside
    MaxRequests = 3
SYMMETRY RequestSymmetry
INVARIANTS
    AccountFollows
    CredentialsFollow
    
    AddressHeldOnce
    DirectoryFollows
CHECK_DEADLOCK FALSE
