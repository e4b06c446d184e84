SPECIFICATION FairSpec
CONSTANTS
    Accounts = {a1}
    Limits <- MCLimits
    NoAccount = NoAccount
    None = None
    Workers = {w1}
    MonthLength = 2
    MaxDay = 2
    MaxSaves = 1
    MaxLosses = 0
PROPERTIES PastLimitIsKept CountsAreStored
CHECK_DEADLOCK FALSE
