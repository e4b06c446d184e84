SPECIFICATION Spec
CONSTANTS
    Accounts = {a1}
    Limits <- MCLimits
    NoAccount = NoAccount
    None = None
    Workers = {w1, w2}
    MonthLength = 1
    MaxDay = 1
    MaxSaves = 1
    MaxLosses = 1
SYMMETRY WorkerSymmetry
INVARIANTS
    SentWithinLimit
    NeverOvercounted
CHECK_DEADLOCK FALSE
