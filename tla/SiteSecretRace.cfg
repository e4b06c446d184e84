SPECIFICATION Spec
CONSTANTS
    Sites = {s1}
    Tenants = {t1}
    Operators = {o1}
    None = None
    MaxAttempts = 1
    MaxSecret = 2
INVARIANT ActiveSiteHasSecret
CHECK_DEADLOCK FALSE
