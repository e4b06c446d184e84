SPECIFICATION MCFairSpec
CONSTANTS
    Servers = {n1, n2}
    Outbound = {n2}
    Workers = {w1}
    Operators = {}
    Cron = cron
    Poll = poll
    Checkers = {poll}
    None = none
    MaxJobs = 1
    MaxRetries = 0
    MaxFailures = 0
    MaxDeaths = 0
    Parts = {"nodes", "job", "machine"}
    JobServers = {n1}
    JobWorkers = {w1, w2}
    Retrying = {op}
    JobMax = 1
    JobRetries = 1
    JobFailures = 2
    JobDeaths = 1
    Machines = {v1, v2}
    Zones = {z1, z2}
    MachineOperators = {}
    Refreshes = {FALSE, TRUE}
    MachineDeaths = 1
    PairDeaths = 1
INVARIANTS
    JobRunsAsAllowed
PROPERTIES
    NodeSettles
    JobsEnd
    MachineSettles
CHECK_DEADLOCK FALSE
