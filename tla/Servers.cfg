SPECIFICATION MCSpec
CONSTANTS
    Servers = {n1, n2}
    Outbound = {n2}
    Workers = {w1}
    Operators = {}
    Cron = cron
    Poll = poll
    Checkers = {poll}
    None = none
    MaxJobs = 2
    MaxRetries = 0
    MaxFailures = 0
    MaxDeaths = 0
    Parts = {"nodes", "machine", "pair"}
    JobServers = {n1}
    JobWorkers = {w1, w2}
    Retrying = {op}
    JobMax = 1
    JobRetries = 1
    JobFailures = 2
    JobDeaths = 1
    Machines = {v1, v2}
    Zones = {z1, z2}
    MachineOperators = {o1}
    Refreshes = {TRUE}
    MachineDeaths = 0
    PairDeaths = 1
INVARIANTS
    
    EndedIsGone
    ReadyIsSetUp
CHECK_DEADLOCK FALSE
