SPECIFICATION FairTelemetry
CONSTANTS
    Hosts = {h1}
    Kinds = {"metrics", "scans"}
    ChunkFiles = 1
    Backlog = 1
    Day = 1
    Retention = 1
    MaxClock = 2
    MaxPushes = 3
    MaxLosses = 1
INVARIANTS
    ChangesNeverOvercount
PROPERTIES
    LoggedOnce
    AckedArrives
CHECK_DEADLOCK FALSE
