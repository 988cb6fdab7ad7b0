CONSTANTS
    org = org
    repo = repo
    r1 = r1
    r2 = r2
    j1 = j1
    Loops = {org}
    Scope <- Aggregate
    Jobs = {j1}
    RepositoryOf <- InTheLast
    WAKE_MIN_GAP = 1
    IDLE = 2
    NOMINAL = 3
    MAX_OFFLINE_BACKOFF = 4
    DEFAULT_RATE_LIMIT_BACKOFF = 1
    MAX_RATE_LIMIT_BACKOFF = 4
    HOLD_MEMORY = 2
    MaxEpisodes = 3
    MaxOffline = 2
    Jitter = {0}
    DRAIN_DEADLINE = 4
    Drains = {"stopping", "upgrading"}
    Asked = {0}
SPECIFICATION LiveSpec
PROPERTIES NoStartWhileDraining UpgradeLetsJobsEnd JobNoticed ShutdownEnds
CHECK_DEADLOCK FALSE
