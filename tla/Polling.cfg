CONSTANTS
    org = org
    repo = repo
    r1 = r1
    r2 = r2
    j1 = j1
    Loops = {org, repo}
    Scope <- Sharing
    Jobs = {j1}
    RepositoryOf <- JobIn
    WAKE_MIN_GAP = 1
    IDLE = 1
    NOMINAL = 2
    MAX_OFFLINE_BACKOFF = 3
    DEFAULT_RATE_LIMIT_BACKOFF = 1
    MAX_RATE_LIMIT_BACKOFF = 2
    HOLD_MEMORY = 1
    MaxEpisodes = 2
    MaxOffline = 1
    Jitter = {0}
    DRAIN_DEADLINE = 4
    Drains = {}
    Asked = {0, 3}
SPECIFICATION Spec
INVARIANT TypeOK
PROPERTIES HoldKept ScheduleKept SharedIsRecent
VIEW State
CHECK_DEADLOCK FALSE
