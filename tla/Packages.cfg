CONSTANTS
    a1 = a1
    a2 = a2
    Attempts = {a1, a2}
    MaxVersion = 3
    WINDOW = 1
    CHECK_INTERVAL = 1
    REQUEST_TIMEOUT = 1
    RETRY_BUDGET = 2
    MAX_ATTEMPTS = 2
    MaxFaults = 2
SPECIFICATION LiveSpec
INVARIANT TypeOK
PROPERTIES ReusedInTime LeasedIsKept LaunchesGoOn
