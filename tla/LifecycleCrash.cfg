CONSTANTS
    a1 = a1
    Attempts = {a1}
    Faults = {"unreachable", "identity_write", "slow_disk", "step", "lost_delete", "withdrawn", "straggler"}
    START_LIMIT_BURST = 2
    MaxCrashes = 2
SPECIFICATION Spec
INVARIANTS TypeOK AccountedRunner OwnKillsAreOwned CompletedMeansAssigned
PROPERTIES JournalKeepsItsPromise
