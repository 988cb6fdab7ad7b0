CONSTANTS
    a1 = a1
    Attempts = {a1}
    Faults = {"unreachable", "lost_delete", "withdrawn", "straggler"}
    START_LIMIT_BURST = 2
    MaxCrashes = 1
SPECIFICATION FairSpec
PROPERTIES SlotReturned EventuallyCleaned
