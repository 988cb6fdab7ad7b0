CONSTANTS
    w1 = w1
    w2 = w2
    Watchdogs = {w1}
    MaxGeneration = 2
    FailureThreshold = 1
    Confirmations = 1
    LaunchOutcomes = {"started", "failed"}
    MaxFaults = 1
SPECIFICATION Spec
INVARIANTS TypeOK HeldIsHeld LaunchNotInterrupted
PROPERTIES ClaimsAreRespected
