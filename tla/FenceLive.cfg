CONSTANTS
    w1 = w1
    w2 = w2
    Watchdogs = {w1}
    MaxGeneration = 1
    FailureThreshold = 1
    Confirmations = 1
    LaunchOutcomes = {"failed"}
    MaxFaults = 1
SPECIFICATION FairSpec
PROPERTIES LaunchesResume FenceIsFreed
