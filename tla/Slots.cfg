CONSTANTS
    p1 = p1
    p2 = p2
    repo = repo
    other = other
    r1 = r1
    r2 = r2
    a1 = a1
    a2 = a2
    Policies = {p1, p2}
    RepositoryOf <- TwoRepositories
    Roots = {r1, r2}
    RootsOf <- OnlyOfP1
    Demanded = {p1}
    Ceiling = 1
    MaxSlot = 2
    Attempts = {a1, a2}
    MaxChanges = 2
    MaxCrashes = 1
SPECIFICATION LiveSpec
CHECK_DEADLOCK FALSE
INVARIANTS TypeOK RunnerUndisturbed CleanedLeavesNothing
PROPERTIES WorkIsKept SlotGivenBack
