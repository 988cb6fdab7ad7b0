CONSTANTS
    p1 = p1
    p2 = p2
    repo = repo
    other = other
    r1 = r1
    r2 = r2
    a1 = a1
    a2 = a2
    Policies = {p1, p2}
    RepositoryOf <- OneRepository
    Roots = {r1}
    RootsOf <- AnyRoot
    Demanded = {p1, p2}
    Ceiling = 1
    MaxSlot = 2
    Attempts = {a1, a2}
    MaxChanges = 2
    MaxCrashes = 0
SPECIFICATION Spec
CHECK_DEADLOCK FALSE
INVARIANT RunnerUndisturbed
