CONSTANTS
    n = n
    i = i
    a1 = a1
    a2 = a2
    a3 = a3
    Loops <- MCLoops
    Attempts <- MCAttempts
    Isolated <- MCIsolated
    MinCapacity <- MCMin
    MaxCapacity <- MCMax
    Capacities <- MCCapacities
    MaxDemand = 2
SPECIFICATION Spec
SYMMETRY MCSymmetry
INVARIANTS TypeOK PolicyCeiling StartsWithinDemand
PROPERTY CapacityRespected
