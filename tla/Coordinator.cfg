CONSTANTS
    code1 = code1
    code2 = code2
    name = name
    Codes = {code1, code2}
    NameOf <- OneName
    MaxHosts = 2
    c1 = c1
    c2 = c2
    Connections = {c1, c2}
    OUTBOUND_QUEUE = 1
    Deliveries = {d1, d2}
    DELIVERY_MEMORY = 1
    MaxEvents = 3
SPECIFICATION Spec
INVARIANTS TypeOK EnrolledOnce RegistryIsServed
PROPERTY RegistryUndisturbed
SYMMETRY Symmetry
CHECK_DEADLOCK FALSE
