CONSTANTS
    code1 = code1
    code2 = code2
    name = name
    Codes = {code1, code2}
    NameOf <- OwnName
    MaxHosts = 2
    c1 = c1
    c2 = c2
    Connections = {c1, c2}
    OUTBOUND_QUEUE = 1
    Deliveries = {}
    DELIVERY_MEMORY = 1
    MaxEvents = 1
SPECIFICATION LiveSpec
PROPERTIES GoneIsDisconnected JoinedComesOnline
CHECK_DEADLOCK FALSE
