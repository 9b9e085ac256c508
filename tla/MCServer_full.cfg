SPECIFICATION Spec
CONSTANTS
    a = a
    b = b
    c1 = c1
    c2 = c2
    c3 = c3
    Channels = {a}
    Clients = {c1, c2}
    MaxClients = 2
INVARIANTS RefusedOnlyWhenFull
CHECK_DEADLOCK FALSE
