SPECIFICATION FairSpec
CONSTANTS
    a = a
    b = b
    c1 = c1
    c2 = c2
    c3 = c3
    Channels = {a, b}
    Clients = {c1, c2, c3}
    MaxClients = 3
INVARIANTS CountExact NoDangling ServingAccepts
PROPERTIES SignalStops ClosedGoAway
CHECK_DEADLOCK FALSE
