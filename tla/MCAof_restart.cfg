SPECIFICATION Spec
CONSTANTS
    k1 = k1
    k2 = k2
    txt = txt
    Torn = Torn
    None = None
    Keys = {k1, k2}
    Text = {txt}
    IntMax = 1
    MsPerSecond = 1
    TicksPerMs = 1
    Commands <- MCCommands
    Faults <- AllFaults
    MaxLog = 3
    MaxTime = 1
INVARIANTS UnexpiringRestored LogReachable GapFree
PROPERTIES EntriesKept
