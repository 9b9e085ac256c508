SPECIFICATION Spec
CONSTANTS
    None = None
    IntMax = 63
    MsPerSecond = 3
    TicksPerMs = 2
    MaxTime = 30
INVARIANTS LapsesExactly
