\* The gate with its two tokens.
SPECIFICATION Spec
CONSTANTS
    Pids = {p1, p2}
    StartingDrones = 6
    Capacity = 12
    GateCapacity = 2
    MaxLoadingCycles = 1
    FullBattery = 3
    ReturnLevel = 2
    IdBound = 2
    Signals = {}
    SignalBound = 0
SYMMETRY Symmetry
INVARIANTS OneDirection
