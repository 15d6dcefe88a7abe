\* Three drones at the gate with its two tokens.
SPECIFICATION Spec
CONSTANTS
    Pids = {p1, p2, p3}
    StartingDrones = 8
    Capacity = 16
    GateCapacity = 2
    MaxLoadingCycles = 1
    FullBattery = 3
    ReturnLevel = 2
    IdBound = 3
    Signals = {}
    SignalBound = 0
SYMMETRY Symmetry
INVARIANTS GateWaitIsTimed
