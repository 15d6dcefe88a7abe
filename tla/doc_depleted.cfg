\* One drone, no signals.
SPECIFICATION Spec
CONSTANTS
    Pids = {p1}
    StartingDrones = 4
    Capacity = 8
    GateCapacity = 2
    MaxLoadingCycles = 1
    FullBattery = 3
    ReturnLevel = 2
    IdBound = 5
    Signals = {}
    SignalBound = 0
PROPERTIES DepletedIsDestroyed
