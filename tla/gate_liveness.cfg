\* Two drones share one gate token until both have come to their end.
SPECIFICATION FairSpec
CONSTANTS
    Pids = {p1, p2}
    StartingDrones = 6
    Capacity = 12
    GateCapacity = 1
    MaxLoadingCycles = 1
    FullBattery = 3
    ReturnLevel = 2
    IdBound = 2
    Signals = {}
    SignalBound = 0
PROPERTIES GateKeepsMoving OperatorEnds
