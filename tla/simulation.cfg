\* A short mission plan against one drone at a time, signals from outside.
SPECIFICATION SimFairSpec
CONSTANTS
    Pids = {p1}
    StartingDrones = 4
    Capacity = 8
    GateCapacity = 1
    MaxLoadingCycles = 1
    FullBattery = 2
    ReturnLevel = 1
    IdBound = 2
    Signals = {"s1", "s2", "s3", "stop"}
    SignalBound = 0
    AddRepeats = 1
    KillRepeats = 1
INVARIANTS DestroyedLast SuccessMeansClosed
PROPERTIES ImplementsMain PlanEndsSimulation InterruptEnds
