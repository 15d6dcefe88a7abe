\* Two starting drones, nobody told to stop from outside.
SPECIFICATION SimFairSpec
CONSTANTS
    Pids = {p1}
    StartingDrones = 2
    Capacity = 4
    GateCapacity = 2
    MaxLoadingCycles = 1
    FullBattery = 3
    ReturnLevel = 2
    IdBound = 2
    Signals = {"s1", "s2", "s3"}
    SignalBound = 0
    AddRepeats = 3
    KillRepeats = 1
PROPERTIES EndsWhenEmpty
