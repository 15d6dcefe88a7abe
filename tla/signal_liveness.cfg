\* One signal of any kind at any moment of a drone's life.
SPECIFICATION FairSpec
CONSTANTS
    Pids = {p1}
    StartingDrones = 4
    Capacity = 8
    GateCapacity = 1
    MaxLoadingCycles = 1
    FullBattery = 3
    ReturnLevel = 2
    IdBound = 5
    Signals = {"s1", "s2", "s3", "shutdown", "stop"}
    SignalBound = 1
PROPERTIES SemaphoreReleased OperatorEnds
