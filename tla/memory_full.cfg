\* Drones told to shut down leave their slots and places taken until no slot is
\* free, under a limit that is doubled up to its clamp.
SPECIFICATION FairSpec
CONSTANTS
    Pids = {p1}
    StartingDrones = 4
    Capacity = 8
    GateCapacity = 1
    MaxLoadingCycles = 1
    FullBattery = 2
    ReturnLevel = 1
    IdBound = 9
    Signals = {"s1", "shutdown"}
    SignalBound = 0
INVARIANTS RegistryConsistent ReportAddsUp BaseNeverOverbuilt
PROPERTIES SemaphoreReleased
