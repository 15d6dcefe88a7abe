\* Two drones, room for both in the base, one gate token, one suicide command.
SPECIFICATION Spec
CONSTANTS
    Pids = {p1, p2}
    StartingDrones = 6
    Capacity = 12
    GateCapacity = 1
    MaxLoadingCycles = 1
    FullBattery = 3
    ReturnLevel = 2
    IdBound = 3
    Signals = {"s3"}
    SignalBound = 1
SYMMETRY Symmetry
INVARIANTS TypeOK RegistryConsistent SlotsOwned GateTokensConserved ReportAddsUp NothingLeftBehind
