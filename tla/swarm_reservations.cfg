\* Two drones, two places in the base, one gate token; a drone told to shut down
\* may leave its place taken behind it.
SPECIFICATION Spec
CONSTANTS
    Pids = {p1, p2}
    StartingDrones = 6
    Capacity = 12
    GateCapacity = 1
    MaxLoadingCycles = 1
    FullBattery = 3
    ReturnLevel = 2
    IdBound = 3
    Signals = {"shutdown"}
    SignalBound = 1
SYMMETRY Symmetry
INVARIANTS ReservationsMatch EntryIsReserved
PROPERTIES AdmissionRespectsLimit ImplementsFleet
