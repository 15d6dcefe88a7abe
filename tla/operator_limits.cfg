\* The whole operator loop under two commands, two drones at a time.
SPECIFICATION Spec
CONSTANTS
    Pids = {p1, p2}
    StartingDrones = 4
    Capacity = 8
    GateCapacity = 1
    MaxLoadingCycles = 1
    FullBattery = 3
    ReturnLevel = 2
    IdBound = 3
    Signals = {"s1", "s2"}
    SignalBound = 2
SYMMETRY Symmetry
INVARIANTS MutualExclusion
PROPERTIES AdmissionRespectsLimit ImplementsFleet
