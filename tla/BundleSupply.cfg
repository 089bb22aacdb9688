SPECIFICATION Spec
CONSTANTS
    Builds = {"b1", "b2"}
    Sources = {"b1"}
    N = 3
    MaxRejected = 2
    MaxPacks = 1
    MaxServes = 2
    MaxFetches = 2
    MaxFaults = 1
INVARIANTS
    FinalIsRequested
    HostRootWhole
    FailureLeavesClean
PROPERTIES
    ImplementsHandover
    FetchEnds
CHECK_DEADLOCK FALSE
