SPECIFICATION Spec
CONSTANTS
    Keys = {"a", "b"}
    Cost = 2
    Burst = 1
    StaleAfter = 3
    Clients = {c1, c2}
    MaxWait = 1
    MaxClock = 8
SYMMETRY Symmetry
INVARIANTS
    WindowBound
    StaleBucketsGo
