SPECIFICATION FairSpec
CONSTANTS
    Scenarios = {"nominal", "blackout"}
    Nominal = "nominal"
    MaxRuns = 2
    Clients = {"c1", "c2"}
INVARIANTS
    TypeOK
    NoDoubleClose
    OneLiveTicker
PROPERTIES
    KeepsStreamPromise
    StreamConverges
