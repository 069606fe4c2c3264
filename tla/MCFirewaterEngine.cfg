SPECIFICATION BookedFairSpec
CONSTANTS
    Types = {"edge_gas_alarm"}
    CountCap = 1
    MinuteInputs <- MCMinuteInputs
    DefaultMinutes = 1
    DurationLimit = 2
    Scenarios = {"normal", "gas"}
    Nominal = "normal"
    Conditions <- MCConditions
    MaxRuns = 2
    Clients = {c1}
INVARIANTS
    TypeOK
    NoDoubleClose
    RunningMeansTicking
PROPERTIES
    StopEndsAll
    PlantConverges
    KeepsBook
