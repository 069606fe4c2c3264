SPECIFICATION BookedFairSpec
CONSTANTS
    Types = {"edge_gas_alarm"}
    CountCap = 1
    MinuteInputs = {}
    DefaultMinutes = 1
    DurationLimit = 2
    Scenarios = {"normal"}
    Nominal = "normal"
    Conditions <- MCConditions
    MaxRuns = 2
    Clients = {c1}
PROPERTIES
    StoppedRunLeaves
