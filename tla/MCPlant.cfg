SPECIFICATION PlantSpec
CONSTANTS
    Unknown = "unknown"
    Noises <- MCNoises
INVARIANTS
    ScenarioIsHeard
    InterlocksAgree
