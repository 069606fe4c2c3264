SPECIFICATION FairSpec
CONSTANTS
    Types = {"gas", "tank"}
    CountCap = 2
    MinuteInputs <- MCMinuteInputs
    DefaultMinutes = 2
    DurationLimit = 3
INVARIANTS
    PresentIsListed
    RecurrenceIsLoud
PROPERTIES
    ShelfHonoured
    ShelfExpires
