SPECIFICATION Spec
CONSTANTS
    Stages = {"idle", "harvest"}
    Clients = {c1, c2}
    MaxFaults = 2
SYMMETRY Symmetry
INVARIANTS
    StatusWasGranted
    StageNotLost
    SavedUnlessFailed
PROPERTIES
    DeletedStaysDeleted
    OnlyEventsUndoClose
