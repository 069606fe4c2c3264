SPECIFICATION Spec
CONSTANTS
    Stages = {"idle"}
    Clients = {c1, c2}
    MaxFaults = 0
INVARIANTS
    CloseStands
