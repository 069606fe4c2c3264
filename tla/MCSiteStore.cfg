SPECIFICATION Spec
CONSTANTS
    Sites = {"plant", "farm"}
    Zones = {"block"}
    Devices = {"pump"}
    Contacts = {"ehs"}
    SeedSite = "plant"
    SeedZone = "block"
    SeedDevice = "pump"
    SeedContact = "ehs"
    Nowhere = ""
    Clients = {c1, c2}
    MaxFaults = 2
SYMMETRY Symmetry
INVARIANTS
    ZonesHaveSites
    NoOrphansOnDisk
    SavedUnlessFailed
    ProbeNotLost
    SeedStands
