SPECIFICATION FairSpec
CONSTANTS
    Deliverers = {d1, d2}
    Subscribers = {s1}
    Readers = {r1}
    QueueCap = 1
    LogCap = 2
    MaxEvents = 1
    MaxTicks = 2
    Free = Free
INVARIANTS
    TypeOK
    NothingMissed
    ToldOnce
PROPERTIES
    StoredStandsOnceTold
    NobodyIsStuck
