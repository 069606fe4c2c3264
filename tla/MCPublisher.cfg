SPECIFICATION Spec
CONSTANTS
    Events = {e1, e2}
    Gateways = {g1, g2}
    Relays = {r1, r2}
    Unset = Unset
    EnvGateway = g1
    EnvRelay = r1
    MaxPuts = 2
    MaxKills = 1
INVARIANTS
    PublishedOnce
    ConfigSurvives
PROPERTIES
    KeepsDeliveryPromise
CHECK_DEADLOCK FALSE
