SPECIFICATION Spec
CONSTANTS
    h1 = h1
    h2 = h2
    p1 = p1
    p2 = p2
    p3 = p3
    Hook = {h1, h2}
    Payload = {p1, p2, p3}
    DrainBatch = 1
    MaxItems = 2
    InitialIdentity = "local"
    MaxFaults = 2
    MaxKills = 1
    MaxUserSteps = 2
SYMMETRY Symmetry
INVARIANTS
    ParentsFirst
PROPERTY
    ImplementsDelivery
CHECK_DEADLOCK FALSE
