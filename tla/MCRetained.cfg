SPECIFICATION Spec
CONSTANTS
    h1 = h1
    h2 = h2
    p1 = p1
    p2 = p2
    p3 = p3
    Hook = {h1, h2}
    Payload = {p1, p2, p3}
    DrainBatch = 1
    MaxItems = 1
    InitialIdentity = "auth"
    MaxFaults = 2
    MaxKills = 0
    MaxUserSteps = 0
INVARIANT
    Retained
CHECK_DEADLOCK FALSE
