SPECIFICATION FairSpec
CONSTANTS
    h1 = h1
    p1 = p1
    p2 = p2
    p3 = p3
    Hook = {h1}
    Payload = {p1, p2, p3}
    DrainBatch = 1
    MaxItems = 2
    InitialIdentity = "auth"
    MaxFaults = 2
    MaxKills = 1
    MaxUserSteps = 0
PROPERTY
    EventuallyDelivered
CHECK_DEADLOCK FALSE
