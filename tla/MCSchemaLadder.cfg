SPECIFICATION FairSpec
CONSTANTS
    c1 = c1
    c2 = c2
    Conn = {c1, c2}
    MaxFaults = 1
    MaxKills = 1
INVARIANTS
    ReadyIsFull
PROPERTIES
    HonestStamps
    BroughtUpToDate
CHECK_DEADLOCK FALSE
