SPECIFICATION FairSpec
CONSTANTS
    h1 = h1
    h2 = h2
    NoHook = NoHook
    Hook = {h1, h2}
    NSub = 2
    MaxLines = 1
    MaxSubLines = 1
    SweepBatch = 1
    KitName = FALSE
    InitialMode = "central"
    MaxKills = 1
    MaxFaults = 0
    MaxSwitches = 0
PROPERTY
    AllConsumed
CHECK_DEADLOCK FALSE
