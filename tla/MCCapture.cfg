SPECIFICATION Spec
CONSTANTS
    h1 = h1
    h2 = h2
    NoHook = NoHook
    Hook = {h1, h2}
    NSub = 1
    MaxLines = 2
    MaxSubLines = 1
    SweepBatch = 1
    KitName = TRUE
    InitialMode = "project"
    MaxKills = 0
    MaxFaults = 1
    MaxSwitches = 1
SYMMETRY HookSymmetry
INVARIANTS
    ExactlyOnce
    MirrorAccounted
PROPERTIES
    ImplementsLedger
    ModeSnapshot
CHECK_DEADLOCK FALSE
