SPECIFICATION FairSpec
CONSTANTS
    f = f
    g = g
    p = p
    q = q
    File = {f, g}
    Project = {p, q}
    ProjectOf <- OwnProject
    h = h
    Hook = {h}
    MaxLines = 2
    MaxDeletes = 1
    MaxImports = 2
INVARIANTS
    CursorCovered
    CountedOnceUnlessImported
    ValidatedIsWhole
PROPERTY
    RecordedAgain
CHECK_DEADLOCK FALSE
