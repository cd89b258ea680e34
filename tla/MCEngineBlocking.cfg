SPECIFICATION Spec
CONSTANTS
    Keys = {k1, k2}
    NoEntry = NoEntry
    Absent = Absent
    ReadOnly = FALSE
    MemMax = 2
    MaxInFlight = 0
    CrashKinds = {}
    MaxTx = 2
    MaxWrites = 4
    MaxSegments = 3
    MaxRotations = 2
    MaxRestarts = 0
SYMMETRY KeySymmetry
INVARIANT KillLosesNothing
INVARIANT WalNamesChronological
PROPERTY RefinesDurableStore
CHECK_DEADLOCK FALSE
