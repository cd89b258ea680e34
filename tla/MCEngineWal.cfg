SPECIFICATION Spec
CONSTANTS
    Keys = {k1, k2}
    NoEntry = NoEntry
    Absent = Absent
    ReadOnly = FALSE
    MemMax = 9
    MaxInFlight = 0
    CrashKinds = {"close", "tail"}
    MaxTx = 2
    MaxWrites = 3
    MaxSegments = 0
    MaxRotations = 2
    MaxRestarts = 2
SYMMETRY KeySymmetry

PROPERTY RefinesDurableStore
CHECK_DEADLOCK FALSE
