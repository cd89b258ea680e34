SPECIFICATION Spec
CONSTANTS
    Keys = {k1}
    NoEntry = NoEntry
    Absent = Absent
    ReadOnly = FALSE
    MemMax = 9
    MaxInFlight = 1
    CrashKinds = {}
    MaxTx = 0
    MaxWrites = 2
    MaxSegments = 1
    MaxRotations = 1
    MaxRestarts = 0
SYMMETRY KeySymmetry
INVARIANT WalCoversMemtable

CHECK_DEADLOCK FALSE
