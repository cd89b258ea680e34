SPECIFICATION Spec
CONSTANTS
    Keys = {k1, k2}
    NoEntry = NoEntry
    Absent = Absent
    ReadOnly = FALSE
    MemMax = 9
    MaxInFlight = 1
    CrashKinds = {"close", "kill"}
    MaxTx = 1
    MaxWrites = 4
    MaxSegments = 2
    MaxRotations = 0
    MaxRestarts = 1
SYMMETRY KeySymmetry
INVARIANT TypeOK
INVARIANT SegmentIdsUnique
INVARIANT WalCoversMemtable
INVARIANT LsnMonotonic
PROPERTY FlushKeepsWrites
PROPERTY RefinesDurableStore
CHECK_DEADLOCK FALSE
