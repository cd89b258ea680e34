SPECIFICATION Spec
CONSTANTS
    M = 2
    EfConstruction = 100
    MaxKey = 4
    Vectors <- MCVectors
    Puts <- MCPuts
    Deletes = {2, 3}
    Contents <- MCContents
    Absent = Absent
    Torn = Torn
    Failed = Failed
    NoEntry = NoEntry
    EfSearch = 50
    Layerings <- MCLayerings
    MaxRamNodes = 3
    MaxWrites = 2
    MaxBuilds = 2
    MaxPast = 2
INVARIANT GraphWellFormed
INVARIANT ServedIndexAgrees
INVARIANT SearchIsExact
CHECK_DEADLOCK FALSE
