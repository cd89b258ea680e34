SPECIFICATION Spec
CONSTANTS
    Keys = {1, 2}
    NoEntry = NoEntry
    Absent = Absent
    IoError = IoError
    Ttls = {1}
    CohortWindow = 1
    WriteBudget = 1
    Serialized = TRUE
    MaxInFlight = 1
    MaxFlushes = 2
    MaxCycles = 2
    MaxSnapshots = 1
    MaxTime = 2
    MaxRestarts = 1
INVARIANT TypeOK
INVARIANT SnapshotReadable
INVARIANT ManifestHasFiles
INVARIANT SegmentIdsDistinct
PROPERTY CompactionKeepsReads
CHECK_DEADLOCK FALSE
