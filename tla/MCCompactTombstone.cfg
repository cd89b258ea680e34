SPECIFICATION Spec
CONSTANTS
    Keys = {1}
    NoEntry = NoEntry
    Absent = Absent
    IoError = IoError
    Ttls = {0}
    CohortWindow = 2
    WriteBudget = 9
    Serialized = TRUE
    MaxInFlight = 1
    MaxFlushes = 2
    MaxCycles = 1
    MaxSnapshots = 0
    MaxTime = 4
    MaxRestarts = 0
INVARIANT TombstonesDurable

CHECK_DEADLOCK FALSE
