SPECIFICATION Spec
CONSTANTS
    MaxKey = 2
    IndexKeys = {2}
    NoEntry = NoEntry
    CacheMax = 2
    MaxWrites = 2
    MaxLsn = 3
    MaxSegments = 2
    MaxArchived = 2
    MaxRestarts = 1
    MaxTogether = 4
INVARIANT NewestSurvives
INVARIANT GetReadsThrough
INVARIANT RangeReadsThrough
INVARIANT FastPathsAgree
INVARIANT CacheAccounting
CHECK_DEADLOCK FALSE
