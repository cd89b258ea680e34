SPECIFICATION Spec
CONSTANTS
    MaxKey = 3
    BlockLen = 2
    NoEntry = NoEntry
    MaxPage = 2
    MaxWrites = 4
    MaxSegments = 2
INVARIANT ReadPathsAgree
INVARIANT PagesOrdered
INVARIANT PagesComplete
CHECK_DEADLOCK FALSE
