SPECIFICATION FairSpec
CONSTANTS
    a = a
    b = b
    k1 = k1
    Nodes = {a, b}
    First = a
    Keys = {k1}
    NoEntry = NoEntry
    Corrupt = Corrupt
    Ops = {"Put", "PutOversized", "Delete"}
    MaxWrites = 2
    Cost <- MCCost
    Budget = 6
INVARIANT TypeOK
INVARIANT InSyncAgree
INVARIANT TokensGrow
PROPERTY NeverForgets
PROPERTY PendingUntilApplied
PROPERTY Converges
CHECK_DEADLOCK FALSE
