SPECIFICATION Spec
CONSTANTS
    Docs = {d1, d2}
    Records <- MCRecords
    Queries <- MCQueries
    Filters <- MCFilters
    StopWords <- MCStopWords
    Stem <- MCStem
    Absent = Absent
    InitialCapacity = 1
    LengthMod = 4
    MaxWrites = 4
INVARIANT IndexMatchesStore
INVARIANT BloomCoversPostings
INVARIANT CountsMatch
INVARIANT SearchMatchesStore
INVARIANT SidecarCurrent
CHECK_DEADLOCK FALSE
