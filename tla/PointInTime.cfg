SPECIFICATION Spec
CONSTANTS
    v1 = v1
    v2 = v2
    WeekLength = 5
    Series = "NFP"
    MonthLength = 3
    ReleaseDay = 0
    Values = {v1, v2}
    Missing = Missing
    Lookback = 2
    MayBeLate = TRUE
    MaxDay = 7
    MaxRevisions = 1
    MaxAsked = 1
SYMMETRY Symmetry
CHECK_DEADLOCK FALSE
INVARIANTS
    BacktestIsLive
    NothingIsEarly
