SPECIFICATION Spec
CONSTANTS
    c1 = c1
    Contracts = {c1}
    Prices = {100, 104}
    Missing = Missing
    DayLength = 2
    YearLength = 1
    MaxRevisions = 1
    MaxTime = 2
    MaxPages = 3
    Sources = {1, 2, 3}
    Tier <- MCTier
    Cme = 1
    Vendor = 2
    Echo = 3
    Faulty = {2}
    MaxVerdicts = 2
CHECK_DEADLOCK FALSE
INVARIANTS
    ArchiveIsSound
    ReplayIsLive
    VerifiedWasPublished
    QuorumIsSound
