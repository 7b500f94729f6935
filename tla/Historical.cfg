SPECIFICATION VerifierSpec
CONSTANTS
    k1 = k1
    k2 = k2
    Keys = {k1, k2}
    Global = Global
    GlobalLimit = 2
    GlobalWindow = 3
    ContractLimit = 1
    ContractWindow = 2
    ConcurrentLimit = 2
    Timeout = 2
    PollInterval = 1
    ClockAdvances = TRUE
    MaxTime = 5
    MaxGrants = 3
    Windows <- MCWindows
    DaySeconds = 3
    Tape = {0, 1, 2, 3, 4, 5, 6}
    Sessions = {3, 4}
    AsOfs <- MCAsOfs
    Sources = {1, 2, 3, 4}
    Tier <- MCTier
    Ibkr = 2
    Liars = {1}
    Resolutions = {"m1", "h1"}
    Verifiable = {k1}
    Moments = {2}
    MaxBars = 2
CHECK_DEADLOCK FALSE
INVARIANTS
    RollingCap
    ConcurrencyCap
    RequestsAreSound
    AnswersAreSound
    VerdictsAreSound
PROPERTIES
    AcquireEnds
