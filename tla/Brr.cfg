SPECIFICATION BrrSpec
CONSTANTS
    Deployment = {"bitstamp_spot", "coinbase_advanced", "kraken_spot"}
    Contracts = {"BTCUSD"}
    Prices = {12, 24}
    MaxTime = 4
    MaxRows = 4
    DayLength = 4
    WindowStart = 2
    NumPartitions = 2
    FixDates = {0}
    MaxFixes = 1
CHECK_DEADLOCK FALSE
INVARIANTS
    FixIsSound
    Reproducible
