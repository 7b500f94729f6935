SPECIFICATION EngineSpec
CONSTANTS
    F = F
    B = B
    Contracts = {F}
    Configured = {F}
    Mult <- MCMult
    Supported = {"MKT"}
    Quantities <- MCQuantities
    Prices = {}
    Bars <- WideBars
    Slippage = 0
    RollPairs = {}
    RollFills <- NoFills
    MaxOrders = 5
    MaxEvents = 15
    PropGuard = TRUE
    BlockAllTrades = FALSE
    StartingEquity = 25200
    DailyLossLimit = 9000
    TrailingMaxLossLimit = 6000
    MaxContracts = 3
    InitialEquityPeak = 25200
    Streams <- FiveBars
    Closes = {2520, 7560}
    RollEvents <- NoRolls
    Kellys = {100}
    Margin <- MCMargin
    KellyPct = 100
    MarginBudgetPct = 50
    LeverageCap = 3
    TargetPosition = FALSE
    StopLossPct = 0
    SurvivalGate = FALSE
    MinCloses = 3
INVARIANTS
    OrdersFillNextBar
    PositionCap
PROPERTIES
    HaltedEngineShrinks
