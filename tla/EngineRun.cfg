SPECIFICATION EngineSpec
CONSTANTS
    F = F
    B = B
    Contracts = {F, B}
    Configured = {F, B}
    Mult <- MCMult
    Supported = {"MKT"}
    Quantities <- MCQuantities
    Prices = {}
    Bars <- AllBars
    Slippage = 0
    RollPairs = {}
    RollFills <- AllFills
    MaxOrders = 5
    MaxEvents = 15
    PropGuard = FALSE
    BlockAllTrades = FALSE
    StartingEquity = 25200
    DailyLossLimit = 1
    TrailingMaxLossLimit = 1
    MaxContracts = 1
    InitialEquityPeak = 25200
    Streams <- RollsOnBar
    Closes <- AllCloses
    RollEvents <- RollOnDay3
    Kellys = {100}
    Margin <- MCMargin
    KellyPct = 100
    MarginBudgetPct = 50
    LeverageCap = 3
    TargetPosition = TRUE
    StopLossPct = 50
    SurvivalGate = TRUE
    MinCloses = 3
INVARIANTS
    NoLookAhead
    ExposureCapped
    CurveIsCash
    ReportIsSound
