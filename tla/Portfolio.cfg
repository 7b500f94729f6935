SPECIFICATION PortfolioSpec
CONSTANTS
    X = X
    Y = Y
    XF = XF
    XB = XB
    YF = YF
    YB = YB
    Contracts = {XF, XB, YF, YB}
    Expiries = {XF, XB, YF, YB}
    Configured = {XF, XB, YF, YB}
    Root <- MCRoot
    Target <- MCTarget
    Ltd <- MCLtd
    BackOf <- MCBackOf
    Roots <- MCRoots
    Haves <- MCHaves
    Days = {1, 2, 3, 4}
    Mult <- MCMult
    Supported = {"MKT"}
    Quantities <- MCQuantities
    Prices = {}
    Bars <- MCBars
    Slippage = 0
    RollPairs = {}
    RollFills = {2520, 5040}
    MaxOrders = 8
    MaxEvents = 40
    Opens <- MCOpens
    Closes <- MCCloses
    Directions <- MCDirections
    Kelly = 100
    Weights <- MCWeights
    MinBars = 3
    Margin = 5040
    StartingEquity = 25200
    TargetPosition = TRUE
    BlockAllTrades = FALSE
    KellyPct = 100
    MarginBudgetPct = 50
    LeverageCap = 3
INVARIANTS
    SeriesAreSound
    PortfolioIsSound
    LegCapped
    BlendedCurveIsCash
PROPERTIES
    RollIsPaired
