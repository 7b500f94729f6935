SPECIFICATION Spec
CONSTANTS
    F = F
    B = B
    U = U
    Contracts = {F, B, U}
    Configured = {F, B}
    Mult <- MCMult
    Supported = {"MKT", "OTHER"}
    Quantities = {2}
    Prices = {1440}
    Bars <- NegativeBars
    Slippage = 0
    RollPairs <- Rolls
    RollFills <- NegativeFills
    MaxOrders = 2
    MaxEvents = 6
INVARIANTS
    PositionPriced
    BetLedger
PROPERTIES
    CashAccounting
