SPECIFICATION Spec
CONSTANTS
    F = F
    B = B
    U = U
    Contracts = {F}
    Configured = {F}
    Mult <- MCMult
    Supported = {"LMT", "STP"}
    Quantities = {1, 2}
    Prices = {720, 2160}
    Bars <- FrontBars
    Slippage = 720
    RollPairs = {}
    RollFills = {}
    MaxOrders = 2
    MaxEvents = 7
INVARIANTS
    EventsTellBook
    CancelledIsLast
